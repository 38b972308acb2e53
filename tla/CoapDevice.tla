----------------------------- MODULE CoapDevice -----------------------------
(***************************************************************************)
(* The CoAP gateway with the devices it serves                             *)
(* (utils/coap/coap-test-node.py): each has one resource, an LED that is   *)
(* read and written, a robot (or a script) that is written and does not    *)
(* confirm it the way the gateway expects, or a sensor that posts readings *)
(* by itself.                                                              *)
(*                                                                         *)
(* CoAP runs over UDP: requests and answers are lost, delayed and          *)
(* overtaken.  While the gateway awaits the answer to a GET (discovery) or *)
(* a PUT (a user's update), the device posts, is written again, restarts.  *)
(* What is displayed comes from three sources that race: the answer to a   *)
(* GET, the POST that the device makes inside its PUT handler, and the     *)
(* confirmation of the PUT.  Attempts to connect to the broker fail or     *)
(* succeed as in GatewayBase; the loss of a connection in use is left to   *)
(* the runs of CoapGateway.                                                *)
(***************************************************************************)
EXTENDS CoapGateway

CONSTANTS
  Initial,  \* the value of a resource when the device starts
  Failed,   \* the text of an error, which the gateway takes for a value
  MaxPuts   \* bound: PUT requests that are sent and not answered

ASSUME DistinctValues == {Initial, Failed} \subseteq Values /\ Initial # Failed
ASSUME AskedIsNoValue == "asked" \notin Values

VARIABLES
  kind,     \* how each device was started: --led, --robot, --temperature
  value,    \* self.value of the resource of each device
  held,     \* history: the values a device had or sent
  gets,     \* the GET of a discovery: no answer yet, or the answer's payload
  puts,     \* PUT requests: sent, or handled and render_put suspended
  posts,    \* POST requests of the devices on their way
  answered  \* the answer to the PUT the gateway awaits is on its way

deviceVars == <<kind, value, held, gets, puts, posts, answered>>
allVars == <<vars, deviceVars>>

Readings == Values \ {Failed}

-----------------------------------------------------------------------------
DeviceInit ==
  /\ Init
  /\ kind     \in [Uids -> {"led", "robot", "sensor"}]
  /\ value    = [uid \in Uids |-> Initial]
  /\ held     = [uid \in Uids |-> {Initial}]
  /\ gets     = {}
  /\ puts     = {}
  /\ posts    = {}
  /\ answered = FALSE

Get(t, answer) == [uid |-> t.uid, current |-> t.current, answer |-> answer]

TaskOf(g) == Task(g.uid, g.current)

GetsAfterReplacing(uids) ==
  {[g EXCEPT !.current = @ /\ g.uid \notin uids] : g \in gets}

(***************************************************************************)
(* Alive checks and discovery.                                             *)
(***************************************************************************)
\* Mutant: what the comment of handle_coap_check says, a check of a known
\* node only proves that it is online.
Alive_KeepsKnown(uid) ==
  IF uid \in nodes
    THEN age' = [age EXCEPT ![uid] = 0]
         /\ UNCHANGED <<baseVars, mapping, ip, tasks, deviceVars>>
    ELSE /\ \E addr \in Addrs : CoapCheck(uid, addr)
         /\ gets' = GetsAfterReplacing({uid})
                      \cup {Get(t, "asked") : t \in tasks' \cap {Task(uid, TRUE)}}
         /\ UNCHANGED <<kind, value, held, puts, posts, answered>>

\* _send_alive, and the first request of the discovery it starts.
Alive(uid) ==
  /\ \E addr \in Addrs : CoapCheck(uid, addr)
  /\ gets' = GetsAfterReplacing({uid})
               \cup {Get(t, "asked") : t \in tasks' \cap {Task(uid, TRUE)}}
  /\ UNCHANGED <<kind, value, held, puts, posts, answered>>

\* render_get, and its answer on its way; or the request fails.
GetAnswered(g, answer) ==
  /\ g \in gets /\ g.answer = "asked"
  /\ gets' = (gets \ {g}) \cup {Get(TaskOf(g), answer)}
  /\ UNCHANGED <<vars, kind, value, held, puts, posts, answered>>

DiscoveryGoesOn(g) ==
  /\ g \in gets /\ g.answer # "asked"
  /\ DiscoveryForwards(TaskOf(g), g.answer)
  /\ gets' = gets \ {g}
  /\ UNCHANGED <<kind, value, held, puts, posts, answered>>

DiscoveryStops(t) ==
  /\ \A g \in gets : TaskOf(g) # t
  /\ DiscoveryEnds(t)
  /\ UNCHANGED deviceVars

\* The list of resources was not fetched: the error's text is no resource.
DiscoveryFails(t) ==
  /\ DiscoveryEnds(t)
  /\ gets' = {g \in gets : TaskOf(g) # t}
  /\ UNCHANGED <<kind, value, held, puts, posts, answered>>

(***************************************************************************)
(* A user's update: on_broker_message sends the PUT, render_put takes the  *)
(* value over, posts it to the gateway, waits until that is answered or    *)
(* has timed out, and answers 2.04 Changed.                                *)
(***************************************************************************)
Put(p, stage, awaited) ==
  [uid |-> p.uid, value |-> p.value, stage |-> stage, awaited |-> awaited]

\* The gateway's task runs on, and may send a PUT.
LoopRuns ==
  /\ LoopResumes
  /\ puts' = puts \cup {Put(p, "sent", TRUE) : p \in put' \ put}
  /\ UNCHANGED <<kind, value, held, gets, posts, answered>>

PutHandled(p) ==
  /\ p \in puts /\ p.stage = "sent" /\ kind[p.uid] = "led"
  /\ value' = [value EXCEPT ![p.uid] = p.value]
  /\ held'  = [held EXCEPT ![p.uid] = @ \cup {p.value}]
  /\ posts' = posts \cup {[uid |-> p.uid, value |-> p.value]}
  /\ puts'  = (puts \ {p}) \cup {Put(p, "handled", p.awaited)}
  /\ UNCHANGED <<vars, kind, gets, answered>>

\* A robot posts nothing and answers 2.05 Content: for the gateway, not Changed.
RobotPutHandled(p) ==
  /\ p \in puts /\ p.stage = "sent" /\ kind[p.uid] = "robot"
  /\ value' = [value EXCEPT ![p.uid] = p.value]
  /\ held'  = [held EXCEPT ![p.uid] = @ \cup {p.value}]
  /\ puts'  = puts \ {p}
  /\ UNCHANGED <<vars, kind, gets, posts, answered>>

PutAnswered(p) ==
  /\ p \in puts /\ p.stage = "handled"
  /\ puts'     = puts \ {p}
  /\ answered' = (answered \/ p.awaited)
  /\ UNCHANGED <<vars, kind, value, held, gets, posts>>

\* Nobody waits for the PUTs that were sent before.
PutOver ==
  /\ puts'     = {Put(p, p.stage, FALSE) : p \in puts}
  /\ answered' = FALSE
  /\ UNCHANGED <<kind, value, held, gets, posts>>

PutConfirmed == answered /\ (\E p \in put : PutChanged(p)) /\ PutOver

\* Mutant: the value is forwarded whatever the code of the answer.
PutNotConfirmed_Forwards == (\E p \in put : PutChanged(p)) /\ PutOver

\* The request fails, or the answer is another one than 2.04 Changed.
PutNotConfirmed == (\E p \in put : PutFails(p)) /\ PutOver

\* Periodic readings, each when the last one has been answered; the value that
\* a GET returns stays the initial one.
SensorPosts(uid, v) ==
  /\ kind[uid] = "sensor"
  /\ \A q \in posts : q.uid # uid
  /\ held'  = [held EXCEPT ![uid] = @ \cup {v}]
  /\ posts' = posts \cup {[uid |-> uid, value |-> v]}
  /\ UNCHANGED <<vars, kind, value, gets, puts, answered>>

\* handle_coap_post: forwarded if the address is that of a cached node.
PostArrives(q) ==
  /\ q \in posts
  /\ posts' = posts \ {q}
  /\ \E addr \in Addrs :
       /\ <<q.uid, addr>> \in Sources
       /\ \/ CoapPost(addr, q.value)
          \/ (Mapped(addr) => mapping[addr] \notin nodes) /\ UNCHANGED vars
  /\ UNCHANGED <<kind, value, held, gets, puts, answered>>

(***************************************************************************)
(* Faults.                                                                 *)
(***************************************************************************)
Lost ==
  /\ \/ \E p \in puts : p.stage = "sent" /\ puts' = puts \ {p} /\ UNCHANGED posts
     \/ \E q \in posts : posts' = posts \ {q} /\ UNCHANGED puts
  /\ UNCHANGED <<vars, kind, value, held, gets, answered>>

Restarts(uid) ==
  /\ value' = [value EXCEPT ![uid] = Initial]
  /\ puts'  = {p \in puts : p.uid = uid => p.stage = "sent"}
  /\ UNCHANGED <<vars, kind, held, gets, posts, answered>>

Removed ==
  \E gone \in SUBSET Uids :
    /\ CheckDeadNodes(gone)
    /\ gets' = GetsAfterReplacing(gone)
    /\ UNCHANGED <<kind, value, held, puts, posts, answered>>

\* A user asks for a value (bound: MaxPuts).
UserUpdates(uid, v) ==
  /\ Cardinality(puts) < MaxPuts
  /\ MessageArrives(ValueUpdate(uid, v))
  /\ UNCHANGED <<coapVars, deviceVars>>

-----------------------------------------------------------------------------
GetAnswers == \E g \in gets : GetAnswered(g, value[g.uid])
GetFails   == \E g \in gets : GetAnswered(g, Failed)

DeviceNext ==
  \/ LoopRuns \/ PutConfirmed \/ PutNotConfirmed
  \/ GetAnswers \/ GetFails
  \/ \E g \in gets : DiscoveryGoesOn(g)
  \/ \E t \in tasks : DiscoveryStops(t) \/ DiscoveryFails(t)
  \/ \E p \in puts : PutHandled(p) \/ RobotPutHandled(p) \/ PutAnswered(p)
  \/ \E q \in posts : PostArrives(q)
  \/ Lost \/ Removed
  \/ \E uid \in Uids :
       \/ Alive(uid) \/ Restarts(uid)
       \/ \E v \in Readings : UserUpdates(uid, v) \/ SensorPosts(uid, v)
  \/ Tick /\ UNCHANGED deviceVars

(***************************************************************************)
(* Fairness: a device sends alive checks for ever (periodic), what it is   *)
(* asked it answers or the request fails, the gateway's tasks run on, and  *)
(* the broker comes back.                                                  *)
(***************************************************************************)
DeviceFairness ==
  /\ \A uid \in Uids : WF_allVars(Alive(uid))
  /\ WF_allVars(GetAnswers)
  /\ WF_allVars(\E g \in gets : DiscoveryGoesOn(g))
  /\ WF_allVars(\E t \in tasks : DiscoveryStops(t))
  /\ WF_allVars(LoopRuns)
  /\ WF_allVars(PutNotConfirmed)
  /\ SF_allVars(Connected /\ LoopRuns)

DeviceSpec == DeviceInit /\ [][DeviceNext]_allVars /\ DeviceFairness

-----------------------------------------------------------------------------
(***************************************************************************)
(* Properties.                                                             *)
(***************************************************************************)

\* No page ever shows for a resource what the device never had: a user's
\* update is displayed when the device has taken it, however late, lost or
\* overtaken its requests and answers are (or the text of a failed request).
ShownWasHeld ==
  \A uid \in Uids : told[uid] \in Readings => told[uid] \in held[uid]

(***************************************************************************)
(* The inductive invariant behind it.  Whatever may still become what is   *)
(* shown (an answer, a POST, a cached value, a PUT that the device has     *)
(* confirmed) is something the device had; and the PUTs on their way that  *)
(* the gateway awaits are copies of the one that its task waits for.       *)
(***************************************************************************)
DeviceTypeOK ==
  /\ kind  \in [Uids -> {"led", "robot", "sensor"}]
  /\ value \in [Uids -> Values]
  /\ held  \in [Uids -> SUBSET Values]
  /\ gets  \subseteq [uid : Uids, current : BOOLEAN, answer : Values \cup {"asked"}]
  /\ puts  \subseteq [uid : Uids, value : Values, stage : {"sent", "handled"}, awaited : BOOLEAN]
  /\ posts \subseteq [uid : Uids, value : Values]
  /\ answered \in BOOLEAN

\* What is on its way from a device is a value it has had; a PUT that was
\* answered, or is in its handler, has been taken over.
SourcesHeld ==
  /\ \A uid \in Uids : value[uid] \in held[uid] /\ Initial \in held[uid]
  /\ \A g \in gets : g.answer \in Readings => g.answer \in held[g.uid]
  /\ \A q \in posts : q.value \in held[q.uid]
  /\ \A p \in puts : p.stage = "handled" => p.value \in held[p.uid]
  /\ answered => \A p \in put : p.value \in held[p.uid]

\* What a page that opens would be sent is a value the device has had.
CachedHeld ==
  \A uid \in Uids : cache[uid] \in Readings => cache[uid] \in held[uid]

\* The gateway waits for one PUT at a time, and an answer that is awaited is the
\* answer to that one.
OnePut ==
  /\ \A p, q \in put : p = q
  /\ put # {} => loop = "putting"
  /\ answered => put # {}
  /\ \A p \in puts : p.awaited => \E q \in put : q.uid = p.uid /\ q.value = p.value

RequestsInv == DeviceTypeOK /\ SourcesHeld /\ OnePut

ShownHeld == CachedHeld /\ ShownWasHeld

\* Inductive: however requests, answers and readings are delayed, lost or
\* overtaken, every value between a device and the pages is one it has had.
DeviceInv == RequestsInv /\ ShownHeld

Disturbance ==
  \/ \E p \in puts : PutHandled(p) \/ RobotPutHandled(p)
  \/ GetFails \/ \E t \in tasks : DiscoveryFails(t)
  \/ \E uid \in Uids : Restarts(uid)
  \/ Removed

\* Once nobody writes a resource any more and nothing fails, the pages show the
\* state it is in and go on showing it, whatever raced before: an answer to a
\* GET from before a PUT, a PUT that arrives after it timed out or is not
\* confirmed, the text of an error taken for a value.  It rests on alive checks
\* that discover a known device anew.
ShownConverges ==
  <>[][~Disturbance]_allVars =>
    \A uid \in Uids :
      <>[](kind[uid] # "sensor" => told[uid] = value[uid] \/ loop = "dead")
=============================================================================
