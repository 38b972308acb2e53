---------------------------- MODULE CoapGateway ----------------------------
(***************************************************************************)
(* The CoAP gateway (pyaiot/gateway/coap/gateway.py): devices announce     *)
(* themselves by periodic alive checks, are discovered, post values, and   *)
(* are removed once they have been silent for too long.                    *)
(*                                                                         *)
(* The handlers interleave at each await: discover_node awaits every       *)
(* resource of a device, update_node_resource awaits the PUT, and both go  *)
(* on with the Node they started with although an alive check puts a new   *)
(* Node in its place.  The cache is keyed by uid and node_mapping by       *)
(* address; the two have to be kept in step.                               *)
(***************************************************************************)
EXTENDS GatewayBase, FiniteSets

CONSTANTS
  Addrs,     \* addresses of devices
  Sources,   \* which uid may send from which address
  MaxTime    \* bound: seconds of silence after which a node is removed

\* A uid is what follows the last ":" of a payload, an address of the dual
\* stack server has a ":" in it.
ASSUME UidsAreNotAddrs    == Uids \cap Addrs = {}
ASSUME SourcesAreSources  == Sources \subseteq Uids \X Addrs
ASSUME MaxTimeIsNat       == MaxTime \in Nat

VARIABLES
  mapping,   \* self.node_mapping: the uid of an address, or NoUid
  ip,        \* resources['ip'] of the cached Node
  age,       \* seconds since last_seen of the cached Node
  tasks      \* the discover_node coroutines that are suspended

coapVars == <<mapping, ip, age, tasks>>
vars == <<baseVars, coapVars>>

NoUid == "no uid"
NoIp  == "no address"

ASSUME NoUidIsNoUid == NoUid \notin Uids
ASSUME NoIpIsNoAddr == NoIp \notin Addrs

\* uid in self.node_mapping, address in self.node_mapping
Mapped(key) == key \in Addrs /\ mapping[key] # NoUid

Task(uid, current) == [uid |-> uid, current |-> current]

\* The Nodes of uids leave the cache: pending discoveries hold stale ones.
TasksAfterReplacing(uids) ==
  {Task(t.uid, t.current /\ t.uid \notin uids) : t \in tasks}

-----------------------------------------------------------------------------
Init ==
  /\ BaseInit
  /\ mapping = [addr \in Addrs |-> NoUid]
  /\ ip      = [uid \in Uids |-> NoIp]
  /\ age     = [uid \in Uids |-> 0]
  /\ tasks   = {}

\* Mutant: key and value of node_mapping are swapped.
CoapCheck_Swapped(uid, addr) ==
  /\ <<uid, addr>> \in Sources
  /\ Task(uid, FALSE) \notin tasks
  /\ AddNode(uid)
  /\ mapping' = [mapping EXCEPT ![addr] = addr]
  /\ ip'      = [ip EXCEPT ![uid] = addr]
  /\ age'     = [age EXCEPT ![uid] = 0]
  /\ put'     = PutAfterReplacing({uid})
  /\ tasks'   = TasksAfterReplacing({uid}) \cup {Task(uid, TRUE)}
  /\ UNCHANGED <<conn, loop, inbox, diverged>>

(***************************************************************************)
(* handle_coap_check.  The test is made on the uid, but the keys are       *)
(* addresses: it always holds, and the branches for a reset and for a node *)
(* that is still online are dead code (UidsAreNotAddrs).  A bound: a node  *)
(* has at most one discovery in flight for a Node that was replaced.       *)
(***************************************************************************)
CoapCheck(uid, addr) ==
  /\ <<uid, addr>> \in Sources
  /\ ~Mapped(uid)
  /\ Task(uid, FALSE) \notin tasks
  /\ AddNode(uid)
  /\ mapping' = [mapping EXCEPT ![addr] = uid]
  /\ ip'      = [ip EXCEPT ![uid] = addr]
  /\ age'     = [age EXCEPT ![uid] = 0]
  /\ put'     = PutAfterReplacing({uid})
  /\ tasks'   = TasksAfterReplacing({uid})
                  \cup IF SendRaises THEN {} ELSE {Task(uid, TRUE)}
  /\ UNCHANGED <<conn, loop, inbox, diverged>>

\* One resource of discover_node has been fetched: v is its value, or the
\* text of the error (the code of the response is not looked at).
DiscoveryForwards(t, v) ==
  /\ t \in tasks
  /\ ForwardData(t.uid, v, t.current)
  /\ tasks' = IF SendRaises THEN tasks \ {t} ELSE tasks
  /\ UNCHANGED <<conn, loop, inbox, put, mapping, ip, age>>

DiscoveryEnds(t) ==
  /\ t \in tasks
  /\ tasks' = tasks \ {t}
  /\ UNCHANGED <<baseVars, mapping, ip, age>>

(***************************************************************************)
(* handle_coap_post: a value posted from an address that is not mapped is  *)
(* ignored, one from an address whose node is not cached raises KeyError;  *)
(* neither changes anything.                                               *)
(***************************************************************************)
CoapPost(addr, v) ==
  /\ Mapped(addr)
  /\ mapping[addr] \in nodes
  /\ ForwardData(mapping[addr], v, TRUE)
  /\ UNCHANGED <<conn, loop, inbox, put, coapVars>>

(***************************************************************************)
(* update_node_resource.  encode('ascii') may raise before the request is  *)
(* sent; the answer is forwarded if it is 2.04 Changed.                    *)
(***************************************************************************)
ReadUpdate(uid, v) ==
  /\ Reads(ValueUpdate(uid, v))
  /\ uid \in nodes
  /\ inbox' = Tail(inbox)
  /\ IF v \in NonAscii
       THEN loop' = "dead" /\ UNCHANGED put
       ELSE /\ loop' = "putting"
            /\ put'  = {[uid |-> uid, value |-> v, current |-> TRUE]}
  /\ UNCHANGED <<cache, older, conn, told, diverged, coapVars>>

PutChanged(p) ==
  /\ p \in put
  /\ ForwardData(p.uid, p.value, p.current)
  /\ loop' = IF SendRaises THEN "dead" ELSE "reading"
  /\ put'  = put \ {p}
  /\ UNCHANGED <<conn, inbox, coapVars>>

PutFails(p) ==
  /\ p \in put
  /\ loop' = "reading"
  /\ put'  = put \ {p}
  /\ UNCHANGED <<cache, older, conn, inbox, told, diverged, coapVars>>

\* An answer that is no UTF-8 raises in _coap_resource.
PutRaises(p) ==
  /\ p \in put
  /\ loop' = "dead"
  /\ put'  = put \ {p}
  /\ UNCHANGED <<cache, older, conn, inbox, told, diverged, coapVars>>

PutEnds(p) == PutChanged(p) \/ PutFails(p) \/ PutRaises(p)

(***************************************************************************)
(* check_dead_nodes, every second.  For each dead node, in the order of    *)
(* the cache: its address is popped from node_mapping (KeyError if it is   *)
(* not there), the node from the cache, and "out" is sent.  An exception   *)
(* ends the loop: gone are the nodes that were removed by then.            *)
(***************************************************************************)
\* Mutant: the comparison is the wrong way round.
Dead_Swapped == {uid \in nodes : age[uid] <= MaxTime}

Dead == {uid \in nodes : age[uid] > MaxTime}

\* gone comes first in the order, and its addresses can be popped.
CanRemove(gone) ==
  /\ \A u \in gone, v \in Dead \ gone : <<u, v>> \in older
  /\ \A u \in gone : Mapped(ip[u])
  /\ \A u, v \in gone : ip[u] = ip[v] => u = v

\* Sending the "out" of the last one raises.
OutRaises(gone) == SendRaises /\ Cardinality(gone) = 1

\* The address of the next one is not mapped, or no more.
PopRaises(gone) ==
  \E u \in Dead \ gone :
    /\ \A v \in (Dead \ gone) \ {u} : <<u, v>> \in older
    /\ ~Mapped(ip[u]) \/ \E v \in gone : ip[v] = ip[u]

\* Mutant: the address of a removed node stays in node_mapping.
CheckDeadNodes_KeepsAddress(gone) ==
  /\ gone = Dead /\ ~SendRaises
  /\ cache'   = [uid \in Uids |-> IF uid \in gone THEN "absent" ELSE cache[uid]]
  /\ older'   = {pair \in older : pair[1] \notin gone /\ pair[2] \notin gone}
  /\ ip'      = [uid \in Uids |-> IF uid \in gone THEN NoIp ELSE ip[uid]]
  /\ age'     = [uid \in Uids |-> IF uid \in gone THEN 0 ELSE age[uid]]
  /\ told'    = AfterOut(gone)
  /\ diverged' = diverged \ gone
  /\ put'     = PutAfterReplacing(gone)
  /\ tasks'   = TasksAfterReplacing(gone)
  /\ UNCHANGED <<conn, loop, inbox, mapping>>

CheckDeadNodes(gone) ==
  /\ gone \subseteq Dead
  /\ CanRemove(gone)
  /\ IF SendRaises /\ gone # {} THEN OutRaises(gone)
                              ELSE gone = Dead \/ PopRaises(gone)
  /\ mapping' = [addr \in Addrs |-> IF \E uid \in gone : ip[uid] = addr
                                      THEN NoUid ELSE mapping[addr]]
  /\ cache'   = [uid \in Uids |-> IF uid \in gone THEN "absent" ELSE cache[uid]]
  /\ older'   = {pair \in older : pair[1] \notin gone /\ pair[2] \notin gone}
  /\ ip'      = [uid \in Uids |-> IF uid \in gone THEN NoIp ELSE ip[uid]]
  /\ age'     = [uid \in Uids |-> IF uid \in gone THEN 0 ELSE age[uid]]
  /\ told'    = AfterOut(gone)
  /\ diverged' = diverged \ gone
  /\ put'     = PutAfterReplacing(gone)
  /\ tasks'   = TasksAfterReplacing(gone)
  /\ UNCHANGED <<conn, loop, inbox>>

\* A second passes (bound: ages past MaxTime are all alike).
Tick ==
  /\ age' = [uid \in Uids |-> IF uid \in nodes /\ age[uid] <= MaxTime
                                THEN age[uid] + 1 ELSE age[uid]]
  /\ UNCHANGED <<baseVars, mapping, ip, tasks>>

-----------------------------------------------------------------------------
\* The reconnection task runs up to its next await.
LoopResumes ==
  \/ /\ \/ Connected \/ ConnectedThenLost \/ ConnectionRefused \/ ConnectionFails
        \/ SleepEnds \/ ReadNone
        \/ \E page \in Pages : ReadNew(page)
        \/ \E uid \in Uids, v \in Values : ReadUpdateUnknown(uid, v)
     /\ UNCHANGED coapVars
  \/ \E uid \in Uids, v \in Values : ReadUpdate(uid, v)

Next ==
  \/ LoopResumes
  \/ \E m \in BrokerMessages : MessageArrives(m) /\ UNCHANGED coapVars
  \/ ConnectionLost /\ UNCHANGED coapVars
  \/ \E p \in put : PutEnds(p)
  \/ \E uid \in Uids, addr \in Addrs : CoapCheck(uid, addr)
  \/ \E t \in tasks : DiscoveryEnds(t) \/ \E v \in Values : DiscoveryForwards(t, v)
  \/ \E addr \in Addrs, v \in Values : CoapPost(addr, v)
  \/ \E gone \in SUBSET Uids : CheckDeadNodes(gone)
  \/ Tick

(***************************************************************************)
(* Fairness: time passes, the periodic callback runs, the task is resumed  *)
(* when what it awaits is done, and a request ends (aiocoap times it out). *)
(* The network and the broker come back, so that an attempt to connect     *)
(* succeeds sooner or later.                                               *)
(***************************************************************************)
Fairness ==
  /\ WF_vars(Tick)
  /\ WF_vars(\E gone \in SUBSET Uids : CheckDeadNodes(gone))
  /\ WF_vars(LoopResumes)
  /\ WF_vars(\E p \in put : PutEnds(p))
  /\ SF_vars(Connected /\ UNCHANGED coapVars)

Spec == Init /\ [][Next]_vars
FairSpec == Spec /\ Fairness

-----------------------------------------------------------------------------
(***************************************************************************)
(* Properties.                                                             *)
(***************************************************************************)

\* The variables have their types.
TypeOK ==
  /\ BaseTypeOK
  /\ mapping \in [Addrs -> Uids \cup {NoUid}]
  /\ ip      \in [Uids -> Addrs \cup {NoIp}]
  /\ age     \in [Uids -> 0..(MaxTime + 1)]
  /\ tasks   \subseteq [uid : Uids, current : BOOLEAN]

\* node_mapping and the cache are inverse to each other, whatever was
\* interrupted by a send that raises: no post and no removal ends in a
\* KeyError, and no address of a removed node stays behind.  It takes devices
\* that keep their address to themselves.
MappingExact ==
  /\ \A uid \in nodes : Mapped(ip[uid]) /\ mapping[ip[uid]] = uid
  /\ \A addr \in Addrs : Mapped(addr) =>
       mapping[addr] \in nodes /\ ip[mapping[addr]] = addr

\* While connected, the broker lists for this session exactly the nodes of
\* the cache: nodes that came or went while the connection was down are
\* made up for when it is back, and nothing a stale task sends lists a node.
ToldExact == conn = "open" => \A uid \in Uids : told[uid] = "absent" <=> uid \notin nodes

\* The cached value (what a page that opens gets) is the one broadcast last
\* (what the others show), but for what a task wrote to a replaced Node.
CacheIsTold ==
  conn = "open" =>
    \A uid \in Uids \ diverged : cache[uid] \in Values => told[uid] = cache[uid]

\* A device that stops sending is removed for good (README: "the gateway
\* automatically removes it from the list of alive devices").
DeadNodeRemoved ==
  \A uid \in Uids :
    <>[][~\E addr \in Addrs : CoapCheck(uid, addr)]_vars => <>[](uid \notin nodes)

\* A lost connection is made anew, unless an exception ended the task.
LinkRestored == conn # "open" ~> (conn = "open" \/ loop = "dead")

\* A page that opens is answered, or has to ask again because the connection
\* was lost; a request on its way to a device holds it up no longer than the
\* request takes.  An exception in the task leaves it unanswered for ever.
PageAnswered ==
  \A page \in Pages :
    Pending(page) ~> (loop = "dead" \/ ~Pending(page))

(***************************************************************************)
(* The inductive invariant behind them: the task makes a connection only   *)
(* when it has none, what is known for a session ends with it, and a task  *)
(* that writes to a cached Node writes to a node of the cache.             *)
(***************************************************************************)
OneConnection == loop \in {"connecting", "sleeping"} => conn # "open"

ToldForSession == conn # "open" => \A uid \in Uids : told[uid] = "absent"

CurrentCached ==
  /\ \A t \in tasks : t.current => t.uid \in nodes
  /\ \A p \in put : p.current => p.uid \in nodes

\* Inductive: the cache, the connection and what the broker was told agree, at
\* every await of every task.
IInv ==
  TypeOK /\ OneConnection /\ ToldForSession /\ CurrentCached /\ ToldExact /\ CacheIsTold

\* What MappingExact takes: an address has one device, a device one address.
UnsharedAddress == \A s, t \in Sources : s[2] = t[2] => s[1] = t[1]

OwnAddress == UnsharedAddress /\ \A s, t \in Sources : s[1] = t[1] => s[2] = t[2]

\* Who is mapped and what is remembered as an address came from a check.
FromSources ==
  /\ \A uid \in nodes : <<uid, ip[uid]>> \in Sources
  /\ \A addr \in Addrs : Mapped(addr) => <<mapping[addr], addr>> \in Sources

Directory == INSTANCE NodeDirectory WITH
  listed    <- {uid \in Uids : told[uid] # "absent"},
  connected <- conn = "open"

\* The gateway keeps its promise at every step: what the cache gains or loses,
\* whole or cut short by an exception, the broker's list gains or loses with
\* it, and a connection starts with the whole cache.
DirectoryKept == Directory!Spec

(***************************************************************************)
(* What the comments promise and the code does not do (see README).        *)
(***************************************************************************)

\* coap/gateway.py:225: "The node simply sent a check message to notify that
\* it's still online": the cached data of a known node is kept.
AliveKeepsData ==
  [][\A uid \in nodes : (age'[uid] = 0 /\ age[uid] > 0 /\ ip'[uid] = ip[uid])
       => cache'[uid] = cache[uid]]_vars

\* gateway.py:119: "Cannot connect, retrying in 3s".
LostLinkRestored == conn = "lost" ~> conn = "open"
=============================================================================
