-------------------------- MODULE CoapDeviceProofs --------------------------
(***************************************************************************)
(* Theorems about CoapDevice, for any devices, values and bounds: with its *)
(* devices the gateway still behaves as CoapGateway says, so that all that *)
(* CoapProofs proves of it holds here; and what pages show, a device had.  *)
(***************************************************************************)
EXTENDS CoapDevice, CoapProofs

-----------------------------------------------------------------------------
(***************************************************************************)
(* The gateway among its devices takes steps of CoapGateway.               *)
(***************************************************************************)
LEMMA GatewayStep ==
  ASSUME DeviceTypeOK, [DeviceNext]_allVars
  PROVE  [Next]_vars
<1>1. CASE LoopRuns
  BY <1>1 DEF LoopRuns, Next
<1>2. CASE PutConfirmed \/ PutNotConfirmed
  BY <1>2 DEF PutConfirmed, PutNotConfirmed, PutEnds, Next
<1>3. CASE GetAnswers \/ GetFails
  BY <1>3 DEF GetAnswers, GetFails, GetAnswered
<1>4. CASE \E g \in gets : DiscoveryGoesOn(g)
  <2>1. PICK g \in gets : DiscoveryGoesOn(g)
    BY <1>4
  <2>2. g.answer \in Values
    BY <2>1 DEF DiscoveryGoesOn, DeviceTypeOK
  <2>3. TaskOf(g) \in tasks /\ DiscoveryForwards(TaskOf(g), g.answer)
    BY <2>1 DEF DiscoveryGoesOn, DiscoveryForwards
  <2> QED
    BY <2>2, <2>3 DEF Next
<1>5. CASE \E t \in tasks : DiscoveryStops(t) \/ DiscoveryFails(t)
  BY <1>5 DEF DiscoveryStops, DiscoveryFails, Next
<1>6. CASE \E p \in puts : PutHandled(p) \/ RobotPutHandled(p) \/ PutAnswered(p)
  BY <1>6 DEF PutHandled, RobotPutHandled, PutAnswered
<1>7. CASE \E q \in posts : PostArrives(q)
  <2>1. PICK q \in posts : PostArrives(q)
    BY <1>7
  <2>2. q.value \in Values
    BY DEF DeviceTypeOK
  <2> QED
    BY <2>1, <2>2 DEF PostArrives, Next
<1>8. CASE Lost \/ (\E uid \in Uids : Restarts(uid))
  BY <1>8 DEF Lost, Restarts
<1>9. CASE Removed
  BY <1>9 DEF Removed, Next
<1>10. CASE \E uid \in Uids : Alive(uid)
  BY <1>10 DEF Alive, Next
<1>11. CASE \E uid \in Uids, v \in Readings : UserUpdates(uid, v)
  <2>1. PICK uid \in Uids, v \in Readings : UserUpdates(uid, v)
    BY <1>11
  <2>2. ValueUpdate(uid, v) \in BrokerMessages
    BY DEF BrokerMessages, Readings
  <2> QED
    BY <2>1, <2>2 DEF UserUpdates, Next
<1>12. CASE \E uid \in Uids, v \in Readings : SensorPosts(uid, v)
  BY <1>12 DEF SensorPosts
<1>13. CASE Tick /\ UNCHANGED deviceVars
  BY <1>13 DEF Next
<1>14. CASE UNCHANGED allVars
  BY <1>14 DEF allVars
<1> QED
  BY <1>1, <1>2, <1>3, <1>4, <1>5, <1>6, <1>7, <1>8, <1>9, <1>10, <1>11, <1>12, <1>13, <1>14
  DEF DeviceNext

-----------------------------------------------------------------------------
(***************************************************************************)
(* What may be shown was held.                                             *)
(***************************************************************************)

\* A forwarded value is a reading that the device had, or the text of an error.
LEMMA ForwardsHeld ==
  ASSUME IInv, CachedHeld, ShownWasHeld,
         NEW uid \in Uids, NEW v \in Values, NEW current \in BOOLEAN,
         current => uid \in nodes, ForwardData(uid, v, current),
         v \in Readings => v \in held[uid], UNCHANGED held
  PROVE  CachedHeld' /\ ShownWasHeld'
<1>1. /\ cache'[uid] = IF current THEN v ELSE cache[uid]
      /\ told'[uid] = IF conn = "open" /\ told[uid] # "absent" THEN v ELSE told[uid]
      /\ \A u \in Uids \ {uid} : cache'[u] = cache[u] /\ told'[u] = told[u]
  BY ForwardDataEffect DEF IInv, TypeOK
<1> QED
  BY <1>1 DEF CachedHeld, ShownWasHeld

\* A pending PUT that is marked as stale is the same request.
LEMMA StaleIsSamePut ==
  ASSUME BaseTypeOK, NEW uids
  PROVE  /\ \A q \in PutAfterReplacing(uids) :
              \E p \in put : q.uid = p.uid /\ q.value = p.value
         /\ \A p \in put :
              \E q \in PutAfterReplacing(uids) : q.uid = p.uid /\ q.value = p.value
         /\ (\A p, q \in put : p = q) =>
              \A p, q \in PutAfterReplacing(uids) : p = q
<1> DEFINE Stale(p) == [p EXCEPT !.current = @ /\ p.uid \notin uids]
<1>1. PutAfterReplacing(uids) = {Stale(p) : p \in put}
  BY DEF PutAfterReplacing
<1>2. \A p \in put : Stale(p).uid = p.uid /\ Stale(p).value = p.value
  BY DEF BaseTypeOK
<1> HIDE DEF Stale
<1> QED
  BY <1>1, <1>2

\* Marking the discoveries of uids as stale changes no answer.
LEMMA StaleIsSameGet ==
  ASSUME DeviceTypeOK, NEW uids
  PROVE  /\ GetsAfterReplacing(uids)
              \subseteq [uid : Uids, current : BOOLEAN, answer : Values \cup {"asked"}]
         /\ \A h \in GetsAfterReplacing(uids) :
              \E g \in gets : h.uid = g.uid /\ h.answer = g.answer
<1>1. ASSUME NEW h \in GetsAfterReplacing(uids)
      PROVE  /\ h \in [uid : Uids, current : BOOLEAN, answer : Values \cup {"asked"}]
             /\ \E g \in gets : h.uid = g.uid /\ h.answer = g.answer
  <2>1. PICK g \in gets : h = [g EXCEPT !.current = @ /\ g.uid \notin uids]
    BY DEF GetsAfterReplacing
  <2>2. g \in [uid : Uids, current : BOOLEAN, answer : Values \cup {"asked"}]
    BY DEF DeviceTypeOK
  <2> QED
    BY <2>1, <2>2
<1> QED
  BY <1>1

-----------------------------------------------------------------------------
(***************************************************************************)
(* The invariant, one action at a time.                                    *)
(***************************************************************************)
LEMMA DeviceInvInit == DeviceInit => DeviceInv
<1> SUFFICES ASSUME DeviceInit
             PROVE  DeviceInv
  OBVIOUS
<1>1. DeviceTypeOK
  BY DistinctValues DEF DeviceInit, DeviceTypeOK
<1>2. SourcesHeld /\ OnePut
  BY DEF DeviceInit, SourcesHeld, Init, BaseInit, OnePut
<1>3. CachedHeld /\ ShownWasHeld
  BY ValuesAreNotStates
  DEF DeviceInit, CachedHeld, ShownWasHeld, Readings, Init, BaseInit
<1> QED
  BY <1>1, <1>2, <1>3 DEF DeviceInv, RequestsInv, ShownHeld

\* What a step keeps: requests and answers carry what was held, and so, if it
\* did, does what is shown.
Keeps == RequestsInv' /\ (ShownHeld => ShownHeld')

\* The gateway's task: what it announces on a new connection is the cache, and
\* the PUT it sends is the one it waits for.
LEMMA LoopKeepsInv ==
  ASSUME IInv, RequestsInv, LoopRuns
  PROVE  Keeps
<1> USE DEF RequestsInv, ShownHeld, Keeps
<1>0. LoopResumes /\ UNCHANGED <<kind, value, held, gets, posts, answered>>
  BY DEF LoopRuns
<1>1. CASE \E uid \in Uids, v \in Values : ReadUpdate(uid, v)
  <2>1. PICK uid \in Uids, v \in Values : ReadUpdate(uid, v)
    BY <1>1
  <2>2. loop = "reading" /\ UNCHANGED <<cache, told>>
    BY <2>1 DEF ReadUpdate, Reads
  <2>3. put = {} /\ ~answered /\ \A p \in puts : ~p.awaited
    BY <2>2 DEF OnePut
  <2>4. ShownHeld => ShownHeld'
    BY <1>0, <2>2 DEF CachedHeld, ShownWasHeld
  <2>5. CASE put' = put
    <3>1. puts' = puts
      BY <2>5 DEF LoopRuns
    <3> QED
      BY <1>0, <2>3, <2>4, <2>5, <3>1 DEF DeviceTypeOK, SourcesHeld, OnePut
  <2>6. CASE put' = {[uid |-> uid, value |-> v, current |-> TRUE]} /\ loop' = "putting"
    <3> DEFINE p == [uid |-> uid, value |-> v, current |-> TRUE]
               q == [uid |-> uid, value |-> v, stage |-> "sent", awaited |-> TRUE]
    <3>1. puts' = puts \cup {q}
      BY <2>3, <2>6 DEF LoopRuns, Put
    <3>2. q \in [uid : Uids, value : Values, stage : {"sent", "handled"}, awaited : BOOLEAN]
      OBVIOUS
    <3>3. DeviceTypeOK'
      BY <1>0, <3>1, <3>2 DEF DeviceTypeOK
    <3>4. SourcesHeld'
      <4>1. \A r \in puts' : r.stage = "handled" => r.value \in held[r.uid]
        BY <3>1 DEF SourcesHeld
      <4> QED
        BY <1>0, <2>3, <4>1 DEF SourcesHeld
    <3>5. OnePut'
      BY <1>0, <2>3, <2>6, <3>1 DEF OnePut
    <3> QED
      BY <2>4, <3>3, <3>4, <3>5
  <2> QED
    BY <2>1, <2>5, <2>6 DEF ReadUpdate
<1>2. CASE ~\E uid \in Uids, v \in Values : ReadUpdate(uid, v)
  <2>1. /\ put' = put
        /\ put # {} => loop' = loop
        /\ cache' = cache
        /\ \A uid \in Uids : told'[uid] \in {"absent", "blank", told[uid], cache[uid]}
    <3>1. CASE Connected
      BY <3>1 DEF Connected, AfterFetch, OnePut
    <3>2. CASE \E page \in Pages : ReadNew(page)
      BY <3>2 DEF ReadNew, Reads, AfterFetchFor, OnePut
    <3>3. CASE ConnectedThenLost \/ ConnectionRefused \/ ConnectionFails \/ SleepEnds \/ ReadNone
      BY <3>3 DEF ConnectedThenLost, ConnectionRefused, ConnectionFails, SleepEnds, ReadNone, OnePut
    <3>4. CASE \E uid \in Uids, v \in Values : ReadUpdateUnknown(uid, v)
      BY <3>4 DEF ReadUpdateUnknown, Reads, OnePut
    <3> QED
      BY <1>0, <1>2, <3>1, <3>2, <3>3, <3>4 DEF LoopResumes
  <2>2. puts' = puts
    BY <2>1 DEF LoopRuns
  <2>3. DeviceTypeOK' /\ SourcesHeld' /\ OnePut'
    BY <1>0, <2>1, <2>2 DEF DeviceTypeOK, SourcesHeld, OnePut
  <2>4. ShownHeld => ShownHeld'
    BY <1>0, <2>1, ValuesAreNotStates DEF CachedHeld, ShownWasHeld, Readings
  <2> QED
    BY <2>3, <2>4
<1> QED
  BY <1>1, <1>2

\* The PUT is over: confirmed and forwarded, or failed.
LEMMA PutEndKeepsInv ==
  ASSUME IInv, RequestsInv, PutConfirmed \/ PutNotConfirmed
  PROVE  Keeps
<1> USE DEF RequestsInv, ShownHeld, Keeps
<1>1. PICK p \in put : (answered /\ PutChanged(p)) \/ PutFails(p)
  BY DEF PutConfirmed, PutNotConfirmed
<1>2. p.uid \in Uids /\ p.value \in Values /\ p.current \in BOOLEAN
  BY DEF IInv, TypeOK, BaseTypeOK
<1>3. /\ puts' = {Put(q, q.stage, FALSE) : q \in puts}
      /\ answered' = FALSE
      /\ UNCHANGED <<kind, value, held, gets, posts>>
  BY DEF PutConfirmed, PutNotConfirmed, PutOver
<1>4. put' = {}
  BY <1>1 DEF PutChanged, PutFails, OnePut
<1>5. ASSUME NEW r \in puts'
      PROVE  /\ r \in [uid : Uids, value : Values, stage : {"sent", "handled"}, awaited : BOOLEAN]
             /\ r.stage = "handled" => r.value \in held[r.uid]
             /\ ~r.awaited
  <2>1. PICK q \in puts :
          r = [uid |-> q.uid, value |-> q.value, stage |-> q.stage, awaited |-> FALSE]
    BY <1>3 DEF Put
  <2>2. q \in [uid : Uids, value : Values, stage : {"sent", "handled"}, awaited : BOOLEAN]
    BY DEF DeviceTypeOK
  <2> QED
    BY <2>1, <2>2 DEF SourcesHeld
<1>6. DeviceTypeOK' /\ SourcesHeld' /\ OnePut'
  BY <1>3, <1>4, <1>5 DEF DeviceTypeOK, SourcesHeld, OnePut
<1>7. ShownHeld => ShownHeld'
  <2>1. CASE answered /\ PutChanged(p)
    <3>1. p.value \in held[p.uid] /\ (p.current => p.uid \in nodes)
      BY <2>1 DEF SourcesHeld, IInv, CurrentCached
    <3> QED
      BY <1>2, <1>3, <2>1, <3>1, ForwardsHeld DEF PutChanged
  <2>2. CASE PutFails(p)
    BY <1>3, <2>2 DEF PutFails, CachedHeld, ShownWasHeld
  <2> QED
    BY <1>1, <2>1, <2>2
<1> QED
  BY <1>6, <1>7

\* An answer to a GET, which is the device's value or the text of an error.
LEMMA GetKeepsInv ==
  ASSUME RequestsInv, GetAnswers \/ GetFails
  PROVE  Keeps
<1> USE DEF RequestsInv, ShownHeld, Keeps
<1>1. PICK g \in gets, answer \in Values :
        /\ GetAnswered(g, answer)
        /\ answer \in Readings => answer \in held[g.uid]
  <2>1. CASE GetAnswers
    <3>1. PICK g \in gets : GetAnswered(g, value[g.uid])
      BY <2>1 DEF GetAnswers
    <3>2. g.uid \in Uids
      BY DEF DeviceTypeOK
    <3>3. value[g.uid] \in Values /\ value[g.uid] \in held[g.uid]
      BY <3>2 DEF DeviceTypeOK, SourcesHeld
    <3> QED
      BY <3>1, <3>3
  <2>2. CASE GetFails
    <3>1. PICK g \in gets : GetAnswered(g, Failed)
      BY <2>2 DEF GetFails
    <3> QED
      BY <3>1, DistinctValues DEF Readings
  <2> QED
    BY <2>1, <2>2
<1>2. /\ gets' = (gets \ {g}) \cup {[uid |-> g.uid, current |-> g.current, answer |-> answer]}
      /\ UNCHANGED <<vars, kind, value, held, puts, posts, answered>>
  BY <1>1 DEF GetAnswered, Get, TaskOf, Task
<1>3. g \in [uid : Uids, current : BOOLEAN, answer : Values \cup {"asked"}]
  BY DEF DeviceTypeOK
<1>4. [uid |-> g.uid, current |-> g.current, answer |-> answer]
        \in [uid : Uids, current : BOOLEAN, answer : Values \cup {"asked"}]
  BY <1>3
<1>5. DeviceTypeOK'
  BY <1>2, <1>4 DEF DeviceTypeOK
<1>6. \A h \in gets' : h.answer \in Readings => h.answer \in held[h.uid]
  BY <1>1, <1>2 DEF SourcesHeld
<1>7. SourcesHeld' /\ OnePut' /\ (ShownHeld => ShownHeld')
  BY <1>2, <1>6 DEF SourcesHeld, CachedHeld, OnePut, ShownWasHeld, vars, baseVars
<1> QED
  BY <1>5, <1>7

\* A discovery forwards an answer, or ends.
LEMMA DiscoveryKeepsInv ==
  ASSUME IInv, RequestsInv,
         \/ \E g \in gets : DiscoveryGoesOn(g)
         \/ \E t \in tasks : DiscoveryStops(t) \/ DiscoveryFails(t)
  PROVE  Keeps
<1> USE DEF RequestsInv, ShownHeld, Keeps
<1>1. CASE \E g \in gets : DiscoveryGoesOn(g)
  <2>1. PICK g \in gets : DiscoveryGoesOn(g)
    BY <1>1
  <2>2. g.uid \in Uids /\ g.current \in BOOLEAN /\ g.answer \in Values
    BY <2>1 DEF DeviceTypeOK, DiscoveryGoesOn
  <2>3. /\ ForwardData(g.uid, g.answer, g.current)
        /\ Task(g.uid, g.current) \in tasks
        /\ gets' \subseteq gets
        /\ UNCHANGED <<kind, value, held, puts, posts, answered, loop, put>>
    BY <2>1 DEF DiscoveryGoesOn, DiscoveryForwards, TaskOf, Task
  <2>4. g.current => g.uid \in nodes
    BY <2>3 DEF IInv, CurrentCached, Task
  <2>5. g.answer \in Readings => g.answer \in held[g.uid]
    BY DEF SourcesHeld
  <2>6. ShownHeld => ShownHeld'
    BY <2>2, <2>3, <2>4, <2>5, ForwardsHeld
  <2>7. DeviceTypeOK' /\ SourcesHeld' /\ OnePut'
    BY <2>3 DEF DeviceTypeOK, SourcesHeld, OnePut
  <2> QED
    BY <2>6, <2>7
<1>2. CASE \E t \in tasks : DiscoveryStops(t) \/ DiscoveryFails(t)
  <2>1. gets' \subseteq gets /\ UNCHANGED <<baseVars, kind, value, held, puts, posts, answered>>
    BY <1>2 DEF DiscoveryStops, DiscoveryFails, DiscoveryEnds, deviceVars
  <2> QED
    BY <2>1 DEF DeviceTypeOK, SourcesHeld, CachedHeld, OnePut, ShownWasHeld, baseVars
<1> QED
  BY <1>1, <1>2

\* A device takes a value over before it posts or confirms it.
LEMMA PutHandlingKeepsInv ==
  ASSUME IInv, RequestsInv, NEW p \in puts,
         PutHandled(p) \/ RobotPutHandled(p) \/ PutAnswered(p)
  PROVE  Keeps
<1> USE DEF RequestsInv, ShownHeld, Keeps
<1>0. /\ p.uid \in Uids /\ p.value \in Values /\ p.awaited \in BOOLEAN
      /\ UNCHANGED <<cache, told, put, loop>>
  BY DEF DeviceTypeOK, PutHandled, RobotPutHandled, PutAnswered, vars, baseVars
<1>1. CASE PutHandled(p) \/ RobotPutHandled(p)
  <2> DEFINE q == [uid |-> p.uid, value |-> p.value, stage |-> "handled", awaited |-> p.awaited]
             post == [uid |-> p.uid, value |-> p.value]
  <2>1. /\ value' = [value EXCEPT ![p.uid] = p.value]
        /\ held' = [held EXCEPT ![p.uid] = @ \cup {p.value}]
        /\ posts' \subseteq posts \cup {post}
        /\ puts' \subseteq (puts \ {p}) \cup {q}
        /\ UNCHANGED <<kind, gets, answered>>
    BY <1>1 DEF PutHandled, RobotPutHandled, Put
  <2>2. /\ q \in [uid : Uids, value : Values, stage : {"sent", "handled"}, awaited : BOOLEAN]
        /\ post \in [uid : Uids, value : Values]
    BY <1>0
  <2>3. /\ \A uid \in Uids : held[uid] \subseteq held'[uid]
        /\ p.value \in held'[p.uid]
        /\ held' \in [Uids -> SUBSET Values]
    BY <1>0, <2>1 DEF DeviceTypeOK
  <2>4. DeviceTypeOK'
    BY <1>0, <2>1, <2>2, <2>3 DEF DeviceTypeOK
  <2>5. SourcesHeld'
    <3>1. \A uid \in Uids : value'[uid] \in held'[uid] /\ Initial \in held'[uid]
      BY <1>0, <2>1, <2>3 DEF DeviceTypeOK, SourcesHeld
    <3>2. \A g \in gets' : g.answer \in Readings => g.answer \in held'[g.uid]
      BY <2>1, <2>3 DEF DeviceTypeOK, SourcesHeld
    <3>3. \A r \in posts' : r.value \in held'[r.uid]
      BY <2>1, <2>3 DEF DeviceTypeOK, SourcesHeld
    <3>4. \A r \in puts' : r.stage = "handled" => r.value \in held'[r.uid]
      BY <2>1, <2>3 DEF DeviceTypeOK, SourcesHeld
    <3>5. answered' => \A r \in put' : r.value \in held'[r.uid]
      BY <1>0, <2>1, <2>3 DEF SourcesHeld, IInv, TypeOK, BaseTypeOK
    <3> QED
      BY <3>1, <3>2, <3>3, <3>4, <3>5 DEF SourcesHeld
  <2>6. OnePut'
    BY <1>0, <2>1 DEF OnePut
  <2>7. ShownHeld => ShownHeld'
    BY <1>0, <2>3 DEF CachedHeld, ShownWasHeld
  <2> QED
    BY <2>4, <2>5, <2>6, <2>7
<1>2. CASE PutAnswered(p)
  <2>1. /\ puts' = puts \ {p}
        /\ answered' = (answered \/ p.awaited)
        /\ p.stage = "handled"
        /\ UNCHANGED <<kind, value, held, gets, posts>>
    BY <1>2 DEF PutAnswered
  <2>2. answered' \in BOOLEAN
    BY <2>1
  <2>3. answered' => put # {} /\ \A q \in put : q.value \in held[q.uid]
    <3>1. p.value \in held[p.uid]
      BY <2>1 DEF SourcesHeld
    <3>2. p.awaited => put # {} /\ \A q \in put : q.uid = p.uid /\ q.value = p.value
      BY DEF OnePut
    <3> QED
      BY <2>1, <3>1, <3>2 DEF SourcesHeld, OnePut
  <2> QED
    BY <1>0, <2>1, <2>2, <2>3 DEF DeviceTypeOK, SourcesHeld, OnePut, CachedHeld, ShownWasHeld
<1> QED
  BY <1>1, <1>2

\* Readings are held when they are sent; what is lost shows nothing; a restart
\* brings the first value back.
LEMMA DeviceAloneKeepsInv ==
  ASSUME IInv, RequestsInv,
         \/ \E uid \in Uids, v \in Readings : SensorPosts(uid, v)
         \/ Lost
         \/ \E uid \in Uids : Restarts(uid)
  PROVE  Keeps
<1> USE DEF RequestsInv, ShownHeld, Keeps
<1>0. UNCHANGED <<cache, told, put, loop>>
  BY DEF SensorPosts, Lost, Restarts, vars, baseVars
<1>1. ASSUME NEW uid \in Uids, NEW v \in Readings, SensorPosts(uid, v)
      PROVE  Keeps
  <2> DEFINE post == [uid |-> uid, value |-> v]
  <2>1. /\ held' = [held EXCEPT ![uid] = @ \cup {v}]
        /\ posts' = posts \cup {post}
        /\ UNCHANGED <<kind, value, gets, puts, answered>>
    BY <1>1 DEF SensorPosts
  <2>2. v \in Values /\ post \in [uid : Uids, value : Values]
    BY DEF Readings
  <2>3. /\ \A u \in Uids : held[u] \subseteq held'[u]
        /\ v \in held'[uid]
        /\ held' \in [Uids -> SUBSET Values]
    BY <2>1, <2>2 DEF DeviceTypeOK
  <2>4. DeviceTypeOK'
    BY <2>1, <2>2, <2>3 DEF DeviceTypeOK
  <2>5. SourcesHeld'
    <3>1. \A u \in Uids : value'[u] \in held'[u] /\ Initial \in held'[u]
      BY <2>1, <2>3 DEF SourcesHeld
    <3>2. \A g \in gets' : g.answer \in Readings => g.answer \in held'[g.uid]
      BY <2>1, <2>3 DEF DeviceTypeOK, SourcesHeld
    <3>3. \A r \in posts' : r.value \in held'[r.uid]
      BY <2>1, <2>3 DEF DeviceTypeOK, SourcesHeld
    <3>4. \A r \in puts' : r.stage = "handled" => r.value \in held'[r.uid]
      BY <2>1, <2>3 DEF DeviceTypeOK, SourcesHeld
    <3>5. answered' => \A r \in put' : r.value \in held'[r.uid]
      BY <1>0, <2>1, <2>3 DEF SourcesHeld, IInv, TypeOK, BaseTypeOK
    <3> QED
      BY <3>1, <3>2, <3>3, <3>4, <3>5 DEF SourcesHeld
  <2>6. OnePut' /\ (ShownHeld => ShownHeld')
    BY <1>0, <2>1, <2>3 DEF OnePut, CachedHeld, ShownWasHeld
  <2> QED
    BY <2>4, <2>5, <2>6
<1>2. CASE Lost
  <2>1. /\ puts' \subseteq puts /\ posts' \subseteq posts
        /\ UNCHANGED <<kind, value, held, gets, answered>>
    BY <1>2 DEF Lost
  <2> QED
    BY <1>0, <2>1 DEF DeviceTypeOK, SourcesHeld, OnePut, CachedHeld, ShownWasHeld
<1>3. ASSUME NEW uid \in Uids, Restarts(uid)
      PROVE  Keeps
  <2>1. /\ value' = [value EXCEPT ![uid] = Initial]
        /\ puts' \subseteq puts
        /\ UNCHANGED <<kind, held, gets, posts, answered>>
    BY <1>3 DEF Restarts
  <2>2. value' \in [Uids -> Values] /\ \A u \in Uids : value'[u] \in held[u]
    BY <2>1, DistinctValues DEF DeviceTypeOK, SourcesHeld
  <2> QED
    BY <1>0, <2>1, <2>2 DEF DeviceTypeOK, SourcesHeld, OnePut, CachedHeld, ShownWasHeld
<1> QED
  BY <1>1, <1>2, <1>3

\* A POST is forwarded for the device that made it, because the address it came
\* from is nobody else's.
LEMMA PostKeepsInv ==
  ASSUME IInv, FromSources, RequestsInv, NEW q \in posts, PostArrives(q)
  PROVE  RequestsInv' /\ (UnsharedAddress /\ ShownHeld => ShownHeld')
<1> USE DEF RequestsInv, ShownHeld
<1>0. /\ posts' \subseteq posts
      /\ UNCHANGED <<kind, value, held, gets, puts, answered>>
      /\ q.uid \in Uids /\ q.value \in Values /\ q.value \in held[q.uid]
  BY DEF PostArrives, DeviceTypeOK, SourcesHeld
<1>1. UNCHANGED <<loop, put>>
  BY DEF PostArrives, CoapPost, vars, baseVars
<1>2. RequestsInv'
  BY <1>0, <1>1 DEF DeviceTypeOK, SourcesHeld, OnePut
<1>3. ASSUME UnsharedAddress, ShownHeld,
             NEW addr \in Addrs, <<q.uid, addr>> \in Sources, CoapPost(addr, q.value)
      PROVE  ShownHeld'
  <2>1. /\ mapping[addr] \in nodes /\ mapping[addr] \in Uids
        /\ <<mapping[addr], addr>> \in Sources
        /\ ForwardData(mapping[addr], q.value, TRUE)
    BY <1>3 DEF CoapPost, nodes, FromSources
  <2>2. mapping[addr] = q.uid
    BY <1>0, <1>3, <2>1 DEF UnsharedAddress
  <2> QED
    BY <1>0, <1>3, <2>1, <2>2, ForwardsHeld
<1>4. UNCHANGED vars => (ShownHeld => ShownHeld')
  BY <1>0 DEF vars, baseVars, CachedHeld, ShownWasHeld
<1> QED
  BY <1>2, <1>3, <1>4 DEF PostArrives

\* A check and a removal replace Nodes; no value gets anywhere.
LEMMA ReplacingKeepsInv ==
  ASSUME IInv, RequestsInv, (\E uid \in Uids : Alive(uid)) \/ Removed
  PROVE  Keeps
<1> USE DEF RequestsInv, ShownHeld, Keeps
<1>0. BaseTypeOK
  BY DEF IInv, TypeOK
<1>1. PICK uids \in SUBSET Uids :
        /\ put' = PutAfterReplacing(uids)
        /\ \/ gets' = GetsAfterReplacing(uids)
           \/ \E uid \in Uids, current \in BOOLEAN :
                gets' = GetsAfterReplacing(uids)
                          \cup {Get(t, "asked") : t \in tasks' \cap {Task(uid, current)}}
        /\ \A uid \in Uids : /\ cache'[uid] \in {"absent", "blank", cache[uid]}
                             /\ told'[uid] \in {"absent", "blank", told[uid]}
        /\ UNCHANGED <<loop, kind, value, held, puts, posts, answered>>
  <2>1. CASE \E uid \in Uids : Alive(uid)
    <3>1. PICK uid \in Uids, addr \in Addrs : CoapCheck(uid, addr) /\ Alive(uid)
      BY <2>1 DEF Alive
    <3>2. \A u \in Uids : /\ cache'[u] \in {"absent", "blank", cache[u]}
                          /\ told'[u] \in {"absent", "blank", told[u]}
      BY <1>0, <3>1, AddNodeEffect DEF CoapCheck
    <3>3. /\ put' = PutAfterReplacing({uid})
          /\ gets' = GetsAfterReplacing({uid})
                       \cup {Get(t, "asked") : t \in tasks' \cap {Task(uid, TRUE)}}
          /\ UNCHANGED <<loop, kind, value, held, puts, posts, answered>>
      BY <3>1 DEF CoapCheck, Alive
    <3>4. {uid} \in SUBSET Uids /\ TRUE \in BOOLEAN
      OBVIOUS
    <3> QED
      BY <3>2, <3>3, <3>4
  <2>2. CASE Removed
    BY <2>2 DEF Removed, CheckDeadNodes, AfterOut
  <2> QED
    BY <2>1, <2>2
<1>2. ASSUME NEW h \in gets'
      PROVE  /\ h \in [uid : Uids, current : BOOLEAN, answer : Values \cup {"asked"}]
             /\ h.answer = "asked" \/ \E g \in gets : h.uid = g.uid /\ h.answer = g.answer
  <2>1. CASE h \in GetsAfterReplacing(uids)
    BY <2>1, StaleIsSameGet
  <2>2. CASE h \notin GetsAfterReplacing(uids)
    <3>1. PICK uid \in Uids, current \in BOOLEAN : h = Get(Task(uid, current), "asked")
      BY <1>1, <2>2
    <3>2. h = [uid |-> uid, current |-> current, answer |-> "asked"]
      BY <3>1 DEF Task, Get
    <3> QED
      BY <3>2
  <2> QED
    BY <2>1, <2>2
<1>3. /\ \A q \in put' : \E p \in put : q.uid = p.uid /\ q.value = p.value
      /\ \A p \in put : \E q \in put' : q.uid = p.uid /\ q.value = p.value
      /\ \A p, q \in put' : p = q
  BY <1>0, <1>1, StaleIsSamePut DEF OnePut
<1>4. DeviceTypeOK'
  BY <1>1, <1>2 DEF DeviceTypeOK
<1>5. SourcesHeld'
  <2>1. \A g \in gets' : g.answer \in Readings => g.answer \in held'[g.uid]
    BY <1>1, <1>2, AskedIsNoValue DEF SourcesHeld, Readings
  <2>2. answered' => \A p \in put' : p.value \in held'[p.uid]
    BY <1>1, <1>3 DEF SourcesHeld
  <2> QED
    BY <1>1, <2>1, <2>2 DEF SourcesHeld
<1>6. OnePut'
  <2>1. put' # {} => loop' = "putting"
    BY <1>1, <1>3 DEF OnePut
  <2>2. answered' => put' # {}
    BY <1>1, <1>3 DEF OnePut
  <2>3. ASSUME NEW p \in puts', p.awaited
        PROVE  \E q \in put' : q.uid = p.uid /\ q.value = p.value
    <3>1. PICK r \in put : r.uid = p.uid /\ r.value = p.value
      BY <1>1, <2>3 DEF OnePut
    <3> QED
      BY <1>3, <3>1
  <2> QED
    BY <1>3, <2>1, <2>2, <2>3 DEF OnePut
<1>7. ShownHeld => ShownHeld'
  BY <1>1, ValuesAreNotStates DEF CachedHeld, ShownWasHeld, Readings
<1> QED
  BY <1>4, <1>5, <1>6, <1>7

\* Every step of the gateway, of a device or of the network keeps the
\* invariant.
LEMMA DeviceStep ==
  ASSUME IInv, FromSources, RequestsInv, [DeviceNext]_allVars
  PROVE  RequestsInv' /\ (UnsharedAddress /\ ShownHeld => ShownHeld')
<1>1. CASE LoopRuns
  BY <1>1, LoopKeepsInv DEF Keeps
<1>2. CASE PutConfirmed \/ PutNotConfirmed
  BY <1>2, PutEndKeepsInv DEF Keeps
<1>3. CASE GetAnswers \/ GetFails
  BY <1>3, GetKeepsInv DEF Keeps
<1>4. CASE \/ \E g \in gets : DiscoveryGoesOn(g)
           \/ \E t \in tasks : DiscoveryStops(t) \/ DiscoveryFails(t)
  BY <1>4, DiscoveryKeepsInv DEF Keeps
<1>5. CASE \E p \in puts : PutHandled(p) \/ RobotPutHandled(p) \/ PutAnswered(p)
  BY <1>5, PutHandlingKeepsInv DEF Keeps
<1>6. CASE \E q \in posts : PostArrives(q)
  BY <1>6, PostKeepsInv
<1>7. CASE Lost \/ (\E uid \in Uids : Restarts(uid))
             \/ \E uid \in Uids, v \in Readings : SensorPosts(uid, v)
  BY <1>7, DeviceAloneKeepsInv DEF Keeps
<1>8. CASE Removed \/ \E uid \in Uids : Alive(uid)
  BY <1>8, ReplacingKeepsInv DEF Keeps
<1>9. CASE \/ \E uid \in Uids, v \in Readings : UserUpdates(uid, v)
           \/ Tick /\ UNCHANGED deviceVars
           \/ UNCHANGED allVars
  <2>1. UNCHANGED <<cache, told, loop, put, deviceVars>>
    BY <1>9 DEF UserUpdates, MessageArrives, Tick, allVars, vars, baseVars
  <2> QED
    BY <2>1 DEF deviceVars, RequestsInv, DeviceTypeOK, SourcesHeld, OnePut, ShownHeld,
      CachedHeld, ShownWasHeld
<1> QED
  BY <1>1, <1>2, <1>3, <1>4, <1>5, <1>6, <1>7, <1>8, <1>9 DEF DeviceNext

-----------------------------------------------------------------------------
\* Requests and answers carry what devices had, in whatever order they arrive.
THEOREM RequestsAreHeld == DeviceSpec => [](IInv /\ FromSources /\ RequestsInv)
<1>1. DeviceInit => IInv /\ FromSources /\ RequestsInv
  BY DeviceInvInit, InvInit, SourcesInit DEF DeviceInit, DeviceInv
<1>2. IInv /\ FromSources /\ RequestsInv /\ [DeviceNext]_allVars
        => (IInv /\ FromSources /\ RequestsInv)'
  BY GatewayStep, InvStep, SourcesStep, DeviceStep DEF RequestsInv
<1> QED
  BY <1>1, <1>2, PTL DEF DeviceSpec

\* What the gateway does among devices and a network that loses and delays, it
\* does in CoapGateway: each theorem about Spec is one about DeviceSpec.
THEOREM DevicesImplementGateway == DeviceSpec => Spec
<1>1. DeviceInit => Init
  BY DEF DeviceInit
<1>2. RequestsInv /\ [DeviceNext]_allVars => [Next]_vars
  BY GatewayStep DEF RequestsInv
<1> QED
  BY <1>1, <1>2, RequestsAreHeld, PTL DEF DeviceSpec, Spec

\* Every value between a device and the pages is one the device has had, if no
\* two devices send from one address.
THEOREM DevicesInductive ==
  ASSUME UnsharedAddress
  PROVE  DeviceSpec => []DeviceInv
<1>1. DeviceInit => ShownHeld
  BY DeviceInvInit DEF DeviceInv
<1>2. IInv /\ FromSources /\ RequestsInv /\ ShownHeld /\ [DeviceNext]_allVars => ShownHeld'
  BY DeviceStep
<1>3. RequestsInv /\ ShownHeld => DeviceInv
  BY DEF DeviceInv
<1> QED
  BY <1>1, <1>2, <1>3, RequestsAreHeld, PTL DEF DeviceSpec

\* A page shows only what the device had, or the text of an error, if no two
\* devices send from one address.
THEOREM ShownWasAlwaysHeld ==
  ASSUME UnsharedAddress
  PROVE  DeviceSpec => []ShownWasHeld
<1>1. DeviceInv => ShownWasHeld
  BY DEF DeviceInv, ShownHeld
<1> QED
  BY <1>1, DevicesInductive, PTL
=============================================================================
