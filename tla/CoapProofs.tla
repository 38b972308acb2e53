----------------------------- MODULE CoapProofs -----------------------------
(***************************************************************************)
(* Theorems about GatewayBase and CoapGateway, for any devices, addresses, *)
(* values and pages and any bounds: types, the agreement of the cache with *)
(* what the broker was told, the agreement of the cache with node_mapping, *)
(* and the refinement of NodeDirectory.                                    *)
(***************************************************************************)
EXTENDS CoapGateway, TLAPS

-----------------------------------------------------------------------------
(***************************************************************************)
(* What the helpers of GatewayBase do to their tables.                     *)
(***************************************************************************)

\* add_node.
LEMMA AddNodeEffect ==
  ASSUME BaseTypeOK, NEW uid \in Uids, AddNode(uid)
  PROVE  /\ cache' \in [Uids -> NodeStates]
         /\ told' \in [Uids -> NodeStates]
         /\ older' \subseteq Uids \X Uids
         /\ cache'[uid] = "blank"
         /\ told'[uid] = IF conn = "open" /\ told[uid] = "absent" THEN "blank" ELSE told[uid]
         /\ \A u \in Uids \ {uid} : cache'[u] = cache[u] /\ told'[u] = told[u]
         /\ nodes' = nodes \cup {uid}
  BY DEF BaseTypeOK, NodeStates, AddNode, AfterNew, nodes

\* forward_data_from_node, to the Node in the cache or to one it replaced.
LEMMA ForwardDataEffect ==
  ASSUME BaseTypeOK, NEW uid \in Uids, NEW v \in Values, NEW current \in BOOLEAN,
         current => uid \in nodes, ForwardData(uid, v, current)
  PROVE  /\ cache' \in [Uids -> NodeStates]
         /\ told' \in [Uids -> NodeStates]
         /\ diverged' \subseteq Uids
         /\ older' = older
         /\ cache'[uid] = IF current THEN v ELSE cache[uid]
         /\ told'[uid] = IF conn = "open" /\ told[uid] # "absent" THEN v ELSE told[uid]
         /\ \A u \in Uids \ {uid} : cache'[u] = cache[u] /\ told'[u] = told[u]
         /\ nodes' = nodes
         /\ \A u \in Uids : told'[u] = "absent" <=> told[u] = "absent"
<1> USE DEF BaseTypeOK, NodeStates
<1>1. v # "absent"
  BY ValuesAreNotStates
<1>2. /\ cache' \in [Uids -> NodeStates]
      /\ cache'[uid] = IF current THEN v ELSE cache[uid]
      /\ \A u \in Uids \ {uid} : cache'[u] = cache[u]
  BY DEF ForwardData
<1>3. /\ told' \in [Uids -> NodeStates]
      /\ told'[uid] = IF conn = "open" /\ told[uid] # "absent" THEN v ELSE told[uid]
      /\ \A u \in Uids \ {uid} : told'[u] = told[u]
  BY DEF ForwardData, AfterUpdate
<1>4. nodes' = nodes
  BY <1>1, <1>2 DEF nodes
<1>5. diverged' \subseteq Uids /\ older' = older
  BY DEF ForwardData
<1> QED
  BY <1>1, <1>2, <1>3, <1>4, <1>5

\* fetch_nodes_cache for one page.
LEMMA AfterFetchForEffect ==
  ASSUME BaseTypeOK
  PROVE  /\ AfterFetchFor \in [Uids -> NodeStates]
         /\ ToldExact => AfterFetchFor = told
<1>1. AfterFetchFor \in [Uids -> NodeStates]
  BY DEF BaseTypeOK, NodeStates, AfterFetchFor
<1>2. ToldExact => \A u \in Uids : AfterFetchFor[u] = told[u]
  BY DEF BaseTypeOK, NodeStates, AfterFetchFor, ToldExact, nodes
<1> QED
  BY <1>1, <1>2 DEF BaseTypeOK

\* What leaves the cache marks the pending request as stale.
LEMMA PutAfterReplacingEffect ==
  ASSUME BaseTypeOK, NEW uids
  PROVE  /\ PutAfterReplacing(uids) \subseteq [uid : Uids, value : Values, current : BOOLEAN]
         /\ \A q \in PutAfterReplacing(uids) :
              q.current => q.uid \notin uids /\ \E p \in put : p.current /\ p.uid = q.uid
  BY DEF BaseTypeOK, PutAfterReplacing

\* The same for the suspended discoveries.
LEMMA TasksAfterReplacingEffect ==
  ASSUME TypeOK, NEW uids
  PROVE  /\ TasksAfterReplacing(uids) \subseteq [uid : Uids, current : BOOLEAN]
         /\ \A q \in TasksAfterReplacing(uids) :
              q.current => q.uid \notin uids /\ \E t \in tasks : t.current /\ t.uid = q.uid
<1>1. ASSUME NEW q \in TasksAfterReplacing(uids)
      PROVE  /\ q \in [uid : Uids, current : BOOLEAN]
             /\ q.current => q.uid \notin uids /\ \E t \in tasks : t.current /\ t.uid = q.uid
  <2>1. PICK t \in tasks :
          q = [uid |-> t.uid, current |-> t.current /\ t.uid \notin uids]
    BY DEF TasksAfterReplacing, Task
  <2>2. t.uid \in Uids /\ t.current \in BOOLEAN
    BY DEF TypeOK
  <2> QED
    BY <2>1, <2>2
<1> QED
  BY <1>1

-----------------------------------------------------------------------------
(***************************************************************************)
(* Types.                                                                  *)
(***************************************************************************)

\* The queue of a connection grows at its end and loses its end or its head.
LEMMA InboxType ==
  ASSUME BaseTypeOK
  PROVE  /\ inbox # <<>> => Tail(inbox) \in Seq(BrokerMessages)
         /\ \A m \in BrokerMessages : Append(inbox, m) \in Seq(BrokerMessages)
         /\ \A k \in 0..Len(inbox) : SubSeq(inbox, 1, k) \in Seq(BrokerMessages)
<1>1. inbox \in Seq(BrokerMessages)
  BY DEF BaseTypeOK
<1> HIDE DEF BrokerMessages
<1> QED
  BY <1>1

\* A gateway starts with an empty cache and no connection.
LEMMA TypeInit == Init => TypeOK
  BY MaxTimeIsNat DEF Init, BaseInit, TypeOK, BaseTypeOK, NodeStates

\* Every handler keeps the types; that a task which writes to a cached Node
\* writes to a node of the cache is what keeps the type of the cache.
LEMMA TypeStep == TypeOK /\ CurrentCached /\ [Next]_vars => TypeOK'
<1> SUFFICES ASSUME TypeOK, CurrentCached, [Next]_vars
             PROVE  TypeOK'
  OBVIOUS
<1> USE DEF TypeOK
<1>1. CASE LoopResumes
  <2>1. CASE Connected /\ UNCHANGED coapVars
    BY <2>1 DEF Connected, coapVars, BaseTypeOK, AfterFetch
  <2>2. CASE ConnectedThenLost /\ UNCHANGED coapVars
    BY <2>2 DEF ConnectedThenLost, coapVars, BaseTypeOK
  <2>3. CASE (ConnectionRefused \/ ConnectionFails \/ SleepEnds \/ ReadNone) /\ UNCHANGED coapVars
    BY <2>3 DEF ConnectionRefused, ConnectionFails, SleepEnds, ReadNone, coapVars, BaseTypeOK
  <2>4. CASE (\E page \in Pages : ReadNew(page)) /\ UNCHANGED coapVars
    BY <2>4, InboxType, AfterFetchForEffect DEF ReadNew, Reads, coapVars, BaseTypeOK
  <2>5. CASE (\E uid \in Uids, v \in Values : ReadUpdateUnknown(uid, v)) /\ UNCHANGED coapVars
    BY <2>5, InboxType DEF ReadUpdateUnknown, Reads, coapVars, BaseTypeOK
  <2>6. CASE \E uid \in Uids, v \in Values : ReadUpdate(uid, v)
    <3>1. PICK uid \in Uids, v \in Values : ReadUpdate(uid, v)
      BY <2>6
    <3>2. inbox' \in Seq(BrokerMessages)
      BY <3>1, InboxType DEF ReadUpdate, Reads
    <3>3. put' \subseteq [uid : Uids, value : Values, current : BOOLEAN]
      <4>1. put' = put \/ put' = {[uid |-> uid, value |-> v, current |-> TRUE]}
        BY <3>1 DEF ReadUpdate
      <4>2. [uid |-> uid, value |-> v, current |-> TRUE]
              \in [uid : Uids, value : Values, current : BOOLEAN]
        OBVIOUS
      <4> QED
        BY <4>1, <4>2 DEF BaseTypeOK
    <3> QED
      BY <3>1, <3>2, <3>3 DEF ReadUpdate, coapVars, BaseTypeOK
  <2> QED
    BY <1>1, <2>1, <2>2, <2>3, <2>4, <2>5, <2>6 DEF LoopResumes
<1>2. CASE \E m \in BrokerMessages : MessageArrives(m) /\ UNCHANGED coapVars
  BY <1>2, InboxType DEF MessageArrives, coapVars, BaseTypeOK
<1>3. CASE ConnectionLost /\ UNCHANGED coapVars
  BY <1>3, InboxType DEF ConnectionLost, coapVars, BaseTypeOK, NodeStates
<1>4. ASSUME NEW p \in put, PutEnds(p)
      PROVE  TypeOK'
  <2>1. p.uid \in Uids /\ p.value \in Values /\ p.current \in BOOLEAN
    BY DEF BaseTypeOK
  <2>2. CASE PutChanged(p)
    BY <2>1, <2>2, ForwardDataEffect DEF PutChanged, CurrentCached, coapVars, BaseTypeOK
  <2>3. CASE PutFails(p) \/ PutRaises(p)
    BY <2>3 DEF PutFails, PutRaises, coapVars, BaseTypeOK
  <2> QED
    BY <1>4, <2>2, <2>3 DEF PutEnds
<1>5. ASSUME NEW uid \in Uids, NEW addr \in Addrs, CoapCheck(uid, addr)
      PROVE  TypeOK'
  <2>1. tasks' \subseteq TasksAfterReplacing({uid}) \cup {Task(uid, TRUE)}
    BY <1>5 DEF CoapCheck
  <2>2. Task(uid, TRUE) \in [uid : Uids, current : BOOLEAN]
    BY DEF Task
  <2>3. tasks' \subseteq [uid : Uids, current : BOOLEAN]
    BY <2>1, <2>2, TasksAfterReplacingEffect
  <2>4. put' \subseteq [uid : Uids, value : Values, current : BOOLEAN]
    BY <1>5, PutAfterReplacingEffect DEF CoapCheck
  <2>5. /\ mapping' \in [Addrs -> Uids \cup {NoUid}]
        /\ ip' \in [Uids -> Addrs \cup {NoIp}]
        /\ age' \in [Uids -> 0..(MaxTime + 1)]
    BY <1>5, MaxTimeIsNat DEF CoapCheck
  <2> QED
    BY <1>5, <2>3, <2>4, <2>5, AddNodeEffect DEF CoapCheck, BaseTypeOK
<1>6. ASSUME NEW t \in tasks, DiscoveryEnds(t) \/ \E v \in Values : DiscoveryForwards(t, v)
      PROVE  TypeOK'
  <2>1. t.uid \in Uids /\ t.current \in BOOLEAN
    OBVIOUS
  <2>2. CASE DiscoveryEnds(t)
    BY <2>2 DEF DiscoveryEnds, baseVars, BaseTypeOK
  <2>3. CASE \E v \in Values : DiscoveryForwards(t, v)
    BY <2>1, <2>3, ForwardDataEffect DEF DiscoveryForwards, CurrentCached, BaseTypeOK
  <2> QED
    BY <1>6, <2>2, <2>3
<1>7. ASSUME NEW addr \in Addrs, NEW v \in Values, CoapPost(addr, v)
      PROVE  TypeOK'
  BY <1>7, ForwardDataEffect DEF CoapPost, nodes, coapVars, BaseTypeOK
<1>8. ASSUME NEW gone \in SUBSET Uids, CheckDeadNodes(gone)
      PROVE  TypeOK'
  <2>1. /\ tasks' \subseteq [uid : Uids, current : BOOLEAN]
        /\ put' \subseteq [uid : Uids, value : Values, current : BOOLEAN]
    BY <1>8, TasksAfterReplacingEffect, PutAfterReplacingEffect DEF CheckDeadNodes
  <2>2. /\ mapping' \in [Addrs -> Uids \cup {NoUid}]
        /\ ip' \in [Uids -> Addrs \cup {NoIp}]
        /\ age' \in [Uids -> 0..(MaxTime + 1)]
    BY <1>8, MaxTimeIsNat DEF CheckDeadNodes
  <2>3. cache' \in [Uids -> NodeStates] /\ told' \in [Uids -> NodeStates]
    BY <1>8 DEF CheckDeadNodes, AfterOut, BaseTypeOK, NodeStates
  <2>4. older' \subseteq Uids \X Uids /\ diverged' \subseteq Uids
    BY <1>8 DEF CheckDeadNodes, BaseTypeOK
  <2> QED
    BY <1>8, <2>1, <2>2, <2>3, <2>4 DEF CheckDeadNodes, BaseTypeOK
<1>9. CASE Tick
  <2>1. age' \in [Uids -> 0..(MaxTime + 1)]
    BY <1>9, MaxTimeIsNat DEF Tick
  <2> QED
    BY <1>9, <2>1 DEF Tick, baseVars, BaseTypeOK
<1>10. CASE UNCHANGED vars
  BY <1>10 DEF vars, baseVars, coapVars, BaseTypeOK
<1> QED
  BY <1>1, <1>2, <1>3, <1>4, <1>5, <1>6, <1>7, <1>8, <1>9, <1>10 DEF Next

-----------------------------------------------------------------------------
(***************************************************************************)
(* The cache and what the broker was told.                                 *)
(***************************************************************************)

\* Nothing is cached and nothing told.
LEMMA InvInit == Init => IInv
  BY TypeInit, ValuesAreNotStates
  DEF Init, BaseInit, IInv, OneConnection, ToldForSession, CurrentCached, ToldExact,
      CacheIsTold, nodes

\* A value forwarded for a node changes it in both or in none.
LEMMA ForwardKeepsIInv ==
  ASSUME IInv, NEW uid \in Uids, NEW v \in Values, NEW current \in BOOLEAN,
         current => uid \in nodes, ForwardData(uid, v, current), UNCHANGED conn
  PROVE  ToldForSession' /\ ToldExact' /\ CacheIsTold'
<1>1. BaseTypeOK
  BY DEF IInv, TypeOK
<1>2. /\ cache'[uid] = IF current THEN v ELSE cache[uid]
      /\ told'[uid] = IF conn = "open" /\ told[uid] # "absent" THEN v ELSE told[uid]
      /\ \A u \in Uids \ {uid} : cache'[u] = cache[u] /\ told'[u] = told[u]
      /\ nodes' = nodes
      /\ \A u \in Uids : told'[u] = "absent" <=> told[u] = "absent"
  BY <1>1, ForwardDataEffect
<1>3. ToldForSession' /\ ToldExact'
  BY <1>2 DEF IInv, ToldForSession, ToldExact
<1>4. CacheIsTold'
  <2> SUFFICES ASSUME conn = "open", NEW u \in Uids, u \notin diverged', cache'[u] \in Values
               PROVE  told'[u] = cache'[u]
    BY DEF CacheIsTold
  <2>1. CASE u # uid
    BY <1>2, <2>1 DEF IInv, CacheIsTold, ForwardData
  <2>2. CASE u = uid /\ current
    BY <1>2, <2>2 DEF IInv, ToldExact
  <2>3. CASE u = uid /\ ~current
    <3>1. told[uid] = "absent" /\ diverged' = diverged
      BY <2>3 DEF ForwardData
    <3> QED
      BY <1>2, <2>3, <3>1 DEF IInv, CacheIsTold
  <2> QED
    BY <2>1, <2>2, <2>3
<1> QED
  BY <1>3, <1>4

\* Steps of the connection and of the task that keeps it.
LEMMA LoopKeepsIInv ==
  ASSUME IInv, LoopResumes
  PROVE  OneConnection' /\ ToldForSession' /\ CurrentCached' /\ ToldExact' /\ CacheIsTold'
<1> USE DEF IInv, TypeOK, OneConnection, ToldForSession, CurrentCached, ToldExact, CacheIsTold
<1>1. CASE Connected /\ UNCHANGED coapVars
  BY <1>1 DEF Connected, AfterFetch, nodes, coapVars
<1>2. CASE ConnectedThenLost /\ UNCHANGED coapVars
  BY <1>2 DEF ConnectedThenLost, nodes, coapVars
<1>3. CASE (ConnectionRefused \/ ConnectionFails \/ SleepEnds \/ ReadNone) /\ UNCHANGED coapVars
  BY <1>3 DEF ConnectionRefused, ConnectionFails, SleepEnds, ReadNone, nodes, coapVars
<1>4. CASE (\E page \in Pages : ReadNew(page)) /\ UNCHANGED coapVars
  <2>1. told' = told
    BY <1>4, AfterFetchForEffect DEF ReadNew
  <2>2. loop' \in {"dead", "reading"} /\ UNCHANGED <<cache, conn, put, diverged, tasks>>
    BY <1>4 DEF ReadNew, coapVars
  <2> QED
    BY <2>1, <2>2 DEF nodes
<1>5. CASE (\E uid \in Uids, v \in Values : ReadUpdateUnknown(uid, v)) /\ UNCHANGED coapVars
  BY <1>5 DEF ReadUpdateUnknown, nodes, coapVars
<1>6. CASE \E uid \in Uids, v \in Values : ReadUpdate(uid, v)
  <2>1. PICK uid \in Uids, v \in Values : ReadUpdate(uid, v)
    BY <1>6
  <2>2. /\ loop' \in {"dead", "putting"}
        /\ put' = put \/ put' = {[uid |-> uid, value |-> v, current |-> TRUE]}
        /\ uid \in nodes
        /\ UNCHANGED <<cache, conn, told, diverged, tasks>>
    BY <2>1 DEF ReadUpdate, coapVars
  <2> QED
    BY <2>2 DEF nodes
<1> QED
  BY <1>1, <1>2, <1>3, <1>4, <1>5, <1>6 DEF LoopResumes

\* Every handler keeps the invariant.
LEMMA InvStep == IInv /\ [Next]_vars => IInv'
<1> SUFFICES ASSUME IInv, [Next]_vars
             PROVE  IInv'
  OBVIOUS
<1>0. TypeOK /\ BaseTypeOK /\ TypeOK'
  BY TypeStep DEF IInv, TypeOK
<1> SUFFICES OneConnection' /\ ToldForSession' /\ CurrentCached' /\ ToldExact' /\ CacheIsTold'
  BY <1>0 DEF IInv
<1> DEFINE Rest == OneConnection /\ ToldForSession /\ CurrentCached /\ ToldExact /\ CacheIsTold
<1> USE DEF OneConnection, ToldForSession, CurrentCached, ToldExact, CacheIsTold
<1>1. CASE LoopResumes
  BY <1>1, LoopKeepsIInv
<1>2. CASE \E m \in BrokerMessages : MessageArrives(m) /\ UNCHANGED coapVars
  BY <1>2 DEF IInv, MessageArrives, nodes, coapVars
<1>3. CASE ConnectionLost /\ UNCHANGED coapVars
  BY <1>3 DEF IInv, ConnectionLost, nodes, coapVars
<1>4. ASSUME NEW p \in put, PutEnds(p)
      PROVE  Rest'
  <2>1. p.uid \in Uids /\ p.value \in Values /\ p.current \in BOOLEAN
    BY <1>0 DEF BaseTypeOK
  <2>2. loop' \in {"dead", "reading"} /\ put' \subseteq put /\ UNCHANGED <<conn, tasks>>
    BY <1>4 DEF PutEnds, PutChanged, PutFails, PutRaises, coapVars
  <2>3. CASE PutChanged(p)
    <3>1. ForwardData(p.uid, p.value, p.current) /\ (p.current => p.uid \in nodes)
      BY <2>3 DEF PutChanged, IInv
    <3>2. nodes' = nodes
      BY <1>0, <2>1, <3>1, ForwardDataEffect
    <3>3. ToldForSession' /\ ToldExact' /\ CacheIsTold'
      BY <2>1, <2>2, <3>1, ForwardKeepsIInv
    <3> QED
      BY <2>2, <3>2, <3>3 DEF IInv
  <2>4. CASE PutFails(p) \/ PutRaises(p)
    BY <2>2, <2>4 DEF IInv, PutFails, PutRaises, nodes
  <2> QED
    BY <1>4, <2>3, <2>4 DEF PutEnds
<1>5. ASSUME NEW uid \in Uids, NEW addr \in Addrs, CoapCheck(uid, addr)
      PROVE  Rest'
  <2>1. UNCHANGED <<conn, loop, diverged>>
    BY <1>5 DEF CoapCheck
  <2>2. /\ cache'[uid] = "blank"
        /\ told'[uid] = IF conn = "open" /\ told[uid] = "absent" THEN "blank" ELSE told[uid]
        /\ \A u \in Uids \ {uid} : cache'[u] = cache[u] /\ told'[u] = told[u]
        /\ nodes' = nodes \cup {uid}
    BY <1>0, <1>5, AddNodeEffect DEF CoapCheck
  <2>3. \A t \in tasks' : t.current => t.uid \in nodes'
    <3>1. tasks' \subseteq TasksAfterReplacing({uid}) \cup {Task(uid, TRUE)}
      BY <1>5 DEF CoapCheck
    <3>2. Task(uid, TRUE).uid = uid
      BY DEF Task
    <3> SUFFICES ASSUME NEW t \in TasksAfterReplacing({uid}), t.current
                 PROVE  t.uid \in nodes'
      BY <2>2, <3>1, <3>2
    <3>3. PICK u \in tasks : u.current /\ u.uid = t.uid
      BY <1>0, TasksAfterReplacingEffect
    <3> QED
      BY <2>2, <3>3 DEF IInv
  <2>4. \A p \in put' : p.current => p.uid \in nodes'
    BY <1>0, <1>5, <2>2, PutAfterReplacingEffect DEF IInv, CoapCheck
  <2>5. ToldForSession' /\ ToldExact' /\ OneConnection'
    BY <2>1, <2>2 DEF IInv
  <2>6. CacheIsTold'
    BY <2>1, <2>2, ValuesAreNotStates DEF IInv
  <2> QED
    BY <2>3, <2>4, <2>5, <2>6
<1>6. ASSUME NEW t \in tasks, DiscoveryEnds(t) \/ \E v \in Values : DiscoveryForwards(t, v)
      PROVE  Rest'
  <2>1. t.uid \in Uids /\ t.current \in BOOLEAN
    BY <1>0 DEF TypeOK
  <2>2. CASE DiscoveryEnds(t)
    BY <2>2 DEF IInv, DiscoveryEnds, baseVars, nodes
  <2>3. CASE \E v \in Values : DiscoveryForwards(t, v)
    <3>1. PICK v \in Values : DiscoveryForwards(t, v)
      BY <2>3
    <3>2. /\ ForwardData(t.uid, v, t.current)
          /\ t.current => t.uid \in nodes
          /\ tasks' \subseteq tasks
          /\ UNCHANGED <<conn, loop, put>>
      BY <3>1 DEF DiscoveryForwards, IInv
    <3>3. nodes' = nodes
      BY <1>0, <2>1, <3>2, ForwardDataEffect
    <3>4. ToldForSession' /\ ToldExact' /\ CacheIsTold'
      BY <2>1, <3>2, ForwardKeepsIInv
    <3> QED
      BY <3>2, <3>3, <3>4 DEF IInv
  <2> QED
    BY <1>6, <2>2, <2>3
<1>7. ASSUME NEW addr \in Addrs, NEW v \in Values, CoapPost(addr, v)
      PROVE  Rest'
  <2>1. /\ mapping[addr] \in nodes /\ mapping[addr] \in Uids
        /\ ForwardData(mapping[addr], v, TRUE)
        /\ UNCHANGED <<conn, loop, put, tasks>>
    BY <1>7 DEF CoapPost, coapVars, nodes
  <2>2. nodes' = nodes
    BY <1>0, <2>1, ForwardDataEffect
  <2>3. ToldForSession' /\ ToldExact' /\ CacheIsTold'
    BY <2>1, ForwardKeepsIInv
  <2> QED
    BY <2>1, <2>2, <2>3 DEF IInv
<1>8. ASSUME NEW gone \in SUBSET Uids, CheckDeadNodes(gone)
      PROVE  Rest'
  <2>1. /\ UNCHANGED <<conn, loop>>
        /\ \A u \in Uids : /\ cache'[u] = IF u \in gone THEN "absent" ELSE cache[u]
                           /\ told'[u] = IF u \in gone THEN "absent" ELSE told[u]
        /\ diverged' = diverged \ gone
    BY <1>8 DEF CheckDeadNodes, AfterOut
  <2>2. nodes' = nodes \ gone
    BY <2>1 DEF nodes
  <2>3. \A t \in tasks' : t.current => t.uid \in nodes'
    BY <1>0, <1>8, <2>2, TasksAfterReplacingEffect DEF IInv, CheckDeadNodes
  <2>4. \A p \in put' : p.current => p.uid \in nodes'
    BY <1>0, <1>8, <2>2, PutAfterReplacingEffect DEF IInv, CheckDeadNodes
  <2>5. ToldForSession' /\ ToldExact' /\ OneConnection'
    BY <2>1, <2>2 DEF IInv
  <2>6. CacheIsTold'
    BY <2>1, ValuesAreNotStates DEF IInv
  <2> QED
    BY <2>3, <2>4, <2>5, <2>6
<1>9. CASE Tick
  BY <1>9 DEF IInv, Tick, baseVars, nodes
<1>10. CASE UNCHANGED vars
  BY <1>10 DEF IInv, vars, baseVars, coapVars, nodes
<1> QED
  BY <1>1, <1>2, <1>3, <1>4, <1>5, <1>6, <1>7, <1>8, <1>9, <1>10 DEF Next

\* The cache, the connection and what the broker was told agree in every state.
THEOREM Inductive == Spec => []IInv
  BY InvInit, InvStep, PTL DEF Spec

\* The variables have their types.
THEOREM TypeCorrect == Spec => []TypeOK
<1>1. IInv => TypeOK
  BY DEF IInv
<1> QED
  BY <1>1, Inductive, PTL

\* While connected, the broker lists exactly the cached nodes.
THEOREM NodesAreTold == Spec => []ToldExact
<1>1. IInv => ToldExact
  BY DEF IInv
<1> QED
  BY <1>1, Inductive, PTL

\* While connected, the cached value is the one broadcast last, but for what a
\* task wrote to a Node that was replaced.
THEOREM ValuesAreTold == Spec => []CacheIsTold
<1>1. IInv => CacheIsTold
  BY DEF IInv
<1> QED
  BY <1>1, Inductive, PTL

-----------------------------------------------------------------------------
(***************************************************************************)
(* Which steps change the set of nodes, node_mapping, the connection and   *)
(* the list of the broker.                                                 *)
(***************************************************************************)
Listing == {uid \in Uids : told[uid] # "absent"}

\* What a step does to the cache, the addresses, the mapping and the listing:
\* only checks and removals change any of them but the values.
LEMMA StepEffect ==
  ASSUME IInv, [Next]_vars
  PROVE  \/ \E uid \in Uids, addr \in Addrs : CoapCheck(uid, addr)
         \/ \E gone \in SUBSET Uids : CheckDeadNodes(gone)
         \/ (Connected \/ ConnectedThenLost \/ ConnectionLost) /\ UNCHANGED coapVars
         \/ UNCHANGED <<mapping, ip, nodes, conn, Listing>>
<1>0. BaseTypeOK
  BY DEF IInv, TypeOK
<1> DEFINE Kept == UNCHANGED <<mapping, ip, nodes, conn, Listing>>
<1>1. ASSUME NEW uid \in Uids, NEW v \in Values, NEW current \in BOOLEAN,
             current => uid \in nodes, ForwardData(uid, v, current),
             UNCHANGED <<mapping, ip, conn>>
      PROVE  Kept
  BY <1>0, <1>1, ForwardDataEffect DEF Listing
<1>2. CASE LoopResumes /\ ~Connected /\ ~ConnectedThenLost
  <2>1. CASE (ConnectionRefused \/ ConnectionFails \/ SleepEnds \/ ReadNone) /\ UNCHANGED coapVars
    BY <2>1 DEF ConnectionRefused, ConnectionFails, SleepEnds, ReadNone, coapVars, nodes, Listing
  <2>2. CASE (\E page \in Pages : ReadNew(page)) /\ UNCHANGED coapVars
    <3>1. UNCHANGED <<cache, conn, told, mapping, ip>>
      BY <1>0, <2>2, AfterFetchForEffect DEF IInv, ReadNew, coapVars
    <3> QED
      BY <3>1 DEF nodes, Listing
  <2>3. CASE (\E uid \in Uids, v \in Values : ReadUpdateUnknown(uid, v)) /\ UNCHANGED coapVars
    BY <2>3 DEF ReadUpdateUnknown, coapVars, nodes, Listing
  <2>4. CASE \E uid \in Uids, v \in Values : ReadUpdate(uid, v)
    BY <2>4 DEF ReadUpdate, coapVars, nodes, Listing
  <2> QED
    BY <1>2, <2>1, <2>2, <2>3, <2>4 DEF LoopResumes
<1>3. CASE \E m \in BrokerMessages : MessageArrives(m) /\ UNCHANGED coapVars
  BY <1>3 DEF MessageArrives, coapVars, nodes, Listing
<1>4. CASE \E p \in put : PutEnds(p)
  <2>1. PICK p \in put : PutEnds(p)
    BY <1>4
  <2>2. p.uid \in Uids /\ p.value \in Values /\ p.current \in BOOLEAN
    BY <1>0 DEF BaseTypeOK
  <2>3. CASE PutChanged(p)
    BY <1>1, <2>2, <2>3 DEF PutChanged, coapVars, IInv, CurrentCached
  <2>4. CASE PutFails(p) \/ PutRaises(p)
    BY <2>4 DEF PutFails, PutRaises, coapVars, nodes, Listing
  <2> QED
    BY <2>1, <2>3, <2>4 DEF PutEnds
<1>5. CASE \E t \in tasks : DiscoveryEnds(t) \/ \E v \in Values : DiscoveryForwards(t, v)
  <2>1. PICK t \in tasks : DiscoveryEnds(t) \/ \E v \in Values : DiscoveryForwards(t, v)
    BY <1>5
  <2>2. t.uid \in Uids /\ t.current \in BOOLEAN
    BY DEF IInv, TypeOK
  <2>3. CASE \E v \in Values : DiscoveryForwards(t, v)
    BY <1>1, <2>2, <2>3 DEF DiscoveryForwards, IInv, CurrentCached
  <2>4. CASE DiscoveryEnds(t)
    BY <2>4 DEF DiscoveryEnds, baseVars, nodes, Listing
  <2> QED
    BY <2>1, <2>3, <2>4
<1>6. CASE \E addr \in Addrs, v \in Values : CoapPost(addr, v)
  <2>1. PICK addr \in Addrs, v \in Values : CoapPost(addr, v)
    BY <1>6
  <2>2. mapping[addr] \in nodes /\ mapping[addr] \in Uids
    BY <2>1 DEF CoapPost, nodes
  <2> QED
    BY <1>1, <2>1, <2>2 DEF CoapPost, coapVars
<1>7. CASE Tick \/ UNCHANGED vars
  BY <1>7 DEF Tick, vars, baseVars, coapVars, nodes, Listing
<1>8. CASE LoopResumes /\ (Connected \/ ConnectedThenLost)
  BY <1>8 DEF LoopResumes, Connected, ConnectedThenLost, ReadUpdate
<1> QED
  BY <1>2, <1>3, <1>4, <1>5, <1>6, <1>7, <1>8 DEF Next

-----------------------------------------------------------------------------
(***************************************************************************)
(* node_mapping, when devices keep their address to themselves.            *)
(***************************************************************************)

\* An address that is mapped is mapped to a uid.
LEMMA MappedType ==
  ASSUME TypeOK, NEW addr \in Addrs
  PROVE  Mapped(addr) <=> mapping[addr] \in Uids
  BY NoUidIsNoUid DEF Mapped, TypeOK

\* Nothing is mapped.
LEMMA SourcesInit == Init => FromSources
  BY DEF Init, BaseInit, FromSources, Mapped, nodes

\* A check enters a device under an address it sends from.
LEMMA SourcesStep == IInv /\ FromSources /\ [Next]_vars => FromSources'
<1> SUFFICES ASSUME IInv, FromSources, [Next]_vars
             PROVE  FromSources'
  OBVIOUS
<1>0. TypeOK
  BY DEF IInv
<1>1. ASSUME NEW uid \in Uids, NEW addr \in Addrs, CoapCheck(uid, addr)
      PROVE  FromSources'
  <2>1. /\ <<uid, addr>> \in Sources
        /\ nodes' = nodes \cup {uid}
        /\ \A a \in Addrs : mapping'[a] = IF a = addr THEN uid ELSE mapping[a]
        /\ \A u \in Uids : ip'[u] = IF u = uid THEN addr ELSE ip[u]
    BY <1>0, <1>1, AddNodeEffect DEF CoapCheck, TypeOK
  <2>2. ASSUME NEW u \in nodes'
        PROVE  <<u, ip'[u]>> \in Sources
    BY <2>1 DEF FromSources, nodes
  <2>3. ASSUME NEW a \in Addrs, Mapped(a)'
        PROVE  <<mapping'[a], a>> \in Sources
    BY <2>1, <2>3 DEF FromSources, Mapped
  <2> QED
    BY <2>2, <2>3 DEF FromSources
<1>2. ASSUME NEW gone \in SUBSET Uids, CheckDeadNodes(gone)
      PROVE  FromSources'
  <2>1. /\ nodes' = nodes \ gone
        /\ \A a \in Addrs : mapping'[a] \in {NoUid, mapping[a]}
        /\ \A u \in Uids \ gone : ip'[u] = ip[u]
    BY <1>2 DEF CheckDeadNodes, nodes
  <2>2. ASSUME NEW u \in nodes'
        PROVE  <<u, ip'[u]>> \in Sources
    BY <2>1 DEF FromSources, nodes
  <2>3. ASSUME NEW a \in Addrs, Mapped(a)'
        PROVE  <<mapping'[a], a>> \in Sources
    BY <2>1, <2>3 DEF FromSources, Mapped
  <2> QED
    BY <2>2, <2>3 DEF FromSources
<1>3. CASE (Connected \/ ConnectedThenLost \/ ConnectionLost) /\ UNCHANGED coapVars
  <2>1. UNCHANGED <<mapping, ip, nodes>>
    BY <1>3 DEF Connected, ConnectedThenLost, ConnectionLost, coapVars, nodes
  <2> QED
    BY <2>1 DEF FromSources, Mapped
<1>4. CASE UNCHANGED <<mapping, ip, nodes, conn, Listing>>
  BY <1>4 DEF FromSources, Mapped
<1> QED
  BY <1>1, <1>2, <1>3, <1>4, StepEffect

\* Whatever the devices do, node_mapping and the cached addresses are what
\* some check said.
THEOREM AddressesFromChecks == Spec => []FromSources
  BY SourcesInit, SourcesStep, Inductive, PTL DEF Spec

\* A check maps an address that was free or the device's own.
LEMMA CheckKeepsMapping ==
  ASSUME OwnAddress, TypeOK, MappingExact, FromSources,
         NEW uid \in Uids, NEW addr \in Addrs, CoapCheck(uid, addr)
  PROVE  MappingExact'
<1>1. /\ <<uid, addr>> \in Sources
      /\ nodes' = nodes \cup {uid}
      /\ \A a \in Addrs : mapping'[a] = IF a = addr THEN uid ELSE mapping[a]
      /\ \A u \in Uids : ip'[u] = IF u = uid THEN addr ELSE ip[u]
  BY AddNodeEffect DEF CoapCheck, TypeOK
<1>2. \A a \in Addrs : Mapped(a)' <=> a = addr \/ Mapped(a)
  BY <1>1, NoUidIsNoUid DEF Mapped
<1>3. \A u, v \in Uids, a, b \in Addrs :
        <<u, a>> \in Sources /\ <<v, b>> \in Sources => (u = v <=> a = b)
  BY DEF OwnAddress, UnsharedAddress
<1>4. nodes \subseteq Uids /\ \A u \in nodes : ip[u] \in Addrs
  BY DEF MappingExact, Mapped, nodes
<1>5. ASSUME NEW u \in nodes'
      PROVE  Mapped(ip[u])' /\ mapping'[ip'[u]] = u
  <2>1. CASE u = uid
    BY <1>1, <1>2, <2>1 DEF Mapped
  <2>2. CASE u # uid
    <3>1. u \in nodes /\ ip'[u] = ip[u] /\ ip[u] # addr
      BY <1>1, <1>3, <1>4, <2>2 DEF FromSources
    <3> QED
      BY <1>1, <1>2, <1>4, <3>1 DEF MappingExact
  <2> QED
    BY <2>1, <2>2
<1>6. ASSUME NEW a \in Addrs, Mapped(a)'
      PROVE  mapping'[a] \in nodes' /\ ip'[mapping'[a]] = a
  <2>1. CASE a = addr
    BY <1>1, <2>1
  <2>2. CASE a # addr
    <3>1. Mapped(a) /\ mapping'[a] = mapping[a] /\ mapping[a] \in nodes
      BY <1>1, <1>2, <1>6, <2>2 DEF MappingExact
    <3>2. <<mapping[a], a>> \in Sources /\ mapping[a] \in Uids
      BY <1>4, <3>1 DEF FromSources
    <3>3. mapping[a] # uid
      BY <1>1, <1>3, <2>2, <3>2
    <3> QED
      BY <1>1, <1>4, <3>1, <3>3 DEF MappingExact
  <2> QED
    BY <2>1, <2>2
<1> QED
  BY <1>5, <1>6 DEF MappingExact

\* A removal that is cut short removes node and address together.
LEMMA RemovalKeepsMapping ==
  ASSUME TypeOK, MappingExact, NEW gone \in SUBSET Uids, CheckDeadNodes(gone)
  PROVE  MappingExact'
<1>1. /\ gone \subseteq nodes
      /\ nodes' = nodes \ gone
      /\ \A a \in Addrs : mapping'[a] = IF \E u \in gone : ip[u] = a THEN NoUid ELSE mapping[a]
      /\ \A u \in Uids : ip'[u] = IF u \in gone THEN NoIp ELSE ip[u]
  BY DEF CheckDeadNodes, Dead, nodes
<1>2. \A a \in Addrs : Mapped(a)' <=> Mapped(a) /\ ~\E u \in gone : ip[u] = a
  BY <1>1 DEF Mapped
<1>3. nodes \subseteq Uids /\ \A u \in nodes : ip[u] \in Addrs /\ mapping[ip[u]] = u
  BY DEF MappingExact, Mapped, nodes
<1>4. ASSUME NEW u \in nodes'
      PROVE  Mapped(ip[u])' /\ mapping'[ip'[u]] = u
  <2>1. u \in nodes /\ ip'[u] = ip[u] /\ ~\E v \in gone : ip[v] = ip[u]
    BY <1>1, <1>3
  <2> QED
    BY <1>1, <1>2, <1>3, <2>1 DEF MappingExact
<1>5. ASSUME NEW a \in Addrs, Mapped(a)'
      PROVE  mapping'[a] \in nodes' /\ ip'[mapping'[a]] = a
  <2>1. Mapped(a) /\ mapping'[a] = mapping[a] /\ mapping[a] \notin gone
    BY <1>1, <1>2, <1>5 DEF MappingExact
  <2> QED
    BY <1>1, <1>3, <2>1 DEF MappingExact
<1> QED
  BY <1>4, <1>5 DEF MappingExact

\* Neither is anything cached nor mapped.
LEMMA MappingInit == Init => MappingExact
  BY DEF Init, BaseInit, MappingExact, Mapped, nodes

\* Nothing but checks and removals touches what MappingExact is about.
LEMMA MappingStep ==
  ASSUME OwnAddress, IInv, MappingExact, FromSources, [Next]_vars
  PROVE  MappingExact'
<1>0. TypeOK
  BY DEF IInv
<1>1. CASE \E uid \in Uids, addr \in Addrs : CoapCheck(uid, addr)
  BY <1>0, <1>1, CheckKeepsMapping
<1>2. CASE \E gone \in SUBSET Uids : CheckDeadNodes(gone)
  BY <1>0, <1>2, RemovalKeepsMapping
<1>3. CASE (Connected \/ ConnectedThenLost \/ ConnectionLost) /\ UNCHANGED coapVars
  <2>1. UNCHANGED <<mapping, ip, nodes>>
    BY <1>3 DEF Connected, ConnectedThenLost, ConnectionLost, coapVars, nodes
  <2> QED
    BY <2>1 DEF MappingExact, Mapped
<1>4. CASE UNCHANGED <<mapping, ip, nodes, conn, Listing>>
  BY <1>4 DEF MappingExact, Mapped
<1> QED
  BY <1>1, <1>2, <1>3, <1>4, StepEffect

\* node_mapping and the cache are inverse to each other, if no device shares
\* its address or changes it.
THEOREM MappingsExact ==
  ASSUME OwnAddress
  PROVE  Spec => []MappingExact
<1>1. IInv /\ MappingExact /\ FromSources /\ [Next]_vars => MappingExact'
  BY MappingStep
<1> QED
  BY <1>1, MappingInit, Inductive, AddressesFromChecks, PTL DEF Spec

\* check_dead_nodes finds every address it pops from node_mapping: it raises no
\* KeyError, so that only a send can cut it short.
THEOREM RemovalsFindAddress ==
  ASSUME OwnAddress
  PROVE  Spec => [](\A gone \in SUBSET Dead : ~PopRaises(gone))
<1>1. ASSUME MappingExact, NEW gone \in SUBSET Dead, PopRaises(gone)
      PROVE  FALSE
  <2>1. PICK u \in Dead \ gone : ~Mapped(ip[u]) \/ \E v \in gone : ip[v] = ip[u]
    BY <1>1 DEF PopRaises
  <2>2. Dead \subseteq nodes
    BY DEF Dead
  <2> QED
    BY <1>1, <2>1, <2>2 DEF MappingExact
<1>2. MappingExact => \A gone \in SUBSET Dead : ~PopRaises(gone)
  BY <1>1
<1> QED
  BY <1>2, MappingsExact, PTL

-----------------------------------------------------------------------------
(***************************************************************************)
(* The refinement of NodeDirectory.                                        *)
(***************************************************************************)

\* The gateway starts as a directory does, empty and not connected.
LEMMA DirectoryInit == Init => Directory!Init
  BY DEF Init, BaseInit, Directory!Init, nodes

\* A check of a node that is cached is a stutter, of another one a Join.
LEMMA CheckIsJoin ==
  ASSUME IInv, NEW uid \in Uids, NEW addr \in Addrs, CoapCheck(uid, addr)
  PROVE  [Directory!Next]_(Directory!vars)
<1>1. /\ told'[uid] = IF conn = "open" /\ told[uid] = "absent" THEN "blank" ELSE told[uid]
      /\ \A u \in Uids \ {uid} : told'[u] = told[u]
      /\ nodes' = nodes \cup {uid}
      /\ conn' = conn
  BY AddNodeEffect DEF CoapCheck, IInv, TypeOK
<1>2. Listing' = IF conn = "open" THEN Listing \cup {uid} ELSE Listing
  <2>1. CASE conn = "open"
    BY <1>1, <2>1 DEF Listing
  <2>2. CASE conn # "open"
    BY <1>1, <2>2 DEF Listing
  <2> QED
    BY <2>1, <2>2
<1>3. CASE uid \in nodes
  <2>1. conn = "open" => uid \in Listing
    BY <1>3 DEF IInv, ToldExact, Listing
  <2>2. UNCHANGED <<nodes, Listing, conn>>
    BY <1>1, <1>2, <1>3, <2>1
  <2> QED
    BY <2>2 DEF Directory!vars, Listing
<1>4. CASE uid \notin nodes
  <2>1. /\ nodes' = (nodes \cup {uid}) \ {}
        /\ Listing' = IF conn = "open" THEN (Listing \cup {uid}) \ {} ELSE Listing
        /\ conn' = conn
    BY <1>1, <1>2
  <2>2. Directory!Join(uid)
    BY <1>4, <2>1 DEF Directory!Join, Directory!Follows, Listing
  <2> QED
    BY <2>2 DEF Directory!Next
<1> QED
  BY <1>3, <1>4

\* A removal, whole or cut short, is a Leave or a stutter.
LEMMA RemovalIsLeave ==
  ASSUME IInv, NEW gone \in SUBSET Uids, CheckDeadNodes(gone)
  PROVE  [Directory!Next]_(Directory!vars)
<1>1. /\ gone \subseteq nodes
      /\ \A u \in Uids : /\ cache'[u] = IF u \in gone THEN "absent" ELSE cache[u]
                         /\ told'[u] = IF u \in gone THEN "absent" ELSE told[u]
      /\ conn' = conn
  BY DEF CheckDeadNodes, AfterOut, Dead
<1>2. nodes' = nodes \ gone /\ Listing' = Listing \ gone
  BY <1>1 DEF nodes, Listing
<1>3. CASE gone = {}
  BY <1>1, <1>2, <1>3 DEF Directory!vars, Listing
<1>4. CASE gone # {}
  <2>1. conn # "open" => Listing \ gone = Listing
    BY DEF IInv, ToldForSession, Listing
  <2>2. /\ nodes' = (nodes \cup {}) \ gone
        /\ Listing' = IF conn = "open" THEN (Listing \cup {}) \ gone ELSE Listing
    BY <1>2, <2>1
  <2>3. Directory!Leave(gone)
    BY <1>1, <1>4, <2>2 DEF Directory!Leave, Directory!Follows, Listing
  <2> QED
    BY <2>3 DEF Directory!Next
<1> QED
  BY <1>3, <1>4

\* Each step is one of the directory or a stutter.
LEMMA DirectoryStep ==
  ASSUME IInv, [Next]_vars
  PROVE  [Directory!Next]_(Directory!vars)
<1>1. CASE \E uid \in Uids, addr \in Addrs : CoapCheck(uid, addr)
  BY <1>1, CheckIsJoin
<1>2. CASE \E gone \in SUBSET Uids : CheckDeadNodes(gone)
  BY <1>2, RemovalIsLeave
<1>3. CASE Connected
  <2>1. conn # "open" /\ conn' = "open" /\ told' = cache /\ cache' = cache
    BY <1>3 DEF Connected, AfterFetch, IInv, OneConnection
  <2>2. Directory!Connect
    BY <2>1 DEF Directory!Connect, nodes
  <2> QED
    BY <2>2 DEF Directory!Next
<1>4. CASE ConnectedThenLost
  <2>1. conn # "open" /\ conn' # "open" /\ UNCHANGED <<cache, told>>
    BY <1>4 DEF ConnectedThenLost, IInv, OneConnection
  <2> QED
    BY <2>1 DEF Directory!vars, nodes
<1>5. CASE ConnectionLost
  <2>1. /\ conn = "open" /\ conn' # "open" /\ cache' = cache
        /\ \A uid \in Uids : told'[uid] = "absent"
    BY <1>5 DEF ConnectionLost
  <2>2. Directory!Disconnect
    BY <2>1 DEF Directory!Disconnect, nodes
  <2> QED
    BY <2>2 DEF Directory!Next
<1>6. CASE UNCHANGED <<mapping, ip, nodes, conn, Listing>>
  BY <1>6 DEF Directory!vars, Listing
<1> QED
  BY <1>1, <1>2, <1>3, <1>4, <1>5, <1>6, StepEffect

\* The CoAP gateway implements NodeDirectory: at every step the broker's list
\* gains and loses what the cache gains and loses.
THEOREM ImplementsDirectory == Spec => DirectoryKept
<1>1. IInv /\ [Next]_vars => [Directory!Next]_(Directory!vars)
  BY DirectoryStep
<1> QED
  BY <1>1, DirectoryInit, Inductive, PTL DEF Spec, DirectoryKept, Directory!Spec
=============================================================================
