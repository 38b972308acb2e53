---------------------------- MODULE SystemProofs ----------------------------
(***************************************************************************)
(* Theorems of System, for any number of pages, processes, sessions and    *)
(* nodes, and queues of any length.                                        *)
(***************************************************************************)
EXTENDS System, BrokerProofs, FiniteSetTheorems

-----------------------------------------------------------------------------
(***************************************************************************)
(* Announcements: SetToSeq puts a finite set in some order.                *)
(***************************************************************************)

\* The sequence has every element of the set and no other.
LEMMA SetToSeqProperties ==
  ASSUME NEW S, IsFiniteSet(S)
  PROVE  /\ SetToSeq(S) \in Seq(S)
         /\ DOMAIN SetToSeq(S) = 1..Cardinality(S)
         /\ \A x \in S : \E i \in DOMAIN SetToSeq(S) : SetToSeq(S)[i] = x
<1> DEFINE n == Cardinality(S)
           T == [1..n -> S]
           s == SetToSeq(S)
<1>1. n \in Nat /\ ExistsBijection(1..n, S)
  BY FS_CardinalityType
<1>2. PICK b \in Bijection(1..n, S) : TRUE
  BY <1>1 DEF ExistsBijection
<1>3. b \in T /\ IsInjective(b)
  BY <1>2 DEF Bijection, Injection, IsInjective
<1>4. s \in T /\ IsInjective(s)
  BY <1>3 DEF SetToSeq
<1>5. s \in Injection(1..n, S)
  BY <1>4 DEF Injection, IsInjective
<1>6. Cardinality(1..n) = n
  BY <1>1, FS_Interval
<1>7. s \in Surjection(1..n, S)
  BY <1>5, <1>6, FS_Injection
<1>8. \A x \in S : \E i \in 1..n : s[i] = x
  BY <1>7 DEF Surjection
<1> QED
  BY <1>1, <1>4, <1>8

\* An announcement names every node of the set, and no other node.
LEMMA AnnouncementProperties ==
  ASSUME NEW C \in SUBSET Uids, NEW dst \in Clients \cup {All}
  PROVE  /\ Announcement(C, dst) \in Seq(NodeMessages)
         /\ \A i \in DOMAIN Announcement(C, dst) :
              \E uid \in C : Announcement(C, dst)[i] = NewNode(uid, dst)
         /\ \A uid \in C : \E i \in DOMAIN Announcement(C, dst) :
              Announcement(C, dst)[i] = NewNode(uid, dst)
<1> DEFINE s == SetToSeq(C)
           n == Cardinality(C)
<1>1. IsFiniteSet(C)
  BY UidsAreFinite, FS_Subset
<1>2. n \in Nat
  BY <1>1, FS_CardinalityType
<1>3. /\ s \in Seq(C)
      /\ DOMAIN s = 1..n
      /\ \A uid \in C : \E i \in 1..n : s[i] = uid
  BY <1>1, SetToSeqProperties
<1> HIDE DEF s, n
<1>4. \A i \in 1..n : s[i] \in C
  BY <1>2, <1>3
<1>5. Announcement(C, dst) = [i \in 1..n |-> NewNode(s[i], dst)]
  BY <1>3 DEF Announcement, s
<1>6. \A i \in 1..n : NewNode(s[i], dst) \in NodeMessages
  BY <1>4 DEF NodeMessages
<1> QED
  BY <1>2, <1>3, <1>4, <1>5, <1>6

-----------------------------------------------------------------------------
(***************************************************************************)
(* The channel.                                                            *)
(***************************************************************************)

\* A message of a process is a "new" or an "out" of a node.
LEMMA MessageKinds ==
  ASSUME NEW m \in NodeMessages
  PROVE  /\ m.uid \in Uids
         /\ \/ /\ m.type = "new" /\ m.dst \in Clients \cup {All}
               /\ m = NewNode(m.uid, m.dst)
            \/ m.type = "out" /\ m = OutNode(m.uid)
  BY DEF NodeMessages, NewNode, OutNode

\* Distinct messages are not confused.
LEMMA MessagesDiffer ==
  ASSUME NEW u, NEW v, NEW d, NEW e
  PROVE  /\ NewNode(u, d) # OutNode(v)
         /\ OutNode(u) = OutNode(v) => u = v
         /\ NewNode(u, d) = NewNode(v, e) => u = v /\ d = e
         /\ NewNode(u, d).type = "new" /\ NewNode(u, d).uid = u
         /\ NewNode(u, d).dst = d
         /\ OutNode(u).type = "out" /\ OutNode(u).uid = u
<1>1. /\ NewNode(u, d).type = "new" /\ NewNode(u, d).uid = u
      /\ NewNode(u, d).dst = d
      /\ NewNode(v, e).uid = v /\ NewNode(v, e).dst = e
      /\ OutNode(u).type = "out" /\ OutNode(u).uid = u
      /\ OutNode(v).type = "out" /\ OutNode(v).uid = v
  BY DEF NewNode, OutNode
<1>2. "new" # "out"
  OBVIOUS
<1> QED
  BY <1>1, <1>2

\* The positions of a concatenation are those of its parts.
LEMMA ConcatPositions ==
  ASSUME NEW q \in Seq(NodeMessages), NEW r \in Seq(NodeMessages)
  PROVE  /\ q \o r \in Seq(NodeMessages)
         /\ Len(q) \in Nat /\ Len(r) \in Nat
         /\ DOMAIN q = 1..Len(q) /\ DOMAIN r = 1..Len(r)
         /\ Len(q \o r) = Len(q) + Len(r)
         /\ DOMAIN (q \o r) = 1..(Len(q) + Len(r))
         /\ \A i \in 1..Len(q) : (q \o r)[i] = q[i]
         /\ \A i \in 1..Len(r) : (q \o r)[Len(q) + i] = r[i]
  OBVIOUS

\* Nothing of a concatenation withdraws a node if no part of it does.
LEMMA StaysConcat ==
  ASSUME NEW q \in Seq(NodeMessages), NEW r \in Seq(NodeMessages), NEW uid
  PROVE  /\ \A i \in 1..(Len(q) + 1) :
              Stays(uid, q \o r, i) <=> Stays(uid, q, i) /\ Stays(uid, r, 1)
         /\ \A i \in 1..Len(r) :
              Stays(uid, q \o r, Len(q) + i) <=> Stays(uid, r, i)
<1> DEFINE k == Len(q)
           l == Len(r)
           c == q \o r
<1>1. /\ k \in Nat /\ l \in Nat /\ Len(c) = k + l
      /\ \A i \in 1..k : c[i] = q[i]
      /\ \A i \in 1..l : c[k + i] = r[i]
  BY ConcatPositions
<1> HIDE DEF c
<1>2. \A j \in (k + 1)..(k + l) : j - k \in 1..l /\ c[j] = r[j - k]
  <2> SUFFICES ASSUME NEW j \in (k + 1)..(k + l)
               PROVE  j - k \in 1..l /\ c[j] = r[j - k]
    OBVIOUS
  <2>1. j - k \in 1..l /\ k + (j - k) = j
    BY <1>1
  <2> QED
    BY <1>1, <2>1
<1>3. ASSUME NEW i \in 1..(k + 1)
      PROVE  Stays(uid, c, i) <=> Stays(uid, q, i) /\ Stays(uid, r, 1)
  <2>1. ASSUME Stays(uid, c, i) PROVE Stays(uid, q, i) /\ Stays(uid, r, 1)
    <3>1. \A j \in i..k : j \in i..(k + l) /\ j \in 1..k
      BY <1>1
    <3>2. \A j \in 1..l : k + j \in i..(k + l)
      BY <1>1
    <3> QED
      BY <1>1, <2>1, <3>1, <3>2 DEF Stays
  <2>2. ASSUME Stays(uid, q, i), Stays(uid, r, 1) PROVE Stays(uid, c, i)
    <3>1. ASSUME NEW j \in i..(k + l) PROVE c[j] # OutNode(uid)
      <4>1. CASE j \in i..k
        BY <1>1, <2>2, <4>1 DEF Stays
      <4>2. CASE j \in (k + 1)..(k + l)
        BY <1>2, <2>2, <4>2 DEF Stays
      <4> QED
        BY <1>1, <4>1, <4>2
    <3> QED
      BY <1>1, <3>1 DEF Stays
  <2> QED
    BY <2>1, <2>2
<1>4. ASSUME NEW i \in 1..l
      PROVE  Stays(uid, c, k + i) <=> Stays(uid, r, i)
  <2>1. \A j \in i..l : k + j \in (k + i)..(k + l) /\ j \in 1..l
    BY <1>1
  <2>2. \A j \in (k + i)..(k + l) : j - k \in i..l /\ j \in (k + 1)..(k + l)
    BY <1>1
  <2> QED
    BY <1>1, <1>2, <2>1, <2>2 DEF Stays
<1> QED
  BY <1>3, <1>4 DEF c

\* Handling a concatenation is handling its parts one after the other.
LEMMA ListedAfterConcat ==
  ASSUME NEW L, NEW q \in Seq(NodeMessages), NEW r \in Seq(NodeMessages)
  PROVE  ListedAfter(L, q \o r) = ListedAfter(ListedAfter(L, q), r)
<1> DEFINE k == Len(q)
           l == Len(r)
           c == q \o r
           New(uid, s, i) == s[i].type = "new" /\ s[i].uid = uid /\ Stays(uid, s, i)
<1>1. /\ k \in Nat /\ l \in Nat
      /\ DOMAIN q = 1..k /\ DOMAIN r = 1..l /\ DOMAIN c = 1..(k + l)
      /\ \A i \in 1..k : c[i] = q[i]
      /\ \A i \in 1..l : c[k + i] = r[i]
  BY ConcatPositions
<1>2. ASSUME NEW uid
      PROVE  /\ Stays(uid, c, 1) <=> Stays(uid, q, 1) /\ Stays(uid, r, 1)
             /\ \A i \in 1..k : Stays(uid, c, i) <=> Stays(uid, q, i) /\ Stays(uid, r, 1)
             /\ \A i \in 1..l : Stays(uid, c, k + i) <=> Stays(uid, r, i)
  <2>1. 1 \in 1..(k + 1) /\ \A i \in 1..k : i \in 1..(k + 1)
    BY <1>1
  <2> QED
    BY <2>1, StaysConcat
<1> HIDE DEF c
<1>3. ASSUME NEW uid \in Uids
      PROVE  (\E i \in 1..(k + l) : New(uid, c, i))
               <=> \/ (\E i \in 1..k : New(uid, q, i)) /\ Stays(uid, r, 1)
                   \/ \E i \in 1..l : New(uid, r, i)
  <2>1. ASSUME NEW i \in 1..(k + l), New(uid, c, i)
        PROVE  \/ (\E j \in 1..k : New(uid, q, j)) /\ Stays(uid, r, 1)
               \/ \E j \in 1..l : New(uid, r, j)
    <3>1. CASE i \in 1..k
      BY <1>1, <1>2, <2>1, <3>1
    <3>2. CASE i \notin 1..k
      <4>1. PICK j \in 1..l : i = k + j
        <5>1. i - k \in 1..l /\ i = k + (i - k)
          BY <1>1, <3>2
        <5> QED
          BY <5>1
      <4> QED
        BY <1>1, <1>2, <2>1, <4>1
    <3> QED
      BY <3>1, <3>2
  <2>2. ASSUME NEW i \in 1..k, New(uid, q, i), Stays(uid, r, 1)
        PROVE  \E j \in 1..(k + l) : New(uid, c, j)
    <3>1. i \in 1..(k + l)
      BY <1>1
    <3> QED
      BY <1>1, <1>2, <2>2, <3>1
  <2>3. ASSUME NEW i \in 1..l, New(uid, r, i)
        PROVE  \E j \in 1..(k + l) : New(uid, c, j)
    <3>1. k + i \in 1..(k + l)
      BY <1>1
    <3> QED
      BY <1>1, <1>2, <2>3, <3>1
  <2> QED
    BY <2>1, <2>2, <2>3
<1>4. ASSUME NEW uid \in Uids
      PROVE  /\ uid \in ListedAfter(L, c)
                  <=> \/ uid \in L /\ Stays(uid, c, 1)
                      \/ \E i \in 1..(k + l) : New(uid, c, i)
             /\ uid \in ListedAfter(L, q)
                  <=> \/ uid \in L /\ Stays(uid, q, 1)
                      \/ \E i \in 1..k : New(uid, q, i)
             /\ uid \in ListedAfter(ListedAfter(L, q), r)
                  <=> \/ uid \in ListedAfter(L, q) /\ Stays(uid, r, 1)
                      \/ \E i \in 1..l : New(uid, r, i)
  BY <1>1 DEF ListedAfter
<1> HIDE DEF New
<1>5. ASSUME NEW uid \in Uids
      PROVE  uid \in ListedAfter(L, c) <=> uid \in ListedAfter(ListedAfter(L, q), r)
  BY <1>2, <1>3, <1>4
<1>6. /\ ListedAfter(L, c) \subseteq Uids
      /\ ListedAfter(ListedAfter(L, q), r) \subseteq Uids
  BY DEF ListedAfter
<1> QED
  BY <1>5, <1>6 DEF c

\* What one message does to the list; nothing on the way does nothing.
LEMMA ListedAfterOne ==
  ASSUME NEW L \in SUBSET Uids, NEW m \in NodeMessages
  PROVE  /\ ListedAfter(L, <<>>) = L
         /\ ListedAfter(L, <<m>>) =
              IF m.type = "new" THEN L \cup {m.uid} ELSE L \ {m.uid}
<1> DEFINE q == <<m>>
<1>1. /\ Len(q) = 1 /\ DOMAIN q = {1} /\ q[1] = m
      /\ \A uid, i : Stays(uid, <<>>, 1)
      /\ DOMAIN <<>> = {}
  BY DEF Stays
<1>2. \A uid : Stays(uid, q, 1) <=> m # OutNode(uid)
  BY <1>1 DEF Stays
<1>3. ListedAfter(L, <<>>) = L
  BY <1>1 DEF ListedAfter
<1> HIDE DEF q
<1>4. ASSUME NEW uid \in Uids
      PROVE  uid \in ListedAfter(L, q) <=>
               /\ m # OutNode(uid)
               /\ uid \in L \/ (m.type = "new" /\ m.uid = uid)
  BY <1>1, <1>2 DEF ListedAfter
<1>5. ListedAfter(L, q) \subseteq Uids /\ m.uid \in Uids
  BY MessageKinds DEF ListedAfter
<1>6. ASSUME NEW uid \in Uids
      PROVE  m = OutNode(uid) <=> m.type # "new" /\ uid = m.uid
  BY MessageKinds, MessagesDiffer
<1>7. ListedAfter(L, q) = IF m.type = "new" THEN L \cup {m.uid} ELSE L \ {m.uid}
  BY <1>4, <1>5, <1>6
<1> QED
  BY <1>3, <1>7 DEF q

\* An announcement adds its nodes to the list.
LEMMA ListedAfterAnnouncement ==
  ASSUME NEW L \in SUBSET Uids, NEW C \in SUBSET Uids,
         NEW dst \in Clients \cup {All}
  PROVE  ListedAfter(L, Announcement(C, dst)) = L \cup C
<1> DEFINE a == Announcement(C, dst)
<1>1. /\ a \in Seq(NodeMessages)
      /\ \A i \in DOMAIN a : \E uid \in C : a[i] = NewNode(uid, dst)
      /\ \A uid \in C : \E i \in DOMAIN a : a[i] = NewNode(uid, dst)
  BY AnnouncementProperties
<1> HIDE DEF a
<1>2. DOMAIN a = 1..Len(a) /\ Len(a) \in Nat
  BY <1>1
<1>3. ASSUME NEW uid, NEW i \in 1..Len(a)
      PROVE  a[i] # OutNode(uid)
  <2>1. PICK v \in C : a[i] = NewNode(v, dst)
    BY <1>1, <1>2
  <2> QED
    BY <2>1, MessagesDiffer
<1>4. \A uid : \A i \in DOMAIN a : Stays(uid, a, i)
  BY <1>2, <1>3 DEF Stays
<1>5. \A uid : Stays(uid, a, 1)
  BY <1>3 DEF Stays
<1>6. \A uid \in Uids :
        uid \in C <=> \E i \in DOMAIN a : a[i].type = "new" /\ a[i].uid = uid
  BY <1>1, MessagesDiffer
<1> QED
  BY <1>4, <1>5, <1>6 DEF ListedAfter, a

-----------------------------------------------------------------------------
(***************************************************************************)
(* The system implements the broker: what a gateway process or a page does *)
(* is, for the broker, one of the things a session may do.                 *)
(***************************************************************************)

\* What a process writes reaches its session, whole, and no other session.
LEMMA SendEffect ==
  ASSUME SystemTypeOK, NEW p \in Procs, NEW ms \in Seq(NodeMessages), Send(p, ms)
  PROVE  /\ up' \in [Gateways -> Seq(NodeMessages)]
         /\ link[p] # NoSession => up'[link[p]] = up[link[p]] \o ms
         /\ \A g \in Gateways : link[p] # g => up'[g] = up[g]
<1>1. /\ up \in [Gateways -> Seq(NodeMessages)]
      /\ link[p] \in Gateways \cup {NoSession}
  BY DEF SystemTypeOK
<1>2. \A g \in Gateways : up[g] \o ms \in Seq(NodeMessages)
  BY <1>1, ConcatPositions
<1> QED
  BY <1>1, <1>2 DEF Send

\* One message of the right kind is a queue of them.
LEMMA OneMessage ==
  ASSUME NEW uid \in Uids, NEW dst \in Clients \cup {All}
  PROVE  /\ <<NewNode(uid, dst)>> \in Seq(NodeMessages)
         /\ <<OutNode(uid)>> \in Seq(NodeMessages)
<1>1. NewNode(uid, dst) \in NodeMessages /\ OutNode(uid) \in NodeMessages
  BY DEF NodeMessages
<1> QED
  BY <1>1

\* The message the broker handles, and what is left.
LEMMA HeadAndTail ==
  ASSUME SystemTypeOK, NEW g \in Gateways, up[g] # <<>>
  PROVE  /\ Head(up[g]) \in NodeMessages
         /\ Tail(up[g]) \in Seq(NodeMessages)
         /\ <<Head(up[g])>> \in Seq(NodeMessages)
         /\ up[g] = <<Head(up[g])>> \o Tail(up[g])
<1> DEFINE q == up[g]
<1>1. q \in Seq(NodeMessages)
  BY DEF SystemTypeOK
<1> HIDE DEF q
<1>2. q # <<>> => /\ Head(q) \in NodeMessages
                  /\ Tail(q) \in Seq(NodeMessages)
                  /\ q = <<Head(q)>> \o Tail(q)
  BY <1>1
<1> QED
  BY <1>2 DEF q

\* Every step of the system is a step of the broker or leaves it alone.
LEMMA BrokerStep ==
  ASSUME SystemTypeOK, [SystemNext]_systemVars
  PROVE  [Next]_vars
<1>1. ASSUME NEW p \in Procs, NEW g \in Gateways, ProcessConnects(p, g)
      PROVE  Next
  BY <1>1 DEF ProcessConnects, Next
<1>2. ASSUME NEW p \in Procs, ProcessReads(p)
      PROVE  Next
  <2>1. link[p] \in Gateways
    BY <1>2 DEF ProcessReads, SystemTypeOK
  <2> QED
    BY <1>2, <2>1 DEF ProcessReads, Next
<1>3. ASSUME NEW g \in Gateways, BrokerHandles(g)
      PROVE  [Next]_vars
  <2> DEFINE m == Head(up[g])
  <2>1. m \in NodeMessages
    BY <1>3, HeadAndTail DEF BrokerHandles
  <2>2. CASE m.type = "new" /\ GatewaySendsNew(g, m.uid, m.dst)
    <3>1. m.uid \in Uids /\ m.dst \in Clients \cup {All}
      <4>1. "new" # "out"
        OBVIOUS
      <4> QED
        BY <2>1, <2>2, <4>1, MessageKinds
    <3> QED
      BY <2>2, <3>1 DEF Next
  <2>3. CASE GatewaySendsOut(g, m.uid)
    <3>1. m.uid \in Uids
      BY <2>1, MessageKinds
    <3> QED
      BY <2>3, <3>1 DEF Next
  <2> QED
    BY <1>3, <2>2, <2>3 DEF BrokerHandles
<1>4. ASSUME NEW s \in Sessions, OnClose(s)
      PROVE  Next
  <2>1. CASE s \in Clients
    BY <1>4, <2>1 DEF OnClose, Next
  <2>2. CASE s \notin Clients
    <3>1. s \in Gateways
      BY <2>2 DEF Sessions
    <3> QED
      BY <1>4, <2>2, <3>1 DEF OnClose, Next
  <2> QED
    BY <2>1, <2>2
<1>5. ASSUME NEW s \in Sessions, ConnectionEnds(s)
      PROVE  Next
  BY <1>5 DEF ConnectionEnds, Next
<1>6. ASSUME NEW c \in Clients, PageOpens(c) \/ PageAsks(c)
      PROVE  Next
  BY <1>6 DEF PageOpens, PageAsks, Next
<1>7. ASSUME NEW p \in Procs, LinkLost(p)
      PROVE  UNCHANGED vars
  BY <1>7 DEF LinkLost
<1>8. ASSUME NEW uid \in Uids, NodeChecks(uid) \/ NodeLeaves(uid)
      PROVE  UNCHANGED vars
  BY <1>8 DEF NodeChecks, NodeLeaves
<1>9. CASE UNCHANGED systemVars
  BY <1>9 DEF systemVars
<1> QED
  BY <1>1, <1>2, <1>3, <1>4, <1>5, <1>6, <1>7, <1>8, <1>9 DEF SystemNext

\* A message of a page carries the page it came from.
LEMMA RequestHasSource ==
  ASSUME NEW m \in ClientMessages(Clients, Uids)
  PROVE  m.src \in Clients
<1>1. ASSUME NEW c \in Clients PROVE ClientNew(c).src = c
  BY DEF ClientNew
<1>2. ASSUME NEW c \in Clients, NEW uid \in Uids PROVE ClientUpdate(c, uid).src = c
  BY DEF ClientUpdate
<1> QED
  BY <1>1, <1>2 DEF ClientMessages

\* The types of what the broker does not hold.
LEMMA ProcessTypeStep ==
  ASSUME SystemTypeOK, [SystemNext]_systemVars
  PROVE  /\ cache' \in [Procs -> SUBSET Uids]
         /\ link'  \in [Procs -> Gateways \cup {NoSession}]
         /\ up'    \in [Gateways -> Seq(NodeMessages)]
         /\ overtaken' \subseteq Uids
<1> DEFINE Goal == /\ cache' \in [Procs -> SUBSET Uids]
                   /\ link'  \in [Procs -> Gateways \cup {NoSession}]
                   /\ up'    \in [Gateways -> Seq(NodeMessages)]
                   /\ overtaken' \subseteq Uids
<1>0. /\ TypeOK
      /\ cache \in [Procs -> SUBSET Uids]
      /\ link  \in [Procs -> Gateways \cup {NoSession}]
      /\ up    \in [Gateways -> Seq(NodeMessages)]
      /\ overtaken \subseteq Uids
      /\ AllCached \subseteq Uids
      /\ All \in Clients \cup {All}
  BY DEF SystemTypeOK, AllCached
<1>1. ASSUME NEW p \in Procs, NEW g \in Gateways, ProcessConnects(p, g)
      PROVE  Goal
  <2>1. Announcement(cache[p], All) \in Seq(NodeMessages)
    BY <1>0, AnnouncementProperties
  <2> QED
    BY <1>0, <1>1, <2>1 DEF ProcessConnects
<1>2. ASSUME NEW p \in Procs, ProcessReads(p)
      PROVE  Goal
  <2> DEFINE dst == Head(unread[link[p]]).src
  <2>1. link[p] \in Gateways
    BY <1>2 DEF ProcessReads, SystemTypeOK
  <2>2. unread[link[p]] \in Seq(ClientMessages(Clients, Uids)) /\ unread[link[p]] # <<>>
    BY <1>0, <1>2, <2>1 DEF TypeOK, ProcessReads, GatewayReads
  <2>3. dst \in Clients
    <3>1. Head(unread[link[p]]) \in ClientMessages(Clients, Uids)
      BY <2>2
    <3> QED
      BY <3>1, RequestHasSource
  <2> HIDE DEF dst
  <2>4. Announcement(cache[p], dst) \in Seq(NodeMessages)
    BY <1>0, <2>3, AnnouncementProperties
  <2>5. up' \in [Gateways -> Seq(NodeMessages)]
    BY <1>2, <2>4, SendEffect DEF ProcessReads, dst
  <2> QED
    BY <1>0, <1>2, <2>5 DEF ProcessReads
<1>3. ASSUME NEW uid \in Uids, NodeChecks(uid) \/ NodeLeaves(uid)
      PROVE  Goal
  <2>1. Home[uid] \in Procs
    BY HomeIsAProcess
  <2>2. up' \in [Gateways -> Seq(NodeMessages)]
    BY <1>0, <1>3, <2>1, OneMessage, SendEffect DEF NodeChecks, NodeLeaves
  <2>3. cache' \in [Procs -> SUBSET Uids]
    BY <1>0, <1>3, <2>1 DEF NodeChecks, NodeLeaves
  <2> QED
    BY <1>0, <1>3, <2>2, <2>3 DEF NodeChecks, NodeLeaves
<1>4. ASSUME NEW g \in Gateways, BrokerHandles(g)
      PROVE  Goal
  <2>1. Head(up[g]).uid \in Uids /\ Tail(up[g]) \in Seq(NodeMessages)
    BY <1>4, HeadAndTail, MessageKinds DEF BrokerHandles
  <2> QED
    BY <1>0, <1>4, <2>1 DEF BrokerHandles, Overtakes
<1>5. CASE \/ \E s \in Sessions : ConnectionEnds(s) \/ OnClose(s)
           \/ \E c \in Clients : PageOpens(c) \/ PageAsks(c)
           \/ \E p \in Procs : LinkLost(p)
           \/ UNCHANGED systemVars
  BY <1>0, <1>5 DEF ConnectionEnds, OnClose, Overtakes, PageOpens, PageAsks,
     LinkLost, systemVars
<1> QED
  BY <1>1, <1>2, <1>3, <1>4, <1>5 DEF SystemNext

\* Initially every variable has its type.
LEMMA SystemTypeInit ==
  ASSUME SystemInit
  PROVE  SystemTypeOK
  BY TypeInit DEF SystemInit, SystemTypeOK

\* Every step keeps the types.
LEMMA SystemTypeStep ==
  ASSUME SystemTypeOK, [SystemNext]_systemVars
  PROVE  SystemTypeOK'
<1>1. TypeOK'
  BY BrokerStep, TypeStep DEF SystemTypeOK
<1> QED
  BY <1>1, ProcessTypeStep DEF SystemTypeOK

\* The variables of the broker, of the processes and of the channels between
\* them always have their types.
THEOREM SystemTypeCorrect == SystemSpec => []SystemTypeOK
<1> QED
  BY SystemTypeInit, SystemTypeStep, PTL DEF SystemSpec

\* The broker among its gateways and pages behaves as Broker says: whatever is
\* proved of Broker holds in the system.
THEOREM ImplementsBroker == SystemSpec => Spec
<1>1. SystemInit => Init
  BY DEF SystemInit
<1> QED
  BY <1>1, BrokerStep, SystemTypeCorrect, PTL DEF SystemSpec, Spec

-----------------------------------------------------------------------------
(***************************************************************************)
(* What the broker's steps do to what the invariants are about.            *)
(***************************************************************************)

\* Nodes are listed, pages registered and sessions in the table by name.
LEMMA TablesType ==
  ASSUME TypeOK
  PROVE  /\ \A g \in Gateways : nodesOf[g] \in Seq(Uids) /\ Listed(g) \in SUBSET Uids
         /\ Range(clients) \subseteq Clients
         /\ Range(gateways) \subseteq Gateways
         /\ \A c \in Clients : display[c] \in Views
         /\ \A g \in Gateways : g \notin Clients /\ g \in Sessions
<1>1. \A g \in Gateways : nodesOf[g] \in Seq(Uids)
  BY DEF TypeOK
<1>2. \A g \in Gateways : Listed(g) \in SUBSET Uids
  BY <1>1 DEF Listed, Range
<1> QED
  BY <1>1, <1>2, DistinctSessions DEF TypeOK, Range, Views, Sessions

\* A message of a gateway changes the list as ListedAfter says, and no socket
\* but that of its session.
LEMMA HandleLists ==
  ASSUME SystemTypeOK, IInv, NEW g \in Gateways, BrokerHandles(g)
  PROVE  /\ up[g] # <<>> /\ up'[g] = Tail(up[g])
         /\ \A h \in Gateways \ {g} : up'[h] = up[h] /\ nodesOf'[h] = nodesOf[h]
         /\ UNCHANGED <<cache, link, clients, gateways, unread>>
         /\ Range(nodesOf'[g]) = ListedAfter(Listed(g), <<Head(up[g])>>)
         /\ \A s \in Sessions : \/ socket'[s] = socket[s]
                                \/ s = g /\ Reading(s) /\ socket'[s] = "closing"
<1> DEFINE m == Head(up[g])
<1>1. /\ m \in NodeMessages /\ m.uid \in Uids
      /\ Listed(g) \in SUBSET Uids /\ nodesOf[g] \in Seq(Uids)
      /\ IsInjective(nodesOf[g])
      /\ nodesOf \in [Gateways -> Seq(Uids)]
      /\ up \in [Gateways -> Seq(NodeMessages)]
      /\ TypeOK /\ g \in Sessions
  BY HeadAndTail, MessageKinds, TablesType DEF BrokerHandles, SystemTypeOK, IInv,
     Tables, ReadingGatewayKnown, TypeOK
<1>2. /\ up[g] # <<>> /\ up'[g] = Tail(up[g])
      /\ \A h \in Gateways \ {g} : up'[h] = up[h]
      /\ UNCHANGED <<cache, link>>
  BY <1>1 DEF BrokerHandles
<1>3. ListedAfter(Listed(g), <<m>>)
        = IF m.type = "new" THEN Listed(g) \cup {m.uid} ELSE Listed(g) \ {m.uid}
  BY <1>1, ListedAfterOne
<1>4. CASE m.type = "new" /\ GatewaySendsNew(g, m.uid, m.dst)
  <2>1. /\ nodesOf' = [nodesOf EXCEPT ![g] =
                         IF m.uid \in Range(@) THEN @ ELSE Append(@, m.uid)]
        /\ UNCHANGED <<clients, gateways, unread>>
        /\ Reading(g)
        /\ AbortIf(Raises(Recipients(m.dst)), g)
    BY <1>4 DEF GatewaySendsNew, WriteToClients
  <2>2. Range(Append(nodesOf[g], m.uid)) = Listed(g) \cup {m.uid}
    BY <1>1, AppendEntryProperties DEF Listed
  <2>3. Range(nodesOf'[g]) = Listed(g) \cup {m.uid}
    BY <1>1, <2>1, <2>2 DEF Listed
  <2>4. \A s \in Sessions : \/ socket'[s] = socket[s]
                            \/ s = g /\ Reading(s) /\ socket'[s] = "closing"
    BY <1>1, <2>1 DEF AbortIf, TypeOK
  <2> QED
    BY <1>1, <1>2, <1>3, <1>4, <2>1, <2>3, <2>4
<1>5. CASE m.type = "out" /\ GatewaySendsOut(g, m.uid)
  <2>1. /\ nodesOf' = [nodesOf EXCEPT ![g] = Without(@, m.uid)]
        /\ UNCHANGED <<clients, gateways, unread>>
        /\ Reading(g)
        /\ AbortIf(Raises(clients), g)
    BY <1>5 DEF GatewaySendsOut, WriteToClients
  <2>2. Range(nodesOf'[g]) = Listed(g) \ {m.uid}
    BY <1>1, <2>1, WithoutProperties DEF Listed
  <2>3. \A s \in Sessions : \/ socket'[s] = socket[s]
                            \/ s = g /\ Reading(s) /\ socket'[s] = "closing"
    BY <1>1, <2>1 DEF AbortIf, TypeOK
  <2>4. "out" # "new"
    OBVIOUS
  <2> QED
    BY <1>1, <1>2, <1>3, <1>5, <2>1, <2>2, <2>3, <2>4
<1>6. CASE m.type = "out" /\ m.uid \notin Listed(g) /\ UNCHANGED vars
  <2>1. UNCHANGED <<socket, clients, gateways, nodesOf, unread>>
    BY <1>6 DEF vars
  <2>2. "out" # "new"
    OBVIOUS
  <2>3. Range(nodesOf'[g]) = Listed(g) \ {m.uid}
    BY <1>6, <2>1 DEF Listed
  <2> QED
    BY <1>1, <1>2, <1>3, <1>6, <2>1, <2>2, <2>3
<1> QED
  BY <1>4, <1>5, <1>6 DEF BrokerHandles

\* A message of a gateway takes a cached node from a page only if it withdraws
\* it, and then the session is current or the node is marked as overtaken; an
\* announcement reaches the pages it is for, unless its session is aborted.
LEMMA HandleShows ==
  ASSUME SystemTypeOK, IInv, NEW g \in Gateways, BrokerHandles(g)
  PROVE  /\ \A c \in Clients : \A uid \in Displayed(display[c]) :
              \/ uid \in Displayed(display'[c])
              \/ /\ Head(up[g]) = OutNode(uid)
                 /\ uid \in AllCached => Current(g) \/ uid \in overtaken'
         /\ \A uid \in Uids, dst \in Clients \cup {All}, c \in Range(clients) :
              /\ Head(up[g]) = NewNode(uid, dst)
              /\ dst \in {All, c} /\ Writable(c)
              /\ socket'[g] # "closing"
              => uid \in Displayed(display'[c])
         /\ \A uid \in overtaken \ overtaken', c \in Range(clients) :
              uid \in Displayed(display'[c])
<1> DEFINE m == Head(up[g])
<1>1. /\ m \in NodeMessages /\ m.uid \in Uids /\ TypeOK
      /\ g \in Sessions
      /\ Range(clients) \subseteq Clients /\ clients \in Seq(Clients)
      /\ socket \in [Sessions -> SocketStates]
      /\ \A c \in Clients : display[c] \in Views
  BY HeadAndTail, MessageKinds, TablesType DEF BrokerHandles, SystemTypeOK, TypeOK
<1>2. "new" # "out"
  OBVIOUS
<1>3. CASE /\ m.type = "new" /\ GatewaySendsNew(g, m.uid, m.dst)
           /\ overtaken' = IF m.dst = All /\ ~Raises(clients)
                             THEN overtaken \ {m.uid} ELSE overtaken
  <2> DEFINE ws == Recipients(m.dst)
  <2>1. /\ m = NewNode(m.uid, m.dst) /\ m.dst \in Clients \cup {All}
        /\ \A uid : m # OutNode(uid)
        /\ \A uid, dst : m = NewNode(uid, dst) => uid = m.uid /\ dst = m.dst
    <3>1. m = NewNode(m.uid, m.dst) /\ m.dst \in Clients \cup {All}
      BY <1>1, <1>2, <1>3, MessageKinds
    <3>2. \A uid : m # OutNode(uid)
      BY <3>1, MessagesDiffer
    <3>3. \A uid, dst : m = NewNode(uid, dst) => uid = m.uid /\ dst = m.dst
      BY MessagesDiffer
    <3> QED
      BY <3>1, <3>2, <3>3
  <2>2. WriteToClients(g, ws, m)
    BY <1>3, <2>1 DEF GatewaySendsNew
  <2>3. ws \in Seq(Clients) /\ Range(ws) \subseteq Range(clients)
    BY <1>1, RecipientsProperties
  <2>4. \A c \in Clients :
          /\ Receive(display[c], m) \in Views
          /\ Displayed(Receive(display[c], m)) = Displayed(display[c]) \cup {m.uid}
    BY <1>1, <2>1, ReceiveDispatch, ReceiveProperties
  <2>5. /\ \A c \in Clients : display'[c] \in {display[c], Receive(display[c], m)}
        /\ ~Raises(ws) =>
             \A c \in Range(ws) : display'[c] = Receive(display[c], m)
    BY <1>1, <2>2, <2>3, WriteEffect
  <2>6. ~Raises(ws) \/ socket'[g] = "closing"
    BY <1>1, <2>2 DEF WriteToClients, AbortIf
  <2>7. \A c \in Clients : Displayed(display[c]) \subseteq Displayed(display'[c])
    BY <2>4, <2>5
  <2>8. ASSUME NEW c \in Range(clients), m.dst \in {All, c}
        PROVE  c \in Range(ws)
    <3>1. ws = clients \/ (m.dst = c /\ ws = <<c>>)
      BY <2>8, AllIsNoClient DEF Recipients
    <3> QED
      BY <3>1 DEF Range
  <2>9. ASSUME NEW c \in Range(clients), m.dst \in {All, c}, ~Raises(ws)
        PROVE  m.uid \in Displayed(display'[c])
    BY <1>1, <2>4, <2>5, <2>8, <2>9
  <2>10. \A uid \in overtaken \ overtaken' :
           uid = m.uid /\ m.dst = All /\ ~Raises(clients)
    BY <1>3
  <2>11. m.dst = All => ws = clients
    BY DEF Recipients
  <2>12. \A uid \in overtaken \ overtaken', c \in Range(clients) :
           uid \in Displayed(display'[c])
    BY <2>9, <2>10, <2>11
  <2> QED
    BY <2>1, <2>6, <2>7, <2>9, <2>12
<1>4. CASE /\ m.type = "out" /\ GatewaySendsOut(g, m.uid)
           /\ overtaken' = overtaken \cup Overtakes(g, {m.uid})
  <2>1. /\ m = OutNode(m.uid)
        /\ \A uid, dst : m # NewNode(uid, dst)
    BY <1>1, <1>2, <1>4, MessageKinds, MessagesDiffer
  <2>2. WriteToClients(g, clients, m)
    BY <1>4, <2>1 DEF GatewaySendsOut
  <2>3. \A c \in Clients :
          Displayed(Receive(display[c], m)) = Displayed(display[c]) \ {m.uid}
    <3>1. ASSUME NEW c \in Clients
          PROVE  /\ Receive(display[c], OutNode(m.uid)) = ReceiveOut(display[c], m.uid)
                 /\ Displayed(ReceiveOut(display[c], m.uid))
                      = Displayed(display[c]) \ {m.uid}
      BY <1>1, ReceiveDispatch, ReceiveProperties
    <3> QED
      BY <2>1, <3>1
  <2>4. \A c \in Clients : display'[c] \in {display[c], Receive(display[c], m)}
    BY <1>1, <2>2, WriteEffect
  <2>5. \A c \in Clients : \A uid \in Displayed(display[c]) :
          uid \in Displayed(display'[c]) \/ uid = m.uid
    BY <2>3, <2>4
  <2>6. /\ overtaken \subseteq overtaken'
        /\ m.uid \in AllCached => Current(g) \/ m.uid \in overtaken'
    BY <1>4 DEF Overtakes
  <2> QED
    BY <2>1, <2>5, <2>6
<1>5. CASE m.type = "out" /\ UNCHANGED vars /\ UNCHANGED overtaken
  <2>1. /\ m = OutNode(m.uid)
        /\ \A uid, dst : m # NewNode(uid, dst)
    BY <1>1, <1>2, <1>5, MessageKinds, MessagesDiffer
  <2> QED
    BY <1>5, <2>1 DEF vars
<1> QED
  BY <1>3, <1>4, <1>5 DEF BrokerHandles

\* on_close takes a cached node from a page only if its session lists it, and
\* then the session is current or the node is marked as overtaken.
LEMMA CloseEffect ==
  ASSUME SystemTypeOK, IInv, NEW s \in Sessions, OnClose(s)
  PROVE  /\ UNCHANGED <<cache, link, up, nodesOf>>
         /\ socket[s] = "closing" /\ socket' = [socket EXCEPT ![s] = "closed"]
         /\ Range(clients') \subseteq Range(clients)
         /\ \A g \in Gateways \ {s} : unread'[g] = unread[g]
         /\ overtaken \subseteq overtaken'
         /\ \A c \in Clients : \A uid \in Displayed(display[c]) :
              \/ uid \in Displayed(display'[c])
              \/ /\ s \in Gateways /\ uid \in Listed(s)
                 /\ uid \in AllCached => Current(s) \/ uid \in overtaken'
<1>1. /\ TypeOK /\ IsInjective(clients) /\ clients \in Seq(Clients)
      /\ \A g \in Gateways : nodesOf[g] \in Seq(Uids)
      /\ \A c \in Clients : display[c] \in Views
      /\ unread \in [Gateways -> Seq(ClientMessages(Clients, Uids))]
  BY TablesType DEF SystemTypeOK, IInv, Tables, ClosedClientForgotten, TypeOK
<1>2. CASE s \in Clients
  <2>1. Range(clients') \subseteq Range(clients)
    BY <1>1, <1>2, WithoutProperties DEF OnClose, ClientOnClose
  <2> QED
    BY <1>2, <2>1 DEF OnClose, ClientOnClose
<1>3. CASE s \notin Clients
  <2>1. s \in Gateways
    BY <1>3 DEF Sessions
  <2>2. /\ UNCHANGED <<cache, link, up>>
        /\ overtaken' = overtaken \cup Overtakes(s, Listed(s))
        /\ GatewayOnClose(s) \/ GatewayOnCloseFails(s)
    BY <1>3 DEF OnClose
  <2>3. \A uid \in Listed(s) :
          uid \in AllCached => Current(s) \/ uid \in overtaken'
    BY <2>2 DEF Overtakes
  <2>4. /\ clients' = clients /\ nodesOf' = nodesOf
        /\ socket[s] = "closing" /\ socket' = [socket EXCEPT ![s] = "closed"]
        /\ unread' = [unread EXCEPT ![s] = <<>>]
    BY <2>2 DEF GatewayOnClose, GatewayOnCloseFails
  <2>5. CASE GatewayOnClose(s)
    <3>1. \A c \in Clients : Displayed(ReceiveOuts(display[c], Listed(s)))
                               = Displayed(display[c]) \ Listed(s)
      BY <1>1, ReceiveOutsProperties
    <3>2. \A c \in Clients :
            display'[c] \in {display[c], ReceiveOuts(display[c], Listed(s))}
      BY <2>5 DEF GatewayOnClose
    <3>3. \A c \in Clients : \A uid \in Displayed(display[c]) :
            uid \in Displayed(display'[c]) \/ uid \in Listed(s)
      BY <3>1, <3>2
    <3> QED
      BY <1>1, <2>1, <2>2, <2>3, <2>4, <3>3
  <2>6. CASE GatewayOnCloseFails(s)
    <3> DEFINE u == Head(nodesOf[s])
    <3>1. u \in Uids /\ u \in Listed(s)
      <4>1. nodesOf[s] \in Seq(Uids) /\ nodesOf[s] # <<>>
        BY <1>1, <2>1, <2>6 DEF GatewayOnCloseFails
      <4>2. 1 \in DOMAIN nodesOf[s] /\ u = nodesOf[s][1]
        BY <4>1
      <4> QED
        BY <4>1, <4>2 DEF Listed, Range
    <3> HIDE DEF u
    <3>2. \A c \in Clients :
            Displayed(ReceiveOut(display[c], u)) = Displayed(display[c]) \ {u}
      BY <1>1, <3>1, ReceiveProperties
    <3>3. \A c \in Clients : display'[c] \in {display[c], ReceiveOut(display[c], u)}
      BY <2>6 DEF GatewayOnCloseFails, u
    <3>4. \A c \in Clients : \A uid \in Displayed(display[c]) :
            uid \in Displayed(display'[c]) \/ uid \in Listed(s)
      BY <3>1, <3>2, <3>3
    <3> QED
      BY <1>1, <2>1, <2>2, <2>3, <2>4, <3>4
  <2> QED
    BY <2>2, <2>5, <2>6
<1> QED
  BY <1>2, <1>3

\* A page that asks is registered, and unless it is aborted its request is on
\* its way to every gateway of the table.
LEMMA AskEffect ==
  ASSUME SystemTypeOK, NEW c \in Clients, PageAsks(c)
  PROVE  /\ UNCHANGED <<cache, link, up, overtaken, nodesOf, display>>
         /\ Range(clients') = Range(clients) \cup {c}
         /\ \A s \in Sessions : \/ socket'[s] = socket[s]
                                \/ s = c /\ Reading(c) /\ socket'[s] = "closing"
         /\ \A g \in Gateways : \A i \in DOMAIN unread[g] :
              i \in DOMAIN unread'[g] /\ unread'[g][i] = unread[g][i]
         /\ socket'[c] # "closing" =>
              \A g \in Range(gateways) :
                \E i \in DOMAIN unread'[g] : unread'[g][i].src = c
<1>1. /\ TypeOK /\ c \in Sessions
      /\ clients \in Seq(Clients) /\ gateways \in Seq(Gateways)
      /\ Range(gateways) \subseteq Gateways
      /\ socket \in [Sessions -> SocketStates]
      /\ \A g \in Gateways : unread[g] \in Seq(ClientMessages(Clients, Uids))
  BY TablesType DEF SystemTypeOK, TypeOK, Sessions
<1>2. /\ UNCHANGED <<cache, link, up, overtaken, nodesOf, display>>
      /\ Reading(c) /\ ForwardToGateways(c, ClientNew(c))
      /\ clients' = Append(clients, c)
  BY DEF PageAsks, ClientSendsNew
<1>3. Range(clients') = Range(clients) \cup {c}
  BY <1>1, <1>2, AppendEntryProperties
<1>4. \A s \in Sessions : \/ socket'[s] = socket[s]
                          \/ s = c /\ Reading(c) /\ socket'[s] = "closing"
  BY <1>1, <1>2 DEF ForwardToGateways, AbortIf
<1>5. ClientNew(c).src = c
  BY DEF ClientNew
<1>6. ASSUME NEW g \in Gateways
      PROVE  \E r : /\ r = Append(unread[g], ClientNew(c))
                    /\ unread'[g] = IF g \in Written(gateways) THEN r ELSE unread[g]
                    /\ \A i \in DOMAIN unread[g] : i \in DOMAIN r /\ r[i] = unread[g][i]
                    /\ \E i \in DOMAIN r : r[i].src = c
  <2> DEFINE q == unread[g]
             n == ClientNew(c)
             r == Append(q, n)
  <2>1. q \in Seq(ClientMessages(Clients, Uids))
    BY <1>1
  <2> HIDE DEF q, n
  <2>2. /\ Len(q) \in Nat /\ DOMAIN q = 1..Len(q)
        /\ DOMAIN r = 1..(Len(q) + 1)
        /\ r[Len(q) + 1] = n
        /\ \A i \in 1..Len(q) : r[i] = q[i]
    BY <2>1
  <2>3. Len(q) + 1 \in DOMAIN r /\ \A i \in DOMAIN q : i \in DOMAIN r
    BY <2>2
  <2>4. n.src = c
    BY <1>5 DEF n
  <2>5. unread'[g] = IF g \in Written(gateways) THEN r ELSE q
    BY <1>2 DEF ForwardToGateways, q, n
  <2> HIDE DEF r
  <2>6. r = Append(unread[g], ClientNew(c))
    BY DEF r, q, n
  <2> QED
    BY <2>2, <2>3, <2>4, <2>5, <2>6 DEF q
<1>7. \A g \in Gateways : \A i \in DOMAIN unread[g] :
        i \in DOMAIN unread'[g] /\ unread'[g][i] = unread[g][i]
  BY <1>6
<1>8. ASSUME socket'[c] # "closing", NEW g \in Range(gateways)
      PROVE  \E i \in DOMAIN unread'[g] : unread'[g][i].src = c
  <2>1. ~Raises(gateways)
    BY <1>1, <1>2, <1>8 DEF ForwardToGateways, AbortIf
  <2>2. g \in Written(gateways) /\ g \in Gateways
    BY <1>1, <2>1, WrittenProperties
  <2> QED
    BY <1>6, <2>2
<1> QED
  BY <1>2, <1>3, <1>4, <1>7, <1>8

\* A socket is open only once it has been opened, is never unused again, and
\* none is rejected.
LEMMA SocketsForward ==
  ASSUME SystemTypeOK, IInv, NoneRejected, [SystemNext]_systemVars
  PROVE  /\ NoneRejected'
         /\ \A s \in Sessions : socket[s] # "none" =>
              /\ socket'[s] # "none"
              /\ socket'[s] = "open" => socket[s] = "open"
<1>0. socket \in [Sessions -> SocketStates]
  BY DEF SystemTypeOK, TypeOK
<1>1. CASE \E p \in Procs, g \in Gateways : ProcessConnects(p, g)
  BY <1>0, <1>1 DEF ProcessConnects, GatewayOpen, NoneRejected
<1>2. CASE UNCHANGED socket
  BY <1>2 DEF NoneRejected
<1>3. CASE \E g \in Gateways : BrokerHandles(g)
  BY <1>0, <1>3, HandleLists DEF NoneRejected
<1>4. CASE \E s \in Sessions : OnClose(s)
  BY <1>0, <1>4, CloseEffect DEF NoneRejected
<1>5. CASE \E s \in Sessions : ConnectionEnds(s)
  BY <1>0, <1>5 DEF NoneRejected, ConnectionEnds, PeerGone
<1>6. CASE \E c \in Clients : PageOpens(c)
  BY <1>0, <1>6 DEF NoneRejected, PageOpens, ClientOpen
<1>7. CASE \E c \in Clients : PageAsks(c)
  BY <1>0, <1>7, AskEffect DEF NoneRejected
<1>8. CASE \/ \E p \in Procs : LinkLost(p) \/ ProcessReads(p)
           \/ \E uid \in Uids : NodeChecks(uid) \/ NodeLeaves(uid)
           \/ UNCHANGED systemVars
  <2>1. UNCHANGED socket
    BY <1>8 DEF LinkLost, ProcessReads, GatewayReads, NodeChecks, NodeLeaves,
       systemVars, vars
  <2> QED
    BY <1>2, <2>1
<1> QED
  BY <1>1, <1>3, <1>4, <1>5, <1>6, <1>7, <1>8 DEF SystemNext

-----------------------------------------------------------------------------
(***************************************************************************)
(* The channels: each step keeps the sessions of different processes apart *)
(* and what is on its way in agreement with the cache.                     *)
(***************************************************************************)
Channels == SessionsApart /\ ChannelExact /\ Reannounced

\* Where the messages of a queue are in a longer one, and in what is left of
\* it when the first is gone.
LEMMA QueueElements ==
  ASSUME NEW q \in Seq(NodeMessages), NEW r \in Seq(NodeMessages)
  PROVE  /\ \A i \in DOMAIN q : i \in DOMAIN (q \o r) /\ (q \o r)[i] = q[i]
         /\ \A i \in DOMAIN r :
              Len(q) + i \in DOMAIN (q \o r) /\ (q \o r)[Len(q) + i] = r[i]
         /\ \A i \in DOMAIN (q \o r) :
              \/ i \in DOMAIN q
              \/ \E j \in DOMAIN r : i = Len(q) + j
         /\ \A i \in DOMAIN Tail(q) : i + 1 \in DOMAIN q /\ Tail(q)[i] = q[i + 1]
         /\ \A i \in DOMAIN q :
              \/ i = 1 /\ q[i] = Head(q)
              \/ i - 1 \in DOMAIN Tail(q) /\ Tail(q)[i - 1] = q[i]
<1>1. /\ Len(q) \in Nat /\ Len(r) \in Nat
      /\ DOMAIN q = 1..Len(q) /\ DOMAIN r = 1..Len(r)
      /\ DOMAIN (q \o r) = 1..(Len(q) + Len(r))
      /\ \A i \in 1..Len(q) : (q \o r)[i] = q[i]
      /\ \A i \in 1..Len(r) : (q \o r)[Len(q) + i] = r[i]
  BY ConcatPositions
<1>2. ASSUME NEW i \in DOMAIN (q \o r), i \notin DOMAIN q
      PROVE  \E j \in DOMAIN r : i = Len(q) + j
  <2>1. i - Len(q) \in 1..Len(r) /\ i = Len(q) + (i - Len(q))
    BY <1>1, <1>2
  <2> QED
    BY <1>1, <2>1
<1>3. q # <<>> => /\ DOMAIN Tail(q) = 1..(Len(q) - 1)
                  /\ \A i \in 1..(Len(q) - 1) : Tail(q)[i] = q[i + 1]
                  /\ Head(q) = q[1]
  OBVIOUS
<1>4. q = <<>> => DOMAIN Tail(q) = {} /\ DOMAIN q = {}
  OBVIOUS
<1> QED
  BY <1>1, <1>2, <1>3, <1>4

\* Steps that change no cache and no queue, neither list nor unlist a node,
\* and at most take a process from its session.
LEMMA ChannelsKept ==
  ASSUME SystemTypeOK, Channels,
         UNCHANGED <<cache, up, nodesOf>>,
         \A p \in Procs : link'[p] \in {link[p], NoSession},
         \A s \in Sessions : socket[s] # "none" =>
           socket'[s] # "none" /\ (socket'[s] = "open" => socket[s] = "open")
  PROVE  Channels'
<1>1. \A p \in Procs : link[p] # NoSession =>
        /\ link[p] \in Gateways /\ link[p] \in Sessions
        /\ socket[link[p]] # "none" /\ socket'[link[p]] # "none"
  BY DEF SystemTypeOK, Channels, SessionsApart, Sessions
<1>2. SessionsApart'
  BY <1>1 DEF Channels, SessionsApart, Listed
<1>3. ChannelExact'
  BY <1>1 DEF Channels, ChannelExact, Up, ListedIn, Listed
<1>4. Reannounced'
  BY DEF Channels, Reannounced
<1> QED
  BY <1>2, <1>3, <1>4 DEF Channels

\* A new session starts with the whole cache on its way.
LEMMA ConnectKeepsChannels ==
  ASSUME SystemTypeOK, Channels, NEW p \in Procs, NEW g \in Gateways,
         ProcessConnects(p, g)
  PROVE  Channels'
<1> DEFINE a == Announcement(cache[p], All)
<1>1. /\ link[p] = NoSession /\ socket[g] = "none"
      /\ socket' = [socket EXCEPT ![g] = "open"]
      /\ nodesOf' = [nodesOf EXCEPT ![g] = <<>>]
      /\ link' = [link EXCEPT ![p] = g]
      /\ up' = [up EXCEPT ![g] = a]
      /\ UNCHANGED cache
  BY DEF ProcessConnects, GatewayOpen
<1>2. /\ link \in [Procs -> Gateways \cup {NoSession}]
      /\ up \in [Gateways -> Seq(NodeMessages)]
      /\ socket \in [Sessions -> SocketStates] /\ g \in Sessions
      /\ nodesOf \in [Gateways -> Seq(Uids)]
      /\ cache[p] \in SUBSET Uids
      /\ g # NoSession
  BY NoSessionIsNone DEF SystemTypeOK, TypeOK, Sessions
<1>3. /\ a \in Seq(NodeMessages)
      /\ \A i \in DOMAIN a : \E uid \in cache[p] : a[i] = NewNode(uid, All)
  BY <1>2, AnnouncementProperties
<1>4. ASSUME NEW i \in DOMAIN a
      PROVE  a[i].uid \in cache[p] /\ \A uid : a[i] # OutNode(uid)
  <2>1. PICK v \in cache[p] : a[i] = NewNode(v, All)
    BY <1>3
  <2> QED
    BY <2>1, MessagesDiffer
<1>5. Range(<<>>) = {}
  BY DEF Range
<1>6. ListedAfter({}, a) = cache[p]
  <2>1. {} \in SUBSET Uids /\ All \in Clients \cup {All}
    OBVIOUS
  <2>2. ListedAfter({}, a) = {} \cup cache[p]
    BY <1>2, <2>1, ListedAfterAnnouncement
  <2> QED
    BY <2>2
<1> HIDE DEF a
<1>7. ASSUME NEW q \in Procs \ {p}, link[q] # NoSession
      PROVE  /\ link'[q] = link[q] /\ link[q] # g /\ link[q] \in Gateways
             /\ socket'[link[q]] = socket[link[q]]
             /\ up'[link[q]] = up[link[q]] /\ nodesOf'[link[q]] = nodesOf[link[q]]
  <2>1. link[q] \in Gateways /\ socket[link[q]] # "none"
    BY <1>2, <1>7 DEF Channels, SessionsApart
  <2> QED
    BY <1>1, <1>2, <2>1 DEF Sessions
<1>8. /\ link'[p] = g /\ up'[g] = a /\ socket'[g] = "open"
      /\ nodesOf'[g] = <<>> /\ \A q \in Procs \ {p} : link'[q] = link[q]
  BY <1>1, <1>2
<1>9. SessionsApart'
  <2>1. \A q \in Procs : \A uid \in cache'[q] : Home[uid] = q
    BY <1>1 DEF Channels, SessionsApart
  <2>2. /\ \A uid \in Range(nodesOf'[g]) : Home[uid] = p
        /\ \A i \in DOMAIN a : Home[a[i].uid] = p
        /\ \A q \in Procs : link'[q] = g => q = p
    BY <1>1, <1>2, <1>4, <1>5, <1>7, <1>8, <2>1
  <2>3. ASSUME NEW q \in Procs \ {p}, link[q] # NoSession
        PROVE  /\ socket'[link[q]] # "none"
               /\ \A r \in Procs : link'[r] = link[q] => r = q
               /\ \A uid \in Range(nodesOf'[link[q]]) : Home[uid] = q
               /\ \A i \in DOMAIN up'[link[q]] : Home[up'[link[q]][i].uid] = q
    BY <1>7, <1>8, <2>3 DEF Channels, SessionsApart, Listed
  <2> QED
    BY <1>7, <1>8, <2>1, <2>2, <2>3 DEF SessionsApart, Listed
<1>10. ChannelExact'
  <2>1. ListedAfter(Range(nodesOf'[g]), up'[g]) = cache'[p]
    BY <1>1, <1>5, <1>6, <1>8
  <2>2. ASSUME NEW q \in Procs \ {p}, Up(q)'
        PROVE  ListedAfter(Range(nodesOf'[link[q]]), up'[link[q]]) = cache[q]
    BY <1>7, <1>8, <2>2 DEF Channels, ChannelExact, ListedIn, Listed, Up
  <2> QED
    BY <1>1, <1>8, <2>1, <2>2 DEF ChannelExact, ListedIn, Listed, Up
<1>11. Reannounced'
  BY <1>1, <1>4, <1>7, <1>8 DEF Channels, Reannounced
<1> QED
  BY <1>9, <1>10, <1>11 DEF Channels

\* The messages ms of p take a list from its cache to C: what joins is
\* announced to all pages, and what is withdrawn is no longer cached.
Tells(p, C, ms) ==
  /\ \A uid \in C : Home[uid] = p
  /\ \A i \in DOMAIN ms : Home[ms[i].uid] = p
  /\ ListedAfter(cache[p], ms) = C
  /\ \A uid \in C : \/ uid \in cache[p]
                    \/ \E i \in DOMAIN ms : ms[i] = NewNode(uid, All)
  /\ \A i \in DOMAIN ms, uid \in C : ms[i] # OutNode(uid)

\* A process that changes its cache to C and writes what tells so keeps the
\* channels.
LEMMA SendKeepsChannels ==
  ASSUME SystemTypeOK, Channels, NEW p \in Procs, NEW C \in SUBSET Uids,
         NEW ms \in Seq(NodeMessages),
         Send(p, ms), cache' = [cache EXCEPT ![p] = C],
         UNCHANGED <<link, nodesOf, socket>>, Tells(p, C, ms)
  PROVE  Channels'
<1>0. /\ \A uid \in C : Home[uid] = p
      /\ \A i \in DOMAIN ms : Home[ms[i].uid] = p
      /\ ListedAfter(cache[p], ms) = C
      /\ \A uid \in C : \/ uid \in cache[p]
                        \/ \E i \in DOMAIN ms : ms[i] = NewNode(uid, All)
      /\ \A i \in DOMAIN ms, uid \in C : ms[i] # OutNode(uid)
  BY DEF Tells
<1>1. /\ link \in [Procs -> Gateways \cup {NoSession}]
      /\ up \in [Gateways -> Seq(NodeMessages)]
      /\ cache \in [Procs -> SUBSET Uids]
  BY DEF SystemTypeOK
<1>2. /\ cache'[p] = C
      /\ \A q \in Procs \ {p} : cache'[q] = cache[q]
      /\ link[p] # NoSession => up'[link[p]] = up[link[p]] \o ms
      /\ \A q \in Procs \ {p} : link[q] # NoSession =>
           link[q] # link[p] /\ link[q] \in Gateways /\ up'[link[q]] = up[link[q]]
  BY <1>1, SendEffect DEF Channels, SessionsApart
<1> DEFINE old == up[link[p]]
           new == up'[link[p]]
<1>3. ASSUME link[p] # NoSession
      PROVE  /\ old \in Seq(NodeMessages) /\ new = old \o ms /\ Len(old) \in Nat
             /\ DOMAIN old = 1..Len(old)
             /\ \A i \in DOMAIN old : i \in DOMAIN new /\ new[i] = old[i]
             /\ \A i \in DOMAIN ms : Len(old) + i \in DOMAIN new /\ new[Len(old) + i] = ms[i]
             /\ \A i \in DOMAIN new : i \in DOMAIN old \/ \E j \in DOMAIN ms : i = Len(old) + j
             /\ DOMAIN new = 1..Len(new) /\ Len(new) \in Nat
  <2>1. old \in Seq(NodeMessages) /\ new = old \o ms
    BY <1>1, <1>2, <1>3
  <2> HIDE DEF old, new
  <2>2. new \in Seq(NodeMessages)
    BY <2>1, ConcatPositions
  <2> QED
    BY <2>1, <2>2, QueueElements
<1> HIDE DEF old, new
<1>4. SessionsApart'
  <2>1. \A q \in Procs : \A uid \in cache'[q] : Home[uid] = q
    BY <1>0, <1>2 DEF Channels, SessionsApart
  <2>2. ASSUME link[p] # NoSession, NEW i \in DOMAIN new
        PROVE  Home[new[i].uid] = p
    <3>1. \A j \in DOMAIN old : Home[old[j].uid] = p
      BY <2>2 DEF Channels, SessionsApart, old
    <3>2. CASE i \in DOMAIN old
      BY <1>3, <2>2, <3>1, <3>2
    <3>3. CASE \E j \in DOMAIN ms : i = Len(old) + j
      <4>1. PICK j \in DOMAIN ms : i = Len(old) + j
        BY <3>3
      <4>2. new[i] = ms[j]
        BY <1>3, <2>2, <4>1
      <4> QED
        BY <1>0, <4>2
    <3> QED
      BY <1>3, <2>2, <3>2, <3>3
  <2>3. ASSUME NEW q \in Procs, link[q] # NoSession
        PROVE  /\ socket'[link[q]] # "none"
               /\ \A r \in Procs : link'[r] = link[q] => r = q
               /\ \A uid \in Listed(link[q])' : Home[uid] = q
               /\ \A i \in DOMAIN up'[link[q]] : Home[up'[link[q]][i].uid] = q
    <3>1. /\ socket'[link[q]] # "none"
          /\ \A r \in Procs : link'[r] = link[q] => r = q
          /\ \A uid \in Listed(link[q])' : Home[uid] = q
      BY <2>3 DEF Channels, SessionsApart, Listed
    <3>2. CASE q = p
      BY <2>2, <2>3, <3>1, <3>2 DEF new
    <3>3. CASE q # p
      <4>1. up'[link[q]] = up[link[q]]
        BY <1>2, <2>3, <3>3
      <4> QED
        BY <2>3, <3>1, <4>1 DEF Channels, SessionsApart
    <3> QED
      BY <3>2, <3>3
  <2> QED
    BY <2>1, <2>3 DEF SessionsApart, Listed
<1>5. ChannelExact'
  <2>1. ASSUME Up(p) PROVE ListedAfter(Listed(link[p]), new) = C
    <3>1. ListedAfter(Listed(link[p]), old) = cache[p]
      BY <2>1 DEF Channels, ChannelExact, ListedIn, old
    <3>2. old \in Seq(NodeMessages) /\ new = old \o ms
      BY <1>3, <2>1 DEF Up
    <3> QED
      BY <1>0, <3>1, <3>2, ListedAfterConcat
  <2>2. \A q \in Procs : Up(q)' <=> Up(q)
    BY DEF Up
  <2> QED
    BY <1>2, <2>1, <2>2 DEF Channels, ChannelExact, ListedIn, Listed, Up, new
<1>6. Reannounced'
  <2>1. ASSUME link[p] # NoSession, NEW uid \in C, NEW i \in DOMAIN new,
               new[i] = OutNode(uid)
        PROVE  \E j \in (i + 1)..Len(new) : new[j] = NewNode(uid, All)
    <3>1. i \in DOMAIN old /\ old[i] = OutNode(uid)
      BY <1>0, <1>3, <2>1
    <3>2. CASE uid \in cache[p]
      <4>1. PICK j \in (i + 1)..Len(old) : old[j] = NewNode(uid, All)
        BY <2>1, <3>1, <3>2 DEF Channels, Reannounced, old
      <4>2. j \in DOMAIN old
        BY <1>3, <2>1, <3>1, <4>1
      <4>3. j \in (i + 1)..Len(new) /\ new[j] = NewNode(uid, All)
        BY <1>3, <2>1, <4>1, <4>2
      <4> QED
        BY <4>3
    <3>3. CASE uid \notin cache[p]
      <4>1. PICK k \in DOMAIN ms : ms[k] = NewNode(uid, All)
        BY <1>0, <2>1, <3>3
      <4>2. k \in Nat \ {0}
        BY <4>1
      <4>3. Len(old) + k \in (i + 1)..Len(new) /\ new[Len(old) + k] = NewNode(uid, All)
        BY <1>3, <2>1, <3>1, <4>1, <4>2
      <4> QED
        BY <4>3
    <3> QED
      BY <3>2, <3>3
  <2>2. ASSUME NEW q \in Procs, link[q] # NoSession, NEW uid \in cache'[q],
               NEW i \in DOMAIN up'[link[q]], up'[link[q]][i] = OutNode(uid)
        PROVE  \E j \in (i + 1)..Len(up'[link[q]]) : up'[link[q]][j] = NewNode(uid, All)
    <3>1. CASE q = p
      BY <1>2, <2>1, <2>2, <3>1 DEF new
    <3>2. CASE q # p
      <4>1. up'[link[q]] = up[link[q]] /\ cache'[q] = cache[q]
        BY <1>2, <2>2, <3>2
      <4> QED
        BY <2>2, <4>1 DEF Channels, Reannounced
    <3> QED
      BY <3>1, <3>2
  <2> QED
    BY <2>2 DEF Reannounced
<1> QED
  BY <1>4, <1>5, <1>6 DEF Channels

\* Handling the first message of a queue lists what it says, and leaves the
\* rest of the queue to say the same as before.
LEMMA HandleKeepsChannels ==
  ASSUME SystemTypeOK, IInv, Channels, NEW g \in Gateways, BrokerHandles(g)
  PROVE  Channels'
<1> DEFINE q == up[g]
           m == Head(q)
<1>1. /\ up'[g] = Tail(q) /\ link' = link /\ cache' = cache
      /\ \A h \in Gateways \ {g} : up'[h] = up[h] /\ nodesOf'[h] = nodesOf[h]
      /\ Range(nodesOf'[g]) = ListedAfter(Listed(g), <<m>>)
      /\ \A s \in Sessions : socket'[s] = socket[s] \/ socket'[s] = "closing"
      /\ q # <<>>
  BY HandleLists
<1>2. /\ m \in NodeMessages /\ Tail(q) \in Seq(NodeMessages)
      /\ <<m>> \in Seq(NodeMessages) /\ q = <<m>> \o Tail(q)
      /\ q \in Seq(NodeMessages)
      /\ m = q[1] /\ 1 \in DOMAIN q
      /\ Listed(g) \in SUBSET Uids
  <2>1. q \in Seq(NodeMessages)
    BY DEF SystemTypeOK
  <2>2. m = q[1] /\ 1 \in DOMAIN q
    BY <1>1, <2>1
  <2> QED
    BY <1>1, <2>1, <2>2, HeadAndTail, TablesType DEF SystemTypeOK
<1>3. link \in [Procs -> Gateways \cup {NoSession}]
  BY DEF SystemTypeOK
<1>4. ListedAfter(Listed(g), <<m>>) \subseteq Listed(g) \cup {m.uid}
  BY <1>2, ListedAfterOne
<1>5. ListedAfter(ListedAfter(Listed(g), <<m>>), Tail(q)) = ListedAfter(Listed(g), q)
  <2>1. ListedAfter(ListedAfter(Listed(g), <<m>>), Tail(q))
          = ListedAfter(Listed(g), <<m>> \o Tail(q))
    BY <1>2, ListedAfterConcat
  <2> QED
    BY <1>2, <2>1
<1>6. /\ \A i \in DOMAIN Tail(q) : i + 1 \in DOMAIN q /\ Tail(q)[i] = q[i + 1]
      /\ \A i \in DOMAIN q :
           \/ i = 1 /\ q[i] = m
           \/ i - 1 \in DOMAIN Tail(q) /\ Tail(q)[i - 1] = q[i]
      /\ DOMAIN q = 1..Len(q) /\ Len(q) \in Nat
      /\ DOMAIN Tail(q) = 1..Len(Tail(q)) /\ Len(Tail(q)) = Len(q) - 1
  BY <1>1, <1>2, QueueElements
<1> HIDE DEF m
<1>7. ASSUME NEW p \in Procs, link[p] # NoSession
      PROVE  /\ link[p] \in Gateways /\ link[p] \in Sessions
             /\ link[p] # g => up'[link[p]] = up[link[p]] /\ nodesOf'[link[p]] = nodesOf[link[p]]
             /\ socket'[link[p]] # "none"
             /\ Up(p)' => Up(p)
  <2>1. link[p] \in Gateways /\ link[p] \in Sessions /\ socket[link[p]] # "none"
    BY <1>3, <1>7 DEF Channels, SessionsApart, Sessions
  <2>2. /\ socket'[link[p]] # "none"
        /\ socket'[link[p]] = "open" => socket[link[p]] = "open"
    BY <1>1, <2>1
  <2> QED
    BY <1>1, <1>7, <2>1, <2>2 DEF Up
<1>8. SessionsApart'
  <2>1. ASSUME NEW p \in Procs, link[p] = g, g # NoSession
        PROVE  /\ \A uid \in Range(nodesOf'[g]) : Home[uid] = p
               /\ \A i \in DOMAIN up'[g] : Home[up'[g][i].uid] = p
    <3>1. /\ \A uid \in Listed(g) : Home[uid] = p
          /\ \A i \in DOMAIN q : Home[q[i].uid] = p
      BY <2>1 DEF Channels, SessionsApart
    <3> QED
      BY <1>1, <1>2, <1>4, <1>6, <3>1
  <2>2. ASSUME NEW p \in Procs, link[p] # NoSession
        PROVE  /\ \A uid \in Range(nodesOf'[link[p]]) : Home[uid] = p
               /\ \A i \in DOMAIN up'[link[p]] : Home[up'[link[p]][i].uid] = p
    <3>1. CASE link[p] = g
      BY <2>1, <2>2, <3>1
    <3>2. CASE link[p] # g
      BY <1>7, <2>2, <3>2 DEF Channels, SessionsApart, Listed
    <3> QED
      BY <3>1, <3>2
  <2> QED
    BY <1>1, <1>7, <2>2 DEF Channels, SessionsApart, Listed
<1>9. ChannelExact'
  <2>1. ASSUME NEW p \in Procs, Up(p)'
        PROVE  ListedAfter(Range(nodesOf'[link[p]]), up'[link[p]]) = cache[p]
    <3>1. Up(p) /\ link[p] # NoSession
      BY <1>1, <1>7, <2>1 DEF Up
    <3>2. ListedAfter(Listed(link[p]), up[link[p]]) = cache[p]
      BY <3>1 DEF Channels, ChannelExact, ListedIn
    <3>3. CASE link[p] = g
      BY <1>1, <1>5, <3>2, <3>3
    <3>4. CASE link[p] # g
      BY <1>7, <3>1, <3>2, <3>4 DEF Listed
    <3> QED
      BY <3>3, <3>4
  <2> QED
    BY <1>1, <2>1 DEF ChannelExact, ListedIn, Listed
<1>10. Reannounced'
  <2>1. ASSUME NEW p \in Procs, link[p] = g, g # NoSession, NEW uid \in cache[p],
               NEW i \in DOMAIN Tail(q), Tail(q)[i] = OutNode(uid)
        PROVE  \E j \in (i + 1)..Len(Tail(q)) : Tail(q)[j] = NewNode(uid, All)
    <3>1. i + 1 \in DOMAIN q /\ q[i + 1] = OutNode(uid) /\ i \in Nat
      BY <1>6, <2>1
    <3>2. PICK j \in ((i + 1) + 1)..Len(q) : q[j] = NewNode(uid, All)
      BY <2>1, <3>1 DEF Channels, Reannounced
    <3>3. j - 1 \in (i + 1)..Len(Tail(q)) /\ j \in DOMAIN q /\ j # 1
      BY <1>6, <3>1
    <3> QED
      BY <1>6, <3>2, <3>3
  <2>2. ASSUME NEW p \in Procs, link[p] # NoSession, link[p] # g
        PROVE  \A uid \in cache[p], i \in DOMAIN up'[link[p]] :
                 up'[link[p]][i] = OutNode(uid) =>
                   \E j \in (i + 1)..Len(up'[link[p]]) : up'[link[p]][j] = NewNode(uid, All)
    BY <1>7, <2>2 DEF Channels, Reannounced
  <2>3. ASSUME NEW p \in Procs, link[p] # NoSession, NEW uid \in cache[p],
               NEW i \in DOMAIN up'[link[p]], up'[link[p]][i] = OutNode(uid)
        PROVE  \E j \in (i + 1)..Len(up'[link[p]]) : up'[link[p]][j] = NewNode(uid, All)
    <3>1. CASE link[p] = g
      <4>1. i \in DOMAIN Tail(q) /\ Tail(q)[i] = OutNode(uid)
        BY <1>1, <2>3, <3>1
      <4>2. \E j \in (i + 1)..Len(Tail(q)) : Tail(q)[j] = NewNode(uid, All)
        BY <2>1, <2>3, <3>1, <4>1
      <4> QED
        BY <1>1, <3>1, <4>2
    <3>2. CASE link[p] # g
      BY <2>2, <2>3, <3>2
    <3> QED
      BY <3>1, <3>2
  <2> QED
    BY <1>1, <2>3 DEF Reannounced
<1> QED
  BY <1>8, <1>9, <1>10 DEF Channels

\* Every step keeps the channels.
LEMMA ChannelsStep ==
  ASSUME SystemTypeOK, IInv, NoneRejected, Channels, [SystemNext]_systemVars
  PROVE  Channels'
<1>0. /\ cache \in [Procs -> SUBSET Uids]
      /\ link \in [Procs -> Gateways \cup {NoSession}]
      /\ \A p \in Procs : \A uid \in cache[p] : Home[uid] = p
      /\ \A uid \in Uids : Home[uid] \in Procs
      /\ TypeOK
  BY HomeIsAProcess DEF SystemTypeOK, Channels, SessionsApart
<1>1. ASSUME NEW p \in Procs, NEW g \in Gateways, ProcessConnects(p, g)
      PROVE  Channels'
  BY <1>1, ConnectKeepsChannels
<1>2. ASSUME NEW p \in Procs, ProcessReads(p)
      PROVE  Channels'
  <2> DEFINE dst == Head(unread[link[p]]).src
             ms == Announcement(cache[p], dst)
  <2>1. dst \in Clients
    <3>1. link[p] \in Gateways /\ unread[link[p]] # <<>>
      BY <1>0, <1>2 DEF ProcessReads, GatewayReads
    <3>2. unread[link[p]] \in Seq(ClientMessages(Clients, Uids))
      BY <1>0, <3>1 DEF TypeOK
    <3>3. Head(unread[link[p]]) \in ClientMessages(Clients, Uids)
      BY <3>1, <3>2
    <3> QED
      BY <3>3, RequestHasSource
  <2>2. /\ Send(p, ms) /\ UNCHANGED <<link, nodesOf, socket>>
        /\ cache' = [cache EXCEPT ![p] = cache[p]]
    BY <1>0, <1>2 DEF ProcessReads, GatewayReads
  <2> HIDE DEF dst
  <2>3. /\ ms \in Seq(NodeMessages) /\ cache[p] \in SUBSET Uids
        /\ \A i \in DOMAIN ms : \E uid \in cache[p] : ms[i] = NewNode(uid, dst)
        /\ ListedAfter(cache[p], ms) = cache[p] \cup cache[p]
    BY <1>0, <2>1, AnnouncementProperties, ListedAfterAnnouncement
  <2> HIDE DEF ms
  <2>4. ASSUME NEW i \in DOMAIN ms
        PROVE  Home[ms[i].uid] = p /\ \A uid : ms[i] # OutNode(uid)
    <3>1. PICK v \in cache[p] : ms[i] = NewNode(v, dst)
      BY <2>3
    <3> QED
      BY <1>0, <3>1, MessagesDiffer
  <2> DEFINE C == cache[p]
  <2>5. /\ C \in SUBSET Uids /\ ListedAfter(cache[p], ms) = C
        /\ \A uid \in C : uid \in cache[p] /\ Home[uid] = p
        /\ cache' = [cache EXCEPT ![p] = C]
    BY <1>0, <2>2, <2>3
  <2>6. /\ \A i \in DOMAIN ms : Home[ms[i].uid] = p
        /\ \A i \in DOMAIN ms, uid \in C : ms[i] # OutNode(uid)
    BY <2>4
  <2> HIDE DEF C
  <2> QED
    <3>1. Tells(p, C, ms)
      BY <2>5, <2>6 DEF Tells
    <3> QED
      BY <2>2, <2>3, <2>5, <3>1, SendKeepsChannels
<1>3. ASSUME NEW uid \in Uids, NodeChecks(uid)
      PROVE  Channels'
  <2> DEFINE p == Home[uid]
             C == cache[p] \cup {uid}
             m == NewNode(uid, All)
             ms == <<m>>
  <2>1. /\ p \in Procs /\ C \in SUBSET Uids /\ cache[p] \in SUBSET Uids
        /\ Send(p, ms) /\ cache' = [cache EXCEPT ![p] = C]
        /\ UNCHANGED <<link, nodesOf, socket>>
    BY <1>0, <1>3 DEF NodeChecks, vars
  <2>2. /\ m \in NodeMessages /\ m.type = "new" /\ m.uid = uid
        /\ \A v : m # OutNode(v)
    BY MessagesDiffer DEF NodeMessages
  <2> HIDE DEF m, p
  <2>3. ms \in Seq(NodeMessages) /\ DOMAIN ms = {1} /\ ms[1] = m
    BY <2>2
  <2>4. ListedAfter(cache[p], ms) = C
    BY <2>1, <2>2, ListedAfterOne
  <2>5. \A v \in C : Home[v] = p
    BY <1>0, <2>1 DEF p
  <2> HIDE DEF ms
  <2>6. \A v \in C : v \in cache[p] \/ \E i \in DOMAIN ms : ms[i] = NewNode(v, All)
    BY <2>3 DEF m
  <2>7. \A i \in DOMAIN ms : Home[ms[i].uid] = p
    BY <2>2, <2>3 DEF p
  <2>8. \A i \in DOMAIN ms, v \in C : ms[i] # OutNode(v)
    BY <2>2, <2>3
  <2> HIDE DEF C
  <2> QED
    <3>1. Tells(p, C, ms)
      BY <2>4, <2>5, <2>6, <2>7, <2>8 DEF Tells
    <3> QED
      BY <2>1, <2>3, <3>1, SendKeepsChannels
<1>4. ASSUME NEW uid \in Uids, NodeLeaves(uid)
      PROVE  Channels'
  <2> DEFINE p == Home[uid]
             C == cache[p] \ {uid}
             m == OutNode(uid)
             ms == <<m>>
  <2>1. /\ p \in Procs /\ C \in SUBSET Uids /\ cache[p] \in SUBSET Uids
        /\ Send(p, ms) /\ cache' = [cache EXCEPT ![p] = C]
        /\ UNCHANGED <<link, nodesOf, socket>>
    BY <1>0, <1>4 DEF NodeLeaves, vars
  <2>2. /\ m \in NodeMessages /\ m.type # "new" /\ m.uid = uid
        /\ \A v : m = OutNode(v) => uid = v
    BY MessagesDiffer DEF NodeMessages
  <2> HIDE DEF m, p
  <2>3. ms \in Seq(NodeMessages) /\ DOMAIN ms = {1} /\ ms[1] = m
    BY <2>2
  <2>4. ListedAfter(cache[p], ms) = C
    BY <2>1, <2>2, ListedAfterOne
  <2>5. \A v \in C : Home[v] = p
    BY <1>0, <2>1 DEF p
  <2> HIDE DEF ms
  <2>6. \A i \in DOMAIN ms : Home[ms[i].uid] = p
    BY <2>2, <2>3 DEF p
  <2>7. \A i \in DOMAIN ms, v \in C : ms[i] # OutNode(v)
    BY <2>2, <2>3
  <2>8. \A v \in C : v \in cache[p]
    OBVIOUS
  <2> HIDE DEF C
  <2> QED
    <3>1. Tells(p, C, ms)
      BY <2>4, <2>5, <2>6, <2>7, <2>8 DEF Tells
    <3> QED
      BY <2>1, <2>3, <3>1, SendKeepsChannels
<1>5. ASSUME NEW g \in Gateways, BrokerHandles(g)
      PROVE  Channels'
  BY <1>5, HandleKeepsChannels
<1>6. CASE \/ \E p \in Procs : LinkLost(p)
           \/ \E s \in Sessions : ConnectionEnds(s) \/ OnClose(s)
           \/ \E c \in Clients : PageOpens(c) \/ PageAsks(c)
           \/ UNCHANGED systemVars
  <2>1. /\ UNCHANGED <<cache, up, nodesOf>>
        /\ \A p \in Procs : link'[p] \in {link[p], NoSession}
    <3>1. CASE \E p \in Procs : LinkLost(p)
      BY <1>0, <3>1 DEF LinkLost, vars
    <3>2. CASE \E s \in Sessions : OnClose(s)
      BY <3>2, CloseEffect
    <3>3. CASE \E s \in Sessions : ConnectionEnds(s)
      BY <3>3 DEF ConnectionEnds, PeerGone
    <3>4. CASE \E c \in Clients : PageOpens(c)
      BY <3>4 DEF PageOpens, ClientOpen
    <3>5. CASE \E c \in Clients : PageAsks(c)
      BY <3>5, AskEffect
    <3>6. CASE UNCHANGED systemVars
      BY <3>6 DEF systemVars, vars
    <3> QED
      BY <1>6, <3>1, <3>2, <3>3, <3>4, <3>5, <3>6
  <2> QED
    BY <2>1, SocketsForward, ChannelsKept
<1> QED
  BY <1>1, <1>2, <1>3, <1>4, <1>5, <1>6 DEF SystemNext

-----------------------------------------------------------------------------
(***************************************************************************)
(* The pages: a cached node that is not shown yet is on its way.           *)
(***************************************************************************)

\* What is on its way through a queue stays so when the queue grows.
LEMMA GrowingQueue ==
  ASSUME NEW q \in Seq(NodeMessages), NEW ms \in Seq(NodeMessages), NEW m,
         \/ \E i \in DOMAIN q : q[i] = m
         \/ \E i \in DOMAIN ms : ms[i] = m
  PROVE  \E i \in DOMAIN (q \o ms) : (q \o ms)[i] = m
<1> DEFINE c == q \o ms
<1>1. /\ \A i \in DOMAIN q : i \in DOMAIN c /\ c[i] = q[i]
      /\ \A i \in DOMAIN ms : Len(q) + i \in DOMAIN c /\ c[Len(q) + i] = ms[i]
  BY QueueElements
<1> HIDE DEF c
<1>2. \E i \in DOMAIN c : c[i] = m
  BY <1>1
<1> QED
  BY <1>2 DEF c

\* A process that writes ms to its session takes nothing off its way.
LEMMA SendKeepsShown ==
  ASSUME SystemTypeOK, Channels, NEW p \in Procs, NEW q \in Procs,
         link[q] # NoSession, NEW ms \in Seq(NodeMessages), Send(p, ms),
         NEW m, \E i \in DOMAIN up[link[q]] : up[link[q]][i] = m
  PROVE  \E i \in DOMAIN up'[link[q]] : up'[link[q]][i] = m
<1>1. link[q] \in Gateways /\ up[link[q]] \in Seq(NodeMessages)
  BY DEF SystemTypeOK
<1>2. up'[link[q]] \in {up[link[q]], up[link[q]] \o ms}
  BY <1>1, SendEffect
<1>3. CASE up'[link[q]] = up[link[q]]
  BY <1>3
<1>4. CASE up'[link[q]] = up[link[q]] \o ms
  <2> DEFINE old == up[link[q]]
  <2>1. old \in Seq(NodeMessages) /\ \E i \in DOMAIN old : old[i] = m
    BY <1>1
  <2> HIDE DEF old
  <2>2. \E i \in DOMAIN (old \o ms) : (old \o ms)[i] = m
    BY <2>1, GrowingQueue
  <2> QED
    BY <1>4, <2>2 DEF old
<1> QED
  BY <1>2, <1>3, <1>4

\* Every step keeps a cached node shown or on its way.
LEMMA ShownStep ==
  ASSUME SystemTypeOK, IInv, NoneRejected, Channels, ShownOrOnItsWay,
         [SystemNext]_systemVars
  PROVE  ShownOrOnItsWay'
<1> SUFFICES ASSUME NEW p \in Procs, link'[p] # NoSession, socket'[link'[p]] = "open",
                    NEW uid \in cache'[p] \ overtaken',
                    NEW c \in Range(clients'), socket'[c] = "open"
             PROVE  \/ uid \in Displayed(display'[c])
                    \/ \E i \in DOMAIN up'[link'[p]] :
                         up'[link'[p]][i] \in {NewNode(uid, All), NewNode(uid, c)}
                    \/ \E i \in DOMAIN unread'[link'[p]] : unread'[link'[p]][i].src = c
  BY DEF ShownOrOnItsWay, OnItsWay, Up, Writable
<1> DEFINE g == link[p]
           ToAll == NewNode(uid, All)
           ToPage == NewNode(uid, c)
           OldMessage == \E i \in DOMAIN up[g] : up[g][i] \in {ToAll, ToPage}
           NewMessage == \E i \in DOMAIN up'[g] : up'[g][i] \in {ToAll, ToPage}
           OldRequest == \E i \in DOMAIN unread[g] : unread[g][i].src = c
           NewRequest == \E i \in DOMAIN unread'[g] : unread'[g][i].src = c
           Goal == uid \in Displayed(display'[c]) \/ NewMessage \/ NewRequest
<1>0. /\ cache \in [Procs -> SUBSET Uids]
      /\ link \in [Procs -> Gateways \cup {NoSession}]
      /\ up \in [Gateways -> Seq(NodeMessages)]
      /\ socket \in [Sessions -> SocketStates]
      /\ unread \in [Gateways -> Seq(ClientMessages(Clients, Uids))]
      /\ \A q \in Procs : \A v \in cache[q] : v \in Uids /\ Home[v] = q
      /\ Range(clients) \subseteq Clients
      /\ \A d \in Range(clients) : d \in Sessions /\ socket[d] # "none"
      /\ \A h \in Gateways : h \in Sessions /\ h \notin Clients
      /\ \A v \in Uids : Home[v] \in Procs
      /\ \A h \in Gateways : socket[h] = "open" => h \in Range(gateways)
  BY HomeIsAProcess, TablesType DEF SystemTypeOK, TypeOK, Channels, SessionsApart,
     Sessions, IInv, Tables, ClosedClientForgotten, ReadingGatewayKnown, Reading
<1>1. \A q \in Procs : link[q] # NoSession =>
        /\ link[q] \in Gateways /\ link[q] \in Sessions /\ socket[link[q]] # "none"
        /\ \A r \in Procs : link[r] = link[q] => r = q
  BY <1>0 DEF Channels, SessionsApart
<1>2. \A s \in Sessions : socket[s] # "none" =>
        socket'[s] # "none" /\ (socket'[s] = "open" => socket[s] = "open")
  BY SocketsForward
<1>3. ASSUME g # NoSession, socket'[g] = "open", uid \in cache[p] \ overtaken,
             c \in Range(clients)
      PROVE  /\ uid \in Displayed(display[c]) \/ OldMessage \/ OldRequest
             /\ socket[g] = "open" /\ socket[c] = "open"
  <2>1. socket[g] = "open" /\ socket[c] = "open"
    BY <1>0, <1>1, <1>2, <1>3
  <2> QED
    BY <1>3, <2>1 DEF ShownOrOnItsWay, OnItsWay, Up, Writable
<1>4. ASSUME NEW h \in Gateways, ProcessConnects(p, h)
      PROVE  \E i \in DOMAIN up'[link'[p]] : up'[link'[p]][i] = ToAll
  <2>1. /\ link'[p] = h /\ up'[h] = Announcement(cache[p], All)
        /\ cache' = cache /\ cache[p] \in SUBSET Uids
    BY <1>0, <1>4 DEF ProcessConnects
  <2>2. All \in Clients \cup {All}
    OBVIOUS
  <2>3. \A v \in cache[p] : \E i \in DOMAIN Announcement(cache[p], All) :
          Announcement(cache[p], All)[i] = NewNode(v, All)
    BY <2>1, <2>2, AnnouncementProperties
  <2> QED
    BY <2>1, <2>3
<1>5. ASSUME \A h \in Gateways : ~ProcessConnects(p, h)
      PROVE  link'[p] = g
  BY <1>0, <1>5 DEF SystemNext, systemVars, ProcessConnects, LinkLost, ProcessReads,
     NodeChecks, NodeLeaves, BrokerHandles, ConnectionEnds, OnClose, PageOpens, PageAsks
<1> HIDE DEF ToAll, ToPage
<1> DEFINE Sent(r, ms) == g # NoSession /\ ms \in Seq(NodeMessages) /\ Send(r, ms)
<1>s. ASSUME NEW r \in Procs, NEW ms, Sent(r, ms), OldMessage
      PROVE  NewMessage
  <2>1. PICK m \in {ToAll, ToPage} : \E i \in DOMAIN up[g] : up[g][i] = m
    BY <1>s
  <2>2. \E i \in DOMAIN up'[g] : up'[g][i] = m
    BY <1>s, <2>1, SendKeepsShown
  <2> QED
    BY <2>1, <2>2
<1>t. ASSUME NEW ms, Sent(p, ms), NEW m \in {ToAll, ToPage},
             \E i \in DOMAIN ms : ms[i] = m
      PROVE  NewMessage
  <2> DEFINE old == up[g]
  <2>1. up'[g] = old \o ms
    BY <1>t, SendEffect
  <2>2. old \in Seq(NodeMessages) /\ ms \in Seq(NodeMessages)
    BY <1>0, <1>1, <1>t
  <2> HIDE DEF old
  <2>3. \E i \in DOMAIN (old \o ms) : (old \o ms)[i] = m
    BY <1>t, <2>2, GrowingQueue
  <2> QED
    BY <1>t, <2>1, <2>3
<1>6. ASSUME link'[p] = g, NEW r \in Procs, NEW h \in Gateways, ProcessConnects(r, h)
      PROVE  Goal
  <2>1. /\ link' = [link EXCEPT ![r] = h]
        /\ up' = [up EXCEPT ![h] = Announcement(cache[r], All)]
        /\ socket[h] = "none"
        /\ UNCHANGED <<cache, clients, display, unread, overtaken>>
    BY <1>6 DEF ProcessConnects, GatewayOpen
  <2>2. g # NoSession /\ g # h /\ socket'[g] = "open"
    <3>1. r # p
      BY <1>1, <1>6, <2>1 DEF ProcessConnects
    <3> QED
      BY <1>1, <1>6, <2>1
  <2>3. up'[g] = up[g]
    BY <1>0, <1>1, <2>1, <2>2
  <2> QED
    BY <1>3, <2>1, <2>2, <2>3
<1>7. ASSUME link'[p] = g, NEW r \in Procs, ProcessReads(r)
      PROVE  Goal
  <2> DEFINE dst == Head(unread[link[r]]).src
             ms == Announcement(cache[r], dst)
  <2>1. /\ link[r] \in Gateways /\ unread[link[r]] # <<>>
        /\ unread[link[r]] \in Seq(ClientMessages(Clients, Uids))
    BY <1>0, <1>7 DEF ProcessReads, GatewayReads
  <2>2. dst \in Clients
    <3>1. Head(unread[link[r]]) \in ClientMessages(Clients, Uids)
      BY <2>1
    <3> QED
      BY <3>1, RequestHasSource
  <2>3. /\ Send(r, ms)
        /\ unread' = [unread EXCEPT ![link[r]] = Tail(@)]
        /\ UNCHANGED <<cache, clients, display, overtaken, socket>>
    BY <1>7 DEF ProcessReads, GatewayReads
  <2> HIDE DEF dst
  <2>4. /\ ms \in Seq(NodeMessages)
        /\ \A v \in cache[r] : \E i \in DOMAIN ms : ms[i] = NewNode(v, dst)
    <3>1. cache[r] \in SUBSET Uids /\ dst \in Clients \cup {All}
      BY <1>0, <2>2
    <3> QED
      BY <3>1, AnnouncementProperties
  <2> HIDE DEF ms
  <2>5. uid \in Displayed(display[c]) \/ OldMessage \/ OldRequest
    BY <1>3, <1>7, <2>3
  <2>6. OldMessage => NewMessage
    BY <1>7, <1>s, <2>3, <2>4
  <2>7. ASSUME OldRequest, r # p
        PROVE  NewRequest
    BY <1>0, <1>1, <1>7, <2>1, <2>3, <2>7
  <2>8. ASSUME OldRequest, r = p
        PROVE  NewRequest \/ NewMessage
    <3> DEFINE q == unread[g]
    <3>1. PICK i \in DOMAIN q : q[i].src = c
      BY <2>8
    <3>2. unread'[g] = Tail(q) /\ q # <<>> /\ q \in Seq(ClientMessages(Clients, Uids))
      BY <1>0, <2>1, <2>3, <2>8
    <3>3. CASE i = 1
      <4>1. dst = c
        BY <2>8, <3>1, <3>2, <3>3 DEF dst
      <4>2. PICK j \in DOMAIN ms : ms[j] = ToPage
        BY <2>3, <2>4, <2>8, <4>1 DEF ToPage
      <4> QED
        BY <1>7, <1>t, <2>3, <2>4, <2>8, <4>2
    <3>4. CASE i # 1
      <4> HIDE DEF q
      <4>1. i - 1 \in DOMAIN Tail(q) /\ Tail(q)[i - 1] = q[i]
        BY <3>1, <3>2, <3>4
      <4> QED
        BY <1>7, <3>1, <3>2, <4>1
    <3> QED
      BY <3>3, <3>4
  <2> QED
    BY <2>3, <2>5, <2>6, <2>7, <2>8
<1>8. ASSUME link'[p] = g, NEW v \in Uids, NodeChecks(v) \/ NodeLeaves(v)
      PROVE  Goal
  <2> DEFINE r == Home[v]
  <2>1. UNCHANGED <<socket, clients, display, unread, overtaken>>
    BY <1>8 DEF NodeChecks, NodeLeaves, vars
  <2>2. PICK ms \in Seq(NodeMessages) :
          /\ Send(r, ms)
          /\ uid \in cache[p] \/ (r = p /\ \E i \in DOMAIN ms : ms[i] = ToAll)
    <3>1. CASE NodeChecks(v)
      <4> DEFINE ms == <<NewNode(v, All)>>
      <4>1. ms \in Seq(NodeMessages) /\ Send(r, ms) /\ cache' = [cache EXCEPT ![r] = @ \cup {v}]
        BY <3>1, OneMessage DEF NodeChecks
      <4>2. 1 \in DOMAIN ms /\ ms[1] = NewNode(v, All)
        OBVIOUS
      <4> HIDE DEF ms
      <4>3. uid \in cache[p] \/ (r = p /\ uid = v)
        BY <1>0, <4>1
      <4> QED
        BY <4>1, <4>2, <4>3 DEF ToAll
    <3>2. CASE NodeLeaves(v)
      <4> DEFINE ms == <<OutNode(v)>>
      <4>1. ms \in Seq(NodeMessages) /\ Send(r, ms) /\ cache' = [cache EXCEPT ![r] = @ \ {v}]
        BY <3>2, OneMessage DEF NodeLeaves
      <4> HIDE DEF ms
      <4>2. uid \in cache[p]
        BY <1>0, <4>1
      <4> QED
        BY <4>1, <4>2
    <3> QED
      BY <1>8, <3>1, <3>2
  <2>3. r \in Procs
    BY <1>0
  <2>4. CASE uid \in cache[p]
    <3>1. uid \in Displayed(display[c]) \/ OldMessage \/ OldRequest
      BY <1>3, <1>8, <2>1, <2>4
    <3>2. OldMessage => NewMessage
      BY <1>8, <1>s, <2>2, <2>3
    <3> QED
      BY <2>1, <3>1, <3>2
  <2>5. CASE r = p /\ \E i \in DOMAIN ms : ms[i] = ToAll
    BY <1>8, <1>t, <2>2, <2>5
  <2> QED
    BY <2>2, <2>4, <2>5
<1>9. ASSUME link'[p] = g, NEW h \in Gateways, BrokerHandles(h)
      PROVE  Goal
  <2> DEFINE m == Head(up[h])
  <2>1. /\ up[h] # <<>> /\ up'[h] = Tail(up[h])
        /\ \A k \in Gateways \ {h} : up'[k] = up[k]
        /\ UNCHANGED <<cache, link, clients, unread>>
        /\ \A s \in Sessions : socket'[s] = socket[s] \/ s = h
    BY <1>9, HandleLists
  <2>2. /\ \A d \in Clients : \A v \in Displayed(display[d]) :
             \/ v \in Displayed(display'[d])
             \/ m = OutNode(v) /\ (v \in AllCached => Current(h) \/ v \in overtaken')
        /\ \A v \in overtaken \ overtaken', d \in Range(clients) :
             v \in Displayed(display'[d])
    BY <1>9, HandleShows DEF Writable
  <2>3. /\ c \in Range(clients) /\ c \in Clients /\ uid \in cache[p] /\ uid \in Uids
        /\ uid \notin overtaken' /\ g # NoSession /\ g \in Gateways
        /\ up[g] \in Seq(NodeMessages) /\ up[h] \in Seq(NodeMessages)
        /\ socket'[g] = "open" /\ uid \in AllCached
    BY <1>0, <1>1, <1>9, <2>1 DEF AllCached
  <2>r. ASSUME NEW dst \in {All, c}, m = NewNode(uid, dst), socket[c] = "open",
               socket'[h] # "closing"
        PROVE  uid \in Displayed(display'[c])
    <3>1. dst \in Clients \cup {All}
      BY <2>3
    <3> QED
      BY <1>9, <2>3, <2>r, <3>1, HandleShows DEF Writable
  <2>4. CASE uid \in overtaken
    BY <2>2, <2>3, <2>4
  <2>5. CASE uid \notin overtaken
    <3>1. /\ uid \in Displayed(display[c]) \/ OldMessage \/ OldRequest
          /\ socket[c] = "open"
      BY <1>3, <2>3, <2>5
    <3>2. ASSUME NEW i \in DOMAIN up[g], g = h, i # 1
          PROVE  i - 1 \in DOMAIN up'[g] /\ up'[g][i - 1] = up[g][i]
      <4>1. i = 1 \/ (i - 1 \in DOMAIN Tail(up[g]) /\ Tail(up[g])[i - 1] = up[g][i])
        BY <2>3, QueueElements
      <4> QED
        BY <2>1, <3>2, <4>1
    <3>3. ASSUME uid \in Displayed(display[c]), uid \notin Displayed(display'[c])
          PROVE  NewMessage
      <4>1. m = OutNode(uid) /\ Current(h)
        BY <2>2, <2>3, <3>3
      <4>2. PICK r \in Procs : link[r] = h
        BY <4>1 DEF Current
      <4>3. h # NoSession /\ 1 \in DOMAIN up[h] /\ m = up[h][1]
        BY <2>1, <2>3, NoSessionIsNone
      <4>4. Home[m.uid] = r /\ m.uid = uid
        <5>1. Home[m.uid] = r
          BY <4>2, <4>3 DEF Channels, SessionsApart
        <5>2. OutNode(uid).uid = uid
          BY MessagesDiffer
        <5> QED
          BY <4>1, <5>1, <5>2
      <4>5. g = h
        BY <1>0, <2>3, <4>2, <4>4
      <4>6. PICK j \in (1 + 1)..Len(up[g]) : up[g][j] = ToAll
        BY <2>3, <4>1, <4>3, <4>5 DEF Channels, Reannounced, ToAll
      <4>7. j \in DOMAIN up[g] /\ j # 1
        BY <2>3
      <4> QED
        BY <3>2, <4>5, <4>6, <4>7
    <3>4. ASSUME OldMessage
          PROVE  NewMessage \/ uid \in Displayed(display'[c])
      <4>1. PICK i \in DOMAIN up[g] : up[g][i] \in {ToAll, ToPage}
        BY <3>4
      <4>2. CASE g # h
        BY <2>1, <2>3, <4>1, <4>2
      <4>3. CASE g = h /\ i = 1
        <5>1. m = ToAll \/ m = ToPage
          BY <2>1, <2>3, <4>1, <4>3
        <5>2. socket'[h] # "closing"
          BY <2>3, <4>3
        <5>3. m = NewNode(uid, All) \/ m = NewNode(uid, c)
          BY <5>1 DEF ToAll, ToPage
        <5> QED
          BY <2>r, <3>1, <5>2, <5>3
      <4>4. CASE g = h /\ i # 1
        BY <3>2, <4>1, <4>4
      <4> QED
        BY <4>2, <4>3, <4>4
    <3>5. OldRequest => NewRequest
      BY <2>1
    <3> QED
      BY <3>1, <3>3, <3>4, <3>5
  <2> QED
    BY <2>4, <2>5
<1>10. ASSUME link'[p] = g, NEW s \in Sessions, OnClose(s)
       PROVE  Goal
  <2>1. /\ UNCHANGED <<cache, link, up>>
        /\ socket' = [socket EXCEPT ![s] = "closed"]
        /\ Range(clients') \subseteq Range(clients)
        /\ \A h \in Gateways \ {s} : unread'[h] = unread[h]
        /\ overtaken \subseteq overtaken'
        /\ \A d \in Clients : \A v \in Displayed(display[d]) :
             \/ v \in Displayed(display'[d])
             \/ /\ s \in Gateways /\ v \in Listed(s)
                /\ v \in AllCached => Current(s) \/ v \in overtaken'
    BY <1>10, CloseEffect
  <2>2. /\ c \in Range(clients) /\ c \in Clients /\ uid \in cache[p] \ overtaken
        /\ g # NoSession /\ g \in Gateways /\ g # s /\ socket'[g] = "open"
        /\ uid \in AllCached
    <3>1. g # NoSession /\ socket'[g] = "open"
      BY <1>10
    <3>2. g \in Gateways
      BY <1>1, <3>1
    <3>3. g # s
      BY <1>0, <2>1, <3>1, <3>2
    <3> QED
      BY <1>0, <2>1, <3>1, <3>2, <3>3 DEF AllCached
  <2>3. uid \in Displayed(display[c]) \/ OldMessage \/ OldRequest
    BY <1>3, <2>2
  <2>4. ASSUME uid \in Displayed(display[c])
        PROVE  uid \in Displayed(display'[c])
    <3>1. SUFFICES ASSUME s \in Gateways, uid \in Listed(s), Current(s) PROVE FALSE
      BY <2>1, <2>2, <2>4
    <3>2. PICK r \in Procs : link[r] = s
      BY <3>1 DEF Current
    <3>3. s # NoSession
      BY <3>1, NoSessionIsNone
    <3>4. Home[uid] = r
      BY <3>1, <3>2, <3>3 DEF Channels, SessionsApart
    <3> QED
      BY <1>0, <2>2, <3>2, <3>4
  <2> QED
    BY <2>1, <2>2, <2>3, <2>4
<1>11. ASSUME link'[p] = g, NEW d \in Clients, PageAsks(d)
       PROVE  Goal
  <2>1. /\ UNCHANGED <<cache, link, up, overtaken, display>>
        /\ Range(clients') = Range(clients) \cup {d}
        /\ \A h \in Gateways : \A i \in DOMAIN unread[h] :
             i \in DOMAIN unread'[h] /\ unread'[h][i] = unread[h][i]
        /\ socket'[d] # "closing" =>
             \A h \in Range(gateways) :
               \E i \in DOMAIN unread'[h] : unread'[h][i].src = d
    BY <1>11, AskEffect
  <2>2. /\ g # NoSession /\ g \in Gateways /\ socket'[g] = "open"
        /\ socket[g] = "open" /\ g \in Range(gateways)
    BY <1>0, <1>1, <1>2, <1>11
  <2>3. CASE c = d
    BY <2>1, <2>2, <2>3
  <2>4. CASE c # d
    <3>1. uid \in Displayed(display[c]) \/ OldMessage \/ OldRequest
      BY <1>3, <2>1, <2>2, <2>4
    <3>2. OldRequest => NewRequest
      BY <2>1, <2>2
    <3> QED
      BY <2>1, <3>1, <3>2
  <2> QED
    BY <2>3, <2>4
<1>12. ASSUME link'[p] = g,
              UNCHANGED <<cache, up, clients, display, unread, overtaken>>
       PROVE  Goal
  BY <1>3, <1>12
<1> HIDE DEF Goal
<1>13. ASSUME link'[p] = g PROVE Goal
  <2>1. CASE \E r \in Procs : LinkLost(r)
    <3>1. UNCHANGED <<cache, up, clients, display, unread, overtaken>>
      BY <2>1 DEF LinkLost, vars
    <3> QED
      BY <1>12, <1>13, <3>1
  <2>2. CASE \E s \in Sessions : ConnectionEnds(s)
    <3>1. UNCHANGED <<cache, up, clients, display, unread, overtaken>>
      BY <2>2 DEF ConnectionEnds, PeerGone
    <3> QED
      BY <1>12, <1>13, <3>1
  <2>3. CASE \E d \in Clients : PageOpens(d)
    <3>1. UNCHANGED <<cache, up, clients, display, unread, overtaken>>
      BY <2>3 DEF PageOpens, ClientOpen
    <3> QED
      BY <1>12, <1>13, <3>1
  <2>4. CASE UNCHANGED systemVars
    <3>1. UNCHANGED <<cache, up, clients, display, unread, overtaken>>
      BY <2>4 DEF systemVars, vars
    <3> QED
      BY <1>12, <1>13, <3>1
  <2> QED
    BY <1>6, <1>7, <1>8, <1>9, <1>10, <1>11, <1>13, <2>1, <2>2, <2>3, <2>4
       DEF SystemNext
<1> QED
  BY <1>4, <1>5, <1>13 DEF Goal, ToAll, ToPage

-----------------------------------------------------------------------------
(***************************************************************************)
(* The theorems.                                                           *)
(***************************************************************************)

\* Initially no process has a session and no page is registered.
LEMMA SystemInvInit ==
  ASSUME SystemInit
  PROVE  SystemInv
<1>1. IInv
  BY InvInit DEF SystemInit
<1>2. /\ link = [p \in Procs |-> NoSession]
      /\ cache = [p \in Procs |-> {}]
      /\ socket = [s \in Sessions |-> "none"]
  BY DEF SystemInit, Init
<1>3. SessionsApart /\ ChannelExact /\ Reannounced /\ ShownOrOnItsWay /\ NoneRejected
  BY <1>2 DEF SessionsApart, ChannelExact, Reannounced, ShownOrOnItsWay, NoneRejected, Up
<1> QED
  BY <1>1, <1>3, SystemTypeInit DEF SystemInv

\* Every step keeps the invariant.
LEMMA SystemInvStep ==
  ASSUME SystemInv, [SystemNext]_systemVars
  PROVE  SystemInv'
<1>1. SystemTypeOK /\ IInv /\ NoneRejected /\ Channels /\ ShownOrOnItsWay
  BY DEF SystemInv, Channels
<1>2. SystemTypeOK' /\ NoneRejected' /\ Channels' /\ ShownOrOnItsWay'
  BY <1>1, SystemTypeStep, SocketsForward, ChannelsStep, ShownStep
<1>3. IInv'
  <2>1. [Next]_vars
    BY <1>1, BrokerStep
  <2> QED
    BY <1>1, <2>1, TypeStep, TablesStep, GhostsStep DEF IInv
<1> QED
  BY <1>2, <1>3 DEF SystemInv, Channels

\* The invariant of the system: sessions belong to one process, the list and
\* what is on its way agree with the cache, and a cached node is shown or on
\* its way to every page that can be written to.
THEOREM SystemInductive == SystemSpec => []SystemInv
<1> QED
  BY SystemInvInit, SystemInvStep, PTL DEF SystemSpec

\* Once all that was sent has been handled, every page shows the nodes of the
\* gateways and no others, but for the exceptions PagesExact names.
THEOREM PagesAreExact == SystemSpec => []PagesExact
<1>1. ASSUME SystemInv, Settled, NEW c \in Range(clients)
      PROVE  /\ AllCached \ overtaken \subseteq Displayed(display[c])
             /\ Displayed(display[c]) \subseteq AllCached \cup missed \cup Abandoned
  <2>0. /\ SystemTypeOK /\ IInv /\ SessionsApart /\ ChannelExact
        /\ ShownOrOnItsWay /\ NoneRejected
        /\ link \in [Procs -> Gateways \cup {NoSession}]
        /\ cache \in [Procs -> SUBSET Uids]
        /\ socket \in [Sessions -> SocketStates]
        /\ Range(clients) \subseteq Clients /\ Range(gateways) \subseteq Gateways
        /\ \A g \in Gateways : g \in Sessions /\ Listed(g) \in SUBSET Uids
    BY <1>1, TablesType DEF SystemInv, SystemTypeOK, TypeOK
  <2>1. \A p \in Procs : /\ Up(p) /\ link[p] \in Gateways
                         /\ up[link[p]] = <<>> /\ unread[link[p]] = <<>>
    BY <1>1, <2>0 DEF Settled, Up
  <2>2. Writable(c)
    <3>1. c \in Sessions /\ socket[c] \in {"open", "rejected", "closing"}
      BY <1>1, <2>0 DEF IInv, Tables, ClosedClientForgotten, Sessions
    <3> QED
      BY <1>1, <2>0, <3>1 DEF Settled, NoneRejected, Writable
  <2>3. ASSUME NEW uid \in AllCached \ overtaken
        PROVE  uid \in Displayed(display[c])
    <3>1. PICK p \in Procs : uid \in cache[p]
      BY DEF AllCached
    <3>2. ~OnItsWay(uid, c, link[p])
      BY <2>1 DEF OnItsWay
    <3> QED
      BY <1>1, <2>0, <2>1, <2>2, <2>3, <3>1, <3>2 DEF ShownOrOnItsWay
  <2>4. ASSUME NEW g \in Range(gateways), NEW uid \in Listed(g)
        PROVE  uid \in AllCached \cup Abandoned
    <3>1. CASE socket[g] = "closed"
      BY <3>1 DEF Abandoned
    <3>2. CASE socket[g] # "closed"
      <4>1. socket[g] # "none"
        BY <2>0 DEF IInv, Tables, UnusedGatewayUnlisted
      <4>2. PICK p \in Procs : link[p] = g
        BY <1>1, <2>0, <3>2, <4>1 DEF Settled, Current
      <4>3. ListedAfter(Listed(g), <<>>) = Listed(g)
        <5>1. \A u : Stays(u, <<>>, 1)
          BY DEF Stays
        <5>2. DOMAIN <<>> = {} /\ Listed(g) \subseteq Uids
          BY <2>0
        <5> QED
          BY <5>1, <5>2 DEF ListedAfter
      <4>4. ListedIn(g) = cache[p]
        BY <2>0, <2>1, <4>2 DEF ChannelExact
      <4>5. uid \in cache[p]
        BY <2>1, <4>2, <4>3, <4>4 DEF ListedIn
      <4> QED
        BY <4>5 DEF AllCached
    <3> QED
      BY <3>1, <3>2
  <2>5. Displayed(display[c]) \subseteq AllListed \cup missed
    BY <1>1, <2>0 DEF IInv, NoGhostNode
  <2> QED
    BY <2>3, <2>4, <2>5 DEF AllListed
<1>2. SystemInv => PagesExact
  BY <1>1 DEF PagesExact
<1> QED
  BY <1>2, SystemInductive, PTL

\* A step that changes a cache adds or removes one node and leaves the
\* connection of the process as it is.
LEMMA CacheStep ==
  ASSUME SystemTypeOK, [SystemNext]_systemVars, NEW p \in Procs
  PROVE  \/ cache'[p] = cache[p]
         \/ /\ Up(p)' <=> Up(p)
            /\ \E uid \in Uids :
                 \/ uid \notin cache[p] /\ cache'[p] = cache[p] \cup {uid}
                 \/ uid \in cache[p] /\ cache'[p] = cache[p] \ {uid}
<1>0. cache \in [Procs -> SUBSET Uids]
  BY DEF SystemTypeOK
<1>1. ASSUME NEW uid \in Uids, NodeChecks(uid) \/ NodeLeaves(uid)
      PROVE  /\ UNCHANGED <<link, socket>>
             /\ \/ cache'[p] = cache[p]
                \/ uid \notin cache[p] /\ cache'[p] = cache[p] \cup {uid}
                \/ uid \in cache[p] /\ cache'[p] = cache[p] \ {uid}
  <2>1. UNCHANGED <<link, socket>>
    BY <1>1 DEF NodeChecks, NodeLeaves, vars
  <2>2. CASE NodeChecks(uid)
    <3>1. cache' = [cache EXCEPT ![Home[uid]] = @ \cup {uid}]
      BY <2>2 DEF NodeChecks
    <3>2. cache'[p] = cache[p] \/ cache'[p] = cache[p] \cup {uid}
      BY <1>0, <3>1
    <3> QED
      BY <2>1, <3>2
  <2>3. CASE NodeLeaves(uid)
    <3>1. /\ cache' = [cache EXCEPT ![Home[uid]] = @ \ {uid}]
          /\ uid \in cache[Home[uid]]
      BY <2>3 DEF NodeLeaves
    <3>2. cache'[p] = cache[p] \/ (uid \in cache[p] /\ cache'[p] = cache[p] \ {uid})
      BY <1>0, <3>1
    <3> QED
      BY <2>1, <3>2
  <2> QED
    BY <1>1, <2>2, <2>3
<1>2. CASE \E uid \in Uids : NodeChecks(uid) \/ NodeLeaves(uid)
  BY <1>1, <1>2 DEF Up
<1>3. CASE ~\E uid \in Uids : NodeChecks(uid) \/ NodeLeaves(uid)
  <2>1. cache' = cache
    BY <1>3 DEF SystemNext, systemVars, ProcessConnects, LinkLost, ProcessReads,
       BrokerHandles, ConnectionEnds, OnClose, PageOpens, PageAsks
  <2> QED
    BY <2>1
<1> QED
  BY <1>2, <1>3

\* Each process starts without nodes and without a connection.
LEMMA DirectoriesInit ==
  ASSUME SystemInit, NEW p \in Procs
  PROVE  Directory(p)!Init
<1>1. cache[p] = {} /\ ~Up(p)
  BY DEF SystemInit, Up
<1> QED
  BY <1>1 DEF Directory!Init

\* Each step is, for each process, a step of its directory or a stutter.
LEMMA DirectoriesStep ==
  ASSUME SystemInv, SystemInv', [SystemNext]_systemVars, NEW p \in Procs
  PROVE  [Directory(p)!Next]_(Directory(p)!vars)
<1>1. /\ Up(p) \in BOOLEAN /\ Up(p)' \in BOOLEAN
      /\ Up(p) => ListedIn(link[p]) = cache[p]
      /\ Up(p)' => ListedIn(link[p])' = cache'[p]
      /\ SystemTypeOK
  BY DEF SystemInv, ChannelExact, Up
<1> DEFINE listed == IF Up(p) THEN ListedIn(link[p]) ELSE {}
<1>2. /\ listed = IF Up(p) THEN cache[p] ELSE {}
      /\ listed' = IF Up(p)' THEN cache'[p] ELSE {}
  BY <1>1
<1>3. CASE cache'[p] = cache[p]
  <2>1. CASE Up(p)' <=> Up(p)
    <3>1. UNCHANGED <<cache[p], listed, Up(p)>>
      BY <1>1, <1>2, <1>3, <2>1
    <3> QED
      BY <3>1 DEF Directory!vars
  <2>2. CASE ~Up(p) /\ Up(p)'
    <3>1. Directory(p)!Connect
      BY <1>1, <1>2, <1>3, <2>2 DEF Directory!Connect
    <3> QED
      BY <3>1 DEF Directory!Next
  <2>3. CASE Up(p) /\ ~Up(p)'
    <3>1. Directory(p)!Disconnect
      BY <1>1, <1>2, <1>3, <2>3 DEF Directory!Disconnect
    <3> QED
      BY <3>1 DEF Directory!Next
  <2> QED
    BY <2>1, <2>2, <2>3
<1>4. CASE /\ Up(p)' <=> Up(p)
           /\ \E uid \in Uids : uid \notin cache[p] /\ cache'[p] = cache[p] \cup {uid}
  <2>1. PICK uid \in Uids : uid \notin cache[p] /\ cache'[p] = cache[p] \cup {uid}
    BY <1>4
  <2>2. /\ cache'[p] = (cache[p] \cup {uid}) \ {}
        /\ listed' = IF Up(p) THEN (listed \cup {uid}) \ {} ELSE listed
        /\ UNCHANGED Up(p)
    BY <1>1, <1>2, <1>4, <2>1
  <2>3. Directory(p)!Join(uid)
    BY <2>1, <2>2 DEF Directory!Join, Directory!Follows
  <2> QED
    BY <2>3 DEF Directory!Next
<1>5. CASE /\ Up(p)' <=> Up(p)
           /\ \E uid \in Uids : uid \in cache[p] /\ cache'[p] = cache[p] \ {uid}
  <2>1. PICK uid \in Uids : uid \in cache[p] /\ cache'[p] = cache[p] \ {uid}
    BY <1>5
  <2>2. /\ cache'[p] = (cache[p] \cup {}) \ {uid}
        /\ listed' = IF Up(p) THEN (listed \cup {}) \ {uid} ELSE listed
        /\ UNCHANGED Up(p)
    BY <1>1, <1>2, <1>5, <2>1
  <2>3. Directory(p)!Leave({uid})
    BY <2>1, <2>2 DEF Directory!Leave, Directory!Follows
  <2> QED
    BY <2>3 DEF Directory!Next
<1> QED
  BY <1>1, <1>3, <1>4, <1>5, CacheStep

\* Over the channel, and with what is on its way counted as told, each process
\* keeps the promise of NodeDirectory.
THEOREM ImplementDirectories == SystemSpec => DirectoriesKept
<1>1. SystemInit => \A p \in Procs : Directory(p)!Init
  BY DirectoriesInit
<1>2. SystemInv /\ SystemInv' /\ [SystemNext]_systemVars
        => [\A p \in Procs : [Directory(p)!Next]_(Directory(p)!vars)]_systemVars
  BY DirectoriesStep
<1> QED
  BY <1>1, <1>2, SystemInductive, PTL DEF SystemSpec, DirectoriesKept
=============================================================================
