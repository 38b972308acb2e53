---------------------------- MODULE BrokerProofs ----------------------------
(***************************************************************************)
(* Theorems of Broker, for any number of dashboards, gateways and nodes.   *)
(***************************************************************************)
EXTENDS Broker, SequenceTheorems, TLAPS

-----------------------------------------------------------------------------
(***************************************************************************)
(* The tables: what removing an entry does to the set of entries.          *)
(***************************************************************************)

\* Cutting position i out of a sequence.
LEMMA CutProperties ==
  ASSUME NEW S, NEW ws \in Seq(S), NEW i \in 1..Len(ws)
  PROVE  LET cut == SubSeq(ws, 1, i - 1) \o SubSeq(ws, i + 1, Len(ws))
         IN  /\ cut \in Seq(S)
             /\ Len(cut) = Len(ws) - 1
             /\ \A j \in 1..Len(cut) :
                  cut[j] = IF j < i THEN ws[j] ELSE ws[j + 1]
<1> DEFINE front == SubSeq(ws, 1, i - 1)
           back  == SubSeq(ws, i + 1, Len(ws))
<1>1. /\ front \in Seq(S)
      /\ Len(front) = i - 1
      /\ \A j \in 1..(i - 1) : front[j] = ws[j]
  OBVIOUS
<1>2. /\ back \in Seq(S)
      /\ Len(back) = Len(ws) - i
      /\ \A j \in 1..(Len(ws) - i) : back[j] = ws[i + j]
  OBVIOUS
<1> HIDE DEF front, back
<1>3. /\ front \o back \in Seq(S)
      /\ Len(front \o back) = Len(ws) - 1
      /\ \A j \in 1..(Len(ws) - 1) :
           (front \o back)[j] = IF j < i THEN front[j] ELSE back[j - (i - 1)]
  BY <1>1, <1>2
<1>4. ASSUME NEW j \in 1..(Len(ws) - 1)
      PROVE  (front \o back)[j] = IF j < i THEN ws[j] ELSE ws[j + 1]
  <2>1. CASE j < i
    BY <1>1, <1>3, <2>1
  <2>2. CASE ~(j < i)
    <3>1. j - (i - 1) \in 1..(Len(ws) - i) /\ i + (j - (i - 1)) = j + 1
      BY <2>2
    <3> QED BY <1>2, <1>3, <2>2, <3>1
  <2> QED BY <2>1, <2>2
<1> QED BY <1>3, <1>4 DEF front, back

\* Without yields a table again.
LEMMA WithoutType ==
  ASSUME NEW S, NEW ws \in Seq(S), NEW s
  PROVE  Without(ws, s) \in Seq(S)
<1>1. CASE ~\E i \in DOMAIN ws : ws[i] = s
  BY <1>1 DEF Without
<1>2. CASE \E i \in DOMAIN ws : ws[i] = s
  <2> DEFINE i == CHOOSE i \in DOMAIN ws : ws[i] = s
  <2>1. Without(ws, s) = SubSeq(ws, 1, i - 1) \o SubSeq(ws, i + 1, Len(ws))
    BY <1>2 DEF Without
  <2>2. i \in 1..Len(ws)
    BY <1>2
  <2> HIDE DEF i
  <2> QED BY <2>1, <2>2, CutProperties
<1> QED BY <1>1, <1>2

\* In a table without duplicates, Without keeps every entry but the one
\* removed, and leaves no duplicates.
LEMMA WithoutProperties ==
  ASSUME NEW S, NEW ws \in Seq(S), NEW s, IsInjective(ws)
  PROVE  /\ Without(ws, s) \in Seq(S)
         /\ IsInjective(Without(ws, s))
         /\ Range(Without(ws, s)) = Range(ws) \ {s}
<1>1. CASE ~\E i \in DOMAIN ws : ws[i] = s
  <2>1. Without(ws, s) = ws
    BY <1>1 DEF Without
  <2>2. s \notin Range(ws)
    BY <1>1 DEF Range
  <2> QED BY <2>1, <2>2
<1>2. CASE \E i \in DOMAIN ws : ws[i] = s
  <2> DEFINE i   == CHOOSE i \in DOMAIN ws : ws[i] = s
             cut == SubSeq(ws, 1, i - 1) \o SubSeq(ws, i + 1, Len(ws))
  <2>1. Without(ws, s) = cut
    BY <1>2 DEF Without
  <2>2. i \in 1..Len(ws) /\ ws[i] = s
    BY <1>2
  <2> HIDE DEF i
  <2>3. /\ cut \in Seq(S)
        /\ Len(cut) = Len(ws) - 1
        /\ \A j \in 1..Len(cut) : cut[j] = IF j < i THEN ws[j] ELSE ws[j + 1]
    BY <2>2, CutProperties
  <2> HIDE DEF cut
  <2>4. DOMAIN cut = 1..Len(cut) /\ DOMAIN ws = 1..Len(ws)
    BY <2>3
  <2>5. IsInjective(cut)
    BY <2>2, <2>3, <2>4 DEF IsInjective
  <2>6. Range(cut) \subseteq Range(ws) \ {s}
    BY <2>2, <2>3, <2>4 DEF IsInjective, Range
  <2>7. ASSUME NEW x \in Range(ws) \ {s}
        PROVE  x \in Range(cut)
    <3>1. PICK k \in 1..Len(ws) : ws[k] = x
      BY <2>4 DEF Range
    <3>2. k # i
      BY <2>2, <3>1
    <3>3. CASE k < i
      BY <2>2, <2>3, <2>4, <3>1, <3>3 DEF Range
    <3>4. CASE k > i
      <4>1. k - 1 \in 1..Len(cut) /\ ~(k - 1 < i) /\ (k - 1) + 1 = k
        BY <2>2, <2>3, <3>1, <3>4
      <4> QED BY <2>3, <2>4, <3>1, <4>1 DEF Range
    <3> QED BY <2>2, <3>1, <3>2, <3>3, <3>4
  <2> QED BY <2>1, <2>3, <2>5, <2>6, <2>7
<1> QED BY <1>1, <1>2

\* Appending an entry that is not there yet.
LEMMA AppendEntryProperties ==
  ASSUME NEW S, NEW ws \in Seq(S), NEW s \in S
  PROVE  /\ Append(ws, s) \in Seq(S)
         /\ Range(Append(ws, s)) = Range(ws) \cup {s}
         /\ IsInjective(ws) /\ s \notin Range(ws) => IsInjective(Append(ws, s))
<1> DEFINE app == Append(ws, s)
<1>1. /\ app \in Seq(S)
      /\ DOMAIN app = 1..(Len(ws) + 1)
      /\ DOMAIN ws = 1..Len(ws)
      /\ Len(ws) \in Nat
      /\ app[Len(ws) + 1] = s
      /\ \A i \in 1..Len(ws) : app[i] = ws[i]
  OBVIOUS
<1> HIDE DEF app
<1>2. Range(app) = Range(ws) \cup {s}
  <2>1. Range(app) \subseteq Range(ws) \cup {s}
    BY <1>1 DEF Range
  <2>2. Range(ws) \cup {s} \subseteq Range(app)
    BY <1>1 DEF Range
  <2> QED BY <2>1, <2>2
<1>3. IsInjective(ws) /\ s \notin Range(ws) => IsInjective(app)
  BY <1>1 DEF IsInjective, Range
<1> QED BY <1>1, <1>2, <1>3 DEF app

-----------------------------------------------------------------------------
(***************************************************************************)
(* The views: what each message does to the set of nodes a page shows.     *)
(***************************************************************************)
Views == [Uids -> Cards]

LEMMA ReceiveProperties ==
  ASSUME NEW view \in Views, NEW uid \in Uids
  PROVE  /\ ReceiveNew(view, uid) \in Views
         /\ ReceiveOut(view, uid) \in Views
         /\ ReceiveReset(view, uid) \in Views
         /\ ReceiveUpdate(view, uid) \in Views
         /\ Displayed(ReceiveNew(view, uid)) = Displayed(view) \cup {uid}
         /\ Displayed(ReceiveOut(view, uid)) = Displayed(view) \ {uid}
         /\ Displayed(ReceiveReset(view, uid)) = Displayed(view)
         /\ Displayed(ReceiveUpdate(view, uid)) = Displayed(view)
<1>1. /\ ReceiveNew(view, uid) \in Views
      /\ Displayed(ReceiveNew(view, uid)) = Displayed(view) \cup {uid}
  BY DEF Views, Cards, ReceiveNew, Displayed
<1>2. /\ ReceiveOut(view, uid) \in Views
      /\ Displayed(ReceiveOut(view, uid)) = Displayed(view) \ {uid}
  BY DEF Views, Cards, ReceiveOut, Displayed
<1>3. /\ ReceiveReset(view, uid) \in Views
      /\ Displayed(ReceiveReset(view, uid)) = Displayed(view)
  BY DEF Views, Cards, ReceiveReset, Displayed
<1>4. /\ ReceiveUpdate(view, uid) \in Views
      /\ Displayed(ReceiveUpdate(view, uid)) = Displayed(view)
  BY DEF Views, Cards, ReceiveUpdate, Displayed
<1> QED BY <1>1, <1>2, <1>3, <1>4

\* The nodes of a lost gateway are removed together.
LEMMA ReceiveOutsProperties ==
  ASSUME NEW view \in Views, NEW uids
  PROVE  /\ ReceiveOuts(view, uids) \in Views
         /\ Displayed(ReceiveOuts(view, uids)) = Displayed(view) \ uids
BY DEF Views, Cards, ReceiveOuts, Displayed

\* Receive dispatches on the type of the message.
LEMMA ReceiveDispatch ==
  ASSUME NEW view, NEW uid, NEW dst
  PROVE  /\ Receive(view, NewNode(uid, dst)) = ReceiveNew(view, uid)
         /\ Receive(view, OutNode(uid)) = ReceiveOut(view, uid)
         /\ Receive(view, ResetNode(uid)) = ReceiveReset(view, uid)
         /\ Receive(view, UpdateNode(uid, dst)) = ReceiveUpdate(view, uid)
<1>1. Receive(view, NewNode(uid, dst)) = ReceiveNew(view, uid)
  BY DEF Receive, NewNode
<1>2. Receive(view, OutNode(uid)) = ReceiveOut(view, uid)
  BY DEF Receive, OutNode
<1>3. Receive(view, ResetNode(uid)) = ReceiveReset(view, uid)
  BY DEF Receive, ResetNode
<1>4. Receive(view, UpdateNode(uid, dst)) = ReceiveUpdate(view, uid)
  BY DEF Receive, UpdateNode
<1> QED BY <1>1, <1>2, <1>3, <1>4

-----------------------------------------------------------------------------
(***************************************************************************)
(* The write loops.                                                        *)
(***************************************************************************)

\* A loop writes to websockets of the table only, and to all of them when
\* it does not raise.
LEMMA WrittenProperties ==
  ASSUME NEW S, NEW ws \in Seq(S)
  PROVE  /\ Written(ws) \subseteq Range(ws)
         /\ ~Raises(ws) => Written(ws) = Range(ws)
BY DEF Written, Raises, Range

\* A message of a gateway is written to registered clients only.
LEMMA RecipientsProperties ==
  ASSUME TypeOK, NEW dst
  PROVE  /\ Recipients(dst) \in Seq(Clients)
         /\ Range(Recipients(dst)) \subseteq Range(clients)
         /\ Written(Recipients(dst)) \subseteq Range(clients)
<1>1. clients \in Seq(Clients) /\ Range(clients) \subseteq Clients
  BY DEF TypeOK, Range
<1>2. Recipients(dst) \in Seq(Clients) /\ Range(Recipients(dst)) \subseteq Range(clients)
  BY <1>1 DEF Recipients, Range
<1> QED BY <1>2, WrittenProperties

-----------------------------------------------------------------------------
(***************************************************************************)
(* Type correctness.                                                       *)
(***************************************************************************)

\* Aborting a connection keeps the sockets well typed.
LEMMA AbortType ==
  ASSUME TypeOK, NEW failed \in BOOLEAN, NEW s \in Sessions, AbortIf(failed, s)
  PROVE  socket' \in [Sessions -> SocketStates]
BY DEF TypeOK, AbortIf, SocketStates

\* Forwarding a well-formed message keeps the sockets and queues well typed.
LEMMA ForwardType ==
  ASSUME TypeOK, NEW c \in Clients, NEW m \in ClientMessages(Clients, Uids),
         ForwardToGateways(c, m)
  PROVE  /\ socket' \in [Sessions -> SocketStates]
         /\ unread' \in [Gateways -> Seq(ClientMessages(Clients, Uids))]
<1>1. socket' \in [Sessions -> SocketStates]
  BY AbortType DEF ForwardToGateways, Raises, Sessions
<1> DEFINE M == ClientMessages(Clients, Uids)
<1>2. unread \in [Gateways -> Seq(M)] /\ m \in M
  BY DEF TypeOK
<1> HIDE DEF M
<1>3. \A g \in Gateways : Append(unread[g], m) \in Seq(M) /\ unread[g] \in Seq(M)
  BY <1>2
<1>4. unread' \in [Gateways -> Seq(M)]
  BY <1>3 DEF ForwardToGateways
<1> QED BY <1>1, <1>4 DEF M

\* Writing a message to clients keeps their views well typed, given that the
\* message does.
LEMMA WriteType ==
  ASSUME TypeOK, NEW g \in Gateways, NEW ws, NEW m,
         \A view \in Views : Receive(view, m) \in Views,
         WriteToClients(g, ws, m)
  PROVE  /\ socket' \in [Sessions -> SocketStates]
         /\ display' \in [Clients -> Views]
<1>1. socket' \in [Sessions -> SocketStates]
  BY AbortType DEF WriteToClients, Raises, Sessions
<1>2. display \in [Clients -> Views]
  BY DEF TypeOK, Views
<1>3. display' \in [Clients -> Views]
  BY <1>2 DEF WriteToClients
<1> QED BY <1>1, <1>3

\* Every message of a gateway keeps a view a view.
LEMMA ReceiveType ==
  ASSUME NEW uid \in Uids, NEW dst
  PROVE  \A m \in {NewNode(uid, dst), OutNode(uid), ResetNode(uid),
                   UpdateNode(uid, dst)} :
           \A view \in Views : Receive(view, m) \in Views
<1> SUFFICES ASSUME NEW view \in Views
             PROVE  /\ Receive(view, NewNode(uid, dst)) \in Views
                    /\ Receive(view, OutNode(uid)) \in Views
                    /\ Receive(view, ResetNode(uid)) \in Views
                    /\ Receive(view, UpdateNode(uid, dst)) \in Views
  OBVIOUS
<1>1. /\ Receive(view, NewNode(uid, dst)) = ReceiveNew(view, uid)
      /\ Receive(view, OutNode(uid)) = ReceiveOut(view, uid)
      /\ Receive(view, ResetNode(uid)) = ReceiveReset(view, uid)
      /\ Receive(view, UpdateNode(uid, dst)) = ReceiveUpdate(view, uid)
  BY ReceiveDispatch
<1> QED BY <1>1, ReceiveProperties

LEMMA TypeStep ==
  ASSUME TypeOK, [Next]_vars
  PROVE  TypeOK'
<1> USE DEF TypeOK
<1>1. ASSUME NEW c \in Clients, ClientOpen(c)
      PROVE  TypeOK'
  BY <1>1 DEF ClientOpen, SocketStates, Sessions
<1>2. ASSUME NEW c \in Clients, ClientSendsNew(c)
      PROVE  TypeOK'
  <2>1. ClientNew(c) \in ClientMessages(Clients, Uids)
    BY DEF ClientMessages
  <2>2. /\ socket' \in [Sessions -> SocketStates]
        /\ unread' \in [Gateways -> Seq(ClientMessages(Clients, Uids))]
    BY <1>2, <2>1, ForwardType DEF ClientSendsNew
  <2>3. clients' \in Seq(Clients)
    BY <1>2 DEF ClientSendsNew
  <2> QED BY <1>2, <2>2, <2>3 DEF ClientSendsNew
<1>3. ASSUME NEW c \in Clients, NEW uid \in Uids, ClientSendsUpdate(c, uid)
      PROVE  TypeOK'
  <2>1. ClientUpdate(c, uid) \in ClientMessages(Clients, Uids)
    BY DEF ClientMessages
  <2>2. /\ socket' \in [Sessions -> SocketStates]
        /\ unread' \in [Gateways -> Seq(ClientMessages(Clients, Uids))]
    BY <1>3, <2>1, ForwardType DEF ClientSendsUpdate
  <2> QED BY <1>3, <2>2 DEF ClientSendsUpdate
<1>4. ASSUME NEW c \in Clients, ClientOnClose(c)
      PROVE  TypeOK'
  <2>1. clients' \in Seq(Clients)
    BY <1>4, WithoutType DEF ClientOnClose
  <2> QED BY <1>4, <2>1 DEF ClientOnClose, SocketStates, Sessions
<1>5. ASSUME NEW g \in Gateways, GatewayOpen(g)
      PROVE  TypeOK'
  BY <1>5 DEF GatewayOpen, SocketStates, Sessions
<1>6. ASSUME NEW g \in Gateways, GatewayReads(g)
      PROVE  TypeOK'
  BY <1>6 DEF GatewayReads
<1>7. ASSUME NEW g \in Gateways, NEW uid \in Uids, NEW dst \in Clients \cup {All},
             GatewaySendsNew(g, uid, dst)
      PROVE  TypeOK'
  <2>1. socket' \in [Sessions -> SocketStates] /\ display' \in [Clients -> Views]
    BY <1>7, ReceiveType, WriteType DEF GatewaySendsNew
  <2>2. nodesOf' \in [Gateways -> Seq(Uids)]
    BY <1>7 DEF GatewaySendsNew
  <2> QED BY <1>7, <2>1, <2>2 DEF GatewaySendsNew, Views
<1>8. ASSUME NEW g \in Gateways, NEW uid \in Uids, GatewaySendsOut(g, uid)
      PROVE  TypeOK'
  <2>1. socket' \in [Sessions -> SocketStates] /\ display' \in [Clients -> Views]
    BY <1>8, ReceiveType, WriteType DEF GatewaySendsOut
  <2>2. Without(nodesOf[g], uid) \in Seq(Uids)
    BY WithoutType
  <2>3. nodesOf' \in [Gateways -> Seq(Uids)]
    BY <1>8, <2>2 DEF GatewaySendsOut
  <2> QED BY <1>8, <2>1, <2>3 DEF GatewaySendsOut, Views
<1>9. ASSUME NEW g \in Gateways, NEW uid \in Uids, GatewaySendsReset(g, uid)
      PROVE  TypeOK'
  <2>1. socket' \in [Sessions -> SocketStates] /\ display' \in [Clients -> Views]
    BY <1>9, ReceiveType, WriteType DEF GatewaySendsReset
  <2> QED BY <1>9, <2>1 DEF GatewaySendsReset, Views
<1>10. ASSUME NEW g \in Gateways, NEW uid \in Uids, NEW dst \in Clients \cup {All},
              GatewaySendsUpdate(g, uid, dst)
       PROVE  TypeOK'
  <2>1. socket' \in [Sessions -> SocketStates] /\ display' \in [Clients -> Views]
    BY <1>10, ReceiveType, WriteType DEF GatewaySendsUpdate
  <2> QED BY <1>10, <2>1 DEF GatewaySendsUpdate, Views
<1>11. ASSUME NEW g \in Gateways, GatewayOnClose(g)
       PROVE  TypeOK'
  <2>1. gateways' \in Seq(Gateways)
    BY <1>11, WithoutType DEF GatewayOnClose
  <2>2. display' \in [Clients -> Views]
    BY <1>11, ReceiveOutsProperties DEF GatewayOnClose, Views
  <2> QED BY <1>11, <2>1, <2>2 DEF GatewayOnClose, SocketStates, Sessions, Views
<1>12. ASSUME NEW g \in Gateways, GatewayOnCloseFails(g)
       PROVE  TypeOK'
  <2>1. Head(nodesOf[g]) \in Uids
    BY <1>12 DEF GatewayOnCloseFails
  <2>2. display' \in [Clients -> Views]
    BY <1>12, <2>1, ReceiveProperties DEF GatewayOnCloseFails, Views
  <2> QED BY <1>12, <2>2 DEF GatewayOnCloseFails, SocketStates, Sessions, Views
<1>13. ASSUME NEW s \in Sessions, PeerGone(s) \/ RejectMessage(s)
       PROVE  TypeOK'
  BY <1>13 DEF PeerGone, RejectMessage, SocketStates
<1>14. CASE UNCHANGED vars
  BY <1>14 DEF vars
<1> QED
  BY <1>1, <1>2, <1>3, <1>4, <1>5, <1>6, <1>7, <1>8, <1>9, <1>10, <1>11,
     <1>12, <1>13, <1>14 DEF Next

\* TypeOK holds of the empty tables the broker starts with.
LEMMA TypeInit ==
  ASSUME Init
  PROVE  TypeOK
BY DEF Init, TypeOK, SocketStates, EmptyView, Cards

\* The variables of the broker always have their types.
THEOREM TypeCorrect == Spec => []TypeOK
<1>1. Init => TypeOK
  BY TypeInit
<1>2. TypeOK /\ [Next]_vars => TypeOK'
  BY TypeStep
<1> QED BY <1>1, <1>2, PTL DEF Spec

-----------------------------------------------------------------------------
(***************************************************************************)
(* The tables.                                                             *)
(***************************************************************************)

\* Aborting a connection touches no other socket.
LEMMA AbortEffect ==
  ASSUME TypeOK, NEW failed, NEW s \in Sessions, Reading(s), AbortIf(failed, s)
  PROVE  \A t \in Sessions :
           \/ socket'[t] = socket[t]
           \/ Reading(t) /\ socket'[t] = "closing"
BY DEF TypeOK, AbortIf

\* Steps that leave the tables alone: sockets only move towards closing, so
\* every session is where it has to be.
LEMMA TablesKept ==
  ASSUME TypeOK, TypeOK', Tables,
         clients' = clients, gateways' = gateways,
         \A g \in Gateways : IsInjective(nodesOf'[g]),
         \A t \in Sessions : \/ socket'[t] = socket[t]
                             \/ Reading(t) /\ socket'[t] \in {"closing", "rejected"}
  PROVE  Tables'
<1>1. Range(clients) \subseteq Sessions /\ Range(gateways) \subseteq Sessions
  BY DEF TypeOK, Range, Sessions
<1>2. Range(clients)' = Range(clients) /\ Range(gateways)' = Range(gateways)
  OBVIOUS
<1>3. ClosedClientForgotten'
  BY <1>1, <1>2 DEF Tables, ClosedClientForgotten, Reading
<1>4. ReadingGatewayKnown'
  BY <1>1, <1>2 DEF Tables, ReadingGatewayKnown, Reading, Sessions
<1>5. UnusedGatewayUnlisted'
  BY <1>1, <1>2 DEF Tables, UnusedGatewayUnlisted, Reading, Sessions
<1> QED BY <1>3, <1>4, <1>5 DEF Tables

LEMMA TablesStep ==
  ASSUME TypeOK, TypeOK', Tables, [Next]_vars
  PROVE  Tables'
<1>0. \A g \in Gateways : IsInjective(nodesOf[g])
  BY DEF Tables, ReadingGatewayKnown
<1>s. Clients \subseteq Sessions /\ Gateways \subseteq Sessions
  BY DEF Sessions
<1>1. ASSUME NEW c \in Clients, ClientOpen(c)
      PROVE  Tables'
  <2>1. /\ Range(clients)' = Range(clients) /\ Range(gateways)' = Range(gateways)
        /\ c \notin Gateways
    BY <1>1, DistinctSessions DEF ClientOpen
  <2>2. \A t \in Sessions : t # c => socket'[t] = socket[t]
    BY <1>1 DEF ClientOpen, TypeOK
  <2>3. socket'[c] = "open"
    BY <1>1, <1>s DEF ClientOpen, TypeOK
  <2>4. Range(clients) \subseteq Sessions
    BY DEF TypeOK, Range, Sessions
  <2> QED BY <1>1, <1>s, <2>1, <2>2, <2>3, <2>4 DEF ClientOpen, Tables,
        ClosedClientForgotten, ReadingGatewayKnown, UnusedGatewayUnlisted, Reading
<1>2. ASSUME NEW c \in Clients, ClientSendsNew(c)
      PROVE  Tables'
  <2>1. \A t \in Sessions : \/ socket'[t] = socket[t]
                            \/ Reading(t) /\ socket'[t] = "closing"
    BY <1>2, <1>s, AbortEffect DEF ClientSendsNew, ForwardToGateways
  <2>2. IsInjective(clients') /\ Range(clients') = Range(clients) \cup {c}
    <3>1. CASE c \in Range(clients)
      BY <1>2, <3>1 DEF ClientSendsNew, Tables, ClosedClientForgotten
    <3>2. CASE c \notin Range(clients)
      <4>1. clients \in Seq(Clients)
        BY DEF TypeOK
      <4> QED BY <1>2, <3>2, <4>1, AppendEntryProperties
              DEF ClientSendsNew, Tables, ClosedClientForgotten
    <3> QED BY <3>1, <3>2
  <2>3. gateways' = gateways /\ nodesOf' = nodesOf /\ Reading(c)
    BY <1>2 DEF ClientSendsNew
  <2>4. ClosedClientForgotten'
    <3>1. Range(clients) \subseteq Sessions
      BY DEF TypeOK, Range, Sessions
    <3>2. ASSUME NEW d \in Range(clients) \cup {c}
          PROVE  socket'[d] \in {"open", "rejected", "closing"}
      BY <1>s, <2>1, <2>3, <3>1 DEF Tables, ClosedClientForgotten, Reading
    <3> QED BY <2>2, <2>3, <3>2 DEF Tables, ClosedClientForgotten
  <2>5. ReadingGatewayKnown'
    BY <1>s, <2>1, <2>3 DEF Tables, ReadingGatewayKnown, Reading
  <2>6. UnusedGatewayUnlisted'
    BY <1>s, <2>1, <2>3 DEF Tables, UnusedGatewayUnlisted, Reading
  <2> QED BY <2>4, <2>5, <2>6 DEF Tables
<1>3. ASSUME NEW c \in Clients, NEW uid \in Uids, ClientSendsUpdate(c, uid)
      PROVE  Tables'
  <2>1. \A t \in Sessions : \/ socket'[t] = socket[t]
                            \/ Reading(t) /\ socket'[t] = "closing"
    BY <1>3, <1>s, AbortEffect DEF ClientSendsUpdate, ForwardToGateways
  <2> QED BY <1>0, <1>3, <2>1, TablesKept DEF ClientSendsUpdate
<1>4. ASSUME NEW c \in Clients, ClientOnClose(c)
      PROVE  Tables'
  <2>1. IsInjective(clients') /\ Range(clients') = Range(clients) \ {c}
    <3>1. clients \in Seq(Clients) /\ IsInjective(clients)
      BY DEF TypeOK, Tables, ClosedClientForgotten
    <3> QED BY <1>4, <3>1, WithoutProperties DEF ClientOnClose
  <2>2. gateways' = gateways /\ nodesOf' = nodesOf /\ c \notin Gateways
    BY <1>4, DistinctSessions DEF ClientOnClose
  <2>3. \A t \in Sessions : t # c => socket'[t] = socket[t]
    BY <1>4 DEF ClientOnClose, TypeOK
  <2>4. Range(clients) \subseteq Sessions
    BY DEF TypeOK, Range, Sessions
  <2> QED BY <1>s, <2>1, <2>2, <2>3, <2>4 DEF Tables,
        ClosedClientForgotten, ReadingGatewayKnown, UnusedGatewayUnlisted, Reading
<1>5. ASSUME NEW g \in Gateways, GatewayOpen(g)
      PROVE  Tables'
  <2>1. IsInjective(gateways') /\ Range(gateways') = Range(gateways) \cup {g}
    <3>1. gateways \in Seq(Gateways) /\ IsInjective(gateways) /\ g \notin Range(gateways)
      BY <1>5 DEF TypeOK, Tables, ClosedClientForgotten, UnusedGatewayUnlisted, GatewayOpen
    <3> QED BY <1>5, <3>1, AppendEntryProperties DEF GatewayOpen
  <2>2. clients' = clients /\ g \notin Clients
    BY <1>5, DistinctSessions DEF GatewayOpen
  <2>3. \A t \in Sessions : t # g => socket'[t] = socket[t]
    BY <1>5 DEF GatewayOpen, TypeOK
  <2>4. socket'[g] = "open"
    BY <1>5, <1>s DEF GatewayOpen, TypeOK
  <2>5. \A h \in Gateways : IsInjective(nodesOf'[h])
    BY <1>0, <1>5 DEF GatewayOpen, TypeOK, IsInjective
  <2>6. Range(clients) \subseteq Clients
    BY DEF TypeOK, Range
  <2> QED BY <1>s, <2>1, <2>2, <2>3, <2>4, <2>5, <2>6 DEF Tables,
        ClosedClientForgotten, ReadingGatewayKnown, UnusedGatewayUnlisted, Reading
<1>6. ASSUME NEW g \in Gateways, GatewayReads(g)
      PROVE  Tables'
  BY <1>0, <1>6, TablesKept DEF GatewayReads
<1>7. ASSUME NEW g \in Gateways, NEW uid \in Uids, NEW dst \in Clients \cup {All},
             GatewaySendsNew(g, uid, dst)
      PROVE  Tables'
  <2>1. \A t \in Sessions : \/ socket'[t] = socket[t]
                            \/ Reading(t) /\ socket'[t] = "closing"
    BY <1>7, <1>s, AbortEffect DEF GatewaySendsNew, WriteToClients
  <2>2. \A h \in Gateways : IsInjective(nodesOf'[h])
    <3>1. CASE uid \in Range(nodesOf[g])
      BY <1>0, <1>7, <3>1 DEF GatewaySendsNew, TypeOK
    <3>2. CASE uid \notin Range(nodesOf[g])
      <4>1. nodesOf[g] \in Seq(Uids)
        BY DEF TypeOK
      <4>2. IsInjective(Append(nodesOf[g], uid))
        BY <1>0, <3>2, <4>1, AppendEntryProperties
      <4> QED BY <1>0, <1>7, <3>2, <4>2 DEF GatewaySendsNew, TypeOK
    <3> QED BY <3>1, <3>2
  <2> QED BY <1>7, <2>1, <2>2, TablesKept DEF GatewaySendsNew
<1>8. ASSUME NEW g \in Gateways, NEW uid \in Uids, GatewaySendsOut(g, uid)
      PROVE  Tables'
  <2>1. \A t \in Sessions : \/ socket'[t] = socket[t]
                            \/ Reading(t) /\ socket'[t] = "closing"
    BY <1>8, <1>s, AbortEffect DEF GatewaySendsOut, WriteToClients
  <2>2. \A h \in Gateways : IsInjective(nodesOf'[h])
    <3>1. nodesOf[g] \in Seq(Uids)
      BY DEF TypeOK
    <3>2. IsInjective(Without(nodesOf[g], uid))
      BY <1>0, <3>1, WithoutProperties
    <3> QED BY <1>0, <1>8, <3>2 DEF GatewaySendsOut, TypeOK
  <2> QED BY <1>8, <2>1, <2>2, TablesKept DEF GatewaySendsOut
<1>9. ASSUME NEW g \in Gateways, NEW uid \in Uids, GatewaySendsReset(g, uid)
      PROVE  Tables'
  <2>1. \A t \in Sessions : \/ socket'[t] = socket[t]
                            \/ Reading(t) /\ socket'[t] = "closing"
    BY <1>9, <1>s, AbortEffect DEF GatewaySendsReset, WriteToClients
  <2> QED BY <1>0, <1>9, <2>1, TablesKept DEF GatewaySendsReset
<1>10. ASSUME NEW g \in Gateways, NEW uid \in Uids, NEW dst \in Clients \cup {All},
              GatewaySendsUpdate(g, uid, dst)
       PROVE  Tables'
  <2>1. \A t \in Sessions : \/ socket'[t] = socket[t]
                            \/ Reading(t) /\ socket'[t] = "closing"
    BY <1>10, <1>s, AbortEffect DEF GatewaySendsUpdate, WriteToClients
  <2> QED BY <1>0, <1>10, <2>1, TablesKept DEF GatewaySendsUpdate
<1>11. ASSUME NEW g \in Gateways, GatewayOnClose(g)
       PROVE  Tables'
  <2>1. IsInjective(gateways') /\ Range(gateways') = Range(gateways) \ {g}
    <3>1. gateways \in Seq(Gateways) /\ IsInjective(gateways)
      BY DEF TypeOK, Tables, ClosedClientForgotten
    <3> QED BY <1>11, <3>1, WithoutProperties DEF GatewayOnClose
  <2>2. clients' = clients /\ nodesOf' = nodesOf /\ g \notin Clients
    BY <1>11, DistinctSessions DEF GatewayOnClose
  <2>3. /\ \A t \in Sessions : t # g => socket'[t] = socket[t]
        /\ socket'[g] = "closed"
    BY <1>11, <1>s DEF GatewayOnClose, TypeOK
  <2>4. Range(clients) \subseteq Clients
    BY DEF TypeOK, Range
  <2> QED BY <1>s, <2>1, <2>2, <2>3, <2>4 DEF Tables,
        ClosedClientForgotten, ReadingGatewayKnown, UnusedGatewayUnlisted, Reading
<1>12. ASSUME NEW g \in Gateways, GatewayOnCloseFails(g)
       PROVE  Tables'
  <2>1. /\ Range(clients)' = Range(clients) /\ Range(gateways)' = Range(gateways)
        /\ clients' = clients /\ gateways' = gateways /\ nodesOf' = nodesOf
        /\ g \notin Clients
    BY <1>12, DistinctSessions DEF GatewayOnCloseFails
  <2>2. /\ \A t \in Sessions : t # g => socket'[t] = socket[t]
        /\ socket'[g] = "closed"
    BY <1>12, <1>s DEF GatewayOnCloseFails, TypeOK
  <2>3. Range(clients) \subseteq Clients
    BY DEF TypeOK, Range
  <2> QED BY <1>s, <2>1, <2>2, <2>3 DEF Tables,
        ClosedClientForgotten, ReadingGatewayKnown, UnusedGatewayUnlisted, Reading
<1>13. ASSUME NEW s \in Sessions, PeerGone(s) \/ RejectMessage(s)
       PROVE  Tables'
  <2>1. \A t \in Sessions : \/ socket'[t] = socket[t]
                            \/ Reading(t) /\ socket'[t] \in {"closing", "rejected"}
    BY <1>13 DEF PeerGone, RejectMessage, TypeOK
  <2> QED BY <1>0, <1>13, <2>1, TablesKept DEF PeerGone, RejectMessage
<1>14. CASE UNCHANGED vars
  BY <1>0, <1>14, TablesKept DEF vars
<1> QED
  BY <1>1, <1>2, <1>3, <1>4, <1>5, <1>6, <1>7, <1>8, <1>9, <1>10, <1>11,
     <1>12, <1>13, <1>14 DEF Next

-----------------------------------------------------------------------------
(***************************************************************************)
(* No ghosts.                                                              *)
(***************************************************************************)

\* What one write loop does to the views: only registered clients are
\* written to, and all those of the loop if no write raises.
LEMMA WriteEffect ==
  ASSUME TypeOK, NEW g \in Gateways, NEW ws \in Seq(Clients), NEW m,
         Range(ws) \subseteq Range(clients), WriteToClients(g, ws, m)
  PROVE  /\ \A c \in Clients : \/ display'[c] = display[c]
                               \/ /\ c \in Range(clients)
                                  /\ display'[c] = Receive(display[c], m)
         /\ ~Raises(ws) =>
              \A c \in Range(ws) \cap Clients : display'[c] = Receive(display[c], m)
BY WrittenProperties DEF WriteToClients, TypeOK

\* Steps that show no node which was not shown, or is not listed, and take
\* no listed node from the table.
LEMMA GhostsKept ==
  ASSUME TypeOK, UnregisteredShowsNothing, NoGhostNode,
         clients' = clients, AllListed \subseteq AllListed', missed \subseteq missed',
         \A c \in Clients : socket[c] = "closed" => socket'[c] = "closed",
         \A c \in Clients : \/ Displayed(display'[c]) \subseteq Displayed(display[c])
                            \/ /\ c \in Range(clients)
                               /\ Displayed(display'[c]) \subseteq
                                    Displayed(display[c]) \cup AllListed'
  PROVE  UnregisteredShowsNothing' /\ NoGhostNode'
<1>1. Range(clients) \subseteq Clients /\ Range(clients)' = Range(clients)
  BY DEF TypeOK, Range
<1>2. UnregisteredShowsNothing'
  BY <1>1 DEF UnregisteredShowsNothing
<1>3. NoGhostNode'
  BY <1>1 DEF NoGhostNode, AllListed
<1> QED BY <1>2, <1>3

LEMMA GhostsStep ==
  ASSUME TypeOK, Tables, UnregisteredShowsNothing, NoGhostNode, [Next]_vars
  PROVE  UnregisteredShowsNothing' /\ NoGhostNode'
<1>s. Clients \subseteq Sessions /\ Gateways \subseteq Sessions
  BY DEF Sessions
<1>r. Range(clients) \subseteq Clients /\ clients \in Seq(Clients)
  BY DEF TypeOK, Range
<1>v. \A c \in Clients : display[c] \in Views
  BY DEF TypeOK, Views
<1>1. ASSUME NEW c \in Clients, ClientOpen(c)
      PROVE  UnregisteredShowsNothing' /\ NoGhostNode'
  BY <1>1, <1>s, GhostsKept DEF ClientOpen, AllListed, Listed, TypeOK
<1>2. ASSUME NEW c \in Clients, ClientSendsNew(c)
      PROVE  UnregisteredShowsNothing' /\ NoGhostNode'
  <2>1. Range(clients') = Range(clients) \cup {c}
    BY <1>2, <1>r, AppendEntryProperties DEF ClientSendsNew
  <2>2. \A t \in Sessions : \/ socket'[t] = socket[t]
                            \/ Reading(t) /\ socket'[t] = "closing"
    BY <1>2, <1>s, AbortEffect DEF ClientSendsNew, ForwardToGateways
  <2>3. UNCHANGED <<gateways, nodesOf, display, missed>> /\ Reading(c)
    BY <1>2 DEF ClientSendsNew
  <2>4. c \in Range(clients) \/ Displayed(display[c]) = {}
    BY <2>3 DEF UnregisteredShowsNothing, Reading
  <2>5. UnregisteredShowsNothing'
    BY <1>s, <2>1, <2>2, <2>3 DEF UnregisteredShowsNothing, Reading
  <2>6. NoGhostNode'
    BY <2>1, <2>3, <2>4 DEF NoGhostNode, AllListed, Listed
  <2> QED BY <2>5, <2>6
<1>3. ASSUME NEW c \in Clients, NEW uid \in Uids, ClientSendsUpdate(c, uid)
      PROVE  UnregisteredShowsNothing' /\ NoGhostNode'
  <2>1. \A t \in Sessions : \/ socket'[t] = socket[t]
                            \/ Reading(t) /\ socket'[t] = "closing"
    BY <1>3, <1>s, AbortEffect DEF ClientSendsUpdate, ForwardToGateways
  <2>2. UNCHANGED <<clients, gateways, nodesOf, display, missed>>
    BY <1>3 DEF ClientSendsUpdate
  <2>3. AllListed' = AllListed
    BY <2>2 DEF AllListed, Listed
  <2> QED BY <1>s, <2>1, <2>2, <2>3, GhostsKept DEF Reading
<1>4. ASSUME NEW c \in Clients, ClientOnClose(c)
      PROVE  UnregisteredShowsNothing' /\ NoGhostNode'
  <2>1. Range(clients') = Range(clients) \ {c}
    BY <1>4, <1>r, WithoutProperties DEF ClientOnClose, Tables, ClosedClientForgotten
  <2>2. UNCHANGED <<gateways, nodesOf, display, missed>>
    BY <1>4 DEF ClientOnClose
  <2>3. /\ \A d \in Clients : d # c => socket'[d] = socket[d]
        /\ socket'[c] = "closed"
    BY <1>4, <1>s DEF ClientOnClose, TypeOK
  <2>4. UnregisteredShowsNothing'
    BY <2>1, <2>2, <2>3 DEF UnregisteredShowsNothing
  <2>5. NoGhostNode'
    BY <2>1, <2>2 DEF NoGhostNode, AllListed, Listed
  <2> QED BY <2>4, <2>5
<1>5. ASSUME NEW g \in Gateways, GatewayOpen(g)
      PROVE  UnregisteredShowsNothing' /\ NoGhostNode'
  <2>1. g \notin Range(gateways)
    BY <1>5 DEF Tables, UnusedGatewayUnlisted, GatewayOpen
  <2>2. Range(gateways') = Range(gateways) \cup {g}
    BY <1>5, AppendEntryProperties DEF GatewayOpen, TypeOK
  <2>3. \A h \in Gateways : h # g => nodesOf'[h] = nodesOf[h]
    BY <1>5 DEF GatewayOpen, TypeOK
  <2>4. Range(gateways) \subseteq Gateways
    BY DEF TypeOK, Range
  <2>5. AllListed \subseteq AllListed'
    BY <2>1, <2>2, <2>3, <2>4 DEF AllListed, Listed
  <2> QED BY <1>5, <1>s, <2>5, GhostsKept DEF GatewayOpen, TypeOK
<1>6. ASSUME NEW g \in Gateways, GatewayReads(g)
      PROVE  UnregisteredShowsNothing' /\ NoGhostNode'
  BY <1>6, GhostsKept DEF GatewayReads, AllListed, Listed
<1>7. ASSUME NEW g \in Gateways, NEW uid \in Uids, NEW dst \in Clients \cup {All},
             GatewaySendsNew(g, uid, dst)
      PROVE  UnregisteredShowsNothing' /\ NoGhostNode'
  <2>1. \A t \in Sessions : \/ socket'[t] = socket[t]
                            \/ Reading(t) /\ socket'[t] = "closing"
    BY <1>7, <1>s, AbortEffect DEF GatewaySendsNew, WriteToClients
  <2>2. UNCHANGED <<clients, gateways, missed>>
    BY <1>7 DEF GatewaySendsNew
  <2>3. g \in Range(gateways)
    BY <1>7 DEF GatewaySendsNew, Tables, ReadingGatewayKnown
  <2>4. /\ \A h \in Gateways : Listed(h) \subseteq Listed(h)'
        /\ uid \in Listed(g)'
    <3>1. nodesOf[g] \in Seq(Uids)
      BY DEF TypeOK
    <3>2. Range(Append(nodesOf[g], uid)) = Range(nodesOf[g]) \cup {uid}
      BY <3>1, AppendEntryProperties
    <3> QED BY <1>7, <3>2 DEF GatewaySendsNew, Listed, TypeOK
  <2>5. AllListed \cup {uid} \subseteq AllListed'
    <3>1. Range(gateways) \subseteq Gateways
      BY DEF TypeOK, Range
    <3> QED BY <2>2, <2>3, <2>4, <3>1 DEF AllListed
  <2>6. \A c \in Clients : \/ display'[c] = display[c]
                           \/ /\ c \in Range(clients)
                              /\ display'[c] = Receive(display[c], NewNode(uid, dst))
    BY <1>7, RecipientsProperties, WriteEffect DEF GatewaySendsNew
  <2>7. \A c \in Clients : \/ display'[c] = display[c]
                           \/ /\ c \in Range(clients)
                              /\ Displayed(display'[c]) = Displayed(display[c]) \cup {uid}
    BY <1>v, <2>6, ReceiveDispatch, ReceiveProperties
  <2> QED BY <1>s, <2>1, <2>2, <2>5, <2>7, GhostsKept DEF Reading
<1>8. ASSUME NEW g \in Gateways, NEW uid \in Uids, GatewaySendsOut(g, uid)
      PROVE  UnregisteredShowsNothing' /\ NoGhostNode'
  <2>1. \A t \in Sessions : \/ socket'[t] = socket[t]
                            \/ Reading(t) /\ socket'[t] = "closing"
    BY <1>8, <1>s, AbortEffect DEF GatewaySendsOut, WriteToClients
  <2>2. clients' = clients /\ gateways' = gateways /\ missed \subseteq missed'
    BY <1>8 DEF GatewaySendsOut
  <2>3. \A h \in Gateways : Listed(h) \ {uid} \subseteq Listed(h)'
    <3>1. nodesOf[g] \in Seq(Uids) /\ IsInjective(nodesOf[g])
      BY DEF TypeOK, Tables, ReadingGatewayKnown
    <3>2. Range(Without(nodesOf[g], uid)) = Range(nodesOf[g]) \ {uid}
      BY <3>1, WithoutProperties
    <3> QED BY <1>8, <3>2 DEF GatewaySendsOut, Listed, TypeOK
  <2>4. AllListed \ {uid} \subseteq AllListed'
    <3>1. Range(gateways) \subseteq Gateways
      BY DEF TypeOK, Range
    <3> QED BY <2>2, <2>3, <3>1 DEF AllListed
  <2>5. /\ \A c \in Clients : \/ display'[c] = display[c]
                              \/ /\ c \in Range(clients)
                                 /\ display'[c] = Receive(display[c], OutNode(uid))
        /\ ~Raises(clients) =>
             \A c \in Range(clients) : display'[c] = Receive(display[c], OutNode(uid))
    BY <1>8, <1>r, WriteEffect DEF GatewaySendsOut
  <2>6. \A c \in Clients :
          Receive(display[c], OutNode(uid)) = ReceiveOut(display[c], uid)
    BY ReceiveDispatch
  <2>7. /\ \A c \in Clients : Displayed(display'[c]) \subseteq Displayed(display[c])
        /\ ~Raises(clients) =>
             \A c \in Range(clients) : uid \notin Displayed(display'[c])
    BY <1>r, <1>v, <2>5, <2>6, ReceiveProperties
  <2>8. UnregisteredShowsNothing'
    BY <1>s, <2>1, <2>2, <2>7 DEF UnregisteredShowsNothing, Reading
  <2>9. NoGhostNode'
    <3> SUFFICES ASSUME NEW c \in Range(clients), NEW v \in Displayed(display'[c])
                 PROVE  v \in AllListed' \cup missed'
      BY <2>2 DEF NoGhostNode, AllListed
    <3>1. v \in AllListed \cup missed
      BY <1>r, <2>7 DEF NoGhostNode, AllListed
    <3>2. CASE v # uid
      BY <2>2, <2>4, <3>1, <3>2
    <3>3. CASE v = uid
      BY <1>8, <2>7, <3>3 DEF GatewaySendsOut
    <3> QED BY <3>2, <3>3
  <2> QED BY <2>8, <2>9
<1>9. ASSUME NEW g \in Gateways, NEW uid \in Uids, GatewaySendsReset(g, uid)
      PROVE  UnregisteredShowsNothing' /\ NoGhostNode'
  <2>1. \A t \in Sessions : \/ socket'[t] = socket[t]
                            \/ Reading(t) /\ socket'[t] = "closing"
    BY <1>9, <1>s, AbortEffect DEF GatewaySendsReset, WriteToClients
  <2>2. UNCHANGED <<clients, gateways, nodesOf, missed>>
    BY <1>9 DEF GatewaySendsReset
  <2>3. AllListed' = AllListed
    BY <2>2 DEF AllListed, Listed
  <2>4. \A c \in Clients : \/ display'[c] = display[c]
                           \/ display'[c] = Receive(display[c], ResetNode(uid))
    BY <1>9, <1>r, WriteEffect DEF GatewaySendsReset
  <2>5. \A c \in Clients :
          Receive(display[c], ResetNode(uid)) = ReceiveReset(display[c], uid)
    BY ReceiveDispatch
  <2>6. \A c \in Clients : Displayed(display'[c]) = Displayed(display[c])
    BY <1>v, <2>4, <2>5, ReceiveProperties
  <2> QED BY <1>s, <2>1, <2>2, <2>3, <2>6, GhostsKept DEF Reading
<1>10. ASSUME NEW g \in Gateways, NEW uid \in Uids, NEW dst \in Clients \cup {All},
              GatewaySendsUpdate(g, uid, dst)
       PROVE  UnregisteredShowsNothing' /\ NoGhostNode'
  <2>1. \A t \in Sessions : \/ socket'[t] = socket[t]
                            \/ Reading(t) /\ socket'[t] = "closing"
    BY <1>10, <1>s, AbortEffect DEF GatewaySendsUpdate, WriteToClients
  <2>2. UNCHANGED <<clients, gateways, nodesOf, missed>>
    BY <1>10 DEF GatewaySendsUpdate
  <2>3. AllListed' = AllListed
    BY <2>2 DEF AllListed, Listed
  <2>4. \A c \in Clients : \/ display'[c] = display[c]
                           \/ display'[c] = Receive(display[c], UpdateNode(uid, dst))
    BY <1>10, RecipientsProperties, WriteEffect DEF GatewaySendsUpdate
  <2>5. \A c \in Clients : Displayed(display'[c]) = Displayed(display[c])
    BY <1>v, <2>4, ReceiveDispatch, ReceiveProperties
  <2> QED BY <1>s, <2>1, <2>2, <2>3, <2>5, GhostsKept DEF Reading
<1>11. ASSUME NEW g \in Gateways, GatewayOnClose(g)
       PROVE  UnregisteredShowsNothing' /\ NoGhostNode'
  <2>1. UNCHANGED <<clients, nodesOf, missed>>
    BY <1>11 DEF GatewayOnClose
  <2>2. \A c \in Clients : socket'[c] = socket[c]
    BY <1>11, <1>s, DistinctSessions DEF GatewayOnClose, TypeOK
  <2>3. /\ \A c \in Clients :
             Displayed(display'[c]) \subseteq Displayed(display[c])
        /\ \A c \in Range(clients) :
             Displayed(display'[c]) = Displayed(display[c]) \ Listed(g)
    BY <1>11, <1>r, <1>v, ReceiveOutsProperties DEF GatewayOnClose
  <2>4. Range(gateways') = Range(gateways) \ {g}
    BY <1>11, WithoutProperties DEF GatewayOnClose, TypeOK, Tables, ClosedClientForgotten
  <2>5. AllListed \ Listed(g) \subseteq AllListed'
    BY <2>1, <2>4 DEF AllListed, Listed
  <2>6. UnregisteredShowsNothing'
    BY <2>1, <2>2, <2>3 DEF UnregisteredShowsNothing
  <2>7. NoGhostNode'
    BY <2>1, <2>3, <2>5 DEF NoGhostNode
  <2> QED BY <2>6, <2>7
<1>12. ASSUME NEW g \in Gateways, GatewayOnCloseFails(g)
       PROVE  UnregisteredShowsNothing' /\ NoGhostNode'
  <2>1. UNCHANGED <<clients, gateways, nodesOf, missed>>
    BY <1>12 DEF GatewayOnCloseFails
  <2>2. \A c \in Clients : socket'[c] = socket[c]
    BY <1>12, <1>s, DistinctSessions DEF GatewayOnCloseFails, TypeOK
  <2>3. Head(nodesOf[g]) \in Uids
    BY <1>12 DEF GatewayOnCloseFails, TypeOK
  <2>4. \A c \in Clients : Displayed(display'[c]) \subseteq Displayed(display[c])
    BY <1>12, <1>v, <2>3, ReceiveProperties DEF GatewayOnCloseFails
  <2>5. AllListed' = AllListed
    BY <2>1 DEF AllListed, Listed
  <2> QED BY <2>1, <2>2, <2>4, <2>5, GhostsKept
<1>13. ASSUME NEW s \in Sessions, PeerGone(s) \/ RejectMessage(s)
       PROVE  UnregisteredShowsNothing' /\ NoGhostNode'
  <2>1. UNCHANGED <<clients, gateways, nodesOf, display, missed>>
    BY <1>13 DEF PeerGone, RejectMessage
  <2>2. \A c \in Clients : socket[c] = "closed" => socket'[c] = "closed"
    BY <1>13, <1>s DEF PeerGone, RejectMessage, Reading, TypeOK
  <2>3. AllListed' = AllListed
    BY <2>1 DEF AllListed, Listed
  <2> QED BY <2>1, <2>2, <2>3, GhostsKept
<1>14. CASE UNCHANGED vars
  BY <1>14, GhostsKept DEF vars, AllListed, Listed
<1> QED
  BY <1>1, <1>2, <1>3, <1>4, <1>5, <1>6, <1>7, <1>8, <1>9, <1>10, <1>11,
     <1>12, <1>13, <1>14 DEF Next

-----------------------------------------------------------------------------
(***************************************************************************)
(* The theorems.                                                           *)
(***************************************************************************)

LEMMA InvInit ==
  ASSUME Init
  PROVE  IInv
<1>1. Range(clients) = {} /\ Range(gateways) = {} /\ TypeOK
  BY TypeInit DEF Init, Range
<1>2. Tables
  BY <1>1 DEF Init, Tables, ClosedClientForgotten, ReadingGatewayKnown,
     UnusedGatewayUnlisted, IsInjective, Reading, Sessions
<1>3. UnregisteredShowsNothing
  BY DEF Init, UnregisteredShowsNothing, Displayed, EmptyView
<1>4. NoGhostNode
  BY <1>1 DEF NoGhostNode
<1> QED BY <1>1, <1>2, <1>3, <1>4 DEF IInv

\* The inductive invariant holds in every reachable state.
THEOREM Inductive == Spec => []IInv
<1>1. Init => IInv
  BY InvInit
<1>2. IInv /\ [Next]_vars => IInv'
  BY TypeStep, TablesStep, GhostsStep DEF IInv
<1> QED BY <1>1, <1>2, PTL DEF Spec

\* A client whose on_close has run is in no table, and the tables hold no
\* session twice (remove_ws, on_client_message, open).
THEOREM ClosedClientsForgotten == Spec => []ClosedClientForgotten
<1>1. IInv => ClosedClientForgotten
  BY DEF IInv, Tables
<1> QED BY <1>1, Inductive, PTL

\* A gateway whose messages are handled is in the table with each node
\* listed once: on_gateway_message never raises KeyError.
THEOREM ReadingGatewaysKnown == Spec => []ReadingGatewayKnown
<1>1. IInv => ReadingGatewayKnown
  BY DEF IInv, Tables
<1> QED BY <1>1, Inductive, PTL

\* No dashboard shows a node that no gateway of the table lists, unless the
\* broadcast of its "out" was cut short by a closing dashboard.
THEOREM NoGhostNodes == Spec => []NoGhostNode
<1>1. IInv => NoGhostNode
  BY DEF IInv
<1> QED BY <1>1, Inductive, PTL

-----------------------------------------------------------------------------
(***************************************************************************)
(* The step properties.                                                    *)
(***************************************************************************)

\* A message of a client reaches every gateway that can be written to, or
\* costs the client its connection (on_client_message).
THEOREM ForwardedToAll == Spec => ForwardedToAllOrDropped
<1>1. ASSUME TypeOK, Next
      PROVE  ForwardsToAllOrDrops
  <2>1. ASSUME NEW d \in Clients, NEW m \in ClientMessages(Clients, Uids), m.src = d, ForwardToGateways(d, m)
        PROVE  ForwardsToAllOrDrops
    <3> SUFFICES ASSUME NEW c \in Clients, NEW g \in Gateways,
                        Len(unread'[g]) > Len(unread[g]),
                        unread'[g][Len(unread'[g])].src = c
                 PROVE  \/ socket'[c] = "closing"
                        \/ \A h \in Range(gateways) :
                             Writable(h) => Len(unread'[h]) = Len(unread[h]) + 1
      BY DEF ForwardsToAllOrDrops
    <3>1. \A h \in Gateways :
            /\ unread[h] \in Seq(ClientMessages(Clients, Uids))
            /\ unread'[h] = IF h \in Written(gateways) THEN Append(unread[h], m)
                                                      ELSE unread[h]
      BY <1>1, <2>1 DEF ForwardToGateways, TypeOK
    <3>2. ASSUME NEW h \in Gateways, h \in Written(gateways)
          PROVE  /\ Len(unread'[h]) = Len(unread[h]) + 1
                 /\ unread'[h][Len(unread'[h])] = m
      <4>1. unread'[h] = Append(unread[h], m)
        BY <3>1, <3>2
      <4>2. /\ Len(Append(unread[h], m)) = Len(unread[h]) + 1
            /\ Append(unread[h], m)[Len(unread[h]) + 1] = m
        BY <3>1, AppendProperties
      <4> QED BY <4>1, <4>2
    <3>3. g \in Written(gateways)
      BY <3>1
    <3>4. c = d
      BY <2>1, <3>2, <3>3
    <3>5. CASE Raises(gateways)
      BY <1>1, <2>1, <3>4, <3>5 DEF ForwardToGateways, AbortIf, TypeOK, Sessions
    <3>6. CASE ~Raises(gateways)
      <4>1. Range(gateways) = Written(gateways) /\ Range(gateways) \subseteq Gateways
        BY <1>1, <3>6, WrittenProperties DEF TypeOK, Range
      <4> QED BY <3>2, <4>1
    <3> QED BY <3>5, <3>6
  <2>2. ASSUME NEW c \in Clients, ClientSendsNew(c)
        PROVE  ForwardsToAllOrDrops
    BY <2>1, <2>2 DEF ClientSendsNew, ClientNew, ClientMessages
  <2>3. ASSUME NEW c \in Clients, NEW uid \in Uids, ClientSendsUpdate(c, uid)
        PROVE  ForwardsToAllOrDrops
    BY <2>1, <2>3 DEF ClientSendsUpdate, ClientUpdate, ClientMessages
  <2>4. ASSUME NEW g \in Gateways,
               GatewayReads(g) \/ GatewayOnClose(g) \/ GatewayOnCloseFails(g)
        PROVE  ForwardsToAllOrDrops
    <3>1. \A h \in Gateways : \/ unread'[h] = unread[h]
                              \/ unread[h] # <<>> /\ unread'[h] = Tail(unread[h])
                              \/ unread'[h] = <<>>
      BY <1>1, <2>4 DEF GatewayReads, GatewayOnClose, GatewayOnCloseFails, TypeOK
    <3>2. \A h \in Gateways : unread[h] \in Seq(ClientMessages(Clients, Uids))
      BY <1>1 DEF TypeOK
    <3>3. ASSUME NEW h \in Gateways
          PROVE  ~(Len(unread'[h]) > Len(unread[h]))
      <4>1. unread[h] # <<>> => Len(Tail(unread[h])) = Len(unread[h]) - 1
        BY <3>2
      <4>2. Len(unread[h]) \in Nat /\ Len(<<>>) = 0
        BY <3>2
      <4>3. CASE unread'[h] = unread[h]
        BY <4>2, <4>3
      <4>4. CASE unread[h] # <<>> /\ unread'[h] = Tail(unread[h])
        BY <4>1, <4>2, <4>4
      <4>5. CASE unread'[h] = <<>>
        BY <4>2, <4>5
      <4> QED BY <3>1, <4>3, <4>4, <4>5
    <3> QED BY <3>3 DEF ForwardsToAllOrDrops
  <2>5. CASE unread' = unread
    <3>1. \A h \in Gateways : unread[h] \in Seq(ClientMessages(Clients, Uids))
      BY <1>1 DEF TypeOK
    <3>2. \A h \in Gateways : ~(Len(unread'[h]) > Len(unread[h]))
      BY <2>5, <3>1
    <3> QED BY <3>2 DEF ForwardsToAllOrDrops
  <2> QED
    BY <1>1, <2>2, <2>3, <2>4, <2>5 DEF Next, ClientOpen, ClientOnClose,
       GatewayOpen, GatewaySendsNew, GatewaySendsUpdate, GatewaySendsOut,
       GatewaySendsReset, PeerGone, RejectMessage
<1>2. TypeOK /\ [Next]_vars => [ForwardsToAllOrDrops]_vars
  BY <1>1
<1> QED BY <1>2, TypeCorrect, PTL DEF Spec, ForwardedToAllOrDropped

\* A node that leaves the table is gone from every dashboard that can be
\* written to, or its gateway is cut off (on_gateway_message, remove_ws).
THEOREM OutsReachAll == Spec => OutReachesAllOrDropped
<1>1. ASSUME IInv, Next
      PROVE  OutsReachAllOrDrop
  <2>r. Range(clients) \subseteq Clients /\ clients \in Seq(Clients)
    BY <1>1 DEF IInv, TypeOK, Range
  <2>v. \A c \in Clients : display[c] \in Views
    BY <1>1 DEF IInv, TypeOK, Views
  <2>1. ASSUME NEW g \in Gateways, NEW uid \in Uids, GatewaySendsOut(g, uid)
        PROVE  OutsReachAllOrDrop
    <3>1. \A h \in Gateways : Serves(h) \ Serves(h)' \subseteq
                                IF h = g THEN {uid} ELSE {}
      <4>1. nodesOf[g] \in Seq(Uids) /\ IsInjective(nodesOf[g])
        BY <1>1 DEF IInv, TypeOK, Tables, ReadingGatewayKnown
      <4>2. Range(Without(nodesOf[g], uid)) = Range(nodesOf[g]) \ {uid}
        BY <4>1, WithoutProperties
      <4> QED BY <1>1, <2>1, <4>2 DEF GatewaySendsOut, Serves, Listed, IInv, TypeOK
    <3>2. CASE Raises(clients)
      <4>1. socket'[g] = "closing"
        BY <1>1, <2>1, <3>2
        DEF GatewaySendsOut, WriteToClients, AbortIf, IInv, TypeOK, Sessions
      <4> QED BY <3>1, <4>1 DEF OutsReachAllOrDrop
    <3>3. CASE ~Raises(clients)
      <4>1. \A c \in Range(clients) : display'[c] = Receive(display[c], OutNode(uid))
        BY <1>1, <2>1, <2>r, <3>3, WriteEffect DEF GatewaySendsOut, IInv
      <4>2. \A c \in Range(clients) : display'[c] = ReceiveOut(display[c], uid)
        BY <4>1, ReceiveDispatch
      <4>3. \A c \in Range(clients) : uid \notin Displayed(display'[c])
        BY <2>r, <2>v, <4>2, ReceiveProperties
      <4> QED BY <3>1, <4>3 DEF OutsReachAllOrDrop
    <3> QED BY <3>2, <3>3
  <2>2. ASSUME NEW g \in Gateways, GatewayOnClose(g)
        PROVE  OutsReachAllOrDrop
    <3>1. Range(gateways') = Range(gateways) \ {g} /\ nodesOf' = nodesOf
      BY <1>1, <2>2, WithoutProperties
      DEF GatewayOnClose, IInv, TypeOK, Tables, ClosedClientForgotten
    <3>2. \A h \in Gateways : Serves(h) \ Serves(h)' \subseteq Listed(g)
      BY <3>1 DEF Serves, Listed
    <3>3. \A c \in Range(clients) : display'[c] = ReceiveOuts(display[c], Listed(g))
      BY <2>2, <2>r DEF GatewayOnClose
    <3>4. \A c \in Range(clients) :
            Displayed(display'[c]) = Displayed(display[c]) \ Listed(g)
      BY <2>r, <2>v, <3>3, ReceiveOutsProperties
    <3> QED BY <3>2, <3>4 DEF OutsReachAllOrDrop
  <2>3. ASSUME NEW g \in Gateways, GatewayOpen(g)
        PROVE  OutsReachAllOrDrop
    <3>1. g \notin Range(gateways)
      BY <1>1, <2>3 DEF IInv, Tables, UnusedGatewayUnlisted, GatewayOpen
    <3>2. Range(gateways') = Range(gateways) \cup {g}
      BY <1>1, <2>3, AppendEntryProperties DEF GatewayOpen, IInv, TypeOK
    <3>3. \A h \in Gateways : Serves(h) \subseteq Serves(h)'
      BY <1>1, <2>3, <3>1, <3>2 DEF GatewayOpen, Serves, Listed, IInv, TypeOK
    <3> QED BY <3>3 DEF OutsReachAllOrDrop
  <2>4. ASSUME NEW g \in Gateways, NEW uid \in Uids, NEW dst \in Clients \cup {All},
               GatewaySendsNew(g, uid, dst)
        PROVE  OutsReachAllOrDrop
    <3>1. Range(Append(nodesOf[g], uid)) = Range(nodesOf[g]) \cup {uid}
      BY <1>1, AppendEntryProperties DEF IInv, TypeOK
    <3>2. \A h \in Gateways : Serves(h) \subseteq Serves(h)'
      BY <1>1, <2>4, <3>1 DEF GatewaySendsNew, Serves, Listed, IInv, TypeOK
    <3> QED BY <3>2 DEF OutsReachAllOrDrop
  <2>5. CASE UNCHANGED <<gateways, nodesOf>>
    BY <2>5 DEF OutsReachAllOrDrop, Serves, Listed
  <2> QED
    BY <1>1, <2>1, <2>2, <2>3, <2>4, <2>5 DEF Next, ClientOpen, ClientSendsNew,
       ClientSendsUpdate, ClientOnClose, GatewayReads, GatewaySendsReset,
       GatewaySendsUpdate, GatewayOnCloseFails, PeerGone, RejectMessage
<1>2. IInv /\ [Next]_vars => [OutsReachAllOrDrop]_vars
  BY <1>1
<1> QED BY <1>2, Inductive, PTL DEF Spec, OutReachesAllOrDropped
=============================================================================
