------------------------------- MODULE Broker -------------------------------
(***************************************************************************)
(* The broker (pyaiot/broker/broker.py): websocket sessions of dashboards  *)
(* (handler /ws) and of gateways (handler /gw), the table of each, and the *)
(* routing of messages between them.                                       *)
(*                                                                         *)
(* The broker runs on one event loop: each handler is atomic.  What makes  *)
(* it hard is that a websocket starts to close before its on_close runs:   *)
(* in between it is still in its table, and writing to it raises           *)
(* WebSocketClosedError in the middle of whichever handler does the write. *)
(* Tornado then drops the connection whose message was being handled.      *)
(*                                                                         *)
(* A websocket is lossless and ordered while it is open, so what a         *)
(* dashboard shows once it has read everything written to it is a function *)
(* of the messages written: display[c] is that view, advanced when the     *)
(* message is written.                                                     *)
(***************************************************************************)
EXTENDS Naturals, Sequences, Functions, Messaging, Dashboard

CONSTANTS
  Clients,   \* dashboard connections: each page load is a new one (uuid4)
  Gateways,  \* gateway connections: each reconnection is a new one
  Uids,      \* node uids
  MaxUnread  \* bound: messages to a gateway it has not read yet

ASSUME DistinctSessions == Clients \cap Gateways = {}
ASSUME AllIsNoClient    == All \notin Clients
ASSUME MaxUnreadIsNat   == MaxUnread \in Nat

Sessions == Clients \cup Gateways

VARIABLES
  socket,     \* the state of each websocket
  clients,    \* Broker.clients: uids in the order they were inserted
  gateways,   \* Broker.gateways: its keys in the order they were inserted
  nodesOf,    \* Broker.gateways: the node uids listed for each gateway
  display,    \* what each dashboard shows (see above)
  unread,     \* messages written to each gateway and not read by it yet
  missed      \* history: the nodes whose "out" was cut short by a failing
              \* write and did not go to every registered client

vars == <<socket, clients, gateways, nodesOf, display, unread, missed>>

(***************************************************************************)
(* Sockets.  "rejected": on_message called close(1003), writing raises but *)
(* messages that arrive are still handled.  "closing": the stream is       *)
(* closed and on_close is scheduled.  "closed": on_close has run.          *)
(***************************************************************************)
SocketStates == {"none", "open", "rejected", "closing", "closed"}

Reading(s)  == socket[s] \in {"open", "rejected"}
Writable(s) == socket[s] = "open"

\* The websockets a loop over ws writes to before one of them raises.
Written(ws) ==
  {ws[i] : i \in {j \in DOMAIN ws : \A k \in 1..j : Writable(ws[k])}}

\* Such a loop raises WebSocketClosedError.
Raises(ws) == \E s \in Range(ws) : ~Writable(s)

\* Mutant: the exception is swallowed, the rest of the loop is lost.
AbortIf_Swallowed(failed, s) == socket' = socket

\* An exception in on_message makes Tornado abort that connection.
AbortIf(failed, s) ==
  socket' = IF failed THEN [socket EXCEPT ![s] = "closing"] ELSE socket

\* list.remove and dict.pop on a table in insertion order
Without(ws, s) ==
  IF \E i \in DOMAIN ws : ws[i] = s
    THEN LET i == CHOOSE i \in DOMAIN ws : ws[i] = s
         IN  SubSeq(ws, 1, i - 1) \o SubSeq(ws, i + 1, Len(ws))
    ELSE ws

Listed(g) == Range(nodesOf[g])

\* The nodes that some gateway of the table lists.
AllListed == UNION {Listed(g) : g \in Range(gateways)}

-----------------------------------------------------------------------------
Init ==
  /\ socket   = [s \in Sessions |-> "none"]
  /\ clients  = <<>>
  /\ gateways = <<>>
  /\ nodesOf  = [g \in Gateways |-> <<>>]
  /\ display  = [c \in Clients |-> EmptyView(Uids)]
  /\ unread   = [g \in Gateways |-> <<>>]
  /\ missed   = {}

(***************************************************************************)
(* The sessions.                                                           *)
(***************************************************************************)

\* A page connects.  It is in no table until it sends "new".
ClientOpen(c) ==
  /\ socket[c] = "none"
  /\ socket' = [socket EXCEPT ![c] = "open"]
  /\ UNCHANGED <<clients, gateways, nodesOf, display, unread, missed>>

\* A gateway whose token was accepted connects (a refused one gets no
\* session and changes nothing).
GatewayOpen(g) ==
  /\ socket[g] = "none"
  /\ socket'   = [socket EXCEPT ![g] = "open"]
  /\ gateways' = Append(gateways, g)
  /\ nodesOf'  = [nodesOf EXCEPT ![g] = <<>>]
  /\ UNCHANGED <<clients, display, unread, missed>>

\* on_message, of either handler, with a message check_message refuses.
RejectMessage(s) ==
  /\ Reading(s)
  /\ socket' = [socket EXCEPT ![s] = "rejected"]
  /\ UNCHANGED <<clients, gateways, nodesOf, display, unread, missed>>

\* The peer closes or is gone: Tornado closes the stream.
PeerGone(s) ==
  /\ Reading(s)
  /\ socket' = [socket EXCEPT ![s] = "closing"]
  /\ UNCHANGED <<clients, gateways, nodesOf, display, unread, missed>>

(***************************************************************************)
(* Messages of a client (Broker.on_client_message): "new" registers it;    *)
(* every message is then written to the gateways, in table order.          *)
(***************************************************************************)
\* Mutant: an early return after the first gateway.
ForwardToGateways_FirstOnly(c, m) ==
  /\ unread' = [g \in Gateways |-> IF gateways # <<>> /\ g = Head(gateways)
                                     THEN Append(unread[g], m)
                                     ELSE unread[g]]
  /\ UNCHANGED socket

ForwardToGateways(c, m) ==
  /\ unread' = [g \in Gateways |-> IF g \in Written(gateways)
                                     THEN Append(unread[g], m)
                                     ELSE unread[g]]
  /\ AbortIf(Raises(gateways), c)

ClientSendsNew(c) ==
  /\ Reading(c)
  /\ clients' = IF c \in Range(clients) THEN clients ELSE Append(clients, c)
  /\ ForwardToGateways(c, ClientNew(c))
  /\ UNCHANGED <<gateways, nodesOf, display, missed>>

ClientSendsUpdate(c, uid) ==
  /\ Reading(c)
  /\ ForwardToGateways(c, ClientUpdate(c, uid))
  /\ UNCHANGED <<clients, gateways, nodesOf, display, missed>>

\* The gateway process reads a message (bounded by MaxUnread, see Next).
GatewayReads(g) ==
  /\ unread[g] # <<>>
  /\ unread' = [unread EXCEPT ![g] = Tail(@)]
  /\ UNCHANGED <<socket, clients, gateways, nodesOf, display, missed>>

(***************************************************************************)
(* Messages of a gateway (Broker.on_gateway_message), one action per       *)
(* branch.  A write that raises leaves the effects of the earlier lines    *)
(* and costs the gateway its connection.                                   *)
(***************************************************************************)

\* Mutant: the registration of the addressee is not tested.
Recipients_Unchecked(dst) == IF dst = All THEN clients ELSE <<dst>>

\* broadcast for "all", send_to_client for a registered client, else nothing
Recipients(dst) ==
  IF dst = All THEN clients
               ELSE IF dst \in Range(clients) THEN <<dst>> ELSE <<>>

WriteToClients(g, ws, m) ==
  /\ display' = [c \in Clients |-> IF c \in Written(ws)
                                     THEN Receive(display[c], m)
                                     ELSE display[c]]
  /\ AbortIf(Raises(ws), g)

\* Mutants: the addressee is listed; the node is listed every time.
GatewaySendsNew_ListsDst(g, uid, dst) ==
  /\ Reading(g)
  /\ nodesOf' = [nodesOf EXCEPT ![g] = Append(@, dst)]
  /\ WriteToClients(g, Recipients(dst), NewNode(uid, dst))
  /\ UNCHANGED <<clients, gateways, unread, missed>>

GatewaySendsNew_ListsTwice(g, uid, dst) ==
  /\ Reading(g)
  /\ Len(nodesOf[g]) < 2
  /\ nodesOf' = [nodesOf EXCEPT ![g] = Append(@, uid)]
  /\ WriteToClients(g, Recipients(dst), NewNode(uid, dst))
  /\ UNCHANGED <<clients, gateways, unread, missed>>

GatewaySendsNew(g, uid, dst) ==
  /\ Reading(g)
  /\ nodesOf' = [nodesOf EXCEPT ![g] =
                   IF uid \in Range(@) THEN @ ELSE Append(@, uid)]
  /\ WriteToClients(g, Recipients(dst), NewNode(uid, dst))
  /\ UNCHANGED <<clients, gateways, unread, missed>>

GatewaySendsOut(g, uid) ==
  /\ Reading(g)
  /\ uid \in Listed(g)
  /\ nodesOf' = [nodesOf EXCEPT ![g] = Without(@, uid)]
  /\ WriteToClients(g, clients, OutNode(uid))
  /\ missed' = IF Raises(clients) THEN missed \cup {uid} ELSE missed
  /\ UNCHANGED <<clients, gateways, unread>>

GatewaySendsReset(g, uid) ==
  /\ Reading(g)
  /\ WriteToClients(g, clients, ResetNode(uid))
  /\ UNCHANGED <<clients, gateways, nodesOf, unread, missed>>

GatewaySendsUpdate(g, uid, dst) ==
  /\ Reading(g)
  /\ uid \in Listed(g)
  /\ WriteToClients(g, Recipients(dst), UpdateNode(uid, dst))
  /\ UNCHANGED <<clients, gateways, nodesOf, unread, missed>>

(***************************************************************************)
(* on_close (Broker.remove_ws).                                            *)
(***************************************************************************)
\* Mutant: remove_ws looks for the handler in a table keyed by uid.
ClientOnClose_NotFound(c) ==
  /\ socket[c] = "closing"
  /\ socket' = [socket EXCEPT ![c] = "closed"]
  /\ UNCHANGED <<clients, gateways, nodesOf, display, unread, missed>>

ClientOnClose(c) ==
  /\ socket[c] = "closing"
  /\ socket'  = [socket EXCEPT ![c] = "closed"]
  /\ clients' = Without(clients, c)
  /\ UNCHANGED <<gateways, nodesOf, display, unread, missed>>

\* Mutant: only the first node is broadcast as out.
GatewayOnClose_FirstNode(g) ==
  /\ socket[g] = "closing"
  /\ nodesOf[g] = <<>> \/ ~Raises(clients)
  /\ socket'   = [socket EXCEPT ![g] = "closed"]
  /\ display'  = [c \in Clients |->
                    IF c \in Range(clients) /\ nodesOf[g] # <<>>
                      THEN ReceiveOut(display[c], Head(nodesOf[g]))
                      ELSE display[c]]
  /\ gateways' = Without(gateways, g)
  /\ unread'   = [unread EXCEPT ![g] = <<>>]
  /\ UNCHANGED <<clients, nodesOf, missed>>

\* Mutant: the table entry is popped before the loop over its nodes.
GatewayOnClose_PopFirst(g) ==
  /\ socket[g] = "closing"
  /\ socket'   = [socket EXCEPT ![g] = "closed"]
  /\ gateways' = Without(gateways, g)
  /\ unread'   = [unread EXCEPT ![g] = <<>>]
  /\ UNCHANGED <<clients, nodesOf, display, missed>>

\* Every node of the gateway is broadcast as out, then the table entry is
\* popped.
GatewayOnClose(g) ==
  /\ socket[g] = "closing"
  /\ nodesOf[g] = <<>> \/ ~Raises(clients)
  /\ socket'   = [socket EXCEPT ![g] = "closed"]
  /\ display'  = [c \in Clients |-> IF c \in Range(clients)
                                      THEN ReceiveOuts(display[c], Listed(g))
                                      ELSE display[c]]
  /\ gateways' = Without(gateways, g)
  /\ unread'   = [unread EXCEPT ![g] = <<>>]
  /\ UNCHANGED <<clients, nodesOf, missed>>

\* The first broadcast raises: neither the other nodes nor the pop happen,
\* and on_close is never called again.
GatewayOnCloseFails(g) ==
  /\ socket[g] = "closing"
  /\ nodesOf[g] # <<>>
  /\ Raises(clients)
  /\ socket'  = [socket EXCEPT ![g] = "closed"]
  /\ display' = [c \in Clients |-> IF c \in Written(clients)
                                     THEN ReceiveOut(display[c], Head(nodesOf[g]))
                                     ELSE display[c]]
  /\ unread'  = [unread EXCEPT ![g] = <<>>]
  /\ UNCHANGED <<clients, gateways, nodesOf, missed>>

-----------------------------------------------------------------------------
\* A client sends only while no gateway has MaxUnread unread messages.
RoomToForward == \A g \in Gateways : Len(unread[g]) < MaxUnread

Next ==
  \/ \E c \in Clients :
       \/ ClientOpen(c)
       \/ RoomToForward /\ ClientSendsNew(c)
       \/ RoomToForward /\ \E uid \in Uids : ClientSendsUpdate(c, uid)
       \/ ClientOnClose(c)
  \/ \E g \in Gateways :
       \/ GatewayOpen(g)
       \/ GatewayReads(g)
       \/ \E uid \in Uids, dst \in Clients \cup {All} :
            GatewaySendsNew(g, uid, dst) \/ GatewaySendsUpdate(g, uid, dst)
       \/ \E uid \in Uids : GatewaySendsOut(g, uid) \/ GatewaySendsReset(g, uid)
       \/ GatewayOnClose(g)
       \/ GatewayOnCloseFails(g)
  \/ \E s \in Sessions : PeerGone(s) \/ RejectMessage(s)

Spec == Init /\ [][Next]_vars

-----------------------------------------------------------------------------
(***************************************************************************)
(* Properties.                                                             *)
(***************************************************************************)

\* The variables have their types.
TypeOK ==
  /\ socket   \in [Sessions -> SocketStates]
  /\ clients  \in Seq(Clients)
  /\ gateways \in Seq(Gateways)
  /\ nodesOf  \in [Gateways -> Seq(Uids)]
  /\ display  \in [Clients -> [Uids -> Cards]]
  /\ unread   \in [Gateways -> Seq(ClientMessages(Clients, Uids))]
  /\ missed   \subseteq Uids

\* Both tables hold a session at most once, and a client whose on_close has
\* run is in no table, whatever was written to it while it was closing: a
\* stale entry would make every later broadcast raise.
ClosedClientForgotten ==
  /\ IsInjective(clients)
  /\ IsInjective(gateways)
  /\ \A c \in Range(clients) : socket[c] \in {"open", "rejected", "closing"}

\* A gateway whose messages are still handled is in the table, with each of
\* its nodes listed once: self.gateways[ws] never raises KeyError, and one
\* "out" removes the node for good.
ReadingGatewayKnown ==
  \A g \in Gateways :
    /\ Reading(g) => g \in Range(gateways)
    /\ IsInjective(nodesOf[g])

\* No ghost: a node shown by a registered dashboard is listed for a gateway
\* of the table, unless the broadcast of its "out" was cut short.  Relates
\* the routing of "new" (list first, then write), the "out" of one gateway
\* while another lists the same node, and remove_ws.
NoGhostNode ==
  \A c \in Range(clients) :
    Displayed(display[c]) \subseteq AllListed \cup missed

ForwardsToAllOrDrops ==
  \A c \in Clients, g \in Gateways :
    (Len(unread'[g]) > Len(unread[g]) /\ unread'[g][Len(unread'[g])].src = c)
      => \/ socket'[c] = "closing"
         \/ \A h \in Range(gateways) :
              Writable(h) => Len(unread'[h]) = Len(unread[h]) + 1

\* A message of a client reaches every gateway that can be written to, or
\* the client is cut off: no dashboard stays connected after a request that
\* only some gateways got (it would miss the nodes of the others for ever).
ForwardedToAllOrDropped == [][ForwardsToAllOrDrops]_vars

\* The nodes the table holds for g.
Serves(g) == IF g \in Range(gateways) THEN Listed(g) ELSE {}

OutsReachAllOrDrop ==
  \A g \in Gateways : \A uid \in Serves(g) \ Serves(g)' :
    \/ socket'[g] = "closing"
    \/ \A c \in Range(clients) :
         Writable(c) => uid \notin Displayed(display'[c])

\* When a node leaves the table, by an "out" or with its gateway, every
\* registered dashboard that can be written to stops showing it, or the
\* gateway is cut off (and will announce its nodes again when it reconnects).
OutReachesAllOrDropped == [][OutsReachAllOrDrop]_vars

(***************************************************************************)
(* The inductive invariant behind ClosedClientForgotten,                   *)
(* ReadingGatewayKnown and NoGhostNode.  The two parts that are new say    *)
(* what joining a table brings with it: a gateway that never connected is  *)
(* not in the table already (so GatewayOpen empties no list), and a page   *)
(* shows no node before it is registered (messages only go to registered   *)
(* clients).                                                               *)
(***************************************************************************)
UnusedGatewayUnlisted ==
  \A g \in Gateways : socket[g] = "none" => g \notin Range(gateways)

UnregisteredShowsNothing ==
  \A c \in Clients \ Range(clients) :
    socket[c] # "closed" => Displayed(display[c]) = {}

Tables == ClosedClientForgotten /\ ReadingGatewayKnown /\ UnusedGatewayUnlisted

\* Inductive, and each invariant above is one of its conjuncts.
IInv == TypeOK /\ Tables /\ UnregisteredShowsNothing /\ NoGhostNode

(***************************************************************************)
(* What the docstrings promise and the code does not do (see README).      *)
(***************************************************************************)

\* broker.py:96, 225: on_close removes the websocket from the table.
ClosedGatewayForgotten ==
  \A g \in Gateways : socket[g] = "closed" => g \notin Range(gateways)
=============================================================================
