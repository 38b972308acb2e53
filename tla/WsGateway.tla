----------------------------- MODULE WsGateway -----------------------------
(***************************************************************************)
(* The websocket gateway (pyaiot/gateway/ws/gateway.py): each device       *)
(* (utils/ws/ws_test_client.py) is a websocket, with a uid made up when it *)
(* opens.                                                                  *)
(*                                                                         *)
(* open calls the coroutine add_node and does not await it: no device is   *)
(* ever in the cache.  Whatever looks a device up there raises KeyError,   *)
(* and Tornado drops the connection whose message was being handled.       *)
(***************************************************************************)
EXTENDS Messaging

CONSTANT Sockets  \* connections of devices, each new; they stand for the uids

VARIABLES
  socket,   \* the state of each websocket, as in Broker
  mapping   \* the keys of node_mapping

vars == <<socket, mapping>>

\* self.nodes: add_node is where a node would enter it.
nodes == {}

Init == socket = [ws \in Sockets |-> "none"] /\ mapping = {}

SetTo(ws, state) == socket' = [socket EXCEPT ![ws] = state]

Opens(ws) ==
  /\ socket[ws] = "none"
  /\ SetTo(ws, "open")
  /\ mapping' = mapping \cup {ws}

PeerGone(ws) ==
  /\ socket[ws] \in {"open", "rejected"}
  /\ SetTo(ws, "closing")
  /\ UNCHANGED mapping

\* on_node_message raises: no "data", or no node to forward it from.
UpdateRaises(ws, raw) ==
  raw.type = "update" /\ ("data" \notin raw.has \/ ws \notin nodes)

\* on_message.  A device that follows init_node sends an update as soon as it
\* is connected.
Receives(ws, raw) ==
  /\ socket[ws] \in {"open", "rejected"}
  /\ CASE CheckMessage(raw) = "rejected" -> SetTo(ws, "rejected")
       [] CheckMessage(raw) = "raises"   -> SetTo(ws, "closing")
       [] OTHER -> IF UpdateRaises(ws, raw) THEN SetTo(ws, "closing")
                                            ELSE UNCHANGED socket
  /\ UNCHANGED mapping

\* on_close: remove_ws looks the node up before it pops the mapping.
OnClose(ws) ==
  /\ socket[ws] = "closing"
  /\ SetTo(ws, "closed")
  /\ mapping' = IF ws \in nodes THEN mapping \ {ws} ELSE mapping

Next ==
  \E ws \in Sockets :
    \/ Opens(ws) \/ PeerGone(ws) \/ OnClose(ws)
    \/ \E raw \in RawMessages : Receives(ws, raw)

Spec == Init /\ [][Next]_vars

(***************************************************************************)
(* What the docstrings promise and the code does not do (see README).      *)
(***************************************************************************)

\* ws/gateway.py:66, 115: on_close removes the websocket from the mapping.
ClosedNodeForgotten ==
  \A ws \in Sockets : socket[ws] = "closed" => ws \notin mapping
=============================================================================
