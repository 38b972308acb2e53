--------------------------- MODULE NodeDirectory ---------------------------
(***************************************************************************)
(* What a gateway and the broker promise together: while the gateway is    *)
(* connected, the broker lists its nodes, neither more nor less; when the  *)
(* connection is gone, none of them.  How the connection is made, what is  *)
(* sent over it and when is left to the specifications that implement this.*)
(***************************************************************************)
CONSTANT Uids

VARIABLES
  nodes,      \* the nodes of the gateway
  listed,     \* the nodes the broker lists for the gateway
  connected

vars == <<nodes, listed, connected>>

Init == nodes = {} /\ listed = {} /\ connected = FALSE

\* The list follows the nodes for as long as there is a connection.
Follows(joining, leaving) ==
  /\ nodes'  = (nodes \cup joining) \ leaving
  /\ listed' = IF connected THEN (listed \cup joining) \ leaving ELSE listed
  /\ UNCHANGED connected

Join(uid) == uid \notin nodes /\ Follows({uid}, {})

\* Nodes leave one by one or several at once.
Leave(uids) == uids # {} /\ uids \subseteq nodes /\ Follows({}, uids)

Connect ==
  /\ ~connected
  /\ connected' = TRUE
  /\ listed' = nodes
  /\ UNCHANGED nodes

Disconnect ==
  /\ connected
  /\ connected' = FALSE
  /\ listed' = {}
  /\ UNCHANGED nodes

Next ==
  \/ \E uid \in Uids : Join(uid)
  \/ \E uids \in SUBSET Uids : Leave(uids)
  \/ Connect
  \/ Disconnect

Spec == Init /\ [][Next]_vars
=============================================================================
