---------------------------- MODULE GatewayBase ----------------------------
(***************************************************************************)
(* What every gateway shares (pyaiot/gateway/common/gateway.py): the cache *)
(* of nodes, the connection to the broker and the task that keeps it.      *)
(*                                                                         *)
(* The gateway is one event loop.  Its reconnection task runs beside the   *)
(* handlers of the protocol (see CoapGateway), is suspended at each await, *)
(* and has no handler for what the code it calls may raise: an exception   *)
(* ends it for good.                                                       *)
(*                                                                         *)
(* The broker's side of the connection is kept as told: for each node, the *)
(* broker lists it for this session or not, and the last value that was    *)
(* broadcast for it.  A node has one resource; the two that every node     *)
(* gets on creation (ip or id, protocol) never differ and are left out.    *)
(***************************************************************************)
EXTENDS Naturals, Sequences, Messaging

CONSTANTS
  Uids,      \* node uids
  Values,    \* resource values; the text of a request's error is one of them
  NonAscii,  \* the values that str.encode('ascii') refuses
  Pages,     \* dashboards
  MaxInbox   \* bound: messages received from the broker and not read yet

ASSUME ValuesAreNotStates == Values \cap {"absent", "blank"} = {}
ASSUME NonAsciiAreValues  == NonAscii \subseteq Values
ASSUME MaxInboxIsNat      == MaxInbox \in Nat

VARIABLES
  cache,     \* self.nodes: absent, blank (a Node without data) or its value
  older,     \* its insertion order: <<u, v>> when u comes before v
  conn,      \* self.broker: None, an open connection, or a closed one
  loop,      \* where create_broker_connection is suspended
  inbox,     \* the connection's queue of received messages
  put,       \* the update_node_resource awaited by on_broker_message, if any
  told,      \* what the broker was told in this session (see above)
  diverged   \* history: nodes whose last broadcast value was written to a
             \* Node that is no longer the one in the cache

baseVars == <<cache, older, conn, loop, inbox, put, told, diverged>>

NodeStates == {"absent", "blank"} \cup Values

nodes == {uid \in Uids : cache[uid] # "absent"}

-----------------------------------------------------------------------------
(***************************************************************************)
(* send_to_broker: nothing happens without a connection, a closed          *)
(* connection raises WebSocketClosedError.                                 *)
(***************************************************************************)
SendRaises == conn = "lost"

\* What the broker knows once it has handled a message of this session.
AfterNew(uid) ==
  [told EXCEPT ![uid] = IF conn = "open" /\ @ = "absent" THEN "blank" ELSE @]

AfterUpdate(uid, v) ==
  [told EXCEPT ![uid] = IF conn = "open" /\ @ # "absent" THEN v ELSE @]

\* Mutant: a node is removed without "out".
AfterOut_NotSent(uids) == told

AfterOut(uids) == [uid \in Uids |-> IF uid \in uids THEN "absent" ELSE told[uid]]

\* Mutant: nothing is sent on a new connection.
AfterFetch_NotSent == told

\* fetch_nodes_cache('all') on a new connection.
AfterFetch == cache

\* fetch_nodes_cache(page): the broker lists the nodes, one page is updated.
AfterFetchFor ==
  [uid \in Uids |-> IF conn = "open" /\ uid \in nodes /\ told[uid] = "absent"
                      THEN "blank" ELSE told[uid]]

(***************************************************************************)
(* add_node, up to the await of discover_node; a Node in the cache under   *)
(* the same uid is replaced, with its data.                                *)
(***************************************************************************)
AddNode(uid) ==
  /\ cache' = [cache EXCEPT ![uid] = "blank"]
  /\ older' = IF uid \in nodes THEN older ELSE older \cup (nodes \X {uid})
  /\ told'  = AfterNew(uid)

\* Mutant: the value is cached but not sent.
ForwardData_NotSent(uid, v, current) ==
  /\ cache' = [cache EXCEPT ![uid] = IF current THEN v ELSE @]
  /\ UNCHANGED <<told, diverged, older>>

(***************************************************************************)
(* forward_data_from_node.  current says whether the Node it is called     *)
(* with is the one in the cache: a task that was suspended in between      *)
(* holds the Node it started with.                                         *)
(***************************************************************************)
ForwardData(uid, v, current) ==
  /\ cache'    = [cache EXCEPT ![uid] = IF current THEN v ELSE @]
  /\ told'     = AfterUpdate(uid, v)
  /\ diverged' = IF told[uid] = "absent" THEN diverged
                 ELSE IF current THEN diverged \ {uid} ELSE diverged \cup {uid}
  /\ UNCHANGED older

\* The Nodes of uids leave the cache: a pending request holds a stale one.
PutAfterReplacing(uids) ==
  {[p EXCEPT !.current = @ /\ p.uid \notin uids] : p \in put}

-----------------------------------------------------------------------------
BaseInit ==
  /\ cache    = [uid \in Uids |-> "absent"]
  /\ older    = {}
  /\ conn     = "none"
  /\ loop     = "connecting"
  /\ inbox    = <<>>
  /\ put      = {}
  /\ told     = [uid \in Uids |-> "absent"]
  /\ diverged = {}

(***************************************************************************)
(* create_broker_connection, from one await to the next.                   *)
(***************************************************************************)

\* websocket_connect succeeds; the cache is sent to everyone.
Connected ==
  /\ loop = "connecting"
  /\ conn' = "open"
  /\ loop' = "reading"
  /\ told' = AfterFetch
  /\ UNCHANGED <<cache, older, inbox, put, diverged>>

\* It succeeds, and the connection is closed before the task runs again:
\* sending the cache raises.
ConnectedThenLost ==
  /\ loop = "connecting"
  /\ conn' = "lost"
  /\ loop' = IF nodes = {} THEN "reading" ELSE "dead"
  /\ UNCHANGED <<cache, older, inbox, put, told, diverged>>

ConnectionRefused ==
  /\ loop  = "connecting"
  /\ loop' = "sleeping"
  /\ UNCHANGED <<cache, older, conn, inbox, put, told, diverged>>

\* Any failure that is no ConnectionRefusedError (an unreachable host, a
\* refused token) is not caught.
ConnectionFails ==
  /\ loop  = "connecting"
  /\ loop' = "dead"
  /\ UNCHANGED <<cache, older, conn, inbox, put, told, diverged>>

SleepEnds ==
  /\ loop  = "sleeping"
  /\ loop' = "connecting"
  /\ UNCHANGED <<cache, older, conn, inbox, put, told, diverged>>

\* Mutant: None is taken for a message to ignore.
ReadNone_Ignored ==
  /\ loop = "reading" /\ conn = "lost" /\ inbox = <<>>
  /\ UNCHANGED baseVars

\* read_message returns None: closed, and every message has been read.
ReadNone ==
  /\ loop = "reading" /\ conn = "lost" /\ inbox = <<>>
  /\ loop' = "sleeping"
  /\ UNCHANGED <<cache, older, conn, inbox, put, told, diverged>>

(***************************************************************************)
(* on_broker_message.                                                      *)
(***************************************************************************)
Reads(m) == loop = "reading" /\ inbox # <<>> /\ m = Head(inbox)

\* A page opened: it gets the cache.
ReadNew(page) ==
  /\ Reads(ClientNew(page))
  /\ inbox' = Tail(inbox)
  /\ loop'  = IF SendRaises /\ nodes # {} THEN "dead" ELSE "reading"
  /\ told'  = AfterFetchFor
  /\ UNCHANGED <<cache, older, conn, put, diverged>>

ValueUpdate(uid, v) == [type |-> "update", uid |-> uid, value |-> v]

\* Mutant: the task waits for the node to be announced.
ReadUpdateUnknown_Waits(uid, v) ==
  /\ Reads(ValueUpdate(uid, v))
  /\ uid \notin nodes
  /\ UNCHANGED baseVars

\* A user operates a node of another gateway, or one that is gone.
ReadUpdateUnknown(uid, v) ==
  /\ Reads(ValueUpdate(uid, v))
  /\ uid \notin nodes
  /\ inbox' = Tail(inbox)
  /\ UNCHANGED <<cache, older, conn, loop, put, told, diverged>>

(***************************************************************************)
(* The connection, seen from the broker.                                   *)
(***************************************************************************)
BrokerMessages ==
  {ClientNew(page) : page \in Pages}
    \cup {ValueUpdate(uid, v) : uid \in Uids, v \in Values}

Pending(page) == \E i \in DOMAIN inbox : inbox[i] = ClientNew(page)

\* A page asks once, when it opens (bounds: MaxInbox, and it is another page
\* only when the last one has been answered).
MessageArrives(m) ==
  /\ conn = "open"
  /\ Len(inbox) < MaxInbox
  /\ \A page \in Pages : m = ClientNew(page) => ~Pending(page)
  /\ inbox' = Append(inbox, m)
  /\ UNCHANGED <<cache, older, conn, loop, put, told, diverged>>

\* The broker stops, or the network fails: the last messages may be lost,
\* and the broker outs the nodes of the session.
ConnectionLost ==
  /\ conn = "open"
  /\ conn'  = "lost"
  /\ told'  = [uid \in Uids |-> "absent"]
  /\ \E k \in 0..Len(inbox) : inbox' = SubSeq(inbox, 1, k)
  /\ diverged' = {}
  /\ UNCHANGED <<cache, older, loop, put>>

-----------------------------------------------------------------------------
BaseTypeOK ==
  /\ cache \in [Uids -> NodeStates]
  /\ older \subseteq Uids \X Uids
  /\ conn  \in {"none", "open", "lost"}
  /\ loop  \in {"connecting", "sleeping", "reading", "putting", "dead"}
  /\ inbox \in Seq(BrokerMessages)
  /\ put \subseteq [uid : Uids, value : Values, current : BOOLEAN]
  /\ told \in [Uids -> NodeStates]
  /\ diverged \subseteq Uids
=============================================================================
