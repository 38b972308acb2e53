----------------------------- MODULE Messaging -----------------------------
(***************************************************************************)
(* The service messages of pyaiot (pyaiot/common/messaging.py).            *)
(*                                                                         *)
(* On the wire a message is a JSON object; here it is the record with the  *)
(* same keys.  Resource values and client payloads are left out: the       *)
(* properties tell messages apart by type, node and addressee only.        *)
(***************************************************************************)

\* The "dst" of a message meant for every client.
All == "all"

(***************************************************************************)
(* What a gateway sends to the broker.                                     *)
(***************************************************************************)
NewNode(uid, dst)    == [type |-> "new",    uid |-> uid, dst |-> dst]
OutNode(uid)         == [type |-> "out",    uid |-> uid]
ResetNode(uid)       == [type |-> "reset",  uid |-> uid]
UpdateNode(uid, dst) == [type |-> "update", uid |-> uid, dst |-> dst]

(***************************************************************************)
(* What a dashboard sends to the broker and the broker hands on to the     *)
(* gateways once it has stamped it with the uid of the connection: "new"   *)
(* when the page opens, "update" when the user operates a node.            *)
(***************************************************************************)
ClientNew(src)         == [type |-> "new",    src |-> src]
ClientUpdate(src, uid) == [type |-> "update", src |-> src, uid |-> uid]

ClientMessages(srcs, uids) ==
  {ClientNew(src) : src \in srcs}
    \cup {ClientUpdate(src, uid) : src \in srcs, uid \in uids}

(***************************************************************************)
(* check_message, which dashboards, gateways and websocket nodes have to   *)
(* pass.  Of a raw message it tells apart what json.loads makes of it (a   *)
(* "sequence" is a string or an array), which of "type" and "data" it      *)
(* contains, and the value of its "type".                                  *)
(***************************************************************************)
Types == {"new", "update", "out", "reset"}

RawMessages ==
  [json : {"not utf-8", "not json", "null", "scalar", "sequence", "object"},
   has  : SUBSET {"type", "data"},
   type : Types \cup {"other"}]

\* What passes is an object of a known type.  Not everything else is rejected:
\* a sequence that contains one of the words and an object without "type"
\* raise TypeError and KeyError.
CheckMessage(raw) ==
  CASE raw.json = "not utf-8"                        -> "raises"
    [] raw.json \in {"not json", "null", "scalar"}   -> "rejected"
    [] raw.has = {}                                  -> "rejected"
    [] raw.json = "sequence" \/ "type" \notin raw.has -> "raises"
    [] raw.type \notin Types                         -> "rejected"
    [] OTHER                                         -> "accepted"
=============================================================================
