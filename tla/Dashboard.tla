----------------------------- MODULE Dashboard -----------------------------
(***************************************************************************)
(* The node list of the dashboard page, as receive_message maintains it    *)
(* (pyaiot/dashboard/static/dashboard.html).                               *)
(*                                                                         *)
(* A view maps every node uid to what the page shows of it: nothing, a     *)
(* card without data ("Discovering node..."), or a card with data.  Charts,*)
(* map markers and layout follow the card and are left out.                *)
(***************************************************************************)

Cards == {"absent", "blank", "data"}

EmptyView(uids) == [uid \in uids |-> "absent"]

Displayed(view) == {uid \in DOMAIN view : view[uid] # "absent"}

\* vm.nodes.push(new Node(node_uid)), unless the uid has a card already
ReceiveNew(view, uid) ==
  [view EXCEPT ![uid] = IF @ = "absent" THEN "blank" ELSE @]

\* vm.nodes.splice(index, 1): an unknown uid is ignored
ReceiveOut(view, uid) == [view EXCEPT ![uid] = "absent"]

\* The keys of the card's data are deleted, the card stays.
ReceiveReset(view, uid) ==
  [view EXCEPT ![uid] = IF @ = "absent" THEN @ ELSE "blank"]

\* Vue.set on the card's data: an update of an unknown uid is ignored
ReceiveUpdate(view, uid) ==
  [view EXCEPT ![uid] = IF @ = "absent" THEN @ ELSE "data"]

Receive(view, m) ==
  CASE m.type = "new"    -> ReceiveNew(view, m.uid)
    [] m.type = "out"    -> ReceiveOut(view, m.uid)
    [] m.type = "reset"  -> ReceiveReset(view, m.uid)
    [] m.type = "update" -> ReceiveUpdate(view, m.uid)

\* The "out" messages of several nodes, received one after the other.
ReceiveOuts(view, uids) ==
  [uid \in DOMAIN view |-> IF uid \in uids THEN "absent" ELSE view[uid]]
=============================================================================
