------------------------------- MODULE System -------------------------------
(***************************************************************************)
(* The broker with its gateways and pages.                                 *)
(*                                                                         *)
(* A gateway process (GatewayBase) keeps a cache of nodes and one          *)
(* connection to the broker at a time; each connection is a session of     *)
(* Broker.  The process notices that a connection is lost, the broker      *)
(* notices, and neither waits for the other: a process that reconnects may *)
(* find its last session still in the broker's tables, and what that       *)
(* session sent still on its way.                                          *)
(*                                                                         *)
(* Values of resources are left out: "update" messages change neither what *)
(* the broker lists nor which nodes a page shows.                          *)
(***************************************************************************)
EXTENDS Broker, SequencesExt

CONSTANTS
  Procs,   \* gateway processes
  Home,    \* the process whose device a uid is
  MaxUp    \* bound: messages of a session on their way to the broker

ASSUME HomeIsAProcess == Home \in [Uids -> Procs]
ASSUME UidsAreFinite  == IsFiniteSet(Uids)

VARIABLES
  cache,     \* GatewayBaseMixin.nodes of each process, by uid
  link,      \* the session a process takes for its connection, if any
  up,        \* written to a session and not handled by the broker yet
  overtaken  \* history: nodes of a cache that an older session withdrew
             \* from the pages, and that were not announced since

systemVars == <<vars, cache, link, up, overtaken>>

NoSession == "no session"

ASSUME NoSessionIsNone == NoSession \notin Gateways

\* What a process writes to its session.
NodeMessages ==
  {NewNode(uid, dst) : uid \in Uids, dst \in Clients \cup {All}}
    \cup {OutNode(uid) : uid \in Uids}

AllCached == UNION {cache[p] : p \in Procs}

Current(g) == \E p \in Procs : link[p] = g

\* send_to_broker: nothing without a connection, and what is written to a
\* connection that broke is never read.
Send(p, messages) ==
  up' = [g \in Gateways |-> IF g = link[p] THEN up[g] \o messages ELSE up[g]]

Announcement(uids, dst) ==
  LET inOrder == SetToSeq(uids)
  IN  [i \in DOMAIN inOrder |-> NewNode(inOrder[i], dst)]

HasRoom(p) == link[p] \in Gateways => Len(up[link[p]]) < MaxUp

-----------------------------------------------------------------------------
SystemInit ==
  /\ Init
  /\ cache = [p \in Procs |-> {}]
  /\ link  = [p \in Procs |-> NoSession]
  /\ up    = [g \in Gateways |-> <<>>]
  /\ overtaken = {}

(***************************************************************************)
(* The processes.                                                          *)
(***************************************************************************)
\* Mutant: a new connection starts with an empty queue.
ProcessConnects_Silent(p, g) ==
  /\ link[p] = NoSession
  /\ GatewayOpen(g)
  /\ link' = [link EXCEPT ![p] = g]
  /\ UNCHANGED <<cache, up, overtaken>>

\* websocket_connect and fetch_nodes_cache('all').
ProcessConnects(p, g) ==
  /\ link[p] = NoSession
  /\ GatewayOpen(g)
  /\ link' = [link EXCEPT ![p] = g]
  /\ up'   = [up EXCEPT ![g] = Announcement(cache[p], All)]
  /\ UNCHANGED <<cache, overtaken>>

\* read_message returns None, whatever the broker sees of it.
LinkLost(p) ==
  /\ link[p] # NoSession
  /\ link' = [link EXCEPT ![p] = NoSession]
  /\ UNCHANGED <<vars, cache, up, overtaken>>

\* Mutant: the page gets an empty list.
ProcessReads_NotFetched(p) ==
  /\ link[p] # NoSession /\ HasRoom(p)
  /\ GatewayReads(link[p])
  /\ UNCHANGED <<cache, link, up, overtaken>>

\* on_broker_message, for a page that opened.
ProcessReads(p) ==
  /\ link[p] # NoSession /\ HasRoom(p)
  /\ GatewayReads(link[p])
  /\ Send(p, Announcement(cache[p], Head(unread[link[p]]).src))
  /\ UNCHANGED <<cache, link, overtaken>>

\* Mutants: the home is cached in place of the uid; a known node is not
\* announced again.
NodeChecks_CachesHome(uid) ==
  LET p == Home[uid] IN
  /\ HasRoom(p)
  /\ cache' = [cache EXCEPT ![p] = @ \cup {p}]
  /\ Send(p, <<NewNode(uid, All)>>)
  /\ UNCHANGED <<vars, link, overtaken>>

NodeChecks_Once(uid) ==
  LET p == Home[uid] IN
  /\ HasRoom(p)
  /\ cache' = [cache EXCEPT ![p] = @ \cup {uid}]
  /\ Send(p, IF uid \in cache[p] THEN <<>> ELSE <<NewNode(uid, All)>>)
  /\ UNCHANGED <<vars, link, overtaken>>

\* A device announces itself, for the first time or again: add_node.
NodeChecks(uid) ==
  LET p == Home[uid] IN
  /\ HasRoom(p)
  /\ cache' = [cache EXCEPT ![p] = @ \cup {uid}]
  /\ Send(p, <<NewNode(uid, All)>>)
  /\ UNCHANGED <<vars, link, overtaken>>

\* A device has been silent for too long: remove_node.
NodeLeaves(uid) ==
  LET p == Home[uid] IN
  /\ uid \in cache[p] /\ HasRoom(p)
  /\ cache' = [cache EXCEPT ![p] = @ \ {uid}]
  /\ Send(p, <<OutNode(uid)>>)
  /\ UNCHANGED <<vars, link, overtaken>>

(***************************************************************************)
(* The broker.                                                             *)
(***************************************************************************)
\* The nodes among uids that g withdraws although they are in a cache.
Overtakes(g, uids) == IF Current(g) THEN {} ELSE uids \cap AllCached

BrokerHandles(g) ==
  /\ up[g] # <<>>
  /\ up' = [up EXCEPT ![g] = Tail(@)]
  /\ LET m == Head(up[g]) IN
     \/ /\ m.type = "new"
        /\ GatewaySendsNew(g, m.uid, m.dst)
        /\ overtaken' = IF m.dst = All /\ ~Raises(clients)
                          THEN overtaken \ {m.uid} ELSE overtaken
     \/ /\ m.type = "out"
        /\ GatewaySendsOut(g, m.uid)
        /\ overtaken' = overtaken \cup Overtakes(g, {m.uid})
     \/ /\ m.type = "out" /\ m.uid \notin Listed(g) /\ Reading(g)
        /\ UNCHANGED <<vars, overtaken>>
  /\ UNCHANGED <<cache, link>>

OnClose(s) ==
  /\ IF s \in Clients
       THEN ClientOnClose(s) /\ UNCHANGED overtaken
       ELSE /\ GatewayOnClose(s) \/ GatewayOnCloseFails(s)
            /\ overtaken' = overtaken \cup Overtakes(s, Listed(s))
  /\ UNCHANGED <<cache, link, up>>

\* Pages come and go; each asks once, when it opens.
PageOpens(c) == ClientOpen(c) /\ UNCHANGED <<cache, link, up, overtaken>>

PageAsks(c) ==
  /\ c \notin Range(clients) /\ RoomToForward
  /\ ClientSendsNew(c)
  /\ UNCHANGED <<cache, link, up, overtaken>>

ConnectionEnds(s) == PeerGone(s) /\ UNCHANGED <<cache, link, up, overtaken>>

-----------------------------------------------------------------------------
SystemNext ==
  \/ \E p \in Procs :
       \/ \E g \in Gateways : ProcessConnects(p, g)
       \/ LinkLost(p)
       \/ ProcessReads(p)
  \/ \E uid \in Uids : NodeChecks(uid) \/ NodeLeaves(uid)
  \/ \E g \in Gateways : BrokerHandles(g)
  \/ \E s \in Sessions : ConnectionEnds(s) \/ OnClose(s)
  \/ \E c \in Clients : PageOpens(c) \/ PageAsks(c)

(***************************************************************************)
(* Fairness: messages are handled, on_close is called, devices go on       *)
(* sending (one that stops is removed, which NodeShown excepts), and a     *)
(* process reads for as long as it is connected (no exception ends its     *)
(* task, see GatewayBase).  Nothing makes a page or a process come, stay   *)
(* or go.                                                                  *)
(***************************************************************************)
Fairness ==
  /\ \A g \in Gateways : WF_systemVars(BrokerHandles(g))
  /\ \A p \in Procs : WF_systemVars(ProcessReads(p))
  /\ \A s \in Sessions : WF_systemVars(OnClose(s))
  /\ \A uid \in Uids : WF_systemVars(NodeChecks(uid))

SystemSpec == SystemInit /\ [][SystemNext]_systemVars /\ Fairness

-----------------------------------------------------------------------------
(***************************************************************************)
(* Properties.                                                             *)
(***************************************************************************)

\* The variables of the broker, the processes and the channels have their types.
SystemTypeOK ==
  /\ TypeOK
  /\ cache \in [Procs -> SUBSET Uids]
  /\ link  \in [Procs -> Gateways \cup {NoSession}]
  /\ up    \in [Gateways -> Seq(NodeMessages)]
  /\ overtaken \subseteq Uids

\* Connected, as both ends see it.
Up(p) == link[p] # NoSession /\ socket[link[p]] = "open"

\* Nothing is on its way and nobody is about to leave.
Settled ==
  /\ \A p \in Procs : Up(p) /\ up[link[p]] = <<>> /\ unread[link[p]] = <<>>
  /\ \A s \in Sessions : socket[s] # "closing"
  /\ \A g \in Gateways : Current(g) \/ socket[g] \in {"none", "closed"}

\* The nodes of sessions that on_close failed to remove.
Abandoned == UNION {Listed(g) : g \in {h \in Range(gateways) : socket[h] = "closed"}}

\* Once everything that was sent has been handled, every page shows the nodes
\* of the gateways, whatever sequence of reconnections, opening and closing
\* pages led there.  Named exceptions: what an older session withdrew late,
\* an "out" cut short, and a session on_close failed to remove.
PagesExact ==
  Settled =>
    \A c \in Range(clients) :
      /\ AllCached \ overtaken \subseteq Displayed(display[c])
      /\ Displayed(display[c]) \subseteq AllCached \cup missed \cup Abandoned

\* A cached node is shown sooner or later on every page that asked, unless the
\* page, the node or the connection goes.  It holds for nodes that an older
\* session withdrew late only because every check of a device announces it anew.
NodeShown ==
  \A c \in Clients, uid \in Uids :
    (uid \in cache[Home[uid]] /\ c \in Range(clients))
      ~> \/ uid \in Displayed(display[c])
         \/ socket[c] # "open"
         \/ uid \notin cache[Home[uid]]
         \/ ~Up(Home[uid])

\* No "out" of uid is among the messages of q from position i on.
Stays(uid, q, i) == \A j \in i..Len(q) : q[j] # OutNode(uid)

\* What is listed once a session has listed the nodes of listed and handled q:
\* what is listed or announced and not withdrawn after that.
ListedAfter(listed, q) ==
  {uid \in Uids :
     \/ uid \in listed /\ Stays(uid, q, 1)
     \/ \E i \in DOMAIN q : /\ q[i].type = "new" /\ q[i].uid = uid
                            /\ Stays(uid, q, i)}

\* What the broker lists for g once it has handled all that is on its way.
ListedIn(g) == ListedAfter(Listed(g), up[g])

Directory(p) == INSTANCE NodeDirectory WITH
  nodes     <- cache[p],
  listed    <- IF Up(p) THEN ListedIn(link[p]) ELSE {},
  connected <- Up(p)

\* The promise of NodeDirectory is kept by each process over the channel, when
\* what is on its way is counted as told: the abstraction that the modules of
\* the gateways use for the broker.
DirectoriesKept ==
  /\ \A p \in Procs : Directory(p)!Init
  /\ [][\A p \in Procs : [Directory(p)!Next]_(Directory(p)!vars)]_systemVars

(***************************************************************************)
(* The inductive invariant behind PagesExact and DirectoriesKept.          *)
(***************************************************************************)
\* A session belongs to one process, and what was written to it or is listed
\* for it are devices of that process: what one process sends never changes
\* what the broker holds of another.
SessionsApart ==
  \A p \in Procs :
    /\ \A uid \in cache[p] : Home[uid] = p
    /\ link[p] # NoSession =>
         /\ socket[link[p]] # "none"
         /\ \A q \in Procs : link[q] = link[p] => q = p
         /\ \A uid \in Listed(link[p]) : Home[uid] = p
         /\ \A i \in DOMAIN up[link[p]] : Home[up[link[p]][i].uid] = p

\* Once the broker has handled what is on its way it lists the cache.
ChannelExact ==
  \A p \in Procs : Up(p) => ListedIn(link[p]) = cache[p]

\* A cached node whose "out" is on its way is announced to all pages after it:
\* its announcement to a single page that asked is not what brings it back.
Reannounced ==
  \A p \in Procs : link[p] # NoSession =>
    \A uid \in cache[p], i \in DOMAIN up[link[p]] :
      up[link[p]][i] = OutNode(uid) =>
        \E j \in (i + 1)..Len(up[link[p]]) : up[link[p]][j] = NewNode(uid, All)

\* The node is on its way to the page, or the page's request to the process.
OnItsWay(uid, c, g) ==
  \/ \E i \in DOMAIN up[g] : up[g][i] \in {NewNode(uid, All), NewNode(uid, c)}
  \/ \E i \in DOMAIN unread[g] : unread[g][i].src = c

\* A registered page that can be written to shows every cached node, or will.
ShownOrOnItsWay ==
  \A p \in Procs : Up(p) =>
    \A uid \in cache[p] \ overtaken, c \in Range(clients) :
      Writable(c) => uid \in Displayed(display[c]) \/ OnItsWay(uid, c, link[p])

\* No message of a page or a gateway process is refused by check_message.
NoneRejected == \A s \in Sessions : socket[s] # "rejected"

\* Inductive: through every reconnection and every late on_close, what the
\* processes cache, what is on its way and what the broker lists and the pages
\* show fit together.
SystemInv ==
  /\ SystemTypeOK /\ IInv
  /\ SessionsApart /\ ChannelExact /\ Reannounced /\ ShownOrOnItsWay
  /\ NoneRejected
=============================================================================
