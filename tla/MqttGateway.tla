---------------------------- MODULE MqttGateway ----------------------------
(***************************************************************************)
(* The MQTT gateway (pyaiot/gateway/mqtt/gateway.py) and its devices       *)
(* (utils/pycom/main.py, utils/mqtt/mqtt-test-node.py): everything travels *)
(* through an MQTT broker, which delivers what a client has subscribed to, *)
(* at least once.                                                          *)
(*                                                                         *)
(* Each check and each list of resources is handled by a task of its own,  *)
(* suspended at every subscription it awaits, while the session with the   *)
(* MQTT broker may be lost with all subscriptions.                         *)
(*                                                                         *)
(* handle_node_check calls the coroutine add_node and does not await it:   *)
(* the cache of nodes stays empty, nothing is ever sent to the pyaiot      *)
(* broker, and what depends on the cache (check_dead_nodes, discover_node, *)
(* update_node_resource, the end of handle_node_update) does nothing.      *)
(***************************************************************************)
EXTENDS FiniteSets, Naturals

CONSTANTS
  Ids,        \* what devices call themselves
  Resources,  \* the resources of a device
  Uids,       \* the values of uuid4, never the same twice
  MaxInbox,   \* bound: messages on their way to the gateway
  MaxLists    \* bound: lists of resources that are being handled

ASSUME TopicsAreDistinct == {"check", "resources"} \cap Resources = {}

VARIABLES
  session,    \* the gateway's session with the MQTT broker
  subs,       \* its subscriptions "node/<id>/<topic>"; with a session there
              \* is always one to "node/check"
  inbox,      \* published to the gateway and not handled yet, in any order
  mapping,    \* self.node_mapping: the uid of an id, or NoUid
  used,       \* history: the uids that were generated
  checks,     \* handle_node_check, suspended at its subscription, by id
  lists,      \* handle_node_resources: the resources left to subscribe to
  asked       \* devices that were sent the request "values"

vars == <<session, subs, inbox, mapping, used, checks, lists, asked>>

NoUid == "no uid"

ASSUME NoUidIsNoUid == NoUid \notin Uids

Check(id)    == [topic |-> "check", id |-> id]
List(id)     == [topic |-> "resources", id |-> id]
Value(id, r) == [topic |-> r, id |-> id]

Init ==
  /\ session = "none"
  /\ subs    = {}
  /\ inbox   = {}
  /\ mapping = [id \in Ids |-> NoUid]
  /\ used    = {}
  /\ checks  = {}
  /\ lists   = {}
  /\ asked   = {}

-----------------------------------------------------------------------------
(***************************************************************************)
(* The session.                                                            *)
(***************************************************************************)
\* on_connect, for the first time or again: "node/check" alone.
Connects ==
  /\ session # "up"
  /\ session' = "up"
  /\ UNCHANGED <<subs, inbox, mapping, used, checks, lists, asked>>

\* Mutant: on_disconnect forgets the devices.
SessionLost_Forgets ==
  /\ session = "up"
  /\ session' = "lost"
  /\ subs'    = {}
  /\ inbox'   = {}
  /\ mapping' = [id \in Ids |-> NoUid]
  /\ UNCHANGED <<used, checks, lists, asked>>

SessionLost ==
  /\ session = "up"
  /\ session' = "lost"
  /\ subs'    = {}
  /\ inbox'   = {}
  /\ UNCHANGED <<mapping, used, checks, lists, asked>>

Subscribe(id, topic) ==
  subs' = IF session = "up" THEN subs \cup {<<id, topic>>} ELSE subs

(***************************************************************************)
(* The devices.  A list of resources answers the request "resources" of    *)
(* discover_node, which is never sent: it comes from devices that publish  *)
(* it by themselves.                                                       *)
(***************************************************************************)
Published(messages) ==
  /\ inbox' = inbox \cup {m \in messages : m.topic = "check" \/ <<m.id, m.topic>> \in subs}
  /\ UNCHANGED <<session, subs, mapping, used, checks, lists>>

Publishes(m) ==
  /\ session = "up" /\ Cardinality(inbox) < MaxInbox
  /\ Published({m})
  /\ UNCHANGED asked

\* request_alive has reached the device, or it has just started.
PublishesCheck(id) == Publishes(Check(id))

\* The request "values".
AnswersValues(id) ==
  /\ id \in asked
  /\ Published({Value(id, r) : r \in Resources})
  /\ asked' = asked \ {id}

(***************************************************************************)
(* on_message.  With quality of service 1 the message may come again.      *)
(***************************************************************************)
Receives(m) == m \in inbox /\ (inbox' = inbox \ {m} \/ inbox' = inbox)

\* Mutant: the device is taken for new while its first check is suspended.
HandleCheck_Twice(id) ==
  /\ Receives(Check(id))
  /\ mapping[id] = NoUid \/ id \in checks
  /\ \E uid \in Uids \ used :
       /\ used'    = used \cup {uid}
       /\ mapping' = [mapping EXCEPT ![id] = uid]
  /\ checks' = checks \cup {id}
  /\ Subscribe(id, "resources")
  /\ UNCHANGED <<session, lists, asked>>

HandleCheck(id) ==
  /\ Receives(Check(id))
  /\ mapping[id] = NoUid
  /\ \E uid \in Uids \ used :
       /\ used'    = used \cup {uid}
       /\ mapping' = [mapping EXCEPT ![id] = uid]
  /\ checks' = checks \cup {id}
  /\ Subscribe(id, "resources")
  /\ UNCHANGED <<session, lists, asked>>

\* The coroutine of add_node is created and dropped.
CheckResumes(id) ==
  /\ id \in checks
  /\ checks' = checks \ {id}
  /\ UNCHANGED <<session, subs, inbox, mapping, used, lists, asked>>

\* The branch for a known device ends in a KeyError: it is not in the cache.
HandleKnownCheck(id) ==
  /\ Receives(Check(id))
  /\ mapping[id] # NoUid
  /\ UNCHANGED <<session, subs, mapping, used, checks, lists, asked>>

HandleResources(id) ==
  /\ Receives(List(id))
  /\ mapping[id] # NoUid /\ Cardinality(lists) < MaxLists
  /\ lists' = lists \cup {[id |-> id, left |-> Resources]}
  /\ UNCHANGED <<session, subs, mapping, used, checks, asked>>

\* Mutant: the values are asked for while the subscriptions are being made.
ListGoesOn_AsksFirst(t) ==
  /\ t \in lists
  /\ asked' = IF t.left = Resources /\ session = "up"
                THEN asked \cup {t.id} ELSE asked
  /\ IF t.left # {}
       THEN \E r \in t.left :
              /\ Subscribe(t.id, r)
              /\ lists' = (lists \ {t}) \cup {[t EXCEPT !.left = @ \ {r}]}
       ELSE lists' = lists \ {t} /\ UNCHANGED subs
  /\ UNCHANGED <<session, inbox, mapping, used, checks>>

\* The next subscription, or the request for the values.
ListGoesOn(t) ==
  /\ t \in lists
  /\ IF t.left # {}
       THEN /\ \E r \in t.left :
                 /\ Subscribe(t.id, r)
                 /\ lists' = (lists \ {t}) \cup {[t EXCEPT !.left = @ \ {r}]}
            /\ UNCHANGED asked
       ELSE /\ lists' = lists \ {t}
            /\ asked' = IF session = "up" THEN asked \cup {t.id} ELSE asked
            /\ UNCHANGED subs
  /\ UNCHANGED <<session, inbox, mapping, used, checks>>

\* The node is looked up, is not in the cache, and the value is dropped.
HandleUpdate(id, r) ==
  /\ Receives(Value(id, r))
  /\ mapping[id] # NoUid
  /\ UNCHANGED <<session, subs, mapping, used, checks, lists, asked>>

-----------------------------------------------------------------------------
DeviceStep(id) ==
  \/ PublishesCheck(id) \/ Publishes(List(id)) \/ AnswersValues(id)
  \/ \E r \in Resources : Publishes(Value(id, r))

GatewayStep(id) ==
  \/ HandleCheck(id) \/ HandleKnownCheck(id) \/ CheckResumes(id)
  \/ HandleResources(id)
  \/ \E r \in Resources : HandleUpdate(id, r)

Next ==
  \/ Connects \/ SessionLost
  \/ \E id \in Ids : DeviceStep(id) \/ GatewayStep(id)
  \/ \E t \in lists : ListGoesOn(t)

\* Fairness: a list task whose subscription was sent is resumed.
Spec ==
  /\ Init /\ [][Next]_vars
  /\ \A id \in Ids, left \in SUBSET Resources :
       WF_vars(ListGoesOn([id |-> id, left |-> left]))

-----------------------------------------------------------------------------
(***************************************************************************)
(* Properties.                                                             *)
(***************************************************************************)

\* A device has one uid for as long as the gateway runs, and no two share one:
\* a second check, or the same one delivered twice, finds the mapping although
\* the first is still being handled.
OneUidPerDevice ==
  [][\A id \in Ids :
       /\ mapping[id] # NoUid => mapping'[id] = mapping[id]
       /\ \A other \in Ids \ {id} : mapping'[id] # NoUid => mapping'[other] # mapping'[id]]_vars

\* A value that arrives is from a device in the mapping, across any number of
\* lost sessions: the lookup in handle_node_update raises no KeyError.
UpdateKnown ==
  \A m \in inbox : m.topic \in Resources => mapping[m.id] # NoUid

(***************************************************************************)
(* The inductive invariant behind the two: what leads to a value message   *)
(* (a subscription, a list being handled) is of a mapped device, and the   *)
(* uids of the mapping are among those generated, each once.               *)
(***************************************************************************)
TypeOK ==
  /\ session \in {"none", "up", "lost"}
  /\ subs    \subseteq Ids \X (Resources \cup {"resources"})
  /\ inbox   \subseteq [topic : Resources \cup {"check", "resources"}, id : Ids]
  /\ mapping \in [Ids -> Uids \cup {NoUid}]
  /\ used    \subseteq Uids
  /\ checks  \subseteq Ids
  /\ lists   \subseteq [id : Ids, left : SUBSET Resources]
  /\ asked   \subseteq Ids

SubscribedKnown ==
  /\ \A id \in Ids, topic \in Resources \cup {"resources"} :
       <<id, topic>> \in subs => mapping[id] # NoUid
  /\ \A t \in lists : mapping[t.id] # NoUid

UidsFresh ==
  \A id \in Ids : mapping[id] # NoUid =>
    /\ mapping[id] \in used
    /\ \A other \in Ids \ {id} : mapping[other] # mapping[id]

IInv == TypeOK /\ SubscribedKnown /\ UpdateKnown /\ UidsFresh

Listening(id) == \A r \in Resources : <<id, r>> \in subs

\* A device that lists its resources is asked for their values when the gateway
\* listens to all of them (an answer that comes earlier is lost), unless the
\* session is lost: known devices are never subscribed to again then.
ValuesAsked ==
  \A id \in Ids :
    (session = "up" /\ [id |-> id, left |-> Resources] \in lists)
      ~> \/ id \in asked /\ Listening(id)
         \/ session # "up"
=============================================================================
