----------------------------- MODULE MqttProofs -----------------------------
(***************************************************************************)
(* Theorems about MqttGateway, for any devices, resources, uids and        *)
(* bounds.  IInv is inductive; UpdateKnown is one of its conjuncts and     *)
(* OneUidPerDevice follows from it step by step.                           *)
(***************************************************************************)
EXTENDS MqttGateway, TLAPS

\* The two places where the session decides: a subscription that is made, and
\* a request that is sent.
LEMMA SubscribeType ==
  ASSUME TypeOK, NEW id \in Ids, NEW topic \in Resources \cup {"resources"},
         Subscribe(id, topic)
  PROVE  /\ subs' \subseteq Ids \X (Resources \cup {"resources"})
         /\ subs' \subseteq subs \cup {<<id, topic>>}
  BY DEF TypeOK, Subscribe

\* A message that is published and delivered is a check or was subscribed to.
LEMMA PublishedKnown ==
  ASSUME IInv, NEW messages, Published(messages),
         messages \subseteq [topic : Resources \cup {"check", "resources"}, id : Ids]
  PROVE  /\ inbox' \subseteq [topic : Resources \cup {"check", "resources"}, id : Ids]
         /\ \A m \in inbox' : m.topic \in Resources => mapping[m.id] # NoUid
         /\ UNCHANGED <<session, subs, mapping, used, checks, lists>>
<1>1. inbox' \subseteq [topic : Resources \cup {"check", "resources"}, id : Ids]
  BY DEF Published, IInv, TypeOK
<1>2. ASSUME NEW m \in inbox', m.topic \in Resources
      PROVE  mapping[m.id] # NoUid
  <2>1. m.topic # "check"
    BY <1>2, TopicsAreDistinct
  <2>2. m \in inbox \/ <<m.id, m.topic>> \in subs
    BY <2>1 DEF Published
  <2>3. m.id \in Ids
    BY <1>1
  <2> QED
    BY <1>2, <2>2, <2>3 DEF IInv, UpdateKnown, SubscribedKnown
<1> QED
  BY <1>1, <1>2 DEF Published

-----------------------------------------------------------------------------
\* Nothing is subscribed to, delivered or mapped at the start.
LEMMA InitIInv == Init => IInv
  BY DEF Init, IInv, TypeOK, SubscribedKnown, UpdateKnown, UidsFresh

\* A device adds nothing but messages, and only those that are delivered.
LEMMA DeviceKeepsIInv ==
  ASSUME IInv, NEW id \in Ids, DeviceStep(id)
  PROVE  IInv'
<1>1. CASE \E m \in {Check(id), List(id)} \cup {Value(id, r) : r \in Resources} :
             Publishes(m)
  <2>1. PICK m \in {Check(id), List(id)} \cup {Value(id, r) : r \in Resources} :
          Publishes(m)
    BY <1>1
  <2>2. m \in [topic : Resources \cup {"check", "resources"}, id : Ids]
    BY DEF Check, List, Value
  <2>3. Published({m}) /\ UNCHANGED asked
    BY <2>1 DEF Publishes
  <2> QED
    BY <2>2, <2>3, PublishedKnown
    DEF IInv, TypeOK, SubscribedKnown, UpdateKnown, UidsFresh
<1>2. CASE AnswersValues(id)
  <2>1. {Value(id, r) : r \in Resources}
          \subseteq [topic : Resources \cup {"check", "resources"}, id : Ids]
    BY DEF Value
  <2>2. Published({Value(id, r) : r \in Resources}) /\ asked' = asked \ {id}
    BY <1>2 DEF AnswersValues
  <2> QED
    BY <2>1, <2>2, PublishedKnown
    DEF IInv, TypeOK, SubscribedKnown, UpdateKnown, UidsFresh
<1> QED
  BY <1>1, <1>2 DEF DeviceStep, PublishesCheck

\* A handler maps a device before it subscribes, to a uid never used before.
LEMMA GatewayKeepsIInv ==
  ASSUME IInv, NEW id \in Ids, GatewayStep(id)
  PROVE  IInv'
<1> USE DEF IInv
<1>1. CASE HandleCheck(id)
  <2>1. PICK uid \in Uids \ used :
          used' = used \cup {uid} /\ mapping' = [mapping EXCEPT ![id] = uid]
    BY <1>1 DEF HandleCheck
  <2>2. \A other \in Ids :
          mapping'[other] = IF other = id THEN uid ELSE mapping[other]
    BY <2>1 DEF TypeOK
  <2>3. uid # NoUid
    BY NoUidIsNoUid
  <2>4. subs' \subseteq Ids \X (Resources \cup {"resources"})
          /\ subs' \subseteq subs \cup {<<id, "resources">>}
    BY <1>1, SubscribeType DEF HandleCheck
  <2>5. inbox' \subseteq inbox
    BY <1>1 DEF HandleCheck, Receives
  <2>6. TypeOK'
    BY <1>1, <2>1, <2>4, <2>5 DEF TypeOK, HandleCheck
  <2>7. SubscribedKnown'
    <3>1. ASSUME NEW other \in Ids, NEW topic \in Resources \cup {"resources"},
                 <<other, topic>> \in subs'
          PROVE  mapping'[other] # NoUid
      BY <3>1, <2>2, <2>3, <2>4 DEF SubscribedKnown
    <3>2. \A t \in lists : t.id \in Ids
      BY DEF TypeOK
    <3>3. \A t \in lists' : mapping'[t.id] # NoUid
      BY <1>1, <2>2, <2>3, <3>2 DEF SubscribedKnown, HandleCheck
    <3> QED
      BY <3>1, <3>3 DEF SubscribedKnown
  <2>8. UpdateKnown'
    <3>1. \A m \in inbox : m.id \in Ids
      BY DEF TypeOK
    <3> QED
      BY <2>2, <2>3, <2>5, <3>1 DEF UpdateKnown
  <2>9. UidsFresh'
    BY <2>1, <2>2 DEF UidsFresh
  <2> QED
    BY <2>6, <2>7, <2>8, <2>9
<1>2. CASE HandleKnownCheck(id)
  BY <1>2 DEF HandleKnownCheck, Receives, TypeOK, SubscribedKnown, UpdateKnown, UidsFresh
<1>3. CASE CheckResumes(id)
  BY <1>3 DEF CheckResumes, TypeOK, SubscribedKnown, UpdateKnown, UidsFresh
<1>4. CASE HandleResources(id)
  BY <1>4 DEF HandleResources, Receives, TypeOK, SubscribedKnown, UpdateKnown, UidsFresh
<1>5. CASE \E r \in Resources : HandleUpdate(id, r)
  BY <1>5 DEF HandleUpdate, Receives, TypeOK, SubscribedKnown, UpdateKnown, UidsFresh
<1> QED
  BY <1>1, <1>2, <1>3, <1>4, <1>5 DEF GatewayStep

\* A list task subscribes to topics of the mapped device it is about.
LEMMA ListKeepsIInv ==
  ASSUME IInv, NEW t \in lists, ListGoesOn(t)
  PROVE  IInv'
<1> USE DEF IInv
<1>1. t.id \in Ids /\ t.left \subseteq Resources /\ mapping[t.id] # NoUid
  BY DEF TypeOK, SubscribedKnown
<1>2. CASE t.left # {}
  <2>1. PICK r \in t.left :
          /\ Subscribe(t.id, r)
          /\ lists' = (lists \ {t}) \cup {[t EXCEPT !.left = @ \ {r}]}
    BY <1>2 DEF ListGoesOn
  <2>2. /\ subs' \subseteq Ids \X (Resources \cup {"resources"})
        /\ subs' \subseteq subs \cup {<<t.id, r>>}
    BY <1>1, <2>1, SubscribeType
  <2>3. [t EXCEPT !.left = @ \ {r}] \in [id : Ids, left : SUBSET Resources]
          /\ [t EXCEPT !.left = @ \ {r}].id = t.id
    BY <1>1 DEF TypeOK
  <2>4. UNCHANGED <<session, inbox, mapping, used, checks, asked>>
    BY <1>2 DEF ListGoesOn
  <2>5. TypeOK'
    BY <2>1, <2>2, <2>3, <2>4 DEF TypeOK
  <2>6. SubscribedKnown'
    <3>1. ASSUME NEW other \in Ids, NEW topic \in Resources \cup {"resources"},
                 <<other, topic>> \in subs'
          PROVE  mapping'[other] # NoUid
      BY <3>1, <1>1, <2>2, <2>4 DEF SubscribedKnown
    <3>2. \A u \in lists' : mapping'[u.id] # NoUid
      BY <1>1, <2>1, <2>3, <2>4 DEF SubscribedKnown
    <3> QED
      BY <3>1, <3>2 DEF SubscribedKnown
  <2> QED
    BY <2>4, <2>5, <2>6 DEF UpdateKnown, UidsFresh
<1>3. CASE t.left = {}
  <2>1. /\ lists' = lists \ {t}
        /\ asked' \subseteq asked \cup {t.id}
        /\ UNCHANGED <<session, subs, inbox, mapping, used, checks>>
    BY <1>3 DEF ListGoesOn
  <2> QED
    BY <1>1, <2>1 DEF TypeOK, SubscribedKnown, UpdateKnown, UidsFresh
<1> QED
  BY <1>2, <1>3

\* Every step keeps the invariant.
LEMMA StepIInv == IInv /\ [Next]_vars => IInv'
<1> SUFFICES ASSUME IInv, [Next]_vars
             PROVE  IInv'
  OBVIOUS
<1>1. CASE Connects
  BY <1>1 DEF IInv, Connects, TypeOK, SubscribedKnown, UpdateKnown, UidsFresh
<1>2. CASE SessionLost
  BY <1>2 DEF IInv, SessionLost, TypeOK, SubscribedKnown, UpdateKnown, UidsFresh
<1>3. CASE \E id \in Ids : DeviceStep(id) \/ GatewayStep(id)
  BY <1>3, DeviceKeepsIInv, GatewayKeepsIInv
<1>4. CASE \E t \in lists : ListGoesOn(t)
  BY <1>4, ListKeepsIInv
<1>5. CASE UNCHANGED vars
  BY <1>5 DEF IInv, vars, TypeOK, SubscribedKnown, UpdateKnown, UidsFresh
<1> QED
  BY <1>1, <1>2, <1>3, <1>4, <1>5 DEF Next

-----------------------------------------------------------------------------
\* What holds of the gateway in every state: its types, that values only come
\* from mapped devices, and that its uids were generated, each for one device.
THEOREM Inductive == Spec => []IInv
  BY InitIInv, StepIInv, PTL DEF Spec

\* handle_node_update finds the sender of every value in node_mapping.
THEOREM UpdatesKnown == Spec => []UpdateKnown
<1>1. IInv => UpdateKnown
  BY DEF IInv
<1> QED
  BY <1>1, Inductive, PTL

\* Only the first check of a device changes the mapping.
LEMMA MappingStep ==
  ASSUME IInv, [Next]_vars, NEW id \in Ids, mapping[id] # NoUid
  PROVE  mapping'[id] = mapping[id]
<1>1. CASE \E other \in Ids : HandleCheck(other)
  BY <1>1 DEF IInv, TypeOK, HandleCheck
<1>2. CASE ~\E other \in Ids : HandleCheck(other)
  <2>1. mapping' = mapping
    BY <1>2 DEF Next, vars, Connects, SessionLost, DeviceStep, GatewayStep,
      PublishesCheck, Publishes, Published, AnswersValues, HandleKnownCheck,
      CheckResumes, HandleResources, HandleUpdate, ListGoesOn
  <2> QED
    BY <2>1
<1> QED
  BY <1>1, <1>2

\* A device keeps its uid and shares it with no other.
THEOREM UidsKept == Spec => OneUidPerDevice
<1> DEFINE Kept ==
      \A id \in Ids :
        /\ mapping[id] # NoUid => mapping'[id] = mapping[id]
        /\ \A other \in Ids \ {id} :
             mapping'[id] # NoUid => mapping'[other] # mapping'[id]
<1>1. IInv /\ [Next]_vars => Kept
  <2> SUFFICES ASSUME IInv, [Next]_vars
               PROVE  Kept
    OBVIOUS
  <2>1. UidsFresh'
    BY StepIInv DEF IInv
  <2> QED
    BY <2>1, MappingStep DEF UidsFresh
<1>2. IInv /\ [Next]_vars => [Kept]_vars
  BY <1>1
<1> QED
  BY <1>2, Inductive, PTL DEF Spec, OneUidPerDevice
=============================================================================
