------------------------------ MODULE MCBroker ------------------------------
(* Instance of Broker for TLC. *)
EXTENDS Broker, TLC

\* Client connections and node uids are interchangeable.
Symmetry == Permutations(Clients) \cup Permutations(Uids)
=============================================================================
