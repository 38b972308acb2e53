------------------------------ MODULE MCSystem ------------------------------
(* Instance of System for TLC. *)
EXTENDS System

CONSTANTS p1

\* One gateway process, in successive sessions.
OneHome == [uid \in Uids |-> p1]
=============================================================================
