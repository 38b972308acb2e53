---------------------------- MODULE MCCoapDevice ----------------------------
(* Instance of CoapDevice for TLC. *)
EXTENDS CoapDevice

CONSTANTS u1, a1

OneDevice == {<<u1, a1>>}
=============================================================================
