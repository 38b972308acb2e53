--------------------------- MODULE MCCoapGateway ---------------------------
(* Instances of CoapGateway for TLC. *)
EXTENDS CoapGateway

CONSTANTS u1, u2, a1, a2

\* Every device has an address of its own.
OwnAddresses == {<<u1, a1>>, <<u2, a2>>}

OneDevice == {<<u1, a1>>}

\* A device is flashed with another firmware, which gives it a new uid.
SharedAddress == {<<u1, a1>>, <<u2, a1>>}
=============================================================================
