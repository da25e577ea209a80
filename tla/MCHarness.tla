------------------------------ MODULE MCHarness ------------------------------
(***************************************************************************)
(* Two ports and two retries; the caller names one of the ports or none.   *)
(***************************************************************************)
EXTENDS Harness

CONSTANTS p1, p2

MCPort == {p1, p2}
MCCallers == {p1, NoPort}
=============================================================================
