------------------------------ MODULE MCBeacon ------------------------------
(***************************************************************************)
(* A page whose queue holds three events, an ingest that keeps three       *)
(* events of a body, and senders that post absurd offsets, an event        *)
(* without a kind, and one event too many.                                 *)
(***************************************************************************)
EXTENDS BeaconPipeline

Other(ts) == [kind |-> "other", ts |-> ts, dropped |-> 0]
Nothing == [kind |-> "none", ts |-> 5, dropped |-> 0]

MCBodies == {<<Other(6), Other(99), Other(5)>>,
             <<Other(5), Nothing, Other(NoOffset), Other(7)>>}
=============================================================================
