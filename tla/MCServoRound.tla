---------------------------- MODULE MCServoRound ----------------------------
(***************************************************************************)
(* Rounds of up to four variants with three places in the field.  v1 and   *)
(* v2 render alike in two cells; v2 and v3 share a cell and differ; v4 was *)
(* measured without a style sample.  The weight is above half a unit, so   *)
(* that the cap of one step bites in a field of three.                     *)
(***************************************************************************)
EXTENDS ServoRound, TLC

CONSTANTS v1, v2, v3, v4, p, q, r, s

MCFileOrder == v1 :> 1 @@ v2 :> 2 @@ v3 :> 3 @@ v4 :> 4
MCId == v1 :> 2 @@ v2 :> 1 @@ v3 :> 3 @@ v4 :> 4
MCBuilderOf == v1 :> p @@ v2 :> p @@ v3 :> q @@ v4 :> r
MCBland == v1 :> 0 @@ v2 :> 1 @@ v3 :> 2 @@ v4 :> 1
MCAxesOf == v1 :> <<1, 0, 1>> @@ v2 :> <<4, 1, 0>> @@ v3 :> <<2, 0, 0>> @@ v4 :> <<0, 1, 1>>
MCNameOf == v1 :> 1 @@ v2 :> 2 @@ v3 :> 3 @@ v4 :> 4
MCStyleOf == v1 :> 1 @@ v2 :> 1 @@ v3 :> 2 @@ v4 :> NoStyle
MCDistance == <<<<0, 4>>, <<4, 0>>>>

MCDirectories == {{v1}, {v2, v3, v4}, {v1, v2, v3, v4}}
=============================================================================
