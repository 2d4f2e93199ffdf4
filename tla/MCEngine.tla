------------------------------ MODULE MCEngine ------------------------------
(* The engine on small instances: corrections while the board is silent,   *)
(* and two scripts with little enough to be run through.                   *)
EXTENDS Engine

Script(beats, onBoard, virtual) ==
    [heartbeats |-> beats, boardButton |-> onBoard, button |-> virtual]

NoScript == Script(0, 0, 0)
SmallScripts == {NoScript, Script(1, 2, 1), Script(0, 1, 2)}
=============================================================================
