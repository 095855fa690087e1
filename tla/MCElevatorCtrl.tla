--------------------------- MODULE MCElevatorCtrl ---------------------------
(* Model-checking instance of ElevatorCtrl: a 4-floor building (2-bit      *)
(* floors, so uint8_t wrap-around happens at floor 3, the model's 255).    *)
EXTENDS ElevatorCtrl

\* Clients ask for every floor below the top one.
MCRequestFloorsBelowTop == 0..(FloorCount - 2)

\* Clients may also ask for the top floor (the model's floor 255).
MCRequestFloorsAll == Floors
=============================================================================
