------------------------------- MODULE MCPanel -------------------------------
(***************************************************************************)
(* Panel with a value of three steps around zero, moved backwards by more  *)
(* than its span; a ladder of two buttons whose codes leave a gap of       *)
(* invalid voltages; potentiometers with and without deadband, smoothing   *)
(* and inversion; and calibrations that rise, fall and are degenerate.     *)
(***************************************************************************)
EXTENDS Panel, Integers

CONSTANTS red, blue

LowestValue == -1
StepSize == -5
SomeDetents == -1 .. 2
LadderCodes == <<0, 4>>

SomeControls == [rawMinimum : {1}, rawMaximum : {5}, deadband : {0, 1, 3},
                 slowness : {1, 2, 4}, inverted : BOOLEAN]
SomeVolts == -9 .. 9
SomeRanges == {[minimum |-> -8, maximum |-> 8], [minimum |-> 0, maximum |-> 5],
               [minimum |-> 2, maximum |-> 2]}
SomeCalibrations ==
    {[maximumCode |-> 3, first |-> 0, firstVolts |-> -5, second |-> 3, secondVolts |-> 4],
     [maximumCode |-> 4, first |-> 3, firstVolts |-> -4, second |-> 1, secondVolts |-> 4],
     [maximumCode |-> 3, first |-> 2, firstVolts |-> 1, second |-> 2, secondVolts |-> 4]}
SomeColors == {[c \in Channel |-> IF c = red THEN 3 ELSE 1], [c \in Channel |-> 0]}
=============================================================================
