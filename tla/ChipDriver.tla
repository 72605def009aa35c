------------------------------ MODULE ChipDriver ------------------------------
(***************************************************************************)
(* What the drivers of external chips have in common.  A driver object is  *)
(* used by one caller, and its calls do not return before the bus has      *)
(* answered; pc is where a call stands between two accesses to bus or      *)
(* pins, because the chip acts on each of them at once.  A bus call may    *)
(* fail at any time, and what reached the chip before it failed is not     *)
(* known to the driver.                                                    *)
(***************************************************************************)
VARIABLES
    chip,     \* the chip the driver is for; it does not change
    pc,       \* "Idle" between two calls
    result    \* the IoResult of the running call so far, or of the last one

driver == <<chip, pc, result>>

IoResult == {"None", "Success", "Error"}

Idle == pc = "Idle"

Return(r) == pc' = "Idle" /\ result' = r
=============================================================================
