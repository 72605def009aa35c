------------------------------ MODULE AvrMainline ------------------------------
(***************************************************************************)
(* What the AVR components have in common: one mainline program, whose     *)
(* calls run inside an ATOMIC_BLOCK(ATOMIC_RESTORESTATE), and handlers     *)
(* that can run between any two of its machine steps as long as the global *)
(* interrupt flag is set.  Handlers run with that flag cleared, so none of *)
(* them interrupts another: each is one step, except where hardware acts   *)
(* while it runs.                                                          *)
(***************************************************************************)
VARIABLES
    masked,  \* the global interrupt flag is cleared
    pc       \* the mainline's next machine step, "idle" between the calls

(***************************************************************************)
(* A call of the mainline, up to the first step inside the ATOMIC_BLOCK,   *)
(* and the end of the block.                                               *)
(***************************************************************************)
BlockBegins(next) == pc = "idle" /\ masked' = TRUE /\ pc' = next
BlockEnds == masked' = FALSE /\ pc' = "idle"
=============================================================================
