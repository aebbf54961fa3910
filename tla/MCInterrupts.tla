---------------------------- MODULE MCInterrupts ----------------------------
EXTENDS Interrupts

(* The kernel is linked at 1 MiB: addresses whose halves differ. *)
MCStub(v) == 16 * Half + 64 * v

(* Words that are an exception, the timer, the second controller, and no vector. *)
MCWords == {0, NExc, NExc + NMaster, 1000}
=============================================================================
