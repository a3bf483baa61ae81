----------------------------- MODULE MCSession ------------------------------
(***************************************************************************)
(* Values of Session's constants for TLC.                                  *)
(***************************************************************************)
EXTENDS Session

CONSTANTS Abrt, Segv, Bus, Fpe, B1, B2

FourSignals == {Abrt, Segv, Bus, Fpe}
TwoBuffers == {B1, B2}

(* The faults fill_backtrace() unblocks, and abort().                       *)
StackFaults == {Segv, Bus, Abrt}
Sent == {Abrt, Fpe}
Nothing == {}

SetupFaults == {"setup"}
StackFailures == {"setup", "silent", "altstack"}

=============================================================================
