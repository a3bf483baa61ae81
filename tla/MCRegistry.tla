----------------------------- MODULE MCRegistry -----------------------------
(***************************************************************************)
(* Values of Registry's constants for TLC: two or three threads, two       *)
(* signals (SIGABRT, handled by signal_abort, and one of those handled by  *)
(* signal_pass), and a host with a plain handler beside the default.       *)
(***************************************************************************)
EXTENDS Registry

CONSTANTS T1, T2, T3

TwoThreads == {T1, T2}
ThreeThreads == {T1, T2, T3}

MCHostFns == {"hostHandler"}
Plain == [siginfo |-> FALSE, handler |-> "hostHandler"]
Siginfo == [siginfo |-> TRUE, handler |-> "hostHandler"]
Ignored == [siginfo |-> FALSE, handler |-> "SIG_IGN"]

PlainHost == {Default, Plain}
VariedHost == {Default, Siginfo, Ignored}

NoFaults == {}
SetupFaults == FaultKinds \ {"restore"}
AllFaults == FaultKinds

=============================================================================
