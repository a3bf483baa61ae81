----------------------------- MODULE MCWatchdog -----------------------------
(***************************************************************************)
(* Values of Watchdog's constants for TLC.                                 *)
(***************************************************************************)
EXTENDS Watchdog

CONSTANTS T1, T2, T3

TwoThreads == {T1, T2}
ThreeThreads == {T1, T2, T3}
OneCanceller == {T1}

=============================================================================
