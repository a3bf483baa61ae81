--------------------------- MODULE ProtectedBlocks ---------------------------
(***************************************************************************)
(* What coffeecatch promises to one thread about its protected blocks: a   *)
(* crash goes to the COFFEE_CATCH block of the outermost protected block,  *)
(* which learns the signal, or kills the process if no block protects the  *)
(* thread and the host does not take it.  No handler, jump buffer, mask or *)
(* unwinder appears here; module Session implements it.                    *)
(***************************************************************************)
EXTENDS Naturals, Sequences

CONSTANTS
    Signals,   \* the signals the library handles
    NoSignal,
    MaxBlocks, \* bound on the nesting of blocks
    Sent,      \* the signals that somebody may send the thread
    StackMayRunOut,  \* whether a body may run without an alternate stack
    FaultsMayKill    \* whether the handling of a crash may crash for good

VARIABLES
    blocks,    \* the open blocks, outermost first: what each is running
    crash,     \* the signal of a crash that is being dealt with
    reported,  \* the signal the catch block is told about
    dead

vars == <<blocks, crash, reported, dead>>

(* body: the block that protects.  nested: a block inside it.  catch: its   *)
(* COFFEE_CATCH.  failed: COFFEE_CATCH of a block whose setup failed.       *)
(* leaving: a body on the way to its COFFEE_CATCH.  lost: one that another  *)
(* signal has caught there.                                                 *)
Parts == {"body", "nested", "catch", "failed", "leaving", "lost"}

TypeOK ==
    /\ blocks \in Seq(Parts)
    /\ crash \in Signals \cup {NoSignal}
    /\ reported \in Signals \cup {NoSignal}
    /\ dead \in BOOLEAN

Is(part, b) == b \in 1 .. Len(blocks) /\ blocks[b] = part
Protected == \E b \in 1 .. Len(blocks) : Is("body", b) \/ Is("leaving", b)
Lost == \E b \in 1 .. Len(blocks) : Is("lost", b)
InCatch == \E b \in 1 .. Len(blocks) : Is("catch", b)
InSession == \E b \in 1 .. Len(blocks) : Is("body", b) \/ Is("catch", b)
InUserCode == ~dead /\ crash = NoSignal

Init ==
    /\ blocks = <<>>
    /\ crash = NoSignal
    /\ reported = NoSignal
    /\ dead = FALSE

Open ==
    /\ InUserCode
    /\ Len(blocks) < MaxBlocks
    /\ \E part \in IF InSession THEN {"nested"} ELSE {"body", "failed"} :
           blocks' = Append(blocks, part)
    /\ UNCHANGED <<crash, reported, dead>>

Close ==
    /\ InUserCode
    /\ blocks # <<>>
    /\ blocks' = SubSeq(blocks, 1, Len(blocks) - 1)
    /\ reported' = IF Is("catch", Len(blocks)) THEN NoSignal ELSE reported
    /\ UNCHANGED <<crash, dead>>

(* The thread exits inside its blocks.                                      *)
Leave ==
    /\ InUserCode
    /\ blocks' = <<>>
    /\ reported' = NoSignal
    /\ UNCHANGED <<crash, dead>>

Crash ==
    /\ InUserCode
    /\ crash' \in Signals
    /\ reported' = NoSignal
    /\ UNCHANGED <<blocks, dead>>

(* A signal sent meanwhile takes the place of the one being dealt with; a   *)
(* block that is being left protects from nothing more.                     *)
Supersede ==
    /\ ~dead /\ crash # NoSignal
    /\ crash' \in Sent
    /\ blocks' = [b \in DOMAIN blocks |->
                     IF blocks[b] = "leaving" THEN "lost" ELSE blocks[b]]
    /\ UNCHANGED <<reported, dead>>

(* The way back to the catch block of the block that protects begins ...    *)
Depart ==
    /\ ~dead /\ crash # NoSignal
    /\ \E b \in 1 .. Len(blocks) :
           /\ Is("body", b)
           /\ blocks' = [blocks EXCEPT ![b] = "leaving"]
    /\ UNCHANGED <<crash, reported, dead>>

(* ... and ends there, with the signal.                                     *)
Recover ==
    /\ ~dead /\ crash # NoSignal
    /\ \E b \in 1 .. Len(blocks) :
           /\ Is("leaving", b)
           /\ blocks' = Append(SubSeq(blocks, 1, b - 1), "catch")
    /\ reported' = crash
    /\ crash' = NoSignal
    /\ UNCHANGED dead

(* Nothing protects the thread, and the host's own handler takes the crash. *)
(* A catch block is told about it all the same.                             *)
HostTakes ==
    /\ ~dead /\ crash # NoSignal
    /\ ~Protected /\ ~Lost
    /\ crash' = NoSignal
    /\ reported' = IF InCatch THEN crash ELSE NoSignal
    /\ UNCHANGED <<blocks, dead>>

Die ==
    /\ ~dead /\ crash # NoSignal
    /\ ~Protected \/ FaultsMayKill
    /\ dead' = TRUE
    /\ UNCHANGED <<blocks, crash, reported>>

(* A crash the kernel cannot deliver: the stack ran out.                    *)
Perish ==
    /\ InUserCode
    /\ ~Protected \/ StackMayRunOut
    /\ dead' = TRUE
    /\ UNCHANGED <<blocks, crash, reported>>

Next ==
    \/ Open \/ Close \/ Leave
    \/ Crash \/ Supersede \/ Depart \/ Recover \/ HostTakes
    \/ Die \/ Perish

Spec == Init /\ [][Next]_vars

(* A crash is dealt with.                                                   *)
FairSpec == Spec /\ WF_vars(Depart \/ Recover \/ HostTakes \/ Die)

=============================================================================
