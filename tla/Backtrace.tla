------------------------------ MODULE Backtrace ------------------------------
(***************************************************************************)
(* The frames a crash handler gathers into its thread's structure, under   *)
(* the guard that module Session models: whatever faults in here, the      *)
(* handler goes on with the frames gathered so far.                        *)
(*                                                                         *)
(* A program counter is named by the place it was found at, counted from   *)
(* the trap: the code asks of one only whether it is NULL, which any frame *)
(* of a broken stack may be.                                               *)
(***************************************************************************)
EXTENDS Integers, Sequences

CONSTANTS
    Backends,              \* ways of gathering, of those in BackendKinds
    BACKTRACE_FRAMES_MAX,  \* length of t->frames
    MaxDepth,              \* bound on the frames a stack has
    Word,                  \* sizeof(uintptr_t)
    TopAddress,            \* bound on the addresses a link may hold
    SSIZE_MAX

(* unwind: _Unwind_Backtrace() and a callback.  framepointer: the chain of  *)
(* saved frame pointers (Darwin).  corkscrew: libcorkscrew, or libunwind if *)
(* that finds nothing.                                                      *)
BackendKinds == {"unwind", "framepointer", "corkscrew"}

ASSUME BackendsAssumption == Backends \subseteq BackendKinds
ASSUME FramesAssumption ==
    /\ BACKTRACE_FRAMES_MAX \in Nat \ {0}
    /\ SSIZE_MAX \in Nat /\ BACKTRACE_FRAMES_MAX <= SSIZE_MAX
ASSUME StackAssumption ==
    MaxDepth \in Nat /\ Word \in Nat \ {0} /\ TopAddress \in Nat

SIZE_RANGE == 2 * (SSIZE_MAX + 1)  \* values of a size_t
NoPC == 0
Addresses == 0 .. TopAddress
Indices == -(SSIZE_MAX + 1) .. SSIZE_MAX

VARIABLES
    backend,
    gather,      \* where the handler is: see GatherPCs
    pc,          \* t->pc, read from the signal's context
    frames,      \* t->frames
    framesSize,  \* t->frames_size
    framesSkip,  \* t->frames_skip
    fp,          \* the frame pointer to follow, 0 to stop
    copied,      \* how far libunwind's frames have been copied
    seen         \* history: what the stack offered, NULLs included

backtrace ==
    <<backend, gather, pc, frames, framesSize, framesSkip, fp, copied, seen>>

(* store: a frame is in its slot and not yet counted.  copy: libunwind's    *)
(* frames are counted and not all in their slots yet.  complete: the stack  *)
(* or the array has ended.  partial: something faulted, or a signal came;   *)
(* torn: one came in the middle of the copy.                                *)
GatherPCs == {"idle", "walk", "store", "libunwind", "copy",
              "complete", "partial", "torn"}
Gathered == gather \in {"complete", "partial", "torn"}

BacktraceInit ==
    /\ backend \in Backends
    /\ gather = "idle"
    /\ pc = NoPC
    /\ frames = [k \in 0 .. BACKTRACE_FRAMES_MAX - 1 |-> NoPC]
    /\ framesSize = 0
    /\ framesSkip = 0
    /\ fp = 0
    /\ copied = 0
    /\ seen = <<>>

---------------------------------------------------------------------------
(* coffeecatch_get_pc_from_ucontext(): the trap's pc, NULL after a call     *)
(* through a NULL pointer.                                                  *)
TrapPCs == {NoPC, 1}

(* The next frame up the stack, whole or broken.                            *)
Offered == {NoPC, Len(seen) + 1}

(* The part of a new extraction that depends on the backend: the walk along *)
(* the frame pointers has the trap's own pc for its first frame.            *)
Seed ==
    IF backend = "framepointer"
    THEN /\ fp' \in Addresses
         /\ frames' = [frames EXCEPT ![0] = pc']
         /\ seen' = <<pc'>>
         /\ gather' = "store"
    ELSE /\ seen' = <<>>
         /\ gather' = "walk"
         /\ UNCHANGED <<frames, fp>>

(* Mutant: a second crash in the same structure skips no frames.            *)
BugExtract ==
    /\ gather = "idle" \/ Gathered
    /\ pc' \in TrapPCs
    /\ framesSize' = 0
    /\ framesSkip' = IF gather = "idle" THEN 2 ELSE framesSkip
    /\ copied' = 0
    /\ Seed
    /\ UNCHANGED backend

(* coffeecatch_copy_context() and coffeecatch_extract_backtrace() begin,    *)
(* again if another signal comes before the handler has jumped.             *)
Extract ==
    /\ gather = "idle" \/ Gathered
    /\ pc' \in TrapPCs
    /\ framesSize' = 0
    /\ framesSkip' = 2
    /\ copied' = 0
    /\ Seed
    /\ UNCHANGED backend

Store(ip) ==
    /\ frames' = [frames EXCEPT ![framesSize] = ip]
    /\ gather' = "store"

(* coffeecatch_unwind_callback(): NULLs are passed over, and do not count   *)
(* for the two frames skipped either.                                       *)
UnwindCallback ==
    /\ gather = "walk" /\ backend = "unwind"
    /\ Len(seen) < MaxDepth
    /\ \E ip \in Offered :
           /\ seen' = Append(seen, ip)
           /\ \/ ip = NoPC /\ UNCHANGED <<gather, frames, framesSkip>>
              \/ /\ ip # NoPC /\ framesSkip > 0
                 /\ framesSkip' = framesSkip - 1
                 /\ UNCHANGED <<gather, frames>>
              \/ /\ ip # NoPC /\ framesSkip = 0
                 /\ Store(ip)
                 /\ UNCHANGED framesSkip
    /\ UNCHANGED <<backend, pc, framesSize, fp, copied>>

(* The condition of the frame-pointer loop.                                 *)
Followable ==
    fp # 0 /\ fp % Word = 0 /\ framesSize < BACKTRACE_FRAMES_MAX

(* Mutant: a link that does not climb is followed.                          *)
BugFollowLink ==
    /\ gather = "walk" /\ backend = "framepointer" /\ Followable
    /\ fp' \in Addresses
    /\ \E ret \in Offered :
           IF ret = NoPC
           THEN UNCHANGED <<gather, frames, seen>>
           ELSE Store(ret) /\ seen' = Append(seen, ret)
    /\ UNCHANGED <<backend, pc, framesSize, framesSkip, copied>>

(* One turn of coffeecatch_fp_backtrace()'s loop: the link and the return   *)
(* address beside it, either of which may be anything on a corrupt stack.   *)
FollowLink ==
    /\ gather = "walk" /\ backend = "framepointer" /\ Followable
    /\ \E next \in Addresses : fp' = IF next <= fp THEN 0 ELSE next
    /\ \E ret \in Offered :
           /\ seen' = Append(seen, ret)
           /\ IF ret = NoPC THEN UNCHANGED <<gather, frames>> ELSE Store(ret)
    /\ UNCHANGED <<backend, pc, framesSize, framesSkip, copied>>

(* The frame is counted; _URC_END_OF_STACK when that was the last slot.     *)
Count ==
    /\ gather = "store"
    /\ framesSize' = framesSize + 1
    /\ gather' = IF backend = "unwind" /\ framesSize' = BACKTRACE_FRAMES_MAX
                 THEN "complete" ELSE "walk"
    /\ UNCHANGED <<backend, pc, frames, framesSkip, fp, copied, seen>>

(* The unwinder has reached the end of the stack, or the walk stops.        *)
StackEnds ==
    /\ gather = "walk"
    /\ \/ backend = "unwind"
       \/ backend = "framepointer" /\ ~Followable
    /\ gather' = "complete"
    /\ UNCHANGED <<backend, pc, frames, framesSize, framesSkip, fp, copied,
                   seen>>

(* What a library finds: the first nb frames of the stack, none for -1.     *)
Found(nb) == seen' = [k \in 1 .. nb |-> k]

(* libcorkscrew fills the slots itself and returns their number, or -1.     *)
Corkscrew ==
    /\ gather = "walk" /\ backend = "corkscrew"
    /\ \E size \in -1 .. BACKTRACE_FRAMES_MAX :
           /\ Found(size)
           /\ frames' = [k \in DOMAIN frames |->
                            IF k < size THEN k + 1 ELSE frames[k]]
           /\ framesSize' = IF size >= 0 THEN size ELSE 0
           /\ gather' = IF framesSize' = 0 THEN "libunwind" ELSE "complete"
    /\ UNCHANGED <<backend, pc, framesSkip, fp, copied>>

(* What coffeecatch_unwind_signal() returns: -1 without libunwind.so or its *)
(* unw_backtrace(), else what that does.                                    *)
LibunwindSignal == -1 .. BACKTRACE_FRAMES_MAX

(* Mutant: "absent" folds into a huge size_t.                               *)
BugLibunwind ==
    /\ gather = "libunwind"
    /\ \E nb \in LibunwindSignal :
           /\ Found(nb)
           /\ framesSize' = nb % SIZE_RANGE
    /\ gather' = "copy"
    /\ UNCHANGED <<backend, pc, frames, framesSkip, fp, copied>>

(* libunwind.so is absent, finds nothing, or fills t->uframes, an array of  *)
(* its own; its frames are counted ...                                      *)
Libunwind ==
    /\ gather = "libunwind"
    /\ \E nb \in LibunwindSignal :
           /\ Found(nb)
           /\ framesSize' = IF nb > 0 THEN nb ELSE 0
    /\ gather' = "copy"
    /\ UNCHANGED <<backend, pc, frames, framesSkip, fp, copied>>

(* ... and then copied, one at a time.                                      *)
CopyFrame ==
    /\ gather = "copy"
    /\ copied < framesSize
    /\ frames' = [frames EXCEPT ![copied] = seen[copied + 1]]
    /\ copied' = copied + 1
    /\ UNCHANGED <<backend, gather, pc, framesSize, framesSkip, fp, seen>>

AllCopied ==
    /\ gather = "copy"
    /\ copied = framesSize
    /\ gather' = "complete"
    /\ UNCHANGED <<backend, pc, frames, framesSize, framesSkip, fp, copied,
                   seen>>

(* A fault, or any handled signal, while the guard is armed.                *)
BackOut ==
    /\ gather \in {"walk", "store", "libunwind", "copy"}
    /\ gather' = IF gather = "copy" THEN "torn" ELSE "partial"
    /\ UNCHANGED <<backend, pc, frames, framesSize, framesSkip, fp, copied,
                   seen>>

Gather ==
    \/ UnwindCallback \/ FollowLink \/ Count \/ StackEnds
    \/ Corkscrew \/ Libunwind \/ CopyFrame \/ AllCopied

---------------------------------------------------------------------------
(* The accessors.                                                           *)

ToSSize(n) == IF n > SSIZE_MAX THEN n - SIZE_RANGE ELSE n

(* Mutant: one past the end.                                                *)
BugGetBacktrace(index) ==
    LET from == IF index < 0
                THEN ToSSize((framesSize + index) % SIZE_RANGE)
                ELSE index IN
    IF from >= 0 /\ from <= framesSize THEN from ELSE -1

(* The slot coffeecatch_get_backtrace(index) reads, or -1.  The index is    *)
(* added to a size_t, and the sum converted back.                           *)
GetBacktrace(index) ==
    LET from == IF index < 0
                THEN ToSSize((framesSize + index) % SIZE_RANGE)
                ELSE index IN
    IF from >= 0 /\ from < framesSize THEN from ELSE -1

---------------------------------------------------------------------------
(* Properties.                                                              *)

(* Every variable keeps its type; no more frames than there are slots.      *)
BacktraceTypeOK ==
    /\ backend \in Backends
    /\ gather \in GatherPCs
    /\ pc \in TrapPCs
    /\ frames \in [0 .. BACKTRACE_FRAMES_MAX - 1 -> Nat]
    /\ framesSize \in 0 .. BACKTRACE_FRAMES_MAX
    /\ gather = "store" => framesSize < BACKTRACE_FRAMES_MAX
    /\ framesSkip \in 0 .. 2
    /\ fp \in Addresses
    /\ copied \in 0 .. BACKTRACE_FRAMES_MAX
    /\ seen \in Seq(Nat)

(* A sequence of program counters without its NULLs.                        *)
NonNull(s) ==
    LET kept[n \in 0 .. Len(s)] ==
            IF n = 0 THEN <<>>
            ELSE IF s[n] = NoPC THEN kept[n - 1]
            ELSE Append(kept[n - 1], s[n])
    IN  kept[Len(s)]

(* The frames of interest among those the stack offered.                    *)
Wanted ==
    CASE backend = "unwind" -> SubSeq(NonNull(seen), 3, Len(NonNull(seen)))
      [] backend = "framepointer" ->
             IF seen = <<>> THEN <<>>
             ELSE <<Head(seen)>> \o NonNull(Tail(seen))
      [] OTHER -> seen

(* The frames that are in their slots: those counted, but for a copy that   *)
(* is not done or that a signal has cut short.                              *)
InPlace == IF gather \in {"copy", "torn"} THEN copied ELSE framesSize

(* At every moment, and so wherever a fault leaves the handler, the frames  *)
(* counted are the innermost frames of interest, in order, without a gap,   *)
(* a repetition or a leftover of an earlier crash; and if nothing faulted,  *)
(* all of them.  One interval is excepted: libunwind's frames are counted   *)
(* before they are copied, and a signal sent between the two leaves the     *)
(* rest of the count to whatever the slots held.                            *)
FramesFaithful ==
    /\ framesSize <= Len(Wanted)
    /\ \A k \in 1 .. InPlace : frames[k - 1] = Wanted[k]
    /\ gather = "complete" => framesSize = Len(Wanted)

(* coffeecatch_get_backtrace() reads from the start for an index that is    *)
(* not negative, from the end for one that is, and nothing outside the      *)
(* frames counted; for every value of an ssize_t.                           *)
IndexRight ==
    \A index \in Indices :
        GetBacktrace(index) =
            IF index \in 0 .. framesSize - 1 THEN index
            ELSE IF index \in -framesSize .. -1 THEN framesSize + index
            ELSE -1

(* What keeps the handler from the end of its gathering: the frames left    *)
(* above on the stack, the addresses left above the frame pointer, or the   *)
(* slots to copy to.                                                        *)
Ahead ==
    CASE backend = "unwind" -> MaxDepth - Len(seen)
      [] backend = "framepointer" -> IF fp = 0 THEN 0 ELSE TopAddress + 1 - fp
      [] OTHER -> BACKTRACE_FRAMES_MAX + 1
StepsLeft ==
    CASE gather = "walk" -> 2 * Ahead + 1
      [] gather = "store" -> 2 * Ahead + 2
      [] gather = "libunwind" -> BACKTRACE_FRAMES_MAX + 2
      [] gather = "copy" -> framesSize - copied + 1
      [] OTHER -> 0

(* No step of the gathering goes back or marks time, whatever the stack     *)
(* holds: each frame and each link brings the end of the walk nearer, by a  *)
(* measure that cannot fall for ever.                                       *)
WalkAdvances ==
    [][gather # "idle" /\ ~Gathered =>
           StepsLeft' \in Nat /\ StepsLeft' < StepsLeft]_backtrace

(* A walk comes to an end, even along links that form a ring and have no    *)
(* return addresses to fill the array with.                                 *)
WalkEnds == gather = "walk" ~> Gathered

=============================================================================
