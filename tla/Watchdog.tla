------------------------------ MODULE Watchdog ------------------------------
(***************************************************************************)
(* The alarm that ends a process which hangs after a recovery.  A handler  *)
(* arms the process's only alarm() before it looks for a structure, marks  *)
(* it in native_code_g.alarm_pending if it finds one, and recovers.  Any   *)
(* thread may cancel: it takes the mark, then disarms the alarm.           *)
(*                                                                         *)
(* The reason for the alarm is part of the model: a thread may crash       *)
(* inside the allocator, whose lock then stays taken, and a COFFEE_CATCH   *)
(* block that allocates waits for it for ever.                             *)
(***************************************************************************)
EXTENDS Naturals

CONSTANTS
    Threads,
    Unlocked,    \* nobody holds the allocator's lock
    Cancellers,  \* threads that call coffeecatch_cancel_pending_alarm()
    MaxCrashes   \* bound on the crashes of a behaviour

ASSUME CancellersAssumption == Cancellers \subseteq Threads
ASSUME ThreadsAssumption == Unlocked \notin Threads
ASSUME CrashesAssumption == MaxCrashes \in Nat

VARIABLES
    timer,         \* the process's alarm() is running
    alarmPending,  \* native_code_g.alarm_pending
    heap,          \* the thread that took the allocator's lock, or Unlocked
    pc,            \* where each thread is
    back,          \* where a thread that cancels or crashes was
    crashes,       \* crashes so far
    dead,
    watched        \* history: threads whose last crash nobody has since
                   \*   begun to cancel

vars == <<timer, alarmPending, heap, pc, back, crashes, dead, watched>>

(* work: in a protected body or outside every block.  heap: in the          *)
(* allocator.  mark: in a handler that has armed the alarm.  chain: in one  *)
(* that has no context to jump to.  catch: in a COFFEE_CATCH block.  wait:  *)
(* there, asking for memory.  cancel: the mark is taken and alarm(0) is     *)
(* next.                                                                    *)
PCs == {"work", "heap", "mark", "chain", "catch", "wait", "cancel"}

At(t, labels) == ~dead /\ pc[t] \in labels
Goto(t, label) == pc' = [pc EXCEPT ![t] = label]

Init ==
    /\ timer = FALSE
    /\ alarmPending = FALSE
    /\ heap = Unlocked
    /\ pc = [t \in Threads |-> "work"]
    /\ back = [t \in Threads |-> "work"]
    /\ crashes = 0
    /\ dead = FALSE
    /\ watched = {}

(* The program allocates; a crash may come in between.                      *)
Allocate(t) ==
    /\ At(t, {"work"}) /\ heap = Unlocked
    /\ heap' = t
    /\ Goto(t, "heap")
    /\ UNCHANGED <<timer, alarmPending, back, crashes, dead, watched>>

Allocated(t) ==
    /\ At(t, {"heap"})
    /\ heap' = Unlocked
    /\ Goto(t, "work")
    /\ UNCHANGED <<timer, alarmPending, back, crashes, dead, watched>>

(* coffeecatch_start_alarm(), first thing in the handler, wherever the      *)
(* crash was.  It is not counted as watched if a cancellation is already on *)
(* its way.                                                                 *)
StartAlarm(t) ==
    /\ At(t, {"work", "heap", "catch"})
    /\ crashes < MaxCrashes
    /\ crashes' = crashes + 1
    /\ timer' = TRUE
    /\ watched' = IF \E u \in Threads : pc[u] = "cancel"
                  THEN watched ELSE watched \cup {t}
    /\ back' = [back EXCEPT ![t] = IF pc[t] = "catch" THEN "catch" ELSE "work"]
    /\ Goto(t, "mark")
    /\ UNCHANGED <<alarmPending, heap, dead>>

(* coffeecatch_mark_alarm(), if the thread has a structure; then the        *)
(* recovery, or from a COFFEE_CATCH block, whose context is used up, the    *)
(* last resort.                                                             *)
MarkAlarm(t) ==
    /\ At(t, {"mark"})
    /\ alarmPending' = TRUE
    /\ Goto(t, IF back[t] = "catch" THEN "chain" ELSE "catch")
    /\ UNCHANGED <<timer, heap, back, crashes, dead, watched>>

(* A crash outside every block: there is no structure, and the alarm runs   *)
(* without a mark.                                                          *)
Unclaimed(t) ==
    /\ At(t, {"mark"})
    /\ back[t] = "work"
    /\ Goto(t, "chain")
    /\ UNCHANGED <<timer, alarmPending, heap, back, crashes, dead, watched>>

(* The host's handler jumps back to the program, or the process is aborted. *)
Chain(t) ==
    /\ At(t, {"chain"})
    /\ \/ Goto(t, back[t]) /\ UNCHANGED dead
       \/ dead' = TRUE /\ UNCHANGED pc
    /\ UNCHANGED <<timer, alarmPending, heap, back, crashes, watched>>

(* The COFFEE_CATCH block needs memory, and gets it if the lock is free.    *)
NeedMemory(t) ==
    /\ At(t, {"catch"})
    /\ Goto(t, "wait")
    /\ UNCHANGED <<timer, alarmPending, heap, back, crashes, dead, watched>>

GetMemory(t) ==
    /\ At(t, {"wait"}) /\ heap = Unlocked
    /\ Goto(t, "catch")
    /\ UNCHANGED <<timer, alarmPending, heap, back, crashes, dead, watched>>

(* Mutant: the end of a block takes the alarm with it.                      *)
BugEnd(t) ==
    /\ At(t, {"catch"})
    /\ timer' = FALSE /\ alarmPending' = FALSE
    /\ Goto(t, "work")
    /\ UNCHANGED <<heap, back, crashes, dead, watched>>

(* COFFEE_END(): the alarm and its mark stay.                               *)
End(t) ==
    /\ At(t, {"catch"})
    /\ Goto(t, "work")
    /\ UNCHANGED <<timer, alarmPending, heap, back, crashes, dead, watched>>

(* Mutants: the alarm is disarmed whether or not it is marked; the handler  *)
(* cancels as well.                                                         *)
BugTakeMark(t) ==
    /\ t \in Cancellers
    /\ At(t, {"work", "catch"})
    /\ alarmPending' = FALSE
    /\ IF alarmPending
       THEN /\ Goto(t, "cancel") /\ back' = [back EXCEPT ![t] = pc[t]]
            /\ watched' = {} /\ UNCHANGED timer
       ELSE timer' = FALSE /\ UNCHANGED <<pc, back, watched>>
    /\ UNCHANGED <<heap, crashes, dead>>

BugTakeAnywhere(t) ==
    /\ t \in Cancellers
    /\ At(t, {"work", "mark", "catch"})
    /\ alarmPending
    /\ alarmPending' = FALSE
    /\ back' = [back EXCEPT ![t] = pc[t]]
    /\ Goto(t, "cancel")
    /\ watched' = {}
    /\ UNCHANGED <<timer, heap, crashes, dead>>

(* coffeecatch_cancel_pending_alarm(), from a catch block or after it: the  *)
(* mark is exchanged; without one the call returns -1 ...                   *)
TakeMark(t) ==
    /\ t \in Cancellers
    /\ At(t, {"work", "catch"})
    /\ alarmPending
    /\ alarmPending' = FALSE
    /\ back' = [back EXCEPT ![t] = pc[t]]
    /\ Goto(t, "cancel")
    /\ watched' = {}
    /\ UNCHANGED <<timer, heap, crashes, dead>>

(* ... and with one it disarms the alarm and returns 0.                     *)
Disarm(t) ==
    /\ At(t, {"cancel"})
    /\ timer' = FALSE
    /\ Goto(t, back[t])
    /\ UNCHANGED <<alarmPending, heap, back, crashes, dead, watched>>

(* SIGALRM: nobody handles it, so it kills the process.                     *)
Expire ==
    /\ ~dead /\ timer
    /\ dead' = TRUE
    /\ UNCHANGED <<timer, alarmPending, heap, pc, back, crashes, watched>>

ThreadStep(t) ==
    \/ Allocate(t) \/ Allocated(t) \/ StartAlarm(t) \/ MarkAlarm(t)
    \/ Unclaimed(t) \/ Chain(t) \/ NeedMemory(t) \/ GetMemory(t) \/ End(t)
    \/ TakeMark(t) \/ Disarm(t)

Next ==
    \/ \E t \in Threads : ThreadStep(t)
    \/ Expire

Spec == Init /\ [][Next]_vars

(* The kernel's clock runs, and a thread inside the library goes on.  Every *)
(* crash arms the alarm afresh, so "the alarm expires" is fair only because *)
(* a behaviour has at most MaxCrashes of them.                              *)
FairSpec ==
    /\ Spec
    /\ WF_vars(Expire)
    /\ \A t \in Threads :
           WF_vars(MarkAlarm(t) \/ Unclaimed(t) \/ Chain(t) \/ Disarm(t))

---------------------------------------------------------------------------
(* Every variable keeps its type.                                           *)
TypeOK ==
    /\ timer \in BOOLEAN
    /\ alarmPending \in BOOLEAN
    /\ heap \in Threads \cup {Unlocked}
    /\ pc \in [Threads -> PCs]
    /\ back \in [Threads -> {"work", "catch"}]
    /\ crashes \in 0 .. MaxCrashes
    /\ dead \in BOOLEAN
    /\ watched \subseteq Threads

(* A crash that no cancellation has overlapped or followed keeps the        *)
(* process under the alarm, however many other threads crash, recover and   *)
(* close their blocks.                                                      *)
WatchedIsTimed ==
    watched # {} => timer /\ \A u \in Threads : pc[u] # "cancel"

(* A recovery never hangs for ever: a catch block that waits for the lock   *)
(* of an allocator somebody crashed in gets out of it one way or another,   *)
(* or the process is killed; unless somebody cancels the alarm.             *)
NoHang ==
    \A t \in Threads :
        pc[t] = "wait" /\ t \in watched ~>
            dead \/ pc[t] # "wait" \/ t \notin watched

(* "Returns 0 if an alarm was pending and is now cancelled": the alarm is   *)
(* running when a cancellation that is going to return 0 disarms it.        *)
CancelsSomething ==
    [][\A t \in Threads : pc[t] = "cancel" /\ pc'[t] # "cancel" => timer]_vars

=============================================================================
