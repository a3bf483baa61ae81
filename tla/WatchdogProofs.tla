---------------------------- MODULE WatchdogProofs ----------------------------
(***************************************************************************)
(* Proofs about Watchdog, for every set of threads, every set of those     *)
(* that cancel, and every number of crashes.                               *)
(***************************************************************************)
EXTENDS Watchdog, TLAPS

USE DEF At, Goto

(* Every variable keeps its type: a cancellation returns to where it began, *)
(* which is in the program.                                                 *)
THEOREM TypeCorrect == Spec => []TypeOK
<1>1. Init => TypeOK
  <2> SUFFICES ASSUME Init PROVE TypeOK
    OBVIOUS
  <2>1. pc \in [Threads -> PCs] /\ back \in [Threads -> {"work", "catch"}]
    BY DEF Init, PCs
  <2>2. crashes \in 0 .. MaxCrashes
    BY CrashesAssumption DEF Init
  <2>3. timer \in BOOLEAN /\ alarmPending \in BOOLEAN /\ dead \in BOOLEAN
    BY DEF Init
  <2>4. heap \in Threads \cup {Unlocked} /\ watched \subseteq Threads
    BY DEF Init
  <2>5. QED
    BY <2>1, <2>2, <2>3, <2>4 DEF TypeOK
<1>2. TypeOK /\ [Next]_vars => TypeOK'
  <2> SUFFICES ASSUME TypeOK, [Next]_vars PROVE TypeOK'
    OBVIOUS
  <2> USE CrashesAssumption, CancellersAssumption DEF TypeOK, PCs
  <2>1. CASE UNCHANGED vars
    BY <2>1 DEF vars
  <2>2. ASSUME NEW t \in Threads, Allocate(t) \/ Allocated(t) PROVE TypeOK'
    BY <2>2 DEF Allocate, Allocated
  <2>3. ASSUME NEW t \in Threads, StartAlarm(t) PROVE TypeOK'
    BY <2>3 DEF StartAlarm
  <2>4. ASSUME NEW t \in Threads, MarkAlarm(t) \/ Unclaimed(t) \/ Chain(t)
        PROVE  TypeOK'
    BY <2>4 DEF MarkAlarm, Unclaimed, Chain
  <2>5. ASSUME NEW t \in Threads, NeedMemory(t) \/ GetMemory(t) \/ End(t)
        PROVE  TypeOK'
    BY <2>5 DEF NeedMemory, GetMemory, End
  <2>6. ASSUME NEW t \in Threads, TakeMark(t) \/ Disarm(t) PROVE TypeOK'
    BY <2>6 DEF TakeMark, Disarm
  <2>7. CASE Expire
    BY <2>7 DEF Expire
  <2>8. QED
    BY <2>1, <2>2, <2>3, <2>4, <2>5, <2>6, <2>7 DEF Next, ThreadStep
<1>3. QED
  BY <1>1, <1>2, PTL DEF Spec

(* A crash is watched only while the alarm runs and no cancellation is on   *)
(* its way.  It is inductive with the types: the one step that stops the    *)
(* alarm is that of a cancelling thread, and then nobody is watched.        *)
THEOREM WatchedCorrect == Spec => []WatchedIsTimed
<1>1. Init => WatchedIsTimed
  BY DEF Init, WatchedIsTimed
<1>2. TypeOK /\ WatchedIsTimed /\ [Next]_vars => WatchedIsTimed'
  <2> SUFFICES ASSUME TypeOK, WatchedIsTimed, [Next]_vars
               PROVE  WatchedIsTimed'
    OBVIOUS
  <2> USE DEF TypeOK, WatchedIsTimed
  <2>1. CASE UNCHANGED vars
    BY <2>1 DEF vars
  <2>2. ASSUME NEW t \in Threads, Allocate(t) \/ Allocated(t)
        PROVE  WatchedIsTimed'
    BY <2>2 DEF Allocate, Allocated
  <2>3. ASSUME NEW t \in Threads, StartAlarm(t) PROVE WatchedIsTimed'
    <3>1. timer' = TRUE
      BY <2>3 DEF StartAlarm
    <3>2. CASE \E u \in Threads : pc[u] = "cancel"
      BY <2>3, <3>2 DEF StartAlarm
    <3>3. CASE \A u \in Threads : pc[u] # "cancel"
      BY <2>3, <3>1, <3>3 DEF StartAlarm
    <3>4. QED
      BY <3>2, <3>3
  <2>4. ASSUME NEW t \in Threads, MarkAlarm(t) \/ Unclaimed(t) \/ Chain(t)
        PROVE  WatchedIsTimed'
    BY <2>4 DEF MarkAlarm, Unclaimed, Chain
  <2>5. ASSUME NEW t \in Threads, NeedMemory(t) \/ GetMemory(t) \/ End(t)
        PROVE  WatchedIsTimed'
    BY <2>5 DEF NeedMemory, GetMemory, End
  <2>6. ASSUME NEW t \in Threads, TakeMark(t) PROVE WatchedIsTimed'
    BY <2>6 DEF TakeMark
  <2>7. ASSUME NEW t \in Threads, Disarm(t) PROVE WatchedIsTimed'
    <3>1. watched = {}
      BY <2>7 DEF Disarm
    <3>2. QED
      BY <2>7, <3>1 DEF Disarm
  <2>8. CASE Expire
    BY <2>8 DEF Expire
  <2>9. QED
    BY <2>1, <2>2, <2>3, <2>4, <2>5, <2>6, <2>7, <2>8 DEF Next, ThreadStep
<1>3. QED
  BY <1>1, <1>2, TypeCorrect, PTL DEF Spec

=============================================================================
