---------------------------- MODULE RegistryProofs ----------------------------
(***************************************************************************)
(* Proofs about Registry, for every number of threads and of signals,      *)
(* every set of host dispositions and every set of failing calls.          *)
(***************************************************************************)
EXTENDS Registry, FiniteSetTheorems, TLAPS

USE ThreadsAssumption, SignalsAssumption DEF At, Goto, SIGABRT

(***************************************************************************)
(* Facts about the constants.                                              *)
(***************************************************************************)
(* The library's disposition is none of the host's.                         *)
LEMMA ConstantFacts ==
    /\ SIGABRT \in Signals
    /\ Default \in HostActions
    /\ Coffee \notin HostActions
    /\ HostActions \subseteq AllActions
    /\ Coffee \in AllActions
BY HostActionsAssumption DEF Signals, AllActions

(***************************************************************************)
(* Typing and the lock, together: the loop counter stays in range because  *)
(* one thread at a time runs the loop.                                     *)
(***************************************************************************)
(* The initial state is typed and the mutex is free.                        *)
LEMMA TypingInit == Init => TypeOK /\ LockInv
<1>1. SUFFICES ASSUME Init PROVE TypeOK /\ LockInv
  OBVIOUS
<1>2. TypeOK
  <2>1. host \in [Signals -> HostActions] /\ disposition \in [Signals -> AllActions]
    BY <1>1, ConstantFacts DEF Init
  <2>2. pc \in [Threads -> PCs] /\ specific \in [Threads -> BOOLEAN]
    BY <1>1 DEF Init, PCs
  <2>3. saOld \in [Signals -> AllActions] /\ sig \in [Threads -> Signals]
    BY <1>1, ConstantFacts DEF Init
  <2>4. /\ initialized \in Int /\ mutex \in Threads \cup {NoThread}
        /\ i \in 1 .. SIG_CATCH_COUNT + 1 /\ count \in 0 .. SIG_CATCH_COUNT
    BY <1>1 DEF Init
  <2>5. allocated \in BOOLEAN /\ key \in BOOLEAN /\ ok \in BOOLEAN
    BY <1>1 DEF Init
  <2>6. previous \in AllActions /\ dead \in BOOLEAN /\ aborting \in BOOLEAN
    BY <1>1, ConstantFacts DEF Init
  <2>7. QED
    BY <2>1, <2>2, <2>3, <2>4, <2>5, <2>6 DEF TypeOK
<1>3. LockInv
  BY <1>1 DEF Init, LockInv, LockedPCs, SetupPCs, ReleasePCs
<1>4. QED
  BY <1>2, <1>3

(* Every step keeps the types and the lock's discipline, action by action.  *)
LEMMA TypingStep == TypeOK /\ LockInv /\ [Next]_vars => TypeOK' /\ LockInv'
<1> SUFFICES ASSUME TypeOK, LockInv, [Next]_vars
             PROVE  TypeOK' /\ LockInv'
  OBVIOUS
<1> USE ConstantFacts DEF TypeOK, LockInv, shared, table, locals, outside,
        PCs, LockedPCs, SetupPCs, ReleasePCs, HandlerPCs, HolderPCs
<1>1. CASE UNCHANGED vars
  BY <1>1 DEF vars
<1>2. ASSUME NEW t \in Threads, Get(t) PROVE TypeOK' /\ LockInv'
  BY <1>2 DEF Get
<1>3. ASSUME NEW t \in Threads, GetKey(t) PROVE TypeOK' /\ LockInv'
  BY <1>3 DEF GetKey
<1>4. ASSUME NEW t \in Threads, Lock(t) PROVE TypeOK' /\ LockInv'
  BY <1>4 DEF Lock
<1>5. ASSUME NEW t \in Threads, SetupShared(t) PROVE TypeOK' /\ LockInv'
  BY <1>5 DEF SetupShared
<1>6. ASSUME NEW t \in Threads, SetupFirst(t) PROVE TypeOK' /\ LockInv'
  <2>1. saOld' \in [Signals -> AllActions] /\ i' \in 1 .. SIG_CATCH_COUNT + 1
    BY <1>6 DEF SetupFirst
  <2>2. i' \in Signals
    BY <1>6 DEF SetupFirst, Signals
  <2>3. CASE Goto(t, "install")
    BY <1>6, <2>1, <2>2, <2>3 DEF SetupFirst
  <2>4. CASE Goto(t, "unlockFail")
    BY <1>6, <2>1, <2>2, <2>4 DEF SetupFirst
  <2>5. QED
    BY <1>6, <2>3, <2>4 DEF SetupFirst
<1>7. ASSUME NEW t \in Threads, Install(t) PROVE TypeOK' /\ LockInv'
  BY <1>7 DEF Install
<1>8. ASSUME NEW t \in Threads, Save(t) PROVE TypeOK' /\ LockInv'
  BY <1>8 DEF Save, Signals
<1>9. ASSUME NEW t \in Threads, SetupFails(t) PROVE TypeOK' /\ LockInv'
  BY <1>9 DEF SetupFails, Signals
<1>10. ASSUME NEW t \in Threads, MakeKey(t) PROVE TypeOK' /\ LockInv'
  BY <1>10 DEF MakeKey
<1>11. ASSUME NEW t \in Threads, Bump(t) PROVE TypeOK' /\ LockInv'
  BY <1>11 DEF Bump
<1>12. ASSUME NEW t \in Threads, UnlockSetup(t) PROVE TypeOK' /\ LockInv'
  BY <1>12 DEF UnlockSetup
<1>13. ASSUME NEW t \in Threads, StructInit(t) PROVE TypeOK' /\ LockInv'
  BY <1>13 DEF StructInit
<1>14. ASSUME NEW t \in Threads, SetSpecific(t) PROVE TypeOK' /\ LockInv'
  <2>1. /\ specific' \in [Threads -> BOOLEAN]
        /\ Goto(t, "session") \/ Goto(t, "relLock")
    BY <1>14 DEF SetSpecific
  <2>2. QED
    BY <1>14, <2>1 DEF SetSpecific
<1>15. ASSUME NEW t \in Threads, Cleanup(t) PROVE TypeOK' /\ LockInv'
  BY <1>15 DEF Cleanup
<1>16. ASSUME NEW t \in Threads, ReleaseLock(t) PROVE TypeOK' /\ LockInv'
  BY <1>16 DEF ReleaseLock
<1>17. ASSUME NEW t \in Threads, Drop(t) PROVE TypeOK' /\ LockInv'
  <2>1. CASE initialized = 1
    BY <1>17, <2>1 DEF Drop
  <2>2. CASE initialized # 1
    BY <1>17, <2>2 DEF Drop
  <2>3. QED
    BY <2>1, <2>2
<1>18. ASSUME NEW t \in Threads, RestoreOne(t) PROVE TypeOK' /\ LockInv'
  <2>1. i \in Signals /\ i' \in 1 .. SIG_CATCH_COUNT + 1
    BY <1>18 DEF RestoreOne, Signals
  <2>2. disposition' \in [Signals -> AllActions] /\ ok' \in BOOLEAN
    BY <1>18, <2>1 DEF RestoreOne
  <2>3. \A u \in Threads : pc[u] \notin {"install", "save"}
    BY <1>18 DEF RestoreOne
  <2>4. QED
    BY <1>18, <2>1, <2>2, <2>3 DEF RestoreOne
<1>19. ASSUME NEW t \in Threads, FreeTable(t) PROVE TypeOK' /\ LockInv'
  <2>1. \/ UNCHANGED <<allocated, saOld>>
        \/ allocated' = FALSE /\ saOld' = [s \in Signals |-> Default]
    BY <1>19 DEF FreeTable
  <2>2. allocated' \in BOOLEAN /\ saOld' \in [Signals -> AllActions]
    <3>1. CASE UNCHANGED <<allocated, saOld>>
      BY <3>1
    <3>2. CASE allocated' = FALSE /\ saOld' = [s \in Signals |-> Default]
      BY <3>2
    <3>3. QED
      BY <2>1, <3>1, <3>2
  <2>3. CASE pc[t] = "restore"
    BY <1>19, <2>2, <2>3 DEF FreeTable
  <2>4. CASE pc[t] = "rollback"
    BY <1>19, <2>2, <2>4 DEF FreeTable
  <2>5. QED
    BY <1>19, <2>3, <2>4 DEF FreeTable
<1>20. ASSUME NEW t \in Threads, DeleteKey(t) PROVE TypeOK' /\ LockInv'
  BY <1>20 DEF DeleteKey
<1>21. ASSUME NEW t \in Threads, ReleaseUnlock(t) PROVE TypeOK' /\ LockInv'
  BY <1>21 DEF ReleaseUnlock
<1>22. ASSUME NEW t \in Threads, NEW s \in Signals, Crash(t, s)
       PROVE  TypeOK' /\ LockInv'
  BY <1>22 DEF Crash
<1>23. ASSUME NEW t \in Threads, HandlerGet(t) PROVE TypeOK' /\ LockInv'
  BY <1>23 DEF HandlerGet
<1>24. ASSUME NEW t \in Threads, HandlerGetKey(t) PROVE TypeOK' /\ LockInv'
  BY <1>24 DEF HandlerGetKey
<1>25. ASSUME NEW t \in Threads, CallOldHandler(t) PROVE TypeOK' /\ LockInv'
  <2>1. pc' = pc \/ \E label \in {"hget", "hcall", "hdfl"} : Goto(t, label)
    BY <1>25 DEF CallOldHandler
  <2>2. dead' \in BOOLEAN
    BY <1>25 DEF CallOldHandler
  <2>3. QED
    BY <1>25, <2>1, <2>2 DEF CallOldHandler
<1>26. ASSUME NEW t \in Threads, OldHandlerReturns(t) PROVE TypeOK' /\ LockInv'
  <2>1. \/ pc' = pc /\ sig' = sig
        \/ sig' = sig /\ Goto(t, "hdfl")
        \/ /\ \E label \in {"session", "out"} : Goto(t, label)
           /\ sig' = [sig EXCEPT ![t] = SIGABRT]
    BY <1>26 DEF OldHandlerReturns
  <2>2. dead' \in BOOLEAN /\ sig' \in [Threads -> Signals]
    BY <1>26, <2>1 DEF OldHandlerReturns
  <2>3. QED
    BY <1>26, <2>1, <2>2 DEF OldHandlerReturns
<1>27. ASSUME NEW t \in Threads, GiveUp(t) PROVE TypeOK' /\ LockInv'
  BY <1>27 DEF GiveUp
<1>28. ASSUME NEW t \in Threads, Abort(t) PROVE TypeOK' /\ LockInv'
  <2>1. \/ pc' = pc /\ sig' = sig
        \/ Goto(t, "hget") /\ sig' = [sig EXCEPT ![t] = SIGABRT]
    BY <1>28 DEF Abort
  <2>2. dead' \in BOOLEAN /\ sig' \in [Threads -> Signals]
    BY <1>28, <2>1 DEF Abort
  <2>3. QED
    BY <1>28, <2>1, <2>2 DEF Abort
<1>29. ASSUME NEW s \in Signals, NEW action \in HostActions,
              HostSigaction(s, action)
       PROVE  TypeOK' /\ LockInv'
  BY <1>29 DEF HostSigaction
<1>30. QED
  BY <1>1, <1>2, <1>3, <1>4, <1>5, <1>6, <1>7, <1>8, <1>9, <1>10, <1>11,
     <1>12, <1>13, <1>14, <1>15, <1>16, <1>17, <1>18, <1>19, <1>20, <1>21,
     <1>22, <1>23, <1>24, <1>25, <1>26, <1>27, <1>28, <1>29
     DEF Next, LibraryStep, UserStep, SetupStep, ReleaseStep, HandlerStep, Killed

(***************************************************************************)
(* Structures: a thread has one in its session, or after a crash in it.    *)
(***************************************************************************)
(* Every step keeps StructureInv.                                           *)
LEMMA StructureStep ==
    TypeOK /\ StructureInv /\ [Next]_vars => StructureInv'
<1> SUFFICES ASSUME TypeOK, StructureInv, [Next]_vars PROVE StructureInv'
  OBVIOUS
<1> USE DEF TypeOK, StructureInv, HandlerPCs, outside
<1>1. CASE UNCHANGED vars
  BY <1>1 DEF vars
<1>2. ASSUME NEW t \in Threads, SetupStep(t) PROVE StructureInv'
  BY <1>2 DEF SetupStep, Lock, SetupShared, SetupFirst, Install, Save, MakeKey,
              SetupFails, Bump, UnlockSetup, StructInit, SetSpecific
<1>3. ASSUME NEW t \in Threads, ReleaseStep(t) PROVE StructureInv'
  BY <1>3 DEF ReleaseStep, ReleaseLock, Drop, RestoreOne, FreeTable, DeleteKey,
              ReleaseUnlock
<1>4. ASSUME NEW t \in Threads, HandlerStep(t) PROVE StructureInv'
  BY <1>4 DEF HandlerStep, HandlerGet, HandlerGetKey, CallOldHandler,
              OldHandlerReturns, GiveUp, Abort
<1>5. ASSUME NEW t \in Threads, UserStep(t) \/ GetKey(t) PROVE StructureInv'
  BY <1>5 DEF UserStep, Get, GetKey, Cleanup, Crash
<1>6. ASSUME NEW s \in Signals, NEW action \in HostActions,
             HostSigaction(s, action)
      PROVE  StructureInv'
  BY <1>6 DEF HostSigaction
<1>7. QED
  BY <1>1, <1>2, <1>3, <1>4, <1>5, <1>6 DEF Next, LibraryStep, Killed

(***************************************************************************)
(* The reference count.  Only Bump and Drop change it, and they change the *)
(* set of holders with it.                                                 *)
(***************************************************************************)
(* There are finitely many holders, so their number is a natural number.    *)
LEMMA HoldersFinite == IsFiniteSet(Holders) /\ Cardinality(Holders) \in Nat
BY FS_Subset, FS_CardinalityType DEF Holders

(* No step but Bump and Drop changes who holds a reference, or the count.   *)
LEMMA HoldersKept ==
    ASSUME TypeOK, StructureInv, [Next]_vars,
           \A t \in Threads : ~Bump(t) /\ ~Drop(t)
    PROVE  UNCHANGED <<Holders, initialized>>
<1> USE DEF TypeOK, HandlerPCs, HolderPCs, outside, shared, Holders, StructureInv
<1>1. CASE UNCHANGED vars
  BY <1>1 DEF vars
<1>2. ASSUME NEW t \in Threads, SetupStep(t)
      PROVE  UNCHANGED <<Holders, initialized>>
  BY <1>2 DEF SetupStep, Lock, SetupShared, SetupFirst, Install, Save,
              MakeKey, SetupFails, UnlockSetup, StructInit, SetSpecific
<1>3. ASSUME NEW t \in Threads, ReleaseStep(t)
      PROVE  UNCHANGED <<Holders, initialized>>
  BY <1>3 DEF ReleaseStep, ReleaseLock, RestoreOne, FreeTable, DeleteKey,
              ReleaseUnlock
<1>4. ASSUME NEW t \in Threads, HandlerStep(t)
      PROVE  UNCHANGED <<Holders, initialized>>
  BY <1>4 DEF HandlerStep, HandlerGet, HandlerGetKey, CallOldHandler,
              OldHandlerReturns, GiveUp, Abort
<1>5. ASSUME NEW t \in Threads, UserStep(t) \/ GetKey(t)
      PROVE  UNCHANGED <<Holders, initialized>>
  BY <1>5 DEF UserStep, Get, GetKey, Cleanup, Crash
<1>6. ASSUME NEW s \in Signals, NEW action \in HostActions,
             HostSigaction(s, action)
      PROVE  UNCHANGED <<Holders, initialized>>
  BY <1>6 DEF HostSigaction
<1>7. QED
  BY <1>1, <1>2, <1>3, <1>4, <1>5, <1>6 DEF Next, LibraryStep, Killed

(* Bump makes one thread a holder that was none.                            *)
LEMMA BumpAddsHolder ==
    ASSUME TypeOK, StructureInv, NEW t \in Threads, Bump(t)
    PROVE  t \notin Holders /\ Holders' = Holders \cup {t}
BY DEF TypeOK, StructureInv, Bump, Holders, HolderPCs, HandlerPCs, outside

(* Drop takes one holder out.                                               *)
LEMMA DropRemovesHolder ==
    ASSUME TypeOK, StructureInv, NEW t \in Threads, Drop(t)
    PROVE  t \in Holders /\ Holders' = Holders \ {t}
BY DEF TypeOK, StructureInv, Drop, Holders, HolderPCs, HandlerPCs, outside

(* Every step keeps the count equal to the number of holders.               *)
LEMMA RefcountStep ==
    TypeOK /\ StructureInv /\ RefcountExact /\ [Next]_vars => RefcountExact'
<1> SUFFICES ASSUME TypeOK, StructureInv, RefcountExact, [Next]_vars
             PROVE  RefcountExact'
  OBVIOUS
<1>1. ASSUME NEW t \in Threads, Bump(t) PROVE RefcountExact'
  <2>1. Cardinality(Holders') = Cardinality(Holders) + 1
    BY <1>1, BumpAddsHolder, HoldersFinite, FS_AddElement
  <2>2. QED
    BY <1>1, <2>1 DEF Bump, RefcountExact
<1>2. ASSUME NEW t \in Threads, Drop(t) PROVE RefcountExact'
  <2>1. Cardinality(Holders') = Cardinality(Holders) - 1
    BY <1>2, DropRemovesHolder, HoldersFinite, FS_RemoveElement
  <2>2. QED
    BY <1>2, <2>1 DEF Drop, RefcountExact
<1>3. CASE \A t \in Threads : ~Bump(t) /\ ~Drop(t)
  BY <1>3, HoldersKept DEF RefcountExact
<1>4. QED
  BY <1>1, <1>2, <1>3

(***************************************************************************)
(* The lock serves two more proofs: a step outside it cannot disturb what  *)
(* its owner is doing.                                                     *)
(***************************************************************************)

(* What a step outside the lock leaves alone.                              *)
Quiet ==
    /\ UNCHANGED <<initialized, mutex, allocated, saOld, key, i, count, ok,
                   previous, host>>
    /\ Phase' = Phase

(* The steps a thread takes outside the lock.                              *)
Outside(t) ==
    \/ GetKey(t) \/ StructInit(t) \/ SetSpecific(t)
    \/ UserStep(t) \/ HandlerStep(t)

(* A step outside the lock leaves the registry as it is; only giving up     *)
(* changes a disposition.                                                   *)
LEMMA OutsideIsQuiet ==
    ASSUME TypeOK, LockInv, NEW t \in Threads, Outside(t)
    PROVE  /\ Quiet
           /\ UNCHANGED <<disposition, aborting>> \/ GiveUp(t)
<1> USE DEF outside, shared, table, locals
<1>1. mutex # t
  BY DEF Outside, UserStep, HandlerStep, GetKey, StructInit, SetSpecific, Get,
         Cleanup, Crash, HandlerGet, HandlerGetKey, CallOldHandler,
         OldHandlerReturns, GiveUp, Abort, LockInv, LockedPCs, SetupPCs,
         ReleasePCs
<1>2. \A u \in Threads \ {t} : pc'[u] = pc[u]
  BY DEF TypeOK, Outside, UserStep, HandlerStep, GetKey, StructInit,
         SetSpecific, Get, Cleanup, Crash, HandlerGet, HandlerGetKey,
         CallOldHandler, OldHandlerReturns, GiveUp, Abort
<1>3. UNCHANGED <<initialized, mutex, allocated, saOld, key, i, count, ok,
                  previous, host>>
  BY DEF Outside, UserStep, HandlerStep, GetKey, StructInit, SetSpecific, Get,
         Cleanup, Crash, HandlerGet, HandlerGetKey, CallOldHandler,
         OldHandlerReturns, GiveUp, Abort
<1>4. Phase' = Phase
  BY <1>1, <1>2, <1>3 DEF Phase, TypeOK
<1>5. UNCHANGED <<disposition, aborting>> \/ GiveUp(t)
  BY DEF Outside, UserStep, HandlerStep, GetKey, StructInit, SetSpecific, Get,
         Cleanup, Crash, HandlerGet, HandlerGetKey, CallOldHandler,
         OldHandlerReturns, Abort
<1>6. QED
  BY <1>3, <1>4, <1>5 DEF Quiet

(* Inside the lock, the owner's program counter is the phase, before the   *)
(* step and, unless the step unlocks, after it.                            *)
LEMMA OwnerPhase ==
    ASSUME TypeOK, LockInv, NEW t \in Threads, pc[t] \in LockedPCs
    PROVE  mutex = t /\ Phase = pc[t]
BY DEF LockInv, Phase

(* The count never goes below zero: coffeecatch_release_global()'s assertion. *)
LEMMA CountIsNat == RefcountExact => initialized \in Nat
BY HoldersFinite DEF RefcountExact

(* Every step keeps the key and the count together.                         *)
LEMMA KeyStep ==
    TypeOK /\ LockInv /\ StructureInv /\ RefcountExact /\ KeyInv /\ [Next]_vars
        => KeyInv'
<1> SUFFICES ASSUME TypeOK, LockInv, StructureInv, RefcountExact, KeyInv,
                    [Next]_vars
             PROVE  KeyInv'
  OBVIOUS
<1> USE CountIsNat DEF TypeOK, KeyInv, Settled, Building, shared, table,
        locals, outside
<1> DEFINE Inside(t) == pc[t] \in LockedPCs /\ mutex = t /\ Phase = pc[t]
<1>1. ASSUME UNCHANGED <<initialized, key>>, Phase' = Phase PROVE KeyInv'
  BY <1>1
<1>2. CASE UNCHANGED vars
  BY <1>1, <1>2 DEF vars, Phase
<1>3. ASSUME NEW t \in Threads, Outside(t) PROVE KeyInv'
  BY <1>1, <1>3, OutsideIsQuiet DEF Quiet
<1>4. ASSUME NEW t \in Threads, pc[t] \in LockedPCs PROVE Inside(t)
  BY <1>4, OwnerPhase
<1>5. ASSUME NEW t \in Threads, Lock(t) \/ ReleaseLock(t) PROVE KeyInv'
  BY <1>5 DEF Lock, ReleaseLock, Phase
<1>6. ASSUME NEW t \in Threads,
             \/ SetupShared(t) \/ SetupFirst(t) \/ Install(t) \/ Save(t)
             \/ SetupFails(t) \/ MakeKey(t)
      PROVE  KeyInv'
  <2>1. Inside(t)
    BY <1>4, <1>6 DEF LockedPCs, SetupPCs, SetupShared, SetupFirst, Install,
                      Save, SetupFails, MakeKey
  <2>2. mutex' = t /\ Phase' = pc'[t]
    BY <1>6, <2>1 DEF Phase, SetupShared, SetupFirst, Install, Save,
                      SetupFails, MakeKey
  <2>3. QED
    BY <1>6, <2>1, <2>2 DEF SetupShared, SetupFirst, Install, Save,
                            SetupFails, MakeKey
<1>7. ASSUME NEW t \in Threads, Bump(t) PROVE KeyInv'
  <2>1. Inside(t) /\ Phase' = pc'[t]
    BY <1>4, <1>7 DEF LockedPCs, SetupPCs, Bump, Phase
  <2>2. QED
    BY <1>7, <2>1 DEF Bump
<1>8. ASSUME NEW t \in Threads, UnlockSetup(t) \/ ReleaseUnlock(t)
      PROVE  KeyInv'
  <2>1. Inside(t) /\ Phase' = "free"
    BY <1>4, <1>8 DEF LockedPCs, SetupPCs, ReleasePCs, UnlockSetup,
                      ReleaseUnlock, Phase
  <2>2. QED
    BY <1>8, <2>1 DEF UnlockSetup, ReleaseUnlock
<1>9. ASSUME NEW t \in Threads, Drop(t) PROVE KeyInv'
  <2>1. Inside(t) /\ Phase' = pc'[t]
    BY <1>4, <1>9 DEF LockedPCs, ReleasePCs, Drop, Phase
  <2>2. initialized # 0
    <3>1. t \in Holders
      BY <1>9 DEF Drop, Holders, HolderPCs
    <3>2. QED
      BY <3>1, HoldersFinite, FS_EmptySet DEF RefcountExact
  <2>3. QED
    BY <1>9, <2>1, <2>2 DEF Drop
<1>10. ASSUME NEW t \in Threads,
              RestoreOne(t) \/ FreeTable(t) \/ DeleteKey(t)
       PROVE  KeyInv'
  <2>1. Inside(t)
    BY <1>4, <1>10 DEF LockedPCs, SetupPCs, ReleasePCs, RestoreOne, FreeTable,
                       DeleteKey
  <2>2. Phase' = pc'[t]
    BY <1>10, <2>1 DEF Phase, RestoreOne, FreeTable, DeleteKey
  <2>3. QED
    BY <1>10, <2>1, <2>2 DEF RestoreOne, FreeTable, DeleteKey
<1>11. ASSUME NEW s \in Signals, NEW action \in HostActions,
              HostSigaction(s, action)
       PROVE  KeyInv'
  BY <1>1, <1>11 DEF HostSigaction, Phase
<1>12. QED
  BY <1>2, <1>3, <1>5, <1>6, <1>7, <1>8, <1>9, <1>10, <1>11
     DEF Next, LibraryStep, SetupStep, ReleaseStep, Outside, Killed

(***************************************************************************)
(* What holds whichever calls fail.                                        *)
(***************************************************************************)
(* The initial state satisfies CountingInv.                                 *)
LEMMA CountingInit == Init => CountingInv
<1> SUFFICES ASSUME Init PROVE CountingInv
  OBVIOUS
<1>1. TypeOK /\ LockInv
  BY TypingInit
<1>2. StructureInv
  BY DEF Init, StructureInv
<1>3. RefcountExact
  <2>1. Holders = {}
    BY DEF Init, Holders, HolderPCs, HandlerPCs
  <2>2. QED
    BY <2>1, FS_EmptySet DEF Init, RefcountExact
<1>4. KeyInv
  BY DEF Init, KeyInv, Phase, Settled, Building
<1>5. QED
  BY <1>1, <1>2, <1>3, <1>4 DEF CountingInv

(* Every step keeps all of CountingInv.                                     *)
LEMMA CountingStep == CountingInv /\ [Next]_vars => CountingInv'
BY TypingStep, StructureStep, RefcountStep, KeyStep DEF CountingInv

(* The counting half of the registry's invariant holds whichever calls fail. *)
THEOREM CountingInvariant == Spec => []CountingInv
BY CountingInit, CountingStep, PTL DEF Spec

(* Every variable keeps its type, in particular the setup loop never leaves *)
(* native_sig_catch.                                                        *)
THEOREM TypeCorrect == Spec => []TypeOK
<1>1. CountingInv => TypeOK
  BY DEF CountingInv
<1>2. QED
  BY <1>1, CountingInvariant, PTL

(* The reference count is the number of holders, however the threads        *)
(* interleave and whichever calls fail.                                     *)
THEOREM RefcountCorrect == Spec => []RefcountExact
<1>1. CountingInv => RefcountExact
  BY DEF CountingInv
<1>2. QED
  BY <1>1, CountingInvariant, PTL

(* No release takes the key from under an open session.                     *)
THEOREM StructuresCorrect == Spec => []StructureOwned
<1>1. CountingInv => StructureOwned
  <2> SUFFICES ASSUME CountingInv, NEW t \in Threads, specific[t]
               PROVE  t \in Holders /\ key
    BY DEF StructureOwned
  <2>1. t \in Holders
    BY DEF CountingInv, StructureInv, Holders, HolderPCs
  <2>2. initialized # 0
    BY <2>1, HoldersFinite, FS_EmptySet DEF CountingInv, RefcountExact
  <2>3. Phase \notin Building \cup {"restore", "delkey"}
    BY <2>2 DEF CountingInv, KeyInv
  <2>4. Phase \in Settled \cup {"bump"}
    BY <2>3 DEF CountingInv, TypeOK, LockInv, Phase, Settled, Building,
                LockedPCs, SetupPCs, ReleasePCs
  <2>5. QED
    BY <2>1, <2>2, <2>4 DEF CountingInv, KeyInv
<1>2. QED
  BY <1>1, CountingInvariant, PTL

(***************************************************************************)
(* The table and the dispositions, as long as restoring does not fail.     *)
(***************************************************************************)
(* Every step keeps TableInv.                                               *)
LEMMA TableStep ==
    ASSUME ~MayFail("restore"), CountingInv, TableInv, [Next]_vars
    PROVE  TableInv'
<1> USE CountIsNat, ConstantFacts DEF CountingInv, shared, table, locals, outside
<1> DEFINE Inside(t) == pc[t] \in LockedPCs /\ mutex = t /\ Phase = pc[t]
<1> DEFINE Parts == <<initialized, allocated, saOld, i, count, ok, previous,
                      disposition, host, aborting>>
<1>1. ASSUME UNCHANGED Parts, Phase' = Phase PROVE TableInv'
  BY <1>1 DEF TableInv, Taken, Untouched
<1>2. CASE UNCHANGED vars
  BY <1>1, <1>2 DEF vars, Phase
<1>3. ASSUME NEW t \in Threads, Outside(t) PROVE TableInv'
  <2>1. CASE UNCHANGED <<disposition, aborting>>
    BY <1>1, <1>3, <2>1, OutsideIsQuiet DEF Quiet
  <2>2. CASE GiveUp(t)
    <3>1. Quiet /\ aborting'
      BY <1>3, <2>2, OutsideIsQuiet DEF GiveUp
    <3>2. \A s \in Signals : Taken(s) => Taken(s)'
      BY <3>1 DEF Taken, Quiet
    <3>3. \A s \in Signals : Untouched(s) => Untouched(s)'
      BY <2>2, <3>1 DEF Untouched, GiveUp, TypeOK
    <3>4. Phase = "install" => i \in Signals
      BY DEF Phase, LockInv, TypeOK
    <3>5. QED
      BY <3>1, <3>2, <3>3, <3>4 DEF TableInv, Quiet
  <2>3. QED
    BY <1>3, <2>1, <2>2, OutsideIsQuiet
<1>4. ASSUME NEW t \in Threads, pc[t] \in LockedPCs PROVE Inside(t)
  BY <1>4, OwnerPhase
<1>5. ASSUME NEW t \in Threads, Lock(t) \/ ReleaseLock(t) PROVE TableInv'
  <2>1. Phase = "free" /\ Phase' \in {"setup", "dec"} /\ UNCHANGED Parts
    BY <1>5 DEF Lock, ReleaseLock, Phase, TypeOK
  <2>2. QED
    BY <2>1 DEF TableInv, Taken, Untouched, Settled
<1>6. ASSUME NEW t \in Threads, SetupShared(t) PROVE TableInv'
  <2>1. Phase = "setup" /\ Phase' = "bump" /\ UNCHANGED Parts
    BY <1>4, <1>6 DEF LockedPCs, SetupPCs, SetupShared, Phase, TypeOK
  <2>2. QED
    BY <1>6, <2>1 DEF TableInv, Taken, Untouched, Settled, SetupShared
<1>7. ASSUME NEW t \in Threads, SetupFirst(t) PROVE TableInv'
  <2>1. Inside(t) /\ Phase' = pc'[t] /\ Phase = "setup"
    BY <1>4, <1>7 DEF LockedPCs, SetupPCs, SetupFirst, Phase
  <2>2. \A s \in Signals : Untouched(s) /\ Untouched(s)'
    BY <1>7, <2>1 DEF SetupFirst, TableInv, Settled, Untouched
  <2>3. Phase' \in {"install", "unlockFail"} /\ initialized' = 0 /\ i' = 1
        /\ (Phase' = "install" <=> allocated')
    BY <1>7, <2>1 DEF SetupFirst, TypeOK
  <2>4. i' \in Signals /\ \A s \in Signals : ~(s < i')
    BY <2>3 DEF Signals
  <2>5. QED
    BY <2>2, <2>3, <2>4 DEF TableInv, Settled, Untouched, TypeOK
<1>8. ASSUME NEW t \in Threads, Install(t) PROVE TableInv'
  <2>1. Inside(t) /\ Phase' = "save" /\ Phase = "install" /\ i \in Signals
    BY <1>4, <1>8 DEF LockedPCs, SetupPCs, Install, Phase, LockInv, TypeOK
  <2>2. \A s \in Signals : s < i => Taken(s)'
    BY <1>8, <2>1 DEF Install, TableInv, Taken, TypeOK, Signals
  <2>3. \A s \in Signals : s > i => Untouched(s)'
    BY <1>8, <2>1 DEF Install, TableInv, Untouched, TypeOK, Signals
  <2>4. previous' \in HostActions
        /\ (~aborting => disposition'[i] = Coffee /\ previous' = host[i])
    BY <1>8, <2>1 DEF Install, TableInv, Untouched, TypeOK
  <2>5. QED
    BY <1>8, <2>1, <2>2, <2>3, <2>4 DEF Install, TableInv, Settled
<1>9. ASSUME NEW t \in Threads, Save(t) PROVE TableInv'
  <2>1. Inside(t) /\ Phase' = pc'[t] /\ Phase = "save" /\ i \in Signals
    BY <1>4, <1>9 DEF LockedPCs, SetupPCs, Save, Phase, LockInv, TypeOK
  <2>2. \A s \in Signals : s < i => Taken(s)'
    BY <1>9, <2>1 DEF Save, TableInv, Taken, TypeOK, Signals
  <2>3. \A s \in Signals : s > i => Untouched(s)'
    BY <1>9, <2>1 DEF Save, TableInv, Untouched, TypeOK, Signals
  <2>4. \A s \in Signals : s = i => Taken(s)'
    BY <1>9, <2>1 DEF Save, TableInv, Taken, TypeOK
  <2>5. /\ \A s \in Signals : s < i' => Taken(s)'
        /\ \A s \in Signals : s > i' => Untouched(s)'
    BY <1>9, <2>1, <2>2, <2>3, <2>4 DEF Save, Signals
  <2>6. CASE i = SIG_CATCH_COUNT
    BY <1>9, <2>1, <2>5, <2>6 DEF Save, TableInv, Settled, TypeOK
  <2>7. CASE i # SIG_CATCH_COUNT
    <3>1. i' \in Signals /\ i' > i
      BY <1>9, <2>1, <2>7 DEF Save, Signals
    <3>2. Untouched(i)'
      BY <1>9, <2>1, <3>1 DEF Save, TableInv, Untouched
    <3>3. QED
      BY <1>9, <2>1, <2>5, <2>7, <3>2 DEF Save, TableInv, Settled, TypeOK
  <2>8. QED
    BY <2>6, <2>7
<1>10. ASSUME NEW t \in Threads, SetupFails(t) PROVE TableInv'
  <2>1. Inside(t) /\ Phase' = "rollback" /\ Phase \in {"install", "mkkey"}
    BY <1>4, <1>10 DEF LockedPCs, SetupPCs, SetupFails, Phase, TypeOK
  <2>2. \A s \in Signals : s < i => Taken(s)'
    BY <1>10, <2>1 DEF SetupFails, TableInv, Taken
  <2>3. \A s \in Signals : s >= i => Untouched(s)'
    BY <1>10, <2>1 DEF SetupFails, TableInv, Untouched, Signals, TypeOK
  <2>4. \A s \in Signals : i' <= s /\ s <= count' <=> s < i
    BY <1>10 DEF SetupFails, Signals, TypeOK
  <2>5. ok' /\ allocated' /\ initialized' = 0
    BY <1>10, <2>1 DEF SetupFails, TableInv, KeyInv, Building
  <2>6. \A s \in Signals :
            IF i' <= s /\ s <= count' THEN Taken(s)' ELSE Untouched(s)'
    BY <2>2, <2>3, <2>4 DEF Signals, TypeOK
  <2>7. QED
    BY <2>1, <2>5, <2>6 DEF TableInv, Settled
<1>11. ASSUME NEW t \in Threads, MakeKey(t) PROVE TableInv'
  <2>1. Phase' = "bump" /\ Phase = "mkkey" /\ UNCHANGED Parts
    BY <1>4, <1>11 DEF LockedPCs, SetupPCs, MakeKey, Phase, TypeOK
  <2>2. allocated /\ \A s \in Signals : Taken(s)
    BY <2>1 DEF TableInv, Signals
  <2>3. QED
    BY <2>1, <2>2 DEF TableInv, Taken, Settled
<1>12. ASSUME NEW t \in Threads, Bump(t) PROVE TableInv'
  <2>1. Phase' = "unlockOk" /\ Phase = "bump"
    BY <1>4, <1>12 DEF LockedPCs, SetupPCs, Bump, Phase, TypeOK
  <2>2. initialized' # 0
    BY <1>12 DEF Bump
  <2>3. QED
    BY <1>12, <2>1, <2>2 DEF Bump, TableInv, Taken, Settled
<1>13. ASSUME NEW t \in Threads, UnlockSetup(t) \/ ReleaseUnlock(t)
       PROVE  TableInv'
  <2>1. Phase \in {"unlockOk", "unlockFail", "relUnlock"} /\ Phase' = "free"
        /\ UNCHANGED Parts
    BY <1>4, <1>13 DEF LockedPCs, SetupPCs, ReleasePCs, UnlockSetup,
                       ReleaseUnlock, Phase
  <2>2. QED
    BY <2>1 DEF TableInv, Taken, Untouched, Settled
<1>14. ASSUME NEW t \in Threads, Drop(t) PROVE TableInv'
  <2>1. Inside(t) /\ Phase' = pc'[t] /\ Phase = "dec"
    BY <1>4, <1>14 DEF LockedPCs, ReleasePCs, Drop, Phase
  <2>2. initialized # 0
    <3>1. t \in Holders
      BY <1>14 DEF Drop, Holders, HolderPCs
    <3>2. QED
      BY <3>1, HoldersFinite, FS_EmptySet DEF RefcountExact
  <2>3. allocated' /\ \A s \in Signals : Taken(s)'
    BY <1>14, <2>1, <2>2 DEF Drop, TableInv, Taken, Settled
  <2>4. CASE initialized = 1
    <3>1. Phase' = "restore" /\ ok' /\ i' = 1 /\ count' = SIG_CATCH_COUNT
      BY <1>14, <2>1, <2>4 DEF Drop, TypeOK
    <3>2. \A s \in Signals : i' <= s /\ s <= count'
      BY <3>1 DEF Signals
    <3>3. QED
      BY <2>3, <3>1, <3>2 DEF TableInv, Settled
  <2>5. CASE initialized # 1
    <3>1. Phase' = "relUnlock" /\ initialized' # 0
      BY <1>14, <2>1, <2>2, <2>5 DEF Drop, TypeOK
    <3>2. QED
      BY <2>3, <3>1 DEF TableInv, Settled
  <2>6. QED
    BY <2>4, <2>5
<1>15. ASSUME NEW t \in Threads, RestoreOne(t) PROVE TableInv'
  <2>1. Inside(t) /\ Phase' = Phase /\ Phase \in {"restore", "rollback"}
    BY <1>4, <1>15 DEF LockedPCs, SetupPCs, ReleasePCs, RestoreOne, Phase
  <2>2. disposition' = [disposition EXCEPT ![i] = saOld[i]] /\ ok' = ok
    BY <1>15 DEF RestoreOne
  <2>3. i \in Signals /\ i' = i + 1 /\ Taken(i)
    BY <1>15, <2>1 DEF RestoreOne, TableInv, Signals, TypeOK
  <2>4. \A s \in Signals : s = i => Untouched(s)'
    BY <1>15, <2>2, <2>3 DEF RestoreOne, Taken, Untouched, TypeOK
  <2>5. \A s \in Signals \ {i} : disposition'[s] = disposition[s]
    BY <2>2 DEF TypeOK
  <2>6. \A s \in Signals \ {i} :
            IF i' <= s /\ s <= count' THEN Taken(s)' ELSE Untouched(s)'
    BY <1>15, <2>1, <2>3, <2>5
       DEF RestoreOne, TableInv, Taken, Untouched, Signals, TypeOK
  <2>7. ~(i' <= i)
    BY <2>3 DEF Signals
  <2>8. QED
    BY <1>15, <2>1, <2>2, <2>4, <2>6, <2>7 DEF RestoreOne, TableInv, Settled
<1>16. ASSUME NEW t \in Threads, FreeTable(t) PROVE TableInv'
  <2>1. Inside(t) /\ Phase' = pc'[t] /\ Phase \in {"restore", "rollback"}
    BY <1>4, <1>16 DEF LockedPCs, SetupPCs, ReleasePCs, FreeTable, Phase
  <2>2. ok /\ ~allocated'
    BY <1>16, <2>1 DEF FreeTable, TableInv
  <2>3. \A s \in Signals : Untouched(s)'
    BY <1>16, <2>1 DEF FreeTable, TableInv, Untouched, Signals, TypeOK
  <2>4. Phase' \in {"delkey", "unlockFail"} /\ initialized' = 0
    BY <1>16, <2>1 DEF FreeTable, TypeOK, KeyInv, Building
  <2>5. QED
    BY <2>2, <2>3, <2>4 DEF TableInv, Settled
<1>17. ASSUME NEW t \in Threads, DeleteKey(t) PROVE TableInv'
  <2>1. Phase' = "relUnlock" /\ Phase = "delkey" /\ UNCHANGED Parts
    BY <1>4, <1>17 DEF LockedPCs, ReleasePCs, DeleteKey, Phase, TypeOK
  <2>2. QED
    BY <2>1 DEF TableInv, KeyInv, Untouched, Settled
<1>18. ASSUME NEW s \in Signals, NEW action \in HostActions,
              HostSigaction(s, action)
       PROVE  TableInv'
  <2>1. Phase = "free" /\ Phase' = "free" /\ initialized = 0
    BY <1>18 DEF HostSigaction, Phase
  <2>2. \A r \in Signals : Untouched(r)'
    BY <1>18, <2>1 DEF HostSigaction, TableInv, Settled, Untouched, TypeOK
  <2>3. QED
    BY <1>18, <2>1, <2>2 DEF HostSigaction, TableInv, Settled
<1>19. QED
  BY <1>2, <1>3, <1>5, <1>6, <1>7, <1>8, <1>9, <1>10, <1>11, <1>12, <1>13,
     <1>14, <1>15, <1>16, <1>17, <1>18
     DEF Next, LibraryStep, SetupStep, ReleaseStep, Outside, Killed

(* No signal is taken at the start.                                         *)
LEMMA TableInit == Init => TableInv
<1> SUFFICES ASSUME Init PROVE TableInv
  OBVIOUS
<1>1. Phase = "free" /\ initialized = 0 /\ ~allocated
  BY DEF Init, Phase
<1>2. \A s \in Signals : Untouched(s)
  BY ConstantFacts DEF Init, Untouched
<1>3. QED
  BY <1>1, <1>2 DEF TableInv, Settled

(* The whole invariant of the registry, table and dispositions included, as *)
(* long as putting a disposition back does not fail.                        *)
THEOREM RegistryInvariant ==
    ASSUME ~MayFail("restore")
    PROVE  Spec => []RegistryInv
<1>1. Init => RegistryInv
  BY CountingInit, TableInit DEF RegistryInv
<1>2. RegistryInv /\ [Next]_vars => RegistryInv'
  BY CountingStep, TableStep DEF RegistryInv
<1>3. QED
  BY <1>1, <1>2, PTL DEF Spec

(***************************************************************************)
(* What follows from the invariant.                                        *)
(***************************************************************************)
(* The phases of the locked code are all named.                             *)
LEMMA PhaseCases ==
    CountingInv => Phase \in Settled \cup Building \cup {"bump", "restore", "delkey"}
BY DEF CountingInv, TypeOK, LockInv, Phase, Settled, Building, LockedPCs,
       SetupPCs, ReleasePCs

(* A count of zero means nobody holds a session.                            *)
LEMMA NoneHolds == CountingInv /\ initialized = 0 => Holders = {}
BY HoldersFinite, FS_EmptySet DEF CountingInv, RefcountExact

(* A count above zero means everything is in place.                         *)
LEMMA Armed ==
    ASSUME RegistryInv, initialized > 0
    PROVE  /\ key /\ allocated
           /\ ~aborting => /\ \A s \in Signals : disposition[s] = Coffee
                           /\ saOld = host
<1>1. CountingInv /\ TableInv
  BY DEF RegistryInv
<1>2. initialized # 0 /\ Phase \in Settled \cup {"bump"}
  BY <1>1, PhaseCases, CountIsNat DEF CountingInv, KeyInv
<1>3. key /\ allocated /\ \A s \in Signals : Taken(s)
  BY <1>1, <1>2 DEF CountingInv, KeyInv, TableInv
<1>4. ~aborting => saOld = host
  BY <1>1, <1>3 DEF Taken, CountingInv, TypeOK
<1>5. QED
  BY <1>3, <1>4 DEF Taken

(* While a reference is counted, the handlers, the key and the table of the *)
(* host's dispositions are all in place.                                    *)
THEOREM HeldIsArmed ==
    ASSUME ~MayFail("restore")
    PROVE  Spec => []ArmedWhileHeld
<1>1. RegistryInv => ArmedWhileHeld
  BY Armed DEF ArmedWhileHeld
<1>2. QED
  BY <1>1, RegistryInvariant, PTL

(* Without a reference the process is as the library found it.              *)
THEOREM ReleasedIsRestored ==
    ASSUME ~MayFail("restore")
    PROVE  Spec => []HostRestored
<1>1. RegistryInv => HostRestored
  <2> SUFFICES ASSUME RegistryInv, mutex = NoThread, initialized = 0
               PROVE  /\ ~allocated /\ ~key
                      /\ ~aborting => disposition = host
    BY DEF HostRestored
  <2>1. Phase = "free"
    BY DEF Phase
  <2>2. ~allocated /\ ~key /\ \A s \in Signals : Untouched(s)
    BY <2>1 DEF RegistryInv, CountingInv, KeyInv, TableInv, Settled
  <2>3. QED
    BY <2>2 DEF Untouched, RegistryInv, CountingInv, TypeOK
<1>2. QED
  BY <1>1, RegistryInvariant, PTL

(* No handler of the library is installed without a table to chain through. *)
THEOREM TableOutlivesHandlers ==
    ASSUME ~MayFail("restore")
    PROVE  Spec => []HandlerHasTable
<1>1. RegistryInv => HandlerHasTable
  <2> SUFFICES ASSUME RegistryInv, ~allocated
               PROVE  \A s \in Signals : disposition[s] # Coffee
    BY DEF HandlerHasTable
  <2>1. \/ Phase \in Settled /\ initialized = 0
        \/ Phase = "delkey"
    BY PhaseCases DEF RegistryInv, TableInv, Building
  <2>2. \A s \in Signals : Untouched(s)
    BY <2>1 DEF RegistryInv, TableInv
  <2>3. QED
    BY <2>2, ConstantFacts DEF Untouched
<1>2. QED
  BY <1>1, RegistryInvariant, PTL

(* A crash in a catch block finds the host's own handler to chain to.       *)
THEOREM CatchCrashFindsHost ==
    ASSUME ~MayFail("restore")
    PROVE  Spec => []CatchCrashChains
<1>1. RegistryInv => CatchCrashChains
  <2> SUFFICES ASSUME RegistryInv, NEW t \in Threads, pc[t] = "hchain",
                      specific[t], ~aborting
               PROVE  allocated /\ saOld[sig[t]] = host[sig[t]]
    BY DEF CatchCrashChains
  <2>1. t \in Holders
    BY DEF Holders, HandlerPCs
  <2>2. initialized > 0
    BY <2>1, NoneHolds, CountIsNat DEF RegistryInv, CountingInv
  <2>3. QED
    BY <2>2, Armed
<1>2. QED
  BY <1>1, RegistryInvariant, PTL

(***************************************************************************)
(* Registry implements SessionRegistry.                                    *)
(***************************************************************************)
(* Handlers that are all the library's are not the host's.                  *)
LEMMA ArmedOwner ==
    ASSUME RegistryInv, \A s \in Signals : disposition[s] = Coffee
    PROVE  Owner = "coffee"
<1>1. disposition # host
  <2>1. host[SIGABRT] \in HostActions
    BY ConstantFacts DEF RegistryInv, CountingInv, TypeOK
  <2>2. QED
    BY <2>1, ConstantFacts
<1>2. QED
  BY <1>1 DEF Owner

(* A step that counts nobody in or out.                                     *)
LEMMA OtherStep ==
    ASSUME RegistryInv, [Next]_vars, \A t \in Threads : ~Bump(t) /\ ~Drop(t)
    PROVE  /\ Doomed => Doomed'
           /\ \/ UNCHANGED <<disposition, host>>
              \/ Holders = {}
              \/ Doomed'
<1> USE DEF outside, shared, Doomed
<1>1. CASE UNCHANGED vars
  BY <1>1 DEF vars
<1>2. ASSUME NEW t \in Threads, Outside(t)
      PROVE  /\ Doomed => Doomed'
             /\ UNCHANGED <<disposition, host>> \/ Doomed'
  <2>1. UNCHANGED <<disposition, host>> \/ Doomed'
    BY <1>2, OutsideIsQuiet DEF Quiet, GiveUp, RegistryInv, CountingInv
  <2>2. Doomed => Doomed'
    BY <1>2 DEF Outside, UserStep, HandlerStep, GetKey, StructInit,
                SetSpecific, Get, Cleanup, Crash, HandlerGet, HandlerGetKey,
                CallOldHandler, OldHandlerReturns, GiveUp, Abort
  <2>3. QED
    BY <2>1, <2>2
<1>3. ASSUME NEW t \in Threads, Install(t) \/ RestoreOne(t)
      PROVE  Holders = {} /\ UNCHANGED Doomed
  <2>1. Phase \in {"install", "restore", "rollback"}
    BY <1>3, OwnerPhase DEF Install, RestoreOne, LockedPCs, SetupPCs,
                            ReleasePCs, RegistryInv, CountingInv
  <2>2. initialized = 0
    BY <2>1 DEF RegistryInv, CountingInv, KeyInv, Building
  <2>3. QED
    BY <1>3, <2>2, NoneHolds DEF Install, RestoreOne, RegistryInv
<1>4. ASSUME NEW t \in Threads,
             \/ Lock(t) \/ SetupShared(t) \/ SetupFirst(t) \/ Save(t)
             \/ MakeKey(t) \/ SetupFails(t) \/ UnlockSetup(t)
             \/ ReleaseLock(t) \/ FreeTable(t) \/ DeleteKey(t)
             \/ ReleaseUnlock(t)
      PROVE  UNCHANGED <<disposition, host, Doomed>>
  BY <1>4 DEF Lock, SetupShared, SetupFirst, Save, MakeKey, SetupFails,
              UnlockSetup, ReleaseLock, FreeTable, DeleteKey, ReleaseUnlock
<1>5. ASSUME NEW s \in Signals, NEW action \in HostActions,
             HostSigaction(s, action)
      PROVE  Holders = {} /\ UNCHANGED Doomed
  BY <1>5, NoneHolds DEF HostSigaction, RegistryInv
<1>6. QED
  BY <1>1, <1>2, <1>3, <1>4, <1>5
     DEF Next, LibraryStep, SetupStep, ReleaseStep, Outside, Killed

(* Every step of the registry is a step of SessionRegistry, or stutters.    *)
LEMMA RefinesStep ==
    RegistryInv /\ [Next]_vars => [Abstract!Next]_(Abstract!vars)
<1> SUFFICES ASSUME RegistryInv, [Next]_vars
             PROVE  [Abstract!Next]_(Abstract!vars)
  OBVIOUS
<1> USE DEF Abstract!vars, Abstract!Next
<1>1. ASSUME NEW t \in Threads, Bump(t) PROVE Abstract!Open(t)
  <2>1. Phase = "bump"
    BY <1>1, OwnerPhase DEF Bump, LockedPCs, SetupPCs, RegistryInv, CountingInv
  <2>2. \A s \in Signals : Taken(s)
    BY <2>1 DEF RegistryInv, TableInv
  <2>3. Doomed \/ Owner = "coffee"
    BY <2>2, ArmedOwner DEF Taken, Doomed
  <2>4. UNCHANGED <<Owner, Doomed>>
    BY <1>1 DEF Bump, outside, Owner, Doomed
  <2>5. t \notin Holders /\ Holders' = Holders \cup {t}
    BY <1>1, BumpAddsHolder DEF RegistryInv, CountingInv
  <2>6. QED
    BY <2>3, <2>4, <2>5 DEF Abstract!Open, Owner, Doomed
<1>2. ASSUME NEW t \in Threads, Drop(t) PROVE Abstract!Close(t)
  <2>1. UNCHANGED <<Owner, Doomed>>
    BY <1>2 DEF Drop, outside, Owner, Doomed
  <2>2. t \in Holders /\ Holders' = Holders \ {t}
    BY <1>2, DropRemovesHolder DEF RegistryInv, CountingInv
  <2>3. QED
    BY <2>1, <2>2 DEF Abstract!Close, Owner, Doomed
<1>3. ASSUME \A t \in Threads : ~Bump(t) /\ ~Drop(t)
      PROVE  [Abstract!Next]_(Abstract!vars)
  <2>1. UNCHANGED Holders
    BY <1>3, HoldersKept DEF RegistryInv, CountingInv
  <2>2. Owner' \in Abstract!Owners
    BY DEF Owner, Abstract!Owners
  <2>3. CASE ~Doomed /\ Doomed'
    BY <2>1, <2>2, <2>3 DEF Abstract!GiveUp, Owner, Doomed
  <2>4. CASE UNCHANGED <<Doomed, Owner>>
    BY <2>1, <2>4 DEF Owner, Doomed
  <2>5. CASE UNCHANGED Doomed /\ Owner' # Owner
    <3>1. ~UNCHANGED <<disposition, host>>
      BY <2>5 DEF Owner
    <3>2. Doomed \/ Holders = {}
      BY <1>3, <2>5, <3>1, OtherStep
    <3>3. QED
      BY <2>1, <2>2, <2>5, <3>2 DEF Abstract!HandOver, Owner, Doomed
  <2>6. Doomed \in BOOLEAN /\ Doomed' \in BOOLEAN /\ (Doomed => Doomed')
    BY <1>3, OtherStep DEF Doomed
  <2>7. QED
    BY <2>3, <2>4, <2>5, <2>6
<1>4. QED
  BY <1>1, <1>2, <1>3

(* The handlers change hands only while nobody holds a session, for every   *)
(* number of threads and signals.                                           *)
THEOREM RegistryRefinesSessions ==
    ASSUME ~MayFail("restore")
    PROVE  Spec => ImplementsRegistry
<1>1. Init => Abstract!Init
  <2> SUFFICES ASSUME Init PROVE Abstract!Init
    OBVIOUS
  <2>1. Holders = {}
    BY DEF Init, Holders, HolderPCs, HandlerPCs
  <2>2. disposition = host /\ disposition[SIGABRT] # Coffee
    BY ConstantFacts DEF Init
  <2>3. Owner = "host"
    BY <2>2, ConstantFacts DEF Owner
  <2>4. (aborting \/ dead) = FALSE
    BY DEF Init
  <2>5. QED
    BY <2>1, <2>3, <2>4 DEF Abstract!Init, Doomed
<1>2. RegistryInv /\ [Next]_vars => [Abstract!Next]_(Abstract!vars)
  BY RefinesStep
<1>3. QED
  BY <1>1, <1>2, RegistryInvariant, PTL DEF Spec, ImplementsRegistry, Abstract!Spec

=============================================================================
