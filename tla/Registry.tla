------------------------------ MODULE Registry ------------------------------
(***************************************************************************)
(* The process-wide part of coffeecatch.c: the structure native_code_g     *)
(* (reference count, mutex, table of saved dispositions), the key          *)
(* native_code_thread, and the kernel's table of signal dispositions that  *)
(* the library swaps with its own handlers.                                *)
(*                                                                         *)
(* Any number of threads open and close their outermost protected block,   *)
(* exit inside one, ask the library something from outside a block, and    *)
(* crash where no recovery context claims the crash: outside every block,  *)
(* or inside their own COFFEE_CATCH block.  A crash that a block recovers  *)
(* from leaves all of this state alone; that is module Session.            *)
(*                                                                         *)
(* A step of a thread is one access to shared state: a call of sigaction(),*)
(* a locked section's assignment, an unlocked load.  sigaction() is two    *)
(* steps, because the kernel swaps the disposition before the C library    *)
(* stores the old one into the table.                                      *)
(***************************************************************************)
EXTENDS Integers, FiniteSets

CONSTANTS
    Threads,          \* threads of the process
    NoThread,         \* the mutex is free
    SIG_CATCH_COUNT,  \* number of signals in native_sig_catch
    HostFns,          \* handlers the host program may have installed
    HostActions,      \* dispositions the host may have installed
    Faults            \* calls that may fail: see FaultKinds

FaultKinds == {"calloc", "sigaction", "key_create", "struct_init",
               "setspecific", "restore"}

(* Signals are numbered by their place in native_sig_catch, SIGABRT first.  *)
Signals == 1 .. SIG_CATCH_COUNT
SIGABRT == 1

(* struct sigaction: sa_handler and sa_sigaction share one field, and       *)
(* SA_SIGINFO says how it is read.  Default is also what calloc() leaves.   *)
Default == [siginfo |-> FALSE, handler |-> "SIG_DFL"]

(* The library's own disposition, signal_abort for SIGABRT and signal_pass  *)
(* for the others.                                                          *)
Coffee == [siginfo |-> TRUE, handler |-> "coffeecatch"]

AllActions == HostActions \cup {Coffee}

ASSUME ThreadsAssumption ==
    /\ IsFiniteSet(Threads)
    /\ NoThread \notin Threads
ASSUME SignalsAssumption == SIG_CATCH_COUNT \in Nat \ {0}
ASSUME HostActionsAssumption ==
    /\ HostActions \subseteq
         [siginfo : BOOLEAN, handler : HostFns \cup {"SIG_DFL", "SIG_IGN"}]
    /\ Default \in HostActions
    /\ Coffee \notin HostActions
ASSUME FaultsAssumption == Faults \subseteq FaultKinds

VARIABLES
    initialized,  \* native_code_g.initialized, the reference count
    mutex,        \* owner of native_code_g.mutex, or NoThread
    allocated,    \* native_code_g.sa_old is not NULL
    saOld,        \* what that table holds
    key,          \* the key native_code_thread exists
    disposition,  \* the kernel's table of dispositions
    i, count, ok, \* locals of the setup and restore loops; they run under
    previous,     \*   the mutex, so one copy is enough
    pc,           \* where each thread is
    specific,     \* the thread's value for the key is not NULL
    sig,          \* the signal a thread's handler was called with
    dead,         \* the process was killed
    host,         \* history: the disposition the host wants for each signal
    aborting      \* history: a handler has given up and called
                  \*   signal(SIGABRT, SIG_DFL)

table == <<allocated, saOld>>
shared == <<initialized, mutex, table, key, disposition>>
locals == <<i, count, ok, previous>>
outside == <<specific, sig, dead, host, aborting>>
vars == <<shared, locals, pc, outside>>

---------------------------------------------------------------------------
(* Program counters.  out: in no block.  session: inside a protected block  *)
(* or its catch block.                                                      *)

(* pthread_mutex_lock() has returned and pthread_mutex_unlock() has not.    *)
SetupPCs == {"setup", "install", "save", "mkkey", "bump", "rollback",
             "unlockFail", "unlockOk"}
ReleasePCs == {"dec", "restore", "delkey", "relUnlock"}
LockedPCs == SetupPCs \cup ReleasePCs

(* The handler running on a crash that nobody claims.                       *)
HandlerPCs == {"hget", "hgetkey", "hchain", "hcall", "hdfl", "habort"}

(* The thread's reference is counted.                                       *)
HolderPCs == {"unlockOk", "init", "setspec", "session", "relLock", "dec"}

PCs == LockedPCs \cup HandlerPCs \cup HolderPCs \cup {"out", "getkey", "lock"}

Holders == {t \in Threads : \/ pc[t] \in HolderPCs
                            \/ pc[t] \in HandlerPCs /\ specific[t]}

MayFail(call) == call \in Faults
At(t, labels) == ~dead /\ pc[t] \in labels
Goto(t, label) == pc' = [pc EXCEPT ![t] = label]

Init ==
    /\ host \in [Signals -> HostActions]
    /\ disposition = host
    /\ initialized = 0
    /\ mutex = NoThread
    /\ allocated = FALSE
    /\ saOld = [s \in Signals |-> Default]
    /\ key = FALSE
    /\ i = 1 /\ count = 0 /\ ok = TRUE /\ previous = Default
    /\ pc = [t \in Threads |-> "out"]
    /\ specific = [t \in Threads |-> FALSE]
    /\ sig = [t \in Threads |-> SIGABRT]
    /\ dead = FALSE
    /\ aborting = FALSE

---------------------------------------------------------------------------
(* coffeecatch_get() from outside a block: COFFEE_TRY() through             *)
(* coffeecatch_reenter(), coffeecatch_inside(), coffeecatch_get_signal(),   *)
(* the COFFEE_END() of a block whose setup failed.  It takes no lock: the   *)
(* count is loaded in one step, the key is read in another.                 *)
Get(t) ==
    /\ At(t, {"out"})
    /\ Goto(t, IF initialized = 0 THEN "lock" ELSE "getkey")
    /\ UNCHANGED <<shared, locals, outside>>

(* pthread_getspecific() returns NULL to a thread outside every block; it   *)
(* goes on to coffeecatch_setup(), or leaves if it was only asking.         *)
GetKey(t) ==
    /\ At(t, {"getkey"})
    /\ \E next \in {"lock", "out"} : Goto(t, next)
    /\ UNCHANGED <<shared, locals, outside>>

(* coffeecatch_handler_setup(): take the mutex.                             *)
Lock(t) ==
    /\ At(t, {"lock"})
    /\ mutex = NoThread
    /\ mutex' = t
    /\ Goto(t, "setup")
    /\ UNCHANGED <<initialized, table, key, disposition, locals, outside>>

(* coffeecatch_handler_setup_global(): somebody else's session is open.     *)
SetupShared(t) ==
    /\ At(t, {"setup"})
    /\ initialized # 0
    /\ Goto(t, "bump")
    /\ UNCHANGED <<shared, locals, outside>>

(* Mutant: every session installs the handlers again.                       *)
BugSetupFirst(t) ==
    /\ At(t, {"setup"})
    /\ allocated' = TRUE
    /\ saOld' = [s \in Signals |-> Default]
    /\ i' = 1
    /\ Goto(t, "install")
    /\ UNCHANGED <<initialized, mutex, key, disposition, count, ok, previous,
                   outside>>

(* The first session allocates the table, all of it zero.  The pointer is   *)
(* assigned before it is tested, so a failed calloc() leaves it NULL.       *)
SetupFirst(t) ==
    /\ At(t, {"setup"})
    /\ initialized = 0
    /\ saOld' = [s \in Signals |-> Default]
    /\ i' = 1
    /\ \/ allocated' = TRUE /\ Goto(t, "install")
       \/ MayFail("calloc") /\ allocated' = FALSE /\ Goto(t, "unlockFail")
    /\ UNCHANGED <<initialized, mutex, key, disposition, count, ok, previous,
                   outside>>

(* sigaction(sig, action, &sa_old[sig]), the kernel's half.                 *)
Install(t) ==
    /\ At(t, {"install"})
    /\ previous' = disposition[i]
    /\ disposition' = [disposition EXCEPT ![i] = Coffee]
    /\ Goto(t, "save")
    /\ UNCHANGED <<initialized, mutex, table, key, i, count, ok, outside>>

(* Mutant: sigaction() is not asked for the old disposition.                *)
BugSave(t) ==
    /\ At(t, {"save"})
    /\ i' = i + 1
    /\ Goto(t, IF i = SIG_CATCH_COUNT THEN "mkkey" ELSE "install")
    /\ UNCHANGED <<shared, count, ok, previous, outside>>

(* ... and the C library's half, which stores the old disposition.          *)
Save(t) ==
    /\ At(t, {"save"})
    /\ saOld' = [saOld EXCEPT ![i] = previous]
    /\ i' = i + 1
    /\ Goto(t, IF i = SIG_CATCH_COUNT THEN "mkkey" ELSE "install")
    /\ UNCHANGED <<initialized, mutex, allocated, key, disposition, count, ok,
                   previous, outside>>

MakeKey(t) ==
    /\ At(t, {"mkkey"})
    /\ key' = TRUE
    /\ Goto(t, "bump")
    /\ UNCHANGED <<initialized, mutex, table, disposition, locals, outside>>

(* Mutants: the rollback counts one signal too many, or is forgotten.       *)
BugRollbackCount(t) ==
    /\ \/ At(t, {"install"}) /\ MayFail("sigaction")
       \/ At(t, {"mkkey"}) /\ MayFail("key_create")
    /\ count' = i
    /\ i' = 1
    /\ ok' = TRUE
    /\ Goto(t, "rollback")
    /\ UNCHANGED <<shared, previous, outside>>
BugNoRollback(t) ==
    /\ \/ At(t, {"install"}) /\ MayFail("sigaction")
       \/ At(t, {"mkkey"}) /\ MayFail("key_create")
    /\ Goto(t, "unlockFail")
    /\ UNCHANGED <<shared, locals, outside>>

(* sigaction() or pthread_key_create() refuses: put back the signals        *)
(* installed so far, all of them in the second case.                        *)
SetupFails(t) ==
    /\ \/ At(t, {"install"}) /\ MayFail("sigaction")
       \/ At(t, {"mkkey"}) /\ MayFail("key_create")
    /\ count' = i - 1
    /\ i' = 1
    /\ ok' = TRUE
    /\ Goto(t, "rollback")
    /\ UNCHANGED <<shared, previous, outside>>

(* Mutant: only the first session is counted.                               *)
BugBump(t) ==
    /\ At(t, {"bump"})
    /\ initialized' = 1
    /\ Goto(t, "unlockOk")
    /\ UNCHANGED <<mutex, table, key, disposition, locals, outside>>

(* The reference is counted only after the key exists.                      *)
Bump(t) ==
    /\ At(t, {"bump"})
    /\ initialized' = initialized + 1
    /\ Goto(t, "unlockOk")
    /\ UNCHANGED <<mutex, table, key, disposition, locals, outside>>

(* The end of coffeecatch_handler_setup()'s locked section.                 *)
UnlockSetup(t) ==
    /\ At(t, {"unlockOk", "unlockFail"})
    /\ mutex' = NoThread
    /\ Goto(t, IF pc[t] = "unlockOk" THEN "init" ELSE "out")
    /\ UNCHANGED <<initialized, table, key, disposition, locals, outside>>

(* Mutant: a failed setup keeps its reference.                              *)
BugStructInit(t) ==
    /\ At(t, {"init"})
    /\ \/ Goto(t, "setspec")
       \/ MayFail("struct_init") /\ Goto(t, "out")
    /\ UNCHANGED <<shared, locals, outside>>

(* coffeecatch_native_code_handler_struct_init(), then pthread_setspecific().*)
(* If either fails the reference is given back.                             *)
StructInit(t) ==
    /\ At(t, {"init"})
    /\ \/ Goto(t, "setspec")
       \/ MayFail("struct_init") /\ Goto(t, "relLock")
    /\ UNCHANGED <<shared, locals, outside>>

SetSpecific(t) ==
    /\ At(t, {"setspec"})
    /\ \/ specific' = [specific EXCEPT ![t] = TRUE] /\ Goto(t, "session")
       \/ MayFail("setspecific") /\ Goto(t, "relLock") /\ UNCHANGED specific
    /\ UNCHANGED <<shared, locals, sig, dead, host, aborting>>

(* Mutant: the structure is freed but the key's value is kept.              *)
BugCleanup(t) ==
    /\ At(t, {"session"})
    /\ Goto(t, "relLock")
    /\ UNCHANGED <<shared, locals, outside>>

(* The outermost COFFEE_END(), or the exit of the thread inside its block:  *)
(* coffeecatch_handler_cleanup() and coffeecatch_thread_exit() both detach  *)
(* the structure, free it and give the reference back.                      *)
Cleanup(t) ==
    /\ At(t, {"session"})
    /\ specific' = [specific EXCEPT ![t] = FALSE]
    /\ Goto(t, "relLock")
    /\ UNCHANGED <<shared, locals, sig, dead, host, aborting>>

(* coffeecatch_release_global().                                            *)
ReleaseLock(t) ==
    /\ At(t, {"relLock"})
    /\ mutex = NoThread
    /\ mutex' = t
    /\ Goto(t, "dec")
    /\ UNCHANGED <<initialized, table, key, disposition, locals, outside>>

(* Mutant: the handlers go one session too early.                           *)
BugDrop(t) ==
    /\ At(t, {"dec"})
    /\ initialized' = initialized - 1
    /\ i' = 1 /\ count' = SIG_CATCH_COUNT /\ ok' = TRUE
    /\ Goto(t, IF initialized <= 2 THEN "restore" ELSE "relUnlock")
    /\ UNCHANGED <<mutex, table, key, disposition, previous, outside>>

Drop(t) ==
    /\ At(t, {"dec"})
    /\ initialized' = initialized - 1
    /\ IF initialized = 1
       THEN /\ i' = 1 /\ count' = SIG_CATCH_COUNT /\ ok' = TRUE
            /\ Goto(t, "restore")
       ELSE /\ UNCHANGED <<i, count, ok>>
            /\ Goto(t, "relUnlock")
    /\ UNCHANGED <<mutex, table, key, disposition, previous, outside>>

(* coffeecatch_restore_handlers(count), for a release or for a rollback.    *)
RestoreOne(t) ==
    /\ At(t, {"restore", "rollback"})
    /\ i <= count
    /\ i' = i + 1
    /\ \/ disposition' = [disposition EXCEPT ![i] = saOld[i]] /\ ok' = ok
       \/ MayFail("restore") /\ ok' = FALSE /\ UNCHANGED disposition
    /\ UNCHANGED <<initialized, mutex, table, key, count, previous,
                   pc, outside>>

(* Mutants: the table is freed before the loop, or the release does not get *)
(* past a failed restore.                                                   *)
BugFreeFirst(t) ==
    /\ At(t, {"restore", "rollback"})
    /\ allocated' = FALSE
    /\ IF i > count
       THEN Goto(t, IF pc[t] = "restore" THEN "delkey" ELSE "unlockFail")
       ELSE UNCHANGED pc
    /\ UNCHANGED <<initialized, mutex, saOld, key, disposition, locals,
                   outside>>
BugRetryRestore(t) ==
    /\ At(t, {"restore", "rollback"})
    /\ i > count
    /\ IF ok
       THEN /\ allocated' = FALSE
            /\ saOld' = [s \in Signals |-> Default]
            /\ Goto(t, IF pc[t] = "restore" THEN "delkey" ELSE "unlockFail")
       ELSE UNCHANGED <<table, pc>>
    /\ UNCHANGED <<initialized, mutex, key, disposition, locals, outside>>

(* The table is freed only if every disposition was put back.               *)
FreeTable(t) ==
    /\ At(t, {"restore", "rollback"})
    /\ i > count
    /\ IF ok
       THEN /\ allocated' = FALSE
            /\ saOld' = [s \in Signals |-> Default]
       ELSE UNCHANGED <<table>>
    /\ Goto(t, IF pc[t] = "restore" THEN "delkey" ELSE "unlockFail")
    /\ UNCHANGED <<initialized, mutex, key, disposition, locals, outside>>

DeleteKey(t) ==
    /\ At(t, {"delkey"})
    /\ key' = FALSE
    /\ Goto(t, "relUnlock")
    /\ UNCHANGED <<initialized, mutex, table, disposition, locals, outside>>

ReleaseUnlock(t) ==
    /\ At(t, {"relUnlock"})
    /\ mutex' = NoThread
    /\ Goto(t, "out")
    /\ UNCHANGED <<initialized, table, key, disposition, locals, outside>>

---------------------------------------------------------------------------
(* A crash that no recovery context claims, while the library's handler is  *)
(* installed for its signal.  With another disposition the library does not *)
(* run.                                                                     *)
Crash(t, s) ==
    /\ At(t, {"out", "session"})
    /\ disposition[s] = Coffee
    /\ sig' = [sig EXCEPT ![t] = s]
    /\ Goto(t, "hget")
    /\ UNCHANGED <<shared, locals, specific, dead, host, aborting>>

(* The handler calls coffeecatch_get(), again without the lock.  (Twice:    *)
(* the first call only looks for an unwinder guard, see module Session.)    *)
HandlerGet(t) ==
    /\ At(t, {"hget"})
    /\ Goto(t, IF initialized = 0 THEN "hchain" ELSE "hgetkey")
    /\ UNCHANGED <<shared, locals, outside>>

(* Even with a structure there is no context to jump to here.               *)
HandlerGetKey(t) ==
    /\ At(t, {"hgetkey"})
    /\ Goto(t, "hchain")
    /\ UNCHANGED <<shared, locals, outside>>

(* coffeecatch_call_old_signal_handler(): what the code takes to be         *)
(* callable.                                                                *)
Callable(action) ==
    IF action.siginfo THEN action.handler # "SIG_DFL"
                      ELSE action.handler \notin {"SIG_DFL", "SIG_IGN"}

(* Reading through a NULL table is a second fault inside the handler.  A    *)
(* saved disposition may be the library's own: the handler calls itself.    *)
CallOldHandler(t) ==
    /\ At(t, {"hchain"})
    /\ IF ~allocated
       THEN dead' = TRUE /\ UNCHANGED pc
       ELSE /\ Goto(t, CASE saOld[sig[t]] = Coffee -> "hget"
                         [] saOld[sig[t]] # Coffee /\ Callable(saOld[sig[t]])
                              -> "hcall"
                         [] OTHER -> "hdfl")
            /\ UNCHANGED dead
    /\ UNCHANGED <<shared, locals, specific, sig, host, aborting>>

(* The host's handler returns, ends the process, or jumps back to the       *)
(* program.  One that blocks is ended by the alarm the handler has armed.   *)
OldHandlerReturns(t) ==
    /\ At(t, {"hcall"})
    /\ \/ Goto(t, "hdfl") /\ UNCHANGED <<sig, dead>>
       \/ dead' = TRUE /\ UNCHANGED <<pc, sig>>
       \/ /\ Goto(t, IF specific[t] THEN "session" ELSE "out")
          /\ sig' = [sig EXCEPT ![t] = SIGABRT]
          /\ UNCHANGED dead
    /\ UNCHANGED <<shared, locals, specific, host, aborting>>

(* Mutant: abort() is called with the library's handler in place.           *)
BugGiveUp(t) ==
    /\ At(t, {"hdfl"})
    /\ aborting' = TRUE
    /\ Goto(t, "habort")
    /\ UNCHANGED <<shared, locals, specific, sig, dead, host>>

(* signal(SIGABRT, SIG_DFL), for the whole process and without the mutex.   *)
GiveUp(t) ==
    /\ At(t, {"hdfl"})
    /\ disposition' = [disposition EXCEPT ![SIGABRT] = Default]
    /\ aborting' = TRUE
    /\ Goto(t, "habort")
    /\ UNCHANGED <<initialized, mutex, table, key, locals,
                   specific, sig, dead, host>>

(* abort() raises SIGABRT, whose disposition another thread may have        *)
(* replaced by the library's since.                                         *)
Abort(t) ==
    /\ At(t, {"habort"})
    /\ IF disposition[SIGABRT] = Coffee
       THEN /\ Goto(t, "hget")
            /\ sig' = [sig EXCEPT ![t] = SIGABRT]
            /\ UNCHANGED dead
       ELSE dead' = TRUE /\ UNCHANGED <<pc, sig>>
    /\ UNCHANGED <<shared, locals, specific, host, aborting>>

(* The host installs a disposition of its own.  The library asks for        *)
(* exclusive control of the handlers while it uses them.                    *)
HostSigaction(s, action) ==
    /\ ~dead
    /\ initialized = 0
    /\ mutex = NoThread
    /\ disposition' = [disposition EXCEPT ![s] = action]
    /\ host' = [host EXCEPT ![s] = action]
    /\ UNCHANGED <<initialized, mutex, table, key, locals, pc,
                   specific, sig, dead, aborting>>

---------------------------------------------------------------------------
SetupStep(t) ==
    \/ Lock(t) \/ SetupShared(t) \/ SetupFirst(t) \/ Install(t) \/ Save(t)
    \/ MakeKey(t) \/ SetupFails(t) \/ Bump(t) \/ UnlockSetup(t)
    \/ StructInit(t) \/ SetSpecific(t)

ReleaseStep(t) ==
    \/ ReleaseLock(t) \/ Drop(t) \/ RestoreOne(t) \/ FreeTable(t)
    \/ DeleteKey(t) \/ ReleaseUnlock(t)

HandlerStep(t) ==
    \/ HandlerGet(t) \/ HandlerGetKey(t) \/ CallOldHandler(t)
    \/ OldHandlerReturns(t) \/ GiveUp(t) \/ Abort(t)

(* What the program around the library decides.                             *)
UserStep(t) ==
    \/ Get(t) \/ Cleanup(t)
    \/ \E s \in Signals : Crash(t, s)

(* What the library does once it is called.                                 *)
LibraryStep(t) == GetKey(t) \/ SetupStep(t) \/ ReleaseStep(t) \/ HandlerStep(t)

(* A killed process takes no step; a live one is never stuck.               *)
Killed == dead /\ UNCHANGED vars

Next ==
    \/ \E t \in Threads : LibraryStep(t) \/ UserStep(t)
    \/ \E s \in Signals, action \in HostActions : HostSigaction(s, action)
    \/ Killed

Spec == Init /\ [][Next]_vars

(* Threads keep running inside the library: its code never waits for        *)
(* anything but the mutex and the host's handler.  Nothing is assumed of    *)
(* the program, and no fairness of the mutex between its waiters.           *)
Fairness == \A t \in Threads : WF_vars(LibraryStep(t))

FairSpec == Spec /\ Fairness

---------------------------------------------------------------------------
(* Properties.                                                              *)

(* Every variable keeps its type.  The count is an integer here: that it    *)
(* never goes below zero is part of RefcountExact.                          *)
TypeOK ==
    /\ initialized \in Int
    /\ mutex \in Threads \cup {NoThread}
    /\ allocated \in BOOLEAN
    /\ saOld \in [Signals -> AllActions]
    /\ key \in BOOLEAN
    /\ disposition \in [Signals -> AllActions]
    /\ i \in 1 .. SIG_CATCH_COUNT + 1
    /\ count \in 0 .. SIG_CATCH_COUNT
    /\ ok \in BOOLEAN
    /\ previous \in AllActions
    /\ pc \in [Threads -> PCs]
    /\ specific \in [Threads -> BOOLEAN]
    /\ sig \in [Threads -> Signals]
    /\ dead \in BOOLEAN
    /\ host \in [Signals -> HostActions]
    /\ aborting \in BOOLEAN

(* The reference count is exactly the number of threads that hold a         *)
(* reference, on every path: setups that fail half way, sessions closed by  *)
(* COFFEE_END() or by the exit of the thread, crashes in a catch block.  So *)
(* the assertion of coffeecatch_release_global() holds, and the handlers    *)
(* are neither removed early nor left for the life of the process.          *)
RefcountExact == initialized = Cardinality(Holders)

(* While any reference is counted, every handled signal goes to the         *)
(* library, the key exists, and the table holds the host's dispositions.    *)
(* Once some thread has given up, SIGABRT is no longer covered: signal() in *)
(* the handler is process-wide.                                             *)
ArmedWhileHeld ==
    initialized > 0 =>
        /\ key
        /\ allocated
        /\ ~aborting => /\ \A s \in Signals : disposition[s] = Coffee
                        /\ saOld = host

(* When the last reference is gone and its holder has left the lock, the    *)
(* process is as the library found it: the host's own dispositions, no      *)
(* table, no key.  This is also the outcome of every failed first setup.    *)
HostRestored ==
    mutex = NoThread /\ initialized = 0 =>
        /\ ~allocated
        /\ ~key
        /\ ~aborting => disposition = host

(* A handler of the library is never installed without the table it chains  *)
(* through, at any step of a setup, a rollback or a release.                *)
HandlerHasTable ==
    (\E s \in Signals : disposition[s] = Coffee) => allocated

(* A thread's structure exists only while the thread counts as a holder and *)
(* the key that finds it exists: a release by one thread never takes the    *)
(* key from under another's session.                                        *)
StructureOwned ==
    \A t \in Threads : specific[t] => t \in Holders /\ key

(* A crash inside a COFFEE_CATCH block cannot be recovered from; it chains  *)
(* to exactly the handler the host had installed for that signal, whatever  *)
(* the other threads set up, roll back or release meanwhile.                *)
CatchCrashChains ==
    \A t \in Threads :
        pc[t] = "hchain" /\ specific[t] /\ ~aborting =>
            allocated /\ saOld[sig[t]] = host[sig[t]]

(* The handlers change hands only while nobody holds a session: module      *)
(* SessionRegistry.                                                         *)
Owner == CASE disposition = host -> "host"
           [] \A s \in Signals : disposition[s] = Coffee -> "coffee"
           [] OTHER -> "mixed"
Doomed == aborting \/ dead
Abstract == INSTANCE SessionRegistry WITH
    holders <- Holders, owner <- Owner, doomed <- Doomed

(* Its safety part, when putting a disposition back does not fail: whatever *)
(* the threads do, a session opens on handlers that are all the library's,  *)
(* and no handler changes hands under an open session unless the process    *)
(* is dying.                                                                *)
ImplementsRegistry == Abstract!Spec

(* With its liveness: an idle process gets its handlers back.               *)
GivesBack == Abstract!FairSpec

(* Whoever takes the mutex gives it back, through every failure path.       *)
MutexReleased == \A t \in Threads : mutex = t ~> mutex # t \/ dead

(* A crash nobody claims is never swallowed or looped on: the process dies, *)
(* or the host's handler has taken over.  It needs the other threads to     *)
(* stop installing handlers some time: each install can turn the SIG_DFL    *)
(* that abort() relies on back into the library's handler.                  *)
CrashEnds ==
    \A t \in Threads :
        <>[](\A u \in Threads : pc[u] \notin LockedPCs) =>
            (pc[t] = "hget" ~> dead \/ pc[t] \in {"out", "session"})

---------------------------------------------------------------------------
(* Why the properties hold: an inductive invariant, by parts.               *)

(* The part of the locked code the mutex's owner is in.                     *)
Phase == IF mutex = NoThread THEN "free" ELSE pc[mutex]

(* Phases in which no setup or release is half done.                        *)
Settled == {"free", "setup", "unlockOk", "unlockFail", "dec", "relUnlock"}
(* The first setup, before its key exists.                                  *)
Building == {"install", "save", "mkkey", "rollback"}

(* The mutex's owner, and nobody else, is between lock and unlock; the      *)
(* setup loop stays inside native_sig_catch.                                *)
LockInv ==
    /\ \A t \in Threads : mutex = t <=> pc[t] \in LockedPCs
    /\ \A t \in Threads : pc[t] \in {"install", "save"} => i \in Signals

(* A thread that has a structure is in its session or crashed in it.        *)
StructureInv ==
    \A t \in Threads :
        /\ specific[t] => pc[t] \in HandlerPCs \cup {"session"}
        /\ pc[t] = "session" => specific[t]

(* The key exists exactly while references are counted, and a little longer *)
(* on both sides.                                                           *)
KeyInv ==
    /\ Phase \in Settled => (key <=> initialized # 0)
    /\ Phase = "bump" => key
    /\ Phase \in Building => initialized = 0 /\ ~key
    /\ Phase \in {"restore", "delkey"} => initialized = 0 /\ key

(* A signal the library has not taken, or has given back; and one it has    *)
(* taken, with the host's disposition in the table.                         *)
Untouched(s) ==
    /\ disposition[s] \in HostActions
    /\ ~aborting => disposition[s] = host[s]
Taken(s) ==
    /\ saOld[s] \in HostActions
    /\ ~aborting => disposition[s] = Coffee /\ saOld[s] = host[s]

(* How far the loops have come, signal by signal.                           *)
TableInv ==
    /\ Phase \in Settled /\ initialized = 0 =>
           ~allocated /\ \A s \in Signals : Untouched(s)
    /\ Phase \in Settled /\ initialized # 0 =>
           allocated /\ \A s \in Signals : Taken(s)
    /\ Phase = "bump" => allocated /\ \A s \in Signals : Taken(s)
    /\ Phase \in {"install", "save", "mkkey"} =>
           allocated /\ \A s \in Signals : s < i => Taken(s)
    /\ Phase \in {"install", "save", "mkkey"} =>
           \A s \in Signals : s > i => Untouched(s)
    /\ Phase = "install" => Untouched(i)
    /\ Phase = "save" => /\ previous \in HostActions
                         /\ ~aborting => /\ disposition[i] = Coffee
                                         /\ previous = host[i]
    /\ Phase = "mkkey" => i = SIG_CATCH_COUNT + 1
    /\ Phase \in {"restore", "rollback"} =>
           /\ ok /\ allocated
           /\ \A s \in Signals :
                  IF i <= s /\ s <= count THEN Taken(s) ELSE Untouched(s)
    /\ Phase = "delkey" => ~allocated /\ \A s \in Signals : Untouched(s)

(* What holds whichever calls fail ...                                      *)
CountingInv == TypeOK /\ LockInv /\ StructureInv /\ RefcountExact /\ KeyInv

(* ... and what holds as long as restoring a disposition does not fail.     *)
RegistryInv == CountingInv /\ TableInv

---------------------------------------------------------------------------
(* What comments of the source say, and the code does not do.               *)

(* "pthread_getspecific() is only valid once the key exists."               *)
KeyExistsWhenRead ==
    \A t \in Threads : pc[t] \in {"getkey", "hgetkey"} => key

(* "Not ours: chain to the previously installed handler."                   *)
ChainsToHost ==
    \A t \in Threads :
        pc[t] = "hchain" /\ ~aborting =>
            allocated /\ saOld[sig[t]] = host[sig[t]]

=============================================================================
