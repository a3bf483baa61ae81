# A verification project for coffeecatch

coffeecatch turns a fatal signal (SIGSEGV, SIGABRT, ...) into a jump back to a
`COFFEE_CATCH()` block. It installs process-wide signal handlers while any
thread is in a protected block, keeps a structure per thread, and recovers with
`siglongjmp()`. This directory holds TLA+ models of that code, TLC
configurations that check them, and TLAPS proofs about all of its parts. File
names such as `coffeecatch.c:640` refer to `src/`.

The build that is modelled has `USE_UNWIND` (the Android default, and a CI leg)
and the alternate stack; a build without `USE_UNWIND` has fewer steps in the
handler and none that is not here.

## The system

| component | state | operations | what is hard |
|---|---|---|---|
| Registry of handlers, `coffeecatch.c:222-288, 638-645, 660-812, 935-1049` | `native_code_g`: `initialized` (reference count), `mutex`, `sa_old`; the key `native_code_thread`; the kernel's dispositions | first setup, shared setup, rollback, release, thread exit, unlocked readers, chaining, giving up | every thread shares it; readers and handlers take no lock; any call may be refused half way |
| Session of a thread, `coffeecatch.c:240-281, 441-483, 544-634, 834-926, 1554-1612`, `coffeecatch.h:214-263` | `native_code_handler_struct`: `ctx`, `ctx_is_set`, `reenter`, `unwind_ctx`, `unwind_guarded`, alternate stack; the thread's mask and call stack | `COFFEE_TRY`, `COFFEE_END`, the two handlers, recovery, the guarded unwinder, `coffeecatch_abort` | control jumps between frames; handlers nest in handlers |
| Alarm watchdog, `coffeecatch.c:233-236, 485-493, 647-655` | the process's one `alarm()`, `alarm_pending` | arm, mark, cancel | two steps to cancel, any thread may do it, crashes come in between |
| Backtrace, `coffeecatch.c:292-315, 507-581, 1247-1313, 1509-1541` | `pc`, `frames`, `frames_size`, `frames_skip` | gather by callback, by frame pointers or by a library; index | a frame is stored before it is counted and a fault may come in between; links may form a ring; signed and unsigned indices meet |
| Message, `coffeecatch.c:1066-1242, 1317-1487` | the alternate stack, used as a text buffer, and the offset into it | format part by part | what is left of the buffer is an unsigned difference; signal handlers run on the same buffer |
| JNI layer, `coffeejni.c:43-196`, `coffeejni.h:90-127` | local references, stack trace elements | `coffeecatch_throw_exception`, `bt_fun` | references per frame; objects the VM refuses; an array sized by one count and filled by another |

The session calls the registry when its outermost block opens and closes, the
handlers of the session read the registry without its lock, and both handlers
arm the watchdog. The registry does not call the others. The handler gathers the
backtrace into the session's structure, under the session's guard; the catch
block, for Java the JNI layer's, asks for the message and walks the frames.

What makes each part correct:

* Registry: the count is the number of sessions; the handlers, the table and
  the key exist exactly while it is not zero; the host gets its own
  dispositions back; a crash nobody claims reaches the host's handler; the
  mutex is always given back.
* Session: a crash in a protected body reaches the outermost catch block with
  its own signal, whatever the unwinder does; no jump goes to a frame that is
  gone; depth, mask and alternate stack are what they were.
* Watchdog: a recovery that hangs is killed, unless somebody cancels.
* Backtrace: the frames counted are those of this crash, innermost first and
  without a gap, wherever a fault stops the gathering; an index reads the frame
  its caller means.
* Message: it fits its buffer, and nothing overwrites it while it can be read.
* JNI layer: one throwable reaches Java whatever the VM refuses, and no local
  reference stays behind.

## The modules

**`Registry.tla`** models the registry for any set of `Threads`, any number
`SIG_CATCH_COUNT` of signals, any `HostActions` and any set of `Faults`. One
action is one access to shared state: the code between two of them runs as one
step. `sigaction()` is two steps (`Install`, `Save`), because the kernel swaps
the disposition before the C library copies the old one out to `sa_old`, and
the handler reads `sa_old` without the mutex.

| in the model | in the code |
|---|---|
| `initialized`, `mutex`, `allocated`/`saOld`, `key` | `native_code_g`, `native_code_thread` |
| `disposition` | the kernel's table of dispositions |
| `specific[t]` | `pthread_getspecific()` is not NULL in thread `t` |
| `i`, `count`, `ok`, `previous` | locals of the two loops, used under the mutex only |
| `pc[t]` | where the thread is; `LockedPCs` lie between lock and unlock |
| `Get`, `GetKey` | `coffeecatch_get()` from outside a block: load, then read the key |
| `Lock` ... `UnlockSetup`, `StructInit`, `SetSpecific` | `coffeecatch_handler_setup()` and `_setup_global()` |
| `SetupFails`, `RestoreOne`, `FreeTable` in "rollback" | a refused `sigaction()` or `pthread_key_create()` |
| `Cleanup`, `ReleaseLock` ... `ReleaseUnlock` | `coffeecatch_handler_cleanup()`, `coffeecatch_thread_exit()`, `coffeecatch_release_global()` |
| `Crash`, `HandlerGet` ... `Abort` | the handlers, on a crash no context claims |
| `HostSigaction` | the host program, while the library is not in use |
| `host`, `aborting` | history variables the code does not have |

A crash that a block recovers from changes none of this state, so it is not in
this module; `Crash` in "session" is a crash in a catch block. `Faults` names
the calls that may be refused; the assertions on the mutex and the key in
`coffeecatch_release_global()` are taken to hold.

**`SessionRegistry.tla`** is what the registry promises, without lock, table or
key: handlers change hands only while nobody holds a session, and an idle
process gets its own back. `Registry` instantiates it as `Abstract`.

**`Session.tla`** models one thread, for any `Signals`, any `MaxBlocks` and any
set of `Faults`. Its call stack is a sequence of activations, blocks and handlers;
a jump buffer is a depth in that sequence with a mask, and `LongJump` cuts the
sequence there. The handler is one action per step that another signal can come
between: `GetStruct`, `CopyContext`, `Unblock`, `StoreUnwindContext`, `Guard`,
`Extract` or `ExtractFaults`, `Unguard`, `Remask`; then `UseUp`, `Collapse`,
`Disarm` and `Leap`, which are `coffeecatch_try_jump_userland()` with a valid
context, or `NoJump` and `Chain` or `HostTakes`. `BackOut` is the first test of
both handlers. `sigsetjmp()`, `siglongjmp()` and the start of a handler are one
step each, the mask and the stack together. `Receive` sends the thread a handled
signal at any moment it is not blocked. `COFFEE_TRY()` is `Setup` and
`StoreContext`, with the instant between `coffeecatch_setup()` and `sigsetjmp()`
in which the context is armed and not yet filled; `COFFEE_END()` of the session's
own block is `EndLast`, `Invalidate` and `CloseSession`, so that a signal can come
after the depth is zero and before the context is invalid. `message` is what the
program has of `coffeecatch_get_message()`, which is the alternate stack itself:
`Deliver` overwrites it when a handler is started there. The registry's half of a
setup is here just success or failure. The previous handler returns or there is
none, which is the end of the process (`Chain`), or it is the host's and jumps
back to the program with the mask it had there (`HostTakes`), as it may in
`Registry` (`OldHandlerReturns`) and `Watchdog` (`Chain`): to code outside every
block, or to a `COFFEE_CATCH` block and the blocks nested in it (`HostGuards`).
`HostStack` is the alternate stack the thread had before, taken to be disabled as
it is by default.

**`ProtectedBlocks.tla`** is what a thread sees of it: blocks, a crash, a recovery
in the outermost block, or death, or a host that takes the crash itself. `Session`
instantiates it as `Blocks`. The way back to a catch block has two steps: the body
is left (`Depart`), and its catch block begins (`Recover`). A signal in between
finds no block that protects, and that body is lost. A block is seen from the end
of its `COFFEE_TRY()` until its context is invalid, so a crash in the middle of
`COFFEE_END()` is one in the body. The crash is the last signal delivered
(`Supersede`), but for those that come while a handler guards its unwinder, which
nobody sees. Three constants say what else the thread must reckon with: `Sent`,
the signals somebody sends it; `StackMayRunOut`, that a body may run without an
alternate stack (`USE_SILENT_SIGALTSTACK`); `FaultsMayKill`, that the unwinder may
raise a signal which nobody has unblocked. `Session` gives them their values from
its own constants (`Way` shows a body that is being left, or lost), so with no
signals sent, no silent refusal and an unwinder that raises SIGSEGV, SIGBUS or
SIGABRT a crash in a body always ends in its catch block, with its own signal.

**`Watchdog.tla`** models the one `alarm()`, its mark and the allocator's lock,
which is why the alarm is there: a thread that crashes in `malloc()` never
gives it back. Time is not counted; `Expire` may happen whenever the alarm
runs. A crash outside every block arms the alarm and leaves it unmarked
(`Unclaimed`); one in a catch block has a structure, so it is marked (`MarkAlarm`)
before both go to the host's handler or to `abort()` (`Chain`).

**`Backtrace.tla`** models what the handler gathers, frame by frame: the callback
of `_Unwind_Backtrace()` (`UnwindCallback`, `Count`), the walk along the frame
pointers (`FollowLink`), libcorkscrew with libunwind behind it (`Corkscrew`,
`Libunwind`, which counts its frames and then copies them, `CopyFrame` by
`CopyFrame`). A stack is whatever it offers next: any frame may be NULL, any link
any address, and `BackOut` may end the gathering after any step. `Extract` begins
it again when another signal comes, in the same structure. `GetBacktrace` is the
slot that `coffeecatch_get_backtrace()` reads, with the width of `ssize_t` and
`size_t`. Program counters are named by the place they were found at, and `seen`
remembers them, to compare with.

**`Message.tla`** models `coffeecatch_get_message()` as a list of parts, one
`snprintf()` each, into what is left of the buffer: how long a part is, which
table it is taken from and where it is cut off; not its words.

**`Jni.tla`** extends both: a crash in native code, the frames gathered in the
handler, the jump to the catch block, the message, and
`coffeecatch_throw_exception()` step by step with `bt_fun()` in its loop. The VM
is the set `live` of local references; `Refusals` are the failures the code looks
for. A reference is named by the variable that holds it and the turn of the loop,
so one nobody deletes stays.

**Proof modules**: `RegistryProofs`, `WatchdogProofs`, `SessionProofs`,
`SessionRefinement` and `JniProofs` hold the theorems about the module they are
named for, `BacktraceProofs` and `MessageProofs` the lemmas `JniProofs` rests on.

`MCRegistry`, `MCSession`, `MCWatchdog` and `MCJni` give the constants their values.
Definitions called `Bug...` are slips the properties are tested against; each
stands just before the definition it spoils, and nothing uses it.

## What is checked

Runs that pass:

| run | instance | shows |
|---|---|---|
| `RegistrySafety` | 3 threads, 2 signals, every setup fault | `RefcountExact`, `ArmedWhileHeld`, `HostRestored`, `HandlerHasTable`, `StructureOwned`, `CatchCrashChains`, the inductive invariant `RegistryInv`, and `ImplementsRegistry`: Registry implements SessionRegistry's safety part |
| `RegistryLive` | 2 threads, 2 signals, every setup fault, three kinds of host disposition | `GivesBack`: Registry implements SessionRegistry with its liveness; `CrashEnds`: a crash nobody claims kills the process or reaches the host's handler |
| `RegistryRestore` | 2 threads, 2 signals, every fault | with a restore that fails too, count and structures are right and the mutex is given back (`MutexReleased`) |
| `SessionSafety` | 3 nested blocks, 4 signals, 2 of them sent at any moment, 3 nested handlers, any call refused that may be (1.3 million states) | `DepthBalanced`, `RecoveryTargetLive`, `GuardTargetLive`, `MaskRestored`, `AltStackLive`, `MessageKept`, `PromisesKept`: Session implements ProtectedBlocks whatever is sent and refused |
| `SessionRefines` | 3 nested blocks, an unwinder that faults or aborts, no signal sent and no restore refused (5,526 states) | `CrashesAreDealtWith`: Session implements ProtectedBlocks with its liveness; `AltStackRestored` |
| `WatchdogLive` | 3 threads, one may cancel, 3 crashes (20,626 states) | `WatchedIsTimed`, `NoHang` |
| `JniReport` | every backend, 3 slots for up to 5 frames, 3-bit integers for the index, a buffer of 10, either object refused (1.5 million states) | `FramesFaithful`, `IndexRight`, `WalkAdvances`, `WalkEnds` of Backtrace; `MessageFits` of Message; `LocalsReleased`, `LocalsBounded`, `RefsLive`, `TraceMatches`, `ThrownOnce` |

Runs that find the code at odds with one of its own comments. Each checks one
property, named after the comment:

| run | the comment | what the code does |
|---|---|---|
| `RegistryKeyRead` | `coffeecatch.c:639` "pthread_getspecific() is only valid once the key exists." | the count is loaded and the key read without the mutex; the last release may delete the key in between |
| `RegistryChain` | `coffeecatch.c:685` "Not ours: chain to the previously installed handler." | `sa_old` is read without the mutex: a crash outside every block may find it not yet filled (TLC's trace: the handler is installed and the disposition before it not saved), or freed |
| `SessionCatchBody` | `coffeecatch.h:92` "If a recognized signal is received in this section, the execution will be diverted to the COFFEE_CATCH() block" | a block opened inside a catch block is only counted; a crash in it goes to the last resort |
| `WatchdogCancel` | `coffeecatch.h:206` "Returns 0 if an alarm was pending and is now cancelled" | the mark is taken before the alarm is disarmed: one call may disarm the alarm of a later crash, and another then returns 0 with none running |
| `JniTrace` | `tests_jni.c:195` "CHECK(cause->trace->stored == cause->trace->length);" | the array has `bt_size` elements and `bt_fun()` is called for the frames that are not NULL; the walk along the frame pointers stores the trap's own program counter, which is NULL after a call through a NULL pointer, so the last element of the stack trace stays null |

`RegistryKeyRead` and `RegistryChain` concern threads outside every block. For a
thread inside a session the same unlocked reads are safe: that is
`StructureOwned` and `CatchCrashChains`, proved below.

More that the models show without a run of their own:

* A release that cannot put every disposition back keeps the table on purpose
  (`coffeecatch.c:750`). It keeps it until the next first setup, which overwrites
  it, saves the library's own handler, puts that "back" at the release and frees
  the table (`coffeecatch.c:781`). `HandlerHasTable` is therefore stated, checked
  and proved where restores succeed.
* Between `coffeecatch_setup()` and `sigsetjmp()` the context is marked valid and
  not yet filled (`coffeecatch.c:1573`); a signal in that instant jumps through a
  buffer nobody filled. `RecoveryTargetLive` names the instant as the one
  exception; no block is seen yet, so `PromisesKept` lets the process die there.
* Between the invalidation of the context (`coffeecatch.c:454`) and `siglongjmp()`
  (481) a signal finds no context: it is chained, and `abort()` ends a process
  that was on its way back to its catch block. `ProtectedBlocks` allows it
  (`Supersede` makes the body a lost one), and nothing else that kills a
  protected body through signals that are sent. The depth is 1 meanwhile, whatever
  is nested, which `DepthBalanced` states.
* A crash in a catch block chains to the host's handler, whose jump back leaves
  the block running with a message that the library's handler has overwritten
  (`coffeecatch.c:1393`), and with `coffeecatch_get_signal()` telling the second
  signal. `MessageKept` says that nothing but this step does that.
* libunwind's frames are counted (`coffeecatch.c:573`) before they are copied
  (574-578). A signal in between backs out, and the rest of the count stands for
  slots that hold an earlier crash's frames or nothing; the comment at
  `coffeecatch.c:583` speaks of "the frames gathered so far". `FramesFaithful`
  excepts these slots (`InPlace`) and no others.

### Bounds

* Threads: the hazards of the registry involve a thread that opens, one that
  closes and one that reads or crashes, so three. Liveness and restore failures
  use two: they are about a thread and the one it waits for.
* Signals: SIGABRT, which giving up treats apart, and one of the others; the
  loops then have a first, a last and a half-done state. The proofs cover any
  number.
* Blocks: an outer block, a nested one and one more, so that a jump skips two
  levels; a failed setup can be around a session.
* `MaxHandlers`: nested handlers caused by sent signals. Three lets a signal
  come in a handler that was itself called in a handler.
* `MaxCrashes`: three crashes let one be cancelled, one overlap the
  cancellation and one follow it.
* Frames: the callback skips two, so 3 slots and 5 frames fill the array exactly
  and let a stack be shorter, exact, or interrupted; NULLs make it shorter still.
  Word 2 and addresses up to 6 give odd links, links that fall and links that
  climb three times, the length of the array.
* Integers: with `SSIZE_MAX` 7 every index from -8 to 7 is tried on sizes up to 3,
  so the sum wraps both ways; the proof covers every width.
* The message: texts of 1, 2, 3, 9 and 12 characters in a buffer of 10: parts that
  fit, one that ends at the last character, parts cut off, parts with no room
  left; 15 is the largest `size_t`, above what an offset past the end would give.
* `LocalCapacity` 9: five references and the four of a frame, the most the code
  can hold.
* The buffers of alternate stacks: one in use and one that an earlier session
  has leaked. A run out of buffers is a failed setup.

No symmetry is used.

### Fairness

* `Registry`: weak fairness of `LibraryStep(t)`, per thread. Inside the library
  a thread waits for nothing but the mutex and the host's handler, so a
  scheduler that runs every thread runs it on. Nothing is assumed of the
  program (it may stay in a block for ever) and the mutex need not be fair.
  `CrashEnds` assumes in its own statement that setups and releases stop at
  some point: each first setup can put the library's handler back over the
  SIG_DFL that `abort()` relies on, and a program that does this for ever could
  keep the crashed thread going round.
* `Session`: weak fairness of the handler's steps and of the steps inside
  `COFFEE_TRY()` and `COFFEE_END()` (`LibraryStep`), which wait for nothing but
  the host's handler. The
  unwinder may always return: it reads a bounded number of frames.
* `Jni`: weak fairness of `Walk`, the gathering in the handler: a loop that runs
  goes on. Nothing is assumed of faults, or of the rest.
* `Watchdog`: weak fairness of `Expire` (time passes) and of threads inside the
  library. A crash arms the alarm afresh, so a process that crashes for ever
  would never expire; `MaxCrashes` excludes it.

Deadlock is checked in the runs of `Registry`, `Session` and `Jni`: a process that
was killed stutters (`Killed`), as does a thread that has returned to Java
(`Returned`), and a live one that cannot step would be reported.
It is not checked in those of `Watchdog`: `coffeecatch.h:203` says a process
whose alarm was cancelled may deadlock, and there it does.

## What is proved

Every theorem is about the specification the runs check, for all values of its
constants. The assumptions are the named ones of the modules (`ASSUME`) and, where
the table has them, hypotheses of the theorem.

### Registry

For every set of threads, every number of signals, every set of host dispositions
(a finite set of threads, at least one signal, SIG_DFL among the host's
dispositions, the library's handler not among them).

The properties are not inductive: that the count equals the number of holders
says nothing about what a half-done setup has installed. The invariant
`RegistryInv` adds:

* `LockInv`: the mutex's owner, and only it, is between lock and unlock. It
  makes `Phase`, the owner's program counter, the state of the locked code.
* `StructureInv`: where a thread that has a structure can be.
* `KeyInv`: by phase, whether the key exists and whether the count is zero.
* `TableInv`: by phase and signal by signal, how far the install and restore
  loops have come: `Taken` (ours, with the host's disposition in the table) or
  `Untouched`.

`CountingInv` (the first three, typing and `RefcountExact`) is inductive
whichever calls fail. `TableInv` needs `~MayFail("restore")`: when the kernel
refuses to put a disposition back the table is kept on purpose, and what becomes
of it is told above.

| theorem | states | assumes |
|---|---|---|
| `CountingInvariant` | `[]CountingInv` | nothing |
| `TypeCorrect` | `[]TypeOK` | nothing |
| `RefcountCorrect` | `[]RefcountExact` | nothing |
| `StructuresCorrect` | `[]StructureOwned` | nothing |
| `RegistryInvariant` | `[]RegistryInv` | `~MayFail("restore")` |
| `HeldIsArmed` | `[]ArmedWhileHeld` | the same |
| `ReleasedIsRestored` | `[]HostRestored` | the same |
| `TableOutlivesHandlers` | `[]HandlerHasTable` | the same |
| `CatchCrashFindsHost` | `[]CatchCrashChains` | the same |
| `RegistryRefinesSessions` | `ImplementsRegistry`: Registry implements SessionRegistry's safety part | the same |

The proofs go action by action. Steps outside the lock are dealt with once
(`OutsideIsQuiet`): they leave the phase and the registry alone, except that
giving up changes a disposition. Only `Bump` and `Drop` change the holders.
For the refinement, they are the abstract `Open` and `Close`, `Install` and
`RestoreOne` are hand-overs at a count of zero, and everything else stutters.

### Session

For every set of signals, every nesting of blocks and of handlers, every fault of
the unwinder and every refused call. `SessionInv` says that for some n and d the
thread has n blocks, the d-th of which opened its session (0 without one), and:

* `ShapeInv`: handlers are on top of blocks; the blocks below the d-th are ones
  whose setup failed, those above it are nested ones, and none is above one that
  inside `COFFEE_TRY()` or `COFFEE_END()`. A jump cuts the stack at the d-th
  block, and this is what is still true there.
* `DepthInv`: the depth counts n - d, but for the blocks a handler on its way back
  has already taken off it (`Shrunk`).
* `ContextInv`: an armed context is that of the d-th block, with an empty mask,
  unless the block is in its `COFFEE_TRY()`; and it stays so for the one handler
  that has used it up and not jumped yet (`Jumps`). There is never a second one,
  because the context is invalid when the first goes on.
* `GuardInv`: while the guard is armed the handler that armed it is in the
  unwinder, and every handler above it is at its first test, so the next step of
  any of them backs out.
* `MaskInv`: without handlers nothing is blocked.
* `MessageInv`: there is a message only once the context is invalid, so a handler
  of the library that overwrites it never returns to the program; only
  `HostTakes` does.
* `StacksInv`: the alternate stack in use is allocated or the host's; with no
  refusal nothing leaks.

| theorem | states |
|---|---|
| `SessionInvariant` | `[]SessionInv` |
| `TypeCorrect`, `DepthCorrect`, `RecoveryCorrect`, `GuardCorrect`, `MaskCorrect`, `MessageCorrect`, `AltStackCorrect`, `AltStackGivenBack` | `[]` of `TypeOK`, `DepthBalanced`, `RecoveryTargetLive`, `GuardTargetLive`, `MaskRestored`, `AltStackLive`, `AltStackRestored`; `MessageKept`, which is about steps |
| `SessionRefinesBlocks` (in `SessionRefinement`) | `PromisesKept`: Session implements ProtectedBlocks' safety part |

None assumes anything beyond the module's assumptions. Handler steps
are dealt with once (`HandlerGoesOn`: a handler goes on and only its own state
changes), as are deliveries (`DeliverStep`) and steps inside the library
(`BlockGoesOn`).

For the refinement the invariant is not enough: it says where a jump goes, not
that there is one, nor what it reports. `PromiseInv` adds, for handlers nested to
any depth:

* `HandlerInv`: the handler on top, once past copying, and whoever guards its
  unwinder, has in the structure the signal that is seen as the crash
  (`Acting` is where that signal is on the stack); in the unwinder the guard is
  armed and SIGSEGV and SIGBUS are unblocked; and a handler gives up only with
  the context invalid.
* `ArmedInv`: a body has an armed context or a handler that is using it up, and
  its alternate stack unless that may be refused.

Then `StoreContext`, `Reenter` and `SetupFails` are the abstract `Open`; `End` its
`Close`, as is `EndLast` after a recovery and `Invalidate` without one; `UseUp` is
`Depart` and `Leap` is `Recover`, or its `Die` out of the instant before
`sigsetjmp()`; `Chain` its `Die`, and `HostTakes` its own
(`Protects`: a block that protects has a valid context, or the handler on top is
jumping to it, so no handler gives up; `LastResort` says so),
as is a fault of the unwinder that the kernel cannot deliver; a delivery is its
`Crash` to the program, nothing under the guard, and `Supersede` to a handler
elsewhere (`Delivered`). All else is unseen (`HandlerUnseen` once for all steps of
handlers).

### Watchdog

For every set of threads and cancellers and every number of crashes:
`TypeCorrect`, and `WatchedCorrect`, `[]WatchedIsTimed`, which is inductive
together with the types: while there is a thread whose last crash no cancellation
has overlapped or followed, the alarm runs and nobody is cancelling. It says
nothing of the mark, which a cancellation that overlaps a crash can leave without
an alarm: that is `WatchdogCancel`.

### Backtrace, message and JNI layer

For every backend, every length of the array of frames, of the buffer and of the
texts, every width of integers, every set of refusals.

| theorem | states | by |
|---|---|---|
| `FramesCorrect` | `[]FramesInv` | the callback stores before it tests the bound; what makes it safe is that the unwinder is never asked to go on with a full array |
| `FaithfulCorrect` | `[]FramesFaithful` | `FaithInv`, below |
| `WalkProgress` | `WalkAdvances` | `DepthInv`, and the measure `StepsLeft`: what is left of the stack or of the addresses above the frame pointer, and a step less once a frame is counted |
| `IndexCorrect` | `[]IndexRight` | the arithmetic of `IndexArithmetic`, from the bound on the frames |
| `MessageCorrect` | `[]MessageFits` | `MessageInv`: the offset is the length of the text, and stays below the length of the buffer |
| `TypeCorrect` | `[]TypeOK` | `LoopInv`: elements and indices within the frames gathered |
| `ReleasedCorrect`, `RefsCorrect` | `[]LocalsReleased`, `[]RefsLive` | `LiveInv`: step by step the references that are live |
| `BoundedCorrect` | `[]LocalsBounded`, if `LocalCapacity >= 9` | `LiveInv` and counting |
| `ThrownCorrect` | `[]ThrownOnce` | `ThrownInv`: nothing is thrown before its step, and the exception is there unless refused |
| `TraceCorrect` | `[]TraceMatches` | `TraceInv`: by step, the elements set so far are the frames read so far that are not NULL, and the index is their number |

`FramesFaithful` is not inductive: it says nothing of a frame that is stored and
not counted yet, nor of how many frames the callback has still to pass over.
`FaithInv` adds both: the slots filled so far hold the first of what is `Wanted`
of the stack read so far (libunwind's only as far as they are copied), all of it
unless a fault cut the gathering short, and what is left to pass over is what is
missing of two frames. A crash begins a stack of its own, with nothing wanted of
it, and each step of the gathering reads one frame more; `WantedGrows` says what
that adds.

Both properties are about a sequence without its NULLs (`NonNull`), which the
proofs need for every length. The library's induction theorems take an operator,
which no prover here can instantiate; `UpTo` says the same of a set of numbers,
from the existence of a least number outside it (`LeastNumber`), and is enough:
`NonNullAppend` and `NonNullType` follow from it, for which `NonNull` is written
as a recursive function.

### Only model-checked

* Liveness, which with ENABLED is out of the prover's reach: `MutexReleased`,
  `CrashEnds`, `GivesBack` and `CrashesAreDealtWith` as to their liveness,
  `NoHang`, `WalkEnds`. Of `WalkEnds` the safety half is proved: `WalkAdvances` has
  a natural number fall with every step, so an endless walk would have to stand
  still; that it does not is fairness.

Every other property of a passing run is stated by a theorem.

No module has a RECURSIVE operator.

## What is not modelled

* The static buffer for the text of an error outside every session
  (`coffeecatch.c:1474`), which all threads share.
* The part of a message that names a process: the signal it belongs to, SIGCHLD,
  is not one the library handles. The wording of every part, `dladdr()` and the
  symbols included.
* The registers of a `ucontext`, one read per architecture: the program counter
  is any value.
* The Android test that takes a SIGSEGV at `0xdeadbaad` for an assertion.
* Loading libcorkscrew and libunwind with `dlopen()`, which are not built by
  default: the handles are kept on success (`coffeecatch.c:345, 410`). What the
  two return is in `Backtrace`; libcorkscrew's own enumeration of symbols is not.
* What a Java VM does with an exception that is pending when it is called, and the
  NULL cause that would go with one (`coffeejni.c:155`): the code does not look
  for it.
* A saved disposition with SA_SIGINFO and SIG_IGN: `Callable` has the test as
  the code has it, which passes it (`coffeecatch.c:430`), but no run has a host
  that combines the two.
* C++ unwinding. A block left by `return` or an exception runs its
  `COFFEE_END()`, which is `End` or `EndLast`.
* A SIGFPE, SIGILL or SIGTRAP of the unwinder, in the runs: their `UnwinderFaults`
  has SIGSEGV and SIGBUS, which `coffeecatch_fill_backtrace()` unblocks, and
  SIGABRT, which `abort()` unblocks. One of the others while the same signal is
  being handled is blocked, and the kernel kills the process. No run has them; the
  theorems about `Session` do, and `FaultsMayKill` is what `PromisesKept` then
  allows.
* The instant between reading the pointer `sa_old` and reading the table behind
  it: `CallOldHandler` does both in one step. `CatchCrashChains` keeps the table
  in place for as long as a session is open, so it matters only where
  `RegistryChain` already fails.
* A host that blocks in its handler, that changes dispositions while the library
  is in use, or that has handlers of its own run on the alternate stack, where
  they too would overwrite a message. A host whose handler jumps to a context in
  the middle of a protected body, which it can get to only by a signal that comes
  between 454 and 481, or before COFFEE_TRY() is done.
* The order of restoring and freeing an alternate stack (`coffeecatch.c:850-860`):
  `FreeStruct` is one step, and what is checked of it is the leak on a refusal.
* `Registry` and `Session` composed. What each needs of the other is small and
  proved: a recovery changes nothing in the registry, and a session relies on the
  key and its structure staying while it is open, which is `StructureOwned`.
* Weak memory: atomics are taken as sequentially consistent steps.
* The tests, the sample and the build files.

## Plan

Done: `Registry`, `SessionRegistry` and their proofs; `Session`,
`ProtectedBlocks`, their proofs and the refinement; `Watchdog` and its proofs;
`Backtrace`, `Message`, `Jni` and their proofs.

1. The static buffer of a thread outside every session, with the threads that
   share it.
2. A host whose own handlers run on the alternate stack.
