------------------------------- MODULE Session -------------------------------
(***************************************************************************)
(* One thread inside coffeecatch: its nested protected blocks, its         *)
(* native_code_handler_struct, its alternate stack, its signal mask, and   *)
(* the activations of the two signal handlers on it, down to the guard     *)
(* that catches the faults of the unwinder itself.                         *)
(*                                                                         *)
(* The thread's call stack is a sequence of activations: blocks at the     *)
(* bottom, handlers above them.  A jump buffer is the place in that        *)
(* sequence it was filled at; jumping cuts the sequence back to it.  The   *)
(* process-wide half of a session is module Registry: here opening a       *)
(* session simply succeeds or fails.                                       *)
(***************************************************************************)
EXTENDS Integers, Sequences, FiniteSets

CONSTANTS
    Signals,         \* the signals the library handles
    SIGABRT,
    SIGSEGV,
    SIGBUS,
    NoSignal,
    UnwinderFaults,  \* signals the unwinder may raise on a corrupt stack
    AsyncSignals,    \* handled signals that may also be sent to the thread
    Buffers,         \* addresses malloc() may return for alternate stacks
    HostStack,       \* the alternate stack registered before the library;
                     \*   disabled, as a thread's is by default
    NoStruct,        \* coffeecatch_get() returns NULL
    NoContext,       \* a sigjmp_buf nobody has filled
    Faults,          \* calls that may fail: see FaultKinds
    MaxBlocks,       \* bound on the nesting of blocks
    MaxHandlers      \* bound on the nesting of handlers, for AsyncSignals

(* setup: something coffeecatch_setup() needs is refused.                   *)
(* silent: the alternate stack is refused, which a build with               *)
(*   USE_SILENT_SIGALTSTACK does not mind.                                  *)
(* altstack: putting the previous alternate stack back fails.               *)
FaultKinds == {"setup", "silent", "altstack"}

ASSUME SignalsAssumption ==
    /\ {SIGABRT, SIGSEGV, SIGBUS} \cup UnwinderFaults \cup AsyncSignals
         \subseteq Signals
    /\ NoSignal \notin Signals
ASSUME StacksAssumption == HostStack \notin Buffers
ASSUME FaultsAssumption == Faults \subseteq FaultKinds
ASSUME BoundsAssumption == MaxBlocks \in Nat /\ MaxHandlers \in Nat

VARIABLES
    stack,     \* activations of the thread, outermost first
    t,         \* its native_code_handler_struct, or NoStruct
    mask,      \* its signal mask, restricted to the handled signals
    altStack,  \* the alternate stack the kernel uses
    buffers,   \* alternate stacks malloc() has handed out
    message,   \* what the program has of coffeecatch_get_message()
    dead

vars == <<stack, t, mask, altStack, buffers, message, dead>>

MayFail(call) == call \in Faults

---------------------------------------------------------------------------
(* Activations.                                                             *)

(* A block runs its body (it filled ctx), a nested body, the COFFEE_CATCH   *)
(* after a jump, or the COFFEE_CATCH after a failed setup.  "try" is the    *)
(* instant inside COFFEE_TRY() between coffeecatch_setup() and sigsetjmp(); *)
(* "ending" and "closing" are inside the last COFFEE_END(), before and      *)
(* after the context is invalidated.                                        *)
Block(part) == [kind |-> "block", at |-> part, sig |-> NoSignal, old |-> {}]

(* A handler: where it is, its signal, the old_mask of its backtrace.       *)
Handler(s) == [kind |-> "handler", at |-> "get", sig |-> s, old |-> {}]

InsideLibrary == {"try", "ending", "closing"}
BlockParts == {"body", "nested", "catch", "failed"} \cup InsideLibrary

(* "collapse", "disarm" and "leap" are between the invalidation of the      *)
(* context and siglongjmp().                                                *)
JumpParts == {"collapse", "disarm", "leap"}
HandlerParts == {"get", "copy", "unblock", "setjmp", "guard", "extract",
                 "unwound", "remask", "jump", "chain"} \cup JumpParts

(* Activations, the buffers sigsetjmp() may fill, and the structures a      *)
(* thread may have.                                                         *)
Activations == [kind : {"block", "handler"}, at : BlockParts \cup HandlerParts,
                sig : Signals \cup {NoSignal}, old : SUBSET Signals]
Contexts == [depth : Nat, mask : SUBSET Signals]
Structures ==
    [reenter : 0 .. MaxBlocks, ctxIsSet : BOOLEAN,
     ctx : Contexts \cup {NoContext},
     unwindGuarded : BOOLEAN, unwindCtx : Contexts \cup {NoContext},
     code : Signals \cup {NoSignal}, buffer : Buffers, installed : BOOLEAN,
     stackOld : Buffers \cup {HostStack}]
ASSUME NullAssumption == NoContext \notin Contexts /\ NoStruct \notin Structures

Depth == Len(stack)
Top == stack[Depth]
At(kind, part) == ~dead /\ stack # <<>> /\ Top.kind = kind /\ Top.at = part
InUserCode ==
    ~dead /\ (stack # <<>> => Top.kind = "block" /\ Top.at \notin InsideLibrary)
Goto(part) == stack' = [stack EXCEPT ![Depth].at = part]

Handlers == {d \in 1 .. Depth : stack[d].kind = "handler"}
Jumping == {d \in Handlers : stack[d].at \in JumpParts}
BlockDepth == Cardinality({d \in 1 .. Depth : stack[d].kind = "block"})

(* The block whose COFFEE_TRY() opened the session.                         *)
SessionBlocks == {d \in 1 .. Depth :
                    /\ stack[d].kind = "block"
                    /\ stack[d].at \in {"body", "catch"} \cup InsideLibrary}
InCatch == \E d \in SessionBlocks : stack[d].at = "catch"

(* What sigsetjmp(buf, 1) stores.                                           *)
Context == [depth |-> Depth, mask |-> mask]

(* siglongjmp(): the activations above the buffer's are gone, its own goes  *)
(* on at another place, and the mask is the one stored.                     *)
LongJump(context, part) ==
    /\ stack' = [SubSeq(stack, 1, context.depth)
                   EXCEPT ![context.depth].at = part]
    /\ mask' = context.mask

(* The kernel delivers a handled signal: to a fresh activation with the     *)
(* signal blocked, on the alternate stack if there is one, where it         *)
(* overwrites the message.                                                  *)
Deliver(frames, s, blocked) ==
    /\ stack' = Append(frames, Handler(s))
    /\ mask' = blocked \cup {s}
    /\ message' = IF message = "valid" /\ altStack = t.buffer
                  THEN "overwritten" ELSE message

Init ==
    /\ stack = <<>>
    /\ t = NoStruct
    /\ mask = {}
    /\ altStack = HostStack
    /\ buffers = {}
    /\ message = "none"
    /\ dead = FALSE

---------------------------------------------------------------------------
(* Opening and closing blocks.                                              *)

(* COFFEE_TRY() inside a session: coffeecatch_reenter().                    *)
Reenter ==
    /\ InUserCode
    /\ t # NoStruct /\ t.reenter > 0
    /\ Depth < MaxBlocks
    /\ t' = [t EXCEPT !.reenter = @ + 1]
    /\ stack' = Append(stack, Block("nested"))
    /\ UNCHANGED <<mask, altStack, buffers, message, dead>>

(* A new structure, calloc()ed, after coffeecatch_setup() has armed it.     *)
NewStruct(buffer, installed) ==
    [reenter |-> 1, ctxIsSet |-> TRUE, ctx |-> NoContext,
     unwindGuarded |-> FALSE, unwindCtx |-> NoContext, code |-> NoSignal,
     buffer |-> buffer, installed |-> installed, stackOld |-> altStack]

(* COFFEE_TRY() outside every session: coffeecatch_setup().  It allocates   *)
(* an alternate stack and registers it.                                     *)
Setup ==
    /\ InUserCode
    /\ t = NoStruct
    /\ Depth < MaxBlocks
    /\ \E b \in Buffers \ buffers :
           /\ buffers' = buffers \cup {b}
           /\ \/ t' = NewStruct(b, TRUE) /\ altStack' = b
              \/ /\ MayFail("silent")
                 /\ t' = NewStruct(b, FALSE) /\ UNCHANGED altStack
    /\ stack' = Append(stack, Block("try"))
    /\ UNCHANGED <<mask, message, dead>>

(* It fails, and whatever it had allocated is freed: COFFEE_CATCH runs      *)
(* without a session.                                                       *)
SetupFails ==
    /\ InUserCode
    /\ t = NoStruct
    /\ Depth < MaxBlocks
    /\ MayFail("setup")
    /\ stack' = Append(stack, Block("failed"))
    /\ UNCHANGED <<t, mask, altStack, buffers, message, dead>>

(* sigsetjmp() on the context of the structure returns 0.                   *)
StoreContext ==
    /\ At("block", "try")
    /\ t' = [t EXCEPT !.ctx = Context]
    /\ Goto("body")
    /\ UNCHANGED <<mask, altStack, buffers, message, dead>>

(* Mutants: a buffer the kernel keeps is freed; the previous stack is       *)
(* forgotten.                                                               *)
BugFreeLeaked ==
    /\ \/ altStack' = IF t.installed THEN t.stackOld ELSE altStack
       \/ MayFail("altstack") /\ UNCHANGED altStack
    /\ buffers' = buffers \ {t.buffer}
    /\ t' = NoStruct
    /\ message' = "none"
BugForgetStack ==
    /\ buffers' = buffers \ {t.buffer}
    /\ t' = NoStruct
    /\ message' = "none"
    /\ UNCHANGED altStack

(* coffeecatch_native_code_handler_struct_free(): the previous alternate    *)
(* stack is put back before the buffer is freed, and the message with it;   *)
(* if that fails the buffer is leaked.  A stack that was never registered   *)
(* is only freed.                                                           *)
FreeStruct ==
    /\ \/ /\ t.installed
          /\ altStack' = t.stackOld
          /\ buffers' = buffers \ {t.buffer}
       \/ /\ t.installed
          /\ MayFail("altstack")
          /\ UNCHANGED <<altStack, buffers>>
       \/ /\ ~t.installed
          /\ buffers' = buffers \ {t.buffer}
          /\ UNCHANGED altStack
    /\ t' = NoStruct
    /\ message' = "none"

Pop == stack' = SubSeq(stack, 1, Depth - 1)

(* Mutant: an END that finds nothing open counts all the same.              *)
BugEnd ==
    /\ InUserCode
    /\ stack # <<>>
    /\ \/ t = NoStruct /\ UNCHANGED t
       \/ t # NoStruct /\ t' = [t EXCEPT !.reenter = @ - 1]
    /\ Pop
    /\ UNCHANGED <<mask, altStack, buffers, message, dead>>

(* COFFEE_END() of a block, or the sentinel's destructor when a C++ block   *)
(* is left by return or by an exception: coffeecatch_cleanup() of a block   *)
(* without a session, or of a nested one ...                                *)
End ==
    /\ InUserCode
    /\ stack # <<>>
    /\ \/ t = NoStruct /\ UNCHANGED t
       \/ t # NoStruct /\ t.reenter > 1 /\ t' = [t EXCEPT !.reenter = @ - 1]
    /\ Pop
    /\ UNCHANGED <<mask, altStack, buffers, message, dead>>

(* ... and of the session's own.                                            *)
EndLast ==
    /\ InUserCode
    /\ stack # <<>>
    /\ t # NoStruct /\ t.reenter = 1
    /\ t' = [t EXCEPT !.reenter = 0]
    /\ Goto("ending")
    /\ UNCHANGED <<mask, altStack, buffers, message, dead>>

(* Mutant: the context is left as it is.                                    *)
BugInvalidate ==
    /\ At("block", "ending")
    /\ Goto("closing")
    /\ UNCHANGED <<t, mask, altStack, buffers, message, dead>>

Invalidate ==
    /\ At("block", "ending")
    /\ t' = [t EXCEPT !.ctxIsSet = FALSE]
    /\ Goto("closing")
    /\ UNCHANGED <<mask, altStack, buffers, message, dead>>

(* coffeecatch_handler_cleanup(), the thread's half.                        *)
CloseSession ==
    /\ At("block", "closing")
    /\ FreeStruct
    /\ Pop
    /\ UNCHANGED <<mask, dead>>

(* The thread exits inside a session: coffeecatch_thread_exit().            *)
ThreadExit ==
    /\ InUserCode
    /\ t # NoStruct
    /\ stack' = <<>>
    /\ FreeStruct
    /\ UNCHANGED <<mask, dead>>

(* coffeecatch_get_message(), in the session's COFFEE_CATCH block: the text *)
(* is formatted in the alternate stack itself.                              *)
GetMessage ==
    /\ InUserCode
    /\ InCatch
    /\ message' = "valid"
    /\ UNCHANGED <<stack, t, mask, altStack, buffers, dead>>

---------------------------------------------------------------------------
(* Crashes.                                                                 *)

(* The program faults, or calls abort() or coffeecatch_abort().             *)
Crash(s) ==
    /\ InUserCode
    /\ Deliver(stack, s, mask)
    /\ UNCHANGED <<t, altStack, buffers, dead>>

(* The program runs out of stack: without an alternate stack the kernel     *)
(* cannot even call the handler.                                            *)
StackOverflow ==
    /\ InUserCode
    /\ IF altStack \in Buffers
       THEN Deliver(stack, SIGSEGV, mask) /\ UNCHANGED dead
       ELSE dead' = TRUE /\ UNCHANGED <<stack, mask, message>>
    /\ UNCHANGED <<t, altStack, buffers>>

(* Somebody sends the thread a handled signal.                              *)
Receive(s) ==
    /\ ~dead
    /\ s \in AsyncSignals \ mask
    /\ Cardinality(Handlers) < MaxHandlers
    /\ Deliver(stack, s, mask)
    /\ UNCHANGED <<t, altStack, buffers, dead>>

---------------------------------------------------------------------------
(* coffeecatch_signal_pass() and coffeecatch_signal_abort().                *)

(* A fault of the unwinder: back out of it.                                 *)
BackOut ==
    /\ At("handler", "get")
    /\ t # NoStruct /\ t.unwindGuarded
    /\ LongJump(t.unwindCtx, "unwound")
    /\ UNCHANGED <<t, altStack, buffers, message, dead>>

(* Otherwise the handler arms the alarm and looks for the structure.        *)
GetStruct ==
    /\ At("handler", "get")
    /\ t # NoStruct => ~t.unwindGuarded
    /\ Goto(IF t = NoStruct THEN "chain" ELSE "copy")
    /\ UNCHANGED <<t, mask, altStack, buffers, message, dead>>

(* Mutant: a second signal leaves the first one's code.                     *)
BugCopyContext ==
    /\ At("handler", "copy")
    /\ t' = [t EXCEPT !.code = IF @ = NoSignal THEN Top.sig ELSE @]
    /\ Goto("unblock")
    /\ UNCHANGED <<mask, altStack, buffers, message, dead>>

(* coffeecatch_copy_context().                                              *)
CopyContext ==
    /\ At("handler", "copy")
    /\ t' = [t EXCEPT !.code = Top.sig]
    /\ Goto("unblock")
    /\ UNCHANGED <<mask, altStack, buffers, message, dead>>

(* Mutant: the handler's own signal stays blocked in the unwinder.          *)
BugUnblock ==
    /\ At("handler", "unblock")
    /\ stack' = [stack EXCEPT ![Depth].at = "setjmp", ![Depth].old = mask]
    /\ UNCHANGED <<t, mask, altStack, buffers, message, dead>>

(* coffeecatch_fill_backtrace(), step by step.                              *)
Unblock ==
    /\ At("handler", "unblock")
    /\ stack' = [stack EXCEPT ![Depth].at = "setjmp", ![Depth].old = mask]
    /\ mask' = mask \ {SIGSEGV, SIGBUS}
    /\ UNCHANGED <<t, altStack, buffers, message, dead>>

StoreUnwindContext ==
    /\ At("handler", "setjmp")
    /\ t' = [t EXCEPT !.unwindCtx = Context]
    /\ Goto("guard")
    /\ UNCHANGED <<mask, altStack, buffers, message, dead>>

Guard ==
    /\ At("handler", "guard")
    /\ t' = [t EXCEPT !.unwindGuarded = TRUE]
    /\ Goto("extract")
    /\ UNCHANGED <<mask, altStack, buffers, message, dead>>

(* coffeecatch_extract_backtrace() returns ...                              *)
Extract ==
    /\ At("handler", "extract")
    /\ Goto("unwound")
    /\ UNCHANGED <<t, mask, altStack, buffers, message, dead>>

(* ... or faults: abort() unblocks SIGABRT first, and the kernel kills a    *)
(* thread that faults with the signal blocked.                              *)
ExtractFaults(s) ==
    /\ At("handler", "extract")
    /\ LET blocked == mask \ {SIGABRT} IN
       IF s \in blocked
       THEN dead' = TRUE /\ UNCHANGED <<stack, mask, message>>
       ELSE Deliver(stack, s, IF s = SIGABRT THEN blocked ELSE mask)
            /\ UNCHANGED dead
    /\ UNCHANGED <<t, altStack, buffers>>

(* Mutant: the guard stays armed.                                           *)
BugUnguard ==
    /\ At("handler", "unwound")
    /\ Goto("remask")
    /\ UNCHANGED <<t, mask, altStack, buffers, message, dead>>

Unguard ==
    /\ At("handler", "unwound")
    /\ t' = [t EXCEPT !.unwindGuarded = FALSE]
    /\ Goto("remask")
    /\ UNCHANGED <<mask, altStack, buffers, message, dead>>

Remask ==
    /\ At("handler", "remask")
    /\ mask' = Top.old
    /\ Goto("jump")
    /\ UNCHANGED <<t, altStack, buffers, message, dead>>

(* coffeecatch_try_jump_userland(): the context is tested, ...              *)
NoJump ==
    /\ At("handler", "jump")
    /\ ~t.ctxIsSet
    /\ Goto("chain")
    /\ UNCHANGED <<t, mask, altStack, buffers, message, dead>>

(* Mutant: the context stays valid.                                         *)
BugUseUp ==
    /\ At("handler", "jump")
    /\ t.ctxIsSet
    /\ Goto("collapse")
    /\ UNCHANGED <<t, mask, altStack, buffers, message, dead>>

(* ... and used up.  A signal that comes from here on finds none.           *)
UseUp ==
    /\ At("handler", "jump")
    /\ t.ctxIsSet
    /\ t' = [t EXCEPT !.ctxIsSet = FALSE]
    /\ Goto("collapse")
    /\ UNCHANGED <<mask, altStack, buffers, message, dead>>

(* Mutant: the depth is not collapsed.                                      *)
BugCollapse ==
    /\ At("handler", "collapse")
    /\ Goto("disarm")
    /\ UNCHANGED <<t, mask, altStack, buffers, message, dead>>

(* Back to the outermost block: its level is the only one left.             *)
Collapse ==
    /\ At("handler", "collapse")
    /\ t' = [t EXCEPT !.reenter = 1]
    /\ Goto("disarm")
    /\ UNCHANGED <<mask, altStack, buffers, message, dead>>

Disarm ==
    /\ At("handler", "disarm")
    /\ t' = [t EXCEPT !.unwindGuarded = FALSE]
    /\ Goto("leap")
    /\ UNCHANGED <<mask, altStack, buffers, message, dead>>

(* Mutant: the mask is not put back.                                        *)
BugLeap ==
    /\ At("handler", "leap")
    /\ IF t.ctx = NoContext
       THEN dead' = TRUE /\ UNCHANGED stack
       ELSE /\ stack' = SubSeq(stack, 1, t.ctx.depth - 1) \o <<Block("catch")>>
            /\ UNCHANGED dead
    /\ UNCHANGED <<t, mask, altStack, buffers, message>>

(* siglongjmp() to the block's context.  Jumping to a buffer nobody has     *)
(* filled is the end of the process.                                        *)
Leap ==
    /\ At("handler", "leap")
    /\ IF t.ctx = NoContext
       THEN dead' = TRUE /\ UNCHANGED <<stack, mask>>
       ELSE LongJump(t.ctx, "catch") /\ UNCHANGED dead
    /\ UNCHANGED <<t, altStack, buffers, message>>

(* The previous handler returns, or there is none: abort().  Module         *)
(* Registry has the details.                                                *)
Chain ==
    /\ At("handler", "chain")
    /\ dead' = TRUE
    /\ UNCHANGED <<stack, t, mask, altStack, buffers, message>>

(* Where the host may guard its own code with a handler of its own: outside *)
(* every block, and in a COFFEE_CATCH block, nested blocks included.        *)
HostGuards ==
    BlockDepth > 0 =>
        stack[BlockDepth].at \in
            {"catch", "failed"} \cup IF InCatch THEN {"nested"} ELSE {}

(* The previous handler is the host's, and jumps back to the program, which *)
(* goes on where it was, with the mask it had there.                        *)
HostTakes ==
    /\ At("handler", "chain")
    /\ HostGuards
    /\ stack' = SubSeq(stack, 1, BlockDepth)
    /\ mask' = {}
    /\ UNCHANGED <<t, altStack, buffers, message, dead>>

---------------------------------------------------------------------------
BlockStep ==
    \/ Reenter \/ Setup \/ SetupFails \/ End \/ EndLast \/ ThreadExit
    \/ GetMessage
    \/ \E s \in Signals : Crash(s)
    \/ StackOverflow

LibraryStep == StoreContext \/ Invalidate \/ CloseSession

HandlerStep ==
    \/ BackOut \/ GetStruct \/ CopyContext \/ Unblock \/ StoreUnwindContext
    \/ Guard \/ Extract \/ Unguard \/ Remask
    \/ NoJump \/ UseUp \/ Collapse \/ Disarm \/ Leap
    \/ Chain \/ HostTakes

(* A killed process takes no step; a live one is never stuck.               *)
Killed == dead /\ UNCHANGED vars

Next ==
    \/ BlockStep
    \/ LibraryStep
    \/ HandlerStep
    \/ \E s \in UnwinderFaults : ExtractFaults(s)
    \/ \E s \in AsyncSignals : Receive(s)
    \/ Killed

Spec == Init /\ [][Next]_vars

(* The handlers run to their end, the host's too.  Nothing is assumed of    *)
(* the program, and the unwinder may always return: it reads at most a      *)
(* bounded number of frames.                                                *)
FairSpec == Spec /\ WF_vars(LibraryStep \/ HandlerStep)

---------------------------------------------------------------------------
(* Properties.                                                              *)

(* Every variable keeps its type.                                           *)
TypeOK ==
    /\ stack \in Seq(Activations)
    /\ t \in Structures \cup {NoStruct}
    /\ mask \subseteq Signals
    /\ altStack \in Buffers \cup {HostStack}
    /\ buffers \subseteq Buffers
    /\ message \in {"none", "valid", "overwritten"}
    /\ dead \in BOOLEAN

Collapsed == \E d \in Handlers : stack[d].at \in {"disarm", "leap"}

(* The nesting depth counts the open blocks of the session, whatever blocks *)
(* a recovery has jumped over, one out of the middle of a COFFEE_END()      *)
(* included; so the END that brings it to zero is the outermost one, and    *)
(* after it no structure is left.  It is ahead of the blocks only between   *)
(* its collapse and the jump.                                               *)
DepthBalanced ==
    /\ t = NoStruct => SessionBlocks = {}
    /\ t # NoStruct /\ ~dead =>
           \E d \in SessionBlocks :
               /\ SessionBlocks = {d}
               /\ t.reenter =
                      IF Collapsed THEN 1
                      ELSE BlockDepth - d
                           + IF stack[d].at \in {"ending", "closing"}
                             THEN 0 ELSE 1

(* Whenever a handler may jump back to the program, or is about to, the     *)
(* session's own block is open, has not been caught in yet, and its END has *)
(* not got past the context; and it has filled the buffer, except in the    *)
(* one instant between coffeecatch_setup() and sigsetjmp().                 *)
RecoveryTargetLive ==
    ~dead /\ t # NoStruct /\ (t.ctxIsSet \/ Jumping # {}) =>
        \E d \in SessionBlocks :
            \/ stack[d].at = "try" /\ t.ctx = NoContext
            \/ stack[d].at \in {"body", "ending"} /\ t.ctx.depth = d

(* The unwinder's guard is armed only while the handler activation that     *)
(* filled the guard's buffer is still on the stack, between its arming and  *)
(* its disarming: a later crash cannot jump into a dead frame.              *)
GuardTargetLive ==
    ~dead /\ t # NoStruct /\ t.unwindGuarded =>
        /\ t.unwindCtx # NoContext
        /\ t.unwindCtx.depth \in Handlers
        /\ stack[t.unwindCtx.depth].at \in {"extract", "unwound"}

(* The program never runs with a handled signal blocked: after a recovery   *)
(* from any depth of handlers its mask is what it was.                      *)
MaskRestored == InUserCode => mask = {}

(* The kernel never uses an alternate stack that has been freed.            *)
AltStackLive == altStack \in {HostStack} \cup buffers

(* The library never takes a program back that still has a message a        *)
(* handler has overwritten; only the host's own handler may do that.        *)
MessageKept ==
    [][~InUserCode /\ InUserCode' /\ message' = "overwritten" =>
           HostTakes]_vars

(* After the session the thread has its own alternate stack back, and the   *)
(* library's is freed, unless the restore itself was refused.               *)
AltStackRestored ==
    t = NoStruct /\ ~MayFail("altstack") =>
        altStack = HostStack /\ buffers = {}

(* What a thread sees: a block from the end of its COFFEE_TRY() until its   *)
(* context is invalid, a body as one that is left from the moment a handler *)
(* has used up its context, ...                                             *)
VisibleDepth ==
    IF /\ BlockDepth > 0 /\ stack[BlockDepth].at \in InsideLibrary
       /\ ~(stack[BlockDepth].at = "ending" /\ (t.ctxIsSet \/ Jumping # {}))
    THEN BlockDepth - 1 ELSE BlockDepth
Way ==
    IF Jumping = {} THEN "body"
    ELSE IF Depth \in Jumping THEN "leaving" ELSE "lost"
ShownAs(d) == IF stack[d].at \in {"body", "ending"} THEN Way ELSE stack[d].at
Visible == [d \in 1 .. VisibleDepth |-> ShownAs(d)]

(* ... the last signal delivered, those that come while a handler guards    *)
(* its unwinder excepted, ...                                               *)
Acting == IF t # NoStruct /\ t.unwindGuarded THEN t.unwindCtx.depth ELSE Depth
Crashing == IF Handlers = {} THEN NoSignal ELSE stack[Acting].sig

(* ... and coffeecatch_get_signal(), -1 being no signal.                    *)
GetSignal == IF t = NoStruct THEN NoSignal ELSE t.code

(* The signals that coffeecatch_fill_backtrace() and abort() unblock.       *)
Unblocked == {SIGSEGV, SIGBUS, SIGABRT}

Blocks == INSTANCE ProtectedBlocks WITH
    blocks <- Visible,
    crash <- Crashing,
    Sent <- AsyncSignals,
    StackMayRunOut <- MayFail("silent"),
    FaultsMayKill <- ~(UnwinderFaults \subseteq Unblocked),
    reported <- IF InCatch /\ Handlers = {} THEN GetSignal ELSE NoSignal

(* A crash in a protected body, its COFFEE_END() included, never kills the  *)
(* process, even when the unwinder faults or aborts; it reaches the         *)
(* outermost catch block with its own signal, not that of a fault of the    *)
(* unwinder.  A second signal sent before the handler uses up the context   *)
(* takes the first one's place; one sent after that and before the jump     *)
(* kills the process.  A crash anywhere else kills the process, unless the  *)
(* host's handler takes it.                                                 *)
PromisesKept == Blocks!Spec

(* The same, and every crash is dealt with in the end.                      *)
CrashesAreDealtWith == Blocks!FairSpec

---------------------------------------------------------------------------
(* What comments of the source say, and the code does not do.               *)

(* "If a recognized signal is received in this section, the execution will  *)
(* be diverted to the COFFEE_CATCH() block": a crash in the body of a       *)
(* block whose setup did not fail does not reach the last resort.           *)
BodyIsProtected ==
    At("handler", "chain") /\ BlockDepth > 0 =>
        stack[BlockDepth].at \notin {"body", "nested"}

=============================================================================
