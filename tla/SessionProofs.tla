---------------------------- MODULE SessionProofs ----------------------------
(***************************************************************************)
(* Proofs about Session, for every set of signals, every nesting of blocks *)
(* and of handlers, every fault of the unwinder and every refused call.    *)
(***************************************************************************)
EXTENDS Session, SequenceTheorems, FiniteSetTheorems, TLAPS

SessionParts == {"body", "catch"} \cup InsideLibrary

(***************************************************************************)
(* The inductive invariant, about a thread with n blocks, the d-th of      *)
(* which has opened its session; d is 0 without a session.                 *)
(***************************************************************************)
(* Handlers are on top of blocks.  The blocks that failed are below the     *)
(* session's own, the nested ones above it, and none is above one that is   *)
(* inside COFFEE_TRY() or COFFEE_END().                                     *)
ShapeInv(n, d) ==
    /\ n \in 0 .. MaxBlocks /\ d \in 0 .. n /\ n <= Depth
    /\ \A k \in 1 .. n :
           /\ stack[k].kind = "block"
           /\ k < d \/ d = 0 => stack[k].at = "failed"
           /\ k = d => stack[k].at \in SessionParts
           /\ d # 0 /\ k > d => stack[k].at = "nested"
    /\ \A k \in n + 1 .. Depth :
           /\ stack[k].kind = "handler"
           /\ stack[k].at \in HandlerParts
    /\ d # 0 /\ stack[d].at \in InsideLibrary => n = d
    /\ d = 0 <=> t = NoStruct

(* The handlers that have used up the context, and whether one of them has  *)
(* collapsed the depth.                                                     *)
Jumps(n) == {k \in n + 1 .. Depth : stack[k].at \in JumpParts}
Shrunk(n) == \E k \in Jumps(n) : stack[k].at # "collapse"

(* The depth counts the blocks from the session's own on.                   *)
DepthInv(n, d) ==
    d # 0 =>
        t.reenter = IF Shrunk(n) THEN 1
                    ELSE IF stack[d].at \in {"ending", "closing"} THEN n - d
                    ELSE n - d + 1

(* The context is armed from COFFEE_TRY() to COFFEE_END(), or until one     *)
(* handler uses it up; until that one has jumped it stands for the          *)
(* session's own block, as soon as it is filled.                            *)
ContextInv(n, d) ==
    /\ d # 0 /\ (t.ctxIsSet \/ Jumps(n) # {}) =>
           \/ stack[d].at = "try" /\ t.ctx = NoContext
           \/ /\ stack[d].at \in {"body", "ending"}
              /\ t.ctx \in Contexts
              /\ t.ctx.depth = d /\ t.ctx.mask = {}
    /\ \A k \in Jumps(n) : Jumps(n) = {k} /\ ~t.ctxIsSet /\ message = "none"

(* A handler that has got past the test of the structure has one.  While    *)
(* the guard is armed, the handler that armed it is in the unwinder, and    *)
(* those above it are about to back out.                                    *)
GuardInv(n, d) ==
    /\ \A k \in n + 1 .. Depth : stack[k].at \notin {"get", "chain"} => d # 0
    /\ Depth > n /\ stack[Depth].at = "guard" =>
           t.unwindCtx \in Contexts /\ t.unwindCtx.depth = Depth
    /\ d # 0 /\ t.unwindGuarded =>
           /\ t.unwindCtx \in Contexts
           /\ t.unwindCtx.depth \in n + 1 .. Depth
           /\ stack[t.unwindCtx.depth].at \in {"extract", "unwound"}
           /\ \A k \in t.unwindCtx.depth + 1 .. Depth : stack[k].at = "get"

(* Outside every handler nothing is blocked.                                *)
MaskInv(n) == Depth = n => mask = {}

(* There is a message only after a recovery.                                *)
MessageInv(d) ==
    message # "none" => d # 0 /\ ~t.ctxIsSet /\ stack[d].at # "try"

(* The alternate stack in use is the session's or the one before it; with   *)
(* no refusal that one is the host's, and nothing is leaked.                *)
StacksInv ==
    /\ altStack \in {HostStack} \cup buffers
    /\ t # NoStruct =>
           /\ t.buffer \in buffers
           /\ t.stackOld \in {HostStack} \cup (buffers \ {t.buffer})
           /\ t.installed \/ altStack = t.stackOld
    /\ ~MayFail("altstack") =>
           IF t = NoStruct THEN altStack = HostStack /\ buffers = {}
           ELSE t.stackOld = HostStack /\ buffers = {t.buffer}

Inv(n, d) ==
    /\ TypeOK
    /\ ShapeInv(n, d) /\ DepthInv(n, d) /\ ContextInv(n, d) /\ GuardInv(n, d)
    /\ MaskInv(n) /\ MessageInv(d) /\ StacksInv

SessionInv == \E n, d \in Nat : Inv(n, d)

(***************************************************************************)
(* The stack of activations.                                               *)
(***************************************************************************)
(* An activation on top leaves the others alone.                            *)
LEMMA Pushed ==
    ASSUME stack \in Seq(Activations), NEW a \in Activations,
           stack' = Append(stack, a)
    PROVE  /\ stack' \in Seq(Activations)
           /\ Depth \in Nat /\ Depth' = Depth + 1
           /\ \A k \in 1 .. Depth : stack'[k] = stack[k]
           /\ stack'[Depth + 1] = a
BY AppendProperties DEF Depth

(* The m-th activation goes on, and those above it are gone.                *)
Moved(m, part) ==
    /\ stack' \in Seq(Activations)
    /\ m \in 1 .. Depth /\ Depth \in Nat /\ Depth' = m
    /\ \A k \in 1 .. m : stack'[k].kind = stack[k].kind
    /\ \A k \in 1 .. m : stack'[k].sig = stack[k].sig
    /\ \A k \in 1 .. m - 1 : stack'[k].at = stack[k].at
    /\ stack'[m].at = part

(* The top goes on: it keeps its kind.                                      *)
LEMMA Gone ==
    ASSUME stack \in Seq(Activations), stack # <<>>,
           NEW part \in BlockParts \cup HandlerParts, NEW top \in Activations,
           top.kind = stack[Depth].kind, top.sig = stack[Depth].sig,
           top.at = part,
           stack' = [stack EXCEPT ![Depth] = top]
    PROVE  Moved(Depth, part)
<1>1. Depth \in 1 .. Len(stack) /\ Depth = Len(stack)
  BY EmptySeq DEF Depth
<1>2. /\ stack' \in Seq(Activations) /\ Len(stack') = Len(stack)
      /\ \A k \in 1 .. Len(stack) :
             stack'[k] = IF k = Depth THEN top ELSE stack[k]
  BY <1>1, ExceptSeq
<1>3. /\ Depth \in 1 .. Depth /\ Depth \in Nat
      /\ Depth' = Depth /\ stack'[Depth].at = part
  BY <1>1, <1>2 DEF Depth
<1>4. \A k \in 1 .. Depth :
          stack'[k].kind = stack[k].kind /\ stack'[k].sig = stack[k].sig
  BY <1>1, <1>2
<1>5. \A k \in 1 .. Depth - 1 : stack'[k].at = stack[k].at
  <2>1. \A k \in 1 .. Depth - 1 : k \in 1 .. Len(stack) /\ k # Depth
    BY <1>1
  <2>2. QED
    BY <1>2, <2>1
<1>6. QED
  BY <1>2, <1>3, <1>4, <1>5 DEF Moved

(* Goto() is such a step.                                                   *)
LEMMA Went ==
    ASSUME stack \in Seq(Activations), stack # <<>>,
           NEW part \in BlockParts \cup HandlerParts, Goto(part)
    PROVE  Moved(Depth, part)
<1> DEFINE top == [stack[Depth] EXCEPT !.at = part]
<1>1. stack[Depth] \in Activations
  BY EmptySeq DEF Depth
<1>2. /\ top \in Activations /\ top.at = part
      /\ top.kind = stack[Depth].kind /\ top.sig = stack[Depth].sig
  BY <1>1 DEF Activations
<1>3. stack' = [stack EXCEPT ![Depth] = top]
  BY DEF Goto
<1> HIDE DEF top
<1>4. QED
  BY <1>2, <1>3, Gone

(* The lowest activations of a stack, the last of them at another place.    *)
LEMMA Cut ==
    ASSUME stack \in Seq(Activations), NEW c \in Contexts,
           c.depth \in 1 .. Depth,
           NEW part \in BlockParts \cup HandlerParts, LongJump(c, part)
    PROVE  Moved(c.depth, part) /\ mask' = c.mask
<1> DEFINE low == SubSeq(stack, 1, c.depth)
           top == [stack[c.depth] EXCEPT !.at = part]
<1>1. c.depth \in 1 .. Len(stack)
  BY DEF Depth
<1>2. stack[c.depth] \in Activations
  BY <1>1
<1>3. /\ top \in Activations /\ top.at = part
      /\ top.kind = stack[c.depth].kind /\ top.sig = stack[c.depth].sig
  BY <1>2 DEF Activations
<1>4. /\ low \in Seq(Activations) /\ Len(low) = c.depth
      /\ \A k \in 1 .. c.depth : low[k] = stack[k]
  <2>1. \A k \in 1 .. c.depth : stack[k] \in Activations
    BY <1>1
  <2>2. QED
    BY <1>1, <2>1, SubSeqProperties
<1>5. stack' = [low EXCEPT ![c.depth] = top]
  <2>1. low[c.depth] = stack[c.depth]
    BY <1>1, <1>4
  <2>2. QED
    BY <2>1 DEF LongJump
<1> HIDE DEF low, top
<1>6. /\ stack' \in Seq(Activations) /\ Len(stack') = c.depth
      /\ \A k \in 1 .. c.depth : stack'[k] = IF k = c.depth THEN top ELSE low[k]
  BY <1>1, <1>3, <1>4, <1>5, ExceptSeq
<1>7. c.depth \in Nat \ {0} /\ mask' = c.mask /\ Depth' = c.depth
  BY <1>1, <1>6 DEF Depth, LongJump
<1>8. /\ stack'[c.depth] = top
      /\ \A k \in 1 .. c.depth - 1 : stack'[k] = stack[k]
  <2>1. c.depth \in 1 .. c.depth
    BY <1>7
  <2>2. \A k \in 1 .. c.depth - 1 : k \in 1 .. c.depth /\ k # c.depth
    BY <1>7
  <2>3. QED
    BY <1>4, <1>6, <2>1, <2>2
<1>9. \A k \in 1 .. c.depth : k = c.depth \/ k \in 1 .. c.depth - 1
  BY <1>7
<1>10. Depth \in Nat
  BY DEF Depth
<1>11. QED
  BY <1>3, <1>6, <1>7, <1>8, <1>9, <1>10 DEF Moved

(* A block that ends leaves those below it alone.                           *)
LEMMA Popped ==
    ASSUME stack \in Seq(Activations), stack # <<>>, Pop
    PROVE  /\ stack' \in Seq(Activations)
           /\ Depth \in Nat \ {0} /\ Depth' = Depth - 1
           /\ \A k \in 1 .. Depth - 1 : stack'[k] = stack[k]
<1>1. Depth \in Nat \ {0} /\ Depth = Len(stack)
  BY EmptySeq DEF Depth
<1>2. \A k \in 1 .. Depth - 1 : stack[k] \in Activations
  BY <1>1
<1> DEFINE low == SubSeq(stack, 1, Depth - 1)
<1>3. /\ low \in Seq(Activations) /\ Len(low) = Depth - 1
      /\ \A k \in 1 .. Depth - 1 : low[k] = stack[k]
  BY <1>1, <1>2, SubSeqProperties
<1>4. stack' = low
  BY DEF Pop
<1> HIDE DEF low
<1>5. QED
  BY <1>1, <1>3, <1>4 DEF Depth

(***************************************************************************)
(* Where the thread is.                                                    *)
(***************************************************************************)
(* Without a handler nobody is jumping.                                     *)
LEMMA NoJumps ==
    ASSUME NEW n \in Nat, Depth = n
    PROVE  Jumps(n) = {} /\ ~Shrunk(n)
<1>1. n + 1 .. n = {}
  OBVIOUS
<1>2. QED
  BY <1>1 DEF Jumps, Shrunk

(* In the program there are only blocks, and nothing is blocked.            *)
LEMMA UserCode ==
    ASSUME NEW n \in Nat, NEW d \in Nat, Inv(n, d), InUserCode
    PROVE  /\ Depth = n /\ mask = {}
           /\ stack # <<>> => n > 0
           /\ n > 0 => stack[n].at \notin InsideLibrary
           /\ d # 0 => stack[d].at \in {"body", "catch"}
           /\ d # 0 => t.reenter = n - d + 1
<1>1. Depth \in Nat /\ Depth = Len(stack) /\ n <= Depth
  BY DEF Inv, TypeOK, Depth, ShapeInv
<1>2. stack # <<>> <=> Depth > 0
  BY <1>1, EmptySeq DEF Inv, TypeOK
<1>3. Depth = n
  <2>1. CASE Depth > n
    <3>1. stack[Depth].kind = "handler"
      BY <1>1, <2>1 DEF Inv, ShapeInv
    <3>2. QED
      BY <1>1, <1>2, <2>1, <3>1 DEF InUserCode, Top
  <2>2. QED
    BY <1>1, <2>1
<1>4. n > 0 => stack[n].at \notin InsideLibrary
  BY <1>2, <1>3 DEF InUserCode, Top
<1>5. d # 0 => stack[d].at \in {"body", "catch"}
  BY <1>4 DEF Inv, ShapeInv, SessionParts
<1>6. d # 0 => t.reenter = n - d + 1
  BY <1>3, <1>5, NoJumps DEF Inv, DepthInv
<1>7. QED
  BY <1>2, <1>3, <1>4, <1>5, <1>6 DEF Inv, MaskInv

(* A handler that goes on is on top of all the blocks.                      *)
LEMMA InHandler ==
    ASSUME NEW n \in Nat, NEW d \in Nat, Inv(n, d),
           NEW part \in HandlerParts, At("handler", part)
    PROVE  /\ ~dead /\ stack # <<>>
           /\ Depth \in Nat /\ Depth > n /\ stack[Depth].at = part
           /\ part \notin {"get", "chain"} => d # 0 /\ t \in Structures
           /\ part \notin {"get", "extract", "unwound"} /\ d # 0 =>
                  ~t.unwindGuarded
<1>1. Depth \in Nat /\ Depth = Len(stack) /\ n <= Depth
  BY DEF Inv, TypeOK, Depth, ShapeInv
<1>2. stack # <<>> /\ Depth > 0
  BY <1>1, EmptySeq DEF At, Inv, TypeOK
<1>3. Depth > n
  <2>1. CASE Depth = n
    <3>1. stack[Depth].kind = "block"
      BY <1>1, <1>2, <2>1 DEF Inv, ShapeInv
    <3>2. QED
      BY <3>1 DEF At, Top
  <2>2. QED
    BY <1>1, <2>1
<1>4. stack[Depth].at = part
  BY DEF At, Top
<1>5. part \notin {"get", "chain"} => d # 0 /\ t \in Structures
  <2>1. part \notin {"get", "chain"} => d # 0
    BY <1>1, <1>3, <1>4 DEF Inv, GuardInv
  <2>2. QED
    BY <2>1 DEF Inv, ShapeInv, TypeOK
<1>6. ASSUME part \notin {"get", "extract", "unwound"}, d # 0, t.unwindGuarded
      PROVE  FALSE
  <2>1. /\ t.unwindCtx.depth \in n + 1 .. Depth
        /\ stack[t.unwindCtx.depth].at \in {"extract", "unwound"}
        /\ \A k \in t.unwindCtx.depth + 1 .. Depth : stack[k].at = "get"
    BY <1>6 DEF Inv, GuardInv
  <2>2. t.unwindCtx.depth = Depth \/ Depth \in t.unwindCtx.depth + 1 .. Depth
    BY <1>1, <2>1
  <2>3. QED
    BY <1>4, <1>6, <2>1, <2>2
<1>7. t \in Structures => t.unwindGuarded \in BOOLEAN
  BY DEF Structures
<1>8. QED
  BY <1>1, <1>2, <1>3, <1>4, <1>5, <1>6, <1>7 DEF At

(***************************************************************************)
(* The handlers.                                                           *)
(***************************************************************************)
(* What the session is about stays as it is.                                *)
SameSession ==
    /\ t' \in Structures
    /\ t'.reenter = t.reenter
    /\ t'.ctxIsSet = t.ctxIsSet /\ t'.ctx = t.ctx
    /\ t'.buffer = t.buffer /\ t'.stackOld = t.stackOld
    /\ t'.installed = t.installed

(* A handler that is not jumping goes on: those that are jumping are the    *)
(* same.                                                                    *)
LEMMA SameJumps ==
    ASSUME NEW n \in Nat, NEW m \in Nat, m > n,
           NEW part, part \notin JumpParts, Moved(m, part),
           \A k \in m .. Depth : stack[k].at \notin JumpParts
    PROVE  /\ Jumps(n)' = Jumps(n)
           /\ \A k \in Jumps(n) : stack'[k].at = stack[k].at
<1>1. /\ m \in 1 .. Depth /\ Depth \in Nat /\ Depth' = m
      /\ stack'[m].at = part
      /\ \A k \in 1 .. m - 1 : stack'[k].at = stack[k].at
  BY DEF Moved
<1>2. \A k \in n + 1 .. m : k \in n + 1 .. Depth /\ (k = m \/ k \in 1 .. m - 1)
  BY <1>1
<1>3. \A k \in n + 1 .. Depth :
          \/ k \in m .. Depth
          \/ k \in n + 1 .. m /\ k # m /\ k \in 1 .. m - 1
  BY <1>1
<1>4. QED
  BY <1>1, <1>2, <1>3 DEF Jumps

(* A handler goes on, and only what is its own changes.                     *)
LEMMA HandlerGoesOn ==
    ASSUME NEW n \in Nat, NEW d \in Nat, Inv(n, d),
           NEW m \in Nat, m > n,
           NEW part \in HandlerParts \ JumpParts, Moved(m, part),
           \A k \in m .. Depth : stack[k].at \notin JumpParts,
           part = "chain" \/ d # 0,
           d = 0 => t' = t,
           d # 0 => SameSession,
           part = "guard" =>
               t'.unwindCtx \in Contexts /\ t'.unwindCtx.depth = m,
           d # 0 /\ t'.unwindGuarded =>
               /\ part \in {"extract", "unwound"}
               /\ t'.unwindCtx \in Contexts /\ t'.unwindCtx.depth = m,
           mask' \subseteq Signals,
           UNCHANGED <<altStack, buffers, message, dead>>
    PROVE  Inv(n, d)'
<1>1. /\ m \in 1 .. Depth /\ Depth \in Nat /\ Depth' = m
      /\ n <= m - 1 /\ d <= n /\ n <= MaxBlocks
  BY BoundsAssumption DEF Inv, TypeOK, Depth, ShapeInv, Moved
<1>2. d = 0 <=> t' = NoStruct
  BY NullAssumption DEF Inv, ShapeInv, SameSession
<1>3. TypeOK'
  BY <1>2 DEF Inv, TypeOK, SameSession, Moved
<1>4. /\ \A k \in 1 .. n : /\ stack'[k].kind = stack[k].kind
                         /\ stack'[k].at = stack[k].at
      /\ \A k \in n + 1 .. m : stack'[k].kind = "handler"
      /\ \A k \in n + 1 .. m :
             IF k = m THEN stack'[k].at = part ELSE stack'[k].at = stack[k].at
  <2>1. \A k \in n + 1 .. m : /\ k \in n + 1 .. Depth /\ k \in 1 .. m
                              /\ k = m \/ k \in 1 .. m - 1
    BY <1>1
  <2>2. \A k \in 1 .. n : k \in 1 .. m /\ k \in 1 .. m - 1
    BY <1>1
  <2>3. QED
    BY <2>1, <2>2 DEF Inv, ShapeInv, Moved
<1>5. ShapeInv(n, d)'
  <2>1. \A k \in n + 1 .. m : stack'[k].at \in HandlerParts
    <3>1. \A k \in n + 1 .. m : k \in n + 1 .. Depth
      BY <1>1
    <3>2. QED
      BY <1>4, <3>1 DEF Inv, ShapeInv
  <2>2. d # 0 => d \in 1 .. n
    BY <1>1
  <2>3. QED
    BY <1>1, <1>2, <1>4, <2>1, <2>2 DEF Inv, ShapeInv, SameSession
<1>a. d # 0 => stack'[d].at = stack[d].at
  BY <1>1, <1>4
<1>b. /\ Jumps(n)' = Jumps(n)
      /\ \A k \in Jumps(n) : stack'[k].at = stack[k].at
  BY SameJumps
<1>6. DepthInv(n, d)' /\ ContextInv(n, d)'
  <2>1. Shrunk(n)' <=> Shrunk(n)
    BY <1>b DEF Shrunk
  <2>2. DepthInv(n, d)'
    BY <1>a, <2>1 DEF Inv, DepthInv, SameSession
  <2>3. ~t'.ctxIsSet <=> ~t.ctxIsSet
    BY <1>2 DEF SameSession, Inv, ShapeInv
  <2>4. QED
    BY <1>a, <1>b, <2>2, <2>3 DEF Inv, ContextInv, SameSession
<1>7. GuardInv(n, d)'
  <2>1. \A k \in n + 1 .. m : stack'[k].at \notin {"get", "chain"} => d # 0
    <3>1. \A k \in n + 1 .. m : k \in n + 1 .. Depth
      BY <1>1
    <3>2. QED
      BY <1>4, <3>1 DEF Inv, GuardInv
  <2>2. Depth' = m /\ stack'[m].at = part
    BY DEF Moved
  <2>3. \A k \in m + 1 .. m : stack'[k].at = "get"
    BY <1>1
  <2>4. m \in n + 1 .. m
    BY <1>1
  <2>5. QED
    BY <2>1, <2>2, <2>3, <2>4 DEF GuardInv
<1>8. MaskInv(n)'
  BY <1>1 DEF MaskInv
<1>9. MessageInv(d)'
  BY <1>a DEF Inv, MessageInv, SameSession
<1>10. StacksInv'
  BY <1>2 DEF Inv, StacksInv, ShapeInv, MayFail, SameSession
<1>11. QED
  BY <1>3, <1>5, <1>6, <1>7, <1>8, <1>9, <1>10 DEF Inv

(* The steps of a handler that has a structure.                             *)
LEMMA HandlerSteps ==
    ASSUME NEW n \in Nat, NEW d \in Nat, Inv(n, d),
           \/ CopyContext \/ Unblock \/ StoreUnwindContext \/ Guard
           \/ Extract \/ Unguard \/ Remask \/ NoJump
    PROVE  Inv(n, d)'
<1>0. /\ stack \in Seq(Activations)
      /\ mask \subseteq Signals
      /\ {SIGABRT, SIGSEGV, SIGBUS} \subseteq Signals
      /\ Depth \in Nat
  BY SignalsAssumption DEF Inv, TypeOK, Depth
<1>a. stack # <<>> => Top \in Activations
  BY <1>0, EmptySeq DEF Top, Depth
<1>b. \A k \in Depth .. Depth : k = Depth
  BY <1>0
<1> USE DEF HandlerParts, JumpParts
<1>1. CASE CopyContext
  <2>1. /\ d # 0 /\ t \in Structures /\ ~t.unwindGuarded
        /\ Depth > n /\ stack # <<>>
        /\ stack[Depth].at = "copy"
    BY <1>1, InHandler DEF CopyContext
  <2>2. Top.sig \in Signals \cup {NoSignal}
    BY <2>1, <1>a DEF Activations
  <2>3. SameSession /\ ~t'.unwindGuarded
    BY <1>1, <2>1, <2>2 DEF CopyContext, Structures, SameSession
  <2>4. Moved(Depth, "unblock")
    BY <1>0, <1>1, <2>1, Went DEF CopyContext
  <2>5. QED
    BY <1>0, <1>b, <1>1, <2>1, <2>3, <2>4, HandlerGoesOn DEF CopyContext
<1>2. CASE Unblock
  <2>1. /\ d # 0 /\ t \in Structures /\ ~t.unwindGuarded
        /\ Depth > n /\ stack # <<>>
        /\ stack[Depth].at = "unblock"
    BY <1>2, InHandler DEF Unblock
  <2> DEFINE top == [Top EXCEPT !.at = "setjmp", !.old = mask]
  <2>2. /\ top \in Activations /\ top.at = "setjmp"
        /\ top.kind = stack[Depth].kind /\ top.sig = stack[Depth].sig
    BY <1>0, <1>a, <2>1 DEF Activations, Top
  <2>3. stack' = [stack EXCEPT ![Depth] = top]
    BY <1>2 DEF Unblock, Top
  <2>4. Moved(Depth, "setjmp")
    <3> HIDE DEF top
    <3>1. QED
      BY <1>0, <2>1, <2>2, <2>3, Gone
  <2>5. SameSession /\ ~t'.unwindGuarded
    BY <1>2, <2>1 DEF Unblock, SameSession
  <2>6. QED
    BY <1>0, <1>b, <1>2, <2>1, <2>4, <2>5, HandlerGoesOn DEF Unblock
<1>3. CASE StoreUnwindContext
  <2>1. /\ d # 0 /\ t \in Structures /\ ~t.unwindGuarded
        /\ Depth > n /\ stack # <<>>
        /\ stack[Depth].at = "setjmp"
        /\ Depth \in Nat
    BY <1>3, InHandler DEF StoreUnwindContext
  <2>2. Context \in Contexts /\ Context.depth = Depth
    BY <1>0, <2>1 DEF Context, Contexts
  <2>3. SameSession /\ ~t'.unwindGuarded /\ t'.unwindCtx = Context
    BY <1>3, <2>1, <2>2 DEF StoreUnwindContext, Structures, SameSession
  <2>4. Moved(Depth, "guard")
    BY <1>0, <1>3, <2>1, Went DEF StoreUnwindContext
  <2>5. QED
    BY <1>0, <1>b, <1>3, <2>1, <2>2, <2>3, <2>4, HandlerGoesOn
       DEF StoreUnwindContext
<1>4. CASE Guard
  <2>1. d # 0 /\ t \in Structures /\ Depth > n /\ stack # <<>>
        /\ stack[Depth].at = "guard"
    BY <1>4, InHandler DEF Guard
  <2>2. t.unwindCtx \in Contexts /\ t.unwindCtx.depth = Depth
    BY <2>1 DEF Inv, GuardInv
  <2>3. SameSession /\ t'.unwindCtx = t.unwindCtx
    BY <1>4, <2>1 DEF Guard, Structures, SameSession
  <2>4. Moved(Depth, "extract")
    BY <1>0, <1>4, <2>1, Went DEF Guard
  <2>5. QED
    BY <1>0, <1>b, <1>4, <2>1, <2>2, <2>3, <2>4, HandlerGoesOn DEF Guard
<1>5. CASE Extract
  <2>1. d # 0 /\ t \in Structures /\ Depth > n /\ stack # <<>>
        /\ stack[Depth].at = "extract" /\ Depth \in Nat
    BY <1>5, InHandler DEF Extract
  <2>2. t.unwindGuarded => t.unwindCtx \in Contexts /\ t.unwindCtx.depth = Depth
    <3>1. ASSUME t.unwindGuarded, t.unwindCtx.depth # Depth PROVE FALSE
      <4>1. /\ t.unwindCtx.depth \in n + 1 .. Depth
            /\ \A k \in t.unwindCtx.depth + 1 .. Depth : stack[k].at = "get"
        BY <2>1, <3>1 DEF Inv, GuardInv
      <4>2. Depth \in t.unwindCtx.depth + 1 .. Depth
        BY <2>1, <3>1, <4>1 DEF Inv, ShapeInv
      <4>3. QED
        BY <2>1, <4>1, <4>2
    <3>2. QED
      BY <2>1, <3>1 DEF Inv, GuardInv
  <2>3. SameSession /\ t' = t
    BY <1>5, <2>1 DEF Extract, SameSession
  <2>4. Moved(Depth, "unwound")
    BY <1>0, <1>5, <2>1, Went DEF Extract
  <2>5. QED
    BY <1>0, <1>b, <1>5, <2>1, <2>2, <2>3, <2>4, HandlerGoesOn DEF Extract
<1>6. CASE Unguard
  <2>1. d # 0 /\ t \in Structures /\ Depth > n /\ stack # <<>>
        /\ stack[Depth].at = "unwound"
    BY <1>6, InHandler DEF Unguard
  <2>2. SameSession /\ ~t'.unwindGuarded
    BY <1>6, <2>1 DEF Unguard, Structures, SameSession
  <2>3. Moved(Depth, "remask")
    BY <1>0, <1>6, <2>1, Went DEF Unguard
  <2>4. QED
    BY <1>0, <1>b, <1>6, <2>1, <2>2, <2>3, HandlerGoesOn DEF Unguard
<1>7. CASE Remask
  <2>1. /\ d # 0 /\ t \in Structures /\ ~t.unwindGuarded
        /\ Depth > n /\ stack # <<>>
        /\ stack[Depth].at = "remask"
    BY <1>7, InHandler DEF Remask
  <2>2. Top.old \subseteq Signals
    BY <1>a, <2>1 DEF Activations
  <2>3. SameSession /\ ~t'.unwindGuarded
    BY <1>7, <2>1 DEF Remask, SameSession
  <2>4. Moved(Depth, "jump")
    BY <1>0, <1>7, <2>1, Went DEF Remask
  <2>5. QED
    BY <1>0, <1>b, <1>7, <2>1, <2>2, <2>3, <2>4, HandlerGoesOn DEF Remask
<1>8. CASE NoJump
  <2>1. /\ d # 0 /\ t \in Structures /\ ~t.unwindGuarded
        /\ Depth > n /\ stack # <<>>
        /\ stack[Depth].at = "jump"
    BY <1>8, InHandler DEF NoJump
  <2>2. SameSession /\ ~t'.unwindGuarded
    BY <1>8, <2>1 DEF NoJump, SameSession
  <2>3. Moved(Depth, "chain")
    BY <1>0, <1>8, <2>1, Went DEF NoJump
  <2>4. QED
    BY <1>0, <1>b, <1>8, <2>1, <2>2, <2>3, HandlerGoesOn DEF NoJump
<1>9. QED
  BY <1>1, <1>2, <1>3, <1>4, <1>5, <1>6, <1>7, <1>8

(* The handler looks for the structure.                                     *)
LEMMA GetStructStep ==
    ASSUME NEW n \in Nat, NEW d \in Nat, Inv(n, d), GetStruct
    PROVE  Inv(n, d)'
<1>1. /\ At("handler", "get")
      /\ t # NoStruct => ~t.unwindGuarded
      /\ Goto(IF t = NoStruct THEN "chain" ELSE "copy")
      /\ UNCHANGED <<t, mask, altStack, buffers, message, dead>>
  BY DEF GetStruct
<1>2. Depth > n /\ stack # <<>> /\ Depth \in Nat
      /\ \A k \in Depth .. Depth : stack[k].at = "get"
  BY <1>1, InHandler DEF HandlerParts
<1>3. /\ stack \in Seq(Activations) /\ mask \subseteq Signals
      /\ d = 0 <=> t = NoStruct
      /\ d # 0 => SameSession
  BY <1>1 DEF Inv, TypeOK, ShapeInv, SameSession
<1>4. CASE d = 0
  <2>1. Moved(Depth, "chain")
    BY <1>1, <1>2, <1>3, <1>4, Went DEF HandlerParts
  <2>2. QED
    BY <1>1, <1>2, <1>3, <1>4, <2>1, HandlerGoesOn DEF HandlerParts, JumpParts
<1>5. CASE d # 0
  <2>1. Moved(Depth, "copy")
    BY <1>1, <1>2, <1>3, <1>5, Went DEF HandlerParts
  <2>2. QED
    BY <1>1, <1>2, <1>3, <1>5, <2>1, HandlerGoesOn DEF HandlerParts, JumpParts
<1>6. QED
  BY <1>4, <1>5

(* A handler backs out into the one that guards its unwinder.               *)
LEMMA BackOutStep ==
    ASSUME NEW n \in Nat, NEW d \in Nat, Inv(n, d), BackOut
    PROVE  Inv(n, d)'
<1>1. /\ At("handler", "get") /\ t # NoStruct /\ t.unwindGuarded
      /\ LongJump(t.unwindCtx, "unwound")
      /\ UNCHANGED <<t, altStack, buffers, message, dead>>
  BY DEF BackOut
<1> DEFINE m == t.unwindCtx.depth
<1>2. d # 0 /\ t \in Structures
  BY <1>1 DEF Inv, ShapeInv, TypeOK
<1>3. t.unwindCtx \in Contexts /\ m \in n + 1 .. Depth
  BY <1>1, <1>2 DEF Inv, GuardInv
<1>4. /\ m \in Nat /\ m > n /\ m \in 1 .. Depth
      /\ t.unwindCtx.mask \subseteq Signals
  BY <1>3 DEF Contexts, Depth
<1>5. Moved(m, "unwound") /\ mask' = t.unwindCtx.mask
  BY <1>1, <1>3, <1>4, Cut DEF Inv, TypeOK, HandlerParts
<1>6. SameSession /\ t' = t
  BY <1>1, <1>2 DEF SameSession
<1>a. \A k \in m .. Depth : stack[k].at \in {"extract", "unwound", "get"}
  <2>1. /\ stack[m].at \in {"extract", "unwound"}
        /\ \A k \in m + 1 .. Depth : stack[k].at = "get"
    BY <1>1, <1>2 DEF Inv, GuardInv
  <2>2. \A k \in m .. Depth : k = m \/ k \in m + 1 .. Depth
    BY <1>4
  <2>3. QED
    BY <2>1, <2>2
<1> HIDE DEF m
<1>7. t'.unwindCtx \in Contexts /\ t'.unwindCtx.depth = m
  BY <1>3, <1>6 DEF m
<1>8. \A k \in m .. Depth : stack[k].at \notin JumpParts
  BY <1>a DEF JumpParts
<1>9. QED
  BY <1>1, <1>2, <1>4, <1>5, <1>6, <1>7, <1>8, HandlerGoesOn
     DEF HandlerParts, JumpParts

(* Whether the thread is killed is of no concern to the invariant.          *)
LEMMA Unmoved ==
    ASSUME NEW n \in Nat, NEW d \in Nat, Inv(n, d), dead' \in BOOLEAN,
           UNCHANGED <<stack, t, mask, altStack, buffers, message>>
    PROVE  Inv(n, d)'
<1>1. TypeOK'
  BY DEF Inv, TypeOK
<1>2. Depth' = Depth
  BY DEF Depth
<1>3. ShapeInv(n, d)' /\ DepthInv(n, d)' /\ ContextInv(n, d)'
  BY <1>2 DEF Inv, ShapeInv, DepthInv, ContextInv, Jumps, Shrunk
<1>4. GuardInv(n, d)' /\ MaskInv(n)' /\ MessageInv(d)'
  BY <1>2 DEF Inv, GuardInv, MaskInv, MessageInv
<1>5. StacksInv'
  BY DEF Inv, StacksInv, MayFail
<1>6. QED
  BY <1>1, <1>3, <1>4, <1>5 DEF Inv

(* One handler uses up the context and goes on to the jump.                 *)
LEMMA JumpGoesOn ==
    ASSUME NEW n \in Nat, NEW d \in Nat, Inv(n, d), d # 0,
           Depth > n, NEW part \in JumpParts, Moved(Depth, part),
           Jumps(n) \subseteq {Depth}, message = "none",
           t.ctxIsSet \/ Jumps(n) # {},
           t' \in Structures, t'.ctx = t.ctx,
           ~t'.ctxIsSet, ~t'.unwindGuarded,
           IF part = "collapse" THEN ~Shrunk(n) /\ t'.reenter = t.reenter
           ELSE t'.reenter = 1,
           t'.buffer = t.buffer, t'.stackOld = t.stackOld,
           t'.installed = t.installed,
           UNCHANGED <<mask, altStack, buffers, message, dead>>
    PROVE  Inv(n, d)'
<1>1. /\ Depth \in Nat /\ Depth' = Depth /\ n < Depth /\ d \in 1 .. n
      /\ \A k \in 1 .. n : k \in 1 .. Depth /\ k \in 1 .. Depth - 1
      /\ \A k \in n + 1 .. Depth : k = Depth \/ k \in 1 .. Depth - 1
      /\ \A k \in n + 1 .. Depth : k \in 1 .. Depth
      /\ Depth \in n + 1 .. Depth
  BY DEF Inv, ShapeInv, Moved
<1>2. t' # NoStruct /\ t # NoStruct
  BY NullAssumption DEF Inv, ShapeInv
<1>3. TypeOK'
  BY DEF Inv, TypeOK, Moved
<1>4. /\ \A k \in 1 .. n : stack'[k].kind = stack[k].kind
                          /\ stack'[k].at = stack[k].at
      /\ \A k \in n + 1 .. Depth : stack'[k].kind = stack[k].kind
      /\ \A k \in n + 1 .. Depth :
             k # Depth => stack'[k].at = stack[k].at
      /\ stack'[Depth].at = part
  BY <1>1 DEF Moved
<1>5. ShapeInv(n, d)'
  <2>1. \A k \in n + 1 .. Depth :
            stack'[k].kind = "handler" /\ stack'[k].at \in HandlerParts
    BY <1>1, <1>4 DEF Inv, ShapeInv, HandlerParts
  <2>2. QED
    BY <1>1, <1>2, <1>4, <2>1 DEF Inv, ShapeInv
<1>6. Jumps(n)' = {Depth}
  <2>1. \A k \in n + 1 .. Depth : k # Depth => stack[k].at \notin JumpParts
    BY DEF Jumps
  <2>2. QED
    BY <1>1, <1>4, <2>1 DEF Jumps
<1>7. DepthInv(n, d)'
  <2>1. Shrunk(n)' <=> part # "collapse"
    BY <1>4, <1>6 DEF Shrunk
  <2>2. QED
    BY <1>1, <1>4, <2>1 DEF Inv, DepthInv
<1>8. ContextInv(n, d)'
  BY <1>1, <1>4, <1>6 DEF Inv, ContextInv
<1>9. GuardInv(n, d)'
  BY <1>1, <1>4 DEF GuardInv, JumpParts
<1>10. MaskInv(n)' /\ MessageInv(d)'
  BY <1>1 DEF MaskInv, MessageInv
<1>11. StacksInv'
  BY <1>2 DEF Inv, StacksInv, MayFail
<1>12. QED
  BY <1>3, <1>5, <1>7, <1>8, <1>9, <1>10, <1>11 DEF Inv

(* The steps before the jump.                                               *)
LEMMA JumpSteps ==
    ASSUME NEW n \in Nat, NEW d \in Nat, Inv(n, d),
           UseUp \/ Collapse \/ Disarm
    PROVE  Inv(n, d)'
<1>0. stack \in Seq(Activations) /\ Depth \in Nat
  BY DEF Inv, TypeOK, Depth
<1> USE DEF HandlerParts, JumpParts
<1>1. CASE UseUp
  <2>1. /\ d # 0 /\ t \in Structures /\ ~t.unwindGuarded /\ Depth > n
        /\ stack # <<>> /\ t.ctxIsSet
        /\ UNCHANGED <<mask, altStack, buffers, message, dead>>
    BY <1>1, InHandler DEF UseUp
  <2>2. Jumps(n) = {}
    BY <2>1 DEF Inv, ContextInv
  <2>3. ~Shrunk(n) /\ message = "none"
    BY <2>1, <2>2 DEF Shrunk, Inv, MessageInv
  <2>4. /\ t' \in Structures /\ t'.ctx = t.ctx /\ ~t'.ctxIsSet
        /\ ~t'.unwindGuarded /\ t'.reenter = t.reenter
        /\ t'.buffer = t.buffer /\ t'.stackOld = t.stackOld
        /\ t'.installed = t.installed
    BY <1>1, <2>1 DEF UseUp, Structures
  <2>5. Moved(Depth, "collapse")
    BY <1>0, <1>1, <2>1, Went DEF UseUp
  <2>6. QED
    BY <2>1, <2>2, <2>3, <2>4, <2>5, JumpGoesOn
<1>2. CASE Collapse \/ Disarm
  <2> DEFINE part == IF Collapse THEN "disarm" ELSE "leap"
  <2>1. /\ d # 0 /\ t \in Structures /\ ~t.unwindGuarded /\ Depth > n
        /\ stack # <<>> /\ stack[Depth].at \in {"collapse", "disarm"}
        /\ (~Collapse => stack[Depth].at = "disarm")
        /\ UNCHANGED <<mask, altStack, buffers, message, dead>>
    BY <1>2, InHandler DEF Collapse, Disarm
  <2>2. Depth \in Jumps(n)
    BY <1>0, <2>1 DEF Jumps
  <2>3. Jumps(n) = {Depth} /\ ~t.ctxIsSet /\ message = "none"
    BY <2>2 DEF Inv, ContextInv
  <2>4. ~Collapse => t.reenter = 1
    <3>1. ~Collapse => Shrunk(n)
      BY <2>1, <2>2 DEF Shrunk
    <3>2. QED
      BY <2>1, <3>1 DEF Inv, DepthInv
  <2>5. 1 \in 0 .. MaxBlocks
    BY <2>1, BoundsAssumption DEF Inv, ShapeInv
  <2>6. /\ t' \in Structures /\ t'.ctx = t.ctx /\ ~t'.ctxIsSet
        /\ ~t'.unwindGuarded /\ t'.reenter = 1
        /\ t'.buffer = t.buffer /\ t'.stackOld = t.stackOld
        /\ t'.installed = t.installed
    <3>1. CASE Collapse
      BY <2>1, <2>3, <2>5, <3>1 DEF Collapse, Structures
    <3>2. CASE ~Collapse
      BY <1>2, <2>1, <2>3, <2>4, <3>2 DEF Disarm, Structures
    <3>3. QED
      BY <3>1, <3>2
  <2>7. Moved(Depth, part)
    <3>1. Goto(part)
      BY <1>2 DEF Collapse, Disarm
    <3>2. part \in BlockParts \cup HandlerParts
      OBVIOUS
    <3>3. QED
      BY <1>0, <2>1, <3>1, <3>2, Went
  <2>8. part \in JumpParts /\ part # "collapse"
    OBVIOUS
  <2> HIDE DEF part
  <2>9. QED
    BY <2>1, <2>3, <2>6, <2>7, <2>8, JumpGoesOn
<1>3. QED
  BY <1>1, <1>2

(* The session's own context is filled and stands for its block, unless the *)
(* block is still in COFFEE_TRY().                                          *)
LEMMA LeapStep ==
    ASSUME NEW n \in Nat, NEW d \in Nat, Inv(n, d), Leap
    PROVE  /\ d # 0 /\ message = "none" /\ message' = "none"
           /\ t.ctx = NoContext <=> stack[d].at = "try"
           /\ IF t.ctx = NoContext THEN dead' /\ Inv(n, d)'
              ELSE /\ Inv(d, d)' /\ Moved(d, "catch") /\ mask' = {}
                   /\ ~dead'
<1>1. At("handler", "leap") /\ UNCHANGED <<t, altStack, buffers, message>>
  BY DEF Leap
<1>2. d # 0 /\ t \in Structures /\ Depth > n /\ Depth \in Nat
      /\ stack[Depth].at = "leap" /\ ~t.unwindGuarded /\ ~dead
  BY <1>1, InHandler DEF HandlerParts, JumpParts
<1>3. /\ stack \in Seq(Activations)
      /\ n <= MaxBlocks /\ d \in 1 .. n /\ d <= MaxBlocks
  BY <1>2, BoundsAssumption DEF Inv, TypeOK, ShapeInv
<1>4. Depth \in Jumps(n) /\ Shrunk(n)
  BY <1>2 DEF Jumps, JumpParts, Shrunk
<1>5. /\ ~t.ctxIsSet /\ message = "none" /\ t.reenter = 1
      /\ \/ stack[d].at = "try" /\ t.ctx = NoContext
         \/ /\ stack[d].at \in {"body", "ending"}
            /\ t.ctx \in Contexts
            /\ t.ctx.depth = d /\ t.ctx.mask = {}
  BY <1>2, <1>4 DEF Inv, ContextInv, DepthInv
<1>6. t.ctx = NoContext <=> stack[d].at = "try"
  BY <1>5, NullAssumption
<1>7. CASE t.ctx = NoContext
  <2>1. dead' = TRUE /\ UNCHANGED <<stack, t, mask, altStack, buffers, message>>
    BY <1>1, <1>7 DEF Leap
  <2>2. Inv(n, d)'
    BY <2>1, Unmoved
  <2>3. QED
    BY <1>2, <1>5, <1>6, <1>7, <2>1, <2>2
<1>8. CASE t.ctx # NoContext
  <2>1. t.ctx \in Contexts /\ t.ctx.depth = d /\ t.ctx.mask = {}
    BY <1>5, <1>8
  <2>2. LongJump(t.ctx, "catch") /\ dead' = dead
    BY <1>8 DEF Leap
  <2>3. d \in 1 .. Depth
    BY <1>2, <1>3 DEF Inv, ShapeInv
  <2>4. Moved(d, "catch") /\ mask' = {}
    BY <1>3, <2>1, <2>2, <2>3, Cut DEF BlockParts
  <2>5. TypeOK'
    BY <1>1, <2>2, <2>4 DEF Inv, TypeOK, Moved
  <2>6. /\ Depth' = d /\ stack'[d].at = "catch" /\ d \in 1 .. d
        /\ d + 1 .. d = {} /\ d - d + 1 = 1
    BY <1>3, <2>4 DEF Moved
  <2>7. ShapeInv(d, d)'
    <3>1. \A k \in 1 .. d : stack'[k].kind = "block"
      <4>1. \A k \in 1 .. d : k \in 1 .. n
        BY <1>3
      <4>2. QED
        BY <2>4, <4>1 DEF Moved, Inv, ShapeInv
    <3>2. \A k \in 1 .. d : k < d => stack'[k].at = "failed"
      <4>1. \A k \in 1 .. d : k \in 1 .. n /\ (k < d => k \in 1 .. d - 1)
        BY <1>3
      <4>2. QED
        BY <2>4, <4>1 DEF Moved, Inv, ShapeInv
    <3>3. t' # NoStruct
      BY <1>1, <1>2, NullAssumption
    <3>4. QED
      BY <1>2, <1>3, <2>6, <3>1, <3>2, <3>3 DEF ShapeInv, SessionParts
  <2>8. Jumps(d)' = {} /\ ~Shrunk(d)'
    BY <2>6 DEF Jumps, Shrunk
  <2>9. DepthInv(d, d)' /\ ContextInv(d, d)' /\ GuardInv(d, d)'
    BY <1>1, <1>2, <1>5, <2>6, <2>8 DEF DepthInv, ContextInv, GuardInv
  <2>10. MaskInv(d)' /\ MessageInv(d)' /\ StacksInv'
    BY <1>1, <1>5, <2>4 DEF MaskInv, MessageInv, Inv, StacksInv, MayFail
  <2>11. Inv(d, d)'
    BY <2>5, <2>7, <2>9, <2>10 DEF Inv
  <2>12. QED
    BY <1>1, <1>2, <1>5, <1>6, <1>8, <2>2, <2>4, <2>11
<1>9. QED
  BY <1>7, <1>8

(* The blocks are the first n activations, and the session's is the d-th.   *)
LEMMA Blocked ==
    ASSUME NEW n \in Nat, NEW d \in Nat, Inv(n, d)
    PROVE  /\ BlockDepth = n
           /\ SessionBlocks = IF d = 0 THEN {} ELSE {d}
<1>1. n <= Depth /\ Depth \in Nat /\ d \in 0 .. n
  BY DEF Inv, ShapeInv, Depth, TypeOK
<1>2. /\ \A k \in 1 .. n : stack[k].kind = "block"
      /\ \A k \in n + 1 .. Depth : stack[k].kind = "handler"
  BY DEF Inv, ShapeInv
<1>3. {k \in 1 .. Depth : stack[k].kind = "block"} = 1 .. n
  <2>1. \A k \in 1 .. Depth : k \in 1 .. n \/ k \in n + 1 .. Depth
    BY <1>1
  <2>2. \A k \in 1 .. n : k \in 1 .. Depth
    BY <1>1
  <2>3. QED
    BY <1>2, <2>1, <2>2
<1>4. Cardinality(1 .. n) = n
  BY FS_Interval
<1>5. BlockDepth = n
  BY <1>3, <1>4 DEF BlockDepth
<1>6. ASSUME NEW k \in SessionBlocks PROVE d # 0 /\ k = d
  <2>1. k \in 1 .. n /\ stack[k].at \notin {"failed", "nested"}
    BY <1>3, <1>6 DEF SessionBlocks, InsideLibrary
  <2>2. ~(k < d \/ d = 0) /\ ~(d # 0 /\ k > d)
    BY <2>1 DEF Inv, ShapeInv
  <2>3. QED
    BY <2>1, <2>2
<1>7. ASSUME d # 0 PROVE d \in SessionBlocks
  <2>1. d \in 1 .. n /\ d \in 1 .. Depth
    BY <1>1, <1>7
  <2>2. stack[d].at \in SessionParts /\ stack[d].kind = "block"
    BY <2>1 DEF Inv, ShapeInv
  <2>3. QED
    BY <2>1, <2>2 DEF SessionBlocks, SessionParts
<1>8. SessionBlocks = IF d = 0 THEN {} ELSE {d}
  BY <1>6, <1>7
<1>9. QED
  BY <1>5, <1>8

(* The host's handler takes the thread back where no jump is under way.     *)
LEMMA HostTakesStep ==
    ASSUME NEW n \in Nat, NEW d \in Nat, Inv(n, d), HostTakes
    PROVE  /\ Inv(n, d)'
           /\ d # 0 => stack[d].at = "catch"
           /\ Depth > n /\ Depth' = n
           /\ \A k \in 1 .. n : stack'[k] = stack[k]
<1>1. /\ At("handler", "chain") /\ HostGuards
      /\ mask' = {} /\ UNCHANGED <<t, altStack, buffers, message, dead>>
  BY DEF HostTakes
<1>2. Depth > n /\ Depth \in Nat /\ (d # 0 => ~t.unwindGuarded)
  BY <1>1, InHandler DEF HandlerParts
<1>3. /\ BlockDepth = n
      /\ SessionBlocks = IF d = 0 THEN {} ELSE {d}
  BY Blocked
<1>4. stack \in Seq(Activations) /\ d \in 0 .. n
  BY DEF Inv, TypeOK, ShapeInv
<1>5. d # 0 => stack[d].at = "catch"
  <2>1. SUFFICES ASSUME d # 0 PROVE stack[d].at = "catch"
    OBVIOUS
  <2>2. d \in 1 .. n /\ n \in 1 .. n /\ n > 0
    BY <1>4, <2>1
  <2>3. stack[n].at \in {"catch", "failed"} \cup
                         IF InCatch THEN {"nested"} ELSE {}
    BY <1>1, <1>3, <2>2 DEF HostGuards
  <2>4. InCatch => stack[d].at = "catch"
    BY <1>3, <2>1 DEF InCatch
  <2>5. stack[n].at = IF n = d THEN stack[d].at ELSE "nested"
    BY <2>1, <2>2 DEF Inv, ShapeInv
  <2>6. stack[d].at # "failed"
    BY <2>1, <2>2 DEF Inv, ShapeInv, SessionParts, InsideLibrary
  <2>7. QED
    BY <2>3, <2>4, <2>5, <2>6
<1>6. Jumps(n) = {}
  <2>1. ASSUME NEW k \in Jumps(n) PROVE d # 0
    BY <2>1 DEF Inv, GuardInv, Jumps, JumpParts
  <2>2. QED
    BY <1>5, <2>1 DEF Inv, ContextInv
<1>7. /\ stack' \in Seq(Activations) /\ Depth' = n
      /\ \A k \in 1 .. n : stack'[k] = stack[k]
  <2>1. \A k \in 1 .. n : k \in 1 .. Len(stack)
    BY <1>2 DEF Depth
  <2>2. \A k \in 1 .. n : stack[k] \in Activations
    BY <1>4, <2>1
  <2> DEFINE low == SubSeq(stack, 1, n)
  <2>3. /\ low \in Seq(Activations) /\ Len(low) = n
        /\ \A k \in 1 .. n : low[k] = stack[k]
    BY <1>4, <2>1, <2>2, SubSeqProperties
  <2>4. stack' = low
    BY <1>3 DEF HostTakes
  <2> HIDE DEF low
  <2>5. QED
    BY <2>3, <2>4 DEF Depth
<1>8. d # 0 => d \in 1 .. n
  BY <1>4
<1>9. n + 1 .. n = {}
  OBVIOUS
<1>10. Jumps(n)' = {} /\ ~Shrunk(n)' /\ ~Shrunk(n)
  BY <1>6, <1>7, <1>9 DEF Jumps, Shrunk
<1>11. TypeOK' /\ StacksInv'
  BY <1>1, <1>7 DEF Inv, TypeOK, StacksInv, MayFail
<1>12. ShapeInv(n, d)'
  BY <1>1, <1>7, <1>8, <1>9 DEF Inv, ShapeInv
<1>13. DepthInv(n, d)' /\ ContextInv(n, d)'
  BY <1>1, <1>7, <1>8, <1>10 DEF Inv, DepthInv, ContextInv
<1>14. GuardInv(n, d)' /\ MaskInv(n)' /\ MessageInv(d)'
  BY <1>1, <1>2, <1>7, <1>8, <1>9 DEF Inv, GuardInv, MaskInv, MessageInv
<1>15. QED
  BY <1>2, <1>5, <1>7, <1>11, <1>12, <1>13, <1>14 DEF Inv

(***************************************************************************)
(* Signals.                                                                *)
(***************************************************************************)
(* A signal starts a handler on top of whatever there is.                   *)
LEMMA DeliverStep ==
    ASSUME NEW n \in Nat, NEW d \in Nat, Inv(n, d),
           NEW s \in Signals, NEW blocked \in SUBSET Signals,
           Deliver(stack, s, blocked),
           UNCHANGED <<t, altStack, buffers, dead>>
    PROVE  Inv(n, d)'
<1> DEFINE h == Handler(s)
<1>1. h \in Activations /\ h.kind = "handler" /\ h.at = "get"
  BY DEF Handler, Activations, HandlerParts
<1>2. stack \in Seq(Activations) /\ stack' = Append(stack, h)
  BY DEF Inv, TypeOK, Deliver
<1> HIDE DEF h
<1>3. /\ stack' \in Seq(Activations)
      /\ Depth \in Nat /\ Depth' = Depth + 1
      /\ \A k \in 1 .. Depth : stack'[k] = stack[k]
      /\ stack'[Depth + 1] = h
  BY <1>1, <1>2, Pushed
<1>4. n <= Depth /\ d <= n
  BY DEF Inv, ShapeInv
<1>5. \A k \in n + 1 .. Depth + 1 : k = Depth + 1 \/ k \in n + 1 .. Depth
  BY <1>3, <1>4
<1>6. \A k \in n + 1 .. Depth : stack'[k] = stack[k]
  BY <1>3, <1>4
<1>7. \A k \in 1 .. n : stack'[k] = stack[k]
  BY <1>3, <1>4
<1>8. TypeOK'
  BY <1>3 DEF Inv, TypeOK, Deliver
<1>9. d # 0 => d \in 1 .. n
  BY <1>4
<1>10. ShapeInv(n, d)'
  <2>1. \A k \in n + 1 .. Depth + 1 :
            stack'[k].kind = "handler" /\ stack'[k].at \in HandlerParts
    BY <1>1, <1>3, <1>5, <1>6 DEF Inv, ShapeInv, HandlerParts
  <2>2. QED
    BY <1>3, <1>4, <1>7, <1>9, <2>1 DEF Inv, ShapeInv
<1>a. /\ Jumps(n)' = Jumps(n)
      /\ \A k \in Jumps(n) : stack'[k].at = stack[k].at
  <2>1. stack'[Depth + 1].at \notin JumpParts
    BY <1>1, <1>3 DEF JumpParts
  <2>2. \A k \in n + 1 .. Depth : k \in n + 1 .. Depth + 1
    BY <1>3
  <2>3. QED
    BY <1>3, <1>5, <1>6, <2>1, <2>2 DEF Jumps
<1>11. DepthInv(n, d)' /\ ContextInv(n, d)'
  <2>1. Shrunk(n)' <=> Shrunk(n)
    BY <1>a DEF Shrunk
  <2>2. DepthInv(n, d)'
    BY <1>7, <1>9, <2>1 DEF Inv, DepthInv
  <2>3. message = "none" => message' = "none"
    BY DEF Deliver
  <2>4. QED
    BY <1>7, <1>9, <1>a, <2>2, <2>3 DEF Inv, ContextInv
<1>12. GuardInv(n, d)'
  <2>1. \A k \in n + 1 .. Depth + 1 : stack'[k].at \notin {"get", "chain"} => d # 0
    BY <1>1, <1>3, <1>5, <1>6 DEF Inv, GuardInv
  <2>2. stack'[Depth + 1].at # "guard"
    BY <1>1, <1>3
  <2>3. ASSUME d # 0, t.unwindGuarded
        PROVE  /\ t.unwindCtx \in Contexts
               /\ t.unwindCtx.depth \in n + 1 .. Depth + 1
               /\ stack'[t.unwindCtx.depth].at \in {"extract", "unwound"}
               /\ \A k \in t.unwindCtx.depth + 1 .. Depth + 1 :
                      stack'[k].at = "get"
    <3>1. /\ t.unwindCtx \in Contexts
          /\ t.unwindCtx.depth \in n + 1 .. Depth
          /\ stack[t.unwindCtx.depth].at \in {"extract", "unwound"}
          /\ \A k \in t.unwindCtx.depth + 1 .. Depth : stack[k].at = "get"
      BY <2>3 DEF Inv, GuardInv
    <3>2. \A k \in t.unwindCtx.depth + 1 .. Depth + 1 :
              \/ k = Depth + 1
              \/ k \in t.unwindCtx.depth + 1 .. Depth /\ k \in n + 1 .. Depth
      BY <1>3, <3>1
    <3>3. t.unwindCtx.depth \in n + 1 .. Depth + 1
      BY <1>3, <3>1
    <3>4. QED
      BY <1>1, <1>3, <1>6, <3>1, <3>2, <3>3
  <2>4. QED
    BY <1>3, <2>1, <2>2, <2>3 DEF GuardInv
<1>13. MaskInv(n)'
  BY <1>3, <1>4 DEF MaskInv
<1>14. MessageInv(d)'
  BY <1>7, <1>9 DEF Inv, MessageInv, Deliver
<1>15. StacksInv'
  BY DEF Inv, StacksInv, MayFail
<1>16. QED
  BY <1>8, <1>10, <1>11, <1>12, <1>13, <1>14, <1>15 DEF Inv

(* Signals, from wherever they come, and the end of the process.            *)
LEMMA SignalSteps ==
    ASSUME NEW n \in Nat, NEW d \in Nat, Inv(n, d),
           \/ \E s \in Signals : Crash(s)
           \/ StackOverflow
           \/ \E s \in AsyncSignals : Receive(s)
           \/ \E s \in UnwinderFaults : ExtractFaults(s)
           \/ Chain
    PROVE  Inv(n, d)'
<1>0. /\ mask \in SUBSET Signals /\ mask \ {SIGABRT} \in SUBSET Signals
      /\ SIGSEGV \in Signals /\ AsyncSignals \subseteq Signals
      /\ UnwinderFaults \subseteq Signals
  BY SignalsAssumption DEF Inv, TypeOK
<1>1. ASSUME NEW s \in Signals, Crash(s) PROVE Inv(n, d)'
  BY <1>0, <1>1, DeliverStep DEF Crash
<1>2. CASE StackOverflow
  BY <1>0, <1>2, DeliverStep, Unmoved DEF StackOverflow
<1>3. ASSUME NEW s \in AsyncSignals, Receive(s) PROVE Inv(n, d)'
  BY <1>0, <1>3, DeliverStep DEF Receive
<1>4. ASSUME NEW s \in UnwinderFaults, ExtractFaults(s) PROVE Inv(n, d)'
  BY <1>0, <1>4, DeliverStep, Unmoved DEF ExtractFaults
<1>5. CASE Chain
  BY <1>5, Unmoved DEF Chain
<1>6. QED
  BY <1>1, <1>2, <1>3, <1>4, <1>5

(***************************************************************************)
(* The program.                                                            *)
(***************************************************************************)
(* Without a handler nothing guards an unwinder.                            *)
LEMMA NoGuard ==
    ASSUME NEW n \in Nat, NEW d \in Nat, Inv(n, d), Depth = n, d # 0
    PROVE  ~t.unwindGuarded
BY DEF Inv, GuardInv

(* A block is opened on top of blocks.                                      *)
LEMMA BlockOpens ==
    ASSUME NEW n \in Nat, NEW d \in Nat, Inv(n, d), Depth = n,
           NEW part \in BlockParts, stack' = Append(stack, Block(part))
    PROVE  /\ stack' \in Seq(Activations) /\ Depth' = n + 1
           /\ \A k \in 1 .. n : stack'[k] = stack[k]
           /\ stack'[n + 1].kind = "block" /\ stack'[n + 1].at = part
<1> DEFINE b == Block(part)
<1>1. b \in Activations /\ b.kind = "block" /\ b.at = part
  BY DEF Block, Activations
<1> HIDE DEF b
<1>2. stack \in Seq(Activations) /\ stack' = Append(stack, b)
  BY DEF Inv, TypeOK, b
<1>3. QED
  BY <1>1, <1>2, Pushed

(* COFFEE_TRY().                                                            *)
LEMMA OpenSteps ==
    ASSUME NEW n \in Nat, NEW d \in Nat, Inv(n, d),
           NEW m \in Nat, m = n + 1,
           Reenter \/ Setup \/ SetupFails
    PROVE  /\ Reenter \/ SetupFails => Inv(m, d)'
           /\ Setup => Inv(m, m)'
<1>0. /\ InUserCode /\ Depth = n /\ mask = {} /\ n < MaxBlocks
      /\ n > 0 => stack[n].at \notin InsideLibrary
      /\ d # 0 => stack[d].at \in {"body", "catch"}
      /\ d # 0 => t.reenter = n - d + 1
      /\ UNCHANGED <<mask, message, dead>>
  BY UserCode DEF Reenter, Setup, SetupFails
<1>1. /\ m \in 1 .. MaxBlocks /\ d \in 0 .. n
      /\ \A k \in 1 .. m : k = m \/ k \in 1 .. n
      /\ d # 0 => d \in 1 .. n
      /\ d = 0 <=> t = NoStruct
      /\ d # 0 => t \in Structures
  BY <1>0, BoundsAssumption DEF Inv, ShapeInv, TypeOK
<1>2. \A k \in 1 .. n : stack[k].kind = "block"
  BY DEF Inv, ShapeInv
<1>3. ASSUME Reenter PROVE Inv(m, d)'
  <2>1. /\ d # 0 /\ t \in Structures
        /\ t' = [t EXCEPT !.reenter = @ + 1]
        /\ stack' = Append(stack, Block("nested"))
        /\ UNCHANGED <<altStack, buffers>>
    BY <1>1, <1>3 DEF Reenter
  <2>2. /\ stack' \in Seq(Activations) /\ Depth' = m
        /\ \A k \in 1 .. n : stack'[k] = stack[k]
        /\ stack'[m].kind = "block" /\ stack'[m].at = "nested"
    BY <1>0, <2>1, BlockOpens DEF BlockParts
  <2>3. t.reenter + 1 \in 0 .. MaxBlocks
    <3>1. t.reenter + 1 = n - d + 2 /\ d >= 1
      BY <1>0, <1>1, <2>1
    <3>2. QED
      BY <1>0, <1>1, <3>1, BoundsAssumption
  <2>4. /\ t' \in Structures /\ t' # NoStruct
        /\ t'.reenter = t.reenter + 1
        /\ t'.ctxIsSet = t.ctxIsSet /\ t'.ctx = t.ctx
        /\ t'.unwindGuarded = t.unwindGuarded
        /\ t'.buffer = t.buffer /\ t'.stackOld = t.stackOld
        /\ t'.installed = t.installed
    <3>1. /\ t' \in Structures /\ t'.reenter = t.reenter + 1
          /\ t'.ctxIsSet = t.ctxIsSet /\ t'.ctx = t.ctx
          /\ t'.unwindGuarded = t.unwindGuarded
          /\ t'.buffer = t.buffer /\ t'.stackOld = t.stackOld
          /\ t'.installed = t.installed
      BY <2>1, <2>3 DEF Structures
    <3>2. QED
      BY <3>1, NullAssumption
  <2>5. TypeOK'
    BY <1>0, <2>1, <2>2, <2>4 DEF Inv, TypeOK
  <2>a. Jumps(m)' = {} /\ ~Shrunk(m)'
    <3>1. m + 1 .. m = {}
      OBVIOUS
    <3>2. QED
      BY <2>2, <3>1 DEF Jumps, Shrunk
  <2>6. ShapeInv(m, d)' /\ DepthInv(m, d)'
    <3>1. \A k \in 1 .. m :
              /\ stack'[k].kind = "block"
              /\ k < d => stack'[k].at = "failed"
              /\ k = d => stack'[k].at \in SessionParts
              /\ k > d => stack'[k].at = "nested"
      <4>1. \A k \in 1 .. n :
                /\ stack'[k].kind = "block"
                /\ k < d => stack'[k].at = "failed"
                /\ k = d => stack'[k].at \in SessionParts
                /\ k > d => stack'[k].at = "nested"
        BY <2>1, <2>2 DEF Inv, ShapeInv
      <4>2. ~(m < d) /\ m # d
        BY <1>1
      <4>3. \A k \in 1 .. m : k \in 1 .. n \/ k = m
        BY <1>1
      <4>4. stack'[m].kind = "block" /\ stack'[m].at = "nested"
        BY <2>2
      <4>5. QED
        BY <4>1, <4>2, <4>3, <4>4
    <3>2. stack'[d].at = stack[d].at
      BY <1>1, <2>1, <2>2
    <3>3. stack'[d].at \notin InsideLibrary
      BY <1>0, <2>1, <3>2 DEF InsideLibrary
    <3>4. t'.reenter = m - d + 1
      BY <1>0, <1>1, <2>1, <2>4
    <3>5. stack'[d].at \notin {"ending", "closing"}
      BY <3>3 DEF InsideLibrary
    <3>6. \A k \in m + 1 .. m : FALSE
      OBVIOUS
    <3>7. m \in 0 .. MaxBlocks /\ d \in 0 .. m
      BY <1>1
    <3>8. ASSUME NEW k \in 1 .. m
          PROVE  /\ stack'[k].kind = "block"
                 /\ k < d \/ d = 0 => stack'[k].at = "failed"
                 /\ k = d => stack'[k].at \in SessionParts
                 /\ d # 0 /\ k > d => stack'[k].at = "nested"
      BY <2>1, <3>1
    <3>9. /\ m <= Depth'
          /\ \A k \in m + 1 .. Depth' :
                 stack'[k].kind = "handler" /\ stack'[k].at \in HandlerParts
      BY <2>2, <3>6
    <3>10. ShapeInv(m, d)'
      BY <2>1, <2>4, <3>3, <3>7, <3>8, <3>9 DEF ShapeInv
    <3>11. QED
      BY <2>a, <3>4, <3>5, <3>10 DEF DepthInv
  <2>7. ContextInv(m, d)'
    BY <1>1, <2>1, <2>2, <2>4, <2>a DEF Inv, ContextInv
  <2>8. GuardInv(m, d)'
    BY <1>0, <2>1, <2>2, <2>4, NoGuard DEF GuardInv
  <2>9. MaskInv(m)' /\ MessageInv(d)'
    BY <1>0, <1>1, <2>1, <2>2, <2>4 DEF Inv, MaskInv, MessageInv
  <2>10. StacksInv'
    BY <1>1, <2>1, <2>4 DEF Inv, StacksInv, MayFail
  <2>11. QED
    BY <2>5, <2>6, <2>7, <2>8, <2>9, <2>10 DEF Inv
<1>4. ASSUME Setup PROVE Inv(m, m)'
  <2>1. PICK b \in Buffers \ buffers :
            /\ buffers' = buffers \cup {b}
            /\ \/ t' = NewStruct(b, TRUE) /\ altStack' = b
               \/ t' = NewStruct(b, FALSE) /\ UNCHANGED altStack
    BY <1>4 DEF Setup
  <2>2. d = 0 /\ t = NoStruct /\ stack' = Append(stack, Block("try"))
    BY <1>1, <1>4 DEF Setup
  <2>3. /\ stack' \in Seq(Activations) /\ Depth' = m
        /\ \A k \in 1 .. n : stack'[k] = stack[k]
        /\ stack'[m].kind = "block" /\ stack'[m].at = "try"
    BY <1>0, <2>2, BlockOpens DEF BlockParts, InsideLibrary
  <2>4. ASSUME NEW installed \in BOOLEAN, t' = NewStruct(b, installed)
        PROVE  /\ t' \in Structures /\ t' # NoStruct
               /\ t'.reenter = 1 /\ t'.ctxIsSet /\ t'.ctx = NoContext
               /\ ~t'.unwindGuarded /\ t'.buffer = b
               /\ t'.stackOld = altStack /\ t'.installed = installed
    <3>1. 1 \in 0 .. MaxBlocks /\ altStack \in Buffers \cup {HostStack}
      <4>1. 1 \in 0 .. MaxBlocks
        BY <1>1, BoundsAssumption
      <4>2. QED
        BY <4>1 DEF Inv, TypeOK
    <3>2. t' \in Structures
      BY <2>4, <3>1 DEF NewStruct, Structures
    <3>3. QED
      BY <2>4, <3>2, NullAssumption DEF NewStruct
  <2>5. /\ t' \in Structures /\ t' # NoStruct
        /\ t'.reenter = 1 /\ t'.ctxIsSet /\ t'.ctx = NoContext
        /\ ~t'.unwindGuarded /\ t'.buffer = b /\ t'.stackOld = altStack
        /\ \/ t'.installed /\ altStack' = b
           \/ ~t'.installed /\ altStack' = altStack
    BY <2>1, <2>4
  <2>6. TypeOK'
    BY <1>0, <2>1, <2>3, <2>5 DEF Inv, TypeOK
  <2>a. Jumps(m)' = {} /\ ~Shrunk(m)'
    <3>1. m + 1 .. m = {}
      OBVIOUS
    <3>2. QED
      BY <2>3, <3>1 DEF Jumps, Shrunk
  <2>7. ShapeInv(m, m)' /\ DepthInv(m, m)'
    <3>1. \A k \in 1 .. n : stack'[k].kind = "block" /\ stack'[k].at = "failed"
      BY <2>2, <2>3 DEF Inv, ShapeInv
    <3>2. stack'[m].at \in SessionParts
      BY <2>3 DEF SessionParts, InsideLibrary
    <3>3. stack'[m].at \notin {"ending", "closing"}
      BY <2>3
    <3>4. \A k \in m + 1 .. m : FALSE
      OBVIOUS
    <3>5. ShapeInv(m, m)'
      BY <1>1, <2>3, <2>5, <3>1, <3>2, <3>4 DEF ShapeInv
    <3>6. m - m + 1 = 1
      OBVIOUS
    <3>7. QED
      BY <2>5, <2>a, <3>3, <3>5, <3>6 DEF DepthInv
  <2>8. ContextInv(m, m)'
    BY <2>3, <2>5, <2>a DEF ContextInv
  <2>9. GuardInv(m, m)'
    BY <2>3, <2>5 DEF GuardInv
  <2>10. MaskInv(m)' /\ MessageInv(m)'
    BY <1>0, <2>2, <2>3 DEF Inv, MaskInv, MessageInv
  <2>11. StacksInv'
    <3>1. b \notin buffers /\ b # HostStack
      BY <2>1, StacksAssumption
    <3>2. QED
      BY <2>1, <2>2, <2>5, <3>1 DEF Inv, StacksInv, MayFail
  <2>12. QED
    BY <2>6, <2>7, <2>8, <2>9, <2>10, <2>11 DEF Inv
<1>5. ASSUME SetupFails PROVE Inv(m, d)'
  <2>1. /\ d = 0 /\ t = NoStruct /\ stack' = Append(stack, Block("failed"))
        /\ UNCHANGED <<t, altStack, buffers>>
    BY <1>1, <1>5 DEF SetupFails
  <2>2. /\ stack' \in Seq(Activations) /\ Depth' = m
        /\ \A k \in 1 .. n : stack'[k] = stack[k]
        /\ stack'[m].kind = "block" /\ stack'[m].at = "failed"
    BY <1>0, <2>1, BlockOpens DEF BlockParts
  <2>3. TypeOK'
    BY <1>0, <2>1, <2>2 DEF Inv, TypeOK
  <2>4. ShapeInv(m, d)'
    <3>1. \A k \in 1 .. m : stack'[k].kind = "block" /\ stack'[k].at = "failed"
      <4>1. \A k \in 1 .. n : stack'[k].kind = "block" /\ stack'[k].at = "failed"
        BY <2>1, <2>2 DEF Inv, ShapeInv
      <4>2. QED
        BY <1>1, <2>2, <4>1
    <3>2. m \in 0 .. MaxBlocks /\ d \in 0 .. m
      BY <1>1
    <3>3. \A k \in m + 1 .. m : FALSE
      OBVIOUS
    <3>4. ASSUME NEW k \in 1 .. m
          PROVE  /\ stack'[k].kind = "block"
                 /\ k < d \/ d = 0 => stack'[k].at = "failed"
                 /\ k = d => stack'[k].at \in SessionParts
                 /\ d # 0 /\ k > d => stack'[k].at = "nested"
      <4>1. k # d
        BY <2>1
      <4>2. stack'[k].kind = "block" /\ stack'[k].at = "failed"
        BY <3>1
      <4>3. QED
        BY <2>1, <4>1, <4>2
    <3>5. /\ m <= Depth'
          /\ \A k \in m + 1 .. Depth' :
                 stack'[k].kind = "handler" /\ stack'[k].at \in HandlerParts
      BY <2>2, <3>3
    <3>6. QED
      BY <2>1, <3>2, <3>4, <3>5 DEF ShapeInv
  <2>a. Jumps(m)' = {}
    <3>1. m + 1 .. m = {}
      OBVIOUS
    <3>2. QED
      BY <2>2, <3>1 DEF Jumps
  <2>5. DepthInv(m, d)' /\ ContextInv(m, d)' /\ GuardInv(m, d)'
    BY <2>1, <2>2, <2>a DEF DepthInv, ContextInv, GuardInv
  <2>6. MaskInv(m)' /\ MessageInv(d)'
    BY <1>0, <2>1, <2>2 DEF Inv, MaskInv, MessageInv
  <2>7. StacksInv'
    BY <2>1 DEF Inv, StacksInv, MayFail
  <2>8. QED
    BY <2>3, <2>4, <2>5, <2>6, <2>7 DEF Inv
<1>6. QED
  BY <1>3, <1>4, <1>5

(* A thread inside COFFEE_TRY() or COFFEE_END() is in its session's block.  *)
LEMMA InBlock ==
    ASSUME NEW n \in Nat, NEW d \in Nat, Inv(n, d),
           NEW part \in InsideLibrary, At("block", part)
    PROVE  /\ Depth = n /\ n = d /\ d # 0 /\ stack # <<>>
           /\ stack[d].at = part /\ t \in Structures /\ mask = {}
<1>1. Depth \in Nat /\ Depth = Len(stack) /\ n <= Depth
  BY DEF Inv, TypeOK, Depth, ShapeInv
<1>2. stack # <<>> /\ Depth > 0
  BY <1>1, EmptySeq DEF At, Inv, TypeOK
<1>3. Depth = n
  <2>1. CASE Depth > n
    <3>1. stack[Depth].kind = "handler"
      BY <1>1, <2>1 DEF Inv, ShapeInv
    <3>2. QED
      BY <3>1 DEF At, Top
  <2>2. QED
    BY <1>1, <2>1
<1>4. stack[n].at = part /\ n \in 1 .. n
  BY <1>2, <1>3 DEF At, Top
<1>5. part \notin {"failed", "nested"}
  BY DEF InsideLibrary
<1>6. n = d
  <2>1. ~(n < d \/ d = 0) /\ ~(d # 0 /\ n > d)
    BY <1>4, <1>5 DEF Inv, ShapeInv
  <2>2. QED
    BY <2>1
<1>7. d # 0
  BY <1>2, <1>3, <1>6
<1>8. t \in Structures
  BY <1>7 DEF Inv, ShapeInv, TypeOK
<1>9. QED
  BY <1>2, <1>3, <1>4, <1>6, <1>7, <1>8 DEF Inv, MaskInv

(* The session's block goes on.                                             *)
LEMMA BlockGoesOn ==
    ASSUME NEW d \in Nat, d # 0, Inv(d, d), Depth = d,
           NEW part \in SessionParts, Moved(d, part),
           t' \in Structures, t \in Structures,
           t'.reenter = (IF part \in {"ending", "closing"} THEN 0 ELSE 1),
           t'.ctxIsSet => t.ctxIsSet,
           t'.unwindGuarded = t.unwindGuarded,
           t'.buffer = t.buffer, t'.stackOld = t.stackOld,
           t'.installed = t.installed,
           ContextInv(d, d)',
           message = "none" \/ part # "try",
           UNCHANGED <<mask, altStack, buffers, message, dead>>
    PROVE  Inv(d, d)'
<1>1. t' # NoStruct /\ t # NoStruct
  BY NullAssumption
<1>2. TypeOK'
  BY DEF Inv, TypeOK, Moved
<1>3. ShapeInv(d, d)'
  <2>1. ASSUME NEW k \in 1 .. d
        PROVE  /\ stack'[k].kind = "block"
               /\ k < d => stack'[k].at = "failed"
               /\ k = d => stack'[k].at \in SessionParts
    <3>1. k < d => k \in 1 .. d - 1
      OBVIOUS
    <3>2. QED
      BY <3>1 DEF Moved, Inv, ShapeInv
  <2>2. d \in 0 .. MaxBlocks /\ d \in 0 .. d /\ Depth' = d
    BY DEF Inv, ShapeInv, Moved
  <2>3. \A k \in d + 1 .. d : FALSE
    OBVIOUS
  <2>4. stack'[d].at = part
    BY DEF Moved
  <2>5. d - d = 0
    OBVIOUS
  <2>6. QED
    BY <1>1, <2>1, <2>2, <2>3, <2>4, <2>5 DEF ShapeInv
<1>a. DepthInv(d, d)'
  <2>1. /\ d + 1 .. d = {}
        /\ d - d = 0 /\ d - d + 1 = 1
    OBVIOUS
  <2>2. ~Shrunk(d)' /\ stack'[d].at = part
    BY <2>1 DEF Jumps, Shrunk, Moved
  <2>3. QED
    BY <2>1, <2>2 DEF DepthInv
<1>4. GuardInv(d, d)'
  <2>1. ~t'.unwindGuarded
    BY NoGuard
  <2>2. Depth' = d
    BY DEF Moved
  <2>3. QED
    BY <2>1, <2>2 DEF GuardInv
<1>5. MaskInv(d)' /\ MessageInv(d)'
  BY <1>1 DEF Inv, MaskInv, MessageInv, Moved
<1>6. StacksInv'
  BY <1>1 DEF Inv, StacksInv, MayFail
<1>7. QED
  BY <1>2, <1>3, <1>a, <1>4, <1>5, <1>6 DEF Inv

(* The session's structure is freed, and its alternate stack put back or    *)
(* leaked.                                                                  *)
LEMMA Freed ==
    ASSUME TypeOK, StacksInv, t # NoStruct, FreeStruct
    PROVE  /\ StacksInv' /\ t' = NoStruct /\ message' = "none"
           /\ altStack' \in Buffers \cup {HostStack}
           /\ buffers' \subseteq Buffers
<1>1. t' = NoStruct /\ message' = "none" /\ buffers' \subseteq buffers
  BY DEF FreeStruct
<1>2. /\ t.buffer \in buffers
      /\ t.stackOld \in {HostStack} \cup (buffers \ {t.buffer})
      /\ t.installed \/ altStack = t.stackOld
      /\ altStack \in {HostStack} \cup buffers
  BY DEF StacksInv
<1>3. altStack' \in {HostStack} \cup buffers'
  BY <1>2 DEF FreeStruct
<1>4. ~MayFail("altstack") => altStack' = HostStack /\ buffers' = {}
  <2>1. SUFFICES ASSUME ~MayFail("altstack")
                 PROVE  altStack' = HostStack /\ buffers' = {}
    OBVIOUS
  <2>2. t.stackOld = HostStack /\ buffers = {t.buffer}
    BY <2>1 DEF StacksInv
  <2>3. altStack' = t.stackOld /\ buffers' = buffers \ {t.buffer}
    BY <1>2, <2>1 DEF FreeStruct
  <2>4. QED
    BY <2>2, <2>3
<1>5. QED
  BY <1>1, <1>3, <1>4 DEF StacksInv, TypeOK, MayFail

(* The steps inside COFFEE_TRY() and COFFEE_END(), the last one apart.      *)
LEMMA LibrarySteps ==
    ASSUME NEW n \in Nat, NEW d \in Nat, Inv(n, d),
           StoreContext \/ EndLast \/ Invalidate
    PROVE  Inv(n, d)'
<1>0. stack \in Seq(Activations) /\ mask \subseteq Signals
  BY DEF Inv, TypeOK
<1> USE DEF BlockParts, InsideLibrary, SessionParts
<1>1. CASE StoreContext
  <2>1. /\ Depth = n /\ n = d /\ d # 0 /\ stack # <<>>
        /\ stack[d].at = "try" /\ t \in Structures /\ mask = {}
    BY <1>1, InBlock DEF StoreContext
  <2>2. Context \in Contexts /\ Context.depth = d /\ Context.mask = {}
    BY <1>0, <2>1 DEF Context, Contexts
  <2>3. /\ t' \in Structures /\ t'.ctx = Context
        /\ t'.reenter = t.reenter /\ t'.ctxIsSet = t.ctxIsSet
        /\ t'.unwindGuarded = t.unwindGuarded
        /\ t'.buffer = t.buffer /\ t'.stackOld = t.stackOld
        /\ t'.installed = t.installed
    BY <1>1, <2>1, <2>2 DEF StoreContext, Structures
  <2>4. t.reenter = 1
    <3>1. t.reenter = d - d + 1
      BY <2>1, NoJumps DEF Inv, DepthInv
    <3>2. QED
      BY <3>1
  <2>5. Moved(d, "body")
    BY <1>0, <1>1, <2>1, Went DEF StoreContext
  <2>6. ContextInv(d, d)'
    <3>1. d + 1 .. d = {}
      OBVIOUS
    <3>2. Jumps(d)' = {}
      BY <2>5, <3>1 DEF Jumps, Moved
    <3>3. QED
      BY <2>2, <2>3, <2>5, <3>2 DEF ContextInv, Moved
  <2>7. QED
    BY <1>1, <2>1, <2>3, <2>4, <2>5, <2>6, BlockGoesOn DEF StoreContext
<1>2. CASE EndLast
  <2>1. InUserCode /\ stack # <<>> /\ t # NoStruct /\ t.reenter = 1
    BY <1>2 DEF EndLast
  <2>2. /\ Depth = n /\ n > 0
        /\ stack[n].at \notin InsideLibrary
        /\ d # 0 => t.reenter = n - d + 1
        /\ d # 0 => stack[d].at \in {"body", "catch"}
    BY <2>1, UserCode
  <2>3. d # 0 /\ t \in Structures
    BY <2>1 DEF Inv, ShapeInv, TypeOK
  <2>4. n = d
    BY <2>1, <2>2, <2>3
  <2>5. 0 \in 0 .. MaxBlocks
    BY BoundsAssumption
  <2>6. /\ t' \in Structures
        /\ t'.reenter = 0
        /\ t'.ctxIsSet = t.ctxIsSet /\ t'.ctx = t.ctx
        /\ t'.unwindGuarded = t.unwindGuarded
        /\ t'.buffer = t.buffer /\ t'.stackOld = t.stackOld
        /\ t'.installed = t.installed
    BY <1>2, <2>3, <2>5 DEF EndLast, Structures
  <2>7. Moved(d, "ending")
    BY <1>0, <1>2, <2>1, <2>2, <2>4, Went DEF EndLast
  <2>8. ContextInv(d, d)'
    <3>1. d + 1 .. d = {}
      OBVIOUS
    <3>2. Jumps(d)' = {}
      BY <2>7, <3>1 DEF Jumps, Moved
    <3>3. QED
      BY <2>2, <2>3, <2>6, <2>7, <3>2 DEF Inv, ContextInv, Moved
  <2>9. QED
    BY <1>2, <2>2, <2>3, <2>4, <2>6, <2>7, <2>8, BlockGoesOn DEF EndLast
<1>3. CASE Invalidate
  <2>1. /\ Depth = n /\ n = d /\ d # 0 /\ stack # <<>>
        /\ stack[d].at = "ending" /\ t \in Structures
    BY <1>3, InBlock DEF Invalidate
  <2>2. /\ t' \in Structures /\ ~t'.ctxIsSet
        /\ t'.reenter = t.reenter
        /\ t'.unwindGuarded = t.unwindGuarded
        /\ t'.buffer = t.buffer /\ t'.stackOld = t.stackOld
        /\ t'.installed = t.installed
    BY <1>3, <2>1 DEF Invalidate, Structures
  <2>3. t.reenter = 0
    <3>1. t.reenter = d - d
      BY <2>1, NoJumps DEF Inv, DepthInv
    <3>2. QED
      BY <3>1
  <2>4. Moved(d, "closing")
    BY <1>0, <1>3, <2>1, Went DEF Invalidate
  <2>5. ContextInv(d, d)'
    <3>1. d + 1 .. d = {}
      OBVIOUS
    <3>2. Jumps(d)' = {}
      BY <2>4, <3>1 DEF Jumps, Moved
    <3>3. QED
      BY <2>2, <3>2 DEF ContextInv
  <2>6. QED
    BY <1>3, <2>1, <2>2, <2>3, <2>4, <2>5, BlockGoesOn DEF Invalidate
<1>4. QED
  BY <1>1, <1>2, <1>3

(* COFFEE_END() of a block that does not close the session.                 *)
LEMMA EndStep ==
    ASSUME NEW n \in Nat, NEW d \in Nat, Inv(n, d),
           NEW m \in Nat, n = m + 1, End
    PROVE  Inv(m, d)'
<1>0. InUserCode /\ stack # <<>> /\ Pop
      /\ UNCHANGED <<mask, altStack, buffers, message, dead>>
  BY DEF End
<1>1. /\ Depth = n /\ mask = {}
      /\ d # 0 => stack[d].at \in {"body", "catch"}
      /\ d # 0 => t.reenter = n - d + 1
  BY <1>0, UserCode
<1>2. /\ stack' \in Seq(Activations) /\ Depth' = m
      /\ \A k \in 1 .. m : stack'[k] = stack[k]
  <2>1. n - 1 = m
    OBVIOUS
  <2>2. stack \in Seq(Activations)
    BY DEF Inv, TypeOK
  <2>3. QED
    BY <1>0, <1>1, <2>1, <2>2, Popped
<1>3. /\ d = 0 <=> t = NoStruct
      /\ t \in Structures \cup {NoStruct}
      /\ n \in 0 .. MaxBlocks /\ d \in 0 .. n
  BY DEF Inv, ShapeInv, TypeOK
<1>4. /\ d = 0 => t' = t
      /\ d # 0 =>
           /\ d <= m /\ t' \in Structures
           /\ t'.reenter = t.reenter - 1
           /\ t'.ctxIsSet = t.ctxIsSet /\ t'.ctx = t.ctx
           /\ t'.unwindGuarded = t.unwindGuarded
           /\ t'.buffer = t.buffer /\ t'.stackOld = t.stackOld
           /\ t'.installed = t.installed
  <2>1. CASE d = 0
    BY <1>3, <2>1 DEF End
  <2>2. CASE d # 0
    <3>1. t \in Structures /\ t.reenter > 1 /\ t' = [t EXCEPT !.reenter = @ - 1]
      BY <1>3, <2>2 DEF End
    <3>2. d <= m
      BY <1>1, <1>3, <2>2, <3>1
    <3>3. t.reenter - 1 \in 0 .. MaxBlocks
      BY <3>1, BoundsAssumption DEF Structures
    <3>4. QED
      BY <2>2, <3>1, <3>2, <3>3 DEF Structures
  <2>3. QED
    BY <2>1, <2>2
<1>5. d = 0 <=> t' = NoStruct
  BY <1>3, <1>4, NullAssumption
<1>6. d # 0 => d \in 1 .. m /\ stack'[d] = stack[d]
  BY <1>2, <1>4
<1>7. TypeOK'
  BY <1>0, <1>2, <1>3, <1>4 DEF Inv, TypeOK
<1>a. Jumps(m)' = {} /\ ~Shrunk(m)'
  <2>1. m + 1 .. m = {}
    OBVIOUS
  <2>2. QED
    BY <1>2, <2>1 DEF Jumps, Shrunk
<1>8. ShapeInv(m, d)' /\ DepthInv(m, d)'
  <2>1. ASSUME NEW k \in 1 .. m
        PROVE  /\ stack'[k].kind = "block"
               /\ k < d \/ d = 0 => stack'[k].at = "failed"
               /\ k = d => stack'[k].at \in SessionParts
               /\ d # 0 /\ k > d => stack'[k].at = "nested"
    <3>1. k \in 1 .. n
      OBVIOUS
    <3>2. QED
      BY <1>2, <3>1 DEF Inv, ShapeInv
  <2>2. m \in 0 .. MaxBlocks /\ d \in 0 .. m /\ m <= Depth'
    BY <1>2, <1>3, <1>4, BoundsAssumption
  <2>3. \A k \in m + 1 .. Depth' :
            stack'[k].kind = "handler" /\ stack'[k].at \in HandlerParts
    BY <1>2
  <2>4. d # 0 => stack'[d].at \notin InsideLibrary
    BY <1>1, <1>6 DEF InsideLibrary
  <2>5. d # 0 => stack'[d].at \notin {"ending", "closing"}
    BY <2>4 DEF InsideLibrary
  <2>6. d # 0 => t'.reenter = m - d + 1
    BY <1>1, <1>4
  <2>7. ShapeInv(m, d)'
    BY <1>5, <2>1, <2>2, <2>3, <2>4 DEF ShapeInv
  <2>8. QED
    BY <1>a, <2>5, <2>6, <2>7 DEF DepthInv
<1>9. ContextInv(m, d)'
  BY <1>4, <1>6, <1>a DEF Inv, ContextInv
<1>10. GuardInv(m, d)'
  BY <1>1, <1>2, <1>4, NoGuard DEF GuardInv
<1>11. MaskInv(m)' /\ MessageInv(d)'
  BY <1>0, <1>1, <1>4, <1>6 DEF Inv, MaskInv, MessageInv
<1>12. StacksInv'
  BY <1>0, <1>3, <1>4, <1>5 DEF Inv, StacksInv, MayFail
<1>13. QED
  BY <1>7, <1>8, <1>9, <1>10, <1>11, <1>12 DEF Inv

(* What is left of the invariant once the session is over.                  *)
LEMMA Closed ==
    ASSUME NEW m \in Nat, m <= MaxBlocks,
           TypeOK, StacksInv, t # NoStruct, FreeStruct,
           stack' \in Seq(Activations), Depth' = m,
           \A k \in 1 .. m : stack'[k].kind = "block" /\ stack'[k].at = "failed",
           mask = {}, UNCHANGED <<mask, dead>>
    PROVE  Inv(m, 0)'
<1>1. /\ StacksInv' /\ t' = NoStruct /\ message' = "none"
      /\ altStack' \in Buffers \cup {HostStack}
      /\ buffers' \subseteq Buffers
  BY Freed
<1>2. TypeOK'
  BY <1>1 DEF TypeOK
<1>3. ShapeInv(m, 0)'
  <2>1. ASSUME NEW k \in 1 .. m
        PROVE  /\ stack'[k].kind = "block" /\ stack'[k].at = "failed"
               /\ k # 0
    OBVIOUS
  <2>2. m \in 0 .. MaxBlocks /\ 0 \in 0 .. m
    BY BoundsAssumption
  <2>3. \A k \in m + 1 .. m : FALSE
    OBVIOUS
  <2>4. QED
    BY <1>1, <2>1, <2>2, <2>3 DEF ShapeInv
<1>4. DepthInv(m, 0)' /\ ContextInv(m, 0)' /\ GuardInv(m, 0)'
  <2>1. m + 1 .. m = {}
    OBVIOUS
  <2>2. Jumps(m)' = {}
    BY <2>1 DEF Jumps
  <2>3. QED
    BY <2>1, <2>2 DEF DepthInv, ContextInv, GuardInv
<1>a. MaskInv(m)' /\ MessageInv(0)'
  BY <1>1 DEF MaskInv, MessageInv
<1>5. QED
  BY <1>1, <1>2, <1>3, <1>4, <1>a DEF Inv

(* COFFEE_END() of the session's own block.                                 *)
LEMMA CloseSessionStep ==
    ASSUME NEW n \in Nat, NEW d \in Nat, Inv(n, d),
           NEW m \in Nat, n = m + 1, CloseSession
    PROVE  Inv(m, 0)'
<1>0. At("block", "closing") /\ FreeStruct /\ Pop /\ UNCHANGED <<mask, dead>>
  BY DEF CloseSession
<1>1. Depth = n /\ n = d /\ d # 0 /\ stack # <<>> /\ mask = {}
  BY <1>0, InBlock DEF InsideLibrary
<1>2. /\ TypeOK /\ StacksInv /\ t # NoStruct
      /\ stack \in Seq(Activations) /\ m <= MaxBlocks
  BY <1>1, BoundsAssumption DEF Inv, ShapeInv, TypeOK
<1>3. /\ stack' \in Seq(Activations) /\ Depth' = m
      /\ \A k \in 1 .. m : stack'[k] = stack[k]
  <2>1. n - 1 = m
    OBVIOUS
  <2>2. QED
    BY <1>0, <1>1, <1>2, <2>1, Popped
<1>4. ASSUME NEW k \in 1 .. m
      PROVE  stack'[k].kind = "block" /\ stack'[k].at = "failed"
  <2>1. k \in 1 .. n /\ k < d
    BY <1>1
  <2>2. QED
    BY <1>3, <2>1 DEF Inv, ShapeInv
<1>5. QED
  BY <1>0, <1>1, <1>2, <1>3, <1>4, Closed

(* The thread exits.                                                        *)
LEMMA ThreadExitStep ==
    ASSUME NEW n \in Nat, NEW d \in Nat, Inv(n, d), ThreadExit
    PROVE  Inv(0, 0)'
<1>1. /\ InUserCode /\ t # NoStruct /\ stack' = <<>> /\ FreeStruct
      /\ UNCHANGED <<mask, dead>>
  BY DEF ThreadExit
<1>2. mask = {}
  BY <1>1, UserCode
<1>3. stack' \in Seq(Activations) /\ Depth' = 0
  BY <1>1 DEF Depth
<1>4. \A k \in 1 .. 0 : FALSE
  OBVIOUS
<1>5. 0 <= MaxBlocks /\ TypeOK /\ StacksInv
  BY BoundsAssumption DEF Inv
<1>6. QED
  BY <1>1, <1>2, <1>3, <1>4, <1>5, Closed

(* The message is asked for where no signal can bring the thread back.      *)
LEMMA GetMessageStep ==
    ASSUME NEW n \in Nat, NEW d \in Nat, Inv(n, d), GetMessage
    PROVE  Inv(n, d)'
<1>1. /\ InUserCode /\ InCatch /\ message' = "valid"
      /\ UNCHANGED <<stack, t, mask, altStack, buffers, dead>>
  BY DEF GetMessage
<1>2. Depth = n
  BY <1>1, UserCode
<1>3. PICK k \in 1 .. n : stack[k].at = "catch"
  BY <1>1, <1>2 DEF InCatch, SessionBlocks
<1>4. d # 0 /\ k = d
  <2>1. d \in Nat /\ k \in Nat
    OBVIOUS
  <2>2. ~(k < d \/ d = 0) /\ ~(d # 0 /\ k > d)
    BY <1>3 DEF Inv, ShapeInv
  <2>3. QED
    BY <2>1, <2>2
<1>5. t # NoStruct /\ ~t.ctxIsSet
  BY <1>3, <1>4 DEF Inv, ShapeInv, ContextInv
<1>6. TypeOK'
  BY <1>1 DEF Inv, TypeOK
<1>7. Depth' = Depth
  BY <1>1 DEF Depth
<1>a. Jumps(n) = {} /\ Jumps(n)' = {}
  BY <1>1, <1>2, <1>7, NoJumps DEF Jumps
<1>8. ShapeInv(n, d)' /\ DepthInv(n, d)' /\ ContextInv(n, d)'
  BY <1>1, <1>7, <1>a DEF Inv, ShapeInv, DepthInv, Shrunk, ContextInv
<1>9. GuardInv(n, d)' /\ MaskInv(n)' /\ MessageInv(d)'
  BY <1>1, <1>3, <1>4, <1>5, <1>7 DEF Inv, GuardInv, MaskInv, MessageInv
<1>10. StacksInv'
  BY <1>1 DEF Inv, StacksInv, MayFail
<1>11. QED
  BY <1>6, <1>8, <1>9, <1>10 DEF Inv

(***************************************************************************)
(* The theorems.                                                           *)
(***************************************************************************)
(* It holds at the start.                                                   *)
LEMMA InitialInv ==
    ASSUME Init
    PROVE  Inv(0, 0)
<1>1. /\ stack \in Seq(Activations) /\ Depth = 0
      /\ t = NoStruct /\ mask = {} /\ altStack = HostStack /\ buffers = {}
      /\ message = "none" /\ dead = FALSE
  BY DEF Init, Depth
<1>2. TypeOK
  BY <1>1 DEF TypeOK
<1>3. \A k \in 1 .. 0 : FALSE
  OBVIOUS
<1>4. ShapeInv(0, 0)
  BY <1>1, <1>3, BoundsAssumption DEF ShapeInv
<1>5. DepthInv(0, 0) /\ ContextInv(0, 0) /\ GuardInv(0, 0)
  BY <1>1, NoJumps DEF DepthInv, ContextInv, GuardInv
<1>6. MaskInv(0) /\ MessageInv(0) /\ StacksInv
  BY <1>1 DEF MaskInv, MessageInv, StacksInv
<1>7. QED
  BY <1>2, <1>4, <1>5, <1>6 DEF Inv

(* The invariant, of every behaviour.                                       *)
THEOREM SessionInvariant == Spec => []SessionInv
<1>1. Init => SessionInv
  BY InitialInv DEF SessionInv
<1>2. SessionInv /\ [Next]_vars => SessionInv'
  <2> SUFFICES ASSUME SessionInv, [Next]_vars PROVE SessionInv'
    OBVIOUS
  <2>1. PICK n \in Nat, d \in Nat : Inv(n, d)
    BY DEF SessionInv
  <2>2. ASSUME Inv(n, d)' PROVE SessionInv'
    BY <2>2 DEF SessionInv
  <2>3. CASE Reenter \/ Setup \/ SetupFails
    <3>1. n + 1 \in Nat
      OBVIOUS
    <3>2. Inv(n + 1, d)' \/ Inv(n + 1, n + 1)'
      BY <2>1, <2>3, <3>1, OpenSteps
    <3>3. QED
      BY <3>1, <3>2 DEF SessionInv
  <2>4. CASE End \/ CloseSession
    <3>1. n > 0
      <4>1. CASE End
        BY <2>1, <4>1, UserCode DEF End
      <4>2. CASE CloseSession
        BY <2>1, <4>2, InBlock DEF CloseSession, InsideLibrary
      <4>3. QED
        BY <2>4, <4>1, <4>2
    <3>2. n - 1 \in Nat /\ n = (n - 1) + 1
      BY <3>1
    <3>3. Inv(n - 1, d)' \/ Inv(n - 1, 0)'
      BY <2>1, <2>4, <3>2, EndStep, CloseSessionStep
    <3>4. QED
      BY <3>2, <3>3 DEF SessionInv
  <2>5. CASE ThreadExit
    <3>1. Inv(0, 0)'
      BY <2>1, <2>5, ThreadExitStep
    <3>2. QED
      BY <3>1 DEF SessionInv
  <2>6. CASE GetMessage
    BY <2>1, <2>2, <2>6, GetMessageStep
  <2>7. CASE StoreContext \/ EndLast \/ Invalidate
    BY <2>1, <2>2, <2>7, LibrarySteps
  <2>8. CASE \/ \E s \in Signals : Crash(s)
             \/ StackOverflow
             \/ \E s \in AsyncSignals : Receive(s)
             \/ \E s \in UnwinderFaults : ExtractFaults(s)
             \/ Chain
    BY <2>1, <2>2, <2>8, SignalSteps
  <2>9. CASE \/ CopyContext \/ Unblock \/ StoreUnwindContext \/ Guard
             \/ Extract \/ Unguard \/ Remask \/ NoJump
    BY <2>1, <2>2, <2>9, HandlerSteps
  <2>10. CASE GetStruct \/ BackOut
    BY <2>1, <2>2, <2>10, GetStructStep, BackOutStep
  <2>11. CASE UseUp \/ Collapse \/ Disarm
    BY <2>1, <2>2, <2>11, JumpSteps
  <2>12. CASE Leap
    <3>1. Inv(n, d)' \/ Inv(d, d)'
      BY <2>1, <2>12, LeapStep
    <3>2. QED
      BY <3>1 DEF SessionInv
  <2>13. CASE HostTakes
    BY <2>1, <2>2, <2>13, HostTakesStep
  <2>14. CASE Killed \/ UNCHANGED vars
    <3>1. UNCHANGED <<stack, t, mask, altStack, buffers, message>>
          /\ dead' \in BOOLEAN
      BY <2>1, <2>14 DEF Killed, vars, Inv, TypeOK
    <3>2. QED
      BY <2>1, <2>2, <3>1, Unmoved
  <2>15. QED
    BY <2>3, <2>4, <2>5, <2>6, <2>7, <2>8, <2>9, <2>10, <2>11, <2>12, <2>13,
       <2>14
       DEF Next, BlockStep, LibraryStep, HandlerStep
<1>3. QED
  BY <1>1, <1>2, PTL DEF Spec

(* Every variable keeps its type: no more blocks are counted than may be    *)
(* open, and what a jump buffer stands for is an activation.                *)
THEOREM TypeCorrect == Spec => []TypeOK
<1>1. SessionInv => TypeOK
  BY DEF SessionInv, Inv
<1>2. QED
  BY <1>1, SessionInvariant, PTL

(* The handlers are the activations above the blocks.                       *)
LEMMA OnTop ==
    ASSUME NEW n \in Nat, NEW d \in Nat, Inv(n, d)
    PROVE  Handlers = n + 1 .. Depth
<1>1. n <= Depth /\ Depth \in Nat
  BY DEF Inv, ShapeInv, Depth, TypeOK
<1>2. \A k \in 1 .. Depth : k \in 1 .. n \/ k \in n + 1 .. Depth
  BY <1>1
<1>3. \A k \in n + 1 .. Depth : k \in 1 .. Depth
  BY <1>1
<1>4. /\ \A k \in 1 .. n : stack[k].kind = "block"
      /\ \A k \in n + 1 .. Depth : stack[k].kind = "handler"
  BY DEF Inv, ShapeInv
<1>5. QED
  BY <1>2, <1>3, <1>4 DEF Handlers

(* The depth is the number of open blocks of the session, through every     *)
(* recovery.                                                                *)
THEOREM DepthCorrect == Spec => []DepthBalanced
<1>1. SessionInv => DepthBalanced
  <2> SUFFICES ASSUME NEW n \in Nat, NEW d \in Nat, Inv(n, d)
               PROVE  DepthBalanced
    BY DEF SessionInv
  <2>1. /\ BlockDepth = n
        /\ SessionBlocks = IF d = 0 THEN {} ELSE {d}
    BY Blocked
  <2>2. d = 0 <=> t = NoStruct
    BY DEF Inv, ShapeInv
  <2>3. Collapsed <=> Shrunk(n)
    <3>1. Handlers = n + 1 .. Depth
      BY OnTop
    <3>2. QED
      BY <3>1 DEF Collapsed, Shrunk, Jumps, JumpParts
  <2>4. QED
    BY <2>1, <2>2, <2>3 DEF DepthBalanced, Inv, DepthInv
<1>2. QED
  BY <1>1, SessionInvariant, PTL

(* A handler that jumps back to the program finds the session's own block.  *)
THEOREM RecoveryCorrect == Spec => []RecoveryTargetLive
<1>1. SessionInv => RecoveryTargetLive
  <2> SUFFICES ASSUME NEW n \in Nat, NEW d \in Nat, Inv(n, d),
                      t # NoStruct, t.ctxIsSet \/ Jumping # {}
               PROVE  RecoveryTargetLive
    BY DEF SessionInv, RecoveryTargetLive
  <2>1. d # 0 /\ d \in SessionBlocks
    BY Blocked DEF Inv, ShapeInv
  <2>2. Jumping = Jumps(n)
    BY OnTop DEF Jumping, Jumps
  <2>3. QED
    BY <2>1, <2>2 DEF Inv, ContextInv, RecoveryTargetLive
<1>2. QED
  BY <1>1, SessionInvariant, PTL

(* A handler that backs out finds the handler that guards its unwinder.     *)
THEOREM GuardCorrect == Spec => []GuardTargetLive
<1>1. SessionInv => GuardTargetLive
  <2> SUFFICES ASSUME NEW n \in Nat, NEW d \in Nat, Inv(n, d),
                      t # NoStruct, t.unwindGuarded
               PROVE  GuardTargetLive
    BY DEF SessionInv, GuardTargetLive
  <2>1. d # 0
    BY DEF Inv, ShapeInv
  <2>2. /\ t.unwindCtx \in Contexts
        /\ t.unwindCtx.depth \in n + 1 .. Depth
        /\ stack[t.unwindCtx.depth].at \in {"extract", "unwound"}
    BY <2>1 DEF Inv, GuardInv
  <2>3. t.unwindCtx # NoContext
    BY <2>2, NullAssumption
  <2>4. /\ stack[t.unwindCtx.depth].kind = "handler"
        /\ t.unwindCtx.depth \in 1 .. Depth
    BY <2>2 DEF Inv, ShapeInv, Depth
  <2>5. QED
    BY <2>2, <2>3, <2>4 DEF GuardTargetLive, Handlers
<1>2. QED
  BY <1>1, SessionInvariant, PTL

(* The program never runs with a handled signal blocked.                    *)
THEOREM MaskCorrect == Spec => []MaskRestored
<1>1. SessionInv => MaskRestored
  BY UserCode DEF SessionInv, MaskRestored
<1>2. QED
  BY <1>1, SessionInvariant, PTL

(* A step of a handler leaves the thread in a handler.                      *)
LEMMA StillInHandler ==
    ASSUME NEW n \in Nat, NEW d \in Nat, Inv(n, d),
           NEW m \in Nat, m > n, NEW part, Moved(m, part)
    PROVE  ~InUserCode'
<1>1. /\ m \in 1 .. m /\ m \in n + 1 .. Depth /\ Depth' = m
      /\ stack'[m].kind = stack[m].kind /\ stack' \in Seq(Activations)
  BY DEF Moved
<1>2. stack'[m].kind = "handler"
  BY <1>1 DEF Inv, ShapeInv
<1>3. stack' # <<>>
  BY <1>1, EmptySeq DEF Depth
<1>4. QED
  BY <1>1, <1>2, <1>3 DEF InUserCode, Top

(* The library takes no program back with a message a handler has           *)
(* overwritten: a handler that jumps has found a context, and where there   *)
(* is one no message has been formatted.  Only the host's handler may.      *)
THEOREM MessageCorrect == Spec => MessageKept
<1> DEFINE Kept == ~InUserCode /\ InUserCode' /\ message' = "overwritten" =>
                       HostTakes
<1>1. SessionInv /\ [Next]_vars => Kept
  <2> SUFFICES ASSUME NEW n \in Nat, NEW d \in Nat, Inv(n, d), [Next]_vars,
                      ~InUserCode, InUserCode', message' = "overwritten"
               PROVE  HostTakes
    BY DEF SessionInv
  <2>0. stack \in Seq(Activations) /\ Depth \in Nat
    BY DEF Inv, TypeOK, Depth
  <2>1. ~BlockStep
    BY DEF BlockStep, Reenter, Setup, SetupFails, End, EndLast, ThreadExit,
           GetMessage, Crash, StackOverflow
  <2>2. CASE StoreContext
    <3>1. stack[d].at = "try" /\ d # 0
      BY <2>2, InBlock DEF StoreContext, InsideLibrary
    <3>2. message = "none"
      BY <3>1 DEF Inv, MessageInv
    <3>3. QED
      BY <2>2, <3>2 DEF StoreContext
  <2>3. CASE Invalidate
    <3>1. stack # <<>> /\ n = d /\ Depth = n
      BY <2>3, InBlock DEF Invalidate, InsideLibrary
    <3>2. Moved(Depth, "closing")
      BY <2>0, <2>3, <3>1, Went DEF Invalidate, BlockParts, InsideLibrary
    <3>3. stack'[Depth'].at = "closing" /\ stack' # <<>>
      BY <2>0, <3>2, EmptySeq DEF Moved, Depth
    <3>4. QED
      BY <3>3 DEF InUserCode, Top, InsideLibrary
  <2>4. CASE CloseSession
    BY <2>4 DEF CloseSession, FreeStruct
  <2>5. CASE \/ GetStruct \/ CopyContext \/ Unblock \/ StoreUnwindContext
             \/ Guard \/ Extract \/ Unguard \/ Remask
             \/ NoJump \/ UseUp \/ Collapse \/ Disarm
    <3>1. \E part \in HandlerParts : At("handler", part)
      BY <2>5 DEF GetStruct, CopyContext, Unblock, StoreUnwindContext, Guard,
                  Extract, Unguard, Remask, NoJump, UseUp, Collapse, Disarm,
                  HandlerParts, JumpParts
    <3>2. Depth > n /\ stack # <<>>
      BY <3>1, InHandler
    <3>3. \E part : Moved(Depth, part)
      <4>1. CASE Unblock
        <5> DEFINE top == [Top EXCEPT !.at = "setjmp", !.old = mask]
        <5>1. Top \in Activations /\ mask \subseteq Signals
          BY <2>0, <3>2, EmptySeq DEF Top, Depth, Inv, TypeOK
        <5>2. /\ top \in Activations /\ top.at = "setjmp"
              /\ top.kind = stack[Depth].kind /\ top.sig = stack[Depth].sig
          BY <5>1 DEF Activations, Top, HandlerParts
        <5>3. stack' = [stack EXCEPT ![Depth] = top]
          BY <4>1 DEF Unblock, Top
        <5> HIDE DEF top
        <5>4. "setjmp" \in BlockParts \cup HandlerParts
          BY DEF HandlerParts
        <5>5. QED
          BY <2>0, <3>2, <5>2, <5>3, <5>4, Gone
      <4>2. CASE ~Unblock
        <5>1. \E part \in BlockParts \cup HandlerParts : Goto(part)
          BY <2>5, <4>2 DEF GetStruct, CopyContext, StoreUnwindContext, Guard,
                      Extract, Unguard, Remask, NoJump, UseUp, Collapse,
                      Disarm, HandlerParts, JumpParts
        <5>2. QED
          BY <2>0, <3>2, <5>1, Went
      <4>3. QED
        BY <4>1, <4>2
    <3>4. QED
      BY <2>0, <3>2, <3>3, StillInHandler
  <2>6. CASE BackOut
    <3>1. /\ t # NoStruct /\ t.unwindGuarded
          /\ LongJump(t.unwindCtx, "unwound")
      BY <2>6 DEF BackOut
    <3>2. /\ t.unwindCtx \in Contexts
          /\ t.unwindCtx.depth \in n + 1 .. Depth
      BY <3>1 DEF Inv, GuardInv, ShapeInv
    <3>3. /\ t.unwindCtx.depth \in Nat /\ t.unwindCtx.depth > n
          /\ t.unwindCtx.depth \in 1 .. Depth
      BY <2>0, <3>2
    <3>4. Moved(t.unwindCtx.depth, "unwound")
      BY <2>0, <3>1, <3>2, <3>3, Cut DEF HandlerParts
    <3>5. QED
      BY <3>3, <3>4, StillInHandler
  <2>7. CASE Leap
    BY <2>7, LeapStep
  <2>8. CASE Chain
    BY <2>8 DEF Chain, InUserCode
  <2>9. ASSUME NEW s \in Signals, NEW blocked, Deliver(stack, s, blocked)
        PROVE  FALSE
    <3>1. Handler(s) \in Activations /\ Handler(s).kind = "handler"
      BY DEF Handler, Activations, HandlerParts
    <3>2. /\ Depth' = Depth + 1 /\ stack'[Depth + 1] = Handler(s)
          /\ stack' \in Seq(Activations)
      BY <2>0, <2>9, <3>1, Pushed DEF Deliver
    <3>3. stack' # <<>>
      BY <2>0, <3>2, EmptySeq DEF Depth
    <3>4. QED
      BY <3>1, <3>2, <3>3 DEF InUserCode, Top
  <2>10. ASSUME NEW s \in UnwinderFaults, ExtractFaults(s) PROVE FALSE
    BY <2>9, <2>10, SignalsAssumption DEF ExtractFaults, InUserCode
  <2>11. ASSUME NEW s \in AsyncSignals, Receive(s) PROVE FALSE
    BY <2>9, <2>11, SignalsAssumption DEF Receive
  <2>12. CASE UNCHANGED vars \/ Killed
    BY <2>12 DEF Killed, vars, InUserCode, Top, Depth
  <2>13. QED
    BY <2>1, <2>2, <2>3, <2>4, <2>5, <2>6, <2>7, <2>8, <2>10, <2>11, <2>12
       DEF Next, LibraryStep, HandlerStep
<1>2. QED
  BY <1>1, SessionInvariant, PTL DEF Spec, MessageKept

(* The kernel never uses an alternate stack that has been freed, whatever   *)
(* is refused.                                                              *)
THEOREM AltStackCorrect == Spec => []AltStackLive
<1>1. SessionInv => AltStackLive
  BY DEF SessionInv, Inv, StacksInv, AltStackLive
<1>2. QED
  BY <1>1, SessionInvariant, PTL

(* After a session the thread has its own alternate stack back.             *)
THEOREM AltStackGivenBack == Spec => []AltStackRestored
<1>1. SessionInv => AltStackRestored
  BY DEF SessionInv, Inv, StacksInv, AltStackRestored
<1>2. QED
  BY <1>1, SessionInvariant, PTL

=============================================================================
