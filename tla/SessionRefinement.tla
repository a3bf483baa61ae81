-------------------------- MODULE SessionRefinement --------------------------
(***************************************************************************)
(* Session implements ProtectedBlocks, the safety of it, for every nesting *)
(* of blocks: every step of the thread is a step that ProtectedBlocks      *)
(* allows, or one that nobody outside the library can see.                 *)
(***************************************************************************)
EXTENDS SessionProofs

(***************************************************************************)
(* What the refinement adds to the invariant.                              *)
(***************************************************************************)
(* The handler on top, of any depth of them, has copied the signal that is  *)
(* being dealt with once it is past copying; in the unwinder it has the     *)
(* guard armed and the unwinder's faults unblocked; and it gives up only    *)
(* with the context invalid.                                                *)
HandlerInv(n, d) ==
    /\ \A k \in n + 1 .. Depth : stack[k].sig \in Signals
    /\ Depth > n =>
           /\ stack[Depth].at = "extract" => t.unwindGuarded
           /\ stack[Depth].at \in {"setjmp", "guard", "extract"} =>
                  SIGSEGV \notin mask /\ SIGBUS \notin mask
           /\ /\ d # 0
              /\ t.unwindGuarded \/ stack[Depth].at \notin {"get", "copy"}
              => t.code = stack[Acting].sig
           /\ d # 0 /\ stack[Depth].at = "chain" => ~t.ctxIsSet

(* The session has its alternate stack, unless that may be refused, and     *)
(* what leads to a body and the body itself an armed context, until one     *)
(* handler uses it up.                                                      *)
ArmedInv(n, d) ==
    d # 0 => /\ MayFail("silent") \/ (t.installed /\ altStack = t.buffer)
             /\ stack[d].at \in {"try", "body"} =>
                    t.ctxIsSet \/ Jumps(n) # {}

PromiseInv(n, d) == Inv(n, d) /\ HandlerInv(n, d) /\ ArmedInv(n, d)

(***************************************************************************)
(* What is seen of it.                                                     *)
(***************************************************************************)
Reported == IF InCatch /\ Handlers = {} THEN GetSignal ELSE NoSignal

(* A block inside COFFEE_TRY() is not seen yet, and one inside COFFEE_END() *)
(* until its context is invalid.                                            *)
SeenParts == BlockParts \cup {"leaving", "lost"}
Open(d) == stack[d].at = "ending" /\ (t.ctxIsSet \/ Jumping # {})
Seen(n) ==
    IF n > 0 /\ stack[n].at \in InsideLibrary /\ ~Open(n) THEN n - 1 ELSE n

View(n, d) ==
    /\ Jumping = Jumps(n)
    /\ Depth = n => Jumps(n) = {} /\ Way = "body"
    /\ Visible \in Seq(SeenParts)
    /\ Len(Visible) = Seen(n)
    /\ \A k \in 1 .. Seen(n) : Visible[k] = ShownAs(k)
    /\ Crashing = IF Depth = n THEN NoSignal ELSE stack[Acting].sig
    /\ Reported = IF Depth = n /\ d # 0 /\ stack[d].at = "catch"
                  THEN t.code ELSE NoSignal

LEMMA Viewed ==
    ASSUME NEW n \in Nat, NEW d \in Nat
    PROVE  Inv(n, d) => View(n, d)
<1> SUFFICES ASSUME Inv(n, d) PROVE View(n, d)
  OBVIOUS
<1>1. /\ BlockDepth = n
      /\ SessionBlocks = IF d = 0 THEN {} ELSE {d}
  BY Blocked
<1>2. n <= Depth /\ Depth \in Nat /\ d \in 0 .. n
  BY DEF Inv, ShapeInv, Depth, TypeOK
<1>3. /\ \A k \in 1 .. n : stack[k].kind = "block"
      /\ \A k \in n + 1 .. Depth : stack[k].kind = "handler"
  BY DEF Inv, ShapeInv
<1>4. \A k \in 1 .. n : ShownAs(k) \in SeenParts
  <2>1. ASSUME NEW k \in 1 .. n PROVE stack[k].at \in BlockParts
    <3>1. k < d \/ k = d \/ k > d
      BY <1>2
    <3>2. QED
      BY <1>2, <3>1 DEF Inv, ShapeInv, SessionParts, BlockParts
  <2>2. QED
    BY <2>1 DEF ShownAs, Way, BlockParts, SeenParts
<1>a. /\ Jumping = Jumps(n)
      /\ Depth = n => Jumps(n) = {} /\ Way = "body"
  BY OnTop, NoJumps DEF Jumping, Jumps, Way
<1>5. Handlers = {} <=> Depth = n
  <2>1. CASE Depth = n
    BY <1>3, <2>1 DEF Handlers
  <2>2. CASE Depth # n
    <3>1. n + 1 \in 1 .. Depth /\ n + 1 \in n + 1 .. Depth
      BY <1>2, <2>2
    <3>2. n + 1 \in Handlers
      BY <1>3, <3>1 DEF Handlers
    <3>3. QED
      BY <2>2, <3>2
  <2>3. QED
    BY <2>1, <2>2
<1>6. /\ Visible \in Seq(SeenParts)
      /\ Len(Visible) = Seen(n)
      /\ \A k \in 1 .. Seen(n) : Visible[k] = ShownAs(k)
  <2>1. Visible = [k \in 1 .. Seen(n) |-> ShownAs(k)]
    BY <1>1 DEF Visible, VisibleDepth, Seen, Open
  <2>2. Seen(n) \in Nat /\ \A k \in 1 .. Seen(n) : k \in 1 .. n
    BY DEF Seen
  <2>3. QED
    BY <1>4, <2>1, <2>2
<1>7. Crashing = IF Depth = n THEN NoSignal ELSE stack[Acting].sig
  BY <1>5 DEF Crashing
<1>8. InCatch <=> d # 0 /\ stack[d].at = "catch"
  BY <1>1 DEF InCatch
<1>9. d # 0 => t # NoStruct
  BY DEF Inv, ShapeInv
<1>10. QED
  BY <1>5, <1>6, <1>7, <1>8, <1>9, <1>a DEF View, Reported, GetSignal

(* Only the session's own block is ever seen as anything but what it is.    *)
LEMMA OthersShown ==
    ASSUME NEW n \in Nat, NEW d \in Nat, Inv(n, d),
           NEW k \in 1 .. n, k # d
    PROVE  stack[k].at \in {"failed", "nested"} /\ ShownAs(k) = stack[k].at
<1>1. k < d \/ d = 0 \/ k > d
  OBVIOUS
<1>2. stack[k].at \in {"failed", "nested"}
  BY <1>1 DEF Inv, ShapeInv
<1>3. QED
  BY <1>2 DEF ShownAs

(* Before and after a step.                                                 *)
LEMMA ViewedNext ==
    ASSUME NEW n \in Nat, NEW d \in Nat
    PROVE  Inv(n, d)' => View(n, d)'
BY Viewed, PTL

(* The same blocks are seen, ...                                            *)
LEMMA SameSeen ==
    ASSUME NEW n \in Nat, NEW d \in Nat, View(n, d),
           NEW m \in Nat, NEW e \in Nat, View(m, e)',
           Seen(m)' = Seen(n),
           \A k \in 1 .. Seen(n) : ShownAs(k)' = ShownAs(k)
    PROVE  Visible' = Visible
BY SeqEqual DEF View

(* ... or only the outer ones, ...                                          *)
LEMMA OuterSeen ==
    ASSUME NEW n \in Nat, NEW d \in Nat, View(n, d),
           NEW m \in Nat, NEW e \in Nat, View(m, e)',
           NEW c \in Nat, c <= Seen(n), Seen(m)' = c,
           \A k \in 1 .. c : ShownAs(k)' = ShownAs(k)
    PROVE  Visible' = SubSeq(Visible, 1, c)
<1>1. \A k \in 1 .. c : k \in 1 .. Seen(n) /\ Visible[k] \in SeenParts
  <2>1. Seen(n) \in Nat
    BY DEF Seen
  <2>2. \A k \in 1 .. c : k \in 1 .. Seen(n)
    BY <2>1
  <2>3. QED
    BY <2>2 DEF View
<1>2. /\ SubSeq(Visible, 1, c) \in Seq(SeenParts)
      /\ Len(SubSeq(Visible, 1, c)) = c
      /\ \A k \in 1 .. c : SubSeq(Visible, 1, c)[k] = Visible[k]
  <2>1. Visible \in Seq(SeenParts) /\ Len(Visible) = Seen(n)
    BY DEF View
  <2>2. QED
    BY <1>1, <2>1, SubSeqProperties
<1>3. \A k \in 1 .. c : Visible[k] = ShownAs(k)
  BY <1>1 DEF View
<1>4. QED
  BY <1>2, <1>3, SeqEqual DEF View

(* ... or the outer ones and another.                                       *)
LEMMA OuterSeenAndOne ==
    ASSUME NEW n \in Nat, NEW d \in Nat, View(n, d),
           NEW m \in Nat, NEW e \in Nat, View(m, e)',
           NEW c \in Nat, c <= Seen(n), Seen(m)' = c + 1,
           NEW part \in SeenParts, ShownAs(c + 1)' = part,
           \A k \in 1 .. c : ShownAs(k)' = ShownAs(k)
    PROVE  Visible' = Append(SubSeq(Visible, 1, c), part)
<1> DEFINE outer == SubSeq(Visible, 1, c)
<1>1. \A k \in 1 .. c : k \in 1 .. Seen(n) /\ Visible[k] \in SeenParts
  <2>1. Seen(n) \in Nat
    BY DEF Seen
  <2>2. \A k \in 1 .. c : k \in 1 .. Seen(n)
    BY <2>1
  <2>3. QED
    BY <2>2 DEF View
<1>2. /\ outer \in Seq(SeenParts) /\ Len(outer) = c
      /\ \A k \in 1 .. c : outer[k] = Visible[k]
  <2>1. Visible \in Seq(SeenParts) /\ Len(Visible) = Seen(n)
    BY DEF View
  <2>2. QED
    BY <1>1, <2>1, SubSeqProperties
<1>3. \A k \in 1 .. c : Visible[k] = ShownAs(k)
  BY <1>1 DEF View
<1> HIDE DEF outer
<1>4. /\ Append(outer, part) \in Seq(SeenParts)
      /\ Len(Append(outer, part)) = c + 1
      /\ \A k \in 1 .. c : Append(outer, part)[k] = outer[k]
      /\ Append(outer, part)[c + 1] = part
  BY <1>2, AppendProperties
<1>5. \A k \in 1 .. c + 1 : k = c + 1 \/ k \in 1 .. c
  OBVIOUS
<1>6. /\ Visible' \in Seq(SeenParts) /\ Len(Visible') = c + 1
      /\ \A k \in 1 .. c + 1 : Visible'[k] = ShownAs(k)'
  BY DEF View
<1>7. \A k \in 1 .. c + 1 : Visible'[k] = Append(outer, part)[k]
  BY <1>2, <1>3, <1>4, <1>5, <1>6
<1>8. Visible' = Append(outer, part)
  BY <1>4, <1>6, <1>7, SeqEqual
<1>9. QED
  BY <1>8 DEF outer

(* Without handlers most of it goes without saying.                         *)
Quiet(n, d) == Inv(n, d) /\ Depth = n /\ ArmedInv(n, d)

LEMMA NoHandlers ==
    ASSUME NEW n \in Nat, NEW d \in Nat
    PROVE  Quiet(n, d) => PromiseInv(n, d)
<1> SUFFICES ASSUME Quiet(n, d) PROVE PromiseInv(n, d)
  OBVIOUS
<1>1. ~(n > n) /\ \A k \in n + 1 .. n : FALSE
  OBVIOUS
<1>2. HandlerInv(n, d)
  BY <1>1 DEF Quiet, HandlerInv
<1>3. QED
  BY <1>2 DEF Quiet, PromiseInv

LEMMA NoHandlersNext ==
    ASSUME NEW n \in Nat, NEW d \in Nat
    PROVE  Quiet(n, d)' => PromiseInv(n, d)'
BY NoHandlers, PTL

(***************************************************************************)
(* The handlers.                                                           *)
(***************************************************************************)
(* The signal being dealt with is that of a handler, ...                    *)
LEMMA ActingHandler ==
    ASSUME NEW n \in Nat, NEW d \in Nat, Inv(n, d), Depth > n
    PROVE  Acting \in n + 1 .. Depth
<1>1. Depth \in Nat /\ Depth \in n + 1 .. Depth
  BY DEF Inv, TypeOK, Depth
<1>2. d = 0 <=> t = NoStruct
  BY DEF Inv, ShapeInv
<1>3. d # 0 /\ t.unwindGuarded => t.unwindCtx.depth \in n + 1 .. Depth
  BY DEF Inv, GuardInv
<1>4. QED
  BY <1>1, <1>2, <1>3 DEF Acting

(* ... and of the one on top, unless that backs out into its unwinder.      *)
LEMMA TopActs ==
    ASSUME NEW n \in Nat, NEW d \in Nat, PromiseInv(n, d),
           NEW part \in HandlerParts, At("handler", part),
           part = "get" => (t # NoStruct => ~t.unwindGuarded)
    PROVE  /\ ~dead /\ Depth \in Nat /\ Depth > n /\ stack # <<>>
           /\ stack[Depth].at = part /\ Acting = Depth
           /\ part \notin {"get", "chain"} => d # 0 /\ t \in Structures
           /\ part \notin {"get", "copy"} /\ d # 0 =>
                  t.code = stack[Depth].sig
           /\ part \notin {"extract", "unwound"} /\ d # 0 =>
                  ~t.unwindGuarded
           /\ d # 0 /\ t.unwindGuarded => t.unwindCtx.depth = Depth
<1>1. /\ Inv(n, d) /\ ~dead
      /\ Depth \in Nat /\ Depth > n /\ stack # <<>> /\ stack[Depth].at = part
      /\ part \notin {"get", "chain"} => d # 0 /\ t \in Structures
      /\ part \notin {"get", "extract", "unwound"} /\ d # 0 =>
             ~t.unwindGuarded
  BY InHandler DEF PromiseInv
<1>2. d = 0 <=> t = NoStruct
  BY <1>1 DEF Inv, ShapeInv
<1>3. ASSUME d # 0, t.unwindGuarded
      PROVE  t.unwindCtx.depth = Depth
  <2>1. /\ t.unwindCtx.depth \in n + 1 .. Depth
        /\ \A k \in t.unwindCtx.depth + 1 .. Depth : stack[k].at = "get"
    BY <1>1, <1>3 DEF Inv, GuardInv
  <2>2. t.unwindCtx.depth = Depth \/ Depth \in t.unwindCtx.depth + 1 .. Depth
    BY <1>1, <2>1
  <2>3. QED
    BY <1>1, <1>2, <1>3, <2>1, <2>2
<1>4. Acting = Depth
  BY <1>2, <1>3 DEF Acting
<1>5. part \notin {"get", "copy"} /\ d # 0 => t.code = stack[Depth].sig
  BY <1>1, <1>4 DEF PromiseInv, HandlerInv
<1>6. QED
  BY <1>1, <1>2, <1>3, <1>4, <1>5

(* The handler of the signal goes on, unseen.                               *)
LEMMA HandlerUnseen ==
    ASSUME NEW n \in Nat, NEW d \in Nat, PromiseInv(n, d),
           NEW m \in Nat, m > n, m = Acting,
           NEW part \in HandlerParts, Moved(m, part), Inv(n, d)',
           IF part \in JumpParts THEN m = Depth /\ stack[m].at \in JumpParts
           ELSE \A k \in m .. Depth : stack[k].at \notin JumpParts,
           d = 0 => t' = t,
           d # 0 => t'.installed = t.installed /\ t'.buffer = t.buffer
                    /\ t'.ctxIsSet = t.ctxIsSet,
           d # 0 /\ t'.unwindGuarded => t'.unwindCtx.depth = m,
           d # 0 /\ (t'.unwindGuarded \/ part \notin {"get", "copy"}) =>
               t'.code = stack[m].sig,
           d # 0 /\ part = "chain" => ~t.ctxIsSet,
           part = "extract" => t'.unwindGuarded,
           part \in {"setjmp", "guard", "extract"} =>
               SIGSEGV \notin mask' /\ SIGBUS \notin mask',
           UNCHANGED <<altStack, dead>>
    PROVE  PromiseInv(n, d)' /\ UNCHANGED Blocks!vars
<1>1. /\ Inv(n, d) /\ Depth \in Nat /\ Depth' = m
      /\ stack'[m].at = part /\ stack'[m].sig = stack[m].sig
      /\ m \in 1 .. Depth
      /\ \A k \in 1 .. m : stack'[k].sig = stack[k].sig
      /\ \A k \in 1 .. m - 1 : stack'[k].at = stack[k].at
  BY DEF PromiseInv, Moved
<1>2. \A k \in 1 .. n : stack'[k].at = stack[k].at
  <2>1. \A k \in 1 .. n : k \in 1 .. m - 1
    OBVIOUS
  <2>2. QED
    BY <1>1, <2>1
<1>3. d \in 0 .. n /\ (d # 0 => d \in 1 .. n) /\ (d = 0 <=> t = NoStruct)
  BY <1>1 DEF Inv, ShapeInv
<1>4. d # 0 => stack'[d].at = stack[d].at
  BY <1>2, <1>3
<1>5. Acting' = m
  <2>1. d = 0 <=> t' = NoStruct
    BY DEF Inv, ShapeInv
  <2>2. QED
    BY <1>1, <2>1 DEF Acting
<1>6. HandlerInv(n, d)'
  <2>1. \A k \in n + 1 .. m : stack'[k].sig \in Signals
    <3>1. \A k \in n + 1 .. m : k \in n + 1 .. Depth /\ k \in 1 .. m
      BY <1>1
    <3>2. QED
      BY <1>1, <3>1 DEF PromiseInv, HandlerInv
  <2>2. d # 0 /\ part = "chain" => ~t'.ctxIsSet
    OBVIOUS
  <2>3. QED
    BY <1>1, <1>5, <2>1, <2>2 DEF HandlerInv
<1>a. Jumps(n)' = Jumps(n) /\ (m \in Jumps(n)' <=> Depth \in Jumps(n))
  <2>1. CASE part \in JumpParts
    <3>1. m = Depth /\ Depth \in Jumps(n) /\ Depth \in Jumps(n)'
      BY <1>1, <2>1 DEF Jumps
    <3>2. Jumps(n) = {Depth} /\ Jumps(n)' = {Depth}
      BY <1>1, <3>1 DEF Inv, ContextInv
    <3>3. QED
      BY <3>1, <3>2
  <2>2. CASE part \notin JumpParts
    <3>1. Jumps(n)' = Jumps(n)
      BY <2>2, SameJumps
    <3>2. m \notin Jumps(n)'
      BY <1>1, <2>2 DEF Jumps
    <3>3. Depth \notin Jumps(n)
      BY <1>1, <2>2 DEF Jumps
    <3>4. QED
      BY <3>1, <3>2, <3>3
  <2>3. QED
    BY <2>1, <2>2
<1>7. ArmedInv(n, d)'
  BY <1>4, <1>a DEF PromiseInv, ArmedInv, MayFail
<1>8. View(n, d) /\ View(n, d)'
  BY <1>1, Viewed, ViewedNext
<1>b. Way' = Way /\ (Jumping' = {} <=> Jumping = {})
  BY <1>1, <1>8, <1>a DEF View, Way
<1>9. \A k \in 1 .. n : ShownAs(k)' = ShownAs(k)
  BY <1>2, <1>b DEF ShownAs
<1>10. Seen(n)' = Seen(n) /\ Seen(n) \in 0 .. n
  <2>1. n > 0 => n \in 1 .. n
    OBVIOUS
  <2>2. n > 0 => (Open(n)' <=> Open(n))
    <3>1. n > 0 /\ stack[n].at = "ending" => d # 0
      BY <1>1, <2>1 DEF Inv, ShapeInv
    <3>2. QED
      BY <1>2, <1>b, <2>1, <3>1 DEF Open
  <2>3. QED
    BY <1>2, <2>1, <2>2 DEF Seen
<1>11. Visible' = Visible
  <2>1. \A k \in 1 .. Seen(n) : k \in 1 .. n
    BY <1>10
  <2>2. QED
    BY <1>8, <1>9, <1>10, <2>1, SameSeen
<1>12. Crashing' = Crashing
  BY <1>1, <1>5, <1>8 DEF View
<1>13. Reported' = Reported
  BY <1>1, <1>8 DEF View
<1>14. QED
  BY <1>6, <1>7, <1>11, <1>12, <1>13 DEF PromiseInv, Blocks!vars, Reported

LEMMA HandlersUnseen ==
    ASSUME NEW n \in Nat, NEW d \in Nat, PromiseInv(n, d),
           \/ GetStruct \/ BackOut
           \/ CopyContext \/ Unblock \/ StoreUnwindContext \/ Guard
           \/ Extract \/ Unguard \/ Remask \/ NoJump
    PROVE  PromiseInv(n, d)' /\ UNCHANGED Blocks!vars
<1>0. /\ stack \in Seq(Activations)
      /\ Inv(n, d) /\ Depth \in Nat
      /\ d = 0 <=> t = NoStruct
  BY DEF PromiseInv, Inv, TypeOK, ShapeInv, Depth
<1>a. stack # <<>> => Top \in Activations
  BY <1>0, EmptySeq DEF Top, Depth
<1>b. Depth > n /\ stack[Depth].at \in {"setjmp", "guard"} =>
          SIGSEGV \notin mask /\ SIGBUS \notin mask
  BY DEF PromiseInv, HandlerInv
<1>c. \A k \in Depth .. Depth : k = Depth
  BY <1>0
<1> USE DEF HandlerParts, JumpParts
<1>1. CASE GetStruct
  <2>1. Inv(n, d)'
    BY <1>0, <1>1, GetStructStep
  <2>2. /\ Depth > n /\ stack # <<>> /\ Acting = Depth
        /\ stack[Depth].at = "get"
        /\ d # 0 => ~t.unwindGuarded
    BY <1>1, TopActs DEF GetStruct
  <2>3. d # 0 => SameSession /\ t' = t
    BY <1>0, <1>1 DEF GetStruct, SameSession, Inv, TypeOK
  <2>4. CASE d = 0
    <3>1. Moved(Depth, "chain")
      BY <1>0, <1>1, <2>2, <2>4, Went DEF GetStruct
    <3>2. QED
      BY <1>0, <1>1, <1>c, <2>1, <2>2, <2>4, <3>1, HandlerUnseen
         DEF GetStruct
  <2>5. CASE d # 0
    <3>1. Moved(Depth, "copy")
      BY <1>0, <1>1, <2>2, <2>5, Went DEF GetStruct
    <3>2. QED
      BY <1>0, <1>1, <1>c, <2>1, <2>2, <2>3, <2>5, <3>1, HandlerUnseen
         DEF GetStruct, SameSession
  <2>6. QED
    BY <2>4, <2>5
<1>2. CASE BackOut
  <2>1. Inv(n, d)'
    BY <1>0, <1>2, BackOutStep
  <2>2. /\ At("handler", "get") /\ t # NoStruct /\ t.unwindGuarded
        /\ LongJump(t.unwindCtx, "unwound")
        /\ UNCHANGED <<t, altStack, dead>>
    BY <1>2 DEF BackOut
  <2>3. /\ d # 0 /\ t \in Structures /\ SameSession /\ t' = t
        /\ Depth > n
    BY <1>0, <2>2, InHandler DEF Inv, TypeOK, SameSession
  <2>4. /\ t.unwindCtx \in Contexts
        /\ t.unwindCtx.depth \in n + 1 .. Depth
        /\ Acting = t.unwindCtx.depth
    BY <1>0, <2>2, <2>3 DEF Inv, GuardInv, Acting
  <2>5. Acting \in Nat /\ Acting > n /\ Acting \in 1 .. Depth
    BY <1>0, <2>4
  <2>6. Moved(Acting, "unwound")
    BY <1>0, <2>2, <2>4, <2>5, Cut
  <2>7. t'.code = stack[Acting].sig
    BY <2>2, <2>3 DEF PromiseInv, HandlerInv
  <2>8. \A k \in Acting .. Depth : stack[k].at \notin JumpParts
    <3>1. /\ stack[Acting].at \in {"extract", "unwound"}
          /\ \A k \in Acting + 1 .. Depth : stack[k].at = "get"
      BY <1>0, <2>2, <2>3, <2>4 DEF Inv, GuardInv
    <3>2. \A k \in Acting .. Depth : k = Acting \/ k \in Acting + 1 .. Depth
      BY <1>0, <2>5
    <3>3. QED
      BY <3>1, <3>2
  <2>9. QED
    BY <1>0, <2>1, <2>2, <2>3, <2>4, <2>5, <2>6, <2>7, <2>8, HandlerUnseen
       DEF SameSession
<1>3. CASE CopyContext
  <2>1. /\ d # 0 /\ t \in Structures
        /\ Depth > n /\ stack # <<>> /\ Acting = Depth
        /\ stack[Depth].at = "copy"
        /\ ~t.unwindGuarded
    BY <1>3, TopActs DEF CopyContext
  <2>2. Top.sig \in Signals \cup {NoSignal}
    BY <2>1, <1>a DEF Activations
  <2>3. /\ SameSession /\ t'.code = stack[Depth].sig
        /\ ~t'.unwindGuarded
    BY <1>3, <2>1, <2>2 DEF CopyContext, Structures, SameSession, Top
  <2>4. Moved(Depth, "unblock")
    BY <1>0, <1>3, <2>1, Went DEF CopyContext
  <2>5. Inv(n, d)'
    BY <1>0, <1>3, HandlerSteps
  <2>6. QED
    BY <1>0, <1>c, <1>3, <2>1, <2>3, <2>4, <2>5, HandlerUnseen
       DEF CopyContext, SameSession
<1>4. CASE Unblock
  <2>1. /\ d # 0 /\ t \in Structures
        /\ Depth > n /\ stack # <<>> /\ Acting = Depth
        /\ stack[Depth].at = "unblock"
        /\ t.code = stack[Depth].sig /\ ~t.unwindGuarded
    BY <1>4, TopActs DEF Unblock
  <2> DEFINE top == [Top EXCEPT !.at = "setjmp", !.old = mask]
  <2>2. /\ top \in Activations /\ top.at = "setjmp"
        /\ top.kind = stack[Depth].kind /\ top.sig = stack[Depth].sig
    BY <1>0, <1>a, <2>1 DEF Activations, Top, Inv, TypeOK
  <2>3. stack' = [stack EXCEPT ![Depth] = top]
    BY <1>4 DEF Unblock, Top
  <2>4. Moved(Depth, "setjmp")
    <3> HIDE DEF top
    <3>1. QED
      BY <1>0, <2>1, <2>2, <2>3, Gone
  <2>5. /\ SameSession /\ t'.code = stack[Depth].sig
        /\ ~t'.unwindGuarded
    BY <1>4, <2>1 DEF Unblock, SameSession
  <2>6. Inv(n, d)'
    BY <1>0, <1>4, HandlerSteps
  <2>7. SIGSEGV \notin mask' /\ SIGBUS \notin mask'
        /\ UNCHANGED <<altStack, dead>>
    BY <1>4 DEF Unblock
  <2> HIDE DEF top
  <2>8. QED
    BY <1>0, <1>c, <2>1, <2>4, <2>5, <2>6, <2>7, HandlerUnseen
       DEF SameSession
<1>5. CASE StoreUnwindContext
  <2>1. /\ d # 0 /\ t \in Structures
        /\ Depth > n /\ stack # <<>> /\ Acting = Depth
        /\ t.code = stack[Depth].sig /\ stack[Depth].at = "setjmp"
        /\ ~t.unwindGuarded
    BY <1>5, TopActs DEF StoreUnwindContext
  <2>2. Context \in Contexts
    BY <1>0, <2>1 DEF Context, Contexts, Inv, TypeOK
  <2>3. /\ SameSession /\ t'.code = stack[Depth].sig
        /\ ~t'.unwindGuarded
    BY <1>5, <2>1, <2>2 DEF StoreUnwindContext, Structures, SameSession
  <2>4. Moved(Depth, "guard")
    BY <1>0, <1>5, <2>1, Went DEF StoreUnwindContext
  <2>5. Inv(n, d)'
    BY <1>0, <1>5, HandlerSteps
  <2>6. QED
    BY <1>0, <1>c, <1>5, <1>b, <2>1, <2>3, <2>4, <2>5, HandlerUnseen
       DEF StoreUnwindContext, SameSession
<1>6. CASE Guard
  <2>1. /\ d # 0 /\ t \in Structures
        /\ Depth > n /\ stack # <<>> /\ Acting = Depth
        /\ t.code = stack[Depth].sig /\ stack[Depth].at = "guard"
    BY <1>6, TopActs DEF Guard
  <2>2. /\ SameSession /\ t'.code = stack[Depth].sig /\ t'.unwindGuarded
        /\ t'.unwindCtx = t.unwindCtx
    BY <1>6, <2>1 DEF Guard, Structures, SameSession
  <2>3. t.unwindCtx.depth = Depth
    BY <1>0, <2>1 DEF Inv, GuardInv
  <2>4. Moved(Depth, "extract")
    BY <1>0, <1>6, <2>1, Went DEF Guard
  <2>5. Inv(n, d)'
    BY <1>0, <1>6, HandlerSteps
  <2>6. QED
    BY <1>0, <1>c, <1>6, <1>b, <2>1, <2>2, <2>3, <2>4, <2>5, HandlerUnseen
       DEF Guard, SameSession
<1>7. CASE Extract
  <2>1. /\ d # 0 /\ t \in Structures
        /\ Depth > n /\ stack # <<>> /\ Acting = Depth
        /\ stack[Depth].at = "extract"
        /\ t.code = stack[Depth].sig
        /\ t.unwindGuarded => t.unwindCtx.depth = Depth
    BY <1>7, TopActs DEF Extract
  <2>2. SameSession /\ t' = t
    BY <1>7, <2>1 DEF Extract, SameSession
  <2>3. Moved(Depth, "unwound")
    BY <1>0, <1>7, <2>1, Went DEF Extract
  <2>4. Inv(n, d)'
    BY <1>0, <1>7, HandlerSteps
  <2>5. QED
    BY <1>0, <1>c, <1>7, <2>1, <2>2, <2>3, <2>4, HandlerUnseen
       DEF Extract, SameSession
<1>8. CASE Unguard
  <2>1. /\ d # 0 /\ t \in Structures
        /\ Depth > n /\ stack # <<>> /\ Acting = Depth
        /\ stack[Depth].at = "unwound"
        /\ t.code = stack[Depth].sig
    BY <1>8, TopActs DEF Unguard
  <2>2. /\ SameSession /\ t'.code = stack[Depth].sig
        /\ ~t'.unwindGuarded
    BY <1>8, <2>1 DEF Unguard, Structures, SameSession
  <2>3. Moved(Depth, "remask")
    BY <1>0, <1>8, <2>1, Went DEF Unguard
  <2>4. Inv(n, d)'
    BY <1>0, <1>8, HandlerSteps
  <2>5. QED
    BY <1>0, <1>c, <1>8, <2>1, <2>2, <2>3, <2>4, HandlerUnseen
       DEF Unguard, SameSession
<1>9. CASE Remask
  <2>1. /\ d # 0 /\ t \in Structures
        /\ Depth > n /\ stack # <<>> /\ Acting = Depth
        /\ stack[Depth].at = "remask"
        /\ t.code = stack[Depth].sig /\ ~t.unwindGuarded
    BY <1>9, TopActs DEF Remask
  <2>2. /\ SameSession /\ t'.code = stack[Depth].sig
        /\ ~t'.unwindGuarded
    BY <1>9, <2>1 DEF Remask, SameSession
  <2>3. Moved(Depth, "jump")
    BY <1>0, <1>9, <2>1, Went DEF Remask
  <2>4. Inv(n, d)'
    BY <1>0, <1>9, HandlerSteps
  <2>5. QED
    BY <1>0, <1>c, <1>9, <2>1, <2>2, <2>3, <2>4, HandlerUnseen
       DEF Remask, SameSession
<1>10. CASE NoJump
  <2>1. /\ d # 0 /\ t \in Structures
        /\ Depth > n /\ stack # <<>> /\ Acting = Depth
        /\ stack[Depth].at = "jump"
        /\ t.code = stack[Depth].sig /\ ~t.unwindGuarded
    BY <1>10, TopActs DEF NoJump
  <2>2. /\ SameSession /\ t'.code = stack[Depth].sig
        /\ ~t'.unwindGuarded
    BY <1>10, <2>1 DEF NoJump, SameSession
  <2>3. Moved(Depth, "chain")
    BY <1>0, <1>10, <2>1, Went DEF NoJump
  <2>4. Inv(n, d)'
    BY <1>0, <1>10, HandlerSteps
  <2>5. QED
    BY <1>0, <1>c, <1>10, <2>1, <2>2, <2>3, <2>4, HandlerUnseen
       DEF NoJump, SameSession
<1>11. QED
  BY <1>1, <1>2, <1>3, <1>4, <1>5, <1>6, <1>7, <1>8, <1>9, <1>10

(* What protects is the session's own block, while its context is valid or  *)
(* the handler on top is on its way there.                                  *)
LEMMA Protects ==
    ASSUME NEW n \in Nat, NEW d \in Nat, Inv(n, d), ArmedInv(n, d),
           Blocks!Protected
    PROVE  /\ d # 0 /\ stack[d].at \in {"body", "ending"}
           /\ t.ctxIsSet \/ Depth \in Jumps(n)
<1>1. PICK b \in 1 .. Len(Visible) : Visible[b] \in {"body", "leaving"}
  BY DEF Blocks!Protected, Blocks!Is
<1>2. View(n, d)
  BY Viewed
<1>3. /\ Seen(n) \in 0 .. n /\ b \in 1 .. Seen(n) /\ b \in 1 .. n
      /\ ShownAs(b) \in {"body", "leaving"}
  <2>1. Seen(n) \in 0 .. n
    BY DEF Seen
  <2>2. QED
    BY <1>1, <1>2, <2>1 DEF View
<1>4. b = d /\ d # 0
  BY <1>3, OthersShown
<1>5. stack[d].at \in {"body", "ending"} /\ Way # "lost"
  <2>1. stack[d].at \in {"body", "ending"}
    BY <1>3, <1>4 DEF ShownAs, Inv, ShapeInv, SessionParts, InsideLibrary
  <2>2. QED
    BY <1>3, <1>4, <2>1 DEF ShownAs
<1>6. Jumps(n) # {} => Depth \in Jumps(n)
  BY <1>2, <1>5 DEF Way, View
<1>7. t.ctxIsSet \/ Jumps(n) # {}
  <2>1. CASE stack[d].at = "body"
    BY <1>4, <2>1 DEF ArmedInv
  <2>2. CASE stack[d].at = "ending"
    <3>1. n = d
      BY <1>4, <2>2 DEF Inv, ShapeInv, InsideLibrary
    <3>2. Seen(n) = n /\ n > 0
      BY <1>3, <1>4, <3>1
    <3>3. Open(n)
      BY <2>2, <3>1, <3>2 DEF Seen, InsideLibrary
    <3>4. QED
      BY <1>2, <3>3 DEF Open, View
  <2>3. QED
    BY <1>5, <2>1, <2>2
<1>8. QED
  BY <1>4, <1>5, <1>6, <1>7

(* The end of the process changes nothing else.                             *)
LEMMA Dies ==
    ASSUME NEW n \in Nat, NEW d \in Nat, PromiseInv(n, d), dead' = TRUE,
           UNCHANGED <<stack, t, mask, altStack, buffers, message>>
    PROVE  /\ PromiseInv(n, d)'
           /\ Visible' = Visible /\ Crashing' = Crashing
           /\ Reported' = Reported
<1>1. Inv(n, d)'
  BY Unmoved DEF PromiseInv
<1>2. Depth' = Depth /\ Acting' = Acting
  BY DEF Depth, Acting
<1>3. HandlerInv(n, d)' /\ ArmedInv(n, d)'
  BY <1>2 DEF PromiseInv, HandlerInv, ArmedInv, Jumps, MayFail
<1>a. Jumping' = Jumping /\ Handlers' = Handlers /\ BlockDepth' = BlockDepth
  BY <1>2 DEF Jumping, Handlers, BlockDepth
<1>4. /\ Visible' = Visible /\ Crashing' = Crashing /\ Reported' = Reported
  BY <1>2, <1>a DEF Visible, VisibleDepth, ShownAs, Way, Crashing,
              Reported, InCatch, SessionBlocks, GetSignal
<1>5. QED
  BY <1>1, <1>3, <1>4 DEF PromiseInv

(* A signal that is being dealt with is a signal.                           *)
LEMMA SignalActs ==
    ASSUME NEW n \in Nat, NEW d \in Nat, PromiseInv(n, d), Depth > n
    PROVE  /\ Crashing = stack[Acting].sig /\ Crashing \in Signals
           /\ Crashing # NoSignal /\ Reported = NoSignal
<1>1. Inv(n, d)
  BY DEF PromiseInv
<1>2. View(n, d) /\ Depth # n
  BY <1>1, Viewed
<1>3. stack[Acting].sig \in Signals
  BY <1>1, ActingHandler DEF PromiseInv, HandlerInv
<1>4. QED
  BY <1>2, <1>3, SignalsAssumption DEF View

(* The last resort is for a crash no block protects from.                   *)
LEMMA LastResort ==
    ASSUME NEW n \in Nat, NEW d \in Nat, PromiseInv(n, d),
           At("handler", "chain")
    PROVE  /\ Inv(n, d) /\ ~dead /\ Depth > n /\ Acting = Depth
           /\ d # 0 => t.code = stack[Depth].sig
           /\ ~Blocks!Protected
<1>1. /\ ~dead /\ Depth \in Nat /\ Depth > n /\ stack[Depth].at = "chain"
      /\ Acting = Depth
      /\ d # 0 => t.code = stack[Depth].sig
  BY TopActs DEF HandlerParts
<1>2. Depth \notin Jumps(n)
  BY <1>1 DEF Jumps, JumpParts
<1>3. d # 0 => ~t.ctxIsSet
  BY <1>1 DEF PromiseInv, HandlerInv
<1>4. ~Blocks!Protected
  BY <1>2, <1>3, Protects DEF PromiseInv
<1>5. QED
  BY <1>1, <1>4 DEF PromiseInv

LEMMA ChainDies ==
    ASSUME NEW n \in Nat, NEW d \in Nat, PromiseInv(n, d), Chain
    PROVE  PromiseInv(n, d)' /\ Blocks!Die
<1>1. /\ At("handler", "chain") /\ dead' = TRUE
      /\ UNCHANGED <<stack, t, mask, altStack, buffers, message>>
  BY DEF Chain
<1>2. ~dead /\ Depth > n /\ ~Blocks!Protected
  BY <1>1, LastResort
<1>3. QED
  BY <1>1, <1>2, Dies, SignalActs DEF Blocks!Die, Reported

(* The host's handler takes the thread back to blocks that are seen as they *)
(* were.                                                                    *)
LEMMA HostTakesSeen ==
    ASSUME NEW n \in Nat, NEW d \in Nat, PromiseInv(n, d), HostTakes
    PROVE  PromiseInv(n, d)' /\ Blocks!HostTakes
<1>1. At("handler", "chain") /\ UNCHANGED <<t, altStack, dead>>
  BY DEF HostTakes
<1>2. /\ Inv(n, d) /\ ~dead /\ Depth > n /\ Acting = Depth
      /\ d # 0 => t.code = stack[Depth].sig
      /\ ~Blocks!Protected
  BY <1>1, LastResort
<1>3. /\ Inv(n, d)'
      /\ d # 0 => stack[d].at = "catch"
      /\ Depth' = n
      /\ \A k \in 1 .. n : stack'[k] = stack[k]
  BY <1>2, HostTakesStep
<1>4. d \in 0 .. n /\ (d # 0 => d \in 1 .. n)
  BY <1>2 DEF Inv, ShapeInv
<1>5. ArmedInv(n, d)'
  BY <1>1, <1>3, <1>4 DEF PromiseInv, ArmedInv, MayFail
<1>6. View(n, d) /\ View(n, d)'
  BY <1>2, <1>3, Viewed, ViewedNext
<1>7. \A k \in 1 .. n : /\ stack[k].at \in {"failed", "nested", "catch"}
                       /\ ShownAs(k) = stack[k].at
                       /\ ShownAs(k)' = ShownAs(k)
  <2>1. \A k \in 1 .. n : stack[k].at \in {"failed", "nested", "catch"}
    BY <1>2, <1>3, <1>4, OthersShown
  <2>2. QED
    BY <1>3, <2>1 DEF ShownAs
<1>8. Seen(n) = n /\ Seen(n)' = n
  <2>1. n > 0 => n \in 1 .. n
    OBVIOUS
  <2>2. QED
    BY <1>3, <1>7, <2>1 DEF Seen, InsideLibrary
<1>9. Visible' = Visible
  BY <1>6, <1>7, <1>8, SameSeen
<1>10. /\ Len(Visible) = n
       /\ \A k \in 1 .. n : Visible[k] = stack[k].at
  BY <1>6, <1>7, <1>8 DEF View
<1>11. ~Blocks!Lost
  BY <1>7, <1>10 DEF Blocks!Lost, Blocks!Is
<1>12. Blocks!InCatch <=> d # 0
  <2>1. ASSUME d # 0 PROVE Blocks!InCatch
    BY <1>3, <1>4, <1>10, <2>1 DEF Blocks!InCatch, Blocks!Is
  <2>2. ASSUME d = 0 PROVE ~Blocks!InCatch
    BY <1>2, <1>4, <1>10, <2>2, OthersShown DEF Blocks!InCatch, Blocks!Is
  <2>3. QED
    BY <2>1, <2>2
<1>13. /\ Crashing = stack[Depth].sig /\ Crashing # NoSignal
       /\ Crashing' = NoSignal
       /\ Reported' = IF d # 0 THEN t.code ELSE NoSignal
  <2>1. Crashing = stack[Depth].sig /\ Crashing # NoSignal
    BY <1>2, SignalActs
  <2>2. d # 0 => stack'[d].at = "catch"
    BY <1>3, <1>4
  <2>3. QED
    BY <1>1, <1>3, <1>6, <2>1, <2>2 DEF View
<1>14. Blocks!HostTakes
  BY <1>1, <1>2, <1>9, <1>11, <1>12, <1>13 DEF Blocks!HostTakes, Reported
<1>15. QED
  BY <1>3, <1>5, <1>14, NoHandlersNext DEF Quiet

(* From the moment a handler uses up the context, the session's block is    *)
(* seen as one that is left.                                                *)
LEMMA UseUpDeparts ==
    ASSUME NEW n \in Nat, NEW d \in Nat, PromiseInv(n, d), UseUp
    PROVE  /\ PromiseInv(n, d)'
           /\ Blocks!Depart \/ UNCHANGED Blocks!vars
<1>1. /\ At("handler", "jump") /\ t.ctxIsSet
      /\ t' = [t EXCEPT !.ctxIsSet = FALSE]
      /\ Goto("collapse")
      /\ UNCHANGED <<mask, altStack, buffers, message, dead>>
  BY DEF UseUp
<1>2. /\ d # 0 /\ t \in Structures /\ ~dead /\ Depth \in Nat /\ Depth > n
      /\ stack # <<>> /\ Acting = Depth /\ t.code = stack[Depth].sig
      /\ ~t.unwindGuarded
  BY <1>1, TopActs DEF HandlerParts
<1>3. Inv(n, d) /\ Inv(n, d)' /\ stack \in Seq(Activations)
  BY JumpSteps DEF PromiseInv, Inv, TypeOK
<1>4. Moved(Depth, "collapse")
  BY <1>1, <1>2, <1>3, Went DEF HandlerParts, JumpParts
<1>5. /\ ~t'.unwindGuarded /\ t'.code = t.code
      /\ t'.installed = t.installed /\ t'.buffer = t.buffer
  BY <1>1, <1>2 DEF Structures
<1>6. /\ Depth' = Depth /\ stack'[Depth].at = "collapse"
      /\ stack'[Depth].sig = stack[Depth].sig
      /\ \A k \in n + 1 .. Depth : stack'[k].sig = stack[k].sig
      /\ \A k \in 1 .. n : stack'[k].at = stack[k].at
      /\ Depth \in n + 1 .. Depth
  <2>1. \A k \in n + 1 .. Depth : k \in 1 .. Depth
    BY <1>2
  <2>2. \A k \in 1 .. n : k \in 1 .. Depth - 1
    BY <1>2
  <2>3. Depth \in n + 1 .. Depth
    BY <1>2
  <2>4. QED
    BY <1>4, <2>1, <2>2, <2>3 DEF Moved
<1>7. Jumps(n) = {} /\ Depth \in Jumps(n)'
  <2>1. Jumps(n) = {}
    BY <1>1, <1>3 DEF Inv, ContextInv
  <2>2. QED
    BY <1>6, <2>1 DEF Jumps, JumpParts
<1>8. d \in 1 .. n /\ stack'[d].at = stack[d].at
  BY <1>2, <1>3, <1>6 DEF Inv, ShapeInv
<1>9. Acting' = Depth
  BY <1>5, <1>6 DEF Acting
<1>10. HandlerInv(n, d)'
  BY <1>2, <1>5, <1>6, <1>9 DEF PromiseInv, HandlerInv
<1>11. ArmedInv(n, d)'
  BY <1>1, <1>5, <1>7 DEF PromiseInv, ArmedInv, MayFail
<1>12. View(n, d) /\ View(n, d)'
  BY <1>3, Viewed, ViewedNext
<1>13. Way = "body" /\ Way' = "leaving"
  BY <1>6, <1>7, <1>12 DEF Way, View
<1>14. \A k \in 1 .. n : k # d => ShownAs(k)' = ShownAs(k)
  <2>1. \A k \in 1 .. n : k # d =>
            /\ stack[k].at \in {"failed", "nested"}
            /\ ShownAs(k) = stack[k].at
    BY <1>3, OthersShown
  <2>2. QED
    BY <1>6, <2>1 DEF ShownAs
<1>15. Crashing' = Crashing /\ Crashing # NoSignal
       /\ Reported' = NoSignal /\ Reported = NoSignal
  <2>1. Crashing = stack[Depth].sig /\ Crashing # NoSignal /\ Reported = NoSignal
    BY <1>2, SignalActs
  <2>2. Depth # n
    BY <1>2
  <2>3. QED
    BY <1>6, <1>9, <1>12, <2>1, <2>2 DEF View
<1>16. n \in 1 .. n /\ n > 0
  BY <1>8
<1>17. CASE stack[d].at = "try"
  <2>1. n = d
    BY <1>2, <1>3, <1>17 DEF Inv, ShapeInv, InsideLibrary
  <2>2. Seen(n) = n - 1 /\ Seen(n)' = n - 1
    BY <1>8, <1>16, <1>17, <2>1 DEF Seen, Open, InsideLibrary
  <2>3. \A k \in 1 .. n - 1 : k \in 1 .. n /\ k # d
    BY <2>1
  <2>4. Visible' = Visible
    BY <1>12, <1>14, <2>2, <2>3, SameSeen
  <2>5. QED
    BY <1>1, <1>3, <1>10, <1>11, <1>15, <2>4
       DEF PromiseInv, Blocks!vars, Reported
<1>18. CASE stack[d].at # "try"
  <2>1. stack[d].at \in {"body", "ending"}
    BY <1>1, <1>2, <1>3, <1>18 DEF Inv, ContextInv
  <2>2. stack[n].at \notin InsideLibrary \/ (n = d /\ stack[n].at = "ending")
    <3>1. CASE n = d
      BY <2>1, <3>1 DEF InsideLibrary
    <3>2. CASE n # d
      BY <1>3, <1>16, <3>2, OthersShown DEF InsideLibrary
    <3>3. QED
      BY <3>1, <3>2
  <2>3. Seen(n) = n /\ Seen(n)' = n
    <3>1. Jumping' # {}
      BY <1>7, <1>12 DEF View
    <3>2. QED
      BY <1>1, <1>6, <1>16, <2>2, <3>1 DEF Seen, Open
  <2>4. /\ Visible \in Seq(SeenParts) /\ Visible' \in Seq(SeenParts)
        /\ Len(Visible) = n /\ Len(Visible') = n
        /\ \A k \in 1 .. n : Visible[k] = ShownAs(k)
        /\ \A k \in 1 .. n : Visible'[k] = ShownAs(k)'
    BY <1>12, <2>3 DEF View
  <2>5. Visible[d] = "body" /\ Visible'[d] = "leaving"
    BY <1>8, <1>13, <2>1, <2>4 DEF ShownAs
  <2> DEFINE left == [Visible EXCEPT ![d] = "leaving"]
  <2>6. /\ left \in Seq(SeenParts) /\ Len(left) = n
        /\ \A k \in 1 .. n : left[k] = IF k = d THEN "leaving" ELSE Visible[k]
    BY <1>8, <2>4, ExceptSeq DEF SeenParts
  <2> HIDE DEF left
  <2>7. \A k \in 1 .. n : Visible'[k] = left[k]
    BY <1>14, <2>4, <2>5, <2>6
  <2>8. Visible' = left
    BY <2>4, <2>6, <2>7, SeqEqual
  <2>9. Blocks!Depart
    BY <1>1, <1>2, <1>8, <1>15, <2>4, <2>5, <2>8
       DEF Blocks!Depart, Blocks!Is, Reported, left
  <2>10. QED
    BY <1>3, <1>10, <1>11, <2>9 DEF PromiseInv
<1>19. QED
  BY <1>17, <1>18

(* What it does before the jump is not seen.                                *)
LEMMA JumpUnseen ==
    ASSUME NEW n \in Nat, NEW d \in Nat, PromiseInv(n, d),
           Collapse \/ Disarm
    PROVE  PromiseInv(n, d)' /\ UNCHANGED Blocks!vars
<1> DEFINE part == IF Collapse THEN "disarm" ELSE "leap"
<1>1. /\ At("handler", "collapse") \/ At("handler", "disarm")
      /\ Goto(part)
      /\ t' = IF Collapse THEN [t EXCEPT !.reenter = 1]
              ELSE [t EXCEPT !.unwindGuarded = FALSE]
      /\ UNCHANGED <<mask, altStack, buffers, message, dead>>
  BY DEF Collapse, Disarm
<1>2. part \in {"disarm", "leap"}
  OBVIOUS
<1> HIDE DEF part
<1>3. /\ d # 0 /\ t \in Structures /\ Depth \in Nat /\ Depth > n
      /\ stack # <<>> /\ Acting = Depth /\ t.code = stack[Depth].sig
      /\ ~t.unwindGuarded /\ stack[Depth].at \in JumpParts
  BY <1>1, TopActs DEF HandlerParts, JumpParts
<1>4. Inv(n, d) /\ Inv(n, d)' /\ stack \in Seq(Activations)
  BY JumpSteps DEF PromiseInv, Inv, TypeOK
<1>5. Moved(Depth, part)
  BY <1>1, <1>2, <1>3, <1>4, Went DEF HandlerParts, JumpParts
<1>6. /\ ~t'.unwindGuarded /\ t'.code = stack[Depth].sig
      /\ t'.installed = t.installed /\ t'.buffer = t.buffer
      /\ t'.ctxIsSet = t.ctxIsSet
  BY <1>1, <1>3 DEF Structures
<1>7. part \in HandlerParts /\ part \in JumpParts /\ part # "chain"
      /\ part \notin {"setjmp", "guard", "extract"}
  BY <1>2 DEF HandlerParts, JumpParts
<1>8. QED
  BY <1>1, <1>3, <1>4, <1>5, <1>6, <1>7, HandlerUnseen

(* The jump is the recovery, in the session's own block, unless that has    *)
(* not filled the context yet.                                              *)
LEMMA LeapSeen ==
    ASSUME NEW n \in Nat, NEW d \in Nat, PromiseInv(n, d), Leap
    PROVE  IF t.ctx = NoContext THEN PromiseInv(n, d)' /\ Blocks!Die
           ELSE PromiseInv(d, d)' /\ Blocks!Recover
<1>1. /\ At("handler", "leap") /\ UNCHANGED <<t, altStack, buffers, message>>
      /\ t.ctx = NoContext => dead' = TRUE /\ UNCHANGED <<stack, mask>>
  BY DEF Leap
<1>2. /\ d # 0 /\ t \in Structures /\ ~dead /\ Depth \in Nat /\ Depth > n
      /\ stack[Depth].at = "leap" /\ Acting = Depth
      /\ t.code = stack[Depth].sig
  BY <1>1, TopActs DEF HandlerParts, JumpParts
<1>3. /\ Inv(n, d)
      /\ t.ctx = NoContext <=> stack[d].at = "try"
      /\ t.ctx # NoContext =>
             Inv(d, d)' /\ Moved(d, "catch") /\ dead' \in BOOLEAN /\ ~dead'
  <2>1. Inv(n, d)
    BY DEF PromiseInv
  <2>2. t.ctx # NoContext => dead' = dead
    BY DEF Leap
  <2>3. QED
    BY <1>2, <2>1, <2>2, LeapStep DEF Inv, TypeOK
<1>4. d \in 1 .. n /\ Depth \in Jumps(n)
  BY <1>2, <1>3 DEF Inv, ShapeInv, Jumps, JumpParts
<1>5. CASE t.ctx = NoContext
  <2>1. /\ PromiseInv(n, d)'
        /\ Visible' = Visible /\ Crashing' = Crashing
        /\ Reported' = Reported
    BY <1>1, <1>5, Dies
  <2>2. ~Blocks!Protected
    BY <1>3, <1>5, Protects DEF PromiseInv
  <2>3. Blocks!Die
    BY <1>1, <1>2, <1>5, <2>1, <2>2, SignalActs DEF Blocks!Die, Reported
  <2>4. QED
    BY <1>5, <2>1, <2>3
<1>6. CASE t.ctx # NoContext
  <2>1. stack[d].at \in {"body", "ending"}
    BY <1>2, <1>3, <1>4, <1>6 DEF Inv, ContextInv
  <2>2. /\ Depth' = d /\ stack'[d].at = "catch"
        /\ \A k \in 1 .. d - 1 : stack'[k].at = stack[k].at
    BY <1>3, <1>6 DEF Moved
  <2>3. ArmedInv(d, d)'
    BY <1>1, <1>2, <2>2 DEF PromiseInv, ArmedInv, MayFail
  <2>4. PromiseInv(d, d)'
    BY <1>3, <1>6, <2>2, <2>3, NoHandlersNext DEF Quiet
  <2>5. View(n, d) /\ View(d, d)'
    BY <1>3, <1>6, Viewed, ViewedNext
  <2>6. Seen(d)' = d
    BY <2>2 DEF Seen, InsideLibrary
  <2>7. Way = "leaving"
    BY <1>4, <2>5 DEF Way, View
  <2>8. Seen(n) = n
    <3>1. Jumping # {}
      BY <1>4, <2>5 DEF View
    <3>2. CASE n = d
      BY <2>1, <3>1, <3>2 DEF Seen, Open, InsideLibrary
    <3>3. CASE n # d
      <4>1. n \in 1 .. n
        BY <1>4
      <4>2. stack[n].at = "nested" \/ stack[n].at = "failed"
        BY <1>3, <3>3, <4>1, OthersShown
      <4>3. QED
        BY <4>2 DEF Seen, InsideLibrary
    <3>4. QED
      BY <3>2, <3>3
  <2>9. Visible' = Append(SubSeq(Visible, 1, d - 1), "catch")
    <3>1. /\ d - 1 \in Nat /\ d - 1 <= Seen(n) /\ Seen(d)' = (d - 1) + 1
          /\ stack'[(d - 1) + 1].at = "catch"
          /\ \A k \in 1 .. d - 1 : k \in 1 .. n /\ k # d
      BY <1>4, <2>2, <2>6, <2>8
    <3>2. \A k \in 1 .. d - 1 : /\ stack[k].at \in {"failed", "nested"}
                               /\ ShownAs(k) = stack[k].at
      BY <1>3, <3>1, OthersShown
    <3>3. /\ ShownAs((d - 1) + 1)' = "catch"
          /\ \A k \in 1 .. d - 1 : ShownAs(k)' = ShownAs(k)
      BY <2>2, <3>1, <3>2 DEF ShownAs
    <3>4. QED
      BY <2>5, <3>1, <3>3, OuterSeenAndOne DEF SeenParts, BlockParts
  <2>10. d \in 1 .. Len(Visible) /\ Visible[d] = "leaving"
    BY <1>4, <2>1, <2>5, <2>7, <2>8 DEF View, ShownAs
  <2>11. /\ Crashing = stack[Depth].sig /\ Crashing # NoSignal
         /\ Crashing' = NoSignal /\ Reported' = t.code
    <3>1. Crashing = stack[Depth].sig /\ Crashing # NoSignal
      BY <1>2, SignalActs
    <3>2. Crashing' = NoSignal /\ Reported' = t.code
      BY <1>1, <1>2, <2>2, <2>5 DEF View
    <3>3. QED
      BY <3>1, <3>2
  <2>12. dead' = dead
    BY <1>6 DEF Leap
  <2>13. Blocks!Recover
    BY <1>1, <1>2, <2>9, <2>10, <2>11, <2>12
       DEF Blocks!Recover, Blocks!Is, Reported
  <2>14. QED
    BY <1>6, <2>4, <2>13
<1>7. QED
  BY <1>5, <1>6

(***************************************************************************)
(* Signals.                                                                *)
(***************************************************************************)
(* What a signal makes of a block that is being left.                       *)
Caught(blocks) == [b \in DOMAIN blocks |->
                      IF blocks[b] = "leaving" THEN "lost" ELSE blocks[b]]

(* A signal is the one to deal with, unless a handler guards its unwinder.  *)
LEMMA Delivered ==
    ASSUME NEW n \in Nat, NEW d \in Nat, PromiseInv(n, d),
           NEW s \in Signals, NEW blocked \in SUBSET Signals,
           Deliver(stack, s, blocked),
           UNCHANGED <<t, altStack, buffers, dead>>
    PROVE  /\ PromiseInv(n, d)'
           /\ Visible' = Caught(Visible) /\ Reported' = NoSignal
           /\ Depth \notin Jumps(n) => Visible' = Visible
           /\ t # NoStruct /\ t.unwindGuarded =>
                  Depth > n /\ Crashing' = Crashing
           /\ ~(t # NoStruct /\ t.unwindGuarded) => Crashing' = s
<1> DEFINE h == Handler(s)
<1>1. h \in Activations /\ h.at = "get" /\ h.sig = s
  BY DEF Handler, Activations, HandlerParts
<1>2. /\ Inv(n, d) /\ Inv(n, d)'
      /\ stack \in Seq(Activations) /\ stack' = Append(stack, h)
  BY DeliverStep DEF PromiseInv, Inv, TypeOK, Deliver
<1> HIDE DEF h
<1>3. /\ Depth \in Nat /\ Depth' = Depth + 1
      /\ \A k \in 1 .. Depth : stack'[k] = stack[k]
      /\ stack'[Depth + 1] = h
  BY <1>1, <1>2, Pushed
<1>4. /\ n <= Depth /\ d \in 0 .. n
      /\ d = 0 <=> t = NoStruct
  BY <1>2 DEF Inv, ShapeInv
<1>5. /\ \A k \in 1 .. n : stack'[k] = stack[k]
      /\ d # 0 => stack'[d] = stack[d]
  <2>1. \A k \in 1 .. n : k \in 1 .. Depth
    BY <1>3, <1>4
  <2>2. d # 0 => d \in 1 .. n
    BY <1>4
  <2>3. QED
    BY <1>3, <2>1, <2>2
<1>6. ASSUME t # NoStruct, t.unwindGuarded
      PROVE  /\ Depth > n /\ Acting' = Acting
             /\ stack'[Acting] = stack[Acting]
             /\ t.code = stack[Acting].sig
  <2>1. t.unwindCtx.depth \in n + 1 .. Depth
    BY <1>2, <1>4, <1>6 DEF Inv, GuardInv
  <2>2. Depth > n /\ t.unwindCtx.depth \in 1 .. Depth
    BY <1>3, <2>1
  <2>3. Acting = t.unwindCtx.depth /\ Acting' = Acting
    BY <1>6 DEF Acting
  <2>4. t.code = stack[Acting].sig
    BY <1>4, <1>6, <2>2 DEF PromiseInv, HandlerInv
  <2>5. QED
    BY <1>3, <2>2, <2>3, <2>4
<1>7. ~(t # NoStruct /\ t.unwindGuarded) => Acting' = Depth + 1
  BY <1>3 DEF Acting
<1>8. HandlerInv(n, d)'
  <2>1. \A k \in n + 1 .. Depth + 1 : stack'[k].sig \in Signals
    <3>1. \A k \in n + 1 .. Depth + 1 : k = Depth + 1 \/ k \in n + 1 .. Depth
      BY <1>3, <1>4
    <3>2. \A k \in n + 1 .. Depth : k \in 1 .. Depth
      BY <1>3
    <3>3. QED
      BY <1>1, <1>3, <3>1, <3>2 DEF PromiseInv, HandlerInv
  <2>2. stack'[Depth + 1].at = "get"
    BY <1>1, <1>3
  <2>3. d # 0 /\ t.unwindGuarded => t.code = stack'[Acting'].sig
    BY <1>4, <1>6
  <2>4. QED
    BY <1>3, <2>1, <2>2, <2>3 DEF HandlerInv
<1>a. /\ Jumps(n)' = Jumps(n) /\ Depth' \notin Jumps(n)'
      /\ Depth' # n
  <2>1. stack'[Depth + 1].at \notin JumpParts
    BY <1>1, <1>3 DEF JumpParts
  <2>2. \A k \in n + 1 .. Depth + 1 : k = Depth + 1 \/ k \in n + 1 .. Depth
    BY <1>3, <1>4
  <2>3. \A k \in n + 1 .. Depth : k \in 1 .. Depth /\ k \in n + 1 .. Depth + 1
    BY <1>3, <1>4
  <2>4. Jumps(n)' = Jumps(n)
    BY <1>3, <2>1, <2>2, <2>3 DEF Jumps
  <2>5. QED
    BY <1>3, <1>4, <2>1, <2>4 DEF Jumps
<1>9. ArmedInv(n, d)'
  BY <1>5, <1>a DEF PromiseInv, ArmedInv, MayFail
<1>10. View(n, d) /\ View(n, d)'
  BY <1>2, Viewed, ViewedNext
<1>b. Way' = (IF Way = "leaving" THEN "lost" ELSE Way)
      /\ (Jumping' = {} <=> Jumping = {})
      /\ (Depth \notin Jumps(n) => Way # "leaving")
  BY <1>a, <1>10 DEF View, Way
<1>11. /\ Visible' = Caught(Visible)
       /\ Depth \notin Jumps(n) => Visible' = Visible
  <2>1. Seen(n)' = Seen(n) /\ Seen(n) \in 0 .. n
    <3>1. n > 0 => n \in 1 .. n
      OBVIOUS
    <3>2. QED
      BY <1>5, <1>b, <3>1 DEF Seen, Open
  <2>2. \A k \in 1 .. Seen(n) : k \in 1 .. n
    BY <2>1
  <2>3. \A k \in 1 .. Seen(n) :
            /\ ShownAs(k)' = IF ShownAs(k) = "leaving" THEN "lost"
                             ELSE ShownAs(k)
            /\ Depth \notin Jumps(n) => ShownAs(k)' = ShownAs(k)
    <3>1. \A k \in 1 .. n : stack[k].at # "leaving"
      <4>1. ASSUME NEW k \in 1 .. n PROVE stack[k].at # "leaving"
        <5>1. CASE k = d
          BY <1>2, <5>1 DEF Inv, ShapeInv, SessionParts, InsideLibrary
        <5>2. CASE k # d
          BY <1>2, <5>2, OthersShown
        <5>3. QED
          BY <5>1, <5>2
      <4>2. QED
        BY <4>1
    <3>2. QED
      BY <1>5, <1>b, <2>2, <3>1 DEF ShownAs
  <2>4. /\ Visible \in Seq(SeenParts) /\ Visible' \in Seq(SeenParts)
        /\ Len(Visible) = Seen(n) /\ Len(Visible') = Seen(n)
        /\ \A k \in 1 .. Seen(n) : Visible[k] = ShownAs(k)
        /\ \A k \in 1 .. Seen(n) : Visible'[k] = ShownAs(k)'
    BY <1>10, <2>1 DEF View
  <2>5. /\ DOMAIN Visible = 1 .. Seen(n)
        /\ Visible' = [k \in 1 .. Seen(n) |-> Visible'[k]]
    BY <2>1, <2>4
  <2>6. Visible' = Caught(Visible)
    BY <2>3, <2>4, <2>5 DEF Caught
  <2>7. Depth \notin Jumps(n) => Visible' = Visible
    BY <1>10, <2>1, <2>3, SameSeen
  <2>8. QED
    BY <2>6, <2>7
<1>12. Depth' # n
  BY <1>3, <1>4
<1>13. Reported' = NoSignal /\ Crashing' = stack'[Acting'].sig
  BY <1>10, <1>12 DEF View
<1>14. ASSUME t # NoStruct, t.unwindGuarded
       PROVE  Depth > n /\ Crashing' = Crashing
  <2>1. Depth > n /\ Depth # n
    BY <1>6, <1>14
  <2>2. Crashing = stack[Acting].sig
    BY <1>10, <2>1 DEF View
  <2>3. QED
    BY <1>6, <1>13, <1>14, <2>1, <2>2
<1>15. ~(t # NoStruct /\ t.unwindGuarded) => Crashing' = s
  BY <1>1, <1>3, <1>7, <1>13
<1>16. QED
  BY <1>2, <1>8, <1>9, <1>11, <1>13, <1>14, <1>15 DEF PromiseInv

(* The program faults, aborts or runs out of stack.                         *)
LEMMA CrashesSeen ==
    ASSUME NEW n \in Nat, NEW d \in Nat, PromiseInv(n, d),
           (\E s \in Signals : Crash(s)) \/ StackOverflow
    PROVE  PromiseInv(n, d)' /\ (Blocks!Crash \/ Blocks!Perish)
<1>1. InUserCode /\ UNCHANGED <<t, altStack, buffers>>
  BY DEF Crash, StackOverflow
<1>2. /\ Inv(n, d) /\ mask \in SUBSET Signals /\ SIGSEGV \in Signals
      /\ Depth \in Nat /\ Depth = n /\ ~dead
  BY <1>1, UserCode, SignalsAssumption
     DEF PromiseInv, Inv, TypeOK, InUserCode, Depth
<1>3. Crashing = NoSignal
  BY <1>2, Viewed DEF View
<1>4. ASSUME NEW s \in Signals, Deliver(stack, s, mask), UNCHANGED dead
      PROVE  PromiseInv(n, d)' /\ Blocks!Crash
  <2>1. /\ PromiseInv(n, d)' /\ Visible' = Visible /\ Reported' = NoSignal
        /\ Crashing' = s
    <3>1. ~(Depth > n) /\ Jumps(n) = {}
      BY <1>2, NoJumps
    <3>2. QED
      BY <1>1, <1>2, <1>4, <3>1, Delivered
  <2>2. QED
    BY <1>2, <1>3, <1>4, <2>1 DEF Blocks!Crash, Blocks!InUserCode, Reported
<1>5. CASE \E s \in Signals : Crash(s)
  BY <1>4, <1>5 DEF Crash
<1>6. CASE StackOverflow /\ altStack \in Buffers
  BY <1>2, <1>4, <1>6 DEF StackOverflow
<1>7. CASE StackOverflow /\ altStack \notin Buffers
  <2>1. dead' = TRUE /\ UNCHANGED <<stack, mask, message>>
    BY <1>7 DEF StackOverflow
  <2>2. ~Blocks!Protected \/ MayFail("silent")
    <3>1. SUFFICES ASSUME Blocks!Protected PROVE MayFail("silent")
      OBVIOUS
    <3>2. d # 0 /\ ArmedInv(n, d)
      BY <1>2, <3>1, Protects DEF PromiseInv
    <3>3. t.buffer \in Buffers
      BY <1>2, <3>2 DEF Inv, TypeOK, ShapeInv, Structures
    <3>4. QED
      BY <1>7, <3>2, <3>3 DEF ArmedInv
  <2>3. /\ PromiseInv(n, d)' /\ Visible' = Visible /\ Crashing' = Crashing
        /\ Reported' = Reported
    BY <1>1, <2>1, Dies
  <2>4. Blocks!Perish
    BY <1>2, <1>3, <2>1, <2>2, <2>3
       DEF Blocks!Perish, Blocks!InUserCode, Reported
  <2>5. QED
    BY <2>3, <2>4
<1>8. QED
  BY <1>5, <1>6, <1>7

(* Under the guard the handler on top is in its unwinder or about to back   *)
(* out.                                                                     *)
LEMMA GuardedTop ==
    ASSUME NEW n \in Nat, NEW d \in Nat, Inv(n, d),
           t # NoStruct, t.unwindGuarded
    PROVE  stack[Depth].at \in {"extract", "unwound", "get"}
<1>1. /\ t.unwindCtx.depth \in n + 1 .. Depth
      /\ stack[t.unwindCtx.depth].at \in {"extract", "unwound"}
      /\ \A k \in t.unwindCtx.depth + 1 .. Depth : stack[k].at = "get"
      /\ Depth \in Nat
  BY DEF Inv, TypeOK, ShapeInv, GuardInv, Depth
<1>2. t.unwindCtx.depth = Depth \/ Depth \in t.unwindCtx.depth + 1 .. Depth
  BY <1>1
<1>3. QED
  BY <1>1, <1>2

(* A signal that somebody sends is a crash like any other, or takes the     *)
(* place of the one that is being dealt with, or comes under the guard.     *)
LEMMA ReceiveSeen ==
    ASSUME NEW n \in Nat, NEW d \in Nat, PromiseInv(n, d),
           NEW s \in AsyncSignals, Receive(s)
    PROVE  /\ PromiseInv(n, d)'
           /\ Blocks!Crash \/ Blocks!Supersede \/ UNCHANGED Blocks!vars
<1>1. /\ ~dead /\ Deliver(stack, s, mask)
      /\ UNCHANGED <<t, altStack, buffers, dead>>
  BY DEF Receive
<1>2. s \in Signals /\ mask \in SUBSET Signals /\ Inv(n, d)
  BY SignalsAssumption DEF PromiseInv, Inv, TypeOK
<1>3. /\ PromiseInv(n, d)'
      /\ Visible' = Caught(Visible) /\ Reported' = NoSignal
      /\ Depth \notin Jumps(n) => Visible' = Visible
      /\ t # NoStruct /\ t.unwindGuarded => Depth > n /\ Crashing' = Crashing
      /\ ~(t # NoStruct /\ t.unwindGuarded) => Crashing' = s
  BY <1>1, <1>2, Delivered
<1>4. Depth \in Nat /\ n <= Depth
  BY <1>2 DEF Inv, TypeOK, Depth, ShapeInv
<1>5. CASE Depth = n
  <2>1. Crashing = NoSignal /\ Crashing' = s
    <3>1. Crashing = NoSignal
      BY <1>2, <1>5, Viewed DEF View
    <3>2. ~(Depth > n)
      BY <1>4, <1>5
    <3>3. QED
      BY <1>3, <3>1, <3>2
  <2>a. Visible' = Visible
    BY <1>3, <1>5, NoJumps
  <2>2. Blocks!Crash
    BY <1>1, <1>2, <1>3, <2>1, <2>a
       DEF Blocks!Crash, Blocks!InUserCode, Reported
  <2>3. QED
    BY <1>3, <2>2
<1>6. CASE Depth # n
  <2>1. Depth > n
    BY <1>4, <1>6
  <2>2. Crashing # NoSignal /\ Reported = NoSignal
    BY <2>1, SignalActs
  <2>3. CASE t # NoStruct /\ t.unwindGuarded
    <3>1. stack[Depth].at \in {"extract", "unwound", "get"}
      BY <1>2, <1>4, <2>1, <2>3, GuardedTop
    <3>2. Depth \notin Jumps(n)
      BY <3>1 DEF Jumps, JumpParts
    <3>3. QED
      BY <1>1, <1>3, <2>2, <2>3, <3>2 DEF Blocks!vars, Reported
  <2>4. CASE ~(t # NoStruct /\ t.unwindGuarded)
    BY <1>1, <1>3, <2>2, <2>4 DEF Blocks!Supersede, Caught, Reported
  <2>5. QED
    BY <1>3, <2>3, <2>4
<1>7. QED
  BY <1>5, <1>6

(* A fault of the unwinder is not seen, unless it is of a signal that       *)
(* nobody has unblocked.                                                    *)
LEMMA FaultsSeen ==
    ASSUME NEW n \in Nat, NEW d \in Nat, PromiseInv(n, d),
           NEW s \in UnwinderFaults, ExtractFaults(s)
    PROVE  PromiseInv(n, d)' /\ (Blocks!Die \/ UNCHANGED Blocks!vars)
<1>1. At("handler", "extract") /\ UNCHANGED <<t, altStack, buffers>>
  BY DEF ExtractFaults
<1>2. /\ ~dead /\ d # 0 /\ Depth > n /\ stack[Depth].at = "extract"
      /\ t \in Structures
  BY <1>1, TopActs DEF HandlerParts
<1>3. /\ t # NoStruct /\ t.unwindGuarded
      /\ SIGSEGV \notin mask /\ SIGBUS \notin mask
  BY <1>2, NullAssumption DEF PromiseInv, HandlerInv
<1>4. s \in Signals /\ mask \in SUBSET Signals
  BY SignalsAssumption DEF PromiseInv, Inv, TypeOK
<1>5. CASE s \in mask \ {SIGABRT}
  <2>1. dead' = TRUE /\ UNCHANGED <<stack, mask, message>>
    BY <1>5 DEF ExtractFaults
  <2>2. ~(UnwinderFaults \subseteq Unblocked)
    BY <1>3, <1>5 DEF Unblocked
  <2>3. /\ PromiseInv(n, d)' /\ Visible' = Visible /\ Crashing' = Crashing
        /\ Reported' = Reported
    BY <1>1, <2>1, Dies
  <2>4. Blocks!Die
    BY <1>2, <2>1, <2>2, <2>3, SignalActs DEF Blocks!Die, Reported
  <2>5. QED
    BY <2>3, <2>4
<1>6. CASE s \notin mask \ {SIGABRT}
  <2> DEFINE blocked == IF s = SIGABRT THEN mask \ {SIGABRT} ELSE mask
  <2>1. Deliver(stack, s, blocked) /\ UNCHANGED dead
    BY <1>6 DEF ExtractFaults
  <2>2. blocked \in SUBSET Signals
    BY <1>4
  <2> HIDE DEF blocked
  <2>a. Depth \notin Jumps(n)
    BY <1>2 DEF Jumps, JumpParts
  <2>3. /\ PromiseInv(n, d)' /\ Visible' = Visible
        /\ Reported' = NoSignal /\ Crashing' = Crashing
    BY <1>1, <1>3, <1>4, <2>1, <2>2, <2>a, Delivered
  <2>4. Reported = NoSignal
    BY <1>2, SignalActs
  <2>5. QED
    BY <2>1, <2>3, <2>4 DEF Blocks!vars, Reported
<1>7. QED
  BY <1>5, <1>6

(***************************************************************************)
(* The program.                                                            *)
(***************************************************************************)
(* What is seen while the program runs.                                     *)
LEMMA ProgramSeen ==
    ASSUME NEW n \in Nat, NEW d \in Nat, Inv(n, d), InUserCode
    PROVE  /\ View(n, d) /\ Depth = n /\ ~dead
           /\ Seen(n) = n /\ Len(Visible) = n /\ Crashing = NoSignal
           /\ \A k \in 1 .. n : Visible[k] = stack[k].at
           /\ Reported = IF d # 0 /\ stack[d].at = "catch"
                         THEN t.code ELSE NoSignal
           /\ Blocks!InUserCode
           /\ d # 0 => Blocks!InSession
           /\ d = 0 => ~Blocks!InSession
<1>1. /\ View(n, d) /\ Depth = n /\ ~dead
      /\ n > 0 => stack[n].at \notin InsideLibrary
      /\ d # 0 => stack[d].at \in {"body", "catch"}
  BY UserCode, Viewed DEF InUserCode
<1>2. Seen(n) = n
  BY <1>1 DEF Seen
<1>3. Crashing = NoSignal
  BY <1>1 DEF View
<1>4. \A k \in 1 .. n : Visible[k] = stack[k].at
  <2>1. ASSUME NEW k \in 1 .. n PROVE stack[k].at # "ending"
    <3>1. k < d \/ d = 0 \/ k = d \/ k > d
      OBVIOUS
    <3>2. QED
      BY <1>1, <3>1 DEF Inv, ShapeInv
  <2>2. \A k \in 1 .. n : Visible[k] = ShownAs(k)
    BY <1>1, <1>2 DEF View
  <2>3. Way = "body"
    BY <1>1 DEF Way, View
  <2>4. QED
    BY <2>1, <2>2, <2>3 DEF ShownAs
<1>5. Len(Visible) = n
  BY <1>1, <1>2 DEF View
<1>6. d # 0 => Blocks!InSession
  <2>1. d # 0 => d \in 1 .. Len(Visible) /\ Visible[d] = stack[d].at
    BY <1>4, <1>5 DEF Inv, ShapeInv
  <2>2. QED
    BY <1>1, <2>1 DEF Blocks!InSession, Blocks!Is
<1>7. d = 0 => ~Blocks!InSession
  <2>1. d = 0 => \A k \in 1 .. Len(Visible) : Visible[k] = "failed"
    BY <1>4, <1>5 DEF Inv, ShapeInv
  <2>2. QED
    BY <2>1 DEF Blocks!InSession, Blocks!Is
<1>8. Blocks!InUserCode
  BY <1>1, <1>3 DEF Blocks!InUserCode
<1>9. QED
  BY <1>1, <1>2, <1>3, <1>4, <1>5, <1>6, <1>7, <1>8 DEF View

(* COFFEE_TRY().                                                            *)
LEMMA ReenterOpens ==
    ASSUME NEW n \in Nat, NEW d \in Nat, PromiseInv(n, d), Reenter
    PROVE  PromiseInv(n + 1, d)' /\ Blocks!Open
<1> DEFINE m == n + 1
<1>1. /\ InUserCode /\ t # NoStruct /\ Depth < MaxBlocks
      /\ t' = [t EXCEPT !.reenter = @ + 1]
      /\ stack' = Append(stack, Block("nested"))
      /\ UNCHANGED <<altStack, dead>>
  BY DEF Reenter
<1>2. Inv(n, d) /\ d # 0 /\ t \in Structures /\ d \in 1 .. n /\ m \in Nat
  BY <1>1 DEF PromiseInv, Inv, ShapeInv, TypeOK
<1>3. Depth = n
  BY <1>1, <1>2, UserCode
<1>4. /\ Depth' = m
      /\ \A k \in 1 .. n : stack'[k] = stack[k]
      /\ stack'[m].at = "nested"
  BY <1>1, <1>2, <1>3, BlockOpens DEF BlockParts
<1>5. Inv(m, d)'
  BY <1>2, OpenSteps
<1>6. ArmedInv(m, d)'
  <2>1. d # 0 /\ stack[d].at \in {"try", "body"} => t.ctxIsSet
    BY <1>2, <1>3, NoJumps DEF PromiseInv, ArmedInv
  <2>2. /\ stack'[d] = stack[d] /\ t'.ctxIsSet = t.ctxIsSet
        /\ t'.installed = t.installed /\ t'.buffer = t.buffer
    BY <1>1, <1>2, <1>4 DEF Structures
  <2>3. QED
    BY <1>1, <1>2, <2>1, <2>2 DEF PromiseInv, ArmedInv, MayFail
<1>7. View(n, d) /\ View(m, d)'
  BY <1>2, <1>5, Viewed, ViewedNext
<1>8. Seen(n) = n /\ Seen(m)' = m
  BY <1>1, <1>2, <1>4, ProgramSeen DEF Seen, InsideLibrary
<1>9. Visible' = Append(SubSeq(Visible, 1, n), "nested")
  <2>1. /\ ShownAs(n + 1)' = "nested"
        /\ \A k \in 1 .. n : ShownAs(k)' = ShownAs(k)
    BY <1>3, <1>4, <1>7 DEF ShownAs, View
  <2>2. QED
    BY <1>2, <1>7, <1>8, <2>1, OuterSeenAndOne DEF SeenParts, BlockParts
<1>10. SubSeq(Visible, 1, n) = Visible /\ Len(Visible) = n
  <2>1. Visible \in Seq(SeenParts) /\ Len(Visible) = n
    BY <1>7, <1>8 DEF View
  <2>2. QED
    BY <2>1, SubSeqFull
<1>11. Crashing' = NoSignal /\ Reported' = Reported
  BY <1>1, <1>2, <1>3, <1>4, <1>7 DEF View, Structures
<1>12. Blocks!InUserCode /\ Blocks!InSession /\ Crashing = NoSignal
  BY <1>1, <1>2, ProgramSeen
<1>13. Blocks!Open
  BY <1>1, <1>3, <1>9, <1>10, <1>11, <1>12 DEF Blocks!Open, Reported
<1>14. QED
  BY <1>2, <1>4, <1>5, <1>6, <1>13, NoHandlersNext DEF Quiet

LEMMA SetupUnseen ==
    ASSUME NEW n \in Nat, NEW d \in Nat, PromiseInv(n, d), Setup
    PROVE  PromiseInv(n + 1, n + 1)' /\ UNCHANGED Blocks!vars
<1> DEFINE m == n + 1
<1>1. /\ InUserCode /\ t = NoStruct
      /\ stack' = Append(stack, Block("try"))
      /\ UNCHANGED <<mask, message, dead>>
  BY DEF Setup
<1>2. Inv(n, d) /\ d = 0 /\ m \in Nat
  BY <1>1 DEF PromiseInv, Inv, ShapeInv
<1>3. Depth = n
  BY <1>1, <1>2, UserCode
<1>4. /\ Depth' = m
      /\ \A k \in 1 .. n : stack'[k] = stack[k]
      /\ stack'[m].at = "try"
  BY <1>1, <1>2, <1>3, BlockOpens DEF BlockParts, InsideLibrary
<1>5. Inv(m, m)'
  BY <1>2, OpenSteps
<1>6. ArmedInv(m, m)'
  <2>1. PICK b \in Buffers \ buffers :
            \/ t' = NewStruct(b, TRUE) /\ altStack' = b
            \/ MayFail("silent") /\ t' = NewStruct(b, FALSE)
    BY DEF Setup
  <2>2. /\ t'.ctxIsSet
        /\ MayFail("silent") \/ (t'.installed /\ altStack' = t'.buffer)
    BY <2>1 DEF NewStruct
  <2>3. QED
    BY <1>4, <2>2 DEF ArmedInv, MayFail
<1>7. View(n, d) /\ View(m, m)'
  BY <1>2, <1>5, Viewed, ViewedNext
<1>8. Seen(n) = n /\ Seen(m)' = n
  <2>1. Seen(n) = n
    BY <1>1, <1>2, ProgramSeen
  <2>2. m > 0 /\ m - 1 = n
    BY <1>2
  <2>3. QED
    BY <1>4, <2>1, <2>2 DEF Seen, Open, InsideLibrary
<1>9. Visible' = Visible
  <2>1. \A k \in 1 .. n : ShownAs(k)' = ShownAs(k)
    BY <1>3, <1>4, <1>7 DEF ShownAs, View
  <2>2. QED
    BY <1>2, <1>7, <1>8, <2>1, SameSeen
<1>10. /\ Crashing = NoSignal /\ Crashing' = NoSignal
       /\ Reported = NoSignal /\ Reported' = NoSignal
  BY <1>2, <1>3, <1>4, <1>7 DEF View
<1>11. QED
  BY <1>1, <1>2, <1>4, <1>5, <1>6, <1>9, <1>10, NoHandlersNext
     DEF Quiet, Blocks!vars, Reported

LEMMA SetupFailsOpens ==
    ASSUME NEW n \in Nat, NEW d \in Nat, PromiseInv(n, d), SetupFails
    PROVE  PromiseInv(n + 1, d)' /\ Blocks!Open
<1> DEFINE m == n + 1
<1>1. /\ InUserCode /\ t = NoStruct /\ Depth < MaxBlocks
      /\ stack' = Append(stack, Block("failed"))
      /\ UNCHANGED <<t, altStack, dead>>
  BY DEF SetupFails
<1>2. Inv(n, d) /\ d = 0 /\ m \in Nat
  BY <1>1 DEF PromiseInv, Inv, ShapeInv
<1>3. Depth = n
  BY <1>1, <1>2, UserCode
<1>4. /\ Depth' = m
      /\ \A k \in 1 .. n : stack'[k] = stack[k]
      /\ stack'[m].at = "failed"
  BY <1>1, <1>2, <1>3, BlockOpens DEF BlockParts
<1>5. Inv(m, d)'
  BY <1>2, OpenSteps
<1>6. ArmedInv(m, d)'
  BY <1>2 DEF ArmedInv
<1>7. View(n, d) /\ View(m, d)'
  BY <1>2, <1>5, Viewed, ViewedNext
<1>8. Seen(n) = n /\ Seen(m)' = m
  BY <1>1, <1>2, <1>4, ProgramSeen DEF Seen, InsideLibrary
<1>9. Visible' = Append(SubSeq(Visible, 1, n), "failed")
  <2>1. n <= Seen(n) /\ Seen(m)' = n + 1
    BY <1>8
  <2>2. /\ ShownAs(n + 1)' = "failed"
        /\ \A k \in 1 .. n : ShownAs(k)' = ShownAs(k)
    BY <1>3, <1>4, <1>7 DEF ShownAs, View
  <2>3. "failed" \in SeenParts
    BY DEF SeenParts, BlockParts
  <2>4. QED
    BY <1>2, <1>7, <2>1, <2>2, <2>3, OuterSeenAndOne
<1>10. SubSeq(Visible, 1, n) = Visible /\ Len(Visible) = n
  <2>1. Visible \in Seq(SeenParts) /\ Len(Visible) = n
    BY <1>7, <1>8 DEF View
  <2>2. QED
    BY <2>1, SubSeqFull
<1>11. Crashing' = NoSignal /\ Reported' = NoSignal /\ Reported = NoSignal
  BY <1>2, <1>4, <1>7 DEF View
<1>12. Blocks!InUserCode /\ ~Blocks!InSession /\ Crashing = NoSignal
  BY <1>1, <1>2, ProgramSeen
<1>13. Blocks!Open
  BY <1>1, <1>3, <1>9, <1>10, <1>11, <1>12 DEF Blocks!Open, Reported
<1>14. QED
  BY <1>2, <1>4, <1>5, <1>6, <1>13, NoHandlersNext DEF Quiet

LEMMA StoreContextOpens ==
    ASSUME NEW n \in Nat, NEW d \in Nat, PromiseInv(n, d), StoreContext
    PROVE  PromiseInv(n, d)' /\ Blocks!Open
<1>1. /\ At("block", "try") /\ t' = [t EXCEPT !.ctx = Context]
      /\ Goto("body") /\ UNCHANGED <<altStack, dead>>
  BY DEF StoreContext
<1>2. Inv(n, d) /\ stack \in Seq(Activations) /\ ~dead
  BY <1>1 DEF PromiseInv, Inv, TypeOK, At
<1>3. /\ Depth = n /\ n = d /\ d # 0 /\ stack # <<>>
      /\ stack[d].at = "try" /\ t \in Structures
  BY <1>1, <1>2, InBlock DEF InsideLibrary
<1>4. Inv(n, d)' /\ View(n, d) /\ View(n, d)'
  BY <1>2, LibrarySteps, Viewed, ViewedNext
<1>5. Moved(d, "body")
  BY <1>1, <1>2, <1>3, Went DEF BlockParts
<1>6. /\ Depth' = n /\ stack'[d].at = "body"
      /\ \A k \in 1 .. d - 1 : stack'[k].at = stack[k].at
  BY <1>3, <1>5 DEF Moved
<1>7. ArmedInv(n, d)'
  <2>1. /\ t.ctxIsSet => t'.ctxIsSet
        /\ t'.installed = t.installed /\ t'.buffer = t.buffer
    BY <1>1, <1>3 DEF Structures
  <2>2. t.ctxIsSet
    BY <1>2, <1>3, NoJumps DEF PromiseInv, ArmedInv
  <2>3. QED
    BY <1>1, <1>3, <2>1, <2>2 DEF PromiseInv, ArmedInv, MayFail
<1>8. d - 1 \in Nat /\ Seen(n) = d - 1 /\ Seen(n)' = (d - 1) + 1
      /\ stack'[(d - 1) + 1].at = "body"
  BY <1>3, <1>6 DEF Seen, Open, InsideLibrary
<1>9. Visible' = Append(SubSeq(Visible, 1, d - 1), "body")
  <2>1. /\ ShownAs((d - 1) + 1)' = "body"
        /\ \A k \in 1 .. d - 1 : ShownAs(k)' = ShownAs(k)
    BY <1>3, <1>4, <1>6, <1>8 DEF ShownAs, View
  <2>2. QED
    BY <1>4, <1>8, <2>1, OuterSeenAndOne DEF SeenParts, BlockParts
<1>10. /\ SubSeq(Visible, 1, d - 1) = Visible /\ Len(Visible) = d - 1
       /\ \A k \in 1 .. d - 1 : Visible[k] = ShownAs(k)
  <2>1. Visible \in Seq(SeenParts) /\ Len(Visible) = d - 1
    BY <1>4, <1>8 DEF View
  <2>2. QED
    BY <1>4, <1>8, <2>1, SubSeqFull DEF View
<1>11. ~Blocks!InSession
  <2>1. \A k \in 1 .. d - 1 : Visible[k] = "failed"
    <3>1. \A k \in 1 .. d - 1 : k \in 1 .. n /\ k < d
      BY <1>3
    <3>2. \A k \in 1 .. d - 1 : stack[k].at = "failed"
      BY <1>2, <3>1 DEF Inv, ShapeInv
    <3>3. QED
      BY <1>10, <3>2 DEF ShownAs
  <2>2. QED
    BY <1>10, <2>1 DEF Blocks!InSession, Blocks!Is
<1>12. /\ Crashing = NoSignal /\ Crashing' = NoSignal
       /\ Reported = NoSignal /\ Reported' = NoSignal
  BY <1>3, <1>4, <1>6 DEF View
<1>13. d - 1 < MaxBlocks
  BY <1>2, <1>3, BoundsAssumption DEF Inv, ShapeInv
<1>14. Blocks!Open
  BY <1>1, <1>2, <1>9, <1>10, <1>11, <1>12, <1>13
     DEF Blocks!Open, Blocks!InUserCode, Reported
<1>15. QED
  BY <1>4, <1>6, <1>7, <1>14, NoHandlersNext DEF Quiet

(* COFFEE_END().                                                            *)
LEMMA EndCloses ==
    ASSUME NEW n \in Nat, NEW d \in Nat, PromiseInv(n, d),
           NEW m \in Nat, n = m + 1, End
    PROVE  PromiseInv(m, d)' /\ Blocks!Close
<1>1. /\ InUserCode /\ stack # <<>> /\ Pop
      /\ \/ t = NoStruct /\ UNCHANGED t
         \/ t # NoStruct /\ t.reenter > 1 /\ t' = [t EXCEPT !.reenter = @ - 1]
      /\ UNCHANGED <<altStack, dead>>
  BY DEF End
<1>2. Inv(n, d) /\ Inv(m, d)' /\ stack \in Seq(Activations)
  BY EndStep DEF PromiseInv, Inv, TypeOK
<1>3. /\ Depth = n
      /\ n > 0 => stack[n].at \notin InsideLibrary
      /\ d # 0 => stack[d].at \in {"body", "catch"}
      /\ d # 0 => t.reenter = n - d + 1
  BY <1>1, <1>2, UserCode
<1>4. /\ Depth' = m
      /\ \A k \in 1 .. m : stack'[k] = stack[k]
  <2>1. n - 1 = m
    OBVIOUS
  <2>2. QED
    BY <1>1, <1>2, <1>3, <2>1, Popped
<1>5. /\ d \in 0 .. n
      /\ d = 0 <=> t = NoStruct
      /\ d # 0 => t \in Structures
  BY <1>2 DEF Inv, ShapeInv, TypeOK
<1>6. d # 0 => d \in 1 .. m
  <2>1. d # 0 => n - d + 1 > 1
    BY <1>1, <1>3, <1>5
  <2>2. QED
    BY <1>5, <2>1
<1>7. d # 0 => /\ stack'[d] = stack[d]
               /\ t'.code = t.code /\ t'.installed = t.installed
               /\ t'.buffer = t.buffer /\ t'.ctxIsSet = t.ctxIsSet
  BY <1>1, <1>4, <1>5, <1>6 DEF Structures
<1>8. ArmedInv(m, d)'
  <2>1. d # 0 /\ stack[d].at \in {"try", "body"} => t.ctxIsSet
    BY <1>2, <1>3, NoJumps DEF PromiseInv, ArmedInv
  <2>2. QED
    BY <1>1, <1>7, <2>1 DEF PromiseInv, ArmedInv, MayFail
<1>9. /\ View(n, d) /\ View(m, d)'
      /\ Len(Visible) = n /\ Seen(n) = n /\ Visible[n] = stack[n].at
      /\ Blocks!InUserCode
  <2>1. n \in 1 .. n
    OBVIOUS
  <2>2. QED
    BY <1>1, <1>2, <2>1, ProgramSeen, ViewedNext
<1>10. stack[n].at \in {"failed", "nested"}
  <2>1. n \in 1 .. n /\ n # d
    BY <1>6
  <2>2. CASE d = 0
    BY <1>2, <2>1, <2>2 DEF Inv, ShapeInv
  <2>3. CASE d # 0
    <3>1. n > d
      BY <1>5, <2>1
    <3>2. QED
      BY <1>2, <2>1, <2>3, <3>1 DEF Inv, ShapeInv
  <2>4. QED
    BY <2>2, <2>3
<1>11. Seen(m)' = m
  <2>1. m > 0 => stack'[m].at \notin InsideLibrary
    <3>1. SUFFICES ASSUME m > 0 PROVE stack'[m].at \notin InsideLibrary
      OBVIOUS
    <3>2. m \in 1 .. m /\ m \in 1 .. n
      BY <3>1
    <3>3. stack'[m] = stack[m]
      BY <1>4, <3>2
    <3>4. CASE m = d
      BY <1>3, <3>1, <3>3, <3>4 DEF InsideLibrary
    <3>5. CASE m # d
      <4>1. stack[m].at \in {"failed", "nested"}
        <5>1. m < d \/ d = 0 \/ m > d
          BY <1>5, <3>5
        <5>2. QED
          BY <1>2, <3>2, <5>1 DEF Inv, ShapeInv
      <4>2. QED
        BY <3>3, <4>1 DEF InsideLibrary
    <3>6. QED
      BY <3>4, <3>5
  <2>2. QED
    BY <2>1 DEF Seen
<1>12. Visible' = SubSeq(Visible, 1, m)
  <2>1. m <= Seen(n)
    BY <1>9
  <2>2. \A k \in 1 .. m : ShownAs(k)' = ShownAs(k)
    BY <1>3, <1>4, <1>9 DEF ShownAs, View
  <2>3. QED
    BY <1>9, <1>11, <2>1, <2>2, OuterSeen
<1>13. ~Blocks!Is("catch", Len(Visible)) /\ Visible # <<>>
  <2>1. Visible \in Seq(SeenParts)
    BY <1>9 DEF View
  <2>2. QED
    BY <1>9, <1>10, <2>1, EmptySeq DEF Blocks!Is
<1>14. Crashing' = Crashing /\ Reported' = Reported
  BY <1>3, <1>4, <1>7, <1>9 DEF View
<1>15. Blocks!Close
  <2>1. Len(Visible) - 1 = m
    BY <1>9
  <2>2. QED
    BY <1>1, <1>9, <1>12, <1>13, <1>14, <2>1 DEF Blocks!Close, Reported
<1>16. QED
  BY <1>2, <1>4, <1>8, <1>15, NoHandlersNext DEF Quiet

(* The block that opened the session is seen until its context is invalid:  *)
(* before COFFEE_END() is even entered, after a recovery.                   *)
LEMMA EndLastSeen ==
    ASSUME NEW n \in Nat, NEW d \in Nat, PromiseInv(n, d), EndLast
    PROVE  /\ PromiseInv(n, d)'
           /\ Blocks!Close \/ UNCHANGED Blocks!vars
<1>1. /\ InUserCode /\ stack # <<>> /\ t # NoStruct /\ t.reenter = 1
      /\ t' = [t EXCEPT !.reenter = 0]
      /\ Goto("ending") /\ UNCHANGED <<altStack, dead>>
  BY DEF EndLast
<1>2. /\ Inv(n, d) /\ Inv(n, d)' /\ stack \in Seq(Activations)
      /\ d # 0 /\ t \in Structures
  <2>1. Inv(n, d)
    BY DEF PromiseInv
  <2>2. Inv(n, d)'
    BY <2>1, LibrarySteps
  <2>3. QED
    BY <1>1, <2>1, <2>2 DEF Inv, TypeOK, ShapeInv
<1>3. /\ Depth = n /\ n > 0
      /\ stack[d].at \in {"body", "catch"}
      /\ t.reenter = n - d + 1
  BY <1>1, <1>2, UserCode
<1>4. n = d
  BY <1>1, <1>3
<1>5. Moved(d, "ending")
  BY <1>1, <1>2, <1>3, <1>4, Went DEF BlockParts, InsideLibrary
<1>6. /\ Depth' = n /\ stack'[d].at = "ending"
      /\ \A k \in 1 .. d - 1 : stack'[k].at = stack[k].at
  BY <1>4, <1>5 DEF Moved
<1>7. /\ t'.ctxIsSet = t.ctxIsSet /\ t'.code = t.code
      /\ t'.installed = t.installed /\ t'.buffer = t.buffer
  BY <1>1, <1>2 DEF Structures
<1>8. ArmedInv(n, d)'
  BY <1>1, <1>6, <1>7 DEF PromiseInv, ArmedInv, MayFail
<1>9. PromiseInv(n, d)'
  BY <1>2, <1>6, <1>8, NoHandlersNext DEF Quiet
<1>10. /\ View(n, d) /\ View(n, d)' /\ Seen(n) = n /\ Len(Visible) = n
       /\ Visible[n] = stack[d].at /\ n \in 1 .. n
       /\ Blocks!InUserCode /\ ~dead
  <2>1. n \in 1 .. n
    BY <1>3
  <2>2. QED
    BY <1>1, <1>2, <1>4, <2>1, ProgramSeen, ViewedNext
<1>11. /\ Crashing = NoSignal /\ Crashing' = NoSignal
       /\ Reported' = NoSignal
       /\ stack[d].at # "catch" => Reported = NoSignal
  BY <1>3, <1>6, <1>10 DEF View
<1>12. CASE t.ctxIsSet
  <2>1. stack[d].at = "body"
    BY <1>2, <1>3, <1>12 DEF Inv, ContextInv
  <2>2. Seen(n)' = n
    BY <1>4, <1>6, <1>7, <1>12 DEF Seen, Open
  <2>3. \A k \in 1 .. n : ShownAs(k)' = ShownAs(k)
    <3>1. \A k \in 1 .. n : k = d \/ k \in 1 .. d - 1
      BY <1>4
    <3>2. QED
      BY <1>3, <1>6, <1>10, <2>1, <3>1 DEF ShownAs, View
  <2>4. Visible' = Visible
    BY <1>10, <2>2, <2>3, SameSeen
  <2>5. QED
    BY <1>1, <1>9, <1>11, <2>1, <2>4 DEF Blocks!vars, Reported
<1>13. CASE ~t.ctxIsSet
  <2>1. stack[d].at = "catch"
    BY <1>2, <1>3, <1>13, NoJumps DEF PromiseInv, ArmedInv
  <2>2. d - 1 \in Nat /\ d - 1 <= Seen(n) /\ Seen(n)' = d - 1
    BY <1>3, <1>4, <1>6, <1>7, <1>10, <1>13
       DEF Seen, Open, InsideLibrary, View
  <2>3. \A k \in 1 .. d - 1 : ShownAs(k)' = ShownAs(k)
    BY <1>3, <1>6, <1>10 DEF ShownAs, View
  <2>4. Visible' = SubSeq(Visible, 1, d - 1)
    BY <1>10, <2>2, <2>3, OuterSeen
  <2>5. Visible # <<>> /\ Blocks!Is("catch", Len(Visible))
    <3>1. Visible \in Seq(SeenParts)
      BY <1>10 DEF View
    <3>2. QED
      BY <1>3, <1>10, <2>1, <3>1, EmptySeq DEF Blocks!Is
  <2>6. Len(Visible) - 1 = d - 1
    BY <1>4, <1>10
  <2>7. Blocks!Close
    BY <1>1, <1>10, <1>11, <2>4, <2>5, <2>6 DEF Blocks!Close, Reported
  <2>8. QED
    BY <1>9, <2>7
<1>14. QED
  BY <1>12, <1>13

LEMMA InvalidateSeen ==
    ASSUME NEW n \in Nat, NEW d \in Nat, PromiseInv(n, d), Invalidate
    PROVE  /\ PromiseInv(n, d)'
           /\ Blocks!Close \/ UNCHANGED Blocks!vars
<1>1. /\ At("block", "ending") /\ t' = [t EXCEPT !.ctxIsSet = FALSE]
      /\ Goto("closing") /\ UNCHANGED <<altStack, dead>>
  BY DEF Invalidate
<1>2. Inv(n, d) /\ stack \in Seq(Activations) /\ ~dead
  BY <1>1 DEF PromiseInv, Inv, TypeOK, At
<1>3. /\ Depth = n /\ n = d /\ d # 0 /\ stack # <<>>
      /\ stack[d].at = "ending" /\ t \in Structures
  BY <1>1, <1>2, InBlock DEF InsideLibrary
<1>4. Inv(n, d)' /\ View(n, d) /\ View(n, d)'
  BY <1>2, LibrarySteps, Viewed, ViewedNext
<1>5. Moved(d, "closing")
  BY <1>1, <1>2, <1>3, Went DEF BlockParts, InsideLibrary
<1>6. /\ Depth' = n /\ stack'[d].at = "closing"
      /\ \A k \in 1 .. d - 1 : stack'[k].at = stack[k].at
  BY <1>3, <1>5 DEF Moved
<1>7. ArmedInv(n, d)'
  BY <1>1, <1>3, <1>6 DEF PromiseInv, ArmedInv, Structures, MayFail
<1>8. PromiseInv(n, d)'
  BY <1>4, <1>6, <1>7, NoHandlersNext DEF Quiet
<1>9. d - 1 \in Nat /\ Seen(n)' = d - 1
  BY <1>3, <1>6 DEF Seen, Open, InsideLibrary
<1>10. \A k \in 1 .. d - 1 : ShownAs(k)' = ShownAs(k)
  BY <1>3, <1>4, <1>6 DEF ShownAs, View
<1>11. /\ Crashing = NoSignal /\ Crashing' = NoSignal
       /\ Reported = NoSignal /\ Reported' = NoSignal
  BY <1>3, <1>4, <1>6 DEF View
<1>12. CASE t.ctxIsSet
  <2>1. Seen(n) = n /\ d - 1 <= Seen(n)
    BY <1>3, <1>12 DEF Seen, Open
  <2>2. Visible' = SubSeq(Visible, 1, d - 1)
    BY <1>4, <1>9, <1>10, <2>1, OuterSeen
  <2>3. /\ Len(Visible) = n /\ Visible # <<>>
        /\ ~Blocks!Is("catch", Len(Visible))
    <3>1. Len(Visible) = n /\ Visible \in Seq(SeenParts) /\ n \in 1 .. n
      BY <1>3, <1>4, <2>1 DEF View
    <3>2. Visible[n] = "body"
      BY <1>3, <1>4, <2>1, <3>1 DEF View, ShownAs
    <3>3. QED
      BY <3>1, <3>2, EmptySeq DEF Blocks!Is
  <2>4. Len(Visible) - 1 = d - 1
    BY <1>3, <2>3
  <2>5. Blocks!Close
    BY <1>1, <1>2, <1>11, <2>2, <2>3, <2>4
       DEF Blocks!Close, Blocks!InUserCode, Reported
  <2>6. QED
    BY <1>8, <2>5
<1>13. CASE ~t.ctxIsSet
  <2>1. Seen(n) = d - 1
    BY <1>3, <1>4, <1>13 DEF Seen, Open, InsideLibrary, View
  <2>2. Visible' = Visible
    BY <1>4, <1>9, <1>10, <2>1, SameSeen
  <2>3. QED
    BY <1>1, <1>8, <1>11, <2>2 DEF Blocks!vars, Reported
<1>14. QED
  BY <1>12, <1>13

LEMMA CloseSessionUnseen ==
    ASSUME NEW n \in Nat, NEW d \in Nat, PromiseInv(n, d),
           NEW m \in Nat, n = m + 1, CloseSession
    PROVE  PromiseInv(m, 0)' /\ UNCHANGED Blocks!vars
<1>1. At("block", "closing") /\ Pop /\ UNCHANGED dead
  BY DEF CloseSession
<1>2. Inv(n, d) /\ Inv(m, 0)' /\ stack \in Seq(Activations)
  BY CloseSessionStep DEF PromiseInv, Inv, TypeOK
<1>3. /\ Depth = n /\ n = d /\ d # 0 /\ stack # <<>>
      /\ stack[d].at = "closing"
  BY <1>1, <1>2, InBlock DEF InsideLibrary
<1>4. /\ Depth' = m
      /\ \A k \in 1 .. m : stack'[k] = stack[k]
  <2>1. n - 1 = m
    OBVIOUS
  <2>2. QED
    BY <1>1, <1>2, <1>3, <2>1, Popped
<1>5. ArmedInv(m, 0)'
  BY DEF ArmedInv
<1>6. View(n, d) /\ View(m, 0)'
  BY <1>2, Viewed, ViewedNext
<1>7. Seen(n) = m
  BY <1>3 DEF Seen, Open, InsideLibrary
<1>8. Seen(m)' = m
  <2>1. m > 0 => m \in 1 .. m /\ m \in 1 .. n /\ m < d
    BY <1>3
  <2>2. m > 0 => stack'[m].at = "failed"
    BY <1>2, <1>4, <2>1 DEF Inv, ShapeInv
  <2>3. QED
    BY <2>2 DEF Seen, InsideLibrary
<1>9. Visible' = Visible
  <2>1. \A k \in 1 .. m : ShownAs(k)' = ShownAs(k)
    BY <1>3, <1>4, <1>6 DEF ShownAs, View
  <2>2. QED
    BY <1>6, <1>7, <1>8, <2>1, SameSeen
<1>10. Crashing' = Crashing /\ Reported' = Reported
  BY <1>3, <1>4, <1>6 DEF View
<1>11. QED
  BY <1>1, <1>2, <1>4, <1>5, <1>9, <1>10, NoHandlersNext
     DEF Quiet, Blocks!vars, Reported

LEMMA ThreadExitLeaves ==
    ASSUME NEW n \in Nat, NEW d \in Nat, PromiseInv(n, d), ThreadExit
    PROVE  PromiseInv(0, 0)' /\ Blocks!Leave
<1>1. InUserCode /\ stack' = <<>> /\ UNCHANGED dead
  BY DEF ThreadExit
<1>2. Inv(n, d) /\ Inv(0, 0)' /\ View(0, 0)'
  BY ThreadExitStep, ViewedNext DEF PromiseInv
<1>3. Depth' = 0 /\ ArmedInv(0, 0)'
  BY <1>1 DEF Depth, ArmedInv
<1>4. Visible' = <<>> /\ Crashing' = NoSignal /\ Reported' = NoSignal
  <2>1. Seen(0)' = 0
    BY DEF Seen
  <2>2. QED
    BY <1>2, <1>3, <2>1, EmptySeq DEF View
<1>5. Blocks!InUserCode /\ Crashing = NoSignal
  BY <1>1, <1>2, ProgramSeen
<1>6. Blocks!Leave
  BY <1>1, <1>4, <1>5 DEF Blocks!Leave, Reported
<1>7. QED
  BY <1>2, <1>3, <1>6, NoHandlersNext DEF Quiet

(* What the program asks for is not seen, nor is a process that is dead.    *)
LEMMA Stuttering ==
    ASSUME NEW n \in Nat, NEW d \in Nat, PromiseInv(n, d),
           GetMessage \/ Killed \/ UNCHANGED vars
    PROVE  PromiseInv(n, d)' /\ UNCHANGED Blocks!vars
<1>1. UNCHANGED <<stack, t, mask, altStack, buffers, dead>>
  BY DEF GetMessage, Killed, vars
<1>2. Inv(n, d) /\ Inv(n, d)'
  <2>1. Inv(n, d)
    BY DEF PromiseInv
  <2>2. CASE GetMessage
    BY <2>1, <2>2, GetMessageStep
  <2>3. CASE Killed \/ UNCHANGED vars
    <3>1. /\ UNCHANGED <<stack, t, mask, altStack, buffers, message>>
          /\ dead' \in BOOLEAN
      BY <2>1, <2>3 DEF Killed, vars, Inv, TypeOK
    <3>2. QED
      BY <2>1, <3>1, Unmoved
  <2>4. QED
    BY <2>2, <2>3
<1>3. Depth' = Depth /\ Acting' = Acting
  BY <1>1 DEF Depth, Acting
<1>4. HandlerInv(n, d)' /\ ArmedInv(n, d)'
  BY <1>1, <1>3 DEF PromiseInv, HandlerInv, ArmedInv, Jumps, MayFail
<1>a. Jumping' = Jumping /\ Handlers' = Handlers /\ BlockDepth' = BlockDepth
  BY <1>1, <1>3 DEF Jumping, Handlers, BlockDepth
<1>5. /\ Visible' = Visible /\ Crashing' = Crashing /\ Reported' = Reported
  BY <1>1, <1>3, <1>a DEF Visible, VisibleDepth, ShownAs, Way, Crashing,
                          Reported, InCatch, SessionBlocks, GetSignal
<1>6. QED
  BY <1>1, <1>2, <1>4, <1>5 DEF PromiseInv, Blocks!vars, Reported

(***************************************************************************)
(* The theorem.                                                            *)
(***************************************************************************)
PromiseSession == \E n, d \in Nat : PromiseInv(n, d)

(* Every step of the thread is a step of ProtectedBlocks or is not seen.    *)
LEMMA StepSeen ==
    ASSUME PromiseSession, [Next]_vars
    PROVE  PromiseSession' /\ [Blocks!Next]_(Blocks!vars)
<1>1. PICK n \in Nat, d \in Nat : PromiseInv(n, d)
  BY DEF PromiseSession
<1>2. ASSUME PromiseInv(n, d)' PROVE PromiseSession'
  BY <1>2 DEF PromiseSession
<1>3. n + 1 \in Nat
  OBVIOUS
<1>4. CASE Reenter \/ Setup \/ SetupFails
  <2>1. /\ PromiseInv(n + 1, d)' \/ PromiseInv(n + 1, n + 1)'
        /\ Blocks!Open \/ UNCHANGED Blocks!vars
    BY <1>1, <1>4, ReenterOpens, SetupUnseen, SetupFailsOpens
  <2>2. QED
    BY <1>3, <2>1 DEF PromiseSession, Blocks!Next
<1>5. CASE End \/ CloseSession
  <2>1. n > 0
    <3>1. Inv(n, d)
      BY <1>1 DEF PromiseInv
    <3>2. CASE End
      BY <3>1, <3>2, UserCode DEF End
    <3>3. CASE CloseSession
      BY <3>1, <3>3, InBlock DEF CloseSession, InsideLibrary
    <3>4. QED
      BY <1>5, <3>2, <3>3
  <2>2. n - 1 \in Nat /\ n = (n - 1) + 1
    BY <2>1
  <2>3. /\ PromiseInv(n - 1, d)' \/ PromiseInv(n - 1, 0)'
        /\ Blocks!Close \/ UNCHANGED Blocks!vars
    BY <1>1, <1>5, <2>2, EndCloses, CloseSessionUnseen
  <2>4. QED
    BY <2>2, <2>3 DEF PromiseSession, Blocks!Next
<1>6. CASE ThreadExit
  <2>1. PromiseInv(0, 0)' /\ Blocks!Leave
    BY <1>1, <1>6, ThreadExitLeaves
  <2>2. QED
    BY <2>1 DEF PromiseSession, Blocks!Next
<1>7. CASE StoreContext \/ EndLast \/ Invalidate
  <2>1. /\ PromiseInv(n, d)'
        /\ Blocks!Open \/ Blocks!Close \/ UNCHANGED Blocks!vars
    BY <1>1, <1>7, StoreContextOpens, EndLastSeen, InvalidateSeen
  <2>2. QED
    BY <1>2, <2>1 DEF Blocks!Next
<1>8. CASE (\E s \in Signals : Crash(s)) \/ StackOverflow
  <2>1. PromiseInv(n, d)' /\ (Blocks!Crash \/ Blocks!Perish)
    BY <1>1, <1>8, CrashesSeen
  <2>2. QED
    BY <1>2, <2>1 DEF Blocks!Next
<1>9. CASE Leap
  <2>1. /\ PromiseInv(n, d)' \/ PromiseInv(d, d)'
        /\ Blocks!Die \/ Blocks!Recover
    BY <1>1, <1>9, LeapSeen
  <2>2. QED
    BY <2>1 DEF PromiseSession, Blocks!Next
<1>10. CASE Chain
  <2>1. PromiseInv(n, d)' /\ Blocks!Die
    BY <1>1, <1>10, ChainDies
  <2>2. QED
    BY <1>2, <2>1 DEF Blocks!Next
<1>11. CASE \/ GetStruct \/ BackOut
            \/ CopyContext \/ Unblock \/ StoreUnwindContext \/ Guard
            \/ Extract \/ Unguard \/ Remask \/ NoJump
  BY <1>1, <1>2, <1>11, HandlersUnseen
<1>12. CASE \E s \in UnwinderFaults : ExtractFaults(s)
  <2>1. PromiseInv(n, d)' /\ (Blocks!Die \/ UNCHANGED Blocks!vars)
    BY <1>1, <1>12, FaultsSeen
  <2>2. QED
    BY <1>2, <2>1 DEF Blocks!Next
<1>13. CASE \E s \in AsyncSignals : Receive(s)
  <2>1. /\ PromiseInv(n, d)'
        /\ Blocks!Crash \/ Blocks!Supersede \/ UNCHANGED Blocks!vars
    BY <1>1, <1>13, ReceiveSeen
  <2>2. QED
    BY <1>2, <2>1 DEF Blocks!Next
<1>14. CASE GetMessage \/ Killed \/ UNCHANGED vars
  BY <1>1, <1>2, <1>14, Stuttering
<1>15. CASE UseUp \/ Collapse \/ Disarm
  <2>1. /\ PromiseInv(n, d)'
        /\ Blocks!Depart \/ UNCHANGED Blocks!vars
    BY <1>1, <1>15, UseUpDeparts, JumpUnseen
  <2>2. QED
    BY <1>2, <2>1 DEF Blocks!Next
<1>16. CASE HostTakes
  <2>1. PromiseInv(n, d)' /\ Blocks!HostTakes
    BY <1>1, <1>16, HostTakesSeen
  <2>2. QED
    BY <1>2, <2>1 DEF Blocks!Next
<1>17. QED
  BY <1>4, <1>5, <1>6, <1>7, <1>8, <1>9, <1>10, <1>11, <1>12, <1>13, <1>14,
     <1>15, <1>16
     DEF Next, BlockStep, LibraryStep, HandlerStep

(* Session implements ProtectedBlocks, whatever signals are sent, calls     *)
(* refused and faults raised in the unwinder: a crash in a protected body   *)
(* reaches the COFFEE_CATCH of the outermost block with the last signal     *)
(* that was not a fault of the unwinder.  It kills the process only if the  *)
(* unwinder raises a signal that is blocked there, or another signal is     *)
(* sent after a handler has used up the context and before it jumps.  A     *)
(* crash anywhere else kills the process or is the host's handler's.        *)
THEOREM SessionRefinesBlocks == Spec => PromisesKept
<1>1. Init => PromiseSession /\ Blocks!Init
  <2> SUFFICES ASSUME Init PROVE PromiseInv(0, 0) /\ Blocks!Init
    BY DEF PromiseSession
  <2>1. Depth = 0 /\ stack = <<>> /\ dead = FALSE
    BY DEF Init, Depth
  <2>2. Inv(0, 0)
    BY InitialInv
  <2>3. PromiseInv(0, 0)
    BY <2>1, <2>2, NoHandlers DEF Quiet, ArmedInv
  <2>4. View(0, 0)
    BY <2>2, Viewed
  <2>5. Visible = <<>> /\ Crashing = NoSignal /\ Reported = NoSignal
    <3>1. Seen(0) = 0
      BY DEF Seen
    <3>2. QED
      BY <2>1, <2>4, <3>1, EmptySeq DEF View
  <2>6. QED
    BY <2>1, <2>3, <2>5 DEF Blocks!Init, Reported
<1>2. /\ PromiseSession /\ [Next]_vars
      => PromiseSession' /\ [Blocks!Next]_(Blocks!vars)
  BY StepSeen
<1>3. QED
  BY <1>1, <1>2, PTL DEF Spec, PromisesKept, Blocks!Spec

=============================================================================
