--------------------------- MODULE BacktraceProofs ---------------------------
(***************************************************************************)
(* Lemmas about Backtrace, for every backend, every length of the array of *)
(* frames and every width of the machine's integers.  The theorems are in  *)
(* JniProofs, whose specification has Backtrace's steps among its own.     *)
(***************************************************************************)
EXTENDS Backtrace, SequenceTheorems, WellFoundedInduction, TLAPS

(***************************************************************************)
(* Induction.  The library's theorems of induction take an operator, which  *)
(* the provers cannot instantiate; that a set of numbers has a least one    *)
(* takes none, and does as well.                                            *)
(***************************************************************************)
(* A set of natural numbers that is not empty has a least number.           *)
LEMMA LeastNumber ==
    ASSUME NEW S, S \subseteq Nat, S # {}
    PROVE  \E n \in S : \A m \in S : n <= m
<1> DEFINE R == OpToRel(<, Nat)
<1>1. IsWellFoundedOn(R, Nat)
  BY NatLessThanWellFounded
<1>2. \A m, n \in Nat : <<m, n>> \in R <=> m < n
  BY DEF OpToRel
<1> HIDE DEF R
<1>3. PICK n \in S : \A m \in S : <<m, n>> \notin R
  BY <1>1, WFMin
<1>4. ASSUME NEW m \in S PROVE n <= m
  <2>1. m \in Nat /\ n \in Nat
    OBVIOUS
  <2>2. ~(m < n)
    BY <1>2, <1>3, <2>1
  <2>3. QED
    BY <2>1, <2>2
<1>5. QED
  BY <1>4

(* What is proved of 0, and of a number when it holds of the one before, is *)
(* true of all the numbers of an interval.                                  *)
LEMMA UpTo ==
    ASSUME NEW n \in Nat, NEW S, 0 \in S,
           \A k \in 1 .. n : k - 1 \in S => k \in S
    PROVE  0 .. n \subseteq S
<1> DEFINE Bad == (0 .. n) \ S
<1>1. SUFFICES ASSUME Bad # {} PROVE FALSE
  OBVIOUS
<1>2. PICK k \in Bad : \A m \in Bad : k <= m
  <2>1. Bad \subseteq Nat
    OBVIOUS
  <2> HIDE DEF Bad
  <2>2. QED
    BY <1>1, <2>1, LeastNumber
<1>3. k \in 1 .. n /\ k - 1 \notin Bad
  BY <1>2
<1>4. QED
  BY <1>2, <1>3

(***************************************************************************)
(* Sequences without their NULLs.                                          *)
(***************************************************************************)
(* f is what NonNull's recursion computes for the first n of s.             *)
Keeps(f, s, n) ==
    /\ f[0] = <<>>
    /\ \A k \in 1 .. n : f[k] = IF s[k] = NoPC THEN f[k - 1]
                                ELSE Append(f[k - 1], s[k])

(* The recursion, as the provers see it.                                    *)
Kept(f, s, n) ==
    f = [k \in 0 .. n |-> IF k = 0 THEN <<>>
                          ELSE IF s[k] = NoPC THEN f[k - 1]
                          ELSE Append(f[k - 1], s[k])]

(* There is such a function ...                                             *)
LEMMA KeptExists ==
    ASSUME NEW s, NEW n \in Nat
    PROVE  \E f : Kept(f, s, n)
<1> DEFINE S == {m \in Nat : \E f : Kept(f, s, m)}
<1>1. 0 \in S
  <2>1. Kept([k \in 0 .. 0 |-> <<>>], s, 0)
    BY DEF Kept
  <2>2. QED
    BY <2>1
<1>2. ASSUME NEW m \in 1 .. n, m - 1 \in S PROVE m \in S
  <2>1. PICK f : Kept(f, s, m - 1)
    BY <1>2
  <2> DEFINE g == [k \in 0 .. m |->
                     IF k < m THEN f[k]
                     ELSE IF s[m] = NoPC THEN f[m - 1]
                     ELSE Append(f[m - 1], s[m])]
             h == [k \in 0 .. m |->
                     IF k = 0 THEN <<>>
                     ELSE IF s[k] = NoPC THEN g[k - 1]
                     ELSE Append(g[k - 1], s[k])]
  <2>2. \A k \in 0 .. m - 1 :
            f[k] = IF k = 0 THEN <<>>
                   ELSE IF s[k] = NoPC THEN f[k - 1]
                   ELSE Append(f[k - 1], s[k])
    BY <2>1 DEF Kept
  <2>3. \A k \in 1 .. m : g[k - 1] = f[k - 1]
    OBVIOUS
  <2>4. ASSUME NEW k \in 0 .. m PROVE g[k] = h[k]
    <3>1. CASE k < m
      <4>1. g[k] = f[k]
        BY <3>1
      <4>2. f[k] = IF k = 0 THEN <<>>
                   ELSE IF s[k] = NoPC THEN f[k - 1]
                   ELSE Append(f[k - 1], s[k])
        BY <2>2, <3>1
      <4>3. k # 0 => g[k - 1] = f[k - 1]
        BY <2>3
      <4> HIDE DEF g
      <4>4. QED
        BY <4>1, <4>2, <4>3
    <3>2. CASE k = m
      <4>1. g[m] = IF s[m] = NoPC THEN f[m - 1]
                   ELSE Append(f[m - 1], s[m])
        OBVIOUS
      <4>2. g[m - 1] = f[m - 1]
        BY <2>3
      <4> HIDE DEF g
      <4>3. QED
        BY <3>2, <4>1, <4>2
    <3>3. QED
      BY <3>1, <3>2
  <2>5. g = h
    BY <2>4
  <2>6. Kept(g, s, m)
    <3> HIDE DEF g
    <3>1. QED
      BY <2>5 DEF Kept
  <2>7. QED
    BY <2>6
<1>3. 0 .. n \subseteq S
  <2> HIDE DEF S
  <2>1. QED
    BY <1>1, <1>2, UpTo
<1>4. QED
  BY <1>3

(* ... and only one, which depends on nothing past what it has read.        *)
LEMMA KeepsAgree ==
    ASSUME NEW f, NEW g, NEW s, NEW u, NEW n \in Nat,
           Keeps(f, s, n), Keeps(g, u, n), \A k \in 1 .. n : s[k] = u[k]
    PROVE  f[n] = g[n]
<1> DEFINE S == {m \in Nat : f[m] = g[m]}
<1>1. 0 \in S
  BY DEF Keeps
<1>2. \A k \in 1 .. n : k - 1 \in S => k \in S
  BY DEF Keeps
<1>3. 0 .. n \subseteq S
  <2> HIDE DEF S
  <2>1. QED
    BY <1>1, <1>2, UpTo
<1>4. QED
  BY <1>3

(* NonNull is the last value of the recursion.                              *)
LEMMA NonNullByRecursion ==
    ASSUME NEW s \in Seq(Nat)
    PROVE  \E f : Keeps(f, s, Len(s)) /\ NonNull(s) = f[Len(s)]
<1>1. Len(s) \in Nat
  OBVIOUS
<1> DEFINE f == CHOOSE f : Kept(f, s, Len(s))
<1>2. Kept(f, s, Len(s))
  BY <1>1, KeptExists
<1>3. NonNull(s) = f[Len(s)]
  BY DEF NonNull, Kept
<1>4. Keeps(f, s, Len(s))
  <2> HIDE DEF f
  <2>1. \A k \in 0 .. Len(s) :
            f[k] = IF k = 0 THEN <<>>
                   ELSE IF s[k] = NoPC THEN f[k - 1]
                   ELSE Append(f[k - 1], s[k])
    BY <1>1, <1>2 DEF Kept
  <2>2. f[0] = <<>>
    BY <1>1, <2>1
  <2>3. QED
    BY <1>1, <2>1, <2>2 DEF Keeps
<1>5. QED
  BY <1>3, <1>4

(* Nothing is left of nothing, and a program counter more is kept unless it *)
(* is NULL.                                                                 *)
LEMMA NonNullEmpty == NonNull(<<>>) = <<>>
<1>1. <<>> \in Seq(Nat) /\ Len(<<>>) = 0
  OBVIOUS
<1>2. QED
  BY <1>1, NonNullByRecursion DEF Keeps

LEMMA NonNullAppend ==
    ASSUME NEW s \in Seq(Nat), NEW ip \in Nat
    PROVE  NonNull(Append(s, ip)) = IF ip = NoPC THEN NonNull(s)
                                    ELSE Append(NonNull(s), ip)
<1> DEFINE u == Append(s, ip)
<1>1. /\ u \in Seq(Nat) /\ Len(s) \in Nat /\ Len(u) = Len(s) + 1
      /\ u[Len(s) + 1] = ip
      /\ \A k \in 1 .. Len(s) : s[k] = u[k]
  OBVIOUS
<1> HIDE DEF u
<1>2. PICK f : Keeps(f, s, Len(s)) /\ NonNull(s) = f[Len(s)]
  BY NonNullByRecursion
<1>3. PICK g : Keeps(g, u, Len(u)) /\ NonNull(u) = g[Len(u)]
  BY <1>1, NonNullByRecursion
<1>4. Keeps(g, u, Len(s))
  BY <1>1, <1>3 DEF Keeps
<1>5. f[Len(s)] = g[Len(s)]
  <2> DEFINE n == Len(s)
  <2>1. /\ n \in Nat /\ Keeps(f, s, n) /\ Keeps(g, u, n)
        /\ \A k \in 1 .. n : s[k] = u[k]
    BY <1>1, <1>2, <1>4
  <2> HIDE DEF n
  <2>2. f[n] = g[n]
    BY <2>1, KeepsAgree
  <2>3. QED
    BY <2>2 DEF n
<1>6. NonNull(u) = IF ip = NoPC THEN g[Len(s)] ELSE Append(g[Len(s)], ip)
  <2>1. Len(u) \in 1 .. Len(u) /\ Len(u) - 1 = Len(s)
    BY <1>1
  <2>2. QED
    BY <1>1, <1>3, <2>1 DEF Keeps
<1>7. QED
  BY <1>2, <1>5, <1>6 DEF u

(* What is left is a sequence of program counters, and no longer.           *)
LEMMA NonNullType ==
    ASSUME NEW s \in Seq(Nat)
    PROVE  NonNull(s) \in Seq(Nat) /\ Len(NonNull(s)) <= Len(s)
<1>1. PICK f : Keeps(f, s, Len(s)) /\ NonNull(s) = f[Len(s)]
  BY NonNullByRecursion
<1> DEFINE S == {m \in Nat : f[m] \in Seq(Nat) /\ Len(f[m]) <= m}
<1>2. 0 \in S
  <2>1. f[0] = <<>>
    BY <1>1 DEF Keeps
  <2>2. <<>> \in Seq(Nat) /\ Len(<<>>) = 0
    OBVIOUS
  <2>3. f[0] \in Seq(Nat) /\ Len(f[0]) <= 0
    BY <2>1, <2>2
  <2>4. QED
    BY <2>3
<1>3. ASSUME NEW k \in 1 .. Len(s), k - 1 \in S PROVE k \in S
  <2>1. f[k] = IF s[k] = NoPC THEN f[k - 1] ELSE Append(f[k - 1], s[k])
    BY <1>1 DEF Keeps
  <2>2. s[k] \in Nat
    OBVIOUS
  <2>3. f[k - 1] \in Seq(Nat) /\ Len(f[k - 1]) <= k - 1
    BY <1>3
  <2>4. CASE f[k] = f[k - 1]
    BY <2>3, <2>4
  <2>5. CASE f[k] = Append(f[k - 1], s[k])
    <3>1. f[k] \in Seq(Nat) /\ Len(f[k]) = Len(f[k - 1]) + 1
      BY <2>2, <2>3, <2>5
    <3>2. QED
      BY <2>3, <3>1
  <2>6. QED
    BY <2>1, <2>4, <2>5
<1>4. Len(s) \in Nat
  OBVIOUS
<1>5. 0 .. Len(s) \subseteq S
  <2> HIDE DEF S
  <2>1. QED
    BY <1>2, <1>3, <1>4, UpTo
<1>6. QED
  BY <1>1, <1>4, <1>5

(***************************************************************************)
(* The frames.                                                             *)
(***************************************************************************)
(* A copy starts at the first slot, and has a frame for each of those       *)
(* counted.                                                                 *)
CopyInv ==
    /\ gather \in {"walk", "store", "libunwind"} => copied = 0
    /\ gather = "copy" => copied <= framesSize /\ framesSize <= Len(seen)

(* The callback stores before it tests the bound: what makes it safe is     *)
(* that the unwinder is never asked to go on with a full array.             *)
FramesInv ==
    /\ BacktraceTypeOK
    /\ gather = "walk" /\ backend = "unwind" => framesSize < BACKTRACE_FRAMES_MAX
    /\ CopyInv

(* The first slot is a slot, and nothing has been gathered.                 *)
LEMMA FramesInit == BacktraceInit => FramesInv
<1> SUFFICES ASSUME BacktraceInit PROVE FramesInv
  OBVIOUS
<1>1. frames \in [0 .. BACKTRACE_FRAMES_MAX - 1 -> Nat]
  BY DEF BacktraceInit, NoPC
<1>2. framesSize \in 0 .. BACKTRACE_FRAMES_MAX /\ framesSkip \in 0 .. 2
  BY FramesAssumption DEF BacktraceInit
<1>3. fp \in Addresses
  BY StackAssumption DEF BacktraceInit, Addresses
<1>4. seen \in Seq(Nat) /\ copied \in 0 .. BACKTRACE_FRAMES_MAX
  BY FramesAssumption DEF BacktraceInit
<1>5. backend \in Backends /\ gather \in GatherPCs /\ pc \in TrapPCs
  BY DEF BacktraceInit, GatherPCs, TrapPCs
<1>6. gather = "idle"
  BY DEF BacktraceInit
<1>7. QED
  BY <1>1, <1>2, <1>3, <1>4, <1>5, <1>6 DEF FramesInv, BacktraceTypeOK, CopyInv

(* A library finds a sequence of program counters, of the length it says.   *)
LEMMA FoundSequence ==
    ASSUME NEW nb \in -1 .. BACKTRACE_FRAMES_MAX, Found(nb)
    PROVE  /\ seen' \in Seq(Nat)
           /\ Len(seen') = IF nb > 0 THEN nb ELSE 0
           /\ \A k \in 1 .. nb : seen'[k] = k
<1> DEFINE n == IF nb > 0 THEN nb ELSE 0
<1>1. n \in Nat /\ 1 .. nb = 1 .. n
  BY FramesAssumption
<1>2. seen' = [k \in 1 .. n |-> k]
  BY <1>1 DEF Found
<1> HIDE DEF n
<1>3. seen' \in Seq(Nat) /\ Len(seen') = n
  BY <1>1, <1>2
<1>4. \A k \in 1 .. n : seen'[k] = k
  BY <1>2
<1>5. QED
  BY <1>1, <1>3, <1>4 DEF n

(* No step of the gathering stores outside the array or counts more frames  *)
(* than it has slots, backend by backend.                                   *)
LEMMA TypesStep ==
    ASSUME FramesInv, Extract \/ Gather \/ BackOut
    PROVE  /\ BacktraceTypeOK'
           /\ (gather = "walk" /\ backend = "unwind" =>
                  framesSize < BACKTRACE_FRAMES_MAX)'
<1> USE FramesAssumption, StackAssumption
    DEF FramesInv, BacktraceTypeOK, GatherPCs, Gathered, TrapPCs, NoPC
<1>1. CASE Extract
  <2>1. CASE backend = "framepointer"
    <3>1. frames' \in [0 .. BACKTRACE_FRAMES_MAX - 1 -> Nat]
      BY <1>1, <2>1 DEF Extract, Seed
    <3>2. seen' \in Seq(Nat) /\ fp' \in Addresses
      <4>1. seen' = <<pc'>> /\ fp' \in Addresses
        BY <1>1, <2>1 DEF Extract, Seed
      <4>2. pc' \in Nat
        BY <1>1 DEF Extract
      <4>3. QED
        BY <4>1, <4>2
    <3>3. gather' = "store" /\ framesSize' = 0 /\ framesSkip' = 2
      BY <1>1, <2>1 DEF Extract, Seed
    <3>4. copied' \in 0 .. BACKTRACE_FRAMES_MAX
      BY <1>1 DEF Extract
    <3>5. QED
      BY <1>1, <3>1, <3>2, <3>3, <3>4 DEF Extract
  <2>2. CASE backend # "framepointer"
    BY <1>1, <2>2 DEF Extract, Seed
  <2>3. QED
    BY <2>1, <2>2
<1>2. CASE UnwindCallback
  <2>1. PICK ip \in Offered :
          /\ seen' = Append(seen, ip)
          /\ \/ ip = NoPC /\ UNCHANGED <<gather, frames, framesSkip>>
             \/ /\ ip # NoPC /\ framesSkip > 0
                /\ framesSkip' = framesSkip - 1
                /\ UNCHANGED <<gather, frames>>
             \/ /\ ip # NoPC /\ framesSkip = 0
                /\ Store(ip)
                /\ UNCHANGED framesSkip
    BY <1>2 DEF UnwindCallback
  <2>2. ip \in Nat
    BY <2>1 DEF Offered
  <2>3. seen' \in Seq(Nat)
    BY <2>1, <2>2
  <2>4. UNCHANGED <<backend, pc, framesSize, fp, copied>>
    BY <1>2 DEF UnwindCallback
  <2>5. framesSkip' \in 0 .. 2
    BY <2>1
  <2>6. CASE UNCHANGED <<gather, frames>>
    BY <2>3, <2>4, <2>5, <2>6
  <2>7. CASE Store(ip)
    <3>1. framesSize < BACKTRACE_FRAMES_MAX
      BY <1>2 DEF UnwindCallback
    <3>2. frames' \in [0 .. BACKTRACE_FRAMES_MAX - 1 -> Nat]
      BY <2>2, <2>7 DEF Store
    <3>3. QED
      BY <2>3, <2>4, <2>5, <2>7, <3>1, <3>2 DEF Store
  <2>8. QED
    BY <2>1, <2>6, <2>7
<1>3. CASE FollowLink
  BY <1>3 DEF FollowLink, Followable, Offered, Store, Addresses
<1>4. CASE Count
  BY <1>4 DEF Count
<1>5. CASE StackEnds
  BY <1>5 DEF StackEnds
<1>6. CASE Corkscrew
  <2>1. PICK size \in -1 .. BACKTRACE_FRAMES_MAX :
            /\ Found(size)
            /\ frames' = [k \in DOMAIN frames |->
                             IF k < size THEN k + 1 ELSE frames[k]]
            /\ framesSize' = IF size >= 0 THEN size ELSE 0
            /\ gather' = IF framesSize' = 0 THEN "libunwind" ELSE "complete"
    BY <1>6 DEF Corkscrew
  <2>2. frames' \in [0 .. BACKTRACE_FRAMES_MAX - 1 -> Nat]
    BY <2>1
  <2>3. seen' \in Seq(Nat)
    BY <2>1, FoundSequence
  <2>4. framesSize' \in 0 .. BACKTRACE_FRAMES_MAX
    BY <2>1
  <2>5. UNCHANGED <<backend, pc, framesSkip, fp, copied>>
    BY <1>6 DEF Corkscrew
  <2>6. gather' \in {"libunwind", "complete"}
    BY <2>1
  <2>7. QED
    BY <2>2, <2>3, <2>4, <2>5, <2>6
<1>7. CASE Libunwind
  <2>1. PICK nb \in -1 .. BACKTRACE_FRAMES_MAX :
            Found(nb) /\ framesSize' = IF nb > 0 THEN nb ELSE 0
    BY <1>7 DEF Libunwind, LibunwindSignal
  <2>2. /\ seen' \in Seq(Nat)
        /\ Len(seen') = IF nb > 0 THEN nb ELSE 0
    BY <2>1, FoundSequence
  <2>3. /\ gather' = "copy" /\ copied \in 0 .. BACKTRACE_FRAMES_MAX
        /\ UNCHANGED <<backend, pc, frames, framesSkip, fp, copied>>
    BY <1>7 DEF Libunwind
  <2>4. framesSize' \in 0 .. BACKTRACE_FRAMES_MAX /\ framesSize' = Len(seen')
    BY <2>1, <2>2
  <2>5. QED
    BY <2>2, <2>3, <2>4
<1>8. CASE CopyFrame
  <2>1. /\ gather = "copy" /\ copied < framesSize /\ copied' = copied + 1
        /\ frames' = [frames EXCEPT ![copied] = seen[copied + 1]]
        /\ UNCHANGED <<backend, gather, pc, framesSize, framesSkip, fp, seen>>
    BY <1>8 DEF CopyFrame
  <2>2. copied + 1 \in 1 .. Len(seen) /\ copied + 1 <= framesSize
    BY <2>1 DEF CopyInv
  <2>3. seen[copied + 1] \in Nat
    BY <2>2
  <2>4. frames' \in [0 .. BACKTRACE_FRAMES_MAX - 1 -> Nat]
    BY <2>1, <2>3
  <2>5. QED
    BY <2>1, <2>2, <2>4
<1>9. CASE AllCopied
  BY <1>9 DEF AllCopied
<1>10. CASE BackOut
  BY <1>10 DEF BackOut
<1>11. QED
  BY <1>1, <1>2, <1>3, <1>4, <1>5, <1>6, <1>7, <1>8, <1>9, <1>10 DEF Gather

(* Nor does a copy run ahead of the count, or of what was found.            *)
LEMMA FramesStep ==
    ASSUME FramesInv, Extract \/ Gather \/ BackOut
    PROVE  FramesInv'
<1>1. /\ BacktraceTypeOK'
      /\ (gather = "walk" /\ backend = "unwind" =>
             framesSize < BACKTRACE_FRAMES_MAX)'
  BY TypesStep
<1>2. CopyInv'
  <2> USE DEF CopyInv, FramesInv
  <2>1. CASE Extract
    <3>1. copied' = 0 /\ gather' \in {"walk", "store"}
      BY <2>1 DEF Extract, Seed
    <3>2. QED
      BY <3>1
  <2>2. CASE UnwindCallback \/ FollowLink \/ Count \/ StackEnds
    <3>1. /\ copied' = copied /\ gather \in {"walk", "store"}
          /\ gather' \in {"walk", "store", "complete"}
      BY <2>2 DEF UnwindCallback, FollowLink, Count, StackEnds, Store
    <3>2. QED
      BY <3>1
  <2>3. CASE Corkscrew
    <3>1. /\ copied' = copied /\ gather = "walk"
          /\ gather' \in {"libunwind", "complete"}
      BY <2>3 DEF Corkscrew
    <3>2. QED
      BY <3>1
  <2>4. CASE Libunwind
    <3>1. PICK nb \in -1 .. BACKTRACE_FRAMES_MAX :
              Found(nb) /\ framesSize' = IF nb > 0 THEN nb ELSE 0
      BY <2>4 DEF Libunwind, LibunwindSignal
    <3>2. framesSize' = Len(seen') /\ framesSize' \in Nat
      BY <3>1, FoundSequence, FramesAssumption
    <3>3. copied' = 0 /\ gather' = "copy"
      BY <2>4 DEF Libunwind
    <3>4. QED
      BY <3>2, <3>3
  <2>5. CASE CopyFrame
    <3>1. /\ gather = "copy" /\ gather' = "copy" /\ copied < framesSize
          /\ copied' = copied + 1 /\ UNCHANGED <<framesSize, seen>>
          /\ framesSize \in Nat /\ copied \in Nat
      BY <2>5, FramesAssumption DEF CopyFrame, BacktraceTypeOK
    <3>2. QED
      BY <3>1
  <2>6. CASE AllCopied \/ BackOut
    <3>1. gather' \in {"complete", "partial", "torn"}
      BY <2>6 DEF AllCopied, BackOut
    <3>2. QED
      BY <3>1
  <2>7. QED
    BY <2>1, <2>2, <2>3, <2>4, <2>5, <2>6 DEF Gather
<1>3. QED
  BY <1>1, <1>2 DEF FramesInv

(* Outside the handler the frames stay as they are.                         *)
LEMMA FramesStay == FramesInv /\ UNCHANGED backtrace => FramesInv'
BY DEF FramesInv, CopyInv, BacktraceTypeOK, backtrace, Gathered

(***************************************************************************)
(* The frames are those of this crash.                                     *)
(***************************************************************************)
(* Wanted, of any backend and any stack.                                    *)
WantedOf(b, s) ==
    CASE b = "unwind" -> SubSeq(NonNull(s), 3, Len(NonNull(s)))
      [] b = "framepointer" ->
             IF s = <<>> THEN <<>> ELSE <<Head(s)>> \o NonNull(Tail(s))
      [] OTHER -> s

(* The frames in their slots, one of them perhaps not counted yet, or some  *)
(* of those counted not there yet.                                          *)
Stored == IF gather = "store" THEN framesSize + 1 ELSE InPlace

(* The first n slots hold the first n of w.                                 *)
Match(slots, n, w) == n <= Len(w) /\ \A k \in 1 .. n : slots[k - 1] = w[k]

(* What has been stored is what was wanted of the stack as far as it has    *)
(* been read, and the callback passes over the first two frames only.       *)
FaithInv ==
    /\ Match(frames, Stored, Wanted)
    /\ gather \in {"copy", "torn"} =>
           Stored <= framesSize /\ framesSize = Len(Wanted)
    /\ gather \notin {"copy", "torn", "partial"} => Stored = Len(Wanted)
    /\ gather \in {"walk", "store"} /\ backend = "unwind" =>
           framesSkip = IF Len(NonNull(seen)) < 2
                        THEN 2 - Len(NonNull(seen)) ELSE 0
    /\ gather \in {"walk", "store"} /\ backend = "framepointer" =>
           seen # <<>>
    /\ gather \in {"libunwind", "copy"} => backend = "corkscrew"

(* What is wanted of a stack is a sequence of program counters, and a frame *)
(* more of the stack is one more of them, or none.                          *)
LEMMA WantedGrows ==
    ASSUME NEW s \in Seq(Nat), NEW ip \in Nat
    PROVE  /\ WantedOf("unwind", Append(s, ip)) =
                  IF ip = NoPC \/ Len(NonNull(s)) < 2
                  THEN WantedOf("unwind", s)
                  ELSE Append(WantedOf("unwind", s), ip)
           /\ s # <<>> =>
                  WantedOf("framepointer", Append(s, ip)) =
                      IF ip = NoPC THEN WantedOf("framepointer", s)
                      ELSE Append(WantedOf("framepointer", s), ip)
<1>1. WantedOf("unwind", Append(s, ip)) =
          IF ip = NoPC \/ Len(NonNull(s)) < 2
          THEN WantedOf("unwind", s)
          ELSE Append(WantedOf("unwind", s), ip)
  <2> DEFINE nn == NonNull(s)
  <2>1. nn \in Seq(Nat) /\ Len(nn) \in Nat
    BY NonNullType
  <2>2. NonNull(Append(s, ip)) = IF ip = NoPC THEN nn ELSE Append(nn, ip)
    BY NonNullAppend
  <2>3. WantedOf("unwind", s) = SubSeq(nn, 3, Len(nn))
    BY DEF WantedOf
  <2>4. CASE ip = NoPC
    BY <2>2, <2>4 DEF WantedOf
  <2>5. CASE ip # NoPC /\ Len(nn) < 2
    <3> HIDE DEF nn
    <3>1. Len(Append(nn, ip)) < 3 /\ Len(Append(nn, ip)) \in Nat
      BY <2>1, <2>5
    <3>2. \A w \in Seq(Nat) : Len(w) < 3 => SubSeq(w, 3, Len(w)) = <<>>
      OBVIOUS
    <3>3. Append(nn, ip) \in Seq(Nat)
      BY <2>1
    <3>4. QED
      BY <2>1, <2>2, <2>5, <3>1, <3>2, <3>3 DEF WantedOf, nn
  <2>6. CASE ip # NoPC /\ Len(nn) >= 2
    <3> HIDE DEF nn
    <3>1. SubSeq(Append(nn, ip), 3, Len(Append(nn, ip)))
            = Append(SubSeq(nn, 3, Len(nn)), ip)
      <4> DEFINE u == Append(nn, ip)
                 v == SubSeq(nn, 3, Len(nn))
                 x == SubSeq(u, 3, Len(u))
                 y == Append(v, ip)
      <4>1. /\ u \in Seq(Nat) /\ Len(u) = Len(nn) + 1 /\ u[Len(u)] = ip
            /\ \A k \in 1 .. Len(nn) : u[k] = nn[k]
        BY <2>1
      <4>2. /\ v \in Seq(Nat) /\ Len(v) = Len(nn) - 2
            /\ \A k \in 1 .. Len(nn) - 2 : v[k] = nn[k + 2]
        <5>1. \A k \in 3 .. Len(nn) : nn[k] \in Nat
          BY <2>1
        <5>2. /\ v \in Seq(Nat)
              /\ Len(v) = IF 3 <= Len(nn) THEN Len(nn) - 3 + 1 ELSE 0
              /\ \A k \in 1 .. Len(nn) - 3 + 1 : v[k] = nn[3 + k - 1]
          BY <2>1, <5>1, SubSeqProperties
        <5> HIDE DEF v
        <5>3. Len(v) = Len(nn) - 2
          <6>1. \A l \in Nat : l >= 2 =>
                    (IF 3 <= l THEN l - 3 + 1 ELSE 0) = l - 2
            OBVIOUS
          <6>2. QED
            BY <2>1, <2>6, <5>2, <6>1
        <5>4. ASSUME NEW k \in 1 .. Len(nn) - 2 PROVE v[k] = nn[k + 2]
          <6>1. k \in 1 .. Len(nn) - 3 + 1 /\ 3 + k - 1 = k + 2
            BY <2>1
          <6>2. QED
            BY <5>2, <6>1
        <5>5. QED
          BY <5>2, <5>3, <5>4
      <4> HIDE DEF u, v
      <4>3. /\ x \in Seq(Nat) /\ Len(x) = Len(nn) - 1
            /\ \A k \in 1 .. Len(nn) - 1 : x[k] = u[k + 2]
        <5>1. \A k \in 3 .. Len(u) : u[k] \in Nat
          BY <2>1, <4>1
        <5>2. /\ x \in Seq(Nat)
              /\ Len(x) = IF 3 <= Len(u) THEN Len(u) - 3 + 1 ELSE 0
              /\ \A k \in 1 .. Len(u) - 3 + 1 : x[k] = u[3 + k - 1]
          BY <2>1, <4>1, <5>1, SubSeqProperties
        <5> HIDE DEF x
        <5>3. 3 <= Len(u) /\ Len(u) - 3 + 1 = Len(nn) - 1
          BY <2>1, <2>6, <4>1
        <5>4. ASSUME NEW k \in 1 .. Len(nn) - 1 PROVE x[k] = u[k + 2]
          <6>1. k \in 1 .. Len(u) - 3 + 1 /\ 3 + k - 1 = k + 2
            BY <2>1, <5>3
          <6>2. QED
            BY <5>2, <6>1
        <5>5. QED
          BY <5>2, <5>3, <5>4
      <4>4. /\ y \in Seq(Nat) /\ Len(y) = Len(nn) - 1
            /\ y[Len(nn) - 1] = ip
            /\ \A k \in 1 .. Len(nn) - 2 : y[k] = v[k]
        BY <2>1, <2>6, <4>2
      <4> HIDE DEF x, y
      <4>5. \A k \in 1 .. Len(nn) - 1 : x[k] = y[k]
        <5>1. ASSUME NEW k \in 1 .. Len(nn) - 2 PROVE x[k] = y[k]
          <6>1. k + 2 \in 1 .. Len(nn) /\ k \in 1 .. Len(nn) - 1
            BY <2>1
          <6>2. QED
            BY <4>1, <4>2, <4>3, <4>4, <6>1
        <5>2. x[Len(nn) - 1] = y[Len(nn) - 1]
          <6>1. /\ Len(nn) - 1 \in 1 .. Len(nn) - 1
                /\ (Len(nn) - 1) + 2 = Len(u)
            BY <2>1, <2>6, <4>1
          <6>2. x[Len(nn) - 1] = u[Len(u)]
            BY <4>3, <6>1
          <6>3. QED
            BY <4>1, <4>4, <6>2
        <5>3. QED
          BY <2>1, <5>1, <5>2
      <4>6. x = y
        BY <4>3, <4>4, <4>5, SeqEqual
      <4>7. QED
        BY <4>6 DEF u, v, x, y
    <3>2. WantedOf("unwind", Append(s, ip))
            = SubSeq(Append(nn, ip), 3, Len(Append(nn, ip)))
      BY <2>2, <2>6 DEF WantedOf
    <3>3. ~(Len(nn) < 2)
      BY <2>1, <2>6
    <3>4. QED
      BY <2>3, <2>6, <3>1, <3>2, <3>3 DEF nn
  <2>7. QED
    BY <2>1, <2>4, <2>5, <2>6
<1>2. ASSUME s # <<>>
      PROVE  WantedOf("framepointer", Append(s, ip)) =
                 IF ip = NoPC THEN WantedOf("framepointer", s)
                 ELSE Append(WantedOf("framepointer", s), ip)
  <2>1. /\ Append(s, ip) # <<>>
        /\ Head(Append(s, ip)) = Head(s)
        /\ Tail(Append(s, ip)) = Append(Tail(s), ip)
        /\ Tail(s) \in Seq(Nat) /\ Head(s) \in Nat
    BY <1>2
  <2>2. NonNull(Append(Tail(s), ip)) = IF ip = NoPC THEN NonNull(Tail(s))
                                       ELSE Append(NonNull(Tail(s)), ip)
    BY <2>1, NonNullAppend
  <2>3. NonNull(Tail(s)) \in Seq(Nat)
    BY <2>1, NonNullType
  <2>4. \A w \in Seq(Nat), h \in Nat :
            <<h>> \o Append(w, ip) = Append(<<h>> \o w, ip)
    OBVIOUS
  <2>5. QED
    BY <1>2, <2>1, <2>2, <2>3, <2>4 DEF WantedOf
<1>3. QED
  BY <1>1, <1>2

(* Storing what is wanted next, and taking back a frame not counted yet.    *)
LEMMA MatchGrows ==
    ASSUME NEW slots \in [0 .. BACKTRACE_FRAMES_MAX - 1 -> Nat],
           NEW n \in Nat, n < BACKTRACE_FRAMES_MAX,
           NEW w \in Seq(Nat), NEW ip \in Nat,
           n = Len(w), Match(slots, n, w)
    PROVE  Match([slots EXCEPT ![n] = ip], n + 1, Append(w, ip))
<1> DEFINE more == [slots EXCEPT ![n] = ip]
           u == Append(w, ip)
<1>1. /\ Len(u) = n + 1 /\ u[n + 1] = ip
      /\ \A k \in 1 .. n : u[k] = w[k]
  OBVIOUS
<1>2. more[n] = ip /\ \A k \in 1 .. n : more[k - 1] = slots[k - 1]
  BY FramesAssumption
<1> HIDE DEF more, u
<1>3. ASSUME NEW k \in 1 .. n + 1 PROVE more[k - 1] = u[k]
  <2>1. CASE k \in 1 .. n
    BY <1>1, <1>2, <2>1 DEF Match
  <2>2. CASE k = n + 1
    <3>1. k - 1 = n
      BY <2>2
    <3>2. QED
      BY <1>1, <1>2, <2>2, <3>1
  <2>3. QED
    BY <2>1, <2>2
<1>4. Match(more, n + 1, u)
  BY <1>1, <1>3 DEF Match
<1>5. QED
  BY <1>4 DEF more, u

LEMMA MatchShrinks ==
    ASSUME NEW slots, NEW w \in Seq(Nat), NEW n \in Nat, NEW m \in 0 .. n,
           Match(slots, n, w)
    PROVE  Match(slots, m, w)
BY DEF Match

(* A library has filled the slots from the first.                           *)
LEMMA FilledMatches ==
    ASSUME NEW nb \in -1 .. BACKTRACE_FRAMES_MAX, Found(nb),
           frames \in [0 .. BACKTRACE_FRAMES_MAX - 1 -> Nat],
           frames' = [k \in DOMAIN frames |->
                        IF k < nb THEN k + 1 ELSE frames[k]]
    PROVE  LET n == IF nb > 0 THEN nb ELSE 0 IN
           n = Len(seen') /\ Match(frames', n, seen')
<1> DEFINE n == IF nb > 0 THEN nb ELSE 0
<1>1. n \in Nat /\ n <= BACKTRACE_FRAMES_MAX /\ 1 .. nb = 1 .. n
  BY FramesAssumption
<1>2. Len(seen') = n /\ \A k \in 1 .. n : seen'[k] = k
  BY <1>1, FoundSequence
<1>3. ASSUME NEW k \in 1 .. n PROVE frames'[k - 1] = k
  <2>1. k - 1 \in 0 .. BACKTRACE_FRAMES_MAX - 1 /\ k - 1 < nb
    BY <1>1, FramesAssumption
  <2>2. QED
    BY <2>1
<1> HIDE DEF n
<1>4. QED
  BY <1>1, <1>2, <1>3 DEF Match, n

(* What is wanted of a stack is a sequence of program counters.             *)
LEMMA WantedType ==
    ASSUME NEW s \in Seq(Nat), NEW b
    PROVE  WantedOf(b, s) \in Seq(Nat)
<1>1. CASE b = "unwind"
  <2>1. NonNull(s) \in Seq(Nat) /\ Len(NonNull(s)) \in Nat
    BY NonNullType
  <2>2. \A k \in 3 .. Len(NonNull(s)) : NonNull(s)[k] \in Nat
    BY <2>1
  <2>3. SubSeq(NonNull(s), 3, Len(NonNull(s))) \in Seq(Nat)
    BY <2>1, <2>2, SubSeqProperties
  <2>4. QED
    BY <1>1, <2>3 DEF WantedOf
<1>2. CASE b = "framepointer"
  <2>1. CASE s = <<>>
    BY <1>2, <2>1 DEF WantedOf
  <2>2. CASE s # <<>>
    <3>1. Head(s) \in Nat /\ Tail(s) \in Seq(Nat)
      BY <2>2
    <3>2. NonNull(Tail(s)) \in Seq(Nat)
      BY <3>1, NonNullType
    <3>3. <<Head(s)>> \o NonNull(Tail(s)) \in Seq(Nat)
      BY <3>1, <3>2
    <3>4. QED
      BY <1>2, <2>2, <3>3 DEF WantedOf
  <2>3. QED
    BY <2>1, <2>2
<1>3. CASE b \notin {"unwind", "framepointer"}
  BY <1>3 DEF WantedOf
<1>4. QED
  BY <1>1, <1>2, <1>3

(* Nothing is wanted of no stack.                                           *)
LEMMA WantedOfNothing ==
    ASSUME NEW b
    PROVE  WantedOf(b, <<>>) = <<>>
<1>1. NonNull(<<>>) = <<>> /\ Len(<<>>) = 0
  BY NonNullEmpty
<1>2. SubSeq(<<>>, 3, 0) = <<>>
  BY SubSeqEmpty
<1>3. QED
  BY <1>1, <1>2 DEF WantedOf

(* The frames match before anything has been gathered ...                   *)
LEMMA FaithInit == BacktraceInit => FaithInv
<1> SUFFICES ASSUME BacktraceInit PROVE FaithInv
  OBVIOUS
<1>1. gather = "idle" /\ framesSize = 0 /\ seen = <<>>
  BY DEF BacktraceInit
<1>2. Wanted = <<>>
  BY <1>1, WantedOfNothing DEF Wanted, WantedOf
<1>3. Stored = 0
  BY <1>1 DEF Stored, InPlace
<1>4. QED
  BY <1>1, <1>2, <1>3 DEF FaithInv, Match

(* ... and every step of the gathering, a fault included, keeps them so.    *)
LEMMA FaithStep ==
    ASSUME FramesInv, FaithInv, Extract \/ Gather \/ BackOut
    PROVE  FaithInv'
<1> USE DEF FramesInv, BacktraceTypeOK
<1>0. /\ Wanted = WantedOf(backend, seen)
      /\ Wanted' = WantedOf(backend', seen')
      /\ Wanted \in Seq(Nat)
  BY WantedType DEF Wanted, WantedOf
<1>1. CASE Extract
  <2>1. CASE backend = "framepointer"
    <3>1. /\ gather' = "store" /\ framesSize' = 0 /\ backend' = backend
          /\ seen' = <<pc'>> /\ frames' = [frames EXCEPT ![0] = pc']
          /\ pc' \in Nat
      BY <1>1, <2>1 DEF Extract, Seed, TrapPCs, NoPC
    <3>2. Wanted' = <<pc'>>
      <4>1. <<pc'>> # <<>> /\ Head(<<pc'>>) = pc' /\ Tail(<<pc'>>) = <<>>
        OBVIOUS
      <4>2. <<pc'>> \o <<>> = <<pc'>>
        BY <3>1
      <4>3. QED
        BY <1>0, <2>1, <3>1, <4>1, <4>2, NonNullEmpty DEF WantedOf
    <3>3. frames'[0] = pc'
      BY <3>1, FramesAssumption
    <3>4. Stored' = 1
      BY <3>1 DEF Stored, InPlace
    <3>5. Match(frames', 1, <<pc'>>)
      BY <3>3 DEF Match
    <3>6. <<pc'>> # <<>> /\ Len(<<pc'>>) = 1
      OBVIOUS
    <3>7. QED
      BY <2>1, <3>1, <3>2, <3>4, <3>5, <3>6 DEF FaithInv
  <2>2. CASE backend # "framepointer"
    <3>1. /\ gather' = "walk" /\ framesSize' = 0 /\ framesSkip' = 2
          /\ backend' = backend /\ seen' = <<>>
      BY <1>1, <2>2 DEF Extract, Seed
    <3>2. Wanted' = <<>> /\ Stored' = 0
      BY <1>0, <3>1, WantedOfNothing DEF Stored, InPlace
    <3>3. QED
      BY <2>2, <3>1, <3>2, NonNullEmpty DEF FaithInv, Match
  <2>3. QED
    BY <2>1, <2>2
<1>2. CASE UnwindCallback
  <2>1. PICK ip \in Offered :
          /\ seen' = Append(seen, ip)
          /\ \/ ip = NoPC /\ UNCHANGED <<gather, frames, framesSkip>>
             \/ /\ ip # NoPC /\ framesSkip > 0
                /\ framesSkip' = framesSkip - 1
                /\ UNCHANGED <<gather, frames>>
             \/ /\ ip # NoPC /\ framesSkip = 0
                /\ Store(ip)
                /\ UNCHANGED framesSkip
    BY <1>2 DEF UnwindCallback
  <2>2. /\ gather = "walk" /\ backend = "unwind" /\ backend' = backend
        /\ framesSize' = framesSize /\ framesSize < BACKTRACE_FRAMES_MAX
        /\ framesSize \in Nat
    BY <1>2, FramesAssumption DEF UnwindCallback
  <2>3. ip \in Nat /\ seen \in Seq(Nat)
    BY <2>1 DEF Offered, NoPC
  <2>4. Wanted' = IF ip = NoPC \/ Len(NonNull(seen)) < 2 THEN Wanted
                  ELSE Append(Wanted, ip)
    BY <1>0, <2>1, <2>2, <2>3, WantedGrows
  <2>5. /\ NonNull(seen') = IF ip = NoPC THEN NonNull(seen)
                            ELSE Append(NonNull(seen), ip)
        /\ NonNull(seen) \in Seq(Nat)
    BY <2>1, <2>3, NonNullAppend, NonNullType
  <2>6. /\ framesSkip = IF Len(NonNull(seen)) < 2
                        THEN 2 - Len(NonNull(seen)) ELSE 0
        /\ Len(NonNull(seen)) \in Nat
        /\ Match(frames, framesSize, Wanted) /\ framesSize = Len(Wanted)
    BY <2>2, <2>5 DEF FaithInv, Stored, InPlace
  <2>7. CASE ip = NoPC
    <3>1. UNCHANGED <<gather, frames, framesSkip>>
      BY <2>1, <2>7
    <3>2. Wanted' = Wanted /\ NonNull(seen') = NonNull(seen)
      BY <2>4, <2>5, <2>7
    <3>3. QED
      BY <2>2, <2>6, <3>1, <3>2 DEF FaithInv, Stored, InPlace
  <2>8. CASE ip # NoPC /\ framesSkip > 0
    <3>1. UNCHANGED <<gather, frames>> /\ framesSkip' = framesSkip - 1
      BY <2>1, <2>8
    <3>2. Len(NonNull(seen)) < 2
      BY <2>6, <2>8
    <3>3. Wanted' = Wanted /\ Len(NonNull(seen')) = Len(NonNull(seen)) + 1
      BY <2>3, <2>4, <2>5, <2>8, <3>2
    <3>4. framesSkip' = IF Len(NonNull(seen')) < 2
                        THEN 2 - Len(NonNull(seen')) ELSE 0
      BY <2>6, <3>1, <3>2, <3>3
    <3>5. QED
      BY <2>2, <2>6, <3>1, <3>3, <3>4 DEF FaithInv, Stored, InPlace
  <2>9. CASE ip # NoPC /\ framesSkip = 0
    <3>1. /\ gather' = "store" /\ framesSkip' = framesSkip
          /\ frames' = [frames EXCEPT ![framesSize] = ip]
      BY <2>1, <2>9 DEF Store
    <3>2. ~(Len(NonNull(seen)) < 2)
      <4>1. \A l \in Nat : l < 2 => 2 - l # 0
        OBVIOUS
      <4>2. QED
        BY <2>6, <2>9, <4>1
    <3>3. /\ Wanted' = Append(Wanted, ip)
          /\ Len(NonNull(seen')) = Len(NonNull(seen)) + 1
      BY <2>3, <2>4, <2>5, <2>9, <3>2
    <3>4. Match(frames', framesSize + 1, Wanted')
      BY <1>0, <2>2, <2>3, <2>6, <3>1, <3>3, MatchGrows
    <3>5. Stored' = framesSize + 1 /\ Len(Wanted') = framesSize + 1
      BY <1>0, <2>2, <2>3, <2>6, <3>1, <3>3 DEF Stored, InPlace
    <3>6. framesSkip' = IF Len(NonNull(seen')) < 2
                        THEN 2 - Len(NonNull(seen')) ELSE 0
      BY <2>6, <2>9, <3>1, <3>2, <3>3
    <3>7. QED
      BY <2>2, <3>1, <3>4, <3>5, <3>6 DEF FaithInv
  <2>10. framesSkip \in Nat
    OBVIOUS
  <2>11. QED
    BY <2>7, <2>8, <2>9, <2>10
<1>3. CASE FollowLink
  <2>1. PICK ret \in Offered :
          /\ seen' = Append(seen, ret)
          /\ IF ret = NoPC THEN UNCHANGED <<gather, frames>> ELSE Store(ret)
    BY <1>3 DEF FollowLink
  <2>2. /\ gather = "walk" /\ backend = "framepointer" /\ backend' = backend
        /\ framesSize' = framesSize /\ framesSize < BACKTRACE_FRAMES_MAX
        /\ framesSize \in Nat
    BY <1>3, FramesAssumption DEF FollowLink, Followable
  <2>3. ret \in Nat /\ seen \in Seq(Nat) /\ seen # <<>>
    BY <2>1, <2>2 DEF Offered, NoPC, FaithInv
  <2>4. Wanted' = IF ret = NoPC THEN Wanted ELSE Append(Wanted, ret)
    BY <1>0, <2>1, <2>2, <2>3, WantedGrows
  <2>5. seen' # <<>>
    BY <2>1, <2>3
  <2>6. Match(frames, framesSize, Wanted) /\ framesSize = Len(Wanted)
    BY <2>2 DEF FaithInv, Stored, InPlace
  <2>7. CASE ret = NoPC
    <3>1. UNCHANGED <<gather, frames>> /\ Wanted' = Wanted
      BY <2>1, <2>4, <2>7
    <3>2. QED
      BY <2>2, <2>5, <2>6, <3>1 DEF FaithInv, Stored, InPlace
  <2>8. CASE ret # NoPC
    <3>1. /\ gather' = "store"
          /\ frames' = [frames EXCEPT ![framesSize] = ret]
          /\ Wanted' = Append(Wanted, ret)
      BY <2>1, <2>4, <2>8 DEF Store
    <3>2. Match(frames', framesSize + 1, Wanted')
      BY <1>0, <2>2, <2>3, <2>6, <3>1, MatchGrows
    <3>3. Stored' = framesSize + 1 /\ Len(Wanted') = framesSize + 1
      BY <1>0, <2>2, <2>3, <2>6, <3>1 DEF Stored, InPlace
    <3>4. QED
      BY <2>2, <2>5, <3>1, <3>2, <3>3 DEF FaithInv
  <2>9. QED
    BY <2>7, <2>8
<1>4. CASE Count
  <2>1. /\ gather = "store" /\ gather' \in {"walk", "complete"}
        /\ framesSize' = framesSize + 1
        /\ UNCHANGED <<backend, frames, framesSkip, seen>>
    BY <1>4 DEF Count
  <2>2. Wanted' = Wanted /\ Stored' = Stored
    BY <1>0, <2>1 DEF Stored, InPlace
  <2>3. QED
    BY <2>1, <2>2 DEF FaithInv
<1>5. CASE StackEnds
  <2>1. /\ gather = "walk" /\ gather' = "complete"
        /\ UNCHANGED <<backend, frames, framesSize, framesSkip, seen>>
    BY <1>5 DEF StackEnds
  <2>2. Wanted' = Wanted /\ Stored' = Stored
    BY <1>0, <2>1 DEF Stored, InPlace
  <2>3. QED
    BY <2>1, <2>2 DEF FaithInv
<1>6. CASE Corkscrew
  <2>1. /\ backend = "corkscrew" /\ backend' = backend
        /\ gather' \in {"libunwind", "complete"}
    BY <1>6 DEF Corkscrew
  <2>2. PICK size \in -1 .. BACKTRACE_FRAMES_MAX :
          /\ Found(size)
          /\ frames' = [k \in DOMAIN frames |->
                           IF k < size THEN k + 1 ELSE frames[k]]
          /\ framesSize' = IF size >= 0 THEN size ELSE 0
    BY <1>6 DEF Corkscrew
  <2>3. framesSize' = IF size > 0 THEN size ELSE 0
    BY <2>2, FramesAssumption
  <2>4. framesSize' = Len(seen') /\ Match(frames', framesSize', seen')
    BY <2>2, <2>3, FilledMatches
  <2>5. Wanted' = seen' /\ Stored' = framesSize'
    BY <1>0, <2>1 DEF WantedOf, Stored, InPlace
  <2>6. QED
    BY <2>1, <2>4, <2>5 DEF FaithInv
<1>7. CASE Libunwind
  <2>1. /\ gather = "libunwind" /\ gather' = "copy"
        /\ UNCHANGED <<backend, frames, copied>>
    BY <1>7 DEF Libunwind
  <2>2. backend = "corkscrew" /\ copied' = 0
    BY <2>1 DEF FaithInv, CopyInv
  <2>3. PICK nb \in -1 .. BACKTRACE_FRAMES_MAX :
          Found(nb) /\ framesSize' = IF nb > 0 THEN nb ELSE 0
    BY <1>7 DEF Libunwind, LibunwindSignal
  <2>4. framesSize' = Len(seen') /\ framesSize' \in Nat
    BY <2>3, FoundSequence, FramesAssumption
  <2>5. Wanted' = seen' /\ Stored' = 0
    BY <1>0, <2>1, <2>2 DEF WantedOf, Stored, InPlace
  <2>6. Match(frames', 0, seen')
    BY <2>4 DEF Match
  <2>7. QED
    BY <2>1, <2>2, <2>4, <2>5, <2>6 DEF FaithInv
<1>8. CASE CopyFrame
  <2>1. /\ gather = "copy" /\ copied < framesSize /\ copied' = copied + 1
        /\ frames' = [frames EXCEPT ![copied] = seen[copied + 1]]
        /\ UNCHANGED <<backend, gather, framesSize, seen>>
    BY <1>8 DEF CopyFrame
  <2>2. /\ Wanted = seen /\ Wanted' = seen /\ framesSize = Len(seen)
        /\ Stored = copied /\ Stored' = copied + 1 /\ backend = "corkscrew"
        /\ Match(frames, copied, seen)
    BY <1>0, <2>1 DEF FaithInv, WantedOf, Stored, InPlace
  <2>3. ASSUME NEW k \in 1 .. copied + 1 PROVE frames'[k - 1] = seen[k]
    <3>1. copied \in Nat /\ copied < BACKTRACE_FRAMES_MAX
      BY <2>1, FramesAssumption
    <3>2. CASE k = copied + 1
      BY <2>1, <3>1, <3>2, FramesAssumption
    <3>3. CASE k \in 1 .. copied
      BY <2>1, <2>2, <3>1, <3>3, FramesAssumption DEF Match
    <3>4. QED
      BY <3>1, <3>2, <3>3
  <2>4. Match(frames', copied + 1, seen)
    BY <2>1, <2>2, <2>3 DEF Match
  <2>5. copied + 1 <= framesSize
    BY <2>1
  <2>6. QED
    BY <2>1, <2>2, <2>4, <2>5 DEF FaithInv
<1>9. CASE AllCopied
  <2>1. /\ gather = "copy" /\ copied = framesSize /\ gather' = "complete"
        /\ UNCHANGED <<backend, frames, framesSize, seen>>
    BY <1>9 DEF AllCopied
  <2>2. Wanted' = Wanted /\ Stored' = Stored
    BY <1>0, <2>1 DEF Stored, InPlace
  <2>3. Stored = framesSize
    BY <2>1 DEF Stored, InPlace
  <2>4. QED
    BY <2>1, <2>2, <2>3 DEF FaithInv
<1>10. CASE BackOut
  <2>1. UNCHANGED <<backend, frames, framesSize, copied, seen>>
    BY <1>10 DEF BackOut
  <2>2. Wanted' = Wanted
    BY <1>0, <2>1
  <2>3. CASE gather = "copy"
    <3>1. gather' = "torn"
      BY <1>10, <2>3 DEF BackOut
    <3>2. Stored' = Stored
      BY <2>1, <2>3, <3>1 DEF Stored, InPlace
    <3>3. QED
      BY <2>1, <2>2, <2>3, <3>1, <3>2 DEF FaithInv
  <2>4. CASE gather # "copy"
    <3>1. gather' = "partial" /\ gather \in {"walk", "store", "libunwind"}
      BY <1>10, <2>4 DEF BackOut
    <3>2. /\ Stored' = framesSize /\ Stored \in Nat
          /\ framesSize \in 0 .. Stored
      BY <2>1, <3>1, FramesAssumption DEF Stored, InPlace
    <3>3. Match(frames, framesSize, Wanted)
      BY <1>0, <3>2, MatchShrinks DEF FaithInv
    <3>4. QED
      BY <2>1, <2>2, <3>1, <3>2, <3>3 DEF FaithInv
  <2>5. QED
    BY <2>3, <2>4
<1>11. QED
  BY <1>1, <1>2, <1>3, <1>4, <1>5, <1>6, <1>7, <1>8, <1>9, <1>10 DEF Gather

(* The invariant is what FramesFaithful says, and a frame on its way.       *)
LEMMA FaithfulByInv == FramesInv /\ FaithInv => FramesFaithful
<1> SUFFICES ASSUME FramesInv, FaithInv PROVE FramesFaithful
  OBVIOUS
<1>1. framesSize \in Nat /\ InPlace \in Nat /\ Stored \in Nat
  BY FramesAssumption DEF FramesInv, BacktraceTypeOK, Stored, InPlace
<1>2. InPlace <= Stored
  BY <1>1 DEF Stored, InPlace
<1>3. Wanted \in Seq(Nat)
  BY WantedType DEF FramesInv, BacktraceTypeOK, Wanted, WantedOf
<1>4. Match(frames, InPlace, Wanted)
  BY <1>1, <1>2, <1>3, MatchShrinks DEF FaithInv
<1>5. framesSize <= Len(Wanted)
  <2>1. CASE gather \in {"copy", "torn"}
    BY <1>1, <2>1 DEF FaithInv
  <2>2. CASE gather \notin {"copy", "torn"}
    BY <1>4, <2>2 DEF Match, InPlace
  <2>3. QED
    BY <2>1, <2>2
<1>6. gather = "complete" => framesSize = Len(Wanted)
  BY DEF FaithInv, Stored, InPlace
<1>7. QED
  BY <1>4, <1>5, <1>6 DEF FramesFaithful, Match

(* Outside the handler nothing of it changes.                               *)
LEMMA FaithStays == FaithInv /\ UNCHANGED backtrace => FaithInv'
BY DEF FaithInv, Stored, InPlace, Wanted, backtrace

(***************************************************************************)
(* The index.                                                              *)
(***************************************************************************)
(* A number below the modulus is its own remainder; one that has wrapped    *)
(* below zero comes out just under the modulus.                             *)
LEMMA Remainder ==
    ASSUME NEW n \in Nat, NEW x \in Int, n > 0
    PROVE  /\ 0 <= x /\ x < n => x % n = x
           /\ -n <= x /\ x < 0 => x % n = x + n
OBVIOUS

(* An index is right for every number of frames and every width: the sum of *)
(* the size and a negative index, taken modulo the width, converts back to  *)
(* the sum.                                                                 *)
LEMMA IndexArithmetic == FramesInv => IndexRight
<1> SUFFICES ASSUME FramesInv, NEW n \in Indices
             PROVE  GetBacktrace(n) =
                        IF n \in 0 .. framesSize - 1 THEN n
                        ELSE IF n \in -framesSize .. -1 THEN framesSize + n
                        ELSE -1
  BY DEF IndexRight
<1>1. /\ SSIZE_MAX \in Nat /\ SIZE_RANGE \in Nat /\ SIZE_RANGE > 0
      /\ SIZE_RANGE = 2 * SSIZE_MAX + 2
  BY FramesAssumption DEF SIZE_RANGE
<1>2. framesSize \in Nat /\ framesSize <= SSIZE_MAX
  BY FramesAssumption DEF FramesInv, BacktraceTypeOK
<1>3. n \in Int /\ -(SSIZE_MAX + 1) <= n /\ n <= SSIZE_MAX
  BY <1>1 DEF Indices
<1>4. CASE n >= 0
  BY <1>2, <1>3, <1>4 DEF GetBacktrace
<1>5. CASE n < 0
  <2> DEFINE sum == framesSize + n
             size == sum % SIZE_RANGE
  <2>1. /\ sum \in Int
        /\ -(SSIZE_MAX + 1) <= sum /\ sum < SSIZE_MAX
        /\ -SIZE_RANGE <= sum /\ sum < SIZE_RANGE
    BY <1>1, <1>2, <1>3, <1>5
  <2>2. size = IF sum < 0 THEN sum + SIZE_RANGE ELSE sum
    <3> HIDE DEF sum
    <3>1. QED
      BY <1>1, <2>1, Remainder
  <2>3. ToSSize(size) = sum
    <3> HIDE DEF size, sum
    <3>1. QED
      BY <1>1, <2>1, <2>2 DEF ToSSize
  <2>4. GetBacktrace(n) = IF sum >= 0 /\ sum < framesSize THEN sum ELSE -1
    BY <1>5, <2>3 DEF GetBacktrace
  <2>5. QED
    BY <1>2, <1>3, <1>5, <2>4
<1>6. QED
  BY <1>3, <1>4, <1>5

(***************************************************************************)
(* The gathering comes nearer to its end.                                  *)
(***************************************************************************)
(* The unwinder offers no more frames than the stack has.                   *)
DepthInv == gather \in {"walk", "store"} /\ backend = "unwind" =>
                Len(seen) <= MaxDepth

(* A walk starts with nothing read, and reads one frame at a time.          *)
LEMMA DepthStep ==
    ASSUME FramesInv, DepthInv, Extract \/ Gather \/ BackOut
    PROVE  DepthInv'
<1> USE StackAssumption DEF DepthInv
<1>1. CASE Extract
  BY <1>1 DEF Extract, Seed
<1>2. CASE UnwindCallback
  <2>1. PICK ip \in Offered : seen' = Append(seen, ip)
    BY <1>2 DEF UnwindCallback
  <2>2. ip \in Nat /\ seen \in Seq(Nat)
    BY <2>1 DEF Offered, NoPC, FramesInv, BacktraceTypeOK
  <2>3. Len(seen') = Len(seen) + 1
    BY <2>1, <2>2
  <2>4. Len(seen) < MaxDepth /\ Len(seen) \in Nat
    BY <1>2, <2>2 DEF UnwindCallback
  <2>5. QED
    BY <2>3, <2>4
<1>3. CASE FollowLink
  BY <1>3 DEF FollowLink
<1>4. CASE Count \/ StackEnds \/ BackOut
  BY <1>4 DEF Count, StackEnds, BackOut
<1>5. CASE Corkscrew \/ Libunwind \/ CopyFrame \/ AllCopied
  BY <1>5 DEF Corkscrew, Libunwind, CopyFrame, AllCopied
<1>6. QED
  BY <1>1, <1>2, <1>3, <1>4, <1>5 DEF Gather

(* The measure is a natural number.                                         *)
LEMMA StepsLeftNat ==
    ASSUME FramesInv, DepthInv
    PROVE  /\ StepsLeft \in Nat
           /\ gather \in {"walk", "store"} => Ahead \in Nat
<1>1. /\ Len(seen) \in Nat /\ fp \in 0 .. TopAddress
      /\ MaxDepth \in Nat /\ TopAddress \in Nat
  BY StackAssumption DEF FramesInv, BacktraceTypeOK, Addresses
<1>2. gather \in {"walk", "store"} => Ahead \in Nat
  BY <1>1, FramesAssumption DEF DepthInv, Ahead
<1>3. gather = "copy" => framesSize - copied + 1 \in Nat
  BY FramesAssumption DEF FramesInv, BacktraceTypeOK, CopyInv
<1>4. QED
  BY <1>2, <1>3, FramesAssumption DEF StepsLeft

(* Each step from inside the gathering makes it smaller.                    *)
LEMMA StepsLeftFalls ==
    ASSUME FramesInv, DepthInv, Extract \/ Gather \/ BackOut,
           gather # "idle", ~Gathered
    PROVE  StepsLeft' \in Nat /\ StepsLeft' < StepsLeft
<1>1. FramesInv' /\ DepthInv'
  BY FramesStep, DepthStep
<1>2. /\ StepsLeft' \in Nat
      /\ gather' \in {"walk", "store"} => Ahead' \in Nat
  <2>1. SUFFICES ASSUME FramesInv', DepthInv'
                 PROVE  /\ StepsLeft' \in Nat
                        /\ gather' \in {"walk", "store"} => Ahead' \in Nat
    BY <1>1
  <2>2. /\ Len(seen') \in Nat /\ fp' \in 0 .. TopAddress
        /\ MaxDepth \in Nat /\ TopAddress \in Nat
    BY <2>1, StackAssumption DEF FramesInv, BacktraceTypeOK, Addresses
  <2>3. gather' \in {"walk", "store"} => Ahead' \in Nat
    BY <2>1, <2>2, FramesAssumption DEF DepthInv, Ahead
  <2>4. gather' = "copy" => framesSize' - copied' + 1 \in Nat
    <3>1. framesSize' \in Nat /\ copied' \in Nat
      BY <2>1, FramesAssumption DEF FramesInv, BacktraceTypeOK
    <3>2. gather' = "copy" => copied' <= framesSize'
      BY <2>1 DEF FramesInv, CopyInv
    <3>3. \A n, k \in Nat : k <= n => n - k + 1 \in Nat
      OBVIOUS
    <3>4. QED
      BY <3>1, <3>2, <3>3
  <2>5. QED
    BY <2>3, <2>4, FramesAssumption DEF StepsLeft
<1>3. StepsLeft \in Nat /\ (gather \in {"walk", "store"} => Ahead \in Nat)
  BY StepsLeftNat
<1>4. CASE UnwindCallback
  <2>1. PICK ip \in Offered : seen' = Append(seen, ip)
    BY <1>4 DEF UnwindCallback
  <2>2. ip \in Nat /\ seen \in Seq(Nat)
    BY <2>1 DEF Offered, NoPC, FramesInv, BacktraceTypeOK
  <2>3. Len(seen') = Len(seen) + 1 /\ Len(seen) \in Nat
    BY <2>1, <2>2
  <2>4. gather = "walk" /\ gather' \in {"walk", "store"} /\ backend = "unwind"
        /\ backend' = backend
    BY <1>4 DEF UnwindCallback, Store
  <2>5. Ahead' = Ahead - 1
    BY <2>3, <2>4, StackAssumption DEF Ahead
  <2>6. QED
    BY <1>2, <1>3, <2>4, <2>5 DEF StepsLeft
<1>5. CASE FollowLink
  <2>1. /\ gather = "walk" /\ gather' \in {"walk", "store"}
        /\ backend = "framepointer" /\ backend' = backend /\ fp # 0
    BY <1>5 DEF FollowLink, Followable, Store
  <2>2. /\ fp \in 0 .. TopAddress /\ fp' \in 0 .. TopAddress
        /\ TopAddress \in Nat
    BY <1>1, StackAssumption DEF FramesInv, BacktraceTypeOK, Addresses
  <2>3. PICK next \in Addresses : fp' = IF next <= fp THEN 0 ELSE next
    BY <1>5 DEF FollowLink
  <2>4. fp' = 0 \/ fp' > fp
    BY <2>2, <2>3 DEF Addresses
  <2>5. Ahead' < Ahead
    BY <2>1, <2>2, <2>4 DEF Ahead
  <2>6. QED
    BY <1>2, <1>3, <2>1, <2>5 DEF StepsLeft
<1>6. CASE Count
  <2>1. /\ gather = "store" /\ gather' \in {"walk", "complete"}
        /\ UNCHANGED <<backend, fp, seen>>
    BY <1>6 DEF Count
  <2>2. Ahead' = Ahead
    BY <2>1 DEF Ahead
  <2>3. QED
    BY <1>3, <2>1, <2>2 DEF StepsLeft
<1>7. CASE StackEnds \/ AllCopied \/ BackOut
  <2>1. /\ gather \in {"walk", "store", "libunwind", "copy"}
        /\ gather' \in {"complete", "partial", "torn"}
    BY <1>7 DEF StackEnds, AllCopied, BackOut
  <2>2. StepsLeft' = 0
    BY <2>1 DEF StepsLeft
  <2>3. StepsLeft > 0
    <3>1. gather = "copy" => framesSize - copied + 1 > 0
      BY FramesAssumption DEF FramesInv, BacktraceTypeOK, CopyInv
    <3>2. QED
      BY <1>3, <2>1, <3>1, FramesAssumption DEF StepsLeft
  <2>4. QED
    BY <2>2, <2>3
<1>8. CASE Corkscrew
  <2>1. /\ gather = "walk" /\ backend = "corkscrew"
        /\ gather' \in {"complete", "libunwind"}
    BY <1>8 DEF Corkscrew
  <2>2. /\ StepsLeft = 2 * (BACKTRACE_FRAMES_MAX + 1) + 1
        /\ StepsLeft' \in {0, BACKTRACE_FRAMES_MAX + 2}
    BY <2>1 DEF StepsLeft, Ahead
  <2>3. QED
    BY <2>2, FramesAssumption
<1>9. CASE Libunwind
  <2>1. /\ gather = "libunwind" /\ gather' = "copy"
        /\ framesSize' \in 0 .. BACKTRACE_FRAMES_MAX /\ copied' = 0
    BY <1>1, <1>9 DEF Libunwind, FramesInv, BacktraceTypeOK, CopyInv
  <2>2. /\ StepsLeft = BACKTRACE_FRAMES_MAX + 2
        /\ StepsLeft' = framesSize' - 0 + 1
    BY <2>1 DEF StepsLeft
  <2>3. \A n \in 0 .. BACKTRACE_FRAMES_MAX :
            n - 0 + 1 \in Nat /\ n - 0 + 1 < BACKTRACE_FRAMES_MAX + 2
    BY FramesAssumption
  <2>4. QED
    BY <2>1, <2>2, <2>3
<1>10. CASE CopyFrame
  <2>1. /\ gather = "copy" /\ gather' = "copy"
        /\ framesSize' = framesSize /\ copied' = copied + 1
        /\ framesSize \in Nat /\ copied \in Nat
    BY <1>10, FramesAssumption DEF CopyFrame, FramesInv, BacktraceTypeOK
  <2>2. /\ StepsLeft = framesSize - copied + 1
        /\ StepsLeft' = framesSize - (copied + 1) + 1
    BY <2>1 DEF StepsLeft
  <2>3. QED
    BY <1>2, <2>1, <2>2
<1>11. ~Extract
  BY DEF Extract
<1>12. QED
  BY <1>4, <1>5, <1>6, <1>7, <1>8, <1>9, <1>10, <1>11 DEF Gather

=============================================================================
