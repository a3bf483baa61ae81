------------------------------ MODULE JniProofs ------------------------------
(***************************************************************************)
(* Proofs about Jni, and with it about the gathering of module Backtrace   *)
(* and the formatting of module Message: for every length of the array of  *)
(* frames, of the buffer and of the texts, every width of the machine's    *)
(* integers and every set of refusals.                                     *)
(***************************************************************************)
EXTENDS Jni, BacktraceProofs, MessageProofs, FiniteSetTheorems, TLAPS

(***************************************************************************)
(* The frames.                                                             *)
(***************************************************************************)
(* The frames are gathered in the handler and nowhere else.                 *)
LEMMA OutsideHandler == [Next]_vars => InHandler \/ UNCHANGED backtrace
<1>1. ThrowException => UNCHANGED backtrace
  BY DEF ThrowException, FindClasses, GetMessage, NewMessage, NewCause,
         NewElements, SkipFrame, BtFun, DeleteFrameLocals, SetStackTrace,
         NewException, Throw, Release
<1>2. Returned \/ UNCHANGED vars => UNCHANGED backtrace
  BY DEF Returned, vars
<1>3. QED
  BY <1>1, <1>2 DEF Next

(* The array of frames is never overrun, whatever the stack holds and       *)
(* whenever the gathering is interrupted.                                   *)
THEOREM FramesCorrect == Spec => []FramesInv
<1>1. Init => FramesInv
  BY FramesInit DEF Init
<1>2. FramesInv /\ [Next]_vars => FramesInv'
  <2> SUFFICES ASSUME FramesInv, [Next]_vars PROVE FramesInv'
    OBVIOUS
  <2>1. CASE InHandler
    BY <2>1, FramesStep DEF InHandler
  <2>2. InHandler \/ UNCHANGED backtrace
    BY OutsideHandler
  <2>3. QED
    BY <2>1, <2>2, FramesStay
<1>3. QED
  BY <1>1, <1>2, PTL DEF Spec

(* coffeecatch_get_backtrace() reads the frame its caller means, or none.   *)
THEOREM IndexCorrect == Spec => []IndexRight
BY FramesCorrect, IndexArithmetic, PTL

(***************************************************************************)
(* The local references.                                                   *)
(***************************************************************************)
Always == Locals({"cls", "cls_ste", "str"})
Trace == Always \cup Locals({"cause", "elements"})

(* What the VM keeps at each step; and there is a cause exactly on the way  *)
(* that has frames.                                                         *)
LiveInv ==
    /\ step = "crashed" => live = {}
    /\ step = "message" => live = Locals({"cls", "cls_ste"})
    /\ step = "cause" => live = Always /\ framesSize > 0
    /\ step = "elements" =>
           live = Always \cup Locals({"cause"}) /\ framesSize > 0
    /\ step = "frames" => live = Trace /\ framesSize > 0
    /\ step = "element" => live = Trace \cup FrameLocals /\ framesSize > 0
    /\ step = "exception" => live = Always \cup Causes
    /\ step \in {"throw", "release"} =>
           live = Always \/ live = Always \cup Locals({"exception"})
    /\ step = "returned" => live = {}
    /\ step \in Steps
    /\ misused = FALSE

(* The references follow the code step by step.                             *)
LEMMA LiveStep == LiveInv /\ [Next]_vars => LiveInv'
<1> SUFFICES ASSUME LiveInv, [Next]_vars PROVE LiveInv'
  OBVIOUS
<1> USE DEF LiveInv, Steps, Locals, Local, Uses, Always, Trace, Causes
<1>1. CASE InHandler
  BY <1>1 DEF InHandler, jni
<1>2. CASE FindClasses
  BY <1>2 DEF FindClasses, backtrace
<1>3. CASE GetMessage
  BY <1>3 DEF GetMessage, backtrace, jni
<1>4. CASE NewMessage
  <2>1. /\ live = Locals({"cls", "cls_ste"}) /\ live' = Always
        /\ framesSize' = framesSize
    BY <1>4 DEF NewMessage, backtrace
  <2>2. \/ step' = "cause" /\ framesSize > 0
        \/ step' = "exception" /\ Causes' = {}
    BY <1>4, <2>1 DEF NewMessage
  <2>3. misused' = FALSE
    BY <1>4 DEF NewMessage
  <2>4. QED
    BY <2>1, <2>2, <2>3
<1>5. CASE NewCause
  BY <1>5 DEF NewCause, backtrace
<1>6. CASE NewElements
  <2>1. /\ live = Always \cup Locals({"cause"}) /\ framesSize > 0
        /\ framesSize' = framesSize
    BY <1>6 DEF NewElements, backtrace
  <2>2. \/ step' = "frames" /\ live' = Trace
        \/ step' = "exception" /\ live' = Always \cup Causes'
    <3>1. CASE live' = live \cup {Local("elements")} /\ step' = "frames"
      BY <2>1, <3>1
    <3>2. CASE live' = live /\ step' = "exception"
      BY <2>1, <3>2
    <3>3. QED
      BY <1>6, <3>1, <3>2 DEF NewElements
  <2>3. misused' = FALSE
    BY <1>6, <2>1 DEF NewElements
  <2>4. QED
    BY <2>1, <2>2, <2>3
<1>7. CASE SkipFrame
  BY <1>7 DEF SkipFrame, EachFrame, backtrace
<1>8. CASE BtFun
  <2>1. /\ live' = Trace \cup FrameLocals
        /\ step' = "element"
        /\ framesSize' > 0
        /\ FrameLocals' = FrameLocals
    BY <1>8 DEF BtFun, EachFrame, FrameLocals, backtrace
  <2>2. misused' = FALSE
    BY <1>8 DEF BtFun, EachFrame
  <2>3. QED
    BY <2>1, <2>2
<1>9. CASE DeleteFrameLocals
  <2>1. live' = Trace
    <3>1. live = Trace \cup FrameLocals /\ live' = live \ FrameLocals
      BY <1>9 DEF DeleteFrameLocals
    <3>2. Trace \cap FrameLocals = {}
      BY DEF FrameLocals
    <3>3. QED
      BY <3>1, <3>2
  <2>2. step' = "frames" /\ framesSize' > 0
    BY <1>9 DEF DeleteFrameLocals, backtrace
  <2>3. misused' = FALSE
    BY <1>9 DEF DeleteFrameLocals
  <2>4. QED
    BY <2>1, <2>2, <2>3
<1>10. CASE SetStackTrace
  <2>1. live' = Always \cup Causes'
    <3>1. live = Trace /\ live' = live \ {Local("elements")}
      BY <1>10 DEF SetStackTrace
    <3>2. Causes' = {Local("cause")}
      BY <1>10 DEF SetStackTrace, backtrace
    <3>3. QED
      BY <3>1, <3>2
  <2>2. step' = "exception"
    BY <1>10 DEF SetStackTrace
  <2>3. misused' = FALSE
    BY <1>10 DEF SetStackTrace
  <2>4. QED
    BY <2>1, <2>2, <2>3
<1>11. CASE NewException
  <2>1. live \ Causes = Always
    BY <1>11 DEF NewException
  <2>2. \/ live' = Always
        \/ live' = Always \cup Locals({"exception"})
    BY <1>11, <2>1 DEF NewException
  <2>3. step' = "throw"
    BY <1>11 DEF NewException
  <2>4. misused' = FALSE
    BY <1>11 DEF NewException
  <2>5. QED
    BY <2>2, <2>3, <2>4
<1>12. CASE Throw
  BY <1>12 DEF Throw, backtrace
<1>13. CASE Release
  BY <1>13 DEF Release, backtrace
<1>14. CASE Returned \/ UNCHANGED vars
  BY <1>14 DEF Returned, vars, jni, backtrace, FrameLocals
<1>15. QED
  BY <1>1, <1>2, <1>3, <1>4, <1>5, <1>6, <1>7, <1>8, <1>9, <1>10, <1>11,
     <1>12, <1>13, <1>14 DEF Next, ThrowException

(* The references, at every step of every behaviour.                        *)
LEMMA LiveCorrect == Spec => []LiveInv
<1>1. Init => LiveInv
  BY DEF Init, LiveInv, Steps
<1>2. QED
  BY <1>1, LiveStep, PTL DEF Spec

(* Nothing that coffeecatch_throw_exception() makes outlives it.            *)
THEOREM ReleasedCorrect == Spec => []LocalsReleased
<1>1. LiveInv => LocalsReleased
  BY DEF LiveInv, LocalsReleased
<1>2. QED
  BY <1>1, LiveCorrect, PTL

(* No call is given a reference that is not there, whatever was refused.    *)
THEOREM RefsCorrect == Spec => []RefsLive
<1>1. LiveInv => RefsLive
  BY DEF LiveInv, RefsLive
<1>2. QED
  BY <1>1, LiveCorrect, PTL

(* A set with at most one element more.                                     *)
Grows(S, T) ==
    /\ IsFiniteSet(T)
    /\ Cardinality(T) \in Nat
    /\ Cardinality(T) <= Cardinality(S) + 1

(* One more element makes a set larger by at most one.                      *)
LEMMA OneMore ==
    ASSUME NEW S, IsFiniteSet(S), NEW x
    PROVE  Grows(S, S \cup {x})
<1>1. /\ IsFiniteSet(S \cup {x})
      /\ Cardinality(S \cup {x}) = IF x \in S THEN Cardinality(S)
                                   ELSE Cardinality(S) + 1
  BY FS_AddElement
<1>2. Cardinality(S) \in Nat
  BY FS_CardinalityType
<1>3. QED
  BY <1>1, <1>2 DEF Grows

(* Nine references are enough for a backtrace of any length.                *)
THEOREM BoundedCorrect ==
    ASSUME LocalCapacity >= 9
    PROVE  Spec => []LocalsBounded
<1> DEFINE S1 == {Local("cls")}
           S2 == S1 \cup {Local("cls_ste")}
           S3 == S2 \cup {Local("str")}
           S4 == S3 \cup {Local("cause")}
           S5 == S4 \cup {Local("elements")}
           S6 == S5 \cup {<<"declaringClass", i>>}
           S7 == S6 \cup {<<"methodName", i>>}
           S8 == S7 \cup {<<"fileName", i>>}
           S9 == S8 \cup {<<"trace", i>>}
           X4 == S3 \cup {Local("exception")}
<1> HIDE DEF S1, S2, S3, S4, S5, S6, S7, S8, S9, X4
<1>1. IsFiniteSet(S1) /\ Cardinality(S1) = 1
  <2>1. \A x : IsFiniteSet({x}) /\ Cardinality({x}) = 1
    BY FS_Singleton
  <2>2. QED
    BY <2>1 DEF S1
<1>2. Grows(S1, S2)
  BY <1>1, OneMore DEF S2
<1>3. Grows(S2, S3)
  BY <1>2, OneMore DEF Grows, S3
<1>4. IsFiniteSet(X4) /\ Cardinality(X4) \in Nat /\ Cardinality(X4) <= 4
  <2>1. Grows(S3, X4)
    BY <1>3, OneMore DEF Grows, X4
  <2>2. QED
    BY <1>1, <1>2, <1>3, <2>1 DEF Grows
<1>5. IsFiniteSet(S9) /\ Cardinality(S9) \in Nat /\ Cardinality(S9) <= 9
  <2>1. Grows(S3, S4)
    BY <1>3, OneMore DEF Grows, S4
  <2>2. Grows(S4, S5)
    BY <2>1, OneMore DEF Grows, S5
  <2>3. Grows(S5, S6)
    BY <2>2, OneMore DEF Grows, S6
  <2>4. Grows(S6, S7)
    BY <2>3, OneMore DEF Grows, S7
  <2>5. Grows(S7, S8)
    BY <2>4, OneMore DEF Grows, S8
  <2>6. Grows(S8, S9)
    BY <2>5, OneMore DEF Grows, S9
  <2>7. QED
    BY <1>1, <1>2, <1>3, <2>1, <2>2, <2>3, <2>4, <2>5, <2>6 DEF Grows
<1>6. LiveInv => live \subseteq X4 \/ live \subseteq S9
  BY DEF LiveInv, Steps, Always, Trace, Causes, Locals, Local, FrameLocals,
         S1, S2, S3, S4, S5, S6, S7, S8, S9, X4
<1>7. LiveInv => LocalsBounded
  <2>1. ASSUME live \subseteq X4 PROVE LocalsBounded
    <3>1. IsFiniteSet(live) /\ Cardinality(live) <= Cardinality(X4)
      BY <1>4, <2>1, FS_Subset
    <3>2. Cardinality(live) \in Nat
      BY <3>1, FS_CardinalityType
    <3>3. QED
      BY <1>4, <3>1, <3>2, CapacityAssumption DEF LocalsBounded
  <2>2. ASSUME live \subseteq S9 PROVE LocalsBounded
    <3>1. IsFiniteSet(live) /\ Cardinality(live) <= Cardinality(S9)
      BY <1>5, <2>2, FS_Subset
    <3>2. Cardinality(live) \in Nat
      BY <3>1, FS_CardinalityType
    <3>3. QED
      BY <1>5, <3>1, <3>2, CapacityAssumption DEF LocalsBounded
  <2>3. QED
    BY <1>6, <2>1, <2>2
<1>8. QED
  BY <1>7, LiveCorrect, PTL

(***************************************************************************)
(* The exception.                                                          *)
(***************************************************************************)
(* What has been thrown at each step; without an exception the VM has       *)
(* refused one.                                                             *)
ThrownInv ==
    /\ step \notin {"release", "returned"} => thrown = <<>>
    /\ step = "throw" /\ Local("exception") \notin live =>
           MayRefuse("exception")
    /\ step \in {"release", "returned"} =>
           /\ Len(thrown) = 1
           /\ thrown[1] = "message" => MayRefuse("exception")
           /\ thrown[1] = "simple" => framesSize = 0

(* Only Throw() throws, and only once.                                      *)
LEMMA ThrownStep == FramesInv /\ ThrownInv /\ [Next]_vars => ThrownInv'
<1> SUFFICES ASSUME FramesInv, ThrownInv, [Next]_vars PROVE ThrownInv'
  OBVIOUS
<1> USE DEF ThrownInv, Local, MayRefuse
<1>1. CASE InHandler
  BY <1>1 DEF InHandler, jni
<1>2. CASE \/ FindClasses \/ GetMessage \/ NewMessage \/ NewCause
           \/ NewElements \/ SetStackTrace
  BY <1>2 DEF FindClasses, GetMessage, NewMessage, NewCause, NewElements,
              SetStackTrace, jni
<1>3. CASE SkipFrame \/ BtFun \/ DeleteFrameLocals
  BY <1>3 DEF SkipFrame, BtFun, DeleteFrameLocals, EachFrame
<1>4. CASE NewException
  BY <1>4 DEF NewException
<1>5. CASE Throw
  <2> DEFINE what == IF Local("exception") \notin live THEN "message"
                     ELSE IF framesSize > 0 THEN "with a cause"
                     ELSE "simple"
  <2>1. thrown' = Append(<<>>, what)
    BY <1>5 DEF Throw
  <2>2. Len(thrown') = 1 /\ thrown'[1] = what
    <3> HIDE DEF what
    <3>1. QED
      BY <2>1
  <2>3. what = "message" => MayRefuse("exception")
    BY <1>5 DEF Throw
  <2>4. what = "simple" => framesSize' = 0
    <3>1. framesSize' = framesSize
      BY <1>5 DEF Throw, backtrace
    <3>2. framesSize \in Nat
      BY FramesAssumption DEF FramesInv, BacktraceTypeOK
    <3>3. what = "simple" => ~(framesSize > 0)
      OBVIOUS
    <3>4. QED
      BY <3>1, <3>2, <3>3
  <2>5. step' = "release"
    BY <1>5 DEF Throw
  <2>6. QED
    BY <2>2, <2>3, <2>4, <2>5
<1>6. CASE Release
  BY <1>6 DEF Release, backtrace
<1>7. CASE Returned \/ UNCHANGED vars
  BY <1>7 DEF Returned, vars, jni, backtrace
<1>8. QED
  BY <1>1, <1>2, <1>3, <1>4, <1>5, <1>6, <1>7 DEF Next, ThrowException

(* Java gets one throwable, with a cause if there are frames and the VM     *)
(* refuses nothing.                                                         *)
THEOREM ThrownCorrect == Spec => []ThrownOnce
<1>1. Init => ThrownInv
  BY DEF Init, ThrownInv
<1>2. ThrownInv => ThrownOnce
  BY DEF ThrownInv, ThrownOnce
<1>3. QED
  BY <1>1, <1>2, ThrownStep, FramesCorrect, PTL DEF Spec

(***************************************************************************)
(* The message.                                                            *)
(***************************************************************************)
(* The buffer is touched by the message's own steps and no other.           *)
LEMMA MessageStep == MessageInv /\ [Next]_vars => MessageInv'
<1> SUFFICES ASSUME MessageInv, [Next]_vars PROVE MessageInv'
  OBVIOUS
<1>1. CASE FindClasses
  <2>1. (pc # NoPC) \in BOOLEAN
    OBVIOUS
  <2>2. QED
    BY <1>1, <2>1, StartMessageRight DEF FindClasses
<1>2. CASE GetMessage
  BY <1>2, FormatRight DEF GetMessage
<1>3. CASE UNCHANGED message
  BY <1>3 DEF message, MessageInv
<1>4. FindClasses \/ GetMessage \/ UNCHANGED message
  BY DEF Next, InHandler, ThrowException, NewMessage, NewCause, NewElements,
         SkipFrame, BtFun, DeleteFrameLocals, SetStackTrace, NewException,
         Throw, Release, Returned, vars
<1>5. QED
  BY <1>1, <1>2, <1>3, <1>4

(* However long the parts of a message are, it fits its buffer and is what  *)
(* it should be as far as it goes.                                          *)
THEOREM MessageCorrect == Spec => []MessageFits
<1>1. Init => MessageInv
  BY MessageInvInit DEF Init
<1>2. QED
  BY <1>1, MessageStep, FitsByInv, PTL DEF Spec

(***************************************************************************)
(* Types.                                                                  *)
(***************************************************************************)
(* The loop's index keeps to the frames, the next element's to the index,   *)
(* and the array has one element per frame.                                 *)
LoopInv ==
    /\ format \in {"idle", "formatting", "formatted"}
    /\ i \in Nat /\ index \in Nat /\ elements \in Seq(Nat)
    /\ i <= framesSize
    /\ index <= i + 1
    /\ step = "crashed" => i = 0 /\ index = 0
    /\ step = "frames" => index <= i
    /\ step = "element" => i < framesSize
    /\ step \in {"frames", "element"} => Len(elements) = framesSize

(* The loop's variables, step by step.                                      *)
LEMMA LoopStep == FramesInv /\ LoopInv /\ [Next]_vars => LoopInv'
<1> SUFFICES ASSUME FramesInv, LoopInv, [Next]_vars PROVE LoopInv'
  OBVIOUS
<1>0. /\ framesSize \in Nat
      /\ \A k \in Nat : k < framesSize => frames[k] \in Nat
  BY FramesAssumption DEF FramesInv, BacktraceTypeOK
<1>1. CASE InHandler
  <2>1. FramesInv'
    BY <1>1, FramesStep DEF InHandler
  <2>2. framesSize' \in Nat
    BY <2>1, FramesAssumption DEF FramesInv, BacktraceTypeOK
  <2>3. QED
    BY <1>1, <2>2 DEF InHandler, LoopInv, jni, message
<1>2. CASE FindClasses
  BY <1>0, <1>2 DEF FindClasses, StartMessage, LoopInv, backtrace
<1>3. CASE GetMessage
  BY <1>0, <1>3 DEF GetMessage, Format, PrintPart, Terminate, LoopInv,
                    backtrace, jni
<1>4. CASE NewElements
  <2>1. CASE step' = "frames"
    <3>1. /\ i' = 0 /\ index' = 0
          /\ elements' = [k \in 1 .. framesSize |-> NoPC]
          /\ framesSize' = framesSize /\ format' = format
      BY <1>4, <2>1 DEF NewElements, backtrace, message
    <3>2. elements' \in Seq(Nat) /\ Len(elements') = framesSize
      BY <1>0, <3>1 DEF NoPC
    <3>3. QED
      BY <1>0, <2>1, <3>1, <3>2 DEF LoopInv
  <2>2. CASE step' # "frames"
    BY <1>0, <1>4, <2>2 DEF NewElements, LoopInv, backtrace, message
  <2>3. QED
    BY <2>1, <2>2
<1>5. CASE BtFun
  <2>1. /\ i < framesSize /\ frames[i] \in Nat /\ step = "frames"
        /\ step' = "element"
        /\ i' = i /\ framesSize' = framesSize /\ format' = format
    BY <1>0, <1>5 DEF BtFun, EachFrame, LoopInv, backtrace, message
  <2>2. CASE index < framesSize
    <3>1. /\ elements' = [elements EXCEPT ![index + 1] = frames[i]]
          /\ index' = index + 1
      BY <1>5, <2>2 DEF BtFun
    <3>2. index + 1 \in 1 .. Len(elements)
      BY <1>0, <2>1, <2>2 DEF LoopInv
    <3>3. elements' \in Seq(Nat) /\ Len(elements') = Len(elements)
      BY <2>1, <3>1, <3>2, ExceptSeq DEF LoopInv
    <3>4. QED
      BY <1>0, <2>1, <3>1, <3>3 DEF LoopInv
  <2>3. CASE ~(index < framesSize)
    BY <1>0, <1>5, <2>1, <2>3 DEF BtFun, LoopInv
  <2>4. QED
    BY <2>2, <2>3
<1>6. CASE SkipFrame
  BY <1>0, <1>6 DEF SkipFrame, EachFrame, LoopInv, backtrace, message
<1>7. CASE DeleteFrameLocals
  BY <1>0, <1>7 DEF DeleteFrameLocals, LoopInv, backtrace, message
<1>8. CASE NewMessage \/ NewCause \/ SetStackTrace
  BY <1>0, <1>8 DEF NewMessage, NewCause, SetStackTrace, LoopInv, backtrace,
                    message
<1>9. CASE NewException \/ Throw \/ Release
  BY <1>0, <1>9 DEF NewException, Throw, Release, LoopInv, backtrace, message
<1>10. CASE Returned \/ UNCHANGED vars
  BY <1>10 DEF Returned, vars, jni, backtrace, message, LoopInv
<1>11. QED
  BY <1>1, <1>2, <1>3, <1>4, <1>5, <1>6, <1>7, <1>8, <1>9, <1>10
     DEF Next, ThrowException

(* The loop's variables, at every step of every behaviour.                  *)
LEMMA LoopCorrect == Spec => []LoopInv
<1>1. Init => LoopInv
  <2> SUFFICES ASSUME Init PROVE LoopInv
    OBVIOUS
  <2>1. framesSize = 0 /\ format = "idle"
    BY DEF Init, BacktraceInit, MessageInit
  <2>2. QED
    BY <2>1 DEF Init, LoopInv
<1>2. QED
  BY <1>1, LoopStep, FramesCorrect, PTL DEF Spec

(* Every variable keeps its type: no more frames than slots, no element     *)
(* beyond the array, whatever the stack holds and the VM refuses.           *)
THEOREM TypeCorrect == Spec => []TypeOK
<1>1. FramesInv /\ LiveInv /\ LoopInv => TypeOK
  <2> SUFFICES ASSUME FramesInv, LiveInv, LoopInv PROVE TypeOK
    OBVIOUS
  <2>1. BacktraceTypeOK /\ framesSize \in Nat
    BY FramesAssumption DEF FramesInv, BacktraceTypeOK
  <2>2. step \in Steps
    BY DEF LiveInv
  <2>3. QED
    BY <2>1, <2>2 DEF LoopInv, TypeOK
<1>2. QED
  BY <1>1, LoopCorrect, FramesCorrect, LiveCorrect, PTL

(***************************************************************************)
(* The stack trace.                                                        *)
(***************************************************************************)
(* The frames that are those of the crash, wherever a fault has stopped the *)
(* gathering; but for those libunwind has counted and nobody has copied.    *)
THEOREM FaithfulCorrect == Spec => []FramesFaithful
<1>1. Init => FaithInv
  BY FaithInit DEF Init
<1>2. FramesInv /\ FaithInv /\ [Next]_vars => FaithInv'
  <2> SUFFICES ASSUME FramesInv, FaithInv, [Next]_vars PROVE FaithInv'
    OBVIOUS
  <2>1. CASE InHandler
    BY <2>1, FaithStep DEF InHandler
  <2>2. InHandler \/ UNCHANGED backtrace
    BY OutsideHandler
  <2>3. QED
    BY <2>1, <2>2, FaithStays
<1>3. QED
  BY <1>1, <1>2, FramesCorrect, FaithfulByInv, PTL DEF Spec

(* The gathering never goes back: however deep the stack and wherever its   *)
(* links lead, rings included, each step of the handler in there leaves it  *)
(* fewer to take.                                                           *)
THEOREM WalkProgress == Spec => WalkAdvances
<1>1. Init => DepthInv
  BY DEF Init, BacktraceInit, DepthInv
<1>2. FramesInv /\ DepthInv /\ [Next]_vars => DepthInv'
  <2> SUFFICES ASSUME FramesInv, DepthInv, [Next]_vars PROVE DepthInv'
    OBVIOUS
  <2>1. CASE InHandler
    BY <2>1, DepthStep DEF InHandler
  <2>2. CASE UNCHANGED backtrace
    BY <2>2 DEF backtrace, DepthInv
  <2>3. QED
    BY <2>1, <2>2, OutsideHandler
<1>3. FramesInv /\ DepthInv /\ [Next]_vars =>
          [gather # "idle" /\ ~Gathered =>
               StepsLeft' \in Nat /\ StepsLeft' < StepsLeft]_backtrace
  <2> SUFFICES ASSUME FramesInv, DepthInv, [Next]_vars, ~UNCHANGED backtrace,
                      gather # "idle", ~Gathered
               PROVE  StepsLeft' \in Nat /\ StepsLeft' < StepsLeft
    OBVIOUS
  <2>1. Extract \/ Gather \/ BackOut
    BY OutsideHandler DEF InHandler
  <2>2. QED
    BY <2>1, StepsLeftFalls
<1>4. QED
  BY <1>1, <1>2, <1>3, FramesCorrect, PTL DEF Spec, WalkAdvances

(* The first n frames, and a trace whose elements are those of w, then      *)
(* nulls.                                                                   *)
FirstFrames(n) == [k \in 1 .. n |-> frames[k - 1]]
Shows(trace, w) ==
    \A k \in 1 .. Len(trace) :
        trace[k] = IF k <= Len(w) THEN w[k] ELSE NoPC

(* The loop has set an element for each frame it has read that is not NULL. *)
Told(n) ==
    /\ index = Len(NonNull(FirstFrames(n)))
    /\ Shows(elements, NonNull(FirstFrames(n)))
TraceInv ==
    /\ step \in {"crashed", "message", "cause", "elements"} =>
           elements = <<>>
    /\ step = "frames" => Told(i)
    /\ step = "element" => Told(i + 1)
    /\ step \in {"exception", "throw", "release", "returned"} =>
           Shows(elements, NonNull(FirstFrames(framesSize)))

(* One frame more is one program counter more, and unless that is NULL one  *)
(* more to tell.                                                            *)
LEMMA OneFrameMore ==
    ASSUME FramesInv, NEW n \in Nat, n < framesSize
    PROVE  /\ FirstFrames(n) \in Seq(Nat)
           /\ NonNull(FirstFrames(n)) \in Seq(Nat)
           /\ Len(NonNull(FirstFrames(n))) <= n
           /\ NonNull(FirstFrames(n + 1)) =
                  IF frames[n] = NoPC THEN NonNull(FirstFrames(n))
                  ELSE Append(NonNull(FirstFrames(n)), frames[n])
<1>1. \A k \in 0 .. n : frames[k] \in Nat
  BY FramesAssumption DEF FramesInv, BacktraceTypeOK
<1>2. FirstFrames(n) \in Seq(Nat) /\ Len(FirstFrames(n)) = n
  BY <1>1 DEF FirstFrames
<1>3. FirstFrames(n + 1) = Append(FirstFrames(n), frames[n])
  <2> DEFINE s == FirstFrames(n + 1)
             u == Append(FirstFrames(n), frames[n])
  <2>1. s \in Seq(Nat) /\ Len(s) = n + 1
    <3>1. \A k \in 1 .. n + 1 : frames[k - 1] \in Nat
      BY <1>1
    <3>2. QED
      BY <3>1 DEF FirstFrames
  <2>2. u \in Seq(Nat) /\ Len(u) = n + 1
    BY <1>1, <1>2
  <2>3. ASSUME NEW k \in 1 .. n + 1 PROVE s[k] = u[k]
    <3>1. s[k] = frames[k - 1]
      BY DEF FirstFrames
    <3>2. CASE k \in 1 .. n
      <4>1. u[k] = FirstFrames(n)[k]
        BY <1>1, <1>2, <3>2
      <4>2. FirstFrames(n)[k] = frames[k - 1]
        BY <3>2 DEF FirstFrames
      <4> HIDE DEF s, u
      <4>3. QED
        BY <3>1, <4>1, <4>2
    <3>3. CASE k = n + 1
      <4>1. u[k] = frames[n] /\ k - 1 = n
        BY <1>1, <1>2, <3>3
      <4> HIDE DEF s, u
      <4>2. QED
        BY <3>1, <4>1
    <3> HIDE DEF s, u
    <3>4. QED
      BY <3>2, <3>3
  <2> HIDE DEF s, u
  <2>4. s = u
    BY <2>1, <2>2, <2>3, SeqEqual
  <2>5. QED
    BY <2>4 DEF s, u
<1>4. /\ NonNull(FirstFrames(n)) \in Seq(Nat)
      /\ Len(NonNull(FirstFrames(n))) <= n
  BY <1>2, NonNullType
<1>5. frames[n] \in Nat
  BY <1>1
<1>6. QED
  BY <1>2, <1>3, <1>4, <1>5, NonNullAppend

(* The loop goes through the frames in order.                               *)
LEMMA TraceStep ==
    FramesInv /\ LoopInv /\ TraceInv /\ [Next]_vars => TraceInv'
<1> SUFFICES ASSUME FramesInv, LoopInv, TraceInv, [Next]_vars
             PROVE  TraceInv'
  OBVIOUS
<1>0. framesSize \in Nat /\ i \in Nat /\ elements \in Seq(Nat)
  BY FramesAssumption DEF FramesInv, BacktraceTypeOK, LoopInv
<1>1. CASE InHandler
  BY <1>1 DEF InHandler, jni, TraceInv
<1>2. CASE FindClasses \/ GetMessage \/ NewMessage \/ NewCause
  <2>1. /\ step \in {"message", "cause", "crashed"}
        /\ step' \in {"message", "cause", "elements", "exception"}
        /\ elements' = elements
    BY <1>2 DEF FindClasses, GetMessage, NewMessage, NewCause, jni
  <2>2. elements' = <<>>
    BY <2>1 DEF TraceInv
  <2>3. QED
    BY <2>1, <2>2 DEF TraceInv, Shows
<1>3. CASE NewElements
  <2>1. CASE step' = "frames"
    <3>1. /\ i' = 0 /\ index' = 0 /\ frames' = frames
          /\ elements' = [k \in 1 .. framesSize |-> NoPC]
      BY <1>3, <2>1 DEF NewElements, backtrace
    <3>2. FirstFrames(0)' = <<>>
      BY DEF FirstFrames
    <3>3. Len(elements') = framesSize
      BY <1>0, <3>1 DEF NoPC
    <3>4. NonNull(FirstFrames(0)') = <<>> /\ Len(<<>>) = 0
      BY <3>2, NonNullEmpty
    <3>5. \A k \in 1 .. Len(elements') : elements'[k] = NoPC
      BY <3>1, <3>3
    <3>6. Shows(elements', <<>>)
      BY <3>5 DEF Shows
    <3>7. QED
      BY <2>1, <3>1, <3>4, <3>6 DEF TraceInv, Told
  <2>2. CASE step' # "frames"
    BY <1>3, <2>2 DEF NewElements, TraceInv, Shows
  <2>3. QED
    BY <2>1, <2>2
<1>4. CASE SkipFrame
  <2>1. /\ step = "frames" /\ step' = "frames" /\ i < framesSize
        /\ frames[i] = NoPC /\ i' = i + 1
        /\ UNCHANGED <<frames, framesSize, index, elements>>
    BY <1>4 DEF SkipFrame, EachFrame, backtrace
  <2>2. NonNull(FirstFrames(i + 1)) = NonNull(FirstFrames(i))
    BY <1>0, <2>1, OneFrameMore
  <2>3. Told(i)
    BY <2>1 DEF TraceInv
  <2>4. Told(i)' <=> Told(i + 1)
    BY <2>1 DEF Told, FirstFrames
  <2>5. QED
    BY <2>1, <2>2, <2>3, <2>4 DEF TraceInv, Told
<1>5. CASE BtFun
  <2> DEFINE w == NonNull(FirstFrames(i))
  <2>1. /\ step = "frames" /\ step' = "element" /\ i < framesSize
        /\ frames[i] # NoPC /\ i' = i
        /\ UNCHANGED <<frames, framesSize>>
    BY <1>5 DEF BtFun, EachFrame, backtrace
  <2>2. /\ w \in Seq(Nat) /\ Len(w) <= i
        /\ NonNull(FirstFrames(i + 1)) = Append(w, frames[i])
        /\ frames[i] \in Nat
    <3>1. frames[i] \in Nat
      BY <1>0, <2>1, FramesAssumption DEF FramesInv, BacktraceTypeOK
    <3>2. QED
      BY <1>0, <2>1, <3>1, OneFrameMore
  <2>3. index = Len(w) /\ Shows(elements, w) /\ Len(elements) = framesSize
    BY <2>1 DEF TraceInv, Told, LoopInv
  <2>4. Len(w) \in Nat /\ index < framesSize
    BY <1>0, <2>1, <2>2, <2>3
  <2>5. /\ elements' = [elements EXCEPT ![index + 1] = frames[i]]
        /\ index' = index + 1
    BY <1>5, <2>4 DEF BtFun
  <2> DEFINE u == Append(w, frames[i])
  <2>6. /\ Len(u) = Len(w) + 1 /\ u[Len(w) + 1] = frames[i]
        /\ \A k \in 1 .. Len(w) : u[k] = w[k]
    BY <2>2
  <2>7. /\ Len(elements') = Len(elements)
        /\ \A k \in 1 .. Len(elements) :
               elements'[k] = IF k = index + 1 THEN frames[i]
                              ELSE elements[k]
    <3>1. index + 1 \in 1 .. Len(elements)
      BY <1>0, <2>3, <2>4
    <3>2. QED
      BY <1>0, <2>2, <2>5, <3>1, ExceptSeq
  <2> HIDE DEF u, w
  <2>8. Shows(elements', u)
    <3> SUFFICES ASSUME NEW k \in 1 .. Len(elements)
                 PROVE  elements'[k] = IF k <= Len(u) THEN u[k] ELSE NoPC
      BY <2>7 DEF Shows
    <3>1. elements[k] = IF k <= Len(w) THEN w[k] ELSE NoPC
      BY <2>3 DEF Shows
    <3>2. CASE k = Len(w) + 1
      BY <2>3, <2>4, <2>6, <2>7, <3>2
    <3>3. CASE k # Len(w) + 1
      <4>1. elements'[k] = elements[k]
        BY <2>3, <2>7, <3>3
      <4>2. k <= Len(u) <=> k \in 1 .. Len(w)
        BY <2>4, <2>6, <3>3
      <4>3. k <= Len(w) <=> k \in 1 .. Len(w)
        BY <2>4
      <4>4. QED
        BY <2>6, <3>1, <4>1, <4>2, <4>3
    <3>4. QED
      BY <3>2, <3>3
  <2>9. Told(i + 1)'
    <3>1. NonNull(FirstFrames(i + 1))' = u
      BY <2>1, <2>2 DEF FirstFrames, u
    <3>2. QED
      BY <2>3, <2>5, <2>6, <2>8, <3>1 DEF Told
  <2>10. QED
    BY <2>1, <2>9 DEF TraceInv
<1>6. CASE DeleteFrameLocals
  <2>1. /\ step = "element" /\ step' = "frames" /\ i' = i + 1
        /\ UNCHANGED <<frames, framesSize, index, elements>>
    BY <1>6 DEF DeleteFrameLocals, backtrace
  <2>2. Told(i + 1)
    BY <2>1 DEF TraceInv
  <2>3. Told(i)' <=> Told(i + 1)
    BY <2>1 DEF Told, FirstFrames
  <2>4. QED
    BY <2>1, <2>2, <2>3 DEF TraceInv
<1>7. CASE SetStackTrace
  <2>1. /\ step = "frames" /\ i = framesSize /\ step' = "exception"
        /\ UNCHANGED <<frames, framesSize, elements>>
    BY <1>7 DEF SetStackTrace, backtrace
  <2>2. Told(framesSize)
    BY <2>1 DEF TraceInv
  <2>3. FirstFrames(framesSize)' = FirstFrames(framesSize)
    BY <2>1 DEF FirstFrames
  <2>4. QED
    BY <2>1, <2>2, <2>3 DEF TraceInv, Told
<1>8. CASE NewException \/ Throw \/ Release \/ Returned \/ UNCHANGED vars
  <2>1. /\ UNCHANGED <<frames, framesSize, elements>>
        /\ \/ step \in {"exception", "throw", "release", "returned"}
              /\ step' \in {"exception", "throw", "release", "returned"}
           \/ UNCHANGED <<step, i, index>>
    BY <1>8 DEF NewException, Throw, Release, Returned, vars, jni, backtrace
  <2>2. \A n : FirstFrames(n)' = FirstFrames(n)
    BY <2>1 DEF FirstFrames
  <2>3. CASE UNCHANGED <<step, i, index>>
    BY <2>1, <2>2, <2>3 DEF TraceInv, Told, FirstFrames
  <2>4. CASE /\ step \in {"exception", "throw", "release", "returned"}
             /\ step' \in {"exception", "throw", "release", "returned"}
    BY <2>1, <2>2, <2>4 DEF TraceInv, FirstFrames
  <2>5. QED
    BY <2>1, <2>3, <2>4
<1>9. QED
  BY <1>1, <1>2, <1>3, <1>4, <1>5, <1>6, <1>7, <1>8 DEF Next, ThrowException

(* The stack trace is the frames of the crash that are not NULL, in order,  *)
(* for a backtrace of any length and wherever NULLs are in it.              *)
THEOREM TraceCorrect == Spec => []TraceMatches
<1>1. Init => TraceInv
  BY DEF Init, TraceInv
<1>2. TraceInv => TraceMatches
  BY DEF TraceInv, Shows, FirstFrames, TraceMatches
<1>3. QED
  BY <1>1, <1>2, TraceStep, LoopCorrect, FramesCorrect, PTL DEF Spec

=============================================================================
