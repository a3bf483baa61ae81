--------------------------------- MODULE Jni ---------------------------------
(***************************************************************************)
(* COFFEE_TRY_JNI(): a crash in native code becomes a Java exception.  The *)
(* handler gathers the frames (module Backtrace) and jumps to the          *)
(* COFFEE_CATCH block, where coffeecatch_throw_exception() asks for the    *)
(* message (module Message) and builds the exception, one stack trace      *)
(* element per frame.                                                      *)
(*                                                                         *)
(* What the Java VM keeps for the thread is the set of local references.   *)
(* A local is named by the variable that holds it and by the turn of the   *)
(* loop it belongs to, so that a reference nobody deletes stays there.     *)
(***************************************************************************)
EXTENDS Backtrace, Message, FiniteSets

CONSTANTS
    Refusals,      \* calls that may return NULL: see RefusalKinds
    LocalCapacity  \* local references the code may hold at once

(* The failures coffeecatch_throw_exception() looks for: of                 *)
(* NewObjectArray() and of the last NewObject().                            *)
RefusalKinds == {"elements", "exception"}
ASSUME RefusalsAssumption == Refusals \subseteq RefusalKinds
ASSUME CapacityAssumption == LocalCapacity \in Nat

VARIABLES
    step,      \* where the crashed thread is: see Steps
    live,      \* local references the VM keeps
    i,         \* the frame coffeecatch_get_backtrace_info() is at
    index,     \* t.index, the next element to set
    elements,  \* the stack trace elements, by their pc; NoPC is a null
    thrown,    \* what has been thrown
    misused    \* history: a call was given a reference that is not live

jni == <<step, live, i, index, elements, thrown, misused>>
vars == <<backtrace, message, jni>>

Steps == {"crashed", "message", "cause", "elements", "frames", "element",
          "exception", "throw", "release", "returned"}

Local(name) == <<name, 0>>
Locals(names) == {Local(name) : name \in names}
FrameLocals == {<<name, i>> : name \in {"declaringClass", "methodName",
                                        "fileName", "trace"}}
Uses(locals) == misused' = (misused \/ ~(locals \subseteq live))
MayRefuse(call) == call \in Refusals

Init ==
    /\ BacktraceInit
    /\ MessageInit
    /\ step = "crashed"
    /\ live = {}
    /\ i = 0
    /\ index = 0
    /\ elements = <<>>
    /\ thrown = <<>>
    /\ misused = FALSE

---------------------------------------------------------------------------
(* In the handler, until it jumps.                                          *)
InHandler ==
    /\ step = "crashed"
    /\ Extract \/ Gather \/ BackOut
    /\ UNCHANGED <<message, jni>>

(* The COFFEE_CATCH block runs; FindClass(), twice, and the method ids.     *)
FindClasses ==
    /\ step = "crashed" /\ Gathered
    /\ step' = "message"
    /\ live' = live \cup Locals({"cls", "cls_ste"})
    /\ Uses({})
    /\ StartMessage(pc # NoPC)
    /\ UNCHANGED <<backtrace, i, index, elements, thrown>>

GetMessage ==
    /\ step = "message"
    /\ Format
    /\ UNCHANGED <<backtrace, jni>>

(* The message as a Java string; there is a trace if there are frames.      *)
NewMessage ==
    /\ step = "message" /\ format = "formatted"
    /\ step' = IF framesSize > 0 THEN "cause" ELSE "exception"
    /\ live' = live \cup {Local("str")}
    /\ Uses({})
    /\ UNCHANGED <<backtrace, message, i, index, elements, thrown>>

NewCause ==
    /\ step = "cause"
    /\ step' = "elements"
    /\ live' = live \cup {Local("cause")}
    /\ Uses(Locals({"cls", "str"}))
    /\ UNCHANGED <<backtrace, message, i, index, elements, thrown>>

(* Mutant: an array that was refused is filled all the same.                *)
BugNewElements ==
    /\ step = "elements"
    /\ \/ live' = live \cup {Local("elements")}
       \/ MayRefuse("elements") /\ UNCHANGED live
    /\ step' = "frames"
    /\ i' = 0 /\ index' = 0
    /\ elements' = [k \in 1 .. framesSize |-> NoPC]
    /\ Uses({Local("cls_ste")})
    /\ UNCHANGED <<backtrace, message, thrown>>

(* The array, one element per frame; without one the trace is left out.     *)
NewElements ==
    /\ step = "elements"
    /\ \/ /\ step' = "frames"
          /\ live' = live \cup {Local("elements")}
          /\ i' = 0 /\ index' = 0
          /\ elements' = [k \in 1 .. framesSize |-> NoPC]
       \/ /\ MayRefuse("elements")
          /\ step' = "exception"
          /\ UNCHANGED <<live, i, index, elements>>
    /\ Uses({Local("cls_ste")})
    /\ UNCHANGED <<backtrace, message, thrown>>

(* The loop of coffeecatch_get_backtrace_info() is at a frame.              *)
EachFrame == step = "frames" /\ i < framesSize

(* It passes over a NULL one ...                                            *)
SkipFrame ==
    /\ EachFrame
    /\ frames[i] = NoPC
    /\ i' = i + 1
    /\ UNCHANGED <<backtrace, message, step, live, index, elements, thrown,
                   misused>>

(* Mutant: the element goes to the frame's own place, bounded or not.       *)
BugBtFun ==
    /\ EachFrame
    /\ frames[i] # NoPC
    /\ step' = "element"
    /\ live' = live \cup FrameLocals
    /\ elements' = [elements EXCEPT ![i + 1] = frames[i]]
    /\ index' = index + 1
    /\ Uses({Local("cls_ste"), Local("elements")})
    /\ UNCHANGED <<backtrace, message, i, thrown>>

(* ... and calls bt_fun() for the others, which makes three strings and the *)
(* element, and puts it at the next place of the array ...                  *)
BtFun ==
    /\ EachFrame
    /\ frames[i] # NoPC
    /\ step' = "element"
    /\ live' = live \cup FrameLocals
    /\ IF index < framesSize
       THEN elements' = [elements EXCEPT ![index + 1] = frames[i]]
            /\ index' = index + 1
       ELSE UNCHANGED <<elements, index>>
    /\ Uses({Local("cls_ste"), Local("elements")})
    /\ UNCHANGED <<backtrace, message, i, thrown>>

(* Mutant: the locals of a frame stay until the method returns.             *)
BugDeleteFrameLocals ==
    /\ step = "element"
    /\ step' = "frames"
    /\ i' = i + 1
    /\ UNCHANGED <<backtrace, message, live, index, elements, thrown, misused>>

(* ... and deletes its locals.                                              *)
DeleteFrameLocals ==
    /\ step = "element"
    /\ step' = "frames"
    /\ live' = live \ FrameLocals
    /\ Uses(FrameLocals)
    /\ i' = i + 1
    /\ UNCHANGED <<backtrace, message, index, elements, thrown>>

SetStackTrace ==
    /\ step = "frames" /\ i = framesSize
    /\ step' = "exception"
    /\ live' = live \ {Local("elements")}
    /\ Uses(Locals({"cause", "elements"}))
    /\ UNCHANGED <<backtrace, message, i, index, elements, thrown>>

(* Whether there is a cause is what bt_size said.                           *)
Causes == IF framesSize > 0 THEN {Local("cause")} ELSE {}

(* The exception, with the cause if there is one, which is then deleted.    *)
NewException ==
    /\ step = "exception"
    /\ step' = "throw"
    /\ \/ live' = (live \ Causes) \cup {Local("exception")}
       \/ MayRefuse("exception") /\ live' = live \ Causes
    /\ Uses(Locals({"cls", "str"}) \cup Causes)
    /\ UNCHANGED <<backtrace, message, i, index, elements, thrown>>

(* Mutant: without an exception to throw, nothing is thrown.                *)
BugThrow ==
    /\ step = "throw"
    /\ step' = "release"
    /\ IF Local("exception") \in live
       THEN thrown' = Append(thrown, IF framesSize > 0 THEN "with a cause"
                                     ELSE "simple")
       ELSE UNCHANGED thrown
    /\ UNCHANGED <<backtrace, message, live, i, index, elements, misused>>

(* Throw(), or ThrowNew() with the message alone.                           *)
Throw ==
    /\ step = "throw"
    /\ step' = "release"
    /\ thrown' = Append(thrown, IF Local("exception") \notin live THEN "message"
                                ELSE IF framesSize > 0 THEN "with a cause"
                                ELSE "simple")
    /\ Uses({Local("cls")})
    /\ UNCHANGED <<backtrace, message, live, i, index, elements>>

(* Mutant: one class reference is forgotten.                                *)
BugRelease ==
    /\ step = "release"
    /\ step' = "returned"
    /\ live' = live \ Locals({"exception", "str", "cls"})
    /\ UNCHANGED <<backtrace, message, i, index, elements, thrown, misused>>

(* DeleteLocalRef() of a NULL exception does nothing.                       *)
Release ==
    /\ step = "release"
    /\ step' = "returned"
    /\ live' = live \ Locals({"exception", "str", "cls_ste", "cls"})
    /\ Uses(Locals({"str", "cls_ste", "cls"}))
    /\ UNCHANGED <<backtrace, message, i, index, elements, thrown>>

Returned == step = "returned" /\ UNCHANGED vars

ThrowException ==
    \/ FindClasses \/ GetMessage \/ NewMessage \/ NewCause \/ NewElements
    \/ SkipFrame \/ BtFun \/ DeleteFrameLocals \/ SetStackTrace
    \/ NewException \/ Throw \/ Release

Next == InHandler \/ ThrowException \/ Returned

Spec == Init /\ [][Next]_vars

(* A handler that gathers goes on; nothing is assumed of the rest.          *)
Walk == step = "crashed" /\ Gather /\ UNCHANGED <<message, jni>>
FairSpec == Spec /\ WF_vars(Walk)

---------------------------------------------------------------------------
(* Properties.                                                              *)

(* Every variable keeps its type.                                           *)
TypeOK ==
    /\ BacktraceTypeOK
    /\ format \in {"idle", "formatting", "formatted"}
    /\ step \in Steps
    /\ i \in 0 .. framesSize
    /\ index \in 0 .. i + 1
    /\ elements \in Seq(Nat)

(* "The caller may catch again before returning to Java": after the         *)
(* exception is thrown the thread has no local reference it did not have.   *)
LocalsReleased == step = "returned" => live = {}

(* The references held at once are those of one frame and five more,        *)
(* however many frames there are.                                           *)
LocalsBounded == Cardinality(live) <= LocalCapacity

(* No call of the VM is given a reference that was deleted or that a call   *)
(* has refused.                                                             *)
RefsLive == ~misused

(* The stack trace is the frames gathered, in order, NULLs left out; only   *)
(* its end may be empty.                                                    *)
TraceMatches ==
    LET called == NonNull([k \in 1 .. framesSize |-> frames[k - 1]]) IN
    step \in {"exception", "throw", "release", "returned"} =>
        \A k \in 1 .. Len(elements) :
            elements[k] = IF k <= Len(called) THEN called[k] ELSE NoPC

(* Exactly one throwable reaches Java, whatever was refused, and it has the *)
(* backtrace for its cause unless there is none or the VM refused it.       *)
ThrownOnce ==
    step = "returned" =>
        /\ Len(thrown) = 1
        /\ thrown[1] = "message" => MayRefuse("exception")
        /\ thrown[1] = "simple" => framesSize = 0

(* tests_jni.c, "stored == length": the stack trace Java gets has no null   *)
(* element.                                                                 *)
TraceFilled ==
    step \in {"exception", "throw", "release", "returned"} =>
        \A k \in 1 .. Len(elements) : elements[k] # NoPC

=============================================================================
