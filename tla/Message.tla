------------------------------- MODULE Message -------------------------------
(***************************************************************************)
(* coffeecatch_get_message(): the text about a crash, put together part by *)
(* part in a buffer of fixed size.  Each part is printed at the end of the *)
(* text so far, into what is left of the buffer, and cut off there.        *)
(*                                                                         *)
(* A character is named by the part it belongs to: how a part is worded is *)
(* left out, how long it is, and whether it is whole, is not.              *)
(***************************************************************************)
EXTENDS Integers, Sequences

CONSTANTS
    BufferLen,   \* t->stack_buffer_size
    SIZE_MAX,
    PartLengths  \* length of each part's text

Descriptions == {"of the code", "of the signal", "of the sender", "unknown"}
Parts == {"assertion", "signal", "at address", ": ", "errno", "unknown error",
          " ", "location"} \cup Descriptions

ASSUME BufferAssumption ==
    /\ BufferLen \in Nat \ {0}
    /\ SIZE_MAX \in Nat /\ BufferLen <= SIZE_MAX
ASSUME PartsAssumption == PartLengths \in [Parts -> Nat]

(* A crash, as far as the message tells one from another.  siginfo: whose   *)
(* si_code it is, the signal's own, a sender's, or neither's.               *)
Crashes == [signo : {"SIGABRT", "SIGILL", "SIGSEGV", "SIGFPE", "SIGSTKFLT"},
            siginfo : {"own", "sent", "other"},
            expression : BOOLEAN,  \* coffeecatch_abort() left one
            errno : BOOLEAN]       \* si_errno is set

VARIABLES
    format,   \* idle, formatting or formatted
    todo,     \* parts still to come
    text,     \* the buffer up to its first NUL
    offs,     \* buffer_offs
    overrun,  \* a byte was written outside the buffer
    whole     \* history: the text a buffer without end would hold

message == <<format, todo, text, offs, overrun, whole>>

MessageInit ==
    /\ format = "idle"
    /\ todo = <<>>
    /\ text = <<>>
    /\ offs = 0
    /\ overrun = FALSE
    /\ whole = <<>>

(* coffeecatch_desc_sig(): by the code of the signals that have codes of    *)
(* their own, by the signal if it is listed, by who sent it otherwise.      *)
DescSig(signo, code) ==
    IF signo \in {"SIGILL", "SIGFPE", "SIGSEGV", "SIGBUS", "SIGTRAP"}
       /\ code = "own" THEN "of the code"
    ELSE IF signo # "SIGSTKFLT" THEN "of the signal"
    ELSE IF code = "sent" THEN "of the sender"
    ELSE "unknown"

(* format_pc_address() of t->pc, unless that is NULL.                       *)
PcAddress(located) == IF located THEN <<" ", "location">> ELSE <<>>

(* The parts, in order.  strerror_r() may not know the number.              *)
PartsOf(c, known, located) ==
    (IF c.signo = "SIGABRT" /\ c.expression
     THEN <<"assertion">>
     ELSE <<"signal", DescSig(c.signo, c.siginfo)>>
            \o (IF c.signo \in {"SIGILL", "SIGSEGV"}
                THEN <<"at address">> ELSE <<>>))
      \o (IF c.errno THEN <<": ", IF known THEN "errno" ELSE "unknown error">>
                     ELSE <<>>)
      \o PcAddress(located)

StartMessage(located) ==
    /\ format = "idle"
    /\ \E c \in Crashes, known \in BOOLEAN :
           todo' = PartsOf(c, known, located)
    /\ format' = "formatting"
    /\ text' = <<>> /\ offs' = 0 /\ whole' = <<>>
    /\ UNCHANGED overrun

Chars(part, n) == [k \in 1 .. n |-> part]
Least(a, b) == IF a < b THEN a ELSE b

(* buffer_len - buffer_offs, a size_t.                                      *)
Room == (BufferLen - offs) % (SIZE_MAX + 1)

(* The characters snprintf() prints into that room: all but the last byte   *)
(* of it, which is for the NUL.                                             *)
Printed(part) == IF Room = 0 THEN 0 ELSE Least(PartLengths[part], Room - 1)

(* Mutant: the offset moves by what snprintf() returns.                     *)
BugPrintPart ==
    /\ format = "formatting" /\ todo # <<>>
    /\ LET part == Head(todo) IN
           /\ text' = text \o Chars(part, Printed(part))
           /\ offs' = offs + PartLengths[part]
           /\ overrun' = (overrun \/ offs + Printed(part) >= BufferLen)
           /\ whole' = whole \o Chars(part, PartLengths[part])
    /\ todo' = Tail(todo)
    /\ UNCHANGED format

(* One snprintf(), and buffer_offs moves by strlen().                       *)
PrintPart ==
    /\ format = "formatting" /\ todo # <<>>
    /\ LET part == Head(todo) IN
           /\ text' = text \o Chars(part, Printed(part))
           /\ offs' = offs + Printed(part)
           /\ overrun' = (overrun \/ offs + Printed(part) >= BufferLen)
           /\ whole' = whole \o Chars(part, PartLengths[part])
    /\ todo' = Tail(todo)
    /\ UNCHANGED format

(* The last NUL is written, at buffer_offs.                                 *)
Terminate ==
    /\ format = "formatting" /\ todo = <<>>
    /\ format' = "formatted"
    /\ overrun' = (overrun \/ offs >= BufferLen)
    /\ UNCHANGED <<todo, text, offs, whole>>

Format == PrintPart \/ Terminate

---------------------------------------------------------------------------
(* However long the parts are, no byte is written outside the buffer, and   *)
(* the text is what a buffer without end would hold, cut off where this one *)
(* ends.                                                                    *)
MessageFits ==
    /\ ~overrun
    /\ offs < BufferLen
    /\ text = SubSeq(whole, 1, Least(Len(whole), BufferLen - 1))

=============================================================================
