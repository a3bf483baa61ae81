---------------------------- MODULE MessageProofs ----------------------------
(***************************************************************************)
(* Lemmas about Message, for every length of the buffer, of the texts and  *)
(* every width of a size_t.  The theorem is in JniProofs, whose            *)
(* specification has Message's steps among its own.                        *)
(***************************************************************************)
EXTENDS Message, SequenceTheorems, TLAPS

(* The offset is the length of the text, which agrees with the text a       *)
(* buffer without end would hold as far as this one goes.                   *)
MessageInv ==
    /\ todo \in Seq(Parts) /\ text \in Seq(Parts) /\ whole \in Seq(Parts)
    /\ offs = Len(text)
    /\ offs = Least(Len(whole), BufferLen - 1)
    /\ \A k \in 1 .. offs : text[k] = whole[k]
    /\ overrun = FALSE

(* An empty text is right.                                                  *)
LEMMA MessageInvInit == MessageInit => MessageInv
BY BufferAssumption DEF MessageInit, MessageInv, Least

(* Tuples of parts.                                                         *)
LEMMA Tuples ==
    ASSUME NEW a \in Parts, NEW b \in Parts, NEW p \in BOOLEAN
    PROVE  /\ (IF p THEN <<a>> ELSE <<>>) \in Seq(Parts)
           /\ (IF p THEN <<a, b>> ELSE <<>>) \in Seq(Parts)
<1>1. <<>> \in Seq(Parts) /\ <<a>> \in Seq(Parts) /\ <<a, b>> \in Seq(Parts)
  OBVIOUS
<1>2. QED
  BY <1>1

(* Whatever the crash, the parts of its message are parts.                  *)
LEMMA PartsAreParts ==
    ASSUME NEW c \in Crashes, NEW known \in BOOLEAN, NEW located \in BOOLEAN
    PROVE  PartsOf(c, known, located) \in Seq(Parts)
<1> DEFINE one == <<"signal", DescSig(c.signo, c.siginfo)>>
           two == IF c.signo \in {"SIGILL", "SIGSEGV"}
                  THEN <<"at address">> ELSE <<>>
           what == IF c.signo = "SIGABRT" /\ c.expression
                   THEN <<"assertion">> ELSE one \o two
           errnos == IF c.errno
                     THEN <<": ", IF known THEN "errno" ELSE "unknown error">>
                     ELSE <<>>
<1>1. one \in Seq(Parts)
  <2>1. DescSig(c.signo, c.siginfo) \in Parts
    BY DEF DescSig, Parts, Descriptions
  <2>2. "signal" \in Parts
    BY DEF Parts
  <2>3. QED
    BY <2>1, <2>2
<1>2. two \in Seq(Parts)
  <2>1. "at address" \in Parts
    BY DEF Parts
  <2>2. QED
    BY <2>1, Tuples
<1>3. what \in Seq(Parts)
  <2>1. <<"assertion">> \in Seq(Parts)
    BY DEF Parts
  <2>2. one \o two \in Seq(Parts)
    BY <1>1, <1>2, ConcatProperties
  <2>3. QED
    BY <2>1, <2>2
<1>4. errnos \in Seq(Parts)
  <2>1. /\ ": " \in Parts
        /\ (IF known THEN "errno" ELSE "unknown error") \in Parts
    BY DEF Parts
  <2>2. c.errno \in BOOLEAN
    BY DEF Crashes
  <2>3. QED
    BY <2>1, <2>2, Tuples
<1>5. PcAddress(located) \in Seq(Parts)
  <2>1. " " \in Parts /\ "location" \in Parts
    BY DEF Parts
  <2>2. QED
    BY <2>1, Tuples DEF PcAddress
<1>6. PartsOf(c, known, located) = what \o errnos \o PcAddress(located)
  BY DEF PartsOf
<1>7. QED
  <2> HIDE DEF what, errnos
  <2>1. what \o errnos \in Seq(Parts)
    BY <1>3, <1>4, ConcatProperties
  <2>2. QED
    BY <1>5, <1>6, <2>1, ConcatProperties

(* Starting afresh is right, whatever is in the buffer.                     *)
LEMMA StartMessageRight ==
    ASSUME NEW located \in BOOLEAN, MessageInv, StartMessage(located)
    PROVE  MessageInv'
<1>1. todo' \in Seq(Parts)
  BY PartsAreParts DEF StartMessage
<1>2. QED
  BY <1>1, BufferAssumption DEF MessageInv, StartMessage, Least

(* Cutting off w + n at r is cutting off w and then n at what is left.      *)
LEMMA CutOff ==
    ASSUME NEW w \in Nat, NEW n \in Nat, NEW r \in Nat,
           NEW o, o = Least(w, r), NEW m, m = Least(n, r - o)
    PROVE  /\ o \in Nat /\ o <= w /\ o <= r
           /\ m \in Nat /\ m <= n /\ o + m <= r
           /\ o + m = Least(w + n, r)
           /\ m > 0 => o = w
BY DEF Least

(* A text with the characters of a part after it.                           *)
After(s, part, k) == s \o Chars(part, k)

LEMMA CharsAfter ==
    ASSUME NEW s \in Seq(Parts), NEW part \in Parts, NEW k \in Nat
    PROVE  /\ After(s, part, k) \in Seq(Parts)
           /\ Len(After(s, part, k)) = Len(s) + k
           /\ \A j \in 1 .. Len(s) + k :
                  After(s, part, k)[j] = IF j <= Len(s) THEN s[j] ELSE part
<1> DEFINE c == Chars(part, k)
           u == After(s, part, k)
<1>1. /\ c \in Seq(Parts) /\ Len(c) = k
      /\ \A j \in 1 .. k : c[j] = part
  BY DEF Chars
<1>2. u = s \o c
  BY DEF After
<1> HIDE DEF c, u
<1>3. /\ u \in Seq(Parts) /\ Len(u) = Len(s) + k
      /\ \A j \in 1 .. Len(s) + k :
             u[j] = IF j <= Len(s) THEN s[j] ELSE c[j - Len(s)]
  BY <1>1, <1>2, ConcatProperties
<1>4. \A j \in 1 .. Len(s) + k : j <= Len(s) \/ j - Len(s) \in 1 .. k
  OBVIOUS
<1>5. /\ u \in Seq(Parts) /\ Len(u) = Len(s) + k
      /\ \A j \in 1 .. Len(s) + k :
             u[j] = IF j <= Len(s) THEN s[j] ELSE part
  BY <1>1, <1>3, <1>4
<1>6. QED
  BY <1>5 DEF u

(* Every part goes to the end of the text, in front of the last byte of the *)
(* buffer: the room is never an unsigned number that has wrapped.           *)
LEMMA FormatRight == MessageInv /\ Format => MessageInv'
<1> SUFFICES ASSUME MessageInv, Format PROVE MessageInv'
  OBVIOUS
<1>1. CASE PrintPart
  <2> DEFINE part == Head(todo)
             n == PartLengths[part]
             m == Printed(part)
  <2>1. todo' \in Seq(Parts) /\ part \in Parts
    BY <1>1 DEF PrintPart, MessageInv
  <2>2. n \in Nat
    BY <2>1, PartsAssumption
  <2>3. /\ offs \in Nat /\ offs <= BufferLen - 1 /\ BufferLen \in Nat
        /\ Len(whole) \in Nat /\ Len(text) = offs
        /\ offs = Least(Len(whole), BufferLen - 1)
    BY BufferAssumption DEF MessageInv, Least
  <2>4. Room = BufferLen - offs
    <3>1. BufferLen - offs \in 1 .. SIZE_MAX /\ SIZE_MAX \in Nat
      BY <2>3, BufferAssumption
    <3>2. QED
      BY <3>1 DEF Room
  <2>5. m = Least(n, (BufferLen - 1) - offs)
    <3>1. Room # 0 /\ Room - 1 = (BufferLen - 1) - offs
      BY <2>3, <2>4
    <3>2. m = Least(n, Room - 1)
      BY <3>1 DEF Printed
    <3>3. QED
      BY <3>1, <3>2
  <2> HIDE DEF part, n, m
  <2> DEFINE w == Len(whole)
             r == BufferLen - 1
  <2>6. /\ r \in Nat /\ w \in Nat /\ offs = Least(w, r)
        /\ m = Least(n, r - offs)
    BY <2>3, <2>5, BufferAssumption
  <2>7. BufferLen = r + 1
    BY <2>3
  <2> HIDE DEF w, r
  <2>8. /\ m \in Nat /\ m <= n /\ offs + m <= r
        /\ offs + m = Least(w + n, r)
        /\ m > 0 => offs = w
    BY <2>2, <2>6, CutOff
  <2>9. m \in Nat
    BY <2>8
  <2>10. /\ text' = After(text, part, m)
        /\ whole' = After(whole, part, n)
        /\ offs' = offs + m
        /\ overrun' = (overrun \/ offs + m >= BufferLen)
    BY <1>1 DEF PrintPart, After, part, n, m
  <2>11. /\ text' \in Seq(Parts) /\ Len(text') = offs + m
         /\ \A k \in 1 .. offs + m :
                text'[k] = IF k <= offs THEN text[k] ELSE part
    <3>1. text \in Seq(Parts) /\ Len(text) = offs
      BY DEF MessageInv
    <3>2. /\ text' \in Seq(Parts) /\ Len(text') = Len(text) + m
          /\ \A k \in 1 .. Len(text) + m :
                 text'[k] = IF k <= Len(text) THEN text[k] ELSE part
      BY <2>1, <2>9, <2>10, <3>1, CharsAfter
    <3>3. QED
      BY <3>1, <3>2
  <2>12. /\ whole' \in Seq(Parts) /\ Len(whole') = Len(whole) + n
         /\ \A k \in 1 .. Len(whole) + n :
                whole'[k] = IF k <= Len(whole) THEN whole[k] ELSE part
    <3>1. whole \in Seq(Parts)
      BY DEF MessageInv
    <3>2. QED
      BY <2>1, <2>2, <2>10, <3>1, CharsAfter
  <2>13. offs' = Least(Len(whole'), BufferLen - 1)
    BY <2>10, <2>12, <2>8 DEF w, r
  <2>14. \A k \in 1 .. offs' : text'[k] = whole'[k]
    <3>1. \A k \in 1 .. offs : text[k] = whole[k]
      BY DEF MessageInv
    <3>2. ASSUME NEW k \in 1 .. offs + m PROVE text'[k] = whole'[k]
      <4>1. offs \in Nat /\ w \in Nat /\ n \in Nat /\ m \in Nat /\ m <= n
        BY <2>2, <2>3, <2>6, <2>8
      <4>2. offs <= w
        BY <2>2, <2>6, CutOff
      <4>3. k \in 1 .. w + n
        BY <4>1, <4>2
      <4>4. CASE k <= offs
        <5>1. k \in 1 .. offs /\ k <= w
          BY <4>1, <4>2, <4>4
        <5>2. text'[k] = text[k]
          BY <2>11, <4>4
        <5>3. whole'[k] = whole[k]
          BY <2>12, <4>3, <5>1 DEF w
        <5>4. QED
          BY <3>1, <5>1, <5>2, <5>3
      <4>5. CASE k > offs
        <5>1. m > 0 /\ ~(k <= offs)
          BY <4>1, <4>5
        <5>2. ~(k <= w)
          BY <2>8, <5>1
        <5>3. text'[k] = part
          BY <2>11, <5>1
        <5>4. whole'[k] = part
          BY <2>12, <4>3, <5>2 DEF w
        <5>5. QED
          BY <5>3, <5>4
      <4>6. QED
        BY <4>1, <4>4, <4>5
    <3>3. QED
      BY <2>10, <3>2
  <2>15. overrun' = FALSE
    <3>1. ~(offs + m >= BufferLen)
      BY <2>3, <2>8, <2>6, <2>7
    <3>2. QED
      BY <2>10, <3>1 DEF MessageInv
  <2>16. QED
    BY <2>1, <2>10, <2>11, <2>12, <2>13, <2>14, <2>15 DEF MessageInv
<1>2. CASE Terminate
  <2>1. ~(offs >= BufferLen)
    BY BufferAssumption DEF MessageInv, Least
  <2>2. QED
    BY <1>2, <2>1 DEF Terminate, MessageInv
<1>3. QED
  BY <1>1, <1>2 DEF Format

(* The invariant says so of the text as a whole.                            *)
LEMMA FitsByInv == MessageInv => MessageFits
<1> SUFFICES ASSUME MessageInv PROVE MessageFits
  OBVIOUS
<1> DEFINE cut == SubSeq(whole, 1, offs)
<1>1. offs \in Nat /\ offs < BufferLen /\ offs <= Len(whole)
  BY BufferAssumption DEF MessageInv, Least
<1>2. \A k \in 1 .. offs : whole[k] \in Parts
  BY <1>1 DEF MessageInv
<1>3. /\ cut \in Seq(Parts) /\ Len(cut) = offs
      /\ \A k \in 1 .. offs : cut[k] = whole[k]
  BY <1>1, <1>2, SubSeqProperties
<1>4. text = cut
  BY <1>1, <1>3, SeqEqual DEF MessageInv
<1>5. QED
  BY <1>1, <1>4 DEF MessageFits, MessageInv

=============================================================================
