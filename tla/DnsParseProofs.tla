--------------------------- MODULE DnsParseProofs ---------------------------
(***************************************************************************)
(* parse_dns_response stays inside its datagram, for every datagram.        *)
(***************************************************************************)
EXTENDS DnsParse, SequenceTheorems, TLAPS

LEMMA SizeIsNat ==
  ASSUME IsDatagram(buf)
  PROVE  Size \in Nat
  BY LenProperties DEF IsDatagram, Size

\* A byte of the buffer, or the 0 of a read past the end, is a number.
LEMMA ByteIsNat ==
  ASSUME IsDatagram(buf), NEW i \in Nat
  PROVE  Byte(i) \in Nat
<1>1. CASE i < Size
  <2>1. i + 1 \in 1..Len(buf)
    BY <1>1, SizeIsNat DEF Size
  <2>2. buf[i + 1] \in Octets
    BY <2>1, ElementOfSeq, Zenon DEF IsDatagram
  <2>3. \A x \in Octets : x \in Nat
    BY DEF Octets
  <2> QED
    BY <1>1, <2>2, <2>3 DEF Byte
<1>2. CASE ~(i < Size)
  BY <1>2 DEF Byte
<1> QED
  BY <1>1, <1>2

LEMMA WordIsNat ==
  ASSUME IsDatagram(buf), NEW i \in Nat
  PROVE  Word(i) \in Nat
<1>1. Byte(i) \in Nat /\ Byte(i + 1) \in Nat
  BY ByteIsNat
<1> QED
  BY <1>1 DEF Word

\* A touched index in bounds keeps the highest one in bounds.
LEMMA TouchInBounds ==
  ASSUME touched \in Nat, ReadsInBounds, buf' = buf,
         NEW i \in Nat, i < Size, Size \in Nat, Touch(i)
  PROVE  ReadsInBounds' /\ touched' \in Nat
<1>1. Size' = Size
  BY DEF Size
<1> QED
  BY <1>1 DEF ReadsInBounds, Touch

LEMMA NothingRead ==
  ASSUME ReadsInBounds, buf' = buf, touched' = touched
  PROVE  ReadsInBounds'
  BY DEF ReadsInBounds, Size

Safe == ParseTypeOK /\ ReadsInBounds

LEMMA InitSafe == PInit => Safe
<1> SUFFICES ASSUME PInit PROVE Safe
  OBVIOUS
<1>1. IsDatagram(buf)
  BY BuffersAssumption DEF PInit
<1>2. Size \in Nat
  BY <1>1, SizeIsNat
<1> QED
  BY <1>1, <1>2 DEF PInit, Safe, ParseTypeOK, ReadsInBounds

LEMMA FailSafe ==
  ASSUME ParseTypeOK, buf' = buf, Fail, touched' \in Nat
  PROVE  ParseTypeOK'
  BY DEF ParseTypeOK, Fail

\* Every step keeps Safe: each read follows a test that covers it.
LEMMA StepSafe == Safe /\ [PNext]_parseVars => Safe'
<1> SUFFICES ASSUME Safe, [PNext]_parseVars PROVE Safe'
  OBVIOUS
<1> USE DEF Safe
<1>0. /\ IsDatagram(buf) /\ Size \in Nat /\ pos \in Nat
      /\ touched \in Nat /\ touched <= Size
  BY SizeIsNat DEF ParseTypeOK, ReadsInBounds
<1>1. CASE Header
  <2>1. buf' = buf
    BY <1>1 DEF Header
  <2>2. CASE Size < 12 /\ Fail /\ UNCHANGED touched
    BY <2>1, <2>2, <1>0, FailSafe, NothingRead
  <2>3. CASE Size >= 12 /\ HeaderBad /\ Fail /\ Touch(3)
    <3>1. ReadsInBounds' /\ touched' \in Nat
      BY <2>1, <2>3, <1>0, TouchInBounds
    <3> QED
      BY <3>1, <2>1, <2>3, FailSafe
  <2>4. CASE /\ Size >= 12 /\ ~HeaderBad
             /\ qd' = Word(4) /\ an' = Word(6) /\ pos' = 12
             /\ stage' = Section(Word(4), Word(6))
             /\ Touch(7) /\ UNCHANGED <<found, ttl>>
    <3>1. ReadsInBounds' /\ touched' \in Nat
      BY <2>1, <2>4, <1>0, TouchInBounds
    <3>2. Word(4) \in Nat /\ Word(6) \in Nat
      BY <1>0, WordIsNat
    <3> QED
      BY <3>1, <3>2, <2>1, <2>4, <1>0 DEF ParseTypeOK, Section
  <2> QED
    BY <2>2, <2>3, <2>4, <1>1 DEF Header
<1>2. CASE SkipName
  <2>1. buf' = buf /\ stage \in {"qname", "aname"}
    BY <1>2 DEF SkipName
  <2>2. Byte(pos) \in Nat
    BY <1>0, ByteIsNat
  <2>3. CASE OffEnd(pos) /\ Fail /\ UNCHANGED touched
    BY <2>1, <2>3, <1>0, FailSafe, NothingRead
  <2>4. CASE ~OffEnd(pos) /\ Touch(pos)
    <3>1. pos < Size
      BY <2>4, <1>0 DEF OffEnd
    <3>2. ReadsInBounds' /\ touched' \in Nat
      BY <2>1, <2>4, <3>1, <1>0, TouchInBounds
    <3>3. CASE Fail
      BY <3>2, <3>3, <2>1, FailSafe
    <3>4. CASE /\ pos' \in Nat /\ stage' \in {stage, AfterName}
               /\ UNCHANGED <<qd, an, found, ttl>>
      BY <3>2, <3>4, <2>1 DEF ParseTypeOK, AfterName
    <3> QED
      BY <3>3, <3>4, <2>2, <2>4, <1>0, <1>2 DEF SkipName, PastPointer
  <2> QED
    BY <2>3, <2>4, <1>2 DEF SkipName
<1>3. CASE Question
  <2>1. ReadsInBounds' /\ buf' = buf /\ touched' = touched /\ stage = "qrest"
    BY <1>3, NothingRead DEF Question
  <2>2. CASE Fail
    BY <2>1, <2>2, <1>0, FailSafe
  <2>3. CASE /\ pos' = pos + 4 /\ qd' = qd - 1 /\ stage' = Section(qd - 1, an)
             /\ UNCHANGED <<an, found, ttl>>
    BY <2>1, <2>3 DEF ParseTypeOK, Section
  <2> QED
    BY <2>2, <2>3, <1>3 DEF Question
<1>4. CASE AnswerRecord
  <2> DEFINE rdlen == Word(pos + 8)
             body  == pos + 10
             take  == Wanted(Word(pos), rdlen)
  <2>1. buf' = buf /\ stage = "arest"
    BY <1>4 DEF AnswerRecord
  <2>2. rdlen \in Nat /\ body \in Nat
    BY <1>0, WordIsNat
  <2>3. CASE body > Size /\ Fail /\ UNCHANGED touched
    BY <2>1, <2>3, <1>0, FailSafe, NothingRead
  <2>4. CASE body <= Size /\ Fail /\ Touch(pos + 9)
    <3>1. pos + 9 \in Nat /\ pos + 9 < Size
      BY <2>4, <1>0
    <3>2. ReadsInBounds' /\ touched' \in Nat
      BY <2>1, <2>4, <3>1, <1>0, TouchInBounds
    <3> QED
      BY <3>2, <2>1, <2>4, FailSafe
  <2>5. CASE /\ body <= Size /\ body + rdlen <= Size
             /\ Touch(IF take THEN body + rdlen - 1 ELSE pos + 9)
             /\ pos' = body + rdlen /\ an' = an - 1
             /\ stage' = Section(0, an - 1) /\ UNCHANGED qd
    <3> DEFINE high == IF take THEN body + rdlen - 1 ELSE pos + 9
    <3>1. high \in Nat /\ high < Size
      BY <2>2, <2>5, <1>0 DEF Wanted
    <3>2. Touch(high)
      BY <2>5
    <3> HIDE DEF high
    <3>3. ReadsInBounds' /\ touched' \in Nat
      BY <2>1, <3>1, <3>2, <1>0, TouchInBounds
    <3>4. pos' \in Nat /\ qd' = qd /\ an' = an - 1 /\ stage' = Section(0, an - 1)
      BY <2>2, <2>5
    <3> QED
      BY <3>3, <3>4, <2>1 DEF ParseTypeOK, Section
  <2> QED
    BY <2>3, <2>4, <2>5, <1>4 DEF AnswerRecord
<1>5. CASE UNCHANGED parseVars
  BY <1>5, NothingRead DEF parseVars, ParseTypeOK
<1> QED
  BY <1>1, <1>2, <1>3, <1>4, <1>5 DEF PNext

\* For every datagram, expected id and record type, parse_dns_response never
\* indexes outside it: no datagram makes the resolver panic on a slice.
THEOREM ParseStaysInBounds == PSpec => []ReadsInBounds
<1>1. Safe => ReadsInBounds
  BY DEF Safe
<1> QED
  BY InitSafe, StepSafe, <1>1, PTL DEF PSpec

\* The section counters never wrap, and questions end before answers begin.
THEOREM ParseTyped == PSpec => []ParseTypeOK
<1>1. Safe => ParseTypeOK
  BY DEF Safe
<1> QED
  BY InitSafe, StepSafe, <1>1, PTL DEF PSpec

\* A step of the parser ends the parse or advances in the datagram.
LEMMA StepAdvances == Safe /\ [PNext]_parseVars => [Advances]_parseVars
<1> SUFFICES ASSUME Safe, PNext PROVE Advances
  OBVIOUS
<1>0. IsDatagram(buf) /\ pos \in Nat
  BY DEF Safe, ParseTypeOK
<1>1. CASE Fail
  BY <1>1 DEF Fail, Advances
<1>2. CASE Header /\ ~Fail
  <2>1. stage = "head" /\ pos' = 12 /\ stage' = Section(Word(4), Word(6))
    BY <1>2 DEF Header
  <2> QED
    BY <2>1, <1>0 DEF Advances, Safe, ParseTypeOK
<1>3. CASE SkipName /\ ~Fail
  <2>1. Byte(pos) \in Nat
    BY <1>0, ByteIsNat
  <2> QED
    BY <2>1, <1>0, <1>3 DEF SkipName, PastPointer, Advances
<1>4. CASE Question /\ ~Fail
  BY <1>0, <1>4 DEF Question, Advances
<1>5. CASE AnswerRecord /\ ~Fail
  <2>1. Word(pos + 8) \in Nat
    BY <1>0, WordIsNat
  <2> QED
    BY <2>1, <1>0, <1>5 DEF AnswerRecord, Advances
<1> QED
  BY <1>1, <1>2, <1>3, <1>4, <1>5 DEF PNext

\* For every datagram parse_dns_response and skip_name stay in its bounds, and
\* each turn of their loops ends the parse or moves forward.
THEOREM ParseAlwaysSafe == PSpec => ParseSafe
<1>1. PSpec => [][Advances]_parseVars
  BY InitSafe, StepSafe, StepAdvances, PTL DEF PSpec
<1> QED
  BY <1>1, ParseStaysInBounds DEF ParseSafe
=============================================================================
