------------------------------ MODULE DnsParse ------------------------------
(***************************************************************************)
(* The DNS messages of dns.rs: encode_dns_query as an operator and          *)
(* parse_dns_response (with skip_name) as a machine that takes one record   *)
(* per step.  Indices are those of the code, from 0; a read past the end,   *)
(* a panic in the code, yields 0 here and shows in `touched`.               *)
(***************************************************************************)
EXTENDS Integers, Sequences

CONSTANTS Buffers,   \* the datagrams that may arrive, sequences of bytes
          Id,        \* expected_id
          QType      \* record_type.qtype(): 1 for A, 28 for AAAA

Octets == 0..255
IsDatagram(b) == b \in Seq(Octets)

ASSUME BuffersAssumption == \A b \in Buffers : IsDatagram(b)

VARIABLES buf, stage, pos,
          qd, an,     \* questions and answers still to read
          found, ttl, \* what has been found; ttl as <<high, low>> 16 bits
          touched     \* one past the highest index read

parseVars == <<buf, stage, pos, qd, an, found, ttl, touched>>

-----------------------------------------------------------------------------
\* encode_dns_query: the header, the labels of the name, QTYPE and QCLASS.
Be16(n) == <<n \div 256, n % 256>>

LabelsOk(name) ==
  /\ name # <<>>
  /\ \A i \in 1..Len(name) : Len(name[i]) \in 1..63

NameBytes(name) ==
  LET f[i \in 0..Len(name)] ==
        IF i = 0 THEN <<>> ELSE f[i - 1] \o <<Len(name[i])>> \o name[i]
  IN  f[Len(name)] \o <<0>>

\* name.len() counts the dots between the labels: two less than NameBytes.
EncodeQuery(id, name, qtype) ==
  IF ~LabelsOk(name) \/ Len(NameBytes(name)) - 2 > 253
  THEN <<>>
  ELSE Be16(id) \o <<1, 0>> \o Be16(1) \o <<0, 0, 0, 0, 0, 0>>
         \o NameBytes(name) \o Be16(qtype) \o Be16(1)

-----------------------------------------------------------------------------
Size == Len(buf)
Byte(i) == IF i < Size THEN buf[i + 1] ELSE 0
Word(i) == Byte(i) * 256 + Byte(i + 1)
Touch(i) == touched' = IF i >= touched THEN i + 1 ELSE touched

Fail == stage' = "error" /\ UNCHANGED <<pos, qd, an, found, ttl>>

\* The loop head that follows: another question, another answer, or done.
Section(q, a) == IF q > 0 THEN "qname" ELSE IF a > 0 THEN "aname" ELSE "ok"

PInit ==
  /\ buf \in Buffers
  /\ stage = "head" /\ pos = 0 /\ qd = 0 /\ an = 0
  /\ found = <<>> /\ ttl = <<65535, 65535>> /\ touched = 0

\* Not this query's answer, not a response, truncated, or an error code.
HeaderBad == \/ Word(0) # Id
             \/ Byte(2) < 128
             \/ (Byte(2) \div 2) % 2 = 1
             \/ Byte(3) % 16 # 0

Header ==
  /\ stage = "head" /\ UNCHANGED buf
  /\ \/ Size < 12 /\ Fail /\ UNCHANGED touched
     \/ Size >= 12 /\ HeaderBad /\ Fail /\ Touch(3)
     \/ /\ Size >= 12 /\ ~HeaderBad
        /\ qd' = Word(4) /\ an' = Word(6) /\ pos' = 12
        /\ stage' = Section(Word(4), Word(6))
        /\ Touch(7) /\ UNCHANGED <<found, ttl>>

\* skip_name, one label at a time: off the end, the root, a pointer, a label.
OffEnd(p) == p >= Size

AfterName == IF stage = "qname" THEN "qrest" ELSE "arest"

\* A pointer ends the name and is not followed.
BadPastPointer == pos' = (Byte(pos) % 64) * 256 + Byte(pos + 1) /\ UNCHANGED stage
PastPointer == pos' = pos + 2 /\ stage' = AfterName

SkipName ==
  /\ stage \in {"qname", "aname"} /\ UNCHANGED buf
  /\ \/ OffEnd(pos) /\ Fail /\ UNCHANGED touched
     \/ /\ ~OffEnd(pos) /\ Byte(pos) = 0
        /\ pos' = pos + 1 /\ stage' = AfterName
        /\ Touch(pos) /\ UNCHANGED <<qd, an, found, ttl>>
     \/ /\ ~OffEnd(pos) /\ Byte(pos) >= 192 /\ Touch(pos)
        /\ IF pos + 1 >= Size
           THEN Fail
           ELSE PastPointer /\ UNCHANGED <<qd, an, found, ttl>>
     \/ /\ ~OffEnd(pos) /\ Byte(pos) > 0 /\ Byte(pos) < 192
        /\ pos' = pos + 1 + Byte(pos)
        /\ Touch(pos) /\ UNCHANGED <<stage, qd, an, found, ttl>>

Question ==
  /\ stage = "qrest" /\ UNCHANGED <<buf, touched>>
  /\ IF pos + 4 > Size
     THEN Fail
     ELSE /\ pos' = pos + 4 /\ qd' = qd - 1 /\ stage' = Section(qd - 1, an)
          /\ UNCHANGED <<an, found, ttl>>

\* The address length that goes with the record type asked for.
Wanted(rtype, rdlength) ==
  rtype = QType /\ rdlength = (IF QType = 1 THEN 4 ELSE 16)

BadSooner(s, t) == s
Sooner(s, t) == IF s[1] < t[1] \/ (s[1] = t[1] /\ s[2] < t[2]) THEN s ELSE t

AnswerRecord ==
  LET rtype == Word(pos)
      life  == <<Word(pos + 4), Word(pos + 6)>>
      rdlen == Word(pos + 8)
      body  == pos + 10
      take  == Wanted(rtype, rdlen)
  IN
  /\ stage = "arest" /\ UNCHANGED buf
  /\ \/ body > Size /\ Fail /\ UNCHANGED touched
     \/ body <= Size /\ body + rdlen > Size /\ Fail /\ Touch(pos + 9)
     \/ /\ body <= Size /\ body + rdlen <= Size
        /\ found' = IF take THEN Append(found, [i \in 1..rdlen |-> Byte(body + i - 1)])
                            ELSE found
        /\ ttl' = IF take THEN Sooner(life, ttl) ELSE ttl
        /\ Touch(IF take THEN body + rdlen - 1 ELSE pos + 9)
        /\ pos' = body + rdlen /\ an' = an - 1
        /\ stage' = Section(0, an - 1) /\ UNCHANGED qd

PNext == Header \/ SkipName \/ Question \/ AnswerRecord

PSpec == PInit /\ [][PNext]_parseVars

-----------------------------------------------------------------------------
\* Types, and the counters that drive the two loops: questions are finished
\* before answers are read, and neither loop runs once more than announced.
ParseTypeOK ==
  /\ IsDatagram(buf)
  /\ stage \in {"head", "qname", "qrest", "aname", "arest", "ok", "error"}
  /\ pos \in Nat /\ qd \in Nat /\ an \in Nat
  /\ touched \in Nat
  /\ stage = "head" => pos = 0
  /\ stage \in {"qname", "qrest"} => qd > 0
  /\ stage \in {"aname", "arest"} => qd = 0 /\ an > 0
  /\ stage = "ok" => qd = 0 /\ an = 0

ReadsInBounds == touched <= Size
Advances == stage' \in {"ok", "error"} \/ pos' > pos

\* Whatever the bytes of a datagram say about labels, counts and lengths,
\* parse_dns_response and skip_name never index past its end, which would panic
\* the task, and return: every turn of either loop ends the parse or moves
\* forward in it, a compression pointer included (dns.rs:68-175).
ParseSafe == []ReadsInBounds /\ [][Advances]_parseVars
=============================================================================
