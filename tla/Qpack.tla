------------------------------- MODULE Qpack -------------------------------
(***************************************************************************)
(* The answer to a MASQUE CONNECT: exchange skips frames until the HEADERS *)
(* (masque/mod.rs), decode_headers reads its field lines (qpack.rs), and   *)
(* decode undoes the Huffman code of a name or value (huffman.rs).  The    *)
(* answer is the edge's: a byte is chosen when it is read, as the fields   *)
(* the code takes it apart into.  An integer written by encode_integer is  *)
(* read back by the same steps ("echo").                                   *)
(*                                                                         *)
(* Widths are constants, kept in the proportions of the code: groups of 7  *)
(* bits, shifts up to 56 and 64-bit values; bytes of 8 bits in decode.     *)
(***************************************************************************)
EXTENDS Naturals, Sequences, SequencesExt

CONSTANTS
  GroupBits,      \* bits of a continuation byte, 7
  MaxShift,       \* the last shift allowed, 56
  ValueBits,      \* u64
  Prefix,         \* bits of an integer's first byte, by what it is read for
  StatusAt,       \* static_status, a function on some indices
  MaxSkipped,     \* MAX_SKIPPED_FRAMES
  MaxHeaders,     \* MAX_HEADERS_FRAME_SIZE
  Table,          \* the Huffman code words, sequences of bits; the last is EOS
  ByteBits,       \* 8 in decode
  MaxBytes        \* bound: bytes of a Huffman string

ASSUME QpackAssumption ==
  /\ ValueBits = MaxShift + GroupBits + 1
  /\ \A i \in DOMAIN Prefix : Prefix[i] \in 1..(GroupBits + 1)
  /\ \A i, j \in DOMAIN Table : i # j => \E k \in 1..Min({Len(Table[i]), Len(Table[j])}) : Table[i][k] # Table[j][k]
  /\ \A k \in DOMAIN Table[Len(Table)] : Table[Len(Table)][k] = 1

VARIABLES
  at,        \* what is read next, or how it ended; "text" for decode alone
  skipped,   \* frames skipped
  size, pos, \* of the payload
  more,      \* inside an integer
  value, shift,
  status,    \* the status found last, 0 for none
  colo,      \* the name just read is cf-warp-colo / its value has been kept
  echo,      \* the integer sent, when an own integer is read back
  \* decode:
  acc,       \* the bits not yet matched, acc with nbits
  out,       \* the symbols decoded
  fed,       \* all bits so far
  huff       \* "off", "byte", "match", "ok" or "error"

intVars == <<more, value, shift>>
huffVars == <<acc, out, fed, huff>>
qpackVars == <<at, skipped, size, pos, intVars, status, colo, echo, huffVars>>

-----------------------------------------------------------------------------
\* encode_integer: the prefix, then groups from the lowest, all but the last
\* marked as continued.
EncodeInteger(v, bits) ==
  LET max == 2 ^ bits - 1
      groups[r \in Nat] == IF r < 2 ^ GroupBits THEN <<r>>
                           ELSE <<r % 2 ^ GroupBits>> \o groups[r \div 2 ^ GroupBits]
  IN  IF v < max THEN <<v>> ELSE <<max>> \o groups[v - max]

\* The largest integer that fits the groups the decoder reads.
MaxEcho == 2 ^ Prefix["echo"] - 1 + 2 ^ (MaxShift + GroupBits) - 1
NoEcho == MaxEcho + 1

QInit ==
  /\ skipped = 0 /\ pos = 0 /\ more = FALSE /\ value = 0 /\ shift = 0 /\ status = 0
  /\ colo = [named |-> FALSE, kept |-> FALSE]
  /\ \/ at = "frame" /\ echo = NoEcho /\ size = 0 /\ huff = "off"
     \/ at = "echo" /\ echo \in 0..MaxEcho /\ size = Len(EncodeInteger(echo, Prefix["echo"])) /\ huff = "off"
     \/ at = "text" /\ echo = NoEcho /\ size = 0 /\ huff = "byte"
  /\ acc = <<>> /\ out = <<>> /\ fed = <<>>

QFails == at' = "error" /\ UNCHANGED <<skipped, size, pos, intVars, status, colo>>

-----------------------------------------------------------------------------
\* exchange: one frame.  The stream may also end, or fail, inside it.
Frame(headers, len) ==
  /\ at = "frame"
  /\ IF ~headers
     THEN /\ skipped' = skipped + 1
          /\ at' = IF skipped + 1 = MaxSkipped THEN "error" ELSE "frame"
          /\ UNCHANGED <<size, pos, intVars, status, colo>>
     ELSE IF len > MaxHeaders THEN QFails
     ELSE size' = len /\ at' = "count" /\ UNCHANGED <<skipped, pos, intVars, status, colo>>
  /\ UNCHANGED <<echo, huffVars>>

StreamBreaks == at = "frame" /\ QFails /\ UNCHANGED <<echo, huffVars>>

-----------------------------------------------------------------------------
\* decode_headers: the end of the section, or the kind of the next line.
Line ==
  /\ at = "line"
  /\ IF pos >= size
     THEN at' = IF status = 0 THEN "error" ELSE IF status = 200 THEN "up" ELSE "refused"
     ELSE at' \in {"static", "dynamic", "ref", "name", "error"}
  /\ UNCHANGED <<skipped, size, pos, intVars, status, colo, echo, huffVars>>

\* What an integer that ends before position p is good for.
Lookup(i) == IF i \in DOMAIN StatusAt THEN StatusAt[i] ELSE status

\* The name or the value with the length just read ends at p + v; its decoding
\* may fail, and a value that is not UTF-8 is not kept.
Text(p, v) ==
  IF p + v > size THEN QFails
  ELSE /\ pos' = p + v /\ UNCHANGED <<skipped, size, status>>
       /\ \/ at' = "error" /\ at # "refvalue" /\ UNCHANGED colo
          \/ at = "name" /\ at' = "value" /\ \E b \in BOOLEAN : colo' = [colo EXCEPT !.named = b]
          \/ at = "value" /\ at' = "line"
               /\ \E b \in BOOLEAN : colo' = IF colo.named THEN [named |-> FALSE, kept |-> b] ELSE colo
          \/ at = "refvalue" /\ at' = "line" /\ UNCHANGED colo
       /\ more' = FALSE /\ value' = v /\ shift' = 0

IntegerRead(p, v) ==
  IF at \in {"name", "value", "refvalue"} THEN Text(p, v)
  ELSE /\ pos' = p /\ UNCHANGED <<skipped, size, colo>>
       /\ at' = CASE at = "count" -> "base" [] at = "ref" -> "refvalue" [] at = "echo" -> "echoed"
                  [] at \in {"base", "static", "dynamic"} -> "line"
       /\ status' = IF at = "static" THEN Lookup(v) ELSE status
       /\ more' = FALSE /\ value' = v /\ shift' = 0

\* What the byte at pos may hold.
Holds(fields) ==
  IF at # "echo" THEN fields
  ELSE LET bytes == EncodeInteger(echo, Prefix["echo"]) IN
       {f \in fields : f.low = bytes[pos + 1] /\ (more => f.cont = (pos + 1 < size))}

Reads == at \in DOMAIN Prefix

\* decode_integer: the first byte.
FirstByte ==
  LET max == 2 ^ Prefix[at] - 1 IN
  /\ Reads /\ ~more
  /\ IF pos >= size THEN QFails
     ELSE \E f \in Holds([low : 0..max, cont : {FALSE}]) :
            IF f.low < max THEN IntegerRead(pos + 1, f.low)
            ELSE /\ more' = TRUE /\ value' = max /\ shift' = 0 /\ pos' = pos + 1
                 /\ UNCHANGED <<at, skipped, size, status, colo>>
  /\ UNCHANGED <<echo, huffVars>>

\* The loop over continuation bytes.
BadTooLong(s) == s > MaxShift + GroupBits
TooLong(s) == s > MaxShift

NextGroup ==
  /\ Reads /\ more
  /\ IF pos >= size THEN QFails
     ELSE \E f \in Holds([low : 0..(2 ^ GroupBits - 1), cont : BOOLEAN]) :
            LET v == value + f.low * 2 ^ shift IN
            IF ~f.cont THEN IntegerRead(pos + 1, v)
            ELSE IF TooLong(shift + GroupBits) THEN QFails
            ELSE /\ value' = v /\ shift' = shift + GroupBits /\ pos' = pos + 1
                 /\ UNCHANGED <<at, skipped, size, more, status, colo>>
  /\ UNCHANGED <<echo, huffVars>>

-----------------------------------------------------------------------------
\* huffman::decode: take a byte, then match code words while there is one.
TakeByte(bits) ==
  /\ huff = "byte" /\ Len(fed) < MaxBytes * ByteBits
  /\ acc' = acc \o bits /\ fed' = fed \o bits /\ huff' = "match"
  /\ UNCHANGED <<out, at, skipped, size, pos, intVars, status, colo, echo>>

\* match_symbol: the first entry whose code word begins acc.
Matches == {i \in DOMAIN Table : Len(Table[i]) <= Len(acc) /\ SubSeq(acc, 1, Len(Table[i])) = Table[i]}

MatchSymbol ==
  /\ huff = "match"
  /\ IF Matches = {} THEN huff' = "byte" /\ UNCHANGED <<acc, out>>
     ELSE LET i == Min(Matches) IN
          IF i = Len(Table) THEN huff' = "error" /\ UNCHANGED <<acc, out>>
          ELSE /\ out' = Append(out, i) /\ acc' = SubSeq(acc, Len(Table[i]) + 1, Len(acc))
               /\ UNCHANGED huff
  /\ UNCHANGED <<fed, at, skipped, size, pos, intVars, status, colo, echo>>

\* The string ends: what is left is less than a byte of padding, all ones.
Padding(bits) == Len(bits) < ByteBits /\ \A k \in DOMAIN bits : bits[k] = 1

StringEnds ==
  /\ huff = "byte" /\ huff' = IF Padding(acc) THEN "ok" ELSE "error"
  /\ UNCHANGED <<acc, out, fed, at, skipped, size, pos, intVars, status, colo, echo>>

QNext ==
  \/ \E h \in BOOLEAN, len \in 0..(MaxHeaders + 1) : Frame(h, len)
  \/ StreamBreaks \/ Line \/ FirstByte \/ NextGroup
  \/ \E bits \in [1..ByteBits -> {0, 1}] : TakeByte(bits)
  \/ MatchSymbol \/ StringEnds

-----------------------------------------------------------------------------
\* The code words of a string of symbols, one after the other.
Coded(symbols) == FlattenSeq([k \in DOMAIN symbols |-> Table[symbols[k]]])

\* The reference for decode: some cut of the bits leaves code words other than
\* EOS before it and padding after it.
Decodable(bits) ==
  LET cut[k \in 0..Len(bits)] ==
        \/ k = 0
        \/ \E i \in 1..(Len(Table) - 1) :
             LET n == Len(Table[i]) IN n <= k /\ cut[k - n] /\ SubSeq(bits, k - n + 1, k) = Table[i]
  IN  \E k \in 0..Len(bits) :
        cut[k] /\ Len(bits) - k < ByteBits /\ \A j \in (k + 1)..Len(bits) : bits[j] = 1

\* Whatever the edge answers, every read is inside the frame, no integer
\* outgrows its 64 bits, and a CONNECT succeeds only on a section that was
\* read to its last byte and says 200 last; what encode_integer writes is read
\* back whole (qpack.rs:25-38, 126-173, 230-258).  decode loses no bit, keeps
\* less than a code word and a byte at hand, and accepts exactly the strings
\* that are code words and padding (huffman.rs:274-320).
AnswerExact ==
  /\ pos <= size /\ value < 2 ^ ValueBits
  /\ at \in {"up", "refused"} => pos = size
  /\ at = "up" => status = 200
  /\ at = "frame" => skipped < MaxSkipped
  /\ at = "echoed" => value = echo /\ pos = size
  /\ at = "error" => echo = NoEcho
  /\ fed = Coded(out) \o acc
  /\ Len(acc) < ByteBits + Len(Table[Len(Table)])
  /\ huff = "ok" => Decodable(fed)
  /\ huff = "error" => ~Decodable(fed)
=============================================================================
