------------------------------ MODULE MCNames ------------------------------
(* Name resolution: lookups over the tunnel, the parser of their answers,  *)
(* and the DoH lookups of the MASQUE outbound.  One of them is chosen and  *)
(* moves; the others stay as they started.  The parser is given            *)
(* well-formed answers to one query, every prefix of each, and each with   *)
(* one byte changed.                                                       *)
EXTENDS Dns, DnsParse, Doh, SequencesExt

VARIABLE moves

Asked == EncodeQuery(7, <<<<97>>, <<98, 99>>>>, QType)

\* An answer record: a pointer to the question's name or a name of its own.
Rec(name, type, life, data) ==
  [name |-> name, type |-> type, ttl |-> life, data |-> data]
Ptr == <<192, 12>>
V4(x) == <<10, 0, 0, x>>

RecBytes(r) ==
  r.name \o Be16(r.type) \o Be16(1) \o Be16(r.ttl[1]) \o Be16(r.ttl[2])
    \o Be16(Len(r.data)) \o r.data

Cname == Rec(Ptr, 5, <<0, 3>>, NameBytes(<<<<100>>>>))
Records == {
  <<>>,
  <<Rec(Ptr, 1, <<0, 60>>, V4(1))>>,
  <<Cname, Rec(NameBytes(<<<<100>>>>), 1, <<1, 0>>, V4(2)),
    Rec(Ptr, 1, <<0, 9>>, V4(3)), Rec(Ptr, 1, <<0, 10>>, V4(4))>>,
  <<Rec(Ptr, 28, <<0, 1>>, [i \in 1..16 |-> i]), Rec(Ptr, 1, <<0, 8>>, <<1, 2>>)>> }

Wire(rs) ==
  Be16(7) \o <<129, 128>> \o Be16(1) \o Be16(Len(rs)) \o <<0, 0, 0, 0>>
    \o SubSeq(Asked, 13, Len(Asked)) \o FlattenSeq([i \in 1..Len(rs) |-> RecBytes(rs[i])])

Wires == [rs \in Records |-> Wire(rs)]

MCBuffers ==
  UNION { LET w == Wires[rs] IN
          {SubSeq(w, 1, n) : n \in 0..Len(w)}
            \cup {[w EXCEPT ![i] = v] : i \in 1..Len(w), v \in {0, 1, 2, 4, 22, 63, 192, 255}}
        : rs \in Records }

MatchesType(r) == r.type = QType /\ Len(r.data) = (IF QType = 1 THEN 4 ELSE 16)
SmallestTtl(rs) ==
  IF rs = <<>> THEN <<65535, 65535>>
  ELSE CHOOSE t \in {rs[i].ttl : i \in 1..Len(rs)} :
         \A i \in 1..Len(rs) : t[1] < rs[i].ttl[1]
                                 \/ (t[1] = rs[i].ttl[1] /\ t[2] <= rs[i].ttl[2])

Init ==
  /\ moves \in {"lookups", "parser", "doh"}
  /\ DnsInit /\ PInit /\ DohInit
  /\ moves # "parser" => buf = <<>>

Next ==
  /\ UNCHANGED moves
  /\ \/ moves = "lookups" /\ DnsNext /\ UNCHANGED <<parseVars, dohVars>>
     \/ moves = "parser" /\ PNext /\ UNCHANGED <<dnsVars, dohVars>>
     \/ moves = "doh" /\ DohNext /\ UNCHANGED <<dnsVars, parseVars>>

Spec == Init /\ [][Next]_<<moves, dnsVars, parseVars, dohVars>>

Symmetry ==
  UNION {Permutations(S) : S \in {Callers, Askers}}

\* parse_dns_response on a well-formed answer returns exactly the addresses
\* of the type asked for, in order, and the smallest of their TTLs, whatever
\* other records lie between them.
ParsesWhatWasSent ==
  stage \in {"ok", "error"} => \A rs \in Records : buf = Wires[rs] =>
    LET mine == SelectSeq(rs, MatchesType)
    IN  /\ stage = "ok"
        /\ found = [i \in 1..Len(mine) |-> mine[i].data]
        /\ ttl = SmallestTtl(mine)

\* No lookup, over the tunnel or over DoH, returns an address past its bounded
\* TTL plus the time its own request may take (dns.rs:317-330, doh.rs:61-86).
CachesFresh == NeverStale /\ DohNeverStale
=============================================================================
