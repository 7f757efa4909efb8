-------------------------------- MODULE Doh --------------------------------
(***************************************************************************)
(* resolve_domain of the MASQUE outbound: the DoH cache, and lookups that   *)
(* try the record types and, for each, the DoH addresses in turn.  A lookup *)
(* can be dropped at any await by the connection that waits for it.         *)
(***************************************************************************)
EXTENDS Naturals, FiniteSets

CONSTANTS Askers, Domains,
          Addrs,        \* how many DOH_ADDRS there are
          DohTtls, DohMinTtl, DohMaxTtl,
          ReadTime,     \* QUERY_TIMEOUT of the response: its greatest age
          DohCap        \* MAX_CACHE_ENTRIES

ASSUME DohAssumption ==
  /\ Addrs \in Nat \ {0} /\ DohCap \in Nat \ {0} /\ DohTtls \subseteq Nat
  /\ DohMinTtl \in Nat \ {0} /\ DohMaxTtl \in Nat /\ DohMinTtl <= DohMaxTtl /\ ReadTime \in Nat

VARIABLES asker, domain,
          dohAt,        \* the query under way: <<record type 1..2, address>>
          dohResult,    \* what the lookup returned
          dohCache      \* domain -> [ttl, age, left]

dohVars == <<asker, domain, dohAt, dohResult, dohCache>>

NoDomain == "none"
NoDohResult == [ttl |-> 0, age |-> 0]
DohQueries == (1..2) \X (1..Addrs)     \* A, then AAAA, over every address

DohInit ==
  /\ asker = [c \in Askers |-> "idle"] /\ domain = [c \in Askers |-> NoDomain]
  /\ dohAt = [c \in Askers |-> <<1, 1>>]
  /\ dohResult = [c \in Askers |-> NoDohResult]
  /\ dohCache = [d \in {} |-> NoDohResult]

-----------------------------------------------------------------------------
Clamp(t) == IF t < DohMinTtl THEN DohMinTtl ELSE IF t > DohMaxTtl THEN DohMaxTtl ELSE t
Only(ch, ds) == [d \in ds |-> ch[d]]
DohLive(ch) == {d \in DOMAIN ch : ch[d].left > 0}

\* The entry that expires first makes place when all are live.
Victims(ch) == {d \in DOMAIN ch : \A x \in DOMAIN ch : ch[d].left <= ch[x].left}

\* What store may leave in place before it inserts d.
Rooms(ch, d) ==
  IF d \in DOMAIN ch \/ Cardinality(DOMAIN ch) < DohCap THEN {ch}
  ELSE IF Cardinality(DohLive(ch)) < DohCap THEN {Only(ch, DohLive(ch))}
  ELSE {Only(ch, DOMAIN ch \ {v}) : v \in Victims(ch)}

Store(d, e) ==
  \E r \in Rooms(dohCache, d) :
    dohCache' = [x \in DOMAIN r \cup {d} |-> IF x = d THEN e ELSE r[x]]

\* cached: a hit, or the removal of an expired entry.
Fresh(d) == d \in DOMAIN dohCache /\ dohCache[d].left > 0

Begin(c, d) ==
  /\ asker[c] = "idle" /\ domain' = [domain EXCEPT ![c] = d]
  /\ \/ /\ Fresh(d) /\ asker' = [asker EXCEPT ![c] = "done"]
        /\ dohResult' = [dohResult EXCEPT ![c] = [ttl |-> dohCache[d].ttl, age |-> dohCache[d].age]]
        /\ UNCHANGED dohCache
     \/ /\ ~Fresh(d) /\ asker' = [asker EXCEPT ![c] = "query"]
        /\ dohCache' = Only(dohCache, DOMAIN dohCache \ {d})
        /\ UNCHANGED dohResult
  /\ UNCHANGED dohAt

\* The two nested loops: next address, next record type, or out of both.
Following(q) == IF q[2] < Addrs THEN <<q[1], q[2] + 1>> ELSE <<q[1] + 1, 1>>

\* The stream, the TLS handshake, the request or its answer fails, times out,
\* or the answer has no address of the type.
QueryFails(c) ==
  /\ asker[c] = "query"
  /\ LET q == Following(dohAt[c]) IN
       \/ q \in DohQueries /\ dohAt' = [dohAt EXCEPT ![c] = q] /\ UNCHANGED asker
       \/ /\ q \notin DohQueries /\ asker' = [asker EXCEPT ![c] = "failed"]
          /\ dohAt' = [dohAt EXCEPT ![c] = <<1, 1>>]
  /\ UNCHANGED <<domain, dohResult, dohCache>>

\* resolve_over succeeds: store, then return the address.
QueryAnswers(c) ==
  /\ asker[c] = "query"
  /\ \E t \in DohTtls, a \in 0..ReadTime :
       /\ Store(domain[c], [ttl |-> t, age |-> a, left |-> Clamp(t)])
       /\ dohResult' = [dohResult EXCEPT ![c] = [ttl |-> t, age |-> a]]
  /\ asker' = [asker EXCEPT ![c] = "done"] /\ dohAt' = [dohAt EXCEPT ![c] = <<1, 1>>]
  /\ UNCHANGED domain

Rest(c) ==
  /\ asker' = [asker EXCEPT ![c] = "idle"] /\ domain' = [domain EXCEPT ![c] = NoDomain]
  /\ dohAt' = [dohAt EXCEPT ![c] = <<1, 1>>]
  /\ dohResult' = [dohResult EXCEPT ![c] = NoDohResult]
  /\ UNCHANGED dohCache

Returns(c) == asker[c] \in {"done", "failed"} /\ Rest(c)
Dropped(c) == asker[c] = "query" /\ Rest(c)

DohTick ==
  /\ dohCache' = [d \in DOMAIN dohCache |->
       [ttl |-> dohCache[d].ttl,
        age |-> IF dohCache[d].age > ReadTime + DohMaxTtl THEN dohCache[d].age ELSE dohCache[d].age + 1,
        left |-> IF dohCache[d].left > 0 THEN dohCache[d].left - 1 ELSE 0]]
  /\ UNCHANGED <<asker, domain, dohAt, dohResult>>

DohNext == DohTick \/ \E c \in Askers :
             \/ \E d \in Domains : Begin(c, d)
             \/ QueryFails(c) \/ QueryAnswers(c) \/ Returns(c) \/ Dropped(c)

DohSpec == DohInit /\ [][DohNext]_dohVars

-----------------------------------------------------------------------------

\* No lookup returns an address older than its TTL (5 s at least, 300 s at
\* most) plus the time its response may take.
DohNeverStale ==
  \A c \in Askers : asker[c] = "done" =>
    \/ dohResult[c].age <= ReadTime + DohMinTtl
    \/ dohResult[c].age <= ReadTime + dohResult[c].ttl /\ dohResult[c].age <= ReadTime + DohMaxTtl
=============================================================================
