----------------------------- MODULE DnsProofs -----------------------------
(***************************************************************************)
(* For any number of lookups, keys, ports and packets: the cache stays      *)
(* within its capacity, and every lookup gets the answer to its question.   *)
(***************************************************************************)
EXTENDS Dns, FiniteSetTheorems, TLAPS

\* What a packet with a waiting lookup's id says, and whose that id is.
IdsTell ==
  /\ \A c \in Callers : pc[c] = "wait" => key[c] \in Keys
  /\ \A c \in Callers, m \in net :
       pc[c] = "wait" /\ m.id = id[c] => m.key = key[c]
  /\ \A c, d \in Callers :
       pc[c] = "wait" /\ pc[d] = "wait" /\ id[c] = id[d] => c = d

IInv == DnsTypeOK /\ IdsTell /\ OwnAnswer

-----------------------------------------------------------------------------
\* Room leaves a place free: it keeps all, the live ones, or none.
LEMMA RoomLeavesPlace ==
  ASSUME NEW ch, IsFiniteSet(DOMAIN ch), Cardinality(DOMAIN ch) <= CacheCap
  PROVE  /\ IsFiniteSet(DOMAIN Room(ch)) /\ Cardinality(DOMAIN Room(ch)) < CacheCap
         /\ DOMAIN Room(ch) \subseteq DOMAIN ch
         /\ \A k \in DOMAIN Room(ch) : Room(ch)[k] = ch[k]
<1>1. CacheCap \in Nat \ {0}
  BY DnsAssumption
<1>2. Live(ch) \in SUBSET (DOMAIN ch)
  BY DEF Live
<1>3. IsFiniteSet(Live(ch))
  BY <1>2, FS_Subset
<1>4. CASE Cardinality(DOMAIN ch) < CacheCap
  BY <1>4 DEF Room
<1>5. CASE ~(Cardinality(DOMAIN ch) < CacheCap) /\ Cardinality(Live(ch)) < CacheCap
  <2>1. Room(ch) = [k \in Live(ch) |-> ch[k]]
    BY <1>5 DEF Room
  <2> QED
    BY <2>1, <1>2, <1>3, <1>5
<1>6. CASE ~(Cardinality(DOMAIN ch) < CacheCap) /\ ~(Cardinality(Live(ch)) < CacheCap)
  <2>1. Room(ch) = [k \in {} |-> ch[k]]
    BY <1>6 DEF Room
  <2>2. DOMAIN Room(ch) = {}
    BY <2>1
  <2> QED
    BY <2>2, <1>1, FS_EmptySet
<1> QED
  BY <1>4, <1>5, <1>6

\* put keeps the bound and the other entries it does not drop.
LEMMA PutKeepsBound ==
  ASSUME NEW ch, IsFiniteSet(DOMAIN ch), Cardinality(DOMAIN ch) <= CacheCap,
         NEW k, NEW e
  PROVE  /\ IsFiniteSet(DOMAIN Put(ch, k, e))
         /\ Cardinality(DOMAIN Put(ch, k, e)) <= CacheCap
         /\ DOMAIN Put(ch, k, e) \subseteq DOMAIN ch \cup {k}
         /\ Put(ch, k, e) = [x \in DOMAIN Put(ch, k, e) |-> IF x = k THEN e ELSE ch[x]]
<1> DEFINE r == Room(ch)
<1>1. /\ IsFiniteSet(DOMAIN r) /\ Cardinality(DOMAIN r) < CacheCap
      /\ DOMAIN r \subseteq DOMAIN ch /\ \A x \in DOMAIN r : r[x] = ch[x]
  BY RoomLeavesPlace
<1>2. Put(ch, k, e) = [x \in DOMAIN r \cup {k} |-> IF x = k THEN e ELSE r[x]]
  BY DEF Put
<1>3. DOMAIN Put(ch, k, e) = DOMAIN r \cup {k}
  BY <1>2
<1> HIDE DEF r
<1>4. /\ IsFiniteSet(DOMAIN r \cup {k})
      /\ Cardinality(DOMAIN r \cup {k}) =
           IF k \in DOMAIN r THEN Cardinality(DOMAIN r) ELSE Cardinality(DOMAIN r) + 1
  BY <1>1, FS_AddElement
<1>5. Cardinality(DOMAIN r) \in Nat /\ CacheCap \in Nat
  BY <1>1, FS_CardinalityType, DnsAssumption
<1>6. Cardinality(DOMAIN r \cup {k}) <= CacheCap
  BY <1>1, <1>4, <1>5
<1>7. Put(ch, k, e) = [x \in DOMAIN r \cup {k} |-> IF x = k THEN e ELSE ch[x]]
  BY <1>1, <1>2
<1> QED
  BY <1>1, <1>3, <1>4, <1>6, <1>7

-----------------------------------------------------------------------------
LEMMA InitInv == DnsInit => IInv
<1> SUFFICES ASSUME DnsInit PROVE IInv
  OBVIOUS
<1>1. DOMAIN cache = {} /\ CacheCap \in Nat
  BY DnsAssumption DEF DnsInit
<1>2. IsFiniteSet(DOMAIN cache) /\ Cardinality(DOMAIN cache) <= CacheCap
  BY <1>1, FS_EmptySet
<1>3. cache \in [DOMAIN cache -> Entries]
  BY <1>1 DEF DnsInit
<1>4. DnsTypeOK
  BY <1>1, <1>2, <1>3 DEF DnsInit, DnsTypeOK, NoResult, Answers
<1> QED
  BY <1>1, <1>4 DEF DnsInit, IInv, IdsTell, OwnAnswer

\* A lookup that leaves is no longer waiting; nothing else about ids changes.
LEMMA LeaveInv ==
  ASSUME DnsTypeOK, IdsTell, NEW c \in Callers, pc[c] = "wait",
         NEW to \in {"done", "idle"}, Leave(c, to),
         net' \subseteq net
  PROVE  /\ IdsTell'
         /\ key' \in [Callers -> Keys \cup {NoKey}]
         /\ to = "done" => key' = key
         /\ \A d \in Callers : d # c => key'[d] = key[d]
         /\ pc' \in [Callers -> {"idle", "wait", "done"}]
         /\ port' \in [Callers -> Ports \cup {0}] /\ id' \in [Callers -> Nat]
         /\ pc' = [pc EXCEPT ![c] = to]
<1>1. /\ pc' \in [Callers -> {"idle", "wait", "done"}]
      /\ port' \in [Callers -> Ports \cup {0}] /\ id' \in [Callers -> Nat]
      /\ pc' = [pc EXCEPT ![c] = to]
  BY DEF Leave, DnsTypeOK
<1>2. \A d \in Callers : pc'[d] = "wait" =>
        d # c /\ pc[d] = "wait" /\ id'[d] = id[d] /\ key'[d] = key[d]
  BY DEF Leave, DnsTypeOK
<1>3. key' \in [Callers -> Keys \cup {NoKey}] /\ (to = "done" => key' = key)
  BY DEF Leave, DnsTypeOK
<1>4. \A d \in Callers : d # c => key'[d] = key[d]
  BY DEF Leave, DnsTypeOK
<1> QED
  <2>1. /\ key' \in [Callers -> Keys \cup {NoKey}] /\ (to = "done" => key' = key)
        /\ \A d \in Callers : d # c => key'[d] = key[d]
    BY <1>3, <1>4
  <2>2. IdsTell'
    BY <1>2 DEF IdsTell
  <2> QED
    BY <1>1, <2>1, <2>2

\* Steps that change neither ids nor answers.
LEMMA QuietInv ==
  ASSUME IInv, UNCHANGED <<pc, key, port, id, result, cache, net>>
  PROVE  IInv'
  BY DEF IInv, DnsTypeOK, IdsTell, OwnAnswer

\* A packet with the id and the key of a waiting lookup may join the network.
LEMMA OfferInv ==
  ASSUME IInv, NEW c \in Callers, pc[c] = "wait", Offer(Query(c)),
         UNCHANGED <<pc, key, port, id, result, cache>>
  PROVE  IInv'
<1>1. Query(c) \in Queries /\ Query(c).id = id[c] /\ Query(c).key = key[c]
  BY DEF IInv, DnsTypeOK, IdsTell, Query, Queries
<1>2. net' \subseteq net \cup {Query(c)}
  BY DEF Offer
<1>3. DnsTypeOK'
  BY <1>1, <1>2 DEF IInv, DnsTypeOK
<1>4. IdsTell'
  BY <1>1, <1>2 DEF IInv, IdsTell
<1> QED
  BY <1>3, <1>4 DEF IInv, OwnAnswer

LEMMA AskInv ==
  ASSUME IInv, NEW c \in Callers, NEW k \in Keys, Ask(c, k)
  PROVE  IInv'
<1> USE DEF IInv
<1>1. PICK i \in Ids : NewId(i) /\ id' = [id EXCEPT ![c] = i]
  BY DEF Ask
<1>2. i \in Nat
  BY DEF Ids
<1>3. /\ \A m \in net : m.id # i
      /\ \A d \in Callers : pc[d] = "wait" => id[d] # i
  BY <1>1 DEF NewId, FreeIds, Waiting
<1>4. /\ pc' = [pc EXCEPT ![c] = "wait"] /\ key' = [key EXCEPT ![c] = k]
      /\ port' \in [Callers -> Ports \cup {0}] /\ pc[c] = "idle"
      /\ result' = result /\ cache' = cache
  BY DEF Ask, DnsTypeOK
<1>5. net' \subseteq net \cup {Query(c)'}
  BY DEF Ask, Offer
<1>6. Query(c)' \in Queries /\ Query(c)'.id = i /\ Query(c)'.key = k
  BY <1>1, <1>2, <1>4 DEF Query, Queries, DnsTypeOK
<1>7. DnsTypeOK'
  BY <1>1, <1>2, <1>4, <1>5, <1>6 DEF DnsTypeOK
<1>8. IdsTell'
  <2>1. \A d \in Callers : pc'[d] = "wait" =>
          \/ d = c /\ key'[d] = k /\ id'[d] = i
          \/ d # c /\ pc[d] = "wait" /\ key'[d] = key[d] /\ id'[d] = id[d]
    BY <1>1, <1>4 DEF DnsTypeOK
  <2> QED
    BY <2>1, <1>3, <1>5, <1>6 DEF IdsTell
<1>9. OwnAnswer'
  BY <1>4 DEF OwnAnswer, DnsTypeOK
<1> QED
  BY <1>7, <1>8, <1>9

LEMMA FromCacheInv ==
  ASSUME IInv, NEW c \in Callers, NEW k \in Keys, FromCache(c, k)
  PROVE  IInv'
<1> USE DEF IInv
<1>1. /\ pc' = [pc EXCEPT ![c] = "done"] /\ key' = [key EXCEPT ![c] = k]
      /\ result' = [result EXCEPT ![c] = Answer(cache[k])]
      /\ UNCHANGED <<port, id, cache, net>>
  BY DEF FromCache
<1>2. k \in DOMAIN cache /\ cache[k] \in Entries /\ cache[k].key = k
  BY DEF FromCache, Hit, DnsTypeOK, OwnAnswer
<1>3. Answer(cache[k]) \in Answers /\ Answer(cache[k]).key = k
  BY <1>2 DEF Answer, Answers, Entries
<1>4. DnsTypeOK'
  BY <1>1, <1>3 DEF DnsTypeOK
<1>5. IdsTell'
  BY <1>1 DEF IdsTell, DnsTypeOK
<1>6. OwnAnswer'
  BY <1>1, <1>3 DEF OwnAnswer, DnsTypeOK
<1> QED
  BY <1>4, <1>5, <1>6

LEMMA ReceiveInv ==
  ASSUME IInv, NEW c \in Callers, NEW m \in net, Receive(c, m)
  PROVE  IInv'
<1> USE DEF IInv
<1>1. pc[c] = "wait" /\ net' \subseteq net /\ m \in Responses
  BY DEF Receive, DnsTypeOK, Queries, Responses
<1>2. CASE ~Usable(c, m) /\ Leave(c, "idle") /\ UNCHANGED <<result, cache>>
  BY <1>1, <1>2, LeaveInv DEF DnsTypeOK, OwnAnswer
<1>3. CASE Usable(c, m)
  <2> DEFINE e == [key |-> m.key, some |-> m.some, ttl |-> m.ttl,
                   age |-> m.age, left |-> Lifetime(m.some, m.ttl)]
  <2>1. /\ Leave(c, "done") /\ result' = [result EXCEPT ![c] = Answer(m)]
        /\ cache' = Put(cache, key[c], e)
    BY <1>3 DEF Receive
  <2>2. m.key = key[c] /\ key[c] \in Keys
    BY <1>1, <1>3 DEF Usable, IdsTell
  <2>3. Lifetime(m.some, m.ttl) \in Nat
    BY <1>1, DnsAssumption DEF Lifetime, Responses
  <2>4. e \in Entries /\ e.key = key[c]
    BY <1>1, <2>2, <2>3 DEF Entries, Responses
  <2>5. Answer(m) \in Answers /\ Answer(m).key = key[c]
    BY <1>1, <2>2 DEF Answer, Answers, Responses
  <2> HIDE DEF e
  <2>6. /\ IsFiniteSet(DOMAIN cache') /\ Cardinality(DOMAIN cache') <= CacheCap
        /\ DOMAIN cache' \subseteq DOMAIN cache \cup {key[c]}
        /\ cache' = [x \in DOMAIN cache' |-> IF x = key[c] THEN e ELSE cache[x]]
    BY <2>1, PutKeepsBound DEF DnsTypeOK
  <2>7. cache' \in [DOMAIN cache' -> Entries] /\ DOMAIN cache' \subseteq Keys
    BY <2>2, <2>4, <2>6 DEF DnsTypeOK
  <2>8. /\ IdsTell'
        /\ pc' \in [Callers -> {"idle", "wait", "done"}]
        /\ port' \in [Callers -> Ports \cup {0}] /\ id' \in [Callers -> Nat]
        /\ pc' = [pc EXCEPT ![c] = "done"] /\ key' = key
    BY <1>1, <2>1, LeaveInv
  <2>9. DnsTypeOK'
    BY <1>1, <2>1, <2>5, <2>6, <2>7, <2>8 DEF DnsTypeOK
  <2>10. \A d \in Callers : pc'[d] = "done" => result'[d].key = key'[d]
    BY <1>1, <2>1, <2>5, <2>8 DEF DnsTypeOK, OwnAnswer
  <2>11. \A x \in DOMAIN cache' : cache'[x].key = x
    BY <2>4, <2>6 DEF OwnAnswer
  <2> QED
    BY <2>8, <2>9, <2>10, <2>11 DEF OwnAnswer
<1> QED
  BY <1>2, <1>3 DEF Receive

LEMMA TickInv ==
  ASSUME IInv, Tick
  PROVE  IInv'
<1> USE DEF IInv
<1>1. UNCHANGED <<pc, key, port, id, result>>
  BY DEF Tick
<1>2. /\ DOMAIN cache' = DOMAIN cache
      /\ \A k \in DOMAIN cache : cache'[k] \in Entries /\ cache'[k].key = cache[k].key
      /\ cache' \in [DOMAIN cache' -> Entries]
  <2>1. \A cap : \A a \in Nat : Older(a, cap) \in Nat
    BY DEF Older
  <2>2. ASSUME NEW e \in Entries
        PROVE  Aged(e) \in Entries /\ Aged(e).key = e.key
    <3>1. /\ Older(e.age, Timeout + MaxTtl) \in Nat
          /\ (IF e.left > 0 THEN e.left - 1 ELSE 0) \in Nat
      BY <2>1 DEF Entries
    <3>2. e.key \in Keys /\ e.some \in BOOLEAN /\ e.ttl \in Nat
      BY DEF Entries
    <3> QED
      BY <3>1, <3>2 DEF Entries, Aged
  <2>3. cache' = [k \in DOMAIN cache |-> Aged(cache[k])]
    BY DEF Tick
  <2>4. \A k \in DOMAIN cache : cache[k] \in Entries
    BY DEF DnsTypeOK
  <2> QED
    BY <2>2, <2>3, <2>4
<1>3. \A n \in net' : n \in Queries \cup Responses
                       /\ \E m \in net : n.id = m.id /\ n.key = m.key
  <2>1. \A cap : \A a \in Nat : Older(a, cap) \in Nat
    BY DEF Older
  <2> SUFFICES ASSUME NEW n \in net'
               PROVE  n \in Queries \cup Responses
                        /\ \E m \in net : n.id = m.id /\ n.key = m.key
    OBVIOUS
  <2>2. PICK m \in net :
          n = IF m.kind = "response" /\ m.ok THEN [m EXCEPT !.age = Older(@, Timeout)] ELSE m
    BY DEF Tick
  <2>3. CASE m.kind = "response" /\ m.ok
    <3>1. m \in Responses
      BY <2>3 DEF DnsTypeOK, Queries, Responses
    <3> QED
      BY <2>1, <2>2, <2>3, <3>1 DEF Responses
  <2>4. CASE ~(m.kind = "response" /\ m.ok)
    BY <2>2, <2>4 DEF DnsTypeOK
  <2> QED
    BY <2>3, <2>4
<1>4. DnsTypeOK'
  BY <1>1, <1>2, <1>3 DEF DnsTypeOK
<1>5. IdsTell'
  BY <1>1, <1>3 DEF IdsTell
<1>6. OwnAnswer'
  BY <1>1, <1>2 DEF OwnAnswer
<1> QED
  BY <1>4, <1>5, <1>6

LEMMA ServerInv ==
  ASSUME IInv, NEW q \in net, Server(q)
  PROVE  IInv'
<1> USE DEF IInv
<1>1. UNCHANGED <<pc, key, port, id, result, cache>> /\ q \in Queries
  BY DEF Server, lookup, DnsTypeOK, Queries, Responses
<1>2. PICK ok \in BOOLEAN, some \in BOOLEAN, t \in Nat :
        net' \subseteq net \cup {Response(q, ok, some, t)}
  BY DnsAssumption DEF Server
<1>3. /\ Response(q, ok, some, t) \in Responses
      /\ Response(q, ok, some, t).id = q.id /\ Response(q, ok, some, t).key = q.key
  BY <1>1 DEF Response, Responses, Queries
<1>4. DnsTypeOK'
  BY <1>1, <1>2, <1>3 DEF DnsTypeOK
<1>5. IdsTell'
  BY <1>1, <1>2, <1>3 DEF IdsTell
<1> QED
  BY <1>1, <1>4, <1>5 DEF OwnAnswer

-----------------------------------------------------------------------------
LEMMA StepInv == IInv /\ [DnsNext]_dnsVars => IInv'
<1> SUFFICES ASSUME IInv, [DnsNext]_dnsVars PROVE IInv'
  OBVIOUS
<1>1. ASSUME NEW c \in Callers, CallerStep(c) PROVE IInv'
  <2>1. CASE \E k \in Keys : FromCache(c, k)
    BY <2>1, FromCacheInv
  <2>2. CASE \E k \in Keys : Ask(c, k)
    BY <2>2, AskInv
  <2>3. CASE Resend(c)
    BY <2>3, OfferInv DEF Resend
  <2>4. CASE Stray(c)
    BY <2>4, QuietInv DEF Stray
  <2>5. CASE \E m \in net : Receive(c, m)
    BY <2>5, ReceiveInv
  <2>6. CASE SocketFails(c) \/ TimesOut(c)
    <3>1. PICK to \in {"done", "idle"} :
            /\ pc[c] = "wait" /\ Leave(c, to) /\ to # "done"
            /\ UNCHANGED <<result, cache, net>>
      BY <2>6 DEF SocketFails, TimesOut
    <3>2. /\ IdsTell' /\ DnsTypeOK' /\ pc' = [pc EXCEPT ![c] = to]
          /\ \A d \in Callers : d # c => key'[d] = key[d]
      BY <3>1, LeaveInv DEF IInv, DnsTypeOK
    <3>3. OwnAnswer'
      BY <3>1, <3>2 DEF IInv, OwnAnswer, DnsTypeOK
    <3> QED
      BY <3>2, <3>3 DEF IInv
  <2> QED
    BY <1>1, <2>1, <2>2, <2>3, <2>4, <2>5, <2>6 DEF CallerStep
<1>2. ASSUME NEW m \in net, Lose(m) PROVE IInv'
  BY <1>2 DEF Lose, lookup, IInv, DnsTypeOK, IdsTell, OwnAnswer
<1>3. CASE UNCHANGED dnsVars
  BY <1>3, QuietInv DEF dnsVars
<1>4. ASSUME NEW c \in Callers, Takes(c) PROVE IInv'
  <2>1. NoResult \in Answers
    BY DEF NoResult, Answers
  <2>2. DnsTypeOK'
    BY <1>4, <2>1 DEF Takes, IInv, DnsTypeOK
  <2>3. IdsTell'
    BY <1>4 DEF Takes, IInv, IdsTell, DnsTypeOK
  <2>4. OwnAnswer'
    BY <1>4 DEF Takes, IInv, OwnAnswer, DnsTypeOK
  <2> QED
    BY <2>2, <2>3, <2>4 DEF IInv
<1> QED
  BY <1>1, <1>2, <1>3, <1>4, ServerInv, TickInv DEF DnsNext

\* DnsCache never holds more than its capacity, for any number of keys and
\* concurrent lookups: put makes room before it inserts.
THEOREM CacheStaysBounded == DnsSpec => []DnsTypeOK
<1>1. IInv => DnsTypeOK
  BY DEF IInv
<1> QED
  BY InitInv, StepInv, <1>1, PTL DEF DnsSpec

\* resolve returns the answer to the question asked, for any number of lookups
\* that reuse each other's ports, as long as the ids drawn are new.
THEOREM AnswersAreOwn == DnsSpec => []OwnAnswer
<1>1. IInv => OwnAnswer
  BY DEF IInv
<1> QED
  BY InitInv, StepInv, <1>1, PTL DEF DnsSpec
=============================================================================
