-------------------------------- MODULE Dns --------------------------------
(***************************************************************************)
(* resolve of dns.rs: concurrent lookups over a lossy tunnel, the resend of *)
(* the same query, the overall timeout, and the cache they share.  Times    *)
(* are counted down, ages counted up, so that no absolute clock is needed.  *)
(* What parse_dns_response returns is in DnsParse; here a response is its   *)
(* outcome: unusable, NODATA, or addresses with their smallest TTL.         *)
(***************************************************************************)
EXTENDS Naturals, FiniteSets

CONSTANTS Callers, Keys, Ports,
          Ttls,        \* the TTLs a record may carry
          Retry,       \* RETRY_INTERVAL
          Timeout,     \* the caller's timeout
          MinTtl, MaxTtl,
          CacheCap,    \* 512 in the code
          MaxPackets   \* bound: packets under way

ASSUME DnsAssumption ==
  /\ Retry \in Nat \ {0} /\ Timeout \in Nat \ {0}
  /\ MinTtl \in Nat \ {0} /\ MaxTtl \in Nat /\ MinTtl <= MaxTtl
  /\ CacheCap \in Nat \ {0}
  /\ MaxPackets \in Nat
  /\ Ttls \subseteq Nat /\ IsFiniteSet(Callers)

VARIABLES pc, key, port, id,
          left, retry,   \* until the timeout and until the resend
          result,        \* the answer returned: [key, some, ttl, age]
          cache,         \* key -> [key, some, ttl, age, left]
          net            \* queries and responses under way

lookup == <<key, port, id, left, retry>>
dnsVars == <<pc, key, port, id, left, retry, result, cache, net>>

NoKey == "none"
NoResult == [key |-> NoKey, some |-> FALSE, ttl |-> 0, age |-> 0]
\* Ages are told apart up to one past the oldest that may be used.
Older(a, cap) == IF a <= cap THEN a + 1 ELSE a

Ids == 0..(MaxPackets + Cardinality(Callers))
Query(c) == [kind |-> "query", key |-> key[c], port |-> port[c], id |-> id[c]]
Response(q, ok, some, ttl) ==
  [kind |-> "response", key |-> q.key, port |-> q.port, id |-> q.id,
   ok |-> ok, some |-> some, ttl |-> ttl, age |-> 0]
Answer(m) == [key |-> m.key, some |-> m.some, ttl |-> m.ttl, age |-> m.age]
Waiting == {c \in Callers : pc[c] = "wait"}

-----------------------------------------------------------------------------
\* DnsCache::put: the TTL, 5 s for NODATA, clamped.
Lifetime(some, ttl) ==
  IF ~some \/ ttl < MinTtl THEN MinTtl ELSE IF ttl > MaxTtl THEN MaxTtl ELSE ttl

Live(ch) == {k \in DOMAIN ch : ch[k].left > 0}

Room(ch) ==
  IF Cardinality(DOMAIN ch) < CacheCap THEN ch
  ELSE IF Cardinality(Live(ch)) < CacheCap THEN [k \in Live(ch) |-> ch[k]]
  ELSE [k \in {} |-> ch[k]]

Put(ch, k, e) ==
  LET r == Room(ch) IN [x \in DOMAIN r \cup {k} |-> IF x = k THEN e ELSE r[x]]

\* DnsCache::get: an entry counts while its time is not over.
BadHit(k) == k \in DOMAIN cache
Hit(k) == k \in DOMAIN cache /\ cache[k].left > 0

-----------------------------------------------------------------------------
DnsInit ==
  /\ pc = [c \in Callers |-> "idle"]
  /\ key = [c \in Callers |-> NoKey]
  /\ port = [c \in Callers |-> 0] /\ id = [c \in Callers |-> 0]
  /\ left = [c \in Callers |-> 0] /\ retry = [c \in Callers |-> 0]
  /\ result = [c \in Callers |-> NoResult]
  /\ cache = [k \in {} |-> NoResult]
  /\ net = {}

\* The network takes a packet or loses it.
Offer(m) == net' = net \/ (Cardinality(net) < MaxPackets /\ net' = net \cup {m})

FromCache(c, k) ==
  /\ pc[c] = "idle" /\ Hit(k)
  /\ pc' = [pc EXCEPT ![c] = "done"]
  /\ result' = [result EXCEPT ![c] = Answer(cache[k])]
  /\ key' = [key EXCEPT ![c] = k]
  /\ UNCHANGED <<port, id, left, retry, cache, net>>

\* A newly drawn 16-bit id is taken to differ from those under way; which of
\* the others it is makes no difference, so the smallest is taken.
FreeIds == Ids \ ({m.id : m \in net} \cup {id[d] : d \in Waiting})
NewId(i) == i \in FreeIds /\ \A j \in FreeIds : i <= j

\* A miss: a socket on a port no open socket has, and the query.
Ask(c, k) ==
  /\ pc[c] = "idle" /\ ~Hit(k)
  /\ pc' = [pc EXCEPT ![c] = "wait"] /\ key' = [key EXCEPT ![c] = k]
  /\ \E p \in Ports \ {port[d] : d \in Waiting} : port' = [port EXCEPT ![c] = p]
  /\ \E i \in Ids : NewId(i) /\ id' = [id EXCEPT ![c] = i]
  /\ left' = [left EXCEPT ![c] = Timeout] /\ retry' = [retry EXCEPT ![c] = Retry]
  /\ Offer(Query(c)')
  /\ UNCHANGED <<result, cache>>

\* A new interval for recv_from, within the same overall timeout.
Rearm(c) == retry' = [retry EXCEPT ![c] = Retry] /\ UNCHANGED left

\* recv_from timed out: the same query again.
Resend(c) ==
  /\ pc[c] = "wait" /\ retry[c] = 0 /\ left[c] > 0
  /\ Rearm(c) /\ Offer(Query(c))
  /\ UNCHANGED <<pc, key, port, id, result, cache>>

\* A packet from another source is skipped; the next recv_from gets a new
\* interval, so it postpones the resend.
Stray(c) ==
  /\ pc[c] = "wait"
  /\ Rearm(c)
  /\ UNCHANGED <<pc, key, port, id, result, cache, net>>

\* The lookup is over: its socket is closed, its local state is gone.  An error
\* goes to the caller at once; an answer stays until the caller takes it.
Leave(c, to) ==
  /\ pc' = [pc EXCEPT ![c] = to]
  /\ key' = [key EXCEPT ![c] = IF to = "done" THEN @ ELSE NoKey]
  /\ port' = [port EXCEPT ![c] = 0] /\ id' = [id EXCEPT ![c] = 0]
  /\ left' = [left EXCEPT ![c] = 0] /\ retry' = [retry EXCEPT ![c] = 0]

\* parse_dns_response: another id, a bad header or a broken record is an error.
BadUsable(c, m) == m.ok
Usable(c, m) == m.id = id[c] /\ m.ok

Receive(c, m) ==
  /\ pc[c] = "wait" /\ m.kind = "response" /\ m.port = port[c]
  /\ net' = net \ {m}
  /\ \/ /\ Usable(c, m) /\ Leave(c, "done")
        /\ result' = [result EXCEPT ![c] = Answer(m)]
        /\ cache' = Put(cache, key[c], [key |-> m.key, some |-> m.some, ttl |-> m.ttl,
                                        age |-> m.age, left |-> Lifetime(m.some, m.ttl)])
     \/ ~Usable(c, m) /\ Leave(c, "idle") /\ UNCHANGED <<result, cache>>

\* The bind, a send or a receive fails (the stack is stopping).
SocketFails(c) ==
  /\ pc[c] = "wait" /\ Leave(c, "idle")
  /\ UNCHANGED <<result, cache, net>>

TimesOut(c) ==
  /\ pc[c] = "wait" /\ left[c] = 0 /\ Leave(c, "idle")
  /\ UNCHANGED <<result, cache, net>>

\* The caller takes what resolve returned.
Takes(c) ==
  /\ pc[c] = "done"
  /\ pc' = [pc EXCEPT ![c] = "idle"] /\ key' = [key EXCEPT ![c] = NoKey]
  /\ result' = [result EXCEPT ![c] = NoResult]
  /\ UNCHANGED <<port, id, left, retry, cache, net>>

\* The server, and the network that loses or repeats packets.
Server(q) ==
  /\ q.kind = "query"
  /\ \E r \in {Response(q, FALSE, FALSE, 0), Response(q, TRUE, FALSE, 0)}
                 \cup {Response(q, TRUE, TRUE, t) : t \in Ttls} :
       net' \in {(net \ {q}) \cup {r}, net \cup {r}}
  /\ Cardinality(net') <= MaxPackets
  /\ UNCHANGED <<pc, lookup, result, cache>>

Lose(m) == net' = net \ {m} /\ UNCHANGED <<pc, lookup, result, cache>>

Aged(e) == [key |-> e.key, some |-> e.some, ttl |-> e.ttl,
            age |-> Older(e.age, Timeout + MaxTtl),
            left |-> IF e.left > 0 THEN e.left - 1 ELSE 0]

\* Time passes when no timer is due.
Tick ==
  /\ \A c \in Waiting : left[c] > 0 /\ retry[c] > 0
  /\ left' = [c \in Callers |-> IF c \in Waiting THEN left[c] - 1 ELSE left[c]]
  /\ retry' = [c \in Callers |-> IF c \in Waiting THEN retry[c] - 1 ELSE retry[c]]
  /\ cache' = [k \in DOMAIN cache |-> Aged(cache[k])]
  /\ net' = {IF m.kind = "response" /\ m.ok THEN [m EXCEPT !.age = Older(@, Timeout)] ELSE m
             : m \in net}
  /\ UNCHANGED <<pc, key, port, id, result>>

CallerStep(c) ==
  \/ \E k \in Keys : FromCache(c, k) \/ Ask(c, k)
  \/ Resend(c) \/ Stray(c)
  \/ \E m \in net : Receive(c, m)
  \/ SocketFails(c) \/ TimesOut(c)

\* What a lookup returned is read by nobody else: its caller takes it at once.
DnsNext ==
  \/ \E c \in Callers : Takes(c)
  \/ /\ \A c \in Callers : pc[c] \in {"idle", "wait"}
     /\ \/ \E c \in Callers : CallerStep(c)
        \/ \E m \in net : Server(m) \/ Lose(m)
        \/ Tick

DnsSpec == DnsInit /\ [][DnsNext]_dnsVars

-----------------------------------------------------------------------------
Answers == [key : Keys \cup {NoKey}, some : BOOLEAN, ttl : Nat, age : Nat]
Entries == [key : Keys, some : BOOLEAN, ttl : Nat, age : Nat, left : Nat]
Queries == [kind : {"query"}, key : Keys, port : Ports \cup {0}, id : Nat]
Responses == [kind : {"response"}, key : Keys, port : Ports \cup {0}, id : Nat,
              ok : BOOLEAN, some : BOOLEAN, ttl : Nat, age : Nat]

\* Types, with the bound put keeps: at most 512 entries, however many keys.
DnsTypeOK ==
  /\ pc \in [Callers -> {"idle", "wait", "done"}]
  /\ key \in [Callers -> Keys \cup {NoKey}]
  /\ port \in [Callers -> Ports \cup {0}] /\ id \in [Callers -> Nat]
  /\ result \in [Callers -> Answers]
  /\ cache \in [DOMAIN cache -> Entries]
  /\ net \subseteq Queries \cup Responses
  /\ DOMAIN cache \subseteq Keys
  /\ IsFiniteSet(DOMAIN cache) /\ Cardinality(DOMAIN cache) <= CacheCap

\* resolve returns the answer to the question asked and to no other: not one
\* that an earlier lookup asked for on the same port, not another key's entry.
OwnAnswer ==
  /\ \A c \in Callers : pc[c] = "done" => result[c].key = key[c]
  /\ \A k \in DOMAIN cache : cache[k].key = k

\* An answer is never served past its TTL (5 s at least, 300 s at most) plus the
\* one lookup that fetched it, although the cache measures from arrival.
NeverStale ==
  \A c \in Callers : LET r == result[c] IN
    pc[c] = "done" =>
      \/ r.age <= Timeout + MinTtl
      \/ r.some /\ r.age <= Timeout + r.ttl /\ r.age <= Timeout + MaxTtl
=============================================================================
