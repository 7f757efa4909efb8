------------------------------- MODULE IpDial -------------------------------
(* Reaching a target through the IP stack (outbound/ip.rs, wireguard.rs).  TCP  *)
(* to a domain: the A and the AAAA family resolve and connect independently; a *)
(* family dials its addresses in order, at most two at a time, every one but   *)
(* the first after a delay; the first stream wins and everything else is       *)
(* dropped.  TCP to an address: one dial.  UDP to a domain: both families are  *)
(* awaited and the first address is used.  Time is counted in units of         *)
(* HAPPY_EYEBALLS_DELAY or coarser; a tick passes only when nothing is due.    *)
EXTENDS Naturals, Sequences, FiniteSets

CONSTANTS DnsTimeout, ConnectTimeout,   \* DNS_TIMEOUT, CONNECT_TIMEOUT
          Grace, Delay,                 \* the wait of the A family; between dials
          DialTime,                     \* bound: a good address answers within
          MaxA, MaxAaaa                 \* bound: addresses of each family

ASSUME DialAssumption ==
  /\ {DnsTimeout, ConnectTimeout, Grace, Delay, DialTime, MaxA, MaxAaaa} \subseteq Nat
  /\ DialTime < ConnectTimeout

Families == {"A", "AAAA"}
\* What dialling an address comes to: a stream, an error, or silence.
Addresses == {"good", "refused", "silent"}

VARIABLES wanted,        \* the call: "domain" or "ip" (TCP), "udp"
          now, dialResult,   \* result: none, connected, failed, timeout, unbound
          chosen,        \* the family of the address in use
          fam, since,    \* per family: dns, grace, dial, resolved (UDP) or err; since when
          addrs,         \* per family: its addresses
          att, at        \* per family and address: todo, delay, dial, failed; since when

dialVars == <<wanted, now, dialResult, chosen, fam, since, addrs, att, at>>

Only(a, v) == [f \in Families |-> IF f = "A" THEN a ELSE v]

\* An address is dialled at once: it stands as the one address of family A.
DInit ==
  /\ now = 0 /\ dialResult = "none" /\ chosen = "none"
  /\ since = Only(0, 0)
  /\ \/ /\ wanted \in {"domain", "udp"} /\ fam = Only("dns", "dns")
        /\ addrs = Only(<<>>, <<>>) /\ att = Only(<<>>, <<>>) /\ at = Only(<<>>, <<>>)
     \/ /\ wanted = "ip" /\ fam = Only("dial", "err")
        /\ \E a \in Addresses : addrs = Only(<<a>>, <<>>)
        /\ att = Only(<<"dial">>, <<>>) /\ at = Only(<<0>>, <<>>)

Budget == IF wanted = "ip" THEN ConnectTimeout ELSE DnsTimeout + ConnectTimeout

Enters(f, s) == fam' = [fam EXCEPT ![f] = s] /\ since' = [since EXCEPT ![f] = now]

\* The future of one family: resolve, then (A with addresses) the short wait.
DnsAnswers(f) ==
  /\ dialResult = "none" /\ fam[f] = "dns"
  /\ \E n \in 0..(IF f = "A" THEN MaxA ELSE MaxAaaa) : \E list \in [1..n -> Addresses] :
       /\ addrs' = [addrs EXCEPT ![f] = list]
       /\ att' = [att EXCEPT ![f] = [i \in 1..n |-> "todo"]]
       /\ at' = [at EXCEPT ![f] = [i \in 1..n |-> now]]
       /\ Enters(f, IF wanted = "udp" THEN "resolved"
                    ELSE IF f = "A" /\ n > 0 THEN "grace" ELSE "dial")
  /\ UNCHANGED <<wanted, now, dialResult, chosen>>

\* An error or the timeout of the query.
DnsFails(f) ==
  /\ dialResult = "none" /\ fam[f] = "dns"
  /\ Enters(f, "err")
  /\ UNCHANGED <<wanted, now, dialResult, chosen, addrs, att, at>>

GraceDone(f) == now >= since[f] + Grace

GraceOver(f) ==
  /\ dialResult = "none" /\ fam[f] = "grace" /\ GraceDone(f)
  /\ Enters(f, "dial")
  /\ UNCHANGED <<wanted, now, dialResult, chosen, addrs, att, at>>

Flying(f) == {i \in DOMAIN att[f] : att[f][i] \in {"delay", "dial"}}
Becomes(f, i, s) == att' = [att EXCEPT ![f][i] = s] /\ at' = [at EXCEPT ![f][i] = now]

\* buffer_unordered(2): the next address gets a free slot.
Slots == 2

Starts(f, i) ==
  /\ dialResult = "none" /\ fam[f] = "dial"
  /\ i \in DOMAIN att[f] /\ att[f][i] = "todo" /\ \A j \in 1..(i - 1) : att[f][j] # "todo"
  /\ Cardinality(Flying(f)) < Slots
  /\ Becomes(f, i, IF i = 1 THEN "dial" ELSE "delay")
  /\ UNCHANGED <<wanted, now, dialResult, chosen, fam, since, addrs>>

DelayOver(f, i) ==
  /\ dialResult = "none" /\ fam[f] = "dial" /\ att[f][i] = "delay" /\ now >= at[f][i] + Delay
  /\ Becomes(f, i, "dial")
  /\ UNCHANGED <<wanted, now, dialResult, chosen, fam, since, addrs>>

Connects(f, i) ==
  /\ dialResult = "none" /\ att[f][i] = "dial" /\ addrs[f][i] = "good"
  /\ dialResult' = "connected" /\ chosen' = f
  /\ UNCHANGED <<wanted, now, fam, since, addrs, att, at>>

\* An error, or CONNECT_TIMEOUT around each address of a domain.
DialFails(f, i) ==
  /\ dialResult = "none" /\ att[f][i] = "dial"
  /\ \/ addrs[f][i] = "refused"
     \/ addrs[f][i] = "silent" /\ wanted = "domain" /\ now >= at[f][i] + ConnectTimeout
  /\ Becomes(f, i, "failed")
  /\ UNCHANGED <<wanted, now, dialResult, chosen, fam, since, addrs>>

\* connect_first runs out of attempts.
Exhausted(f) == \A i \in DOMAIN att[f] : att[f][i] = "failed"
FamilyFails(f) ==
  /\ dialResult = "none" /\ fam[f] = "dial" /\ Exhausted(f)
  /\ Enters(f, "err")
  /\ UNCHANGED <<wanted, now, dialResult, chosen, addrs, att, at>>

\* Both families are done without a stream.
BadAllFail ==
  /\ dialResult = "none" /\ \E f \in Families : fam[f] = "err"
  /\ dialResult' = "failed"
  /\ UNCHANGED <<wanted, now, chosen, fam, since, addrs, att, at>>
AllFail ==
  /\ dialResult = "none" /\ wanted # "udp" /\ \A f \in Families : fam[f] = "err"
  /\ dialResult' = "failed"
  /\ UNCHANGED <<wanted, now, chosen, fam, since, addrs, att, at>>

BudgetSpent ==
  /\ dialResult = "none" /\ wanted # "udp" /\ now >= Budget
  /\ dialResult' = "timeout"
  /\ UNCHANGED <<wanted, now, chosen, fam, since, addrs, att, at>>

\* resolve_targets: the A addresses, then the AAAA addresses.
Targets4Then6 == [i \in DOMAIN addrs["A"] |-> "A"] \o [i \in DOMAIN addrs["AAAA"] |-> "AAAA"]
Resolved == wanted = "udp" /\ \A f \in Families : fam[f] \in {"resolved", "err"}

\* WgOutbound::connect_udp: the first target, with a socket of its family.
ConnectUdp ==
  /\ dialResult = "none" /\ Resolved
  /\ IF Targets4Then6 = <<>> THEN dialResult' = "failed" /\ UNCHANGED chosen
     ELSE dialResult' \in {"connected", "unbound"} /\ chosen' = Head(Targets4Then6)
  /\ UNCHANGED <<wanted, now, fam, since, addrs, att, at>>

\* Something is due now: time does not pass over it.
Due(f) ==
  \/ fam[f] = "dns" /\ now >= DnsTimeout
  \/ fam[f] = "grace" /\ GraceDone(f)
  \/ fam[f] = "dial" /\
       \/ Exhausted(f)
       \/ Cardinality(Flying(f)) < Slots /\ \E i \in DOMAIN att[f] : att[f][i] = "todo"
       \/ \E i \in DOMAIN att[f] :
            \/ att[f][i] = "delay" /\ now >= at[f][i] + Delay
            \/ att[f][i] = "dial" /\ addrs[f][i] = "silent" /\ wanted = "domain" /\ now >= at[f][i] + ConnectTimeout
            \/ att[f][i] = "dial" /\ addrs[f][i] = "good" /\ now >= at[f][i] + DialTime

DialTick ==
  /\ dialResult = "none" /\ now < Budget /\ ~Resolved
  /\ ~(\A f \in Families : fam[f] = "err")
  /\ \A f \in Families : ~Due(f)
  /\ now' = now + 1
  /\ UNCHANGED <<wanted, dialResult, chosen, fam, since, addrs, att, at>>

DNext ==
  \/ \E f \in Families :
       \/ DnsAnswers(f) \/ DnsFails(f) \/ GraceOver(f) \/ FamilyFails(f)
       \/ \E i \in DOMAIN att[f] : Starts(f, i) \/ DelayOver(f, i) \/ Connects(f, i) \/ DialFails(f, i)
  \/ AllFail \/ ConnectUdp \/ BudgetSpent \/ DialTick

DSpec == DInit /\ [][DNext]_dialVars

-----------------------------------------------------------------------------

\* One family's silence (DNS or addresses) does not delay the other: a good
\* address among the first two of a family is connected within the wait, the
\* delay and its own dial time of that family's answer (ip.rs:35, "a stalled
\* DNS query on one side does not block the other").
Reachable(f) == {i \in DOMAIN addrs[f] : i <= 2 /\ addrs[f][i] = "good"}
ConnectsBy(f, i) ==
  since[f] + IF fam[f] = "grace" THEN Grace ELSE (i - 1) * Delay + DialTime
Independent ==
  \A f \in Families : dialResult = "none" /\ wanted # "udp" /\ fam[f] \in {"grace", "dial"}
    => \A i \in Reachable(f) : now <= ConnectsBy(f, i)

\* The same, and: a failure is reported only when both families are done and
\* every address they gave has been tried (ip.rs:70-80); UDP uses an IPv6
\* address only when there is no IPv4 one, and fails only without any
\* (ip.rs:90, "A first, AAAA as the fallback").
DialSound ==
  /\ Independent
  /\ dialResult = "failed" => \A f \in Families :
       /\ fam[f] \in {"err", "resolved"}
       /\ \A i \in DOMAIN addrs[f] : att[f][i] = "failed"
  /\ wanted = "udp" /\ chosen = "AAAA" => addrs["A"] = <<>>
  /\ dialResult = "connected" => addrs[chosen] # <<>>
=============================================================================
