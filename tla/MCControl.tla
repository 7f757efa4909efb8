----------------------------- MODULE MCControl -----------------------------
(* The control plane beside the recovery loop: the two registrations, the  *)
(* candidate pool, the endpoint store and the health window.  They share   *)
(* no state: one of them is chosen and moves, the others stay as they      *)
(* started, so that the state space is the sum of theirs.                  *)
EXTENDS Registration, Teams, EndpointStore, HealthWindow, TLC

CONSTANTS e1, e2, e3, Hosts, MaxItems

VARIABLES moves,    \* the component that moves
          manual    \* the items of ENDPOINT_CANDIDATES so far

MCEndpoints == {e1, e2, e3}

Raws == [host : Hosts \cup {""}, given : {TRUE}, port : {0, 1, 2408, 65535, 65536}]
        \cup [host : Hosts, given : {FALSE}, port : {0}]
Builtin == <<[host |-> "builtin", port |-> 2408], [host |-> "builtin", port |-> 500]>>

AddItem == Len(manual) < MaxItems /\ \E r \in Raws : manual' = Append(manual, r)
Clear == manual # <<>> /\ manual' = <<>>

Init ==
  /\ moves \in {"registration", "teams", "pool", "store", "window"}
  /\ RInit /\ TInit /\ StoreInit /\ WInit /\ manual = <<>>

Next ==
  /\ UNCHANGED moves
  /\ \/ moves = "registration" /\ RNext /\ UNCHANGED <<teamsVars, esvars, wvars, manual>>
     \/ moves = "teams" /\ TNext /\ UNCHANGED <<regVars, esvars, wvars, manual>>
     \/ moves = "store" /\ StoreNext /\ UNCHANGED <<regVars, teamsVars, wvars, manual>>
     \/ moves = "window" /\ WNext /\ UNCHANGED <<regVars, teamsVars, esvars, manual>>
     \/ moves = "pool" /\ (AddItem \/ Clear) /\ UNCHANGED <<regVars, teamsVars, esvars, wvars>>

Spec == Init /\ [][Next]_<<moves, regVars, teamsVars, esvars, wvars, manual>>

\* From the configured list to the order of the trials.  The list decides alone
\* as soon as one of its items is usable; a list of which nothing is usable
\* falls back to the built-in pool (source.rs:75-82).  Whatever the store
\* remembers, an endpoint that left the pool included, every endpoint is tried
\* exactly once, however it was spelled, and no other: ready ones before cooling
\* ones, last_good first among its kind, otherwise in the order of the list
\* (source.rs:84-99).
PlanIsSound ==
  LET valid == SelectSeq([i \in DOMAIN manual |-> Normalize(manual[i])], LAMBDA e : e # NoEndpoint)
      wanted == IF valid = <<>> THEN Builtin ELSE valid
      First(e) == CHOOSE i \in DOMAIN wanted :
                    wanted[i] = e /\ \A j \in DOMAIN wanted : wanted[j] = e => i <= j
      pool == CandidatePool(manual, Builtin)
  IN  \A last \in ToSet(wanted) \cup {None, e3}, cooling \in SUBSET ToSet(wanted) :
        LET p == PlanCandidates(pool, last, cooling)
            Same(i, j) == (p[i] \in cooling) = (p[j] \in cooling)
        IN  /\ Len(p) = Cardinality(ToSet(wanted)) /\ ToSet(p) = ToSet(wanted)
            /\ \A e \in ToSet(p) : e.port \in 1..65535 /\ e.host # ""
            /\ \A i, j \in DOMAIN p : i < j =>
                 /\ p[i] \in cooling => p[j] \in cooling
                 /\ Same(i, j) => p[i] = last \/ (p[j] # last /\ First(p[i]) < First(p[j]))
=============================================================================
