----------------------------- MODULE Candidates -----------------------------
(***************************************************************************)
(* endpoint/source.rs and the ordering part of endpoint/state.rs: which    *)
(* WireGuard endpoints a round tries, and in which order.                  *)
(*                                                                         *)
(* A raw item of ENDPOINT_CANDIDATES is abstracted to a record             *)
(* [host, given, port]: host = "" is a missing host, given says whether a  *)
(* port was written, port is the number written (it need not fit a u16).   *)
(* An endpoint is the normalised [host, port].                             *)
(***************************************************************************)
EXTENDS Sequences, SequencesExt, Naturals

NoEndpoint == [host |-> "", port |-> 0]

\* normalize_endpoint: blank, host-less and port-0 items are dropped, a
\* missing port becomes 2408.
Normalize(raw) ==
  IF raw.host = "" \/ (raw.given /\ raw.port \notin 1..65535) THEN NoEndpoint
  ELSE [host |-> raw.host, port |-> IF raw.given THEN raw.port ELSE 2408]

\* dedup_preserve_order: a filter that keeps the first occurrence.
DedupPreserveOrder(s) ==
  FoldLeft(LAMBDA seen, e : IF Contains(seen, e) THEN seen ELSE Append(seen, e), <<>>, s)

\* candidate_pool: the manual list when anything of it survives, else the
\* built-in one.
CandidatePool(manual, builtin) ==
  LET normal == DedupPreserveOrder(SelectSeq([i \in DOMAIN manual |-> Normalize(manual[i])],
                                             LAMBDA e : e # NoEndpoint))
  IN  IF normal = <<>> THEN DedupPreserveOrder(builtin) ELSE normal

\* plan_candidates: last_good to the front if it is still in the pool, then
\* a stable partition into the ready and the cooling ones.
BadPlanCandidates(pool, last, cooling) ==
  LET merged == DedupPreserveOrder(<<last>> \o pool)
  IN  SelectSeq(merged, LAMBDA e : e \notin cooling) \o SelectSeq(merged, LAMBDA e : e \in cooling)
PlanCandidates(pool, last, cooling) ==
  LET merged == DedupPreserveOrder((IF Contains(pool, last) THEN <<last>> ELSE <<>>) \o pool)
  IN  SelectSeq(merged, LAMBDA e : e \notin cooling) \o SelectSeq(merged, LAMBDA e : e \in cooling)
=============================================================================
