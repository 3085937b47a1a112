------------------------------ MODULE Routing ------------------------------
(***************************************************************************)
(* Which targets can serve a public model and in which order a request     *)
(* tries them: resolveTargets in src/src/db/routes.ts, orderCandidates in  *)
(* src/src/gateway/router.ts and preferPinned in                           *)
(* src/src/gateway/sessions.ts.                                            *)
(*                                                                         *)
(* Route is one public model's target list in the order of resolveTargets' *)
(* ORDER BY.  A target is identified by its position in Route, which       *)
(* stands for the table's key (public_model, provider_id, upstream_model): *)
(* one provider may own several targets.                                   *)
(***************************************************************************)
EXTENDS Integers, Sequences, FiniteSets

CONSTANTS
  Providers,   \* ids of the provider rows
  Route,       \* the targets of the public model under study
  Strategy     \* the strategy in force: the route's own, else default_strategy

MAX_RETRIES == 10

Target == [provider : Providers, priority : Int, retries : Nat]

ASSUME RouteAssumption ==
  /\ Route \in Seq(Target)
  /\ Strategy \in {"priority", "weighted"}

Targets == DOMAIN Route

\* attemptWithRetries clamps the row's max_retries before it loops.
Extra(t) == IF Route[t].retries <= MAX_RETRIES THEN Route[t].retries ELSE MAX_RETRIES

\* The join of resolveTargets: rows whose provider exists and is enabled.
ResolveTargets(enabled) == {t \in Targets : Route[t].provider \in enabled}

\* Higher priority first; equal priorities keep the order of resolveTargets.
Precedes(a, b) ==
  \/ Route[a].priority > Route[b].priority
  \/ Route[a].priority = Route[b].priority /\ a < b

\* orderCandidates, as the set of orders it may return.  `weighted' races
\* exponential clocks of positive rate, so every permutation can come out.
OrderCandidates(usable) ==
  {o \in [1 .. Cardinality(usable) -> usable] :
     \A i, j \in DOMAIN o :
       i < j => o[i] # o[j] /\ (Strategy = "priority" => Precedes(o[i], o[j]))}

ProvidersOf(candidates) == {Route[candidates[i]].provider : i \in DOMAIN candidates}

\* Seeded fault: the pinned target goes first whether it is a candidate or not.
PreferPinnedUnchecked(ordered, pinned) ==
  IF \E t \in Targets : Route[t].provider = pinned
  THEN <<CHOOSE t \in Targets : Route[t].provider = pinned>> \o ordered
  ELSE ordered

\* preferPinned: the first candidate of the pinned provider moves to the
\* front and the rest keep their order; no such candidate, no change.
PreferPinned(ordered, pinned) ==
  IF pinned \notin ProvidersOf(ordered) THEN ordered
  ELSE LET k == CHOOSE i \in DOMAIN ordered :
                  /\ Route[ordered[i]].provider = pinned
                  /\ \A j \in 1 .. i - 1 : Route[ordered[j]].provider # pinned
       IN  [i \in DOMAIN ordered |->
              IF i = 1 THEN ordered[k]
              ELSE IF i <= k THEN ordered[i - 1] ELSE ordered[i]]

=============================================================================
