---------------------------- MODULE RouteTables ----------------------------
(***************************************************************************)
(* The tables behind the routes as their readers and writers see them      *)
(* (src/src/db/routes.ts): a route's targets in the order loadRoutes and   *)
(* resolveTargets give them, and what replaceTargets makes of a list.      *)
(*                                                                         *)
(* Ids are numbers, for the order they are compared in.                    *)
(***************************************************************************)
EXTENDS Integers, SequencesExt, Subsequences

CONSTANTS
  Providers,   \* ids of the providers there may be
  Upstreams,   \* upstream model ids
  Priorities   \* priorities of providers and targets

ASSUME TablesAssumption ==
  /\ Providers \subseteq Nat \ {0} /\ Upstreams \subseteq Nat \ {0}
  /\ Priorities \subseteq Int /\ 0 \in Priorities

\* A providers row; one without is deleted.
ProviderRow == [there : BOOLEAN, enabled : BOOLEAN, priority : Priorities]

\* Nothing reads the columns of a deleted row.
Deleted == [there |-> FALSE, enabled |-> FALSE, priority |-> 0]

Enabled(rows, p) == rows[p].there /\ rows[p].enabled

Target(p, upstream, priority, enabled) ==
  [provider |-> p, upstream |-> upstream, priority |-> priority, enabled |-> enabled]

Strategies == {"inherit", "priority", "weighted"}

\* The provider and then the upstream id settle what priorities leave open.
KeyBefore(a, b) ==
  a.provider < b.provider \/ (a.provider = b.provider /\ a.upstream < b.upstream)

\* loadRoutes: ORDER BY priority DESC, provider_id ASC, upstream_model ASC.
loadTargets(targets) ==
  Ranked(targets, [b \in targets |-> {a \in targets :
    a.priority > b.priority \/ (a.priority = b.priority /\ KeyBefore(a, b))}])

\* resolveTargets: the enabled targets of enabled providers, the provider's
\* priority coming after the target's.
Serving(rows, targets) == {t \in targets : t.enabled /\ Enabled(rows, t.provider)}

resolveTargets(rows, targets) ==
  LET serving == Serving(rows, targets)
  IN  Ranked(serving, [b \in serving |-> {a \in serving :
        \/ a.priority > b.priority
        \/ a.priority = b.priority /\ rows[a.provider].priority > rows[b.provider].priority
        \/ /\ a.priority = b.priority /\ rows[a.provider].priority = rows[b.provider].priority
           /\ KeyBefore(a, b)}])

SameKey(a, b) == a.provider = b.provider /\ a.upstream = b.upstream

\* A route_targets row, and what one route can have of them: its primary key is
\* the route, the provider and the upstream id.
TargetRow == [provider : Providers, upstream : Upstreams, priority : Priorities, enabled : BOOLEAN]
FitsKeys(targets) ==
  /\ IsFiniteSet(targets) /\ targets \subseteq TargetRow
  /\ \A a, b \in targets : SameKey(a, b) => a = b

\* Seeded fault: the targets that were there stay.
replaceTargetsKept(targets, list) == targets \cup ToSet(list)

\* replaceTargets: everything goes, and of two entries for one key the later
\* one stays.
replaceTargets(targets, list) ==
  {list[i] : i \in {j \in DOMAIN list : \A k \in j + 1 .. Len(list) : ~SameKey(list[j], list[k])}}

\* ON DELETE CASCADE
WithoutProvider(targets, p) == {t \in targets : t.provider # p}

=============================================================================
