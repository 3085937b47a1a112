------------------------------ MODULE Listing ------------------------------
(***************************************************************************)
(* What the gateway says it can serve: the model listings of both          *)
(* protocols and a single model's card (modelCatalogue, modelCard,         *)
(* catalogue and modelMetadata), and the health probe                      *)
(* (src/src/http/healthz.ts), each reading one statement at a time while   *)
(* an operator and the discovery write underneath.                         *)
(*                                                                         *)
(* Beside a reading, witness records what was so at some moment of it, and *)
(* what was so throughout.                                                 *)
(***************************************************************************)
EXTENDS RouteTables

CONSTANTS
  PublicModels,       \* public models
  Fittings,     \* target sets an operator gives a route
  Reported,     \* what a discovery may find out: provider -> upstream -> Details
  MaxWrites     \* bound: writes of the operator and the discovery

\* What a provider_models row tells of a model's limits and capabilities, from
\* no row at all to both.
Details == {"none", "bare", "limits", "capabilities", "both"}

ASSUME ListingAssumption ==
  /\ PublicModels \subseteq Nat /\ IsFiniteSet(PublicModels)
  /\ \A list \in Fittings : FitsKeys(list)
  /\ Reported \subseteq [Providers -> [Upstreams -> Details]]
  /\ MaxWrites \in Nat

VARIABLES
  providers,  \* the providers table
  routes,     \* public model -> its row and targets
  details,    \* the provider_models table
  reading,    \* the request that is being answered
  witness,    \* what held at some moment of it, and what held throughout
  writes      \* writes so far

tables == <<providers, routes, details>>
listingVars == <<providers, routes, details, reading, witness, writes>>

NoRoute == [there |-> FALSE, enabled |-> FALSE, targets |-> {}]

On(route) == route.there /\ route.enabled

\* Every target that serves now, with what its provider tells of the model.
Services ==
  UNION {{[model |-> m, target |-> t, tells |-> details[t.provider][t.upstream]] :
            t \in Serving(providers, routes[m].targets)} : m \in {k \in PublicModels : On(routes[k])}}

Watched ==
  [on |-> {m \in PublicModels : On(routes[m])},
   fed |-> {m \in PublicModels : Serving(providers, routes[m].targets) # {}},
   steady |-> Services, up |-> Services # {}, down |-> Services = {}]

\* The witness of a reading that goes on through a write.
Widened(before, now) ==
  [on |-> before.on \cup now.on, fed |-> before.fed \cup now.fed,
   steady |-> before.steady \cap now.steady,
   up |-> before.up \/ now.up, down |-> before.down \/ now.down]

\* tasks are what is left to do, at is the statement the first of them is at.
Reading(kind, tasks) ==
  [kind |-> kind, tasks |-> tasks, at |-> "row", rows |-> <<>>, matches |-> <<>>,
   listed |-> {}, told |-> [m \in PublicModels |-> "unread"], status |-> "none"]

Unread == Reading("none", <<>>)

ListingInit ==
  /\ providers \in [Providers -> {r \in ProviderRow : r.there /\ r.priority = 0}]
  /\ routes \in [PublicModels -> {NoRoute} \cup
                   {[there |-> TRUE, enabled |-> TRUE, targets |-> list] : list \in Fittings}]
  /\ details \in Reported
  /\ reading = Unread /\ witness = Watched /\ writes = 0

----------------------------------------------------------------------------
(* The statements of a reading *)

Catalogue == [task |-> "catalogue", model |-> 0]
List(m) == [task |-> "list", model |-> m]
Describe(m) == [task |-> "tell", model |-> m]

\* models, anthropicModels and anthropicModel read the catalogue and then every
\* listed model's metadata; modelCard reads its model's metadata first.
Ask ==
  /\ reading = Unread
  /\ \/ reading' = Reading("models", << Catalogue >>)
     \/ \E m \in PublicModels : reading' = Reading("card", << Describe(m), Catalogue >>)
     \/ reading' = Reading("health", << [task |-> "health", model |-> 0] >>)
  /\ witness' = Watched
  /\ UNCHANGED <<tables, writes>>

At(task, at) ==
  reading.tasks # <<>> /\ Head(reading.tasks).task \in task /\ reading.at = at

Model == Head(reading.tasks).model

\* The reading after its first task.
Over == [reading EXCEPT !.tasks = Tail(@), !.at = "row", !.rows = <<>>, !.matches = <<>>]

\* catalogue: listRoutes, whose disabled rows are passed over.  The names of
\* the providers are read here too; nothing depends on them.
ReadRoutes ==
  /\ At({"catalogue"}, "row")
  /\ LET rows == {m \in PublicModels : On(routes[m])}
         on == Ranked(rows, [m \in rows |-> {k \in rows : k < m}])
     IN  reading' = [Over EXCEPT !.tasks = [i \in DOMAIN on |-> List(on[i])] \o @]
  /\ UNCHANGED <<tables, witness, writes>>

\* Seeded fault: a route that is on is listed without resolving it.
ResolvedUnchecked(found) ==
  reading' = [Over EXCEPT !.listed = @ \cup {Model},
                          !.tasks = IF reading.kind = "models" THEN Append(@, Describe(Model)) ELSE @]

\* What catalogue and modelMetadata do with a model's targets.
Resolved(found) ==
  CASE found = <<>> /\ Head(reading.tasks).task = "list" -> reading' = Over
    [] found = <<>> /\ Head(reading.tasks).task = "tell" ->
         reading' = [Over EXCEPT !.told[Model] = "none"]
    [] found # <<>> /\ Head(reading.tasks).task = "list" ->
         reading' = [Over EXCEPT !.listed = @ \cup {Model},
                                 !.tasks = IF reading.kind = "models" THEN Append(@, Describe(Model)) ELSE @]
    [] found # <<>> /\ Head(reading.tasks).task = "tell" ->
         reading' = [reading EXCEPT !.at = "details", !.rows = found]

\* resolveTargets: the route's row, the targets joined with their providers,
\* and the providers themselves.
ReadRow ==
  /\ At({"list", "tell"}, "row")
  /\ IF On(routes[Model]) THEN reading' = [reading EXCEPT !.at = "targets"] ELSE Resolved(<<>>)
  /\ UNCHANGED <<tables, witness, writes>>

ReadTargets ==
  /\ At({"list", "tell"}, "targets")
  /\ reading' = [reading EXCEPT !.at = "providers",
                                !.rows = resolveTargets(providers, routes[Model].targets)]
  /\ UNCHANGED <<tables, witness, writes>>

MatchProviders ==
  /\ At({"list", "tell"}, "providers")
  /\ LET there == {i \in DOMAIN reading.rows : providers[reading.rows[i].provider].there}
     IN  Resolved(Subsequence(reading.rows, there))
  /\ UNCHANGED <<tables, witness, writes>>

\* Seeded fault: the first target speaks for the model.
RichestFirst(matches) == IF matches = <<>> THEN "none" ELSE matches[1]

\* modelMetadata: both, or else capabilities, or else limits, or else the first.
Richest(matches) ==
  IF "both" \in ToSet(matches) THEN "both"
  ELSE IF "capabilities" \in ToSet(matches) THEN "capabilities"
  ELSE IF "limits" \in ToSet(matches) THEN "limits"
  ELSE IF matches # <<>> THEN "bare" ELSE "none"

\* listModelsForProvider, for the next target.
ReadDetails ==
  /\ At({"tell"}, "details")
  /\ LET t == Head(reading.rows)
         tells == details[t.provider][t.upstream]
         matches == IF tells = "none" THEN reading.matches ELSE Append(reading.matches, tells)
     IN  reading' = IF Len(reading.rows) = 1
                    THEN [Over EXCEPT !.told[Model] = Richest(matches)]
                    ELSE [reading EXCEPT !.rows = Tail(@), !.matches = matches]
  /\ UNCHANGED <<tables, witness, writes>>

\* Seeded fault: the rows of routes are counted.
countRouteRows == Cardinality({m \in PublicModels : On(routes[m])})

countServableRoutes ==
  Cardinality({m \in PublicModels : On(routes[m]) /\ Serving(providers, routes[m].targets) # {}})

\* health: with no enabled provider the count of routes does not matter.
HealthProviders ==
  /\ At({"health"}, "row")
  /\ reading' = [reading EXCEPT !.at = "targets",
                                !.status = IF \E p \in Providers : Enabled(providers, p)
                                           THEN "ok" ELSE "degraded"]
  /\ UNCHANGED <<tables, witness, writes>>

HealthRoutes ==
  /\ At({"health"}, "targets")
  /\ reading' = [Over EXCEPT !.status = IF countServableRoutes = 0 THEN "degraded" ELSE @]
  /\ UNCHANGED <<tables, witness, writes>>

\* A statement fails: the listings die with it, the probe reports it.
StatementFails ==
  /\ reading.tasks # <<>>
  /\ reading' = IF reading.kind = "health" THEN [Over EXCEPT !.status = "unreadable"] ELSE Unread
  /\ UNCHANGED <<tables, witness, writes>>

Answer ==
  /\ reading # Unread /\ reading.tasks = <<>>
  /\ reading' = Unread
  /\ UNCHANGED <<tables, witness, writes>>

----------------------------------------------------------------------------
(* The writers *)

Writes ==
  /\ writes < MaxWrites /\ writes' = writes + 1
  /\ witness' = Widened(witness, Watched')
  /\ UNCHANGED reading

SetProvider(p) ==
  /\ providers[p].there
  /\ providers' = [providers EXCEPT ![p].enabled = ~@]
  /\ UNCHANGED <<routes, details>> /\ Writes

\* ON DELETE CASCADE takes the targets and the provider_models rows.
RemoveProvider(p) ==
  /\ providers[p].there
  /\ providers' = [providers EXCEPT ![p] = Deleted]
  /\ routes' = [m \in PublicModels |-> [routes[m] EXCEPT !.targets = WithoutProvider(@, p)]]
  /\ details' = [details EXCEPT ![p] = [u \in Upstreams |-> "none"]]
  /\ Writes

SetRoute(m) ==
  /\ \/ routes[m].there /\ routes' = [routes EXCEPT ![m].enabled = ~@]
     \/ routes[m].there /\ routes' = [routes EXCEPT ![m] = NoRoute]
     \/ \E list \in Fittings :
          /\ \A t \in list : providers[t.provider].there
          /\ routes' = [routes EXCEPT ![m] = [there |-> TRUE, enabled |-> TRUE, targets |-> list]]
  /\ UNCHANGED <<providers, details>> /\ Writes

\* One statement of replaceProviderModels: an upsert, or a row deleted.
Rediscover(p, u) ==
  /\ providers[p].there
  /\ \E r \in Reported : details' = [details EXCEPT ![p][u] = r[p][u]]
  /\ UNCHANGED <<providers, routes>> /\ Writes

Reads ==
  \/ Ask \/ ReadRoutes \/ ReadRow \/ ReadTargets \/ MatchProviders \/ ReadDetails
  \/ HealthProviders \/ HealthRoutes \/ StatementFails \/ Answer

ListingNext ==
  \/ Reads
  \/ \E p \in Providers :
       SetProvider(p) \/ RemoveProvider(p) \/ \E u \in Upstreams : Rediscover(p, u)
  \/ \E m \in PublicModels : SetRoute(m)

ListingSpec == ListingInit /\ [][ListingNext]_listingVars

----------------------------------------------------------------------------

Ends(kind) == reading.kind = kind /\ reading.tasks = <<>>

(* A listing, whatever is written while it reads, holds every model that   *)
(* one and the same target could serve from its first statement to its     *)
(* last, and no model whose route was never on meanwhile or never had a    *)
(* target that serves (catalogue, resolveTargets).                         *)
ListingIsTrue ==
  Ends("models") \/ Ends("card") =>
    /\ {s.model : s \in witness.steady} \subseteq reading.listed
    /\ reading.listed \subseteq witness.on \cap witness.fed

(* The probe says ok only when some route was servable meanwhile, and says *)
(* degraded of a storage that answers only when none was, at one moment at *)
(* least (health, countServableRoutes).                                    *)
HealthIsTrue ==
  Ends("health") =>
    /\ reading.status = "ok" => witness.up
    /\ reading.status = "degraded" => witness.down

Worth(tells) ==
  CASE tells \in {"unread", "none"} -> 0 [] tells = "bare" -> 1 [] tells = "limits" -> 2
    [] tells = "capabilities" -> 3 [] tells = "both" -> 4

(* A listed model is described at least as fully as by any one target that *)
(* served it, and told the same, for as long as the reading took: "the     *)
(* richest answer is the most useful to a client" (modelMetadata).         *)
MetadataIsRichest ==
  Ends("models") =>
    \A s \in witness.steady : Worth(reading.told[s.model]) >= Worth(s.tells)

(* What clients and probes are told of the models was so while they asked  *)
(* (handlers-v1.ts, health.ts and discovery.ts, modelMetadata).            *)
ListingIsSound == ListingIsTrue /\ HealthIsTrue /\ MetadataIsRichest
=============================================================================
