----------------------------- MODULE Catalogue -----------------------------
(***************************************************************************)
(* What the gateway can serve, and how it finds out: discovery passes      *)
(* (src/src/gateway/discovery.ts discoverAll and discoverProvider, run by  *)
(* the maintenance fiber of src/src/main.ts and by the admin API) fill the *)
(* model catalogue of src/src/db/providers.ts, routes/sync turns it into   *)
(* the routes of src/src/db/routes.ts, and the operator edits providers    *)
(* and routes underneath both (src/src/http/admin/handlers.ts).            *)
(*                                                                         *)
(* A pass or a sync gives way at upstream calls and between statements.    *)
(* Each statement, and each transaction, is one action.                    *)
(***************************************************************************)
EXTENDS Naturals, FiniteSets

CONSTANTS
  Providers,       \* provider ids, which are never used twice
  Founders,        \* the providers already configured at the start
  Ids,             \* model ids, upstream and public
  Passes,          \* discovery passes that may overlap
  Maintenance,     \* the pass that main.ts repeats
  Configurations,  \* the filing rules an operator gives a provider
  Listings,        \* the answers an upstream's model list may have
  HandTargets,     \* the target sets an operator writes into a route
  NoModel,         \* no provider_models row; an upstream id without a rename
  NoRoute,         \* no routes row
  Unreadable,      \* a listing that is no list
  Unreachable,     \* a listing call that fails
  CallsSync,       \* whether the operator calls routes/sync at all (it never runs by itself)
  MaxEdits         \* bound on what operators, upstreams and crashes do

\* The answers that leave the stored rows alone.
NoList == {Unreadable, Unreachable}
Target == [provider : Providers, upstream : Ids, tuned : BOOLEAN]
RouteRow == [auto : BOOLEAN, enabled : BOOLEAN, targets : SUBSET Target]
\* A glob is the set of public ids it matches.
Configuration ==
  [rename : [Ids -> Ids \cup {NoModel}], allow : SUBSET SUBSET Ids, deny : SUBSET SUBSET Ids]

ASSUME CatalogueAssumption ==
  /\ Founders \subseteq Providers
  /\ Maintenance \in Passes
  /\ Configurations \subseteq Configuration /\ Configurations # {}
  /\ Listings \subseteq NoList \cup SUBSET Ids
  /\ HandTargets \subseteq SUBSET Target
  /\ NoModel \notin Ids
  /\ NoRoute \notin RouteRow
  /\ CallsSync \in BOOLEAN
  /\ MaxEdits \in Nat

VARIABLES
  status,    \* providers: not yet created, enabled, disabled, deleted
  config,    \* providers: model_rename, model_allow, model_deny
  listing,   \* what each upstream would answer
  models,    \* provider_models: provider -> upstream id -> public id
  routes,    \* routes with their route_targets
  worker,    \* discoverProvider, for each pass and provider
  sync,      \* syncRoutes
  curated,   \* routes whose targets an operator wrote last
  stirred,   \* routes changed by others since the sync read them
  quiet,     \* no catalogue or provider change since the sync began
  edits      \* edits made so far

database == <<status, config, models, routes>>
vars == <<status, config, listing, models, routes, worker, sync, curated, stirred, quiet, edits>>

Exists(p) == status[p] \in {"on", "off"}

Resting == [at |-> "rest", conf |-> CHOOSE c \in Configurations : TRUE,
            heard |-> Unreachable, put |-> {}, drop |-> {}]
Worker ==
  [at    : {"rest", "asking", "answered", "saving"},
   conf  : Configurations,                          \* the provider as the pass read it
   heard : NoList \cup SUBSET Ids,
   put   : SUBSET (Ids \X Ids),                     \* upserts still to make
   drop  : SUBSET Ids]                              \* deletes still to make

NoSync == [at |-> "rest", serving |-> {}, wanted |-> [m \in Ids |-> {}],
           seen |-> [m \in Ids |-> NoRoute], todo |-> {}, written |-> {}]
Sync ==
  [at      : {"rest", "routes", "models", "apply", "confirm"},
   serving : SUBSET Providers,                      \* enabled providers not read yet
   wanted  : [Ids -> SUBSET Target],
   seen    : [Ids -> {NoRoute} \cup RouteRow],      \* the routes as listRoutes read them
   todo    : SUBSET Ids,                            \* routes still to write or remove
   written : SUBSET Ids]                            \* the route to read back

NoModels == [u \in Ids |-> NoModel]

Init ==
  /\ status = [p \in Providers |-> IF p \in Founders THEN "on" ELSE "unborn"]
  /\ config \in {c \in [Providers -> Configurations] : \A p \in Providers \ Founders : c[p] = Resting.conf}
  /\ listing \in [Providers -> Listings]
  /\ models = [p \in Providers |-> NoModels]
  /\ routes = [m \in Ids |-> NoRoute]
  /\ worker = [w \in Passes |-> [p \in Providers |-> Resting]]
  /\ sync = NoSync
  /\ curated = {}
  /\ stirred = {}
  /\ quiet = TRUE
  /\ edits = 0

----------------------------------------------------------------------------
(* Discovery *)

\* Seeded fault: an upstream id without a rename has no public id.
PublicIdForRenamed(conf, u) == conf.rename[u]

PublicIdFor(conf, u) == IF conf.rename[u] = NoModel THEN u ELSE conf.rename[u]

IsAllowed(conf, id) ==
  /\ id \notin UNION conf.deny
  /\ conf.allow = {} \/ id \in UNION conf.allow

\* The rows a listing becomes.
Mapped(conf, list) ==
  {<<u, PublicIdFor(conf, u)>> : u \in {v \in list : IsAllowed(conf, PublicIdFor(conf, v))}}

Stored(p) == {u \in Ids : models[p][u] # NoModel}

\* The provider_models rows as replaceProviderModels would write them.
RowsOf(p) == {<<u, models[p][u]>> : u \in Stored(p)}

Asked(conf) == [Resting EXCEPT !.at = "asking", !.conf = conf]

\* discoverAll: every enabled provider is asked, each worker holding its row.
StartPass(w) ==
  /\ \A p \in Providers : worker[w][p].at = "rest"
  /\ worker' = [worker EXCEPT ![w] =
       [p \in Providers |-> IF status[p] = "on" THEN Asked(config[p]) ELSE Resting]]
  /\ UNCHANGED <<database, listing, sync, curated, edits>>

\* providerDiscover: one provider, enabled or not.
StartOne(w, p) ==
  /\ w # Maintenance
  /\ \A q \in Providers : worker[w][q].at = "rest"
  /\ Exists(p)
  /\ worker' = [worker EXCEPT ![w][p] = Asked(config[p])]
  /\ UNCHANGED <<database, listing, sync, curated, edits>>

Heard(k, answer) == [k EXCEPT !.at = "answered", !.heard = answer]

\* listModels: the upstream answers with what it lists now.
Answer(w, p) ==
  /\ worker[w][p].at = "asking"
  /\ worker' = [worker EXCEPT ![w][p] = Heard(@, listing[p])]
  /\ UNCHANGED <<database, listing, sync, curated, edits>>

\* The worker's next record: at rest once it has nothing left to write.
Saving(k) == IF k.put = {} /\ k.drop = {} THEN Resting ELSE [k EXCEPT !.at = "saving"]

Written(k, row) == Saving([k EXCEPT !.put = @ \ {row}])
Deleted(k, u) == Saving([k EXCEPT !.drop = @ \ {u}])

\* Seeded fault: a listing that is no list is taken for an empty one.
WithinEmptied(p, k) ==
  LET list == IF k.heard \in NoList THEN {} ELSE k.heard
      rows == Mapped(k.conf, list)
  IN  Saving([k EXCEPT !.put = rows, !.drop = Stored(p) \ {row[1] : row \in rows}])

\* Seeded fault: rows are only ever added.
WithinKept(p, k) ==
  IF k.heard \in NoList THEN Resting
  ELSE Saving([k EXCEPT !.put = Mapped(k.conf, k.heard)])

\* An answer that is no list leaves the rows alone; a list replaces them.
Within(p, k) ==
  IF k.heard \in NoList THEN Resting
  ELSE LET rows == Mapped(k.conf, k.heard)
       IN  Saving([k EXCEPT !.put = rows, !.drop = Stored(p) \ {row[1] : row \in rows}])

\* replaceProviderModels reads the rows it is about to replace.
Compare(w, p) ==
  /\ worker[w][p].at = "answered"
  /\ worker' = [worker EXCEPT ![w][p] = Within(p, @)]
  /\ UNCHANGED <<database, listing, sync, curated, edits>>

\* Seeded fault: foreign_keys is off, its default in SQLite.
AcceptsAnything(p) == TRUE

\* provider_models.provider_id references providers.
Accepts(p) == Exists(p)

Put(w, p) ==
  /\ worker[w][p].at = "saving"
  /\ Accepts(p)
  /\ \E row \in worker[w][p].put :
       /\ models' = [models EXCEPT ![p][row[1]] = row[2]]
       /\ worker' = [worker EXCEPT ![w][p] = Written(@, row)]
  /\ UNCHANGED <<status, config, routes, listing, sync, curated, edits>>

\* The statement fails, orDie: every worker of the pass is interrupted.
PutFails(w, p) ==
  /\ worker[w][p].at = "saving"
  /\ worker[w][p].put # {} /\ ~Accepts(p)
  /\ worker' = [worker EXCEPT ![w] = [q \in Providers |-> Resting]]
  /\ UNCHANGED <<database, listing, sync, curated, edits>>

\* The rows the listing no longer has, once all upserts are made.
Drop(w, p) ==
  /\ worker[w][p].at = "saving"
  /\ worker[w][p].put = {}
  /\ \E u \in worker[w][p].drop :
       /\ models' = [models EXCEPT ![p][u] = NoModel]
       /\ worker' = [worker EXCEPT ![w][p] = Deleted(@, u)]
  /\ UNCHANGED <<status, config, routes, listing, sync, curated, edits>>

----------------------------------------------------------------------------
(* routes/sync *)

\* The target sync writes for a catalogue row: priority 100, enabled.
Plain(p, u) == [provider |-> p, upstream |-> u, tuned |-> FALSE]

\* Seeded fault: a rewritten route is always switched on.
AutoRouteOn(seen, targets) == [auto |-> TRUE, enabled |-> TRUE, targets |-> targets]

\* What sync writes: the strategy, the switch and the name stay as it read them.
AutoRoute(seen, targets) ==
  [auto |-> TRUE, enabled |-> seen = NoRoute \/ seen.enabled, targets |-> targets]

\* The signatures agree: provider, upstream id, priority and switch of each target.
Same(seen, targets) == seen.targets = targets

\* Seeded fault: a route that exists is left as it is.
ToWriteNew(s) == {m \in Ids : s.wanted[m] # {} /\ s.seen[m] = NoRoute}

\* Created, brought up to date, or adopted for being what sync would build.
ToWrite(s) ==
  {m \in Ids : s.wanted[m] # {}
     /\ (s.seen[m] = NoRoute \/ s.seen[m].auto # Same(s.seen[m], s.wanted[m]))}

\* Seeded fault: every route without a model goes, whoever built it.
ToRemoveAny(s) == {m \in Ids : s.wanted[m] = {} /\ s.seen[m] # NoRoute}

\* Only a route sync owns is removed.
ToRemove(s) == {m \in Ids : s.wanted[m] = {} /\ s.seen[m] # NoRoute /\ s.seen[m].auto}

\* The sync's next record once its reads, or one more write, are done.
Applying(s) == IF s.todo = {} THEN NoSync ELSE [s EXCEPT !.at = "apply", !.written = {}]
Planned(s) == Applying([s EXCEPT !.todo = ToWrite(s) \cup ToRemove(s)])

\* listProviders
SyncProviders ==
  /\ CallsSync
  /\ sync.at = "rest"
  /\ sync' = [NoSync EXCEPT !.at = "routes", !.serving = {p \in Providers : status[p] = "on"}]
  /\ stirred' = {} /\ quiet' = TRUE
  /\ UNCHANGED <<database, listing, worker, curated, edits>>

\* listRoutes
SyncRoutes ==
  /\ sync.at = "routes"
  /\ LET read == [sync EXCEPT !.seen = routes]
     IN  sync' = IF sync.serving = {} THEN Planned(read) ELSE [read EXCEPT !.at = "models"]
  /\ stirred' = {}
  /\ UNCHANGED <<database, listing, worker, curated, quiet, edits>>

\* listModelsForProvider
SyncModels(p) ==
  /\ sync.at = "models"
  /\ p \in sync.serving
  /\ LET read == [sync EXCEPT !.serving = @ \ {p}, !.wanted = [m \in Ids |->
           sync.wanted[m] \cup {Plain(p, u) : u \in {v \in Ids : models[p][v] = m}}]]
     IN  sync' = IF read.serving = {} THEN Planned(read) ELSE read
  /\ UNCHANGED <<database, listing, worker, curated, stirred, quiet, edits>>

\* createRoute: one transaction, and then the route is read back.
SyncWrite(m) ==
  /\ sync.at = "apply"
  /\ m \in sync.todo \cap ToWrite(sync)
  /\ \A t \in sync.wanted[m] : Accepts(t.provider)
  /\ routes' = [routes EXCEPT ![m] = AutoRoute(sync.seen[m], sync.wanted[m])]
  /\ curated' = curated \ {m}
  /\ sync' = [sync EXCEPT !.at = "confirm", !.todo = @ \ {m}, !.written = {m}]
  /\ UNCHANGED <<status, config, models, listing, worker, stirred, quiet, edits>>

\* A route that vanished since is a defect, which ends the sync.
SyncConfirm ==
  /\ sync.at = "confirm"
  /\ sync' = IF \E m \in sync.written : routes[m] = NoRoute THEN NoSync ELSE Applying(sync)
  /\ UNCHANGED <<database, listing, worker, curated, stirred, quiet, edits>>

\* A target's provider is gone: the transaction rolls back and sync dies.
SyncFails(m) ==
  /\ sync.at = "apply"
  /\ m \in sync.todo \cap ToWrite(sync)
  /\ \E t \in sync.wanted[m] : ~Accepts(t.provider)
  /\ sync' = NoSync
  /\ UNCHANGED <<database, listing, worker, curated, stirred, quiet, edits>>

SyncRemove(m) ==
  /\ sync.at = "apply"
  /\ sync.todo \subseteq ToRemove(sync)
  /\ m \in sync.todo
  /\ routes' = [routes EXCEPT ![m] = NoRoute]
  /\ curated' = curated \ {m}
  /\ sync' = Applying([sync EXCEPT !.todo = @ \ {m}])
  /\ UNCHANGED <<status, config, models, listing, worker, stirred, quiet, edits>>

SyncStep ==
  \/ SyncProviders \/ SyncRoutes \/ SyncConfirm
  \/ \E p \in Providers : SyncModels(p)
  \/ \E m \in Ids : SyncWrite(m) \/ SyncFails(m) \/ SyncRemove(m)

----------------------------------------------------------------------------
(* The operator, the upstreams, a crash *)

Edit == edits < MaxEdits /\ edits' = edits + 1

CreateProvider(p) ==
  /\ Edit /\ status[p] = "unborn"
  /\ \E c \in Configurations : config' = [config EXCEPT ![p] = c]
  /\ status' = [status EXCEPT ![p] = "on"]
  /\ UNCHANGED <<models, routes, listing, worker, sync, curated>>

UpdateProvider(p) ==
  /\ Edit /\ Exists(p)
  /\ \E c \in Configurations, on \in {"on", "off"} :
       config' = [config EXCEPT ![p] = c] /\ status' = [status EXCEPT ![p] = on]
  /\ UNCHANGED <<models, routes, listing, worker, sync, curated>>

\* ON DELETE CASCADE: a route stays, without the provider's targets.
WithoutProvider(route, p) ==
  IF route = NoRoute THEN NoRoute
  ELSE [route EXCEPT !.targets = {t \in @ : t.provider # p}]

DeleteProvider(p) ==
  /\ Edit /\ Exists(p)
  /\ status' = [status EXCEPT ![p] = "gone"]
  /\ models' = [models EXCEPT ![p] = NoModels]
  /\ routes' = [m \in Ids |-> WithoutProvider(routes[m], p)]
  /\ UNCHANGED <<config, listing, worker, sync, curated>>

\* routeCreate: an upsert that belongs to the operator.
CreateRoute(m) ==
  /\ Edit
  /\ \E targets \in HandTargets, on \in BOOLEAN :
       /\ \A t \in targets : Exists(t.provider)
       /\ routes' = [routes EXCEPT ![m] = [auto |-> FALSE, enabled |-> on, targets |-> targets]]
  /\ curated' = curated \cup {m}
  /\ UNCHANGED <<status, config, models, listing, worker, sync>>

\* routeUpdate: the fields and the targets a patch names; never auto.
UpdateRoute(m) ==
  /\ Edit /\ routes[m] # NoRoute
  /\ \/ /\ routes' = [routes EXCEPT ![m].enabled = ~@]
        /\ UNCHANGED curated
     \/ /\ \E targets \in HandTargets :
             /\ \A t \in targets : Exists(t.provider)
             /\ routes' = [routes EXCEPT ![m].targets = targets]
        /\ curated' = curated \cup {m}
  /\ UNCHANGED <<status, config, models, listing, worker, sync>>

DeleteRoute(m) ==
  /\ Edit /\ routes[m] # NoRoute
  /\ routes' = [routes EXCEPT ![m] = NoRoute]
  /\ curated' = curated \ {m}
  /\ UNCHANGED <<status, config, models, listing, worker, sync>>

Relist(p) ==
  /\ Edit
  /\ \E l \in Listings \ {listing[p]} : listing' = [listing EXCEPT ![p] = l]
  /\ UNCHANGED <<database, worker, sync, curated>>

\* The process dies: the database stays as the last statement left it.
Crash ==
  /\ Edit
  /\ worker' = [w \in Passes |-> [p \in Providers |-> Resting]]
  /\ sync' = NoSync
  /\ UNCHANGED <<database, listing, curated>>

PassStep(w) ==
  \E p \in Providers : Answer(w, p) \/ Compare(w, p) \/ Put(w, p) \/ PutFails(w, p) \/ Drop(w, p)

Discover ==
  \/ \E w \in Passes : StartPass(w) \/ PassStep(w)
  \/ \E w \in Passes, p \in Providers : StartOne(w, p)

Operate ==
  \/ \E p \in Providers :
       CreateProvider(p) \/ UpdateProvider(p) \/ DeleteProvider(p) \/ Relist(p)
  \/ \E m \in Ids : CreateRoute(m) \/ UpdateRoute(m) \/ DeleteRoute(m)
  \/ Crash

\* What happens beside the sync, as far as its own promise is concerned.
Noticed ==
  /\ quiet' = (quiet /\ UNCHANGED <<models, status>>)
  /\ stirred' = stirred \cup {m \in Ids : routes'[m] # routes[m]}

Next == SyncStep \/ (Discover /\ Noticed) \/ (Operate /\ Noticed)

Spec == Init /\ [][Next]_vars

\* Passes run to their end: an upstream call ends in an answer, a failure or
\* the runtime's timeout, and main.ts repeats the maintenance pass for ever.
FairSpec ==
  /\ Spec
  /\ WF_vars(StartPass(Maintenance) /\ Noticed)
  /\ \A w \in Passes, p \in Providers :
       WF_vars((Answer(w, p) \/ Compare(w, p) \/ Put(w, p) \/ PutFails(w, p) \/ Drop(w, p)) /\ Noticed)

----------------------------------------------------------------------------
(* Properties *)

\* Types of the tables, of the workers and of the sync.
TypeOK ==
  /\ status \in [Providers -> {"unborn", "on", "off", "gone"}]
  /\ config \in [Providers -> Configurations]
  /\ listing \in [Providers -> Listings]
  /\ models \in [Providers -> [Ids -> Ids \cup {NoModel}]]
  /\ routes \in [Ids -> {NoRoute} \cup RouteRow]
  /\ worker \in [Passes -> [Providers -> Worker]]
  /\ sync \in Sync
  /\ curated \subseteq Ids /\ stirred \subseteq Ids /\ quiet \in BOOLEAN
  /\ edits \in 0..MaxEdits

\* No step of a pass or sync that began before a provider was deleted brings
\* its models or targets back: they belong to providers that exist.
ReferencesHold ==
  /\ \A p \in Providers : Stored(p) # {} => Exists(p)
  /\ \A m \in Ids : routes[m] # NoRoute => \A t \in routes[m].targets : Exists(t.provider)

\* An unreadable or failed listing costs nothing: a model leaves the catalogue
\* only with its provider, or for a listing, read under the filing rules the
\* pass started with, that no longer yields it.
ModelsLeaveForAReason ==
  [][\A p \in Providers, u \in Ids :
       models[p][u] # NoModel /\ models'[p][u] = NoModel =>
         \/ status'[p] = "gone"
         \/ \E w \in Passes :
              LET k == worker[w][p]
              IN  /\ k.at = "saving" /\ k.heard \notin NoList
                  /\ u \notin {row[1] : row \in Mapped(k.conf, k.heard)}]_vars

\* The targets sync would give a public model right now.
Desired(m) == {t \in Target : ~t.tuned /\ status[t.provider] = "on" /\ models[t.provider][t.upstream] = m}

\* The routes sync owns say exactly what the catalogue says.
Reconciled ==
  \A m \in Ids :
    IF Desired(m) = {} THEN routes[m] = NoRoute \/ ~routes[m].auto
    ELSE routes[m] # NoRoute /\ (routes[m].auto <=> Same(routes[m], Desired(m)))

\* A sync that ran to its end beside no other change leaves every route it
\* owns reconciled, whatever the catalogue and the routes were before.
SyncReconciles ==
  [][sync.at # "rest" /\ SyncStep /\ sync' = NoSync /\ quiet /\ stirred = {} => Reconciled']_vars

\* A sync changes no target of a route the operator owns, and never deletes
\* one, unless the operator wrote it while that sync was under way.
SyncRespectsOwners ==
  [][SyncStep => \A m \in Ids \ stirred :
       routes[m] # NoRoute /\ ~routes[m].auto =>
         routes'[m] # NoRoute /\ routes'[m].targets = routes[m].targets]_vars

\* Sync never turns a route back on that the operator switched off before it
\* began, nor off one that was on.
SyncKeepsTheSwitch ==
  [][SyncStep => \A m \in Ids \ stirred :
       routes[m] # NoRoute /\ routes'[m] # NoRoute => routes'[m].enabled = routes[m].enabled]_vars

\* Once the operator and the upstreams leave it alone, the catalogue becomes
\* and stays what every enabled provider's listing yields, whatever stale pass,
\* failed pass or crash came before.
CatalogueConverges ==
  <>[](\A p \in Providers : status[p] = "on" /\ listing[p] \notin NoList =>
         RowsOf(p) = Mapped(config[p], listing[p]))

\* Contradicted: domain.ts says an operator editing a route "clears" auto,
\* which hands it back to them.
CuratedNeverRewritten ==
  [][SyncStep => \A m \in curated \ stirred :
       routes'[m] # NoRoute /\ routes'[m].targets = routes[m].targets]_vars

=============================================================================
