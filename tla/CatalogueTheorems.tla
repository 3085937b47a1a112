------------------------- MODULE CatalogueTheorems -------------------------
(***************************************************************************)
(* Safety of discovery, route synchronisation and the operator's edits for *)
(* every set of providers, model ids and overlapping passes.               *)
(***************************************************************************)
EXTENDS Catalogue, TLAPS

----------------------------------------------------------------------------
(* Types *)

\* The worker at rest is a worker.
LEMMA RestingWorker == Resting \in Worker
<1>1. (CHOOSE c \in Configurations : TRUE) \in Configurations
  BY CatalogueAssumption
<1> QED
  BY <1>1 DEF Resting, Worker, NoList

\* A worker that starts to ask is one.
LEMMA AskedWorker ==
  ASSUME NEW conf \in Configurations
  PROVE  Asked(conf) \in Worker
BY RestingWorker DEF Asked, Resting, Worker

\* What a worker has left to write keeps it a worker.
LEMMA SavingWorker ==
  ASSUME NEW k \in Worker
  PROVE  Saving(k) \in Worker
BY RestingWorker DEF Saving, Worker

\* So do an answer, an upsert made and a delete made.
LEMMA WorkerSteps ==
  ASSUME NEW k \in Worker,
         NEW answer \in NoList \cup SUBSET Ids, NEW row, NEW u
  PROVE  /\ Heard(k, answer) \in Worker
         /\ Written(k, row) \in Worker
         /\ Deleted(k, u) \in Worker
<1>1. Heard(k, answer) \in Worker
  BY DEF Heard, Worker
<1>2. [k EXCEPT !.put = @ \ {row}] \in Worker
  BY DEF Worker
<1>3. [k EXCEPT !.drop = @ \ {u}] \in Worker
  BY DEF Worker
<1> QED
  BY <1>1, <1>2, <1>3, SavingWorker DEF Written, Deleted

\* The filing rules turn a list of model ids into catalogue rows.
LEMMA MappedRows ==
  ASSUME NEW conf \in Configurations, NEW list \in SUBSET Ids
  PROVE  Mapped(conf, list) \subseteq Ids \X Ids
<1>1. conf \in Configuration
  BY CatalogueAssumption
<1>2. \A u \in Ids : PublicIdFor(conf, u) \in Ids
  BY <1>1 DEF Configuration, PublicIdFor
<1> QED
  BY <1>2 DEF Mapped

\* Comparing an answer with the stored rows yields a worker.
LEMMA WithinWorker ==
  ASSUME NEW p \in Providers, NEW k \in Worker
  PROVE  Within(p, k) \in Worker
<1> DEFINE rows == Mapped(k.conf, k.heard)
           plan == [k EXCEPT !.put = rows, !.drop = Stored(p) \ {row[1] : row \in rows}]
<1>1. CASE k.heard \in NoList
  BY <1>1, RestingWorker DEF Within
<1>2. CASE k.heard \notin NoList
  <2>1. rows \subseteq Ids \X Ids
    BY <1>2, MappedRows DEF Worker
  <2>2. Stored(p) \ {row[1] : row \in rows} \in SUBSET Ids
    BY DEF Stored
  <2>3. plan \in Worker
    BY <2>1, <2>2 DEF Worker
  <2> QED
    BY <1>2, <2>3, SavingWorker DEF Within
<1> QED
  BY <1>1, <1>2

\* The sync at rest is a sync.
LEMMA RestingSync == NoSync \in Sync
BY DEF NoSync, Sync

\* What a sync has left to write keeps it a sync.
LEMMA ApplyingSync ==
  ASSUME NEW s \in Sync
  PROVE  Applying(s) \in Sync
BY RestingSync DEF Applying, Sync

\* A sync that has read everything plans only public model ids.
LEMMA PlannedSync ==
  ASSUME NEW s \in Sync
  PROVE  Planned(s) \in Sync
<1>1. ToWrite(s) \cup ToRemove(s) \in SUBSET Ids
  BY DEF ToWrite, ToRemove
<1>2. [s EXCEPT !.todo = ToWrite(s) \cup ToRemove(s)] \in Sync
  BY <1>1 DEF Sync
<1> QED
  BY <1>2, ApplyingSync DEF Planned

\* The initial state is well typed.
LEMMA InitTypes == Init => TypeOK
<1> SUFFICES ASSUME Init PROVE TypeOK
  OBVIOUS
<1>1. NoModels \in [Ids -> Ids \cup {NoModel}]
  BY DEF NoModels
<1> QED
  BY <1>1, RestingWorker, RestingSync, CatalogueAssumption DEF Init, TypeOK

\* A step of a pass keeps every type.
LEMMA DiscoverTypes == TypeOK /\ Discover /\ Noticed => TypeOK'
<1> SUFFICES ASSUME TypeOK, Discover, Noticed PROVE TypeOK'
  OBVIOUS
<1>a. stirred' \subseteq Ids /\ quiet' \in BOOLEAN
  BY DEF TypeOK, Noticed
<1>1. ASSUME NEW w \in Passes, StartPass(w) PROVE TypeOK'
  <2>1. [p \in Providers |-> IF status[p] = "on" THEN Asked(config[p]) ELSE Resting]
          \in [Providers -> Worker]
    BY AskedWorker, RestingWorker DEF TypeOK
  <2> QED
    BY <1>1, <1>a, <2>1 DEF TypeOK, StartPass, database
<1>2. ASSUME NEW w \in Passes, NEW p \in Providers, StartOne(w, p) PROVE TypeOK'
  <2>1. Asked(config[p]) \in Worker
    BY AskedWorker DEF TypeOK
  <2> QED
    BY <1>2, <1>a, <2>1 DEF TypeOK, StartOne, database
<1>3. ASSUME NEW w \in Passes, NEW p \in Providers, Answer(w, p) PROVE TypeOK'
  <2>1. listing[p] \in NoList \cup SUBSET Ids
    BY CatalogueAssumption DEF TypeOK
  <2>2. worker[w][p] \in Worker
    BY DEF TypeOK
  <2>3. Heard(worker[w][p], listing[p]) \in Worker
    BY <2>1, <2>2, WorkerSteps
  <2>4. worker' \in [Passes -> [Providers -> Worker]]
    BY <1>3, <2>3 DEF TypeOK, Answer
  <2> QED
    BY <1>3, <1>a, <2>4 DEF TypeOK, Answer, database
<1>4. ASSUME NEW w \in Passes, NEW p \in Providers, Compare(w, p) PROVE TypeOK'
  <2>1. Within(p, worker[w][p]) \in Worker
    BY WithinWorker DEF TypeOK
  <2>2. worker' = [worker EXCEPT ![w][p] = Within(p, worker[w][p])]
    BY <1>4 DEF Compare
  <2> QED
    BY <1>4, <1>a, <2>1, <2>2 DEF TypeOK, Compare, database
<1>5. ASSUME NEW w \in Passes, NEW p \in Providers, Put(w, p) PROVE TypeOK'
  <2>1. PICK row \in worker[w][p].put :
          /\ models' = [models EXCEPT ![p][row[1]] = row[2]]
          /\ worker' = [worker EXCEPT ![w][p] = Written(@, row)]
    BY <1>5 DEF Put
  <2>2. worker[w][p] \in Worker
    BY DEF TypeOK
  <2>3. row \in Ids \X Ids
    BY <2>2 DEF Worker
  <2>5. Written(worker[w][p], row) \in Worker
    BY <2>2, WorkerSteps
  <2>6. worker' \in [Passes -> [Providers -> Worker]]
    BY <2>1, <2>5 DEF TypeOK
  <2>7. models' \in [Providers -> [Ids -> Ids \cup {NoModel}]]
    BY <2>1, <2>3 DEF TypeOK
  <2> QED
    BY <1>5, <1>a, <2>6, <2>7 DEF TypeOK, Put
<1>6. ASSUME NEW w \in Passes, NEW p \in Providers, PutFails(w, p) PROVE TypeOK'
  BY <1>6, <1>a, RestingWorker DEF TypeOK, PutFails, database
<1>7. ASSUME NEW w \in Passes, NEW p \in Providers, Drop(w, p) PROVE TypeOK'
  <2>1. PICK u \in worker[w][p].drop :
          /\ models' = [models EXCEPT ![p][u] = NoModel]
          /\ worker' = [worker EXCEPT ![w][p] = Deleted(@, u)]
    BY <1>7 DEF Drop
  <2>2. worker[w][p] \in Worker
    BY DEF TypeOK
  <2>5. Deleted(worker[w][p], u) \in Worker
    BY <2>2, WorkerSteps
  <2>6. worker' \in [Passes -> [Providers -> Worker]]
    BY <2>1, <2>5 DEF TypeOK
  <2>7. models' \in [Providers -> [Ids -> Ids \cup {NoModel}]]
    BY <2>1 DEF TypeOK
  <2> QED
    BY <1>7, <1>a, <2>6, <2>7 DEF TypeOK, Drop
<1> QED
  BY <1>1, <1>2, <1>3, <1>4, <1>5, <1>6, <1>7 DEF Discover, PassStep

\* The route a sync writes is a route.
LEMMA AutoRouteRow ==
  ASSUME NEW s \in Sync, NEW m \in Ids
  PROVE  AutoRoute(s.seen[m], s.wanted[m]) \in RouteRow
<1>1. s.wanted[m] \in SUBSET Target /\ s.seen[m] \in {NoRoute} \cup RouteRow
  BY DEF Sync
<1>2. (s.seen[m] = NoRoute \/ s.seen[m].enabled) \in BOOLEAN
  BY <1>1 DEF RouteRow
<1> QED
  BY <1>1, <1>2 DEF AutoRoute, RouteRow

\* A step of a sync keeps every type.
LEMMA SyncTypes == TypeOK /\ SyncStep => TypeOK'
<1> SUFFICES ASSUME TypeOK, SyncStep PROVE TypeOK'
  OBVIOUS
<1>s. sync \in Sync
  BY DEF TypeOK
<1>1. CASE SyncProviders
  <2>1. {p \in Providers : status[p] = "on"} \in SUBSET Providers
    OBVIOUS
  <2>2. sync' \in Sync
    BY <1>1, <2>1, RestingSync DEF SyncProviders, Sync
  <2> QED
    BY <1>1, <2>2 DEF TypeOK, SyncProviders, database
<1>2. CASE SyncRoutes
  <2>1. [sync EXCEPT !.seen = routes] \in Sync
    BY <1>s DEF TypeOK, Sync
  <2>2. [[sync EXCEPT !.seen = routes] EXCEPT !.at = "models"] \in Sync
    BY <2>1 DEF Sync
  <2>3. sync' \in Sync
    BY <1>2, <2>1, <2>2, PlannedSync DEF SyncRoutes
  <2> QED
    BY <1>2, <2>3 DEF TypeOK, SyncRoutes, database
<1>3. ASSUME NEW p \in Providers, SyncModels(p) PROVE TypeOK'
  <2> DEFINE more == [m \in Ids |->
               sync.wanted[m] \cup {Plain(p, u) : u \in {v \in Ids : models[p][v] = m}}]
             read == [sync EXCEPT !.serving = @ \ {p}, !.wanted = more]
  <2>1. \A u \in Ids : Plain(p, u) \in Target
    BY DEF Plain, Target
  <2>2. more \in [Ids -> SUBSET Target]
    BY <1>s, <2>1 DEF Sync
  <2>3. read \in Sync
    BY <1>s, <2>2 DEF Sync
  <2>4. sync' \in Sync
    BY <1>3, <2>3, PlannedSync DEF SyncModels
  <2> QED
    BY <1>3, <2>4 DEF TypeOK, SyncModels, database
<1>4. ASSUME NEW m \in Ids, SyncWrite(m) PROVE TypeOK'
  <2>1. AutoRoute(sync.seen[m], sync.wanted[m]) \in RouteRow
    BY <1>s, AutoRouteRow
  <2>2. routes' \in [Ids -> {NoRoute} \cup RouteRow]
    BY <1>4, <2>1 DEF SyncWrite, TypeOK
  <2>3. sync' \in Sync
    BY <1>4, <1>s DEF SyncWrite, Sync
  <2>4. curated' \subseteq Ids
    BY <1>4 DEF SyncWrite, TypeOK
  <2> QED
    BY <1>4, <2>2, <2>3, <2>4 DEF TypeOK, SyncWrite
<1>5. CASE SyncConfirm
  <2>1. sync' \in Sync
    BY <1>5, <1>s, RestingSync, ApplyingSync DEF SyncConfirm
  <2> QED
    BY <1>5, <2>1 DEF TypeOK, SyncConfirm, database
<1>6. ASSUME NEW m \in Ids, SyncFails(m) PROVE TypeOK'
  BY <1>6, RestingSync DEF TypeOK, SyncFails, database
<1>7. ASSUME NEW m \in Ids, SyncRemove(m) PROVE TypeOK'
  <2>1. [sync EXCEPT !.todo = @ \ {m}] \in Sync
    BY <1>s DEF Sync
  <2>2. sync' \in Sync
    BY <1>7, <2>1, ApplyingSync DEF SyncRemove
  <2>3. routes' \in [Ids -> {NoRoute} \cup RouteRow] /\ curated' \subseteq Ids
    BY <1>7 DEF SyncRemove, TypeOK
  <2> QED
    BY <1>7, <2>2, <2>3 DEF TypeOK, SyncRemove
<1> QED
  BY <1>1, <1>2, <1>3, <1>4, <1>5, <1>6, <1>7 DEF SyncStep

\* A step of the operator, of an upstream or a crash keeps every type.
LEMMA OperateTypes == TypeOK /\ Operate /\ Noticed => TypeOK'
<1> SUFFICES ASSUME TypeOK, Operate, Noticed PROVE TypeOK'
  OBVIOUS
<1>a. stirred' \subseteq Ids /\ quiet' \in BOOLEAN
  BY DEF TypeOK, Noticed
<1>e. Edit => edits' \in 0 .. MaxEdits
  BY CatalogueAssumption DEF Edit, TypeOK
<1>1. ASSUME NEW p \in Providers, CreateProvider(p) PROVE TypeOK'
  BY <1>1, <1>a, <1>e DEF TypeOK, CreateProvider
<1>2. ASSUME NEW p \in Providers, UpdateProvider(p) PROVE TypeOK'
  BY <1>2, <1>a, <1>e DEF TypeOK, UpdateProvider
<1>3. ASSUME NEW p \in Providers, DeleteProvider(p) PROVE TypeOK'
  <2>1. \A m \in Ids : WithoutProvider(routes[m], p) \in {NoRoute} \cup RouteRow
    BY DEF TypeOK, WithoutProvider, RouteRow
  <2>2. models' \in [Providers -> [Ids -> Ids \cup {NoModel}]]
    BY <1>3 DEF DeleteProvider, NoModels, TypeOK
  <2> QED
    BY <1>3, <1>a, <1>e, <2>1, <2>2 DEF TypeOK, DeleteProvider
<1>4. ASSUME NEW m \in Ids, CreateRoute(m) PROVE TypeOK'
  <2>1. PICK targets \in HandTargets, on \in BOOLEAN :
          routes' = [routes EXCEPT ![m] = [auto |-> FALSE, enabled |-> on, targets |-> targets]]
    BY <1>4 DEF CreateRoute
  <2>2. [auto |-> FALSE, enabled |-> on, targets |-> targets] \in RouteRow
    BY CatalogueAssumption DEF RouteRow
  <2> QED
    BY <1>4, <1>a, <1>e, <2>1, <2>2 DEF TypeOK, CreateRoute
<1>5. ASSUME NEW m \in Ids, UpdateRoute(m) PROVE TypeOK'
  <2>1. routes[m] \in RouteRow
    BY <1>5 DEF UpdateRoute, TypeOK
  <2>2. routes' \in [Ids -> {NoRoute} \cup RouteRow]
    <3>1. CASE routes' = [routes EXCEPT ![m].enabled = ~@]
      <4>1. [routes[m] EXCEPT !.enabled = ~@] \in RouteRow
        BY <2>1 DEF RouteRow
      <4> QED
        BY <3>1, <4>1 DEF TypeOK
    <3>2. ASSUME NEW targets \in HandTargets, routes' = [routes EXCEPT ![m].targets = targets]
          PROVE  routes' \in [Ids -> {NoRoute} \cup RouteRow]
      <4>1. [routes[m] EXCEPT !.targets = targets] \in RouteRow
        BY <2>1, CatalogueAssumption DEF RouteRow
      <4> QED
        BY <3>2, <4>1 DEF TypeOK
    <3> QED
      BY <1>5, <3>1, <3>2 DEF UpdateRoute
  <2>3. curated' \subseteq Ids
    BY <1>5 DEF UpdateRoute, TypeOK
  <2> QED
    BY <1>5, <1>a, <1>e, <2>2, <2>3 DEF TypeOK, UpdateRoute
<1>6. ASSUME NEW m \in Ids, DeleteRoute(m) PROVE TypeOK'
  BY <1>6, <1>a, <1>e DEF TypeOK, DeleteRoute
<1>7. ASSUME NEW p \in Providers, Relist(p) PROVE TypeOK'
  BY <1>7, <1>a, <1>e DEF TypeOK, Relist, database
<1>8. CASE Crash
  BY <1>8, <1>a, <1>e, RestingWorker, RestingSync DEF TypeOK, Crash, database
<1> QED
  BY <1>1, <1>2, <1>3, <1>4, <1>5, <1>6, <1>7, <1>8 DEF Operate

\* Stuttering keeps every type.
LEMMA StutterTypes == TypeOK /\ UNCHANGED vars => TypeOK'
BY DEF TypeOK, vars

\* Every table, worker and sync has its type in every reachable state, for
\* any providers, model ids, filing rules and overlapping passes
\* (discovery.ts, providers.ts and routes.ts).
THEOREM TypeCorrect == Spec => []TypeOK
<1>1. Init => TypeOK
  BY InitTypes
<1>2. TypeOK /\ [Next]_vars => TypeOK'
  BY DiscoverTypes, SyncTypes, OperateTypes, StutterTypes DEF Next
<1> QED
  BY <1>1, <1>2, PTL DEF Spec

----------------------------------------------------------------------------
(* References.  ReferencesHold is inductive beside the types: every insert  *)
(* is checked against the providers, and a delete takes its rows along.     *)

\* A step that leaves the tables alone keeps their references.
LEMMA TablesKept ==
  ReferencesHold /\ UNCHANGED <<status, models, routes>> => ReferencesHold'
BY DEF ReferencesHold, Stored, Exists

\* A step of a pass stores rows of providers that exist only.
LEMMA DiscoverReferences == TypeOK /\ ReferencesHold /\ Discover => ReferencesHold'
<1> SUFFICES ASSUME TypeOK, ReferencesHold, Discover PROVE ReferencesHold'
  OBVIOUS
<1>1. ASSUME NEW w \in Passes, NEW p \in Providers, Put(w, p) PROVE ReferencesHold'
  <2>1. PICK row \in worker[w][p].put : models' = [models EXCEPT ![p][row[1]] = row[2]]
    BY <1>1 DEF Put
  <2>2. \A q \in Providers : Exists(q)' <=> Exists(q)
    BY <1>1 DEF Put, Exists
  <2>3. \A q \in Providers : q # p => models'[q] = models[q]
    BY <2>1 DEF TypeOK
  <2>4. \A q \in Providers : Stored(q)' # {} => Exists(q)
    BY <1>1, <2>3 DEF Put, Accepts, ReferencesHold, Stored
  <2> QED
    BY <1>1, <2>2, <2>4 DEF Put, ReferencesHold, Exists
<1>2. ASSUME NEW w \in Passes, NEW p \in Providers, Drop(w, p) PROVE ReferencesHold'
  <2>1. PICK u \in worker[w][p].drop : models' = [models EXCEPT ![p][u] = NoModel]
    BY <1>2 DEF Drop
  <2>2. \A q \in Providers : Stored(q)' \subseteq Stored(q)
    BY <2>1 DEF TypeOK, Stored
  <2> QED
    BY <1>2, <2>2 DEF Drop, ReferencesHold, Exists
<1>3. ASSUME NEW w \in Passes,
             \/ StartPass(w)
             \/ \E p \in Providers :
                  StartOne(w, p) \/ Answer(w, p) \/ Compare(w, p) \/ PutFails(w, p)
      PROVE  UNCHANGED <<status, models, routes>>
  BY <1>3 DEF StartPass, StartOne, Answer, Compare, PutFails, database
<1> QED
  BY <1>1, <1>2, <1>3, TablesKept DEF Discover, PassStep

\* A step of a sync writes targets of providers that exist only.
LEMMA SyncReferences == TypeOK /\ ReferencesHold /\ SyncStep => ReferencesHold'
<1> SUFFICES ASSUME TypeOK, ReferencesHold, SyncStep PROVE ReferencesHold'
  OBVIOUS
<1>1. ASSUME NEW m \in Ids, SyncWrite(m) PROVE ReferencesHold'
  <2>1. \A n \in Ids : n # m => routes'[n] = routes[n]
    BY <1>1 DEF SyncWrite, TypeOK
  <2>2. routes'[m].targets = sync.wanted[m]
    BY <1>1 DEF SyncWrite, TypeOK, AutoRoute
  <2>3. \A t \in sync.wanted[m] : Exists(t.provider)
    BY <1>1 DEF SyncWrite, Accepts
  <2> QED
    BY <1>1, <2>1, <2>2, <2>3 DEF SyncWrite, ReferencesHold, Exists, Stored
<1>2. ASSUME NEW m \in Ids, SyncRemove(m) PROVE ReferencesHold'
  BY <1>2 DEF SyncRemove, ReferencesHold, TypeOK, Exists, Stored
<1>3. ASSUME \/ SyncProviders \/ SyncRoutes \/ SyncConfirm
             \/ \E p \in Providers : SyncModels(p)
             \/ \E m \in Ids : SyncFails(m)
      PROVE  UNCHANGED <<status, models, routes>>
  BY <1>3 DEF SyncProviders, SyncRoutes, SyncConfirm, SyncModels, SyncFails, database
<1> QED
  BY <1>1, <1>2, <1>3, TablesKept DEF SyncStep

\* The operator's edits keep the references: a provider is never unmade
\* without its models and targets.
LEMMA OperateReferences == TypeOK /\ ReferencesHold /\ Operate => ReferencesHold'
<1> SUFFICES ASSUME TypeOK, ReferencesHold, Operate PROVE ReferencesHold'
  OBVIOUS
<1>1. ASSUME NEW p \in Providers, CreateProvider(p) \/ UpdateProvider(p)
      PROVE  ReferencesHold'
  <2>1. UNCHANGED <<models, routes>>
    BY <1>1 DEF CreateProvider, UpdateProvider
  <2>2. \A q \in Providers : Exists(q) => Exists(q)'
    BY <1>1 DEF CreateProvider, UpdateProvider, Exists, TypeOK
  <2>3. \A m \in Ids : routes[m] # NoRoute => \A t \in routes[m].targets : t.provider \in Providers
    BY DEF TypeOK, RouteRow, Target
  <2> QED
    BY <2>1, <2>2, <2>3 DEF ReferencesHold, Stored
<1>2. ASSUME NEW p \in Providers, DeleteProvider(p) PROVE ReferencesHold'
  <2>1. \A q \in Providers : q # p => status'[q] = status[q] /\ models'[q] = models[q]
    BY <1>2 DEF DeleteProvider, TypeOK
  <2>2. Stored(p)' = {}
    BY <1>2 DEF DeleteProvider, Stored, NoModels, TypeOK
  <2>3. \A q \in Providers : Stored(q)' # {} => Exists(q)'
    BY <2>1, <2>2 DEF ReferencesHold, Stored, Exists
  <2>4. ASSUME NEW m \in Ids, routes'[m] # NoRoute, NEW t \in routes'[m].targets
        PROVE  Exists(t.provider)'
    <3>1. routes[m] # NoRoute /\ routes[m] \in RouteRow
      BY <1>2, <2>4 DEF DeleteProvider, WithoutProvider, TypeOK
    <3>2. t \in routes[m].targets /\ t.provider # p
      BY <1>2, <2>4, <3>1 DEF DeleteProvider, WithoutProvider, RouteRow
    <3>3. t.provider \in Providers
      BY <3>1, <3>2 DEF RouteRow, Target
    <3> QED
      BY <2>1, <3>1, <3>2, <3>3 DEF ReferencesHold, Exists
  <2> QED
    BY <2>3, <2>4 DEF ReferencesHold
<1>3. ASSUME NEW m \in Ids, CreateRoute(m) PROVE ReferencesHold'
  <2>1. PICK targets \in HandTargets, on \in BOOLEAN :
          /\ \A t \in targets : Exists(t.provider)
          /\ routes' = [routes EXCEPT ![m] = [auto |-> FALSE, enabled |-> on, targets |-> targets]]
    BY <1>3 DEF CreateRoute
  <2>2. /\ routes'[m].targets = targets
        /\ \A n \in Ids : n # m => routes'[n] = routes[n]
    BY <2>1 DEF TypeOK
  <2> QED
    BY <1>3, <2>1, <2>2 DEF CreateRoute, ReferencesHold, Stored, Exists
<1>4. ASSUME NEW m \in Ids, UpdateRoute(m) PROVE ReferencesHold'
  <2>1. routes[m] \in RouteRow
    BY <1>4 DEF UpdateRoute, TypeOK
  <2>2. \A n \in Ids : n # m => routes'[n] = routes[n]
    BY <1>4 DEF UpdateRoute, TypeOK
  <2>3. \A t \in routes'[m].targets : Exists(t.provider)
    <3>1. CASE routes' = [routes EXCEPT ![m].enabled = ~@]
      BY <1>4, <2>1, <3>1 DEF TypeOK, RouteRow, ReferencesHold, UpdateRoute
    <3>2. ASSUME NEW targets \in HandTargets, \A t \in targets : Exists(t.provider),
                 routes' = [routes EXCEPT ![m].targets = targets]
          PROVE  \A t \in routes'[m].targets : Exists(t.provider)
      BY <2>1, <3>2 DEF TypeOK, RouteRow
    <3> QED
      BY <1>4, <3>1, <3>2 DEF UpdateRoute
  <2> QED
    BY <1>4, <2>2, <2>3 DEF UpdateRoute, ReferencesHold, Stored, Exists
<1>5. ASSUME NEW m \in Ids, DeleteRoute(m) PROVE ReferencesHold'
  BY <1>5 DEF DeleteRoute, ReferencesHold, TypeOK, Stored, Exists
<1>6. ASSUME Crash \/ \E p \in Providers : Relist(p)
      PROVE  UNCHANGED <<status, models, routes>>
  BY <1>6 DEF Crash, Relist, database
<1> QED
  BY <1>1, <1>2, <1>3, <1>4, <1>5, <1>6, TablesKept DEF Operate

\* No model and no target outlives its provider, whatever stale pass or sync
\* still has writes to make: the foreign keys of migrations.ts are enough.
THEOREM References == Spec => []ReferencesHold
<1>1. Init => ReferencesHold
  BY DEF Init, ReferencesHold, Stored, NoModels
<1>2. TypeOK /\ ReferencesHold /\ [Next]_vars => ReferencesHold'
  BY DiscoverReferences, SyncReferences, OperateReferences, TablesKept DEF Next, vars
<1> QED
  BY <1>1, <1>2, TypeCorrect, PTL DEF Spec

----------------------------------------------------------------------------
(* Owners.  What a sync does to a route follows from what it read of it, so *)
(* the invariant says that its reading is still true wherever nobody else   *)
(* has written since.                                                       *)

\* What a sync has read is still so for the routes it has left to do.
ReadStillTrue ==
  /\ sync.at = "models" => \A m \in Ids \ stirred : routes[m] = sync.seen[m]
  /\ sync.at \in {"apply", "confirm"} =>
       \A m \in sync.todo \ stirred : routes[m] = sync.seen[m]

\* Planning leaves the readings as they are and writes down what is to do.
LEMMA PlannedReads ==
  ASSUME NEW s \in Sync
  PROVE  \/ Planned(s).at = "rest"
         \/ /\ Planned(s).at = "apply"
            /\ Planned(s).seen = s.seen
            /\ Planned(s).todo \subseteq Ids
<1>1. ToWrite(s) \cup ToRemove(s) \in SUBSET Ids
  BY DEF ToWrite, ToRemove
<1> QED
  BY <1>1 DEF Planned, Applying, NoSync, Sync

\* A step of a sync keeps its readings true of what it has left to do.
LEMMA SyncReads == TypeOK /\ ReadStillTrue /\ SyncStep => ReadStillTrue'
<1> SUFFICES ASSUME TypeOK, ReadStillTrue, SyncStep PROVE ReadStillTrue'
  OBVIOUS
<1>s. sync \in Sync
  BY DEF TypeOK
<1>1. CASE SyncProviders
  BY <1>1 DEF SyncProviders, ReadStillTrue, NoSync
<1>2. CASE SyncRoutes
  <2>1. [sync EXCEPT !.seen = routes] \in Sync
    BY <1>s DEF TypeOK, Sync
  <2>2. CASE sync.serving = {}
    <3>1. sync' = Planned([sync EXCEPT !.seen = routes]) /\ routes' = routes
      BY <1>2, <2>2 DEF SyncRoutes, database
    <3>2. [sync EXCEPT !.seen = routes].seen = routes
      BY <1>s DEF Sync
    <3> QED
      BY <2>1, <3>1, <3>2, PlannedReads DEF ReadStillTrue
  <2>3. CASE sync.serving # {}
    <3>1. sync'.at = "models" /\ sync'.seen = routes /\ routes' = routes
      BY <1>2, <1>s, <2>3 DEF SyncRoutes, database, Sync
    <3> QED
      BY <3>1 DEF ReadStillTrue
  <2> QED
    BY <2>2, <2>3
<1>3. ASSUME NEW p \in Providers, SyncModels(p) PROVE ReadStillTrue'
  <2> DEFINE more == [m \in Ids |->
               sync.wanted[m] \cup {Plain(p, u) : u \in {v \in Ids : models[p][v] = m}}]
             read == [sync EXCEPT !.serving = @ \ {p}, !.wanted = more]
  <2>1. \A u \in Ids : Plain(p, u) \in Target
    BY DEF Plain, Target
  <2>2. more \in [Ids -> SUBSET Target]
    BY <1>s, <2>1 DEF Sync
  <2>3. read \in Sync /\ read.seen = sync.seen /\ read.at = sync.at
    BY <1>s, <2>2 DEF Sync
  <2>4. sync.at = "models" /\ routes' = routes /\ stirred' = stirred
    BY <1>3 DEF SyncModels, database
  <2>5. sync' = Planned(read) \/ sync' = read
    BY <1>3 DEF SyncModels
  <2> HIDE DEF read
  <2>6. \A m \in Ids \ stirred : routes[m] = sync.seen[m]
    BY <2>4 DEF ReadStillTrue
  <2> QED
    BY <2>3, <2>4, <2>5, <2>6, PlannedReads DEF ReadStillTrue
<1>4. ASSUME NEW m \in Ids, SyncWrite(m) PROVE ReadStillTrue'
  <2>1. /\ sync'.at = "confirm" /\ sync'.seen = sync.seen
        /\ sync'.todo = sync.todo \ {m} /\ stirred' = stirred
    BY <1>4, <1>s DEF SyncWrite, Sync
  <2>2. \A n \in Ids : n # m => routes'[n] = routes[n]
    BY <1>4 DEF SyncWrite, TypeOK
  <2> QED
    BY <1>4, <1>s, <2>1, <2>2 DEF SyncWrite, ReadStillTrue, Sync
<1>5. CASE SyncConfirm
  BY <1>5, <1>s DEF SyncConfirm, Applying, NoSync, ReadStillTrue, database, Sync
<1>6. ASSUME NEW m \in Ids, SyncFails(m) PROVE ReadStillTrue'
  BY <1>6 DEF SyncFails, ReadStillTrue, NoSync
<1>7. ASSUME NEW m \in Ids, SyncRemove(m) PROVE ReadStillTrue'
  <2>1. \/ sync'.at = "rest"
        \/ sync'.seen = sync.seen /\ sync'.todo = sync.todo \ {m} /\ sync'.at = "apply"
    BY <1>7, <1>s DEF SyncRemove, Applying, NoSync, Sync
  <2>2. stirred' = stirred /\ \A n \in Ids : n # m => routes'[n] = routes[n]
    BY <1>7 DEF SyncRemove, TypeOK
  <2> QED
    BY <1>7, <1>s, <2>1, <2>2 DEF SyncRemove, ReadStillTrue, Sync
<1> QED
  BY <1>1, <1>2, <1>3, <1>4, <1>5, <1>6, <1>7 DEF SyncStep

\* Whoever else writes a route is noticed; a crash forgets the readings.
LEMMA OthersRead ==
  TypeOK /\ ReadStillTrue /\ (Discover \/ Operate) /\ Noticed => ReadStillTrue'
<1> SUFFICES ASSUME TypeOK, ReadStillTrue, Discover \/ Operate, Noticed PROVE ReadStillTrue'
  OBVIOUS
<1>1. sync' = sync \/ sync' = NoSync
  BY DEF Discover, PassStep, Operate, StartPass, StartOne, Answer, Compare, Put, PutFails, Drop,
         CreateProvider, UpdateProvider, DeleteProvider, Relist,
         CreateRoute, UpdateRoute, DeleteRoute, Crash
<1>2. \A m \in Ids \ stirred' : m \notin stirred /\ routes'[m] = routes[m]
  BY DEF Noticed
<1>3. sync.todo \subseteq Ids
  BY DEF TypeOK, Sync
<1> QED
  BY <1>1, <1>2, <1>3 DEF ReadStillTrue, NoSync

\* The reading of a sync holds in every reachable state.
LEMMA ReadingInvariant == Spec => []ReadStillTrue
<1>1. Init => ReadStillTrue
  BY DEF Init, ReadStillTrue, NoSync
<1>2. TypeOK /\ ReadStillTrue /\ [Next]_vars => ReadStillTrue'
  <2>1. TypeOK /\ ReadStillTrue /\ UNCHANGED vars => ReadStillTrue'
    BY DEF ReadStillTrue, vars
  <2> QED
    BY <2>1, SyncReads, OthersRead DEF Next
<1> QED
  BY <1>1, <1>2, TypeCorrect, PTL DEF Spec

\* One step of a sync, beside a reading that is true.
LEMMA SyncStepRespects ==
  ASSUME TypeOK, ReadStillTrue, SyncStep, NEW m \in Ids \ stirred, routes[m] # NoRoute
  PROVE  /\ ~routes[m].auto => routes'[m] # NoRoute /\ routes'[m].targets = routes[m].targets
         /\ routes'[m] # NoRoute => routes'[m].enabled = routes[m].enabled
<1>r. routes[m] \in RouteRow
  BY DEF TypeOK
<1>1. ASSUME NEW n \in Ids, SyncWrite(n) PROVE routes'[m] \in RouteRow
             /\ (~routes[m].auto => routes'[m].targets = routes[m].targets)
             /\ routes'[m].enabled = routes[m].enabled
  <2>1. CASE n # m
    BY <1>1, <1>r, <2>1 DEF SyncWrite, TypeOK
  <2>2. CASE n = m
    <3>1. m \in sync.todo /\ sync.at = "apply" /\ m \in ToWrite(sync)
      BY <1>1, <2>2 DEF SyncWrite
    <3>2. sync.seen[m] = routes[m]
      BY <3>1 DEF ReadStillTrue
    <3>3. routes'[m] = AutoRoute(routes[m], sync.wanted[m])
      BY <1>1, <2>2, <3>2 DEF SyncWrite, TypeOK
    <3>4. routes'[m].targets = sync.wanted[m] /\ routes'[m].enabled = routes[m].enabled
      BY <1>r, <3>3 DEF AutoRoute, RouteRow
    <3>5. ~routes[m].auto => routes[m].targets = sync.wanted[m]
      BY <1>r, <3>1, <3>2 DEF ToWrite, Same, RouteRow
    <3>6. routes'[m] \in RouteRow
      BY <3>2, <3>3, AutoRouteRow DEF TypeOK
    <3> QED
      BY <3>4, <3>5, <3>6
  <2> QED
    BY <2>1, <2>2
<1>2. ASSUME NEW n \in Ids, SyncRemove(n)
      PROVE  IF n = m THEN routes'[m] = NoRoute /\ routes[m].auto ELSE routes'[m] = routes[m]
  <2>1. n = m => sync.seen[m] = routes[m]
    BY <1>2 DEF SyncRemove, ReadStillTrue
  <2> QED
    BY <1>2, <2>1 DEF SyncRemove, ToRemove, TypeOK
<1>3. ASSUME \/ SyncProviders \/ SyncRoutes \/ SyncConfirm
             \/ \E p \in Providers : SyncModels(p)
             \/ \E n \in Ids : SyncFails(n)
      PROVE  routes' = routes
  BY <1>3 DEF SyncProviders, SyncRoutes, SyncConfirm, SyncModels, SyncFails, database
<1>4. NoRoute \notin RouteRow
  BY CatalogueAssumption
<1> QED
  BY <1>1, <1>2, <1>3, <1>4, <1>r DEF SyncStep

\* A sync changes no target of a route the operator owns, and deletes none,
\* unless the operator wrote it while that sync was under way (syncRoutes of
\* discovery.ts).
THEOREM OwnersRespected == Spec => SyncRespectsOwners
<1>1. TypeOK /\ ReadStillTrue /\ [Next]_vars =>
        [SyncStep => \A m \in Ids \ stirred :
           routes[m] # NoRoute /\ ~routes[m].auto =>
             routes'[m] # NoRoute /\ routes'[m].targets = routes[m].targets]_vars
  BY SyncStepRespects
<1> QED
  BY <1>1, TypeCorrect, ReadingInvariant, PTL DEF Spec, SyncRespectsOwners

\* A sync never flips the switch of a route, unless somebody wrote that route
\* while it was under way (createRoute as syncRoutes calls it).
THEOREM SwitchKept == Spec => SyncKeepsTheSwitch
<1>1. TypeOK /\ ReadStillTrue /\ [Next]_vars =>
        [SyncStep => \A m \in Ids \ stirred :
           routes[m] # NoRoute /\ routes'[m] # NoRoute =>
             routes'[m].enabled = routes[m].enabled]_vars
  BY SyncStepRespects
<1> QED
  BY <1>1, TypeCorrect, ReadingInvariant, PTL DEF Spec, SyncKeepsTheSwitch

----------------------------------------------------------------------------
(* Why models leave.  A worker deletes rows only for a list it could read,   *)
(* and never one that list yields.                                           *)

\* The models a list stands for.
Yielded(k) == {row[1] : row \in Mapped(k.conf, k.heard)}

\* What a worker may have left to delete.
DropsForAReason(k) ==
  k.at = "saving" => k.heard \notin NoList /\ k.drop \cap Yielded(k) = {}

\* So of every worker.
WorkersDropForAReason == \A w \in Passes, p \in Providers : DropsForAReason(worker[w][p])

\* A worker at rest, or one that is only asked or answered, deletes nothing.
LEMMA IdleDrops ==
  /\ DropsForAReason(Resting)
  /\ \A conf \in Configurations : DropsForAReason(Asked(conf))
  /\ \A k \in Worker : \A answer : DropsForAReason(Heard(k, answer))
BY DEF DropsForAReason, Resting, Asked, Heard, Worker

\* Comparing an answer with the rows leaves only rows the list lacks to delete.
LEMMA WithinDrops ==
  ASSUME NEW p \in Providers, NEW k \in Worker
  PROVE  DropsForAReason(Within(p, k))
<1> DEFINE rows == Mapped(k.conf, k.heard)
           plan == [k EXCEPT !.put = rows, !.drop = Stored(p) \ {row[1] : row \in rows}]
<1>1. CASE k.heard \in NoList
  BY <1>1, IdleDrops DEF Within
<1>2. CASE k.heard \notin NoList
  <2>1. /\ plan.conf = k.conf /\ plan.heard = k.heard
        /\ plan.drop = Stored(p) \ {row[1] : row \in rows}
    BY DEF Worker
  <2>2. [plan EXCEPT !.at = "saving"].conf = k.conf /\ [plan EXCEPT !.at = "saving"].heard = k.heard
        /\ [plan EXCEPT !.at = "saving"].drop = plan.drop
    BY <2>1 DEF Worker
  <2>3. Within(p, k) = Saving(plan)
    BY <1>2 DEF Within
  <2>4. DropsForAReason([plan EXCEPT !.at = "saving"])
    BY <1>2, <2>1, <2>2 DEF DropsForAReason, Yielded
  <2> QED
    BY <2>3, <2>4, IdleDrops DEF Saving
<1> QED
  BY <1>1, <1>2

\* Making an upsert or a delete leaves no more to delete than before.
LEMMA SavingDrops ==
  ASSUME NEW k \in Worker, k.at = "saving", DropsForAReason(k), NEW row, NEW u
  PROVE  DropsForAReason(Written(k, row)) /\ DropsForAReason(Deleted(k, u))
<1>1. ASSUME NEW j, j = [k EXCEPT !.put = @ \ {row}] \/ j = [k EXCEPT !.drop = @ \ {u}]
      PROVE  DropsForAReason(Saving(j))
  <2>1. j \in Worker /\ j.conf = k.conf /\ j.heard = k.heard /\ j.drop \subseteq k.drop
    BY <1>1 DEF Worker
  <2> DEFINE next == [j EXCEPT !.at = "saving"]
  <2>2. next.conf = k.conf /\ next.heard = k.heard /\ next.drop \subseteq k.drop
    BY <2>1 DEF Worker
  <2>3. DropsForAReason(next)
    BY <2>2 DEF DropsForAReason, Yielded
  <2> QED
    BY <2>3, IdleDrops DEF Saving
<1> QED
  BY <1>1 DEF Written, Deleted

\* Every step of a pass keeps it so, and nothing else touches a worker but a
\* crash, which puts all of them to rest.
LEMMA StepDrops ==
  TypeOK /\ WorkersDropForAReason /\ [Next]_vars => WorkersDropForAReason'
<1> SUFFICES ASSUME TypeOK, WorkersDropForAReason, [Next]_vars PROVE WorkersDropForAReason'
  OBVIOUS
<1> SUFFICES ASSUME NEW v \in Passes, NEW q \in Providers PROVE DropsForAReason(worker'[v][q])
  BY DEF WorkersDropForAReason
<1>k. worker[v][q] \in Worker /\ DropsForAReason(worker[v][q])
  BY DEF TypeOK, WorkersDropForAReason
<1>1. ASSUME NEW w \in Passes, StartPass(w) PROVE DropsForAReason(worker'[v][q])
  BY <1>1, <1>k, IdleDrops DEF StartPass, TypeOK
<1>2. ASSUME NEW w \in Passes, NEW p \in Providers, StartOne(w, p) PROVE DropsForAReason(worker'[v][q])
  BY <1>2, <1>k, IdleDrops DEF StartOne, TypeOK
<1>3. ASSUME NEW w \in Passes, NEW p \in Providers, Answer(w, p) PROVE DropsForAReason(worker'[v][q])
  BY <1>3, <1>k, IdleDrops DEF Answer, TypeOK
<1>4. ASSUME NEW w \in Passes, NEW p \in Providers, Compare(w, p) PROVE DropsForAReason(worker'[v][q])
  <2>1. worker' = [worker EXCEPT ![w][p] = Within(p, worker[w][p])]
    BY <1>4 DEF Compare
  <2> QED
    BY <2>1, <1>k, WithinDrops DEF TypeOK
<1>5. ASSUME NEW w \in Passes, NEW p \in Providers, Put(w, p) PROVE DropsForAReason(worker'[v][q])
  <2>1. PICK row \in worker[w][p].put :
          worker' = [worker EXCEPT ![w][p] = Written(worker[w][p], row)]
    BY <1>5 DEF Put
  <2>2. worker[w][p] \in Worker /\ worker[w][p].at = "saving" /\ DropsForAReason(worker[w][p])
    BY <1>5 DEF Put, TypeOK, WorkersDropForAReason
  <2> QED
    BY <2>1, <2>2, <1>k, SavingDrops DEF TypeOK
<1>6. ASSUME NEW w \in Passes, NEW p \in Providers, PutFails(w, p) PROVE DropsForAReason(worker'[v][q])
  BY <1>6, <1>k, IdleDrops DEF PutFails, TypeOK
<1>7. ASSUME NEW w \in Passes, NEW p \in Providers, Drop(w, p) PROVE DropsForAReason(worker'[v][q])
  <2>1. PICK u \in worker[w][p].drop :
          worker' = [worker EXCEPT ![w][p] = Deleted(worker[w][p], u)]
    BY <1>7 DEF Drop
  <2>2. worker[w][p] \in Worker /\ worker[w][p].at = "saving" /\ DropsForAReason(worker[w][p])
    BY <1>7 DEF Drop, TypeOK, WorkersDropForAReason
  <2> QED
    BY <2>1, <2>2, <1>k, SavingDrops DEF TypeOK
<1>8. ASSUME SyncStep \/ UNCHANGED vars \/ (Operate /\ ~Crash) PROVE worker' = worker
  BY <1>8 DEF SyncStep, SyncProviders, SyncRoutes, SyncConfirm, SyncModels, SyncWrite, SyncFails,
       SyncRemove, Operate, CreateProvider, UpdateProvider, DeleteProvider, Relist,
       CreateRoute, UpdateRoute, DeleteRoute, vars
<1>9. CASE Crash
  BY <1>9, IdleDrops DEF Crash
<1> QED
  BY <1>1, <1>2, <1>3, <1>4, <1>5, <1>6, <1>7, <1>8, <1>9, <1>k DEF Next, Discover, PassStep

\* What the workers have left to delete has a reason in every reachable state.
LEMMA DropInvariant == Spec => []WorkersDropForAReason
<1>1. Init => WorkersDropForAReason
  BY IdleDrops DEF Init, WorkersDropForAReason
<1> QED
  BY <1>1, StepDrops, TypeCorrect, PTL DEF Spec

\* A model leaves the catalogue only with its provider, or for a listing that
\* could be read and no longer yields it under the filing rules the pass began
\* with: an unreadable or failed listing costs nothing (discoverProvider and
\* replaceProviderModels).
THEOREM ModelsStay == Spec => ModelsLeaveForAReason
<1> DEFINE Reason(p, u) ==
      \/ status'[p] = "gone"
      \/ \E w \in Passes :
           LET k == worker[w][p]
           IN  /\ k.at = "saving" /\ k.heard \notin NoList
               /\ u \notin {row[1] : row \in Mapped(k.conf, k.heard)}
<1>1. ASSUME TypeOK, WorkersDropForAReason, [Next]_vars,
             NEW q \in Providers, NEW v \in Ids, models[q][v] # NoModel, models'[q][v] = NoModel
      PROVE  Reason(q, v)
  <2>1. ASSUME NEW w \in Passes, NEW p \in Providers, Put(w, p) PROVE Reason(q, v)
    <3>1. PICK row \in worker[w][p].put : models' = [models EXCEPT ![p][row[1]] = row[2]]
      BY <2>1 DEF Put
    <3>2. row \in Ids \X Ids
      BY <1>1 DEF TypeOK, Worker
    <3>3. models'[q][v] = models[q][v] \/ models'[q][v] = row[2]
      BY <1>1, <3>1, <3>2 DEF TypeOK
    <3> QED
      BY <1>1, <3>2, <3>3, CatalogueAssumption
  <2>2. ASSUME NEW w \in Passes, NEW p \in Providers, Drop(w, p) PROVE Reason(q, v)
    <3>1. PICK u \in worker[w][p].drop : models' = [models EXCEPT ![p][u] = NoModel]
      BY <2>2 DEF Drop
    <3>2. u = v /\ p = q
      BY <1>1, <3>1 DEF TypeOK
    <3>3. DropsForAReason(worker[w][q])
      BY <1>1 DEF WorkersDropForAReason
    <3> QED
      BY <2>2, <3>1, <3>2, <3>3 DEF Drop, DropsForAReason, Yielded
  <2>3. ASSUME NEW p \in Providers, DeleteProvider(p) PROVE Reason(q, v)
    BY <1>1, <2>3 DEF DeleteProvider, TypeOK
  <2>4. ASSUME \/ SyncStep \/ UNCHANGED vars \/ Crash
               \/ \E w \in Passes : StartPass(w)
               \/ \E w \in Passes, p \in Providers :
                    StartOne(w, p) \/ Answer(w, p) \/ Compare(w, p) \/ PutFails(w, p)
               \/ \E p \in Providers : CreateProvider(p) \/ UpdateProvider(p) \/ Relist(p)
               \/ \E m \in Ids : CreateRoute(m) \/ UpdateRoute(m) \/ DeleteRoute(m)
        PROVE  models' = models
    BY <2>4 DEF SyncStep, SyncProviders, SyncRoutes, SyncConfirm, SyncModels, SyncWrite, SyncFails,
         SyncRemove, StartPass, StartOne, Answer, Compare, PutFails, CreateProvider, UpdateProvider,
         Relist, CreateRoute, UpdateRoute, DeleteRoute, Crash, vars, database
  <2> HIDE DEF Reason
  <2> QED
    BY <1>1, <2>1, <2>2, <2>3, <2>4 DEF Next, Discover, PassStep, Operate
<1>2. TypeOK /\ WorkersDropForAReason /\ [Next]_vars =>
        [\A p \in Providers, u \in Ids :
           models[p][u] # NoModel /\ models'[p][u] = NoModel => Reason(p, u)]_vars
  <2> HIDE DEF Reason
  <2> QED
    BY <1>1
<1> QED
  BY <1>2, TypeCorrect, DropInvariant, PTL DEF Spec, ModelsLeaveForAReason

----------------------------------------------------------------------------
(* Reconciling.  As long as nobody else changes the catalogue or a route, the *)
(* targets a sync has gathered are the ones the catalogue asks for, of the     *)
(* providers read so far; and every route it has nothing left to do about is  *)
(* what it should be.                                                         *)

\* One route says what the catalogue says.
Settled(m) ==
  IF Desired(m) = {} THEN routes[m] = NoRoute \/ ~routes[m].auto
  ELSE routes[m] # NoRoute /\ (routes[m].auto <=> Same(routes[m], Desired(m)))

\* What a sync wants is all that the tables call for, but for the providers it has yet to read.
Gathered(s) == \A m \in Ids : s.wanted[m] = {t \in Desired(m) : t.provider \notin s.serving}

SyncKnows ==
  /\ sync.at \in {"apply", "confirm"} => sync.serving = {}
  /\ quiet /\ sync.at # "rest" =>
       Gathered(sync) /\ \A p \in sync.serving : status[p] = "on"
  /\ quiet /\ stirred = {} /\ sync.at \in {"apply", "confirm"} =>
       \A m \in Ids \ sync.todo : Settled(m)
  /\ quiet /\ stirred = {} /\ sync.at = "confirm" => \A m \in sync.written : routes[m] # NoRoute

\* All of the catalogue is gathered once every provider has been read.
LEMMA GatheredAll ==
  ASSUME NEW s \in Sync, Gathered(s), s.serving = {}, NEW m \in Ids
  PROVE  s.wanted[m] = Desired(m)
BY DEF Gathered

\* What a sync plans to do is all there is to do.
LEMMA PlannedSettles ==
  ASSUME TypeOK, NEW s \in Sync, s.serving = {}, Gathered(s), s.seen = routes,
         NEW m \in Ids \ (ToWrite(s) \cup ToRemove(s))
  PROVE  Settled(m)
<1>1. s.wanted[m] = Desired(m)
  BY GatheredAll
<1>2. routes[m] = NoRoute \/ routes[m] \in RouteRow
  BY DEF TypeOK
<1> QED
  BY <1>1, <1>2 DEF Settled, ToWrite, ToRemove, RouteRow, Same

\* The plan itself: to rest with everything settled, or to the writes left.
LEMMA PlannedKnows ==
  ASSUME TypeOK, NEW s \in Sync, s.serving = {}
  PROVE  LET n == Planned(s)
         IN  /\ \/ n = NoSync
                \/ n.at = "apply" /\ n.serving = {} /\ n.wanted = s.wanted /\ n.written = {}
             /\ Gathered(s) /\ s.seen = routes =>
                  \A m \in Ids \ n.todo : Settled(m)
<1> DEFINE todo == ToWrite(s) \cup ToRemove(s)
           plan == [s EXCEPT !.todo = todo]
<1>1. todo \in SUBSET Ids
  BY DEF ToWrite, ToRemove
<1> HIDE DEF todo
<1>2. plan \in Sync /\ plan.todo = todo /\ plan.serving = {} /\ plan.wanted = s.wanted
  BY <1>1 DEF Sync
<1>3. Planned(s) = Applying(plan)
  BY DEF Planned, todo
<1> HIDE DEF plan
<1>4. \/ Planned(s) = NoSync /\ todo = {}
      \/ /\ Planned(s).at = "apply" /\ Planned(s).serving = {} /\ Planned(s).wanted = s.wanted
         /\ Planned(s).written = {} /\ Planned(s).todo = todo
  BY <1>2, <1>3 DEF Applying, Sync
<1>5. NoSync.todo = {}
  BY DEF NoSync
<1> QED
  BY <1>4, <1>5, PlannedSettles DEF todo

\* Reading nothing but the tables changes none of them.
LEMMA SettledKept ==
  UNCHANGED <<status, models, routes>> =>
    \A m \in Ids : Desired(m)' = Desired(m) /\ (Settled(m)' <=> Settled(m))
BY DEF Desired, Settled

\* What a sync ends with, and what it knows after each of its steps.
LEMMA SyncLearns ==
  ASSUME TypeOK, ReadStillTrue, SyncKnows, SyncStep
  PROVE  /\ SyncKnows'
         /\ sync.at # "rest" /\ sync' = NoSync /\ quiet /\ stirred = {} => Reconciled'
<1> DEFINE End == sync' = NoSync /\ quiet /\ stirred = {} => \A m \in Ids : Settled(m)'
<1>r. (\A m \in Ids : Settled(m)') => Reconciled'
  BY DEF Settled, Reconciled
<1>s. sync \in Sync
  BY DEF TypeOK
<1>n. NoSync.at = "rest" /\ NoSync.serving = {} /\ NoSync.todo = {}
  BY DEF NoSync
<1>0. ASSUME sync' = NoSync PROVE SyncKnows'
  BY <1>0, <1>n DEF SyncKnows
<1>1. CASE SyncProviders
  <2>1. /\ sync'.at = "routes" /\ sync'.serving = {p \in Providers : status[p] = "on"}
        /\ \A m \in Ids : sync'.wanted[m] = {}
    BY <1>1 DEF SyncProviders, NoSync
  <2>2. status' = status /\ models' = models /\ sync.at = "rest"
    BY <1>1 DEF SyncProviders, database
  <2>3. \A m \in Ids : {t \in Desired(m) : t.provider \notin sync'.serving} = {}
    BY <2>1 DEF Desired, Target
  <2>4. Gathered(sync)'
    BY <2>1, <2>2, <2>3 DEF Gathered, Desired
  <2> QED
    BY <2>1, <2>2, <2>4 DEF SyncKnows
<1>2. CASE SyncRoutes
  <2> DEFINE read == [sync EXCEPT !.seen = routes]
  <2>1. /\ read \in Sync /\ read.seen = routes /\ read.serving = sync.serving
        /\ read.wanted = sync.wanted
    BY <1>s DEF TypeOK, Sync
  <2>2. UNCHANGED <<status, models, routes, quiet>> /\ stirred' = {} /\ sync.at = "routes"
    BY <1>2 DEF SyncRoutes, database
  <2>3. quiet => Gathered(read) /\ \A p \in read.serving : status[p] = "on"
    BY <2>1, <2>2 DEF SyncKnows, Gathered
  <2>4. CASE sync.serving = {}
    <3>1. sync' = Planned(read)
      BY <1>2, <2>4 DEF SyncRoutes
    <3> HIDE DEF read
    <3>2. /\ \/ sync' = NoSync
             \/ sync'.at = "apply" /\ sync'.serving = {} /\ sync'.wanted = read.wanted
          /\ quiet => \A m \in Ids \ sync'.todo : Settled(m)
      BY <2>1, <2>3, <2>4, <3>1, PlannedKnows
    <3>3. quiet => \A m \in Ids \ sync'.todo : Settled(m)'
      BY <2>2, <3>2, SettledKept
    <3>4. sync' # NoSync /\ quiet => Gathered(sync)'
      BY <2>1, <2>2, <2>3, <2>4, <3>2, SettledKept DEF Gathered
    <3> QED
      BY <1>0, <1>n, <1>r, <2>2, <3>2, <3>3, <3>4 DEF SyncKnows
  <2>5. CASE sync.serving # {}
    <3>1. sync'.at = "models" /\ sync'.serving = sync.serving /\ sync'.wanted = sync.wanted
      BY <1>2, <1>s, <2>5 DEF SyncRoutes, Sync
    <3>2. quiet => Gathered(sync)'
      BY <2>1, <2>2, <2>3, <3>1, SettledKept DEF Gathered
    <3> QED
      BY <1>n, <2>1, <2>2, <2>3, <3>1, <3>2 DEF SyncKnows
  <2> QED
    BY <2>4, <2>5
<1>3. ASSUME NEW p \in Providers, SyncModels(p) PROVE SyncKnows' /\ End
  <2> DEFINE more == [m \in Ids |->
               sync.wanted[m] \cup {Plain(p, u) : u \in {v \in Ids : models[p][v] = m}}]
             read == [sync EXCEPT !.serving = @ \ {p}, !.wanted = more]
  <2>1. \A u \in Ids : Plain(p, u) \in Target
    BY DEF Plain, Target
  <2>2. more \in [Ids -> SUBSET Target]
    BY <1>s, <2>1 DEF Sync
  <2>3. /\ read \in Sync /\ read.seen = sync.seen /\ read.at = sync.at
        /\ read.serving = sync.serving \ {p} /\ read.wanted = more
    BY <1>s, <2>2 DEF Sync
  <2>4. /\ UNCHANGED <<status, models, routes, quiet, stirred>>
        /\ sync.at = "models" /\ p \in sync.serving
    BY <1>3 DEF SyncModels, database
  <2>5. sync' = IF read.serving = {} THEN Planned(read) ELSE read
    BY <1>3 DEF SyncModels
  <2>6. ASSUME quiet, NEW m \in Ids
        PROVE  more[m] = {t \in Desired(m) : t.provider \notin sync.serving \ {p}}
    <3>1. status[p] = "on" /\ sync.wanted[m] = {t \in Desired(m) : t.provider \notin sync.serving}
      BY <2>4, <2>6 DEF SyncKnows, Gathered
    <3>2. ASSUME NEW u \in Ids, models[p][u] = m
          PROVE  Plain(p, u) \in Desired(m) /\ Plain(p, u).provider \notin sync.serving \ {p}
      BY <2>1, <3>1, <3>2 DEF Plain, Desired
    <3>3. ASSUME NEW t \in Desired(m), t.provider = p
          PROVE  t.upstream \in Ids /\ models[p][t.upstream] = m /\ t = Plain(p, t.upstream)
      BY <3>3 DEF Plain, Desired, Target
    <3> QED
      BY <3>1, <3>2, <3>3
  <2> HIDE DEF more, read
  <2>7. quiet => Gathered(read) /\ \A q \in read.serving : status[q] = "on"
    BY <2>3, <2>4, <2>6 DEF Gathered, SyncKnows
  <2>8. stirred = {} => read.seen = routes
    BY <1>s, <2>3, <2>4 DEF ReadStillTrue, Sync, TypeOK
  <2>9. CASE read.serving = {}
    <3>1. /\ \/ sync' = NoSync
             \/ sync'.at = "apply" /\ sync'.serving = {} /\ sync'.wanted = read.wanted
          /\ quiet /\ stirred = {} => \A m \in Ids \ sync'.todo : Settled(m)
      BY <2>3, <2>5, <2>7, <2>8, <2>9, PlannedKnows
    <3>2. quiet /\ stirred = {} => \A m \in Ids \ sync'.todo : Settled(m)'
      BY <2>4, <3>1, SettledKept
    <3>3. sync' # NoSync /\ quiet => Gathered(sync)'
      BY <2>3, <2>4, <2>7, <2>9, <3>1, SettledKept DEF Gathered
    <3> QED
      BY <1>0, <1>n, <2>4, <3>1, <3>2, <3>3 DEF SyncKnows
  <2>10. CASE read.serving # {}
    <3>1. sync' = read
      BY <2>5, <2>10
    <3>2. quiet => Gathered(sync)'
      BY <2>4, <2>7, <3>1, SettledKept DEF Gathered
    <3> QED
      BY <1>n, <2>3, <2>4, <2>7, <3>1, <3>2 DEF SyncKnows
  <2> QED
    BY <2>9, <2>10
<1>4. ASSUME NEW m \in Ids, SyncWrite(m) PROVE SyncKnows' /\ End
  <2>1. /\ sync'.at = "confirm" /\ sync'.serving = sync.serving /\ sync'.wanted = sync.wanted
        /\ sync'.todo = sync.todo \ {m} /\ sync'.written = {m}
    BY <1>4, <1>s DEF SyncWrite, Sync
  <2>2. /\ UNCHANGED <<status, models, quiet, stirred>>
        /\ sync.at = "apply" /\ m \in ToWrite(sync)
    BY <1>4 DEF SyncWrite
  <2>3. /\ \A i \in Ids : i # m => routes'[i] = routes[i]
        /\ routes'[m] = AutoRoute(sync.seen[m], sync.wanted[m])
    BY <1>4 DEF SyncWrite, TypeOK
  <2>4. routes'[m] # NoRoute
    BY <1>s, <2>3, AutoRouteRow, CatalogueAssumption
  <2>5. \A i \in Ids : Desired(i)' = Desired(i)
    BY <2>2 DEF Desired
  <2>6. quiet => Gathered(sync)'
    BY <2>1, <2>2, <2>5 DEF Gathered, SyncKnows
  <2>7. quiet => Settled(m)'
    <3>1. quiet => sync.wanted[m] = Desired(m)
      BY <1>s, <2>2, GatheredAll DEF SyncKnows
    <3>2. sync.wanted[m] # {}
      BY <2>2 DEF ToWrite
    <3>3. routes'[m].auto /\ routes'[m].targets = sync.wanted[m]
      BY <2>3 DEF AutoRoute
    <3> QED
      BY <2>4, <2>5, <3>1, <3>2, <3>3 DEF Settled, Same
  <2>8. ASSUME NEW i \in Ids, i # m PROVE Settled(i)' <=> Settled(i)
    BY <2>3, <2>5, <2>8 DEF Settled
  <2>9. quiet /\ stirred = {} => \A i \in Ids \ sync'.todo : Settled(i)'
    BY <2>1, <2>2, <2>7, <2>8 DEF SyncKnows
  <2> QED
    BY <1>n, <2>1, <2>2, <2>4, <2>6, <2>9 DEF SyncKnows
<1>5. CASE SyncConfirm
  <2>1. UNCHANGED <<status, models, routes, quiet, stirred>> /\ sync.at = "confirm"
    BY <1>5 DEF SyncConfirm, database
  <2>2. CASE \E m \in sync.written : routes[m] = NoRoute
    BY <1>0, <1>5, <2>1, <2>2 DEF SyncConfirm, SyncKnows
  <2>3. CASE \A m \in sync.written : routes[m] # NoRoute
    <3>1. sync' = Applying(sync)
      BY <1>5, <2>3 DEF SyncConfirm
    <3>2. \/ sync' = NoSync /\ sync.todo = {}
          \/ /\ sync'.at = "apply" /\ sync'.serving = sync.serving
             /\ sync'.wanted = sync.wanted /\ sync'.todo = sync.todo
      BY <1>s, <3>1 DEF Applying, Sync
    <3>3. quiet /\ stirred = {} => \A m \in Ids \ sync.todo : Settled(m)'
      BY <2>1, SettledKept DEF SyncKnows
    <3>4. sync' # NoSync /\ quiet => Gathered(sync)'
      BY <2>1, <3>2, SettledKept DEF SyncKnows, Gathered
    <3>5. sync.serving = {}
      BY <2>1 DEF SyncKnows
    <3>6. sync' = NoSync /\ quiet /\ stirred = {} => Reconciled'
      BY <1>n, <1>r, <3>2, <3>3
    <3>7. SyncKnows'
      BY <1>0, <1>n, <2>1, <3>2, <3>3, <3>4, <3>5 DEF SyncKnows
    <3> QED
      BY <3>6, <3>7
  <2> QED
    BY <2>2, <2>3
<1>6. ASSUME NEW m \in Ids, SyncFails(m) PROVE SyncKnows' /\ End
  <2>1. sync' = NoSync /\ sync.at = "apply"
    BY <1>6 DEF SyncFails
  <2>2. PICK t \in sync.wanted[m] : ~Exists(t.provider)
    BY <1>6 DEF SyncFails, Accepts
  <2>3. ~quiet
    <3>1. quiet => t \in Desired(m)
      BY <1>s, <2>1, <2>2, GatheredAll DEF SyncKnows
    <3> QED
      BY <2>2, <3>1 DEF Desired, Exists
  <2> QED
    BY <1>0, <2>1, <2>3
<1>7. ASSUME NEW m \in Ids, SyncRemove(m) PROVE SyncKnows' /\ End
  <2> DEFINE left == [sync EXCEPT !.todo = @ \ {m}]
  <2>1. /\ UNCHANGED <<status, models, quiet, stirred>>
        /\ sync.at = "apply" /\ m \in ToRemove(sync)
    BY <1>7 DEF SyncRemove
  <2>2. \/ sync' = NoSync /\ sync.todo \ {m} = {}
        \/ /\ sync'.at = "apply" /\ sync'.serving = sync.serving
           /\ sync'.wanted = sync.wanted /\ sync'.todo = sync.todo \ {m}
    BY <1>7, <1>s DEF SyncRemove, Applying, Sync
  <2>3. routes'[m] = NoRoute /\ \A i \in Ids : i # m => routes'[i] = routes[i]
    BY <1>7 DEF SyncRemove, TypeOK
  <2>5. \A i \in Ids : Desired(i)' = Desired(i)
    BY <2>1 DEF Desired
  <2>6. quiet => Settled(m)'
    <3>1. quiet => sync.wanted[m] = Desired(m)
      BY <1>s, <2>1, GatheredAll DEF SyncKnows
    <3> QED
      BY <2>1, <2>3, <2>5, <3>1 DEF Settled, ToRemove
  <2>7. ASSUME NEW i \in Ids, i # m PROVE Settled(i)' <=> Settled(i)
    BY <2>3, <2>5, <2>7 DEF Settled
  <2>8. quiet /\ stirred = {} => \A i \in Ids \ (sync.todo \ {m}) : Settled(i)'
    BY <2>1, <2>6, <2>7 DEF SyncKnows
  <2>9. sync' # NoSync /\ quiet => Gathered(sync)'
    BY <2>1, <2>2, <2>5 DEF SyncKnows, Gathered
  <2>10. sync.serving = {}
    BY <2>1 DEF SyncKnows
  <2> QED
    BY <1>0, <1>n, <2>1, <2>2, <2>8, <2>9, <2>10 DEF SyncKnows
<1> QED
  BY <1>1, <1>2, <1>3, <1>4, <1>5, <1>6, <1>7, <1>r DEF SyncStep

\* What others do to the catalogue or the providers is noticed, and so is what
\* they do to a route.
LEMMA OthersKnow ==
  TypeOK /\ SyncKnows /\ (Discover \/ Operate) /\ Noticed => SyncKnows'
<1> SUFFICES ASSUME TypeOK, SyncKnows, Discover \/ Operate, Noticed PROVE SyncKnows'
  OBVIOUS
<1>1. sync' = sync \/ sync' = NoSync
  BY DEF Discover, PassStep, Operate, StartPass, StartOne, Answer, Compare, Put, PutFails, Drop,
         CreateProvider, UpdateProvider, DeleteProvider, Relist,
         CreateRoute, UpdateRoute, DeleteRoute, Crash
<1>2. quiet' => quiet /\ UNCHANGED <<models, status>>
  BY DEF Noticed
<1>3. stirred' = {} => stirred = {} /\ \A m \in Ids : routes'[m] = routes[m]
  BY DEF Noticed
<1>4. quiet' => \A m \in Ids : Desired(m)' = Desired(m)
  BY <1>2 DEF Desired
<1>5. quiet' /\ stirred' = {} => \A m \in Ids : Settled(m)' <=> Settled(m)
  BY <1>3, <1>4 DEF Settled
<1>6. ASSUME sync' = sync PROVE SyncKnows'
  <2>1. quiet' => (Gathered(sync)' <=> Gathered(sync))
    BY <1>4, <1>6 DEF Gathered
  <2>2. sync.written \subseteq Ids
    BY DEF TypeOK, Sync
  <2> QED
    BY <1>2, <1>3, <1>5, <1>6, <2>1, <2>2 DEF SyncKnows
<1> QED
  BY <1>1, <1>6 DEF SyncKnows, NoSync

\* What a sync knows holds in every reachable state.
LEMMA KnowledgeInvariant == Spec => []SyncKnows
<1>1. Init => SyncKnows
  BY DEF Init, SyncKnows, NoSync
<1>2. TypeOK /\ ReadStillTrue /\ SyncKnows /\ [Next]_vars => SyncKnows'
  <2>1. TypeOK /\ SyncKnows /\ UNCHANGED vars => SyncKnows'
    BY SettledKept DEF SyncKnows, Gathered, vars
  <2> QED
    BY <2>1, SyncLearns, OthersKnow DEF Next
<1> QED
  BY <1>1, <1>2, TypeCorrect, ReadingInvariant, PTL DEF Spec

\* A sync that ran to its end beside no other change leaves every route it
\* owns with exactly the targets the catalogue asks for, and none too many,
\* whatever the catalogue and the routes were when it began (syncRoutes).
THEOREM SyncIsComplete == Spec => SyncReconciles
<1>1. TypeOK /\ ReadStillTrue /\ SyncKnows /\ [Next]_vars =>
        [sync.at # "rest" /\ SyncStep /\ sync' = NoSync /\ quiet /\ stirred = {} => Reconciled']_vars
  BY SyncLearns
<1> QED
  BY <1>1, TypeCorrect, ReadingInvariant, KnowledgeInvariant, PTL DEF Spec, SyncReconciles

============================================================================
