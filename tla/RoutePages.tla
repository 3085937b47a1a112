----------------------------- MODULE RoutePages -----------------------------
(***************************************************************************)
(* The dashboard's routes page (src/web/src/views/Routes.tsx) in the hands *)
(* of several operators, over one public model: what a page has cached,    *)
(* the form it fills from that, the toggle that sends it back, and the     *)
(* admin handlers that check and write (routeCreate, routeUpdate and       *)
(* routeDelete of src/src/http/admin/handlers.ts), while providers change. *)
(***************************************************************************)
EXTENDS RouteTables

CONSTANTS
  RouteTabs,      \* open dashboards
  Ranks,      \* the priorities the providers start with
  Founding,   \* target sets the route may start with
  MaxRows,    \* bound: rows of a form
  MaxChanges  \* bound: changes to the form, the providers and the route

ASSUME PagesAssumption ==
  /\ Ranks \in [Providers -> Priorities]
  /\ \A list \in Founding : FitsKeys(list)
  /\ MaxRows \in Nat /\ MaxChanges \in Nat

VARIABLES
  providers,  \* the providers table
  route,      \* the routes row and its targets; or none
  routeTab,       \* what each page has cached, its form and the request it waits for
  changes     \* changes so far

pagesVars == <<providers, route, routeTab, changes>>

NoRoute == [there |-> FALSE, strategy |-> "inherit", enabled |-> FALSE, targets |-> {}]

\* Column by column, what a write sets; "keep" is a column left out of a patch.
Input(strategy, enabled, list) == [strategy |-> strategy, enabled |-> enabled, list |-> list]

NoForm == [open |-> FALSE, existing |-> FALSE, strategy |-> "inherit", enabled |-> TRUE, rows |-> <<>>]

NoRequest == [kind |-> "none", checked |-> FALSE, input |-> Input("keep", TRUE, <<>>),
              shown |-> NoForm, knew |-> {}]

\* A page that has loaded nothing yet.
Blank == [loaded |-> FALSE, known |-> {}, route |-> NoRoute, form |-> NoForm, request |-> NoRequest]

PagesInit ==
  /\ providers = [p \in Providers |-> [there |-> TRUE, enabled |-> TRUE, priority |-> Ranks[p]]]
  /\ route \in {NoRoute} \cup {[NoRoute EXCEPT !.there = TRUE, !.enabled = TRUE, !.targets = list] :
                                list \in Founding}
  /\ routeTab = [g \in RouteTabs |-> Blank]
  /\ changes = 0

Change == changes < MaxChanges /\ changes' = changes + 1

ExistingProviders == {p \in Providers : providers[p].there}

----------------------------------------------------------------------------
(* The page *)

\* useAdminConfig: the first load and every refresh.  One that ends while a
\* request is under way is as one that ends after it, which holds its own input.
LoadRoutes(g) ==
  /\ routeTab[g].request = NoRequest
  /\ routeTab' = [routeTab EXCEPT ![g].loaded = TRUE, ![g].known = ExistingProviders, ![g].route = route]
  /\ UNCHANGED <<providers, route, changes>>

\* Seeded fault: a disabled target may be preferred.
EligibleAny(target) == TRUE

\* preferredIndex passes over the targets that are switched off.
Eligible(target) == target.enabled

\* preferredIndex: the first of the highest priority, 0 standing for -1.
preferredIndex(list) ==
  LET eligible == {i \in DOMAIN list : Eligible(list[i])}
      best == {i \in eligible : \A j \in eligible : list[j].priority <= list[i].priority}
  IN  IF best = {} THEN 0 ELSE CHOOSE i \in best : \A j \in best : i <= j

\* routeToDraft
routeToDraft(r) ==
  [open |-> TRUE, existing |-> TRUE, strategy |-> r.strategy, enabled |-> r.enabled,
   rows |-> loadTargets(r.targets)]

EMPTY_ROUTE == [NoForm EXCEPT !.open = TRUE]

Idle(g) == routeTab[g].loaded /\ routeTab[g].request = NoRequest

OpenRouteForm(g) ==
  /\ Idle(g) /\ ~routeTab[g].form.open
  /\ \/ routeTab' = [routeTab EXCEPT ![g].form = EMPTY_ROUTE]
     \/ routeTab[g].route.there /\ routeTab' = [routeTab EXCEPT ![g].form = routeToDraft(routeTab[g].route)]
  /\ UNCHANGED <<providers, route, changes>>

CloseRouteForm(g) ==
  /\ routeTab[g].form.open /\ Idle(g)
  /\ routeTab' = [routeTab EXCEPT ![g].form = NoForm]
  /\ UNCHANGED <<providers, route, changes>>

\* What TargetEditor can make of the rows: a new one, one less, or one changed;
\* another provider takes the model with it.
NewRow == Target(0, 0, 0, TRUE)

Edited(rows, known) ==
  (IF Len(rows) < MaxRows THEN {Append(rows, NewRow)} ELSE {})
  \cup {RemoveAt(rows, i) : i \in DOMAIN rows}
  \cup (UNION {{[rows EXCEPT ![i].provider = p, ![i].upstream = 0] : p \in known \cup {0}} : i \in DOMAIN rows})
  \cup (UNION {{[rows EXCEPT ![i].upstream = u] : u \in Upstreams} :
                  i \in {j \in DOMAIN rows : rows[j].provider \in known}})
  \cup (UNION {{[rows EXCEPT ![i].priority = n] : n \in Priorities} : i \in DOMAIN rows})
  \cup {[rows EXCEPT ![i].enabled = ~@] : i \in DOMAIN rows}

EditForm(g) ==
  /\ Change /\ Idle(g) /\ routeTab[g].form.open
  /\ \/ \E rows \in Edited(routeTab[g].form.rows, routeTab[g].known) : routeTab' = [routeTab EXCEPT ![g].form.rows = rows]
     \/ \E s \in Strategies : routeTab' = [routeTab EXCEPT ![g].form.strategy = s]
     \/ routeTab' = [routeTab EXCEPT ![g].form.enabled = ~@]
  /\ UNCHANGED <<providers, route>>

\* toTargets: a row without a model, or of a provider the page does not know,
\* is left out.
Complete(row, known) == row.upstream # 0 /\ row.provider \in known

toTargets(rows, known) == Subsequence(rows, {i \in DOMAIN rows : Complete(rows[i], known)})

PageRequests(g, kind, input) ==
  routeTab' = [routeTab EXCEPT ![g].request =
             [kind |-> kind, checked |-> FALSE, input |-> input,
              shown |-> routeTab[g].form, knew |-> routeTab[g].known]]

\* RouteForm's save
SaveRoute(g) ==
  /\ Idle(g) /\ routeTab[g].form.open
  /\ LET form == routeTab[g].form IN
       PageRequests(g, IF form.existing THEN "update" ELSE "create",
                Input(form.strategy, form.enabled, toTargets(form.rows, routeTab[g].known)))
  /\ UNCHANGED <<providers, route, changes>>

\* Seeded fault: the whole cached row goes back with the switch.
ToggledWhole(r) == Input(r.strategy, ~r.enabled, loadTargets(r.targets))

\* toggleEnabled: the switch, and the cached targets.
Toggled(r) == Input("keep", ~r.enabled, loadTargets(r.targets))

ToggleRoute(g) ==
  /\ Change /\ Idle(g) /\ ~routeTab[g].form.open /\ routeTab[g].route.there
  /\ PageRequests(g, "toggle", Toggled(routeTab[g].route))
  /\ UNCHANGED <<providers, route>>

RemoveCard(g) ==
  /\ Change /\ Idle(g) /\ ~routeTab[g].form.open /\ routeTab[g].route.there
  /\ PageRequests(g, "delete", Input("keep", FALSE, <<>>))
  /\ UNCHANGED <<providers, route>>

----------------------------------------------------------------------------
(* The handlers *)

\* The answer, good or bad: a form closes on success only.
RouteAnswered(g, ok) ==
  routeTab' = [routeTab EXCEPT ![g].request = NoRequest,
                       ![g].form = IF ok THEN NoForm ELSE @]

NamesProviders(input) == {input.list[i].provider : i \in DOMAIN input.list}

AsksRoute(g, kinds) == routeTab[g].request.kind \in kinds

\* assertTargetsExist, which is over before the write begins.
Check(g) ==
  /\ AsksRoute(g, {"create", "update", "toggle"}) /\ ~routeTab[g].request.checked
  /\ IF NamesProviders(routeTab[g].request.input) \subseteq ExistingProviders
     THEN routeTab' = [routeTab EXCEPT ![g].request.checked = TRUE]
     ELSE RouteAnswered(g, FALSE)
  /\ UNCHANGED <<providers, route, changes>>

\* One transaction, which a target of a provider that is gone rolls back.
Write(g, there) ==
  LET input == routeTab[g].request.input IN
  IF NamesProviders(input) \subseteq ExistingProviders
  THEN /\ route' = [there |-> there,
                    strategy |-> IF input.strategy = "keep" THEN route.strategy ELSE input.strategy,
                    enabled |-> input.enabled,
                    targets |-> replaceTargets(route.targets, input.list)]
       /\ RouteAnswered(g, TRUE)
  ELSE UNCHANGED route /\ RouteAnswered(g, FALSE)

\* createRoute, an upsert.
CreateRoute(g) ==
  /\ AsksRoute(g, {"create"}) /\ routeTab[g].request.checked
  /\ Write(g, TRUE)
  /\ UNCHANGED <<providers, changes>>

\* updateRoute, which answers 404 for no row.
UpdateRoute(g) ==
  /\ AsksRoute(g, {"update", "toggle"}) /\ routeTab[g].request.checked
  /\ IF route.there THEN Write(g, TRUE) ELSE UNCHANGED route /\ RouteAnswered(g, FALSE)
  /\ UNCHANGED <<providers, changes>>

DeleteRoute(g) ==
  /\ AsksRoute(g, {"delete"})
  /\ route' = NoRoute
  /\ RouteAnswered(g, route.there)
  /\ UNCHANGED <<providers, changes>>

----------------------------------------------------------------------------
(* The providers' page *)

UpdateProvider(p) ==
  /\ Change /\ providers[p].there
  /\ \E enabled \in BOOLEAN, priority \in Priorities :
       providers' = [providers EXCEPT ![p].enabled = enabled, ![p].priority = priority]
  /\ UNCHANGED <<route, routeTab>>

DeleteProvider(p) ==
  /\ Change /\ providers[p].there
  /\ providers' = [providers EXCEPT ![p] = Deleted]
  /\ route' = [route EXCEPT !.targets = WithoutProvider(@, p)]
  /\ UNCHANGED routeTab

PagesNext ==
  \/ \E g \in RouteTabs :
       \/ LoadRoutes(g) \/ OpenRouteForm(g) \/ CloseRouteForm(g) \/ EditForm(g) \/ SaveRoute(g) \/ ToggleRoute(g) \/ RemoveCard(g)
       \/ Check(g) \/ CreateRoute(g) \/ UpdateRoute(g) \/ DeleteRoute(g)
  \/ \E p \in Providers : UpdateProvider(p) \/ DeleteProvider(p)

PagesSpec == PagesInit /\ [][PagesNext]_pagesVars

----------------------------------------------------------------------------
(* Properties *)

\* The request whose write this step is.
WritesRoute(g, kinds) ==
  /\ AsksRoute(g, kinds) /\ routeTab[g].request.checked
  /\ routeTab'[g].request = NoRequest /\ route' # route

\* A form that is saved is stored as it was shown, whatever the row was by then:
\* the route has exactly the complete rows, of two rows for one provider and
\* model the later, and the form's strategy and switch.  A save that fails
\* changes nothing (routeToDraft, toTargets, assertTargetsExist, replaceTargets).
SaveStoresTheForm ==
  [][\A g \in RouteTabs : WritesRoute(g, {"create", "update"}) =>
       LET shown == routeTab[g].request.shown
           rows == {row \in ToSet(shown.rows) : Complete(row, routeTab[g].request.knew)} IN
       /\ route'.targets \subseteq rows
       /\ \A row \in rows : \E t \in route'.targets : SameKey(row, t)
       /\ \A s, t \in route'.targets : SameKey(s, t) => s = t
       /\ route'.strategy = shown.strategy /\ route'.enabled = shown.enabled]_pagesVars

\* A toggle from a page that is behind never takes back the strategy another
\* operator chose, and from one that has the targets as they are it changes the
\* switch alone (toggleEnabled, updateRoute's patch).
ToggleKeepsTheRest ==
  [][\A g \in RouteTabs : WritesRoute(g, {"toggle"}) =>
       /\ route'.strategy = route.strategy
       /\ ToSet(routeTab[g].request.input.list) = route.targets => route'.targets = route.targets]_pagesVars

\* The page marks no target of a weighted route.
Current(g) ==
  routeTab[g].loaded /\ routeTab[g].route = route /\ route.there /\ route.strategy # "weighted"

AllServe == \A t \in route.targets : Enabled(providers, t.provider)

\* Whether the target the page marks is the first of a request's candidates.
MarksFirst(g) ==
  LET list == loadTargets(routeTab[g].route.targets)
      first == resolveTargets(providers, route.targets)
      mark == preferredIndex(list)
  IN  IF first = <<>> THEN mark = 0 ELSE mark # 0 /\ list[mark] = Head(first)

\* While a page is up to date, every provider is switched on and no two targets
\* share a priority, the target it marks as serving is the one requests go to
\* first (preferredIndex against resolveTargets).
MarkTellsWithoutTies ==
  \A g \in RouteTabs :
    Current(g) /\ AllServe /\ (\A s, t \in route.targets : s.priority = t.priority => s = t) =>
      MarksFirst(g)

\* The target marked on a page that is up to date is the one that serves
\* requests, as the comment on preferredIndex says.  It is not where priorities
\* tie: there the provider's own priority decides, which the page leaves out.
MarkTellsWhoServes ==
  \A g \in RouteTabs : Current(g) /\ AllServe => MarksFirst(g)

\* The routes page saves what it shows, undoes nothing with its switch, and says
\* which target serves where priorities leave no doubt (Routes.tsx).
PagesTellTheRoute == []MarkTellsWithoutTies /\ SaveStoresTheForm /\ ToggleKeepsTheRest
=============================================================================
