------------------------------- MODULE Reports -------------------------------
(***************************************************************************)
(* What the dashboard reads back from the usage log: the rollup of a range *)
(* (src/src/db/usage.ts, summary), read group by group while requests are  *)
(* logged, providers are deleted and old rows are pruned, and the request  *)
(* log itself (logPage), which src/web/src/views/Usage.tsx walks page by   *)
(* page under a filter.  Every statement sees the log of its own moment,   *)
(* and a page seen a short while ago comes from the query cache.           *)
(***************************************************************************)
EXTENDS Ranges, Grouping

CONSTANTS
  Models,
  Sources,       \* ids of providers that rows may name
  None,          \* SQL's NULL, and "no filter"
  Filter,        \* filters on offer, None among them: one by model stands for the three of
                 \* logPage, each of which is a predicate of the row
  PageSize,      \* PAGE_SIZE
  Buckets,       \* widths a caller asks for, Omitted among them
  Retention,     \* log_retention_days, 0 for ever
  StaleTime,     \* staleTime: for how long an answer is taken for fresh
  MaxRows,       \* bound on the rows ever logged
  MaxClock       \* bound on the model's clock

ASSUME ReportsAssumption ==
  /\ None \notin Models \cup Sources /\ None \in Filter /\ Buckets \subseteq Int
  /\ PageSize \in Nat \ {0} /\ Retention \in Nat /\ StaleTime \in Nat /\ MaxRows \in Nat /\ MaxClock \in Nat

VARIABLES
  clock,         \* Date.now()
  named,         \* providers still in their table
  log,           \* usage_log
  logged,        \* rows ever inserted: the autoincrement
  rollup,        \* the summary being read
  view,          \* the request log's page, filter and last answer
  asking,        \* the logPage under way
  cache,         \* the query cache: when a page of a filter was answered, and its total
  reader         \* which of the two reports is read: they share nothing but the log

reportVars == <<clock, named, log, logged, rollup, view, asking, cache, reader>>

Row == [id : Nat, ts : Nat, model : Models, source : Sources \cup {None}]

Rollup ==
  [pc : {"idle", "models", "providers", "series", "done"}, from : Int, to : Nat,
   width : Nat, totals : Nat, byModel : Nat, byProvider : Nat,
   points : UNION {[starts -> Nat] : starts \in SUBSET Nat},  \* the time series: the requests by bucket
   closed : BOOLEAN]       \* history: nothing may enter or leave the range any more

View ==
  [page : Nat, filter : Filter, total : Nat,
   walking : BOOLEAN,               \* history: the first page was asked for, and each later one on its turn
   seen : SUBSET (1..MaxRows),      \* history: ids shown since the walk began
   since : SUBSET (1..MaxRows),     \* history: ids that matched when it began
   shows : {"former", "cached", "answered"},  \* whose answer is on screen: another page's, kept as
                                    \* placeholder, the cached one of this page, or the one it asked for
   torn : BOOLEAN]                  \* history: the log changed between the statements of the answer

ReportsInit ==
  /\ clock = 0 /\ named = Sources /\ log = {} /\ logged = 0
  /\ rollup = [pc |-> "idle", from |-> 0, to |-> 0, width |-> 0, totals |-> 0, byModel |-> 0,
               byProvider |-> 0, points |-> <<>>, closed |-> FALSE]
  /\ view = [page |-> 0, filter |-> None, total |-> 0, walking |-> FALSE, seen |-> {},
             since |-> {}, shows |-> "former", torn |-> FALSE]
  /\ asking = None /\ cache = <<>>
  /\ reader \in {"rollup", "log"}

----------------------------------------------------------------------------

\* The log as it is written and pruned.

\* A statement under way is torn when the log changes before the next one.
Torn == IF asking = None THEN None ELSE [asking EXCEPT !.torn = TRUE]

\* Who served a row matters to the rollup alone: a filter by provider is one of Filter's.
LogRow ==
  /\ logged < MaxRows
  /\ \E model \in Models, source \in named \cup {None} :
       /\ reader = "log" => source = None
       /\ log' = log \cup {[id |-> logged + 1, ts |-> clock, model |-> model, source |-> source]}
  /\ logged' = logged + 1
  /\ asking' = Torn
  /\ UNCHANGED <<clock, named, rollup, view, cache>>

Pruned == IF Retention = 0 THEN log ELSE {row \in log : row.ts >= clock - Retention}

purgeOlderThan ==
  /\ Pruned # log
  /\ log' = Pruned
  /\ asking' = Torn
  /\ rollup' = [rollup EXCEPT !.closed = @ /\ rollup.from >= clock - Retention]
  /\ UNCHANGED <<clock, named, logged, view, cache>>

ForgetSource(p) ==
  /\ reader = "rollup" /\ p \in named /\ named' = named \ {p}
  /\ UNCHANGED <<clock, log, logged, rollup, view, asking, cache>>

\* An answer in the query cache grows stale: it would be asked for anew before anything is read off it.
Passes ==
  /\ clock < MaxClock /\ clock' = clock + 1
  /\ cache' = [key \in {seen \in DOMAIN cache : clock + 1 < cache[seen].at + StaleTime} |-> cache[key]]
  /\ UNCHANGED <<named, log, logged, rollup, view, asking>>

----------------------------------------------------------------------------

\* The rollup of a range, then its series, which the handler reads for the same range.

Within(range) == {row \in log : row.ts >= range[1] /\ row.ts <= range[2]}

Summarise(from, to, bucket) ==
  LET range == readRange(from, to, 1, clock)
  IN  /\ rollup.pc = "idle"
      /\ rollup' = [pc |-> "models", from |-> range[1], to |-> range[2],
                    width |-> bucketMs(range, bucket),
                    totals |-> Cardinality(Within(range)), byModel |-> 0, byProvider |-> 0,
                    points |-> <<>>, closed |-> range[2] < clock]
      /\ UNCHANGED <<clock, named, log, logged, view, asking, cache>>

GroupByModel ==
  LET rows == Within(<<rollup.from, rollup.to>>)
  IN  /\ rollup.pc = "models"
      /\ rollup' = [rollup EXCEPT !.pc = "providers",
           !.byModel = Total(GroupSizes(rows, [row \in rows |-> row.model]))]
      /\ UNCHANGED <<clock, named, log, logged, view, asking, cache>>

\* The left join keeps a row whose provider is gone, and the rows that never had one.
GroupByProvider ==
  LET rows == Within(<<rollup.from, rollup.to>>)
  IN  /\ rollup.pc = "providers"
      /\ rollup' = [rollup EXCEPT !.pc = "series",
           !.byProvider = Total(GroupSizes(rows, [row \in rows |-> row.source]))]
      /\ UNCHANGED <<clock, named, log, logged, view, asking, cache>>

\* GROUP BY the bucket; the route to the overview histogram reads the same statement alone.
series ==
  LET rows == Within(<<rollup.from, rollup.to>>)
  IN  /\ rollup.pc = "series"
      /\ rollup' = [rollup EXCEPT !.pc = "done",
           !.points = GroupSizes(rows, [row \in rows |-> BucketOf(row.ts, rollup.width)])]
      /\ UNCHANGED <<clock, named, log, logged, view, asking, cache>>

----------------------------------------------------------------------------

\* The request log.

Matching(filter) == {row \in log : filter = None \/ row.model = filter}
IdsOf(rows) == {row.id : row \in rows}

\* ORDER BY ts DESC, id DESC
Before(a, b) == a.ts > b.ts \/ (a.ts = b.ts /\ a.id > b.id)

Rank(rows, row) == Cardinality({other \in rows : Before(other, row)})

\* LIMIT and OFFSET: the rows that as many others come before.
PageOf(rows, page) ==
  IdsOf({row \in rows : Rank(rows, row) \in page * PageSize .. page * PageSize + PageSize - 1})

\* The view asks for a page it has no fresh answer for, and for any page at the press of the refresh
\* button; the total comes from the first statement.  A walk begins with the first page.
AskPage ==
  /\ asking = None
  /\ asking' = [total |-> Cardinality(Matching(view.filter)), torn |-> FALSE]
  /\ view' = IF view.page = 0 /\ ~view.walking
             THEN [view EXCEPT !.walking = TRUE, !.since = IdsOf(Matching(view.filter))] ELSE view
  /\ UNCHANGED <<clock, named, log, logged, rollup, cache>>

\* The rows come from the last statement, with its own view of the log.
ShowPage ==
  /\ asking # None
  /\ view' = [view EXCEPT !.total = asking.total, !.shows = "answered", !.torn = asking.torn,
                          !.seen = IF view.walking THEN @ \cup PageOf(Matching(view.filter), view.page)
                                   ELSE @]
  /\ cache' = [key \in DOMAIN cache \cup {<<view.filter, view.page>>} |->
                 IF key = <<view.filter, view.page>> THEN [at |-> clock, total |-> asking.total]
                 ELSE cache[key]]
  /\ asking' = None
  /\ UNCHANGED <<clock, named, log, logged, rollup>>

\* useUsageLog: a page that was answered within staleTime is shown as it was then.
Fresh(key) == key \in DOMAIN cache

Visited(was, filter, page) ==
  [was EXCEPT !.filter = filter, !.page = page,
              !.shows = IF Fresh(<<filter, page>>) THEN "cached" ELSE "former",
              !.total = IF Fresh(<<filter, page>>) THEN cache[<<filter, page>>].total ELSE @,
              !.torn = FALSE]

TotalPages == Max({1, (view.total + PageSize - 1) \div PageSize})

WalkOver(now) == [now EXCEPT !.walking = FALSE, !.seen = {}, !.since = {}]

\* The operator reads each page, and moves on when no answer is outstanding.
MoveTo(page) ==
  LET there == Visited(view, view.filter, page)
  IN  /\ asking = None /\ view.shows # "former"
      /\ view' = IF page > view.page /\ view.shows = "cached" THEN WalkOver(there) ELSE there
      /\ UNCHANGED <<clock, named, log, logged, rollup, asking, cache>>

\* Next is offered while the total on screen has more pages.  The code also hides both
\* buttons on a page without rows, where an operator of the model may turn back.
NextPage == view.page + 1 < TotalPages /\ MoveTo(view.page + 1)
PreviousPage == view.page # 0 /\ MoveTo(view.page - 1)

\* A change of filter starts over, and a change of the window does so under the same filter.
applyFilter(filter) ==
  /\ asking = None /\ (filter # view.filter \/ view.page # 0)
  /\ view' = WalkOver(Visited(view, filter, 0))
  /\ UNCHANGED <<clock, named, log, logged, rollup, asking, cache>>

ReadsRollup ==
  \/ \E from, to \in Omitted..MaxClock, bucket \in Buckets : Summarise(from, to, bucket)
  \/ GroupByModel \/ GroupByProvider \/ series

ReadsLog ==
  AskPage \/ ShowPage \/ NextPage \/ PreviousPage \/ \E filter \in Filter : applyFilter(filter)

\* One report per behaviour: what happens to the log afterwards does not reach it.
ReportsNext ==
  /\ rollup.pc # "done"
  /\ \/ LogRow \/ purgeOlderThan \/ Passes
     \/ \E p \in Sources : ForgetSource(p)
     \/ reader = "rollup" /\ ReadsRollup
     \/ reader = "log" /\ ReadsLog
  /\ UNCHANGED reader

----------------------------------------------------------------------------

\* The breakdowns and the chart of a range that lies in the past sum to its total, although
\* each is a statement of its own and providers go on being deleted, and no two bars are closer
\* than a bucket (usage.ts, summary and series; usage in admin/handlers.ts); pruning into the range
\* is the one thing that may come between them.
BreakdownsAddUp ==
  rollup.pc = "done" /\ rollup.closed
    => /\ rollup.byModel = rollup.totals /\ rollup.byProvider = rollup.totals
       /\ Total(rollup.points) = rollup.totals
       /\ \A one, other \in DOMAIN rollup.points :
            one # other => one + rollup.width <= other \/ other + rollup.width <= one

\* Walking the pages to the last one shows every row that matched when the walk began and has
\* not been pruned, whatever was logged meanwhile (usage.ts, logPage; Usage.tsx): later rows
\* only push earlier ones further down.  Each page must have been asked for on its turn: one that
\* comes from the query cache has the rows and the total of before (App.tsx:58), and what was
\* pushed from it onto a page already read, or off the end of an old total, is missed.  And the last
\* answer must not be torn: its total and its rows are separate statements.
PagingMissesNothing ==
  view.shows = "answered" /\ view.walking /\ ~view.torn /\ view.page + 1 >= TotalPages
    => view.since \cap IdsOf(log) \subseteq view.seen

ReportsSpec == ReportsInit /\ [][ReportsNext]_reportVars

\* The reports leave nothing out and count nothing twice (db/usage.ts).
ReportsAddUp == BreakdownsAddUp /\ PagingMissesNothing
=============================================================================
