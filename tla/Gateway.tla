------------------------------ MODULE Gateway ------------------------------
(***************************************************************************)
(* The gateway's request path: src/src/gateway/executor.ts (plan, retry in *)
(* place, fail over, commit), driven by the /v1 handlers of                *)
(* src/src/http (settle, guard, disconnects) over the breaker rows of      *)
(* src/src/db/health.ts, the session pins of src/src/gateway/sessions.ts   *)
(* and the usage log of src/src/gateway/accounting.ts.                     *)
(*                                                                         *)
(* Every request is a fiber of one process.  A fiber gives way at upstream *)
(* calls, retry sleeps and database statements, and each step between two  *)
(* of those is one action.  Requests are for one public model: requests    *)
(* for different models share the breaker rows in the same way.            *)
(***************************************************************************)
EXTENDS Breaker, Routing

CONSTANTS
  Requests,    \* the requests of a behaviour
  Sessions,    \* conversation keys
  Shapes,      \* the [endpoint, streaming, session] combinations that arrive
  Kinds,       \* the failures the providers' answers are classified into
  NoSession,   \* the request has no session key
  NoProvider,  \* no pin; a usage row that names no provider
  MaxClock     \* bound on the model's clock

ProviderErrorKind ==
  {"auth", "rate_limit", "quota", "not_found", "invalid_request", "upstream",
   "timeout", "network", "aborted"}
RETRYABLE == {"rate_limit", "quota", "upstream", "timeout", "network"}

\* Seeded fault: a model the provider does not host counts as an outage.
BlamelessWithoutNotFound == {"aborted", "invalid_request"}

\* Surfaced at once and not held against the provider.
Blameless == {"aborted", "invalid_request", "not_found"}
\* No other candidate is tried.
Fatal == {"aborted", "invalid_request"}
\* The reasons plan gives for having no candidate.
RoutingReason == {"unknown_model", "all_unavailable"}

Shape == [endpoint  : {"chat", "responses", "anthropic"},
          streaming : BOOLEAN,
          session   : Sessions \cup {NoSession}]

ASSUME GatewayAssumption ==
  /\ Shapes \subseteq Shape
  /\ Kinds \subseteq ProviderErrorKind
  /\ NoSession \notin Sessions
  /\ NoProvider \notin Providers
  /\ MaxClock \in Nat

VARIABLES
  clock,       \* now()
  existing,    \* ids in providers
  enabled,     \* ids in providers whose enabled column is set
  failures,    \* provider_health.consecutive_failures (no row: 0)
  openUntil,   \* provider_health.open_until (no row: 0)
  pins,        \* session store: key -> provider id
  req,         \* the fiber of each request
  ledger       \* usage_log: the rows written for each request

health == <<failures, openUntil>>
admin == <<existing, enabled>>
vars == <<clock, existing, enabled, failures, openUntil, pins, req, ledger>>

Waiting == {"resolve", "plan", "call", "backoff", "credit", "blame", "account", "guard"}
InFlight == Waiting \cup {"stream"}

Attempt == [pos : Nat \ {0}, try : Nat, kind : Kinds \cup {"ok"}]

Fiber ==
  [shape    : Shapes,
   pc       : InFlight \cup {"idle", "done"},
   unread   : SUBSET Targets,        \* plan's rows whose breaker is to be read
   usable   : SUBSET Targets,        \* plan's usable: the rows read as closed
   cands    : Seq(Targets),          \* Plan.candidates
   pos      : Nat,                   \* walk's candidate
   try      : Nat,                   \* attemptWithRetries' tryIndex
   trail    : Seq(Attempt),          \* every upstream call that was answered
   error    : Kinds \cup RoutingReason \cup {"none"},
   answer   : {"none", "ok", "error", "cut", "gone", "defect", "lost"}]

Row == [status   : {"ok", "error", "aborted"},
        provider : Providers \cup {NoProvider},
        attempts : Nat]

NewFiber(shape) ==
  [shape |-> shape, pc |-> "idle", unread |-> {}, usable |-> {}, cands |-> <<>>,
   pos |-> 0, try |-> 0, trail |-> <<>>, error |-> "none", answer |-> "none"]

Init ==
  /\ clock = 0
  /\ existing = Providers
  /\ enabled = Providers
  /\ failures = [p \in Providers |-> 0]
  /\ openUntil = [p \in Providers |-> 0]
  /\ pins = [s \in Sessions |-> NoProvider]
  /\ req \in [Requests -> {NewFiber(shape) : shape \in Shapes}]
  /\ ledger = [r \in Requests |-> <<>>]

----------------------------------------------------------------------------
(* Helpers *)

\* The provider of the candidate a fiber is at.
Current(q) == Route[q.cands[q.pos]].provider

\* Seeded fault: the candidate is recorded by its zero-based index.
AnsweredFromZero(q, kind) ==
  [q EXCEPT !.trail = Append(@, [pos |-> q.pos - 1, try |-> q.try, kind |-> kind])]

Answered(q, kind) ==
  [q EXCEPT !.trail = Append(@, [pos |-> q.pos, try |-> q.try, kind |-> kind])]

\* fail: the error leaves the handler and reaches guard.
Raise(q, error) == [q EXCEPT !.pc = "guard", !.error = error]

\* Seeded fault: the retry counter is declared outside the loop.
ConcludeKeepingTry(q, kind) ==
  IF kind \in Fatal \/ q.pos = Len(q.cands) THEN Raise(q, kind)
  ELSE [q EXCEPT !.pc = "call", !.pos = @ + 1, !.error = kind]

\* Seeded fault: the last candidate is never reached.
ConcludeEarly(q, kind) ==
  IF kind \in Fatal \/ q.pos + 1 >= Len(q.cands) THEN Raise(q, kind)
  ELSE [q EXCEPT !.pc = "call", !.pos = @ + 1, !.try = 0, !.error = kind]

\* walk, after a candidate failed: stop, go on, or report the last failure.
Conclude(q, kind) ==
  IF kind \in Fatal \/ q.pos = Len(q.cands) THEN Raise(q, kind)
  ELSE [q EXCEPT !.pc = "call", !.pos = @ + 1, !.try = 0, !.error = kind]

\* Seeded fault: the error is rethrown without the trail.
ReportedTrailDropped(q) == <<>>

\* The trail the error carries: walk rebuilds only the last error with it.
ReportedTrail(q) ==
  IF q.error \in Fatal \cup RoutingReason THEN <<>> ELSE q.trail

\* recordSuccess and recordFailure count at least one attempt.
CountOf(trail) == IF trail = <<>> THEN 1 ELSE Len(trail)

SuccessRow(q) ==
  [status |-> "ok", provider |-> Current(q), attempts |-> CountOf(q.trail)]

\* Seeded fault: settle reads the failure before the stream has ended.
BrokenRowUnnoticed(q) == SuccessRow(q)

\* settle, for a stream that broke after the commit.
BrokenRow(q) == [SuccessRow(q) EXCEPT !.status = "error"]

\* guard: the last attempt names the provider, or else the error does.
FailureRow(q) ==
  [status   |-> "error",
   provider |-> IF q.error \in RoutingReason THEN NoProvider ELSE Current(q),
   attempts |-> CountOf(ReportedTrail(q))]

\* onInterrupt of chatCompletions: no provider and no trail.
AbandonedRow == [status |-> "aborted", provider |-> NoProvider, attempts |-> 1]

Finish(q, answer) == [q EXCEPT !.pc = "done", !.answer = answer]

Becomes(r, q) == req' = [req EXCEPT ![r] = q]
Write(r, row) == ledger' = [ledger EXCEPT ![r] = Append(@, row)]

----------------------------------------------------------------------------
(* plan *)

\* openEpisode has admitted the request.
Arrive(r) ==
  /\ req[r].pc = "idle"
  /\ Becomes(r, [req[r] EXCEPT !.pc = "resolve"])
  /\ UNCHANGED <<clock, admin, health, pins, ledger>>

\* resolveTargets reads the routing tables: three statements, here one (Listing has them
\* apart), because no property of the walk tells which of the rows are switched on.
Resolve(r) ==
  /\ req[r].pc = "resolve"
  /\ LET rows == ResolveTargets(enabled) IN
     Becomes(r, IF rows = {} THEN Raise(req[r], "unknown_model")
                ELSE [req[r] EXCEPT !.pc = "plan", !.unread = rows])
  /\ UNCHANGED <<clock, admin, health, pins, ledger>>

\* One round of plan's loop: the row is usable when its breaker is closed at
\* that moment.
StatusRead(q, t) ==
  LET closed == ~IsOpen(openUntil[Route[t].provider], clock)
  IN  [q EXCEPT !.unread = @ \ {t}, !.usable = IF closed THEN @ \cup {t} ELSE @]

\* The row whose turn it is: rows are read in the order they were resolved.
NextRow(rows) == {t \in rows : \A u \in rows : t <= u}

\* Where the loop takes a fiber before it next gives way, or ends.  Without a
\* breaker no row is read and all are usable.
Rounds(q) ==
  IF BreakerDisabled THEN {[q EXCEPT !.unread = {}, !.usable = q.unread]}
  ELSE {StatusRead(q, t) : t \in NextRow(q.unread)}

\* getProviderStatus, with more rows to read after this one.
ReadStatus(r) ==
  /\ req[r].pc = "plan"
  /\ \E q \in Rounds(req[r]) : q.unread # {} /\ Becomes(r, q)
  /\ UNCHANGED <<clock, admin, health, pins, ledger>>

\* Affinity: the pin reorders the candidates, or is dropped when it names none.
Affinity(q, ordered) ==
  IF q.shape.session = NoSession THEN ordered
  ELSE PreferPinned(ordered, pins[q.shape.session])

Forget(q, ordered) ==
  IF q.shape.session # NoSession /\ pins[q.shape.session] \notin ProvidersOf(ordered)
  THEN [pins EXCEPT ![q.shape.session] = NoProvider]
  ELSE pins

\* The last row is read; what follows runs without giving way.
PlanRequest(r) ==
  /\ req[r].pc = "plan"
  /\ \E q \in Rounds(req[r]) :
       /\ q.unread = {}
       /\ \/ /\ q.usable = {}
             /\ Becomes(r, Raise(q, "all_unavailable"))
             /\ UNCHANGED pins
          \/ /\ q.usable # {}
             /\ \E ordered \in OrderCandidates(q.usable) :
                  /\ Becomes(r, [q EXCEPT !.pc = "call", !.pos = 1, !.try = 0,
                                          !.cands = Affinity(q, ordered)])
                  /\ pins' = Forget(q, ordered)
  /\ UNCHANGED <<clock, admin, health, ledger>>

----------------------------------------------------------------------------
(* attemptWithRetries and walk *)

\* The provider accepted the stream or completed the answer.
CallSucceeds(r) ==
  /\ req[r].pc = "call"
  /\ Becomes(r, [Answered(req[r], "ok") EXCEPT !.pc = "credit"])
  /\ UNCHANGED <<clock, admin, health, pins, ledger>>

\* The provider refused, timed out or could not be reached.
CallFails(r, kind) ==
  /\ req[r].pc = "call"
  /\ LET q == Answered(req[r], kind) IN
     \/ kind \in Blameless /\ Becomes(r, Conclude(q, kind))
     \/ /\ kind \notin Blameless
        /\ kind \in RETRYABLE
        /\ q.try < Extra(q.cands[q.pos])
        /\ Becomes(r, [q EXCEPT !.pc = "backoff", !.error = kind])
     \/ /\ kind \notin Blameless
        /\ kind \notin RETRYABLE \/ q.try >= Extra(q.cands[q.pos])
        /\ Becomes(r, [q EXCEPT !.pc = "blame", !.error = kind])
  /\ UNCHANGED <<clock, admin, health, pins, ledger>>

\* Seeded fault: a Retry-After of any length is slept out.
RetryUncapped(r) ==
  /\ req[r].pc = "backoff"
  /\ clock = MaxClock
  /\ Becomes(r, [req[r] EXCEPT !.pc = "call", !.try = @ + 1])
  /\ UNCHANGED <<clock, admin, health, pins, ledger>>

\* The sleep between two tries ends; it is capped, so it always does.
Retry(r) ==
  /\ req[r].pc = "backoff"
  /\ Becomes(r, [req[r] EXCEPT !.pc = "call", !.try = @ + 1])
  /\ UNCHANGED <<clock, admin, health, pins, ledger>>

\* An insert for a provider that was deleted violates the foreign key of
\* provider_health: orDie makes it a defect, which guard answers unrecorded.
Defect(r) ==
  /\ Current(req[r]) \notin existing
  /\ Becomes(r, Finish(req[r], "defect"))
  /\ UNCHANGED <<health, pins>>

\* Seeded fault: the first choice is pinned, not the provider that answered.
RememberFirst(q) ==
  IF q.shape.session = NoSession THEN pins
  ELSE [pins EXCEPT ![q.shape.session] = Route[q.cands[1]].provider]

\* remember: the session is pinned to the provider that served it.
Remember(q) ==
  IF q.shape.session = NoSession THEN pins
  ELSE [pins EXCEPT ![q.shape.session] = Current(q)]

\* recordSuccess of health.ts closes the breaker; remember pins the session.
Credit(r) ==
  LET p == Current(req[r]) IN
  /\ req[r].pc = "credit"
  /\ \/ Defect(r)
     \/ /\ p \in existing
        /\ failures' = [failures EXCEPT ![p] = 0]
        /\ openUntil' = [openUntil EXCEPT ![p] = 0]
        /\ pins' = Remember(req[r])
        /\ Becomes(r, [req[r] EXCEPT
                         !.pc = IF req[r].shape.streaming THEN "stream" ELSE "account"])
  /\ UNCHANGED <<clock, admin, ledger>>

\* recordFailure of health.ts, one transaction: count, then set the deadline.
Blame(r) ==
  LET p == Current(req[r]) IN
  /\ req[r].pc = "blame"
  /\ \/ Defect(r)
     \/ /\ p \in existing
        /\ failures' = [failures EXCEPT ![p] = @ + 1]
        /\ openUntil' = [openUntil EXCEPT ![p] = BreakerDeadline(failures[p] + 1, clock)]
        /\ Becomes(r, Conclude(req[r], req[r].error))
        /\ UNCHANGED pins
  /\ UNCHANGED <<clock, admin, ledger>>

----------------------------------------------------------------------------
(* The handlers *)

\* recordSuccess of accounting.ts, then the JSON answer.
Account(r) ==
  /\ req[r].pc = "account"
  /\ Write(r, SuccessRow(req[r]))
  /\ Becomes(r, Finish(req[r], "ok"))
  /\ UNCHANGED <<clock, admin, health, pins>>

\* guard: recordFailure of accounting.ts, then the error envelope.
Guard(r) ==
  /\ req[r].pc = "guard"
  /\ Write(r, FailureRow(req[r]))
  /\ Becomes(r, Finish(req[r], "error"))
  /\ UNCHANGED <<clock, admin, health, pins>>

\* The committed stream ends; settle records what it was.  A client that
\* leaves runs the same finaliser, which sees no failure.
StreamEnds(r) ==
  /\ req[r].pc = "stream"
  /\ \/ Write(r, SuccessRow(req[r])) /\ Becomes(r, Finish(req[r], "ok"))
     \/ Write(r, SuccessRow(req[r])) /\ Becomes(r, Finish(req[r], "gone"))
     \/ Write(r, BrokenRow(req[r]))  /\ Becomes(r, Finish(req[r], "cut"))
  /\ UNCHANGED <<clock, admin, health, pins>>

\* The client leaves while the fiber waits for an upstream or a sleep: the
\* fiber is interrupted, and only chatCompletions has a finaliser for that.
Disconnect(r) ==
  /\ req[r].pc \in {"call", "backoff"}
  /\ Becomes(r, Finish(req[r], "gone"))
  /\ IF req[r].shape.endpoint = "chat" /\ ~req[r].shape.streaming
     THEN Write(r, AbandonedRow)
     ELSE UNCHANGED ledger
  /\ UNCHANGED <<clock, admin, health, pins>>

----------------------------------------------------------------------------
(* The environment *)

Tick ==
  /\ clock < MaxClock
  /\ clock' = clock + 1
  /\ UNCHANGED <<admin, health, pins, req, ledger>>

\* updateProvider, as far as routing can see it.
ToggleProvider(p) ==
  /\ p \in existing
  /\ enabled' = IF p \in enabled THEN enabled \ {p} ELSE enabled \cup {p}
  /\ UNCHANGED <<clock, existing, health, pins, req, ledger>>

\* deleteProvider: the row's targets and its health row go with it.
DeleteProvider(p) ==
  /\ p \in existing
  /\ existing' = existing \ {p}
  /\ enabled' = enabled \ {p}
  /\ failures' = [failures EXCEPT ![p] = 0]
  /\ openUntil' = [openUntil EXCEPT ![p] = 0]
  /\ UNCHANGED <<clock, pins, req, ledger>>

\* A pin expires or is evicted (session_ttl_ms, session_max_entries).
PinLapses(s) ==
  /\ pins[s] # NoProvider
  /\ pins' = [pins EXCEPT ![s] = NoProvider]
  /\ UNCHANGED <<clock, admin, health, req, ledger>>

\* The process is killed and started again: fibers and pins are in memory.
Restart ==
  /\ \E r \in Requests : req[r].pc \in InFlight
  /\ req' = [r \in Requests |->
               IF req[r].pc \in InFlight THEN Finish(req[r], "lost") ELSE req[r]]
  /\ pins' = [s \in Sessions |-> NoProvider]
  /\ UNCHANGED <<clock, admin, health, ledger>>

----------------------------------------------------------------------------
Progress(r) ==
  \/ Resolve(r)
  \/ ReadStatus(r)
  \/ PlanRequest(r)
  \/ CallSucceeds(r)
  \/ \E kind \in Kinds : CallFails(r, kind)
  \/ Retry(r)
  \/ Credit(r)
  \/ Blame(r)
  \/ Account(r)
  \/ Guard(r)

Environment ==
  \/ Tick
  \/ \E p \in Providers : ToggleProvider(p) \/ DeleteProvider(p)
  \/ \E s \in Sessions : PinLapses(s)
  \/ Restart

Next ==
  \/ \E r \in Requests : Arrive(r) \/ Progress(r) \/ StreamEnds(r) \/ Disconnect(r)
  \/ Environment

Spec == Init /\ [][Next]_vars

\* A fiber is scheduled, an upstream call ends (timeoutFail) and so does a
\* sleep.  Nothing bounds a committed stream, the client or the operator.
Fairness == \A r \in Requests : WF_vars(Progress(r))
FairSpec == Spec /\ Fairness


----------------------------------------------------------------------------
(* Properties *)

\* Every variable has the type its declaration announces.
TypeOK ==
  /\ clock \in 0 .. MaxClock
  /\ existing \in SUBSET Providers
  /\ enabled \in SUBSET existing
  /\ failures \in [Providers -> Nat]
  /\ openUntil \in [Providers -> Nat]
  /\ pins \in [Sessions -> Providers \cup {NoProvider}]
  /\ req \in [Requests -> Fiber]
  /\ ledger \in [Requests -> Seq(Row)]

\* b retries a in place: the failure was retryable and tries were left.
RetriedAs(q, a, b) ==
  /\ b.pos = a.pos
  /\ b.try = a.try + 1
  /\ a.kind \in RETRYABLE
  /\ b.try <= Extra(q.cands[a.pos])

\* b fails over from a: another provider may help and no try was left here.
FailedOverTo(q, a, b) ==
  /\ b.pos = a.pos + 1
  /\ b.try = 0
  /\ a.kind \notin Fatal \cup {"ok"}
  /\ a.kind \in RETRYABLE => a.try = Extra(q.cands[a.pos])

\* The upstream calls of a request are a walk down its candidate list: it
\* starts at the first, each next call retries or fails over for a reason
\* the last answer gives, and nothing is called after a success, a malformed
\* request or an abort (executor.ts, attemptWithRetries and walk).
TrailIsAWalk ==
  \A r \in Requests :
    LET q == req[r] IN
    /\ q.trail # <<>> => q.trail[1].pos = 1 /\ q.trail[1].try = 0
    /\ \A k \in 1 .. Len(q.trail) - 1 :
         \/ RetriedAs(q, q.trail[k], q.trail[k + 1])
         \/ FailedOverTo(q, q.trail[k], q.trail[k + 1])

\* A request whose caller was told of a provider's failure has spent every
\* candidate and every try of the last one, unless the request itself was
\* at fault (walk only reports the last failure once the list is exhausted).
NothingLeftUntried ==
  \A r \in Requests :
    LET q == req[r]
        final == q.trail[Len(q.trail)]
    IN  q.answer = "error" /\ q.error \notin Fatal \cup RoutingReason
        => /\ q.trail # <<>>
           /\ final.pos = Len(q.cands)
           /\ final.kind \in RETRYABLE => final.try = Extra(q.cands[final.pos])

\* The failures a provider answers for.
ProviderFault == RETRYABLE \cup {"auth"}

\* The candidates of r, owned by p, whose last call failed by p's fault.
Faults(r, p) ==
  LET q == req[r] IN
  {i \in DOMAIN q.cands :
     /\ Route[q.cands[i]].provider = p
     /\ \E k \in DOMAIN q.trail :
          /\ q.trail[k].pos = i
          /\ q.trail[k].kind \in ProviderFault
          /\ k < Len(q.trail) => q.trail[k + 1].pos # i}

\* The breaker counts at most one failure for each candidate that ended in
\* the provider's own fault: never one per retry, and none for a model the
\* provider does not host or for a malformed request (executor.ts 266-284).
FailuresAreEarned ==
  \A p \in Providers :
    failures[p] <= Cardinality(UNION {{r} \X Faults(r, p) : r \in Requests})

\* The two columns of a health row agree: the deadline is set exactly when
\* the count has reached the threshold, whatever failures raced to get it
\* there (recordFailure of health.ts counts and trips in one transaction).
TripsAtThreshold ==
  \A p \in Providers :
    openUntil[p] > 0 <=> ~BreakerDisabled /\ failures[p] >= Threshold

\* No provider is abandoned: its breaker closes within the longest cooldown
\* (breakerDeadline of health.ts, "never permanently abandoned").
CooldownIsBounded == \A p \in Providers : openUntil[p] <= clock + MaxMs

\* A breaker that trips does so for cause and not for ever (recordFailure and
\* breakerDeadline of health.ts).
BreakerIsSound == TripsAtThreshold /\ CooldownIsBounded

\* A pin names a provider that has answered a request of that very session:
\* never a first choice that failed, never another session's provider
\* (remember of executor.ts).
PinIsEarned ==
  \A s \in Sessions :
    pins[s] # NoProvider =>
      \E r \in Requests :
        /\ req[r].shape.session = s
        /\ \E k \in DOMAIN req[r].trail :
             /\ req[r].trail[k].kind = "ok"
             /\ Route[req[r].cands[req[r].trail[k].pos]].provider = pins[s]

\* A row names the provider that was called last and counts every call, for
\* every request but those that failed for being malformed or left early
\* (recordSuccess and recordFailure of accounting.ts).
RowTellsTheTrail ==
  \A r \in Requests :
    LET q == req[r] IN
    \A k \in DOMAIN ledger[r] :
      ledger[r][k].status # "aborted" /\ q.error \notin Fatal =>
        IF q.trail = <<>>
        THEN ledger[r][k].attempts = 1 /\ ledger[r][k].provider = NoProvider
        ELSE /\ ledger[r][k].attempts = Len(q.trail)
             /\ ledger[r][k].provider =
                  Route[q.cands[q.trail[Len(q.trail)].pos]].provider

\* Affinity never puts a provider back that the breaker took out.  A row
\* becomes usable only while its breaker is closed, though failures of other
\* requests are recorded between one row and the next; and whatever the pin
\* says by the time the last row is read, the plan is those rows and no
\* others (plan and preferPinned).
AffinityNeverResurrects ==
  [][\A r \in Requests :
       /\ \A t \in req'[r].usable \ req[r].usable :
            ~IsOpen(openUntil[Route[t].provider], clock)
       /\ req[r].pc = "plan" /\ req'[r].pc = "call" =>
            {req'[r].cands[i] : i \in DOMAIN req'[r].cands} = req'[r].usable]_vars

\* One more failure never brings a provider back sooner, even when failures
\* of requests planned at different times arrive late (breakerDeadline).
BackoffNeverShrinks ==
  [][\A p \in Providers :
       failures'[p] > failures[p] => openUntil'[p] >= openUntil[p]]_vars

\* An admitted request commits to a stream or ends: no failure, breaker or
\* operator action leaves it waiting (request_timeout_ms, the 5 s sleep cap
\* and the bounded retries of executor.ts).
EveryRequestConcludes ==
  \A r \in Requests : req[r].pc \in Waiting ~> req[r].pc \in {"stream", "done"}

\* What each kind of ending was for the caller.
Outcome ==
  [ok |-> "served", error |-> "failed", cut |-> "cut", gone |-> "gone",
   defect |-> "dropped", lost |-> "dropped"]

\* What the caller has seen of a request.
CallerPhase(q) ==
  CASE q.pc = "idle"     -> "absent"
    [] q.pc \in Waiting -> "open"
    [] q.pc = "stream"   -> "committed"
    [] q.pc = "done"     -> Outcome[q.answer]

Ledger == INSTANCE UsageLedger WITH
  phase <- [r \in Requests |-> CallerPhase(req[r])],
  rows <- [r \in Requests |-> [k \in DOMAIN ledger[r] |-> ledger[r][k].status]]

\* The gateway keeps the promise of UsageLedger: an answered request has one
\* row, and the row says what the caller saw (settle and guard of handlers-v1.ts).
ImplementsLedger == Ledger!Spec

----------------------------------------------------------------------------
(* What a comment says and the code does not do. *)

\* "This module is called from every exit path of a request" (accounting.ts):
\* a request whose caller left, or that ended in a defect, has its row.
EveryExitIsLogged ==
  \A r \in Requests : req[r].answer \in {"gone", "defect"} => ledger[r] # <<>>

=============================================================================
