------------------------------- MODULE Credits -------------------------------
(***************************************************************************)
(* Background maintenance and the credit snapshots of workbuddy2api pools: *)
(* the fiber of src/src/main.ts that discovers and then re-reads every     *)
(* pool, and the operator's own refreshes, which run the same              *)
(* refreshCredits (src/src/gateway/discovery.ts) beside it.                *)
(*                                                                         *)
(* A pool's /status is read over the network: between the answer and the   *)
(* row, and between reading the last row and writing it back, others run.  *)
(***************************************************************************)
EXTENDS Integers, Sequences, FiniteSets, SequencesExt

CONSTANTS
  Pools,         \* workbuddy2api providers
  Others,        \* providers of another kind
  Maintenance,   \* the fiber that main.ts forks
  Clicks,        \* refreshes the operator asks for
  Accounts,      \* what a pool's accounts may look like: sets of sequences
  NoSnapshot,
  NoPool,        \* a fiber at rest reads no pool
  MaxHours        \* bound on the model's clock

Account == [credits : Nat, cooling : BOOLEAN, disabled : BOOLEAN]

ASSUME CreditsAssumption ==
  /\ Maintenance \notin Clicks /\ Pools \cap Others = {} /\ IsFiniteSet(Pools)
  /\ Accounts \subseteq Seq(Account) /\ MaxHours \in Nat

VARIABLES
  now,           \* Date.now()
  existing,      \* providers in the table
  enabled,       \* providers switched on
  pool,          \* the accounts each pool really holds (external)
  snapshot,      \* credits_snapshot
  refreshing,    \* the fibers that refresh
  observed       \* history: <<provider, time, balance>> of every answer

creditsVars == <<now, existing, enabled, pool, snapshot, refreshing, observed>>

EveryProvider == Pools \cup Others
Refreshers == Clicks \cup {Maintenance}

Snapshot ==
  [total : Nat, healthy : Nat, accounts : Seq(Account), fetched_at : Nat, error : BOOLEAN]

Never == [total |-> 0, healthy |-> 0, accounts |-> <<>>, fetched_at |-> 0, error |-> TRUE]

Refresher ==
  [pc : {"idle", "discovering", "choosing", "asking", "saving", "reading", "restoring"},
   queue : Seq(EveryProvider),       \* the pools a pass has still to read
   provider : EveryProvider \cup {NoPool},
   found : Snapshot]             \* what it is about to write

Rest == [pc |-> "idle", queue |-> <<>>, provider |-> NoPool, found |-> Never]

CreditsInit ==
  /\ now = 0
  /\ existing = EveryProvider /\ enabled \in SUBSET EveryProvider
  /\ pool \in [Pools -> Accounts]
  /\ snapshot = [p \in Pools |-> NoSnapshot]
  /\ refreshing = [r \in Refreshers |-> Rest]
  /\ observed = {}

----------------------------------------------------------------------------

Sum(accounts) ==
  LET upTo[n \in 0..Len(accounts)] == IF n = 0 THEN 0 ELSE upTo[n - 1] + accounts[n].credits
  IN  upTo[Len(accounts)]

Healthy(accounts) ==
  Cardinality({i \in DOMAIN accounts : ~accounts[i].cooling /\ ~accounts[i].disabled})

\* A /status body.  Its own total is the number of accounts, except in builds that state a
\* balance and no rows; an error page has no account list at all.
Bodies(p) ==
  { [listed |-> TRUE, accounts |-> pool[p], total |-> Len(pool[p])],
    [listed |-> TRUE, accounts |-> <<>>, total |-> Sum(pool[p])],
    [listed |-> FALSE, accounts |-> <<>>, total |-> 0] }

Total(body) == IF body.accounts # <<>> THEN Sum(body.accounts) ELSE body.total

\* An error page answered with 200 lists no accounts, and is a failure.
fetchCredits(body) ==
  [total |-> Total(body), healthy |-> Healthy(body.accounts), accounts |-> body.accounts,
   fetched_at |-> now, error |-> FALSE]

\* Where a fiber goes when its refresh is over, or has died.
Done(r) == IF r = Maintenance THEN "choosing" ELSE "idle"

----------------------------------------------------------------------------

\* discoverAll (its own module) precedes the credits and may die, which ends the pass.
PassStarts ==
  /\ refreshing[Maintenance].pc = "idle"
  /\ refreshing' = [refreshing EXCEPT ![Maintenance].pc = "discovering"]
  /\ UNCHANGED <<now, existing, enabled, pool, snapshot, observed>>

\* discoverAll is over, if it ever is: neither listModels nor models.dev has a timeout.  The
\* list of providers is read once, here.
Discovered ==
  /\ refreshing[Maintenance].pc = "discovering"
  /\ \/ refreshing' = [refreshing EXCEPT ![Maintenance] = Rest]
     \/ refreshing' = [refreshing EXCEPT ![Maintenance].pc = "choosing",
          ![Maintenance].queue = SetToSeq({p \in Pools : p \in existing /\ p \in enabled})]
  /\ UNCHANGED <<now, existing, enabled, pool, snapshot, observed>>

NextPool ==
  LET queue == refreshing[Maintenance].queue
  IN  /\ refreshing[Maintenance].pc = "choosing"
      /\ refreshing' = [refreshing EXCEPT ![Maintenance] =
           IF queue = <<>> THEN Rest
           ELSE [@ EXCEPT !.pc = "asking", !.provider = Head(queue), !.queue = Tail(queue)]]
      /\ UNCHANGED <<now, existing, enabled, pool, snapshot, observed>>

\* providerCredits: another kind of provider answers its stored snapshot, and nothing changes.
Click(r, p) ==
  /\ refreshing[r].pc = "idle" /\ p \in existing
  /\ refreshing' = IF p \in Pools
                   THEN [refreshing EXCEPT ![r].pc = "asking", ![r].provider = p]
                   ELSE refreshing
  /\ UNCHANGED <<now, existing, enabled, pool, snapshot, observed>>

\* The pool answers, or the request fails in one of the ways execute knows.
Answered(r) ==
  LET p == refreshing[r].provider
  IN  /\ refreshing[r].pc = "asking"
      /\ \/ \E body \in Bodies(p) :
              IF body.listed
              THEN /\ refreshing' = [refreshing EXCEPT ![r].pc = "saving",
                                                       ![r].found = fetchCredits(body)]
                   /\ observed' = observed \cup {<<p, now, Sum(pool[p])>>}
              ELSE refreshing' = [refreshing EXCEPT ![r].pc = "reading"] /\ UNCHANGED observed
         \/ refreshing' = [refreshing EXCEPT ![r].pc = "reading"] /\ UNCHANGED observed
      /\ UNCHANGED <<now, existing, enabled, pool, snapshot>>

\* Seeded fault: a failed refresh stamps the old figures with the time of the attempt.
FailedNow(previous) ==
  [(IF previous = NoSnapshot THEN Never ELSE previous) EXCEPT !.error = TRUE, !.fetched_at = now]

\* A failure keeps the figures and the time they were read at.
Failed(previous) == [(IF previous = NoSnapshot THEN Never ELSE previous) EXCEPT !.error = TRUE]

ReadPrevious(r) ==
  /\ refreshing[r].pc = "reading"
  /\ refreshing' = [refreshing EXCEPT ![r].pc = "restoring",
                                      ![r].found = Failed(snapshot[refreshing[r].provider])]
  /\ UNCHANGED <<now, existing, enabled, pool, snapshot, observed>>

\* Seeded fault: the defect escapes the loop, and nobody starts another pass.
DiesForGood(r) == [Rest EXCEPT !.pc = "stopped"]

\* The insert violates its foreign key: the pass ends and is logged, the next tick starts again.
Dies(r) == Rest

saveCredits(r) ==
  LET p == refreshing[r].provider
  IN  /\ refreshing[r].pc \in {"saving", "restoring"}
      /\ IF p \in existing
         THEN /\ snapshot' = [snapshot EXCEPT ![p] = refreshing[r].found]
              /\ refreshing' = [refreshing EXCEPT ![r].pc = Done(r), ![r].found = Never]
         ELSE /\ refreshing' = [refreshing EXCEPT ![r] = Dies(r)]
              /\ UNCHANGED snapshot
      /\ UNCHANGED <<now, existing, enabled, pool, observed>>

\* The operator deletes a provider: its snapshot goes with it.
DeleteProvider(p) ==
  /\ p \in existing
  /\ existing' = existing \ {p}
  /\ snapshot' = IF p \in Pools THEN [snapshot EXCEPT ![p] = NoSnapshot] ELSE snapshot
  /\ UNCHANGED <<now, enabled, pool, refreshing, observed>>

\* Requests draw on the pool, and time passes.
TimePasses ==
  /\ now < MaxHours
  /\ now' = now + 1
  /\ \E p \in Pools, accounts \in Accounts : pool' = [pool EXCEPT ![p] = accounts]
  /\ UNCHANGED <<existing, enabled, snapshot, refreshing, observed>>

Refreshes(r) == ReadPrevious(r) \/ saveCredits(r)

\* What the fiber does by itself; it waits for everything else.
Maintains == PassStarts \/ NextPool \/ Refreshes(Maintenance)

CreditsNext ==
  \/ Maintains
  \/ Discovered
  \/ \E r \in Clicks : Refreshes(r)
  \/ \E r \in Clicks, p \in EveryProvider : Click(r, p)
  \/ \E r \in Refreshers : Answered(r)
  \/ \E p \in EveryProvider : DeleteProvider(p)
  \/ TimePasses

----------------------------------------------------------------------------

CreditsTypeOK ==
  /\ now \in 0..MaxHours
  /\ existing \subseteq EveryProvider /\ enabled \subseteq EveryProvider
  /\ pool \in [Pools -> Seq(Account)]
  /\ snapshot \in [Pools -> Snapshot \cup {NoSnapshot}]
  /\ refreshing \in [Refreshers -> Refresher]

\* A stored balance is what the pool held at the time stored beside it, whoever wrote the row
\* last and however many refreshes failed in between (discovery.ts, refreshCredits;
\* workbuddy.ts, fetchCredits): a failure never claims an old figure was just read, and an
\* error page never empties a funded pool.
BalanceAsObserved ==
  \A p \in Pools :
    snapshot[p] = NoSnapshot \/ snapshot[p] = Never
    \/ <<p, snapshot[p].fetched_at, snapshot[p].total>> \in observed

\* Every snapshot is one that was taken, whichever refreshers race (discovery.ts,
\* refreshCredits).
SnapshotsAreTrue == CreditsTypeOK /\ BalanceAsObserved

\* Maintenance ends a pass and starts the next for ever, whatever dies on the way (main.ts,
\* maintenance); only a pass that waits for an answer holds it, for a pool's /status or for
\* the models of its discovery, because neither request carries a timeout of its own.
PassesGoOn ==
  LET at(pc) == refreshing[Maintenance].pc = pc
  IN  \/ <>[]at("asking")
      \/ <>[]at("discovering")
      \/ []<>at("idle") /\ []<>at("discovering")

\* Nothing makes an upstream answer: the fairness is that of the gateway's own steps.
CreditsSpec == CreditsInit /\ [][CreditsNext]_creditsVars /\ WF_creditsVars(Maintains)
=============================================================================
