--------------------------- MODULE UpkeepTheorems ---------------------------
(***************************************************************************)
(* What holds of the parts that keep the gateway going besides its         *)
(* requests, for any pools, settings, databases and sessions.              *)
(***************************************************************************)
EXTENDS Credits, Boot, SessionStore, Capabilities, Foundations, SequenceTheorems

----------------------------------------------------------------------------
(* Balances.  Sum is a recursive function, which the logic gives as a       *)
(* CHOOSE: that there is one to choose goes by induction on the length of   *)
(* the prefix summed.                                                       *)

\* f sums the prefixes of the accounts up to length k.
Totals(accounts, f, k) ==
  f = [n \in 0 .. k |-> IF n = 0 THEN 0 ELSE f[n - 1] + accounts[n].credits]

\* The prefixes of any accounts can be summed.
LEMMA TotalsExist ==
  ASSUME NEW accounts \in Seq(Account)
  PROVE  \E f \in [0 .. Len(accounts) -> Nat] : Totals(accounts, f, Len(accounts))
<1> DEFINE S == {k \in Nat : k <= Len(accounts) => \E f \in [0 .. k -> Nat] : Totals(accounts, f, k)}
<1>0. Len(accounts) \in Nat /\ \A n \in 1 .. Len(accounts) : accounts[n].credits \in Nat
  <2>1. Len(accounts) \in Nat
    OBVIOUS
  <2>2. ASSUME NEW n \in 1 .. Len(accounts) PROVE accounts[n].credits \in Nat
    <3>1. accounts[n] \in Account
      OBVIOUS
    <3> QED
      BY <3>1 DEF Account
  <2> QED
    BY <2>1, <2>2
<1>1. 0 \in S
  <2>1. [n \in 0 .. 0 |-> 0] \in [0 .. 0 -> Nat] /\ Totals(accounts, [n \in 0 .. 0 |-> 0], 0)
    BY DEF Totals
  <2> QED
    BY <2>1
<1>2. ASSUME NEW k \in Nat, k \in S PROVE k + 1 \in S
  <2> SUFFICES ASSUME k + 1 <= Len(accounts)
               PROVE  \E f \in [0 .. k + 1 -> Nat] : Totals(accounts, f, k + 1)
    OBVIOUS
  <2>1. PICK f \in [0 .. k -> Nat] : Totals(accounts, f, k)
    BY <1>2, <1>0
  <2> DEFINE g == [n \in 0 .. k + 1 |-> IF n = k + 1 THEN f[k] + accounts[k + 1].credits ELSE f[n]]
  <2>2. g \in [0 .. k + 1 -> Nat]
    BY <1>0
  <2>3. \A n \in 0 .. k : f[n] = IF n = 0 THEN 0 ELSE f[n - 1] + accounts[n].credits
    BY <2>1 DEF Totals
  <2>4. \A n \in 0 .. k + 1 : g[n] = IF n = 0 THEN 0 ELSE g[n - 1] + accounts[n].credits
    BY <2>3
  <2>5. Totals(accounts, g, k + 1)
    BY <2>4 DEF Totals
  <2> QED
    BY <2>2, <2>5
<1>3. Len(accounts) \in S
  <2> HIDE DEF S
  <2>1. Nat \subseteq S
    BY <1>1, <1>2, Inductive
  <2> QED
    BY <1>0, <2>1
<1> QED
  BY <1>0, <1>3

\* A balance is a number, and that of no accounts is nothing.
LEMMA SumIsNatural ==
  ASSUME NEW accounts \in Seq(Account)
  PROVE  Sum(accounts) \in Nat /\ (accounts = <<>> => Sum(accounts) = 0)
<1> DEFINE f == CHOOSE g : Totals(accounts, g, Len(accounts))
<1>1. Sum(accounts) = f[Len(accounts)]
  BY DEF Sum, Totals
<1>2. Totals(accounts, f, Len(accounts))
  BY TotalsExist
<1>3. PICK h \in [0 .. Len(accounts) -> Nat] : Totals(accounts, h, Len(accounts))
  BY TotalsExist
<1>4. Len(accounts) \in Nat
  OBVIOUS
<1> HIDE DEF f
<1> DEFINE S == {k \in Nat : k <= Len(accounts) => f[k] = h[k]}
<1>5. 0 \in S
  BY <1>2, <1>3, <1>4 DEF Totals
<1>6. ASSUME NEW k \in Nat, k \in S PROVE k + 1 \in S
  <2> SUFFICES ASSUME k + 1 <= Len(accounts) PROVE f[k + 1] = h[k + 1]
    OBVIOUS
  <2>1. f[k + 1] = f[k] + accounts[k + 1].credits /\ h[k + 1] = h[k] + accounts[k + 1].credits
    BY <1>2, <1>3, <1>4 DEF Totals
  <2> QED
    BY <1>4, <1>6, <2>1
<1>7. f[Len(accounts)] = h[Len(accounts)]
  <2> HIDE DEF S
  <2>1. Len(accounts) \in S
    BY <1>4, <1>5, <1>6, Inductive
  <2> USE DEF S
  <2> QED
    BY <1>4, <2>1
<1>8. accounts = <<>> => f[Len(accounts)] = 0
  BY <1>2 DEF Totals
<1> QED
  BY <1>1, <1>3, <1>4, <1>7, <1>8

\* The healthy accounts can be counted.
LEMMA HealthyIsNatural ==
  ASSUME NEW accounts \in Seq(Account)
  PROVE  Healthy(accounts) \in Nat
<1> DEFINE P == {i \in DOMAIN accounts : ~accounts[i].cooling /\ ~accounts[i].disabled}
<1>1. IsFiniteSet(1 .. Len(accounts)) /\ P \subseteq 1 .. Len(accounts)
  BY FS_Interval
<1>2. IsFiniteSet(P)
  BY <1>1, FS_Subset
<1> HIDE DEF P
<1>3. Cardinality(P) \in Nat
  BY <1>2, FS_CardinalityType
<1> QED
  BY <1>3 DEF Healthy, P

\* Whatever order a set of pools is read in, it is a sequence of them.
LEMMA PoolsInOrder ==
  ASSUME NEW S \in SUBSET Pools
  PROVE  SetToSeq(S) \in Seq(Pools)
<1>1. IsFiniteSet(S)
  BY CreditsAssumption, FS_Subset
<1> DEFINE n == Cardinality(S)
<1>2. PICK f : f \in Bijection(1 .. n, S)
  BY <1>1, FS_CardinalityType DEF ExistsBijection
<1>3. f \in [1 .. n -> S] /\ IsInjective(f)
  BY <1>2 DEF IsInjective, Bijection, Injection
<1>4. SetToSeq(S) \in [1 .. n -> S]
  BY <1>3 DEF SetToSeq
<1>5. n \in Nat
  BY <1>1, FS_CardinalityType
<1> QED
  BY <1>4, <1>5

----------------------------------------------------------------------------
(* Snapshots.  What a refresh is about to write must be true already: the    *)
(* row can be overwritten at any time, and anything may happen to the pool   *)
(* between its answer and the row.                                           *)

\* The figures are those of an answer, or stand for none at all.
Witnessed(answers, p, figures) ==
  figures = Never \/ <<p, figures.fetched_at, figures.total>> \in answers

\* What a fiber is about to write is an answer it had, or what it read.
RefreshersTell ==
  \A r \in Refreshers :
    /\ refreshing[r].queue \in Seq(Pools)
    /\ refreshing[r].pc \in {"asking", "saving", "reading", "restoring"} =>
         refreshing[r].provider \in Pools
    /\ refreshing[r].pc \in {"saving", "restoring"} =>
         Witnessed(observed, refreshing[r].provider, refreshing[r].found)

CreditsInv == SnapshotsAreTrue /\ RefreshersTell

\* A pool is a provider.
LEMMA PoolsAreProviders ==
  ASSUME NEW queue \in Seq(Pools)
  PROVE  queue \in Seq(EveryProvider)
<1>1. \A i \in 1 .. Len(queue) : queue[i] \in EveryProvider
  BY DEF EveryProvider
<1> QED
  BY <1>1

\* A fiber at rest is a fiber.
LEMMA RestingRefresher == Rest \in Refresher /\ Never \in Snapshot
BY DEF Rest, Refresher, Never, Snapshot

\* A body that lists accounts, or states a balance, tells what the pool holds.
LEMMA AnswersTell ==
  ASSUME CreditsTypeOK, NEW p \in Pools, NEW body \in Bodies(p), body.listed
  PROVE  fetchCredits(body) \in Snapshot /\ fetchCredits(body).total = Sum(pool[p])
                                         /\ fetchCredits(body).fetched_at = now
<1>1. pool[p] \in Seq(Account)
  BY DEF CreditsTypeOK
<1>2. Sum(pool[p]) \in Nat /\ (pool[p] = <<>> => Sum(pool[p]) = 0) /\ Len(pool[p]) \in Nat
  BY <1>1, SumIsNatural
<1>3. body.accounts \in Seq(Account) /\ Total(body) = Sum(pool[p])
  <2>1. CASE body = [listed |-> TRUE, accounts |-> pool[p], total |-> Len(pool[p])]
    BY <1>1, <1>2, <2>1 DEF Total
  <2>2. CASE body = [listed |-> TRUE, accounts |-> <<>>, total |-> Sum(pool[p])]
    BY <2>2 DEF Total
  <2> QED
    BY <2>1, <2>2 DEF Bodies
<1>4. Healthy(body.accounts) \in Nat /\ now \in Nat
  BY <1>3, HealthyIsNatural, CreditsAssumption DEF CreditsTypeOK
<1> QED
  BY <1>2, <1>3, <1>4 DEF fetchCredits, Snapshot

\* A failure repeats what was stored, and claims no newer time for it.
LEMMA FailureTells ==
  ASSUME CreditsTypeOK, BalanceAsObserved, NEW p \in Pools
  PROVE  Failed(snapshot[p]) \in Snapshot /\ Witnessed(observed, p, Failed(snapshot[p]))
<1>1. CASE snapshot[p] = NoSnapshot \/ snapshot[p] = Never
  <2>1. Never.error = TRUE
    BY DEF Never
  <2>2. [Never EXCEPT !.error = TRUE] = Never
    BY <2>1, RestingRefresher DEF Snapshot
  <2> QED
    BY <1>1, <2>2, RestingRefresher DEF Failed, Witnessed
<1>2. CASE snapshot[p] # NoSnapshot /\ snapshot[p] # Never
  <2>1. snapshot[p] \in Snapshot /\ <<p, snapshot[p].fetched_at, snapshot[p].total>> \in observed
    BY <1>2 DEF CreditsTypeOK, BalanceAsObserved
  <2>2. Failed(snapshot[p]) = [snapshot[p] EXCEPT !.error = TRUE]
    BY <1>2 DEF Failed
  <2> QED
    BY <2>1, <2>2 DEF Witnessed, Snapshot
<1> QED
  BY <1>1, <1>2

\* One fiber's next record is all there is to look at when nothing but that
\* record, and the history, changes.
LEMMA OneRefresher ==
  ASSUME CreditsInv, NEW r \in Refreshers, NEW next \in Refresher,
         refreshing' = [refreshing EXCEPT ![r] = next],
         UNCHANGED <<now, existing, enabled, pool, snapshot>>, observed \subseteq observed',
         next.queue \in Seq(Pools),
         next.pc \in {"asking", "saving", "reading", "restoring"} => next.provider \in Pools,
         next.pc \in {"saving", "restoring"} => Witnessed(observed', next.provider, next.found)
  PROVE  CreditsInv'
<1>1. \A s \in Refreshers : refreshing'[s] = IF s = r THEN next ELSE refreshing[s]
  BY DEF CreditsInv, SnapshotsAreTrue, CreditsTypeOK
<1>2. CreditsTypeOK'
  BY DEF CreditsInv, SnapshotsAreTrue, CreditsTypeOK
<1>3. BalanceAsObserved'
  BY DEF CreditsInv, SnapshotsAreTrue, BalanceAsObserved
<1>4. RefreshersTell'
  BY <1>1 DEF CreditsInv, RefreshersTell, Witnessed
<1> QED
  BY <1>2, <1>3, <1>4 DEF CreditsInv, SnapshotsAreTrue

\* The invariant holds on the first start.
LEMMA CreditsInvInit == CreditsInit => CreditsInv
<1> SUFFICES ASSUME CreditsInit PROVE CreditsInv
  OBVIOUS
<1>1. CreditsTypeOK
  BY RestingRefresher, CreditsAssumption DEF CreditsInit, CreditsTypeOK
<1>2. BalanceAsObserved
  BY DEF CreditsInit, BalanceAsObserved
<1>3. RefreshersTell
  <2>1. \A r \in Refreshers : refreshing[r] = Rest
    BY DEF CreditsInit
  <2>2. Rest.queue \in Seq(Pools) /\ Rest.pc = "idle"
    BY DEF Rest
  <2> QED
    BY <2>1, <2>2 DEF RefreshersTell
<1> QED
  BY <1>1, <1>2, <1>3 DEF CreditsInv, SnapshotsAreTrue

\* Every step keeps the invariant.
LEMMA CreditsInvNext == CreditsInv /\ [CreditsNext]_creditsVars => CreditsInv'
<1> SUFFICES ASSUME CreditsInv, [CreditsNext]_creditsVars PROVE CreditsInv'
  OBVIOUS
<1>t. CreditsTypeOK /\ BalanceAsObserved /\ RefreshersTell
  BY DEF CreditsInv, SnapshotsAreTrue
<1>r. ASSUME NEW r \in Refreshers
      PROVE  /\ refreshing[r] \in Refresher /\ refreshing[r].queue \in Seq(Pools)
             /\ refreshing[r].pc \in {"asking", "saving", "reading", "restoring"} =>
                  refreshing[r].provider \in Pools
             /\ refreshing[r].pc \in {"saving", "restoring"} =>
                  Witnessed(observed, refreshing[r].provider, refreshing[r].found)
  BY <1>t DEF CreditsTypeOK, RefreshersTell
<1>m. Maintenance \in Refreshers
  BY DEF Refreshers
<1>1. CASE PassStarts
  <2> DEFINE next == [refreshing[Maintenance] EXCEPT !.pc = "discovering"]
  <2>1. refreshing' = [refreshing EXCEPT ![Maintenance] = next]
    BY <1>1 DEF PassStarts
  <2>2. next \in Refresher /\ next.queue \in Seq(Pools) /\ next.pc = "discovering"
    BY <1>m, <1>r DEF Refresher
  <2> QED
    BY <1>1, <1>m, <2>1, <2>2, OneRefresher DEF PassStarts
<1>2. CASE Discovered
  <2> DEFINE order == SetToSeq({p \in Pools : p \in existing /\ p \in enabled})
             next == [refreshing[Maintenance] EXCEPT !.pc = "choosing", !.queue = order]
  <2>1. order \in Seq(Pools) /\ order \in Seq(EveryProvider)
    BY PoolsInOrder, PoolsAreProviders
  <2> HIDE DEF order
  <2>2. next \in Refresher /\ next.queue = order /\ next.pc = "choosing"
    BY <1>m, <1>r, <2>1 DEF Refresher, EveryProvider
  <2>3. Rest.queue \in Seq(Pools) /\ Rest.pc = "idle"
    BY DEF Rest
  <2>4. \/ refreshing' = [refreshing EXCEPT ![Maintenance] = Rest]
        \/ refreshing' = [refreshing EXCEPT ![Maintenance] = next]
    BY <1>2 DEF Discovered, order
  <2> HIDE DEF next
  <2> QED
    BY <1>2, <1>m, <2>1, <2>2, <2>3, <2>4, RestingRefresher, OneRefresher DEF Discovered
<1>3. CASE NextPool
  <2> DEFINE queue == refreshing[Maintenance].queue
             next == [refreshing[Maintenance] EXCEPT
                        !.pc = "asking", !.provider = Head(queue), !.queue = Tail(queue)]
  <2>1. Rest.queue \in Seq(Pools) /\ Rest.pc = "idle"
    BY DEF Rest
  <2>2. CASE queue = <<>>
    BY <1>3, <1>m, <2>1, <2>2, RestingRefresher, OneRefresher DEF NextPool
  <2>3. CASE queue # <<>>
    <3>1. Head(queue) \in Pools /\ Tail(queue) \in Seq(Pools)
      BY <1>m, <1>r, <2>3
    <3>4. Tail(queue) \in Seq(EveryProvider)
      BY <3>1, PoolsAreProviders
    <3>2. /\ next \in Refresher /\ next.queue = Tail(queue)
          /\ next.provider = Head(queue) /\ next.pc = "asking"
      BY <1>m, <1>r, <3>1, <3>4 DEF Refresher, EveryProvider
    <3>3. refreshing' = [refreshing EXCEPT ![Maintenance] = next]
      BY <1>3, <2>3 DEF NextPool
    <3> HIDE DEF next, queue
    <3> QED
      BY <1>3, <1>m, <3>1, <3>2, <3>3, OneRefresher DEF NextPool
  <2> QED
    BY <2>2, <2>3
<1>4. ASSUME NEW r \in Clicks, NEW p \in EveryProvider, Click(r, p) PROVE CreditsInv'
  <2> DEFINE next == [refreshing[r] EXCEPT !.pc = "asking", !.provider = p]
  <2>0. r \in Refreshers
    BY DEF Refreshers
  <2>1. CASE p \in Pools
    <3>1. /\ next \in Refresher /\ next.queue = refreshing[r].queue
          /\ next.provider = p /\ next.pc = "asking"
      BY <1>r, <2>0 DEF Refresher
    <3>2. refreshing' = [refreshing EXCEPT ![r] = next]
      BY <1>4, <2>1 DEF Click
    <3> HIDE DEF next
    <3> QED
      BY <1>4, <1>r, <2>0, <2>1, <3>1, <3>2, OneRefresher DEF Click
  <2>2. CASE p \notin Pools
    BY <1>4, <1>t, <2>2 DEF Click, CreditsInv, SnapshotsAreTrue, CreditsTypeOK,
         BalanceAsObserved, RefreshersTell, Witnessed
  <2> QED
    BY <2>1, <2>2
<1>5. ASSUME NEW r \in Refreshers, Answered(r) PROVE CreditsInv'
  <2> DEFINE p == refreshing[r].provider
             lost == [refreshing[r] EXCEPT !.pc = "reading"]
  <2>1. refreshing[r].pc = "asking" /\ p \in Pools
    BY <1>5, <1>r DEF Answered
  <2>2. CASE refreshing' = [refreshing EXCEPT ![r].pc = "reading"] /\ UNCHANGED observed
    <3>1. /\ lost \in Refresher /\ lost.queue = refreshing[r].queue
          /\ lost.provider = p /\ lost.pc = "reading"
      BY <1>r DEF Refresher
    <3>2. refreshing' = [refreshing EXCEPT ![r] = lost]
      BY <2>2
    <3> HIDE DEF lost
    <3> QED
      BY <1>5, <1>r, <2>1, <2>2, <3>1, <3>2, OneRefresher DEF Answered
  <2>3. ASSUME NEW body \in Bodies(p), body.listed,
               refreshing' = [refreshing EXCEPT ![r].pc = "saving", ![r].found = fetchCredits(body)],
               observed' = observed \cup {<<p, now, Sum(pool[p])>>}
        PROVE  CreditsInv'
    <3> DEFINE found == fetchCredits(body)
               next == [refreshing[r] EXCEPT !.pc = "saving", !.found = found]
    <3>1. found \in Snapshot /\ found.total = Sum(pool[p]) /\ found.fetched_at = now
      BY <1>t, <2>1, <2>3, AnswersTell
    <3>2. refreshing' = [refreshing EXCEPT ![r] = next]
      BY <1>t, <2>3 DEF CreditsTypeOK
    <3> HIDE DEF found
    <3>3. /\ next \in Refresher /\ next.queue = refreshing[r].queue
          /\ next.provider = p /\ next.pc = "saving" /\ next.found = found
      BY <1>r, <3>1 DEF Refresher
    <3>4. Witnessed(observed', p, found)
      BY <2>3, <3>1 DEF Witnessed
    <3>5. UNCHANGED <<now, existing, enabled, pool, snapshot>> /\ observed \subseteq observed'
      BY <1>5, <2>3 DEF Answered
    <3> HIDE DEF next
    <3> QED
      BY <1>r, <2>1, <3>2, <3>3, <3>4, <3>5, OneRefresher
  <2> QED
    BY <1>5, <2>2, <2>3 DEF Answered
<1>6. ASSUME NEW r \in Refreshers, ReadPrevious(r) PROVE CreditsInv'
  <2> DEFINE p == refreshing[r].provider
             found == Failed(snapshot[p])
             next == [refreshing[r] EXCEPT !.pc = "restoring", !.found = found]
  <2>1. refreshing[r].pc = "reading" /\ p \in Pools
    BY <1>6, <1>r DEF ReadPrevious
  <2>2. found \in Snapshot /\ Witnessed(observed, p, found)
    BY <1>t, <2>1, FailureTells
  <2>3. refreshing' = [refreshing EXCEPT ![r] = next]
    BY <1>6, <1>t DEF ReadPrevious, CreditsTypeOK
  <2> HIDE DEF found
  <2>4. /\ next \in Refresher /\ next.queue = refreshing[r].queue
        /\ next.provider = p /\ next.found = found /\ next.pc = "restoring"
    BY <1>r, <2>2 DEF Refresher
  <2>5. UNCHANGED <<now, existing, enabled, pool, snapshot, observed>>
    BY <1>6 DEF ReadPrevious
  <2> HIDE DEF next
  <2> QED
    BY <1>r, <2>1, <2>2, <2>3, <2>4, <2>5, OneRefresher
<1>7. ASSUME NEW r \in Refreshers, saveCredits(r) PROVE CreditsInv'
  <2> DEFINE p == refreshing[r].provider
             next == [refreshing[r] EXCEPT !.pc = Done(r), !.found = Never]
  <2>1. /\ refreshing[r].pc \in {"saving", "restoring"} /\ p \in Pools
        /\ Witnessed(observed, p, refreshing[r].found) /\ refreshing[r].found \in Snapshot
    BY <1>7, <1>r DEF saveCredits, Refresher
  <2>2. CASE p \in existing
    <3>1. /\ next \in Refresher /\ next.queue = refreshing[r].queue
          /\ next.pc \in {"choosing", "idle"}
      BY <1>r, RestingRefresher DEF Refresher, Done
    <3>2. /\ refreshing' = [refreshing EXCEPT ![r] = next]
          /\ snapshot' = [snapshot EXCEPT ![p] = refreshing[r].found]
          /\ UNCHANGED <<now, existing, enabled, pool, observed>>
      BY <1>7, <1>t, <2>2 DEF saveCredits, CreditsTypeOK
    <3> HIDE DEF next
    <3>3. CreditsTypeOK'
      BY <1>t, <2>1, <3>1, <3>2 DEF CreditsTypeOK
    <3>4. \A s \in Refreshers : refreshing'[s] = IF s = r THEN next ELSE refreshing[s]
      BY <1>t, <3>2 DEF CreditsTypeOK
    <3>5. RefreshersTell'
      <4>1. observed' = observed
        BY <3>2
      <4>2. ASSUME NEW s \in Refreshers
            PROVE  /\ refreshing'[s].queue \in Seq(Pools)
                   /\ refreshing'[s].pc \in {"asking", "saving", "reading", "restoring"} =>
                        refreshing'[s].provider \in Pools
                   /\ refreshing'[s].pc \in {"saving", "restoring"} =>
                        Witnessed(observed, refreshing'[s].provider, refreshing'[s].found)
        BY <1>r, <3>1, <3>4
      <4> QED
        BY <4>1, <4>2 DEF RefreshersTell
    <3>6. BalanceAsObserved'
      BY <1>t, <2>1, <3>2 DEF CreditsTypeOK, BalanceAsObserved, Witnessed
    <3> QED
      BY <3>3, <3>5, <3>6 DEF CreditsInv, SnapshotsAreTrue
  <2>3. CASE p \notin existing
    <3>1. Rest.queue \in Seq(Pools) /\ Rest.pc = "idle"
      BY DEF Rest
    <3>2. /\ refreshing' = [refreshing EXCEPT ![r] = Rest]
          /\ UNCHANGED <<now, existing, enabled, pool, snapshot, observed>>
      BY <1>7, <2>3 DEF saveCredits, Dies
    <3> QED
      BY <3>1, <3>2, RestingRefresher, OneRefresher
  <2> QED
    BY <2>2, <2>3
<1>8. ASSUME NEW p \in EveryProvider, DeleteProvider(p) PROVE CreditsInv'
  BY <1>8, <1>t DEF DeleteProvider, CreditsInv, SnapshotsAreTrue, CreditsTypeOK,
       BalanceAsObserved, RefreshersTell, Witnessed
<1>9. CASE TimePasses
  BY <1>9, <1>t, CreditsAssumption DEF TimePasses, CreditsInv, SnapshotsAreTrue, CreditsTypeOK,
       BalanceAsObserved, RefreshersTell, Witnessed
<1>10. CASE UNCHANGED creditsVars
  BY <1>10, <1>t DEF creditsVars, CreditsInv, SnapshotsAreTrue, CreditsTypeOK,
       BalanceAsObserved, RefreshersTell, Witnessed
<1> QED
  BY <1>m, <1>1, <1>2, <1>3, <1>4, <1>5, <1>6, <1>7, <1>8, <1>9, <1>10
     DEF CreditsNext, Maintains, Refreshes, Refreshers

\* A stored balance is what its pool held at the time stored beside it, for
\* any pools, accounts and refreshes that race, fail or outlive the provider
\* they read (refreshCredits of discovery.ts, saveCredits of providers.ts).
THEOREM SnapshotsTold == CreditsSpec => []SnapshotsAreTrue
<1>1. CreditsInv => SnapshotsAreTrue
  BY DEF CreditsInv
<1> QED
  BY <1>1, CreditsInvInit, CreditsInvNext, PTL DEF CreditsSpec

----------------------------------------------------------------------------
(* Settings *)

\* An empty variable gives the settings that no variable gives, whatever the
\* file and the environment say (resolve of config.ts).
LEMMA BlankIsUnset ==
  ASSUME NEW file, NEW env
  PROVE  load(file, env) =
           load(file, [key \in Names |-> IF env[key] = "" THEN Unset ELSE env[key]])
<1> DEFINE bare == [key \in Names |-> IF env[key] = "" THEN Unset ELSE env[key]]
<1>1. \A key \in Names : (Sets(bare, key) <=> Sets(env, key)) /\ (Sets(env, key) => bare[key] = env[key])
  BY DEF Sets, Unset
<1> HIDE DEF bare
<1>2. \A key \in Names : EnvFits(bare, key) <=> EnvFits(env, key)
  BY <1>1 DEF EnvFits
<1>3. \A keys : Merged(keys, bare) = Merged(keys, env)
  BY <1>1 DEF Merged
<1>4. \A keys : resolve(keys, bare) = resolve(keys, env)
  BY <1>2, <1>3 DEF resolve
<1>5. load(file, bare) = load(file, env)
  <2>1. resolve([key \in {} |-> Null], bare) = resolve([key \in {} |-> Null], env)
    BY <1>4
  <2>2. resolve(file.keys, bare) = resolve(file.keys, env)
    BY <1>4
  <2> QED
    BY <2>1, <2>2 DEF load
<1> QED
  BY <1>5 DEF bare

\* So no start ever depends on an empty variable.
THEOREM BlankNeverCounts == BootSpec => []BlankMeansUnset
<1>1. BlankMeansUnset
  BY BlankIsUnset DEF BlankMeansUnset, settings
<1> QED
  BY <1>1, PTL

----------------------------------------------------------------------------
(* Migrations.  All of them are eleven statements in a row.  A file that has *)
(* gone through the first j - 1 of them is ready for the rest; a committed    *)
(* file is ready for the first statement of a migration.                      *)

\* A statement of the plan, the whole plan, and the positions in it; those in Starts0
\* begin a migration or end the last.
S(id, verb) == [id |-> id, verb |-> verb]

Plan ==
  << S(1, "create tables"), S(1, "record"),
     S(2, "add capabilities"), S(2, "drop supports_images"), S(2, "record"),
     S(3, "bound max_retries"), S(3, "record"), S(4, "add auto"), S(4, "record"),
     S(5, "adopt preupgrade routes"), S(5, "record") >>

Positions == 1 .. 12
Starts0 == {1, 3, 6, 8, 10, 12}

\* The plan from its m-th statement to its n-th, and to its end.
Part(m, n) == SubSeq(Plan, m, n)
From(j) == Part(j, 11)

\* What a file has gone through before position j, by its columns and its ledger.
ColumnsAt(j) ==
  (IF j >= 2 THEN {"tables"} ELSE {}) \cup (IF j \in 2 .. 4 THEN {"supports_images"} ELSE {})
  \cup (IF j >= 4 THEN {"capabilities"} ELSE {}) \cup (IF j >= 9 THEN {"auto"} ELSE {})

LedgerAt(j) ==
  IF j <= 2 THEN {} ELSE IF j <= 5 THEN 1 .. 1 ELSE IF j <= 7 THEN 1 .. 2
  ELSE IF j <= 9 THEN 1 .. 3 ELSE IF j <= 11 THEN 1 .. 4 ELSE 1 .. 5

\* A file that the statements from position j on can be run on.
Ready(d, j) == d \in Database /\ d.columns = ColumnsAt(j) /\ d.ledger = LedgerAt(j)

\* There are five migrations.
LEMMA FiveMigrations == Ids = 1 .. 5 /\ Len(Verbs) = 5
BY DEF Ids, Verbs

\* Each statement of the plan is one of a migration.
LEMMA StatementsOf ==
  /\ \A id \in Ids : S(id, "record") \in Statement
  /\ \A id \in Ids : \A i \in DOMAIN Verbs[id] : S(id, Verbs[id][i]) \in Statement
BY DEF S, Statement, Range

\* The plan is a sequence of statements.
LEMMA PlanIsSequence == Plan \in Seq(Statement)
<1>1. \A id \in Ids : S(id, "record") \in Statement
  BY StatementsOf
<1>2. \A id \in Ids : \A i \in DOMAIN Verbs[id] : S(id, Verbs[id][i]) \in Statement
  BY StatementsOf
<1>3. /\ DOMAIN Verbs[1] = 1 .. 1 /\ DOMAIN Verbs[2] = 1 .. 2 /\ DOMAIN Verbs[3] = 1 .. 1
      /\ DOMAIN Verbs[4] = 1 .. 1 /\ DOMAIN Verbs[5] = 1 .. 1
  BY DEF Verbs
<1>4. /\ S(1, Verbs[1][1]) \in Statement /\ S(2, Verbs[2][1]) \in Statement
      /\ S(2, Verbs[2][2]) \in Statement /\ S(3, Verbs[3][1]) \in Statement
      /\ S(4, Verbs[4][1]) \in Statement /\ S(5, Verbs[5][1]) \in Statement
  BY <1>2, <1>3, FiveMigrations DEF S
<1>5. /\ Verbs[1][1] = "create tables"
      /\ Verbs[2][1] = "add capabilities" /\ Verbs[2][2] = "drop supports_images"
      /\ Verbs[3][1] = "bound max_retries" /\ Verbs[4][1] = "add auto"
      /\ Verbs[5][1] = "adopt preupgrade routes"
  BY DEF Verbs
<1>9. /\ S(1, "record") \in Statement /\ S(2, "record") \in Statement /\ S(3, "record") \in Statement
      /\ S(4, "record") \in Statement /\ S(5, "record") \in Statement
  BY <1>1, FiveMigrations
<1>10. /\ S(1, "create tables") \in Statement /\ S(2, "add capabilities") \in Statement
       /\ S(2, "drop supports_images") \in Statement /\ S(3, "bound max_retries") \in Statement
       /\ S(4, "add auto") \in Statement /\ S(5, "adopt preupgrade routes") \in Statement
  BY <1>4, <1>5, Zenon
<1> DEFINE s1 == S(1, "create tables")         t1 == S(1, "record")
           s2 == S(2, "add capabilities")      t2 == S(2, "record")
           u2 == S(2, "drop supports_images")
           s3 == S(3, "bound max_retries")     t3 == S(3, "record")
           s4 == S(4, "add auto")              t4 == S(4, "record")
           s5 == S(5, "adopt preupgrade routes") t5 == S(5, "record")
<1>11. /\ s1 \in Statement /\ s2 \in Statement /\ u2 \in Statement /\ s3 \in Statement
       /\ s4 \in Statement /\ s5 \in Statement /\ t1 \in Statement /\ t2 \in Statement
       /\ t3 \in Statement /\ t4 \in Statement /\ t5 \in Statement
  BY <1>9, <1>10, Zenon
<1>12. Plan = <<s1, t1, s2, u2, t2, s3, t3, s4, t4, s5, t5>>
  BY Zenon DEF Plan
<1> HIDE DEF s1, s2, u2, s3, s4, s5, t1, t2, t3, t4, t5
<1>13. <<s1, t1, s2, u2, t2, s3, t3, s4, t4, s5, t5>> \in Seq(Statement)
  BY <1>11
<1> QED
  BY <1>12, <1>13, Zenon

\* The plan is taken a statement at a time.
LEMMA FromSteps ==
  /\ From(12) = <<>>
  /\ \A j \in 1 .. 11 : From(j) # <<>> /\ Head(From(j)) = Plan[j] /\ Tail(From(j)) = From(j + 1)
<1>1. Len(Plan) = 11
  BY DEF Plan
<1>2. From(12) = <<>>
  BY <1>1 DEF From, Part
<1>3. Plan \in Seq(Statement)
  BY PlanIsSequence
<1>4. ASSUME NEW j \in 1 .. 11
      PROVE  From(j) # <<>> /\ Head(From(j)) = Plan[j] /\ Tail(From(j)) = From(j + 1)
  <2>1. Head(From(j)) = Plan[j] /\ Tail(From(j)) = From(j + 1)
    BY <1>1, <1>3, HeadTailOfSubSeq DEF From, Part
  <2>2. \A i \in j .. 11 : Plan[i] \in Statement
    <3> SUFFICES ASSUME NEW i \in j .. 11 PROVE Plan[i] \in Statement
      OBVIOUS
    <3>1. i \in 1 .. Len(Plan)
      BY <1>1
    <3> QED
      BY <1>3, <3>1, ElementOfSeq
  <2>3. Len(From(j)) = 12 - j
    BY <2>2, SubSeqProperties DEF From, Part
  <2>4. From(j) # <<>>
    BY <2>3
  <2> QED
    BY <2>1, <2>4
<1> QED
  BY <1>2, <1>4

\* What each statement of the plan does.
LEMMA PlanTells ==
  /\ Plan[1].id = 1 /\ Plan[1].verb = "create tables"
  /\ Plan[2].id = 1 /\ Plan[2].verb = "record"
  /\ Plan[3].id = 2 /\ Plan[3].verb = "add capabilities"
  /\ Plan[4].id = 2 /\ Plan[4].verb = "drop supports_images"
  /\ Plan[5].id = 2 /\ Plan[5].verb = "record"
  /\ Plan[6].id = 3 /\ Plan[6].verb = "bound max_retries"
  /\ Plan[7].id = 3 /\ Plan[7].verb = "record"
  /\ Plan[8].id = 4 /\ Plan[8].verb = "add auto"
  /\ Plan[9].id = 4 /\ Plan[9].verb = "record"
  /\ Plan[10].id = 5 /\ Plan[10].verb = "adopt preupgrade routes"
  /\ Plan[11].id = 5 /\ Plan[11].verb = "record"
BY DEF Plan, S

\* The schema and the ledger before each of them.
LEMMA SchemaTells ==
  /\ ColumnsAt(1) = {} /\ LedgerAt(1) = 1 .. 0
  /\ ColumnsAt(2) = {"tables", "supports_images"} /\ LedgerAt(2) = 1 .. 0
  /\ ColumnsAt(3) = {"tables", "supports_images"} /\ LedgerAt(3) = 1 .. 1
  /\ ColumnsAt(4) = {"tables", "supports_images", "capabilities"} /\ LedgerAt(4) = 1 .. 1
  /\ ColumnsAt(5) = {"tables", "capabilities"} /\ LedgerAt(5) = 1 .. 1
  /\ ColumnsAt(6) = {"tables", "capabilities"} /\ LedgerAt(6) = 1 .. 2
  /\ ColumnsAt(7) = {"tables", "capabilities"} /\ LedgerAt(7) = 1 .. 2
  /\ ColumnsAt(8) = {"tables", "capabilities"} /\ LedgerAt(8) = 1 .. 3
  /\ ColumnsAt(9) = {"tables", "capabilities", "auto"} /\ LedgerAt(9) = 1 .. 3
  /\ ColumnsAt(10) = {"tables", "capabilities", "auto"} /\ LedgerAt(10) = 1 .. 4
  /\ ColumnsAt(11) = {"tables", "capabilities", "auto"} /\ LedgerAt(11) = 1 .. 4
  /\ ColumnsAt(12) = {"tables", "capabilities", "auto"} /\ LedgerAt(12) = 1 .. 5
<1>1. ColumnsAt(1) = {} /\ LedgerAt(1) = 1 .. 0
  BY DEF ColumnsAt, LedgerAt
<1>2. ColumnsAt(2) = {"tables", "supports_images"} /\ LedgerAt(2) = 1 .. 0
  BY DEF ColumnsAt, LedgerAt
<1>3. ColumnsAt(3) = {"tables", "supports_images"} /\ LedgerAt(3) = 1 .. 1
  BY DEF ColumnsAt, LedgerAt
<1>4. ColumnsAt(4) = {"tables", "supports_images", "capabilities"} /\ LedgerAt(4) = 1 .. 1
  BY DEF ColumnsAt, LedgerAt
<1>5. ColumnsAt(5) = {"tables", "capabilities"} /\ LedgerAt(5) = 1 .. 1
  BY DEF ColumnsAt, LedgerAt
<1>6. ColumnsAt(6) = {"tables", "capabilities"} /\ LedgerAt(6) = 1 .. 2
  BY DEF ColumnsAt, LedgerAt
<1>7. ColumnsAt(7) = {"tables", "capabilities"} /\ LedgerAt(7) = 1 .. 2
  BY DEF ColumnsAt, LedgerAt
<1>8. ColumnsAt(8) = {"tables", "capabilities"} /\ LedgerAt(8) = 1 .. 3
  BY DEF ColumnsAt, LedgerAt
<1>9. ColumnsAt(9) = {"tables", "capabilities", "auto"} /\ LedgerAt(9) = 1 .. 3
  BY DEF ColumnsAt, LedgerAt
<1>10. ColumnsAt(10) = {"tables", "capabilities", "auto"} /\ LedgerAt(10) = 1 .. 4
  BY DEF ColumnsAt, LedgerAt
<1>11. ColumnsAt(11) = {"tables", "capabilities", "auto"} /\ LedgerAt(11) = 1 .. 4
  BY DEF ColumnsAt, LedgerAt
<1>12. ColumnsAt(12) = {"tables", "capabilities", "auto"} /\ LedgerAt(12) = 1 .. 5
  BY DEF ColumnsAt, LedgerAt
<1> QED
  BY <1>1, <1>2, <1>3, <1>4, <1>5, <1>6, <1>7, <1>8, <1>9, <1>10, <1>11, <1>12

\* No statement of the plan fails on a file that is ready for it, and the file
\* is ready for the next one then.
LEMMA StatementReady ==
  ASSUME NEW d, NEW j \in 1 .. 11, Ready(d, j)
  PROVE  ~FailsOn(Plan[j], d) /\ Ready(Executed(Plan[j], d), j + 1)
<1>1. CASE j = 1
  <2> DEFINE s == Plan[1]
  <2>1. s.id = 1 /\ s.verb = "create tables"
    BY PlanTells
  <2> HIDE DEF s
  <2>2. d \in Database /\ d.columns = {} /\ d.ledger = 1 .. 0
    BY <1>1, SchemaTells DEF Ready
  <2>3. ~FailsOn(s, d) <=> "tables" \notin d.columns
    BY <2>1 DEF FailsOn
  <2>4. Executed(s, d) = [d EXCEPT !.columns = @ \cup {"tables", "supports_images"}]
    BY <2>1 DEF Executed
  <2>5. /\ Executed(s, d) \in Database
        /\ Executed(s, d).columns = {"tables", "supports_images"} /\ Executed(s, d).ledger = 1 .. 0
    BY <2>2, <2>4, FiveMigrations DEF Database
  <2>6. Ready(Executed(s, d), 1 + 1)
    BY <2>5, SchemaTells DEF Ready
  <2> QED
    BY <1>1, <2>2, <2>3, <2>6 DEF s
<1>2. CASE j = 2
  <2> DEFINE s == Plan[2]
  <2>1. s.id = 1 /\ s.verb = "record"
    BY PlanTells
  <2> HIDE DEF s
  <2>2. d \in Database /\ d.columns = {"tables", "supports_images"} /\ d.ledger = 1 .. 0
    BY <1>2, SchemaTells DEF Ready
  <2>3. ~FailsOn(s, d) <=> 1 \notin d.ledger
    BY <2>1 DEF FailsOn
  <2>4. Executed(s, d) = [d EXCEPT !.ledger = @ \cup {1}]
    BY <2>1 DEF Executed
  <2>5. /\ Executed(s, d) \in Database
        /\ Executed(s, d).columns = {"tables", "supports_images"} /\ Executed(s, d).ledger = 1 .. 1
    BY <2>2, <2>4, FiveMigrations DEF Database
  <2>6. Ready(Executed(s, d), 2 + 1)
    BY <2>5, SchemaTells DEF Ready
  <2> QED
    BY <1>2, <2>2, <2>3, <2>6 DEF s
<1>3. CASE j = 3
  <2> DEFINE s == Plan[3]
  <2>1. s.id = 2 /\ s.verb = "add capabilities"
    BY PlanTells
  <2> HIDE DEF s
  <2>2. d \in Database /\ d.columns = {"tables", "supports_images"} /\ d.ledger = 1 .. 1
    BY <1>3, SchemaTells DEF Ready
  <2>3. ~FailsOn(s, d) <=> "capabilities" \notin d.columns
    BY <2>1 DEF FailsOn
  <2>4. Executed(s, d) = [d EXCEPT !.columns = @ \cup {"capabilities"}]
    BY <2>1 DEF Executed
  <2>5. /\ Executed(s, d) \in Database
        /\ Executed(s, d).columns = {"tables", "supports_images", "capabilities"} /\ Executed(s, d).ledger = 1 .. 1
    BY <2>2, <2>4, FiveMigrations DEF Database
  <2>6. Ready(Executed(s, d), 3 + 1)
    BY <2>5, SchemaTells DEF Ready
  <2> QED
    BY <1>3, <2>2, <2>3, <2>6 DEF s
<1>4. CASE j = 4
  <2> DEFINE s == Plan[4]
  <2>1. s.id = 2 /\ s.verb = "drop supports_images"
    BY PlanTells
  <2> HIDE DEF s
  <2>2. d \in Database /\ d.columns = {"tables", "supports_images", "capabilities"} /\ d.ledger = 1 .. 1
    BY <1>4, SchemaTells DEF Ready
  <2>3. ~FailsOn(s, d) <=> "supports_images" \in d.columns
    BY <2>1 DEF FailsOn
  <2>4. Executed(s, d) = [d EXCEPT !.columns = @ \ {"supports_images"}]
    BY <2>1 DEF Executed
  <2>5. /\ Executed(s, d) \in Database
        /\ Executed(s, d).columns = {"tables", "capabilities"} /\ Executed(s, d).ledger = 1 .. 1
    BY <2>2, <2>4, FiveMigrations DEF Database
  <2>6. Ready(Executed(s, d), 4 + 1)
    BY <2>5, SchemaTells DEF Ready
  <2> QED
    BY <1>4, <2>2, <2>3, <2>6 DEF s
<1>5. CASE j = 5
  <2> DEFINE s == Plan[5]
  <2>1. s.id = 2 /\ s.verb = "record"
    BY PlanTells
  <2> HIDE DEF s
  <2>2. d \in Database /\ d.columns = {"tables", "capabilities"} /\ d.ledger = 1 .. 1
    BY <1>5, SchemaTells DEF Ready
  <2>3. ~FailsOn(s, d) <=> 2 \notin d.ledger
    BY <2>1 DEF FailsOn
  <2>4. Executed(s, d) = [d EXCEPT !.ledger = @ \cup {2}]
    BY <2>1 DEF Executed
  <2>5. /\ Executed(s, d) \in Database
        /\ Executed(s, d).columns = {"tables", "capabilities"} /\ Executed(s, d).ledger = 1 .. 2
    BY <2>2, <2>4, FiveMigrations DEF Database
  <2>6. Ready(Executed(s, d), 5 + 1)
    BY <2>5, SchemaTells DEF Ready
  <2> QED
    BY <1>5, <2>2, <2>3, <2>6 DEF s
<1>6. CASE j = 6
  <2> DEFINE s == Plan[6]
  <2>1. s.id = 3 /\ s.verb = "bound max_retries"
    BY PlanTells
  <2> HIDE DEF s
  <2>2. d \in Database /\ d.columns = {"tables", "capabilities"} /\ d.ledger = 1 .. 2
    BY <1>6, SchemaTells DEF Ready
  <2>3. ~FailsOn(s, d)
    BY <2>1 DEF FailsOn
  <2>4. Executed(s, d) = [d EXCEPT !.max_retries = IF @ < 0 \/ @ > 100 \/ @ % 10 # 0 THEN 0 ELSE @]
    BY <2>1 DEF Executed
  <2>5. /\ Executed(s, d) \in Database
        /\ Executed(s, d).columns = {"tables", "capabilities"} /\ Executed(s, d).ledger = 1 .. 2
    BY <2>2, <2>4, FiveMigrations DEF Database
  <2>6. Ready(Executed(s, d), 6 + 1)
    BY <2>5, SchemaTells DEF Ready
  <2> QED
    BY <1>6, <2>2, <2>3, <2>6 DEF s
<1>7. CASE j = 7
  <2> DEFINE s == Plan[7]
  <2>1. s.id = 3 /\ s.verb = "record"
    BY PlanTells
  <2> HIDE DEF s
  <2>2. d \in Database /\ d.columns = {"tables", "capabilities"} /\ d.ledger = 1 .. 2
    BY <1>7, SchemaTells DEF Ready
  <2>3. ~FailsOn(s, d) <=> 3 \notin d.ledger
    BY <2>1 DEF FailsOn
  <2>4. Executed(s, d) = [d EXCEPT !.ledger = @ \cup {3}]
    BY <2>1 DEF Executed
  <2>5. /\ Executed(s, d) \in Database
        /\ Executed(s, d).columns = {"tables", "capabilities"} /\ Executed(s, d).ledger = 1 .. 3
    BY <2>2, <2>4, FiveMigrations DEF Database
  <2>6. Ready(Executed(s, d), 7 + 1)
    BY <2>5, SchemaTells DEF Ready
  <2> QED
    BY <1>7, <2>2, <2>3, <2>6 DEF s
<1>8. CASE j = 8
  <2> DEFINE s == Plan[8]
  <2>1. s.id = 4 /\ s.verb = "add auto"
    BY PlanTells
  <2> HIDE DEF s
  <2>2. d \in Database /\ d.columns = {"tables", "capabilities"} /\ d.ledger = 1 .. 3
    BY <1>8, SchemaTells DEF Ready
  <2>3. ~FailsOn(s, d) <=> "auto" \notin d.columns
    BY <2>1 DEF FailsOn
  <2>4. Executed(s, d) = [d EXCEPT !.columns = @ \cup {"auto"}, !.auto = FALSE]
    BY <2>1 DEF Executed
  <2>5. /\ Executed(s, d) \in Database
        /\ Executed(s, d).columns = {"tables", "capabilities", "auto"} /\ Executed(s, d).ledger = 1 .. 3
    BY ZenonT(60), <2>2, <2>4, FiveMigrations DEF Database
  <2>6. Ready(Executed(s, d), 8 + 1)
    BY <2>5, SchemaTells DEF Ready
  <2> QED
    BY <1>8, <2>2, <2>3, <2>6 DEF s
<1>9. CASE j = 9
  <2> DEFINE s == Plan[9]
  <2>1. s.id = 4 /\ s.verb = "record"
    BY PlanTells
  <2> HIDE DEF s
  <2>2. d \in Database /\ d.columns = {"tables", "capabilities", "auto"} /\ d.ledger = 1 .. 3
    BY <1>9, SchemaTells DEF Ready
  <2>3. ~FailsOn(s, d) <=> 4 \notin d.ledger
    BY <2>1 DEF FailsOn
  <2>4. Executed(s, d) = [d EXCEPT !.ledger = @ \cup {4}]
    BY <2>1 DEF Executed
  <2>5. /\ Executed(s, d) \in Database
        /\ Executed(s, d).columns = {"tables", "capabilities", "auto"} /\ Executed(s, d).ledger = 1 .. 4
    BY <2>2, <2>4, FiveMigrations DEF Database
  <2>6. Ready(Executed(s, d), 9 + 1)
    BY <2>5, SchemaTells DEF Ready
  <2> QED
    BY <1>9, <2>2, <2>3, <2>6 DEF s
<1>10. CASE j = 10
  <2> DEFINE s == Plan[10]
  <2>1. s.id = 5 /\ s.verb = "adopt preupgrade routes"
    BY PlanTells
  <2> HIDE DEF s
  <2>2. d \in Database /\ d.columns = {"tables", "capabilities", "auto"} /\ d.ledger = 1 .. 4
    BY <1>10, SchemaTells DEF Ready
  <2>3. ~FailsOn(s, d)
    BY <2>1 DEF FailsOn
  <2>4. Executed(s, d) = [d EXCEPT !.auto = @ \/ d.targets <= 1]
    BY <2>1 DEF Executed
  <2>5. /\ Executed(s, d) \in Database
        /\ Executed(s, d).columns = {"tables", "capabilities", "auto"} /\ Executed(s, d).ledger = 1 .. 4
    BY <2>2, <2>4, FiveMigrations DEF Database
  <2>6. Ready(Executed(s, d), 10 + 1)
    BY <2>5, SchemaTells DEF Ready
  <2> QED
    BY <1>10, <2>2, <2>3, <2>6 DEF s
<1>11. CASE j = 11
  <2> DEFINE s == Plan[11]
  <2>1. s.id = 5 /\ s.verb = "record"
    BY PlanTells
  <2> HIDE DEF s
  <2>2. d \in Database /\ d.columns = {"tables", "capabilities", "auto"} /\ d.ledger = 1 .. 4
    BY <1>11, SchemaTells DEF Ready
  <2>3. ~FailsOn(s, d) <=> 5 \notin d.ledger
    BY <2>1 DEF FailsOn
  <2>4. Executed(s, d) = [d EXCEPT !.ledger = @ \cup {5}]
    BY <2>1 DEF Executed
  <2>5. /\ Executed(s, d) \in Database
        /\ Executed(s, d).columns = {"tables", "capabilities", "auto"} /\ Executed(s, d).ledger = 1 .. 5
    BY <2>2, <2>4, FiveMigrations DEF Database
  <2>6. Ready(Executed(s, d), 11 + 1)
    BY <2>5, SchemaTells DEF Ready
  <2> QED
    BY <1>11, <2>2, <2>3, <2>6 DEF s
<1> QED
  BY <1>1, <1>2, <1>3, <1>4, <1>5, <1>6, <1>7, <1>8, <1>9, <1>10, <1>11

\* The statements of one migration stand together in the plan.
First == <<1, 3, 6, 8, 10>>
Size == <<1, 2, 1, 1, 1>>

\* Each migration is a stretch of the plan.
LEMMA MigrationInPlan ==
  ASSUME NEW id \in Ids
  PROVE  OfMigration(id) = SubSeq(Plan, First[id], First[id] + Size[id])
<1> DEFINE n == Size[id]
           m == First[id]
           verbs == [i \in 1 .. n |-> S(id, Verbs[id][i])]
           record == S(id, "record")
           piece == SubSeq(Plan, m, m + n)
<1>a. n \in Nat /\ m \in 1 .. 11 /\ m + n <= 11 /\ DOMAIN Verbs[id] = 1 .. n
  <2>1. CASE id = 1
    BY <2>1 DEF First, Size, Verbs
  <2>2. CASE id = 2
    BY <2>2 DEF First, Size, Verbs
  <2>3. CASE id = 3
    BY <2>3 DEF First, Size, Verbs
  <2>4. CASE id = 4
    BY <2>4 DEF First, Size, Verbs
  <2>5. CASE id = 5
    BY <2>5 DEF First, Size, Verbs
  <2> QED
    BY <2>1, <2>2, <2>3, <2>4, <2>5, FiveMigrations
<1>b. (\A i \in 1 .. n : Plan[m + i - 1] = S(id, Verbs[id][i])) /\ Plan[m + n] = record
  <2>1. CASE id = 1
    <3>1. Plan[1] = S(1, Verbs[1][1]) /\ Plan[2] = S(1, "record")
      BY DEF Plan, Verbs
    <3>2. m = 1 /\ n = 1
      BY <2>1 DEF First, Size
    <3> QED
      BY <2>1, <3>1, <3>2
  <2>2. CASE id = 2
    <3>1. Plan[3] = S(2, Verbs[2][1]) /\ Plan[4] = S(2, Verbs[2][2]) /\ Plan[5] = S(2, "record")
      BY DEF Plan, Verbs
    <3>2. m = 3 /\ n = 2
      BY <2>2 DEF First, Size
    <3> QED
      BY <2>2, <3>1, <3>2
  <2>3. CASE id = 3
    <3>1. Plan[6] = S(3, Verbs[3][1]) /\ Plan[7] = S(3, "record")
      BY DEF Plan, Verbs
    <3>2. m = 6 /\ n = 1
      BY <2>3 DEF First, Size
    <3> QED
      BY <2>3, <3>1, <3>2
  <2>4. CASE id = 4
    <3>1. Plan[8] = S(4, Verbs[4][1]) /\ Plan[9] = S(4, "record")
      BY DEF Plan, Verbs
    <3>2. m = 8 /\ n = 1
      BY <2>4 DEF First, Size
    <3> QED
      BY <2>4, <3>1, <3>2
  <2>5. CASE id = 5
    <3>1. Plan[10] = S(5, Verbs[5][1]) /\ Plan[11] = S(5, "record")
      BY DEF Plan, Verbs
    <3>2. m = 10 /\ n = 1
      BY <2>5 DEF First, Size
    <3> QED
      BY <2>5, <3>1, <3>2
  <2> QED
    BY <2>1, <2>2, <2>3, <2>4, <2>5, FiveMigrations
<1> HIDE DEF n, m
<1>1. verbs \in Seq(Statement) /\ Len(verbs) = n /\ \A i \in 1 .. n : verbs[i] = Plan[m + i - 1]
  BY <1>a, <1>b, StatementsOf
<1>2. record \in Statement /\ record = Plan[m + n]
  BY <1>b, StatementsOf
<1>3. OfMigration(id) = verbs \o <<record>>
  BY <1>a DEF OfMigration, S
<1> HIDE DEF verbs, record
<1>4. <<record>> \in Seq(Statement) /\ Len(<<record>>) = 1 /\ <<record>>[1] = record
  BY <1>2
<1>5. /\ OfMigration(id) \in Seq(Statement) /\ Len(OfMigration(id)) = n + 1
      /\ \A i \in 1 .. n + 1 : OfMigration(id)[i] = Plan[m + i - 1]
  <2>1. /\ verbs \o <<record>> \in Seq(Statement) /\ Len(verbs \o <<record>>) = n + 1
        /\ \A i \in 1 .. n + 1 : (verbs \o <<record>>)[i] =
             IF i <= n THEN verbs[i] ELSE <<record>>[i - n]
    BY <1>a, <1>1, <1>4, ConcatProperties
  <2> QED
    BY <1>a, <1>1, <1>2, <1>3, <1>4, <2>1
<1>6. \A i \in m .. m + n : Plan[i] \in Statement
  <2>1. Len(Plan) = 11
    BY DEF Plan
  <2> QED
    <3> SUFFICES ASSUME NEW i \in m .. m + n PROVE Plan[i] \in Statement
      OBVIOUS
    <3>1. i \in 1 .. Len(Plan)
      BY <1>a, <2>1
    <3> QED
      BY <3>1, PlanIsSequence, ElementOfSeq
<1>7. piece \in Seq(Statement) /\ Len(piece) = n + 1 /\ \A i \in 1 .. n + 1 : piece[i] = Plan[m + i - 1]
  BY <1>a, <1>6, SubSeqProperties
<1> HIDE DEF piece
<1>8. OfMigration(id) = piece
  BY <1>5, <1>7, SeqEqual
<1> QED
  BY <1>8 DEF piece, n, m

\* So the plan is the five migrations in a row.
LEMMA MigrationsInPlan ==
  /\ OfMigration(1) = Part(1, 2) /\ OfMigration(2) = Part(3, 5)
  /\ OfMigration(3) = Part(6, 7) /\ OfMigration(4) = Part(8, 9)
  /\ OfMigration(5) = Part(10, 11)
BY MigrationInPlan, FiveMigrations DEF First, Size, Part

\* What a start reads as pending is the rest of the plan.
LEMMA PendingIsTheRest ==
  ASSUME NEW j \in Starts0
  PROVE  Pending(LedgerAt(j)) = From(j)
<1>p. Plan \in Seq(Statement) /\ Len(Plan) = 11
  BY PlanIsSequence DEF Plan
<1>e. Part(12, 11) = <<>> /\ Part(1, 0) = <<>>
  BY SubSeqEmpty DEF Part
<1>q. \A m, n \in 1 .. 11 : m <= n => Part(m, n) \in Seq(Statement)
  <2> SUFFICES ASSUME NEW m \in 1 .. 11, NEW n \in 1 .. 11, m <= n
               PROVE  Part(m, n) \in Seq(Statement)
    OBVIOUS
  <2>1. ASSUME NEW i \in m .. n PROVE Plan[i] \in Statement
    <3>1. i \in 1 .. Len(Plan)
      BY <1>p
    <3> QED
      BY <1>p, <3>1, ElementOfSeq
  <2> QED
    BY <2>1, SubSeqProperties DEF Part
<1> DEFINE Joined(m, k, l, n) == Part(m, k) \o Part(l, n) = Part(m, n)
<1>c. ASSUME NEW m \in 1 .. 11, NEW k \in 1 .. 11, NEW l \in 1 .. 11, NEW n \in 1 .. 11,
             m <= k /\ k < n /\ l = k + 1
      PROVE  Joined(m, k, l, n)
  BY <1>c, <1>p, ConcatAdjacentSubSeq DEF Part
<1>j. /\ Joined(1, 2, 3, 5) /\ Joined(1, 5, 6, 7) /\ Joined(1, 7, 8, 9) /\ Joined(1, 9, 10, 11)
      /\ Joined(3, 5, 6, 7) /\ Joined(3, 7, 8, 9) /\ Joined(3, 9, 10, 11)
      /\ Joined(6, 7, 8, 9) /\ Joined(6, 9, 10, 11) /\ Joined(8, 9, 10, 11)
  <2> HIDE DEF Joined
  <2> QED
    BY <1>c
<1>d. <<>> \o <<>> = <<>> /\ \A s \in Seq(Statement) : <<>> \o s = s
  BY ConcatEmptySeq
<1>1. Pending(LedgerAt(1)) = From(1)
  <2>1. LedgerAt(1) = 1 .. 0
    BY SchemaTells
  <2>2. Pending(1 .. 0) = Part(1, 2) \o Part(3, 5) \o Part(6, 7) \o Part(8, 9) \o Part(10, 11)
    BY MigrationsInPlan DEF Pending
  <2>3. /\ Part(1, 2) \o Part(3, 5) = Part(1, 5)
        /\ Part(1, 5) \o Part(6, 7) = Part(1, 7)
        /\ Part(1, 7) \o Part(8, 9) = Part(1, 9)
        /\ Part(1, 9) \o Part(10, 11) = Part(1, 11)
    <3>1. Part(1, 2) \o Part(3, 5) = Part(1, 5)
      BY <1>j
    <3>2. Part(1, 5) \o Part(6, 7) = Part(1, 7)
      BY <1>j
    <3>3. Part(1, 7) \o Part(8, 9) = Part(1, 9)
      BY <1>j
    <3>4. Part(1, 9) \o Part(10, 11) = Part(1, 11)
      BY <1>j
    <3> QED
      BY <3>1, <3>2, <3>3, <3>4
  <2> QED
    BY <2>1, <2>2, <2>3, <1>e DEF From
<1>2. Pending(LedgerAt(3)) = From(3)
  <2>1. LedgerAt(3) = 1 .. 1
    BY SchemaTells
  <2>2. Pending(1 .. 1) = <<>> \o Part(3, 5) \o Part(6, 7) \o Part(8, 9) \o Part(10, 11)
    BY MigrationsInPlan DEF Pending
  <2>3. /\ <<>> \o Part(3, 5) = Part(3, 5)
        /\ Part(3, 5) \o Part(6, 7) = Part(3, 7)
        /\ Part(3, 7) \o Part(8, 9) = Part(3, 9)
        /\ Part(3, 9) \o Part(10, 11) = Part(3, 11)
    <3>1. <<>> \o Part(3, 5) = Part(3, 5)
      BY <1>d, <1>q
    <3>2. Part(3, 5) \o Part(6, 7) = Part(3, 7)
      BY <1>j
    <3>3. Part(3, 7) \o Part(8, 9) = Part(3, 9)
      BY <1>j
    <3>4. Part(3, 9) \o Part(10, 11) = Part(3, 11)
      BY <1>j
    <3> QED
      BY <3>1, <3>2, <3>3, <3>4
  <2> QED
    BY <2>1, <2>2, <2>3, <1>e DEF From
<1>3. Pending(LedgerAt(6)) = From(6)
  <2>1. LedgerAt(6) = 1 .. 2
    BY SchemaTells
  <2>2. Pending(1 .. 2) = <<>> \o <<>> \o Part(6, 7) \o Part(8, 9) \o Part(10, 11)
    BY MigrationsInPlan DEF Pending
  <2>3. /\ <<>> \o <<>> = <<>>
        /\ <<>> \o Part(6, 7) = Part(6, 7)
        /\ Part(6, 7) \o Part(8, 9) = Part(6, 9)
        /\ Part(6, 9) \o Part(10, 11) = Part(6, 11)
    <3>1. <<>> \o <<>> = <<>>
      BY <1>d
    <3>2. <<>> \o Part(6, 7) = Part(6, 7)
      BY <1>d, <1>q
    <3>3. Part(6, 7) \o Part(8, 9) = Part(6, 9)
      BY <1>j
    <3>4. Part(6, 9) \o Part(10, 11) = Part(6, 11)
      BY <1>j
    <3> QED
      BY <3>1, <3>2, <3>3, <3>4
  <2> QED
    BY <2>1, <2>2, <2>3, <1>e DEF From
<1>4. Pending(LedgerAt(8)) = From(8)
  <2>1. LedgerAt(8) = 1 .. 3
    BY SchemaTells
  <2>2. Pending(1 .. 3) = <<>> \o <<>> \o <<>> \o Part(8, 9) \o Part(10, 11)
    BY MigrationsInPlan DEF Pending
  <2>3. /\ <<>> \o <<>> = <<>>
        /\ <<>> \o Part(8, 9) = Part(8, 9)
        /\ Part(8, 9) \o Part(10, 11) = Part(8, 11)
    <3>1. <<>> \o <<>> = <<>>
      BY <1>d
    <3>2. <<>> \o Part(8, 9) = Part(8, 9)
      BY <1>d, <1>q
    <3>3. Part(8, 9) \o Part(10, 11) = Part(8, 11)
      BY <1>j
    <3> QED
      BY <3>1, <3>2, <3>3
  <2> QED
    BY <2>1, <2>2, <2>3, <1>e DEF From
<1>5. Pending(LedgerAt(10)) = From(10)
  <2>1. LedgerAt(10) = 1 .. 4
    BY SchemaTells
  <2>2. Pending(1 .. 4) = <<>> \o <<>> \o <<>> \o <<>> \o Part(10, 11)
    BY MigrationsInPlan DEF Pending
  <2>3. /\ <<>> \o <<>> = <<>>
        /\ <<>> \o Part(10, 11) = Part(10, 11)
    <3>1. <<>> \o <<>> = <<>>
      BY <1>d
    <3>2. <<>> \o Part(10, 11) = Part(10, 11)
      BY <1>d, <1>q
    <3> QED
      BY <3>1, <3>2
  <2> QED
    BY <2>1, <2>2, <2>3, <1>e DEF From
<1>6. Pending(LedgerAt(12)) = From(12)
  <2>1. LedgerAt(12) = 1 .. 5
    BY SchemaTells
  <2>2. Pending(1 .. 5) = <<>> \o <<>> \o <<>> \o <<>> \o <<>>
    BY MigrationsInPlan DEF Pending
  <2>3. /\ <<>> \o <<>> = <<>>
    <3>1. <<>> \o <<>> = <<>>
      BY <1>d
    <3> QED
      BY <3>1
  <2> QED
    BY <2>1, <2>2, <2>3, <1>e DEF From
<1> QED
  BY <1>1, <1>2, <1>3, <1>4, <1>5, <1>6 DEF Starts0

\* So is what is left of it at each position.
LEMMA FromIsSequence == \A j \in Positions : From(j) \in Seq(Statement)
<1> SUFFICES ASSUME NEW j \in Positions PROVE From(j) \in Seq(Statement)
  OBVIOUS
<1>1. Plan \in Seq(Statement) /\ Len(Plan) = 11
  BY PlanIsSequence DEF Plan
<1>2. ASSUME NEW i \in j .. 11 PROVE Plan[i] \in Statement
  <2>1. i \in 1 .. Len(Plan)
    BY <1>1 DEF Positions
  <2> QED
    BY <1>1, <2>1, ElementOfSeq
<1> QED
  BY <1>2, SubSeqProperties DEF From, Part, Positions

\* A file between two migrations has the schema of its ledger.
LEMMA ReadyTells ==
  ASSUME NEW d, NEW j \in Starts0, Ready(d, j)
  PROVE  d.columns = ColumnsOf(d.ledger)
<1>1. ColumnsAt(1) = ColumnsOf(1 .. 0) /\ LedgerAt(1) = 1 .. 0
  BY SchemaTells DEF ColumnsOf
<1>2. ColumnsAt(3) = ColumnsOf(1 .. 1) /\ LedgerAt(3) = 1 .. 1
  BY SchemaTells DEF ColumnsOf
<1>3. ColumnsAt(6) = ColumnsOf(1 .. 2) /\ LedgerAt(6) = 1 .. 2
  BY SchemaTells DEF ColumnsOf
<1>4. ColumnsAt(8) = ColumnsOf(1 .. 3) /\ LedgerAt(8) = 1 .. 3
  BY SchemaTells DEF ColumnsOf
<1>5. ColumnsAt(10) = ColumnsOf(1 .. 4) /\ LedgerAt(10) = 1 .. 4
  BY SchemaTells DEF ColumnsOf
<1>6. ColumnsAt(12) = ColumnsOf(1 .. 5) /\ LedgerAt(12) = 1 .. 5
  BY SchemaTells DEF ColumnsOf
<1> QED
  BY <1>1, <1>2, <1>3, <1>4, <1>5, <1>6 DEF Ready, Starts0

\* A file an earlier release left behind is one.
LEMMA SiteReady ==
  ASSUME NEW d \in Database, d.columns = ColumnsOf(d.ledger),
         NEW n \in 0 .. Len(Verbs), d.ledger = 1 .. n
  PROVE  \E j \in Starts0 : Ready(d, j)
<1>1. n \in 0 .. 5
  BY FiveMigrations
<1>2. \E j \in Starts0 : LedgerAt(j) = 1 .. n /\ ColumnsAt(j) = ColumnsOf(1 .. n)
  <2>1. CASE n = 0
    BY <2>1 DEF Starts0, LedgerAt, ColumnsAt, ColumnsOf
  <2>2. CASE n = 1
    <3>1. LedgerAt(3) = 1 .. n /\ ColumnsAt(3) = ColumnsOf(1 .. n)
      BY <2>2, SchemaTells DEF ColumnsOf
    <3> QED
      BY <3>1 DEF Starts0
  <2>3. CASE n = 2
    <3>1. LedgerAt(6) = 1 .. n /\ ColumnsAt(6) = ColumnsOf(1 .. n)
      BY <2>3, SchemaTells DEF ColumnsOf
    <3> QED
      BY <3>1 DEF Starts0
  <2>4. CASE n = 3
    <3>1. LedgerAt(8) = 1 .. n /\ ColumnsAt(8) = ColumnsOf(1 .. n)
      BY <2>4, SchemaTells DEF ColumnsOf
    <3> QED
      BY <3>1 DEF Starts0
  <2>5. CASE n = 4
    <3>1. LedgerAt(10) = 1 .. n /\ ColumnsAt(10) = ColumnsOf(1 .. n)
      BY <2>5, SchemaTells DEF ColumnsOf
    <3> QED
      BY <3>1 DEF Starts0
  <2>6. CASE n = 5
    <3>1. LedgerAt(12) = 1 .. n /\ ColumnsAt(12) = ColumnsOf(1 .. n)
      BY <2>6, SchemaTells DEF ColumnsOf
    <3> QED
      BY <3>1 DEF Starts0
  <2> QED
    BY <1>1, <2>1, <2>2, <2>3, <2>4, <2>5, <2>6
<1> QED
  BY <1>2 DEF Ready

\* What a file is ready for depends on its schema and its ledger.
LEMMA SameSchema ==
  ASSUME NEW d, NEW j, Ready(d, j), NEW e \in Database, e.columns = d.columns, e.ledger = d.ledger
  PROVE  Ready(e, j)
BY DEF Ready

\* The committed file stands between two migrations.
Whole == \E j \in Starts0 : Ready(database, j)

\* A transaction has the rest of the plan to run that the file needs as the
\* transaction sees it; a snapshot somebody has overtaken is not what it sees.
Transacts(p) ==
  starters[p].pc = "applying" =>
    /\ starters[p].base <= stamp
    /\ \E j \in Positions :
         /\ starters[p].rest = From(j)
         /\ writer = p => Ready(starters[p].draft, j)
         /\ writer # p => /\ starters[p].base = stamp => Ready(database, j)
                          /\ j = 12 => database.ledger = Ids

\* Whoever holds the lock is migrating a file that needs it.
Locks(p) == writer = p => starters[p].pc = "applying" /\ database.ledger # Ids

\* The strengthening of MigrationsHappenOnce: whoever migrates has the rest of the plan
\* before it and a draft that is ready for it.
BootInv ==
  /\ BootTypeOK /\ Whole /\ ServesMigrated /\ NothingAppliedTwice
  /\ \A p \in Starters : Transacts(p) /\ Locks(p)

\* The file an earlier release left is ready for the rest of the plan.
LEMMA BootInvInit == BootInit => BootInv
<1> SUFFICES ASSUME BootInit PROVE BootInv
  OBVIOUS
<1>1. PICK site \in Sites : database = site.database
  BY DEF BootInit
<1>2. /\ site.database \in Database /\ site.database.columns = ColumnsOf(site.database.ledger)
      /\ \E n \in 0 .. Len(Verbs) : site.database.ledger = 1 .. n
  BY BootAssumption
<1>3. Whole
  BY <1>1, <1>2, SiteReady DEF Whole
<1>4. \A p \in Starters : starters[p] = Idle(database)
  BY DEF BootInit
<1>5. Idle(database) \in Starter /\ Idle(database).pc = "down" /\ Idle(database).died = "no"
  <2>1. database \in Database
    BY <1>1, <1>2
  <2>2. <<>> \in Seq(Statement)
    OBVIOUS
  <2> QED
    BY <2>1, <2>2 DEF Idle, Starter
<1>6. BootTypeOK
  BY <1>1, <1>2, <1>4, <1>5, BootAssumption DEF BootInit, BootTypeOK
<1>7. ServesMigrated /\ NothingAppliedTwice
  BY <1>4, <1>5 DEF ServesMigrated, NothingAppliedTwice
<1>8. \A p \in Starters : Transacts(p) /\ Locks(p)
  BY <1>4, <1>5, BootAssumption DEF Transacts, Locks, BootInit
<1> QED
  BY <1>3, <1>6, <1>7, <1>8 DEF BootInv

\* A start that goes no further than its process state disturbs nothing.
LEMMA BootStep ==
  ASSUME BootInv, NEW p \in Starters, boot(p)
  PROVE  BootInv'
<1>1. BootTypeOK /\ Whole /\ ServesMigrated /\ NothingAppliedTwice
      /\ \A q \in Starters : Transacts(q) /\ Locks(q)
  BY DEF BootInv
<1> DEFINE t == [starters[p] EXCEPT !.pc = IF settings = Refused THEN "refused" ELSE "opening",
                                    !.died = "no"]
<1>2. starters' = [starters EXCEPT ![p] = t] /\ starters[p].pc = "down"
      /\ UNCHANGED <<database, stamp, writer, crashes, edits>>
  BY <1>1 DEF boot, BootTypeOK
<1>3. t \in Starter /\ t.pc \in {"refused", "opening"} /\ t.died = "no"
  BY <1>1 DEF BootTypeOK, Starter
<1> HIDE DEF t
<1>4. starters'[p] = t /\ \A q \in Starters : q # p => starters'[q] = starters[q]
  BY <1>1, <1>2 DEF BootTypeOK
<1>5. BootTypeOK'
  BY <1>1, <1>2, <1>3 DEF BootTypeOK
<1>6. Whole'
  BY <1>1, <1>2 DEF Whole
<1>7. ServesMigrated' /\ NothingAppliedTwice'
  BY <1>1, <1>2, <1>3, <1>4 DEF ServesMigrated, NothingAppliedTwice
<1>8. ASSUME NEW q \in Starters PROVE Transacts(q)' /\ Locks(q)'
  <2>1. CASE q = p
    BY <2>1, <1>1, <1>2, <1>3, <1>4 DEF Transacts, Locks
  <2>2. CASE q # p
    BY <2>2, <1>1, <1>2, <1>4 DEF Transacts, Locks
  <2> QED
    BY <2>1, <2>2
<1> QED
  BY <1>5, <1>6, <1>7, <1>8 DEF BootInv

\* Neither does one that ends: what it had not committed was nowhere but in its draft.
LEMMA EndStep ==
  ASSUME BootInv, NEW p \in Starters, NEW why \in {"no", "busy"}, Ends(p, why),
         UNCHANGED <<database, stamp, edits>>, crashes' \in 0 .. MaxCrashes
  PROVE  BootInv'
<1>1. BootTypeOK /\ Whole /\ ServesMigrated /\ NothingAppliedTwice
      /\ \A q \in Starters : Transacts(q) /\ Locks(q)
  BY DEF BootInv
<1> DEFINE t == [Idle(database) EXCEPT !.died = why]
<1>2. starters' = [starters EXCEPT ![p] = t]
      /\ writer' = (IF writer = p THEN NoOwner ELSE writer)
  BY DEF Ends
<1>3. t \in Starter /\ t.pc = "down" /\ t.died # "statement"
  <2>1. database \in Database /\ <<>> \in Seq(Statement)
    BY <1>1 DEF BootTypeOK
  <2> QED
    BY <2>1 DEF Idle, Starter
<1> HIDE DEF t
<1>4. starters'[p] = t /\ \A q \in Starters : q # p => starters'[q] = starters[q]
  BY <1>1, <1>2 DEF BootTypeOK
<1>5. BootTypeOK'
  BY <1>1, <1>2, <1>3 DEF BootTypeOK
<1>6. Whole'
  BY <1>1 DEF Whole
<1>7. ServesMigrated' /\ NothingAppliedTwice'
  BY <1>1, <1>3, <1>4 DEF ServesMigrated, NothingAppliedTwice
<1>8. ASSUME NEW q \in Starters PROVE Transacts(q)' /\ Locks(q)'
  <2>1. CASE q = p
    BY <2>1, <1>1, <1>2, <1>3, <1>4, BootAssumption DEF Transacts, Locks
  <2>2. CASE q # p
    <3>1. writer' = q <=> writer = q
      BY <2>2, <1>2, BootAssumption
    <3> QED
      BY <2>2, <3>1, <1>1, <1>4 DEF Transacts, Locks
  <2> QED
    BY <2>1, <2>2
<1> QED
  BY <1>5, <1>6, <1>7, <1>8 DEF BootInv

\* A commit that leaves schema and ledger alone only makes other snapshots stale.
LEMMA TouchStep ==
  ASSUME BootInv, writer = NoOwner, writer' = NoOwner, database' \in Database,
         database'.columns = database.columns, database'.ledger = database.ledger,
         stamp' = stamp + 1
  PROVE  /\ Whole'
         /\ \A q \in Starters : starters'[q] = starters[q] => Transacts(q)' /\ Locks(q)'
<1>1. BootTypeOK /\ Whole /\ \A q \in Starters : Transacts(q) /\ Locks(q)
  BY DEF BootInv
<1>2. Whole'
  <2>1. PICK j \in Starts0 : Ready(database, j)
    BY <1>1 DEF Whole
  <2>2. Ready(database', j)
    BY <2>1, SameSchema
  <2> QED
    BY <2>2 DEF Whole
<1>3. ASSUME NEW q \in Starters, starters'[q] = starters[q] PROVE Transacts(q)' /\ Locks(q)'
  <2>1. writer # q /\ writer' # q
    BY BootAssumption
  <2>2. starters[q].base \in Nat /\ stamp \in Nat
    BY <1>1 DEF BootTypeOK, Starter
  <2>3. Transacts(q)'
    BY <1>1, <1>3, <2>1, <2>2 DEF Transacts
  <2> QED
    BY <2>1, <2>3 DEF Locks
<1> QED
  BY <1>2, <1>3

\* Listing the migrations changes no column.
LEMMA OpenStep ==
  ASSUME BootInv, NEW p \in Starters, Open(p)
  PROVE  BootInv'
<1>1. BootTypeOK /\ Whole /\ ServesMigrated /\ NothingAppliedTwice
      /\ \A q \in Starters : Transacts(q) /\ Locks(q)
  BY DEF BootInv
<1> DEFINE t == [starters[p] EXCEPT !.pc = "reading"]
<1>2. starters' = [starters EXCEPT ![p] = t] /\ starters[p].pc = "opening"
      /\ UNCHANGED <<writer, crashes, edits>>
  BY <1>1 DEF Open, BootTypeOK
<1>3. t \in Starter /\ t.pc = "reading" /\ t.died = starters[p].died
  BY <1>1 DEF BootTypeOK, Starter
<1> HIDE DEF t
<1>4. starters'[p] = t /\ \A q \in Starters : q # p => starters'[q] = starters[q]
  BY <1>1, <1>2 DEF BootTypeOK
<1>5. /\ database' \in Database /\ database'.columns = database.columns
      /\ database'.ledger = database.ledger
      /\ \/ UNCHANGED <<database, stamp>>
         \/ writer = NoOwner /\ stamp' = stamp + 1
  <2>1. CASE database.listed
    BY <2>1, <1>1 DEF Open, BootTypeOK
  <2>2. CASE ~database.listed
    <3>1. database' = [database EXCEPT !.listed = TRUE] /\ stamp' = stamp + 1 /\ writer = NoOwner
      BY <2>2 DEF Open
    <3> QED
      BY <3>1, <1>1 DEF BootTypeOK, Database
  <2> QED
    BY <2>1, <2>2
<1>6. BootTypeOK'
  BY <1>1, <1>2, <1>3, <1>5 DEF BootTypeOK
<1>7. ServesMigrated' /\ NothingAppliedTwice'
  BY <1>1, <1>3, <1>4, <1>5 DEF ServesMigrated, NothingAppliedTwice
<1>8. Whole' /\ \A q \in Starters : q # p => Transacts(q)' /\ Locks(q)'
  <2>1. CASE UNCHANGED <<database, stamp>>
    BY <2>1, <1>1, <1>2, <1>4 DEF Whole, Transacts, Locks
  <2>2. CASE writer = NoOwner /\ stamp' = stamp + 1
    BY <2>2, <1>2, <1>4, <1>5, TouchStep
  <2> QED
    BY <2>1, <2>2, <1>5
<1>9. Transacts(p)' /\ Locks(p)'
  BY <1>1, <1>2, <1>3, <1>4 DEF Transacts, Locks
<1> QED
  BY <1>6, <1>7, <1>8, <1>9 DEF BootInv

\* What is pending by the ledger is the rest of the plan.
LEMMA ReadLedgerStep ==
  ASSUME BootInv, NEW p \in Starters, ReadLedger(p)
  PROVE  BootInv'
<1>1. BootTypeOK /\ Whole /\ ServesMigrated /\ NothingAppliedTwice
      /\ \A q \in Starters : Transacts(q) /\ Locks(q)
  BY DEF BootInv
<1> DEFINE t == [starters[p] EXCEPT !.pc = "applying", !.draft = database, !.base = stamp,
                                    !.rest = Pending(database.ledger)]
<1>2. starters' = [starters EXCEPT ![p] = t] /\ starters[p].pc = "reading"
      /\ UNCHANGED <<database, stamp, writer, crashes, edits>>
  BY <1>1 DEF ReadLedger, BootTypeOK
<1>3. PICK j \in Starts0 : Ready(database, j)
  BY <1>1 DEF Whole
<1>4. Pending(database.ledger) = From(j) /\ From(j) \in Seq(Statement) /\ j \in Positions
  <2>1. j \in Positions /\ database.ledger = LedgerAt(j)
    BY <1>3 DEF Starts0, Positions, Ready
  <2> QED
    BY <2>1, PendingIsTheRest, FromIsSequence
<1>5. /\ t \in Starter /\ t.pc = "applying" /\ t.died = starters[p].died
      /\ t.base = stamp /\ t.rest = From(j)
  BY <1>1, <1>4 DEF BootTypeOK, Starter
<1> HIDE DEF t
<1>6. starters'[p] = t /\ \A q \in Starters : q # p => starters'[q] = starters[q]
  BY <1>1, <1>2 DEF BootTypeOK
<1>7. BootTypeOK'
  BY <1>1, <1>2, <1>5 DEF BootTypeOK
<1>8. Whole' /\ ServesMigrated' /\ NothingAppliedTwice'
  BY <1>1, <1>2, <1>5, <1>6 DEF Whole, ServesMigrated, NothingAppliedTwice
<1>9. Transacts(p)' /\ Locks(p)'
  <2>1. writer # p
    BY <1>1, <1>2 DEF Locks
  <2>2. j = 12 => database.ledger = Ids
    BY <1>3, SchemaTells, FiveMigrations DEF Ready
  <2>3. stamp <= stamp
    BY <1>1 DEF BootTypeOK
  <2>4. Transacts(p)'
    BY <2>1, <2>2, <2>3, <1>2, <1>3, <1>4, <1>5, <1>6 DEF Transacts
  <2> QED
    BY <2>1, <2>4, <1>2 DEF Locks
<1>10. \A q \in Starters : q # p => Transacts(q)' /\ Locks(q)'
  BY <1>1, <1>2, <1>6 DEF Transacts, Locks
<1> QED
  BY <1>7, <1>8, <1>9, <1>10 DEF BootInv

\* The next statement of the plan runs on a file that is ready for it: it never fails.
LEMMA ApplyStep ==
  ASSUME BootInv, NEW p \in Starters, Apply(p)
  PROVE  BootInv'
<1>1. BootTypeOK /\ Whole /\ ServesMigrated /\ NothingAppliedTwice
      /\ \A q \in Starters : Transacts(q) /\ Locks(q)
  BY DEF BootInv
<1> DEFINE s == Head(starters[p].rest)
<1>2. starters[p].pc = "applying" /\ starters[p].rest # <<>>
      /\ UNCHANGED <<database, stamp, crashes, edits>>
  BY DEF Apply
<1>3. CASE ~MayWrite(p)
  <2>1. Ends(p, "busy")
    BY <1>3 DEF Apply
  <2> QED
    BY <2>1, <1>1, <1>2, EndStep DEF BootTypeOK
<1>4. CASE MayWrite(p)
  <2>1. PICK j \in Positions :
          /\ starters[p].rest = From(j)
          /\ writer = p => Ready(starters[p].draft, j)
          /\ writer # p => (starters[p].base = stamp => Ready(database, j))
    BY <1>1, <1>2 DEF Transacts
  <2>2. j \in 1 .. 11 /\ j + 1 \in Positions
    <3>1. j # 12
      BY <1>2, <2>1, FromSteps
    <3> QED
      BY <3>1 DEF Positions
  <2>3. s = Plan[j] /\ Tail(starters[p].rest) = From(j + 1)
    BY <2>1, <2>2, FromSteps
  <2>4. Ready(Sees(p), j)
    BY <1>4, <2>1 DEF MayWrite, Sees
  <2> DEFINE e == Executed(s, Sees(p))
  <2>5. ~FailsOn(s, Sees(p)) /\ Ready(e, j + 1)
    BY <2>2, <2>3, <2>4, StatementReady
  <2> DEFINE t == [starters[p] EXCEPT !.draft = e, !.rest = Tail(@)]
  <2>6. writer' = p /\ starters' = [starters EXCEPT ![p] = t]
    <3>1. writer' = p /\ starters' = [starters EXCEPT ![p].draft = e, ![p].rest = Tail(@)]
      BY <1>4, <2>5 DEF Apply
    <3> QED
      BY <3>1, <1>1 DEF BootTypeOK
  <2> HIDE DEF e
  <2>7. /\ t \in Starter /\ t.pc = "applying" /\ t.died = starters[p].died
        /\ t.base = starters[p].base /\ t.rest = From(j + 1) /\ t.draft = e
    <3>1. e \in Database /\ From(j + 1) \in Seq(Statement)
      BY <2>2, <2>5, FromIsSequence DEF Ready
    <3> QED
      BY <3>1, <2>3, <1>1, <1>2 DEF BootTypeOK, Starter
  <2> HIDE DEF t
  <2>8. starters'[p] = t /\ \A q \in Starters : q # p => starters'[q] = starters[q]
    BY <1>1, <2>6 DEF BootTypeOK
  <2>9. BootTypeOK'
    BY <1>1, <1>2, <2>6, <2>7 DEF BootTypeOK
  <2>10. Whole' /\ ServesMigrated' /\ NothingAppliedTwice'
    BY <1>1, <1>2, <2>7, <2>8 DEF Whole, ServesMigrated, NothingAppliedTwice
  <2>11. Transacts(p)'
    BY <1>1, <1>2, <2>2, <2>5, <2>6, <2>7, <2>8 DEF Transacts
  <2>12. Locks(p)'
    <3>1. CASE writer = p
      BY <3>1, <1>1, <1>2, <2>7, <2>8 DEF Locks
    <3>2. CASE writer # p
      <4>1. Sees(p) = database
        BY <3>2 DEF Sees
      <4>2. 5 \notin LedgerAt(j) /\ 5 \in Ids
        BY <2>2, FiveMigrations DEF LedgerAt
      <4> QED
        BY <4>1, <4>2, <1>2, <2>4, <2>7, <2>8 DEF Locks, Ready
    <3> QED
      BY <3>1, <3>2
  <2>13. ASSUME NEW q \in Starters, q # p PROVE Transacts(q)' /\ Locks(q)'
    <3>1. writer # q
      BY <1>4, <2>13, BootAssumption DEF MayWrite
    <3> QED
      BY <3>1, <2>13, <1>1, <1>2, <2>6, <2>8 DEF Transacts, Locks
  <2> QED
    BY <2>9, <2>10, <2>11, <2>12, <2>13 DEF BootInv
<1> QED
  BY <1>3, <1>4

\* A commit is of the whole plan, and changes the ledger of a file that needed it.
LEMMA CommitTells ==
  ASSUME BootInv, NEW p \in Starters, Commit(p)
  PROVE  /\ Ready(database', 12) \/ UNCHANGED database
         /\ database'.ledger = Ids
         /\ database'.ledger = database.ledger => UNCHANGED database
<1>1. BootTypeOK /\ Whole /\ \A q \in Starters : Transacts(q) /\ Locks(q)
  BY DEF BootInv
<1>2. starters[p].pc = "applying" /\ starters[p].rest = <<>>
  BY DEF Commit
<1>3. PICK j \in Positions :
        /\ starters[p].rest = From(j)
        /\ writer = p => Ready(starters[p].draft, j)
        /\ writer # p => (j = 12 => database.ledger = Ids)
  BY <1>1, <1>2 DEF Transacts
<1>4. j = 12
  <2>1. j \in 1 .. 11 => From(j) # <<>>
    BY FromSteps
  <2> QED
    BY <2>1, <1>2, <1>3 DEF Positions
<1>5. CASE writer = p
  <2>1. database' = starters[p].draft
    BY <1>5 DEF Commit
  <2>2. Ready(database', 12)
    BY <2>1, <1>3, <1>4, <1>5
  <2>3. database'.ledger = Ids
    BY <2>2, SchemaTells, FiveMigrations DEF Ready
  <2>4. database.ledger # Ids
    BY <1>1, <1>5 DEF Locks
  <2> QED
    BY <2>2, <2>3, <2>4
<1>6. CASE writer # p
  BY <1>3, <1>4, <1>6 DEF Commit
<1> QED
  BY <1>5, <1>6

\* A committed draft is the whole plan done.
LEMMA CommitStep ==
  ASSUME BootInv, NEW p \in Starters, Commit(p)
  PROVE  BootInv'
<1>1. BootTypeOK /\ Whole /\ ServesMigrated /\ NothingAppliedTwice
      /\ \A q \in Starters : Transacts(q) /\ Locks(q)
  BY DEF BootInv
<1> DEFINE t == [starters[p] EXCEPT !.pc = "serving"]
<1>2. starters' = [starters EXCEPT ![p] = t] /\ UNCHANGED <<crashes, edits>>
  BY <1>1 DEF Commit, BootTypeOK
<1>3. t \in Starter /\ t.pc = "serving" /\ t.died = starters[p].died
  BY <1>1 DEF BootTypeOK, Starter
<1> HIDE DEF t
<1>4. starters'[p] = t /\ \A q \in Starters : q # p => starters'[q] = starters[q]
  BY <1>1, <1>2 DEF BootTypeOK
<1>5. /\ database'.ledger = Ids
      /\ \/ writer = p /\ writer' = NoOwner /\ stamp' = stamp + 1
         \/ writer # p /\ UNCHANGED <<database, stamp, writer>>
      /\ Ready(database', 12) \/ UNCHANGED database
  BY CommitTells DEF Commit
<1>6. Whole'
  BY <1>1, <1>5 DEF Whole, Starts0
<1>7. BootTypeOK'
  <2>1. database' \in Database
    BY <1>1, <1>5 DEF Ready, BootTypeOK
  <2> QED
    BY <2>1, <1>1, <1>2, <1>3, <1>5 DEF BootTypeOK
<1>8. ServesMigrated' /\ NothingAppliedTwice'
  BY <1>1, <1>3, <1>4, <1>5 DEF ServesMigrated, NothingAppliedTwice, Latest
<1>9. Transacts(p)' /\ Locks(p)'
  <2>1. writer' # p
    BY <1>5, BootAssumption
  <2> QED
    BY <2>1, <1>3, <1>4 DEF Transacts, Locks
<1>10. ASSUME NEW q \in Starters, q # p PROVE Transacts(q)' /\ Locks(q)'
  <2>1. CASE writer = p
    <3>1. writer # q /\ writer' # q
      BY <2>1, <1>5, <1>10, BootAssumption
    <3>2. starters[q].base \in Nat /\ stamp \in Nat /\ stamp' = stamp + 1
      BY <2>1, <1>1, <1>5 DEF BootTypeOK, Starter
    <3> QED
      BY <3>1, <3>2, <1>1, <1>4, <1>5, <1>10 DEF Transacts, Locks
  <2>2. CASE writer # p
    BY <2>2, <1>1, <1>4, <1>5, <1>10 DEF Transacts, Locks
  <2> QED
    BY <2>1, <2>2
<1> QED
  BY <1>6, <1>7, <1>8, <1>9, <1>10 DEF BootInv

\* An operator's edit is of a migrated file and makes every older snapshot stale.
LEMMA EditStep ==
  ASSUME BootInv, NEW p \in Starters, Edit(p)
  PROVE  BootInv'
<1>1. BootTypeOK /\ Whole /\ ServesMigrated /\ NothingAppliedTwice
      /\ \A q \in Starters : Transacts(q) /\ Locks(q)
  BY DEF BootInv
<1>2. writer = NoOwner /\ stamp' = stamp + 1 /\ edits' = edits + 1 /\ edits < MaxEdits
      /\ UNCHANGED <<writer, starters, crashes>>
  BY DEF Edit
<1>3. /\ database' \in Database /\ database'.columns = database.columns
      /\ database'.ledger = database.ledger
  <2>1. PICK retries \in {0, 30}, targets \in 1..2, auto \in BOOLEAN :
          database' = [database EXCEPT !.max_retries = retries, !.targets = targets, !.auto = auto]
    BY DEF Edit
  <2>2. retries \in Int /\ targets \in Nat
    OBVIOUS
  <2>3. database \in Database
    BY <1>1 DEF BootTypeOK
  <2> QED
    BY <2>1, <2>2, <2>3 DEF Database
<1>4. BootTypeOK'
  BY <1>1, <1>2, <1>3, BootAssumption DEF BootTypeOK
<1>5. ServesMigrated' /\ NothingAppliedTwice'
  BY <1>1, <1>2, <1>3 DEF ServesMigrated, NothingAppliedTwice, Latest
<1>6. Whole' /\ \A q \in Starters : Transacts(q)' /\ Locks(q)'
  BY <1>2, <1>3, TouchStep
<1> QED
  BY <1>4, <1>5, <1>6 DEF BootInv

\* The invariant is inductive.
LEMMA BootInvNext == BootInv /\ [BootNext]_bootVars => BootInv'
<1> SUFFICES ASSUME BootInv, [BootNext]_bootVars PROVE BootInv'
  OBVIOUS
<1>1. ASSUME NEW p \in Starters, Starts(p) PROVE BootInv'
  BY <1>1, BootStep, OpenStep, ReadLedgerStep, ApplyStep, CommitStep DEF Starts
<1>2. ASSUME NEW p \in Starters, Edit(p) PROVE BootInv'
  BY <1>2, EditStep
<1>3. ASSUME NEW p \in Starters, Crash(p) PROVE BootInv'
  <2>1. crashes' \in 0 .. MaxCrashes
    BY <1>3, BootAssumption DEF Crash, BootInv, BootTypeOK
  <2> QED
    BY <2>1, <1>3, EndStep DEF Crash
<1>4. CASE UNCHANGED bootVars
  BY <1>4 DEF bootVars, BootInv, BootTypeOK, Whole, ServesMigrated, NothingAppliedTwice,
     Transacts, Locks
<1> QED
  BY <1>1, <1>2, <1>3, <1>4 DEF BootNext

\* Whoever starts together and whoever dies, a file is migrated once, whole, before it is
\* served from, and never again over what was changed since (database.ts, migrate).
THEOREM FileIsMigratedOnce == BootSpec => MigrationsHappenOnce
<1>1. BootInv => BootTypeOK /\ LedgerTellsSchema /\ ServesMigrated /\ NothingAppliedTwice
  BY ReadyTells DEF BootInv, Whole, LedgerTellsSchema
<1>2. BootInv /\ [BootNext]_bootVars =>
        [database.ledger = database'.ledger /\ UNCHANGED edits
           => UNCHANGED <<database.max_retries, database.targets, database.auto>>]_bootVars
  <2> SUFFICES ASSUME BootInv, BootNext, database.ledger = database'.ledger, UNCHANGED edits
               PROVE  UNCHANGED <<database.max_retries, database.targets, database.auto>>
    OBVIOUS
  <2>1. BootTypeOK
    BY DEF BootInv
  <2>2. ASSUME NEW p \in Starters, Open(p)
        PROVE  UNCHANGED <<database.max_retries, database.targets, database.auto>>
    BY <2>1, <2>2 DEF Open, BootTypeOK, Database
  <2>3. ASSUME NEW p \in Starters, Commit(p)
        PROVE  UNCHANGED <<database.max_retries, database.targets, database.auto>>
    BY <2>3, CommitTells
  <2>4. ASSUME NEW p \in Starters, Edit(p) PROVE FALSE
    BY <2>1, <2>4 DEF Edit, BootTypeOK
  <2>5. ASSUME NEW p \in Starters, boot(p) \/ ReadLedger(p) \/ Apply(p) \/ Crash(p)
        PROVE  UNCHANGED <<database.max_retries, database.targets, database.auto>>
    BY <2>5 DEF boot, ReadLedger, Apply, Crash
  <2> QED
    BY <2>2, <2>3, <2>4, <2>5 DEF BootNext, Starts
<1> QED
  BY <1>1, <1>2, BootInvInit, BootInvNext, PTL DEF BootSpec, MigrationsHappenOnce, StartsKeepLaterEdits

----------------------------------------------------------------------------
(* Sessions.  The store is a map in the order of its recordings: each key     *)
(* once, the times ascending.  Every operation keeps some of its pins in the  *)
(* order they have, and a recording adds one at the end.                      *)

\* The pins of a map, and a map in order: each key once, ages ascending.
PinsIn(s) == {s[i] : i \in 1 .. Len(s)}

WellKept(s, time) ==
  /\ s \in Seq(Pin)
  /\ \A i, j \in 1 .. Len(s) : s[i].key = s[j].key => i = j
  /\ \A i, j \in 1 .. Len(s) : i <= j => s[i].at <= s[j].at
  /\ \A i \in 1 .. Len(s) : s[i].at <= time

\* The strengthening of StoreIsAHint: pins in order, and each the last recording of its key.
StoreInv ==
  /\ clock \in 0 .. MaxClock
  /\ served \in [Keys -> Providers \cup {NoProvider}]
  /\ told \in Providers \cup {NoProvider}
  /\ WellKept(pins, clock) /\ Len(pins) <= MaxEntries
  /\ Enabled \/ pins = <<>>
  /\ \A pin \in PinsIn(pins) : pin.provider = served[pin.key]

\* What a filter keeps of a map in order is one, of fewer pins.
LEMMA FilteredPins ==
  ASSUME NEW time, NEW s, WellKept(s, time), NEW K \in SUBSET DOMAIN s
  PROVE  /\ WellKept(Subsequence(s, K), time)
         /\ Len(Subsequence(s, K)) <= Len(s)
         /\ PinsIn(Subsequence(s, K)) = {s[i] : i \in K}
<1> DEFINE t == Subsequence(s, K)
<1>1. s \in Seq(Pin) /\ Len(s) \in Nat /\ DOMAIN s = 1 .. Len(s)
  BY DEF WellKept
<1>2. /\ t \in Seq(Pin) /\ Len(t) \in 0 .. Len(s)
      /\ \A n \in 1 .. Len(t) : Nth(K, n) \in K /\ t[n] = s[Nth(K, n)]
      /\ \A i, j \in 1 .. Len(t) : i < j => Nth(K, i) < Nth(K, j)
      /\ \A k \in K : \E n \in 1 .. Len(t) : Nth(K, n) = k
  BY <1>1, SubsequenceTells
<1> HIDE DEF t
<1>3. \A n \in 1 .. Len(t) : Nth(K, n) \in 1 .. Len(s)
  BY <1>1, <1>2
<1>4. ASSUME NEW i \in 1 .. Len(t), NEW j \in 1 .. Len(t), t[i].key = t[j].key PROVE i = j
  <2>1. Nth(K, i) = Nth(K, j)
    BY <1>2, <1>3, <1>4 DEF WellKept
  <2>2. ~ (i < j) /\ ~ (j < i)
    BY <2>1, <1>2, <1>3
  <2> QED
    BY <2>2, <1>2
<1>5. ASSUME NEW i \in 1 .. Len(t), NEW j \in 1 .. Len(t), i <= j PROVE t[i].at <= t[j].at
  <2>1. CASE i = j
    <3>1. s[Nth(K, i)].at <= s[Nth(K, i)].at
      BY <1>3 DEF WellKept
    <3> QED
      BY <2>1, <3>1, <1>2
  <2>2. CASE i < j
    <3>1. Nth(K, i) <= Nth(K, j)
      BY <2>2, <1>2, <1>3
    <3> QED
      BY <3>1, <1>2, <1>3 DEF WellKept
  <2> QED
    BY <2>1, <2>2, <1>2, <1>5
<1>6. \A i \in 1 .. Len(t) : t[i].at <= time
  BY <1>2, <1>3 DEF WellKept
<1>7. PinsIn(t) = {s[i] : i \in K}
  BY <1>2 DEF PinsIn
<1>8. WellKept(t, time)
  BY <1>2, <1>4, <1>5, <1>6 DEF WellKept
<1> QED
  BY <1>2, <1>7, <1>8 DEF t

\* So is its end.
LEMMA LastPins ==
  ASSUME NEW time, NEW s, WellKept(s, time), NEW m \in 0 .. Len(s)
  PROVE  LET t == SubSeq(s, m + 1, Len(s))
         IN  /\ WellKept(t, time) /\ Len(t) = Len(s) - m
             /\ \A i \in 1 .. Len(t) : t[i] = s[m + i]
<1> DEFINE t == SubSeq(s, m + 1, Len(s))
<1>1. s \in Seq(Pin) /\ Len(s) \in Nat /\ m \in Nat /\ m <= Len(s)
  BY DEF WellKept
<1>2. \A i \in m + 1 .. Len(s) : s[i] \in Pin
  BY <1>1, ElementOfSeq
<1>3. /\ t \in Seq(Pin) /\ Len(t) = Len(s) - m
      /\ \A i \in 1 .. Len(t) : t[i] = s[m + i]
  <2>1. /\ t \in Seq(Pin)
        /\ Len(t) = IF m + 1 <= Len(s) THEN Len(s) - (m + 1) + 1 ELSE 0
        /\ \A i \in 1 .. Len(s) - (m + 1) + 1 : t[i] = s[m + 1 + i - 1]
    BY <1>1, <1>2, SubSeqProperties
  <2>2. Len(t) = Len(s) - m
    BY <2>1, <1>1
  <2>3. \A i \in 1 .. Len(t) : m + 1 + i - 1 = m + i /\ i \in 1 .. Len(s) - (m + 1) + 1
    BY <2>2, <1>1
  <2> QED
    BY <2>1, <2>2, <2>3
<1> HIDE DEF t
<1>4. \A i \in 1 .. Len(t) : m + i \in 1 .. Len(s)
  BY <1>1, <1>3
<1>5. ASSUME NEW i \in 1 .. Len(t), NEW j \in 1 .. Len(t)
      PROVE  /\ t[i].key = t[j].key => i = j
             /\ i <= j => t[i].at <= t[j].at
             /\ t[i].at <= time
  <2>1. t[i] = s[m + i] /\ t[j] = s[m + j] /\ m + i \in 1 .. Len(s) /\ m + j \in 1 .. Len(s)
    BY <1>3, <1>4
  <2>2. (m + i = m + j => i = j) /\ (i <= j => m + i <= m + j)
    BY <1>1
  <2> QED
    BY <2>1, <2>2 DEF WellKept
<1>6. WellKept(t, time)
  BY <1>3, <1>5 DEF WellKept
<1> QED
  BY <1>3, <1>6 DEF t

\* And the map with a new key recorded at that time.
LEMMA OneMorePin ==
  ASSUME NEW time, NEW s, WellKept(s, time), NEW pin \in Pin, pin.at = time,
         \A i \in 1 .. Len(s) : s[i].key # pin.key
  PROVE  /\ WellKept(Append(s, pin), time)
         /\ PinsIn(Append(s, pin)) = PinsIn(s) \cup {pin}
<1> DEFINE t == Append(s, pin)
           n == Len(s)
<1>1. s \in Seq(Pin) /\ n \in Nat
  BY DEF WellKept
<1>2. /\ t \in Seq(Pin) /\ Len(t) = n + 1 /\ t[n + 1] = pin
      /\ \A i \in 1 .. n : t[i] = s[i]
  BY <1>1
<1> HIDE DEF t
<1>3. \A i \in 1 .. n + 1 : i \in 1 .. n \/ i = n + 1
  BY <1>1
<1>4. \A i \in 1 .. n : i # n + 1 /\ i <= n + 1 /\ ~ (n + 1 <= i) /\ i \in 1 .. n + 1
  BY <1>1
<1>5. pin.at <= pin.at
  BY DEF Pin
<1>6. \A i, j \in 1 .. n + 1 : t[i].key = t[j].key => i = j
  BY <1>2, <1>3 DEF WellKept, n
<1>7. \A i, j \in 1 .. n + 1 : i <= j => t[i].at <= t[j].at
  <2> SUFFICES ASSUME NEW i \in 1 .. n + 1, NEW j \in 1 .. n + 1, i <= j
               PROVE  t[i].at <= t[j].at
    OBVIOUS
  <2>1. CASE j = n + 1
    <3>1. i \in 1 .. n => s[i].at <= pin.at
      BY DEF WellKept
    <3> QED
      BY <2>1, <3>1, <1>2, <1>3, <1>5
  <2>2. CASE j \in 1 .. n
    <3>1. i \in 1 .. n
      BY <2>2, <1>3, <1>4
    <3> QED
      BY <2>2, <3>1, <1>2 DEF WellKept
  <2> QED
    BY <2>1, <2>2, <1>3
<1>8. \A i \in 1 .. n + 1 : t[i].at <= time
  BY <1>2, <1>3, <1>5 DEF WellKept
<1>9. WellKept(t, time)
  BY <1>2, <1>6, <1>7, <1>8 DEF WellKept
<1>10. PinsIn(t) = PinsIn(s) \cup {pin}
  BY <1>2, <1>3, <1>4 DEF PinsIn
<1> QED
  BY <1>9, <1>10 DEF t

\* A key's pin is found, and it is the only one.
LEMMA FoundPin ==
  ASSUME NEW time, NEW s, WellKept(s, time), NEW i \in 1 .. Len(s)
  PROVE  PinsOf(s, s[i].key)[1] = s[i] /\ PinsOf(s, s[i].key) # <<>>
<1> DEFINE K == {j \in DOMAIN s : s[j].key = s[i].key}
<1>1. s \in Seq(Pin) /\ DOMAIN s = 1 .. Len(s)
  BY DEF WellKept
<1>2. K = {i}
  <2>1. \A j \in 1 .. Len(s) : s[j].key = s[i].key => j = i
    BY DEF WellKept
  <2> QED
    BY <1>1, <2>1
<1>3. Cardinality(K) = 1
  BY <1>2, FS_Singleton
<1>4. /\ Subsequence(s, K) \in Seq(Pin) /\ Len(Subsequence(s, K)) = 1
      /\ Nth(K, 1) \in K /\ Subsequence(s, K)[1] = s[Nth(K, 1)]
  <2>1. K \in SUBSET DOMAIN s
    OBVIOUS
  <2> HIDE DEF K
  <2>2. 1 \in 1 .. Cardinality(K)
    BY <1>3
  <2>3. /\ Subsequence(s, K) \in Seq(Pin) /\ Len(Subsequence(s, K)) = Cardinality(K)
        /\ \A n \in 1 .. Cardinality(K) : Nth(K, n) \in K /\ Subsequence(s, K)[n] = s[Nth(K, n)]
    BY <1>1, <2>1, SubsequenceTells
  <2>4. Nth(K, 1) \in K /\ Subsequence(s, K)[1] = s[Nth(K, 1)]
    BY <2>2, <2>3
  <2> QED
    BY <1>3, <2>3, <2>4
<1>5. PinsOf(s, s[i].key) = Subsequence(s, K)
  BY DEF PinsOf
<1> HIDE DEF K
<1>6. Subsequence(s, K)[1] = s[i]
  BY <1>2, <1>4
<1>7. Subsequence(s, K) # <<>>
  BY <1>4
<1> QED
  BY <1>5, <1>6, <1>7

\* The hint that a map s gives for k at a time.
Fresh(pin, time) == ~ (time - pin.at > TtlMs)
HintIn(s, time, k) ==
  IF \E pin \in PinsIn(s) : pin.key = k /\ Fresh(pin, time) THEN PinsOf(s, k)[1].provider ELSE NoProvider

\* The hints of a state are those its map gives at its clock.
LEMMA HintsAreIn ==
  /\ pins \in Seq(Pin) => \A k : HintOf(k) = HintIn(pins, clock, k)
  /\ pins' \in Seq(Pin) => \A k : HintOf(k)' = HintIn(pins', clock', k)
<1>1. ASSUME pins \in Seq(Pin), NEW k PROVE HintOf(k) = HintIn(pins, clock, k)
  <2>1. DOMAIN pins = 1 .. Len(pins)
    BY <1>1
  <2>2. k \in Live <=> \E pin \in PinsIn(pins) : pin.key = k /\ Fresh(pin, clock)
    BY <2>1 DEF Live, PinsIn, Fresh, Expired
  <2> QED
    BY <2>2 DEF HintOf, HintIn
<1>2. ASSUME pins' \in Seq(Pin), NEW k PROVE HintOf(k)' = HintIn(pins', clock', k)
  <2>1. DOMAIN pins' = 1 .. Len(pins')
    BY <1>2
  <2>2. k \in Live' <=> \E pin \in PinsIn(pins') : pin.key = k /\ Fresh(pin, clock')
    BY <2>1 DEF Live, PinsIn, Fresh, Expired
  <2> QED
    BY <2>2 DEF HintOf, HintIn
<1> QED
  BY <1>1, <1>2

\* It is the fresh pin's provider, if there is a fresh pin.
LEMMA HintTells ==
  ASSUME NEW time, NEW s, WellKept(s, time)
  PROVE  /\ \A pin \in PinsIn(s) : Fresh(pin, time) => HintIn(s, time, pin.key) = pin.provider
         /\ \A k : (\A pin \in PinsIn(s) : pin.key = k => ~Fresh(pin, time)) => HintIn(s, time, k) = NoProvider
         /\ \A p, q \in PinsIn(s) : p.key = q.key => p = q
         /\ PinsIn(s) \subseteq Pin
<1>1. \A pin \in PinsIn(s) : PinsOf(s, pin.key)[1] = pin
  BY FoundPin DEF PinsIn
<1>2. \A p, q \in PinsIn(s) : p.key = q.key => p = q
  BY DEF PinsIn, WellKept
<1>3. PinsIn(s) \subseteq Pin
  <2>1. s \in Seq(Pin)
    BY DEF WellKept
  <2>2. \A i \in 1 .. Len(s) : s[i] \in Pin
    BY <2>1, ElementOfSeq
  <2> QED
    BY <2>2 DEF PinsIn
<1> QED
  BY <1>1, <1>2, <1>3 DEF HintIn

\* A key's pin is deleted and no other.
LEMMA WithoutTells ==
  ASSUME NEW time, NEW s, WellKept(s, time), NEW k
  PROVE  /\ WellKept(Without(s, k), time)
         /\ Len(Without(s, k)) <= Len(s)
         /\ PinsIn(Without(s, k)) = {pin \in PinsIn(s) : pin.key # k}
<1> DEFINE K == {i \in DOMAIN s : s[i].key # k}
<1>1. s \in Seq(Pin) /\ DOMAIN s = 1 .. Len(s)
  BY DEF WellKept
<1>2. {s[i] : i \in K} = {pin \in PinsIn(s) : pin.key # k}
  BY <1>1 DEF PinsIn
<1>3. K \in SUBSET DOMAIN s
  OBVIOUS
<1>4. Without(s, k) = Subsequence(s, K)
  BY DEF Without
<1> HIDE DEF K
<1> QED
  BY <1>2, <1>3, <1>4, FilteredPins

\* The eviction keeps to the bound.  A fresh pin goes only when the bound is
\* reached by pins that are no older.
LEMMA EvictedTells ==
  ASSUME NEW s, WellKept(s, clock), SessionAssumption
  PROVE  /\ WellKept(Evicted(s), clock)
         /\ Len(Evicted(s)) <= MaxEntries
         /\ PinsIn(Evicted(s)) \subseteq PinsIn(s)
         /\ \A pin \in PinsIn(s) \ PinsIn(Evicted(s)) :
              Fresh(pin, clock) => /\ Len(Evicted(s)) = MaxEntries
                                   /\ \A i \in 1 .. MaxEntries : Evicted(s)[i].at >= pin.at
<1> DEFINE e == Evicted(s)
           live == Unexpired(s)
           K == {i \in DOMAIN s : ~Expired(s[i])}
<1>1. MaxEntries \in Nat /\ s \in Seq(Pin) /\ Len(s) \in Nat /\ DOMAIN s = 1 .. Len(s)
  BY DEF WellKept, SessionAssumption
<1>2. /\ WellKept(live, clock) /\ Len(live) <= Len(s)
      /\ PinsIn(live) = {pin \in PinsIn(s) : Fresh(pin, clock)}
  <2>1. {s[i] : i \in K} = {pin \in PinsIn(s) : Fresh(pin, clock)}
    BY <1>1 DEF PinsIn, Fresh, Expired
  <2>2. K \in SUBSET DOMAIN s /\ live = Subsequence(s, K)
    BY DEF Unexpired
  <2> HIDE DEF K, live
  <2> QED
    BY <2>1, <2>2, FilteredPins
<1>3. live \in Seq(Pin) /\ Len(live) \in Nat
  BY <1>2 DEF WellKept
<1>4. CASE Len(s) <= MaxEntries
  <2>1. e = s
    BY <1>4 DEF Evicted
  <2> HIDE DEF e
  <2> QED
    BY <2>1, <1>4 DEF e
<1>5. CASE Len(s) > MaxEntries /\ Len(live) <= MaxEntries
  <2>1. e = live
    BY <1>1, <1>5 DEF Evicted
  <2> HIDE DEF e, live
  <2> QED
    BY <2>1, <1>2, <1>5 DEF e
<1>6. CASE Len(s) > MaxEntries /\ Len(live) > MaxEntries
  <2> DEFINE m == Len(live) - MaxEntries
  <2>1. e = SubSeq(live, m + 1, Len(live))
    BY <1>1, <1>3, <1>6 DEF Evicted
  <2>2. m \in 0 .. Len(live) /\ Len(live) - m = MaxEntries
    BY <1>1, <1>3, <1>6
  <2> HIDE DEF e, live, m
  <2>3. /\ WellKept(e, clock) /\ Len(e) = MaxEntries
        /\ \A i \in 1 .. MaxEntries : e[i] = live[m + i]
    BY <2>1, <2>2, <1>2, LastPins
  <2>4. \A i \in 1 .. MaxEntries : m + i \in 1 .. Len(live) /\ m <= m + i
    BY <2>2, <1>1, <1>3
  <2>5. PinsIn(e) \subseteq PinsIn(live)
    BY <2>3, <2>4 DEF PinsIn
  <2>6. ASSUME NEW pin \in PinsIn(live) \ PinsIn(e), NEW i \in 1 .. MaxEntries
        PROVE  e[i].at >= pin.at
    <3>1. PICK a \in 1 .. Len(live) : pin = live[a]
      BY DEF PinsIn
    <3>2. a <= m
      <4> SUFFICES ASSUME m < a PROVE FALSE
        BY <2>2, <1>3
      <4>1. a - m \in 1 .. MaxEntries /\ m + (a - m) = a
        BY <2>2, <1>1, <1>3
      <4>2. pin = e[a - m]
        BY <4>1, <2>3, <3>1
      <4> QED
        BY <4>1, <4>2, <2>3, <2>6 DEF PinsIn
    <3>3. a <= m + i /\ m + i \in 1 .. Len(live)
      BY <3>2, <2>2, <2>4, <1>1, <1>3
    <3>4. live[a].at <= live[m + i].at
      BY <3>3, <1>2 DEF WellKept
    <3>5. live[a] \in Pin /\ live[m + i] \in Pin
      BY <3>3, <1>3, ElementOfSeq
    <3> QED
      BY <3>1, <3>4, <3>5, <2>3 DEF Pin
  <2>7. MaxEntries <= MaxEntries
    BY <1>1
  <2> QED
    BY <2>3, <2>5, <2>6, <2>7, <1>2 DEF e
<1> QED
  BY <1>1, <1>3, <1>4, <1>5, <1>6

\* What a recording makes of the map.
LEMMA RecordTells ==
  ASSUME SessionAssumption, StoreInv, NEW k \in Keys, NEW p \in Providers
  PROVE  LET e == Evicted(Reinserted(k, p))
             new == [key |-> k, provider |-> p, at |-> clock]
         IN  /\ WellKept(e, clock) /\ Len(e) <= MaxEntries
             /\ PinsIn(e) \subseteq {pin \in PinsIn(pins) : pin.key # k} \cup {new}
             /\ \A pin \in PinsIn(pins) \ PinsIn(e) :
                  pin.key # k /\ Fresh(pin, clock) =>
                    /\ Len(e) = MaxEntries
                    /\ \A i \in 1 .. MaxEntries : e[i].at >= pin.at
<1> DEFINE w == Without(pins, k)
           new == [key |-> k, provider |-> p, at |-> clock]
<1>1. WellKept(w, clock) /\ PinsIn(w) = {pin \in PinsIn(pins) : pin.key # k}
  BY WithoutTells DEF StoreInv
<1>2. new \in Pin /\ new.at = clock /\ new.key = k
  BY DEF StoreInv, Pin, SessionAssumption
<1>3. \A i \in 1 .. Len(w) : w[i].key # k
  BY <1>1 DEF PinsIn
<1>4. Reinserted(k, p) = Append(w, new)
  BY DEF Reinserted
<1> HIDE DEF w, new
<1>5. /\ WellKept(Reinserted(k, p), clock)
      /\ PinsIn(Reinserted(k, p)) = PinsIn(w) \cup {new}
  BY <1>1, <1>2, <1>3, <1>4, OneMorePin
<1> DEFINE r == Reinserted(k, p)
           e == Evicted(r)
<1> HIDE DEF r
<1>6. /\ WellKept(e, clock) /\ Len(e) <= MaxEntries /\ PinsIn(e) \subseteq PinsIn(r)
      /\ \A pin \in PinsIn(r) \ PinsIn(e) :
           Fresh(pin, clock) => Len(e) = MaxEntries /\ \A i \in 1 .. MaxEntries : e[i].at >= pin.at
  BY <1>5, EvictedTells DEF r
<1> HIDE DEF e
<1> QED
  BY <1>1, <1>5, <1>6 DEF r, e, new

\* With fewer pins, or later, there are fewer hints.
LEMMA FewerHints ==
  ASSUME NEW time \in Nat, NEW later \in Nat, time <= later,
         NEW s, WellKept(s, time), NEW t, WellKept(t, later), NEW k,
         \A pin \in PinsIn(t) : pin.key = k => pin \in PinsIn(s)
  PROVE  HintIn(t, later, k) \in {HintIn(s, time, k), NoProvider}
<1>1. CASE \A pin \in PinsIn(t) : pin.key = k => ~Fresh(pin, later)
  BY <1>1, HintTells
<1>2. CASE \E pin \in PinsIn(t) : pin.key = k /\ Fresh(pin, later)
  <2>1. PICK pin \in PinsIn(t) : pin.key = k /\ Fresh(pin, later)
    BY <1>2
  <2>2. pin \in PinsIn(s) /\ pin.at \in Nat
    BY <2>1, HintTells DEF Pin
  <2>3. Fresh(pin, time)
    <3>1. ~ (later - pin.at > TtlMs) /\ later - pin.at >= time - pin.at
      BY <2>1, <2>2 DEF Fresh
    <3>2. TtlMs \in Nat
      BY SessionAssumption
    <3> QED
      BY <3>1, <3>2, <2>2 DEF Fresh
  <2>4. HintIn(t, later, k) = pin.provider /\ HintIn(s, time, k) = pin.provider
    BY <2>1, <2>2, <2>3, HintTells
  <2> QED
    BY <2>4
<1> QED
  BY <1>1, <1>2

\* Without a key's pin the other hints are what they were.
LEMMA WithoutHints ==
  ASSUME NEW time, NEW s, WellKept(s, time), NEW k, NEW j
  PROVE  HintIn(Without(s, k), time, j) = IF j = k THEN NoProvider ELSE HintIn(s, time, j)
<1> DEFINE t == Without(s, k)
<1>1. WellKept(t, time) /\ PinsIn(t) = {pin \in PinsIn(s) : pin.key # k}
  BY WithoutTells
<1> HIDE DEF t
<1>2. CASE \A pin \in PinsIn(t) : pin.key = j => ~Fresh(pin, time)
  <2>1. HintIn(t, time, j) = NoProvider
    BY <1>1, <1>2, HintTells
  <2>2. j # k => \A pin \in PinsIn(s) : pin.key = j => ~Fresh(pin, time)
    BY <1>1, <1>2
  <2>3. j # k => HintIn(s, time, j) = NoProvider
    BY <2>2, HintTells
  <2> QED
    BY <2>1, <2>3 DEF t
<1>3. CASE \E pin \in PinsIn(t) : pin.key = j /\ Fresh(pin, time)
  <2>1. PICK pin \in PinsIn(t) : pin.key = j /\ Fresh(pin, time)
    BY <1>3
  <2>2. pin \in PinsIn(s) /\ j # k
    BY <1>1, <2>1
  <2>3. HintIn(t, time, j) = pin.provider /\ HintIn(s, time, j) = pin.provider
    BY <1>1, <2>1, <2>2, HintTells
  <2> QED
    BY <2>2, <2>3 DEF t
<1> QED
  BY <1>2, <1>3

\* The hints the store has.
Hinted == [k \in Keys |-> HintOf(k)]

\* They are providers, or none.
LEMMA HintsAreHints ==
  ASSUME NEW time, NEW s, WellKept(s, time), NEW k
  PROVE  HintIn(s, time, k) \in Providers \cup {NoProvider}
<1>1. CASE \A pin \in PinsIn(s) : pin.key = k => ~Fresh(pin, time)
  BY <1>1, HintTells
<1>2. CASE \E pin \in PinsIn(s) : pin.key = k /\ Fresh(pin, time)
  <2>1. PICK pin \in PinsIn(s) : pin.key = k /\ Fresh(pin, time)
    BY <1>2
  <2>2. HintIn(s, time, k) = pin.provider /\ pin \in Pin
    BY <2>1, HintTells
  <2> QED
    BY <2>2 DEF Pin
<1> QED
  BY <1>1, <1>2

\* Hints go, and nothing else: the hint store's lapse.
LEMMA Lapses ==
  ASSUME SessionAssumption, StoreInv, WellKept(pins, clock)', clock' \in Nat, clock <= clock',
         PinsIn(pins') \subseteq PinsIn(pins), UNCHANGED <<served, told>>
  PROVE  Store!Lapse
<1>1. clock \in Nat /\ WellKept(pins, clock) /\ WellKept(pins', clock')
  BY DEF StoreInv, SessionAssumption
<1>2. \A k : HintOf(k) = HintIn(pins, clock, k) /\ HintOf(k)' = HintIn(pins', clock', k)
  BY <1>1, HintsAreIn DEF WellKept
<1>3. \A k : HintIn(pins', clock', k) \in {HintIn(pins, clock, k), NoProvider}
  BY <1>1, FewerHints
<1>4. \A k : HintIn(pins', clock', k) \in Providers \cup {NoProvider}
  BY <1>1, HintsAreHints
<1>5. Hinted' \in Store!Fewer(Hinted)
  BY <1>2, <1>3, <1>4 DEF Hinted, Store!Fewer, Store!Hints
<1> QED
  BY <1>5 DEF Store!Lapse, Hinted

\* Time passes, or the process restarts with an empty store.
LEMMA TickIsLapse == SessionAssumption /\ StoreInv /\ Tick => StoreInv' /\ Store!Lapse
<1> SUFFICES ASSUME SessionAssumption, StoreInv, Tick PROVE StoreInv' /\ Store!Lapse
  OBVIOUS
<1>1. /\ clock \in 0 .. MaxClock /\ clock' = clock + 1 /\ clock < MaxClock /\ MaxClock \in Nat
      /\ UNCHANGED <<pins, served, told>> /\ WellKept(pins, clock)
  BY DEF Tick, StoreInv, SessionAssumption
<1>2. clock' \in 0 .. MaxClock /\ clock' \in Nat /\ clock <= clock'
  BY <1>1
<1>3. WellKept(pins', clock')
  <2>1. \A i \in 1 .. Len(pins) : pins[i].at \in Nat
    <3>1. \A i \in 1 .. Len(pins) : pins[i] \in Pin
      BY <1>1, ElementOfSeq DEF WellKept
    <3> QED
      BY <3>1 DEF Pin
  <2>2. \A i \in 1 .. Len(pins) : pins[i].at <= clock'
    BY <1>1, <2>1 DEF WellKept
  <2> QED
    BY <1>1, <2>2 DEF WellKept
<1>4. StoreInv'
  BY <1>1, <1>2, <1>3 DEF StoreInv, Enabled
<1>5. PinsIn(pins') \subseteq PinsIn(pins)
  BY <1>1
<1> QED
  BY <1>1, <1>2, <1>3, <1>4, <1>5, Lapses

\* A restart is a lapse of every hint.
LEMMA RestartIsLapse == SessionAssumption /\ StoreInv /\ Restart => StoreInv' /\ Store!Lapse
<1> SUFFICES ASSUME SessionAssumption, StoreInv, Restart PROVE StoreInv' /\ Store!Lapse
  OBVIOUS
<1>1. pins' = <<>> /\ UNCHANGED <<clock, served, told>> /\ clock \in Nat /\ clock <= clock
  BY DEF Restart, StoreInv, SessionAssumption
<1>2. pins' \in Seq(Pin) /\ Len(pins') = 0 /\ PinsIn(pins') = {}
  BY <1>1 DEF PinsIn
<1>3. WellKept(pins', clock')
  BY <1>2 DEF WellKept
<1>4. StoreInv'
  <2>1. Len(pins') <= MaxEntries
    BY <1>2 DEF SessionAssumption
  <2> QED
    BY <1>1, <1>2, <1>3, <2>1 DEF StoreInv, Enabled
<1> QED
  BY <1>1, <1>2, <1>3, <1>4, Lapses

\* The deletion of a key's pin keeps the invariant.
LEMMA WithoutIsKept ==
  ASSUME SessionAssumption, StoreInv, NEW k, pins' = Without(pins, k), UNCHANGED <<clock, served>>,
         told' \in Providers \cup {NoProvider}
  PROVE  StoreInv' /\ WellKept(pins', clock')
<1>1. /\ WellKept(pins', clock') /\ Len(pins') <= Len(pins)
      /\ PinsIn(pins') \subseteq PinsIn(pins)
  BY WithoutTells DEF StoreInv
<1>2. Len(pins') <= MaxEntries
  BY <1>1 DEF StoreInv, WellKept, SessionAssumption
<1>3. Enabled \/ pins' = <<>>
  <2> SUFFICES ASSUME pins = <<>> PROVE pins' = <<>>
    BY DEF StoreInv
  <2>1. Len(pins') = 0 /\ pins' \in Seq(Pin)
    BY <1>1 DEF WellKept
  <2> QED
    BY <2>1
<1> QED
  BY <1>1, <1>2, <1>3 DEF StoreInv, Enabled

\* Forgetting takes the one hint.
LEMMA ForgetIsForget ==
  ASSUME SessionAssumption, StoreInv, NEW k \in Keys, Forget(k)
  PROVE  StoreInv' /\ Store!Forget(k)
<1>1. StoreInv' /\ WellKept(pins', clock') /\ UNCHANGED <<clock, served, told>> /\ pins' = Without(pins, k)
  BY WithoutIsKept DEF Forget, StoreInv
<1>2. \A j : HintOf(j) = HintIn(pins, clock, j) /\ HintOf(j)' = HintIn(pins', clock', j)
  BY <1>1, HintsAreIn DEF WellKept, StoreInv
<1>3. \A j : HintIn(pins', clock', j) = IF j = k THEN NoProvider ELSE HintIn(pins, clock, j)
  BY <1>1, WithoutHints DEF StoreInv
<1>4. Hinted' = [Hinted EXCEPT ![k] = NoProvider]
  BY <1>2, <1>3 DEF Hinted
<1> QED
  BY <1>1, <1>4 DEF Store!Forget, Hinted

\* A lookup tells the hint there is, and may drop one that has expired.
LEMMA LookupIsLookup ==
  ASSUME SessionAssumption, StoreInv, NEW k \in Keys, Lookup(k)
  PROVE  StoreInv' /\ Store!Lookup(k)
<1>1. WellKept(pins, clock) /\ DOMAIN pins = 1 .. Len(pins) /\ pins \in Seq(Pin) /\ UNCHANGED <<clock, served>>
  BY DEF StoreInv, WellKept, Lookup
<1>2. \A j : HintOf(j) = HintIn(pins, clock, j) /\ (pins' \in Seq(Pin) => HintOf(j)' = HintIn(pins', clock', j))
  BY <1>1, HintsAreIn
<1>3. CASE \E i \in DOMAIN pins : pins[i].key = k /\ Enabled /\ ~Expired(pins[i])
  <2>1. PICK i \in 1 .. Len(pins) : pins[i].key = k /\ ~Expired(pins[i])
    BY <1>1, <1>3
  <2>2. told' = PinsOf(pins, k)[1].provider /\ UNCHANGED pins
    BY <1>3 DEF Lookup
  <2>3. HintIn(pins, clock, k) = PinsOf(pins, k)[1].provider
    BY <2>1 DEF HintIn, PinsIn, Fresh, Expired
  <2>4. told' = HintOf(k)
    BY <1>2, <2>2, <2>3
  <2>5. told' \in Providers \cup {NoProvider}
    BY <1>1, <1>2, <2>4, HintsAreHints
  <2>6. StoreInv'
    BY <1>1, <2>2, <2>5 DEF StoreInv, Enabled
  <2>7. Hinted' = Hinted
    BY <1>1, <1>2, <2>2 DEF Hinted
  <2> QED
    BY <1>1, <2>4, <2>6, <2>7 DEF Store!Lookup, Hinted
<1>4. CASE ~ \E i \in DOMAIN pins : pins[i].key = k /\ Enabled /\ ~Expired(pins[i])
  <2>1. told' = NoProvider /\ pins' = IF Enabled THEN Without(pins, k) ELSE pins
    BY <1>4 DEF Lookup
  <2>2. \A pin \in PinsIn(pins) : pin.key = k => ~Fresh(pin, clock)
    <3>1. CASE Enabled
      BY <1>1, <1>4, <3>1 DEF PinsIn, Fresh, Expired
    <3>2. CASE pins = <<>>
      BY <3>2 DEF PinsIn
    <3> QED
      BY <3>1, <3>2 DEF StoreInv
  <2>3. HintIn(pins, clock, k) = NoProvider
    BY <1>1, <2>2, HintTells
  <2>4. CASE Enabled
    <3>1. StoreInv' /\ WellKept(pins', clock')
      BY <1>1, <2>1, <2>4, WithoutIsKept
    <3>2. \A j : HintIn(pins', clock', j) = IF j = k THEN NoProvider ELSE HintIn(pins, clock, j)
      BY <1>1, <2>1, <2>4, WithoutHints
    <3>3. \A j : HintOf(j)' = HintOf(j)
      BY <1>2, <2>3, <3>1, <3>2 DEF WellKept
    <3>4. Hinted' = Hinted
      BY <3>3 DEF Hinted
    <3> QED
      BY <1>1, <1>2, <2>1, <2>3, <3>1, <3>4 DEF Store!Lookup, Hinted
  <2>5. CASE ~Enabled
    <3>1. UNCHANGED pins
      BY <2>1, <2>5
    <3>2. StoreInv'
      BY <1>1, <2>1, <3>1 DEF StoreInv, Enabled
    <3>3. Hinted' = Hinted
      BY <1>1, <1>2, <3>1 DEF Hinted
    <3> QED
      BY <1>1, <1>2, <2>1, <2>3, <3>2, <3>3 DEF Store!Lookup, Hinted
  <2> QED
    BY <2>4, <2>5
<1> QED
  BY <1>3, <1>4

\* A recording sets its hint; eviction takes others.
LEMMA RecordIsRecord ==
  ASSUME SessionAssumption, StoreInv, NEW k \in Keys, NEW p \in Providers, Record(k, p)
  PROVE  StoreInv' /\ Store!Record(k, p)
<1> DEFINE new == [key |-> k, provider |-> p, at |-> clock]
<1>1. /\ WellKept(pins, clock) /\ UNCHANGED <<clock, told>> /\ clock \in Nat /\ clock <= clock
      /\ served \in [Keys -> Providers \cup {NoProvider}] /\ served' = [served EXCEPT ![k] = p]
      /\ pins' = IF Enabled THEN Evicted(Reinserted(k, p)) ELSE pins
  BY DEF StoreInv, Record, SessionAssumption
<1>2. new.key = k /\ new.provider = p
  OBVIOUS
<1>3. /\ WellKept(pins', clock') /\ Len(pins') <= MaxEntries /\ (Enabled \/ pins' = <<>>)
      /\ PinsIn(pins') \subseteq {pin \in PinsIn(pins) : pin.key # k} \cup {new}
  <2>1. CASE Enabled
    <3>1. pins' = Evicted(Reinserted(k, p))
      BY <1>1, <2>1
    <3> QED
      BY <1>1, <2>1, <3>1, RecordTells
  <2>2. CASE ~Enabled
    <3>1. pins' = pins /\ pins = <<>> /\ Len(pins) <= MaxEntries
      BY <1>1, <2>2 DEF StoreInv
    <3>2. PinsIn(pins') = {}
      BY <3>1 DEF PinsIn
    <3> QED
      BY <1>1, <3>1, <3>2
  <2> QED
    BY <2>1, <2>2
<1> HIDE DEF new
<1>4. \A pin \in PinsIn(pins') : pin.provider = served'[pin.key]
  <2> SUFFICES ASSUME NEW pin \in PinsIn(pins') PROVE pin.provider = served'[pin.key]
    OBVIOUS
  <2>1. CASE pin = new
    BY <1>1, <1>2, <2>1
  <2>2. CASE pin \in PinsIn(pins) /\ pin.key # k
    <3>1. pin.provider = served[pin.key] /\ pin.key \in Keys
      BY <1>1, <2>2, HintTells DEF StoreInv, Pin
    <3> QED
      BY <1>1, <2>2, <3>1
  <2> QED
    BY <1>3, <2>1, <2>2
<1>5. StoreInv'
  <2>1. served' \in [Keys -> Providers \cup {NoProvider}]
    BY <1>1
  <2> QED
    BY <1>1, <1>3, <1>4, <2>1 DEF StoreInv, Enabled
<1>6. \A j : HintOf(j) = HintIn(pins, clock, j) /\ HintOf(j)' = HintIn(pins', clock', j)
  BY <1>1, <1>3, HintsAreIn DEF WellKept
<1>7. \A j : HintIn(pins', clock', j) \in {IF j = k THEN p ELSE HintIn(pins, clock, j), NoProvider}
  <2> SUFFICES ASSUME NEW j
               PROVE  HintIn(pins', clock', j) \in {IF j = k THEN p ELSE HintIn(pins, clock, j), NoProvider}
    OBVIOUS
  <2>1. CASE j = k
    <3>1. CASE \A pin \in PinsIn(pins') : pin.key = j => ~Fresh(pin, clock')
      BY <1>3, <3>1, HintTells
    <3>2. CASE \E pin \in PinsIn(pins') : pin.key = j /\ Fresh(pin, clock')
      <4>1. PICK pin \in PinsIn(pins') : pin.key = j /\ Fresh(pin, clock')
        BY <3>2
      <4>2. pin.provider = p
        BY <1>2, <1>3, <2>1, <4>1
      <4>3. HintIn(pins', clock', j) = p
        BY <1>3, <4>1, <4>2, HintTells
      <4> QED
        BY <2>1, <4>3
    <3> QED
      BY <3>1, <3>2
  <2>2. CASE j # k
    <3>1. \A pin \in PinsIn(pins') : pin.key = j => pin \in PinsIn(pins)
      BY <1>2, <1>3, <2>2
    <3>2. HintIn(pins', clock', j) \in {HintIn(pins, clock, j), NoProvider}
      BY <1>1, <1>3, <3>1, FewerHints
    <3> QED
      BY <2>2, <3>2
  <2> QED
    BY <2>1, <2>2
<1>8. \A j : HintIn(pins', clock', j) \in Providers \cup {NoProvider}
  BY <1>3, HintsAreHints
<1>9. Hinted' \in Store!Fewer([Hinted EXCEPT ![k] = p])
  BY <1>6, <1>7, <1>8 DEF Hinted, Store!Fewer, Store!Hints
<1> QED
  BY <1>1, <1>5, <1>9 DEF Store!Record, Hinted

\* A fresh pin that a recording of another key drops was the oldest of a full
\* store.
LEMMA OldestGoes ==
  ASSUME SessionAssumption, StoreInv, NEW i \in DOMAIN pins, NEW k \in Keys, NEW p \in Providers,
         Record(k, p), k # pins[i].key, ~Expired(pins[i]), PinsOf(pins', pins[i].key) = <<>>
  PROVE  Cardinality({j \in DOMAIN pins' : pins'[j].at >= pins[i].at}) = MaxEntries
<1>1. pins \in Seq(Pin) /\ WellKept(pins, clock) /\ i \in 1 .. Len(pins) /\ MaxEntries \in Nat
  BY DEF StoreInv, WellKept, SessionAssumption
<1>2. pins' = Evicted(Reinserted(k, p))
  <2>1. pins # <<>>
    BY <1>1
  <2> QED
    BY <2>1 DEF Record, StoreInv
<1>3. pins[i] \in PinsIn(pins) /\ Fresh(pins[i], clock)
  BY <1>1 DEF PinsIn, Fresh, Expired
<1>4. /\ WellKept(pins', clock)
      /\ pins[i] \notin PinsIn(pins') =>
           Len(pins') = MaxEntries /\ \A j \in 1 .. MaxEntries : pins'[j].at >= pins[i].at
  BY <1>2, <1>3, RecordTells
<1>5. pins[i] \notin PinsIn(pins')
  BY <1>4, FoundPin DEF PinsIn
<1>6. {j \in DOMAIN pins' : pins'[j].at >= pins[i].at} = 0 + 1 .. MaxEntries
  <2>1. pins' \in Seq(Pin)
    BY <1>4 DEF WellKept
  <2>2. DOMAIN pins' = 1 .. MaxEntries
    BY <2>1, <1>4, <1>5
  <2> QED
    BY <2>2, <1>4, <1>5
<1>7. Cardinality(0 + 1 .. MaxEntries) = MaxEntries - 0
  BY <1>1, IntervalSize
<1>8. MaxEntries - 0 = MaxEntries
  BY <1>1
<1> QED
  BY <1>6, <1>7, <1>8

\* The store is a bounded map that gives no hint but the provider recorded last
\* for the session, and that gives up the oldest first, whatever the bounds.
THEOREM HintsAreSound == Spec => StoreIsAHint
<1>1. Init => StoreInv /\ Store!Init
  <2> SUFFICES ASSUME Init PROVE StoreInv /\ Store!Init
    OBVIOUS
  <2>1. pins = <<>> /\ Len(pins) = 0 /\ pins \in Seq(Pin) /\ PinsIn(pins) = {}
    BY DEF Init, PinsIn
  <2>2. WellKept(pins, clock)
    BY <2>1 DEF WellKept
  <2>3. StoreInv
    BY <2>1, <2>2, SessionAssumption DEF Init, StoreInv, SessionAssumption
  <2>4. \A k : HintOf(k) = NoProvider
    BY <2>1, <2>2, HintsAreIn DEF HintIn
  <2> QED
    BY <2>3, <2>4 DEF Init, Store!Init
<1>2. StoreInv /\ [Next]_vars => StoreInv' /\ [Store!Next]_(<<Hinted, served, told>>)
  <2> SUFFICES ASSUME StoreInv, [Next]_vars PROVE StoreInv' /\ [Store!Next]_(<<Hinted, served, told>>)
    OBVIOUS
  <2>1. CASE Tick
    BY <2>1, SessionAssumption, TickIsLapse DEF Store!Next
  <2>2. CASE Restart
    BY <2>2, SessionAssumption, RestartIsLapse DEF Store!Next
  <2>3. ASSUME NEW k \in Keys, Lookup(k) PROVE StoreInv' /\ Store!Next
    BY <2>3, SessionAssumption, LookupIsLookup DEF Store!Next
  <2>4. ASSUME NEW k \in Keys, Forget(k) PROVE StoreInv' /\ Store!Next
    BY <2>4, SessionAssumption, ForgetIsForget DEF Store!Next
  <2>5. ASSUME NEW k \in Keys, NEW p \in Providers, Record(k, p) PROVE StoreInv' /\ Store!Next
    BY <2>5, SessionAssumption, RecordIsRecord DEF Store!Next
  <2>6. CASE UNCHANGED vars
    <3>1. UNCHANGED <<clock, pins, served, told>>
      BY <2>6 DEF vars
    <3>2. StoreInv'
      BY <3>1 DEF StoreInv, Enabled
    <3>3. Hinted' = Hinted
      BY <3>1 DEF Hinted, HintOf, Live, Expired
    <3> QED
      BY <3>1, <3>2, <3>3
  <2> QED
    BY <2>1, <2>2, <2>3, <2>4, <2>5, <2>6 DEF Next
<1>3. StoreInv => TypeOK
  <2> SUFFICES ASSUME StoreInv PROVE TypeOK
    OBVIOUS
  <2>1. pins \in Seq(Pin) /\ DOMAIN pins = 1 .. Len(pins)
    BY DEF StoreInv, WellKept
  <2> QED
    BY <2>1 DEF StoreInv, WellKept, TypeOK
<1>4. StoreInv /\ [Next]_vars =>
        \A i \in DOMAIN pins :
          LET pin == pins[i]
          IN  (\E k \in Keys, p \in Providers : k # pin.key /\ Record(k, p))
              /\ ~Expired(pin) /\ PinsOf(pins', pin.key) = <<>>
              => Cardinality({j \in DOMAIN pins' : pins'[j].at >= pin.at}) = MaxEntries
  BY SessionAssumption, OldestGoes
<1> QED
  BY <1>1, <1>2, <1>3, <1>4, PTL
     DEF Spec, StoreIsAHint, EvictionTakesTheOldest, ImplementsHints, Store!Spec, Hinted

----------------------------------------------------------------------------
(* What is known of a model.  Every claim is over the known modalities and  *)
(* names an input, so that it survives its way through the database.        *)

\* Nothing known, or what a reader of the row gets back.
ReadsBack(capabilities) == parseStored(capabilities) = capabilities

\* A list over the known modalities is kept as it is.
LEMMA ModalitiesStay ==
  /\ \A words : modalityList(words) \subseteq Modality
  /\ \A words \in SUBSET Modality : modalityList(words) = words
  /\ \A words : TextUnless(modalityList(words)) \in (SUBSET Modality) \ {{}}
<1>1. \A words : modalityList(words) \subseteq Modality
  BY DEF modalityList
<1>2. ASSUME NEW words \in SUBSET Modality PROVE modalityList(words) = words
  BY DEF modalityList, toModality, Modality
<1>3. ASSUME NEW words PROVE TextUnless(modalityList(words)) \in (SUBSET Modality) \ {{}}
  BY <1>1 DEF TextUnless, Modality
<1> QED
  BY <1>1, <1>2, <1>3

\* A claim over the known modalities that names an input reads back.
LEMMA ClaimReadsBack ==
  ASSUME NEW input \in (SUBSET Modality) \ {{}}, NEW output \in SUBSET Modality,
         NEW tools, NEW files, NEW source
  PROVE  ReadsBack([input |-> input, output |-> output, tool_call |-> tools,
                    attachment |-> files, source |-> source])
<1> DEFINE c == [input |-> input, output |-> output, tool_call |-> tools,
                 attachment |-> files, source |-> source]
<1>1. modalityList(c.input) = c.input /\ modalityList(c.output) = c.output /\ c.input # {}
  BY ModalitiesStay
<1>2. [c EXCEPT !.input = c.input, !.output = c.output] = c
  OBVIOUS
<1> QED
  BY <1>1, <1>2 DEF ReadsBack, parseStored

\* Nothing known reads back as nothing known.
LEMMA NothingReadsBack == ReadsBack(Unsaid)
BY DEF ReadsBack, parseStored

\* What the provider says of its own model reads back.
LEMMA ReportedReadsBack ==
  ASSUME NEW reported PROVE ReadsBack(fromReported(reported))
BY ModalitiesStay, ClaimReadsBack DEF fromReported

\* So does what models.dev says of it, if the entry is in the index.
LEMMA CatalogueReadsBack ==
  ASSUME NEW entry, modalityList(entry.input) # {}, NEW source
  PROVE  ReadsBack(fromCatalogue(entry, source))
BY ModalitiesStay, ClaimReadsBack DEF fromCatalogue

----------------------------------------------------------------------------
(* Places in a document.                                                    *)

\* A list of places that is not empty has a first one.
LEMMA ForemostTells ==
  ASSUME NEW places \in SUBSET Nat, places # {}
  PROVE  Foremost(places) \in places /\ \A k \in places : Foremost(places) <= k
BY LeastElement DEF Foremost

\* What models.dev lists of a provider's model under its host is an entry of the index.
LEMMA OwnIsIndexed ==
  ASSUME CapabilitiesAssumption, NEW document \in Documents, NEW offer,
         ownEntry(document, offer) # Unsaid
  PROVE  modalityList(ownEntry(document, offer).input) # {}
<1> DEFINE provider == byHost(document, offer.host)
           claims == {p \in DOMAIN document : document[p].host = offer.host}
           same == {k \in Indexed(provider) : Bare[provider.models[k].id] = Bare[offer.id]}
           exact == {k \in same : provider.models[k].id = offer.id}
           wanted == IF exact = {} THEN same ELSE exact
<1>1. provider # Unsaid /\ ownEntry(document, offer) = withinProvider(provider, offer.id)
  BY DEF ownEntry
<1>2. provider = document[Foremost(claims)] /\ claims # {}
  BY <1>1 DEF byHost
<1>3. claims \in SUBSET Nat
  BY DEF CapabilitiesAssumption, IsList
<1>4. Foremost(claims) \in DOMAIN document
  <2> HIDE DEF claims
  <2>1. Foremost(claims) \in claims
    BY <1>2, <1>3, ForemostTells
  <2> QED
    BY <2>1 DEF claims
<1>5. DOMAIN provider.models \subseteq Nat
  BY <1>2, <1>4 DEF CapabilitiesAssumption, IsList
<1>6. same # {} /\ withinProvider(provider, offer.id) = provider.models[Foremost(wanted)]
  BY <1>1 DEF withinProvider
<1>7. wanted \in SUBSET Nat /\ wanted # {} /\ wanted \subseteq Indexed(provider)
  <2> HIDE DEF provider
  <2>1. Indexed(provider) \subseteq Nat
    BY <1>5 DEF Indexed
  <2> QED
    BY <1>6, <2>1
<1>8. Foremost(wanted) \in Indexed(provider)
  <2> HIDE DEF wanted
  <2> QED
    BY <1>7, ForemostTells
<1> HIDE DEF provider, wanted, same, exact
<1>9. modalityList(provider.models[Foremost(wanted)].input) # {}
  BY <1>8 DEF Indexed
<1> QED
  BY <1>1, <1>6, <1>9

\* The places of a list's entries: only finitely many of them vote.
LEMMA VotersAreFinite ==
  ASSUME NEW document, IsList(document),
         \A p \in DOMAIN document : IsList(document[p].models), NEW id
  PROVE  IsFiniteSet(byId(document, id)) /\ byId(document, id) \in SUBSET (Nat \X Nat)
<1> DEFINE listed == {DOMAIN document[p].models : p \in DOMAIN document}
           f == [p \in DOMAIN document |-> DOMAIN document[p].models]
<1>1. IsFiniteSet(DOMAIN document) /\ DOMAIN document \subseteq Nat
  BY DEF IsList
<1>2. f \in Surjection(DOMAIN document, listed)
  BY DEF Surjection
<1>3. IsFiniteSet(listed)
  BY <1>1, <1>2, FS_Surjection
<1>4. \A T \in listed : IsFiniteSet(T) /\ T \subseteq Nat
  BY DEF IsList
<1>5. IsFiniteSet(UNION listed) /\ UNION listed \subseteq Nat
  BY <1>3, <1>4, FS_UNION
<1>6. IsFiniteSet(Places(document)) /\ Places(document) \subseteq Nat \X Nat
  <2>1. Places(document) = (DOMAIN document) \X UNION listed
    BY DEF Places
  <2> HIDE DEF listed
  <2> QED
    BY <1>1, <1>5, <2>1, FS_Product
<1>7. byId(document, id) \in SUBSET Places(document)
  BY DEF byId
<1> QED
  BY <1>6, <1>7, FS_Subset

----------------------------------------------------------------------------
(* The vote.                                                                *)

\* Every ballot has a number of votes, and no more than there are voters.
LEMMA VotesAreCounted ==
  ASSUME NEW document, NEW voters, IsFiniteSet(voters), NEW ballot
  PROVE  /\ Votes(document, voters, ballot) \in Nat
         /\ Cardinality(voters) \in Nat
         /\ Votes(document, voters, ballot) <= Cardinality(voters)
<1> DEFINE agreeing == {at \in voters : Ballot(Entry(document, at)) = ballot}
<1>1. agreeing \in SUBSET voters
  OBVIOUS
<1>2. IsFiniteSet(agreeing) /\ Cardinality(agreeing) <= Cardinality(voters)
  BY <1>1, FS_Subset
<1> QED
  BY <1>2, FS_CardinalityType DEF Votes

\* The nearest entry is a voter's, and no ballot has more votes than its own.
LEMMA NearestTells ==
  ASSUME NEW document, NEW voters \in SUBSET (Nat \X Nat), IsFiniteSet(voters), voters # {}
  PROVE  \E at \in voters :
           /\ nearest(document, voters) = Entry(document, at)
           /\ \A other \in voters : Votes(document, voters, Ballot(Entry(document, other)))
                                      <= Votes(document, voters, Ballot(Entry(document, at)))
<1> DEFINE n(at) == Votes(document, voters, Ballot(Entry(document, at)))
           best(at) == \A other \in voters :
                         n(other) < n(at) \/ (n(other) = n(at) /\ Ahead(at, other))
           counts == {n(at) : at \in voters}
<1>1. Cardinality(voters) \in Nat /\ \A at \in voters : n(at) \in 0 .. Cardinality(voters)
  <2>1. Cardinality(voters) \in Nat
    BY FS_CardinalityType
  <2>2. ASSUME NEW at \in voters PROVE n(at) \in 0 .. Cardinality(voters)
    BY <2>1, VotesAreCounted
  <2> QED
    BY <2>1, <2>2
<1>2. PICK most \in counts : \A other \in counts : other <= most
  <2>1. counts \in SUBSET (0 .. Cardinality(voters)) /\ counts # {}
    BY <1>1
  <2> HIDE DEF counts
  <2> QED
    BY <1>1, <2>1, GreatestElement
<1> DEFINE leading == {at \in voters : n(at) = most}
<1>3. leading # {} /\ leading \subseteq voters
  BY <1>2
<1> DEFINE rows == {at[1] : at \in leading}
<1>4. PICK row \in rows : \A other \in rows : row <= other
  <2>1. rows \in SUBSET Nat /\ rows # {}
    BY <1>3
  <2> HIDE DEF rows
  <2> QED
    BY <2>1, LeastElement
<1> DEFINE columns == {k \in Nat : <<row, k>> \in leading}
<1>5. columns # {}
  <2>1. PICK at \in leading : row = at[1]
    OBVIOUS
  <2>2. at = <<row, at[2]>> /\ at[2] \in Nat
    BY <2>1, <1>3
  <2> QED
    BY <2>2
<1>6. PICK column \in columns : \A other \in columns : column <= other
  <2>1. columns \in SUBSET Nat
    OBVIOUS
  <2> HIDE DEF columns
  <2> QED
    BY <2>1, <1>5, LeastElement
<1>7. <<row, column>> \in leading
  OBVIOUS
<1>8. best(<<row, column>>)
  <2> SUFFICES ASSUME NEW other \in voters
               PROVE  \/ n(other) < n(<<row, column>>)
                      \/ n(other) = n(<<row, column>>) /\ Ahead(<<row, column>>, other)
    OBVIOUS
  <2>1. n(<<row, column>>) = most /\ n(other) <= most /\ n(other) \in Nat /\ most \in Nat
    <3>1. n(<<row, column>>) = most
      BY <1>7
    <3>2. n(other) \in counts /\ most \in counts
      OBVIOUS
    <3>3. counts \subseteq Nat
      BY <1>1
    <3> HIDE DEF counts, n
    <3> QED
      BY <3>1, <3>2, <3>3, <1>2
  <2>2. CASE n(other) = most
    <3>1. other \in leading /\ other \in Nat \X Nat
      BY <2>2
    <3>2. other[1] \in rows /\ other = <<other[1], other[2]>> /\ other[1] \in Nat /\ other[2] \in Nat
      BY <3>1
    <3>3. row <= other[1] /\ row \in Nat
      <4>1. row \in Nat
        BY <1>7, <1>3
      <4> QED
        BY <3>2, <1>4, <4>1
    <3>4. other[1] = row => column <= other[2]
      BY <3>1, <3>2, <1>6
    <3>5. Ahead(<<row, column>>, other)
      <4>1. <<row, column>>[1] = row /\ <<row, column>>[2] = column
        OBVIOUS
      <4>2. row < other[1] \/ row = other[1]
        BY <3>2, <3>3
      <4> QED
        BY <4>1, <4>2, <3>4 DEF Ahead
    <3> QED
      BY <2>1, <2>2, <3>5
  <2>3. CASE n(other) # most
    <3> HIDE DEF n
    <3> QED
      BY <2>1, <2>3
  <2> QED
    BY <2>2, <2>3
<1>9. \E at \in voters : best(at)
  BY <1>7, <1>8, <1>3
<1> DEFINE first == CHOOSE at \in voters : best(at)
<1>10. first \in voters /\ best(first)
  <2> HIDE DEF best
  <2> QED
    BY <1>9
<1>11. nearest(document, voters) = Entry(document, first)
  BY DEF nearest
<1>12. \A other \in voters : n(other) <= n(first)
  <2> SUFFICES ASSUME NEW other \in voters PROVE n(other) <= n(first)
    OBVIOUS
  <2>1. n(other) < n(first) \/ n(other) = n(first)
    BY <1>10
  <2>2. n(other) \in Nat /\ n(first) \in Nat
    BY <1>1, <1>10
  <2> HIDE DEF n, first
  <2> QED
    BY <2>1, <2>2
<1> QED
  <2> HIDE DEF first
  <2> QED
    BY <1>10, <1>11, <1>12

\* f carries the voters of one document to those of another, entry by entry.
Carries(f, document, voters, other, others) ==
  /\ f \in Bijection(voters, others)
  /\ \A at \in voters : Entry(other, f[at]) = Entry(document, at)

\* Then every ballot has the same votes in both.
LEMMA SameVotes ==
  ASSUME NEW document, NEW voters, NEW other, NEW others, NEW f,
         Carries(f, document, voters, other, others), IsFiniteSet(voters)
  PROVE  /\ Cardinality(others) = Cardinality(voters)
         /\ \A ballot : Votes(other, others, ballot) = Votes(document, voters, ballot)
<1>1. /\ f \in [voters -> others]
      /\ \A a, b \in voters : f[a] = f[b] => a = b
      /\ \A b \in others : \E a \in voters : f[a] = b
      /\ \A at \in voters : Entry(other, f[at]) = Entry(document, at)
  BY DEF Carries, Bijection, Injection, Surjection, IsInjective
<1>2. Cardinality(others) = Cardinality(voters)
  <2>1. ExistsBijection(voters, others)
    BY DEF Carries, ExistsBijection
  <2> QED
    BY <2>1, FS_Bijection
<1>3. ASSUME NEW ballot PROVE Votes(other, others, ballot) = Votes(document, voters, ballot)
  <2> DEFINE A == {at \in voters : Ballot(Entry(document, at)) = ballot}
             B == {at \in others : Ballot(Entry(other, at)) = ballot}
             g == [at \in A |-> f[at]]
  <2>1. IsFiniteSet(A)
    <3>1. A \in SUBSET voters
      OBVIOUS
    <3> QED
      BY <3>1, FS_Subset
  <2>2. g \in [A -> B]
    BY <1>1
  <2>3. \A a, b \in A : g[a] = g[b] => a = b
    BY <1>1
  <2>4. \A b \in B : \E a \in A : g[a] = b
    BY <1>1
  <2>5. ExistsBijection(A, B)
    <3> HIDE DEF A, B, g
    <3>1. g \in Bijection(A, B)
      BY <2>2, <2>3, <2>4 DEF Bijection, Injection, Surjection, IsInjective
    <3> QED
      BY <3>1 DEF ExistsBijection
  <2>6. Cardinality(B) = Cardinality(A)
    BY <2>1, <2>5, FS_Bijection
  <2> QED
    BY <2>6 DEF Votes
<1> QED
  BY <1>2, <1>3

\* And where the vote decides in one it decides the same in the other.
LEMMA SameWinner ==
  ASSUME NEW document, NEW voters \in SUBSET (Nat \X Nat), IsFiniteSet(voters), voters # {},
         NEW other, NEW others \in SUBSET (Nat \X Nat), NEW f,
         Carries(f, document, voters, other, others)
  PROVE  /\ Ambiguous(document, voters) <=> Ambiguous(other, others)
         /\ ~ Ambiguous(document, voters)
            => Ballot(nearest(document, voters)) = Ballot(nearest(other, others))
<1> DEFINE size == Cardinality(voters)
           won == Ballot(nearest(document, voters))
           there == Ballot(nearest(other, others))
           v(ballot) == Votes(document, voters, ballot)
<1>1. /\ f \in [voters -> others]
      /\ \A b \in others : \E a \in voters : f[a] = b
      /\ \A at \in voters : Entry(other, f[at]) = Entry(document, at)
  BY DEF Carries, Bijection, Injection, Surjection
<1>2. Cardinality(others) = size /\ \A ballot : Votes(other, others, ballot) = v(ballot)
  BY SameVotes
<1>3. IsFiniteSet(others) /\ others # {}
  <2>1. ExistsBijection(voters, others)
    BY DEF Carries, ExistsBijection
  <2> QED
    BY <1>1, <2>1, FS_Bijection
<1>4. PICK a \in voters :
        /\ won = Ballot(Entry(document, a))
        /\ \A b \in voters : v(Ballot(Entry(document, b))) <= v(Ballot(Entry(document, a)))
  BY NearestTells
<1>5. PICK c \in others :
        /\ there = Ballot(Entry(other, c))
        /\ \A d \in others : Votes(other, others, Ballot(Entry(other, d)))
                               <= Votes(other, others, Ballot(Entry(other, c)))
  BY <1>3, NearestTells
<1>6. PICK b \in voters : there = Ballot(Entry(document, b))
  BY <1>1, <1>5
<1>7. v(won) \in Nat /\ v(there) \in Nat /\ size \in Nat
  BY VotesAreCounted
<1>8. v(there) = v(won)
  <2>1. v(there) <= v(won)
    BY <1>4, <1>6
  <2>2. v(won) <= v(there)
    <3>1. Entry(other, f[a]) = Entry(document, a) /\ f[a] \in others
      BY <1>1
    <3>2. Votes(other, others, won) <= Votes(other, others, there)
      BY <3>1, <1>4, <1>5
    <3> QED
      BY <3>2, <1>2
  <2> HIDE DEF v, won, there
  <2> QED
    BY <2>1, <2>2, <1>7
<1> DEFINE split == \E x, y \in voters : Ballot(Entry(document, x)) # Ballot(Entry(document, y))
<1>9. split <=> \E x, y \in others : Ballot(Entry(other, x)) # Ballot(Entry(other, y))
  <2>1. ASSUME split
        PROVE  \E x, y \in others : Ballot(Entry(other, x)) # Ballot(Entry(other, y))
    <3>1. PICK x \in voters, y \in voters :
             Ballot(Entry(document, x)) # Ballot(Entry(document, y))
      BY <2>1
    <3>2. f[x] \in others /\ f[y] \in others
          /\ Ballot(Entry(other, f[x])) # Ballot(Entry(other, f[y]))
      BY <3>1, <1>1
    <3> QED
      BY <3>2
  <2>2. ASSUME NEW x \in others, NEW y \in others,
               Ballot(Entry(other, x)) # Ballot(Entry(other, y))
        PROVE  split
    <3>1. PICK s \in voters, t \in voters : f[s] = x /\ f[t] = y
      BY <1>1
    <3> QED
      BY <3>1, <2>2, <1>1
  <2> QED
    BY <2>1, <2>2
<1>10. Ambiguous(document, voters) <=> split /\ v(won) * 2 <= size
  BY DEF Ambiguous
<1>11. Ambiguous(other, others) <=> split /\ v(there) * 2 <= size
  BY <1>9, <1>2 DEF Ambiguous
<1>12. ASSUME ~ Ambiguous(document, voters) PROVE won = there
  <2>1. CASE ~ split
    BY <2>1, <1>4, <1>6
  <2>2. CASE split
    <3> DEFINE A == {at \in voters : Ballot(Entry(document, at)) = won}
               B == {at \in voters : Ballot(Entry(document, at)) = there}
    <3>1. Cardinality(A) = v(won) /\ Cardinality(B) = v(won)
      <4>1. Cardinality(A) = v(won)
        BY DEF Votes
      <4>2. Cardinality(B) = v(there)
        BY DEF Votes
      <4> QED
        BY <4>1, <4>2, <1>8
    <3>2. A \subseteq voters /\ B \subseteq voters
      OBVIOUS
    <3>3. Cardinality(A) + Cardinality(B) > size
      <4>1. ~ (v(won) * 2 <= size)
        BY <1>12, <2>2, <1>10
      <4> HIDE DEF v, won, size
      <4> QED
        BY <4>1, <3>1, <1>7
    <3>4. A \cap B # {}
      <4> HIDE DEF A, B
      <4> QED
        BY <3>2, <3>3, FS_MajoritiesIntersect
    <3> QED
      BY <3>4
  <2> QED
    BY <2>1, <2>2
<1> QED
  BY <1>8, <1>10, <1>11, <1>12

\* Two entries with one ballot say the same of all that was voted on.
LEMMA SameBallot ==
  ASSUME NEW entry, NEW other, NEW source, Ballot(entry) = Ballot(other),
         fromCatalogue(entry, source) # Unsaid, fromCatalogue(other, source) # Unsaid
  PROVE  Voted(fromCatalogue(entry, source)) = Voted(fromCatalogue(other, source))
<1>1. /\ modalityList(entry.input) = modalityList(other.input)
      /\ modalityList(entry.output) = modalityList(other.output)
      /\ entry.tool_call = other.tool_call
  BY DEF Ballot
<1> QED
  BY <1>1 DEF Voted, fromCatalogue

\* Where the entry at p stands once i and j have changed places.
Place(p, i, j) == IF p = i THEN j ELSE IF p = j THEN i ELSE p

\* The entries of a document move with their providers.
LEMMA SwappedTells ==
  ASSUME NEW document, NEW i \in DOMAIN document, NEW j \in DOMAIN document
  PROVE  /\ DOMAIN Swapped(document, i, j) = DOMAIN document
         /\ \A p \in DOMAIN document :
              /\ Place(p, i, j) \in DOMAIN document
              /\ Place(Place(p, i, j), i, j) = p
              /\ Swapped(document, i, j)[p] = document[Place(p, i, j)]
BY DEF Swapped, Place

\* A provider lists what it lists, wherever it stands.
LEMMA PlacesMove ==
  ASSUME NEW document, NEW i \in DOMAIN document, NEW j \in DOMAIN document, NEW p, NEW k
  PROVE  <<p, k>> \in Places(Swapped(document, i, j)) => <<Place(p, i, j), k>> \in Places(document)
<1> DEFINE shuffled == Swapped(document, i, j)
<1>1. DOMAIN shuffled = DOMAIN document
  BY SwappedTells
<1>2. \A q \in DOMAIN document : Place(q, i, j) \in DOMAIN document
                                 /\ shuffled[q] = document[Place(q, i, j)]
  BY SwappedTells
<1> HIDE DEF shuffled
<1> SUFFICES ASSUME <<p, k>> \in Places(shuffled) PROVE <<Place(p, i, j), k>> \in Places(document)
  BY DEF shuffled
<1>3. p \in DOMAIN document /\ k \in UNION {DOMAIN shuffled[q].models : q \in DOMAIN shuffled}
  BY <1>1 DEF Places
<1>4. PICK q \in DOMAIN shuffled : k \in DOMAIN shuffled[q].models
  BY <1>3
<1>5. k \in DOMAIN document[Place(q, i, j)].models /\ Place(q, i, j) \in DOMAIN document
  BY <1>1, <1>2, <1>4
<1>6. k \in UNION {DOMAIN document[r].models : r \in DOMAIN document}
  BY <1>5
<1> QED
  BY <1>2, <1>3, <1>6 DEF Places

\* So do the voters.
LEMMA VotersMove ==
  ASSUME NEW document, NEW i \in DOMAIN document, NEW j \in DOMAIN document, NEW id, NEW p, NEW k,
         <<p, k>> \in byId(Swapped(document, i, j), id)
  PROVE  /\ <<Place(p, i, j), k>> \in byId(document, id)
         /\ Entry(document, <<Place(p, i, j), k>>) = Entry(Swapped(document, i, j), <<p, k>>)
<1> DEFINE shuffled == Swapped(document, i, j)
<1>1. /\ <<p, k>> \in Places(shuffled) /\ k \in Indexed(shuffled[p])
      /\ Bare[Entry(shuffled, <<p, k>>).id] = Bare[id]
  BY DEF byId
<1>2. <<Place(p, i, j), k>> \in Places(document)
  BY <1>1, PlacesMove
<1>3. p \in DOMAIN document
  <2>1. p \in DOMAIN shuffled
    BY <1>1 DEF Places
  <2> QED
    BY <2>1, SwappedTells
<1>4. shuffled[p] = document[Place(p, i, j)]
  BY <1>3, SwappedTells
<1>5. Entry(document, <<Place(p, i, j), k>>) = Entry(shuffled, <<p, k>>)
  BY <1>4 DEF Entry
<1> HIDE DEF shuffled
<1>6. <<Place(p, i, j), k>> \in byId(document, id)
  BY <1>1, <1>2, <1>4, <1>5 DEF byId
<1> QED
  BY <1>5, <1>6 DEF shuffled

\* To change places twice is not to move.
LEMMA SwappedBack ==
  ASSUME NEW document, NEW i \in DOMAIN document, NEW j \in DOMAIN document, NEW p, NEW k, NEW id
  PROVE  /\ <<p, k>> \in byId(document, id)
            => <<Place(p, i, j), k>> \in byId(Swapped(document, i, j), id)
         /\ <<p, k>> \in byId(document, id) => Place(Place(p, i, j), i, j) = p
<1> DEFINE shuffled == Swapped(document, i, j)
<1>1. DOMAIN shuffled = DOMAIN document /\ i \in DOMAIN shuffled /\ j \in DOMAIN shuffled
  BY SwappedTells
<1> SUFFICES ASSUME <<p, k>> \in byId(document, id)
             PROVE  /\ <<Place(p, i, j), k>> \in byId(shuffled, id)
                    /\ Place(Place(p, i, j), i, j) = p
  OBVIOUS
<1>2. p \in DOMAIN document /\ k \in UNION {DOMAIN document[q].models : q \in DOMAIN document}
      /\ k \in Indexed(document[p]) /\ Bare[document[p].models[k].id] = Bare[id]
  <2>1. <<p, k>>[1] = p /\ <<p, k>>[2] = k
    OBVIOUS
  <2> QED
    BY <2>1 DEF byId, Places, Entry
<1>3. \A q \in DOMAIN document :
        /\ Place(q, i, j) \in DOMAIN document
        /\ Place(Place(q, i, j), i, j) = q
        /\ shuffled[q] = document[Place(q, i, j)]
  BY SwappedTells
<1>4. PICK q \in DOMAIN document : k \in DOMAIN document[q].models
  BY <1>2
<1>5. shuffled[Place(q, i, j)] = document[q] /\ shuffled[Place(p, i, j)] = document[p]
      /\ Place(q, i, j) \in DOMAIN shuffled /\ Place(p, i, j) \in DOMAIN shuffled
  BY <1>1, <1>2, <1>3, <1>4
<1> HIDE DEF shuffled
<1>6. k \in UNION {DOMAIN shuffled[r].models : r \in DOMAIN shuffled}
  BY <1>4, <1>5
<1>7. <<Place(p, i, j), k>> \in Places(shuffled)
  BY <1>5, <1>6 DEF Places
<1>8. Entry(shuffled, <<Place(p, i, j), k>>) = document[p].models[k]
  BY <1>5 DEF Entry
<1>9. <<Place(p, i, j), k>> \in byId(shuffled, id)
  BY <1>2, <1>5, <1>7, <1>8 DEF byId
<1> QED
  BY <1>2, <1>3, <1>9

\* The voters of a document and of the one with two providers swapped are the same entries.
LEMMA SwapCarries ==
  ASSUME NEW document, NEW i \in DOMAIN document, NEW j \in DOMAIN document, NEW id
  PROVE  \E f : Carries(f, Swapped(document, i, j), byId(Swapped(document, i, j), id),
                        document, byId(document, id))
<1> DEFINE shuffled == Swapped(document, i, j)
           V == byId(shuffled, id)
           W == byId(document, id)
           f == [at \in V |-> <<Place(at[1], i, j), at[2]>>]
<1>1. \A at \in V : at = <<at[1], at[2]>>
  BY DEF byId, Places
<1>2. \A at \in W : at = <<at[1], at[2]>>
  BY DEF byId, Places
<1>3. ASSUME NEW at \in V PROVE f[at] \in W /\ Entry(document, f[at]) = Entry(shuffled, at)
  <2>1. <<at[1], at[2]>> \in byId(shuffled, id) /\ f[at] = <<Place(at[1], i, j), at[2]>>
    BY <1>1
  <2> QED
    BY <1>1, <2>1, VotersMove
<1>4. ASSUME NEW a \in V, NEW b \in V, f[a] = f[b] PROVE a = b
  <2>1. Place(a[1], i, j) = Place(b[1], i, j) /\ a[2] = b[2]
    BY <1>4
  <2>2. a[1] \in DOMAIN document /\ b[1] \in DOMAIN document
    <3>1. a[1] \in DOMAIN shuffled /\ b[1] \in DOMAIN shuffled
      BY DEF byId, Places
    <3> QED
      BY <3>1, SwappedTells
  <2>3. a[1] = b[1]
    BY <2>1, <2>2, SwappedTells
  <2> QED
    BY <2>1, <2>3, <1>1
<1>5. ASSUME NEW b \in W PROVE \E a \in V : f[a] = b
  <2>1. b = <<b[1], b[2]>>
    BY <1>2
  <2>2. <<Place(b[1], i, j), b[2]>> \in V /\ Place(Place(b[1], i, j), i, j) = b[1]
    BY <2>1, SwappedBack
  <2>3. f[<<Place(b[1], i, j), b[2]>>] = b
    BY <2>1, <2>2
  <2> QED
    BY <2>2, <2>3
<1>6. f \in Bijection(V, W) /\ \A at \in V : Entry(document, f[at]) = Entry(shuffled, at)
  <2>1. f \in [V -> W]
    BY <1>3
  <2> HIDE DEF f, V, W, shuffled
  <2> QED
    BY <2>1, <1>3, <1>4, <1>5 DEF Bijection, Injection, Surjection, IsInjective
<1>7. Carries(f, shuffled, V, document, W)
  BY <1>6 DEF Carries
<1> QED
  BY <1>7

\* What the index knows of a model is no null.
LEMMA VoterIsKnown ==
  ASSUME CapabilitiesAssumption, NEW document \in Documents, NEW id,
         NEW at \in byId(document, id), NEW source \in {"models.dev", "models.dev-nearest"}
  PROVE  /\ fromCatalogue(Entry(document, at), source) # Unsaid
         /\ modalityList(Entry(document, at).input) # {}
<1> DEFINE entry == Entry(document, at)
<1>1. at[1] \in DOMAIN document /\ at[2] \in Indexed(document[at[1]])
  BY DEF byId, Places
<1>2. at[2] \in DOMAIN document[at[1]].models /\ modalityList(entry.input) # {}
  BY <1>1 DEF Indexed, Entry
<1>3. entry.tool_call \in Flag /\ entry.attachment \in Flag
  BY <1>1, <1>2 DEF CapabilitiesAssumption, Entry
<1>4. modalityList(entry.input) \in SUBSET Modality
      /\ TextUnless(modalityList(entry.output)) \in SUBSET Modality
  BY ModalitiesStay
<1> HIDE DEF entry
<1>5. fromCatalogue(entry, source) \in Capability
  BY <1>3, <1>4 DEF fromCatalogue, Capability
<1> QED
  BY <1>2, <1>5 DEF CapabilitiesAssumption, entry

\* A document of models.dev, whole.
LEMMA DocumentTells ==
  ASSUME CapabilitiesAssumption, NEW document \in Documents, NEW id
  PROVE  /\ document # Unsaid
         /\ IsFiniteSet(byId(document, id)) /\ byId(document, id) \in SUBSET (Nat \X Nat)
BY VotersAreFinite DEF CapabilitiesAssumption

\* What resolveModel says where the provider says nothing: the tiers of models.dev.
LEMMA Resolved ==
  ASSUME NEW document, NEW offer
  PROVE  resolveModel(document, offer).capabilities =
           IF reportedCapabilities(offer.entry) # Unsaid
           THEN fromReported(reportedCapabilities(offer.entry))
           ELSE IF document = Unsaid THEN Unsaid
           ELSE IF ownEntry(document, offer) # Unsaid
                THEN fromCatalogue(ownEntry(document, offer), "models.dev")
           ELSE IF byId(document, offer.id) = {} \/ Ambiguous(document, byId(document, offer.id))
                THEN Unsaid
           ELSE fromCatalogue(nearest(document, byId(document, offer.id)), "models.dev-nearest")
BY DEF resolveModel

\* Whatever models.dev serves, what is stored of a model reads back.
LEMMA ResolvedReadsBack ==
  ASSUME CapabilitiesAssumption, NEW document \in Documents \cup {Unsaid}, NEW offer
  PROVE  ReadsBack(resolveModel(document, offer).capabilities)
<1> DEFINE reported == reportedCapabilities(offer.entry)
           voters == byId(document, offer.id)
<1>1. CASE reported # Unsaid
  BY <1>1, Resolved, ReportedReadsBack
<1>2. CASE reported = Unsaid /\ document = Unsaid
  BY <1>2, Resolved, NothingReadsBack
<1>3. CASE reported = Unsaid /\ document # Unsaid /\ ownEntry(document, offer) # Unsaid
  <2>1. ReadsBack(fromCatalogue(ownEntry(document, offer), "models.dev"))
    BY <1>3, OwnIsIndexed, CatalogueReadsBack
  <2> QED
    BY <1>3, <2>1, Resolved
<1>4. CASE reported = Unsaid /\ document # Unsaid /\ ownEntry(document, offer) = Unsaid
  <2>1. CASE voters = {} \/ Ambiguous(document, voters)
    BY <1>4, <2>1, Resolved, NothingReadsBack
  <2>2. CASE voters # {} /\ ~ Ambiguous(document, voters)
    <3>1. PICK at \in voters : nearest(document, voters) = Entry(document, at)
      BY <1>4, <2>2, DocumentTells, NearestTells
    <3>2. modalityList(nearest(document, voters).input) # {}
      BY <1>4, <3>1, VoterIsKnown
    <3> QED
      BY <1>4, <2>2, <3>2, Resolved, CatalogueReadsBack
  <2> QED
    BY <2>1, <2>2
<1> QED
  BY <1>1, <1>2, <1>3, <1>4

\* Of a document that models.dev serves, and of the same with two providers swapped, the vote
\* says the same.
LEMMA SwappedVote ==
  ASSUME CapabilitiesAssumption, NEW document \in Documents, NEW offer,
         NEW i \in DOMAIN document, NEW j \in DOMAIN document,
         ownEntry(document, offer) = Unsaid,
         ownEntry(Swapped(document, i, j), offer) = Unsaid
  PROVE  Voted(resolveModel(Swapped(document, i, j), offer).capabilities)
           = Voted(resolveModel(document, offer).capabilities)
<1> DEFINE shuffled == Swapped(document, i, j)
           V == byId(shuffled, offer.id)
           W == byId(document, offer.id)
<1>1. shuffled # Unsaid /\ document # Unsaid
  BY DEF CapabilitiesAssumption
<1>2. IsFiniteSet(W) /\ W \in SUBSET (Nat \X Nat)
  BY DocumentTells
<1>3. IsFiniteSet(V) /\ V \in SUBSET (Nat \X Nat)
  <2>1. IsList(shuffled) /\ \A p \in DOMAIN shuffled : IsList(shuffled[p].models)
    <3>1. IsList(document) /\ \A p \in DOMAIN document : IsList(document[p].models)
      BY DEF CapabilitiesAssumption
    <3>2. DOMAIN shuffled = DOMAIN document
          /\ \A p \in DOMAIN document : Place(p, i, j) \in DOMAIN document
                                        /\ shuffled[p] = document[Place(p, i, j)]
      BY SwappedTells
    <3>3. ASSUME NEW p \in DOMAIN shuffled PROVE IsList(shuffled[p].models)
      BY <3>1, <3>2
    <3> HIDE DEF shuffled
    <3> QED
      BY <3>1, <3>2, <3>3 DEF IsList
  <2> QED
    BY <2>1, VotersAreFinite
<1>4. PICK f : Carries(f, shuffled, V, document, W)
  BY SwapCarries
<1>5. CASE reportedCapabilities(offer.entry) # Unsaid
  BY <1>5, Resolved
<1>6. CASE reportedCapabilities(offer.entry) = Unsaid /\ V = {}
  <2>1. W = {}
    BY <1>4, <1>6 DEF Carries, Bijection, Surjection
  <2> QED
    BY <1>1, <1>6, <2>1, Resolved
<1>7. CASE reportedCapabilities(offer.entry) = Unsaid /\ V # {}
  <2>1. W # {}
    BY <1>4, <1>7 DEF Carries, Bijection, Injection
  <2>2. /\ Ambiguous(shuffled, V) <=> Ambiguous(document, W)
        /\ ~ Ambiguous(shuffled, V) => Ballot(nearest(shuffled, V)) = Ballot(nearest(document, W))
    BY <1>2, <1>3, <1>4, <1>7, SameWinner
  <2>3. CASE Ambiguous(document, W)
    BY <1>1, <1>7, <2>1, <2>2, <2>3, Resolved
  <2>4. CASE ~ Ambiguous(document, W)
    <3>1. PICK a \in V : nearest(shuffled, V) = Entry(shuffled, a)
      BY <1>3, <1>7, NearestTells
    <3>2. PICK b \in W : nearest(shuffled, V) = Entry(document, b)
      BY <1>4, <3>1 DEF Carries, Bijection, Injection
    <3>3. PICK c \in W : nearest(document, W) = Entry(document, c)
      BY <1>2, <2>1, NearestTells
    <3>4. /\ fromCatalogue(nearest(shuffled, V), "models.dev-nearest") # Unsaid
          /\ fromCatalogue(nearest(document, W), "models.dev-nearest") # Unsaid
      BY <3>2, <3>3, VoterIsKnown
    <3>5. Voted(fromCatalogue(nearest(shuffled, V), "models.dev-nearest"))
            = Voted(fromCatalogue(nearest(document, W), "models.dev-nearest"))
      BY <2>2, <2>4, <3>4, SameBallot
    <3>6. resolveModel(shuffled, offer).capabilities
            = fromCatalogue(nearest(shuffled, V), "models.dev-nearest")
      BY <1>1, <1>7, <2>2, <2>4, Resolved
    <3>7. resolveModel(document, offer).capabilities
            = fromCatalogue(nearest(document, W), "models.dev-nearest")
      BY <1>1, <1>7, <2>1, <2>4, Resolved
    <3> HIDE DEF V, W, shuffled
    <3> QED
      BY <3>5, <3>6, <3>7 DEF shuffled
  <2> QED
    BY <2>3, <2>4
<1> QED
  BY <1>5, <1>6, <1>7

----------------------------------------------------------------------------
(* The index in memory and the discoveries that work from it.               *)

Discovery == [pc : {"rest", "fetching", "listing"}, force : BOOLEAN,
              using : Documents \cup {Unsaid}, loaded : BOOLEAN]

\* A discovery that began with a document in memory has one when it writes: its own, or the
\* one it keeps for want of another.
CapabilitiesInv ==
  /\ today \in Nat
  /\ published \in Documents
  /\ index \in [document : Documents, at : Nat] \cup {Unsaid}
  /\ discovery \in [Discoveries -> Discovery]
  /\ \A d \in Discoveries : discovery[d].loaded =>
       /\ discovery[d].pc = "fetching" => index # Unsaid
       /\ discovery[d].pc = "listing" => discovery[d].using \in Documents
  /\ \A offer \in Offers : ReadsBack(facts[offer].capabilities)

LEMMA AtRestIsDiscovery == AtRest \in Discovery /\ ~ AtRest.loaded
BY DEF AtRest, Discovery

LEMMA CapabilitiesInvInit ==
  CapabilitiesAssumption /\ CapabilitiesInit => CapabilitiesInv
<1> SUFFICES ASSUME CapabilitiesAssumption, CapabilitiesInit PROVE CapabilitiesInv
  OBVIOUS
<1>1. \A offer \in Offers : ReadsBack(facts[offer].capabilities)
  BY NothingReadsBack DEF CapabilitiesInit, NoFacts
<1>2. discovery \in [Discoveries -> Discovery] /\ \A d \in Discoveries : ~ discovery[d].loaded
  BY AtRestIsDiscovery DEF CapabilitiesInit
<1> QED
  BY <1>1, <1>2 DEF CapabilitiesInit, CapabilitiesInv

LEMMA CapabilitiesInvNext ==
  CapabilitiesAssumption /\ CapabilitiesInv /\ [CapabilitiesNext]_capabilityVars
    => CapabilitiesInv'
<1> SUFFICES ASSUME CapabilitiesAssumption, CapabilitiesInv, [CapabilitiesNext]_capabilityVars
             PROVE  CapabilitiesInv'
  OBVIOUS
<1>0. /\ today \in Nat
      /\ published \in Documents
      /\ index \in [document : Documents, at : Nat] \cup {Unsaid}
      /\ discovery \in [Discoveries -> Discovery]
      /\ \A d \in Discoveries : discovery[d].loaded =>
           /\ discovery[d].pc = "fetching" => index # Unsaid
           /\ discovery[d].pc = "listing" => discovery[d].using \in Documents
      /\ \A offer \in Offers : ReadsBack(facts[offer].capabilities)
  BY DEF CapabilitiesInv
<1>1. ASSUME NEW d \in Discoveries, NEW force \in BOOLEAN, StartDiscovery(d, force)
      PROVE  CapabilitiesInv'
  <2>1. CASE ~force /\ FreshEnough
    <3> DEFINE next == [pc |-> "listing", force |-> force, using |-> index.document, loaded |-> TRUE]
    <3>1. discovery' = [discovery EXCEPT ![d] = next]
      BY <1>1, <2>1 DEF StartDiscovery
    <3>2. next \in Discovery /\ next.pc = "listing" /\ next.using \in Documents
      BY <1>0, <2>1 DEF FreshEnough, Discovery
    <3> HIDE DEF next
    <3> QED
      BY <1>0, <1>1, <3>1, <3>2 DEF StartDiscovery, CapabilitiesInv
  <2>2. CASE ~ (~force /\ FreshEnough)
    <3> DEFINE next == [pc |-> "fetching", force |-> force, using |-> Unsaid, loaded |-> index # Unsaid]
    <3>1. discovery' = [discovery EXCEPT ![d] = next]
      BY <1>1, <2>2 DEF StartDiscovery
    <3>2. next \in Discovery /\ next.pc = "fetching" /\ (next.loaded => index # Unsaid)
      BY DEF Discovery
    <3> HIDE DEF next
    <3> QED
      BY <1>0, <1>1, <3>1, <3>2 DEF StartDiscovery, CapabilitiesInv
  <2> QED
    BY <2>1, <2>2
<1>2. ASSUME NEW d \in Discoveries, Fetched(d) PROVE CapabilitiesInv'
  <2> DEFINE next == [discovery[d] EXCEPT !.pc = "listing", !.using = published]
  <2>1. discovery' = [discovery EXCEPT ![d] = next]
    BY <1>0, <1>2 DEF Fetched
  <2>2. next \in Discovery /\ next.using = published /\ next.pc = "listing"
    BY <1>0 DEF Discovery
  <2>3. index' \in [document : Documents, at : Nat] /\ index' # Unsaid
    BY <1>0, <1>2 DEF Fetched, CapabilitiesAssumption
  <2> QED
    BY <1>0, <1>2, <2>1, <2>2, <2>3 DEF Fetched, CapabilitiesInv
<1>3. ASSUME NEW d \in Discoveries, NotFetched(d) PROVE CapabilitiesInv'
  <2> DEFINE next == [discovery[d] EXCEPT !.pc = "listing", !.using = Fallback]
  <2>1. discovery' = [discovery EXCEPT ![d] = next]
    BY <1>0, <1>3 DEF NotFetched
  <2>2. Fallback \in Documents \cup {Unsaid} /\ (index # Unsaid => Fallback \in Documents)
    BY <1>0 DEF Fallback
  <2>3. next \in Discovery /\ next.using = Fallback /\ next.pc = "listing"
        /\ next.loaded = discovery[d].loaded
    BY <1>0, <2>2 DEF Discovery
  <2>4. discovery[d].loaded => index # Unsaid
    BY <1>0, <1>3 DEF NotFetched
  <2> QED
    BY <1>0, <1>3, <2>1, <2>2, <2>3, <2>4 DEF NotFetched, CapabilitiesInv
<1>4. ASSUME NEW d \in Discoveries, WriteFacts(d) PROVE CapabilitiesInv'
  <2>1. discovery[d].using \in Documents \cup {Unsaid}
    BY <1>0 DEF Discovery
  <2>2. \A offer \in Offers : ReadsBack(facts'[offer].capabilities)
    BY <1>4, <2>1, ResolvedReadsBack DEF WriteFacts
  <2> QED
    BY <1>0, <1>4, <2>2, AtRestIsDiscovery DEF WriteFacts, CapabilitiesInv
<1>5. ASSUME NEW d \in Discoveries, NoListing(d) PROVE CapabilitiesInv'
  BY <1>0, <1>5, AtRestIsDiscovery DEF NoListing, CapabilitiesInv
<1>6. CASE ForgetIndex
  BY <1>0, <1>6, AtRestIsDiscovery DEF ForgetIndex, CapabilitiesInv
<1>7. CASE Publish
  BY <1>0, <1>7 DEF Publish, CapabilitiesInv
<1>8. CASE UNCHANGED capabilityVars
  BY <1>0, <1>8 DEF capabilityVars, CapabilitiesInv
<1> QED
  BY <1>1, <1>2, <1>3, <1>4, <1>5, <1>6, <1>7, <1>8 DEF CapabilitiesNext

\* A discovery that had a document blanks what a document of models.dev says nothing of.
LEMMA BlankedIsUndecided ==
  ASSUME CapabilitiesInv, [CapabilitiesNext]_capabilityVars,
         NEW d \in Discoveries, discovery[d].pc = "listing", discovery[d].loaded,
         discovery'[d].pc = "rest", NEW offer \in Offers, Blanked(offer)
  PROVE  Undecided(offer)
<1>1. facts' # facts
  BY DEF Blanked
<1>2. PICK e \in Discoveries : WriteFacts(e)
  BY <1>1 DEF CapabilitiesNext, capabilityVars, StartDiscovery, Fetched, NotFetched, NoListing,
              ForgetIndex, Publish
<1>3. e = d
  BY <1>2 DEF WriteFacts, CapabilitiesInv
<1>4. discovery[d].using \in Documents
  BY DEF CapabilitiesInv
<1>5. resolveModel(discovery[d].using, offer).capabilities = Unsaid
  BY <1>2, <1>3 DEF WriteFacts, Blanked
<1> QED
  BY <1>4, <1>5 DEF Undecided

\* What clients are told of a model does not hang on the order in which models.dev lists its
\* providers, reads back from the database as it was written, and is not lost when models.dev
\* cannot be read (src/src/models/capabilities.ts, nearest, parseStoredCapabilities, cached).
THEOREM CapabilitiesKept == CapabilitiesSpec => CapabilitiesAreKept
<1> DEFINE keeps == \A d \in Discoveries :
             discovery[d].pc = "listing" /\ discovery[d].loaded /\ discovery'[d].pc = "rest"
             => \A offer \in Offers : Blanked(offer) => Undecided(offer)
<1>1. CapabilitiesInit => CapabilitiesInv
  BY CapabilitiesInvInit, CapabilitiesAssumption
<1>2. CapabilitiesInv /\ [CapabilitiesNext]_capabilityVars => CapabilitiesInv'
  BY CapabilitiesInvNext, CapabilitiesAssumption
<1>3. CapabilitiesInv => VoteIgnoresOrder
  BY SwappedVote, CapabilitiesAssumption DEF CapabilitiesInv, VoteIgnoresOrder
<1>4. CapabilitiesInv => StoredReadsBack
  BY DEF CapabilitiesInv, StoredReadsBack, ReadsBack
<1>5. CapabilitiesInv /\ [CapabilitiesNext]_capabilityVars => [keeps]_capabilityVars
  BY BlankedIsUndecided
<1> QED
  BY <1>1, <1>2, <1>3, <1>4, <1>5, PTL
     DEF CapabilitiesSpec, CapabilitiesAreKept, KnownStaysKnown
=============================================================================
