-------------------------- MODULE GatewayTheorems --------------------------
(***************************************************************************)
(* Safety of the request path for every set of requests and providers,     *)
(* every route and every breaker policy; first the two policies it is      *)
(* built on, the breaker's arithmetic and the ordering of candidates.      *)
(***************************************************************************)
EXTENDS Gateway, Foundations, FiniteSetTheorems

----------------------------------------------------------------------------
(* The breaker's arithmetic.  Powers of two are opaque to the provers but   *)
(* for literal exponents, so the facts about Cooldown go through the        *)
(* MaxExponent + 1 values of the exponent.                                  *)

\* Doublings applied to a wait after the given number of failures.
Exponent(count) == Smaller(count - Threshold, MaxExponent)

\* The capped exponent is one of seventeen literals.
LEMMA ExponentRange ==
  ASSUME NEW f \in Nat, f >= Threshold
  PROVE  Exponent(f) \in 0 .. MaxExponent
BY BreakerPolicyAssumption DEF Exponent, Smaller, MaxExponent

\* A capped power of two is positive, and the next one is twice as large.
LEMMA PowersOfTwo ==
  ASSUME NEW e \in 0 .. 16
  PROVE  2 ^ e \in Nat \ {0} /\ 2 ^ (e + 1) = 2 * 2 ^ e
<1>0. CASE e = 0
  <2>1. 2 ^ e = 1 /\ 2 ^ (e + 1) = 2
    BY <1>0
  <2> QED
    BY <2>1
<1>1. CASE e = 1
  <2>1. 2 ^ e = 2 /\ 2 ^ (e + 1) = 4
    BY <1>1
  <2> QED
    BY <2>1
<1>2. CASE e = 2
  <2>1. 2 ^ e = 4 /\ 2 ^ (e + 1) = 8
    BY <1>2
  <2> QED
    BY <2>1
<1>3. CASE e = 3
  <2>1. 2 ^ e = 8 /\ 2 ^ (e + 1) = 16
    BY <1>3
  <2> QED
    BY <2>1
<1>4. CASE e = 4
  <2>1. 2 ^ e = 16 /\ 2 ^ (e + 1) = 32
    BY <1>4
  <2> QED
    BY <2>1
<1>5. CASE e = 5
  <2>1. 2 ^ e = 32 /\ 2 ^ (e + 1) = 64
    BY <1>5
  <2> QED
    BY <2>1
<1>6. CASE e = 6
  <2>1. 2 ^ e = 64 /\ 2 ^ (e + 1) = 128
    BY <1>6
  <2> QED
    BY <2>1
<1>7. CASE e = 7
  <2>1. 2 ^ e = 128 /\ 2 ^ (e + 1) = 256
    BY <1>7
  <2> QED
    BY <2>1
<1>8. CASE e = 8
  <2>1. 2 ^ e = 256 /\ 2 ^ (e + 1) = 512
    BY <1>8
  <2> QED
    BY <2>1
<1>9. CASE e = 9
  <2>1. 2 ^ e = 512 /\ 2 ^ (e + 1) = 1024
    BY <1>9
  <2> QED
    BY <2>1
<1>10. CASE e = 10
  <2>1. 2 ^ e = 1024 /\ 2 ^ (e + 1) = 2048
    BY <1>10
  <2> QED
    BY <2>1
<1>11. CASE e = 11
  <2>1. 2 ^ e = 2048 /\ 2 ^ (e + 1) = 4096
    BY <1>11
  <2> QED
    BY <2>1
<1>12. CASE e = 12
  <2>1. 2 ^ e = 4096 /\ 2 ^ (e + 1) = 8192
    BY <1>12
  <2> QED
    BY <2>1
<1>13. CASE e = 13
  <2>1. 2 ^ e = 8192 /\ 2 ^ (e + 1) = 16384
    BY <1>13
  <2> QED
    BY <2>1
<1>14. CASE e = 14
  <2>1. 2 ^ e = 16384 /\ 2 ^ (e + 1) = 32768
    BY <1>14
  <2> QED
    BY <2>1
<1>15. CASE e = 15
  <2>1. 2 ^ e = 32768 /\ 2 ^ (e + 1) = 65536
    BY <1>15
  <2> QED
    BY <2>1
<1>16. CASE e = 16
  <2>1. 2 ^ e = 65536 /\ 2 ^ (e + 1) = 131072
    BY <1>16
  <2> QED
    BY <2>1
<1> QED
  BY <1>0, <1>1, <1>2, <1>3, <1>4, <1>5, <1>6, <1>7, <1>8, <1>9, <1>10, <1>11, <1>12, <1>13, <1>14, <1>15, <1>16

\* Positive numbers have a positive product, and doubling a factor enlarges it.
LEMMA Products ==
  ASSUME NEW a \in Nat \ {0}, NEW b \in Nat \ {0}
  PROVE  a * b \in Nat \ {0} /\ a * b <= a * (2 * b)
<1>1. a * b \in Nat /\ a * b > 0
  OBVIOUS
<1>2. a * (2 * b) = 2 * (a * b)
  OBVIOUS
<1> QED
  BY <1>1, <1>2

\* A tripped breaker waits at least one unit and at most MaxMs, and one more
\* failure never shortens the wait (breakerDeadline of health.ts).
THEOREM CooldownGrowsToTheCap ==
  ASSUME NEW f \in Nat, f >= Threshold
  PROVE  /\ Cooldown(f) \in 1 .. MaxMs
         /\ Cooldown(f) <= Cooldown(f + 1)
<1> USE BreakerPolicyAssumption
<1> DEFINE e == Exponent(f)
           wait == BaseMs * 2 ^ e
           next == BaseMs * 2 ^ Exponent(f + 1)
<1>1. e \in 0 .. 16
  BY ExponentRange DEF MaxExponent
<1>2. Exponent(f + 1) = e \/ Exponent(f + 1) = e + 1
  BY DEF Exponent, Smaller, MaxExponent
<1>3. 2 ^ e \in Nat \ {0} /\ 2 ^ (e + 1) = 2 * 2 ^ e
  BY <1>1, PowersOfTwo
<1>4. wait \in Nat \ {0} /\ BaseMs * (2 * 2 ^ e) >= wait /\ BaseMs * (2 * 2 ^ e) \in Nat
  <2> DEFINE power == 2 ^ e
  <2>1. power \in Nat \ {0}
    BY <1>3
  <2> HIDE DEF power
  <2>2. /\ BaseMs * power \in Nat \ {0}
        /\ BaseMs * power <= BaseMs * (2 * power)
        /\ BaseMs * (2 * power) \in Nat
    BY <2>1, Products
  <2> QED
    BY <2>2 DEF power
<1>5. next \in Nat /\ wait <= next
  <2>1. CASE Exponent(f + 1) = e
    BY <2>1, <1>4
  <2>2. CASE Exponent(f + 1) = e + 1
    BY <2>2, <1>3, <1>4
  <2> QED
    BY <1>2, <2>1, <2>2
<1>6. Cooldown(f) = Smaller(MaxMs, wait) /\ Cooldown(f + 1) = Smaller(MaxMs, next)
  BY DEF Cooldown, Exponent
<1> HIDE DEF wait, next
<1> QED
  BY <1>4, <1>5, <1>6 DEF Smaller

\* The deadline is a time, it is set exactly when the threshold is reached,
\* and it lies within the longest cooldown (breakerDeadline of health.ts).
THEOREM DeadlineSetAtThreshold ==
  ASSUME NEW f \in Nat, NEW now \in Nat
  PROVE  /\ BreakerDeadline(f, now) \in Nat
         /\ BreakerDeadline(f, now) > 0 <=> ~BreakerDisabled /\ f >= Threshold
         /\ BreakerDeadline(f, now) <= now + MaxMs
<1> USE BreakerPolicyAssumption
<1>1. CASE BreakerDisabled \/ f < Threshold
  BY <1>1 DEF BreakerDeadline
<1>2. CASE ~BreakerDisabled /\ f >= Threshold
  <2>1. Cooldown(f) \in 1 .. MaxMs
    BY <1>2, CooldownGrowsToTheCap
  <2>2. BreakerDeadline(f, now) = now + Cooldown(f)
    BY <1>2 DEF BreakerDeadline
  <2> QED
    BY <1>2, <2>1, <2>2
<1> QED
  BY <1>1, <1>2

----------------------------------------------------------------------------
(* The ordering of candidates: they are usable targets, all of them, and a  *)
(* pin only changes which comes first.                                      *)

\* The route's positions are finitely many.
LEMMA TargetsFinite == IsFiniteSet(Targets) /\ Targets \subseteq Nat \ {0}
<1>1. Targets = 1 .. Len(Route) /\ Len(Route) \in Nat
  BY RouteAssumption DEF Targets
<1>2. IsFiniteSet(1 .. Len(Route))
  BY <1>1, FS_Interval
<1> QED
  BY <1>1, <1>2

\* A target of the route names a provider and a number of retries.
LEMMA TargetFields ==
  ASSUME NEW t \in Targets
  PROVE  Route[t].provider \in Providers /\ Extra(t) \in 0 .. MAX_RETRIES
<1>1. Route[t] \in Target
  BY RouteAssumption DEF Targets
<1> QED
  BY <1>1 DEF Target, Extra, MAX_RETRIES

\* An order of the usable targets is a sequence of them, as long as they are
\* many: it is empty only if they are none.
LEMMA OrdersAreSequences ==
  ASSUME NEW usable \in SUBSET Targets, NEW o \in OrderCandidates(usable)
  PROVE  /\ o \in Seq(usable)
         /\ usable # {} => Len(o) > 0
<1>1. IsFiniteSet(usable)
  BY TargetsFinite, FS_Subset
<1>2. Cardinality(usable) \in Nat /\ (usable # {} => Cardinality(usable) # 0)
  BY <1>1, FS_CardinalityType, FS_EmptySet
<1>3. o \in [1 .. Cardinality(usable) -> usable]
  BY DEF OrderCandidates
<1> QED
  BY <1>2, <1>3

\* An order of the usable targets holds every one of them.
LEMMA OrdersAreComplete ==
  ASSUME NEW usable \in SUBSET Targets, NEW o \in OrderCandidates(usable),
         NEW t \in usable
  PROVE  \E i \in 1 .. Len(o) : o[i] = t
<1> DEFINE n == Cardinality(usable)
<1>1. IsFiniteSet(usable) /\ n \in Nat
  BY TargetsFinite, FS_Subset, FS_CardinalityType
<1>2. o \in [1 .. n -> usable] /\ \A i, j \in 1 .. n : i < j => o[i] # o[j]
  BY DEF OrderCandidates
<1>3. ASSUME NEW i \in 1 .. n, NEW j \in 1 .. n, o[i] = o[j] PROVE i = j
  <2>1. ~(i < j) /\ ~(j < i)
    BY <1>2, <1>3
  <2> QED
    BY <2>1, <1>1
<1>4. o \in Injection(1 .. n, usable)
  BY <1>2, <1>3 DEF Injection, IsInjective
<1>5. Cardinality(1 .. n) = n
  BY <1>1, FS_Interval
<1>6. o \in Surjection(1 .. n, usable)
  BY <1>1, <1>4, <1>5, FS_Injection
<1>7. \E i \in 1 .. n : o[i] = t
  BY <1>6 DEF Surjection
<1> QED
  BY <1>1, <1>2, <1>7

\* A sequence that holds the pinned provider holds it first somewhere.
LEMMA FirstOfPinned ==
  ASSUME NEW o \in Seq(Targets), NEW pinned \in ProvidersOf(o)
  PROVE  \E k \in DOMAIN o :
           /\ Route[o[k]].provider = pinned
           /\ \A j \in 1 .. k - 1 : Route[o[j]].provider # pinned
<1> DEFINE S == {i \in DOMAIN o : Route[o[i]].provider = pinned}
<1>1. S \in SUBSET Nat /\ S # {}
  BY DEF ProvidersOf
<1>2. PICK k \in S : \A j \in S : k <= j
  BY <1>1, LeastElement
<1>3. ASSUME NEW j \in 1 .. k - 1 PROVE Route[o[j]].provider # pinned
  <2>1. j \in DOMAIN o /\ j < k
    BY <1>2
  <2> QED
    BY <2>1, <1>2
<1> QED
  BY <1>2, <1>3

\* The pin's reordering keeps the length, invents no candidate and loses none
\* (preferPinned of sessions.ts).
THEOREM PinReorders ==
  ASSUME NEW o \in Seq(Targets), NEW pinned
  PROVE  /\ PreferPinned(o, pinned) \in Seq(Targets)
         /\ Len(PreferPinned(o, pinned)) = Len(o)
         /\ \A i \in 1 .. Len(o) : \E j \in 1 .. Len(o) :
              PreferPinned(o, pinned)[i] = o[j]
         /\ \A j \in 1 .. Len(o) : \E i \in 1 .. Len(o) :
              PreferPinned(o, pinned)[i] = o[j]
<1>1. CASE pinned \notin ProvidersOf(o)
  BY <1>1 DEF PreferPinned
<1>2. CASE pinned \in ProvidersOf(o)
  <2> DEFINE k == CHOOSE i \in DOMAIN o :
                    /\ Route[o[i]].provider = pinned
                    /\ \A j \in 1 .. i - 1 : Route[o[j]].provider # pinned
             f == [i \in DOMAIN o |->
                     IF i = 1 THEN o[k] ELSE IF i <= k THEN o[i - 1] ELSE o[i]]
  <2>1. PreferPinned(o, pinned) = f
    BY <1>2 DEF PreferPinned
  <2>2. k \in DOMAIN o
    BY <1>2, FirstOfPinned
  <2> HIDE DEF k
  <2>3. DOMAIN o = 1 .. Len(o) /\ Len(o) \in Nat
    OBVIOUS
  <2>4. ASSUME NEW i \in 1 .. Len(o)
        PROVE  \E j \in 1 .. Len(o) : f[i] = o[j]
    <3>1. CASE i = 1
      BY <3>1, <2>2, <2>3
    <3>2. CASE i # 1 /\ i <= k
      <4>1. i - 1 \in 1 .. Len(o) /\ f[i] = o[i - 1]
        BY <3>2, <2>3
      <4> QED
        BY <4>1
    <3>3. CASE i # 1 /\ ~(i <= k)
      BY <3>3, <2>3
    <3> QED
      BY <3>1, <3>2, <3>3
  <2>5. f \in [1 .. Len(o) -> Targets]
    <3>1. ASSUME NEW i \in 1 .. Len(o) PROVE f[i] \in Targets
      BY <2>4
    <3> QED
      BY <3>1, <2>3
  <2>6. f \in Seq(Targets) /\ Len(f) = Len(o)
    BY <2>5, <2>3
  <2>7. ASSUME NEW j \in 1 .. Len(o)
        PROVE  \E i \in 1 .. Len(o) : f[i] = o[j]
    <3>1. CASE j = k
      <4>1. 1 \in 1 .. Len(o) /\ f[1] = o[j]
        BY <3>1, <2>2, <2>3
      <4> QED
        BY <4>1
    <3>2. CASE j < k
      <4>1. j + 1 \in 1 .. Len(o) /\ f[j + 1] = o[j]
        BY <3>2, <2>2, <2>3
      <4> QED
        BY <4>1
    <3>3. CASE j > k
      <4>1. f[j] = o[j]
        BY <3>3, <2>2, <2>3
      <4> QED
        BY <4>1
    <3> QED
      BY <3>1, <3>2, <3>3, <2>2, <2>3
  <2> HIDE DEF f
  <2> QED
    BY <2>1, <2>4, <2>6, <2>7
<1> QED
  BY <1>1, <1>2

----------------------------------------------------------------------------
(* Types.  TypeOK is not inductive: the candidate a fiber is at must be one *)
(* of its list wherever the code reads it.                                  *)

\* Where a fiber refers to its current candidate.
AtCandidate(q) ==
  \/ q.pc \in {"call", "backoff", "credit", "blame", "account", "stream"}
  \/ q.pc = "guard" /\ q.error \notin RoutingReason

\* A fiber that reads its candidate has one.
Placed(q) == AtCandidate(q) => q.pos \in 1 .. Len(q.cands)

FiberOK(q) == q \in Fiber /\ Placed(q)

Errors == Kinds \cup RoutingReason \cup {"none"}

TypeInv == TypeOK /\ \A r \in Requests : Placed(req[r])

\* A round of plan's loop moves rows of the route that are closed, and no more.
LEMMA RoundFiber ==
  ASSUME NEW q \in Fiber, NEW next \in Rounds(q)
  PROVE  /\ next \in Fiber
         /\ next.shape = q.shape /\ next.pc = q.pc /\ next.cands = q.cands
         /\ next.pos = q.pos /\ next.try = q.try /\ next.trail = q.trail
         /\ next.error = q.error /\ next.answer = q.answer
         /\ \A t \in next.usable \ q.usable : ~IsOpen(openUntil[Route[t].provider], clock)
<1>1. CASE BreakerDisabled
  <2>1. next = [q EXCEPT !.unread = {}, !.usable = q.unread]
    BY <1>1 DEF Rounds
  <2> QED
    BY <1>1, <2>1 DEF Fiber, IsOpen
<1>2. CASE ~BreakerDisabled
  <2>1. PICK t \in NextRow(q.unread) : next = StatusRead(q, t)
    BY <1>2 DEF Rounds
  <2>2. t \in Targets /\ q.unread \in SUBSET Targets /\ q.usable \in SUBSET Targets
    BY DEF NextRow, Fiber
  <2> DEFINE closed == ~IsOpen(openUntil[Route[t].provider], clock)
             rest == q.unread \ {t}
             usable == IF closed THEN q.usable \cup {t} ELSE q.usable
  <2>3. next = [q EXCEPT !.unread = rest, !.usable = usable]
    BY <2>1 DEF StatusRead, Fiber
  <2>4. /\ rest \in SUBSET Targets /\ usable \in SUBSET Targets
        /\ \A u \in usable \ q.usable : ~IsOpen(openUntil[Route[u].provider], clock)
    BY <2>2
  <2> HIDE DEF closed, rest, usable
  <2> QED
    BY <2>3, <2>4 DEF Fiber
<1> QED
  BY <1>1, <1>2

\* The provider of a fiber's candidate is one of the providers.
LEMMA CurrentProvider ==
  ASSUME NEW q \in Fiber, q.pos \in 1 .. Len(q.cands)
  PROVE  q.cands[q.pos] \in Targets /\ Current(q) \in Providers
<1>1. q.cands \in Seq(Targets)
  BY DEF Fiber
<1>2. q.cands[q.pos] \in Targets
  BY <1>1
<1> QED
  BY <1>2, TargetFields DEF Current

\* An answer is added to the trail and nothing else changes.
LEMMA AnsweredFiber ==
  ASSUME NEW q \in Fiber, q.pos \in 1 .. Len(q.cands), NEW kind \in Kinds \cup {"ok"}
  PROVE  /\ Answered(q, kind) \in Fiber
         /\ Answered(q, kind).pc = q.pc
         /\ Answered(q, kind).shape = q.shape
         /\ Answered(q, kind).cands = q.cands
         /\ Answered(q, kind).pos = q.pos
         /\ Answered(q, kind).try = q.try
         /\ Answered(q, kind).error = q.error
         /\ Answered(q, kind).answer = q.answer
         /\ Answered(q, kind).trail =
              Append(q.trail, [pos |-> q.pos, try |-> q.try, kind |-> kind])
<1>1. [pos |-> q.pos, try |-> q.try, kind |-> kind] \in Attempt
  BY DEF Attempt, Fiber
<1>2. Append(q.trail, [pos |-> q.pos, try |-> q.try, kind |-> kind]) \in Seq(Attempt)
  BY <1>1 DEF Fiber
<1> QED
  BY <1>2 DEF Answered, Fiber

\* A raised error leaves the fiber at its candidate.
LEMMA RaiseFiber ==
  ASSUME NEW q \in Fiber, NEW error \in Errors,
         q.pos \in 1 .. Len(q.cands) \/ error \in RoutingReason
  PROVE  FiberOK(Raise(q, error))
BY DEF Raise, FiberOK, Placed, AtCandidate, Fiber, InFlight, Waiting, Errors

\* The walk ends with the error or moves to a candidate that exists.
LEMMA ConcludeFiber ==
  ASSUME NEW q \in Fiber, q.pos \in 1 .. Len(q.cands), NEW kind \in Errors
  PROVE  FiberOK(Conclude(q, kind))
<1>1. CASE kind \in Fatal \/ q.pos = Len(q.cands)
  BY <1>1, RaiseFiber DEF Conclude
<1>2. CASE ~(kind \in Fatal \/ q.pos = Len(q.cands))
  <2> DEFINE next == [q EXCEPT !.pc = "call", !.pos = @ + 1, !.try = 0, !.error = kind]
  <2>1. q.pos \in Nat /\ Len(q.cands) \in Nat /\ q.pos + 1 \in 1 .. Len(q.cands)
    BY <1>2 DEF Fiber
  <2>2. next \in Fiber
    <3>1. "call" \in InFlight \cup {"idle", "done"}
      BY DEF InFlight, Waiting
    <3>2. q.pos + 1 \in Nat /\ kind \in Kinds \cup RoutingReason \cup {"none"}
      BY <2>1 DEF Errors
    <3> QED
      BY <3>1, <3>2 DEF Fiber
  <2>3. next.cands = q.cands /\ next.pos = q.pos + 1
    BY DEF Fiber
  <2> QED
    BY <1>2, <2>1, <2>2, <2>3 DEF Conclude, FiberOK, Placed
<1> QED
  BY <1>1, <1>2

\* A finished fiber needs no candidate.
LEMMA FinishFiber ==
  ASSUME NEW q \in Fiber,
         NEW answer \in {"ok", "error", "cut", "gone", "defect", "lost"}
  PROVE  FiberOK(Finish(q, answer))
BY DEF Finish, FiberOK, Placed, AtCandidate, Fiber

\* Every row the handlers write is a row of the usage log.
LEMMA Rows ==
  ASSUME NEW q \in Fiber
  PROVE  /\ AbandonedRow \in Row
         /\ q.pos \in 1 .. Len(q.cands) => SuccessRow(q) \in Row /\ BrokenRow(q) \in Row
         /\ q.error \in RoutingReason \/ q.pos \in 1 .. Len(q.cands) => FailureRow(q) \in Row
<1>1. AbandonedRow \in Row
  BY DEF AbandonedRow, Row
<1>2. CountOf(q.trail) \in Nat /\ CountOf(ReportedTrail(q)) \in Nat
  BY DEF CountOf, ReportedTrail, Fiber
<1>3. ASSUME q.pos \in 1 .. Len(q.cands) PROVE SuccessRow(q) \in Row /\ BrokenRow(q) \in Row
  BY <1>2, <1>3, CurrentProvider DEF SuccessRow, BrokenRow, Row
<1>4. ASSUME q.error \in RoutingReason \/ q.pos \in 1 .. Len(q.cands)
      PROVE  FailureRow(q) \in Row
  BY <1>2, <1>4, CurrentProvider DEF FailureRow, Row
<1> QED
  BY <1>1, <1>3, <1>4

\* The gateway starts well typed.
LEMMA TypeInit == Init => TypeInv
<1> SUFFICES ASSUME Init PROVE TypeInv
  OBVIOUS
<1>1. ASSUME NEW shape \in Shapes PROVE FiberOK(NewFiber(shape))
  BY DEF NewFiber, FiberOK, Placed, AtCandidate, Fiber
<1>2. req \in [Requests -> Fiber] /\ \A r \in Requests : Placed(req[r])
  BY <1>1 DEF Init, FiberOK
<1> QED
  BY <1>2, GatewayAssumption DEF Init, TypeInv, TypeOK

\* A step of one fiber keeps every fiber well formed.
LEMMA BecomesFiber ==
  ASSUME TypeInv, NEW r \in Requests, NEW q, FiberOK(q), Becomes(r, q)
  PROVE  req' \in [Requests -> Fiber] /\ \A s \in Requests : Placed(req'[s])
<1>1. /\ req \in [Requests -> Fiber]
      /\ \A s \in Requests : Placed(req[s])
      /\ q \in Fiber
      /\ Placed(q)
  BY DEF TypeInv, TypeOK, FiberOK
<1>2. \A s \in Requests : req'[s] = IF s = r THEN q ELSE req[s]
  BY <1>1 DEF Becomes
<1>3. req' \in [Requests -> Fiber]
  BY <1>1 DEF Becomes
<1> QED
  BY <1>1, <1>2, <1>3

\* Writing a row keeps the log well formed.
LEMMA WriteLedger ==
  ASSUME TypeInv, NEW r \in Requests, NEW row \in Row, Write(r, row)
  PROVE  ledger' \in [Requests -> Seq(Row)]
<1>1. Append(ledger[r], row) \in Seq(Row)
  BY DEF TypeInv, TypeOK
<1> QED
  BY <1>1 DEF Write, TypeInv, TypeOK

\* Pins stay providers, whether one is set, dropped or kept.
LEMMA PinTypes ==
  ASSUME TypeInv, NEW q \in Fiber
  PROVE  /\ \A ordered : Forget(q, ordered) \in [Sessions -> Providers \cup {NoProvider}]
         /\ q.pos \in 1 .. Len(q.cands) =>
              Remember(q) \in [Sessions -> Providers \cup {NoProvider}]
BY CurrentProvider DEF Forget, Remember, TypeInv, TypeOK

\* Every action keeps the types and the placement of fibers.
LEMMA TypeNext == TypeInv /\ [Next]_vars => TypeInv'
<1> SUFFICES ASSUME TypeInv, [Next]_vars PROVE TypeInv'
  OBVIOUS
<1> USE GatewayAssumption
<1> DEFINE Fibers == /\ req' \in [Requests -> Fiber]
                     /\ \A r \in Requests : Placed(req'[r])
<1>a. ASSUME NEW r \in Requests
      PROVE  /\ req[r] \in Fiber
             /\ AtCandidate(req[r]) => req[r].pos \in 1 .. Len(req[r].cands)
  BY DEF TypeInv, TypeOK, Placed
<1>1. ASSUME NEW r \in Requests, Arrive(r) PROVE TypeInv'
  <2>1. FiberOK([req[r] EXCEPT !.pc = "resolve"])
    BY <1>1, <1>a DEF FiberOK, Placed, AtCandidate, Fiber, InFlight, Waiting
  <2>2. Fibers
    BY <2>1, <1>1, BecomesFiber DEF Arrive
  <2> QED
    BY <1>1, <2>2 DEF Arrive, TypeInv, TypeOK, admin, health
<1>2. ASSUME NEW r \in Requests, Resolve(r) PROVE TypeInv'
  <2> DEFINE rows == ResolveTargets(enabled)
             planned == [req[r] EXCEPT !.pc = "plan", !.unread = rows]
  <2>1. FiberOK(Raise(req[r], "unknown_model"))
    BY <1>a, RaiseFiber DEF RoutingReason, Errors
  <2>2. FiberOK(planned)
    <3>1. rows \in SUBSET Targets
      BY DEF ResolveTargets
    <3> HIDE DEF rows
    <3> QED
      BY <3>1, <1>a DEF FiberOK, Placed, AtCandidate, Fiber, InFlight, Waiting
  <2>3. Becomes(r, Raise(req[r], "unknown_model")) \/ Becomes(r, planned)
    BY <1>2 DEF Resolve
  <2>4. Fibers
    BY <2>1, <2>2, <2>3, BecomesFiber
  <2> QED
    BY <1>2, <2>4 DEF Resolve, TypeInv, TypeOK, admin, health
<1>r. ASSUME NEW r \in Requests, ReadStatus(r) PROVE TypeInv'
  <2>1. PICK q \in Rounds(req[r]) : Becomes(r, q)
    BY <1>r DEF ReadStatus
  <2>2. FiberOK(q)
    BY <1>r, <1>a, RoundFiber DEF ReadStatus, FiberOK, Placed, AtCandidate
  <2>3. Fibers
    BY <2>1, <2>2, BecomesFiber
  <2> QED
    BY <1>r, <2>3 DEF ReadStatus, TypeInv, TypeOK, admin, health
<1>3. ASSUME NEW r \in Requests, PlanRequest(r) PROVE TypeInv'
  <2> DEFINE chosen(q, ordered) == [q EXCEPT !.pc = "call", !.pos = 1, !.try = 0,
                                             !.cands = Affinity(q, ordered)]
  <2>2. ASSUME NEW q \in Rounds(req[r]), Becomes(r, Raise(q, "all_unavailable")),
               UNCHANGED pins
        PROVE  TypeInv'
    <3>1. FiberOK(Raise(q, "all_unavailable"))
      BY <1>a, RoundFiber, RaiseFiber DEF RoutingReason, Errors
    <3>2. Fibers
      BY <3>1, <2>2, BecomesFiber
    <3> QED
      BY <1>3, <2>2, <3>2 DEF PlanRequest, TypeInv, TypeOK, admin, health
  <2>3. ASSUME NEW q \in Rounds(req[r]), q.usable # {},
               NEW ordered \in OrderCandidates(q.usable),
               Becomes(r, chosen(q, ordered)), pins' = Forget(q, ordered)
        PROVE  TypeInv'
    <3>0. q \in Fiber /\ q.usable \in SUBSET Targets
      BY <1>a, RoundFiber DEF Fiber
    <3>1. ordered \in Seq(Targets) /\ Len(ordered) > 0
      BY <3>0, <2>3, OrdersAreSequences
    <3>2. Affinity(q, ordered) \in Seq(Targets) /\ Len(Affinity(q, ordered)) > 0
      BY <3>1, PinReorders DEF Affinity
    <3>3. FiberOK(chosen(q, ordered))
      <4>1. chosen(q, ordered) \in Fiber
        BY <3>2, <3>0 DEF Fiber, InFlight, Waiting
      <4>2. chosen(q, ordered).pos = 1 /\ chosen(q, ordered).cands = Affinity(q, ordered)
        BY <3>0 DEF Fiber
      <4> QED
        BY <4>1, <4>2, <3>2 DEF FiberOK, Placed
    <3>4. Fibers
      BY <3>3, <2>3, BecomesFiber
    <3>5. pins' \in [Sessions -> Providers \cup {NoProvider}]
      BY <2>3, <3>0, PinTypes
    <3> QED
      BY <1>3, <3>4, <3>5 DEF PlanRequest, TypeInv, TypeOK, admin, health
  <2> QED
    BY <1>3, <2>2, <2>3 DEF PlanRequest
<1>4. ASSUME NEW r \in Requests, CallSucceeds(r) PROVE TypeInv'
  <2> DEFINE q == Answered(req[r], "ok")
             credited == [q EXCEPT !.pc = "credit"]
  <2>1. req[r].pos \in 1 .. Len(req[r].cands)
    BY <1>4, <1>a DEF CallSucceeds, AtCandidate
  <2>2. FiberOK(credited)
    <3>1. q \in Fiber /\ q.pos \in 1 .. Len(q.cands)
      BY ZenonT(60), <2>1, <1>a, AnsweredFiber
    <3> HIDE DEF q
    <3> QED
      BY <3>1 DEF FiberOK, Placed, Fiber, InFlight, Waiting
  <2>3. Fibers
    BY <2>2, <1>4, BecomesFiber DEF CallSucceeds
  <2> QED
    BY <1>4, <2>3 DEF CallSucceeds, TypeInv, TypeOK, admin, health
<1>5. ASSUME NEW r \in Requests, NEW kind \in Kinds, CallFails(r, kind) PROVE TypeInv'
  <2> DEFINE q == Answered(req[r], kind)
             held(pc) == [q EXCEPT !.pc = pc, !.error = kind]
  <2>1. req[r].pos \in 1 .. Len(req[r].cands)
    BY <1>5, <1>a DEF CallFails, AtCandidate
  <2>2. q \in Fiber /\ q.pos \in 1 .. Len(q.cands)
    BY ZenonT(60), <2>1, <1>a, AnsweredFiber
  <2>3. FiberOK(Conclude(q, kind))
    BY <2>2, ConcludeFiber DEF Errors
  <2> HIDE DEF q
  <2>4. FiberOK(held("backoff")) /\ FiberOK(held("blame"))
    BY <2>2 DEF FiberOK, Placed, Fiber, InFlight, Waiting
  <2>5. \/ Becomes(r, Conclude(q, kind))
        \/ Becomes(r, held("backoff"))
        \/ Becomes(r, held("blame"))
    BY <1>5 DEF CallFails, q
  <2>6. Fibers
    BY <2>3, <2>4, <2>5, BecomesFiber
  <2> QED
    BY <1>5, <2>6 DEF CallFails, TypeInv, TypeOK, admin, health
<1>6. ASSUME NEW r \in Requests, Retry(r) PROVE TypeInv'
  <2> DEFINE again == [req[r] EXCEPT !.pc = "call", !.try = @ + 1]
  <2>1. FiberOK(again)
    <3>1. req[r].pos \in 1 .. Len(req[r].cands)
      BY <1>6, <1>a DEF Retry, AtCandidate
    <3>2. again \in Fiber
      <4>1. req[r].try + 1 \in Nat /\ "call" \in InFlight
        BY <1>a DEF Fiber, InFlight, Waiting
      <4> QED
        BY <1>a, <4>1 DEF Fiber
    <3>3. again.pos = req[r].pos /\ again.cands = req[r].cands
      BY <1>a DEF Fiber
    <3> QED
      BY <3>1, <3>2, <3>3 DEF FiberOK, Placed
  <2>2. Fibers
    BY <2>1, <1>6, BecomesFiber DEF Retry
  <2> QED
    BY <1>6, <2>2 DEF Retry, TypeInv, TypeOK, admin, health
<1>7. ASSUME NEW r \in Requests, Credit(r) PROVE TypeInv'
  <2> DEFINE p == Current(req[r])
             next == [req[r] EXCEPT
                        !.pc = IF req[r].shape.streaming THEN "stream" ELSE "account"]
  <2>1. req[r].pos \in 1 .. Len(req[r].cands)
    BY <1>7, <1>a DEF Credit, AtCandidate
  <2>2. FiberOK(next)
    <3>1. next \in Fiber
      BY <1>a DEF Fiber, InFlight, Waiting
    <3>2. next.pos = req[r].pos /\ next.cands = req[r].cands
      BY <1>a DEF Fiber
    <3> QED
      BY <2>1, <3>1, <3>2 DEF FiberOK, Placed
  <2>3. Becomes(r, next) \/ Becomes(r, Finish(req[r], "defect"))
    BY <1>7 DEF Credit, Defect
  <2>4. Fibers
    BY <1>a, <2>2, <2>3, FinishFiber, BecomesFiber
  <2>5. failures' \in [Providers -> Nat] /\ openUntil' \in [Providers -> Nat]
    <3>1. \/ failures' = failures /\ openUntil' = openUntil
          \/ /\ failures' = [failures EXCEPT ![p] = 0]
             /\ openUntil' = [openUntil EXCEPT ![p] = 0]
      BY <1>7 DEF Credit, Defect, health
    <3>2. failures \in [Providers -> Nat] /\ openUntil \in [Providers -> Nat]
      BY DEF TypeInv, TypeOK
    <3> HIDE DEF p
    <3> QED
      BY <3>1, <3>2
  <2>6. pins' \in [Sessions -> Providers \cup {NoProvider}]
    <3>1. pins' = pins \/ pins' = Remember(req[r])
      BY <1>7 DEF Credit, Defect
    <3> QED
      BY <1>a, <2>1, <3>1, PinTypes DEF TypeInv, TypeOK
  <2> QED
    BY <1>7, <2>4, <2>5, <2>6 DEF Credit, TypeInv, TypeOK, admin
<1>8. ASSUME NEW r \in Requests, Blame(r) PROVE TypeInv'
  <2> DEFINE p == Current(req[r])
  <2>1. req[r].pos \in 1 .. Len(req[r].cands) /\ req[r].error \in Errors
    BY <1>8, <1>a DEF Blame, AtCandidate, Fiber, Errors
  <2>2. FiberOK(Conclude(req[r], req[r].error)) /\ FiberOK(Finish(req[r], "defect"))
    BY <2>1, <1>a, ConcludeFiber, FinishFiber
  <2>3. \/ Becomes(r, Conclude(req[r], req[r].error))
        \/ Becomes(r, Finish(req[r], "defect"))
    BY <1>8 DEF Blame, Defect
  <2>4. Fibers
    BY <2>2, <2>3, BecomesFiber
  <2>5. failures' \in [Providers -> Nat] /\ openUntil' \in [Providers -> Nat]
    <3>1. failures[p] + 1 \in Nat /\ clock \in Nat
      BY <2>1, <1>a, CurrentProvider DEF TypeInv, TypeOK
    <3>2. BreakerDeadline(failures[p] + 1, clock) \in Nat
      BY <3>1, DeadlineSetAtThreshold
    <3> QED
      BY <1>8, <3>1, <3>2 DEF Blame, Defect, TypeInv, TypeOK, health
  <2> QED
    BY <1>8, <2>4, <2>5 DEF Blame, Defect, TypeInv, TypeOK, admin
<1>9. ASSUME NEW r \in Requests, Account(r) PROVE TypeInv'
  <2>1. req[r].pos \in 1 .. Len(req[r].cands)
    BY <1>9, <1>a DEF Account, AtCandidate
  <2>2. ledger' \in [Requests -> Seq(Row)]
    BY <1>9, <1>a, <2>1, Rows, WriteLedger DEF Account
  <2>3. Fibers
    BY <1>9, <1>a, FinishFiber, BecomesFiber DEF Account
  <2> QED
    BY <1>9, <2>2, <2>3 DEF Account, TypeInv, TypeOK, admin, health
<1>10. ASSUME NEW r \in Requests, Guard(r) PROVE TypeInv'
  <2>1. req[r].error \in RoutingReason \/ req[r].pos \in 1 .. Len(req[r].cands)
    BY <1>10, <1>a DEF Guard, AtCandidate
  <2>2. ledger' \in [Requests -> Seq(Row)]
    BY <1>10, <1>a, <2>1, Rows, WriteLedger DEF Guard
  <2>3. Fibers
    BY <1>10, <1>a, FinishFiber, BecomesFiber DEF Guard
  <2> QED
    BY <1>10, <2>2, <2>3 DEF Guard, TypeInv, TypeOK, admin, health
<1>11. ASSUME NEW r \in Requests, StreamEnds(r) PROVE TypeInv'
  <2>1. req[r].pos \in 1 .. Len(req[r].cands)
    BY <1>11, <1>a DEF StreamEnds, AtCandidate
  <2>2. ledger' \in [Requests -> Seq(Row)]
    BY <1>11, <1>a, <2>1, Rows, WriteLedger DEF StreamEnds
  <2>3. Fibers
    <3>1. FiberOK(Finish(req[r], "ok")) /\ FiberOK(Finish(req[r], "gone"))
          /\ FiberOK(Finish(req[r], "cut"))
      BY <1>a, FinishFiber
    <3> QED
      BY <1>11, <3>1, BecomesFiber DEF StreamEnds
  <2> QED
    BY <1>11, <2>2, <2>3 DEF StreamEnds, TypeInv, TypeOK, admin, health
<1>12. ASSUME NEW r \in Requests, Disconnect(r) PROVE TypeInv'
  <2>1. ledger' \in [Requests -> Seq(Row)]
    BY <1>12, <1>a, Rows, WriteLedger DEF Disconnect, TypeInv, TypeOK
  <2>2. Fibers
    BY <1>12, <1>a, FinishFiber, BecomesFiber DEF Disconnect
  <2> QED
    BY <1>12, <2>1, <2>2 DEF Disconnect, TypeInv, TypeOK, admin, health
<1>13. CASE Tick
  BY <1>13 DEF Tick, TypeInv, TypeOK, Placed, admin, health
<1>14. ASSUME NEW p \in Providers, ToggleProvider(p) PROVE TypeInv'
  BY <1>14 DEF ToggleProvider, TypeInv, TypeOK, Placed, admin, health
<1>15. ASSUME NEW p \in Providers, DeleteProvider(p) PROVE TypeInv'
  BY <1>15 DEF DeleteProvider, TypeInv, TypeOK, Placed
<1>16. ASSUME NEW s \in Sessions, PinLapses(s) PROVE TypeInv'
  BY <1>16 DEF PinLapses, TypeInv, TypeOK, Placed, admin, health
<1>17. CASE Restart
  <2>1. Fibers
    <3>1. ASSUME NEW r \in Requests
          PROVE  FiberOK(IF req[r].pc \in InFlight THEN Finish(req[r], "lost") ELSE req[r])
      BY <1>a, FinishFiber DEF FiberOK, Placed
    <3> QED
      BY <1>17, <3>1 DEF Restart, FiberOK
  <2> QED
    BY <1>17, <2>1 DEF Restart, TypeInv, TypeOK, admin, health
<1>18. CASE UNCHANGED vars
  BY <1>18 DEF vars, TypeInv, TypeOK, Placed
<1> QED
  BY <1>1, <1>2, <1>3, <1>4, <1>5, <1>6, <1>7, <1>8, <1>9, <1>10, <1>11, <1>12, <1>13,
     <1>14, <1>15, <1>16, <1>17, <1>18, <1>r
     DEF Next, Progress, Environment

\* Every reachable state is well typed, and every fiber that calls, retries,
\* credits, blames or reports refers to a candidate of its own plan.
THEOREM TypeCorrect == Spec => [](TypeOK /\ \A r \in Requests : Placed(req[r]))
<1>1. TypeInv => TypeOK /\ \A r \in Requests : Placed(req[r])
  BY DEF TypeInv
<1> QED
  BY TypeInit, TypeNext, <1>1, PTL DEF Spec

----------------------------------------------------------------------------
(* The breaker.  Every change of a health row is a success, a deletion or  *)
(* one recorded failure, whichever requests they come from.                *)

\* The three things an action may do to the health rows.
HealthKept == UNCHANGED <<failures, openUntil>> /\ clock' >= clock

HealthCleared(p) ==
  /\ failures' = [failures EXCEPT ![p] = 0]
  /\ openUntil' = [openUntil EXCEPT ![p] = 0]
  /\ clock' = clock

HealthBlamed(p) ==
  /\ failures' = [failures EXCEPT ![p] = @ + 1]
  /\ openUntil' = [openUntil EXCEPT ![p] = BreakerDeadline(failures[p] + 1, clock)]
  /\ clock' = clock

\* An action leaves the health rows alone, clears one, or counts one failure.
LEMMA HealthSteps ==
  ASSUME TypeInv, [Next]_vars
  PROVE  HealthKept \/ \E p \in Providers : HealthCleared(p) \/ HealthBlamed(p)
<1> DEFINE Goal == HealthKept \/ \E p \in Providers : HealthCleared(p) \/ HealthBlamed(p)
<1>a. clock \in Nat
  BY GatewayAssumption DEF TypeInv, TypeOK
<1>b. ASSUME NEW r \in Requests, req[r].pc \in {"credit", "blame"}
      PROVE  Current(req[r]) \in Providers
  <2>1. req[r] \in Fiber /\ req[r].pos \in 1 .. Len(req[r].cands)
    BY <1>b DEF TypeInv, TypeOK, Placed, AtCandidate
  <2> QED
    BY <2>1, CurrentProvider
<1>1. ASSUME UNCHANGED <<clock, health>> PROVE Goal
  BY <1>1, <1>a DEF HealthKept, health
<1>2. ASSUME NEW r \in Requests,
             Arrive(r) \/ Resolve(r) \/ ReadStatus(r) \/ PlanRequest(r) \/ CallSucceeds(r) \/ Retry(r)
             \/ Account(r) \/ Guard(r) \/ StreamEnds(r) \/ Disconnect(r)
             \/ \E kind \in Kinds : CallFails(r, kind)
      PROVE  Goal
  <2>1. UNCHANGED <<clock, health>>
    BY <1>2 DEF Arrive, Resolve, ReadStatus, PlanRequest, CallSucceeds, Retry, Account, Guard,
                StreamEnds, Disconnect, CallFails
  <2> QED
    BY <1>1, <2>1
<1>3. ASSUME NEW r \in Requests, Credit(r) PROVE Goal
  <2>1. CASE Defect(r)
    BY <1>1, <1>3, <2>1 DEF Credit, Defect
  <2>2. CASE ~Defect(r)
    BY <1>3, <1>b, <2>2 DEF Credit, HealthCleared
  <2> QED
    BY <2>1, <2>2
<1>4. ASSUME NEW r \in Requests, Blame(r) PROVE Goal
  <2>1. CASE Defect(r)
    BY <1>1, <1>4, <2>1 DEF Blame, Defect
  <2>2. CASE ~Defect(r)
    BY <1>4, <1>b, <2>2 DEF Blame, HealthBlamed
  <2> QED
    BY <2>1, <2>2
<1>5. CASE Tick
  BY <1>5, <1>a DEF Tick, HealthKept, health
<1>6. ASSUME NEW p \in Providers, ToggleProvider(p) PROVE Goal
  BY <1>6, <1>1 DEF ToggleProvider
<1>7. ASSUME NEW p \in Providers, DeleteProvider(p) PROVE Goal
  BY <1>7 DEF DeleteProvider, HealthCleared
<1>8. ASSUME NEW s \in Sessions, PinLapses(s) PROVE Goal
  BY <1>8, <1>1 DEF PinLapses
<1>9. CASE Restart
  BY <1>9, <1>1 DEF Restart
<1>10. CASE UNCHANGED vars
  BY <1>10, <1>1 DEF vars, health
<1> QED
  BY <1>2, <1>3, <1>4, <1>5, <1>6, <1>7, <1>8, <1>9, <1>10 DEF Next, Progress, Environment

\* The deadline a count of failures allows at most: CooldownIsBounded and
\* BackoffNeverShrinks forget the count, which the induction needs.
Allowance(f) == IF BreakerDisabled \/ f < Threshold THEN 0 ELSE clock + Cooldown(f)

HealthInv ==
  /\ TypeInv
  /\ TripsAtThreshold
  /\ \A p \in Providers : openUntil[p] <= Allowance(failures[p])

\* The allowance is a time within the longest cooldown.
LEMMA AllowanceRange ==
  ASSUME TypeInv, NEW f \in Nat
  PROVE  Allowance(f) \in Nat /\ Allowance(f) <= clock + MaxMs
<1>1. clock \in Nat /\ Threshold \in Nat /\ MaxMs \in Nat
  BY GatewayAssumption, BreakerPolicyAssumption DEF TypeInv, TypeOK
<1>2. f >= Threshold => Cooldown(f) \in 1 .. MaxMs
  BY CooldownGrowsToTheCap
<1> QED
  BY <1>1, <1>2 DEF Allowance

\* No provider starts with a failure.
LEMMA HealthInit == Init => HealthInv
<1> SUFFICES ASSUME Init PROVE HealthInv
  OBVIOUS
<1>1. TypeInv
  BY TypeInit
<1>2. Allowance(0) \in Nat
  BY <1>1, AllowanceRange
<1> QED
  BY <1>1, <1>2, BreakerPolicyAssumption
     DEF Init, HealthInv, TripsAtThreshold, BreakerDisabled

\* Each of the three keeps the rows' two columns in agreement.
LEMMA HealthNext == HealthInv /\ [Next]_vars => HealthInv'
<1> SUFFICES ASSUME HealthInv, [Next]_vars PROVE HealthInv'
  OBVIOUS
<1> USE BreakerPolicyAssumption
<1>1. TypeInv /\ TypeInv'
  BY TypeNext DEF HealthInv
<1>2. /\ failures \in [Providers -> Nat] /\ openUntil \in [Providers -> Nat]
      /\ clock \in Nat /\ clock' \in Nat
  BY <1>1, GatewayAssumption DEF TypeInv, TypeOK
<1>3. CASE HealthKept
  <2>1. ASSUME NEW p \in Providers PROVE openUntil'[p] <= Allowance(failures[p])'
    <3>1. failures[p] >= Threshold => Cooldown(failures[p]) \in 1 .. MaxMs
      BY <1>2, CooldownGrowsToTheCap
    <3> QED
      BY <1>2, <1>3, <3>1 DEF HealthKept, HealthInv, Allowance
  <2> QED
    BY <1>1, <1>3, <2>1 DEF HealthKept, HealthInv, TripsAtThreshold
<1>4. ASSUME NEW q \in Providers, HealthCleared(q) PROVE HealthInv'
  <2>1. ASSUME NEW p \in Providers PROVE openUntil'[p] <= Allowance(failures[p])'
    BY <1>1, <1>2, <1>4, AllowanceRange DEF HealthCleared, HealthInv, Allowance
  <2>2. TripsAtThreshold'
    BY <1>2, <1>4 DEF HealthCleared, HealthInv, TripsAtThreshold, BreakerDisabled
  <2> QED
    BY <1>1, <2>1, <2>2 DEF HealthInv
<1>5. ASSUME NEW q \in Providers, HealthBlamed(q) PROVE HealthInv'
  <2> DEFINE count == failures[q] + 1
             deadline == BreakerDeadline(count, clock)
  <2>a. count \in Nat /\ clock' = clock
    BY <1>2, <1>5 DEF HealthBlamed
  <2>b. deadline \in Nat /\ (deadline > 0 <=> ~BreakerDisabled /\ count >= Threshold)
    BY <1>2, <2>a, DeadlineSetAtThreshold
  <2>c. deadline <= Allowance(count)
    <3>1. count >= Threshold => Cooldown(count) \in 1 .. MaxMs
      BY <2>a, CooldownGrowsToTheCap
    <3> QED
      BY <1>2, <2>a, <3>1 DEF BreakerDeadline, Allowance
  <2>d. ASSUME NEW p \in Providers
        PROVE  /\ failures'[p] = IF p = q THEN count ELSE failures[p]
               /\ openUntil'[p] = IF p = q THEN deadline ELSE openUntil[p]
    BY <1>2, <1>5 DEF HealthBlamed
  <2> HIDE DEF count, deadline
  <2>1. ASSUME NEW p \in Providers PROVE openUntil'[p] <= Allowance(failures[p])'
    BY <2>a, <2>c, <2>d DEF HealthInv, Allowance
  <2>2. ASSUME NEW p \in Providers
        PROVE  openUntil'[p] > 0 <=> ~BreakerDisabled /\ failures'[p] >= Threshold
    BY <2>b, <2>d DEF HealthInv, TripsAtThreshold
  <2> QED
    BY <1>1, <2>1, <2>2 DEF HealthInv, TripsAtThreshold
<1> QED
  BY <1>1, <1>3, <1>4, <1>5, HealthSteps

\* Counting and tripping never come apart, for any number of racing requests.
THEOREM BreakerTrips == Spec => []TripsAtThreshold
<1>1. HealthInv => TripsAtThreshold
  BY DEF HealthInv
<1> QED
  BY HealthInit, HealthNext, <1>1, PTL DEF Spec

\* No provider stays out of rotation for longer than the longest cooldown.
THEOREM CooldownBounded == Spec => []CooldownIsBounded
<1>1. HealthInv => CooldownIsBounded
  <2> SUFFICES ASSUME HealthInv, NEW p \in Providers
               PROVE  openUntil[p] <= clock + MaxMs
    BY DEF CooldownIsBounded
  <2>1. /\ TypeInv /\ openUntil[p] <= Allowance(failures[p])
        /\ failures[p] \in Nat /\ openUntil[p] \in Nat /\ clock \in Nat
    BY GatewayAssumption DEF HealthInv, TypeInv, TypeOK
  <2>2. Allowance(failures[p]) \in Nat /\ Allowance(failures[p]) <= clock + MaxMs
    BY <2>1, AllowanceRange
  <2> QED
    BY <2>1, <2>2, BreakerPolicyAssumption
<1> QED
  BY HealthInit, HealthNext, <1>1, PTL DEF Spec

\* The breaker trips just at the threshold and never for longer than the cap,
\* for any requests, providers, route and policy (health.ts).
THEOREM BreakerSound == Spec => []BreakerIsSound
  BY BreakerTrips, CooldownBounded, PTL DEF BreakerIsSound

\* A failure that arrives late never shortens a cooldown already running.
THEOREM BackoffGrows == Spec => BackoffNeverShrinks
<1> DEFINE Grows == \A p \in Providers :
                      failures'[p] > failures[p] => openUntil'[p] >= openUntil[p]
<1>1. HealthInv /\ [Next]_vars => [Grows]_vars
  <2> SUFFICES ASSUME HealthInv, [Next]_vars, NEW p \in Providers,
                      failures'[p] > failures[p]
               PROVE  openUntil'[p] >= openUntil[p]
    OBVIOUS
  <2>1. /\ failures \in [Providers -> Nat] /\ openUntil \in [Providers -> Nat]
        /\ clock \in Nat /\ TypeInv /\ Threshold \in Nat
    BY GatewayAssumption, BreakerPolicyAssumption DEF HealthInv, TypeInv, TypeOK
  <2>2. PICK q \in Providers : HealthBlamed(q)
    BY <2>1, HealthSteps DEF HealthKept, HealthCleared
  <2>3. /\ p = q
        /\ openUntil'[p] = BreakerDeadline(failures[p] + 1, clock)
    BY <2>1, <2>2 DEF HealthBlamed
  <2>4. openUntil[p] <= Allowance(failures[p])
    BY DEF HealthInv
  <2>5. CASE BreakerDisabled \/ failures[p] < Threshold
    <3>1. openUntil[p] <= 0
      BY <2>4, <2>5 DEF Allowance
    <3>2. failures[p] + 1 \in Nat
      BY <2>1
    <3>3. BreakerDeadline(failures[p] + 1, clock) \in Nat
      BY <2>1, <3>2, DeadlineSetAtThreshold
    <3> QED
      BY <2>1, <2>3, <3>1, <3>3
  <2>6. CASE ~BreakerDisabled /\ failures[p] >= Threshold
    <3>1. /\ Cooldown(failures[p]) \in 1 .. MaxMs
          /\ Cooldown(failures[p] + 1) \in 1 .. MaxMs
          /\ Cooldown(failures[p]) <= Cooldown(failures[p] + 1)
      BY <2>1, <2>6, CooldownGrowsToTheCap
    <3> QED
      BY <2>1, <2>3, <2>4, <2>6, <3>1 DEF Allowance, BreakerDeadline
  <2>7. failures[p] < Threshold \/ failures[p] >= Threshold
    BY <2>1
  <2> QED
    BY <2>5, <2>6, <2>7
<1>2. HealthInv /\ [Next]_vars => [\A p \in Providers :
        failures'[p] > failures[p] => openUntil'[p] >= openUntil[p]]_vars
  BY <1>1
<1> QED
  BY HealthInit, HealthNext, <1>2, PTL DEF Spec, BackoffNeverShrinks

----------------------------------------------------------------------------
(* What the request path has done by the time it calls, gives up, pins,     *)
(* logs or blames: the upstream calls of a request are a walk, an error     *)
(* means that the walk has ended, a pin is earned by an answer and never    *)
(* brings back a provider that is cooling down, a row tells the trail, and  *)
(* the breaker counts a candidate's fault once.  Last, what a caller sees   *)
(* of it is the promise of UsageLedger.                                     *)

\* The last call of a fiber.
Final(q) == q.trail[Len(q.trail)]

\* The call a fiber is about to make, as an entry of its trail.
Upcoming(q) == [pos |-> q.pos, try |-> q.try]

\* What the last call of a fiber justifies, at each place the fiber can wait.
Walked(q) ==
  /\ q.trail # <<>> => q.trail[1].pos = 1 /\ q.trail[1].try = 0
  /\ \A k \in 1 .. Len(q.trail) - 1 :
       \/ RetriedAs(q, q.trail[k], q.trail[k + 1])
       \/ FailedOverTo(q, q.trail[k], q.trail[k + 1])

\* A fiber without a plan has called nobody.
Blank(q) == q.pc \in {"idle", "resolve", "plan"} => q.trail = <<>>

\* The call a fiber is about to make follows from its last one.
Justified(q) ==
  IF q.trail = <<>> THEN q.pos = 1 /\ q.try = 0
  ELSE RetriedAs(q, Final(q), Upcoming(q)) \/ FailedOverTo(q, Final(q), Upcoming(q))

AtFinal(q) == q.trail # <<>> /\ Final(q).pos = q.pos

Failed(q) ==
  /\ AtFinal(q) /\ Final(q).try = q.try /\ Final(q).kind = q.error
  /\ q.error \notin Blameless \cup {"ok"}
  /\ q.try <= Extra(q.cands[q.pos])

CallOK(q) ==
  /\ q.pc = "call" => Justified(q)
  /\ q.pc = "backoff" => /\ Failed(q) /\ q.error \in RETRYABLE
                         /\ q.try < Extra(q.cands[q.pos])
  /\ q.pc = "blame" => /\ Failed(q)
                       /\ q.error \in RETRYABLE => q.try = Extra(q.cands[q.pos])
  /\ q.pc \in {"credit", "account", "stream"} => AtFinal(q) /\ Final(q).kind = "ok"

\* Every candidate and every try of the last one is spent.
Spent(q) ==
  /\ AtFinal(q) /\ q.pos = Len(q.cands)
  /\ Final(q).kind \in RETRYABLE => Final(q).try = Extra(q.cands[q.pos])

\* What a fiber that has ended tells its caller.
Told(q) ==
  /\ q.error \in RoutingReason => q.trail = <<>>
  /\ q.error \notin Fatal \cup RoutingReason => Spent(q)

EndOK(q) ==
  /\ q.pc = "guard" \/ q.answer = "error" => Told(q)
  /\ q.answer = "error" => q.pc = "done"

WalkOK(q) == Walked(q) /\ Blank(q) /\ CallOK(q) /\ EndOK(q)

\* What a step may do to a fiber: its trail only grows, and once there is one
\* the plan it indexes stays.
Follows(q, next) ==
  /\ next.shape = q.shape
  /\ q.trail # <<>> => next.cands = q.cands
  /\ \A k \in DOMAIN q.trail : k \in DOMAIN next.trail /\ next.trail[k] = q.trail[k]

WalkInv == TypeInv /\ \A r \in Requests : WalkOK(req[r])

----------------------------------------------------------------------------
(* One fiber. *)

\* A candidate may be retried a whole number of times.
LEMMA ExtraRange == \A t \in Targets : Extra(t) \in Nat
  BY TargetFields DEF MAX_RETRIES

\* The fields Walked, CallOK and EndOK read decide them.
LEMMA SameTrail ==
  ASSUME NEW q, NEW next, next.trail = q.trail, next.cands = q.cands, Walked(q)
  PROVE  Walked(next)
BY DEF Walked, RetriedAs, FailedOverTo

\* A fiber that ends without telling of an error has nothing more to justify.
LEMMA FinishWalk ==
  ASSUME NEW q \in Fiber, WalkOK(q),
         NEW answer \in {"ok", "error", "cut", "gone", "defect", "lost"},
         answer = "error" => Told(q)
  PROVE  WalkOK(Finish(q, answer)) /\ Follows(q, Finish(q, answer))
<1> DEFINE next == Finish(q, answer)
<1>1. /\ next.trail = q.trail /\ next.cands = q.cands /\ next.shape = q.shape
      /\ next.pos = q.pos /\ next.error = q.error
      /\ next.pc = "done" /\ next.answer = answer
  BY DEF Finish, Fiber
<1> HIDE DEF next
<1>2. Walked(next)
  BY <1>1, SameTrail DEF WalkOK
<1>3. Blank(next) /\ CallOK(next)
  BY <1>1 DEF Blank, CallOK
<1>4. EndOK(next)
  BY <1>1 DEF EndOK, Told, Spent, AtFinal, Final
<1>5. Follows(q, next)
  BY <1>1 DEF Follows
<1> QED
  BY <1>2, <1>3, <1>4, <1>5 DEF WalkOK, next

\* A call that is justified is within the tries of its candidate.
LEMMA TriesBounded ==
  ASSUME NEW q \in Fiber, q.pos \in 1 .. Len(q.cands), Justified(q)
  PROVE  q.try <= Extra(q.cands[q.pos])
<1>1. q.cands[q.pos] \in Targets
  BY CurrentProvider
<1>2. Extra(q.cands[q.pos]) \in Nat
  BY <1>1, ExtraRange
<1>3. CASE q.try = 0
  BY <1>2, <1>3
<1>4. CASE q.try # 0
  <2>1. RetriedAs(q, Final(q), Upcoming(q))
    BY <1>4 DEF Justified, FailedOverTo, Upcoming
  <2> QED
    BY <2>1 DEF RetriedAs, Upcoming
<1> QED
  BY <1>3, <1>4

\* Answering a justified call extends the walk by one.
LEMMA AnsweredWalk ==
  ASSUME NEW q \in Fiber, q.pos \in 1 .. Len(q.cands), q.pc = "call", WalkOK(q),
         NEW kind \in Kinds \cup {"ok"}
  PROVE  /\ Walked(Answered(q, kind)) /\ Follows(q, Answered(q, kind))
         /\ AtFinal(Answered(q, kind))
         /\ Final(Answered(q, kind)) = [pos |-> q.pos, try |-> q.try, kind |-> kind]
<1> DEFINE next == Answered(q, kind)
           entry == [pos |-> q.pos, try |-> q.try, kind |-> kind]
           n == Len(q.trail)
<1>1. /\ next.trail = Append(q.trail, entry) /\ next.cands = q.cands
      /\ next.shape = q.shape /\ next.pos = q.pos
  BY AnsweredFiber
<1>2. q.trail \in Seq(Attempt) /\ n \in Nat
  BY DEF Fiber
<1>e. entry.pos = q.pos /\ entry.try = q.try /\ entry.kind = kind
  OBVIOUS
<1>f. Justified(q) /\ Walked(q)
  BY DEF WalkOK, CallOK
<1> HIDE DEF next, entry
<1>3. /\ Len(next.trail) = n + 1 /\ next.trail[n + 1] = entry
      /\ \A k \in 1 .. n : next.trail[k] = q.trail[k]
  BY <1>1, <1>2
<1>4. next.trail # <<>> /\ Final(next) = entry /\ AtFinal(next)
  BY <1>1, <1>2, <1>3, <1>e DEF Final, AtFinal
<1>5. Follows(q, next)
  BY <1>1, <1>2, <1>3 DEF Follows
<1>6. Walked(next)
  <2>1. next.trail[1].pos = 1 /\ next.trail[1].try = 0
    <3>1. CASE q.trail = <<>>
      BY <1>2, <1>3, <1>e, <1>f, <3>1 DEF Justified
    <3>2. CASE q.trail # <<>>
      BY <1>2, <1>3, <1>f, <3>2 DEF Walked
    <3> QED
      BY <3>1, <3>2
  <2>2. ASSUME NEW k \in 1 .. Len(next.trail) - 1
        PROVE  \/ RetriedAs(next, next.trail[k], next.trail[k + 1])
               \/ FailedOverTo(next, next.trail[k], next.trail[k + 1])
    <3>1. k \in 1 .. n
      BY <1>2, <1>3, <2>2
    <3>2. CASE k < n
      <4>1. k \in 1 .. Len(q.trail) - 1 /\ k + 1 \in 1 .. n
        BY <1>2, <3>1, <3>2
      <4>2. next.trail[k] = q.trail[k] /\ next.trail[k + 1] = q.trail[k + 1]
        BY <1>3, <3>1, <4>1
      <4>3. \/ RetriedAs(q, q.trail[k], q.trail[k + 1])
            \/ FailedOverTo(q, q.trail[k], q.trail[k + 1])
        BY <1>f, <4>1 DEF Walked
      <4> QED
        BY <1>1, <4>2, <4>3 DEF RetriedAs, FailedOverTo
    <3>3. CASE k = n
      <4>1. q.trail # <<>> /\ next.trail[k] = Final(q) /\ next.trail[k + 1] = entry
        BY <1>2, <1>3, <3>1, <3>3 DEF Final
      <4>2. RetriedAs(q, Final(q), Upcoming(q)) \/ FailedOverTo(q, Final(q), Upcoming(q))
        BY <1>f, <4>1 DEF Justified
      <4> QED
        BY <1>1, <1>e, <4>1, <4>2 DEF RetriedAs, FailedOverTo, Upcoming
    <3> QED
      BY <1>2, <3>1, <3>2, <3>3
  <2> QED
    BY <2>1, <2>2 DEF Walked
<1> QED
  BY <1>4, <1>5, <1>6 DEF next, entry

\* Concluding after a failure moves on for a reason, or reports a walk that is over.
LEMMA ConcludeWalk ==
  ASSUME NEW q \in Fiber, q.pos \in 1 .. Len(q.cands), Walked(q), AtFinal(q),
         NEW kind \in Kinds, Final(q).kind = kind, kind # "ok", q.answer # "error",
         kind \in RETRYABLE => Final(q).try = Extra(q.cands[q.pos])
  PROVE  WalkOK(Conclude(q, kind)) /\ Follows(q, Conclude(q, kind))
<1>k. kind \notin RoutingReason
  BY GatewayAssumption DEF ProviderErrorKind, RoutingReason
<1>1. CASE kind \in Fatal \/ q.pos = Len(q.cands)
  <2> DEFINE next == Raise(q, kind)
  <2>1. /\ next.trail = q.trail /\ next.cands = q.cands /\ next.shape = q.shape
        /\ next.pos = q.pos /\ next.error = kind /\ next.pc = "guard"
        /\ next.answer = q.answer
    BY DEF Raise, Fiber
  <2>2. Conclude(q, kind) = next
    BY <1>1 DEF Conclude
  <2> HIDE DEF next
  <2>3. Walked(next)
    BY <2>1, SameTrail
  <2>4. Told(next)
    <3>1. kind \notin Fatal => Spent(next)
      BY <1>1, <2>1 DEF Spent, AtFinal, Final
    <3> QED
      BY <1>k, <2>1, <3>1 DEF Told
  <2>5. Follows(q, next)
    BY <2>1 DEF Follows
  <2> QED
    BY <2>1, <2>2, <2>3, <2>4, <2>5 DEF WalkOK, Blank, CallOK, EndOK
<1>2. CASE ~(kind \in Fatal \/ q.pos = Len(q.cands))
  <2> DEFINE next == [q EXCEPT !.pc = "call", !.pos = @ + 1, !.try = 0, !.error = kind]
  <2>1. /\ next.trail = q.trail /\ next.cands = q.cands /\ next.shape = q.shape
        /\ next.pos = q.pos + 1 /\ next.try = 0 /\ next.error = kind /\ next.pc = "call"
        /\ next.answer = q.answer
    BY DEF Fiber
  <2>2. Conclude(q, kind) = next
    BY <1>2 DEF Conclude
  <2> HIDE DEF next
  <2>3. Walked(next)
    BY <2>1, SameTrail
  <2>4. FailedOverTo(next, Final(next), Upcoming(next))
    BY <1>2, <2>1 DEF FailedOverTo, Upcoming, Final, AtFinal
  <2>5. Follows(q, next)
    BY <2>1 DEF Follows
  <2>6. Justified(next)
    BY <2>1, <2>4 DEF Justified, AtFinal
  <2> QED
    BY <2>1, <2>2, <2>3, <2>5, <2>6 DEF WalkOK, Blank, CallOK, EndOK
<1> QED
  BY <1>1, <1>2

----------------------------------------------------------------------------
(* One step. *)

\* Nobody has called anybody.
LEMMA WalkInit == Init => WalkInv
<1> SUFFICES ASSUME Init PROVE WalkInv
  OBVIOUS
<1>1. TypeInv
  BY TypeInit
<1>2. ASSUME NEW shape \in Shapes PROVE WalkOK(NewFiber(shape))
  BY DEF NewFiber, WalkOK, Walked, Blank, CallOK, EndOK
<1> QED
  BY <1>1, <1>2 DEF Init, WalkInv

\* Only r's fiber changes.
Moves(r) == WalkOK(req'[r]) /\ Follows(req[r], req'[r])

\* What one request becomes leaves the others alone.
LEMMA MovesTo ==
  ASSUME TypeInv, NEW r \in Requests, NEW q, Becomes(r, q)
  PROVE  req'[r] = q /\ \A s \in Requests \ {r} : req'[s] = req[s]
BY DEF Becomes, TypeInv, TypeOK

\* Every step leaves each fiber where it stands, or moves it on along its walk.
LEMMA WalkSteps ==
  ASSUME WalkInv, [Next]_vars, NEW r \in Requests
  PROVE  Moves(r)
<1>a. /\ TypeInv /\ req[r] \in Fiber /\ WalkOK(req[r])
      /\ AtCandidate(req[r]) => req[r].pos \in 1 .. Len(req[r].cands)
  BY DEF WalkInv, TypeInv, TypeOK, Placed
<1>n. req[r].pc # "done" => req[r].answer # "error"
  BY <1>a DEF WalkOK, EndOK
<1>0. ASSUME req'[r] = req[r] PROVE Moves(r)
  BY <1>0, <1>a DEF Moves, Follows
<1>f. ASSUME NEW s \in Requests, NEW q, Becomes(s, q), s # r PROVE Moves(r)
  BY <1>0, <1>f, <1>a, MovesTo
<1>1. CASE Arrive(r)
  <2>0. req[r].answer # "error"
    BY <1>1, <1>n DEF Arrive
  <2> DEFINE next == [req[r] EXCEPT !.pc = "resolve"]
  <2>1. /\ next.trail = req[r].trail /\ next.cands = req[r].cands
        /\ next.shape = req[r].shape /\ next.answer = req[r].answer
        /\ next.pc = "resolve"
    BY <1>a DEF Fiber
  <2>2. req'[r] = next /\ req[r].trail = <<>>
    BY <1>1, <1>a, MovesTo DEF Arrive, WalkOK, Blank
  <2> HIDE DEF next
  <2> QED
    BY <2>0, <1>a, <2>1, <2>2, SameTrail
       DEF Moves, Follows, WalkOK, Blank, CallOK, EndOK
<1>2. CASE Resolve(r)
  <2>0. req[r].answer # "error"
    BY <1>2, <1>n DEF Resolve
  <2> DEFINE raised == Raise(req[r], "unknown_model")
             planned == [req[r] EXCEPT !.pc = "plan", !.unread = ResolveTargets(enabled)]
  <2>1. /\ raised.trail = req[r].trail /\ raised.cands = req[r].cands
        /\ raised.shape = req[r].shape /\ raised.answer = req[r].answer
        /\ raised.pc = "guard"
        /\ raised.error = "unknown_model"
    BY <1>a DEF Raise, Fiber
  <2>2. /\ planned.trail = req[r].trail /\ planned.cands = req[r].cands
        /\ planned.shape = req[r].shape /\ planned.answer = req[r].answer
        /\ planned.pc = "plan"
    BY <1>a DEF Fiber
  <2>3. Becomes(r, raised) \/ Becomes(r, planned)
    BY <1>2 DEF Resolve
  <2>4. (req'[r] = raised \/ req'[r] = planned) /\ req[r].trail = <<>>
    BY <1>2, <1>a, <2>3, MovesTo DEF Resolve, WalkOK, Blank
  <2> HIDE DEF raised, planned
  <2>5. CASE req'[r] = raised
    BY <2>0, <1>a, <2>1, <2>4, <2>5, SameTrail
       DEF Moves, Follows, WalkOK, Blank, CallOK, EndOK, Told, RoutingReason
  <2>6. CASE req'[r] = planned
    BY <2>0, <1>a, <2>2, <2>4, <2>6, SameTrail
       DEF Moves, Follows, WalkOK, Blank, CallOK, EndOK
  <2> QED
    BY <2>4, <2>5, <2>6
<1>r. CASE ReadStatus(r)
  <2>1. PICK q \in Rounds(req[r]) : req'[r] = q
    BY <1>r, <1>a, MovesTo DEF ReadStatus
  <2>2. /\ q.trail = req[r].trail /\ q.cands = req[r].cands /\ q.shape = req[r].shape
        /\ q.pc = "plan" /\ q.answer = req[r].answer /\ q.answer # "error"
    BY <1>r, <1>n, <1>a, RoundFiber DEF ReadStatus
  <2>3. req[r].trail = <<>>
    BY <1>r, <1>a DEF ReadStatus, WalkOK, Blank
  <2> QED
    BY <1>a, <2>1, <2>2, <2>3, SameTrail
       DEF Moves, Follows, WalkOK, Blank, CallOK, EndOK
<1>3. CASE PlanRequest(r)
  <2> DEFINE chosen(q, ordered) == [q EXCEPT !.pc = "call", !.pos = 1, !.try = 0,
                                             !.cands = Affinity(q, ordered)]
  <2>1. req[r].trail = <<>>
    BY <1>3, <1>a DEF PlanRequest, WalkOK, Blank
  <2>0. ASSUME NEW q \in Rounds(req[r])
        PROVE  /\ q \in Fiber /\ q.trail = <<>> /\ q.shape = req[r].shape
               /\ q.cands = req[r].cands
               /\ q.answer = req[r].answer /\ q.answer # "error"
    BY <1>3, <1>n, <1>a, <2>0, <2>1, RoundFiber DEF PlanRequest
  <2>2. ASSUME NEW q \in Rounds(req[r]), Becomes(r, Raise(q, "all_unavailable"))
        PROVE  Moves(r)
    <3> DEFINE raised == Raise(q, "all_unavailable")
    <3>1. /\ raised.trail = req[r].trail /\ raised.cands = req[r].cands
          /\ raised.shape = req[r].shape /\ raised.answer = req[r].answer
          /\ raised.pc = "guard"
          /\ raised.error = "all_unavailable"
      BY <2>0, <2>1 DEF Raise, Fiber
    <3>2. req'[r] = raised
      BY <1>a, <2>2, MovesTo
    <3> HIDE DEF raised
    <3> QED
      BY <2>0, <1>a, <2>1, <3>1, <3>2, SameTrail
         DEF Moves, Follows, WalkOK, Blank, CallOK, EndOK, Told, RoutingReason
  <2>3. ASSUME NEW q \in Rounds(req[r]), NEW ordered, Becomes(r, chosen(q, ordered))
        PROVE  Moves(r)
    <3> DEFINE next == chosen(q, ordered)
    <3>1. /\ next.trail = <<>> /\ next.shape = req[r].shape
          /\ next.answer = req[r].answer /\ next.answer # "error"
          /\ next.pc = "call" /\ next.pos = 1 /\ next.try = 0
      BY <2>0 DEF Fiber
    <3>2. req'[r] = next
      BY <1>a, <2>3, MovesTo
    <3> HIDE DEF next
    <3>3. Walked(next)
      BY <3>1 DEF Walked
    <3> QED
      BY <2>1, <3>1, <3>2, <3>3
         DEF Moves, Follows, WalkOK, Blank, CallOK, EndOK, Justified
  <2> QED
    BY <1>3, <2>2, <2>3 DEF PlanRequest
<1>4. CASE CallSucceeds(r)
  <2>0. req[r].answer # "error"
    BY <1>4, <1>n DEF CallSucceeds
  <2> DEFINE q == Answered(req[r], "ok")
             next == [q EXCEPT !.pc = "credit"]
  <2>1. /\ req[r].pc = "call" /\ req[r].pos \in 1 .. Len(req[r].cands)
        /\ q \in Fiber /\ q.answer # "error"
    BY <2>0, <1>4, <1>a, AnsweredFiber DEF CallSucceeds, AtCandidate
  <2>2. /\ Walked(q) /\ Follows(req[r], q) /\ AtFinal(q)
        /\ Final(q).kind = "ok"
    BY <1>a, <2>1, AnsweredWalk
  <2> HIDE DEF q
  <2>3. /\ next.trail = q.trail /\ next.cands = q.cands
        /\ next.shape = q.shape /\ next.answer = q.answer
        /\ next.pos = q.pos /\ next.pc = "credit"
    BY <2>1 DEF Fiber
  <2>4. req'[r] = next
    BY <1>4, <1>a, MovesTo DEF CallSucceeds, q
  <2> HIDE DEF next
  <2> QED
    BY <2>1, <2>2, <2>3, <2>4, SameTrail
       DEF Moves, Follows, WalkOK, Blank, CallOK, EndOK, AtFinal, Final
<1>5. ASSUME NEW kind \in Kinds, CallFails(r, kind) PROVE Moves(r)
  <2>0. req[r].answer # "error"
    BY <1>5, <1>n DEF CallFails
  <2> DEFINE q == Answered(req[r], kind)
             held(pc) == [q EXCEPT !.pc = pc, !.error = kind]
  <2>1. /\ req[r].pc = "call" /\ req[r].pos \in 1 .. Len(req[r].cands) /\ q \in Fiber
        /\ q.cands = req[r].cands /\ q.pos = req[r].pos /\ q.try = req[r].try
        /\ q.answer = req[r].answer /\ q.answer # "error"
    BY <2>0, <1>5, <1>a, AnsweredFiber DEF CallFails, AtCandidate
  <2>2. /\ Walked(q) /\ Follows(req[r], q) /\ AtFinal(q)
        /\ Final(q).kind = kind /\ Final(q).pos = q.pos /\ Final(q).try = q.try
    BY <1>a, <2>1, AnsweredWalk
  <2>3. q.try <= Extra(q.cands[q.pos]) /\ Extra(q.cands[q.pos]) \in Nat /\ q.try \in Nat
    <3>1. Justified(req[r])
      BY <1>a, <2>1 DEF WalkOK, CallOK
    <3>2. q.cands[q.pos] \in Targets /\ q.try \in Nat
      BY <1>a, <2>1, CurrentProvider DEF Fiber
    <3> QED
      BY <2>0, <1>a, <2>1, <3>1, <3>2, TriesBounded, ExtraRange
  <2>4. kind # "ok"
    BY GatewayAssumption DEF ProviderErrorKind
  <2>5. \/ kind \in Blameless /\ Becomes(r, Conclude(q, kind))
        \/ /\ kind \notin Blameless /\ kind \in RETRYABLE
           /\ q.try < Extra(q.cands[q.pos]) /\ Becomes(r, held("backoff"))
        \/ /\ kind \notin Blameless
           /\ kind \notin RETRYABLE \/ q.try >= Extra(q.cands[q.pos])
           /\ Becomes(r, held("blame"))
    BY <1>5 DEF CallFails
  <2> HIDE DEF q
  <2>6. ASSUME NEW pc \in {"backoff", "blame"}
        PROVE  /\ held(pc).trail = q.trail /\ held(pc).cands = q.cands
               /\ held(pc).shape = q.shape /\ held(pc).answer = q.answer
               /\ held(pc).pos = q.pos
               /\ held(pc).try = q.try /\ held(pc).error = kind /\ held(pc).pc = pc
    BY <2>1, <2>6 DEF Fiber
  <2> HIDE DEF held
  <2>7. CASE kind \in Blameless /\ Becomes(r, Conclude(q, kind))
    <3>1. kind \notin RETRYABLE
      BY <2>7 DEF Blameless, RETRYABLE
    <3>2. q.pos \in 1 .. Len(q.cands)
      BY <2>1
    <3>3. WalkOK(Conclude(q, kind)) /\ Follows(q, Conclude(q, kind))
      BY <2>1, <2>2, <2>4, <3>1, <3>2, ConcludeWalk
    <3>4. req'[r] = Conclude(q, kind)
      BY <1>a, <2>7, MovesTo
    <3> QED
      BY <2>1, <2>2, <3>3, <3>4 DEF Moves, Follows, AtFinal
  <2>8. CASE /\ kind \notin Blameless /\ kind \in RETRYABLE
             /\ q.try < Extra(q.cands[q.pos]) /\ Becomes(r, held("backoff"))
    <3>1. req'[r] = held("backoff") /\ held("backoff").pc = "backoff"
      BY <1>a, <2>6, <2>8, MovesTo
    <3>2. Failed(held("backoff"))
      BY <2>2, <2>3, <2>4, <2>6, <2>8 DEF Failed, AtFinal, Final
    <3>3. CallOK(held("backoff"))
      BY <2>6, <2>8, <3>1, <3>2 DEF CallOK
    <3> QED
      BY <2>1, <2>2, <2>6, <3>1, <3>3, SameTrail
         DEF Moves, Follows, WalkOK, Blank, EndOK
  <2>9. CASE /\ kind \notin Blameless
             /\ kind \notin RETRYABLE \/ q.try >= Extra(q.cands[q.pos])
             /\ Becomes(r, held("blame"))
    <3>1. req'[r] = held("blame") /\ held("blame").pc = "blame"
      BY <1>a, <2>6, <2>9, MovesTo
    <3>2. kind \in RETRYABLE => q.try = Extra(q.cands[q.pos])
      BY <2>3, <2>9
    <3>3. Failed(held("blame"))
      BY <2>2, <2>3, <2>4, <2>6, <2>9 DEF Failed, AtFinal, Final
    <3>4. CallOK(held("blame"))
      BY <2>6, <3>1, <3>2, <3>3 DEF CallOK
    <3> QED
      BY <2>1, <2>2, <2>6, <3>1, <3>4, SameTrail
         DEF Moves, Follows, WalkOK, Blank, EndOK
  <2> QED
    BY <2>5, <2>7, <2>8, <2>9
<1>6. CASE Retry(r)
  <2>0. req[r].answer # "error"
    BY <1>6, <1>n DEF Retry
  <2> DEFINE next == [req[r] EXCEPT !.pc = "call", !.try = @ + 1]
  <2>1. /\ next.trail = req[r].trail /\ next.cands = req[r].cands
        /\ next.shape = req[r].shape /\ next.answer = req[r].answer
        /\ next.pos = req[r].pos
        /\ next.try = req[r].try + 1 /\ next.pc = "call"
    BY <1>a DEF Fiber
  <2>2. req'[r] = next
    BY <1>6, <1>a, MovesTo DEF Retry
  <2>3. /\ Failed(req[r]) /\ req[r].error \in RETRYABLE
        /\ req[r].try < Extra(req[r].cands[req[r].pos])
    BY <1>6, <1>a DEF Retry, WalkOK, CallOK
  <2>4. Extra(req[r].cands[req[r].pos]) \in Nat /\ req[r].try \in Nat
    <3>1. req[r].pos \in 1 .. Len(req[r].cands)
      BY <1>6, <1>a DEF Retry, AtCandidate
    <3> QED
      BY <1>a, <3>1, CurrentProvider, ExtraRange DEF Fiber
  <2> HIDE DEF next
  <2>5. RetriedAs(next, Final(next), Upcoming(next)) /\ next.trail # <<>>
    BY <2>1, <2>3, <2>4 DEF RetriedAs, Upcoming, Final, Failed, AtFinal
  <2> QED
    BY <2>0, <1>a, <2>1, <2>2, <2>5, SameTrail
       DEF Moves, Follows, WalkOK, Blank, CallOK, EndOK, Justified
<1>7. CASE Credit(r)
  <2>0. req[r].answer # "error"
    BY <1>7, <1>n DEF Credit
  <2> DEFINE next == [req[r] EXCEPT
                        !.pc = IF req[r].shape.streaming THEN "stream" ELSE "account"]
  <2>1. /\ next.trail = req[r].trail /\ next.cands = req[r].cands
        /\ next.shape = req[r].shape /\ next.answer = req[r].answer
        /\ next.pos = req[r].pos
        /\ next.pc \in {"stream", "account"}
    BY <1>a DEF Fiber
  <2>2. AtFinal(req[r]) /\ Final(req[r]).kind = "ok"
    BY <1>7, <1>a DEF Credit, WalkOK, CallOK
  <2>3. req'[r] = next \/ req'[r] = Finish(req[r], "defect")
    BY <1>7, <1>a, MovesTo DEF Credit, Defect
  <2> HIDE DEF next
  <2>4. CASE req'[r] = next
    BY <2>0, <1>a, <2>1, <2>2, <2>4, SameTrail
       DEF Moves, Follows, WalkOK, Blank, CallOK, EndOK, AtFinal, Final
  <2> QED
    BY <1>a, <2>3, <2>4, FinishWalk DEF Moves
<1>8. CASE Blame(r)
  <2>0. req[r].answer # "error"
    BY <1>8, <1>n DEF Blame
  <2>1. req[r].pc = "blame" /\ req[r].pos \in 1 .. Len(req[r].cands)
    BY <1>8, <1>a DEF Blame, AtCandidate
  <2>2. /\ Failed(req[r])
        /\ req[r].error \in RETRYABLE => req[r].try = Extra(req[r].cands[req[r].pos])
    BY <1>a, <2>1 DEF WalkOK, CallOK
  <2>3. Final(req[r]).kind \in Kinds \cup {"ok"}
    <3>1. req[r].trail \in Seq(Attempt) /\ req[r].trail # <<>>
      BY <1>a, <2>2 DEF Fiber, Failed, AtFinal
    <3>2. Final(req[r]) \in Attempt
      BY <3>1 DEF Final
    <3> QED
      BY <2>0, <3>2 DEF Attempt
  <2>4. /\ req[r].error \in Kinds /\ req[r].error # "ok"
        /\ Final(req[r]).kind = req[r].error /\ AtFinal(req[r])
        /\ req[r].error \in RETRYABLE =>
             Final(req[r]).try = Extra(req[r].cands[req[r].pos])
    BY <2>2, <2>3 DEF Failed
  <2>5. /\ WalkOK(Conclude(req[r], req[r].error))
        /\ Follows(req[r], Conclude(req[r], req[r].error))
    BY <1>a, <2>0, <2>1, <2>4, ConcludeWalk DEF WalkOK
  <2>6. \/ req'[r] = Conclude(req[r], req[r].error)
        \/ req'[r] = Finish(req[r], "defect")
    BY <1>8, <1>a, MovesTo DEF Blame, Defect
  <2> QED
    BY <1>a, <2>5, <2>6, FinishWalk DEF Moves
<1>9. CASE Account(r) \/ StreamEnds(r) \/ Disconnect(r)
  <2>1. \E answer \in {"ok", "cut", "gone"} : req'[r] = Finish(req[r], answer)
    BY <1>9, <1>a, MovesTo DEF Account, StreamEnds, Disconnect
  <2> QED
    BY <1>a, <2>1, FinishWalk DEF Moves
<1>10. CASE Guard(r)
  <2>1. req'[r] = Finish(req[r], "error") /\ Told(req[r])
    BY <1>10, <1>a, MovesTo DEF Guard, WalkOK, EndOK
  <2> QED
    BY <1>a, <2>1, FinishWalk DEF Moves
<1>11. CASE Restart
  <2>1. req'[r] = IF req[r].pc \in InFlight THEN Finish(req[r], "lost") ELSE req[r]
    BY <1>11 DEF Restart
  <2> QED
    BY <1>0, <1>a, <2>1, FinishWalk DEF Moves
<1>12. ASSUME NEW s \in Requests, s # r,
              Arrive(s) \/ Progress(s) \/ StreamEnds(s) \/ Disconnect(s)
       PROVE  Moves(r)
  <2>1. \E q : Becomes(s, q)
    BY <1>12 DEF Arrive, Progress, Resolve, ReadStatus, PlanRequest, CallSucceeds, CallFails, Retry,
                 Credit, Blame, Defect, Account, Guard, StreamEnds, Disconnect
  <2> QED
    BY <1>f, <1>12, <2>1
<1>13. CASE Environment /\ ~Restart
  BY <1>0, <1>13 DEF Environment, Tick, ToggleProvider, DeleteProvider, PinLapses
<1>14. CASE UNCHANGED vars
  BY <1>0, <1>14 DEF vars
<1> QED
  BY <1>1, <1>2, <1>3, <1>4, <1>5, <1>6, <1>7, <1>8, <1>9, <1>10, <1>11, <1>12, <1>13,
     <1>14, <1>r DEF Next, Progress

\* So does every step of the gateway.
LEMMA WalkNext == WalkInv /\ [Next]_vars => WalkInv'
<1> SUFFICES ASSUME WalkInv, [Next]_vars PROVE WalkInv'
  OBVIOUS
<1>1. TypeInv'
  BY TypeNext DEF WalkInv
<1>2. \A r \in Requests : WalkOK(req'[r])
  BY WalkSteps DEF Moves
<1> QED
  BY <1>1, <1>2 DEF WalkInv

\* For any requests, route and retry limits, the upstream calls of a request
\* are a walk down its own plan (executor.ts, attemptWithRetries and walk).
THEOREM TrailsAreWalks == Spec => []TrailIsAWalk
<1>1. WalkInv => TrailIsAWalk
  BY DEF WalkInv, WalkOK, Walked, TrailIsAWalk
<1> QED
  BY WalkInit, WalkNext, <1>1, PTL DEF Spec

\* For any requests, route and retry limits, a caller is told of a provider's
\* failure only when every candidate and every try of the last is spent.
THEOREM NothingUntried == Spec => []NothingLeftUntried
<1>1. WalkInv => NothingLeftUntried
  <2> SUFFICES ASSUME WalkInv, NEW r \in Requests, req[r].answer = "error",
                      req[r].error \notin Fatal \cup RoutingReason
               PROVE  /\ req[r].trail # <<>>
                      /\ Final(req[r]).pos = Len(req[r].cands)
                      /\ Final(req[r]).kind \in RETRYABLE =>
                           Final(req[r]).try = Extra(req[r].cands[Final(req[r]).pos])
    BY DEF NothingLeftUntried, Final
  <2>1. req[r].pc = "done"
    BY DEF WalkInv, WalkOK, EndOK
  <2> QED
    BY <2>1 DEF WalkInv, WalkOK, EndOK, Told, Spent, AtFinal
<1> QED
  BY WalkInit, WalkNext, <1>1, PTL DEF Spec

----------------------------------------------------------------------------
(* Pins.  An answer, once given, stays in its trail. *)

\* A request of session s that p has answered.
Earned(s, p) ==
  \E r \in Requests :
    /\ req[r].shape.session = s
    /\ \E k \in DOMAIN req[r].trail :
         /\ req[r].trail[k].kind = "ok"
         /\ Route[req[r].cands[req[r].trail[k].pos]].provider = p

PinInv == WalkInv /\ PinIsEarned

\* A provider that has answered a session has answered it for ever.
LEMMA EarnedStays ==
  ASSUME WalkInv, [Next]_vars, NEW s, NEW p, Earned(s, p)
  PROVE  Earned(s, p)'
<1>1. PICK r \in Requests :
        /\ req[r].shape.session = s
        /\ \E k \in DOMAIN req[r].trail :
             /\ req[r].trail[k].kind = "ok"
             /\ Route[req[r].cands[req[r].trail[k].pos]].provider = p
  BY DEF Earned
<1>2. PICK k \in DOMAIN req[r].trail :
        /\ req[r].trail[k].kind = "ok"
        /\ Route[req[r].cands[req[r].trail[k].pos]].provider = p
  BY <1>1
<1>3. req[r].trail # <<>> /\ Follows(req[r], req'[r])
  BY <1>2, WalkSteps DEF Moves
<1>4. /\ req'[r].shape.session = s
      /\ k \in DOMAIN req'[r].trail
      /\ req'[r].trail[k].kind = "ok"
      /\ Route[req'[r].cands[req'[r].trail[k].pos]].provider = p
  BY <1>1, <1>2, <1>3 DEF Follows
<1> QED
  BY <1>4 DEF Earned

\* A step keeps or drops a session's pin, or sets it to who has just answered.
LEMMA PinSteps ==
  ASSUME WalkInv, [Next]_vars, NEW s \in Sessions
  PROVE  pins'[s] \in {pins[s], NoProvider} \/ Earned(s, pins'[s])
<1> DEFINE Goal == pins'[s] \in {pins[s], NoProvider} \/ Earned(s, pins'[s])
<1>a. pins \in [Sessions -> Providers \cup {NoProvider}]
  BY DEF WalkInv, TypeInv, TypeOK
<1>1. CASE UNCHANGED pins
  BY <1>1
<1>2. ASSUME NEW r \in Requests, PlanRequest(r) PROVE Goal
  <2>1. UNCHANGED pins \/ \E q, ordered : pins' = Forget(q, ordered)
    BY <1>2 DEF PlanRequest
  <2> QED
    BY <1>a, <2>1 DEF Forget
<1>3. ASSUME NEW r \in Requests, Credit(r) PROVE Goal
  <2>1. UNCHANGED pins \/ pins' = Remember(req[r])
    BY <1>3 DEF Credit, Defect
  <2>2. /\ req[r].trail \in Seq(Attempt) /\ req[r].trail # <<>>
        /\ Final(req[r]).kind = "ok" /\ Final(req[r]).pos = req[r].pos
    BY <1>3 DEF Credit, WalkInv, WalkOK, CallOK, AtFinal, TypeInv, TypeOK, Fiber
  <2>3. Len(req[r].trail) \in DOMAIN req[r].trail
    BY <2>2
  <2>4. ASSUME req[r].shape.session = s PROVE Earned(s, Current(req[r]))
    BY <2>2, <2>3, <2>4 DEF Earned, Final, Current
  <2> QED
    BY <1>a, <2>1, <2>4 DEF Remember
<1>4. CASE Restart \/ \E other \in Sessions : PinLapses(other)
  BY <1>4, <1>a DEF Restart, PinLapses
<1> QED
  BY <1>1, <1>2, <1>3, <1>4
     DEF Next, Progress, Environment, vars, Arrive, Resolve, ReadStatus, CallSucceeds, CallFails,
         Retry, Blame, Defect, Account, Guard, StreamEnds, Disconnect, Tick, ToggleProvider,
         DeleteProvider

\* A pin is kept, dropped, or set to a provider that has just answered.
LEMMA PinNext == PinInv /\ [Next]_vars => PinInv'
<1> SUFFICES ASSUME PinInv, [Next]_vars PROVE PinInv'
  OBVIOUS
<1>1. WalkInv /\ WalkInv'
  BY WalkNext DEF PinInv
<1>2. ASSUME NEW s \in Sessions, NEW p, pins'[s] = p, p # NoProvider PROVE Earned(s, p)'
  <2>1. Earned(s, p)
    BY <1>1, <1>2, PinSteps DEF PinInv, PinIsEarned, Earned
  <2> QED
    BY <1>1, <2>1, EarnedStays
<1> QED
  BY <1>1, <1>2 DEF PinInv, PinIsEarned, Earned

\* For any sessions, requests and route, a pin names a provider that has
\* answered a request of that very session (remember of executor.ts).
THEOREM PinsAreEarned == Spec => []PinIsEarned
<1>1. Init => PinInv
  <2>1. Init => PinIsEarned
    BY DEF Init, PinIsEarned
  <2> QED
    BY <2>1, WalkInit DEF PinInv
<1>2. PinInv => PinIsEarned
  BY DEF PinInv
<1> QED
  BY <1>1, PinNext, <1>2, PTL DEF Spec

\* What r may call is left alone, or extended by a round of its plan.
LEMMA UsableSteps ==
  ASSUME TypeInv, [Next]_vars, NEW r \in Requests
  PROVE  \/ req'[r].usable = req[r].usable
         \/ \E q \in Rounds(req[r]) : req'[r].usable = q.usable
<1> DEFINE Goal == \/ req'[r].usable = req[r].usable
                   \/ \E q \in Rounds(req[r]) : req'[r].usable = q.usable
<1>a. req[r] \in Fiber
  BY DEF TypeInv, TypeOK
<1>0. ASSUME NEW new, Becomes(r, new), new.usable = req[r].usable PROVE Goal
  BY <1>0, MovesTo
<1>1. CASE ReadStatus(r)
  BY <1>1, MovesTo DEF ReadStatus
<1>2. CASE PlanRequest(r)
  <2>1. ASSUME NEW q \in Rounds(req[r]), NEW ordered,
               \/ Becomes(r, Raise(q, "all_unavailable"))
               \/ Becomes(r, [q EXCEPT !.pc = "call", !.pos = 1, !.try = 0,
                                       !.cands = Affinity(q, ordered)])
        PROVE  req'[r].usable = q.usable
    <3>1. q \in Fiber
      BY <1>a, RoundFiber
    <3>2. /\ Raise(q, "all_unavailable").usable = q.usable
          /\ [q EXCEPT !.pc = "call", !.pos = 1, !.try = 0,
                       !.cands = Affinity(q, ordered)].usable = q.usable
      BY <3>1 DEF Raise, Fiber
    <3>3. \/ req'[r] = Raise(q, "all_unavailable")
          \/ req'[r] = [q EXCEPT !.pc = "call", !.pos = 1, !.try = 0,
                                 !.cands = Affinity(q, ordered)]
      BY <2>1, MovesTo
    <3> QED
      BY <3>2, <3>3
  <2> QED
    BY <1>2, <2>1 DEF PlanRequest
<1>3. CASE \/ Arrive(r) \/ Resolve(r) \/ Retry(r) \/ Credit(r) \/ Account(r) \/ Guard(r)
           \/ StreamEnds(r) \/ Disconnect(r)
  <2>1. /\ \A pc : [req[r] EXCEPT !.pc = pc].usable = req[r].usable
        /\ \A answer : Finish(req[r], answer).usable = req[r].usable
        /\ \A error : Raise(req[r], error).usable = req[r].usable
        /\ \A rows : [req[r] EXCEPT !.pc = "plan", !.unread = rows].usable = req[r].usable
        /\ [req[r] EXCEPT !.pc = "call", !.try = @ + 1].usable = req[r].usable
    BY <1>a DEF Finish, Raise, Fiber
  <2> QED
    BY <1>3, <2>1, <1>0 DEF Arrive, Resolve, Retry, Credit, Defect, Account, Guard,
                           StreamEnds, Disconnect
<1>4. CASE Blame(r) \/ CallSucceeds(r) \/ \E kind \in Kinds : CallFails(r, kind)
  <2>1. ASSUME NEW q \in Fiber, NEW kind, NEW pc
        PROVE  /\ Conclude(q, kind).usable = q.usable
               /\ [q EXCEPT !.pc = pc].usable = q.usable
               /\ [q EXCEPT !.pc = pc, !.error = kind].usable = q.usable
               /\ Finish(q, pc).usable = q.usable
    BY DEF Conclude, Raise, Finish, Fiber
  <2>2. ASSUME req[r].pc = "call", NEW kind \in Kinds \cup {"ok"}
        PROVE  Answered(req[r], kind) \in Fiber
               /\ Answered(req[r], kind).usable = req[r].usable
    <3>1. Answered(req[r], kind) \in Fiber
      BY <1>a, <2>2, AnsweredFiber DEF TypeInv, Placed, AtCandidate
    <3> QED
      BY <1>a, <3>1 DEF Answered, Fiber
  <2>3. CASE Blame(r)
    <3>1. /\ Conclude(req[r], req[r].error).usable = req[r].usable
          /\ Finish(req[r], "defect").usable = req[r].usable
      BY <2>1, <1>a
    <3>2. \/ Becomes(r, Conclude(req[r], req[r].error))
          \/ Becomes(r, Finish(req[r], "defect"))
      BY <2>3 DEF Blame, Defect
    <3> QED
      BY <3>1, <3>2, <1>0
  <2>4. CASE CallSucceeds(r)
    <3> DEFINE q == Answered(req[r], "ok")
    <3>1. Becomes(r, [q EXCEPT !.pc = "credit"]) /\ req[r].pc = "call"
      BY <2>4 DEF CallSucceeds
    <3>2. q \in Fiber /\ q.usable = req[r].usable
      BY <2>2, <3>1
    <3> HIDE DEF q
    <3>3. [q EXCEPT !.pc = "credit"].usable = q.usable
      BY <3>2 DEF Fiber
    <3> QED
      BY <3>1, <3>2, <3>3, <1>0
  <2>5. ASSUME NEW kind \in Kinds, CallFails(r, kind) PROVE Goal
    <3> DEFINE q == Answered(req[r], kind)
    <3>1. req[r].pc = "call"
      BY <2>5 DEF CallFails
    <3>2. q \in Fiber /\ q.usable = req[r].usable
      BY <2>2, <3>1
    <3>3. \/ Becomes(r, Conclude(q, kind))
          \/ Becomes(r, [q EXCEPT !.pc = "backoff", !.error = kind])
          \/ Becomes(r, [q EXCEPT !.pc = "blame", !.error = kind])
      BY <2>5 DEF CallFails
    <3> HIDE DEF q
    <3>4. /\ Conclude(q, kind).usable = q.usable
          /\ [q EXCEPT !.pc = "backoff", !.error = kind].usable = q.usable
          /\ [q EXCEPT !.pc = "blame", !.error = kind].usable = q.usable
      BY <3>2, <2>1
    <3> QED
      BY <3>2, <3>3, <3>4, <1>0
  <2> QED
    BY <1>4, <2>3, <2>4, <2>5
<1>5. ASSUME NEW s \in Requests, s # r,
             Arrive(s) \/ Progress(s) \/ StreamEnds(s) \/ Disconnect(s)
      PROVE  Goal
  <2>1. \E new : Becomes(s, new)
    BY <1>5 DEF Arrive, Progress, Resolve, ReadStatus, PlanRequest, CallSucceeds, CallFails,
                Retry, Credit, Blame, Defect, Account, Guard, StreamEnds, Disconnect
  <2> QED
    BY <1>5, <2>1, MovesTo
<1>6. CASE Environment \/ UNCHANGED vars
  <2>1. \A answer : Finish(req[r], answer).usable = req[r].usable
    BY <1>a DEF Finish, Fiber
  <2>2. req'[r] = req[r] \/ req'[r] = Finish(req[r], "lost")
    BY <1>6 DEF Environment, Tick, ToggleProvider, DeleteProvider, PinLapses, Restart, vars
  <2> QED
    BY <2>1, <2>2
<1> QED
  BY <1>1, <1>2, <1>3, <1>4, <1>5, <1>6 DEF Next, Progress

\* The candidates of a plan, as the set of its targets.
Planned(q) == {q.cands[i] : i \in DOMAIN q.cands}

\* A plan is made by the last round and holds the usable rows, each of them.
LEMMA PlanIsUsable ==
  ASSUME TypeInv, [Next]_vars, NEW r \in Requests,
         req[r].pc = "plan", req'[r].pc = "call"
  PROVE  Planned(req'[r]) = req'[r].usable
<1>1. req[r] \in Fiber
  BY DEF TypeInv, TypeOK
<1>2. PlanRequest(r)
  <2>1. ASSUME NEW s \in Requests, s # r,
               Arrive(s) \/ Progress(s) \/ StreamEnds(s) \/ Disconnect(s)
        PROVE  FALSE
    <3>1. \E new : Becomes(s, new)
      BY <2>1 DEF Arrive, Progress, Resolve, ReadStatus, PlanRequest, CallSucceeds, CallFails,
                  Retry, Credit, Blame, Defect, Account, Guard, StreamEnds, Disconnect
    <3> QED
      BY <2>1, <3>1, MovesTo
  <2>2. ~Environment /\ ~UNCHANGED vars
    BY <1>1 DEF Environment, Tick, ToggleProvider, DeleteProvider, PinLapses, Restart,
                vars, Finish, Fiber
  <2>3. ~ReadStatus(r)
    <3> SUFFICES ASSUME ReadStatus(r) PROVE FALSE
      OBVIOUS
    <3>1. PICK q \in Rounds(req[r]) : req'[r] = q
      BY MovesTo DEF ReadStatus
    <3> QED
      BY <1>1, <3>1, RoundFiber
  <2> QED
    BY ZenonT(60), <2>1, <2>2, <2>3
       DEF Next, Progress, Arrive, Resolve, CallSucceeds, CallFails, Retry, Credit, Blame,
           Account, Guard, StreamEnds, Disconnect
<1>3. PICK q \in Rounds(req[r]) :
        \/ Becomes(r, Raise(q, "all_unavailable"))
        \/ \E ordered \in OrderCandidates(q.usable) :
              Becomes(r, [q EXCEPT !.pc = "call", !.pos = 1, !.try = 0,
                                   !.cands = Affinity(q, ordered)])
  BY <1>2 DEF PlanRequest
<1>4. q \in Fiber /\ q.usable \in SUBSET Targets
  BY <1>1, RoundFiber DEF Fiber
<1>5. ~Becomes(r, Raise(q, "all_unavailable"))
  <2> SUFFICES ASSUME Becomes(r, Raise(q, "all_unavailable")) PROVE FALSE
    OBVIOUS
  <2>1. req'[r] = Raise(q, "all_unavailable")
    BY MovesTo
  <2> QED
    BY <1>4, <2>1 DEF Raise, Fiber
<1>6. PICK ordered \in OrderCandidates(q.usable) :
        req'[r] = [q EXCEPT !.pc = "call", !.pos = 1, !.try = 0,
                            !.cands = Affinity(q, ordered)]
  BY <1>3, <1>5, MovesTo
<1>7. req'[r].cands = Affinity(q, ordered) /\ req'[r].usable = q.usable
  BY <1>4, <1>6 DEF Fiber
<1>8. ordered \in Seq(q.usable) /\ ordered \in Seq(Targets)
  BY <1>4, OrdersAreSequences
<1> DEFINE plan == Affinity(q, ordered)
<1>9. /\ plan \in Seq(Targets) /\ Len(plan) = Len(ordered)
      /\ \A i \in 1 .. Len(ordered) : \E j \in 1 .. Len(ordered) : plan[i] = ordered[j]
      /\ \A j \in 1 .. Len(ordered) : \E i \in 1 .. Len(ordered) : plan[i] = ordered[j]
  <2>1. CASE plan = ordered
    <3>1. plan \in Seq(Targets) /\ Len(plan) = Len(ordered)
      BY <1>8, <2>1
    <3>2. \A i \in 1 .. Len(ordered) : plan[i] = ordered[i]
      BY <2>1
    <3>3. \A i \in 1 .. Len(ordered) : \E j \in 1 .. Len(ordered) :
            plan[i] = ordered[j] /\ plan[j] = ordered[i]
      BY <3>2
    <3> HIDE DEF plan
    <3> QED
      BY <3>1, <3>3
  <2>2. CASE plan = PreferPinned(ordered, pins[q.shape.session])
    <3> DEFINE pinned == pins[q.shape.session]
    <3>1. plan = PreferPinned(ordered, pinned)
      BY <2>2
    <3> HIDE DEF plan, pinned
    <3>2. ordered \in Seq(Targets)
      BY <1>8
    <3>3. PreferPinned(ordered, pinned) \in Seq(Targets)
      BY <3>2, PinReorders
    <3>4. Len(PreferPinned(ordered, pinned)) = Len(ordered)
      BY <3>2, PinReorders
    <3>5. \A i \in 1 .. Len(ordered) : \E j \in 1 .. Len(ordered) :
            PreferPinned(ordered, pinned)[i] = ordered[j]
      BY <3>2, PinReorders
    <3>6. \A j \in 1 .. Len(ordered) : \E i \in 1 .. Len(ordered) :
            PreferPinned(ordered, pinned)[i] = ordered[j]
      BY <3>2, PinReorders
    <3> QED
      BY <3>1, <3>3, <3>4, <3>5, <3>6
  <2> QED
    BY <2>1, <2>2 DEF Affinity
<1> HIDE DEF plan
<1>10. DOMAIN plan = 1 .. Len(ordered)
  <2>1. DOMAIN plan = 1 .. Len(plan)
    BY <1>9
  <2> QED
    BY <1>9, <2>1
<1>11. ASSUME NEW i \in DOMAIN plan PROVE plan[i] \in q.usable
  <2>1. PICK j \in 1 .. Len(ordered) : plan[i] = ordered[j]
    BY <1>9, <1>10
  <2> QED
    BY <1>8, <2>1
<1>12. ASSUME NEW t \in q.usable PROVE \E i \in DOMAIN plan : plan[i] = t
  <2>1. PICK j \in 1 .. Len(ordered) : ordered[j] = t
    BY <1>4, OrdersAreComplete
  <2> QED
    BY <1>9, <1>10, <2>1
<1>13. {plan[i] : i \in DOMAIN plan} = q.usable
  BY <1>11, <1>12
<1> QED
  BY <1>7, <1>13 DEF Planned, plan

\* For any route, requests and pins, a row is taken for usable only while its
\* breaker is closed, and a plan holds the rows so taken, whatever the pin says
\* by then (plan of executor.ts, preferPinned of sessions.ts).
THEOREM AffinityBringsNobodyBack == Spec => AffinityNeverResurrects
<1>1. TypeInv /\ [Next]_vars => [\A r \in Requests :
        /\ \A t \in req'[r].usable \ req[r].usable :
             ~IsOpen(openUntil[Route[t].provider], clock)
        /\ req[r].pc = "plan" /\ req'[r].pc = "call" =>
             {req'[r].cands[i] : i \in DOMAIN req'[r].cands} = req'[r].usable]_vars
  <2> SUFFICES ASSUME TypeInv, [Next]_vars, NEW r \in Requests
               PROVE  /\ \A t \in req'[r].usable \ req[r].usable :
                           ~IsOpen(openUntil[Route[t].provider], clock)
                      /\ req[r].pc = "plan" /\ req'[r].pc = "call" =>
                           {req'[r].cands[i] : i \in DOMAIN req'[r].cands} = req'[r].usable
    OBVIOUS
  <2>1. req[r] \in Fiber
    BY DEF TypeInv, TypeOK
  <2>2. \A t \in req'[r].usable \ req[r].usable : ~IsOpen(openUntil[Route[t].provider], clock)
    BY <2>1, UsableSteps, RoundFiber
  <2> QED
    BY <2>2, PlanIsUsable DEF Planned
<1> QED
  BY TypeInit, TypeNext, <1>1, PTL DEF Spec, AffinityNeverResurrects

----------------------------------------------------------------------------
(* Rows.  A row is written as its request ends. *)

\* A row says what the trail says.
RowOK(q, row) ==
  row.status # "aborted" /\ q.error \notin Fatal =>
    IF q.trail = <<>>
    THEN row.attempts = 1 /\ row.provider = NoProvider
    ELSE /\ row.attempts = Len(q.trail)
         /\ row.provider = Route[q.cands[Final(q).pos]].provider

RowInv ==
  /\ WalkInv
  /\ \A r \in Requests : /\ req[r].pc # "done" => ledger[r] = <<>>
                         /\ \A k \in DOMAIN ledger[r] : RowOK(req[r], ledger[r][k])

\* Each row a handler writes tells the trail of the fiber it ends.
LEMMA RowTells ==
  ASSUME NEW q \in Fiber, WalkOK(q), NEW answer
  PROVE  /\ RowOK(Finish(q, answer), AbandonedRow)
         /\ q.pc \in {"account", "stream"} =>
              /\ RowOK(Finish(q, answer), SuccessRow(q))
              /\ RowOK(Finish(q, answer), BrokenRow(q))
         /\ q.pc = "guard" => RowOK(Finish(q, answer), FailureRow(q))
<1> DEFINE next == Finish(q, answer)
<1>1. next.trail = q.trail /\ next.cands = q.cands /\ next.error = q.error
  BY DEF Finish, Fiber
<1> HIDE DEF next
<1>2. RowOK(next, AbandonedRow)
  BY DEF RowOK, AbandonedRow
<1>3. ASSUME q.pc \in {"account", "stream"}
      PROVE  RowOK(next, SuccessRow(q)) /\ RowOK(next, BrokenRow(q))
  <2>1. q.trail # <<>> /\ Final(q).pos = q.pos /\ Final(next) = Final(q)
    BY <1>1, <1>3 DEF WalkOK, CallOK, AtFinal, Final
  <2> QED
    BY <1>1, <2>1 DEF RowOK, SuccessRow, BrokenRow, CountOf, Current
<1>4. ASSUME q.pc = "guard" PROVE RowOK(next, FailureRow(q))
  <2>1. /\ q.error \in RoutingReason => q.trail = <<>>
        /\ q.error \notin Fatal \cup RoutingReason =>
             q.trail # <<>> /\ Final(q).pos = q.pos
    BY <1>4 DEF WalkOK, EndOK, Told, Spent, AtFinal
  <2>2. Final(next) = Final(q)
    BY <1>1 DEF Final
  <2> QED
    BY <1>1, <2>1, <2>2 DEF RowOK, FailureRow, ReportedTrail, CountOf, Current
<1> QED
  BY <1>2, <1>3, <1>4 DEF next

\* A fiber that has ended stays as it is.
LEMMA DoneStays ==
  ASSUME TypeInv, [Next]_vars, NEW r \in Requests, req[r].pc = "done"
  PROVE  req'[r] = req[r]
<1>1. ASSUME NEW s \in Requests, Arrive(s) \/ Progress(s) \/ StreamEnds(s) \/ Disconnect(s)
      PROVE  req'[r] = req[r]
  <2>1. (\E q : Becomes(s, q)) /\ req[s].pc # "done"
    BY <1>1 DEF Arrive, Progress, Resolve, ReadStatus, PlanRequest, CallSucceeds, CallFails, Retry,
                Credit, Blame, Defect, Account, Guard, StreamEnds, Disconnect
  <2> QED
    BY <2>1, MovesTo
<1>2. CASE Environment
  BY <1>2 DEF Environment, Tick, ToggleProvider, DeleteProvider, PinLapses, Restart,
              InFlight, Waiting, TypeInv, TypeOK
<1>3. CASE UNCHANGED vars
  BY <1>3 DEF vars
<1> QED
  BY <1>1, <1>2, <1>3 DEF Next

\* The row of r, if it has one, is written by the step that ends r.
Logs(r) ==
  \E answer, row :
    /\ req'[r] = Finish(req[r], answer)
    /\ ledger'[r] = Append(ledger[r], row)
    /\ RowOK(Finish(req[r], answer), row)
    /\ req[r].pc # "done"

\* An action leaves the log alone, or adds the row of a fiber that ends.
LEMMA LogSteps ==
  ASSUME WalkInv, [Next]_vars, NEW r \in Requests
  PROVE  ledger'[r] = ledger[r] \/ Logs(r)
<1>a. TypeInv /\ \A s \in Requests : req[s] \in Fiber /\ WalkOK(req[s])
  BY DEF WalkInv, TypeInv, TypeOK
<1>b. ledger \in [Requests -> Seq(Row)]
  BY <1>a DEF TypeInv, TypeOK
<1>1. CASE UNCHANGED ledger
  BY <1>1
<1>2. ASSUME NEW s \in Requests,
             Account(s) \/ Guard(s) \/ StreamEnds(s) \/ Disconnect(s)
      PROVE  ledger'[r] = ledger[r] \/ Logs(r)
  <2>1. CASE s # r
    BY <1>b, <1>1, <1>2, <2>1 DEF Account, Guard, StreamEnds, Disconnect, Write
  <2>2. CASE s = r /\ ~UNCHANGED ledger
    <3>1. ASSUME NEW answer, NEW row, Becomes(r, Finish(req[r], answer)), Write(r, row),
                 RowOK(Finish(req[r], answer), row), req[r].pc # "done"
          PROVE  Logs(r)
      <4>1. req'[r] = Finish(req[r], answer)
        BY <1>a, <3>1, MovesTo
      <4>2. ledger'[r] = Append(ledger[r], row)
        BY <1>b, <3>1 DEF Write
      <4> QED
        BY <3>1, <4>1, <4>2 DEF Logs
    <3>2. CASE Account(r)
      BY <1>a, <3>1, <3>2, RowTells DEF Account
    <3>3. CASE Guard(r)
      BY <1>a, <3>1, <3>3, RowTells DEF Guard
    <3>4. CASE StreamEnds(r)
      BY <1>a, <3>1, <3>4, RowTells DEF StreamEnds
    <3>5. CASE Disconnect(r)
      BY <1>a, <2>2, <3>1, <3>5, RowTells DEF Disconnect
    <3> QED
      BY <1>2, <2>2, <3>2, <3>3, <3>4, <3>5
  <2> QED
    BY <1>1, <2>1, <2>2
<1> QED
  BY <1>1, <1>2
     DEF Next, Progress, Environment, vars, Arrive, Resolve, ReadStatus, PlanRequest, CallSucceeds,
         CallFails, Retry, Credit, Blame, Tick, ToggleProvider, DeleteProvider, PinLapses,
         Restart

\* Every step keeps the rows true to the trails.
LEMMA RowNext == RowInv /\ [Next]_vars => RowInv'
<1> SUFFICES ASSUME RowInv, [Next]_vars PROVE RowInv'
  OBVIOUS
<1>1. WalkInv /\ WalkInv' /\ TypeInv
  BY WalkNext DEF RowInv, WalkInv
<1>2. ASSUME NEW r \in Requests
      PROVE  /\ req'[r].pc # "done" => ledger'[r] = <<>>
             /\ \A k \in DOMAIN ledger'[r] : RowOK(req'[r], ledger'[r][k])
  <2>1. CASE ledger'[r] = ledger[r]
    <3>1. CASE req[r].pc = "done"
      <4>1. req'[r] = req[r]
        BY <1>1, <3>1, DoneStays
      <4> QED
        BY <2>1, <3>1, <4>1 DEF RowInv
    <3>2. CASE req[r].pc # "done"
      <4>1. ledger'[r] = <<>>
        BY <2>1, <3>2 DEF RowInv
      <4> QED
        BY <4>1
    <3> QED
      BY <3>1, <3>2
  <2>2. CASE Logs(r)
    <3>1. PICK answer, row : /\ req'[r] = Finish(req[r], answer)
                             /\ ledger'[r] = Append(ledger[r], row)
                             /\ RowOK(Finish(req[r], answer), row)
                             /\ req[r].pc # "done"
      BY <2>2 DEF Logs
    <3>2. ledger[r] = <<>> /\ req[r] \in Fiber
      BY <1>1, <3>1 DEF RowInv, TypeInv, TypeOK
    <3>3. ledger'[r] = <<row>>
      BY <3>1, <3>2
    <3>4. req'[r].pc = "done"
      BY <3>1, <3>2 DEF Finish, Fiber
    <3> QED
      BY <3>1, <3>3, <3>4
  <2> QED
    BY <1>1, <2>1, <2>2, LogSteps
<1> QED
  BY <1>1, <1>2 DEF RowInv

\* For any requests and route, a usage row names the provider called last and
\* counts every call (recordSuccess and recordFailure of accounting.ts).
THEOREM RowsTellTheTrail == Spec => []RowTellsTheTrail
<1>1. Init => RowInv
  BY WalkInit DEF Init, RowInv
<1>2. RowInv => RowTellsTheTrail
  BY DEF RowInv, RowOK, RowTellsTheTrail, Final
<1> QED
  BY <1>1, RowNext, <1>2, PTL DEF Spec

----------------------------------------------------------------------------
(* Blame.  A fault counts against the breaker once its candidate is behind; *)
(* FailuresAreEarned counts it as soon as it is answered, which is too soon *)
(* for the induction.                                                       *)

\* The candidates of a fiber that ended in p's own fault.
Faulted(q, p) ==
  {i \in DOMAIN q.cands :
     /\ Route[q.cands[i]].provider = p
     /\ \E k \in DOMAIN q.trail :
          /\ q.trail[k].pos = i
          /\ q.trail[k].kind \in ProviderFault
          /\ k < Len(q.trail) => q.trail[k + 1].pos # i}

\* The candidate that may yet be tried again, or blamed.
Held(q) == q.pc \in {"call", "backoff", "blame"}

Settled(q, p) == {i \in Faulted(q, p) : ~(Held(q) /\ i = q.pos)}

\* What the breaker may have counted against p at most.
OwedBy(fibers, p) == UNION {{r} \X Settled(fibers[r], p) : r \in Requests}
Owed(p) == OwedBy(req, p)

Behind(q) == \A k \in DOMAIN q.trail : q.trail[k].pos <= q.pos

Advances(q, next) == Behind(next) /\ \A p : Settled(q, p) \subseteq Settled(next, p)

EarnInv ==
  /\ WalkInv
  /\ \A r \in Requests : Behind(req[r])
  /\ \A p \in Providers : failures[p] <= Cardinality(Owed(p))

\* The positions of a trail are numbers.
LEMMA EntryPositions ==
  ASSUME NEW q \in Fiber
  PROVE  \A k \in DOMAIN q.trail : q.trail[k].pos \in Nat
<1>1. q.trail \in Seq(Attempt)
  BY DEF Fiber
<1>2. \A k \in DOMAIN q.trail : q.trail[k] \in Attempt
  BY <1>1
<1> QED
  BY <1>2 DEF Attempt

\* Without a trail nothing is settled.
LEMMA NothingSettled ==
  ASSUME NEW q \in Fiber, NEW next \in Fiber, q.trail = <<>>, next.trail = <<>>
  PROVE  Advances(q, next)
BY DEF Advances, Behind, Settled, Faulted

\* A fiber that calls nobody settles no less: it stays, ends or goes on to a
\* candidate it has not called.
LEMMA TrailKept ==
  ASSUME NEW q \in Fiber, NEW next \in Fiber, Behind(q),
         next.trail = q.trail, next.cands = q.cands, next.pos >= q.pos,
         Held(next) => Held(q) \/ next.pos > q.pos
  PROVE  Advances(q, next)
<1>1. q.pos \in Nat /\ next.pos \in Nat /\ q.trail \in Seq(Attempt)
  BY DEF Fiber
<1>2. \A k \in DOMAIN q.trail : q.trail[k].pos \in Nat
  BY EntryPositions
<1>3. Behind(next)
  BY <1>1, <1>2 DEF Behind
<1>4. ASSUME NEW p, NEW i \in Settled(q, p) PROVE i \in Settled(next, p)
  <2>1. i \in Faulted(next, p)
    BY <1>4 DEF Settled, Faulted
  <2>2. i \in Nat /\ i <= q.pos
    BY <1>2, <1>4 DEF Settled, Faulted, Behind
  <2>3. ~(Held(next) /\ i = next.pos)
    BY <1>1, <1>4, <2>2 DEF Settled
  <2> QED
    BY <2>1, <2>3 DEF Settled
<1> QED
  BY <1>3, <1>4 DEF Advances

\* An answer settles nothing of what is behind anew.
LEMMA TrailGrows ==
  ASSUME NEW q \in Fiber, NEW next \in Fiber, Behind(q), q.pc = "call",
         NEW try \in Nat, NEW kind \in Kinds \cup {"ok"}, q.pos # 0,
         next.trail = Append(q.trail, [pos |-> q.pos, try |-> try, kind |-> kind]),
         next.cands = q.cands, next.pos >= q.pos
  PROVE  Advances(q, next)
<1> DEFINE n == Len(q.trail)
<1>1. /\ q.pos \in Nat /\ next.pos \in Nat /\ q.trail \in Seq(Attempt) /\ n \in Nat
      /\ DOMAIN q.trail = 1 .. n
  BY DEF Fiber
<1>2. \A k \in DOMAIN q.trail : q.trail[k].pos \in Nat
  BY EntryPositions
<1>3. /\ Len(next.trail) = n + 1 /\ DOMAIN next.trail = 1 .. n + 1
      /\ next.trail[n + 1].pos = q.pos
      /\ \A k \in 1 .. n : next.trail[k] = q.trail[k]
  BY <1>1
<1> HIDE DEF n
<1>4. Behind(next)
  BY <1>1, <1>2, <1>3 DEF Behind
<1>5. ASSUME NEW p, NEW i \in Settled(q, p) PROVE i \in Settled(next, p)
  <2>1. PICK k \in 1 .. n : /\ q.trail[k].pos = i
                            /\ q.trail[k].kind \in ProviderFault
                            /\ k < n => q.trail[k + 1].pos # i
    BY <1>1, <1>5 DEF Settled, Faulted, n
  <2>2. i # q.pos /\ i \in Nat /\ i <= q.pos
    BY <1>1, <1>2, <1>5, <2>1 DEF Settled, Held, Behind
  <2>3. next.trail[k + 1].pos # i
    <3>1. CASE k < n
      <4>1. k + 1 \in 1 .. n
        BY <1>1, <3>1
      <4> QED
        BY <1>3, <2>1, <3>1, <4>1
    <3>2. CASE k = n
      BY <1>3, <2>2, <3>2
    <3> QED
      BY <1>1, <3>1, <3>2
  <2>4. k \in DOMAIN next.trail /\ next.trail[k] = q.trail[k]
    BY <1>1, <1>3
  <2>5. i \in Faulted(next, p)
    BY <1>5, <2>1, <2>3, <2>4 DEF Settled, Faulted
  <2>6. i # next.pos
    BY <1>1, <2>2
  <2> QED
    BY <2>5, <2>6 DEF Settled
<1> QED
  BY <1>4, <1>5 DEF Advances

\* Where a failed candidate leaves the fiber.
LEMMA ConcludeFields ==
  ASSUME NEW q \in Fiber, NEW kind
  PROVE  LET next == Conclude(q, kind) IN
         /\ next.trail = q.trail /\ next.cands = q.cands
         /\ \/ next.pos = q.pos /\ next.pc = "guard"
            \/ next.pos = q.pos + 1 /\ next.pc = "call"
BY DEF Conclude, Raise, Fiber

\* Whatever a fiber has behind it stays behind it.
LEMMA FiberAdvances ==
  ASSUME WalkInv, [Next]_vars, NEW r \in Requests, Behind(req[r])
  PROVE  Advances(req[r], req'[r])
<1> DEFINE q == req[r]
           next == req'[r]
<1>a. TypeInv /\ q \in Fiber /\ WalkOK(q) /\ next \in Fiber
  BY TypeNext DEF WalkInv, TypeInv, TypeOK
<1>b. AtCandidate(q) => q.pos \in 1 .. Len(q.cands)
  BY DEF WalkInv, TypeInv, Placed
<1>c. q.pos \in Nat /\ q.try \in Nat
  BY <1>a DEF Fiber
<1>0. ASSUME next.trail = q.trail, next.cands = q.cands, next.pos = q.pos,
             Held(next) => Held(q)
      PROVE  Advances(q, next)
  BY <1>0, <1>a, <1>c, TrailKept
<1>1. CASE Arrive(r) \/ Resolve(r) \/ ReadStatus(r) \/ PlanRequest(r)
  <2>1. q.trail = <<>>
    BY <1>1, <1>a DEF Arrive, Resolve, ReadStatus, PlanRequest, WalkOK, Blank
  <2>2. ASSUME NEW new, Becomes(r, new), new.trail = q.trail PROVE Advances(q, next)
    <3>1. next = new
      BY <1>a, <2>2, MovesTo
    <3> QED
      BY <1>a, <2>1, <2>2, <3>1, NothingSettled
  <2>3. /\ [q EXCEPT !.pc = "resolve"].trail = q.trail
        /\ Raise(q, "unknown_model").trail = q.trail
        /\ \A rows : [q EXCEPT !.pc = "plan", !.unread = rows].trail = q.trail
    BY <1>a DEF Raise, Fiber
  <2>4. ASSUME NEW round \in Rounds(q)
        PROVE  /\ round.trail = q.trail
               /\ Raise(round, "all_unavailable").trail = q.trail
               /\ \A order : [round EXCEPT !.pc = "call", !.pos = 1, !.try = 0,
                                       !.cands = Affinity(round, order)].trail = q.trail
    <3>1. round \in Fiber /\ round.trail = q.trail
      BY <1>a, RoundFiber
    <3> QED
      BY <3>1 DEF Raise, Fiber
  <2> QED
    BY <1>1, <2>2, <2>3, <2>4 DEF Arrive, Resolve, ReadStatus, PlanRequest
<1>2. CASE CallSucceeds(r) \/ \E kind \in Kinds : CallFails(r, kind)
  <2>1. q.pc = "call" /\ q.pos \in 1 .. Len(q.cands)
    BY <1>2, <1>b DEF CallSucceeds, CallFails, AtCandidate
  <2> DEFINE Lands(kind) ==
               \/ next = Conclude(Answered(q, kind), kind)
               \/ next = [Answered(q, kind) EXCEPT !.pc = "backoff", !.error = kind]
               \/ next = [Answered(q, kind) EXCEPT !.pc = "blame", !.error = kind]
               \/ next = [Answered(q, kind) EXCEPT !.pc = "credit"]
  <2>2. PICK kind \in Kinds \cup {"ok"} : Lands(kind)
    <3>1. CASE CallSucceeds(r)
      <4>1. Lands("ok")
        BY <1>a, <3>1, MovesTo DEF CallSucceeds
      <4> QED
        BY <4>1
    <3>2. ASSUME NEW kind \in Kinds, CallFails(r, kind) PROVE Lands(kind)
      BY <1>a, <3>2, MovesTo DEF CallFails
    <3> QED
      BY <1>2, <3>1, <3>2
  <2> DEFINE heard == Answered(q, kind)
  <2>3. /\ heard \in Fiber /\ heard.cands = q.cands /\ heard.pos = q.pos
        /\ heard.trail = Append(q.trail, [pos |-> q.pos, try |-> q.try, kind |-> kind])
    BY <1>a, <2>1, AnsweredFiber
  <2> HIDE DEF heard
  <2>4. /\ next.trail = heard.trail /\ next.cands = heard.cands
        /\ next.pos = q.pos \/ next.pos = q.pos + 1
    <3>1. CASE next = Conclude(heard, kind)
      BY <2>3, <3>1, ConcludeFields
    <3>2. CASE \/ next = [heard EXCEPT !.pc = "backoff", !.error = kind]
               \/ next = [heard EXCEPT !.pc = "blame", !.error = kind]
      BY <2>3, <3>2 DEF Fiber
    <3>3. CASE next = [heard EXCEPT !.pc = "credit"]
      BY <2>3, <3>3 DEF Fiber
    <3> QED
      BY <2>2, <3>1, <3>2, <3>3 DEF heard
  <2>5. next.pos >= q.pos
    BY <1>c, <2>4
  <2>6. /\ next.trail = Append(q.trail, [pos |-> q.pos, try |-> q.try, kind |-> kind])
        /\ next.cands = q.cands /\ q.pos # 0 /\ Behind(q)
    BY <2>1, <2>3, <2>4
  <2> HIDE DEF q, next
  <2>7. Advances(q, next)
    BY <1>a, <1>c, <2>1, <2>5, <2>6, TrailGrows
  <2> QED
    BY <2>7 DEF q, next
<1>3. CASE Retry(r)
  <2>1. next = [q EXCEPT !.pc = "call", !.try = @ + 1] /\ q.pc = "backoff"
    BY <1>3, <1>a, MovesTo DEF Retry
  <2> QED
    BY <1>0, <1>a, <2>1 DEF Held, Fiber
<1>4. CASE Credit(r)
  <2>1. \/ next = Finish(q, "defect")
        \/ next = [q EXCEPT !.pc = IF q.shape.streaming THEN "stream" ELSE "account"]
    BY <1>4, <1>a, MovesTo DEF Credit, Defect
  <2> QED
    BY <1>0, <1>a, <2>1 DEF Held, Fiber, Finish
<1>5. CASE Blame(r)
  <2>1. next = Finish(q, "defect") \/ next = Conclude(q, q.error)
    BY <1>5, <1>a, MovesTo DEF Blame, Defect
  <2>2. CASE next = Finish(q, "defect")
    BY <1>0, <1>a, <2>2 DEF Held, Fiber, Finish
  <2>3. CASE next = Conclude(q, q.error)
    <3>1. /\ next.trail = q.trail /\ next.cands = q.cands
          /\ \/ next.pos = q.pos /\ next.pc = "guard"
             \/ next.pos = q.pos + 1 /\ next.pc = "call"
      BY <1>a, <2>3, ConcludeFields
    <3>2. next.pos >= q.pos /\ (Held(next) => next.pos > q.pos)
      BY <1>c, <3>1 DEF Held
    <3> QED
      BY <1>a, <3>1, <3>2, TrailKept
  <2> QED
    BY <2>1, <2>2, <2>3
<1>6. CASE \/ Account(r) \/ Guard(r) \/ StreamEnds(r) \/ Disconnect(r)
           \/ Restart /\ q.pc \in InFlight
  <2>1. \E answer \in {"ok", "error", "cut", "gone", "lost"} : next = Finish(q, answer)
    BY <1>6, <1>a, MovesTo DEF Account, Guard, StreamEnds, Disconnect, Restart
  <2> QED
    BY <1>0, <1>a, <2>1 DEF Held, Fiber, Finish
<1>7. CASE next = q
  BY <1>0, <1>7
<1>8. ASSUME NEW s \in Requests, s # r,
             Arrive(s) \/ Progress(s) \/ StreamEnds(s) \/ Disconnect(s)
      PROVE  next = q
  <2>1. \E new : Becomes(s, new)
    BY <1>8 DEF Arrive, Progress, Resolve, ReadStatus, PlanRequest, CallSucceeds, CallFails, Retry,
                Credit, Blame, Defect, Account, Guard, StreamEnds, Disconnect
  <2> QED
    BY <1>8, <1>a, <2>1, MovesTo
<1>9. ASSUME Environment \/ UNCHANGED vars, ~(Restart /\ q.pc \in InFlight) PROVE next = q
  BY <1>9 DEF Environment, Tick, ToggleProvider, DeleteProvider, PinLapses, Restart, vars
<1> QED
  BY <1>1, <1>2, <1>3, <1>4, <1>5, <1>6, <1>7, <1>8, <1>9 DEF Next, Progress

\* There are finitely many faults to count, if there are finitely many requests.
LEMMA OwedFinite ==
  ASSUME NEW fibers \in [Requests -> Fiber], IsFiniteSet(Requests), NEW p
  PROVE  IsFiniteSet(OwedBy(fibers, p))
<1> DEFINE part(r) == {r} \X Settled(fibers[r], p)
           parts == {part(r) : r \in Requests}
<1>1. ASSUME NEW r \in Requests PROVE IsFiniteSet(part(r))
  <2>1. /\ Settled(fibers[r], p) \subseteq 1 .. Len(fibers[r].cands)
        /\ Len(fibers[r].cands) \in Nat
    BY DEF Settled, Faulted, Fiber
  <2>2. IsFiniteSet(1 .. Len(fibers[r].cands))
    BY <2>1, FS_Interval
  <2>3. IsFiniteSet(Settled(fibers[r], p))
    BY <2>1, <2>2, FS_Subset
  <2> QED
    BY <2>3, FS_Singleton, FS_Product
<1>2. IsFiniteSet(parts)
  <2> DEFINE f == [r \in Requests |-> part(r)]
  <2>1. f \in Surjection(Requests, parts)
    BY DEF Surjection
  <2> QED
    BY <2>1, FS_Surjection
<1>3. \A T \in parts : IsFiniteSet(T)
  BY <1>1
<1> HIDE DEF parts
<1>4. IsFiniteSet(UNION parts)
  BY <1>2, <1>3, FS_UNION
<1> QED
  BY <1>4 DEF OwedBy, parts

\* What is owed never shrinks, and a blamed candidate is owed anew.
LEMMA OwedGrows ==
  ASSUME EarnInv, [Next]_vars, NEW p
  PROVE  Owed(p) \subseteq Owed(p)'
<1>1. ASSUME NEW r \in Requests PROVE Settled(req[r], p) \subseteq Settled(req'[r], p)
  BY <1>1, FiberAdvances DEF EarnInv, Advances
<1> QED
  BY <1>1 DEF Owed, OwedBy

\* A blame settles a candidate that was not settled.
LEMMA BlameOwes ==
  ASSUME EarnInv, [Next]_vars, NEW r \in Requests, req[r].pc = "blame",
         req'[r] = Conclude(req[r], req[r].error),
         NEW p, p = Current(req[r])
  PROVE  \E x : x \notin Owed(p) /\ x \in Owed(p)'
<1> DEFINE q == req[r]
           next == req'[r]
<1>a. /\ q \in Fiber /\ q.pos \in 1 .. Len(q.cands) /\ Failed(q)
  BY DEF EarnInv, WalkInv, WalkOK, CallOK, TypeInv, TypeOK, Placed, AtCandidate
<1>b. /\ q.trail \in Seq(Attempt) /\ q.trail # <<>>
      /\ q.cands \in Seq(Targets) /\ q.pos \in Nat
  BY <1>a DEF Fiber, Failed, AtFinal
<1>1. q.pos \in Faulted(q, p)
  <2>1. Len(q.trail) \in DOMAIN q.trail /\ Final(q) \in Attempt
    BY <1>b DEF Final
  <2>2. Final(q).kind \in ProviderErrorKind
    BY <1>a, <2>1, GatewayAssumption DEF Attempt, Failed
  <2>3. Final(q).kind \in ProviderFault
    BY <1>a, <2>2 DEF Failed, Blameless, ProviderFault, ProviderErrorKind, RETRYABLE
  <2>4. q.trail[Len(q.trail)].pos = q.pos
    BY <1>a DEF Failed, AtFinal, Final
  <2>5. q.pos \in DOMAIN q.cands /\ Route[q.cands[q.pos]].provider = p
    BY <1>a, <1>b DEF Current
  <2>6. ~(Len(q.trail) < Len(q.trail))
    BY <1>b
  <2> QED
    BY <2>1, <2>3, <2>4, <2>5, <2>6 DEF Faulted, Final
<1>2. /\ next.trail = q.trail /\ next.cands = q.cands
      /\ \/ next.pos = q.pos /\ next.pc = "guard"
         \/ next.pos = q.pos + 1 /\ next.pc = "call"
  BY <1>a, ConcludeFields
<1>3. q.pos \in Settled(next, p)
  <2>1. q.pos \in Faulted(next, p)
    BY <1>1, <1>2 DEF Faulted
  <2>2. ~(Held(next) /\ q.pos = next.pos)
    BY <1>b, <1>2 DEF Held
  <2> QED
    BY <2>1, <2>2 DEF Settled
<1>4. q.pos \notin Settled(q, p)
  BY DEF Settled, Held
<1>5. <<r, q.pos>> \notin Owed(p)
  BY <1>4 DEF Owed, OwedBy
<1>6. <<r, q.pos>> \in Owed(p)'
  BY <1>3 DEF Owed, OwedBy
<1> QED
  BY <1>5, <1>6

\* Every step keeps the counts within what is owed.
LEMMA EarnNext ==
  ASSUME IsFiniteSet(Requests)
  PROVE  EarnInv /\ [Next]_vars => EarnInv'
<1> SUFFICES ASSUME EarnInv, [Next]_vars PROVE EarnInv'
  OBVIOUS
<1>1. WalkInv /\ WalkInv' /\ TypeInv /\ TypeInv'
  BY WalkNext DEF EarnInv, WalkInv
<1>2. \A r \in Requests : Behind(req'[r])
  BY <1>1, FiberAdvances DEF EarnInv, Advances
<1>3. failures \in [Providers -> Nat] /\ failures' \in [Providers -> Nat]
  BY <1>1 DEF TypeInv, TypeOK
<1>4. ASSUME NEW p \in Providers PROVE failures'[p] <= Cardinality(Owed(p))'
  <2>1. /\ IsFiniteSet(Owed(p)) /\ IsFiniteSet(Owed(p)')
        /\ Cardinality(Owed(p)) \in Nat /\ Cardinality(Owed(p)') \in Nat
        /\ Cardinality(Owed(p)) <= Cardinality(Owed(p)')
        /\ failures[p] <= Cardinality(Owed(p))
    <3>0. req \in [Requests -> Fiber] /\ req' \in [Requests -> Fiber]
      BY <1>1 DEF TypeInv, TypeOK
    <3>1. IsFiniteSet(Owed(p))
      BY <3>0, OwedFinite DEF Owed
    <3>2. IsFiniteSet(Owed(p)')
      <4>1. IsFiniteSet(OwedBy(req', p))
        BY <3>0, OwedFinite
      <4> QED
        BY <4>1 DEF Owed, OwedBy, Settled, Faulted, Held
    <3>3. Owed(p) \subseteq Owed(p)'
      BY OwedGrows
    <3> QED
      BY <3>1, <3>2, <3>3, FS_Subset, FS_CardinalityType DEF EarnInv
  <2>2. CASE failures'[p] <= failures[p]
    BY <1>3, <2>1, <2>2
  <2>3. ASSUME NEW r \in Requests, Blame(r), p = Current(req[r]), ~Defect(r)
        PROVE  failures'[p] <= Cardinality(Owed(p)')
    <3>1. req'[r] = Conclude(req[r], req[r].error) /\ req[r].pc = "blame"
      BY <1>1, <2>3, MovesTo DEF Blame
    <3>2. failures'[p] = failures[p] + 1
      BY <1>3, <2>3 DEF Blame
    <3>3. PICK x : x \notin Owed(p) /\ x \in Owed(p)'
      BY <2>3, <3>1, BlameOwes
    <3>4. Cardinality(Owed(p) \cup {x}) = Cardinality(Owed(p)) + 1
      BY <2>1, <3>3, FS_AddElement
    <3>5. Owed(p) \cup {x} \subseteq Owed(p)'
      BY <3>3, OwedGrows
    <3>6. Cardinality(Owed(p) \cup {x}) <= Cardinality(Owed(p)')
      BY <2>1, <3>5, FS_Subset
    <3> QED
      BY <1>3, <2>1, <3>2, <3>4, <3>6
  <2>4. ASSUME \A r \in Requests : ~(Blame(r) /\ p = Current(req[r]) /\ ~Defect(r))
        PROVE  failures'[p] <= failures[p]
    <3>1. CASE UNCHANGED failures
      BY <1>3, <3>1
    <3>2. ASSUME NEW r \in Requests, Blame(r) PROVE failures'[p] <= failures[p]
      <4>1. CASE Defect(r)
        BY <3>1, <4>1 DEF Defect, health
      <4>2. CASE ~Defect(r)
        BY <1>3, <2>4, <3>2, <4>2 DEF Blame
      <4> QED
        BY <4>1, <4>2
    <3>3. ASSUME NEW q, failures' = [failures EXCEPT ![q] = 0]
          PROVE  failures'[p] <= failures[p]
      BY <1>3, <3>3
    <3>4. ASSUME NEW r \in Requests, Credit(r) PROVE failures'[p] <= failures[p]
      BY <3>1, <3>3, <3>4 DEF Credit, Defect, health
    <3>5. ASSUME NEW q \in Providers, DeleteProvider(q) PROVE failures'[p] <= failures[p]
      BY <3>3, <3>5 DEF DeleteProvider
    <3> QED
      BY <3>1, <3>2, <3>4, <3>5
         DEF Next, Progress, Environment, vars, health, Arrive, Resolve, ReadStatus, PlanRequest,
             CallSucceeds, CallFails, Retry, Account, Guard, StreamEnds, Disconnect, Tick,
             ToggleProvider, PinLapses, Restart
  <2> QED
    BY <2>2, <2>3, <2>4
<1> QED
  BY <1>1, <1>2, <1>4 DEF EarnInv

\* For any finite set of requests, any route and any policy, the breaker counts
\* at most one failure for each candidate that ended in its provider's own
\* fault (attemptWithRetries of executor.ts).
THEOREM FailuresEarned ==
  ASSUME IsFiniteSet(Requests)
  PROVE  Spec => []FailuresAreEarned
<1>1. Init => EarnInv
  <2> SUFFICES ASSUME Init PROVE EarnInv
    OBVIOUS
  <2>1. WalkInv /\ TypeInv
    BY WalkInit DEF WalkInv
  <2>2. \A r \in Requests : req[r].trail = <<>>
    BY DEF Init, NewFiber
  <2>3. ASSUME NEW p \in Providers PROVE failures[p] <= Cardinality(Owed(p))
    BY <2>1, OwedFinite, FS_CardinalityType DEF Init, Owed, TypeInv, TypeOK
  <2> QED
    BY <2>1, <2>2, <2>3 DEF EarnInv, Behind
<1>2. EarnInv => FailuresAreEarned
  <2> SUFFICES ASSUME EarnInv, NEW p \in Providers
               PROVE  failures[p] <=
                        Cardinality(UNION {{r} \X Faults(r, p) : r \in Requests})
    BY DEF FailuresAreEarned
  <2> DEFINE all == UNION {{r} \X Faults(r, p) : r \in Requests}
             part(r) == {r} \X Faults(r, p)
             parts == {part(r) : r \in Requests}
  <2>1. TypeInv /\ failures[p] \in Nat /\ failures[p] <= Cardinality(Owed(p))
    BY DEF EarnInv, WalkInv, TypeInv, TypeOK
  <2>2. ASSUME NEW r \in Requests
        PROVE  Settled(req[r], p) \subseteq Faults(r, p) /\ IsFiniteSet(part(r))
    <3>1. /\ Faults(r, p) \subseteq 1 .. Len(req[r].cands) /\ Len(req[r].cands) \in Nat
      BY <2>1 DEF Faults, TypeInv, TypeOK, Fiber
    <3>2. IsFiniteSet(1 .. Len(req[r].cands))
      BY <3>1, FS_Interval
    <3>3. IsFiniteSet(Faults(r, p))
      BY <3>1, <3>2, FS_Subset
    <3> QED
      BY <3>3, FS_Singleton, FS_Product DEF Settled, Faulted, Faults
  <2>3. IsFiniteSet(parts)
    <3> DEFINE f == [r \in Requests |-> part(r)]
    <3>1. f \in Surjection(Requests, parts)
      BY DEF Surjection
    <3> QED
      BY <3>1, FS_Surjection
  <2>4. \A T \in parts : IsFiniteSet(T)
    BY <2>2
  <2>5. IsFiniteSet(all)
    <3> HIDE DEF parts
    <3>1. IsFiniteSet(UNION parts)
      BY <2>3, <2>4, FS_UNION
    <3> QED
      BY <3>1 DEF parts
  <2>6. Owed(p) \subseteq all
    <3> SUFFICES ASSUME NEW x \in Owed(p) PROVE x \in all
      OBVIOUS
    <3>1. PICK r \in Requests : x \in {r} \X Settled(req[r], p)
      BY DEF Owed, OwedBy
    <3>2. x \in {r} \X Faults(r, p)
      BY <2>2, <3>1
    <3> QED
      BY <3>2
  <2> HIDE DEF all
  <2>7. /\ Cardinality(Owed(p)) <= Cardinality(all)
        /\ Cardinality(Owed(p)) \in Nat /\ Cardinality(all) \in Nat
    BY <2>5, <2>6, FS_Subset, FS_CardinalityType
  <2> QED
    BY <2>1, <2>7 DEF all
<1> QED
  BY <1>1, EarnNext, <1>2, PTL DEF Spec

----------------------------------------------------------------------------
(* The request path implements the promise of UsageLedger: each of its     *)
(* steps is one thing the caller sees, or nothing the caller can see.      *)

\* The values the refinement mapping gives the variables of UsageLedger.
Phase == [r \in Requests |-> CallerPhase(req[r])]
\* The rows of a request as the abstract ledger has them.
StatusOf(s) == [k \in DOMAIN s |-> s[k].status]
Statuses == [r \in Requests |-> StatusOf(ledger[r])]

\* What CallerPhase says at each program counter.
LEMMA PhaseOf ==
  ASSUME NEW q
  PROVE  /\ q.pc = "idle" => CallerPhase(q) = "absent"
         /\ q.pc \in Waiting => CallerPhase(q) = "open"
         /\ q.pc = "stream" => CallerPhase(q) = "committed"
BY DEF CallerPhase, Waiting

\* What the caller of a finished request has seen.
LEMMA FinishPhase ==
  ASSUME NEW q \in Fiber
  PROVE  /\ CallerPhase(Finish(q, "ok")) = "served"
         /\ CallerPhase(Finish(q, "error")) = "failed"
         /\ CallerPhase(Finish(q, "cut")) = "cut"
         /\ CallerPhase(Finish(q, "gone")) = "gone"
         /\ CallerPhase(Finish(q, "defect")) = "dropped"
         /\ CallerPhase(Finish(q, "lost")) = "dropped"
BY DEF CallerPhase, Outcome, Finish, Fiber, Waiting

\* A step of one fiber moves the phase of that request alone.
LEMMA PhaseMoves ==
  ASSUME TypeInv, NEW r \in Requests, NEW q, Becomes(r, q)
  PROVE  Phase' = [Phase EXCEPT ![r] = CallerPhase(q)]
<1>1. req \in [Requests -> Fiber]
  BY DEF TypeInv, TypeOK
<1>2. \A s \in Requests : req'[s] = IF s = r THEN q ELSE req[s]
  BY <1>1 DEF Becomes
<1>3. Phase' = [s \in Requests |-> CallerPhase(req'[s])]
  BY DEF Phase, CallerPhase
<1>4. \A s \in Requests : CallerPhase(req'[s]) = IF s = r THEN CallerPhase(q) ELSE CallerPhase(req[s])
  BY <1>2
<1> QED
  BY <1>3, <1>4 DEF Phase

\* A row written for one request is one status more for that request.
LEMMA StatusesGrow ==
  ASSUME TypeInv, NEW r \in Requests, NEW row \in Row, Write(r, row)
  PROVE  Statuses' = [Statuses EXCEPT ![r] = Append(@, row.status)]
<1>1. ledger \in [Requests -> Seq(Row)]
  BY DEF TypeInv, TypeOK
<1>2. \A s \in Requests : ledger'[s] = IF s = r THEN Append(ledger[s], row) ELSE ledger[s]
  BY <1>1 DEF Write
<1>3. ASSUME NEW s \in Seq(Row) PROVE StatusOf(Append(s, row)) = Append(StatusOf(s), row.status)
  <2> DEFINE longer == Append(s, row)
             status == {"ok", "error", "aborted"}
  <2>1. /\ longer \in Seq(Row) /\ Len(longer) = Len(s) + 1 /\ Len(s) \in Nat
        /\ \A k \in 1 .. Len(longer) : longer[k] = IF k = Len(s) + 1 THEN row ELSE s[k]
    OBVIOUS
  <2>2. /\ DOMAIN s = 1 .. Len(s) /\ DOMAIN longer = 1 .. Len(longer)
        /\ \A k \in 1 .. Len(s) : s[k] \in Row
    BY <2>1
  <2>3. StatusOf(s) \in Seq(status) /\ Len(StatusOf(s)) = Len(s)
    BY <2>1, <2>2 DEF StatusOf, Row
  <2>4. row.status \in status
    BY DEF Row
  <2>5. /\ Append(StatusOf(s), row.status) \in Seq(status)
        /\ Len(Append(StatusOf(s), row.status)) = Len(s) + 1
        /\ \A k \in 1 .. Len(s) + 1 :
             Append(StatusOf(s), row.status)[k] =
               IF k = Len(s) + 1 THEN row.status ELSE StatusOf(s)[k]
    BY <2>3, <2>4
  <2>6. StatusOf(longer) = [k \in 1 .. Len(s) + 1 |-> longer[k].status]
    BY <2>1, <2>2 DEF StatusOf
  <2>7. Append(StatusOf(s), row.status) =
          [k \in 1 .. Len(s) + 1 |-> Append(StatusOf(s), row.status)[k]]
    BY <2>5
  <2>8. \A k \in 1 .. Len(s) + 1 :
          longer[k].status = Append(StatusOf(s), row.status)[k]
    BY <2>1, <2>2, <2>5 DEF StatusOf
  <2> QED
    BY <2>6, <2>7, <2>8
<1>4. Statuses' = [s \in Requests |-> StatusOf(ledger'[s])]
  BY DEF Statuses, StatusOf
<1>5. \A s \in Requests : StatusOf(ledger'[s]) =
        IF s = r THEN Append(StatusOf(ledger[s]), row.status) ELSE StatusOf(ledger[s])
  BY <1>1, <1>2, <1>3
<1> QED
  BY <1>4, <1>5 DEF Statuses

\* Initial states map to the promise's initial states.
LEMMA LedgerInit == Init => Ledger!Init
<1> SUFFICES ASSUME Init PROVE Ledger!Init
  OBVIOUS
<1>1. \A r \in Requests : CallerPhase(req[r]) = "absent"
  BY DEF Init, NewFiber, CallerPhase, Waiting
<1>2. \A r \in Requests : [k \in DOMAIN ledger[r] |-> ledger[r][k].status] = <<>>
  BY DEF Init
<1> QED
  BY <1>1, <1>2 DEF Ledger!Init

\* The same facts in the terms of UsageLedger.
LEMMA PhaseStep ==
  ASSUME TypeInv, NEW r \in Requests, NEW q, Becomes(r, q), NEW from
  PROVE  /\ CallerPhase(req[r]) \in from => Ledger!Move(r, from, CallerPhase(q))
         /\ CallerPhase(req[r]) = CallerPhase(q) => Phase' = Phase
<1>1. Phase' = [Phase EXCEPT ![r] = CallerPhase(q)]
  BY PhaseMoves
<1>2. Phase[r] = CallerPhase(req[r])
  BY DEF Phase
<1>3. CallerPhase(req[r]) \in from => Ledger!Move(r, from, CallerPhase(q))
  BY <1>1, <1>2 DEF Phase, Ledger!Move
<1>4. CallerPhase(req[r]) = CallerPhase(q) => Phase' = Phase
  BY <1>1, <1>2 DEF Phase
<1> QED
  BY <1>3, <1>4

\* A row that is written is one the promise logs.
LEMMA StatusStep ==
  ASSUME TypeInv, NEW r \in Requests, NEW row \in Row, Write(r, row)
  PROVE  Ledger!Log(r, row.status)
BY StatusesGrow DEF Statuses, StatusOf, Ledger!Log

\* A step between two waiting places is invisible to the caller.
LEMMA WaitingIsInvisible ==
  ASSUME TypeInv, NEW r \in Requests, NEW q, Becomes(r, q),
         req[r].pc \in Waiting, q.pc \in Waiting, UNCHANGED ledger
  PROVE  UNCHANGED <<Phase, Statuses>>
<1>1. CallerPhase(req[r]) = "open" /\ CallerPhase(q) = "open"
  BY PhaseOf
<1>2. Phase' = Phase
  BY <1>1, PhaseStep
<1> QED
  BY <1>2 DEF Statuses, StatusOf

\* Where walk leaves a fiber whose candidate failed.
LEMMA WalkWaits ==
  ASSUME NEW q \in Fiber, NEW kind
  PROVE  Raise(q, kind).pc \in Waiting /\ Conclude(q, kind).pc \in Waiting
BY DEF Raise, Conclude, Fiber, Waiting

\* Planning, calling and retrying are invisible.
LEMMA PlanAndWalkAreInvisible ==
  ASSUME TypeInv, NEW r \in Requests,
         \/ Resolve(r) \/ ReadStatus(r) \/ PlanRequest(r) \/ CallSucceeds(r) \/ Retry(r)
         \/ \E kind \in Kinds : CallFails(r, kind)
  PROVE  UNCHANGED <<Phase, Statuses>>
<1>a. req[r] \in Fiber /\ (AtCandidate(req[r]) => req[r].pos \in 1 .. Len(req[r].cands))
  BY DEF TypeInv, TypeOK, Placed
<1> DEFINE Invisible(q) == Becomes(r, q) /\ q.pc \in Waiting
<1>1. ASSUME NEW q, Invisible(q), req[r].pc \in Waiting, UNCHANGED ledger
      PROVE  UNCHANGED <<Phase, Statuses>>
  BY <1>1, WaitingIsInvisible
<1>2. CASE Resolve(r)
  <2> DEFINE rows == ResolveTargets(enabled)
             planned == [req[r] EXCEPT !.pc = "plan", !.unread = rows]
  <2>1. planned.pc \in Waiting
    BY <1>a DEF Fiber, Waiting
  <2>2. Raise(req[r], "unknown_model").pc \in Waiting
    BY <1>a, WalkWaits
  <2>3. Becomes(r, planned) \/ Becomes(r, Raise(req[r], "unknown_model"))
    BY <1>2 DEF Resolve
  <2>4. req[r].pc \in Waiting /\ UNCHANGED ledger
    BY <1>2 DEF Resolve, Waiting
  <2> HIDE DEF planned
  <2> QED
    BY <1>1, <2>1, <2>2, <2>3, <2>4
<1>r. CASE ReadStatus(r)
  <2>1. PICK q \in Rounds(req[r]) : Becomes(r, q)
    BY <1>r DEF ReadStatus
  <2>2. q.pc \in Waiting
    BY <1>r, <1>a, RoundFiber DEF ReadStatus, Waiting
  <2> QED
    BY <1>r, <1>1, <2>1, <2>2 DEF ReadStatus, Waiting
<1>3. CASE PlanRequest(r)
  <2> DEFINE chosen(q, ordered) == [q EXCEPT !.pc = "call", !.pos = 1, !.try = 0,
                                             !.cands = Affinity(q, ordered)]
  <2>1. ASSUME NEW q \in Rounds(req[r])
        PROVE  /\ Raise(q, "all_unavailable").pc \in Waiting
               /\ \A ordered : chosen(q, ordered).pc \in Waiting
    <3>1. q \in Fiber
      BY <1>a, RoundFiber
    <3> QED
      BY <3>1, WalkWaits DEF Fiber, Waiting
  <2>3. \E q \in Rounds(req[r]) : \/ Becomes(r, Raise(q, "all_unavailable"))
                                 \/ \E ordered : Becomes(r, chosen(q, ordered))
    BY <1>3 DEF PlanRequest
  <2>4. req[r].pc \in Waiting /\ UNCHANGED ledger
    BY <1>3 DEF PlanRequest, Waiting
  <2> HIDE DEF chosen
  <2> QED
    BY <1>1, <2>1, <2>3, <2>4
<1>4. CASE CallSucceeds(r)
  <2> DEFINE q == Answered(req[r], "ok")
             credited == [q EXCEPT !.pc = "credit"]
  <2>1. q \in Fiber
    BY <1>4, <1>a, AnsweredFiber DEF CallSucceeds, AtCandidate
  <2>2. req[r].pc \in Waiting /\ UNCHANGED ledger /\ Becomes(r, credited)
    BY <1>4 DEF CallSucceeds, Waiting
  <2> HIDE DEF q
  <2>3. credited.pc \in Waiting
    BY <2>1 DEF Fiber, Waiting
  <2> QED
    BY <1>1, <2>2, <2>3
<1>5. CASE Retry(r)
  <2> DEFINE again == [req[r] EXCEPT !.pc = "call", !.try = @ + 1]
  <2>1. again.pc \in Waiting
    BY <1>a DEF Fiber, Waiting
  <2>2. req[r].pc \in Waiting /\ UNCHANGED ledger /\ Becomes(r, again)
    BY <1>5 DEF Retry, Waiting
  <2> QED
    BY <1>1, <2>1, <2>2
<1>6. ASSUME NEW kind \in Kinds, CallFails(r, kind) PROVE UNCHANGED <<Phase, Statuses>>
  <2> DEFINE q == Answered(req[r], kind)
             held(pc) == [q EXCEPT !.pc = pc, !.error = kind]
  <2>1. q \in Fiber
    BY <1>6, <1>a, AnsweredFiber DEF CallFails, AtCandidate
  <2>2. Becomes(r, Conclude(q, kind)) \/ Becomes(r, held("backoff")) \/ Becomes(r, held("blame"))
    BY <1>6 DEF CallFails
  <2>3. req[r].pc \in Waiting /\ UNCHANGED ledger
    BY <1>6 DEF CallFails, Waiting
  <2> HIDE DEF q
  <2>4. held("backoff").pc \in Waiting /\ held("blame").pc \in Waiting
    BY <2>1 DEF Fiber, Waiting
  <2>5. Conclude(q, kind).pc \in Waiting
    BY <2>1, WalkWaits
  <2> HIDE DEF held
  <2> QED
    BY <1>1, <2>2, <2>3, <2>4, <2>5
<1> QED
  BY <1>2, <1>3, <1>4, <1>5, <1>6, <1>r

\* Requests that end without a row are dropped; no other caller notices.
LEMMA DropStep ==
  ASSUME NEW S \in SUBSET {r \in Requests : req[r].pc \in InFlight},
         Phase' = [r \in Requests |-> IF r \in S THEN "dropped" ELSE Phase[r]],
         UNCHANGED Statuses
  PROVE  Ledger!Drop
<1>1. \A r \in S : r \in Requests /\ CallerPhase(req[r]) \in {"open", "committed"}
  BY PhaseOf DEF InFlight
<1>2. S \in SUBSET {r \in Requests : Phase[r] \in {"open", "committed"}}
  BY <1>1 DEF Phase
<1> QED
  BY <1>2 DEF Ledger!Drop, Phase, Statuses, StatusOf

\* An ending without a row is the promise's drop.
LEMMA DefectStep ==
  ASSUME TypeInv, NEW r \in Requests, Defect(r), req[r].pc \in Waiting, UNCHANGED ledger
  PROVE  Ledger!Drop
<1>1. req[r] \in Fiber
  BY DEF TypeInv, TypeOK
<1>2. Phase' = [Phase EXCEPT ![r] = "dropped"]
  BY <1>1, PhaseMoves, FinishPhase DEF Defect
<1>3. Phase' = [s \in Requests |-> IF s \in {r} THEN "dropped" ELSE Phase[s]]
  BY <1>2 DEF Phase
<1>4. {r} \in SUBSET {s \in Requests : req[s].pc \in InFlight} /\ UNCHANGED Statuses
  BY DEF InFlight, Statuses, StatusOf
<1> QED
  BY <1>3, <1>4, DropStep

\* Every step maps to a step of the promise, or to none.
LEMMA LedgerNext ==
  TypeInv /\ [Next]_vars => Ledger!Next \/ UNCHANGED <<Phase, Statuses>>
<1> SUFFICES ASSUME TypeInv, [Next]_vars
             PROVE  Ledger!Next \/ UNCHANGED <<Phase, Statuses>>
  OBVIOUS
<1> DEFINE Goal == Ledger!Next \/ UNCHANGED <<Phase, Statuses>>
<1>a. ASSUME NEW r \in Requests
      PROVE  /\ req[r] \in Fiber
             /\ AtCandidate(req[r]) => req[r].pos \in 1 .. Len(req[r].cands)
  BY DEF TypeInv, TypeOK, Placed
<1>b. ASSUME UNCHANGED ledger PROVE UNCHANGED Statuses
  BY <1>b DEF Statuses, StatusOf
<1>c. ASSUME UNCHANGED <<req, ledger>> PROVE Goal
  BY <1>c, <1>b DEF Phase, CallerPhase
<1>d. ASSUME UNCHANGED ledger
      PROVE  UNCHANGED [r \in Requests |-> [k \in DOMAIN ledger[r] |-> ledger[r][k].status]]
  BY <1>d
<1>1. ASSUME NEW r \in Requests, Arrive(r) PROVE Goal
  <2> DEFINE q == [req[r] EXCEPT !.pc = "resolve"]
  <2>1. CallerPhase(req[r]) = "absent" /\ CallerPhase(q) = "open"
    BY <1>1, <1>a, PhaseOf DEF Arrive, Fiber, Waiting
  <2>2. Becomes(r, q) /\ UNCHANGED ledger
    BY <1>1 DEF Arrive
  <2> HIDE DEF q
  <2>3. Ledger!Move(r, {"absent"}, "open")
    BY <2>1, <2>2, PhaseStep
  <2> QED
    BY <2>2, <2>3, <1>d DEF Ledger!Next, Ledger!Open
<1>2. ASSUME NEW r \in Requests,
             \/ Resolve(r) \/ ReadStatus(r) \/ PlanRequest(r) \/ CallSucceeds(r) \/ Retry(r)
             \/ \E kind \in Kinds : CallFails(r, kind)
      PROVE  Goal
  BY <1>2, PlanAndWalkAreInvisible
<1>3. ASSUME NEW r \in Requests, Credit(r) PROVE Goal
  <2> DEFINE to == IF req[r].shape.streaming THEN "stream" ELSE "account"
             q == [req[r] EXCEPT !.pc = to]
  <2>1. req[r].pc \in Waiting /\ UNCHANGED ledger
    BY <1>3 DEF Credit, Waiting
  <2>2. CASE Defect(r)
    BY <2>1, <2>2, DefectStep DEF Ledger!Next
  <2>3. CASE ~Defect(r)
    <3>1. Becomes(r, q) /\ q.pc = to
      BY <1>3, <1>a, <2>3 DEF Credit, Fiber
    <3> HIDE DEF q
    <3>2. CASE to = "stream"
      <4>1. CallerPhase(req[r]) = "open" /\ CallerPhase(q) = "committed"
        BY <2>1, <3>1, <3>2, PhaseOf
      <4>2. Ledger!Move(r, {"open"}, "committed")
        BY <3>1, <4>1, PhaseStep
      <4> QED
        BY <2>1, <4>2, <1>d DEF Ledger!Next, Ledger!Commit
    <3>3. CASE to # "stream"
      <4>1. q.pc \in Waiting
        BY <3>1, <3>3 DEF Waiting
      <4> QED
        BY <2>1, <3>1, <4>1, WaitingIsInvisible
    <3> QED
      BY <3>2, <3>3
  <2> QED
    BY <2>2, <2>3
<1>4. ASSUME NEW r \in Requests, Blame(r) PROVE Goal
  <2>1. req[r].pc \in Waiting /\ UNCHANGED ledger
    BY <1>4 DEF Blame, Waiting
  <2>2. CASE Defect(r)
    BY <2>1, <2>2, DefectStep DEF Ledger!Next
  <2>3. CASE ~Defect(r)
    <3>1. Becomes(r, Conclude(req[r], req[r].error))
      BY <1>4, <2>3 DEF Blame
    <3> QED
      BY <1>a, <2>1, <3>1, WalkWaits, WaitingIsInvisible
  <2> QED
    BY <2>2, <2>3
<1>5. ASSUME NEW r \in Requests, Account(r) PROVE Goal
  <2>1. /\ CallerPhase(req[r]) = "open" /\ CallerPhase(Finish(req[r], "ok")) = "served"
        /\ SuccessRow(req[r]) \in Row /\ SuccessRow(req[r]).status = "ok"
    BY <1>5, <1>a, PhaseOf, FinishPhase, Rows DEF Account, AtCandidate, Waiting, SuccessRow
  <2>2. Ledger!Move(r, {"open", "committed"}, "served")
    BY <1>5, <2>1, PhaseStep DEF Account
  <2>3. Ledger!Log(r, "ok")
    BY <1>5, <2>1, StatusStep DEF Account
  <2> QED
    BY <2>2, <2>3 DEF Ledger!Next, Ledger!Serve
<1>6. ASSUME NEW r \in Requests, Guard(r) PROVE Goal
  <2>1. /\ CallerPhase(req[r]) = "open" /\ CallerPhase(Finish(req[r], "error")) = "failed"
        /\ FailureRow(req[r]) \in Row /\ FailureRow(req[r]).status = "error"
    BY <1>6, <1>a, PhaseOf, FinishPhase, Rows DEF Guard, AtCandidate, Waiting, FailureRow
  <2>2. Ledger!Move(r, {"open"}, "failed")
    BY <1>6, <2>1, PhaseStep DEF Guard
  <2>3. Ledger!Log(r, "error")
    BY <1>6, <2>1, StatusStep DEF Guard
  <2> QED
    BY <2>2, <2>3 DEF Ledger!Next, Ledger!Fail
<1>7. ASSUME NEW r \in Requests, StreamEnds(r) PROVE Goal
  <2>1. /\ CallerPhase(req[r]) = "committed"
        /\ SuccessRow(req[r]) \in Row /\ SuccessRow(req[r]).status = "ok"
        /\ BrokenRow(req[r]) \in Row /\ BrokenRow(req[r]).status = "error"
    BY <1>7, <1>a, PhaseOf, Rows DEF StreamEnds, AtCandidate, SuccessRow, BrokenRow
  <2>2. /\ CallerPhase(Finish(req[r], "ok")) = "served"
        /\ CallerPhase(Finish(req[r], "gone")) = "gone"
        /\ CallerPhase(Finish(req[r], "cut")) = "cut"
    BY <1>a, FinishPhase
  <2>3. CASE Write(r, SuccessRow(req[r])) /\ Becomes(r, Finish(req[r], "ok"))
    <3>1. Ledger!Move(r, {"open", "committed"}, "served") /\ Ledger!Log(r, "ok")
      BY <2>1, <2>2, <2>3, PhaseStep, StatusStep
    <3> QED
      BY <3>1 DEF Ledger!Next, Ledger!Serve
  <2>4. CASE Write(r, SuccessRow(req[r])) /\ Becomes(r, Finish(req[r], "gone"))
    <3>1. Ledger!Move(r, {"committed"}, "gone") /\ Ledger!Log(r, "ok")
      BY <2>1, <2>2, <2>4, PhaseStep, StatusStep
    <3> QED
      BY <3>1 DEF Ledger!Next, Ledger!LeaveLate
  <2>5. CASE Write(r, BrokenRow(req[r])) /\ Becomes(r, Finish(req[r], "cut"))
    <3>1. Ledger!Move(r, {"committed"}, "cut") /\ Ledger!Log(r, "error")
      BY <2>1, <2>2, <2>5, PhaseStep, StatusStep
    <3> QED
      BY <3>1 DEF Ledger!Next, Ledger!Cut
  <2> QED
    BY <1>7, <2>3, <2>4, <2>5 DEF StreamEnds
<1>8. ASSUME NEW r \in Requests, Disconnect(r) PROVE Goal
  <2>1. CallerPhase(req[r]) = "open" /\ CallerPhase(Finish(req[r], "gone")) = "gone"
    BY <1>8, <1>a, PhaseOf, FinishPhase DEF Disconnect, Waiting
  <2>2. Ledger!Move(r, {"open"}, "gone")
    BY <1>8, <2>1, PhaseStep DEF Disconnect
  <2>3. CASE Write(r, AbandonedRow)
    <3>1. AbandonedRow \in Row /\ AbandonedRow.status = "aborted"
      BY DEF AbandonedRow, Row
    <3>2. Ledger!Log(r, "aborted")
      BY <2>3, <3>1, StatusStep
    <3> QED
      BY <2>2, <3>2 DEF Ledger!Next, Ledger!LeaveEarly
  <2>4. CASE UNCHANGED ledger
    BY <2>2, <2>4, <1>d DEF Ledger!Next, Ledger!LeaveEarly
  <2> QED
    BY <1>8, <2>3, <2>4 DEF Disconnect
<1>9. CASE Restart
  <2> DEFINE S == {r \in Requests : req[r].pc \in InFlight}
  <2>1. /\ UNCHANGED ledger
        /\ req' = [r \in Requests |-> IF r \in S THEN Finish(req[r], "lost") ELSE req[r]]
    BY <1>9 DEF Restart
  <2>2. Phase' = [r \in Requests |-> CallerPhase(req'[r])]
    BY DEF Phase, CallerPhase
  <2>3. \A r \in Requests : CallerPhase(req'[r]) = IF r \in S THEN "dropped" ELSE CallerPhase(req[r])
    BY <1>a, <2>1, FinishPhase
  <2> HIDE DEF S
  <2>4. Phase' = [r \in Requests |-> IF r \in S THEN "dropped" ELSE Phase[r]]
    BY <2>2, <2>3 DEF Phase
  <2> USE DEF S
  <2>5. S \in SUBSET {r \in Requests : req[r].pc \in InFlight}
    OBVIOUS
  <2> HIDE DEF S
  <2> QED
    BY <2>1, <2>4, <2>5, <1>b, DropStep DEF Ledger!Next
<1>10. CASE Environment /\ ~Restart
  <2>1. UNCHANGED <<req, ledger>>
    BY <1>10 DEF Environment, Tick, ToggleProvider, DeleteProvider, PinLapses
  <2> QED
    BY <1>c, <2>1
<1>11. CASE UNCHANGED vars
  BY <1>11, <1>c DEF vars
<1> QED
  BY <1>1, <1>2, <1>3, <1>4, <1>5, <1>6, <1>7, <1>8, <1>9, <1>10, <1>11 DEF Next, Progress

\* Every caller that was answered finds one row that matches the answer, for
\* any number of requests, providers and crashes.
THEOREM LedgerImplemented == Spec => ImplementsLedger
<1>1. Init => Ledger!Init
  BY LedgerInit
<1>2. TypeInv /\ [Next]_vars =>
        [Ledger!Next]_<<[r \in Requests |-> CallerPhase(req[r])],
                        [r \in Requests |-> [k \in DOMAIN ledger[r] |-> ledger[r][k].status]]>>
  BY LedgerNext DEF Phase, Statuses, StatusOf
<1> QED
  BY <1>1, <1>2, TypeInit, TypeNext, PTL DEF Spec, ImplementsLedger, Ledger!Spec

\* The promise itself, of the request path: an answered request has the one
\* row that matches, and nothing is logged for a request before its end.
THEOREM AnswersAreLogged == Spec => []Ledger!Promise
BY LedgerImplemented, Ledger!PromiseKept, PTL DEF ImplementsLedger

=============================================================================
