---------------------------- MODULE SessionStore ----------------------------
(***************************************************************************)
(* The session store of src/src/gateway/sessions.ts: a map in insertion    *)
(* order from session keys to the provider that served them last, bounded  *)
(* in size and in age.  The age is counted from the recording; lookups do  *)
(* not renew it.  Every operation runs to its end without giving way.      *)
(***************************************************************************)
EXTENDS Naturals, Sequences, FiniteSets, Subsequences

CONSTANTS
  Keys,         \* session keys
  Providers,
  NoProvider,   \* lookup's null
  TtlMs,        \* session_ttl_ms
  MaxEntries,   \* session_max_entries
  MaxClock      \* bound on the model's clock

ASSUME SessionAssumption ==
  /\ NoProvider \notin Providers
  /\ TtlMs \in Nat /\ MaxEntries \in Nat /\ MaxClock \in Nat

VARIABLES
  clock,    \* Date.now()
  pins,     \* the map, in insertion order
  served,   \* the provider recorded last for each key (history)
  told      \* what the last lookup answered

vars == <<clock, pins, served, told>>

Pin == [key : Keys, provider : Providers, at : Nat]

Enabled == TtlMs > 0 /\ MaxEntries > 0

Init ==
  /\ clock = 0
  /\ pins = <<>>
  /\ served = [k \in Keys |-> NoProvider]
  /\ told = NoProvider

----------------------------------------------------------------------------

Expired(pin) == clock - pin.at > TtlMs

Without(s, k) == Subsequence(s, {i \in DOMAIN s : s[i].key # k})
PinsOf(s, k) == Subsequence(s, {i \in DOMAIN s : s[i].key = k})
Unexpired(s) == Subsequence(s, {i \in DOMAIN s : ~Expired(s[i])})

\* Seeded fault: the age of the pin is not looked at.
LookupOld(k) ==
  LET found == PinsOf(pins, k)
  IN  /\ told' = IF found = <<>> THEN NoProvider ELSE found[1].provider
      /\ UNCHANGED <<clock, pins, served>>

\* An expired pin is deleted by the lookup that finds it.
Lookup(k) ==
  /\ IF \E i \in DOMAIN pins : pins[i].key = k /\ Enabled /\ ~Expired(pins[i])
     THEN told' = PinsOf(pins, k)[1].provider /\ UNCHANGED pins
     ELSE /\ told' = NoProvider
          /\ pins' = IF Enabled THEN Without(pins, k) ELSE pins
  /\ UNCHANGED <<clock, served>>

\* Seeded fault: set on a key that is present keeps its place in the order.
ReinsertedInPlace(k, p) ==
  IF PinsOf(pins, k) = <<>> THEN Append(pins, [key |-> k, provider |-> p, at |-> clock])
  ELSE [i \in DOMAIN pins |->
         IF pins[i].key = k THEN [key |-> k, provider |-> p, at |-> clock] ELSE pins[i]]

\* delete, then set: the key moves to the end of the order.
Reinserted(k, p) == Append(Without(pins, k), [key |-> k, provider |-> p, at |-> clock])

\* Seeded fault: only expired pins are evicted.
EvictedExpired(s) ==
  IF Len(s) <= MaxEntries THEN s ELSE Unexpired(s)

\* Over budget: first the expired pins go, then the oldest.
Evicted(s) ==
  IF Len(s) <= MaxEntries THEN s
  ELSE LET live == Unexpired(s)
       IN  IF Len(live) <= MaxEntries THEN live
           ELSE SubSeq(live, Len(live) - MaxEntries + 1, Len(live))

Record(k, p) ==
  /\ pins' = IF Enabled THEN Evicted(Reinserted(k, p)) ELSE pins
  /\ served' = [served EXCEPT ![k] = p]
  /\ UNCHANGED <<clock, told>>

Forget(k) ==
  /\ pins' = Without(pins, k)
  /\ UNCHANGED <<clock, served, told>>

Tick ==
  /\ clock < MaxClock
  /\ clock' = clock + 1
  /\ UNCHANGED <<pins, served, told>>

Restart ==
  /\ pins' = <<>>
  /\ UNCHANGED <<clock, served, told>>

Next ==
  \/ Tick \/ Restart
  \/ \E k \in Keys : Lookup(k) \/ Forget(k) \/ \E p \in Providers : Record(k, p)

Spec == Init /\ [][Next]_vars

----------------------------------------------------------------------------
(* Properties *)

\* The map is a map, it holds pins, and it stays within its bound whatever
\* mixture of live and expired pins fills it.
TypeOK ==
  /\ clock \in 0..MaxClock
  /\ served \in [Keys -> Providers \cup {NoProvider}]
  /\ told \in Providers \cup {NoProvider}
  /\ pins \in Seq(Pin)
  /\ \A i, j \in DOMAIN pins : pins[i].key = pins[j].key => i = j
  /\ Len(pins) <= MaxEntries

Live == {pins[i].key : i \in {j \in DOMAIN pins : ~Expired(pins[j])}}

\* A conversation that is still active loses its pin to others only when as
\* many newer conversations as the store holds have been recorded since.
EvictionTakesTheOldest ==
  [][\A i \in DOMAIN pins :
       LET pin == pins[i]
       IN  (\E k \in Keys, p \in Providers : k # pin.key /\ Record(k, p))
           /\ ~Expired(pin) /\ PinsOf(pins', pin.key) = <<>>
           => Cardinality({j \in DOMAIN pins' : pins'[j].at >= pin.at}) = MaxEntries]_vars

\* The hint a key has while its pin is neither expired nor dropped.
HintOf(k) ==
  IF k \in Live THEN PinsOf(pins, k)[1].provider ELSE NoProvider

Store == INSTANCE HintStore WITH hint <- [k \in Keys |-> HintOf(k)]

\* Every operation is one of the hint store's: a lookup tells the provider
\* recorded last or nothing, however recordings, expiry, eviction, forgetting
\* and restarts interleave.
ImplementsHints == Store!Spec

\* The store is a bounded map that implements the hint store and lets go of the
\* oldest pin first (gateway/sessions.ts).
StoreIsAHint == []TypeOK /\ EvictionTakesTheOldest /\ ImplementsHints
=============================================================================
