----------------------------- MODULE HintStore -----------------------------
(***************************************************************************)
(* What the gateway may rely on about session affinity: a hint per session *)
(* that names the provider recorded last, or is gone.  A hint may go at    *)
(* any time (it expires, it is evicted, the process restarts); it is never *)
(* wrong, and a lookup never sees one that was dropped on purpose.         *)
(* SessionStore implements it; Gateway's pins are this store.              *)
(***************************************************************************)
CONSTANTS Keys, Providers, NoProvider

VARIABLES
  hint,     \* what the store has for each session
  served,   \* the provider that was recorded last, kept or not
  told      \* what the last lookup answered

Hints == Providers \cup {NoProvider}

Init ==
  /\ hint = [k \in Keys |-> NoProvider]
  /\ served = [k \in Keys |-> NoProvider]
  /\ told = NoProvider

\* Some hints go without anyone asking.
Fewer(h) == {g \in [Keys -> Hints] : \A k \in Keys : g[k] \in {h[k], NoProvider}}

Lapse == hint' \in Fewer(hint) /\ UNCHANGED <<served, told>>

Record(k, p) ==
  /\ served' = [served EXCEPT ![k] = p]
  /\ hint' \in Fewer([hint EXCEPT ![k] = p])
  /\ UNCHANGED told

Forget(k) == hint' = [hint EXCEPT ![k] = NoProvider] /\ UNCHANGED <<served, told>>

Lookup(k) == told' = hint[k] /\ UNCHANGED <<hint, served>>

Next ==
  \/ Lapse
  \/ \E k \in Keys : Forget(k) \/ Lookup(k) \/ \E p \in Providers : Record(k, p)

Spec == Init /\ [][Next]_<<hint, served, told>>

=============================================================================
