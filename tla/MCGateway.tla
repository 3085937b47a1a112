----------------------------- MODULE MCGateway -----------------------------
(***************************************************************************)
(* Instances of Gateway for TLC: the routes, strategies and request shapes *)
(* its configurations choose from, and the symmetry they may use.          *)
(***************************************************************************)
EXTENDS Gateway, TLC

CONSTANTS p1, p2, s1

To(provider, priority, retries) ==
  [provider |-> provider, priority |-> priority, retries |-> retries]

\* One provider owns two targets and the other lies between them.
Sandwich == <<To(p1, 2, 1), To(p2, 1, 0), To(p1, 0, 0)>>
\* Two equals; the first may be retried once.
Pair == <<To(p1, 0, 1), To(p2, 0, 0)>>
\* Two equals without retries.
Twins == <<To(p1, 0, 0), To(p2, 0, 0)>>
\* One provider owns both targets: a request can count against it twice.
Doubled == <<To(p1, 1, 1), To(p1, 0, 0)>>

ShapeOf(endpoint, streaming, session) ==
  [endpoint |-> endpoint, streaming |-> streaming, session |-> session]

\* A plain completion, with a session and without one.
Sticky == {ShapeOf("chat", FALSE, s1)}
Anonymous == {ShapeOf("responses", FALSE, NoSession)}
\* Every way a handler treats a client that leaves.
EveryEndpoint ==
  {ShapeOf("chat", FALSE, s1), ShapeOf("chat", TRUE, s1),
   ShapeOf("responses", FALSE, s1), ShapeOf("anthropic", TRUE, s1)}

Interchangeable == Permutations(Requests)

=============================================================================
