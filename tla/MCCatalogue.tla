---------------------------- MODULE MCCatalogue ----------------------------
(***************************************************************************)
(* Instances of Catalogue for TLC: the filing rules, listings and target   *)
(* sets its configurations choose from.                                    *)
(***************************************************************************)
EXTENDS Catalogue, TLC

CONSTANTS p1, p2, a, b

Plainly == [rename |-> [u \in Ids |-> NoModel], allow |-> {}, deny |-> {}]
\* Only what is called a passes, and only the renamed one does.
Sifting == [Plainly EXCEPT !.rename = [u \in Ids |-> IF u = a THEN b ELSE a],
                           !.allow = {{a}}, !.deny = {{b}}]

OnlyPlain == {Plainly}
PlainOrSifting == {Plainly, Sifting}

Steady == {{a}}
Moving == {{a}, {b}}
Patchy == {{a, b}, Unreadable}

To(p, tuned) == [provider |-> p, upstream |-> a, tuned |-> tuned]
NoHand == {}
\* What sync would build for one provider, and a curated pair.
ByHand == {{To(p1, FALSE)}, {To(p1, TRUE), To(p2, FALSE)}}

=============================================================================
