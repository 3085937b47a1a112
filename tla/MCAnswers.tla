----------------------------- MODULE MCAnswers -----------------------------
(***************************************************************************)
(* What the gateway says to clients, providers and operators, for TLC:     *)
(* streamed answers through the converters, conversations of both          *)
(* protocols, the calls and frames of a provider, the listings and the     *)
(* usage reports and charts.  They share no state here: moving is the one  *)
(* that takes steps in a behaviour, and the others rest in an initial state*)
(* of theirs.                                                              *)
(***************************************************************************)
EXTENDS Streams, Conversations, AnthropicTurns, Wire, Reports, Listing, Charts

\* One status of every class an adapter tells apart, and counts a provider may state.
MCStatuses == {400, 401, 402, 404, 408, 418, 429, 503}
MCStated == {[prompt |-> 2, completion |-> 1, cached |-> 3, total |-> 0],
             [prompt |-> 1, completion |-> 0, cached |-> 0, total |-> 1]}

\* The bucket a caller asks for, and the one derived from the range.
MCBuckets == {Omitted, 3}

\* Targets of one provider, of both, and with one of them switched off; and what two
\* providers tell of an upstream.
Alone == {Target(1, 1, 0, TRUE)}
Pair == {Target(1, 1, 0, TRUE), Target(2, 1, 0, TRUE)}
Halved == {Target(1, 1, 0, FALSE), Target(2, 1, 0, TRUE)}
MCFittings == {Alone, Pair, Halved}

Tells(first, second) == [p \in Providers |-> [u \in Upstreams |-> IF p = 1 THEN first ELSE second]]
MCReported == {Tells("none", "both"), Tells("limits", "capabilities")}

VARIABLE moving

streamVars == vars

Still ==
  /\ moving # "conversation" => asked = Plain
  /\ moving # "turns" => wants.system = <<>> /\ wants.choice = Absent
  /\ moving # "reports" => reader = "log"
  /\ moving # "charts" => window = CHOOSE w \in Windows : TRUE
  /\ moving # "listing" => /\ \A m \in PublicModels : ~routes[m].there
                           /\ \A p \in Providers : ~providers[p].enabled
                           /\ details = CHOOSE r \in Reported : TRUE

AnswersInit ==
  /\ moving \in {"stream", "conversation", "turns", "wire", "reports", "listing", "charts"}
  /\ Init /\ ConversationsInit /\ TurnsInit /\ WireInit /\ ReportsInit /\ ListingInit
  /\ ChartsInit
  /\ Still

AnswersNext ==
  /\ UNCHANGED moving
  /\ \/ moving = "stream" /\ Next
        /\ UNCHANGED <<conversationVars, turnVars, wireVars, reportVars, listingVars, chartVars>>
     \/ moving = "conversation" /\ ConversationsNext
        /\ UNCHANGED <<streamVars, turnVars, wireVars, reportVars, listingVars, chartVars>>
     \/ moving = "turns" /\ TurnsNext
        /\ UNCHANGED <<streamVars, conversationVars, wireVars, reportVars, listingVars, chartVars>>
     \/ moving = "wire" /\ WireNext
        /\ UNCHANGED <<streamVars, conversationVars, turnVars, reportVars, listingVars, chartVars>>
     \/ moving = "reports" /\ ReportsNext
        /\ UNCHANGED <<streamVars, conversationVars, turnVars, wireVars, listingVars, chartVars>>
     \/ moving = "listing" /\ ListingNext
        /\ UNCHANGED <<streamVars, conversationVars, turnVars, wireVars, reportVars, chartVars>>
     \/ moving = "charts" /\ ChartsNext
        /\ UNCHANGED <<streamVars, conversationVars, turnVars, wireVars, reportVars, listingVars>>

AnswersSpec ==
  AnswersInit /\ [][AnswersNext]_<<streamVars, conversationVars, turnVars, wireVars, reportVars,
                                   listingVars, chartVars, moving>>
=============================================================================
