---------------------------- MODULE MCCapabilities ----------------------------
\* What models.dev may serve and upstreams may say of a few models, for TLC.
EXTENDS Capabilities

Says(id, input, tools, context) ==
  [id |-> id, input |-> input, output |-> {"text"}, tool_call |-> tools, attachment |-> context = 8,
   context |-> context]

At(host, models) == [host |-> host, models |-> models]

\* Three resellers and the provider itself; a tie that the id vote must refuse, then
\* majorities, and a provider that claims a host and has nothing indexed.
MCDocuments ==
  { << At("r1", <<Says("m", {"text", "image"}, TRUE, 8)>>),
       At("r2", <<Says("v/m", {"text", "file"}, TRUE, 4), Says("x", {"tokens"}, TRUE, 4)>>),
       At("r3", <<Says("m", {"text", "image"}, TRUE, 2), Says("x", {"text"}, TRUE, 1)>>),
       At("known", <<Says("v/x", {"text"}, Unsaid, 16), Says("m", {"text", "pdf"}, TRUE, 16)>>) >>,
    << At("known", <<Says("y", {"tokens"}, TRUE, 8)>>),
       At("r1", <<Says("m", {"text", "image"}, TRUE, 8)>>),
       At("r1", <<Says("m", {"text", "image"}, TRUE, 4), Says("x", {"text"}, TRUE, 4)>>),
       At("known", <<Says("x", {"text"}, TRUE, 8)>>),
       At("r3", <<Says("x", {"audio"}, FALSE, Unsaid), Says("m", {"text"}, TRUE, 2)>>) >> }

Silent == [input |-> <<Unsaid, Unsaid>>, output |-> <<Unsaid, Unsaid>>, compactIn |-> Unsaid,
           compactOut |-> Unsaid, supports_images |-> Unsaid, tool_call |-> Unsaid,
           attachment |-> Unsaid]

Offer(id, host, entry, context) == [id |-> id, host |-> host, entry |-> entry, context |-> context]

MCOffers ==
  { Offer("m", Unsaid, Silent, Unsaid),
    Offer("x", "known", Silent, 1),
    Offer("y", "known", [Silent EXCEPT !.input = <<Unsaid, {"file", "text"}>>], Unsaid),
    Offer("z", Unsaid, [Silent EXCEPT !.input = <<{"tokens"}, {"image"}>>,
                                      !.compactIn = {"text", "file"}, !.compactOut = {"tokens"}], 2),
    Offer("z", "r1", [Silent EXCEPT !.supports_images = TRUE], Unsaid),
    Offer("z", "r1", [Silent EXCEPT !.tool_call = FALSE], Unsaid) }

MCBare == [id \in {"m", "v/m", "x", "v/x", "y", "z"} |->
             CASE id = "v/m" -> "m" [] id = "v/x" -> "x" [] OTHER -> id]
=============================================================================
