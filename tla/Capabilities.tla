----------------------------- MODULE Capabilities -----------------------------
(***************************************************************************)
(* What a model accepts and how long its prompts may be:                   *)
(* src/src/models/capabilities.ts, as discovery                            *)
(* (src/src/gateway/discovery.ts) writes it into provider_models.          *)
(*                                                                         *)
(* A provider's own words win; models.dev, read over the network and kept  *)
(* in memory, answers for the rest: by the provider's host, else by a vote *)
(* among every provider that lists the id.                                 *)
(***************************************************************************)
EXTENDS Integers, FiniteSets

CONSTANTS
  Documents,    \* what models.dev may serve
  Offers,       \* the provider's models, as its own listing describes them
  Bare,         \* an id without vendor prefix, namespace, release date and tag
  Unsaid,       \* null: not stated, or not loaded
  INDEX_TTL_MS,
  Discoveries,  \* passes and single refreshes that may overlap
  MaxTime,      \* bound on the model's clock
  MaxRestarts   \* bound on restarts of the gateway

IsList(list) == DOMAIN list \subseteq Nat /\ IsFiniteSet(DOMAIN list)

\* Two entries of a list change places.
Swapped(s, i, j) == [p \in DOMAIN s |-> IF p = i THEN s[j] ELSE IF p = j THEN s[i] ELSE s[p]]

Modality == {"text", "image", "audio", "video", "pdf"}

Flag == BOOLEAN \cup {Unsaid}

Capability == [input : SUBSET Modality, output : SUBSET Modality, tool_call : Flag,
               attachment : Flag, source : {"upstream", "models.dev", "models.dev-nearest"}]

\* A document lists providers and their models, with flags; null is none of the things that
\* may be there instead of it.
ASSUME CapabilitiesAssumption ==
  /\ INDEX_TTL_MS \in Nat /\ MaxTime \in Nat /\ MaxRestarts \in Nat
  /\ \A document \in Documents :
       /\ IsList(document)
       /\ \A p \in DOMAIN document :
            /\ IsList(document[p].models)
            /\ \A k \in DOMAIN document[p].models :
                 /\ document[p].models[k].tool_call \in Flag
                 /\ document[p].models[k].attachment \in Flag
       /\ \A i, j \in DOMAIN document : Swapped(document, i, j) # Unsaid
  /\ Unsaid \notin Documents \cup [document : Documents, at : Nat] \cup Capability

\* Of several places in a list the first.
Foremost(places) == CHOOSE k \in places : \A j \in places : k <= j

----------------------------------------------------------------------------
\* Tier 1: what the provider's listing says of the model.

\* A word outside the vocabulary is dropped, and the same modality counts once.
toModality(word) == IF word = "file" THEN "pdf" ELSE word

modalityList(words) == {toModality(w) : w \in words} \cap Modality

\* The first of the places for a list that is there at all; then OpenRouter's compact
\* form, if that list named nothing known.
Listed(places, compact) ==
  LET present == {k \in DOMAIN places : places[k] # Unsaid}
      list == IF present = {} THEN {} ELSE modalityList(places[Foremost(present)])
  IN  IF list # {} THEN list ELSE IF compact = Unsaid THEN {} ELSE compact

\* One flat flag stands for a list of inputs.
reportedCapabilities(entry) ==
  LET in  == Listed(entry.input, entry.compactIn)
      out == Listed(entry.output, entry.compactOut)
      reported ==
        [input  |-> IF in # {} THEN in
                    ELSE IF entry.supports_images = TRUE THEN {"text", "image"} ELSE {},
         output |-> out, tool_call |-> entry.tool_call, attachment |-> entry.attachment]
  IN  IF reported.input = {} /\ reported.output = {} /\ reported.tool_call = Unsaid
         /\ reported.attachment = Unsaid
      THEN Unsaid ELSE reported

TextUnless(words) == IF words = {} THEN {"text"} ELSE words

\* Seeded fault: the compact form's words are kept as they are spelled.
fromReportedAsSpelled(reported) ==
  [input |-> TextUnless(reported.input), output |-> TextUnless(reported.output),
   tool_call |-> reported.tool_call, attachment |-> reported.attachment, source |-> "upstream"]

\* A model that names no input takes text.
fromReported(reported) ==
  [input  |-> TextUnless(modalityList(reported.input)),
   output |-> TextUnless(modalityList(reported.output)),
   tool_call |-> reported.tool_call, attachment |-> reported.attachment, source |-> "upstream"]

----------------------------------------------------------------------------
\* Tiers 2 and 3: models.dev.

\* toCatalogueModel: an entry that names no known input is left out of the index.
Indexed(provider) == {k \in DOMAIN provider.models : modalityList(provider.models[k].input) # {}}

\* Of two providers with one host the first counts.
byHost(document, host) ==
  LET claims == {p \in DOMAIN document : document[p].host = host}
  IN  IF host = Unsaid \/ claims = {} THEN Unsaid ELSE document[Foremost(claims)]

\* The id as it is spelled, or an entry that is the same model.
withinProvider(provider, id) ==
  LET same  == {k \in Indexed(provider) : Bare[provider.models[k].id] = Bare[id]}
      exact == {k \in same : provider.models[k].id = id}
  IN  IF same = {} THEN Unsaid ELSE provider.models[Foremost(IF exact = {} THEN same ELSE exact)]

\* What the provider that the base URL names says of the model.
ownEntry(document, offer) ==
  LET provider == byHost(document, offer.host)
  IN  IF provider = Unsaid THEN Unsaid ELSE withinProvider(provider, offer.id)

\* An entry by its place in the document: its provider's, and its own there.
Entry(document, at) == document[at[1]].models[at[2]]

Places(document) ==
  (DOMAIN document) \X UNION {DOMAIN document[p].models : p \in DOMAIN document}

Ahead(at, other) == at[1] < other[1] \/ (at[1] = other[1] /\ at[2] <= other[2])

\* Every provider that lists the id has a vote for each entry of it.
byId(document, id) ==
  {at \in Places(document) : /\ at[2] \in Indexed(document[at[1]])
                             /\ Bare[Entry(document, at).id] = Bare[id]}

\* What two entries must share to vote together.
Ballot(entry) == <<modalityList(entry.input), modalityList(entry.output), entry.tool_call>>

Votes(document, voters, ballot) ==
  Cardinality({at \in voters : Ballot(Entry(document, at)) = ballot})

\* Most votes; of equals, the entry that was seen first.
nearest(document, voters) ==
  LET n(at) == Votes(document, voters, Ballot(Entry(document, at)))
  IN  Entry(document, CHOOSE at \in voters :
        \A other \in voters : n(other) < n(at) \/ (n(other) = n(at) /\ Ahead(at, other)))

fromCatalogue(entry, source) ==
  [input |-> modalityList(entry.input), output |-> TextUnless(modalityList(entry.output)),
   tool_call |-> entry.tool_call, attachment |-> entry.attachment, source |-> source]

\* Seeded fault: half of the votes are enough.
AmbiguousBelowHalf(document, voters) ==
  Votes(document, voters, Ballot(nearest(document, voters))) * 2 < Cardinality(voters)

\* A vote that less than a majority agrees on says nothing.
Ambiguous(document, voters) ==
  /\ \E at, other \in voters : Ballot(Entry(document, at)) # Ballot(Entry(document, other))
  /\ Votes(document, voters, Ballot(nearest(document, voters))) * 2 <= Cardinality(voters)

Or(value, other) == IF value = Unsaid THEN other ELSE value

\* The tiers in their order; a limit the provider stated always stands.
resolveModel(document, offer) ==
  LET reported == reportedCapabilities(offer.entry)
      own      == [capabilities |-> Unsaid, context_length |-> offer.context]
      listed   == ownEntry(document, offer)
      voters   == byId(document, offer.id)
      voted    == nearest(document, voters)
      known(capabilities, entry) ==
        [capabilities |-> capabilities, context_length |-> Or(offer.context, entry.context)]
  IN  IF reported # Unsaid THEN [own EXCEPT !.capabilities = fromReported(reported)]
      ELSE IF document = Unsaid THEN own
      ELSE IF listed # Unsaid THEN known(fromCatalogue(listed, "models.dev"), listed)
      ELSE IF voters = {} THEN own
      ELSE known(IF Ambiguous(document, voters) THEN Unsaid
                 ELSE fromCatalogue(voted, "models.dev-nearest"), voted)

\* The column as it is read back: unknown words are dropped, and no input is no claim.
parseStored(column) ==
  IF column = Unsaid \/ modalityList(column.input) = {} THEN Unsaid
  ELSE [column EXCEPT !.input = modalityList(@), !.output = modalityList(@)]

----------------------------------------------------------------------------
\* The index in memory, and the rows written from it.

VARIABLES
  today,       \* Date.now()
  published,      \* what models.dev serves now (external)
  index,       \* cached: the document and when it was read, or Unsaid
  discovery,   \* each discovery: the index it works from
  facts,       \* provider_models: capabilities and limits of each offer
  restarts

capabilityVars == <<today, published, index, discovery, facts, restarts>>

AtRest == [pc |-> "rest", force |-> FALSE, using |-> Unsaid, loaded |-> FALSE]

NoFacts == [capabilities |-> Unsaid, context_length |-> Unsaid]

CapabilitiesInit ==
  /\ today = 0 /\ restarts = 0
  /\ published \in Documents
  /\ index = Unsaid
  /\ discovery = [d \in Discoveries |-> AtRest]
  /\ facts = [o \in Offers |-> NoFacts]

\* cachedIndex: a document that is fresh enough is used as it is.
FreshEnough == index # Unsaid /\ today - index.at < INDEX_TTL_MS

\* discoverAll always fetches (refreshIndex); discoverProvider alone asks the cache.
StartDiscovery(d, force) ==
  /\ discovery[d].pc = "rest"
  /\ discovery' = [discovery EXCEPT ![d] =
       IF ~force /\ FreshEnough
       THEN [pc |-> "listing", force |-> force, using |-> index.document, loaded |-> TRUE]
       ELSE [pc |-> "fetching", force |-> force, using |-> Unsaid, loaded |-> index # Unsaid]]
  /\ UNCHANGED <<today, published, index, facts, restarts>>

\* fetchIndex: the document is stamped when it has arrived.
Fetched(d) ==
  /\ discovery[d].pc = "fetching"
  /\ index' = [document |-> published, at |-> today]
  /\ discovery' = [discovery EXCEPT ![d].pc = "listing", ![d].using = published]
  /\ UNCHANGED <<today, published, facts, restarts>>

\* Seeded fault: a failed fetch is an empty answer.
FallbackNothing == Unsaid

\* What a failed fetch leaves to work with.
Fallback == IF index = Unsaid THEN Unsaid ELSE index.document

NotFetched(d) ==
  /\ discovery[d].pc = "fetching"
  /\ discovery' = [discovery EXCEPT ![d].pc = "listing", ![d].using = Fallback]
  /\ UNCHANGED <<today, published, index, facts, restarts>>

\* The provider lists its models: every row is written from the index of this discovery.
WriteFacts(d) ==
  /\ discovery[d].pc = "listing"
  /\ facts' = [o \in Offers |-> resolveModel(discovery[d].using, o)]
  /\ discovery' = [discovery EXCEPT ![d] = AtRest]
  /\ UNCHANGED <<today, published, index, restarts>>

\* The provider cannot be read: the rows stay.
NoListing(d) ==
  /\ discovery[d].pc = "listing"
  /\ discovery' = [discovery EXCEPT ![d] = AtRest]
  /\ UNCHANGED <<today, published, index, facts, restarts>>

\* The index is in memory only.
ForgetIndex ==
  /\ restarts < MaxRestarts
  /\ restarts' = restarts + 1
  /\ index' = Unsaid
  /\ discovery' = [d \in Discoveries |-> AtRest]
  /\ UNCHANGED <<today, published, facts>>

\* Time passes, and models.dev publishes.
Publish ==
  /\ today < MaxTime
  /\ today' = today + 1
  /\ published' \in Documents
  /\ UNCHANGED <<index, discovery, facts, restarts>>

CapabilitiesNext ==
  \/ \E d \in Discoveries :
       \/ \E force \in BOOLEAN : StartDiscovery(d, force)
       \/ Fetched(d) \/ NotFetched(d) \/ WriteFacts(d) \/ NoListing(d)
  \/ ForgetIndex \/ Publish

CapabilitiesSpec == CapabilitiesInit /\ [][CapabilitiesNext]_capabilityVars

----------------------------------------------------------------------------

\* What was voted on; whether files may be attached is not, the first of the winners says it.
Voted(capabilities) ==
  IF capabilities = Unsaid THEN Unsaid ELSE [capabilities EXCEPT !.attachment = Unsaid]

\* Where the vote decides, what it says does not hang on the order in which models.dev lists
\* its providers (capabilities.ts, nearest and resolveModel).
VoteIgnoresOrder ==
  \A i, j \in DOMAIN published, offer \in Offers :
    LET shuffled == Swapped(published, i, j)
    IN  i < j /\ ownEntry(published, offer) = Unsaid /\ ownEntry(shuffled, offer) = Unsaid =>
          Voted(resolveModel(shuffled, offer).capabilities)
            = Voted(resolveModel(published, offer).capabilities)

\* What discovery stores is what a reader of the row gets back, however the provider spelled it
\* (fromReported, fromCatalogue and parseStored).
StoredReadsBack ==
  \A offer \in Offers : parseStored(facts[offer].capabilities) = facts[offer].capabilities

\* Some document models.dev may serve says nothing of the offer.
Undecided(offer) == \E document \in Documents : resolveModel(document, offer).capabilities = Unsaid

Blanked(offer) == facts[offer].capabilities # Unsaid /\ facts'[offer].capabilities = Unsaid

\* A discovery that begins with a document in memory never turns a capability into an
\* unknown for want of one, whether or not models.dev can be read again (the comment on
\* cached: a refresh that loses data is worse than a stale answer).
KnownStaysKnown ==
  [][\A d \in Discoveries :
       discovery[d].pc = "listing" /\ discovery[d].loaded /\ discovery'[d].pc = "rest"
       => \A offer \in Offers : Blanked(offer) => Undecided(offer)]_capabilityVars

\* What clients are told of a model neither hangs on the order of a document, nor changes on
\* its way through the database, nor is lost when models.dev is (models/capabilities.ts).
CapabilitiesAreKept == []VoteIgnoresOrder /\ []StoredReadsBack /\ KnownStaysKnown
=============================================================================
