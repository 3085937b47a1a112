-------------------------------- MODULE Console --------------------------------
(***************************************************************************)
(* Providers as the dashboard edits them: the provider endpoints of        *)
(* src/src/http/admin/handlers.ts over src/src/db/providers.ts, and the    *)
(* page that calls them (src/web/src/views/Providers.tsx, lib/forms.ts).   *)
(*                                                                         *)
(* Credentials are shown masked and come back masked: the handler reads    *)
(* the stored row to tell an untouched credential from a new one, and      *)
(* writes in another step.  A tab edits the copy it last loaded.           *)
(***************************************************************************)
EXTENDS Integers, Sequences, SequencesExt, FiniteSets

CONSTANTS
  Dashboards,  \* pages open on the gateway
  Scripts,     \* API clients that put back what they were given
  Ids,         \* provider ids the database hands out
  Names,       \* header names that carry a credential; all spellings of one name are one
  Secrets,     \* credentials an operator may type, each longer than a mask
  Prefix,      \* what a mask shows of a secret; two secrets may share it
  Configured,  \* rows the table may hold to begin with
  Nothing,     \* no provider, no form, no field in a patch
  MaxWrites,   \* bound on the writes to one provider, its creation one of them
  MaxDraftEdits     \* bound on the edits of one form

VARIABLES
  provider,    \* the providers table: a row, or Nothing
  fresh,       \* ids not handed out yet
  tab          \* each dashboard: what it shows, its form, its request

consoleVars == <<provider, fresh, tab>>

Values == Secrets \cup {Prefix[s] : s \in Secrets} \cup {"", "..."}

HeaderMaps == UNION {[names -> Values] : names \in SUBSET Names}

Provider == [key : Values, headers : HeaderMaps, enabled : BOOLEAN, revision : Nat]

\* A mask is shorter than any credential, and what carries one has a name.
ASSUME ConsoleAssumption ==
  /\ Prefix \in [Secrets -> STRING] /\ MaxWrites \in Nat /\ MaxDraftEdits \in Nat
  /\ \A s \in Secrets : Prefix[s] \notin Secrets /\ s \notin {"", "..."}
  /\ IsFiniteSet(Names) /\ "" \notin Names /\ Nothing \notin Ids
  /\ Configured \subseteq Provider

\* `revision' counts the writes to a row; the code has no such column.
Fields(row) == [key |-> row.key, headers |-> row.headers, enabled |-> row.enabled]

\* A short value is masked whole, and a mask is a short value.
maskApiKey(value) ==
  IF value = "" THEN "" ELSE IF value \in Secrets THEN Prefix[value] ELSE "..."

\* Seeded fault: only the key is masked.
maskNoHeaders(headers) == headers

maskHeaders(headers) == [n \in DOMAIN headers |-> maskApiKey(headers[n])]

toMaskedProvider(row) ==
  [row EXCEPT !.key = maskApiKey(@), !.headers = maskHeaders(@)]

\* Seeded fault: masked headers are written through.
keepHeaders(incoming, stored) == incoming

\* A value that is the mask of the stored one is the stored one.
unmaskUnchangedHeaders(incoming, stored) ==
  [n \in DOMAIN incoming |->
     IF n \in DOMAIN stored /\ incoming[n] = maskApiKey(stored[n]) THEN stored[n]
     ELSE incoming[n]]

\* The patch as the handler completes it from the row it has just read.
Restored(patch, existing) ==
  IF existing = Nothing THEN patch
  ELSE [patch EXCEPT
          !.headers = IF @ = Nothing THEN @ ELSE unmaskUnchangedHeaders(@, existing.headers),
          !.key = IF @ # Nothing /\ @ = maskApiKey(existing.key) THEN existing.key ELSE @]

Default(field, value) == IF field = Nothing THEN value ELSE field

\* updateProvider: a field the patch does not carry keeps its value.
Patched(row, patch) ==
  [key |-> Default(patch.key, row.key), headers |-> Default(patch.headers, row.headers),
   enabled |-> Default(patch.enabled, row.enabled),
   revision |-> IF patch = [f \in DOMAIN patch |-> Nothing] THEN row.revision
                ELSE row.revision + 1]

Tabs == Dashboards \cup Scripts

----------------------------------------------------------------------------
\* The form.

toPairs(headers) ==
  LET names == SetToSeq(DOMAIN headers)
  IN  [i \in DOMAIN names |-> [name |-> names[i], value |-> headers[names[i]]]]

\* A row without a name is dropped; of two rows with one name the later wins.
fromPairs(rows) ==
  [n \in {rows[i].name : i \in DOMAIN rows} \ {""} |->
     rows[CHOOSE i \in DOMAIN rows :
            rows[i].name = n /\ \A j \in DOMAIN rows : rows[j].name = n => j <= i].value]

\* The key field starts empty: what is stored is only hinted at.
providerToDraft(id, row) ==
  [id |-> id, key |-> "", touched |-> FALSE, rows |-> toPairs(row.headers),
   enabled |-> row.enabled, edits |-> 0, revision |-> row.revision]

EMPTY_PROVIDER ==
  [id |-> Nothing, key |-> "", touched |-> FALSE, rows |-> <<>>,
   enabled |-> TRUE, edits |-> 0, revision |-> 0]

\* Seeded fault: an empty key field is sent as well.
draftToInputWhole(form) ==
  [key |-> form.key, headers |-> fromPairs(form.rows), enabled |-> form.enabled]

draftToInput(form) ==
  [key |-> IF form.touched /\ form.key # "" THEN form.key ELSE Nothing,
   headers |-> fromPairs(form.rows), enabled |-> form.enabled]

\* What one gesture can do to the header rows, and to a form.
EditedRows(rows) ==
  {Append(rows, pair) : pair \in [name : Names, value : Secrets]}
  \cup (UNION {{[rows EXCEPT ![i].name = n] : n \in Names \cup {""}} : i \in DOMAIN rows})
  \cup (UNION {{[rows EXCEPT ![i].value = v] : v \in Secrets \cup {""}} : i \in DOMAIN rows})
  \cup {RemoveAt(rows, i) : i \in DOMAIN rows}

Edits(form) ==
  {[form EXCEPT !.key = k, !.touched = TRUE] : k \in Secrets \cup {""}}
  \cup {[form EXCEPT !.rows = rows] : rows \in EditedRows(form.rows)}

----------------------------------------------------------------------------

Quiet == [pc |-> "idle"]

Over(outcome, from) == [pc |-> outcome, from |-> from]

Sent(id, from, patch, edits, revision) ==
  [pc |-> IF id = Nothing THEN "creating" ELSE "sent", id |-> id, from |-> from, patch |-> patch,
   existing |-> Nothing, edits |-> edits, revision |-> revision]

Closed == [cached |-> Nothing, failed |-> FALSE, editing |-> Nothing, form |-> Nothing,
           request |-> Quiet]

\* One provider may be configured, with its credential in the key or in a header.
ConsoleInit ==
  /\ \/ fresh = Ids /\ provider = [i \in Ids |-> Nothing]
     \/ \E id \in Ids, row \in Configured :
          /\ fresh = Ids \ {id}
          /\ provider = [i \in Ids |-> IF i = id THEN row ELSE Nothing]
  /\ tab = [t \in Tabs |-> Closed]

Existing == {id \in Ids : provider[id] # Nothing}

\* Bound: once a provider has been written MaxWrites times, nothing more is begun on it.
Writable(id) == provider[id] # Nothing => provider[id].revision < MaxWrites

Listed(t) == {id \in DOMAIN tab[t].cached : Writable(id)}

Visible(t) == tab[t].cached # Nothing /\ ~tab[t].failed

\* GET /config arrives.  A form that an error had unmounted comes back as it was opened.
Load(t) ==
  /\ tab' = [tab EXCEPT
       ![t].cached = [id \in Existing |-> toMaskedProvider(provider[id])],
       ![t].failed = FALSE,
       ![t].form = IF @ = Nothing /\ tab[t].editing # Nothing
                   THEN tab[t].editing ELSE @]
  /\ UNCHANGED <<provider, fresh>>

\* A refetch fails: the page shows the error in place of everything, the open form included.
LoadFails(t) ==
  /\ tab[t].cached # Nothing
  /\ tab' = [tab EXCEPT ![t].failed = TRUE, ![t].form = Nothing]
  /\ UNCHANGED <<provider, fresh>>

OpenForm(t) ==
  /\ Visible(t) /\ tab[t].form = Nothing
  /\ \E draft \in {EMPTY_PROVIDER}
         \cup {providerToDraft(id, tab[t].cached[id]) : id \in Listed(t)} :
       tab' = [tab EXCEPT ![t].editing = draft, ![t].form = draft]
  /\ UNCHANGED <<provider, fresh>>

CloseForm(t) ==
  /\ tab[t].form # Nothing
  /\ tab' = [tab EXCEPT ![t].editing = Nothing, ![t].form = Nothing]
  /\ UNCHANGED <<provider, fresh>>

Type(t) ==
  /\ tab[t].form # Nothing /\ tab[t].form.edits < MaxDraftEdits
  /\ tab[t].form.id # Nothing => Writable(tab[t].form.id)
  /\ \E form \in Edits(tab[t].form) :
       tab' = [tab EXCEPT ![t].form = [form EXCEPT !.edits = @ + 1]]
  /\ UNCHANGED <<provider, fresh>>

Sends(t, request) ==
  /\ tab[t].request.pc = "idle"
  /\ tab' = [tab EXCEPT ![t].request = request]
  /\ UNCHANGED <<provider, fresh>>

\* A new provider needs a key; an edited one may leave it alone.
Save(t) ==
  LET form == tab[t].form
  IN  /\ form # Nothing
      /\ IF form.id = Nothing THEN draftToInput(form).key # Nothing ELSE Writable(form.id)
      /\ Sends(t, Sent(form.id, "form", draftToInput(form), form.edits, form.revision))

\* The switch of a row sends one field.
Toggle(t) ==
  \E id \in IF Visible(t) /\ tab[t].form = Nothing THEN Listed(t) ELSE {} :
    Sends(t, Sent(id, "row", [key |-> Nothing, headers |-> Nothing,
                              enabled |-> ~tab[t].cached[id].enabled], 0, 0))

\* An API client gets a provider and puts back what it was given, masks included.
RoundTrip(t) ==
  \E id \in {i \in Existing : Writable(i)} :
    Sends(t, Sent(id, "script", Fields(toMaskedProvider(provider[id])), 0, provider[id].revision))

\* The new row takes a fresh id.
providerCreate(t) ==
  /\ tab[t].request.pc = "creating"
  /\ \E id \in fresh :
       /\ provider' = [provider EXCEPT ![id] =
            [key |-> Default(tab[t].request.patch.key, ""), headers |-> tab[t].request.patch.headers,
             enabled |-> tab[t].request.patch.enabled, revision |-> 1]]
       /\ fresh' = fresh \ {id}
  /\ tab' = [tab EXCEPT ![t].request = Over("saved", "form")]

\* providerUpdate, up to the read of the stored row ...
ReadExisting(t) ==
  /\ tab[t].request.pc = "sent"
  /\ tab' = [tab EXCEPT ![t].request.pc = "read",
                        ![t].request.existing = provider[tab[t].request.id]]
  /\ UNCHANGED <<provider, fresh>>

\* ... and from there: the row may have changed, or be gone, which is a 404.
providerUpdate(t) ==
  LET request == tab[t].request
  IN  /\ request.pc = "read"
      /\ IF provider[request.id] = Nothing
         THEN /\ tab' = [tab EXCEPT ![t].request = Over("refused", request.from)]
              /\ UNCHANGED provider
         ELSE /\ provider[request.id].revision < MaxWrites
              /\ provider' = [provider EXCEPT ![request.id] =
                                Patched(@, Restored(request.patch, request.existing))]
              /\ tab' = [tab EXCEPT ![t].request = Over("saved", request.from)]
      /\ UNCHANGED fresh

\* A saved form closes, wherever the page has got to; a refused one stays with its error.
Answered(t) ==
  /\ tab[t].request.pc \in {"saved", "refused"}
  /\ tab' = [tab EXCEPT
       ![t].request = Quiet,
       ![t].editing = IF tab[t].request.pc = "saved" /\ tab[t].request.from = "form"
                      THEN Nothing ELSE @,
       ![t].form = IF tab[t].request.pc = "saved" /\ tab[t].request.from = "form"
                   THEN Nothing ELSE @]
  /\ UNCHANGED <<provider, fresh>>

providerDelete(t) ==
  \E id \in IF Visible(t) /\ tab[t].form = Nothing THEN DOMAIN tab[t].cached ELSE {} :
    /\ provider' = [provider EXCEPT ![id] = Nothing]
    /\ UNCHANGED <<fresh, tab>>

ConsoleNext ==
  \/ \E t \in Dashboards :
       \/ Load(t) \/ LoadFails(t) \/ OpenForm(t) \/ CloseForm(t) \/ Type(t)
       \/ Save(t) \/ Toggle(t) \/ providerDelete(t)
  \/ \E t \in Scripts : RoundTrip(t)
  \/ \E t \in Tabs :
       providerCreate(t) \/ ReadExisting(t) \/ providerUpdate(t) \/ Answered(t)

ConsoleSpec == ConsoleInit /\ [][ConsoleNext]_consoleVars

----------------------------------------------------------------------------

\* The write a step makes for the request of t.
Writes(t) ==
  tab[t].request.pc = "read" /\ tab'[t].request.pc = "saved"

\* Saving what was shown, with nobody's write in between, changes no credential: not the
\* key, not a header, whichever of them a form or an API client sends back masked
\* (admin/handlers.ts, providerUpdate).
RoundTripKeepsSecrets ==
  [][\A t \in Tabs :
       LET request == tab[t].request
       IN  /\ Writes(t) /\ request.edits = 0
           /\ request.revision = provider[request.id].revision
           => /\ provider'[request.id].key = provider[request.id].key
              /\ provider'[request.id].headers = provider[request.id].headers
    ]_consoleVars

\* However stale the form, and whatever was saved since it was loaded, saving it leaves the
\* stored key alone or replaces it by one that was typed; it never empties it, and never stores a mask (forms.ts, draftToInput).
FormKeepsKey ==
  [][\A t \in Tabs :
       Writes(t) /\ tab[t].request.from = "form"
       => provider'[tab[t].request.id].key \in {provider[tab[t].request.id].key} \cup Secrets
    ]_consoleVars

\* No tab is shown a stored credential, in the key or in a header (toMaskedProvider).
SecretsStayInside ==
  \A t \in Tabs :
    tab[t].cached # Nothing =>
      \A id \in DOMAIN tab[t].cached :
        /\ tab[t].cached[id].key \notin Secrets
        /\ \A n \in DOMAIN tab[t].cached[id].headers : tab[t].cached[id].headers[n] \notin Secrets

\* A provider's credentials are never shown, and no save loses or replaces one unasked
\* (admin/handlers.ts, providerUpdate and the masks around it).
CredentialsAreKept == []SecretsStayInside /\ RoundTripKeepsSecrets /\ FormKeepsKey
=============================================================================
