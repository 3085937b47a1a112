------------------------------ MODULE ClientKeys ------------------------------
(***************************************************************************)
(* Client keys as operators manage them: the key endpoints of              *)
(* src/src/http/admin/handlers.ts over src/src/db/keys.ts, and the page    *)
(* that calls them (src/web/src/views/Keys.tsx).  A page works from the    *)
(* list it last loaded; the secret is in one answer only.                  *)
(***************************************************************************)
EXTENDS Integers, Sequences

CONSTANTS
  Pages,        \* key pages open on the gateway
  Editing,      \* those of them whose operator opens forms
  ApiKeyIds,       \* keys that may be created
  KeyNames,     \* names an operator gives
  Rpms,       \* what is typed into the rate limit field
  NoApiKey         \* no row, no form, nothing revealed

ASSUME KeysAssumption == Editing \subseteq Pages /\ NoApiKey \notin ApiKeyIds

VARIABLES
  apiKey,       \* the api_keys table
  unused,       \* ids not handed out yet
  page          \* each page: its list, its form, its panel, its request

keyVars == <<apiKey, unused, page>>

Row(name, enabled, limit) == [name |-> name, enabled |-> enabled, rate_limit_rpm |-> limit]

\* Seeded fault: the list carries the secret.
toUnmasked(id, row) == [fields |-> row, secret |-> id]

\* Each key's secret is fresh, so the id stands for it.
toMasked(id, row) == [fields |-> row, secret |-> NoApiKey]

\* Text that is no number, or a negative one, is no limit at all.
Rpm(text) == IF text \in Nat THEN text ELSE 0

EMPTY_KEY == [id |-> NoApiKey, fields |-> Row("", TRUE, 0)]

NotSent == [pc |-> "idle"]

KeysInit ==
  /\ apiKey = [k \in ApiKeyIds |-> NoApiKey]
  /\ unused = ApiKeyIds
  /\ page = [p \in Pages |-> [listed |-> [k \in {} |-> NoApiKey], form |-> NoApiKey,
                              revealed |-> NoApiKey, request |-> NotSent]]

Kept == {k \in ApiKeyIds : apiKey[k] # NoApiKey}

LoadKeys(p) ==
  /\ page' = [page EXCEPT ![p].listed = [k \in Kept |-> toMasked(k, apiKey[k])]]
  /\ UNCHANGED <<apiKey, unused>>

OpenKeyForm(p) ==
  /\ p \in Editing /\ page[p].form = NoApiKey
  /\ \E draft \in {EMPTY_KEY}
         \cup {[id |-> k, fields |-> page[p].listed[k].fields] : k \in DOMAIN page[p].listed} :
       page' = [page EXCEPT ![p].form = draft]
  /\ UNCHANGED <<apiKey, unused>>

\* The form's own switch adds nothing to the switch of the row.
TypeKey(p) ==
  /\ page[p].form # NoApiKey
  /\ \/ \E name \in KeyNames : page' = [page EXCEPT ![p].form.fields.name = name]
     \/ \E text \in Rpms : page' = [page EXCEPT ![p].form.fields.rate_limit_rpm = Rpm(text)]
  /\ UNCHANGED <<apiKey, unused>>

CloseKeyForm(p) ==
  /\ page[p].form # NoApiKey
  /\ page' = [page EXCEPT ![p].form = NoApiKey]
  /\ UNCHANGED <<apiKey, unused>>

Asks(p, request) ==
  /\ page[p].request.pc = "idle"
  /\ page' = [page EXCEPT ![p].request = request]
  /\ UNCHANGED <<apiKey, unused>>

\* A key without a name is not sent.
SaveKey(p) ==
  LET form == page[p].form
  IN  /\ form # NoApiKey /\ form.fields.name # ""
      /\ Asks(p, [pc |-> "asked", id |-> form.id, patch |-> form.fields, from |-> "form"])

\* Seeded fault: the switch sends the row as this page knows it.
TogglesRow(row) == [row EXCEPT !.enabled = ~@]

\* The switch sends the name it shows and the new state, and nothing else.
Toggles(row) == [name |-> row.name, enabled |-> ~row.enabled]

ToggleKey(p) ==
  /\ page[p].form = NoApiKey
  /\ \E k \in DOMAIN page[p].listed :
       Asks(p, [pc |-> "asked", id |-> k, patch |-> Toggles(page[p].listed[k].fields),
                from |-> "switch"])

\* createKey and updateKey: a patch replaces the columns it names.
Updated(row, patch) ==
  [column \in DOMAIN row |-> IF column \in DOMAIN patch THEN patch[column] ELSE row[column]]

\* The answer: a saved form closes, and a secret stays on the page until dismissed.
Answers(p, saved, secret) ==
  LET closes == saved /\ page[p].request.from = "form"
  IN  page' = [page EXCEPT ![p].request = NotSent,
                           ![p].form = IF closes THEN NoApiKey ELSE @,
                           ![p].revealed = IF closes /\ secret # NoApiKey THEN secret ELSE @]

keyCreate(p) ==
  /\ page[p].request.pc = "asked" /\ page[p].request.id = NoApiKey
  /\ \E k \in unused :
       /\ unused' = unused \ {k}
       /\ apiKey' = [apiKey EXCEPT ![k] = page[p].request.patch]
       /\ Answers(p, TRUE, k)

\* A key that is gone is a 404, and the answer to an update carries no secret.
keyUpdate(p) ==
  LET request == page[p].request
  IN  /\ request.pc = "asked" /\ request.id # NoApiKey
      /\ IF apiKey[request.id] = NoApiKey
         THEN Answers(p, FALSE, NoApiKey) /\ UNCHANGED apiKey
         ELSE /\ apiKey' = [apiKey EXCEPT ![request.id] = Updated(@, request.patch)]
              /\ Answers(p, TRUE, toMasked(request.id, apiKey[request.id]).secret)
      /\ UNCHANGED unused

Dismiss(p) ==
  /\ page[p].revealed # NoApiKey
  /\ page' = [page EXCEPT ![p].revealed = NoApiKey]
  /\ UNCHANGED <<apiKey, unused>>

keyDelete(p) ==
  /\ page[p].form = NoApiKey
  /\ \E k \in DOMAIN page[p].listed : apiKey' = [apiKey EXCEPT ![k] = NoApiKey]
  /\ UNCHANGED <<unused, page>>

KeysNext ==
  \E p \in Pages :
    \/ LoadKeys(p) \/ OpenKeyForm(p) \/ TypeKey(p) \/ CloseKeyForm(p)
    \/ SaveKey(p) \/ ToggleKey(p) \/ keyCreate(p) \/ keyUpdate(p)
    \/ Dismiss(p) \/ keyDelete(p)

KeysSpec == KeysInit /\ [][KeysNext]_keyVars

----------------------------------------------------------------------------

\* However old the page, its switch never puts back a limit that another page has changed
\* since (Keys.tsx, toggleEnabled; db/keys.ts, updateKey).
SwitchKeepsLimit ==
  [][\A k \in ApiKeyIds :
       /\ apiKey[k] # NoApiKey /\ apiKey'[k] # NoApiKey
       /\ apiKey'[k].rate_limit_rpm # apiKey[k].rate_limit_rpm
       => \E p \in Pages :
            /\ page[p].request.pc = "asked" /\ page'[p].request.pc = "idle"
            /\ page[p].request.from = "form" /\ page[p].request.id = k
    ]_keyVars

\* A secret leaves the gateway once, in the answer to its creation: no list holds one, and no
\* page shows the secret of a key that it did not just create (keyCreate, toMaskedKey).
SecretToldOnce ==
  \A p \in Pages :
    /\ \A k \in DOMAIN page[p].listed : page[p].listed[k].secret = NoApiKey
    /\ page[p].revealed # NoApiKey => p \in Editing /\ page[p].revealed \notin unused

\* A client key's secret is told once, and its switch does not undo an edit (Keys.tsx;
\* keyCreate and keyUpdate of admin/handlers.ts).
KeysAreKept == []SecretToldOnce /\ SwitchKeepsLimit
=============================================================================
