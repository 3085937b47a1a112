-------------------------- MODULE DashboardTheorems --------------------------
(***************************************************************************)
(* What the dashboard and its keys promise for any number of pages, calls, *)
(* keys and providers and any windows of history: nobody waits for a       *)
(* dialog that is not open (TokenGate), a key's secret is told once and    *)
(* its limit survives the switch (ClientKeys), the range selector tells    *)
(* the slice (Charts), the limiter lets no more through than it may and    *)
(* turns nobody away unearned (Admission), credentials come back as they   *)
(* were (Console), and the routes page saves what it shows and marks the   *)
(* target that serves (RoutePages).                                        *)
(***************************************************************************)
EXTENDS ClientKeys, TokenGate, Charts, Admission, Console, RoutePages, Foundations, SequenceTheorems

----------------------------------------------------------------------------
(* The token dialog *)

\* The dialog knows who waits for it.
GateInv ==
  /\ call \in [Calls -> [pc : {"settled", "sent", "waiting", "resent"}, token : Tokens \cup {NoToken}]]
  /\ dialog \in [open : BOOLEAN, fromRequest : BOOLEAN, awaiting : SUBSET Calls]
  /\ stored \in Tokens \cup {NoToken}
  /\ WaitersHearTheDialog

\* Every call, reply and gesture keeps it so.
LEMMA GateInvNext == GateInv /\ [GateNext]_gateVars => GateInv'
<1> SUFFICES ASSUME GateInv, [GateNext]_gateVars PROVE GateInv'
  OBVIOUS
<1>1. ASSUME NEW c \in Calls, Send(c) PROVE GateInv'
  BY <1>1 DEF GateInv, Send, Sending, WaitersHearTheDialog
<1>2. ASSUME NEW c \in Calls, Reply(c) PROVE GateInv'
  <2>1. CASE call' = [call EXCEPT ![c] = Settled] /\ UNCHANGED dialog
    BY <1>2, <2>1 DEF GateInv, Reply, Settled, WaitersHearTheDialog
  <2>2. CASE call' = [call EXCEPT ![c].pc = "waiting"] /\ dialog' = openPrompt(c)
    <3>1. call' \in [Calls -> [pc : {"settled", "sent", "waiting", "resent"}, token : Tokens \cup {NoToken}]]
      BY <2>2 DEF GateInv
    <3>2. dialog' \in [open : BOOLEAN, fromRequest : BOOLEAN, awaiting : SUBSET Calls]
      BY <2>2 DEF GateInv, openPrompt
    <3>3. dialog'.open /\ dialog'.fromRequest /\ c \in dialog'.awaiting
          /\ (dialog.open => dialog.awaiting \subseteq dialog'.awaiting)
      BY <2>2 DEF GateInv, openPrompt
    <3>4. WaitersHearTheDialog'
      BY <2>2, <3>3 DEF GateInv, WaitersHearTheDialog
    <3> QED
      BY <1>2, <3>1, <3>2, <3>4 DEF GateInv, Reply
  <2> QED
    BY <1>2, <2>1, <2>2 DEF Reply
<1>3. CASE OpenFromHeader
  BY <1>3 DEF GateInv, OpenFromHeader, Shut, WaitersHearTheDialog
<1>4. ASSUME NEW token \in Tokens \cup {NoToken}, finish(token) PROVE GateInv'
  <2>1. \A c \in Calls : call'[c].pc # "waiting"
    BY <1>4 DEF GateInv, finish, Settled, Sending, WaitersHearTheDialog
  <2>2. call' \in [Calls -> [pc : {"settled", "sent", "waiting", "resent"}, token : Tokens \cup {NoToken}]]
    BY <1>4 DEF GateInv, finish, Settled, Sending
  <2> QED
    BY <1>4, <2>1, <2>2 DEF GateInv, finish, Shut, WaitersHearTheDialog
<1>5. CASE UNCHANGED gateVars
  BY <1>5 DEF GateInv, gateVars, WaitersHearTheDialog
<1> QED
  BY <1>1, <1>2, <1>3, <1>4, <1>5 DEF GateNext, Enters

\* For any number of calls and tokens, a call that waits for a token waits for
\* the dialog that is open (TokenDialog.tsx, openPrompt).
THEOREM WaitersAreHeard == GateSpec => []WaitersHearTheDialog
<1>1. GateInit => GateInv
  BY DEF GateInit, GateInv, Settled, Shut, WaitersHearTheDialog
<1>2. GateInv => WaitersHearTheDialog
  BY DEF GateInv
<1> QED
  BY <1>1, <1>2, GateInvNext, PTL DEF GateSpec

----------------------------------------------------------------------------
(* Client keys *)

\* What the lists, the forms and the requests of the key pages hold.
Columns == {"name", "enabled", "rate_limit_rpm"}

RowsInv ==
  /\ DOMAIN apiKey = ApiKeyIds
  /\ apiKey = [k \in ApiKeyIds |-> apiKey[k]]
  /\ \A k \in ApiKeyIds : apiKey[k] # NoApiKey => DOMAIN apiKey[k] = Columns
  /\ unused \subseteq ApiKeyIds /\ \A k \in unused : apiKey[k] = NoApiKey

ListInv(list) ==
  /\ DOMAIN list \subseteq ApiKeyIds
  /\ \A k \in DOMAIN list : list[k].secret = NoApiKey /\ DOMAIN list[k].fields = Columns

\* Whoever has a form open edits, and the form is a whole row.
FormInv(p, form) ==
  form # NoApiKey =>
    /\ p \in Editing /\ DOMAIN form = {"id", "fields"}
    /\ form.id \in ApiKeyIds \cup {NoApiKey} /\ DOMAIN form.fields = Columns

\* A request from a form carries a whole row, one from the switch no limit.
RequestInv(p, request) ==
  request.pc = "asked" =>
    \/ /\ request.from = "form" /\ p \in Editing
       /\ request.id \in ApiKeyIds \cup {NoApiKey} /\ DOMAIN request.patch = Columns
    \/ /\ request.from = "switch"
       /\ request.id \in ApiKeyIds /\ DOMAIN request.patch = {"name", "enabled"}

RevealInv(p, revealed) == revealed # NoApiKey => p \in Editing /\ revealed \notin unused

PageInv(p) ==
  /\ DOMAIN page[p] = {"listed", "form", "revealed", "request"}
  /\ ListInv(page[p].listed) /\ FormInv(p, page[p].form)
  /\ RequestInv(p, page[p].request) /\ RevealInv(p, page[p].revealed)

KeysInv ==
  /\ RowsInv /\ DOMAIN page = Pages /\ page = [p \in Pages |-> page[p]]
  /\ \A p \in Pages : PageInv(p)

\* Pages open with nothing in hand.
LEMMA KeysInvInit == KeysInit => KeysInv
<1> SUFFICES ASSUME KeysInit PROVE KeysInv
  OBVIOUS
<1>1. RowsInv
  BY DEF KeysInit, RowsInv
<1>2. ASSUME NEW p \in Pages PROVE PageInv(p)
  BY DEF KeysInit, PageInv, ListInv, FormInv, RequestInv, RevealInv, NotSent
<1>3. DOMAIN page = Pages /\ page = [p \in Pages |-> page[p]]
  BY DEF KeysInit
<1> QED
  BY <1>1, <1>2, <1>3 DEF KeysInv

\* A step that gives one page new fields, each of them in order, and takes at
\* most ids out of the unused ones.
LEMMA OnePage ==
  ASSUME KeysInv, RowsInv', NEW p \in Pages, NEW new, page' = [page EXCEPT ![p] = new],
         unused' \subseteq unused,
         DOMAIN new = {"listed", "form", "revealed", "request"},
         ListInv(new.listed), FormInv(p, new.form), RequestInv(p, new.request),
         new.revealed # NoApiKey => p \in Editing /\ new.revealed \notin unused'
  PROVE  KeysInv'
<1>1. ASSUME NEW q \in Pages, q # p PROVE PageInv(q)'
  <2>1. page'[q] = page[q] /\ PageInv(q)
    BY <1>1 DEF KeysInv
  <2> QED
    BY <2>1 DEF PageInv, ListInv, FormInv, RequestInv, RevealInv
<1>2. page'[p] = new
  BY DEF KeysInv
<1>3. PageInv(p)'
  BY <1>2 DEF PageInv, ListInv, FormInv, RequestInv, RevealInv
<1>4. DOMAIN page' = Pages /\ page' = [q \in Pages |-> page'[q]]
  BY DEF KeysInv
<1> QED
  BY <1>1, <1>3, <1>4 DEF KeysInv

\* Every gesture and every answer keeps the pages typed and the secrets where they belong.
LEMMA KeysInvNext == KeysInv /\ [KeysNext]_keyVars => KeysInv'
<1> SUFFICES ASSUME KeysInv, [KeysNext]_keyVars PROVE KeysInv'
  OBVIOUS
<1>0. CASE UNCHANGED keyVars
  <2>1. apiKey' = apiKey /\ unused' = unused /\ page' = page
    BY <1>0 DEF keyVars
  <2>2. RowsInv' /\ DOMAIN page' = Pages /\ page' = [q \in Pages |-> page'[q]]
    BY <2>1 DEF KeysInv, RowsInv
  <2>3. ASSUME NEW p \in Pages PROVE PageInv(p)'
    <3>1. PageInv(p)
      BY DEF KeysInv
    <3> QED
      BY <2>1, <3>1 DEF PageInv, ListInv, FormInv, RequestInv, RevealInv
  <2> QED
    BY <2>2, <2>3 DEF KeysInv
<1> SUFFICES ASSUME NEW p \in Pages,
                    \/ LoadKeys(p) \/ OpenKeyForm(p) \/ TypeKey(p) \/ CloseKeyForm(p)
                    \/ SaveKey(p) \/ ToggleKey(p) \/ keyCreate(p) \/ keyUpdate(p)
                    \/ Dismiss(p) \/ keyDelete(p)
             PROVE  KeysInv'
  BY <1>0 DEF KeysNext
<1>1. PageInv(p) /\ RowsInv
  BY DEF KeysInv
<1>2. UNCHANGED <<apiKey, unused>> => RowsInv' /\ unused' \subseteq unused
  BY <1>1 DEF RowsInv
<1>3. CASE LoadKeys(p)
  <2> DEFINE loaded == [k \in Kept |-> toMasked(k, apiKey[k])]
             new == [page[p] EXCEPT !.listed = loaded]
  <2>1. ListInv(loaded)
    BY <1>1 DEF RowsInv, ListInv, Kept, toMasked
  <2>2. page' = [page EXCEPT ![p] = new]
    BY <1>3 DEF LoadKeys
  <2>3. /\ DOMAIN new = {"listed", "form", "revealed", "request"} /\ new.listed = loaded
        /\ new.form = page[p].form /\ new.request = page[p].request
        /\ new.revealed = page[p].revealed
    BY <1>1 DEF PageInv
  <2>4. UNCHANGED <<apiKey, unused>>
    BY <1>3 DEF LoadKeys
  <2> HIDE DEF new, loaded
  <2> QED
    BY <1>1, <1>2, <2>1, <2>2, <2>3, <2>4, OnePage DEF PageInv, RevealInv
<1>4. ASSUME NEW form, page' = [page EXCEPT ![p].form = form], FormInv(p, form),
             UNCHANGED <<apiKey, unused>>
      PROVE  KeysInv'
  <2> DEFINE new == [page[p] EXCEPT !.form = form]
  <2>1. page' = [page EXCEPT ![p] = new]
    BY <1>4
  <2>2. /\ DOMAIN new = {"listed", "form", "revealed", "request"} /\ new.form = form
        /\ new.listed = page[p].listed /\ new.request = page[p].request
        /\ new.revealed = page[p].revealed
    BY <1>1 DEF PageInv
  <2> HIDE DEF new
  <2> QED
    BY <1>1, <1>2, <1>4, <2>1, <2>2, OnePage DEF PageInv, RevealInv
<1>5. CASE OpenKeyForm(p)
  <2>1. PICK draft \in {EMPTY_KEY}
          \cup {[id |-> k, fields |-> page[p].listed[k].fields] : k \in DOMAIN page[p].listed} :
          page' = [page EXCEPT ![p].form = draft]
    BY <1>5 DEF OpenKeyForm
  <2>2. FormInv(p, draft)
    <3>1. p \in Editing
      BY <1>5 DEF OpenKeyForm
    <3>2. CASE draft = EMPTY_KEY
      <4>1. DOMAIN draft = {"id", "fields"} /\ draft.id = NoApiKey /\ DOMAIN draft.fields = Columns
        BY <3>2 DEF EMPTY_KEY, Row, Columns
      <4> QED
        BY <3>1, <4>1 DEF FormInv
    <3>3. ASSUME NEW k \in DOMAIN page[p].listed,
                 draft = [id |-> k, fields |-> page[p].listed[k].fields]
          PROVE  FormInv(p, draft)
      BY <1>1, <3>1, <3>3 DEF FormInv, PageInv, ListInv
    <3> QED
      BY <2>1, <3>2, <3>3
  <2> QED
    BY <1>4, <1>5, <2>1, <2>2 DEF OpenKeyForm
<1>6. CASE TypeKey(p)
  <2>1. FormInv(p, page[p].form) /\ page[p].form # NoApiKey
    BY <1>1, <1>6 DEF PageInv, TypeKey
  <2>2. ASSUME NEW column \in Columns, NEW value
        PROVE  FormInv(p, [page[p].form EXCEPT !.fields = [@ EXCEPT ![column] = value]])
    BY <2>1 DEF FormInv
  <2>3. CASE \E name \in KeyNames : page' = [page EXCEPT ![p].form.fields.name = name]
    <3>1. PICK name \in KeyNames : page' = [page EXCEPT ![p].form.fields.name = name]
      BY <2>3
    <3>2. FormInv(p, [page[p].form EXCEPT !.fields = [@ EXCEPT !["name"] = name]])
      BY <2>2 DEF Columns
    <3>3. page' = [page EXCEPT ![p].form = [page[p].form EXCEPT !.fields = [@ EXCEPT !["name"] = name]]]
      BY <3>1
    <3> QED
      BY <1>4, <1>6, <3>2, <3>3 DEF TypeKey
  <2>4. CASE \E text \in Rpms : page' = [page EXCEPT ![p].form.fields.rate_limit_rpm = Rpm(text)]
    <3>1. PICK text \in Rpms : page' = [page EXCEPT ![p].form.fields.rate_limit_rpm = Rpm(text)]
      BY <2>4
    <3>2. FormInv(p, [page[p].form EXCEPT !.fields = [@ EXCEPT !["rate_limit_rpm"] = Rpm(text)]])
      BY <2>2 DEF Columns
    <3>3. page' = [page EXCEPT ![p].form =
                     [page[p].form EXCEPT !.fields = [@ EXCEPT !["rate_limit_rpm"] = Rpm(text)]]]
      BY <3>1
    <3> QED
      BY <1>4, <1>6, <3>2, <3>3 DEF TypeKey
  <2> QED
    BY <1>6, <2>3, <2>4 DEF TypeKey
<1>7. CASE CloseKeyForm(p)
  BY <1>4, <1>7 DEF CloseKeyForm, FormInv
<1>8. ASSUME NEW request, Asks(p, request), RequestInv(p, request) PROVE KeysInv'
  <2> DEFINE new == [page[p] EXCEPT !.request = request]
  <2>1. page' = [page EXCEPT ![p] = new] /\ UNCHANGED <<apiKey, unused>>
    BY <1>8 DEF Asks
  <2>2. /\ DOMAIN new = {"listed", "form", "revealed", "request"} /\ new.request = request
        /\ new.listed = page[p].listed /\ new.form = page[p].form
        /\ new.revealed = page[p].revealed
    BY <1>1 DEF PageInv
  <2> HIDE DEF new
  <2> QED
    BY <1>1, <1>2, <1>8, <2>1, <2>2, OnePage DEF PageInv, RevealInv
<1>9. CASE SaveKey(p)
  <2> DEFINE request == [pc |-> "asked", id |-> page[p].form.id, patch |-> page[p].form.fields,
                         from |-> "form"]
  <2>1. RequestInv(p, request)
    BY <1>1, <1>9 DEF SaveKey, PageInv, FormInv, RequestInv
  <2>2. Asks(p, request)
    BY <1>9 DEF SaveKey
  <2> HIDE DEF request
  <2> QED
    BY <1>8, <2>1, <2>2
<1>10. CASE ToggleKey(p)
  <2>1. PICK k \in DOMAIN page[p].listed :
          Asks(p, [pc |-> "asked", id |-> k, patch |-> Toggles(page[p].listed[k].fields),
                   from |-> "switch"])
    BY <1>10 DEF ToggleKey
  <2> DEFINE request == [pc |-> "asked", id |-> k, patch |-> Toggles(page[p].listed[k].fields),
                         from |-> "switch"]
  <2>2. RequestInv(p, request)
    BY <1>1 DEF PageInv, ListInv, RequestInv, Toggles
  <2>3. Asks(p, request)
    BY <2>1
  <2> HIDE DEF request
  <2> QED
    BY <1>8, <2>2, <2>3
<1>11. ASSUME NEW saved \in BOOLEAN, NEW secret, Answers(p, saved, secret), RowsInv',
              unused' \subseteq unused, page[p].request.pc = "asked",
              secret # NoApiKey => page[p].request.from = "form" /\ p \in Editing /\ secret \notin unused'
       PROVE  KeysInv'
  <2> DEFINE closes == saved /\ page[p].request.from = "form"
             new == [page[p] EXCEPT !.request = NotSent, !.form = IF closes THEN NoApiKey ELSE @,
                                    !.revealed = IF closes /\ secret # NoApiKey THEN secret ELSE @]
  <2>1. page' = [page EXCEPT ![p] = new]
    BY <1>11 DEF Answers
  <2>2. /\ DOMAIN new = {"listed", "form", "revealed", "request"} /\ new.listed = page[p].listed
        /\ new.request = NotSent /\ new.form \in {NoApiKey, page[p].form}
        /\ new.revealed = page[p].revealed \/ (secret # NoApiKey /\ new.revealed = secret)
    BY <1>1 DEF PageInv
  <2> HIDE DEF new
  <2>3. FormInv(p, new.form) /\ RequestInv(p, new.request) /\ ListInv(new.listed)
    BY <1>1, <2>2 DEF PageInv, FormInv, RequestInv, NotSent
  <2>4. new.revealed # NoApiKey => p \in Editing /\ new.revealed \notin unused'
    BY <1>1, <1>11, <2>2 DEF PageInv, RevealInv
  <2> QED
    BY <1>11, <2>1, <2>2, <2>3, <2>4, OnePage
<1>12. CASE keyCreate(p)
  <2>1. PICK k \in unused :
          /\ unused' = unused \ {k}
          /\ apiKey' = [apiKey EXCEPT ![k] = page[p].request.patch]
          /\ Answers(p, TRUE, k)
    BY <1>12 DEF keyCreate
  <2>2. /\ page[p].request.from = "form" /\ p \in Editing
        /\ DOMAIN page[p].request.patch = Columns
    BY <1>1, <1>12, KeysAssumption DEF keyCreate, PageInv, RequestInv
  <2>3. RowsInv'
    BY <1>1, <2>1, <2>2 DEF RowsInv
  <2> QED
    BY <1>11, <1>12, <2>1, <2>2, <2>3 DEF keyCreate
<1>13. CASE keyUpdate(p)
  <2> DEFINE k == page[p].request.id
  <2>1. k \in ApiKeyIds /\ page[p].request.pc = "asked" /\ unused' = unused
    BY <1>1, <1>13 DEF keyUpdate, PageInv, RequestInv
  <2>2. CASE apiKey[k] = NoApiKey
    <3>1. Answers(p, FALSE, NoApiKey) /\ apiKey' = apiKey
      BY <1>13, <2>2 DEF keyUpdate
    <3> QED
      BY <1>2, <1>11, <2>1, <3>1
  <2>3. CASE apiKey[k] # NoApiKey
    <3>1. /\ apiKey' = [apiKey EXCEPT ![k] = Updated(apiKey[k], page[p].request.patch)]
          /\ Answers(p, TRUE, NoApiKey)
      BY <1>13, <2>3 DEF keyUpdate, toMasked
    <3>2. DOMAIN Updated(apiKey[k], page[p].request.patch) = Columns
      BY <1>1, <2>1, <2>3 DEF RowsInv, Updated
    <3>3. RowsInv'
      BY <1>1, <2>1, <2>3, <3>1, <3>2 DEF RowsInv
    <3> QED
      BY <1>11, <2>1, <3>1, <3>3
  <2> QED
    BY <2>2, <2>3
<1>14. CASE Dismiss(p)
  <2> DEFINE new == [page[p] EXCEPT !.revealed = NoApiKey]
  <2>1. page' = [page EXCEPT ![p] = new] /\ UNCHANGED <<apiKey, unused>>
    BY <1>14 DEF Dismiss
  <2>2. /\ DOMAIN new = {"listed", "form", "revealed", "request"} /\ new.revealed = NoApiKey
        /\ new.listed = page[p].listed /\ new.form = page[p].form
        /\ new.request = page[p].request
    BY <1>1 DEF PageInv
  <2> HIDE DEF new
  <2> QED
    BY <1>1, <1>2, <2>1, <2>2, OnePage DEF PageInv
<1>15. CASE keyDelete(p)
  <2>1. PICK k \in DOMAIN page[p].listed : apiKey' = [apiKey EXCEPT ![k] = NoApiKey]
    BY <1>15 DEF keyDelete
  <2>2. RowsInv' /\ UNCHANGED <<unused, page>>
    BY <1>1, <1>15, <2>1 DEF RowsInv, keyDelete
  <2> QED
    BY <2>2 DEF KeysInv, PageInv, ListInv, FormInv, RequestInv, RevealInv
<1> QED
  BY <1>3, <1>5, <1>6, <1>7, <1>9, <1>10, <1>12, <1>13, <1>14, <1>15

\* For any number of keys, pages and operators: a key's secret is shown by the
\* page that created it only, and a limit changes by a form's save alone
\* (Keys.tsx; keyCreate and keyUpdate).
THEOREM SecretsAndLimitsKept == KeysSpec => KeysAreKept
<1>1. KeysInv => SecretToldOnce
  BY DEF KeysInv, PageInv, ListInv, RevealInv, SecretToldOnce
<1>2. KeysInv /\ [KeysNext]_keyVars =>
        [\A k \in ApiKeyIds :
           /\ apiKey[k] # NoApiKey /\ apiKey'[k] # NoApiKey
           /\ apiKey'[k].rate_limit_rpm # apiKey[k].rate_limit_rpm
           => \E p \in Pages :
                /\ page[p].request.pc = "asked" /\ page'[p].request.pc = "idle"
                /\ page[p].request.from = "form" /\ page[p].request.id = k]_keyVars
  <2> SUFFICES ASSUME KeysInv, KeysNext, NEW k \in ApiKeyIds,
                      apiKey[k] # NoApiKey, apiKey'[k] # NoApiKey,
                      apiKey'[k].rate_limit_rpm # apiKey[k].rate_limit_rpm
               PROVE  \E p \in Pages :
                        /\ page[p].request.pc = "asked" /\ page'[p].request.pc = "idle"
                        /\ page[p].request.from = "form" /\ page[p].request.id = k
    BY DEF keyVars
  <2>1. PICK p \in Pages : keyCreate(p) \/ keyUpdate(p) \/ keyDelete(p)
    BY DEF KeysNext, LoadKeys, OpenKeyForm, TypeKey, CloseKeyForm, SaveKey, ToggleKey, Asks, Dismiss
  <2>2. RowsInv /\ PageInv(p) /\ DOMAIN page = Pages
    BY DEF KeysInv
  <2>3. ~keyCreate(p)
    BY <2>2 DEF keyCreate, RowsInv
  <2>4. ~keyDelete(p)
    BY <2>2 DEF keyDelete, RowsInv, PageInv, ListInv
  <2>5. keyUpdate(p)
    BY <2>1, <2>3, <2>4
  <2> DEFINE request == page[p].request
  <2>6. /\ request.pc = "asked" /\ request.id = k
        /\ apiKey'[k] = Updated(apiKey[k], request.patch)
    BY ZenonT(60), <2>2, <2>5 DEF keyUpdate, RowsInv, PageInv, RequestInv
  <2>7. request.from # "switch"
    <3>1. request.from = "switch" => apiKey'[k].rate_limit_rpm = apiKey[k].rate_limit_rpm
      BY <2>2, <2>6 DEF PageInv, RequestInv, RowsInv, Updated, Columns
    <3> QED
      BY <3>1
  <2>8. request.from = "form"
    BY <2>2, <2>6, <2>7 DEF PageInv, RequestInv
  <2>9. page'[p].request = NotSent
    BY <2>2, <2>5 DEF keyUpdate, Answers, PageInv
  <2> QED
    BY <2>6, <2>8, <2>9 DEF NotSent
<1> QED
  BY KeysInvInit, KeysInvNext, <1>1, <1>2, PTL
  DEF KeysSpec, KeysAreKept, SwitchKeepsLimit

----------------------------------------------------------------------------
(* The range selector *)

\* A slice of some length.
Wide == {slice \in [from : Nat, to : Nat] : slice.from < slice.to}

\* The least and the greatest of two numbers.
LEMMA OfTwo ==
  ASSUME NEW a \in Nat, NEW b \in Nat
  PROVE  /\ Min({a, b}) = IF a <= b THEN a ELSE b
         /\ Max({a, b}) = IF a <= b THEN b ELSE a
BY DEF Min, Max

\* What every step keeps beside the types: the axis is of natural numbers, only
\* slices of some length are selected or asked for, and a dragged edge knows
\* where the selection has the other one.
PlotInv ==
  /\ today \in 0..MaxToday /\ window \in Windows /\ \A w \in Windows : w <= today
  /\ backdrop \in [Windows -> (Nat \X Nat) \cup {NoData}]

DragInv ==
  /\ selection = NoData \/ selection \in Wide
  /\ preview = NoData \/ preview \in Slice
  /\ drag = NoData \/ (drag \in Drag /\ drag.from <= drag.to)
  /\ drag = NoData => preview = NoData
  /\ drag # NoData /\ drag.kind = "from" =>
       selection # NoData /\ drag.to = selection.to /\ (preview = NoData \/ preview.to = drag.to)
  /\ drag # NoData /\ drag.kind = "to" =>
       selection # NoData /\ drag.from = selection.from
       /\ (preview = NoData \/ preview.from = drag.from)

AskInv ==
  /\ IsFiniteSet(pending) /\ Cardinality(pending) <= MaxAsked
  /\ \A key \in pending : key.slice = NoData \/ key.slice \in Wide
  /\ SliceIsSummarised

ChartsInv == PlotInv /\ DragInv /\ AskInv

\* The chart opens without a selection.
LEMMA ChartsInvInit == ChartsInit => ChartsInv
<1> SUFFICES ASSUME ChartsInit PROVE ChartsInv
  OBVIOUS
<1>1. today \in Windows /\ \A w \in Windows : w <= today
  BY ChartsAssumption DEF ChartsInit
<1>2. PlotInv
  <2>1. today \in 0 .. MaxToday
    BY <1>1, ChartsAssumption
  <2>2. window \in Windows /\ backdrop \in [Windows -> (Nat \X Nat) \cup {NoData}]
    BY DEF ChartsInit
  <2> QED
    BY <1>1, <2>1, <2>2 DEF PlotInv
<1>3. DragInv
  BY DEF ChartsInit, DragInv
<1>4. AskInv
  BY FS_EmptySet, ChartsAssumption DEF ChartsInit, AskInv, SliceIsSummarised
<1> QED
  BY <1>2, <1>3, <1>4 DEF ChartsInv

\* The axis stays one of natural numbers.
LEMMA PlotInvNext == PlotInv /\ [ChartsNext]_chartVars => PlotInv'
<1> SUFFICES ASSUME PlotInv, [ChartsNext]_chartVars PROVE PlotInv'
  OBVIOUS
<1>1. CASE useUsageOverview
  <2>1. rangeOf(window, today) \in Nat \X Nat
    BY ChartsAssumption DEF PlotInv, rangeOf
  <2> QED
    BY <1>1, <2>1 DEF PlotInv, useUsageOverview
<1>2. CASE TimeGoesBy
  BY <1>2, ChartsAssumption DEF PlotInv, TimeGoesBy
<1>3. ASSUME NEW w \in Windows, ChooseWindow(w) PROVE PlotInv'
  BY <1>3 DEF PlotInv, ChooseWindow
<1>4. CASE UNCHANGED <<today, window, backdrop>>
  BY <1>4 DEF PlotInv
<1> QED
  BY <1>1, <1>2, <1>3, <1>4
  DEF ChartsNext, chartVars, useUsage, PressPlot, move, up, onReset, UsageAnswered, PressEdge

\* What a pointer can hit is a natural number.
LEMMA AxisIsNatural ==
  ASSUME PlotInv, NEW at \in Axis
  PROVE  at \in Nat
<1>1. backdrop[window] \in Nat \X Nat
  BY DEF PlotInv, Axis, Mounted
<1> QED
  BY <1>1 DEF Axis

\* Every gesture keeps the dragged edge and the selection in agreement.
LEMMA DragInvNext == PlotInv /\ DragInv /\ [ChartsNext]_chartVars => DragInv'
<1> SUFFICES ASSUME PlotInv, DragInv, [ChartsNext]_chartVars PROVE DragInv'
  OBVIOUS
<1>1. CASE PressPlot
  <2>1. PICK at \in Axis :
          /\ drag' = [kind |-> "new", x |-> at, from |-> at, to |-> at]
          /\ preview' = [from |-> at, to |-> at]
    BY <1>1 DEF PressPlot
  <2>2. at \in Nat
    BY AxisIsNatural
  <2>3. drag' \in Drag /\ preview' \in Slice /\ drag' # NoData
    BY <2>1, <2>2, ChartsAssumption DEF Drag, Slice
  <2> QED
    BY <1>1, <2>1, <2>2, <2>3 DEF DragInv, PressPlot
<1>2. ASSUME NEW edge \in {"from", "to"}, PressEdge(edge) PROVE DragInv'
  <2>1. preview = NoData /\ selection # NoData /\ selection \in Wide
    BY <1>2 DEF PressEdge, DragInv, Shown
  <2>2. drag' = [kind |-> edge, x |-> selection[edge], from |-> selection.from, to |-> selection.to]
    BY <1>2, <2>1 DEF PressEdge, Shown
  <2>3. drag' \in Drag
    BY <2>1, <2>2 DEF Wide, Drag
  <2> QED
    BY <1>2, <2>1, <2>2, <2>3 DEF DragInv, PressEdge, Wide
<1>3. CASE move
  <2>1. PICK at \in Axis : preview' = dragged(at)
    BY <1>3 DEF move
  <2>2. at \in Nat /\ drag \in Drag /\ drag.from <= drag.to
    BY <1>3, <2>1, AxisIsNatural DEF move, DragInv
  <2>3. CASE drag.kind = "from"
    <3>1. preview' = [from |-> Min({at, drag.to}), to |-> drag.to]
      BY <2>1, <2>3 DEF dragged
    <3>2. preview' \in Slice /\ preview'.to = drag.to
      BY <2>2, <3>1, OfTwo DEF Slice, Drag
    <3> QED
      BY <1>3, <2>3, <3>2 DEF DragInv, move
  <2>4. CASE drag.kind = "to"
    <3>1. preview' = [from |-> drag.from, to |-> Max({at, drag.from})]
      BY <2>1, <2>4 DEF dragged
    <3>2. preview' \in Slice /\ preview'.from = drag.from
      BY <2>2, <3>1, OfTwo DEF Slice, Drag
    <3> QED
      BY <1>3, <2>4, <3>2 DEF DragInv, move
  <2>5. CASE drag.kind = "new"
    <3>1. preview' = [from |-> Min({drag.x, at}), to |-> Max({drag.x, at})]
      BY <2>1, <2>5 DEF dragged
    <3>2. preview' \in Slice
      BY <2>2, <3>1, OfTwo DEF Slice, Drag
    <3> QED
      BY <1>3, <2>5, <3>2 DEF DragInv, move
  <2> QED
    BY <2>2, <2>3, <2>4, <2>5 DEF Drag
<1>4. CASE up
  <2>1. selection' = NoData \/ selection' \in Wide
    <3>1. CASE preview = NoData
      BY <1>4, <3>1 DEF up, Released, DragInv
    <3>2. CASE preview \in Slice /\ preview # NoData
      BY <1>4, <3>2, ChartsAssumption DEF up, Released, Slice, Wide
    <3> QED
      BY <3>1, <3>2 DEF DragInv
  <2> QED
    BY <1>4, <2>1 DEF DragInv, up
<1>5. CASE onReset
  BY <1>5 DEF DragInv, onReset
<1>6. ASSUME NEW w \in Windows, ChooseWindow(w) PROVE DragInv'
  BY <1>6 DEF DragInv, ChooseWindow
<1>7. CASE UNCHANGED <<selection, drag, preview>>
  BY <1>7 DEF DragInv
<1> QED
  BY <1>1, <1>2, <1>3, <1>4, <1>5, <1>6, <1>7
  DEF ChartsNext, chartVars, useUsage, useUsageOverview, UsageAnswered, TimeGoesBy

\* Only slices of some length are asked for.
LEMMA AskInvNext == DragInv /\ AskInv /\ [ChartsNext]_chartVars => AskInv'
<1> SUFFICES ASSUME DragInv, AskInv, [ChartsNext]_chartVars PROVE AskInv'
  OBVIOUS
<1>1. CASE useUsage
  <2>1. IsFiniteSet(pending') /\ Cardinality(pending') = Cardinality(pending) + 1
    BY <1>1, FS_AddElement DEF useUsage, AskInv
  <2>2. Cardinality(pending) \in Nat
    BY FS_CardinalityType DEF AskInv
  <2>3. Cardinality(pending') <= MaxAsked
    BY <1>1, <2>1, <2>2, ChartsAssumption DEF useUsage
  <2> QED
    BY <1>1, <2>1, <2>3 DEF useUsage, AskInv, SliceIsSummarised, DragInv, Key
<1>2. ASSUME NEW key \in pending, UsageAnswered(key) PROVE AskInv'
  <2>1. IsFiniteSet(pending') /\ Cardinality(pending') = Cardinality(pending) - 1
    BY <1>2, FS_RemoveElement DEF UsageAnswered, AskInv
  <2>2. Cardinality(pending) \in Nat
    BY FS_CardinalityType DEF AskInv
  <2>3. Cardinality(pending') <= MaxAsked
    BY <2>1, <2>2, ChartsAssumption DEF AskInv
  <2>4. key.slice # NoData => usage(key).range = <<key.slice.from, key.slice.to>>
    BY DEF AskInv, usage, readRange, Bound, Omitted, Wide
  <2>5. \A answer \in answers' : answer \in answers \/ answer = usage(key)
    BY <1>2 DEF UsageAnswered
  <2>6. usage(key).key = key
    BY DEF usage
  <2>7. SliceIsSummarised'
    BY <2>4, <2>5, <2>6 DEF AskInv, SliceIsSummarised
  <2> QED
    BY <1>2, <2>1, <2>3, <2>7 DEF UsageAnswered, AskInv
<1>3. CASE UNCHANGED <<pending, answers>>
  BY <1>3 DEF AskInv, SliceIsSummarised
<1> QED
  BY <1>1, <1>2, <1>3
  DEF ChartsNext, chartVars, useUsageOverview, PressPlot, PressEdge, move, up, onReset, ChooseWindow,
      TimeGoesBy

\* The three together hold in every reachable state.
LEMMA ChartsInvariant == ChartsSpec => []ChartsInv
<1>1. ChartsInv /\ [ChartsNext]_chartVars => ChartsInv'
  BY PlotInvNext, DragInvNext, AskInvNext DEF ChartsInv
<1> QED
  BY ChartsInvInit, <1>1, PTL DEF ChartsSpec

\* For every set of windows and however long the dashboard is open: the handles
\* never cross, releasing one leaves the other where it was, and a summary shown
\* for a slice is of that slice (RangeSelector.tsx, readRange).
THEOREM HandlesTell == ChartsSpec => HandlesTellTheSlice
<1>1. ChartsInv => ChartsTypeOK
  BY DEF ChartsInv, PlotInv, DragInv, AskInv, ChartsTypeOK, Wide, Slice
<1>2. ChartsInv => SliceIsSummarised
  BY DEF ChartsInv, AskInv
<1>3. ChartsInv /\ [ChartsNext]_chartVars =>
        [drag # NoData /\ drag' = NoData /\ selection # NoData /\ selection' # NoData
           => /\ drag.kind = "from" => selection'.to = selection.to
              /\ drag.kind = "to" => selection'.from = selection.from]_chartVars
  <2> SUFFICES ASSUME ChartsInv, ChartsNext, drag # NoData, drag' = NoData, selection' # NoData
               PROVE  /\ drag.kind = "from" => selection'.to = selection.to
                      /\ drag.kind = "to" => selection'.from = selection.from
    BY DEF chartVars
  <2>1. up
    BY ChartsAssumption
    DEF ChartsNext, useUsage, useUsageOverview, UsageAnswered, PressPlot, PressEdge, move, onReset,
        ChooseWindow, TimeGoesBy, Drag
  <2>2. selection' = IF preview = NoData THEN selection ELSE preview
    BY <2>1 DEF up, Released
  <2> QED
    BY <2>2 DEF ChartsInv, DragInv
<1> QED
  BY ChartsInvariant, <1>1, <1>2, <1>3, PTL DEF ChartsSpec, HandlesTellTheSlice, OtherHandleStays

----------------------------------------------------------------------------
(* Admission.  The window a key has in memory is the end of what it was      *)
(* granted, and what the limiter has dropped of it had expired.              *)

\* What was let through, with the limit in force.
Grants == [at : Nat, limit : Limits]

\* What the limiter remembers of the grants g, and what it has forgotten.
Recalls(w, g, now) ==
  \E d \in 0 .. Len(g) :
    /\ Len(g) = d + Len(w)
    /\ \A i \in 1 .. Len(w) : w[i] = g[d + i].at
    /\ \A i \in 1 .. d : g[i].at + Window <= now

\* Grants are made in the order of the clock.
Ordered(g, now) ==
  /\ \A i \in 1 .. Len(g) : g[i].at <= now
  /\ \A i, j \in 1 .. Len(g) : i < j => g[i].at <= g[j].at

Remembers(k) == Recalls(windows[k], granted[k], clock)
InOrder(k) == Ordered(granted[k], clock)

\* The strengthening of LimitHolds: each window is the end of what was granted.
AdmissionInv ==
  /\ TypeOK /\ WithinLimit
  /\ windows \in [KeyIds -> Seq(Nat)] /\ granted \in [KeyIds -> Seq(Grants)]
  /\ \A k \in KeyIds : Remembers(k) /\ InOrder(k)
  /\ \A r \in Requests : req[r].pc \in {"touch", "read", "limit"} => req[r].token \in KeyIds

\* What the limiter counts is what was granted in the window that ends now.
LEMMA RecentTells ==
  ASSUME AdmissionInv, NEW k \in KeyIds
  PROVE  /\ Recent(k, clock) \in Seq(0 .. clock)
         /\ Len(Recent(k, clock)) <= Len(windows[k])
         /\ \E e \in 0 .. Len(granted[k]) :
              /\ Len(granted[k]) = e + Len(Recent(k, clock))
              /\ \A n \in 1 .. Len(Recent(k, clock)) : Recent(k, clock)[n] = granted[k][e + n].at
              /\ \A i \in 1 .. Len(granted[k]) : granted[k][i].at + Window > clock <=> i > e
<1> DEFINE w == windows[k]
           g == granted[k]
           K == {i \in DOMAIN w : w[i] + Window > clock}
           r == Recent(k, clock)
<1>1. /\ clock \in Nat /\ Window \in Nat
      /\ w \in Seq(0 .. clock) /\ \A i, j \in DOMAIN w : i < j => w[i] <= w[j]
  BY AdmissionAssumption DEF AdmissionInv, TypeOK
<1>2. g \in Seq(Grants)
  BY DEF AdmissionInv
<1>3. PICK d \in 0 .. Len(g) : /\ Len(g) = d + Len(w)
                               /\ \A i \in 1 .. Len(w) : w[i] = g[d + i].at
                               /\ \A i \in 1 .. d : g[i].at + Window <= clock
  BY DEF AdmissionInv, Remembers, Recalls
<1>4. Len(w) \in Nat /\ DOMAIN w = 1 .. Len(w) /\ Len(g) \in Nat /\ DOMAIN g = 1 .. Len(g)
      /\ (\A i \in 1 .. Len(w) : w[i] \in 0 .. clock)
      /\ \A i \in 1 .. Len(g) : g[i].at \in Nat
  <2>1. \A i \in 1 .. Len(g) : g[i] \in Grants
    BY <1>2
  <2> QED
    BY <1>1, <1>2, <2>1 DEF Grants
<1> HIDE DEF w, g
<1>5. PICK m \in 0 .. Len(w) : K = m + 1 .. Len(w)
  <2>1. ASSUME NEW i \in 1 .. Len(w), NEW j \in 1 .. Len(w), i <= j, i \in K PROVE j \in K
    <3>1. w[i] <= w[j] /\ w[i] \in Nat /\ w[j] \in Nat
      BY <2>1, <1>1, <1>4
    <3> QED
      BY <2>1, <3>1, <1>1, <1>4
  <2>2. K \in SUBSET (1 .. Len(w))
    BY <1>4
  <2> HIDE DEF K
  <2> QED
    BY <2>1, <2>2, <1>4, UpwardClosed
<1>6. r = Subsequence(w, m + 1 .. Len(w))
  BY <1>5 DEF Recent, w
<1>7. /\ r \in Seq(0 .. clock) /\ Len(r) = Len(w) - m
      /\ \A n \in 1 .. Len(w) - m : r[n] = w[m + n]
  BY <1>1, <1>6, EndTells
<1> HIDE DEF r
<1>9. \A i \in 1 .. Len(g) : g[i].at + Window > clock <=> i > d + m
  <2> SUFFICES ASSUME NEW i \in 1 .. Len(g)
               PROVE  g[i].at + Window > clock <=> i > d + m
    OBVIOUS
  <2>1. CASE i <= d
    <3>1. g[i].at + Window <= clock
      BY <2>1, <1>3
    <3> QED
      BY <3>1, <2>1, <1>1, <1>4
  <2>2. CASE i > d
    <3>1. i - d \in 1 .. Len(w) /\ d + (i - d) = i
      BY <2>2, <1>3, <1>4
    <3>2. w[i - d] = g[i].at
      BY <3>1, <1>3
    <3>3. i - d \in K <=> i - d > m
      BY <3>1, <1>5
    <3> QED
      BY <3>1, <3>2, <3>3, <1>4
  <2> QED
    BY <2>1, <2>2
<1>10. \A n \in 1 .. Len(r) : r[n] = g[(d + m) + n].at
  <2> SUFFICES ASSUME NEW n \in 1 .. Len(r) PROVE r[n] = g[(d + m) + n].at
    OBVIOUS
  <2>1. n \in 1 .. Len(w) - m /\ m + n \in 1 .. Len(w) /\ d + (m + n) = (d + m) + n
    BY <1>4, <1>7
  <2>2. r[n] = w[m + n]
    BY <2>1, <1>7
  <2> QED
    BY <2>1, <2>2, <1>3
<1>11. d + m \in 0 .. Len(g) /\ Len(g) = (d + m) + Len(r) /\ Len(r) <= Len(w)
  BY <1>3, <1>4, <1>7
<1> QED
  BY <1>7, <1>9, <1>10, <1>11 DEF r, w, g

\* A limiter that lets a request through leaves fewer than its limit in the window before it.
LEMMA GrantStep ==
  ASSUME AdmissionInv, NEW r \in Requests, req[r].pc = "limit", req[r].limit > 0,
         Len(Recent(req[r].token, clock)) < req[r].limit,
         windows' = [windows EXCEPT ![req[r].token] = Append(Recent(req[r].token, clock), clock)],
         granted' = [granted EXCEPT ![req[r].token] =
                       Append(@, [at |-> clock, limit |-> req[r].limit])],
         req' = [req EXCEPT ![r].pc = "body"], UNCHANGED <<clock, keys, edits>>
  PROVE  AdmissionInv'
<1> DEFINE k == req[r].token
           limit == req[r].limit
           recent == Recent(k, clock)
           g == granted[k]
           n == Len(g)
<1>1. /\ TypeOK /\ WithinLimit /\ k \in KeyIds /\ limit \in Limits /\ limit \in Nat /\ clock \in Nat
      /\ windows \in [KeyIds -> Seq(Nat)] /\ granted \in [KeyIds -> Seq(Grants)]
      /\ \A q \in KeyIds : Remembers(q) /\ InOrder(q)
  BY SMTT(30), AdmissionAssumption DEF AdmissionInv, TypeOK, Caller
<1>2. /\ g \in Seq(Grants) /\ n \in Nat /\ DOMAIN g = 1 .. n
      /\ \A i \in 1 .. n : g[i].at \in Nat
  <2>1. g \in Seq(Grants)
    BY <1>1
  <2> HIDE DEF g
  <2>2. \A i \in 1 .. n : g[i] \in Grants
    BY <2>1
  <2>3. \A i \in 1 .. n : g[i].at \in Nat
    BY <2>2 DEF Grants
  <2> QED
    BY <2>1, <2>3
<1>3. /\ recent \in Seq(0 .. clock) /\ Len(recent) < limit
      /\ Len(recent) \in Nat /\ DOMAIN recent = 1 .. Len(recent)
  BY <1>1, RecentTells
<1>4. PICK e \in 0 .. n :
        /\ n = e + Len(recent)
        /\ \A i \in 1 .. Len(recent) : recent[i] = g[e + i].at
        /\ \A i \in 1 .. n : g[i].at + Window > clock <=> i > e
  BY <1>1, RecentTells
<1> DEFINE new == [at |-> clock, limit |-> limit]
           h == Append(g, new)
           v == Append(recent, clock)
<1>5. /\ windows' = [windows EXCEPT ![k] = v] /\ granted' = [granted EXCEPT ![k] = h]
      /\ req' = [req EXCEPT ![r].pc = "body"] /\ clock' = clock
  OBVIOUS
<1>6. new \in Grants /\ new.at = clock /\ new.limit = limit
  BY <1>1 DEF Grants
<1> HIDE DEF new, recent, k, limit
<1>7. /\ h \in Seq(Grants) /\ Len(h) = n + 1 /\ DOMAIN h = 1 .. n + 1
      /\ (\A i \in 1 .. n : h[i] = g[i]) /\ h[n + 1] = new
  BY <1>2, <1>6
<1>8. /\ v \in Seq(0 .. clock) /\ v \in Seq(Nat) /\ Len(v) = Len(recent) + 1
      /\ DOMAIN v = 1 .. Len(recent) + 1
      /\ (\A i \in 1 .. Len(recent) : v[i] = recent[i]) /\ v[Len(recent) + 1] = clock
  BY <1>1, <1>3
<1> HIDE DEF h, v, g
<1>9. /\ windows'[k] = v /\ granted'[k] = h
      /\ \A q \in KeyIds : q # k => windows'[q] = windows[q] /\ granted'[q] = granted[q]
  BY <1>1, <1>5
<1>10. /\ windows' \in [KeyIds -> Seq(Nat)] /\ granted' \in [KeyIds -> Seq(Grants)]
  <2>1. windows \in [KeyIds -> Seq(Nat)] /\ granted \in [KeyIds -> Seq(Grants)]
        /\ h \in Seq(Grants) /\ v \in Seq(Nat)
    BY <1>1, <1>7, <1>8
  <2> QED
    BY <2>1, <1>5
<1>11. ASSUME NEW i \in 1 .. n + 1 PROVE h[i].at \in Nat /\ h[i].at <= clock
  <2>1. CASE i = n + 1
    BY <2>1, <1>1, <1>6, <1>7
  <2>2. CASE i # n + 1
    <3>1. i \in 1 .. n /\ h[i] = g[i]
      BY <2>2, <1>2, <1>7
    <3>2. g[i].at <= clock
      BY <3>1, <1>1, <1>2 DEF InOrder, Ordered, g
    <3> QED
      BY <3>1, <3>2, <1>2
  <2> QED
    BY <2>1, <2>2
<1>12. ASSUME NEW i \in 1 .. n + 1, NEW j \in 1 .. n + 1, i < j PROVE h[i].at <= h[j].at
  <2>1. CASE j = n + 1
    BY <2>1, <1>6, <1>7, <1>11
  <2>2. CASE j # n + 1
    <3>1. i \in 1 .. n /\ j \in 1 .. n /\ h[i] = g[i] /\ h[j] = g[j]
      BY <2>2, <1>2, <1>7, <1>12
    <3> QED
      BY <3>1, <1>1, <1>2, <1>12 DEF InOrder, Ordered, g
  <2> QED
    BY <2>1, <2>2
<1>13. ASSUME NEW q \in KeyIds PROVE InOrder(q)'
  <2>1. CASE q = k
    <3>1. Ordered(h, clock)
      BY <1>7, <1>11, <1>12 DEF Ordered
    <3> QED
      BY <2>1, <3>1, <1>5, <1>9 DEF InOrder
  <2>2. CASE q # k
    BY <2>2, <1>1, <1>5, <1>9 DEF InOrder
  <2> QED
    BY <2>1, <2>2
<1>14. /\ n + 1 = e + Len(v) /\ e \in 0 .. n + 1
       /\ \A i \in 1 .. Len(v) : v[i] = h[e + i].at
       /\ \A i \in 1 .. e : h[i].at + Window <= clock
  <2>1. n + 1 = e + Len(v) /\ e \in 0 .. n + 1
    BY <1>2, <1>3, <1>4, <1>8
  <2>2. ASSUME NEW i \in 1 .. Len(v) PROVE v[i] = h[e + i].at
    <3>1. CASE i = Len(v)
      <4>1. i = Len(recent) + 1 /\ e + i = n + 1
        BY <3>1, <1>3, <1>4, <1>8
      <4> QED
        BY <4>1, <1>6, <1>7, <1>8
    <3>2. CASE i # Len(v)
      <4>1. i \in 1 .. Len(recent) /\ e + i \in 1 .. n
        BY SMTT(30), <3>2, <1>3, <1>4, <1>8
      <4> QED
        BY <4>1, <1>4, <1>7, <1>8
    <3> QED
      BY <3>1, <3>2
  <2>3. ASSUME NEW i \in 1 .. e PROVE h[i].at + Window <= clock
    <3>1. i \in 1 .. n /\ ~ (i > e)
      BY <1>2
    <3>2. ~ (g[i].at + Window > clock) /\ g[i].at \in Nat /\ Window \in Nat
      BY <3>1, <1>2, <1>4, AdmissionAssumption
    <3> QED
      BY <3>1, <3>2, <1>1, <1>7
  <2> QED
    BY <2>1, <2>2, <2>3
<1>15. ASSUME NEW q \in KeyIds PROVE Remembers(q)'
  <2>1. CASE q = k
    <3>1. Recalls(v, h, clock)
      BY <1>7, <1>14 DEF Recalls
    <3> QED
      BY <2>1, <3>1, <1>5, <1>9 DEF Remembers
  <2>2. CASE q # k
    BY <2>2, <1>1, <1>5, <1>9 DEF Remembers
  <2> QED
    BY <2>1, <2>2
<1>16. Cardinality({j \in 1 .. n + 1 : h[j].at + Window > clock}) <= limit
  <2>1. ASSUME NEW j \in 1 .. n + 1 PROVE h[j].at + Window > clock <=> j > e
    <3>1. CASE j = n + 1
      BY SMTT(30), <3>1, <1>1, <1>2, <1>4, <1>6, <1>7, AdmissionAssumption
    <3>2. CASE j # n + 1
      <4>1. j \in 1 .. n /\ h[j] = g[j]
        BY <3>2, <1>2, <1>7
      <4> QED
        BY <4>1, <1>4
    <3> QED
      BY <3>1, <3>2
  <2>2. {j \in 1 .. n + 1 : h[j].at + Window > clock} = e + 1 .. n + 1
    BY <2>1, <1>2
  <2>3. Cardinality(e + 1 .. n + 1) = n + 1 - e
    BY <1>2, IntervalSize
  <2>4. n + 1 - e <= limit
    BY <1>1, <1>2, <1>3, <1>4
  <2> QED
    BY <2>2, <2>3, <2>4
<1>17. WithinLimit'
  <2> SUFFICES ASSUME NEW q \in KeyIds, NEW i \in DOMAIN granted'[q]
               PROVE  Cardinality({j \in 1 .. i : granted'[q][j].at + Window > granted'[q][i].at})
                        <= granted'[q][i].limit
    BY DEF WithinLimit
  <2>1. CASE q # k
    BY <2>1, <1>1, <1>9 DEF WithinLimit
  <2>2. CASE q = k /\ i = n + 1
    BY <2>2, <1>6, <1>7, <1>9, <1>16
  <2>3. CASE q = k /\ i # n + 1
    <3>1. i \in 1 .. n /\ h[i] = g[i]
      BY <2>3, <1>2, <1>7, <1>9
    <3>2. {j \in 1 .. i : h[j].at + Window > h[i].at} = {j \in 1 .. i : g[j].at + Window > g[i].at}
      BY <3>1, <1>2, <1>7
    <3>3. Cardinality({j \in 1 .. i : g[j].at + Window > g[i].at}) <= g[i].limit
      BY <3>1, <1>1, <1>2 DEF WithinLimit, g
    <3> QED
      BY <2>3, <3>1, <3>2, <3>3, <1>9
  <2> QED
    BY <2>1, <2>2, <2>3
<1>18. TypeOK'
  <2>1. req' \in [Requests -> Caller]
    BY ZenonT(60), <1>1 DEF TypeOK, Caller
  <2>2. ASSUME NEW q \in KeyIds
        PROVE  /\ windows'[q] \in Seq(0 .. clock')
               /\ \A i, j \in DOMAIN windows'[q] : i < j => windows'[q][i] <= windows'[q][j]
               /\ \E l \in Limits : Len(windows'[q]) <= l
    <3>1. CASE q # k
      BY <3>1, <1>1, <1>5, <1>9 DEF TypeOK
    <3>2. CASE q = k
      <4>1. ASSUME NEW i \in DOMAIN v, NEW j \in DOMAIN v, i < j PROVE v[i] <= v[j]
        <5>1. e + i \in 1 .. n + 1 /\ e + j \in 1 .. n + 1 /\ e + i < e + j
          <6>1. i \in 1 .. Len(v) /\ j \in 1 .. Len(v) /\ Len(v) \in Nat /\ e \in Nat
            BY <4>1, <1>3, <1>8
          <6> QED
            BY <6>1, <4>1, <1>2, <1>14
        <5> QED
          BY <5>1, <1>8, <1>12, <1>14
      <4>2. Len(v) <= limit
        BY <1>1, <1>3, <1>8
      <4> QED
        BY <3>2, <4>1, <4>2, <1>1, <1>5, <1>8, <1>9
    <3> QED
      BY <3>1, <3>2
  <2> QED
    BY <2>1, <2>2, <1>1, <1>5 DEF TypeOK
<1>19. \A q \in Requests : req'[q].pc \in {"touch", "read", "limit"} => req'[q].token \in KeyIds
  BY <1>1, <1>5 DEF AdmissionInv, TypeOK, Caller
<1> QED
  BY <1>10, <1>13, <1>15, <1>17, <1>18, <1>19 DEF AdmissionInv

\* A refusal drops what has expired and counts nothing.
LEMMA RefuseStep ==
  ASSUME AdmissionInv, NEW r \in Requests, req[r].pc = "limit",
         windows' = [windows EXCEPT ![req[r].token] = Recent(req[r].token, clock)],
         req' = [req EXCEPT ![r].pc = "limited",
                            ![r].retry = RetryAfter(Recent(req[r].token, clock), clock)],
         RetryAfter(Recent(req[r].token, clock), clock) \in Nat,
         UNCHANGED <<clock, keys, granted, edits>>
  PROVE  AdmissionInv'
<1> DEFINE k == req[r].token
           recent == Recent(k, clock)
           g == granted[k]
           w == windows[k]
<1>1. /\ TypeOK /\ WithinLimit /\ k \in KeyIds /\ clock \in Nat
      /\ windows \in [KeyIds -> Seq(Nat)] /\ granted \in [KeyIds -> Seq(Grants)]
      /\ \A q \in KeyIds : Remembers(q) /\ InOrder(q)
  BY DEF AdmissionInv, TypeOK, Caller
<1>2. /\ recent \in Seq(0 .. clock) /\ Len(recent) \in Nat /\ DOMAIN recent = 1 .. Len(recent)
      /\ Len(recent) <= Len(w)
  BY <1>1, RecentTells
<1>3. PICK e \in 0 .. Len(g) :
        /\ Len(g) = e + Len(recent)
        /\ \A i \in 1 .. Len(recent) : recent[i] = g[e + i].at
        /\ \A i \in 1 .. Len(g) : g[i].at + Window > clock <=> i > e
  BY <1>1, RecentTells
<1>4. g \in Seq(Grants) /\ Len(g) \in Nat /\ w \in Seq(Nat) /\ Len(w) \in Nat
  BY <1>1
<1>5. windows' = [windows EXCEPT ![k] = recent] /\ granted' = granted /\ clock' = clock
  OBVIOUS
<1> HIDE DEF recent, k, g
<1>6. \A i \in 1 .. Len(g) : g[i].at \in Nat
  <2>1. \A i \in 1 .. Len(g) : g[i] \in Grants
    BY <1>4
  <2> QED
    BY <2>1 DEF Grants
<1>7. recent \in Seq(Nat)
  <2>1. \A i \in 1 .. Len(recent) : recent[i] \in Nat
    <3> SUFFICES ASSUME NEW i \in 1 .. Len(recent) PROVE recent[i] \in Nat
      OBVIOUS
    <3>1. recent[i] \in 0 .. clock
      BY <1>2, ElementOfSeq
    <3> QED
      BY <3>1, <1>1
  <2> QED
    BY <2>1, <1>2
<1>8. windows'[k] = recent /\ \A q \in KeyIds : q # k => windows'[q] = windows[q]
  BY <1>1, <1>5
<1>9. windows' \in [KeyIds -> Seq(Nat)]
  BY <1>1, <1>5, <1>7
<1>10. ASSUME NEW q \in KeyIds PROVE Remembers(q)' /\ InOrder(q)'
  <2>1. InOrder(q)'
    BY <1>1, <1>5 DEF InOrder
  <2>2. CASE q = k
    <3>1. ASSUME NEW i \in 1 .. e PROVE g[i].at + Window <= clock
      <4>1. i \in 1 .. Len(g) /\ ~ (i > e)
        BY <1>4
      <4> QED
        BY SMTT(30), <4>1, <1>1, <1>3, <1>6, AdmissionAssumption
    <3>2. Recalls(recent, g, clock)
      BY <3>1, <1>3 DEF Recalls
    <3> QED
      BY <2>1, <2>2, <3>2, <1>5, <1>8 DEF Remembers, g
  <2>3. CASE q # k
    BY <2>1, <2>3, <1>1, <1>5, <1>8 DEF Remembers
  <2> QED
    BY <2>2, <2>3
<1>11. WithinLimit'
  BY <1>1, <1>5 DEF WithinLimit
<1>12. /\ req' \in [Requests -> Caller]
       /\ req'[r].pc = "limited" /\ req'[r].token = req[r].token
       /\ \A q \in Requests : q # r => req'[q] = req[q]
  <2> DEFINE retry == RetryAfter(Recent(req[r].token, clock), clock)
             c == [req[r] EXCEPT !.pc = "limited", !.retry = retry]
  <2>1. req \in [Requests -> Caller] /\ retry \in Nat
    BY <1>1 DEF TypeOK
  <2>2. req' = [req EXCEPT ![r].pc = "limited", ![r].retry = retry]
    OBVIOUS
  <2> HIDE DEF retry
  <2>3. req' = [req EXCEPT ![r] = c]
    BY <2>1, <2>2
  <2>4. c \in Caller /\ c.pc = "limited" /\ c.token = req[r].token
    BY <2>1 DEF Caller
  <2> HIDE DEF c
  <2> QED
    BY <2>1, <2>3, <2>4
<1>13. ASSUME NEW q \in KeyIds
       PROVE  /\ windows'[q] \in Seq(0 .. clock')
              /\ \A i, j \in DOMAIN windows'[q] : i < j => windows'[q][i] <= windows'[q][j]
              /\ \E l \in Limits : Len(windows'[q]) <= l
  <2>1. CASE q # k
    BY <2>1, <1>1, <1>5, <1>8 DEF TypeOK
  <2>2. CASE q = k
    <3>1. ASSUME NEW i \in DOMAIN recent, NEW j \in DOMAIN recent, i < j
          PROVE  recent[i] <= recent[j]
      <4>1. i \in 1 .. Len(recent) /\ j \in 1 .. Len(recent) /\ e \in Nat
        BY <1>2
      <4>2. e + i \in 1 .. Len(g) /\ e + j \in 1 .. Len(g) /\ e + i < e + j
        BY <3>1, <4>1, <1>2, <1>3
      <4>3. Ordered(g, clock)
        BY <1>1 DEF InOrder, g
      <4> QED
        BY <4>1, <4>2, <4>3, <1>3 DEF Ordered
    <3>2. PICK l \in Limits : Len(w) <= l
      BY <1>1 DEF TypeOK
    <3>3. Len(recent) <= l
      BY <3>2, <1>2, <1>4, AdmissionAssumption
    <3> QED
      BY <2>2, <3>1, <3>3, <1>2, <1>5, <1>8
  <2> QED
    BY <2>1, <2>2
<1>14. TypeOK'
  BY <1>1, <1>5, <1>12, <1>13 DEF TypeOK
<1>15. \A q \in Requests : req'[q].pc \in {"touch", "read", "limit"} => req'[q].token \in KeyIds
  BY <1>12 DEF AdmissionInv
<1> QED
  BY <1>1, <1>5, <1>9, <1>10, <1>11, <1>14, <1>15 DEF AdmissionInv

\* CeilDiv rounds up.
LEMMA CeilDivTells ==
  ASSUME NEW x \in Nat \ {0}, NEW y \in Nat \ {0}
  PROVE  /\ CeilDiv(x, y) \in Nat
         /\ CeilDiv(x, y) * y >= x
         /\ (CeilDiv(x, y) - 1) * y < x
<1> DEFINE z == x + y - 1
           q == z \div y
<1>1. z \in Nat /\ y \in Nat /\ y > 0
  OBVIOUS
<1> HIDE DEF z
<1>2. q \in Int /\ q * y <= z /\ z < (q + 1) * y
  BY <1>1
<1>3. q \in Nat
  BY <1>1
<1> HIDE DEF q
<1>4. (q + 1) * y = q * y + y /\ (q - 1) * y = q * y - y /\ q * y \in Int
  BY <1>1, <1>3
<1>5. q * y >= x /\ (q - 1) * y < x
  BY <1>2, <1>4 DEF z
<1> QED
  BY <1>3, <1>5 DEF q, z, CeilDiv

\* A refused caller had spent its limit, and finds room when it was told to return and
\* not a second before.
LEMMA RefusalTells ==
  ASSUME AdmissionInv, NEW k \in KeyIds, NEW limit \in Nat, limit > 0,
         Len(Recent(k, clock)) >= limit
  PROVE  LET recent == Recent(k, clock)
             retry == RetryAfter(recent, clock)
             then == clock + retry * Second
         IN  /\ retry \in Nat
             /\ GrantedIn(k, clock) >= limit
             /\ Len(recent) = limit => GrantedIn(k, then) < limit
             /\ Len(recent) = limit /\ retry > 1 => GrantedIn(k, then - Second) >= limit
<1> DEFINE recent == Recent(k, clock)
           g == granted[k]
           n == Len(g)
           retry == RetryAfter(recent, clock)
           then == clock + retry * Second
<1>1. /\ clock \in Nat /\ Window \in Nat \ {0} /\ Second \in Nat \ {0}
      /\ granted \in [KeyIds -> Seq(Grants)] /\ InOrder(k)
  BY AdmissionAssumption DEF AdmissionInv, TypeOK
<1>2. recent \in Seq(0 .. clock) /\ Len(recent) \in Nat /\ Len(recent) >= limit
  BY RecentTells
<1>3. PICK e \in 0 .. n :
        /\ n = e + Len(recent)
        /\ \A i \in 1 .. Len(recent) : recent[i] = g[e + i].at
        /\ \A i \in 1 .. n : g[i].at + Window > clock <=> i > e
  BY RecentTells
<1>4. g \in Seq(Grants) /\ n \in Nat /\ DOMAIN g = 1 .. n
  BY <1>1
<1>5. Ordered(g, clock)
  BY <1>1 DEF InOrder
<1> HIDE DEF g, recent
<1>6. \A i \in 1 .. n : g[i].at \in Nat
  <2>1. \A i \in 1 .. n : g[i] \in Grants
    BY <1>4
  <2> QED
    BY <2>1 DEF Grants
<1> HIDE DEF n
<1>7. \A now : GrantedIn(k, now) = Cardinality({i \in 1 .. n : g[i].at + Window > now})
  BY <1>4 DEF GrantedIn, g
<1>8. IsFiniteSet(e + 1 .. n) /\ Cardinality(e + 1 .. n) = Len(recent)
  <2>1. e \in Nat /\ e <= n
    BY <1>4
  <2>2. IsFiniteSet(e + 1 .. n) /\ Cardinality(e + 1 .. n) = n - e
    BY <2>1, <1>4, IntervalSize
  <2> QED
    BY <2>1, <2>2, <1>2, <1>3, <1>4
<1>9. GrantedIn(k, clock) >= limit
  <2>1. {i \in 1 .. n : g[i].at + Window > clock} = e + 1 .. n
    BY <1>3, <1>4
  <2> QED
    BY <2>1, <1>2, <1>7, <1>8
<1> DEFINE first == recent[1]
           x == first + Window - clock
           wait == CeilDiv(x, Second)
<1>10. e + 1 \in 1 .. n /\ first = g[e + 1].at /\ first \in Nat /\ x \in Nat \ {0}
  <2>1. e + 1 \in 1 .. n /\ 1 \in 1 .. Len(recent)
    BY <1>2, <1>3, <1>4
  <2>2. first = g[e + 1].at /\ g[e + 1].at + Window > clock
    BY <2>1, <1>3
  <2> QED
    BY <2>1, <2>2, <1>1, <1>6
<1>11. wait \in Nat /\ wait * Second >= x /\ (wait - 1) * Second < x
  BY <1>1, <1>10, CeilDivTells
<1>12. retry = IF wait < 1 THEN 1 ELSE wait
  BY DEF RetryAfter
<1> HIDE DEF first, wait, x
<1>13. /\ retry \in Nat \ {0} /\ retry * Second >= x
       /\ retry > 1 => (retry - 1) * Second < x
  <2>1. CASE wait < 1
    BY <2>1, <1>1, <1>10, <1>11, <1>12
  <2>2. CASE wait >= 1
    BY <2>2, <1>11, <1>12
  <2> QED
    BY <2>1, <2>2, <1>11
<1> HIDE DEF retry
<1>14. /\ then \in Nat /\ then >= clock /\ then >= first + Window
       /\ retry > 1 => then - Second < first + Window
  <2> DEFINE a == retry * Second
             b == (retry - 1) * Second
  <2>1. a \in Nat /\ b = a - Second
    BY <1>1, <1>13
  <2>2. a >= x /\ (retry > 1 => b < x)
    BY <1>13
  <2>3. then = clock + a
    OBVIOUS
  <2>4. clock \in Nat /\ Second \in Nat /\ Window \in Nat /\ first \in Nat
    BY <1>1, <1>10
  <2>5. x = first + Window - clock
    BY DEF x
  <2> HIDE DEF a, b, then
  <2>6. then \in Nat /\ then >= clock /\ then >= first + Window
    BY <2>1, <2>2, <2>3, <2>4, <2>5
  <2>7. ASSUME retry > 1 PROVE then - Second < first + Window
    <3>1. b < x
      BY <2>2, <2>7
    <3> QED
      BY <3>1, <2>1, <2>3, <2>4, <2>5
  <2> QED
    BY <2>6, <2>7
<1> HIDE DEF then
<1>15. ASSUME Len(recent) = limit PROVE GrantedIn(k, then) < limit
  <2> DEFINE later == {i \in 1 .. n : g[i].at + Window > then}
  <2>1. later \subseteq (e + 1 .. n) \ {e + 1}
    <3> SUFFICES ASSUME NEW i \in 1 .. n, g[i].at + Window > then
                 PROVE  i \in e + 1 .. n /\ i # e + 1
      OBVIOUS
    <3>1. g[i].at + Window > clock
      BY <1>1, <1>6, <1>14
    <3>2. i # e + 1
      BY <1>1, <1>10, <1>14
    <3> QED
      BY <3>1, <3>2, <1>3, <1>4
  <2>2. e + 1 \in e + 1 .. n
    BY <1>4, <1>10
  <2>3. IsFiniteSet((e + 1 .. n) \ {e + 1}) /\ Cardinality((e + 1 .. n) \ {e + 1}) = Len(recent) - 1
    BY <2>2, <1>8, FS_RemoveElement
  <2>4. Cardinality(later) <= Len(recent) - 1 /\ Cardinality(later) \in Nat
    <3>1. IsFiniteSet(later) /\ Cardinality(later) <= Cardinality((e + 1 .. n) \ {e + 1})
      BY <2>1, <2>3, FS_Subset
    <3> QED
      BY <2>3, <3>1, FS_CardinalityType
  <2>5. GrantedIn(k, then) = Cardinality(later)
    BY <1>7
  <2> HIDE DEF later
  <2> QED
    BY <2>4, <2>5, <1>2, <1>15
<1>16. ASSUME Len(recent) = limit, retry > 1 PROVE GrantedIn(k, then - Second) >= limit
  <2> DEFINE before == {i \in 1 .. n : g[i].at + Window > then - Second}
  <2>1. e + 1 .. n \subseteq before
    <3> SUFFICES ASSUME NEW i \in e + 1 .. n PROVE g[i].at + Window > then - Second /\ i \in 1 .. n
      OBVIOUS
    <3>1. i \in 1 .. n /\ e + 1 <= i /\ e + 1 \in 1 .. n
      BY <1>4, <1>10
    <3>2. g[e + 1].at <= g[i].at
      <4>1. CASE i = e + 1
        BY <4>1, <3>1, <1>6
      <4>2. CASE i # e + 1
        <5>1. e + 1 < i
          BY <3>1, <4>2, <1>4
        <5> QED
          BY <3>1, <5>1, <1>5 DEF Ordered, n
      <4> QED
        BY <4>1, <4>2
    <3>3. first <= g[i].at /\ g[i].at \in Nat /\ then - Second < first + Window
      BY <3>1, <3>2, <1>6, <1>10, <1>14, <1>16
    <3>4. first \in Nat /\ Window \in Nat /\ Second \in Nat /\ then \in Nat
      BY <1>1, <1>10, <1>14
    <3>5. g[i].at + Window > then - Second
      BY <3>3, <3>4
    <3> QED
      BY <3>1, <3>5
  <2>2. IsFiniteSet(before)
    <3>1. IsFiniteSet(1 .. n)
      BY <1>4, FS_Interval
    <3> QED
      BY <3>1, FS_Subset
  <2>3. Cardinality(before) >= Cardinality(e + 1 .. n) /\ Cardinality(before) \in Nat
    BY <2>1, <2>2, FS_Subset, FS_CardinalityType
  <2>4. GrantedIn(k, then - Second) = Cardinality(before)
    BY <1>7
  <2> HIDE DEF before
  <2> QED
    BY <2>3, <2>4, <1>8, <1>16
<1> QED
  BY <1>9, <1>13, <1>15, <1>16 DEF then, retry, recent

\* A request that only moves on disturbs nothing, as long as it has a key when it comes to
\* the limiter.
LEMMA MoveStep ==
  ASSUME AdmissionInv, UNCHANGED <<clock, windows, granted>>, edits' \in 0 .. MaxEdits,
         keys' \in [KeyIds -> {NoKey} \cup KeyRow], req' \in [Requests -> Caller],
         \A q \in Requests : req'[q].pc \in {"touch", "read", "limit"} => req'[q].token \in KeyIds
  PROVE  AdmissionInv'
<1>1. \A q \in KeyIds : Remembers(q)' /\ InOrder(q)'
  BY DEF AdmissionInv, Remembers, InOrder
<1>2. TypeOK' /\ WithinLimit'
  BY DEF AdmissionInv, TypeOK, WithinLimit
<1> QED
  BY <1>1, <1>2 DEF AdmissionInv

\* Time passes: what had expired stays so.
LEMMA TickStep == AdmissionInv /\ Tick => AdmissionInv'
<1> SUFFICES ASSUME AdmissionInv, Tick PROVE AdmissionInv'
  OBVIOUS
<1>1. /\ TypeOK /\ WithinLimit
      /\ windows \in [KeyIds -> Seq(Nat)] /\ granted \in [KeyIds -> Seq(Grants)]
      /\ \A q \in KeyIds : Remembers(q) /\ InOrder(q)
  BY DEF AdmissionInv
<1>2. clock' = clock + 1 /\ clock \in Nat /\ clock' \in 0 .. MaxClock
      /\ UNCHANGED <<keys, windows, req, granted, edits>>
  BY <1>1, AdmissionAssumption DEF Tick, TypeOK
<1>3. ASSUME NEW q \in KeyIds PROVE Remembers(q)' /\ InOrder(q)'
  <2> DEFINE g == granted[q]
             w == windows[q]
  <2>1. g \in Seq(Grants) /\ Len(g) \in Nat
    BY <1>1
  <2>2. ASSUME NEW i \in 1 .. Len(g) PROVE g[i].at \in Nat
    <3>1. g[i] \in Grants
      BY <2>1, ElementOfSeq
    <3> QED
      BY <3>1 DEF Grants
  <2>3. PICK d \in 0 .. Len(g) : /\ Len(g) = d + Len(w)
                                 /\ \A i \in 1 .. Len(w) : w[i] = g[d + i].at
                                 /\ \A i \in 1 .. d : g[i].at + Window <= clock
    BY <1>1 DEF Remembers, Recalls
  <2>4. Ordered(g, clock)
    BY <1>1 DEF InOrder
  <2> HIDE DEF g, w
  <2>5. ASSUME NEW i \in 1 .. d PROVE g[i].at + Window <= clock + 1
    <3>1. i \in 1 .. Len(g)
      BY <2>1
    <3>2. g[i].at + Window <= clock
      BY <2>3
    <3> QED
      BY <3>1, <3>2, <2>2, <1>2, AdmissionAssumption
  <2>6. Recalls(w, g, clock + 1)
    BY <2>3, <2>5 DEF Recalls
  <2>7. Ordered(g, clock + 1)
    BY <2>2, <2>4, <1>2 DEF Ordered
  <2> QED
    BY <2>6, <2>7, <1>2 DEF Remembers, InOrder, g, w
<1>4. WithinLimit'
  BY <1>1, <1>2 DEF WithinLimit
<1>5. ASSUME NEW q \in KeyIds PROVE windows[q] \in Seq(0 .. clock + 1)
  <2>1. windows[q] \in Seq(0 .. clock)
    BY <1>1 DEF TypeOK
  <2> DEFINE w == windows[q]
  <2> HIDE DEF w
  <2>2. \A i \in 1 .. Len(w) : w[i] \in 0 .. clock + 1
    <3> SUFFICES ASSUME NEW i \in 1 .. Len(w) PROVE w[i] \in 0 .. clock + 1
      OBVIOUS
    <3>1. w[i] \in 0 .. clock
      BY <2>1, ElementOfSeq DEF w
    <3> QED
      BY <3>1, <1>2
  <2>3. w \in Seq(0 .. clock)
    BY <2>1 DEF w
  <2>4. w \in Seq(0 .. clock + 1)
    BY <2>2, <2>3, SeqOfEntries
  <2> QED
    BY <2>4 DEF w
<1>6. TypeOK'
  BY <1>1, <1>2, <1>5 DEF TypeOK
<1> QED
  BY <1>1, <1>2, <1>3, <1>4, <1>6 DEF AdmissionInv

\* Nothing has been granted yet.
LEMMA AdmissionInvInit == Init => AdmissionInv
<1> SUFFICES ASSUME Init PROVE AdmissionInv
  OBVIOUS
<1>1. /\ windows = [k \in KeyIds |-> <<>>] /\ granted = [k \in KeyIds |-> <<>>]
      /\ clock = 0 /\ edits = 0
  BY DEF Init
<1>2. windows \in [KeyIds -> Seq(Nat)] /\ granted \in [KeyIds -> Seq(Grants)]
  <2>1. <<>> \in Seq(Nat) /\ <<>> \in Seq(Grants)
    OBVIOUS
  <2> QED
    BY <1>1, <2>1
<1>3. ASSUME NEW k \in KeyIds PROVE Remembers(k) /\ InOrder(k)
  <2>1. windows[k] = <<>> /\ granted[k] = <<>> /\ Len(<<>>) = 0
    BY <1>1
  <2>2. Recalls(<<>>, <<>>, clock)
    <3>1. 0 \in 0 .. Len(<<>>) /\ Len(<<>>) = 0 + Len(<<>>)
      OBVIOUS
    <3> QED
      BY <3>1 DEF Recalls
  <2>3. Ordered(<<>>, clock)
    BY DEF Ordered
  <2> QED
    BY <2>1, <2>2, <2>3 DEF Remembers, InOrder
<1>4. WithinLimit
  BY <1>1 DEF WithinLimit
<1>5. req \in [Requests -> Caller] /\ \A r \in Requests : req[r].pc = "start"
  <2>1. \A t \in KeyIds \cup {Anonymous, Unknown} : Arriving(t) \in Caller /\ Arriving(t).pc = "start"
    BY DEF Arriving, Caller
  <2>2. req \in [Requests -> {Arriving(t) : t \in KeyIds \cup {Anonymous, Unknown}}]
    BY DEF Init
  <2> QED
    BY <2>1, <2>2
<1>6. keys \in [KeyIds -> {NoKey} \cup KeyRow]
  BY DEF Init, KeyRow
<1>7. ASSUME NEW k \in KeyIds
      PROVE  /\ windows[k] \in Seq(0 .. clock)
             /\ \A i, j \in DOMAIN windows[k] : i < j => windows[k][i] <= windows[k][j]
             /\ \E limit \in Limits : Len(windows[k]) <= limit
  <2>1. windows[k] = <<>> /\ <<>> \in Seq(0 .. clock) /\ Len(<<>>) = 0 /\ DOMAIN <<>> = 1 .. 0
    BY <1>1
  <2>2. PICK limit \in Limits : limit \in Nat
    BY AdmissionAssumption
  <2> QED
    BY <2>1, <2>2
<1>8. TypeOK
  BY <1>1, <1>5, <1>6, <1>7, AdmissionAssumption DEF TypeOK
<1> QED
  BY <1>2, <1>3, <1>4, <1>5, <1>8 DEF AdmissionInv

\* The limiter grants within the limit it was given, and forgets what has expired only.
LEMMA LimiterStep ==
  ASSUME AdmissionInv, NEW r \in Requests, RateLimiter(r)
  PROVE  AdmissionInv'
<1>1. /\ req[r].pc = "limit" /\ req[r].token \in KeyIds /\ req[r].limit \in Nat
      /\ req \in [Requests -> Caller] /\ edits \in 0 .. MaxEdits
      /\ keys \in [KeyIds -> {NoKey} \cup KeyRow]
      /\ UNCHANGED <<clock, keys, edits>>
  BY AdmissionAssumption DEF RateLimiter, AdmissionInv, TypeOK, Caller
<1>2. CASE req[r].limit = 0 /\ req' = [req EXCEPT ![r].pc = "body"] /\ UNCHANGED <<windows, granted>>
  <2>1. req' \in [Requests -> Caller]
    BY <1>1, <1>2 DEF Caller
  <2>2. \A q \in Requests : req'[q].pc \in {"touch", "read", "limit"} => req'[q].token \in KeyIds
    BY <1>1, <1>2 DEF AdmissionInv, Caller
  <2> QED
    BY <2>1, <2>2, <1>1, <1>2, MoveStep
<1>3. CASE /\ req[r].limit > 0 /\ Len(Recent(req[r].token, clock)) >= req[r].limit
           /\ windows' = [windows EXCEPT ![req[r].token] =
                            KeptWhenRefused(Recent(req[r].token, clock), clock)]
           /\ req' = [req EXCEPT ![r].pc = "limited",
                                 ![r].retry = RetryAfter(Recent(req[r].token, clock), clock)]
           /\ UNCHANGED granted
  <2>1. RetryAfter(Recent(req[r].token, clock), clock) \in Nat
    BY <1>1, <1>3, RefusalTells
  <2> QED
    BY <2>1, <1>1, <1>3, RefuseStep DEF KeptWhenRefused
<1>4. CASE /\ req[r].limit > 0 /\ Len(Recent(req[r].token, clock)) < req[r].limit
           /\ windows' = [windows EXCEPT ![req[r].token] =
                   KeptWhenGranted(req[r].token, Recent(req[r].token, clock), clock)]
           /\ granted' = [granted EXCEPT ![req[r].token] =
                            Append(@, [at |-> clock, limit |-> req[r].limit])]
           /\ req' = [req EXCEPT ![r].pc = "body"]
  BY <1>1, <1>4, GrantStep DEF KeptWhenGranted
<1> QED
  BY <1>2, <1>3, <1>4 DEF RateLimiter

\* Only a request with a key comes to the limiter, and no step but the limiter's touches what
\* it remembers.
LEMMA AdmissionInvNext == AdmissionInv /\ [Next]_vars => AdmissionInv'
<1> SUFFICES ASSUME AdmissionInv, [Next]_vars PROVE AdmissionInv'
  OBVIOUS
<1>1. /\ req \in [Requests -> Caller] /\ edits \in 0 .. MaxEdits
      /\ keys \in [KeyIds -> {NoKey} \cup KeyRow]
      /\ \A q \in Requests : req[q].pc \in {"touch", "read", "limit"} => req[q].token \in KeyIds
  BY DEF AdmissionInv, TypeOK
<1>2. ASSUME NEW r \in Requests, Authenticate(r) PROVE AdmissionInv'
  <2> DEFINE row == keys[req[r].token]
  <2>1. UNCHANGED <<clock, keys, windows, granted, edits>>
    BY <1>2 DEF Authenticate
  <2>2. \/ req' = [req EXCEPT ![r].pc = "body"] \/ req' = [req EXCEPT ![r].pc = "refused"]
        \/ /\ req[r].token \in KeyIds /\ row # NoKey
           /\ req' = [req EXCEPT ![r].pc = "touch", ![r].scope = row.scope]
    BY <1>2 DEF Authenticate, Refuse
  <2>3. ASSUME NEW pc \in {"body", "refused"}, req' = [req EXCEPT ![r].pc = pc]
        PROVE  /\ req' \in [Requests -> Caller]
               /\ \A q \in Requests : req'[q].pc \in {"touch", "read", "limit"} =>
                                        req'[q].token \in KeyIds
    BY <1>1, <2>3 DEF Caller
  <2>4. ASSUME req[r].token \in KeyIds, row # NoKey,
               req' = [req EXCEPT ![r].pc = "touch", ![r].scope = row.scope]
        PROVE  /\ req' \in [Requests -> Caller]
               /\ \A q \in Requests : req'[q].pc \in {"touch", "read", "limit"} =>
                                        req'[q].token \in KeyIds
    <3>1. row.scope \in Scopes
      BY <1>1, <2>4 DEF KeyRow
    <3> DEFINE scope == row.scope
               c == [req[r] EXCEPT !.pc = "touch", !.scope = scope]
    <3> HIDE DEF scope
    <3>2. c \in Caller /\ c.token = req[r].token
      BY <1>1, <3>1 DEF Caller, scope
    <3>3. req' = [req EXCEPT ![r] = c]
      BY <1>1, <2>4 DEF scope
    <3> HIDE DEF c
    <3> QED
      BY <1>1, <2>4, <3>2, <3>3
  <2> QED
    BY <1>1, <2>1, <2>2, <2>3, <2>4, MoveStep
<1>3. ASSUME NEW r \in Requests, TouchKey(r) PROVE AdmissionInv'
  <2>1. /\ req' \in [Requests -> Caller]
        /\ \A q \in Requests : req'[q].pc \in {"touch", "read", "limit"} => req'[q].token \in KeyIds
    BY <1>1, <1>3 DEF TouchKey, Caller
  <2> QED
    BY <1>1, <1>3, <2>1, MoveStep DEF TouchKey
<1>4. ASSUME NEW r \in Requests, RateLimitFor(r) PROVE AdmissionInv'
  <2> DEFINE row == keys[req[r].token]
             limit == IF row = NoKey THEN 0 ELSE row.limit
             c == [req[r] EXCEPT !.pc = "limit", !.limit = limit]
  <2>1. limit \in Limits \cup {0} /\ req[r].token \in KeyIds
    BY <1>1, <1>4 DEF RateLimitFor, KeyRow
  <2>2. req' = [req EXCEPT ![r].pc = "limit", ![r].limit = limit]
    BY <1>4 DEF RateLimitFor
  <2> HIDE DEF limit
  <2>3. req' = [req EXCEPT ![r] = c]
    BY <1>1, <2>2
  <2>4. c \in Caller /\ c.token = req[r].token
    BY <1>1, <2>1 DEF Caller
  <2> HIDE DEF c
  <2>5. /\ req' \in [Requests -> Caller]
        /\ \A q \in Requests : req'[q].pc \in {"touch", "read", "limit"} => req'[q].token \in KeyIds
    BY <1>1, <2>1, <2>3, <2>4
  <2> QED
    BY <1>1, <1>4, <2>5, MoveStep DEF RateLimitFor
<1>5. ASSUME NEW r \in Requests, ReadBody(r) PROVE AdmissionInv'
  <2>1. \E pc \in {"admitted", "refused"} : req' = [req EXCEPT ![r].pc = pc]
    BY <1>5 DEF ReadBody, Refuse
  <2>2. /\ req' \in [Requests -> Caller]
        /\ \A q \in Requests : req'[q].pc \in {"touch", "read", "limit"} => req'[q].token \in KeyIds
    BY <1>1, <2>1 DEF Caller
  <2> QED
    BY <1>1, <1>5, <2>2, MoveStep DEF ReadBody
<1>6. ASSUME NEW k \in KeyIds, UpdateKey(k) \/ DeleteKey(k) PROVE AdmissionInv'
  <2>1. keys' \in [KeyIds -> {NoKey} \cup KeyRow] /\ edits' \in 0 .. MaxEdits
        /\ UNCHANGED <<clock, windows, req, granted>>
    BY <1>1, <1>6, AdmissionAssumption DEF UpdateKey, DeleteKey
  <2> QED
    BY <1>1, <2>1, MoveStep
<1>7. CASE UNCHANGED vars
  BY <1>1, <1>7, MoveStep DEF vars
<1> QED
  BY <1>2, <1>3, <1>4, <1>5, <1>6, <1>7, LimiterStep, TickStep DEF Next

\* The window is well formed and what it lets through is within the limit, for any requests,
\* keys, limits and edits (auth.ts, rateLimiter).
THEOREM LimitAlwaysHolds == Spec => []LimitHolds
<1>1. AdmissionInv => LimitHolds
  BY DEF AdmissionInv, LimitHolds
<1> QED
  BY <1>1, AdmissionInvInit, AdmissionInvNext, PTL DEF Spec

\* A refusal is deserved, and what it says about waiting is so (auth.ts, rateLimiter).
THEOREM RefusalsAreRight == Spec => RefusalIsRight
<1> DEFINE Limited(r) == RateLimiter(r) /\ req'[r].pc = "limited"
<1>1. ASSUME AdmissionInv, NEW r \in Requests, Limited(r)
      PROVE  /\ req[r].token \in KeyIds /\ req[r].limit \in Nat /\ req[r].limit > 0
             /\ Len(Recent(req[r].token, clock)) >= req[r].limit
             /\ req'[r].retry = RetryAfter(Recent(req[r].token, clock), clock)
  <2> DEFINE retry == RetryAfter(Recent(req[r].token, clock), clock)
             size == Len(Recent(req[r].token, clock))
  <2>1. /\ req[r].token \in KeyIds /\ req[r].limit \in Nat /\ req \in [Requests -> Caller]
        /\ req[r].pc = "limit"
    BY <1>1, AdmissionAssumption DEF AdmissionInv, TypeOK, Caller, RateLimiter
  <2>2. \/ req' = [req EXCEPT ![r].pc = "body"]
        \/ /\ req[r].limit > 0 /\ size >= req[r].limit
           /\ req' = [req EXCEPT ![r].pc = "limited", ![r].retry = retry]
    BY <1>1 DEF RateLimiter
  <2> HIDE DEF retry, size
  <2>3. req' # [req EXCEPT ![r].pc = "body"]
    BY <1>1, <2>1 DEF Caller
  <2>4. req'[r].retry = retry /\ req[r].limit > 0 /\ size >= req[r].limit
    BY <2>1, <2>2, <2>3 DEF Caller
  <2> QED
    BY <2>1, <2>4 DEF retry, size
<1>2. AdmissionInv /\ [Next]_vars =>
        [\A r \in Requests : RateLimiter(r) /\ req'[r].pc = "limited" =>
           GrantedIn(req[r].token, clock) >= req[r].limit]_vars
  BY <1>1, RefusalTells
<1>3. AdmissionInv /\ [Next]_vars =>
        [\A r \in Requests :
           LET k == req[r].token
               then == clock + req'[r].retry * Second
           IN  RateLimiter(r) /\ req'[r].pc = "limited" /\ Len(Recent(k, clock)) = req[r].limit =>
                 /\ GrantedIn(k, then) < req[r].limit
                 /\ req'[r].retry > 1 => GrantedIn(k, then - Second) >= req[r].limit]_vars
  BY <1>1, RefusalTells
<1> QED
  BY <1>2, <1>3, AdmissionInvInit, AdmissionInvNext, PTL
     DEF Spec, RefusalIsRight, RefusalIsEarned, RefusalIsHonest

----------------------------------------------------------------------------
(* Credentials.  A page's copy of a provider is what was stored at the        *)
(* revision it carries; the store only moves on from there, and an untouched  *)
(* form sends that copy's masks back.                                         *)

\* A finite set is listed with each of its members once.
LEMMA ListedOnce ==
  ASSUME NEW S, IsFiniteSet(S)
  PROVE  /\ SetToSeq(S) \in Seq(S)
         /\ \A i, j \in DOMAIN SetToSeq(S) : SetToSeq(S)[i] = SetToSeq(S)[j] => i = j
         /\ \A x \in S : \E i \in DOMAIN SetToSeq(S) : SetToSeq(S)[i] = x
<1> DEFINE n == Cardinality(S)
<1>1. n \in Nat /\ ExistsBijection(1 .. n, S) /\ IsFiniteSet(1 .. n) /\ Cardinality(1 .. n) = n
  BY FS_CardinalityType, FS_Interval
<1>2. \E f \in [1 .. n -> S] : IsInjective(f)
  BY <1>1 DEF ExistsBijection, Bijection, Injection
<1>3. SetToSeq(S) \in [1 .. n -> S] /\ IsInjective(SetToSeq(S))
  BY <1>2 DEF SetToSeq
<1>4. SetToSeq(S) \in Injection(1 .. n, S)
  BY <1>3 DEF Injection
<1> HIDE DEF n
<1>5. SetToSeq(S) \in Surjection(1 .. n, S)
  BY <1>1, <1>4, FS_Injection DEF n
<1> QED
  BY <1>1, <1>3, <1>5 DEF IsInjective, Surjection

\* A map of headers is a function from some of the names.
LEMMA HeaderMapTells ==
  ASSUME NEW h \in HeaderMaps
  PROVE  /\ DOMAIN h \subseteq Names /\ IsFiniteSet(DOMAIN h) /\ "" \notin DOMAIN h
         /\ h = [n \in DOMAIN h |-> h[n]]
         /\ \A n \in DOMAIN h : h[n] \in Values
<1>1. PICK N \in SUBSET Names : h \in [N -> Values]
  BY DEF HeaderMaps
<1>2. DOMAIN h = N /\ IsFiniteSet(N)
  BY <1>1, ConsoleAssumption, FS_Subset
<1> QED
  BY <1>1, <1>2, ConsoleAssumption

\* Opening a form on a map of headers and saving it gives the map again.
LEMMA FormsKeepHeaders ==
  ASSUME NEW h \in HeaderMaps
  PROVE  fromPairs(toPairs(h)) = h
<1> DEFINE names == SetToSeq(DOMAIN h)
           rows == toPairs(h)
<1>1. /\ IsFiniteSet(DOMAIN h) /\ "" \notin DOMAIN h
      /\ h = [n \in DOMAIN h |-> h[n]]
  BY HeaderMapTells
<1>2. /\ names \in Seq(DOMAIN h)
      /\ \A i, j \in DOMAIN names : names[i] = names[j] => i = j
      /\ \A n \in DOMAIN h : \E i \in DOMAIN names : names[i] = n
  BY <1>1, ListedOnce
<1>3. /\ DOMAIN rows = DOMAIN names
      /\ \A i \in DOMAIN names : rows[i].name = names[i] /\ rows[i].value = h[names[i]]
  BY DEF toPairs
<1>4. DOMAIN names = 1 .. Len(names) /\ Len(names) \in Nat /\ \A i \in DOMAIN names : names[i] \in DOMAIN h
  BY <1>2
<1> HIDE DEF names, rows
<1>5. {rows[i].name : i \in DOMAIN rows} \ {""} = DOMAIN h
  <2>1. \A i \in DOMAIN rows : rows[i].name \in DOMAIN h
    BY <1>3, <1>4
  <2>2. \A n \in DOMAIN h : \E i \in DOMAIN rows : rows[i].name = n
    BY <1>2, <1>3
  <2> QED
    BY <1>1, <2>1, <2>2
<1>6. ASSUME NEW n \in DOMAIN h
      PROVE  rows[CHOOSE i \in DOMAIN rows :
                    rows[i].name = n /\ \A j \in DOMAIN rows : rows[j].name = n => j <= i].value = h[n]
  <2>1. PICK i \in DOMAIN names : names[i] = n
    BY <1>2
  <2>2. \A j \in DOMAIN names : names[j] = n => j = i
    BY <1>2, <2>1
  <2>3. i <= i
    BY <1>4
  <2>4. (CHOOSE l \in DOMAIN rows : rows[l].name = n /\ \A j \in DOMAIN rows : rows[j].name = n => j <= l) = i
    BY <1>3, <2>1, <2>2, <2>3
  <2> QED
    BY <2>1, <2>4, <1>3
<1>7. fromPairs(rows) = [n \in DOMAIN h |-> h[n]]
  BY <1>5, <1>6 DEF fromPairs
<1> QED
  BY <1>1, <1>7 DEF rows

\* A mask is no credential, and a mask sent back stands for what it masked.
LEMMA MasksTell ==
  ASSUME NEW h \in HeaderMaps
  PROVE  /\ \A v \in Values : maskApiKey(v) \in Values \ Secrets
         /\ maskHeaders(h) \in HeaderMaps
         /\ \A n \in DOMAIN maskHeaders(h) : maskHeaders(h)[n] \notin Secrets
         /\ unmaskUnchangedHeaders(maskHeaders(h), h) = h
<1>1. \A v \in Values : maskApiKey(v) \in Values \ Secrets
  BY ConsoleAssumption DEF maskApiKey, Values
<1>2. DOMAIN h \subseteq Names /\ h = [n \in DOMAIN h |-> h[n]] /\ \A n \in DOMAIN h : h[n] \in Values
  BY HeaderMapTells
<1>3. DOMAIN maskHeaders(h) = DOMAIN h /\ \A n \in DOMAIN h : maskHeaders(h)[n] = maskApiKey(h[n])
  BY DEF maskHeaders
<1>4. maskHeaders(h) \in [DOMAIN h -> Values]
  BY <1>1, <1>2 DEF maskHeaders
<1>5. maskHeaders(h) \in HeaderMaps
  BY <1>2, <1>4 DEF HeaderMaps
<1>6. unmaskUnchangedHeaders(maskHeaders(h), h) = [n \in DOMAIN h |-> h[n]]
  BY <1>3 DEF unmaskUnchangedHeaders
<1> QED
  BY <1>1, <1>2, <1>3, <1>5, <1>6

\* What the forms, the requests and the pages hold.
Pair == [name : Names \cup {""}, value : Values]
Form ==
  [id : Ids \cup {Nothing}, key : Secrets \cup {""}, touched : BOOLEAN, rows : Seq(Pair),
   enabled : BOOLEAN, edits : Nat, revision : Nat]
Patch == [key : Values \cup {Nothing}, headers : HeaderMaps \cup {Nothing}, enabled : BOOLEAN \cup {Nothing}]
Origins == {"form", "row", "script"}
Underway ==
  [pc : {"creating", "sent", "read"}, id : Ids \cup {Nothing}, from : Origins, patch : Patch,
   existing : Provider \cup {Nothing}, edits : Nat, revision : Nat]
Request == [pc : {"idle"}] \cup [pc : {"saved", "refused"}, from : Origins] \cup Underway
Copies == UNION {[ids -> Provider] : ids \in SUBSET Ids}
Tab ==
  [cached : Copies \cup {Nothing}, failed : BOOLEAN, editing : Form \cup {Nothing},
   form : Form \cup {Nothing}, request : Request]

\* The rows of a form always make a map of headers.
LEMMA RowsMakeHeaders == ASSUME NEW rows \in Seq(Pair) PROVE fromPairs(rows) \in HeaderMaps
<1> DEFINE S == {rows[i].name : i \in DOMAIN rows} \ {""}
           Latest(n) == CHOOSE i \in DOMAIN rows : rows[i].name = n /\ \A j \in DOMAIN rows : rows[j].name = n => j <= i
<1>0. \A m \in Nat : 1 .. m \subseteq 0 .. m
  OBVIOUS
<1>1. /\ DOMAIN rows = 1 .. Len(rows) /\ Len(rows) \in Nat
      /\ \A i \in DOMAIN rows : rows[i].name \in Names \cup {""} /\ rows[i].value \in Values
  <2>1. DOMAIN rows = 1 .. Len(rows) /\ Len(rows) \in Nat /\ \A i \in DOMAIN rows : rows[i] \in Pair
    OBVIOUS
  <2> QED
    BY <2>1 DEF Pair
<1>2. ASSUME NEW n \in S PROVE rows[Latest(n)].value \in Values
  <2> DEFINE K == {i \in DOMAIN rows : rows[i].name = n}
  <2>1. K # {} /\ K \in SUBSET (0 .. Len(rows))
    <3>1. \E i \in DOMAIN rows : rows[i].name = n
      OBVIOUS
    <3>2. K # {}
      BY <3>1
    <3>3. K \subseteq 1 .. Len(rows)
      BY <1>1
    <3> HIDE DEF K
    <3> QED
      BY <1>0, <1>1, <3>2, <3>3
  <2>2. PICK k \in K : \A j \in K : j <= k
    <3> HIDE DEF K
    <3> QED
      BY <1>1, <2>1, GreatestElement
  <2>3. Latest(n) \in DOMAIN rows
    BY <2>2
  <2> QED
    BY <1>1, <2>3
<1>3. S \in SUBSET Names
  BY <1>1
<1>4. fromPairs(rows) = [n \in S |-> rows[Latest(n)].value]
  BY DEF fromPairs
<1> HIDE DEF S, Latest
<1>5. fromPairs(rows) \in [S -> Values]
  BY <1>2, <1>4
<1> QED
  BY <1>3, <1>5 DEF HeaderMaps

\* Typing leaves a form, of the same provider.
LEMMA EditedRowsTell ==
  ASSUME NEW rows \in Seq(Pair), NEW r \in EditedRows(rows)
  PROVE  r \in Seq(Pair)
<1>1. Len(rows) \in Nat /\ DOMAIN rows = 1 .. Len(rows) /\ \A i \in DOMAIN rows : rows[i] \in Pair
  OBVIOUS
<1>2. Secrets \subseteq Values /\ "" \in Values
  BY DEF Values
<1>3. ASSUME NEW i \in DOMAIN rows, NEW pair \in Pair PROVE [rows EXCEPT ![i] = pair] \in Seq(Pair)
  BY <1>1
<1>4. CASE r \in {Append(rows, pair) : pair \in [name : Names, value : Secrets]}
  <2>1. PICK pair \in [name : Names, value : Secrets] : r = Append(rows, pair)
    BY <1>4
  <2>2. pair \in Pair
    BY <1>2 DEF Pair
  <2> QED
    BY <2>1, <2>2
<1>5. CASE r \in UNION {{[rows EXCEPT ![i].name = n] : n \in Names \cup {""}} : i \in DOMAIN rows}
  <2>1. PICK i \in DOMAIN rows : r \in {[rows EXCEPT ![i].name = n] : n \in Names \cup {""}}
    BY <1>5
  <2>2. PICK n \in Names \cup {""} : r = [rows EXCEPT ![i] = [rows[i] EXCEPT !.name = n]]
    BY <2>1
  <2>3. [rows[i] EXCEPT !.name = n] \in Pair
    BY <1>1 DEF Pair
  <2> QED
    BY <2>2, <2>3, <1>3
<1>6. CASE r \in UNION {{[rows EXCEPT ![i].value = v] : v \in Secrets \cup {""}} : i \in DOMAIN rows}
  <2>1. PICK i \in DOMAIN rows : r \in {[rows EXCEPT ![i].value = v] : v \in Secrets \cup {""}}
    BY <1>6
  <2>2. PICK v \in Secrets \cup {""} : r = [rows EXCEPT ![i] = [rows[i] EXCEPT !.value = v]]
    BY <2>1
  <2>3. [rows[i] EXCEPT !.value = v] \in Pair
    BY <1>1, <1>2 DEF Pair
  <2> QED
    BY <2>2, <2>3, <1>3
<1>7. CASE r \in {RemoveAt(rows, i) : i \in DOMAIN rows}
  <2>1. PICK i \in DOMAIN rows : r = RemoveAt(rows, i)
    BY <1>7
  <2>2. SubSeq(rows, 1, i - 1) \in Seq(Pair) /\ SubSeq(rows, i + 1, Len(rows)) \in Seq(Pair)
    BY <1>1
  <2> QED
    BY <2>1, <2>2 DEF RemoveAt
<1> QED
  BY <1>4, <1>5, <1>6, <1>7 DEF EditedRows

\* A gesture changes neither which provider a form is about nor what it was loaded from.
LEMMA EditsTell ==
  ASSUME NEW form \in Form, NEW g \in Edits(form)
  PROVE  g \in Form /\ g.id = form.id /\ g.revision = form.revision /\ g.edits = form.edits
<1>1. CASE \E k \in Secrets \cup {""} : g = [form EXCEPT !.key = k, !.touched = TRUE]
  BY <1>1 DEF Form
<1>2. CASE \E rows \in EditedRows(form.rows) : g = [form EXCEPT !.rows = rows]
  <2>1. PICK rows \in EditedRows(form.rows) : g = [form EXCEPT !.rows = rows]
    BY <1>2
  <2>2. rows \in Seq(Pair)
    BY EditedRowsTell DEF Form
  <2> QED
    BY <2>1, <2>2 DEF Form
<1> QED
  BY <1>1, <1>2 DEF Edits

\* A patch that changes no credential of a row.
Harmless(patch, row) ==
  /\ patch.key \in {Nothing, maskApiKey(row.key)}
  /\ patch.headers \in {Nothing, maskHeaders(row.headers)}

\* What a page's copies, its form and its request have to do with the providers
\* p, of which the ids f are not handed out: none is ahead of the stored row, and
\* one at its revision carries its masks.
CachedTells(c, p, f) ==
  c # Nothing =>
    \A id \in DOMAIN c :
      /\ id \in Ids \ f /\ c[id] \in Provider
      /\ c[id].key \notin Secrets /\ \A n \in DOMAIN c[id].headers : c[id].headers[n] \notin Secrets
      /\ p[id] # Nothing =>
           /\ c[id].revision <= p[id].revision
           /\ c[id].revision = p[id].revision => c[id].headers = maskHeaders(p[id].headers)

\* A form nobody has touched holds the masks of the row it was loaded from, if that
\* row is as it was.
FormTells(g, p, f) ==
  g # Nothing /\ g.id # Nothing =>
    /\ g.id \notin f
    /\ p[g.id] # Nothing =>
         /\ g.revision <= p[g.id].revision
         /\ g.edits = 0 /\ g.revision = p[g.id].revision =>
              ~g.touched /\ fromPairs(g.rows) = maskHeaders(p[g.id].headers)

\* So does the request it sends, and what the handler has read for it lies between
\* the copy and the store.
SendTells(r, p, f) ==
  /\ r \in Underway
  /\ r.from = "form" => r.patch.key \in Secrets \cup {Nothing}
  /\ r.pc = "creating" => r.patch.headers \in HeaderMaps /\ r.patch.enabled \in BOOLEAN
  /\ r.pc # "creating" =>
       /\ r.id \in Ids \ f
       /\ p[r.id] # Nothing =>
            /\ r.revision <= p[r.id].revision
            /\ r.edits = 0 /\ r.revision = p[r.id].revision => Harmless(r.patch, p[r.id])
  /\ r.pc = "read" /\ p[r.id] # Nothing =>
       /\ r.existing # Nothing
       /\ r.revision <= r.existing.revision /\ r.existing.revision <= p[r.id].revision
       /\ r.existing.revision = p[r.id].revision =>
            r.existing.key = p[r.id].key /\ r.existing.headers = p[r.id].headers

RequestTells(r, p, f) == r.pc \in {"creating", "sent", "read"} => SendTells(r, p, f)

TabTells(x, p, f) ==
  /\ CachedTells(x.cached, p, f)
  /\ FormTells(x.editing, p, f)
  /\ FormTells(x.form, p, f)
  /\ RequestTells(x.request, p, f)

\* What every page holds is what the store was at some revision not later than now.
ConsoleInv ==
  /\ provider \in [Ids -> Provider \cup {Nothing}]
  /\ fresh \subseteq Ids /\ \A id \in fresh : provider[id] = Nothing
  /\ tab \in [Tabs -> Tab]
  /\ \A t \in Tabs : TabTells(tab[t], provider, fresh)

\* How the providers go on: a row that is there was there, and has changed only
\* with its revision.
GoesOn(p, f, q, g) ==
  /\ g \subseteq f
  /\ \A id \in Ids \ f :
       q[id] # Nothing =>
         /\ p[id] # Nothing /\ p[id].revision <= q[id].revision
         /\ p[id].revision = q[id].revision => p[id].key = q[id].key /\ p[id].headers = q[id].headers

\* What a page holds stays what it was of the providers.
LEMMA CopiesGoOn ==
  ASSUME NEW p \in [Ids -> Provider \cup {Nothing}], NEW q \in [Ids -> Provider \cup {Nothing}],
         NEW f, NEW g, GoesOn(p, f, q, g), NEW x \in Tab, TabTells(x, p, f)
  PROVE  TabTells(x, q, g)
<1>1. \A id \in Ids : (p[id] # Nothing => p[id].revision \in Nat) /\ (q[id] # Nothing => q[id].revision \in Nat)
  BY DEF Provider
<1>2. CachedTells(x.cached, q, g)
  <2> SUFFICES ASSUME x.cached # Nothing, NEW id \in DOMAIN x.cached
               PROVE  /\ id \in Ids \ g /\ x.cached[id] \in Provider
                      /\ x.cached[id].key \notin Secrets
                      /\ \A n \in DOMAIN x.cached[id].headers : x.cached[id].headers[n] \notin Secrets
                      /\ q[id] # Nothing =>
                           /\ x.cached[id].revision <= q[id].revision
                           /\ x.cached[id].revision = q[id].revision =>
                                x.cached[id].headers = maskHeaders(q[id].headers)
    BY DEF CachedTells
  <2> DEFINE c == x.cached[id]
  <2>1. /\ id \in Ids \ f /\ c \in Provider
        /\ c.key \notin Secrets /\ \A n \in DOMAIN c.headers : c.headers[n] \notin Secrets
        /\ p[id] # Nothing =>
             /\ c.revision <= p[id].revision
             /\ c.revision = p[id].revision => c.headers = maskHeaders(p[id].headers)
    BY DEF TabTells, CachedTells
  <2>2. id \in Ids \ g /\ c.revision \in Nat
    BY <2>1 DEF GoesOn, Provider
  <2> HIDE DEF c
  <2>3. ASSUME q[id] # Nothing
        PROVE  c.revision <= q[id].revision /\ (c.revision = q[id].revision => c.headers = maskHeaders(q[id].headers))
    <3>1. /\ p[id] # Nothing /\ p[id].revision <= q[id].revision
          /\ p[id].revision = q[id].revision => p[id].headers = q[id].headers
      BY <2>1, <2>3 DEF GoesOn
    <3>2. p[id].revision \in Nat /\ q[id].revision \in Nat
      BY <1>1, <2>1, <2>3, <3>1
    <3>3. c.revision = q[id].revision => c.revision = p[id].revision /\ p[id].revision = q[id].revision
      BY <2>1, <2>2, <3>1, <3>2
    <3>4. c.revision <= q[id].revision
      BY <2>1, <2>2, <3>1, <3>2
    <3> QED
      BY <2>1, <3>1, <3>3, <3>4
  <2> QED
    BY <2>1, <2>2, <2>3 DEF c
<1>3. ASSUME NEW y \in Form \cup {Nothing}, FormTells(y, p, f) PROVE FormTells(y, q, g)
  <2> SUFFICES ASSUME y # Nothing, y.id # Nothing
               PROVE  /\ y.id \notin g
                      /\ q[y.id] # Nothing =>
                           /\ y.revision <= q[y.id].revision
                           /\ y.edits = 0 /\ y.revision = q[y.id].revision =>
                                ~y.touched /\ fromPairs(y.rows) = maskHeaders(q[y.id].headers)
    BY DEF FormTells
  <2>1. y.id \in Ids \ f /\ y.id \notin g /\ y.revision \in Nat
    BY <1>3 DEF FormTells, Form, GoesOn
  <2> SUFFICES ASSUME q[y.id] # Nothing
               PROVE  /\ y.revision <= q[y.id].revision
                      /\ y.edits = 0 /\ y.revision = q[y.id].revision =>
                           ~y.touched /\ fromPairs(y.rows) = maskHeaders(q[y.id].headers)
    BY <2>1
  <2>2. /\ p[y.id] # Nothing /\ p[y.id].revision <= q[y.id].revision
        /\ p[y.id].revision = q[y.id].revision => p[y.id].headers = q[y.id].headers
    BY <2>1 DEF GoesOn
  <2>3. p[y.id].revision \in Nat /\ q[y.id].revision \in Nat
    BY <1>1, <2>1, <2>2
  <2>4. /\ y.revision <= p[y.id].revision
        /\ y.edits = 0 /\ y.revision = p[y.id].revision =>
             ~y.touched /\ fromPairs(y.rows) = maskHeaders(p[y.id].headers)
    BY <1>3, <2>2 DEF FormTells
  <2>5. y.revision = q[y.id].revision => y.revision = p[y.id].revision /\ p[y.id].revision = q[y.id].revision
    BY <2>1, <2>2, <2>3, <2>4
  <2>6. y.revision <= q[y.id].revision
    BY <2>1, <2>2, <2>3, <2>4
  <2> QED
    BY <2>2, <2>4, <2>5, <2>6
<1>4. RequestTells(x.request, q, g)
  <2> DEFINE r == x.request
  <2> SUFFICES ASSUME r.pc \in {"creating", "sent", "read"} PROVE SendTells(r, q, g)
    BY DEF RequestTells
  <2>1. SendTells(r, p, f)
    BY DEF TabTells, RequestTells
  <2> HIDE DEF r
  <2>2. CASE r.pc = "creating"
    BY <2>1, <2>2 DEF SendTells
  <2>3. CASE r.pc # "creating"
    <3>1. /\ r.id \in Ids \ f /\ r.id \notin g /\ r.revision \in Nat
          /\ r.existing # Nothing => r.existing.revision \in Nat
      BY <2>1, <2>3 DEF SendTells, GoesOn, Underway, Provider
    <3>2. CASE q[r.id] = Nothing
      BY <2>1, <2>3, <3>1, <3>2 DEF SendTells
    <3>3. CASE q[r.id] # Nothing
      <4>1. /\ p[r.id] # Nothing /\ p[r.id].revision <= q[r.id].revision
            /\ p[r.id].revision = q[r.id].revision => p[r.id].key = q[r.id].key /\ p[r.id].headers = q[r.id].headers
        BY <3>1, <3>3 DEF GoesOn
      <4>2. p[r.id].revision \in Nat /\ q[r.id].revision \in Nat
        BY <1>1, <3>1, <3>3, <4>1
      <4>3. /\ r.revision <= p[r.id].revision
            /\ r.edits = 0 /\ r.revision = p[r.id].revision => Harmless(r.patch, p[r.id])
        BY <2>1, <2>3, <4>1 DEF SendTells
      <4>4. /\ r.revision = q[r.id].revision => r.revision = p[r.id].revision /\ p[r.id].revision = q[r.id].revision
            /\ r.revision <= q[r.id].revision
        BY <3>1, <4>1, <4>2, <4>3
      <4>5. r.edits = 0 /\ r.revision = q[r.id].revision => Harmless(r.patch, q[r.id])
        BY <4>1, <4>3, <4>4 DEF Harmless
      <4>6. ASSUME r.pc = "read"
            PROVE  /\ r.existing # Nothing
                   /\ r.revision <= r.existing.revision /\ r.existing.revision <= q[r.id].revision
                   /\ r.existing.revision = q[r.id].revision =>
                        r.existing.key = q[r.id].key /\ r.existing.headers = q[r.id].headers
        <5>1. /\ r.existing # Nothing
              /\ r.revision <= r.existing.revision /\ r.existing.revision <= p[r.id].revision
              /\ r.existing.revision = p[r.id].revision =>
                   r.existing.key = p[r.id].key /\ r.existing.headers = p[r.id].headers
          BY <2>1, <4>1, <4>6 DEF SendTells
        <5>2. /\ r.existing.revision <= q[r.id].revision
              /\ r.existing.revision = q[r.id].revision =>
                   r.existing.revision = p[r.id].revision /\ p[r.id].revision = q[r.id].revision
          BY <3>1, <4>1, <4>2, <5>1
        <5> QED
          BY <4>1, <5>1, <5>2
      <4> QED
        BY <2>1, <2>3, <3>1, <4>4, <4>5, <4>6 DEF SendTells
    <3> QED
      BY <3>2, <3>3
  <2> QED
    BY <2>2, <2>3
<1>5. FormTells(x.editing, q, g) /\ FormTells(x.form, q, g)
  BY <1>3 DEF TabTells, Tab
<1> QED
  BY <1>2, <1>4, <1>5 DEF TabTells

\* What a write makes of a row, from a patch and the row read before.
LEMMA PatchTells ==
  ASSUME NEW row \in Provider, NEW existing \in Provider, existing # Nothing, NEW patch \in Patch
  PROVE  LET w == Patched(row, Restored(patch, existing))
         IN  /\ w \in Provider /\ row.revision <= w.revision
             /\ row.revision = w.revision => row.key = w.key /\ row.headers = w.headers
             /\ Harmless(patch, existing) /\ existing.key = row.key /\ existing.headers = row.headers =>
                  w.key = row.key /\ w.headers = row.headers
             /\ patch.key \in Secrets \cup {Nothing} => w.key \in {row.key} \cup Secrets
<1> DEFINE unmasked == unmaskUnchangedHeaders(patch.headers, existing.headers)
           headers == IF patch.headers = Nothing THEN Nothing ELSE unmasked
           key == IF patch.key # Nothing /\ patch.key = maskApiKey(existing.key) THEN existing.key ELSE patch.key
           r == Restored(patch, existing)
           w == Patched(row, r)
<1>1. /\ row.key \in Values /\ row.headers \in HeaderMaps /\ row.enabled \in BOOLEAN /\ row.revision \in Nat
      /\ existing.key \in Values /\ existing.headers \in HeaderMaps
      /\ patch.key \in Values \cup {Nothing} /\ patch.headers \in HeaderMaps \cup {Nothing}
      /\ patch.enabled \in BOOLEAN \cup {Nothing}
  BY DEF Provider, Patch
<1>2. patch.headers # Nothing => unmasked \in HeaderMaps
  <2> SUFFICES ASSUME patch.headers # Nothing PROVE unmasked \in HeaderMaps
    OBVIOUS
  <2>1. /\ DOMAIN patch.headers \subseteq Names /\ \A n \in DOMAIN patch.headers : patch.headers[n] \in Values
        /\ \A n \in DOMAIN existing.headers : existing.headers[n] \in Values
    BY <1>1, HeaderMapTells
  <2>2. unmasked \in [DOMAIN patch.headers -> Values]
    BY <2>1 DEF unmaskUnchangedHeaders
  <2> HIDE DEF unmasked
  <2> QED
    BY <2>1, <2>2 DEF HeaderMaps
<1>3. /\ DOMAIN r = {"key", "headers", "enabled"}
      /\ r.key = key /\ r.headers = headers /\ r.enabled = patch.enabled
  BY DEF Restored, Patch
<1>4. Harmless(patch, existing) => headers \in {Nothing, existing.headers} /\ key \in {Nothing, existing.key}
  BY <1>1, MasksTell DEF Harmless
<1>5. patch.key \in Secrets \cup {Nothing} => key \in Secrets \cup {Nothing}
  BY <1>1, MasksTell
<1>6. key \in Values \cup {Nothing} /\ headers \in HeaderMaps \cup {Nothing}
  BY <1>1, <1>2
<1> HIDE DEF unmasked, headers, key, r
<1>7. w = [key |-> IF key = Nothing THEN row.key ELSE key,
           headers |-> IF headers = Nothing THEN row.headers ELSE headers,
           enabled |-> IF patch.enabled = Nothing THEN row.enabled ELSE patch.enabled,
           revision |-> IF r = [n \in DOMAIN r |-> Nothing] THEN row.revision ELSE row.revision + 1]
  BY <1>3 DEF Patched, Default
<1>8. r = [n \in DOMAIN r |-> Nothing] => key = Nothing /\ headers = Nothing
  BY <1>3
<1> HIDE DEF w
<1>9. w.revision \in Nat /\ row.revision <= w.revision /\ (row.revision = w.revision => r = [n \in DOMAIN r |-> Nothing])
  BY <1>1, <1>7
<1>10. w \in Provider
  BY <1>1, <1>6, <1>7, <1>9 DEF Provider
<1>11. row.revision = w.revision => row.key = w.key /\ row.headers = w.headers
  BY <1>7, <1>8, <1>9
<1> QED
  BY <1>4, <1>5, <1>7, <1>9, <1>10, <1>11 DEF w, r

\* A step of one page, whatever it does to the providers.
LEMMA PageStep ==
  ASSUME ConsoleInv, NEW t \in Tabs, NEW x \in Tab, tab' = [tab EXCEPT ![t] = x],
         provider' \in [Ids -> Provider \cup {Nothing}],
         \A id \in fresh' : provider'[id] = Nothing,
         GoesOn(provider, fresh, provider', fresh'), TabTells(x, provider', fresh')
  PROVE  ConsoleInv'
<1>1. tab' \in [Tabs -> Tab]
  BY DEF ConsoleInv
<1>2. ASSUME NEW s \in Tabs PROVE TabTells(tab'[s], provider', fresh')
  <2>1. CASE s = t
    BY <2>1 DEF ConsoleInv
  <2>2. CASE s # t
    <3>1. tab'[s] = tab[s] /\ tab[s] \in Tab /\ TabTells(tab[s], provider, fresh)
      BY <2>2 DEF ConsoleInv
    <3>2. TabTells(tab[s], provider', fresh')
      BY <3>1, CopiesGoOn DEF ConsoleInv
    <3> QED
      BY <3>1, <3>2
  <2> QED
    BY <2>1, <2>2
<1> QED
  BY <1>1, <1>2 DEF ConsoleInv, GoesOn

\* Providers nobody writes go on as they are.
LEMMA StandsStill == ConsoleInv => GoesOn(provider, fresh, provider, fresh)
<1> SUFFICES ASSUME ConsoleInv PROVE GoesOn(provider, fresh, provider, fresh)
  OBVIOUS
<1>1. \A id \in Ids : provider[id] # Nothing => provider[id].revision \in Nat
  BY DEF ConsoleInv, Provider
<1>2. \A id \in Ids : provider[id] # Nothing => provider[id].revision <= provider[id].revision
  BY <1>1
<1> QED
  BY <1>2 DEF GoesOn

\* A step of one page that leaves the store alone keeps the invariant when that page's
\* new record does.
LEMMA QuietStep ==
  ASSUME ConsoleInv, NEW t \in Tabs, NEW x \in Tab, tab' = [tab EXCEPT ![t] = x],
         UNCHANGED <<provider, fresh>>, TabTells(x, provider, fresh)
  PROVE  ConsoleInv'
<1>1. GoesOn(provider, fresh, provider', fresh') /\ TabTells(x, provider', fresh')
  BY StandsStill
<1>2. provider' \in [Ids -> Provider \cup {Nothing}] /\ \A id \in fresh' : provider'[id] = Nothing
  BY DEF ConsoleInv
<1> QED
  BY <1>1, <1>2, PageStep

\* What a page is shown is the masks of what is stored.
LEMMA LoadStep == ASSUME ConsoleInv, NEW t \in Tabs, Load(t) PROVE ConsoleInv'
<1> DEFINE C == [id \in Existing |-> toMaskedProvider(provider[id])]
           F == IF tab[t].form = Nothing /\ tab[t].editing # Nothing THEN tab[t].editing ELSE tab[t].form
           x == [tab[t] EXCEPT !.cached = C, !.failed = FALSE, !.form = F]
<1>1. tab \in [Tabs -> Tab] /\ tab[t] \in Tab /\ TabTells(tab[t], provider, fresh)
  BY DEF ConsoleInv
<1>2. ASSUME NEW id \in Existing
      PROVE  /\ id \in Ids \ fresh /\ C[id] \in Provider
             /\ C[id].key \notin Secrets /\ \A n \in DOMAIN C[id].headers : C[id].headers[n] \notin Secrets
             /\ C[id].revision <= provider[id].revision
             /\ C[id].headers = maskHeaders(provider[id].headers)
  <2>1. id \in Ids \ fresh /\ provider[id] \in Provider
    BY DEF Existing, ConsoleInv
  <2>2. /\ maskApiKey(provider[id].key) \in Values \ Secrets
        /\ maskHeaders(provider[id].headers) \in HeaderMaps
        /\ \A n \in DOMAIN maskHeaders(provider[id].headers) : maskHeaders(provider[id].headers)[n] \notin Secrets
    BY <2>1, MasksTell DEF Provider
  <2>3. C[id] = [provider[id] EXCEPT !.key = maskApiKey(provider[id].key), !.headers = maskHeaders(provider[id].headers)]
    BY DEF toMaskedProvider
  <2>4. /\ C[id] \in Provider /\ C[id].revision = provider[id].revision
        /\ C[id].key = maskApiKey(provider[id].key) /\ C[id].headers = maskHeaders(provider[id].headers)
    BY <2>1, <2>2, <2>3 DEF Provider
  <2>5. provider[id].revision <= provider[id].revision
    BY <2>1 DEF Provider
  <2> QED
    BY <2>1, <2>2, <2>4, <2>5
<1>3. CachedTells(C, provider, fresh) /\ C \in Copies
  <2>1. DOMAIN C = Existing /\ Existing \subseteq Ids
    BY DEF Existing
  <2>2. C \in [Existing -> Provider]
    BY <1>2
  <2> HIDE DEF C
  <2>3. CachedTells(C, provider, fresh)
    BY <1>2, <2>1 DEF CachedTells
  <2> QED
    BY <2>1, <2>2, <2>3 DEF Copies
<1>4. F \in Form \cup {Nothing} /\ FormTells(F, provider, fresh)
  BY <1>1 DEF Tab, TabTells
<1> HIDE DEF C, F
<1>5. tab' = [tab EXCEPT ![t] = x]
  BY <1>1 DEF Load, Tab, C, F
<1>6. /\ x \in Tab /\ x.cached = C /\ x.editing = tab[t].editing /\ x.form = F
      /\ x.request = tab[t].request
  BY <1>1, <1>3, <1>4 DEF Tab
<1> HIDE DEF x
<1>7. TabTells(x, provider, fresh)
  BY <1>1, <1>3, <1>4, <1>6 DEF TabTells
<1>8. UNCHANGED <<provider, fresh>>
  BY DEF Load
<1> QED
  BY <1>5, <1>6, <1>7, <1>8, QuietStep

\* The page changes what it edits, and nothing else.
LEMMA FormStep ==
  ASSUME ConsoleInv, NEW t \in Tabs, NEW failed \in BOOLEAN,
         NEW editing \in Form \cup {Nothing}, FormTells(editing, provider, fresh),
         NEW form \in Form \cup {Nothing}, FormTells(form, provider, fresh),
         tab' = [tab EXCEPT ![t] = [tab[t] EXCEPT !.failed = failed, !.editing = editing, !.form = form]],
         UNCHANGED <<provider, fresh>>
  PROVE  ConsoleInv'
<1> DEFINE x == [tab[t] EXCEPT !.failed = failed, !.editing = editing, !.form = form]
<1>1. tab \in [Tabs -> Tab] /\ tab[t] \in Tab /\ TabTells(tab[t], provider, fresh)
  BY DEF ConsoleInv
<1>2. tab' = [tab EXCEPT ![t] = x]
  BY <1>1
<1>3. /\ x \in Tab /\ x.cached = tab[t].cached /\ x.editing = editing /\ x.form = form
      /\ x.request = tab[t].request
  BY <1>1 DEF Tab
<1> HIDE DEF x
<1>4. TabTells(x, provider, fresh)
  BY <1>1, <1>3 DEF TabTells
<1> QED
  BY <1>2, <1>3, <1>4, QuietStep

\* No form tells anything true.
LEMMA Unedited == \A p, f : FormTells(Nothing, p, f) /\ Nothing \in Form \cup {Nothing}
BY DEF FormTells

\* The rows of a form opened on a map of headers.
LEMMA PairsTell == ASSUME NEW h \in HeaderMaps PROVE toPairs(h) \in Seq(Pair)
<1> DEFINE names == SetToSeq(DOMAIN h)
<1>1. names \in Seq(DOMAIN h) /\ DOMAIN h \subseteq Names /\ \A n \in DOMAIN h : h[n] \in Values
  BY HeaderMapTells, ListedOnce
<1>2. DOMAIN names = 1 .. Len(names) /\ Len(names) \in Nat /\ \A i \in DOMAIN names : names[i] \in DOMAIN h
  BY <1>1
<1>3. toPairs(h) = [i \in DOMAIN names |-> [name |-> names[i], value |-> h[names[i]]]]
  BY DEF toPairs
<1> HIDE DEF names
<1>4. \A i \in DOMAIN names : [name |-> names[i], value |-> h[names[i]]] \in Pair
  BY <1>1, <1>2 DEF Pair
<1> QED
  BY <1>2, <1>3, <1>4

\* A form opens empty, or on the copy a page shows.
LEMMA DraftTells ==
  ASSUME ConsoleInv, NEW t \in Tabs, tab[t].cached # Nothing,
         NEW draft \in {EMPTY_PROVIDER}
               \cup {providerToDraft(id, tab[t].cached[id]) : id \in DOMAIN tab[t].cached}
  PROVE  draft \in Form /\ FormTells(draft, provider, fresh)
<1>1. CASE draft = EMPTY_PROVIDER
  <2>1. <<>> \in Seq(Pair) /\ 0 \in Nat /\ TRUE \in BOOLEAN /\ FALSE \in BOOLEAN
    OBVIOUS
  <2>2. EMPTY_PROVIDER \in Form /\ EMPTY_PROVIDER.id = Nothing
    BY <2>1 DEF EMPTY_PROVIDER, Form
  <2> QED
    BY <1>1, <2>2 DEF FormTells
<1>2. CASE \E id \in DOMAIN tab[t].cached : draft = providerToDraft(id, tab[t].cached[id])
  <2>1. PICK id \in DOMAIN tab[t].cached : draft = providerToDraft(id, tab[t].cached[id])
    BY <1>2
  <2> DEFINE row == tab[t].cached[id]
  <2>2. /\ id \in Ids \ fresh /\ row \in Provider
        /\ provider[id] # Nothing =>
             row.revision <= provider[id].revision
             /\ (row.revision = provider[id].revision => row.headers = maskHeaders(provider[id].headers))
    BY DEF ConsoleInv, TabTells, CachedTells
  <2>3. draft = [id |-> id, key |-> "", touched |-> FALSE, rows |-> toPairs(row.headers),
                 enabled |-> row.enabled, edits |-> 0, revision |-> row.revision]
    BY <2>1 DEF providerToDraft
  <2> HIDE DEF row
  <2>4. row.headers \in HeaderMaps /\ row.enabled \in BOOLEAN /\ row.revision \in Nat
    BY <2>2 DEF Provider
  <2>5. toPairs(row.headers) \in Seq(Pair) /\ fromPairs(toPairs(row.headers)) = row.headers
    BY <2>4, PairsTell, FormsKeepHeaders
  <2>6. draft \in Form
    BY <2>2, <2>3, <2>4, <2>5 DEF Form
  <2>7. draft.id = id /\ draft.rows = toPairs(row.headers) /\ ~draft.touched /\ draft.revision = row.revision
    BY <2>3
  <2> QED
    BY <2>2, <2>5, <2>6, <2>7 DEF FormTells
<1> QED
  BY <1>1, <1>2

\* Opening, closing and typing change the form alone.
LEMMA FormActions ==
  ASSUME ConsoleInv, NEW t \in Tabs, LoadFails(t) \/ OpenForm(t) \/ CloseForm(t) \/ Type(t)
  PROVE  ConsoleInv'
<1>1. /\ tab \in [Tabs -> Tab] /\ tab[t] \in Tab
      /\ tab[t].failed \in BOOLEAN /\ tab[t].editing \in Form \cup {Nothing} /\ tab[t].form \in Form \cup {Nothing}
      /\ FormTells(tab[t].editing, provider, fresh) /\ FormTells(tab[t].form, provider, fresh)
  BY DEF ConsoleInv, Tab, TabTells
<1>2. CASE LoadFails(t)
  <2>1. tab' = [tab EXCEPT ![t] = [tab[t] EXCEPT !.failed = TRUE, !.editing = tab[t].editing, !.form = Nothing]]
    BY <1>1, <1>2 DEF LoadFails, Tab
  <2> QED
    BY ZenonT(60), <1>1, <1>2, <2>1, Unedited, FormStep DEF LoadFails
<1>3. CASE OpenForm(t)
  <2>1. PICK draft \in {EMPTY_PROVIDER} \cup {providerToDraft(id, tab[t].cached[id]) : id \in DOMAIN tab[t].cached} :
          tab' = [tab EXCEPT ![t].editing = draft, ![t].form = draft]
    BY <1>3 DEF OpenForm, Listed
  <2>2. draft \in Form /\ FormTells(draft, provider, fresh)
    BY <1>3, DraftTells DEF OpenForm, Visible
  <2>3. tab' = [tab EXCEPT ![t] = [tab[t] EXCEPT !.failed = tab[t].failed, !.editing = draft, !.form = draft]]
    BY <1>1, <2>1, <2>2 DEF Tab
  <2> QED
    BY <1>1, <1>3, <2>2, <2>3, FormStep DEF OpenForm
<1>4. CASE CloseForm(t)
  <2>1. tab' = [tab EXCEPT ![t] = [tab[t] EXCEPT !.failed = tab[t].failed, !.editing = Nothing, !.form = Nothing]]
    BY <1>1, <1>4 DEF CloseForm, Tab
  <2>2. UNCHANGED <<provider, fresh>>
    BY <1>4 DEF CloseForm
  <2> QED
    BY <1>1, <2>1, <2>2, Unedited, FormStep
<1>5. CASE Type(t)
  <2>1. PICK g \in Edits(tab[t].form) : tab' = [tab EXCEPT ![t].form = [g EXCEPT !.edits = @ + 1]]
    BY <1>5 DEF Type
  <2> DEFINE form == [g EXCEPT !.edits = @ + 1]
  <2>2. tab[t].form \in Form /\ tab[t].form # Nothing
    BY <1>1, <1>5 DEF Type
  <2>3. g \in Form /\ g.id = tab[t].form.id /\ g.revision = tab[t].form.revision
    BY <2>2, EditsTell
  <2>4. /\ form \in Form /\ form.edits = g.edits + 1 /\ g.edits \in Nat
        /\ form.id = tab[t].form.id /\ form.revision = tab[t].form.revision
    <3>1. g.edits \in Nat
      BY <2>3 DEF Form
    <3>2. g.edits + 1 \in Nat
      BY <3>1
    <3>3. \A n \in Nat : LET y == [g EXCEPT !.edits = n]
                         IN  y \in Form /\ y.edits = n /\ y.id = g.id /\ y.revision = g.revision
      BY <2>3 DEF Form
    <3> QED
      BY <2>3, <3>1, <3>2, <3>3
  <2>5. tab' = [tab EXCEPT ![t] = [tab[t] EXCEPT !.failed = tab[t].failed, !.editing = tab[t].editing, !.form = form]]
    BY <1>1, <2>1, <2>4 DEF Tab
  <2> HIDE DEF form
  <2>6. form.edits # 0
    BY <2>4
  <2>7. FormTells(form, provider, fresh)
    BY <1>1, <2>2, <2>4, <2>6 DEF FormTells
  <2> QED
    BY <1>1, <1>5, <2>4, <2>5, <2>7, FormStep DEF Type
<1> QED
  BY <1>2, <1>3, <1>4, <1>5

\* A page's request moves on, the providers stand still.
LEMMA RequestStep ==
  ASSUME ConsoleInv, NEW t \in Tabs, NEW r \in Request, RequestTells(r, provider, fresh),
         tab' = [tab EXCEPT ![t] = [tab[t] EXCEPT !.request = r]], UNCHANGED <<provider, fresh>>
  PROVE  ConsoleInv'
<1> DEFINE x == [tab[t] EXCEPT !.request = r]
<1>1. tab[t] \in Tab /\ TabTells(tab[t], provider, fresh)
  BY DEF ConsoleInv
<1>2. /\ x \in Tab /\ x.cached = tab[t].cached /\ x.editing = tab[t].editing /\ x.form = tab[t].form
      /\ x.request = r
  BY <1>1 DEF Tab
<1>3. tab' = [tab EXCEPT ![t] = x]
  OBVIOUS
<1> HIDE DEF x
<1>4. TabTells(x, provider, fresh)
  BY <1>1, <1>2 DEF TabTells
<1> QED
  BY <1>2, <1>3, <1>4, QuietStep

\* A request that leaves is no further than the store.
LEMMA SentTells ==
  ASSUME ConsoleInv, NEW id \in Ids \cup {Nothing}, NEW from \in Origins, NEW patch \in Patch,
         NEW typed \in Nat, NEW revision \in Nat,
         from = "form" => patch.key \in Secrets \cup {Nothing},
         id = Nothing => patch.headers \in HeaderMaps /\ patch.enabled \in BOOLEAN,
         id # Nothing => id \in Ids \ fresh,
         id # Nothing /\ provider[id] # Nothing =>
           /\ revision <= provider[id].revision
           /\ typed = 0 /\ revision = provider[id].revision => Harmless(patch, provider[id])
  PROVE  LET r == Sent(id, from, patch, typed, revision)
         IN  r \in Request /\ RequestTells(r, provider, fresh)
<1> DEFINE r == Sent(id, from, patch, typed, revision)
<1>1. r = [pc |-> IF id = Nothing THEN "creating" ELSE "sent", id |-> id, from |-> from, patch |-> patch,
           existing |-> Nothing, edits |-> typed, revision |-> revision]
  BY DEF Sent
<1> HIDE DEF r
<1>2. /\ r \in Underway /\ r.id = id /\ r.from = from /\ r.patch = patch /\ r.edits = typed
      /\ r.revision = revision /\ r.pc = IF id = Nothing THEN "creating" ELSE "sent"
  BY <1>1 DEF Underway
<1>3. /\ r.pc = "creating" => id = Nothing
      /\ r.pc # "creating" => id # Nothing
      /\ r.pc # "read"
  BY <1>2
<1>4. SendTells(r, provider, fresh)
  BY <1>2, <1>3 DEF SendTells
<1> QED
  BY <1>2, <1>4 DEF Request, RequestTells, r

\* What a form sends.
LEMMA InputTells ==
  ASSUME NEW form \in Form
  PROVE  LET patch == draftToInput(form)
         IN  /\ patch \in Patch /\ patch.key \in Secrets \cup {Nothing} /\ patch.headers = fromPairs(form.rows)
             /\ patch.headers \in HeaderMaps /\ patch.enabled \in BOOLEAN
             /\ ~form.touched => patch.key = Nothing
<1>1. fromPairs(form.rows) \in HeaderMaps
  BY RowsMakeHeaders DEF Form
<1>2. /\ form.key \in Secrets \cup {""} /\ form.enabled \in BOOLEAN
      /\ (IF form.touched /\ form.key # "" THEN form.key ELSE Nothing) \in Secrets \cup {Nothing}
  BY DEF Form
<1>3. Secrets \subseteq Values
  BY DEF Values
<1> QED
  BY <1>1, <1>2, <1>3 DEF draftToInput, Patch

\* A save sends what the form holds.
LEMMA SaveStep == ASSUME ConsoleInv, NEW t \in Tabs, Save(t) PROVE ConsoleInv'
<1> DEFINE form == tab[t].form
           patch == draftToInput(form)
           r == Sent(form.id, "form", patch, form.edits, form.revision)
<1>1. tab[t] \in Tab /\ TabTells(tab[t], provider, fresh) /\ tab \in [Tabs -> Tab]
  BY DEF ConsoleInv
<1>2. form \in Form /\ form # Nothing /\ FormTells(form, provider, fresh)
  BY <1>1 DEF Save, Tab, TabTells
<1>3. form.id \in Ids \cup {Nothing} /\ form.edits \in Nat /\ form.revision \in Nat
  BY <1>2 DEF Form
<1>4. tab' = [tab EXCEPT ![t] = [tab[t] EXCEPT !.request = r]] /\ UNCHANGED <<provider, fresh>>
  BY DEF Save, Sends
<1> HIDE DEF form
<1>5. /\ patch \in Patch /\ patch.key \in Secrets \cup {Nothing} /\ patch.headers = fromPairs(form.rows)
      /\ patch.headers \in HeaderMaps /\ patch.enabled \in BOOLEAN
      /\ ~form.touched => patch.key = Nothing
  BY <1>2, InputTells
<1> HIDE DEF patch
<1>6. form.id # Nothing => form.id \in Ids \ fresh
  BY <1>2, <1>3 DEF FormTells
<1>7. form.id # Nothing /\ provider[form.id] # Nothing =>
        /\ form.revision <= provider[form.id].revision
        /\ form.edits = 0 /\ form.revision = provider[form.id].revision => Harmless(patch, provider[form.id])
  BY <1>2, <1>5 DEF FormTells, Harmless
<1>8. "form" \in Origins
  BY DEF Origins
<1>9. r \in Request /\ RequestTells(r, provider, fresh)
  BY <1>3, <1>5, <1>6, <1>7, <1>8, SentTells
<1> HIDE DEF r
<1> QED
  BY <1>4, <1>9, RequestStep

\* The switch sends no credential.
LEMMA ToggleStep == ASSUME ConsoleInv, NEW t \in Tabs, Toggle(t) PROVE ConsoleInv'
<1>1. tab[t].cached # Nothing
  <2>1. PICK id \in IF Visible(t) /\ tab[t].form = Nothing THEN Listed(t) ELSE {} : TRUE
    BY DEF Toggle
  <2> QED
    BY <2>1 DEF Visible
<1>2. PICK id \in DOMAIN tab[t].cached :
        Sends(t, Sent(id, "row", [key |-> Nothing, headers |-> Nothing, enabled |-> ~tab[t].cached[id].enabled], 0, 0))
  BY DEF Toggle, Listed
<1> DEFINE patch == [key |-> Nothing, headers |-> Nothing, enabled |-> ~tab[t].cached[id].enabled]
           r == Sent(id, "row", patch, 0, 0)
<1>3. id \in Ids \ fresh /\ id # Nothing
  <2>1. id \in Ids \ fresh
    BY <1>1 DEF ConsoleInv, TabTells, CachedTells
  <2> QED
    BY <2>1, ConsoleAssumption
<1>4. patch \in Patch /\ patch.key = Nothing /\ patch.headers = Nothing
  BY DEF Patch
<1>5. tab' = [tab EXCEPT ![t] = [tab[t] EXCEPT !.request = r]] /\ UNCHANGED <<provider, fresh>>
  BY <1>2 DEF Sends
<1> HIDE DEF patch
<1>6. Harmless(patch, provider[id])
  BY <1>4 DEF Harmless
<1>7. provider[id] # Nothing => 0 <= provider[id].revision
  BY <1>3 DEF ConsoleInv, Provider
<1>8. "row" \in Origins /\ "row" # "form" /\ 0 \in Nat
  BY DEF Origins
<1>9. r \in Request /\ RequestTells(r, provider, fresh)
  BY <1>3, <1>4, <1>6, <1>7, <1>8, SentTells
<1> HIDE DEF r
<1> QED
  BY <1>5, <1>9, RequestStep

\* A client that puts back what it was given sends the masks of the row.
LEMMA RoundTripStep == ASSUME ConsoleInv, NEW t \in Tabs, RoundTrip(t) PROVE ConsoleInv'
<1>1. PICK id \in Existing : Sends(t, Sent(id, "script", Fields(toMaskedProvider(provider[id])), 0, provider[id].revision))
  BY DEF RoundTrip
<1> DEFINE row == provider[id]
           patch == Fields(toMaskedProvider(row))
           r == Sent(id, "script", patch, 0, row.revision)
<1>2. id \in Ids \ fresh /\ id # Nothing /\ row \in Provider
  BY ConsoleAssumption DEF Existing, ConsoleInv
<1>3. tab' = [tab EXCEPT ![t] = [tab[t] EXCEPT !.request = r]] /\ UNCHANGED <<provider, fresh>>
  BY <1>1 DEF Sends
<1> HIDE DEF row
<1>4. row.key \in Values /\ row.headers \in HeaderMaps /\ row.enabled \in BOOLEAN /\ row.revision \in Nat
  BY <1>2 DEF Provider
<1>5. maskApiKey(row.key) \in Values /\ maskHeaders(row.headers) \in HeaderMaps
  BY <1>4, MasksTell
<1>6. patch = [key |-> maskApiKey(row.key), headers |-> maskHeaders(row.headers), enabled |-> row.enabled]
  BY <1>2 DEF Fields, toMaskedProvider, Provider
<1> HIDE DEF patch
<1>7. patch \in Patch /\ Harmless(patch, row)
  BY <1>4, <1>5, <1>6 DEF Patch, Harmless
<1>8. row.revision <= row.revision /\ "script" \in Origins /\ "script" # "form" /\ 0 \in Nat
  BY <1>4 DEF Origins
<1>9. r \in Request /\ RequestTells(r, provider, fresh)
  BY <1>2, <1>4, <1>7, <1>8, SentTells DEF row
<1> HIDE DEF r
<1> QED
  BY <1>3, <1>9, RequestStep

\* A request that is over tells nothing.
LEMMA OverTells ==
  /\ Quiet \in Request /\ \A p, f : RequestTells(Quiet, p, f)
  /\ \A outcome \in {"saved", "refused"}, from \in Origins :
       Over(outcome, from) \in Request /\ \A p, f : RequestTells(Over(outcome, from), p, f)
<1>1. Quiet \in Request /\ Quiet.pc = "idle"
  BY DEF Quiet, Request
<1>2. \A outcome \in {"saved", "refused"}, from \in Origins :
        Over(outcome, from) \in Request /\ Over(outcome, from).pc \in {"saved", "refused"}
  BY DEF Over, Request
<1> QED
  BY <1>1, <1>2 DEF RequestTells

\* The id of a new row was nobody's.
LEMMA CreateStep == ASSUME ConsoleInv, NEW t \in Tabs, providerCreate(t) PROVE ConsoleInv'
<1> DEFINE patch == tab[t].request.patch
           x == [tab[t] EXCEPT !.request = Over("saved", "form")]
<1> DEFINE row == [key |-> Default(patch.key, ""), headers |-> patch.headers, enabled |-> patch.enabled, revision |-> 1]
<1>1. PICK id \in fresh : provider' = [provider EXCEPT ![id] = row] /\ fresh' = fresh \ {id}
  BY DEF providerCreate
<1>2. tab \in [Tabs -> Tab] /\ tab[t] \in Tab /\ TabTells(tab[t], provider, fresh) /\ id \in Ids
  BY DEF ConsoleInv
<1>3. /\ patch \in Patch /\ patch.headers \in HeaderMaps /\ patch.enabled \in BOOLEAN
  BY <1>2 DEF providerCreate, TabTells, RequestTells, SendTells, Underway
<1>4. row \in Provider
  BY <1>3 DEF Default, Provider, Patch, Values
<1> HIDE DEF row
<1>5. provider' \in [Ids -> Provider \cup {Nothing}] /\ \A i \in fresh' : provider'[i] = Nothing
  BY <1>1, <1>4 DEF ConsoleInv
<1>6. GoesOn(provider, fresh, provider', fresh')
  BY <1>1, StandsStill DEF GoesOn, ConsoleInv
<1>7. tab' = [tab EXCEPT ![t] = x]
  BY DEF providerCreate
<1>8. Over("saved", "form") \in Request /\ RequestTells(Over("saved", "form"), provider, fresh)
  BY OverTells DEF Origins
<1>9. /\ x \in Tab /\ x.cached = tab[t].cached /\ x.editing = tab[t].editing /\ x.form = tab[t].form
      /\ x.request = Over("saved", "form")
  BY <1>2, <1>8 DEF Tab
<1> HIDE DEF x
<1>10. TabTells(x, provider, fresh)
  BY <1>2, <1>8, <1>9 DEF TabTells
<1>11. TabTells(x, provider', fresh')
  BY <1>5, <1>6, <1>9, <1>10, CopiesGoOn DEF ConsoleInv
<1> QED
  BY <1>5, <1>6, <1>7, <1>9, <1>11, PageStep

\* The row the handler reads is the row the request was written against, or later.
LEMMA ReadStep == ASSUME ConsoleInv, NEW t \in Tabs, ReadExisting(t) PROVE ConsoleInv'
<1> DEFINE q == tab[t].request
           r == [q EXCEPT !.pc = "read", !.existing = provider[q.id]]
<1>1. tab \in [Tabs -> Tab] /\ tab[t] \in Tab /\ TabTells(tab[t], provider, fresh)
  BY DEF ConsoleInv
<1>2. tab' = [tab EXCEPT ![t] = [tab[t] EXCEPT !.request = r]] /\ UNCHANGED <<provider, fresh>>
  BY <1>1 DEF ReadExisting, Tab
<1>3. q.pc = "sent" /\ SendTells(q, provider, fresh)
  BY <1>1 DEF ReadExisting, TabTells, RequestTells
<1> HIDE DEF q
<1>4. /\ q \in Underway /\ q.id \in Ids \ fresh /\ q.pc # "creating"
      /\ provider[q.id] \in Provider \cup {Nothing}
  BY <1>3 DEF SendTells, ConsoleInv
<1>5. /\ r \in Underway /\ r.pc = "read" /\ r.existing = provider[q.id] /\ r.id = q.id /\ r.from = q.from
      /\ r.patch = q.patch /\ r.edits = q.edits /\ r.revision = q.revision
  BY <1>4 DEF Underway
<1> HIDE DEF r
<1>6. provider[q.id] # Nothing => provider[q.id].revision <= provider[q.id].revision
  BY <1>4 DEF Provider
<1>7. SendTells(r, provider, fresh)
  BY <1>3, <1>4, <1>5, <1>6 DEF SendTells
<1>8. r \in Request /\ RequestTells(r, provider, fresh)
  BY <1>5, <1>7 DEF Request, RequestTells
<1> QED
  BY <1>2, <1>8, RequestStep

\* What the write makes of the row it finds.
LEMMA WriteTells ==
  ASSUME ConsoleInv, NEW t \in Tabs, tab[t].request.pc = "read", provider[tab[t].request.id] # Nothing
  PROVE  LET r == tab[t].request
             row == provider[r.id]
             w == Patched(row, Restored(r.patch, r.existing))
         IN  /\ r.id \in Ids \ fresh /\ row \in Provider /\ r.from \in Origins
             /\ w \in Provider /\ row.revision <= w.revision
             /\ row.revision = w.revision => row.key = w.key /\ row.headers = w.headers
             /\ r.edits = 0 /\ r.revision = row.revision => w.key = row.key /\ w.headers = row.headers
             /\ r.from = "form" => w.key \in {row.key} \cup Secrets
<1> DEFINE r == tab[t].request
           row == provider[r.id]
           w == Patched(row, Restored(r.patch, r.existing))
<1>1. SendTells(r, provider, fresh)
  BY DEF ConsoleInv, TabTells, RequestTells
<1>2. r.pc = "read" /\ row # Nothing
  OBVIOUS
<1> HIDE DEF r
<1>3. /\ r.id \in Ids \ fresh /\ row \in Provider
      /\ r.existing \in Provider /\ r.existing # Nothing /\ r.patch \in Patch /\ r.from \in Origins
      /\ r.revision \in Nat /\ row.revision \in Nat /\ r.existing.revision \in Nat
      /\ r.revision <= r.existing.revision /\ r.existing.revision <= row.revision
      /\ r.existing.revision = row.revision => r.existing.key = row.key /\ r.existing.headers = row.headers
      /\ r.edits = 0 /\ r.revision = row.revision => Harmless(r.patch, row)
      /\ r.from = "form" => r.patch.key \in Secrets \cup {Nothing}
  <2>1. r.id \in Ids \ fresh /\ r \in Underway
    BY <1>1, <1>2 DEF SendTells
  <2>2. row \in Provider
    BY <1>2, <2>1 DEF ConsoleInv
  <2>3. /\ r.existing # Nothing
        /\ r.revision <= r.existing.revision /\ r.existing.revision <= row.revision
        /\ r.existing.revision = row.revision => r.existing.key = row.key /\ r.existing.headers = row.headers
        /\ r.edits = 0 /\ r.revision = row.revision => Harmless(r.patch, row)
        /\ r.from = "form" => r.patch.key \in Secrets \cup {Nothing}
    BY <1>1, <1>2 DEF SendTells
  <2> QED
    BY <2>1, <2>2, <2>3 DEF Underway, Provider
<1> HIDE DEF row
<1>4. r.revision = row.revision => r.existing.revision = row.revision
  BY <1>3
<1>5. r.edits = 0 /\ r.revision = row.revision =>
        Harmless(r.patch, r.existing) /\ r.existing.key = row.key /\ r.existing.headers = row.headers
  BY <1>3, <1>4 DEF Harmless
<1>6. /\ w \in Provider /\ row.revision <= w.revision
      /\ row.revision = w.revision => row.key = w.key /\ row.headers = w.headers
      /\ Harmless(r.patch, r.existing) /\ r.existing.key = row.key /\ r.existing.headers = row.headers =>
           w.key = row.key /\ w.headers = row.headers
      /\ r.patch.key \in Secrets \cup {Nothing} => w.key \in {row.key} \cup Secrets
  BY <1>3, PatchTells
<1> HIDE DEF w
<1> QED
  BY <1>3, <1>5, <1>6 DEF w, row, r

\* A write takes the row on by one revision, from the row the handler read or a later one.
LEMMA UpdateStep == ASSUME ConsoleInv, NEW t \in Tabs, providerUpdate(t) PROVE ConsoleInv'
<1> DEFINE r == tab[t].request
<1>1. tab \in [Tabs -> Tab] /\ tab[t] \in Tab /\ TabTells(tab[t], provider, fresh) /\ r.pc = "read"
  BY DEF ConsoleInv, providerUpdate
<1>2. r.from \in Origins
  BY <1>1 DEF TabTells, RequestTells, SendTells, Underway
<1>3. CASE provider[r.id] = Nothing
  <2>1. tab' = [tab EXCEPT ![t] = [tab[t] EXCEPT !.request = Over("refused", r.from)]] /\ UNCHANGED <<provider, fresh>>
    BY <1>3 DEF providerUpdate
  <2> HIDE DEF r
  <2>2. Over("refused", r.from) \in Request /\ RequestTells(Over("refused", r.from), provider, fresh)
    BY <1>2, OverTells
  <2> QED
    BY <2>1, <2>2, RequestStep
<1>4. CASE provider[r.id] # Nothing
  <2> DEFINE row == provider[r.id]
             w == Patched(row, Restored(r.patch, r.existing))
             x == [tab[t] EXCEPT !.request = Over("saved", r.from)]
  <2>1. /\ r.id \in Ids \ fresh /\ row \in Provider
        /\ w \in Provider /\ row.revision <= w.revision
        /\ row.revision = w.revision => row.key = w.key /\ row.headers = w.headers
    BY <1>1, <1>4, WriteTells
  <2>2. provider' = [provider EXCEPT ![r.id] = w] /\ UNCHANGED fresh /\ tab' = [tab EXCEPT ![t] = x]
    BY <1>4 DEF providerUpdate
  <2> HIDE DEF r, w
  <2>3. provider' \in [Ids -> Provider \cup {Nothing}] /\ \A i \in fresh' : provider'[i] = Nothing
    BY <2>1, <2>2 DEF ConsoleInv
  <2>4. provider'[r.id] = w /\ \A i \in Ids \ {r.id} : provider'[i] = provider[i]
    BY <2>1, <2>2 DEF ConsoleInv
  <2>5. GoesOn(provider, fresh, provider', fresh')
    BY <1>4, <2>1, <2>2, <2>4, StandsStill DEF GoesOn
  <2>6. Over("saved", r.from) \in Request /\ RequestTells(Over("saved", r.from), provider, fresh)
    BY <1>2, OverTells
  <2>7. /\ x \in Tab /\ x.cached = tab[t].cached /\ x.editing = tab[t].editing /\ x.form = tab[t].form
        /\ x.request = Over("saved", r.from)
    BY <1>1, <2>6 DEF Tab
  <2> HIDE DEF x
  <2>8. TabTells(x, provider, fresh)
    BY <1>1, <2>6, <2>7 DEF TabTells
  <2>9. TabTells(x, provider', fresh')
    BY <2>3, <2>5, <2>7, <2>8, CopiesGoOn DEF ConsoleInv
  <2> QED
    BY <2>2, <2>3, <2>5, <2>7, <2>9, PageStep
<1> QED
  BY <1>3, <1>4

\* An answer settles the request and may close the form.
LEMMA AnsweredStep == ASSUME ConsoleInv, NEW t \in Tabs, Answered(t) PROVE ConsoleInv'
<1> DEFINE closes == tab[t].request.pc = "saved" /\ tab[t].request.from = "form"
           editing == IF closes THEN Nothing ELSE tab[t].editing
           form == IF closes THEN Nothing ELSE tab[t].form
           x == [tab[t] EXCEPT !.request = Quiet, !.editing = editing, !.form = form]
<1>1. tab \in [Tabs -> Tab] /\ tab[t] \in Tab /\ TabTells(tab[t], provider, fresh)
  BY DEF ConsoleInv
<1>2. tab' = [tab EXCEPT ![t] = x] /\ UNCHANGED <<provider, fresh>>
  BY <1>1 DEF Answered, Tab
<1>3. /\ editing \in Form \cup {Nothing} /\ FormTells(editing, provider, fresh)
      /\ form \in Form \cup {Nothing} /\ FormTells(form, provider, fresh)
  BY <1>1, Unedited DEF Tab, TabTells
<1> HIDE DEF editing, form
<1>4. /\ x \in Tab /\ x.cached = tab[t].cached /\ x.editing = editing /\ x.form = form /\ x.request = Quiet
  BY <1>1, <1>3, OverTells DEF Tab
<1> HIDE DEF x
<1>5. TabTells(x, provider, fresh)
  BY <1>1, <1>3, <1>4, OverTells DEF TabTells
<1> QED
  BY <1>2, <1>4, <1>5, QuietStep

\* A provider that goes leaves nothing to compare with.
LEMMA DeleteStep == ASSUME ConsoleInv, NEW t \in Tabs, providerDelete(t) PROVE ConsoleInv'
<1>1. PICK id : provider' = [provider EXCEPT ![id] = Nothing] /\ UNCHANGED <<fresh, tab>>
  BY DEF providerDelete
<1>2. provider' \in [Ids -> Provider \cup {Nothing}] /\ \A i \in fresh' : provider'[i] = Nothing
  BY <1>1 DEF ConsoleInv
<1>3. \A i \in Ids : provider'[i] \in {provider[i], Nothing}
  BY <1>1 DEF ConsoleInv
<1>4. GoesOn(provider, fresh, provider', fresh')
  BY <1>1, <1>3, StandsStill DEF GoesOn
<1>5. /\ tab[t] \in Tab /\ tab' = [tab EXCEPT ![t] = tab[t]]
      /\ TabTells(tab[t], provider, fresh)
  BY <1>1 DEF ConsoleInv
<1>6. TabTells(tab[t], provider', fresh')
  BY <1>2, <1>4, <1>5, CopiesGoOn DEF ConsoleInv
<1> QED
  BY <1>2, <1>4, <1>5, <1>6, PageStep

\* Pages open with nothing loaded.
LEMMA ConsoleInvInit == ConsoleInit => ConsoleInv
<1> SUFFICES ASSUME ConsoleInit PROVE ConsoleInv
  OBVIOUS
<1>1. fresh \subseteq Ids /\ provider \in [Ids -> Provider \cup {Nothing}] /\ \A id \in fresh : provider[id] = Nothing
  <2>1. CASE fresh = Ids /\ provider = [i \in Ids |-> Nothing]
    BY <2>1
  <2>2. CASE \E id \in Ids, row \in Configured :
               fresh = Ids \ {id} /\ provider = [i \in Ids |-> IF i = id THEN row ELSE Nothing]
    <3>1. PICK id \in Ids, row \in Configured :
            fresh = Ids \ {id} /\ provider = [i \in Ids |-> IF i = id THEN row ELSE Nothing]
      BY <2>2
    <3>2. row \in Provider
      BY ConsoleAssumption
    <3> QED
      BY <3>1, <3>2
  <2> QED
    BY <2>1, <2>2 DEF ConsoleInit
<1>2. Closed \in Tab
  <2>1. FALSE \in BOOLEAN
    OBVIOUS
  <2> QED
    BY <2>1, OverTells DEF Closed, Tab
<1>3. TabTells(Closed, provider, fresh)
  BY OverTells DEF Closed, TabTells, CachedTells, FormTells
<1>4. tab = [t \in Tabs |-> Closed]
  BY DEF ConsoleInit
<1> HIDE DEF Closed
<1> QED
  BY <1>1, <1>2, <1>3, <1>4 DEF ConsoleInv

\* Every step of a page, a script or a handler keeps the invariant.
LEMMA ConsoleInvNext == ConsoleInv /\ [ConsoleNext]_consoleVars => ConsoleInv'
<1> SUFFICES ASSUME ConsoleInv, [ConsoleNext]_consoleVars PROVE ConsoleInv'
  OBVIOUS
<1>1. Dashboards \subseteq Tabs /\ Scripts \subseteq Tabs
  BY DEF Tabs
<1>2. ASSUME NEW t \in Dashboards,
             Load(t) \/ LoadFails(t) \/ OpenForm(t) \/ CloseForm(t) \/ Type(t)
             \/ Save(t) \/ Toggle(t) \/ providerDelete(t)
      PROVE  ConsoleInv'
  BY <1>1, <1>2, LoadStep, FormActions, SaveStep, ToggleStep, DeleteStep
<1>3. ASSUME NEW t \in Scripts, RoundTrip(t) PROVE ConsoleInv'
  BY <1>1, <1>3, RoundTripStep
<1>4. ASSUME NEW t \in Tabs, providerCreate(t) \/ ReadExisting(t) \/ providerUpdate(t) \/ Answered(t)
      PROVE  ConsoleInv'
  BY <1>4, CreateStep, ReadStep, UpdateStep, AnsweredStep
<1>5. CASE UNCHANGED consoleVars
  BY <1>5 DEF consoleVars, ConsoleInv
<1> QED
  BY <1>2, <1>3, <1>4, <1>5 DEF ConsoleNext

\* Only the update answers a request that has read its row.
LEMMA WritesAreUpdates ==
  ASSUME ConsoleInv, ConsoleNext, NEW t \in Tabs, Writes(t)
  PROVE  /\ providerUpdate(t) /\ provider[tab[t].request.id] # Nothing
<1>1. tab \in [Tabs -> Tab] /\ tab[t] \in Tab /\ tab[t].request.pc = "read" /\ tab'[t].request.pc = "saved"
  BY DEF Writes, ConsoleInv
<1>2. \A s \in Tabs \ {t} : tab[s] \in Tab
  BY DEF ConsoleInv
<1>3. ASSUME NEW s \in Tabs, NEW y, tab' = [tab EXCEPT ![s] = y], y.request = tab[s].request PROVE FALSE
  BY <1>1, <1>3
<1>4. ASSUME NEW s \in Tabs, NEW y, tab' = [tab EXCEPT ![s] = y], s # t PROVE FALSE
  BY <1>1, <1>4
<1>5. ASSUME NEW s \in Tabs, Load(s) \/ LoadFails(s) \/ OpenForm(s) \/ CloseForm(s) \/ Type(s) PROVE FALSE
  <2>1. tab[s] \in Tab
    BY DEF ConsoleInv
  <2>2. tab'[t].request = tab[t].request
    <3>1. Load(s) => tab'[t].request = tab[t].request
      <4> SUFFICES ASSUME NEW c, NEW form,
                          tab' = [tab EXCEPT ![s].cached = c, ![s].failed = FALSE, ![s].form = form]
                   PROVE  tab'[t].request = tab[t].request
        BY DEF Load
      <4> QED
        BY <1>1, <2>1 DEF Tab
    <3>2. LoadFails(s) => tab'[t].request = tab[t].request
      BY <1>1, <2>1 DEF LoadFails, Tab
    <3>3. OpenForm(s) => tab'[t].request = tab[t].request
      <4> SUFFICES ASSUME NEW draft, tab' = [tab EXCEPT ![s].editing = draft, ![s].form = draft]
                   PROVE  tab'[t].request = tab[t].request
        BY DEF OpenForm
      <4> QED
        BY <1>1, <2>1 DEF Tab
    <3>4. CloseForm(s) => tab'[t].request = tab[t].request
      BY <1>1, <2>1 DEF CloseForm, Tab
    <3>5. Type(s) => tab'[t].request = tab[t].request
      <4> SUFFICES ASSUME NEW form, tab' = [tab EXCEPT ![s].form = form]
                   PROVE  tab'[t].request = tab[t].request
        BY DEF Type
      <4> QED
        BY <1>1, <2>1 DEF Tab
    <3> QED
      BY <1>5, <3>1, <3>2, <3>3, <3>4, <3>5
  <2> QED
    BY <1>1, <2>2
<1>6. ASSUME NEW s \in Tabs, Save(s) \/ Toggle(s) \/ RoundTrip(s) PROVE FALSE
  <2>1. PICK r : Sends(s, r)
    BY <1>6 DEF Save, Toggle, RoundTrip
  <2>2. s # t
    BY <1>1, <2>1 DEF Sends
  <2> QED
    BY <1>1, <2>1, <2>2 DEF Sends
<1>7. ASSUME NEW s \in Tabs, providerDelete(s) PROVE FALSE
  <2>1. UNCHANGED tab
    BY <1>7 DEF providerDelete
  <2> QED
    BY <1>1, <2>1
<1>8. ASSUME NEW s \in Tabs, providerCreate(s) \/ ReadExisting(s) \/ Answered(s) PROVE FALSE
  <2>1. s # t
    BY <1>1, <1>8 DEF providerCreate, ReadExisting, Answered
  <2>2. tab'[t] = tab[t]
    BY <1>1, <1>8, <2>1 DEF providerCreate, ReadExisting, Answered
  <2> QED
    BY <1>1, <2>2
<1>9. ASSUME NEW s \in Tabs, providerUpdate(s) PROVE s = t
  <2> SUFFICES ASSUME s # t PROVE FALSE
    OBVIOUS
  <2>1. tab'[t] = tab[t]
    BY <1>1, <1>9 DEF providerUpdate
  <2> QED
    BY <1>1, <2>1
<1>10. providerUpdate(t)
  <2>1. Dashboards \subseteq Tabs /\ Scripts \subseteq Tabs
    BY DEF Tabs
  <2> QED
    BY <2>1, <1>5, <1>6, <1>7, <1>8, <1>9 DEF ConsoleNext
<1>11. provider[tab[t].request.id] # Nothing
  <2> SUFFICES ASSUME provider[tab[t].request.id] = Nothing PROVE FALSE
    OBVIOUS
  <2>1. tab' = [tab EXCEPT ![t] = [tab[t] EXCEPT !.request = Over("refused", tab[t].request.from)]]
    BY <1>10 DEF providerUpdate
  <2>2. tab'[t].request = Over("refused", tab[t].request.from)
    BY <1>1, <2>1 DEF Tab
  <2> QED
    BY <1>1, <2>2 DEF Over
<1> QED
  BY <1>10, <1>11

\* No page is ever shown a credential, and no save loses or replaces one unasked,
\* for any pages, clients, providers, credentials and header names.
THEOREM CredentialsKept == ConsoleSpec => CredentialsAreKept
<1>1. ConsoleInv => SecretsStayInside
  BY DEF ConsoleInv, TabTells, CachedTells, SecretsStayInside
<1>2. ConsoleInv /\ [ConsoleNext]_consoleVars =>
        \A t \in Tabs :
          /\ Writes(t) /\ tab[t].request.edits = 0
             /\ tab[t].request.revision = provider[tab[t].request.id].revision
             => /\ provider'[tab[t].request.id].key = provider[tab[t].request.id].key
                /\ provider'[tab[t].request.id].headers = provider[tab[t].request.id].headers
          /\ Writes(t) /\ tab[t].request.from = "form"
             => provider'[tab[t].request.id].key \in {provider[tab[t].request.id].key} \cup Secrets
  <2> SUFFICES ASSUME ConsoleInv, [ConsoleNext]_consoleVars, NEW t \in Tabs, Writes(t)
               PROVE  LET r == tab[t].request
                      IN  /\ r.edits = 0 /\ r.revision = provider[r.id].revision
                             => provider'[r.id].key = provider[r.id].key /\ provider'[r.id].headers = provider[r.id].headers
                          /\ r.from = "form" => provider'[r.id].key \in {provider[r.id].key} \cup Secrets
    OBVIOUS
  <2> DEFINE r == tab[t].request
             w == Patched(provider[r.id], Restored(r.patch, r.existing))
  <2>1. ConsoleNext
    BY DEF Writes, consoleVars
  <2>2. providerUpdate(t) /\ provider[r.id] # Nothing /\ r.pc = "read"
    BY <2>1, WritesAreUpdates DEF Writes
  <2>3. provider' = [provider EXCEPT ![r.id] = w]
    BY <2>2 DEF providerUpdate
  <2>4. /\ r.id \in Ids
        /\ r.edits = 0 /\ r.revision = provider[r.id].revision =>
             w.key = provider[r.id].key /\ w.headers = provider[r.id].headers
        /\ r.from = "form" => w.key \in {provider[r.id].key} \cup Secrets
    BY <2>2, WriteTells
  <2> HIDE DEF w
  <2>5. provider'[r.id] = w
    BY <2>3, <2>4 DEF ConsoleInv
  <2> QED
    BY <2>4, <2>5
<1>3. ConsoleInv /\ [ConsoleNext]_consoleVars =>
        \A t \in Tabs :
          LET request == tab[t].request
          IN  /\ Writes(t) /\ request.edits = 0
              /\ request.revision = provider[request.id].revision
              => /\ provider'[request.id].key = provider[request.id].key
                 /\ provider'[request.id].headers = provider[request.id].headers
  BY <1>2
<1>4. ConsoleInv /\ [ConsoleNext]_consoleVars =>
        \A t \in Tabs :
          Writes(t) /\ tab[t].request.from = "form"
          => provider'[tab[t].request.id].key \in {provider[tab[t].request.id].key} \cup Secrets
  BY <1>2
<1> QED
  BY <1>1, <1>3, <1>4, ConsoleInvInit, ConsoleInvNext, PTL
     DEF ConsoleSpec, CredentialsAreKept, RoundTripKeepsSecrets, FormKeepsKey

----------------------------------------------------------------------------
(* The routes page (RoutePages) *)

\* A row of the form may still want its provider or its model.
FormRow == [provider : Providers \cup {0}, upstream : Upstreams \cup {0}, priority : Priorities, enabled : BOOLEAN]

RouteForms ==
  [open : BOOLEAN, existing : BOOLEAN, strategy : Strategies, enabled : BOOLEAN, rows : Seq(FormRow)]

RouteInputs == [strategy : Strategies \cup {"keep"}, enabled : BOOLEAN, list : Seq(TargetRow)]

RouteRequests ==
  [kind : {"none", "create", "update", "toggle", "delete"}, checked : BOOLEAN, input : RouteInputs,
   shown : RouteForms, knew : SUBSET Providers]

RouteRows == [there : BOOLEAN, strategy : Strategies, enabled : BOOLEAN, targets : SUBSET TargetRow]

RoutePagesOpen ==
  [loaded : BOOLEAN, known : SUBSET Providers, route : RouteRows, form : RouteForms, request : RouteRequests]

KeysApart(list) == \A i, j \in DOMAIN list : SameKey(list[i], list[j]) => i = j

\* What a request that is under way says is what the page showed, or had cached.
SaysWhatItShows(request) ==
  /\ request.kind \in {"create", "update"} =>
       request.input = Input(request.shown.strategy, request.shown.enabled,
                             toTargets(request.shown.rows, request.knew))
  /\ request.kind = "toggle" => request.input.strategy = "keep" /\ KeysApart(request.input.list)

PageHolds(open) ==
  open \in RoutePagesOpen /\ FitsKeys(open.route.targets) /\ SaysWhatItShows(open.request)

PagesInv ==
  /\ providers \in [Providers -> ProviderRow]
  /\ route \in RouteRows /\ FitsKeys(route.targets)
  /\ routeTab \in [RouteTabs -> RoutePagesOpen] /\ \A g \in RouteTabs : PageHolds(routeTab[g])

\* The columns that targets are compared by are numbers, and no two targets agree in both keys.
LEMMA KeysCompare ==
  ASSUME NEW targets, FitsKeys(targets)
  PROVE  /\ \A t \in targets : t.priority \in Int /\ t.provider \in Int /\ t.upstream \in Int
         /\ \A t \in targets : t.provider \in Providers
         /\ \A a, b \in targets : a # b => a.provider # b.provider \/ a.upstream # b.upstream
<1>1. \A t \in TargetRow : t.provider \in Providers /\ t.upstream \in Upstreams /\ t.priority \in Priorities
  BY DEF TargetRow
<1>2. \A t \in targets : t \in TargetRow
  BY DEF FitsKeys
<1>3. \A a, b \in targets : a # b => a.provider # b.provider \/ a.upstream # b.upstream
  BY DEF FitsKeys, SameKey
<1>4. /\ \A q \in Providers : q \in Int
      /\ \A q \in Upstreams : q \in Int
      /\ \A q \in Priorities : q \in Int
  BY TablesAssumption
<1> QED
  BY <1>1, <1>2, <1>3, <1>4

\* loadRoutes lists each target of the route once.
LEMMA LoadedTells ==
  ASSUME NEW targets, FitsKeys(targets)
  PROVE  /\ loadTargets(targets) \in Seq(TargetRow)
         /\ \A i \in DOMAIN loadTargets(targets) : loadTargets(targets)[i] \in targets
         /\ \A t \in targets : \E i \in DOMAIN loadTargets(targets) : loadTargets(targets)[i] = t
         /\ KeysApart(loadTargets(targets))
<1> DEFINE Ahead(a, b) == a.priority > b.priority \/ (a.priority = b.priority /\ KeyBefore(a, b))
           ahead == [b \in targets |-> {a \in targets : Ahead(a, b)}]
           list == Ranked(targets, ahead)
<1>1. loadTargets(targets) = list
  BY DEF loadTargets
<1>2. IsFiniteSet(targets) /\ targets \subseteq TargetRow
  BY DEF FitsKeys
<1>3. /\ \A t \in targets : t.priority \in Int /\ t.provider \in Int /\ t.upstream \in Int
      /\ \A a, b \in targets : a # b => a.provider # b.provider \/ a.upstream # b.upstream
  BY KeysCompare
<1>4. \A a, b \in targets : a # b => Ahead(a, b) \/ Ahead(b, a)
  BY <1>3 DEF KeyBefore
<1>5. \A a \in targets : ~Ahead(a, a)
  BY <1>3 DEF KeyBefore
<1>6. \A a, b, c \in targets : Ahead(a, b) /\ Ahead(b, c) => Ahead(a, c)
  BY <1>3 DEF KeyBefore
<1> HIDE DEF Ahead
<1>7. /\ ahead \in [targets -> SUBSET targets]
      /\ \A x \in targets : x \notin ahead[x]
      /\ \A x \in targets : \A y \in ahead[x] : ahead[y] \subseteq ahead[x]
      /\ \A x, y \in targets : x # y => x \in ahead[y] \/ y \in ahead[x]
  BY <1>4, <1>5, <1>6
<1> HIDE DEF ahead
<1> DEFINE n == Cardinality(targets)
<1>8. /\ n \in Nat /\ list \in Seq(targets) /\ Len(list) = n
      /\ list \in [1 .. n -> targets]
      /\ \A x \in targets : \E k \in 1 .. n : list[k] = x
      /\ \A i, j \in 1 .. n : i # j => list[i] # list[j]
  BY <1>2, <1>7, RankedTells
<1> HIDE DEF list, n
<1>9. list \in Seq(TargetRow) /\ DOMAIN list = 1 .. n
  BY <1>2, <1>8
<1>10. KeysApart(list)
  BY <1>3, <1>8, <1>9 DEF KeysApart, SameKey
<1> QED
  BY <1>1, <1>8, <1>9, <1>10

\* The first of the candidates has the highest priority of all that serve.
LEMMA FirstServes ==
  ASSUME NEW rows \in [Providers -> ProviderRow], NEW targets, FitsKeys(targets)
  PROVE  LET first == resolveTargets(rows, targets)
             serving == Serving(rows, targets)
         IN  /\ first = <<>> <=> serving = {}
             /\ first # <<>> => /\ Head(first) \in serving
                                /\ \A t \in serving : t.priority <= Head(first).priority
<1> DEFINE S == Serving(rows, targets)
           Ahead(a, b) ==
             \/ a.priority > b.priority
             \/ a.priority = b.priority /\ rows[a.provider].priority > rows[b.provider].priority
             \/ /\ a.priority = b.priority /\ rows[a.provider].priority = rows[b.provider].priority
                /\ KeyBefore(a, b)
           ahead == [b \in S |-> {a \in S : Ahead(a, b)}]
           list == Ranked(S, ahead)
<1>1. resolveTargets(rows, targets) = list
  BY DEF resolveTargets
<1>2. IsFiniteSet(S) /\ S \subseteq targets
  BY FS_Subset DEF FitsKeys, Serving
<1> HIDE DEF S
<1>3. /\ \A t \in S : t.priority \in Int /\ t.provider \in Int /\ t.upstream \in Int
      /\ \A a, b \in S : a # b => a.provider # b.provider \/ a.upstream # b.upstream
      /\ \A t \in S : rows[t.provider].priority \in Int
  <2>1. \A q \in Providers : rows[q].priority \in Priorities
    BY DEF ProviderRow
  <2>2. \A q \in Priorities : q \in Int
    BY TablesAssumption
  <2> QED
    BY <1>2, <2>1, <2>2, KeysCompare
<1>4. \A a, b \in S : a # b => Ahead(a, b) \/ Ahead(b, a)
  BY <1>3 DEF KeyBefore
<1>5. \A a \in S : ~Ahead(a, a)
  BY <1>3 DEF KeyBefore
<1>6. \A a, b, c \in S : Ahead(a, b) /\ Ahead(b, c) => Ahead(a, c)
  BY <1>3 DEF KeyBefore
<1>7. \A a, b \in S : a.priority > b.priority => Ahead(a, b)
  OBVIOUS
<1> HIDE DEF Ahead
<1>8. /\ ahead \in [S -> SUBSET S]
      /\ \A x \in S : x \notin ahead[x]
      /\ \A x \in S : \A y \in ahead[x] : ahead[y] \subseteq ahead[x]
      /\ \A x, y \in S : x # y => x \in ahead[y] \/ y \in ahead[x]
      /\ \A x, y \in S : x.priority > y.priority => x \in ahead[y]
  BY <1>4, <1>5, <1>6, <1>7
<1> HIDE DEF ahead
<1> DEFINE n == Cardinality(S)
<1>9. /\ n \in Nat /\ list \in Seq(S) /\ Len(list) = n
      /\ \A x \in S : \E k \in 1 .. n : list[k] = x
      /\ \A i, j \in 1 .. n : list[i] \in ahead[list[j]] => i < j
  BY <1>2, <1>8, RankedTells
<1> HIDE DEF list, n
<1>10. list = <<>> <=> S = {}
  <2>1. list = <<>> <=> n = 0
    BY <1>9
  <2>2. n = 0 => S = {}
    BY <1>9
  <2>3. S = {} => list = <<>>
    BY <1>9
  <2> QED
    BY <2>1, <2>2, <2>3
<1>11. ASSUME list # <<>> PROVE Head(list) \in S /\ \A t \in S : t.priority <= Head(list).priority
  <2>1. 1 \in 1 .. n /\ Head(list) = list[1] /\ list[1] \in S
    BY <1>9, <1>11
  <2>2. ASSUME NEW t \in S, t.priority > list[1].priority PROVE FALSE
    <3>1. PICK k \in 1 .. n : list[k] = t
      BY <1>9
    <3>2. k < 1
      BY <1>8, <1>9, <2>1, <2>2, <3>1
    <3> QED
      BY <1>9, <3>2
  <2>3. \A t \in S : t.priority <= list[1].priority
    BY <1>3, <2>1, <2>2
  <2> QED
    BY <2>1, <2>3
<1> QED
  BY <1>1, <1>10, <1>11 DEF S

\* What replaceTargets makes of a list: its keys, and of two entries for one the later.
LEMMA ReplacedTells ==
  ASSUME NEW targets, NEW list \in Seq(TargetRow)
  PROVE  LET new == replaceTargets(targets, list)
         IN  /\ FitsKeys(new)
             /\ \A t \in new : \E i \in DOMAIN list : list[i] = t
             /\ \A i \in DOMAIN list : \E t \in new : SameKey(list[i], t)
             /\ KeysApart(list) => \A i \in DOMAIN list : list[i] \in new
<1> DEFINE n == Len(list)
           Lasts(j) == \A k \in j + 1 .. n : ~SameKey(list[j], list[k])
           new == {list[i] : i \in {j \in DOMAIN list : Lasts(j)}}
           all == {list[i] : i \in DOMAIN list}
<1>1. replaceTargets(targets, list) = new
  BY DEF replaceTargets
<1>2. n \in Nat /\ DOMAIN list = 1 .. n /\ \A i \in 1 .. n : list[i] \in TargetRow
  OBVIOUS
<1>3. \A t : t \in new <=> \E j \in 1 .. n : Lasts(j) /\ t = list[j]
  BY <1>2
<1>4. IsFiniteSet(all)
  <2>1. list \in Surjection(1 .. n, all)
    BY <1>2 DEF Surjection
  <2>2. IsFiniteSet(1 .. n)
    BY <1>2, FS_Interval
  <2> HIDE DEF all, n
  <2> QED
    BY <2>1, <2>2, FS_Surjection
<1>5. new \subseteq all
  OBVIOUS
<1> HIDE DEF n, new, all
<1>6. IsFiniteSet(new)
  BY <1>4, <1>5, FS_Subset
<1>7. \A a, b \in new : SameKey(a, b) => a = b
  <2> SUFFICES ASSUME NEW a \in new, NEW b \in new, SameKey(a, b) PROVE a = b
    OBVIOUS
  <2>1. PICK i \in 1 .. n : Lasts(i) /\ a = list[i]
    BY <1>3
  <2>2. PICK j \in 1 .. n : Lasts(j) /\ b = list[j]
    BY <1>3
  <2>3. SameKey(list[i], list[j]) /\ SameKey(list[j], list[i])
    BY <2>1, <2>2 DEF SameKey
  <2>4. ~(i < j) /\ ~(j < i)
    BY <1>2, <2>1, <2>2, <2>3
  <2>5. i = j
    BY <1>2, <2>4
  <2> QED
    BY <2>1, <2>2, <2>5
<1>8. FitsKeys(new)
  <2>1. new \subseteq TargetRow
    BY <1>2, <1>3
  <2> QED
    BY <1>6, <1>7, <2>1 DEF FitsKeys
<1>9. \A i \in 1 .. n : \E t \in new : SameKey(list[i], t)
  <2> SUFFICES ASSUME NEW i \in 1 .. n PROVE \E t \in new : SameKey(list[i], t)
    OBVIOUS
  <2> DEFINE K == {j \in 1 .. n : SameKey(list[i], list[j])}
  <2>1. i \in K
    BY DEF SameKey
  <2>2. K \in SUBSET (0 .. n) /\ K # {}
    BY <1>2, <2>1
  <2>3. PICK last \in K : \A j \in K : j <= last
    <3> HIDE DEF K
    <3> QED
      BY <1>2, <2>2, GreatestElement
  <2>4. Lasts(last)
    <3> SUFFICES ASSUME NEW k \in last + 1 .. n, SameKey(list[last], list[k]) PROVE FALSE
      OBVIOUS
    <3>1. last \in 1 .. n /\ k \in 1 .. n /\ ~(k <= last)
      BY <1>2
    <3>2. k \in K
      BY <3>1 DEF SameKey
    <3> QED
      BY <2>3, <3>1, <3>2
  <2>5. list[last] \in new /\ SameKey(list[i], list[last])
    BY <1>3, <2>4
  <2> QED
    BY <2>5
<1>10. ASSUME KeysApart(list), NEW i \in 1 .. n PROVE list[i] \in new
  <2>1. Lasts(i)
    <3> SUFFICES ASSUME NEW k \in i + 1 .. n, SameKey(list[i], list[k]) PROVE FALSE
      OBVIOUS
    <3>1. k \in 1 .. n /\ i # k
      BY <1>2
    <3> QED
      BY <1>2, <1>10, <3>1 DEF KeysApart
  <2> QED
    BY <1>3, <2>1
<1> QED
  BY <1>1, <1>2, <1>3, <1>8, <1>9, <1>10

\* What a form sends: its complete rows, in their order.
LEMMA CompleteRowsGo ==
  ASSUME NEW rows \in Seq(FormRow), NEW known \in SUBSET Providers
  PROVE  /\ toTargets(rows, known) \in Seq(TargetRow)
         /\ \A row : (\E i \in DOMAIN toTargets(rows, known) : toTargets(rows, known)[i] = row)
              <=> row \in ToSet(rows) /\ Complete(row, known)
<1> DEFINE K == {i \in DOMAIN rows : Complete(rows[i], known)}
           short == Subsequence(rows, K)
           n == Cardinality(K)
<1>1. toTargets(rows, known) = short
  BY DEF toTargets
<1>2. \A i \in K : rows[i] \in FormRow /\ Complete(rows[i], known)
  OBVIOUS
<1>3. \A row \in FormRow : Complete(row, known) => row \in TargetRow
  BY DEF FormRow, TargetRow, Complete
<1>4. K \in SUBSET DOMAIN rows
  OBVIOUS
<1>5. \A row : row \in ToSet(rows) /\ Complete(row, known) <=> \E i \in K : rows[i] = row
  BY DEF ToSet
<1> HIDE DEF K
<1>6. /\ short \in Seq(FormRow) /\ Len(short) = n /\ n \in Nat
      /\ \A k \in 1 .. n : Nth(K, k) \in K /\ short[k] = rows[Nth(K, k)]
      /\ \A i \in K : \E k \in 1 .. n : Nth(K, k) = i
  BY <1>4, SubsequenceTells
<1> HIDE DEF short, n
<1>7. DOMAIN short = 1 .. n
  BY <1>6
<1>8. short \in Seq(TargetRow)
  <2>1. \A k \in 1 .. n : short[k] \in TargetRow
    BY <1>2, <1>3, <1>6
  <2> QED
    BY <1>6, <2>1, SeqOfEntries
<1>9. \A row : (\E k \in 1 .. n : short[k] = row) <=> \E i \in K : rows[i] = row
  BY <1>6
<1> QED
  BY <1>1, <1>5, <1>7, <1>8, <1>9

\* The list without rows.
LEMMA EmptyRows ==
  <<>> \in Seq(FormRow) /\ <<>> \in Seq(TargetRow) /\ KeysApart(<<>>)
<1> QED
  BY DEF KeysApart

\* A page that has loaded nothing holds.
LEMMA NothingAsked == PageHolds(Blank) /\ NoRequest \in RouteRequests /\ NoForm \in RouteForms
                      /\ EMPTY_ROUTE \in RouteForms
<1>1. NoForm \in RouteForms /\ EMPTY_ROUTE \in RouteForms
  BY EmptyRows DEF NoForm, EMPTY_ROUTE, RouteForms, Strategies
<1>2. Input("keep", TRUE, <<>>) \in RouteInputs
  BY EmptyRows DEF Input, RouteInputs
<1>3. NoRequest \in RouteRequests /\ NoRequest.kind = "none"
  <2> DEFINE input == Input("keep", TRUE, <<>>)
             shown == NoForm
  <2>1. NoRequest = [kind |-> "none", checked |-> FALSE, input |-> input, shown |-> shown, knew |-> {}]
    BY DEF NoRequest
  <2>2. input \in RouteInputs /\ shown \in RouteForms
    BY <1>1, <1>2
  <2> HIDE DEF input, shown
  <2> QED
    BY <2>1, <2>2 DEF RouteRequests
<1>4. NoRoute \in RouteRows /\ FitsKeys(NoRoute.targets)
  BY FS_EmptySet DEF NoRoute, RouteRows, Strategies, FitsKeys
<1>5. Blank \in RoutePagesOpen /\ Blank.route = NoRoute /\ Blank.request = NoRequest
  <2> DEFINE form == NoForm
             request == NoRequest
             row == NoRoute
  <2>1. Blank = [loaded |-> FALSE, known |-> {}, route |-> row, form |-> form, request |-> request]
    BY DEF Blank
  <2>2. form \in RouteForms /\ request \in RouteRequests /\ row \in RouteRows
    BY <1>1, <1>3, <1>4
  <2> HIDE DEF form, request, row
  <2>3. Blank \in RoutePagesOpen /\ Blank.route = row /\ Blank.request = request
    BY <2>1, <2>2 DEF RoutePagesOpen
  <2> QED
    BY <2>3 DEF request, row
<1> QED
  BY <1>1, <1>3, <1>4, <1>5 DEF PageHolds, SaysWhatItShows

\* It holds before any page has loaded.
LEMMA PagesStart == PagesInit => PagesInv
<1> SUFFICES ASSUME PagesInit PROVE PagesInv
  OBVIOUS
<1>1. providers \in [Providers -> ProviderRow]
  <2>1. \A q \in Providers : Ranks[q] \in Priorities
    BY PagesAssumption
  <2> QED
    BY <2>1 DEF PagesInit, ProviderRow
<1>2. NoRoute \in RouteRows /\ FitsKeys(NoRoute.targets)
  BY FS_EmptySet DEF NoRoute, RouteRows, Strategies, FitsKeys
<1>3. route \in RouteRows /\ FitsKeys(route.targets)
  <2>1. CASE route = NoRoute
    BY <1>2, <2>1
  <2>2. ASSUME NEW list \in Founding,
               route = [NoRoute EXCEPT !.there = TRUE, !.enabled = TRUE, !.targets = list]
        PROVE  route \in RouteRows /\ FitsKeys(route.targets)
    <3>1. FitsKeys(list) /\ list \in SUBSET TargetRow
      BY PagesAssumption DEF FitsKeys
    <3>2. route \in RouteRows /\ route.targets = list
      BY <1>2, <2>2, <3>1 DEF RouteRows
    <3> QED
      BY <3>1, <3>2
  <2> QED
    BY <2>1, <2>2 DEF PagesInit
<1>4. routeTab = [g \in RouteTabs |-> Blank]
  BY DEF PagesInit
<1>5. routeTab \in [RouteTabs -> RoutePagesOpen] /\ \A g \in RouteTabs : PageHolds(routeTab[g])
  <2>1. PageHolds(Blank) /\ Blank \in RoutePagesOpen
    BY NothingAsked DEF PageHolds
  <2> HIDE DEF Blank
  <2> QED
    BY <1>4, <2>1
<1> QED
  BY <1>1, <1>3, <1>5 DEF PagesInv

\* One page is exchanged for another that holds.
LEMMA PageChanges ==
  ASSUME PagesInv, NEW g \in RouteTabs, NEW open, PageHolds(open),
         routeTab' = [routeTab EXCEPT ![g] = open]
  PROVE  (routeTab \in [RouteTabs -> RoutePagesOpen] /\ \A h \in RouteTabs : PageHolds(routeTab[h]))'
<1>1. open \in RoutePagesOpen
  BY DEF PageHolds
<1>2. routeTab' \in [RouteTabs -> RoutePagesOpen]
  BY <1>1 DEF PagesInv
<1>3. \A h \in RouteTabs : PageHolds(routeTab'[h])
  BY DEF PagesInv
<1> QED
  BY <1>2, <1>3

\* A page that asks for nothing new.
LEMMA PageTakes ==
  ASSUME PagesInv, NEW g \in RouteTabs, NEW form \in RouteForms
  PROVE  PageHolds([routeTab[g] EXCEPT !.form = form])
<1>1. routeTab[g] \in RoutePagesOpen /\ PageHolds(routeTab[g])
  BY DEF PagesInv
<1> DEFINE open == [routeTab[g] EXCEPT !.form = form]
<1>2. open \in RoutePagesOpen /\ open.route = routeTab[g].route /\ open.request = routeTab[g].request
  BY <1>1 DEF RoutePagesOpen
<1> HIDE DEF open
<1>3. PageHolds(open)
  BY <1>1, <1>2 DEF PageHolds
<1> QED
  BY <1>3 DEF open

\* What a page loads is the row as it is.
LEMMA PageLoads == ASSUME PagesInv, NEW g \in RouteTabs, LoadRoutes(g) PROVE PagesInv'
<1> DEFINE known == ExistingProviders
           open == [routeTab[g] EXCEPT !.loaded = TRUE, !.known = known, !.route = route]
<1>1. routeTab[g] \in RoutePagesOpen /\ PageHolds(routeTab[g]) /\ known \in SUBSET Providers
  BY DEF PagesInv, ExistingProviders
<1> HIDE DEF known
<1>2. routeTab' = [routeTab EXCEPT ![g] = open]
  BY DEF LoadRoutes, PagesInv, known
<1>3. open \in RoutePagesOpen /\ open.route = route /\ open.request = routeTab[g].request
  BY <1>1 DEF RoutePagesOpen, PagesInv
<1> HIDE DEF open
<1>4. PageHolds(open)
  BY <1>1, <1>3 DEF PageHolds, PagesInv
<1>5. UNCHANGED <<providers, route>>
  BY DEF LoadRoutes
<1> QED
  BY <1>2, <1>4, <1>5, PageChanges DEF PagesInv

\* Whatever TargetEditor makes of the rows is a list of rows.
LEMMA EditedTells ==
  ASSUME NEW rows \in Seq(FormRow), NEW known \in SUBSET Providers
  PROVE  \A edited \in Edited(rows, known) : edited \in Seq(FormRow)
<1> SUFFICES ASSUME NEW edited \in Edited(rows, known) PROVE edited \in Seq(FormRow)
  OBVIOUS
<1>1. NewRow \in FormRow
  BY TablesAssumption DEF NewRow, Target, FormRow
<1>2. Append(rows, NewRow) \in Seq(FormRow)
  BY <1>1
<1>3. ASSUME NEW i \in DOMAIN rows PROVE RemoveAt(rows, i) \in Seq(FormRow)
  <2>1. i \in 1 .. Len(rows) /\ Len(rows) \in Nat
    OBVIOUS
  <2>2. SubSeq(rows, 1, i - 1) \in Seq(FormRow) /\ SubSeq(rows, i + 1, Len(rows)) \in Seq(FormRow)
    BY <2>1, SubSeqProperties
  <2> QED
    BY <2>2 DEF RemoveAt
<1>4. ASSUME NEW i \in DOMAIN rows, NEW row \in FormRow PROVE [rows EXCEPT ![i] = row] \in Seq(FormRow)
  BY <1>4
<1>5. \A i \in DOMAIN rows : rows[i] \in FormRow
  OBVIOUS
<1>6. ASSUME NEW i \in DOMAIN rows, NEW q \in known \cup {0}
      PROVE  [rows EXCEPT ![i].provider = q, ![i].upstream = 0] \in Seq(FormRow)
  <2> DEFINE row == [rows[i] EXCEPT !.provider = q, !.upstream = 0]
  <2>1. row \in FormRow
    BY <1>5 DEF FormRow
  <2>2. [rows EXCEPT ![i].provider = q, ![i].upstream = 0] = [rows EXCEPT ![i] = row]
    OBVIOUS
  <2> HIDE DEF row
  <2> QED
    BY <1>4, <2>1, <2>2
<1>7. ASSUME NEW i \in DOMAIN rows, NEW u \in Upstreams PROVE [rows EXCEPT ![i].upstream = u] \in Seq(FormRow)
  <2>1. [rows[i] EXCEPT !.upstream = u] \in FormRow
    BY <1>5 DEF FormRow
  <2> QED
    BY <1>4, <2>1
<1>8. ASSUME NEW i \in DOMAIN rows, NEW m \in Priorities PROVE [rows EXCEPT ![i].priority = m] \in Seq(FormRow)
  <2>1. [rows[i] EXCEPT !.priority = m] \in FormRow
    BY <1>5 DEF FormRow
  <2> QED
    BY <1>4, <2>1
<1>9. ASSUME NEW i \in DOMAIN rows PROVE [rows EXCEPT ![i].enabled = ~rows[i].enabled] \in Seq(FormRow)
  <2>1. [rows[i] EXCEPT !.enabled = ~rows[i].enabled] \in FormRow
    BY <1>5 DEF FormRow
  <2> QED
    BY <1>4, <2>1
<1> DEFINE moved == UNION {{[rows EXCEPT ![i].provider = q, ![i].upstream = 0] : q \in known \cup {0}} : i \in DOMAIN rows}
           models == UNION {{[rows EXCEPT ![i].upstream = u] : u \in Upstreams} :
                              i \in {j \in DOMAIN rows : rows[j].provider \in known}}
           levels == UNION {{[rows EXCEPT ![i].priority = m] : m \in Priorities} : i \in DOMAIN rows}
           switched == {[rows EXCEPT ![i].enabled = ~@] : i \in DOMAIN rows}
           fewer == {RemoveAt(rows, i) : i \in DOMAIN rows}
           more == IF Len(rows) < MaxRows THEN {Append(rows, NewRow)} ELSE {}
<1>10. CASE edited \in moved
  <2>1. PICK i \in DOMAIN rows :
          edited \in {[rows EXCEPT ![i].provider = q, ![i].upstream = 0] : q \in known \cup {0}}
    BY <1>10
  <2>2. PICK q \in known \cup {0} : edited = [rows EXCEPT ![i].provider = q, ![i].upstream = 0]
    BY <2>1
  <2> QED
    BY <1>6, <2>2
<1>11. CASE edited \in models
  <2>1. PICK i \in DOMAIN rows : edited \in {[rows EXCEPT ![i].upstream = u] : u \in Upstreams}
    BY <1>11
  <2>2. PICK u \in Upstreams : edited = [rows EXCEPT ![i].upstream = u]
    BY <2>1
  <2> QED
    BY <1>7, <2>2
<1>12. CASE edited \in levels
  <2>1. PICK i \in DOMAIN rows : edited \in {[rows EXCEPT ![i].priority = m] : m \in Priorities}
    BY <1>12
  <2>2. PICK m \in Priorities : edited = [rows EXCEPT ![i].priority = m]
    BY <2>1
  <2> QED
    BY <1>8, <2>2
<1>13. CASE edited \in switched
  <2>1. PICK i \in DOMAIN rows : edited = [rows EXCEPT ![i].enabled = ~@]
    BY <1>13
  <2> QED
    BY <1>9, <2>1
<1>14. CASE edited \in fewer
  BY <1>3, <1>14
<1>15. CASE edited \in more
  BY <1>2, <1>15
<1>16. Edited(rows, known) = more \cup (fewer \cup (moved \cup (models \cup (levels \cup switched))))
  BY Zenon DEF Edited
<1> HIDE DEF moved, models, levels, switched, fewer, more
<1> QED
  BY <1>10, <1>11, <1>12, <1>13, <1>14, <1>15, <1>16

\* A gesture that touches the form alone.
LEMMA PageGesture ==
  ASSUME PagesInv, NEW g \in RouteTabs, OpenRouteForm(g) \/ CloseRouteForm(g) \/ EditForm(g)
  PROVE  PagesInv'
<1>1. routeTab[g] \in RoutePagesOpen /\ PageHolds(routeTab[g]) /\ routeTab[g].form \in RouteForms
      /\ routeTab[g].known \in SUBSET Providers /\ routeTab[g].route \in RouteRows
  BY DEF PagesInv, RoutePagesOpen
<1>2. ASSUME NEW form \in RouteForms, routeTab' = [routeTab EXCEPT ![g].form = form], UNCHANGED <<providers, route>>
      PROVE  PagesInv'
  <2> DEFINE open == [routeTab[g] EXCEPT !.form = form]
  <2>1. PageHolds(open)
    BY PageTakes
  <2>2. routeTab' = [routeTab EXCEPT ![g] = open]
    BY <1>2
  <2> HIDE DEF open
  <2> QED
    BY <1>2, <2>1, <2>2, PageChanges DEF PagesInv
<1>3. CASE OpenRouteForm(g)
  <2>1. EMPTY_ROUTE \in RouteForms
    BY NothingAsked
  <2>2. routeToDraft(routeTab[g].route) \in RouteForms
    <3> DEFINE row == routeTab[g].route
               list == loadTargets(row.targets)
    <3>1. list \in Seq(TargetRow)
      BY <1>1, LoadedTells DEF PageHolds
    <3>2. TargetRow \subseteq FormRow
      BY DEF TargetRow, FormRow
    <3>3. routeToDraft(row) = [open |-> TRUE, existing |-> TRUE, strategy |-> row.strategy,
                               enabled |-> row.enabled, rows |-> list]
      BY DEF routeToDraft
    <3> HIDE DEF list
    <3>4. list \in Seq(FormRow)
      BY <3>1, <3>2
    <3> QED
      BY <1>1, <3>3, <3>4 DEF RouteForms, RouteRows
  <2> QED
    BY <1>2, <1>3, <2>1, <2>2 DEF OpenRouteForm
<1>4. CASE CloseRouteForm(g)
  BY <1>2, <1>4, NothingAsked DEF CloseRouteForm
<1>5. CASE EditForm(g)
  <2>1. UNCHANGED <<providers, route>>
    BY <1>5 DEF EditForm
  <2>2. ASSUME NEW rows \in Edited(routeTab[g].form.rows, routeTab[g].known),
               routeTab' = [routeTab EXCEPT ![g].form.rows = rows]
        PROVE  PagesInv'
    <3>1. rows \in Seq(FormRow)
      BY <1>1, EditedTells DEF RouteForms
    <3> DEFINE form == [routeTab[g].form EXCEPT !.rows = rows]
    <3>2. form \in RouteForms
      BY <1>1, <3>1 DEF RouteForms
    <3>3. routeTab' = [routeTab EXCEPT ![g].form = form]
      BY <2>2
    <3> HIDE DEF form
    <3> QED
      BY <1>2, <2>1, <3>2, <3>3
  <2>3. ASSUME NEW s \in Strategies, routeTab' = [routeTab EXCEPT ![g].form.strategy = s] PROVE PagesInv'
    <3> DEFINE form == [routeTab[g].form EXCEPT !.strategy = s]
    <3>2. form \in RouteForms
      BY <1>1 DEF RouteForms
    <3>3. routeTab' = [routeTab EXCEPT ![g].form = form]
      BY <2>3
    <3> HIDE DEF form
    <3> QED
      BY <1>2, <2>1, <3>2, <3>3
  <2>4. ASSUME routeTab' = [routeTab EXCEPT ![g].form.enabled = ~@] PROVE PagesInv'
    <3> DEFINE form == [routeTab[g].form EXCEPT !.enabled = ~routeTab[g].form.enabled]
    <3>2. form \in RouteForms
      BY <1>1 DEF RouteForms
    <3>3. routeTab' = [routeTab EXCEPT ![g].form = form]
      BY <2>4
    <3> HIDE DEF form
    <3> QED
      BY <1>2, <2>1, <3>2, <3>3
  <2> QED
    BY <1>5, <2>2, <2>3, <2>4 DEF EditForm
<1> QED
  BY <1>3, <1>4, <1>5

\* A request that says what the page shows, or had cached.
LEMMA PageAsks ==
  ASSUME PagesInv, NEW g \in RouteTabs, NEW kind \in {"create", "update", "toggle", "delete"},
         NEW input \in RouteInputs, PageRequests(g, kind, input), UNCHANGED <<providers, route>>,
         SaysWhatItShows([kind |-> kind, checked |-> FALSE, input |-> input,
                          shown |-> routeTab[g].form, knew |-> routeTab[g].known])
  PROVE  PagesInv'
<1> DEFINE request == [kind |-> kind, checked |-> FALSE, input |-> input,
                       shown |-> routeTab[g].form, knew |-> routeTab[g].known]
           open == [routeTab[g] EXCEPT !.request = request]
<1>1. routeTab[g] \in RoutePagesOpen /\ PageHolds(routeTab[g]) /\ routeTab[g].form \in RouteForms
      /\ routeTab[g].known \in SUBSET Providers
  BY DEF PagesInv, RoutePagesOpen
<1>2. request \in RouteRequests
  BY <1>1 DEF RouteRequests
<1>3. routeTab' = [routeTab EXCEPT ![g] = open]
  BY DEF PageRequests
<1>4. SaysWhatItShows(request)
  OBVIOUS
<1> HIDE DEF request
<1>5. open \in RoutePagesOpen /\ open.route = routeTab[g].route /\ open.request = request
  BY <1>1, <1>2 DEF RoutePagesOpen
<1> HIDE DEF open
<1>6. PageHolds(open)
  BY <1>1, <1>4, <1>5 DEF PageHolds
<1> QED
  BY <1>3, <1>6, PageChanges DEF PagesInv

\* A save, a toggle or a removal says what the page has.
LEMMA AskStep ==
  ASSUME PagesInv, NEW g \in RouteTabs, SaveRoute(g) \/ ToggleRoute(g) \/ RemoveCard(g)
  PROVE  PagesInv'
<1> DEFINE form == routeTab[g].form
           known == routeTab[g].known
<1>1. PageHolds(routeTab[g]) /\ form \in RouteForms /\ known \in SUBSET Providers /\ routeTab[g].route \in RouteRows
  BY DEF PagesInv, RoutePagesOpen
<1>2. CASE SaveRoute(g)
  <2> DEFINE kind == IF form.existing THEN "update" ELSE "create"
             list == toTargets(form.rows, known)
             input == Input(form.strategy, form.enabled, list)
  <2>1. PageRequests(g, kind, input) /\ UNCHANGED <<providers, route>>
    BY <1>2 DEF SaveRoute
  <2>2. list \in Seq(TargetRow)
    BY <1>1, CompleteRowsGo DEF RouteForms
  <2> HIDE DEF list
  <2>3. input \in RouteInputs
    BY <1>1, <2>2 DEF RouteForms, RouteInputs, Input
  <2>4. SaysWhatItShows([kind |-> kind, checked |-> FALSE, input |-> input, shown |-> form, knew |-> known])
    <3> HIDE DEF form, known, input
    <3> QED
      BY DEF SaysWhatItShows, input, list
  <2>5. kind \in {"create", "update", "toggle", "delete"}
    OBVIOUS
  <2> HIDE DEF kind, input
  <2> QED
    BY <2>1, <2>3, <2>4, <2>5, PageAsks
<1>3. CASE ToggleRoute(g)
  <2> DEFINE row == routeTab[g].route
             list == loadTargets(row.targets)
             input == Toggled(row)
  <2>1. PageRequests(g, "toggle", input) /\ UNCHANGED <<providers, route>>
    BY <1>3 DEF ToggleRoute
  <2>2. list \in Seq(TargetRow) /\ KeysApart(list)
    BY <1>1, LoadedTells DEF PageHolds
  <2>3. input = [strategy |-> "keep", enabled |-> ~row.enabled, list |-> list]
    BY DEF Toggled, Input
  <2> HIDE DEF list, input
  <2>4. input \in RouteInputs
    BY <1>1, <2>2, <2>3 DEF RouteInputs, RouteRows
  <2>5. SaysWhatItShows([kind |-> "toggle", checked |-> FALSE, input |-> input, shown |-> form, knew |-> known])
    <3> HIDE DEF form, known
    <3> QED
      BY <2>2, <2>3 DEF SaysWhatItShows
  <2> QED
    BY <2>1, <2>4, <2>5, PageAsks
<1>4. CASE RemoveCard(g)
  <2> DEFINE input == Input("keep", FALSE, <<>>)
  <2>1. PageRequests(g, "delete", input) /\ UNCHANGED <<providers, route>>
    BY <1>4 DEF RemoveCard
  <2>2. input \in RouteInputs
    BY EmptyRows DEF Input, RouteInputs
  <2> HIDE DEF input
  <2>3. SaysWhatItShows([kind |-> "delete", checked |-> FALSE, input |-> input, shown |-> form, knew |-> known])
    <3> HIDE DEF form, known
    <3> QED
      BY DEF SaysWhatItShows
  <2> QED
    BY <2>1, <2>2, <2>3, PageAsks
<1> QED
  BY <1>2, <1>3, <1>4

\* An answer ends the request, and closes the form if it is a good one.
LEMMA AnswerTells ==
  ASSUME PagesInv, NEW g \in RouteTabs, NEW ok \in BOOLEAN, RouteAnswered(g, ok)
  PROVE  /\ (routeTab \in [RouteTabs -> RoutePagesOpen] /\ \A h \in RouteTabs : PageHolds(routeTab[h]))'
         /\ routeTab'[g].request = NoRequest
<1> DEFINE form == IF ok THEN NoForm ELSE routeTab[g].form
           request == NoRequest
           open == [routeTab[g] EXCEPT !.request = request, !.form = form]
<1>1. routeTab[g] \in RoutePagesOpen /\ PageHolds(routeTab[g]) /\ routeTab[g].form \in RouteForms
  BY DEF PagesInv, RoutePagesOpen
<1>2. form \in RouteForms /\ request \in RouteRequests /\ SaysWhatItShows(request)
  BY <1>1, NothingAsked DEF SaysWhatItShows, NoRequest
<1>3. routeTab' = [routeTab EXCEPT ![g] = open]
  BY DEF RouteAnswered
<1> HIDE DEF form
<1>4. open \in RoutePagesOpen /\ open.route = routeTab[g].route /\ open.request = request
  <2> HIDE DEF request
  <2> QED
    BY <1>1, <1>2 DEF RoutePagesOpen
<1> HIDE DEF open
<1>5. PageHolds(open)
  BY <1>1, <1>2, <1>4 DEF PageHolds
<1>6. routeTab'[g] = open
  BY <1>3 DEF PagesInv
<1> QED
  BY <1>3, <1>4, <1>5, <1>6, PageChanges

\* The check changes no more of a request than that it is over.
LEMMA CheckStep == ASSUME PagesInv, NEW g \in RouteTabs, Check(g) PROVE PagesInv'
<1>1. UNCHANGED <<providers, route>>
  BY DEF Check
<1>2. CASE RouteAnswered(g, FALSE)
  BY <1>1, <1>2, AnswerTells DEF PagesInv
<1>3. CASE routeTab' = [routeTab EXCEPT ![g].request.checked = TRUE]
  <2> DEFINE request == [routeTab[g].request EXCEPT !.checked = TRUE]
             open == [routeTab[g] EXCEPT !.request = request]
  <2>1. routeTab[g] \in RoutePagesOpen /\ PageHolds(routeTab[g]) /\ routeTab[g].request \in RouteRequests
    BY DEF PagesInv, RoutePagesOpen
  <2>2. request \in RouteRequests /\ request.kind = routeTab[g].request.kind
        /\ request.input = routeTab[g].request.input /\ request.shown = routeTab[g].request.shown
        /\ request.knew = routeTab[g].request.knew
    BY <2>1 DEF RouteRequests
  <2>3. routeTab' = [routeTab EXCEPT ![g] = open]
    BY <1>3
  <2> HIDE DEF request
  <2>4. open \in RoutePagesOpen /\ open.route = routeTab[g].route /\ open.request = request
    BY <2>1, <2>2 DEF RoutePagesOpen
  <2>5. SaysWhatItShows(request)
    BY <2>1, <2>2 DEF PageHolds, SaysWhatItShows
  <2> HIDE DEF open
  <2>6. PageHolds(open)
    BY <2>1, <2>4, <2>5 DEF PageHolds
  <2> QED
    BY <1>1, <2>3, <2>6, PageChanges DEF PagesInv
<1> QED
  BY <1>2, <1>3 DEF Check

\* A write stores what its request says, of two entries for one key the later.
LEMMA StoredTells ==
  ASSUME PagesInv, NEW g \in RouteTabs, Write(g, TRUE), route' # route
  PROVE  LET input == routeTab[g].request.input
         IN  /\ route' = [there |-> TRUE,
                          strategy |-> IF input.strategy = "keep" THEN route.strategy ELSE input.strategy,
                          enabled |-> input.enabled, targets |-> replaceTargets(route.targets, input.list)]
             /\ route' \in RouteRows /\ FitsKeys(route'.targets)
<1> DEFINE input == routeTab[g].request.input
           strategy == IF input.strategy = "keep" THEN route.strategy ELSE input.strategy
           new == replaceTargets(route.targets, input.list)
<1>1. route' = [there |-> TRUE, strategy |-> strategy, enabled |-> input.enabled, targets |-> new]
  BY DEF Write
<1>2. routeTab[g].request \in RouteRequests /\ input \in RouteInputs
  BY DEF PagesInv, RoutePagesOpen, RouteRequests
<1>3. FitsKeys(new) /\ new \in SUBSET TargetRow
  BY <1>2, ReplacedTells DEF RouteInputs, FitsKeys
<1>4. strategy \in Strategies /\ input.enabled \in BOOLEAN
  BY <1>2 DEF PagesInv, RouteRows, RouteInputs
<1> HIDE DEF new, strategy, input
<1>5. route' \in RouteRows /\ route'.targets = new
  BY <1>1, <1>3, <1>4 DEF RouteRows
<1> QED
  BY <1>1, <1>3, <1>5 DEF new, strategy, input

\* Each of the writes leaves a row whose targets fit their keys.
LEMMA WrittenStep ==
  ASSUME PagesInv, NEW g \in RouteTabs, CreateRoute(g) \/ UpdateRoute(g) \/ DeleteRoute(g)
  PROVE  PagesInv'
<1>1. UNCHANGED providers
  BY DEF CreateRoute, UpdateRoute, DeleteRoute
<1>2. PICK ok \in BOOLEAN : RouteAnswered(g, ok)
  BY DEF CreateRoute, UpdateRoute, DeleteRoute, Write, PagesInv, RouteRows
<1>3. route' \in RouteRows /\ FitsKeys(route'.targets)
  <2>1. CASE route' = route
    BY <2>1 DEF PagesInv
  <2>2. CASE DeleteRoute(g)
    BY <2>2, FS_EmptySet DEF DeleteRoute, NoRoute, RouteRows, Strategies, FitsKeys
  <2>3. CASE Write(g, TRUE) /\ route' # route
    BY <2>3, StoredTells
  <2> QED
    BY <2>1, <2>2, <2>3 DEF CreateRoute, UpdateRoute
<1> QED
  BY <1>1, <1>2, <1>3, AnswerTells DEF PagesInv

\* A provider that changes or goes leaves such a row.
LEMMA ProviderStep ==
  ASSUME PagesInv, NEW q \in Providers, UpdateProvider(q) \/ DeleteProvider(q)
  PROVE  PagesInv'
<1>1. UNCHANGED routeTab
  BY DEF UpdateProvider, DeleteProvider
<1>2. providers' \in [Providers -> ProviderRow]
  <2>1. ASSUME NEW row \in ProviderRow, providers' = [providers EXCEPT ![q] = row]
        PROVE  providers' \in [Providers -> ProviderRow]
    BY <2>1 DEF PagesInv
  <2>2. CASE UpdateProvider(q)
    <3>1. PICK enabled \in BOOLEAN : \E level \in Priorities :
            providers' = [providers EXCEPT ![q].enabled = enabled, ![q].priority = level]
      BY <2>2 DEF UpdateProvider
    <3>2. PICK level \in Priorities :
            providers' = [providers EXCEPT ![q].enabled = enabled, ![q].priority = level]
      BY <3>1
    <3> DEFINE row == [providers[q] EXCEPT !.enabled = enabled, !.priority = level]
    <3>3. row \in ProviderRow
      BY DEF PagesInv, ProviderRow
    <3>4. providers' = [providers EXCEPT ![q] = row]
      BY <3>2
    <3> HIDE DEF row
    <3> QED
      BY <2>1, <3>3, <3>4
  <2>3. CASE DeleteProvider(q)
    <3>1. Deleted \in ProviderRow
      BY TablesAssumption DEF Deleted, ProviderRow
    <3> QED
      BY <2>1, <2>3, <3>1 DEF DeleteProvider
  <2> QED
    BY <2>2, <2>3
<1>3. route' \in RouteRows /\ FitsKeys(route'.targets)
  <2>1. CASE UpdateProvider(q)
    BY <2>1 DEF UpdateProvider, PagesInv
  <2>2. CASE DeleteProvider(q)
    <3> DEFINE new == WithoutProvider(route.targets, q)
    <3>1. new \subseteq route.targets /\ IsFiniteSet(new)
      BY FS_Subset DEF WithoutProvider, PagesInv, FitsKeys
    <3>2. FitsKeys(new) /\ new \in SUBSET TargetRow
      BY <3>1 DEF FitsKeys, PagesInv
    <3> HIDE DEF new
    <3>3. route' = [route EXCEPT !.targets = new]
      BY <2>2 DEF DeleteProvider, new
    <3>4. route' \in RouteRows /\ route'.targets = new
      BY <3>2, <3>3 DEF RouteRows, PagesInv
    <3> QED
      BY <3>2, <3>4
  <2> QED
    BY <2>1, <2>2
<1> QED
  BY <1>1, <1>2, <1>3 DEF PagesInv

\* Every gesture, handler and change of a provider keeps the invariant.
LEMMA PagesInvNext == PagesInv /\ [PagesNext]_pagesVars => PagesInv'
<1> SUFFICES ASSUME PagesInv, [PagesNext]_pagesVars PROVE PagesInv'
  OBVIOUS
<1>1. ASSUME NEW g \in RouteTabs, LoadRoutes(g) PROVE PagesInv'
  BY <1>1, PageLoads
<1>2. ASSUME NEW g \in RouteTabs, OpenRouteForm(g) \/ CloseRouteForm(g) \/ EditForm(g) PROVE PagesInv'
  BY <1>2, PageGesture
<1>3. ASSUME NEW g \in RouteTabs, SaveRoute(g) \/ ToggleRoute(g) \/ RemoveCard(g) PROVE PagesInv'
  BY <1>3, AskStep
<1>4. ASSUME NEW g \in RouteTabs, Check(g) PROVE PagesInv'
  BY <1>4, CheckStep
<1>5. ASSUME NEW g \in RouteTabs, CreateRoute(g) \/ UpdateRoute(g) \/ DeleteRoute(g) PROVE PagesInv'
  BY <1>5, WrittenStep
<1>6. ASSUME NEW q \in Providers, UpdateProvider(q) \/ DeleteProvider(q) PROVE PagesInv'
  BY <1>6, ProviderStep
<1>7. CASE UNCHANGED pagesVars
  BY <1>7 DEF pagesVars, PagesInv
<1> QED
  BY <1>1, <1>2, <1>3, <1>4, <1>5, <1>6, <1>7 DEF PagesNext

\* A page that is up to date marks the target that requests go to first.
LEMMA MarkTells == PagesInv => MarkTellsWithoutTies
<1> SUFFICES ASSUME PagesInv, NEW g \in RouteTabs, Current(g), AllServe,
                    \A s, t \in route.targets : s.priority = t.priority => s = t
             PROVE  MarksFirst(g)
  BY DEF MarkTellsWithoutTies
<1> DEFINE targets == route.targets
           list == loadTargets(targets)
           first == resolveTargets(providers, targets)
           serving == Serving(providers, targets)
           eligible == {i \in DOMAIN list : list[i].enabled}
           best == {i \in eligible : \A j \in eligible : list[j].priority <= list[i].priority}
           mark == IF best = {} THEN 0 ELSE CHOOSE i \in best : \A j \in best : i <= j
<1>1. routeTab[g].route = route /\ FitsKeys(targets) /\ providers \in [Providers -> ProviderRow]
  BY DEF Current, PagesInv
<1>2. mark = preferredIndex(list)
  BY DEF preferredIndex, Eligible
<1>3. /\ list \in Seq(TargetRow)
      /\ \A i \in DOMAIN list : list[i] \in targets
      /\ \A t \in targets : \E i \in DOMAIN list : list[i] = t
  BY <1>1, LoadedTells
<1>4. /\ first = <<>> <=> serving = {}
      /\ first # <<>> => Head(first) \in serving /\ \A t \in serving : t.priority <= Head(first).priority
  BY <1>1, FirstServes
<1>5. serving = {t \in targets : t.enabled}
  BY DEF AllServe, Serving
<1>6. \A t \in targets : t.priority \in Int
  BY <1>1, KeysCompare
<1>7. IF first = <<>> THEN mark = 0 ELSE mark # 0 /\ list[mark] = Head(first)
  <2> HIDE DEF targets, list, first, serving
  <2>1. CASE first = <<>>
    <3>1. best = {}
      BY <1>3, <1>4, <1>5, <2>1
    <3> QED
      BY <2>1, <3>1
  <2>2. CASE first # <<>>
    <3>1. Head(first) \in serving /\ \A t \in serving : t.priority <= Head(first).priority
      BY <1>4, <2>2
    <3>2. PICK i \in DOMAIN list : list[i] = Head(first)
      BY <1>3, <1>5, <3>1
    <3>3. i \in eligible
      BY <1>5, <3>1, <3>2
    <3>4. \A j \in eligible : list[j] \in serving
      BY <1>3, <1>5
    <3>5. i \in best
      BY <3>1, <3>2, <3>3, <3>4
    <3>6. best \in SUBSET Nat /\ 0 \notin best
      <4>1. DOMAIN list = 1 .. Len(list) /\ Len(list) \in Nat
        BY <1>3
      <4> QED
        BY <4>1
    <3>7. \E k \in best : \A j \in best : k <= j
      <4> HIDE DEF best
      <4> QED
        BY <3>5, <3>6, LeastElement
    <3>8. mark \in best
      <4> HIDE DEF best
      <4> QED
        BY <3>5, <3>7
    <3>9. list[mark] = Head(first)
      <4> HIDE DEF mark
      <4>1. mark \in eligible /\ list[i].priority <= list[mark].priority
        BY <3>3, <3>8
      <4>2. list[mark] \in serving /\ list[mark].priority <= Head(first).priority
        BY <3>1, <3>4, <4>1
      <4>3. list[mark] \in targets /\ Head(first) \in targets
        BY <1>5, <3>1, <4>2
      <4>4. list[mark].priority = Head(first).priority
        BY <1>6, <3>2, <4>1, <4>2, <4>3
      <4> QED
        BY <4>3, <4>4 DEF targets
    <3>10. mark # 0
      <4> HIDE DEF mark, best
      <4> QED
        BY <3>6, <3>8
    <3> QED
      BY <2>2, <3>9, <3>10
  <2> QED
    BY <2>1, <2>2
<1> HIDE DEF mark, list, first
<1>8. IF first = <<>> THEN preferredIndex(list) = 0
      ELSE preferredIndex(list) # 0 /\ list[preferredIndex(list)] = Head(first)
  BY <1>2, <1>7
<1> QED
  BY <1>1, <1>8 DEF MarksFirst, list, first

\* Only a page's own write ends its request and changes the route.
LEMMA WhoWrites ==
  ASSUME PagesInv, PagesNext, NEW g \in RouteTabs, NEW kinds, kinds \subseteq {"create", "update", "toggle"},
         WritesRoute(g, kinds)
  PROVE  Write(g, TRUE)
<1>1. routeTab[g].request.kind \in kinds /\ routeTab[g].request.checked /\ route' # route
      /\ routeTab'[g].request = NoRequest
  BY DEF WritesRoute, AsksRoute
<1>2. routeTab'[g] # routeTab[g]
  BY <1>1 DEF NoRequest
<1>3. ASSUME NEW h \in RouteTabs, NEW ok \in BOOLEAN, RouteAnswered(h, ok) PROVE h = g
  <2>1. h # g => routeTab'[g] = routeTab[g]
    BY <1>3 DEF RouteAnswered, PagesInv
  <2> QED
    BY <1>2, <2>1
<1>4. ASSUME NEW h \in RouteTabs, CreateRoute(h) \/ UpdateRoute(h) PROVE Write(g, TRUE)
  <2>1. PICK ok \in BOOLEAN : RouteAnswered(h, ok)
    BY <1>4 DEF CreateRoute, UpdateRoute, Write
  <2>2. h = g
    BY <1>3, <2>1
  <2> QED
    BY <1>1, <1>4, <2>2 DEF CreateRoute, UpdateRoute
<1>5. ASSUME NEW h \in RouteTabs, DeleteRoute(h) PROVE FALSE
  <2>1. PICK ok \in BOOLEAN : RouteAnswered(h, ok)
    BY <1>5 DEF DeleteRoute, PagesInv, RouteRows
  <2>2. h = g
    BY <1>3, <2>1
  <2> QED
    BY <1>1, <1>5, <2>2 DEF DeleteRoute, AsksRoute
<1>6. ASSUME NEW q \in Providers, UpdateProvider(q) \/ DeleteProvider(q) PROVE FALSE
  BY <1>2, <1>6 DEF UpdateProvider, DeleteProvider
<1>7. ASSUME NEW h \in RouteTabs,
             \/ LoadRoutes(h) \/ OpenRouteForm(h) \/ CloseRouteForm(h) \/ EditForm(h) \/ SaveRoute(h)
             \/ ToggleRoute(h) \/ RemoveCard(h) \/ Check(h)
      PROVE  FALSE
  <2>1. UNCHANGED route
    BY <1>7 DEF LoadRoutes, OpenRouteForm, CloseRouteForm, EditForm, SaveRoute, ToggleRoute, RemoveCard, Check
  <2> QED
    BY <1>1, <2>1
<1> QED
  BY <1>4, <1>5, <1>6, <1>7 DEF PagesNext

\* The routes page saves what its form shows, undoes nothing with its switch and
\* marks the target that serves, for any pages, providers, models and priorities.
THEOREM PagesTellTrue == PagesSpec => PagesTellTheRoute
<1>1. ASSUME PagesInv, [PagesNext]_pagesVars, NEW g \in RouteTabs, WritesRoute(g, {"create", "update"})
      PROVE  LET shown == routeTab[g].request.shown
                 rows == {row \in ToSet(shown.rows) : Complete(row, routeTab[g].request.knew)} IN
             /\ route'.targets \subseteq rows
             /\ \A row \in rows : \E t \in route'.targets : SameKey(row, t)
             /\ \A s, t \in route'.targets : SameKey(s, t) => s = t
             /\ route'.strategy = shown.strategy /\ route'.enabled = shown.enabled
  <2> DEFINE request == routeTab[g].request
             shown == request.shown
             rows == {row \in ToSet(shown.rows) : Complete(row, request.knew)}
             list == toTargets(shown.rows, request.knew)
             new == replaceTargets(route.targets, list)
  <2>1. route' # route /\ request.kind \in {"create", "update"}
    BY <1>1 DEF WritesRoute, AsksRoute
  <2>2. Write(g, TRUE)
    BY <1>1, <2>1, WhoWrites DEF pagesVars
  <2>3. request \in RouteRequests /\ shown \in RouteForms /\ SaysWhatItShows(request)
    BY <1>1 DEF PagesInv, RoutePagesOpen, RouteRequests, PageHolds
  <2>4. request.input = [strategy |-> shown.strategy, enabled |-> shown.enabled, list |-> list]
    <3> HIDE DEF request
    <3> QED
      BY <2>1, <2>3 DEF SaysWhatItShows, Input
  <2>5. shown.strategy # "keep" /\ shown.rows \in Seq(FormRow) /\ request.knew \in SUBSET Providers
    BY <2>3 DEF RouteForms, RouteRequests, Strategies
  <2>6. list \in Seq(TargetRow) /\ \A row : (\E i \in DOMAIN list : list[i] = row) <=> row \in rows
    <3>1. /\ list \in Seq(TargetRow)
          /\ \A row : (\E i \in DOMAIN list : list[i] = row)
               <=> row \in ToSet(shown.rows) /\ Complete(row, request.knew)
      BY <2>5, CompleteRowsGo
    <3> HIDE DEF list, shown, request
    <3> QED
      BY <3>1
  <2>7. /\ route' = [there |-> TRUE,
                     strategy |-> IF request.input.strategy = "keep" THEN route.strategy ELSE request.input.strategy,
                     enabled |-> request.input.enabled,
                     targets |-> replaceTargets(route.targets, request.input.list)]
        /\ FitsKeys(route'.targets)
    BY <1>1, <2>1, <2>2, StoredTells
  <2> HIDE DEF list, rows
  <2>8. /\ \A t \in new : \E i \in DOMAIN list : list[i] = t
        /\ \A i \in DOMAIN list : \E t \in new : SameKey(list[i], t)
    BY <2>6, ReplacedTells
  <2>9. route'.targets = new /\ route'.strategy = shown.strategy /\ route'.enabled = shown.enabled
    BY <2>4, <2>5, <2>7
  <2> HIDE DEF new, shown, request
  <2>10. new \subseteq rows /\ \A row \in rows : \E t \in new : SameKey(row, t)
    BY <2>6, <2>8
  <2>11. \A s, t \in new : SameKey(s, t) => s = t
    BY <2>7, <2>9 DEF FitsKeys
  <2> QED
    BY <2>9, <2>10, <2>11 DEF rows, shown, request
<1>2. ASSUME PagesInv, [PagesNext]_pagesVars, NEW g \in RouteTabs, WritesRoute(g, {"toggle"})
      PROVE  /\ route'.strategy = route.strategy
             /\ ToSet(routeTab[g].request.input.list) = route.targets => route'.targets = route.targets
  <2> DEFINE request == routeTab[g].request
             list == request.input.list
             new == replaceTargets(route.targets, list)
  <2>1. route' # route /\ request.kind = "toggle"
    BY <1>2 DEF WritesRoute, AsksRoute
  <2>2. Write(g, TRUE)
    BY <1>2, <2>1, WhoWrites DEF pagesVars
  <2>3. list \in Seq(TargetRow) /\ request.input.strategy = "keep" /\ KeysApart(list)
    BY <1>2, <2>1 DEF PagesInv, RoutePagesOpen, RouteRequests, RouteInputs, PageHolds, SaysWhatItShows
  <2>4. route' = [there |-> TRUE,
                  strategy |-> IF request.input.strategy = "keep" THEN route.strategy ELSE request.input.strategy,
                  enabled |-> request.input.enabled, targets |-> new]
    BY <1>2, <2>1, <2>2, StoredTells
  <2>5. route'.strategy = route.strategy /\ route'.targets = new
    BY <2>3, <2>4
  <2> HIDE DEF list
  <2>6. /\ \A t \in new : \E i \in DOMAIN list : list[i] = t
        /\ \A i \in DOMAIN list : list[i] \in new
    BY <2>3, ReplacedTells
  <2> HIDE DEF new
  <2>7. ToSet(list) = new
    BY <2>6 DEF ToSet
  <2> QED
    BY <2>5, <2>7 DEF list
<1>3. PagesInv /\ [PagesNext]_pagesVars =>
        \A g \in RouteTabs : WritesRoute(g, {"create", "update"}) =>
          LET shown == routeTab[g].request.shown
              rows == {row \in ToSet(shown.rows) : Complete(row, routeTab[g].request.knew)} IN
          /\ route'.targets \subseteq rows
          /\ \A row \in rows : \E t \in route'.targets : SameKey(row, t)
          /\ \A s, t \in route'.targets : SameKey(s, t) => s = t
          /\ route'.strategy = shown.strategy /\ route'.enabled = shown.enabled
  BY <1>1
<1>4. PagesInv /\ [PagesNext]_pagesVars =>
        \A g \in RouteTabs : WritesRoute(g, {"toggle"}) =>
          /\ route'.strategy = route.strategy
          /\ ToSet(routeTab[g].request.input.list) = route.targets => route'.targets = route.targets
  BY <1>2
<1> QED
  BY <1>3, <1>4, PagesStart, PagesInvNext, MarkTells, PTL
     DEF PagesSpec, PagesTellTheRoute, SaveStoresTheForm, ToggleKeepsTheRest

============================================================================
