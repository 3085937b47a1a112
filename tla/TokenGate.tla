------------------------------ MODULE TokenGate ------------------------------
(***************************************************************************)
(* The dashboard's operator token: request in src/web/src/lib/api.ts and   *)
(* the dialog of src/web/src/components/TokenDialog.tsx.  A call answered  *)
(* 401 opens the dialog, or joins the one that is open, and is sent once   *)
(* more with what the operator enters.  The header opens it with no call   *)
(* waiting.                                                                *)
(***************************************************************************)
EXTENDS Naturals

CONSTANTS
  Calls,     \* calls of the pages: queries and mutations
  Queries,   \* those that an invalidation sends again
  Tokens,    \* what an operator may enter
  Accepted,  \* the token the gateway expects
  NoToken,   \* an empty field, or nothing in storage
  MaxOpens   \* bound on the times the header opens the dialog

ASSUME GateAssumption ==
  Queries \subseteq Calls /\ Accepted \in Tokens /\ NoToken \notin Tokens /\ MaxOpens \in Nat

VARIABLES
  stored,    \* readToken()
  call,      \* each call of request
  dialog,    \* the pending prompt: who awaits its promise
  opens      \* times the header opened it

gateVars == <<stored, call, dialog, opens>>

Shut == [open |-> FALSE, fromRequest |-> FALSE, awaiting |-> {}]

Settled == [pc |-> "settled", token |-> NoToken]

GateInit ==
  /\ stored \in Tokens \cup {NoToken}
  /\ call = [c \in Calls |-> Settled]
  /\ dialog = Shut
  /\ opens = 0

Sending(token) == [pc |-> "sent", token |-> token]

\* A page mounts, its window gains focus, or the operator acts.
Send(c) ==
  /\ call[c].pc = "settled"
  /\ call' = [call EXCEPT ![c] = Sending(stored)]
  /\ UNCHANGED <<stored, dialog, opens>>

\* Seeded fault: every 401 opens a dialog of its own, over the one that is open.
openAnother(c) == [open |-> TRUE, fromRequest |-> TRUE, awaiting |-> {c}]

\* Calls that are refused together share one dialog.
openPrompt(c) ==
  IF dialog.open THEN [dialog EXCEPT !.fromRequest = TRUE, !.awaiting = @ \cup {c}]
  ELSE [open |-> TRUE, fromRequest |-> TRUE, awaiting |-> {c}]

\* Seeded fault: the second 401 asks again.
PromptAgain(c) == call[c].pc \in {"sent", "resent"}

\* Only the first 401 of a call asks for a token.
Prompts(c) == call[c].pc = "sent"

\* The gateway answers, or cannot be reached.
Reply(c) ==
  /\ call[c].pc \in {"sent", "resent"}
  /\ \/ call' = [call EXCEPT ![c] = Settled] /\ UNCHANGED dialog
     \/ /\ call[c].token # Accepted /\ Prompts(c)
        /\ call' = [call EXCEPT ![c].pc = "waiting"]
        /\ dialog' = openPrompt(c)
  /\ UNCHANGED <<stored, opens>>

\* The dialog is modal: the header cannot be reached while it is open.
OpenFromHeader ==
  /\ ~dialog.open /\ opens < MaxOpens
  /\ opens' = opens + 1
  /\ dialog' = [Shut EXCEPT !.open = TRUE]
  /\ UNCHANGED <<stored, call>>

\* Those that wait are sent again, or fail with the 401 they had; a token entered from the
\* header invalidates every query, which restarts those in flight as well.
finish(token) ==
  LET saved == token # NoToken
  IN  /\ dialog.open
      /\ dialog' = Shut
      /\ stored' = IF saved THEN token ELSE stored
      /\ call' = [c \in Calls |->
           IF c \in dialog.awaiting
           THEN IF saved THEN [call[c] EXCEPT !.pc = "resent", !.token = token] ELSE Settled
           ELSE IF saved /\ ~dialog.fromRequest /\ c \in Queries THEN Sending(token)
           ELSE call[c]]
      /\ UNCHANGED opens

Enters == \E token \in Tokens \cup {NoToken} : finish(token)

GateNext == (\E c \in Calls : Send(c) \/ Reply(c)) \/ OpenFromHeader \/ Enters

\* Answers and failures come, and whoever has the dialog open closes it some day.
GateSpec ==
  /\ GateInit /\ [][GateNext]_gateVars
  /\ \A c \in Calls : WF_gateVars(Reply(c))
  /\ WF_gateVars(Enters)

----------------------------------------------------------------------------

\* A call that waits for a token is heard when the dialog closes: it awaits the promise of
\* the dialog that is open, and no dialog opens over it (TokenDialog.tsx, openPrompt).
WaitersHearTheDialog ==
  \A c \in Calls :
    call[c].pc = "waiting" => dialog.open /\ dialog.fromRequest /\ c \in dialog.awaiting

\* Every call settles, whatever tokens the operator enters: a token that is refused ends in an
\* error and not in another prompt for the same call (api.ts, request).  A call restarted
\* from the header is a new one, so the header is used finitely often.
EveryCallSettles == \A c \in Calls : call[c].pc # "settled" ~> call[c].pc = "settled"

\* Nobody waits for a dialog that is not there, and nobody waits or is asked for ever
\* (TokenDialog.tsx and api.ts).
CallsAreHeard == []WaitersHearTheDialog /\ EveryCallSettles
=============================================================================
