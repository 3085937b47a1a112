---------------------------- MODULE UsageLedger ----------------------------
(***************************************************************************)
(* What the dashboard is promised: a request whose caller got an answer    *)
(* from the gateway has exactly one row in the usage log, and the row says *)
(* what the caller saw.  How an answer is obtained is left out.            *)
(***************************************************************************)
EXTENDS Sequences, TLAPS

CONSTANT Requests

VARIABLES
  phase,   \* how far the caller has got with a request
  rows     \* the statuses logged for a request

Phases == {"absent", "open", "committed", "served", "failed", "cut", "gone", "dropped"}

Init ==
  /\ phase = [r \in Requests |-> "absent"]
  /\ rows = [r \in Requests |-> <<>>]

Move(r, from, to) ==
  /\ phase[r] \in from
  /\ phase' = [phase EXCEPT ![r] = to]

Log(r, status) == rows' = [rows EXCEPT ![r] = Append(@, status)]

Open(r) == Move(r, {"absent"}, "open") /\ UNCHANGED rows

\* The status line has been sent; only the body can still fail.
Commit(r) == Move(r, {"open"}, "committed") /\ UNCHANGED rows

Serve(r) == Move(r, {"open", "committed"}, "served") /\ Log(r, "ok")
Fail(r) == Move(r, {"open"}, "failed") /\ Log(r, "error")
Cut(r) == Move(r, {"committed"}, "cut") /\ Log(r, "error")

\* The caller left: before the commit the row is optional.
LeaveEarly(r) ==
  /\ Move(r, {"open"}, "gone")
  /\ Log(r, "aborted") \/ UNCHANGED rows
LeaveLate(r) == Move(r, {"committed"}, "gone") /\ Log(r, "ok")

\* A crash, or a defect of the gateway, takes any number of requests along.
Drop ==
  \E S \in SUBSET {r \in Requests : phase[r] \in {"open", "committed"}} :
    /\ phase' = [r \in Requests |-> IF r \in S THEN "dropped" ELSE phase[r]]
    /\ UNCHANGED rows

Next ==
  \/ \E r \in Requests :
       \/ Open(r) \/ Commit(r) \/ Serve(r) \/ Fail(r) \/ Cut(r)
       \/ LeaveEarly(r) \/ LeaveLate(r)
  \/ Drop

Spec == Init /\ [][Next]_<<phase, rows>>

\* The promise, as a state predicate: nothing is logged before the end, an
\* answered request has the one row that matches, a dropped one has none.
Promise ==
  \A r \in Requests :
    /\ phase[r] \in {"absent", "open", "committed", "dropped"} => rows[r] = <<>>
    /\ phase[r] = "served" => rows[r] = <<"ok">>
    /\ phase[r] \in {"failed", "cut"} => rows[r] = <<"error">>
    /\ phase[r] = "gone" => rows[r] \in {<<>>, <<"ok">>, <<"aborted">>}

----------------------------------------------------------------------------

TypeOK ==
  /\ phase \in [Requests -> Phases]
  /\ rows \in [Requests -> Seq({"ok", "error", "aborted"})]

\* One request ends with at most one row.
LEMMA OneRow ==
  ASSUME TypeOK, Promise, NEW r \in Requests, NEW from \in SUBSET {"open", "committed"},
         NEW to \in Phases, NEW status \in {"ok", "error", "aborted"},
         Move(r, from, to), Log(r, status),
         \/ to = "served" /\ status = "ok"
         \/ to \in {"failed", "cut"} /\ status = "error"
         \/ to = "gone" /\ status \in {"ok", "aborted"}
  PROVE  (TypeOK /\ Promise)'
<1>1. rows[r] = <<>> /\ phase[r] \in {"open", "committed"}
  BY DEF Move, Promise
<1>2. /\ \A s \in Requests : phase'[s] = IF s = r THEN to ELSE phase[s]
      /\ \A s \in Requests : rows'[s] = IF s = r THEN <<status>> ELSE rows[s]
  BY <1>1 DEF Move, Log, TypeOK
<1>3. TypeOK'
  BY <1>1 DEF Move, Log, TypeOK
<1> QED
  BY <1>2, <1>3 DEF Promise

\* A step that writes nothing leaves a request without a row where it was.
LEMMA NoRow ==
  ASSUME TypeOK, Promise, NEW r \in Requests, NEW from, NEW to \in Phases,
         Move(r, from, to), UNCHANGED rows,
         from \subseteq {"absent", "open"}, to \in {"open", "committed", "gone"}
  PROVE  (TypeOK /\ Promise)'
<1>1. rows[r] = <<>>
  BY DEF Move, Promise
<1>2. \A s \in Requests : phase'[s] = IF s = r THEN to ELSE phase[s]
  BY DEF Move, TypeOK
<1>3. TypeOK'
  BY DEF Move, TypeOK
<1> QED
  BY <1>1, <1>2, <1>3 DEF Promise

\* Whatever happens, the log tells every answered caller's story once.
THEOREM PromiseKept == Spec => []Promise
<1>1. Init => TypeOK /\ Promise
  BY DEF Init, TypeOK, Promise, Phases
<1>2. TypeOK /\ Promise /\ [Next]_<<phase, rows>> => (TypeOK /\ Promise)'
  <2> SUFFICES ASSUME TypeOK, Promise, [Next]_<<phase, rows>>
               PROVE  (TypeOK /\ Promise)'
    OBVIOUS
  <2>1. ASSUME NEW r \in Requests, Open(r) \/ Commit(r) PROVE (TypeOK /\ Promise)'
    BY <2>1, NoRow DEF Open, Commit, Phases
  <2>2. ASSUME NEW r \in Requests, Serve(r) \/ Fail(r) \/ Cut(r) \/ LeaveLate(r)
        PROVE  (TypeOK /\ Promise)'
    BY <2>2, OneRow DEF Serve, Fail, Cut, LeaveLate, Phases
  <2>3. ASSUME NEW r \in Requests, LeaveEarly(r) PROVE (TypeOK /\ Promise)'
    <3>1. CASE Log(r, "aborted")
      BY <2>3, <3>1, OneRow DEF LeaveEarly, Phases
    <3>2. CASE UNCHANGED rows
      BY <2>3, <3>2, NoRow DEF LeaveEarly, Phases
    <3> QED
      BY <2>3, <3>1, <3>2 DEF LeaveEarly
  <2>4. CASE Drop
    <3>1. \A r \in Requests :
            \/ phase'[r] = phase[r]
            \/ phase'[r] = "dropped" /\ rows[r] = <<>>
      BY <2>4 DEF Drop, Promise
    <3>2. TypeOK'
      BY <2>4 DEF Drop, TypeOK, Phases
    <3>3. UNCHANGED rows
      BY <2>4 DEF Drop
    <3>4. \A r \in Requests : phase[r] \in Phases
      BY DEF TypeOK
    <3> QED
      BY <3>1, <3>2, <3>3, <3>4 DEF Promise
  <2>5. CASE UNCHANGED <<phase, rows>>
    BY <2>5 DEF TypeOK, Promise
  <2> QED
    BY <2>1, <2>2, <2>3, <2>4, <2>5 DEF Next
<1> QED
  BY <1>1, <1>2, PTL DEF Spec

=============================================================================
