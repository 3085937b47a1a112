----------------------------- MODULE Admission -----------------------------
(***************************************************************************)
(* Admission of /v1 requests: client keys (src/src/db/keys.ts), the        *)
(* caller's identity and the sliding-window limiter of                     *)
(* src/src/http/auth.ts, in the order openEpisode of                       *)
(* src/src/http/handlers-v1.ts calls them.  Each database statement and    *)
(* the reading of the body may let other requests and the operator in;     *)
(* the limiter itself runs to its end.                                     *)
(***************************************************************************)
EXTENDS Naturals, FiniteSets, Sequences, Subsequences

CONSTANTS
  Requests,
  KeyIds,       \* ids of api_keys, which are never used twice
  Anonymous,    \* no key presented
  Unknown,      \* a key that is in no row
  Models,
  Limits,       \* the rate_limit_rpm values an operator sets; 0 is no limit
  Scopes,       \* the allowed_models values an operator sets
  RequireKey,   \* require_client_key
  Window,       \* the limiter's minute, in ticks of the model's clock
  Second,       \* a second, in the same ticks
  NoKey,        \* no api_keys row
  MaxClock,     \* bound on the model's clock
  MaxEdits      \* bound on what the operator does

KeyRow == [enabled : BOOLEAN, limit : Limits, scope : Scopes]

ASSUME AdmissionAssumption ==
  /\ Limits \subseteq Nat /\ Limits # {}
  /\ Scopes \subseteq SUBSET Models /\ Scopes # {}
  /\ RequireKey \in BOOLEAN
  /\ Second \in Nat \ {0} /\ Window \in Nat \ {0}
  /\ MaxClock \in Nat /\ MaxEdits \in Nat

VARIABLES
  clock,     \* Date.now()
  keys,      \* api_keys
  windows,   \* the limiter's timestamps; no entry and an empty one are alike
  req,       \* openEpisode, for each request
  granted,   \* what the limiter let through, with the limit in force (history)
  edits      \* edits made so far

vars == <<clock, keys, windows, req, granted, edits>>

Caller ==
  [pc    : {"start", "touch", "read", "limit", "body", "admitted", "refused", "limited"},
   token : KeyIds \cup {Anonymous, Unknown},
   scope : Scopes \cup {{}},            \* allowed_models as authenticate read it
   limit : Limits \cup {0},             \* rate_limit_rpm as rateLimitFor read it
   retry : Nat]                         \* the seconds a limited caller is told

Arriving(token) == [pc |-> "start", token |-> token, scope |-> {}, limit |-> 0, retry |-> 0]

Init ==
  /\ clock = 0
  /\ keys \in [KeyIds -> [enabled : {TRUE}, limit : Limits, scope : Scopes]]
  /\ windows = [k \in KeyIds |-> <<>>]
  /\ req \in [Requests -> {Arriving(t) : t \in KeyIds \cup {Anonymous, Unknown}}]
  /\ granted = [k \in KeyIds |-> <<>>]
  /\ edits = 0

----------------------------------------------------------------------------
(* authenticate *)

Refuse(r) == req' = [req EXCEPT ![r].pc = "refused"]

Authenticate(r) ==
  LET token == req[r].token
  IN  /\ req[r].pc = "start"
      /\ \/ token = Anonymous /\ ~RequireKey /\ req' = [req EXCEPT ![r].pc = "body"]
         \/ token = Anonymous /\ RequireKey /\ Refuse(r)
         \/ token = Unknown /\ Refuse(r)
         \/ Refuse(r)                                \* the declared length is over the cap
         \/ /\ token \in KeyIds
            /\ IF keys[token] # NoKey /\ keys[token].enabled
               THEN req' = [req EXCEPT ![r].pc = "touch", ![r].scope = keys[token].scope]
               ELSE Refuse(r)
      /\ UNCHANGED <<clock, keys, windows, granted, edits>>

\* touchKey's counters are a column of the dashboard and left out.
TouchKey(r) ==
  /\ req[r].pc = "touch"
  /\ req' = [req EXCEPT ![r].pc = "read"]
  /\ UNCHANGED <<clock, keys, windows, granted, edits>>

\* A key deleted meanwhile has no limit.
RateLimitFor(r) ==
  /\ req[r].pc = "read"
  /\ LET row == keys[req[r].token]
     IN  req' = [req EXCEPT ![r].pc = "limit", ![r].limit = IF row = NoKey THEN 0 ELSE row.limit]
  /\ UNCHANGED <<clock, keys, windows, granted, edits>>

----------------------------------------------------------------------------
(* rateLimiter *)

\* Seeded fault: the window is a tick too short.
RecentShort(k, now) ==
  LET w == windows[k] IN Subsequence(w, {i \in DOMAIN w : w[i] + Window > now + 1})

\* The timestamps after the cutoff.
Recent(k, now) ==
  LET w == windows[k] IN Subsequence(w, {i \in DOMAIN w : w[i] + Window > now})

CeilDiv(x, y) == (x + y - 1) \div y

\* Seeded fault: the seconds are rounded down.
RetryAfterFloor(recent, now) ==
  LET wait == (recent[1] + Window - now) \div Second IN IF wait < 1 THEN 1 ELSE wait

RetryAfter(recent, now) ==
  LET wait == CeilDiv(recent[1] + Window - now, Second) IN IF wait < 1 THEN 1 ELSE wait

\* Seeded fault: a refused request counts as well.
KeptWhenRefusedCounted(recent, now) == Append(recent, now)

\* What the limiter stores when it refuses.
KeptWhenRefused(recent, now) == recent

\* Seeded fault: nothing is ever dropped from the window.
KeptWhenGrantedAll(k, recent, now) == Append(windows[k], now)

\* What the limiter stores when it lets a request through.
KeptWhenGranted(k, recent, now) == Append(recent, now)

RateLimiter(r) ==
  LET k == req[r].token
      limit == req[r].limit
      recent == Recent(k, clock)
  IN  /\ req[r].pc = "limit"
      /\ \/ /\ limit = 0
            /\ req' = [req EXCEPT ![r].pc = "body"]
            /\ UNCHANGED <<windows, granted>>
         \/ /\ limit > 0 /\ Len(recent) >= limit
            /\ windows' = [windows EXCEPT ![k] = KeptWhenRefused(recent, clock)]
            /\ req' = [req EXCEPT ![r].pc = "limited", ![r].retry = RetryAfter(recent, clock)]
            /\ UNCHANGED granted
         \/ /\ limit > 0 /\ Len(recent) < limit
            /\ windows' = [windows EXCEPT ![k] = KeptWhenGranted(k, recent, clock)]
            /\ granted' = [granted EXCEPT ![k] = Append(@, [at |-> clock, limit |-> limit])]
            /\ req' = [req EXCEPT ![r].pc = "body"]
      /\ UNCHANGED <<clock, keys, edits>>

\* The body is read, then its model is held against the caller's scope.
ReadBody(r) ==
  /\ req[r].pc = "body"
  /\ \/ Refuse(r)                                     \* too large, or no model
     \/ \E m \in Models :
          req' = [req EXCEPT ![r].pc =
            IF req[r].scope = {} \/ m \in req[r].scope THEN "admitted" ELSE "refused"]
  /\ UNCHANGED <<clock, keys, windows, granted, edits>>

----------------------------------------------------------------------------
(* The operator and time *)

UpdateKey(k) ==
  /\ edits < MaxEdits /\ edits' = edits + 1
  /\ keys[k] # NoKey
  /\ \E row \in KeyRow : keys' = [keys EXCEPT ![k] = row]
  /\ UNCHANGED <<clock, windows, req, granted>>

DeleteKey(k) ==
  /\ edits < MaxEdits /\ edits' = edits + 1
  /\ keys[k] # NoKey
  /\ keys' = [keys EXCEPT ![k] = NoKey]
  /\ UNCHANGED <<clock, windows, req, granted>>

Tick ==
  /\ clock < MaxClock
  /\ clock' = clock + 1
  /\ UNCHANGED <<keys, windows, req, granted, edits>>

Next ==
  \/ Tick
  \/ \E k \in KeyIds : UpdateKey(k) \/ DeleteKey(k)
  \/ \E r \in Requests :
       Authenticate(r) \/ TouchKey(r) \/ RateLimitFor(r) \/ RateLimiter(r) \/ ReadBody(r)

Spec == Init /\ [][Next]_vars

----------------------------------------------------------------------------
(* Properties *)

\* Types, and the window's shape: in order, and no longer than the largest
\* limit, however many requests arrive.
TypeOK ==
  /\ clock \in 0..MaxClock /\ edits \in 0..MaxEdits
  /\ keys \in [KeyIds -> {NoKey} \cup KeyRow]
  /\ req \in [Requests -> Caller]
  /\ \A k \in KeyIds :
       /\ windows[k] \in Seq(0..clock)
       /\ \A i, j \in DOMAIN windows[k] : i < j => windows[k][i] <= windows[k][j]
       /\ \E limit \in Limits : Len(windows[k]) <= limit

\* How many requests of k were let through in the window that ends now.
GrantedIn(k, now) == Cardinality({i \in DOMAIN granted[k] : granted[k][i].at + Window > now})

\* No window of a minute, wherever it ends, lets more requests of a key
\* through than the limit read for the last of them, although limits change
\* and requests interleave between reading the limit and being counted.
WithinLimit ==
  \A k \in KeyIds : \A i \in DOMAIN granted[k] :
    Cardinality({j \in 1..i : granted[k][j].at + Window > granted[k][i].at}) <= granted[k][i].limit

\* A request is turned away only when the limit was really spent: being
\* refused does not itself use up the allowance.
RefusalIsEarned ==
  [][\A r \in Requests : RateLimiter(r) /\ req'[r].pc = "limited" =>
       GrantedIn(req[r].token, clock) >= req[r].limit]_vars

\* "retry in Ns": when no limit was lowered, a caller that waits as long as it
\* was told finds room, and at that second, not a window later.
RefusalIsHonest ==
  [][\A r \in Requests :
       LET k == req[r].token
           then == clock + req'[r].retry * Second
       IN  RateLimiter(r) /\ req'[r].pc = "limited" /\ Len(Recent(k, clock)) = req[r].limit =>
             /\ GrantedIn(k, then) < req[r].limit
             /\ req'[r].retry > 1 => GrantedIn(k, then - Second) >= req[r].limit]_vars

\* The window is well formed and what it lets through is within the limit
\* (auth.ts, rateLimiter).
LimitHolds == TypeOK /\ WithinLimit

\* A refusal is deserved, and what it says about waiting is so (auth.ts, rateLimiter).
RefusalIsRight == RefusalIsEarned /\ RefusalIsHonest
=============================================================================
