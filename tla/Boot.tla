-------------------------------- MODULE Boot --------------------------------
(***************************************************************************)
(* Processes that start on one database file (src/src/main.ts, boot;       *)
(* src/src/db/database.ts; src/src/db/migrations.ts): a rolling restart    *)
(* runs two of them for a while.  A process that fails to start exits and  *)
(* is started again by its supervisor.                                     *)
(*                                                                         *)
(* withTransaction opens SQLite's deferred transaction: the first read     *)
(* takes a snapshot, the first write asks for the write lock and is        *)
(* refused at once when somebody holds it or has committed since the       *)
(* snapshot.  The busy timeout does not apply to that refusal.             *)
(***************************************************************************)
EXTENDS Settings, FiniteSets, SequencesExt

CONSTANTS
  Starters,       \* processes that may run on the file
  NoOwner,        \* nobody holds SQLite's write lock
  Sites,          \* a configuration file, an environment, and the database an
                  \* earlier release left behind
  MaxCrashes,     \* bound on the crashes of the model
  MaxEdits        \* bound on the operator's edits

VARIABLES
  deployment,     \* what the supervisor hands every process
  database,       \* the committed contents of the file
  stamp,          \* commits so far: tells a stale snapshot
  writer,         \* holder of the write lock
  starters,       \* the processes
  crashes, edits

bootVars == <<deployment, database, stamp, writer, starters, crashes, edits>>

\* Each migration's statements, in order.  The tables of the first one are
\* created by eleven statements that stand or fall together here.
Verbs ==
  << <<"create tables">>, <<"add capabilities", "drop supports_images">>,
     <<"bound max_retries">>, <<"add auto">>, <<"adopt preupgrade routes">> >>

Ids == DOMAIN Verbs

Database ==
  [columns : SUBSET {"tables", "supports_images", "capabilities", "auto"},
   listed : BOOLEAN,            \* agg2api_migrations exists
   ledger : SUBSET Ids,         \* the ids it holds
   max_retries : Int,           \* of a provider, in tenths
   targets : Nat,               \* of a route
   auto : BOOLEAN]              \* whether routes/sync owns that route

\* The schema a ledger stands for.
ColumnsOf(ledger) ==
  (IF 1 \in ledger THEN {"tables"} ELSE {})
  \cup (IF 2 \in ledger THEN {"capabilities"}
        ELSE IF 1 \in ledger THEN {"supports_images"} ELSE {})
  \cup (IF 4 \in ledger THEN {"auto"} ELSE {})

\* An earlier release has taken the file through its first migrations.
ASSUME BootAssumption ==
  /\ NoOwner \notin Starters /\ MaxCrashes \in Nat /\ MaxEdits \in Nat
  /\ \A site \in Sites :
       /\ site.database \in Database
       /\ site.database.columns = ColumnsOf(site.database.ledger)
       /\ \E n \in 0..Len(Verbs) : site.database.ledger = 1..n

Statement == [id : Ids, verb : {"record"} \cup UNION {Range(Verbs[i]) : i \in Ids}]

\* Seeded fault: the ledger is never written, so every start applies everything again.
OfMigrationUnrecorded(id) == [i \in DOMAIN Verbs[id] |-> [id |-> id, verb |-> Verbs[id][i]]]

OfMigration(id) ==
  [i \in DOMAIN Verbs[id] |-> [id |-> id, verb |-> Verbs[id][i]]]
  \o << [id |-> id, verb |-> "record"] >>

\* Seeded fault: the data fixes run on every start.
PendingData(ledger) ==
  LET Of(id) == IF id \notin ledger THEN OfMigration(id)
                ELSE IF id = 5 THEN << OfMigration(5)[1] >> ELSE <<>>
  IN  Of(1) \o Of(2) \o Of(3) \o Of(4) \o Of(5)

Pending(ledger) ==
  LET Of(id) == IF id \in ledger THEN <<>> ELSE OfMigration(id)
  IN  Of(1) \o Of(2) \o Of(3) \o Of(4) \o Of(5)

\* "table already exists", "duplicate column name", "no such column".
FailsOn(s, d) ==
  CASE s.verb = "create tables" -> "tables" \in d.columns
    [] s.verb = "add capabilities" -> "capabilities" \in d.columns
    [] s.verb = "drop supports_images" -> "supports_images" \notin d.columns
    [] s.verb = "add auto" -> "auto" \in d.columns
    [] s.verb = "record" -> s.id \in d.ledger
    [] OTHER -> FALSE

\* Seeded fault: the ledger row gets the next id.
ExecutedShifted(s, d) ==
  CASE s.verb = "record" -> [d EXCEPT !.ledger = @ \cup {s.id + 1}]
    [] s.verb = "bound max_retries" -> [d EXCEPT !.max_retries = 0]
    [] OTHER -> d

Executed(s, d) ==
  CASE s.verb = "create tables" -> [d EXCEPT !.columns = @ \cup {"tables", "supports_images"}]
    [] s.verb = "add capabilities" -> [d EXCEPT !.columns = @ \cup {"capabilities"}]
    [] s.verb = "drop supports_images" -> [d EXCEPT !.columns = @ \ {"supports_images"}]
    [] s.verb = "bound max_retries" ->
         [d EXCEPT !.max_retries = IF @ < 0 \/ @ > 100 \/ @ % 10 # 0 THEN 0 ELSE @]
    [] s.verb = "add auto" -> [d EXCEPT !.columns = @ \cup {"auto"}, !.auto = FALSE]
    [] s.verb = "adopt preupgrade routes" -> [d EXCEPT !.auto = @ \/ d.targets <= 1]
    [] s.verb = "record" -> [d EXCEPT !.ledger = @ \cup {s.id}]

----------------------------------------------------------------------------

Starter ==
  [pc : {"down", "refused", "opening", "reading", "applying", "serving"},
   draft : Database,             \* the file as its transaction sees it
   base : Nat,                   \* the commits its snapshot includes
   rest : Seq(Statement),        \* statements still to run
   died : {"no", "busy", "statement"}]

Idle(d) == [pc |-> "down", draft |-> d, base |-> 0, rest |-> <<>>, died |-> "no"]

BootInit ==
  /\ \E site \in Sites :
       /\ deployment = [file |-> site.file, env |-> site.env]
       /\ database = site.database
  /\ stamp = 0 /\ writer = NoOwner
  /\ starters = [p \in Starters |-> Idle(database)]
  /\ crashes = 0 /\ edits = 0

settings == load(deployment.file, deployment.env)

\* The process ends; what it had not committed is rolled back.
Ends(p, why) ==
  /\ starters' = [starters EXCEPT ![p] = [Idle(database) EXCEPT !.died = why]]
  /\ writer' = IF writer = p THEN NoOwner ELSE writer

boot(p) ==
  /\ starters[p].pc = "down"
  /\ starters' = [starters EXCEPT ![p].pc = IF settings = Refused THEN "refused" ELSE "opening",
                                  ![p].died = "no"]
  /\ UNCHANGED <<deployment, database, stamp, writer, crashes, edits>>

\* The pragmas, and CREATE TABLE IF NOT EXISTS: a commit of its own, once.
Open(p) ==
  /\ starters[p].pc = "opening"
  /\ starters' = [starters EXCEPT ![p].pc = "reading"]
  /\ IF database.listed
     THEN UNCHANGED <<database, stamp>>
     ELSE /\ writer = NoOwner
          /\ database' = [database EXCEPT !.listed = TRUE]
          /\ stamp' = stamp + 1
  /\ UNCHANGED <<deployment, writer, crashes, edits>>

\* BEGIN, and the ledger is read: the transaction's snapshot.
ReadLedger(p) ==
  /\ starters[p].pc = "reading"
  /\ starters' = [starters EXCEPT ![p].pc = "applying", ![p].draft = database,
                                  ![p].base = stamp, ![p].rest = Pending(database.ledger)]
  /\ UNCHANGED <<deployment, database, stamp, writer, crashes, edits>>

\* Seeded fault: the ledger is read before the transaction begins, as it once was.
MayWriteLate(p) == writer \in {p, NoOwner}

MayWrite(p) == writer = p \/ (writer = NoOwner /\ stamp = starters[p].base)

\* What a statement of p sees: its own draft once it writes, else the file.
Sees(p) == IF writer = p THEN starters[p].draft ELSE database

\* Seeded fault: each statement commits by itself.
ApplyEach(p) ==
  LET s == Head(starters[p].rest)
  IN  /\ starters[p].pc = "applying" /\ starters[p].rest # <<>> /\ writer = NoOwner
      /\ IF FailsOn(s, database)
         THEN Ends(p, "statement") /\ UNCHANGED <<database, stamp>>
         ELSE /\ database' = Executed(s, database) /\ stamp' = stamp + 1
              /\ starters' = [starters EXCEPT ![p].rest = Tail(@)] /\ UNCHANGED writer
      /\ UNCHANGED <<deployment, crashes, edits>>

Apply(p) ==
  LET s == Head(starters[p].rest)
  IN  /\ starters[p].pc = "applying" /\ starters[p].rest # <<>>
      /\ IF ~MayWrite(p) THEN Ends(p, "busy")
         ELSE IF FailsOn(s, Sees(p)) THEN Ends(p, "statement")
         ELSE /\ writer' = p
              /\ starters' = [starters EXCEPT ![p].draft = Executed(s, Sees(p)),
                                              ![p].rest = Tail(@)]
      /\ UNCHANGED <<deployment, database, stamp, crashes, edits>>

\* The transaction commits; the layer is built and the server answers.
Commit(p) ==
  /\ starters[p].pc = "applying" /\ starters[p].rest = <<>>
  /\ IF writer = p
     THEN database' = starters[p].draft /\ stamp' = stamp + 1 /\ writer' = NoOwner
     ELSE UNCHANGED <<database, stamp, writer>>
  /\ starters' = [starters EXCEPT ![p].pc = "serving"]
  /\ UNCHANGED <<deployment, crashes, edits>>

\* The operator, or a sync, changes the provider and the route.
Edit(p) ==
  /\ starters[p].pc = "serving" /\ writer = NoOwner /\ edits < MaxEdits
  /\ \E retries \in {0, 30}, targets \in 1..2, auto \in BOOLEAN :
       database' = [database EXCEPT !.max_retries = retries, !.targets = targets, !.auto = auto]
  /\ stamp' = stamp + 1 /\ edits' = edits + 1
  /\ UNCHANGED <<deployment, writer, starters, crashes>>

Crash(p) ==
  /\ starters[p].pc \notin {"down", "refused"} /\ crashes < MaxCrashes
  /\ crashes' = crashes + 1
  /\ Ends(p, "no")
  /\ UNCHANGED <<deployment, database, stamp, edits>>

Starts(p) == boot(p) \/ Open(p) \/ ReadLedger(p) \/ Apply(p) \/ Commit(p)

BootNext == \E p \in Starters : Starts(p) \/ Edit(p) \/ Crash(p)

----------------------------------------------------------------------------

BootTypeOK ==
  /\ database \in Database
  /\ stamp \in Nat /\ writer \in Starters \cup {NoOwner}
  /\ starters \in [Starters -> Starter]
  /\ crashes \in 0..MaxCrashes /\ edits \in 0..MaxEdits

Latest == Ids

\* An empty variable, as compose files and systemd units produce it for an undefined source,
\* gives the same settings as no variable at all (config.ts, resolve): blank never means
\* zero, and zero switches retention off.
BlankMeansUnset ==
  settings = load(deployment.file,
                  [key \in Names |-> IF deployment.env[key] = "" THEN Unset
                                     ELSE deployment.env[key]])

\* The file's columns are those its ledger stands for at every moment, whoever crashed in the
\* middle of a migration (database.ts, migrate: one transaction around statements and ledger).
LedgerTellsSchema == database.columns = ColumnsOf(database.ledger)

\* A process that answers requests has a migrated file under it, also when another process
\* did the migrating or died trying.
ServesMigrated ==
  \A p \in Starters : starters[p].pc = "serving" => database.ledger = Latest

\* No start dies of a statement whose effect is already there, as concurrent starters did
\* when the ledger was read outside the transaction (database.ts, migrate).
NothingAppliedTwice == \A p \in Starters : starters[p].died # "statement"

\* A start rewrites rows only with the migration that records it: the operator's later choices
\* are never corrected again (migrations.ts, bound_max_retries and adopt_preupgrade_routes).
StartsKeepLaterEdits ==
  [][database.ledger = database'.ledger /\ UNCHANGED edits
       => UNCHANGED <<database.max_retries, database.targets, database.auto>>]_bootVars

BootSpec == BootInit /\ [][BootNext]_bootVars /\ \A p \in Starters : WF_bootVars(Starts(p))

\* With usable settings every process comes to serve, however often the starts collide and
\* whatever crashed before: each refusal means that another process has committed or crashed.
EveryStarterServes ==
  settings # Refused => <>[](\A p \in Starters : starters[p].pc = "serving")

\* Whoever starts together and whoever dies, a file is migrated once, whole, before it is
\* served from, and never again over what was changed since (database.ts, migrate).
MigrationsHappenOnce ==
  []BootTypeOK /\ []LedgerTellsSchema /\ []ServesMigrated /\ []NothingAppliedTwice
  /\ StartsKeepLaterEdits
=============================================================================
