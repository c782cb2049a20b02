------------------------------ MODULE Startup ------------------------------
(***************************************************************************)
(* Migrating the schema and starting the server: `npm run db:migrate',     *)
(* which deployments run while the old server still registers members and  *)
(* which two operators may start at once, the start-up checks of a server  *)
(* process, its /ready probe, and the features that check their own tables *)
(* before they answer.                                                     *)
(*                                                                         *)
(* A piece is a table, a column or an index; the schema is the set of the  *)
(* pieces there are.  No statement commits together with another one.  The *)
(* members are a chain, each placed under the one before it.               *)
(***************************************************************************)
EXTENDS Naturals, FiniteSets, Sequences

CONSTANTS
    Script,         \* the migration files in order, each a sequence of statements
    Imports,        \* the schemas a database may have been imported with
    Runners,        \* db:migrate processes
    Features,       \* what the members ask for ...
    Needs,          \* ... and the pieces each of them requires
    Cached,         \* the features that look only until the check succeeds once
    MaxMembers, MaxFaults       \* bounds

\* The pieces the code names: the closure table, the columns the backfill
\* writes to it, the sessions table, and the wide password columns.
Closure  == "binary_tree_closuretab"
Paths    == "path_side, path_text"
Sessions == "sessions"
Auth     == {"password varchar(255)"}

VARIABLES
    schema, imported,   \* the pieces there are, and those there were before
    duplicates,         \* does the data violate the unique indexes?
    members, closure,   \* how many members; binary_tree_closuretab
    recorded,           \* schema_migrations
    covered,            \* history: the members a recorded backfill had read
    runner,             \* the migration processes
    server,             \* step of the server process, its cache, its last /ready
    served,             \* history: the features answered since it started
    faults

database == <<schema, imported, duplicates, members, closure>>
vars == <<database, recorded, covered, runner, server, served, faults>>

Resting == [step |-> "idle"]
Down    == [step |-> "down", cache |-> {}, ready |-> FALSE]

Init ==
    /\ imported \in Imports /\ schema = imported
    /\ duplicates \in BOOLEAN
    /\ members = 2 /\ closure = {}
    /\ recorded = {} /\ covered = 0
    /\ runner = [r \in Runners |-> Resting]
    /\ server = Down /\ served = {} /\ faults = 0

-----------------------------------------------------------------------------
(* npm run db:migrate *)

Pending(r) == {f \in DOMAIN Script : f \notin runner[r].applied}
File(r)    == CHOOSE f \in Pending(r) : \A g \in Pending(r) : f <= g
Statement(r) == Script[File(r)][runner[r].at]

\* What was recorded is read once, at the start.
StartMigration(r) ==
    /\ runner[r].step \in {"idle", "done", "failed"}
    /\ runner[r].step = "idle" \/ recorded # DOMAIN Script
    /\ runner' = [runner EXCEPT ![r] = [step |-> "run", applied |-> recorded, at |-> 1,
                                        known |-> 0, flushed |-> 0, faulty |-> FALSE]]
    /\ UNCHANGED <<database, recorded, covered, server, served, faults>>

AtStatement(r) ==
    /\ runner[r].step = "run" /\ Pending(r) # {}
    /\ runner[r].at <= Len(Script[File(r)])

\* A schema statement; a conflict with what is there (ER_DUP_KEYNAME,
\* ER_DUP_FIELDNAME, ER_TABLE_EXISTS_ERROR) or with the data (ER_DUP_ENTRY) is
\* ignored, and the whole statement with it.
Define(r) ==
    /\ AtStatement(r)
    /\ LET st == Statement(r)
       IN /\ st.kind \in {"create", "add", "unique"}
          /\ schema' =
                CASE st.kind = "create" -> schema \cup st.pieces
                  [] st.kind = "add" /\ st.pieces \cap schema = {} -> schema \cup st.pieces
                  [] st.kind = "unique" /\ ~duplicates -> schema \cup st.pieces
                  [] OTHER -> schema
    /\ runner' = [runner EXCEPT ![r].at = @ + 1]
    /\ UNCHANGED <<imported, duplicates, members, closure, recorded, covered, server, served, faults>>

\* V003: a row for each member, and in a statement of its own one for each
\* direct link.
InsertLinks(r) ==
    /\ AtStatement(r) /\ Statement(r).kind \in {"selves", "links"}
    /\ closure' = closure \cup
          IF Statement(r).kind = "selves" THEN {<<m, m>> : m \in 1 .. members}
                                          ELSE {<<m, m + 1>> : m \in 1 .. members - 1}
    /\ runner' = [runner EXCEPT ![r].at = @ + 1]
    /\ UNCHANGED <<schema, imported, duplicates, members, recorded, covered, server, served, faults>>

\* backfillBinaryTreeClosure reads the members ...
ReadTree(r) ==
    /\ AtStatement(r) /\ Statement(r).kind = "backfill" /\ runner[r].known = 0
    /\ runner' = [runner EXCEPT ![r].known = members]
    /\ UNCHANGED <<database, recorded, covered, server, served, faults>>

Backfilled(r) == runner[r].flushed = runner[r].known

\* The variant whose walk stops at the children.
BugRows(a, known) == {<<a, d>> : d \in {a, a + 1} \cap (1 .. known)}

\* The walk below an ancestor: itself and all its descendants.
Rows(a, known) == {<<a, d>> : d \in a .. known}

\* ... and inserts their rows in batches, here one per ancestor.
Flush(r) ==
    /\ AtStatement(r) /\ Statement(r).kind = "backfill"
    /\ runner[r].known > 0 /\ ~Backfilled(r)
    /\ IF {Closure, Paths} \subseteq schema
       THEN LET a == runner[r].flushed + 1
            IN  /\ closure' = closure \cup Rows(a, runner[r].known)
                /\ runner' = [runner EXCEPT ![r].flushed = a]
       ELSE /\ runner' = [runner EXCEPT ![r].step = "failed"]     \* not ignorable
            /\ UNCHANGED closure
    /\ UNCHANGED <<schema, imported, duplicates, members, recorded, covered, server, served, faults>>

EndBackfill(r) ==
    /\ AtStatement(r) /\ Statement(r).kind = "backfill"
    /\ runner[r].known > 0 /\ Backfilled(r)
    /\ runner' = [runner EXCEPT ![r].at = @ + 1]
    /\ UNCHANGED <<database, recorded, covered, server, served, faults>>

AllRun(r) == runner[r].at > Len(Script[File(r)])

Record(r) ==
    /\ runner[r].step = "run" /\ Pending(r) # {} /\ AllRun(r)
    /\ recorded' = recorded \cup {File(r)}
    /\ covered' = IF runner[r].known > covered THEN runner[r].known ELSE covered
    /\ runner' = [runner EXCEPT ![r].applied = @ \cup {File(r)}, ![r].at = 1,
                                ![r].known = 0, ![r].flushed = 0]
    /\ UNCHANGED <<database, server, served, faults>>

Finish(r) ==
    /\ runner[r].step = "run" /\ Pending(r) = {}
    /\ runner' = [runner EXCEPT ![r].step = "done"]
    /\ UNCHANGED <<database, recorded, covered, server, served, faults>>

\* A lost connection, any other error of a statement, or the process killed.
FailMigration(r) ==
    /\ runner[r].step = "run" /\ faults < MaxFaults
    /\ runner' = [runner EXCEPT ![r].step = "failed", ![r].faulty = TRUE]
    /\ faults' = faults + 1
    /\ UNCHANGED <<database, recorded, covered, server, served>>

\* A member registers: its rows follow from those of its placement, or there
\* is no table to write them to (module Registration has the rest).
Register ==
    /\ members < MaxMembers
    /\ members' = members + 1
    /\ closure' = IF Closure \in schema
                  THEN closure \cup {<<members + 1, members + 1>>}
                         \cup {<<c[1], members + 1>> : c \in {k \in closure : k[2] = members}}
                  ELSE closure
    /\ UNCHANGED <<schema, imported, duplicates, recorded, covered, runner, server, served, faults>>

-----------------------------------------------------------------------------
(* The server process *)

\* start(): authentication's columns, then the sessions table, then listen.
\* A failed check ends the process, and pm2 starts it again.
Boot ==
    /\ \/ /\ server.step = "down" /\ Auth \subseteq schema
          /\ server' = [server EXCEPT !.step = "checked"]
          /\ UNCHANGED schema
       \/ /\ server.step = "checked"
          /\ schema' = schema \cup {Sessions}
          /\ server' = [server EXCEPT !.step = "store"]
       \/ /\ server.step = "store"
          /\ server' = [server EXCEPT !.step = "listening"]
          /\ UNCHANGED schema
    /\ UNCHANGED <<imported, duplicates, members, closure, recorded, covered, runner, served, faults>>

Readiness == (UNION {Needs[f] : f \in Features}) \cup Auth

SchemaReady == Readiness \subseteq schema

\* GET /ready; nothing answers before the process listens.
Probe ==
    /\ server.step = "listening"
    /\ server' = [server EXCEPT !.ready = SchemaReady]
    /\ UNCHANGED <<database, recorded, covered, runner, served, faults>>

\* assertSchemaReadyOnce caches a success only.
Remembered(f) == IF f \in Cached /\ Needs[f] \subseteq schema THEN {f} ELSE {}

\* A request: 503 while something is missing, looked up each time or once.
Request(f) ==
    /\ server.step = "listening"
    /\ server' = [server EXCEPT !.cache = @ \cup Remembered(f)]
    /\ served' = IF f \in server.cache \/ Needs[f] \subseteq schema
                 THEN served \cup {f} ELSE served
    /\ UNCHANGED <<database, recorded, covered, runner, faults>>

StopServer ==
    /\ server.step # "down" /\ faults < MaxFaults
    /\ server' = Down /\ served' = {} /\ faults' = faults + 1
    /\ UNCHANGED <<database, recorded, covered, runner>>

Next ==
    \/ \E r \in Runners : \/ StartMigration(r) \/ Define(r) \/ InsertLinks(r) \/ ReadTree(r)
                          \/ Flush(r) \/ EndBackfill(r) \/ Record(r) \/ Finish(r)
                          \/ FailMigration(r)
    \/ Register \/ Boot \/ Probe \/ StopServer
    \/ \E f \in Features : Request(f)

Spec == Init /\ [][Next]_vars

-----------------------------------------------------------------------------
(* Nothing claims a schema that is not there.  A recorded migration has    *)
(* run: whatever was interrupted and run again, by one process or by two,  *)
(* each of its statements left all its pieces, unless a part of them was   *)
(* imported or the data refused the index (scripts/db-migrate.js:112,      *)
(* 256); and once the backfill is, the closure has every path between the  *)
(* members it read, whoever registered meanwhile: canEarnPairing and the   *)
(* placement recommendation read no other table.  /ready says yes, and a   *)
(* feature answers, only when all they need is there, also in a process    *)
(* that started before the migrations (index.js:347,                       *)
(* services/schemaReadiness.js:104).                                       *)
ClaimsHold ==
    /\ \A f \in recorded : \A s \in DOMAIN Script[f] :
          LET st == Script[f][s]
          IN  st.kind \in {"create", "add", "unique"} =>
                  \/ st.pieces \subseteq schema
                  \/ st.kind = "add" /\ st.pieces \cap imported # {}
                  \/ st.kind = "unique" /\ duplicates
    /\ \A a, d \in 1 .. covered : a <= d => <<a, d>> \in closure
    /\ server.ready => Readiness \cup {Sessions} \subseteq schema
    /\ \A f \in served : Needs[f] \subseteq schema

(* A migration run that nothing interrupts gets to its end                 *)
(* (scripts/db-migrate.js:211).  It does not hold: no migration creates    *)
(* the columns that the backfill writes.                                   *)
MigrationsFinish ==
    \A r \in Runners : runner[r].step = "failed" => runner[r].faulty

=============================================================================
