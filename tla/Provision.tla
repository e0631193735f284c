------------------------------ MODULE Provision -----------------------------
(***************************************************************************)
(* A provisioning script run repeatedly against three database servers    *)
(* that outlive it.  Script is CurrentScript or LegacyScript of Fixture:   *)
(* both scripts drive the same pipeline (dropAllTables, createTables,      *)
(* seedTables, the PostgreSQL sequence restarts) over their own data; the  *)
(* current one adds removeUnusedConfigs(), an eager probe of every         *)
(* connection, and the --skip-*-migrate options.                           *)
(*                                                                         *)
(* One behaviour is a sequence of up to MaxRuns runs of the script.  Each  *)
(* run is given an environment (which connections have a DB_* variable     *)
(* set), a set of reachable servers and a set of --skip-*-migrate options, *)
(* then executes the main code one statement per step.  Any statement    *)
(* may fail (lost connection, killed process): up to MaxFaults such        *)
(* failures end a run with status 255, as any uncaught exception does.     *)
(* The databases start in an unknown prior state: empty, or holding a      *)
(* stale row and a table that is not part of the schema.                   *)
(***************************************************************************)
EXTENDS Fixture

CONSTANTS
    Script,     \* the script: its tables, statements, seeds, restarts and features
    MaxRuns,    \* number of times the script is run
    MaxFaults   \* number of statements that fail for reasons outside the code

ASSUME MaxRuns \in Nat /\ MaxFaults \in Nat

VARIABLES
    db,         \* db[d][t]: Absent or the set of rows of table t on server d
    seq,        \* seq[t]: next value of the PostgreSQL sequence t_id_seq, 0 if none
    comment,    \* the MySQL table comment on file_property_properties is set
    pc,         \* "idle", "prune", "connect", "migrate" or "exited"
    env,        \* connections with at least one DB_* variable set in this run
    up,         \* servers reachable in this run
    options,    \* the --skip-*-migrate options given to this run
    configs,    \* array_keys($configs), in order
    ci,         \* index into configs of the connection being handled
    stage,      \* step of createAndSeedTables() for configs[ci]
    idx,        \* index into the statements of the stage
    exitCode,   \* exit status of the last run
    error,      \* why the last run stopped: "none" or the failure
    runs,       \* runs started so far
    faults      \* spurious statement failures so far

dbVars == <<db, seq, comment>>
vars == <<db, seq, comment, pc, env, up, options, configs, ci, stage, idx,
          exitCode, error, runs, faults>>

SkipOptions == {"skip-mysql-migrate", "skip-postgres-migrate", "skip-sqlite-migrate"}

\* A table left by something else than this script.
Foreign == "migrations"
AllTables == DOMAIN Script.tables \cup {Foreign}
Schema == Script.tables

EmptyDb == [t \in AllTables |-> Absent]
StaleDb == [t \in AllTables |-> CASE t = Foreign -> {}
                                  [] t = "users" -> {"id" :> 9}
                                  [] OTHER -> Absent]
NoSequences == [t \in AllTables |-> 0]
StaleSequences == [NoSequences EXCEPT !["users"] = 10]

Conn == configs[ci]

Exit(code, why) == pc' = "exited" /\ exitCode' = code /\ error' = why

Init ==
    /\ db \in [Dialects -> {EmptyDb, StaleDb}]
    /\ seq = IF db["pgsql"] = StaleDb THEN StaleSequences ELSE NoSequences
    /\ comment = FALSE
    /\ pc = "idle"
    /\ env = {} /\ up = {} /\ options = {}
    /\ configs = <<>> /\ ci = 1 /\ stage = "next" /\ idx = 0
    /\ exitCode = 0 /\ error = "none"
    /\ runs = 0 /\ faults = 0

\* The process starts with the environment and arguments of this run.
StartRun ==
    /\ pc \in {"idle", "exited"}
    /\ runs < MaxRuns
    /\ \E e \in IF Script.prunesConfigs THEN SUBSET Dialects ELSE {Dialects},
         u \in SUBSET Dialects,
         o \in IF Script.skipOptions THEN SUBSET SkipOptions ELSE {{}} :
          env' = e /\ up' = u /\ options' = o
    /\ pc' = IF Script.prunesConfigs THEN "prune" ELSE "connect"
    /\ configs' = ConnectionOrder /\ ci' = 1
    /\ stage' = "next" /\ idx' = 0 /\ exitCode' = 0 /\ error' = "none"
    /\ runs' = runs + 1
    /\ UNCHANGED <<db, seq, comment, faults>>

\* allEnvVariablesEmpty(): getenv() returns false for every variable.
AllEnvVariablesEmpty(c) == c \notin env

\* removeUnusedConfigs(): forget every connection without its variables.
RemoveUnusedConfigs ==
    /\ pc = "prune"
    /\ configs' = SelectSeq(configs, LAMBDA c : ~AllEnvVariablesEmpty(c))
    /\ pc' = "connect"
    /\ UNCHANGED <<db, seq, comment, env, up, options, ci, stage, idx,
                   exitCode, error, runs, faults>>

\* An addConnections() that only registers the connection, leaving the
\* first statement to open it.
AddConnectionNoProbe ==
    /\ pc = "connect"
    /\ ci <= Len(configs)
    /\ ci' = ci + 1
    /\ UNCHANGED <<db, seq, comment, pc, env, up, options, configs, stage, idx,
                   exitCode, error, runs, faults>>

\* One iteration of addConnections(): add the connection and, in the
\* current script, run 'select 1 + 1' on it; an unreachable server throws.
AddConnection ==
    /\ pc = "connect"
    /\ ci <= Len(configs)
    /\ IF Conn \in up \/ ~Script.eagerConnect
          THEN ci' = ci + 1 /\ UNCHANGED <<pc, exitCode, error>>
          ELSE Exit(255, "connection") /\ UNCHANGED ci
    /\ UNCHANGED <<db, seq, comment, env, up, options, configs, stage, idx,
                   runs, faults>>

\* getopt() and the call of createAndSeedTables(array_keys($configs), ...).
ParseOptions ==
    /\ pc = "connect"
    /\ ci > Len(configs)
    /\ pc' = "migrate" /\ ci' = 1
    /\ UNCHANGED <<db, seq, comment, env, up, options, configs, stage, idx,
                   exitCode, error, runs, faults>>

\* The 'continue' condition of createAndSeedTables().
SkipMigrate(c) ==
    \/ "skip-mysql-migrate" \in options /\ c = "mysql"
    \/ "skip-postgres-migrate" \in options /\ c = "pgsql"
    \/ "skip-sqlite-migrate" \in options /\ c = "sqlite"

SkipConnection ==
    /\ pc = "migrate" /\ stage = "next" /\ ci <= Len(configs)
    /\ SkipMigrate(Conn)
    /\ ci' = ci + 1
    /\ UNCHANGED <<db, seq, comment, pc, env, up, options, configs, stage, idx,
                   exitCode, error, runs, faults>>

DropAllTables ==
    /\ pc = "migrate" /\ stage = "next" /\ ci <= Len(configs)
    /\ ~SkipMigrate(Conn)
    /\ IF Conn \in up
          THEN /\ db' = [db EXCEPT ![Conn] = EmptyDb]
               /\ seq' = IF Conn = "pgsql" THEN NoSequences ELSE seq
               /\ comment' = IF Conn = "mysql" THEN FALSE ELSE comment
               /\ stage' = "create" /\ idx' = 1
               /\ UNCHANGED <<pc, exitCode, error>>
          ELSE Exit(255, "connection") /\ UNCHANGED <<db, seq, comment, stage, idx>>
    /\ UNCHANGED <<env, up, options, configs, ci, runs, faults>>

\* Leaves the connection: on to the next one in createAndSeedTables().
NextConnection == stage' = "next" /\ idx' = 0 /\ ci' = ci + 1

\* A createTables() loop that moves on to the seeding one statement late.
CreateTableOffByOne ==
    /\ pc = "migrate" /\ stage = "create"
    /\ Script.steps[idx] # TableComment
    /\ LET t == Script.steps[idx] IN
       IF CreateRejected(Conn, db[Conn], Schema[t], t)
          THEN Exit(255, "schema") /\ UNCHANGED <<db, seq, stage, idx>>
          ELSE /\ db' = [db EXCEPT ![Conn][t] = {}]
               /\ seq' = IF Conn = "pgsql" /\ Schema[t].auto
                            THEN [seq EXCEPT ![t] = 1] ELSE seq
               /\ IF idx <= Len(Script.steps)
                     THEN idx' = idx + 1 /\ UNCHANGED stage
                     ELSE stage' = "seed" /\ idx' = 1
               /\ UNCHANGED <<pc, exitCode, error>>
    /\ UNCHANGED <<comment, env, up, options, configs, ci, runs, faults>>

\* One $schema->create() of createTables(); a new bigserial starts at 1.
CreateTable ==
    /\ pc = "migrate" /\ stage = "create"
    /\ Script.steps[idx] # TableComment
    /\ LET t == Script.steps[idx] IN
       IF CreateRejected(Conn, db[Conn], Schema[t], t)
          THEN Exit(255, "schema") /\ UNCHANGED <<db, seq, stage, idx>>
          ELSE /\ db' = [db EXCEPT ![Conn][t] = {}]
               /\ seq' = IF Conn = "pgsql" /\ Schema[t].auto
                            THEN [seq EXCEPT ![t] = 1] ELSE seq
               /\ IF idx < Len(Script.steps)
                     THEN idx' = idx + 1 /\ UNCHANGED stage
                     ELSE stage' = "seed" /\ idx' = 1
               /\ UNCHANGED <<pc, exitCode, error>>
    /\ UNCHANGED <<comment, env, up, options, configs, ci, runs, faults>>

\* The "alter table ... comment" statement, issued on MySQL only.
AddTableComment ==
    /\ pc = "migrate" /\ stage = "create"
    /\ Script.steps[idx] = TableComment
    /\ comment' = IF Conn = "mysql" THEN TRUE ELSE comment
    /\ idx' = idx + 1
    /\ UNCHANGED <<db, seq, pc, env, up, options, configs, ci, stage,
                   exitCode, error, runs, faults>>

\* One Capsule::table(...)->insert(combineValues(...)) of seedTables().
\* After the last one, fixPostgresSequences() follows on 'pgsql' only.
SeedTable ==
    /\ pc = "migrate" /\ stage = "seed"
    /\ LET s == Script.seeds[idx] IN
       IF InsertRejected(db[Conn], Schema[s.table], s.table, s.rows)
          THEN Exit(255, "constraint") /\ UNCHANGED <<db, ci, stage, idx>>
          ELSE /\ db' = [db EXCEPT ![Conn][s.table] = @ \cup RowSet(s.rows)]
               /\ CASE idx < Len(Script.seeds) -> idx' = idx + 1 /\ UNCHANGED <<ci, stage>>
                    [] Conn = "pgsql"      -> stage' = "fixseq" /\ idx' = 1 /\ UNCHANGED ci
                    [] OTHER               -> NextConnection
               /\ UNCHANGED <<pc, exitCode, error>>
    /\ UNCHANGED <<seq, comment, env, up, options, configs, runs, faults>>

\* One "ALTER SEQUENCE <table>_id_seq RESTART WITH <n>" of
\* fixPostgresSequences(); a missing sequence makes it throw.
FixSequence ==
    /\ pc = "migrate" /\ stage = "fixseq"
    /\ LET r == Script.restarts[idx] IN
       IF seq[r.table] = 0
          THEN Exit(255, "sequence") /\ UNCHANGED <<seq, ci, stage, idx>>
          ELSE /\ seq' = [seq EXCEPT ![r.table] = r.next]
               /\ IF idx < Len(Script.restarts)
                     THEN idx' = idx + 1 /\ UNCHANGED <<ci, stage>>
                     ELSE NextConnection
               /\ UNCHANGED <<pc, exitCode, error>>
    /\ UNCHANGED <<db, comment, env, up, options, configs, runs, faults>>

\* The loop of createAndSeedTables() is over: the script exits with 0.
Finish ==
    /\ pc = "migrate" /\ stage = "next" /\ ci > Len(configs)
    /\ Exit(0, "none")
    /\ UNCHANGED <<db, seq, comment, env, up, options, configs, ci, stage, idx,
                   runs, faults>>

\* A statement is about to be sent to a server.
StatementPending ==
    /\ ci <= Len(configs)
    /\ \/ pc = "connect"
       \/ pc = "migrate" /\ (stage # "next" \/ ~SkipMigrate(Conn))

\* The pending statement fails for a reason outside the code (the server
\* goes away, the process is killed): the exception ends the run.
StatementFault ==
    /\ StatementPending
    /\ faults < MaxFaults
    /\ Exit(255, "fault")
    /\ faults' = faults + 1
    /\ UNCHANGED <<db, seq, comment, env, up, options, configs, ci, stage, idx, runs>>

\* No more runs: the system stops.
Done ==
    /\ pc \in {"idle", "exited"} /\ runs = MaxRuns
    /\ UNCHANGED vars

Next ==
    \/ StartRun \/ RemoveUnusedConfigs \/ AddConnection \/ ParseOptions
    \/ SkipConnection \/ DropAllTables \/ CreateTable \/ AddTableComment
    \/ SeedTable \/ FixSequence \/ Finish \/ StatementFault \/ Done

Spec == Init /\ [][Next]_vars

-----------------------------------------------------------------------------

TypeOK ==
    /\ \A d \in Dialects, t \in DOMAIN Schema :
          db[d][t] = Absent \/ db[d][t] \subseteq [KeyColumns(Schema[t]) -> Nat \cup {NULL}]
    /\ \A d \in Dialects : db[d][Foreign] \in {Absent, {}}
    /\ seq \in [AllTables -> Nat]
    /\ comment \in BOOLEAN
    /\ pc \in {"idle", "prune", "connect", "migrate", "exited"}
    /\ env \subseteq Dialects /\ up \subseteq Dialects /\ options \subseteq SkipOptions
    /\ ci \in 1..Len(ConnectionOrder) + 1
    /\ stage \in {"next", "create", "seed", "fixseq"}
    /\ stage = "create" => idx \in 1..Len(Script.steps)
    /\ stage = "seed" => idx \in 1..Len(Script.seeds)
    /\ stage = "fixseq" => idx \in 1..Len(Script.restarts)
    /\ exitCode \in {0, 255}
    /\ error \in {"none", "connection", "schema", "constraint", "sequence", "fault"}
    /\ runs \in 0..MaxRuns /\ faults \in 0..MaxFaults

\* The flag that, by the script's command line, opts a connection out.
SkipFlag == ("mysql" :> "skip-mysql-migrate") @@ ("sqlite" :> "skip-sqlite-migrate")
                @@ ("pgsql" :> "skip-postgres-migrate")

Written(d) ==
    \/ db'[d] # db[d]
    \/ d = "pgsql" /\ seq' # seq
    \/ d = "mysql" /\ comment' # comment

\* A step changes a server's tables, rows, sequences or comment only when
\* that server's connection has its DB_* variables set, its skip option is
\* absent, and every configured server answered addConnections()'s eager
\* probe: a run that cannot reach one of its servers damages none of them.
WritesConfined ==
    [][\A d \in Dialects :
         Written(d) => d \in env /\ SkipFlag[d] \notin options /\ env \subseteq up]_vars

\* No CREATE TABLE of createTables() is ever refused: every table is created
\* after the tables its foreign keys reference, on a server just emptied by
\* dropAllTables(), whatever the prior state and the interrupted runs.
NoSchemaError == error # "schema"

\* A run that reaches all its servers and meets no outside failure exits
\* with status 0: the schema and seed data are accepted by every engine.
CleanRunSucceeds ==
    pc = "exited" /\ error \notin {"connection", "fault"} => exitCode = 0

\* The rows the seed plan writes into table t.
SeededRows(t) ==
    UNION {RowSet(Script.seeds[i].rows) : i \in {j \in 1..Len(Script.seeds) : Script.seeds[j].table = t}}

FixtureDb == [t \in AllTables |-> IF t = Foreign THEN Absent ELSE SeededRows(t)]

OnePastMaxId(t) ==
    IF SeededRows(t) = {} THEN 1
    ELSE 1 + CHOOSE m \in Ids(SeededRows(t)) : \A i \in Ids(SeededRows(t)) : i <= m

FixtureSeq == [t \in AllTables |-> IF t # Foreign /\ Schema[t].auto THEN OnePastMaxId(t) ELSE 0]

Migrated(d) == d \in env /\ SkipFlag[d] \notin options

-----------------------------------------------------------------------------
(* Provision implements FixtureReset.  A server is at the fixture when it  *)
(* holds exactly the seeded rows, with its sequences one past the highest  *)
(* ids on pgsql and, on mysql, the table comment as the script leaves it.  *)
(* The servers a run migrates are those with DB_* variables set and no     *)
(* skip option.  While the run migrates, the servers whose turn is over    *)
(* are the migrated ones before configs[ci]; after an exit with status 0,  *)
(* all of them.                                                            *)

\* The script issues the MySQL table comment (the legacy one does not).
CommentsTable == \E i \in 1..Len(Script.steps) : Script.steps[i] = TableComment

AtFixture(d) ==
    /\ db[d] = FixtureDb
    /\ d = "pgsql" => seq = FixtureSeq
    /\ d = "mysql" => comment = CommentsTable

RunStatus ==
    CASE pc = "idle"   -> "idle"
      [] pc = "exited" -> IF exitCode = 0 THEN "ok" ELSE "failed"
      [] OTHER         -> "running"

MigratedSet == {d \in Dialects : Migrated(d)}

DoneSet ==
    CASE pc = "migrate"                  -> {configs[j] : j \in 1..ci - 1} \cap MigratedSet
      [] pc = "exited" /\ exitCode = 0   -> MigratedSet
      [] OTHER                           -> {}

Reset == INSTANCE FixtureReset WITH
    Servers <- Dialects,
    Order <- ConnectionOrder,
    state <- [d \in Dialects |-> IF AtFixture(d) THEN "fixture" ELSE "other"],
    status <- RunStatus,
    target <- MigratedSet,
    done <- DoneSet

====
