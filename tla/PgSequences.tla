----------------------------- MODULE PgSequences ----------------------------
(***************************************************************************)
(* The PostgreSQL id sequences through seedTables() and                    *)
(* fixPostgresSequences() (fixSequences() in the legacy script), and the   *)
(* inserts without an explicit id that the test suite issues afterwards.   *)
(*                                                                         *)
(* Rows are kept by their key columns, the sequences of the tables whose   *)
(* "id" is a bigserial by their next value.  The seeding inserts explicit  *)
(* ids, which do not advance the sequences; the restarts then set each     *)
(* sequence to a value written in the code.  An                            *)
(* insert without an id takes nextval(), which is consumed even when the   *)
(* insert then fails on a duplicate key.                                   *)
(*                                                                         *)
(* The state starts right after createTables(): every table empty and      *)
(* every sequence at 1.  An insert the engine refuses throws: the script   *)
(* ends there, the restarts are never issued and no test runs.             *)
(***************************************************************************)
EXTENDS Database

CONSTANTS
    Script,     \* CurrentScript or LegacyScript of Fixture
    MaxInserts  \* inserts without an id issued after provisioning

TableSpecs == Script.tables
Seeds == Script.seeds
Restarts == Script.restarts

Auto == {t \in DOMAIN TableSpecs : TableSpecs[t].auto}

VARIABLES
    rows,       \* rows[t]: the rows stored in table t (key columns)
    seq,        \* seq[t]: the next value of t_id_seq
    stage,      \* "seed", "fixseq", "ready" or "failed"
    idx,        \* index into Seeds or Restarts
    inserts,    \* inserts without an id so far
    clash       \* an insert without an id got an id already stored

vars == <<rows, seq, stage, idx, inserts, clash>>

\* The ids stored in an id table.
ids == [t \in Auto |-> Ids(rows[t])]

Init ==
    /\ rows = [t \in DOMAIN TableSpecs |-> {}]
    /\ seq = [t \in Auto |-> 1]
    /\ stage = "seed" /\ idx = 1
    /\ inserts = 0 /\ clash = FALSE

\* One insert of seedTables() with explicit ids; a refused insert throws.
SeedTable ==
    /\ stage = "seed"
    /\ LET sd == Seeds[idx] IN
       IF InsertRejected(rows, TableSpecs[sd.table], sd.table, sd.rows)
          THEN stage' = "failed" /\ UNCHANGED <<rows, idx>>
          ELSE /\ rows' = [rows EXCEPT ![sd.table] = @ \cup RowSet(sd.rows)]
               /\ IF idx < Len(Seeds) THEN idx' = idx + 1 /\ UNCHANGED stage
                                      ELSE stage' = "fixseq" /\ idx' = 1
    /\ UNCHANGED <<seq, inserts, clash>>

\* A restart loop that runs one statement past the end of the array.
FixSequenceOffByOne ==
    /\ stage = "fixseq"
    /\ seq' = [seq EXCEPT ![Restarts[idx].table] = Restarts[idx].next]
    /\ IF idx <= Len(Restarts) THEN idx' = idx + 1 /\ UNCHANGED stage
                               ELSE stage' = "ready" /\ idx' = 0
    /\ UNCHANGED <<rows, inserts, clash>>

\* One "ALTER SEQUENCE <table>_id_seq RESTART WITH <n>".
FixSequence ==
    /\ stage = "fixseq"
    /\ seq' = [seq EXCEPT ![Restarts[idx].table] = Restarts[idx].next]
    /\ IF idx < Len(Restarts) THEN idx' = idx + 1 /\ UNCHANGED stage
                              ELSE stage' = "ready" /\ idx' = 0
    /\ UNCHANGED <<rows, inserts, clash>>

\* The test suite inserts a row without an id into table t.
DefaultInsert(t) ==
    /\ stage = "ready"
    /\ inserts < MaxInserts
    /\ seq' = [seq EXCEPT ![t] = @ + 1]
    /\ IF seq[t] \in ids[t]
          THEN clash' = TRUE /\ UNCHANGED rows
          ELSE rows' = [rows EXCEPT ![t] = @ \cup {"id" :> seq[t]}] /\ UNCHANGED clash
    /\ inserts' = inserts + 1
    /\ UNCHANGED <<stage, idx>>

\* The test suite has finished, or the script threw and nothing follows.
Done ==
    /\ \/ stage = "failed"
       \/ stage = "ready" /\ inserts = MaxInserts
    /\ UNCHANGED vars

Next == SeedTable \/ FixSequence \/ (\E t \in Auto : DefaultInsert(t)) \/ Done

Spec == Init /\ [][Next]_vars

-----------------------------------------------------------------------------

TypeOK ==
    \* A row the test suite inserts is recorded by its id only.
    /\ \A t \in DOMAIN TableSpecs :
          rows[t] \subseteq [KeyColumns(TableSpecs[t]) -> Nat \cup {NULL}] \cup [{"id"} -> Nat]
    /\ seq \in [Auto -> Nat]
    /\ stage \in {"seed", "fixseq", "ready", "failed"}
    /\ stage = "seed" => idx \in 1..Len(Seeds)
    /\ stage = "fixseq" => idx \in 1..Len(Restarts)
    /\ inserts \in 0..MaxInserts
    /\ clash \in BOOLEAN

HighestId(S) == IF S = {} THEN 0 ELSE CHOOSE m \in S : \A i \in S : i <= m

\* No insert that relies on a table's sequence after provisioning is
\* refused for a duplicate id: the restarts moved every sequence past the
\* ids the seeding wrote by hand.
NoDuplicateDefaultId == ~clash

\* Right after the restarts, the next value of every sequence is exactly
\* one past the highest seeded id of its table (the design's statement of
\* sequence reconciliation).
SequencesAtOnePastMax ==
    stage = "ready" /\ inserts = 0 => \A t \in Auto : seq[t] = HighestId(ids[t]) + 1
=============================================================================
