------------------------------ MODULE Database ------------------------------
(***************************************************************************)
(* What the three database engines do with the statements the seeding      *)
(* scripts send them.  This is the environment of the scripts, not code of *)
(* the repository: it states the engine behaviour the scripts rely on      *)
(* (Laravel's Schema\Builder::dropAllTables, CREATE TABLE with foreign     *)
(* keys, a multi-row INSERT, ALTER SEQUENCE ... RESTART WITH).             *)
(*                                                                         *)
(* A table is described by its key columns only: the primary key, whether *)
(* the key is an auto-increment "id", and its foreign keys with the        *)
(* nullability the code gives the referencing column.  A row is a         *)
(* function from the table's key columns to an integer or NULL; every      *)
(* other column is abstracted away.                                        *)
(***************************************************************************)
EXTENDS Integers, Sequences, FiniteSets, TLC

CONSTANTS
    NULL,       \* SQL NULL in a seed row
    Absent      \* the content of a table that does not exist

\* The connection names of the scripts' $configs array, in its order.
ConnectionOrder == <<"mysql", "sqlite", "pgsql">>
Dialects == {"mysql", "sqlite", "pgsql"}

\* A foreign key from column col to ref.id, with ON UPDATE/DELETE CASCADE.
Fk(col, ref, nullable) == [col |-> col, ref |-> ref, nullable |-> nullable]

\* $table->id() plus the given foreign keys.
IdTable(fks) == [pk |-> <<"id">>, auto |-> TRUE, fks |-> fks]

\* A pivot table: $table->primary([c1, c2]) and two non-null foreign keys.
PivotTable(c1, r1, c2, r2) ==
    [pk |-> <<c1, c2>>, auto |-> FALSE,
     fks |-> {Fk(c1, r1, FALSE), Fk(c2, r2, FALSE)}]

\* A table without a primary key ('settings').
KeylessTable == [pk |-> <<>>, auto |-> FALSE, fks |-> {}]

KeyColumns(spec) == {spec.pk[i] : i \in 1..Len(spec.pk)} \cup {f.col : f \in spec.fks}

\* Columns the engine refuses NULL for: primary key columns and foreign key
\* columns declared without ->nullable().
NotNullColumns(spec) ==
    {spec.pk[i] : i \in 1..Len(spec.pk)} \cup {f.col : f \in {g \in spec.fks : ~g.nullable}}

PrimaryKey(spec, r) == [i \in 1..Len(spec.pk) |-> r[spec.pk[i]]]

Ids(rows) == {r.id : r \in rows}

\* MySQL and PostgreSQL reject a FOREIGN KEY clause naming a table that
\* does not exist; SQLite accepts it and fails at the first INSERT.
ChecksFkTargetOnCreate(d) == d \in {"mysql", "pgsql"}

\* CREATE TABLE fails (SchemaError) when the table exists or, on engines that
\* check it, when a referenced table is missing.
CreateRejected(d, content, spec, t) ==
    \/ content[t] # Absent
    \/ ChecksFkTargetOnCreate(d) /\ \E f \in spec.fks : content[f.ref] = Absent

\* A multi-row INSERT is one statement: it is rejected as a whole when the
\* table is missing, a NOT NULL column gets NULL, a primary key repeats
\* (within the statement or against stored rows) or a non-NULL foreign key
\* has no parent row.  SQLite enforces the foreign keys because the config
\* sets 'foreign_key_constraints' => true.
InsertRejected(content, spec, t, rows) ==
    LET stored == content[t] IN
    \/ stored = Absent
    \/ \E i \in 1..Len(rows) :
         \/ \E c \in NotNullColumns(spec) : rows[i][c] = NULL
         \/ /\ Len(spec.pk) > 0
            /\ \/ \E j \in 1..Len(rows) : i # j /\ PrimaryKey(spec, rows[i]) = PrimaryKey(spec, rows[j])
               \/ \E s \in stored : PrimaryKey(spec, s) = PrimaryKey(spec, rows[i])
         \/ \E f \in spec.fks :
              /\ rows[i][f.col] # NULL
              /\ \/ content[f.ref] = Absent
                 \/ rows[i][f.col] \notin Ids(content[f.ref])

RowSet(rows) == {rows[i] : i \in 1..Len(rows)}

=============================================================================
