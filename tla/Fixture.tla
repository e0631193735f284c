------------------------------ MODULE Fixture -------------------------------
(***************************************************************************)
(* The schema and seed data of the two provisioning scripts, reduced to    *)
(* key columns: src/tests/testdata/create_and_seed_database.php (the       *)
(* current script, names without suffix) and                               *)
(* src/tests/auto/utils/testdata/create_and_seed_database.php (the older   *)
(* script, names ending in Legacy).                                        *)
(*                                                                         *)
(* Every seeded id table in both scripts numbers its rows 1..n in order,   *)
(* so a table with one foreign key is given by the list of parent ids of   *)
(* its rows.                                                               *)
(***************************************************************************)
EXTENDS Database

\* The marker for the MySQL-only "alter table ... comment" statement that
\* createTables() issues between two $schema->create() calls.
TableComment == "alter table file_property_properties comment"

IdRows(n) == [i \in 1..n |-> "id" :> i]
IdFkRows(col, parents) == [i \in 1..Len(parents) |-> ("id" :> i) @@ (col :> parents[i])]
PivotRows(c1, c2, pairs) == [i \in 1..Len(pairs) |-> (c1 :> pairs[i][1]) @@ (c2 :> pairs[i][2])]
Seed(t, rows) == [table |-> t, rows |-> rows]
Restart(t, next) == [table |-> t, next |-> next]

(***************************************************************************)
(* Current script.                                                         *)
(***************************************************************************)

\* createTables(): the tables with their keys.  torrent_peers.torrent_id is
\* declared without ->nullable() on the column (line 204); the ->nullable()
\* of line 211 is called on the foreign key definition, which has no
\* column to change.
Tables ==
    ("users" :> IdTable({})) @@ ("roles" :> IdTable({})) @@
    ("role_user" :> PivotTable("role_id", "roles", "user_id", "users")) @@
    ("user_phones" :> IdTable({Fk("user_id", "users", FALSE)})) @@
    ("settings" :> KeylessTable) @@
    ("torrents" :> IdTable({Fk("user_id", "users", TRUE)})) @@
    ("torrent_peers" :> IdTable({Fk("torrent_id", "torrents", FALSE)})) @@
    ("torrent_previewable_files" :> IdTable({Fk("torrent_id", "torrents", TRUE)})) @@
    ("torrent_previewable_file_properties" :>
        IdTable({Fk("previewable_file_id", "torrent_previewable_files", FALSE)})) @@
    ("file_property_properties" :>
        IdTable({Fk("file_property_id", "torrent_previewable_file_properties", FALSE)})) @@
    ("torrent_tags" :> IdTable({})) @@
    ("tag_torrent" :> PivotTable("torrent_id", "torrents", "tag_id", "torrent_tags")) @@
    ("tag_properties" :> IdTable({Fk("tag_id", "torrent_tags", FALSE)})) @@
    ("types" :> IdTable({})) @@ ("albums" :> IdTable({})) @@
    ("album_images" :> IdTable({Fk("album_id", "torrents", TRUE)})) @@
    ("torrent_states" :> IdTable({})) @@
    ("state_torrent" :> PivotTable("torrent_id", "torrents", "state_id", "torrent_states")) @@
    ("role_tag" :> PivotTable("tag_id", "torrent_tags", "role_id", "roles")) @@
    ("empty_with_default_values" :> IdTable({Fk("user_id", "users", TRUE)}))

\* The statements with the pivot role_user created before roles.
CreateStepsReordered ==
    <<"users", "role_user", "roles", "user_phones", "settings", "torrents",
      "torrent_peers", "torrent_previewable_files",
      "torrent_previewable_file_properties", "file_property_properties",
      TableComment, "torrent_tags", "tag_torrent", "tag_properties", "types",
      "albums", "album_images", "torrent_states", "state_torrent", "role_tag",
      "empty_with_default_values">>

\* createTables(): the statements in the order the function issues them.
CreateSteps ==
    <<"users", "roles", "role_user", "user_phones", "settings", "torrents",
      "torrent_peers", "torrent_previewable_files",
      "torrent_previewable_file_properties", "file_property_properties",
      TableComment, "torrent_tags", "tag_torrent", "tag_properties", "types",
      "albums", "album_images", "torrent_states", "state_torrent", "role_tag",
      "empty_with_default_values">>

\* seedTables(): one multi-row insert per table, in the order of the code.
SeedPlan ==
    << Seed("users", IdRows(5)),
       Seed("roles", IdRows(3)),
       Seed("role_user", PivotRows("role_id", "user_id", <<<<1, 1>>, <<2, 1>>, <<3, 1>>, <<2, 2>>>>)),
       Seed("user_phones", IdFkRows("user_id", <<1, 2, 3>>)),
       Seed("torrents", IdFkRows("user_id", <<1, 1, 1, 1, 2, 2, 2>>)),
       Seed("torrent_peers", IdFkRows("torrent_id", <<1, 2, 3, 4, 7, NULL>>)),
       Seed("torrent_previewable_files",
            IdFkRows("torrent_id", <<1, 2, 2, 3, 4, 5, 5, 5, NULL, 7, 7, 7>>)),
       Seed("torrent_previewable_file_properties", IdFkRows("previewable_file_id", <<2, 3, 4, 5, 6>>)),
       Seed("file_property_properties", IdFkRows("file_property_id", <<1, 2, 3, 3, 4, 5, 5, 5>>)),
       Seed("torrent_tags", IdRows(5)),
       Seed("tag_torrent", PivotRows("torrent_id", "tag_id",
            <<<<2, 1>>, <<2, 2>>, <<2, 3>>, <<2, 4>>, <<3, 2>>, <<3, 4>>, <<4, 2>>,
              <<7, 1>>, <<7, 2>>, <<7, 3>>>>)),
       Seed("tag_properties", IdFkRows("tag_id", <<1, 2, 3, 4>>)),
       Seed("albums", IdRows(4)),
       Seed("album_images", IdFkRows("album_id", <<1, 2, 2, 2, 2, 2, 3, NULL, NULL>>)),
       Seed("torrent_states", IdRows(5)),
       Seed("state_torrent", PivotRows("torrent_id", "state_id", <<<<7, 1>>, <<7, 4>>>>)),
       Seed("role_tag", PivotRows("tag_id", "role_id", <<<<2, 1>>, <<2, 3>>>>)) >>

\* fixPostgresSequences(): the <table>_id_seq restarts, in the array's order.
SequenceRestarts ==
    << Restart("users", 6), Restart("roles", 4), Restart("user_phones", 4),
       Restart("torrents", 8), Restart("torrent_peers", 7),
       Restart("torrent_previewable_files", 13),
       Restart("torrent_previewable_file_properties", 6),
       Restart("file_property_properties", 9), Restart("torrent_tags", 6),
       Restart("tag_properties", 5), Restart("albums", 8),
       Restart("album_images", 4), Restart("torrent_states", 6) >>

(***************************************************************************)
(* Legacy script.                                                          *)
(***************************************************************************)

TablesLegacy ==
    ("settings" :> KeylessTable) @@ ("torrents" :> IdTable({})) @@
    ("torrent_peers" :> IdTable({Fk("torrent_id", "torrents", FALSE)})) @@
    ("torrent_previewable_files" :> IdTable({Fk("torrent_id", "torrents", TRUE)})) @@
    ("torrent_previewable_file_properties" :>
        IdTable({Fk("previewable_file_id", "torrent_previewable_files", FALSE)})) @@
    ("file_property_properties" :>
        IdTable({Fk("file_property_id", "torrent_previewable_file_properties", FALSE)})) @@
    ("torrent_tags" :> IdTable({})) @@
    ("tag_torrent" :> PivotTable("torrent_id", "torrents", "tag_id", "torrent_tags")) @@
    ("tag_properties" :> IdTable({Fk("tag_id", "torrent_tags", FALSE)})) @@
    ("users" :> IdTable({})) @@ ("roles" :> IdTable({})) @@
    ("role_user" :> PivotTable("role_id", "roles", "user_id", "users")) @@
    ("user_phones" :> IdTable({Fk("user_id", "users", FALSE)}))

\* The legacy statements with tag_torrent created before torrent_tags.
CreateStepsLegacyReordered ==
    <<"settings", "torrents", "torrent_peers", "torrent_previewable_files",
      "torrent_previewable_file_properties", "file_property_properties",
      "tag_torrent", "torrent_tags", "tag_properties", "users", "roles",
      "role_user", "user_phones">>

CreateStepsLegacy ==
    <<"settings", "torrents", "torrent_peers", "torrent_previewable_files",
      "torrent_previewable_file_properties", "file_property_properties",
      "torrent_tags", "tag_torrent", "tag_properties", "users", "roles",
      "role_user", "user_phones">>

\* The legacy seeding with torrent_peers inserted before its parent torrents.
SeedPlanLegacyReordered ==
    << Seed("torrent_peers", IdFkRows("torrent_id", <<1, 2, 3, 4>>)),
       Seed("torrents", IdRows(6)),
       Seed("torrent_previewable_files", IdFkRows("torrent_id", <<1, 2, 2, 3, 4, 5, 5, 5, NULL>>)),
       Seed("torrent_previewable_file_properties", IdFkRows("previewable_file_id", <<2, 3, 4, 5, 6>>)),
       Seed("file_property_properties", IdFkRows("file_property_id", <<1, 2, 3, 3, 4, 5>>)),
       Seed("torrent_tags", IdRows(5)),
       Seed("tag_torrent", PivotRows("torrent_id", "tag_id",
            <<<<2, 1>>, <<2, 2>>, <<2, 3>>, <<2, 4>>, <<3, 2>>, <<3, 4>>>>)),
       Seed("tag_properties", IdFkRows("tag_id", <<1, 2, 3, 4>>)),
       Seed("users", IdRows(3)),
       Seed("roles", IdRows(3)),
       Seed("role_user", PivotRows("role_id", "user_id", <<<<1, 1>>, <<2, 1>>, <<3, 1>>, <<2, 2>>>>)),
       Seed("user_phones", IdFkRows("user_id", <<1, 2, 3>>)) >>

SeedPlanLegacy ==
    << Seed("torrents", IdRows(6)),
       Seed("torrent_peers", IdFkRows("torrent_id", <<1, 2, 3, 4>>)),
       Seed("torrent_previewable_files", IdFkRows("torrent_id", <<1, 2, 2, 3, 4, 5, 5, 5, NULL>>)),
       Seed("torrent_previewable_file_properties", IdFkRows("previewable_file_id", <<2, 3, 4, 5, 6>>)),
       Seed("file_property_properties", IdFkRows("file_property_id", <<1, 2, 3, 3, 4, 5>>)),
       Seed("torrent_tags", IdRows(5)),
       Seed("tag_torrent", PivotRows("torrent_id", "tag_id",
            <<<<2, 1>>, <<2, 2>>, <<2, 3>>, <<2, 4>>, <<3, 2>>, <<3, 4>>>>)),
       Seed("tag_properties", IdFkRows("tag_id", <<1, 2, 3, 4>>)),
       Seed("users", IdRows(3)),
       Seed("roles", IdRows(3)),
       Seed("role_user", PivotRows("role_id", "user_id", <<<<1, 1>>, <<2, 1>>, <<3, 1>>, <<2, 2>>>>)),
       Seed("user_phones", IdFkRows("user_id", <<1, 2, 3>>)) >>

\* The legacy restarts with users_id_seq set to the highest id, not one past.
SequenceRestartsLegacyOffByOne ==
    << Restart("torrents", 7), Restart("torrent_peers", 5),
       Restart("torrent_previewable_files", 10),
       Restart("torrent_previewable_file_properties", 6),
       Restart("file_property_properties", 7), Restart("torrent_tags", 6),
       Restart("tag_properties", 5), Restart("users", 3), Restart("roles", 4),
       Restart("user_phones", 4) >>

SequenceRestartsLegacy ==
    << Restart("torrents", 7), Restart("torrent_peers", 5),
       Restart("torrent_previewable_files", 10),
       Restart("torrent_previewable_file_properties", 6),
       Restart("file_property_properties", 7), Restart("torrent_tags", 6),
       Restart("tag_properties", 5), Restart("users", 4), Restart("roles", 4),
       Restart("user_phones", 4) >>

(***************************************************************************)
(* The two scripts, as the orchestration in Provision sees them.           *)
(***************************************************************************)

\* The current main code: configurations of unset connections are removed,
\* every remaining connection is probed with 'select 1 + 1' before anything
\* is dropped, and --skip-*-migrate options are parsed with getopt().
CurrentScript ==
    [tables |-> Tables, steps |-> CreateSteps, seeds |-> SeedPlan,
     restarts |-> SequenceRestarts,
     prunesConfigs |-> TRUE, eagerConnect |-> TRUE, skipOptions |-> TRUE]

\* The current script with torrent_peers.torrent_id made nullable on the
\* column, $table->unsignedBigInteger('torrent_id')->nullable(), as the
\* seeded row 6 (torrent_id NULL) requires.  With this one change the
\* seeding goes through and fixPostgresSequences() is reached; everything
\* else is the current script.
CurrentScriptPeersNullable ==
    [CurrentScript EXCEPT !.tables =
        [Tables EXCEPT !["torrent_peers"] = IdTable({Fk("torrent_id", "torrents", TRUE)})]]

\* The legacy main code: all three configurations are added without
\* connecting and createAndSeedTables() takes no options.
LegacyScript ==
    [tables |-> TablesLegacy, steps |-> CreateStepsLegacy, seeds |-> SeedPlanLegacy,
     restarts |-> SequenceRestartsLegacy,
     prunesConfigs |-> FALSE, eagerConnect |-> FALSE, skipOptions |-> FALSE]
=============================================================================
