--------------------------- MODULE MC_PgSequences ---------------------------
(* The PostgreSQL sequences of both scripts, with their own data. *)
EXTENDS PgSequences, Fixture
=============================================================================
