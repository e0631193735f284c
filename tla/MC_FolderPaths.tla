--------------------------- MODULE MC_FolderPaths ---------------------------
(* FolderPaths with folders of up to three symbols and two edits. *)
EXTENDS FolderPaths
=============================================================================
