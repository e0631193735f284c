---------------------------- MODULE MC_Provision ----------------------------
(* Provision instantiated with the data of Fixture; the cfg files choose   *)
(* the script.                                                             *)
EXTENDS Provision
=============================================================================
