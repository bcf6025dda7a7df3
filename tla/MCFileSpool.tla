---------------------------- MODULE MCFileSpool ----------------------------
(* Instances of FileSpool for TLC.  The bounds are in the .cfg files.      *)
EXTENDS FileSpool
=============================================================================
