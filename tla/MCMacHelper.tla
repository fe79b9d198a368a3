---------------------------- MODULE MCMacHelper ----------------------------
(* Small instances of MacHelper; see the .cfg files.                       *)
EXTENDS MacHelper
=============================================================================
