---------------------------- MODULE MCVpnEngine ----------------------------
(* The engine has no constants: its threads, their errors and the owner's  *)
(* calls are explored exhaustively, for both kinds of device and both      *)
(* values of exit_on_fatal_error.                                          *)
EXTENDS VpnEngine
=============================================================================
