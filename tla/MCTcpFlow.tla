----------------------------- MODULE MCTcpFlow -----------------------------
(* One flow with buffers, channels and a window of one or two units, so    *)
(* that each of them fills up.                                             *)
EXTENDS TcpFlow
=============================================================================
