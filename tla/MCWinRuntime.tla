---------------------------- MODULE MCWinRuntime ----------------------------
(* WindowsRuntime with two request threads, as many starts and stops as    *)
(* the races need, and a crash.                                            *)
EXTENDS WinRuntime, TLC

ClientSymmetry == Permutations(Clients)
=============================================================================
