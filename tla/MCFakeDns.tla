----------------------------- MODULE MCFakeDns -----------------------------
(* The fake DNS server with three slots, one domain more than fits, and    *)
(* enough allocations to go round the pool twice.                          *)
EXTENDS FakeDns
=============================================================================
