--------------------------- MODULE MCSystemProxy ---------------------------
(* Services and connections, which are interchangeable.  A behaviour ends
   where a set overlaps another request: nothing is claimed from there on. *)
EXTENDS SystemProxy, TLC

Symmetry == Permutations(Services) \cup Permutations(Clients)

BeforeRaces == ~raced
=============================================================================
