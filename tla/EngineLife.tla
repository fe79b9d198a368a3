----------------------------- MODULE EngineLife -----------------------------
(***************************************************************************)
(* What a VpnEngine promises to the helper that owns it, and what the      *)
(* models of the Windows runtime and of the macOS helper assume of it: an  *)
(* engine that start() returns is live until it fails or is stopped, a     *)
(* failure is visible (status() is Stopped) before any of its threads      *)
(* ends, and once stop() has returned none is left.  An engine that fails  *)
(* while it is being started ("spoiled") is never handed out as live.      *)
(***************************************************************************)
CONSTANT Threads

VARIABLES life,     \* "starting" | "spoiled" | "failed" |
                    \* "live" | "dead" | "stopping" | "stopped"
          threads   \* the threads that have not ended

Init == life = "starting" /\ threads = {}

Create == /\ life \in {"starting", "spoiled"}
          /\ \E t \in Threads \ threads : threads' = threads \cup {t}
          /\ UNCHANGED life

\* start() returns the engine, or an error.
Started == /\ \/ life = "starting" /\ life' = "live"
              \/ life = "spoiled" /\ life' = "dead"
           /\ UNCHANGED threads

Fail == life \in {"starting", "spoiled"} /\ life' = "failed" /\ UNCHANGED threads

\* The engine fails by itself.
Die == /\ \/ life = "starting" /\ life' = "spoiled"
          \/ life = "live" /\ life' = "dead"
       /\ UNCHANGED threads

\* Its owner begins to stop it.
BeginStop == life \in {"live", "dead"} /\ life' = "stopping" /\ UNCHANGED threads

\* No thread ends behind the owner's back.
End == /\ life \in {"spoiled", "failed", "dead", "stopping"}
       /\ \E t \in threads : threads' = threads \ {t}
       /\ UNCHANGED life

EndStop == life = "stopping" /\ threads = {} /\ life' = "stopped" /\ UNCHANGED threads

Next == Create \/ Started \/ Fail \/ Die \/ BeginStop \/ End \/ EndStop

Spec == Init /\ [][Next]_<<life, threads>>
=============================================================================
