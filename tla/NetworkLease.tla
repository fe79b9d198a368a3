---------------------------- MODULE NetworkLease ----------------------------
(***************************************************************************)
(* What the helper promises about what it installs in the system (routes,  *)
(* resolver files, the NRPT rule), on Windows and on macOS alike.          *)
(*                                                                         *)
(*  - Items are installed only by an operation that sets a VPN up, and the *)
(*    first of them only when none of an earlier setup is left.            *)
(*  - A setup that does not lead to a VPN takes back what it installed,    *)
(*    and the helper is only "off" when all has been taken back.           *)
(*  - Between operations nothing comes or goes, unless a clean-up takes    *)
(*    all of it.                                                           *)
(*  - The death of the process costs nothing but in the middle of a setup, *)
(*    and the next process is "off" only after it has taken all back.      *)
(*  - What other programs install comes and goes as they like, also in the *)
(*    place of an item of ours; the helper never adds to it.               *)
(*                                                                         *)
(* "Costs" is what `lost` stands for: the items no state file names, which *)
(* no later clean-up is bound to find.  An item is ours as long as the     *)
(* helper has not tried to take it back: one the system refuses to remove  *)
(* is no longer counted.                                                   *)
(***************************************************************************)
CONSTANTS Items,
          Volatile     \* the items that vanish with the VPN's interface

VARIABLES mode,    \* "off" | "on", with no operation in progress,
                   \* "setup" (installing), "busy" (any other operation),
                   \* "down" (no process)
          ours,    \* the items of ours that are installed
          others,  \* the items other programs have installed
          lost     \* items of ours that no state file names

Init == mode = "off" /\ ours = {} /\ others \subseteq Items /\ lost = {}

\* An operation begins; it may close the interface in the same moment.
Begin ==
    /\ mode \in {"off", "on"} /\ mode' = "busy"
    /\ ours' \subseteq ours
    /\ UNCHANGED lost

Remove ==
    /\ mode = "busy"
    /\ ours' \subseteq ours
    /\ UNCHANGED <<mode, lost>>

\* A setup begins when what an earlier one left has been removed.
BeginSetup ==
    /\ mode = "busy" /\ mode' = "setup"
    /\ ours' \subseteq ours \cap lost
    /\ UNCHANGED lost

Install ==
    /\ mode = "setup"
    /\ \E i \in Items : ours' = ours \cup {i}
    /\ UNCHANGED <<mode, lost>>

\* A list of installed items is written; it may name a lost one again.
Save ==
    /\ mode = "setup" /\ mode' \in {"setup", "busy"}
    /\ lost' \subseteq lost
    /\ UNCHANGED ours

\* A setup that failed goes on as a removal, of what it knows of.
Abort ==
    /\ mode = "setup" /\ mode' = "busy"
    /\ ours' \subseteq ours
    /\ lost \subseteq lost' /\ lost' \subseteq lost \cup ours

\* The VPN is up, with every installed item on file.
EndUp ==
    /\ mode = "busy" /\ mode' = "on"
    /\ UNCHANGED <<ours, lost>>

\* An operation ends with everything taken back.  It ends "on" if another
\* start came in between, whose items it has taken away too.
EndClean ==
    /\ mode \in {"busy", "setup"} /\ mode' \in {"off", "on"}
    /\ ours' \subseteq ours \cap lost
    /\ UNCHANGED lost

\* Between operations: a clean-up takes everything, also one that comes late,
\* when the VPN is on again.
Sweep ==
    /\ mode \in {"off", "on"}
    /\ ours' \subseteq ours \cap lost
    /\ UNCHANGED <<mode, lost>>

\* A lost item may be spoiled by a write that the death cuts short.
Crash ==
    /\ mode # "down" /\ mode' = "down"
    /\ ours' \subseteq ours \ Volatile
    /\ ours \ (Volatile \cup lost) \subseteq ours'
    /\ lost \subseteq lost'
    /\ lost' \subseteq lost \cup (IF mode = "setup" THEN ours ELSE {})

\* The next process removes what it finds on file, before it serves.
Recover ==
    /\ mode = "down"
    /\ \/ mode' = "busy" /\ ours' = ours
       \/ mode' = "off" /\ ours' \subseteq ours \cap lost
    /\ UNCHANGED lost

\* Another program installs an item; if it was ours, ours has gone.
Taken ==
    \E i \in Items \ others : /\ others' = others \cup {i}
                             /\ ours' = ours \ {i}
                             /\ UNCHANGED <<mode, lost>>

\* A clean-up may hit what another program has put in the place of an item.
HelperStep ==
    /\ others' \subseteq others
    /\ \/ Begin \/ Remove \/ BeginSetup \/ Install \/ Save \/ Abort \/ EndUp \/ EndClean
       \/ Sweep \/ Crash \/ Recover

Next == HelperStep \/ Taken

Spec == Init /\ [][Next]_<<mode, ours, others, lost>>
=============================================================================
