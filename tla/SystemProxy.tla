---------------------------- MODULE SystemProxy ----------------------------
(***************************************************************************)
(* The system proxy of the macOS helper: set_system_proxy records the      *)
(* settings of every network service in a snapshot file and then points    *)
(* the services at the local proxy; restore_system_proxy (also the second  *)
(* half of Cleanup) writes the recorded settings back and removes the      *)
(* file.  Every client connection has a thread of its own, and no lock     *)
(* orders these two requests.                                              *)
(*                                                                         *)
(* The six settings of a service are one value:                            *)
(*   "user"  they are what the user had;                                   *)
(*   "worn"  what is in force is the user's, but values that were switched *)
(*           off, a disabled proxy's server and port or an automatic       *)
(*           configuration without a URL, are still the helper's;          *)
(*   "less"  the same without the user's auto-discovery, possibly worn;    *)
(*   "ours"  a setting in force was set by the helper, in either mode.     *)
(* networksetup, the file system and the user who adds and removes         *)
(* services are external, and every command may fail.  That the user edits *)
(* the settings while the proxy is on is not modelled.                     *)
(***************************************************************************)
EXTENDS FiniteSets

CONSTANTS Services,     \* network services, by name
          Clients       \* connections

VARIABLES
    listed,     \* the services networksetup lists
    setting,    \* the settings of each service
    file,       \* the snapshot file: "none" | "ok" | "cut"
    saved,      \* what the file records of each service, "no" if nothing
    req,        \* the request each connection is in
    raced,      \* history: a set ran while another request was under way
    missed,     \* history: services a restore passed over, not being listed
    unread,     \* history: services whose auto-discovery could not be read
    again       \* history: the file was there when its writing began, which is
                \* under way or was cut short

vars == <<listed, setting, file, saved, req, raced, missed, unread, again>>
histVars == <<raced, missed, unread, again>>

NoneSaved == [s \in Services |-> "no"]

\* A request: its point, the services it listed, the snapshot it works on,
\* whether that has to be written, and the services it has still to treat.
Idle == [pc |-> "idle", services |-> {}, snapshot |-> NoneSaved, changed |-> FALSE, todo |-> {}]

Setting == {"list", "read", "exists", "save", "create", "write", "configure"}
Restoring == {"open", "existing", "restore"}

\* What a snapshot may say of the settings of a service.
Recordable == {"user", "less", "ours"}

Request == [pc : {"idle"} \cup Setting \cup Restoring, services : SUBSET Services,
            snapshot : [Services -> {"no"} \cup Recordable], changed : BOOLEAN,
            todo : SUBSET Services]

Init ==
    /\ listed \in SUBSET Services
    /\ setting = [s \in Services |-> "user"]
    /\ file = "none" /\ saved = NoneSaved
    /\ req = [c \in Clients |-> Idle]
    /\ raced = FALSE /\ missed = {} /\ unread = {} /\ again = FALSE

Busy(c) == req[c].pc # "idle"
Goto(c, pc) == req' = [req EXCEPT ![c].pc = pc]
Return(c) == req' = [req EXCEPT ![c] = Idle]

-----------------------------------------------------------------------------
(* set_system_proxy.                                                       *)

\* The endpoint and the PAC URL are valid.
SetRequest(c) ==
    /\ ~Busy(c)
    /\ Goto(c, "list")
    /\ raced' = (raced \/ \E d \in Clients \ {c} : Busy(d))
    /\ UNCHANGED <<listed, setting, file, saved, missed, unread, again>>

SetList(c) ==
    /\ req[c].pc = "list" /\ listed # {}
    /\ req' = [req EXCEPT ![c].pc = "read", ![c].services = listed]
    /\ UNCHANGED <<listed, setting, file, saved, histVars>>

\* An existing snapshot is read; without one a new one is begun.
SetRead(c) ==
    /\ req[c].pc = "read" /\ file # "cut"
    /\ req' = [req EXCEPT ![c].pc = "exists", ![c].snapshot = saved]
    /\ UNCHANGED <<listed, setting, file, saved, histVars>>

\* Mutant of Unsaved: every service is recorded anew.
UnsavedAll(r) == r.services

\* The services that are not in the snapshot yet.
Unsaved(r) == {s \in r.services : r.snapshot[s] = "no"}

\* The file is looked for a second time.
SetExists(c) ==
    /\ req[c].pc = "exists"
    /\ req' = [req EXCEPT ![c].pc = "save", ![c].todo = Unsaved(req[c]),
                          ![c].changed = file = "none" \/ Unsaved(req[c]) # {}]
    /\ UNCHANGED <<listed, setting, file, saved, histVars>>

\* What may be recorded of settings v: a failing read of auto-discovery is
\* taken for "off", and switched-off values are recorded but never used.
Readings(v) == IF v \in {"user", "worn"} THEN {"user", "less"} ELSE {v}

\* make_service_snapshot
SetSave(c) ==
    /\ req[c].pc = "save"
    /\ \E s \in req[c].todo \cap listed : \E v \in Readings(setting[s]) :
        /\ req' = [req EXCEPT ![c].snapshot[s] = v, ![c].todo = @ \ {s}]
        /\ unread' = IF v = "less" THEN unread \cup {s} ELSE unread
    /\ UNCHANGED <<listed, setting, file, saved, raced, missed, again>>

SetSaved(c) ==
    /\ req[c].pc = "save" /\ req[c].todo = {}
    /\ req' = [req EXCEPT ![c].pc = IF req[c].changed THEN "create" ELSE "configure",
                          ![c].todo = IF req[c].changed THEN {} ELSE req[c].services]
    /\ UNCHANGED <<listed, setting, file, saved, histVars>>

\* write_system_proxy_snapshot: fs::write empties the file ...
SetCreate(c) ==
    /\ req[c].pc = "create"
    /\ Goto(c, "write")
    /\ file' = "cut" /\ saved' = NoneSaved /\ again' = (file = "ok")
    /\ UNCHANGED <<listed, setting, raced, missed, unread>>

\* ... and then fills it, unless its name was removed in between.  Two
\* writers may spoil each other's contents.
SetWrite(c) ==
    /\ req[c].pc = "write"
    /\ req' = [req EXCEPT ![c].pc = "configure", ![c].todo = req[c].services]
    /\ file' \in IF file = "none" THEN {"none"}
                 ELSE IF \E d \in Clients \ {c} : req[d].pc = "write" THEN {"ok", "cut"}
                 ELSE {"ok"}
    /\ saved' = IF file' = "ok" THEN req[c].snapshot ELSE NoneSaved
    /\ again' = (again /\ file' = "cut")
    /\ UNCHANGED <<listed, setting, raced, missed, unread>>

\* The networksetup commands for one service, in the order of the snapshot.
SetConfigure(c) ==
    /\ req[c].pc = "configure"
    /\ \E s \in req[c].todo \cap listed :
        /\ req' = [req EXCEPT ![c].todo = @ \ {s}]
        /\ setting' = [setting EXCEPT ![s] = "ours"]
    /\ UNCHANGED <<listed, file, saved, histVars>>

SetDone(c) ==
    /\ req[c].pc = "configure" /\ req[c].todo = {}
    /\ Return(c)
    /\ UNCHANGED <<listed, setting, file, saved, histVars>>

Set(c) ==
    \/ SetRequest(c) \/ SetList(c) \/ SetRead(c) \/ SetExists(c) \/ SetSave(c) \/ SetSaved(c)
    \/ SetCreate(c) \/ SetWrite(c) \/ SetConfigure(c) \/ SetDone(c)

-----------------------------------------------------------------------------
(* restore_system_proxy.                                                   *)

RestoreRequest(c) ==
    /\ ~Busy(c)
    /\ Goto(c, "open")
    /\ raced' = (raced \/ \E d \in Clients \ {c} : req[d].pc \in Setting)
    /\ UNCHANGED <<listed, setting, file, saved, missed, unread, again>>

RestoreNothing(c) ==
    /\ req[c].pc = "open" /\ file = "none"
    /\ Return(c)
    /\ UNCHANGED <<listed, setting, file, saved, histVars>>

RestoreRead(c) ==
    /\ req[c].pc = "open" /\ file = "ok"
    /\ req' = [req EXCEPT ![c].pc = "existing", ![c].snapshot = saved]
    /\ UNCHANGED <<listed, setting, file, saved, histVars>>

\* The recorded services.
Recorded(r) == {s \in Services : r.snapshot[s] # "no"}

RestoreList(c) ==
    /\ req[c].pc = "existing"
    /\ req' = [req EXCEPT ![c].pc = "restore", ![c].services = listed,
                          ![c].todo = Recorded(req[c]) \cap listed]
    /\ UNCHANGED <<listed, setting, file, saved, histVars>>

\* What settings w become when the recorded v is written back: the values of
\* what was switched off stay as they are.
WrittenBack(w, v) ==
    IF v # "user" THEN {v} ELSE IF w \in {"user", "worn"} THEN {w} ELSE {"user", "worn"}

\* The networksetup commands for one service.
RestoreService(c) ==
    /\ req[c].pc = "restore"
    /\ \E s \in req[c].todo \cap listed :
        /\ req' = [req EXCEPT ![c].todo = @ \ {s}]
        /\ \E v \in WrittenBack(setting[s], req[c].snapshot[s]) :
              setting' = [setting EXCEPT ![s] = v]
    /\ UNCHANGED <<listed, file, saved, histVars>>

MayRemove(r) == r.todo = {}

\* The file is removed, an error if another restore has done that already.
RestoreRemove(c) ==
    /\ req[c].pc = "restore" /\ MayRemove(req[c])
    /\ file' = "none" /\ saved' = NoneSaved
    /\ missed' = missed \cup (Recorded(req[c]) \ req[c].services)
    /\ Return(c)
    /\ UNCHANGED <<listed, setting, raced, unread, again>>

Restore(c) ==
    \/ RestoreRequest(c) \/ RestoreNothing(c) \/ RestoreRead(c) \/ RestoreList(c)
    \/ RestoreService(c) \/ RestoreRemove(c)

-----------------------------------------------------------------------------
(* Failures.                                                               *)

\* The points where a command, a read or a write may fail.
MayFail(r) ==
    \/ r.pc \in {"list", "create", "write", "existing", "restore"}
    \/ r.pc \in {"read", "open"} /\ file # "none"
    \/ r.pc \in {"save", "configure"} /\ r.todo # {}

\* The request returns with an error; a file being written stays cut.  A
\* service whose commands fail half-way is ours while any setting in force is:
\* it is as before its turn or as after it.
Fails(c) ==
    /\ MayFail(req[c])
    /\ Return(c)
    /\ UNCHANGED <<listed, setting, file, saved, histVars>>

\* The helper is killed and started again; the file and the settings stay,
\* and no request is repeated.
Crash ==
    /\ \E c \in Clients : Busy(c)
    /\ req' = [c \in Clients |-> Idle]
    /\ UNCHANGED <<listed, setting, file, saved, histVars>>

\* A service goes, and comes back as it was (another network location) or
\* made anew.
Unlist ==
    /\ \E s \in listed : listed' = listed \ {s}
    /\ UNCHANGED <<setting, file, saved, req, histVars>>

List ==
    /\ \E s \in Services \ listed :
        /\ listed' = listed \cup {s}
        /\ setting' \in {setting, [setting EXCEPT ![s] = "user"]}
    /\ UNCHANGED <<file, saved, req, histVars>>

Next ==
    \/ \E c \in Clients : Set(c) \/ Restore(c) \/ Fails(c)
    \/ Crash \/ Unlist \/ List

Spec == Init /\ [][Next]_vars

-----------------------------------------------------------------------------
\* The values the variables range over.
TypeOK ==
    /\ listed \in SUBSET Services /\ raced \in BOOLEAN
    /\ missed \in SUBSET Services /\ unread \in SUBSET Services
    /\ again \in BOOLEAN
    /\ setting \in [Services -> {"user", "worn", "less", "ours"}]
    /\ file \in {"none", "ok", "cut"}
    /\ saved \in [Services -> {"no"} \cup Recordable]
    /\ req \in [Clients -> Request]

\* v are the settings the user had in force for service s, without
\* auto-discovery only if that could not be read.
Original(s, v) == v \in {"user", "worn"} \/ (v = "less" /\ s \in unread)

\* A request is filling the file, which its settings will be in.
Writes(c) == file = "cut" /\ req[c].pc = "write"

\* The writing of a file that was there before was cut short, by an error or
\* the death of the helper: what it recorded is lost.
Spoiled == file = "cut" /\ again /\ ~\E c \in Clients : Writes(c)

\* The original settings of service s can still be had: from the file or,
\* while that is being written, from the request that writes it.
Kept(s) ==
    \/ file = "ok" /\ Original(s, saved[s])
    \/ \E c \in Clients : Writes(c) /\ Original(s, req[c].snapshot[s])

\* "Record the original settings ... before touching them, so they are
\* restored too": however requests fail, the helper dies and services come and
\* go, a service has the settings in force that the user had, or the snapshot
\* has them; unless a restore passed over the service (it was not listed then),
\* a set overlapped another request, or the rewriting of the snapshot for a new
\* service was cut short (a first writing cut short costs no settings).  Two
\* restores at once are harmless.  Of settings that are not in force the code
\* keeps less: after a restore the values of a proxy that the user had switched
\* off may still be ours.
OriginalsKept ==
    ~raced /\ ~Spoiled =>
        \A s \in Services \ missed : Original(s, setting[s]) \/ Kept(s)
=============================================================================
