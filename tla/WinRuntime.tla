----------------------------- MODULE WinRuntime -----------------------------
(***************************************************************************)
(* WindowsRuntime: the state machine behind start_tun, stop_tun, cleanup   *)
(* and service shutdown, with the threads it spawns.                       *)
(*                                                                         *)
(*  - Clients: pipe clients, each on a thread of its own (serve), and the  *)
(*    service thread that shuts down.  A client starts, stops or cleans up. *)
(*  - Workers: the nulconnect-tun-start threads.  A worker starts at most   *)
(*    one engine, which bears its name.                                    *)
(*  - Monitors: the nulconnect-tun-monitor thread of each published engine. *)
(*                                                                         *)
(* The operating system keeps what an engine's network plan installed:     *)
(* bypass routes and the NRPT rule survive the process, tunnel routes live *)
(* as long as the Wintun adapter.  The record file survives a crash too.   *)
(*                                                                         *)
(* Steps taken while holding `operation` are merged when no other thread   *)
(* and no crash can tell them apart.                                       *)
(***************************************************************************)
EXTENDS Integers, FiniteSets

CONSTANTS Clients,      \* threads that handle requests
          MaxStarts,    \* bound: start workers in one behaviour
          MaxStops,     \* bound: stops, that is increments of generation
          MaxCrashes,   \* bound: crashes of the helper process
          Bypass,       \* bypass routes of the plan, on physical interfaces
          Tunnel,       \* tunnel routes of the plan, on the adapter
          Nrpt          \* the NRPT rule

ASSUME BoundAssumption == MaxStarts \in Nat /\ MaxStops \in Nat /\ MaxCrashes \in Nat
ASSUME ItemAssumption ==
    /\ Bypass \cap Tunnel = {}
    /\ Nrpt \notin Bypass \cup Tunnel

Workers == 1 .. MaxStarts
Items == Bypass \cup Tunnel \cup {Nrpt}
NoEngine == 0

VARIABLES
    status, engine, network,   \* TunState: status, engine, network
    generation,                \* WindowsRuntime.generation
    op,                        \* holder of WindowsRuntime.operation
    client,                    \* pc of each client
    worker, wgen,              \* pc of each worker, the generation it was given
    monitor,                   \* pc of each monitor
    eng,                       \* each engine: none, live, dead (failed), stopped
    todo, local,               \* the lock holder's plan still to install, and
                               \* its own `network` value
    os,                        \* what is installed, and by whom
    record,                    \* network-state.json
    up,                        \* the helper process runs
    crashes, lost,             \* history: crashes so far, items of ours a
                               \* crash left without a record, and items
    exposed                    \* another program made where the helper still
                               \* names one of its own

stateVars == <<status, engine, network>>
procVars == <<client, worker, wgen, monitor>>
lockVars == <<op, todo, local>>
diskVars == <<os, record>>
lifeVars == <<up, crashes, lost, exposed>>
vars == <<stateVars, generation, lockVars, procVars, eng, diskVars, lifeVars>>

\* What can be in the place of an item: nothing, ours, that of another
\* program, or one of ours that could not be removed.
OsValues == {"absent", "ours", "foreign", "stuck"}

NoRecord == {}   \* no file and an empty record lead to the same clean-up

Free == <<"none", 0>>
ClientId(c) == <<"client", c>>
WorkerId(w) == <<"worker", w>>
MonitorId(w) == <<"monitor", w>>

Ours == {i \in Items : os[i] = "ours"}
Others == {i \in Items : os[i] = "foreign"}

\* What the helper takes for its own: published, in hand, or on file.
Named == network \cup local \cup record

Init ==
    /\ status = "Stopped" /\ engine = NoEngine /\ network = {}
    /\ generation = 0
    /\ op = Free /\ todo = {} /\ local = {}
    /\ client = [c \in Clients |-> "idle"]
    /\ worker = [w \in Workers |-> "unused"]
    /\ wgen = [w \in Workers |-> 0]
    /\ monitor = [w \in Workers |-> "none"]
    /\ eng = [w \in Workers |-> "none"]
    \* Another program may already have a route identical to a bypass route.
    /\ os \in [Items -> {"absent", "foreign"}]
    /\ \A i \in Items \ Bypass : os[i] = "absent"
    /\ record = NoRecord
    /\ up = TRUE /\ crashes = 0 /\ lost = {} /\ exposed = {}

-----------------------------------------------------------------------------
(* Engines and the network.                                                *)

\* What is left of o when items are removed, those in failed without success.
Undo(o, items, failed) ==
    [i \in Items |-> IF i \notin items THEN o[i]
                     ELSE IF i \notin failed THEN "absent"
                     ELSE IF o[i] = "ours" THEN "stuck" ELSE o[i]]

\* undo_network_state: delete_route for each recorded route, clear_nrpt.  What
\* cannot be removed is logged, at most, and then forgotten.
UndoNetwork(o, items) == \E failed \in SUBSET items : os' = Undo(o, items, failed)

\* cleanup_persisted_network_state: undo the record, and the NRPT rule even
\* without one.
UndoRecord(o) == UndoNetwork(o, record \cup {Nrpt})

Alive(w, e) == e[w] \in {"live", "dead"}

\* Tunnel routes vanish with the adapter, closed with the last engine that holds it.
Unplug(o) == Undo(o, Tunnel, {})
WithoutAdapter(o, e) ==
    IF \E w \in Workers : Alive(w, e) THEN o ELSE Unplug(o)

\* Mutant of Drop: dropping an engine does not stop it.
DropLeaks(e, engine1, worker1, monitor1) == e

\* Arc<VpnEngine>: an engine nobody refers to any more is dropped, which
\* stops it (Drop for VpnEngine).  It is referred to by TunState, by its
\* monitor thread, and by its worker until it is published.
Drop(e, engine1, worker1, monitor1) ==
    [w \in Workers |->
        IF /\ Alive(w, e)
           /\ engine1 # w
           /\ monitor1[w] \in {"none", "exited"}
           /\ worker1[w] \notin {"install", "bad", "verify", "publish"}
        THEN "stopped" ELSE e[w]]

\* engine.stop(), or nothing when there is none.
StopEngine(e, v) == [w \in Workers |-> IF w = v THEN "stopped" ELSE e[w]]

\* VpnEngine fails on its own (fail_engine).
EngineDies(w) ==
    /\ eng[w] = "live"
    /\ eng' = [eng EXCEPT ![w] = "dead"]
    /\ UNCHANGED <<stateVars, generation, lockVars, procVars, diskVars, lifeVars>>

-----------------------------------------------------------------------------
(* begin_start                                                             *)

ClientAt(c, pc) == up /\ client[c] = pc
Goto(c, pc) == client' = [client EXCEPT ![c] = pc]
Unused == {w \in Workers : worker[w] = "unused"}

\* Under the state lock: refuse unless stopped or failed.
BeginStart(c) ==
    /\ ClientAt(c, "idle")
    /\ Cardinality(Unused) > Cardinality({d \in Clients : client[d] = "accepted"})
    /\ status \in {"Stopped", "Failed"}
    /\ status' = "Starting"
    /\ Goto(c, "accepted")
    /\ UNCHANGED <<engine, network, generation, lockVars, worker, wgen, monitor, eng,
                   diskVars, lifeVars>>

\* The state lock has been released: read the generation, spawn the worker.
SpawnWorker(c, w) ==
    /\ ClientAt(c, "accepted")
    /\ w \in Unused /\ \A v \in Unused : w <= v
    /\ worker' = [worker EXCEPT ![w] = "lock"]
    /\ wgen' = [wgen EXCEPT ![w] = generation]
    /\ Goto(c, "idle")
    /\ UNCHANGED <<stateVars, generation, lockVars, monitor, eng, diskVars, lifeVars>>

\* The thread cannot be created: an error for the client, status untouched.
SpawnFails(c) ==
    /\ ClientAt(c, "accepted")
    /\ Goto(c, "idle")
    /\ UNCHANGED <<stateVars, generation, lockVars, worker, wgen, monitor, eng,
                   diskVars, lifeVars>>

-----------------------------------------------------------------------------
(* start_worker, and the closure of begin_start that runs it.              *)

WGoto(w, pc) == worker' = [worker EXCEPT ![w] = pc]

WorkerLock(w) ==
    /\ worker[w] = "lock"
    /\ op = Free
    /\ op' = WorkerId(w)
    /\ WGoto(w, "clean")
    /\ UNCHANGED <<stateVars, generation, todo, local, client, wgen, monitor, eng,
                   diskVars, lifeVars>>

\* A stop came first.
WorkerCancelled(w) ==
    /\ worker[w] = "clean"
    /\ wgen[w] # generation
    /\ op' = Free
    /\ WGoto(w, "ended")
    /\ UNCHANGED <<stateVars, generation, todo, local, client, wgen, monitor, eng,
                   diskVars, lifeVars>>

\* Mutant of WorkerClean: what is on file is not undone before the start.
WorkerCleanSkipped(w) ==
    /\ worker[w] = "clean"
    /\ wgen[w] = generation
    /\ WGoto(w, "start")
    /\ UNCHANGED <<stateVars, generation, lockVars, client, wgen, monitor, eng, diskVars, lifeVars>>

WorkerClean(w) ==
    /\ worker[w] = "clean"
    /\ wgen[w] = generation
    /\ UndoRecord(os)
    /\ record' = NoRecord
    /\ WGoto(w, "start")
    /\ UNCHANGED <<stateVars, generation, lockVars, client, wgen, monitor, eng, lifeVars>>

\* VpnEngine::start succeeded; the plan may be empty (setup_routes off) or
\* lack the NRPT rule (no DNS server, no managed domains).
WorkerStart(w) ==
    /\ worker[w] = "start"
    /\ eng' = [eng EXCEPT ![w] = "live"]
    /\ todo' \in {{}, Bypass \cup Tunnel, Items}
    /\ local' = {}
    /\ WGoto(w, "install")
    /\ UNCHANGED <<stateVars, generation, op, client, wgen, monitor, diskVars, lifeVars>>

\* Bad resource bytes, no plan, no engine, or an engine without a LUID (it
\* is stopped again).
WorkerStartErr(w) ==
    /\ worker[w] = "start"
    /\ op' = Free
    /\ WGoto(w, "failed")
    /\ UNCHANGED <<stateVars, generation, todo, local, client, wgen, monitor, eng,
                   diskVars, lifeVars>>

\* install_network_plan handles bypass routes, then tunnel routes, then NRPT.
NextItem(i) ==
    /\ i \in todo
    /\ i \in Tunnel => todo \cap Bypass = {}
    /\ i = Nrpt => todo = {Nrpt}

\* Mutant of Recorded: a route that existed already is recorded as ours.
RecordedAlways(i) == TRUE

\* add_route: Ok(true) for a route that was created; Ok(false) when an
\* identical one existed.  network.nrpt is set in any case: apply_nrpt removes
\* what is there and writes the rule anew.
Recorded(i) == i = Nrpt \/ os[i] = "absent"

Install(w, i) ==
    /\ worker[w] = "install"
    /\ NextItem(i)
    /\ todo' = todo \ {i}
    /\ local' = IF Recorded(i) THEN local \cup {i} ELSE local
    /\ os' = IF i = Nrpt \/ os[i] = "absent" THEN [os EXCEPT ![i] = "ours"] ELSE os
    /\ UNCHANGED <<stateVars, generation, op, procVars, eng, record, lifeVars>>

\* A bypass route that cannot be added is only a warning.
InstallWarn(w, i) ==
    /\ worker[w] = "install"
    /\ NextItem(i) /\ i \in Bypass
    /\ todo' = todo \ {i}
    /\ UNCHANGED <<stateVars, generation, op, local, procVars, eng, diskVars, lifeVars>>

\* A tunnel route or the NRPT rule cannot be installed; the NRPT key may
\* have been written in part, or only what was there removed.
InstallErr(w, i) ==
    /\ worker[w] = "install"
    /\ NextItem(i) /\ i \notin Bypass
    /\ todo' = {}
    /\ local' = IF i = Nrpt THEN local \cup {Nrpt} ELSE local
    /\ \/ os' = os
       \/ i = Nrpt /\ os' = [os EXCEPT ![Nrpt] = "ours"]
       \/ i = Nrpt /\ os[Nrpt] = "stuck" /\ os' = [os EXCEPT ![Nrpt] = "absent"]
    /\ WGoto(w, "bad")
    /\ UNCHANGED <<stateVars, generation, op, client, wgen, monitor, eng, record, lifeVars>>

\* Mutant of SaveRecord: nothing is saved.
SaveRecordSkipped(w) ==
    /\ worker[w] = "install" /\ todo = {}
    /\ WGoto(w, "verify")
    /\ UNCHANGED <<stateVars, generation, lockVars, client, wgen, monitor, eng, diskVars,
                   lifeVars>>

\* save_persisted_network_state after a complete installation.
SaveRecord(w) ==
    /\ worker[w] = "install" /\ todo = {}
    /\ record' = local
    /\ WGoto(w, "verify")
    /\ UNCHANGED <<stateVars, generation, lockVars, client, wgen, monitor, eng, os, lifeVars>>

\* The installation failed: the record is saved, the engine stopped, the
\* network undone.  The record is not cleared.
WorkerAbort(w) ==
    /\ worker[w] = "bad"
    /\ record' = local
    /\ eng' = StopEngine(eng, w)
    /\ UndoNetwork(WithoutAdapter(os, eng'), local)
    /\ local' = {}
    /\ op' = Free
    /\ WGoto(w, "failed")
    /\ UNCHANGED <<stateVars, generation, todo, client, wgen, monitor, lifeVars>>

\* Mutant of WorkerVerifyCancelled: a cancelled start forgets its routes.
WorkerVerifyForgets(w) ==
    /\ worker[w] = "verify"
    /\ wgen[w] # generation
    /\ eng' = StopEngine(eng, w)
    /\ os' = WithoutAdapter(os, eng')
    /\ local' = {}
    /\ op' = Free
    /\ WGoto(w, "ended")
    /\ UNCHANGED <<stateVars, generation, todo, client, wgen, monitor, record, lifeVars>>

\* A stop arrived meanwhile: give everything back, leave the record.
WorkerVerifyCancelled(w) ==
    /\ worker[w] = "verify"
    /\ wgen[w] # generation
    /\ eng' = StopEngine(eng, w)
    /\ UndoNetwork(WithoutAdapter(os, eng'), local)
    /\ local' = {}
    /\ op' = Free
    /\ WGoto(w, "ended")
    /\ UNCHANGED <<stateVars, generation, todo, client, wgen, monitor, record, lifeVars>>

WorkerVerifyOk(w) ==
    /\ worker[w] = "verify"
    /\ wgen[w] = generation
    /\ WGoto(w, "publish")
    /\ UNCHANGED <<stateVars, generation, lockVars, client, wgen, monitor, eng, diskVars,
                   lifeVars>>

\* Publish under the state lock, then spawn_monitor, whose failure to create
\* the thread is ignored.
WorkerPublish(w) ==
    /\ worker[w] = "publish"
    /\ engine' = w
    /\ network' = local
    /\ status' = "Running"
    /\ local' = {}
    /\ op' = Free
    /\ WGoto(w, "ended")
    /\ \E m \in {"sleep", "none"} : monitor' = [monitor EXCEPT ![w] = m]
    /\ eng' = Drop(eng, w, worker', monitor')
    /\ UNCHANGED <<generation, todo, client, wgen, diskVars, lifeVars>>

\* After start_worker returned Err, with the operation lock released: is
\* this start still wanted?
WorkerReport(w) ==
    /\ worker[w] = "failed"
    /\ WGoto(w, IF wgen[w] = generation THEN "report" ELSE "ended")
    /\ UNCHANGED <<stateVars, generation, lockVars, client, wgen, monitor, eng, diskVars,
                   lifeVars>>

\* set_status(Failed), a step of its own.
WorkerSetFailed(w) ==
    /\ worker[w] = "report"
    /\ status' = "Failed"
    /\ WGoto(w, "ended")
    /\ UNCHANGED <<engine, network, generation, lockVars, client, wgen, monitor, eng,
                   diskVars, lifeVars>>

Worker(w) ==
    \/ WorkerLock(w) \/ WorkerCancelled(w) \/ WorkerClean(w)
    \/ WorkerStart(w) \/ WorkerStartErr(w)
    \/ \E i \in Items : Install(w, i) \/ InstallWarn(w, i) \/ InstallErr(w, i)
    \/ SaveRecord(w) \/ WorkerAbort(w)
    \/ WorkerVerifyCancelled(w) \/ WorkerVerifyOk(w) \/ WorkerPublish(w)
    \/ WorkerReport(w) \/ WorkerSetFailed(w)

-----------------------------------------------------------------------------
(* spawn_monitor: the loop of the monitor thread.                          *)

MGoto(w, pc) == monitor' = [monitor EXCEPT ![w] = pc]

\* The generation changed (seen while polling, or after taking the lock).
MonitorRetire(w) ==
    /\ monitor[w] = "sleep" \/ (monitor[w] = "lock" /\ op = Free)
    /\ generation # wgen[w]
    /\ MGoto(w, "exited")
    /\ eng' = Drop(eng, engine, worker, monitor')
    /\ os' = WithoutAdapter(os, eng')
    /\ UNCHANGED <<stateVars, generation, lockVars, client, worker, wgen, record, lifeVars>>

\* Mutant of MonitorSee: the status test is inverted.
MonitorSeeInverted(w) ==
    /\ monitor[w] = "sleep"
    /\ generation = wgen[w]
    /\ eng[w] = "live"
    /\ MGoto(w, "lock")
    /\ UNCHANGED <<stateVars, generation, lockVars, client, worker, wgen, eng, diskVars,
                   lifeVars>>

MonitorSee(w) ==
    /\ monitor[w] = "sleep"
    /\ generation = wgen[w]
    /\ eng[w] = "dead"
    /\ MGoto(w, "lock")
    /\ UNCHANGED <<stateVars, generation, lockVars, client, worker, wgen, eng, diskVars,
                   lifeVars>>

\* Take the result, the published engine's network, and stop this engine.
MonitorTake(w) ==
    /\ monitor[w] = "lock"
    /\ op = Free
    /\ generation = wgen[w]
    /\ op' = MonitorId(w)
    /\ local' = network
    /\ engine' = NoEngine
    /\ network' = {}
    /\ MGoto(w, "undo")
    /\ eng' = Drop(StopEngine(eng, w), NoEngine, worker, monitor')
    /\ os' = WithoutAdapter(os, eng')
    /\ UNCHANGED <<status, generation, todo, client, worker, wgen, record, lifeVars>>

\* Undo the network, clear the record, report the failure.  (A result is
\* only ever an error, so the Stopped branch cannot be taken.)
MonitorUndo(w) ==
    /\ monitor[w] = "undo"
    /\ UndoNetwork(os, local)
    /\ record' = NoRecord
    /\ status' = "Failed"
    /\ local' = {}
    /\ op' = Free
    /\ MGoto(w, "exited")
    /\ UNCHANGED <<engine, network, generation, todo, client, worker, wgen, eng, lifeVars>>

Monitor(w) == MonitorRetire(w) \/ MonitorSee(w) \/ MonitorTake(w) \/ MonitorUndo(w)

-----------------------------------------------------------------------------
(* stop, and cleanup = stop followed by cleanup_leftovers.                 *)

StopBump(c) ==
    /\ ClientAt(c, "idle")
    /\ generation < MaxStops
    /\ generation' = generation + 1
    /\ Goto(c, "s_mark")
    /\ UNCHANGED <<stateVars, lockVars, worker, wgen, monitor, eng, diskVars, lifeVars>>

StopMark(c) ==
    /\ ClientAt(c, "s_mark")
    /\ status' = IF status \in {"Running", "Starting"} THEN "Stopping" ELSE status
    /\ Goto(c, "s_lock")
    /\ UNCHANGED <<engine, network, generation, lockVars, worker, wgen, monitor, eng,
                   diskVars, lifeVars>>

\* Take the engine and its network out of the state, stop the engine.
StopTake(c) ==
    /\ ClientAt(c, "s_lock")
    /\ op = Free
    /\ op' = ClientId(c)
    /\ local' = network
    /\ network' = {}
    /\ engine' = NoEngine
    /\ eng' = StopEngine(eng, engine)
    /\ os' = WithoutAdapter(os, eng')
    /\ Goto(c, "s_undo")
    /\ UNCHANGED <<status, generation, todo, worker, wgen, monitor, record, lifeVars>>

\* Mutant of StopUndo: the operation lock is kept.
StopUndoKeepsLock(c) ==
    /\ ClientAt(c, "s_undo")
    /\ UndoNetwork(os, local)
    /\ record' = NoRecord
    /\ status' = "Stopped"
    /\ local' = {}
    /\ Goto(c, "idle")
    /\ UNCHANGED <<op, engine, network, generation, todo, worker, wgen, monitor, eng, lifeVars>>

\* Undo the network, clear the record, report Stopped.  The request was
\* stop_tun (idle) or cleanup (c_lock).
StopUndo(c) ==
    /\ ClientAt(c, "s_undo")
    /\ UndoNetwork(os, local)
    /\ record' = NoRecord
    /\ status' = "Stopped"
    /\ local' = {}
    /\ op' = Free
    /\ \E pc \in {"idle", "c_lock"} : Goto(c, pc)
    /\ UNCHANGED <<engine, network, generation, todo, worker, wgen, monitor, eng, lifeVars>>

\* cleanup_leftovers, holding the lock for the whole step.
CleanupLeftovers(c) ==
    /\ ClientAt(c, "c_lock")
    /\ op = Free
    /\ UndoRecord(os)
    /\ record' = NoRecord
    /\ Goto(c, "idle")
    /\ UNCHANGED <<stateVars, generation, lockVars, worker, wgen, monitor, eng, lifeVars>>

Client(c) ==
    \/ StopMark(c) \/ StopTake(c) \/ StopUndo(c) \/ CleanupLeftovers(c)
    \/ SpawnFails(c) \/ \E w \in Workers : SpawnWorker(c, w)

-----------------------------------------------------------------------------
(* The process dies, and is started again (run_service).                   *)

Crash ==
    /\ up /\ crashes < MaxCrashes
    /\ up' = FALSE
    /\ crashes' = crashes + 1
    /\ lost' = lost \cup ((Ours \cap Bypass) \ record)
    /\ os' = Unplug(os)
    /\ status' = "Stopped" /\ engine' = NoEngine /\ network' = {}
    /\ generation' = 0
    /\ op' = Free /\ todo' = {} /\ local' = {}
    /\ client' = [c \in Clients |-> "idle"]
    /\ worker' = [w \in Workers |-> IF worker[w] = "unused" THEN "unused" ELSE "ended"]
    /\ monitor' = [w \in Workers |-> "none"]
    /\ eng' = [w \in Workers |-> IF eng[w] = "none" THEN "none" ELSE "stopped"]
    /\ UNCHANGED <<wgen, record, exposed>>

\* cleanup_leftovers runs before the pipe is served.
Restart ==
    /\ ~up
    /\ up' = TRUE
    /\ UndoRecord(os)
    /\ record' = NoRecord
    /\ UNCHANGED <<stateVars, generation, lockVars, procVars, eng, crashes, lost, exposed>>

\* Another program makes a route like a bypass route; one of ours must have
\* gone before (its interface went down and came back).
OtherInstalls(i) ==
    /\ i \in Bypass /\ os[i] # "foreign"
    /\ os' = [os EXCEPT ![i] = "foreign"]
    /\ exposed' = IF i \in Named THEN exposed \cup {i} ELSE exposed \ {i}
    /\ UNCHANGED <<stateVars, generation, lockVars, procVars, eng, record, up, crashes, lost>>

Next ==
    \/ \E c \in Clients : BeginStart(c) \/ StopBump(c) \/ Client(c)
    \/ \E w \in Workers : Worker(w) \/ Monitor(w) \/ EngineDies(w)
    \/ Crash \/ Restart
    \/ \E i \in Items : OtherInstalls(i)

Spec == Init /\ [][Next]_vars

\* A thread that can take a step eventually does.  Requests, failures of the
\* engine, crashes and other programs' routes need not happen.
Fairness ==
    /\ \A c \in Clients : WF_vars(Client(c))
    /\ \A w \in Workers : WF_vars(Worker(w)) /\ WF_vars(Monitor(w))
    /\ WF_vars(Restart)

FairSpec == Spec /\ Fairness

-----------------------------------------------------------------------------
\* The values the variables range over.
TypeOK ==
    /\ status \in {"Stopped", "Starting", "Running", "Stopping", "Failed"}
    /\ engine \in Workers \cup {NoEngine}
    /\ network \subseteq Items
    /\ generation \in Nat
    /\ op \in {Free} \cup {ClientId(c) : c \in Clients}
                     \cup {WorkerId(w) : w \in Workers} \cup {MonitorId(w) : w \in Workers}
    /\ todo \subseteq Items /\ local \subseteq Items /\ record \subseteq Items
    /\ client \in [Clients -> {"idle", "accepted", "s_mark", "s_lock", "s_undo", "c_lock"}]
    /\ worker \in [Workers -> {"unused", "lock", "clean", "start", "install", "bad",
                               "verify", "publish", "failed", "report", "ended"}]
    /\ wgen \in [Workers -> Nat]
    /\ monitor \in [Workers -> {"none", "sleep", "lock", "undo", "exited"}]
    /\ eng \in [Workers -> {"none", "live", "dead", "stopped"}]
    /\ os \in [Items -> OsValues]
    /\ up \in BOOLEAN
    /\ crashes \in Nat /\ lost \subseteq Bypass /\ exposed \subseteq Bypass

\* Everything this process installed is known to it: an item of ours is in
\* the published state or in the hands of the thread that holds `operation`
\* (so that stop, the monitor or the aborted start will remove it), except
\* what an earlier crash orphaned.  Holds through every race of starts,
\* stops, clean-ups and engine failures.
InstalledIsOwned == up => Ours \subseteq network \cup local \cup lost

\* Whenever no operation is in progress, the record file names every item
\* of ours, so a crash at that moment costs nothing.
RecordCovers == up /\ op = Free => Ours \subseteq record \cup lost

\* A crash orphans a route only if it strikes while a start is between its
\* first route and the saving of its record.
CrashOrphansOnlyMidInstall ==
    [][lost' # lost => \E w \in Workers : worker[w] \in {"install", "bad"}]_vars

\* No step of the helper, crash clean-up included, removes a route that
\* another program installed, before or after the VPN came up (add_route: "it
\* is not ours to remove later").  The exception is a route made where the
\* helper names one of its own at that moment: one of the running VPN that has
\* gone, or one in the record that an aborted or cancelled start leaves behind.
ForeignRoutesKept ==
    [][\A i \in Items : os[i] = "foreign" /\ i \notin exposed => os'[i] = "foreign"]_vars

\* The helper as an owner of what it installs: no operation is in progress
\* while the lock is free, and the VPN is on while an engine is published.
LeaseMode ==
    IF ~up THEN "down"
    ELSE IF op = Free THEN IF engine = NoEngine THEN "off" ELSE "on"
    ELSE IF \E w \in Workers : worker[w] \in {"install", "bad"} THEN "setup" ELSE "busy"

Lease == INSTANCE NetworkLease
            WITH mode <- LeaseMode, ours <- Ours, others <- Others, Volatile <- Tunnel

\* WindowsRuntime keeps the promise of NetworkLease: routes come only with a
\* setup that has cleaned up first, and whatever races and fails, a helper
\* that is off has given everything back.
LeaseKept == Lease!Spec

\* No engine outlives a stop: one whose generation has passed is eventually
\* stopped, even when a race left it unpublished or unmonitored.
NoEngineOutlivesStop ==
    \A w \in Workers : (Alive(w, eng) /\ wgen[w] # generation) ~> ~Alive(w, eng)

\* Every stop returns: the waits for `operation` do not deadlock.
StopReturns == \A c \in Clients : client[c] = "s_lock" ~> client[c] = "idle"

\* A published engine that failed is retired by its monitor.
DeadEngineRetired ==
    \A w \in Workers :
        engine = w /\ eng[w] = "dead" /\ monitor[w] # "none" ~> engine # w
=============================================================================
