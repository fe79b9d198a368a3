----------------------------- MODULE MacHelper -----------------------------
(***************************************************************************)
(* HelperRuntime, the macOS helper: start_tun with its worker and monitor  *)
(* threads, stop_tun, shutdown, the crash of the process and the recovery  *)
(* of what it left behind.                                                 *)
(*                                                                         *)
(*  - Clients: threads that handle requests (start_tun; stop_tun, cleanup  *)
(*    and shutdown, which all run stop_tun).                               *)
(*  - Server: the main thread.  It recovers, accepts, and after a shutdown *)
(*    runs stop_tun once more before the process exits.                    *)
(*  - Workers: the nulconnect-l3-start threads; an engine bears the name   *)
(*    of the worker that started it.                                       *)
(*  - Monitors: the nulconnect-tun-monitor threads.                        *)
(*                                                                         *)
(* Three state files survive the process: the installed routes, the        *)
(* installed resolver files, the snapshot of the DNS settings.  Of the two *)
(* lists, an empty, a missing and a truncated one lead to the same         *)
(* clean-up.  Of the snapshot matters whether it holds what the latest     *)
(* start found ("current"), settings from before, which the user may have  *)
(* changed since ("old"), or nothing that can be parsed ("cut"); the       *)
(* settings themselves are external.  tun-state.json is written for the    *)
(* application and never read: only that writing it may fail is modelled,  *)
(* where that changes the outcome.                                         *)
(***************************************************************************)
EXTENDS Integers, FiniteSets

CONSTANTS Clients, Server,
          MaxStarts,    \* bound: start workers in one behaviour
          MaxCrashes,   \* bound: crashes of the process
          Tun,          \* routes of the plan on the TUN interface (those probed)
          Node,         \* routes of the plan via the physical gateway
          Domain,       \* scoped resolver files of the plan
          Foreign       \* items that other programs may make

ASSUME BoundAssumption == MaxStarts \in Nat /\ MaxCrashes \in Nat
ASSUME ItemAssumption ==
    /\ Tun \cap Node = {} /\ Tun \cap Domain = {} /\ Node \cap Domain = {}
    /\ Foreign \subseteq Tun \cup Node \cup Domain

Workers == 1 .. MaxStarts
ASSUME ThreadAssumption == Server \notin Clients /\ (Clients \cup {Server}) \cap Workers = {}

Threads == Clients \cup {Server} \cup Workers
Items == Tun \cup Node \cup Domain
NoEngine == 0

VARIABLES
    tun_starting, tun_engine, tun_failure, shutting_down,   \* HelperRuntime
    op,           \* holder of tun_operation
    pc,           \* point of each client, worker and of the server
    monitor,      \* point of each monitor
    eng,          \* each engine: none, live, dead (failed), stopped
    todo, local,  \* items still to install, and those installed but not saved
    looked,       \* the resolver file that was looked at and is to be written
    phase,        \* the lock holder's point in restore_tun_network_after_stop
    os,           \* who made each installed item (see OsValues)
    routes, resolvers, snapshot,   \* the three state files
    up,           \* the process runs
    \* History, never read by the program:
    crashes, lost,       \* items of ours left unrecorded
    exposed,             \* items another program made where the helper still
                         \* names one of its own
    blamed               \* an error or the end of the process left the snapshot

runtimeVars == <<tun_starting, tun_engine, tun_failure, shutting_down>>
workVars == <<todo, local, looked>>
fileVars == <<routes, resolvers, snapshot>>
lifeVars == <<up, crashes, exposed>>
vars == <<runtimeVars, op, pc, monitor, eng, workVars, phase, os, fileVars, blamed,
          lifeVars, lost>>

\* What can be in the place of an item: nothing; ours; that of another
\* program; a resolver file of another program that is not UTF-8; one of ours
\* that could not be removed; a resolver file of ours that lacks the marker
\* because its writing was cut short.
OsValues == {"absent", "ours", "foreign", "opaque", "stuck", "cut"}

Free == <<"none", 0>>
ThreadId(t) == <<"thread", t>>
MonitorId(w) == <<"monitor", w>>

Init ==
    /\ tun_starting = FALSE /\ tun_engine = NoEngine /\ tun_failure = FALSE
    /\ shutting_down = FALSE
    /\ op = Free
    /\ pc = [t \in Threads |-> IF t \in Workers THEN "unused"
                               ELSE IF t = Server THEN "accept" ELSE "idle"]
    /\ monitor = [w \in Workers |-> "none"]
    /\ eng = [w \in Workers |-> "none"]
    /\ todo = {} /\ local = {} /\ looked = {} /\ phase = "no"
    /\ os = [i \in Items |-> "absent"]
    /\ routes = {} /\ resolvers = {} /\ snapshot = "none"
    /\ up = TRUE /\ crashes = 0 /\ lost = {} /\ exposed = {}
    /\ blamed = FALSE

At(t, p) == pc[t] = p
Goto(t, p) == pc' = [pc EXCEPT ![t] = p]
Ours == {i \in Items : os[i] = "ours"}
Others == {i \in Items : os[i] \in {"foreign", "opaque"}}

\* What the helper takes for its own: on file, in hand, or about to be written.
Named == routes \cup resolvers \cup local \cup looked

-----------------------------------------------------------------------------
(* Engines and installed items.                                            *)

\* What is left of o when items are deleted by name, those in failed without
\* success: delete_route_cidr and remove_file are not checked.
Delete(o, items, failed) ==
    [i \in Items |-> IF i \notin items THEN o[i]
                     ELSE IF i \notin failed THEN "absent"
                     ELSE IF o[i] = "ours" THEN "stuck" ELSE o[i]]

\* The clean-up of a list.  If the list cannot be read, nothing is removed.
Deleted(items) == \E failed \in SUBSET items : os' = Delete(os, items, failed)

\* Routes on the TUN interface vanish with it (external: utun).
WithoutTun(o) ==
    [i \in Items |-> IF i \in Tun /\ o[i] \in {"ours", "stuck"} THEN "absent" ELSE o[i]]

\* Mutant of StopEngine: the engine is dropped without being stopped.
StopEngineLeaks(e, v) == e

\* engine.stop(), or nothing when there is none.
StopEngine(e, v) == [w \in Workers |-> IF w = v THEN "stopped" ELSE e[w]]

EngineDies(w) ==
    /\ eng[w] = "live"
    /\ eng' = [eng EXCEPT ![w] = "dead"]
    /\ UNCHANGED <<runtimeVars, op, pc, monitor, workVars, phase, os, fileVars, blamed,
                   lifeVars, lost>>

-----------------------------------------------------------------------------
(* restore_tun_network_after_stop, run by the holder of the lock (or by    *)
(* the server before anyone else runs), one step per state file.           *)

RestoreRest == UNCHANGED <<runtimeVars, op, pc, monitor, eng, workVars, lifeVars>>

\* cleanup_tun_routes
RestoreRoutes ==
    /\ phase = "routes"
    /\ Deleted(routes)
    /\ routes' = {}
    /\ phase' = "resolvers"
    /\ RestoreRest /\ UNCHANGED <<resolvers, snapshot, blamed, lost>>

\* cleanup_scoped_dns_resolvers: by name, whatever the files contain by now.
RestoreResolvers ==
    /\ phase = "resolvers"
    /\ Deleted(resolvers)
    /\ resolvers' = {}
    /\ phase' = "dns"
    /\ RestoreRest /\ UNCHANGED <<routes, snapshot, blamed, lost>>

\* Mutant of RestoreDns: the snapshot is kept.
RestoreDnsKeeps ==
    /\ phase = "dns"
    /\ phase' = "done"
    /\ RestoreRest /\ UNCHANGED <<os, fileVars, blamed, lost>>

\* restore_tun_network_state: set the services' DNS from the snapshot, if
\* there is one, and remove it.
RestoreDns ==
    /\ phase = "dns" /\ snapshot # "cut"
    /\ snapshot' = "none" /\ blamed' = FALSE
    /\ phase' = "done"
    /\ RestoreRest /\ UNCHANGED <<os, routes, resolvers, lost>>

\* It fails, as it must with a truncated snapshot: reset_dns_to_default, as
\* far as that works; the file stays.
RestoreDnsErr ==
    /\ phase = "dns" /\ snapshot # "none"
    /\ blamed' = TRUE
    /\ phase' = "done"
    /\ RestoreRest /\ UNCHANGED <<os, fileVars, lost>>

Restore == RestoreRoutes \/ RestoreResolvers \/ RestoreDns \/ RestoreDnsErr

-----------------------------------------------------------------------------
(* start_tun                                                               *)

Unused == {w \in Workers : pc[w] = "unused"}

\* A connection's thread serves requests until the process ends, also after
\* the main thread has left its loop.
Serves(c) == up /\ ~At(Server, "recover") /\ At(c, "idle")

\* Under the locks of both fields.
start_tun(c) ==
    /\ Serves(c)
    /\ Unused # {}
    /\ ~tun_starting /\ tun_engine = NoEngine
    /\ tun_starting' = TRUE /\ tun_failure' = FALSE
    /\ Goto(c, "accepted")
    /\ UNCHANGED <<tun_engine, shutting_down, op, monitor, eng, workVars, phase, os, fileVars,
                   blamed, lifeVars, lost>>

Spawn(c, w) ==
    /\ At(c, "accepted")
    /\ w \in Unused /\ \A v \in Unused : w <= v
    /\ pc' = [pc EXCEPT ![c] = "idle", ![w] = "lock"]
    /\ UNCHANGED <<runtimeVars, op, monitor, eng, workVars, phase, os, fileVars, blamed,
                   lifeVars, lost>>

\* write_tun_state or the creation of the thread fails: an error for the
\* client, and tun_starting stays set.
SpawnFails(c) ==
    /\ At(c, "accepted")
    /\ Goto(c, "idle")
    /\ UNCHANGED <<runtimeVars, op, monitor, eng, workVars, phase, os, fileVars, blamed,
                   lifeVars, lost>>

-----------------------------------------------------------------------------
(* start_tun_worker                                                        *)

\* Already running: an error.
WorkerLock(w) ==
    /\ At(w, "lock") /\ op = Free
    /\ IF tun_engine = NoEngine
       THEN op' = ThreadId(w) /\ Goto(w, "snapshot")
       ELSE op' = op /\ Goto(w, "failed")
    /\ UNCHANGED <<runtimeVars, monitor, eng, workVars, phase, os, fileVars, blamed,
                   lifeVars, lost>>

\* snapshot_tun_network_state: an existing file is kept, whatever is in it.
\* Otherwise fs::write makes it empty first ...
Snapshot(w) ==
    /\ At(w, "snapshot")
    /\ IF snapshot = "none"
       THEN snapshot' = "cut" /\ Goto(w, "writing")
       ELSE /\ snapshot' = IF snapshot = "cut" THEN "cut" ELSE "old"
            /\ Goto(w, "engine")
    /\ UNCHANGED <<runtimeVars, op, monitor, eng, workVars, phase, os, routes, resolvers,
                   blamed, lifeVars, lost>>

\* ... and fills it then.
SnapshotWritten(w) ==
    /\ At(w, "writing")
    /\ snapshot' = "current"
    /\ Goto(w, "engine")
    /\ UNCHANGED <<runtimeVars, op, monitor, eng, workVars, phase, os, routes, resolvers,
                   blamed, lifeVars, lost>>

\* The settings cannot be read, the snapshot cannot be written, or the
\* configuration cannot be converted: the worker leaves at once, and what
\* there is of a snapshot stays.
WorkerEarlyErr(w) ==
    /\ \/ At(w, "snapshot") /\ snapshot = "none"
       \/ At(w, "writing") \/ At(w, "engine")
    /\ blamed' = (snapshot # "none")
    /\ op' = Free
    /\ Goto(w, "failed")
    /\ UNCHANGED <<runtimeVars, monitor, eng, workVars, phase, os, fileVars, lifeVars,
                   lost>>

\* VpnEngine::start fails: restore_tun_network_state, whose failure is
\* ignored, then cleanup_tun_routes.
EngineErr(w) ==
    /\ At(w, "engine")
    /\ \/ snapshot # "cut" /\ snapshot' = "none" /\ blamed' = FALSE
       \/ snapshot' = snapshot /\ blamed' = TRUE
    /\ Deleted(routes) /\ routes' = {}
    /\ op' = Free
    /\ Goto(w, "failed")
    /\ UNCHANGED <<runtimeVars, monitor, eng, workVars, phase, resolvers, lifeVars, lost>>

\* The engine runs.  setup_managed_tun_routes starts by removing what the
\* state files name; without setup_routes it does nothing.
EngineOk(w) ==
    /\ At(w, "engine")
    /\ eng' = [eng EXCEPT ![w] = "live"]
    /\ local' = {}
    /\ \/ /\ todo' = Items
          /\ Deleted(routes \cup resolvers) /\ routes' = {} /\ resolvers' = {}
          /\ Goto(w, "resolvers")
       \/ /\ todo' = {}
          /\ Goto(w, "publish")
          /\ UNCHANGED <<os, routes, resolvers>>
    /\ UNCHANGED <<runtimeVars, op, monitor, looked, phase, snapshot, blamed, lifeVars, lost>>

\* Mutant of GiveUp: the network is not restored.
GiveUpOnly(w, o) ==
    /\ eng' = StopEngine(eng, w)
    /\ os' = WithoutTun(o)
    /\ todo' = {} /\ local' = {} /\ looked' = {}
    /\ phase' = "done"
    /\ Goto(w, "bad")

\* engine.stop() and restore_tun_network_after_stop, on an error.
GiveUp(w, o) ==
    /\ eng' = StopEngine(eng, w)
    /\ os' = WithoutTun(o)
    /\ todo' = {} /\ local' = {} /\ looked' = {}
    /\ phase' = "routes"
    /\ Goto(w, "bad")

\* The interface's name cannot be discovered.
NoName(w) ==
    /\ At(w, "engine")
    /\ GiveUp(w, os)
    /\ UNCHANGED <<runtimeVars, op, monitor, fileVars, blamed, lifeVars, lost>>

\* Mutant of Keep: another program's resolver file is overwritten.
KeepNone(d) == FALSE

\* A file without our marker (or the contents that older versions wrote)
\* belongs to the user or another VPN, if it can be read as UTF-8; so does one
\* of our own that is cut short, as far as anyone can tell.
Keep(d) == os[d] \in {"foreign", "cut"}

\* configure_scoped_dns_resolvers goes from file to file.  It looks at one; a
\* file with our marker is taken over ...
LookResolver(w, d) ==
    /\ At(w, "resolvers") /\ looked = {} /\ d \in todo \cap Domain
    /\ todo' = todo \ {d}
    /\ looked' = IF Keep(d) THEN {} ELSE {d}
    /\ UNCHANGED <<runtimeVars, op, pc, monitor, eng, local, phase, os, fileVars, blamed,
                   lifeVars, lost>>

\* ... and writes it, whatever has become of it since.
WriteResolver(w, d) ==
    /\ At(w, "resolvers") /\ d \in looked
    /\ looked' = {}
    /\ os' = [os EXCEPT ![d] = "ours"] /\ local' = local \cup {d}
    /\ UNCHANGED <<runtimeVars, op, pc, monitor, eng, todo, phase, fileVars, blamed, lifeVars,
                   lost>>

\* fs::write fails, or the process ends in it: the file may be left empty.
CutShort(o) == {o, [i \in Items |-> IF i \in looked THEN "cut" ELSE o[i]]}

\* Mutant of SaveResolvers: the list is not written.
SaveResolversSkipped(w) ==
    /\ At(w, "resolvers") /\ todo \cap Domain = {} /\ looked = {}
    /\ local' = {}
    /\ Goto(w, "routes")
    /\ UNCHANGED <<runtimeVars, op, monitor, eng, todo, looked, phase, os, fileVars,
                   blamed, lifeVars, lost>>

SaveResolvers(w) ==
    /\ At(w, "resolvers") /\ todo \cap Domain = {} /\ looked = {}
    /\ resolvers' = local
    /\ lost' = lost \ local
    /\ local' = {}
    /\ Goto(w, "routes")
    /\ UNCHANGED <<runtimeVars, op, monitor, eng, todo, looked, phase, os, routes,
                   snapshot, blamed, lifeVars>>

\* add_route_cidr: "File exists" counts as added, also for a route that could
\* not be removed earlier.
AddRoute(w, i) ==
    /\ At(w, "routes") /\ i \in todo
    /\ i \in Node => todo \cap Tun = {}
    /\ todo' = todo \ {i}
    /\ os' = IF os[i] \in {"absent", "stuck"} THEN [os EXCEPT ![i] = "ours"] ELSE os
    /\ local' = local \cup {i}
    /\ UNCHANGED <<runtimeVars, op, pc, monitor, eng, looked, phase, fileVars, blamed, lifeVars,
                   lost>>

\* A node route that cannot be added: only a warning.
AddRouteWarn(w, i) ==
    /\ At(w, "routes") /\ i \in todo \cap Node /\ todo \cap Tun = {}
    /\ todo' = todo \ {i}
    /\ UNCHANGED <<runtimeVars, op, pc, monitor, eng, local, looked, phase, os, fileVars,
                   blamed, lifeVars, lost>>

\* A route on the interface cannot be added: what was added is deleted.
AddRouteErr(w) ==
    /\ At(w, "routes") /\ todo \cap Tun # {}
    /\ \E failed \in SUBSET local : GiveUp(w, Delete(os, local, failed))
    /\ UNCHANGED <<runtimeVars, op, monitor, fileVars, blamed, lifeVars, lost>>

NoRouteYet(w) == At(w, "routes") /\ todo = Tun \cup Node /\ local = {}

\* No default gateway: the node routes are left out.
NoGateway(w) ==
    /\ NoRouteYet(w) /\ Node # {}
    /\ todo' = Tun
    /\ UNCHANGED <<runtimeVars, op, pc, monitor, eng, local, looked, phase, os, fileVars,
                   blamed, lifeVars, lost>>

\* node_route_cidrs fails.
NodesErr(w) ==
    /\ NoRouteYet(w)
    /\ GiveUp(w, os)
    /\ UNCHANGED <<runtimeVars, op, monitor, fileVars, blamed, lifeVars, lost>>

\* /etc/resolver, a file in it or one of the two lists cannot be written:
\* the start is given up with what it has installed unrecorded.
WriteErr(w) ==
    /\ At(w, "resolvers") \/ (At(w, "routes") /\ todo = {})
    /\ \E o \in CutShort(os) : GiveUp(w, o)
    /\ lost' = lost \cup ((local \cap Ours) \ Tun)
    /\ UNCHANGED <<runtimeVars, op, monitor, fileVars, blamed, lifeVars>>

SaveRoutes(w) ==
    /\ At(w, "routes") /\ todo = {}
    /\ routes' = local
    /\ lost' = lost \ local
    /\ local' = {}
    /\ Goto(w, "wait")
    /\ UNCHANGED <<runtimeVars, op, monitor, eng, todo, looked, phase, os, resolvers,
                   snapshot, blamed, lifeVars>>

\* Every managed route leads to the interface.
Ready == \A i \in Tun : os[i] = "ours"

\* wait_for_tun_setup
WaitOk(w) ==
    /\ At(w, "wait")
    /\ Ready
    /\ Goto(w, "publish")
    /\ UNCHANGED <<runtimeVars, op, monitor, eng, workVars, phase, os, fileVars, blamed,
                   lifeVars, lost>>

WaitErr(w) ==
    /\ At(w, "wait")
    /\ GiveUp(w, os)
    /\ UNCHANGED <<runtimeVars, op, monitor, fileVars, blamed, lifeVars, lost>>

WorkerGaveUp(w) ==
    /\ At(w, "bad") /\ phase = "done"
    /\ phase' = "no" /\ op' = Free
    /\ Goto(w, "failed")
    /\ UNCHANGED <<runtimeVars, monitor, eng, workVars, os, fileVars, blamed, lifeVars, lost>>

Publish(w) ==
    /\ At(w, "publish")
    /\ tun_engine' = w
    /\ op' = Free
    /\ Goto(w, "running")
    /\ UNCHANGED <<tun_starting, tun_failure, shutting_down, monitor, eng, workVars, phase, os,
                   fileVars, blamed, lifeVars, lost>>

\* The last write_tun_state fails: an error after the engine is published.
PublishErr(w) ==
    /\ At(w, "publish")
    /\ tun_engine' = w
    /\ op' = Free
    /\ Goto(w, "failed")
    /\ UNCHANGED <<tun_starting, tun_failure, shutting_down, monitor, eng, workVars, phase, os,
                   fileVars, blamed, lifeVars, lost>>

\* Back in the closure of start_tun, without the lock.
StartingDone(w) ==
    /\ At(w, "running") \/ At(w, "failed")
    /\ tun_starting' = FALSE
    /\ Goto(w, IF At(w, "running") THEN "spawn" ELSE "report")
    /\ UNCHANGED <<tun_engine, tun_failure, shutting_down, op, monitor, eng, workVars, phase,
                   os, fileVars, blamed, lifeVars, lost>>

SpawnMonitor(w) ==
    /\ At(w, "spawn")
    /\ monitor' = [monitor EXCEPT ![w] = "sleep"]
    /\ Goto(w, "ended")
    /\ UNCHANGED <<runtimeVars, op, eng, workVars, phase, os, fileVars, blamed, lifeVars, lost>>

\* Without a monitor the worker stops the engine again (stop_tun).
SpawnMonitorFails(w) ==
    /\ At(w, "spawn")
    /\ tun_failure' = TRUE
    /\ Goto(w, "s_lock")
    /\ UNCHANGED <<tun_starting, tun_engine, shutting_down, op, monitor, eng, workVars, phase,
                   os, fileVars, blamed, lifeVars, lost>>

ReportFailure(w) ==
    /\ At(w, "report")
    /\ tun_failure' = TRUE
    /\ Goto(w, "ended")
    /\ UNCHANGED <<tun_starting, tun_engine, shutting_down, op, monitor, eng, workVars, phase,
                   os, fileVars, blamed, lifeVars, lost>>

Setup(w) ==
    \/ \E d \in Domain : LookResolver(w, d) \/ WriteResolver(w, d)
    \/ SaveResolvers(w)
    \/ \E i \in Tun \cup Node : AddRoute(w, i) \/ AddRouteWarn(w, i)
    \/ AddRouteErr(w) \/ NoGateway(w) \/ NodesErr(w) \/ WriteErr(w)
    \/ SaveRoutes(w) \/ WaitOk(w) \/ WaitErr(w)

Worker(w) ==
    \/ WorkerLock(w) \/ Snapshot(w) \/ SnapshotWritten(w) \/ WorkerEarlyErr(w)
    \/ EngineErr(w) \/ EngineOk(w) \/ NoName(w)
    \/ Setup(w) \/ WorkerGaveUp(w) \/ Publish(w) \/ PublishErr(w)
    \/ StartingDone(w) \/ SpawnMonitor(w) \/ SpawnMonitorFails(w) \/ ReportFailure(w)

-----------------------------------------------------------------------------
(* spawn_tun_runtime_monitor.  The monitor looks at tun_engine, whichever  *)
(* engine that is by now.                                                  *)

MGoto(w, p) == monitor' = [monitor EXCEPT ![w] = p]

\* Mutants of MonitorSee: the test of the status is dropped; the monitor
\* leaves after its first look.
MonitorSeeAny(w) ==
    /\ monitor[w] = "sleep" /\ tun_engine # NoEngine
    /\ MGoto(w, "lock")
    /\ UNCHANGED <<runtimeVars, op, pc, eng, workVars, phase, os, fileVars, blamed, lifeVars,
                   lost>>
MonitorSeeOnce(w) ==
    /\ monitor[w] = "sleep" /\ tun_engine # NoEngine
    /\ MGoto(w, IF eng[tun_engine] = "dead" THEN "lock" ELSE "exited")
    /\ UNCHANGED <<runtimeVars, op, pc, eng, workVars, phase, os, fileVars, blamed, lifeVars,
                   lost>>

MonitorSee(w) ==
    /\ monitor[w] = "sleep" /\ tun_engine # NoEngine
    /\ eng[tun_engine] = "dead"
    /\ MGoto(w, "lock")
    /\ UNCHANGED <<runtimeVars, op, pc, eng, workVars, phase, os, fileVars, blamed, lifeVars,
                   lost>>

\* No engine any more, seen while polling or with the lock.
MonitorLeave(w) ==
    /\ monitor[w] = "sleep" \/ (monitor[w] = "lock" /\ op = Free)
    /\ tun_engine = NoEngine
    /\ MGoto(w, "exited")
    /\ UNCHANGED <<runtimeVars, op, pc, eng, workVars, phase, os, fileVars, blamed, lifeVars,
                   lost>>

\* Take the engine and its result, stop it, restore the network.
MonitorTake(w) ==
    /\ monitor[w] = "lock" /\ op = Free
    /\ tun_engine # NoEngine
    /\ op' = MonitorId(w)
    /\ tun_engine' = NoEngine
    /\ MGoto(w, IF eng[tun_engine] = "dead" THEN "failing" ELSE "stopping")
    /\ eng' = StopEngine(eng, tun_engine)
    /\ os' = WithoutTun(os)
    /\ phase' = "routes"
    /\ UNCHANGED <<tun_starting, tun_failure, shutting_down, pc, workVars, fileVars, blamed,
                   lifeVars, lost>>

\* An engine without a result leaves tun_failure alone.
MonitorDone(w) ==
    /\ monitor[w] \in {"failing", "stopping"} /\ phase = "done"
    /\ tun_failure' = (tun_failure \/ monitor[w] = "failing")
    /\ phase' = "no" /\ op' = Free
    /\ MGoto(w, "exited")
    /\ UNCHANGED <<tun_starting, tun_engine, shutting_down, pc, eng, workVars, os, fileVars,
                   blamed, lifeVars, lost>>

Monitor(w) == MonitorSee(w) \/ MonitorLeave(w) \/ MonitorTake(w) \/ MonitorDone(w)

-----------------------------------------------------------------------------
(* stop_tun, by a client, by a worker without a monitor, by the server.    *)

StopRequest(c) ==
    /\ Serves(c)
    /\ Goto(c, "s_lock")
    /\ UNCHANGED <<runtimeVars, op, monitor, eng, workVars, phase, os, fileVars, blamed,
                   lifeVars, lost>>

\* Mutant of StopTake: the network is not restored.
StopTakeOnly(t) ==
    /\ At(t, "s_lock") /\ op = Free
    /\ op' = ThreadId(t)
    /\ tun_failure' = FALSE
    /\ tun_engine' = NoEngine
    /\ eng' = StopEngine(eng, tun_engine)
    /\ os' = WithoutTun(os)
    /\ phase' = "done"
    /\ Goto(t, "s_restore")
    /\ UNCHANGED <<tun_starting, shutting_down, monitor, workVars, fileVars, blamed, lifeVars,
                   lost>>

StopTake(t) ==
    /\ At(t, "s_lock") /\ op = Free
    /\ op' = ThreadId(t)
    /\ tun_failure' = FALSE
    /\ tun_engine' = NoEngine
    /\ eng' = StopEngine(eng, tun_engine)
    /\ os' = WithoutTun(os)
    /\ phase' = "routes"
    /\ Goto(t, "s_restore")
    /\ UNCHANGED <<tun_starting, shutting_down, monitor, workVars, fileVars, blamed, lifeVars,
                   lost>>

\* Where each caller of stop_tun goes on; a client was asked to stop or to
\* shut down.
AfterStop(t) == IF t \in Workers THEN {"ended"}
                ELSE IF t = Server THEN {"exit"} ELSE {"idle", "shutdown"}

\* Mutant of StopDone: the lock is kept.
StopDoneKeepsLock(t) ==
    /\ At(t, "s_restore") /\ phase = "done"
    /\ phase' = "no"
    /\ \E p \in AfterStop(t) : Goto(t, p)
    /\ UNCHANGED <<runtimeVars, op, monitor, eng, workVars, os, fileVars, blamed, lifeVars, lost>>

StopDone(t) ==
    /\ At(t, "s_restore") /\ phase = "done"
    /\ phase' = "no" /\ op' = Free
    /\ \E p \in AfterStop(t) : Goto(t, p)
    /\ UNCHANGED <<runtimeVars, monitor, eng, workVars, os, fileVars, blamed, lifeVars, lost>>

\* HelperCommand::Shutdown after its stop_tun ...
Shutdown(c) ==
    /\ At(c, "shutdown")
    /\ shutting_down' = TRUE
    /\ Goto(c, "idle")
    /\ UNCHANGED <<tun_starting, tun_engine, tun_failure, op, monitor, eng, workVars, phase, os,
                   fileVars, blamed, lifeVars, lost>>

\* ... and serve leaving its loop, to stop once more.
ServeEnds ==
    /\ At(Server, "accept") /\ shutting_down
    /\ Goto(Server, "s_lock")
    /\ UNCHANGED <<runtimeVars, op, monitor, eng, workVars, phase, os, fileVars, blamed,
                   lifeVars, lost>>

-----------------------------------------------------------------------------
(* The end of the process and its next start.                              *)

\* Memory is gone, and the interface with it.
Die ==
    /\ up' = FALSE
    /\ tun_starting' = FALSE /\ tun_engine' = NoEngine /\ tun_failure' = FALSE
    /\ shutting_down' = FALSE
    /\ op' = Free /\ todo' = {} /\ local' = {} /\ looked' = {} /\ phase' = "no"
    /\ pc' = [t \in Threads |-> IF t \in Workers
                                THEN IF pc[t] = "unused" THEN "unused" ELSE "ended"
                                ELSE IF t = Server THEN "down" ELSE "idle"]
    /\ monitor' = [w \in Workers |-> "none"]
    /\ eng' = [w \in Workers |-> IF eng[w] = "none" THEN "none" ELSE "stopped"]
    /\ \E o \in CutShort(os) : os' = WithoutTun(o)
    /\ lost' = lost \cup (Ours \ (Tun \cup routes \cup resolvers))
    /\ blamed' = (blamed \/ \E w \in Workers : At(w, "writing"))
    /\ UNCHANGED <<fileVars, exposed>>

Crash ==
    /\ up /\ crashes < MaxCrashes
    /\ crashes' = crashes + 1
    /\ Die

\* serve returns: the process ends, whatever its other threads are doing.
Exit ==
    /\ At(Server, "exit")
    /\ Die
    /\ UNCHANGED crashes

\* recover_tun_leftovers, before the first client is accepted.  Without any
\* state file the restoration would find nothing to do.
Recover ==
    /\ ~up
    /\ up' = TRUE
    /\ Goto(Server, "recover")
    /\ phase' = "routes"
    /\ UNCHANGED <<runtimeVars, op, monitor, eng, workVars, os, fileVars, blamed, crashes,
                   exposed, lost>>

RecoverDone ==
    /\ At(Server, "recover") /\ phase = "done"
    /\ phase' = "no"
    /\ Goto(Server, "accept")
    /\ UNCHANGED <<runtimeVars, op, monitor, eng, workVars, os, fileVars, blamed, lifeVars, lost>>

\* Another program or the user makes an item, at any time: a route where there
\* is none (any more), or a resolver file, whatever it replaces.
OtherMakes(i) ==
    /\ i \in Foreign /\ i \notin Others
    /\ \E v \in {"foreign"} \cup (IF i \in Domain THEN {"opaque"} ELSE {}) :
           os' = [os EXCEPT ![i] = v]
    /\ exposed' = IF i \in Named THEN exposed \cup {i} ELSE exposed \ {i}
    /\ UNCHANGED <<runtimeVars, op, pc, monitor, eng, workVars, phase, fileVars, blamed, up,
                   crashes, lost>>

Stopping(t) == StopTake(t) \/ StopDone(t)

Client(c) ==
    \/ SpawnFails(c) \/ \E w \in Workers : Spawn(c, w)
    \/ Stopping(c) \/ Shutdown(c)

Serving == Stopping(Server) \/ ServeEnds \/ Exit \/ RecoverDone

\* What the helper's threads do by themselves.
ThreadStep ==
    \/ \E c \in Clients : Client(c)
    \/ \E w \in Workers : Worker(w) \/ Stopping(w) \/ Monitor(w)
    \/ Serving \/ Restore

Next ==
    \/ ThreadStep
    \/ \E c \in Clients : start_tun(c) \/ StopRequest(c)
    \/ \E w \in Workers : EngineDies(w)
    \/ Crash \/ Recover
    \/ \E i \in Items : OtherMakes(i)

Spec == Init /\ [][Next]_vars

\* As long as some thread can run, one does; which one is up to the
\* scheduler and the unfair mutex.  Nothing makes a request, a failure or a
\* crash happen, nor launchd start the process again.
Fairness == WF_vars(ThreadStep)

FairSpec == Spec /\ Fairness

-----------------------------------------------------------------------------
\* Where a client, the server or a worker can be.
Points == {"idle", "accepted", "s_lock", "s_restore", "shutdown",
           "accept", "recover", "exit", "down",
           "unused", "lock", "snapshot", "writing", "engine", "resolvers", "routes", "wait",
           "bad", "failed", "publish", "running", "spawn", "report", "ended"}

\* The values the variables range over.
TypeOK ==
    /\ tun_starting \in BOOLEAN /\ tun_failure \in BOOLEAN /\ shutting_down \in BOOLEAN
    /\ tun_engine \in Workers \cup {NoEngine}
    /\ op \in {Free} \cup {ThreadId(t) : t \in Threads} \cup {MonitorId(w) : w \in Workers}
    /\ pc \in [Threads -> Points]
    /\ monitor \in [Workers -> {"none", "sleep", "lock", "failing", "stopping", "exited"}]
    /\ eng \in [Workers -> {"none", "live", "dead", "stopped"}]
    /\ todo \subseteq Items /\ local \subseteq Items /\ looked \subseteq Domain
    /\ phase \in {"no", "routes", "resolvers", "dns", "done"}
    /\ os \in [Items -> OsValues]
    /\ routes \subseteq Tun \cup Node /\ resolvers \subseteq Domain
    /\ snapshot \in {"none", "current", "old", "cut"} /\ blamed \in BOOLEAN
    /\ up \in BOOLEAN /\ crashes \in Nat /\ lost \subseteq Items /\ exposed \subseteq Items

Recovering == ~up \/ At(Server, "recover")

\* Whenever no operation is in progress, what the helper installed is in the
\* state files, and gone if there is no engine, except for what a process
\* that ended or a failed write left unrecorded: no path out of a start, a
\* stop, an engine failure or a recovery forgets an item.
Accounted ==
    op = Free /\ ~Recovering =>
        Ours \subseteq (IF tun_engine = NoEngine THEN {} ELSE routes \cup resolvers) \cup lost

\* Something is left unrecorded only if the process ends, or a file cannot be
\* written, while a start is setting up resolvers and routes; in particular
\* not while the network is restored, nor while the VPN is up.
OrphansOnlyMidSetup ==
    [][~(lost' \subseteq lost) => \E w \in Workers : pc[w] \in {"resolvers", "routes"}]_vars

\* A resolver file of the user or of another VPN "must survive
\* connect/disconnect", crashes and recovery included, whether it was made
\* before or after the VPN came up.  There are two exceptions: a file that is
\* not UTF-8 cannot be read and counts as none ("opaque"), and one written over
\* a file of ours, or just as ours is written, shares its name and is replaced
\* or removed with it ("exposed").
ForeignResolversKept ==
    [][\A d \in Domain : os[d] = "foreign" /\ d \notin exposed => os'[d] = "foreign"]_vars

Alive(w) == eng[w] \in {"live", "dead"}

\* At most one engine exists, although tun_starting is reset outside the
\* lock and monitors take whichever engine they find.
OneEngine == \A v, w \in Workers : Alive(v) /\ Alive(w) => v = w

\* A running VPN goes back to what the latest start found, unless an error, or
\* the end of the process while the snapshot was written, left an older or a
\* truncated file in place: successful stops, failures of the engine, other
\* crashes and recoveries do not.
SnapshotFresh ==
    /\ tun_engine # NoEngine => snapshot = "current" \/ (snapshot # "none" /\ blamed)
    /\ snapshot \in {"old", "cut"} => blamed \/ \E w \in Workers : At(w, "writing")

\* A healthy engine is taken away only by stop_tun, by the end of the process,
\* or by the monitor of an earlier engine that had failed; never by its own.
HealthyEngineKept ==
    [][tun_engine # NoEngine /\ tun_engine' = NoEngine /\ up' =>
          \/ eng[tun_engine] # "live"
          \/ \E t \in Threads : op' = ThreadId(t)
          \/ \E w \in Workers : w < tun_engine /\ op' = MonitorId(w)]_vars

\* The helper as an owner of what it installs: no operation is in progress
\* while the lock is free and no recovery runs, and the VPN is on while
\* there is a tun_engine.
LeaseMode ==
    IF ~up THEN "down"
    ELSE IF op = Free /\ ~Recovering THEN IF tun_engine = NoEngine THEN "off" ELSE "on"
    ELSE IF \E w \in Workers : pc[w] \in {"resolvers", "routes"} THEN "setup" ELSE "busy"

Lease == INSTANCE NetworkLease
            WITH mode <- LeaseMode, ours <- Ours, others <- Others, Volatile <- Tun

\* HelperRuntime keeps the promise of NetworkLease: routes and resolver files
\* come only with a setup that has cleaned up first, and whatever fails or
\* dies, a helper that is off has given everything back.
LeaseKept == Lease!Spec

DeadAndWatched ==
    tun_engine # NoEngine /\ eng[tun_engine] = "dead" /\ monitor[tun_engine] # "none"

\* A published engine that failed is retired, if its monitor could be
\* started (PublishErr leaves an engine nobody watches).
DeadEngineRetired ==
    DeadAndWatched ~> ~DeadAndWatched

\* Every operation under tun_operation, by whichever thread and on whichever
\* path, comes to its end and lets the next one in.
OperationsEnd == op # Free ~> op = Free

-----------------------------------------------------------------------------
\* "Only routes recorded in the state file are ours to remove", so that the
\* helper does not "tear down another tool's" routes: a route made by another
\* program stays, if it was not made in the place of one of ours.
ForeignRoutesKept ==
    [][\A i \in Tun \cup Node :
           os[i] = "foreign" /\ i \notin exposed => os'[i] = "foreign"]_vars
=============================================================================
