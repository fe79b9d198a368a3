# A TLA+ model of nulconnect-helper

nulconnect-helper is the privileged helper of a VPN client. It opens a TUN
device, moves packets between the device and a tunnel, translates TCP and UDP
connections of the device into proxied tunnels, answers DNS queries with fake
addresses, and installs and removes routes and DNS settings on Windows and
macOS. This directory holds TLA+ modules that model its parts, TLC
configurations that check them on small instances, and TLAPS proofs of the
properties that matter most for every value of the constants.

## 1. Inventory

| Part | State it keeps | Operations | What makes it correct |
|---|---|---|---|
| Fake-IP DNS, `fake_dns.rs` | pool (`slots`, `by_domain`, `next`), stop flag, forwards in flight | `allocate`, `domain_for`, `decide`, `serve`, `forward`, `stop` | both indexes agree; an address keeps its meaning for a full round of the pool from its allocation; the forward limit is exact; `stop` returns |
| VPN engine, `vpn_engine.rs` | `close`, `result`, device, tunnel, worker handles | `start_l3_vpn_engine`, uplink worker, downlink worker, `fail_engine`, `status`, `take_result`, `stop`, drop | the reported failure is the cause; failures are noticed; `stop` returns and leaves no thread; a start that fails half-way undoes what it did |
| TUN stack, TCP flows, `tun_stack.rs` | sockets, `TcpFlow` records, two channels per flow, three threads per flow | `process_tcp`, `deliver_download`, reader, writer, connect, close | no byte lost, repeated or reordered; FIN last; no stall; no thread or flow left over |
| TUN stack, wake-ups, listeners, UDP | `StackWaker.armed`, the socket set, listeners with idle times, TCP and UDP flow tables, UDP flows with their threads | `wake`, `rearm`, `sweep_idle_listeners`, `ensure_*_listener`, `process_udp` | announced work is handled; handles, which come back, never refer to another destination's socket; a listener is there for the next connection; dead flows and their threads go |
| Windows runtime, `platform/windows_ipc.rs` | `TunState`, `generation`, the `operation` lock, the record file | `begin_start`, `start_worker`, `spawn_monitor`, `stop`, `cleanup_leftovers` | everything installed is owned by someone who will remove it, and recorded for the next process; one engine at a time; stops return |
| Windows pipe server, `platform/windows_ipc.rs` | accept loop, one thread per client | `serve`, `serve_client`, `handle_request`, `wake_server` | requests of several clients interleave only at the locks |
| Windows routes, NRPT and adapter, `platform/windows_net.rs`, `platform/windows.rs` | what the operating system has installed | `add_route`, `delete_route`, `apply_nrpt`, `clear_nrpt` | foreign routes are left alone; a removal may fail |
| Windows service host, `platform/windows_service_host.rs` | service status | `run_service`, install, uninstall | clean-up comes before serving |
| macOS helper, `platform/macos/helper_main.rs` | `HelperRuntime`, snapshot and state files, routes, scoped resolvers | `start_tun`, `start_tun_worker`, monitor, `stop_tun`, `recover_tun_leftovers` | the user's DNS and routes come back after stop, failure and crash |
| macOS system proxy, the same file | proxy settings, snapshot file | `set_system_proxy`, `restore_system_proxy` | the snapshot is of the user's settings, never of the helper's own; what the user had in force comes back |
| Logging, errors, entry points | none of interest | | |

How they interact. A client process talks to the helper over a named pipe or a
Unix socket; every client has a thread, so its requests meet those of other
clients at the locks. `start_tun` is answered at once and carried out by a
thread of its own, which starts a `VpnEngine`, installs the network plan and
publishes both; from then on a monitor thread polls the engine's status every
second. The engine owns two workers, the protocol stack's thread and the DNS
server's thread. The stack gives each TCP flow a connect, a reader and a writer
thread, which talk to it through bounded channels and a shared `closed` flag.

What is hard. Starts, stops, clean-ups, engine failures and the service's
shutdown run concurrently. Whether a start is still wanted is decided by a
generation counter that is read outside the state lock. Routes survive the
process, so a crash between two steps matters. The end of a TCP connection is
spread over four threads, two bounded queues and two bounded socket buffers.
An engine is stopped while its workers fail on their own. The hazards, each at
its line, are listed under `hazards` in PROJECT.json.

## 2. Modules

| Module | Models | Checked by |
|---|---|---|
| `FakeDns` | `FakeIpPool`, `decide`, `serve`, forward threads, `FakeDnsServer::stop` | run `fakedns`, proofs in `FakeDnsProofs` |
| `EngineLife` | what an engine promises to its owner (abstract) | refined by `VpnEngine` |
| `VpnEngine` | `start_l3_vpn_engine` and what its errors drop, both workers, `fail_engine`, `cancel`, `join_workers`, `take_result`, drop | run `engine`, proofs in `VpnEngineProofs` |
| `TcpFlow` | one TCP flow: `process_tcp`, `deliver_download`, its threads, close | runs `tcp`, `tcp_tail`, proofs in `TcpFlowProofs` |
| `StackTables` | the tables of `run_transport_stack`: sockets, listeners, TCP and UDP flows, accept, reaping, sweep | run `tables`, proofs in `StackTablesProofs` |
| `UdpFlow` | one UDP flow: `process_udp`, its connect, reader and writer threads, the event channel and `StackWaker` | run `udp`, proofs in `UdpFlowProofs` |
| `WinRuntime` | `WindowsRuntime` with start workers, monitors, the record file, crash and restart | runs `win_*`, proofs in `WinRuntimeProofs` |
| `MacHelper` | `HelperRuntime` of macOS: start workers, monitors, stop, shutdown, the three state files, crash and recovery | runs `mac`, `mac_liveness`, `mac_foreign_route`, proofs in `MacHelperProofs` |
| `SystemProxy` | `set_system_proxy`, `restore_system_proxy` and the snapshot file | run `proxy`, proofs in `SystemProxyProofs` |
| `NetworkLease` | what a helper promises about the items it installs (abstract) | refined by `WinRuntime` and `MacHelper` |
| `MCFakeDns`, `MCVpnEngine`, `MCTcpFlow`, `MCStackTables`, `MCUdpFlow`, `MCWinRuntime`, `MCMacHelper`, `MCSystemProxy` | instances for TLC | |

In every module the variables bear the names of the fields they stand for; an
action is a handler or the part of one between two points at which another
thread can interfere (a lock, a channel, an atomic, a call that blocks). Steps
taken under a lock are merged only when neither another thread nor a crash can
tell them apart. Definitions called "mutant of X" are faulty variants of X,
used to show that a property notices the fault; no specification uses them.

**FakeDns.** An address is its slot. A name is a domain plus a spelling, and
`normalize` forgets the spelling. `decide` chooses between a fake address, a
local answer without one, and forwarding. Forwarding increments `inflight` when
it is below the limit and starts a thread, which decrements it; `stop` sets the
flag and joins. `allocs`, `born` and `answers` are history: an address is born
when its domain is allocated, and answering for the domain again does not renew
it. The DNS wire format is abstracted to a question with name, type and class.

**VpnEngine.** Each worker is a process with the points of its loop. An error
is "root" if it is a failure of its own, "echo" if it only reports that
somebody closed the tunnel. `fail_engine` takes three steps (publish, set
`close`, close the tunnel), in the order given by `FailOrder`, so that the peer
and the owner can come in between. The owner is one process because every call
that starts or ends an engine is made under the helper's `operation` lock. Its
first steps are those of `start_l3_vpn_engine`: DNS server, stack, uplink,
downlink, the finished engine. Each may fail, and then the values made so far
are dropped in reverse order (`UndoFrom`), which stops the stack and the DNS
server, except that the uplink worker keeps the stack alive. A blocked
device read ends by an interrupt (Unix) or a timeout (Windows), as the initial
state chooses.

**TcpFlow.** The stack's loop is a process whose pass over the flow has the
points poll, connect, upload, download and finish. The smoltcp socket is
modelled by its states, its two buffers and the fact that segments leave only
in a poll. Data are numbered units, so that "in order, once" is an equation
between sequences. The TUN link is taken to be at its best (nothing lost,
acknowledged at once), so that what goes wrong is the code's own doing. The
thread that closes a flow's tunnel may fail to start, which the code ignores:
then the tunnel is never closed.

**StackTables.** The loop's thread owns all tables, so nothing interleaves within
a pass; what is hard is the order of passes, packets and timeouts. Socket
handles are indexes, and a freed one is given out again. `took` is the history
of destinations a UDP flow has taken datagrams for.

**UdpFlow.** Datagrams are numbered, `wrote` and `heard` are the last ones that
reached the tunnel and the application. `wake` is two steps, the swap of `armed`
and the sending of the event, because the loop's `rearm` can come in between;
the threads of all other flows are one process that wakes the loop. Being idle
for too long is a flag that the clock sets and traffic resets.

**SystemProxy.** Each connection is a process; no lock orders them. A request
lists the services, reads or makes the snapshot, writes the file (empty first,
then whole, since `fs::write` truncates), and changes one service after another.
The settings of a service are one of four values: the user's; the user's except
for values that are switched off, which a restore does not write back ("worn");
the user's without auto-discovery, which was not readable when the snapshot was
made ("less"); or the helper's, as long as any setting in force is. Any command
may fail, the process may die at any step, and a service may be unplugged and
come back. `raced`, `missed`, `unread` and `again` are history: a set overlapped
another request, a restore passed over a service that was not listed,
auto-discovery could not be read, and a file that was there is being rewritten.

**WinRuntime.** Three kinds of processes: clients (request threads and the
service's shutdown), start workers, monitors. `os` says for every item of the
network plan whether it is absent, ours, another program's, or one of ours that
could not be removed ("stuck"); `record` is the file; `local` is the `network`
value in the hands of the lock holder. Every removal may fail, and other
programs make routes like the bypass routes at any time (`OtherInstalls`).
`exposed` is the history of those made where the helper still named a route of
its own. An engine is live, dead or stopped, as `EngineLife` promises: it dies by
itself, it is stopped by its owner, and dropping the last reference stops it. A
crash loses everything but `os` (without the tunnel routes) and `record`.

**MacHelper.** Clients handle requests, the server is the main thread (recovery,
accept loop, the last stop before the process ends), workers are the start
threads and bear the name of their engine, and each may leave a monitor. `op` is
the holder of `tun_operation`. `phase` is the holder's point in
`restore_tun_network_after_stop`, one step per state file, because the process can
die between two of them. `todo` and `local` are what a start has still to
install, and has installed without having saved it; `looked` is the resolver file
that has been looked at and is about to be written. `os` says who made each route
and resolver file: the helper, another program (readably or not as UTF-8), the
helper with the writing cut short, or the helper although the system would not
remove it ("stuck"). Other programs make items at any time (`OtherMakes`), and
`exposed` is as for `WinRuntime`. `routes`, `resolvers` and `snapshot` are the
state files. The DNS snapshot is written in two steps, empty and then whole; it
is missing, what the latest start found, something older, or cut. Removals,
writes and the reading of a list may fail. `lost` and `blamed` are history: what
was left unrecorded, and whether an error, or the end of the process in the
middle of writing it, has left a snapshot in place. Unlike on Windows there is no
generation counter: a stop does not cancel a start that waits for the lock.

**NetworkLease.** The promise that both runtimes keep, in four variables: the
mode of the helper (off, on, setting up, busy with another operation, without a
process), the installed items of ours, the items of other programs, and those of
ours that no state file names. Items come only in a setup, which begins with
nothing left of an earlier one; an operation ends "off" with everything taken
back or "on" with everything on file; a death of the process costs items only in
the middle of a setup, and the next process is "off" only after it has taken back
all the others. "Taken back" means that the helper has tried: an item that the
system refuses to remove no longer counts as ours. The helper adds nothing to the
items of others; a clean-up may hit what another program has put in the place of
an item. Both detailed modules define `LeaseMode` from the holder of their lock
and its program point, and state `LeaseKept`, the instance of `NetworkLease` under
that mapping. What the abstract module has to allow shows where the promise is
weaker than one would like; section 4 names it.

## 3. Runs

| Run | Shows |
|---|---|
| `fakedns` | With wrap-around and more queries than forward slots: indexes agree, an address holds for a round from its allocation, the limit is exact, stop returns. |
| `engine` | A start that may fail at each part, then every interleaving of two workers, an owner and two more threads: the reported failure is the cause (`RootCauseReported`), nothing runs after a stop, and after a failed start at most the uplink and the stack (`StopLeavesNothing`), stops and failed starts return (`EngineStops`), failures are noticed (`FailureNoticed`), and the engine implements `EngineLife` (`KeepsPromise`). |
| `tcp` | Uploads and downloads arrive in order and once while the flow is served, through full channels, partial writes and a closed window, and `upload_pending` is exact (`StreamsIntact`); FIN comes after all data, and before the flow is dropped when the tunnel ends first (`FinInOrder`); no direction stalls (`StreamsFlow`); no thread outlives its flow unless the tunnel could not be closed (`ThreadsEnd`); an abandoned flow is dropped unless the tunnel ended first. |
| `tcp_tail` (violation) | Finding 1. |
| `tables` | With handles that are used again: the tables agree on every handle (`HandlesAgree`), no datagram enters another destination's tunnel (`RightTunnel`), a connection request finds a listener (`SynServed`). |
| `udp` | Neither direction reorders or repeats; the loop sleeps over announced work only while `armed` is left set, and handles it all the same; dead flows are reaped; no thread outlives its flow, and the loop ends after `stop`. |
| `win_safety` | Two clients, two starts, two stops, a crash, failing removals, and another program's routes at any time: what is installed stays owned and recorded, a crash orphans a route only during an installation; a foreign route is kept unless the helper named one of its own when it was made (`ForeignRoutesKept`); the runtime implements `NetworkLease` (`LeaseKept`). |
| `win_liveness` | Stops return, a dead published engine is retired, and no engine outlives the stop that cancelled it. |
| `mac` | Two starts, any number of stops, shutdown and restart, a crash, engine failures, each failure of a start or a removal, and other programs' resolver files at any time: an installed item goes unrecorded only in the middle of a setup (`OrphansOnlyMidSetup`); readable resolver files of others survive unless they take the place of one of ours; a VPN goes back to a fresh DNS snapshot unless an error or a crash left another (`SnapshotFresh`); one engine at a time, taken away when healthy only by a stop or by the late monitor of a failed one; the helper implements `NetworkLease` (`LeaseKept`). |
| `mac_liveness` | With routes on the interface and through the gateway: whenever the lock is free, every installed item is in the state files of a running VPN, or is known to be lost (`Accounted`). A failed engine is retired, and every operation under the lock ends, under the weakest fairness (see below). |
| `mac_foreign_route` (violation) | Finding 2. |
| `proxy` | Three connections, two services, failures and crashes everywhere: a service has the settings in force that the user had, or they can be restored, unless a set overlapped another request, a restore passed over the service, or the rewriting of the snapshot was cut short (`OriginalsKept`). |

The type invariants, which for `TcpFlow` and `UdpFlow` hold the bounds of the
queues, `OldestReplaced` and `FlowLimit` are proved instead of being checked by a
run. Several properties name exactly what the code does not guarantee; section 4
lists these exceptions.

### Bounds

* `fakedns`: a pool of 3, four managed domains and six allocations give two full
  rounds, so every slot is replaced; two forwards in flight reach the limit.
* `engine`: no bounds; the state space is complete.
* `tcp`: socket buffers and the window hold one unit, channels two chunks, and a
  chunk has one or two units, so every write can be partial. Three units, divided
  between the two directions in every way, fill each place: the gate closes with
  a unit left in the socket, the reader waits with two chunks queued. A writer
  can also fail while the gate is open. The proofs remove these bounds for the
  safety properties. `tcp_tail` needs channels of one chunk only.
* `tables`: two UDP destinations and a TCP one compete for handles, two sources
  share a listener, and two flows and two connections fill the tables; the
  proofs remove these bounds.
* `udp`: queues of one datagram and two datagrams each way, so both queues
  overflow; the clock, the other flows and the end of the tunnel are unbounded.
  As for `tcp`, the proofs remove the bounds for the safety properties.
* `win_*`: two starts and two stops are needed to have one start overtaken by a
  stop and by another start; one route of each kind and the NRPT rule give each
  kind of failure, and the bypass route may be another program's; the proofs remove these bounds for the safety properties.
* `mac`: the second start is needed for a monitor that comes late, an old
  snapshot and an item left over; a route of the interface and a resolver file,
  which may be another program's, are enough for its properties; one request
  thread is enough, since workers, the server and monitors contend with it; stops
  and shutdowns are not bounded. `mac_liveness` has a gateway route, which
  outlives the interface, in the place of the resolver file: `Accounted` is
  about routes there, and resolver files only add steps to an operation, none of
  which waits. The proofs remove these bounds for the safety properties, with
  items of all kinds together.
  `mac_foreign_route`: one start suffices.
* `proxy`: two services make a half-done request, and with three connections
  restores overlap in every way. The constraint `BeforeRaces` ends a behaviour
  where a set overlaps another request, since from there on the property promises
  nothing; the proofs go on. Nothing else is bounded, and deadlock is checked.

Deadlock is not checked where the system may stop for good: an engine that
has ended, a finished flow, or a bound on starts, datagrams or connections that
is used up. That nothing
waits for ever there is stated by the liveness properties instead.

### Fairness

Threads that can take a step eventually do (weak fairness per thread). Beyond
that: `recv_from` of the DNS server has a read timeout; the stack's loop wakes
up at least every 250 ms (`MAX_IDLE_WAIT`); the monitor polls every second; a
closed or broken tunnel fails its reads and writes; an interrupted or timed
device read returns; a connection attempt ends; a start goes on until it returns;
the application reads what it is sent. For the closing of a tunnel the fairness
is that handing it to a thread is attempted, which may fail. `MacHelper`
assumes less: as long as some thread can run, one does (`Fairness`), since a
mutex is not fair and a client may ask for stops for ever. No fairness
makes a request, a packet, a failure, a crash or the end of a tunnel happen.

## 4. Findings

1. `tcp_tail`, `tun_stack.rs:829`. When the application has already closed its
   sending side, `close()` takes the socket from CloseWait to LastAck, the flow
   counts as finished in the same pass, and the socket is removed with data and
   FIN in its send buffer. The comment at 796-798 says no byte is lost and the
   socket is closed with a FIN.
2. `mac_foreign_route`, `helper_main.rs:1245`. `add_route_cidr` counts "File
   exists" as success, so another program's route is recorded as installed and
   the next clean-up deletes it, although the comment at 908-910 explains that
   only recorded routes are removed so that another tool's routes survive. A
   route on the interface is hit as well: the setup times out because the route
   leads elsewhere, and the restoration that follows deletes it. A readable
   resolver file that is there before the start is kept (`ForeignResolversKept`).

What the passing properties leave out on purpose, because the code does not
guarantee it:

* An address that is answered again (`AnswersHold`, `fake_dns.rs:89-91`). The
  round counts from the allocation: `allocate` returns an existing slot without
  renewing it, so the address may be replaced by the very next allocation.
* A tunnel that cannot be closed (`ThreadsEnd`, `tun_stack.rs:470`).
  `close_in_background` ignores that its thread was not created: the tunnel stays
  open, and the flow's reader may wait in it for ever.
* Half-open connections (`AbandonedDropped`, `tun_stack.rs:741`). If the tunnel
  connects and ends before the application has completed the handshake,
  `close()` takes the socket from SynReceived to FinWait1, where the handshake
  timeout no longer applies.
* Late work (`SleepsOverWorkOnlyArmed`, `tun_stack.rs:375`). A wake queued after
  `rearm` and drained in the same pass leaves `armed` set, so the next wake is
  not sent and its work waits for the end of the idle wait.
* A failed start of the engine (`StopLeavesNothing`, `vpn_engine.rs:292`). When
  the downlink worker cannot be created, the uplink worker and the stack run on,
  and nobody holds a handle to stop them.
* Two engines on Windows (`windows_ipc.rs:255`). The generation is read after
  the state lock is released, so a start overtaken by a stop can begin while a
  newer engine runs. What survives is in `win_safety` and `win_liveness`: the
  routes stay owned, and the older engine is stopped.
* A crash while routes are being installed (`CrashOrphansOnlyMidInstall`,
  `windows_ipc.rs:363`; `OrphansOnlyMidSetup` on macOS). The record is written
  after the whole plan, so this is the one window that leaves routes unrecorded.
* A late clean-up (`NetworkLease`'s `Sweep`, `windows_ipc.rs:801-805`). `cleanup`
  stops and then calls `cleanup_leftovers` with the lock released in between, so
  it takes the routes of a VPN that came up meanwhile; the VPN stays "on"
  without them.
* A failing start beside a running VPN (`EndClean` may end "on"). Of the two
  engines above, the older start begins with a clean-up, which takes the routes
  of the newer, published one; if it then gives up, the VPN is on without them.
* Failed removals (`NetworkLease`, `windows_net.rs:193`, `helper_main.rs:913-920`,
  1198 and 1256). The clean-ups ignore them, and a list that cannot be read, and
  drop the record all the same. What the system refuses to remove ("stuck" in
  `os`) stays for good, and no property counts it as ours any more. So "taken
  back" and "forgets nothing" mean that each item has been tried.
* Routes made where the helper names one of its own (`ForeignRoutesKept` of
  `WinRuntime`). If a route of the running VPN goes and another program makes the
  same one, or if it makes one that the record of an aborted or cancelled start
  still names (`windows_ipc.rs:366-378`), the next clean-up deletes it.
* Resolver files of others (`ForeignResolversKept`). A file that is not UTF-8 cannot
  be read, counts as missing and is overwritten (`helper_main.rs:1157`). A file
  written over ours, or between the look and the write, is replaced or removed by
  name, without a test of the marker (1198). And a file of ours whose writing was
  cut short lacks the marker: the next start takes it for another program's and
  keeps it.
* A spoiled DNS snapshot (`SnapshotFresh`, `helper_main.rs:847`). If its writing
  fails or the process ends in between, an empty or truncated file is left. Every
  later start keeps it because it exists (820), and no restoration can parse or
  remove it (865): `blamed`.
* Overlapping proxy requests (`OriginalsKept`, `helper_main.rs:1695`). A second
  set takes its snapshot of settings the first has changed, or a restore removes
  the file a set has just read. A restore also forgets a service that is not
  listed while it runs.
* A proxy snapshot spoiled while it is rewritten (`Spoiled`, `helper_main.rs:1882`).
  A service that appears while the proxy is on makes the next set rewrite the
  file; if that is cut short, the settings of all services are lost. A first
  writing cut short loses nothing, but every later set and restore fails on the
  file.
* Proxy settings that are not in force (`OriginalsKept`, `helper_main.rs:1904-1909`
  and 1839-1840). A restore writes the server and port of a proxy back only if it
  was on, and an automatic configuration without a URL only as off, so that the
  helper's own values stay behind, switched off ("worn"). Auto-discovery that
  cannot be read is recorded as off (1966) and stays off ("less").

Some steps the models contain are questionable but contradict no statement in
the repository, so no property judges them; they are listed under `hazards` with
a note. On macOS: a start whose first `write_tun_state` fails leaves
`tun_starting` set for good; a failed last `write_tun_state` leaves a running
engine without a monitor; a late failure report hides a newer engine; a stop
answered before the start worker has the lock does not cancel the start.

## 5. Proofs

TLAPS checks all of these for every value of the constants, from the named
assumptions of the modules alone (a pool of at least one slot, natural-number
limits, sizes of channels and buffers above zero, finite sets of destinations
and sources, the kinds of items and of destinations being disjoint). Every
safety property that a passing run checks is proved, so are the type
invariants of all eight detailed modules, and so are the three refinements. Each module of proofs is built on an
inductive invariant, a conjunction of named parts, which TLC checked on the
instance of the module's run before it was proved.

* **`FakeDnsProofs`**: types, `IndexesAgree`, `AnswersHold`, `OldestReplaced`,
  `InflightExact`, for any pool size and limit. `AnswersHold` is not inductive:
  `PoolInv` adds `AgeOrder`, which says where in the ring each allocation
  is, and `AnswerAge`, by which an answer is current or more than a round old.
  `InflightExact` follows from a cardinality argument of its own.
* **`VpnEngineProofs`**: types, `RootCauseReported`, `StopLeavesNothing`, and
  `Spec => KeepsPromise`, the refinement of `EngineLife`. `EngineInv` adds that
  `close` and a closed tunnel follow a published result until the owner cancels
  (`FailureInv`), how far the owner's shutdown has come (`OwnerInv`), and which
  threads a start has created or taken back at each of its points (`StartInv`).
  The refinement proof shows that every step is a step of `EngineLife` or a
  stutter.
* **`StackTablesProofs`**: types, `HandlesAgree`, `RightTunnel`, `SynServed` and
  `FlowLimit`. `TableInv` is the conjunction of the first three with `KindInv`:
  the listener of a flow's destination is one for its protocol. The limit needs
  that the set of flows is finite and grows by at most one (`LiveGrows`).
* **`SystemProxyProofs`**: types and `OriginalsKept`. `ProxyInv` adds what a
  request holds at each of its points as long as no set overlapped another
  request: the snapshot in its hands covers everything that is not in force as
  the user had it (`SetInv`, `RestoreInv`), a snapshot never records the helper's
  own settings (`Honest`, `Fair`), and a set is alone (`Alone`).
  `WrittenBackOriginal` says that writing a fair record back puts the user's
  settings in force. There is one lemma per action.
* **`WinRuntimeProofs`**: types, `InstalledIsOwned`, `RecordCovers`,
  `CrashOrphansOnlyMidInstall` and `ForeignRoutesKept`, for any clients, routes
  and bounds. The invariants are not inductive, since the lock holder breaks
  the second on purpose. `OwnInv` adds which program points hold the lock
  (`LockInv`), where the installed items are at each of them (`PlaceInv`), and
  what a crashed process leaves (`DownInv`). `PlaceInv` says of every point that
  is not part of an installation that the record covers what is ours, which is
  what `CrashOrphansOnlyMidInstall` needs. `ForeignRoutesKept` rests on a second
  invariant: an undo still to be run (published, in hand, or on file) names a
  route of another program only if that is `exposed` (`ForeignInv`). `LeaseIsKept`
  is the refinement `Spec => LeaseKept`, with one step of `NetworkLease`, or a
  stutter, for each action. `ModeInv` spells out the lease's mode at each program
  point. A third invariant, `AliveInv`, is needed for a monitor that leaves and so
  drops an engine: the published engine and that of a start in progress have not
  been stopped, so the adapter stays open and its routes stay installed.
* **`MacHelperProofs`**: types, all six properties of run `mac` and `Accounted`, for any number
  of request threads, starts, crashes, routes and resolver files.
  `HelperInv` has the same parts as `OwnInv` (`LockInv`, `PlaceInv`, `DownInv`),
  with the point of a restoration among the program points (`phase` and
  `Left`), and `WorkInv`, by which what a start has to install, is looking at and
  has installed are different items. `EngineInv` says that a holder of the lock
  never leaves a published engine in place, hence `OneEngine`; `SnapInv` says at
  which points a snapshot exists, is being written, and may be old or cut, hence
  `SnapshotFresh`; `StartInv` says that starts are made in order, one at a time,
  and `MonitorInv` that a monitor waiting for the lock has seen its engine fail.
  The last two give `HealthyEngineKept`: the healthy engine such a monitor may
  find is that of a later start. `ForeignInv` says that the list of resolver
  files, and what a start has in hand, name a file of another program only if it
  is `exposed`, hence `ForeignResolversKept`. `LeaseIsKept` is the refinement of
  `NetworkLease`; it needs nothing beyond `HelperInv`, of which `ModeInv` spells
  out the lease's mode at each program point.
* **`UdpFlowProofs`**: types, `InOrder` and `SleepsOverWorkOnlyArmed`, for any
  queue sizes and numbers of datagrams. `InOrder` speaks of the five places a
  datagram can be in on its way up, and three on its way down, read as one
  sequence. `UdpInv` takes it apart: each place is in order and all of it is
  before what is in the places behind it (`UpInv`, `DownInv`), and a thread
  holds at most one datagram at known points (`HandInv`). Since full queues
  drop datagrams, "in order, none twice" is all there is to say. The second
  property is inductive as it stands, given the types.
* **`TcpFlowProofs`**: types, `StreamsIntact` and `FinInOrder`, for any sizes of
  channels, buffers, chunks and window and any amount of data. Here nothing may
  be lost, so the streams are followed by position: each buffer holds a run of
  consecutive units that begins where the buffer before it ends (`DownInv`,
  `UpInv`), a queue of chunks is a chain of such runs (`Chain`), and what the
  application has sent but the socket has not received is still on the link
  (`Shape`). `FlowInv` further contains what the threads hold at each point
  (`ThreadInv`), what a flow that was given up can still do (`LoopInv`), and how
  far the ends of both streams have come (`FinInv`), which the FIN needs.
  `CleanEnd` is inductive relative to these. The lemmas about runs and chains
  come first. `Chain` says outright that the ends of its chunks never decrease,
  which would follow from the rest of it by an induction the prover cannot do.

What stays with TLC: every liveness property (fairness and ENABLED are beyond the
prover): `StopEnds`, `EngineStops`, `FailureNoticed`, `StreamsFlow`, `ThreadsEnd`,
`AbandonedDropped`, `WorkHandled`, `DeadReaped`, `NoEngineOutlivesStop`,
`StopReturns`, `DeadEngineRetired` and `OperationsEnd`; and the two violations,
which are counterexamples.

## 6. Plan

Done: `FakeDns`, `WinRuntime`, `TcpFlow`, `VpnEngine` with `EngineLife` and the
start of an engine, `StackTables`, `UdpFlow`, `MacHelper` and `SystemProxy`, with
eight modules of proofs, and `NetworkLease`, which `WinRuntime` and `MacHelper`
are proved to implement. Next, in this order:

1. The consequences of `NetworkLease` as theorems about it (a helper that is off
   has nothing installed but what is lost), so that `Accounted` follows from the
   refinement alone.
2. The Windows accept loop with `wake_server` and the order of the service's
   shutdown.

## 7. Not modelled

* The accept loop of the Windows pipe and `wake_server`: `WinRuntime` takes
  request threads as given and the end of the process as a crash at any moment.
  After a console-mode `shutdown` request nothing wakes the loop, which ends when
  the next client connects; the service wakes it itself.
* Framing and access control of pipe and socket; status and logging requests.
* The DNS and IPv4 codecs at byte level; the packet-information header.
* The Win32, registry, SCM, `route` and `networksetup` calls beyond their effect
  on what is installed, and the format of `networksetup`'s output; smoltcp beyond
  what the stack's modules need.
* A failing write of the record file on Windows; users who edit proxy settings
  while the proxy is on, and the credentials of a proxy, which no snapshot records.
  On Windows, saving the record of a failed installation and undoing it are one
  step (`WorkerAbort`): a crash in between finds the routes on file.
* The validation of a start's configuration and how its routes are computed;
  installing and removing the service: sequential code without shared state.
* Panics; logging.
