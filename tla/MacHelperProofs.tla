-------------------------- MODULE MacHelperProofs --------------------------
(***************************************************************************)
(* The safety properties of the macOS helper, and that it implements       *)
(* NetworkLease, for any number of request threads, starts, crashes,       *)
(* routes and resolver files.                                              *)
(*                                                                         *)
(* HelperInv is inductive.  It is a conjunction of parts, each about one   *)
(* piece of state: who holds tun_operation and at which points of the      *)
(* program (LockInv), what is left of a process that ended (DownInv),      *)
(* where the installed items are recorded at each point (PlaceInv), which  *)
(* engines exist (EngineInv), what the snapshot holds at each point         *)
(* (SnapInv), what is known of other programs' resolver files (ForeignInv) *)
(* and of the files that a start still has to write (WorkInv), which       *)
(* starts run and in which order they were made (StartInv), and what a     *)
(* monitor that is about to take an engine knows of it (MonitorInv).       *)
(***************************************************************************)
EXTENDS MacHelper, TLAPS

\* Points of a start that hold the lock, by what the start has done.
Opening == {"snapshot", "writing", "engine"}
Installing == {"resolvers", "routes"}
Installed == {"wait", "publish"}
Restoring == {"bad", "s_restore"}
Locked == Opening \cup Installing \cup Installed \cup Restoring
RestoringMonitor == {"failing", "stopping"}

\* The sets of program points are always meant by their members.
USE DEF Opening, Installing, Installed, Restoring, Locked, RestoringMonitor

\* The program counters tell who holds the lock, and who restores the network.
LockInv ==
    /\ \A t \in Threads : pc[t] \in Locked <=> op = ThreadId(t)
    /\ \A w \in Workers : monitor[w] \in RestoringMonitor <=> op = MonitorId(w)
    /\ \A t \in Threads : pc[t] \in Locked => (pc[t] \in Restoring <=> phase # "no")
    /\ \A w \in Workers : monitor[w] \in RestoringMonitor => phase # "no"
    /\ pc[Server] = "recover" => phase # "no"
    /\ op = Free /\ ~Recovering => phase = "no"

\* A process that ended left no thread, no engine and nothing in memory; the
\* recovery that follows runs alone.
DownInv ==
    /\ up <=> pc[Server] # "down"
    /\ Recovering => /\ op = Free /\ tun_engine = NoEngine /\ ~tun_starting
                     /\ \A c \in Clients : pc[c] = "idle"
                     /\ \A w \in Workers : /\ pc[w] \in {"unused", "ended"}
                                           /\ monitor[w] = "none" /\ ~Alive(w)
    /\ ~up => phase = "no"

\* The items that the files still name when a restoration has come to phase p.
Left(p) == CASE p = "routes" -> routes \cup resolvers
             [] p = "resolvers" -> resolvers
             [] OTHER -> {}

\* Where the items of ours are.
PlaceInv ==
    /\ op = Free /\ ~Recovering =>
        Ours \subseteq (IF tun_engine = NoEngine THEN {} ELSE routes \cup resolvers) \cup lost
    /\ \A w \in Workers :
        /\ pc[w] \in Opening => Ours \subseteq lost
        /\ pc[w] = "resolvers" => /\ Ours \subseteq local \cup lost
                                  /\ local \subseteq Domain
                                  /\ routes = {} /\ resolvers = {}
        /\ pc[w] = "routes" => /\ Ours \subseteq local \cup resolvers \cup lost
                               /\ local \subseteq Tun \cup Node
                               /\ routes = {}
        /\ pc[w] \in Installed => Ours \subseteq routes \cup resolvers \cup lost
    /\ phase # "no" => Ours \subseteq Left(phase) \cup lost
    /\ ~up => Ours \subseteq routes \cup resolvers \cup lost

\* The only engine is the published one, or that of the start in progress.
\* Only with the lock free is there a published one.
EngineInv ==
    /\ op # Free => tun_engine = NoEngine
    /\ \A w \in Workers : Alive(w) => \/ tun_engine = w
                                      \/ pc[w] \in Installing \cup Installed

\* When a snapshot exists, and when it may be an old or a truncated one.
SnapInv ==
    /\ tun_engine # NoEngine => snapshot # "none"
    /\ op = Free /\ tun_engine = NoEngine /\ ~Recovering /\ snapshot # "none" => blamed
    /\ \A w \in Workers :
        /\ pc[w] = "snapshot" /\ snapshot # "none" => blamed
        /\ pc[w] = "writing" => snapshot = "cut"
        /\ pc[w] \in {"engine"} \cup Installing \cup Installed => snapshot # "none"
    /\ phase = "done" /\ snapshot # "none" => blamed
    /\ snapshot \in {"old", "cut"} => blamed \/ \E w \in Workers : pc[w] = "writing"

\* Nothing the helper would write or delete names a resolver file of somebody
\* else, unless that file was made where the helper named one of its own.
ForeignInv == \A d \in Domain : os[d] = "foreign" /\ d \notin exposed => d \notin Named

\* A start looks at each resolver file once and writes it once.
WorkInv ==
    /\ looked # {} => \E w \in Workers : pc[w] = "resolvers"
    /\ todo \cap looked = {}
    /\ \A w \in Workers : pc[w] = "resolvers" => local \cap (todo \cup looked) = {}

\* A start is in progress from its acceptance until tun_starting is reset.
\* There is at most one, it is the youngest, and tun_starting is set.  Only
\* a worker can be at a point of a start.
Starting == {"lock", "snapshot", "writing", "engine", "resolvers", "routes", "wait", "bad",
             "publish", "running", "failed"}
InStart(t) == pc[t] = "accepted" \/ pc[t] \in Starting
StartInv ==
    /\ \A t \in Threads : pc[t] \in Starting => t \in Workers
    /\ \A t \in Threads : InStart(t) => tun_starting
    /\ \A s, t \in Threads : InStart(s) /\ InStart(t) => s = t
    /\ \A v, w \in Workers : pc[v] # "unused" /\ pc[w] = "unused" => v < w
    /\ \A v, w \in Workers : pc[v] # "unused" /\ pc[w] \in Starting /\ v # w => v < w

\* A monitor exists when its worker has ended.  One that waits for the lock has
\* seen a failed engine; if the published engine is healthy, it is of a later
\* start.
MonitorInv ==
    \A w \in Workers :
        /\ monitor[w] # "none" => pc[w] = "ended"
        /\ monitor[w] = "lock" /\ tun_engine # NoEngine =>
               w < tun_engine \/ eng[tun_engine] # "live"

HelperInv == /\ TypeOK /\ LockInv /\ DownInv /\ PlaceInv /\ EngineInv /\ SnapInv
             /\ ForeignInv /\ WorkInv /\ StartInv /\ MonitorInv

-----------------------------------------------------------------------------
\* The identities of lock holders are distinct.
LEMMA IdsDistinct ==
    /\ \A t \in Threads : /\ ThreadId(t) # Free
                          /\ \A s \in Threads : ThreadId(s) = ThreadId(t) => s = t
                          /\ \A w \in Workers : ThreadId(t) # MonitorId(w)
    /\ \A w \in Workers : /\ MonitorId(w) # Free
                          /\ \A v \in Workers : MonitorId(v) = MonitorId(w) => v = w
  BY DEF Free, ThreadId, MonitorId

\* What o leaves of os once S is removed: none of S is ours, and nothing is
\* new.  Foreign items outside T are spared.
Removed(o, S) ==
    /\ o \in [Items -> OsValues]
    /\ \A i \in Items : o[i] = "ours" => os[i] = "ours" /\ i \notin S
    /\ \A i \in Items : o[i] \in {"foreign", "opaque"} => o[i] = os[i]
Spares(o, T) == \A i \in Items : os[i] = "foreign" /\ i \notin T => o[i] = "foreign"

LEMMA DeleteRemoves ==
    ASSUME TypeOK, NEW S, NEW F
    PROVE  Removed(Delete(os, S, F), S) /\ Spares(Delete(os, S, F), S)
  BY DEF TypeOK, OsValues, Delete, Removed, Spares
LEMMA DeletedRemoves ==
    ASSUME TypeOK, NEW S, Deleted(S)
    PROVE  Removed(os', S) /\ Spares(os', S)
  BY DeleteRemoves DEF Deleted
LEMMA CutShortRemoves ==
    ASSUME TypeOK, NEW o \in CutShort(os)
    PROVE  Removed(o, {}) /\ Spares(o, looked)
  BY DEF TypeOK, OsValues, CutShort, Removed, Spares
LEMMA WithoutTunRemoves ==
    ASSUME TypeOK, NEW o, NEW S, NEW T, Removed(o, S), Spares(o, T)
    PROVE  Removed(WithoutTun(o), S \cup Tun) /\ Spares(WithoutTun(o), T)
  BY DEF TypeOK, OsValues, WithoutTun, Removed, Spares
LEMMA NothingRemoved == TypeOK => Removed(os, {}) /\ Spares(os, {})
  BY DEF TypeOK, Removed, Spares

\* What that means for the sets of items of ours and of others.
LEMMA RemovedSets ==
    ASSUME NEW S, Removed(os', S) PROVE Ours' \subseteq Ours \ S /\ Others' \subseteq Others
  BY DEF Removed, Ours, Others

\* Where only that happens, and the helper names nothing new, ForeignInv stays.
LEMMA ForeignStays ==
    ASSUME ForeignInv, NEW S, Removed(os', S), exposed' = exposed,
           Named' \cap Domain \subseteq Named
    PROVE  ForeignInv'
  BY DEF ForeignInv, Removed, Items

\* What a start that gives up leaves.
LEMMA GivenUp ==
    ASSUME TypeOK, NEW w \in Workers, NoName(w) \/ AddRouteErr(w) \/ NodesErr(w) \/ WaitErr(w)
           \/ WriteErr(w)
    PROVE  \E S, T : /\ Tun \subseteq S /\ (AddRouteErr(w) => local \subseteq S)
                     /\ T \subseteq looked \cup local
                     /\ Removed(os', S) /\ Spares(os', T)
  <1>1. CASE AddRouteErr(w)
    <2>1. PICK F \in SUBSET local : os' = WithoutTun(Delete(os, local, F))
      BY <1>1 DEF AddRouteErr, GiveUp
    <2>2. Removed(os', local \cup Tun) /\ Spares(os', local)
      BY <2>1, DeleteRemoves, WithoutTunRemoves
    <2> QED BY <2>2
  <1>2. CASE WriteErr(w) /\ ~AddRouteErr(w)
    <2>1. PICK o \in CutShort(os) : os' = WithoutTun(o)
      BY <1>2 DEF WriteErr, GiveUp
    <2>2. Removed(o, {}) /\ Spares(o, looked)
      BY CutShortRemoves
    <2>3. Removed(os', {} \cup Tun) /\ Spares(os', looked)
      BY <2>1, <2>2, WithoutTunRemoves
    <2> QED BY <1>2, <2>3
  <1>3. CASE (NoName(w) \/ NodesErr(w) \/ WaitErr(w)) /\ ~AddRouteErr(w)
    <2>1. os' = WithoutTun(os)
      BY <1>3 DEF NoName, NodesErr, WaitErr, GiveUp
    <2>2. Removed(os', {} \cup Tun) /\ Spares(os', {})
      BY <2>1, NothingRemoved, WithoutTunRemoves
    <2> QED BY <1>3, <2>2
  <1> QED BY <1>1, <1>2, <1>3

\* The helper begins with nothing installed and nobody at work.
LEMMA InitHelper == Init => HelperInv
  <1> SUFFICES ASSUME Init PROVE HelperInv
    OBVIOUS
  <1> USE IdsDistinct, ThreadAssumption, BoundAssumption, ItemAssumption
      DEF Init, Threads, NoEngine, Workers
  <1>1. TypeOK
    BY DEF TypeOK, Points, Items, OsValues
  <1>2. LockInv /\ DownInv
    BY DEF LockInv, DownInv, Recovering, At, Alive
  <1>3. PlaceInv /\ EngineInv /\ SnapInv /\ ForeignInv /\ WorkInv
    BY DEF PlaceInv, EngineInv, SnapInv, ForeignInv, Named, WorkInv, Ours, Left, Alive
  <1>4. StartInv /\ MonitorInv
    BY DEF StartInv, MonitorInv, InStart, Starting
  <1> QED BY <1>1, <1>2, <1>3, <1>4 DEF HelperInv

-----------------------------------------------------------------------------
(* Each kind of step keeps HelperInv.                                      *)

\* An engine that fails by itself is still there for the next stop.
LEMMA EngineDiesStep ==
    ASSUME HelperInv, NEW w \in Workers, EngineDies(w)
    PROVE  HelperInv'
  <1> USE DEF HelperInv, TypeOK, Threads, EngineDies, At, runtimeVars, workVars, fileVars,
              lifeVars
  <1>1. TypeOK'
    BY ThreadAssumption DEF Points, Items, NoEngine
  <1>2. LockInv'
    BY ThreadAssumption DEF LockInv, Recovering
  <1>3. DownInv'
    BY ThreadAssumption DEF DownInv, Recovering, Alive
  <1>4. PlaceInv'
    BY DEF PlaceInv, Recovering, Ours, Left
  <1>5. EngineInv' /\ SnapInv' /\ ForeignInv' /\ WorkInv' /\ StartInv' /\ MonitorInv'
    BY ThreadAssumption DEF EngineInv, Alive, SnapInv, Recovering, ForeignInv, Named,
       WorkInv, StartInv, InStart, Starting, MonitorInv
  <1> HIDE DEF TypeOK, EngineDies
  <1> QED BY <1>1, <1>2, <1>3, <1>4, <1>5

\* Each step of a restoration deletes what its file names, and the file.
LEMMA RestoreFilesStep ==
    ASSUME HelperInv, RestoreRoutes \/ RestoreResolvers
    PROVE  HelperInv'
  <1> USE DEF HelperInv, TypeOK, Threads, RestoreRoutes, RestoreResolvers, At, runtimeVars,
              workVars, lifeVars, RestoreRest
  <1>0. /\ Removed(os', {}) /\ Ours' \subseteq Ours
        /\ RestoreRoutes => Ours' \cap routes = {}
        /\ RestoreResolvers => Ours' \cap resolvers = {}
    <2>1. CASE RestoreRoutes
      <3>1. Removed(os', routes)
        BY <2>1, DeletedRemoves
      <3> QED BY <2>1, <3>1, RemovedSets, ItemAssumption DEF Removed
    <2>2. CASE RestoreResolvers
      <3>1. Removed(os', resolvers)
        BY <2>2, DeletedRemoves
      <3> QED BY <2>2, <3>1, RemovedSets, ItemAssumption DEF Removed
    <2> QED BY <2>1, <2>2
  <1>1. TypeOK'
    BY <1>0, ThreadAssumption DEF Points, Items, NoEngine, Removed
  <1>2. LockInv'
    BY ThreadAssumption DEF LockInv, Recovering
  <1>3. DownInv'
    BY ThreadAssumption DEF DownInv, Recovering, Alive
  <1>4. PlaceInv'
    BY <1>0 DEF PlaceInv, Recovering, Left
  <1>5. ForeignInv' /\ WorkInv'
    BY <1>0, ForeignStays, ThreadAssumption DEF Named, WorkInv
  <1>6. EngineInv' /\ SnapInv' /\ StartInv' /\ MonitorInv'
    BY ThreadAssumption DEF EngineInv, Alive, SnapInv, Recovering, StartInv, InStart,
       Starting, MonitorInv
  <1> HIDE DEF TypeOK, RestoreRoutes, RestoreResolvers
  <1> QED BY <1>1, <1>2, <1>3, <1>4, <1>5, <1>6

\* The DNS settings are restored, or blamed for the snapshot that stays.
LEMMA RestoreDnsStep ==
    ASSUME HelperInv, RestoreDns \/ RestoreDnsErr
    PROVE  HelperInv'
  <1> USE DEF HelperInv, TypeOK, Threads, RestoreDns, RestoreDnsErr, At, runtimeVars,
              workVars, fileVars, lifeVars, RestoreRest
  <1>1. TypeOK'
    BY ThreadAssumption DEF Points, Items, NoEngine
  <1>2. LockInv'
    BY ThreadAssumption DEF LockInv, Recovering
  <1>3. DownInv'
    BY ThreadAssumption DEF DownInv, Recovering, Alive
  <1>4. PlaceInv'
    BY DEF PlaceInv, Recovering, Ours, Left
  <1>5. SnapInv'
    BY IdsDistinct, ThreadAssumption DEF SnapInv, LockInv, DownInv, EngineInv, Recovering,
       Workers, NoEngine
  <1>6. EngineInv' /\ ForeignInv' /\ WorkInv' /\ StartInv' /\ MonitorInv'
    BY ThreadAssumption DEF EngineInv, Alive, ForeignInv, Named, WorkInv, StartInv,
       InStart, Starting, MonitorInv
  <1> HIDE DEF TypeOK, RestoreDns, RestoreDnsErr
  <1> QED BY <1>1, <1>2, <1>3, <1>4, <1>5, <1>6

\* Requests change no item; start_tun lets in one start at a time.
LEMMA RequestStep ==
    ASSUME HelperInv, NEW c \in Clients, start_tun(c) \/ SpawnFails(c) \/ StopRequest(c) \/
           Shutdown(c)
    PROVE  HelperInv'
  <1> USE DEF HelperInv, TypeOK, Threads, start_tun, SpawnFails, StopRequest, Shutdown, At,
              Goto, runtimeVars, workVars, fileVars, lifeVars, Serves, Unused
  <1>1. TypeOK'
    <2>1. CASE start_tun(c)
      BY ZenonT(60), <2>1, ThreadAssumption DEF Points, Items, NoEngine
    <2>2. CASE SpawnFails(c)
      BY <2>2, ThreadAssumption DEF Points, Items, NoEngine
    <2>3. CASE StopRequest(c)
      BY <2>3, ThreadAssumption DEF Points, Items, NoEngine
    <2>4. CASE Shutdown(c)
      BY <2>4, ThreadAssumption DEF Points, Items, NoEngine
    <2> QED BY <2>1, <2>2, <2>3, <2>4
  <1>2. LockInv'
    BY ThreadAssumption DEF LockInv, Recovering
  <1>3. DownInv'
    BY ThreadAssumption DEF DownInv, Recovering, Alive
  <1>4. PlaceInv'
    BY DEF PlaceInv, Recovering, Ours, Left
  <1>5. EngineInv' /\ SnapInv' /\ ForeignInv' /\ WorkInv' /\ StartInv' /\ MonitorInv'
    BY ThreadAssumption DEF EngineInv, Alive, SnapInv, Recovering, ForeignInv, Named,
       WorkInv, StartInv, InStart, Starting, MonitorInv
  <1> HIDE DEF TypeOK, start_tun, SpawnFails, StopRequest, Shutdown
  <1> QED BY <1>1, <1>2, <1>3, <1>4, <1>5

\* After a shutdown the server is one more thread that stops.
LEMMA ServeEndsStep ==
    ASSUME HelperInv, ServeEnds
    PROVE  HelperInv'
  <1> USE DEF HelperInv, TypeOK, Threads, ServeEnds, At, Goto, runtimeVars, workVars,
              fileVars, lifeVars
  <1>1. TypeOK'
    BY ThreadAssumption DEF Points, Items, NoEngine
  <1>2. LockInv'
    BY ThreadAssumption DEF LockInv, Recovering
  <1>3. DownInv'
    BY ThreadAssumption DEF DownInv, Recovering, Alive
  <1>4. PlaceInv'
    BY DEF PlaceInv, Recovering, Ours, Left
  <1>5. EngineInv' /\ SnapInv' /\ ForeignInv' /\ WorkInv' /\ StartInv' /\ MonitorInv'
    BY ThreadAssumption DEF EngineInv, Alive, SnapInv, Recovering, ForeignInv, Named,
       WorkInv, StartInv, InStart, Starting, MonitorInv
  <1> HIDE DEF TypeOK, ServeEnds
  <1> QED BY <1>1, <1>2, <1>3, <1>4, <1>5

\* The new worker is the youngest of those in use.
LEMMA SpawnStep ==
    ASSUME HelperInv, NEW c \in Clients, NEW w \in Workers, Spawn(c, w)
    PROVE  HelperInv'
  <1> USE DEF HelperInv, TypeOK, Threads, Spawn, At, runtimeVars, workVars, fileVars,
              lifeVars, Unused
  <1>1. TypeOK'
    BY ThreadAssumption DEF Points, Items, NoEngine
  <1>2. LockInv'
    BY ThreadAssumption DEF LockInv, Recovering
  <1>3. DownInv'
    BY ThreadAssumption DEF DownInv, Recovering, Alive
  <1>4. PlaceInv'
    BY ThreadAssumption DEF PlaceInv, Recovering, Ours, Left
  <1>5. EngineInv'
    BY ThreadAssumption DEF EngineInv, Alive
  <1>6. SnapInv'
    BY ThreadAssumption DEF SnapInv, Recovering
  <1>7. StartInv'
    <2>1. pc'[w] = "lock" /\ pc'[c] = "idle" /\ c # w
      BY ThreadAssumption
    <2>2. \A t \in Threads : t # w => ~InStart(t)'
      BY <2>1 DEF StartInv, InStart, Starting
    <2>3. tun_starting'
      BY DEF StartInv, InStart
    <2>4. \A v \in Workers : v # w => pc'[v] = pc[v]
      BY ThreadAssumption
    <2>5. \A u, v \in Workers : pc'[v] # "unused" /\ pc'[u] = "unused" => v < u
      BY <2>1, <2>4 DEF StartInv, Workers
    <2>6. \A v \in Workers : pc'[v] # "unused" /\ v # w => v < w
      BY <2>4 DEF StartInv
    <2> QED BY <2>1, <2>2, <2>3, <2>5, <2>6 DEF StartInv, InStart, Starting
  <1>8. MonitorInv'
    BY ThreadAssumption DEF MonitorInv
  <1>9. ForeignInv' /\ WorkInv'
    BY DEF ForeignInv, Named, WorkInv
  <1> HIDE DEF TypeOK, Spawn
  <1> QED BY <1>1, <1>2, <1>3, <1>4, <1>5, <1>6, <1>7, <1>8, <1>9

\* A start gets the lock only without an engine.
LEMMA WorkerLockStep ==
    ASSUME HelperInv, NEW w \in Workers, WorkerLock(w)
    PROVE  HelperInv'
  <1> USE DEF HelperInv, TypeOK, Threads, WorkerLock, At, Goto, runtimeVars, workVars,
              fileVars, lifeVars
  <1>1. TypeOK'
    BY ThreadAssumption DEF Points, Items, NoEngine
  <1>2. LockInv'
    BY IdsDistinct, ThreadAssumption DEF LockInv, Recovering, DownInv, Items, Workers
  <1>3. DownInv'
    BY ThreadAssumption DEF DownInv, Recovering, Alive
  <1>4. PlaceInv'
    BY IdsDistinct, ThreadAssumption, ItemAssumption DEF PlaceInv, Recovering, Ours, Left,
       LockInv, DownInv, Items, Workers, NoEngine
  <1>5. EngineInv'
    BY ThreadAssumption DEF EngineInv, Alive
  <1>6. SnapInv'
    BY IdsDistinct, ThreadAssumption DEF SnapInv, Recovering, LockInv, DownInv, Items,
       Workers, NoEngine
  <1>7. StartInv'
    BY ThreadAssumption DEF StartInv, InStart, Starting
  <1>8. MonitorInv'
    BY ThreadAssumption DEF MonitorInv
  <1>9. ForeignInv' /\ WorkInv'
    BY DEF ForeignInv, Named, WorkInv
  <1> HIDE DEF TypeOK, WorkerLock
  <1> QED BY <1>1, <1>2, <1>3, <1>4, <1>5, <1>6, <1>7, <1>8, <1>9

\* The snapshot is taken before there is an engine.
LEMMA SnapshotStep ==
    ASSUME HelperInv, NEW w \in Workers, Snapshot(w) \/ SnapshotWritten(w)
    PROVE  HelperInv'
  <1> USE DEF HelperInv, TypeOK, Threads, Snapshot, SnapshotWritten, At, Goto, runtimeVars,
              workVars, lifeVars
  <1>1. TypeOK'
    BY ThreadAssumption DEF Points, Items, NoEngine
  <1>2. LockInv'
    BY ThreadAssumption DEF LockInv, Recovering
  <1>3. DownInv'
    BY ThreadAssumption DEF DownInv, Recovering, Alive
  <1>4. PlaceInv'
    BY DEF PlaceInv, Recovering, Ours, Left
  <1>5. SnapInv'
    BY IdsDistinct, ThreadAssumption DEF SnapInv, Recovering, LockInv, NoEngine
  <1>6. EngineInv' /\ ForeignInv' /\ WorkInv' /\ StartInv' /\ MonitorInv'
    BY ThreadAssumption DEF EngineInv, Alive, ForeignInv, Named, WorkInv, StartInv,
       InStart, Starting, MonitorInv
  <1> HIDE DEF TypeOK, Snapshot, SnapshotWritten
  <1> QED BY <1>1, <1>2, <1>3, <1>4, <1>5, <1>6

\* A start that fails before it has an engine has installed nothing.
LEMMA EarlyErrStep ==
    ASSUME HelperInv, NEW w \in Workers, WorkerEarlyErr(w) \/ EngineErr(w)
    PROVE  HelperInv'
  <1> USE DEF HelperInv, TypeOK, Threads, WorkerEarlyErr, EngineErr, At, Goto, runtimeVars,
              workVars, fileVars, lifeVars
  <1>0. Removed(os', {}) /\ Ours' \subseteq Ours
    <2>1. CASE WorkerEarlyErr(w)
      BY <2>1, NothingRemoved DEF Ours
    <2>2. CASE EngineErr(w)
      <3>1. Removed(os', routes)
        BY <2>2, DeletedRemoves
      <3> QED BY <3>1, RemovedSets DEF Removed
    <2> QED BY <2>1, <2>2
  <1>1. TypeOK'
    <2>1. pc' \in [Threads -> Points] /\ os' \in [Items -> OsValues]
      BY <1>0, ThreadAssumption DEF Points, Items, Removed
    <2>2. op' = Free /\ snapshot' \in {"none", "current", "old", "cut"} /\ blamed' \in BOOLEAN
          /\ routes' \subseteq Tun \cup Node
      BY DEF Items
    <2>3. UNCHANGED <<runtimeVars, monitor, eng, workVars, phase, resolvers, lifeVars, lost>>
      OBVIOUS
    <2> HIDE DEF WorkerEarlyErr, EngineErr
    <2> QED BY <2>1, <2>2, <2>3
  <1>2. LockInv'
    BY IdsDistinct, ThreadAssumption DEF LockInv, Recovering
  <1>3. DownInv'
    BY ThreadAssumption DEF DownInv, Recovering, Alive
  <1>4. PlaceInv'
    BY <1>0 DEF PlaceInv, Recovering, Left
  <1>5. SnapInv'
    BY IdsDistinct, ThreadAssumption DEF SnapInv, LockInv, DownInv, EngineInv, Recovering,
       Workers, NoEngine
  <1>6. ForeignInv' /\ WorkInv'
    BY <1>0, ForeignStays, ThreadAssumption DEF Named, WorkInv
  <1>7. EngineInv' /\ StartInv' /\ MonitorInv'
    BY ThreadAssumption DEF EngineInv, Alive, StartInv, InStart, Starting, MonitorInv
  <1> HIDE DEF TypeOK, WorkerEarlyErr, EngineErr
  <1> QED BY <1>1, <1>2, <1>3, <1>4, <1>5, <1>6, <1>7

\* The engine of a start is the only one; what older files named is removed.
LEMMA EngineOkStep ==
    ASSUME HelperInv, NEW w \in Workers, EngineOk(w)
    PROVE  HelperInv'
  <1> USE DEF HelperInv, TypeOK, Threads, EngineOk, At, Goto, runtimeVars, lifeVars
  <1>0. Removed(os', {}) /\ Ours' \subseteq Ours
    <2>1. CASE Deleted(routes \cup resolvers)
      <3>1. Removed(os', routes \cup resolvers)
        BY <2>1, DeletedRemoves
      <3> QED BY <3>1, RemovedSets DEF Removed
    <2>2. CASE UNCHANGED os
      BY <2>2, NothingRemoved DEF Ours
    <2> QED BY <2>1, <2>2
  <1>1. TypeOK'
    BY <1>0, ThreadAssumption DEF Points, Items, NoEngine, Removed
  <1>2. LockInv'
    BY ThreadAssumption DEF LockInv, Recovering
  <1>3. DownInv'
    BY ThreadAssumption DEF DownInv, Recovering, Alive
  <1>4. PlaceInv'
    BY <1>0, ThreadAssumption DEF PlaceInv, Recovering, Left
  <1>5. EngineInv'
    BY ThreadAssumption DEF EngineInv, Alive
  <1>6. SnapInv'
    BY ThreadAssumption DEF SnapInv, Recovering
  <1>7. StartInv'
    BY ThreadAssumption DEF StartInv, InStart, Starting
  <1>8. MonitorInv'
    BY IdsDistinct, ThreadAssumption, BoundAssumption DEF MonitorInv, LockInv, DownInv,
       EngineInv, StartInv, InStart, Starting, Workers, NoEngine
  <1>9. ForeignInv' /\ WorkInv'
    BY <1>0, IdsDistinct, ForeignStays, ThreadAssumption DEF Named, WorkInv, LockInv
  <1> HIDE DEF TypeOK, EngineOk
  <1> QED BY <1>1, <1>2, <1>3, <1>4, <1>5, <1>6, <1>7, <1>8, <1>9

\* A start given up stops its engine and leaves what its files name.
LEMMA GiveUpStep ==
    ASSUME HelperInv, NEW w \in Workers, NoName(w) \/ AddRouteErr(w) \/ NodesErr(w) \/
           WaitErr(w)
    PROVE  HelperInv'
  <1> USE DEF HelperInv, TypeOK, Threads, NoName, AddRouteErr, NodesErr, WaitErr, At, Goto,
              runtimeVars, fileVars, lifeVars, GiveUp, NoRouteYet, StopEngine
  <1>0. /\ Removed(os', {}) /\ Ours' \subseteq Ours \ Tun
        /\ AddRouteErr(w) => Ours' \cap local = {}
    <2> HIDE DEF TypeOK, NoName, AddRouteErr, NodesErr, WaitErr
    <2>1. PICK S : Removed(os', S) /\ Tun \subseteq S /\ (AddRouteErr(w) => local \subseteq S)
      BY GivenUp
    <2> QED BY <2>1, RemovedSets DEF Removed
  <1>1. TypeOK'
    <2>1. CASE NoName(w)
      BY <2>1, <1>0, ThreadAssumption DEF Points, Items, NoEngine, Removed
    <2>2. CASE AddRouteErr(w)
      BY <2>2, <1>0, ThreadAssumption DEF Points, Items, NoEngine, Removed
    <2>3. CASE NodesErr(w)
      BY <2>3, <1>0, ThreadAssumption DEF Points, Items, NoEngine, Removed
    <2>4. CASE WaitErr(w)
      BY <2>4, <1>0, ThreadAssumption DEF Points, Items, NoEngine, Removed
    <2> QED BY <2>1, <2>2, <2>3, <2>4
  <1>2. LockInv'
    BY IdsDistinct, ThreadAssumption DEF LockInv, Recovering
  <1>3. DownInv'
    BY ThreadAssumption DEF DownInv, Recovering, Alive
  <1>4. PlaceInv'
    <2>1. CASE NoName(w)
      BY <2>1, <1>0 DEF PlaceInv, Recovering, Left
    <2>2. CASE AddRouteErr(w)
      BY <2>2, <1>0 DEF PlaceInv, Recovering, Left
    <2>3. CASE NodesErr(w)
      BY <2>3, <1>0 DEF PlaceInv, Recovering, Left
    <2>4. CASE WaitErr(w)
      BY <2>4, <1>0 DEF PlaceInv, Recovering, Left
    <2> QED BY <2>1, <2>2, <2>3, <2>4
  <1>5. ForeignInv' /\ WorkInv'
    BY <1>0, ForeignStays, ThreadAssumption DEF Named, WorkInv
  <1>6. MonitorInv'
    BY ThreadAssumption DEF MonitorInv
  <1>7. EngineInv' /\ SnapInv' /\ StartInv'
    BY ThreadAssumption DEF EngineInv, Alive, SnapInv, Recovering, StartInv, InStart,
       Starting
  <1> HIDE DEF TypeOK, NoName, AddRouteErr, NodesErr, WaitErr
  <1> QED BY <1>1, <1>2, <1>3, <1>4, <1>5, <1>6, <1>7

\* A list that cannot be written leaves orphans, which are counted.
LEMMA WriteErrStep ==
    ASSUME HelperInv, NEW w \in Workers, WriteErr(w)
    PROVE  HelperInv'
  <1> USE DEF HelperInv, TypeOK, Threads, WriteErr, At, Goto, runtimeVars, fileVars,
              lifeVars, GiveUp, StopEngine
  <1>0. Removed(os', {}) /\ Ours' \subseteq Ours \ Tun
    <2> HIDE DEF TypeOK, WriteErr
    <2>1. PICK S : Removed(os', S) /\ Tun \subseteq S
      BY GivenUp
    <2> QED BY <2>1, RemovedSets DEF Removed
  <1>1. TypeOK'
    BY <1>0, ThreadAssumption DEF Points, Items, NoEngine, Removed
  <1>2. LockInv'
    BY IdsDistinct, ThreadAssumption DEF LockInv, Recovering
  <1>3. DownInv'
    BY ThreadAssumption DEF DownInv, Recovering, Alive
  <1>4. PlaceInv'
    BY <1>0 DEF PlaceInv, Recovering, Left
  <1>5. ForeignInv' /\ WorkInv'
    BY <1>0, ForeignStays, ThreadAssumption DEF Named, WorkInv
  <1>6. MonitorInv'
    BY ThreadAssumption DEF MonitorInv
  <1>7. EngineInv' /\ SnapInv' /\ StartInv'
    BY ThreadAssumption DEF EngineInv, Alive, SnapInv, Recovering, StartInv, InStart,
       Starting
  <1> HIDE DEF TypeOK, WriteErr
  <1> QED BY <1>1, <1>2, <1>3, <1>4, <1>5, <1>6, <1>7

\* A resolver file of ours is in the start's hands; one of others is skipped.
LEMMA WriteResolverStep ==
    ASSUME HelperInv, NEW w \in Workers, NEW d \in Domain, LookResolver(w, d) \/
           WriteResolver(w, d)
    PROVE  HelperInv'
  <1> USE DEF HelperInv, TypeOK, Threads, LookResolver, WriteResolver, At, runtimeVars,
              fileVars, lifeVars, Keep
  <1>1. TypeOK'
    BY ThreadAssumption DEF Points, Items, NoEngine, OsValues
  <1>2. LockInv'
    BY ThreadAssumption DEF LockInv, Recovering
  <1>3. DownInv'
    BY ThreadAssumption DEF DownInv, Recovering, Alive
  <1>4. PlaceInv'
    BY IdsDistinct, ThreadAssumption, ItemAssumption DEF PlaceInv, Recovering, Ours, Left,
       LockInv, DownInv, Items, Workers, NoEngine
  <1>5. ForeignInv' /\ WorkInv'
    BY IdsDistinct, ThreadAssumption, ItemAssumption DEF ForeignInv, Named, WorkInv,
       LockInv, Items
  <1>6. EngineInv' /\ SnapInv' /\ StartInv' /\ MonitorInv'
    BY ThreadAssumption DEF EngineInv, Alive, SnapInv, Recovering, StartInv, InStart,
       Starting, MonitorInv
  <1> HIDE DEF TypeOK, LookResolver, WriteResolver
  <1> QED BY <1>1, <1>2, <1>3, <1>4, <1>5, <1>6

\* The list of resolver files takes over what the start held.
LEMMA SaveResolversStep ==
    ASSUME HelperInv, NEW w \in Workers, SaveResolvers(w)
    PROVE  HelperInv'
  <1> USE DEF HelperInv, TypeOK, Threads, SaveResolvers, At, Goto, runtimeVars, lifeVars
  <1>1. TypeOK'
    BY ThreadAssumption, ItemAssumption, BoundAssumption DEF PlaceInv, Items, Points,
       NoEngine
  <1>2. LockInv'
    BY ThreadAssumption DEF LockInv, Recovering
  <1>3. DownInv'
    BY ThreadAssumption DEF DownInv, Recovering, Alive
  <1>4. PlaceInv'
    BY IdsDistinct, ThreadAssumption DEF PlaceInv, Recovering, Ours, Left, LockInv,
       NoEngine
  <1>5. EngineInv' /\ SnapInv' /\ ForeignInv' /\ WorkInv' /\ StartInv' /\ MonitorInv'
    BY IdsDistinct, ThreadAssumption DEF LockInv, EngineInv, Alive, SnapInv, Recovering,
       ForeignInv, Named, WorkInv, StartInv, InStart, Starting, MonitorInv
  <1> HIDE DEF TypeOK, SaveResolvers
  <1> QED BY <1>1, <1>2, <1>3, <1>4, <1>5

\* An added route is in the start's hands.
LEMMA AddRouteStep ==
    ASSUME HelperInv, NEW w \in Workers, NEW i \in Tun \cup Node, AddRoute(w, i) \/
           AddRouteWarn(w, i)
    PROVE  HelperInv'
  <1> USE DEF HelperInv, TypeOK, Threads, AddRoute, AddRouteWarn, At, runtimeVars,
              fileVars, lifeVars
  <1>1. TypeOK'
    BY ThreadAssumption DEF Points, Items, NoEngine, OsValues
  <1>2. LockInv'
    BY ThreadAssumption DEF LockInv, Recovering
  <1>3. DownInv'
    BY ThreadAssumption DEF DownInv, Recovering, Alive
  <1>4. PlaceInv'
    BY IdsDistinct, ThreadAssumption, ItemAssumption DEF PlaceInv, Recovering, Ours, Left,
       LockInv, DownInv, Items, Workers, NoEngine
  <1>5. ForeignInv' /\ WorkInv'
    BY IdsDistinct, ThreadAssumption, ItemAssumption DEF ForeignInv, Named, WorkInv,
       LockInv, Items
  <1>6. EngineInv' /\ SnapInv' /\ StartInv' /\ MonitorInv'
    BY ThreadAssumption DEF EngineInv, Alive, SnapInv, Recovering, StartInv, InStart,
       Starting, MonitorInv
  <1> HIDE DEF TypeOK, AddRoute, AddRouteWarn
  <1> QED BY <1>1, <1>2, <1>3, <1>4, <1>5, <1>6

\* The list of routes takes over what the start held.
LEMMA SaveRoutesStep ==
    ASSUME HelperInv, NEW w \in Workers, SaveRoutes(w)
    PROVE  HelperInv'
  <1> USE DEF HelperInv, TypeOK, Threads, SaveRoutes, At, Goto, runtimeVars, lifeVars
  <1>1. TypeOK'
    BY ThreadAssumption, ItemAssumption, BoundAssumption DEF PlaceInv, Items, Points,
       NoEngine
  <1>2. LockInv'
    BY ThreadAssumption DEF LockInv, Recovering
  <1>3. DownInv'
    BY ThreadAssumption DEF DownInv, Recovering, Alive
  <1>4. PlaceInv'
    BY IdsDistinct, ThreadAssumption DEF PlaceInv, Recovering, Ours, Left, LockInv,
       NoEngine
  <1>5. EngineInv' /\ SnapInv' /\ ForeignInv' /\ WorkInv' /\ StartInv' /\ MonitorInv'
    BY IdsDistinct, ThreadAssumption DEF LockInv, EngineInv, Alive, SnapInv, Recovering,
       ForeignInv, Named, WorkInv, StartInv, InStart, Starting, MonitorInv
  <1> HIDE DEF TypeOK, SaveRoutes
  <1> QED BY <1>1, <1>2, <1>3, <1>4, <1>5

\* Leaving out the node routes, and waiting for the routes, change no item.
LEMMA WaitOkStep ==
    ASSUME HelperInv, NEW w \in Workers, NoGateway(w) \/ WaitOk(w)
    PROVE  HelperInv'
  <1> USE DEF HelperInv, TypeOK, Threads, NoGateway, WaitOk, At, Goto, runtimeVars,
              workVars, fileVars, lifeVars, NoRouteYet, Ready
  <1>1. TypeOK'
    BY ThreadAssumption DEF Points, Items, NoEngine
  <1>2. LockInv'
    BY ThreadAssumption DEF LockInv, Recovering
  <1>3. DownInv'
    BY ThreadAssumption DEF DownInv, Recovering, Alive
  <1>4. PlaceInv'
    BY DEF PlaceInv, Recovering, Ours, Left
  <1>5. EngineInv' /\ SnapInv' /\ ForeignInv' /\ WorkInv' /\ StartInv' /\ MonitorInv'
    BY ThreadAssumption DEF EngineInv, Alive, SnapInv, Recovering, ForeignInv, Named,
       WorkInv, StartInv, InStart, Starting, MonitorInv
  <1> HIDE DEF TypeOK, NoGateway, WaitOk
  <1> QED BY <1>1, <1>2, <1>3, <1>4, <1>5

\* A start given up lets go of the lock when everything is restored.
LEMMA GaveUpStep ==
    ASSUME HelperInv, NEW w \in Workers, WorkerGaveUp(w)
    PROVE  HelperInv'
  <1> USE DEF HelperInv, TypeOK, Threads, WorkerGaveUp, At, Goto, runtimeVars, workVars,
              fileVars, lifeVars
  <1>1. TypeOK'
    BY ThreadAssumption DEF Points, Items, NoEngine
  <1>2. LockInv'
    BY IdsDistinct, ThreadAssumption DEF LockInv, Recovering, DownInv, Items, Workers
  <1>3. DownInv'
    BY ThreadAssumption DEF DownInv, Recovering, Alive
  <1>4. PlaceInv'
    BY DEF PlaceInv, Recovering, Ours, Left
  <1>5. EngineInv' /\ SnapInv' /\ ForeignInv' /\ WorkInv' /\ StartInv' /\ MonitorInv'
    BY ThreadAssumption DEF EngineInv, Alive, SnapInv, Recovering, ForeignInv, Named,
       WorkInv, StartInv, InStart, Starting, MonitorInv
  <1> HIDE DEF TypeOK, WorkerGaveUp
  <1> QED BY <1>1, <1>2, <1>3, <1>4, <1>5

\* Publishing makes the engine of the start the engine of the helper.
LEMMA PublishStep ==
    ASSUME HelperInv, NEW w \in Workers, Publish(w) \/ PublishErr(w)
    PROVE  HelperInv'
  <1> USE DEF HelperInv, TypeOK, Threads, Publish, PublishErr, At, Goto, workVars,
              fileVars, lifeVars
  <1>1. TypeOK'
    BY ThreadAssumption DEF Points, Items, NoEngine
  <1>2. LockInv'
    BY IdsDistinct, ThreadAssumption DEF LockInv, Recovering
  <1>3. DownInv'
    BY ThreadAssumption DEF DownInv, Recovering, Alive
  <1>4. PlaceInv'
    BY IdsDistinct, ThreadAssumption, ItemAssumption DEF PlaceInv, Recovering, Ours, Left,
       LockInv, DownInv, Items, Workers, NoEngine
  <1>5. EngineInv'
    BY IdsDistinct, ThreadAssumption, BoundAssumption DEF EngineInv, Alive, LockInv,
       DownInv, Recovering, Items, Workers, NoEngine
  <1>6. SnapInv'
    BY IdsDistinct, ThreadAssumption DEF SnapInv, Recovering, LockInv, DownInv, Items,
       Workers, NoEngine
  <1>7. MonitorInv'
    BY IdsDistinct, ThreadAssumption, BoundAssumption DEF MonitorInv, LockInv, DownInv,
       EngineInv, StartInv, InStart, Starting, Workers, NoEngine
  <1>8. ForeignInv' /\ WorkInv' /\ StartInv'
    BY ThreadAssumption DEF ForeignInv, Named, WorkInv, StartInv, InStart, Starting
  <1> HIDE DEF TypeOK, Publish, PublishErr
  <1> QED BY <1>1, <1>2, <1>3, <1>4, <1>5, <1>6, <1>7, <1>8

\* tun_starting is reset by the only start there is.
LEMMA StartingDoneStep ==
    ASSUME HelperInv, NEW w \in Workers, StartingDone(w)
    PROVE  HelperInv'
  <1> USE DEF HelperInv, TypeOK, Threads, StartingDone, At, Goto, workVars, fileVars,
              lifeVars
  <1>1. TypeOK'
    <2>1. pc' \in [Threads -> Points] /\ tun_starting' = FALSE
      BY ThreadAssumption DEF Points
    <2>2. UNCHANGED <<tun_engine, tun_failure, shutting_down, op, monitor, eng, workVars,
                      phase, os, fileVars, blamed, lifeVars, lost>>
      OBVIOUS
    <2> HIDE DEF StartingDone
    <2> QED BY ZenonT(60), <2>1, <2>2
  <1>2. LockInv'
    BY ThreadAssumption DEF LockInv, Recovering
  <1>3. DownInv'
    BY ThreadAssumption DEF DownInv, Recovering, Alive
  <1>4. PlaceInv'
    BY DEF PlaceInv, Recovering, Ours, Left
  <1>5. StartInv'
    BY ThreadAssumption DEF StartInv, InStart, Starting
  <1>6. EngineInv' /\ SnapInv' /\ ForeignInv' /\ WorkInv' /\ MonitorInv'
    BY DEF EngineInv, Alive, SnapInv, Recovering, ForeignInv, Named, WorkInv, MonitorInv
  <1> HIDE DEF TypeOK, StartingDone
  <1> QED BY <1>1, <1>2, <1>3, <1>4, <1>5, <1>6

\* A monitor is made by a worker that ends with it.
LEMMA ReportStep ==
    ASSUME HelperInv, NEW w \in Workers, SpawnMonitor(w) \/ SpawnMonitorFails(w) \/
           ReportFailure(w)
    PROVE  HelperInv'
  <1> USE DEF HelperInv, TypeOK, Threads, SpawnMonitor, SpawnMonitorFails, ReportFailure,
              At, Goto, runtimeVars, workVars, fileVars, lifeVars
  <1>1. TypeOK'
    <2>1. CASE SpawnMonitor(w)
      BY <2>1, ThreadAssumption DEF Points, Items, NoEngine
    <2>2. CASE SpawnMonitorFails(w)
      BY <2>2, ThreadAssumption DEF Points, Items, NoEngine
    <2>3. CASE ReportFailure(w)
      BY <2>3, ThreadAssumption DEF Points, Items, NoEngine
    <2> QED BY <2>1, <2>2, <2>3
  <1>2. LockInv'
    <2>1. CASE SpawnMonitor(w)
      BY <2>1, IdsDistinct, ThreadAssumption DEF LockInv, MonitorInv, Recovering
    <2>2. CASE SpawnMonitorFails(w)
      BY <2>2, IdsDistinct, ThreadAssumption DEF LockInv, DownInv, Recovering
    <2>3. CASE ReportFailure(w)
      BY <2>3, IdsDistinct, ThreadAssumption DEF LockInv, DownInv, Recovering
    <2> QED BY <2>1, <2>2, <2>3
  <1>3. DownInv'
    BY ThreadAssumption DEF DownInv, Recovering, Alive
  <1>4. PlaceInv'
    BY DEF PlaceInv, Recovering, Ours, Left
  <1>5. MonitorInv'
    BY ThreadAssumption DEF MonitorInv
  <1>6. EngineInv' /\ SnapInv' /\ ForeignInv' /\ WorkInv' /\ StartInv'
    BY ThreadAssumption DEF EngineInv, Alive, SnapInv, Recovering, ForeignInv, Named,
       WorkInv, StartInv, InStart, Starting
  <1> HIDE DEF TypeOK, SpawnMonitor, SpawnMonitorFails, ReportFailure
  <1> QED BY <1>1, <1>2, <1>3, <1>4, <1>5, <1>6

\* A monitor goes for the lock when the engine it sees has failed.
LEMMA MonitorLookStep ==
    ASSUME HelperInv, NEW w \in Workers, MonitorSee(w) \/ MonitorLeave(w)
    PROVE  HelperInv'
  <1> USE DEF HelperInv, TypeOK, Threads, MonitorSee, MonitorLeave, At, MGoto, runtimeVars,
              workVars, fileVars, lifeVars
  <1>1. TypeOK'
    BY ThreadAssumption DEF Points, Items, NoEngine
  <1>2. LockInv'
    <2>1. CASE MonitorSee(w)
      BY <2>1, IdsDistinct, ThreadAssumption DEF LockInv, DownInv, Recovering
    <2>2. CASE MonitorLeave(w)
      BY <2>2, IdsDistinct, ThreadAssumption DEF LockInv, DownInv, Recovering
    <2> QED BY <2>1, <2>2
  <1>3. DownInv'
    BY ThreadAssumption DEF DownInv, Recovering, Alive
  <1>4. PlaceInv'
    BY IdsDistinct, ThreadAssumption, ItemAssumption DEF PlaceInv, Recovering, Ours, Left,
       LockInv, DownInv, Items, Workers, NoEngine
  <1>5. SnapInv'
    BY IdsDistinct, ThreadAssumption DEF SnapInv, Recovering, LockInv, DownInv, Items,
       Workers, NoEngine
  <1>6. EngineInv' /\ ForeignInv' /\ WorkInv' /\ StartInv' /\ MonitorInv'
    BY ThreadAssumption DEF EngineInv, Alive, ForeignInv, Named, WorkInv, StartInv,
       InStart, Starting, MonitorInv
  <1> HIDE DEF TypeOK, MonitorSee, MonitorLeave
  <1> QED BY <1>1, <1>2, <1>3, <1>4, <1>5, <1>6

\* A monitor takes the engine and begins to restore the network.
LEMMA MonitorTakeStep ==
    ASSUME HelperInv, NEW w \in Workers, MonitorTake(w)
    PROVE  HelperInv'
  <1> USE DEF HelperInv, TypeOK, Threads, MonitorTake, At, MGoto, workVars, fileVars,
              lifeVars, StopEngine
  <1>0. Removed(os', {} \cup Tun) /\ Ours' \subseteq Ours \ Tun
    <2>1. Removed(os', {} \cup Tun)
      BY NothingRemoved, WithoutTunRemoves
    <2> QED BY <2>1, RemovedSets
  <1>1. TypeOK'
    BY <1>0, ThreadAssumption DEF Points, Items, NoEngine, Removed
  <1>2. LockInv'
    BY IdsDistinct, ThreadAssumption DEF LockInv, Recovering
  <1>3. DownInv'
    BY ThreadAssumption DEF DownInv, Recovering, Alive
  <1>4. PlaceInv'
    BY <1>0, IdsDistinct, ThreadAssumption, ItemAssumption DEF PlaceInv, Recovering, Left,
       LockInv, DownInv, Items, Workers, NoEngine
  <1>5. SnapInv'
    BY IdsDistinct, ThreadAssumption DEF SnapInv, Recovering, LockInv, NoEngine
  <1>6. ForeignInv' /\ WorkInv'
    BY <1>0, ForeignStays, ThreadAssumption DEF Named, WorkInv
  <1>7. EngineInv' /\ StartInv' /\ MonitorInv'
    BY ThreadAssumption DEF EngineInv, Alive, StartInv, InStart, Starting, MonitorInv
  <1> HIDE DEF TypeOK, MonitorTake
  <1> QED BY <1>1, <1>2, <1>3, <1>4, <1>5, <1>6, <1>7

\* A monitor lets go of the lock when everything is restored.
LEMMA MonitorDoneStep ==
    ASSUME HelperInv, NEW w \in Workers, MonitorDone(w)
    PROVE  HelperInv'
  <1> USE DEF HelperInv, TypeOK, Threads, MonitorDone, At, MGoto, workVars, fileVars,
              lifeVars
  <1>1. TypeOK'
    BY ThreadAssumption DEF Points, Items, NoEngine
  <1>2. LockInv'
    BY IdsDistinct, ThreadAssumption DEF LockInv, Recovering, DownInv, Items, Workers
  <1>3. DownInv'
    BY ThreadAssumption DEF DownInv, Recovering, Alive
  <1>4. PlaceInv'
    BY DEF PlaceInv, Recovering, Ours, Left
  <1>5. EngineInv' /\ SnapInv' /\ ForeignInv' /\ WorkInv' /\ StartInv' /\ MonitorInv'
    BY ThreadAssumption DEF EngineInv, Alive, SnapInv, Recovering, ForeignInv, Named,
       WorkInv, StartInv, InStart, Starting, MonitorInv
  <1> HIDE DEF TypeOK, MonitorDone
  <1> QED BY <1>1, <1>2, <1>3, <1>4, <1>5

\* stop_tun takes the engine and begins to restore the network.
LEMMA StopTakeStep ==
    ASSUME HelperInv, NEW t \in Threads, StopTake(t)
    PROVE  HelperInv'
  <1> USE DEF HelperInv, TypeOK, Threads, StopTake, At, Goto, workVars, fileVars, lifeVars,
              StopEngine
  <1>0. Removed(os', {} \cup Tun) /\ Ours' \subseteq Ours \ Tun
    <2>1. Removed(os', {} \cup Tun)
      BY NothingRemoved, WithoutTunRemoves
    <2> QED BY <2>1, RemovedSets
  <1>1. TypeOK'
    BY <1>0, ThreadAssumption, ItemAssumption, BoundAssumption DEF PlaceInv, Items, Points,
       NoEngine, Removed
  <1>2. LockInv'
    BY IdsDistinct, ThreadAssumption DEF LockInv, Recovering
  <1>3. DownInv'
    BY ThreadAssumption DEF DownInv, Recovering, Alive
  <1>4. PlaceInv'
    BY <1>0, IdsDistinct, ThreadAssumption DEF PlaceInv, Recovering, Left, LockInv,
       NoEngine
  <1>5. SnapInv'
    BY IdsDistinct, ThreadAssumption DEF SnapInv, Recovering, LockInv, NoEngine
  <1>6. ForeignInv' /\ WorkInv'
    BY <1>0, ForeignStays, ThreadAssumption DEF Named, WorkInv
  <1>7. EngineInv' /\ StartInv' /\ MonitorInv'
    BY ThreadAssumption DEF EngineInv, Alive, StartInv, InStart, Starting, MonitorInv
  <1> HIDE DEF TypeOK, StopTake
  <1> QED BY <1>1, <1>2, <1>3, <1>4, <1>5, <1>6, <1>7

\* stop_tun lets go of the lock when everything is restored.
LEMMA StopDoneStep ==
    ASSUME HelperInv, NEW t \in Threads, StopDone(t)
    PROVE  HelperInv'
  <1> USE DEF HelperInv, TypeOK, Threads, StopDone, At, Goto, runtimeVars, workVars,
              fileVars, lifeVars, AfterStop
  <1>1. TypeOK'
    BY ThreadAssumption DEF Points, Items, NoEngine
  <1>2. LockInv'
    BY IdsDistinct, ThreadAssumption DEF LockInv, Recovering, DownInv, Items, Workers
  <1>3. DownInv'
    BY ThreadAssumption DEF DownInv, Recovering, Alive
  <1>4. PlaceInv'
    BY DEF PlaceInv, Recovering, Ours, Left
  <1>5. EngineInv' /\ SnapInv' /\ ForeignInv' /\ WorkInv' /\ StartInv' /\ MonitorInv'
    BY ThreadAssumption DEF EngineInv, Alive, SnapInv, Recovering, ForeignInv, Named,
       WorkInv, StartInv, InStart, Starting, MonitorInv
  <1> HIDE DEF TypeOK, StopDone
  <1> QED BY <1>1, <1>2, <1>3, <1>4, <1>5

\* The end of the process leaves the files, and what they do not name as orphans.
LEMMA DieStep ==
    ASSUME HelperInv, Crash \/ Exit
    PROVE  HelperInv'
  <1> USE DEF HelperInv, TypeOK, Threads, Crash, Exit, At, fileVars, Die
  <1>0. Removed(os', {} \cup Tun) /\ Ours' \subseteq Ours \ Tun
    <2>1. PICK o \in CutShort(os) : os' = WithoutTun(o)
      OBVIOUS
    <2>2. Removed(os', {} \cup Tun)
      BY <2>1, CutShortRemoves, WithoutTunRemoves
    <2> QED BY <2>2, RemovedSets
  <1>1. TypeOK'
    <2>1. pc' \in [Threads -> Points]
      BY ThreadAssumption DEF Points
    <2>2. /\ monitor' \in [Workers -> {"none", "sleep", "lock", "failing", "stopping", "exited"}]
          /\ eng' \in [Workers -> {"none", "live", "dead", "stopped"}]
          /\ os' \in [Items -> OsValues] /\ blamed' \in BOOLEAN
      BY <1>0 DEF Removed
    <2>3. lost' \subseteq Items /\ crashes' \in Nat
      BY DEF Ours
    <2>4. /\ up' = FALSE /\ tun_starting' = FALSE /\ tun_engine' = NoEngine
          /\ tun_failure' = FALSE /\ shutting_down' = FALSE
          /\ op' = Free /\ todo' = {} /\ local' = {} /\ looked' = {} /\ phase' = "no"
          /\ UNCHANGED <<fileVars, exposed>>
      OBVIOUS
    <2> HIDE DEF Crash, Exit, Die
    <2> QED BY <2>1, <2>2, <2>3, <2>4
  <1>2. LockInv'
    BY IdsDistinct, ThreadAssumption DEF LockInv, Recovering
  <1>3. DownInv'
    BY ThreadAssumption DEF DownInv, Recovering, Alive
  <1>4. PlaceInv'
    BY <1>0, ThreadAssumption DEF PlaceInv, Recovering, Left
  <1>5. SnapInv'
    BY ThreadAssumption DEF SnapInv, Recovering
  <1>6. ForeignInv' /\ WorkInv'
    BY <1>0, ForeignStays, ThreadAssumption DEF Named, WorkInv
  <1>7. StartInv'
    BY ThreadAssumption DEF StartInv, InStart, Starting
  <1>8. EngineInv' /\ MonitorInv'
    BY DEF EngineInv, Alive, MonitorInv
  <1> HIDE DEF TypeOK, Crash, Exit
  <1> QED BY <1>1, <1>2, <1>3, <1>4, <1>5, <1>6, <1>7, <1>8

\* The recovery runs before anyone else does.
LEMMA RecoverStep ==
    ASSUME HelperInv, Recover \/ RecoverDone
    PROVE  HelperInv'
  <1> USE DEF HelperInv, TypeOK, Threads, Recover, RecoverDone, At, Goto, runtimeVars,
              workVars, fileVars, lifeVars
  <1>1. TypeOK'
    BY ZenonT(60), ThreadAssumption DEF Points, Items, NoEngine
  <1>2. LockInv'
    <2>1. CASE Recover
      BY <2>1, IdsDistinct, ThreadAssumption DEF LockInv, DownInv, Recovering
    <2>2. CASE RecoverDone
      BY <2>2, IdsDistinct, ThreadAssumption DEF LockInv, DownInv, Recovering
    <2> QED BY <2>1, <2>2
  <1>3. DownInv'
    BY ThreadAssumption DEF DownInv, Recovering, Alive
  <1>4. PlaceInv'
    BY ThreadAssumption DEF PlaceInv, Recovering, Ours, Left
  <1>5. EngineInv'
    BY ThreadAssumption DEF EngineInv, Alive
  <1>6. SnapInv'
    BY ThreadAssumption DEF SnapInv, Recovering
  <1>7. StartInv'
    BY ThreadAssumption DEF StartInv, InStart, Starting
  <1>8. MonitorInv'
    BY ThreadAssumption DEF MonitorInv
  <1>9. ForeignInv' /\ WorkInv'
    BY ThreadAssumption DEF ForeignInv, Named, WorkInv
  <1> HIDE DEF TypeOK, Recover, RecoverDone
  <1> QED BY <1>1, <1>2, <1>3, <1>4, <1>5, <1>6, <1>7, <1>8, <1>9

\* Another program's item only takes items of ours away; one made where the
\* helper names its own is exposed.
LEMMA OtherMakesStep ==
    ASSUME HelperInv, NEW i \in Items, OtherMakes(i)
    PROVE  HelperInv'
  <1> USE DEF HelperInv, TypeOK, Threads, OtherMakes, At, runtimeVars, workVars, fileVars
  <1>1. TypeOK'
    BY ThreadAssumption DEF Points, Items, NoEngine, OsValues
  <1>2. LockInv'
    BY ThreadAssumption DEF LockInv, Recovering
  <1>3. DownInv'
    BY ThreadAssumption DEF DownInv, Recovering, Alive
  <1>4. PlaceInv'
    <2>1. Ours' \subseteq Ours
      BY DEF Ours
    <2> QED BY <2>1 DEF PlaceInv, Recovering, Left
  <1>5. ForeignInv' /\ WorkInv'
    BY DEF ForeignInv, Named, WorkInv, Items
  <1>6. EngineInv' /\ SnapInv' /\ StartInv' /\ MonitorInv'
    BY ThreadAssumption DEF EngineInv, Alive, SnapInv, Recovering, StartInv, InStart,
       Starting, MonitorInv
  <1> HIDE DEF TypeOK, OtherMakes
  <1> QED BY <1>1, <1>2, <1>3, <1>4, <1>5, <1>6

-----------------------------------------------------------------------------
\* Every step keeps the invariant, by the lemma of its action.
LEMMA NextHelper == HelperInv /\ [Next]_vars => HelperInv'
  <1> SUFFICES ASSUME HelperInv, [Next]_vars PROVE HelperInv'
    OBVIOUS
  <1> USE DEF Threads
  <1>1. ASSUME NEW c \in Clients, Client(c) \/ start_tun(c) \/ StopRequest(c) PROVE HelperInv'
    BY <1>1, RequestStep, SpawnStep, StopTakeStep, StopDoneStep DEF Client, Stopping
  <1>2. ASSUME NEW w \in Workers, Worker(w) PROVE HelperInv'
    <2>1. CASE Setup(w)
      BY <2>1, WriteResolverStep, SaveResolversStep, AddRouteStep, GiveUpStep, WriteErrStep,
         SaveRoutesStep, WaitOkStep
      DEF Setup
    <2>2. CASE ~Setup(w)
      BY <1>2, <2>2, WorkerLockStep, SnapshotStep, EarlyErrStep, EngineOkStep, GiveUpStep,
         GaveUpStep, PublishStep, StartingDoneStep, ReportStep
      DEF Worker
    <2> QED BY <2>1, <2>2
  <1>3. ASSUME NEW w \in Workers, Stopping(w) \/ Monitor(w) \/ EngineDies(w) PROVE HelperInv'
    BY <1>3, StopTakeStep, StopDoneStep, MonitorLookStep, MonitorTakeStep, MonitorDoneStep,
       EngineDiesStep
    DEF Stopping, Monitor
  <1>4. CASE Serving \/ Restore \/ Crash \/ Recover
    BY <1>4, StopTakeStep, StopDoneStep, ServeEndsStep, DieStep, RecoverStep, RestoreFilesStep,
       RestoreDnsStep
    DEF Serving, Stopping, Restore
  <1>5. CASE UNCHANGED vars
    <2>1. UNCHANGED <<Ours, Recovering>> /\ (\A w \in Workers : Alive(w)' <=> Alive(w))
          /\ (\A t \in Threads : InStart(t)' <=> InStart(t)) /\ \A p : Left(p)' = Left(p)
      BY <1>5 DEF vars, fileVars, lifeVars, Ours, Recovering, At, Alive, InStart, Left
    <2> QED
      BY <1>5, <2>1
      DEF vars, runtimeVars, workVars, fileVars, lifeVars, HelperInv, TypeOK, LockInv, DownInv,
          PlaceInv, EngineInv, SnapInv, ForeignInv, Named, WorkInv, StartInv, MonitorInv
  <1> QED BY <1>1, <1>2, <1>3, <1>4, <1>5, OtherMakesStep DEF Next, ThreadStep

\* HelperInv holds in every reachable state.
THEOREM HelperInvariance == Spec => []HelperInv
  BY InitHelper, NextHelper, PTL DEF Spec

\* The variables of HelperRuntime keep their types.
THEOREM TypeCorrect == Spec => []TypeOK
  BY HelperInvariance, PTL DEF HelperInv

\* No path out of a start, a stop, an engine failure or a recovery forgets an
\* item: with the lock free, the files name all that is installed.
THEOREM ItemsAccounted == Spec => []Accounted
  <1>1. HelperInv => Accounted
    BY DEF HelperInv, PlaceInv, Accounted
  <1> QED BY <1>1, HelperInvariance, PTL

\* At most one engine exists: the published one, or that of the one start.
THEOREM SingleEngine == Spec => []OneEngine
  <1>1. HelperInv => OneEngine
    <2> SUFFICES ASSUME HelperInv, NEW v \in Workers, NEW w \in Workers, Alive(v), Alive(w)
                 PROVE  v = w
      BY DEF OneEngine
    <2> USE IdsDistinct DEF HelperInv, EngineInv, LockInv, Threads
    <2>1. CASE tun_engine # NoEngine
      BY <2>1
    <2>2. CASE tun_engine = NoEngine
      BY <2>2 DEF NoEngine, Workers
    <2> QED BY <2>1, <2>2
  <1> QED BY <1>1, HelperInvariance, PTL

\* A running VPN goes back to what the latest start found, unless an error or
\* the end of the process has left an old or a truncated snapshot in place.
THEOREM SnapshotIsFresh == Spec => []SnapshotFresh
  <1>1. HelperInv => SnapshotFresh
    <2> SUFFICES ASSUME HelperInv PROVE SnapshotFresh
      OBVIOUS
    <2>1. tun_engine # NoEngine => \A w \in Workers : pc[w] # "writing"
      BY IdsDistinct DEF HelperInv, EngineInv, LockInv, Threads
    <2>2. tun_engine # NoEngine => snapshot = "current" \/ (snapshot # "none" /\ blamed)
      BY <2>1 DEF HelperInv, TypeOK, SnapInv
    <2> QED BY <2>2 DEF HelperInv, SnapInv, SnapshotFresh, At
  <1> QED BY <1>1, HelperInvariance, PTL

-----------------------------------------------------------------------------
(* What a step may never do.                                               *)

\* The steps other than the end of the process and a failed write leave no
\* item unrecorded.
LEMMA LostShrinks ==
    ASSUME Next, ~Crash, ~Exit, \A w \in Workers : ~WriteErr(w)
    PROVE  lost' \subseteq lost
  <1>1. ASSUME NEW c \in Clients, Client(c) \/ start_tun(c) \/ StopRequest(c)
        PROVE  lost' \subseteq lost
    BY <1>1 DEF Client, start_tun, StopRequest, SpawnFails, Spawn, Stopping, StopTake,
       StopDone, Shutdown
  <1>2. ASSUME NEW w \in Workers, Setup(w) PROVE lost' \subseteq lost
    BY <1>2 DEF Setup, LookResolver, WriteResolver, SaveResolvers, AddRoute, AddRouteWarn,
                AddRouteErr, NoGateway, NodesErr, SaveRoutes, WaitOk, WaitErr
  <1>3. ASSUME NEW w \in Workers, Worker(w) PROVE lost' \subseteq lost
    BY <1>2, <1>3
    DEF Worker, WorkerLock, Snapshot, SnapshotWritten, WorkerEarlyErr, EngineErr, EngineOk, NoName,
        WorkerGaveUp, Publish, PublishErr, StartingDone, SpawnMonitor, SpawnMonitorFails, ReportFailure
  <1>4. ASSUME NEW w \in Workers, Stopping(w) \/ Monitor(w) \/ EngineDies(w)
        PROVE  lost' \subseteq lost
    BY <1>4 DEF Stopping, StopTake, StopDone, Monitor, MonitorSee, MonitorLeave,
       MonitorTake, MonitorDone, EngineDies
  <1>5. CASE Serving \/ Restore \/ Recover
    BY <1>5 DEF Serving, Stopping, StopTake, StopDone, ServeEnds, RecoverDone, Restore,
                RestoreRoutes, RestoreResolvers, RestoreDns, RestoreDnsErr, Recover
  <1> QED BY <1>1, <1>3, <1>4, <1>5 DEF Next, ThreadStep, OtherMakes

\* Outside the setting up of resolvers and routes, the files cover what is
\* ours.
MidSetup == \E w \in Workers : pc[w] \in Installing
LEMMA RecordedOutsideSetup ==
    HelperInv /\ ~MidSetup => Ours \subseteq routes \cup resolvers \cup lost
  <1> SUFFICES ASSUME HelperInv, ~MidSetup PROVE Ours \subseteq routes \cup resolvers \cup lost
    OBVIOUS
  <1> USE DEF HelperInv, PlaceInv, Left, MidSetup
  <1>1. CASE phase # "no"
    BY <1>1
  <1>2. CASE phase = "no" /\ op = Free
    BY <1>2 DEF LockInv, Recovering, At
  <1>3. CASE phase = "no" /\ op # Free
    <2>1. PICK t \in Threads : op = ThreadId(t)
      BY <1>3 DEF TypeOK, LockInv
    <2>2. pc[t] \in Locked \ Restoring
      BY <1>3, <2>1 DEF LockInv
    <2>3. t \in Workers
      BY <2>2 DEF StartInv, Starting
    <2> QED BY <2>2, <2>3
  <1> QED BY <1>1, <1>2, <1>3

\* An item is left unrecorded only by a start that is setting up resolvers
\* and routes, when the process ends or a list cannot be written.
THEOREM OrphansMidSetup == Spec => OrphansOnlyMidSetup
  <1>1. HelperInv /\ ~MidSetup => Ours \subseteq routes \cup resolvers \cup lost
    BY RecordedOutsideSetup
  <1>2. HelperInv /\ (Crash \/ Exit) => lost' \subseteq lost \/ MidSetup
    BY <1>1 DEF Crash, Exit, Die
  <1>3. ASSUME NEW w \in Workers, WriteErr(w) PROVE MidSetup
    BY <1>3 DEF WriteErr, At, MidSetup
  <1>4. HelperInv /\ [Next]_vars => [~(lost' \subseteq lost) => MidSetup]_vars
    BY <1>2, <1>3, LostShrinks DEF vars
  <1> QED BY <1>4, HelperInvariance, PTL DEF Spec, OrphansOnlyMidSetup, MidSetup

\* Whatever a step of the helper removes or overwrites, it names; so it spares
\* a resolver file of somebody else that was not made in such a place.
LEMMA ForeignSpared ==
    ASSUME HelperInv, Next, NEW d \in Domain, os[d] = "foreign", d \notin exposed
    PROVE  os'[d] = "foreign"
  <1> USE DEF HelperInv
  <1>0. d \in Items /\ d \notin Named /\ d \notin Tun \cup Node
    BY ItemAssumption DEF ForeignInv, Items
  <1>a. WithoutTun(os)[d] = "foreign"
    BY <1>0, NothingRemoved, WithoutTunRemoves DEF Spares
  <1>b. ASSUME NEW S \in SUBSET Named, Deleted(S) PROVE os'[d] = "foreign"
    BY <1>0, <1>b, DeletedRemoves DEF Spares
  <1>c. ASSUME NEW w \in Workers, NoName(w) \/ AddRouteErr(w) \/ NodesErr(w) \/ WaitErr(w)
               \/ WriteErr(w)
        PROVE  os'[d] = "foreign"
    <2>1. PICK T : T \subseteq looked \cup local /\ Spares(os', T)
      BY <1>c, GivenUp
    <2> QED BY <1>0, <2>1 DEF Named, Spares
  <1>1. ASSUME NEW c \in Clients, Client(c) \/ start_tun(c) \/ StopRequest(c)
        PROVE  os'[d] = "foreign"
    BY <1>1, <1>a DEF Client, start_tun, StopRequest, SpawnFails, Spawn, Stopping, StopTake,
       StopDone, Shutdown
  <1>2. ASSUME NEW w \in Workers, Setup(w) PROVE os'[d] = "foreign"
    <2>1. CASE \E e \in Domain : LookResolver(w, e) \/ WriteResolver(w, e)
      BY <2>1, <1>0 DEF LookResolver, WriteResolver, Named, TypeOK
    <2>2. CASE \E i \in Tun \cup Node : AddRoute(w, i) \/ AddRouteWarn(w, i)
      BY <2>2, <1>0 DEF AddRoute, AddRouteWarn, TypeOK
    <2>3. CASE AddRouteErr(w) \/ NodesErr(w) \/ WriteErr(w) \/ WaitErr(w)
      BY <2>3, <1>c
    <2>4. CASE SaveResolvers(w) \/ NoGateway(w) \/ SaveRoutes(w) \/ WaitOk(w)
      BY <2>4 DEF SaveResolvers, NoGateway, SaveRoutes, WaitOk
    <2> QED BY <1>2, <2>1, <2>2, <2>3, <2>4 DEF Setup
  <1>3. ASSUME NEW w \in Workers, Worker(w) PROVE os'[d] = "foreign"
    <2>1. CASE EngineErr(w) \/ EngineOk(w)
      BY <2>1, <1>b DEF EngineErr, EngineOk, Named
    <2> QED
      BY <1>2, <1>3, <1>c, <2>1
      DEF Worker, WorkerLock, Snapshot, SnapshotWritten, WorkerEarlyErr, WorkerGaveUp, Publish,
          PublishErr, StartingDone, SpawnMonitor, SpawnMonitorFails, ReportFailure
  <1>4. ASSUME NEW w \in Workers, Stopping(w) \/ Monitor(w) \/ EngineDies(w)
        PROVE  os'[d] = "foreign"
    BY <1>4, <1>a DEF Stopping, StopTake, StopDone, Monitor, MonitorSee, MonitorLeave,
       MonitorTake, MonitorDone, EngineDies
  <1>5. CASE Restore
    BY <1>5, <1>b DEF Restore, RestoreRoutes, RestoreResolvers, RestoreDns, RestoreDnsErr,
       Named
  <1>6. CASE Crash \/ Exit
    <2>1. PICK o \in CutShort(os) : os' = WithoutTun(o)
      BY <1>6 DEF Crash, Exit, Die
    <2>2. Spares(os', looked)
      BY <2>1, CutShortRemoves, WithoutTunRemoves
    <2> QED BY <1>0, <2>2 DEF Named, Spares
  <1>7. CASE Serving \/ Recover
    BY <1>6, <1>7, <1>a DEF Serving, Stopping, StopTake, StopDone, ServeEnds, RecoverDone,
       Recover
  <1>8. ASSUME NEW i \in Items, OtherMakes(i) PROVE os'[d] = "foreign"
    BY <1>0, <1>8 DEF OtherMakes, Others, TypeOK
  <1> QED BY <1>1, <1>3, <1>4, <1>5, <1>6, <1>7, <1>8 DEF Next, ThreadStep

\* A resolver file of the user or of another VPN survives every step, crashes
\* and recoveries included, whenever it was made; but for one written over a
\* file of ours or as ours is written.
THEOREM ForeignFilesSurvive == Spec => ForeignResolversKept
  <1>1. HelperInv /\ [Next]_vars
            => [\A d \in Domain : os[d] = "foreign" /\ d \notin exposed => os'[d] = "foreign"]_vars
    BY ForeignSpared
  <1> QED BY <1>1, HelperInvariance, PTL DEF Spec, ForeignResolversKept

\* Only stop_tun, a monitor with the lock and the end of the process take the
\* engine out of the helper.
LEMMA EngineTakenBy ==
    ASSUME Next, tun_engine # NoEngine, tun_engine' = NoEngine, up'
    PROVE  \/ \E t \in Threads : StopTake(t)
           \/ \E w \in Workers : MonitorTake(w)
  <1> USE DEF Threads, runtimeVars, RestoreRest
  <1>1. ASSUME NEW c \in Clients, Client(c) \/ start_tun(c) \/ StopRequest(c)
        PROVE  StopTake(c)
    BY <1>1 DEF Client, start_tun, StopRequest, SpawnFails, Spawn, Stopping, StopDone,
       Shutdown
  <1>2. ASSUME NEW w \in Workers, Setup(w) PROVE FALSE
    BY <1>2 DEF Setup, LookResolver, WriteResolver, SaveResolvers, AddRoute, AddRouteWarn,
                AddRouteErr, NoGateway, NodesErr, WriteErr, SaveRoutes, WaitOk, WaitErr
  <1>3. ASSUME NEW w \in Workers, Worker(w) PROVE FALSE
    BY <1>2, <1>3
    DEF Worker, WorkerLock, Snapshot, SnapshotWritten, WorkerEarlyErr, EngineErr, EngineOk, NoName,
        WorkerGaveUp, Publish, PublishErr, StartingDone, SpawnMonitor, SpawnMonitorFails, ReportFailure,
        NoEngine, Workers
  <1>4. ASSUME NEW w \in Workers, Stopping(w) \/ Monitor(w) \/ EngineDies(w)
        PROVE  StopTake(w) \/ MonitorTake(w)
    BY <1>4 DEF Stopping, StopDone, Monitor, MonitorSee, MonitorLeave, MonitorDone,
       EngineDies
  <1>5. CASE Serving \/ Restore \/ Crash \/ Recover
    BY <1>5 DEF Serving, Stopping, StopDone, ServeEnds, Exit, RecoverDone, Restore, Crash,
       Die, RestoreRoutes, RestoreResolvers, RestoreDns, RestoreDnsErr, Recover
  <1> QED BY <1>1, <1>3, <1>4, <1>5 DEF Next, ThreadStep, OtherMakes

\* A healthy engine is never taken away by its own monitor: a monitor that
\* waits for the lock has seen a failed engine, and the starts are in order.
THEOREM HealthyEngineIsKept == Spec => HealthyEngineKept
  <1> DEFINE Kept == tun_engine # NoEngine /\ tun_engine' = NoEngine /\ up' =>
                       \/ eng[tun_engine] # "live"
                       \/ \E t \in Threads : op' = ThreadId(t)
                       \/ \E w \in Workers : w < tun_engine /\ op' = MonitorId(w)
  <1>1. HelperInv /\ Next => Kept
    BY EngineTakenBy DEF HelperInv, MonitorInv, StopTake, MonitorTake
  <1>2. HelperInv /\ [Next]_vars => [Kept]_vars
    BY <1>1
  <1> QED BY <1>2, HelperInvariance, PTL DEF Spec, HealthyEngineKept

-----------------------------------------------------------------------------
(* MacHelper implements NetworkLease.                                      *)

\* The mode of the lease at each point of the program.
ModeInv ==
    /\ ~up <=> LeaseMode = "down"
    /\ op = Free /\ ~Recovering => LeaseMode = IF tun_engine = NoEngine THEN "off" ELSE "on"
    /\ \A t \in Threads : pc[t] \in Opening \cup Installed \cup Restoring => LeaseMode = "busy"
    /\ \A w \in Workers : /\ pc[w] \in Installing => LeaseMode = "setup"
                          /\ monitor[w] \in RestoringMonitor => LeaseMode = "busy"
    /\ phase # "no" => LeaseMode = "busy"

\* ModeInv only spells out what the lock says.
LEMMA ModeFromLock == HelperInv => ModeInv
  <1> SUFFICES ASSUME HelperInv PROVE ModeInv
    OBVIOUS
  <1> USE DEF HelperInv
  <1>1. Recovering <=> ~up \/ pc[Server] = "recover"
    BY DEF Recovering, At
  <1>2. /\ ~up <=> LeaseMode = "down"
        /\ op = Free /\ ~Recovering => LeaseMode = IF tun_engine = NoEngine THEN "off" ELSE "on"
    BY <1>1 DEF LeaseMode
  <1>3. ASSUME NEW t \in Threads, pc[t] \in Locked
        PROVE  /\ up /\ op # Free
               /\ \A w \in Workers : pc[w] \in Locked => w = t
    BY <1>3, IdsDistinct DEF LockInv, DownInv, Recovering, Threads
  <1>4. \A t \in Threads : pc[t] \in Opening \cup Installed \cup Restoring => LeaseMode = "busy"
    BY <1>3 DEF LeaseMode
  <1>5. \A w \in Workers : pc[w] \in Installing => LeaseMode = "setup"
    BY <1>3 DEF LeaseMode, Threads
  <1>6. ASSUME NEW w \in Workers, monitor[w] \in RestoringMonitor PROVE LeaseMode = "busy"
    BY <1>6, <1>3, IdsDistinct DEF LeaseMode, LockInv, DownInv, Recovering, Threads
  <1>7. ASSUME phase # "no" PROVE LeaseMode = "busy"
    <2>1. up /\ (op # Free \/ Recovering)
      BY <1>7 DEF LockInv, DownInv
    <2>2. \A w \in Workers : pc[w] \notin Installing
      BY <1>7 DEF LockInv, Threads
    <2> QED BY <2>1, <2>2 DEF LeaseMode
  <1> QED BY <1>2, <1>4, <1>5, <1>6, <1>7 DEF ModeInv

LeaseNext == [Lease!Next]_<<LeaseMode, Ours, Others, lost>>

\* What the steps that remove items do to the sets of items.
Shrinks == Ours' \subseteq Ours /\ Others' \subseteq Others
LEMMA DeletedShrinks ==
    ASSUME TypeOK, NEW S, Deleted(S) PROVE Shrinks
  BY DeletedRemoves, RemovedSets DEF Shrinks
LEMMA WithoutTunShrinks ==
    ASSUME TypeOK, os' = WithoutTun(os) PROVE Shrinks
  BY NothingRemoved, WithoutTunRemoves, RemovedSets DEF Shrinks
LEMMA GivenUpShrinks ==
    ASSUME TypeOK, NEW w \in Workers, NoName(w) \/ AddRouteErr(w) \/ NodesErr(w) \/ WaitErr(w)
           \/ WriteErr(w)
    PROVE  Shrinks
  <1>1. PICK S : Removed(os', S)
    BY GivenUp
  <1> QED BY <1>1, RemovedSets DEF Shrinks

\* A step that moves threads between points outside the lock is invisible.
LEMMA Unseen ==
    ASSUME UNCHANGED <<op, os, lost, up, tun_engine>>, Recovering' = Recovering,
           MidSetup' = MidSetup
    PROVE  LeaseNext
  BY DEF LeaseNext, LeaseMode, MidSetup, Ours, Others

\* The restoration, and stop_tun around it.
LEMMA RestoreLease ==
    ASSUME HelperInv, ModeInv, ModeInv', Restore PROVE LeaseNext
  <1> USE DEF HelperInv, LeaseNext
  <1>1. LeaseMode = "busy" /\ LeaseMode' = "busy" /\ lost' = lost
    BY DEF Restore, RestoreRoutes, RestoreResolvers, RestoreDns, RestoreDnsErr, ModeInv
  <1>2. Shrinks
    BY DeletedShrinks DEF Restore, RestoreRoutes, RestoreResolvers, RestoreDns,
       RestoreDnsErr, Shrinks, Ours, Others, fileVars
  <1> QED BY <1>1, <1>2 DEF Shrinks, Lease!Next, Lease!HelperStep, Lease!Remove

LEMMA StopLease ==
    ASSUME HelperInv, HelperInv', ModeInv, ModeInv', NEW t \in Threads, Stopping(t)
    PROVE  LeaseNext
  <1> USE DEF HelperInv, LeaseNext
  <1>1. CASE StopTake(t)
    <2>1. ~Recovering
      BY <1>1, ThreadAssumption DEF StopTake, At, DownInv, Recovering, Threads
    <2>2. LeaseMode \in {"off", "on"} /\ LeaseMode' = "busy"
      BY <1>1, <2>1 DEF StopTake, Goto, ModeInv, TypeOK
    <2>3. Shrinks /\ lost' = lost
      BY <1>1, WithoutTunShrinks DEF StopTake
    <2> QED BY <2>2, <2>3 DEF Shrinks, Lease!Next, Lease!HelperStep, Lease!Begin
  <1>2. CASE StopDone(t)
    <2>1. LeaseMode = "busy" /\ tun_engine = NoEngine /\ Ours \subseteq lost
      BY <1>2, IdsDistinct DEF StopDone, At, ModeInv, LockInv, EngineInv, PlaceInv, Left
    <2>2. op' = Free /\ ~Recovering'
      <3>1. ~Recovering
        BY <1>2, IdsDistinct DEF StopDone, At, LockInv, DownInv
      <3>2. pc'[Server] # "recover"
        BY <1>2, <3>1 DEF StopDone, Goto, AfterStop, Recovering, At, TypeOK, Threads
      <3> QED BY <1>2, <3>1, <3>2 DEF StopDone, Recovering, At, lifeVars
    <2>3. LeaseMode' = "off"
      BY <1>2, <2>1, <2>2 DEF StopDone, ModeInv, runtimeVars
    <2>4. Ours' = Ours /\ Others' = Others /\ lost' = lost
      BY <1>2 DEF StopDone, Ours, Others
    <2> QED BY <2>1, <2>3, <2>4 DEF Lease!Next, Lease!HelperStep, Lease!EndClean
  <1> QED BY <1>1, <1>2 DEF Stopping

\* Requests and shutdowns, outside the lock.
LEMMA ClientLease ==
    ASSUME HelperInv, HelperInv', ModeInv, ModeInv', NEW c \in Clients,
           Client(c) \/ start_tun(c) \/ StopRequest(c)
    PROVE  LeaseNext
  <1> USE DEF HelperInv
  <1>1. CASE Stopping(c)
    BY <1>1, StopLease DEF Threads
  <1>2. ASSUME NEW w \in Workers, Spawn(c, w) PROVE LeaseNext
    <2>1. /\ pc'[Server] = pc[Server]
          /\ \A v \in Workers : pc'[v] \in Installing <=> pc[v] \in Installing
      BY <1>2, ThreadAssumption DEF Spawn, Unused, TypeOK, Threads
    <2> QED BY <1>2, <2>1, Unseen DEF Spawn, Recovering, At, MidSetup, runtimeVars, lifeVars
  <1>3. CASE start_tun(c) \/ StopRequest(c) \/ SpawnFails(c) \/ Shutdown(c)
    <2>1. pc'[Server] = pc[Server] /\ \A v \in Workers : pc'[v] = pc[v]
      BY <1>3, ThreadAssumption
      DEF start_tun, StopRequest, SpawnFails, Shutdown, Goto, TypeOK, Threads
    <2> QED
      BY <1>3, <2>1, Unseen
      DEF start_tun, StopRequest, SpawnFails, Shutdown, Recovering, At, MidSetup,
          runtimeVars, lifeVars
  <1> QED BY <1>1, <1>2, <1>3 DEF Client

\* A start with the lock: its setup installs, saves, or is given up.
LEMMA SetupLease ==
    ASSUME HelperInv, HelperInv', ModeInv, ModeInv', NEW w \in Workers, Setup(w)
    PROVE  LeaseNext
  <1> USE DEF HelperInv, LeaseNext, Threads
  <1>1. ASSUME NEW d \in Domain, WriteResolver(w, d) PROVE LeaseNext
    <2>1. LeaseMode = "setup" /\ LeaseMode' = "setup" /\ lost' = lost
      BY <1>1 DEF WriteResolver, At, ModeInv
    <2>2. Ours' = Ours \cup {d} /\ Others' \subseteq Others
      BY <1>1 DEF WriteResolver, Ours, Others, TypeOK, Items
    <2> QED BY <2>1, <2>2 DEF Lease!Next, Lease!HelperStep, Lease!Install, Items
  <1>2. ASSUME NEW i \in Tun \cup Node, AddRoute(w, i) PROVE LeaseNext
    <2>1. LeaseMode = "setup" /\ LeaseMode' = "setup" /\ lost' = lost
      BY <1>2 DEF AddRoute, At, ModeInv
    <2>2. (Ours' = Ours \/ Ours' = Ours \cup {i}) /\ Others' = Others
      BY <1>2 DEF AddRoute, Ours, Others, TypeOK, Items
    <2> QED BY <2>1, <2>2 DEF Lease!Next, Lease!HelperStep, Lease!Install, Items
  <1>3. CASE \/ NoGateway(w) \/ \E i \in Tun \cup Node : AddRouteWarn(w, i)
             \/ \E d \in Domain : LookResolver(w, d)
    BY <1>3, Unseen DEF NoGateway, AddRouteWarn, LookResolver, Recovering, At, MidSetup,
       runtimeVars, lifeVars
  <1>4. CASE SaveResolvers(w) \/ SaveRoutes(w)
    <2>1. LeaseMode = "setup" /\ LeaseMode' \in {"setup", "busy"}
      BY <1>4 DEF SaveResolvers, SaveRoutes, At, Goto, ModeInv, TypeOK
    <2>2. Ours' = Ours /\ Others' = Others /\ lost' \subseteq lost
      BY <1>4 DEF SaveResolvers, SaveRoutes, Ours, Others
    <2> QED BY <2>1, <2>2 DEF Lease!Next, Lease!HelperStep, Lease!Save
  <1>5. CASE AddRouteErr(w) \/ NodesErr(w) \/ WriteErr(w)
    <2>1. LeaseMode = "setup" /\ LeaseMode' = "busy"
      BY <1>5 DEF AddRouteErr, NodesErr, WriteErr, NoRouteYet, GiveUp, At, ModeInv
    <2>2. Shrinks
      BY <1>5, GivenUpShrinks
    <2>3. lost \subseteq lost' /\ lost' \subseteq lost \cup Ours
      BY <1>5 DEF AddRouteErr, NodesErr, WriteErr
    <2> QED BY <2>1, <2>2, <2>3 DEF Shrinks, Lease!Next, Lease!HelperStep, Lease!Abort
  <1>6. CASE WaitErr(w)
    <2>1. LeaseMode = "busy" /\ LeaseMode' = "busy" /\ lost' = lost
      BY <1>6 DEF WaitErr, GiveUp, At, ModeInv
    <2>2. Shrinks
      BY <1>6, GivenUpShrinks
    <2> QED BY <2>1, <2>2 DEF Shrinks, Lease!Next, Lease!HelperStep, Lease!Remove
  <1>7. CASE WaitOk(w)
    <2>1. LeaseMode = "busy" /\ LeaseMode' = "busy" /\ lost' = lost
      BY <1>7 DEF WaitOk, At, Goto, ModeInv, TypeOK
    <2> QED BY <1>7, <2>1 DEF WaitOk, Ours, Others
  <1> QED BY <1>1, <1>2, <1>3, <1>4, <1>5, <1>6, <1>7 DEF Setup

\* The other steps of a start.
LEMMA WorkerLease ==
    ASSUME HelperInv, HelperInv', ModeInv, ModeInv', NEW w \in Workers, Worker(w)
    PROVE  LeaseNext
  <1> USE DEF HelperInv, LeaseNext, Threads
  <1>s. w # Server
    BY ThreadAssumption
  \* Who runs a start is not recovering; a start that ends has the lock.
  <1>r. pc[w] \notin {"unused", "ended"} => ~Recovering
    BY DEF DownInv
  <1>f. ASSUME op' = Free, UNCHANGED lifeVars, ~Recovering,
               \E p \in Points : Goto(w, p)
        PROVE  LeaseMode' = IF tun_engine' = NoEngine THEN "off" ELSE "on"
    <2>1. ~Recovering'
      BY <1>f, <1>s DEF Recovering, At, Goto, lifeVars, TypeOK
    <2> QED BY <1>f, <2>1 DEF ModeInv
  <1>1. CASE WorkerLock(w)
    <2>1. CASE tun_engine = NoEngine
      <3>1. LeaseMode \in {"off", "on"} /\ LeaseMode' = "busy"
        BY <1>1, <2>1, <1>r DEF WorkerLock, At, Goto, ModeInv, TypeOK
      <3> QED BY <1>1, <3>1 DEF WorkerLock, Ours, Others, Lease!Next, Lease!HelperStep, Lease!Begin
    <2>2. CASE tun_engine # NoEngine
      <3>1. pc'[Server] = pc[Server] /\ MidSetup' = MidSetup
        BY <1>1, <2>2, <1>s DEF WorkerLock, At, Goto, TypeOK, MidSetup
      <3> QED BY <1>1, <2>2, <3>1, Unseen DEF WorkerLock, Recovering, At, runtimeVars, lifeVars
    <2> QED BY <2>1, <2>2
  <1>2. CASE Snapshot(w) \/ SnapshotWritten(w)
    <2>1. LeaseMode = "busy" /\ LeaseMode' = "busy" /\ lost' = lost
      BY <1>2 DEF Snapshot, SnapshotWritten, At, Goto, ModeInv, TypeOK
    <2> QED BY <1>2, <2>1 DEF Snapshot, SnapshotWritten, Ours, Others
  <1>3. CASE WorkerEarlyErr(w) \/ EngineErr(w)
    <2>1. LeaseMode = "busy" /\ LeaseMode' \in {"off", "on"} /\ lost' = lost
      BY <1>3, <1>r, <1>f DEF WorkerEarlyErr, EngineErr, At, ModeInv, Points
    <2>2. Shrinks
      BY <1>3, DeletedShrinks DEF WorkerEarlyErr, EngineErr, Shrinks, Ours, Others
    <2>3. Ours \subseteq lost
      BY <1>3 DEF WorkerEarlyErr, EngineErr, At, PlaceInv
    <2> QED BY <2>1, <2>2, <2>3 DEF Shrinks, Lease!Next, Lease!HelperStep, Lease!EndClean
  <1>4. CASE EngineOk(w)
    <2>1. LeaseMode = "busy" /\ lost' = lost /\ Ours \subseteq lost
      BY <1>4 DEF EngineOk, At, ModeInv, PlaceInv
    <2>2. CASE Goto(w, "resolvers") /\ Deleted(routes \cup resolvers)
      <3>1. LeaseMode' = "setup"
        BY <2>2 DEF Goto, ModeInv, TypeOK
      <3>2. Shrinks
        BY <2>2, DeletedShrinks
      <3> QED BY <2>1, <3>1, <3>2 DEF Shrinks, Lease!Next, Lease!HelperStep, Lease!BeginSetup
    <2>3. CASE Goto(w, "publish") /\ os' = os
      <3>1. LeaseMode' = "busy"
        BY <2>3 DEF Goto, ModeInv, TypeOK
      <3> QED BY <2>1, <2>3, <3>1 DEF Ours, Others
    <2> QED BY <1>4, <2>2, <2>3 DEF EngineOk
  <1>5. CASE NoName(w)
    <2>1. LeaseMode = "busy" /\ LeaseMode' = "busy" /\ lost' = lost
      BY <1>5 DEF NoName, GiveUp, At, ModeInv
    <2>2. Shrinks
      BY <1>5, GivenUpShrinks
    <2> QED BY <2>1, <2>2 DEF Shrinks, Lease!Next, Lease!HelperStep, Lease!Remove
  <1>6. CASE WorkerGaveUp(w)
    <2>1. LeaseMode = "busy" /\ LeaseMode' \in {"off", "on"} /\ lost' = lost
      BY <1>6, <1>r, <1>f DEF WorkerGaveUp, At, ModeInv, Points
    <2>2. Ours' = Ours /\ Others' = Others /\ Ours \subseteq lost
      BY <1>6 DEF WorkerGaveUp, Ours, Others, PlaceInv, Left
    <2> QED BY <2>1, <2>2 DEF Lease!Next, Lease!HelperStep, Lease!EndClean
  <1>7. CASE Publish(w) \/ PublishErr(w)
    <2>1. LeaseMode = "busy" /\ LeaseMode' = "on" /\ lost' = lost
      <3>1. w # NoEngine
        BY DEF NoEngine, Workers
      <3> QED BY <1>7, <3>1, <1>r, <1>f DEF Publish, PublishErr, At, ModeInv, Points
    <2> QED BY <1>7, <2>1 DEF Publish, PublishErr, Ours, Others, Lease!Next, Lease!HelperStep, Lease!EndUp
  <1>8. CASE StartingDone(w) \/ SpawnMonitor(w) \/ SpawnMonitorFails(w) \/ ReportFailure(w)
    <2>1. pc'[Server] = pc[Server] /\ MidSetup' = MidSetup
      BY <1>8, <1>s
      DEF StartingDone, SpawnMonitor, SpawnMonitorFails, ReportFailure, At, Goto, TypeOK, MidSetup
    <2>2. UNCHANGED <<op, os, lost, up, tun_engine>>
      BY <1>8
      DEF StartingDone, SpawnMonitor, SpawnMonitorFails, ReportFailure, runtimeVars, lifeVars
    <2> QED BY <2>1, <2>2, Unseen DEF Recovering, At
  <1> QED BY <1>1, <1>2, <1>3, <1>4, <1>5, <1>6, <1>7, <1>8, SetupLease DEF Worker

\* The steps of monitors.
LEMMA MonitorLease ==
    ASSUME HelperInv, HelperInv', ModeInv, ModeInv', NEW w \in Workers, Monitor(w)
    PROVE  LeaseNext
  <1> USE DEF HelperInv, LeaseNext
  <1>r. monitor[w] # "none" => ~Recovering
    BY DEF DownInv
  <1>1. CASE MonitorSee(w) \/ MonitorLeave(w)
    BY <1>1, Unseen
    DEF MonitorSee, MonitorLeave, Recovering, At, MidSetup, runtimeVars, lifeVars
  <1>2. CASE MonitorTake(w)
    <2>1. LeaseMode \in {"off", "on"} /\ LeaseMode' = "busy"
      BY <1>2, <1>r DEF MonitorTake, ModeInv
    <2>2. Shrinks /\ lost' = lost
      BY <1>2, WithoutTunShrinks DEF MonitorTake
    <2> QED BY <2>1, <2>2 DEF Shrinks, Lease!Next, Lease!HelperStep, Lease!Begin
  <1>3. CASE MonitorDone(w)
    <2>1. LeaseMode = "busy" /\ Ours \subseteq lost
      BY <1>3 DEF MonitorDone, ModeInv, PlaceInv, Left
    <2>2. LeaseMode' \in {"off", "on"}
      BY <1>3, <1>r DEF MonitorDone, ModeInv, Recovering, At, lifeVars
    <2>3. Ours' = Ours /\ Others' = Others /\ lost' = lost
      BY <1>3 DEF MonitorDone, Ours, Others
    <2> QED BY <2>1, <2>2, <2>3 DEF Lease!Next, Lease!HelperStep, Lease!EndClean
  <1> QED BY <1>1, <1>2, <1>3 DEF Monitor

\* The end of the process, the recovery by the next one, the failure of an
\* engine.
LEMMA LifeLease ==
    ASSUME HelperInv, HelperInv', ModeInv, ModeInv',
           \/ Crash \/ Exit \/ Recover \/ RecoverDone \/ ServeEnds
           \/ (\E w \in Workers : EngineDies(w)) \/ UNCHANGED vars
    PROVE  LeaseNext
  <1> USE DEF HelperInv, LeaseNext
  <1>1. CASE Crash \/ Exit
    <2>1. LeaseMode # "down" /\ LeaseMode' = "down"
      BY <1>1 DEF Crash, Exit, Die, At, DownInv, ModeInv
    <2>2. /\ Ours' \subseteq Ours \ Tun /\ Others' \subseteq Others
          /\ Ours \ (Tun \cup lost) \subseteq Ours'
      <3>1. PICK o \in CutShort(os) : os' = WithoutTun(o)
        BY <1>1 DEF Crash, Exit, Die
      <3>2. Ours' \subseteq Ours \ Tun /\ Others' \subseteq Others
        <4>1. Removed(o, {}) /\ Spares(o, looked)
          BY CutShortRemoves
        <4>2. Removed(os', {} \cup Tun)
          BY <3>1, <4>1, WithoutTunRemoves
        <4> QED BY <4>2, RemovedSets
      <3>3. looked \cap Ours \subseteq lost
        BY DEF WorkInv, PlaceInv
      <3>4. \A i \in Items \ (Tun \cup looked) : os[i] = "ours" => os'[i] = "ours"
        BY <3>1 DEF CutShort, WithoutTun
      <3> QED BY <3>2, <3>3, <3>4 DEF Ours
    <2>3. lost' = lost \cup (Ours \ (Tun \cup routes \cup resolvers))
      BY <1>1 DEF Crash, Exit, Die
    <2>4. LeaseMode # "setup" => Ours \subseteq routes \cup resolvers \cup lost
      BY RecordedOutsideSetup DEF MidSetup, ModeInv
    <2>5. lost \subseteq lost' /\ lost' \subseteq lost \cup IF LeaseMode = "setup" THEN Ours ELSE {}
      BY <2>3, <2>4
    <2> QED BY <2>1, <2>2, <2>5 DEF Lease!Next, Lease!HelperStep, Lease!Crash
  <1>2. CASE Recover
    <2>1. LeaseMode = "down" /\ LeaseMode' = "busy"
      BY <1>2 DEF Recover, ModeInv
    <2> QED BY <1>2, <2>1 DEF Recover, Ours, Others, Lease!Next, Lease!HelperStep, Lease!Recover
  <1>3. CASE RecoverDone
    <2>1. LeaseMode = "busy" /\ Ours \subseteq lost /\ op = Free /\ up
      BY <1>3 DEF RecoverDone, At, ModeInv, PlaceInv, Left, DownInv, Recovering
    <2>2. ~Recovering'
      BY <1>3, <2>1 DEF RecoverDone, Goto, At, Recovering, TypeOK, Threads, lifeVars
    <2>3. LeaseMode' \in {"off", "on"}
      BY <1>3, <2>1, <2>2 DEF RecoverDone, ModeInv
    <2>4. Ours' = Ours /\ Others' = Others /\ lost' = lost
      BY <1>3 DEF RecoverDone, Ours, Others
    <2> QED BY <2>1, <2>3, <2>4 DEF Lease!Next, Lease!HelperStep, Lease!EndClean
  <1>4. CASE ServeEnds
    <2>1. Recovering' = Recovering /\ MidSetup' = MidSetup
      BY <1>4, ThreadAssumption
      DEF ServeEnds, At, Goto, Recovering, MidSetup, TypeOK, Threads, lifeVars
    <2> QED BY <1>4, <2>1, Unseen DEF ServeEnds, runtimeVars, lifeVars
  <1>5. ASSUME NEW w \in Workers, EngineDies(w) PROVE LeaseNext
    BY <1>5, Unseen DEF EngineDies, Recovering, At, MidSetup, runtimeVars, lifeVars
  <1>6. CASE UNCHANGED vars
    BY <1>6, Unseen DEF vars, Recovering, At, MidSetup, runtimeVars, lifeVars
  <1> QED BY <1>1, <1>2, <1>3, <1>4, <1>5, <1>6

\* Another program makes an item.
LEMMA OtherMakesLease ==
    ASSUME HelperInv, NEW i \in Items, OtherMakes(i)
    PROVE  LeaseNext
  <1>1. LeaseMode' = LeaseMode /\ lost' = lost
    BY DEF OtherMakes, LeaseMode, Recovering, At, runtimeVars
  <1>2. i \notin Others /\ Others' = Others \cup {i} /\ Ours' = Ours \ {i}
    BY DEF HelperInv, TypeOK, OtherMakes, Ours, Others
  <1> QED BY <1>1, <1>2 DEF LeaseNext, Lease!Next, Lease!Taken

\* HelperRuntime implements NetworkLease, for any threads, starts, crashes,
\* routes and resolver files.
THEOREM LeaseIsKept == Spec => LeaseKept
  <1>1. Init => Lease!Init
    BY ThreadAssumption DEF Init, Lease!Init, LeaseMode, Recovering, At, Ours, Others,
       Threads
  <1>2. HelperInv /\ HelperInv' /\ ModeInv /\ ModeInv' /\ [Next]_vars
            => [Lease!Next]_<<LeaseMode, Ours, Others, lost>>
    <2> SUFFICES ASSUME HelperInv, HelperInv', ModeInv, ModeInv', [Next]_vars PROVE LeaseNext
      BY DEF LeaseNext
    <2>1. ASSUME NEW t \in Threads, Stopping(t) PROVE LeaseNext
      BY <2>1, StopLease
    <2>2. CASE Serving
      BY <2>2, <2>1, LifeLease DEF Serving, Threads
    <2>3. CASE ThreadStep
      BY <2>1, <2>2, <2>3, ClientLease, WorkerLease, MonitorLease, RestoreLease
      DEF ThreadStep, Threads
    <2> QED BY <2>3, ClientLease, LifeLease, OtherMakesLease DEF Next
  <1> QED BY <1>1, <1>2, ModeFromLock, HelperInvariance, PTL DEF Spec, LeaseKept, Lease!Spec
=============================================================================
