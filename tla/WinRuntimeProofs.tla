-------------------------- MODULE WinRuntimeProofs --------------------------
(***************************************************************************)
(* InstalledIsOwned and RecordCovers for any number of clients, starts,    *)
(* stops, crashes and routes, the two action properties about crashes and  *)
(* the routes of other programs, and the refinement of NetworkLease.       *)
(*                                                                         *)
(* Neither invariant is inductive: a thread that holds `operation` breaks  *)
(* RecordCovers on purpose, and publishing overwrites `network`.  OwnInv   *)
(* says, for each point at which a thread can hold the lock, where the     *)
(* items of ours are; what a crash can orphan is read off it.  ForeignInv  *)
(* says that no undo still to be run names a route of another program.     *)
(* AliveInv, for the refinement, says which engines keep the adapter open. *)
(***************************************************************************)
EXTENDS WinRuntime, TLAPS

\* Program points that hold the operation lock.
LockedWorker == {"clean", "start", "install", "bad", "verify", "publish"}

\* Who holds the lock is known from the program counters.
LockInv ==
    /\ \A w \in Workers : worker[w] \in LockedWorker <=> op = WorkerId(w)
    /\ \A w \in Workers : monitor[w] = "undo" <=> op = MonitorId(w)
    /\ \A c \in Clients : client[c] = "s_undo" <=> op = ClientId(c)

\* What is true whenever the lock is free, and when it has just been taken.
Settled ==
    /\ local = {}
    /\ Ours \subseteq network \cup lost
    /\ Ours \subseteq record \cup lost

\* Where the items of ours are at each point under the lock.
PlaceInv ==
    /\ up /\ op = Free => Settled
    /\ \A w \in Workers :
        /\ worker[w] = "clean" => Settled
        /\ worker[w] = "start" => local = {} /\ Ours \subseteq lost
        /\ worker[w] \in {"install", "bad"} => Ours \subseteq local \cup lost
        /\ worker[w] \in {"verify", "publish"} => /\ Ours \subseteq local \cup lost
                                                  /\ Ours \subseteq record \cup lost
        /\ monitor[w] = "undo" => /\ Ours \subseteq local \cup lost
                                  /\ Ours \subseteq record \cup lost
    /\ \A c \in Clients : client[c] = "s_undo" => /\ Ours \subseteq local \cup lost
                                                 /\ Ours \subseteq record \cup lost

\* After a crash only recorded items, the NRPT rule and orphans are left.
DownInv == ~up => /\ op = Free /\ local = {} /\ network = {} /\ engine = NoEngine
                  /\ Ours \subseteq record \cup {Nrpt} \cup lost
                  /\ \A w \in Workers : /\ worker[w] \in {"unused", "ended"}
                                        /\ monitor[w] = "none"

OwnInv == TypeOK /\ LockInv /\ PlaceInv /\ DownInv

-----------------------------------------------------------------------------
\* The identities of lock holders are distinct.
LEMMA HoldersDistinct ==
    /\ \A w \in Workers : /\ WorkerId(w) # Free /\ MonitorId(w) # Free
                          /\ \A v \in Workers : /\ WorkerId(w) # MonitorId(v)
                                                /\ WorkerId(w) = WorkerId(v) => w = v
                                                /\ MonitorId(w) = MonitorId(v) => w = v
    /\ \A c \in Clients : /\ ClientId(c) # Free
                          /\ \A d \in Clients : ClientId(c) = ClientId(d) => c = d
                          /\ \A w \in Workers : /\ ClientId(c) # WorkerId(w)
                                                /\ ClientId(c) # MonitorId(w)
  BY DEF Free, ClientId, WorkerId, MonitorId

\* Undoing a set of items leaves none of them as ours, and nothing else is
\* touched; what is left of other programs was theirs before.
LEMMA UndoRemoves ==
    ASSUME NEW o \in [Items -> OsValues], NEW S, NEW F
    PROVE  /\ Undo(o, S, F) \in [Items -> OsValues]
           /\ \A i \in Items : Undo(o, S, F)[i] = "ours" <=> o[i] = "ours" /\ i \notin S
           /\ \A i \in Items : Undo(o, S, F)[i] = "foreign" => o[i] = "foreign"
           /\ \A i \in Items : o[i] = "foreign" /\ i \notin S => Undo(o, S, F)[i] = "foreign"
  BY DEF Undo, OsValues

\* The same of a clean-up, whichever of its removals fail.
LEMMA CleanUpRemoves ==
    ASSUME NEW o \in [Items -> OsValues], NEW S, UndoNetwork(o, S)
    PROVE  /\ os' \in [Items -> OsValues]
           /\ \A i \in Items : os'[i] = "ours" <=> o[i] = "ours" /\ i \notin S
           /\ \A i \in Items : os'[i] = "foreign" => o[i] = "foreign"
           /\ \A i \in Items : o[i] = "foreign" /\ i \notin S => os'[i] = "foreign"
  <1>1. PICK F \in SUBSET S : os' = Undo(o, S, F)
    BY DEF UndoNetwork
  <1> QED BY <1>1, UndoRemoves

\* Losing the adapter never adds an item of ours.
LEMMA AdapterShrinks ==
    ASSUME NEW o \in [Items -> OsValues], NEW e
    PROVE  /\ WithoutAdapter(o, e) \in [Items -> OsValues]
           /\ \A i \in Items : WithoutAdapter(o, e)[i] = "ours" => o[i] = "ours"
  BY UndoRemoves DEF WithoutAdapter, Unplug

\* StopEngine and Drop keep the type of the engine table.
LEMMA EngineTableType ==
    ASSUME NEW e \in [Workers -> {"none", "live", "dead", "stopped"}],
           NEW v, NEW g, NEW wk, NEW m
    PROVE  /\ StopEngine(e, v) \in [Workers -> {"none", "live", "dead", "stopped"}]
           /\ Drop(e, g, wk, m) \in [Workers -> {"none", "live", "dead", "stopped"}]
  BY DEF StopEngine, Drop

\* The runtime of a helper that has just been installed satisfies the invariant.
LEMMA InitOwn == Init => OwnInv
  BY HoldersDistinct DEF Init, OwnInv, TypeOK, LockInv, PlaceInv, DownInv, Settled, Ours, Items,
      NoRecord, LockedWorker, NoEngine, OsValues

-----------------------------------------------------------------------------
\* Each kind of step keeps OwnInv.  Type, lock and place are shown one by one.

\* begin_start only marks the state Starting: no item changes hands.
LEMMA BeginStartOwn ==
    ASSUME OwnInv, NEW c \in Clients, BeginStart(c) PROVE OwnInv'
  <1> USE DEF BeginStart, ClientAt, Goto, stateVars, lockVars, procVars, diskVars, lifeVars
  <1>1. TypeOK'
    BY EngineTableType, CleanUpRemoves, AdapterShrinks, BoundAssumption
    DEF OwnInv, TypeOK, Items, NoEngine, Workers, OsValues
  <1>2. LockInv'
    BY HoldersDistinct DEF OwnInv, TypeOK, LockInv, LockedWorker
  <1>3. PlaceInv'
    BY HoldersDistinct, CleanUpRemoves, AdapterShrinks
    DEF OwnInv, TypeOK, LockInv, PlaceInv, Settled, Ours, LockedWorker, DownInv
  <1>4. DownInv'
    BY DEF OwnInv, TypeOK, DownInv, Ours
  <1> QED BY <1>1, <1>2, <1>3, <1>4 DEF OwnInv

\* A start whose thread cannot be created holds nothing.
LEMMA SpawnFailsOwn ==
    ASSUME OwnInv, NEW c \in Clients, SpawnFails(c) PROVE OwnInv'
  <1> USE DEF SpawnFails, ClientAt, Goto, stateVars, lockVars, procVars, diskVars, lifeVars
  <1>1. TypeOK'
    BY EngineTableType, CleanUpRemoves, AdapterShrinks, BoundAssumption
    DEF OwnInv, TypeOK, Items, NoEngine, Workers, OsValues
  <1>2. LockInv'
    BY HoldersDistinct DEF OwnInv, TypeOK, LockInv, LockedWorker
  <1>3. PlaceInv'
    BY HoldersDistinct, CleanUpRemoves, AdapterShrinks
    DEF OwnInv, TypeOK, LockInv, PlaceInv, Settled, Ours, LockedWorker, DownInv
  <1>4. DownInv'
    BY DEF OwnInv, TypeOK, DownInv, Ours
  <1> QED BY <1>1, <1>2, <1>3, <1>4 DEF OwnInv

\* stop's new generation changes no item.
LEMMA StopBumpOwn ==
    ASSUME OwnInv, NEW c \in Clients, StopBump(c) PROVE OwnInv'
  <1> USE DEF StopBump, ClientAt, Goto, stateVars, lockVars, procVars, diskVars, lifeVars
  <1>1. TypeOK'
    BY EngineTableType, CleanUpRemoves, AdapterShrinks, BoundAssumption
    DEF OwnInv, TypeOK, Items, NoEngine, Workers, OsValues
  <1>2. LockInv'
    BY HoldersDistinct DEF OwnInv, TypeOK, LockInv, LockedWorker
  <1>3. PlaceInv'
    BY HoldersDistinct, CleanUpRemoves, AdapterShrinks
    DEF OwnInv, TypeOK, LockInv, PlaceInv, Settled, Ours, LockedWorker, DownInv
  <1>4. DownInv'
    BY DEF OwnInv, TypeOK, DownInv, Ours
  <1> QED BY <1>1, <1>2, <1>3, <1>4 DEF OwnInv

\* stop's status change takes nothing from anyone.
LEMMA StopMarkOwn ==
    ASSUME OwnInv, NEW c \in Clients, StopMark(c) PROVE OwnInv'
  <1> USE DEF StopMark, ClientAt, Goto, stateVars, lockVars, procVars, diskVars, lifeVars
  <1>1. TypeOK'
    BY EngineTableType, CleanUpRemoves, AdapterShrinks, BoundAssumption
    DEF OwnInv, TypeOK, Items, NoEngine, Workers, OsValues
  <1>2. LockInv'
    BY HoldersDistinct DEF OwnInv, TypeOK, LockInv, LockedWorker
  <1>3. PlaceInv'
    BY HoldersDistinct, CleanUpRemoves, AdapterShrinks
    DEF OwnInv, TypeOK, LockInv, PlaceInv, Settled, Ours, LockedWorker, DownInv
  <1>4. DownInv'
    BY DEF OwnInv, TypeOK, DownInv, Ours
  <1> QED BY <1>1, <1>2, <1>3, <1>4 DEF OwnInv

\* stop takes the engine and its items under the lock; they pass to its hands.
LEMMA StopTakeOwn ==
    ASSUME OwnInv, NEW c \in Clients, StopTake(c) PROVE OwnInv'
  <1> USE DEF StopTake, ClientAt, Goto, stateVars, lockVars, procVars, diskVars, lifeVars
  <1>1. TypeOK'
    <2>1. eng' \in [Workers -> {"none", "live", "dead", "stopped"}]
      BY EngineTableType DEF OwnInv, TypeOK
    <2>2. os' \in [Items -> OsValues]
      BY CleanUpRemoves, AdapterShrinks DEF OwnInv, TypeOK, UndoRecord
    <2> QED BY <2>1, <2>2 DEF OwnInv, TypeOK
  <1>2. LockInv'
    BY HoldersDistinct DEF OwnInv, TypeOK, LockInv, LockedWorker
  <1>3. PlaceInv'
    BY HoldersDistinct, CleanUpRemoves, AdapterShrinks
    DEF OwnInv, TypeOK, LockInv, PlaceInv, Settled, Ours, LockedWorker, DownInv
  <1>4. DownInv'
    BY DEF OwnInv, TypeOK, DownInv, Ours
  <1> QED BY <1>1, <1>2, <1>3, <1>4 DEF OwnInv

\* stop undoes what it took, empties the record and lets go of the lock.
LEMMA StopUndoOwn ==
    ASSUME OwnInv, NEW c \in Clients, StopUndo(c) PROVE OwnInv'
  <1> USE DEF StopUndo, ClientAt, Goto, NoRecord, stateVars, lockVars, procVars, diskVars, lifeVars
  <1>1. TypeOK'
    <2>1. eng' \in [Workers -> {"none", "live", "dead", "stopped"}]
      BY EngineTableType DEF OwnInv, TypeOK
    <2>2. os' \in [Items -> OsValues]
      BY CleanUpRemoves, AdapterShrinks DEF OwnInv, TypeOK, UndoRecord
    <2> QED BY <2>1, <2>2 DEF OwnInv, TypeOK
  <1>2. LockInv'
    BY HoldersDistinct DEF OwnInv, TypeOK, LockInv, LockedWorker
  <1>3. PlaceInv'
    BY HoldersDistinct, CleanUpRemoves, AdapterShrinks
    DEF OwnInv, TypeOK, LockInv, PlaceInv, Settled, Ours, LockedWorker, DownInv
  <1>4. DownInv'
    BY DEF OwnInv, TypeOK, DownInv, Ours
  <1> QED BY <1>1, <1>2, <1>3, <1>4 DEF OwnInv

\* cleanup_leftovers undoes the record under the lock.
LEMMA CleanupLeftoversOwn ==
    ASSUME OwnInv, NEW c \in Clients, CleanupLeftovers(c) PROVE OwnInv'
  <1> USE DEF CleanupLeftovers, ClientAt, Goto, NoRecord, UndoRecord, stateVars, lockVars,
             procVars, diskVars, lifeVars
  <1>1. TypeOK'
    <2>1. eng' \in [Workers -> {"none", "live", "dead", "stopped"}]
      BY EngineTableType DEF OwnInv, TypeOK
    <2>2. os' \in [Items -> OsValues]
      BY CleanUpRemoves, AdapterShrinks DEF OwnInv, TypeOK
    <2> QED BY <2>1, <2>2 DEF OwnInv, TypeOK
  <1>2. LockInv'
    BY HoldersDistinct DEF OwnInv, TypeOK, LockInv, LockedWorker
  <1>3. PlaceInv'
    BY HoldersDistinct, CleanUpRemoves, AdapterShrinks
    DEF OwnInv, TypeOK, LockInv, PlaceInv, Settled, Ours, LockedWorker, DownInv
  <1>4. DownInv'
    BY DEF OwnInv, TypeOK, DownInv, Ours
  <1> QED BY <1>1, <1>2, <1>3, <1>4 DEF OwnInv

\* A failing engine removes no route by itself.
LEMMA EngineDiesOwn ==
    ASSUME OwnInv, NEW w \in Workers, EngineDies(w) PROVE OwnInv'
  <1> USE DEF EngineDies, stateVars, lockVars, procVars, diskVars, lifeVars
  <1>1. TypeOK'
    BY EngineTableType, CleanUpRemoves, AdapterShrinks, BoundAssumption
    DEF OwnInv, TypeOK, Items, NoEngine, Workers, OsValues
  <1>2. LockInv'
    BY HoldersDistinct DEF OwnInv, TypeOK, LockInv, LockedWorker
  <1>3. PlaceInv'
    BY HoldersDistinct, CleanUpRemoves, AdapterShrinks
    DEF OwnInv, TypeOK, LockInv, PlaceInv, Settled, Ours, LockedWorker, DownInv
  <1>4. DownInv'
    BY DEF OwnInv, TypeOK, DownInv, Ours
  <1> QED BY <1>1, <1>2, <1>3, <1>4 DEF OwnInv

\* The start thread gets the lock only when nobody has it.
LEMMA WorkerLockOwn ==
    ASSUME OwnInv, NEW w \in Workers, WorkerLock(w) PROVE OwnInv'
  <1> USE DEF WorkerLock, WGoto, stateVars, lockVars, procVars, diskVars, lifeVars
  <1>1. TypeOK'
    BY EngineTableType, CleanUpRemoves, AdapterShrinks, BoundAssumption
    DEF OwnInv, TypeOK, Items, NoEngine, Workers, OsValues
  <1>2. LockInv'
    BY HoldersDistinct DEF OwnInv, TypeOK, LockInv, LockedWorker
  <1>3. PlaceInv'
    BY HoldersDistinct, CleanUpRemoves, AdapterShrinks
    DEF OwnInv, TypeOK, LockInv, PlaceInv, Settled, Ours, LockedWorker, DownInv
  <1>4. DownInv'
    BY DEF OwnInv, TypeOK, DownInv, Ours
  <1> QED BY <1>1, <1>2, <1>3, <1>4 DEF OwnInv

\* A start cancelled before it began has installed nothing.
LEMMA WorkerCancelledOwn ==
    ASSUME OwnInv, NEW w \in Workers, WorkerCancelled(w) PROVE OwnInv'
  <1> USE DEF WorkerCancelled, WGoto, stateVars, lockVars, procVars, diskVars, lifeVars
  <1>1. TypeOK'
    BY EngineTableType, CleanUpRemoves, AdapterShrinks, BoundAssumption
    DEF OwnInv, TypeOK, Items, NoEngine, Workers, OsValues
  <1>2. LockInv'
    BY HoldersDistinct DEF OwnInv, TypeOK, LockInv, LockedWorker
  <1>3. PlaceInv'
    BY HoldersDistinct, CleanUpRemoves, AdapterShrinks
    DEF OwnInv, TypeOK, LockInv, PlaceInv, Settled, Ours, LockedWorker, DownInv
  <1>4. DownInv'
    BY DEF OwnInv, TypeOK, DownInv, Ours
  <1> QED BY <1>1, <1>2, <1>3, <1>4 DEF OwnInv

\* The start's clean-up of the previous record leaves only orphans of a crash.
LEMMA WorkerCleanOwn ==
    ASSUME OwnInv, NEW w \in Workers, WorkerClean(w) PROVE OwnInv'
  <1> USE DEF WorkerClean, WGoto, NoRecord, UndoRecord, stateVars, lockVars, procVars, diskVars,
             lifeVars
  <1>1. TypeOK'
    <2>1. eng' \in [Workers -> {"none", "live", "dead", "stopped"}]
      BY EngineTableType DEF OwnInv, TypeOK
    <2>2. os' \in [Items -> OsValues]
      BY CleanUpRemoves, AdapterShrinks DEF OwnInv, TypeOK
    <2> QED BY <2>1, <2>2 DEF OwnInv, TypeOK
  <1>2. LockInv'
    BY HoldersDistinct DEF OwnInv, TypeOK, LockInv, LockedWorker
  <1>3. PlaceInv'
    BY HoldersDistinct, CleanUpRemoves, AdapterShrinks
    DEF OwnInv, TypeOK, LockInv, PlaceInv, Settled, Ours, LockedWorker, DownInv
  <1>4. DownInv'
    BY DEF OwnInv, TypeOK, DownInv, Ours
  <1> QED BY <1>1, <1>2, <1>3, <1>4 DEF OwnInv

\* Creating the engine installs no item yet.
LEMMA WorkerStartOwn ==
    ASSUME OwnInv, NEW w \in Workers, WorkerStart(w) PROVE OwnInv'
  <1> USE DEF WorkerStart, WGoto, stateVars, lockVars, procVars, diskVars, lifeVars
  <1>1. TypeOK'
    BY EngineTableType, CleanUpRemoves, AdapterShrinks, BoundAssumption
    DEF OwnInv, TypeOK, Items, NoEngine, Workers, OsValues
  <1>2. LockInv'
    BY HoldersDistinct DEF OwnInv, TypeOK, LockInv, LockedWorker
  <1>3. PlaceInv'
    BY HoldersDistinct, CleanUpRemoves, AdapterShrinks
    DEF OwnInv, TypeOK, LockInv, PlaceInv, Settled, Ours, LockedWorker, DownInv
  <1>4. DownInv'
    BY DEF OwnInv, TypeOK, DownInv, Ours
  <1> QED BY <1>1, <1>2, <1>3, <1>4 DEF OwnInv

\* A start that fails before its plan has installed nothing.
LEMMA WorkerStartErrOwn ==
    ASSUME OwnInv, NEW w \in Workers, WorkerStartErr(w) PROVE OwnInv'
  <1> USE DEF WorkerStartErr, WGoto, stateVars, lockVars, procVars, diskVars, lifeVars
  <1>1. TypeOK'
    BY EngineTableType, CleanUpRemoves, AdapterShrinks, BoundAssumption
    DEF OwnInv, TypeOK, Items, NoEngine, Workers, OsValues
  <1>2. LockInv'
    BY HoldersDistinct DEF OwnInv, TypeOK, LockInv, LockedWorker
  <1>3. PlaceInv'
    BY HoldersDistinct, CleanUpRemoves, AdapterShrinks
    DEF OwnInv, TypeOK, LockInv, PlaceInv, Settled, Ours, LockedWorker, DownInv
  <1>4. DownInv'
    BY DEF OwnInv, TypeOK, DownInv, Ours
  <1> QED BY <1>1, <1>2, <1>3, <1>4 DEF OwnInv

\* Saving the record makes it cover what the start holds.
LEMMA SaveRecordOwn ==
    ASSUME OwnInv, NEW w \in Workers, SaveRecord(w) PROVE OwnInv'
  <1> USE DEF SaveRecord, WGoto, stateVars, lockVars, procVars, diskVars, lifeVars
  <1>1. TypeOK'
    BY EngineTableType, CleanUpRemoves, AdapterShrinks, BoundAssumption
    DEF OwnInv, TypeOK, Items, NoEngine, Workers, OsValues
  <1>2. LockInv'
    BY HoldersDistinct DEF OwnInv, TypeOK, LockInv, LockedWorker
  <1>3. PlaceInv'
    BY HoldersDistinct, CleanUpRemoves, AdapterShrinks
    DEF OwnInv, TypeOK, LockInv, PlaceInv, Settled, Ours, LockedWorker, DownInv
  <1>4. DownInv'
    BY DEF OwnInv, TypeOK, DownInv, Ours
  <1> QED BY <1>1, <1>2, <1>3, <1>4 DEF OwnInv

\* A failed installation is undone by the start that holds it.
LEMMA WorkerAbortOwn ==
    ASSUME OwnInv, NEW w \in Workers, WorkerAbort(w) PROVE OwnInv'
  <1> USE DEF WorkerAbort, WGoto, stateVars, lockVars, procVars, diskVars, lifeVars
  <1>1. TypeOK'
    BY EngineTableType, CleanUpRemoves, AdapterShrinks, BoundAssumption
    DEF OwnInv, TypeOK, Items, NoEngine, Workers, OsValues
  <1>2. LockInv'
    BY HoldersDistinct DEF OwnInv, TypeOK, LockInv, LockedWorker
  <1>3. PlaceInv'
    BY HoldersDistinct, CleanUpRemoves, AdapterShrinks
    DEF OwnInv, TypeOK, LockInv, PlaceInv, Settled, Ours, LockedWorker, DownInv
  <1>4. DownInv'
    BY DEF OwnInv, TypeOK, DownInv, Ours
  <1> QED BY <1>1, <1>2, <1>3, <1>4 DEF OwnInv

\* A start that finds itself cancelled gives back what it installed.
LEMMA WorkerVerifyCancelledOwn ==
    ASSUME OwnInv, NEW w \in Workers, WorkerVerifyCancelled(w) PROVE OwnInv'
  <1> USE DEF WorkerVerifyCancelled, WGoto, stateVars, lockVars, procVars, diskVars, lifeVars
  <1>1. TypeOK'
    BY EngineTableType, CleanUpRemoves, AdapterShrinks, BoundAssumption
    DEF OwnInv, TypeOK, Items, NoEngine, Workers, OsValues
  <1>2. LockInv'
    BY HoldersDistinct DEF OwnInv, TypeOK, LockInv, LockedWorker
  <1>3. PlaceInv'
    BY HoldersDistinct, CleanUpRemoves, AdapterShrinks
    DEF OwnInv, TypeOK, LockInv, PlaceInv, Settled, Ours, LockedWorker, DownInv
  <1>4. DownInv'
    BY DEF OwnInv, TypeOK, DownInv, Ours
  <1> QED BY <1>1, <1>2, <1>3, <1>4 DEF OwnInv

\* Passing the second generation test changes no item.
LEMMA WorkerVerifyOkOwn ==
    ASSUME OwnInv, NEW w \in Workers, WorkerVerifyOk(w) PROVE OwnInv'
  <1> USE DEF WorkerVerifyOk, WGoto, stateVars, lockVars, procVars, diskVars, lifeVars
  <1>1. TypeOK'
    BY EngineTableType, CleanUpRemoves, AdapterShrinks, BoundAssumption
    DEF OwnInv, TypeOK, Items, NoEngine, Workers, OsValues
  <1>2. LockInv'
    BY HoldersDistinct DEF OwnInv, TypeOK, LockInv, LockedWorker
  <1>3. PlaceInv'
    BY HoldersDistinct, CleanUpRemoves, AdapterShrinks
    DEF OwnInv, TypeOK, LockInv, PlaceInv, Settled, Ours, LockedWorker, DownInv
  <1>4. DownInv'
    BY DEF OwnInv, TypeOK, DownInv, Ours
  <1> QED BY <1>1, <1>2, <1>3, <1>4 DEF OwnInv

\* Publishing passes the items from the start to the shared state.
LEMMA WorkerPublishOwn ==
    ASSUME OwnInv, NEW w \in Workers, WorkerPublish(w) PROVE OwnInv'
  <1> USE DEF WorkerPublish, WGoto, stateVars, lockVars, procVars, diskVars, lifeVars
  <1>1. TypeOK'
    <2>1. eng' \in [Workers -> {"none", "live", "dead", "stopped"}]
      BY EngineTableType DEF OwnInv, TypeOK
    <2>2. os' \in [Items -> OsValues]
      BY CleanUpRemoves, AdapterShrinks DEF OwnInv, TypeOK, UndoRecord
    <2>3. /\ worker' \in [Workers -> {"unused", "lock", "clean", "start", "install", "bad",
                                      "verify", "publish", "failed", "report", "ended"}]
          /\ monitor' \in [Workers -> {"none", "sleep", "lock", "undo", "exited"}]
      BY DEF OwnInv, TypeOK
    <2> HIDE DEF WorkerPublish
    <2>4. /\ engine' = w /\ network' = local /\ status' = "Running" /\ local' = {}
          /\ op' = Free
          /\ UNCHANGED <<generation, todo, client, wgen, record, up, crashes, lost, exposed>>
      BY DEF WorkerPublish
    <2> QED BY <2>1, <2>2, <2>3, <2>4 DEF OwnInv, TypeOK
  <1>2. LockInv'
    BY HoldersDistinct DEF OwnInv, TypeOK, LockInv, LockedWorker
  <1>3. PlaceInv'
    BY HoldersDistinct, CleanUpRemoves, AdapterShrinks
    DEF OwnInv, TypeOK, LockInv, PlaceInv, Settled, Ours, LockedWorker, DownInv
  <1>4. DownInv'
    BY DEF OwnInv, TypeOK, DownInv, Ours
  <1> QED BY <1>1, <1>2, <1>3, <1>4 DEF OwnInv

\* A failed start that looks at the generation holds nothing any more.
LEMMA WorkerReportOwn ==
    ASSUME OwnInv, NEW w \in Workers, WorkerReport(w) PROVE OwnInv'
  <1> USE DEF WorkerReport, WGoto, stateVars, lockVars, procVars, diskVars, lifeVars
  <1>1. TypeOK'
    BY EngineTableType, CleanUpRemoves, AdapterShrinks, BoundAssumption
    DEF OwnInv, TypeOK, Items, NoEngine, Workers, OsValues
  <1>2. LockInv'
    BY HoldersDistinct DEF OwnInv, TypeOK, LockInv, LockedWorker
  <1>3. PlaceInv'
    BY HoldersDistinct, CleanUpRemoves, AdapterShrinks
    DEF OwnInv, TypeOK, LockInv, PlaceInv, Settled, Ours, LockedWorker, DownInv
  <1>4. DownInv'
    BY DEF OwnInv, TypeOK, DownInv, Ours
  <1> QED BY <1>1, <1>2, <1>3, <1>4 DEF OwnInv

\* Nor does one that sets the status to Failed.
LEMMA WorkerSetFailedOwn ==
    ASSUME OwnInv, NEW w \in Workers, WorkerSetFailed(w) PROVE OwnInv'
  <1> USE DEF WorkerSetFailed, WGoto, stateVars, lockVars, procVars, diskVars, lifeVars
  <1>1. TypeOK'
    BY EngineTableType, CleanUpRemoves, AdapterShrinks, BoundAssumption
    DEF OwnInv, TypeOK, Items, NoEngine, Workers, OsValues
  <1>2. LockInv'
    BY HoldersDistinct DEF OwnInv, TypeOK, LockInv, LockedWorker
  <1>3. PlaceInv'
    BY HoldersDistinct, CleanUpRemoves, AdapterShrinks
    DEF OwnInv, TypeOK, LockInv, PlaceInv, Settled, Ours, LockedWorker, DownInv
  <1>4. DownInv'
    BY DEF OwnInv, TypeOK, DownInv, Ours
  <1> QED BY <1>1, <1>2, <1>3, <1>4 DEF OwnInv

\* A monitor that finds another generation ends without touching an item.
LEMMA MonitorRetireOwn ==
    ASSUME OwnInv, NEW w \in Workers, MonitorRetire(w) PROVE OwnInv'
  <1> USE DEF MonitorRetire, MGoto, stateVars, lockVars, procVars, diskVars, lifeVars
  <1>1. TypeOK'
    BY EngineTableType, CleanUpRemoves, AdapterShrinks, BoundAssumption
    DEF OwnInv, TypeOK, Items, NoEngine, Workers, OsValues
  <1>2. LockInv'
    BY HoldersDistinct DEF OwnInv, TypeOK, LockInv, LockedWorker
  <1>3. PlaceInv'
    BY HoldersDistinct, CleanUpRemoves, AdapterShrinks
    DEF OwnInv, TypeOK, LockInv, PlaceInv, Settled, Ours, LockedWorker, DownInv
  <1>4. DownInv'
    BY DEF OwnInv, TypeOK, DownInv, Ours
  <1> QED BY <1>1, <1>2, <1>3, <1>4 DEF OwnInv

\* Seeing a dead engine changes no item.
LEMMA MonitorSeeOwn ==
    ASSUME OwnInv, NEW w \in Workers, MonitorSee(w) PROVE OwnInv'
  <1> USE DEF MonitorSee, MGoto, stateVars, lockVars, procVars, diskVars, lifeVars
  <1>1. TypeOK'
    BY EngineTableType, CleanUpRemoves, AdapterShrinks, BoundAssumption
    DEF OwnInv, TypeOK, Items, NoEngine, Workers, OsValues
  <1>2. LockInv'
    BY HoldersDistinct DEF OwnInv, TypeOK, LockInv, LockedWorker
  <1>3. PlaceInv'
    BY HoldersDistinct, CleanUpRemoves, AdapterShrinks
    DEF OwnInv, TypeOK, LockInv, PlaceInv, Settled, Ours, LockedWorker, DownInv
  <1>4. DownInv'
    BY DEF OwnInv, TypeOK, DownInv, Ours
  <1> QED BY <1>1, <1>2, <1>3, <1>4 DEF OwnInv

\* The monitor takes the dead engine and its items under the lock.
LEMMA MonitorTakeOwn ==
    ASSUME OwnInv, NEW w \in Workers, MonitorTake(w) PROVE OwnInv'
  <1> USE DEF MonitorTake, MGoto, stateVars, lockVars, procVars, diskVars, lifeVars
  <1>1. TypeOK'
    <2>1. eng' \in [Workers -> {"none", "live", "dead", "stopped"}]
      BY EngineTableType DEF OwnInv, TypeOK
    <2>2. os' \in [Items -> OsValues]
      BY CleanUpRemoves, AdapterShrinks DEF OwnInv, TypeOK, UndoRecord
    <2> QED BY <2>1, <2>2 DEF OwnInv, TypeOK
  <1>2. LockInv'
    BY HoldersDistinct DEF OwnInv, TypeOK, LockInv, LockedWorker
  <1>3. PlaceInv'
    BY HoldersDistinct, CleanUpRemoves, AdapterShrinks
    DEF OwnInv, TypeOK, LockInv, PlaceInv, Settled, Ours, LockedWorker, DownInv
  <1>4. DownInv'
    BY DEF OwnInv, TypeOK, DownInv, Ours
  <1> QED BY <1>1, <1>2, <1>3, <1>4 DEF OwnInv

\* The monitor undoes what it took, empties the record and lets go of the lock.
LEMMA MonitorUndoOwn ==
    ASSUME OwnInv, NEW w \in Workers, MonitorUndo(w) PROVE OwnInv'
  <1> USE DEF MonitorUndo, MGoto, NoRecord, stateVars, lockVars, procVars, diskVars, lifeVars
  <1>1. TypeOK'
    BY EngineTableType, CleanUpRemoves, AdapterShrinks, BoundAssumption
    DEF OwnInv, TypeOK, Items, NoEngine, Workers, OsValues
  <1>2. LockInv'
    BY HoldersDistinct DEF OwnInv, TypeOK, LockInv, LockedWorker
  <1>3. PlaceInv'
    BY HoldersDistinct, CleanUpRemoves, AdapterShrinks
    DEF OwnInv, TypeOK, LockInv, PlaceInv, Settled, Ours, LockedWorker, DownInv
  <1>4. DownInv'
    BY DEF OwnInv, TypeOK, DownInv, Ours
  <1> QED BY <1>1, <1>2, <1>3, <1>4 DEF OwnInv

\* Reading the generation and creating the start thread change no item.
LEMMA SpawnWorkerOwn ==
    ASSUME OwnInv, NEW c \in Clients, NEW w \in Workers, SpawnWorker(c, w) PROVE OwnInv'
  <1> USE DEF SpawnWorker, ClientAt, Goto, Unused, stateVars, lockVars, procVars, diskVars, lifeVars
  <1>1. TypeOK'
    BY EngineTableType, CleanUpRemoves, BoundAssumption
    DEF OwnInv, TypeOK, Items, NoEngine, Workers, OsValues
  <1>2. LockInv'
    BY HoldersDistinct DEF OwnInv, TypeOK, LockInv, LockedWorker
  <1>3. PlaceInv'
    BY HoldersDistinct, CleanUpRemoves
    DEF OwnInv, TypeOK, LockInv, PlaceInv, Settled, Ours, LockedWorker, DownInv
  <1>4. DownInv'
    BY CleanUpRemoves DEF OwnInv, TypeOK, DownInv, Ours, Items
  <1> QED BY <1>1, <1>2, <1>3, <1>4 DEF OwnInv

\* An installed item is in the hands of the start that installed it.
LEMMA InstallOwn ==
    ASSUME OwnInv, NEW w \in Workers, NEW i \in Items, Install(w, i) PROVE OwnInv'
  <1> USE DEF Install, NextItem, Recorded, stateVars, lockVars, procVars, diskVars, lifeVars
  <1>1. TypeOK'
    BY EngineTableType, CleanUpRemoves, BoundAssumption
    DEF OwnInv, TypeOK, Items, NoEngine, Workers, OsValues
  <1>2. LockInv'
    BY HoldersDistinct DEF OwnInv, TypeOK, LockInv, LockedWorker
  <1>3. PlaceInv'
    BY HoldersDistinct, CleanUpRemoves
    DEF OwnInv, TypeOK, LockInv, PlaceInv, Settled, Ours, LockedWorker, DownInv
  <1>4. DownInv'
    BY CleanUpRemoves DEF OwnInv, TypeOK, DownInv, Ours, Items
  <1> QED BY <1>1, <1>2, <1>3, <1>4 DEF OwnInv

\* A bypass route that fails is skipped; nothing is held for it.
LEMMA InstallWarnOwn ==
    ASSUME OwnInv, NEW w \in Workers, NEW i \in Items, InstallWarn(w, i) PROVE OwnInv'
  <1> USE DEF InstallWarn, NextItem, stateVars, lockVars, procVars, diskVars, lifeVars
  <1>1. TypeOK'
    BY EngineTableType, CleanUpRemoves, BoundAssumption
    DEF OwnInv, TypeOK, Items, NoEngine, Workers, OsValues
  <1>2. LockInv'
    BY HoldersDistinct DEF OwnInv, TypeOK, LockInv, LockedWorker
  <1>3. PlaceInv'
    BY HoldersDistinct, CleanUpRemoves
    DEF OwnInv, TypeOK, LockInv, PlaceInv, Settled, Ours, LockedWorker, DownInv
  <1>4. DownInv'
    BY CleanUpRemoves DEF OwnInv, TypeOK, DownInv, Ours, Items
  <1> QED BY <1>1, <1>2, <1>3, <1>4 DEF OwnInv

\* A tunnel route or rule that fails leaves the earlier ones with the start.
LEMMA InstallErrOwn ==
    ASSUME OwnInv, NEW w \in Workers, NEW i \in Items, InstallErr(w, i) PROVE OwnInv'
  <1> USE DEF InstallErr, NextItem, WGoto, stateVars, lockVars, procVars, diskVars, lifeVars
  <1>1. TypeOK'
    BY EngineTableType, CleanUpRemoves, BoundAssumption
    DEF OwnInv, TypeOK, Items, NoEngine, Workers, OsValues
  <1>2. LockInv'
    BY HoldersDistinct DEF OwnInv, TypeOK, LockInv, LockedWorker
  <1>3. PlaceInv'
    BY HoldersDistinct, CleanUpRemoves
    DEF OwnInv, TypeOK, LockInv, PlaceInv, Settled, Ours, LockedWorker, DownInv
  <1>4. DownInv'
    BY CleanUpRemoves DEF OwnInv, TypeOK, DownInv, Ours, Items
  <1> QED BY <1>1, <1>2, <1>3, <1>4 DEF OwnInv

\* A crash turns what memory knew into what the record or the orphans know.
LEMMA CrashOwn ==
    ASSUME OwnInv, Crash PROVE OwnInv'
  <1> USE DEF Crash, Unplug, stateVars, lockVars, procVars, diskVars, lifeVars
  <1>1. TypeOK'
    <2>1. os' \in [Items -> OsValues]
      BY UndoRemoves DEF OwnInv, TypeOK
    <2>2. /\ client' \in [Clients -> {"idle", "accepted", "s_mark", "s_lock", "s_undo",
                                      "c_lock"}]
          /\ monitor' \in [Workers -> {"none", "sleep", "lock", "undo", "exited"}]
          /\ worker' \in [Workers -> {"unused", "lock", "clean", "start", "install", "bad",
                                      "verify", "publish", "failed", "report", "ended"}]
          /\ eng' \in [Workers -> {"none", "live", "dead", "stopped"}]
      OBVIOUS
    <2>3. lost' \subseteq Bypass /\ crashes' \in Nat
      BY DEF OwnInv, TypeOK
    <2>4. /\ status' = "Stopped" /\ engine' = NoEngine /\ network' = {}
          /\ generation' = 0 /\ op' = Free /\ todo' = {} /\ local' = {} /\ up' = FALSE
          /\ UNCHANGED <<wgen, record, exposed>>
      OBVIOUS
    <2> HIDE DEF Crash
    <2> QED BY <2>1, <2>2, <2>3, <2>4 DEF OwnInv, TypeOK
  <1>2. LockInv'
    BY HoldersDistinct DEF OwnInv, TypeOK, LockInv, LockedWorker
  <1>3. PlaceInv'
    BY HoldersDistinct, UndoRemoves
    DEF OwnInv, TypeOK, LockInv, PlaceInv, Settled, Ours, LockedWorker, DownInv
  <1>4. DownInv'
    <2>1. Ours' = Ours \ Tunnel
      BY UndoRemoves DEF OwnInv, TypeOK, Ours
    <2>2. Ours' \subseteq record' \cup {Nrpt} \cup lost'
      BY <2>1 DEF Ours, Items
    <2> QED BY <2>2 DEF OwnInv, TypeOK, DownInv
  <1> QED BY <1>1, <1>2, <1>3, <1>4 DEF OwnInv

\* The service's restart undoes the record before it serves anyone.
LEMMA RestartOwn ==
    ASSUME OwnInv, Restart PROVE OwnInv'
  <1> USE DEF Restart, UndoRecord, NoRecord, stateVars, lockVars, procVars, diskVars, lifeVars
  <1>1. TypeOK'
    <2>1. os' \in [Items -> OsValues]
      BY CleanUpRemoves DEF OwnInv, TypeOK
    <2> QED BY <2>1 DEF OwnInv, TypeOK
  <1>2. LockInv'
    BY HoldersDistinct DEF OwnInv, TypeOK, LockInv, LockedWorker
  <1>3. PlaceInv'
    BY HoldersDistinct, CleanUpRemoves
    DEF OwnInv, TypeOK, LockInv, PlaceInv, Settled, Ours, LockedWorker, DownInv
  <1>4. DownInv'
    BY CleanUpRemoves DEF OwnInv, TypeOK, DownInv, Ours, Items
  <1> QED BY <1>1, <1>2, <1>3, <1>4 DEF OwnInv

\* Another program's route only takes items of ours away.
LEMMA OtherInstallsOwn ==
    ASSUME OwnInv, NEW i \in Items, OtherInstalls(i) PROVE OwnInv'
  <1> USE DEF OtherInstalls, stateVars, lockVars, procVars
  <1>1. TypeOK'
    BY DEF OwnInv, TypeOK, OsValues
  <1>2. LockInv'
    BY DEF OwnInv, LockInv
  <1>3. Ours' \subseteq Ours
    BY DEF OwnInv, TypeOK, Ours
  <1>4. PlaceInv'
    BY <1>3 DEF OwnInv, PlaceInv, Settled
  <1>5. DownInv'
    BY <1>3 DEF OwnInv, DownInv
  <1> QED BY <1>1, <1>2, <1>4, <1>5 DEF OwnInv

-----------------------------------------------------------------------------
\* Every step keeps the invariant, by the lemma of its action.
LEMMA NextOwn == OwnInv /\ [Next]_vars => OwnInv'
  <1> SUFFICES ASSUME OwnInv, [Next]_vars PROVE OwnInv'
    OBVIOUS
  <1>1. ASSUME NEW c \in Clients, BeginStart(c) \/ StopBump(c) \/ Client(c)
        PROVE  OwnInv'
    BY <1>1, BeginStartOwn, StopBumpOwn, StopMarkOwn, StopTakeOwn, StopUndoOwn,
       CleanupLeftoversOwn, SpawnFailsOwn, SpawnWorkerOwn
    DEF Client
  <1>2. ASSUME NEW w \in Workers, Worker(w) PROVE OwnInv'
    BY <1>2, WorkerLockOwn, WorkerCancelledOwn, WorkerCleanOwn, WorkerStartOwn,
       WorkerStartErrOwn, InstallOwn, InstallWarnOwn, InstallErrOwn, SaveRecordOwn,
       WorkerAbortOwn, WorkerVerifyCancelledOwn, WorkerVerifyOkOwn, WorkerPublishOwn,
       WorkerReportOwn, WorkerSetFailedOwn
    DEF Worker
  <1>3. ASSUME NEW w \in Workers, Monitor(w) \/ EngineDies(w) PROVE OwnInv'
    BY <1>3, MonitorRetireOwn, MonitorSeeOwn, MonitorTakeOwn, MonitorUndoOwn, EngineDiesOwn
    DEF Monitor
  <1>4. CASE UNCHANGED vars
    <2>1. UNCHANGED Ours
      BY <1>4 DEF vars, diskVars, Ours
    <2> QED
      BY <1>4, <2>1
      DEF vars, stateVars, lockVars, procVars, diskVars, lifeVars, OwnInv, TypeOK,
          LockInv, PlaceInv, Settled, DownInv
  <1> QED BY <1>1, <1>2, <1>3, <1>4, CrashOwn, RestartOwn, OtherInstallsOwn DEF Next

\* The strengthened invariant holds in every reachable state.
THEOREM OwnInvariance == Spec => []OwnInv
  BY InitOwn, NextOwn, PTL DEF Spec

\* The variables of WindowsRuntime keep their types.
THEOREM TypeCorrect == Spec => []TypeOK
  BY OwnInvariance, PTL DEF OwnInv

\* Whatever starts, stops, clean-ups, engine failures and crashes race, every
\* route and rule this process installed is still in somebody's hands.
THEOREM InstalledOwned == Spec => []InstalledIsOwned
  <1>1. OwnInv => InstalledIsOwned
    <2> SUFFICES ASSUME OwnInv, up PROVE Ours \subseteq network \cup local \cup lost
      BY DEF InstalledIsOwned
    <2> USE DEF OwnInv
    <2>1. CASE op = Free
      BY <2>1 DEF PlaceInv, Settled
    <2>2. CASE op # Free
      <3>1. CASE \E w \in Workers : op = WorkerId(w)
        BY <3>1 DEF LockInv, LockedWorker, PlaceInv, Settled
      <3>2. CASE \E w \in Workers : op = MonitorId(w)
        BY <3>2 DEF LockInv, PlaceInv
      <3>3. CASE \E c \in Clients : op = ClientId(c)
        BY <3>3 DEF LockInv, PlaceInv
      <3> QED BY <2>2, <3>1, <3>2, <3>3 DEF TypeOK
    <2> QED BY <2>1, <2>2
  <1> QED BY <1>1, OwnInvariance, PTL

\* With no operation in progress the record file covers everything of ours.
THEOREM RecordCoversAll == Spec => []RecordCovers
  <1>1. OwnInv => RecordCovers
    BY DEF OwnInv, PlaceInv, Settled, RecordCovers
  <1> QED BY <1>1, OwnInvariance, PTL

\* Outside an installation, the record covers what is ours.
LEMMA CoveredOutsideSetup ==
    ASSUME OwnInv, up, \A w \in Workers : worker[w] \notin {"install", "bad"}
    PROVE  Ours \subseteq record \cup lost
  <1> USE DEF OwnInv
  <1>1. CASE op = Free
    BY <1>1 DEF PlaceInv, Settled
  <1>2. CASE \E w \in Workers : op = WorkerId(w)
    BY <1>2 DEF LockInv, LockedWorker, PlaceInv, Settled
  <1>3. CASE \E w \in Workers : op = MonitorId(w)
    BY <1>3 DEF LockInv, PlaceInv
  <1>4. CASE \E c \in Clients : op = ClientId(c)
    BY <1>4 DEF LockInv, PlaceInv
  <1> QED BY <1>1, <1>2, <1>3, <1>4 DEF TypeOK

\* A crash orphans an item only while a start is installing: at every other
\* point under the lock, and with the lock free, the record covers what is ours.
THEOREM CrashOrphans == Spec => CrashOrphansOnlyMidInstall
  <1> DEFINE MidInstall == \E w \in Workers : worker[w] \in {"install", "bad"}
  <1>1. OwnInv /\ up /\ ~MidInstall => Ours \subseteq record \cup lost
    BY CoveredOutsideSetup
  <1>2. OwnInv /\ Crash => lost' = lost \/ MidInstall
    BY <1>1 DEF Crash
  <1>3. Next /\ ~Crash => lost' = lost
    <2> USE DEF lifeVars
    <2>1. ASSUME NEW c \in Clients, BeginStart(c) \/ StopBump(c) \/ Client(c)
          PROVE  lost' = lost
      BY <2>1 DEF BeginStart, StopBump, Client, StopMark, StopTake, StopUndo, CleanupLeftovers,
                  SpawnFails, SpawnWorker
    <2>2. ASSUME NEW w \in Workers, Worker(w) PROVE lost' = lost
      BY <2>2 DEF Worker, WorkerLock, WorkerCancelled, WorkerClean, WorkerStart, WorkerStartErr,
                  Install, InstallWarn, InstallErr, SaveRecord, WorkerAbort,
                  WorkerVerifyCancelled, WorkerVerifyOk, WorkerPublish, WorkerReport,
                  WorkerSetFailed
    <2>3. ASSUME NEW w \in Workers, Monitor(w) \/ EngineDies(w) PROVE lost' = lost
      BY <2>3 DEF Monitor, MonitorRetire, MonitorSee, MonitorTake, MonitorUndo, EngineDies
    <2> QED BY <2>1, <2>2, <2>3 DEF Next, Restart, OtherInstalls
  <1>4. OwnInv /\ [Next]_vars => [lost' # lost => MidInstall]_vars
    BY <1>2, <1>3 DEF vars, lifeVars
  <1> QED BY <1>4, OwnInvariance, PTL DEF Spec, CrashOrphansOnlyMidInstall

-----------------------------------------------------------------------------
(* Routes of other programs.                                               *)

\* An item another program installed is a bypass route, and unless it was made
\* where the helper named one of its own, nothing the helper would undo names
\* it: not the published network, not what the lock holder has in its hands,
\* not the record file.
ForeignInv == \A i \in Items : os[i] = "foreign" => /\ i \in Bypass
                                                    /\ i \notin exposed => i \notin Named

\* What every step of the helper does to the routes of other programs.
ForeignSpared ==
    /\ Others' \subseteq Others
    /\ \A i \in Items : os[i] = "foreign" /\ i \notin exposed => os'[i] = "foreign"

\* Undoing items that do not name a route of another program leaves it alone.
LEMMA UndoSparesForeign ==
    ASSUME NEW o \in [Items -> OsValues], NEW S, UndoNetwork(o, S)
    PROVE  /\ \A i \in Items : os'[i] = "foreign" => o[i] = "foreign"
           /\ \A i \in Items : o[i] = "foreign" /\ i \notin S => os'[i] = "foreign"
  BY CleanUpRemoves

\* So does losing the adapter: a route of another program is no tunnel route.
LEMMA AdapterSparesForeign ==
    ASSUME NEW o \in [Items -> OsValues], NEW e,
           \A i \in Items : o[i] = "foreign" => i \in Bypass
    PROVE  \A i \in Items : WithoutAdapter(o, e)[i] = "foreign" <=> o[i] = "foreign"
  BY UndoRemoves, ItemAssumption DEF WithoutAdapter, Unplug

\* The requests of the clients.
LEMMA ClientForeign ==
    ASSUME TypeOK, ForeignInv, NEW c \in Clients, BeginStart(c) \/ StopBump(c) \/ Client(c)
    PROVE  ForeignSpared /\ ForeignInv'
  <1> USE DEF TypeOK, ForeignInv, ForeignSpared, Named, Others, stateVars, lockVars, diskVars, lifeVars,
             NoRecord
  <1>1. CASE BeginStart(c) \/ StopBump(c) \/ StopMark(c) \/ SpawnFails(c)
             \/ \E w \in Workers : SpawnWorker(c, w)
    BY <1>1 DEF BeginStart, StopBump, StopMark, SpawnFails, SpawnWorker
  <1>2. CASE StopTake(c)
    BY <1>2, AdapterSparesForeign DEF StopTake
  <1>3. CASE StopUndo(c)
    BY <1>3, UndoSparesForeign DEF StopUndo
  <1>4. CASE CleanupLeftovers(c)
    BY <1>4, UndoSparesForeign, ItemAssumption DEF CleanupLeftovers, UndoRecord
  <1> QED BY <1>1, <1>2, <1>3, <1>4 DEF Client

\* The steps of a start: it records only what it created itself.
LEMMA WorkerForeign ==
    ASSUME TypeOK, ForeignInv, NEW w \in Workers, Worker(w)
    PROVE  ForeignSpared /\ ForeignInv'
  <1> USE DEF TypeOK, ForeignInv, ForeignSpared, Named, Others, stateVars, lockVars, diskVars, lifeVars,
             NoRecord
  <1>1. CASE WorkerLock(w) \/ WorkerCancelled(w) \/ WorkerStart(w) \/ WorkerStartErr(w)
             \/ SaveRecord(w) \/ WorkerVerifyOk(w) \/ WorkerReport(w) \/ WorkerSetFailed(w)
             \/ \E i \in Items : InstallWarn(w, i)
    BY <1>1 DEF WorkerLock, WorkerCancelled, WorkerStart, WorkerStartErr, SaveRecord,
                WorkerVerifyOk, WorkerReport, WorkerSetFailed, InstallWarn
  <1>2. CASE WorkerClean(w)
    BY <1>2, UndoSparesForeign, ItemAssumption DEF WorkerClean, UndoRecord
  <1>3. ASSUME NEW i \in Items, Install(w, i) PROVE ForeignSpared /\ ForeignInv'
    BY <1>3, ItemAssumption DEF Install, Recorded
  <1>4. ASSUME NEW i \in Items, InstallErr(w, i) PROVE ForeignSpared /\ ForeignInv'
    BY <1>4, ItemAssumption DEF InstallErr, Items
  <1>5. CASE WorkerAbort(w) \/ WorkerVerifyCancelled(w)
    <2>1. UndoNetwork(WithoutAdapter(os, eng'), local)
      BY <1>5 DEF WorkerAbort, WorkerVerifyCancelled
    <2>2. WithoutAdapter(os, eng') \in [Items -> OsValues]
      BY AdapterShrinks
    <2>3. ForeignSpared
      BY <2>1, <2>2, UndoSparesForeign, AdapterSparesForeign
    <2>4. UNCHANGED <<network, exposed>> /\ local' = {} /\ record' \subseteq local \cup record
      BY <1>5 DEF WorkerAbort, WorkerVerifyCancelled
    <2> QED BY <2>3, <2>4
  <1>6. CASE WorkerPublish(w)
    BY <1>6 DEF WorkerPublish
  <1> QED BY <1>1, <1>2, <1>3, <1>4, <1>5, <1>6 DEF Worker

\* The steps of a monitor.
LEMMA MonitorForeign ==
    ASSUME TypeOK, ForeignInv, NEW w \in Workers, Monitor(w) \/ EngineDies(w)
    PROVE  ForeignSpared /\ ForeignInv'
  <1> USE DEF TypeOK, ForeignInv, ForeignSpared, Named, Others, stateVars, lockVars, diskVars, lifeVars,
             NoRecord
  <1>1. CASE MonitorSee(w) \/ EngineDies(w)
    BY <1>1 DEF MonitorSee, EngineDies
  <1>2. CASE MonitorRetire(w)
    BY <1>2, AdapterSparesForeign DEF MonitorRetire
  <1>3. CASE MonitorTake(w)
    BY <1>3, AdapterSparesForeign DEF MonitorTake
  <1>4. CASE MonitorUndo(w)
    BY <1>4, UndoSparesForeign DEF MonitorUndo
  <1> QED BY <1>1, <1>2, <1>3, <1>4 DEF Monitor

\* The crash takes the adapter's routes; the restart undoes the record.
LEMMA CrashForeign ==
    ASSUME TypeOK, ForeignInv, Crash \/ Restart
    PROVE  ForeignSpared /\ ForeignInv'
  <1> USE DEF TypeOK, ForeignInv, ForeignSpared, Named, Others, stateVars, lockVars, NoRecord
  <1>1. CASE Crash
    BY <1>1, UndoRemoves, ItemAssumption DEF Crash, Unplug
  <1>2. CASE Restart
    BY <1>2, UndoSparesForeign, ItemAssumption DEF Restart, UndoRecord
  <1> QED BY <1>1, <1>2

\* Another program's route is exposed if the helper names one in its place.
LEMMA OtherInstallsForeign ==
    ASSUME TypeOK, ForeignInv, NEW j \in Items, OtherInstalls(j)
    PROVE  (\A i \in Items : os[i] = "foreign" => os'[i] = "foreign") /\ ForeignInv'
  BY DEF OtherInstalls, TypeOK, ForeignInv, Named, stateVars, lockVars

\* Every step of the helper leaves the routes of other programs.
LEMMA HelperSpares ==
    ASSUME TypeOK, ForeignInv, [Next]_vars, ~\E i \in Items : OtherInstalls(i)
    PROVE  ForeignSpared /\ ForeignInv'
  <1>1. CASE UNCHANGED vars
    BY <1>1 DEF vars, diskVars, stateVars, lockVars, lifeVars, ForeignInv, ForeignSpared, Named, Others
  <1> QED BY <1>1, ClientForeign, WorkerForeign, MonitorForeign, CrashForeign DEF Next

\* No undo the helper could start names a route of another program that is
\* not exposed.
THEOREM ForeignInvariance == Spec => []ForeignInv
  <1>1. Init => ForeignInv
    BY DEF Init, ForeignInv, Named, NoRecord, Items
  <1>2. TypeOK /\ ForeignInv /\ [Next]_vars => ForeignInv'
    BY HelperSpares, OtherInstallsForeign
  <1> QED BY <1>1, <1>2, TypeCorrect, PTL DEF Spec

\* A route another program installed, before or after the VPN came up, is still
\* there after every step, the clean-up after a crash included, unless it was
\* made where the helper named one of its own.
THEOREM ForeignKept == Spec => ForeignRoutesKept
  <1>1. TypeOK /\ ForeignInv /\ [Next]_vars
            => [\A i \in Items : os[i] = "foreign" /\ i \notin exposed => os'[i] = "foreign"]_vars
    BY HelperSpares, OtherInstallsForeign DEF ForeignSpared
  <1> QED BY <1>1, ForeignInvariance, TypeCorrect, PTL DEF Spec, ForeignRoutesKept

-----------------------------------------------------------------------------
(* WinRuntime implements NetworkLease.                                     *)

\* The published engine has not been stopped, nor has that of a start in
\* progress; so the adapter is open as long as there is either.
AliveInv ==
    /\ engine = NoEngine => network = {}
    /\ engine # NoEngine => Alive(engine, eng) /\ worker[engine] = "ended"
    /\ \A w \in Workers :
        /\ worker[w] \in {"install", "bad", "verify", "publish"} => Alive(w, eng)
        /\ monitor[w] # "none" => worker[w] = "ended"

\* The mode of the lease at each point under the lock.
ModeInv ==
    /\ ~up => LeaseMode = "down"
    /\ up /\ op = Free => LeaseMode = IF engine = NoEngine THEN "off" ELSE "on"
    /\ \A w \in Workers :
        /\ worker[w] \in {"install", "bad"} => LeaseMode = "setup"
        /\ worker[w] \in {"clean", "start", "verify", "publish"} => LeaseMode = "busy"
        /\ monitor[w] = "undo" => LeaseMode = "busy"
    /\ \A c \in Clients : client[c] = "s_undo" => LeaseMode = "busy"

\* ModeInv only spells out LockInv.
LEMMA ModeFromLock == TypeOK /\ LockInv /\ DownInv => ModeInv
  <1> SUFFICES ASSUME TypeOK, LockInv, DownInv PROVE ModeInv
    OBVIOUS
  <1>1. /\ ~up => LeaseMode = "down"
        /\ up /\ op = Free => LeaseMode = IF engine = NoEngine THEN "off" ELSE "on"
    BY DEF LeaseMode
  <1>2. ASSUME NEW w \in Workers, op = WorkerId(w)
        PROVE  up /\ op # Free /\ \A v \in Workers : worker[v] \in LockedWorker => v = w
    BY <1>2, HoldersDistinct DEF LockInv, DownInv
  <1>3. ASSUME NEW w \in Workers
        PROVE  /\ worker[w] \in {"install", "bad"} => LeaseMode = "setup"
               /\ worker[w] \in {"clean", "start", "verify", "publish"} => LeaseMode = "busy"
    BY <1>2, <1>3 DEF LeaseMode, LockInv, LockedWorker
  <1>4. ASSUME op # Free, \A w \in Workers : op # WorkerId(w) PROVE LeaseMode = "busy"
    BY <1>4 DEF LeaseMode, LockInv, LockedWorker, DownInv
  <1>5. ASSUME NEW w \in Workers, monitor[w] = "undo" PROVE LeaseMode = "busy"
    BY <1>4, <1>5, HoldersDistinct DEF LockInv
  <1>6. ASSUME NEW c \in Clients, client[c] = "s_undo" PROVE LeaseMode = "busy"
    BY <1>4, <1>6, HoldersDistinct DEF LockInv
  <1> QED BY <1>1, <1>3, <1>5, <1>6 DEF ModeInv

\* Dropping engines leaves alive what is published, or still in a start.
LEMMA DropSpares ==
    ASSUME NEW e \in [Workers -> {"none", "live", "dead", "stopped"}],
           NEW g, NEW wk, NEW m, NEW w \in Workers, Alive(w, e),
           g = w \/ wk[w] \in {"install", "bad", "verify", "publish"}
    PROVE  Alive(w, Drop(e, g, wk, m))
  BY DEF Drop, Alive

\* Stopping one engine leaves the others alone.
LEMMA StopSpares ==
    ASSUME NEW e \in [Workers -> {"none", "live", "dead", "stopped"}],
           NEW v, NEW w \in Workers, w # v, Alive(w, e)
    PROVE  Alive(w, StopEngine(e, v))
  BY DEF StopEngine, Alive

\* Every step keeps AliveInv.
LEMMA AliveStep ==
    ASSUME TypeOK, AliveInv, [Next]_vars PROVE AliveInv'
  <1>w. 0 \notin Workers
    BY DEF Workers
  <1>q. ASSUME UNCHANGED <<engine, network, eng, worker, monitor>> PROVE AliveInv'
    BY <1>q DEF AliveInv, Alive
  <1> DEFINE Holds(w) == worker[w] \in {"install", "bad", "verify", "publish"}
  \* A step of worker w that publishes nothing and changes no other worker.
  <1>s. ASSUME NEW w \in Workers, worker[w] \notin {"unused", "ended"},
               NEW p \in {"unused", "lock", "clean", "start", "install", "bad", "verify",
                          "publish", "failed", "report", "ended"},
               worker' = [worker EXCEPT ![w] = p], UNCHANGED <<engine, network, monitor>>,
               Holds(w)' => Alive(w, eng'),
               \A v \in Workers : v # w => eng'[v] = eng[v]
        PROVE  AliveInv'
    <2>1. engine # w /\ monitor[w] = "none"
      BY <1>s, <1>w DEF AliveInv, TypeOK, NoEngine
    <2>2. \A v \in Workers : v # w => worker'[v] = worker[v]
      BY <1>s DEF TypeOK
    <2>3. engine # NoEngine => engine \in Workers
      BY DEF TypeOK
    <2> QED BY <1>s, <2>1, <2>2, <2>3 DEF AliveInv, Alive
  <1>1. ASSUME NEW c \in Clients, BeginStart(c) \/ StopBump(c) \/ StopMark(c) \/ StopUndo(c)
                                  \/ CleanupLeftovers(c) \/ SpawnFails(c)
        PROVE  AliveInv'
    BY <1>1, <1>q DEF BeginStart, StopBump, StopMark, StopUndo, CleanupLeftovers, SpawnFails,
       AliveInv, stateVars
  <1>2. ASSUME NEW c \in Clients, NEW w \in Workers, SpawnWorker(c, w) PROVE AliveInv'
    <2>1. /\ worker[w] = "unused" /\ worker' = [worker EXCEPT ![w] = "lock"]
          /\ UNCHANGED <<engine, network, monitor, eng>>
      BY <1>2 DEF SpawnWorker, Unused, stateVars
    <2> QED BY <2>1 DEF AliveInv, Alive, TypeOK
  <1>3. ASSUME NEW c \in Clients, StopTake(c) PROVE AliveInv'
    <2>1. /\ engine' = NoEngine /\ network' = {} /\ eng' = StopEngine(eng, engine)
          /\ UNCHANGED <<worker, monitor>>
      BY <1>3 DEF StopTake
    <2>2. \A w \in Workers : Holds(w) => w # engine /\ Alive(w, eng)
      BY <1>w DEF AliveInv, NoEngine
    <2>3. \A w \in Workers : Holds(w) => Alive(w, eng')
      BY <2>1, <2>2, StopSpares DEF TypeOK
    <2> QED BY <2>1, <2>3 DEF AliveInv
  <1>4. ASSUME NEW w \in Workers, WorkerLock(w) \/ WorkerCancelled(w) \/ WorkerClean(w)
                                  \/ WorkerStartErr(w) \/ WorkerReport(w) \/ WorkerSetFailed(w)
        PROVE  AliveInv'
    <2>1. /\ worker[w] \notin {"unused", "ended"}
          /\ \E p \in {"lock", "clean", "start", "failed", "report", "ended"} :
                worker' = [worker EXCEPT ![w] = p]
          /\ UNCHANGED <<engine, network, monitor, eng>>
      BY <1>4 DEF WorkerLock, WorkerCancelled, WorkerClean, WorkerStartErr, WorkerReport,
         WorkerSetFailed, WGoto, stateVars
    <2> QED BY <2>1, <1>s DEF TypeOK
  <1>5. ASSUME NEW w \in Workers, WorkerStart(w) PROVE AliveInv'
    <2>1. /\ worker[w] = "start" /\ worker' = [worker EXCEPT ![w] = "install"]
          /\ eng' = [eng EXCEPT ![w] = "live"] /\ UNCHANGED <<engine, network, monitor>>
      BY <1>5 DEF WorkerStart, WGoto, stateVars
    <2>2. Alive(w, eng') /\ \A v \in Workers : v # w => eng'[v] = eng[v]
      BY <2>1 DEF Alive, TypeOK
    <2> QED BY <2>1, <2>2, <1>s
  <1>6. ASSUME NEW w \in Workers, NEW i \in Items, Install(w, i) \/ InstallWarn(w, i)
        PROVE  AliveInv'
    BY <1>6, <1>q DEF Install, InstallWarn, stateVars, procVars
  <1>7. ASSUME NEW w \in Workers,
               SaveRecord(w) \/ WorkerVerifyOk(w) \/ \E i \in Items : InstallErr(w, i)
        PROVE  AliveInv'
    <2>1. /\ Holds(w)
          /\ \E p \in {"bad", "verify", "publish"} : worker' = [worker EXCEPT ![w] = p]
          /\ UNCHANGED <<engine, network, monitor, eng>>
      BY <1>7 DEF SaveRecord, WorkerVerifyOk, InstallErr, WGoto, stateVars
    <2>2. Alive(w, eng')
      BY <2>1 DEF AliveInv, Alive
    <2> QED BY <2>1, <2>2, <1>s
  <1>8. ASSUME NEW w \in Workers, WorkerAbort(w) \/ WorkerVerifyCancelled(w) PROVE AliveInv'
    <2>1. /\ Holds(w)
          /\ \E p \in {"failed", "ended"} : worker' = [worker EXCEPT ![w] = p]
          /\ eng' = StopEngine(eng, w) /\ UNCHANGED <<engine, network, monitor>>
      BY <1>8 DEF WorkerAbort, WorkerVerifyCancelled, WGoto, stateVars
    <2>2. \A v \in Workers : v # w => eng'[v] = eng[v]
      BY <2>1 DEF StopEngine
    <2>3. ~Holds(w)'
      BY <2>1 DEF TypeOK
    <2> QED BY <2>1, <2>2, <2>3, <1>s
  <1>9. ASSUME NEW w \in Workers, WorkerPublish(w) PROVE AliveInv'
    <2>1. /\ worker[w] = "publish" /\ worker' = [worker EXCEPT ![w] = "ended"] /\ engine' = w
          /\ \E m \in {"sleep", "none"} : monitor' = [monitor EXCEPT ![w] = m]
          /\ eng' = Drop(eng, w, worker', monitor')
      BY <1>9 DEF WorkerPublish, WGoto
    <2>2. worker'[w] = "ended" /\ \A v \in Workers : v # w => /\ worker'[v] = worker[v]
                                                              /\ monitor'[v] = monitor[v]
      BY <2>1 DEF TypeOK
    <2>3. Alive(w, eng')
      <3>1. Alive(w, eng)
        BY <2>1 DEF AliveInv
      <3> QED BY <2>1, <3>1, DropSpares DEF TypeOK
    <2>4. \A v \in Workers : Holds(v)' => Alive(v, eng')
      <3> TAKE v \in Workers
      <3> SUFFICES ASSUME Holds(v)' PROVE Alive(v, eng')
        OBVIOUS
      <3>1. Alive(v, eng)
        BY <2>2 DEF AliveInv
      <3> QED BY <2>1, <3>1, DropSpares DEF TypeOK
    <2>5. w # NoEngine
      BY <1>w DEF NoEngine
    <2> QED BY <2>1, <2>2, <2>3, <2>4, <2>5 DEF AliveInv
  <1>10. ASSUME NEW w \in Workers, MonitorRetire(w) PROVE AliveInv'
    <2>1. /\ monitor[w] # "none" /\ monitor' = [monitor EXCEPT ![w] = "exited"]
          /\ eng' = Drop(eng, engine, worker, monitor')
          /\ UNCHANGED <<engine, network, worker>>
      BY <1>10 DEF MonitorRetire, MGoto, stateVars
    <2>2. \A v \in Workers : Holds(v) \/ v = engine => Alive(v, eng')
      BY <1>w, <2>1, DropSpares DEF AliveInv, TypeOK, NoEngine
    <2>3. engine # NoEngine => engine \in Workers
      BY DEF TypeOK
    <2> QED BY <2>1, <2>2, <2>3 DEF AliveInv, TypeOK
  <1>11. ASSUME NEW w \in Workers, MonitorSee(w) PROVE AliveInv'
    <2>1. /\ monitor[w] # "none" /\ monitor' = [monitor EXCEPT ![w] = "lock"]
          /\ UNCHANGED <<engine, network, worker, eng>>
      BY <1>11 DEF MonitorSee, MGoto, stateVars
    <2> QED BY <2>1 DEF AliveInv, Alive, TypeOK
  <1>12. ASSUME NEW w \in Workers, MonitorTake(w) PROVE AliveInv'
    <2>1. /\ monitor[w] # "none" /\ monitor' = [monitor EXCEPT ![w] = "undo"]
          /\ eng' = Drop(StopEngine(eng, w), NoEngine, worker, monitor')
          /\ engine' = NoEngine /\ network' = {} /\ worker' = worker
      BY <1>12 DEF MonitorTake, MGoto
    <2>2. \A v \in Workers : Holds(v) => Alive(v, StopEngine(eng, w))
      BY <2>1, StopSpares DEF AliveInv, TypeOK
    <2>3. StopEngine(eng, w) \in [Workers -> {"none", "live", "dead", "stopped"}]
      BY EngineTableType DEF TypeOK
    <2>4. \A v \in Workers : Holds(v) => Alive(v, eng')
      BY <2>1, <2>2, <2>3, DropSpares
    <2> QED BY <2>1, <2>4 DEF AliveInv, TypeOK
  <1>13. ASSUME NEW w \in Workers, MonitorUndo(w) PROVE AliveInv'
    <2>1. /\ monitor[w] # "none" /\ monitor' = [monitor EXCEPT ![w] = "exited"]
          /\ UNCHANGED <<engine, network, worker, eng>>
      BY <1>13 DEF MonitorUndo, MGoto
    <2> QED BY <2>1 DEF AliveInv, Alive, TypeOK
  <1>14. ASSUME NEW w \in Workers, EngineDies(w) PROVE AliveInv'
    <2>1. /\ eng' = [eng EXCEPT ![w] = "dead"] /\ UNCHANGED <<engine, network, worker, monitor>>
      BY <1>14 DEF EngineDies, stateVars, procVars
    <2>2. \A v \in Workers : Alive(v, eng) => Alive(v, eng')
      BY <2>1 DEF Alive, TypeOK
    <2>3. engine # NoEngine => engine \in Workers
      BY DEF TypeOK
    <2> QED BY <2>1, <2>2, <2>3 DEF AliveInv
  <1>15. CASE Crash
    BY <1>15 DEF Crash, AliveInv
  <1>16. CASE Restart
    BY <1>16, <1>q DEF Restart, stateVars, procVars
  <1>17. ASSUME NEW i \in Items, OtherInstalls(i) PROVE AliveInv'
    BY <1>17, <1>q DEF OtherInstalls, stateVars, procVars
  <1>18. CASE UNCHANGED vars
    BY <1>18, <1>q DEF vars, stateVars, procVars
  <1> QED
    BY <1>1, <1>2, <1>3, <1>4, <1>5, <1>6, <1>7, <1>8, <1>9, <1>10, <1>11, <1>12, <1>13, <1>14,
       <1>15, <1>16, <1>17, <1>18
    DEF Next, Client, Worker, Monitor

\* What the steps do to the set of items of ours.
LEMMA OursUndone ==
    ASSUME TypeOK, NEW S, UndoNetwork(os, S) PROVE Ours' = Ours \ S
  BY CleanUpRemoves DEF TypeOK, Ours
LEMMA OursUnplugged ==
    ASSUME TypeOK, NEW e, os' = WithoutAdapter(os, e) PROVE Ours' \subseteq Ours
  BY AdapterShrinks DEF TypeOK, Ours
LEMMA OursGivenBack ==
    ASSUME TypeOK, NEW e, NEW S, UndoNetwork(WithoutAdapter(os, e), S)
    PROVE  Ours' \subseteq Ours \ S
  <1>1. WithoutAdapter(os, e) \in [Items -> OsValues]
    BY AdapterShrinks DEF TypeOK
  <1> QED BY <1>1, CleanUpRemoves, AdapterShrinks DEF TypeOK, Ours

LeaseNext == [Lease!Next]_<<LeaseMode, Ours, Others, lost>>

\* The steps of clients.
LEMMA ClientLease ==
    ASSUME OwnInv, AliveInv, ModeInv, ModeInv', Others' \subseteq Others, NEW c \in Clients,
           BeginStart(c) \/ StopBump(c) \/ Client(c)
    PROVE  LeaseNext
  <1> USE DEF OwnInv, LeaseNext
  <1>1. CASE BeginStart(c) \/ StopBump(c) \/ StopMark(c) \/ SpawnFails(c)
    BY <1>1 DEF BeginStart, StopBump, StopMark, SpawnFails, LeaseMode, Ours, Others, stateVars, lockVars,
       diskVars, lifeVars
  <1>2. ASSUME NEW w \in Workers, SpawnWorker(c, w) PROVE LeaseNext
    <2>1. \A v \in Workers : worker'[v] \in {"install", "bad"} <=> worker[v] \in {"install", "bad"}
      BY <1>2 DEF SpawnWorker, Unused, TypeOK
    <2> QED BY <1>2, <2>1 DEF SpawnWorker, LeaseMode, Ours, Others, stateVars, lockVars, diskVars, lifeVars
  <1>3. CASE StopTake(c)
    <2>1. LeaseMode \in {"off", "on"} /\ LeaseMode' = "busy"
      BY <1>3 DEF StopTake, ClientAt, Goto, ModeInv, TypeOK
    <2>2. Ours' \subseteq Ours /\ lost' = lost
      BY <1>3, OursUnplugged DEF StopTake, lifeVars
    <2> QED BY <2>1, <2>2 DEF Lease!Next, Lease!HelperStep, Lease!Begin
  <1>4. CASE StopUndo(c)
    <2>1. LeaseMode = "busy" /\ LeaseMode' \in {"off", "on"}
      BY <1>4 DEF StopUndo, ClientAt, ModeInv, lifeVars
    <2>2. Ours' = Ours \ local /\ lost' = lost /\ Ours \subseteq local \cup lost
      BY <1>4, OursUndone DEF StopUndo, ClientAt, PlaceInv, lifeVars
    <2> QED BY <2>1, <2>2 DEF Lease!Next, Lease!HelperStep, Lease!EndClean
  <1>5. CASE CleanupLeftovers(c)
    <2>1. LeaseMode \in {"off", "on"} /\ LeaseMode' = LeaseMode
      BY <1>5 DEF CleanupLeftovers, ClientAt, ModeInv, lifeVars, lockVars, stateVars
    <2>2. Ours' = Ours \ (record \cup {Nrpt}) /\ lost' = lost /\ Ours \subseteq record \cup lost
      BY <1>5, OursUndone DEF CleanupLeftovers, ClientAt, UndoRecord, PlaceInv, Settled, lifeVars
    <2> QED BY <2>1, <2>2 DEF Lease!Next, Lease!HelperStep, Lease!Sweep
  <1> QED BY <1>1, <1>2, <1>3, <1>4, <1>5 DEF Client

\* The steps of start workers.
LEMMA WorkerLease ==
    ASSUME OwnInv, AliveInv, ModeInv, ModeInv', Others' \subseteq Others, NEW w \in Workers, Worker(w)
    PROVE  LeaseNext
  <1> USE DEF OwnInv, LeaseNext
  <1>u. worker[w] \notin {"unused", "ended"} => up
    BY DEF DownInv
  <1>1. CASE WorkerLock(w)
    <2>1. LeaseMode \in {"off", "on"} /\ LeaseMode' = "busy"
      BY <1>1, <1>u DEF WorkerLock, WGoto, ModeInv, TypeOK
    <2>2. Ours' = Ours /\ lost' = lost
      BY <1>1 DEF WorkerLock, Ours, diskVars, lifeVars
    <2> QED BY <2>1, <2>2 DEF Lease!Next, Lease!HelperStep, Lease!Begin
  <1>2. CASE WorkerCancelled(w)
    <2>1. LeaseMode = "busy" /\ LeaseMode' = IF engine = NoEngine THEN "off" ELSE "on"
      BY <1>2, <1>u DEF WorkerCancelled, ModeInv, stateVars, lifeVars
    <2>2. Ours' = Ours /\ lost' = lost /\ Ours \subseteq network \cup lost
      BY <1>2 DEF WorkerCancelled, PlaceInv, Settled, Ours, diskVars, lifeVars
    <2>3. CASE engine = NoEngine
      BY <2>1, <2>2, <2>3 DEF AliveInv, Lease!Next, Lease!HelperStep, Lease!EndClean
    <2>4. CASE engine # NoEngine
      BY <2>1, <2>2, <2>4 DEF Lease!Next, Lease!HelperStep, Lease!EndUp
    <2> QED BY <2>3, <2>4
  <1>3. CASE WorkerClean(w)
    <2>1. LeaseMode = "busy" /\ LeaseMode' = "busy"
      BY <1>3 DEF WorkerClean, WGoto, ModeInv, TypeOK
    <2>2. Ours' \subseteq Ours /\ lost' = lost
      BY <1>3, OursUndone DEF WorkerClean, UndoRecord, lifeVars
    <2> QED BY <2>1, <2>2 DEF Lease!Next, Lease!HelperStep, Lease!Remove
  <1>4. CASE WorkerStart(w)
    <2>1. LeaseMode = "busy" /\ LeaseMode' = "setup"
      BY <1>4 DEF WorkerStart, WGoto, ModeInv, TypeOK
    <2>2. Ours' = Ours /\ lost' = lost /\ Ours \subseteq lost
      BY <1>4 DEF WorkerStart, PlaceInv, Ours, diskVars, lifeVars
    <2> QED BY <2>1, <2>2 DEF Lease!Next, Lease!HelperStep, Lease!BeginSetup
  <1>5. CASE WorkerStartErr(w)
    <2>1. LeaseMode = "busy" /\ LeaseMode' \in {"off", "on"}
      BY <1>5, <1>u DEF WorkerStartErr, ModeInv, lifeVars
    <2>2. Ours' = Ours /\ lost' = lost /\ Ours \subseteq lost
      BY <1>5 DEF WorkerStartErr, PlaceInv, Ours, diskVars, lifeVars
    <2> QED BY <2>1, <2>2 DEF Lease!Next, Lease!HelperStep, Lease!EndClean
  <1>6. ASSUME NEW i \in Items, Install(w, i) PROVE LeaseNext
    <2>1. LeaseMode = "setup" /\ LeaseMode' = "setup"
      BY <1>6 DEF Install, ModeInv, procVars
    <2>2. lost' = lost
      BY <1>6 DEF Install, lifeVars
    <2>3. (Ours' = Ours /\ Others' = Others) \/ Ours' = Ours \cup {i}
      BY <1>6 DEF Install, Ours, Others, TypeOK
    <2> QED BY <2>1, <2>2, <2>3 DEF Lease!Next, Lease!HelperStep, Lease!Install
  <1>7. ASSUME NEW i \in Items, InstallWarn(w, i) PROVE LeaseNext
    BY <1>7 DEF InstallWarn, LeaseMode, Ours, Others, stateVars, procVars, diskVars, lifeVars
  <1>8. ASSUME NEW i \in Items, InstallErr(w, i) PROVE LeaseNext
    <2>1. LeaseMode = "setup" /\ LeaseMode' = "setup"
      BY <1>8 DEF InstallErr, WGoto, ModeInv, TypeOK
    <2>2. lost' = lost /\ Nrpt \in Items
      BY <1>8 DEF InstallErr, lifeVars, Items
    <2>3. (Ours' = Ours /\ Others' = Others) \/ Ours' = Ours \cup {Nrpt}
      BY <1>8, <2>2 DEF InstallErr, Ours, Others, TypeOK
    <2> QED BY <2>1, <2>2, <2>3 DEF Lease!Next, Lease!HelperStep, Lease!Install
  <1>9. CASE SaveRecord(w)
    <2>1. LeaseMode = "setup" /\ LeaseMode' = "busy"
      BY <1>9 DEF SaveRecord, WGoto, ModeInv, TypeOK
    <2>2. Ours' = Ours /\ lost' = lost
      BY <1>9 DEF SaveRecord, Ours, lifeVars
    <2> QED BY <2>1, <2>2 DEF Lease!Next, Lease!HelperStep, Lease!Save
  <1>10. CASE WorkerAbort(w) \/ WorkerVerifyCancelled(w)
    <2>1. LeaseMode \in {"setup", "busy"} /\ LeaseMode' \in {"off", "on"}
      BY <1>10, <1>u DEF WorkerAbort, WorkerVerifyCancelled, ModeInv, lifeVars
    <2>2. Ours' \subseteq Ours \ local /\ lost' = lost /\ Ours \subseteq local \cup lost
      BY <1>10, OursGivenBack DEF WorkerAbort, WorkerVerifyCancelled, PlaceInv, lifeVars
    <2> QED BY <2>1, <2>2 DEF Lease!Next, Lease!HelperStep, Lease!EndClean
  <1>11. CASE WorkerVerifyOk(w)
    <2>1. LeaseMode = "busy" /\ LeaseMode' = "busy"
      BY <1>11 DEF WorkerVerifyOk, WGoto, ModeInv, TypeOK
    <2> QED BY <1>11, <2>1 DEF WorkerVerifyOk, Ours, Others, diskVars, lifeVars
  <1>12. CASE WorkerPublish(w)
    <2>1. LeaseMode = "busy" /\ LeaseMode' = "on"
      BY <1>12, <1>u DEF WorkerPublish, ModeInv, lifeVars, NoEngine, Workers
    <2>2. Ours' = Ours /\ lost' = lost
      BY <1>12 DEF WorkerPublish, Ours, diskVars, lifeVars
    <2> QED BY <2>1, <2>2 DEF Lease!Next, Lease!HelperStep, Lease!EndUp
  <1>13. CASE WorkerReport(w) \/ WorkerSetFailed(w)
    <2>1. \A v \in Workers : worker'[v] \in {"install", "bad"} <=> worker[v] \in {"install", "bad"}
      BY <1>13 DEF WorkerReport, WorkerSetFailed, WGoto, TypeOK
    <2> QED BY <1>13, <2>1
            DEF WorkerReport, WorkerSetFailed, LeaseMode, Ours, Others, stateVars, lockVars, diskVars,
                lifeVars
  <1> QED
    BY <1>1, <1>2, <1>3, <1>4, <1>5, <1>6, <1>7, <1>8, <1>9, <1>10, <1>11, <1>12, <1>13 DEF Worker

\* The steps of monitors.  One that leaves closes the adapter only when nothing
\* is installed on it.
LEMMA MonitorLease ==
    ASSUME OwnInv, AliveInv, ModeInv, ModeInv', Others' \subseteq Others, NEW w \in Workers, Monitor(w)
    PROVE  LeaseNext
  <1> USE DEF OwnInv, LeaseNext
  <1>u. monitor[w] # "none" => up
    BY DEF DownInv
  <1>1. CASE MonitorRetire(w)
    <2>1. LeaseMode' = LeaseMode /\ lost' = lost
      BY <1>1 DEF MonitorRetire, LeaseMode, stateVars, lockVars, lifeVars
    <2>2. Ours' \subseteq Ours
      BY <1>1, OursUnplugged DEF MonitorRetire
    <2>3. CASE LeaseMode = "busy"
      BY <2>1, <2>2, <2>3 DEF Lease!Next, Lease!HelperStep, Lease!Remove
    <2>4. ASSUME NEW v \in Workers, Alive(v, eng),
                 v = engine \/ worker[v] \in {"install", "bad", "verify", "publish"}
          PROVE  Ours' = Ours /\ Others' = Others
      <3>1. Alive(v, eng')
        BY <1>1, <2>4, DropSpares DEF MonitorRetire, TypeOK
      <3>2. os' = os
        BY <1>1, <3>1 DEF MonitorRetire, WithoutAdapter
      <3> QED BY <3>2 DEF Ours, Others
    <2>5. CASE LeaseMode = "setup"
      <3>1. PICK v \in Workers : worker[v] \in {"install", "bad"}
        BY <2>5 DEF LeaseMode
      <3> QED BY <2>1, <2>4, <3>1 DEF AliveInv
    <2>6. CASE LeaseMode = "on"
      <3>1. engine # NoEngine /\ engine \in Workers
        BY <2>6 DEF LeaseMode, TypeOK
      <3> QED BY <2>1, <2>4, <3>1 DEF AliveInv
    <2>7. CASE LeaseMode = "off"
      <3>1. up /\ op = Free /\ engine = NoEngine
        BY <2>7 DEF LeaseMode
      <3>2. Ours \subseteq lost
        BY <3>1 DEF AliveInv, PlaceInv, Settled
      <3> QED BY <2>1, <2>2, <2>7, <3>2 DEF Lease!Next, Lease!HelperStep, Lease!Sweep
    <2>8. LeaseMode # "down"
      BY <1>1, <1>u DEF MonitorRetire, LeaseMode
    <2> QED BY <2>3, <2>5, <2>6, <2>7, <2>8 DEF LeaseMode
  <1>2. CASE MonitorSee(w)
    BY <1>2 DEF MonitorSee, LeaseMode, Ours, Others, stateVars, lockVars, diskVars, lifeVars
  <1>3. CASE MonitorTake(w)
    <2>1. LeaseMode \in {"off", "on"} /\ LeaseMode' = "busy"
      BY <1>3, <1>u DEF MonitorTake, MGoto, ModeInv, TypeOK
    <2>2. Ours' \subseteq Ours /\ lost' = lost
      BY <1>3, OursUnplugged DEF MonitorTake, lifeVars
    <2> QED BY <2>1, <2>2 DEF Lease!Next, Lease!HelperStep, Lease!Begin
  <1>4. CASE MonitorUndo(w)
    <2>1. LeaseMode = "busy" /\ LeaseMode' \in {"off", "on"}
      BY <1>4, <1>u DEF MonitorUndo, ModeInv, lifeVars
    <2>2. Ours' = Ours \ local /\ lost' = lost /\ Ours \subseteq local \cup lost
      BY <1>4, OursUndone DEF MonitorUndo, PlaceInv, lifeVars
    <2> QED BY <2>1, <2>2 DEF Lease!Next, Lease!HelperStep, Lease!EndClean
  <1> QED BY <1>1, <1>2, <1>3, <1>4 DEF Monitor

\* The end of the process, the next one, and the failure of an engine.
LEMMA LifeLease ==
    ASSUME OwnInv, AliveInv, ModeInv, ModeInv', Others' \subseteq Others,
           Crash \/ Restart \/ (\E w \in Workers : EngineDies(w)) \/ UNCHANGED vars
    PROVE  LeaseNext
  <1> USE DEF OwnInv, LeaseNext
  <1>1. CASE Crash
    <2>1. LeaseMode # "down" /\ LeaseMode' = "down"
      BY <1>1 DEF Crash, LeaseMode, ModeInv
    <2>2. Ours' = Ours \ Tunnel /\ lost' = lost \cup ((Ours \cap Bypass) \ record)
      BY <1>1, UndoRemoves DEF Crash, Unplug, Ours, TypeOK
    <2>3. LeaseMode # "setup" => Ours \subseteq record \cup lost
      BY <1>1, CoveredOutsideSetup DEF Crash, ModeInv
    <2>4. lost \subseteq lost' /\ lost' \subseteq lost \cup IF LeaseMode = "setup" THEN Ours ELSE {}
      BY <2>2, <2>3
    <2> QED BY <2>1, <2>2, <2>4 DEF Lease!Next, Lease!HelperStep, Lease!Crash
  <1>2. CASE Restart
    <2>1. LeaseMode = "down" /\ LeaseMode' = "off"
      BY <1>2 DEF Restart, ModeInv, DownInv, lockVars, stateVars
    <2>2. Ours' = Ours \ (record \cup {Nrpt}) /\ lost' = lost
          /\ Ours \subseteq record \cup {Nrpt} \cup lost
      BY <1>2, OursUndone DEF Restart, UndoRecord, DownInv
    <2> QED BY <2>1, <2>2 DEF Lease!Next, Lease!HelperStep, Lease!Recover
  <1>3. ASSUME NEW w \in Workers, EngineDies(w) PROVE LeaseNext
    BY <1>3 DEF EngineDies, LeaseMode, Ours, Others, stateVars, lockVars, procVars, diskVars, lifeVars
  <1>4. CASE UNCHANGED vars
    BY <1>4 DEF vars, LeaseMode, Ours, Others, stateVars, lockVars, procVars, diskVars, lifeVars
  <1> QED BY <1>1, <1>2, <1>3, <1>4

\* A route another program makes.
LEMMA OtherInstallsLease ==
    ASSUME TypeOK, NEW i \in Items, OtherInstalls(i) PROVE LeaseNext
  <1>1. /\ i \in Items \ Others /\ Others' = Others \cup {i} /\ Ours' = Ours \ {i}
        /\ LeaseMode' = LeaseMode /\ lost' = lost
    BY DEF OtherInstalls, Others, Ours, TypeOK, LeaseMode, stateVars, lockVars, procVars
  <1> QED BY <1>1 DEF LeaseNext, Lease!Next, Lease!Taken

\* WindowsRuntime implements NetworkLease, for any clients, starts, stops,
\* crashes and routes.
THEOREM LeaseIsKept == Spec => LeaseKept
  <1>1. Init => Lease!Init
    BY ItemAssumption DEF Init, Lease!Init, LeaseMode, Ours, Others, NoEngine, Free
  <1>2. Init => AliveInv
    BY DEF Init, AliveInv, NoEngine
  <1>3. TypeOK /\ AliveInv /\ [Next]_vars => AliveInv'
    BY AliveStep
  <1>4. OwnInv => TypeOK /\ ModeInv
    BY ModeFromLock DEF OwnInv
  <1>5. OwnInv /\ AliveInv /\ ForeignInv /\ ModeInv /\ ModeInv' /\ [Next]_vars
            => [Lease!Next]_<<LeaseMode, Ours, Others, lost>>
    <2> SUFFICES ASSUME OwnInv, AliveInv, ForeignInv, ModeInv, ModeInv', [Next]_vars PROVE LeaseNext
      BY DEF LeaseNext
    <2>1. CASE \E i \in Items : OtherInstalls(i)
      BY <2>1, OtherInstallsLease DEF OwnInv
    <2>2. CASE ~\E i \in Items : OtherInstalls(i)
      <3>1. Others' \subseteq Others
        BY <2>2, HelperSpares DEF OwnInv, ForeignSpared
      <3> QED BY <2>2, <3>1, ClientLease, WorkerLease, MonitorLease, LifeLease DEF Next
    <2> QED BY <2>1, <2>2
  <1> QED
    BY <1>1, <1>2, <1>3, <1>4, <1>5, OwnInvariance, ForeignInvariance, PTL
    DEF Spec, LeaseKept, Lease!Spec
=============================================================================
