--------------------------- MODULE VpnEngineProofs ---------------------------
(***************************************************************************)
(* Proofs about VpnEngine: its type invariant, that the reported failure   *)
(* is the cause, that stop() leaves nothing behind, and that the engine    *)
(* implements EngineLife.                                                  *)
(*                                                                         *)
(* The inductive invariant relates three things the code keeps apart: the  *)
(* published result, the close flag with the state of the tunnel, and the  *)
(* points the workers and the owner are at.                                *)
(***************************************************************************)
EXTENDS VpnEngine, TLAPS

\* A worker past its first failure step has published a result, which only
\* take_result (and so the beginning of a cancel) removes.
Published(pc) == pc \in {"fail2", "fail3"} => result # None \/ cancelled

\* Until the owner cancels, close and the closed tunnel follow a published
\* failure, an error that echoes it comes after it, and threads end only
\* after close is set.
FailureInv ==
    /\ Published(up) /\ Published(down)
    /\ close => result # None \/ cancelled
    /\ tunnel = "closed" => result # None \/ cancelled
    /\ up = "fail1" /\ upErr = "echo" => result # None \/ cancelled
    /\ down = "fail1" /\ downErr = "echo" => result # None \/ cancelled
    /\ ~cancelled => result # "echo"
    /\ reported # "echo"
    /\ up = "fail3" => close
    /\ down = "fail3" => close
    /\ up = "done" => close
    /\ down = "done" => close
    /\ stack = "done" => close

\* What start has created at each of its points, and a failed start has ended.
StartInv ==
    /\ owner = "start_dns" => dns = "none"
    /\ owner \in {"start_dns", "start_stack"} => stack = "none"
    /\ owner \in {"start_dns", "start_stack", "start_up"} => up = "none"
    /\ owner = "start_down" => up # "none"
    /\ owner \in Starting \cup {"failed"} =>
         /\ owner # "start_done" => down = "none"
         /\ workers = {} /\ joining = {}
    /\ owner \in {"undo_dns", "undo_join", "failed"} /\ up = "none" => stack # "run"
    /\ owner = "failed" => dns # "run"

Started == owner \notin Starting \cup {"failed"}

\* Where the owner is in cancel and join_workers, and what it has ended.
OwnerInv ==
    /\ ~cancelled <=> owner \in {"start_dns", "start_stack", "start_up", "start_down",
                                 "start_done", "watch"}
    /\ dns_stop => cancelled
    /\ dns = "done" => cancelled
    /\ workers \in {{}, {"up", "down"}} /\ joining \in {{}, {"up", "down"}}
    /\ joining # {} => owner = "join" /\ workers = {}
    /\ owner = "watch" => workers # {}
    /\ owner \in {"interrupt", "dns", "take", "join", "ended"} => stack = "done"
    /\ owner \in {"take", "join", "ended"} => dns # "run" /\ tunnel = "closed"
    /\ Started /\ workers = {} => stack = "done" /\ dns # "run" /\ tunnel = "closed"
    /\ Started /\ workers = {} /\ joining = {} => up = "done" /\ down = "done"
    /\ owner \in {"join", "ended"} => workers = {}
    /\ owner = "ended" => joining = {}

EngineInv == TypeOK /\ FailureInv /\ StartInv /\ OwnerInv

-----------------------------------------------------------------------------
\* The invariant holds when start_l3_vpn_engine begins.
LEMMA InitInv == Init => EngineInv
  BY DEF Init, EngineInv, TypeOK, FailureInv, StartInv, OwnerInv, Started, Starting,
              Published, Errors, None, Points, Failing

\* The uplink worker keeps the invariant.
LEMMA UpInv == EngineInv /\ Up => EngineInv'
  <1> SUFFICES ASSUME EngineInv, Up PROVE EngineInv'
    OBVIOUS
  <1> USE DEF EngineInv, TypeOK, FailureInv, StartInv, OwnerInv, Started, Starting,
              Published, Errors, None, Points, Failing
  <1>1. CASE UpTest
    BY <1>1 DEF UpTest, UpGoto, UpFail, UpRest, config, downVars, sideVars, ownerVars
  <1>2. CASE UpPacket
    BY <1>2 DEF UpPacket, UpGoto, UpFail, UpRest, config, downVars, sideVars, ownerVars
  <1>3. CASE UpNothing
    BY <1>3 DEF UpNothing, UpGoto, UpFail, UpRest, config, downVars, sideVars, ownerVars
  <1>4. CASE UpInterrupted
    BY <1>4 DEF UpInterrupted, UpGoto, UpFail, UpRest, config, downVars, sideVars, ownerVars
  <1>5. CASE UpDeviceErr
    BY <1>5 DEF UpDeviceErr, UpGoto, UpFail, UpRest, config, downVars, sideVars, ownerVars
  <1>6. CASE UpWrite
    BY <1>6 DEF UpWrite, UpGoto, UpFail, UpRest, config, downVars, sideVars, ownerVars
  <1>7. CASE UpWriteErr
    BY <1>7 DEF UpWriteErr, UpGoto, UpFail, UpRest, config, downVars, sideVars, ownerVars
  <1>8. CASE UpFailStep
    <2>1. CASE up = "fail1"
      BY <1>8, <2>1 DEF UpFailStep, UpGoto, UpFail, UpRest, config, downVars, sideVars, ownerVars,
          FailStep, StepOf, FailOrder, AfterFail, set_result
    <2>2. CASE up = "fail2"
      BY <1>8, <2>2 DEF UpFailStep, UpGoto, UpFail, UpRest, config, downVars, sideVars, ownerVars,
          FailStep, StepOf, FailOrder, AfterFail, set_result
    <2>3. CASE up = "fail3"
      BY <1>8, <2>3 DEF UpFailStep, UpGoto, UpFail, UpRest, config, downVars, sideVars, ownerVars,
          FailStep, StepOf, FailOrder, AfterFail, set_result
    <2> QED
      BY <1>8, <2>1, <2>2, <2>3 DEF UpFailStep
  <1> QED
    BY <1>1, <1>2, <1>3, <1>4, <1>5, <1>6, <1>7, <1>8 DEF Up

\* The downlink worker keeps the invariant.
LEMMA DownInv == EngineInv /\ Down => EngineInv'
  <1> SUFFICES ASSUME EngineInv, Down PROVE EngineInv'
    OBVIOUS
  <1> USE DEF EngineInv, TypeOK, FailureInv, StartInv, OwnerInv, Started, Starting,
              Published, Errors, None, Points, Failing
  <1>1. CASE DownTest
    BY <1>1 DEF DownTest, DownGoto, DownFail, DownRest, config, upVars, sideVars, ownerVars
  <1>2. CASE DownPacket
    BY <1>2 DEF DownPacket, DownGoto, DownFail, DownRest, config, upVars, sideVars, ownerVars
  <1>3. CASE DownReadErr
    BY <1>3 DEF DownReadErr, DownGoto, DownFail, DownRest, config, upVars, sideVars, ownerVars
  <1>4. CASE DownSend
    BY <1>4 DEF DownSend, DownGoto, DownFail, DownRest, config, upVars, sideVars, ownerVars
  <1>5. CASE DownSendErr
    BY <1>5 DEF DownSendErr, DownGoto, DownFail, DownRest, config, upVars, sideVars, ownerVars
  <1>6. CASE DownFailStep
    <2>1. CASE down = "fail1"
      BY <1>6, <2>1 DEF DownFailStep, DownGoto, DownFail, DownRest, config, upVars, sideVars,
          ownerVars, FailStep, StepOf, FailOrder, AfterFail, set_result
    <2>2. CASE down = "fail2"
      BY <1>6, <2>2 DEF DownFailStep, DownGoto, DownFail, DownRest, config, upVars, sideVars,
          ownerVars, FailStep, StepOf, FailOrder, AfterFail, set_result
    <2>3. CASE down = "fail3"
      BY <1>6, <2>3 DEF DownFailStep, DownGoto, DownFail, DownRest, config, upVars, sideVars,
          ownerVars, FailStep, StepOf, FailOrder, AfterFail, set_result
    <2> QED
      BY <1>6, <2>1, <2>2, <2>3 DEF DownFailStep
  <1> QED
    BY <1>1, <1>2, <1>3, <1>4, <1>5, <1>6 DEF Down

\* start keeps the invariant, whichever of its parts fails.
LEMMA StartStepInv == EngineInv /\ Start => EngineInv'
  <1> SUFFICES ASSUME EngineInv, Start PROVE EngineInv'
    OBVIOUS
  <1> USE DEF EngineInv, TypeOK, FailureInv, StartInv, OwnerInv, Started, Starting,
              Published, Errors, None, Points, Failing,
              OwnerGoto, StartRest, config, upVars, downVars, sideVars
  <1>1. CASE StartDns
    BY <1>1 DEF StartDns
  <1>2. CASE StartStack
    BY <1>2 DEF StartStack
  <1>3. CASE StartUp
    BY <1>3 DEF StartUp
  <1>4. CASE StartDown
    BY <1>4 DEF StartDown
  <1>5. CASE StartReturn
    BY <1>5 DEF StartReturn
  <1>6. CASE StartErr
    <2>1. CASE owner = "start_dns"
      BY <1>6, <2>1 DEF StartErr, UndoFrom
    <2>2. CASE owner = "start_stack"
      BY <1>6, <2>2 DEF StartErr, UndoFrom
    <2>3. CASE owner = "start_up"
      BY <1>6, <2>3 DEF StartErr, UndoFrom
    <2>4. CASE owner = "start_down" /\ up = "done"
      BY <1>6, <2>4 DEF StartErr, UndoFrom
    <2>5. CASE owner = "start_down" /\ up # "done"
      BY <1>6, <2>5 DEF StartErr, UndoFrom
    <2> QED
      BY <1>6, <2>1, <2>2, <2>3, <2>4, <2>5 DEF StartErr
  <1>7. CASE UndoClose
    BY <1>7 DEF UndoClose
  <1>8. CASE UndoStack
    BY <1>8 DEF UndoStack
  <1>9. CASE UndoDns
    BY <1>9 DEF UndoDns
  <1>10. CASE UndoJoin
    BY <1>10 DEF UndoJoin
  <1> QED
    BY <1>1, <1>2, <1>3, <1>4, <1>5, <1>6, <1>7, <1>8, <1>9, <1>10 DEF Start

\* The stack's thread, the DNS server's thread and the owner keep the
\* invariant.
LEMMA OwnerStepInv ==
  EngineInv /\ (StackExit \/ DnsExit \/ Stop \/ take_result \/ StopAgain \/ Shutdown) => EngineInv'
  <1> SUFFICES ASSUME EngineInv,
                      StackExit \/ DnsExit \/ Stop \/ take_result \/ StopAgain \/ Shutdown
               PROVE  EngineInv'
    OBVIOUS
  <1> USE DEF EngineInv, TypeOK, FailureInv, StartInv, OwnerInv, Started, Starting,
              Published, Errors, None, Points, Failing,
              OwnerGoto, OwnerRest, config, upVars, downVars, sideVars, ownerVars
  <1>1. CASE StackExit
    BY <1>1 DEF StackExit
  <1>2. CASE DnsExit
    BY <1>2 DEF DnsExit
  <1>3. CASE Stop
    BY <1>3 DEF Stop
  <1>4. CASE take_result
    BY <1>4 DEF take_result
  <1>5. CASE StopAgain
    BY <1>5 DEF StopAgain
  <1>6. CASE CancelClose
    BY <1>6 DEF CancelClose
  <1>7. CASE CancelStack
    BY <1>7 DEF CancelStack
  <1>8. CASE CancelInterrupt
    BY <1>8 DEF CancelInterrupt
  <1>9. CASE CancelTunnel
    BY <1>9 DEF CancelTunnel
  <1>10. CASE JoinTake
    BY <1>10 DEF JoinTake
  <1>11. CASE JoinDone
    <2>1. up = "done" /\ down = "done"
      BY <1>11 DEF JoinDone, Joined, Ended
    <2> QED
      BY <1>11, <2>1 DEF JoinDone
  <1> QED
    BY <1>1, <1>2, <1>3, <1>4, <1>5, <1>6, <1>7, <1>8, <1>9, <1>10, <1>11 DEF Shutdown

\* The strengthened invariant holds throughout, for both kinds of device and
\* with and without exit_on_fatal_error.
THEOREM EngineInvariance == Spec => []EngineInv
  <1>1. EngineInv /\ [Next]_vars => EngineInv'
    <2> SUFFICES ASSUME EngineInv, [Next]_vars PROVE EngineInv'
      OBVIOUS
    <2>1. CASE UNCHANGED vars
      BY <2>1 DEF vars, EngineInv, TypeOK, FailureInv, StartInv, OwnerInv, Started, Published,
          Failing, Points
    <2> QED
      BY <2>1, StartStepInv, UpInv, DownInv, OwnerStepInv DEF Next
  <1> QED
    BY <1>1, InitInv, PTL DEF Spec

\* The variables of the engine keep their types, and a worker on its way
\* through fail_engine has an error to publish.
THEOREM TypeCorrect == Spec => []TypeOK
  BY EngineInvariance, PTL DEF EngineInv

\* take_result never hands out the error a worker got because its peer had
\* closed the tunnel: fail_engine publishes before it closes anything.
THEOREM ReportsRootCause == Spec => []RootCauseReported
  <1>1. EngineInv => RootCauseReported
    BY DEF EngineInv, FailureInv, RootCauseReported
  <1> QED
    BY <1>1, EngineInvariance, PTL

\* When stop() or take_result() has returned, no thread of the engine runs
\* and the tunnel is closed; a start that fails leaves at most the uplink
\* worker and the stack, and those only when the uplink had been created.
THEOREM NothingLeftByStop == Spec => []StopLeavesNothing
  <1>1. EngineInv => StopLeavesNothing
    BY DEF EngineInv, TypeOK, StartInv, OwnerInv, Started, Starting, StopLeavesNothing, Running,
           Alive
  <1> QED
    BY <1>1, EngineInvariance, PTL

-----------------------------------------------------------------------------
(* The engine implements EngineLife.                                       *)

\* An engine that is being started has no thread yet.
LEMMA InitLife == Init => Life!Init
  BY DEF Init, Life!Init, life, Starting, Running, Alive, None

\* What EngineLife sees: the owner's point, the handles, the published result
\* and which threads are there.  A step that changes none of them is a
\* stutter.
LEMMA Unseen ==
  ASSUME UNCHANGED <<owner, cancelled, workers, joining, result, stack, dns>>,
         Alive(up') <=> Alive(up), Alive(down') <=> Alive(down)
  PROVE  UNCHANGED <<life, Running>>
  BY DEF life, Starting, Running, Alive

\* Nor does it see the points of a shutdown.
LEMMA UnseenShutdown ==
  ASSUME UNCHANGED <<cancelled, workers, joining, result, stack, dns, up, down>>,
         Started, Started'
  PROVE  UNCHANGED <<life, Running>>
  BY DEF life, Started, Starting, Running, Alive

\* A thread that ends after the failure is visible, or after a cancel has
\* begun, takes EngineLife's End step.
LEMMA EndIsEnd ==
  ASSUME EngineInv, UNCHANGED <<owner, cancelled, workers, joining, result>>,
         result # None \/ cancelled,
         \/ Alive(up) /\ up' = "done" /\ UNCHANGED <<down, stack, dns>>
         \/ Alive(down) /\ down' = "done" /\ UNCHANGED <<up, stack, dns>>
         \/ Alive(stack) /\ stack' = "done" /\ UNCHANGED <<up, down, dns>>
         \/ Alive(dns) /\ dns' = "done" /\ UNCHANGED <<up, down, stack>>
  PROVE  Life!End
  <1>1. life \in {"spoiled", "failed", "dead", "stopping"} /\ life' = life
    BY DEF life, EngineInv, TypeOK, OwnerInv, Started, Starting, Alive
  <1>2. \E t \in Running : Running' = Running \ {t}
    <2>1. CASE Alive(up) /\ up' = "done" /\ UNCHANGED <<down, stack, dns>>
      <3>1. "up" \in Running /\ Running' = Running \ {"up"}
        BY <2>1 DEF Running, Alive
      <3> QED BY <3>1
    <2>2. CASE Alive(down) /\ down' = "done" /\ UNCHANGED <<up, stack, dns>>
      <3>1. "down" \in Running /\ Running' = Running \ {"down"}
        BY <2>2 DEF Running, Alive
      <3> QED BY <3>1
    <2>3. CASE Alive(stack) /\ stack' = "done" /\ UNCHANGED <<up, down, dns>>
      <3>1. "stack" \in Running /\ Running' = Running \ {"stack"}
        BY <2>3 DEF Running, Alive
      <3> QED BY <3>1
    <2>4. CASE Alive(dns) /\ dns' = "done" /\ UNCHANGED <<up, down, stack>>
      <3>1. "dns" \in Running /\ Running' = Running \ {"dns"}
        BY <2>4 DEF Running, Alive
      <3> QED BY <3>1
    <2> QED BY <2>1, <2>2, <2>3, <2>4
  <1> QED
    BY <1>1, <1>2 DEF Life!End

\* A thread that start creates takes EngineLife's Create step.
LEMMA CreateIsCreate ==
  ASSUME EngineInv, UNCHANGED <<cancelled, workers, joining, result>>,
         owner \in Starting, owner' \in Starting,
         \/ up = "none" /\ up' = "test" /\ UNCHANGED <<down, stack, dns>>
         \/ down = "none" /\ down' = "test" /\ UNCHANGED <<up, stack, dns>>
         \/ stack = "none" /\ stack' = "run" /\ UNCHANGED <<up, down, dns>>
         \/ dns = "none" /\ dns' = "run" /\ UNCHANGED <<up, down, stack>>
  PROVE  Life!Create
  <1>1. life \in {"starting", "spoiled"} /\ life' = life
    BY DEF life, Starting
  <1>2. \E t \in {"up", "down", "stack", "dns"} \ Running : Running' = Running \cup {t}
    <2>1. CASE up = "none" /\ up' = "test" /\ UNCHANGED <<down, stack, dns>>
      <3>1. "up" \notin Running /\ Running' = Running \cup {"up"}
        BY <2>1 DEF Running, Alive
      <3> QED BY <3>1
    <2>2. CASE down = "none" /\ down' = "test" /\ UNCHANGED <<up, stack, dns>>
      <3>1. "down" \notin Running /\ Running' = Running \cup {"down"}
        BY <2>2 DEF Running, Alive
      <3> QED BY <3>1
    <2>3. CASE stack = "none" /\ stack' = "run" /\ UNCHANGED <<up, down, dns>>
      <3>1. "stack" \notin Running /\ Running' = Running \cup {"stack"}
        BY <2>3 DEF Running, Alive
      <3> QED BY <3>1
    <2>4. CASE dns = "none" /\ dns' = "run" /\ UNCHANGED <<up, down, stack>>
      <3>1. "dns" \notin Running /\ Running' = Running \cup {"dns"}
        BY <2>4 DEF Running, Alive
      <3> QED BY <3>1
    <2> QED BY <2>1, <2>2, <2>3, <2>4
  <1> QED
    BY <1>1, <1>2 DEF Life!Create

\* Every step of start is a step of EngineLife or a stutter.
LEMMA StartLife == EngineInv /\ Start => [Life!Next]_<<life, Running>>
  <1> SUFFICES ASSUME EngineInv, Start PROVE [Life!Next]_<<life, Running>>
    OBVIOUS
  <1> USE DEF OwnerGoto, StartRest, config, upVars, downVars, sideVars
  <1>1. CASE StartDns
    <2>1. CASE fake_ip
      BY <1>1, <2>1, CreateIsCreate DEF StartDns, Starting, EngineInv, StartInv, Life!Next
    <2>2. CASE ~fake_ip
      BY <1>1, <2>2 DEF StartDns, life, Starting, Running, Alive, EngineInv, TypeOK
    <2> QED
      BY <2>1, <2>2
  <1>2. CASE StartStack
    BY <1>2, CreateIsCreate DEF StartStack, Starting, EngineInv, StartInv, Life!Next
  <1>3. CASE StartUp
    BY <1>3, CreateIsCreate DEF StartUp, Starting, EngineInv, StartInv, Life!Next
  <1>4. CASE StartDown
    BY <1>4, CreateIsCreate DEF StartDown, Starting, EngineInv, StartInv, Life!Next
  <1>5. CASE StartReturn
    <2>1. Running' = Running
      BY <1>5 DEF StartReturn, Running, Alive
    <2>2. ~cancelled /\ ~cancelled'
      BY <1>5 DEF StartReturn, EngineInv, OwnerInv
    <2>3. \/ life = "starting" /\ life' = "live"
          \/ life = "spoiled" /\ life' = "dead"
      BY <1>5, <2>2 DEF StartReturn, life, Starting
    <2> QED
      BY <2>1, <2>3 DEF Life!Next, Life!Started
  <1>6. CASE StartErr
    <2>1. Running' = Running
      BY <1>6 DEF StartErr, Running, Alive
    <2>2. life \in {"starting", "spoiled"} /\ life' \in {"spoiled", "failed"}
      BY <1>6 DEF StartErr, UndoFrom, life, Starting, EngineInv, OwnerInv
    <2> QED
      BY <2>1, <2>2 DEF Life!Next, Life!Die, Life!Fail
  <1>7. CASE UndoClose
    BY <1>7 DEF UndoClose, life, Starting, Running, Alive
  <1>8. CASE UndoStack
    BY <1>8 DEF UndoStack, life, Starting, Running, Alive
  <1>9. CASE UndoDns
    BY <1>9 DEF UndoDns, life, Starting, Running, Alive
  <1>10. CASE UndoJoin
    <2>1. Running' = Running
      BY <1>10 DEF UndoJoin, Running, Alive
    <2>2. life \in {"starting", "spoiled"} /\ life' = "failed"
      BY <1>10 DEF UndoJoin, life, Starting
    <2> QED
      BY <2>1, <2>2 DEF Life!Next, Life!Fail
  <1> QED
    BY <1>1, <1>2, <1>3, <1>4, <1>5, <1>6, <1>7, <1>8, <1>9, <1>10 DEF Start

\* Every step of the uplink worker is a step of EngineLife or a stutter.
LEMMA UpLife == EngineInv /\ Up => [Life!Next]_<<life, Running>>
  <1> SUFFICES ASSUME EngineInv, Up PROVE [Life!Next]_<<life, Running>>
    OBVIOUS
  <1> USE DEF UpGoto, UpFail, UpRest, config, downVars, sideVars, ownerVars
  <1>1. CASE UpPacket
    BY <1>1, Unseen DEF Alive, UpPacket, Failing
  <1>2. CASE UpNothing
    BY <1>2, Unseen DEF Alive, UpNothing, Failing
  <1>3. CASE UpDeviceErr
    BY <1>3, Unseen DEF Alive, UpDeviceErr, Failing
  <1>4. CASE UpWrite
    BY <1>4, Unseen DEF Alive, UpWrite, Failing
  <1>5. CASE UpWriteErr
    BY <1>5, Unseen DEF Alive, UpWriteErr, Failing
  <1>6. CASE UpTest
    <2>1. CASE close
      <3>1. result # None \/ cancelled
        BY <2>1 DEF EngineInv, FailureInv
      <3> QED
        BY <1>6, <2>1, <3>1, EndIsEnd, Unseen DEF Alive, UpTest, Life!Next
    <2>2. CASE ~close
      BY <1>6, <2>2, Unseen DEF Alive, UpTest
    <2> QED
      BY <2>1, <2>2
  <1>7. CASE UpInterrupted
    <2>1. CASE close
      <3>1. result # None \/ cancelled
        BY <2>1 DEF EngineInv, FailureInv
      <3> QED
        BY <1>7, <2>1, <3>1, EndIsEnd, Unseen DEF Alive, UpInterrupted, Life!Next
    <2>2. CASE ~close
      BY <1>7, <2>2, Unseen DEF Alive, UpInterrupted
    <2> QED
      BY <2>1, <2>2
  <1>8. CASE UpFailStep
    <2>1. CASE up = "fail1"
      <3>1. /\ result' = (IF result = None THEN upErr ELSE result) /\ upErr # None
            /\ up' = "fail2" /\ UNCHANGED <<owner, cancelled, workers, joining, stack, dns, down>>
        BY <1>8, <2>1 DEF UpFailStep, FailStep, StepOf, FailOrder, AfterFail, set_result,
            EngineInv, TypeOK, Failing
      <3>2. Running' = Running
        BY <2>1, <3>1 DEF Running, Alive
      <3>3. \/ life' = life
            \/ life = "live" /\ life' = "dead"
            \/ life = "starting" /\ life' = "spoiled"
        BY <3>1 DEF life, Starting
      <3> QED
        BY <3>2, <3>3 DEF Life!Next, Life!Die
    <2>2. CASE up = "fail2"
      BY <1>8, <2>2, Unseen DEF Alive, UpFailStep, FailStep, StepOf, FailOrder, AfterFail, set_result
    <2>3. CASE up = "fail3"
      <3>1. result # None \/ cancelled
        BY <2>3 DEF EngineInv, FailureInv, Published
      <3> QED
        BY <1>8, <2>3, <3>1, EndIsEnd DEF Alive, UpFailStep, FailStep, StepOf, FailOrder,
            AfterFail, set_result, Life!Next
    <2> QED
      BY <1>8, <2>1, <2>2, <2>3 DEF UpFailStep, Failing
  <1> QED
    BY <1>1, <1>2, <1>3, <1>4, <1>5, <1>6, <1>7, <1>8 DEF Up

\* Every step of the downlink worker is a step of EngineLife or a stutter.
LEMMA DownLife == EngineInv /\ Down => [Life!Next]_<<life, Running>>
  <1> SUFFICES ASSUME EngineInv, Down PROVE [Life!Next]_<<life, Running>>
    OBVIOUS
  <1> USE DEF DownGoto, DownFail, DownRest, config, upVars, sideVars, ownerVars
  <1>1. CASE DownPacket
    BY <1>1, Unseen DEF Alive, DownPacket, Failing
  <1>2. CASE DownSend
    BY <1>2, Unseen DEF Alive, DownSend, Failing
  <1>3. CASE DownSendErr
    BY <1>3, Unseen DEF Alive, DownSendErr, Failing
  <1>4. CASE DownTest
    <2>1. CASE close
      <3>1. result # None \/ cancelled
        BY <2>1 DEF EngineInv, FailureInv
      <3> QED
        BY <1>4, <2>1, <3>1, EndIsEnd, Unseen DEF Alive, DownTest, Life!Next
    <2>2. CASE ~close
      BY <1>4, <2>2, Unseen DEF Alive, DownTest
    <2> QED
      BY <2>1, <2>2
  <1>5. CASE DownReadErr
    <2>1. CASE close
      <3>1. result # None \/ cancelled
        BY <2>1 DEF EngineInv, FailureInv
      <3> QED
        BY <1>5, <2>1, <3>1, EndIsEnd, Unseen DEF Alive, DownReadErr, Life!Next
    <2>2. CASE ~close
      BY <1>5, <2>2, Unseen DEF Alive, DownReadErr
    <2> QED
      BY <2>1, <2>2
  <1>6. CASE DownFailStep
    <2>1. CASE down = "fail1"
      <3>1. /\ result' = (IF result = None THEN downErr ELSE result) /\ downErr # None
            /\ down' = "fail2" /\ UNCHANGED <<owner, cancelled, workers, joining, stack, dns, up>>
        BY <1>6, <2>1 DEF DownFailStep, FailStep, StepOf, FailOrder, AfterFail, set_result,
            EngineInv, TypeOK, Failing
      <3>2. Running' = Running
        BY <2>1, <3>1 DEF Running, Alive
      <3>3. \/ life' = life
            \/ life = "live" /\ life' = "dead"
            \/ life = "starting" /\ life' = "spoiled"
        BY <3>1 DEF life, Starting
      <3> QED
        BY <3>2, <3>3 DEF Life!Next, Life!Die
    <2>2. CASE down = "fail2"
      BY <1>6, <2>2, Unseen DEF Alive, DownFailStep, FailStep, StepOf, FailOrder, AfterFail,
          set_result
    <2>3. CASE down = "fail3"
      <3>1. result # None \/ cancelled
        BY <2>3 DEF EngineInv, FailureInv, Published
      <3> QED
        BY <1>6, <2>3, <3>1, EndIsEnd DEF Alive, DownFailStep, FailStep, StepOf, FailOrder,
            AfterFail, set_result, Life!Next
    <2> QED
      BY <1>6, <2>1, <2>2, <2>3 DEF DownFailStep, Failing
  <1> QED
    BY <1>1, <1>2, <1>3, <1>4, <1>5, <1>6 DEF Down

\* So is every step of the other threads and of the owner.
LEMMA OwnerLife ==
  EngineInv /\ (StackExit \/ DnsExit \/ Stop \/ take_result \/ StopAgain \/ Shutdown)
    => [Life!Next]_<<life, Running>>
  <1> SUFFICES ASSUME EngineInv,
                      StackExit \/ DnsExit \/ Stop \/ take_result \/ StopAgain \/ Shutdown
               PROVE  [Life!Next]_<<life, Running>>
    OBVIOUS
  <1> USE DEF OwnerGoto, OwnerRest, config, upVars, downVars, sideVars, ownerVars
  <1>1. CASE StackExit
    <2>1. result # None \/ cancelled
      BY <1>1 DEF StackExit, EngineInv, FailureInv
    <2> QED
      BY <1>1, <2>1, EndIsEnd DEF Alive, StackExit, Life!Next
  <1>2. CASE DnsExit
    <2>1. result # None \/ cancelled
      BY <1>2 DEF DnsExit, EngineInv, OwnerInv
    <2> QED
      BY <1>2, <2>1, EndIsEnd DEF Alive, DnsExit, Life!Next
  <1>3. CASE Stop \/ take_result
    <2>1. Running' = Running
      BY <1>3 DEF Stop, take_result, Running, Alive
    <2>2. life \in {"live", "dead"} /\ life' = "stopping"
      BY <1>3 DEF Stop, take_result, life, Starting, EngineInv, OwnerInv
    <2> QED
      BY <2>1, <2>2 DEF Life!Next, Life!BeginStop
  <1>4. CASE StopAgain
    BY <1>4, UnseenShutdown DEF Started, Starting, StopAgain
  <1>5. CASE CancelClose
    BY <1>5, UnseenShutdown DEF Started, Starting, CancelClose
  <1>6. CASE CancelStack
    BY <1>6, UnseenShutdown DEF Started, Starting, CancelStack
  <1>7. CASE CancelInterrupt
    BY <1>7, UnseenShutdown DEF Started, Starting, CancelInterrupt
  <1>8. CASE CancelTunnel
    BY <1>8, UnseenShutdown DEF Started, Starting, CancelTunnel
  <1>9. CASE JoinTake
    <2>1. Running' = Running
      BY <1>9 DEF JoinTake, Running, Alive
    <2>2. life' = life
      BY <1>9 DEF JoinTake, life, Starting, EngineInv, OwnerInv
    <2> QED
      BY <2>1, <2>2
  <1>10. CASE JoinDone
    <2>1. Running = {} /\ Running' = Running
      BY <1>10 DEF JoinDone, Joined, Running, Ended, Alive, EngineInv, OwnerInv,
             Started, Starting, TypeOK
    <2>2. life' = life \/ (life = "stopping" /\ life' = "stopped")
      BY <1>10 DEF JoinDone, life, Starting, EngineInv, OwnerInv
    <2> QED
      BY <2>1, <2>2 DEF Life!Next, Life!EndStop
  <1> QED
    BY <1>1, <1>2, <1>3, <1>4, <1>5, <1>6, <1>7, <1>8, <1>9, <1>10 DEF Shutdown

\* The engine keeps EngineLife's promise, the one the models of its owners
\* rely on: a failure is visible before any thread ends, and a stopped engine
\* has no thread left.
THEOREM EngineKeepsPromise == Spec => KeepsPromise
  <1>1. EngineInv /\ [Next]_vars => [Life!Next]_<<life, Running>>
    <2> SUFFICES ASSUME EngineInv, [Next]_vars PROVE [Life!Next]_<<life, Running>>
      OBVIOUS
    <2>1. CASE UNCHANGED vars
      BY <2>1, Unseen DEF vars, Alive
    <2> QED
      BY <2>1, StartLife, UpLife, DownLife, OwnerLife DEF Next
  <1> QED
    BY <1>1, InitLife, EngineInvariance, PTL DEF Spec, KeepsPromise, Life!Spec
=============================================================================
