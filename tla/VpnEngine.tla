------------------------------ MODULE VpnEngine ------------------------------
(***************************************************************************)
(* A VpnEngine: the uplink and downlink workers, the threads of the        *)
(* protocol stack and of the fake DNS server as far as creating them and   *)
(* shutting them down goes, and the owner that calls start(), polls        *)
(* status() and calls take_result(), stop() and drop.  Every call that     *)
(* starts or ends an engine is made by the thread that holds the helper's  *)
(* operation lock, so the owner is one process.                            *)
(*                                                                         *)
(* Packets carry no data here.  The L3 tunnel and the TUN device are       *)
(* external: a closed tunnel fails reads and writes, a device read waits   *)
(* until a packet comes, and returns early once interrupted ("interrupt",  *)
(* Unix) or after a while (READ_WAIT_MS, "timeout", Windows).              *)
(***************************************************************************)
EXTENDS Naturals, FiniteSets

VARIABLES
    \* configuration
    exit_on_fatal_error, device, fake_ip,
    \* shared state of VpnEngineImpl
    close, result, interrupted, tunnel, workers, dns_stop,
    \* threads
    up, down,     \* points of the two workers
    upErr, downErr, \* the error a failing worker is about to publish
    stack, dns,   \* "none" | "run" | "done"
    owner,        \* point of the owner
    joining,      \* handles join_workers has taken
    reported,     \* history: what take_result returned
    cancelled     \* history: the owner has begun to cancel, or start has failed

vars == <<exit_on_fatal_error, device, fake_ip, close, result, interrupted, tunnel, workers, dns_stop,
          up, down, upErr, downErr, stack, dns, owner, joining, reported, cancelled>>

config == <<exit_on_fatal_error, device, fake_ip>>
upVars == <<up, upErr>>
downVars == <<down, downErr>>
sideVars == <<stack, dns>>
ownerVars == <<workers, owner, joining, reported, cancelled, interrupted, dns_stop>>

\* A failure of its own ("root"), or one that only says that somebody closed
\* the tunnel ("echo").
Errors == {"root", "echo"}
None == "none"

Init ==
    /\ exit_on_fatal_error \in BOOLEAN /\ fake_ip \in BOOLEAN
    /\ device \in {"interrupt", "timeout"}
    /\ close = FALSE /\ result = None /\ interrupted = FALSE /\ tunnel = "open"
    /\ workers = {} /\ joining = {} /\ dns_stop = FALSE
    /\ up = "none" /\ down = "none" /\ upErr = None /\ downErr = None
    /\ stack = "none" /\ dns = "none"
    /\ owner = "start_dns" /\ reported = None /\ cancelled = FALSE

-----------------------------------------------------------------------------
(* fail_engine, one step per statement: publish the error unless one is    *)
(* there (set_result), set close, close the tunnel.                        *)

\* Mutants of set_result: the last failure wins; nothing is ever stored.
set_result_last(error) == result' = error
set_result_inverted(error) == result' = IF result # None THEN error ELSE result

set_result(error) == result' = IF result = None THEN error ELSE result

\* Mutant of FailOrder: the peer is woken before the failure is published.
FailOrderSwapped == <<"close", "tunnel", "publish">>

FailOrder == <<"publish", "close", "tunnel">>

FailStep(step, error) ==
    \/ step = "publish" /\ set_result(error) /\ UNCHANGED <<close, tunnel>>
    \/ step = "close" /\ close' = TRUE /\ UNCHANGED <<result, tunnel>>
    \/ step = "tunnel" /\ tunnel' = "closed" /\ UNCHANGED <<result, close>>

Failing == {"fail1", "fail2", "fail3"}
StepOf(pc) == CASE pc = "fail1" -> FailOrder[1]
                [] pc = "fail2" -> FailOrder[2]
                [] pc = "fail3" -> FailOrder[3]
AfterFail(pc) == CASE pc = "fail1" -> "fail2" [] pc = "fail2" -> "fail3" [] pc = "fail3" -> "done"

-----------------------------------------------------------------------------
(* spawn_tun_to_l3: the uplink worker.                                     *)

UpGoto(pc) == up' = pc /\ upErr' = upErr
UpFail(error) == up' = "fail1" /\ upErr' = error
UpRest == UNCHANGED <<config, close, result, tunnel, downVars, sideVars, ownerVars>>

\* The head of the loop.  close is never reset, so the "stopped
\* unexpectedly" failure after the loop cannot happen.
UpTest ==
    /\ up = "test"
    /\ UpGoto(IF close THEN "done" ELSE "recv")
    /\ UpRest

\* A packet for the raw tunnel.
UpPacket == up = "recv" /\ UpGoto("write") /\ UpRest

\* Nothing to forward: no packet within the wait, IPv6, a malformed packet,
\* or one the protocol stack accepted.
UpNothing == up = "recv" /\ UpGoto("test") /\ UpRest

UpInterrupted ==
    /\ up = "recv" /\ device = "interrupt" /\ interrupted
    /\ UpGoto(IF close THEN "done" ELSE "test")
    /\ UpRest

\* A device error is fatal whatever exit_on_fatal_error says.
UpDeviceErr == up = "recv" /\ UpFail("root") /\ UpRest

\* Written, or an error about this packet only (is_packet_local_error).
UpWrite == up = "write" /\ tunnel = "open" /\ UpGoto("test") /\ UpRest

UpWriteErr ==
    /\ up = "write"
    /\ IF exit_on_fatal_error
       THEN UpFail(IF tunnel = "open" THEN "root" ELSE "echo")
       ELSE UpGoto("test")
    /\ UpRest

UpFailStep ==
    /\ up \in Failing
    /\ FailStep(StepOf(up), upErr)
    /\ UpGoto(AfterFail(up))
    /\ UNCHANGED <<config, downVars, sideVars, ownerVars>>

Up == \/ UpTest \/ UpPacket \/ UpNothing \/ UpInterrupted \/ UpDeviceErr
      \/ UpWrite \/ UpWriteErr \/ UpFailStep

-----------------------------------------------------------------------------
(* spawn_l3_to_tun: the downlink worker.                                   *)

DownGoto(pc) == down' = pc /\ downErr' = downErr
DownFail(error) == down' = "fail1" /\ downErr' = error
DownRest == UNCHANGED <<config, close, result, tunnel, upVars, sideVars, ownerVars>>

DownTest ==
    /\ down = "test"
    /\ DownGoto(IF close THEN "done" ELSE "read")
    /\ DownRest

DownPacket == down = "read" /\ tunnel = "open" /\ DownGoto("send") /\ DownRest

\* A failed read is no failure of the engine once close is set.
DownReadErr ==
    /\ down = "read"
    /\ \/ close /\ DownGoto("done")
       \/ ~close /\ ~exit_on_fatal_error /\ DownGoto("test")
       \/ ~close /\ exit_on_fatal_error
          /\ DownFail(IF tunnel = "open" THEN "root" ELSE "echo")
    /\ DownRest

\* Sent, or the device had no room.
DownSend == down = "send" /\ DownGoto("test") /\ DownRest

DownSendErr ==
    /\ down = "send"
    /\ IF exit_on_fatal_error THEN DownFail("root") ELSE DownGoto("test")
    /\ DownRest

DownFailStep ==
    /\ down \in Failing
    /\ FailStep(StepOf(down), downErr)
    /\ DownGoto(AfterFail(down))
    /\ UNCHANGED <<config, upVars, sideVars, ownerVars>>

Down == DownTest \/ DownPacket \/ DownReadErr \/ DownSend \/ DownSendErr \/ DownFailStep

-----------------------------------------------------------------------------
(* The protocol stack's loop and the DNS server leave when told to.        *)

StackExit ==
    /\ stack = "run" /\ close
    /\ stack' = "done"
    /\ UNCHANGED <<config, close, result, tunnel, upVars, downVars, dns, ownerVars>>

DnsExit ==
    /\ dns = "run" /\ dns_stop
    /\ dns' = "done"
    /\ UNCHANGED <<config, close, result, tunnel, upVars, downVars, stack, ownerVars>>

-----------------------------------------------------------------------------
(* start_l3_vpn_engine.                                                    *)

OwnerGoto(pc) == owner' = pc
StartRest == UNCHANGED <<config, close, result, interrupted, tunnel, joining, reported,
                         upErr, downErr>>

\* The address, the device and the tunnel are there; the DNS server starts.
StartDns ==
    /\ owner = "start_dns"
    /\ dns' = IF fake_ip THEN "run" ELSE dns
    /\ OwnerGoto("start_stack")
    /\ StartRest /\ UNCHANGED <<up, down, stack, workers, dns_stop, cancelled>>

StartStack ==
    /\ owner = "start_stack"
    /\ stack' = "run"
    /\ OwnerGoto("start_up")
    /\ StartRest /\ UNCHANGED <<up, down, dns, workers, dns_stop, cancelled>>

StartUp ==
    /\ owner = "start_up"
    /\ up' = "test"
    /\ OwnerGoto("start_down")
    /\ StartRest /\ UNCHANGED <<down, stack, dns, workers, dns_stop, cancelled>>

StartDown ==
    /\ owner = "start_down"
    /\ down' = "test"
    /\ OwnerGoto("start_done")
    /\ StartRest /\ UNCHANGED <<up, stack, dns, workers, dns_stop, cancelled>>

StartReturn ==
    /\ owner = "start_done"
    /\ workers' = {"up", "down"}
    /\ OwnerGoto("watch")
    /\ StartRest /\ UNCHANGED <<up, down, stack, dns, dns_stop, cancelled>>

\* What an error drops first.  The stack is stopped when its last reference
\* goes, and the uplink worker, which has one, is never told to end.
UndoFrom(pc) ==
    CASE pc = "start_dns" -> "failed"
      [] pc = "start_stack" \/ (pc = "start_down" /\ up # "done") -> "undo_dns"
      [] pc = "start_up" \/ (pc = "start_down" /\ up = "done") -> "undo_close"

\* A part cannot be made, or its thread cannot be created.
StartErr ==
    /\ owner \in {"start_dns", "start_stack", "start_up", "start_down"}
    /\ OwnerGoto(UndoFrom(owner))
    /\ cancelled' = TRUE
    /\ StartRest /\ UNCHANGED <<up, down, stack, dns, workers, dns_stop>>

\* TunProtocolStack::drop
UndoClose ==
    /\ owner = "undo_close"
    /\ close' = TRUE
    /\ OwnerGoto("undo_stack")
    /\ UNCHANGED <<config, result, interrupted, tunnel, joining, reported, upVars, downVars,
                   sideVars, workers, dns_stop, cancelled>>

UndoStack ==
    /\ owner = "undo_stack" /\ stack = "done"
    /\ OwnerGoto("undo_dns")
    /\ StartRest /\ UNCHANGED <<up, down, stack, dns, workers, dns_stop, cancelled>>

\* FakeDnsServer::drop
UndoDns ==
    /\ owner = "undo_dns"
    /\ dns_stop' = TRUE
    /\ OwnerGoto("undo_join")
    /\ StartRest /\ UNCHANGED <<up, down, stack, dns, workers, cancelled>>

UndoJoin ==
    /\ owner = "undo_join" /\ dns # "run"
    /\ OwnerGoto("failed")
    /\ StartRest /\ UNCHANGED <<up, down, stack, dns, workers, dns_stop, cancelled>>

Start == \/ StartDns \/ StartStack \/ StartUp \/ StartDown \/ StartReturn \/ StartErr
         \/ UndoClose \/ UndoStack \/ UndoDns \/ UndoJoin

-----------------------------------------------------------------------------
(* The owner of a started engine.                                          *)

OwnerRest == UNCHANGED <<config, upVars, downVars, sideVars>>

\* stop(), asked for by a client.
Stop ==
    /\ owner = "watch"
    /\ OwnerGoto("close") /\ cancelled' = TRUE
    /\ OwnerRest
    /\ UNCHANGED <<close, result, interrupted, tunnel, workers, dns_stop, joining, reported>>

\* status() was Stopped: take_result() takes the result, then cancels.
take_result ==
    /\ owner = "watch"
    /\ result # None
    /\ reported' = result
    /\ result' = None
    /\ OwnerGoto("close") /\ cancelled' = TRUE
    /\ OwnerRest
    /\ UNCHANGED <<close, interrupted, tunnel, workers, dns_stop, joining>>

\* The monitor calls stop() after take_result(), and drop calls it again.
StopAgain ==
    /\ owner = "ended"
    /\ OwnerGoto("close")
    /\ OwnerRest
    /\ UNCHANGED <<close, result, interrupted, tunnel, workers, dns_stop, joining, reported,
                   cancelled>>

\* cancel: set close, wake and join the stack's thread ...
CancelClose ==
    /\ owner = "close"
    /\ close' = TRUE
    /\ OwnerGoto("stack")
    /\ OwnerRest
    /\ UNCHANGED <<result, interrupted, tunnel, workers, dns_stop, joining, reported, cancelled>>

CancelStack ==
    /\ owner = "stack" /\ stack = "done"
    /\ OwnerGoto("interrupt")
    /\ OwnerRest
    /\ UNCHANGED <<close, result, interrupted, tunnel, workers, dns_stop, joining, reported,
                   cancelled>>

\* Mutant of CancelInterrupt: the device read is not interrupted.
CancelInterruptMissing ==
    /\ owner = "interrupt"
    /\ dns_stop' = TRUE
    /\ OwnerGoto("dns")
    /\ OwnerRest
    /\ UNCHANGED <<close, result, interrupted, tunnel, workers, joining, reported, cancelled>>

\* ... interrupt the device (Unix), tell the DNS server to stop ...
CancelInterrupt ==
    /\ owner = "interrupt"
    /\ interrupted' = (interrupted \/ device = "interrupt")
    /\ dns_stop' = TRUE
    /\ OwnerGoto("dns")
    /\ OwnerRest
    /\ UNCHANGED <<close, result, tunnel, workers, joining, reported, cancelled>>

\* ... join its thread and close the tunnel.
CancelTunnel ==
    /\ owner = "dns" /\ dns # "run"
    /\ tunnel' = "closed"
    /\ OwnerGoto("take")
    /\ OwnerRest
    /\ UNCHANGED <<close, result, interrupted, workers, dns_stop, joining, reported, cancelled>>

\* join_workers: take the handles ...
JoinTake ==
    /\ owner = "take"
    /\ joining' = workers /\ workers' = {}
    /\ OwnerGoto("join")
    /\ OwnerRest
    /\ UNCHANGED <<close, result, interrupted, tunnel, dns_stop, reported, cancelled>>

Ended(w) == IF w = "up" THEN up = "done" ELSE down = "done"

\* Mutant of Joined: only the first worker is waited for.
JoinedFirst == "up" \in joining => Ended("up")

Joined == \A w \in joining : Ended(w)

\* ... and wait for each.
JoinDone ==
    /\ owner = "join" /\ Joined
    /\ joining' = {}
    /\ OwnerGoto("ended")
    /\ OwnerRest
    /\ UNCHANGED <<close, result, interrupted, tunnel, workers, dns_stop, reported, cancelled>>

Shutdown == \/ CancelClose \/ CancelStack \/ CancelInterrupt \/ CancelTunnel
            \/ JoinTake \/ JoinDone

Next == Start \/ Up \/ Down \/ StackExit \/ DnsExit \/ Stop \/ take_result \/ StopAgain \/ Shutdown

Spec == Init /\ [][Next]_vars

\* Threads run; a read on a closed tunnel fails, an interrupted device read
\* returns, a timed one returns; the owner polls the status every second.
\* Nothing makes packets or failures happen, or a client ask for a stop.
Fairness ==
    /\ WF_vars(UpTest \/ UpInterrupted \/ (UpNothing /\ device = "timeout")
                      \/ UpWrite \/ (UpWriteErr /\ tunnel = "closed") \/ UpFailStep)
    /\ WF_vars(DownTest \/ (DownReadErr /\ tunnel = "closed") \/ DownSend \/ DownFailStep)
    /\ WF_vars(StackExit) /\ WF_vars(DnsExit)
    /\ WF_vars(Start) /\ WF_vars(take_result) /\ WF_vars(Shutdown)

FairSpec == Spec /\ Fairness

-----------------------------------------------------------------------------
Points == {"none", "test", "done"} \cup Failing
Alive(pc) == pc \notin {"none", "done"}
Running == {t \in {"up", "down", "stack", "dns"} :
               \/ t = "up" /\ Alive(up)
               \/ t = "down" /\ Alive(down)
               \/ t = "stack" /\ Alive(stack)
               \/ t = "dns" /\ Alive(dns)}

\* start() has not returned.
Starting == {"start_dns", "start_stack", "start_up", "start_down", "start_done",
             "undo_close", "undo_stack", "undo_dns", "undo_join"}

\* The values the variables range over; a failing worker holds an error.
TypeOK ==
    /\ exit_on_fatal_error \in BOOLEAN /\ fake_ip \in BOOLEAN
    /\ device \in {"interrupt", "timeout"}
    /\ close \in BOOLEAN /\ interrupted \in BOOLEAN /\ dns_stop \in BOOLEAN
    /\ cancelled \in BOOLEAN
    /\ result \in Errors \cup {None} /\ reported \in Errors \cup {None}
    /\ tunnel \in {"open", "closed"}
    /\ workers \subseteq {"up", "down"} /\ joining \subseteq {"up", "down"}
    /\ up \in Points \cup {"recv", "write"} /\ down \in Points \cup {"read", "send"}
    /\ upErr \in Errors \cup {None} /\ downErr \in Errors \cup {None}
    /\ up \in Failing => upErr # None
    /\ down \in Failing => downErr # None
    /\ stack \in {"none", "run", "done"} /\ dns \in {"none", "run", "done"}
    /\ owner \in Starting \cup {"failed", "watch", "close", "stack", "interrupt", "dns",
                               "take", "join", "ended"}

\* "Publish the real failure before waking the peer worker": what take_result
\* hands to the helper is the cause, never the error a worker got because its
\* peer had already closed the tunnel.
RootCauseReported == reported # "echo"

\* When stop() or take_result() has returned, no thread of the engine runs
\* and the tunnel is closed, however the workers' failures raced with it.
\* Nor does a start that fails leave a thread, unless it had created the
\* uplink worker: that one and the stack run on, and nobody can stop them.
StopLeavesNothing ==
    /\ owner = "ended" => Running = {} /\ tunnel = "closed"
    /\ owner = "failed" => Running = {} \/ (up # "none" /\ Running \subseteq {"up", "stack"})

\* stop() returns, and so does a start that fails: none of the joins waits
\* forever, whatever the workers are blocked in.
EngineStops == cancelled ~> owner \in {"ended", "failed"}

\* A failure is noticed: a worker that begins to fail, be it before start()
\* has returned, leads to a report or finds the owner already stopping the
\* engine or giving it up.
FailureNoticed == up \in Failing \/ down \in Failing ~> cancelled

\* The engine as the helper sees it: dead when status() is Stopped.
life ==
    IF owner = "failed" THEN "failed"
    ELSE IF owner \in Starting THEN IF cancelled \/ result # None THEN "spoiled" ELSE "starting"
    ELSE IF cancelled THEN IF workers = {} /\ joining = {} THEN "stopped" ELSE "stopping"
    ELSE IF result # None THEN "dead" ELSE "live"

Life == INSTANCE EngineLife WITH
    Threads <- {"up", "down", "stack", "dns"}, threads <- Running

\* The engine keeps the promise of EngineLife: no thread ends before the
\* failure is visible or a stop has begun, and start() does not hand out as
\* live an engine that has failed meanwhile.
KeepsPromise == Life!Spec
=============================================================================
