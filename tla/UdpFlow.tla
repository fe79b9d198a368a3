------------------------------ MODULE UdpFlow ------------------------------
(***************************************************************************)
(* One UDP flow of the TUN protocol stack and the loop that serves it: the *)
(* event channel and the StackWaker, the passes of run_transport_stack and *)
(* process_udp, and the flow's connect, reader and writer threads.  The    *)
(* threads of all other flows are one process that wakes the loop now and  *)
(* then.                                                                   *)
(*                                                                         *)
(* A pass has the points start, drain, process and sleep; what the loop    *)
(* does between two of them no thread can see.  Datagrams are numbered in  *)
(* either direction.  The tunnel and the application are external.         *)
(***************************************************************************)
EXTENDS Integers, Sequences

CONSTANTS Pending,      \* UDP_PENDING_DATAGRAMS
          Capacity,     \* FLOW_CHANNEL_CAPACITY
          MaxUp,        \* bound: datagrams the application sends
          MaxDown       \* bound: datagrams the tunnel delivers

ASSUME LimitAssumption == Pending \in Nat \ {0} /\ Capacity \in Nat \ {0}
ASSUME BoundAssumption == MaxUp \in Nat \ {0} /\ MaxDown \in Nat

VARIABLES
    input,      \* the event channel: datagrams of the flow, and Wake
    armed,      \* StackWaker.armed
    close,      \* TunProtocolStack::stop was called
    pc,         \* point of the loop
    other,      \* the other flows' threads: "idle", or about to send a Wake
    sent, read, \* datagrams sent by the application, delivered by the tunnel
    flow,       \* the loop's UdpFlow record
    upload, download,   \* the flow's channels to its writer, from its reader
    tunnel,     \* "none" | "up" | "closed"
    dial, reader, rbuf, writer, wbuf,   \* threads, and what they hold
    wrote, heard    \* history: what last went to the tunnel, to the application

loopVars == <<armed, close, pc>>
countVars == <<sent, read>>
chanVars == <<upload, download>>
writerVars == <<writer, wbuf, wrote>>
readerVars == <<reader, rbuf>>
vars == <<input, loopVars, other, countVars, flow, chanVars, tunnel, dial, readerVars,
          writerVars, heard>>

Wake == 0

\* Of the flow: still in the table, its connect channel, whether it has a
\* tunnel, the pending datagrams, idle for UDP_FLOW_IDLE_TIMEOUT_MS, closed.
\* It is created for the application's first datagram.
Init ==
    /\ input = <<>> /\ armed = FALSE /\ close = FALSE /\ pc = "process" /\ other = "idle"
    /\ sent = 1 /\ read = 0
    /\ flow = [live |-> TRUE, connect_rx |-> "empty", remote |-> FALSE, pending |-> <<1>>,
               stale |-> FALSE, closed |-> FALSE]
    /\ upload = <<>> /\ download = <<>>
    /\ tunnel = "none" /\ dial = "dialing"
    /\ reader = "none" /\ rbuf = <<>> /\ writer = "none" /\ wbuf = <<>>
    /\ wrote = 0 /\ heard = 0

-----------------------------------------------------------------------------
(* The application, the owner, and the wall clock.                         *)

AppSend ==
    /\ sent < MaxUp /\ flow.live
    /\ sent' = sent + 1
    /\ input' = Append(input, sent')
    /\ UNCHANGED <<loopVars, other, read, flow, chanVars, tunnel, dial, readerVars,
                   writerVars, heard>>

\* TunProtocolStack::stop up to its join.
Stop ==
    /\ ~close
    /\ close' = TRUE
    /\ input' = Append(input, Wake)
    /\ UNCHANGED <<armed, pc, other, countVars, flow, chanVars, tunnel, dial, readerVars,
                   writerVars, heard>>

\* The clock has passed UDP_FLOW_IDLE_TIMEOUT_MS since the last activity; it
\* may jump, as on a suspended host.
TimePasses ==
    /\ pc = "sleep" /\ flow.live
    /\ flow' = [flow EXCEPT !.stale = TRUE]
    /\ UNCHANGED <<input, loopVars, other, countVars, chanVars, tunnel, dial, readerVars,
                   writerVars, heard>>

-----------------------------------------------------------------------------
(* The loop.                                                               *)

threadVars == <<other, countVars, dial, rbuf, writerVars>>

\* A pass begins, unless the stack was stopped.
Rearm ==
    /\ pc = "start" /\ ~close
    /\ armed' = FALSE
    /\ pc' = "drain"
    /\ UNCHANGED <<input, close, flow, chanVars, tunnel, reader, heard, threadVars>>

\* What try_send, or the limit of the pending list, lets into a queue.
Fitting(q) == SubSeq(q, 1, IF Len(q) < Pending THEN Len(q) ELSE Pending)

\* The channel is drained.  A datagram counts as traffic; it goes to the
\* writer, or is kept while there is none, or is dropped.
Drain ==
    /\ pc = "drain" /\ input # <<>>
    /\ IF Head(input) = Wake \/ ~flow.live
       THEN UNCHANGED <<flow, upload>>
       ELSE /\ flow' = [flow EXCEPT !.stale = FALSE,
                            !.pending = IF flow.remote THEN @ ELSE Fitting(Append(@, Head(input)))]
            /\ upload' = IF flow.remote THEN Fitting(Append(upload, Head(input))) ELSE upload
    /\ input' = Tail(input)
    /\ UNCHANGED <<loopVars, download, tunnel, reader, heard, threadVars>>

DrainDone ==
    /\ pc = "drain" /\ input = <<>>
    /\ pc' = "process"
    /\ UNCHANGED <<input, armed, close, flow, chanVars, tunnel, reader, heard, threadVars>>

\* Mutant of StillPending: what was handed to the writer stays pending.
StillPendingAll(connected) == flow.pending

\* The pending datagrams, once the flow has a writer.
StillPending(connected) == IF connected THEN <<>> ELSE flow.pending

\* Mutant of Expired: only a closed flow is reaped.
ExpiredClosed(f) == f.closed

\* udp_flow_expired
Expired(f) == f.closed \/ f.stale

\* Mutant of TunnelOfDropped: the tunnel is dropped without being closed.
TunnelOfDroppedOpen(t) == t

\* remote.close()
TunnelOfDropped(t) == IF t = "up" THEN "closed" ELSE t

\* process_udp: take a connect result, hand over what is pending, take the
\* replies, and drop the flow when it is closed or idle.
Process ==
    /\ pc = "process" /\ flow.live
    /\ LET connected == flow.connect_rx = "ok"
           remote == flow.remote \/ connected
           served == [flow EXCEPT
               !.connect_rx = IF @ \in {"ok", "err"} THEN "none" ELSE @,
               !.remote = remote,
               !.pending = StillPending(connected),
               !.stale = @ /\ download = <<>>,
               !.closed = flow.connect_rx = "err" \/ (flow.remote /\ reader = "done")]
           dropped == Expired(served)
       IN /\ flow' = IF dropped
                     THEN [served EXCEPT !.live = FALSE, !.closed = TRUE, !.stale = FALSE,
                                         !.connect_rx = "none", !.pending = <<>>]
                     ELSE served
          /\ upload' = IF remote THEN Fitting(upload \o flow.pending) ELSE upload
          /\ heard' = IF download = <<>> THEN heard ELSE download[Len(download)]
          /\ download' = <<>>
          /\ reader' = IF connected THEN "read" ELSE reader
          /\ writer' = IF connected THEN "recv" ELSE writer
          /\ tunnel' = LET t == IF connected THEN "up" ELSE tunnel
                       IN IF dropped THEN TunnelOfDropped(t) ELSE t
    /\ pc' = "sleep"
    /\ UNCHANGED <<input, armed, close, other, countVars, dial, rbuf, wbuf, wrote>>

\* The flow is no longer in the table.
ProcessOthers ==
    /\ pc = "process" /\ ~flow.live
    /\ pc' = "sleep"
    /\ UNCHANGED <<input, armed, close, flow, chanVars, tunnel, reader, heard, threadVars>>

\* Mutant of WakesUp: the loop waits for an event without a limit.
WakesUpByEvent == input # <<>>

\* recv_timeout returns with an event, which stays at the head of the channel
\* here, or after MAX_IDLE_WAIT at the latest.
WakesUp == TRUE

WakeUp ==
    /\ pc = "sleep" /\ WakesUp
    /\ pc' = "start"
    /\ UNCHANGED <<input, armed, close, flow, chanVars, tunnel, reader, heard, threadVars>>

\* The loop ends and closes its flows.
LoopEnds ==
    /\ pc = "start" /\ close
    /\ pc' = "ended"
    /\ flow' = [flow EXCEPT !.live = FALSE, !.closed = TRUE, !.stale = FALSE,
                            !.connect_rx = "none", !.pending = <<>>]
    /\ tunnel' = TunnelOfDropped(tunnel)
    /\ download' = <<>>
    /\ UNCHANGED <<input, armed, close, upload, reader, heard, threadVars>>

Loop == Rearm \/ Drain \/ DrainDone \/ Process \/ ProcessOthers \/ WakeUp \/ LoopEnds

-----------------------------------------------------------------------------
(* The threads.  A wake takes two steps: swap the flag and, if it was not  *)
(* set, send the event.                                                    *)

AfterSwap(next) == IF armed THEN next ELSE "ring"

\* The connect thread has a tunnel or an error, which nobody takes when the
\* flow is gone.
DialEnds ==
    /\ dial = "dialing"
    /\ \E result \in {"ok", "err"} :
        flow' = [flow EXCEPT !.connect_rx = IF flow.live THEN result ELSE @]
    /\ dial' = "wake"
    /\ UNCHANGED <<input, loopVars, other, countVars, chanVars, tunnel, readerVars, writerVars,
                   heard>>

DialWake ==
    /\ \/ /\ dial = "wake"
          /\ dial' = AfterSwap("done") /\ armed' = TRUE
          /\ UNCHANGED input
       \/ /\ dial = "ring"
          /\ dial' = "done" /\ input' = Append(input, Wake)
          /\ UNCHANGED armed
    /\ UNCHANGED <<close, pc, other, countVars, flow, chanVars, tunnel, readerVars, writerVars,
                   heard>>

\* The reader waits for a reply ...
ReaderRead ==
    /\ reader = "read" /\ tunnel = "up" /\ read < MaxDown
    /\ read' = read + 1
    /\ rbuf' = <<read'>>
    /\ reader' = "send"
    /\ UNCHANGED <<input, loopVars, other, sent, flow, chanVars, tunnel, dial, writerVars,
                   heard>>

\* ... or finds the tunnel ended or closed ...
ReaderEnd ==
    /\ reader = "read"
    /\ reader' = "done"
    /\ UNCHANGED <<input, loopVars, other, countVars, flow, chanVars, tunnel, dial, rbuf,
                   writerVars, heard>>

\* Mutant of ReaderSend: the loop is not told.
ReaderSendSilently ==
    /\ reader = "send" /\ flow.live /\ Len(download) < Capacity
    /\ download' = download \o rbuf
    /\ reader' = "read"
    /\ rbuf' = <<>>
    /\ UNCHANGED <<input, loopVars, other, countVars, flow, upload, tunnel, dial, writerVars,
                   heard>>

\* ... and hands a reply over, waiting for room, unless the flow is gone.
ReaderSend ==
    /\ reader = "send"
    /\ \/ /\ flow.live /\ Len(download) < Capacity
          /\ download' = download \o rbuf
          /\ reader' = "wake"
       \/ /\ ~flow.live
          /\ reader' = "done"
          /\ UNCHANGED download
    /\ rbuf' = <<>>
    /\ UNCHANGED <<input, loopVars, other, countVars, flow, upload, tunnel, dial, writerVars,
                   heard>>

\* The flag `closed` is tested before the next read.
ReaderNext == IF flow.closed THEN "done" ELSE "read"

ReaderWake ==
    /\ \/ /\ reader = "wake"
          /\ reader' = AfterSwap(ReaderNext) /\ armed' = TRUE
          /\ UNCHANGED input
       \/ /\ reader = "ring"
          /\ reader' = ReaderNext /\ input' = Append(input, Wake)
          /\ UNCHANGED armed
    /\ UNCHANGED <<close, pc, other, countVars, flow, chanVars, tunnel, dial, rbuf, writerVars,
                   heard>>

\* The writer waits for a datagram, testing the flag every 250 ms ...
WriterRecv ==
    /\ writer = "recv"
    /\ \/ /\ upload # <<>>
          /\ wbuf' = <<Head(upload)>> /\ upload' = Tail(upload)
          /\ writer' = "write"
       \/ /\ upload = <<>> /\ flow.closed
          /\ writer' = "done"
          /\ UNCHANGED <<wbuf, upload>>
    /\ UNCHANGED <<input, loopVars, other, countVars, flow, download, tunnel, dial, readerVars,
                   wrote, heard>>

\* ... writes it, whatever becomes of it, and tests the flag again.
WriterWrite ==
    /\ writer = "write"
    /\ wrote' = wbuf[1] /\ wbuf' = <<>>
    /\ writer' = IF flow.closed THEN "done" ELSE "recv"
    /\ UNCHANGED <<input, loopVars, other, countVars, flow, chanVars, tunnel, dial, readerVars,
                   heard>>

\* A thread of some other flow has work for the loop.
OtherWake ==
    /\ pc # "ended"
    /\ \/ /\ other = "idle"
          /\ other' = AfterSwap("idle") /\ armed' = TRUE
          /\ UNCHANGED input
       \/ /\ other = "ring"
          /\ other' = "idle" /\ input' = Append(input, Wake)
          /\ UNCHANGED armed
    /\ UNCHANGED <<close, pc, countVars, flow, chanVars, tunnel, dial, readerVars, writerVars,
                   heard>>

Dial == DialEnds \/ DialWake
Writer == WriterRecv \/ WriterWrite

Next ==
    \/ AppSend \/ Stop \/ TimePasses \/ Loop \/ OtherWake
    \/ Dial \/ ReaderRead \/ ReaderEnd \/ ReaderSend \/ ReaderWake \/ Writer

Spec == Init /\ [][Next]_vars

\* The loop sleeps at most MAX_IDLE_WAIT; threads run; a connection attempt
\* ends; a closed tunnel fails its reads.  Nothing makes a tunnel deliver.
Fairness ==
    /\ WF_vars(Loop) /\ WF_vars(Dial) /\ WF_vars(Writer)
    /\ WF_vars(ReaderSend \/ ReaderWake \/ (ReaderEnd /\ tunnel = "closed"))

FairSpec == Spec /\ Fairness

-----------------------------------------------------------------------------
\* The datagrams in s are in order; a wake-up among them is none.
Increasing(s) ==
    \A i, j \in DOMAIN s : i < j /\ s[i] # Wake /\ s[j] # Wake => s[i] < s[j]

\* The values the variables range over, and the channels' limits.
TypeOK ==
    /\ armed \in BOOLEAN /\ close \in BOOLEAN
    /\ pc \in {"start", "drain", "process", "sleep", "ended"}
    /\ other \in {"idle", "ring"}
    /\ sent \in 1 .. MaxUp /\ read \in 0 .. MaxDown
    /\ input \in Seq(0 .. MaxUp)
    /\ flow \in [live : BOOLEAN, connect_rx : {"none", "empty", "ok", "err"}, remote : BOOLEAN,
                 pending : Seq(1 .. MaxUp), stale : BOOLEAN, closed : BOOLEAN]
    /\ upload \in Seq(1 .. MaxUp) /\ Len(upload) <= Pending
    /\ download \in Seq(1 .. MaxDown) /\ Len(download) <= Capacity
    /\ tunnel \in {"none", "up", "closed"}
    /\ dial \in {"dialing", "wake", "ring", "done"}
    /\ reader \in {"none", "read", "send", "wake", "ring", "done"}
    /\ writer \in {"none", "recv", "write", "done"}

\* Datagrams may be lost, but neither direction repeats or reorders them,
\* whether they came before or after the tunnel was connected.
InOrder ==
    /\ Increasing(<<wrote>> \o wbuf \o upload \o flow.pending \o input)
    /\ Increasing(<<heard>> \o download \o rbuf)

\* What the loop has to do for the flow, and a thread on its way to tell it.
Work == flow.live /\ (flow.connect_rx \in {"ok", "err"} \/ download # <<>>)
Waking == dial \in {"wake", "ring"} \/ reader \in {"wake", "ring"} \/ other = "ring"

\* "Sleep until ... a flow thread has work": the loop does not sleep over work
\* that was announced, but for one case: the flag is still set from a wake
\* whose event the same pass has already taken from the channel.
SleepsOverWorkOnlyArmed == pc = "sleep" /\ input = <<>> /\ Work /\ ~Waking => armed

\* MAX_IDLE_WAIT makes up for that case: connect results and replies are
\* handled, unless their flow ends.
WorkHandled == Work ~> ~Work

\* A flow that is idle, or whose tunnel has ended, leaves the table, or has
\* traffic again in time.
Dead == flow.live /\ (flow.stale \/ reader = "done")
DeadReaped == Dead ~> ~Dead

\* stop ends the loop, and no thread outlives its flow.
ThreadsEnd ==
    /\ close ~> pc = "ended"
    /\ ~flow.live ~> dial = "done" /\ reader \in {"none", "done"} /\ writer \in {"none", "done"}
=============================================================================
