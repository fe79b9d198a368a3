------------------------------ MODULE TcpFlow ------------------------------
(***************************************************************************)
(* One TCP flow of the TUN protocol stack, from the moment its listener    *)
(* accepted a SYN to the end of its threads: the passes of the stack loop   *)
(* over it (process_tcp), the connect thread, the reader and writer        *)
(* threads of its tunnel, and close_in_background.                         *)
(*                                                                         *)
(* The smoltcp socket, the application behind it and the tunnel are        *)
(* external.  The socket is modelled by what tun_stack.rs relies on: its   *)
(* states, its two buffers, and that segments (data and FIN) leave only    *)
(* when the interface is polled.  The TUN link is taken to be at its best:  *)
(* what a poll emits reaches the application, unless it is gone, and is     *)
(* acknowledged at once.                                                   *)
(*                                                                         *)
(* Data are numbered units.  An upload unit is what one recv_slice takes;  *)
(* a download chunk is a sequence of units, because a chunk can be written *)
(* into the socket in parts.                                               *)
(***************************************************************************)
EXTENDS Integers, Sequences

CONSTANTS Capacity,   \* FLOW_CHANNEL_CAPACITY
          RxSize,     \* units the socket's receive buffer holds
          TxSize,     \* units the socket's send buffer holds
          Window,     \* units the application's receive window holds
          ChunkSizes, \* units one read from the tunnel may return
          MaxUnits    \* bound: units sent in both directions together

ASSUME SizeAssumption ==
    /\ Capacity \in Nat \ {0} /\ RxSize \in Nat \ {0} /\ TxSize \in Nat \ {0}
    /\ ChunkSizes \subseteq Nat \ {0}
    /\ Window \in Nat \ {0} /\ MaxUnits \in Nat

VARIABLES
    \* the application and the link to it
    sent,          \* units sent so far
    appFin,        \* it has closed its sending side
    appGone,       \* it has reset the connection, or vanished in the handshake
    finFirst,      \* history: it closed before it got the stack's FIN
    got, gotFin, \* what reached it
    room,          \* its receive window
    inbound,       \* segments on their way to the socket
    \* the socket
    sock, rx, tx,
    \* the stack loop and the TcpFlow record
    pc,            \* point of the loop's pass over this flow
    old,           \* HANDSHAKE_TIMEOUT_MS has passed
    connect_rx,    \* "dialing" | "ok" | "err" | "none"
    remote,        \* the flow, or its record when dropped, has a tunnel
    remote_tx,     \* the flow still has its upload sender
    upload,        \* chunks queued for the writer
    upload_pending,
    download,      \* chunks queued by the reader
    download_pending, remote_eof, fin_sent,
    closed,        \* the flag shared with the threads
    aborted,       \* history: the loop gave the connection up
    \* the tunnel and the flow's threads
    tunnel,        \* "up" | "broken" | "closed"
    reader, rchunk, read,   \* reader thread, the chunk it holds, units read
    writer, wchunk, written \* writer thread, the chunk it holds, units written

\* A segment on its way to the socket is the number of a data unit, or one
\* of these.
Ack == -1
Fin == -2
Rst == -3
IsData(seg) == seg > 0

appVars == <<sent, appFin, appGone, finFirst, got, gotFin, room>>
sockVars == <<sock, rx, tx>>
flowVars == <<old, connect_rx, remote, remote_tx, download_pending, remote_eof, fin_sent,
              aborted>>
chanVars == <<upload, upload_pending, download, closed>>
threadVars == <<tunnel, reader, rchunk, read, writer, wchunk, written>>
vars == <<appVars, inbound, sockVars, pc, flowVars, chanVars, threadVars>>

Init ==
    /\ sent = 0 /\ appFin = FALSE /\ finFirst = FALSE
    /\ got = <<>> /\ gotFin = FALSE
    /\ room = Window
    /\ \/ inbound = <<Ack>> /\ appGone = FALSE
       \/ inbound = <<>> /\ appGone = TRUE
    /\ sock = "SynReceived" /\ rx = <<>> /\ tx = <<>>
    /\ pc = "connect"
    /\ old = FALSE
    /\ connect_rx = "dialing"
    /\ remote = FALSE /\ remote_tx = TRUE
    /\ upload = <<>> /\ upload_pending = 0
    /\ download = <<>> /\ download_pending = <<>>
    /\ remote_eof = FALSE /\ fin_sent = FALSE
    /\ closed = FALSE /\ aborted = FALSE
    /\ tunnel = "up"
    /\ reader = "none" /\ rchunk = <<>> /\ read = 0
    /\ writer = "none" /\ wchunk = 0 /\ written = <<>>

Gone == sock = "Removed"

-----------------------------------------------------------------------------
(* The application, as long as the stack serves the flow.                  *)

AppSend ==
    /\ ~Gone /\ sent + read < MaxUnits /\ ~appFin /\ ~appGone
    /\ sent' = sent + 1
    /\ inbound' = Append(inbound, sent + 1)
    /\ UNCHANGED <<appFin, appGone, finFirst, got, gotFin, room, sockVars, pc,
                   flowVars, chanVars, threadVars>>

AppClose ==
    /\ ~Gone /\ ~appFin /\ ~appGone
    /\ appFin' = TRUE
    /\ finFirst' = ~gotFin
    /\ inbound' = Append(inbound, Fin)
    /\ UNCHANGED <<sent, appGone, got, gotFin, room, sockVars, pc, flowVars,
                   chanVars, threadVars>>

AppReset ==
    /\ ~Gone /\ ~appGone
    /\ appGone' = TRUE
    /\ inbound' = Append(inbound, Rst)
    /\ UNCHANGED <<sent, appFin, finFirst, got, gotFin, room, sockVars, pc,
                   flowVars, chanVars, threadVars>>

AppRead ==
    /\ ~Gone /\ room < Window
    /\ room' = Window
    /\ UNCHANGED <<sent, appFin, appGone, finFirst, got, gotFin, inbound, sockVars,
                   pc, flowVars, chanVars, threadVars>>

-----------------------------------------------------------------------------
(* The socket (external: smoltcp).                                         *)

may_send == sock \in {"Established", "CloseWait"}
may_recv == sock \in {"Established", "FinWait1", "FinWait2"} \/ rx # <<>>
can_send == may_send /\ Len(tx) < TxSize

Open == {"Established", "FinWait1", "FinWait2"}
Draining == {"Established", "CloseWait", "FinWait1", "Closing", "LastAck"}

\* What a poll can still do.
CanIngress == /\ inbound # <<>>
              /\ IsData(Head(inbound)) /\ sock \in Open => Len(rx) < RxSize
CanEgressData == ~appGone /\ tx # <<>> /\ room > 0 /\ sock \in Draining
CanEgressFin == ~appGone /\ tx = <<>> /\ sock \in {"FinWait1", "Closing", "LastAck"}

Polling == pc = "poll"

\* The socket takes the next segment; data that does not fit stays with the
\* application, which sends it again.
Ingress ==
    /\ Polling /\ CanIngress
    /\ LET seg == Head(inbound) IN
        /\ sock' = CASE seg = Ack /\ sock = "SynReceived" -> "Established"
                     [] seg = Fin /\ sock = "Established" -> "CloseWait"
                     [] seg = Fin /\ sock = "FinWait1" -> "Closing"
                     [] seg = Fin /\ sock = "FinWait2" -> "TimeWait"
                     [] seg = Rst -> "Closed"
                     [] OTHER -> sock
        /\ rx' = IF IsData(seg) /\ sock \in Open THEN Append(rx, seg) ELSE rx
    /\ inbound' = Tail(inbound)
    /\ UNCHANGED <<appVars, tx, pc, flowVars, chanVars, threadVars>>

\* Data leaves as far as the application's window allows ...
EgressData ==
    /\ Polling /\ CanEgressData
    /\ got' = Append(got, Head(tx))
    /\ tx' = Tail(tx)
    /\ room' = room - 1
    /\ UNCHANGED <<sent, appFin, appGone, finFirst, gotFin, inbound, sock, rx,
                   pc, flowVars, chanVars, threadVars>>

\* ... then the FIN of a closed socket.
EgressFin ==
    /\ Polling /\ CanEgressFin
    /\ gotFin' = TRUE
    /\ sock' = CASE sock = "FinWait1" -> "FinWait2"
                 [] sock = "Closing" -> "TimeWait"
                 [] sock = "LastAck" -> "Closed"
    /\ UNCHANGED <<sent, appFin, appGone, finFirst, got, room, inbound, rx, tx,
                   pc, flowVars, chanVars, threadVars>>

\* tcp::Socket::close and abort.  The RST of an aborted socket would leave at
\* the next poll, but every abort is followed by the removal of the socket in
\* the same pass (FlowEnds), so none is ever sent.
CloseSock == sock' = CASE sock \in {"SynReceived", "Established"} -> "FinWait1"
                       [] sock = "CloseWait" -> "LastAck"
                       [] OTHER -> sock
AbortSock == sock' = "Closed" /\ tx' = <<>> /\ aborted' = TRUE

-----------------------------------------------------------------------------
(* The stack loop.  Between two passes of process_tcp over the flow the    *)
(* interface is polled (twice, around the wait for events; the two polls   *)
(* and the wait are one phase here).                                       *)

\* iface.poll returns when it can do no more.
PollDone ==
    /\ Polling
    /\ ~CanIngress /\ ~CanEgressData /\ ~CanEgressFin
    /\ pc' = "connect"
    /\ UNCHANGED <<appVars, inbound, sockVars, flowVars, chanVars, threadVars>>

\* HANDSHAKE_TIMEOUT_MS after the SYN; the age matters only in the handshake.
Age ==
    /\ ~old /\ sock = "SynReceived"
    /\ old' = TRUE
    /\ UNCHANGED <<appVars, inbound, sockVars, pc, connect_rx, remote, remote_tx,
                   download_pending, remote_eof, fin_sent, aborted, chanVars, threadVars>>

\* The connect result: none yet, a tunnel (start its threads), or an error
\* (abort the application's connection).
ConnectPending ==
    /\ pc = "connect" /\ connect_rx \in {"dialing", "none"}
    /\ pc' = IF remote THEN "upload" ELSE "finish"
    /\ UNCHANGED <<appVars, inbound, sockVars, flowVars, chanVars, threadVars>>

ConnectOk ==
    /\ pc = "connect" /\ connect_rx = "ok"
    /\ connect_rx' = "none"
    /\ remote' = TRUE
    /\ reader' = "test" /\ writer' = "test"
    /\ pc' = "upload"
    /\ UNCHANGED <<appVars, inbound, sockVars, old, remote_tx, download_pending, remote_eof,
                   fin_sent, aborted, chanVars, tunnel, rchunk, read, wchunk, written>>

ConnectErr ==
    /\ pc = "connect" /\ connect_rx = "err"
    /\ connect_rx' = "none"
    /\ AbortSock
    /\ closed' = TRUE
    /\ pc' = "finish"
    /\ UNCHANGED <<appVars, inbound, rx, old, remote, remote_tx, download_pending, remote_eof,
                   fin_sent, upload, upload_pending, download, threadVars>>

MayUpload == upload_pending < Capacity

\* One turn of the upload loop, the writer's channel being open ...
UploadOne ==
    /\ pc = "upload" /\ MayUpload /\ remote_tx /\ rx # <<>>
    /\ writer # "done"
    /\ rx' = Tail(rx)
    /\ upload' = Append(upload, Head(rx))
    /\ upload_pending' = upload_pending + 1
    /\ UNCHANGED <<appVars, inbound, sock, tx, pc, flowVars, download, closed, threadVars>>

\* ... or not: the writer thread is gone.
UploadDead ==
    /\ pc = "upload" /\ MayUpload /\ remote_tx /\ rx # <<>>
    /\ writer = "done"
    /\ rx' = Tail(rx)
    /\ remote_tx' = FALSE
    /\ AbortSock
    /\ closed' = TRUE
    /\ pc' = "download"
    /\ UNCHANGED <<appVars, inbound, old, connect_rx, remote, download_pending, remote_eof,
                   fin_sent, upload, upload_pending, download, threadVars>>

\* Mutant of UploadDone: the limit is tested after the data was taken.
UploadDoneLate ==
    /\ pc = "upload"
    /\ ~MayUpload \/ ~remote_tx \/ rx = <<>>
    /\ rx' = IF ~MayUpload /\ rx # <<>> THEN Tail(rx) ELSE rx
    /\ pc' = "download"
    /\ UNCHANGED <<appVars, inbound, sock, tx, flowVars, chanVars, threadVars>>

UploadDone ==
    /\ pc = "upload"
    /\ ~MayUpload \/ ~remote_tx \/ rx = <<>>
    /\ pc' = "download"
    /\ UNCHANGED <<appVars, inbound, sockVars, flowVars, chanVars, threadVars>>

\* deliver_download: fetch a chunk ...
DownloadTake ==
    /\ pc = "download"
    /\ download_pending = <<>> /\ download # <<>>
    /\ download_pending' = Head(download)
    /\ download' = Tail(download)
    /\ UNCHANGED <<appVars, inbound, sockVars, pc, old, connect_rx, remote, remote_tx,
                   remote_eof, fin_sent, aborted, upload, upload_pending, closed, threadVars>>

\* The part of a chunk that stays pending once n units were written.
Leftover(chunk, n) == SubSeq(chunk, n + 1, Len(chunk))

\* ... write as much of it as fits ...
DownloadPut ==
    /\ pc = "download"
    /\ download_pending # <<>> /\ can_send
    /\ LET free == TxSize - Len(tx)
           n == IF Len(download_pending) < free THEN Len(download_pending) ELSE free
       IN /\ tx' = tx \o SubSeq(download_pending, 1, n)
          /\ download_pending' = Leftover(download_pending, n)
    /\ UNCHANGED <<appVars, inbound, sock, rx, pc, old, connect_rx, remote, remote_tx,
                   remote_eof, fin_sent, aborted, chanVars, threadVars>>

\* The receiver reports that the reader dropped its end, which it does only
\* when no chunk is left.
EndOfStream == reader = "done" /\ download = <<>> /\ download_pending = <<>>

\* Mutant of FinDue: the end of the tunnel closes the socket at once.
FinDueEarly(eof) == reader = "done" /\ ~fin_sent

FinDue(eof) == eof /\ download_pending = <<>> /\ ~fin_sent

\* ... and stop when it does not fit or nothing is there; after the end of
\* the stream, close the socket.
DownloadDone ==
    /\ pc = "download"
    /\ download_pending # <<>> => ~can_send
    /\ download_pending = <<>> => download = <<>>
    /\ remote_eof' = (remote_eof \/ EndOfStream)
    /\ IF FinDue(remote_eof')
       THEN CloseSock /\ fin_sent' = TRUE
       ELSE UNCHANGED <<sock, fin_sent>>
    /\ pc' = "finish"
    /\ UNCHANGED <<appVars, inbound, rx, tx, old, connect_rx, remote, remote_tx,
                   download_pending, aborted, chanVars, threadVars>>

\* Mutant of tcp_flow_finished: a handshake is waited for without limit.
tcp_flow_finished_no_timeout ==
    sock = "Closed" \/ (sock # "SynReceived" /\ ~may_recv /\ ~may_send)

tcp_flow_finished ==
    CASE sock = "Closed" -> TRUE
      [] sock = "SynReceived" -> old
      [] OTHER -> ~may_recv /\ ~may_send

\* The flow is marked closed, and dropped with its socket and its ends of the
\* channels; the writer can still take what was handed to it.
Remove ==
    /\ closed' = TRUE
    /\ sock' = "Removed" /\ rx' = <<>> /\ tx' = <<>> /\ inbound' = <<>>
    /\ pc' = "gone"
    /\ old' = FALSE /\ remote_tx' = FALSE
    /\ download' = <<>> /\ download_pending' = <<>>
    /\ UNCHANGED <<appVars, connect_rx, remote, remote_eof, fin_sent, upload,
                   upload_pending, threadVars>>

\* The end of the pass over the flow: it is marked closed when finished, and
\* a closed flow is dropped with its socket.
FlowEnds ==
    /\ pc = "finish"
    /\ closed \/ tcp_flow_finished
    /\ Remove
    /\ UNCHANGED aborted

FlowStays ==
    /\ pc = "finish"
    /\ ~closed /\ ~tcp_flow_finished
    /\ pc' = "poll"
    /\ UNCHANGED <<appVars, inbound, sockVars, flowVars, chanVars, threadVars>>

\* The loop ends (TunProtocolStack::stop): every flow is closed.
StackStop ==
    /\ pc = "poll"
    /\ aborted' = TRUE
    /\ Remove

StackLoop ==
    \/ Ingress \/ EgressData \/ EgressFin \/ PollDone
    \/ ConnectPending \/ ConnectOk \/ ConnectErr
    \/ UploadOne \/ UploadDead \/ UploadDone
    \/ DownloadTake \/ DownloadPut \/ DownloadDone
    \/ FlowEnds \/ FlowStays

-----------------------------------------------------------------------------
(* The flow's threads.                                                     *)

\* The connect thread: route_tcp and TcpTunnel::connect, or an error.
Dial ==
    /\ connect_rx = "dialing"
    /\ connect_rx' \in {"ok", "err"}
    /\ UNCHANGED <<appVars, inbound, sockVars, pc, old, remote, remote_tx, download_pending,
                   remote_eof, fin_sent, aborted, chanVars, threadVars>>

\* The reader: test the flag, read from the tunnel, hand the chunk over.
ReaderTest ==
    /\ reader = "test"
    /\ reader' = IF closed THEN "done" ELSE "read"
    /\ UNCHANGED <<appVars, inbound, sockVars, pc, flowVars, chanVars, tunnel, rchunk, read,
                   writer, wchunk, written>>

ReaderRead ==
    /\ reader = "read" /\ tunnel = "up"
    /\ \E n \in ChunkSizes :
        /\ sent + read + n <= MaxUnits
        /\ rchunk' = [i \in 1 .. n |-> read + i]
        /\ read' = read + n
    /\ reader' = "send"
    /\ UNCHANGED <<appVars, inbound, sockVars, pc, flowVars, chanVars, tunnel, writer, wchunk,
                   written>>

\* End of stream, or an error.
ReaderEnd ==
    /\ reader = "read"
    /\ reader' = "done"
    /\ UNCHANGED <<appVars, inbound, sockVars, pc, flowVars, chanVars, tunnel, rchunk, read,
                   writer, wchunk, written>>

\* The reader's channel is a sync_channel(FLOW_CHANNEL_CAPACITY).
DownloadRoom == Len(download) < Capacity

\* A send on the bounded channel waits for room, and fails once the flow is
\* gone.
ReaderSend ==
    /\ reader = "send"
    /\ \/ /\ ~Gone /\ DownloadRoom
          /\ download' = Append(download, rchunk)
          /\ reader' = "test"
       \/ /\ Gone
          /\ reader' = "done"
          /\ download' = download
    /\ rchunk' = <<>>
    /\ UNCHANGED <<appVars, inbound, sockVars, pc, flowVars, upload, upload_pending, closed,
                   tunnel, read, writer, wchunk, written>>

\* The writer: test the flag, wait for a chunk, write it.
WriterTest ==
    /\ writer = "test"
    /\ writer' = IF closed THEN "done" ELSE "recv"
    /\ UNCHANGED <<appVars, inbound, sockVars, pc, flowVars, chanVars, tunnel, reader, rchunk,
                   read, wchunk, written>>

WriterRecv ==
    /\ writer = "recv"
    /\ \/ /\ upload # <<>>
          /\ wchunk' = Head(upload) /\ upload' = Tail(upload)
          /\ writer' = "write"
       \/ /\ upload = <<>>                 \* timeout, or no sender left
          /\ writer' = IF Gone \/ ~remote_tx THEN "done" ELSE "test"
          /\ UNCHANGED <<wchunk, upload>>
    /\ UNCHANGED <<appVars, inbound, sockVars, pc, flowVars, upload_pending, download, closed,
                   tunnel, reader, rchunk, read, written>>

\* Mutant of WriterWrite: the capacity is not given back.
WriterWriteNoRelease ==
    /\ writer = "write" /\ tunnel = "up"
    /\ written' = Append(written, wchunk)
    /\ wchunk' = 0
    /\ writer' = "test"
    /\ UNCHANGED <<appVars, inbound, sockVars, pc, flowVars, chanVars, tunnel, reader, rchunk,
                   read>>

WriterWrite ==
    /\ writer = "write" /\ tunnel = "up"
    /\ written' = Append(written, wchunk)
    /\ wchunk' = 0
    /\ upload_pending' = upload_pending - 1
    /\ writer' = "test"
    /\ UNCHANGED <<appVars, inbound, sockVars, pc, flowVars, upload, download, closed, tunnel,
                   reader, rchunk, read>>

WriterFail ==
    /\ writer = "write" /\ tunnel # "up"
    /\ closed' = TRUE
    /\ writer' = "done"
    /\ UNCHANGED <<appVars, inbound, sockVars, pc, flowVars, upload, upload_pending, download,
                   tunnel, reader, rchunk, read, wchunk, written>>

TunnelBreaks ==
    /\ tunnel = "up"
    /\ tunnel' = "broken"
    /\ UNCHANGED <<appVars, inbound, sockVars, pc, flowVars, chanVars, reader, rchunk, read,
                   writer, wchunk, written>>

\* Mutant of CloseTunnel: the flow's handle is dropped, the tunnel not closed.
CloseTunnelForgotten == pc = "gone" /\ remote /\ tunnel = "up" /\ UNCHANGED vars

\* close_in_background: the tunnel of a dropped flow is handed to a thread of
\* its own, which closes it.  When that thread cannot be created, the handle is
\* dropped and nothing closes the tunnel.
CloseTunnel ==
    /\ pc = "gone" /\ remote
    /\ remote' = FALSE
    /\ tunnel' \in {tunnel, IF tunnel = "up" THEN "closed" ELSE tunnel}
    /\ UNCHANGED <<appVars, inbound, sockVars, pc, old, connect_rx, remote_tx,
                   download_pending, remote_eof, fin_sent, aborted, chanVars, reader, rchunk,
                   read, writer, wchunk, written>>

Reader == ReaderTest \/ ReaderRead \/ ReaderEnd \/ ReaderSend
Writer == WriterTest \/ WriterRecv \/ WriterWrite \/ WriterFail

Next ==
    \/ AppSend \/ AppClose \/ AppReset \/ AppRead
    \/ StackLoop \/ Age \/ StackStop
    \/ Dial \/ Reader \/ Writer \/ TunnelBreaks \/ CloseTunnel

Spec == Init /\ [][Next]_vars

\* The loop turns at least every 250 ms, threads run, a connection attempt
\* ends, time passes, a closed or broken tunnel fails its reads, and the application
\* reads what it is sent.  Nothing makes the application or the tunnel send
\* or close.
Fairness ==
    /\ WF_vars(StackLoop)
    /\ WF_vars(Age)
    /\ WF_vars(Dial)
    /\ WF_vars(ReaderTest \/ ReaderSend \/ (ReaderEnd /\ tunnel # "up"))
    /\ WF_vars(Writer)
    /\ WF_vars(CloseTunnel)
    /\ WF_vars(AppRead)

FairSpec == Spec /\ Fairness

-----------------------------------------------------------------------------
\* The units after the first a, up to b; the first n units.
Run(a, b) == [i \in 1 .. b - a |-> a + i]
Units(n) == Run(0, n)

\* The values the variables range over.
TypeOK ==
    /\ sent \in 0 .. MaxUnits /\ read \in 0 .. MaxUnits /\ room \in 0 .. Window
    /\ {appFin, appGone, finFirst, gotFin, old, remote, remote_tx, remote_eof,
        fin_sent, closed, aborted} \subseteq BOOLEAN
    /\ got \in Seq(1 .. MaxUnits) /\ tx \in Seq(1 .. MaxUnits) /\ Len(tx) <= TxSize
    /\ rx \in Seq(1 .. MaxUnits) /\ Len(rx) <= RxSize
    /\ written \in Seq(1 .. MaxUnits) /\ wchunk \in 0 .. MaxUnits /\ upload \in Seq(1 .. MaxUnits)
    /\ Len(download) <= Capacity
    /\ sock \in {"SynReceived", "Established", "CloseWait", "FinWait1", "FinWait2",
                 "Closing", "LastAck", "TimeWait", "Closed", "Removed"}
    /\ pc \in {"poll", "connect", "upload", "download", "finish", "gone"}
    /\ connect_rx \in {"dialing", "ok", "err", "none"}
    /\ tunnel \in {"up", "broken", "closed"}
    /\ reader \in {"none", "test", "read", "send", "done"}
    /\ writer \in {"none", "test", "recv", "write", "done"}

\* "Moves tunnel data into the app-facing socket without losing bytes": what
\* was read from the tunnel is, in order and exactly once, with the
\* application, in the socket, pending, in the channel or with the reader,
\* as long as the flow is served.  A chunk begins where the one before ends.
DownloadIntact ==
    /\ got = Units(Len(got)) /\ Len(got) <= read
    /\ ~Gone /\ ~aborted =>
        LET front == got \o tx \o download_pending
            end(k) == IF k = 0 THEN Len(front) ELSE download[k][Len(download[k])]
        IN /\ front = Units(Len(front))
           /\ \A k \in DOMAIN download :
                 download[k] # <<>> /\ download[k] = Run(end(k - 1), end(k))
           /\ rchunk = Run(end(Len(download)), read)

\* The same for uploads, from the application through the socket, the channel
\* and the writer thread to the tunnel; the rest is on its way, in order.
UploadIntact ==
    /\ written = Units(Len(written)) /\ Len(written) <= sent
    /\ ~Gone /\ ~aborted =>
        LET here == written \o (IF wchunk = 0 THEN <<>> ELSE <<wchunk>>) \o upload \o rx
            data == {i \in DOMAIN inbound : IsData(inbound[i])}
        IN /\ here = Units(Len(here))
           /\ {inbound[i] : i \in data} = Len(here) + 1 .. sent
           /\ \A i, j \in data : i < j => inbound[i] < inbound[j]

\* The FIN the application sees comes after everything the tunnel delivered
\* ("send FIN once everything received before it has been delivered").
FinAfterAll == gotFin => reader = "done" /\ got = Units(read)

\* upload_pending, written by two threads, counts the chunks the writer has
\* not finished, and never exceeds FLOW_CHANNEL_CAPACITY.
PendingExact ==
    /\ upload_pending = Len(upload) + (IF wchunk = 0 THEN 0 ELSE 1)
    /\ upload_pending <= Capacity

\* When the tunnel ends first and in order, the application gets the FIN
\* before the flow and its socket are dropped.
CleanEnd ==
    Gone /\ fin_sent /\ ~aborted /\ ~appGone /\ ~finFirst /\ tunnel # "broken" => gotFin

\* Both directions are intact, and the gate between loop and writer is exact:
\* the two threads share upload_pending without losing a count.
StreamsIntact == DownloadIntact /\ UploadIntact /\ PendingExact

\* The application sees the FIN of the tunnel after all data, and sees it
\* before the flow goes.
FinInOrder == FinAfterAll /\ CleanEnd

\* No stall: what the tunnel delivers reaches the application, unless the
\* flow ends or the application is gone.
DownloadFlows == Len(got) < read ~> Len(got) = read \/ Gone \/ appGone

\* No stall: what the application sends reaches the tunnel, once connected,
\* unless the flow ends.
UploadFlows == remote /\ Len(written) < sent ~> Len(written) = sent \/ Gone

\* Neither direction stalls, whatever buffer, channel or window is full.
StreamsFlow == DownloadFlows /\ UploadFlows

\* The thread that was to close the flow's tunnel could not be created.
CloseLost == Gone /\ ~remote /\ reader # "none" /\ tunnel = "up"

\* No thread outlives its flow: reader, writer and connect thread end, unless
\* the tunnel could not be closed.
ThreadsEnd ==
    Gone ~> \/ /\ reader \in {"none", "done"} /\ writer \in {"none", "done"}
               /\ connect_rx # "dialing"
            \/ CloseLost

\* A flow whose application reset the connection, or never finished the
\* handshake, is dropped, unless the tunnel ended first: then close() has moved
\* the socket out of SynReceived, where HANDSHAKE_TIMEOUT_MS is tested, and
\* nothing gives it up.
AbandonedDropped == appGone ~> Gone \/ fin_sent

-----------------------------------------------------------------------------
\* "Moves tunnel data into the app-facing socket without losing bytes ...
\* After the tunnel ends, the socket is closed with a FIN": once the code has
\* marked its FIN as sent and nobody reset the connection, the application
\* has everything the tunnel delivered when the flow is dropped.
TailDelivered ==
    Gone /\ fin_sent /\ ~aborted /\ ~appGone /\ tunnel # "broken" => got = Units(read)
=============================================================================
