--------------------------- MODULE UdpFlowProofs ---------------------------
(***************************************************************************)
(* The safety properties of a UDP flow for any sizes of its queues and any *)
(* number of datagrams.                                                    *)
(*                                                                         *)
(* InOrder speaks of five, and of three, sequences in a row.  It is proved *)
(* in parts: each sequence is in order, and each is below the ones behind  *)
(* it (UpInv, DownInv).  That is inductive together with what the threads  *)
(* hold at each point, and with that a flow that has a tunnel has nothing  *)
(* pending (HandInv).                                                      *)
(***************************************************************************)
EXTENDS UdpFlow, TLAPS

\* Every datagram of s comes before every one of t.
Below(s, t) ==
    \A i \in DOMAIN s, j \in DOMAIN t : s[i] # Wake /\ t[j] # Wake => s[i] < t[j]

\* What the reader and the writer hold, and what is pending, at each point.
\* The two are started once, for the one result of the connect thread.
HandInv ==
    /\ wbuf \in Seq(1 .. MaxUp) /\ rbuf \in Seq(1 .. MaxDown)
    /\ wrote \in 0 .. MaxUp /\ heard \in 0 .. MaxDown
    /\ IF writer = "write" THEN Len(wbuf) = 1 ELSE wbuf = <<>>
    /\ IF reader = "send" THEN Len(rbuf) = 1 ELSE rbuf = <<>>
    /\ flow.remote => flow.pending = <<>>
    /\ dial = "dialing" => flow.connect_rx # "ok"
    /\ dial = "dialing" \/ flow.connect_rx = "ok" => reader = "none" /\ writer = "none"

\* No datagram of s is numbered above n.
UpTo(s, n) == \A i \in DOMAIN s : s[i] <= n

\* The way up in parts: nothing is numbered above what the application sent,
\* each queue is in order, and each is below the ones behind it.
UpInv ==
    /\ UpTo(<<wrote>>, sent) /\ UpTo(wbuf, sent) /\ UpTo(upload, sent)
    /\ UpTo(flow.pending, sent) /\ UpTo(input, sent)
    /\ Increasing(wbuf) /\ Increasing(upload) /\ Increasing(flow.pending) /\ Increasing(input)
    /\ Below(<<wrote>>, wbuf) /\ Below(<<wrote>>, upload) /\ Below(<<wrote>>, flow.pending)
    /\ Below(<<wrote>>, input)
    /\ Below(wbuf, upload) /\ Below(wbuf, flow.pending) /\ Below(wbuf, input)
    /\ Below(upload, flow.pending) /\ Below(upload, input) /\ Below(flow.pending, input)

\* The way down in parts.
DownInv ==
    /\ UpTo(<<heard>>, read) /\ UpTo(download, read) /\ UpTo(rbuf, read)
    /\ Increasing(download) /\ Increasing(rbuf)
    /\ Below(<<heard>>, download) /\ Below(<<heard>>, rbuf) /\ Below(download, rbuf)

UdpInv == TypeOK /\ HandInv /\ UpInv /\ DownInv

-----------------------------------------------------------------------------
(* Sequences in order.                                                     *)

\* An empty sequence is in order and on either side of every other.
LEMMA EmptyOrder ==
    ASSUME NEW s, NEW n
    PROVE  /\ Increasing(<<>>) /\ UpTo(<<>>, n)
           /\ Below(<<>>, s) /\ Below(s, <<>>)
  BY DEF Increasing, Below, UpTo

\* A single datagram is in order.
LEMMA SingleOrder ==
    ASSUME NEW e \in Nat, NEW n \in Nat
    PROVE  Increasing(<<e>>) /\ (UpTo(<<e>>, n) <=> e <= n)
  BY DEF Increasing, UpTo

\* Two sequences in a row.
LEMMA ConcatOrder ==
    ASSUME NEW s \in Seq(Nat), NEW t \in Seq(Nat)
    PROVE  /\ s \o t \in Seq(Nat)
           /\ Increasing(s \o t) <=> Increasing(s) /\ Increasing(t) /\ Below(s, t)
           /\ \A u \in Seq(Nat) : /\ Below(s \o t, u) <=> Below(s, u) /\ Below(t, u)
                                  /\ Below(u, s \o t) <=> Below(u, s) /\ Below(u, t)
           /\ \A n \in Nat : UpTo(s \o t, n) <=> UpTo(s, n) /\ UpTo(t, n)
  <1> DEFINE c == s \o t
  <1>1. c \in Seq(Nat) /\ Len(c) = Len(s) + Len(t)
    OBVIOUS
  <1>2. /\ \A i \in DOMAIN s : i \in DOMAIN c /\ c[i] = s[i]
        /\ \A j \in DOMAIN t : Len(s) + j \in DOMAIN c /\ c[Len(s) + j] = t[j]
    OBVIOUS
  <1>3. \A k \in DOMAIN c : \/ k \in DOMAIN s /\ c[k] = s[k]
                            \/ k - Len(s) \in DOMAIN t /\ c[k] = t[k - Len(s)] /\ k > Len(s)
    OBVIOUS
  <1>4. DOMAIN s = 1 .. Len(s) /\ DOMAIN t = 1 .. Len(t) /\ Len(s) \in Nat /\ Len(t) \in Nat
    OBVIOUS
  <1> HIDE DEF c
  <1>5. Increasing(c) <=> Increasing(s) /\ Increasing(t) /\ Below(s, t)
    <2>1. ASSUME Increasing(c) PROVE Increasing(s) /\ Increasing(t) /\ Below(s, t)
      BY <2>1, <1>2, <1>4 DEF Increasing, Below
    <2>2. ASSUME Increasing(s), Increasing(t), Below(s, t) PROVE Increasing(c)
      <3> SUFFICES ASSUME NEW i \in DOMAIN c, NEW j \in DOMAIN c, i < j, c[i] # Wake, c[j] # Wake
                   PROVE  c[i] < c[j]
        BY DEF Increasing
      <3>1. CASE j \in DOMAIN s
        <4>1. i \in DOMAIN s
          BY <3>1, <1>1, <1>4
        <4>2. c[i] = s[i] /\ c[j] = s[j]
          BY <4>1, <3>1, <1>2
        <4> QED BY <4>1, <4>2, <3>1, <2>2 DEF Increasing
      <3>2. CASE i \notin DOMAIN s
        <4>1. /\ i - Len(s) \in DOMAIN t /\ c[i] = t[i - Len(s)]
              /\ j - Len(s) \in DOMAIN t /\ c[j] = t[j - Len(s)]
          BY SMTT(30), <3>2, <1>1, <1>3, <1>4
        <4> QED BY <4>1, <2>2, <1>1, <1>4 DEF Increasing
      <3>3. CASE i \in DOMAIN s /\ j \notin DOMAIN s
        BY <3>3, <2>2, <1>2, <1>3 DEF Below
      <3> QED BY <3>1, <3>2, <3>3
    <2> QED BY <2>1, <2>2
  <1>6. ASSUME NEW u \in Seq(Nat)
        PROVE  /\ Below(c, u) <=> Below(s, u) /\ Below(t, u)
               /\ Below(u, c) <=> Below(u, s) /\ Below(u, t)
    BY <1>2, <1>3 DEF Below
  <1>7. ASSUME NEW n \in Nat PROVE UpTo(c, n) <=> UpTo(s, n) /\ UpTo(t, n)
    BY <1>2, <1>3 DEF UpTo
  <1> QED BY <1>1, <1>5, <1>6, <1>7 DEF c


\* The length of a row.
LEMMA ConcatType ==
    ASSUME NEW S, NEW s \in Seq(S), NEW t \in Seq(S)
    PROVE  s \o t \in Seq(S) /\ Len(s \o t) = Len(s) + Len(t)
  OBVIOUS

\* A sequence is its head and its tail in a row; Append is a row, too.
LEMMA HeadTail ==
    ASSUME NEW S, NEW s \in Seq(S)
    PROVE  /\ s # <<>> => /\ Head(s) \in S /\ Tail(s) \in Seq(S) /\ Len(Tail(s)) = Len(s) - 1
                          /\ s = <<Head(s)>> \o Tail(s)
           /\ \A e \in S : Append(s, e) = s \o <<e>>
  OBVIOUS

\* A queue that takes what fits is in order if all would be.
LEMMA FittingOrder ==
    ASSUME NEW q \in Seq(Nat)
    PROVE  /\ Increasing(q) => Increasing(Fitting(q))
           /\ \A u \in Seq(Nat) : /\ Below(q, u) => Below(Fitting(q), u)
                                  /\ Below(u, q) => Below(u, Fitting(q))
           /\ \A n \in Nat : UpTo(q, n) => UpTo(Fitting(q), n)
           /\ Len(q) <= Pending => Fitting(q) = q
  <1>1. /\ Fitting(q) \in Seq(Nat) /\ Len(Fitting(q)) <= Len(q)
        /\ \A i \in 1 .. Len(Fitting(q)) : Fitting(q)[i] = q[i]
    BY LimitAssumption DEF Fitting
  <1>2. Len(q) <= Pending => Fitting(q) = q
    BY LimitAssumption DEF Fitting
  <1> HIDE DEF Fitting
  <1>3. DOMAIN Fitting(q) = 1 .. Len(Fitting(q)) /\ DOMAIN q = 1 .. Len(q)
    BY <1>1
  <1>4. \A i \in DOMAIN Fitting(q) : i \in DOMAIN q /\ Fitting(q)[i] = q[i]
    BY <1>1, <1>3
  <1> QED BY <1>2, <1>4 DEF Increasing, Below, UpTo

\* A queue takes no more than Pending datagrams.
LEMMA FittingType ==
    ASSUME NEW S, NEW q \in Seq(S)
    PROVE  Fitting(q) \in Seq(S) /\ Len(Fitting(q)) <= Pending
  BY LimitAssumption DEF Fitting

\* A wake-up changes no order.
LEMMA WakeOrder ==
    ASSUME NEW s \in Seq(Nat)
    PROVE  /\ Append(s, Wake) \in Seq(Nat)
           /\ Increasing(s) => Increasing(Append(s, Wake))
           /\ \A u \in Seq(Nat) : Below(u, s) => Below(u, Append(s, Wake))
           /\ \A n \in Nat : UpTo(s, n) => UpTo(Append(s, Wake), n)
  <1>1. Append(s, Wake) = s \o <<Wake>> /\ <<Wake>> \in Seq(Nat)
    BY HeadTail DEF Wake
  <1>2. /\ Increasing(<<Wake>>) /\ \A n \in Nat : UpTo(<<Wake>>, n)
        /\ \A u \in Seq(Nat) : Below(u, <<Wake>>)
    BY DEF Increasing, Below, UpTo, Wake
  <1>3. /\ Increasing(s \o <<Wake>>) <=> Increasing(s) /\ Increasing(<<Wake>>) /\ Below(s, <<Wake>>)
        /\ \A u \in Seq(Nat) : Below(u, s \o <<Wake>>) <=> Below(u, s) /\ Below(u, <<Wake>>)
        /\ \A n \in Nat : UpTo(s \o <<Wake>>, n) <=> UpTo(s, n) /\ UpTo(<<Wake>>, n)
        /\ s \o <<Wake>> \in Seq(Nat)
    BY <1>1, ConcatOrder
  <1> HIDE DEF Increasing, Below, UpTo, Wake
  <1> QED BY <1>1, <1>2, <1>3

\* The datagram after the last number comes behind all others.
LEMMA NextOrder ==
    ASSUME NEW s \in Seq(Nat), NEW n \in Nat, UpTo(s, n)
    PROVE  Below(s, <<n + 1>>) /\ UpTo(s, n + 1)
  <1>1. \A i \in DOMAIN s : s[i] \in Nat
    OBVIOUS
  <1> QED BY <1>1 DEF Below, UpTo

\* What is taken from the front of a queue stays in order with the rest.
LEMMA FrontOrder ==
    ASSUME NEW s \in Seq(Nat), s # <<>>
    PROVE  /\ <<Head(s)>> \in Seq(Nat) /\ Tail(s) \in Seq(Nat)
           /\ Increasing(s) => /\ Increasing(<<Head(s)>>) /\ Increasing(Tail(s))
                               /\ Below(<<Head(s)>>, Tail(s))
           /\ \A u \in Seq(Nat) : /\ Below(u, s) => Below(u, <<Head(s)>>) /\ Below(u, Tail(s))
                                  /\ Below(s, u) => Below(<<Head(s)>>, u) /\ Below(Tail(s), u)
           /\ \A n \in Nat : UpTo(s, n) => UpTo(<<Head(s)>>, n) /\ UpTo(Tail(s), n)
  <1> DEFINE h == <<Head(s)>>
             t == Tail(s)
             row == h \o t
  <1>1. h \in Seq(Nat) /\ t \in Seq(Nat)
    BY HeadTail
  <1>2. s = row
    BY HeadTail
  <1> HIDE DEF h, t
  <1>3. Increasing(row) <=> Increasing(h) /\ Increasing(t) /\ Below(h, t)
    BY <1>1, ConcatOrder
  <1>4. ASSUME NEW u \in Seq(Nat) PROVE Below(row, u) <=> Below(h, u) /\ Below(t, u)
    BY <1>1, ConcatOrder
  <1>6. ASSUME NEW u \in Seq(Nat) PROVE Below(u, row) <=> Below(u, h) /\ Below(u, t)
    BY <1>1, ConcatOrder
  <1>5. \A n \in Nat : UpTo(row, n) <=> UpTo(h, n) /\ UpTo(t, n)
    BY <1>1, ConcatOrder
  <1> HIDE DEF row
  <1>7. /\ Increasing(s) => Increasing(h) /\ Increasing(t) /\ Below(h, t)
        /\ \A n \in Nat : UpTo(s, n) => UpTo(h, n) /\ UpTo(t, n)
    BY <1>2, <1>3, <1>5
  <1>8. ASSUME NEW u \in Seq(Nat)
        PROVE  /\ Below(u, s) => Below(u, h) /\ Below(u, t)
               /\ Below(s, u) => Below(h, u) /\ Below(t, u)
    BY <1>2, <1>4, <1>6
  <1> QED BY <1>1, <1>7, <1>8 DEF h, t

-----------------------------------------------------------------------------
(* Types.                                                                  *)

\* All queues hold numbers.
LEMMA QueueTypes ==
    ASSUME TypeOK, HandInv
    PROVE  /\ <<wrote>> \in Seq(Nat) /\ wbuf \in Seq(Nat) /\ upload \in Seq(Nat)
           /\ flow.pending \in Seq(Nat) /\ input \in Seq(Nat) /\ sent \in Nat
           /\ <<heard>> \in Seq(Nat) /\ download \in Seq(Nat) /\ rbuf \in Seq(Nat)
           /\ read \in Nat /\ wrote \in Nat /\ heard \in Nat
  <1>1. \A s : s \in Seq(0 .. MaxUp) \/ s \in Seq(1 .. MaxUp) \/ s \in Seq(1 .. MaxDown)
               => s \in Seq(Nat)
    BY BoundAssumption
  <1>2. flow.pending \in Seq(1 .. MaxUp)
    BY DEF TypeOK
  <1> QED BY <1>1, <1>2, BoundAssumption DEF TypeOK, HandInv

\* The fields of a flow that a step may assign.
LEMMA FlowTypes ==
    ASSUME TypeOK, [Next]_vars
    PROVE  flow' \in [live : BOOLEAN, connect_rx : {"none", "empty", "ok", "err"},
                           remote : BOOLEAN, pending : Seq(1 .. MaxUp), stale : BOOLEAN,
                           closed : BOOLEAN]
  <1> DEFINE F == [live : BOOLEAN, connect_rx : {"none", "empty", "ok", "err"},
                           remote : BOOLEAN, pending : Seq(1 .. MaxUp), stale : BOOLEAN,
                           closed : BOOLEAN]
  <1>0. /\ flow \in F /\ flow.pending \in Seq(1 .. MaxUp)
        /\ flow.connect_rx \in {"none", "empty", "ok", "err"}
    BY DEF TypeOK
  <1>e. <<>> \in Seq(1 .. MaxUp)
    OBVIOUS
  <1>1. CASE UNCHANGED flow
    BY <1>0, <1>1
  <1>2. CASE TimePasses
    BY <1>0, <1>2 DEF TimePasses
  <1>3. CASE Drain
    <2>1. Head(input) \in 0 .. MaxUp
      BY <1>3, HeadTail DEF Drain, TypeOK
    <2>2. CASE Head(input) = Wake \/ ~flow.live
      BY <1>0, <1>3, <2>2 DEF Drain
    <2>3. CASE ~(Head(input) = Wake \/ ~flow.live)
      <3>1. Append(flow.pending, Head(input)) \in Seq(1 .. MaxUp)
        BY <1>0, <2>1, <2>3, BoundAssumption DEF Wake
      <3>2. Fitting(Append(flow.pending, Head(input))) \in Seq(1 .. MaxUp)
        BY <3>1, FittingType
      <3> QED BY <1>0, <1>3, <2>3, <3>2 DEF Drain
    <2> QED BY <2>2, <2>3
  <1>4. CASE Process
    <2> DEFINE connected == flow.connect_rx = "ok"
               served == [flow EXCEPT
                   !.connect_rx = IF @ \in {"ok", "err"} THEN "none" ELSE @,
                   !.remote = flow.remote \/ connected,
                   !.pending = StillPending(connected),
                   !.stale = @ /\ download = <<>>,
                   !.closed = flow.connect_rx = "err" \/ (flow.remote /\ reader = "done")]
    <2>1. StillPending(connected) \in Seq(1 .. MaxUp)
      BY <1>0, <1>e DEF StillPending
    <2> HIDE DEF connected
    <2>2. served \in F
      BY ZenonT(60), <1>0, <2>1
    <2> HIDE DEF served
    <2>3. [served EXCEPT !.live = FALSE, !.closed = TRUE, !.stale = FALSE,
                         !.connect_rx = "none", !.pending = <<>>] \in F
      BY <1>e, <2>2
    <2> HIDE DEF F
    <2>4. \/ flow' = served
          \/ flow' = [served EXCEPT !.live = FALSE, !.closed = TRUE, !.stale = FALSE,
                                    !.connect_rx = "none", !.pending = <<>>]
      BY <1>4 DEF Process, connected, served
    <2> QED BY <2>2, <2>3, <2>4 DEF F
  <1>5. CASE LoopEnds
    BY <1>0, <1>e, <1>5 DEF LoopEnds
  <1>6. CASE DialEnds
    BY <1>0, <1>6 DEF DialEnds
  <1>7. ASSUME Next, ~UNCHANGED flow
        PROVE  TimePasses \/ Drain \/ Process \/ LoopEnds \/ DialEnds
    BY <1>7 DEF Next, Loop, Dial, Writer, AppSend, Stop, Rearm, DrainDone, ProcessOthers, WakeUp,
                OtherWake, DialWake, ReaderRead, ReaderEnd, ReaderSend, ReaderWake, WriterRecv,
                WriterWrite
  <1> QED BY <1>1, <1>2, <1>3, <1>4, <1>5, <1>6, <1>7 DEF vars

\* Every step keeps the types.
LEMMA TypeStep ==
    ASSUME TypeOK, HandInv, [Next]_vars
    PROVE  TypeOK'
  <1> USE LimitAssumption, BoundAssumption
  <1>w. ASSUME input' = Append(input, Wake) PROVE input' \in Seq(0 .. MaxUp)
    BY <1>w DEF TypeOK, Wake
  <1>f. flow' \in [live : BOOLEAN, connect_rx : {"none", "empty", "ok", "err"},
                           remote : BOOLEAN, pending : Seq(1 .. MaxUp), stale : BOOLEAN,
                           closed : BOOLEAN]
    BY FlowTypes
  <1>1. CASE AppSend
    BY <1>1, <1>w, <1>f
    DEF AppSend, TypeOK, loopVars, threadVars, countVars, chanVars, readerVars, writerVars
  <1>2. CASE Stop
    BY <1>2, <1>w, <1>f
    DEF Stop, TypeOK, loopVars, threadVars, countVars, chanVars, readerVars, writerVars
  <1>3. CASE TimePasses
    BY <1>3, <1>w, <1>f
    DEF TimePasses, TypeOK, loopVars, threadVars, countVars, chanVars, readerVars, writerVars
  <1>4. CASE Rearm
    BY ZenonT(60), <1>4, <1>w, <1>f
    DEF Rearm, TypeOK, loopVars, threadVars, countVars, chanVars, readerVars, writerVars
  <1>5. CASE Drain
    <2>1. input' \in Seq(0 .. MaxUp) /\ Head(input) \in 0 .. MaxUp
      BY <1>5 DEF Drain, TypeOK
    <2>2. upload' \in Seq(1 .. MaxUp) /\ Len(upload') <= Pending
      <3>1. Head(input) # Wake => Append(upload, Head(input)) \in Seq(1 .. MaxUp)
        BY SMTT(30), <2>1 DEF TypeOK, Wake
      <3>2. Head(input) # Wake => /\ Fitting(Append(upload, Head(input))) \in Seq(1 .. MaxUp)
                                  /\ Len(Fitting(Append(upload, Head(input)))) <= Pending
        BY <3>1, FittingType
      <3> QED BY <1>5, <3>2 DEF Drain, TypeOK
    <2> QED BY <1>5, <1>f, <2>1, <2>2
            DEF Drain, TypeOK, loopVars, threadVars, countVars, writerVars
  <1>6. CASE DrainDone
    BY <1>6, <1>w, <1>f
    DEF DrainDone, TypeOK, loopVars, threadVars, countVars, chanVars, readerVars, writerVars
  <1>7. CASE Process
    <2>1. upload \o flow.pending \in Seq(1 .. MaxUp)
      BY DEF TypeOK
    <2>2. upload' \in Seq(1 .. MaxUp) /\ Len(upload') <= Pending
      BY <1>7, <2>1, FittingType DEF Process, TypeOK
    <2>3. download' \in Seq(1 .. MaxDown) /\ Len(download') <= Capacity
      BY <1>7 DEF Process
    <2>4. tunnel' \in {"none", "up", "closed"}
      BY <1>7 DEF Process, TypeOK, TunnelOfDropped
    <2>5. /\ reader' \in {"none", "read", "send", "wake", "ring", "done"}
          /\ writer' \in {"none", "recv", "write", "done"} /\ pc' = "sleep"
          /\ UNCHANGED <<input, armed, close, other, countVars, dial>>
      BY <1>7 DEF Process, TypeOK
    <2> QED BY <1>f, <2>2, <2>3, <2>4, <2>5 DEF TypeOK, countVars
  <1>8. CASE ProcessOthers
    BY <1>8, <1>w, <1>f
    DEF ProcessOthers, TypeOK, loopVars, threadVars, countVars, chanVars, readerVars, writerVars
  <1>9. CASE WakeUp
    BY <1>9, <1>w, <1>f
    DEF WakeUp, TypeOK, loopVars, threadVars, countVars, chanVars, readerVars, writerVars
  <1>10. CASE LoopEnds
    BY <1>10, <1>w, <1>f
    DEF LoopEnds, TunnelOfDropped, TypeOK, loopVars, threadVars, countVars, chanVars, readerVars,
        writerVars
  <1>11. CASE OtherWake
    <2>1. input' \in Seq(0 .. MaxUp) /\ armed' \in BOOLEAN
      BY <1>11, <1>w DEF OtherWake, TypeOK
    <2>2. other' \in {"idle", "ring"}
      BY <1>11 DEF OtherWake, AfterSwap, TypeOK
    <2>3. UNCHANGED <<close, pc, dial, reader, sent, read, upload, download, tunnel, writer>>
      BY <1>11 DEF OtherWake, countVars, chanVars, readerVars, writerVars
    <2> QED BY <1>f, <2>1, <2>2, <2>3 DEF TypeOK
  <1>12. CASE DialEnds
    BY <1>12, <1>w, <1>f
    DEF DialEnds, TypeOK, loopVars, threadVars, countVars, chanVars, readerVars, writerVars
  <1>13. CASE DialWake
    <2>1. input' \in Seq(0 .. MaxUp) /\ armed' \in BOOLEAN
      BY <1>13, <1>w DEF DialWake, TypeOK
    <2>2. dial' \in {"dialing", "wake", "ring", "done"}
      BY <1>13 DEF DialWake, AfterSwap, TypeOK
    <2>3. UNCHANGED <<close, other, pc, reader, sent, read, upload, download, tunnel, writer>>
      BY <1>13 DEF DialWake, countVars, chanVars, readerVars, writerVars
    <2> QED BY <1>f, <2>1, <2>2, <2>3 DEF TypeOK
  <1>14. CASE ReaderRead
    BY <1>14, <1>w, <1>f
    DEF ReaderRead, TypeOK, loopVars, threadVars, countVars, chanVars, readerVars, writerVars
  <1>15. CASE ReaderEnd
    BY <1>15, <1>w, <1>f
    DEF ReaderEnd, TypeOK, loopVars, threadVars, countVars, chanVars, readerVars, writerVars
  <1>16. CASE ReaderSend
    <2>1. download' \in Seq(1 .. MaxDown) /\ Len(download') <= Capacity
      <3>1. rbuf \in Seq(1 .. MaxDown) /\ Len(rbuf) = 1
        BY <1>16 DEF ReaderSend, HandInv
      <3>2. download \in Seq(1 .. MaxDown) /\ Len(download) <= Capacity /\ Len(download) \in Nat
        BY DEF TypeOK
      <3>3. /\ download \o rbuf \in Seq(1 .. MaxDown)
            /\ Len(download \o rbuf) = Len(download) + Len(rbuf)
        BY <3>1, <3>2, ConcatType
      <3>4. Len(download \o rbuf) = Len(download) + 1
        BY <3>1, <3>3
      <3>5. (download' = download \o rbuf /\ Len(download) < Capacity) \/ download' = download
        BY <1>16 DEF ReaderSend
      <3>6. CASE download' = download \o rbuf /\ Len(download) < Capacity
        <4>1. Len(download') = Len(download) + 1
          BY <3>4, <3>6
        <4> QED BY <3>2, <3>3, <3>6, <4>1
      <3> QED BY <3>2, <3>5, <3>6
    <2>2. reader' \in {"wake", "done"}
      BY <1>16 DEF ReaderSend
    <2> QED BY <1>16, <1>f, <2>1, <2>2
            DEF ReaderSend, TypeOK, loopVars, countVars, writerVars
  <1>17. CASE ReaderWake
    <2>1. input' \in Seq(0 .. MaxUp) /\ armed' \in BOOLEAN
      BY <1>17, <1>w DEF ReaderWake, TypeOK
    <2>2. reader' \in {"none", "read", "send", "wake", "ring", "done"}
      BY <1>17 DEF ReaderWake, AfterSwap, ReaderNext, TypeOK
    <2>3. UNCHANGED <<close, other, pc, dial, sent, read, upload, download, tunnel, writer>>
      BY <1>17 DEF ReaderWake, countVars, chanVars, readerVars, writerVars
    <2> QED BY <1>f, <2>1, <2>2, <2>3 DEF TypeOK
  <1>18. CASE WriterRecv
    <2>1. upload' \in Seq(1 .. MaxUp) /\ Len(upload') <= Pending
      <3>1. /\ upload \in Seq(1 .. MaxUp) /\ Len(upload) <= Pending /\ Len(upload) \in Nat
            /\ upload # <<>> => /\ Tail(upload) \in Seq(1 .. MaxUp)
                               /\ Len(Tail(upload)) = Len(upload) - 1
        BY HeadTail DEF TypeOK
      <3>2. upload' = upload \/ (upload # <<>> /\ upload' = Tail(upload))
        BY <1>18 DEF WriterRecv
      <3> QED BY SMTT(30), <3>1, <3>2
    <2> QED BY <1>18, <1>f, <2>1
            DEF WriterRecv, TypeOK, loopVars, countVars, readerVars
  <1>19. CASE WriterWrite
    BY <1>19, <1>w, <1>f
    DEF WriterWrite, TypeOK, loopVars, threadVars, countVars, chanVars, readerVars, writerVars
  <1>20. CASE UNCHANGED vars
    BY <1>20 DEF vars, TypeOK, loopVars, threadVars, countVars, chanVars, readerVars, writerVars
  <1> QED BY <1>1, <1>2, <1>3, <1>4, <1>5, <1>6, <1>7, <1>8, <1>9, <1>10, <1>11, <1>12, <1>13,
      <1>14, <1>15, <1>16, <1>17, <1>18, <1>19, <1>20
          DEF Next, Loop, Dial, Writer

\* Every step keeps what the threads hold.
LEMMA HandStep ==
    ASSUME TypeOK, HandInv, [Next]_vars
    PROVE  HandInv'
  <1> USE LimitAssumption, BoundAssumption
  <1>1. CASE AppSend
    BY <1>1
    DEF AppSend, TypeOK, HandInv, loopVars, threadVars, countVars, chanVars, readerVars, writerVars
  <1>2. CASE Stop
    BY <1>2
    DEF Stop, TypeOK, HandInv, loopVars, threadVars, countVars, chanVars, readerVars, writerVars
  <1>3. CASE TimePasses
    BY <1>3
    DEF TimePasses, TypeOK, HandInv, loopVars, threadVars, countVars, chanVars, readerVars,
        writerVars
  <1>4. CASE Rearm
    BY <1>4
    DEF Rearm, TypeOK, HandInv, loopVars, threadVars, countVars, chanVars, readerVars, writerVars
  <1>5. CASE Drain
    BY <1>5
    DEF Drain, TypeOK, HandInv, loopVars, threadVars, countVars, chanVars, readerVars, writerVars
  <1>6. CASE DrainDone
    BY <1>6
    DEF DrainDone, TypeOK, HandInv, loopVars, threadVars, countVars, chanVars, readerVars, writerVars
  <1>7. CASE Process
    <2>1. heard' \in 0 .. MaxDown
      <3>1. download # <<>> => download[Len(download)] \in 1 .. MaxDown
        BY DEF TypeOK
      <3> QED BY <1>7, <3>1 DEF Process, HandInv
    <2>2. flow'.remote => flow'.pending = <<>>
      BY <1>7 DEF Process, TypeOK, HandInv, StillPending, Expired
    <2>3. flow'.connect_rx # "ok" /\ (dial = "dialing" => flow.connect_rx # "ok")
      BY <1>7 DEF Process, TypeOK, HandInv, Expired
    <2>4. CASE flow.connect_rx = "ok"
      BY <1>7, <2>1, <2>2, <2>3, <2>4 DEF Process, TypeOK, HandInv
    <2>5. CASE flow.connect_rx # "ok"
      <3>1. UNCHANGED <<reader, writer, rbuf, wbuf, wrote, dial>>
        BY <1>7, <2>5 DEF Process
      <3> QED BY <2>1, <2>2, <2>3, <3>1 DEF HandInv
    <2> QED BY <2>4, <2>5
  <1>8. CASE ProcessOthers
    BY <1>8
    DEF ProcessOthers, TypeOK, HandInv, loopVars, threadVars, countVars, chanVars, readerVars,
        writerVars
  <1>9. CASE WakeUp
    BY <1>9
    DEF WakeUp, TypeOK, HandInv, loopVars, threadVars, countVars, chanVars, readerVars, writerVars
  <1>10. CASE LoopEnds
    BY <1>10
    DEF LoopEnds, TunnelOfDropped, TypeOK, HandInv, loopVars, threadVars, countVars, chanVars,
        readerVars, writerVars
  <1>11. CASE OtherWake
    BY <1>11
    DEF OtherWake, AfterSwap, TypeOK, HandInv, loopVars, threadVars, countVars, chanVars,
        readerVars, writerVars
  <1>12. CASE DialEnds
    BY <1>12
    DEF DialEnds, TypeOK, HandInv, loopVars, threadVars, countVars, chanVars, readerVars, writerVars
  <1>13. CASE DialWake
    BY <1>13
    DEF DialWake, AfterSwap, TypeOK, HandInv, loopVars, threadVars, countVars, chanVars,
        readerVars, writerVars
  <1>14. CASE ReaderRead
    BY <1>14
    DEF ReaderRead, TypeOK, HandInv, loopVars, threadVars, countVars, chanVars, readerVars,
        writerVars
  <1>15. CASE ReaderEnd
    BY <1>15
    DEF ReaderEnd, TypeOK, HandInv, loopVars, threadVars, countVars, chanVars, readerVars, writerVars
  <1>16. CASE ReaderSend
    BY <1>16
    DEF ReaderSend, TypeOK, HandInv, loopVars, threadVars, countVars, chanVars, readerVars,
        writerVars
  <1>17. CASE ReaderWake
    BY <1>17
    DEF ReaderWake, AfterSwap, ReaderNext, TypeOK, HandInv, loopVars, threadVars, countVars,
        chanVars, readerVars, writerVars
  <1>18. CASE WriterRecv
    <2>1. /\ wbuf' \in Seq(1 .. MaxUp)
          /\ IF writer' = "write" THEN Len(wbuf') = 1 ELSE wbuf' = <<>>
      <3>1. upload # <<>> => Head(upload) \in 1 .. MaxUp
        BY HeadTail DEF TypeOK
      <3>2. upload # <<>> => <<Head(upload)>> \in Seq(1 .. MaxUp) /\ Len(<<Head(upload)>>) = 1
        BY <3>1
      <3> QED BY <1>18, <3>2 DEF WriterRecv, HandInv
    <2>2. UNCHANGED <<flow, dial, reader, rbuf, wrote, heard>> /\ writer = "recv"
      BY <1>18 DEF WriterRecv, readerVars
    <2> QED BY <2>1, <2>2 DEF HandInv
  <1>19. CASE WriterWrite
    <2>1. wbuf[1] \in 1 .. MaxUp
      BY SMTT(30), <1>19 DEF WriterWrite, HandInv
    <2>2. <<>> \in Seq(1 .. MaxUp)
      OBVIOUS
    <2> QED BY <1>19, <2>1, <2>2 DEF WriterWrite, HandInv, readerVars
  <1>20. CASE UNCHANGED vars
    BY <1>20 DEF vars, HandInv, loopVars, threadVars, countVars, chanVars, readerVars, writerVars
  <1> QED BY <1>1, <1>2, <1>3, <1>4, <1>5, <1>6, <1>7, <1>8, <1>9, <1>10, <1>11, <1>12, <1>13,
      <1>14, <1>15, <1>16, <1>17, <1>18, <1>19, <1>20
          DEF Next, Loop, Dial, Writer


-----------------------------------------------------------------------------
(* Order.                                                                  *)

\* Every step keeps the order of the way up.
LEMMA UpStep ==
    ASSUME TypeOK, HandInv, UpInv, [Next]_vars
    PROVE  UpInv'
  <1>t. /\ <<wrote>> \in Seq(Nat) /\ wbuf \in Seq(Nat) /\ upload \in Seq(Nat)
        /\ flow.pending \in Seq(Nat) /\ input \in Seq(Nat) /\ sent \in Nat
    BY QueueTypes
  <1>f. flow \in [live : BOOLEAN, connect_rx : {"none", "empty", "ok", "err"}, remote : BOOLEAN,
                  pending : Seq(1 .. MaxUp), stale : BOOLEAN, closed : BOOLEAN]
    BY DEF TypeOK
  <1>q. ASSUME UNCHANGED <<wrote, wbuf, upload, flow.pending, sent>>,
               input' = input \/ input' = Append(input, Wake)
        PROVE  UpInv'
    <2>1. CASE UNCHANGED input
      BY <1>q, <2>1 DEF UpInv
    <2>2. CASE input' = Append(input, Wake)
      <3>1. /\ Increasing(input') /\ UpTo(input', sent) /\ Below(<<wrote>>, input')
            /\ Below(wbuf, input') /\ Below(upload, input') /\ Below(flow.pending, input')
        BY <2>2, <1>t, WakeOrder DEF UpInv
      <3> QED BY <1>q, <3>1 DEF UpInv
    <2> QED BY <1>q, <2>1, <2>2
  <1>1. CASE AppSend
    <2>1. input' = input \o <<sent + 1>> /\ sent' = sent + 1 /\ sent' \in Nat
          /\ UNCHANGED <<wrote, wbuf, upload, flow>>
      BY SMTT(30), <1>1, <1>t, HeadTail DEF AppSend, chanVars, writerVars
    <2>2. /\ Below(<<wrote>>, <<sent + 1>>) /\ UpTo(<<wrote>>, sent + 1)
          /\ Below(wbuf, <<sent + 1>>) /\ UpTo(wbuf, sent + 1)
          /\ Below(upload, <<sent + 1>>) /\ UpTo(upload, sent + 1)
          /\ Below(flow.pending, <<sent + 1>>) /\ UpTo(flow.pending, sent + 1)
          /\ Below(input, <<sent + 1>>) /\ UpTo(input, sent + 1)
      BY <1>t, NextOrder DEF UpInv
    <2>3. Increasing(<<sent + 1>>) /\ UpTo(<<sent + 1>>, sent + 1) /\ <<sent + 1>> \in Seq(Nat)
      BY <1>t, SingleOrder
    <2>4. /\ Increasing(input') /\ UpTo(input', sent') /\ Below(<<wrote>>, input')
          /\ Below(wbuf, input') /\ Below(upload, input') /\ Below(flow.pending, input')
      <3> DEFINE new == <<sent + 1>>
      <3>0. new \in Seq(Nat) /\ Increasing(new) /\ UpTo(new, sent') /\ input' = input \o new
        BY <2>1, <2>3
      <3>b. Below(input, new) /\ UpTo(input, sent')
        BY <2>1, <2>2
      <3> HIDE DEF new
      <3>1. Increasing(input \o new) /\ UpTo(input \o new, sent')
        BY <1>t, <2>1, <3>0, <3>b, ConcatOrder DEF UpInv
      <3>c. \A u \in Seq(Nat) : Below(u, input \o new) <=> Below(u, input) /\ Below(u, new)
        BY <1>t, <3>0, ConcatOrder
      <3>2. \A u \in Seq(Nat) : Below(u, input') <=> Below(u, input) /\ Below(u, <<sent + 1>>)
        BY <3>0, <3>c DEF new
      <3> QED BY <1>t, <3>0, <3>1, <3>2, <2>2 DEF UpInv
    <2> QED BY <2>1, <2>2, <2>4 DEF UpInv
  <1>2. CASE Drain
    <2>e. PICK e \in Nat : input = <<e>> \o input' /\ input' \in Seq(Nat) /\ e = Head(input)
      BY <1>2, <1>t, HeadTail DEF Drain
    <2>u. UNCHANGED <<wrote, wbuf, sent>>
      BY <1>2 DEF Drain, threadVars, countVars, writerVars
    <2>1. /\ <<e>> \in Seq(Nat) /\ Increasing(<<e>>) /\ Increasing(input') /\ Below(<<e>>, input')
          /\ UpTo(<<e>>, sent) /\ UpTo(input', sent)
          /\ Below(<<wrote>>, <<e>>) /\ Below(<<wrote>>, input')
          /\ Below(wbuf, <<e>>) /\ Below(wbuf, input')
          /\ Below(upload, <<e>>) /\ Below(upload, input')
          /\ Below(flow.pending, <<e>>) /\ Below(flow.pending, input')
      <3>1. <<e>> \in Seq(Nat) /\ input = <<e>> \o input' /\ input' \in Seq(Nat)
        BY <2>e
      <3>2. Increasing(input) <=> Increasing(<<e>>) /\ Increasing(input') /\ Below(<<e>>, input')
        BY <3>1, ConcatOrder
      <3>3. \A u \in Seq(Nat) : Below(u, input) <=> Below(u, <<e>>) /\ Below(u, input')
        BY <3>1, ConcatOrder
      <3>4. \A n \in Nat : UpTo(input, n) <=> UpTo(<<e>>, n) /\ UpTo(input', n)
        BY <3>1, ConcatOrder
      <3> QED BY <1>t, <3>1, <3>2, <3>3, <3>4 DEF UpInv
    <2>2. CASE UNCHANGED <<flow, upload>>
      BY <2>1, <2>2, <2>u DEF UpInv
    <2>3. CASE flow.remote /\ upload' = Fitting(Append(upload, e)) /\ flow'.pending = flow.pending
      <3> DEFINE q == upload \o <<e>>
      <3>0. Append(upload, e) = q /\ flow.pending = <<>>
        BY SMTT(30), <2>e, <2>3, <1>t, HeadTail DEF HandInv
      <3>1. q \in Seq(Nat) /\ upload' = Fitting(q) /\ flow.pending = <<>>
        BY <3>0, <2>1, <2>3, <1>t, ConcatOrder
      <3>2. /\ Increasing(q) /\ UpTo(q, sent) /\ Below(<<wrote>>, q) /\ Below(wbuf, q)
            /\ Below(q, input')
        BY <2>e, <2>1, <1>t, ConcatOrder DEF UpInv
      <3> HIDE DEF q
      <3>3. /\ Increasing(upload') /\ UpTo(upload', sent) /\ Below(<<wrote>>, upload')
            /\ Below(wbuf, upload') /\ Below(upload', input')
        BY <3>1, <3>2, <2>e, <1>t, FittingOrder
      <3>4. Below(upload', flow'.pending)
        BY <3>1, <2>3, EmptyOrder
      <3> QED BY <2>1, <2>3, <2>u, <3>3, <3>4 DEF UpInv
    <2>4. CASE flow'.pending = Fitting(Append(flow.pending, e)) /\ UNCHANGED upload
      <3> DEFINE q == flow.pending \o <<e>>
      <3>0. Append(flow.pending, e) = q
        BY <2>e, <1>t, HeadTail
      <3>1. q \in Seq(Nat) /\ flow'.pending = Fitting(q)
        BY <3>0, <2>1, <2>4, <1>t, ConcatOrder
      <3>2. /\ Increasing(q) /\ UpTo(q, sent) /\ Below(<<wrote>>, q) /\ Below(wbuf, q)
            /\ Below(upload, q) /\ Below(q, input')
        BY <2>e, <2>1, <1>t, ConcatOrder DEF UpInv
      <3> HIDE DEF q
      <3>3. /\ Increasing(flow'.pending) /\ UpTo(flow'.pending, sent)
            /\ Below(<<wrote>>, flow'.pending) /\ Below(wbuf, flow'.pending)
            /\ Below(upload, flow'.pending) /\ Below(flow'.pending, input')
        <4>1. /\ Increasing(Fitting(q)) /\ UpTo(Fitting(q), sent) /\ Below(Fitting(q), input')
          BY <3>1, <3>2, <2>e, <1>t, FittingOrder
        <4>2. \A u \in Seq(Nat) : Below(u, q) => Below(u, Fitting(q))
          BY <3>1, FittingOrder
        <4> QED BY <3>1, <3>2, <1>t, <4>1, <4>2
      <3> QED BY <2>1, <2>4, <2>u, <3>3 DEF UpInv
    <2> QED BY <1>2, <1>f, <2>e, <2>2, <2>3, <2>4 DEF Drain
  <1>3. CASE Process
    <2>u. UNCHANGED <<wrote, wbuf, sent, input>>
      BY <1>3 DEF Process, countVars
    <2>p. /\ flow'.pending = flow.pending \/ flow'.pending = <<>>
          /\ flow.remote \/ flow.connect_rx = "ok" => flow'.pending = <<>>
      BY <1>3, <1>f DEF Process, StillPending, HandInv
    <2>1. CASE UNCHANGED upload
      <3>1. /\ Increasing(flow'.pending) /\ UpTo(flow'.pending, sent)
            /\ Below(<<wrote>>, flow'.pending) /\ Below(wbuf, flow'.pending)
            /\ Below(upload, flow'.pending) /\ Below(flow'.pending, input)
        BY <2>p, EmptyOrder DEF UpInv
      <3> QED BY <2>1, <2>u, <3>1 DEF UpInv
    <2>2. CASE upload' = Fitting(upload \o flow.pending) /\ flow'.pending = <<>>
      <3> DEFINE q == upload \o flow.pending
      <3>1. /\ q \in Seq(Nat) /\ Increasing(q) /\ UpTo(q, sent) /\ Below(<<wrote>>, q)
            /\ Below(wbuf, q) /\ Below(q, input)
        BY <1>t, ConcatOrder DEF UpInv
      <3>2. upload' = Fitting(q)
        BY <2>2
      <3> HIDE DEF q
      <3>3. /\ Increasing(upload') /\ UpTo(upload', sent) /\ Below(<<wrote>>, upload')
            /\ Below(wbuf, upload') /\ Below(upload', input)
        BY <3>1, <3>2, <1>t, FittingOrder
      <3>4. /\ Increasing(<<>>) /\ UpTo(<<>>, sent) /\ Below(<<wrote>>, <<>>) /\ Below(wbuf, <<>>)
            /\ Below(upload', <<>>) /\ Below(<<>>, input)
        BY EmptyOrder
      <3> QED BY <2>2, <2>u, <3>3, <3>4 DEF UpInv
    <2> QED BY <1>3, <2>1, <2>2, <2>p DEF Process
  <1>4. CASE LoopEnds
    <2>1. UNCHANGED <<wrote, wbuf, upload, sent, input>> /\ flow'.pending = <<>>
      BY <1>4, <1>f DEF LoopEnds, threadVars, countVars, writerVars
    <2>2. /\ Increasing(<<>>) /\ UpTo(<<>>, sent) /\ Below(<<wrote>>, <<>>) /\ Below(wbuf, <<>>)
          /\ Below(upload, <<>>) /\ Below(<<>>, input)
      BY EmptyOrder
    <2> QED BY <2>1, <2>2 DEF UpInv
  <1>5. CASE WriterRecv
    <2>u. UNCHANGED <<wrote, flow, sent, input>>
      BY <1>5 DEF WriterRecv, countVars
    <2>1. CASE UNCHANGED <<wbuf, upload>>
      BY <2>1, <2>u DEF UpInv
    <2>2. CASE upload # <<>> /\ wbuf' = <<Head(upload)>> /\ upload' = Tail(upload)
      <3> DEFINE h == <<Head(upload)>>
                 t == Tail(upload)
      <3>1. /\ Increasing(h) /\ Increasing(t) /\ Below(h, t) /\ UpTo(h, sent) /\ UpTo(t, sent)
            /\ Below(<<wrote>>, h) /\ Below(<<wrote>>, t)
            /\ Below(h, flow.pending) /\ Below(t, flow.pending) /\ Below(h, input) /\ Below(t, input)
        BY <1>t, <2>2, FrontOrder DEF UpInv
      <3> HIDE DEF h, t
      <3>2. wbuf' = h /\ upload' = t
        BY <2>2 DEF h, t
      <3> QED BY <2>u, <3>1, <3>2 DEF UpInv
    <2> QED BY <1>5, <2>1, <2>2 DEF WriterRecv
  <1>6. CASE WriterWrite
    <2>1. UNCHANGED <<upload, flow, sent, input>> /\ wrote' = wbuf[1] /\ wbuf' = <<>>
      BY <1>6 DEF WriterWrite, countVars, chanVars
    <2>2. <<wrote'>> = wbuf
      BY <1>6, <1>t, <2>1 DEF WriterWrite, HandInv
    <2>3. /\ Increasing(<<>>) /\ UpTo(<<>>, sent) /\ Below(<<wrote'>>, <<>>)
          /\ Below(<<>>, upload) /\ Below(<<>>, flow.pending) /\ Below(<<>>, input)
      BY EmptyOrder
    <2> QED BY <2>1, <2>2, <2>3 DEF UpInv
  <1>7. CASE TimePasses
    BY <1>7, <1>f, <1>q DEF TimePasses, countVars, chanVars, writerVars
  <1>8. CASE DialEnds
    BY <1>8, <1>f, <1>q DEF DialEnds, countVars, chanVars, writerVars
  <1>9. ASSUME Stop \/ Rearm \/ DrainDone \/ ProcessOthers \/ WakeUp \/ OtherWake \/ DialWake
               \/ ReaderRead \/ ReaderEnd \/ ReaderSend \/ ReaderWake
        PROVE  UpInv'
    BY <1>9, <1>q DEF Stop, Rearm, DrainDone, ProcessOthers, WakeUp, OtherWake, DialWake,
        ReaderRead, ReaderEnd, ReaderSend, ReaderWake, threadVars, countVars, chanVars, writerVars
  <1>10. CASE UNCHANGED vars
    BY <1>10, <1>q DEF vars, countVars, chanVars, writerVars
  <1> QED BY <1>1, <1>2, <1>3, <1>4, <1>5, <1>6, <1>7, <1>8, <1>9, <1>10
          DEF Next, Loop, Dial, Writer

\* Every step keeps the order of the way down.
LEMMA DownStep ==
    ASSUME TypeOK, HandInv, DownInv, [Next]_vars
    PROVE  DownInv'
  <1>t. <<heard>> \in Seq(Nat) /\ download \in Seq(Nat) /\ rbuf \in Seq(Nat) /\ read \in Nat
    BY QueueTypes
  <1>q. ASSUME UNCHANGED <<heard, download, rbuf, read>> PROVE DownInv'
    BY <1>q DEF DownInv
  <1>1. CASE Process
    <2>1. CASE download = <<>>
      BY <1>1, <2>1, <1>q DEF Process, countVars
    <2>2. CASE download # <<>>
      <3> DEFINE n == Len(download)
      <3>1. /\ n \in Nat /\ n \in DOMAIN download /\ download[n] \in Nat
            /\ heard' = download[n] /\ download' = <<>> /\ UNCHANGED <<rbuf, read>>
        BY <1>1, <2>2, <1>t DEF Process, countVars
      <3>2. UpTo(<<heard'>>, read) /\ Below(<<heard'>>, rbuf)
        BY <3>1, <1>t DEF DownInv, UpTo, Below
      <3>3. /\ Increasing(<<>>) /\ UpTo(<<>>, read) /\ Below(<<heard'>>, <<>>) /\ Below(<<>>, rbuf)
        BY EmptyOrder
      <3> QED BY <3>1, <3>2, <3>3 DEF DownInv
    <2> QED BY <2>1, <2>2
  <1>2. CASE LoopEnds
    <2>1. UNCHANGED <<heard, rbuf, read>> /\ download' = <<>>
      BY <1>2 DEF LoopEnds, threadVars, countVars
    <2>2. /\ Increasing(<<>>) /\ UpTo(<<>>, read) /\ Below(<<heard>>, <<>>) /\ Below(<<>>, rbuf)
      BY EmptyOrder
    <2> QED BY <2>1, <2>2 DEF DownInv
  <1>3. CASE ReaderRead
    <2>1. /\ rbuf' = <<read + 1>> /\ read' = read + 1 /\ read' \in Nat
          /\ UNCHANGED <<heard, download>>
      BY <1>3, <1>t DEF ReaderRead, chanVars
    <2>2. /\ Below(<<heard>>, <<read + 1>>) /\ UpTo(<<heard>>, read + 1)
          /\ Below(download, <<read + 1>>) /\ UpTo(download, read + 1)
      BY <1>t, NextOrder DEF DownInv
    <2>3. Increasing(<<read + 1>>) /\ UpTo(<<read + 1>>, read + 1)
      BY <1>t, SingleOrder
    <2> QED BY <2>1, <2>2, <2>3 DEF DownInv
  <1>4. CASE ReaderSend
    <2>1. rbuf' = <<>> /\ UNCHANGED <<heard, read>>
      BY <1>4 DEF ReaderSend, countVars
    <2>2. /\ Increasing(<<>>) /\ UpTo(<<>>, read) /\ Below(<<heard>>, <<>>)
          /\ Below(download', <<>>)
      BY EmptyOrder
    <2>3. Increasing(download') /\ UpTo(download', read) /\ Below(<<heard>>, download')
      <3>1. CASE UNCHANGED download
        BY <3>1 DEF DownInv
      <3>2. CASE download' = download \o rbuf
        BY <3>2, <1>t, ConcatOrder DEF DownInv
      <3> QED BY <1>4, <3>1, <3>2 DEF ReaderSend
    <2> QED BY <2>1, <2>2, <2>3 DEF DownInv
  <1>5. ASSUME AppSend \/ Stop \/ TimePasses \/ Rearm \/ Drain \/ DrainDone \/ ProcessOthers
               \/ WakeUp \/ OtherWake \/ DialEnds \/ DialWake \/ ReaderEnd \/ ReaderWake
               \/ WriterRecv \/ WriterWrite
        PROVE  DownInv'
    BY <1>5, <1>q DEF AppSend, Stop, TimePasses, Rearm, Drain, DrainDone, ProcessOthers, WakeUp,
        OtherWake, DialEnds, DialWake, ReaderEnd, ReaderWake, WriterRecv, WriterWrite,
        threadVars, countVars, chanVars, readerVars
  <1>6. CASE UNCHANGED vars
    BY <1>6, <1>q DEF vars, countVars, chanVars, readerVars
  <1> QED BY <1>1, <1>2, <1>3, <1>4, <1>5, <1>6 DEF Next, Loop, Dial, Writer

-----------------------------------------------------------------------------
\* The invariant InOrder needs holds in every state.
THEOREM UdpInvariance == Spec => []UdpInv
  <1>1. Init => UdpInv
    <2> SUFFICES ASSUME Init PROVE UdpInv
      OBVIOUS
    <2> USE LimitAssumption, BoundAssumption
    <2>1. TypeOK
      <3>1. /\ <<>> \in Seq(0 .. MaxUp) /\ <<>> \in Seq(1 .. MaxUp) /\ <<>> \in Seq(1 .. MaxDown)
            /\ <<1>> \in Seq(1 .. MaxUp) /\ Len(<<>>) = 0
        OBVIOUS
      <3>2. flow \in [live : BOOLEAN, connect_rx : {"none", "empty", "ok", "err"}, remote : BOOLEAN,
                      pending : Seq(1 .. MaxUp), stale : BOOLEAN, closed : BOOLEAN]
        BY <3>1 DEF Init
      <3>3. /\ input \in Seq(0 .. MaxUp) /\ upload \in Seq(1 .. MaxUp) /\ Len(upload) <= Pending
            /\ download \in Seq(1 .. MaxDown) /\ Len(download) <= Capacity
        BY <3>1 DEF Init
      <3>4. sent \in 1 .. MaxUp /\ read \in 0 .. MaxDown
        BY DEF Init
      <3>5. /\ armed \in BOOLEAN /\ close \in BOOLEAN /\ pc = "process" /\ other = "idle"
            /\ tunnel = "none" /\ dial = "dialing" /\ reader = "none" /\ writer = "none"
        BY DEF Init
      <3> QED BY <3>2, <3>3, <3>4, <3>5 DEF TypeOK
    <2>2. HandInv
      BY DEF Init, HandInv
    <2>3. UpInv
      <3>1. \A s : /\ Increasing(<<>>) /\ UpTo(<<>>, 1) /\ Below(<<>>, s) /\ Below(s, <<>>)
        BY EmptyOrder
      <3>2. /\ Increasing(<<1>>) /\ UpTo(<<1>>, 1) /\ UpTo(<<0>>, 1) /\ Below(<<0>>, <<1>>)
        BY DEF Increasing, UpTo, Below, Wake
      <3> QED BY <3>1, <3>2 DEF Init, UpInv
    <2>4. DownInv
      <3>1. \A s : /\ Increasing(<<>>) /\ UpTo(<<>>, 0) /\ Below(<<>>, s) /\ Below(s, <<>>)
        BY EmptyOrder
      <3>2. UpTo(<<0>>, 0)
        BY DEF UpTo
      <3> QED BY <3>1, <3>2 DEF Init, DownInv
    <2> QED BY <2>1, <2>2, <2>3, <2>4 DEF UdpInv
  <1>2. UdpInv /\ [Next]_vars => UdpInv'
    BY TypeStep, HandStep, UpStep, DownStep DEF UdpInv
  <1> QED BY <1>1, <1>2, PTL DEF Spec

\* The variables keep their types, and the channels to the flow's threads
\* their limits (UDP_PENDING_DATAGRAMS, FLOW_CHANNEL_CAPACITY).
THEOREM TypeCorrect == Spec => []TypeOK
  <1>1. UdpInv => TypeOK
    BY DEF UdpInv
  <1> QED BY <1>1, UdpInvariance, PTL

\* Neither direction of a UDP flow repeats or reorders datagrams, before,
\* while and after its tunnel is connected (process_udp, the two threads).
THEOREM DatagramsInOrder == Spec => []InOrder
  <1>1. ASSUME UdpInv PROVE InOrder
    <2>t. /\ <<wrote>> \in Seq(Nat) /\ wbuf \in Seq(Nat) /\ upload \in Seq(Nat)
          /\ flow.pending \in Seq(Nat) /\ input \in Seq(Nat)
          /\ <<heard>> \in Seq(Nat) /\ download \in Seq(Nat) /\ rbuf \in Seq(Nat)
          /\ wrote \in Nat /\ heard \in Nat
      BY <1>1, QueueTypes DEF UdpInv
    <2>s. Increasing(<<wrote>>) /\ Increasing(<<heard>>)
      BY <2>t, SingleOrder
    <2> DEFINE a == <<wrote>> \o wbuf
               b == a \o upload
               c == b \o flow.pending
               d == <<heard>> \o download
    <2>1. a \in Seq(Nat) /\ Increasing(a) /\ Below(a, upload) /\ Below(a, flow.pending)
          /\ Below(a, input)
      <3>1. /\ a \in Seq(Nat)
            /\ Increasing(a) <=> /\ Increasing(<<wrote>>) /\ Increasing(wbuf)
                                 /\ Below(<<wrote>>, wbuf)
        BY <2>t, ConcatOrder
      <3>2. \A u \in Seq(Nat) : Below(a, u) <=> Below(<<wrote>>, u) /\ Below(wbuf, u)
        BY <2>t, ConcatOrder
      <3> HIDE DEF a
      <3> QED BY <1>1, <2>t, <2>s, <3>1, <3>2 DEF UdpInv, UpInv
    <2>5. d \in Seq(Nat) /\ Increasing(d) /\ Below(d, rbuf)
      BY <1>1, <2>t, <2>s, ConcatOrder DEF UdpInv, DownInv
    <2> HIDE DEF a, d
    <2>2. b \in Seq(Nat) /\ Increasing(b) /\ Below(b, flow.pending) /\ Below(b, input)
      BY <1>1, <2>t, <2>1, ConcatOrder DEF UdpInv, UpInv
    <2> HIDE DEF b
    <2>3. c \in Seq(Nat) /\ Increasing(c) /\ Below(c, input)
      BY <1>1, <2>t, <2>2, ConcatOrder DEF UdpInv, UpInv
    <2> HIDE DEF c
    <2>4. Increasing(c \o input)
      BY <1>1, <2>t, <2>3, ConcatOrder DEF UdpInv, UpInv
    <2>6. Increasing(d \o rbuf)
      BY <1>1, <2>t, <2>5, ConcatOrder DEF UdpInv, DownInv
    <2> QED BY <2>4, <2>6 DEF InOrder, a, b, c, d
  <1> QED BY <1>1, UdpInvariance, PTL

\* The loop does not sleep over work that was announced to it, unless the
\* armed flag is still set (StackWaker::wake against the loop's pass).
THEOREM SleepsOnlyArmed == Spec => []SleepsOverWorkOnlyArmed
  <1>1. Init => SleepsOverWorkOnlyArmed
    BY DEF Init, SleepsOverWorkOnlyArmed
  <1>2. ASSUME TypeOK, SleepsOverWorkOnlyArmed, [Next]_vars PROVE SleepsOverWorkOnlyArmed'
    <2> USE DEF SleepsOverWorkOnlyArmed, Work, Waking
    <2>f. flow \in [live : BOOLEAN, connect_rx : {"none", "empty", "ok", "err"}, remote : BOOLEAN,
                    pending : Seq(1 .. MaxUp), stale : BOOLEAN, closed : BOOLEAN]
      BY <1>2 DEF TypeOK
    <2>i. Append(input, Wake) # <<>> /\ Append(input, sent + 1) # <<>>
      <3>1. input \in Seq(Nat) /\ sent \in Nat
        BY <1>2, BoundAssumption DEF TypeOK
      <3> QED BY <3>1 DEF Wake
    <2>1. CASE AppSend
      BY <2>1, <2>i DEF AppSend
    <2>2. CASE Stop
      BY <2>2, <2>i DEF Stop
    <2>3. CASE TimePasses
      BY <1>2, <2>3, <2>f DEF TimePasses, loopVars, chanVars, readerVars
    <2>4. CASE Rearm
      BY <2>4 DEF Rearm
    <2>5. CASE Drain
      BY <2>5 DEF Drain, loopVars
    <2>6. CASE DrainDone
      BY <2>6 DEF DrainDone
    <2>7. CASE Process
      <3>1. download' = <<>> /\ flow'.connect_rx \notin {"ok", "err"}
        BY <2>7, <2>f DEF Process
      <3> QED BY <3>1
    <2>8. CASE ProcessOthers
      BY <2>8 DEF ProcessOthers
    <2>9. CASE WakeUp
      BY <2>9 DEF WakeUp
    <2>10. CASE LoopEnds
      BY <2>10 DEF LoopEnds
    <2>11. CASE OtherWake
      BY <1>2, <2>11, <2>i DEF OtherWake, AfterSwap, chanVars, readerVars
    <2>12. CASE DialEnds
      BY <2>12 DEF DialEnds
    <2>13. CASE DialWake
      BY <1>2, <2>13, <2>i DEF DialWake, AfterSwap, chanVars, readerVars
    <2>14. CASE ReaderRead
      BY <1>2, <2>14 DEF ReaderRead, loopVars, chanVars
    <2>15. CASE ReaderEnd
      BY <1>2, <2>15 DEF ReaderEnd, loopVars, chanVars
    <2>16. CASE ReaderSend
      BY <1>2, <2>16 DEF ReaderSend, loopVars, chanVars
    <2>17. CASE ReaderWake
      BY <1>2, <2>17, <2>i DEF ReaderWake, AfterSwap, chanVars
    <2>18. CASE WriterRecv
      BY <1>2, <2>18 DEF WriterRecv, loopVars, readerVars
    <2>19. CASE WriterWrite
      BY <1>2, <2>19 DEF WriterWrite, loopVars, chanVars, readerVars
    <2>20. CASE UNCHANGED vars
      BY <1>2, <2>20 DEF vars, loopVars, chanVars, readerVars
    <2> QED BY <1>2, <2>1, <2>2, <2>3, <2>4, <2>5, <2>6, <2>7, <2>8, <2>9, <2>10, <2>11, <2>12,
               <2>13, <2>14, <2>15, <2>16, <2>17, <2>18, <2>19, <2>20 DEF Next, Loop, Dial, Writer
  <1> QED BY <1>1, <1>2, TypeCorrect, PTL DEF Spec
=============================================================================
