--------------------------- MODULE TcpFlowProofs ---------------------------
(***************************************************************************)
(* The safety properties of a TCP flow for any sizes of its channels,      *)
(* buffers and chunks and any amount of data.                              *)
(*                                                                         *)
(* The streams are followed by position: each buffer holds the units that  *)
(* come after those of the buffers before it (DownInv, UpInv).  That this  *)
(* lasts to the end of the flow depends on what a given-up flow can still  *)
(* do (LoopInv), on what the threads hold at each point (ThreadInv), and,  *)
(* for the FIN, on how far the end of either stream has come (FinInv).     *)
(***************************************************************************)
EXTENDS TcpFlow, TLAPS

\* s holds the units after the first a.
IsRun(s, a) == \A i \in DOMAIN s : s[i] = a + i

\* Where chunk k of the list d ends, when the first begins after a, and that
\* each chunk begins where the one before ends.
EndOf(d, a, k) == IF k = 0 THEN a ELSE d[k][Len(d[k])]
Chain(d, a) ==
    /\ \A k \in DOMAIN d : d[k] # <<>> /\ IsRun(d[k], EndOf(d, a, k - 1))
    /\ \A i, j \in 0 .. Len(d) : i <= j => EndOf(d, a, i) <= EndOf(d, a, j)

\* What is on its way to the socket: the ACK of the handshake, the units
\* from c to n, a FIN or RST.
AckLen(s) == IF s # <<>> /\ s[1] = Ack THEN 1 ELSE 0
Shape(s, c, n) ==
    /\ AckLen(s) + (n - c) <= Len(s)
    /\ \A i \in 1 .. n - c : s[AckLen(s) + i] = c + i
    /\ \A i \in DOMAIN s : i > AckLen(s) + (n - c) => s[i] \in {Fin, Rst}

\* Types TypeOK leaves out.
Segments == {Ack, Fin, Rst} \cup (1 .. MaxUnits)
QueueInv ==
    /\ inbound \in Seq(Segments)
    /\ download \in Seq(Seq(1 .. MaxUnits))
    /\ rchunk \in Seq(1 .. MaxUnits) /\ download_pending \in Seq(1 .. MaxUnits)
    /\ upload_pending \in Nat

\* A flow that was given up is on its way out of the loop with a dead socket;
\* the threads are started once; the flag `closed` has a cause.
LoopInv ==
    /\ Gone <=> pc = "gone"
    /\ Gone \/ aborted => tx = <<>>
    /\ aborted => closed /\ pc \in {"download", "finish", "gone"} /\ sock \in {"Closed", "Removed"}
    /\ connect_rx # "none" => reader = "none" /\ writer = "none"
    /\ tunnel = "closed" => Gone
    /\ closed => aborted \/ Gone \/ tunnel = "broken"

\* What the threads hold.
ThreadInv ==
    /\ reader = "send" <=> rchunk # <<>>
    /\ writer = "write" => wchunk # 0
    /\ writer \in {"none", "test", "recv"} => wchunk = 0

\* How far the ends of the two streams have come.
FinInv ==
    /\ remote_eof => EndOfStream
    /\ fin_sent => remote_eof /\ sock \notin {"SynReceived", "Established", "CloseWait"}
    /\ sock \in {"FinWait1", "FinWait2", "Closing", "LastAck", "TimeWait"} => fin_sent
    /\ sock \in {"CloseWait", "Closing", "LastAck", "TimeWait"} => appFin
    /\ sock = "Closed" /\ ~aborted => appGone \/ (gotFin /\ appFin)
    /\ appFin => finFirst \/ gotFin
    /\ \A i \in DOMAIN inbound : /\ inbound[i] = Fin => appFin
                                 /\ inbound[i] = Rst => appGone
    /\ gotFin => reader = "done" /\ Len(got) = read

\* The way down by position.
DownAt == Len(got) + Len(tx) + Len(download_pending)
DownInv ==
    /\ IsRun(got, 0) /\ Len(got) <= read
    /\ ~Gone /\ ~aborted =>
        /\ IsRun(tx, Len(got))
        /\ IsRun(download_pending, Len(got) + Len(tx))
        /\ Chain(download, DownAt)
        /\ IsRun(rchunk, EndOf(download, DownAt, Len(download)))
        /\ read = EndOf(download, DownAt, Len(download)) + Len(rchunk)

\* The way up by position.
Held == IF wchunk = 0 THEN 0 ELSE 1
UpAt == Len(written) + Held + Len(upload)
UpInv ==
    /\ IsRun(written, 0)
    /\ wchunk # 0 => wchunk = Len(written) + 1
    /\ IsRun(upload, Len(written) + Held)
    /\ UpAt <= sent
    /\ ~Gone /\ ~aborted =>
        /\ IsRun(rx, UpAt)
        /\ UpAt + Len(rx) <= sent
        /\ Shape(inbound, UpAt + Len(rx), sent)
        /\ UpAt + Len(rx) < sent => sock \in Open \cup {"SynReceived"}
        /\ sock = "SynReceived" => IF inbound = <<>> THEN appGone ELSE inbound[1] = Ack

FlowInv == TypeOK /\ QueueInv /\ LoopInv /\ ThreadInv /\ PendingExact /\ FinInv /\ DownInv /\ UpInv

-----------------------------------------------------------------------------
(* Runs of units.                                                          *)

\* The empty run, and a run of one unit.
LEMMA RunSmall ==
    ASSUME NEW a \in Nat, NEW e \in Nat
    PROVE  IsRun(<<>>, a) /\ (IsRun(<<e>>, a) <=> e = a + 1)
  BY DEF IsRun

\* Two runs in a row.
LEMMA RunConcat ==
    ASSUME NEW s \in Seq(Nat), NEW t \in Seq(Nat), NEW a \in Nat
    PROVE  /\ s \o t \in Seq(Nat) /\ Len(s \o t) = Len(s) + Len(t)
           /\ IsRun(s \o t, a) <=> IsRun(s, a) /\ IsRun(t, a + Len(s))
  <1> DEFINE c == s \o t
  <1>1. c \in Seq(Nat) /\ Len(c) = Len(s) + Len(t)
    OBVIOUS
  <1>2. /\ \A i \in DOMAIN s : i \in DOMAIN c /\ c[i] = s[i]
        /\ \A j \in DOMAIN t : Len(s) + j \in DOMAIN c /\ c[Len(s) + j] = t[j]
    BY SMTT(30)
  <1>3. \A k \in DOMAIN c : \/ k \in DOMAIN s /\ c[k] = s[k]
                            \/ k - Len(s) \in DOMAIN t /\ c[k] = t[k - Len(s)]
    OBVIOUS
  <1>4. /\ DOMAIN s = 1 .. Len(s) /\ DOMAIN t = 1 .. Len(t) /\ DOMAIN c = 1 .. Len(c)
        /\ Len(s) \in Nat /\ Len(t) \in Nat
    OBVIOUS
  <1> HIDE DEF c
  <1>5. IsRun(c, a) => IsRun(s, a) /\ IsRun(t, a + Len(s))
    BY <1>2, <1>4 DEF IsRun
  <1>6. ASSUME IsRun(s, a), IsRun(t, a + Len(s)) PROVE IsRun(c, a)
    <2> SUFFICES ASSUME NEW k \in DOMAIN c PROVE c[k] = a + k
      BY DEF IsRun
    <2>1. CASE k \in DOMAIN s /\ c[k] = s[k]
      BY <1>6, <2>1 DEF IsRun
    <2>2. CASE k - Len(s) \in DOMAIN t /\ c[k] = t[k - Len(s)]
      <3>1. t[k - Len(s)] = a + Len(s) + (k - Len(s))
        BY <1>6, <2>2 DEF IsRun
      <3> QED BY <1>1, <1>4, <2>2, <3>1
    <2> QED BY <1>3, <2>1, <2>2
  <1> QED BY <1>1, <1>5, <1>6 DEF c

\* One more unit at the end.
LEMMA RunAppend ==
    ASSUME NEW s \in Seq(Nat), NEW a \in Nat, NEW e \in Nat
    PROVE  /\ Append(s, e) \in Seq(Nat) /\ Len(Append(s, e)) = Len(s) + 1
           /\ IsRun(Append(s, e), a) <=> IsRun(s, a) /\ e = a + Len(s) + 1
  <1>1. Append(s, e) = s \o <<e>> /\ <<e>> \in Seq(Nat) /\ Len(<<e>>) = 1 /\ a + Len(s) \in Nat
    OBVIOUS
  <1>2. /\ s \o <<e>> \in Seq(Nat) /\ Len(s \o <<e>>) = Len(s) + 1
        /\ IsRun(s \o <<e>>, a) <=> IsRun(s, a) /\ IsRun(<<e>>, a + Len(s))
    BY <1>1, RunConcat
  <1>3. IsRun(<<e>>, a + Len(s)) <=> e = a + Len(s) + 1
    BY <1>1, RunSmall
  <1> QED BY <1>1, <1>2, <1>3

\* One unit less at the front.
LEMMA RunFront ==
    ASSUME NEW s \in Seq(Nat), NEW a \in Nat, s # <<>>, IsRun(s, a)
    PROVE  /\ Head(s) = a + 1 /\ IsRun(Tail(s), a + 1)
           /\ Tail(s) \in Seq(Nat) /\ Len(Tail(s)) = Len(s) - 1 /\ Len(s) >= 1
  <1>1. /\ Tail(s) \in Seq(Nat) /\ Len(Tail(s)) = Len(s) - 1 /\ Len(s) >= 1 /\ Head(s) = s[1]
        /\ 1 \in DOMAIN s /\ \A i \in DOMAIN Tail(s) : i + 1 \in DOMAIN s /\ Tail(s)[i] = s[i + 1]
    OBVIOUS
  <1> QED BY <1>1 DEF IsRun

\* A run cut in two.
LEMMA RunCut ==
    ASSUME NEW s \in Seq(Nat), NEW a \in Nat, NEW n \in Nat, n <= Len(s), IsRun(s, a)
    PROVE  /\ SubSeq(s, 1, n) \in Seq(Nat) /\ Len(SubSeq(s, 1, n)) = n
           /\ Leftover(s, n) \in Seq(Nat) /\ Len(Leftover(s, n)) = Len(s) - n
           /\ IsRun(SubSeq(s, 1, n), a) /\ IsRun(Leftover(s, n), a + n)
  <1>1. SubSeq(s, 1, n) \in Seq(Nat) /\ Len(SubSeq(s, 1, n)) = n
    OBVIOUS
  <1>2. Leftover(s, n) \in Seq(Nat) /\ Len(Leftover(s, n)) = Len(s) - n
    BY DEF Leftover
  <1>3. \A i \in DOMAIN SubSeq(s, 1, n) : i \in DOMAIN s /\ SubSeq(s, 1, n)[i] = s[i]
    OBVIOUS
  <1>4. \A i \in DOMAIN Leftover(s, n) : i + n \in DOMAIN s /\ Leftover(s, n)[i] = s[i + n]
    BY DEF Leftover
  <1>5. IsRun(SubSeq(s, 1, n), a)
    BY <1>3 DEF IsRun
  <1>6. \A i \in DOMAIN Leftover(s, n) : i \in Nat
    BY <1>2
  <1>7. IsRun(Leftover(s, n), a + n)
    BY <1>4, <1>6 DEF IsRun
  <1> QED BY <1>1, <1>2, <1>5, <1>7

\* A run is the sequence Run.
LEMMA RunIs ==
    ASSUME NEW s \in Seq(Nat), NEW a \in Nat, NEW b \in Nat, IsRun(s, a), b = a + Len(s)
    PROVE  s = Run(a, b)
  <1>1. DOMAIN s = 1 .. b - a
    OBVIOUS
  <1> QED BY <1>1 DEF IsRun, Run

-----------------------------------------------------------------------------
(* Lists of chunks.                                                        *)

\* Where the last chunk ends.
LEMMA ChainEnd ==
    ASSUME NEW d \in Seq(Seq(Nat)), NEW a \in Nat, Chain(d, a)
    PROVE  /\ \A k \in 0 .. Len(d) : EndOf(d, a, k) \in Nat
           /\ EndOf(d, a, Len(d)) >= a
           /\ \A k \in DOMAIN d : EndOf(d, a, k) = EndOf(d, a, k - 1) + Len(d[k])
  <1>1. \A k \in DOMAIN d : /\ d[k] \in Seq(Nat) /\ d[k] # <<>> /\ k - 1 \in 0 .. Len(d) /\ k # 0
                            /\ Len(d[k]) \in DOMAIN d[k] /\ d[k][Len(d[k])] \in Nat
    BY DEF Chain
  <1>2. \A k \in 0 .. Len(d) : k = 0 \/ k \in DOMAIN d
    OBVIOUS
  <1>3. \A k \in 0 .. Len(d) : EndOf(d, a, k) \in Nat
    BY <1>1, <1>2 DEF EndOf
  <1>4. EndOf(d, a, 0) <= EndOf(d, a, Len(d)) /\ EndOf(d, a, 0) = a
    <2>1. 0 \in 0 .. Len(d) /\ Len(d) \in 0 .. Len(d) /\ 0 <= Len(d)
      OBVIOUS
    <2>2. EndOf(d, a, 0) <= EndOf(d, a, Len(d))
      BY <2>1 DEF Chain
    <2> QED BY <2>2 DEF EndOf
  <1>5. ASSUME NEW k \in DOMAIN d PROVE EndOf(d, a, k) = EndOf(d, a, k - 1) + Len(d[k])
    <2>1. IsRun(d[k], EndOf(d, a, k - 1))
      BY DEF Chain
    <2>2. EndOf(d, a, k) = d[k][Len(d[k])]
      BY <1>1 DEF EndOf
    <2> QED BY <2>1, <2>2, <1>1 DEF IsRun
  <1> QED BY <1>3, <1>4, <1>5

\* No chunks.
LEMMA ChainEmpty ==
    ASSUME NEW a \in Nat
    PROVE  Chain(<<>>, a) /\ EndOf(<<>>, a, Len(<<>>)) = a
  BY DEF Chain, EndOf

\* The first chunk is taken.
LEMMA ChainFront ==
    ASSUME NEW d \in Seq(Seq(Nat)), NEW a \in Nat, Chain(d, a), d # <<>>
    PROVE  LET h == Head(d)
               t == Tail(d)
               b == a + Len(h)
           IN /\ h \in Seq(Nat) /\ IsRun(h, a) /\ Len(h) \in Nat
              /\ t \in Seq(Seq(Nat)) /\ Chain(t, b)
              /\ EndOf(t, b, Len(t)) = EndOf(d, a, Len(d))
  <1> DEFINE h == Head(d)
             t == Tail(d)
             b == a + Len(h)
  <1>1. /\ h = d[1] /\ 1 \in DOMAIN d /\ h \in Seq(Nat) /\ t \in Seq(Seq(Nat))
        /\ Len(t) = Len(d) - 1 /\ Len(d) \in Nat /\ Len(d) >= 1 /\ DOMAIN t = 1 .. Len(t)
        /\ \A k \in DOMAIN t : k + 1 \in DOMAIN d /\ t[k] = d[k + 1]
    OBVIOUS
  <1>2. IsRun(h, a) /\ EndOf(d, a, 1) = b
    <2>1. EndOf(d, a, 0) = a
      BY DEF EndOf
    <2>2. IsRun(d[1], EndOf(d, a, 1 - 1))
      BY <1>1 DEF Chain
    <2>3. EndOf(d, a, 1) = EndOf(d, a, 1 - 1) + Len(d[1])
      BY <1>1, ChainEnd
    <2> QED BY <1>1, <2>1, <2>2, <2>3
  <1> HIDE DEF h, t, b
  <1>3. \A k \in 0 .. Len(t) : EndOf(t, b, k) = EndOf(d, a, k + 1)
    <2> TAKE k \in 0 .. Len(t)
    <2>1. CASE k = 0
      <3>1. EndOf(t, b, 0) = b
        BY DEF EndOf
      <3>2. 0 + 1 = 1
        OBVIOUS
      <3> QED BY <1>2, <2>1, <3>1, <3>2
    <2>2. CASE k # 0
      <3>1. k \in DOMAIN t /\ k + 1 # 0
        BY <1>1, <2>2
      <3> QED BY <1>1, <2>2, <3>1 DEF EndOf
    <2> QED BY <2>1, <2>2
  <1>4. \A k \in DOMAIN t : t[k] # <<>> /\ IsRun(t[k], EndOf(t, b, k - 1))
    <2> TAKE k \in DOMAIN t
    <2>1. k - 1 \in 0 .. Len(t) /\ k + 1 \in DOMAIN d /\ k \in Int
      BY SMTT(30), <1>1
    <2>2. t[k] # <<>> /\ IsRun(t[k], EndOf(d, a, k + 1 - 1))
      BY <1>1, <2>1 DEF Chain
    <2>3. k + 1 - 1 = k - 1 + 1
      BY <2>1
    <2> QED BY <1>3, <2>1, <2>2, <2>3
  <1>5. \A i, j \in 0 .. Len(t) : i <= j => EndOf(t, b, i) <= EndOf(t, b, j)
    <2>1. \A i \in 0 .. Len(t) : i + 1 \in 0 .. Len(d)
      BY <1>1
    <2> QED BY <1>3, <2>1 DEF Chain
  <1>6. EndOf(t, b, Len(t)) = EndOf(d, a, Len(d))
    BY <1>1, <1>3
  <1> QED BY <1>1, <1>2, <1>4, <1>5, <1>6 DEF Chain, h, t, b

\* A chunk is added.
LEMMA ChainAppend ==
    ASSUME NEW d \in Seq(Seq(Nat)), NEW a \in Nat, Chain(d, a),
           NEW c \in Seq(Nat), c # <<>>, IsRun(c, EndOf(d, a, Len(d)))
    PROVE  /\ Append(d, c) \in Seq(Seq(Nat)) /\ Chain(Append(d, c), a)
           /\ EndOf(Append(d, c), a, Len(Append(d, c))) = EndOf(d, a, Len(d)) + Len(c)
  <1> DEFINE e == Append(d, c)
             n == Len(d)
  <1>1. /\ e \in Seq(Seq(Nat)) /\ Len(e) = n + 1 /\ n \in Nat /\ e[n + 1] = c
        /\ \A k \in DOMAIN d : k \in DOMAIN e /\ e[k] = d[k]
        /\ DOMAIN d = 1 .. n /\ DOMAIN e = 1 .. n + 1
    OBVIOUS
  <1>2. Len(c) \in DOMAIN c /\ Len(c) \in Nat /\ Len(c) >= 1
    OBVIOUS
  <1> HIDE DEF e
  <1>3. \A k \in 0 .. n : EndOf(e, a, k) = EndOf(d, a, k) /\ EndOf(d, a, k) \in Nat
    <2>1. \A k \in 0 .. n : EndOf(d, a, k) \in Nat
      BY ChainEnd
    <2>2. \A k \in 0 .. n : k = 0 \/ k \in DOMAIN d
      BY <1>1
    <2>3. \A k \in 0 .. n : EndOf(e, a, k) = EndOf(d, a, k)
      BY <1>1, <2>2 DEF EndOf
    <2> QED BY <2>1, <2>3
  <1>4. EndOf(e, a, n + 1) = EndOf(d, a, n) + Len(c)
    BY <1>1, <1>2, <1>3 DEF EndOf, IsRun
  <1>5. \A k \in DOMAIN e : e[k] # <<>> /\ IsRun(e[k], EndOf(e, a, k - 1))
    <2> TAKE k \in DOMAIN e
    <2>1. CASE k \in DOMAIN d
      <3>1. k - 1 \in 0 .. n
        BY <1>1, <2>1
      <3> QED BY <1>1, <1>3, <2>1, <3>1 DEF Chain
    <2>2. CASE k = n + 1
      <3>1. k - 1 = n /\ n \in 0 .. n
        BY <1>1, <2>2
      <3> QED BY <1>1, <1>3, <2>2, <3>1
    <2> QED BY <1>1, <2>1, <2>2
  <1> HIDE DEF n
  <1>6. \A i, j \in 0 .. n + 1 : i <= j => EndOf(e, a, i) <= EndOf(e, a, j)
    <2>1. \A i, j \in 0 .. n : i <= j => EndOf(e, a, i) <= EndOf(e, a, j)
      BY <1>3 DEF Chain, n
    <2>0. n \in Nat /\ n \in 0 .. n /\ \A i \in 0 .. n : EndOf(e, a, i) \in Nat
      BY <1>1, <1>3
    <2>2. EndOf(e, a, n) <= EndOf(e, a, n + 1) /\ EndOf(e, a, n + 1) \in Nat
      <3>1. EndOf(e, a, n) \in Nat /\ EndOf(e, a, n) = EndOf(d, a, n)
        BY <1>3, <2>0
      <3> QED BY <1>2, <1>4, <3>1
    <2>3. \A i \in 0 .. n : EndOf(e, a, i) <= EndOf(e, a, n + 1)
      <3> TAKE i \in 0 .. n
      <3>1. EndOf(e, a, i) <= EndOf(e, a, n)
        BY <2>0, <2>1
      <3> QED BY <2>0, <2>2, <3>1
    <2>4. \A i \in 0 .. n + 1 : i \in 0 .. n \/ i = n + 1
      BY <1>1
    <2> QED BY SMTT(30), <2>0, <2>1, <2>2, <2>3, <2>4
  <1> QED BY <1>1, <1>4, <1>5, <1>6 DEF Chain, e, n

-----------------------------------------------------------------------------
(* The segments on their way to the socket.                                *)

\* The application sends one more unit; nothing comes after a FIN or RST.
LEMMA ShapeData ==
    ASSUME NEW s \in Seq(Segments), NEW c \in Nat, NEW n \in Nat, c <= n, Shape(s, c, n),
           \A i \in DOMAIN s : s[i] \notin {Fin, Rst}
    PROVE  Shape(Append(s, n + 1), c, n + 1)
  <1> DEFINE t == Append(s, n + 1)
  <1>1. /\ Len(t) = Len(s) + 1 /\ DOMAIN s = 1 .. Len(s) /\ DOMAIN t = 1 .. Len(t) /\ Len(s) \in Nat
        /\ \A i \in DOMAIN s : t[i] = s[i]
        /\ t[Len(s) + 1] = n + 1 /\ t # <<>>
    OBVIOUS
  <1> HIDE DEF t
  <1>2. AckLen(s) \in {0, 1} /\ AckLen(t) \in {0, 1}
    BY DEF AckLen
  <1>3. AckLen(t) = AckLen(s)
    <2>1. CASE s = <<>>
      <3>1. Len(s) = 0
        BY <2>1
      <3> QED BY <1>1, <2>1, <3>1 DEF AckLen, Ack
    <2>2. CASE s # <<>>
      <3>1. 1 \in DOMAIN s
        BY <2>2
      <3> QED BY <1>1, <2>2, <3>1 DEF AckLen
    <2> QED BY <2>1, <2>2
  <1>4. AckLen(s) + (n - c) = Len(s)
    <2>1. AckLen(s) + (n - c) <= Len(s)
      BY DEF Shape
    <2>2. ~(Len(s) > AckLen(s) + (n - c))
      <3> SUFFICES ASSUME Len(s) > AckLen(s) + (n - c) PROVE FALSE
        OBVIOUS
      <3>1. Len(s) \in DOMAIN s
        BY <1>1, <1>2
      <3> QED BY <3>1 DEF Shape
    <2> QED BY <1>1, <1>2, <2>1, <2>2
  <1>5. \A i \in 1 .. n + 1 - c : t[AckLen(t) + i] = c + i
    <2> TAKE i \in 1 .. n + 1 - c
    <2>1. CASE i \in 1 .. n - c
      <3>1. AckLen(s) + i \in DOMAIN s
        BY <1>1, <1>2, <1>4, <2>1
      <3> QED BY <1>1, <1>3, <2>1, <3>1 DEF Shape
    <2>2. CASE i = n - c + 1
      <3>1. AckLen(t) + i = Len(s) + 1 /\ c + i = n + 1
        BY <1>1, <1>2, <1>3, <1>4, <2>2
      <3> QED BY <1>1, <3>1
    <2> QED BY <2>1, <2>2
  <1>6. AckLen(t) + (n + 1 - c) = Len(t)
    BY <1>1, <1>2, <1>3, <1>4
  <1>7. \A i \in DOMAIN t : ~(i > Len(t))
    BY <1>1
  <1>8. Shape(t, c, n + 1)
    BY <1>1, <1>5, <1>6, <1>7 DEF Shape
  <1> QED BY <1>8 DEF t

\* The application sends a FIN or RST.
LEMMA ShapeMark ==
    ASSUME NEW s \in Seq(Segments), NEW c \in Nat, NEW n \in Nat, c <= n, Shape(s, c, n),
           NEW m \in {Fin, Rst}
    PROVE  Shape(Append(s, m), c, n)
  <1> DEFINE t == Append(s, m)
  <1>1. /\ Len(t) = Len(s) + 1 /\ DOMAIN s = 1 .. Len(s) /\ DOMAIN t = 1 .. Len(t) /\ Len(s) \in Nat
        /\ \A i \in DOMAIN s : t[i] = s[i]
        /\ t[Len(s) + 1] = m /\ t # <<>>
    OBVIOUS
  <1> HIDE DEF t
  <1>2. AckLen(s) \in {0, 1} /\ AckLen(t) \in {0, 1}
    BY DEF AckLen
  <1>3. AckLen(t) = AckLen(s)
    <2>1. CASE s = <<>>
      <3>1. Len(s) = 0
        BY <2>1
      <3> QED BY <1>1, <2>1, <3>1 DEF AckLen, Ack, Fin, Rst
    <2>2. CASE s # <<>>
      <3>1. 1 \in DOMAIN s
        BY <2>2
      <3> QED BY <1>1, <2>2, <3>1 DEF AckLen
    <2> QED BY <2>1, <2>2
  <1>4. AckLen(s) + (n - c) <= Len(s)
    BY DEF Shape
  <1>5. \A i \in 1 .. n - c : t[AckLen(t) + i] = c + i
    <2> TAKE i \in 1 .. n - c
    <2>1. AckLen(s) + i \in DOMAIN s
      BY <1>1, <1>2, <1>4
    <2> QED BY <1>1, <1>3, <2>1 DEF Shape
  <1>6. \A i \in DOMAIN t : i > AckLen(t) + (n - c) => t[i] \in {Fin, Rst}
    <2> SUFFICES ASSUME NEW i \in DOMAIN t, i > AckLen(t) + (n - c) PROVE t[i] \in {Fin, Rst}
      OBVIOUS
    <2>1. i \in DOMAIN s \/ i = Len(s) + 1
      BY <1>1
    <2> QED BY <1>1, <1>3, <2>1 DEF Shape
  <1>7. AckLen(t) + (n - c) <= Len(t)
    BY <1>1, <1>2, <1>3, <1>4
  <1>8. Shape(t, c, n)
    BY <1>5, <1>6, <1>7 DEF Shape
  <1> QED BY <1>8 DEF t

\* The socket takes the first segment: the ACK, the next unit, or the first
\* FIN or RST once no unit is left.
LEMMA ShapeFront ==
    ASSUME NEW s \in Seq(Segments), NEW c \in Nat, NEW n \in Nat, c <= n, Shape(s, c, n), s # <<>>
    PROVE  \/ Head(s) = Ack /\ Shape(Tail(s), c, n)
           \/ Head(s) = c + 1 /\ c < n /\ Shape(Tail(s), c + 1, n)
           \/ Head(s) \in {Fin, Rst} /\ c = n /\ Shape(Tail(s), c, n)
  <1> DEFINE t == Tail(s)
  <1>1. /\ Len(t) = Len(s) - 1 /\ Len(s) \in Nat /\ Len(s) >= 1
        /\ DOMAIN s = 1 .. Len(s) /\ DOMAIN t = 1 .. Len(t)
        /\ \A i \in DOMAIN t : t[i] = s[i + 1]
        /\ Head(s) = s[1] /\ 1 \in DOMAIN s
    OBVIOUS
  <1>2. t # <<>> => 1 \in DOMAIN t
    BY <1>1
  <1> HIDE DEF t
  <1>a. AckLen(s) \in {0, 1} /\ AckLen(s) + (n - c) <= Len(s)
    BY DEF AckLen, Shape
  <1>3. CASE s[1] = Ack
    <2>1. AckLen(s) = 1
      BY <1>3 DEF AckLen
    <2>2. \A i \in DOMAIN t : t[i] # Ack
      <3> TAKE i \in DOMAIN t
      <3>1. i \in Nat /\ i >= 1 /\ i + 1 \in DOMAIN s
        BY <1>1
      <3>2. CASE i <= n - c
        <4>1. i \in 1 .. n - c /\ 1 + i = i + 1
          BY <3>1, <3>2
        <4>2. s[1 + i] = c + i
          BY <2>1, <4>1 DEF Shape
        <4> QED BY <1>1, <3>1, <4>1, <4>2 DEF Ack
      <3>3. CASE i > n - c
        <4>1. i + 1 > 1 + (n - c)
          BY <3>1, <3>3
        <4>2. s[i + 1] \in {Fin, Rst}
          BY <2>1, <3>1, <4>1 DEF Shape
        <4>3. t[i] = s[i + 1]
          BY <1>1
        <4> QED BY <4>2, <4>3 DEF Ack, Fin, Rst
      <3> QED BY <3>1, <3>2, <3>3
    <2>3. AckLen(t) = 0
      BY <1>2, <2>2 DEF AckLen
    <2>4. \A i \in 1 .. n - c : t[i] = c + i
      <3> TAKE i \in 1 .. n - c
      <3>1. i \in DOMAIN t /\ 1 + i = i + 1
        BY <1>1, <1>a, <2>1
      <3> QED BY <1>1, <2>1, <3>1 DEF Shape
    <2>5. \A i \in DOMAIN t : i > n - c => t[i] \in {Fin, Rst}
      <3> SUFFICES ASSUME NEW i \in DOMAIN t, i > n - c PROVE t[i] \in {Fin, Rst}
        OBVIOUS
      <3>1. i + 1 \in DOMAIN s /\ i + 1 > 1 + (n - c)
        BY <1>1
      <3> QED BY <1>1, <2>1, <3>1 DEF Shape
    <2>6. Shape(t, c, n)
      BY <1>1, <1>a, <2>1, <2>3, <2>4, <2>5 DEF Shape
    <2> QED BY <1>1, <1>3, <2>6 DEF t
  <1>4. CASE s[1] # Ack /\ c < n
    <2>1. AckLen(s) = 0
      BY <1>4 DEF AckLen
    <2>2. s[1] = c + 1
      <3>1. 1 \in 1 .. n - c
        BY <1>4
      <3>2. s[0 + 1] = c + 1
        BY <2>1, <3>1 DEF Shape
      <3> QED BY <3>2
    <2>3. \A i \in 1 .. n - (c + 1) : t[i] = c + 1 + i
      <3> TAKE i \in 1 .. n - (c + 1)
      <3>1. i + 1 \in 1 .. n - c /\ i \in DOMAIN t /\ 0 + (i + 1) = i + 1
        BY <1>1, <1>a, <2>1
      <3>2. s[i + 1] = c + (i + 1)
        BY <2>1, <3>1 DEF Shape
      <3> QED BY <1>1, <3>1, <3>2
    <2>4. \A i \in DOMAIN t : i > n - (c + 1) => t[i] \in {Fin, Rst}
      <3> SUFFICES ASSUME NEW i \in DOMAIN t, i > n - (c + 1) PROVE t[i] \in {Fin, Rst}
        OBVIOUS
      <3>1. i + 1 \in DOMAIN s /\ i + 1 > 0 + (n - c)
        BY <1>1
      <3> QED BY <1>1, <2>1, <3>1 DEF Shape
    <2>5. AckLen(t) = 0
      <3>1. t # <<>> => t[1] # Ack
        <4> SUFFICES ASSUME t # <<>> PROVE t[1] # Ack
          OBVIOUS
        <4>1. 1 \in DOMAIN t
          BY <1>2
        <4>2. CASE 1 > n - (c + 1)
          BY <2>4, <4>1, <4>2 DEF Ack, Fin, Rst
        <4>3. CASE ~(1 > n - (c + 1))
          <5>1. 1 \in 1 .. n - (c + 1)
            BY <4>3
          <5> QED BY <2>3, <5>1 DEF Ack
        <4> QED BY <4>2, <4>3
      <3> QED BY <3>1 DEF AckLen
    <2>6. Shape(t, c + 1, n)
      BY <1>1, <1>a, <2>1, <2>3, <2>4, <2>5 DEF Shape
    <2> QED BY <1>1, <1>4, <2>2, <2>6 DEF t
  <1>5. CASE s[1] # Ack /\ c = n
    <2>1. AckLen(s) = 0
      BY <1>5 DEF AckLen
    <2>2. \A i \in DOMAIN s : s[i] \in {Fin, Rst}
      <3> TAKE i \in DOMAIN s
      <3>1. i > 0 + (n - c)
        BY <1>1, <1>5
      <3> QED BY <2>1, <3>1 DEF Shape
    <2>3. \A i \in DOMAIN t : t[i] \in {Fin, Rst}
      BY <1>1, <2>2
    <2>4. AckLen(t) = 0
      BY <1>2, <2>3 DEF AckLen, Ack, Fin, Rst
    <2>5. Shape(t, c, n)
      BY <1>1, <1>5, <2>3, <2>4 DEF Shape
    <2> QED BY <1>1, <1>5, <2>2, <2>5 DEF t
  <1> QED BY <1>3, <1>4, <1>5

-----------------------------------------------------------------------------
(* Queues.                                                                 *)

\* The length of two sequences in a row.
LEMMA ConcatType ==
    ASSUME NEW S, NEW s \in Seq(S), NEW t \in Seq(S)
    PROVE  s \o t \in Seq(S) /\ Len(s \o t) = Len(s) + Len(t)
  OBVIOUS

\* The two parts of a cut sequence.
LEMMA CutType ==
    ASSUME NEW S, NEW s \in Seq(S), NEW n \in Nat, n <= Len(s)
    PROVE  /\ SubSeq(s, 1, n) \in Seq(S) /\ Len(SubSeq(s, 1, n)) = n
           /\ Leftover(s, n) \in Seq(S)
  <1>1. SubSeq(s, 1, n) \in Seq(S) /\ Len(SubSeq(s, 1, n)) = n
    OBVIOUS
  <1>2. Leftover(s, n) \in Seq(S)
    BY DEF Leftover
  <1> QED BY <1>1, <1>2

\* What a queue holds after an arrival.
LEMMA AppendElems ==
    ASSUME NEW S, NEW s \in Seq(S), NEW e \in S
    PROVE  /\ Append(s, e) \in Seq(S) /\ Len(Append(s, e)) = Len(s) + 1 /\ Append(s, e) # <<>>
           /\ \A i \in DOMAIN Append(s, e) :
                 Append(s, e)[i] = e \/ (i \in DOMAIN s /\ Append(s, e)[i] = s[i])
           /\ s # <<>> => Append(s, e)[1] = s[1]
           /\ s = <<>> => Append(s, e)[1] = e
  OBVIOUS

\* What a queue holds after a departure.
LEMMA TailElems ==
    ASSUME NEW S, NEW s \in Seq(S), s # <<>>
    PROVE  /\ Head(s) \in S /\ Head(s) = s[1] /\ 1 \in DOMAIN s
           /\ Tail(s) \in Seq(S) /\ Len(Tail(s)) = Len(s) - 1
           /\ \A i \in DOMAIN Tail(s) : i + 1 \in DOMAIN s /\ Tail(s)[i] = s[i + 1]
  OBVIOUS

\* All buffers hold numbers.
LEMMA QueueTypes ==
    ASSUME TypeOK, QueueInv
    PROVE  /\ got \in Seq(Nat) /\ tx \in Seq(Nat) /\ download_pending \in Seq(Nat)
           /\ download \in Seq(Seq(Nat)) /\ rchunk \in Seq(Nat) /\ read \in Nat
           /\ Len(got) \in Nat /\ Len(tx) \in Nat /\ Len(download_pending) \in Nat
           /\ Len(rchunk) \in Nat /\ DownAt \in Nat
           /\ written \in Seq(Nat) /\ upload \in Seq(Nat) /\ rx \in Seq(Nat)
           /\ wchunk \in Nat /\ sent \in Nat
           /\ Len(written) \in Nat /\ Len(upload) \in Nat /\ Len(rx) \in Nat
           /\ Held \in {0, 1} /\ UpAt \in Nat
  <1>1. \A n \in Nat : \A s : s \in Seq(1 .. n) => s \in Seq(Nat) /\ Len(s) \in Nat
    OBVIOUS
  <1>2. \A d : d \in Seq(Seq(1 .. MaxUnits)) => d \in Seq(Seq(Nat))
    <2> SUFFICES ASSUME NEW d \in Seq(Seq(1 .. MaxUnits)) PROVE d \in Seq(Seq(Nat))
      OBVIOUS
    <2>1. \A k \in DOMAIN d : d[k] \in Seq(Nat)
      BY SizeAssumption
    <2> QED BY <2>1
  <1>3. MaxUnits \in Nat
    BY SizeAssumption
  <1>4. /\ got \in Seq(1 .. MaxUnits) /\ tx \in Seq(1 .. MaxUnits) /\ rx \in Seq(1 .. MaxUnits)
        /\ written \in Seq(1 .. MaxUnits) /\ upload \in Seq(1 .. MaxUnits)
        /\ wchunk \in Nat /\ sent \in Nat /\ read \in Nat
    BY <1>3 DEF TypeOK
  <1>5. Held \in {0, 1}
    BY DEF Held
  <1>6. /\ Len(got) \in Nat /\ Len(tx) \in Nat /\ Len(download_pending) \in Nat
        /\ Len(rchunk) \in Nat
        /\ Len(written) \in Nat /\ Len(upload) \in Nat /\ Len(rx) \in Nat
    BY <1>1, <1>3, <1>4 DEF QueueInv
  <1>7. DownAt \in Nat /\ UpAt \in Nat
    BY <1>5, <1>6 DEF DownAt, UpAt
  <1> QED BY <1>1, <1>2, <1>3, <1>4, <1>5, <1>6, <1>7 DEF QueueInv

\* What the way down holds when the flow is served.
LEMMA DownTotal ==
    ASSUME TypeOK, QueueInv, DownInv, ~Gone, ~aborted
    PROVE  /\ Len(got) \in Nat /\ Len(tx) \in Nat /\ Len(download_pending) \in Nat
           /\ DownAt \in Nat /\ DownAt <= read
           /\ EndOfStream /\ rchunk = <<>> => Len(got) + Len(tx) = read
  <1>1. /\ Len(got) \in Nat /\ Len(tx) \in Nat /\ Len(download_pending) \in Nat
        /\ DownAt \in Nat /\ Len(rchunk) \in Nat /\ read \in Nat /\ download \in Seq(Seq(Nat))
    BY QueueTypes
  <1>2. /\ Chain(download, DownAt)
        /\ read = EndOf(download, DownAt, Len(download)) + Len(rchunk)
    BY DEF DownInv
  <1>3. Len(download) \in 0 .. Len(download)
    BY <1>1
  <1>4. /\ EndOf(download, DownAt, Len(download)) \in Nat
        /\ EndOf(download, DownAt, Len(download)) >= DownAt
    BY <1>1, <1>2, <1>3, ChainEnd
  <1>5. EndOfStream /\ rchunk = <<>> => Len(got) + Len(tx) = read
    <2> SUFFICES ASSUME EndOfStream, rchunk = <<>> PROVE Len(got) + Len(tx) = read
      OBVIOUS
    <2>1. download = <<>> /\ Len(download_pending) = 0 /\ Len(rchunk) = 0
      BY DEF EndOfStream
    <2>2. EndOf(download, DownAt, Len(download)) = DownAt
      BY <1>1, <2>1, ChainEmpty
    <2> QED BY <1>1, <1>2, <2>1, <2>2 DEF DownAt
  <1> QED BY <1>1, <1>2, <1>4, <1>5

-----------------------------------------------------------------------------
(* Every step keeps the invariant.                                         *)

\* The end of a flow.
LEMMA LoopStep ==
    ASSUME TypeOK, LoopInv, [Next]_vars
    PROVE  LoopInv'
  <1>q. ASSUME UNCHANGED <<pc, sock, aborted, tx, closed, connect_rx, reader, writer, tunnel>>
        PROVE  LoopInv'
    BY <1>q DEF LoopInv, Gone
  <1>1. CASE Ingress
    BY <1>1
    DEF Ingress, Polling, CanIngress, IsData, LoopInv, TypeOK, Gone, appVars, chanVars, flowVars,
        threadVars
  <1>2. CASE EgressData
    BY <1>2
    DEF EgressData, Polling, CanEgressData, LoopInv, TypeOK, Gone, chanVars, flowVars, threadVars
  <1>3. CASE EgressFin
    BY <1>3
    DEF EgressFin, Polling, CanEgressFin, LoopInv, TypeOK, Gone, chanVars, flowVars, threadVars
  <1>4. CASE PollDone
    BY <1>4
    DEF PollDone, Polling, LoopInv, TypeOK, Gone, appVars, chanVars, flowVars, sockVars,
        threadVars
  <1>5. CASE ConnectPending
    BY <1>5
    DEF ConnectPending, LoopInv, TypeOK, Gone, appVars, chanVars, flowVars, sockVars, threadVars
  <1>6. CASE ConnectOk
    BY <1>6
    DEF ConnectOk, LoopInv, TypeOK, Gone, appVars, chanVars, sockVars
  <1>7. CASE ConnectErr
    BY <1>7
    DEF ConnectErr, AbortSock, LoopInv, TypeOK, Gone, appVars, threadVars
  <1>8. CASE UploadDead
    BY <1>8
    DEF UploadDead, AbortSock, LoopInv, TypeOK, Gone, appVars, threadVars
  <1>9. CASE UploadDone
    BY <1>9
    DEF UploadDone, LoopInv, TypeOK, Gone, appVars, chanVars, flowVars, sockVars, threadVars
  <1>10. CASE DownloadPut
    BY <1>10
    DEF DownloadPut, can_send, may_send, LoopInv, TypeOK, Gone, appVars, chanVars, threadVars
  <1>11. CASE DownloadDone
    BY <1>11
    DEF DownloadDone, CloseSock, FinDue, EndOfStream, LoopInv, TypeOK, Gone, appVars, chanVars,
        threadVars
  <1>12. CASE FlowEnds
    BY <1>12
    DEF FlowEnds, Remove, tcp_flow_finished, may_recv, may_send, LoopInv, TypeOK, Gone, appVars,
        flowVars, threadVars
  <1>13. CASE FlowStays
    BY <1>13
    DEF FlowStays, LoopInv, TypeOK, Gone, appVars, chanVars, flowVars, sockVars, threadVars
  <1>14. CASE StackStop
    BY <1>14
    DEF StackStop, Remove, LoopInv, TypeOK, Gone, appVars, threadVars
  <1>15. CASE Dial
    BY <1>15
    DEF Dial, LoopInv, TypeOK, Gone, appVars, chanVars, sockVars, threadVars
  <1>16. CASE ReaderTest
    BY <1>16
    DEF ReaderTest, LoopInv, TypeOK, Gone, appVars, chanVars, flowVars, sockVars
  <1>17. CASE ReaderRead
    BY <1>17
    DEF ReaderRead, LoopInv, TypeOK, Gone, appVars, chanVars, flowVars, sockVars
  <1>18. CASE ReaderEnd
    BY <1>18
    DEF ReaderEnd, LoopInv, TypeOK, Gone, appVars, chanVars, flowVars, sockVars
  <1>19. CASE ReaderSend
    BY <1>19
    DEF ReaderSend, DownloadRoom, LoopInv, TypeOK, Gone, appVars, flowVars, sockVars
  <1>20. CASE WriterTest
    BY <1>20
    DEF WriterTest, LoopInv, TypeOK, Gone, appVars, chanVars, flowVars, sockVars
  <1>21. CASE WriterRecv
    BY <1>21
    DEF WriterRecv, LoopInv, TypeOK, Gone, appVars, flowVars, sockVars
  <1>22. CASE WriterWrite
    BY <1>22
    DEF WriterWrite, LoopInv, TypeOK, Gone, appVars, flowVars, sockVars
  <1>23. CASE WriterFail
    BY <1>23
    DEF WriterFail, LoopInv, TypeOK, Gone, appVars, flowVars, sockVars
  <1>24. CASE TunnelBreaks
    BY <1>24
    DEF TunnelBreaks, LoopInv, TypeOK, Gone, appVars, chanVars, flowVars, sockVars
  <1>25. CASE CloseTunnel
    BY <1>25
    DEF CloseTunnel, LoopInv, TypeOK, Gone, appVars, chanVars, flowVars, sockVars
  <1>26. ASSUME AppSend \/ AppClose \/ AppReset \/ AppRead \/ UploadOne \/ DownloadTake \/ Age
        PROVE  LoopInv'
    BY <1>26, <1>q
    DEF AppSend, AppClose, AppReset, AppRead, UploadOne, DownloadTake, Age, appVars, chanVars,
        flowVars, sockVars, threadVars
  <1>27. CASE UNCHANGED vars
    BY <1>27, <1>q DEF vars, appVars, sockVars, flowVars, chanVars, threadVars
  <1> QED BY <1>1, <1>2, <1>3, <1>4, <1>5, <1>6, <1>7, <1>8, <1>9, <1>10, <1>11, <1>12, <1>13,
             <1>14, <1>15, <1>16, <1>17, <1>18, <1>19, <1>20, <1>21, <1>22, <1>23, <1>24, <1>25,
             <1>26, <1>27
          DEF Next, StackLoop, Reader, Writer

\* What the threads hold.
LEMMA ThreadStep ==
    ASSUME TypeOK, QueueInv, LoopInv, ThreadInv, [Next]_vars
    PROVE  ThreadInv'
  <1>q. ASSUME UNCHANGED <<reader, rchunk, writer, wchunk>>
        PROVE  ThreadInv'
    BY <1>q DEF ThreadInv
  <1>1. CASE ConnectOk
    BY <1>1
    DEF ConnectOk, ThreadInv, TypeOK, LoopInv, appVars, chanVars, sockVars
  <1>2. CASE ReaderTest
    BY <1>2
    DEF ReaderTest, ThreadInv, TypeOK, LoopInv, appVars, chanVars, flowVars, sockVars
  <1>3. CASE ReaderRead
    <2>1. PICK n \in ChunkSizes : rchunk' = [i \in 1 .. n |-> read + i]
      BY <1>3 DEF ReaderRead
    <2>2. rchunk' # <<>>
      BY <2>1, SizeAssumption
    <2> QED BY <1>3, <2>2 DEF ReaderRead, ThreadInv
  <1>4. CASE ReaderEnd
    BY <1>4
    DEF ReaderEnd, ThreadInv, TypeOK, LoopInv, appVars, chanVars, flowVars, sockVars
  <1>5. CASE ReaderSend
    BY <1>5
    DEF ReaderSend, DownloadRoom, ThreadInv, TypeOK, LoopInv, appVars, flowVars, sockVars
  <1>6. CASE WriterTest
    BY <1>6
    DEF WriterTest, ThreadInv, TypeOK, LoopInv, appVars, chanVars, flowVars, sockVars
  <1>7. CASE WriterRecv
    <2>1. upload # <<>> => Head(upload) \in 1 .. MaxUnits
      BY TailElems DEF TypeOK
    <2>2. UNCHANGED <<reader, rchunk>>
      BY <1>7 DEF WriterRecv
    <2>3. \/ writer' = "write" /\ wchunk' \in 1 .. MaxUnits
          \/ writer' \in {"test", "done"} /\ wchunk' = 0
      BY <1>7, <2>1 DEF WriterRecv, ThreadInv
    <2> QED BY <2>2, <2>3 DEF ThreadInv
  <1>8. CASE WriterWrite
    BY <1>8
    DEF WriterWrite, ThreadInv, TypeOK, LoopInv, appVars, flowVars, sockVars
  <1>9. CASE WriterFail
    BY <1>9
    DEF WriterFail, ThreadInv, TypeOK, LoopInv, appVars, flowVars, sockVars
  <1>10. ASSUME AppSend \/ AppClose \/ AppReset \/ AppRead \/ Ingress \/ EgressData
                \/ EgressFin \/ PollDone \/ ConnectPending \/ ConnectErr \/ UploadOne
                \/ UploadDead \/ UploadDone \/ DownloadTake \/ DownloadPut \/ DownloadDone
                \/ FlowEnds \/ FlowStays \/ Age \/ StackStop \/ Dial \/ TunnelBreaks
                \/ CloseTunnel
        PROVE  ThreadInv'
    BY <1>10, <1>q
    DEF AppSend, AppClose, AppReset, AppRead, Ingress, EgressData, EgressFin, PollDone,
        ConnectPending, ConnectErr, UploadOne, UploadDead, UploadDone, DownloadTake, DownloadPut,
        DownloadDone, FlowEnds, Remove, FlowStays, Age, StackStop, Dial, TunnelBreaks, CloseTunnel,
        appVars, chanVars, flowVars, sockVars, threadVars
  <1>11. CASE UNCHANGED vars
    BY <1>11, <1>q DEF vars, appVars, sockVars, flowVars, chanVars, threadVars
  <1> QED BY <1>1, <1>2, <1>3, <1>4, <1>5, <1>6, <1>7, <1>8, <1>9, <1>10, <1>11
          DEF Next, StackLoop, Reader, Writer

\* The count shared by the loop and the writer.
LEMMA PendingStep ==
    ASSUME TypeOK, QueueInv, ThreadInv, PendingExact, [Next]_vars
    PROVE  PendingExact'
  <1>q. ASSUME UNCHANGED <<upload_pending, upload, wchunk>>
        PROVE  PendingExact'
    BY <1>q DEF PendingExact
  <1>1. CASE UploadOne
    <2>1. Len(upload') = Len(upload) + 1
      <3>1. upload \in Seq(1 .. MaxUnits) /\ Head(rx) \in 1 .. MaxUnits
        BY <1>1, TailElems DEF UploadOne, TypeOK
      <3> QED BY <1>1, <3>1, AppendElems DEF UploadOne
    <2>2. Len(upload) \in Nat /\ Capacity \in Nat /\ upload_pending < Capacity
      BY <1>1, SizeAssumption DEF UploadOne, MayUpload, TypeOK
    <2>3. UNCHANGED wchunk /\ upload_pending' = upload_pending + 1
      BY <1>1 DEF UploadOne, threadVars
    <2> QED BY <2>1, <2>2, <2>3 DEF PendingExact, QueueInv
  <1>2. CASE WriterRecv
    <2>1. UNCHANGED upload_pending /\ wchunk = 0 /\ upload_pending = Len(upload)
      BY <1>2 DEF WriterRecv, ThreadInv, PendingExact, QueueInv, TypeOK
    <2>2. CASE upload # <<>> /\ wchunk' = Head(upload) /\ upload' = Tail(upload)
      <3>1. wchunk' \in 1 .. MaxUnits /\ Len(upload') = Len(upload) - 1
        BY <2>2, TailElems DEF TypeOK
      <3> QED BY <2>1, <3>1 DEF PendingExact, QueueInv
    <2>3. CASE UNCHANGED <<wchunk, upload>>
      BY <2>1, <2>3 DEF PendingExact
    <2> QED BY <1>2, <2>2, <2>3 DEF WriterRecv
  <1>3. CASE WriterWrite
    BY <1>3, SizeAssumption
    DEF WriterWrite, PendingExact, TypeOK, ThreadInv, QueueInv, appVars, flowVars, sockVars
  <1>4. ASSUME AppSend \/ AppClose \/ AppReset \/ AppRead \/ Ingress \/ EgressData
               \/ EgressFin \/ PollDone \/ ConnectPending \/ ConnectOk \/ ConnectErr
               \/ UploadDead \/ UploadDone \/ DownloadTake \/ DownloadPut \/ DownloadDone
               \/ FlowEnds \/ FlowStays \/ Age \/ StackStop \/ Dial \/ ReaderTest
               \/ ReaderRead \/ ReaderEnd \/ ReaderSend \/ WriterTest \/ WriterFail
               \/ TunnelBreaks \/ CloseTunnel
        PROVE  PendingExact'
    BY <1>4, <1>q
    DEF AppSend, AppClose, AppReset, AppRead, Ingress, EgressData, EgressFin, PollDone,
        ConnectPending, ConnectOk, ConnectErr, UploadDead, UploadDone, DownloadTake, DownloadPut,
        DownloadDone, FlowEnds, Remove, FlowStays, Age, StackStop, Dial, ReaderTest, ReaderRead,
        ReaderEnd, ReaderSend, WriterTest, WriterFail, TunnelBreaks, CloseTunnel, appVars,
        chanVars, flowVars, sockVars, threadVars
  <1>5. CASE UNCHANGED vars
    BY <1>5, <1>q DEF vars, appVars, sockVars, flowVars, chanVars, threadVars
  <1> QED BY <1>1, <1>2, <1>3, <1>4, <1>5
          DEF Next, StackLoop, Reader, Writer

\* The ends of the two streams.
LEMMA FinStep ==
    ASSUME TypeOK, QueueInv, LoopInv, ThreadInv, FinInv, DownInv, [Next]_vars
    PROVE  FinInv'
  <1>q. ASSUME UNCHANGED <<remote_eof, fin_sent, sock, appFin, appGone, finFirst, gotFin,
                         aborted, reader, download, download_pending, inbound, got, read>>
        PROVE  FinInv'
    BY <1>q DEF FinInv, EndOfStream
  <1>1. CASE AppSend
    <2>1. sent + 1 \in Segments /\ sent + 1 # Fin /\ sent + 1 # Rst
      BY SMTT(30), <1>1, SizeAssumption DEF AppSend, Segments, Fin, Rst, TypeOK
    <2>2. \A i \in DOMAIN inbound' : /\ inbound'[i] = Fin => appFin'
                                     /\ inbound'[i] = Rst => appGone'
      BY <1>1, <2>1, AppendElems DEF AppSend, QueueInv, FinInv
    <2> QED BY <1>1, <2>2 DEF AppSend, FinInv, EndOfStream, TypeOK, sockVars, flowVars, chanVars,
        threadVars
  <1>2. CASE AppClose
    <2>1. Fin \in Segments /\ Fin # Rst
      BY <1>2 DEF AppClose, Segments, Fin, Rst, TypeOK
    <2>2. \A i \in DOMAIN inbound' : /\ inbound'[i] = Fin => appFin'
                                     /\ inbound'[i] = Rst => appGone'
      BY <1>2, <2>1, AppendElems DEF AppClose, QueueInv, FinInv
    <2> QED BY <1>2, <2>2 DEF AppClose, FinInv, EndOfStream, TypeOK, sockVars, flowVars, chanVars,
        threadVars
  <1>3. CASE AppReset
    <2>1. Rst \in Segments /\ Fin # Rst
      BY <1>3 DEF AppReset, Segments, Fin, Rst, TypeOK
    <2>2. \A i \in DOMAIN inbound' : /\ inbound'[i] = Fin => appFin'
                                     /\ inbound'[i] = Rst => appGone'
      BY <1>3, <2>1, AppendElems DEF AppReset, QueueInv, FinInv
    <2> QED BY <1>3, <2>2 DEF AppReset, FinInv, EndOfStream, TypeOK, sockVars, flowVars, chanVars,
        threadVars
  <1>4. CASE Ingress
    <2> DEFINE seg == Head(inbound)
    <2>1. (seg = Fin => appFin) /\ (seg = Rst => appGone)
      BY <1>4, TailElems DEF Ingress, CanIngress, QueueInv, FinInv
    <2>2. UNCHANGED <<appVars, pc, flowVars, chanVars, threadVars>> /\ ~aborted
      BY <1>4 DEF Ingress, Polling, LoopInv
    <2>3. /\ sock' = CASE seg = Ack /\ sock = "SynReceived" -> "Established"
                       [] seg = Fin /\ sock = "Established" -> "CloseWait"
                       [] seg = Fin /\ sock = "FinWait1" -> "Closing"
                       [] seg = Fin /\ sock = "FinWait2" -> "TimeWait"
                       [] seg = Rst -> "Closed"
                       [] OTHER -> sock
      BY <1>4 DEF Ingress
    <2> HIDE DEF seg
    <2>4. \/ UNCHANGED sock
          \/ sock = "SynReceived" /\ sock' = "Established"
          \/ seg = Fin /\ sock = "Established" /\ sock' = "CloseWait"
          \/ seg = Fin /\ sock = "FinWait1" /\ sock' = "Closing"
          \/ seg = Fin /\ sock = "FinWait2" /\ sock' = "TimeWait"
          \/ seg = Rst /\ sock' = "Closed"
      BY <2>3 DEF Ack, Fin, Rst
    <2>5. /\ UNCHANGED <<appFin, appGone, finFirst, gotFin, got, remote_eof, fin_sent, aborted,
                     reader,
                        download, download_pending, read>>
      BY <2>2 DEF appVars, flowVars, chanVars, threadVars
    <2>6. fin_sent => sock' \notin {"SynReceived", "Established", "CloseWait"}
      BY <2>4 DEF FinInv
    <2>7. sock' \in {"FinWait1", "FinWait2", "Closing", "LastAck", "TimeWait"} => fin_sent
      BY <2>4 DEF FinInv
    <2>8. sock' \in {"CloseWait", "Closing", "LastAck", "TimeWait"} => appFin
      BY <2>1, <2>4 DEF FinInv
    <2>9. sock' = "Closed" => appGone \/ (gotFin /\ appFin)
      BY <2>1, <2>2, <2>4 DEF FinInv
    <2>10. /\ (remote_eof => EndOfStream)' /\ (fin_sent => remote_eof)'
           /\ (appFin => finFirst \/ gotFin)'
           /\ (gotFin => reader = "done" /\ Len(got) = read)'
      BY <2>5 DEF FinInv, EndOfStream
    <2>11. \A i \in DOMAIN inbound' : /\ inbound'[i] = Fin => appFin'
                                      /\ inbound'[i] = Rst => appGone'
      <3>1. appFin' = appFin /\ appGone' = appGone
        BY <2>5
      <3>2. \A i \in DOMAIN inbound' : i + 1 \in DOMAIN inbound /\ inbound'[i] = inbound[i + 1]
        BY <1>4, TailElems DEF Ingress, CanIngress, QueueInv
      <3> QED BY <3>1, <3>2 DEF FinInv
    <2> HIDE DEF EndOfStream
    <2>12. /\ (fin_sent => remote_eof /\ sock \notin {"SynReceived", "Established", "CloseWait"})'
           /\ (sock \in {"FinWait1", "FinWait2", "Closing", "LastAck", "TimeWait"} => fin_sent)'
           /\ (sock \in {"CloseWait", "Closing", "LastAck", "TimeWait"} => appFin)'
           /\ (sock = "Closed" /\ ~aborted => appGone \/ (gotFin /\ appFin))'
      BY <2>5, <2>6, <2>7, <2>8, <2>9, <2>10
    <2> QED BY <2>10, <2>11, <2>12 DEF FinInv
  <1>5. CASE EgressData
    <2>1. /\ ~Gone /\ ~aborted /\ tx # <<>>
          /\ UNCHANGED <<sock, appFin, appGone, finFirst, gotFin, inbound, flowVars, chanVars,
                         threadVars>>
      BY <1>5 DEF EgressData, Polling, CanEgressData, LoopInv
    <2>2. Len(got) < read
      <3>1. Len(tx) # 0 /\ read \in Nat
        BY <2>1, SizeAssumption DEF TypeOK
      <3> QED BY <2>1, <3>1, DownTotal DEF DownAt
    <2>3. ~gotFin
      BY <2>2, SizeAssumption DEF FinInv, TypeOK
    <2> QED BY <2>1, <2>3 DEF FinInv, EndOfStream, flowVars, chanVars, threadVars
  <1>6. CASE EgressFin
    <2>1. /\ ~Gone /\ ~aborted /\ tx = <<>> /\ sock \in {"FinWait1", "Closing", "LastAck"} /\ gotFin'
          /\ UNCHANGED <<appFin, appGone, finFirst, got, inbound, flowVars, chanVars, threadVars>>
      BY <1>6 DEF EgressFin, Polling, CanEgressFin, LoopInv
    <2>2. \/ sock = "FinWait1" /\ sock' = "FinWait2"
          \/ sock = "Closing" /\ sock' = "TimeWait"
          \/ sock = "LastAck" /\ sock' = "Closed"
      BY <1>6, <2>1 DEF EgressFin
    <2>3. EndOfStream /\ rchunk = <<>> /\ reader = "done"
      BY <2>1 DEF FinInv, ThreadInv, EndOfStream
    <2>4. Len(got) = read
      <3>1. Len(got) + Len(tx) = read /\ Len(got) \in Nat
        BY <2>1, <2>3, DownTotal
      <3>2. Len(tx) = 0
        BY <2>1
      <3> QED BY <3>1, <3>2
    <2> QED BY <2>1, <2>2, <2>3, <2>4 DEF FinInv, EndOfStream, flowVars, chanVars, threadVars
  <1>7. CASE ConnectOk
    BY <1>7
    DEF ConnectOk, FinInv, LoopInv, TypeOK, EndOfStream, appVars, chanVars, sockVars
  <1>8. CASE ConnectErr
    BY <1>8
    DEF ConnectErr, AbortSock, FinInv, LoopInv, TypeOK, EndOfStream, appVars, threadVars
  <1>9. CASE UploadDead
    BY <1>9
    DEF UploadDead, AbortSock, FinInv, LoopInv, TypeOK, EndOfStream, appVars, threadVars
  <1>10. CASE DownloadTake
    BY <1>10
    DEF DownloadTake, FinInv, LoopInv, TypeOK, EndOfStream, appVars, sockVars, threadVars
  <1>11. CASE DownloadPut
    BY <1>11
    DEF DownloadPut, can_send, may_send, FinInv, LoopInv, TypeOK, EndOfStream, appVars, chanVars,
        threadVars
  <1>12. CASE DownloadDone
    BY <1>12
    DEF DownloadDone, CloseSock, FinDue, EndOfStream, FinInv, LoopInv, TypeOK, EndOfStream,
        appVars, chanVars, threadVars
  <1>13. CASE FlowEnds
    BY <1>13
    DEF FlowEnds, Remove, tcp_flow_finished, may_recv, may_send, FinInv, LoopInv, TypeOK, EndOfStream,
        appVars, flowVars, threadVars
  <1>14. CASE StackStop
    BY <1>14
    DEF StackStop, Remove, FinInv, LoopInv, TypeOK, EndOfStream, appVars, threadVars
  <1>15. CASE ReaderTest
    BY <1>15
    DEF ReaderTest, FinInv, LoopInv, TypeOK, EndOfStream, appVars, chanVars, flowVars, sockVars
  <1>16. CASE ReaderRead
    BY <1>16
    DEF ReaderRead, FinInv, LoopInv, TypeOK, EndOfStream, appVars, chanVars, flowVars, sockVars
  <1>17. CASE ReaderEnd
    BY <1>17
    DEF ReaderEnd, FinInv, LoopInv, TypeOK, EndOfStream, appVars, chanVars, flowVars, sockVars
  <1>18. CASE ReaderSend
    BY <1>18
    DEF ReaderSend, DownloadRoom, FinInv, LoopInv, TypeOK, EndOfStream, appVars, flowVars,
        sockVars
  <1>19. ASSUME AppRead \/ PollDone \/ ConnectPending \/ UploadOne \/ UploadDone \/ FlowStays
                \/ Age \/ Dial \/ WriterTest \/ WriterRecv \/ WriterWrite \/ WriterFail
                \/ TunnelBreaks \/ CloseTunnel
        PROVE  FinInv'
    BY <1>19, <1>q
    DEF AppRead, PollDone, ConnectPending, UploadOne, UploadDone, FlowStays, Age, Dial,
        WriterTest, WriterRecv, WriterWrite, WriterFail, TunnelBreaks, CloseTunnel, appVars,
        chanVars, flowVars, sockVars, threadVars
  <1>20. CASE UNCHANGED vars
    BY <1>20, <1>q DEF vars, appVars, sockVars, flowVars, chanVars, threadVars
  <1> QED BY <1>1, <1>2, <1>3, <1>4, <1>5, <1>6, <1>7, <1>8, <1>9, <1>10, <1>11, <1>12, <1>13,
             <1>14, <1>15, <1>16, <1>17, <1>18, <1>19, <1>20
          DEF Next, StackLoop, Reader, Writer

\* The way down.
LEMMA DownStep ==
    ASSUME TypeOK, QueueInv, LoopInv, ThreadInv, DownInv, [Next]_vars
    PROVE  DownInv'
  <1>t. /\ got \in Seq(Nat) /\ tx \in Seq(Nat) /\ download_pending \in Seq(Nat)
        /\ download \in Seq(Seq(Nat)) /\ rchunk \in Seq(Nat) /\ read \in Nat
        /\ Len(got) \in Nat /\ Len(tx) \in Nat /\ Len(download_pending) \in Nat
        /\ Len(rchunk) \in Nat /\ DownAt \in Nat
    BY QueueTypes
  <1>q. ASSUME UNCHANGED <<got, tx, download_pending, download, rchunk, read>>,
               ~Gone' => ~Gone, ~aborted' => ~aborted
        PROVE  DownInv'
    <2>1. DownAt' = DownAt
      BY <1>q DEF DownAt
    <2> HIDE DEF Gone
    <2> QED BY <1>q, <2>1 DEF DownInv
  <1>g. ASSUME UNCHANGED <<got, read>>, Gone' \/ aborted' PROVE DownInv'
    <2> HIDE DEF Gone
    <2> QED BY <1>g DEF DownInv
  <1>1. CASE EgressData
    <2>1. /\ ~Gone /\ ~aborted /\ tx # <<>> /\ got' = Append(got, Head(tx)) /\ tx' = Tail(tx)
          /\ UNCHANGED <<download_pending, download, rchunk, read, sock, aborted>>
      BY <1>1 DEF EgressData, Polling, CanEgressData, LoopInv, flowVars, chanVars, threadVars
    <2>2. /\ IsRun(tx, Len(got)) /\ IsRun(got, 0)
          /\ IsRun(download_pending, Len(got) + Len(tx))
      BY <2>1 DEF DownInv
    <2>3. /\ Head(tx) = Len(got) + 1 /\ IsRun(tx', Len(got) + 1) /\ Len(tx') = Len(tx) - 1
          /\ Len(tx) >= 1
      BY <1>t, <2>1, <2>2, RunFront
    <2>4. IsRun(got', 0) /\ Len(got') = Len(got) + 1
      BY <1>t, <2>1, <2>2, <2>3, RunAppend
    <2>5. DownAt' = DownAt /\ Len(got') + Len(tx') = Len(got) + Len(tx)
      BY <1>t, <2>1, <2>3, <2>4 DEF DownAt
    <2>6. Len(got') <= read
      BY <1>t, <2>1, <2>3, <2>4, DownTotal DEF DownAt
    <2>7. Gone' = Gone
      BY <2>1 DEF Gone
    <2> HIDE DEF Gone
    <2> QED BY <2>1, <2>2, <2>3, <2>4, <2>5, <2>6, <2>7 DEF DownInv
  <1>2. CASE DownloadTake
    <2>1. /\ download # <<>> /\ download_pending = <<>>
          /\ download_pending' = Head(download) /\ download' = Tail(download)
          /\ UNCHANGED <<got, tx, rchunk, read, sock, aborted, pc>>
      BY <1>2 DEF DownloadTake, appVars, sockVars, threadVars
    <2>2. CASE Gone \/ aborted
      BY <1>g, <2>1, <2>2 DEF Gone
    <2>3. CASE ~Gone /\ ~aborted
      <3>1. DownAt = Len(got) + Len(tx) /\ Chain(download, DownAt)
        BY <1>t, <2>1, <2>3 DEF DownAt, DownInv
      <3>2. DownAt' = DownAt + Len(Head(download))
        BY <2>1, <3>1 DEF DownAt
      <3>3. /\ IsRun(Head(download), DownAt)
            /\ Chain(download', DownAt')
            /\ EndOf(download', DownAt', Len(download')) = EndOf(download, DownAt, Len(download))
        BY <1>t, <2>1, <3>1, <3>2, ChainFront
      <3> QED BY <2>1, <2>3, <3>1, <3>3 DEF DownInv
    <2> QED BY <2>2, <2>3
  <1>3. CASE DownloadPut
    <2>1. CASE Gone \/ aborted
      BY <1>3, <1>g, <2>1 DEF DownloadPut, Gone, appVars, threadVars
    <2>2. CASE ~Gone /\ ~aborted
      <3> DEFINE free == TxSize - Len(tx)
                 n == IF Len(download_pending) < free THEN Len(download_pending) ELSE free
      <3>1. n \in Nat /\ n <= Len(download_pending)
        BY <1>t, SizeAssumption DEF TypeOK
      <3>2. /\ tx' = tx \o SubSeq(download_pending, 1, n)
            /\ download_pending' = Leftover(download_pending, n)
            /\ UNCHANGED <<got, download, rchunk, read, sock, aborted>>
        BY <1>3 DEF DownloadPut, appVars, chanVars, threadVars
      <3> HIDE DEF n, free
      <3> DEFINE now == SubSeq(download_pending, 1, n)
      <3>3. IsRun(tx, Len(got)) /\ IsRun(download_pending, Len(got) + Len(tx))
        BY <2>2 DEF DownInv
      <3>4. /\ now \in Seq(Nat) /\ Len(now) = n /\ IsRun(now, Len(got) + Len(tx))
            /\ Len(download_pending') = Len(download_pending) - n
            /\ IsRun(download_pending', Len(got) + Len(tx) + n)
        BY <1>t, <3>1, <3>2, <3>3, RunCut
      <3> HIDE DEF now
      <3>5. tx' = tx \o now
        BY <3>2 DEF now
      <3>6. Len(tx') = Len(tx) + n /\ IsRun(tx', Len(got))
        BY <1>t, <3>3, <3>4, <3>5, RunConcat
      <3>7. DownAt' = DownAt /\ Len(got) + Len(tx') = Len(got) + Len(tx) + n
        <4>1. Len(got') = Len(got)
          BY <3>2
        <4> QED BY <1>t, <3>1, <3>4, <3>6, <4>1 DEF DownAt
      <3> QED BY <2>2, <3>2, <3>4, <3>6, <3>7 DEF DownInv, Gone
    <2> QED BY <2>1, <2>2
  <1>4. CASE ReaderRead
    <2>1. PICK n \in ChunkSizes : /\ rchunk' = [i \in 1 .. n |-> read + i] /\ read' = read + n
      BY <1>4 DEF ReaderRead
    <2>2. /\ rchunk = <<>> /\ UNCHANGED <<got, tx, download, download_pending, sock, aborted>>
      BY <1>4 DEF ReaderRead, ThreadInv, appVars, sockVars, flowVars, chanVars
    <2>3. n \in Nat /\ Len(rchunk') = n /\ IsRun(rchunk', read) /\ Len(rchunk) = 0
      BY <1>t, <2>1, <2>2, SizeAssumption DEF IsRun
    <2>4. Len(got) <= read'
      BY <1>t, <2>1, <2>3 DEF DownInv
    <2>5. DownAt' = DownAt /\ Gone' = Gone
      BY <2>2 DEF DownAt, Gone
    <2>6. CASE Gone \/ aborted
      BY <2>2, <2>4, <2>5, <2>6 DEF DownInv
    <2>7. CASE ~Gone /\ ~aborted
      <3> DEFINE end == EndOf(download, DownAt, Len(download))
      <3>1. /\ read = end + Len(rchunk) /\ Chain(download, DownAt)
        BY <2>7 DEF DownInv
      <3>2. end \in Nat
        <4>1. Len(download) \in 0 .. Len(download)
          BY <1>t
        <4> QED BY <1>t, <3>1, <4>1, ChainEnd
      <3> HIDE DEF end
      <3>3. read = end /\ read' = end + Len(rchunk')
        BY <1>t, <2>1, <2>3, <3>1, <3>2
      <3> HIDE DEF Gone
      <3> QED BY <2>2, <2>3, <2>4, <2>5, <2>7, <3>3 DEF DownInv, end
    <2> QED BY <2>6, <2>7
  <1>5. CASE ReaderSend
    <2>1. /\ rchunk # <<>> /\ rchunk' = <<>>
          /\ UNCHANGED <<got, tx, download_pending, read, sock, aborted>>
      BY <1>5 DEF ReaderSend, ThreadInv, appVars, sockVars, flowVars
    <2>2. CASE Gone \/ aborted
      BY <1>g, <2>1, <2>2 DEF Gone
    <2>3. CASE ~Gone /\ ~aborted
      <3> DEFINE end == EndOf(download, DownAt, Len(download))
      <3>1. /\ download' = Append(download, rchunk) /\ DownAt' = DownAt
        BY <1>5, <2>1, <2>3 DEF ReaderSend, DownAt
      <3>2. Chain(download, DownAt) /\ IsRun(rchunk, end) /\ read = end + Len(rchunk)
        BY <2>3 DEF DownInv
      <3>3. Chain(download', DownAt) /\ EndOf(download', DownAt, Len(download')) = end + Len(rchunk)
        BY <1>t, <2>1, <3>1, <3>2, ChainAppend
      <3>4. IsRun(rchunk', read) /\ Len(rchunk') = 0
        BY <1>t, <2>1 DEF IsRun
      <3> HIDE DEF end
      <3>5. read = EndOf(download', DownAt, Len(download')) + Len(rchunk')
        BY <1>t, <3>2, <3>3, <3>4
      <3>6. EndOf(download', DownAt, Len(download')) = read
        BY <3>2, <3>3
      <3> QED BY <2>1, <2>3, <3>1, <3>3, <3>4, <3>5, <3>6 DEF DownInv, Gone
    <2> QED BY <2>2, <2>3
  <1>6. ASSUME ConnectErr \/ UploadDead \/ FlowEnds \/ StackStop PROVE DownInv'
    <2>1. UNCHANGED <<got, read>>
      BY <1>6 DEF ConnectErr, UploadDead, FlowEnds, StackStop, Remove, appVars, threadVars
    <2>2. Gone' \/ aborted'
      BY <1>6 DEF ConnectErr, UploadDead, FlowEnds, StackStop, Remove, AbortSock, Gone
    <2> QED BY <1>g, <2>1, <2>2
  <1>7. ASSUME Ingress \/ EgressFin \/ DownloadDone PROVE DownInv'
    <2>1. UNCHANGED <<got, tx, download_pending, download, rchunk, read, aborted>>
      BY <1>7 DEF Ingress, EgressFin, DownloadDone, appVars, flowVars, chanVars, threadVars
    <2>2. ~Gone
      BY <1>7 DEF Ingress, EgressFin, DownloadDone, Polling, LoopInv
    <2> QED BY <1>q, <2>1, <2>2
  <1>8. ASSUME AppSend \/ AppClose \/ AppReset \/ AppRead \/ PollDone \/ ConnectPending \/ ConnectOk
               \/ UploadOne \/ UploadDone \/ FlowStays \/ Age \/ Dial \/ ReaderTest \/ ReaderEnd
               \/ WriterTest \/ WriterRecv \/ WriterWrite \/ WriterFail \/ TunnelBreaks \/ CloseTunnel
        PROVE  DownInv'
    <2>1. UNCHANGED <<got, tx, download_pending, download, rchunk, read, sock, aborted>>
      BY <1>8 DEF AppSend, AppClose, AppReset, AppRead, PollDone, ConnectPending, ConnectOk,
        UploadOne, UploadDone, FlowStays, Age, Dial, ReaderTest, ReaderEnd, WriterTest, WriterRecv,
        WriterWrite, WriterFail, TunnelBreaks, CloseTunnel, appVars, sockVars, flowVars, chanVars,
        threadVars
    <2> QED BY <1>q, <2>1 DEF Gone
  <1>9. CASE UNCHANGED vars
    BY <1>9, <1>q DEF vars, Gone, appVars, sockVars, flowVars, chanVars, threadVars
  <1> QED BY <1>1, <1>2, <1>3, <1>4, <1>5, <1>6, <1>7, <1>8, <1>9
          DEF Next, StackLoop, Reader, Writer

\* The way up.
LEMMA UpStep ==
    ASSUME TypeOK, QueueInv, LoopInv, ThreadInv, FinInv, UpInv, [Next]_vars
    PROVE  UpInv'
  <1>t. /\ written \in Seq(Nat) /\ upload \in Seq(Nat) /\ rx \in Seq(Nat)
        /\ wchunk \in Nat /\ sent \in Nat
        /\ Len(written) \in Nat /\ Len(upload) \in Nat /\ Len(rx) \in Nat
        /\ Held \in {0, 1} /\ UpAt \in Nat /\ inbound \in Seq(Segments)
    BY QueueTypes DEF QueueInv
  <1> DEFINE served == sock \in Open \cup {"SynReceived"}
             At == UpAt + Len(rx)
  <1>q. ASSUME UNCHANGED <<written, wchunk, upload, rx, inbound, sent>>,
               ~Gone' => ~Gone, ~aborted' => ~aborted, appGone => appGone',
               served => served', sock' = "SynReceived" => sock = "SynReceived"
        PROVE  UpInv'
    <2>1. Held' = Held /\ UpAt' = UpAt /\ Len(rx') = Len(rx) /\ Len(written') = Len(written)
      BY <1>q DEF Held, UpAt
    <2>2. CASE Gone' \/ aborted'
      <3> HIDE DEF Gone
      <3> QED BY <1>q, <2>1, <2>2 DEF UpInv
    <2>3. CASE ~Gone' /\ ~aborted'
      <3>1. ~Gone /\ ~aborted
        BY <1>q, <2>3
      <3> HIDE DEF Gone
      <3> QED BY <1>q, <2>1, <3>1 DEF UpInv
    <2> QED BY <2>2, <2>3
  <1>g. ASSUME UNCHANGED <<written, wchunk, upload>>, sent' \in Nat, sent <= sent', Gone' \/ aborted'
        PROVE  UpInv'
    <2>1. Held' = Held /\ UpAt' = UpAt /\ Len(written') = Len(written)
      BY <1>g DEF Held, UpAt
    <2>2. UpAt <= sent'
      BY <1>g, <1>t DEF UpInv
    <2> HIDE DEF Gone
    <2> QED BY <1>g, <2>1, <2>2 DEF UpInv
  <1>1. CASE AppSend
    <2>1. /\ ~Gone /\ ~appFin /\ ~appGone /\ sent' = sent + 1 /\ inbound' = Append(inbound, sent + 1)
          /\ sent + 1 \in Segments
          /\ UNCHANGED <<written, wchunk, upload, rx, sock, aborted, appGone>>
      BY <1>1, <1>t, SizeAssumption
      DEF AppSend, Segments, TypeOK, sockVars, flowVars, chanVars, threadVars
    <2>2. CASE aborted
      BY <1>g, <1>t, <2>1, <2>2
    <2>3. CASE ~aborted
      <3>1. /\ IsRun(rx, UpAt) /\ At <= sent /\ Shape(inbound, At, sent)
            /\ sock = "SynReceived" => inbound # <<>> /\ inbound[1] = Ack
        BY <2>1, <2>3 DEF UpInv
      <3>2. \A i \in DOMAIN inbound : inbound[i] \notin {Fin, Rst}
        BY <2>1 DEF FinInv
      <3>3. At \in Nat /\ At <= sent'
        BY <1>t, <2>1, <3>1
      <3>4. Shape(inbound', At, sent')
        BY <1>t, <2>1, <3>1, <3>2, <3>3, ShapeData
      <3>5. served
        BY <2>1, <2>3 DEF FinInv, TypeOK, Open, Gone
      <3>6. sock = "SynReceived" => inbound' # <<>> /\ inbound'[1] = Ack
        <4>1. LET t == Append(inbound, sent + 1) IN t # <<>> /\ (inbound # <<>> => t[1] = inbound[1])
          BY <1>t, <2>1, AppendElems
        <4> QED BY <2>1, <3>1, <4>1
      <3>7. UpAt' = UpAt /\ Held' = Held
        BY <2>1 DEF UpAt, Held
      <3>8. UpAt <= sent'
        BY <1>t, <2>1, <3>3
      <3>9. /\ IsRun(written, 0) /\ (wchunk # 0 => wchunk = Len(written) + 1)
            /\ IsRun(upload, Len(written) + Held)
        BY DEF UpInv
      <3> QED BY <2>1, <2>3, <3>1, <3>3, <3>4, <3>5, <3>6, <3>7, <3>8, <3>9 DEF UpInv, Gone
    <2> QED BY <2>2, <2>3
  <1>2. ASSUME AppClose \/ AppReset PROVE UpInv'
    <2>1. PICK m \in {Fin, Rst} : inbound' = Append(inbound, m)
      BY <1>2 DEF AppClose, AppReset
    <2>2. UNCHANGED <<written, wchunk, upload, rx, sock, aborted, sent>> /\ (appGone => appGone')
      BY <1>2 DEF AppClose, AppReset, sockVars, flowVars, chanVars, threadVars
    <2>3. CASE Gone \/ aborted
      BY <1>g, <1>t, <2>2, <2>3 DEF Gone
    <2>4. CASE ~Gone /\ ~aborted
      <3>1. /\ IsRun(rx, UpAt) /\ At <= sent /\ Shape(inbound, At, sent) /\ (At < sent => served)
            /\ sock = "SynReceived" => IF inbound = <<>> THEN appGone ELSE inbound[1] = Ack
        BY <2>4 DEF UpInv
      <3>2. At \in Nat
        BY <1>t
      <3>3. Shape(inbound', At, sent)
        BY <1>t, <2>1, <3>1, <3>2, ShapeMark
      <3>4. sock = "SynReceived" => inbound' # <<>> /\ inbound'[1] = Ack
        <4>1. sock = "SynReceived" => inbound # <<>> /\ inbound[1] = Ack
          <5>1. AppClose => ~appGone
            BY DEF AppClose
          <5>2. AppReset => ~appGone
            BY DEF AppReset
          <5> QED BY <1>2, <3>1, <5>1, <5>2
        <4>2. m \in Segments
          BY <2>1 DEF Segments
        <4>3. LET t == Append(inbound, m) IN t # <<>> /\ (inbound # <<>> => t[1] = inbound[1])
          BY <1>t, <4>2, AppendElems
        <4> QED BY <2>1, <4>1, <4>3
      <3>7. UpAt' = UpAt /\ Held' = Held
        BY <2>2 DEF UpAt, Held
      <3>9. /\ IsRun(written, 0) /\ (wchunk # 0 => wchunk = Len(written) + 1) /\ UpAt <= sent
            /\ IsRun(upload, Len(written) + Held)
        BY DEF UpInv
      <3> QED BY <2>2, <2>4, <3>1, <3>3, <3>4, <3>7, <3>9 DEF UpInv, Gone
    <2> QED BY <2>3, <2>4
  <1>3. CASE Ingress
    <2> DEFINE seg == Head(inbound)
    <2>1. /\ ~Gone /\ ~aborted /\ inbound # <<>> /\ inbound' = Tail(inbound)
          /\ UNCHANGED <<written, wchunk, upload, sent, aborted, appGone>>
          /\ rx' = IF seg > 0 /\ sock \in Open THEN Append(rx, seg) ELSE rx
      BY <1>3 DEF Ingress, CanIngress, Polling, LoopInv, IsData, appVars, flowVars, chanVars,
          threadVars
    <2>2. sock' = CASE seg = Ack /\ sock = "SynReceived" -> "Established"
                    [] seg = Fin /\ sock = "Established" -> "CloseWait"
                    [] seg = Fin /\ sock = "FinWait1" -> "Closing"
                    [] seg = Fin /\ sock = "FinWait2" -> "TimeWait"
                    [] seg = Rst -> "Closed"
                    [] OTHER -> sock
      BY <1>3 DEF Ingress
    <2>3. /\ IsRun(rx, UpAt) /\ At <= sent /\ Shape(inbound, At, sent) /\ (At < sent => served)
          /\ sock = "SynReceived" => seg = Ack
      <3>1. seg = inbound[1]
        BY <1>t, <2>1, TailElems
      <3> QED BY <2>1, <3>1 DEF UpInv
    <2>4. At \in Nat
      BY <1>t
    <2>7. UpAt' = UpAt /\ Held' = Held
      BY <2>1 DEF UpAt, Held
    <2>9. /\ IsRun(written, 0) /\ (wchunk # 0 => wchunk = Len(written) + 1) /\ UpAt <= sent
          /\ IsRun(upload, Len(written) + Held)
      BY DEF UpInv
    <2>e. seg \in Segments
      BY <1>t, <2>1, TailElems
    <2> HIDE DEF seg, Gone
    <2>s. sock' # "SynReceived"
      BY <2>2, <2>3 DEF Ack, Fin, Rst
    <2>5. CASE seg = Ack /\ Shape(inbound', At, sent)
      <3>1. rx' = rx /\ (served => served')
        BY <2>1, <2>2, <2>5 DEF Ack, Fin, Rst, Open
      <3>2. At' = At
        BY <2>7, <3>1
      <3> QED BY <2>1, <2>3, <2>5, <2>7, <2>9, <2>s, <3>1, <3>2 DEF UpInv
    <2>6. CASE seg = At + 1 /\ At < sent /\ Shape(inbound', At + 1, sent)
      <3>1. seg > 0 /\ seg \notin {Ack, Fin, Rst} /\ seg \in Nat
        BY <2>4, <2>6 DEF Ack, Fin, Rst
      <3>2. sock' = sock /\ served
        BY <2>2, <2>3, <2>6, <3>1
      <3>3. sock \in Open
        BY <2>3, <3>1, <3>2
      <3>4. rx' = Append(rx, seg)
        BY <2>1, <3>1, <3>3
      <3>5. Len(rx') = Len(rx) + 1 /\ IsRun(rx', UpAt)
        BY <1>t, <2>3, <2>6, <3>1, <3>4, RunAppend
      <3>6. At' = At + 1 /\ At' <= sent
        BY <1>t, <2>4, <2>6, <2>7, <3>5
      <3> QED BY <2>1, <2>6, <2>7, <2>9, <2>s, <3>2, <3>5, <3>6 DEF UpInv
    <2>8. CASE seg \in {Fin, Rst} /\ At = sent /\ Shape(inbound', At, sent)
      <3>1. rx' = rx
        BY <2>1, <2>8 DEF Fin, Rst
      <3>2. At' = At
        BY <2>7, <3>1
      <3>3. ~(At < sent)
        BY <1>t, <2>8
      <3> QED BY <2>1, <2>3, <2>7, <2>8, <2>9, <2>s, <3>1, <3>2, <3>3 DEF UpInv
    <2> QED BY <1>t, <2>1, <2>3, <2>4, <2>5, <2>6, <2>8, ShapeFront DEF seg
  <1>4. CASE UploadOne
    <2>1. /\ ~aborted /\ ~Gone /\ rx # <<>> /\ rx' = Tail(rx) /\ upload' = Append(upload, Head(rx))
          /\ UNCHANGED <<written, wchunk, sent, aborted, appGone, sock, inbound>>
      BY <1>4 DEF UploadOne, LoopInv, appVars, flowVars, threadVars
    <2>2. /\ IsRun(rx, UpAt) /\ At <= sent /\ Shape(inbound, At, sent) /\ (At < sent => served)
          /\ sock = "SynReceived" => IF inbound = <<>> THEN appGone ELSE inbound[1] = Ack
      BY <2>1 DEF UpInv
    <2>3. /\ Head(rx) = UpAt + 1 /\ IsRun(rx', UpAt + 1) /\ Len(rx') = Len(rx) - 1 /\ Len(rx) >= 1
      BY <1>t, <2>1, <2>2, RunFront
    <2>4. /\ IsRun(written, 0) /\ (wchunk # 0 => wchunk = Len(written) + 1)
          /\ IsRun(upload, Len(written) + Held)
      BY DEF UpInv
    <2>5. Len(upload') = Len(upload) + 1 /\ IsRun(upload', Len(written) + Held)
      <3>1. Len(written) + Held \in Nat /\ Head(rx) = (Len(written) + Held) + Len(upload) + 1
        BY <1>t, <2>3 DEF UpAt
      <3> QED BY <1>t, <2>1, <2>3, <2>4, <3>1, RunAppend
    <2>6. Held' = Held /\ UpAt' = UpAt + 1
      <3>1. Held' = Held /\ Len(written') = Len(written)
        BY <2>1 DEF Held
      <3> QED BY <1>t, <2>5, <3>1 DEF UpAt
    <2>7. At' = At /\ UpAt' <= sent
      BY <1>t, <2>2, <2>3, <2>6
    <2> QED BY <2>1, <2>2, <2>3, <2>4, <2>5, <2>6, <2>7 DEF UpInv, Gone
  <1>5. CASE WriterRecv
    <2>1. UNCHANGED <<written, sent, aborted, appGone, sock, inbound, rx, pc>> /\ wchunk = 0
      BY <1>5 DEF WriterRecv, ThreadInv, appVars, sockVars, flowVars
    <2>2. CASE UNCHANGED <<wchunk, upload>>
      BY <1>q, <2>1, <2>2 DEF Gone
    <2>3. CASE upload # <<>> /\ wchunk' = Head(upload) /\ upload' = Tail(upload)
      <3>1. Held = 0 /\ IsRun(upload, Len(written))
        BY <1>t, <2>1 DEF Held, UpInv
      <3>2. /\ wchunk' = Len(written) + 1 /\ IsRun(upload', Len(written) + 1)
            /\ Len(upload') = Len(upload) - 1
        BY <1>t, <2>3, <3>1, RunFront
      <3>3. Held' = 1
        BY <1>t, <3>2 DEF Held
      <3>4. UpAt' = UpAt
        BY <1>t, <2>1, <3>1, <3>2, <3>3 DEF UpAt
      <3>5. At' = At
        BY <2>1, <3>4
      <3> QED BY <2>1, <3>2, <3>3, <3>4, <3>5 DEF UpInv, Gone
    <2> QED BY <1>5, <2>2, <2>3 DEF WriterRecv
  <1>6. CASE WriterWrite
    <2>1. /\ UNCHANGED <<sent, aborted, appGone, sock, inbound, rx, upload>> /\ wchunk # 0
          /\ written' = Append(written, wchunk) /\ wchunk' = 0
      BY <1>6 DEF WriterWrite, ThreadInv, appVars, sockVars, flowVars
    <2>2. wchunk = Len(written) + 1 /\ Held = 1 /\ Held' = 0 /\ IsRun(written, 0)
      BY <2>1 DEF Held, UpInv
    <2>3. IsRun(written', 0) /\ Len(written') = Len(written) + 1
      BY <1>t, <2>1, <2>2, RunAppend
    <2>4. UpAt' = UpAt /\ Len(written') + Held' = Len(written) + Held
      BY <1>t, <2>1, <2>2, <2>3 DEF UpAt
    <2>5. At' = At
      BY <2>1, <2>4
    <2> QED BY <2>1, <2>2, <2>3, <2>4, <2>5 DEF UpInv, Gone
  <1>7. ASSUME ConnectErr \/ UploadDead \/ FlowEnds \/ StackStop PROVE UpInv'
    <2>1. UNCHANGED <<written, wchunk, upload, sent>>
      BY <1>7 DEF ConnectErr, UploadDead, FlowEnds, StackStop, Remove, appVars, threadVars
    <2>2. Gone' \/ aborted'
      BY <1>7 DEF ConnectErr, UploadDead, FlowEnds, StackStop, Remove, AbortSock, Gone
    <2>3. sent' \in Nat /\ sent <= sent'
      BY <1>t, <2>1
    <2> QED BY <1>g, <2>1, <2>2, <2>3
  <1>8. ASSUME EgressFin \/ DownloadDone PROVE UpInv'
    <2>1. /\ UNCHANGED <<written, wchunk, upload, rx, inbound, sent, aborted, appGone>> /\ ~Gone
      BY <1>8 DEF EgressFin, DownloadDone, Polling, LoopInv, appVars, flowVars, chanVars, threadVars
    <2>2. /\ served => served'
          /\ sock' = "SynReceived" => sock = "SynReceived"
      <3>1. CASE EgressFin
        BY <3>1 DEF EgressFin, CanEgressFin, Open
      <3>2. CASE DownloadDone
        BY <3>2 DEF DownloadDone, CloseSock, Open
      <3> QED BY <1>8, <3>1, <3>2
    <2> QED BY <1>q, <2>1, <2>2
  <1>9. ASSUME AppRead \/ EgressData \/ PollDone \/ ConnectPending \/ ConnectOk \/ UploadDone
               \/ DownloadTake \/ DownloadPut \/ FlowStays \/ Age \/ Dial \/ ReaderTest
               \/ ReaderRead \/ ReaderEnd \/ ReaderSend \/ WriterTest \/ WriterFail
               \/ TunnelBreaks \/ CloseTunnel
        PROVE  UpInv'
    <2>1. UNCHANGED <<written, wchunk, upload, rx, inbound, sent, sock, aborted, appGone>>
      BY <1>9 DEF AppRead, EgressData, PollDone, ConnectPending, ConnectOk, UploadDone,
        DownloadTake, DownloadPut, FlowStays, Age, Dial, ReaderTest, ReaderRead, ReaderEnd,
        ReaderSend, WriterTest, WriterFail, TunnelBreaks, CloseTunnel, appVars, sockVars,
        flowVars, chanVars, threadVars
    <2> QED BY <1>q, <2>1 DEF Gone
  <1>10. CASE UNCHANGED vars
    BY <1>10, <1>q DEF vars, Gone, appVars, sockVars, flowVars, chanVars, threadVars
  <1> QED BY <1>1, <1>2, <1>3, <1>4, <1>5, <1>6, <1>7, <1>8, <1>9, <1>10
          DEF Next, StackLoop, Reader, Writer

\* Types and limits.
LEMMA TypeStep ==
    ASSUME TypeOK, QueueInv, LoopInv, ThreadInv, [Next]_vars
    PROVE  TypeOK'
  <1>q. ASSUME UNCHANGED <<sent, read, room, appFin, appGone, finFirst, gotFin, old, remote,
                         remote_tx, remote_eof, fin_sent, closed, aborted, got, tx, rx, written,
                         wchunk, upload, download, sock, pc, connect_rx, tunnel, reader, writer>>
        PROVE  TypeOK'
    BY <1>q DEF TypeOK
  <1>1. CASE AppSend
    BY <1>1, SizeAssumption
    DEF AppSend, TypeOK, LoopInv, ThreadInv, chanVars, flowVars, sockVars, threadVars
  <1>2. CASE AppClose
    BY <1>2, SizeAssumption
    DEF AppClose, TypeOK, LoopInv, ThreadInv, chanVars, flowVars, sockVars, threadVars
  <1>3. CASE AppReset
    BY <1>3, SizeAssumption
    DEF AppReset, TypeOK, LoopInv, ThreadInv, chanVars, flowVars, sockVars, threadVars
  <1>4. CASE AppRead
    BY <1>4, SizeAssumption
    DEF AppRead, TypeOK, LoopInv, ThreadInv, chanVars, flowVars, sockVars, threadVars
  <1>5. CASE Ingress
    <2>1. rx' \in Seq(1 .. MaxUnits) /\ Len(rx') <= RxSize
      <3>1. CASE IsData(Head(inbound)) /\ sock \in Open
        <4>1. Head(inbound) \in 1 .. MaxUnits
          <5>1. Head(inbound) \in Segments
            BY <1>5, TailElems DEF Ingress, CanIngress, QueueInv
          <5> QED BY <3>1, <5>1 DEF Segments, IsData, Ack, Fin, Rst
        <4>2. rx' = Append(rx, Head(inbound)) /\ Len(rx) < RxSize
          BY <1>5, <3>1 DEF Ingress, CanIngress
        <4>3. rx \in Seq(1 .. MaxUnits) /\ Len(rx) \in Nat /\ RxSize \in Nat
          BY SizeAssumption DEF TypeOK
        <4> QED BY <4>1, <4>2, <4>3, AppendElems
      <3>2. CASE ~(IsData(Head(inbound)) /\ sock \in Open)
        BY <1>5, <3>2 DEF Ingress, TypeOK
      <3> QED BY <3>1, <3>2
    <2>2. sock' \in {"SynReceived", "Established", "CloseWait", "FinWait1", "FinWait2",
                     "Closing", "LastAck", "TimeWait", "Closed", "Removed"}
      BY <1>5 DEF Ingress, TypeOK, Ack, Fin, Rst
    <2>3. UNCHANGED <<appVars, tx, pc, flowVars, chanVars, threadVars>>
      BY <1>5 DEF Ingress
    <2> QED BY <2>1, <2>2, <2>3 DEF TypeOK, appVars, flowVars, chanVars, threadVars
  <1>6. CASE EgressData
    BY SMTT(30), <1>6, SizeAssumption
    DEF EgressData, Polling, CanEgressData, TypeOK, LoopInv, ThreadInv, chanVars, flowVars,
        threadVars
  <1>7. CASE EgressFin
    BY <1>7, SizeAssumption
    DEF EgressFin, Polling, CanEgressFin, TypeOK, LoopInv, ThreadInv, chanVars, flowVars,
        threadVars
  <1>8. CASE PollDone
    BY <1>8, SizeAssumption
    DEF PollDone, Polling, TypeOK, LoopInv, ThreadInv, appVars, chanVars, flowVars, sockVars,
        threadVars
  <1>9. CASE ConnectPending
    BY <1>9, SizeAssumption
    DEF ConnectPending, TypeOK, LoopInv, ThreadInv, appVars, chanVars, flowVars, sockVars,
        threadVars
  <1>10. CASE ConnectOk
    BY <1>10, SizeAssumption
    DEF ConnectOk, TypeOK, LoopInv, ThreadInv, appVars, chanVars, sockVars
  <1>11. CASE ConnectErr
    BY <1>11, SizeAssumption
    DEF ConnectErr, AbortSock, TypeOK, LoopInv, ThreadInv, appVars, threadVars
  <1>12. CASE UploadOne
    BY SMTT(30), <1>12, SizeAssumption
    DEF UploadOne, MayUpload, TypeOK, LoopInv, ThreadInv, appVars, flowVars, threadVars
  <1>13. CASE UploadDead
    <2>1. rx' \in Seq(1 .. MaxUnits) /\ Len(rx') <= RxSize
      <3>1. rx # <<>> /\ rx' = Tail(rx) /\ rx \in Seq(1 .. MaxUnits) /\ Len(rx) <= RxSize
        BY <1>13 DEF UploadDead, TypeOK
      <3>2. Len(rx) \in Nat /\ RxSize \in Nat /\ rx' \in Seq(1 .. MaxUnits) /\ Len(rx') = Len(rx) - 1
        BY <3>1, TailElems, SizeAssumption
      <3> QED BY <3>1, <3>2
    <2>2. tx' \in Seq(1 .. MaxUnits) /\ Len(tx') <= TxSize
      BY <1>13, SizeAssumption DEF UploadDead, AbortSock
    <2> QED BY <1>13, <2>1, <2>2 DEF UploadDead, AbortSock, TypeOK, appVars, threadVars
  <1>14. CASE UploadDone
    BY <1>14, SizeAssumption
    DEF UploadDone, TypeOK, LoopInv, ThreadInv, appVars, chanVars, flowVars, sockVars, threadVars
  <1>15. CASE DownloadTake
    BY <1>15, SizeAssumption
    DEF DownloadTake, TypeOK, LoopInv, ThreadInv, appVars, sockVars, threadVars
  <1>16. CASE DownloadPut
    <2>1. tx' \in Seq(1 .. MaxUnits) /\ Len(tx') <= TxSize
      <3> DEFINE free == TxSize - Len(tx)
                 n == IF Len(download_pending) < free THEN Len(download_pending) ELSE free
                 now == SubSeq(download_pending, 1, n)
      <3>1. /\ n \in Nat /\ n <= Len(download_pending) /\ Len(tx) + n <= TxSize
            /\ download_pending \in Seq(1 .. MaxUnits) /\ tx \in Seq(1 .. MaxUnits) /\ Len(tx) \in Nat
        <4>1. /\ download_pending \in Seq(1 .. MaxUnits) /\ Len(download_pending) \in Nat
              /\ tx \in Seq(1 .. MaxUnits) /\ Len(tx) \in Nat /\ TxSize \in Nat /\ Len(tx) <= TxSize
          BY SizeAssumption DEF TypeOK, QueueInv
        <4> QED BY <4>1
      <3>2. tx' = tx \o now
        BY <1>16 DEF DownloadPut
      <3> HIDE DEF n, free
      <3>3. now \in Seq(1 .. MaxUnits) /\ Len(now) = n
        BY <3>1, CutType
      <3> HIDE DEF now
      <3>4. tx \o now \in Seq(1 .. MaxUnits) /\ Len(tx \o now) = Len(tx) + n
        BY <3>1, <3>3, ConcatType
      <3> QED BY <3>1, <3>2, <3>4
    <2> QED BY <1>16, <2>1 DEF DownloadPut, TypeOK, appVars, chanVars, threadVars
  <1>17. CASE DownloadDone
    <2>1. sock' \in {"SynReceived", "Established", "CloseWait", "FinWait1", "FinWait2",
                     "Closing", "LastAck", "TimeWait", "Closed", "Removed"} /\ fin_sent' \in BOOLEAN
      BY <1>17 DEF DownloadDone, CloseSock, TypeOK
    <2>2. remote_eof' \in BOOLEAN
      BY <1>17 DEF DownloadDone, EndOfStream, TypeOK
    <2> QED BY <1>17, <2>1, <2>2 DEF DownloadDone, TypeOK, appVars, chanVars, threadVars
  <1>18. CASE FlowEnds \/ StackStop
    <2>1. /\ {closed', aborted', old', remote_tx'} \subseteq BOOLEAN
          /\ sock' = "Removed" /\ pc' = "gone"
          /\ rx' = <<>> /\ tx' = <<>> /\ download' = <<>>
          /\ UNCHANGED <<appVars, connect_rx, remote, remote_eof, fin_sent, upload, threadVars>>
      BY <1>18 DEF FlowEnds, StackStop, Remove, TypeOK
    <2>2. \A S : <<>> \in Seq(S)
      OBVIOUS
    <2>3. /\ rx' \in Seq(1 .. MaxUnits) /\ Len(rx') <= RxSize
          /\ tx' \in Seq(1 .. MaxUnits) /\ Len(tx') <= TxSize /\ Len(download') <= Capacity
      BY <2>1, <2>2, SizeAssumption
    <2> QED BY <2>1, <2>3 DEF TypeOK, appVars, threadVars
  <1>19. CASE FlowStays
    BY <1>19, SizeAssumption
    DEF FlowStays, TypeOK, LoopInv, ThreadInv, appVars, chanVars, flowVars, sockVars, threadVars
  <1>20. CASE Age
    BY <1>20, SizeAssumption
    DEF Age, TypeOK, LoopInv, ThreadInv, appVars, chanVars, sockVars, threadVars
  <1>21. CASE Dial
    BY <1>21, SizeAssumption
    DEF Dial, TypeOK, LoopInv, ThreadInv, appVars, chanVars, sockVars, threadVars
  <1>22. CASE ReaderTest
    BY <1>22, SizeAssumption
    DEF ReaderTest, TypeOK, LoopInv, ThreadInv, appVars, chanVars, flowVars, sockVars
  <1>23. CASE ReaderRead
    BY <1>23, SizeAssumption
    DEF ReaderRead, TypeOK, LoopInv, ThreadInv, appVars, chanVars, flowVars, sockVars
  <1>24. CASE ReaderEnd
    BY <1>24, SizeAssumption
    DEF ReaderEnd, TypeOK, LoopInv, ThreadInv, appVars, chanVars, flowVars, sockVars
  <1>25. CASE ReaderSend
    BY <1>25, SizeAssumption
    DEF ReaderSend, DownloadRoom, TypeOK, LoopInv, ThreadInv, appVars, flowVars, sockVars
  <1>26. CASE WriterTest
    BY <1>26, SizeAssumption
    DEF WriterTest, TypeOK, LoopInv, ThreadInv, appVars, chanVars, flowVars, sockVars
  <1>27. CASE WriterRecv
    <2>1. wchunk' \in 0 .. MaxUnits /\ upload' \in Seq(1 .. MaxUnits)
      <3>1. upload # <<>> => Head(upload) \in 1 .. MaxUnits /\ Tail(upload) \in Seq(1 .. MaxUnits)
        BY TailElems DEF TypeOK
      <3>2. wchunk \in 0 .. MaxUnits /\ upload \in Seq(1 .. MaxUnits) /\ MaxUnits \in Nat
        BY SizeAssumption DEF TypeOK
      <3>3. CASE upload # <<>> /\ wchunk' = Head(upload) /\ upload' = Tail(upload)
        BY <3>1, <3>2, <3>3
      <3>4. CASE UNCHANGED <<wchunk, upload>>
        BY <3>2, <3>4
      <3> QED BY <1>27, <3>3, <3>4 DEF WriterRecv
    <2>2. writer' \in {"write", "done", "test"}
      BY <1>27 DEF WriterRecv
    <2> QED BY <1>27, <2>1, <2>2 DEF WriterRecv, TypeOK, appVars, sockVars, flowVars
  <1>28. CASE WriterWrite
    BY <1>28, SizeAssumption
    DEF WriterWrite, TypeOK, LoopInv, ThreadInv, appVars, flowVars, sockVars
  <1>29. CASE WriterFail
    BY <1>29, SizeAssumption
    DEF WriterFail, TypeOK, LoopInv, ThreadInv, appVars, flowVars, sockVars
  <1>30. CASE TunnelBreaks
    BY <1>30, SizeAssumption
    DEF TunnelBreaks, TypeOK, LoopInv, ThreadInv, appVars, chanVars, flowVars, sockVars
  <1>31. CASE CloseTunnel
    <2>1. tunnel' \in {"up", "broken", "closed"} /\ remote' = FALSE
      BY <1>31 DEF CloseTunnel, TypeOK
    <2>2. UNCHANGED <<appVars, sockVars, pc, old, connect_rx, remote_tx, download_pending,
                     remote_eof, fin_sent, aborted, chanVars, reader, rchunk, read, writer,
                     wchunk, written>>
      BY <1>31 DEF CloseTunnel
    <2>3. {appFin', appGone', finFirst', gotFin', old', remote', remote_tx', remote_eof',
           fin_sent', closed', aborted'} \subseteq BOOLEAN
      BY <2>1, <2>2 DEF TypeOK, appVars, chanVars
    <2> QED BY <2>1, <2>2, <2>3 DEF TypeOK, appVars, chanVars, sockVars
  <1>32. CASE UNCHANGED vars
    BY <1>32, <1>q DEF vars, appVars, sockVars, flowVars, chanVars, threadVars
  <1> QED BY <1>1, <1>2, <1>3, <1>4, <1>5, <1>6, <1>7, <1>8, <1>9, <1>10, <1>11, <1>12, <1>13,
             <1>14, <1>15, <1>16, <1>17, <1>18, <1>19, <1>20, <1>21, <1>22, <1>23, <1>24,
             <1>25, <1>26, <1>27, <1>28, <1>29, <1>30, <1>31, <1>32
          DEF Next, StackLoop, Reader, Writer

\* Types of the queues.
LEMMA QueueStep ==
    ASSUME TypeOK, QueueInv, LoopInv, ThreadInv, PendingExact, [Next]_vars
    PROVE  QueueInv'
  <1>q. ASSUME UNCHANGED <<inbound, download, rchunk, download_pending, upload_pending>>
        PROVE  QueueInv'
    BY <1>q DEF QueueInv
  <1>1. CASE AppSend
    <2>1. sent + 1 \in Segments
      BY SMTT(30), <1>1, SizeAssumption DEF AppSend, Segments, TypeOK
    <2>2. inbound' \in Seq(Segments)
      BY <1>1, <2>1, AppendElems DEF AppSend, QueueInv
    <2> QED BY <1>1, <2>2 DEF AppSend, QueueInv, flowVars, chanVars, threadVars
  <1>2. CASE AppClose
    <2>1. Fin \in Segments
      BY <1>2, SizeAssumption DEF AppClose, Segments, TypeOK
    <2>2. inbound' \in Seq(Segments)
      BY <1>2, <2>1, AppendElems DEF AppClose, QueueInv
    <2> QED BY <1>2, <2>2 DEF AppClose, QueueInv, flowVars, chanVars, threadVars
  <1>3. CASE AppReset
    <2>1. Rst \in Segments
      BY <1>3, SizeAssumption DEF AppReset, Segments, TypeOK
    <2>2. inbound' \in Seq(Segments)
      BY <1>3, <2>1, AppendElems DEF AppReset, QueueInv
    <2> QED BY <1>3, <2>2 DEF AppReset, QueueInv, flowVars, chanVars, threadVars
  <1>4. CASE Ingress
    BY <1>4, SizeAssumption
    DEF Ingress, Polling, CanIngress, IsData, QueueInv, TypeOK, appVars, chanVars, flowVars,
        threadVars
  <1>5. CASE UploadOne
    BY <1>5, SizeAssumption
    DEF UploadOne, MayUpload, QueueInv, TypeOK, appVars, flowVars, threadVars
  <1>6. CASE DownloadTake
    BY SMTT(30), <1>6, SizeAssumption
    DEF DownloadTake, QueueInv, TypeOK, appVars, sockVars, threadVars
  <1>7. CASE DownloadPut
    <2> DEFINE free == TxSize - Len(tx)
               n == IF Len(download_pending) < free THEN Len(download_pending) ELSE free
    <2>1. n \in Nat /\ n <= Len(download_pending) /\ download_pending \in Seq(1 .. MaxUnits)
      BY SizeAssumption DEF TypeOK, QueueInv
    <2>2. download_pending' = Leftover(download_pending, n)
      BY <1>7 DEF DownloadPut
    <2> HIDE DEF n
    <2>3. download_pending' \in Seq(1 .. MaxUnits)
      BY <2>1, <2>2, CutType
    <2> QED BY <1>7, <2>3 DEF DownloadPut, QueueInv, appVars, chanVars, threadVars
  <1>8. CASE ReaderRead
    BY <1>8, SizeAssumption
    DEF ReaderRead, QueueInv, TypeOK, appVars, chanVars, flowVars, sockVars
  <1>9. CASE ReaderSend
    <2>1. download' \in Seq(Seq(1 .. MaxUnits))
      <3>1. download \in Seq(Seq(1 .. MaxUnits)) /\ rchunk \in Seq(1 .. MaxUnits)
        BY DEF QueueInv
      <3>2. Append(download, rchunk) \in Seq(Seq(1 .. MaxUnits))
        BY <3>1, AppendElems
      <3> QED BY <1>9, <3>1, <3>2 DEF ReaderSend
    <2>2. rchunk' \in Seq(1 .. MaxUnits)
      BY <1>9 DEF ReaderSend
    <2> QED BY <1>9, <2>1, <2>2 DEF ReaderSend, QueueInv, flowVars
  <1>10. CASE WriterWrite
    <2>1. upload_pending' \in Nat
      <3>1. upload_pending = Len(upload) + 1 /\ Len(upload) \in Nat
        BY <1>10 DEF WriterWrite, PendingExact, ThreadInv, TypeOK
      <3> QED BY <1>10, <3>1 DEF WriterWrite
    <2> QED BY <1>10, <2>1 DEF WriterWrite, QueueInv, flowVars
  <1>11. ASSUME AppRead \/ EgressData \/ EgressFin \/ PollDone \/ ConnectPending \/ ConnectOk
                \/ ConnectErr \/ UploadDead \/ UploadDone \/ DownloadDone
                \/ FlowStays \/ Age \/ Dial \/ ReaderTest \/ ReaderEnd
                \/ WriterTest \/ WriterRecv \/ WriterFail \/ TunnelBreaks \/ CloseTunnel
        PROVE  QueueInv'
    BY <1>11, <1>q
    DEF AppRead, EgressData, EgressFin, PollDone, ConnectPending, ConnectOk, ConnectErr,
        UploadDead, UploadDone, DownloadDone, FlowStays, Age, Dial, ReaderTest, ReaderEnd, WriterTest,
        WriterRecv, WriterFail, TunnelBreaks, CloseTunnel, appVars, chanVars, flowVars, sockVars,
        threadVars
  <1>12. CASE FlowEnds \/ StackStop
    <2>1. /\ inbound' = <<>> /\ download' = <<>> /\ download_pending' = <<>>
          /\ UNCHANGED <<rchunk, upload_pending>>
      BY <1>12 DEF FlowEnds, StackStop, Remove, threadVars
    <2>2. \A S : <<>> \in Seq(S)
      OBVIOUS
    <2> QED BY <2>1, <2>2 DEF QueueInv
  <1>13. CASE UNCHANGED vars
    BY <1>13, <1>q DEF vars, appVars, sockVars, flowVars, chanVars, threadVars
  <1> QED BY <1>1, <1>2, <1>3, <1>4, <1>5, <1>6, <1>7, <1>8, <1>9, <1>10, <1>11, <1>12,
             <1>13
          DEF Next, StackLoop, Reader, Writer

-----------------------------------------------------------------------------
\* The invariant the properties need holds in every state.
THEOREM FlowInvariance == Spec => []FlowInv
  <1>1. Init => FlowInv
    <2> SUFFICES ASSUME Init PROVE FlowInv
      OBVIOUS
    <2>e. \A S : <<>> \in Seq(S) /\ Len(<<>>) = 0
      OBVIOUS
    <2>1. TypeOK
      <3>1. /\ sent \in 0 .. MaxUnits /\ read \in 0 .. MaxUnits /\ room \in 0 .. Window
            /\ wchunk \in 0 .. MaxUnits
        BY SizeAssumption DEF Init
      <3>2. {appFin, appGone, finFirst, gotFin, old, remote, remote_tx, remote_eof,
             fin_sent, closed, aborted} \subseteq BOOLEAN
        BY DEF Init
      <3>3. /\ got \in Seq(1 .. MaxUnits) /\ tx \in Seq(1 .. MaxUnits) /\ rx \in Seq(1 .. MaxUnits)
            /\ written \in Seq(1 .. MaxUnits) /\ upload \in Seq(1 .. MaxUnits)
            /\ Len(tx) <= TxSize /\ Len(rx) <= RxSize /\ Len(download) <= Capacity
        BY <2>e, SizeAssumption DEF Init
      <3>4. /\ sock = "SynReceived" /\ pc = "connect" /\ connect_rx = "dialing" /\ tunnel = "up"
            /\ reader = "none" /\ writer = "none"
        BY DEF Init
      <3> QED BY <3>1, <3>2, <3>3, <3>4 DEF TypeOK
    <2>2. QueueInv
      <3>1. <<Ack>> \in Seq(Segments)
        BY DEF Segments
      <3>2. inbound \in Seq(Segments)
        BY <2>e, <3>1 DEF Init
      <3> QED BY <2>e, <3>2 DEF Init, QueueInv
    <2>3. LoopInv /\ ThreadInv
      BY DEF Init, LoopInv, ThreadInv, Gone
    <2>4. PendingExact
      BY SizeAssumption DEF Init, PendingExact
    <2>5. FinInv
      BY DEF Init, FinInv, Ack, Fin, Rst
    <2>6. DownInv
      <3>1. /\ DownAt = 0 /\ Len(got) = 0 /\ Len(tx) = 0 /\ got = <<>> /\ tx = <<>>
            /\ download_pending = <<>> /\ rchunk = <<>> /\ Len(rchunk) = 0 /\ download = <<>>
            /\ read = 0
        BY DEF Init, DownAt
      <3>2. IsRun(<<>>, 0) /\ Chain(<<>>, 0) /\ EndOf(<<>>, 0, Len(<<>>)) = 0
        BY ChainEmpty, RunSmall
      <3> QED BY <3>1, <3>2 DEF DownInv
    <2>7. UpInv
      <3>1. /\ UpAt = 0 /\ Held = 0 /\ wchunk = 0 /\ Len(written) = 0 /\ Len(rx) = 0 /\ sent = 0
            /\ written = <<>> /\ upload = <<>> /\ rx = <<>>
        BY DEF Init, UpAt, Held
      <3>2. IsRun(<<>>, 0)
        BY RunSmall
      <3>3. Shape(inbound, 0, 0) /\ (inbound = <<>> => appGone) /\ (inbound # <<>> => inbound[1] = Ack)
        BY DEF Init, Shape, AckLen
      <3> QED BY <3>1, <3>2, <3>3 DEF UpInv
    <2> QED BY <2>1, <2>2, <2>3, <2>4, <2>5, <2>6, <2>7 DEF FlowInv
  <1>2. FlowInv /\ [Next]_vars => FlowInv'
    BY TypeStep, QueueStep, LoopStep, ThreadStep, PendingStep, FinStep, DownStep, UpStep
    DEF FlowInv
  <1> QED BY <1>1, <1>2, PTL DEF Spec

\* The variables keep their types; no buffer or channel outgrows its limit.
THEOREM TypeCorrect == Spec => []TypeOK
  <1>1. FlowInv => TypeOK
    BY DEF FlowInv
  <1> QED BY <1>1, FlowInvariance, PTL

\* Nothing is lost, repeated or reordered between the application and the
\* tunnel, in either direction, and the gate of the upload loop is exact
\* (process_tcp, deliver_download, the reader and the writer).
THEOREM StreamsStayIntact == Spec => []StreamsIntact
  <1>1. ASSUME FlowInv PROVE DownloadIntact
    <2>t. /\ got \in Seq(Nat) /\ tx \in Seq(Nat) /\ download_pending \in Seq(Nat)
          /\ download \in Seq(Seq(Nat)) /\ rchunk \in Seq(Nat) /\ read \in Nat
          /\ Len(got) \in Nat /\ Len(tx) \in Nat /\ Len(download_pending) \in Nat
          /\ Len(rchunk) \in Nat /\ DownAt \in Nat
      BY <1>1, QueueTypes DEF FlowInv
    <2>1. got = Units(Len(got)) /\ Len(got) <= read
      BY <1>1, <2>t, RunIs DEF FlowInv, DownInv, Units
    <2>2. ASSUME ~Gone, ~aborted
          PROVE  LET front == got \o tx \o download_pending
                     end(k) == IF k = 0 THEN Len(front) ELSE download[k][Len(download[k])]
                 IN /\ front = Units(Len(front))
                    /\ \A k \in DOMAIN download :
                          download[k] # <<>> /\ download[k] = Run(end(k - 1), end(k))
                    /\ rchunk = Run(end(Len(download)), read)
      <3> DEFINE front == got \o tx \o download_pending
                 end(k) == IF k = 0 THEN Len(front) ELSE download[k][Len(download[k])]
      <3>1. /\ IsRun(got, 0) /\ IsRun(tx, Len(got)) /\ IsRun(download_pending, Len(got) + Len(tx))
            /\ Chain(download, DownAt) /\ IsRun(rchunk, EndOf(download, DownAt, Len(download)))
            /\ read = EndOf(download, DownAt, Len(download)) + Len(rchunk)
        BY <1>1, <2>2 DEF FlowInv, DownInv
      <3>2. got \o tx \in Seq(Nat) /\ IsRun(got \o tx, 0) /\ Len(got \o tx) = Len(got) + Len(tx)
        BY <2>t, <3>1, RunConcat
      <3> DEFINE gt == got \o tx
      <3>g. gt \in Seq(Nat) /\ IsRun(gt, 0) /\ Len(gt) = Len(got) + Len(tx)
        BY <3>2
      <3>h. front = gt \o download_pending
        OBVIOUS
      <3> HIDE DEF gt, front
      <3>3. front \in Seq(Nat) /\ IsRun(front, 0) /\ Len(front) = DownAt
        <4>1. /\ gt \o download_pending \in Seq(Nat) /\ IsRun(gt \o download_pending, 0)
              /\ Len(gt \o download_pending) = Len(gt) + Len(download_pending)
          <5>1. IsRun(download_pending, 0 + Len(gt))
            BY <2>t, <3>1, <3>g
          <5> QED BY <2>t, <3>g, <5>1, RunConcat
        <4> QED BY <2>t, <3>g, <3>h, <4>1 DEF DownAt
      <3>4. front = Units(Len(front))
        BY <2>t, <3>3, RunIs DEF Units
      <3>5. \A k : end(k) = EndOf(download, DownAt, k)
        BY <3>3 DEF EndOf
      <3> HIDE DEF end
      <3>6. /\ \A k \in 0 .. Len(download) : end(k) \in Nat
            /\ \A k \in DOMAIN download : end(k) = end(k - 1) + Len(download[k])
        BY <2>t, <3>1, <3>5, ChainEnd
      <3>7. ASSUME NEW k \in DOMAIN download
            PROVE  download[k] # <<>> /\ download[k] = Run(end(k - 1), end(k))
        <4>1. k \in 0 .. Len(download) /\ k - 1 \in 0 .. Len(download) /\ download[k] \in Seq(Nat)
          BY <2>t
        <4>2. download[k] # <<>> /\ IsRun(download[k], end(k - 1))
          BY <3>1, <3>5 DEF Chain
        <4> QED BY <3>6, <4>1, <4>2, RunIs
      <3>8. rchunk = Run(end(Len(download)), read)
        <4>1. Len(download) \in 0 .. Len(download)
          BY <2>t
        <4>2. end(Len(download)) \in Nat
          BY <3>6, <4>1
        <4> QED BY <2>t, <3>1, <3>5, <4>2, RunIs
      <3> QED BY <3>4, <3>7, <3>8 DEF front, end
    <2> QED BY <2>1, <2>2 DEF DownloadIntact
  <1>2. ASSUME FlowInv PROVE UploadIntact
    <2>t. /\ written \in Seq(Nat) /\ upload \in Seq(Nat) /\ rx \in Seq(Nat)
          /\ wchunk \in Nat /\ sent \in Nat
          /\ Len(written) \in Nat /\ Len(upload) \in Nat /\ Len(rx) \in Nat
          /\ Held \in {0, 1} /\ UpAt \in Nat /\ inbound \in Seq(Segments)
      BY <1>2, QueueTypes DEF FlowInv, QueueInv
    <2>1. written = Units(Len(written)) /\ Len(written) <= sent
      <3>1. IsRun(written, 0) /\ UpAt <= sent
        BY <1>2 DEF FlowInv, UpInv
      <3>2. Len(written) <= sent
        BY <2>t, <3>1 DEF UpAt
      <3> QED BY <2>t, <3>1, <3>2, RunIs DEF Units
    <2>2. ASSUME ~Gone, ~aborted
          PROVE  LET here == written \o (IF wchunk = 0 THEN <<>> ELSE <<wchunk>>) \o upload \o rx
                     data == {i \in DOMAIN inbound : IsData(inbound[i])}
                 IN /\ here = Units(Len(here))
                    /\ {inbound[i] : i \in data} = Len(here) + 1 .. sent
                    /\ \A i, j \in data : i < j => inbound[i] < inbound[j]
      <3> DEFINE w == IF wchunk = 0 THEN <<>> ELSE <<wchunk>>
                 ww == written \o w
                 wwu == ww \o upload
                 here == wwu \o rx
                 data == {i \in DOMAIN inbound : IsData(inbound[i])}
                 at == UpAt + Len(rx)
                 al == AckLen(inbound)
      <3>1. /\ IsRun(written, 0) /\ (wchunk # 0 => wchunk = Len(written) + 1)
            /\ IsRun(upload, Len(written) + Held) /\ IsRun(rx, UpAt)
            /\ at <= sent /\ Shape(inbound, at, sent)
        BY <1>2, <2>2 DEF FlowInv, UpInv
      <3>2. w \in Seq(Nat) /\ Len(w) = Held /\ IsRun(w, Len(written))
        BY <2>t, <3>1, RunSmall DEF Held
      <3> HIDE DEF w
      <3>3. ww \in Seq(Nat) /\ IsRun(ww, 0) /\ Len(ww) = Len(written) + Held
        BY <2>t, <3>1, <3>2, RunConcat
      <3> HIDE DEF ww
      <3>4. wwu \in Seq(Nat) /\ IsRun(wwu, 0) /\ Len(wwu) = UpAt
        <4>1. IsRun(upload, 0 + Len(ww))
          BY <2>t, <3>1, <3>3
        <4>2. wwu \in Seq(Nat) /\ IsRun(wwu, 0) /\ Len(wwu) = Len(ww) + Len(upload)
          BY <2>t, <3>3, <4>1, RunConcat
        <4> QED BY <2>t, <3>3, <4>2 DEF UpAt
      <3> HIDE DEF wwu
      <3>5. here \in Seq(Nat) /\ IsRun(here, 0) /\ Len(here) = at
        <4>1. IsRun(rx, 0 + Len(wwu))
          BY <2>t, <3>1, <3>4
        <4>2. here \in Seq(Nat) /\ IsRun(here, 0) /\ Len(here) = Len(wwu) + Len(rx)
          BY <2>t, <3>4, <4>1, RunConcat
        <4> QED BY <3>4, <4>2
      <3> HIDE DEF here
      <3>6. here = Units(Len(here))
        <4>1. Len(here) \in Nat /\ Len(here) = 0 + Len(here)
          BY <3>5
        <4> QED BY <3>5, <4>1, RunIs DEF Units
      <3>7. /\ al \in {0, 1} /\ at \in Nat /\ al + (sent - at) <= Len(inbound)
            /\ DOMAIN inbound = 1 .. Len(inbound) /\ Len(inbound) \in Nat
        BY <2>t, <3>1 DEF AckLen, Shape
      <3>8. al = 1 => inbound[1] = Ack
        BY DEF AckLen
      <3> HIDE DEF at, al
      <3>9. \A i \in 1 .. sent - at : al + i \in DOMAIN inbound /\ inbound[al + i] = at + i
        BY <2>t, <3>1, <3>7 DEF Shape, al
      <3>10. \A i \in DOMAIN inbound : i > al + (sent - at) => ~IsData(inbound[i])
        BY <3>1 DEF Shape, al, IsData, Fin, Rst
      <3>11. data = al + 1 .. al + (sent - at)
        <4>1. ASSUME NEW i \in data PROVE i \in al + 1 .. al + (sent - at)
          <5>1. i \in 1 .. Len(inbound) /\ i <= al + (sent - at) /\ IsData(inbound[i])
            BY <2>t, <3>7, <3>10
          <5>2. ~(i <= al)
            BY <3>7, <3>8, <5>1 DEF IsData, Ack
          <5> QED BY <2>t, <3>7, <5>1, <5>2
        <4>2. ASSUME NEW i \in al + 1 .. al + (sent - at) PROVE i \in data
          <5>1. i - al \in 1 .. sent - at /\ al + (i - al) = i
            BY <2>t, <3>7
          <5>2. i \in DOMAIN inbound /\ inbound[i] = at + (i - al)
            BY <3>9, <5>1
          <5> QED BY <3>7, <5>1, <5>2 DEF IsData
        <4> QED BY <4>1, <4>2
      <3> HIDE DEF data
      <3>12. \A i \in data : inbound[i] = at + (i - al) /\ i - al \in 1 .. sent - at /\ i \in Int
        <4> TAKE i \in data
        <4>1. i - al \in 1 .. sent - at /\ al + (i - al) = i /\ i \in Int
          BY <2>t, <3>7, <3>11
        <4> QED BY <3>9, <4>1
      <3>13. {inbound[i] : i \in data} = at + 1 .. sent
        <4>1. ASSUME NEW u \in at + 1 .. sent PROVE \E i \in data : inbound[i] = u
          <5>1. u - at \in 1 .. sent - at /\ al + (u - at) \in data /\ at + (u - at) = u
            BY <2>t, <3>7, <3>11
          <5> QED BY <3>9, <5>1
        <4>2. \A i \in data : inbound[i] \in at + 1 .. sent
          BY SMTT(30), <2>t, <3>7, <3>12
        <4> QED BY <4>1, <4>2
      <3>14. \A i, j \in data : i < j => inbound[i] < inbound[j]
        BY <3>7, <3>12
      <3> QED BY <3>5, <3>6, <3>13, <3>14 DEF here, wwu, ww, w, data
    <2> QED BY <2>1, <2>2 DEF UploadIntact
  <1>3. FlowInv => StreamsIntact
    BY <1>1, <1>2 DEF FlowInv, StreamsIntact
  <1> QED BY <1>3, FlowInvariance, PTL

\* The application sees the FIN after all data, and before a flow that ended
\* in order is dropped (deliver_download, tcp_flow_finished).
THEOREM FinStaysInOrder == Spec => []FinInOrder
  <1>1. Init => CleanEnd
    BY DEF Init, CleanEnd, Gone
  <1>2. ASSUME FlowInv, CleanEnd, [Next]_vars PROVE CleanEnd'
    <2>i. TypeOK /\ LoopInv /\ FinInv
      BY <1>2 DEF FlowInv
    <2>1. CASE FlowEnds
      <3> SUFFICES ASSUME fin_sent, ~aborted, ~appGone, ~finFirst, tunnel # "broken", ~gotFin
                   PROVE  FALSE
        BY <2>1 DEF FlowEnds, Remove, CleanEnd, appVars, flowVars, threadVars
      <3>1. ~Gone /\ ~closed
        BY <2>1, <2>i DEF FlowEnds, Remove, LoopInv
      <3>2. sock \in {"FinWait1", "FinWait2"}
        BY <2>i, <3>1 DEF FinInv, TypeOK, Gone
      <3> QED BY <2>1, <3>1, <3>2 DEF FlowEnds, Remove, tcp_flow_finished, may_recv
    <2>2. CASE StackStop
      BY <2>2 DEF StackStop, Remove, CleanEnd
    <2>3. ASSUME ~FlowEnds, ~StackStop, ~Gone PROVE ~Gone'
      <3>1. ASSUME sock' = sock \/ (sock' # "Removed") PROVE ~Gone'
        BY <2>3, <3>1 DEF Gone
      <3>2. CASE Ingress \/ EgressFin \/ DownloadDone \/ ConnectErr \/ UploadDead
        BY <2>3, <3>2 DEF Ingress, EgressFin, CanEgressFin, DownloadDone, ConnectErr, UploadDead,
           AbortSock, CloseSock, Gone
      <3>3. ASSUME AppSend \/ AppClose \/ AppReset \/ AppRead \/ EgressData \/ PollDone
                   \/ ConnectPending \/ ConnectOk \/ UploadOne \/ UploadDone \/ DownloadTake
                   \/ DownloadPut \/ FlowStays \/ Age \/ Dial \/ Reader \/ Writer
                   \/ TunnelBreaks \/ CloseTunnel
            PROVE  sock' = sock
        BY <3>3 DEF AppSend, AppClose, AppReset, AppRead, EgressData, PollDone, ConnectPending,
           ConnectOk, UploadOne, UploadDone, DownloadTake, DownloadPut, FlowStays, Age, Dial,
           Reader, ReaderTest, ReaderRead, ReaderEnd, ReaderSend, Writer, WriterTest, WriterRecv,
           WriterWrite, WriterFail, TunnelBreaks, CloseTunnel, sockVars
      <3>4. CASE UNCHANGED vars
        BY <3>1, <3>4 DEF vars, sockVars
      <3> QED BY <1>2, <2>3, <3>1, <3>2, <3>3, <3>4 DEF Next, StackLoop
    <2>4. CASE Gone
      <3>1. fin_sent' = fin_sent /\ aborted' = aborted /\ gotFin' = gotFin /\ appGone' = appGone
            /\ finFirst' = finFirst /\ (tunnel = "broken" => tunnel' = "broken")
        <4>1. pc = "gone" /\ sock = "Removed"
          BY <2>i, <2>4 DEF LoopInv, Gone
        <4>2. ASSUME Next
              PROVE  Dial \/ Reader \/ Writer \/ TunnelBreaks \/ CloseTunnel
          BY <2>4, <4>1, <4>2 DEF Next, StackLoop, AppSend, AppClose, AppReset, AppRead, Ingress,
             EgressData, EgressFin, PollDone, ConnectPending, ConnectOk, ConnectErr, UploadOne,
             UploadDead, UploadDone, DownloadTake, DownloadPut, DownloadDone, FlowEnds, FlowStays,
             Age, StackStop, Polling
        <4>3. CASE Next
          <5>1. CASE Dial
            BY <5>1 DEF Dial, appVars, threadVars
          <5>2. CASE Reader
            BY <5>2 DEF Reader, ReaderTest, ReaderRead, ReaderEnd, ReaderSend, appVars, flowVars
          <5>3. CASE Writer
            BY <5>3 DEF Writer, WriterTest, WriterRecv, WriterWrite, WriterFail, appVars, flowVars
          <5>4. CASE TunnelBreaks \/ CloseTunnel
            BY <5>4 DEF TunnelBreaks, CloseTunnel, appVars, flowVars
          <5> QED BY <4>2, <4>3, <5>1, <5>2, <5>3, <5>4
        <4>4. CASE UNCHANGED vars
          BY <4>4 DEF vars, appVars, flowVars, threadVars
        <4> QED BY <1>2, <4>3, <4>4
      <3> QED BY <1>2, <2>4, <3>1 DEF CleanEnd
    <2> QED BY <2>1, <2>2, <2>3, <2>4 DEF CleanEnd
  <1>3. FlowInv => FinAfterAll
    <2> SUFFICES ASSUME FlowInv, gotFin PROVE reader = "done" /\ got = Units(read)
      BY DEF FinAfterAll
    <2>1. reader = "done" /\ Len(got) = read /\ IsRun(got, 0) /\ got \in Seq(Nat)
      BY QueueTypes DEF FlowInv, FinInv, DownInv
    <2>2. Len(got) \in Nat
      BY <2>1
    <2> QED BY <2>1, <2>2, RunIs DEF Units
  <1>4. Spec => []CleanEnd
    BY <1>1, <1>2, FlowInvariance, PTL DEF Spec
  <1> QED BY <1>3, <1>4, FlowInvariance, PTL DEF FinInOrder
=============================================================================
