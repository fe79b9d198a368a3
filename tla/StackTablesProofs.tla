------------------------- MODULE StackTablesProofs -------------------------
(***************************************************************************)
(* Proofs about StackTables: the tables agree on the handles, and no flow  *)
(* takes the datagrams of another, for any destinations, sources and       *)
(* limits.                                                                 *)
(***************************************************************************)
EXTENDS StackTables, FiniteSetTheorems, TLAPS

\* What HandlesAgree needs to be inductive: a UDP flow is for a UDP target,
\* and a socket that has accepted a SYN is that of a TCP listener.
KindInv ==
    /\ \A k \in Live : udp_flows[k].to \in UdpTargets
    /\ \A h \in active : by_handle[h] \in TcpTargets

TableInv == TypeOK /\ HandlesAgree /\ KindInv /\ RightTunnel

-----------------------------------------------------------------------------
LEMMA TargetFacts ==
    /\ TcpTargets \subseteq Targets /\ UdpTargets \subseteq Targets
    /\ \A t \in TcpTargets : t \notin UdpTargets
    /\ None \notin Targets /\ None \notin Handles
  BY TargetAssumption DEF Targets, None, Handles

\* The tables are empty at the start.
LEMMA InitTables == Init => TableInv
  <1> SUFFICES ASSUME Init PROVE TableInv
    OBVIOUS
  <1>1. TypeOK
    BY DEF Init, TypeOK, NoFlow
  <1>2. Live = {}
    BY DEF Init, Live
  <1>3. QED
    BY <1>1, <1>2 DEF Init, TableInv, HandlesAgree, KindInv, RightTunnel

\* Ensure leaves the flows alone and makes a listener for t, whose handle was
\* that listener's before, or nobody's.
LEMMA EnsureTables ==
    ASSUME TableInv, NEW t \in Targets, Ensure(t)
    PROVE  /\ sockets' \in [Handles -> Targets \cup {None}]
           /\ by_handle' \in [Handles -> Targets \cup {None}]
           /\ by_target' \in [Targets -> Handles \cup {None}]
           /\ idle' \in [Targets -> BOOLEAN]
           /\ by_target'[t] \in Handles
           /\ by_target'[t] = by_target[t] \/ sockets[by_target'[t]] = None
           /\ \A u \in Targets : by_target[u] # None => by_target'[u] = by_target[u]
           /\ \A h \in Handles : by_handle[h] # None => by_handle'[h] = by_handle[h]
           /\ \A u \in Targets : by_target'[u] # None =>
                by_handle'[by_target'[u]] = u /\ sockets'[by_target'[u]] = u
           /\ \A h \in Handles : by_handle'[h] # None => by_target'[by_handle'[h]] = h
           /\ \A h \in Handles : sockets'[h] # None <=> (by_handle'[h] # None \/ h \in tcp_flows)
           /\ \A h \in tcp_flows : by_handle'[h] = None
  <1>1. CASE by_target[t] # None
    BY <1>1, TargetFacts DEF Ensure, listenerVars, TableInv, TypeOK, HandlesAgree
  <1>2. CASE by_target[t] = None
    <2>1. PICK h \in Handles :
            /\ FreeHandle(h)
            /\ sockets' = [sockets EXCEPT ![h] = t]
            /\ by_target' = [by_target EXCEPT ![t] = h]
            /\ by_handle' = [by_handle EXCEPT ![h] = t]
      BY <1>2 DEF Ensure
    <2>2. sockets[h] = None /\ by_handle[h] = None /\ h \notin tcp_flows
      BY <2>1 DEF FreeHandle, TableInv, HandlesAgree
    <2>3. \A u \in Targets : by_target[u] # h
      BY <2>1, <2>2, TargetFacts DEF TableInv, HandlesAgree, TypeOK
    <2>4. QED
      BY <1>2, <2>1, <2>2, <2>3, TargetFacts DEF Ensure, TableInv, TypeOK, HandlesAgree
  <1>3. QED
    BY <1>1, <1>2

LEMMA SynTables == ASSUME TableInv, NEW t \in TcpTargets, Syn(t) PROVE TableInv'
  <1>1. t \in Targets /\ Ensure(t)
    BY TargetFacts DEF Syn
  <1> DEFINE h == by_target'[t]
  <1>2. /\ active' = active \/ active' = active \cup {h}
        /\ refused' \in BOOLEAN /\ udp_flows' = udp_flows /\ tcp_flows' = tcp_flows /\ pc' = pc
    BY DEF Syn
  <1>3. Live' = Live
    BY <1>2 DEF Live
  <1>4. h \in Handles /\ by_handle'[h] = t
    BY <1>1, EnsureTables, TargetFacts
  <1> HIDE DEF h
  <1>5. TypeOK'
    BY <1>1, <1>2, <1>4, EnsureTables DEF TableInv, TypeOK
  <1>6. HandlesAgree'
    <2>1. \A k \in Live : by_target'[udp_flows[k].to] = k[1]
      BY <1>1, EnsureTables, TargetFacts DEF TableInv, HandlesAgree, KindInv, Live, Keys
    <2>2. QED
      BY <1>1, <1>2, <1>3, <2>1, EnsureTables DEF HandlesAgree
  <1>7. KindInv'
    <2>1. \A g \in active : by_handle'[g] = by_handle[g]
      BY <1>1, EnsureTables, TargetFacts DEF TableInv, KindInv, TypeOK
    <2>2. QED
      BY <1>2, <1>3, <1>4, <2>1 DEF TableInv, KindInv
  <1>8. RightTunnel'
    BY <1>2, <1>3 DEF TableInv, RightTunnel
  <1>9. QED
    BY <1>5, <1>6, <1>7, <1>8 DEF TableInv

LEMMA DatagramTables ==
    ASSUME TableInv, NEW t \in UdpTargets, NEW s \in Sources, Datagram(t, s) PROVE TableInv'
  <1>1. t \in Targets /\ Ensure(t)
    BY TargetFacts DEF Datagram
  <1> DEFINE k == <<by_target'[t], s>>
  <1>2. /\ pc' = pc /\ active' = active /\ tcp_flows' = tcp_flows /\ refused' = refused
    BY DEF Datagram, tcpVars
  <1>3. k \in Keys /\ by_target'[t] \in Handles /\ k[1] = by_target'[t]
    BY <1>1, EnsureTables DEF Keys
  <1>4. k \in Live => udp_flows[k].to = t
    <2> SUFFICES ASSUME k \in Live PROVE udp_flows[k].to = t
      OBVIOUS
    <2> DEFINE u == udp_flows[k].to
    <2>1. u \in Targets /\ by_target[u] = k[1] /\ by_target[u] # None
      BY <1>3, TargetFacts DEF TableInv, KindInv, HandlesAgree
    <2>2. sockets[k[1]] = u /\ by_handle[k[1]] = u
      BY <2>1 DEF TableInv, HandlesAgree
    <2>3. by_target'[t] = by_target[t]
      BY <1>1, <1>3, <2>1, <2>2, EnsureTables, TargetFacts
    <2>4. QED
      BY <1>1, <1>3, <2>2, <2>3, TargetFacts DEF TableInv, HandlesAgree
  <1>5. /\ \/ udp_flows' = [udp_flows EXCEPT ![k].took = @ \cup {t}, ![k].stale = FALSE]
              /\ k \in Live
           \/ udp_flows' = [udp_flows EXCEPT ![k] = FlowTo(t)]
           \/ udp_flows' = udp_flows
    BY DEF Datagram
  <1> HIDE DEF k
  <1> DEFINE Flow == [to : Targets \cup {None}, stale : BOOLEAN, took : SUBSET Targets]
  <1>6. /\ udp_flows' \in [Keys -> Flow]
        /\ \A j \in Keys : j # k => udp_flows'[j] = udp_flows[j]
        /\ \/ udp_flows'[k] = udp_flows[k]
           \/ udp_flows'[k].to = t /\ udp_flows'[k].took = {t}
           \/ /\ k \in Live /\ udp_flows'[k].to = udp_flows[k].to
              /\ udp_flows'[k].took = udp_flows[k].took \cup {t}
    <2>0. udp_flows \in [Keys -> Flow] /\ t \in Targets /\ udp_flows[k] \in Flow
      BY <1>1, <1>3 DEF TableInv, TypeOK
    <2>1. CASE udp_flows' = [udp_flows EXCEPT ![k].took = @ \cup {t}, ![k].stale = FALSE]
               /\ k \in Live
      <3>1. udp_flows' = [udp_flows EXCEPT ![k] =
                [udp_flows[k] EXCEPT !.took = @ \cup {t}, !.stale = FALSE]]
        BY <2>0, <2>1, <1>3
      <3>2. [udp_flows[k] EXCEPT !.took = @ \cup {t}, !.stale = FALSE] \in Flow
        BY <2>0
      <3>3. QED
        BY <2>0, <2>1, <3>1, <3>2, <1>3
    <2>2. CASE udp_flows' = [udp_flows EXCEPT ![k] = FlowTo(t)]
      BY <2>0, <2>2, <1>3 DEF FlowTo
    <2>3. QED
      BY <1>5, <2>0, <2>1, <2>2
  <1>7. \A j \in Live' :
            \/ j \in Live /\ udp_flows'[j].to = udp_flows[j].to
                          /\ udp_flows'[j].took = udp_flows[j].took
            \/ j = k /\ udp_flows'[j].to = t /\ udp_flows'[j].took = {t}
    <2>1. \A j \in Live' : j # k \/ udp_flows'[k] = udp_flows[k] => j \in Live
      BY <1>6 DEF Live
    <2>2. k \in Live => udp_flows[k].took = {t}
      BY <1>4 DEF TableInv, RightTunnel
    <2>3. QED
      BY <1>3, <1>4, <1>6, <2>1, <2>2 DEF Live
  <1>8. TypeOK'
    BY <1>1, <1>2, <1>6, EnsureTables DEF TableInv, TypeOK
  <1>9. HandlesAgree'
    <2>1. \A j \in Live : by_target'[udp_flows[j].to] = j[1]
      BY <1>1, EnsureTables, TargetFacts DEF TableInv, HandlesAgree, KindInv, Live, Keys
    <2>2. \A j \in Live' : by_target'[udp_flows'[j].to] = j[1]
      BY <1>3, <1>7, <2>1
    <2>3. QED
      BY <1>1, <1>2, <2>2, EnsureTables DEF HandlesAgree
  <1>10. KindInv'
    <2>1. \A g \in active : by_handle'[g] = by_handle[g]
      BY <1>1, EnsureTables, TargetFacts DEF TableInv, KindInv, TypeOK
    <2>2. QED
      BY <1>2, <1>7, <2>1 DEF TableInv, KindInv
  <1>11. RightTunnel'
    BY <1>4, <1>7 DEF TableInv, RightTunnel
  <1>12. QED
    BY <1>8, <1>9, <1>10, <1>11 DEF TableInv

\* The accepted socket leaves the listeners for the flows, and the fresh one,
\* which was nobody's, takes its place.
LEMMA TcpAcceptTables == ASSUME TableInv, TcpAccept PROVE TableInv'
  <1>1. PICK h \in active, new \in Handles :
          /\ FreeHandle(new)
          /\ active' = active \ {h} /\ tcp_flows' = tcp_flows \cup {h}
          /\ LET t == by_handle[h]
                 left == Unlisted({t})
                 fresh == IF left[t] = None THEN {new} ELSE {}
             IN /\ sockets' = [g \in Handles |-> IF g \in fresh THEN t ELSE sockets[g]]
                /\ by_target' = IF fresh = {} THEN left ELSE [left EXCEPT ![t] = new]
                /\ by_handle' = [g \in Handles |-> IF g \in fresh THEN t
                                                   ELSE IF g = h THEN None ELSE by_handle[g]]
    BY DEF TcpAccept
  <1> DEFINE t == by_handle[h]
  <1>2. h \in Handles /\ t \in TcpTargets /\ t \in Targets /\ t # None
    BY <1>1, TargetFacts DEF TableInv, TypeOK, KindInv
  <1>3. by_target[t] = h /\ sockets[h] = t
    <2>1. by_target[t] = h
      BY <1>2 DEF TableInv, HandlesAgree
    <2>2. by_target[t] # None
      BY <1>2, <2>1, TargetFacts
    <2>3. QED
      BY <1>2, <2>1, <2>2 DEF TableInv, HandlesAgree
  <1>4. Unlisted({t})[t] = None
    BY <1>2 DEF Unlisted
  <1>5. /\ sockets' = [g \in Handles |-> IF g = new THEN t ELSE sockets[g]]
        /\ by_target' = [u \in Targets |-> IF u = t THEN new ELSE by_target[u]]
        /\ by_handle' = [g \in Handles |-> IF g = new THEN t
                                           ELSE IF g = h THEN None ELSE by_handle[g]]
    BY <1>1, <1>2, <1>4 DEF Unlisted
  <1>6. sockets[new] = None /\ by_handle[new] = None /\ new # h /\ new \notin tcp_flows
    BY <1>1, <1>2, <1>3 DEF FreeHandle, TableInv, HandlesAgree
  <1>7. udp_flows' = udp_flows /\ pc' = pc /\ idle' = idle /\ refused' = refused
    BY DEF TcpAccept
  <1>8. Live' = Live
    BY <1>7 DEF Live
  <1> HIDE DEF t
  <1>9. TypeOK'
    <2>1. sockets' \in [Handles -> Targets \cup {None}]
      BY <1>2, <1>5 DEF TableInv, TypeOK
    <2>2. by_handle' \in [Handles -> Targets \cup {None}]
      BY <1>2, <1>5 DEF TableInv, TypeOK
    <2>3. by_target' \in [Targets -> Handles \cup {None}]
      BY <1>2, <1>5 DEF TableInv, TypeOK
    <2>4. QED
      BY <1>1, <1>2, <1>7, <2>1, <2>2, <2>3 DEF TableInv, TypeOK
  <1>10. HandlesAgree'
    <2>1. \A u \in Targets : u # t => by_target[u] # h /\ by_target[u] # new
      BY <1>2, <1>3, <1>6, TargetFacts DEF TableInv, HandlesAgree, TypeOK, t
    <2>2. \A u \in Targets : by_target'[u] # None =>
            by_handle'[by_target'[u]] = u /\ sockets'[by_target'[u]] = u
      BY <1>2, <1>5, <1>6, <2>1 DEF TableInv, HandlesAgree, TypeOK
    <2>3. \A g \in Handles : by_handle'[g] # None => by_target'[by_handle'[g]] = g
      BY <1>2, <1>3, <1>5, <1>6, TargetFacts DEF TableInv, HandlesAgree, TypeOK
    <2>4. \A g \in Handles : sockets'[g] # None <=> (by_handle'[g] # None \/ g \in tcp_flows')
      BY <1>1, <1>2, <1>3, <1>5, <1>6 DEF TableInv, HandlesAgree, TypeOK
    <2>5. \A g \in tcp_flows' : by_handle'[g] = None
      BY <1>1, <1>2, <1>5, <1>6 DEF TableInv, HandlesAgree, TypeOK
    <2>6. \A k \in Live : by_target'[udp_flows[k].to] = k[1]
      BY <1>2, <1>5, TargetFacts DEF TableInv, HandlesAgree, KindInv
    <2>7. QED
      BY <1>7, <1>8, <2>2, <2>3, <2>4, <2>5, <2>6 DEF HandlesAgree
  <1>11. KindInv'
    BY <1>1, <1>2, <1>5, <1>6, <1>7, <1>8, TargetFacts DEF TableInv, KindInv, TypeOK
  <1>12. RightTunnel'
    BY <1>7, <1>8 DEF TableInv, RightTunnel
  <1>13. QED
    BY <1>9, <1>10, <1>11, <1>12 DEF TableInv

LEMMA TcpFlowEndsTables == ASSUME TableInv, TcpFlowEnds PROVE TableInv'
  <1>1. PICK h \in tcp_flows : tcp_flows' = tcp_flows \ {h}
                               /\ sockets' = [sockets EXCEPT ![h] = None]
    BY DEF TcpFlowEnds
  <1>2. /\ pc' = pc /\ by_target' = by_target /\ by_handle' = by_handle /\ idle' = idle
        /\ active' = active /\ refused' = refused /\ udp_flows' = udp_flows
    BY DEF TcpFlowEnds
  <1>3. Live' = Live
    BY <1>2 DEF Live
  <1>4. h \in Handles /\ by_handle[h] = None
    BY <1>1 DEF TableInv, TypeOK, HandlesAgree
  <1>5. TypeOK'
    BY <1>1, <1>2 DEF TableInv, TypeOK
  <1>6. HandlesAgree'
    <2>1. \A u \in Targets : by_target[u] # None => by_target[u] # h
      BY <1>4, TargetFacts DEF TableInv, HandlesAgree
    <2>2. QED
      BY <1>1, <1>2, <1>3, <1>4, <2>1 DEF TableInv, HandlesAgree, TypeOK
  <1>7. KindInv' /\ RightTunnel'
    BY <1>2, <1>3 DEF TableInv, KindInv, RightTunnel
  <1>8. QED
    BY <1>5, <1>6, <1>7 DEF TableInv

\* A pass over the flows, or the passing of time, only drops flows and changes
\* their age.
LEMMA FlowsAged ==
    ASSUME TableInv, UNCHANGED <<listenerVars, tcpVars>>,
           pc' \in {"drain", "process", "sweep", "sleep"}, idle' \in [Targets -> BOOLEAN],
           udp_flows' \in [Keys -> [to : Targets \cup {None}, stale : BOOLEAN, took : SUBSET Targets]],
           \A k \in Keys : \/ udp_flows'[k] = NoFlow
                           \/ /\ k \in Live /\ udp_flows'[k].to = udp_flows[k].to
                              /\ udp_flows'[k].took = udp_flows[k].took
    PROVE  TableInv'
  <1>1. \A k \in Live' : /\ k \in Live /\ udp_flows'[k].to = udp_flows[k].to
                         /\ udp_flows'[k].took = udp_flows[k].took
    BY DEF Live
  <1>2. TypeOK'
    BY DEF TableInv, TypeOK, listenerVars, tcpVars
  <1>3. HandlesAgree'
    BY <1>1 DEF TableInv, HandlesAgree, listenerVars, tcpVars
  <1>4. KindInv' /\ RightTunnel'
    BY <1>1 DEF TableInv, KindInv, RightTunnel, listenerVars, tcpVars
  <1>5. QED
    BY <1>2, <1>3, <1>4 DEF TableInv

LEMMA ProcessUdpTables == ASSUME TableInv, ProcessUdp PROVE TableInv'
  <1>1. PICK answered \in SUBSET Visited, closed \in SUBSET Visited :
          udp_flows' = [k \in Keys |->
            IF k \in Reaped(answered, closed) THEN NoFlow
            ELSE IF k \in answered THEN [udp_flows[k] EXCEPT !.stale = FALSE]
            ELSE udp_flows[k]]
    BY DEF ProcessUdp
  <1> DEFINE Flow == [to : Targets \cup {None}, stale : BOOLEAN, took : SUBSET Targets]
  <1>2. \A k \in Keys : udp_flows[k] \in Flow /\ NoFlow \in Flow
    BY DEF TableInv, TypeOK, NoFlow
  <1>3. \A k \in answered : k \in Live
    BY DEF Visited
  <1>4. ASSUME NEW k \in Keys
        PROVE  /\ udp_flows'[k] \in Flow
               /\ \/ udp_flows'[k] = NoFlow
                  \/ /\ k \in Live /\ udp_flows'[k].to = udp_flows[k].to
                     /\ udp_flows'[k].took = udp_flows[k].took
    <2>1. CASE k \in Reaped(answered, closed)
      <3>1. udp_flows'[k] = NoFlow
        BY <1>1, <2>1
      <3>2. QED
        BY <1>2, <3>1
    <2>2. CASE k \notin Reaped(answered, closed) /\ k \in answered
      <3>1. udp_flows'[k] = [udp_flows[k] EXCEPT !.stale = FALSE]
        BY <1>1, <2>2
      <3>2. QED
        BY <1>2, <1>3, <2>2, <3>1
    <2>3. CASE k \notin Reaped(answered, closed) /\ k \notin answered
      <3>1. udp_flows'[k] = udp_flows[k]
        BY <1>1, <2>3
      <3>2. QED
        BY <1>2, <3>1 DEF Live
    <2>4. QED
      BY <2>1, <2>2, <2>3
  <1>5. udp_flows' \in [Keys -> Flow]
    BY <1>1, <1>4
  <1>6. QED
    BY <1>4, <1>5, FlowsAged DEF ProcessUdp, TableInv, TypeOK

LEMMA TimePassesTables == ASSUME TableInv, TimePasses PROVE TableInv'
  <1> DEFINE Flow == [to : Targets \cup {None}, stale : BOOLEAN, took : SUBSET Targets]
  <1>1. ASSUME NEW k \in Keys
        PROVE  /\ udp_flows'[k] \in Flow
               /\ \/ udp_flows'[k] = NoFlow
                  \/ /\ k \in Live /\ udp_flows'[k].to = udp_flows[k].to
                     /\ udp_flows'[k].took = udp_flows[k].took
    <2>1. udp_flows[k] \in Flow /\ udp_flows'[k] = [udp_flows[k] EXCEPT !.stale = k \in Live]
      BY DEF TableInv, TypeOK, TimePasses
    <2>2. CASE k \in Live
      BY <2>1, <2>2
    <2>3. CASE k \notin Live
      <3>1. udp_flows[k] = NoFlow /\ (k \in Live) = FALSE
        BY <2>3 DEF Live
      <3>2. udp_flows'[k] = [NoFlow EXCEPT !.stale = FALSE]
        BY <2>1, <3>1
      <3>3. udp_flows'[k] = NoFlow
        BY <3>2 DEF NoFlow
      <3>4. QED
        BY <2>1, <3>1, <3>3
    <2>4. QED
      BY <2>2, <2>3
  <1>2. udp_flows' = [k \in Keys |-> [udp_flows[k] EXCEPT !.stale = k \in Live]]
    BY DEF TimePasses
  <1>3. udp_flows' \in [Keys -> Flow]
    BY <1>1, <1>2
  <1>4. idle' \in [Targets -> BOOLEAN]
    BY DEF TimePasses, TableInv, TypeOK
  <1>5. QED
    BY <1>1, <1>3, <1>4, FlowsAged DEF TimePasses, TableInv, TypeOK

\* The sweep takes a listener out of all three tables, and none that a flow or
\* an accepted connection needs.
LEMMA SweepTables == ASSUME TableInv, Sweep PROVE TableInv'
  <1> DEFINE ts == {t \in Targets : Swept(t)}
             hs == {by_target[t] : t \in ts}
  <1>1. /\ by_target' = [t \in Targets |-> IF t \in ts THEN None ELSE by_target[t]]
        /\ by_handle' = [h \in Handles |-> IF h \in hs THEN None ELSE by_handle[h]]
        /\ sockets' = [h \in Handles |-> IF h \in hs THEN None ELSE sockets[h]]
        /\ pc' = "sleep"
    BY DEF Sweep, Unlisted
  <1>2. /\ idle' = idle /\ active' = active /\ tcp_flows' = tcp_flows
        /\ refused' = refused /\ udp_flows' = udp_flows
    BY DEF Sweep, tcpVars
  <1>3. Live' = Live
    BY <1>2 DEF Live
  <1>4. \A h \in Handles : h \in hs <=> by_handle[h] \in ts
    BY TargetFacts DEF TableInv, HandlesAgree, TypeOK, Swept
  <1>5. \A t \in Targets : by_target[t] # None => (by_target[t] \in hs <=> t \in ts)
    BY <1>4, TargetFacts DEF TableInv, HandlesAgree, TypeOK
  <1>6. \A h \in active : h \notin hs
    BY DEF Swept
  <1>7. \A k \in Live : udp_flows[k].to \notin ts
    BY TargetFacts DEF TableInv, HandlesAgree, KindInv, Swept
  <1>8. \A h \in hs : h \notin tcp_flows
    BY <1>4, TargetFacts DEF TableInv, HandlesAgree, TypeOK
  <1> HIDE DEF ts, hs
  <1>9. TypeOK'
    BY <1>1, <1>2 DEF TableInv, TypeOK
  <1>10. HandlesAgree'
    <2>1. \A u \in Targets : by_target'[u] # None =>
            by_handle'[by_target'[u]] = u /\ sockets'[by_target'[u]] = u
      BY <1>1, <1>5 DEF TableInv, HandlesAgree, TypeOK
    <2>2. \A h \in Handles : by_handle'[h] # None => by_target'[by_handle'[h]] = h
      BY <1>1, <1>4 DEF TableInv, HandlesAgree, TypeOK
    <2>3. \A h \in Handles : sockets'[h] # None <=> (by_handle'[h] # None \/ h \in tcp_flows')
      BY <1>1, <1>2, <1>8 DEF TableInv, HandlesAgree
    <2>4. \A h \in tcp_flows' : by_handle'[h] = None
      BY <1>1, <1>2 DEF TableInv, HandlesAgree, TypeOK
    <2>5. \A k \in Live : by_target'[udp_flows[k].to] = k[1]
      BY <1>1, <1>7, TargetFacts DEF TableInv, HandlesAgree, KindInv
    <2>6. QED
      BY <1>2, <1>3, <2>1, <2>2, <2>3, <2>4, <2>5 DEF HandlesAgree
  <1>11. KindInv' /\ RightTunnel'
    BY <1>1, <1>2, <1>3, <1>6 DEF TableInv, KindInv, RightTunnel, TypeOK
  <1>12. QED
    BY <1>9, <1>10, <1>11 DEF TableInv

LEMMA NextTables == TableInv /\ [Next]_vars => TableInv'
  <1> SUFFICES ASSUME TableInv, [Next]_vars PROVE TableInv'
    OBVIOUS
  <1>1. CASE \E t \in TcpTargets : Syn(t)
    BY <1>1, SynTables
  <1>2. CASE \E t \in UdpTargets, s \in Sources : Datagram(t, s)
    BY <1>2, DatagramTables
  <1>3. CASE TcpAccept \/ TcpFlowEnds \/ ProcessUdp \/ Sweep \/ TimePasses
    BY <1>3, TcpAcceptTables, TcpFlowEndsTables, ProcessUdpTables, SweepTables, TimePassesTables
  <1>4. CASE DrainDone \/ NoSweep \/ WakeUp
    <2>1. UNCHANGED <<listenerVars, idle, tcpVars, udp_flows>>
          /\ pc' \in {"drain", "process", "sweep", "sleep"}
      BY <1>4 DEF DrainDone, NoSweep, WakeUp
    <2>2. Live' = Live
      BY <2>1 DEF Live
    <2>3. QED
      BY <2>1, <2>2 DEF TableInv, TypeOK, HandlesAgree, KindInv, RightTunnel, listenerVars, tcpVars
  <1>5. CASE UNCHANGED vars
    <2>1. Live' = Live
      BY <1>5 DEF Live, vars
    <2>2. QED
      BY <1>5, <2>1 DEF TableInv, TypeOK, HandlesAgree, KindInv, RightTunnel, vars,
                        listenerVars, tcpVars
  <1>6. QED
    BY <1>1, <1>2, <1>3, <1>4, <1>5 DEF Next

LEMMA TablesInvariant == Spec => []TableInv
  BY InitTables, NextTables, PTL DEF Spec

\* The variables keep their types.
THEOREM TypeCorrect == Spec => []TypeOK
  <1>1. TableInv => TypeOK
    BY DEF TableInv
  <1>2. QED
    BY <1>1, TablesInvariant, PTL

\* Listeners, connections and UDP flows never disagree about a handle,
\* although handles of removed sockets come back.
THEOREM HandlesNeverDangle == Spec => []HandlesAgree
  <1>1. TableInv => HandlesAgree
    BY DEF TableInv
  <1>2. QED
    BY <1>1, TablesInvariant, PTL

\* No datagram enters the tunnel of another destination.
THEOREM DatagramsKeepTheirTunnel == Spec => []RightTunnel
  <1>1. TableInv => RightTunnel
    BY DEF TableInv
  <1>2. QED
    BY <1>1, TablesInvariant, PTL

\* A connection request is refused only if its listener has accepted another
\* one in the same pass.
THEOREM SynIsServed == Spec => SynServed
  <1>1. ASSUME TableInv, NEW t \in TcpTargets, Syn(t), refused' PROVE by_target[t] \in active
    <2>1. t \in Targets /\ Ensure(t)
      BY <1>1, TargetFacts DEF Syn
    <2> DEFINE h == by_target'[t]
    <2>2. h \in Handles /\ sockets'[h] = t /\ by_handle'[h] = t /\ t # None
      BY <1>1, <2>1, EnsureTables, TargetFacts
    <2>3. h \notin tcp_flows
      BY <1>1, <2>1, <2>2, EnsureTables
    <2>4. h \in active
      BY <1>1, <2>2, <2>3 DEF Syn
    <2>5. sockets[h] # None
      BY <1>1, <2>2, <2>4, TargetFacts DEF TableInv, KindInv, HandlesAgree
    <2>6. QED
      BY <1>1, <2>1, <2>4, <2>5, EnsureTables
  <1>2. TableInv /\ [Next]_vars =>
            [\A t \in TcpTargets : Syn(t) /\ refused' => by_target[t] \in active]_vars
    BY <1>1
  <1>3. QED
    BY <1>2, TablesInvariant, PTL DEF Spec, SynServed

-----------------------------------------------------------------------------
LEMMA LiveFinite == IsFiniteSet(Live)
  <1>1. IsFiniteSet(Handles)
    <2>1. Cardinality(Targets) \in Nat
      BY FS_CardinalityType, TargetAssumption
    <2>2. Cardinality(Targets) + MaxTcpFlows \in Int /\ 1 \in Int
      BY <2>1, LimitAssumption
    <2>3. QED
      BY <2>2, FS_Interval DEF Handles
  <1>2. IsFiniteSet(Keys)
    BY <1>1, FS_Product, TargetAssumption DEF Keys
  <1>3. QED
    BY <1>2, FS_Subset DEF Live

\* The flows of a step are those before it, or one more where there was room.
LEMMA LiveGrows ==
    ASSUME TableInv, [Next]_vars
    PROVE  \/ Live' \subseteq Live
           \/ RoomForFlow /\ \E k \in Keys : Live' \subseteq Live \cup {k}
  <1>1. ASSUME NEW t \in UdpTargets, NEW s \in Sources, Datagram(t, s)
        PROVE  \/ Live' \subseteq Live
               \/ RoomForFlow /\ \E k \in Keys : Live' \subseteq Live \cup {k}
    <2> DEFINE k == <<by_target'[t], s>>
    <2>0. k \in Keys
      BY <1>1, EnsureTables, TargetFacts DEF Keys, Datagram
    <2>1. CASE k \in Live
      <3>1. udp_flows' = [udp_flows EXCEPT ![k].took = @ \cup {t}, ![k].stale = FALSE]
        BY <1>1, <2>1 DEF Datagram
      <3>2. \A j \in Keys : j # k => udp_flows'[j] = udp_flows[j]
        BY <2>0, <3>1 DEF TableInv, TypeOK
      <3>3. QED
        BY <2>1, <3>2 DEF Live
    <2>2. CASE k \notin Live /\ RoomForFlow
      <3>1. udp_flows' = [udp_flows EXCEPT ![k] = FlowTo(t)]
        BY <1>1, <2>2 DEF Datagram
      <3>2. \A j \in Keys : j # k => udp_flows'[j] = udp_flows[j]
        BY <2>0, <3>1 DEF TableInv, TypeOK
      <3>3. QED
        BY <2>0, <2>2, <3>2 DEF Live
    <2>3. CASE k \notin Live /\ ~RoomForFlow
      BY <1>1, <2>3 DEF Datagram, Live
    <2>4. QED
      BY <2>1, <2>2, <2>3
  <1>2. ASSUME ProcessUdp PROVE Live' \subseteq Live
    <2>1. PICK answered \in SUBSET Visited, closed \in SUBSET Visited :
          udp_flows' = [k \in Keys |->
            IF k \in Reaped(answered, closed) THEN NoFlow
            ELSE IF k \in answered THEN [udp_flows[k] EXCEPT !.stale = FALSE]
            ELSE udp_flows[k]]
      BY <1>2 DEF ProcessUdp
    <2>2. answered \subseteq Live
      BY DEF Visited
    <2>3. \A k \in Keys : k \notin answered => udp_flows'[k] \in {NoFlow, udp_flows[k]}
      BY <2>1
    <2>4. QED
      BY <2>2, <2>3 DEF Live
  <1>3. ASSUME TimePasses PROVE Live' \subseteq Live
    <2>1. ASSUME NEW k \in Keys, k \notin Live PROVE udp_flows'[k] = NoFlow
      <3>1. udp_flows[k] = NoFlow /\ (k \in Live) = FALSE
        BY <2>1 DEF Live
      <3>2. udp_flows'[k] = [udp_flows[k] EXCEPT !.stale = k \in Live]
        BY <1>3, <2>1 DEF TimePasses
      <3>3. udp_flows'[k] = [NoFlow EXCEPT !.stale = FALSE]
        BY <3>1, <3>2
      <3>4. QED
        BY <3>3 DEF NoFlow
    <2>2. QED
      BY <2>1 DEF Live
  <1>4. ASSUME udp_flows' = udp_flows PROVE Live' \subseteq Live
    BY <1>4 DEF Live
  <1>5. QED
    BY <1>1, <1>2, <1>3, <1>4 DEF Next, Syn, DrainDone, TcpAccept, TcpFlowEnds, Sweep, NoSweep,
                                 WakeUp, vars

\* The table of UDP flows never exceeds MAX_UDP_FLOWS.
THEOREM FlowTableBounded == Spec => []FlowLimit
  <1>1. Init => FlowLimit
    <2> SUFFICES ASSUME Init PROVE FlowLimit
      OBVIOUS
    <2>1. Live = {}
      BY DEF Init, Live
    <2>2. QED
      BY <2>1, FS_EmptySet, LimitAssumption DEF FlowLimit
  <1>2. ASSUME TableInv, FlowLimit, [Next]_vars PROVE FlowLimit'
    <2>1. IsFiniteSet(Live) /\ Cardinality(Live) \in Nat
      BY LiveFinite, FS_CardinalityType
    <2>2. CASE Live' \subseteq Live
      <3>1. Cardinality(Live') <= Cardinality(Live) /\ IsFiniteSet(Live')
        BY <2>1, <2>2, FS_Subset
      <3>2. Cardinality(Live') \in Nat
        BY <3>1, FS_CardinalityType
      <3>3. QED
        BY <1>2, <2>1, <3>1, <3>2, LimitAssumption DEF FlowLimit
    <2>3. CASE RoomForFlow /\ \E k \in Keys : Live' \subseteq Live \cup {k}
      <3>1. PICK k \in Keys : Live' \subseteq Live \cup {k}
        BY <2>3
      <3>2. /\ IsFiniteSet(Live \cup {k})
            /\ Cardinality(Live \cup {k}) \in {Cardinality(Live), Cardinality(Live) + 1}
        BY <2>1, FS_AddElement
      <3>3. Cardinality(Live') <= Cardinality(Live \cup {k}) /\ IsFiniteSet(Live')
        BY <3>1, <3>2, FS_Subset
      <3>4. Cardinality(Live') \in Nat
        BY <3>3, FS_CardinalityType
      <3>5. QED
        BY <2>1, <2>3, <3>2, <3>3, <3>4, LimitAssumption DEF RoomForFlow, FlowLimit
    <2>4. QED
      BY <1>2, <2>2, <2>3, LiveGrows
  <1>3. QED
    BY <1>1, <1>2, TablesInvariant, PTL DEF Spec
=============================================================================
