---------------------------- MODULE StackTables ----------------------------
(***************************************************************************)
(* The tables of the TUN protocol stack's loop (run_transport_stack): the  *)
(* socket set, the listeners, the TCP flows and the UDP flows, which refer *)
(* to each other by socket handles.  All of them belong to the loop's      *)
(* thread; a pass drains the packets that have come (point "drain"),       *)
(* processes TCP, then UDP and the sweep ("process"), and sleeps.  What    *)
(* the flows' threads do is in TcpFlow and UdpFlow; here a flow ends, or   *)
(* has a reply, whenever it likes.                                         *)
(*                                                                         *)
(* smoltcp is external: a SYN makes a listening socket active or, where    *)
(* none listens, is refused; SocketSet gives out the lowest free index, so *)
(* the handle of a removed socket comes back.  The poll takes each packet  *)
(* as it is drained: nothing can come in between.                          *)
(*                                                                         *)
(* The wall clock is abstracted to what it is asked: whether a UDP flow    *)
(* (60 s) or a listener (5 min) was without traffic for too long.  It may  *)
(* jump whenever the loop sleeps, as it does on a suspended host.          *)
(***************************************************************************)
EXTENDS Integers, FiniteSets

CONSTANTS TcpTargets, UdpTargets,   \* destinations (address and port)
          Sources,       \* local endpoints that send datagrams
          MaxUdpFlows,   \* MAX_UDP_FLOWS
          MaxTcpFlows    \* bound: connections at a time

Targets == TcpTargets \cup UdpTargets
None == 0

ASSUME TargetAssumption ==
    /\ TcpTargets \cap UdpTargets = {} /\ IsFiniteSet(Targets) /\ None \notin Targets
    /\ IsFiniteSet(Sources)
ASSUME LimitAssumption == MaxUdpFlows \in Nat \ {0} /\ MaxTcpFlows \in Nat

\* One socket per listener, one per connection.
Handles == 1 .. (Cardinality(Targets) + MaxTcpFlows)
Keys == Handles \X Sources

VARIABLES
    pc,         \* point of the loop
    sockets,    \* each handle: the target of its socket, or None
    by_target, by_handle,   \* Listeners, the TCP and the UDP instance
    idle,       \* last_used is LISTENER_IDLE_TIMEOUT_MS ago, or missing
    active,     \* listening sockets that have accepted a SYN
    tcp_flows,  \* handles of accepted connections
    refused,    \* the last SYN was answered with a reset
    udp_flows   \* the UDP flow of each handle and source

listenerVars == <<sockets, by_target, by_handle>>
tcpVars == <<active, tcp_flows, refused>>
vars == <<pc, listenerVars, idle, tcpVars, udp_flows>>

\* A UDP flow: the destination its tunnel is for, whether it has been idle
\* for UDP_FLOW_IDLE_TIMEOUT_MS, and the destinations of the datagrams it took.
FlowTo(t) == [to |-> t, stale |-> FALSE, took |-> {t}]
NoFlow == [to |-> None, stale |-> FALSE, took |-> {}]

Init ==
    /\ pc = "drain"
    /\ sockets = [h \in Handles |-> None]
    /\ by_target = [t \in Targets |-> None]
    /\ by_handle = [h \in Handles |-> None]
    /\ idle = [t \in Targets |-> TRUE]
    /\ active = {} /\ tcp_flows = {} /\ refused = FALSE
    /\ udp_flows = [k \in Keys |-> NoFlow]

Live == {k \in Keys : udp_flows[k] # NoFlow}

-----------------------------------------------------------------------------
(* Packets.                                                                *)

FreeHandle(h) == sockets[h] = None /\ \A g \in Handles : sockets[g] = None => h <= g

\* ensure_tcp_listener and ensure_udp_listener, then touch.
Ensure(t) ==
    /\ IF by_target[t] # None
       THEN UNCHANGED listenerVars
       ELSE \E h \in Handles :
            /\ FreeHandle(h)
            /\ sockets' = [sockets EXCEPT ![h] = t]
            /\ by_target' = [by_target EXCEPT ![t] = h]
            /\ by_handle' = [by_handle EXCEPT ![h] = t]
    /\ idle' = [idle EXCEPT ![t] = FALSE]

\* The packet of a new connection.
Syn(t) ==
    /\ pc = "drain"
    /\ Cardinality(active \cup tcp_flows) < MaxTcpFlows
    /\ Ensure(t)
    /\ LET h == by_target'[t]
           listens == sockets'[h] = t /\ h \notin active \cup tcp_flows
       IN /\ active' = IF listens THEN active \cup {h} ELSE active
          /\ refused' = ~listens
    /\ UNCHANGED <<pc, tcp_flows, udp_flows>>

RoomForFlow == Cardinality(Live) < MaxUdpFlows

\* A datagram goes to the flow of its socket and source; without one it
\* starts one, or is dropped when the table is full.
Datagram(t, s) ==
    /\ pc = "drain"
    /\ Ensure(t)
    /\ LET k == <<by_target'[t], s>> IN
        udp_flows' =
            CASE k \in Live -> [udp_flows EXCEPT ![k].took = @ \cup {t}, ![k].stale = FALSE]
              [] k \notin Live /\ RoomForFlow -> [udp_flows EXCEPT ![k] = FlowTo(t)]
              [] OTHER -> udp_flows
    /\ UNCHANGED <<pc, tcpVars>>

DrainDone ==
    /\ pc = "drain"
    /\ pc' = "process"
    /\ UNCHANGED <<listenerVars, idle, tcpVars, udp_flows>>

-----------------------------------------------------------------------------
(* process_tcp.                                                            *)

\* Mutant of Unlisted: by_target keeps the handles.
UnlistedByHandle(ts) == by_target

\* by_target after Listeners::remove_handle for the listeners of ts.
Unlisted(ts) == [t \in Targets |-> IF t \in ts THEN None ELSE by_target[t]]

\* A listener that accepted a connection becomes the flow's socket, and a
\* fresh one takes its place (unless there is one).
TcpAccept ==
    /\ pc = "process"
    /\ \E h \in active, new \in Handles :
        LET t == by_handle[h]
            left == Unlisted({t})
            fresh == IF left[t] = None THEN {new} ELSE {}
        IN /\ FreeHandle(new)
           /\ active' = active \ {h}
           /\ tcp_flows' = tcp_flows \cup {h}
           /\ sockets' = [g \in Handles |-> IF g \in fresh THEN t ELSE sockets[g]]
           /\ by_target' = IF fresh = {} THEN left ELSE [left EXCEPT ![t] = new]
           /\ by_handle' = [g \in Handles |-> IF g \in fresh THEN t
                                              ELSE IF g = h THEN None ELSE by_handle[g]]
    /\ UNCHANGED <<pc, idle, refused, udp_flows>>

\* A connection ends: its flow and its socket are removed.
TcpFlowEnds ==
    /\ pc = "process" /\ active = {}
    /\ \E h \in tcp_flows :
        /\ tcp_flows' = tcp_flows \ {h}
        /\ sockets' = [sockets EXCEPT ![h] = None]
    /\ UNCHANGED <<pc, by_target, by_handle, idle, active, refused, udp_flows>>

-----------------------------------------------------------------------------
(* process_udp and the sweep.                                              *)

\* Only the flows of a listener's handle are visited, so only they hear of
\* replies, connect results and the end of their tunnel.
Visited == {k \in Live : \E t \in UdpTargets : by_target[t] = k[1]}

\* udp_flow_expired: closed, or idle and not answered in this pass.
Reaped(answered, closed) == closed \cup {k \in Live \ answered : udp_flows[k].stale}

\* Mutant of Swept: a listener goes although flows use its handle.
SweptInUse(t) == by_target[t] # None /\ idle[t]

\* The listeners sweep_idle_listeners removes: without traffic, still
\* listening, and of no UDP flow.
Swept(t) ==
    /\ by_target[t] # None /\ idle[t]
    /\ by_target[t] \notin active
    /\ \A k \in Live : k[1] # by_target[t]

ProcessUdp ==
    /\ pc = "process" /\ active = {}
    /\ \E answered \in SUBSET Visited, closed \in SUBSET Visited :
        udp_flows' = [k \in Keys |->
            IF k \in Reaped(answered, closed) THEN NoFlow
            ELSE IF k \in answered THEN [udp_flows[k] EXCEPT !.stale = FALSE]
            ELSE udp_flows[k]]
    /\ pc' = "sweep"
    /\ UNCHANGED <<listenerVars, idle, tcpVars>>

Sweep ==
    /\ pc = "sweep"
    /\ LET ts == {t \in Targets : Swept(t)}
           hs == {by_target[t] : t \in ts}
       IN /\ by_target' = Unlisted(ts)
          /\ by_handle' = [h \in Handles |-> IF h \in hs THEN None ELSE by_handle[h]]
          /\ sockets' = [h \in Handles |-> IF h \in hs THEN None ELSE sockets[h]]
    /\ pc' = "sleep"
    /\ UNCHANGED <<idle, tcpVars, udp_flows>>

\* The sweep is due only every LISTENER_SWEEP_INTERVAL_MS.
NoSweep ==
    /\ pc = "sweep"
    /\ pc' = "sleep"
    /\ UNCHANGED <<listenerVars, idle, tcpVars, udp_flows>>

\* UDP_FLOW_IDLE_TIMEOUT_MS, perhaps also LISTENER_IDLE_TIMEOUT_MS, go by.
TimePasses ==
    /\ pc = "sleep"
    /\ udp_flows' = [k \in Keys |-> [udp_flows[k] EXCEPT !.stale = k \in Live]]
    /\ idle' \in {idle, [t \in Targets |-> TRUE]}
    /\ UNCHANGED <<pc, listenerVars, tcpVars>>

WakeUp ==
    /\ pc = "sleep"
    /\ pc' = "drain"
    /\ UNCHANGED <<listenerVars, idle, tcpVars, udp_flows>>

Next ==
    \/ \E t \in TcpTargets : Syn(t)
    \/ \E t \in UdpTargets, s \in Sources : Datagram(t, s)
    \/ DrainDone \/ TcpAccept \/ TcpFlowEnds
    \/ ProcessUdp \/ Sweep \/ NoSweep \/ TimePasses \/ WakeUp

Spec == Init /\ [][Next]_vars

-----------------------------------------------------------------------------
\* The values the variables range over.
TypeOK ==
    /\ pc \in {"drain", "process", "sweep", "sleep"}
    /\ sockets \in [Handles -> Targets \cup {None}]
    /\ by_handle \in [Handles -> Targets \cup {None}]
    /\ by_target \in [Targets -> Handles \cup {None}]
    /\ idle \in [Targets -> BOOLEAN] /\ refused \in BOOLEAN
    /\ active \subseteq Handles /\ tcp_flows \subseteq Handles
    /\ udp_flows \in [Keys -> [to : Targets \cup {None}, stale : BOOLEAN,
                               took : SUBSET Targets]]

\* The table of UDP flows stays within MAX_UDP_FLOWS.
FlowLimit == Cardinality(Live) <= MaxUdpFlows

\* Handles are indexes that come back once a socket is removed, so none may
\* be left behind: the two maps of Listeners are inverse, every socket belongs
\* to one listener or one connection and to nothing else, and the handle of a
\* UDP flow is that of the listener of its own destination.
HandlesAgree ==
    /\ \A t \in Targets : by_target[t] # None =>
        by_handle[by_target[t]] = t /\ sockets[by_target[t]] = t
    /\ \A h \in Handles : by_handle[h] # None => by_target[by_handle[h]] = h
    /\ \A h \in Handles : sockets[h] # None <=> (by_handle[h] # None \/ h \in tcp_flows)
    /\ \A h \in tcp_flows : by_handle[h] = None
    /\ \A k \in Live : by_target[udp_flows[k].to] = k[1]

\* A handle that comes back never lets the datagrams for one destination into
\* the tunnel of another: a flow only took what was addressed to its own.
RightTunnel == \A k \in Live : udp_flows[k].took = {udp_flows[k].to}

\* "A listener that accepted a connection becomes that flow's socket; a fresh
\* listener takes its place for the next connection": a connection request is
\* refused only when the same pass has taken another one for its destination.
SynServed == [][\A t \in TcpTargets : Syn(t) /\ refused' => by_target[t] \in active]_vars
=============================================================================
