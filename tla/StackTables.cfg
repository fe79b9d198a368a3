SPECIFICATION Spec
CONSTANTS
    TcpTargets = {t}
    UdpTargets = {u, v}
    Sources = {s1, s2}
    MaxUdpFlows = 2
    MaxTcpFlows = 2
INVARIANTS HandlesAgree RightTunnel
PROPERTY SynServed
CHECK_DEADLOCK FALSE
