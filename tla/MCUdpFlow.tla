----------------------------- MODULE MCUdpFlow -----------------------------
(* One flow whose queues hold one or two datagrams.                        *)
EXTENDS UdpFlow
=============================================================================
