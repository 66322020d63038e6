---------------------------- MODULE MCFlowTracker ----------------------------
(* Instances of FlowTracker for TLC.                                        *)
EXTENDS FlowTracker, TLC

CONSTANTS k1, k2

\* Timeouts: TCP flows idle out after 2, others after 1.
Idle == [p \in L4Protos |-> IF p = "tcp" THEN 2 ELSE 1]

Cfg(n, auto, mask, infer) ==
  [max_flows |-> n, idle_timeout |-> Idle, auto_sweep_interval |-> auto,
   suppress_events |-> mask, infer_tcp_initiator |-> infer,
   reassembly_memcap |-> None, reassembly_memcap_policy |-> "Ignore"]

\* A TCP and a UDP flow, every segment of a handshake, a teardown and a reset.
TwoKeys == {k1, k2}
TcpAndUdp == k1 :> "tcp" @@ k2 :> "udp"
Segments == {{"SYN"}, {"SYN", "ACK"}, {"ACK"}, {"FIN", "ACK"}, {"RST"}}

\* A table that shrinks to one flow and grows again, an auto-sweep, a mask.
Shrinking == {Cfg(2, 1, {}, TRUE), Cfg(0, None, {"Ended"}, FALSE)}
FirstNever == {k1 :> 0 @@ k2 :> None}

==============================================================================
