----------------------------- MODULE MCFlowDriver -----------------------------
(* Instances of FlowDriver for TLC.                                         *)
EXTENDS FlowDriver, TLC

CONSTANTS k1, k2

\* Only Ended events are built.
Quiet == EventKinds \ {"Ended"}

Cfg(n, auto, cap, policy) ==
  [max_flows |-> n, idle_timeout |-> [p \in L4Protos |-> 1],
   auto_sweep_interval |-> auto, suppress_events |-> Quiet,
   infer_tcp_initiator |-> FALSE,
   reassembly_memcap |-> cap, reassembly_memcap_policy |-> policy]

AllTcp == [k \in Keys |-> "tcp"]
NoIdleFns == {}
FlowsAlike == Permutations(Keys)

\* Memcap instance: one flow, both sides, every policy.
OneKey == {k1}
MemcapFlags == {{"ACK", "FIN"}}
MemcapConfigs == {Cfg(1, None, 1, policy) : policy \in MemcapPolicies}

\* Lifecycle instance: two flows that end in every way, an auto-sweep.
TwoKeys == {k1, k2}
LifecycleFlags == {{}, {"RST"}}
LifecycleConfigs == {Cfg(1, 1, None, "Ignore")}

\* A configuration that shrinks the table.
ShrinkConfigs == {Cfg(2, None, None, "Ignore"), Cfg(1, None, None, "Ignore")}

==============================================================================
