---------------------------- MODULE MCClusterOps ----------------------------
(* Small instances of ClusterOps: create makes one shard, scale adds one.   *)
EXTENDS ClusterOps

MCEnvironments ==
  {{}, {"crash"}, {"crash", "gossip"}, {"crash", "step"}, {"step", "rm"}, {"crash", "handshake"}}

Dependably == {{}}
WithFailures == {{"step"}}
=============================================================================
