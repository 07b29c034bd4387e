------------------------------ MODULE MCBdbuf ------------------------------
(* Two devices that share one group: d1 with one large buffer per group, d2 *)
(* with two small ones, so that an access to the other device reallocates    *)
(* the group.  Both tasks ask for the first block of d2.                     *)
EXTENDS Bdbuf, TLC

CONSTANTS u1, u2, d1, d2, w1

DeviceCount == d1 :> 1 @@ d2 :> 3
DeviceSize == d1 :> 1 @@ d2 :> 2

TaskCalls == u1 :> {"get", "release", "modified", "purge"} @@
             u2 :> {"read", "sync", "syncdev", "purge"}
TaskWants == u1 :> {<<d1, 0>>, <<d2, 0>>} @@ u2 :> {<<d2, 0>>, <<d2, 1>>}
=============================================================================
