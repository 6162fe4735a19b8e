---------------------------- MODULE MCSnapshots ----------------------------
(* Snapshots on small instances. *)
EXTENDS Snapshots

CONSTANTS n1, n2

TwoOps == <<"op", "op">>
OpForeignOp == <<"op", "foreign", "op">>
=============================================================================
