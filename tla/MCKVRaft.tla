------------------------------ MODULE MCKVRaft ------------------------------
(* KVRaft on small instances. *)
EXTENDS KVRaft

CONSTANTS a, b

AppendAndGet == (a :> <<"Append">>) @@ (b :> <<"Get">>)
PutAndAppend == (a :> <<"Put">>) @@ (b :> <<"Append">>)
=============================================================================
