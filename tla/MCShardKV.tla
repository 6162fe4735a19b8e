----------------------------- MODULE MCShardKV -----------------------------
(* ShardKV on small instances. *)
EXTENDS ShardKV, TLC

CONSTANTS a

(* Shard 0 goes from group 1 to group 2, and back. *)
There == <<(0 :> 1 @@ 1 :> 1), (0 :> 2 @@ 1 :> 1)>>
ThereAndBack == Append(There, 0 :> 1 @@ 1 :> 1)

(* Servers of each group. *)
OneAndTwo == 1 :> 1 @@ 2 :> 2
OneEach == 1 :> 1 @@ 2 :> 1

(* One clerk writes, adds and reads. *)
WriteAddRead == a :> <<[type |-> "Put", key |-> 0], [type |-> "Append", key |-> 0], [type |-> "Get", key |-> 0]>>

(* It appends to a key that does not exist. *)
AppendFirst == a :> <<[type |-> "Put", key |-> 0], [type |-> "Append", key |-> 2]>>
=============================================================================
