---------------------------- MODULE MCShardMaster ----------------------------
(* Clerks for ShardMaster on small instances. *)
EXTENDS ShardMaster

CONSTANTS a, b

Joining(gids) == [type |-> "Join", gids |-> gids]
Leaving(gids) == [type |-> "Leave", gids |-> gids]
Querying(n) == [type |-> "Query", num |-> n]

(* Two groups join, each by a clerk of its own. *)
TwoJoins == a :> <<Joining({1})>> @@ b :> <<Joining({2})>>

(* A clerk alone. *)
OneAfterAnother == a :> <<Joining({1}), Leaving({1})>> @@ b :> <<>>

(* One clerk joins two groups while the other reads the latest configuration. *)
JoinAndRead == a :> <<Joining({1, 2})>> @@ b :> <<Querying(-1)>>
=============================================================================
