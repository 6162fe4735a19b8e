---------------------------- MODULE ShardConfigs ----------------------------
(***************************************************************************)
(* The configurations that any sequence of Join, Leave and Move leads to,  *)
(* one after the other, without their numbers: what shardLoadBalance may   *)
(* be given.  A Move may name any group, as the code does not look.        *)
(***************************************************************************)
EXTENDS ShardBalance

VARIABLES groups, shards

vars == <<groups, shards>>

Config == [num |-> 0, groups |-> groups, shards |-> shards]

Become(config) == groups' = config.groups /\ shards' = config.shards

Init == groups = InitConfig.groups /\ shards = InitConfig.shards

Join == \E gids \in SUBSET GIDs \ {{}} : \E order \in SetToSeqs(groups \cup gids) :
            Become(executeJoin(Config, gids, order))

Leave == \E gids \in SUBSET GIDs \ {{}} : \E order \in SetToSeqs(groups \ gids) :
            Become(executeLeave(Config, gids, order))

Move == \E s \in Shard, g \in GIDs : Become(executeMove(Config, s, g))

Next == Join \/ Leave \/ Move

Spec == Init /\ [][Next]_vars

-----------------------------------------------------------------------------

(* Every shard is some group's, and no group has two more than another. *)
Balanced(gs, sh) ==
    /\ \A s \in Shard : sh[s] \in gs
    /\ \A g, h \in gs : Load(sh, g) <= Load(sh, h) + 1

Moves(sh) == Cardinality({s \in Shard : sh[s] # shards[s]})

(* Every assignment a balancer could have chosen. *)
Candidates == [gs \in SUBSET GIDs |-> {sh \in [Shard -> gs] : Balanced(gs, sh)}]

(* What shardLoadBalance may return for the groups gs. *)
Outcomes(gs) == {shardLoadBalance(gs, shards, order) : order \in SetToSeqs(gs)}

(* server.go:443-445: whatever groups there are next, and whatever Moves   *)
(* have done to the balance, the loads end at most one apart, no shard is  *)
(* left without a group, and no balanced assignment moves fewer shards.    *)
FewestMoves ==
    \A gs \in SUBSET GIDs \ {{}} : \A sh \in Outcomes(gs) :
        /\ Balanced(gs, sh)
        /\ \A other \in Candidates[gs] : Moves(sh) <= Moves(other)

(* server.go:482: the order in which Go walks the map of groups does not   *)
(* show in the result, so replicas that apply the same log agree.          *)
OrderIrrelevant == \A gs \in SUBSET GIDs : Cardinality(Outcomes(gs)) = 1
=============================================================================
