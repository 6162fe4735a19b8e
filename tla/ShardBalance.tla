---------------------------- MODULE ShardBalance ----------------------------
(***************************************************************************)
(* src/shardmaster/server.go, the part without concurrency: how a          *)
(* configuration is made from the last one, and shardLoadBalance.          *)
(*                                                                         *)
(* A configuration's Groups is its set of group ids; the server names that *)
(* go with an id are carried along by the code and looked at by nobody     *)
(* here.  Go iterates over a map in any order: order is the order in which *)
(* shardLoadBalance meets the groups (line 470), chosen anew in each call. *)
(***************************************************************************)
EXTENDS Integers, FiniteSets, SequencesExt

CONSTANTS
    NShards,  \* number of shards
    GIDs      \* ids of replica groups; 0 is the id of no group

ASSUME ShardAssumption == NShards \in Nat \ {0}
ASSUME GroupAssumption == IsFiniteSet(GIDs) /\ GIDs \subseteq Nat \ {0}

Shard == 0 .. NShards - 1

Assignment == [Shard -> GIDs \cup {0}]

Unassigned == [s \in Shard |-> 0]

InitConfig == [num |-> 0, shards |-> Unassigned, groups |-> {}]

Load(shards, g) == Cardinality({s \in Shard : shards[s] = g})

(* The shards of groups that are gone are set free. *)
Kept(groups, shards) == [s \in Shard |-> IF shards[s] \in groups THEN shards[s] ELSE 0]

(* Mutant: no rule for equal loads. *)
Precedes_LoadOnly(shards, g, h) == Load(shards, g) > Load(shards, h)

Precedes(shards, g, h) ==
    \/ Load(shards, g) > Load(shards, h)
    \/ Load(shards, g) = Load(shards, h) /\ g < h

(* The places j of the two sorting loops, in the order in which they are   *)
(* visited: for each i from the first to the last but one, j runs from the *)
(* last down to i + 1.                                                     *)
Visits(n) == FlattenSeq([i \in 1 .. n - 1 |-> [k \in 1 .. n - i |-> n + 1 - k]])

SortGids(shards, order) ==
    FoldLeft(LAMBDA o, j : IF Precedes(shards, o[j], o[j-1])
                           THEN [o EXCEPT ![j-1] = o[j], ![j] = o[j-1]] ELSE o,
             order, Visits(Len(order)))

(* Mutant: i counted from 1 and compared as if from 0. *)
Target_OffByOne(n, i) == NShards \div n + (IF i < NShards % n THEN 1 ELSE 0)

(* Shards the i-th of n sorted groups ends with. *)
Target(n, i) == NShards \div n + (IF i <= NShards % n THEN 1 ELSE 0)

(* The first k shards that belong to g go to h (0: to nobody). *)
HandOver(shards, g, h, k) ==
    [s \in Shard |-> IF /\ shards[s] = g
                        /\ Cardinality({t \in 0 .. s - 1 : shards[t] = g}) < k
                     THEN h ELSE shards[s]]

shardLoadBalance(groups, lastShards, order) ==
    LET kept == Kept(groups, lastShards)
        gids == SortGids(kept, order)
        places == [i \in DOMAIN gids |-> i]
        delta(i) == Load(kept, gids[i]) - Target(Len(gids), i)
        freed == FoldLeft(LAMBDA sh, i : HandOver(sh, gids[i], 0, delta(i)), kept, places)
    IN  IF groups = {} THEN Unassigned
        ELSE FoldLeft(LAMBDA sh, i : HandOver(sh, 0, gids[i], -delta(i)), freed, places)

-----------------------------------------------------------------------------
(* The next configuration. *)

executeJoin(last, gids, order) ==
    [num |-> last.num + 1, groups |-> last.groups \cup gids,
     shards |-> shardLoadBalance(last.groups \cup gids, last.shards, order)]

executeLeave(last, gids, order) ==
    [num |-> last.num + 1, groups |-> last.groups \ gids,
     shards |-> IF last.groups \subseteq gids THEN Unassigned
                ELSE shardLoadBalance(last.groups \ gids, last.shards, order)]

executeMove(last, s, g) == [last EXCEPT !.num = @ + 1, !.shards[s] = g]

(* configs is indexed from 1, configuration numbers from 0. *)
executeQuery(configs, num) ==
    IF num = -1 \/ num > Last(configs).num THEN Last(configs) ELSE configs[num + 1]

-----------------------------------------------------------------------------
(* What shardLoadBalance returns is an assignment, and the order in which  *)
(* it met the groups does not show (server.go:482).                        *)
BalanceSettled ==
    \A groups \in SUBSET GIDs, shards \in Assignment :
        LET results == {shardLoadBalance(groups, shards, order) : order \in SetToSeqs(groups)}
        IN  results \subseteq Assignment /\ \A r, q \in results : r = q
=============================================================================
