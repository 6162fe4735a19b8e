------------------------------ MODULE ShardKV ------------------------------
(***************************************************************************)
(* src/shardkv: groups of servers that own shards, hand them over when the *)
(* shard master publishes a configuration, and serve clerks meanwhile.     *)
(*                                                                         *)
(* A group's Raft is what modules Raft and ReplicatedLog promise: one log  *)
(* whose committed part stays, a newest leader whose Start appends to it,  *)
(* and servers that still think they lead, whose Start goes nowhere.  A    *)
(* server applies committed entries one at a time; a restarted server      *)
(* applies them from the start (installed snapshots: module Snapshots).    *)
(*                                                                         *)
(* The goroutines of a leader (getLastestConfig, checkAndGetShard,         *)
(* checkAndFinishGiveShard) carry what they read across critical sections  *)
(* and calls to other groups: updater, pulls and gives hold it.  The       *)
(* handler that works for a clerk is part of the clerk's record.           *)
(***************************************************************************)
EXTENDS Integers, FiniteSets, SequencesExt

CONSTANTS
    Group,        \* gids, positive
    NServers,     \* number of servers of each group, tried in the order 1, 2, ...
    NShards,
    Config,       \* what the shard master publishes: Config[n][h] is the gid that owns h
    Clerk,
    Script,       \* what each clerk asks: a sequence of [type, key]
    MaxTroubles   \* bound: elections, restarts, lost calls and answers, early timeouts, late
                  \* channels, rounds of a loop that propose what is already in the log

Server(g) == 1 .. NServers[g]
Shard == 0 .. NShards - 1

ASSUME GroupAssumption == Group \subseteq Nat \ {0} /\ NServers \in [Group -> Nat \ {0}] /\ NShards \in Nat \ {0}
ASSUME ShardKVBounds == MaxTroubles \in Nat

(* Shards belong to groups, or to 0 when no group is left; the first Join  *)
(* gives each a group.                                                     *)
ASSUME ConfigAssumption ==
    /\ Config # <<>> /\ Config \in Seq([Shard -> Group \cup {0}])
    /\ \A h \in Shard : Config[1][h] # 0

(* Each clerk has something to ask: its first command is done at the start. *)
ASSUME ScriptAssumption ==
    /\ IsFiniteSet(Clerk)
    /\ \A c \in Clerk : Script[c] # <<>> /\ Script[c] \in Seq([type : {"Get", "Put", "Append"}, key : Nat])

VARIABLES
    latest,                                \* number of the newest configuration published
    term, belief, log, commit,             \* Raft: belief is the term a server thinks it leads
    applied, sm,                           \* of each server: entries applied, state machine
    updater, pulls, gives,                 \* goroutines of each server
    clerk,
    troubles

raftVars == <<term, belief, log, commit>>
loopVars == <<updater, pulls, gives>>
vars == <<latest, raftVars, applied, sm, loopVars, clerk, troubles>>

-----------------------------------------------------------------------------
(* The state machine. *)

(* A key is its first byte. *)
key2shard(key) == key % NShards

Keys == UNION {{Script[c][n].key : n \in DOMAIN Script[c]} : c \in Clerk}

NoSession == [num |-> 0, err |-> ""]

(* A value is the sequence of the writes that made it, empty if the key is *)
(* missing.                                                                *)
EmptyShard(h) == [k \in {j \in Keys : key2shard(j) = h} |-> <<>>]

NewServer == [cur |-> 0, pre |-> 0,
              owned |-> [h \in Shard |-> "NoExist"],
              kvDB |-> [h \in Shard |-> EmptyShard(h)],
              sessions |-> [c \in Clerk |-> NoSession]]

checkKeyInGroup(st, key) == st.owned[key2shard(key)] = "Exist"

IsRepeated(st, op) == op.type # "Get" /\ op.num <= st.sessions[op.clerk].num

(* What executeClientCmd answers.  An Append that makes the key says       *)
(* ErrNoKey.                                                               *)
ClientReply(st, op) ==
    LET v == st.kvDB[key2shard(op.key)][op.key]
    IN  IF IsRepeated(st, op)
        THEN [err |-> st.sessions[op.clerk].err, value |-> <<>>]
        ELSE [err |-> IF op.type # "Put" /\ v = <<>> THEN "ErrNoKey" ELSE "OK",
              value |-> IF op.type = "Get" THEN v ELSE <<>>]

executeClientCmd(st, op) ==
    LET h == key2shard(op.key)
        new == <<op.clerk, op.num>>
    IN  IF ~checkKeyInGroup(st, op.key) \/ op.type = "Get" \/ IsRepeated(st, op)
        THEN st
        ELSE [st EXCEPT !.kvDB[h][op.key] = IF op.type = "Put" THEN <<new>> ELSE Append(@, new),
                        !.sessions[op.clerk] = [num |-> op.num, err |-> ClientReply(st, op).err]]

(* Mutant: a shard that goes to another group is served until it is gone.  *)
updateShardState_ServeOn(g, st, n) ==
    [st EXCEPT
        !.owned = [h \in Shard |->
            IF @[h] = "NoExist" /\ Config[n][h] = g
            THEN IF n = 1 THEN "Exist" ELSE "WaitGet"
            ELSE @[h]],
        !.pre = IF st.pre # 0 \/ st.cur # 0 THEN st.cur ELSE @,
        !.cur = n]

updateShardState(g, st, n) ==
    [st EXCEPT
        !.owned = [h \in Shard |->
            IF @[h] = "Exist" /\ Config[n][h] # g THEN "WaitGive"
            ELSE IF @[h] = "NoExist" /\ Config[n][h] = g
                 THEN IF n = 1 THEN "Exist" ELSE "WaitGet"
            ELSE @[h]],
        !.pre = IF st.pre # 0 \/ st.cur # 0 THEN st.cur ELSE @,
        !.cur = n]

(* Mutant: the receiver keeps its own sessions. *)
MergeSessions_KeepOwn(own, theirs) == own

MergeSessions(own, theirs) ==
    [c \in Clerk |-> IF theirs[c].num > own[c].num THEN theirs[c] ELSE own[c]]

executeConfigCmd(g, st, op) ==
    CASE op.type = "UpdateConfig" -> IF st.cur + 1 = op.num THEN updateShardState(g, st, op.num) ELSE st
      [] op.type = "GetShard" ->
            IF st.cur = op.num /\ st.owned[op.shard] = "WaitGet"
            THEN [st EXCEPT !.kvDB[op.shard] = op.data, !.owned[op.shard] = "Exist",
                            !.sessions = MergeSessions(@, op.sessions)]
            ELSE st
      [] op.type = "GiveShard" ->
            IF st.cur = op.num /\ st.owned[op.shard] = "WaitGive"
            THEN [st EXCEPT !.owned[op.shard] = "NoExist", !.kvDB[op.shard] = EmptyShard(op.shard)]
            ELSE st

IsClientCmd(op) == op.type \in {"Get", "Put", "Append"}

(* applyMessage's dispatch; an EmptyOp changes nothing. *)
Execute(g, st, op) ==
    IF IsClientCmd(op) THEN executeClientCmd(st, op)
    ELSE IF op.type = "EmptyOp" THEN st
    ELSE executeConfigCmd(g, st, op)

-----------------------------------------------------------------------------
(* Raft. *)

IsLeader(g, s) == belief[g][s] > 0

(* Start returned true but the entry is on no majority and never will be.  *)
Nowhere == 0

(* rf.Start(op) on a server: the index it returns, 0 if not a leader.      *)
StartIndex(g, s) == IF belief[g][s] = term[g] THEN Len(log[g]) + 1 ELSE Nowhere

StartLog(g, s, op) ==
    IF IsLeader(g, s) /\ belief[g][s] = term[g]
    THEN log' = [log EXCEPT ![g] = Append(@, [op |-> op, term |-> term[g]])]
    ELSE UNCHANGED log

Led(g) == \E s \in Server(g) : belief[g][s] = term[g] /\ IsLeader(g, s)

(* A server of g wins an election; a leader that did not hear of it keeps  *)
(* its belief, and entries that were not committed may be lost.  It is a   *)
(* fault if the group had a leader.                                        *)
Elect(g, s) ==
    /\ Led(g) => troubles < MaxTroubles
    /\ troubles' = IF Led(g) THEN troubles + 1 ELSE troubles
    /\ term' = [term EXCEPT ![g] = @ + 1]
    /\ \E deaf \in SUBSET {t \in Server(g) : IsLeader(g, t) /\ t # s} :
        belief' = [belief EXCEPT ![g] = [t \in Server(g) |->
                        IF t = s THEN term[g] + 1 ELSE IF t \in deaf THEN @[t] ELSE 0]]
    /\ \E n \in commit[g] .. Len(log[g]) : log' = [log EXCEPT ![g] = SubSeq(@, 1, n)]
    /\ UNCHANGED <<latest, commit, applied, sm, loopVars, clerk>>

(* It hears of the newer term. *)
StepDown(g, s) ==
    /\ IsLeader(g, s) /\ belief[g][s] # term[g]
    /\ belief' = [belief EXCEPT ![g][s] = 0]
    /\ UNCHANGED <<latest, term, log, commit, applied, sm, loopVars, clerk, troubles>>

(* Entry i of g is committed: it was already, or the newest leader commits *)
(* it with an entry of its own term.                                       *)
Committable(g, i) ==
    \/ i <= commit[g]
    \/ Led(g) /\ \E j \in i .. Len(log[g]) : log[g][j].term = term[g]

-----------------------------------------------------------------------------
(* Clerks and the handlers that work for them. *)

Command(c, n) == [type |-> Script[c][n].type, key |-> Script[c][n].key, clerk |-> c, num |-> n]

Request(c) == Command(c, clerk[c].num)

Active(c) == clerk[c].num <= Len(Script[c])

Owner(n, h) == IF n = 0 THEN 0 ELSE Config[n][h]

(* The group that the clerk's configuration names; 0 has no servers.       *)
GidOf(c) == Owner(clerk[c].config, key2shard(Request(c).key))

StartOver(r) == [r EXCEPT !.pc = "query", !.at = 1, !.index = 0, !.chan = <<>>]

(* The next server of the group, or after the last a new Query(-1). *)
NextServer(c) ==
    IF clerk[c].at < NServers[GidOf(c)]
    THEN [clerk[c] EXCEPT !.pc = "call", !.at = @ + 1, !.index = 0, !.chan = <<>>]
    ELSE StartOver(clerk[c])

(* The clerk's function returns. *)
Finished(r, value) ==
    [r EXCEPT !.pc = "call", !.at = 1, !.index = 0, !.chan = <<>>, !.num = @ + 1, !.got = value]

(* The handler answers; the answer may be lost. *)
Answer(c, reply) ==
    \/ /\ clerk' = [clerk EXCEPT ![c] =
              IF reply.err = "OK" \/ (reply.err = "ErrNoKey" /\ Request(c).type = "Get")
              THEN Finished(@, reply.value)
              ELSE IF reply.err = "ErrWrongGroup" THEN StartOver(@)
              ELSE NextServer(c)]
       /\ UNCHANGED troubles
    \/ /\ troubles < MaxTroubles
       /\ troubles' = troubles + 1
       /\ clerk' = [clerk EXCEPT ![c] = NextServer(c)]

Error(err) == [err |-> err, value |-> <<>>]

NotTheServers == <<latest, raftVars, applied, sm, loopVars>>

(* ck.sm.Query(-1), at the start and after every round of the servers. *)
QueryLatest(c) ==
    /\ Active(c)
    /\ clerk[c].pc = "query" \/ (clerk[c].pc = "call" /\ GidOf(c) = 0)
    /\ clerk' = [clerk EXCEPT ![c].config = latest, ![c].pc = "call"]
    /\ UNCHANGED <<NotTheServers, troubles>>

LoseCall(c) ==
    /\ Active(c) /\ clerk[c].pc = "call" /\ GidOf(c) # 0
    /\ troubles < MaxTroubles
    /\ troubles' = troubles + 1
    /\ clerk' = [clerk EXCEPT ![c] = NextServer(c)]
    /\ UNCHANGED NotTheServers

(* Get and PutAppend up to their first unlock. *)
EnterHandler(c) ==
    LET st == sm[GidOf(c)][clerk[c].at]
        session == st.sessions[c]
    IN  /\ Active(c) /\ clerk[c].pc = "call" /\ GidOf(c) # 0
        /\ IF ~checkKeyInGroup(st, Request(c).key) THEN Answer(c, Error("ErrWrongGroup"))
           ELSE IF IsRepeated(st, Request(c))
           THEN Answer(c, Error(IF clerk[c].num = session.num THEN session.err ELSE ""))
           ELSE /\ clerk' = [clerk EXCEPT ![c].pc = "start"]
                /\ UNCHANGED troubles
        /\ UNCHANGED NotTheServers

(* The handler makes its channel at once, or is held up before it does: a  *)
(* fault, as the entry may be applied meanwhile and nobody be told.        *)
Start(c) ==
    LET g == GidOf(c)
        s == clerk[c].at
    IN  /\ Active(c) /\ clerk[c].pc = "start"
        /\ IF IsLeader(g, s)
           THEN \/ /\ clerk' = [clerk EXCEPT ![c].pc = "wait", ![c].index = StartIndex(g, s)]
                   /\ UNCHANGED troubles
                \/ /\ troubles < MaxTroubles
                   /\ troubles' = troubles + 1
                   /\ clerk' = [clerk EXCEPT ![c].pc = "create", ![c].index = StartIndex(g, s)]
           ELSE Answer(c, Error("ErrWrongLeader"))
        /\ StartLog(g, s, Request(c))
        /\ UNCHANGED <<latest, term, belief, commit, applied, sm, loopVars>>

createNotifyCh(c) ==
    /\ Active(c) /\ clerk[c].pc = "create"
    /\ clerk' = [clerk EXCEPT ![c].pc = "wait"]
    /\ UNCHANGED <<NotTheServers, troubles>>

(* The select receives; the shard is looked at once more. *)
Receive(c) ==
    LET st == sm[GidOf(c)][clerk[c].at]
    IN  /\ Active(c) /\ clerk[c].pc = "wait"
        /\ clerk[c].chan # <<>>
        /\ Answer(c, IF checkKeyInGroup(st, Request(c).key) THEN Head(clerk[c].chan)
                     ELSE Error("ErrWrongGroup"))
        /\ UNCHANGED NotTheServers

(* Nothing will be sent on the channel. *)
Hopeless(c) ==
    LET g == GidOf(c)
        s == clerk[c].at
        i == clerk[c].index
    IN  ~ (i \in DOMAIN log[g] /\ applied[g][s] < i /\ log[g][i].term = belief[g][s])

(* RespondTimeout; one that comes although an answer may come is a fault.  *)
Timeout(c) ==
    /\ Active(c) /\ clerk[c].pc = "wait"
    /\ \/ clerk[c].chan = <<>> /\ Hopeless(c) /\ UNCHANGED troubles
       \/ troubles < MaxTroubles /\ troubles' = troubles + 1
    /\ clerk' = [clerk EXCEPT ![c] = NextServer(c)]
    /\ UNCHANGED NotTheServers

-----------------------------------------------------------------------------
(* Servers. *)

(* The handler of this server that waits on index i is told, if the server *)
(* leads in the term of the entry.                                         *)
Notify(g, s, i, reply) ==
    clerk' = [c \in Clerk |->
        IF /\ Active(c) /\ clerk[c].pc = "wait" /\ GidOf(c) = g /\ clerk[c].at = s
           /\ clerk[c].index = i /\ log[g][i].term = belief[g][s]
        THEN [clerk[c] EXCEPT !.chan = <<reply>>]
        ELSE clerk[c]]

(* applyMessage takes the next committed entry.  A command for a shard     *)
(* that is not owned is answered by nobody.  That an entry is committed    *)
(* matters only once somebody applies it, so commit follows applied.       *)
applyMessage(g, s) ==
    LET i == applied[g][s] + 1
        op == log[g][i].op
    IN  /\ Committable(g, i)
        /\ IsLeader(g, s) => log[g][i].term <= belief[g][s]
        /\ commit' = [commit EXCEPT ![g] = IF @ < i THEN i ELSE @]
        /\ applied' = [applied EXCEPT ![g][s] = i]
        /\ sm' = [sm EXCEPT ![g][s] = Execute(g, @, op)]
        /\ IF IsClientCmd(op) /\ checkKeyInGroup(sm[g][s], op.key)
           THEN Notify(g, s, i, ClientReply(sm[g][s], op))
           ELSE UNCHANGED clerk
        /\ UNCHANGED <<latest, term, belief, log, loopVars, troubles>>

updateConfigReady(st) == \A h \in Shard : st.owned[h] \in {"NoExist", "Exist"}

(* The log has an entry of this kind that the server has not applied yet.  *)
Proposed(g, s, type, n, shards) ==
    \A h \in shards : \E i \in applied[g][s] + 1 .. Len(log[g]) :
        LET op == log[g][i].op
        IN  op.type = type /\ op.num = n /\ (type # "UpdateConfig" => op.shard = h)

(* The loops come round every 80 ms, by when an entry is usually applied;  *)
(* rounds that propose it again are counted.                               *)
Round(already) ==
    IF already THEN troubles < MaxTroubles /\ troubles' = troubles + 1 ELSE UNCHANGED troubles

(* getLastestConfig up to the unlock in updateConfigReady. *)
getLastestConfig(g, s) ==
    /\ IsLeader(g, s)
    /\ updater[g][s] = "idle"
    /\ sm[g][s].cur < latest
    /\ updateConfigReady(sm[g][s])
    /\ Round(Proposed(g, s, "UpdateConfig", sm[g][s].cur + 1, {0}))
    /\ updater' = [updater EXCEPT ![g][s] = "ready"]
    /\ UNCHANGED <<latest, raftVars, applied, sm, pulls, gives, clerk>>

(* It locks again, reads curConfig, calls Query(curConfig.Num + 1) and     *)
(* proposes what it gets.                                                  *)
StartUpdate(g, s) ==
    LET n == sm[g][s].cur + 1
    IN  /\ updater[g][s] = "ready"
        /\ IF n <= latest THEN StartLog(g, s, [type |-> "UpdateConfig", num |-> n]) ELSE UNCHANGED log
        /\ updater' = [updater EXCEPT ![g][s] = "idle"]
        /\ UNCHANGED <<latest, term, belief, commit, applied, sm, pulls, gives, clerk, troubles>>

(* Nothing fetched yet; no answer yet. *)
NoData == [data |-> <<>>, sessions |-> <<>>]

(* checkAndGetShard begins a round: a goroutine for each awaited shard     *)
(* that has a former owner.                                                *)
checkAndGetShard(g, s) ==
    LET st == sm[g][s]
        shards == {h \in Shard : st.owned[h] = "WaitGet" /\ Owner(st.pre, h) # 0}
    IN  /\ IsLeader(g, s)
        /\ pulls[g][s] = {}
        /\ shards # {}
        /\ Round(Proposed(g, s, "GetShard", st.cur, shards))
        /\ pulls' = [pulls EXCEPT ![g][s] =
                {[shard |-> h, num |-> st.cur, from |-> Owner(st.pre, h), at |-> 1,
                  ok |-> FALSE, got |-> NoData] : h \in shards}]
        /\ UNCHANGED <<latest, raftVars, applied, sm, updater, gives, clerk>>

(* A goroutine goes on to the next server, or gives up until the next      *)
(* round.                                                                  *)
Onward(g, tasks, t) ==
    IF t.at < NServers[g] THEN (tasks \ {t}) \cup {[t EXCEPT !.at = @ + 1]} ELSE tasks \ {t}

(* The call of MigrateShard, with its answer. *)
MigrateShard(g, s, t) ==
    LET st == sm[t.from][t.at]
        rest == pulls[g][s] \ {t}
    IN  /\ ~t.ok
        /\ \/ /\ troubles < MaxTroubles
              /\ troubles' = troubles + 1
              /\ pulls' = [pulls EXCEPT ![g][s] = Onward(t.from, @, t)]
           \/ /\ UNCHANGED troubles
              /\ pulls' = [pulls EXCEPT ![g][s] =
                    IF ~IsLeader(t.from, t.at) \/ st.cur > t.num THEN Onward(t.from, @, t)
                    ELSE IF st.cur < t.num THEN rest
                    ELSE rest \cup {[t EXCEPT !.ok = TRUE, !.got =
                            [data |-> st.kvDB[t.shard], sessions |-> st.sessions]]}]
        /\ UNCHANGED <<latest, raftVars, applied, sm, updater, gives, clerk>>

StartGetShard(g, s, t) ==
    /\ t.ok
    /\ StartLog(g, s, [type |-> "GetShard", num |-> t.num, shard |-> t.shard,
                       data |-> t.got.data, sessions |-> t.got.sessions])
    /\ pulls' = [pulls EXCEPT ![g][s] = @ \ {t}]
    /\ UNCHANGED <<latest, term, belief, commit, applied, sm, updater, gives, clerk, troubles>>

(* checkAndFinishGiveShard begins a round: the new owners are asked.       *)
checkAndFinishGiveShard(g, s) ==
    LET st == sm[g][s]
        shards == {h \in Shard : st.owned[h] = "WaitGive" /\ Owner(st.cur, h) # 0}
    IN  /\ IsLeader(g, s)
        /\ gives[g][s] = {}
        /\ shards # {}
        /\ Round(Proposed(g, s, "GiveShard", st.cur, shards))
        /\ gives' = [gives EXCEPT ![g][s] =
                {[shard |-> h, num |-> st.cur, to |-> Owner(st.cur, h), at |-> 1] :
                    h \in shards}]
        /\ UNCHANGED <<latest, raftVars, applied, sm, updater, pulls, clerk>>

(* Mutant: whoever has the configuration has the shard. *)
Received_ByNumber(st, t) == st.cur >= t.num

(* What AckReceiveShard answers when it does not refuse. *)
Received(st, t) == st.cur > t.num \/ st.owned[t.shard] = "Exist"

(* The call of AckReceiveShard and, if the shard was received, the         *)
(* proposal to drop it; a positive answer stays true, so nothing can       *)
(* happen between the two that could not happen before.                    *)
AckReceiveShard(g, s, t) ==
    LET st == sm[t.to][t.at]
        refused == ~IsLeader(t.to, t.at)
    IN  /\ \/ /\ troubles < MaxTroubles
              /\ troubles' = troubles + 1
              /\ gives' = [gives EXCEPT ![g][s] = Onward(t.to, @, t)]
              /\ UNCHANGED log
           \/ /\ UNCHANGED troubles
              /\ gives' = [gives EXCEPT ![g][s] = IF refused THEN Onward(t.to, @, t) ELSE @ \ {t}]
              /\ IF ~refused /\ st.cur >= t.num /\ Received(st, t)
                 THEN StartLog(g, s, [type |-> "GiveShard", num |-> t.num, shard |-> t.shard])
                 ELSE UNCHANGED log
        /\ UNCHANGED <<latest, term, belief, commit, applied, sm, updater, pulls, clerk>>

(* Mutant: no leader adds an entry of its own. *)
addEmptyLog_Never(g, s) == FALSE /\ UNCHANGED vars

(* addEmptyLog: a leader whose last entry is of an earlier term. *)
addEmptyLog(g, s) ==
    /\ IsLeader(g, s) /\ belief[g][s] = term[g]
    /\ log[g] # <<>> => Last(log[g]).term # term[g]
    /\ StartLog(g, s, [type |-> "EmptyOp"])
    /\ UNCHANGED <<latest, term, belief, commit, applied, sm, loopVars, clerk, troubles>>

(* Kill and StartServer: the log comes back and is applied again; calls    *)
(* under way fail.                                                         *)
Restart(g, s) ==
    /\ troubles < MaxTroubles
    /\ troubles' = troubles + 1
    /\ belief' = [belief EXCEPT ![g][s] = 0]
    /\ applied' = [applied EXCEPT ![g][s] = 0]
    /\ sm' = [sm EXCEPT ![g][s] = NewServer]
    /\ updater' = [updater EXCEPT ![g][s] = "idle"]
    /\ pulls' = [pulls EXCEPT ![g][s] = {}]
    /\ gives' = [gives EXCEPT ![g][s] = {}]
    /\ clerk' = [c \in Clerk |->
            IF Active(c) /\ clerk[c].pc \in {"start", "create", "wait"} /\ GidOf(c) = g /\ clerk[c].at = s
            THEN NextServer(c) ELSE clerk[c]]
    /\ UNCHANGED <<latest, term, log, commit>>

(* The shard master has a new configuration (module ShardMaster). *)
Publish ==
    /\ latest < Len(Config)
    /\ latest' = latest + 1
    /\ UNCHANGED <<raftVars, applied, sm, loopVars, clerk, troubles>>

-----------------------------------------------------------------------------
(* What a group has executed at the start: the first configuration, and    *)
(* the first command of the clerks whose key it has.                       *)
FirstEntries(g) ==
    LET first(c) == [op |-> Command(c, 1), term |-> 1]
        mine == {c \in Clerk : Config[1][key2shard(Script[c][1].key)] = g}
    IN  <<[op |-> [type |-> "UpdateConfig", num |-> 1], term |-> 1]>> \o SetToSeq({first(c) : c \in mine})

(* What the first n entries of a log of g make of a new server. *)
Replay(g, entries, n) ==
    LET upTo[i \in 0 .. n] == IF i = 0 THEN NewServer ELSE Execute(g, upTo[i - 1], entries[i].op)
    IN  upTo[n]

(* The first configuration is in force, every group has a leader and every *)
(* clerk has made its first command.                                       *)
Init ==
    /\ latest = 1
    /\ term = [g \in Group |-> 1]
    /\ log = [g \in Group |-> FirstEntries(g)]
    /\ commit = [g \in Group |-> Len(log[g])]
    /\ belief = [g \in Group |-> [s \in Server(g) |-> IF s = 1 THEN 1 ELSE 0]]
    /\ applied = [g \in Group |-> [s \in Server(g) |-> Len(log[g])]]
    /\ sm = [g \in Group |-> [s \in Server(g) |-> Replay(g, log[g], Len(log[g]))]]
    /\ updater = [g \in Group |-> [s \in Server(g) |-> "idle"]]
    /\ pulls = [g \in Group |-> [s \in Server(g) |-> {}]]
    /\ gives = [g \in Group |-> [s \in Server(g) |-> {}]]
    /\ clerk = [c \in Clerk |-> [num |-> 2, pc |-> "call", config |-> 1, at |-> 1, index |-> 0,
                                 chan |-> <<>>, got |-> <<>>]]
    /\ troubles = 0

ClerkStep(c) ==
    \/ QueryLatest(c) \/ EnterHandler(c) \/ Start(c) \/ createNotifyCh(c) \/ Receive(c) \/ Timeout(c)

UpdateStep(g, s) == getLastestConfig(g, s) \/ StartUpdate(g, s)

PullStep(g, s) ==
    checkAndGetShard(g, s) \/ \E t \in pulls[g][s] : MigrateShard(g, s, t) \/ StartGetShard(g, s, t)

GiveStep(g, s) ==
    checkAndFinishGiveShard(g, s) \/ \E t \in gives[g][s] : AckReceiveShard(g, s, t)

Next ==
    \/ Publish
    \/ \E c \in Clerk : ClerkStep(c) \/ LoseCall(c)
    \/ \E g \in Group : \E s \in Server(g) :
        \/ Elect(g, s) \/ StepDown(g, s) \/ Restart(g, s)
        \/ applyMessage(g, s) \/ UpdateStep(g, s) \/ PullStep(g, s) \/ GiveStep(g, s)
        \/ addEmptyLog(g, s)

Spec == Init /\ [][Next]_vars

(* Publish, each clerk and each kind of server step happens for some       *)
(* server if it stays possible for some: less than every goroutine being   *)
(* scheduled.                                                              *)
Fairness ==
    /\ WF_vars(Publish)
    /\ \A c \in Clerk : WF_vars(ClerkStep(c))
    /\ WF_vars(\E g \in Group : ~Led(g) /\ \E s \in Server(g) : Elect(g, s))
    /\ WF_vars(\E g \in Group : \E s \in Server(g) : StepDown(g, s) \/ addEmptyLog(g, s))
    /\ WF_vars(\E g \in Group : \E s \in Server(g) : applyMessage(g, s))
    /\ WF_vars(\E g \in Group : \E s \in Server(g) : UpdateStep(g, s))
    /\ WF_vars(\E g \in Group : \E s \in Server(g) : PullStep(g, s))
    /\ WF_vars(\E g \in Group : \E s \in Server(g) : GiveStep(g, s))

FairSpec == Spec /\ Fairness

-----------------------------------------------------------------------------
(* The state each group has agreed on. *)
Agreed == [g \in Group |-> Replay(g, log[g], commit[g])]

(* What the first n commands of c left under key, if nobody else writes it. *)
Written(c, n, key) ==
    LET left[i \in 0 .. n] ==
            IF i = 0 THEN <<>>
            ELSE IF Script[c][i].key # key \/ Script[c][i].type = "Get" THEN left[i - 1]
            ELSE IF Script[c][i].type = "Put" THEN <<<<c, i>>>>
            ELSE Append(left[i - 1], <<c, i>>)
    IN  left[n]

(* No shard is served by two groups: updateShardState closes it at the     *)
(* giver before MigrateShard hands it out.                                 *)
OneOwner ==
    LET agreed == Agreed
    IN  \A h \in Shard : Cardinality({g \in Group : agreed[g].owned[h] = "Exist"}) <= 1

(* GiveShard deletes a shard only when somebody else holds it (server.go   *)
(* 422-427 after 836-855): some group that serves the shard, or still      *)
(* keeps it for the next owner, has exactly what the clerk's finished      *)
(* commands left, perhaps with the one under way.                          *)
DataKept ==
    LET agreed == Agreed
    IN  \A c \in Clerk :
            LET n == clerk[c].num - 1
                key == Script[c][n].key
                h == key2shard(key)
            IN  \E g \in Group :
                    /\ agreed[g].owned[h] \in {"Exist", "WaitGive"}
                    /\ \/ agreed[g].kvDB[h][key] = Written(c, n, key)
                       \/ Active(c) /\ agreed[g].kvDB[h][key] = Written(c, n + 1, key)

(* A Get returns exactly what the clerk's own earlier writes left: none is *)
(* lost or made twice by retries, elections, restarts and migrations.      *)
GetsExact ==
    \A c \in Clerk :
        LET n == clerk[c].num - 1
        IN  Script[c][n].type = "Get" => clerk[c].got = Written(c, n, Script[c][n].key)

(* server.go:570: one reconfiguration at a time, each finished before the  *)
(* next begins.                                                            *)
OneChangeAtATime ==
    [][\A g \in Group : \A s \in Server(g) :
        sm'[g][s].cur = sm[g][s].cur + 1 =>
            \A h \in Shard : sm[g][s].owned[h] \in {"NoExist", "Exist"}]_vars

(* The clerks get all their answers, and every group reaches the last      *)
(* configuration and completes its hand-overs (loops at server.go 562-821).*)
Settles ==
    <>(/\ \A c \in Clerk : ~Active(c)
       /\ \A g \in Group : \A s \in Server(g) :
            sm[g][s].cur = Len(Config) /\ \A h \in Shard : sm[g][s].owned[h] \in {"NoExist", "Exist"})
=============================================================================
