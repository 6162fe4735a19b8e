---------------------------- MODULE ShardKVProofs ----------------------------
(***************************************************************************)
(* The sharded key/value server, for every number of groups, servers,      *)
(* shards, configurations and clerks, and every script.                    *)
(*                                                                         *)
(* First the owners: of a shard that a configuration moves, the new owner  *)
(* has what the former had closed, and the former deletes what somebody    *)
(* has taken.  So at most one group serves it, the one of the newest       *)
(* configuration it has come to.                                           *)
(*                                                                         *)
(* Then the data: that group has of the shard what the clerks wrote, and   *)
(* its sessions say of those writes what they say of the shard; copies on  *)
(* their way are good until the new owner has one.                         *)
(*                                                                         *)
(* Last, what the hypotheses of these theorems rest on.                    *)
(***************************************************************************)
EXTENDS ShardKV, TLAPS, FiniteSetTheorems, FunctionTheorems, SequenceTheorems, WellFoundedInduction

-----------------------------------------------------------------------------
(* States of a group. *)

\* What a shard is to a group.
Kind == {"NoExist", "Exist", "WaitGet", "WaitGive"}

\* The keys of a shard.
KeysOf(h) == {j \in Keys : key2shard(j) = h}

\* Values, the contents of a shard, and sessions.
Value == Seq(Clerk \X Nat)

\* The contents of a shard, ...
Data(h) == [KeysOf(h) -> Value]

\* ... and what a group remembers of each clerk.
Sessions == [Clerk -> [num : Nat, err : {"", "OK", "ErrNoKey"}]]

\* A server's state machine.
IsState(st) ==
  /\ st = [cur |-> st.cur, pre |-> st.pre, owned |-> st.owned, kvDB |-> st.kvDB, sessions |-> st.sessions]
  /\ st.cur \in 0 .. Len(Config) /\ st.owned \in [Shard -> Kind]
  /\ st.kvDB = [h \in Shard |-> st.kvDB[h]] /\ \A h \in Shard : st.kvDB[h] \in Data(h)
  /\ st.sessions \in Sessions

\* What is in logs.
IsOp(op) ==
  \/ \E c \in Clerk : \E k \in DOMAIN Script[c] : op = Command(c, k)
  \/ op.type = "EmptyOp"
  \/ op.type = "UpdateConfig" /\ op.num \in 1 .. Len(Config)
  \/ /\ op.type = "GetShard" /\ op.num \in 1 .. Len(Config) /\ op.shard \in Shard
     /\ op.data \in Data(op.shard) /\ op.sessions \in Sessions
  \/ op.type = "GiveShard" /\ op.num \in 1 .. Len(Config) /\ op.shard \in Shard

\* What is assumed of configurations.
LEMMA ConfigIs ==
  /\ Len(Config) \in Nat /\ Len(Config) >= 1
  /\ \A m \in 1 .. Len(Config), h \in Shard : Config[m][h] \in Group \cup {0}
  /\ \A h \in Shard : Config[1][h] \in Group
  /\ 0 \notin Group
  <1>1. Config \in Seq([Shard -> Group \cup {0}]) /\ Config # <<>> /\ 0 \notin Group
    BY ConfigAssumption, GroupAssumption
  <1>2. Len(Config) \in Nat /\ Len(Config) >= 1
    BY <1>1
  <1>3. \A m \in 1 .. Len(Config) : Config[m] \in [Shard -> Group \cup {0}]
    BY <1>1
  <1>4. \A m \in 1 .. Len(Config), h \in Shard : Config[m][h] \in Group \cup {0}
    BY <1>3
  <1>5. \A h \in Shard : Config[1][h] \in Group
    BY <1>2, <1>4, ConfigAssumption
  <1> QED BY <1>1, <1>2, <1>4, <1>5

\* What is assumed of scripts, and where the keys are.
LEMMA ScriptIs ==
  ASSUME NEW c \in Clerk
  PROVE  /\ Len(Script[c]) \in Nat /\ Len(Script[c]) >= 1 /\ DOMAIN Script[c] = 1 .. Len(Script[c])
         /\ \A k \in DOMAIN Script[c] :
              /\ Script[c][k].type \in {"Get", "Put", "Append"} /\ Script[c][k].key \in Nat
              /\ key2shard(Script[c][k].key) \in Shard
              /\ Script[c][k].key \in KeysOf(key2shard(Script[c][k].key))
  <1>1. Script[c] \in Seq([type : {"Get", "Put", "Append"}, key : Nat]) /\ Script[c] # <<>>
    BY ScriptAssumption
  <1>2. Len(Script[c]) \in Nat /\ Len(Script[c]) >= 1 /\ DOMAIN Script[c] = 1 .. Len(Script[c])
    BY <1>1
  <1>3. ASSUME NEW k \in DOMAIN Script[c]
        PROVE  /\ Script[c][k].type \in {"Get", "Put", "Append"} /\ Script[c][k].key \in Nat
               /\ key2shard(Script[c][k].key) \in Shard
               /\ Script[c][k].key \in KeysOf(key2shard(Script[c][k].key))
    <2>1. Script[c][k] \in [type : {"Get", "Put", "Append"}, key : Nat]
      BY <1>1, <1>2, ElementOfSeq, Zenon
    <2>2. Script[c][k].type \in {"Get", "Put", "Append"} /\ Script[c][k].key \in Nat
      BY <2>1
    <2>3. key2shard(Script[c][k].key) \in Shard
      BY <2>2, GroupAssumption DEF key2shard, Shard
    <2>4. Script[c][k].key \in Keys
      BY DEF Keys
    <2> QED BY <2>2, <2>3, <2>4 DEF KeysOf
  <1> QED BY <1>2, <1>3

\* A command's fields.
LEMMA CommandIs ==
  ASSUME NEW c \in Clerk, NEW k \in DOMAIN Script[c]
  PROVE  /\ Command(c, k).type = Script[c][k].type /\ Command(c, k).key = Script[c][k].key
         /\ Command(c, k).clerk = c /\ Command(c, k).num = k /\ k \in Nat /\ k >= 1
         /\ IsClientCmd(Command(c, k))
  BY ScriptIs DEF Command, IsClientCmd

-----------------------------------------------------------------------------
(* What an entry does. *)

\* A write of c, command k of its script.
Writes(st, x, c, k) ==
  LET key == Script[c][k].key
      h == key2shard(key)
  IN  /\ Script[c][k].type # "Get" /\ st.owned[h] = "Exist" /\ st.sessions[c].num < k
      /\ x.cur = st.cur /\ x.pre = st.pre /\ x.owned = st.owned
      /\ \A i \in Shard \ {h} : x.kvDB[i] = st.kvDB[i]
      /\ \A j \in KeysOf(h) \ {key} : x.kvDB[h][j] = st.kvDB[h][j]
      /\ x.kvDB[h][key] = IF Script[c][k].type = "Put" THEN <<<<c, k>>>> ELSE Append(st.kvDB[h][key], <<c, k>>)
      /\ x.sessions[c].num = k /\ \A d \in Clerk \ {c} : x.sessions[d] = st.sessions[d]

\* The next configuration.
Enters(g, st, x, n) ==
  /\ n = st.cur + 1 /\ x.cur = n /\ x.pre = (IF st.pre # 0 \/ st.cur # 0 THEN st.cur ELSE st.pre)
  /\ x.kvDB = st.kvDB /\ x.sessions = st.sessions
  /\ \A h \in Shard : x.owned[h] = IF st.owned[h] = "Exist" /\ Config[n][h] # g THEN "WaitGive"
                                   ELSE IF st.owned[h] = "NoExist" /\ Config[n][h] = g
                                        THEN IF n = 1 THEN "Exist" ELSE "WaitGet"
                                   ELSE st.owned[h]

\* A shard that has been fetched.
Takes(st, x, n, h, data, sessions) ==
  /\ st.cur = n /\ st.owned[h] = "WaitGet" /\ x.cur = n /\ x.pre = st.pre
  /\ x.owned[h] = "Exist" /\ x.kvDB[h] = data
  /\ \A i \in Shard \ {h} : x.owned[i] = st.owned[i] /\ x.kvDB[i] = st.kvDB[i]
  /\ \A c \in Clerk : x.sessions[c] = IF sessions[c].num > st.sessions[c].num THEN sessions[c] ELSE st.sessions[c]

\* A shard that is needed no more.
Drops(st, x, n, h) ==
  /\ st.cur = n /\ st.owned[h] = "WaitGive" /\ x.cur = n /\ x.pre = st.pre /\ x.sessions = st.sessions
  /\ x.owned[h] = "NoExist"
  /\ \A i \in Shard \ {h} : x.owned[i] = st.owned[i] /\ x.kvDB[i] = st.kvDB[i]

\* All that an entry can do.
Does(g, st, op, x) ==
  \/ x = st
  \/ \E c \in Clerk : \E k \in DOMAIN Script[c] : op = Command(c, k) /\ Writes(st, x, c, k)
  \/ op.type = "UpdateConfig" /\ Enters(g, st, x, op.num)
  \/ op.type = "GetShard" /\ Takes(st, x, op.num, op.shard, op.data, op.sessions)
  \/ op.type = "GiveShard" /\ Drops(st, x, op.num, op.shard)

\* A new server's state.
LEMMA NewIs == IsState(NewServer) /\ NewServer.cur = 0 /\ NewServer.pre = 0
               /\ (\A h \in Shard : NewServer.owned[h] = "NoExist" /\ NewServer.kvDB[h] = [k \in KeysOf(h) |-> <<>>])
               /\ \A c \in Clerk : NewServer.sessions[c].num = 0
  <1>1. \A h \in Shard : EmptyShard(h) = [k \in KeysOf(h) |-> <<>>] /\ EmptyShard(h) \in Data(h)
    BY DEF EmptyShard, KeysOf, Data, Value
  <1>2. NewServer.sessions \in Sessions
    BY DEF NewServer, Sessions, NoSession
  <1>3. NewServer.owned \in [Shard -> Kind]
    BY DEF NewServer, Kind
  <1>4. 0 \in 0 .. Len(Config)
    BY ConfigIs
  <1> QED BY <1>1, <1>2, <1>3, <1>4 DEF NewServer, IsState, NoSession

\* executeClientCmd.
LEMMA ClientDoes ==
  ASSUME NEW g, NEW st, IsState(st), NEW c \in Clerk, NEW k \in DOMAIN Script[c], NEW x,
         x = executeClientCmd(st, Command(c, k))
  PROVE  IsState(x) /\ (x = st \/ Writes(st, x, c, k))
  <1> DEFINE op == Command(c, k)
             key == Script[c][k].key
             h == key2shard(key)
             new == <<c, k>>
             val == IF Script[c][k].type = "Put" THEN <<new>> ELSE Append(st.kvDB[h][key], new)
             err == ClientReply(st, op).err
  <1>1. /\ op.type = Script[c][k].type /\ op.key = key /\ op.clerk = c /\ op.num = k /\ k \in Nat /\ h \in Shard
        /\ key \in KeysOf(h)
    BY CommandIs, ScriptIs
  <1>2. CASE ~checkKeyInGroup(st, op.key) \/ op.type = "Get" \/ IsRepeated(st, op)
    BY <1>2 DEF executeClientCmd
  <1>3. CASE ~(~checkKeyInGroup(st, op.key) \/ op.type = "Get" \/ IsRepeated(st, op))
    <2>1. x = [st EXCEPT !.kvDB[h][key] = val, !.sessions[c] = [num |-> k, err |-> err]]
      BY <1>1, <1>3 DEF executeClientCmd
    <2>2. err \in {"OK", "ErrNoKey"}
      BY <1>1, <1>3 DEF ClientReply
    <2>3. st.owned[h] = "Exist" /\ Script[c][k].type # "Get" /\ ~(k <= st.sessions[c].num)
      BY <1>1, <1>3 DEF checkKeyInGroup, IsRepeated
    <2>4. st.kvDB[h] \in Data(h) /\ st.kvDB[h][key] \in Value
      BY <1>1 DEF IsState, Data
    <2>5. val \in Value
      <3> DEFINE W == Clerk \X Nat
      <3>1. new \in W /\ st.kvDB[h][key] \in Seq(W)
        BY <1>1, <2>4 DEF Value
      <3>2. <<new>> \in Seq(W) /\ Append(st.kvDB[h][key], new) \in Seq(W)
        <4> HIDE DEF W, new
        <4> QED BY <3>1
      <3> QED BY <3>2 DEF Value
    <2> HIDE DEF val, err, h, key, op
    <2>6. /\ x.cur = st.cur /\ x.pre = st.pre /\ x.owned = st.owned
          /\ x.kvDB = [st.kvDB EXCEPT ![h] = [st.kvDB[h] EXCEPT ![key] = val]]
          /\ x.sessions = [st.sessions EXCEPT ![c] = [num |-> k, err |-> err]]
          /\ x = [cur |-> x.cur, pre |-> x.pre, owned |-> x.owned, kvDB |-> x.kvDB, sessions |-> x.sessions]
      BY <1>1, <2>1 DEF IsState
    <2>7. /\ x.kvDB = [i \in Shard |-> x.kvDB[i]] /\ x.kvDB[h] = [st.kvDB[h] EXCEPT ![key] = val]
          /\ \A i \in Shard \ {h} : x.kvDB[i] = st.kvDB[i]
      BY <1>1, <2>6 DEF IsState
    <2>8. x.kvDB[h] \in Data(h) /\ x.kvDB[h][key] = val /\ \A j \in KeysOf(h) \ {key} : x.kvDB[h][j] = st.kvDB[h][j]
      BY <1>1, <2>4, <2>5, <2>7 DEF Data
    <2>9. /\ x.sessions \in Sessions /\ x.sessions[c].num = k
          /\ \A d \in Clerk \ {c} : x.sessions[d] = st.sessions[d]
      <3> DEFINE R == [num : Nat, err : {"", "OK", "ErrNoKey"}]
                 r == [num |-> k, err |-> err]
      <3>1. r \in R /\ r.num = k
        BY <1>1, <2>2
      <3>2. st.sessions \in [Clerk -> R]
        BY DEF IsState, Sessions
      <3>3. x.sessions \in [Clerk -> R] /\ x.sessions[c] = r /\ \A d \in Clerk \ {c} : x.sessions[d] = st.sessions[d]
        <4> HIDE DEF R, r
        <4> QED BY <3>1, <3>2, <2>6 DEF r
      <3> QED BY <3>1, <3>3 DEF Sessions
    <2>10. st.sessions[c].num \in Nat
      BY DEF IsState, Sessions
    <2>11. IsState(x)
      BY <2>6, <2>7, <2>8, <2>9 DEF IsState
    <2>12. st.sessions[c].num < k
      BY <2>3, <2>10, <1>1
    <2> QED BY <2>3, <2>6, <2>7, <2>8, <2>9, <2>11, <2>12 DEF Writes, val, h, key
  <1> QED BY <1>2, <1>3

\* updateShardState.
LEMMA UpdateDoes ==
  ASSUME NEW g, NEW st, IsState(st), NEW n \in 1 .. Len(Config), st.cur + 1 = n, NEW x, x = updateShardState(g, st, n)
  PROVE  IsState(x) /\ Enters(g, st, x, n)
  <1> DEFINE own == [h \in Shard |->
            IF st.owned[h] = "Exist" /\ Config[n][h] # g THEN "WaitGive"
            ELSE IF st.owned[h] = "NoExist" /\ Config[n][h] = g
                 THEN IF n = 1 THEN "Exist" ELSE "WaitGet"
            ELSE st.owned[h]]
  <1>1. x = [st EXCEPT !.owned = own, !.pre = IF st.pre # 0 \/ st.cur # 0 THEN st.cur ELSE st.pre, !.cur = n]
    BY DEF updateShardState
  <1>2. own \in [Shard -> Kind]
    BY DEF IsState, Kind
  <1>3. /\ x.cur = n /\ x.pre = (IF st.pre # 0 \/ st.cur # 0 THEN st.cur ELSE st.pre) /\ x.owned = own
        /\ x.kvDB = st.kvDB /\ x.sessions = st.sessions
        /\ x = [cur |-> x.cur, pre |-> x.pre, owned |-> x.owned, kvDB |-> x.kvDB, sessions |-> x.sessions]
    <2> HIDE DEF own
    <2> QED BY <1>1 DEF IsState
  <1>4. n \in 0 .. Len(Config)
    BY ConfigIs
  <1>5. IsState(x)
    <2> HIDE DEF own
    <2> QED BY <1>2, <1>3, <1>4 DEF IsState
  <1>6. \A h \in Shard : x.owned[h] = own[h]
    BY <1>3
  <1> QED BY <1>3, <1>5, <1>6 DEF Enters

\* MergeSessions.
LEMMA MergeIs ==
  ASSUME NEW own \in Sessions, NEW theirs \in Sessions
  PROVE  MergeSessions(own, theirs) \in Sessions
  <1>1. \A c \in Clerk : own[c] \in [num : Nat, err : {"", "OK", "ErrNoKey"}]
                         /\ theirs[c] \in [num : Nat, err : {"", "OK", "ErrNoKey"}]
    BY DEF Sessions
  <1> QED BY <1>1 DEF MergeSessions, Sessions

\* executeConfigCmd.
LEMMA ConfigDoes ==
  ASSUME NEW g, NEW st, IsState(st), NEW op, IsOp(op), op.type \in {"UpdateConfig", "GetShard", "GiveShard"},
         NEW x, x = executeConfigCmd(g, st, op)
  PROVE  IsState(x) /\ Does(g, st, op, x)
  <1>0. ASSUME NEW c \in Clerk, NEW k \in DOMAIN Script[c], op = Command(c, k) PROVE FALSE
    BY <1>0, CommandIs, ScriptIs
  <1>1. CASE op.type = "UpdateConfig"
    <2>1. op.num \in 1 .. Len(Config)
      BY <1>0, <1>1 DEF IsOp
    <2>2. CASE st.cur + 1 = op.num
      BY <1>1, <2>1, <2>2, UpdateDoes DEF executeConfigCmd, Does
    <2> QED BY <1>1, <2>2 DEF executeConfigCmd, Does
  <1>2. CASE op.type = "GetShard"
    <2> DEFINE h == op.shard
    <2>1. op.num \in 1 .. Len(Config) /\ h \in Shard /\ op.data \in Data(h) /\ op.sessions \in Sessions
      BY <1>0, <1>2 DEF IsOp
    <2>2. CASE st.cur = op.num /\ st.owned[h] = "WaitGet"
      <3> DEFINE merged == MergeSessions(st.sessions, op.sessions)
      <3>1. x = [st EXCEPT !.kvDB[h] = op.data, !.owned[h] = "Exist", !.sessions = merged]
        BY <1>2, <2>2 DEF executeConfigCmd
      <3>2. merged \in Sessions
        BY <2>1, MergeIs DEF IsState
      <3>3. \A c \in Clerk : merged[c] = IF op.sessions[c].num > st.sessions[c].num THEN op.sessions[c] ELSE st.sessions[c]
        BY DEF MergeSessions
      <3> HIDE DEF merged, h
      <3>4. /\ x.cur = st.cur /\ x.pre = st.pre /\ x.owned = [st.owned EXCEPT ![h] = "Exist"]
            /\ x.kvDB = [st.kvDB EXCEPT ![h] = op.data] /\ x.sessions = merged
            /\ x = [cur |-> x.cur, pre |-> x.pre, owned |-> x.owned, kvDB |-> x.kvDB, sessions |-> x.sessions]
        BY <3>1 DEF IsState
      <3>5. /\ x.owned \in [Shard -> Kind] /\ x.owned[h] = "Exist" /\ \A i \in Shard \ {h} : x.owned[i] = st.owned[i]
        BY <2>1, <3>4 DEF IsState, Kind
      <3>6. /\ x.kvDB = [i \in Shard |-> x.kvDB[i]] /\ x.kvDB[h] = op.data
            /\ \A i \in Shard \ {h} : x.kvDB[i] = st.kvDB[i]
        BY <2>1, <3>4 DEF IsState
      <3>7. \A i \in Shard : x.kvDB[i] \in Data(i)
        BY <2>1, <3>6 DEF IsState
      <3>8. IsState(x)
        BY <3>2, <3>4, <3>5, <3>6, <3>7 DEF IsState
      <3>9. Takes(st, x, op.num, h, op.data, op.sessions)
        BY <2>2, <3>3, <3>4, <3>5, <3>6 DEF Takes
      <3> QED BY <1>2, <3>8, <3>9 DEF Does, h
    <2> QED BY <1>2, <2>2 DEF executeConfigCmd, Does
  <1>3. CASE op.type = "GiveShard"
    <2> DEFINE h == op.shard
    <2>1. op.num \in 1 .. Len(Config) /\ h \in Shard
      BY <1>0, <1>3 DEF IsOp
    <2>2. CASE st.cur = op.num /\ st.owned[h] = "WaitGive"
      <3>1. x = [st EXCEPT !.owned[h] = "NoExist", !.kvDB[h] = EmptyShard(h)]
        BY <1>3, <2>2 DEF executeConfigCmd
      <3>2. EmptyShard(h) \in Data(h)
        BY DEF EmptyShard, KeysOf, Data, Value
      <3> HIDE DEF h
      <3>4. /\ x.cur = st.cur /\ x.pre = st.pre /\ x.owned = [st.owned EXCEPT ![h] = "NoExist"]
            /\ x.kvDB = [st.kvDB EXCEPT ![h] = EmptyShard(h)] /\ x.sessions = st.sessions
            /\ x = [cur |-> x.cur, pre |-> x.pre, owned |-> x.owned, kvDB |-> x.kvDB, sessions |-> x.sessions]
        BY <3>1 DEF IsState
      <3>5. /\ x.owned \in [Shard -> Kind] /\ x.owned[h] = "NoExist" /\ \A i \in Shard \ {h} : x.owned[i] = st.owned[i]
        BY <2>1, <3>4 DEF IsState, Kind
      <3>6. /\ x.kvDB = [i \in Shard |-> x.kvDB[i]] /\ x.kvDB[h] = EmptyShard(h)
            /\ \A i \in Shard \ {h} : x.kvDB[i] = st.kvDB[i]
        BY <2>1, <3>4 DEF IsState
      <3>7. \A i \in Shard : x.kvDB[i] \in Data(i)
        BY <2>1, <3>2, <3>6 DEF IsState
      <3>8. IsState(x)
        BY <3>4, <3>5, <3>6, <3>7 DEF IsState
      <3>9. Drops(st, x, op.num, h)
        BY <2>2, <3>4, <3>5, <3>6 DEF Drops
      <3> QED BY <1>3, <3>8, <3>9 DEF Does, h
    <2> QED BY <1>3, <2>2 DEF executeConfigCmd, Does
  <1> QED BY <1>1, <1>2, <1>3

\* Execute.
LEMMA ExecuteDoes ==
  ASSUME NEW g, NEW st, IsState(st), NEW op, IsOp(op), NEW x, x = Execute(g, st, op)
  PROVE  IsState(x) /\ Does(g, st, op, x)
  <1>1. CASE IsClientCmd(op)
    <2>0. PICK c \in Clerk : \E k \in DOMAIN Script[c] : op = Command(c, k)
      BY <1>1 DEF IsOp, IsClientCmd
    <2>1. PICK k \in DOMAIN Script[c] : op = Command(c, k)
      BY <2>0
    <2> QED BY <1>1, <2>1, ClientDoes DEF Execute, Does
  <1>2. CASE ~IsClientCmd(op) /\ op.type = "EmptyOp"
    BY <1>2 DEF Execute, Does
  <1>3. CASE ~IsClientCmd(op) /\ op.type # "EmptyOp"
    <2>1. ~\E c \in Clerk : \E k \in DOMAIN Script[c] : op = Command(c, k)
      BY <1>3, CommandIs
    <2>2. op.type \in {"UpdateConfig", "GetShard", "GiveShard"}
      BY <1>3, <2>1 DEF IsOp
    <2> QED BY <1>3, <2>2, ConfigDoes DEF Execute
  <1> QED BY <1>1, <1>2, <1>3

\* What a group has of its shards, by its configuration and the one before.
Shaped(g, st) ==
  /\ st.pre = IF st.cur = 0 THEN 0 ELSE st.cur - 1
  /\ \A h \in Shard :
     /\ st.owned[h] = "Exist" => st.cur > 0 /\ Config[st.cur][h] = g
     /\ st.owned[h] = "WaitGet" => st.cur > 1 /\ Config[st.cur][h] = g /\ Config[st.cur - 1][h] # g
     /\ st.owned[h] = "WaitGive" => st.cur > 1 /\ Config[st.cur][h] # g /\ Config[st.cur - 1][h] = g
     /\ st.owned[h] = "NoExist" => st.cur = 0 \/ Config[st.cur][h] # g

\* x is the same group's state, st or one that came after it.
Later(st, x) ==
  /\ st.cur <= x.cur
  /\ st.cur = x.cur => \A h \in Shard : st.owned[h] \in {"Exist", "NoExist"} => x.owned[h] = st.owned[h]
  /\ \A c \in Clerk : st.sessions[c].num <= x.sessions[c].num

\* A configuration is entered only when the one before is settled.
Waits(st, x) == x.cur = st.cur + 1 => updateConfigReady(st)

\* The numbers of a state.
LEMMA StateIs ==
  ASSUME NEW st, IsState(st)
  PROVE  /\ st.cur \in Nat /\ st.cur <= Len(Config) /\ (\A h \in Shard : st.owned[h] \in Kind)
         /\ \A c \in Clerk : st.sessions[c].num \in Nat
  <1>1. st.cur \in 0 .. Len(Config) /\ st.owned \in [Shard -> Kind] /\ st.sessions \in Sessions
    BY DEF IsState
  <1>2. \A c \in Clerk : st.sessions[c].num \in Nat
    BY <1>1 DEF Sessions
  <1> QED BY <1>1, <1>2, ConfigIs

\* A new server has nothing.
LEMMA ShapedNew == \A g : Shaped(g, NewServer)
  BY NewIs DEF Shaped

\* No entry but an update changes the configuration.
LEMMA CurKept ==
  ASSUME NEW g, NEW st, NEW op, NEW x, IsState(st), Does(g, st, op, x)
  PROVE  \/ op.type = "UpdateConfig" /\ Enters(g, st, x, op.num)
         \/ x.cur = st.cur /\ x.pre = st.pre
  BY DEF Does, Writes, Enters, Takes, Drops

\* A write changes no configuration, no other shard's state, and one session.
LEMMA WritesIs ==
  ASSUME NEW st, NEW x, NEW c, NEW k, Writes(st, x, c, k)
  PROVE  /\ x.cur = st.cur /\ x.pre = st.pre /\ x.owned = st.owned
         /\ st.sessions[c].num < k /\ x.sessions[c].num = k
         /\ \A d \in Clerk \ {c} : x.sessions[d] = st.sessions[d]
  BY Zenon DEF Writes

\* Each entry leaves a group with what its configuration says.
LEMMA ShapedStep ==
  ASSUME NEW g \in Group, NEW st, IsState(st), Shaped(g, st), NEW op, NEW x, Does(g, st, op, x), Waits(st, x)
  PROVE  Shaped(g, x)
  <1>0. st.cur \in Nat
    BY StateIs
  <1>1. CASE x = st
    BY <1>1
  <1>2. ASSUME NEW c \in Clerk, NEW k \in DOMAIN Script[c], Writes(st, x, c, k) PROVE Shaped(g, x)
    <2>1. x.cur = st.cur /\ x.pre = st.pre /\ x.owned = st.owned
      BY <1>2, WritesIs
    <2> QED BY <2>1 DEF Shaped
  <1>3. CASE Enters(g, st, x, op.num)
    <2>1. x.cur = st.cur + 1 /\ updateConfigReady(st) /\ x.cur \in Nat /\ x.cur # 0 /\ x.cur > 0
      BY <1>0, <1>3 DEF Enters, Waits
    <2>2. x.pre = st.cur
      BY <1>0, <1>3 DEF Enters, Shaped
    <2>3. ASSUME NEW h \in Shard
          PROVE  /\ x.owned[h] = "Exist" => x.cur > 0 /\ Config[x.cur][h] = g
                 /\ x.owned[h] = "WaitGet" => x.cur > 1 /\ Config[x.cur][h] = g /\ Config[x.cur - 1][h] # g
                 /\ x.owned[h] = "WaitGive" => x.cur > 1 /\ Config[x.cur][h] # g /\ Config[x.cur - 1][h] = g
                 /\ x.owned[h] = "NoExist" => x.cur = 0 \/ Config[x.cur][h] # g
      <3>1. /\ st.owned[h] \in {"NoExist", "Exist"}
            /\ x.owned[h] = IF st.owned[h] = "Exist" /\ Config[x.cur][h] # g THEN "WaitGive"
                            ELSE IF st.owned[h] = "NoExist" /\ Config[x.cur][h] = g
                                 THEN IF x.cur = 1 THEN "Exist" ELSE "WaitGet"
                            ELSE st.owned[h]
        BY <1>3, <2>1 DEF updateConfigReady, Enters
      <3>2. /\ st.owned[h] = "Exist" => st.cur > 0 /\ Config[st.cur][h] = g
            /\ st.owned[h] = "NoExist" => st.cur = 0 \/ Config[st.cur][h] # g
            /\ x.cur - 1 = st.cur
        BY <1>0, <2>1 DEF Shaped
      <3> QED BY <1>0, <2>1, <3>1, <3>2
    <2> QED BY <1>0, <2>1, <2>2, <2>3 DEF Shaped
  <1>4. CASE Takes(st, x, op.num, op.shard, op.data, op.sessions)
    <2>1. ASSUME NEW h \in Shard
          PROVE  x.owned[h] = st.owned[h] \/ (st.owned[h] = "WaitGet" /\ x.owned[h] = "Exist")
      <3>1. CASE h = op.shard
        BY <1>4, <3>1 DEF Takes
      <3>2. CASE h # op.shard
        BY <1>4, <3>2 DEF Takes
      <3> QED BY <3>1, <3>2
    <2> QED BY <1>0, <1>4, <2>1 DEF Takes, Shaped
  <1>5. CASE Drops(st, x, op.num, op.shard)
    <2>1. ASSUME NEW h \in Shard
          PROVE  x.owned[h] = st.owned[h] \/ (st.owned[h] = "WaitGive" /\ x.owned[h] = "NoExist")
      <3>1. CASE h = op.shard
        BY <1>5, <3>1 DEF Drops
      <3>2. CASE h # op.shard
        BY <1>5, <3>2 DEF Drops
      <3> QED BY <3>1, <3>2
    <2> QED BY <1>0, <1>5, <2>1 DEF Drops, Shaped
  <1> QED BY <1>1, <1>2, <1>3, <1>4, <1>5 DEF Does

\* Later is an order.
LEMMA LaterSame == ASSUME NEW st, IsState(st) PROVE Later(st, st)
  BY StateIs DEF Later

\* A new server's state is before any other.
LEMMA LaterThan ==
  ASSUME NEW st, NEW x, NEW y, IsState(st), IsState(x), IsState(y), Later(st, x), Later(x, y)
  PROVE  Later(st, y)
  <1>1. st.cur \in Nat /\ x.cur \in Nat /\ y.cur \in Nat /\ st.cur <= x.cur /\ x.cur <= y.cur
    BY StateIs DEF Later
  <1>2. ASSUME NEW c \in Clerk PROVE st.sessions[c].num <= y.sessions[c].num
    <2>1. /\ st.sessions[c].num \in Nat /\ x.sessions[c].num \in Nat /\ y.sessions[c].num \in Nat
          /\ st.sessions[c].num <= x.sessions[c].num /\ x.sessions[c].num <= y.sessions[c].num
      BY StateIs DEF Later
    <2> QED BY <2>1
  <1>3. ASSUME st.cur = y.cur, NEW h \in Shard, st.owned[h] \in {"Exist", "NoExist"} PROVE y.owned[h] = st.owned[h]
    <2>1. st.cur = x.cur /\ x.cur = y.cur
      BY <1>1, <1>3
    <2>2. x.owned[h] = st.owned[h]
      BY <1>3, <2>1 DEF Later
    <2> QED BY <1>3, <2>1, <2>2 DEF Later
  <1>4. st.cur <= y.cur
    BY <1>1
  <1> QED BY <1>2, <1>3, <1>4 DEF Later

\* After an entry it is later.
LEMMA LaterStep ==
  ASSUME NEW g, NEW st, IsState(st), NEW op, NEW x, IsState(x), Does(g, st, op, x)
  PROVE  Later(st, x)
  <1>0. st.cur \in Nat /\ x.cur \in Nat /\ \A c \in Clerk : st.sessions[c].num \in Nat /\ x.sessions[c].num \in Nat
    BY StateIs
  <1>1. CASE x = st
    BY <1>1, LaterSame
  <1>2. ASSUME NEW c \in Clerk, NEW k \in DOMAIN Script[c], Writes(st, x, c, k) PROVE Later(st, x)
    <2>1. k \in Nat
      BY CommandIs
    <2>2. \A d \in Clerk : st.sessions[d].num <= x.sessions[d].num
      <3>1. st.sessions[c].num < k /\ x.sessions[c].num = k /\ \A d \in Clerk \ {c} : x.sessions[d] = st.sessions[d]
        BY <1>2, WritesIs
      <3> QED BY <1>0, <2>1, <3>1
    <2>3. x.cur = st.cur /\ x.owned = st.owned
      BY <1>2, WritesIs
    <2> QED BY <1>0, <2>2, <2>3 DEF Later
  <1>3. CASE Enters(g, st, x, op.num)
    BY <1>0, <1>3 DEF Enters, Later
  <1>4. CASE Takes(st, x, op.num, op.shard, op.data, op.sessions)
    <2>1. ASSUME NEW h \in Shard
          PROVE  x.owned[h] = st.owned[h] \/ st.owned[h] = "WaitGet"
      BY <1>4 DEF Takes
    <2>2. ASSUME NEW c \in Clerk PROVE st.sessions[c].num <= x.sessions[c].num
      <3>1. x.sessions[c] = st.sessions[c] \/ (x.sessions[c] = op.sessions[c] /\ op.sessions[c].num > st.sessions[c].num)
        BY <1>4 DEF Takes
      <3>2. st.sessions[c].num \in Nat /\ x.sessions[c].num \in Nat
        BY <1>0
      <3> QED BY <3>1, <3>2
    <2> QED BY <1>0, <1>4, <2>1, <2>2 DEF Takes, Later
  <1>5. CASE Drops(st, x, op.num, op.shard)
    <2>1. ASSUME NEW h \in Shard
          PROVE  x.owned[h] = st.owned[h] \/ st.owned[h] = "WaitGive"
      BY <1>5 DEF Drops
    <2> QED BY <1>0, <1>5, <2>1 DEF Drops, Later
  <1> QED BY <1>1, <1>2, <1>3, <1>4, <1>5 DEF Does


(* A set of numbers that is not empty has a least one. *)
LEMMA Least ==
  ASSUME NEW T \in SUBSET Nat, T # {}
  PROVE  \E n \in T : \A m \in T : n <= m
<1>1. IsWellFoundedOn(OpToRel(<,Nat), Nat)
  BY NatLessThanWellFounded
<1>2. PICK n \in T : \A m \in T : <<m, n>> \notin OpToRel(<,Nat)
  BY <1>1, WFMin
<1>3. \A m \in T : <<m,n>> \in OpToRel(<,Nat) <=> m < n
  BY DEF OpToRel
<1>4. \A m \in T : ~(m < n)
  BY <1>2, <1>3, Zenon
<1>5. n \in Nat /\ \A m \in T : m \in Nat
  OBVIOUS
<1> QED BY <1>4, <1>5

\* The owner of h by configuration m has h, or had it and went on.
Has(w, g, m, h) == g \in Group /\ (w[g].cur > m \/ (w[g].cur = m /\ w[g].owned[h] = "Exist"))

\* Shard h is in service by configuration m, or was.
Done(w, m, h) == m \in 1 .. Len(Config) /\ Has(w, Config[m][h], m, h)

\* The former owner knew that it had to give before anybody took.
Sources(w) ==
  \A h \in Shard : \A m \in 2 .. Len(Config) :
    Done(w, m, h) /\ Config[m - 1][h] # Config[m][h] => Config[m - 1][h] \in Group /\ w[Config[m - 1][h]].cur >= m

\* What a group gave away somebody has taken.
Given(w) ==
  \A h \in Shard : \A m \in 2 .. Len(Config) :
    LET p == Config[m - 1][h]
    IN  p \in Group /\ p # Config[m][h] /\ (w[p].cur > m \/ (w[p].cur = m /\ w[p].owned[h] = "NoExist")) => Done(w, m, h)

\* What the groups have agreed on, all of them.
World(w) == (\A g \in Group : IsState(w[g]) /\ Shaped(g, w[g]) /\ w[g].cur > 0) /\ Sources(w) /\ Given(w)

\* An entry that hands a shard over comes after what it answers.
Follows(g, n, h) == n \in 2 .. Len(Config) /\ h \in Shard /\ Config[n][h] = g /\ Config[n - 1][h] \in Group \ {g}

\* The former owner of h has come to configuration n, which gives h to g.
Awaits(w, g, n, h) == Follows(g, n, h) /\ w[Config[n - 1][h]].cur >= n

\* What is in a log rests on what the groups have agreed on.
OwnFits(w, g, op) ==
  /\ IsOp(op)
  /\ op.type = "GetShard" => Awaits(w, g, op.num, op.shard)
  /\ op.type = "GiveShard" => op.num \in 2 .. Len(Config) /\ op.shard \in Shard /\ Done(w, op.num, op.shard)

\* Each group is where it was or later.
LaterAll(w, v) == \A g \in Group : IsState(w[g]) /\ IsState(v[g]) /\ Later(w[g], v[g])

\* What a group had it has, or has had, later.
LEMMA HasKept ==
  ASSUME NEW w, NEW v, LaterAll(w, v), NEW g, NEW m \in Nat, NEW h \in Shard, Has(w, g, m, h)
  PROVE  Has(v, g, m, h)
  <1>1. g \in Group /\ w[g].cur \in Nat /\ v[g].cur \in Nat /\ w[g].cur <= v[g].cur
    BY StateIs DEF Has, LaterAll, Later
  <1>2. CASE w[g].cur > m
    BY <1>1, <1>2 DEF Has
  <1>3. CASE w[g].cur = m /\ w[g].owned[h] = "Exist"
    <2>1. v[g].cur = m => v[g].owned[h] = "Exist"
      BY <1>1, <1>3 DEF LaterAll, Later
    <2> QED BY <1>1, <1>3, <2>1 DEF Has
  <1> QED BY <1>2, <1>3 DEF Has

\* A shard that came into service by a configuration did so for good.
LEMMA DoneKept ==
  ASSUME NEW w, NEW v, LaterAll(w, v), NEW m, NEW h \in Shard, Done(w, m, h)
  PROVE  Done(v, m, h)
  <1>1. m \in 1 .. Len(Config) /\ m \in Nat
    BY ConfigIs DEF Done
  <1> QED BY <1>1, HasKept DEF Done

\* A former owner that waits to give goes on waiting or has given.
LEMMA AwaitsKept ==
  ASSUME NEW w, NEW v, LaterAll(w, v), NEW g, NEW n, NEW h, Awaits(w, g, n, h)
  PROVE  Awaits(v, g, n, h)
  <1> DEFINE p == Config[n - 1][h]
  <1>1. p \in Group /\ w[p].cur >= n /\ n \in 2 .. Len(Config)
    BY DEF Awaits, Follows
  <1>2. w[p].cur \in Nat /\ v[p].cur \in Nat /\ w[p].cur <= v[p].cur
    BY <1>1, StateIs DEF LaterAll, Later
  <1>3. v[p].cur >= n
    BY <1>1, <1>2, ConfigIs
  <1> QED BY <1>3 DEF Awaits, Follows

\* An entry that fits fits later.
LEMMA FitsKept ==
  ASSUME NEW w, NEW v, LaterAll(w, v), NEW g, NEW op, OwnFits(w, g, op)
  PROVE  OwnFits(v, g, op)
  BY AwaitsKept, DoneKept DEF OwnFits

\* One group executes an entry.
Moves(w, g, op, x, v) ==
  /\ g \in Group /\ IsState(x) /\ Does(g, w[g], op, x) /\ Waits(w[g], x) /\ OwnFits(w, g, op)
  /\ v = [w EXCEPT ![g] = x] /\ DOMAIN w = Group

\* All are as they were but g, ...
LEMMA MovesIs ==
  ASSUME NEW w, NEW g, NEW op, NEW x, NEW v, Moves(w, g, op, x, v)
  PROVE  DOMAIN v = Group /\ v[g] = x /\ \A q \in Group \ {g} : v[q] = w[q]
  BY DEF Moves

\* ... each is where it was or later, ...
LEMMA MovesLater ==
  ASSUME NEW w, World(w), NEW g, NEW op, NEW x, NEW v, Moves(w, g, op, x, v)
  PROVE  LaterAll(w, v)
  <1>1. IsState(w[g]) /\ Later(w[g], x)
    BY LaterStep DEF Moves, World
  <1>2. ASSUME NEW q \in Group PROVE IsState(w[q]) /\ IsState(v[q]) /\ Later(w[q], v[q])
    <2>1. CASE q = g
      BY <2>1, <1>1, MovesIs DEF Moves
    <2>2. CASE q # g
      BY <2>2, MovesIs, LaterSame DEF World
    <2> QED BY <2>1, <2>2
  <1> QED BY <1>2 DEF LaterAll

\* ... has of its shards what its configuration says, ...
LEMMA MovesShaped ==
  ASSUME NEW w, World(w), NEW g, NEW op, NEW x, NEW v, Moves(w, g, op, x, v), NEW q \in Group
  PROVE  IsState(v[q]) /\ Shaped(q, v[q]) /\ v[q].cur > 0
  <1>1. CASE q = g
    <2>1. Shaped(g, x)
      BY ShapedStep DEF Moves, World
    <2>2. w[g].cur \in Nat /\ v[g].cur \in Nat /\ w[g].cur > 0 /\ w[g].cur <= v[g].cur
      BY <1>1, MovesLater, StateIs DEF World, LaterAll, Later
    <2> QED BY <1>1, <2>1, <2>2, MovesIs DEF Moves
  <1>2. CASE q # g
    BY <1>2, MovesIs DEF World
  <1> QED BY <1>1, <1>2

\* What an entry adds: an update of a shard that stays, or a shard fetched.
LEMMA NewDone ==
  ASSUME NEW w, World(w), NEW g, NEW op, NEW x, NEW v, Moves(w, g, op, x, v),
         NEW h \in Shard, NEW m \in 2 .. Len(Config), Done(v, m, h), ~Done(w, m, h)
  PROVE  /\ g = Config[m][h] /\ x.cur = m /\ x.owned[h] = "Exist"
         /\ \/ Config[m - 1][h] = g /\ w[g].cur = m - 1 /\ w[g].owned[h] = "Exist" /\ x.kvDB = w[g].kvDB /\ x.sessions = w[g].sessions
            \/ /\ op.type = "GetShard" /\ op.shard = h /\ op.num = m /\ w[g].cur = m
               /\ Takes(w[g], x, m, h, op.data, op.sessions) /\ Awaits(w, g, m, h)
  <1> DEFINE q == Config[m][h]
  <1>1. q \in Group /\ Has(v, q, m, h) /\ ~Has(w, q, m, h) /\ m \in Nat /\ m >= 2 /\ m \in 1 .. Len(Config)
    BY ConfigIs DEF Done, Has
  <1>2. q = g
    BY <1>1, MovesIs DEF Has
  <1>3. /\ w[g].cur \in Nat /\ x.cur \in Nat /\ w[g].cur <= m /\ ~(w[g].cur = m /\ w[g].owned[h] = "Exist")
        /\ (x.cur > m \/ (x.cur = m /\ x.owned[h] = "Exist")) /\ IsState(w[g]) /\ Shaped(g, w[g])
    BY <1>1, <1>2, MovesIs, StateIs DEF Has, Moves, World
  <1>4. Config[m][h] = g
    BY <1>2
  <1> HIDE DEF q
  <1>5. CASE x = w[g]
    BY <1>3, <1>5, <1>1
  <1>6. ASSUME NEW c \in Clerk, NEW k \in DOMAIN Script[c], Writes(w[g], x, c, k) PROVE FALSE
    <2>1. x.cur = w[g].cur /\ x.owned = w[g].owned
      BY <1>6 DEF Writes
    <2> QED BY <2>1, <1>3, <1>1
  <1>7. CASE Enters(g, w[g], x, op.num)
    <2>1. x.cur = w[g].cur + 1 /\ x.kvDB = w[g].kvDB /\ x.sessions = w[g].sessions
      BY <1>7 DEF Enters
    <2>2. w[g].owned[h] \in {"NoExist", "Exist"}
      BY <2>1 DEF Moves, Waits, updateConfigReady
    <2>3. w[g].owned[h] = "NoExist" => w[g].cur = 0 \/ Config[w[g].cur][h] # g
      BY <1>3 DEF Shaped
    <2>4. w[g].owned[h] = "Exist" => Config[w[g].cur][h] = g
      BY <1>3 DEF Shaped
    <2>5. x.cur # m + 1
      BY <2>1, <2>2, <2>3, <1>1, <1>3, <1>4
    <2>6. x.cur = m /\ x.owned[h] = "Exist" /\ w[g].cur = m - 1
      BY <2>1, <2>5, <1>1, <1>3
    <2>7. w[g].owned[h] = "Exist"
      BY <1>7, <2>2, <2>6, <1>1, <1>4 DEF Enters
    <2> QED BY <2>1, <2>4, <2>6, <2>7, <1>4
  <1>8. CASE op.type = "GetShard" /\ Takes(w[g], x, op.num, op.shard, op.data, op.sessions)
    <2>1. w[g].cur = op.num /\ x.cur = op.num
      BY <1>8 DEF Takes
    <2>2. op.num = m /\ x.owned[h] = "Exist" /\ w[g].owned[h] # "Exist"
      BY <2>1, <1>1, <1>3
    <2>3. op.shard = h
      BY <1>8, <2>2 DEF Takes
    <2>4. Awaits(w, g, m, h)
      BY <1>8, <2>2, <2>3 DEF Moves, OwnFits
    <2> QED BY <1>8, <2>1, <2>2, <2>3, <2>4, <1>4
  <1>9. CASE Drops(w[g], x, op.num, op.shard)
    <2>1. w[g].cur = x.cur /\ (x.owned[h] = w[g].owned[h] \/ x.owned[h] = "NoExist")
      BY <1>9 DEF Drops
    <2> QED BY <2>1, <1>3, <1>1
  <1> QED BY <1>5, <1>6, <1>7, <1>8, <1>9 DEF Does, Moves

\* ... takes only what was given up, ...
LEMMA MovesSources ==
  ASSUME NEW w, World(w), NEW g, NEW op, NEW x, NEW v, Moves(w, g, op, x, v)
  PROVE  Sources(v)
  <1> SUFFICES ASSUME NEW h \in Shard, NEW m \in 2 .. Len(Config), Done(v, m, h), Config[m - 1][h] # Config[m][h]
               PROVE  Config[m - 1][h] \in Group /\ v[Config[m - 1][h]].cur >= m
    BY DEF Sources
  <1> DEFINE p == Config[m - 1][h]
  <1>1. p \in Group /\ w[p].cur >= m
    <2>1. CASE Done(w, m, h)
      BY <2>1 DEF World, Sources
    <2>2. CASE ~Done(w, m, h)
      BY <2>2, NewDone DEF Awaits, Follows
    <2> QED BY <2>1, <2>2
  <1>2. w[p].cur <= v[p].cur /\ w[p].cur \in Nat /\ v[p].cur \in Nat
    BY <1>1, MovesLater, StateIs DEF LaterAll, Later
  <1> QED BY <1>1, <1>2, ConfigIs

\* ... and gives only what was taken.
LEMMA MovesGiven ==
  ASSUME NEW w, World(w), NEW g, NEW op, NEW x, NEW v, Moves(w, g, op, x, v)
  PROVE  Given(v)
  <1> SUFFICES ASSUME NEW h \in Shard, NEW m \in 2 .. Len(Config), NEW p, p = Config[m - 1][h], p \in Group, p # Config[m][h],
                      v[p].cur > m \/ (v[p].cur = m /\ v[p].owned[h] = "NoExist")
               PROVE  Done(v, m, h)
    BY DEF Given
  <1>0. m \in Nat /\ m >= 2 /\ m - 1 \in Nat /\ m - 1 # 0
    BY ConfigIs
  <1>1. CASE w[p].cur > m \/ (w[p].cur = m /\ w[p].owned[h] = "NoExist")
    <2>1. Done(w, m, h)
      BY <1>1 DEF World, Given
    <2> QED BY <2>1, MovesLater, DoneKept
  <1>2. CASE ~(w[p].cur > m \/ (w[p].cur = m /\ w[p].owned[h] = "NoExist"))
    <2>1. p = g
      BY <1>2, MovesIs
    <2>2. /\ w[g].cur \in Nat /\ x.cur \in Nat /\ w[g].cur <= m /\ ~(w[g].cur = m /\ w[g].owned[h] = "NoExist")
          /\ (x.cur > m \/ (x.cur = m /\ x.owned[h] = "NoExist")) /\ IsState(w[g]) /\ Shaped(g, w[g]) /\ w[g].cur > 0
      BY <1>0, <1>2, <2>1, MovesIs, StateIs DEF Moves, World
    <2>3. CASE x = w[g]
      BY <2>2, <2>3, <1>0
    <2>4. ASSUME NEW c \in Clerk, NEW k \in DOMAIN Script[c], Writes(w[g], x, c, k) PROVE FALSE
      <3>1. x.cur = w[g].cur /\ x.owned = w[g].owned
        BY <2>4 DEF Writes
      <3> QED BY <3>1, <2>2, <1>0
    <2>5. CASE Enters(g, w[g], x, op.num)
      <3>1. x.cur = w[g].cur + 1
        BY <2>5 DEF Enters
      <3>2. w[g].owned[h] \in {"NoExist", "Exist"}
        BY <3>1 DEF Moves, Waits, updateConfigReady
      <3>3. w[g].owned[h] = "NoExist" => Config[w[g].cur][h] # g
        BY <2>2 DEF Shaped
      <3>4. w[g].owned[h] = "Exist" => Config[w[g].cur][h] = g
        BY <2>2 DEF Shaped
      <3>5. x.cur # m + 1
        BY <3>1, <3>2, <3>4, <2>1, <2>2, <1>0
      <3>6. x.cur = m /\ x.owned[h] = "NoExist" /\ w[g].cur = m - 1
        BY <3>1, <3>5, <2>2, <1>0
      <3>7. w[g].owned[h] = "NoExist"
        BY <2>5, <3>2, <3>6 DEF Enters
      <3> QED BY <3>3, <3>6, <3>7, <2>1
    <2>6. CASE op.type = "GetShard" /\ Takes(w[g], x, op.num, op.shard, op.data, op.sessions)
      <3>1. w[g].cur = x.cur /\ (x.owned[h] = w[g].owned[h] \/ x.owned[h] = "Exist")
        BY <2>6 DEF Takes
      <3> QED BY <3>1, <2>2, <1>0
    <2>7. CASE op.type = "GiveShard" /\ Drops(w[g], x, op.num, op.shard)
      <3>1. w[g].cur = op.num /\ x.cur = op.num
        BY <2>7 DEF Drops
      <3>2. op.num = m /\ w[g].owned[h] # "NoExist" /\ x.owned[h] = "NoExist"
        BY <3>1, <2>2, <1>0
      <3>3. op.shard = h
        BY <2>7, <3>2 DEF Drops
      <3>4. Done(w, m, h)
        BY <2>7, <3>2, <3>3 DEF Moves, OwnFits
      <3> QED BY <3>4, MovesLater, DoneKept
    <2> QED BY <2>3, <2>4, <2>5, <2>6, <2>7 DEF Does, Moves
  <1> QED BY <1>1, <1>2

\* Together: an entry that fits keeps all that holds of the groups.
LEMMA WorldStep ==
  ASSUME NEW w, World(w), NEW g, NEW op, NEW x, NEW v, Moves(w, g, op, x, v)
  PROVE  World(v) /\ LaterAll(w, v) /\ DOMAIN v = Group
  BY MovesShaped, MovesSources, MovesGiven, MovesLater, MovesIs DEF World

-----------------------------------------------------------------------------
\* Who has a shard.

\* A shard that has come to configuration m was in all before.
LEMMA DoneBefore ==
  ASSUME NEW w, World(w), NEW h \in Shard, NEW m \in 2 .. Len(Config), Done(w, m, h)
  PROVE  Done(w, m - 1, h) /\ Config[m - 1][h] \in Group /\ w[Config[m - 1][h]].cur >= m
  <1> DEFINE p == Config[m - 1][h]
             q == Config[m][h]
  <1>1. m \in Nat /\ m >= 2 /\ m - 1 \in 1 .. Len(Config)
    BY ConfigIs
  <1>2. p \in Group /\ w[p].cur >= m
    <2>1. CASE p = q
      BY <2>1, <1>1, StateIs DEF Done, Has, World
    <2>2. CASE p # q
      BY <2>2 DEF World, Sources
    <2> QED BY <2>1, <2>2
  <1>3. w[p].cur \in Nat
    BY <1>2, StateIs DEF World
  <1> QED BY <1>1, <1>2, <1>3 DEF Done, Has

\* A shard comes into service by one configuration after another.
LEMMA DoneBelow ==
  ASSUME NEW w, World(w), NEW h \in Shard, NEW m \in 1 .. Len(Config), Done(w, m, h)
  PROVE  \A k \in 1 .. m : Done(w, k, h)
  <1> DEFINE T == {j \in Nat : j < m /\ ~Done(w, m - j, h)}
  <1>0. m \in Nat /\ m >= 1 /\ Len(Config) \in Nat /\ m <= Len(Config)
    BY ConfigIs
  <1>1. T = {}
    <2> SUFFICES ASSUME T # {} PROVE FALSE
      OBVIOUS
    <2>1. PICK j \in T : \A i \in T : j <= i
      BY Least
    <2>2. j \in Nat /\ j < m /\ ~Done(w, m - j, h)
      OBVIOUS
    <2>3. j # 0
      BY <2>2, <1>0
    <2>4. j - 1 \in Nat /\ j - 1 < m /\ ~(j <= j - 1)
      BY <2>2, <2>3, <1>0
    <2>5. Done(w, m - (j - 1), h)
      BY <2>1, <2>4
    <2>6. m - (j - 1) \in 2 .. Len(Config) /\ m - (j - 1) - 1 = m - j
      BY <2>2, <2>3, <1>0
    <2> QED BY <2>2, <2>5, <2>6, DoneBefore
  <1>2. ASSUME NEW k \in 1 .. m PROVE Done(w, k, h)
    <2>1. m - k \in Nat /\ m - k < m /\ m - (m - k) = k
      BY <1>0
    <2>2. m - k \notin T
      BY <1>1
    <2> QED BY <2>1, <2>2
  <1> QED BY <1>2

\* A group that has a shard has it by the newest configuration it came to.
LEMMA ExistDone ==
  ASSUME NEW w, World(w), NEW h \in Shard, NEW g \in Group, w[g].owned[h] = "Exist"
  PROVE  LET m == w[g].cur
         IN  m \in 1 .. Len(Config) /\ Config[m][h] = g /\ Done(w, m, h) /\ ~Done(w, m + 1, h)
  <1> DEFINE m == w[g].cur
  <1>1. m \in Nat /\ m >= 1 /\ m <= Len(Config) /\ Config[m][h] = g
    BY StateIs DEF World, Shaped
  <1>2. m \in 1 .. Len(Config) /\ m + 1 - 1 = m /\ ~(m >= m + 1)
    BY <1>1, ConfigIs
  <1>3. Done(w, m, h)
    BY <1>1, <1>2 DEF Done, Has
  <1>4. ASSUME NEW n, n = m + 1, Done(w, n, h) PROVE FALSE
    <2>1. n \in 2 .. Len(Config) /\ n - 1 = m
      BY <1>1, <1>4, ConfigIs DEF Done
    <2>2. w[Config[n - 1][h]].cur >= n
      BY <2>1, <1>4, DoneBefore
    <2>3. w[g].cur >= n
      BY <2>1, <2>2, <1>1
    <2> QED BY <2>3, <1>1, <1>4
  <1> QED BY <1>1, <1>2, <1>3, <1>4

\* Two groups that have h have it by the same configuration, so they are one.
LEMMA OneNewest ==
  ASSUME NEW w, World(w), NEW h \in Shard, NEW m \in 1 .. Len(Config), NEW n \in 1 .. Len(Config),
         Done(w, m, h), ~Done(w, m + 1, h), Done(w, n, h), ~Done(w, n + 1, h)
  PROVE  m = n
  <1>1. m \in Nat /\ n \in Nat /\ Len(Config) \in Nat
    BY ConfigIs
  <1>2. ~(m < n)
    <2> SUFFICES ASSUME m < n PROVE FALSE
      OBVIOUS
    <2>1. m + 1 \in 1 .. n
      BY <1>1
    <2> QED BY <2>1, DoneBelow
  <1>3. ~(n < m)
    <2> SUFFICES ASSUME n < m PROVE FALSE
      OBVIOUS
    <2>1. n + 1 \in 1 .. m
      BY <1>1
    <2> QED BY <2>1, DoneBelow
  <1> QED BY <1>1, <1>2, <1>3

\* Two groups never have the same shard.
LEMMA OwnersOne ==
  ASSUME NEW w, World(w), NEW h \in Shard, NEW p \in Group, NEW q \in Group,
         w[p].owned[h] = "Exist", w[q].owned[h] = "Exist"
  PROVE  p = q
  <1>1. w[p].cur = w[q].cur
    BY ExistDone, OneNewest
  <1> QED BY <1>1, ExistDone

\* The replay as a function: what there is after each of n entries.
Replays(gr, entries, n, f) ==
    f = [m \in 0 .. n |-> IF m = 0 THEN NewServer ELSE Execute(gr, f[m - 1], entries[m].op)]

\* There is one such function, ...
LEMMA ReplayUnique ==
    ASSUME NEW gr, NEW entries, NEW n \in Nat, NEW f, Replays(gr, entries, n, f),
           NEW q, NEW k \in Nat, n <= k, NEW g, Replays(gr, q, k, g),
           \A m \in 1 .. n : entries[m] = q[m]
    PROVE  \A m \in 0 .. n : f[m] = g[m]
<1> DEFINE T == {m \in 0 .. n : f[m] # g[m]}
<1> SUFFICES ASSUME T # {} PROVE FALSE
  OBVIOUS
<1>1. T \in SUBSET Nat
  OBVIOUS
<1>2. PICK m \in T : \A j \in T : m <= j
  BY <1>1, Least
<1>3. m \in 0 .. n /\ m \in 0 .. k /\ f[m] # g[m]
  OBVIOUS
<1>4. /\ f[m] = IF m = 0 THEN NewServer ELSE Execute(gr, f[m - 1], entries[m].op)
      /\ g[m] = IF m = 0 THEN NewServer ELSE Execute(gr, g[m - 1], q[m].op)
  BY <1>3 DEF Replays
<1>5. CASE m = 0
  BY <1>3, <1>4, <1>5
<1>6. CASE m # 0
  <2>1. m - 1 \in 0 .. n /\ m \in 1 .. n /\ ~(m <= m - 1)
    BY <1>3, <1>6
  <2>2. f[m - 1] = g[m - 1]
    BY <2>1, <1>2
  <2>3. entries[m] = q[m]
    BY <2>1
  <2> QED
    BY <1>3, <1>4, <1>6, <2>2, <2>3
<1> QED
  BY <1>5, <1>6

\* ... there is one, ...
LEMMA ReplayExists ==
    ASSUME NEW gr, NEW entries, NEW n \in Nat PROVE \E f : Replays(gr, entries, n, f)
<1> DEFINE T == {m \in Nat : ~\E f : Replays(gr, entries, m, f)}
<1> SUFFICES ASSUME T # {} PROVE FALSE
  OBVIOUS
<1>1. PICK m \in T : \A j \in T : m <= j
  BY Least
<1>2. m \in Nat /\ ~\E f : Replays(gr, entries, m, f)
  OBVIOUS
<1>3. CASE m = 0
  <2> DEFINE f == [j \in 0 .. 0 |-> NewServer]
  <2>1. Replays(gr, entries, 0, f)
    BY DEF Replays
  <2> QED
    BY <2>1, <1>2, <1>3
<1>4. CASE m # 0
  <2>1. m - 1 \in Nat /\ ~(m <= m - 1)
    BY <1>2, <1>4
  <2>2. PICK f : Replays(gr, entries, m - 1, f)
    BY <2>1, <1>1
  <2> DEFINE last == Execute(gr, f[m - 1], entries[m].op)
             g == [j \in 0 .. m |-> IF j = m THEN last ELSE f[j]]
  <2> HIDE DEF last
  <2>3. ASSUME NEW j \in 0 .. m
        PROVE  g[j] = IF j = 0 THEN NewServer ELSE Execute(gr, g[j - 1], entries[j].op)
    <3>1. CASE j = m
      <4>1. g[j] = last /\ g[j - 1] = f[j - 1] /\ j # 0
        BY <3>1, <1>2, <1>4
      <4> QED
        BY <4>1, <3>1 DEF last
    <3>2. CASE j # m
      <4>1. j \in 0 .. m - 1 /\ j \in Nat
        BY <3>2, <1>2
      <4>2. g[j] = f[j]
        BY <3>2
      <4>3. f[j] = IF j = 0 THEN NewServer ELSE Execute(gr, f[j - 1], entries[j].op)
        BY <4>1, <2>2 DEF Replays
      <4>4. j # 0 => g[j - 1] = f[j - 1]
        BY <4>1, <1>2
      <4> QED
        BY <4>2, <4>3, <4>4
    <3> QED
      BY <3>1, <3>2
  <2>4. g = [j \in 0 .. m |-> g[j]]
    OBVIOUS
  <2> HIDE DEF g
  <2>5. Replays(gr, entries, m, g)
    BY <2>3, <2>4 DEF Replays
  <2> QED
    BY <2>5, <1>2
<1> QED
  BY <1>3, <1>4

\* ... and Replay is its last value.
LEMMA ReplayIs ==
    ASSUME NEW gr, NEW entries, NEW n \in Nat
    PROVE  \E f : Replays(gr, entries, n, f) /\ Replay(gr, entries, n) = f[n]
<1>1. \E f : Replays(gr, entries, n, f)
  BY ReplayExists
<1> DEFINE f == CHOOSE g : Replays(gr, entries, n, g)
<1>2. Replays(gr, entries, n, f)
  BY <1>1
<1>3. Replay(gr, entries, n) = f[n]
  BY DEF Replay, Replays
<1> QED
  BY <1>2, <1>3

\* The replay begins with a new server.
LEMMA ReplayNone == ASSUME NEW gr, NEW entries PROVE Replay(gr, entries, 0) = NewServer
<1>1. PICK f : Replays(gr, entries, 0, f) /\ Replay(gr, entries, 0) = f[0]
  BY ReplayIs
<1> QED
  BY <1>1 DEF Replays

\* One more entry.
LEMMA ReplayNext ==
    ASSUME NEW gr, NEW entries, NEW n \in Nat
    PROVE  Replay(gr, entries, n + 1) = Execute(gr, Replay(gr, entries, n), entries[n + 1].op)
<1>1. PICK f : Replays(gr, entries, n, f) /\ Replay(gr, entries, n) = f[n]
  BY ReplayIs
<1>2. PICK g : Replays(gr, entries, n + 1, g) /\ Replay(gr, entries, n + 1) = g[n + 1]
  BY ReplayIs
<1>3. n \in 0 .. n /\ n + 1 \in Nat /\ n <= n + 1 /\ n + 1 # 0 /\ n + 1 - 1 = n /\ n + 1 \in 0 .. n + 1
  OBVIOUS
<1>4. f[n] = g[n]
  BY <1>1, <1>2, <1>3, ReplayUnique
<1>5. g[n + 1] = Execute(gr, g[n], entries[n + 1].op)
  BY <1>2, <1>3 DEF Replays
<1> QED
  BY <1>1, <1>2, <1>4, <1>5

\* What the first n entries make does not depend on what follows them.
LEMMA ReplayKept ==
    ASSUME NEW gr, NEW p, NEW q, NEW n \in Nat, \A i \in 1 .. n : q[i] = p[i]
    PROVE  Replay(gr, q, n) = Replay(gr, p, n)
<1>1. PICK f : Replays(gr, p, n, f) /\ Replay(gr, p, n) = f[n]
  BY ReplayIs
<1>2. PICK g : Replays(gr, q, n, g) /\ Replay(gr, q, n) = g[n]
  BY ReplayIs
<1>3. n <= n /\ n \in 0 .. n /\ \A i \in 1 .. n : p[i] = q[i]
  OBVIOUS
<1>4. \A m \in 0 .. n : f[m] = g[m]
  BY <1>1, <1>2, <1>3, ReplayUnique
<1> QED
  BY <1>1, <1>2, <1>3, <1>4

-----------------------------------------------------------------------------
\* Logs.
IsLog(l) == \E S : l \in Seq(S)

\* A log's length and domain.
LEMMA LogIs == ASSUME NEW l, IsLog(l) PROVE Len(l) \in Nat /\ DOMAIN l = 1 .. Len(l)
  BY DEF IsLog

\* An entry is appended.
LEMMA AppendIs ==
  ASSUME NEW l, IsLog(l), NEW e
  PROVE  /\ IsLog(Append(l, e)) /\ Len(Append(l, e)) = Len(l) + 1
         /\ (\A i \in 1 .. Len(l) : Append(l, e)[i] = l[i]) /\ Append(l, e)[Len(l) + 1] = e
  <1>1. PICK S : l \in Seq(S)
    BY DEF IsLog
  <1> DEFINE R == S \cup {e}
  <1>2. l \in Seq(R) /\ e \in R
    <2>1. Len(l) \in Nat /\ \A i \in 1 .. Len(l) : l[i] \in S
      BY <1>1
    <2> QED BY <1>1, <2>1
  <1> HIDE DEF R
  <1>3. Append(l, e) \in Seq(R)
    BY <1>2
  <1> QED BY <1>2, <1>3 DEF IsLog

\* A log is cut.
LEMMA CutIs ==
  ASSUME NEW l, IsLog(l), NEW n \in 0 .. Len(l)
  PROVE  /\ IsLog(SubSeq(l, 1, n)) /\ Len(SubSeq(l, 1, n)) = n
         /\ \A i \in 1 .. n : SubSeq(l, 1, n)[i] = l[i]
  <1>1. PICK S : l \in Seq(S)
    BY DEF IsLog
  <1>2. n \in Nat /\ n <= Len(l) /\ Len(l) \in Nat
    BY <1>1
  <1>3. SubSeq(l, 1, n) \in Seq(S)
    BY <1>1, <1>2
  <1> QED BY <1>1, <1>2, <1>3 DEF IsLog

-----------------------------------------------------------------------------
\* The invariant.

\* f has a value for each server.
Grid(f) == f = [g \in Group |-> [s \in Server(g) |-> f[g][s]]]

\* A clerk's record, ...
IsClerk(r) ==
  /\ DOMAIN r = {"num", "pc", "config", "at", "index", "chan", "got"}
  /\ r.num \in Nat \ {0}

\* ... and all of them.
Clerks(f) == f = [c \in Clerk |-> f[c]] /\ \A c \in Clerk : IsClerk(f[c])

\* Types.
Shapes ==
  /\ latest \in 1 .. Len(Config)
  /\ log = [g \in Group |-> log[g]] /\ commit = [g \in Group |-> commit[g]]
  /\ \A g \in Group : IsLog(log[g]) /\ commit[g] \in 0 .. Len(log[g])
  /\ Grid(applied) /\ Grid(sm) /\ Grid(pulls) /\ Grid(gives) /\ Clerks(clerk)

\* A server has executed what is committed, up to some entry.
Runs ==
  \A g \in Group : \A s \in Server(g) :
    applied[g][s] \in 0 .. commit[g] /\ sm[g][s] = Replay(g, log[g], applied[g][s])

\* What came before.
Past ==
  \A g \in Group : \A j \in 0 .. commit[g] :
    LET st == Replay(g, log[g], j)
    IN  IsState(st) /\ Shaped(g, st) /\ Later(st, Agreed[g])

\* Entries fit.
Logs == \A g \in Group : \A i \in 1 .. Len(log[g]) : OwnFits(Agreed, g, log[g][i].op)

\* A goroutine that has fetched a shard fetched it from its former owner, closed there.
PullOwn(w, g, t) ==
  /\ Follows(g, t.num, t.shard) /\ t.from = Config[t.num - 1][t.shard] /\ t.at \in Server(t.from)
  /\ DOMAIN t = {"shard", "num", "from", "at", "ok", "got"}
  /\ t.ok => Awaits(w, g, t.num, t.shard) /\ t.got.data \in Data(t.shard) /\ t.got.sessions \in Sessions

\* A goroutine that asks about a shard to be deleted asks its next owner.
GiveOwn(t) ==
  /\ t.num \in 2 .. Len(Config) /\ t.shard \in Shard /\ t.to = Config[t.num][t.shard] /\ t.to \in Group
  /\ t.at \in Server(t.to)
  /\ DOMAIN t = {"shard", "num", "to", "at"}

\* All goroutines.
Tasks ==
  \A g \in Group : \A s \in Server(g) :
    (\A t \in pulls[g][s] : PullOwn(Agreed, g, t)) /\ \A t \in gives[g][s] : GiveOwn(t)

\* The inductive invariant of the owners.
OwnInv == Shapes /\ Runs /\ Past /\ Logs /\ Tasks /\ World(Agreed)

-----------------------------------------------------------------------------
\* Steps that commit nothing.

\* Each log keeps what is committed and has only entries that fit.
LogStep ==
  /\ log' = [g \in Group |-> log'[g]]
  /\ \A g \in Group :
     /\ IsLog(log'[g]) /\ commit[g] <= Len(log'[g])
     /\ \A i \in 1 .. commit[g] : log'[g][i] = log[g][i]
     /\ \A i \in 1 .. Len(log'[g]) : OwnFits(Agreed, g, log'[g][i].op)

\* A server stays as it is or starts again.
RunStep ==
  /\ Grid(applied') /\ Grid(sm')
  /\ \A g \in Group : \A s \in Server(g) :
     \/ applied'[g][s] = applied[g][s] /\ sm'[g][s] = sm[g][s]
     \/ applied'[g][s] = 0 /\ sm'[g][s] = NewServer

\* Goroutines go on to what fits.
TaskStep ==
  /\ Grid(pulls') /\ Grid(gives')
  /\ \A g \in Group : \A s \in Server(g) :
     (\A t \in pulls'[g][s] : PullOwn(Agreed, g, t)) /\ \A t \in gives'[g][s] : GiveOwn(t)

\* A step that commits nothing.
Quiet == latest' \in 1 .. Len(Config) /\ commit' = commit /\ LogStep /\ RunStep /\ TaskStep /\ Clerks(clerk')

\* What is committed is in the log.
LEMMA CommitIs == ASSUME Shapes, NEW g \in Group PROVE commit[g] \in Nat /\ Len(log[g]) \in Nat /\ commit[g] <= Len(log[g])
  <1>1. IsLog(log[g]) /\ commit[g] \in 0 .. Len(log[g])
    BY DEF Shapes
  <1> QED BY <1>1, LogIs

\* It leaves what the groups agreed on.
LEMMA AgreedKept ==
  ASSUME Shapes, commit' = commit, LogStep
  PROVE  /\ Agreed' = Agreed
         /\ \A g \in Group : \A j \in 0 .. commit[g] : Replay(g, log'[g], j) = Replay(g, log[g], j)
  <1>1. ASSUME NEW g \in Group, NEW j \in 0 .. commit[g] PROVE Replay(g, log'[g], j) = Replay(g, log[g], j)
    <2>1. j \in Nat /\ j <= commit[g] /\ commit[g] \in Nat
      BY CommitIs
    <2>2. \A i \in 1 .. j : log'[g][i] = log[g][i]
      BY <2>1 DEF LogStep
    <2> QED BY <2>1, <2>2, ReplayKept
  <1>2. ASSUME NEW g \in Group PROVE Replay(g, log'[g], commit'[g]) = Replay(g, log[g], commit[g])
    <2>1. commit[g] \in 0 .. commit[g]
      BY CommitIs
    <2> QED BY <1>1, <2>1
  <1>3. Agreed' = Agreed
    BY <1>2 DEF Agreed
  <1> QED BY <1>1, <1>3

\* It keeps the invariant.
LEMMA QuietStep ==
  ASSUME OwnInv, Quiet
  PROVE  OwnInv'
  <1>0. Shapes /\ commit' = commit /\ LogStep
    BY DEF OwnInv, Quiet
  <1>1. /\ Agreed' = Agreed
        /\ \A g \in Group : \A j \in 0 .. commit[g] : Replay(g, log'[g], j) = Replay(g, log[g], j)
    BY <1>0, AgreedKept
  <1>2. Shapes'
    <2>1. ASSUME NEW g \in Group PROVE IsLog(log'[g]) /\ commit'[g] \in 0 .. Len(log'[g])
      <3>1. IsLog(log'[g]) /\ commit[g] <= Len(log'[g])
        BY <1>0 DEF LogStep
      <3> QED BY <1>0, <3>1, CommitIs, LogIs
    <2> QED BY <1>0, <2>1 DEF Shapes, Quiet, LogStep, RunStep, TaskStep
  <1>3. Runs'
    <2> SUFFICES ASSUME NEW g \in Group, NEW s \in Server(g)
                 PROVE  applied'[g][s] \in 0 .. commit'[g] /\ sm'[g][s] = Replay(g, log'[g], applied'[g][s])
      BY DEF Runs
    <2>1. commit[g] \in Nat /\ 0 \in 0 .. commit[g]
      BY <1>0, CommitIs
    <2>2. CASE applied'[g][s] = applied[g][s] /\ sm'[g][s] = sm[g][s]
      <3>1. applied[g][s] \in 0 .. commit[g] /\ sm[g][s] = Replay(g, log[g], applied[g][s])
        BY DEF OwnInv, Runs
      <3> QED BY <1>0, <1>1, <2>2, <3>1
    <2>3. CASE applied'[g][s] = 0 /\ sm'[g][s] = NewServer
      BY <1>0, <2>1, <2>3, ReplayNone
    <2> QED BY <2>2, <2>3 DEF Quiet, RunStep
  <1>4. Past'
    BY <1>0, <1>1 DEF OwnInv, Past
  <1>5. Logs'
    BY <1>1 DEF Logs, Quiet, LogStep
  <1>6. Tasks'
    BY <1>1 DEF Tasks, Quiet, TaskStep
  <1> QED BY <1>1, <1>2, <1>3, <1>4, <1>5, <1>6 DEF OwnInv

\* Parts of such steps.
LEMMA LogSame == ASSUME OwnInv, UNCHANGED log PROVE LogStep
  <1>1. \A g \in Group : commit[g] <= Len(log[g])
    BY CommitIs DEF OwnInv
  <1> QED BY <1>1 DEF OwnInv, Shapes, Logs, LogStep

\* An entry that fits is appended.
LEMMA LogAppended ==
  ASSUME OwnInv, NEW g, NEW s, NEW op, StartLog(g, s, op), g \in Group => OwnFits(Agreed, g, op)
  PROVE  LogStep
  <1> DEFINE e == [op |-> op, term |-> term[g]]
  <1>1. CASE log' = log
    BY <1>1, LogSame
  <1>2. CASE log' = [log EXCEPT ![g] = Append(log[g], e)]
    <2> HIDE DEF e
    <2>0. log = [q \in Group |-> log[q]] /\ \A q \in Group : IsLog(log[q]) /\ commit[q] <= Len(log[q]) /\ commit[q] \in Nat
      BY CommitIs DEF OwnInv, Shapes
    <2>1. log' = [q \in Group |-> log'[q]] /\ \A q \in Group : log'[q] = IF q = g THEN Append(log[g], e) ELSE log[q]
      BY <1>2, <2>0
    <2>2. ASSUME NEW q \in Group
          PROVE  /\ IsLog(log'[q]) /\ commit[q] <= Len(log'[q])
                 /\ \A i \in 1 .. commit[q] : log'[q][i] = log[q][i]
                 /\ \A i \in 1 .. Len(log'[q]) : OwnFits(Agreed, q, log'[q][i].op)
      <3>0. \A i \in 1 .. Len(log[q]) : OwnFits(Agreed, q, log[q][i].op)
        BY DEF OwnInv, Logs
      <3>1. CASE q # g
        BY <2>0, <2>1, <3>0, <3>1
      <3>2. CASE q = g
        <4>1. /\ IsLog(log'[q]) /\ Len(log'[q]) = Len(log[q]) + 1 /\ Len(log[q]) \in Nat
              /\ (\A i \in 1 .. Len(log[q]) : log'[q][i] = log[q][i]) /\ log'[q][Len(log[q]) + 1] = e
          <5>1. IsLog(log[q]) /\ log'[q] = Append(log[q], e)
            BY <2>0, <2>1, <3>2
          <5>2. PICK l : l = log[q]
            OBVIOUS
          <5>3. /\ IsLog(Append(l, e)) /\ Len(Append(l, e)) = Len(l) + 1 /\ Len(l) \in Nat
                /\ (\A i \in 1 .. Len(l) : Append(l, e)[i] = l[i]) /\ Append(l, e)[Len(l) + 1] = e
            BY <5>1, <5>2, AppendIs, LogIs
          <5> QED BY <5>1, <5>2, <5>3
        <4>2. OwnFits(Agreed, q, e.op)
          BY <3>2 DEF e
        <4>3. ASSUME NEW i \in 1 .. Len(log'[q]) PROVE OwnFits(Agreed, q, log'[q][i].op)
          <5>1. CASE i \in 1 .. Len(log[q])
            BY <3>0, <4>1, <5>1
          <5>2. CASE i = Len(log[q]) + 1
            BY <4>1, <4>2, <5>2
          <5> QED BY <4>1, <5>1, <5>2
        <4>4. commit[q] \in Nat /\ commit[q] <= Len(log[q])
          BY <2>0
        <4> QED BY <4>1, <4>3, <4>4
      <3> QED BY <3>1, <3>2
    <2> QED BY <2>1, <2>2 DEF LogStep
  <1> QED BY <1>1, <1>2 DEF StartLog

\* A new leader loses the end of the log, and no committed entry.
LEMMA LogCut ==
  ASSUME OwnInv, NEW g \in Group, NEW n \in commit[g] .. Len(log[g]), log' = [log EXCEPT ![g] = SubSeq(log[g], 1, n)]
  PROVE  LogStep
  <1>0. log = [q \in Group |-> log[q]] /\ \A q \in Group : IsLog(log[q]) /\ commit[q] <= Len(log[q]) /\ commit[q] \in Nat
    BY CommitIs DEF OwnInv, Shapes
  <1>1. log' = [q \in Group |-> log'[q]] /\ \A q \in Group : log'[q] = IF q = g THEN SubSeq(log[g], 1, n) ELSE log[q]
    BY <1>0
  <1>2. ASSUME NEW q \in Group
        PROVE  /\ IsLog(log'[q]) /\ commit[q] <= Len(log'[q])
               /\ \A i \in 1 .. commit[q] : log'[q][i] = log[q][i]
               /\ \A i \in 1 .. Len(log'[q]) : OwnFits(Agreed, q, log'[q][i].op)
    <2>0. \A i \in 1 .. Len(log[q]) : OwnFits(Agreed, q, log[q][i].op)
      BY DEF OwnInv, Logs
    <2>1. CASE q # g
      BY <1>0, <1>1, <2>0, <2>1
    <2>2. CASE q = g
      <3>0. Len(log[g]) \in Nat /\ n \in 0 .. Len(log[g]) /\ commit[g] <= n /\ n <= Len(log[g]) /\ commit[g] \in Nat
        BY <1>0, LogIs
      <3>1. IsLog(log'[q]) /\ Len(log'[q]) = n /\ \A i \in 1 .. n : log'[q][i] = log[q][i]
        BY <1>0, <1>1, <2>2, <3>0, CutIs
      <3>2. \A i \in 1 .. n : i \in 1 .. Len(log[q])
        BY <3>0, <2>2
      <3>3. \A i \in 1 .. commit[q] : i \in 1 .. n
        BY <3>0, <2>2
      <3> QED BY <2>0, <2>2, <3>0, <3>1, <3>2, <3>3
    <2> QED BY <2>1, <2>2
  <1> QED BY <1>1, <1>2 DEF LogStep

\* Servers, ...
LEMMA RunSame == ASSUME OwnInv, UNCHANGED <<applied, sm>> PROVE RunStep
  BY DEF OwnInv, Shapes, RunStep

\* ... goroutines ...
LEMMA TaskSame == ASSUME OwnInv, UNCHANGED <<pulls, gives>> PROVE TaskStep
  BY DEF OwnInv, Shapes, Tasks, TaskStep

\* ... and clerks that stay as they are.
LEMMA ClerksSame == ASSUME OwnInv, UNCHANGED clerk PROVE Clerks(clerk')
  BY DEF OwnInv, Shapes

\* One clerk's record changes.
LEMMA ClerkSet ==
  ASSUME OwnInv, NEW c \in Clerk, NEW r, IsClerk(r), clerk' = [clerk EXCEPT ![c] = r]
  PROVE  Clerks(clerk')
  <1>1. clerk = [d \in Clerk |-> clerk[d]] /\ \A d \in Clerk : IsClerk(clerk[d])
    BY DEF OwnInv, Shapes, Clerks
  <1>2. clerk' = [d \in Clerk |-> clerk'[d]] /\ \A d \in Clerk : clerk'[d] = IF d = c THEN r ELSE clerk[d]
    BY <1>1
  <1> QED BY <1>1, <1>2 DEF Clerks

\* A cell of a grid is set.
Sets(f, f2, g, s, y) == f2 = [f EXCEPT ![g][s] = y]

\* f2 is f with y for server s of g.
Cells(f, f2, g, s, y) ==
  /\ Grid(f2) /\ f2[g][s] = y
  /\ \A q \in Group : \A t \in Server(q) : <<q, t>> # <<g, s>> => f2[q][t] = f[q][t]

\* It is a grid.
LEMMA GridSet ==
  ASSUME NEW f, NEW f2, Grid(f), NEW g \in Group, NEW s \in Server(g), NEW y, Sets(f, f2, g, s, y)
  PROVE  Cells(f, f2, g, s, y)
  <1>1. f = [q \in Group |-> [t \in Server(q) |-> f[q][t]]]
    BY DEF Grid
  <1>2. f2 = [q \in Group |-> IF q = g THEN [f[g] EXCEPT ![s] = y] ELSE f[q]]
    BY <1>1 DEF Sets
  <1>3. \A q \in Group : f[q] = [t \in Server(q) |-> f[q][t]]
    BY <1>1
  <1>4. f2[g] = [t \in Server(g) |-> IF t = s THEN y ELSE f[g][t]]
    BY <1>2, <1>3
  <1>5. \A q \in Group : q # g => f2[q] = f[q]
    BY <1>2
  <1>6. \A q \in Group : f2[q] = [t \in Server(q) |-> f2[q][t]]
    BY <1>3, <1>4, <1>5
  <1>7. Grid(f2)
    BY <1>2, <1>6 DEF Grid
  <1> QED BY <1>4, <1>5, <1>7 DEF Cells

-----------------------------------------------------------------------------
\* Facts about a state.

\* A server's state machine is a state, ...
LEMMA StateOf ==
  ASSUME OwnInv, NEW g \in Group, NEW s \in Server(g)
  PROVE  /\ IsState(sm[g][s]) /\ Shaped(g, sm[g][s]) /\ Later(sm[g][s], Agreed[g])
         /\ sm[g][s].cur \in Nat /\ sm[g][s].cur <= Len(Config)
  <1>1. applied[g][s] \in 0 .. commit[g] /\ sm[g][s] = Replay(g, log[g], applied[g][s])
    BY DEF OwnInv, Runs
  <1>2. IsState(sm[g][s]) /\ Shaped(g, sm[g][s]) /\ Later(sm[g][s], Agreed[g])
    BY <1>1 DEF OwnInv, Past
  <1> QED BY <1>2, StateIs

\* ... and so is what a group has agreed on.
LEMMA AgreedIs ==
  ASSUME OwnInv
  PROVE  DOMAIN Agreed = Group /\ \A g \in Group : Agreed[g] = Replay(g, log[g], commit[g]) /\ IsState(Agreed[g])
  BY DEF Agreed, OwnInv, World

\* What clerks and loops put in a log.
LEMMA RequestFits ==
  ASSUME OwnInv, NEW c \in Clerk, Active(c), NEW w, NEW g
  PROVE  clerk[c].num \in DOMAIN Script[c] /\ OwnFits(w, g, Request(c))
  <1>1. clerk[c].num \in Nat \ {0} /\ clerk[c].num <= Len(Script[c])
    BY DEF OwnInv, Shapes, Clerks, IsClerk, Active
  <1>2. clerk[c].num \in DOMAIN Script[c]
    BY <1>1, ScriptIs
  <1>3. Request(c).type \notin {"GetShard", "GiveShard"}
    BY <1>2, CommandIs, ScriptIs DEF Request
  <1> QED BY <1>2, <1>3 DEF OwnFits, IsOp, Request

\* An empty entry, ...
LEMMA EmptyFits == ASSUME NEW w, NEW g, NEW op, op = [type |-> "EmptyOp"] PROVE OwnFits(w, g, op)
  BY DEF OwnFits, IsOp

\* ... a configuration, ...
LEMMA UpdateFits ==
  ASSUME NEW w, NEW g, NEW n \in 1 .. Len(Config), NEW op, op = [type |-> "UpdateConfig", num |-> n]
  PROVE  OwnFits(w, g, op)
  BY DEF OwnFits, IsOp

\* ... a shard that was fetched, ...
LEMMA GetFits ==
  ASSUME NEW w, NEW g, NEW t, PullOwn(w, g, t), t.ok,
         NEW op, op = [type |-> "GetShard", num |-> t.num, shard |-> t.shard, data |-> t.got.data, sessions |-> t.got.sessions]
  PROVE  OwnFits(w, g, op)
  <1>1. t.num \in 1 .. Len(Config)
    BY ConfigIs DEF PullOwn, Follows
  <1> QED BY <1>1 DEF OwnFits, IsOp, PullOwn, Follows

\* ... and a shard that may go.
LEMMA GiveFits ==
  ASSUME NEW w, NEW g, NEW t, GiveOwn(t), Done(w, t.num, t.shard),
         NEW op, op = [type |-> "GiveShard", num |-> t.num, shard |-> t.shard]
  PROVE  OwnFits(w, g, op)
  <1>1. t.num \in 1 .. Len(Config)
    BY ConfigIs DEF GiveOwn
  <1> QED BY <1>1 DEF OwnFits, IsOp, GiveOwn

-----------------------------------------------------------------------------
\* Clerks.

\* A clerk's record, ...
LEMMA ClerkIs == ASSUME OwnInv, NEW c \in Clerk PROVE IsClerk(clerk[c])
  BY DEF OwnInv, Shapes, Clerks

\* ... when it begins again with the first server, ...
LEMMA StartOverIs == ASSUME NEW r, IsClerk(r) PROVE IsClerk(StartOver(r)) /\ StartOver(r).num = r.num
  BY DEF IsClerk, StartOver

\* ... tries the next, ...
LEMMA NextServerIs == ASSUME NEW c, IsClerk(clerk[c]) PROVE IsClerk(NextServer(c)) /\ NextServer(c).num = clerk[c].num
  BY DEF IsClerk, StartOver, NextServer

\* ... or is done.
LEMMA FinishedIs == ASSUME NEW r, IsClerk(r), NEW y PROVE IsClerk(Finished(r, y)) /\ Finished(r, y).num = r.num + 1
  BY DEF IsClerk, Finished

\* What Answer makes of a clerk.
Answered(c, r, reply) ==
  \/ r = NextServer(c)
  \/ r = StartOver(clerk[c])
  \/ /\ reply.err = "OK" \/ (reply.err = "ErrNoKey" /\ Request(c).type = "Get")
     /\ r = Finished(clerk[c], reply.value)

\* Each answer leaves a record.
LEMMA AnswerIs ==
  ASSUME NEW c \in Clerk, IsClerk(clerk[c]), NEW reply, Answer(c, reply)
  PROVE  \E r : clerk' = [clerk EXCEPT ![c] = r] /\ Answered(c, r, reply) /\ IsClerk(r)
  <1>1. \/ clerk' = [clerk EXCEPT ![c] = NextServer(c)]
        \/ clerk' = [clerk EXCEPT ![c] = StartOver(clerk[c])]
        \/ /\ clerk' = [clerk EXCEPT ![c] = Finished(clerk[c], reply.value)]
           /\ reply.err = "OK" \/ (reply.err = "ErrNoKey" /\ Request(c).type = "Get")
    BY DEF Answer
  <1> QED BY <1>1, StartOverIs, NextServerIs, FinishedIs DEF Answered

\* What a clerk's step makes of it.
ClerkMove(c) == \E r : clerk' = [clerk EXCEPT ![c] = r] /\ IsClerk(r)

\* A clerk's step leaves the others, and what the groups have.
LEMMA ClerkMoves ==
  ASSUME OwnInv, NEW c \in Clerk, ClerkStep(c) \/ LoseCall(c)
  PROVE  ClerkMove(c) /\ (Start(c) \/ UNCHANGED NotTheServers)
  <1>0. IsClerk(clerk[c])
    BY ClerkIs
  <1>1. CASE QueryLatest(c)
    <2> DEFINE r == [clerk[c] EXCEPT !.config = latest, !.pc = "call"]
    <2>1. clerk' = [clerk EXCEPT ![c] = r]
      BY <1>1 DEF QueryLatest
    <2>2. IsClerk(r)
      BY <1>0 DEF IsClerk
    <2> QED BY <1>1, <2>1, <2>2 DEF QueryLatest, ClerkMove
  <1>2. CASE EnterHandler(c)
    <2> DEFINE r == [clerk[c] EXCEPT !.pc = "start"]
    <2>1. CASE \E reply : Answer(c, reply)
      BY <1>0, <1>2, <2>1, AnswerIs DEF EnterHandler, ClerkMove
    <2>2. CASE clerk' = [clerk EXCEPT ![c].pc = "start"]
      <3>1. clerk' = [clerk EXCEPT ![c] = r]
        BY <2>2
      <3>2. IsClerk(r)
        BY <1>0 DEF IsClerk
      <3> QED BY <1>2, <3>1, <3>2 DEF EnterHandler, ClerkMove
    <2> QED BY <1>2, <2>1, <2>2 DEF EnterHandler
  <1>3. CASE Start(c)
    <2>1. CASE \E reply : Answer(c, reply)
      BY <1>0, <1>3, <2>1, AnswerIs DEF ClerkMove
    <2>2. ASSUME NEW i, NEW p, clerk' = [clerk EXCEPT ![c].pc = p, ![c].index = i] PROVE ClerkMove(c)
      <3> DEFINE r == [clerk[c] EXCEPT !.pc = p, !.index = i]
      <3>1. clerk' = [clerk EXCEPT ![c] = r]
        BY <2>2
      <3>2. IsClerk(r)
        BY <1>0 DEF IsClerk
      <3> QED BY <3>1, <3>2 DEF ClerkMove
    <2> QED BY <1>3, <2>1, <2>2 DEF Start
  <1>4. CASE createNotifyCh(c)
    <2> DEFINE r == [clerk[c] EXCEPT !.pc = "wait"]
    <2>1. clerk' = [clerk EXCEPT ![c] = r]
      BY <1>4 DEF createNotifyCh
    <2>2. IsClerk(r)
      BY <1>0 DEF IsClerk
    <2> QED BY <1>4, <2>1, <2>2 DEF createNotifyCh, ClerkMove
  <1>5. CASE Receive(c)
    <2>1. \E reply : Answer(c, reply)
      BY <1>5 DEF Receive
    <2> QED BY <1>0, <1>5, <2>1, AnswerIs DEF Receive, ClerkMove
  <1>6. CASE Timeout(c)
    BY <1>0, <1>6, NextServerIs DEF Timeout, ClerkMove
  <1>7. CASE LoseCall(c)
    BY <1>0, <1>7, NextServerIs DEF LoseCall, ClerkMove
  <1> QED BY <1>1, <1>2, <1>3, <1>4, <1>5, <1>6, <1>7 DEF ClerkStep

\* It commits nothing.
LEMMA ClerkQuiet ==
  ASSUME OwnInv, NEW c \in Clerk, ClerkStep(c) \/ LoseCall(c)
  PROVE  Quiet
  <1>1. Clerks(clerk')
    <2>1. PICK r : clerk' = [clerk EXCEPT ![c] = r] /\ IsClerk(r)
      BY ClerkMoves DEF ClerkMove
    <2> QED BY <2>1, ClerkSet
  <1>2. CASE Start(c)
    <2>1. StartLog(GidOf(c), clerk[c].at, Request(c)) /\ Active(c) /\ UNCHANGED <<latest, term, belief, commit, applied, sm, loopVars>>
      BY <1>2 DEF Start
    <2>2. LogStep
      BY <2>1, RequestFits, LogAppended
    <2> QED BY <1>1, <2>1, <2>2, RunSame, TaskSame DEF Quiet, loopVars, OwnInv, Shapes
  <1>3. CASE UNCHANGED NotTheServers
    BY <1>1, <1>3, LogSame, RunSame, TaskSame DEF Quiet, NotTheServers, raftVars, loopVars, OwnInv, Shapes
  <1> QED BY <1>2, <1>3, ClerkMoves

-----------------------------------------------------------------------------
\* Servers' steps that commit nothing.

\* The shard master publishes.
LEMMA PublishQuiet == ASSUME OwnInv, Publish PROVE Quiet
  <1>1. latest' \in 1 .. Len(Config)
    BY ConfigIs DEF OwnInv, Shapes, Publish
  <1> QED BY <1>1, LogSame, RunSame, TaskSame, ClerksSame DEF Publish, Quiet, raftVars, loopVars, OwnInv, Shapes

\* A server is elected, ...
LEMMA ElectQuiet == ASSUME OwnInv, NEW g \in Group, NEW s \in Server(g), Elect(g, s) PROVE Quiet
  <1>1. PICK n \in commit[g] .. Len(log[g]) : log' = [log EXCEPT ![g] = SubSeq(log[g], 1, n)]
    BY DEF Elect
  <1>2. LogStep
    BY <1>1, LogCut
  <1> QED BY <1>2, RunSame, TaskSame, ClerksSame DEF Elect, Quiet, raftVars, loopVars, OwnInv, Shapes

\* ... steps down ...
LEMMA StepDownQuiet == ASSUME OwnInv, NEW g \in Group, NEW s \in Server(g), StepDown(g, s) PROVE Quiet
  BY LogSame, RunSame, TaskSame, ClerksSame DEF StepDown, Quiet, raftVars, loopVars, OwnInv, Shapes

\* ... or restarts.
LEMMA RestartQuiet == ASSUME OwnInv, NEW g \in Group, NEW s \in Server(g), Restart(g, s) PROVE Quiet
  <1>0. Grid(applied) /\ Grid(sm) /\ Grid(pulls) /\ Grid(gives)
    BY DEF OwnInv, Shapes
  <1>1. RunStep
    <2>1. applied' = [applied EXCEPT ![g][s] = 0] /\ sm' = [sm EXCEPT ![g][s] = NewServer]
      BY DEF Restart
    <2>2. Cells(applied, applied', g, s, 0)
      <3>1. Sets(applied, applied', g, s, 0)
        BY <2>1 DEF Sets
      <3> QED BY <1>0, <3>1, GridSet
    <2>3. Cells(sm, sm', g, s, NewServer)
      <3>1. Sets(sm, sm', g, s, NewServer)
        BY <2>1 DEF Sets
      <3> QED BY <1>0, <3>1, GridSet
    <2> QED BY <2>2, <2>3 DEF RunStep, Cells
  <1>2. TaskStep
    <2>1. pulls' = [pulls EXCEPT ![g][s] = {}] /\ gives' = [gives EXCEPT ![g][s] = {}]
      BY DEF Restart
    <2>2. Cells(pulls, pulls', g, s, {})
      <3>1. Sets(pulls, pulls', g, s, {})
        BY <2>1 DEF Sets
      <3> QED BY <1>0, <3>1, GridSet
    <2>3. Cells(gives, gives', g, s, {})
      <3>1. Sets(gives, gives', g, s, {})
        BY <2>1 DEF Sets
      <3> QED BY <1>0, <3>1, GridSet
    <2>4. ASSUME NEW q \in Group, NEW t \in Server(q)
          PROVE  (\A k \in pulls'[q][t] : PullOwn(Agreed, q, k)) /\ \A k \in gives'[q][t] : GiveOwn(k)
      <3>1. CASE <<q, t>> = <<g, s>>
        BY <2>2, <2>3, <3>1 DEF Cells
      <3>2. CASE <<q, t>> # <<g, s>>
        BY <2>2, <2>3, <3>2 DEF Cells, OwnInv, Tasks
      <3> QED BY <3>1, <3>2
    <2> QED BY <2>2, <2>3, <2>4 DEF TaskStep, Cells
  <1>3. Clerks(clerk')
    <2>1. clerk' = [c \in Clerk |-> clerk'[c]] /\ \A c \in Clerk : clerk'[c] = NextServer(c) \/ clerk'[c] = clerk[c]
      BY DEF Restart
    <2> QED BY <2>1, ClerkIs, NextServerIs DEF Clerks
  <1> QED BY <1>1, <1>2, <1>3, LogSame DEF Restart, Quiet, OwnInv, Shapes

\* getLastestConfig.
LEMMA UpdateQuiet == ASSUME OwnInv, NEW g \in Group, NEW s \in Server(g), UpdateStep(g, s) PROVE Quiet
  <1>1. CASE getLastestConfig(g, s)
    BY <1>1, LogSame, RunSame, TaskSame, ClerksSame DEF getLastestConfig, Quiet, raftVars, OwnInv, Shapes
  <1>2. CASE StartUpdate(g, s)
    <2> DEFINE n == sm[g][s].cur + 1
    <2>1. LogStep
      <3>1. CASE log' = log
        BY <3>1, LogSame
      <3>2. CASE n <= latest /\ StartLog(g, s, [type |-> "UpdateConfig", num |-> n])
        <4>1. n \in 1 .. Len(Config)
          BY <3>2, StateOf, ConfigIs DEF OwnInv, Shapes
        <4> QED BY <3>2, <4>1, UpdateFits, LogAppended
      <3> QED BY <1>2, <3>1, <3>2 DEF StartUpdate
    <2> QED BY <1>2, <2>1, RunSame, TaskSame, ClerksSame DEF StartUpdate, Quiet, OwnInv, Shapes
  <1> QED BY <1>1, <1>2 DEF UpdateStep

\* addEmptyLog.
LEMMA EmptyQuiet == ASSUME OwnInv, NEW g \in Group, NEW s \in Server(g), addEmptyLog(g, s) PROVE Quiet
  <1>1. LogStep
    BY EmptyFits, LogAppended DEF addEmptyLog
  <1> QED BY <1>1, RunSame, TaskSame, ClerksSame DEF addEmptyLog, Quiet, loopVars, OwnInv, Shapes

\* A set of tasks is replaced by one that fits.
LEMMA PullsSet ==
  ASSUME OwnInv, NEW g \in Group, NEW s \in Server(g), NEW T, \A t \in T : PullOwn(Agreed, g, t),
         pulls' = [pulls EXCEPT ![g][s] = T], UNCHANGED gives
  PROVE  TaskStep
  <1>0. Grid(pulls) /\ Grid(gives)
    BY DEF OwnInv, Shapes
  <1>1. Cells(pulls, pulls', g, s, T)
    <2>1. Sets(pulls, pulls', g, s, T)
      BY DEF Sets
    <2> QED BY <1>0, <2>1, GridSet
  <1>2. ASSUME NEW q \in Group, NEW t \in Server(q)
        PROVE  (\A k \in pulls'[q][t] : PullOwn(Agreed, q, k)) /\ \A k \in gives'[q][t] : GiveOwn(k)
    <2>1. CASE <<q, t>> = <<g, s>>
      <3>1. q = g /\ t = s
        BY <2>1
      <3> QED BY <1>1, <3>1 DEF Cells, OwnInv, Tasks
    <2>2. CASE <<q, t>> # <<g, s>>
      BY <1>1, <2>2 DEF Cells, OwnInv, Tasks
    <2> QED BY <2>1, <2>2
  <1> QED BY <1>0, <1>1, <1>2 DEF TaskStep, Cells

\* The questions whether to delete, of one server.
LEMMA GivesSet ==
  ASSUME OwnInv, NEW g \in Group, NEW s \in Server(g), NEW T, \A t \in T : GiveOwn(t),
         gives' = [gives EXCEPT ![g][s] = T], UNCHANGED pulls
  PROVE  TaskStep
  <1>0. Grid(pulls) /\ Grid(gives)
    BY DEF OwnInv, Shapes
  <1>1. Cells(gives, gives', g, s, T)
    <2>1. Sets(gives, gives', g, s, T)
      BY DEF Sets
    <2> QED BY <1>0, <2>1, GridSet
  <1>2. ASSUME NEW q \in Group, NEW t \in Server(q)
        PROVE  (\A k \in pulls'[q][t] : PullOwn(Agreed, q, k)) /\ \A k \in gives'[q][t] : GiveOwn(k)
    <2>1. CASE <<q, t>> = <<g, s>>
      <3>1. q = g /\ t = s
        BY <2>1
      <3> QED BY <1>1, <3>1 DEF Cells, OwnInv, Tasks
    <2>2. CASE <<q, t>> # <<g, s>>
      BY <1>1, <2>2 DEF Cells, OwnInv, Tasks
    <2> QED BY <2>1, <2>2
  <1> QED BY <1>0, <1>1, <1>2 DEF TaskStep, Cells

\* A group has a server 1.
LEMMA ServersIs == ASSUME NEW g \in Group PROVE NServers[g] \in Nat /\ NServers[g] >= 1 /\ 1 \in Server(g) /\ Server(g) = 1 .. NServers[g]
  BY GroupAssumption DEF Server

\* A task goes on to the next server.
LEMMA OnwardPull ==
  ASSUME NEW w, NEW g, NEW T, \A t \in T : PullOwn(w, g, t), NEW t \in T
  PROVE  \A k \in Onward(t.from, T, t) : PullOwn(w, g, k)
  <1> DEFINE u == [t EXCEPT !.at = t.at + 1]
  <1>1. PullOwn(w, g, t) /\ t.from \in Group
    BY DEF PullOwn, Follows
  <1>2. CASE t.at < NServers[t.from]
    <2>1. t.at + 1 \in Server(t.from)
      BY <1>1, <1>2, ServersIs DEF PullOwn
    <2>2. /\ DOMAIN u = DOMAIN t /\ u.shard = t.shard /\ u.num = t.num /\ u.from = t.from /\ u.at = t.at + 1
          /\ u.ok = t.ok /\ u.got = t.got
      BY <1>1 DEF PullOwn
    <2>3. PullOwn(w, g, u)
      <3> HIDE DEF u
      <3> QED BY <1>1, <2>1, <2>2 DEF PullOwn
    <2> QED BY <1>2, <2>3 DEF Onward
  <1>3. CASE ~(t.at < NServers[t.from])
    BY <1>3 DEF Onward
  <1> QED BY <1>2, <1>3

\* A question goes on to the next server.
LEMMA OnwardGive ==
  ASSUME NEW T, \A t \in T : GiveOwn(t), NEW t \in T
  PROVE  \A k \in Onward(t.to, T, t) : GiveOwn(k)
  <1> DEFINE u == [t EXCEPT !.at = t.at + 1]
  <1>1. GiveOwn(t) /\ t.to \in Group
    BY DEF GiveOwn
  <1>2. CASE t.at < NServers[t.to]
    <2>1. t.at + 1 \in Server(t.to)
      BY <1>1, <1>2, ServersIs DEF GiveOwn
    <2>2. DOMAIN u = DOMAIN t /\ u.shard = t.shard /\ u.num = t.num /\ u.to = t.to /\ u.at = t.at + 1
      BY <1>1 DEF GiveOwn
    <2>3. GiveOwn(u)
      <3> HIDE DEF u
      <3> QED BY <1>1, <2>1, <2>2 DEF GiveOwn
    <2> QED BY <1>2, <2>3 DEF Onward
  <1>3. CASE ~(t.at < NServers[t.to])
    BY <1>3 DEF Onward
  <1> QED BY <1>2, <1>3

\* A shard that is awaited comes from the group that had it.
LEMMA PullFits ==
  ASSUME OwnInv, NEW g \in Group, NEW s \in Server(g), NEW h \in Shard,
         sm[g][s].owned[h] = "WaitGet", Owner(sm[g][s].pre, h) # 0,
         NEW t, t = [shard |-> h, num |-> sm[g][s].cur, from |-> Owner(sm[g][s].pre, h), at |-> 1, ok |-> FALSE, got |-> NoData]
  PROVE  PullOwn(Agreed, g, t)
  <1> DEFINE n == sm[g][s].cur
  <1>1. /\ Shaped(g, sm[g][s]) /\ n \in Nat /\ n <= Len(Config) /\ n > 1 /\ Config[n][h] = g /\ Config[n - 1][h] # g
        /\ sm[g][s].pre = n - 1
    <2>1. Shaped(g, sm[g][s]) /\ n \in Nat /\ n <= Len(Config)
      BY StateOf
    <2>2. n > 1 /\ Config[n][h] = g /\ Config[n - 1][h] # g /\ sm[g][s].pre = IF n = 0 THEN 0 ELSE n - 1
      BY <2>1, Zenon DEF Shaped
    <2> HIDE DEF n
    <2> QED BY <2>1, <2>2
  <1>2. n \in 2 .. Len(Config) /\ n - 1 \in 1 .. Len(Config) /\ n - 1 # 0
    <2> HIDE DEF n
    <2> QED BY <1>1, ConfigIs
  <1>3. Owner(sm[g][s].pre, h) = Config[n - 1][h] /\ Config[n - 1][h] \in Group \ {g}
    BY <1>1, <1>2, ConfigIs DEF Owner
  <1>4. 1 \in Server(Config[n - 1][h])
    BY <1>3, ServersIs
  <1> HIDE DEF n
  <1> QED BY <1>1, <1>2, <1>3, <1>4 DEF PullOwn, Follows, n

\* Questions that a server begins.
LEMMA GivesFit ==
  ASSUME OwnInv, NEW g \in Group, NEW s \in Server(g), NEW h \in Shard,
         sm[g][s].owned[h] = "WaitGive", Owner(sm[g][s].cur, h) # 0,
         NEW t, t = [shard |-> h, num |-> sm[g][s].cur, to |-> Owner(sm[g][s].cur, h), at |-> 1]
  PROVE  GiveOwn(t)
  <1> DEFINE n == sm[g][s].cur
  <1>1. Shaped(g, sm[g][s]) /\ n \in Nat /\ n <= Len(Config) /\ n > 1
    <2>1. Shaped(g, sm[g][s]) /\ n \in Nat /\ n <= Len(Config)
      BY StateOf
    <2>2. n > 1
      BY <2>1, Zenon DEF Shaped
    <2> QED BY <2>1, <2>2
  <1>2. n \in 2 .. Len(Config) /\ n \in 1 .. Len(Config) /\ n # 0
    BY <1>1, ConfigIs
  <1>3. Owner(n, h) = Config[n][h] /\ Config[n][h] \in Group
    BY <1>1, <1>2, ConfigIs DEF Owner
  <1>4. 1 \in Server(Config[n][h])
    BY <1>3, ServersIs
  <1> HIDE DEF n
  <1> QED BY <1>1, <1>2, <1>3, <1>4 DEF GiveOwn, n

\* What the answer of MigrateShard leaves to do.
LEMMA MigrateTasks ==
  ASSUME NEW g, NEW s, NEW t, MigrateShard(g, s, t), t.num \in Nat, sm[t.from][t.at].cur \in Nat
  PROVE  LET st == sm[t.from][t.at]
             rest == pulls[g][s] \ {t}
             u == [t EXCEPT !.ok = TRUE, !.got = [data |-> st.kvDB[t.shard], sessions |-> st.sessions]]
         IN  \/ pulls' = [pulls EXCEPT ![g][s] = Onward(t.from, pulls[g][s], t)]
             \/ pulls' = [pulls EXCEPT ![g][s] = rest]
             \/ pulls' = [pulls EXCEPT ![g][s] = rest \cup {u}] /\ st.cur = t.num
  <1> DEFINE st == sm[t.from][t.at]
             rest == pulls[g][s] \ {t}
             u == [t EXCEPT !.ok = TRUE, !.got = [data |-> st.kvDB[t.shard], sessions |-> st.sessions]]
             on == Onward(t.from, pulls[g][s], t)
             T == IF ~IsLeader(t.from, t.at) \/ st.cur > t.num THEN on ELSE IF st.cur < t.num THEN rest ELSE rest \cup {u}
  <1>1. pulls' = [pulls EXCEPT ![g][s] = on] \/ pulls' = [pulls EXCEPT ![g][s] = T]
    BY DEF MigrateShard
  <1>2. T = on \/ T = rest \/ (T = rest \cup {u} /\ st.cur = t.num)
    <2>1. ~(st.cur > t.num) /\ ~(st.cur < t.num) => st.cur = t.num
      OBVIOUS
    <2> HIDE DEF u, rest, on, st
    <2> QED BY <2>1, Zenon DEF T
  <1> HIDE DEF u, rest, on, T
  <1>3. \/ pulls' = [pulls EXCEPT ![g][s] = on]
        \/ pulls' = [pulls EXCEPT ![g][s] = rest]
        \/ pulls' = [pulls EXCEPT ![g][s] = rest \cup {u}] /\ st.cur = t.num
    BY <1>1, <1>2, Zenon
  <1> QED BY <1>3, Zenon DEF u, rest, on

\* checkAndGetShard and MigrateShard.
LEMMA PullQuiet == ASSUME OwnInv, NEW g \in Group, NEW s \in Server(g), PullStep(g, s) PROVE Quiet
  <1>0. \A t \in pulls[g][s] : PullOwn(Agreed, g, t)
    BY DEF OwnInv, Tasks
  <1>1. CASE checkAndGetShard(g, s)
    <2> DEFINE st == sm[g][s]
               shards == {h \in Shard : st.owned[h] = "WaitGet" /\ Owner(st.pre, h) # 0}
               T == {[shard |-> h, num |-> st.cur, from |-> Owner(st.pre, h), at |-> 1,
                      ok |-> FALSE, got |-> NoData] : h \in shards}
    <2>1. pulls' = [pulls EXCEPT ![g][s] = T] /\ UNCHANGED <<latest, raftVars, applied, sm, updater, gives, clerk>>
      BY <1>1 DEF checkAndGetShard
    <2>2. \A t \in T : PullOwn(Agreed, g, t)
      BY PullFits
    <2> HIDE DEF T
    <2>3. TaskStep
      BY <2>1, <2>2, PullsSet
    <2> QED BY <2>1, <2>3, LogSame, RunSame, ClerksSame DEF Quiet, raftVars, OwnInv, Shapes
  <1>2. ASSUME NEW t \in pulls[g][s], MigrateShard(g, s, t) PROVE Quiet
    <2> DEFINE st == sm[t.from][t.at]
               rest == pulls[g][s] \ {t}
               u == [t EXCEPT !.ok = TRUE, !.got = [data |-> st.kvDB[t.shard], sessions |-> st.sessions]]
    <2>0. PullOwn(Agreed, g, t) /\ t.from \in Group /\ t.at \in Server(t.from) /\ t.shard \in Shard
      BY <1>0 DEF PullOwn, Follows
    <2>1. PICK T : /\ pulls' = [pulls EXCEPT ![g][s] = T]
                   /\ T = Onward(t.from, pulls[g][s], t) \/ T = rest \/ (T = rest \cup {u} /\ st.cur = t.num)
      <3>1. /\ t.num \in Nat /\ st.cur \in Nat
        BY <2>0, StateOf, ConfigIs DEF PullOwn, Follows
      <3>2. \/ pulls' = [pulls EXCEPT ![g][s] = Onward(t.from, pulls[g][s], t)]
            \/ pulls' = [pulls EXCEPT ![g][s] = rest]
            \/ pulls' = [pulls EXCEPT ![g][s] = rest \cup {u}] /\ st.cur = t.num
        BY <1>2, <3>1, MigrateTasks
      <3> QED BY <3>2
    <2>2. \A k \in Onward(t.from, pulls[g][s], t) : PullOwn(Agreed, g, k)
      BY <1>0, OnwardPull
    <2>3. ASSUME st.cur = t.num PROVE PullOwn(Agreed, g, u)
      <3>1. /\ DOMAIN u = DOMAIN t /\ u.shard = t.shard /\ u.num = t.num /\ u.from = t.from /\ u.at = t.at
            /\ u.got.data = st.kvDB[t.shard] /\ u.got.sessions = st.sessions
        <4> HIDE DEF st
        <4> QED BY <2>0 DEF PullOwn
      <3>2. st.kvDB[t.shard] \in Data(t.shard) /\ st.sessions \in Sessions
        BY <2>0, StateOf DEF IsState
      <3>3. Agreed[t.from].cur >= t.num
        <4>1. st.cur <= Agreed[t.from].cur /\ st.cur \in Nat /\ Agreed[t.from].cur \in Nat
          BY <2>0, StateOf, AgreedIs, StateIs DEF Later
        <4> QED BY <4>1, <2>3
      <3> HIDE DEF st, u
      <3> QED BY <2>0, <3>1, <3>2, <3>3 DEF PullOwn, Awaits
    <2> HIDE DEF u, st
    <2>4. \A k \in T : PullOwn(Agreed, g, k)
      BY <1>0, <2>1, <2>2, <2>3
    <2>5. TaskStep
      BY <1>2, <2>1, <2>4, PullsSet DEF MigrateShard
    <2> QED BY <1>2, <2>5, LogSame, RunSame, ClerksSame DEF MigrateShard, Quiet, raftVars, OwnInv, Shapes
  <1>3. ASSUME NEW t \in pulls[g][s], StartGetShard(g, s, t) PROVE Quiet
    <2> DEFINE T == pulls[g][s] \ {t}
    <2>1. PullOwn(Agreed, g, t) /\ t.ok
      BY <1>0, <1>3 DEF StartGetShard
    <2>2. LogStep
      BY <1>3, <2>1, GetFits, LogAppended DEF StartGetShard
    <2>3. TaskStep
      <3>1. pulls' = [pulls EXCEPT ![g][s] = T] /\ UNCHANGED gives /\ \A k \in T : PullOwn(Agreed, g, k)
        BY <1>0, <1>3 DEF StartGetShard
      <3> HIDE DEF T
      <3> QED BY <3>1, PullsSet
    <2> QED BY <1>3, <2>2, <2>3, RunSame, ClerksSame DEF StartGetShard, Quiet, OwnInv, Shapes
  <1> QED BY <1>1, <1>2, <1>3 DEF PullStep

\* A group that answers that it has the shard has it, or had it.
LEMMA ReceivedIs ==
  ASSUME OwnInv, NEW t, GiveOwn(t), sm[t.to][t.at].cur >= t.num, Received(sm[t.to][t.at], t)
  PROVE  Done(Agreed, t.num, t.shard)
  <1> DEFINE st == sm[t.to][t.at]
             a == Agreed[t.to]
  <1>1. t.to \in Group /\ t.at \in Server(t.to) /\ t.num \in 1 .. Len(Config) /\ t.shard \in Shard /\ t.num \in Nat
    BY ConfigIs DEF GiveOwn
  <1>2. st.cur \in Nat /\ a.cur \in Nat /\ Later(st, a) /\ st.cur <= a.cur
    BY <1>1, StateOf, AgreedIs, StateIs DEF Later
  <1>3. a.cur > t.num \/ (a.cur = t.num /\ a.owned[t.shard] = "Exist")
    <2>1. CASE a.cur > t.num
      BY <2>1
    <2>2. CASE ~(a.cur > t.num)
      <3>1. st.cur = t.num /\ a.cur = t.num
        BY <1>1, <1>2, <2>2
      <3>2. st.owned[t.shard] = "Exist"
        BY <1>1, <3>1 DEF Received
      <3> QED BY <1>1, <1>2, <3>1, <3>2 DEF Later
    <2> QED BY <2>1, <2>2
  <1> QED BY <1>1, <1>3 DEF Done, Has, GiveOwn

\* checkAndFinishGiveShard and AckReceiveShard.
LEMMA GiveQuiet == ASSUME OwnInv, NEW g \in Group, NEW s \in Server(g), GiveStep(g, s) PROVE Quiet
  <1>0. \A t \in gives[g][s] : GiveOwn(t)
    BY DEF OwnInv, Tasks
  <1>1. CASE checkAndFinishGiveShard(g, s)
    <2> DEFINE st == sm[g][s]
               shards == {h \in Shard : st.owned[h] = "WaitGive" /\ Owner(st.cur, h) # 0}
               T == {[shard |-> h, num |-> st.cur, to |-> Owner(st.cur, h), at |-> 1] : h \in shards}
    <2>1. gives' = [gives EXCEPT ![g][s] = T] /\ UNCHANGED <<latest, raftVars, applied, sm, updater, pulls, clerk>>
      BY <1>1 DEF checkAndFinishGiveShard
    <2>2. \A t \in T : GiveOwn(t)
      BY GivesFit
    <2> HIDE DEF T
    <2>3. TaskStep
      BY <2>1, <2>2, GivesSet
    <2> QED BY <2>1, <2>3, LogSame, RunSame, ClerksSame DEF Quiet, raftVars, OwnInv, Shapes
  <1>2. ASSUME NEW t \in gives[g][s], AckReceiveShard(g, s, t) PROVE Quiet
    <2> DEFINE st == sm[t.to][t.at]
               op == [type |-> "GiveShard", num |-> t.num, shard |-> t.shard]
    <2>0. GiveOwn(t) /\ \A k \in Onward(t.to, gives[g][s], t) : GiveOwn(k)
      BY <1>0, OnwardGive
    <2>1. PICK T : gives' = [gives EXCEPT ![g][s] = T] /\ (T = Onward(t.to, gives[g][s], t) \/ T = gives[g][s] \ {t})
      BY <1>2 DEF AckReceiveShard
    <2>2. TaskStep
      BY <1>0, <1>2, <2>0, <2>1, GivesSet DEF AckReceiveShard
    <2>3. CASE log' = log
      BY <1>2, <2>2, <2>3, LogSame, RunSame, ClerksSame DEF AckReceiveShard, Quiet, OwnInv, Shapes
    <2>4. CASE st.cur >= t.num /\ Received(st, t) /\ StartLog(g, s, op)
      <3>1. LogStep
        BY <2>0, <2>4, ReceivedIs, GiveFits, LogAppended
      <3> QED BY <1>2, <2>2, <3>1, RunSame, ClerksSame DEF AckReceiveShard, Quiet, OwnInv, Shapes
    <2> QED BY <1>2, <2>3, <2>4 DEF AckReceiveShard
  <1> QED BY <1>1, <1>2 DEF GiveStep

-----------------------------------------------------------------------------
\* applyMessage.

\* What applyMessage changes.
LEMMA ApplyIs ==
  ASSUME OwnInv, NEW g \in Group, NEW s \in Server(g), applyMessage(g, s)
  PROVE  LET i == applied[g][s] + 1
             op == log[g][i].op
         IN  /\ i \in Nat /\ i >= 1 /\ i <= Len(log[g]) /\ i - 1 = applied[g][s] /\ i - 1 <= commit[g]
             /\ sm[g][s] = Replay(g, log[g], i - 1) /\ sm'[g][s] = Execute(g, sm[g][s], op)
             /\ sm'[g][s] = Replay(g, log[g], i) /\ applied'[g][s] = i
             /\ Cells(applied, applied', g, s, i) /\ Cells(sm, sm', g, s, sm'[g][s])
             /\ OwnFits(Agreed, g, op) /\ IsState(sm'[g][s]) /\ Does(g, sm[g][s], op, sm'[g][s])
             /\ \/ i <= commit[g] /\ commit' = commit
                \/ i = commit[g] + 1 /\ commit' = [commit EXCEPT ![g] = i] /\ sm[g][s] = Agreed[g]
  <1> DEFINE i == applied[g][s] + 1
             op == log[g][i].op
             y == Execute(g, sm[g][s], op)
  <1>1. /\ applied[g][s] \in 0 .. commit[g] /\ sm[g][s] = Replay(g, log[g], applied[g][s])
        /\ commit[g] \in Nat /\ Len(log[g]) \in Nat /\ commit[g] <= Len(log[g])
    BY CommitIs DEF OwnInv, Runs
  <1>2. i \in Nat /\ i >= 1 /\ i - 1 = applied[g][s] /\ i - 1 <= commit[g] /\ i - 1 \in Nat
    BY <1>1
  <1>3. i <= Len(log[g])
    <2>1. CASE i <= commit[g]
      BY <1>1, <1>2, <2>1
    <2>2. CASE \E j \in i .. Len(log[g]) : log[g][j].term = term[g]
      BY <1>1, <1>2, <2>2
    <2> QED BY <2>1, <2>2 DEF applyMessage, Committable
  <1>4. Grid(applied) /\ Grid(sm)
    BY DEF OwnInv, Shapes
  <1>5. Cells(applied, applied', g, s, i) /\ Cells(sm, sm', g, s, y)
    <2>1. Sets(applied, applied', g, s, i) /\ Sets(sm, sm', g, s, y)
      BY DEF Sets, applyMessage
    <2> HIDE DEF y, i
    <2> QED BY <1>4, <2>1, GridSet
  <1>6. applied'[g][s] = i /\ sm'[g][s] = y
    BY <1>5 DEF Cells
  <1>7. OwnFits(Agreed, g, op)
    <2>1. i \in 1 .. Len(log[g])
      BY <1>1, <1>2, <1>3
    <2> QED BY <2>1 DEF OwnInv, Logs
  <1>8. IsState(y) /\ Does(g, sm[g][s], op, y)
    <2>1. IsState(sm[g][s]) /\ IsOp(op)
      BY <1>7, StateOf DEF OwnFits
    <2> QED BY <2>1, ExecuteDoes
  <1>9. Replay(g, log[g], i) = y
    <2> DEFINE k == i - 1
    <2>1. k \in Nat /\ k + 1 = i /\ k = applied[g][s]
      BY <1>2
    <2> HIDE DEF k
    <2>2. Replay(g, log[g], k + 1) = Execute(g, Replay(g, log[g], k), log[g][k + 1].op)
      BY <2>1, ReplayNext
    <2> HIDE DEF i
    <2> QED BY <1>1, <2>1, <2>2
  <1>10. \/ i <= commit[g] /\ commit' = commit
         \/ i = commit[g] + 1 /\ commit' = [commit EXCEPT ![g] = i] /\ sm[g][s] = Agreed[g]
    <2>0. commit' = [commit EXCEPT ![g] = IF commit[g] < i THEN i ELSE commit[g]]
      BY DEF applyMessage
    <2>1. CASE i <= commit[g]
      <3>1. ~(commit[g] < i)
        BY <2>1, <1>1, <1>2
      <3>2. commit = [q \in Group |-> commit[q]]
        BY DEF OwnInv, Shapes
      <3>3. commit' = commit
        BY <2>0, <3>1, <3>2
      <3> QED BY <2>1, <3>3
    <2>2. CASE ~(i <= commit[g])
      <3>1. commit[g] < i /\ applied[g][s] = commit[g] /\ i = commit[g] + 1
        BY <2>2, <1>1, <1>2
      <3>2. sm[g][s] = Agreed[g]
        BY <1>1, <3>1, AgreedIs
      <3> QED BY <2>0, <3>1, <3>2
    <2> QED BY <2>1, <2>2
  <1> HIDE DEF i, y, op
  <1>11. sm[g][s] = Replay(g, log[g], i - 1)
    BY <1>1, <1>2
  <1> QED BY <1>2, <1>3, <1>5, <1>6, <1>7, <1>8, <1>9, <1>10, <1>11 DEF i, op, y

\* A clerk that is told stays a clerk.
LEMMA NotifyClerks ==
  ASSUME OwnInv, NEW g \in Group, NEW s \in Server(g), applyMessage(g, s)
  PROVE  Clerks(clerk')
  <1>1. CASE UNCHANGED clerk
    BY <1>1, ClerksSame
  <1>2. ASSUME NEW i, NEW reply, Notify(g, s, i, reply) PROVE Clerks(clerk')
    <2>1. clerk' = [c \in Clerk |-> clerk'[c]]
          /\ \A c \in Clerk : clerk'[c] = [clerk[c] EXCEPT !.chan = <<reply>>] \/ clerk'[c] = clerk[c]
      BY <1>2 DEF Notify
    <2>2. \A c \in Clerk : IsClerk([clerk[c] EXCEPT !.chan = <<reply>>]) /\ IsClerk(clerk[c])
      BY ClerkIs DEF IsClerk
    <2> QED BY <2>1, <2>2 DEF Clerks
  <1> QED BY <1>1, <1>2 DEF applyMessage

\* One configuration is settled before the next is entered.
OneChange == \A g \in Group : \A s \in Server(g) : Waits(sm[g][s], sm'[g][s])

\* An entry that was committed before.
LEMMA ApplyOld ==
  ASSUME OwnInv, NEW g \in Group, NEW s \in Server(g), applyMessage(g, s), applied[g][s] + 1 <= commit[g], commit' = commit
  PROVE  OwnInv'
  <1> DEFINE i == applied[g][s] + 1
  <1>1. /\ i \in Nat /\ i <= commit[g] /\ Cells(applied, applied', g, s, i) /\ Cells(sm, sm', g, s, sm'[g][s])
        /\ sm'[g][s] = Replay(g, log[g], i) /\ applied'[g][s] = i
    BY ApplyIs
  <1> HIDE DEF i
  <1>2. UNCHANGED <<latest, log, commit, pulls, gives>> /\ Clerks(clerk')
    BY NotifyClerks DEF applyMessage, loopVars
  <1>3. Agreed' = Agreed
    BY <1>2 DEF Agreed
  <1>4. Shapes'
    BY <1>1, <1>2 DEF OwnInv, Shapes, Cells
  <1>5. Runs'
    <2> SUFFICES ASSUME NEW q \in Group, NEW t \in Server(q)
                 PROVE  applied'[q][t] \in 0 .. commit[q] /\ sm'[q][t] = Replay(q, log[q], applied'[q][t])
      BY <1>2 DEF Runs
    <2>1. CASE <<q, t>> = <<g, s>>
      <3>1. q = g /\ t = s /\ commit[g] \in Nat
        BY <2>1, CommitIs DEF OwnInv
      <3> QED BY <1>1, <3>1
    <2>2. CASE <<q, t>> # <<g, s>>
      BY <1>1, <2>2 DEF Cells, OwnInv, Runs
    <2> QED BY <2>1, <2>2
  <1>6. Past' /\ Logs' /\ Tasks'
    BY <1>2, <1>3 DEF OwnInv, Past, Logs, Tasks
  <1> QED BY <1>3, <1>4, <1>5, <1>6 DEF OwnInv

\* A new one: what all have agreed on moves.
LEMMA ApplyMoves ==
  ASSUME OwnInv, OneChange, NEW g \in Group, NEW s \in Server(g), applyMessage(g, s), applied[g][s] + 1 = commit[g] + 1,
         commit' = [commit EXCEPT ![g] = applied[g][s] + 1], sm[g][s] = Agreed[g]
  PROVE  LET op == log[g][applied[g][s] + 1].op
         IN  Moves(Agreed, g, op, sm'[g][s], Agreed')
  <1> DEFINE i == applied[g][s] + 1
             op == log[g][i].op
             x == sm'[g][s]
  <1>1. /\ IsState(x) /\ Does(g, sm[g][s], op, x) /\ OwnFits(Agreed, g, op) /\ x = Replay(g, log[g], i)
    BY ApplyIs
  <1>2. Waits(sm[g][s], x)
    BY DEF OneChange
  <1>3. Agreed' = [Agreed EXCEPT ![g] = x]
    <2>1. UNCHANGED log /\ commit = [q \in Group |-> commit[q]]
      BY DEF applyMessage, OwnInv, Shapes
    <2>2. commit'[g] = i /\ \A q \in Group \ {g} : commit'[q] = commit[q]
      BY <2>1
    <2> HIDE DEF i, x
    <2>3. \A q \in Group : Replay(q, log'[q], commit'[q]) = IF q = g THEN x ELSE Replay(q, log[q], commit[q])
      BY <1>1, <2>1, <2>2
    <2> QED BY <2>3 DEF Agreed
  <1> HIDE DEF i, x, op
  <1> QED BY <1>1, <1>2, <1>3, AgreedIs DEF Moves, i, x, op

\* It executes an entry that no server of the group has executed: the groups move.
LEMMA ApplyNew ==
  ASSUME OwnInv, OneChange, NEW g \in Group, NEW s \in Server(g), applyMessage(g, s), applied[g][s] + 1 = commit[g] + 1,
         commit' = [commit EXCEPT ![g] = applied[g][s] + 1], sm[g][s] = Agreed[g]
  PROVE  OwnInv' /\ LaterAll(Agreed, Agreed')
  <1> DEFINE i == applied[g][s] + 1
             op == log[g][i].op
             x == sm'[g][s]
  <1>1. World(Agreed') /\ LaterAll(Agreed, Agreed')
    <2>1. World(Agreed) /\ Moves(Agreed, g, op, x, Agreed')
      BY ApplyMoves DEF OwnInv
    <2> HIDE DEF op, x
    <2> QED BY <2>1, WorldStep
  <1>2. /\ i \in Nat /\ i = commit[g] + 1 /\ i <= Len(log[g]) /\ Cells(applied, applied', g, s, i) /\ Cells(sm, sm', g, s, x)
        /\ x = Replay(g, log[g], i) /\ applied'[g][s] = i
    BY ApplyIs
  <1>3. UNCHANGED <<latest, log, pulls, gives>> /\ Clerks(clerk') /\ commit = [q \in Group |-> commit[q]]
    BY NotifyClerks DEF applyMessage, loopVars, OwnInv, Shapes
  <1>4. /\ commit' = [q \in Group |-> commit'[q]] /\ commit'[g] = i /\ \A q \in Group \ {g} : commit'[q] = commit[q]
        /\ \A q \in Group : commit[q] \in Nat /\ Len(log[q]) \in Nat /\ commit[q] <= Len(log[q])
    BY <1>3, CommitIs DEF OwnInv
  <1> HIDE DEF i, x
  <1>5. \A q \in Group : commit'[q] \in 0 .. Len(log[q]) /\ commit[q] <= commit'[q]
    BY <1>2, <1>4
  <1>6. Shapes'
    BY <1>2, <1>3, <1>4, <1>5 DEF OwnInv, Shapes, Cells
  <1>7. Runs'
    <2> SUFFICES ASSUME NEW q \in Group, NEW t \in Server(q)
                 PROVE  applied'[q][t] \in 0 .. commit'[q] /\ sm'[q][t] = Replay(q, log[q], applied'[q][t])
      BY <1>3 DEF Runs
    <2>1. CASE <<q, t>> = <<g, s>>
      <3>1. q = g /\ t = s
        BY <2>1
      <3> QED BY <1>2, <1>4, <3>1 DEF x
    <2>2. CASE <<q, t>> # <<g, s>>
      <3>1. applied'[q][t] = applied[q][t] /\ sm'[q][t] = sm[q][t]
        BY <1>2, <2>2 DEF Cells
      <3>2. applied[q][t] \in 0 .. commit[q] /\ sm[q][t] = Replay(q, log[q], applied[q][t])
        BY DEF OwnInv, Runs
      <3> QED BY <1>4, <1>5, <3>1, <3>2
    <2> QED BY <2>1, <2>2
  <1>8. Past'
    <2> SUFFICES ASSUME NEW q \in Group, NEW j \in 0 .. commit'[q]
                 PROVE  LET st == Replay(q, log[q], j)
                        IN  IsState(st) /\ Shaped(q, st) /\ Later(st, Agreed'[q])
      BY <1>3 DEF Past
    <2>0. IsState(Agreed[q]) /\ IsState(Agreed'[q]) /\ Later(Agreed[q], Agreed'[q]) /\ Shaped(q, Agreed'[q])
      BY <1>1 DEF World, LaterAll
    <2>1. CASE j \in 0 .. commit[q]
      <3>1. /\ IsState(Replay(q, log[q], j)) /\ Shaped(q, Replay(q, log[q], j)) /\ Later(Replay(q, log[q], j), Agreed[q])
        BY <2>1 DEF OwnInv, Past
      <3> QED BY <2>0, <3>1, LaterThan
    <2>2. CASE j \notin 0 .. commit[q]
      <3>1. j = commit'[q]
        BY <1>2, <1>4, <2>2
      <3>2. Agreed'[q] = Replay(q, log[q], j)
        BY <1>3, <3>1 DEF Agreed
      <3> QED BY <2>0, <3>2, LaterSame
    <2> QED BY <2>1, <2>2
  <1>9. Logs'
    BY <1>1, <1>3, FitsKept DEF OwnInv, Logs
  <1>10. Tasks'
    <2>1. ASSUME NEW q \in Group, NEW t, PullOwn(Agreed, q, t) PROVE PullOwn(Agreed', q, t)
      BY <1>1, <2>1, AwaitsKept DEF PullOwn
    <2> QED BY <1>3, <2>1 DEF OwnInv, Tasks
  <1> QED BY <1>1, <1>6, <1>7, <1>8, <1>9, <1>10 DEF OwnInv

\* It keeps the invariant.
LEMMA ApplyStep ==
  ASSUME OwnInv, OneChange, NEW g \in Group, NEW s \in Server(g), applyMessage(g, s)
  PROVE  OwnInv'
  <1>1. \/ applied[g][s] + 1 <= commit[g] /\ commit' = commit
        \/ applied[g][s] + 1 = commit[g] + 1 /\ commit' = [commit EXCEPT ![g] = applied[g][s] + 1] /\ sm[g][s] = Agreed[g]
    BY ApplyIs
  <1> QED BY <1>1, ApplyOld, ApplyNew

\* Every step.
LEMMA OwnStep ==
  ASSUME OwnInv, OneChange, [Next]_vars
  PROVE  OwnInv'
  <1>1. ASSUME NEW g \in Group, NEW s \in Server(g), applyMessage(g, s) PROVE OwnInv'
    BY <1>1, ApplyStep
  <1>2. CASE UNCHANGED vars
    <2>1. Quiet
      BY <1>2, LogSame, RunSame, TaskSame, ClerksSame DEF vars, Quiet, raftVars, loopVars, OwnInv, Shapes
    <2> QED BY <2>1, QuietStep
  <1>3. CASE Publish
    BY <1>3, PublishQuiet, QuietStep
  <1>4. ASSUME NEW c \in Clerk, ClerkStep(c) \/ LoseCall(c) PROVE OwnInv'
    BY <1>4, ClerkQuiet, QuietStep
  <1>5. ASSUME NEW g \in Group, NEW s \in Server(g),
               \/ Elect(g, s) \/ StepDown(g, s) \/ Restart(g, s)
               \/ UpdateStep(g, s) \/ PullStep(g, s) \/ GiveStep(g, s) \/ addEmptyLog(g, s)
        PROVE  OwnInv'
    <2>1. Quiet
      BY <1>5, ElectQuiet, StepDownQuiet, RestartQuiet, UpdateQuiet, PullQuiet, GiveQuiet, EmptyQuiet
    <2> QED BY <2>1, QuietStep
  <1> QED BY <1>1, <1>2, <1>3, <1>4, <1>5 DEF Next

-----------------------------------------------------------------------------
\* The first entries.

\* The clerks whose first key g has, and their entries.
Mine(g) == {c \in Clerk : Config[1][key2shard(Script[c][1].key)] = g}

\* A clerk's first command as an entry.
FirstEntry(c) == [op |-> Command(c, 1), term |-> 1]

\* Those of g.
FirstMine(g) == {FirstEntry(c) : c \in Mine(g)}

\* SetToSeq of a finite set has its elements.
LEMMA SetToSeqIs ==
  ASSUME NEW S, IsFiniteSet(S)
  PROVE  /\ SetToSeq(S) \in Seq(S) /\ Len(SetToSeq(S)) = Cardinality(S) /\ Cardinality(S) \in Nat
         /\ \A i, j \in 1 .. Cardinality(S) : SetToSeq(S)[i] = SetToSeq(S)[j] => i = j
         /\ \A e \in S : \E i \in 1 .. Cardinality(S) : SetToSeq(S)[i] = e
  <1> DEFINE n == Cardinality(S)
  <1>1. n \in Nat /\ ExistsBijection(1 .. n, S)
    BY FS_CardinalityType
  <1>2. PICK b \in Bijection(1 .. n, S) : TRUE
    BY <1>1, Fun_ExistsBij
  <1>3. b \in [1 .. n -> S] /\ IsInjective(b)
    <2>1. b \in [1 .. n -> S] /\ \A i, j \in 1 .. n : b[i] = b[j] => i = j
      BY <1>2, Fun_BijectionProperties, Zenon
    <2>2. DOMAIN b = 1 .. n
      BY <2>1
    <2> QED BY <2>1, <2>2, Zenon DEF IsInjective
  <1> DEFINE f == SetToSeq(S)
  <1>4. f \in [1 .. n -> S] /\ IsInjective(f)
    BY <1>3 DEF SetToSeq
  <1> HIDE DEF f
  <1>5. f \in Injection(1 .. n, S)
    BY <1>4 DEF Injection
  <1>6. IsFiniteSet(1 .. n) /\ Cardinality(1 .. n) = n
    BY <1>1, FS_Interval
  <1>7. f \in Surjection(1 .. n, S)
    BY <1>5, <1>6, FS_Injection
  <1>8. \A e \in S : \E i \in 1 .. n : f[i] = e
    BY <1>7 DEF Surjection
  <1>9. f \in Seq(S) /\ Len(f) = n
    BY <1>1, <1>4
  <1> QED BY <1>1, <1>4, <1>8, <1>9 DEF f, IsInjective

\* They are finitely many.
LEMMA FirstFinite == ASSUME NEW g PROVE IsFiniteSet(FirstMine(g))
  <1> DEFINE f == [c \in Mine(g) |-> FirstEntry(c)]
  <1>1. IsFiniteSet(Mine(g))
    <2>1. Mine(g) \in SUBSET Clerk
      BY DEF Mine
    <2> QED BY <2>1, ScriptAssumption, FS_Subset
  <1>2. f \in Surjection(Mine(g), FirstMine(g))
    <2>1. f \in [Mine(g) -> FirstMine(g)] /\ \A e \in FirstMine(g) : \E c \in Mine(g) : f[c] = e
      BY DEF FirstMine
    <2> HIDE DEF f
    <2> QED BY <2>1, Fun_IsSurj
  <1> QED BY <1>1, <1>2, FS_Surjection

\* The entries that a group begins with.
LEMMA FirstIs ==
  ASSUME NEW g
  PROVE  /\ IsLog(FirstEntries(g)) /\ Len(FirstEntries(g)) >= 1
         /\ FirstEntries(g)[1].op = [type |-> "UpdateConfig", num |-> 1]
         /\ \A i \in 2 .. Len(FirstEntries(g)) : \E c \in Mine(g) : FirstEntries(g)[i].op = Command(c, 1)
         /\ \A c \in Mine(g) : \E i \in 2 .. Len(FirstEntries(g)) : FirstEntries(g)[i].op = Command(c, 1)
         /\ \A i, j \in 2 .. Len(FirstEntries(g)) : FirstEntries(g)[i].op = FirstEntries(g)[j].op => i = j
  <1> DEFINE e == [op |-> [type |-> "UpdateConfig", num |-> 1], term |-> 1]
             S == FirstMine(g)
             q == SetToSeq(S)
             n == Cardinality(S)
             R == S \cup {e}
             l == FirstEntries(g)
  <1>1. l = <<e>> \o q
    BY DEF FirstEntries, FirstMine, Mine, FirstEntry
  <1>2. /\ q \in Seq(S) /\ Len(q) = n /\ n \in Nat /\ (\A i, j \in 1 .. n : q[i] = q[j] => i = j)
        /\ \A d \in S : \E i \in 1 .. n : q[i] = d
    BY FirstFinite, SetToSeqIs
  <1>3. \A d \in S : \E c \in Mine(g) : d.op = Command(c, 1) /\ d.term = 1 /\ d = [op |-> d.op, term |-> d.term]
    BY DEF FirstMine, FirstEntry
  <1>4. ASSUME NEW c \in Mine(g) PROVE \E d \in S : d.op = Command(c, 1)
    <2>1. FirstEntry(c) \in S
      BY DEF FirstMine
    <2>2. FirstEntry(c).op = Command(c, 1)
      BY DEF FirstEntry
    <2> QED BY <2>1, <2>2
  <1>5. e.op = [type |-> "UpdateConfig", num |-> 1]
    OBVIOUS
  <1> HIDE DEF e, S, q, n, l
  <1>6. q \in Seq(R) /\ <<e>> \in Seq(R)
    BY <1>2
  <1> HIDE DEF R
  <1>7. l \in Seq(R) /\ Len(l) = n + 1 /\ l[1] = e /\ \A i \in 1 .. n : l[i + 1] = q[i]
    BY <1>1, <1>2, <1>6
  <1>8. ASSUME NEW i \in 2 .. Len(l) PROVE i - 1 \in 1 .. n /\ l[i] = q[i - 1] /\ l[i] \in S
    <2>1. i - 1 \in 1 .. n /\ i - 1 + 1 = i
      BY <1>2, <1>7
    <2>2. l[i] = q[i - 1]
      BY <1>7, <2>1
    <2> QED BY <2>1, <2>2, <1>2
  <1>9. ASSUME NEW c \in Mine(g) PROVE \E i \in 2 .. Len(l) : l[i].op = Command(c, 1)
    <2>1. PICK d \in S : d.op = Command(c, 1)
      BY <1>4
    <2>2. PICK k \in 1 .. n : q[k] = d
      BY <1>2
    <2>3. k + 1 \in 2 .. Len(l) /\ l[k + 1] = d
      BY <2>2, <1>2, <1>7
    <2> QED BY <2>1, <2>3
  <1>10. ASSUME NEW i \in 2 .. Len(l), NEW j \in 2 .. Len(l), l[i].op = l[j].op PROVE i = j
    <2>1. l[i] = l[j]
      <3>1. PICK a : a = l[i]
        OBVIOUS
      <3>2. PICK b : b = l[j]
        OBVIOUS
      <3>3. a \in S /\ b \in S /\ a.op = b.op
        BY <1>8, <1>10, <3>1, <3>2
      <3>4. a.term = 1 /\ b.term = 1 /\ a = [op |-> a.op, term |-> a.term] /\ b = [op |-> b.op, term |-> b.term]
        BY <1>3, <3>3
      <3>5. a = b
        BY <3>3, <3>4
      <3> QED BY <3>1, <3>2, <3>5
    <2>2. i - 1 = j - 1
      BY <1>2, <1>8, <2>1
    <2> QED BY <2>2
  <1>11. \A i \in 2 .. Len(l) : \E c \in Mine(g) : l[i].op = Command(c, 1)
    BY <1>3, <1>8
  <1>12. IsLog(l) /\ Len(l) >= 1 /\ l[1].op = [type |-> "UpdateConfig", num |-> 1]
    BY <1>2, <1>5, <1>7 DEF IsLog
  <1> QED BY <1>9, <1>10, <1>11, <1>12 DEF l

\* What they make: the first configuration in force.
InFirst(g, st) ==
  /\ IsState(st) /\ Shaped(g, st) /\ st.cur = 1
  /\ \A h \in Shard : st.owned[h] = IF Config[1][h] = g THEN "Exist" ELSE "NoExist"

\* g's clerks are clerks.
LEMMA MineIs == ASSUME NEW g, NEW c \in Mine(g) PROVE c \in Clerk /\ 1 \in DOMAIN Script[c]
  BY ScriptIs DEF Mine

\* Each is a first configuration or a first command.
LEMMA FirstOps ==
  ASSUME NEW g, NEW i \in 1 .. Len(FirstEntries(g)), NEW w
  PROVE  OwnFits(w, g, FirstEntries(g)[i].op)
  <1>1. Len(FirstEntries(g)) \in Nat
    BY FirstIs, LogIs
  <1>2. CASE i = 1
    <2>1. 1 \in 1 .. Len(Config)
      BY ConfigIs
    <2> QED BY <1>2, <2>1, FirstIs, UpdateFits
  <1>3. CASE i # 1
    <2>1. i \in 2 .. Len(FirstEntries(g))
      BY <1>1, <1>3
    <2>2. PICK c \in Mine(g) : FirstEntries(g)[i].op = Command(c, 1)
      BY <2>1, FirstIs
    <2>3. Command(c, 1).type \notin {"GetShard", "GiveShard"}
      BY MineIs, CommandIs, ScriptIs
    <2> QED BY <2>2, <2>3, MineIs DEF OwnFits, IsOp
  <1> QED BY <1>2, <1>3

\* After the first entry the first configuration is in force, ...
LEMMA FirstOne == ASSUME NEW g \in Group PROVE InFirst(g, Replay(g, FirstEntries(g), 1))
  <1> DEFINE l == FirstEntries(g)
             x == Execute(g, NewServer, l[1].op)
  <1>0. 1 \in 1 .. Len(Config) /\ NewServer.cur + 1 = 1
    BY ConfigIs, NewIs
  <1>1. Replay(g, l, 1) = x
    <2>1. Replay(g, l, 0 + 1) = Execute(g, Replay(g, l, 0), l[0 + 1].op)
      BY ReplayNext
    <2> QED BY <2>1, ReplayNone
  <1>2. x = updateShardState(g, NewServer, 1)
    BY FirstIs, <1>0 DEF Execute, IsClientCmd, executeConfigCmd
  <1>3. IsState(x) /\ Enters(g, NewServer, x, 1)
    BY <1>0, <1>2, NewIs, UpdateDoes
  <1>4. \A h \in Shard : x.owned[h] = IF Config[1][h] = g THEN "Exist" ELSE "NoExist"
    BY <1>3, NewIs DEF Enters
  <1>5. x.cur = 1 /\ x.pre = 0
    BY <1>3, NewIs DEF Enters
  <1>6. Shaped(g, x)
    BY <1>4, <1>5 DEF Shaped
  <1> QED BY <1>1, <1>3, <1>4, <1>5, <1>6 DEF InFirst

\* ... after another still, ...
LEMMA FirstNext ==
  ASSUME NEW g \in Group, NEW st, InFirst(g, st), NEW c \in Clerk, 1 \in DOMAIN Script[c], NEW x, x = Execute(g, st, Command(c, 1))
  PROVE  InFirst(g, x)
  <1>1. IsState(x) /\ (x = st \/ Writes(st, x, c, 1))
    BY CommandIs, ClientDoes DEF Execute, InFirst
  <1>2. x.cur = st.cur /\ x.pre = st.pre /\ x.owned = st.owned
    BY <1>1 DEF Writes
  <1> QED BY <1>1, <1>2 DEF InFirst, Shaped

\* ... and after all.
LEMMA FirstAll ==
  ASSUME NEW g \in Group
  PROVE  \A n \in 1 .. Len(FirstEntries(g)) : InFirst(g, Replay(g, FirstEntries(g), n))
  <1> DEFINE l == FirstEntries(g)
             T == {n \in 1 .. Len(l) : ~InFirst(g, Replay(g, l, n))}
  <1>0. Len(l) \in Nat
    BY FirstIs, LogIs
  <1> SUFFICES ASSUME T # {} PROVE FALSE
    OBVIOUS
  <1>1. PICK n \in T : \A m \in T : n <= m
    <2>1. T \in SUBSET Nat
      BY <1>0
    <2> HIDE DEF T
    <2> QED BY <2>1, Least
  <1>2. n \in 1 .. Len(l) /\ ~InFirst(g, Replay(g, l, n))
    OBVIOUS
  <1>3. n # 1
    BY <1>2, FirstOne
  <1> DEFINE k == n - 1
  <1>4. k \in 1 .. Len(l) /\ k \in Nat /\ n = k + 1 /\ ~(n <= k) /\ n \in 2 .. Len(l)
    BY <1>0, <1>2, <1>3
  <1>5. InFirst(g, Replay(g, l, k))
    BY <1>1, <1>4
  <1>6. PICK c \in Mine(g) : l[n].op = Command(c, 1)
    BY <1>4, FirstIs
  <1>7. Replay(g, l, n) = Execute(g, Replay(g, l, k), l[n].op)
    <2> HIDE DEF k
    <2>1. Replay(g, l, k + 1) = Execute(g, Replay(g, l, k), l[k + 1].op)
      BY <1>4, ReplayNext
    <2> QED BY <1>4, <2>1
  <1> HIDE DEF T, l, k
  <1>8. InFirst(g, Replay(g, l, n))
    BY <1>5, <1>6, <1>7, MineIs, FirstNext
  <1> QED BY <1>2, <1>8

\* Of entries that fit a replay makes later and later states.
LEMMA ReplayLater ==
  ASSUME NEW g, NEW l, NEW n \in Nat, \A i \in 1 .. n : IsOp(l[i].op),
         \A j \in 0 .. n : IsState(Replay(g, l, j)), NEW j \in 0 .. n
  PROVE  Later(Replay(g, l, j), Replay(g, l, n))
  <1> DEFINE T == {i \in Nat : j <= i /\ i <= n /\ ~Later(Replay(g, l, j), Replay(g, l, i))}
  <1>1. T = {}
    <2> SUFFICES ASSUME T # {} PROVE FALSE
      OBVIOUS
    <2>1. PICK m \in T : \A i \in T : m <= i
      BY Least
    <2>2. m \in Nat /\ j <= m /\ m <= n /\ ~Later(Replay(g, l, j), Replay(g, l, m)) /\ j \in Nat
      OBVIOUS
    <2>3. m # j
      BY <2>2, LaterSame
    <2> DEFINE k == m - 1
    <2>4. k \in Nat /\ j <= k /\ k <= n /\ m = k + 1 /\ ~(m <= k) /\ k \in 0 .. n /\ m \in 0 .. n /\ m \in 1 .. n
      BY <2>2, <2>3
    <2> HIDE DEF k
    <2>5. Later(Replay(g, l, j), Replay(g, l, k))
      BY <2>1, <2>4
    <2>6. Replay(g, l, m) = Execute(g, Replay(g, l, k), l[m].op)
      BY <2>4, ReplayNext
    <2>7. Later(Replay(g, l, k), Replay(g, l, m))
      BY <2>4, <2>6, ExecuteDoes, LaterStep
    <2> HIDE DEF T
    <2>8. IsState(Replay(g, l, j)) /\ IsState(Replay(g, l, k)) /\ IsState(Replay(g, l, m))
      BY <2>4
    <2> QED BY <2>2, <2>5, <2>7, <2>8, LaterThan
  <1>2. n \notin T
    BY <1>1
  <1> QED BY <1>2

\* So all holds of the groups.
LEMMA FirstWorld ==
  ASSUME NEW w, \A g \in Group : InFirst(g, w[g])
  PROVE  World(w)
  <1>1. \A g \in Group : IsState(w[g]) /\ Shaped(g, w[g]) /\ w[g].cur > 0 /\ w[g].cur = 1
    BY DEF InFirst
  <1>2. \A m \in 2 .. Len(Config) : ~(1 > m) /\ ~(1 = m)
    BY ConfigIs
  <1>3. Sources(w)
    BY <1>1, <1>2 DEF Sources, Done, Has
  <1>4. Given(w)
    BY <1>1, <1>2 DEF Given
  <1> QED BY <1>1, <1>3, <1>4 DEF World

\* The invariant holds at the start.
LEMMA OwnFirst == ASSUME Init PROVE OwnInv
  <1>1. /\ latest = 1 /\ log = [g \in Group |-> FirstEntries(g)] /\ commit = [g \in Group |-> Len(log[g])]
        /\ applied = [g \in Group |-> [s \in Server(g) |-> Len(log[g])]]
        /\ sm = [g \in Group |-> [s \in Server(g) |-> Replay(g, log[g], Len(log[g]))]]
        /\ pulls = [g \in Group |-> [s \in Server(g) |-> {}]] /\ gives = [g \in Group |-> [s \in Server(g) |-> {}]]
        /\ clerk = [c \in Clerk |-> [num |-> 2, pc |-> "call", config |-> 1, at |-> 1, index |-> 0, chan |-> <<>>, got |-> <<>>]]
    BY DEF Init
  <1>2. \A g \in Group : /\ log[g] = FirstEntries(g) /\ commit[g] = Len(log[g]) /\ IsLog(log[g]) /\ Len(log[g]) \in Nat
                         /\ Len(log[g]) >= 1
    BY <1>1, FirstIs, LogIs
  <1>3. \A g \in Group : Agreed[g] = Replay(g, log[g], Len(log[g])) /\ InFirst(g, Agreed[g])
    <2>1. ASSUME NEW g \in Group PROVE Agreed[g] = Replay(g, log[g], Len(log[g])) /\ InFirst(g, Agreed[g])
      <3>1. Agreed[g] = Replay(g, log[g], Len(log[g])) /\ Len(log[g]) \in 1 .. Len(log[g])
        BY <1>2 DEF Agreed
      <3> QED BY <3>1, <1>2, FirstAll
    <2> QED BY <2>1
  <1>4. Shapes
    <2>1. 1 \in 1 .. Len(Config)
      BY ConfigIs
    <2>2. Grid(applied) /\ Grid(sm) /\ Grid(pulls) /\ Grid(gives)
      BY <1>1 DEF Grid
    <2>3. Clerks(clerk)
      BY <1>1 DEF Clerks, IsClerk
    <2>4. \A g \in Group : commit[g] \in 0 .. Len(log[g])
      BY <1>2
    <2> QED BY <1>1, <1>2, <2>1, <2>2, <2>3, <2>4 DEF Shapes
  <1>5. Runs
    BY <1>1, <1>2 DEF Runs
  <1>6. Past
    <2> SUFFICES ASSUME NEW g \in Group, NEW j \in 0 .. commit[g]
                 PROVE  LET st == Replay(g, log[g], j)
                        IN  IsState(st) /\ Shaped(g, st) /\ Later(st, Agreed[g])
      BY DEF Past
    <2> DEFINE l == log[g]
    <2>1. \A i \in 0 .. Len(l) : IsState(Replay(g, l, i)) /\ Shaped(g, Replay(g, l, i))
      <3>1. ASSUME NEW i \in 0 .. Len(l) PROVE IsState(Replay(g, l, i)) /\ Shaped(g, Replay(g, l, i))
        <4>1. CASE i = 0
          BY <4>1, NewIs, ShapedNew, ReplayNone
        <4>2. CASE i # 0
          <5>1. i \in 1 .. Len(l)
            BY <1>2, <4>2
          <5> QED BY <5>1, <1>2, FirstAll DEF InFirst
        <4> QED BY <4>1, <4>2
      <3> QED BY <3>1
    <2>2. \A i \in 1 .. Len(l) : IsOp(l[i].op)
      BY <1>2, FirstOps DEF OwnFits
    <2>3. Len(l) \in Nat /\ j \in 0 .. Len(l) /\ Agreed[g] = Replay(g, l, Len(l))
      BY <1>2, <1>3
    <2> HIDE DEF l
    <2>4. Later(Replay(g, l, j), Agreed[g])
      BY <2>1, <2>2, <2>3, ReplayLater
    <2> QED BY <2>1, <2>3, <2>4 DEF l
  <1>7. Logs
    BY <1>2, FirstOps DEF Logs
  <1>8. Tasks
    BY <1>1 DEF Tasks
  <1>9. World(Agreed)
    BY <1>3, FirstWorld
  <1> QED BY <1>4, <1>5, <1>6, <1>7, <1>8, <1>9 DEF OwnInv

-----------------------------------------------------------------------------
\* The theorems about owners.

\* What the property says of a step of one server.
LEMMA OneChangeIs ==
  (\A g \in Group : \A s \in Server(g) :
     sm'[g][s].cur = sm[g][s].cur + 1 => \A h \in Shard : sm[g][s].owned[h] \in {"NoExist", "Exist"}) <=> OneChange
  BY DEF OneChange, Waits, updateConfigReady

\* The invariant always holds.
LEMMA OwnAlways == Spec /\ OneChangeAtATime => []OwnInv
  <1>1. Init => OwnInv
    BY OwnFirst
  <1>2. OwnInv /\ [Next]_vars /\ [OneChange]_vars => OwnInv'
    <2> SUFFICES ASSUME OwnInv, [Next]_vars, [OneChange]_vars PROVE OwnInv'
      OBVIOUS
    <2>1. CASE OneChange
      BY <2>1, OwnStep
    <2>2. CASE UNCHANGED vars
      <3>1. Quiet
        BY <2>2, LogSame, RunSame, TaskSame, ClerksSame DEF vars, Quiet, raftVars, loopVars, OwnInv, Shapes
      <3> QED BY <3>1, QuietStep
    <2> QED BY <2>1, <2>2
  <1>3. OneChangeAtATime => [][OneChange]_vars
    BY OneChangeIs, PTL DEF OneChangeAtATime
  <1> QED BY <1>1, <1>2, <1>3, PTL DEF Spec

\* It says that each shard has one owner.
LEMMA OwnersIs == ASSUME OwnInv PROVE OneOwner
  <1> SUFFICES ASSUME NEW h \in Shard PROVE Cardinality({g \in Group : Agreed[g].owned[h] = "Exist"}) <= 1
    BY DEF OneOwner
  <1> DEFINE S == {g \in Group : Agreed[g].owned[h] = "Exist"}
  <1>1. \A p, q \in S : p = q
    BY OwnersOne DEF OwnInv
  <1>2. S = {} \/ \E p : S = {p}
    BY <1>1
  <1> HIDE DEF S
  <1>3. Cardinality(S) = 0 \/ Cardinality(S) = 1
    BY <1>2, FS_EmptySet, FS_Singleton
  <1> QED BY <1>3 DEF S

\* Two groups never serve the same shard: updateShardState closes it at the
\* giver (server.go:452-485) before MigrateShard hands it out, and a group
\* opens what it fetched only by a command in its log.  For every number of
\* groups, servers, shards, configurations and clerks, as long as a group
\* enters a configuration only when the one before is settled.  That the
\* code does not guarantee (MCShardKV_gap); GapOnly says when it does.
THEOREM OwnersUnique == Spec /\ OneChangeAtATime => []OneOwner
  BY OwnAlways, OwnersIs, PTL

-----------------------------------------------------------------------------
\* What a clerk's commands leave under a key.

\* Command m, after before.
Leaves(c, key, m, before) ==
  IF Script[c][m].key # key \/ Script[c][m].type = "Get" THEN before
  ELSE IF Script[c][m].type = "Put" THEN <<<<c, m>>>>
  ELSE Append(before, <<c, m>>)

\* What Written says, as a function.
Lefts(c, key, n, f) == f = [m \in 0 .. n |-> IF m = 0 THEN <<>> ELSE Leaves(c, key, m, f[m - 1])]

\* There is one such function, ...
LEMMA LeftUnique ==
    ASSUME NEW c, NEW key, NEW n \in Nat, NEW f, Lefts(c, key, n, f), NEW k \in Nat, n <= k, NEW g, Lefts(c, key, k, g)
    PROVE  \A m \in 0 .. n : f[m] = g[m]
<1> DEFINE T == {m \in 0 .. n : f[m] # g[m]}
<1> SUFFICES ASSUME T # {} PROVE FALSE
  OBVIOUS
<1>1. T \in SUBSET Nat
  OBVIOUS
<1>2. PICK m \in T : \A j \in T : m <= j
  BY <1>1, Least
<1>3. m \in 0 .. n /\ m \in 0 .. k /\ f[m] # g[m]
  OBVIOUS
<1>4. /\ f[m] = IF m = 0 THEN <<>> ELSE Leaves(c, key, m, f[m - 1])
      /\ g[m] = IF m = 0 THEN <<>> ELSE Leaves(c, key, m, g[m - 1])
  BY <1>3 DEF Lefts
<1>5. CASE m = 0
  BY <1>3, <1>4, <1>5
<1>6. CASE m # 0
  <2>1. m - 1 \in 0 .. n /\ ~(m <= m - 1)
    BY <1>3, <1>6
  <2>2. f[m - 1] = g[m - 1]
    BY <2>1, <1>2
  <2> QED
    BY <1>3, <1>4, <1>6, <2>2
<1> QED
  BY <1>5, <1>6

\* ... there is one, ...
LEMMA LeftExists ==
    ASSUME NEW c, NEW key, NEW n \in Nat PROVE \E f : Lefts(c, key, n, f)
<1> DEFINE T == {m \in Nat : ~\E f : Lefts(c, key, m, f)}
<1> SUFFICES ASSUME T # {} PROVE FALSE
  OBVIOUS
<1>1. PICK m \in T : \A j \in T : m <= j
  BY Least
<1>2. m \in Nat /\ ~\E f : Lefts(c, key, m, f)
  OBVIOUS
<1>3. CASE m = 0
  <2> DEFINE f == [j \in 0 .. 0 |-> <<>>]
  <2>1. Lefts(c, key, 0, f)
    BY DEF Lefts
  <2> QED
    BY <2>1, <1>2, <1>3
<1>4. CASE m # 0
  <2>1. m - 1 \in Nat /\ ~(m <= m - 1)
    BY <1>2, <1>4
  <2>2. PICK f : Lefts(c, key, m - 1, f)
    BY <2>1, <1>1
  <2> DEFINE last == Leaves(c, key, m, f[m - 1])
             g == [j \in 0 .. m |-> IF j = m THEN last ELSE f[j]]
  <2> HIDE DEF last
  <2>3. ASSUME NEW j \in 0 .. m
        PROVE  g[j] = IF j = 0 THEN <<>> ELSE Leaves(c, key, j, g[j - 1])
    <3>1. CASE j = m
      <4>1. g[j] = last /\ g[j - 1] = f[j - 1] /\ j # 0
        BY <3>1, <1>2, <1>4
      <4> QED
        BY <4>1, <3>1 DEF last
    <3>2. CASE j # m
      <4>1. j \in 0 .. m - 1 /\ j \in Nat
        BY <3>2, <1>2
      <4>2. g[j] = f[j]
        BY <3>2
      <4>3. f[j] = IF j = 0 THEN <<>> ELSE Leaves(c, key, j, f[j - 1])
        BY <4>1, <2>2 DEF Lefts
      <4>4. j # 0 => g[j - 1] = f[j - 1]
        BY <4>1, <1>2
      <4> QED
        BY <4>2, <4>3, <4>4
    <3> QED
      BY <3>1, <3>2
  <2>4. g = [j \in 0 .. m |-> g[j]]
    OBVIOUS
  <2> HIDE DEF g
  <2>5. Lefts(c, key, m, g)
    BY <2>3, <2>4 DEF Lefts
  <2> QED
    BY <2>5, <1>2
<1> QED
  BY <1>3, <1>4

\* ... and Written is its last value.
LEMMA LeftIs ==
    ASSUME NEW c, NEW key, NEW n \in Nat
    PROVE  \E f : Lefts(c, key, n, f) /\ Written(c, n, key) = f[n]
<1>1. \E f : Lefts(c, key, n, f)
  BY LeftExists
<1> DEFINE f == CHOOSE g : Lefts(c, key, n, g)
<1>2. Lefts(c, key, n, f)
  BY <1>1
<1>3. Written(c, n, key) = f[n]
  BY DEF Written, Lefts, Leaves
<1> QED
  BY <1>2, <1>3

\* No command left nothing.
LEMMA WrittenNone == ASSUME NEW c, NEW key PROVE Written(c, 0, key) = <<>>
<1>1. PICK f : Lefts(c, key, 0, f) /\ Written(c, 0, key) = f[0]
  BY LeftIs
<1> QED
  BY <1>1 DEF Lefts

\* One more command.
LEMMA WrittenNext ==
    ASSUME NEW c, NEW key, NEW n \in Nat, n # 0
    PROVE  Written(c, n, key) = Leaves(c, key, n, Written(c, n - 1, key))
<1> DEFINE k == n - 1
<1>0. k \in Nat /\ k <= n /\ n \in 0 .. n /\ k \in 0 .. k
  OBVIOUS
<1> HIDE DEF k
<1>1. PICK f : Lefts(c, key, k, f) /\ Written(c, k, key) = f[k]
  BY <1>0, LeftIs
<1>2. PICK g : Lefts(c, key, n, g) /\ Written(c, n, key) = g[n]
  BY LeftIs
<1>3. f[k] = g[k]
  BY <1>0, <1>1, <1>2, LeftUnique
<1>4. g[n] = Leaves(c, key, n, g[k])
  BY <1>2, <1>0 DEF Lefts, k
<1> QED
  BY <1>1, <1>2, <1>3, <1>4 DEF k

-----------------------------------------------------------------------------
\* The data.

\* Command i of c writes a key of h.
Write(c, i, h) == i \in DOMAIN Script[c] /\ Script[c][i].type # "Get" /\ key2shard(Script[c][i].key) = h

\* The keys of h that c asks for.
KeysFrom(c, h) == {Script[c][i].key : i \in {j \in DOMAIN Script[c] : key2shard(Script[c][j].key) = h}}

\* No key is asked for by two clerks.
PrivateKeys ==
  \A c \in Clerk : \A d \in Clerk : c # d =>
    \A i \in DOMAIN Script[c] : \A j \in DOMAIN Script[d] : Script[c][i].key # Script[d][j].key

\* The newest configuration that h has come to.
Newest(w, m, h) == Done(w, m, h) /\ ~Done(w, m + 1, h)

\* Where c is at its command n, st has of h all that the commands before made, and perhaps n.
Fresh(st, c, h, n) ==
  /\ \A i \in 1 .. n - 1 : Write(c, i, h) => i <= st.sessions[c].num
  /\ \A k \in KeysFrom(c, h) : st.kvDB[h][k] = Written(c, IF st.sessions[c].num = n THEN n ELSE n - 1, k)

\* Command n of c has been executed where its shard is now.
Ran(w, c, n) ==
  \A h \in Shard : \A m \in 1 .. Len(Config) :
    Write(c, n, h) /\ Newest(w, m, h) => w[Config[m][h]].sessions[c].num = n

\* Sessions know of nothing that is not in the shards.
Told(w, sess, N) ==
  \A c \in Clerk : sess[c].num \in DOMAIN Script[c] \cup {0} /\ sess[c].num <= N[c] /\ (sess[c].num = N[c] => Ran(w, c, N[c]))

\* All that holds of the data where N says at which command each clerk is.
Facts(w, N) ==
  /\ \A c \in Clerk : \A h \in Shard : \A m \in 1 .. Len(Config) : Newest(w, m, h) => Fresh(w[Config[m][h]], c, h, N[c])
  /\ \A g \in Group : Told(w, w[g].sessions, N)

\* Of h's writes sess has what own has.
Covers(sess, own, h) == \A c \in Clerk : \A i \in DOMAIN Script[c] : Write(c, i, h) /\ i <= own[c].num => i <= sess[c].num

\* A copy of h for the owner by m is good until that owner has h.
Copy(w, data, sess, m, h) ==
  ~Done(w, m, h) => data = w[Config[m - 1][h]].kvDB[h] /\ Covers(sess, w[Config[m - 1][h]].sessions, h)

\* What is in a log speaks of data that is right.
DataFits(w, N, op) ==
  /\ IsClientCmd(op) => \E c \in Clerk : \E k \in DOMAIN Script[c] : k <= N[c] /\ op = Command(c, k)
  /\ op.type = "GetShard" => Told(w, op.sessions, N) /\ Copy(w, op.data, op.sessions, op.num, op.shard)

\* N is a number for each clerk.
Nums(N) == \A c \in Clerk : N[c] \in Nat /\ N[c] >= 1

\* A command that does not write h leaves h's keys.
LEMMA NotWritten ==
  ASSUME NEW c \in Clerk, NEW h, NEW n \in DOMAIN Script[c], ~Write(c, n, h), NEW k \in KeysFrom(c, h)
  PROVE  Written(c, n, k) = Written(c, n - 1, k)
  <1>1. n \in Nat /\ n # 0
    BY ScriptIs
  <1>2. key2shard(k) = h
    BY DEF KeysFrom
  <1>3. Script[c][n].key # k \/ Script[c][n].type = "Get"
    BY <1>2 DEF Write
  <1>4. Written(c, n, k) = Leaves(c, k, n, Written(c, n - 1, k))
    BY <1>1, WrittenNext
  <1> QED BY <1>3, <1>4 DEF Leaves

\* A session's number takes the place of another in Fresh, if it says the same of h.
LEMMA FreshOther ==
  ASSUME NEW c \in Clerk, NEW h \in Shard, NEW n \in Nat, n >= 1, NEW st, NEW x, Fresh(st, c, h, n),
         x.kvDB[h] = st.kvDB[h], st.sessions[c].num \in Nat, x.sessions[c].num \in DOMAIN Script[c] \cup {0},
         st.sessions[c].num \in DOMAIN Script[c] \cup {0},
         st.sessions[c].num <= n, x.sessions[c].num <= n,
         \A i \in DOMAIN Script[c] : Write(c, i, h) /\ i <= n => (i <= st.sessions[c].num <=> i <= x.sessions[c].num)
  PROVE  Fresh(x, c, h, n)
  <1> DEFINE a == st.sessions[c].num
             b == x.sessions[c].num
  <1>0. \A i \in DOMAIN Script[c] : i \in Nat /\ i >= 1
    BY ScriptIs
  <1>1. a \in Nat /\ b \in Nat /\ a <= n /\ b <= n
    BY <1>0
  <1>2. ASSUME NEW i \in 1 .. n - 1, Write(c, i, h) PROVE i <= b
    <2>1. i \in DOMAIN Script[c] /\ i <= n /\ i <= a
      BY <1>2 DEF Fresh, Write
    <2> QED BY <2>1, <1>2
  <1>3. ASSUME NEW k \in KeysFrom(c, h)
        PROVE  x.kvDB[h][k] = Written(c, IF b = n THEN n ELSE n - 1, k)
    <2>0. x.kvDB[h][k] = Written(c, IF a = n THEN n ELSE n - 1, k)
      BY <1>3 DEF Fresh
    <2>1. CASE (a = n) <=> (b = n)
      BY <2>0, <2>1
    <2>2. CASE ~((a = n) <=> (b = n))
      <3>1. n \in DOMAIN Script[c]
        BY <2>2, <1>1
      <3>2. ~Write(c, n, h)
        <4>1. n <= n /\ ~((n <= a) <=> (n <= b))
          BY <2>2, <1>1
        <4> QED BY <3>1, <4>1
      <3>3. Written(c, n, k) = Written(c, n - 1, k)
        BY <3>1, <3>2, <1>3, NotWritten
      <3> QED BY <2>0, <3>3
    <2> QED BY <2>1, <2>2
  <1> QED BY <1>2, <1>3 DEF Fresh

\* Everything that is known when a group executes an entry.
Carries(w, N, g, op, x, v) ==
  World(w) /\ Facts(w, N) /\ Nums(N) /\ Moves(w, g, op, x, v) /\ DataFits(w, N, op) /\ PrivateKeys

\* All shards are in the first configuration.
LEMMA FirstDone == ASSUME NEW w, World(w), NEW h \in Shard PROVE Done(w, 1, h)
  <1> DEFINE q == Config[1][h]
  <1>1. q \in Group /\ 1 \in 1 .. Len(Config)
    BY ConfigIs
  <1>2. IsState(w[q]) /\ Shaped(q, w[q]) /\ w[q].cur \in Nat /\ w[q].cur > 0 /\ w[q].owned[h] \in Kind
    BY <1>1, StateIs DEF World
  <1>3. CASE w[q].cur = 1
    BY <1>1, <1>2, <1>3 DEF Shaped, Done, Has, Kind
  <1>4. CASE w[q].cur # 1
    BY <1>1, <1>2, <1>4 DEF Done, Has
  <1> QED BY <1>3, <1>4

\* There is one newest configuration of a shard.
LEMMA NewestOnly ==
  ASSUME NEW w, World(w), NEW h \in Shard, NEW m \in 1 .. Len(Config), NEW n \in 1 .. Len(Config), Newest(w, m, h), Newest(w, n, h)
  PROVE  m = n
  BY OneNewest DEF Newest

\* A group that serves h has it by the newest.
LEMMA ExistNewest ==
  ASSUME NEW w, World(w), NEW h \in Shard, NEW g \in Group, w[g].owned[h] = "Exist"
  PROVE  w[g].cur \in 1 .. Len(Config) /\ Config[w[g].cur][h] = g /\ Newest(w, w[g].cur, h)
  BY ExistDone DEF Newest

\* While a shard is awaited the former owner keeps it.
LEMMA GivingIs ==
  ASSUME NEW w, World(w), NEW g, NEW m, NEW h, Awaits(w, g, m, h), ~Done(w, m, h), NEW p, p = Config[m - 1][h]
  PROVE  /\ h \in Shard /\ m \in 2 .. Len(Config) /\ m - 1 \in 1 .. Len(Config) /\ m - 1 + 1 = m
         /\ p \in Group /\ p # g /\ w[p].cur = m /\ w[p].owned[h] = "WaitGive" /\ Newest(w, m - 1, h)
  <1>1. h \in Shard /\ m \in 2 .. Len(Config) /\ Config[m][h] = g /\ p \in Group /\ p # g /\ w[p].cur >= m
    BY DEF Awaits, Follows
  <1>2. m \in Nat /\ m - 1 \in 1 .. Len(Config) /\ m - 1 + 1 = m /\ m > m - 1
    BY <1>1, ConfigIs
  <1>3. w[p].cur \in Nat /\ Shaped(p, w[p]) /\ w[p].owned[h] \in Kind
    BY <1>1, StateIs DEF World
  <1>4. ~(w[p].cur > m) /\ ~(w[p].cur = m /\ w[p].owned[h] = "NoExist")
    BY <1>1 DEF World, Given
  <1>5. w[p].cur = m /\ w[p].owned[h] # "NoExist"
    BY <1>1, <1>2, <1>3, <1>4, SMTT(120)
  <1>6. w[p].owned[h] = "WaitGive"
    BY <1>1, <1>3, <1>5 DEF Shaped, Kind
  <1>7. Done(w, m - 1, h)
    BY <1>1, <1>2, <1>5 DEF Done, Has
  <1>8. Newest(w, m - 1, h)
    BY <1>2, <1>7 DEF Newest
  <1> QED BY <1>1, <1>2, <1>5, <1>6, <1>8

\* Commands with the same number of the same clerk are one.
LEMMA CommandOne ==
  ASSUME NEW c \in Clerk, NEW k \in DOMAIN Script[c], NEW d \in Clerk, NEW j \in DOMAIN Script[d], Command(c, k) = Command(d, j)
  PROVE  c = d /\ k = j
  BY CommandIs

\* The session numbers of a group are those of commands that have begun.
LEMMA SessIs ==
  ASSUME NEW w, NEW N, Facts(w, N), Nums(N), NEW g \in Group, NEW c \in Clerk
  PROVE  /\ w[g].sessions[c].num \in DOMAIN Script[c] \cup {0} /\ w[g].sessions[c].num <= N[c]
         /\ w[g].sessions[c].num \in Nat /\ N[c] \in Nat /\ N[c] >= 1
         /\ w[g].sessions[c].num = N[c] => Ran(w, c, N[c])
  BY ScriptIs DEF Facts, Told, Nums

\* A write is the clerk's newest command.
LEMMA WriteIs ==
  ASSUME NEW w, NEW N, NEW g, NEW op, NEW x, NEW v, Carries(w, N, g, op, x, v),
         NEW c \in Clerk, NEW k \in DOMAIN Script[c], op = Command(c, k), Writes(w[g], x, c, k),
         NEW h, h = key2shard(Script[c][k].key)
  PROVE  /\ k = N[c] /\ h \in Shard /\ Write(c, k, h) /\ w[g].owned[h] = "Exist" /\ x.owned[h] = "Exist"
         /\ w[g].sessions[c].num # N[c]
  <1>1. h \in Shard /\ Script[c][k].type # "Get" /\ w[g].owned[h] = "Exist" /\ w[g].sessions[c].num < k /\ x.owned = w[g].owned
    BY ScriptIs DEF Writes
  <1>2. Write(c, k, h)
    BY <1>1 DEF Write
  <1>3. g \in Group /\ World(w) /\ Facts(w, N) /\ Nums(N)
    BY DEF Carries, Moves
  <1>4. k <= N[c]
    <2>1. IsClientCmd(op)
      BY CommandIs
    <2>2. PICK d \in Clerk : \E j \in DOMAIN Script[d] : j <= N[d] /\ op = Command(d, j)
      BY <2>1 DEF Carries, DataFits
    <2>3. PICK j \in DOMAIN Script[d] : j <= N[d] /\ op = Command(d, j)
      BY <2>2
    <2> QED BY <2>3, CommandOne
  <1>5. w[g].sessions[c].num \in Nat /\ N[c] \in Nat /\ k \in Nat /\ k >= 1
    BY <1>3, SessIs, CommandIs
  <1>6. Fresh(w[g], c, h, N[c])
    <2>1. w[g].cur \in 1 .. Len(Config) /\ Config[w[g].cur][h] = g /\ Newest(w, w[g].cur, h)
      BY <1>1, <1>3, ExistNewest
    <2> QED BY <1>1, <1>3, <2>1 DEF Facts
  <1>7. ~(k < N[c])
    <2> SUFFICES ASSUME k < N[c] PROVE FALSE
      OBVIOUS
    <2>1. k \in 1 .. N[c] - 1
      BY <1>5
    <2>2. k <= w[g].sessions[c].num
      BY <1>2, <1>6, <2>1 DEF Fresh
    <2> QED BY <1>1, <1>5, <2>2
  <1> QED BY <1>1, <1>2, <1>4, <1>5, <1>7

\* How an entry changes a clerk's session.
LEMMA SessStep ==
  ASSUME NEW w, NEW N, NEW g, NEW op, NEW x, NEW v, Carries(w, N, g, op, x, v), NEW c \in Clerk
  PROVE  \/ x.sessions[c] = w[g].sessions[c]
         \/ \E k \in DOMAIN Script[c] : op = Command(c, k) /\ Writes(w[g], x, c, k) /\ x.sessions[c].num = k
         \/ /\ op.type = "GetShard" /\ Takes(w[g], x, op.num, op.shard, op.data, op.sessions)
            /\ x.sessions[c] = op.sessions[c] /\ op.sessions[c].num > w[g].sessions[c].num
  <1>1. CASE x = w[g]
    BY <1>1
  <1>2. ASSUME NEW d \in Clerk, NEW k \in DOMAIN Script[d], op = Command(d, k), Writes(w[g], x, d, k)
        PROVE  \/ x.sessions[c] = w[g].sessions[c]
               \/ \E j \in DOMAIN Script[c] : op = Command(c, j) /\ Writes(w[g], x, c, j) /\ x.sessions[c].num = j
    <2>1. CASE d = c
      <3>1. x.sessions[c].num = k
        BY <1>2, <2>1 DEF Writes
      <3> QED BY <1>2, <2>1, <3>1
    <2>2. CASE d # c
      <3>1. x.sessions[c] = w[g].sessions[c]
        BY <1>2, <2>2 DEF Writes
      <3> QED BY <3>1
    <2> QED BY <2>1, <2>2
  <1>3. CASE Enters(g, w[g], x, op.num)
    BY <1>3 DEF Enters
  <1>4. CASE op.type = "GetShard" /\ Takes(w[g], x, op.num, op.shard, op.data, op.sessions)
    BY <1>4 DEF Takes
  <1>5. CASE Drops(w[g], x, op.num, op.shard)
    BY <1>5 DEF Drops
  <1> QED BY <1>1, <1>2, <1>3, <1>4, <1>5 DEF Carries, Moves, Does

\* And after it they are those of commands that have begun.
LEMMA SessNew ==
  ASSUME NEW w, NEW N, NEW g, NEW op, NEW x, NEW v, Carries(w, N, g, op, x, v), NEW c \in Clerk
  PROVE  /\ x.sessions[c].num \in DOMAIN Script[c] \cup {0} /\ x.sessions[c].num \in Nat /\ x.sessions[c].num <= N[c]
         /\ w[g].sessions[c].num <= x.sessions[c].num
  <1>0. /\ g \in Group /\ w[g].sessions[c].num \in DOMAIN Script[c] \cup {0} /\ w[g].sessions[c].num <= N[c]
        /\ w[g].sessions[c].num \in Nat /\ N[c] \in Nat
    BY SessIs DEF Carries, Moves
  <1>1. CASE x.sessions[c] = w[g].sessions[c]
    BY <1>0, <1>1
  <1>2. ASSUME NEW k \in DOMAIN Script[c], op = Command(c, k), Writes(w[g], x, c, k), x.sessions[c].num = k
        PROVE  x.sessions[c].num \in DOMAIN Script[c] /\ x.sessions[c].num <= N[c] /\ w[g].sessions[c].num <= x.sessions[c].num
    BY <1>0, <1>2, WriteIs
  <1>3. CASE op.type = "GetShard" /\ x.sessions[c] = op.sessions[c] /\ op.sessions[c].num > w[g].sessions[c].num
    <2>1. op.sessions[c].num \in DOMAIN Script[c] \cup {0} /\ op.sessions[c].num <= N[c]
      BY <1>3 DEF Carries, DataFits, Told
    <2>2. op.sessions[c].num \in Nat
      BY <2>1, ScriptIs
    <2> QED BY <1>0, <1>3, <2>1, <2>2
  <1>4. x.sessions[c].num \in DOMAIN Script[c] \cup {0} => x.sessions[c].num \in Nat
    BY ScriptIs
  <1> QED BY <1>0, <1>1, <1>2, <1>3, <1>4, SessStep

\* Where a group has h, what its sessions say of h's writes changes with h only.
LEMMA SaysSame ==
  ASSUME NEW w, NEW N, NEW g, NEW op, NEW x, NEW v, Carries(w, N, g, op, x, v), NEW c \in Clerk,
         NEW h \in Shard, NEW m \in 1 .. Len(Config), Newest(w, m, h), Config[m][h] = g,
         \A k \in DOMAIN Script[c] : op = Command(c, k) /\ Writes(w[g], x, c, k) => key2shard(Script[c][k].key) # h,
         NEW i \in DOMAIN Script[c], Write(c, i, h), i <= N[c]
  PROVE  i <= w[g].sessions[c].num <=> i <= x.sessions[c].num
  <1>0. /\ g \in Group /\ Facts(w, N) /\ w[g].sessions[c].num \in Nat /\ w[g].sessions[c].num <= N[c] /\ N[c] \in Nat
        /\ x.sessions[c].num \in Nat /\ x.sessions[c].num <= N[c] /\ w[g].sessions[c].num <= x.sessions[c].num
        /\ i \in Nat /\ i >= 1
    <2>1. g \in Group /\ Facts(w, N) /\ Nums(N)
      BY DEF Carries, Moves
    <2>2. w[g].sessions[c].num \in Nat /\ w[g].sessions[c].num <= N[c] /\ N[c] \in Nat
      BY <2>1, SessIs
    <2>3. x.sessions[c].num \in Nat /\ x.sessions[c].num <= N[c] /\ w[g].sessions[c].num <= x.sessions[c].num
      BY SessNew
    <2>4. i \in Nat /\ i >= 1
      BY ScriptIs
    <2> QED BY <2>1, <2>2, <2>3, <2>4
  <1>1. CASE i < N[c]
    <2>1. i \in 1 .. N[c] - 1 /\ Fresh(w[g], c, h, N[c])
      BY <1>0, <1>1 DEF Facts
    <2>2. i <= w[g].sessions[c].num
      BY <2>1 DEF Fresh
    <2> QED BY <1>0, <2>2
  <1>2. CASE ~(i < N[c])
    <2>1. i = N[c]
      BY <1>0, <1>2
    <2> SUFFICES ASSUME x.sessions[c].num = N[c] PROVE w[g].sessions[c].num = N[c]
      BY <1>0, <2>1
    <2>2. ASSUME NEW k \in DOMAIN Script[c], op = Command(c, k), Writes(w[g], x, c, k), x.sessions[c].num = k PROVE FALSE
      BY <2>1, <2>2 DEF Write
    <2>3. CASE op.type = "GetShard" /\ x.sessions[c] = op.sessions[c]
      <3>1. Ran(w, c, N[c])
        BY <2>3 DEF Carries, DataFits, Told
      <3> QED BY <2>1, <3>1 DEF Ran
    <2> QED BY <2>2, <2>3, SessStep
  <1> QED BY <1>1, <1>2

\* An entry of g leaves the contents of a shard that g was the last to have, unless it writes them.
LEMMA KeepsData ==
  ASSUME NEW w, NEW N, NEW g, NEW op, NEW x, NEW v, Carries(w, N, g, op, x, v),
         NEW h \in Shard, NEW m \in 1 .. Len(Config), Newest(w, m, h), Newest(v, m, h), Config[m][h] = g
  PROVE  \/ \E d \in Clerk : \E k \in DOMAIN Script[d] :
              op = Command(d, k) /\ Writes(w[g], x, d, k) /\ key2shard(Script[d][k].key) = h
         \/ x.kvDB[h] = w[g].kvDB[h]
  <1>0. /\ g \in Group /\ World(w) /\ World(v) /\ v[g] = x /\ OwnFits(w, g, op) /\ Does(g, w[g], op, x)
        /\ w[g].cur \in Nat /\ Shaped(g, x) /\ x.cur \in Nat /\ x.cur <= Len(Config)
    <2>1. g \in Group /\ World(w) /\ Moves(w, g, op, x, v) /\ OwnFits(w, g, op) /\ Does(g, w[g], op, x) /\ IsState(x)
      BY DEF Carries, Moves
    <2>2. World(v) /\ v[g] = x
      BY <2>1, WorldStep, MovesIs
    <2>3. IsState(w[g]) /\ Shaped(g, x)
      BY <2>1, <2>2 DEF World
    <2> QED BY <2>1, <2>2, <2>3, StateIs
  <1>1. w[g].cur > m \/ w[g].owned[h] = "Exist"
    BY DEF Newest, Done, Has
  <1>2. ~Done(v, m + 1, h) /\ ~Done(w, m + 1, h) /\ m \in Nat
    BY DEF Newest
  <1>3. ASSUME NEW n \in Nat, n > m, Done(w, n, h) \/ Done(v, n, h) PROVE FALSE
    <2>1. m + 1 \in 1 .. n /\ n \in 1 .. Len(Config)
      BY <1>2, <1>3 DEF Done
    <2> QED BY <1>0, <1>2, <1>3, <2>1, DoneBelow
  <1>4. CASE x = w[g]
    BY <1>4
  <1>5. ASSUME NEW d \in Clerk, NEW k \in DOMAIN Script[d], op = Command(d, k), Writes(w[g], x, d, k), key2shard(Script[d][k].key) # h
        PROVE  x.kvDB[h] = w[g].kvDB[h]
    BY <1>5 DEF Writes
  <1>6. CASE Enters(g, w[g], x, op.num)
    BY <1>6 DEF Enters
  <1>7. CASE op.type = "GetShard" /\ Takes(w[g], x, op.num, op.shard, op.data, op.sessions)
    <2>1. CASE op.shard = h
      <3>1. w[g].cur > m /\ x.cur = w[g].cur /\ x.owned[h] = "Exist"
        BY <1>1, <1>7, <2>1 DEF Takes
      <3>2. Done(v, x.cur, h)
        BY <1>0, <3>1 DEF Shaped, Done, Has
      <3> QED BY <1>0, <1>3, <3>1, <3>2
    <2>2. CASE op.shard # h
      BY <1>7, <2>2 DEF Takes
    <2> QED BY <2>1, <2>2
  <1>8. CASE op.type = "GiveShard" /\ Drops(w[g], x, op.num, op.shard)
    <2>1. CASE op.shard = h
      <3>1. w[g].cur > m /\ op.num = w[g].cur
        BY <1>1, <1>8, <2>1 DEF Drops
      <3>2. Done(w, op.num, h)
        BY <1>0, <1>8, <2>1 DEF OwnFits
      <3> QED BY <1>0, <1>3, <3>1, <3>2
    <2>2. CASE op.shard # h
      BY <1>8, <2>2 DEF Drops
    <2> QED BY <2>1, <2>2
  <1> QED BY <1>0, <1>4, <1>5, <1>6, <1>7, <1>8 DEF Does

\* Of a shard that stays everything is still there.
LEMMA FreshWritten ==
  ASSUME NEW w, NEW N, NEW g, NEW op, NEW x, NEW v, Carries(w, N, g, op, x, v), NEW c \in Clerk, NEW h \in Shard,
         Fresh(w[g], c, h, N[c]),
         NEW d \in Clerk, NEW k \in DOMAIN Script[d], op = Command(d, k), Writes(w[g], x, d, k), key2shard(Script[d][k].key) = h
  PROVE  Fresh(x, c, h, N[c])
  <1> DEFINE key == Script[d][k].key
  <1>0. /\ w[g].sessions[c].num \in Nat /\ N[c] \in Nat /\ N[c] >= 1 /\ PrivateKeys
        /\ k = N[d] /\ w[g].sessions[d].num # N[d]
        /\ Script[d][k].type # "Get" /\ k \in Nat /\ k # 0
    <2>1. g \in Group /\ Facts(w, N) /\ Nums(N) /\ PrivateKeys
      BY DEF Carries, Moves
    <2>2. w[g].sessions[c].num \in Nat /\ N[c] \in Nat /\ N[c] >= 1
      BY <2>1, SessIs
    <2>3. k = N[d] /\ w[g].sessions[d].num # N[d]
      BY WriteIs
    <2>4. k \in Nat /\ k # 0
      BY ScriptIs
    <2> QED BY <2>1, <2>2, <2>3, <2>4 DEF Writes
  <1>1. /\ \A j \in KeysOf(h) \ {key} : x.kvDB[h][j] = w[g].kvDB[h][j]
        /\ x.kvDB[h][key] = IF Script[d][k].type = "Put" THEN <<<<d, k>>>> ELSE Append(w[g].kvDB[h][key], <<d, k>>)
        /\ x.sessions[d].num = k /\ \A e \in Clerk \ {d} : x.sessions[e] = w[g].sessions[e]
    BY DEF Writes
  <1>2. \A j \in KeysFrom(c, h) : j \in KeysOf(h)
    BY ScriptIs DEF KeysFrom
  <1>3. CASE d = c
    <2>1. ASSUME NEW j \in KeysFrom(c, h) PROVE x.kvDB[h][j] = Written(c, k, j)
      <3>1. w[g].kvDB[h][j] = Written(c, k - 1, j)
        BY <1>0, <1>3, <2>1 DEF Fresh
      <3>2. Written(c, k, j) = Leaves(c, j, k, Written(c, k - 1, j))
        BY <1>0, WrittenNext
      <3>3. CASE j = key
        BY <1>0, <1>1, <1>3, <3>1, <3>2, <3>3 DEF Leaves
      <3>4. CASE j # key
        BY <1>0, <1>1, <1>2, <1>3, <2>1, <3>1, <3>2, <3>4 DEF Leaves
      <3> QED BY <3>3, <3>4
    <2>2. x.sessions[c].num = N[c] /\ k = N[c]
      BY <1>0, <1>1, <1>3
    <2>3. \A i \in 1 .. N[c] - 1 : i <= x.sessions[c].num
      BY <1>0, <2>2
    <2> QED BY <2>1, <2>2, <2>3 DEF Fresh
  <1>4. CASE d # c
    <2>1. ASSUME NEW j \in KeysFrom(c, h) PROVE x.kvDB[h][j] = w[g].kvDB[h][j]
      <3>1. PICK i \in DOMAIN Script[c] : j = Script[c][i].key
        BY <2>1 DEF KeysFrom
      <3>2. j # key
        BY <1>0, <1>4, <3>1 DEF PrivateKeys
      <3> QED BY <1>1, <1>2, <2>1, <3>2
    <2>2. x.sessions[c] = w[g].sessions[c]
      BY <1>1, <1>4
    <2> QED BY <2>1, <2>2 DEF Fresh
  <1> QED BY <1>3, <1>4

\* What the owner of a shard has of it is right after an entry.
LEMMA FreshKept ==
  ASSUME NEW w, NEW N, NEW g, NEW op, NEW x, NEW v, Carries(w, N, g, op, x, v), NEW c \in Clerk,
         NEW h \in Shard, NEW m \in 1 .. Len(Config), Newest(w, m, h), Newest(v, m, h)
  PROVE  Fresh(v[Config[m][h]], c, h, N[c])
  <1>0. /\ g \in Group /\ Facts(w, N) /\ Nums(N) /\ v[g] = x /\ (\A q \in Group \ {g} : v[q] = w[q])
        /\ Config[m][h] \in Group /\ Fresh(w[Config[m][h]], c, h, N[c])
    <2>1. Moves(w, g, op, x, v) /\ Facts(w, N) /\ Nums(N) /\ g \in Group
      BY DEF Carries, Moves
    <2>2. Config[m][h] \in Group
      BY DEF Newest, Done, Has
    <2> QED BY <2>1, <2>2, MovesIs DEF Facts
  <1>1. CASE Config[m][h] # g
    BY <1>0, <1>1
  <1>2. CASE Config[m][h] = g
    <2>1. ASSUME NEW d \in Clerk, NEW k \in DOMAIN Script[d],
                 op = Command(d, k), Writes(w[g], x, d, k), key2shard(Script[d][k].key) = h
          PROVE  Fresh(x, c, h, N[c])
      BY <1>0, <1>2, <2>1, FreshWritten
    <2>2. ASSUME ~\E d \in Clerk : \E k \in DOMAIN Script[d] :
                    op = Command(d, k) /\ Writes(w[g], x, d, k) /\ key2shard(Script[d][k].key) = h
          PROVE  Fresh(x, c, h, N[c])
      <3>1. x.kvDB[h] = w[g].kvDB[h]
        BY <1>2, <2>2, KeepsData
      <3>2. /\ w[g].sessions[c].num \in DOMAIN Script[c] \cup {0} /\ w[g].sessions[c].num <= N[c]
            /\ w[g].sessions[c].num \in Nat /\ N[c] \in Nat /\ N[c] >= 1
        BY <1>0, SessIs
      <3>3. x.sessions[c].num \in DOMAIN Script[c] \cup {0} /\ x.sessions[c].num <= N[c]
        BY SessNew
      <3>4. \A i \in DOMAIN Script[c] : Write(c, i, h) /\ i <= N[c] => (i <= w[g].sessions[c].num <=> i <= x.sessions[c].num)
        BY <1>2, <2>2, SaysSame
      <3>5. Fresh(w[g], c, h, N[c])
        BY <1>0, <1>2
      <3> QED BY <3>1, <3>2, <3>3, <3>4, <3>5, FreshOther
    <2> QED BY <1>0, <1>2, <2>1, <2>2
  <1> QED BY <1>1, <1>2

\* What is known of the states before and after.
LEMMA CarriesIs ==
  ASSUME NEW w, NEW N, NEW g, NEW op, NEW x, NEW v, Carries(w, N, g, op, x, v)
  PROVE  /\ g \in Group /\ World(w) /\ Facts(w, N) /\ Nums(N) /\ Moves(w, g, op, x, v)
         /\ World(v) /\ LaterAll(w, v) /\ v[g] = x /\ \A q \in Group \ {g} : v[q] = w[q]
  <1>1. World(w) /\ Facts(w, N) /\ Nums(N) /\ Moves(w, g, op, x, v) /\ g \in Group
    BY DEF Carries, Moves
  <1> QED BY <1>1, WorldStep, MovesIs

\* How the newest configuration of a shard changes: g moves it to its own next one, or g has fetched it from p.
Stays(w, g, x, m, h) ==
  /\ Config[m - 1][h] = g /\ Newest(w, m - 1, h) /\ x.kvDB = w[g].kvDB /\ x.sessions = w[g].sessions

\* g executes that h came from its former owner.
Fetched(w, g, op, x, m, h) ==
  LET p == Config[m - 1][h]
  IN  /\ op.type = "GetShard" /\ Takes(w[g], x, m, h, op.data, op.sessions)
      /\ p \in Group /\ Newest(w, m - 1, h)
      /\ op.data = w[p].kvDB[h] /\ Covers(op.sessions, w[p].sessions, h)

\* It is now the newest.
LEMMA NewestNew ==
  ASSUME NEW w, NEW N, NEW g, NEW op, NEW x, NEW v, Carries(w, N, g, op, x, v),
         NEW h \in Shard, NEW m \in 1 .. Len(Config), Newest(v, m, h), ~Newest(w, m, h)
  PROVE  /\ m - 1 \in 1 .. Len(Config) /\ Config[m][h] = g /\ v[Config[m][h]] = x
         /\ Stays(w, g, x, m, h) \/ Fetched(w, g, op, x, m, h)
  <1>1. /\ g \in Group /\ World(w) /\ World(v) /\ LaterAll(w, v) /\ Moves(w, g, op, x, v) /\ v[g] = x
        /\ DataFits(w, N, op)
    BY CarriesIs DEF Carries
  <1>2. Done(v, m, h) /\ ~Done(w, m, h) /\ Len(Config) \in Nat
    BY <1>1, DoneKept, ConfigIs DEF Newest
  <1>3. m # 1
    BY <1>1, <1>2, FirstDone
  <1>4. m \in 2 .. Len(Config) /\ m - 1 \in 1 .. Len(Config) /\ m - 1 + 1 = m
    BY <1>2, <1>3
  <1>5. /\ g = Config[m][h]
        /\ \/ Config[m - 1][h] = g /\ w[g].cur = m - 1 /\ w[g].owned[h] = "Exist" /\ x.kvDB = w[g].kvDB /\ x.sessions = w[g].sessions
           \/ /\ op.type = "GetShard" /\ op.shard = h /\ op.num = m
              /\ Takes(w[g], x, m, h, op.data, op.sessions) /\ Awaits(w, g, m, h)
    BY <1>1, <1>2, <1>4, NewDone
  <1>6. CASE Config[m - 1][h] = g /\ w[g].cur = m - 1 /\ w[g].owned[h] = "Exist" /\ x.kvDB = w[g].kvDB /\ x.sessions = w[g].sessions
    <2>1. Newest(w, m - 1, h)
      BY <1>1, <1>6, ExistNewest
    <2> QED BY <1>1, <1>4, <1>5, <1>6, <2>1 DEF Stays
  <1>7. CASE /\ op.type = "GetShard" /\ op.shard = h /\ op.num = m
             /\ Takes(w[g], x, m, h, op.data, op.sessions) /\ Awaits(w, g, m, h)
    <2>1. Config[m - 1][h] \in Group /\ Newest(w, m - 1, h)
      BY <1>1, <1>2, <1>7, GivingIs
    <2>2. Copy(w, op.data, op.sessions, m, h)
      BY <1>1, <1>7 DEF DataFits
    <2> QED BY <1>1, <1>2, <1>4, <1>5, <1>7, <2>1, <2>2 DEF Fetched, Copy
  <1> QED BY <1>5, <1>6, <1>7

\* What has been executed stays so.
LEMMA RanKept ==
  ASSUME NEW w, NEW N, NEW g, NEW op, NEW x, NEW v, Carries(w, N, g, op, x, v), NEW c \in Clerk, Ran(w, c, N[c])
  PROVE  Ran(v, c, N[c])
  <1> SUFFICES ASSUME NEW h \in Shard, NEW m \in 1 .. Len(Config), Write(c, N[c], h), Newest(v, m, h)
               PROVE  v[Config[m][h]].sessions[c].num = N[c]
    BY DEF Ran
  <1>0. /\ g \in Group /\ World(w) /\ Facts(w, N) /\ Nums(N) /\ v[g] = x /\ \A q \in Group \ {g} : v[q] = w[q]
    BY CarriesIs
  <1>1. x.sessions[c].num \in Nat /\ x.sessions[c].num <= N[c] /\ w[g].sessions[c].num <= x.sessions[c].num /\ N[c] \in Nat
    BY <1>0, SessNew DEF Nums
  <1>2. CASE Newest(w, m, h)
    <2>1. w[Config[m][h]].sessions[c].num = N[c] /\ Config[m][h] \in Group
      BY <1>2 DEF Ran, Newest, Done, Has
    <2>2. CASE Config[m][h] = g
      BY <1>0, <1>1, <2>1, <2>2
    <2>3. CASE Config[m][h] # g
      BY <1>0, <2>1, <2>3
    <2> QED BY <2>2, <2>3
  <1>3. CASE ~Newest(w, m, h)
    <2>1. /\ m - 1 \in 1 .. Len(Config) /\ Config[m][h] = g /\ v[Config[m][h]] = x
          /\ Stays(w, g, x, m, h) \/ Fetched(w, g, op, x, m, h)
      BY <1>3, NewestNew
    <2>2. CASE Stays(w, g, x, m, h)
      BY <2>1, <2>2 DEF Stays, Ran
    <2>3. CASE Fetched(w, g, op, x, m, h)
      <3> DEFINE p == Config[m - 1][h]
      <3>1. p \in Group /\ w[p].sessions[c].num = N[c] /\ Covers(op.sessions, w[p].sessions, h)
        BY <2>1, <2>3 DEF Fetched, Ran
      <3>2. N[c] \in DOMAIN Script[c] /\ N[c] <= N[c]
        BY <1>1 DEF Write
      <3>3. N[c] <= op.sessions[c].num
        BY <3>1, <3>2 DEF Covers
      <3>4. op.sessions[c].num \in Nat
        <4>1. op.sessions[c].num \in DOMAIN Script[c] \cup {0}
          BY <2>3 DEF Carries, DataFits, Told, Fetched
        <4> QED BY <4>1, ScriptIs
      <3>5. w[g].sessions[c].num \in Nat
        BY <1>0, SessIs
      <3>6. N[c] <= x.sessions[c].num
        BY <1>1, <2>3, <3>3, <3>4, <3>5 DEF Fetched, Takes
      <3> QED BY <1>1, <2>1, <3>6
    <2> QED BY <2>1, <2>2, <2>3
  <1> QED BY <1>2, <1>3

\* Sessions that know of nothing else go on doing so.
LEMMA ToldKept ==
  ASSUME NEW w, NEW N, NEW g, NEW op, NEW x, NEW v, Carries(w, N, g, op, x, v), NEW sess, Told(w, sess, N)
  PROVE  Told(v, sess, N)
  BY RanKept DEF Told

\* The sessions of the group know of nothing else.
LEMMA ToldNew ==
  ASSUME NEW w, NEW N, NEW g, NEW op, NEW x, NEW v, Carries(w, N, g, op, x, v)
  PROVE  Told(v, x.sessions, N)
  <1> SUFFICES ASSUME NEW c \in Clerk, x.sessions[c].num = N[c] PROVE Ran(v, c, N[c])
    BY SessNew DEF Told
  <1>0. g \in Group /\ World(w) /\ World(v) /\ Facts(w, N) /\ Nums(N) /\ v[g] = x
    BY CarriesIs
  <1>1. CASE x.sessions[c] = w[g].sessions[c]
    BY <1>0, <1>1, SessIs, RanKept
  <1>2. ASSUME NEW k \in DOMAIN Script[c], op = Command(c, k), Writes(w[g], x, c, k) PROVE Ran(v, c, N[c])
    <2> SUFFICES ASSUME NEW h \in Shard, NEW m \in 1 .. Len(Config), Write(c, N[c], h), Newest(v, m, h)
                 PROVE  v[Config[m][h]].sessions[c].num = N[c]
      BY DEF Ran
    <2>1. k = N[c] /\ x.owned[key2shard(Script[c][k].key)] = "Exist"
      BY <1>2, WriteIs
    <2>2. x.owned[h] = "Exist"
      BY <2>1 DEF Write
    <2>3. v[g].cur \in 1 .. Len(Config) /\ Config[v[g].cur][h] = g /\ Newest(v, v[g].cur, h)
      BY <1>0, <2>2, ExistNewest
    <2>4. m = v[g].cur
      BY <1>0, <2>3, NewestOnly
    <2> QED BY <1>0, <2>3, <2>4
  <1>3. CASE op.type = "GetShard" /\ x.sessions[c] = op.sessions[c]
    <2>1. Ran(w, c, N[c])
      BY <1>3 DEF Carries, DataFits, Told
    <2> QED BY <2>1, RanKept
  <1> QED BY <1>1, <1>2, <1>3, SessStep

\* A shard that moves brings everything.
LEMMA FreshNew ==
  ASSUME NEW w, NEW N, NEW g, NEW op, NEW x, NEW v, Carries(w, N, g, op, x, v), NEW c \in Clerk,
         NEW h \in Shard, NEW m \in 1 .. Len(Config), Newest(v, m, h), ~Newest(w, m, h)
  PROVE  Fresh(v[Config[m][h]], c, h, N[c])
  <1>0. g \in Group /\ World(w) /\ Facts(w, N) /\ Nums(N) /\ v[g] = x
    BY CarriesIs
  <1>1. /\ m - 1 \in 1 .. Len(Config) /\ Config[m][h] = g /\ v[Config[m][h]] = x
        /\ Stays(w, g, x, m, h) \/ Fetched(w, g, op, x, m, h)
    BY NewestNew
  <1>2. CASE Stays(w, g, x, m, h)
    <2>1. Fresh(w[g], c, h, N[c])
      BY <1>0, <1>1, <1>2 DEF Stays, Facts
    <2> QED BY <1>1, <1>2, <2>1 DEF Stays, Fresh
  <1>3. CASE Fetched(w, g, op, x, m, h)
    <2> DEFINE p == Config[m - 1][h]
    <2>1. p \in Group /\ Newest(w, m - 1, h) /\ Fresh(w[p], c, h, N[c])
      BY <1>0, <1>1, <1>3 DEF Fetched, Facts
    <2>2. x.kvDB[h] = w[p].kvDB[h] /\ Covers(op.sessions, w[p].sessions, h) /\ DataFits(w, N, op) /\ op.type = "GetShard"
      BY <1>3 DEF Fetched, Takes, Carries
    <2>3. /\ w[p].sessions[c].num \in DOMAIN Script[c] \cup {0} /\ w[p].sessions[c].num <= N[c]
          /\ w[p].sessions[c].num \in Nat /\ N[c] \in Nat /\ N[c] >= 1 /\ w[g].sessions[c].num \in Nat
          /\ w[g].sessions[c].num = N[c] => Ran(w, c, N[c])
      BY <1>0, <2>1, SessIs
    <2>4. x.sessions[c].num \in DOMAIN Script[c] \cup {0} /\ x.sessions[c].num <= N[c] /\ x.sessions[c].num \in Nat
      BY SessNew
    <2>5. /\ x.sessions[c] = IF op.sessions[c].num > w[g].sessions[c].num THEN op.sessions[c] ELSE w[g].sessions[c]
          /\ op.sessions[c].num \in Nat /\ (op.sessions[c].num = N[c] => Ran(w, c, N[c]))
      <3>1. op.sessions[c].num \in DOMAIN Script[c] \cup {0} /\ (op.sessions[c].num = N[c] => Ran(w, c, N[c]))
        BY <2>2 DEF DataFits, Told
      <3>2. op.sessions[c].num \in Nat
        BY <3>1, ScriptIs
      <3> QED BY <1>3, <3>1, <3>2 DEF Fetched, Takes
    <2>6. ASSUME NEW i \in DOMAIN Script[c], Write(c, i, h), i <= N[c]
          PROVE  i <= w[p].sessions[c].num <=> i <= x.sessions[c].num
      <3>0. i \in Nat /\ i >= 1
        BY ScriptIs
      <3>1. i <= w[p].sessions[c].num => i <= x.sessions[c].num
        <4>1. i <= w[p].sessions[c].num => i <= op.sessions[c].num
          BY <2>2, <2>6 DEF Covers
        <4>2. op.sessions[c].num <= x.sessions[c].num
          <5> DEFINE a == op.sessions[c].num
                     b == w[g].sessions[c].num
          <5>1. x.sessions[c].num = IF a > b THEN a ELSE b
            BY <2>5, Zenon
          <5>2. a \in Nat /\ b \in Nat
            BY <2>3, <2>5, Zenon
          <5> HIDE DEF a, b
          <5>3. a <= x.sessions[c].num
            BY <5>1, <5>2
          <5> QED BY <5>3, Zenon DEF a
        <4> QED BY <2>4, <2>5, <3>0, <4>1, <4>2
      <3>2. ASSUME i <= x.sessions[c].num PROVE i <= w[p].sessions[c].num
        <4>1. CASE i < N[c]
          <5>0. i \in Nat /\ i >= 1 /\ i < N[c] /\ N[c] \in Nat
            BY <2>3, <3>0, <4>1, Zenon
          <5>1. i \in 1 .. N[c] - 1
            BY <5>0
          <5> QED BY <2>1, <2>6, <5>1 DEF Fresh
        <4>2. CASE ~(i < N[c])
          <5>1. i = N[c] /\ x.sessions[c].num = N[c]
            BY <2>3, <2>4, <2>6, <3>0, <3>2, <4>2, SMTT(120)
          <5>2. Ran(w, c, N[c])
            BY <2>3, <2>5, <5>1
          <5>3. w[p].sessions[c].num = N[c]
            BY <1>1, <2>1, <2>6, <5>1, <5>2 DEF Ran
          <5> QED BY <2>3, <5>1, <5>3
        <4> QED BY <4>1, <4>2
      <3> QED BY <3>1, <3>2
    <2> HIDE DEF p
    <2>7. Fresh(x, c, h, N[c])
      BY <2>1, <2>2, <2>3, <2>4, <2>6, FreshOther
    <2> QED BY <1>1, <2>7
  <1> QED BY <1>1, <1>2, <1>3

\* All that holds of the data holds after an entry.
LEMMA FactsKept ==
  ASSUME NEW w, NEW N, NEW g, NEW op, NEW x, NEW v, Carries(w, N, g, op, x, v)
  PROVE  Facts(v, N)
  <1>1. ASSUME NEW c \in Clerk, NEW h \in Shard, NEW m \in 1 .. Len(Config), Newest(v, m, h)
        PROVE  Fresh(v[Config[m][h]], c, h, N[c])
    BY <1>1, FreshKept, FreshNew
  <1>2. ASSUME NEW q \in Group PROVE Told(v, v[q].sessions, N)
    <2>0. Facts(w, N) /\ v[g] = x /\ (q # g => v[q] = w[q])
      BY CarriesIs
    <2>1. CASE q = g
      BY <2>0, <2>1, ToldNew
    <2>2. CASE q # g
      <3>1. Told(w, w[q].sessions, N)
        BY <2>0 DEF Facts
      <3> QED BY <2>0, <2>2, <3>1, ToldKept
    <2> QED BY <2>1, <2>2
  <1> QED BY <1>1, <1>2 DEF Facts

\* A copy stays good.
LEMMA CopyKept ==
  ASSUME NEW w, NEW N, NEW g, NEW op, NEW x, NEW v, Carries(w, N, g, op, x, v),
         NEW r, NEW m, NEW h, Awaits(w, r, m, h), NEW data, NEW sess, Copy(w, data, sess, m, h)
  PROVE  Copy(v, data, sess, m, h)
  <1> DEFINE p == Config[m - 1][h]
  <1> SUFFICES ASSUME ~Done(v, m, h) PROVE data = v[p].kvDB[h] /\ Covers(sess, v[p].sessions, h)
    BY DEF Copy
  <1>0. g \in Group /\ World(w) /\ World(v) /\ LaterAll(w, v) /\ v[g] = x /\ (\A q \in Group \ {g} : v[q] = w[q]) /\ h \in Shard
        /\ Awaits(v, r, m, h)
    BY CarriesIs, AwaitsKept DEF Awaits, Follows
  <1>1. ~Done(w, m, h)
    BY <1>0, DoneKept
  <1>2. m - 1 \in 1 .. Len(Config) /\ p \in Group /\ w[p].owned[h] = "WaitGive" /\ Newest(w, m - 1, h) /\ Newest(v, m - 1, h)
    BY <1>0, <1>1, GivingIs
  <1>3. data = w[p].kvDB[h] /\ Covers(sess, w[p].sessions, h)
    BY <1>1 DEF Copy
  <1>4. CASE p # g
    BY <1>0, <1>2, <1>3, <1>4
  <1>5. CASE p = g
    <2>1. \A d \in Clerk : \A k \in DOMAIN Script[d] : Writes(w[g], x, d, k) => key2shard(Script[d][k].key) # h
      BY <1>2, <1>5 DEF Writes
    <2>0. PICK n \in 1 .. Len(Config) : Newest(w, n, h) /\ Newest(v, n, h) /\ Config[n][h] = g
      BY <1>2, <1>5
    <2>2. x.kvDB[h] = w[g].kvDB[h]
      BY <1>0, <2>0, <2>1, KeepsData
    <2>3. ASSUME NEW c \in Clerk, NEW i \in DOMAIN Script[c], Write(c, i, h), i <= x.sessions[c].num
          PROVE  i <= sess[c].num
      <3>1. i <= N[c]
        <4>1. x.sessions[c].num \in Nat /\ x.sessions[c].num <= N[c] /\ i \in Nat /\ N[c] \in Nat
          BY SessNew, ScriptIs, CarriesIs DEF Nums
        <4> QED BY <2>3, <4>1
      <3>2. i <= w[g].sessions[c].num
        BY <1>0, <2>0, <2>1, <2>3, <3>1, SaysSame
      <3> QED BY <1>3, <1>5, <2>3, <3>2 DEF Covers
    <2> QED BY <1>0, <1>3, <1>5, <2>2, <2>3 DEF Covers
  <1> QED BY <1>4, <1>5

\* What is in logs still fits.
LEMMA DataFitsKept ==
  ASSUME NEW w, NEW N, NEW g, NEW op, NEW x, NEW v, Carries(w, N, g, op, x, v),
         NEW r, NEW e, OwnFits(w, r, e), DataFits(w, N, e)
  PROVE  DataFits(v, N, e)
  BY ToldKept, CopyKept DEF DataFits, OwnFits

\* A clerk goes on to its next command.
Finishes(N, M, c) ==
  c \in Clerk /\ N[c] \in DOMAIN Script[c] /\ M[c] = N[c] + 1 /\ \A d \in Clerk \ {c} : M[d] = N[d]

\* What sessions know, ...
LEMMA ToldFinish ==
  ASSUME NEW w, NEW N, NEW M, NEW c, Finishes(N, M, c), NEW sess, Told(w, sess, N)
  PROVE  Told(w, sess, M)
  <1> SUFFICES ASSUME NEW d \in Clerk
               PROVE  sess[d].num \in DOMAIN Script[d] \cup {0} /\ sess[d].num <= M[d] /\ (sess[d].num = M[d] => Ran(w, d, M[d]))
    BY DEF Told
  <1>1. sess[d].num \in DOMAIN Script[d] \cup {0} /\ sess[d].num <= N[d] /\ (sess[d].num = N[d] => Ran(w, d, N[d]))
    BY DEF Told
  <1>2. CASE d = c
    <2>1. sess[d].num \in Nat /\ N[d] \in Nat /\ M[d] = N[d] + 1
      BY <1>1, <1>2, ScriptIs DEF Finishes
    <2> QED BY <1>1, <2>1
  <1>3. CASE d # c
    <2>1. M[d] = N[d]
      BY <1>3 DEF Finishes
    <2> QED BY <1>1, <2>1
  <1> QED BY <1>2, <1>3

\* ... what holds of the data ...
LEMMA FactsFinish ==
  ASSUME NEW w, NEW N, Facts(w, N), Nums(N), NEW M, NEW c, Finishes(N, M, c), Ran(w, c, N[c])
  PROVE  Facts(w, M) /\ Nums(M)
  <1>0. c \in Clerk /\ N[c] \in DOMAIN Script[c] /\ N[c] \in Nat /\ N[c] >= 1 /\ M[c] = N[c] + 1 /\ M[c] - 1 = N[c] /\ M[c] \in Nat
    BY ScriptIs DEF Finishes
  <1>1. Nums(M)
    <2>1. ASSUME NEW d \in Clerk PROVE M[d] \in Nat /\ M[d] >= 1
      <3>1. CASE d = c
        BY <1>0, <3>1
      <3>2. CASE d # c
        BY <3>2 DEF Nums, Finishes
      <3> QED BY <3>1, <3>2
    <2> QED BY <2>1 DEF Nums
  <1>2. \A g \in Group : Told(w, w[g].sessions, M)
    BY ToldFinish DEF Facts
  <1>3. ASSUME NEW d \in Clerk, NEW h \in Shard, NEW m \in 1 .. Len(Config), Newest(w, m, h)
        PROVE  Fresh(w[Config[m][h]], d, h, M[d])
    <2> DEFINE st == w[Config[m][h]]
    <2>0. Fresh(st, d, h, N[d]) /\ Config[m][h] \in Group
      BY <1>3 DEF Facts, Newest, Done, Has
    <2>1. CASE d # c
      BY <2>0, <2>1 DEF Finishes
    <2>2. CASE d = c
      <3>1. st.sessions[c].num \in Nat /\ st.sessions[c].num <= N[c]
        BY <1>0, <2>0, SessIs
      <3>2. Write(c, N[c], h) => st.sessions[c].num = N[c]
        BY <1>3 DEF Ran
      <3>3. ASSUME NEW i \in 1 .. M[c] - 1, Write(c, i, h) PROVE i <= st.sessions[c].num
        <4>1. CASE i = N[c]
          BY <1>0, <3>1, <3>2, <3>3, <4>1
        <4>2. CASE i # N[c]
          <5>1. i \in 1 .. N[c] - 1
            BY <1>0, <4>2
          <5> QED BY <2>0, <2>2, <3>3, <5>1 DEF Fresh
        <4> QED BY <4>1, <4>2
      <3>4. ASSUME NEW k \in KeysFrom(c, h)
            PROVE  st.kvDB[h][k] = Written(c, IF st.sessions[c].num = M[c] THEN M[c] ELSE M[c] - 1, k)
        <4>0. st.kvDB[h][k] = Written(c, IF st.sessions[c].num = N[c] THEN N[c] ELSE N[c] - 1, k)
          BY <2>0, <2>2, <3>4 DEF Fresh
        <4>1. st.sessions[c].num # M[c]
          BY <1>0, <3>1
        <4>2. CASE st.sessions[c].num = N[c]
          BY <1>0, <4>0, <4>1, <4>2
        <4>3. CASE st.sessions[c].num # N[c]
          <5>1. Written(c, N[c], k) = Written(c, N[c] - 1, k)
            BY <1>0, <3>2, <3>4, <4>3, NotWritten
          <5> QED BY <1>0, <4>0, <4>1, <4>3, <5>1
        <4> QED BY <4>2, <4>3
      <3> HIDE DEF st
      <3>5. Fresh(st, c, h, M[c])
        BY <3>3, <3>4 DEF Fresh
      <3> QED BY <2>2, <3>5 DEF st
    <2> QED BY <2>1, <2>2
  <1> QED BY <1>1, <1>2, <1>3 DEF Facts

\* ... and what is in logs.
LEMMA DataFitsFinish ==
  ASSUME NEW w, NEW N, Nums(N), NEW M, NEW c, Finishes(N, M, c), NEW e, DataFits(w, N, e)
  PROVE  DataFits(w, M, e)
  <1>1. ASSUME NEW d \in Clerk, NEW k \in DOMAIN Script[d], k <= N[d] PROVE k <= M[d]
    <2>1. N[d] \in Nat /\ k \in Nat /\ (M[d] = N[d] \/ M[d] = N[d] + 1)
      BY ScriptIs DEF Finishes, Nums
    <2> QED BY <1>1, <2>1
  <1>2. IsClientCmd(e) => \E d \in Clerk : \E k \in DOMAIN Script[d] : k <= M[d] /\ e = Command(d, k)
    BY <1>1 DEF DataFits
  <1> QED BY <1>2, ToldFinish DEF DataFits

-----------------------------------------------------------------------------
\* Every shard has a newest configuration that it came to.
LEMMA NewestExists ==
  ASSUME NEW w, World(w), NEW h \in Shard
  PROVE  \E m \in 1 .. Len(Config) : Newest(w, m, h)
  <1> DEFINE T == {n \in Nat : n >= 1 /\ ~Done(w, n + 1, h)}
  <1>0. Len(Config) \in Nat /\ Len(Config) >= 1
    BY ConfigIs
  <1>1. Len(Config) \in T
    <2>1. ~(Len(Config) + 1 \in 1 .. Len(Config))
      BY <1>0
    <2> QED BY <1>0, <2>1 DEF Done
  <1>2. PICK n \in T : \A m \in T : n <= m
    <2>1. T \in SUBSET Nat /\ T # {}
      BY <1>1
    <2> HIDE DEF T
    <2> QED BY <2>1, Least
  <1>3. n \in Nat /\ n >= 1 /\ ~Done(w, n + 1, h)
    OBVIOUS
  <1>4. Done(w, n, h)
    <2>1. CASE n = 1
      BY <2>1, FirstDone
    <2>2. CASE n # 1
      <3> DEFINE k == n - 1
      <3>1. k \in Nat /\ k >= 1 /\ k + 1 = n /\ ~(n <= k)
        BY <1>3, <2>2
      <3>2. k \notin T
        BY <1>2, <3>1
      <3> HIDE DEF k
      <3> QED BY <3>1, <3>2
    <2> QED BY <2>1, <2>2
  <1>5. n \in 1 .. Len(Config)
    BY <1>4 DEF Done
  <1> QED BY <1>3, <1>4, <1>5 DEF Newest

\* The group that a shard came to last still keeps it.
LEMMA NewestKeeps ==
  ASSUME NEW w, World(w), NEW h \in Shard, NEW m \in 1 .. Len(Config), Newest(w, m, h), NEW q, q = Config[m][h]
  PROVE  q \in Group /\ w[q].owned[h] \in {"Exist", "WaitGive"}
  <1>1. q \in Group /\ (w[q].cur > m \/ (w[q].cur = m /\ w[q].owned[h] = "Exist")) /\ ~Done(w, m + 1, h)
    BY DEF Newest, Done, Has
  <1>2. CASE w[q].owned[h] = "Exist"
    BY <1>1, <1>2
  <1>3. CASE w[q].owned[h] # "Exist"
    <2> DEFINE n == m + 1
    <2>1. Shaped(q, w[q]) /\ w[q].cur \in Nat /\ w[q].cur <= Len(Config) /\ w[q].owned[h] \in Kind
      BY <1>1, StateIs DEF World
    <2>2. w[q].cur >= n /\ n \in 2 .. Len(Config) /\ n - 1 = m /\ n \in 1 .. Len(Config) /\ n \in Nat
      BY <1>1, <1>3, <2>1, ConfigIs
    <2> HIDE DEF n
    <2>3. ~Done(w, n, h)
      BY <1>1 DEF n
    <2>4. CASE Config[n][h] = q
      <3>1. ~(w[q].cur > n)
        BY <1>1, <2>2, <2>3, <2>4 DEF Done, Has
      <3>2. w[q].cur = n
        BY <2>1, <2>2, <3>1
      <3> QED BY <1>3, <2>1, <2>2, <2>4, <3>2 DEF Shaped, Kind
    <2>5. CASE Config[n][h] # q
      <3>1. ~(w[q].cur > n) /\ ~(w[q].cur = n /\ w[q].owned[h] = "NoExist")
        BY <1>1, <2>2, <2>3, <2>5 DEF World, Given
      <3>2. w[q].cur = n
        BY <2>1, <2>2, <3>1
      <3> QED BY <1>1, <1>3, <2>1, <2>2, <2>5, <3>1, <3>2 DEF Shaped, Kind
    <2> QED BY <2>4, <2>5
  <1> QED BY <1>2, <1>3

-----------------------------------------------------------------------------
\* The invariant of the data.

Num == [c \in Clerk |-> clerk[c].num]

\* A past state of g: what its sessions know, and the shards it has to give by its configuration.
Seen(w, N, g, st) ==
  /\ Told(w, st.sessions, N)
  /\ \A h \in Shard : st.cur \in 2 .. Len(Config) /\ Config[st.cur - 1][h] = g /\ Config[st.cur][h] # g =>
       Copy(w, st.kvDB[h], st.sessions, st.cur, h)

\* Command n of c, if it is a Get and is executed in st, reads what c left.
Reads(st, op, c, n) ==
  LET key == Script[c][n].key
      h == key2shard(key)
  IN  n \in DOMAIN Script[c] /\ op = Command(c, n) /\ Script[c][n].type = "Get" /\ st.owned[h] = "Exist" =>
        st.kvDB[h][key] = Written(c, n, key)

\* What a goroutine has fetched.
PullData(w, N, t) == t.ok => Told(w, t.got.sessions, N) /\ Copy(w, t.got.data, t.got.sessions, t.num, t.shard)

\* At the index where c's handler waits there is no other command of c.
Placed(logs, c, r) ==
  \A g \in Group :
    g = Owner(r.config, key2shard(Script[c][r.num].key)) /\ r.index \in 1 .. Len(logs[g])
    /\ IsClientCmd(logs[g][r.index].op) /\ logs[g][r.index].op.clerk = c => logs[g][r.index].op = Command(c, r.num)

\* What a clerk is told.
Heard(w, c, r) ==
  r.chan # <<>> =>
    /\ Ran(w, c, r.num)
    /\ Script[c][r.num].type = "Get" => Head(r.chan).value = Written(c, r.num, Script[c][r.num].key)

\* A clerk's record: what it is told and what it has read is right.
RecordFits(w, logs, c, r) ==
  /\ r.num \in 2 .. Len(Script[c]) + 1
  /\ r.num <= Len(Script[c]) => (r.pc \in {"create", "wait"} => Placed(logs, c, r)) /\ Heard(w, c, r)
  /\ Script[c][r.num - 1].type = "Get" => r.got = Written(c, r.num - 1, Script[c][r.num - 1].key)

\* Whatever a server has executed is a past state, ...
Memory ==
  \A g \in Group : \A j \in 0 .. commit[g] : Seen(Agreed, Num, g, Replay(g, log[g], j))

\* ... in which a Get of a clerk's present command read what it should.
ReadsDone ==
  \A g \in Group : \A j \in 0 .. commit[g] - 1 : \A c \in Clerk : Reads(Replay(g, log[g], j), log[g][j + 1].op, c, Num[c])

\* Entries fit, ...
LogsData == \A g \in Group : \A i \in 1 .. Len(log[g]) : DataFits(Agreed, Num, log[g][i].op)

\* ... so does what goroutines hold, ...
PullsData == \A g \in Group : \A s \in Server(g) : \A t \in pulls[g][s] : PullData(Agreed, Num, t)

\* ... and clerks' records.
Records == \A c \in Clerk : RecordFits(Agreed, log, c, clerk[c])

\* The inductive invariant of the data.
DataInv == Facts(Agreed, Num) /\ Memory /\ ReadsDone /\ LogsData /\ PullsData /\ Records

\* The numbers of the clerks.
LEMMA NumIs ==
  ASSUME OwnInv, Records
  PROVE  Nums(Num) /\ \A c \in Clerk : Num[c] = clerk[c].num /\ Num[c] \in 2 .. Len(Script[c]) + 1 /\ Len(Script[c]) \in Nat
  <1>1. ASSUME NEW c \in Clerk
        PROVE  Num[c] = clerk[c].num /\ Num[c] \in 2 .. Len(Script[c]) + 1 /\ Num[c] \in Nat /\ Num[c] >= 1 /\ Len(Script[c]) \in Nat
    <2>1. Num[c] = clerk[c].num /\ Num[c] \in 2 .. Len(Script[c]) + 1 /\ Len(Script[c]) \in Nat
      BY ScriptIs DEF Records, RecordFits, Num
    <2> QED BY <2>1
  <1> QED BY <1>1 DEF Nums

\* The clerks' numbers stay, or one goes on after a command that was executed.
NumStep == Num' = Num \/ \E c \in Clerk : Finishes(Num, Num', c) /\ Ran(Agreed, c, Num[c])

\* All of it for new numbers.
LEMMA NumKeeps ==
  ASSUME OwnInv, DataInv, NumStep
  PROVE  /\ Facts(Agreed, Num')
         /\ \A sess : Told(Agreed, sess, Num) => Told(Agreed, sess, Num')
         /\ \A op : DataFits(Agreed, Num, op) => DataFits(Agreed, Num', op)
         /\ \A t : PullData(Agreed, Num, t) => PullData(Agreed, Num', t)
         /\ \A g, st : Seen(Agreed, Num, g, st) => Seen(Agreed, Num', g, st)
  <1>0. Facts(Agreed, Num) /\ Nums(Num)
    BY NumIs DEF DataInv
  <1>1. CASE Num' = Num
    BY <1>0, <1>1
  <1>2. ASSUME NEW c \in Clerk, Finishes(Num, Num', c), Ran(Agreed, c, Num[c])
        PROVE  /\ Facts(Agreed, Num')
               /\ \A sess : Told(Agreed, sess, Num) => Told(Agreed, sess, Num')
               /\ \A op : DataFits(Agreed, Num, op) => DataFits(Agreed, Num', op)
    BY <1>0, <1>2, FactsFinish, ToldFinish, DataFitsFinish
  <1>3. /\ Facts(Agreed, Num')
        /\ \A sess : Told(Agreed, sess, Num) => Told(Agreed, sess, Num')
        /\ \A op : DataFits(Agreed, Num, op) => DataFits(Agreed, Num', op)
    BY <1>0, <1>1, <1>2 DEF NumStep
  <1> QED BY <1>3 DEF PullData, Seen

\* A Get that is committed is not the next command of a clerk that goes on.
LEMMA ReadsKept ==
  ASSUME OwnInv, DataInv, NumStep, NEW g \in Group, NEW i \in 1 .. Len(log[g]), NEW st, NEW c \in Clerk,
         Reads(st, log[g][i].op, c, Num[c])
  PROVE  Reads(st, log[g][i].op, c, Num'[c])
  <1>1. CASE Num'[c] = Num[c]
    BY <1>1
  <1>2. CASE Num'[c] # Num[c]
    <2> SUFFICES ASSUME Num'[c] \in DOMAIN Script[c], log[g][i].op = Command(c, Num'[c]) PROVE FALSE
      BY DEF Reads
    <2>1. Num'[c] = Num[c] + 1 /\ Num[c] \in Nat
      BY <1>2, NumIs DEF NumStep, Finishes, DataInv, Nums
    <2>2. PICK d \in Clerk : \E k \in DOMAIN Script[d] : k <= Num[d] /\ log[g][i].op = Command(d, k)
      BY CommandIs DEF DataInv, LogsData, DataFits
    <2>3. PICK k \in DOMAIN Script[d] : k <= Num[d] /\ log[g][i].op = Command(d, k)
      BY <2>2
    <2>4. c = d /\ Num'[c] = k
      BY <2>3, CommandOne
    <2> QED BY <2>1, <2>3, <2>4
  <1> QED BY <1>1, <1>2

\* Steps that commit nothing.
LogsFit == \A g \in Group : \A i \in 1 .. Len(log'[g]) : DataFits(Agreed, Num, log'[g][i].op)

\* After a step: what goroutines hold, ...
PullsFit == \A g \in Group : \A s \in Server(g) : \A t \in pulls'[g][s] : PullData(Agreed, Num, t)

\* ... and clerks' records.
RecordsFit == \A c \in Clerk : RecordFits(Agreed, log', c, clerk'[c])

\* A step that commits nothing keeps the invariant if they fit.
LEMMA DataQuiet ==
  ASSUME OwnInv, DataInv, Quiet, NumStep, LogsFit, PullsFit, RecordsFit
  PROVE  DataInv'
  <1>0. Shapes /\ commit' = commit /\ LogStep
    BY DEF OwnInv, Quiet
  <1>1. /\ Agreed' = Agreed
        /\ \A g \in Group : \A j \in 0 .. commit[g] : Replay(g, log'[g], j) = Replay(g, log[g], j)
    BY <1>0, AgreedKept
  <1>2. Facts(Agreed, Num)'
    BY <1>1, NumKeeps
  <1>3. Memory'
    BY <1>0, <1>1, NumKeeps DEF Memory, DataInv
  <1>4. ReadsDone'
    <2> SUFFICES ASSUME NEW g \in Group, NEW j \in 0 .. commit[g] - 1, NEW c \in Clerk
                 PROVE  Reads(Replay(g, log'[g], j), log'[g][j + 1].op, c, Num'[c])
      BY <1>0 DEF ReadsDone
    <2>1. commit[g] \in Nat /\ commit[g] <= Len(log[g]) /\ Len(log[g]) \in Nat
      BY <1>0, CommitIs
    <2>2. j \in 0 .. commit[g] /\ j + 1 \in 1 .. commit[g] /\ j + 1 \in 1 .. Len(log[g])
      BY <2>1
    <2>3. Replay(g, log'[g], j) = Replay(g, log[g], j) /\ log'[g][j + 1] = log[g][j + 1]
      BY <1>0, <1>1, <2>2 DEF LogStep
    <2>4. Reads(Replay(g, log[g], j), log[g][j + 1].op, c, Num[c])
      BY DEF DataInv, ReadsDone
    <2> QED BY <2>2, <2>3, <2>4, ReadsKept
  <1>5. LogsData' /\ PullsData' /\ Records'
    BY <1>1, NumKeeps DEF LogsFit, LogsData, PullsFit, PullsData, RecordsFit, Records
  <1> QED BY <1>2, <1>3, <1>4, <1>5 DEF DataInv

-----------------------------------------------------------------------------
\* What steps do to logs: entries stay, are lost or are new and have op.
Grown(op) ==
  \A q \in Group : \A i \in 1 .. Len(log'[q]) :
    (i \in 1 .. Len(log[q]) /\ log'[q][i] = log[q][i]) \/ log'[q][i].op = op

\* An empty entry.
NoOp == [type |-> "EmptyOp"]

\* Logs that stay, ...
LEMMA GrownSame == ASSUME UNCHANGED log, NEW op PROVE Grown(op)
  BY DEF Grown

\* ... with an entry more, ...
LEMMA GrownStart ==
  ASSUME OwnInv, NEW g, NEW s, NEW op, StartLog(g, s, op)
  PROVE  Grown(op)
  <1> DEFINE e == [op |-> op, term |-> term[g]]
  <1>1. CASE log' = log
    BY <1>1, GrownSame
  <1>2. CASE log' = [log EXCEPT ![g] = Append(log[g], e)]
    <2>0. e.op = op
      OBVIOUS
    <2> HIDE DEF e
    <2>1. log = [q \in Group |-> log[q]] /\ \A q \in Group : IsLog(log[q])
      BY DEF OwnInv, Shapes
    <2>2. \A q \in Group : log'[q] = IF q = g THEN Append(log[g], e) ELSE log[q]
      BY <1>2, <2>1
    <2> SUFFICES ASSUME NEW q \in Group, NEW i \in 1 .. Len(log'[q])
                 PROVE  (i \in 1 .. Len(log[q]) /\ log'[q][i] = log[q][i]) \/ log'[q][i].op = op
      BY DEF Grown
    <2>3. CASE q # g
      BY <2>2, <2>3
    <2>4. CASE q = g
      <3>1. PICK l : l = log[g] /\ IsLog(l)
        BY <2>1, <2>4
      <3>2. /\ Len(Append(l, e)) = Len(l) + 1 /\ Len(l) \in Nat
            /\ (\A k \in 1 .. Len(l) : Append(l, e)[k] = l[k]) /\ Append(l, e)[Len(l) + 1] = e
        BY <3>1, AppendIs, LogIs
      <3>3. log'[q] = Append(l, e) /\ log[q] = l
        BY <2>2, <2>4, <3>1
      <3>4. i \in 1 .. Len(l) \/ i = Len(l) + 1
        BY <3>2, <3>3
      <3> QED BY <2>0, <3>2, <3>3, <3>4
    <2> QED BY <2>3, <2>4
  <1> QED BY <1>1, <1>2 DEF StartLog

\* ... or cut.
LEMMA GrownCut ==
  ASSUME OwnInv, NEW g \in Group, NEW n \in commit[g] .. Len(log[g]), log' = [log EXCEPT ![g] = SubSeq(log[g], 1, n)], NEW op
  PROVE  Grown(op)
  <1>0. log = [q \in Group |-> log[q]] /\ \A q \in Group : IsLog(log[q]) /\ commit[q] <= Len(log[q]) /\ commit[q] \in Nat
    BY CommitIs DEF OwnInv, Shapes
  <1>1. \A q \in Group : log'[q] = IF q = g THEN SubSeq(log[g], 1, n) ELSE log[q]
    BY <1>0
  <1> SUFFICES ASSUME NEW q \in Group, NEW i \in 1 .. Len(log'[q])
               PROVE  i \in 1 .. Len(log[q]) /\ log'[q][i] = log[q][i]
    BY DEF Grown
  <1>2. CASE q # g
    BY <1>1, <1>2
  <1>3. CASE q = g
    <2>1. Len(log[g]) \in Nat /\ n \in 0 .. Len(log[g])
      BY <1>0, LogIs
    <2>2. Len(log'[q]) = n /\ \A k \in 1 .. n : log'[q][k] = log[q][k]
      BY <1>0, <1>1, <1>3, <2>1, CutIs
    <2> QED BY <1>3, <2>1, <2>2
  <1> QED BY <1>2, <1>3

\* Their entries fit if the new one does.
LEMMA GrownFit ==
  ASSUME DataInv, NEW op, Grown(op), DataFits(Agreed, Num, op)
  PROVE  LogsFit
  BY DEF DataInv, LogsData, LogsFit, Grown

\* Entries without data fit, ...
LEMMA NoOpFits == ASSUME NEW w, NEW N, NEW op, op.type \in {"EmptyOp", "UpdateConfig", "GiveShard"} PROVE DataFits(w, N, op)
  BY DEF DataFits, IsClientCmd

\* ... and the command that a clerk is at.
LEMMA CommandFits ==
  ASSUME NEW w, NEW N, Nums(N), NEW c \in Clerk, N[c] \in DOMAIN Script[c]
  PROVE  DataFits(w, N, Command(c, N[c]))
  <1>1. N[c] <= N[c]
    BY DEF Nums
  <1>2. Command(c, N[c]).type # "GetShard"
    BY CommandIs, ScriptIs
  <1> QED BY <1>1, <1>2 DEF DataFits

-----------------------------------------------------------------------------
\* Clerks that do nothing, or whose call ends.

\* A clerk's record that stays fits, ...
LEMMA RecordSame ==
  ASSUME NEW w, NEW c \in Clerk, NEW r, RecordFits(w, log, c, r), NEW op, Grown(op), IsClientCmd(op) => op.clerk # c
  PROVE  RecordFits(w, log', c, r)
  <1>1. Placed(log, c, r) => Placed(log', c, r)
    BY DEF Placed, Grown
  <1> QED BY <1>1 DEF RecordFits

\* ... so does one whose call has ended, ...
LEMMA RecordReset ==
  ASSUME NEW w, NEW c \in Clerk, NEW r, RecordFits(w, log, c, r), NEW q, q.num = r.num, q.got = r.got,
         q.pc \notin {"create", "wait"}, q.chan = <<>>, NEW logs
  PROVE  RecordFits(w, logs, c, q)
  BY DEF RecordFits, Heard

\* Its command has been executed, and it goes on.
LEMMA RecordFinished ==
  ASSUME NEW w, NEW c \in Clerk, NEW r, RecordFits(w, log, c, r), r.num <= Len(Script[c]),
         NEW q, q.num = r.num + 1, q.pc \notin {"create", "wait"}, q.chan = <<>>,
         Script[c][r.num].type = "Get" => q.got = Written(c, r.num, Script[c][r.num].key), NEW logs
  PROVE  RecordFits(w, logs, c, q)
  <1>1. r.num \in Nat /\ r.num \in 2 .. Len(Script[c]) + 1 /\ Len(Script[c]) \in Nat
    BY ScriptIs DEF RecordFits
  <1>2. q.num \in 2 .. Len(Script[c]) + 1 /\ q.num - 1 = r.num
    BY <1>1
  <1> QED BY <1>2 DEF RecordFits, Heard

\* ... as at the next server, ...
LEMMA NextServerDoes ==
  ASSUME NEW c, IsClerk(clerk[c])
  PROVE  /\ NextServer(c).num = clerk[c].num /\ NextServer(c).got = clerk[c].got
         /\ NextServer(c).pc \notin {"create", "wait"} /\ NextServer(c).chan = <<>>
         /\ StartOver(clerk[c]).num = clerk[c].num /\ StartOver(clerk[c]).got = clerk[c].got
         /\ StartOver(clerk[c]).pc \notin {"create", "wait"} /\ StartOver(clerk[c]).chan = <<>>
  BY DEF IsClerk, StartOver, NextServer

\* ... or after the command.
LEMMA FinishedDoes ==
  ASSUME NEW r, IsClerk(r), NEW y
  PROVE  /\ Finished(r, y).num = r.num + 1 /\ Finished(r, y).got = y
         /\ Finished(r, y).pc \notin {"create", "wait"} /\ Finished(r, y).chan = <<>>
  BY DEF IsClerk, Finished

\* What the servers do to clerks: nothing, or their calls end.
Untold == \A c \in Clerk : clerk'[c] = clerk[c] \/ clerk'[c] = NextServer(c)

\* So all records fit.
LEMMA UntoldFit ==
  ASSUME OwnInv, DataInv, NEW op, Grown(op), ~IsClientCmd(op), Untold, Clerks(clerk')
  PROVE  NumStep /\ RecordsFit
  <1>1. \A c \in Clerk : clerk'[c].num = clerk[c].num
    BY ClerkIs, NextServerDoes DEF Untold
  <1>2. Num' = Num
    BY <1>1 DEF Num
  <1>3. ASSUME NEW c \in Clerk PROVE RecordFits(Agreed, log', c, clerk'[c])
    <2>0. RecordFits(Agreed, log, c, clerk[c])
      BY DEF DataInv, Records
    <2>1. CASE clerk'[c] = clerk[c]
      BY <2>0, <2>1, RecordSame
    <2>2. CASE clerk'[c] = NextServer(c)
      BY <2>0, <2>2, ClerkIs, NextServerDoes, RecordReset
    <2> QED BY <2>1, <2>2 DEF Untold
  <1> QED BY <1>2, <1>3 DEF NumStep, RecordsFit

-----------------------------------------------------------------------------
\* Servers' steps that commit nothing.

\* Goroutines that go on as they were.
LEMMA PullsSame == ASSUME DataInv, UNCHANGED pulls PROVE PullsFit
  BY DEF DataInv, PullsData, PullsFit

\* Those of one server change.
LEMMA PullsPut ==
  ASSUME OwnInv, DataInv, NEW g \in Group, NEW s \in Server(g), NEW T, \A t \in T : PullData(Agreed, Num, t),
         pulls' = [pulls EXCEPT ![g][s] = T]
  PROVE  PullsFit
  <1>0. Grid(pulls)
    BY DEF OwnInv, Shapes
  <1>1. Cells(pulls, pulls', g, s, T)
    <2>1. Sets(pulls, pulls', g, s, T)
      BY DEF Sets
    <2> QED BY <1>0, <2>1, GridSet
  <1>2. ASSUME NEW q \in Group, NEW t \in Server(q)
        PROVE  \A k \in pulls'[q][t] : PullData(Agreed, Num, k)
    <2>1. CASE <<q, t>> = <<g, s>>
      <3>1. q = g /\ t = s
        BY <2>1
      <3> QED BY <1>1, <3>1 DEF Cells
    <2>2. CASE <<q, t>> # <<g, s>>
      BY <1>1, <2>2 DEF Cells, DataInv, PullsData
    <2> QED BY <2>1, <2>2
  <1> QED BY <1>2 DEF PullsFit

\* A step that leaves the clerks, and adds at most an entry that is not a command.
LEMMA ServerQuiet ==
  ASSUME OwnInv, DataInv, Quiet, NEW op, Grown(op), DataFits(Agreed, Num, op), ~IsClientCmd(op), Untold, PullsFit
  PROVE  DataInv'
  <1>1. Clerks(clerk')
    BY DEF Quiet
  <1> QED BY <1>1, GrownFit, UntoldFit, DataQuiet

\* It is no command, and fits.
LEMMA NoOpIs == ~IsClientCmd(NoOp) /\ \A w, N : DataFits(w, N, NoOp)
  BY NoOpFits DEF NoOp, IsClientCmd

\* Nothing goes to a log.
LEMMA LogSameData == ASSUME OwnInv, DataInv, Quiet, UNCHANGED log, Untold, PullsFit PROVE DataInv'
  BY GrownSame, NoOpIs, ServerQuiet

\* The shard master publishes.
LEMMA PublishData == ASSUME OwnInv, DataInv, Publish PROVE DataInv'
  BY PublishQuiet, PullsSame, LogSameData DEF Publish, raftVars, loopVars, Untold

\* A server steps down, ...
LEMMA StepDownData == ASSUME OwnInv, DataInv, NEW g \in Group, NEW s \in Server(g), StepDown(g, s) PROVE DataInv'
  BY StepDownQuiet, PullsSame, LogSameData DEF StepDown, loopVars, Untold

\* ... is elected ...
LEMMA ElectData == ASSUME OwnInv, DataInv, NEW g \in Group, NEW s \in Server(g), Elect(g, s) PROVE DataInv'
  <1>1. PICK n \in commit[g] .. Len(log[g]) : log' = [log EXCEPT ![g] = SubSeq(log[g], 1, n)]
    BY DEF Elect
  <1>2. Grown(NoOp)
    BY <1>1, GrownCut
  <1>3. PullsFit /\ Untold
    BY PullsSame DEF Elect, loopVars, Untold
  <1> QED BY <1>2, <1>3, ElectQuiet, NoOpIs, ServerQuiet

\* ... or restarts.
LEMMA RestartData == ASSUME OwnInv, DataInv, NEW g \in Group, NEW s \in Server(g), Restart(g, s) PROVE DataInv'
  <1>1. PullsFit
    <2>1. PICK T : T = {} /\ pulls' = [pulls EXCEPT ![g][s] = T]
      BY DEF Restart
    <2>2. \A t \in T : PullData(Agreed, Num, t)
      BY <2>1
    <2> QED BY <2>1, <2>2, PullsPut
  <1>2. Untold
    BY DEF Restart, Untold
  <1> QED BY <1>1, <1>2, RestartQuiet, LogSameData DEF Restart

\* getLastestConfig.
LEMMA UpdateData == ASSUME OwnInv, DataInv, NEW g \in Group, NEW s \in Server(g), UpdateStep(g, s) PROVE DataInv'
  <1>0. Quiet
    BY UpdateQuiet
  <1>1. CASE getLastestConfig(g, s)
    BY <1>0, <1>1, PullsSame, LogSameData DEF getLastestConfig, raftVars, Untold
  <1>2. CASE StartUpdate(g, s)
    <2>0. PullsFit /\ Untold
      BY <1>2, PullsSame DEF StartUpdate, Untold
    <2>1. CASE UNCHANGED log
      BY <1>0, <2>0, <2>1, LogSameData
    <2>2. ASSUME NEW n, StartLog(g, s, [type |-> "UpdateConfig", num |-> n]) PROVE DataInv'
      <3> DEFINE op == [type |-> "UpdateConfig", num |-> n]
      <3>1. op.type = "UpdateConfig" /\ ~IsClientCmd(op)
        BY DEF IsClientCmd
      <3> HIDE DEF op
      <3>2. Grown(op)
        BY <2>2, GrownStart DEF op
      <3> QED BY <1>0, <2>0, <3>1, <3>2, NoOpFits, ServerQuiet
    <2> QED BY <1>2, <2>1, <2>2 DEF StartUpdate
  <1> QED BY <1>1, <1>2 DEF UpdateStep

\* addEmptyLog.
LEMMA EmptyData == ASSUME OwnInv, DataInv, NEW g \in Group, NEW s \in Server(g), addEmptyLog(g, s) PROVE DataInv'
  <1>1. Grown(NoOp)
    BY GrownStart DEF addEmptyLog, NoOp
  <1>2. PullsFit /\ Untold
    BY PullsSame DEF addEmptyLog, loopVars, Untold
  <1> QED BY <1>1, <1>2, EmptyQuiet, NoOpIs, ServerQuiet

\* checkAndFinishGiveShard and AckReceiveShard.
LEMMA GiveData == ASSUME OwnInv, DataInv, NEW g \in Group, NEW s \in Server(g), GiveStep(g, s) PROVE DataInv'
  <1>0. Quiet
    BY GiveQuiet
  <1>1. CASE checkAndFinishGiveShard(g, s)
    BY <1>0, <1>1, PullsSame, LogSameData DEF checkAndFinishGiveShard, raftVars, Untold
  <1>2. ASSUME NEW t \in gives[g][s], AckReceiveShard(g, s, t) PROVE DataInv'
    <2>0. PullsFit /\ Untold
      BY <1>2, PullsSame DEF AckReceiveShard, Untold
    <2>1. CASE UNCHANGED log
      BY <1>0, <2>0, <2>1, LogSameData
    <2>2. CASE StartLog(g, s, [type |-> "GiveShard", num |-> t.num, shard |-> t.shard])
      <3> DEFINE op == [type |-> "GiveShard", num |-> t.num, shard |-> t.shard]
      <3>1. op.type = "GiveShard" /\ ~IsClientCmd(op)
        BY DEF IsClientCmd
      <3> HIDE DEF op
      <3>2. Grown(op)
        BY <2>2, GrownStart DEF op
      <3> QED BY <1>0, <2>0, <3>1, <3>2, NoOpFits, ServerQuiet
    <2> QED BY <1>2, <2>1, <2>2 DEF AckReceiveShard
  <1> QED BY <1>1, <1>2 DEF GiveStep

\* What a server has executed is a past state.
LEMMA SeenIs ==
  ASSUME OwnInv, DataInv, NEW g \in Group, NEW s \in Server(g)
  PROVE  Seen(Agreed, Num, g, sm[g][s])
  <1>1. applied[g][s] \in 0 .. commit[g] /\ sm[g][s] = Replay(g, log[g], applied[g][s])
    BY DEF OwnInv, Runs
  <1> QED BY <1>1 DEF DataInv, Memory

\* A goroutine asks the next server.
LEMMA OnwardData ==
  ASSUME NEW w, NEW N, NEW g, NEW T, \A k \in T : PullData(w, N, k), NEW t \in T,
         DOMAIN t = {"shard", "num", "from", "at", "ok", "got"}
  PROVE  \A k \in Onward(g, T, t) : PullData(w, N, k)
  <1> DEFINE u == [t EXCEPT !.at = t.at + 1]
  <1>1. u.ok = t.ok /\ u.got = t.got /\ u.num = t.num /\ u.shard = t.shard
    OBVIOUS
  <1>2. PullData(w, N, u)
    <2> HIDE DEF u
    <2> QED BY <1>1 DEF PullData
  <1> QED BY <1>2 DEF Onward

\* checkAndGetShard: what MigrateShard hands out is a good copy.
LEMMA PullDataStep == ASSUME OwnInv, DataInv, NEW g \in Group, NEW s \in Server(g), PullStep(g, s) PROVE DataInv'
  <1>0. /\ Quiet
        /\ \A t \in pulls[g][s] : PullOwn(Agreed, g, t) /\ PullData(Agreed, Num, t)
    BY PullQuiet DEF OwnInv, Tasks, DataInv, PullsData
  <1>1. CASE checkAndGetShard(g, s)
    <2> DEFINE st == sm[g][s]
               shards == {h \in Shard : st.owned[h] = "WaitGet" /\ Owner(st.pre, h) # 0}
               T == {[shard |-> h, num |-> st.cur, from |-> Owner(st.pre, h), at |-> 1,
                      ok |-> FALSE, got |-> NoData] : h \in shards}
    <2>1. pulls' = [pulls EXCEPT ![g][s] = T] /\ UNCHANGED <<latest, raftVars, applied, sm, updater, gives, clerk>>
      BY <1>1 DEF checkAndGetShard
    <2>2. \A t \in T : PullData(Agreed, Num, t)
      BY DEF PullData
    <2> HIDE DEF T
    <2>3. PullsFit
      BY <2>1, <2>2, PullsPut
    <2> QED BY <1>0, <2>1, <2>3, LogSameData DEF raftVars, Untold
  <1>2. ASSUME NEW t \in pulls[g][s], MigrateShard(g, s, t) PROVE DataInv'
    <2> DEFINE st == sm[t.from][t.at]
               rest == pulls[g][s] \ {t}
               u == [t EXCEPT !.ok = TRUE, !.got = [data |-> st.kvDB[t.shard], sessions |-> st.sessions]]
    <2>0. PullOwn(Agreed, g, t) /\ Follows(g, t.num, t.shard) /\ t.from \in Group \ {g} /\ t.at \in Server(t.from) /\ t.shard \in Shard
          /\ t.from = Config[t.num - 1][t.shard]
      BY <1>0 DEF PullOwn, Follows
    <2>1. PICK T : /\ pulls' = [pulls EXCEPT ![g][s] = T]
                   /\ T = Onward(t.from, pulls[g][s], t) \/ T = rest \/ (T = rest \cup {u} /\ st.cur = t.num)
      <3>1. /\ t.num \in Nat /\ st.cur \in Nat
        BY <2>0, StateOf, ConfigIs DEF Follows
      <3>2. \/ pulls' = [pulls EXCEPT ![g][s] = Onward(t.from, pulls[g][s], t)]
            \/ pulls' = [pulls EXCEPT ![g][s] = rest]
            \/ pulls' = [pulls EXCEPT ![g][s] = rest \cup {u}] /\ st.cur = t.num
        BY <1>2, <3>1, MigrateTasks
      <3> QED BY <3>2
    <2>2. \A k \in Onward(t.from, pulls[g][s], t) : PullData(Agreed, Num, k)
      BY <1>0, <2>0, OnwardData DEF PullOwn
    <2>3. ASSUME st.cur = t.num PROVE PullData(Agreed, Num, u)
      <3>1. u.num = t.num /\ u.shard = t.shard /\ u.got.data = st.kvDB[t.shard] /\ u.got.sessions = st.sessions
        <4> HIDE DEF st
        <4> QED BY <2>0 DEF PullOwn
      <3>2. Seen(Agreed, Num, t.from, st)
        BY <2>0, SeenIs
      <3> HIDE DEF st, u
      <3>3. Told(Agreed, st.sessions, Num) /\ Copy(Agreed, st.kvDB[t.shard], st.sessions, t.num, t.shard)
        BY <2>0, <2>3, <3>2 DEF Seen, Follows
      <3> QED BY <3>1, <3>3 DEF PullData
    <2> HIDE DEF u, st
    <2>4. \A k \in T : PullData(Agreed, Num, k)
      BY <1>0, <2>1, <2>2, <2>3
    <2>5. PullsFit
      BY <2>1, <2>4, PullsPut
    <2> QED BY <1>0, <1>2, <2>5, LogSameData DEF MigrateShard, raftVars, Untold
  <1>3. ASSUME NEW t \in pulls[g][s], StartGetShard(g, s, t) PROVE DataInv'
    <2> DEFINE op == [type |-> "GetShard", num |-> t.num, shard |-> t.shard, data |-> t.got.data, sessions |-> t.got.sessions]
               T == pulls[g][s] \ {t}
    <2>1. t.ok /\ StartLog(g, s, op) /\ pulls' = [pulls EXCEPT ![g][s] = T] /\ UNCHANGED clerk
      BY <1>3 DEF StartGetShard
    <2>2. \A k \in T : PullData(Agreed, Num, k)
      BY <1>0
    <2>3. DataFits(Agreed, Num, op) /\ ~IsClientCmd(op)
      BY <1>0, <2>1 DEF PullData, DataFits, IsClientCmd
    <2> HIDE DEF op, T
    <2>4. PullsFit
      BY <2>1, <2>2, PullsPut
    <2>5. Grown(op)
      BY <2>1, GrownStart
    <2> QED BY <1>0, <2>1, <2>3, <2>4, <2>5, ServerQuiet DEF Untold
  <1> QED BY <1>1, <1>2, <1>3 DEF PullStep

-----------------------------------------------------------------------------
\* Where clerks are.

\* A clerk asks a server of the group that its configuration names.
Walk(c, r) ==
  /\ r.config \in 1 .. Len(Config) /\ (r.pc = "query" => r.at = 1)
  /\ r.num <= Len(Script[c]) =>
       LET g == Owner(r.config, key2shard(Script[c][r.num].key))
       IN  /\ IF g = 0 THEN r.at = 1 ELSE g \in Group /\ r.at \in Server(g)
           /\ r.pc \in {"start", "create", "wait"} => g # 0

\* All clerks are there; each has done its first command.
Walks == \A c \in Clerk : Walk(c, clerk[c]) /\ clerk[c].num >= 2

\* The group it asks.
LEMMA GidIs ==
  ASSUME OwnInv, Walks, NEW c \in Clerk, Active(c)
  PROVE  /\ GidOf(c) = Owner(clerk[c].config, key2shard(Script[c][clerk[c].num].key))
         /\ IF GidOf(c) = 0 THEN clerk[c].at = 1 ELSE GidOf(c) \in Group /\ clerk[c].at \in Server(GidOf(c))
         /\ clerk[c].pc \in {"start", "create", "wait"} => GidOf(c) # 0
         /\ clerk[c].num \in DOMAIN Script[c] /\ Request(c) = Command(c, clerk[c].num) /\ clerk[c].num <= Len(Script[c])
         /\ Request(c).key = Script[c][clerk[c].num].key /\ Request(c).type = Script[c][clerk[c].num].type
         /\ Request(c).num = clerk[c].num /\ Request(c).clerk = c
  <1>1. clerk[c].num \in Nat \ {0} /\ clerk[c].num <= Len(Script[c])
    BY ClerkIs DEF IsClerk, Active
  <1>2. clerk[c].num \in DOMAIN Script[c]
    BY <1>1, ScriptIs
  <1>3. Request(c) = Command(c, clerk[c].num) /\ Request(c).key = Script[c][clerk[c].num].key /\ Request(c).type = Script[c][clerk[c].num].type
        /\ Request(c).num = clerk[c].num /\ Request(c).clerk = c
    BY <1>2, CommandIs DEF Request
  <1>4. GidOf(c) = Owner(clerk[c].config, key2shard(Script[c][clerk[c].num].key))
    BY <1>3 DEF GidOf
  <1> QED BY <1>1, <1>2, <1>3, <1>4 DEF Walks, Walk

\* Every group that a configuration names has a first server.
LEMMA OwnerIs ==
  ASSUME NEW n \in 1 .. Len(Config), NEW h \in Shard
  PROVE  Owner(n, h) = 0 \/ (Owner(n, h) \in Group /\ 1 \in Server(Owner(n, h)))
  <1>1. n # 0 /\ Owner(n, h) = Config[n][h] /\ Config[n][h] \in Group \cup {0}
    BY ConfigIs DEF Owner
  <1> QED BY <1>1, ServersIs

\* It begins with the first server, ...
LEMMA FirstServer ==
  ASSUME NEW c \in Clerk, NEW r, r.num \in Nat \ {0}, r.config \in 1 .. Len(Config), r.at = 1, r.pc \notin {"start", "create", "wait"}
  PROVE  Walk(c, r)
  <1> SUFFICES ASSUME r.num <= Len(Script[c])
               PROVE  LET g == Owner(r.config, key2shard(Script[c][r.num].key))
                      IN  IF g = 0 THEN r.at = 1 ELSE g \in Group /\ r.at \in Server(g)
    BY DEF Walk
  <1>1. r.num \in DOMAIN Script[c]
    BY ScriptIs
  <1>2. key2shard(Script[c][r.num].key) \in Shard
    BY <1>1, ScriptIs
  <1> QED BY <1>2, OwnerIs

\* ... goes on to the next ...
LEMMA WalkOn ==
  ASSUME OwnInv, Walks, NEW c \in Clerk, Active(c), GidOf(c) # 0
  PROVE  Walk(c, NextServer(c))
  <1>0. /\ GidOf(c) = Owner(clerk[c].config, key2shard(Script[c][clerk[c].num].key))
        /\ GidOf(c) \in Group /\ clerk[c].at \in Server(GidOf(c)) /\ IsClerk(clerk[c]) /\ clerk[c].config \in 1 .. Len(Config)
    BY GidIs, ClerkIs DEF Walks, Walk
  <1>1. CASE clerk[c].at < NServers[GidOf(c)]
    <2> DEFINE r == NextServer(c)
    <2>1. r.num = clerk[c].num /\ r.config = clerk[c].config /\ r.pc = "call" /\ r.at = clerk[c].at + 1
      BY <1>0, <1>1 DEF NextServer, IsClerk
    <2>2. clerk[c].at + 1 \in Server(GidOf(c))
      BY <1>0, <1>1, ServersIs
    <2> HIDE DEF r
    <2>3. Walk(c, r)
      <3>1. GidOf(c) = Owner(r.config, key2shard(Script[c][r.num].key)) /\ r.at \in Server(GidOf(c)) /\ r.config \in 1 .. Len(Config)
            /\ r.pc = "call" /\ GidOf(c) \in Group
        BY <1>0, <2>1, <2>2
      <3> QED BY <3>1 DEF Walk
    <2> QED BY <2>3 DEF r
  <1>2. CASE ~(clerk[c].at < NServers[GidOf(c)])
    <2> DEFINE r == NextServer(c)
    <2>1. r.num = clerk[c].num /\ r.config = clerk[c].config /\ r.pc = "query" /\ r.at = 1 /\ r.num \in Nat \ {0}
      BY <1>0, <1>2 DEF NextServer, StartOver, IsClerk
    <2> HIDE DEF r
    <2>2. Walk(c, r)
      BY <1>0, <2>1, FirstServer
    <2> QED BY <2>2 DEF r
  <1> QED BY <1>1, <1>2

\* ... or to its next command, ...
LEMMA WalkOver ==
  ASSUME OwnInv, Walks, NEW c \in Clerk, NEW y
  PROVE  Walk(c, StartOver(clerk[c])) /\ Walk(c, Finished(clerk[c], y))
  <1>0. IsClerk(clerk[c]) /\ clerk[c].config \in 1 .. Len(Config) /\ clerk[c].num \in Nat \ {0}
    BY ClerkIs DEF Walks, Walk, IsClerk
  <1>1. PICK r : r = StartOver(clerk[c])
    OBVIOUS
  <1>2. PICK q : q = Finished(clerk[c], y)
    OBVIOUS
  <1>3. r.num = clerk[c].num /\ r.config = clerk[c].config /\ r.at = 1 /\ r.pc = "query"
    BY <1>0, <1>1 DEF IsClerk, StartOver
  <1>4. q.num = clerk[c].num + 1 /\ q.config = clerk[c].config /\ q.at = 1 /\ q.pc = "call"
    BY <1>0, <1>2 DEF IsClerk, Finished
  <1>5. Walk(c, r)
    BY <1>0, <1>3, FirstServer
  <1>6. q.num \in Nat \ {0}
    BY <1>0, <1>4
  <1>7. Walk(c, q)
    BY <1>0, <1>4, <1>6, FirstServer
  <1> QED BY <1>1, <1>2, <1>5, <1>7

\* A clerk's step leaves it somewhere.
LEMMA WalkSet ==
  ASSUME OwnInv, Walks, NEW c \in Clerk, NEW r, clerk' = [clerk EXCEPT ![c] = r], Walk(c, r), r.num >= 2
  PROVE  Walks'
  <1>1. clerk' = [d \in Clerk |-> clerk'[d]] /\ \A d \in Clerk : clerk'[d] = IF d = c THEN r ELSE clerk[d]
    BY DEF OwnInv, Shapes, Clerks
  <1> QED BY <1>1 DEF Walks

\* ... whatever the answer.
LEMMA WalkAnswer ==
  ASSUME OwnInv, Walks, NEW c \in Clerk, Active(c), GidOf(c) # 0, NEW reply, Answer(c, reply)
  PROVE  Walks'
  <1>0. IsClerk(clerk[c]) /\ clerk[c].num >= 2 /\ clerk[c].num \in Nat
    BY ClerkIs DEF Walks, IsClerk
  <1>1. PICK r : clerk' = [clerk EXCEPT ![c] = r] /\ Answered(c, r, reply) /\ IsClerk(r)
    BY <1>0, AnswerIs
  <1>2. Walk(c, r)
    BY <1>1, WalkOn, WalkOver DEF Answered
  <1>3. r.num >= 2
    BY <1>0, <1>1, NextServerIs, StartOverIs, FinishedIs DEF Answered
  <1> QED BY <1>1, <1>2, <1>3, WalkSet

\* A clerk's place stays while it is served.
LEMMA WalkStay ==
  ASSUME OwnInv, Walks, NEW c \in Clerk, Active(c), GidOf(c) # 0, NEW r,
         r.num = clerk[c].num, r.config = clerk[c].config, r.at = clerk[c].at, r.pc # "query"
  PROVE  Walk(c, r)
  BY GidIs DEF Walk, Walks

\* All steps of clerks.
LEMMA WalkClerk ==
  ASSUME OwnInv, Walks, NEW c \in Clerk, ClerkStep(c) \/ LoseCall(c)
  PROVE  Walks'
  <1>0. IsClerk(clerk[c]) /\ clerk[c].num >= 2 /\ clerk[c].num \in Nat \ {0} /\ clerk' = [d \in Clerk |-> clerk'[d]]
    BY ClerkIs, ClerkQuiet DEF Walks, IsClerk, Quiet, Clerks
  <1>1. CASE QueryLatest(c)
    <2> DEFINE r == [clerk[c] EXCEPT !.config = latest, !.pc = "call"]
    <2>1. clerk' = [clerk EXCEPT ![c] = r]
      BY <1>1 DEF QueryLatest
    <2>2. r.num = clerk[c].num /\ r.config = latest /\ r.at = clerk[c].at /\ r.pc = "call"
      BY <1>0 DEF IsClerk
    <2>3. clerk[c].at = 1
      <3>1. CASE clerk[c].pc = "query"
        BY <3>1 DEF Walks, Walk
      <3>2. CASE GidOf(c) = 0
        BY <1>1, <3>2, GidIs DEF QueryLatest
      <3> QED BY <1>1, <3>1, <3>2 DEF QueryLatest
    <2> HIDE DEF r
    <2>4. latest \in 1 .. Len(Config)
      BY DEF OwnInv, Shapes
    <2>5. Walk(c, r)
      BY <1>0, <2>2, <2>3, <2>4, FirstServer
    <2> QED BY <1>0, <2>1, <2>2, <2>5, WalkSet
  <1>2. CASE EnterHandler(c)
    <2>0. Active(c) /\ GidOf(c) # 0
      BY <1>2 DEF EnterHandler
    <2>1. CASE \E reply : Answer(c, reply)
      BY <2>0, <2>1, WalkAnswer
    <2>2. CASE clerk' = [clerk EXCEPT ![c].pc = "start"]
      <3> DEFINE r == [clerk[c] EXCEPT !.pc = "start"]
      <3>1. clerk' = [clerk EXCEPT ![c] = r]
        BY <2>2
      <3>2. r.num = clerk[c].num /\ r.config = clerk[c].config /\ r.at = clerk[c].at /\ r.pc = "start"
        BY <1>0 DEF IsClerk
      <3> HIDE DEF r
      <3>3. Walk(c, r)
        BY <2>0, <3>2, WalkStay
      <3> QED BY <1>0, <3>1, <3>2, <3>3, WalkSet
    <2> QED BY <1>2, <2>1, <2>2 DEF EnterHandler
  <1>3. CASE Start(c)
    <2>0. Active(c) /\ GidOf(c) # 0
      BY <1>3, GidIs DEF Start
    <2>1. CASE \E reply : Answer(c, reply)
      BY <2>0, <2>1, WalkAnswer
    <2>2. ASSUME NEW i, NEW p, p \in {"wait", "create"}, clerk' = [clerk EXCEPT ![c].pc = p, ![c].index = i] PROVE Walks'
      <3> DEFINE r == [clerk[c] EXCEPT !.pc = p, !.index = i]
      <3>1. clerk' = [clerk EXCEPT ![c] = r]
        BY <2>2
      <3>2. r.num = clerk[c].num /\ r.config = clerk[c].config /\ r.at = clerk[c].at /\ r.pc = p
        BY <1>0 DEF IsClerk
      <3> HIDE DEF r
      <3>3. Walk(c, r)
        BY <2>0, <2>2, <3>2, WalkStay
      <3> QED BY <1>0, <3>1, <3>2, <3>3, WalkSet
    <2> QED BY <1>3, <2>1, <2>2 DEF Start
  <1>4. CASE createNotifyCh(c)
    <2>0. Active(c) /\ GidOf(c) # 0
      BY <1>4, GidIs DEF createNotifyCh
    <2> DEFINE r == [clerk[c] EXCEPT !.pc = "wait"]
    <2>1. clerk' = [clerk EXCEPT ![c] = r]
      BY <1>4 DEF createNotifyCh
    <2>2. r.num = clerk[c].num /\ r.config = clerk[c].config /\ r.at = clerk[c].at /\ r.pc = "wait"
      BY <1>0 DEF IsClerk
    <2> HIDE DEF r
    <2>3. Walk(c, r)
      BY <2>0, <2>2, WalkStay
    <2> QED BY <1>0, <2>1, <2>2, <2>3, WalkSet
  <1>5. CASE Receive(c)
    <2>0. Active(c) /\ GidOf(c) # 0
      BY <1>5, GidIs DEF Receive
    <2>1. \E reply : Answer(c, reply)
      BY <1>5 DEF Receive
    <2> QED BY <2>0, <2>1, WalkAnswer
  <1>6. CASE Timeout(c) \/ LoseCall(c)
    <2>0. Active(c) /\ GidOf(c) # 0 /\ clerk' = [clerk EXCEPT ![c] = NextServer(c)]
      BY <1>6, GidIs DEF Timeout, LoseCall
    <2> QED BY <1>0, <2>0, WalkOn, NextServerIs, WalkSet
  <1> QED BY <1>1, <1>2, <1>3, <1>4, <1>5, <1>6 DEF ClerkStep

\* All steps.
LEMMA WalkStep ==
  ASSUME OwnInv, Walks, [Next]_vars
  PROVE  Walks'
  <1>1. CASE UNCHANGED clerk
    BY <1>1 DEF Walks
  <1>2. ASSUME NEW c \in Clerk, ClerkStep(c) \/ LoseCall(c) PROVE Walks'
    BY <1>2, WalkClerk
  <1>3. ASSUME NEW g \in Group, NEW s \in Server(g), Restart(g, s) PROVE Walks'
    <2> SUFFICES ASSUME NEW c \in Clerk PROVE Walk(c, clerk'[c]) /\ clerk'[c].num >= 2
      BY DEF Walks
    <2>0. Walk(c, clerk[c]) /\ clerk[c].num >= 2
      BY DEF Walks
    <2>1. CASE Active(c) /\ clerk[c].pc \in {"start", "create", "wait"} /\ clerk'[c] = NextServer(c)
      BY <2>0, <2>1, GidIs, WalkOn, ClerkIs, NextServerIs
    <2>2. CASE clerk'[c] = clerk[c]
      BY <2>0, <2>2
    <2> QED BY <1>3, <2>1, <2>2 DEF Restart
  <1>4. ASSUME NEW g \in Group, NEW s \in Server(g), NEW i, NEW reply, Notify(g, s, i, reply) PROVE Walks'
    <2> SUFFICES ASSUME NEW c \in Clerk PROVE Walk(c, clerk'[c]) /\ clerk'[c].num >= 2
      BY DEF Walks
    <2>0. Walk(c, clerk[c]) /\ clerk[c].num >= 2
      BY DEF Walks
    <2>1. CASE clerk'[c] = clerk[c]
      BY <2>0, <2>1
    <2>2. CASE clerk'[c] = [clerk[c] EXCEPT !.chan = <<reply>>]
      <3>1. PICK r : r = clerk'[c]
        OBVIOUS
      <3>2. r.num = clerk[c].num /\ r.config = clerk[c].config /\ r.at = clerk[c].at /\ r.pc = clerk[c].pc
        BY <2>2, <3>1, ClerkIs DEF IsClerk
      <3>3. Walk(c, r) /\ r.num >= 2
        BY <2>0, <3>2 DEF Walk
      <3> QED BY <3>1, <3>3
    <2> QED BY <1>4, <2>1, <2>2 DEF Notify
  <1>5. ASSUME NEW g \in Group, NEW s \in Server(g), applyMessage(g, s) PROVE Walks'
    BY <1>1, <1>4, <1>5 DEF applyMessage
  <1>6. ASSUME NEW g \in Group, NEW s \in Server(g),
               Elect(g, s) \/ StepDown(g, s) \/ UpdateStep(g, s) \/ PullStep(g, s) \/ GiveStep(g, s) \/ addEmptyLog(g, s)
        PROVE  UNCHANGED clerk
    BY <1>6 DEF Elect, StepDown, UpdateStep, getLastestConfig, StartUpdate, PullStep, checkAndGetShard, MigrateShard,
                StartGetShard, GiveStep, checkAndFinishGiveShard, AckReceiveShard, addEmptyLog
  <1>7. CASE UNCHANGED vars \/ Publish
    BY <1>1, <1>7 DEF vars, Publish
  <1> QED BY <1>1, <1>2, <1>3, <1>5, <1>6, <1>7 DEF Next

-----------------------------------------------------------------------------
\* Clerks' steps.

\* A clerk's record is replaced by one that fits.
LEMMA ClerkPuts ==
  ASSUME OwnInv, DataInv, Quiet, UNCHANGED pulls, NEW c \in Clerk, NEW r, clerk' = [clerk EXCEPT ![c] = r],
         RecordFits(Agreed, log', c, r),
         \/ r.num = clerk[c].num
         \/ r.num = clerk[c].num + 1 /\ clerk[c].num <= Len(Script[c]) /\ Ran(Agreed, c, clerk[c].num),
         NEW op, Grown(op), DataFits(Agreed, Num, op), IsClientCmd(op) => op.clerk = c
  PROVE  DataInv'
  <1>1. clerk' = [d \in Clerk |-> clerk'[d]] /\ \A d \in Clerk : clerk'[d] = IF d = c THEN r ELSE clerk[d]
    BY DEF OwnInv, Shapes, Clerks
  <1>2. NumStep
    <2>0. \A d \in Clerk : Num[d] = clerk[d].num /\ Num'[d] = clerk'[d].num
      BY DEF Num
    <2>1. CASE r.num = clerk[c].num
      <3>1. \A d \in Clerk : clerk'[d].num = clerk[d].num
        BY <1>1, <2>1
      <3>2. Num' = Num
        BY <3>1 DEF Num
      <3> QED BY <3>2 DEF NumStep
    <2>2. CASE r.num = clerk[c].num + 1 /\ clerk[c].num <= Len(Script[c]) /\ Ran(Agreed, c, clerk[c].num)
      <3>1. clerk[c].num \in DOMAIN Script[c]
        <4>1. clerk[c].num \in Nat \ {0}
          BY ClerkIs DEF IsClerk
        <4> QED BY <2>2, <4>1, ScriptIs
      <3>2. Num'[c] = Num[c] + 1 /\ \A d \in Clerk \ {c} : Num'[d] = Num[d]
        BY <1>1, <2>0, <2>2
      <3>3. Finishes(Num, Num', c) /\ Ran(Agreed, c, Num[c])
        BY <2>0, <2>2, <3>1, <3>2 DEF Finishes
      <3> QED BY <3>3 DEF NumStep
    <2> QED BY <2>1, <2>2
  <1>3. ASSUME NEW d \in Clerk PROVE RecordFits(Agreed, log', d, clerk'[d])
    <2>1. CASE d = c
      BY <1>1, <2>1
    <2>2. CASE d # c
      <3>1. RecordFits(Agreed, log, d, clerk[d]) /\ clerk'[d] = clerk[d]
        BY <1>1, <2>2 DEF DataInv, Records
      <3>2. IsClientCmd(op) => op.clerk # d
        BY <2>2
      <3> QED BY <3>1, <3>2, RecordSame
    <2> QED BY <2>1, <2>2
  <1> QED BY <1>2, <1>3, GrownFit, PullsSame, DataQuiet DEF RecordsFit

\* The servers answer.
LEMMA AnswerData ==
  ASSUME OwnInv, Walks, DataInv, Quiet, UNCHANGED <<log, pulls>>, NEW c \in Clerk, Active(c), NEW reply, Answer(c, reply),
         LET n == clerk[c].num
         IN  reply.err = "OK" \/ (reply.err = "ErrNoKey" /\ Script[c][n].type = "Get") =>
               Ran(Agreed, c, n) /\ (Script[c][n].type = "Get" => reply.value = Written(c, n, Script[c][n].key))
  PROVE  DataInv'
  <1>0. /\ IsClerk(clerk[c]) /\ RecordFits(Agreed, log, c, clerk[c]) /\ clerk[c].num <= Len(Script[c])
        /\ Request(c).type = Script[c][clerk[c].num].type /\ Grown(NoOp) /\ DataFits(Agreed, Num, NoOp) /\ ~IsClientCmd(NoOp)
    BY ClerkIs, GidIs, GrownSame, NoOpIs DEF DataInv, Records
  <1>1. PICK r : clerk' = [clerk EXCEPT ![c] = r] /\ Answered(c, r, reply) /\ IsClerk(r)
    BY <1>0, AnswerIs
  <1>2. CASE r = NextServer(c) \/ r = StartOver(clerk[c])
    <2>1. r.num = clerk[c].num /\ RecordFits(Agreed, log', c, r)
      BY <1>0, <1>2, NextServerDoes, RecordReset
    <2> QED BY <1>0, <1>1, <2>1, ClerkPuts
  <1>3. CASE /\ reply.err = "OK" \/ (reply.err = "ErrNoKey" /\ Request(c).type = "Get")
             /\ r = Finished(clerk[c], reply.value)
    <2>1. /\ r.num = clerk[c].num + 1 /\ r.got = reply.value /\ r.pc \notin {"create", "wait"} /\ r.chan = <<>>
      BY <1>0, <1>3, FinishedDoes
    <2>2. /\ Ran(Agreed, c, clerk[c].num)
          /\ Script[c][clerk[c].num].type = "Get" => r.got = Written(c, clerk[c].num, Script[c][clerk[c].num].key)
      BY <1>0, <1>3, <2>1
    <2>3. RecordFits(Agreed, log', c, r)
      BY <1>0, <2>1, <2>2, RecordFinished
    <2> QED BY <1>0, <1>1, <2>1, <2>2, <2>3, ClerkPuts
  <1> QED BY <1>1, <1>2, <1>3 DEF Answered

\* Its record fits as another that says the same.
LEMMA RecordTurn ==
  ASSUME NEW w, NEW c \in Clerk, NEW r, RecordFits(w, log, c, r), NEW q, q.num = r.num, q.got = r.got, q.chan = r.chan,
         NEW logs, r.num <= Len(Script[c]) /\ q.pc \in {"create", "wait"} => Placed(logs, c, q)
  PROVE  RecordFits(w, logs, c, q)
  BY DEF RecordFits, Heard

\* A handler that finds the command in the session answers right.
LEMMA EnterData == ASSUME OwnInv, Walks, DataInv, NEW c \in Clerk, EnterHandler(c) PROVE DataInv'
  <1>0. Active(c) /\ GidOf(c) # 0 /\ UNCHANGED <<log, pulls>> /\ Quiet
    <2>1. Quiet
      BY ClerkQuiet DEF ClerkStep
    <2> QED BY <2>1 DEF EnterHandler, NotTheServers, raftVars, loopVars
  <1> DEFINE g == GidOf(c)
             s == clerk[c].at
             st == sm[g][s]
             n == clerk[c].num
             session == st.sessions[c]
  <1>1. /\ g \in Group /\ s \in Server(g) /\ n \in DOMAIN Script[c] /\ Request(c).type = Script[c][n].type
        /\ Request(c).num = n /\ Request(c).clerk = c
    BY <1>0, GidIs
  <1>2. Told(Agreed, st.sessions, Num) /\ Num[c] = n
    BY <1>1, SeenIs DEF Seen, Num
  <1>3. CASE Answer(c, Error("ErrWrongGroup"))
    <2>1. Error("ErrWrongGroup").err = "ErrWrongGroup"
      BY DEF Error
    <2> QED BY <1>0, <1>3, <2>1, AnswerData
  <1>4. ASSUME IsRepeated(st, Request(c)), Answer(c, Error(IF n = session.num THEN session.err ELSE ""))
        PROVE  DataInv'
    <2> DEFINE reply == Error(IF n = session.num THEN session.err ELSE "")
    <2>1. Script[c][n].type # "Get"
      BY <1>1, <1>4 DEF IsRepeated
    <2>2. reply.err = "OK" => n = session.num
      BY DEF Error
    <2>3. n = session.num => Ran(Agreed, c, n)
      BY <1>2 DEF Told
    <2>4. Answer(c, reply)
      BY <1>4
    <2> HIDE DEF reply, session, st
    <2> QED BY <1>0, <2>1, <2>2, <2>3, <2>4, AnswerData
  <1>5. CASE clerk' = [clerk EXCEPT ![c].pc = "start"]
    <2> DEFINE r == [clerk[c] EXCEPT !.pc = "start"]
    <2>1. clerk' = [clerk EXCEPT ![c] = r]
      BY <1>5
    <2>2. r.num = clerk[c].num /\ r.got = clerk[c].got /\ r.chan = clerk[c].chan /\ r.pc = "start"
      BY ClerkIs DEF IsClerk
    <2> HIDE DEF r
    <2>3. RecordFits(Agreed, log', c, r)
      BY <2>2, RecordTurn DEF DataInv, Records
    <2> QED BY <1>0, <2>1, <2>2, <2>3, ClerkPuts, GrownSame, NoOpIs
  <1> HIDE DEF st, session, g, s, n
  <1> QED BY <1>3, <1>4, <1>5 DEF EnterHandler, st, session, g, s, n

\* A handler proposes the command, or not.
LEMMA StartData == ASSUME OwnInv, Walks, DataInv, NEW c \in Clerk, Start(c) PROVE DataInv'
  <1> DEFINE g == GidOf(c)
             s == clerk[c].at
             n == clerk[c].num
             op == Request(c)
  <1>0. /\ Active(c) /\ UNCHANGED <<pulls, commit>> /\ Quiet /\ StartLog(g, s, op)
        /\ g = Owner(clerk[c].config, key2shard(Script[c][n].key)) /\ n \in DOMAIN Script[c] /\ op = Command(c, n) /\ n <= Len(Script[c])
        /\ g \in Group /\ op.clerk = c /\ IsClerk(clerk[c]) /\ RecordFits(Agreed, log, c, clerk[c])
    <2>1. Quiet
      BY ClerkQuiet DEF ClerkStep
    <2>2. Active(c) /\ clerk[c].pc = "start" /\ UNCHANGED <<pulls, commit>> /\ StartLog(g, s, op)
      BY DEF Start, loopVars
    <2> QED BY <2>1, <2>2, GidIs, ClerkIs DEF DataInv, Records
  <1>1. Grown(op) /\ DataFits(Agreed, Num, op)
    <2>1. Nums(Num) /\ Num[c] = n
      BY NumIs DEF DataInv
    <2> QED BY <1>0, <2>1, GrownStart, CommandFits
  <1>2. CASE ~IsLeader(g, s)
    <2>1. UNCHANGED log
      BY <1>0, <1>2 DEF StartLog
    <2>2. Answer(c, Error("ErrWrongLeader")) /\ Error("ErrWrongLeader").err = "ErrWrongLeader"
      BY <1>2 DEF Start, Error
    <2> QED BY <1>0, <2>1, <2>2, AnswerData
  <1>3. CASE IsLeader(g, s)
    <2> DEFINE i == StartIndex(g, s)
    <2>1. PICK p \in {"wait", "create"} : clerk' = [clerk EXCEPT ![c].pc = p, ![c].index = i]
      BY <1>3 DEF Start
    <2>2. i = 0 \/ i = Len(log[g]) + 1
      BY DEF StartIndex, Nowhere
    <2> HIDE DEF i
    <2> DEFINE r == [clerk[c] EXCEPT !.pc = p, !.index = i]
    <2>3. clerk' = [clerk EXCEPT ![c] = r]
      BY <2>1
    <2>4. r.num = n /\ r.got = clerk[c].got /\ r.chan = clerk[c].chan /\ r.index = i /\ r.config = clerk[c].config
      BY <1>0 DEF IsClerk
    <2> HIDE DEF r
    <2>5. Placed(log', c, r)
      <3> SUFFICES ASSUME g = Owner(r.config, key2shard(Script[c][r.num].key)), i \in 1 .. Len(log'[g])
                   PROVE  log'[g][i].op = Command(c, n)
        BY <1>0, <2>4 DEF Placed
      <3>1. Len(log[g]) \in Nat
        BY <1>0, LogIs DEF OwnInv, Shapes
      <3>2. ~(i \in 1 .. Len(log[g]))
        BY <2>2, <3>1
      <3>3. log'[g][i].op = op
        BY <1>0, <1>1, <3>2 DEF Grown
      <3> QED BY <1>0, <3>3
    <2>6. RecordFits(Agreed, log', c, r)
      BY <1>0, <2>4, <2>5, RecordTurn
    <2> HIDE DEF op, g, s
    <2> QED BY <1>0, <1>1, <2>3, <2>4, <2>6, ClerkPuts
  <1> QED BY <1>2, <1>3

\* All steps of clerks.
LEMMA ClerkData == ASSUME OwnInv, Walks, DataInv, NEW c \in Clerk, ClerkStep(c) \/ LoseCall(c) PROVE DataInv'
  <1>0. IsClerk(clerk[c]) /\ RecordFits(Agreed, log, c, clerk[c]) /\ Quiet /\ NoOp = NoOp
    BY ClerkIs, ClerkQuiet DEF DataInv, Records
  <1>1. CASE QueryLatest(c)
    <2> DEFINE r == [clerk[c] EXCEPT !.config = latest, !.pc = "call"]
    <2>1. clerk' = [clerk EXCEPT ![c] = r] /\ UNCHANGED <<log, pulls>>
      BY <1>1 DEF QueryLatest, NotTheServers, raftVars, loopVars
    <2>2. r.num = clerk[c].num /\ r.got = clerk[c].got /\ r.chan = clerk[c].chan /\ r.pc = "call"
      BY <1>0 DEF IsClerk
    <2> HIDE DEF r
    <2>3. RecordFits(Agreed, log', c, r)
      BY <1>0, <2>2, RecordTurn
    <2> QED BY <1>0, <2>1, <2>2, <2>3, ClerkPuts, GrownSame, NoOpIs
  <1>2. CASE EnterHandler(c)
    BY <1>2, EnterData
  <1>3. CASE Start(c)
    BY <1>3, StartData
  <1>4. CASE createNotifyCh(c)
    <2> DEFINE r == [clerk[c] EXCEPT !.pc = "wait"]
    <2>1. clerk' = [clerk EXCEPT ![c] = r] /\ UNCHANGED <<log, pulls>> /\ clerk[c].pc = "create"
      BY <1>4 DEF createNotifyCh, NotTheServers, raftVars, loopVars
    <2>2. r.num = clerk[c].num /\ r.got = clerk[c].got /\ r.chan = clerk[c].chan /\ r.config = clerk[c].config /\ r.index = clerk[c].index
      BY <1>0 DEF IsClerk
    <2> HIDE DEF r
    <2>3. clerk[c].num <= Len(Script[c]) => Placed(log, c, clerk[c])
      BY <1>0, <2>1 DEF RecordFits
    <2>4. clerk[c].num <= Len(Script[c]) => Placed(log', c, r)
      BY <2>1, <2>2, <2>3 DEF Placed
    <2>5. RecordFits(Agreed, log', c, r)
      BY <1>0, <2>2, <2>4, RecordTurn
    <2> QED BY <1>0, <2>1, <2>2, <2>5, ClerkPuts, GrownSame, NoOpIs
  <1>5. CASE Receive(c)
    <2> DEFINE st == sm[GidOf(c)][clerk[c].at]
               reply == IF checkKeyInGroup(st, Request(c).key) THEN Head(clerk[c].chan) ELSE Error("ErrWrongGroup")
    <2>1. Active(c) /\ clerk[c].chan # <<>> /\ Answer(c, reply) /\ UNCHANGED <<log, pulls>>
      BY <1>5 DEF Receive, NotTheServers, raftVars, loopVars
    <2>2. reply = Head(clerk[c].chan) \/ reply.err = "ErrWrongGroup"
      BY DEF Error
    <2> HIDE DEF reply
    <2>3. Heard(Agreed, c, clerk[c])
      BY <1>0, <2>1, GidIs DEF RecordFits
    <2> QED BY <1>0, <2>1, <2>2, <2>3, AnswerData DEF Heard
  <1>6. CASE Timeout(c) \/ LoseCall(c)
    <2>1. clerk' = [clerk EXCEPT ![c] = NextServer(c)] /\ UNCHANGED <<log, pulls>>
      BY <1>6 DEF Timeout, LoseCall, NotTheServers, raftVars, loopVars
    <2>2. NextServer(c).num = clerk[c].num /\ RecordFits(Agreed, log', c, NextServer(c))
      BY <1>0, NextServerDoes, RecordReset
    <2> QED BY <1>0, <2>1, <2>2, ClerkPuts, GrownSame, NoOpIs
  <1> QED BY <1>1, <1>2, <1>3, <1>4, <1>5, <1>6 DEF ClerkStep

-----------------------------------------------------------------------------
\* applyMessage.

\* The command at the index where a clerk's handler waits, if it was proposed in the term
\* in which the server leads, is the clerk's.  The code keeps a channel per index
\* (server.go:105-111) and compares nothing: a leader that lost the office and won it
\* again may have another clerk's command there.
IndexesOwn ==
  \A c \in Clerk :
    LET g == GidOf(c)
        i == clerk[c].index
    IN  /\ Active(c) /\ clerk[c].pc = "wait" /\ i \in DOMAIN log[g] /\ log[g][i].term = belief[g][clerk[c].at]
        /\ IsClientCmd(log[g][i].op)
        => log[g][i].op.clerk = c

\* A write that a group executes where it has the shard is in its sessions.
LEMMA ClientRuns ==
  ASSUME NEW st, IsState(st), NEW c \in Clerk, NEW n \in DOMAIN Script[c], Script[c][n].type # "Get",
         st.owned[key2shard(Script[c][n].key)] = "Exist", NEW x, x = executeClientCmd(st, Command(c, n))
  PROVE  x.sessions[c].num >= n
  <1>0. /\ Command(c, n).type = Script[c][n].type /\ Command(c, n).key = Script[c][n].key
        /\ Command(c, n).clerk = c /\ Command(c, n).num = n /\ n \in Nat /\ n >= 1
    BY CommandIs
  <1>1. st.sessions[c].num \in Nat /\ st.sessions \in Sessions /\ DOMAIN st = {"cur", "pre", "owned", "kvDB", "sessions"}
    <2>1. DOMAIN st = {"cur", "pre", "owned", "kvDB", "sessions"}
      <3>1. st = [cur |-> st.cur, pre |-> st.pre, owned |-> st.owned, kvDB |-> st.kvDB, sessions |-> st.sessions]
        BY DEF IsState
      <3>2. PICK y : y = [cur |-> st.cur, pre |-> st.pre, owned |-> st.owned, kvDB |-> st.kvDB, sessions |-> st.sessions]
        OBVIOUS
      <3>3. DOMAIN y = {"cur", "pre", "owned", "kvDB", "sessions"}
        BY <3>2
      <3> QED BY <3>1, <3>2, <3>3
    <2> QED BY <2>1, StateIs DEF IsState
  <1>2. CASE IsRepeated(st, Command(c, n))
    <2>1. n <= st.sessions[c].num /\ x = st
      BY <1>0, <1>2 DEF IsRepeated, executeClientCmd
    <2> QED BY <1>0, <1>1, <2>1
  <1>3. CASE ~IsRepeated(st, Command(c, n))
    <2> DEFINE h == key2shard(Script[c][n].key)
               new == <<c, n>>
               err == ClientReply(st, Command(c, n)).err
               db == [st.kvDB EXCEPT ![h] = [st.kvDB[h] EXCEPT ![Script[c][n].key] =
                        IF Script[c][n].type = "Put" THEN <<new>> ELSE Append(st.kvDB[h][Script[c][n].key], new)]]
    <2>1. checkKeyInGroup(st, Command(c, n).key)
      BY <1>0 DEF checkKeyInGroup
    <2>2. x.sessions = [st.sessions EXCEPT ![c] = [num |-> n, err |-> err]]
      BY <1>0, <1>1, <1>3, <2>1 DEF executeClientCmd
    <2> HIDE DEF err
    <2>3. x.sessions[c] = [num |-> n, err |-> err]
      BY <1>1, <2>2 DEF Sessions
    <2> QED BY <1>0, <2>3
  <1> QED BY <1>2, <1>3

\* What a clerk is told is right, and it is told when its command has been executed.
LEMMA HeardNew ==
  ASSUME OwnInv, NEW g \in Group, NEW j \in Nat, NEW c \in Clerk, NEW n \in DOMAIN Script[c],
         NEW st, st = Replay(g, log[g], j), IsState(st), NEW x, x = Replay(g, log[g], j + 1), NEW op, op = log[g][j + 1].op,
         op = Command(c, n), checkKeyInGroup(st, op.key), Reads(st, op, c, n),
         NEW w, NEW N, N[c] = n, Told(w, x.sessions, N), NEW r, r.num = n, r.chan = <<ClientReply(st, op)>>
  PROVE  Heard(w, c, r)
  <1> DEFINE h == key2shard(Script[c][n].key)
  <1>0. /\ op.type = Script[c][n].type /\ op.key = Script[c][n].key
        /\ op.clerk = c /\ op.num = n /\ n \in Nat /\ n >= 1 /\ IsClientCmd(op)
    BY CommandIs
  <1>1. st.owned[h] = "Exist"
    BY <1>0 DEF checkKeyInGroup
  <1>2. CASE Script[c][n].type = "Get"
    <2>1. Ran(w, c, n)
      BY <1>2 DEF Ran, Write
    <2>2. Head(r.chan) = ClientReply(st, op)
      OBVIOUS
    <2>3. ~IsRepeated(st, op)
      BY <1>0, <1>2 DEF IsRepeated
    <2>4. ClientReply(st, op).value = st.kvDB[h][Script[c][n].key]
      BY <1>0, <1>2, <2>3 DEF ClientReply
    <2>5. st.kvDB[h][Script[c][n].key] = Written(c, n, Script[c][n].key)
      BY <1>1, <1>2 DEF Reads
    <2> QED BY <2>1, <2>2, <2>4, <2>5 DEF Heard
  <1>3. CASE Script[c][n].type # "Get"
    <2>1. x = Execute(g, st, op)
      <3>1. Replay(g, log[g], j + 1) = Execute(g, Replay(g, log[g], j), log[g][j + 1].op)
        BY ReplayNext, Zenon
      <3> QED BY <3>1, Zenon
    <2>2. x = executeClientCmd(st, Command(c, n))
      BY <1>0, <2>1 DEF Execute
    <2>3. x.sessions[c].num >= n
      BY <1>1, <1>3, <2>2, ClientRuns
    <2>4. x.sessions[c].num \in DOMAIN Script[c] \cup {0} /\ x.sessions[c].num <= n /\ (x.sessions[c].num = n => Ran(w, c, n))
      BY DEF Told
    <2>5. x.sessions[c].num \in Nat
      BY <2>4, ScriptIs
    <2>6. Ran(w, c, n)
      BY <1>0, <2>3, <2>4, <2>5
    <2> QED BY <1>3, <2>6 DEF Heard
  <1> QED BY <1>2, <1>3

\* What is known once the entry has been executed.
Known(w, g, j) ==
  /\ \A c \in Clerk : Ran(Agreed, c, Num[c]) => Ran(w, c, Num[c])
  /\ Told(w, Replay(g, log[g], j + 1).sessions, Num)
  /\ \A c \in Clerk : Reads(Replay(g, log[g], j), log[g][j + 1].op, c, Num[c])

\* Clerks' records fit after applyMessage.
LEMMA ApplyRecords ==
  ASSUME OwnInv, Walks, DataInv, IndexesOwn, NEW g \in Group, NEW s \in Server(g), applyMessage(g, s), Known(Agreed', g, applied[g][s])
  PROVE  Num' = Num /\ Records'
  <1> DEFINE j == applied[g][s]
             i == j + 1
             op == log[g][i].op
             st == sm[g][s]
  <1>0. /\ i \in Nat /\ i >= 1 /\ i <= Len(log[g]) /\ j \in Nat /\ st = Replay(g, log[g], j) /\ IsState(st)
        /\ sm'[g][s] = Replay(g, log[g], i) /\ UNCHANGED log /\ DOMAIN log[g] = 1 .. Len(log[g]) /\ i \in DOMAIN log[g] /\ i \in 1 .. Len(log[g])
    <2>1. /\ i \in Nat /\ i >= 1 /\ i <= Len(log[g]) /\ i - 1 = j /\ st = Replay(g, log[g], i - 1) /\ sm'[g][s] = Replay(g, log[g], i)
      BY ApplyIs
    <2>2. j \in Nat
      <3>1. j \in 0 .. commit[g] /\ commit[g] \in Nat
        BY CommitIs DEF OwnInv, Runs
      <3> QED BY <3>1
    <2>3. DOMAIN log[g] = 1 .. Len(log[g]) /\ Len(log[g]) \in Nat
      BY LogIs DEF OwnInv, Shapes
    <2> HIDE DEF st
    <2>4. i \in 1 .. Len(log[g])
      BY <2>1, <2>3
    <2> QED BY <2>1, <2>2, <2>3, <2>4, StateOf DEF applyMessage, st
  <1>1. ASSUME NEW c \in Clerk, NEW q, q.num = clerk[c].num, q.chan = clerk[c].chan, RecordFits(Agreed, log, c, clerk[c]), q = clerk[c]
        PROVE  RecordFits(Agreed', log, c, q)
    <2>1. Num[c] = clerk[c].num
      BY DEF Num
    <2> QED BY <1>1, <2>1 DEF RecordFits, Heard, Known
  <1>2. ASSUME NEW c \in Clerk, Active(c), clerk[c].pc = "wait", GidOf(c) = g, clerk[c].index = i, clerk[c].at = s,
               log[g][i].term = belief[g][s], IsClientCmd(op), checkKeyInGroup(st, op.key),
               NEW q, q = [clerk[c] EXCEPT !.chan = <<ClientReply(st, op)>>]
        PROVE  RecordFits(Agreed', log, c, q) /\ q.num = clerk[c].num
    <2>0. /\ IsClerk(clerk[c]) /\ RecordFits(Agreed, log, c, clerk[c]) /\ Num[c] = clerk[c].num
          /\ g = Owner(clerk[c].config, key2shard(Script[c][clerk[c].num].key))
          /\ clerk[c].num \in DOMAIN Script[c] /\ clerk[c].num <= Len(Script[c])
      BY <1>2, ClerkIs, GidIs DEF DataInv, Records, Num
    <2>1. /\ q.num = clerk[c].num /\ q.pc = "wait" /\ q.config = clerk[c].config /\ q.index = i /\ q.got = clerk[c].got
          /\ q.chan = <<ClientReply(st, op)>>
      <3> HIDE DEF i, st, op
      <3> QED BY <1>2, <2>0 DEF IsClerk
    <2>2. Placed(log, c, clerk[c])
      BY <1>2, <2>0 DEF RecordFits
    <2>3. op.clerk = c
      BY <1>0, <1>2 DEF IndexesOwn
    <2>4. op = Command(c, clerk[c].num)
      BY <1>0, <1>2, <2>0, <2>2, <2>3 DEF Placed
    <2>5. Told(Agreed', Replay(g, log[g], j + 1).sessions, Num) /\ Reads(st, op, c, clerk[c].num)
      BY <1>0, <2>0 DEF Known
    <2>6. Heard(Agreed', c, q)
      <3>1. PICK w : w = Agreed'
        OBVIOUS
      <3>2. PICK x : x = Replay(g, log[g], j + 1)
        OBVIOUS
      <3>3. PICK y : y = op
        OBVIOUS
      <3>4. PICK z : z = st
        OBVIOUS
      <3>5. PICK k : k = j
        OBVIOUS
      <3>6. PICK n : n = clerk[c].num
        OBVIOUS
      <3>7. n \in DOMAIN Script[c] /\ Num[c] = n /\ q.num = n
        BY <2>0, <2>1, <3>6
      <3>8. y = Command(c, n) /\ y = log[g][k + 1].op
        BY <2>4, <3>3, <3>5, <3>6
      <3>9. z = Replay(g, log[g], k) /\ IsState(z) /\ k \in Nat
        BY <1>0, <3>4, <3>5
      <3>10. x = Replay(g, log[g], k + 1) /\ Told(w, x.sessions, Num)
        BY <2>5, <3>1, <3>2, <3>5
      <3>11. Reads(z, y, c, n)
        BY <2>5, <3>3, <3>4, <3>6
      <3>12. checkKeyInGroup(z, y.key) /\ q.chan = <<ClientReply(z, y)>>
        BY <1>2, <2>1, <3>3, <3>4
      <3> HIDE DEF st, j, op, i
      <3>13. Heard(w, c, q)
        BY <3>7, <3>8, <3>9, <3>10, <3>11, <3>12, HeardNew
      <3> QED BY <3>1, <3>13
    <2>7. Placed(log, c, q)
      BY <1>2, <2>1, <2>2 DEF Placed
    <2> HIDE DEF i, st, op
    <2> QED BY <2>0, <2>1, <2>6, <2>7 DEF RecordFits
  <1> HIDE DEF st, op
  <1>3. \A c \in Clerk : \/ clerk'[c] = clerk[c]
                         \/ /\ Active(c) /\ clerk[c].pc = "wait" /\ GidOf(c) = g /\ clerk[c].index = i /\ clerk[c].at = s
                            /\ log[g][i].term = belief[g][s] /\ IsClientCmd(op) /\ checkKeyInGroup(st, op.key)
                            /\ clerk'[c] = [clerk[c] EXCEPT !.chan = <<ClientReply(st, op)>>]
    <2>1. CASE UNCHANGED clerk
      BY <2>1
    <2>2. CASE IsClientCmd(op) /\ checkKeyInGroup(st, op.key) /\ Notify(g, s, i, ClientReply(st, op))
      <3> HIDE DEF i
      <3> QED BY <2>2 DEF Notify
    <2> QED BY <2>1, <2>2 DEF applyMessage, st, op
  <1> HIDE DEF i, j
  <1>4. ASSUME NEW c \in Clerk PROVE RecordFits(Agreed', log', c, clerk'[c]) /\ clerk'[c].num = clerk[c].num
    <2>1. RecordFits(Agreed, log, c, clerk[c]) /\ log' = log
      BY <1>0 DEF DataInv, Records
    <2>2. CASE clerk'[c] = clerk[c]
      BY <1>1, <2>1, <2>2
    <2>3. CASE clerk'[c] # clerk[c]
      BY <1>2, <1>3, <2>1, <2>3
    <2> QED BY <2>2, <2>3
  <1>5. Num' = Num
    BY <1>4 DEF Num
  <1> QED BY <1>4, <1>5 DEF Records

\* A server executes again what was committed before.
LEMMA ApplyOldData ==
  ASSUME OwnInv, Walks, DataInv, IndexesOwn, NEW g \in Group, NEW s \in Server(g), applyMessage(g, s),
         applied[g][s] + 1 <= commit[g], commit' = commit
  PROVE  DataInv'
  <1> DEFINE j == applied[g][s]
  <1>1. log' = log /\ pulls' = pulls /\ commit' = commit
    BY DEF applyMessage, loopVars
  <1>2. Agreed' = Agreed
    BY <1>1 DEF Agreed
  <1>3. j \in 0 .. commit[g] /\ commit[g] \in Nat
    BY CommitIs DEF OwnInv, Runs
  <1>4. j \in 0 .. commit[g] - 1 /\ j + 1 \in 0 .. commit[g]
    BY <1>3
  <1>5. Known(Agreed, g, j)
    <2> HIDE DEF j
    <2>1. Told(Agreed, Replay(g, log[g], j + 1).sessions, Num)
      BY <1>4 DEF DataInv, Memory, Seen
    <2>2. \A c \in Clerk : Reads(Replay(g, log[g], j), log[g][j + 1].op, c, Num[c])
      BY <1>4 DEF DataInv, ReadsDone
    <2> QED BY <2>1, <2>2 DEF Known
  <1>6. Num' = Num /\ Records'
    BY <1>2, <1>5, ApplyRecords
  <1>7. Facts(Agreed, Num)' /\ Memory' /\ ReadsDone' /\ LogsData' /\ PullsData'
    BY <1>1, <1>2, <1>6 DEF DataInv, Memory, ReadsDone, LogsData, PullsData
  <1> QED BY <1>6, <1>7 DEF DataInv

-----------------------------------------------------------------------------
\* A group executes an entry for the first time.

\* A Get reads all that the clerk wrote.
LEMMA ReadsNew ==
  ASSUME NEW w, World(w), NEW N, Facts(w, N), Nums(N), NEW g \in Group, NEW op, NEW c \in Clerk
  PROVE  Reads(w[g], op, c, N[c])
  <1> DEFINE n == N[c]
             key == Script[c][n].key
             h == key2shard(key)
  <1> SUFFICES ASSUME n \in DOMAIN Script[c], Script[c][n].type = "Get", w[g].owned[h] = "Exist"
               PROVE  w[g].kvDB[h][key] = Written(c, n, key)
    BY DEF Reads
  <1>1. h \in Shard
    BY ScriptIs
  <1>2. key \in KeysFrom(c, h)
    BY DEF KeysFrom
  <1>3. ~Write(c, n, h)
    BY DEF Write
  <1> HIDE DEF n, key, h
  <1>4. Fresh(w[g], c, h, n)
    <2>1. w[g].cur \in 1 .. Len(Config) /\ Config[w[g].cur][h] = g /\ Newest(w, w[g].cur, h)
      BY <1>1, ExistNewest
    <2> QED BY <1>1, <2>1 DEF Facts, n
  <1>5. w[g].kvDB[h][key] = Written(c, IF w[g].sessions[c].num = n THEN n ELSE n - 1, key)
    BY <1>2, <1>4 DEF Fresh
  <1>6. Written(c, n, key) = Written(c, n - 1, key)
    BY <1>2, <1>3, NotWritten
  <1> QED BY <1>5, <1>6

\* What was seen before is still right.
LEMMA SeenKept ==
  ASSUME NEW w, NEW N, NEW g, NEW op, NEW x, NEW v, Carries(w, N, g, op, x, v),
         NEW q \in Group, NEW st, Later(st, w[q]), IsState(st), Seen(w, N, q, st), \A p \in Group : IsState(w[p])
  PROVE  Seen(v, N, q, st)
  <1>1. Told(v, st.sessions, N)
    BY ToldKept DEF Seen
  <1>2. ASSUME NEW h \in Shard, st.cur \in 2 .. Len(Config), Config[st.cur - 1][h] = q, Config[st.cur][h] # q
        PROVE  Copy(v, st.kvDB[h], st.sessions, st.cur, h)
    <2>1. PICK m : m = st.cur
      OBVIOUS
    <2>2. PICK r : r = Config[m][h]
      OBVIOUS
    <2>3. w[q].cur >= m
      BY <2>1, StateIs DEF Later
    <2>4. Awaits(w, r, m, h)
      BY <1>2, <2>1, <2>2, <2>3 DEF Awaits, Follows
    <2>5. PICK data : data = st.kvDB[h]
      OBVIOUS
    <2>6. PICK sess : sess = st.sessions
      OBVIOUS
    <2>7. Copy(w, data, sess, m, h)
      BY <1>2, <2>1, <2>5, <2>6 DEF Seen
    <2>8. Copy(v, data, sess, m, h)
      BY <2>4, <2>7, CopyKept
    <2> QED BY <2>1, <2>5, <2>6, <2>8
  <1> QED BY <1>1, <1>2 DEF Seen

\* The state it makes is a past state.
LEMMA SeenNew ==
  ASSUME NEW w, NEW N, NEW g, NEW op, NEW x, NEW v, Carries(w, N, g, op, x, v)
  PROVE  Seen(v, N, g, x)
  <1>1. Told(v, x.sessions, N) /\ v[g] = x
    BY ToldNew, CarriesIs
  <1>2. \A h \in Shard : Config[x.cur - 1][h] = g => Copy(v, x.kvDB[h], x.sessions, x.cur, h)
    BY <1>1 DEF Copy, Covers
  <1> QED BY <1>1, <1>2 DEF Seen

\* What is fetched and what is in logs goes on to fit.
LEMMA ApplyCarries ==
  ASSUME OwnInv, OneChange, DataInv, PrivateKeys, NEW g \in Group, NEW s \in Server(g), applyMessage(g, s),
         applied[g][s] + 1 = commit[g] + 1, commit' = [commit EXCEPT ![g] = applied[g][s] + 1], sm[g][s] = Agreed[g]
  PROVE  Carries(Agreed, Num, g, log[g][applied[g][s] + 1].op, sm'[g][s], Agreed')
  <1> DEFINE i == applied[g][s] + 1
             op == log[g][i].op
             x == sm'[g][s]
  <1>1. Moves(Agreed, g, op, x, Agreed')
    BY ApplyMoves
  <1>2. Nums(Num) /\ Facts(Agreed, Num) /\ World(Agreed)
    BY NumIs DEF DataInv, OwnInv
  <1>3. DataFits(Agreed, Num, op)
    <2>1. i \in Nat /\ i >= 1 /\ i <= Len(log[g])
      BY ApplyIs
    <2>2. Len(log[g]) \in Nat
      BY CommitIs DEF OwnInv
    <2> HIDE DEF i
    <2>3. i \in 1 .. Len(log[g])
      BY <2>1, <2>2
    <2> QED BY <2>3 DEF DataInv, LogsData
  <1> HIDE DEF i, op, x
  <1> QED BY <1>1, <1>2, <1>3 DEF Carries, op, x, i

\* It keeps the invariant.
LEMMA ApplyNewData ==
  ASSUME OwnInv, OneChange, Walks, DataInv, IndexesOwn, PrivateKeys, NEW g \in Group, NEW s \in Server(g), applyMessage(g, s),
         applied[g][s] + 1 = commit[g] + 1, commit' = [commit EXCEPT ![g] = applied[g][s] + 1], sm[g][s] = Agreed[g]
  PROVE  DataInv'
  <1> DEFINE j == applied[g][s]
             ope == log[g][j + 1].op
  <1>1. PICK x : x = sm'[g][s]
    OBVIOUS
  <1>2. PICK v : v = Agreed'
    OBVIOUS
  <1>3. PICK w : w = Agreed
    OBVIOUS
  <1>4. PICK N : N = Num
    OBVIOUS
  <1>5. PICK op : op = ope
    OBVIOUS
  <1>6. Carries(w, N, g, op, x, v)
    BY <1>1, <1>2, <1>3, <1>4, <1>5, ApplyCarries
  <1>7. log' = log /\ pulls' = pulls /\ commit = [q \in Group |-> commit[q]]
    BY DEF applyMessage, loopVars, OwnInv, Shapes
  <1>8. /\ j \in Nat /\ j = commit[g] /\ Replay(g, log[g], j) = w[g] /\ Replay(g, log[g], j + 1) = x
        /\ commit'[g] = j + 1 /\ \A q \in Group \ {g} : commit'[q] = commit[q]
    <2>1. j \in 0 .. commit[g] /\ commit[g] \in Nat /\ j + 1 = commit[g] + 1
      BY CommitIs DEF OwnInv, Runs
    <2>2. Replay(g, log[g], j + 1) = x
      BY <1>1, ApplyIs
    <2>3. Replay(g, log[g], j) = sm[g][s]
      BY DEF OwnInv, Runs
    <2>4. j \in Nat /\ j = commit[g]
      BY <2>1
    <2>5. commit'[g] = j + 1 /\ \A q \in Group \ {g} : commit'[q] = commit[q]
      BY <1>7
    <2> HIDE DEF j
    <2> QED BY <1>3, <2>2, <2>3, <2>4, <2>5
  <1> HIDE DEF j
  <1>9. World(w) /\ Facts(w, N) /\ Nums(N)
    BY <1>6, CarriesIs
  <1>10. \A c \in Clerk : Reads(w[g], op, c, N[c])
    BY <1>9, ReadsNew
  <1>11. Known(v, g, j)
    <2>1. \A c \in Clerk : Ran(w, c, N[c]) => Ran(v, c, N[c])
      BY <1>6, RanKept
    <2>2. Told(v, x.sessions, N)
      BY <1>6, ToldNew
    <2> QED BY <1>3, <1>4, <1>5, <1>8, <1>10, <2>1, <2>2 DEF Known
  <1>12. Num' = Num /\ Records'
    BY <1>2, <1>11, ApplyRecords DEF j
  <1>13. Facts(v, N)
    BY <1>6, FactsKept
  <1>14. ASSUME NEW q \in Group, NEW k \in 0 .. commit'[q] PROVE Seen(v, N, q, Replay(q, log[q], k))
    <2>1. commit[q] \in Nat
      BY CommitIs DEF OwnInv
    <2>2. CASE k \in 0 .. commit[q]
      <3> DEFINE st == Replay(q, log[q], k)
      <3>1. IsState(st) /\ Later(st, w[q]) /\ \A p \in Group : IsState(w[p])
        BY <1>3, <1>9, <2>2 DEF OwnInv, Past, World
      <3>2. Seen(w, N, q, st)
        BY <1>3, <1>4, <2>2 DEF DataInv, Memory
      <3> HIDE DEF st
      <3>3. Seen(v, N, q, st)
        BY <1>6, <3>1, <3>2, SeenKept
      <3> QED BY <3>3 DEF st
    <2>3. CASE k \notin 0 .. commit[q]
      <3>1. q = g /\ k = j + 1
        BY <1>8, <2>1, <2>3
      <3> QED BY <1>6, <1>8, <3>1, SeenNew
    <2> QED BY <2>2, <2>3
  <1>15. Memory'
    BY <1>2, <1>4, <1>7, <1>12, <1>14 DEF Memory
  <1>16. ReadsDone'
    <2> SUFFICES ASSUME NEW q \in Group, NEW k \in 0 .. commit'[q] - 1, NEW c \in Clerk
                 PROVE  Reads(Replay(q, log[q], k), log[q][k + 1].op, c, N[c])
      BY <1>4, <1>7, <1>12 DEF ReadsDone
    <2>1. commit[q] \in Nat
      BY CommitIs DEF OwnInv
    <2>2. CASE k \in 0 .. commit[q] - 1
      BY <1>4, <2>2 DEF DataInv, ReadsDone
    <2>3. CASE k \notin 0 .. commit[q] - 1
      <3>1. q = g /\ k = j
        BY <1>8, <2>1, <2>3
      <3> QED BY <1>5, <1>8, <1>10, <3>1
    <2> QED BY <2>2, <2>3
  <1>17. LogsData'
    <2> SUFFICES ASSUME NEW q \in Group, NEW i \in 1 .. Len(log[q]) PROVE DataFits(v, N, log[q][i].op)
      BY <1>2, <1>4, <1>7, <1>12 DEF LogsData
    <2>1. OwnFits(w, q, log[q][i].op) /\ DataFits(w, N, log[q][i].op)
      BY <1>3, <1>4 DEF OwnInv, Logs, DataInv, LogsData
    <2> QED BY <1>6, <2>1, DataFitsKept
  <1>18. PullsData'
    <2> SUFFICES ASSUME NEW q \in Group, NEW t \in Server(q), NEW k \in pulls[q][t], k.ok
                 PROVE  Told(v, k.got.sessions, N) /\ Copy(v, k.got.data, k.got.sessions, k.num, k.shard)
      BY <1>2, <1>4, <1>7, <1>12 DEF PullsData, PullData
    <2>1. Awaits(w, q, k.num, k.shard) /\ Told(w, k.got.sessions, N) /\ Copy(w, k.got.data, k.got.sessions, k.num, k.shard)
      BY <1>3, <1>4 DEF OwnInv, Tasks, PullOwn, DataInv, PullsData, PullData
    <2>2. Told(v, k.got.sessions, N)
      BY <1>6, <2>1, ToldKept
    <2> QED BY <1>6, <2>1, <2>2, CopyKept
  <1> QED BY <1>2, <1>4, <1>12, <1>13, <1>15, <1>16, <1>17, <1>18 DEF DataInv

\* Every step.
LEMMA DataStep ==
  ASSUME OwnInv, OneChange, Walks, DataInv, IndexesOwn, PrivateKeys, [Next]_vars
  PROVE  DataInv'
  <1>1. ASSUME NEW g \in Group, NEW s \in Server(g), applyMessage(g, s) PROVE DataInv'
    <2>1. \/ applied[g][s] + 1 <= commit[g] /\ commit' = commit
          \/ applied[g][s] + 1 = commit[g] + 1 /\ commit' = [commit EXCEPT ![g] = applied[g][s] + 1] /\ sm[g][s] = Agreed[g]
      BY <1>1, ApplyIs
    <2> QED BY <1>1, <2>1, ApplyOldData, ApplyNewData
  <1>2. CASE UNCHANGED vars
    <2>1. Quiet
      BY <1>2, LogSame, RunSame, TaskSame, ClerksSame DEF vars, Quiet, raftVars, loopVars, OwnInv, Shapes
    <2>2. UNCHANGED log /\ Untold /\ UNCHANGED pulls
      BY <1>2 DEF vars, raftVars, loopVars, Untold
    <2> QED BY <2>1, <2>2, PullsSame, LogSameData
  <1>3. CASE Publish
    BY <1>3, PublishData
  <1>4. ASSUME NEW c \in Clerk, ClerkStep(c) \/ LoseCall(c) PROVE DataInv'
    BY <1>4, ClerkData
  <1>5. ASSUME NEW g \in Group, NEW s \in Server(g), Elect(g, s) PROVE DataInv'
    BY <1>5, ElectData
  <1>6. ASSUME NEW g \in Group, NEW s \in Server(g), StepDown(g, s) PROVE DataInv'
    BY <1>6, StepDownData
  <1>7. ASSUME NEW g \in Group, NEW s \in Server(g), Restart(g, s) PROVE DataInv'
    BY <1>7, RestartData
  <1>8. ASSUME NEW g \in Group, NEW s \in Server(g), UpdateStep(g, s) PROVE DataInv'
    BY <1>8, UpdateData
  <1>9. ASSUME NEW g \in Group, NEW s \in Server(g), PullStep(g, s) PROVE DataInv'
    BY <1>9, PullDataStep
  <1>10. ASSUME NEW g \in Group, NEW s \in Server(g), GiveStep(g, s) PROVE DataInv'
    BY <1>10, GiveData
  <1>11. ASSUME NEW g \in Group, NEW s \in Server(g), addEmptyLog(g, s) PROVE DataInv'
    BY <1>11, EmptyData
  <1> QED BY <1>1, <1>2, <1>3, <1>4, <1>5, <1>6, <1>7, <1>8, <1>9, <1>10, <1>11 DEF Next

-----------------------------------------------------------------------------
\* The data at the start.

\* Each clerk's first command has been executed, or not yet.
FirstFit(st) ==
  \A c \in Clerk :
    /\ st.sessions[c].num \in {0, 1}
    /\ \A h \in Shard : \A k \in KeysFrom(c, h) : st.kvDB[h][k] = Written(c, st.sessions[c].num, k)

\* So it is of a new server, ...
LEMMA FirstFitNew == FirstFit(NewServer)
  <1>1. ASSUME NEW c \in Clerk, NEW h \in Shard, NEW k \in KeysFrom(c, h)
        PROVE  NewServer.kvDB[h][k] = <<>>
    <2>1. k \in KeysOf(h)
      BY ScriptIs DEF KeysFrom
    <2>2. NewServer.kvDB[h] = [j \in KeysOf(h) |-> <<>>]
      BY NewIs
    <2> QED BY <2>1, <2>2
  <1>2. \A c \in Clerk : NewServer.sessions[c].num = 0
    BY NewIs
  <1> QED BY <1>1, <1>2, WrittenNone DEF FirstFit

\* ... after another entry ...
LEMMA FirstFitNext ==
  ASSUME PrivateKeys, NEW st, IsState(st), FirstFit(st), NEW d \in Clerk, NEW x,
         x = executeClientCmd(st, Command(d, 1))
  PROVE  FirstFit(x)
  <1> DEFINE key == Script[d][1].key
             g == key2shard(key)
  <1>0. 1 \in DOMAIN Script[d] /\ g \in Shard /\ key \in KeysOf(g)
    BY ScriptIs
  <1>1. CASE x = st
    BY <1>1
  <1>2. CASE Writes(st, x, d, 1)
    <2>1. /\ Script[d][1].type # "Get" /\ st.sessions[d].num < 1
          /\ \A i \in Shard \ {g} : x.kvDB[i] = st.kvDB[i]
          /\ \A j \in KeysOf(g) \ {key} : x.kvDB[g][j] = st.kvDB[g][j]
          /\ x.kvDB[g][key] = IF Script[d][1].type = "Put" THEN <<<<d, 1>>>> ELSE Append(st.kvDB[g][key], <<d, 1>>)
          /\ x.sessions[d].num = 1 /\ \A e \in Clerk \ {d} : x.sessions[e] = st.sessions[e]
      BY <1>2 DEF Writes
    <2>2. st.sessions[d].num = 0
      <3>1. st.sessions[d].num \in {0, 1}
        BY Zenon DEF FirstFit
      <3>2. st.sessions[d].num < 1
        BY <1>2, WritesIs
      <3> QED BY <3>1, <3>2
    <2>3. ASSUME NEW c \in Clerk, NEW h \in Shard, NEW k \in KeysFrom(c, h)
          PROVE  k \in KeysOf(h) /\ (k = key => h = g /\ c = d) /\ st.kvDB[h][k] = Written(c, st.sessions[c].num, k)
      <3>1. PICK i \in DOMAIN Script[c] : k = Script[c][i].key /\ key2shard(k) = h
        BY DEF KeysFrom
      <3>2. k \in KeysOf(h)
        BY <3>1, ScriptIs
      <3>3. k = key => c = d
        BY <1>0, <3>1 DEF PrivateKeys
      <3> QED BY <3>1, <3>2, <3>3 DEF FirstFit
    <2> HIDE DEF key, g
    <2>4. ASSUME NEW c \in Clerk, NEW h \in Shard, NEW k \in KeysFrom(c, h), k # key
          PROVE  x.kvDB[h][k] = st.kvDB[h][k]
      <3>1. CASE h = g
        BY <2>1, <2>3, <2>4, <3>1
      <3>2. CASE h # g
        BY <2>1, <3>2
      <3> QED BY <3>1, <3>2
    <2>5. ASSUME NEW c \in Clerk, c # d
          PROVE  /\ x.sessions[c].num \in {0, 1}
                 /\ \A h \in Shard : \A k \in KeysFrom(c, h) : x.kvDB[h][k] = Written(c, x.sessions[c].num, k)
      <3>1. x.sessions[c] = st.sessions[c] /\ x.sessions[c].num \in {0, 1}
        BY <2>1, <2>5 DEF FirstFit
      <3>2. ASSUME NEW h \in Shard, NEW k \in KeysFrom(c, h) PROVE x.kvDB[h][k] = Written(c, x.sessions[c].num, k)
        BY <2>3, <2>4, <2>5, <3>1
      <3> QED BY <3>1, <3>2
    <2>6. ASSUME NEW h \in Shard, NEW k \in KeysFrom(d, h) PROVE x.kvDB[h][k] = Written(d, 1, k)
      <3>1. st.kvDB[h][k] = Written(d, 0, k)
        BY <2>2, <2>3
      <3>2. Written(d, 1, k) = Leaves(d, k, 1, Written(d, 0, k))
        <4>1. Written(d, 1, k) = Leaves(d, k, 1, Written(d, 1 - 1, k))
          BY WrittenNext
        <4> QED BY <4>1
      <3>3. CASE k = key
        <4>1. h = g
          BY <2>3, <3>3
        <4> QED BY <2>1, <3>1, <3>2, <3>3, <4>1 DEF Leaves, key
      <3>4. CASE k # key
        <4>1. x.kvDB[h][k] = st.kvDB[h][k]
          BY <2>4, <3>4
        <4> QED BY <3>1, <3>2, <3>4, <4>1 DEF Leaves, key
      <3> QED BY <3>3, <3>4
    <2> QED BY <2>1, <2>5, <2>6 DEF FirstFit
  <1> QED BY <1>0, <1>1, <1>2, ClientDoes

\* ... and after all.
LEMMA FirstFitAll ==
  ASSUME PrivateKeys, NEW g \in Group
  PROVE  \A n \in 0 .. Len(FirstEntries(g)) : FirstFit(Replay(g, FirstEntries(g), n))
  <1> DEFINE l == FirstEntries(g)
             T == {n \in 0 .. Len(l) : ~FirstFit(Replay(g, l, n))}
  <1>0. Len(l) \in Nat
    BY FirstIs, LogIs
  <1> SUFFICES ASSUME T # {} PROVE FALSE
    OBVIOUS
  <1>1. PICK n \in T : \A m \in T : n <= m
    <2>1. T \in SUBSET Nat
      BY <1>0
    <2> HIDE DEF T
    <2> QED BY <2>1, Least
  <1>2. n \in 0 .. Len(l) /\ ~FirstFit(Replay(g, l, n))
    OBVIOUS
  <1>3. n # 0
    BY <1>2, FirstFitNew, ReplayNone
  <1> DEFINE k == n - 1
  <1>4. k \in 0 .. Len(l) /\ k \in Nat /\ n = k + 1 /\ ~(n <= k) /\ n \in 1 .. Len(l)
    BY <1>0, <1>2, <1>3
  <1>5. FirstFit(Replay(g, l, k))
    BY <1>1, <1>4
  <1>6. Replay(g, l, n) = Execute(g, Replay(g, l, k), l[n].op)
    <2> HIDE DEF k
    <2>1. Replay(g, l, k + 1) = Execute(g, Replay(g, l, k), l[k + 1].op)
      BY <1>4, ReplayNext
    <2> QED BY <1>4, <2>1
  <1> HIDE DEF T
  <1>7. CASE n = 1
    <2>1. l[n].op = [type |-> "UpdateConfig", num |-> 1]
      BY <1>7, FirstIs
    <2>2. Replay(g, l, k) = NewServer /\ NewServer.cur + 1 = 1 /\ 1 \in 1 .. Len(Config)
      BY <1>7, ReplayNone, NewIs, ConfigIs
    <2>3. Replay(g, l, n) = updateShardState(g, NewServer, 1)
      BY <1>6, <2>1, <2>2 DEF Execute, IsClientCmd, executeConfigCmd
    <2>4. Enters(g, NewServer, Replay(g, l, n), 1)
      BY <2>2, <2>3, NewIs, UpdateDoes
    <2>5. Replay(g, l, n).kvDB = NewServer.kvDB /\ Replay(g, l, n).sessions = NewServer.sessions
      BY <2>4 DEF Enters
    <2>6. FirstFit(Replay(g, l, n))
      BY <2>5, FirstFitNew DEF FirstFit
    <2> QED BY <1>2, <2>6
  <1>8. CASE n # 1
    <2>1. n \in 2 .. Len(l) /\ k \in 1 .. Len(l)
      BY <1>0, <1>4, <1>8
    <2>2. PICK c \in Mine(g) : l[n].op = Command(c, 1)
      BY <2>1, FirstIs
    <2>3. IsState(Replay(g, l, k))
      BY <2>1, FirstAll DEF InFirst
    <2>4. Replay(g, l, n) = executeClientCmd(Replay(g, l, k), Command(c, 1))
      BY <1>6, <2>2, MineIs, CommandIs DEF Execute
    <2> HIDE DEF l, k
    <2>5. FirstFit(Replay(g, l, n))
      BY <1>5, <2>3, <2>4, MineIs, FirstFitNext
    <2> QED BY <1>2, <2>5
  <1> QED BY <1>7, <1>8

\* A write of a clerk's first command is where its shard is.
LEMMA FirstRan ==
  ASSUME OwnInv, NEW g \in Group, log[g] = FirstEntries(g), commit[g] = Len(log[g]), NEW c \in Mine(g), Script[c][1].type # "Get"
  PROVE  Agreed[g].sessions[c].num >= 1
  <1> DEFINE l == FirstEntries(g)
  <1>1. PICK i \in 2 .. Len(l) : l[i].op = Command(c, 1)
    BY FirstIs
  <1>2. Len(l) \in Nat /\ c \in Clerk /\ 1 \in DOMAIN Script[c]
    BY FirstIs, LogIs, MineIs
  <1> DEFINE k == i - 1
  <1>3. k \in 1 .. Len(l) /\ k \in Nat /\ i = k + 1 /\ i \in 0 .. Len(l)
    BY <1>2
  <1> HIDE DEF k
  <1>4. Replay(g, l, k + 1) = Execute(g, Replay(g, l, k), l[k + 1].op)
    BY <1>3, ReplayNext
  <1> DEFINE st == Replay(g, l, k)
             x == Replay(g, l, i)
  <1>5. InFirst(g, st)
    BY <1>3, FirstAll
  <1>6. x = executeClientCmd(st, Command(c, 1))
    BY <1>1, <1>2, <1>3, <1>4, CommandIs DEF Execute
  <1>7. IsState(st) /\ st.owned[key2shard(Script[c][1].key)] = "Exist"
    BY <1>2, <1>5, ScriptIs DEF InFirst, Mine
  <1>8. Later(x, Agreed[g]) /\ IsState(x) /\ IsState(Agreed[g])
    BY <1>3, AgreedIs DEF OwnInv, Past
  <1> HIDE DEF l, st, x
  <1>9. x.sessions[c].num >= 1
    BY <1>2, <1>6, <1>7, ClientRuns
  <1>10. x.sessions[c].num <= Agreed[g].sessions[c].num /\ x.sessions[c].num \in Nat /\ Agreed[g].sessions[c].num \in Nat
    BY <1>2, <1>8, StateIs DEF Later
  <1> QED BY <1>9, <1>10

\* All that holds of the data at the start.
LEMMA FirstFacts ==
  ASSUME NEW w, NEW N, \A c \in Clerk : N[c] = 2, \A g \in Group : InFirst(g, w[g]) /\ FirstFit(w[g]),
         \A g \in Group : \A c \in Mine(g) : Script[c][1].type # "Get" => w[g].sessions[c].num >= 1
  PROVE  Facts(w, N)
  <1>1. ASSUME NEW c \in Clerk, NEW h \in Shard, NEW m \in 1 .. Len(Config), Newest(w, m, h)
        PROVE  Fresh(w[Config[m][h]], c, h, N[c])
    <2> DEFINE g == Config[m][h]
    <2>1. g \in Group /\ (w[g].cur > m \/ (w[g].cur = m /\ w[g].owned[h] = "Exist"))
      BY <1>1 DEF Newest, Done, Has
    <2>2. w[g].cur = 1
      BY <2>1 DEF InFirst
    <2>3. m = 1
      BY <2>1, <2>2
    <2>4. w[g].sessions[c].num \in {0, 1}
      BY <2>1 DEF FirstFit
    <2>5. Write(c, 1, h) => w[g].sessions[c].num = 1
      <3> SUFFICES ASSUME Write(c, 1, h) PROVE w[g].sessions[c].num = 1
        OBVIOUS
      <3>1. Script[c][1].type # "Get" /\ c \in Mine(g)
        BY <2>3 DEF Write, Mine
      <3> QED BY <2>1, <2>4, <3>1
    <2> DEFINE st == w[g]
    <2>6. \A k \in KeysFrom(c, h) : st.kvDB[h][k] = Written(c, st.sessions[c].num, k)
      BY <2>1 DEF FirstFit
    <2> HIDE DEF st
    <2>7. ASSUME NEW k \in KeysFrom(c, h) PROVE st.kvDB[h][k] = Written(c, 1, k)
      <3>1. CASE Write(c, 1, h)
        BY <2>5, <2>6, <3>1 DEF st
      <3>2. CASE ~Write(c, 1, h)
        <4>1. Written(c, 1, k) = Written(c, 1 - 1, k)
          BY <3>2, ScriptIs, NotWritten
        <4>2. Written(c, 1, k) = Written(c, 0, k)
          BY <4>1
        <4> QED BY <2>4, <2>6, <4>2 DEF st
      <3> QED BY <3>1, <3>2
    <2>8. \A i \in 1 .. 2 - 1 : i = 1
      OBVIOUS
    <2>9. st.sessions[c].num # 2
      BY <2>4 DEF st
    <2>10. Fresh(st, c, h, 2)
      BY <2>4, <2>5, <2>7, <2>8, <2>9, SMTT(120) DEF Fresh, st
    <2> QED BY <2>10 DEF st
  <1>2. ASSUME NEW g \in Group PROVE Told(w, w[g].sessions, N)
    BY ScriptIs DEF Told, FirstFit
  <1> QED BY <1>1, <1>2 DEF Facts

\* The invariant holds at the start.
LEMMA DataFirst == ASSUME Init, PrivateKeys PROVE DataInv /\ Walks
  <1>1. /\ log = [g \in Group |-> FirstEntries(g)] /\ commit = [g \in Group |-> Len(log[g])]
        /\ pulls = [g \in Group |-> [s \in Server(g) |-> {}]]
        /\ clerk = [c \in Clerk |-> [num |-> 2, pc |-> "call", config |-> 1, at |-> 1, index |-> 0, chan |-> <<>>, got |-> <<>>]]
    BY DEF Init
  <1>2. \A g \in Group : log[g] = FirstEntries(g) /\ commit[g] = Len(log[g]) /\ Len(log[g]) \in Nat /\ Len(log[g]) >= 1
    BY <1>1, FirstIs, LogIs
  <1>3. \A c \in Clerk : Num[c] = 2 /\ Len(Script[c]) \in Nat /\ Len(Script[c]) >= 1 /\ 1 \in DOMAIN Script[c]
    BY <1>1, ScriptIs DEF Num
  <1>4. \A g \in Group : Agreed[g] = Replay(g, log[g], Len(log[g])) /\ InFirst(g, Agreed[g]) /\ FirstFit(Agreed[g])
    <2>1. ASSUME NEW g \in Group PROVE Agreed[g] = Replay(g, log[g], Len(log[g])) /\ InFirst(g, Agreed[g]) /\ FirstFit(Agreed[g])
      <3>1. Agreed[g] = Replay(g, log[g], Len(log[g])) /\ Len(log[g]) \in 1 .. Len(log[g]) /\ Len(log[g]) \in 0 .. Len(log[g])
        BY <1>2 DEF Agreed
      <3> QED BY <3>1, <1>2, FirstAll, FirstFitAll
    <2> QED BY <2>1
  <1>5. Facts(Agreed, Num)
    <2>1. \A g \in Group : \A c \in Mine(g) : Script[c][1].type # "Get" => Agreed[g].sessions[c].num >= 1
      BY <1>2, OwnFirst, FirstRan
    <2> QED BY <1>3, <1>4, <2>1, FirstFacts
  <1>6. Memory
    <2> SUFFICES ASSUME NEW g \in Group, NEW j \in 0 .. commit[g] PROVE Seen(Agreed, Num, g, Replay(g, log[g], j))
      BY DEF Memory
    <2> DEFINE st == Replay(g, log[g], j)
    <2>1. FirstFit(st)
      BY <1>2, FirstFitAll
    <2>2. Told(Agreed, st.sessions, Num)
      BY <1>3, <2>1 DEF Told, FirstFit
    <2>3. st.cur \in {0, 1}
      <3>1. CASE j = 0
        BY <3>1, NewIs, ReplayNone
      <3>2. CASE j # 0
        <4>1. j \in 1 .. Len(FirstEntries(g))
          BY <1>2, <3>2
        <4> QED BY <1>2, <4>1, FirstAll DEF InFirst
      <3> QED BY <3>1, <3>2
    <2>4. st.cur \notin 2 .. Len(Config)
      BY <2>3
    <2> HIDE DEF st
    <2>5. Seen(Agreed, Num, g, st)
      BY <2>2, <2>4 DEF Seen
    <2> QED BY <2>5 DEF st
  <1>7. ASSUME NEW g \in Group, NEW i \in 1 .. Len(log[g])
        PROVE  \/ log[g][i].op.type = "UpdateConfig"
               \/ \E c \in Clerk : log[g][i].op = Command(c, 1)
    <2>1. CASE i = 1
      BY <1>2, <2>1, FirstIs
    <2>2. CASE i # 1
      <3>1. i \in 2 .. Len(FirstEntries(g))
        BY <1>2, <2>2
      <3> QED BY <1>2, <3>1, FirstIs, MineIs
    <2> QED BY <2>1, <2>2
  <1>8. ReadsDone
    <2> SUFFICES ASSUME NEW g \in Group, NEW j \in 0 .. commit[g] - 1, NEW c \in Clerk,
                        2 \in DOMAIN Script[c], log[g][j + 1].op = Command(c, 2)
                 PROVE  FALSE
      BY <1>3 DEF ReadsDone, Reads
    <2>1. j + 1 \in 1 .. Len(log[g])
      BY <1>2
    <2>2. Command(c, 2).type # "UpdateConfig"
      BY CommandIs, ScriptIs
    <2>3. PICK d \in Clerk : Command(c, 2) = Command(d, 1)
      BY <1>7, <2>1, <2>2
    <2> QED BY <1>3, <2>3, CommandOne
  <1>9. LogsData
    <2> SUFFICES ASSUME NEW g \in Group, NEW i \in 1 .. Len(log[g]) PROVE DataFits(Agreed, Num, log[g][i].op)
      BY DEF LogsData
    <2>1. CASE log[g][i].op.type = "UpdateConfig"
      BY <2>1, NoOpFits
    <2>2. ASSUME NEW c \in Clerk, log[g][i].op = Command(c, 1) PROVE DataFits(Agreed, Num, log[g][i].op)
      <3>1. Command(c, 1).type # "GetShard"
        BY <1>3, CommandIs, ScriptIs
      <3>2. 1 \in DOMAIN Script[c] /\ 1 <= Num[c]
        BY <1>3
      <3> QED BY <2>2, <3>1, <3>2 DEF DataFits
    <2> QED BY <1>7, <2>1, <2>2
  <1>10. PullsData
    BY <1>1 DEF PullsData
  <1>11. Records
    <2> SUFFICES ASSUME NEW c \in Clerk PROVE RecordFits(Agreed, log, c, clerk[c])
      BY DEF Records
    <2>1. clerk[c].num = 2 /\ clerk[c].pc = "call" /\ clerk[c].chan = <<>> /\ clerk[c].got = <<>>
      BY <1>1
    <2>2. Script[c][1].type = "Get" => Written(c, 1, Script[c][1].key) = <<>>
      <3> SUFFICES ASSUME Script[c][1].type = "Get" PROVE Written(c, 1, Script[c][1].key) = <<>>
        OBVIOUS
      <3>1. Written(c, 1, Script[c][1].key) = Leaves(c, Script[c][1].key, 1, Written(c, 1 - 1, Script[c][1].key))
        BY WrittenNext
      <3>2. Leaves(c, Script[c][1].key, 1, Written(c, 1 - 1, Script[c][1].key)) = Written(c, 0, Script[c][1].key)
        BY DEF Leaves
      <3> QED BY <3>1, <3>2, WrittenNone
    <2>3. 2 \in 2 .. Len(Script[c]) + 1 /\ 2 - 1 = 1
      BY <1>3
    <2> QED BY <2>1, <2>2, <2>3 DEF RecordFits, Heard
  <1>12. Walks
    <2> SUFFICES ASSUME NEW c \in Clerk PROVE Walk(c, clerk[c]) /\ clerk[c].num >= 2
      BY DEF Walks
    <2>1. clerk[c].num = 2 /\ clerk[c].pc = "call" /\ clerk[c].config = 1 /\ clerk[c].at = 1
      BY <1>1
    <2>2. 1 \in 1 .. Len(Config)
      BY ConfigIs
    <2>3. ASSUME 2 <= Len(Script[c])
          PROVE  LET g == Owner(1, key2shard(Script[c][2].key))
                 IN  g \in Group /\ g # 0 /\ 1 \in Server(g)
      <3>1. 2 \in DOMAIN Script[c]
        BY <1>3, <2>3, ScriptIs
      <3>2. Config[1][key2shard(Script[c][2].key)] \in Group
        BY <3>1, ScriptIs, ConfigIs
      <3> QED BY <3>2, ServersIs, ConfigIs DEF Owner
    <2> QED BY <2>1, <2>2, <2>3 DEF Walk
  <1> QED BY <1>5, <1>6, <1>8, <1>9, <1>10, <1>11, <1>12 DEF DataInv

-----------------------------------------------------------------------------
\* The theorems about data.

\* What DataKept says of a clerk's key.
KeptAt(c, n, key) ==
  \E g \in Group :
    /\ Agreed[g].owned[key2shard(key)] \in {"Exist", "WaitGive"}
    /\ \/ Agreed[g].kvDB[key2shard(key)][key] = Written(c, n, key)
       \/ Active(c) /\ Agreed[g].kvDB[key2shard(key)][key] = Written(c, n + 1, key)

\* The invariant says that what was written is kept, ...
LEMMA DataIs == ASSUME OwnInv, DataInv PROVE DataKept
  <1> SUFFICES ASSUME NEW c \in Clerk PROVE KeptAt(c, clerk[c].num - 1, Script[c][clerk[c].num - 1].key)
    BY DEF DataKept, KeptAt
  <1> DEFINE n == clerk[c].num - 1
             key == Script[c][n].key
             h == key2shard(key)
  <1>1. Num[c] = clerk[c].num /\ Num[c] \in 2 .. Len(Script[c]) + 1 /\ Len(Script[c]) \in Nat /\ Nums(Num)
    BY NumIs DEF DataInv
  <1>2. n \in 1 .. Len(Script[c]) /\ n + 1 = Num[c] /\ Num[c] - 1 = n
    BY <1>1
  <1>3. n \in DOMAIN Script[c]
    BY <1>2, ScriptIs
  <1>4. h \in Shard /\ key \in KeysFrom(c, h)
    BY <1>3, ScriptIs DEF KeysFrom
  <1> HIDE DEF n, key, h
  <1>5. World(Agreed) /\ Facts(Agreed, Num)
    BY DEF OwnInv, DataInv
  <1>6. PICK m \in 1 .. Len(Config) : Newest(Agreed, m, h)
    BY <1>4, <1>5, NewestExists
  <1>7. PICK q : q = Config[m][h]
    OBVIOUS
  <1>8. q \in Group /\ Agreed[q].owned[h] \in {"Exist", "WaitGive"}
    BY <1>4, <1>5, <1>6, <1>7, NewestKeeps
  <1>9. Fresh(Agreed[q], c, h, Num[c])
    BY <1>4, <1>5, <1>6, <1>7 DEF Facts
  <1>10. Agreed[q].kvDB[h][key] = Written(c, IF Agreed[q].sessions[c].num = Num[c] THEN n + 1 ELSE n, key)
    BY <1>2, <1>4, <1>9 DEF Fresh
  <1>11. Agreed[q].sessions[c].num = Num[c] => Active(c)
    <2>1. Agreed[q].sessions[c].num \in DOMAIN Script[c] \cup {0}
      BY <1>1, <1>5, <1>8, SessIs
    <2> QED BY <1>1, <2>1, ScriptIs DEF Active
  <1> QED BY <1>8, <1>10, <1>11 DEF KeptAt, n, key, h

\* ... and that Gets are right.
LEMMA GetsAre == ASSUME OwnInv, DataInv PROVE GetsExact
  <1>1. ASSUME NEW c \in Clerk
        PROVE  Script[c][clerk[c].num - 1].type = "Get" => clerk[c].got = Written(c, clerk[c].num - 1, Script[c][clerk[c].num - 1].key)
    BY DEF DataInv, Records, RecordFits
  <1> QED BY <1>1 DEF GetsExact

\* All that holds of the data.
LEMMA DataAlways ==
  ASSUME PrivateKeys
  PROVE  Spec /\ OneChangeAtATime /\ []IndexesOwn => [](OwnInv /\ Walks /\ DataInv)
  <1>1. Init => OwnInv /\ Walks /\ DataInv
    BY OwnFirst, DataFirst
  <1>2. OwnInv /\ Walks /\ DataInv /\ IndexesOwn /\ [Next]_vars /\ [OneChange]_vars => Walks' /\ DataInv'
    <2> SUFFICES ASSUME OwnInv, Walks, DataInv, IndexesOwn, [Next]_vars, [OneChange]_vars PROVE Walks' /\ DataInv'
      OBVIOUS
    <2>1. Walks'
      BY WalkStep
    <2>2. CASE OneChange
      BY <2>1, <2>2, DataStep
    <2>3. CASE UNCHANGED vars
      <3>1. Quiet
        BY <2>3, LogSame, RunSame, TaskSame, ClerksSame DEF vars, Quiet, raftVars, loopVars, OwnInv, Shapes
      <3>2. UNCHANGED log /\ Untold /\ UNCHANGED pulls
        BY <2>3 DEF vars, raftVars, loopVars, Untold
      <3>3. DataInv'
        BY <3>1, <3>2, PullsSame, LogSameData
      <3> QED BY <2>1, <3>3
    <2> QED BY <2>2, <2>3
  <1>3. OneChangeAtATime => [][OneChange]_vars
    BY OneChangeIs, PTL DEF OneChangeAtATime
  <1>4. Spec /\ OneChangeAtATime => []OwnInv
    BY OwnAlways
  <1> QED BY <1>1, <1>2, <1>3, <1>4, PTL DEF Spec

\* No write of a clerk is lost or made twice, whatever is retried, elected,
\* restarted and moved: some group that serves the shard, or keeps it for the
\* next owner, has what the clerk's finished commands left, perhaps with the
\* one under way.  So GiveShard (server.go:836-855) deletes only what another
\* group has.  Each clerk has keys of its own, because what is there is
\* compared with its own writes; a group enters a configuration only when the
\* one before is settled; and see IndexesOwn.
THEOREM DataSafe == PrivateKeys => (Spec /\ OneChangeAtATime /\ []IndexesOwn => []DataKept)
  <1> SUFFICES ASSUME PrivateKeys PROVE Spec /\ OneChangeAtATime /\ []IndexesOwn => []DataKept
    OBVIOUS
  <1>1. OwnInv /\ Walks /\ DataInv => DataKept
    BY DataIs
  <1> QED BY <1>1, DataAlways, PTL

\* Under the same hypotheses a Get returns what the clerk's own writes left:
\* the session that moves with the shard (server.go:422-427) is never newer or
\* older than the shard.
THEOREM GetsSafe == PrivateKeys => (Spec /\ OneChangeAtATime /\ []IndexesOwn => []GetsExact)
  <1> SUFFICES ASSUME PrivateKeys PROVE Spec /\ OneChangeAtATime /\ []IndexesOwn => []GetsExact
    OBVIOUS
  <1>1. OwnInv /\ Walks /\ DataInv => GetsExact
    BY GetsAre
  <1> QED BY <1>1, DataAlways, PTL

-----------------------------------------------------------------------------
\* One clerk.

\* There is no other clerk: keys and indexes are its own.
OneClerk == \A c, d \in Clerk : c = d

\* Its keys are private, ...
LEMMA OneClerkKeys == ASSUME OneClerk PROVE PrivateKeys
  BY DEF OneClerk, PrivateKeys

\* ... and so is the index where it waits.
LEMMA OneClerkIndexes == ASSUME OneClerk, OwnInv, Walks PROVE IndexesOwn
  <1> SUFFICES ASSUME NEW c \in Clerk, Active(c), NEW g, g = GidOf(c), NEW i, i = clerk[c].index, clerk[c].pc = "wait",
                      i \in DOMAIN log[g], NEW op, op = log[g][i].op, IsClientCmd(op)
               PROVE  op.clerk = c
    BY DEF IndexesOwn
  <1>1. g \in Group
    BY GidIs DEF Walks, Walk, Active
  <1>2. i \in 1 .. Len(log[g])
    BY <1>1, LogIs DEF OwnInv, Shapes
  <1>3. IsOp(op)
    BY <1>1, <1>2 DEF OwnInv, Logs, OwnFits
  <1>4. PICK d \in Clerk : \E k \in DOMAIN Script[d] : op = Command(d, k)
    BY <1>3 DEF IsOp, IsClientCmd
  <1>5. op.clerk = d
    BY <1>4, CommandIs
  <1> QED BY <1>5 DEF OneClerk

\* So the invariant always holds.
LEMMA OneClerkAlways ==
  ASSUME OneClerk
  PROVE  Spec /\ OneChangeAtATime => [](OwnInv /\ Walks /\ DataInv)
  <1>0. PrivateKeys
    BY OneClerkKeys
  <1>1. Init => OwnInv /\ Walks
    BY <1>0, OwnFirst, DataFirst
  <1>2. OwnInv /\ Walks /\ [Next]_vars => Walks'
    BY WalkStep
  <1>3. OwnInv /\ Walks => IndexesOwn
    BY OneClerkIndexes
  <1>4. Spec /\ OneChangeAtATime => []OwnInv
    BY OwnAlways
  <1>5. Spec /\ OneChangeAtATime => []IndexesOwn
    BY <1>1, <1>2, <1>3, <1>4, PTL DEF Spec
  <1> QED BY <1>0, <1>5, DataAlways, PTL

\* With one clerk, data are kept and Gets are right without the hypotheses
\* about keys and indexes: at the index where its handler waits
\* (createNotifyCh, server.go:105-111) there is never another clerk's command.
THEOREM OneClerkSafe == OneClerk => (Spec /\ OneChangeAtATime => []DataKept /\ []GetsExact)
  <1> SUFFICES ASSUME OneClerk PROVE Spec /\ OneChangeAtATime => []DataKept /\ []GetsExact
    OBVIOUS
  <1>1. OwnInv /\ Walks /\ DataInv => DataKept /\ GetsExact
    BY DataIs, GetsAre
  <1> QED BY <1>1, OneClerkAlways, PTL

-----------------------------------------------------------------------------
\* When one configuration is settled before the next is entered.

\* What a step does to a server's state machine.
LEMMA SmStep ==
  ASSUME OwnInv, [Next]_vars, NEW g \in Group, NEW s \in Server(g)
  PROVE  sm'[g][s] = sm[g][s] \/ sm'[g][s] = NewServer \/ applyMessage(g, s)
  <1>1. ASSUME NEW q \in Group, NEW t \in Server(q), applyMessage(q, t)
        PROVE  sm'[g][s] = sm[g][s] \/ applyMessage(g, s)
    <2>1. CASE <<q, t>> = <<g, s>>
      BY <1>1, <2>1
    <2>2. CASE <<q, t>> # <<g, s>>
      BY <1>1, <2>2, ApplyIs DEF Cells
    <2> QED BY <2>1, <2>2
  <1>2. ASSUME Quiet PROVE sm'[g][s] = sm[g][s] \/ sm'[g][s] = NewServer
    BY <1>2 DEF Quiet, RunStep
  <1>3. CASE UNCHANGED vars
    BY <1>3 DEF vars
  <1>4. CASE Publish
    BY <1>2, <1>4, PublishQuiet
  <1>5. ASSUME NEW c \in Clerk, ClerkStep(c) \/ LoseCall(c) PROVE sm'[g][s] = sm[g][s] \/ sm'[g][s] = NewServer
    BY <1>2, <1>5, ClerkQuiet
  <1>6. ASSUME NEW q \in Group, NEW t \in Server(q),
               \/ Elect(q, t) \/ StepDown(q, t) \/ Restart(q, t)
               \/ UpdateStep(q, t) \/ PullStep(q, t) \/ GiveStep(q, t) \/ addEmptyLog(q, t)
        PROVE  sm'[g][s] = sm[g][s] \/ sm'[g][s] = NewServer
    BY <1>2, <1>6, ElectQuiet, StepDownQuiet, RestartQuiet, UpdateQuiet, PullQuiet, GiveQuiet, EmptyQuiet
  <1> QED BY <1>1, <1>3, <1>4, <1>5, <1>6 DEF Next

\* It is enough to look at applyMessage.
LEMMA OneChangeFrom ==
  ASSUME OwnInv, [Next]_vars,
         \A g \in Group : \A s \in Server(g) : applyMessage(g, s) => Waits(sm[g][s], sm'[g][s])
  PROVE  OneChange
  <1> SUFFICES ASSUME NEW g \in Group, NEW s \in Server(g) PROVE Waits(sm[g][s], sm'[g][s])
    BY DEF OneChange
  <1>1. sm[g][s].cur \in Nat /\ NewServer.cur = 0
    BY StateOf, NewIs
  <1>2. CASE sm'[g][s] = sm[g][s] \/ sm'[g][s] = NewServer
    <2>1. sm'[g][s].cur # sm[g][s].cur + 1
      BY <1>1, <1>2
    <2> QED BY <2>1 DEF Waits
  <1> QED BY <1>2, SmStep

\* Two configurations: the first is settled at once.
TwoConfigs == Len(Config) <= 2

\* The first configuration has no shard to wait for.
LEMMA ShapedReady == ASSUME NEW g, NEW st, IsState(st), Shaped(g, st), st.cur <= 1 PROVE updateConfigReady(st)
  BY StateIs DEF Shaped, updateConfigReady, Kind

\* So the second is entered only when the first is settled.
LEMMA TwoConfigsOne == ASSUME TwoConfigs, OwnInv, [Next]_vars PROVE OneChange
  <1>1. ASSUME NEW g \in Group, NEW s \in Server(g), applyMessage(g, s), sm'[g][s].cur = sm[g][s].cur + 1
        PROVE  updateConfigReady(sm[g][s])
    <2>1. IsState(sm'[g][s])
      BY <1>1, ApplyIs
    <2>2. sm'[g][s].cur <= Len(Config) /\ sm[g][s].cur \in Nat /\ Len(Config) \in Nat
      BY <2>1, StateIs, StateOf, ConfigIs
    <2>3. sm[g][s].cur <= 1
      BY <1>1, <2>2 DEF TwoConfigs
    <2> QED BY <2>3, StateOf, ShapedReady
  <1> QED BY <1>1, OneChangeFrom DEF Waits

\* The hypothesis about configurations holds.
LEMMA TwoConfigsAlways == ASSUME TwoConfigs PROVE Spec => OneChangeAtATime
  <1>1. Init => OwnInv
    BY OwnFirst
  <1>2. OwnInv /\ [Next]_vars => OwnInv' /\ OneChange
    BY TwoConfigsOne, OwnStep
  <1>3. [][OneChange]_vars => OneChangeAtATime
    BY OneChangeIs, PTL DEF OneChangeAtATime
  <1> QED BY <1>1, <1>2, <1>3, PTL DEF Spec

\* While there is one reconfiguration nothing has to be assumed of it: each
\* shard has one owner, and with one clerk its data are kept and its Gets are
\* right, for every number of groups, servers and shards and every script.
THEOREM TwoConfigsSafe == TwoConfigs => (Spec => []OneOwner) /\ (OneClerk => (Spec => []DataKept /\ []GetsExact))
  BY TwoConfigsAlways, OwnersUnique, OneClerkSafe

-----------------------------------------------------------------------------
\* The only way to two changes at a time: something is executed between the two critical sections of getLastestConfig.

\* A server that found updateConfigReady true (server.go:572) still finds it so
\* when it proposes: the code has unlocked kv.mu in between.
ReadyKept == \A g \in Group : \A s \in Server(g) : updater[g][s] = "ready" => updateConfigReady(sm[g][s])

\* A proposed configuration has been entered, or the group is ready for it.
Prepared(st, op) == op.type = "UpdateConfig" => op.num <= st.cur \/ (op.num = st.cur + 1 /\ updateConfigReady(st))

\* Proposed configurations are prepared, and were when they were entered.
Ups ==
  /\ \A g \in Group : \A i \in 1 .. Len(log[g]) : Prepared(Agreed[g], log[g][i].op)
  /\ \A g \in Group : \A j \in 0 .. commit[g] - 1 : Waits(Replay(g, log[g], j), Replay(g, log[g], j + 1))

\* What is prepared is prepared later.
LEMMA PreparedLater ==
  ASSUME NEW st, NEW x, IsState(st), IsState(x), Later(st, x), NEW op, IsOp(op), Prepared(st, op)
  PROVE  Prepared(x, op)
  <1> SUFFICES ASSUME op.type = "UpdateConfig" PROVE op.num <= x.cur \/ (op.num = x.cur + 1 /\ updateConfigReady(x))
    BY DEF Prepared
  <1>1. op.num \in Nat /\ st.cur \in Nat /\ x.cur \in Nat /\ st.cur <= x.cur
    <2>1. op.num \in 1 .. Len(Config)
      BY CommandIs, ScriptIs DEF IsOp
    <2> QED BY <2>1, StateIs, ConfigIs DEF Later
  <1>2. op.num <= st.cur \/ (op.num = st.cur + 1 /\ updateConfigReady(st))
    BY DEF Prepared
  <1>3. CASE op.num <= st.cur
    BY <1>1, <1>3
  <1>4. CASE op.num = st.cur + 1 /\ updateConfigReady(st)
    <2>1. CASE st.cur = x.cur
      BY <1>4, <2>1 DEF Later, updateConfigReady
    <2>2. CASE st.cur # x.cur
      BY <1>1, <1>4, <2>2
    <2> QED BY <2>1, <2>2
  <1> QED BY <1>2, <1>3, <1>4

\* An entry that enters a configuration finds the one before settled.
LEMMA PreparedWaits ==
  ASSUME NEW g, NEW st, IsState(st), NEW op, Prepared(st, op), NEW x, Does(g, st, op, x)
  PROVE  Waits(st, x)
  <1> SUFFICES ASSUME x.cur = st.cur + 1 PROVE updateConfigReady(st)
    BY DEF Waits
  <1>1. st.cur \in Nat
    BY StateIs
  <1>2. op.type = "UpdateConfig" /\ Enters(g, st, x, op.num)
    BY <1>1, CurKept
  <1>3. op.num = st.cur + 1
    BY <1>2 DEF Enters
  <1>4. ~(op.num <= st.cur)
    BY <1>1, <1>3
  <1> QED BY <1>2, <1>4 DEF Prepared

\* So a configuration is entered only when the one before is settled.
LEMMA UpsOne == ASSUME OwnInv, Ups, [Next]_vars PROVE OneChange
  <1>1. ASSUME NEW g \in Group, NEW s \in Server(g), applyMessage(g, s)
        PROVE  Waits(sm[g][s], sm'[g][s])
    <2> DEFINE i == applied[g][s] + 1
               j == applied[g][s]
    <2>1. /\ i \in Nat /\ i >= 1 /\ i <= Len(log[g]) /\ sm'[g][s] = Replay(g, log[g], i)
          /\ Does(g, sm[g][s], log[g][i].op, sm'[g][s])
          /\ i <= commit[g] \/ sm[g][s] = Agreed[g]
      BY <1>1, ApplyIs
    <2>2. j \in 0 .. commit[g] /\ commit[g] \in Nat /\ sm[g][s] = Replay(g, log[g], j) /\ Len(log[g]) \in Nat
      BY CommitIs DEF OwnInv, Runs
    <2>3. CASE i <= commit[g]
      <3>1. j \in 0 .. commit[g] - 1
        BY <2>2, <2>3
      <3>2. Waits(Replay(g, log[g], j), Replay(g, log[g], j + 1))
        BY <3>1 DEF Ups
      <3> QED BY <2>1, <2>2, <3>2
    <2>4. CASE sm[g][s] = Agreed[g]
      <3>1. i \in 1 .. Len(log[g])
        BY <2>1, <2>2
      <3> HIDE DEF i, j
      <3>2. Prepared(Agreed[g], log[g][i].op) /\ IsState(Agreed[g])
        BY <3>1, AgreedIs DEF Ups
      <3> QED BY <2>1, <2>4, <3>2, PreparedWaits
    <2> QED BY <2>1, <2>3, <2>4
  <1> QED BY <1>1, OneChangeFrom

-----------------------------------------------------------------------------
\* Steps that commit nothing.

\* Logs after a step.
UpsFit == \A g \in Group : \A i \in 1 .. Len(log'[g]) : Prepared(Agreed[g], log'[g][i].op)

\* A step that commits nothing keeps Ups if they fit.
LEMMA UpsQuiet == ASSUME OwnInv, Ups, Quiet, UpsFit PROVE Ups'
  <1>0. Shapes /\ commit' = commit /\ LogStep
    BY DEF OwnInv, Quiet
  <1>1. /\ Agreed' = Agreed
        /\ \A g \in Group : \A j \in 0 .. commit[g] : Replay(g, log'[g], j) = Replay(g, log[g], j)
    BY <1>0, AgreedKept
  <1>2. ASSUME NEW g \in Group, NEW j \in 0 .. commit[g] - 1
        PROVE  Waits(Replay(g, log'[g], j), Replay(g, log'[g], j + 1))
    <2>1. commit[g] \in Nat
      BY <1>0, CommitIs
    <2>2. j \in 0 .. commit[g] /\ j + 1 \in 0 .. commit[g]
      BY <2>1
    <2> QED BY <1>1, <2>2 DEF Ups
  <1> QED BY <1>0, <1>1, <1>2 DEF Ups, UpsFit

\* A log grows by another kind of entry.
LEMMA UpsGrown ==
  ASSUME OwnInv, Ups, Quiet, NEW op, Grown(op), op.type # "UpdateConfig"
  PROVE  Ups'
  <1>1. UpsFit
    BY DEF UpsFit, Ups, Grown, Prepared
  <1> QED BY <1>1, UpsQuiet

\* Logs stay.
LEMMA UpsSame == ASSUME OwnInv, Ups, Quiet, UNCHANGED log PROVE Ups'
  <1>1. UpsFit
    BY DEF UpsFit, Ups
  <1> QED BY <1>1, UpsQuiet

\* A server proposes another kind of entry.
LEMMA UpsStart == ASSUME OwnInv, Ups, Quiet, NEW g, NEW s, NEW op, StartLog(g, s, op), op.type # "UpdateConfig" PROVE Ups'
  BY GrownStart, UpsGrown

\* A new leader's log is cut.
LEMMA UpsElect == ASSUME OwnInv, Ups, NEW g \in Group, NEW s \in Server(g), Elect(g, s) PROVE Ups'
  <1>1. Quiet
    BY ElectQuiet
  <1>2. PICK n \in commit[g] .. Len(log[g]) : log' = [log EXCEPT ![g] = SubSeq(log[g], 1, n)]
    BY DEF Elect
  <1>3. Grown(NoOp)
    BY <1>2, GrownCut
  <1>4. NoOp.type # "UpdateConfig"
    BY DEF NoOp
  <1> QED BY <1>1, <1>3, <1>4, UpsGrown

\* Clerks.
LEMMA UpsClerk == ASSUME OwnInv, Ups, NEW c \in Clerk, ClerkStep(c) \/ LoseCall(c) PROVE Ups'
  <1>1. Quiet /\ (Start(c) \/ UNCHANGED NotTheServers)
    BY ClerkQuiet, ClerkMoves
  <1>2. CASE UNCHANGED NotTheServers
    BY <1>1, <1>2, UpsSame DEF NotTheServers, raftVars
  <1>3. CASE Start(c)
    <2>1. StartLog(GidOf(c), clerk[c].at, Request(c)) /\ Active(c)
      BY <1>3 DEF Start
    <2>2. Request(c).type # "UpdateConfig"
      <3>1. clerk[c].num \in DOMAIN Script[c]
        BY <2>1, RequestFits
      <3> QED BY <3>1, CommandIs, ScriptIs DEF Request
    <2> QED BY <1>1, <2>1, <2>2, UpsStart
  <1> QED BY <1>1, <1>2, <1>3

\* getLastestConfig: here the configuration is proposed.
LEMMA UpsUpdate == ASSUME OwnInv, Ups, ReadyKept, NEW g \in Group, NEW s \in Server(g), UpdateStep(g, s) PROVE Ups'
  <1>1. Quiet
    BY UpdateQuiet
  <1>2. CASE UNCHANGED log
    BY <1>1, <1>2, UpsSame
  <1>3. ASSUME NEW n, n = sm[g][s].cur + 1, updateConfigReady(sm[g][s]), StartLog(g, s, [type |-> "UpdateConfig", num |-> n])
        PROVE  Ups'
    <2> DEFINE op == [type |-> "UpdateConfig", num |-> n]
    <2>1. op.type = "UpdateConfig" /\ op.num = n
      OBVIOUS
    <2> HIDE DEF op
    <2>2. Grown(op)
      BY <1>3, GrownStart DEF op
    <2>3. \A q \in Group \ {g} : log'[q] = log[q]
      <3>1. log = [q \in Group |-> log[q]]
        BY DEF OwnInv, Shapes
      <3> QED BY <1>3, <3>1 DEF StartLog
    <2>4. Prepared(Agreed[g], op)
      <3>1. /\ Later(sm[g][s], Agreed[g]) /\ sm[g][s].cur \in Nat /\ Agreed[g].cur \in Nat
        BY StateOf, AgreedIs, StateIs
      <3>2. CASE sm[g][s].cur = Agreed[g].cur
        BY <1>3, <2>1, <3>1, <3>2 DEF Prepared, Later, updateConfigReady
      <3>3. CASE sm[g][s].cur # Agreed[g].cur
        <4>1. sm[g][s].cur <= Agreed[g].cur
          BY <3>1 DEF Later
        <4>2. n <= Agreed[g].cur
          BY <1>3, <3>1, <3>3, <4>1
        <4> QED BY <2>1, <4>2 DEF Prepared
      <3> QED BY <3>2, <3>3
    <2>5. UpsFit
      <3> SUFFICES ASSUME NEW q \in Group, NEW i \in 1 .. Len(log'[q]) PROVE Prepared(Agreed[q], log'[q][i].op)
        BY DEF UpsFit
      <3>1. CASE q = g
        BY <2>2, <2>4, <3>1 DEF Grown, Ups
      <3>2. CASE q # g
        BY <2>3, <3>2 DEF Ups
      <3> QED BY <3>1, <3>2
    <2> QED BY <1>1, <2>5, UpsQuiet
  <1>4. CASE StartUpdate(g, s)
    <2>1. updateConfigReady(sm[g][s])
      BY <1>4 DEF StartUpdate, ReadyKept
    <2>2. UNCHANGED log \/ StartLog(g, s, [type |-> "UpdateConfig", num |-> sm[g][s].cur + 1])
      BY <1>4 DEF StartUpdate
    <2> QED BY <1>2, <1>3, <2>1, <2>2
  <1>5. CASE getLastestConfig(g, s)
    BY <1>2, <1>5 DEF getLastestConfig, raftVars
  <1> QED BY <1>4, <1>5 DEF UpdateStep

\* checkAndGetShard and MigrateShard.
LEMMA UpsPull == ASSUME OwnInv, Ups, NEW g \in Group, NEW s \in Server(g), PullStep(g, s) PROVE Ups'
  <1>1. Quiet
    BY PullQuiet
  <1>2. CASE UNCHANGED log
    BY <1>1, <1>2, UpsSame
  <1>3. ASSUME NEW t, StartGetShard(g, s, t) PROVE Ups'
    <2> DEFINE op == [type |-> "GetShard", num |-> t.num, shard |-> t.shard, data |-> t.got.data, sessions |-> t.got.sessions]
    <2>1. StartLog(g, s, op) /\ op.type # "UpdateConfig"
      BY <1>3 DEF StartGetShard
    <2> HIDE DEF op
    <2> QED BY <1>1, <2>1, UpsStart
  <1>4. CASE checkAndGetShard(g, s)
    BY <1>2, <1>4 DEF checkAndGetShard, raftVars
  <1>5. ASSUME NEW t, MigrateShard(g, s, t) PROVE Ups'
    BY <1>2, <1>5 DEF MigrateShard, raftVars
  <1> QED BY <1>3, <1>4, <1>5 DEF PullStep

\* checkAndFinishGiveShard and AckReceiveShard.
LEMMA UpsGive == ASSUME OwnInv, Ups, NEW g \in Group, NEW s \in Server(g), GiveStep(g, s) PROVE Ups'
  <1>1. Quiet
    BY GiveQuiet
  <1>2. CASE UNCHANGED log
    BY <1>1, <1>2, UpsSame
  <1>3. ASSUME NEW t, AckReceiveShard(g, s, t) PROVE Ups'
    <2> DEFINE op == [type |-> "GiveShard", num |-> t.num, shard |-> t.shard]
    <2>1. (UNCHANGED log \/ StartLog(g, s, op)) /\ op.type # "UpdateConfig"
      BY <1>3 DEF AckReceiveShard
    <2> HIDE DEF op
    <2> QED BY <1>1, <1>2, <2>1, UpsStart
  <1>4. CASE checkAndFinishGiveShard(g, s)
    BY <1>2, <1>4 DEF checkAndFinishGiveShard, raftVars
  <1> QED BY <1>3, <1>4 DEF GiveStep

\* addEmptyLog.
LEMMA UpsEmpty == ASSUME OwnInv, Ups, NEW g \in Group, NEW s \in Server(g), addEmptyLog(g, s) PROVE Ups'
  <1>1. Quiet
    BY EmptyQuiet
  <1>2. StartLog(g, s, NoOp) /\ NoOp.type # "UpdateConfig"
    BY DEF addEmptyLog, NoOp
  <1> QED BY <1>1, <1>2, UpsStart

\* applyMessage.
LEMMA UpsApply == ASSUME OwnInv, Ups, OneChange, NEW g \in Group, NEW s \in Server(g), applyMessage(g, s) PROVE Ups'
  <1> DEFINE j == applied[g][s]
  <1>0. log' = log /\ commit = [q \in Group |-> commit[q]] /\ \A q \in Group : commit[q] \in Nat /\ Len(log[q]) \in Nat
    BY CommitIs DEF applyMessage, OwnInv, Shapes
  <1>1. /\ sm[g][s] = Replay(g, log[g], j) /\ sm'[g][s] = Replay(g, log[g], j + 1)
        /\ \/ j + 1 <= commit[g] /\ commit' = commit
           \/ j + 1 = commit[g] + 1 /\ commit' = [commit EXCEPT ![g] = j + 1] /\ sm[g][s] = Agreed[g]
    BY ApplyIs DEF OwnInv, Runs
  <1>2. j \in Nat
    <2>1. j \in 0 .. commit[g]
      BY DEF OwnInv, Runs
    <2> QED BY <2>1, <1>0
  <1>3. CASE commit' = commit
    <2>1. Agreed' = Agreed
      BY <1>0, <1>3 DEF Agreed
    <2> QED BY <1>0, <1>3, <2>1 DEF Ups
  <1>4. CASE j + 1 = commit[g] + 1 /\ commit' = [commit EXCEPT ![g] = j + 1] /\ sm[g][s] = Agreed[g]
    <2>1. LaterAll(Agreed, Agreed')
      BY <1>4, ApplyNew
    <2>2. ASSUME NEW q \in Group, NEW i \in 1 .. Len(log[q]) PROVE Prepared(Agreed'[q], log[q][i].op)
      <3>1. IsState(Agreed[q]) /\ IsState(Agreed'[q]) /\ Later(Agreed[q], Agreed'[q])
        BY <2>1 DEF LaterAll
      <3>2. IsOp(log[q][i].op) /\ Prepared(Agreed[q], log[q][i].op)
        BY DEF OwnInv, Logs, OwnFits, Ups
      <3> QED BY <3>1, <3>2, PreparedLater
    <2> HIDE DEF j
    <2>3. commit'[g] = j + 1 /\ j = commit[g] /\ \A q \in Group \ {g} : commit'[q] = commit[q]
      BY <1>0, <1>2, <1>4
    <2>4. ASSUME NEW q \in Group, NEW k \in 0 .. commit'[q] - 1
          PROVE  Waits(Replay(q, log[q], k), Replay(q, log[q], k + 1))
      <3>1. CASE k \in 0 .. commit[q] - 1
        BY <3>1 DEF Ups
      <3>2. CASE k \notin 0 .. commit[q] - 1
        <4>1. q = g /\ k = j
          BY <1>0, <1>2, <2>3, <3>2
        <4> QED BY <1>1, <4>1 DEF OneChange
      <3> QED BY <3>1, <3>2
    <2> QED BY <1>0, <2>2, <2>4 DEF Ups
  <1> QED BY <1>1, <1>3, <1>4

\* Every step.
LEMMA UpsStep ==
  ASSUME OwnInv, Ups, ReadyKept, [Next]_vars
  PROVE  OwnInv' /\ Ups'
  <1>0. OneChange
    BY UpsOne
  <1>1. OwnInv'
    BY <1>0, OwnStep
  <1>2. CASE UNCHANGED vars
    <2>1. Quiet
      BY <1>2, LogSame, RunSame, TaskSame, ClerksSame DEF vars, Quiet, raftVars, loopVars, OwnInv, Shapes
    <2>2. UNCHANGED log
      BY <1>2 DEF vars, raftVars
    <2> QED BY <2>1, <2>2, UpsSame, <1>1
  <1>3. CASE Publish
    <2>1. Quiet /\ UNCHANGED log
      BY <1>3, PublishQuiet DEF Publish, raftVars
    <2> QED BY <2>1, UpsSame, <1>1
  <1>4. ASSUME NEW c \in Clerk, ClerkStep(c) \/ LoseCall(c) PROVE Ups'
    BY <1>4, UpsClerk
  <1>5. ASSUME NEW g \in Group, NEW s \in Server(g), Elect(g, s) PROVE Ups'
    BY <1>5, UpsElect
  <1>6. ASSUME NEW g \in Group, NEW s \in Server(g), StepDown(g, s) \/ Restart(g, s) PROVE Ups'
    <2>1. Quiet /\ UNCHANGED log
      BY <1>6, StepDownQuiet, RestartQuiet DEF StepDown, Restart
    <2> QED BY <2>1, UpsSame
  <1>7. ASSUME NEW g \in Group, NEW s \in Server(g), UpdateStep(g, s) PROVE Ups'
    BY <1>7, UpsUpdate
  <1>8. ASSUME NEW g \in Group, NEW s \in Server(g), PullStep(g, s) PROVE Ups'
    BY <1>8, UpsPull
  <1>9. ASSUME NEW g \in Group, NEW s \in Server(g), GiveStep(g, s) PROVE Ups'
    BY <1>9, UpsGive
  <1>10. ASSUME NEW g \in Group, NEW s \in Server(g), addEmptyLog(g, s) PROVE Ups'
    BY <1>10, UpsEmpty
  <1>11. ASSUME NEW g \in Group, NEW s \in Server(g), applyMessage(g, s) PROVE Ups'
    BY <1>0, <1>11, UpsApply
  <1> QED BY <1>1, <1>2, <1>3, <1>4, <1>5, <1>6, <1>7, <1>8, <1>9, <1>10, <1>11 DEF Next

\* The start.
LEMMA UpsFirst == ASSUME Init PROVE Ups
  <1>1. log = [g \in Group |-> FirstEntries(g)] /\ commit = [g \in Group |-> Len(log[g])]
    BY DEF Init
  <1>2. \A g \in Group : log[g] = FirstEntries(g) /\ commit[g] = Len(log[g]) /\ Len(log[g]) \in Nat /\ Len(log[g]) >= 1
    BY <1>1, FirstIs, LogIs
  <1>3. \A g \in Group : InFirst(g, Agreed[g])
    <2>1. ASSUME NEW g \in Group PROVE InFirst(g, Agreed[g])
      <3>1. Agreed[g] = Replay(g, log[g], Len(log[g])) /\ Len(log[g]) \in 1 .. Len(log[g])
        BY <1>2 DEF Agreed
      <3> QED BY <3>1, <1>2, FirstAll
    <2> QED BY <2>1
  <1>4. ASSUME NEW g \in Group, NEW i \in 1 .. Len(log[g]) PROVE Prepared(Agreed[g], log[g][i].op)
    <2>1. CASE i = 1
      <3>1. log[g][i].op = [type |-> "UpdateConfig", num |-> 1]
        BY <1>2, <2>1, FirstIs
      <3> QED BY <1>3, <3>1 DEF Prepared, InFirst
    <2>2. CASE i # 1
      <3>1. i \in 2 .. Len(FirstEntries(g))
        BY <1>2, <2>2
      <3>2. PICK c \in Mine(g) : log[g][i].op = Command(c, 1)
        BY <1>2, <3>1, FirstIs
      <3>3. Command(c, 1).type # "UpdateConfig"
        BY MineIs, CommandIs, ScriptIs
      <3> QED BY <3>2, <3>3 DEF Prepared
    <2> QED BY <2>1, <2>2
  <1>5. ASSUME NEW g \in Group, NEW j \in 0 .. commit[g] - 1 PROVE Waits(Replay(g, log[g], j), Replay(g, log[g], j + 1))
    <2>1. CASE j = 0
      BY <2>1, ReplayNone, NewIs DEF Waits, updateConfigReady
    <2>2. CASE j # 0
      <3>1. j \in 1 .. Len(FirstEntries(g)) /\ j + 1 \in 1 .. Len(FirstEntries(g))
        BY <1>2, <2>2
      <3>2. Replay(g, log[g], j).cur = 1 /\ Replay(g, log[g], j + 1).cur = 1
        BY <1>2, <3>1, FirstAll DEF InFirst
      <3> QED BY <3>2 DEF Waits
    <2> QED BY <2>1, <2>2
  <1> QED BY <1>4, <1>5 DEF Ups

\* The one way to enter a configuration before the last is settled
\* (MCShardKV_gap) is the window between the two critical sections of
\* getLastestConfig: if a server that has found its group ready is ready until
\* it has proposed, changes come one at a time and each shard has one owner.
THEOREM GapOnly == Spec /\ []ReadyKept => OneChangeAtATime /\ []OneOwner
  <1>1. Init => OwnInv /\ Ups
    BY OwnFirst, UpsFirst
  <1>2. OwnInv /\ Ups /\ ReadyKept /\ [Next]_vars => OwnInv' /\ Ups'
    BY UpsStep
  <1>3. OwnInv /\ Ups /\ [Next]_vars => OneChange
    BY UpsOne
  <1>4. [][OneChange]_vars => OneChangeAtATime
    BY OneChangeIs, PTL DEF OneChangeAtATime
  <1> QED BY <1>1, <1>2, <1>3, <1>4, OwnersUnique, PTL DEF Spec
=============================================================================
