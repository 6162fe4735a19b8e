---------------------------- MODULE ShardMaster ----------------------------
(***************************************************************************)
(* src/shardmaster: the servers of a shard master and their clerks, over   *)
(* ReplicatedLog.                                                          *)
(*                                                                         *)
(* A clerk calls one server after the other until it is answered OK, so    *)
(* the RPC handler that works for a clerk is part of the clerk's record:   *)
(* where it is (pc), the server, the index Start gave it and the channel   *)
(* it made.  The handler's critical sections (session check, Start,        *)
(* createNotifyCh, select) are separate steps.  A request is the pair of a *)
(* clerk and its SeqNum; Script says what the clerk asks.  The goroutines  *)
(* that close channels are counted by index in closing.                    *)
(***************************************************************************)
EXTENDS ReplicatedLog, ShardBalance

CONSTANTS
    Clerk,
    Script,      \* what each clerk asks, in its order
    NoClerk,     \* no channel in notifyMapCh
    MaxTroubles  \* bound: lost calls, lost answers, early timeouts and restarts

ASSUME ClerkAssumption == NoClerk \notin Clerk /\ DOMAIN Script = Clerk
(* Clerks have four methods.  A Query asks for the latest configuration    *)
(* (-1) or for one by its number.                                          *)
ASSUME ScriptAssumption ==
    \A c \in Clerk : /\ Len(Script[c]) \in Nat
                      /\ \A n \in 1 .. Len(Script[c]) :
                            LET op == Script[c][n]
                            IN  \/ op.type \in {"Join", "Leave"} /\ op.gids \subseteq GIDs
                                \/ /\ op.type = "Move"
                                   /\ op.shard \in Shard /\ op.gid \in GIDs \cup {0}
                                \/ op.type = "Query" /\ op.num \in Nat \cup {-1}
ASSUME TroubleAssumption == MaxTroubles \in Nat

VARIABLES
    configs, sessions, notifyMapCh,  \* fields of ShardMaster
    closing,                         \* goroutines about to run closeNotifyCh
    clerk,                           \* each clerk and the handler of its call
    faults, restarts,
    ran,                             \* history: the requests that made each server's configs
    seen,                            \* history: newest configuration anybody was told of
    doubtful                         \* history: requests answered on an index used twice

smVars == <<configs, sessions, notifyMapCh, closing>>
vars == <<raftVars, smVars, clerk, faults, restarts, ran, seen, doubtful>>

Index == 1 .. MaxLog

Op(req) == Script[req[1]][req[2]]
Request(c) == <<c, clerk[c].seq>>

(* Reply{}: what a closed channel gives. *)
ZeroReply == [err |-> "", config |-> InitConfig]

NoSession == [lastSeqNum |-> 0, response |-> ZeroReply]

FreshClerk == [seq |-> 1, pc |-> "idle", srv |-> 1, index |-> 0, chan |-> <<>>,
               shared |-> FALSE, floor |-> 0, got |-> 0]

Init ==
    /\ RaftInit
    /\ configs = [s \in Server |-> <<InitConfig>>]
    /\ sessions = [s \in Server |-> [c \in Clerk |-> NoSession]]
    /\ notifyMapCh = [s \in Server |-> [i \in Index |-> NoClerk]]
    /\ closing = [s \in Server |-> [i \in Index |-> 0]]
    /\ clerk = [c \in Clerk |-> FreshClerk]
    /\ faults = 0
    /\ restarts = 0
    /\ ran = [s \in Server |-> <<>>]
    /\ seen = 0
    /\ doubtful = {}

-----------------------------------------------------------------------------
(* Clerks and the handlers that work for them. *)

(* The clerk goes to the next server; after the last it sleeps and starts  *)
(* over.                                                                   *)
AtNext(r) == [r EXCEPT !.pc = "call", !.index = 0, !.chan = <<>>, !.shared = FALSE,
                       !.srv = IF @ + 1 \in Server THEN @ + 1 ELSE 1]

TryNext(c) == clerk' = [clerk EXCEPT ![c] = AtNext(@)] /\ UNCHANGED <<seen, doubtful>>

(* The call returns OK and the clerk's function returns. *)
Finish(c, reply) ==
    LET asked == Op(Request(c)).type = "Query"
        made == {k \in DOMAIN ran[clerk[c].srv] : ran[clerk[c].srv][k] = Request(c)}
    IN  /\ clerk' = [clerk EXCEPT ![c] = [FreshClerk EXCEPT
                        !.seq = clerk[c].seq + 1, !.floor = clerk[c].floor,
                        !.got = reply.config.num, !.shared = clerk[c].shared]]
        /\ seen' = Max({seen} \cup (IF asked THEN {reply.config.num} ELSE made))
        /\ doubtful' = IF clerk[c].shared THEN doubtful \cup {Request(c)} ELSE doubtful

Trouble == faults + restarts < MaxTroubles

(* The handler returns reply; it may be lost on its way. *)
Answer(c, reply) ==
    \/ /\ IF reply.err = "OK" THEN Finish(c, reply) ELSE TryNext(c)
       /\ UNCHANGED faults
    \/ /\ Trouble
       /\ faults' = faults + 1
       /\ TryNext(c)

(* Clerk.Join, Leave, Move or Query is called. *)
Invoke(c) ==
    /\ clerk[c].pc = "idle"
    /\ clerk[c].seq <= Len(Script[c])
    /\ clerk' = [clerk EXCEPT ![c].pc = "call", ![c].floor = seen, ![c].shared = FALSE]
    /\ UNCHANGED <<raftVars, smVars, faults, restarts, ran, seen, doubtful>>

LoseCall(c) ==
    /\ clerk[c].pc = "call"
    /\ Trouble
    /\ faults' = faults + 1
    /\ TryNext(c)
    /\ UNCHANGED <<raftVars, smVars, restarts, ran>>

(* Mutant: a leader answers a Query from what it has applied. *)
EnterHandler_LocalRead(c) ==
    LET s == clerk[c].srv
        op == Op(Request(c))
    IN  /\ clerk[c].pc = "call"
        /\ IF op.type = "Query" /\ isLeader[s]
           THEN Answer(c, [err |-> "OK", config |-> executeQuery(configs[s], op.num)])
           ELSE /\ clerk' = [clerk EXCEPT ![c].pc = "start"]
                /\ UNCHANGED <<faults, seen, doubtful>>
        /\ UNCHANGED <<raftVars, smVars, restarts, ran>>

(* The first section of Join, Leave and Move looks at the session; Query   *)
(* has none.                                                               *)
EnterHandler(c) ==
    LET session == sessions[clerk[c].srv][c]
    IN  /\ clerk[c].pc = "call"
        /\ IF Op(Request(c)).type # "Query" /\ clerk[c].seq <= session.lastSeqNum
           THEN Answer(c, IF clerk[c].seq = session.lastSeqNum
                          THEN session.response ELSE ZeroReply)
           ELSE /\ clerk' = [clerk EXCEPT ![c].pc = "start"]
                /\ UNCHANGED <<faults, seen, doubtful>>
        /\ UNCHANGED <<raftVars, smVars, restarts, ran>>

(* Handlers that have this index of this server. *)
Holders(s, i) ==
    {c \in Clerk : clerk[c].pc \in {"create", "wait"} /\ clerk[c].srv = s /\ clerk[c].index = i}

Start(c) ==
    LET s == clerk[c].srv
        i == Len(log[s]) + 1
        others == Holders(s, i)
    IN  /\ clerk[c].pc = "start"
        /\ IF isLeader[s]
           THEN /\ AppendToLog(s, Request(c))
                /\ clerk' = [d \in Clerk |->
                      IF d = c THEN [clerk[c] EXCEPT !.pc = "create", !.index = i,
                                                     !.shared = others # {}]
                      ELSE IF d \in others THEN [clerk[d] EXCEPT !.shared = TRUE]
                      ELSE clerk[d]]
                /\ UNCHANGED <<seen, doubtful>>
           ELSE TryNext(c) /\ UNCHANGED raftVars
        /\ UNCHANGED <<smVars, faults, restarts, ran>>

createNotifyCh(c) ==
    /\ clerk[c].pc = "create"
    /\ notifyMapCh' = [notifyMapCh EXCEPT ![clerk[c].srv][clerk[c].index] = c]
    /\ clerk' = [clerk EXCEPT ![c].pc = "wait"]
    /\ UNCHANGED <<raftVars, configs, sessions, closing, faults, restarts, ran,
                   seen, doubtful>>

(* The handler leaves its select: go sm.closeNotifyCh(index). *)
LeaveSelect(c) ==
    /\ clerk[c].pc = "wait"
    /\ closing' = [closing EXCEPT ![clerk[c].srv][clerk[c].index] = @ + 1]
    /\ UNCHANGED <<raftVars, configs, sessions, notifyMapCh, restarts, ran>>

Receive(c) ==
    /\ clerk[c].chan # <<>>
    /\ LeaveSelect(c)
    /\ Answer(c, Head(clerk[c].chan))

(* Nothing can come any more: the channel is not in the map, the index has *)
(* been applied, or the server no longer leads in the term of the entry.   *)
Hopeless(c) ==
    LET s == clerk[c].srv
        i == clerk[c].index
    IN  \/ notifyMapCh[s][i] # c
        \/ lastApplied[s] >= i
        \/ ~isLeader[s]
        \/ ~(i <= Len(log[s]) /\ log[s][i].term = currentTerm[s])

(* RespondTimeout; one that comes although an answer may come is a fault.  *)
Timeout(c) ==
    /\ LeaveSelect(c)
    /\ \/ clerk[c].chan = <<>> /\ Hopeless(c) /\ UNCHANGED faults
       \/ Trouble /\ faults' = faults + 1
    /\ TryNext(c)

-----------------------------------------------------------------------------
(* Servers. *)

(* The handler that holds the channel found at index i, if it still waits. *)
Waiting(s, i) == {c \in Holders(s, i) : clerk[c].pc = "wait" /\ notifyMapCh[s][i] = c}

Put(cs, reply) ==
    clerk' = [c \in Clerk |-> IF c \in cs /\ clerk[c].chan = <<>>
                              THEN [clerk[c] EXCEPT !.chan = <<reply>>] ELSE clerk[c]]

closeNotifyCh(s, i) ==
    /\ closing[s][i] > 0
    /\ closing' = [closing EXCEPT ![s][i] = @ - 1]
    /\ Put(Waiting(s, i), ZeroReply)
    /\ notifyMapCh' = [notifyMapCh EXCEPT ![s][i] = NoClerk]
    /\ UNCHANGED <<raftVars, configs, sessions, faults, restarts, ran, seen,
                   doubtful>>

(* Configurations that op may append, one for each order of the groups.    *)
Executed(op, last) ==
    CASE op.type = "Join" ->
            {executeJoin(last, op.gids, o) : o \in SetToSeqs(last.groups \cup op.gids)}
      [] op.type = "Leave" ->
            {executeLeave(last, op.gids, o) : o \in SetToSeqs(last.groups \ op.gids)}
      [] op.type = "Move" -> {executeMove(last, op.shard, op.gid)}

(* Mutant: the request executed last may be executed again. *)
IsRepeated_OffByOne(s, req) ==
    Op(req).type # "Query" /\ req[2] < sessions[s][req[1]].lastSeqNum

(* A request other than Query that has been executed. *)
IsRepeated(s, req) ==
    Op(req).type # "Query" /\ req[2] <= sessions[s][req[1]].lastSeqNum

(* Mutant: whoever waits on the index is told, leader or not. *)
Notify_Unchecked(s, i, reply) == Put(Waiting(s, i), reply)

(* To the handler that waits on index i, if this server leads and the      *)
(* entry is of its term.                                                   *)
Notify(s, i, reply) ==
    IF isLeader[s] /\ log[s][i].term = currentTerm[s] THEN Put(Waiting(s, i), reply)
    ELSE UNCHANGED clerk

applyConfigChange(s) ==
    LET i == lastApplied[s] + 1
        req == log[s][i].cmd
        op == Op(req)
        done == [err |-> "OK", config |-> InitConfig]
    IN  /\ ApplyNext(s)
        /\ \/ /\ IsRepeated(s, req)
              /\ Notify(s, i, sessions[s][req[1]].response)
              /\ UNCHANGED <<configs, sessions, ran>>
           \/ /\ op.type = "Query"
              /\ Notify(s, i, [err |-> "OK", config |-> executeQuery(configs[s], op.num)])
              /\ UNCHANGED <<configs, sessions, ran>>
           \/ /\ op.type # "Query" /\ ~IsRepeated(s, req)
              /\ \E config \in Executed(op, Last(configs[s])) :
                    configs' = [configs EXCEPT ![s] = Append(@, config)]
              /\ sessions' = [sessions EXCEPT ![s][req[1]] =
                                [lastSeqNum |-> req[2], response |-> done]]
              /\ ran' = [ran EXCEPT ![s] = Append(@, req)]
              /\ Notify(s, i, done)
        /\ UNCHANGED <<notifyMapCh, closing, faults, restarts, seen, doubtful>>

(* Kill and StartServer: everything but the Persister is new, the log is   *)
(* applied again from its start, and calls under way fail.                 *)
Restart(s) ==
    /\ Trouble
    /\ restarts' = restarts + 1
    /\ RestartRaft(s)
    /\ configs' = [configs EXCEPT ![s] = <<InitConfig>>]
    /\ sessions' = [sessions EXCEPT ![s] = [c \in Clerk |-> NoSession]]
    /\ notifyMapCh' = [notifyMapCh EXCEPT ![s] = [i \in Index |-> NoClerk]]
    /\ closing' = [closing EXCEPT ![s] = [i \in Index |-> 0]]
    /\ ran' = [ran EXCEPT ![s] = <<>>]
    /\ clerk' = [c \in Clerk |->
            IF clerk[c].srv = s /\ clerk[c].pc \in {"start", "create", "wait"}
            THEN AtNext(clerk[c])
            ELSE clerk[c]]
    /\ UNCHANGED <<faults, seen, doubtful>>

-----------------------------------------------------------------------------

RaftStep(A) == A /\ UNCHANGED <<smVars, clerk, faults, restarts, ran, seen, doubtful>>

ClerkStep(c) ==
    \/ Invoke(c) \/ LoseCall(c) \/ EnterHandler(c) \/ Start(c) \/ createNotifyCh(c)
    \/ Receive(c) \/ Timeout(c)

ServerStep(s) ==
    \/ RaftStep(Elect(s))
    \/ RaftStep(Commit(s))
    \/ \E l \in Server : RaftStep(Replicate(l, s))
    \/ applyConfigChange(s)
    \/ \E i \in Index : closeNotifyCh(s, i)
    \/ Restart(s)

Next == (\E c \in Clerk : ClerkStep(c)) \/ (\E s \in Server : ServerStep(s))

Spec == Init /\ [][Next]_vars

-----------------------------------------------------------------------------

Reply == [err : {"", "OK"}, config : [num : Nat, shards : Assignment, groups : SUBSET GIDs]]

TypeOK ==
    /\ currentTerm \in [Server -> 0 .. MaxTerm] /\ isLeader \in [Server -> BOOLEAN]
    /\ lastApplied \in [Server -> 0 .. MaxLog] /\ commitIndex \in [Server -> 0 .. MaxLog]
    /\ \A s \in Server :
        /\ \A i \in DOMAIN log[s] : log[s][i].term \in 1 .. MaxTerm
        /\ sessions[s] \in [Clerk -> [lastSeqNum : Nat, response : Reply]]
        /\ notifyMapCh[s] \in [Index -> Clerk \cup {NoClerk}]
        /\ closing[s] \in [Index -> Nat]
    /\ \A c \in Clerk :
        /\ clerk[c].pc \in {"idle", "call", "start", "create", "wait"}
        /\ clerk[c].srv \in Server /\ clerk[c].index \in 0 .. MaxLog
        /\ Len(clerk[c].chan) <= 1 /\ \A i \in DOMAIN clerk[c].chan : clerk[c].chan[i] \in Reply

(* server.go:305: a request that is in the log more than once changes the  *)
(* configuration of a server once.                                         *)
AtMostOnce == \A s \in Server : IsInjective(ran[s])

(* Servers that apply the same log have the same configurations, though    *)
(* each walks its maps in its own order and starts over when it restarts.  *)
ConfigsAgree ==
    \A s, t \in Server : IsPrefix(configs[s], configs[t]) \/ IsPrefix(configs[t], configs[s])

Durable(req) == \E i \in DOMAIN committed : committed[i].cmd = req

(* server.go:342-345: when a clerk's Join, Leave or Move returns, the      *)
(* request is in the log for good, unless its index was given to another   *)
(* request of the same server while its handler was at work.               *)
AckedKept ==
    \A c \in Clerk : \A n \in 1 .. clerk[c].seq - 1 :
        Script[c][n].type # "Query" /\ <<c, n>> \notin doubtful => Durable(<<c, n>>)

(* The same without the exception: server.go:32 says that a handler is     *)
(* told of the execution of its own request.                               *)
EveryAckKept ==
    \A c \in Clerk : \A n \in 1 .. clerk[c].seq - 1 :
        Script[c][n].type # "Query" => Durable(<<c, n>>)

(* A Query returns a configuration at least as new as any that a clerk had *)
(* been told of when it was called, whoever answers (Query goes through    *)
(* the log, server.go:201).                                                *)
QueriesFresh ==
    \A c \in Clerk :
        clerk[c].pc = "idle" /\ clerk[c].seq > 1 /\ ~clerk[c].shared =>
            LET op == Script[c][clerk[c].seq - 1]
            IN  op.type = "Query" =>
                    clerk[c].got >= IF op.num = -1 THEN clerk[c].floor
                                    ELSE Min({op.num, clerk[c].floor})

-----------------------------------------------------------------------------
(* Fairness: as long as a goroutine can run, a call can return, a leader's *)
(* AppendEntries can bring something new or a leader can commit, one of    *)
(* these happens.  Elections, faults and restarts are not asked for.       *)
Progress ==
    \/ \E c \in Clerk : Invoke(c) \/ EnterHandler(c) \/ Start(c) \/ createNotifyCh(c)
                         \/ Receive(c) \/ Timeout(c)
    \/ \E s \in Server :
        \/ RaftStep(Commit(s))
        \/ \E l \in Server : RaftStep(Replicate(l, s))
        \/ applyConfigChange(s)
        \/ \E i \in Index : closeNotifyCh(s, i)

Fairness == WF_vars(Progress)

FairSpec == Spec /\ Fairness

(* Some leader is the newest. *)
Led == \E s \in Server : isLeader[s] /\ \A t \in Server : currentTerm[t] <= currentTerm[s]

Served == \A c \in Clerk : clerk[c].seq > Len(Script[c])

(* Once a leader stays, every clerk gets its answers, although channels    *)
(* may be made too late (server.go:91), closed by others (server.go:101)   *)
(* or wait for an entry that is gone.                                      *)
AllServed == <>[]Led => <>Served
=============================================================================
