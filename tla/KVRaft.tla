------------------------------- MODULE KVRaft -------------------------------
(***************************************************************************)
(* src/kvraft: the servers of the replicated key/value store and their     *)
(* clerks, over ReplicatedLog, with the apply path and the snapshots of    *)
(* src/raft-Lab2D that the store uses.                                     *)
(*                                                                         *)
(* There is one key; its value is the sequence of the writes that made it. *)
(* A request is the pair of a clerk and its SeqId.  Logs are kept whole:   *)
(* base says how much of one has been trimmed.  applyChan has no buffer:   *)
(* batch is what applyLog still has to send, and install the snapshot that *)
(* InstallSnapshotHandler sends with rf.mu held.                           *)
(*                                                                         *)
(* The RPC handler that works for a clerk is part of the clerk's record.   *)
(* Its channel is the one in waitChMap until somebody deletes the index    *)
(* there; from then on the handler alone holds it (own).  Where several    *)
(* handlers wait on a channel that leaves the map, which takes three       *)
(* clerks, each has its content: the code gives it to one of them, and the *)
(* others time out, as they may here.                                      *)
(***************************************************************************)
EXTENDS ReplicatedLog

CONSTANTS
    Clerk,
    Script,      \* what each clerk asks, in its order: "Get", "Put" or "Append"
    MaxTroubles  \* bound: lost calls and answers, timeouts and restarts

ASSUME ClerkAssumption ==
    /\ IsFiniteSet(Clerk)
    /\ \A c \in Clerk : Script[c] \in Seq({"Get", "Put", "Append"})
ASSUME TroubleAssumption == MaxTroubles \in Nat

VARIABLES
    base, snapshot,    \* of each server: index and content of its snapshot
    batch, install,    \* what is about to be sent on applyChan
    kvPersist, seqMap, lastIncludeIndex, waitChMap,  \* fields of KVServer
    loop,              \* where applyMsgHandlerLoop is
    clerk,             \* each clerk and the handler of its call
    troubles,
    upTo,              \* history: index of the last entry in kvPersist
    acked              \* history: writes whose clerk has returned

diskVars == <<base, snapshot>>
storeVars == <<kvPersist, seqMap, lastIncludeIndex, upTo>>
vars == <<raftVars, diskVars, batch, install, storeVars, waitChMap, loop, clerk, troubles, acked>>

Index == 1 .. MaxLog
Op(req) == Script[req[1]][req[2]]
Request(c) == <<c, clerk[c].seq>>

Empty == [value |-> <<>>, seq |-> [c \in Clerk |-> 0]]
Running == [pc |-> "receive", index |-> 0]
FreshClerk == [seq |-> 1, pc |-> "idle", srv |-> 1, index |-> 0, own |-> <<>>, alone |-> FALSE,
               floor |-> {}, got |-> <<>>]

(* NoChan: no channel in the map; a channel holds at most one request.     *)
NoChan == <<"none">>

Init ==
    /\ RaftInit
    /\ base = [s \in Server |-> 0] /\ snapshot = [s \in Server |-> Empty]
    /\ batch = [s \in Server |-> <<>>] /\ install = [s \in Server |-> 0]
    /\ kvPersist = [s \in Server |-> <<>>] /\ seqMap = [s \in Server |-> Empty.seq]
    /\ lastIncludeIndex = [s \in Server |-> 0] /\ upTo = [s \in Server |-> 0]
    /\ waitChMap = [s \in Server |-> [i \in Index |-> NoChan]]
    /\ loop = [s \in Server |-> Running]
    /\ clerk = [c \in Clerk |-> FreshClerk]
    /\ troubles = 0 /\ acked = {}

(* rf.mu is free. *)
Unlocked(s) == install[s] = 0

-----------------------------------------------------------------------------
(* Clerks and the handlers that work for them. *)

(* The clerk turns to the next server. *)
AtNext(r) == [r EXCEPT !.pc = "call", !.index = 0, !.own = <<>>, !.alone = FALSE,
                       !.srv = (@ % NServers) + 1]

(* Clerk.Get, Put or Append is called. *)
Invoke(c) ==
    /\ clerk[c].pc = "idle" /\ clerk[c].seq <= Len(Script[c])
    /\ clerk' = [clerk EXCEPT ![c].pc = "call", ![c].floor = acked]
    /\ UNCHANGED <<raftVars, diskVars, batch, install, storeVars, waitChMap, loop, troubles, acked>>

(* ErrWrongLeader, or the call is lost. *)
CallFails(c) ==
    /\ clerk[c].pc = "call"
    /\ isLeader[clerk[c].srv] => troubles < MaxTroubles
    /\ troubles' = IF isLeader[clerk[c].srv] THEN troubles + 1 ELSE troubles
    /\ clerk' = [clerk EXCEPT ![c] = AtNext(@)]
    /\ UNCHANGED <<raftVars, diskVars, batch, install, storeVars, waitChMap, loop, acked>>

(* Mutant: a server that thinks it leads answers a Get at once. *)
Start_LocalRead(c) ==
    LET s == clerk[c].srv
        local == Op(Request(c)) = "Get"
    IN  /\ clerk[c].pc = "call" /\ Unlocked(s) /\ isLeader[s]
        /\ IF local THEN UNCHANGED raftVars ELSE AppendToLog(s, Request(c))
        /\ clerk' = [clerk EXCEPT ![c] =
                IF local THEN [@ EXCEPT !.pc = "idle", !.seq = @ + 1, !.got = kvPersist[s]]
                ELSE [@ EXCEPT !.pc = "started", !.index = Len(log[s]) + 1]]
        /\ UNCHANGED <<diskVars, batch, install, storeVars, waitChMap, loop, troubles, acked>>

(* GetState and Start.  A server that loses its office between them waits  *)
(* for its timeout in vain: the clerk goes on either way.                  *)
Start(c) ==
    LET s == clerk[c].srv
    IN  /\ clerk[c].pc = "call" /\ Unlocked(s) /\ isLeader[s]
        /\ AppendToLog(s, Request(c))
        /\ clerk' = [clerk EXCEPT ![c].pc = "started", ![c].index = Len(log[s]) + 1]
        /\ UNCHANGED <<diskVars, batch, install, storeVars, waitChMap, loop, troubles, acked>>

getWaitCh(chans, i) == IF chans[i] = NoChan THEN [chans EXCEPT ![i] = <<>>] ELSE chans

Wait(c) ==
    LET s == clerk[c].srv
    IN  /\ clerk[c].pc = "started"
        /\ waitChMap' = [waitChMap EXCEPT ![s] = getWaitCh(@, clerk[c].index)]
        /\ clerk' = [clerk EXCEPT ![c].pc = "wait"]
        /\ UNCHANGED <<raftVars, diskVars, batch, install, storeVars, loop, troubles, acked>>

(* The deferred delete takes the channel from whoever else waits on it,    *)
(* which may no longer be the one c waited on; left is what remains in     *)
(* that one.                                                               *)
Deleted(c, left) ==
    LET s == clerk[c].srv
        i == clerk[c].index
    IN  [d \in Clerk |-> IF /\ d # c /\ clerk[d].pc = "wait" /\ ~clerk[d].alone
                            /\ clerk[d].srv = s /\ clerk[d].index = i
                         THEN [clerk[d] EXCEPT !.alone = TRUE,
                                    !.own = IF clerk[c].alone THEN waitChMap[s][i] ELSE left]
                         ELSE clerk[d]]

Leave(c, r, left) ==
    /\ clerk' = [Deleted(c, left) EXCEPT ![c] = r]
    /\ waitChMap' = [waitChMap EXCEPT ![clerk[c].srv][clerk[c].index] = NoChan]
    /\ UNCHANGED <<raftVars, diskVars, batch, install, storeVars, loop>>

(* The channel c waits on. *)
Channel(c) == IF clerk[c].alone THEN clerk[c].own ELSE waitChMap[clerk[c].srv][clerk[c].index]

(* Mutant: any operation at the index will do. *)
Mine_Any(c, req) == TRUE

(* The operation applied at the index is the one that was asked for. *)
Mine(c, req) == req = Request(c)

(* The call returns OK; a Get reads the value now. *)
Finish(c) ==
    /\ Leave(c, [FreshClerk EXCEPT !.seq = clerk[c].seq + 1, !.srv = clerk[c].srv,
                    !.floor = clerk[c].floor, !.got = kvPersist[clerk[c].srv]], <<>>)
    /\ acked' = IF Op(Request(c)) = "Get" THEN acked ELSE acked \cup {Request(c)}

Receive(c) ==
    /\ clerk[c].pc = "wait" /\ Len(Channel(c)) = 1
    /\ UNCHANGED troubles
    /\ IF Mine(c, Channel(c)[1]) THEN Finish(c)
       ELSE Leave(c, AtNext(clerk[c]), <<>>) /\ UNCHANGED acked

(* The 300 ms are over, or the answer is lost. *)
Timeout(c) ==
    /\ clerk[c].pc = "wait"
    /\ troubles < MaxTroubles /\ troubles' = troubles + 1
    /\ Leave(c, AtNext(clerk[c]), Channel(c))
    /\ UNCHANGED acked

-----------------------------------------------------------------------------
(* The way from the log to the store. *)

(* applyLog takes everything that is committed and sends it unlocked. *)
applyLog(s) ==
    /\ Unlocked(s) /\ batch[s] = <<>> /\ lastApplied[s] < commitIndex[s]
    /\ batch' = [batch EXCEPT ![s] = [k \in 1 .. commitIndex[s] - lastApplied[s] |-> lastApplied[s] + k]]
    /\ lastApplied' = [lastApplied EXCEPT ![s] = commitIndex[s]]
    /\ UNCHANGED <<currentTerm, isLeader, log, commitIndex, committed, diskVars, install, storeVars,
                   waitChMap, loop, clerk, troubles, acked>>

(* Mutant: the request executed last may be executed again. *)
ifDuplicate_OffByOne(seq, req) == req[2] < seq[req[1]]

ifDuplicate(seq, req) == req[2] <= seq[req[1]]

(* The value after a request. *)
Written(value, req) ==
    CASE Op(req) = "Put" -> <<req>> [] Op(req) = "Append" -> Append(value, req) [] OTHER -> value

(* applyMsgHandlerLoop gets a command.  It returns, for good, if a         *)
(* snapshot has overtaken it.                                              *)
applyCommand(s) ==
    /\ loop[s].pc = "receive" /\ batch[s] # <<>>
    /\ batch' = [batch EXCEPT ![s] = Tail(@)]
    /\ LET i == Head(batch[s])
           req == log[s][i].cmd
       IN  IF i <= lastIncludeIndex[s]
           THEN loop' = [loop EXCEPT ![s].pc = "ended"] /\ UNCHANGED <<kvPersist, seqMap, upTo>>
           ELSE /\ \E pc \in {"snapshot", "notify"} : loop' = [loop EXCEPT ![s] = [pc |-> pc, index |-> i]]
                /\ upTo' = [upTo EXCEPT ![s] = i]
                /\ IF ifDuplicate(seqMap[s], req) THEN UNCHANGED <<kvPersist, seqMap>>
                   ELSE /\ kvPersist' = [kvPersist EXCEPT ![s] = Written(@, req)]
                        /\ seqMap' = [seqMap EXCEPT ![s][req[1]] = req[2]]
    /\ UNCHANGED <<raftVars, diskVars, install, lastIncludeIndex, waitChMap, clerk, troubles, acked>>

PersistSnapShot(s) == [value |-> kvPersist[s], seq |-> seqMap[s]]

(* The index a snapshot is taken at: that of the command just executed. *)
SnapshotIndex(s) == loop[s].index

(* The log has grown too big: Snapshot, which trims it. *)
Snapshot(s) ==
    /\ loop[s].pc = "snapshot" /\ Unlocked(s)
    /\ base' = [base EXCEPT ![s] = IF @ >= SnapshotIndex(s) THEN @ ELSE SnapshotIndex(s)]
    /\ snapshot' = [snapshot EXCEPT ![s] = PersistSnapShot(s)]
    /\ loop' = [loop EXCEPT ![s].pc = "notify"]
    /\ UNCHANGED <<raftVars, batch, install, storeVars, waitChMap, clerk, troubles, acked>>

(* kv.getWaitCh(index) <- op, which blocks while the channel is full. *)
Notify(s) ==
    LET i == loop[s].index
    IN  /\ loop[s].pc = "notify"
        /\ waitChMap[s][i] \in {NoChan, <<>>}
        /\ waitChMap' = [waitChMap EXCEPT ![s][i] = <<log[s][i].cmd>>]
        /\ loop' = [loop EXCEPT ![s] = Running]
        /\ UNCHANGED <<raftVars, diskVars, batch, install, storeVars, clerk, troubles, acked>>

DecodeSnapShot(s, data) ==
    /\ kvPersist' = [kvPersist EXCEPT ![s] = data.value]
    /\ seqMap' = [seqMap EXCEPT ![s] = data.seq]

(* The loop gets the snapshot; the handler that sent it unlocks rf.mu. *)
applySnapshot(s) ==
    /\ loop[s].pc = "receive" /\ ~Unlocked(s)
    /\ DecodeSnapShot(s, snapshot[s])
    /\ lastIncludeIndex' = [lastIncludeIndex EXCEPT ![s] = install[s]]
    /\ upTo' = [upTo EXCEPT ![s] = install[s]]
    /\ install' = [install EXCEPT ![s] = 0]
    /\ UNCHANGED <<raftVars, diskVars, batch, waitChMap, loop, clerk, troubles, acked>>

-----------------------------------------------------------------------------
(* Raft below. *)

(* Whoever holds rf.mu takes no part. *)
RaftStep(A) ==
    /\ A
    /\ \A q \in Server : ~Unlocked(q) =>
            UNCHANGED <<currentTerm[q], isLeader[q], log[q], commitIndex[q]>>
    /\ UNCHANGED <<diskVars, batch, install, storeVars, waitChMap, loop, clerk, troubles, acked>>

(* Leader l sends its snapshot, and it covers more than s knows to be      *)
(* committed (after a restart s knows of nothing).                         *)
Newer(l, s) ==
    /\ l # s /\ isLeader[l] /\ Unlocked(s) /\ currentTerm[l] >= currentTerm[s]
    /\ base[l] > commitIndex[s]

(* InstallSnapshotHandler: what s holds beyond the snapshot stays. *)
InstallSnapshot(l, s) ==
    LET i == base[l]
    IN  /\ Newer(l, s) /\ i >= base[s]
        /\ currentTerm' = [currentTerm EXCEPT ![s] = currentTerm[l]]
        /\ isLeader' = [isLeader EXCEPT ![s] = FALSE]
        /\ log' = [log EXCEPT ![s] = SubSeq(log[l], 1, i) \o SubSeq(@, i + 1, Len(@))]
        /\ commitIndex' = [commitIndex EXCEPT ![s] = i]
        /\ lastApplied' = [lastApplied EXCEPT ![s] = i]
        /\ base' = [base EXCEPT ![s] = i]
        /\ snapshot' = [snapshot EXCEPT ![s] = snapshot[l]]
        /\ install' = [install EXCEPT ![s] = i]
        /\ UNCHANGED <<committed, batch, storeVars, waitChMap, loop, clerk, troubles, acked>>

(* StartKVServer and Make.  A leader may lose entries of its term it has   *)
(* not yet persisted (appendLog does not), and calls under way fail.       *)
StartedAgain(s) ==
    /\ \E n \in commitIndex[s] .. Len(log[s]) :
        /\ \A i \in n + 1 .. Len(log[s]) : isLeader[s] /\ log[s][i].term = currentTerm[s]
        /\ n >= base[s]
        /\ log' = [log EXCEPT ![s] = SubSeq(@, 1, n)]
    /\ isLeader' = [isLeader EXCEPT ![s] = FALSE]
    /\ commitIndex' = [commitIndex EXCEPT ![s] = 0]
    /\ lastApplied' = [lastApplied EXCEPT ![s] = base[s]]
    /\ batch' = [batch EXCEPT ![s] = <<>>] /\ install' = [install EXCEPT ![s] = 0]
    /\ DecodeSnapShot(s, snapshot[s])
    /\ lastIncludeIndex' = [lastIncludeIndex EXCEPT ![s] = 0]
    /\ upTo' = [upTo EXCEPT ![s] = base[s]]
    /\ waitChMap' = [waitChMap EXCEPT ![s] = [i \in Index |-> NoChan]]
    /\ loop' = [loop EXCEPT ![s] = Running]
    /\ clerk' = [c \in Clerk |-> IF clerk[c].srv = s /\ clerk[c].pc \in {"started", "wait"}
                                 THEN AtNext(clerk[c]) ELSE clerk[c]]
    /\ UNCHANGED <<currentTerm, committed, diskVars, acked>>

(* Kill first. *)
Restart(s) == troubles < MaxTroubles /\ troubles' = troubles + 1 /\ StartedAgain(s)

(* InstallSnapshotHandler: the snapshot is older than that of s.  copy     *)
(* panics, and the process is started again.                               *)
Panic(l, s) == Newer(l, s) /\ base[l] < base[s] /\ StartedAgain(s) /\ UNCHANGED troubles

-----------------------------------------------------------------------------
ClerkStep(c) ==
    Invoke(c) \/ CallFails(c) \/ Start(c) \/ Wait(c) \/ Receive(c) \/ Timeout(c)

ServerStep(s) ==
    \/ applyLog(s) \/ applyCommand(s) \/ Snapshot(s) \/ Notify(s) \/ applySnapshot(s)
    \/ RaftStep(Elect(s)) \/ RaftStep(Commit(s))
    \/ \E l \in Server :
        \/ RaftStep(Len(log[s]) >= base[l] /\ Replicate(l, s))
        \/ InstallSnapshot(l, s) \/ Panic(l, s)
    \/ Restart(s)

Next == (\E c \in Clerk : ClerkStep(c)) \/ (\E s \in Server : ServerStep(s))

Spec == Init /\ [][Next]_vars

-----------------------------------------------------------------------------
TypeOK ==
    /\ \A s \in Server :
        /\ base[s] \in 0 .. MaxLog /\ install[s] \in 0 .. MaxLog /\ upTo[s] \in 0 .. MaxLog
        /\ \A k \in DOMAIN batch[s] : batch[s][k] \in 1 .. Len(log[s])
        /\ loop[s].pc \in {"receive", "snapshot", "notify", "ended"}
        /\ base[s] <= lastApplied[s]
        /\ \A i \in Index : Len(waitChMap[s][i]) <= 1
    /\ \A c \in Clerk : clerk[c].srv \in Server /\ clerk[c].index \in 0 .. MaxLog

(* What the first n entries make of the store, each request counting once. *)
FirstTime(entries, n) == \A j \in 1 .. n - 1 : entries[j].cmd # entries[n].cmd

Replay(entries, n) ==
    LET value[m \in 0 .. n] ==
            IF m = 0 THEN <<>>
            ELSE IF FirstTime(entries, m) THEN Written(value[m - 1], entries[m].cmd)
            ELSE value[m - 1]
    IN  value[n]

(* Every server's store is what the committed log says, whatever was       *)
(* retried, replayed after a restart or skipped by a snapshot (server.go   *)
(* 253-263, 276-280), and so is the snapshot a restart would begin with at *)
(* the base of the log saved with it (206-209, 265-268).                   *)
StoreExact ==
    \A s \in Server : /\ kvPersist[s] = Replay(committed, upTo[s])
                      /\ snapshot[s].value = Replay(committed, base[s])

(* server.go:132-140: a Put or Append that returned is in the log for      *)
(* good, although its index may have been given to another request.        *)
AckedKept == \A req \in acked : \E i \in DOMAIN committed : committed[i].cmd = req

Overwritten(req) == \E c \in Clerk : \E n \in DOMAIN Script[c] : Script[c][n] = "Put" /\ <<c, n>> # req

(* A Get sees every write that had returned when it was called, unless a   *)
(* Put may have replaced it: it is served by the log and not by what some  *)
(* server that thinks it leads has stored (server.go:86-97).               *)
GetsFresh ==
    \A c \in Clerk : clerk[c].pc = "idle" /\ clerk[c].seq > 1 /\ Script[c][clerk[c].seq - 1] = "Get" =>
        \A req \in clerk[c].floor : ~Overwritten(req) => req \in Range(clerk[c].got)

(* server.go:247: a command that a snapshot has overtaken is skipped, and  *)
(* the loop goes on.                                                       *)
LoopGoesOn == \A s \in Server : loop[s].pc # "ended"
=============================================================================
