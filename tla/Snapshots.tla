----------------------------- MODULE Snapshots -----------------------------
(***************************************************************************)
(* The way from Raft's log to the state machine and back into snapshots:   *)
(* applier, Snapshot, LeaderSendSnapshot, CondInstallSnap and              *)
(* recoverFromSnap of src/raft, with applyMessage and checkSnapshotNeed of *)
(* src/shardkv, on a leader and its followers within one term.             *)
(*                                                                         *)
(* The leader's log grows along the sequence Kind of entries; it may       *)
(* commit any it has (a further server, not modelled, has them all).  A    *)
(* follower's log agrees with it up to agree and holds entries of an older *)
(* term from there to last.  The state of a state machine is the set of    *)
(* commands it has executed, and so is the content of a snapshot.          *)
(*                                                                         *)
(* A send on applyCh, which has no buffer, is pending until the service    *)
(* receives: applier, recovery and install are the pending messages of the *)
(* three senders.  CondInstallSnap sends with rf.mu held.                  *)
(***************************************************************************)
EXTENDS Integers, FiniteSets, Sequences

CONSTANTS
    Server, Leader,
    Kind,         \* of each entry: "op" a command of an owned shard, "foreign" of another, "empty"
    MaxTail,      \* bound: entries of an older term in a follower's log at the start
    Windows,      \* windows held open: "label", "recovery"
    MaxRounds,    \* bound: rounds of LeaderAppendEntries
    MaxRestarts   \* bound

ASSUME SnapshotsAssumption ==
    /\ Leader \in Server /\ Kind \in Seq({"op", "foreign", "empty"})
    /\ {MaxTail, MaxRounds, MaxRestarts} \subseteq Nat /\ Windows \subseteq {"label", "recovery"}

Follower == Server \ {Leader}
Index == 0 .. Len(Kind)

VARIABLES
    rf,                          \* Raft: log, commitIndex, lastApplied, flags
    snapshot,                    \* Persister.snapshot; the raft state on disk is always rf's
    applier, recovery, install,  \* what each sender is about to hand to applyCh
    kv,                          \* the service's state and apply loop
    checker,                     \* the service's checkSnapshotNeed loop
    nextIndex, matchIndex,       \* the leader's
    senders, net,                \* LeaderSendSnapshot goroutines, requests and replies
    rounds, restarts

raftVars == <<rf, snapshot>>
channel == <<applier, recovery, install>>
leaderVars == <<nextIndex, matchIndex, senders, net>>
boundVars == <<rounds, restarts>>
vars == <<raftVars, channel, kv, checker, leaderVars, boundVars>>

Larger(i, j) == IF i >= j THEN i ELSE j
Smaller(i, j) == IF i <= j THEN i ELSE j

(* What a state machine has executed that has applied everything up to i.  *)
Exact(i) == {j \in 1 .. i : Kind[j] = "op"}

(* No message; an index is a command, a record a snapshot. *)
None == -1
NoSnapshot == [index |-> None, data |-> {}]

(* rf.mu is free unless CondInstallSnap waits for the service. *)
Unlocked(s) == install[s] = NoSnapshot

-----------------------------------------------------------------------------
(* The applier. *)

(* There is something to apply. *)
Behind(r) == r.lastApplied < r.commit

(* One turn: the next committed entry, or on to the snapshot's end. *)
applierStep(s) ==
    LET i == rf[s].lastApplied + 1
    IN  /\ Unlocked(s)
        /\ applier[s] = None
        /\ Behind(rf[s])
        /\ IF i <= rf[s].base
           THEN rf' = [rf EXCEPT ![s].lastApplied = rf[s].base] /\ UNCHANGED applier
           ELSE rf' = [rf EXCEPT ![s].lastApplied = i] /\ applier' = [applier EXCEPT ![s] = i]
        /\ UNCHANGED <<snapshot, recovery, install, kv, checker, leaderVars, boundVars>>

-----------------------------------------------------------------------------
(* The service. *)

(* The command is new and, right after a snapshot, the very next one.      *)
InPlace(st, i) ==
    i > st.logLastApplied /\ (st.passiveSnapshotBefore => i = st.logLastApplied + 1)

(* executeClientCmd, executeConfigCmd and executeEmptyCmd; a command for a *)
(* shard the group does not own leaves the bookkeeping as it is.           *)
executeCmd(st, i) ==
    IF Kind[i] = "foreign" \/ ~InPlace(st, i) THEN st
    ELSE [st EXCEPT !.logLastApplied = i, !.passiveSnapshotBefore = FALSE,
                    !.done = IF Kind[i] = "op" THEN @ \cup {i} ELSE @]

(* With the window closed, recoverFromSnap's goroutine is the first sender *)
(* that applyCh serves after a restart.                                    *)
RecoveryFirst(s) == "recovery" \notin Windows => recovery[s] = NoSnapshot

applyCommand(s) ==
    /\ kv[s].pc = "receive"
    /\ applier[s] # None
    /\ RecoveryFirst(s)
    /\ kv' = [kv EXCEPT ![s] = executeCmd(@, applier[s])]
    /\ applier' = [applier EXCEPT ![s] = None]
    /\ UNCHANGED <<raftVars, recovery, install, checker, leaderVars, boundVars>>

applySnapshotToSM(st, m) ==
    [st EXCEPT !.done = m.data, !.logLastApplied = m.index, !.passiveSnapshotBefore = TRUE,
               !.pc = "installed"]

(* The snapshot of the handler, which then returns and unlocks, or of      *)
(* recoverFromSnap's goroutine.                                            *)
applySnapshot(s) ==
    /\ kv[s].pc = "receive"
    /\ \/ /\ install[s] # NoSnapshot /\ RecoveryFirst(s)
          /\ kv' = [kv EXCEPT ![s] = applySnapshotToSM(@, install[s])]
          /\ install' = [install EXCEPT ![s] = NoSnapshot]
          /\ UNCHANGED recovery
       \/ /\ recovery[s] # NoSnapshot
          /\ kv' = [kv EXCEPT ![s] = applySnapshotToSM(@, recovery[s])]
          /\ recovery' = [recovery EXCEPT ![s] = NoSnapshot]
          /\ UNCHANGED install
    /\ UNCHANGED <<raftVars, applier, checker, leaderVars, boundVars>>

(* SetPassiveSnapshottingFlag(false) ends the turn of applyMessage. *)
EndInstall(s) ==
    /\ kv[s].pc = "installed" /\ Unlocked(s)
    /\ kv' = [kv EXCEPT ![s].pc = "receive"]
    /\ rf' = [rf EXCEPT ![s].passive = FALSE]
    /\ UNCHANGED <<snapshot, channel, checker, leaderVars, boundVars>>

Idle == [pc |-> "idle", index |-> 0, data |-> {}]

(* Mutant: the two kinds of snapshot may overlap. *)
GetPassiveFlagAndSetActiveFlag_NoFlag(r) == r

GetPassiveFlagAndSetActiveFlag(r) == [r EXCEPT !.active = TRUE]

(* checkSnapshotNeed, begun when the log is long enough. *)
checkSnapshotNeed(s) ==
    /\ checker[s].pc = "idle" /\ Unlocked(s)
    /\ ~rf[s].passive /\ kv[s].logLastApplied > rf[s].base
    /\ rf' = [rf EXCEPT ![s] = GetPassiveFlagAndSetActiveFlag(@)]
    /\ checker' = [checker EXCEPT ![s].pc = "encode"]
    /\ UNCHANGED <<snapshot, channel, kv, leaderVars, boundVars>>

(* Mutant: Raft's count, which runs ahead of the service's. *)
SnapshotIndex_Raft(s) == rf[s].lastApplied

(* The index a snapshot is labelled with. *)
SnapshotIndex(s) == kv[s].logLastApplied

Encode(s) ==
    /\ checker[s].pc = "encode"
    /\ checker' = [checker EXCEPT ![s] =
            [pc |-> "snapshot", index |-> SnapshotIndex(s), data |-> kv[s].done]]
    /\ UNCHANGED <<raftVars, channel, kv, leaderVars, boundVars>>

(* Raft's Snapshot.  A leader also starts LeaderSendSnapshot for all.      *)
Snapshot(s) ==
    LET i == checker[s].index
        data == checker[s].data
    IN  /\ checker[s].pc = "snapshot" /\ Unlocked(s)
        /\ s = Leader /\ "label" \notin Windows => senders = {}
        /\ checker' = [checker EXCEPT ![s].pc = "clear"]
        /\ IF i <= rf[s].base THEN UNCHANGED <<raftVars, senders>>
           ELSE /\ rf' = [rf EXCEPT ![s].base = i]
                /\ snapshot' = [snapshot EXCEPT ![s] = [index |-> i, data |-> data]]
                /\ senders' = IF s = Leader
                              THEN senders \cup {[to |-> f, data |-> data] : f \in Follower}
                              ELSE senders
        /\ UNCHANGED <<channel, kv, nextIndex, matchIndex, net, boundVars>>

(* SetActiveSnapshottingFlag(false). *)
EndCheck(s) ==
    /\ checker[s].pc = "clear" /\ Unlocked(s)
    /\ checker' = [checker EXCEPT ![s] = Idle]
    /\ rf' = [rf EXCEPT ![s].active = FALSE]
    /\ UNCHANGED <<snapshot, channel, kv, leaderVars, boundVars>>

-----------------------------------------------------------------------------
(* Leader and followers. *)

(* Start: the next entry of Kind. *)
Start ==
    /\ Unlocked(Leader) /\ rf[Leader].last < Len(Kind)
    /\ rf' = [rf EXCEPT ![Leader].last = @ + 1, ![Leader].agree = @ + 1]
    /\ UNCHANGED <<snapshot, channel, kv, checker, leaderVars, boundVars>>

(* Another follower has acknowledged what the leader's log holds up to i.  *)
Commit(i) ==
    /\ Unlocked(Leader)
    /\ rf[Leader].commit < i /\ i <= rf[Leader].last
    /\ rf' = [rf EXCEPT ![Leader].commit = i]
    /\ UNCHANGED <<snapshot, channel, kv, checker, leaderVars, boundVars>>

(* What LeaderAppendEntries sends f: entries, or the snapshot on disk.     *)
LeaderAppendEntries(f) ==
    LET next == nextIndex[f]
    IN  /\ rounds < MaxRounds
        /\ rounds' = rounds + 1
        /\ IF next <= rf[Leader].base
           THEN /\ senders' = senders \cup {[to |-> f, data |-> snapshot[Leader].data]}
                /\ UNCHANGED net
           ELSE /\ net' = net \cup {[type |-> "append", to |-> f, prev |-> next - 1,
                                     upto |-> rf[Leader].last, commit |-> rf[Leader].commit]}
                /\ UNCHANGED senders
        /\ UNCHANGED <<raftVars, channel, kv, checker, nextIndex, matchIndex, restarts>>

(* The bytes were read before; the label is read now. *)
LeaderSendSnapshot(t) ==
    /\ senders' = senders \ {t}
    /\ net' = net \cup {[type |-> "install", to |-> t.to, index |-> rf[Leader].base, data |-> t.data]}
    /\ UNCHANGED <<raftVars, channel, kv, checker, nextIndex, matchIndex, boundVars>>

(* A request is answered: the caller learns how it ended. *)
Answered(m, reply) == net' = (net \ {m}) \cup {reply}

Appended(m, ok, conflict) ==
    [type |-> "appended", to |-> m.to, upto |-> m.upto, ok |-> ok, conflict |-> conflict]

(* AppendEntries, including what it does with entries below the snapshot.  *)
AppendEntries(m) ==
    LET f == m.to
        r == rf[f]
        prev == Larger(m.prev, r.base)
        stale == m.prev < r.base /\ m.upto <= r.base
        merged == IF m.upto > r.agree THEN [r EXCEPT !.last = m.upto, !.agree = m.upto] ELSE r
    IN  /\ m.type = "append" /\ Unlocked(f)
        /\ IF stale THEN Answered(m, Appended(m, TRUE, 0)) /\ UNCHANGED rf
           ELSE IF prev > r.last THEN Answered(m, Appended(m, FALSE, r.last + 1)) /\ UNCHANGED rf
           ELSE IF prev > r.agree THEN Answered(m, Appended(m, FALSE, r.agree + 1)) /\ UNCHANGED rf
           ELSE /\ Answered(m, Appended(m, TRUE, 0))
                /\ rf' = [rf EXCEPT ![f] = [merged EXCEPT
                            !.commit = Larger(@, Smaller(m.commit, merged.last))]]
        /\ UNCHANGED <<snapshot, channel, kv, checker, nextIndex, matchIndex, senders, boundVars>>

(* The log and the indexes after a snapshot up to i.  The tail is kept if  *)
(* the entry at i is the leader's.                                         *)
Installed(r, i) ==
    LET keep == i < r.last /\ i <= r.agree
    IN  [r EXCEPT !.lastApplied = i, !.base = i, !.passive = TRUE,
                  !.last = IF keep THEN @ ELSE i,
                  !.agree = IF keep THEN @ ELSE i,
                  !.commit = IF keep THEN Larger(@, i) ELSE i]

(* Whether the follower takes a snapshot up to i. *)
Accepts(r, i) == ~r.active /\ i > r.base

(* CondInstallSnap, until it waits for the service with rf.mu held. *)
CondInstallSnap(m) ==
    LET f == m.to
        accept == Accepts(rf[f], m.index)
    IN  /\ m.type = "install" /\ Unlocked(f)
        /\ Answered(m, [type |-> "installed", to |-> f, upto |-> m.index, ok |-> accept, conflict |-> 0])
        /\ IF accept
           THEN /\ rf' = [rf EXCEPT ![f] = Installed(@, m.index)]
                /\ snapshot' = [snapshot EXCEPT ![f] = [index |-> m.index, data |-> m.data]]
                /\ install' = [install EXCEPT ![f] = [index |-> m.index, data |-> m.data]]
           ELSE UNCHANGED <<raftVars, install>>
        /\ UNCHANGED <<applier, recovery, kv, checker, nextIndex, matchIndex, senders, boundVars>>

(* Mutant: refused or not, the follower is taken to have it. *)
Succeeded_Refused(m) == m.type = "installed" \/ m.ok

(* The follower has everything up to m.upto. *)
Succeeded(m) == m.ok

(* The answer of a handler that has returned reaches the leader. *)
LeaderHandlesReply(m) ==
    LET f == m.to
        match == Larger(matchIndex[f], m.upto)
    IN  /\ m.type \in {"appended", "installed"}
        /\ m.type = "installed" => Unlocked(f)
        /\ net' = net \ {m}
        /\ IF Succeeded(m)
           THEN /\ matchIndex' = [matchIndex EXCEPT ![f] = match]
                /\ nextIndex' = [nextIndex EXCEPT ![f] = match + 1]
           ELSE /\ m.type = "appended" /\ m.conflict < nextIndex[f] /\ m.conflict > matchIndex[f]
                /\ nextIndex' = [nextIndex EXCEPT ![f] = m.conflict]
                /\ UNCHANGED matchIndex
        /\ UNCHANGED <<raftVars, channel, kv, checker, senders, boundVars>>

-----------------------------------------------------------------------------
NewService == [done |-> {}, logLastApplied |-> 0, passiveSnapshotBefore |-> FALSE, pc |-> "receive"]

(* A crash and StartServer, Make, readPersist and recoverFromSnap.         *)
(* Requests may find the new server; a handler that had not returned gives *)
(* no answer.  A leader is elected again, and its old calls come to        *)
(* nothing.                                                                *)
Restart(s) ==
    LET base == rf[s].base
        known == IF snapshot[s] = NoSnapshot THEN 0 ELSE base
    IN  /\ restarts < MaxRestarts
        /\ restarts' = restarts + 1
        /\ rf' = [rf EXCEPT ![s].commit = known, ![s].lastApplied = known,
                            ![s].passive = FALSE, ![s].active = FALSE]
        /\ recovery' = [recovery EXCEPT ![s] =
                IF snapshot[s] = NoSnapshot THEN NoSnapshot
                ELSE [index |-> base, data |-> snapshot[s].data]]
        /\ applier' = [applier EXCEPT ![s] = None]
        /\ install' = [install EXCEPT ![s] = NoSnapshot]
        /\ kv' = [kv EXCEPT ![s] = NewService]
        /\ checker' = [checker EXCEPT ![s] = Idle]
        /\ net' = IF s = Leader THEN {}
                  ELSE {m \in net : m.to = s /\ install[s] # NoSnapshot => m.type # "installed"}
        /\ senders' = IF s = Leader THEN {} ELSE senders
        /\ nextIndex' = IF s = Leader THEN [f \in Follower |-> rf[Leader].last + 1] ELSE nextIndex
        /\ matchIndex' = IF s = Leader THEN [f \in Follower |-> 0] ELSE matchIndex
        /\ UNCHANGED <<snapshot, rounds>>

NewRaft(last) ==
    [last |-> last, agree |-> 0, base |-> 0, commit |-> 0, lastApplied |-> 0,
     passive |-> FALSE, active |-> FALSE]

(* The leader has just taken office. *)
Init ==
    /\ \E tail \in [Follower -> 0 .. MaxTail] :
        rf = [s \in Server |-> NewRaft(IF s = Leader THEN 0 ELSE tail[s])]
    /\ snapshot = [s \in Server |-> NoSnapshot]
    /\ applier = [s \in Server |-> None]
    /\ recovery = [s \in Server |-> NoSnapshot] /\ install = [s \in Server |-> NoSnapshot]
    /\ kv = [s \in Server |-> NewService]
    /\ checker = [s \in Server |-> Idle]
    /\ nextIndex = [f \in Follower |-> 1] /\ matchIndex = [f \in Follower |-> 0]
    /\ senders = {} /\ net = {}
    /\ rounds = 0 /\ restarts = 0

ServiceStep(s) ==
    applyCommand(s) \/ applySnapshot(s) \/ EndInstall(s)

CheckerStep(s) ==
    checkSnapshotNeed(s) \/ Encode(s) \/ Snapshot(s) \/ EndCheck(s)

LeaderStep ==
    \/ Start \/ \E i \in Index : Commit(i)
    \/ \E f \in Follower : LeaderAppendEntries(f)
    \/ \E t \in senders : LeaderSendSnapshot(t)
    \/ \E m \in net : LeaderHandlesReply(m)

FollowerStep == \E m \in net : AppendEntries(m) \/ CondInstallSnap(m)

Next ==
    \/ \E s \in Server : applierStep(s) \/ ServiceStep(s) \/ CheckerStep(s) \/ Restart(s)
    \/ LeaderStep \/ FollowerStep

Spec == Init /\ [][Next]_vars

-----------------------------------------------------------------------------
(* The type of the variables a reader meets first. *)
TypeOK ==
    /\ \A s \in Server :
        /\ rf[s].base \in Index /\ rf[s].last \in 0 .. Len(Kind) + MaxTail /\ rf[s].agree \in Index
        /\ rf[s].commit \in Index /\ rf[s].lastApplied \in Index
        /\ applier[s] \in {None} \cup (Index \ {0})
        /\ kv[s].done \subseteq Index /\ kv[s].logLastApplied \in Index
    /\ nextIndex \in [Follower -> 1 .. Len(Kind) + 1] /\ matchIndex \in [Follower -> Index]

(* The state machine is exactly what the log makes of it up to             *)
(* logLastApplied, whatever snapshots overtake commands and commands       *)
(* snapshots (server.go 293-305), and a crash would leave enough to go on: *)
(* the snapshot on disk ends where the log on disk begins, and is the      *)
(* state there (raft.go 1026-1027, 1067-1068).                             *)
StateExact ==
    \A s \in Server :
        /\ kv[s].done = Exact(kv[s].logLastApplied)
        /\ IF snapshot[s] = NoSnapshot THEN rf[s].base = 0
           ELSE snapshot[s].index = rf[s].base /\ snapshot[s].data = Exact(rf[s].base)

(* The positions the code takes in rf.log exist, commit never covers       *)
(* entries of another leader (applier 1189-1199, Snapshot 1058-1059), and  *)
(* matchIndex never overstates what a follower has, however the answers    *)
(* about entries and about snapshots are mixed (675, 760-765).             *)
LogPositions ==
    /\ \A s \in Server :
        /\ rf[s].base <= rf[s].commit /\ rf[s].commit <= rf[s].agree /\ rf[s].agree <= rf[s].last
        /\ rf[s].lastApplied <= rf[s].commit
        /\ checker[s].pc = "snapshot" /\ checker[s].index > rf[s].base => checker[s].index <= rf[s].last
    /\ \A f \in Follower : matchIndex[f] <= rf[f].agree

(* What Raft counts as applied is in the state machine, unless it is still *)
(* on its way: no command is passed over between a snapshot and what       *)
(* follows it (server.go 298-304).                                         *)
HandedOver ==
    \A s \in Server :
        applier[s] = None /\ recovery[s] = NoSnapshot /\ install[s] = NoSnapshot =>
            Exact(rf[s].lastApplied) \subseteq kv[s].done

(* raft.go:1227: while CondInstallSnap holds rf.mu and waits for the       *)
(* service to receive, the service does not wait for rf.mu                 *)
(* (SetPassiveSnapshottingFlag, server.go:276).                            *)
NoStandOff == \A s \in Server : Unlocked(s) \/ kv[s].pc = "receive"
=============================================================================
