------------------------------- MODULE Lab2D -------------------------------
(***************************************************************************)
(* src/raft-Lab2D/raft.go: the version of Raft with its own snapshots on   *)
(* which src/kvraft runs.                                                  *)
(*                                                                         *)
(* A handler, with the goroutine that called it, is a request and a reply  *)
(* in net, each consumed once or never.  What is on disk (disk, snapshot)  *)
(* is kept apart from what is in memory (rf): ConvertToCandidate and       *)
(* appendLog do not persist.  A command is a number; the state of a        *)
(* service, and the content of a snapshot, is the sequence of the commands *)
(* it has executed.  The service takes what applyChan offers at once       *)
(* (KVRaft has the channel).  A log is its base, index and term of the     *)
(* last entry in the snapshot, and the entries after it.                   *)
(*                                                                         *)
(* The ticker decides without the lock and converts the server later, and  *)
(* asks for votes in a goroutine later still (ticker).  By then the server *)
(* may have moved on; outOfStep says that this has undone a vote or a term *)
(* or has made a candidate ask twice.                                      *)
(***************************************************************************)
EXTENDS Integers, FiniteSets, SequencesExt

CONSTANTS
    Server,
    Candidates,   \* bound: servers whose election timer may fire
    Nobody,       \* noVoted
    MaxTerm,      \* bound: terms
    MaxCmds,      \* bound: commands given to Start
    MaxNet,       \* bound: messages under way, others being lost at once
    MaxRounds     \* bound: rounds of SendAllAppendEntries and restarts, together

ASSUME Lab2DAssumption ==
    /\ IsFiniteSet(Server) /\ Candidates \subseteq Server /\ Nobody \notin Server
    /\ {MaxTerm, MaxCmds, MaxNet, MaxRounds} \subseteq Nat

VARIABLES
    rf,                     \* Raft: role, term, vote, count, log, commit, lastApplied
    disk, snapshot,         \* Persister
    nextIndex, matchIndex,  \* of each server
    net,                    \* requests and replies under way
    applied,                \* the state of each service
    ticker,                 \* of each server: the goroutine ticker, its channel and those it started
    cmds, rounds,
    elected, ballots,       \* history: who became leader, and who voted for whom, in which term
    outOfStep               \* history: the ticker has acted on what was no longer so

boundVars == <<cmds, rounds>>
historyVars == <<elected, ballots>>
tickerVars == <<ticker, outOfStep>>
vars == <<rf, disk, snapshot, nextIndex, matchIndex, net, applied, boundVars, historyVars, tickerVars>>

Larger(i, j) == IF i >= j THEN i ELSE j
Smaller(i, j) == IF i <= j THEN i ELSE j

-----------------------------------------------------------------------------
(* Logs. *)

EmptyLog == [base |-> 0, bterm |-> 0, ents |-> <<>>]

LastIndex(l) == l.base + Len(l.ents)
TermAt(l, i) == IF i = l.base THEN l.bterm ELSE l.ents[i - l.base].term
LastTerm(l) == TermAt(l, LastIndex(l))
CmdAt(l, i) == l.ents[i - l.base].cmd

(* The entries from i on. *)
From(l, i) == SubSeq(l.ents, i - l.base, Len(l.ents))

(* trimIndex: entries up to i are left to the snapshot. *)
trimIndex(l, i) ==
    IF l.base >= i THEN l ELSE [base |-> i, bterm |-> TermAt(l, i), ents |-> From(l, i + 1)]

-----------------------------------------------------------------------------
(* Roles. *)

ConvertToFollower(r, t) == [r EXCEPT !.role = "Follower", !.term = t, !.vote = Nobody, !.count = 0]

ConvertToCandidate(s, r) == [r EXCEPT !.role = "Candidate", !.term = @ + 1, !.vote = s, !.count = 1]

(* What persist writes. *)
Saved(r) == [term |-> r.term, vote |-> r.vote, log |-> r.log]

(* Server s goes on with r, and persists. *)
Become(s, r) == rf' = [rf EXCEPT ![s] = r] /\ disk' = [disk EXCEPT ![s] = Saved(r)]

(* ... and does not persist. *)
BecomeUnsaved(s, r) == rf' = [rf EXCEPT ![s] = r] /\ UNCHANGED disk

(* Calls with these arguments begin; any of them may be lost. *)
Call(requests) ==
    \E sent \in SUBSET requests : net' = net \cup sent /\ Cardinality(net') <= MaxNet

(* ... which its sender, unless it has been killed, waits for.             *)
Answered(m, reply) == net' = (net \ {m}) \cup IF m.waits THEN {reply} ELSE {}

-----------------------------------------------------------------------------
(* The ticker. *)

(* Whether it is in the case of a candidate (the role it has read at the   *)
(* top of its loop; the cases of the other roles ask the same of a reply); *)
(* the term of the newest reply in appendEntriesChan (older ones are of    *)
(* older terms); the term of the reply it has taken and is to follow; and  *)
(* the terms of whose campaign sendAllRequestVote has yet to run.  0: none.*)
NewTicker == [candidate |-> FALSE, heard |-> 0, resp |-> 0, asking |-> {}]

(* A handler of s sends on appendEntriesChan. *)
Hears(s, t) == ticker' = [ticker EXCEPT ![s].heard = t] /\ UNCHANGED outOfStep

(* The election timer fires.  The case of a candidate reads role before    *)
(* ConvertToCandidate takes the lock: s may lead by then.                  *)
ElectionTimeout(s) ==
    LET t == rf[s].term + 1
    IN  /\ rf[s].role = "Leader" => ticker[s].candidate
        /\ ticker[s].resp = 0 /\ s \in Candidates /\ t <= MaxTerm
        /\ BecomeUnsaved(s, ConvertToCandidate(s, rf[s]))
        /\ ticker' = [ticker EXCEPT ![s].candidate = TRUE, ![s].asking = @ \cup {t}]
        /\ UNCHANGED <<snapshot, nextIndex, matchIndex, net, applied, boundVars, historyVars, outOfStep>>

(* It takes a reply and compares terms, without the lock. *)
TickerTakes(s) ==
    LET t == ticker[s].heard
        due == IF ticker[s].candidate THEN t >= rf[s].term ELSE t > rf[s].term
    IN  /\ t # 0 /\ ticker[s].resp = 0
        /\ ticker' = [ticker EXCEPT ![s].heard = 0, ![s].resp = IF due THEN t ELSE 0]
        /\ UNCHANGED <<rf, disk, snapshot, nextIndex, matchIndex, net, applied, boundVars, historyVars, outOfStep>>

(* ConvertToFollower, with the lock, whatever s has become; then the loop  *)
(* begins anew with a follower.                                            *)
TickerFollows(s) ==
    LET r == ConvertToFollower(rf[s], ticker[s].resp)
    IN  /\ ticker[s].resp # 0
        /\ BecomeUnsaved(s, r)
        /\ ticker' = [ticker EXCEPT ![s].candidate = FALSE, ![s].resp = 0]
        /\ outOfStep' = (outOfStep \/ r # rf[s])
        /\ UNCHANGED <<snapshot, nextIndex, matchIndex, net, applied, boundVars, historyVars>>

(* The requests of the goroutine started in term by. *)
VoteRequests(s, by) ==
    {[type |-> "vote", from |-> s, to |-> q, waits |-> TRUE, term |-> rf[s].term, by |-> by,
      last |-> LastIndex(rf[s].log), lastTerm |-> LastTerm(rf[s].log)] : q \in Server \ {s}}

(* A goroutine that was started in an earlier term asks in this one, as    *)
(* the one started in this term does.                                      *)
sendAllRequestVote(s, by) ==
    /\ by \in ticker[s].asking
    /\ ticker' = [ticker EXCEPT ![s].asking = @ \ {by}]
    /\ IF rf[s].role = "Candidate"
       THEN Call(VoteRequests(s, by)) /\ outOfStep' = (outOfStep \/ by # rf[s].term)
       ELSE UNCHANGED <<net, outOfStep>>
    /\ UNCHANGED <<rf, disk, snapshot, nextIndex, matchIndex, applied, boundVars, historyVars>>

-----------------------------------------------------------------------------
(* Votes. *)

(* Mutant: logs are not compared. *)
UpToDate_Any(m, l) == TRUE

(* The candidate's log is not older than l. *)
UpToDate(m, l) ==
    ~(m.lastTerm < LastTerm(l) \/ (m.lastTerm = LastTerm(l) /\ m.last < LastIndex(l)))

(* Mutant: a follower votes for whoever asks. *)
Grants_Any(r, m) == m.term >= r.term /\ UpToDate(m, r.log) /\ r.role = "Follower"

(* r is what the server is once it has followed the term of the request.   *)
Grants(r, m) ==
    /\ m.term >= r.term /\ UpToDate(m, r.log)
    /\ r.role = "Follower" /\ r.vote \in {Nobody, m.from}

RequestVoteHandler(m) ==
    LET s == m.to
        r == IF m.term > rf[s].term THEN ConvertToFollower(rf[s], m.term) ELSE rf[s]
        granted == Grants(r, m)
    IN  /\ m.type = "vote"
        /\ Become(s, IF granted THEN [r EXCEPT !.vote = m.from] ELSE r)
        /\ Answered(m, [type |-> "voted", from |-> s, to |-> m.from, term |-> m.term, by |-> m.by,
                        rterm |-> r.term, ok |-> granted])
        /\ ballots' = IF granted THEN ballots \cup {<<s, m.term, m.from>>} ELSE ballots
        /\ UNCHANGED <<snapshot, nextIndex, matchIndex, applied, boundVars, elected, tickerVars>>

(* Server s takes office: ConvertToLeaderNoLock. *)
ConvertToLeader(s, r) ==
    /\ Become(s, [r EXCEPT !.role = "Leader"])
    /\ nextIndex' = [nextIndex EXCEPT ![s] = [q \in Server |-> LastIndex(r.log) + 1]]
    /\ matchIndex' = [matchIndex EXCEPT ![s] = [q \in Server |-> 0]]
    /\ elected' = elected \cup {<<r.term, s>>}

(* The rest of sendRequestVote. *)
VoteReply(m) ==
    LET s == m.to
        r == rf[s]
        counted == IF m.ok THEN [r EXCEPT !.count = @ + 1] ELSE r
        wins == m.ok /\ 2 * counted.count > Cardinality(Server)
    IN  /\ m.type = "voted"
        /\ net' = net \ {m}
        /\ IF r.role # "Candidate" \/ m.term # r.term
           THEN Become(s, r) /\ UNCHANGED <<nextIndex, matchIndex, elected>>
           ELSE IF m.rterm > r.term
           THEN Become(s, ConvertToFollower(r, m.rterm)) /\ UNCHANGED <<nextIndex, matchIndex, elected>>
           ELSE IF wins THEN ConvertToLeader(s, counted)
           ELSE Become(s, counted) /\ UNCHANGED <<nextIndex, matchIndex, elected>>
        /\ UNCHANGED <<snapshot, applied, boundVars, ballots, tickerVars>>

-----------------------------------------------------------------------------
(* Logs are replicated. *)

(* Start and appendLog. *)
Start(s) ==
    /\ rf[s].role = "Leader" /\ cmds < MaxCmds
    /\ cmds' = cmds + 1
    /\ BecomeUnsaved(s, [rf[s] EXCEPT !.log.ents = Append(@, [term |-> rf[s].term, cmd |-> cmds + 1])])
    /\ UNCHANGED <<snapshot, nextIndex, matchIndex, net, applied, rounds, historyVars, tickerVars>>

(* What SendAllAppendEntries has for f: entries, or the snapshot. *)
RequestFor(s, f) ==
    LET r == rf[s]
        next == nextIndex[s][f]
        prev == next - 1
    IN  IF next > r.log.base
        THEN [type |-> "append", from |-> s, to |-> f, waits |-> TRUE, term |-> r.term, prev |-> prev,
              pterm |-> TermAt(r.log, prev), ents |-> From(r.log, next), commit |-> r.commit]
        ELSE [type |-> "install", from |-> s, to |-> f, waits |-> TRUE, term |-> r.term, index |-> r.log.base,
              iterm |-> r.log.bterm, data |-> snapshot[s]]

(* The ticker has read that s leads. *)
SendAllAppendEntries(s) ==
    /\ rf[s].role = "Leader" /\ ticker[s].resp = 0 /\ rounds < MaxRounds
    /\ rounds' = rounds + 1
    /\ Call({RequestFor(s, f) : f \in Server \ {s}})
    /\ ticker' = [ticker EXCEPT ![s].candidate = FALSE]
    /\ UNCHANGED <<rf, disk, snapshot, nextIndex, matchIndex, applied, cmds, historyVars, outOfStep>>

(* A request of a leader of this or a later term makes a follower. *)
Followed(r, t) ==
    IF r.term < t \/ (r.term = t /\ r.role = "Candidate") THEN ConvertToFollower(r, t) ELSE r

(* The log once the entries ents have been put after index prev: it is cut *)
(* at the first that differs, and only there.                              *)
Merged(l, prev, ents) ==
    LET differ == {k \in DOMAIN ents :
                    prev + k > LastIndex(l) \/ TermAt(l, prev + k) # ents[k].term}
        k == Min(differ)
    IN  IF differ = {} THEN l
        ELSE [l EXCEPT !.ents = SubSeq(@, 1, prev + k - 1 - l.base) \o SubSeq(ents, k, Len(ents))]

(* Where a follower with log l tells the leader to go back to, prev being  *)
(* of another term there: the first entry of that term, or 0 if the term   *)
(* begins in the snapshot.                                                 *)
ConflictIndex(l, prev) ==
    LET others == {j \in l.base .. prev : TermAt(l, j) # TermAt(l, prev)}
    IN  IF others = {} THEN 0 ELSE Max(others) + 1

Appended(m, rterm, ok, cterm, cindex) ==
    [type |-> "appended", from |-> m.to, to |-> m.from, term |-> m.term, rterm |-> rterm,
     match |-> m.prev + Len(m.ents), ok |-> ok, cterm |-> cterm, cindex |-> cindex]

AppendEntriesHandler(m) ==
    LET s == m.to
        r == Followed(rf[s], m.term)
        l == r.log
        log == Merged(l, m.prev, m.ents)
        refuse(cterm, cindex) == Become(s, r) /\ Answered(m, Appended(m, rf[s].term, FALSE, cterm, cindex))
    IN  /\ m.type = "append"
        /\ IF rf[s].term > m.term
           THEN Become(s, rf[s]) /\ Answered(m, Appended(m, rf[s].term, FALSE, 0, 0))
           ELSE IF m.prev > LastIndex(l) THEN refuse(-1, LastIndex(l) + 1)
           ELSE IF m.prev < l.base THEN refuse(-1, l.base)
           ELSE IF TermAt(l, m.prev) # m.pterm THEN refuse(TermAt(l, m.prev), ConflictIndex(l, m.prev))
           ELSE /\ Become(s, [r EXCEPT !.log = log,
                        !.commit = IF m.commit > @ THEN Smaller(LastIndex(log) + 1, m.commit) ELSE @])
                /\ Answered(m, Appended(m, rf[s].term, TRUE, 0, 0))
        /\ IF rf[s].term > m.term THEN UNCHANGED tickerVars ELSE Hears(s, r.term)
        /\ UNCHANGED <<snapshot, nextIndex, matchIndex, applied, boundVars, historyVars>>

(* Where the leader goes on after a refusal. *)
BackTo(l, m) ==
    LET same == {i \in l.base .. LastIndex(l) :
                    TermAt(l, i) = m.cterm /\ \A j \in i + 1 .. LastIndex(l) : TermAt(l, j) > m.cterm}
    IN  IF m.cterm = -1 \/ same = {} THEN m.cindex ELSE Max(same) + 1

(* What the request brought the follower up to. *)
Matched(r, m) == m.match

(* The reply is to a request of this leader in this term. *)
Counts(r, m) == r.role = "Leader" /\ m.term = r.term

(* The rest of SendAppendEntries. *)
AppendReply(m) ==
    LET s == m.to
        r == rf[s]
        f == m.from
    IN  /\ m.type = "appended"
        /\ net' = net \ {m}
        /\ IF ~Counts(r, m)
           THEN Become(s, r) /\ UNCHANGED <<nextIndex, matchIndex>>
           ELSE /\ Become(s, IF m.rterm > r.term THEN ConvertToFollower(r, m.rterm) ELSE r)
                /\ IF m.ok
                   THEN /\ nextIndex' = [nextIndex EXCEPT ![s][f] = Larger(@, Matched(r, m) + 1)]
                        /\ matchIndex' = [matchIndex EXCEPT ![s][f] = Larger(@, Matched(r, m))]
                   ELSE /\ nextIndex' = [nextIndex EXCEPT ![s][f] = BackTo(r.log, m)]
                        /\ UNCHANGED matchIndex
        /\ UNCHANGED <<snapshot, applied, boundVars, historyVars, tickerVars>>

(* Mutant: half of the servers, rounded down, will do. *)
Committable_Half(s, i) ==
    /\ 1 + Cardinality({f \in Server \ {s} : matchIndex[s][f] >= i}) >= Cardinality(Server) \div 2
    /\ TermAt(rf[s].log, i) >= rf[s].term

(* An entry of this term that a majority has. *)
Committable(s, i) ==
    /\ 2 * (1 + Cardinality({f \in Server \ {s} : matchIndex[s][f] >= i})) > Cardinality(Server)
    /\ TermAt(rf[s].log, i) >= rf[s].term

checkCommitIndex(s) ==
    LET r == rf[s]
        is == {i \in Larger(r.commit, r.log.base) .. LastIndex(r.log) : Committable(s, i)}
    IN  /\ r.role = "Leader" /\ is # {} /\ Max(is) > r.commit
        /\ BecomeUnsaved(s, [r EXCEPT !.commit = Max(is)])
        /\ UNCHANGED <<snapshot, nextIndex, matchIndex, net, applied, boundVars, historyVars, tickerVars>>

-----------------------------------------------------------------------------
(* readPersist on what is on disk. *)
NewRaft(d) ==
    [role |-> "Follower", term |-> d.term, vote |-> d.vote, count |-> 0, log |-> d.log,
     commit |-> 0, lastApplied |-> d.log.base]

NewDisk == [term |-> 0, vote |-> Nobody, log |-> EmptyLog]

(* What s asks of others, with nobody to wait for the answer once s has    *)
(* been killed.                                                            *)
Requests == {"vote", "append", "install"}
Orphaned(m, s) == IF m.from = s /\ m.type \in Requests THEN [m EXCEPT !.waits = FALSE] ELSE m

(* Make and readPersist on what is on disk, with what is under way.        *)
(* Requests may find the new server; nobody waits for the replies to the   *)
(* old one, whose goroutines reach nobody.                                 *)
StartedAgain(s, messages) ==
    /\ BecomeUnsaved(s, NewRaft(disk[s]))
    /\ applied' = [applied EXCEPT ![s] = snapshot[s]]
    /\ net' = {Orphaned(m, s) : m \in {n \in messages : n.to = s => n.type \in Requests}}
    /\ ticker' = [ticker EXCEPT ![s] = NewTicker]
    /\ UNCHANGED <<snapshot, nextIndex, matchIndex, cmds, historyVars, outOfStep>>

(* Kill, then Make. *)
Restart(s) == rounds < MaxRounds /\ rounds' = rounds + 1 /\ StartedAgain(s, net)

-----------------------------------------------------------------------------
(* Services and snapshots. *)

(* applyLog, and the service that executes what it gets. *)
applyLog(s) ==
    LET r == rf[s]
    IN  /\ r.commit > r.lastApplied
        /\ applied' = [applied EXCEPT ![s] =
                @ \o [k \in 1 .. r.commit - r.lastApplied |-> CmdAt(r.log, r.lastApplied + k)]]
        /\ BecomeUnsaved(s, [r EXCEPT !.lastApplied = r.commit])
        /\ UNCHANGED <<snapshot, nextIndex, matchIndex, net, boundVars, historyVars, tickerVars>>

(* The service has a snapshot of all it has executed. *)
Snapshot(s) ==
    LET r == [rf[s] EXCEPT !.log = trimIndex(@, rf[s].lastApplied)]
    IN  /\ r # rf[s]
        /\ Become(s, r)
        /\ snapshot' = [snapshot EXCEPT ![s] = applied[s]]
        /\ UNCHANGED <<nextIndex, matchIndex, net, applied, boundVars, historyVars, tickerVars>>

(* The snapshot has something the server does not know to be committed.    *)
Accepts(r, m) == m.index > r.commit

Installed(r, m) ==
    [r EXCEPT !.commit = m.index, !.lastApplied = m.index,
              !.log = [base |-> m.index, bterm |-> m.iterm,
                       ents |-> IF LastIndex(@) <= m.index THEN <<>> ELSE From(@, m.index + 1)]]

(* copy would begin before the log: a restart has set commitIndex to 0,    *)
(* and the snapshot is older than that on disk.                            *)
Panics(r, m) == Accepts(r, m) /\ m.index < r.log.base

(* The handler returns.  activeSnapshotting is never set (nobody calls     *)
(* GetPassiveFlagAndSetActiveFlag).                                        *)
InstallReturns(m) ==
    LET s == m.to
        r == Followed(rf[s], m.term)
        current == rf[s].term <= m.term
    IN  /\ Answered(m, [type |-> "installed", from |-> s, to |-> m.from, term |-> m.term,
                        rterm |-> rf[s].term, index |-> m.index, data |-> m.data])
        /\ IF current /\ Accepts(r, m)
           THEN /\ Become(s, Installed(r, m))
                /\ snapshot' = [snapshot EXCEPT ![s] = m.data]
                /\ applied' = [applied EXCEPT ![s] = m.data]
           ELSE /\ BecomeUnsaved(s, IF current THEN r ELSE rf[s])
                /\ UNCHANGED <<snapshot, applied>>
        /\ IF current THEN Hears(s, r.term) ELSE UNCHANGED tickerVars
        /\ UNCHANGED <<nextIndex, matchIndex, boundVars, historyVars>>

(* It panics before anything is on disk; the process is started again. *)
InstallSnapshotHandler(m) ==
    /\ m.type = "install"
    /\ IF rf[m.to].term <= m.term /\ Panics(Followed(rf[m.to], m.term), m)
       THEN StartedAgain(m.to, net \ {m}) /\ UNCHANGED rounds
       ELSE InstallReturns(m)

(* Mutant: it may be about an older snapshot. *)
Obsolete_Term(r, m) == r.term # m.term \/ r.role # "Leader"

(* The reply is not about this term or not about this snapshot. *)
Obsolete(r, m) == r.term # m.term \/ r.role # "Leader" \/ m.index # r.log.base

(* The rest of SendInstallSnapshotRpc; whether the snapshot was accepted   *)
(* is not looked at.                                                       *)
InstallReply(m) ==
    LET s == m.to
        r == IF m.term = rf[s].term /\ m.rterm > rf[s].term
             THEN ConvertToFollower(rf[s], m.rterm) ELSE rf[s]
    IN  /\ m.type = "installed"
        /\ net' = net \ {m}
        /\ IF Obsolete(r, m)
           THEN BecomeUnsaved(s, r) /\ UNCHANGED <<nextIndex, matchIndex, snapshot>>
           ELSE /\ Become(s, r)
                /\ nextIndex' = [nextIndex EXCEPT ![s][m.from] = Larger(@, m.index + 1)]
                /\ matchIndex' = [matchIndex EXCEPT ![s][m.from] = Larger(@, m.index)]
                /\ snapshot' = [snapshot EXCEPT ![s] = m.data]
        /\ UNCHANGED <<applied, boundVars, historyVars, tickerVars>>

-----------------------------------------------------------------------------
Init ==
    /\ disk = [s \in Server |-> NewDisk]
    /\ rf = [s \in Server |-> NewRaft(NewDisk)]
    /\ snapshot = [s \in Server |-> <<>>] /\ applied = [s \in Server |-> <<>>]
    /\ nextIndex = [s \in Server |-> [q \in Server |-> 1]]
    /\ matchIndex = [s \in Server |-> [q \in Server |-> 0]]
    /\ net = {} /\ elected = {} /\ ballots = {}
    /\ ticker = [s \in Server |-> NewTicker] /\ outOfStep = FALSE
    /\ cmds = 0 /\ rounds = 0

ServerStep(s) ==
    \/ ElectionTimeout(s) \/ TickerTakes(s) \/ TickerFollows(s) \/ SendAllAppendEntries(s)
    \/ \E by \in ticker[s].asking : sendAllRequestVote(s, by)
    \/ Start(s) \/ checkCommitIndex(s) \/ applyLog(s) \/ Snapshot(s) \/ Restart(s)

(* A request or a reply is lost. *)
Lose(m) ==
    /\ net' = net \ {m}
    /\ UNCHANGED <<rf, disk, snapshot, nextIndex, matchIndex, applied, boundVars, historyVars, tickerVars>>

MessageStep(m) ==
    \/ RequestVoteHandler(m) \/ VoteReply(m) \/ AppendEntriesHandler(m) \/ AppendReply(m)
    \/ InstallSnapshotHandler(m) \/ InstallReply(m) \/ Lose(m)

Next == (\E s \in Server : ServerStep(s)) \/ (\E m \in net : MessageStep(m))

Spec == Init /\ [][Next]_vars

-----------------------------------------------------------------------------
TypeOK ==
    \A s \in Server :
        /\ rf[s].role \in {"Follower", "Candidate", "Leader"}
        /\ rf[s].term \in 0 .. MaxTerm /\ rf[s].vote \in Server \cup {Nobody}
        /\ rf[s].commit \in 0 .. MaxCmds /\ LastIndex(rf[s].log) \in 0 .. MaxCmds
        /\ ticker[s].candidate \in BOOLEAN /\ ticker[s].asking \subseteq 1 .. MaxTerm
        /\ {ticker[s].heard, ticker[s].resp} \subseteq 0 .. MaxTerm /\ outOfStep \in BOOLEAN
        /\ Len(snapshot[s]) <= MaxCmds

(* Nobody leads in the term of another. *)
NoSecondLeader == \A x, y \in elected : x[1] = y[1] => x[2] = y[2]

(* raft.go:477-486, 545-551: two servers never lead in one term, although  *)
(* candidates do not persist their vote and a candidate that hears of a    *)
(* leader forgets its own; until a ticker is out of step (690: a voter     *)
(* forgets; 734: a vote is counted twice).                                 *)
OneLeaderPerTerm == outOfStep \/ NoSecondLeader

(* Services execute the same commands in the same order, whether they come *)
(* from the log, from a snapshot of the leader or from disk, as long as    *)
(* tickers are in step.                                                    *)
StateMachineSafety ==
    outOfStep \/ \A s, q \in Server : IsPrefix(applied[s], applied[q]) \/ IsPrefix(applied[q], applied[s])

(* Entry i of r's log is in l, or under its snapshot. *)
Holds(l, r, i) ==
    \/ i <= l.base
    \/ i <= LastIndex(l) /\ (i > r.log.base => CmdAt(l, i) = CmdAt(r.log, i))

(* raft.go:208: the leader counts itself for entries that Start has not    *)
(* persisted.  Whatever a server takes for committed is on the disks of a  *)
(* majority all the same, as long as tickers are in step.                  *)
CommittedOnDisk ==
    outOfStep \/ \A s \in Server : \A i \in 1 .. rf[s].commit :
        2 * Cardinality({q \in Server : Holds(disk[q].log, rf[s], i)}) > Cardinality(Server)

(* The positions at which the code cuts rf.logs exist (raft.go:168, 764):  *)
(* nothing is committed beyond the log (1002), applied below it (307), or  *)
(* to be sent from beyond it; and the snapshot on disk ends where the log  *)
(* on disk begins (361, 1051, 1141), so that a restart finds positions     *)
(* that belong together; as long as tickers are in step.  Not so 1127,     *)
(* where the handler may panic.                                            *)
PositionsInRange ==
    outOfStep \/ \A s \in Server :
        /\ rf[s].commit <= LastIndex(rf[s].log) /\ rf[s].lastApplied >= rf[s].log.base
        /\ rf[s].role = "Leader" => \A f \in Server : nextIndex[s][f] <= LastIndex(rf[s].log) + 1
        /\ Len(snapshot[s]) = disk[s].log.base
=============================================================================
