-------------------------------- MODULE Raft --------------------------------
(***************************************************************************)
(* src/raft/raft.go: elections, log replication and persistence of one     *)
(* Raft group whose service never calls Snapshot (the Lab 2 tester and the *)
(* shardmaster use it so): lastIncludedIndex stays 0 and a log is the      *)
(* sequence of its entries without the placeholder entry 0, whose term is  *)
(* -1.                                                                     *)
(*                                                                         *)
(* The grain is the mutex rf.mu.  One action is one critical section, so   *)
(* whatever another goroutine or an RPC handler may do between an unlock   *)
(* and the next lock is an interleaving of the model.  A goroutine that    *)
(* holds local state across critical sections is a record of its own:      *)
(* an election in runs, a LeaderAppendEntries in beats, a Start in starts. *)
(*                                                                         *)
(* Windows names the gaps between two critical sections in which the code  *)
(* acts on what it read before the gap without looking again.  A gap that  *)
(* is not in Windows is taken to be quiet: the step after it runs only if  *)
(* what was read still holds.  Code with every gap open is Windows = Gaps. *)
(***************************************************************************)
EXTENDS Integers, Sequences, FiniteSets

CONSTANTS
    Server,      \* rf.peers
    None,        \* votedFor = -1
    Command,     \* what clients pass to Start
    Windows,     \* the gaps that are open
    MaxTerm,     \* bound: no election is started once this term is reached
    MaxElections,\* bound: elections started, all servers together
    MaxRounds,   \* bound: rounds of AppendEntries sent, all leaders together
    MaxLog,      \* bound: Start appends to logs shorter than this
    MaxCrashes,  \* bound: crashes, all servers together
    MaxEvents    \* bound: on all of these together, see Spent

Gaps == {"HandleTimeout", "RunForElection", "Convert2Leader", "Start", "LeaderAppendEntries"}

ASSUME ServerAssumption == IsFiniteSet(Server) /\ None \notin Server
ASSUME BoundAssumption == {MaxTerm, MaxElections, MaxRounds, MaxLog, MaxCrashes, MaxEvents} \subseteq Nat
ASSUME WindowAssumption == Windows \subseteq Gaps

VARIABLES
    currentTerm, votedFor, log,        \* persistent fields of Raft
    disk,                              \* what the Persister of a server holds
    state,                             \* role
    commitIndex,
    nextIndex, matchIndex,             \* leader's; empty (nil) before its first term
    runs,                              \* elections under way, one per RunForElection
    beats,                             \* LeaderAppendEntries past its first section
    starts,                            \* Start calls past GetState
    msgs,                              \* RPC requests and replies on their way, for ever if lost
    crashes, rounds,
    ballots, elected,                  \* history: votes cast, elections won
    leaderLog,                         \* history: of each term, its leader's log as it last was
    acked                              \* history: how far a server has stored it, by term

serverVars == <<currentTerm, votedFor, log, disk, state, commitIndex>>
leaderVars == <<nextIndex, matchIndex>>
history == <<ballots, elected, leaderLog, acked>>
vars == <<serverVars, leaderVars, runs, beats, starts, msgs, crashes, rounds, history>>

-----------------------------------------------------------------------------
(* Logs. *)

Term == 0 .. MaxTerm
Entry == [term : Term, cmd : Command]

\* The placeholder at index 0 has term -1.  The code never reads past the end of a log
\* (LeaderIndexesInLog for the leader); the model would read -1 there.
TermAt(l, i) == IF i \in DOMAIN l THEN l[i].term ELSE -1
LastTerm(l) == TermAt(l, Len(l))

\* Variants of the definitions below with one plausible mistake each.
UpToDate_LengthOnly(term, index, l) == index >= Len(l)
HasEntry_AnyTerm(l, index, term) == index <= Len(l)
Merge_Replace(l, prev, es) == SubSeq(l, 1, prev) \o es
Merge_KeepConflicts(l, prev, es) ==
    l \o SubSeq(es, Len(l) - prev + 1, Len(es))
IsMajority_Half(S) == Cardinality(S) >= Cardinality(Server) \div 2
FirstNext_Last(l) == Len(l)
persist_NoVote(s) ==
    disk' = [disk EXCEPT ![s] = [term |-> currentTerm'[s], vote |-> None, log |-> log'[s]]]

\* RequestVote's uptodate: is a log that ends in (term, index) at least as new as l?
UpToDate(term, index, l) ==
    \/ term > LastTerm(l)
    \/ term = LastTerm(l) /\ index >= Len(l)

\* AppendEntries' consistency check.
HasEntry(l, index, term) == index <= Len(l) /\ TermAt(l, index) = term

\* The log after the entries es that follow index prev were received: kept as it is unless
\* some entry is missing or has another term; from the first such one on it is es.
Merge(l, prev, es) ==
    LET agrees(i) == HasEntry(l, prev + i, es[i].term)
    IN  IF \A i \in DOMAIN es : agrees(i)
        THEN l
        ELSE [i \in 1 .. prev + Len(es) |->
                 IF \A j \in 1 .. i - prev : agrees(j) THEN l[i] ELSE es[i - prev]]

\* What a follower reports when it has no entry (prev, prevTerm): one past its log, or the
\* first index of the run of entries that share the term of its own entry at prev.
ConflictTerm(l, prev) == IF Len(l) < prev THEN -1 ELSE TermAt(l, prev)
IsConflictIndex(l, prev, i) ==
    IF Len(l) < prev
    THEN i = Len(l) + 1
    ELSE /\ i \in 1 .. prev
         /\ \A k \in i .. prev : TermAt(l, k) = TermAt(l, prev)
         /\ TermAt(l, i - 1) # TermAt(l, prev)

\* Where the leader resumes after such a report: after its own last entry of that term,
\* or at the follower's index if it has none.
IsBackOff(l, cTerm, cIndex, i) ==
    LET same == {k \in DOMAIN l : l[k].term = cTerm}
    IN  IF cTerm = -1 \/ same = {}
        THEN i = cIndex
        ELSE i - 1 \in same /\ \A k \in same : k <= i - 1

\* The nextIndex a new leader assumes for every peer.
FirstNext(l) == Len(l) + 1

\* votes >= len(rf.peers)/2 + 1, and element (n - 1) / 2 of the sorted matchIndex.
IsMajority(S) == Cardinality(S) >= Cardinality(Server) \div 2 + 1

\* The N that the loop after a successful append accepts: above commitIndex, reached by a
\* majority, of the leader's own term.  It takes the highest.
Committable(l, term, match, commit) ==
    {n \in DOMAIN l : /\ n > commit
                      /\ IsMajority({p \in Server : match[p] >= n})
                      /\ l[n].term = term}

Min(a, b) == IF a <= b THEN a ELSE b
Max(a, b) == IF a >= b THEN a ELSE b

-----------------------------------------------------------------------------
Init ==
    /\ currentTerm = [s \in Server |-> 0]
    /\ votedFor = [s \in Server |-> None]
    /\ log = [s \in Server |-> <<>>]
    /\ disk = [s \in Server |-> [term |-> 0, vote |-> None, log |-> <<>>]]
    /\ state = [s \in Server |-> "Follower"]
    /\ commitIndex = [s \in Server |-> 0]
    /\ nextIndex = [s \in Server |-> <<>>]
    /\ matchIndex = [s \in Server |-> <<>>]
    /\ runs = {} /\ beats = {} /\ starts = {} /\ msgs = {}
    /\ crashes = 0 /\ rounds = 0
    /\ ballots = {} /\ elected = {}
    /\ leaderLog = [t \in Term |-> <<>>] /\ acked = [s \in Server |-> [t \in Term |-> 0]]

\* persist(): the fields as the current critical section leaves them.
persist(s) ==
    disk' = [disk EXCEPT ![s] = [term |-> currentTerm'[s], vote |-> votedFor'[s],
                                 log |-> log'[s]]]

\* A reply carries a higher term: adopt it and fall back to Follower.
StepDown(s, term) ==
    /\ currentTerm' = [currentTerm EXCEPT ![s] = term]
    /\ votedFor' = [votedFor EXCEPT ![s] = None]
    /\ state' = [state EXCEPT ![s] = "Follower"]
    /\ UNCHANGED log
    /\ persist(s)

\* What has been spent of MaxEvents: elections, rounds, crashes (which count twice) and
\* the entries of the longest log.
Longest == CHOOSE n \in {Len(log[s]) : s \in Server} : \A s \in Server : Len(log[s]) <= n
Elections == Cardinality({b \in ballots : b.cand = b.voter})
Spent == Elections + rounds + 2 * crashes + Longest

-----------------------------------------------------------------------------
(* Elections. *)

\* Convert2Candidate(): asks nothing, so a campaign that HandleTimeout decided on earlier
\* may begin in any role, a leader's included, if that gap is open.
Convert2Candidate(s) ==
    /\ currentTerm[s] < MaxTerm
    /\ Elections < MaxElections /\ Spent < MaxEvents
    /\ \/ state[s] # "Leader"
       \/ "HandleTimeout" \in Windows
    /\ state' = [state EXCEPT ![s] = "Candidate"]
    /\ currentTerm' = [currentTerm EXCEPT ![s] = @ + 1]
    /\ votedFor' = [votedFor EXCEPT ![s] = s]
    /\ UNCHANGED log
    /\ persist(s)
    /\ ballots' = ballots \cup {[voter |-> s, term |-> currentTerm[s] + 1, cand |-> s]}

\* The requests of one election.  Each peer's goroutine reads the log on its own; here
\* all read it at once, and a request may be late or lost.
VoteRequests(s, term) ==
    {[type |-> "RequestVote", from |-> s, to |-> p, term |-> term,
      lastIndex |-> Len(log[s]), lastTerm |-> LastTerm(log[s])] : p \in Server \ {s}}

NewRun(s, made, term, phase) ==
    [cand |-> s, made |-> made, term |-> term, phase |-> phase]

\* HandleTimeout fires and RunForElection goes as far as sending its requests.
RunForElection(s) ==
    /\ Convert2Candidate(s)
    /\ runs' = runs \cup {NewRun(s, currentTerm'[s], currentTerm'[s], "asking")}
    /\ msgs' = msgs \cup VoteRequests(s, currentTerm'[s])
    /\ UNCHANGED <<commitIndex, leaderVars, beats, starts, crashes, rounds,
                   elected, leaderLog, acked>>

\* The same with the gap after Convert2Candidate open: others run before its next section
\* reads the term to campaign in and finds whether the server is still a candidate.
PauseInElection(s) ==
    /\ "RunForElection" \in Windows
    /\ Convert2Candidate(s)
    /\ runs' = runs \cup {NewRun(s, currentTerm'[s], 0, "new")}
    /\ UNCHANGED <<commitIndex, leaderVars, beats, starts, msgs, crashes, rounds,
                   elected, leaderLog, acked>>

ResumeElection(r) ==
    LET s == r.cand IN
    /\ r.phase = "new"
    /\ \/ /\ state[s] = "Candidate"
          /\ runs' = (runs \ {r}) \cup {NewRun(s, r.made, currentTerm[s], "asking")}
          /\ msgs' = msgs \cup VoteRequests(s, currentTerm[s])
       \/ /\ state[s] # "Candidate"
          /\ runs' = runs \ {r}
          /\ UNCHANGED msgs
    /\ UNCHANGED <<currentTerm, votedFor, log, disk, state, commitIndex, leaderVars, beats,
                   starts, crashes, rounds, history>>

\* A refusal in the candidate's own term only ends a wait (module ElectionWait), so it is
\* no message here.
RequestVote(m) ==
    LET s     == m.to
        newer == m.term > currentTerm[s]
        vote  == IF newer THEN None ELSE votedFor[s]
        grant == /\ m.term >= currentTerm[s]
                 /\ vote \in {None, m.from}
                 /\ UpToDate(m.lastTerm, m.lastIndex, log[s])
    IN  /\ m.type = "RequestVote"
        /\ currentTerm' = [currentTerm EXCEPT ![s] = Max(m.term, @)]
        /\ votedFor' = [votedFor EXCEPT ![s] = IF grant THEN m.from ELSE vote]
        /\ state' = [state EXCEPT ![s] = IF newer THEN "Follower" ELSE @]
        /\ UNCHANGED log
        /\ IF newer \/ grant THEN persist(s) ELSE UNCHANGED disk
        /\ ballots' = IF grant
                      THEN ballots \cup {[voter |-> s, term |-> m.term, cand |-> m.from]}
                      ELSE ballots
        /\ msgs' = IF grant \/ m.term < currentTerm[s]
                   THEN (msgs \ {m}) \cup {[type |-> "RequestVoteReply", from |-> s, to |-> m.from,
                                    asked |-> m.term, term |-> Max(m.term, currentTerm[s]),
                                    granted |-> grant]}
                   ELSE msgs \ {m}
        /\ UNCHANGED <<commitIndex, leaderVars, runs, beats, starts, crashes, rounds,
                        elected, leaderLog, acked>>

\* A reply is looked at only while the server is a candidate in the term it asked in.
Campaigning(r) ==
    r.phase = "asking" /\ state[r.cand] = "Candidate" /\ currentTerm[r.cand] = r.term

Granted(r) ==
    {m.from : m \in {n \in msgs : /\ n.type = "RequestVoteReply" /\ n.to = r.cand
                                  /\ n.asked = r.term /\ n.granted}}

\* A reply carries a higher term.
VoteRefused(r, m) ==
    /\ m.type = "RequestVoteReply" /\ m.to = r.cand /\ m.asked = r.term
    /\ Campaigning(r) /\ m.term > r.term
    /\ StepDown(r.cand, m.term)
    /\ UNCHANGED <<commitIndex, leaderVars, runs, beats, starts, msgs, crashes, rounds, history>>

HasMajority(r) == Campaigning(r) /\ IsMajority(Granted(r) \cup {r.cand})

\* History: the log of a term's leader, which has stored all of it.
RecordLeader(s, term, l) ==
    /\ leaderLog' = [leaderLog EXCEPT ![term] = l]
    /\ acked' = [acked EXCEPT ![s][term] = Len(l)]

\* Convert2Leader(): looks neither at the role nor at the term.
TakeOffice(r) ==
    LET s == r.cand IN
    /\ state' = [state EXCEPT ![s] = "Leader"]
    /\ nextIndex' = [nextIndex EXCEPT ![s] = [p \in Server |-> FirstNext(log[s])]]
    /\ matchIndex' = [matchIndex EXCEPT ![s] = [p \in Server |-> 0]]
    /\ runs' = runs \ {r}
    /\ elected' = elected \cup {[server |-> s, term |-> r.term, office |-> currentTerm[s]]}
    /\ RecordLeader(s, currentTerm[s], log[s])
    /\ UNCHANGED <<currentTerm, votedFor, log, disk, commitIndex, beats, starts, msgs,
                   crashes, rounds, ballots>>

\* The vote that completes the majority is counted (the others were as they came) and the
\* waiter takes office at once.
Convert2Leader(r) == HasMajority(r) /\ TakeOffice(r)

\* The same with the gap open between the count and the lock of Convert2Leader.
PauseInTally(r) ==
    /\ "Convert2Leader" \in Windows
    /\ HasMajority(r)
    /\ runs' = (runs \ {r}) \cup {[r EXCEPT !.phase = "won"]}
    /\ UNCHANGED <<serverVars, leaderVars, beats, starts, msgs, crashes, rounds, history>>

ResumeTally(r) == r.phase = "won" /\ TakeOffice(r)

-----------------------------------------------------------------------------
(* Log replication. *)

\* Start appends an entry of the given term and persists it.
AppendEntry(s, c, term) ==
    /\ Len(log[s]) < MaxLog /\ (Len(log[s]) = Longest => Spent < MaxEvents)
    /\ log' = [log EXCEPT ![s] = Append(@, [term |-> term, cmd |-> c])]
    /\ UNCHANGED <<currentTerm, votedFor>>
    /\ persist(s)
    /\ RecordLeader(s, term, log'[s])
    /\ UNCHANGED <<state, commitIndex, leaderVars, runs, beats, msgs, crashes, rounds,
                   ballots, elected>>

\* Start on a leader, both sections in a row.
Start(s, c) ==
    /\ state[s] = "Leader"
    /\ AppendEntry(s, c, currentTerm[s])
    /\ UNCHANGED starts

\* Start with the gap between its sections open: GetState says the server leads, and the
\* entry gets the term read there whatever the server has become since.
PauseInStart(s, c) ==
    /\ "Start" \in Windows
    /\ state[s] = "Leader" /\ Len(log[s]) < MaxLog
    /\ starts' = starts \cup {[server |-> s, term |-> currentTerm[s], cmd |-> c]}
    /\ UNCHANGED <<serverVars, leaderVars, runs, beats, msgs, crashes, rounds, history>>

ResumeStart(c) ==
    /\ AppendEntry(c.server, c.cmd, c.term)
    /\ starts' = starts \ {c}

\* The requests of one LeaderAppendEntries: to each peer all entries from its nextIndex
\* on, or none.  A peer's goroutine that runs later sends what a later call would send.
AppendRequests(s, term) ==
    {[type |-> "AppendEntries", from |-> s, to |-> p, term |-> term,
      prevIndex |-> nextIndex[s][p] - 1,
      prevTerm |-> TermAt(log[s], nextIndex[s][p] - 1),
      entries |-> SubSeq(log[s], nextIndex[s][p], Len(log[s])),
      commit |-> commitIndex[s]] : p \in Server \ {s}}

\* LeaderAppendEntries, spawned by the heartbeat loop or by Start.
LeaderAppendEntries(s) ==
    /\ state[s] = "Leader"
    /\ rounds < MaxRounds /\ Spent < MaxEvents /\ rounds' = rounds + 1
    /\ matchIndex' = [matchIndex EXCEPT ![s][s] = Len(log[s])]
    /\ nextIndex' = [nextIndex EXCEPT ![s][s] = Len(log[s]) + 1]
    /\ msgs' = msgs \cup AppendRequests(s, currentTerm[s])
    /\ UNCHANGED <<serverVars, runs, beats, starts, crashes, history>>

\* LeaderAppendEntries with the gaps around its first section open: that section runs in
\* any role once the server has led, and the requests carry the term it read.
PauseInAppend(s) ==
    /\ "LeaderAppendEntries" \in Windows
    /\ nextIndex[s] # <<>>
    /\ matchIndex' = [matchIndex EXCEPT ![s][s] = Len(log[s])]
    /\ nextIndex' = [nextIndex EXCEPT ![s][s] = Len(log[s]) + 1]
    /\ beats' = beats \cup {[server |-> s, term |-> currentTerm[s]]}
    /\ UNCHANGED <<serverVars, runs, starts, msgs, crashes, rounds, history>>

ResumeAppend(b) ==
    /\ state[b.server] = "Leader"
    /\ rounds < MaxRounds /\ Spent < MaxEvents /\ rounds' = rounds + 1
    /\ msgs' = msgs \cup AppendRequests(b.server, b.term)
    /\ UNCHANGED <<serverVars, leaderVars, runs, beats, starts, crashes, history>>

\* A reply with the part of its call that the sender reads: the term; the last index
\* sent, on success; the conflict, on failure.
Answer(m, success, last, cTerm, cIndex) ==
    [type |-> "AppendEntriesReply", from |-> m.to, to |-> m.from, asked |-> m.term,
     term |-> Max(m.term, currentTerm[m.to]), success |-> success, last |-> last,
     conflictTerm |-> cTerm, conflictIndex |-> cIndex]

AppendEntries(m) ==
    LET s       == m.to
        newer   == m.term > currentTerm[s]
        matches == HasEntry(log[s], m.prevIndex, m.prevTerm)
    IN  /\ m.type = "AppendEntries"
        /\ \/ \* the sender's term is over
              /\ m.term < currentTerm[s]
              /\ msgs' = (msgs \ {m}) \cup {Answer(m, FALSE, 0, 0, 0)}
              /\ UNCHANGED <<serverVars, acked>>
           \/ /\ m.term >= currentTerm[s]
              /\ currentTerm' = [currentTerm EXCEPT ![s] = m.term]
              /\ votedFor' = [votedFor EXCEPT ![s] = IF newer THEN None ELSE @]
              /\ state' = [state EXCEPT ![s] = "Follower"]
              /\ \/ /\ ~matches
                    /\ \E i \in 1 .. Len(log[s]) + 1 :
                          /\ IsConflictIndex(log[s], m.prevIndex, i)
                          /\ msgs' = (msgs \ {m}) \cup
                                {Answer(m, FALSE, 0, ConflictTerm(log[s], m.prevIndex), i)}
                    /\ UNCHANGED <<log, commitIndex, acked>>
                    /\ IF newer THEN persist(s) ELSE UNCHANGED disk
                 \/ /\ matches
                    /\ log' = [log EXCEPT ![s] = Merge(@, m.prevIndex, m.entries)]
                    /\ persist(s)
                    /\ commitIndex' = [commitIndex EXCEPT ![s] =
                          IF m.commit > @ THEN Min(m.commit, Len(log'[s])) ELSE @]
                    /\ msgs' = (msgs \ {m}) \cup {Answer(m, TRUE, m.prevIndex + Len(m.entries), 0, 0)}
                    /\ acked' = [acked EXCEPT ![s][m.term] = Max(@, m.prevIndex + Len(m.entries))]
        /\ UNCHANGED <<leaderVars, runs, beats, starts, crashes, rounds,
                        ballots, elected, leaderLog>>

\* The leader reads a reply to what it sent in its current term.
LeaderHandlesReply(m) ==
    LET s    == m.to
        p    == m.from
        new  == [matchIndex[s] EXCEPT ![p] = Max(m.last, @)]
        ns   == Committable(log[s], currentTerm[s], new, commitIndex[s])
    IN  /\ m.type = "AppendEntriesReply"
        /\ state[s] = "Leader" /\ currentTerm[s] = m.asked
        /\ \/ /\ m.term > m.asked
              /\ StepDown(s, m.term)
              /\ UNCHANGED <<commitIndex, leaderVars>>
           \/ /\ m.term <= m.asked /\ ~m.success
              /\ \E i \in matchIndex[s][p] + 1 .. nextIndex[s][p] - 1 :
                    /\ IsBackOff(log[s], m.conflictTerm, m.conflictIndex, i)
                    /\ nextIndex' = [nextIndex EXCEPT ![s][p] = i]
              /\ UNCHANGED <<currentTerm, votedFor, log, disk, state, commitIndex, matchIndex>>
           \/ /\ m.term <= m.asked /\ m.success
              /\ matchIndex' = [matchIndex EXCEPT ![s] = new]
              /\ nextIndex' = [nextIndex EXCEPT ![s][p] = new[p] + 1]
              /\ \/ ns = {} /\ UNCHANGED commitIndex
                 \/ \E n \in ns : /\ \A k \in ns : k <= n
                                 /\ commitIndex' = [commitIndex EXCEPT ![s] = n]
              /\ UNCHANGED <<currentTerm, votedFor, log, disk, state>>
        /\ msgs' = msgs \ {m}
        /\ UNCHANGED <<runs, beats, starts, crashes, rounds, history>>

-----------------------------------------------------------------------------
\* Kill, and Make with the Persister's contents.  The goroutines of the old instance can
\* not reach the new one; requests they sent are still on their way.
Crash(s) ==
    /\ crashes < MaxCrashes /\ Spent + 1 < MaxEvents
    /\ crashes' = crashes + 1
    /\ currentTerm' = [currentTerm EXCEPT ![s] = disk[s].term]
    /\ votedFor' = [votedFor EXCEPT ![s] = disk[s].vote]
    /\ log' = [log EXCEPT ![s] = disk[s].log]
    /\ persist(s)
    /\ state' = [state EXCEPT ![s] = "Follower"]
    /\ commitIndex' = [commitIndex EXCEPT ![s] = 0]
    /\ nextIndex' = [nextIndex EXCEPT ![s] = <<>>]
    /\ matchIndex' = [matchIndex EXCEPT ![s] = <<>>]
    /\ runs' = {r \in runs : r.cand # s}
    /\ beats' = {b \in beats : b.server # s}
    /\ starts' = {c \in starts : c.server # s}
    /\ UNCHANGED <<msgs, rounds, history>>

Next ==
    \/ \E s \in Server :
          \/ RunForElection(s) \/ PauseInElection(s)
          \/ LeaderAppendEntries(s) \/ PauseInAppend(s)
          \/ \E c \in Command : Start(s, c) \/ PauseInStart(s, c)
          \/ Crash(s)
    \/ \E r \in runs :
          \/ ResumeElection(r)
          \/ \E m \in msgs : VoteRefused(r, m)
          \/ Convert2Leader(r) \/ PauseInTally(r) \/ ResumeTally(r)
    \/ \E c \in starts : ResumeStart(c)
    \/ \E b \in beats : ResumeAppend(b)
    \/ \E m \in msgs : RequestVote(m) \/ AppendEntries(m) \/ LeaderHandlesReply(m)

Spec == Init /\ [][Next]_vars
-----------------------------------------------------------------------------
(* Properties. *)

Run == [cand : Server, made : Term, term : Term, phase : {"new", "asking", "won"}]

Message ==
    [type : {"RequestVote"}, from : Server, to : Server, term : Term,
     lastIndex : Nat, lastTerm : Term \cup {-1}]
    \cup
    [type : {"RequestVoteReply"}, from : Server, to : Server, asked : Term, term : Term,
     granted : BOOLEAN]
    \cup
    [type : {"AppendEntries"}, from : Server, to : Server, term : Term, prevIndex : Nat,
     prevTerm : Term \cup {-1}, entries : Seq(Entry), commit : Nat]
    \cup
    [type : {"AppendEntriesReply"}, from : Server, to : Server, asked : Term, last : Nat,
     term : Term, success : BOOLEAN, conflictTerm : Term \cup {-1}, conflictIndex : Nat]

\* The domains of the Raft struct's fields, of the goroutines' locals and of the messages.
TypeOK ==
    /\ currentTerm \in [Server -> Term]
    /\ votedFor \in [Server -> Server \cup {None}]
    /\ log \in [Server -> Seq(Entry)]
    /\ disk \in [Server -> [term : Term, vote : Server \cup {None}, log : Seq(Entry)]]
    /\ state \in [Server -> {"Follower", "Candidate", "Leader"}]
    /\ commitIndex \in [Server -> Nat]
    /\ nextIndex \in [Server -> [Server -> Nat \ {0}] \cup {<<>>}]
    /\ matchIndex \in [Server -> [Server -> Nat] \cup {<<>>}]
    /\ runs \subseteq Run
    /\ beats \subseteq [server : Server, term : Term]
    /\ starts \subseteq [server : Server, term : Term, cmd : Command]
    /\ msgs \subseteq Message
    /\ crashes \in 0 .. MaxCrashes /\ rounds \in 0 .. MaxRounds
    /\ ballots \subseteq [voter : Server, term : Term, cand : Server]
    /\ elected \subseteq [server : Server, term : Term, office : Term]

\* No server votes for two candidates in one term, over crashes and restarts and with any
\* number of campaigns of its own: votedFor is on disk before the vote is given.
VoteOnce ==
    \A b, c \in ballots : b.voter = c.voter /\ b.term = c.term => b.cand = c.cand

\* At most one server ever counts a majority for the term it campaigned in, in whatever
\* order replies, timeouts, requests of others and crashes come.
OneTallyPerTerm ==
    \A e, f \in elected : e.term = f.term => e.server = f.server

\* At most one server ever takes office in a term (checkOneLeader in the tester).
OneLeaderPerTerm ==
    \A e, f \in elected : e.office = f.office => e.server = f.server

\* Two logs that hold entries of one term at one index are equal up to that index: what
\* AppendEntries' check of PreLogTerm and the repair of conflicts are for.
LogMatching ==
    \A s, t \in Server : \A i \in DOMAIN log[s] \cap DOMAIN log[t] :
        log[s][i].term = log[t][i].term => SubSeq(log[s], 1, i) = SubSeq(log[t], 1, i)

\* A server to which a majority could give its vote, by RequestVote's comparison of logs,
\* holds every entry that any server has committed: no possible leader lacks one.
ElectableHoldsCommitted ==
    \A s, t \in Server :
        IsMajority({v \in Server : UpToDate(LastTerm(log[s]), Len(log[s]), log[v])})
        => /\ commitIndex[t] <= Len(log[s])
           /\ SubSeq(log[s], 1, commitIndex[t]) = SubSeq(log[t], 1, commitIndex[t])

\* Servers never disagree on a committed entry (the tester's "committed values do not
\* match"); a commitIndex never passes the end of the log.
StateMachineSafety ==
    \A s, t \in Server :
        /\ commitIndex[s] <= Len(log[s])
        /\ \A i \in 1 .. Min(commitIndex[s], commitIndex[t]) : log[s][i] = log[t][i]

\* While leader and follower are in one term, matchIndex tells the truth: the follower
\* holds the leader's entries up to there, although replies come late and out of order.
MatchIndexSound ==
    \A s, p \in Server :
        state[s] = "Leader" /\ currentTerm[p] = currentTerm[s] =>
            /\ matchIndex[s][p] <= Len(log[p])
            /\ SubSeq(log[p], 1, matchIndex[s][p]) = SubSeq(log[s], 1, matchIndex[s][p])

\* The slice accesses of the leader stay inside its log: nextIndex is at most one past
\* the end, and rf.log[k+1] in the search for ConflictTerm exists.
LeaderIndexesInLog ==
    \A s \in Server : state[s] = "Leader" =>
        /\ \A p \in Server : nextIndex[s][p] \in 1 .. Len(log[s]) + 1
        /\ \A m \in msgs :
              /\ m.type = "AppendEntriesReply" /\ m.to = s /\ m.asked = currentTerm[s]
              /\ m.term <= m.asked /\ ~m.success /\ m.conflictTerm # -1
              => LastTerm(log[s]) # m.conflictTerm

\* A step keeps the entries a server has committed, and commitIndex goes back only when
\* the server is restarted.
CommittedKept ==
    [][\A s \in Server :
          /\ commitIndex[s] <= Len(log'[s])
          /\ SubSeq(log'[s], 1, commitIndex[s]) = SubSeq(log[s], 1, commitIndex[s])
          /\ commitIndex'[s] >= commitIndex[s] \/ crashes' # crashes]_vars

\* A Start call puts its entry into the log only while the server leads the term it was
\* told ("if this server isn't the leader, returns false").
StartOnlyOnLeader ==
    [][\A c \in starts \ starts' : log' # log =>
          state[c.server] = "Leader" /\ currentTerm[c.server] = c.term]_vars
=============================================================================
