---------------------------- MODULE ElectionWait ----------------------------
(***************************************************************************)
(* src/raft/raft.go: the goroutines that keep elections going on one       *)
(* server: HandleTimeout on the election timer, RunForElection with its    *)
(* vote requests and its wait on a condition variable, and the heartbeat   *)
(* loop of Convert2Leader.  What is safe about elections is in Raft; this  *)
(* module is about what must happen.  The other servers are an environment *)
(* that answers, or not, as it likes.                                      *)
(*                                                                         *)
(* Convert2Candidate always enters a new term, so an election is named by  *)
(* the term it was made in.                                                *)
(***************************************************************************)
EXTENDS Naturals, FiniteSets

CONSTANTS
    Peer,      \* the other servers
    MaxTerm,   \* bound: no term is entered beyond this one
    MaxHeard   \* bound: RPCs of others that change the server's role, term or timer

VARIABLES
    state, currentTerm, ready,
    armed, tick,    \* rf.timer is running; rf.timer.C holds a tick
    watcher,        \* the number of HandleTimeout goroutines at each point
    spawned,        \* RunForElection goroutines not yet in Convert2Candidate
    election,       \* RunForElection goroutines after it, by the term made in
    loop,           \* heartbeat loops, by the election that started them
    heard

raftVars == <<state, currentTerm, ready>>
timerVars == <<armed, tick>>
electionVars == <<raftVars, timerVars, watcher, spawned, election, loop, heard>>

Election == 1 .. MaxTerm
Role == {"Follower", "Candidate", "Leader"}

\* A HandleTimeout goroutine is at its select, or past reading nowState.
WatcherAt == Role \cup {"select"}

\* What a RunForElection goroutine knows: its counters, the state of
\* each request (not sent or done with, at the peer, granted or not but not counted, counted
\* but not announced), and where it is itself.
NoElection ==
    [votes |-> 0, finished |-> 0, call |-> [p \in Peer |-> "none"], at |-> "none"]

SumNum == Cardinality(Peer) + 1
MajorityNum == SumNum \div 2 + 1

-----------------------------------------------------------------------------
\* Variants of the definitions below with one plausible mistake each.
Broadcast_Missing(at) == at
EndOfOffice_NoWatcher == UNCHANGED watcher

\* cond.Broadcast, to a goroutine that is at that point.
Broadcast(at) == IF at = "wait" THEN "woken" ELSE at

\* The condition on which RunForElection goes on waiting.
Wait(e) == e.votes < MajorityNum /\ e.finished # SumNum

\* timer.Stop(); timer.Reset(): from Go 1.23 on, which go.mod asks for, a tick that
\* nobody has received is dropped.
ResetTimer == armed' = TRUE /\ tick' = FALSE

\* A candidate whose timer fires a first time gets ready to run at the next.
GetReady == TRUE

\* votes and finished begin with the candidate's own vote.
OwnVote == 1

\* RunForElection returns.  Requests of its election may still be under way, but nobody
\* reads its counters or waits for a broadcast.
LeaveElection(e) ==
    [e EXCEPT !.votes = 0, !.finished = 0, !.at = "left",
              !.call = [p \in Peer |-> IF e.call[p] = "sent" THEN "sent" ELSE "none"]]

\* When the term changes, whatever the requests of its elections return will be dropped
\* (currentTerm # args.Term): they need not be followed further.
Dropped(elections) ==
    [t \in Election |->
        [elections[t] EXCEPT !.call = [p \in Peer |-> IF @[p] = "sent" THEN "none" ELSE @[p]]]]

\* A leader no more: go rf.HandleTimeout().
EndOfOffice == watcher' = [watcher EXCEPT !["select"] = @ + 1]

ElectionInit ==
    /\ state = "Follower" /\ currentTerm = 0 /\ ready = FALSE
    /\ armed = TRUE /\ tick = FALSE
    /\ watcher = [a \in WatcherAt |-> IF a = "select" THEN 1 ELSE 0]
    /\ spawned = 0
    /\ election = [t \in Election |-> NoElection]
    /\ loop = [t \in Election |-> FALSE]
    /\ heard = 0

-----------------------------------------------------------------------------
(* The timer and HandleTimeout. *)

Fire ==
    /\ armed
    /\ armed' = FALSE /\ tick' = TRUE
    /\ UNCHANGED <<raftVars, watcher, spawned, election, loop, heard>>

\* A watcher takes the tick and reads the role.
TakeTick ==
    /\ watcher["select"] > 0 /\ tick
    /\ tick' = FALSE
    /\ watcher' = [watcher EXCEPT !["select"] = @ - 1, ![state] = @ + 1]
    /\ UNCHANGED <<raftVars, armed, spawned, election, loop, heard>>

\* It acts on the role it read: a follower runs; a candidate runs if it is ready, and is
\* ready otherwise; a leader needs no watcher.
HandleTimeout(nowState) ==
    /\ watcher[nowState] > 0
    /\ IF nowState = "Leader"
       THEN /\ watcher' = [watcher EXCEPT ![nowState] = @ - 1]
            /\ UNCHANGED <<ready, timerVars, spawned>>
       ELSE /\ ResetTimer
            /\ watcher' = [watcher EXCEPT ![nowState] = @ - 1, !["select"] = @ + 1]
            /\ IF nowState = "Follower" \/ ready
               THEN /\ spawned' = IF currentTerm + spawned < MaxTerm THEN spawned + 1 ELSE spawned
                    /\ UNCHANGED ready
               ELSE ready' = GetReady /\ UNCHANGED spawned
    /\ UNCHANGED <<state, currentTerm, election, loop, heard>>

-----------------------------------------------------------------------------
(* RunForElection. *)

Convert2Candidate ==
    /\ spawned > 0 /\ spawned' = spawned - 1
    /\ currentTerm < MaxTerm
    /\ state' = "Candidate"
    /\ currentTerm' = currentTerm + 1
    /\ election' = [Dropped(election) EXCEPT ![currentTerm + 1].at = "new"]
    /\ UNCHANGED <<ready, timerVars, watcher, loop, heard>>

\* sameTerm and ready; then the requests, if it is still a candidate.  A request that is
\* not sent because the server has ceased to be one is like one whose reply is dropped.
RunForElection(t) ==
    /\ election[t].at = "new"
    /\ ready' = FALSE
    /\ election' = [election EXCEPT ![t] =
          IF state = "Candidate"
          THEN [@ EXCEPT !.votes = OwnVote, !.finished = OwnVote, !.at = "ask",
                         !.call = [p \in Peer |-> "sent"]]
          ELSE NoElection]
    /\ UNCHANGED <<state, currentTerm, timerVars, watcher, spawned, loop, heard>>

\* sendRequestVote returns, with a reply or without, and its goroutine reads it.
VoteReturns(t, p) ==
    /\ election[t].call[p] = "sent"
    /\ \/ \* no longer a candidate: return
          /\ state # "Candidate"
          /\ election' = [election EXCEPT ![t].call[p] = "none"]
          /\ UNCHANGED <<raftVars, timerVars>>
       \/ \* a reply of a higher term: become a follower and return
          /\ state = "Candidate"
          /\ \E term \in currentTerm + 1 .. MaxTerm : currentTerm' = term
          /\ state' = "Follower"
          /\ ResetTimer
          /\ election' = Dropped(election)
          /\ UNCHANGED ready
       \/ \* granted, or not (a failed call is a refusal)
          /\ state = "Candidate"
          /\ \E vote \in IF election[t].at = "left" THEN {"none"} ELSE {"yes", "no"} :
                election' = [election EXCEPT ![t].call[p] = vote]
          /\ UNCHANGED <<raftVars, timerVars>>
    /\ UNCHANGED <<watcher, spawned, loop, heard>>

\* The section under voteMu.
CountVote(t, p) ==
    /\ election[t].call[p] \in {"yes", "no"}
    /\ election' = [election EXCEPT ![t].votes = IF election[t].call[p] = "yes" THEN @ + 1 ELSE @,
                                    ![t].finished = @ + 1, ![t].call[p] = "counted"]
    /\ UNCHANGED <<raftVars, timerVars, watcher, spawned, loop, heard>>

\* cond.Broadcast, which is called after voteMu is unlocked.
Announce(t, p) ==
    /\ election[t].call[p] = "counted"
    /\ election' = [election EXCEPT ![t].call[p] = "none", ![t].at = Broadcast(@)]
    /\ UNCHANGED <<raftVars, timerVars, watcher, spawned, loop, heard>>

\* After a wake-up: is the server still a candidate?
Woken(t) ==
    /\ election[t].at = "woken"
    /\ election' = [election EXCEPT ![t] =
          IF state = "Candidate" THEN [@ EXCEPT !.at = "check"] ELSE LeaveElection(@)]
    /\ UNCHANGED <<raftVars, timerVars, watcher, spawned, loop, heard>>

\* The loop over the peers ends early, if the server is a candidate no more.
StopAsking(t) ==
    /\ election[t].at = "ask" /\ state # "Candidate"
    /\ election' = [election EXCEPT ![t] = LeaveElection(@)]
    /\ UNCHANGED <<raftVars, timerVars, watcher, spawned, loop, heard>>

\* The waiting loop's condition, and what follows the loop.
CheckVotes(t) ==
    LET e == election[t] IN
    /\ e.at \in {"ask", "check"}
    /\ election' = [election EXCEPT ![t] =
          IF Wait(e) THEN [@ EXCEPT !.at = "wait"] ELSE LeaveElection(@)]
    /\ IF ~Wait(e) /\ e.votes >= MajorityNum
       THEN state' = "Leader" /\ loop' = [loop EXCEPT ![t] = TRUE]
       ELSE UNCHANGED <<state, loop>>
    /\ UNCHANGED <<currentTerm, ready, timerVars, watcher, spawned, heard>>

-----------------------------------------------------------------------------
\* The heartbeat loop finds that the server no longer leads.
EndLoop(t) ==
    /\ loop[t] /\ state # "Leader"
    /\ ResetTimer
    /\ EndOfOffice
    /\ loop' = [loop EXCEPT ![t] = FALSE]
    /\ UNCHANGED <<raftVars, spawned, election, heard>>

(* What others send, as far as it touches the role, the term or the timer. *)

Hear(term) ==
    /\ heard < MaxHeard /\ heard' = heard + 1
    /\ currentTerm' = term
    /\ state' = "Follower"
    /\ election' = IF term > currentTerm THEN Dropped(election) ELSE election
    /\ UNCHANGED <<ready, spawned, loop>>

\* A higher term, and the vote is granted or not; or a follower grants its vote.
RequestVote(term) ==
    /\ Hear(term)
    /\ \/ term > currentTerm /\ UNCHANGED timerVars
       \/ (term > currentTerm \/ state = "Follower") /\ ResetTimer
    /\ UNCHANGED watcher

\* No other server leads the term that this one leads.  A leader that follows starts a
\* HandleTimeout, and its heartbeat loop will start another.
AppendEntries(term) ==
    /\ term > currentTerm \/ state # "Leader"
    /\ Hear(term)
    /\ ResetTimer
    /\ IF state = "Leader" THEN EndOfOffice ELSE UNCHANGED watcher

\* The answer to a leader's AppendEntries carries a higher term.
LeaderStepsDown(term) ==
    /\ state = "Leader" /\ term > currentTerm
    /\ Hear(term)
    /\ UNCHANGED <<timerVars, watcher>>

\* The steps of one goroutine.
ElectionGoroutine(t) == RunForElection(t) \/ StopAsking(t) \/ Woken(t) \/ CheckVotes(t)
VoteGoroutine(t, p) == VoteReturns(t, p) \/ CountVote(t, p) \/ Announce(t, p)

ElectionNext ==
    \/ Fire
    \/ TakeTick \/ \E nowState \in Role : HandleTimeout(nowState)
    \/ Convert2Candidate
    \/ \E t \in Election :
          \/ ElectionGoroutine(t) \/ EndLoop(t)
          \/ \E p \in Peer : VoteGoroutine(t, p)
    \/ \E term \in currentTerm .. MaxTerm :
          RequestVote(term) \/ AppendEntries(term) \/ LeaderStepsDown(term)

\* Goroutines run, the timer fires, and a call returns (labrpc gives every call an answer
\* or a failure).  Nothing is asked of the other servers.
ElectionFairness ==
    /\ WF_electionVars(Fire) /\ WF_electionVars(Convert2Candidate)
    /\ WF_electionVars(TakeTick) /\ \A nowState \in Role : WF_electionVars(HandleTimeout(nowState))
    /\ \A t \in Election :
          /\ WF_electionVars(ElectionGoroutine(t)) /\ WF_electionVars(EndLoop(t))
          /\ \A p \in Peer : WF_electionVars(VoteGoroutine(t, p))

ElectionSpec == ElectionInit /\ [][ElectionNext]_electionVars /\ ElectionFairness

-----------------------------------------------------------------------------
(* Properties. *)

\* The domains of the goroutines' states; every election's counters stay within the group.
ElectionTypeOK ==
    /\ state \in Role /\ currentTerm \in 0 .. MaxTerm
    /\ {ready, armed, tick} \subseteq BOOLEAN
    /\ watcher \in [WatcherAt -> 0 .. MaxTerm + MaxHeard + 1]
    /\ spawned \in 0 .. MaxTerm /\ heard \in 0 .. MaxHeard
    /\ election \in [Election ->
          [votes : 0 .. SumNum, finished : 0 .. SumNum,
           call : [Peer -> {"none", "sent", "yes", "no", "counted"}],
           at : {"none", "new", "ask", "check", "wait", "woken", "left"}]]
    /\ loop \in [Election -> BOOLEAN]

\* A server campaigns again and again until it is made leader, whatever its peers answer
\* and whichever of its elections are still waiting: it leads or reaches the bound on terms.
CampaignsAgain == state # "Leader" ~> state = "Leader" \/ currentTerm = MaxTerm

\* No wake-up is lost, although Broadcast is called outside the lock: while RunForElection
\* sleeps although a majority or all answers are counted, somebody is about to call it.
NoLostWakeUp ==
    \A t \in Election :
        election[t].at = "wait" /\ ~Wait(election[t]) =>
            \E p \in Peer : election[t].call[p] = "counted"
=============================================================================
