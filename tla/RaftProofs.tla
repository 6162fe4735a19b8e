----------------------------- MODULE RaftProofs -----------------------------
(***************************************************************************)
(* Proofs about Raft for every set of servers, every bound and every       *)
(* choice of open gaps: types, what elections promise, and, in the second  *)
(* part, what log replication promises.                                    *)
(***************************************************************************)
EXTENDS Raft, TLAPS, FiniteSetTheorems, SequenceTheorems

-----------------------------------------------------------------------------
(* Operators on logs. *)

\* The bounds are natural numbers.
LEMMA Bounds == MaxTerm \in Nat /\ MaxRounds \in Nat /\ MaxCrashes \in Nat
  BY BoundAssumption

\* The term of an index of a log is a term, or -1.
LEMMA TermAtType ==
  ASSUME NEW l \in Seq(Entry), NEW i \in Int
  PROVE  TermAt(l, i) \in Term \cup {-1}
  <1>1. CASE i \in DOMAIN l
    <2>1. l[i] \in Entry
      BY <1>1
    <2> QED BY <1>1, <2>1 DEF TermAt, Entry
  <1>2. CASE i \notin DOMAIN l
    BY <1>2 DEF TermAt
  <1> QED BY <1>1, <1>2

\* So is the term of the last entry.
LEMMA LastTermType ==
  ASSUME NEW l \in Seq(Entry)
  PROVE  LastTerm(l) \in Term \cup {-1}
  BY TermAtType DEF LastTerm

\* What AppendEntries makes of a log that passed its check is a log.
LEMMA MergeType ==
  ASSUME NEW l \in Seq(Entry), NEW es \in Seq(Entry), NEW prev \in Nat,
         prev <= Len(l)
  PROVE  Merge(l, prev, es) \in Seq(Entry)
  <1> DEFINE agrees(i) == HasEntry(l, prev + i, es[i].term)
             new == [i \in 1 .. prev + Len(es) |->
                       IF \A j \in 1 .. i - prev : agrees(j) THEN l[i] ELSE es[i - prev]]
  <1>1. ASSUME NEW i \in 1 .. prev + Len(es)
        PROVE  (IF \A j \in 1 .. i - prev : agrees(j) THEN l[i] ELSE es[i - prev]) \in Entry
    <2>1. CASE \A j \in 1 .. i - prev : agrees(j)
      <3>1. i <= Len(l)
        <4>1. CASE i <= prev
          BY <4>1
        <4>2. CASE i > prev
          <5>1. agrees(i - prev)
            BY <2>1, <4>2
          <5> QED BY <5>1, <4>2 DEF HasEntry
        <4> QED BY <4>1, <4>2
      <3> QED BY <3>1, <2>1
    <2>2. CASE ~ \A j \in 1 .. i - prev : agrees(j)
      <3>1. i - prev \in 1 .. Len(es)
        BY <2>2
      <3> HIDE DEF agrees
      <3> QED BY <3>1, <2>2
    <2> QED BY <2>1, <2>2
  <1>2. new \in Seq(Entry)
    <2>1. prev + Len(es) \in Nat
      OBVIOUS
    <2>2. new \in [1 .. prev + Len(es) -> Entry]
      BY <1>1
    <2> HIDE DEF new
    <2> QED BY <2>1, <2>2, SeqDef, Zenon
  <1>3. Merge(l, prev, es) = IF \A i \in DOMAIN es : agrees(i) THEN l ELSE new
    BY DEF Merge
  <1> QED BY <1>2, <1>3

-----------------------------------------------------------------------------
(* Types. *)

\* A server that leads, or has led since its last restart, has been through
\* Convert2Leader, which makes both arrays: the fact TypeOK lacks to be inductive.
LeaderReady ==
  \A s \in Server :
     state[s] = "Leader" \/ nextIndex[s] # <<>> =>
        /\ nextIndex[s] \in [Server -> Nat \ {0}]
        /\ matchIndex[s] \in [Server -> Nat]

TypeInv == TypeOK /\ LeaderReady

\* The messages an action sends are messages.
LEMMA VoteRequestsType ==
  ASSUME TypeOK, NEW s \in Server, NEW term \in Term
  PROVE  VoteRequests(s, term) \subseteq Message
  <1>1. log[s] \in Seq(Entry)
    BY DEF TypeOK
  <1>2. LastTerm(log[s]) \in Term \cup {-1} /\ Len(log[s]) \in Nat
    BY <1>1, LastTermType
  <1> QED BY <1>2 DEF VoteRequests, Message

\* The same for LeaderAppendEntries.
LEMMA AppendRequestsType ==
  ASSUME TypeInv, NEW s \in Server, state[s] = "Leader", NEW term \in Term
  PROVE  AppendRequests(s, term) \subseteq Message
  <1> SUFFICES ASSUME NEW p \in Server
               PROVE  [type |-> "AppendEntries", from |-> s, to |-> p, term |-> term,
                       prevIndex |-> nextIndex[s][p] - 1,
                       prevTerm |-> TermAt(log[s], nextIndex[s][p] - 1),
                       entries |-> SubSeq(log[s], nextIndex[s][p], Len(log[s])),
                       commit |-> commitIndex[s]] \in Message
    BY DEF AppendRequests
  <1>1. log[s] \in Seq(Entry) /\ commitIndex[s] \in Nat
    BY DEF TypeOK, TypeInv
  <1>2. nextIndex[s][p] \in Nat \ {0}
    BY DEF TypeInv, LeaderReady
  <1>3. TermAt(log[s], nextIndex[s][p] - 1) \in Term \cup {-1}
    BY <1>1, <1>2, TermAtType
  <1>4. SubSeq(log[s], nextIndex[s][p], Len(log[s])) \in Seq(Entry)
    <2>1. \A i \in nextIndex[s][p] .. Len(log[s]) : log[s][i] \in Entry
      BY <1>1, <1>2
    <2> QED BY <2>1, <1>1, <1>2, SubSeqProperties
  <1> QED BY <1>1, <1>2, <1>3, <1>4 DEF Message

\* The same for the replies of AppendEntries.
LEMMA AnswerType ==
  ASSUME TypeOK, NEW m \in msgs, m.type = "AppendEntries", NEW success \in BOOLEAN,
         NEW last \in Nat, NEW cTerm \in Term \cup {-1}, NEW cIndex \in Nat
  PROVE  Answer(m, success, last, cTerm, cIndex) \in Message
  <1>1. m.from \in Server /\ m.to \in Server /\ m.term \in Term
    BY DEF TypeOK, Message
  <1>2. Max(m.term, currentTerm[m.to]) \in Term
    BY <1>1 DEF TypeOK, Max
  <1> QED BY <1>1, <1>2 DEF Answer, Message

\* What Convert2Candidate and StepDown leave behind has its type.
LEMMA CandidateTypes ==
  ASSUME TypeOK, NEW s \in Server, Convert2Candidate(s)
  PROVE  /\ currentTerm' \in [Server -> Term] /\ currentTerm'[s] = currentTerm[s] + 1
         /\ votedFor' \in [Server -> Server \cup {None}]
         /\ disk' \in [Server -> [term : Term, vote : Server \cup {None}, log : Seq(Entry)]]
         /\ state' \in [Server -> {"Follower", "Candidate", "Leader"}]
         /\ ballots' \subseteq [voter : Server, term : Term, cand : Server]
  <1>1. currentTerm[s] + 1 \in Term
    BY Bounds DEF TypeOK, Convert2Candidate, Term
  <1>2. /\ currentTerm' \in [Server -> Term] /\ currentTerm'[s] = currentTerm[s] + 1
        /\ votedFor' \in [Server -> Server \cup {None}]
        /\ log' \in [Server -> Seq(Entry)]
        /\ state' \in [Server -> {"Follower", "Candidate", "Leader"}]
    BY <1>1 DEF TypeOK, Convert2Candidate
  <1>3. [term |-> currentTerm'[s], vote |-> votedFor'[s], log |-> log'[s]]
           \in [term : Term, vote : Server \cup {None}, log : Seq(Entry)]
    BY <1>2
  <1>4. disk' \in [Server -> [term : Term, vote : Server \cup {None}, log : Seq(Entry)]]
    BY <1>3 DEF TypeOK, Convert2Candidate, persist
  <1>5. ballots' \subseteq [voter : Server, term : Term, cand : Server]
    BY <1>1 DEF TypeOK, Convert2Candidate
  <1> QED BY <1>2, <1>4, <1>5

\* The same for a server that reads a higher term in a reply.
LEMMA StepDownTypes ==
  ASSUME TypeOK, NEW s \in Server, NEW term \in Term, StepDown(s, term)
  PROVE  /\ currentTerm' \in [Server -> Term]
         /\ votedFor' \in [Server -> Server \cup {None}]
         /\ log' \in [Server -> Seq(Entry)]
         /\ disk' \in [Server -> [term : Term, vote : Server \cup {None}, log : Seq(Entry)]]
         /\ state' \in [Server -> {"Follower", "Candidate", "Leader"}]
         /\ \A t \in Server : state'[t] = "Leader" => state[t] = "Leader"
  <1>1. /\ currentTerm' \in [Server -> Term]
        /\ votedFor' \in [Server -> Server \cup {None}]
        /\ log' \in [Server -> Seq(Entry)]
        /\ state' \in [Server -> {"Follower", "Candidate", "Leader"}]
        /\ \A t \in Server : state'[t] = "Leader" => state[t] = "Leader"
    BY DEF TypeOK, StepDown
  <1>2. [term |-> currentTerm'[s], vote |-> votedFor'[s], log |-> log'[s]]
           \in [term : Term, vote : Server \cup {None}, log : Seq(Entry)]
    BY <1>1
  <1> QED BY <1>1, <1>2 DEF TypeOK, StepDown, persist

\* Every step keeps the types.
LEMMA TypeInvNext == TypeInv /\ [Next]_vars => TypeInv'
  <1> SUFFICES ASSUME TypeInv, [Next]_vars
               PROVE  TypeInv'
    OBVIOUS
  <1> USE Bounds
  <1>0. TypeOK
    BY DEF TypeInv
  <1>1. ASSUME NEW s \in Server, RunForElection(s)
        PROVE  TypeInv'
    <2>1. Convert2Candidate(s)
      BY <1>1 DEF RunForElection
    <2>2. currentTerm'[s] \in Term
      BY <1>0, <2>1, CandidateTypes
    <2>3. msgs' \subseteq Message
      BY <1>0, <1>1, <2>2, VoteRequestsType DEF RunForElection, TypeOK
    <2>4. runs' \subseteq Run
      BY <1>0, <1>1, <2>2 DEF RunForElection, NewRun, Run, TypeOK
    <2>5. TypeOK'
      BY <1>0, <1>1, <2>1, <2>3, <2>4, CandidateTypes
         DEF RunForElection, TypeOK, leaderVars, Convert2Candidate
    <2>6. LeaderReady'
      BY <1>1, <2>1 DEF TypeInv, TypeOK, LeaderReady, RunForElection, Convert2Candidate, leaderVars
    <2> QED BY <2>5, <2>6 DEF TypeInv
  <1>2. ASSUME NEW s \in Server, PauseInElection(s)
        PROVE  TypeInv'
    <2>1. Convert2Candidate(s)
      BY <1>2 DEF PauseInElection
    <2>2. currentTerm'[s] \in Term
      BY <1>0, <2>1, CandidateTypes
    <2>3. runs' \subseteq Run
      BY <1>0, <1>2, <2>2 DEF PauseInElection, NewRun, Run, TypeOK, Term
    <2>4. TypeOK'
      BY <1>0, <1>2, <2>1, <2>3, CandidateTypes
         DEF PauseInElection, TypeOK, leaderVars, Convert2Candidate
    <2>5. LeaderReady'
      BY <1>2, <2>1 DEF TypeInv, TypeOK, LeaderReady, PauseInElection, Convert2Candidate, leaderVars
    <2> QED BY <2>4, <2>5 DEF TypeInv
  <1>3. ASSUME NEW r \in runs, ResumeElection(r)
        PROVE  TypeInv'
    <2>1. r \in Run /\ r.cand \in Server /\ currentTerm[r.cand] \in Term
      BY <1>0 DEF TypeOK, Run
    <2>2. msgs' \subseteq Message
      BY <1>0, <1>3, <2>1, VoteRequestsType DEF ResumeElection, TypeOK
    <2>3. runs' \subseteq Run
      BY <1>0, <1>3, <2>1 DEF ResumeElection, NewRun, Run, TypeOK
    <2> QED BY <1>3, <2>2, <2>3 DEF TypeInv, TypeOK, LeaderReady, ResumeElection, leaderVars, history
  <1>4. ASSUME NEW m \in msgs, RequestVote(m)
        PROVE  TypeInv'
    <2>1. m.to \in Server /\ m.from \in Server /\ m.term \in Term
      BY <1>0, <1>4 DEF RequestVote, TypeOK, Message
    <2>2. Max(m.term, currentTerm[m.to]) \in Term
      BY <1>0, <2>1 DEF Max, TypeOK
    <2>3. /\ currentTerm' \in [Server -> Term]
          /\ votedFor' \in [Server -> Server \cup {None}]
          /\ log' \in [Server -> Seq(Entry)]
          /\ state' \in [Server -> {"Follower", "Candidate", "Leader"}]
      BY <1>0, <1>4, <2>1, <2>2 DEF TypeOK, RequestVote
    <2>4. disk' \in [Server -> [term : Term, vote : Server \cup {None}, log : Seq(Entry)]]
      <3>1. [term |-> currentTerm'[m.to], vote |-> votedFor'[m.to], log |-> log'[m.to]]
              \in [term : Term, vote : Server \cup {None}, log : Seq(Entry)]
        BY <2>3, <2>1
      <3> QED BY <1>0, <1>4, <3>1 DEF TypeOK, RequestVote, persist
    <2>5. ballots' \subseteq [voter : Server, term : Term, cand : Server]
      BY <1>0, <1>4, <2>1 DEF TypeOK, RequestVote
    <2>6. msgs' \subseteq Message
      <3>1. PICK grant \in BOOLEAN :
               msgs' \subseteq msgs \cup
                  {[type |-> "RequestVoteReply", from |-> m.to, to |-> m.from, asked |-> m.term,
                    term |-> Max(m.term, currentTerm[m.to]), granted |-> grant]}
        BY <1>4 DEF RequestVote
      <3>2. [type |-> "RequestVoteReply", from |-> m.to, to |-> m.from, asked |-> m.term,
             term |-> Max(m.term, currentTerm[m.to]), granted |-> grant] \in Message
        BY <2>1, <2>2 DEF Message
      <3> QED BY <1>0, <3>1, <3>2 DEF TypeOK
    <2>7. TypeOK'
      BY <1>0, <1>4, <2>3, <2>4, <2>5, <2>6 DEF RequestVote, TypeOK, leaderVars
    <2>8. LeaderReady'
      BY <1>4, <2>1 DEF TypeInv, TypeOK, LeaderReady, RequestVote, leaderVars
    <2> QED BY <2>7, <2>8 DEF TypeInv
  <1>5. ASSUME NEW r \in runs, NEW m \in msgs, VoteRefused(r, m)
        PROVE  TypeInv'
    <2>1. r.cand \in Server /\ m.term \in Term /\ StepDown(r.cand, m.term)
      BY <1>0, <1>5 DEF VoteRefused, TypeOK, Run, Message
    <2>2. TypeOK'
      BY <1>0, <1>5, <2>1, StepDownTypes DEF VoteRefused, TypeOK, leaderVars, history
    <2>3. LeaderReady'
      BY <1>0, <1>5, <2>1, StepDownTypes DEF VoteRefused, TypeInv, LeaderReady, leaderVars
    <2> QED BY <2>2, <2>3 DEF TypeInv
  <1>6. ASSUME NEW r \in runs, TakeOffice(r)
        PROVE  TypeInv'
    <2>1. r.cand \in Server /\ r.term \in Term
      BY <1>0 DEF TypeOK, Run
    <2>2. FirstNext(log[r.cand]) \in Nat \ {0}
      BY <1>0, <2>1 DEF TypeOK, FirstNext
    <2>3. /\ [p \in Server |-> FirstNext(log[r.cand])] \in [Server -> Nat \ {0}]
          /\ [p \in Server |-> 0] \in [Server -> Nat]
      BY <2>2
    <2>4. /\ nextIndex' \in [Server -> [Server -> Nat \ {0}] \cup {<<>>}]
          /\ matchIndex' \in [Server -> [Server -> Nat] \cup {<<>>}]
      BY <1>0, <1>6, <2>3 DEF TypeOK, TakeOffice
    <2>5. TypeOK'
      BY <1>0, <1>6, <2>1, <2>4 DEF TypeOK, TakeOffice
    <2>6. LeaderReady'
      BY <1>6, <2>1, <2>3 DEF TypeInv, TypeOK, LeaderReady, TakeOffice
    <2> QED BY <2>5, <2>6 DEF TypeInv
  <1>7. ASSUME NEW r \in runs, PauseInTally(r)
        PROVE  TypeInv'
    <2>1. runs' \subseteq Run
      BY <1>0, <1>7 DEF PauseInTally, TypeOK, Run
    <2> QED BY <1>7, <2>1 DEF PauseInTally, TypeInv, TypeOK, LeaderReady, serverVars, leaderVars, history
  <1>8. ASSUME NEW s \in Server, NEW c \in Command, NEW term \in Term, AppendEntry(s, c, term),
               starts' \subseteq starts
        PROVE  TypeInv'
    <2>1. Append(log[s], [term |-> term, cmd |-> c]) \in Seq(Entry)
      <3>1. log[s] \in Seq(Entry) /\ [term |-> term, cmd |-> c] \in Entry
        BY <1>0 DEF TypeOK, Entry
      <3> QED BY <3>1, AppendProperties
    <2>2. log' \in [Server -> Seq(Entry)]
      BY <1>0, <1>8, <2>1 DEF TypeOK, AppendEntry
    <2>3. disk' \in [Server -> [term : Term, vote : Server \cup {None}, log : Seq(Entry)]]
      <3>1. [term |-> currentTerm'[s], vote |-> votedFor'[s], log |-> log'[s]]
              \in [term : Term, vote : Server \cup {None}, log : Seq(Entry)]
        BY <1>0, <1>8, <2>2 DEF AppendEntry, TypeOK
      <3> QED BY <1>0, <1>8, <3>1 DEF TypeOK, AppendEntry, persist
    <2> QED BY <1>8, <2>2, <2>3 DEF AppendEntry, TypeInv, TypeOK, LeaderReady, leaderVars, history
  <1>9. ASSUME NEW s \in Server, NEW c \in Command, PauseInStart(s, c)
        PROVE  TypeInv'
    <2>1. starts' \subseteq [server : Server, term : Term, cmd : Command]
      BY <1>0, <1>9 DEF PauseInStart, TypeOK
    <2>2. UNCHANGED <<currentTerm, votedFor, log, disk, state, commitIndex, nextIndex, matchIndex,
                      runs, beats, msgs, crashes, rounds, ballots, elected>>
      BY <1>9 DEF PauseInStart, serverVars, leaderVars, history
    <2> QED BY <2>1, <2>2 DEF TypeInv, TypeOK, LeaderReady
  <1>10. ASSUME NEW s \in Server, state[s] = "Leader" \/ nextIndex[s] # <<>>,
                matchIndex' = [matchIndex EXCEPT ![s][s] = Len(log[s])],
                nextIndex' = [nextIndex EXCEPT ![s][s] = Len(log[s]) + 1],
                UNCHANGED state
         PROVE  /\ nextIndex' \in [Server -> [Server -> Nat \ {0}] \cup {<<>>}]
                /\ matchIndex' \in [Server -> [Server -> Nat] \cup {<<>>}]
                /\ LeaderReady'
    <2>1. nextIndex[s] \in [Server -> Nat \ {0}] /\ matchIndex[s] \in [Server -> Nat]
      BY <1>10 DEF TypeInv, LeaderReady
    <2>2. Len(log[s]) \in Nat
      BY <1>0 DEF TypeOK
    <2>3. /\ [nextIndex[s] EXCEPT ![s] = Len(log[s]) + 1] \in [Server -> Nat \ {0}]
          /\ [matchIndex[s] EXCEPT ![s] = Len(log[s])] \in [Server -> Nat]
      BY <2>1, <2>2
    <2>4. /\ nextIndex' = [nextIndex EXCEPT ![s] = [nextIndex[s] EXCEPT ![s] = Len(log[s]) + 1]]
          /\ matchIndex' = [matchIndex EXCEPT ![s] = [matchIndex[s] EXCEPT ![s] = Len(log[s])]]
      BY <1>10
    <2> QED BY <1>0, <1>10, <2>3, <2>4, SMTT(120) DEF TypeInv, TypeOK, LeaderReady
  <1>11. ASSUME NEW s \in Server, LeaderAppendEntries(s)
         PROVE  TypeInv'
    <2>1. currentTerm[s] \in Term
      BY <1>0 DEF TypeOK
    <2>2. msgs' \subseteq Message
      BY <1>0, <1>11, <2>1, AppendRequestsType DEF LeaderAppendEntries, TypeOK
    <2>3. /\ nextIndex' \in [Server -> [Server -> Nat \ {0}] \cup {<<>>}]
          /\ matchIndex' \in [Server -> [Server -> Nat] \cup {<<>>}]
          /\ LeaderReady'
      BY <1>10, <1>11 DEF LeaderAppendEntries, serverVars
    <2>4. rounds' \in 0 .. MaxRounds
      BY <1>0, <1>11 DEF LeaderAppendEntries, TypeOK
    <2>5. UNCHANGED <<currentTerm, votedFor, log, disk, state, commitIndex, runs, beats, starts,
                      crashes, ballots, elected>>
      BY <1>11 DEF LeaderAppendEntries, serverVars, history
    <2> QED BY <1>0, <2>2, <2>3, <2>4, <2>5 DEF TypeInv, TypeOK
  <1>12. ASSUME NEW s \in Server, PauseInAppend(s)
         PROVE  TypeInv'
    <2>1. beats' \subseteq [server : Server, term : Term]
      BY <1>0, <1>12 DEF PauseInAppend, TypeOK
    <2>2. /\ nextIndex' \in [Server -> [Server -> Nat \ {0}] \cup {<<>>}]
          /\ matchIndex' \in [Server -> [Server -> Nat] \cup {<<>>}]
          /\ LeaderReady'
      BY <1>10, <1>12 DEF PauseInAppend, serverVars
    <2>3. UNCHANGED <<currentTerm, votedFor, log, disk, state, commitIndex, runs, starts, msgs,
                      crashes, rounds, ballots, elected>>
      BY <1>12 DEF PauseInAppend, serverVars, history
    <2> QED BY <1>0, <2>1, <2>2, <2>3 DEF TypeInv, TypeOK
  <1>13. ASSUME NEW b \in beats, ResumeAppend(b)
         PROVE  TypeInv'
    <2>1. b.server \in Server /\ b.term \in Term
      BY <1>0 DEF TypeOK
    <2>2. msgs' \subseteq Message
      BY <1>0, <1>13, <2>1, AppendRequestsType DEF ResumeAppend, TypeOK
    <2>3. rounds' \in 0 .. MaxRounds
      BY <1>0, <1>13 DEF ResumeAppend, TypeOK
    <2>4. UNCHANGED <<currentTerm, votedFor, log, disk, state, commitIndex, nextIndex, matchIndex,
                      runs, beats, starts, crashes, ballots, elected>>
      BY <1>13 DEF ResumeAppend, serverVars, leaderVars, history
    <2> QED BY <2>2, <2>3, <2>4 DEF TypeInv, TypeOK, LeaderReady
  <1>14. ASSUME NEW m \in msgs, AppendEntries(m)
         PROVE  TypeInv'
    <2> DEFINE s == m.to
    <2>1. /\ s \in Server /\ m.term \in Term /\ m.prevIndex \in Nat
          /\ m.entries \in Seq(Entry) /\ m.commit \in Nat /\ m.type = "AppendEntries"
      BY <1>0, <1>14 DEF AppendEntries, TypeOK, Message
    <2>2. log[s] \in Seq(Entry) /\ ConflictTerm(log[s], m.prevIndex) \in Term \cup {-1}
      BY <1>0, <2>1, TermAtType DEF TypeOK, ConflictTerm
    <2>3. msgs' \subseteq Message
      <3>0. 0 \in Nat /\ 0 \in Term \cup {-1} /\ m.prevIndex + Len(m.entries) \in Nat
        BY <2>1 DEF Term
      <3>1. CASE msgs' = (msgs \ {m}) \cup {Answer(m, FALSE, 0, 0, 0)}
        <4>1. Answer(m, FALSE, 0, 0, 0) \in Message
          BY <1>0, <2>1, <3>0, AnswerType
        <4> QED BY <1>0, <3>1, <4>1 DEF TypeOK
      <3>2. CASE \E i \in 1 .. Len(log[s]) + 1 :
               msgs' = (msgs \ {m}) \cup
                          {Answer(m, FALSE, 0, ConflictTerm(log[s], m.prevIndex), i)}
        <4>1. PICK i \in 1 .. Len(log[s]) + 1 :
                 msgs' = (msgs \ {m}) \cup
                            {Answer(m, FALSE, 0, ConflictTerm(log[s], m.prevIndex), i)}
          BY <3>2
        <4>2. i \in Nat
          BY <2>2, <4>1
        <4>3. Answer(m, FALSE, 0, ConflictTerm(log[s], m.prevIndex), i) \in Message
          BY <1>0, <2>1, <2>2, <3>0, <4>2, AnswerType
        <4> QED BY <1>0, <4>1, <4>3 DEF TypeOK
      <3>3. CASE msgs' = (msgs \ {m}) \cup {Answer(m, TRUE, m.prevIndex + Len(m.entries), 0, 0)}
        <4>1. Answer(m, TRUE, m.prevIndex + Len(m.entries), 0, 0) \in Message
          BY <1>0, <2>1, <3>0, AnswerType
        <4> QED BY <1>0, <3>3, <4>1 DEF TypeOK
      <3> QED BY <1>14, <3>1, <3>2, <3>3 DEF AppendEntries
    <2>4. CASE m.term < currentTerm[s]
      <3>1. ~ m.term >= currentTerm[s]
        BY <1>0, <2>1, <2>4 DEF TypeOK, Term
      <3>2. UNCHANGED <<currentTerm, votedFor, log, disk, state, commitIndex, nextIndex, matchIndex,
                        runs, beats, starts, crashes, rounds, ballots, elected>>
        BY <1>14, <3>1 DEF AppendEntries, serverVars, leaderVars, history
      <3> QED BY <2>3, <3>2 DEF TypeInv, TypeOK, LeaderReady
    <2>5. CASE ~ m.term < currentTerm[s]
      <3>1. /\ currentTerm' \in [Server -> Term]
            /\ votedFor' \in [Server -> Server \cup {None}]
            /\ state' \in [Server -> {"Follower", "Candidate", "Leader"}]
            /\ \A t \in Server : state'[t] = "Leader" => state[t] = "Leader"
        <4>1. /\ currentTerm' = [currentTerm EXCEPT ![s] = m.term]
              /\ \E v \in {votedFor[s], None} : votedFor' = [votedFor EXCEPT ![s] = v]
              /\ state' = [state EXCEPT ![s] = "Follower"]
          BY <1>14, <2>5 DEF AppendEntries
        <4> QED BY <1>0, <2>1, <4>1 DEF TypeOK
      <3>2. log' \in [Server -> Seq(Entry)]
        <4>1. CASE log' = log
          BY <1>0, <4>1 DEF TypeOK
        <4>2. CASE /\ HasEntry(log[s], m.prevIndex, m.prevTerm)
                   /\ log' = [log EXCEPT ![s] = Merge(@, m.prevIndex, m.entries)]
          <5>1. Merge(log[s], m.prevIndex, m.entries) \in Seq(Entry)
            BY <2>1, <2>2, <4>2, MergeType DEF HasEntry
          <5> QED BY <1>0, <2>1, <4>2, <5>1 DEF TypeOK
        <4> QED BY <1>14, <2>5, <4>1, <4>2 DEF AppendEntries
      <3>3. [term |-> currentTerm'[s], vote |-> votedFor'[s], log |-> log'[s]]
              \in [term : Term, vote : Server \cup {None}, log : Seq(Entry)]
        BY <2>1, <3>1, <3>2
      <3>4. disk' \in [Server -> [term : Term, vote : Server \cup {None}, log : Seq(Entry)]]
        BY <1>0, <1>14, <2>1, <2>5, <3>3, ZenonT(120) DEF AppendEntries, TypeOK, persist
      <3>5. commitIndex' \in [Server -> Nat]
        <4>1. Min(m.commit, Len(log'[s])) \in Nat
          BY <2>1, <3>2 DEF Min
        <4> QED BY <1>0, <1>14, <2>1, <2>5, <4>1, ZenonT(120) DEF AppendEntries, TypeOK
      <3>6. TypeOK'
        BY <1>0, <1>14, <2>3, <3>1, <3>2, <3>4, <3>5 DEF AppendEntries, TypeOK, leaderVars, history
      <3>7. LeaderReady'
        BY <1>14, <3>1 DEF AppendEntries, TypeInv, LeaderReady, leaderVars
      <3> QED BY <3>6, <3>7 DEF TypeInv
    <2> QED BY <2>4, <2>5
  <1>15. ASSUME NEW m \in msgs, LeaderHandlesReply(m)
         PROVE  TypeInv'
    <2> DEFINE s == m.to
               p == m.from
               new == [matchIndex[s] EXCEPT ![p] = Max(m.last, @)]
    <2>1. /\ s \in Server /\ p \in Server /\ m.term \in Term /\ m.last \in Nat
          /\ state[s] = "Leader" /\ m.asked \in Term
      BY <1>0, <1>15 DEF LeaderHandlesReply, TypeOK, Message
    <2>2. nextIndex[s] \in [Server -> Nat \ {0}] /\ matchIndex[s] \in [Server -> Nat]
      BY <2>1 DEF TypeInv, LeaderReady
    <2>3. new \in [Server -> Nat]
      BY <2>1, <2>2 DEF Max
    <2>4. msgs' \subseteq Message
      BY <1>0, <1>15 DEF LeaderHandlesReply, TypeOK
    <2>5. CASE m.term > m.asked
      <3>1. StepDown(s, m.term) /\ UNCHANGED <<commitIndex, leaderVars>>
        BY <1>15, <2>1, <2>5 DEF LeaderHandlesReply, Term
      <3>2. TypeOK'
        BY <1>0, <1>15, <2>1, <2>4, <3>1, StepDownTypes DEF LeaderHandlesReply, TypeOK, leaderVars, history
      <3>3. LeaderReady'
        BY <1>0, <2>1, <3>1, StepDownTypes DEF TypeInv, LeaderReady, leaderVars
      <3> QED BY <3>2, <3>3 DEF TypeInv
    <2>6. CASE ~ m.term > m.asked /\ ~ m.success
      <3>1. PICK i \in matchIndex[s][p] + 1 .. nextIndex[s][p] - 1 :
               nextIndex' = [nextIndex EXCEPT ![s][p] = i]
        BY <1>15, <2>6 DEF LeaderHandlesReply
      <3>2. i \in Nat \ {0}
        BY <2>1, <2>2, <3>1
      <3>3. [nextIndex[s] EXCEPT ![p] = i] \in [Server -> Nat \ {0}]
        BY <2>1, <2>2, <3>2
      <3>4. nextIndex' = [nextIndex EXCEPT ![s] = [nextIndex[s] EXCEPT ![p] = i]]
        BY <3>1
      <3>5. UNCHANGED <<currentTerm, votedFor, log, disk, state, commitIndex, matchIndex>>
        BY <1>15, <2>6 DEF LeaderHandlesReply
      <3>6. TypeOK'
        BY <1>0, <1>15, <2>1, <2>4, <3>3, <3>4, <3>5 DEF LeaderHandlesReply, TypeOK, history
      <3>7. LeaderReady'
        BY <1>0, <2>1, <2>2, <3>3, <3>4, <3>5 DEF TypeInv, TypeOK, LeaderReady
      <3> QED BY <3>6, <3>7 DEF TypeInv
    <2>7. CASE ~ m.term > m.asked /\ m.success
      <3>1. /\ matchIndex' = [matchIndex EXCEPT ![s] = new]
            /\ nextIndex' = [nextIndex EXCEPT ![s] = [nextIndex[s] EXCEPT ![p] = new[p] + 1]]
            /\ UNCHANGED <<currentTerm, votedFor, log, disk, state>>
        BY <1>15, <2>7 DEF LeaderHandlesReply
      <3>2. [nextIndex[s] EXCEPT ![p] = new[p] + 1] \in [Server -> Nat \ {0}]
        BY <2>1, <2>2, <2>3
      <3>3. commitIndex' \in [Server -> Nat]
        <4>1. Committable(log[s], currentTerm[s], new, commitIndex[s]) \subseteq Nat
          BY <1>0, <2>1 DEF Committable, TypeOK
        <4> QED BY <1>0, <1>15, <2>1, <2>7, <4>1, ZenonT(120) DEF LeaderHandlesReply, TypeOK
      <3> HIDE DEF new
      <3>4. TypeOK'
        BY <1>0, <1>15, <2>3, <2>4, <3>1, <3>2, <3>3 DEF LeaderHandlesReply, TypeOK, history
      <3>5. LeaderReady'
        BY <1>0, <2>1, <2>3, <3>1, <3>2 DEF TypeInv, TypeOK, LeaderReady
      <3> QED BY <3>4, <3>5 DEF TypeInv
    <2> QED BY <2>5, <2>6, <2>7
  <1>16. ASSUME NEW s \in Server, Crash(s)
         PROVE  TypeInv'
    <2>1. disk[s] \in [term : Term, vote : Server \cup {None}, log : Seq(Entry)]
      BY <1>0 DEF TypeOK
    <2>2. /\ currentTerm' \in [Server -> Term]
          /\ votedFor' \in [Server -> Server \cup {None}]
          /\ log' \in [Server -> Seq(Entry)]
          /\ state' \in [Server -> {"Follower", "Candidate", "Leader"}]
      BY <1>0, <1>16, <2>1 DEF TypeOK, Crash
    <2>3. [term |-> currentTerm'[s], vote |-> votedFor'[s], log |-> log'[s]]
            \in [term : Term, vote : Server \cup {None}, log : Seq(Entry)]
      BY <2>2
    <2>4. disk' \in [Server -> [term : Term, vote : Server \cup {None}, log : Seq(Entry)]]
      BY <1>0, <1>16, <2>3 DEF TypeOK, Crash, persist
    <2>5. TypeOK'
      BY <1>0, <1>16, <2>2, <2>4, SMTT(120) DEF TypeOK, Crash, history
    <2>6. LeaderReady'
      BY <1>16 DEF TypeInv, TypeOK, LeaderReady, Crash
    <2> QED BY <2>5, <2>6 DEF TypeInv
  <1>17. CASE UNCHANGED vars
    BY <1>17 DEF TypeInv, TypeOK, LeaderReady, vars, serverVars, leaderVars, history
  <1>18. ASSUME NEW s \in Server, NEW c \in Command, Start(s, c)
         PROVE  TypeInv'
    BY <1>0, <1>8, <1>18 DEF Start, TypeOK
  <1>19. ASSUME NEW c \in starts, ResumeStart(c)
         PROVE  TypeInv'
    BY <1>0, <1>8, <1>19 DEF ResumeStart, TypeOK
  <1>20. ASSUME NEW r \in runs, Convert2Leader(r) \/ ResumeTally(r)
         PROVE  TypeInv'
    BY <1>6, <1>20 DEF Convert2Leader, ResumeTally
  <1> QED
    BY <1>1, <1>2, <1>3, <1>4, <1>5, <1>7, <1>9, <1>11, <1>12, <1>13, <1>14, <1>15, <1>16,
       <1>17, <1>18, <1>19, <1>20 DEF Next

\* Spec keeps every field, message and goroutine record in its domain, whatever gaps are
\* open: the first invariant of raft.go's state (struct Raft and the RPC arguments).
THEOREM TypeCorrect == Spec => []TypeOK
  <1>1. Init => TypeInv
    BY Bounds DEF Init, TypeInv, TypeOK, LeaderReady, Term
  <1>2. TypeInv => TypeOK
    BY DEF TypeInv
  <1> QED BY <1>1, <1>2, TypeInvNext, PTL DEF Spec

-----------------------------------------------------------------------------
(* What elections promise: a server votes once in a term, and no two       *)
(* servers count a majority in one term.  With the gap before              *)
(* Convert2Leader closed no two servers lead in one term.                  *)


Ballot(v, term, c) == [voter |-> v, term |-> term, cand |-> c]
Voters(c, term) == {v \in Server : Ballot(v, term, c) \in ballots}

\* What the Persister holds is the term and vote in memory, so a crash forgets neither.
DiskCurrent ==
  \A s \in Server : disk[s].term = currentTerm[s] /\ disk[s].vote = votedFor[s]

\* A server is in the term of its last vote or later, and remembers a vote of its term.
VotesRemembered ==
  \A b \in ballots : /\ b.term <= currentTerm[b.voter]
                     /\ b.term = currentTerm[b.voter] => votedFor[b.voter] = b.cand

\* A reply that grants a vote stands for a vote that was cast.
GrantsCast ==
  \A m \in msgs : m.type = "RequestVoteReply" /\ m.granted =>
                     Ballot(m.from, m.asked, m.to) \in ballots

\* A candidate voted for itself.
CandidatesCast ==
  \A s \in Server : state[s] = "Candidate" => Ballot(s, currentTerm[s], s) \in ballots

\* Whoever counted a majority got it.
WinnersElected ==
  /\ \A r \in runs : r.phase = "won" => IsMajority(Voters(r.cand, r.term))
  /\ \A e \in elected : IsMajority(Voters(e.server, e.term))

\* With the gap before Convert2Leader closed nobody waits there, and office is taken in
\* the term of the count.
OfficeInTerm ==
  "Convert2Leader" \notin Windows =>
     /\ \A r \in runs : r.phase # "won"
     /\ \A e \in elected : e.office = e.term

ElectionInv ==
  /\ DiskCurrent /\ VotesRemembered /\ VoteOnce /\ GrantsCast
  /\ CandidatesCast /\ WinnersElected /\ OfficeInTerm

-----------------------------------------------------------------------------
(* Majorities. *)

\* A set that includes a majority is one.
LEMMA LargerMajority ==
  ASSUME NEW S, NEW T, S \subseteq T, T \subseteq Server, IsMajority(S)
  PROVE  IsMajority(T)
  <1>1. IsFiniteSet(T)
    BY ServerAssumption, FS_Subset
  <1>2. IsFiniteSet(S) /\ Cardinality(S) <= Cardinality(T)
    BY <1>1, FS_Subset
  <1>3. Cardinality(S) \in Nat /\ Cardinality(T) \in Nat /\ Cardinality(Server) \in Nat
    BY <1>1, <1>2, ServerAssumption, FS_CardinalityType
  <1> QED BY <1>2, <1>3 DEF IsMajority

\* Two majorities share a server.
LEMMA MajoritiesMeet ==
  ASSUME NEW S, NEW T, S \subseteq Server, T \subseteq Server, IsMajority(S), IsMajority(T)
  PROVE  S \cap T # {}
  <1>1. IsFiniteSet(S) /\ IsFiniteSet(T) /\ IsFiniteSet(Server)
    BY ServerAssumption, FS_Subset
  <1>2. Cardinality(S) \in Nat /\ Cardinality(T) \in Nat /\ Cardinality(Server) \in Nat
    BY <1>1, FS_CardinalityType
  <1>3. Cardinality(S) + Cardinality(T) > Cardinality(Server)
    BY <1>2 DEF IsMajority
  <1> QED BY <1>1, <1>3, FS_MajoritiesIntersect

\* Votes are never taken back, so a majority stays one.
LEMMA MajorityKept ==
  ASSUME ballots \subseteq ballots', NEW c, NEW term, IsMajority(Voters(c, term))
  PROVE  IsMajority(Voters(c, term)')
  <1>1. Voters(c, term) \subseteq Voters(c, term)' /\ Voters(c, term)' \subseteq Server
    BY DEF Voters
  <1> QED BY <1>1, LargerMajority

\* The replies a run counts, with its own vote, are votes for its candidate.
LEMMA CountedVotes ==
  ASSUME TypeOK, ElectionInv, NEW r \in runs, HasMajority(r)
  PROVE  IsMajority(Voters(r.cand, r.term))
  <1>1. r.cand \in Server
    BY DEF TypeOK, Run
  <1>2. Ballot(r.cand, r.term, r.cand) \in ballots
    BY <1>1 DEF ElectionInv, CandidatesCast, HasMajority, Campaigning
  <1>3. Granted(r) \subseteq Voters(r.cand, r.term)
    BY SMTT(120) DEF Granted, Voters, ElectionInv, GrantsCast, TypeOK, Message
  <1>4. Granted(r) \cup {r.cand} \subseteq Voters(r.cand, r.term)
    BY <1>1, <1>2, <1>3 DEF Voters
  <1>5. Voters(r.cand, r.term) \subseteq Server
    BY DEF Voters
  <1> QED BY <1>4, <1>5, LargerMajority DEF HasMajority

-----------------------------------------------------------------------------
(* Steps. *)

\* The parts of a step that elections see.  A term is kept or grows, and the vote of a
\* term is kept; a candidate is one still, in its term; votes are not taken back.
TermsGrow ==
  \A s \in Server : \/ currentTerm'[s] > currentTerm[s]
                    \/ currentTerm'[s] = currentTerm[s] /\ votedFor'[s] = votedFor[s]
NoNewCandidate ==
  \A s \in Server : state'[s] = "Candidate" =>
                       state[s] = "Candidate" /\ currentTerm'[s] = currentTerm[s]
NoNewGrant ==
  \A m \in msgs' : m.type = "RequestVoteReply" /\ m.granted => m \in msgs
NoNewWinner ==
  \A r \in runs' : r.phase = "won" => r \in runs

\* A step in which nobody votes, wins or takes office.
LEMMA QuietStep ==
  ASSUME TypeOK, TypeOK', ElectionInv, UNCHANGED <<ballots, elected>>, TermsGrow,
         NoNewCandidate, NoNewGrant, NoNewWinner, DiskCurrent'
  PROVE  ElectionInv'
  <1>1. VotesRemembered'
    <2> SUFFICES ASSUME NEW b \in ballots
                 PROVE  /\ b.term <= currentTerm'[b.voter]
                        /\ b.term = currentTerm'[b.voter] => votedFor'[b.voter] = b.cand
      BY DEF VotesRemembered
    <2>1. /\ b.voter \in Server /\ b.term \in Int
          /\ currentTerm[b.voter] \in Int /\ currentTerm'[b.voter] \in Int
      BY SMTT(120) DEF TypeOK, Term
    <2>2. /\ b.term <= currentTerm[b.voter]
          /\ b.term = currentTerm[b.voter] => votedFor[b.voter] = b.cand
      BY DEF ElectionInv, VotesRemembered
    <2> QED BY <2>1, <2>2 DEF TermsGrow
  <1>2. VoteOnce'
    BY DEF ElectionInv, VoteOnce
  <1>3. GrantsCast'
    BY DEF ElectionInv, GrantsCast, NoNewGrant
  <1>4. CandidatesCast'
    BY DEF ElectionInv, CandidatesCast, NoNewCandidate
  <1>5. WinnersElected' /\ OfficeInTerm'
    BY DEF ElectionInv, WinnersElected, OfficeInTerm, NoNewWinner, Voters
  <1> QED BY <1>1, <1>2, <1>3, <1>4, <1>5 DEF ElectionInv

\* A step in which server s votes for c in a term it has not voted in, or again for c.
LEMMA VoteStep ==
  ASSUME TypeOK, TypeOK', ElectionInv, UNCHANGED elected, NoNewWinner, DiskCurrent',
         NEW s \in Server, NEW c \in Server, NEW term \in Term,
         ballots' = ballots \cup {Ballot(s, term, c)},
         term >= currentTerm[s], term = currentTerm[s] => votedFor[s] \in {None, c},
         currentTerm' = [currentTerm EXCEPT ![s] = term],
         votedFor' = [votedFor EXCEPT ![s] = c],
         GrantsCast', CandidatesCast'
  PROVE  ElectionInv'
  <1>1. Ballot(s, term, c).voter = s /\ Ballot(s, term, c).term = term /\ Ballot(s, term, c).cand = c
    BY DEF Ballot
  <1>2. \A b \in ballots : b.voter = s /\ b.term = term => b.cand = c
    <2> SUFFICES ASSUME NEW b \in ballots, b.voter = s, b.term = term
                 PROVE  b.cand = c
      OBVIOUS
    <2>1. b.cand \in Server /\ currentTerm[s] \in Int /\ term \in Int
      BY DEF TypeOK, Term
    <2>2. term = currentTerm[s] /\ votedFor[s] = b.cand
      BY <2>1 DEF ElectionInv, VotesRemembered
    <2> QED BY <2>1, <2>2, ServerAssumption
  <1>3. VoteOnce'
    BY <1>1, <1>2 DEF ElectionInv, VoteOnce
  <1>4. VotesRemembered'
    <2> SUFFICES ASSUME NEW b \in ballots'
                 PROVE  /\ b.term <= currentTerm'[b.voter]
                        /\ b.term = currentTerm'[b.voter] => votedFor'[b.voter] = b.cand
      BY DEF VotesRemembered
    <2>0. b.voter \in Server /\ b.term \in Term
      BY DEF TypeOK
    <2>t. currentTerm[b.voter] \in Term
      BY <2>0 DEF TypeOK
    <2>1. b.voter \in Server /\ b.term \in Int /\ currentTerm[b.voter] \in Int /\ term \in Int
      BY <2>0, <2>t DEF Term
    <2>2. CASE b = Ballot(s, term, c)
      <3>1. currentTerm'[s] = term /\ votedFor'[s] = c
        BY DEF TypeOK
      <3> QED BY <1>1, <2>1, <2>2, <3>1
    <2>3. CASE b \in ballots
      <3>1. /\ b.term <= currentTerm[b.voter]
            /\ b.term = currentTerm[b.voter] => votedFor[b.voter] = b.cand
        BY <2>3 DEF ElectionInv, VotesRemembered
      <3>2. CASE b.voter # s
        BY <2>1, <3>1, <3>2 DEF TypeOK
      <3>3. CASE b.voter = s
        <4>1. currentTerm'[s] = term /\ votedFor'[s] = c
          BY DEF TypeOK
        <4> QED BY <1>2, <2>1, <2>3, <3>1, <3>3, <4>1
      <3> QED BY <3>2, <3>3
    <2> QED BY <2>2, <2>3
  <1>5. WinnersElected' /\ OfficeInTerm'
    <2>1. ballots \subseteq ballots'
      OBVIOUS
    <2>2. \A r \in runs' : r.phase = "won" => IsMajority(Voters(r.cand, r.term)')
      BY <2>1, MajorityKept DEF ElectionInv, WinnersElected, NoNewWinner
    <2>3. \A e \in elected' : IsMajority(Voters(e.server, e.term)')
      BY <2>1, MajorityKept DEF ElectionInv, WinnersElected
    <2>4. OfficeInTerm'
      BY DEF ElectionInv, OfficeInTerm, NoNewWinner
    <2> QED BY <2>2, <2>3, <2>4 DEF WinnersElected, Voters
  <1> QED BY <1>3, <1>4, <1>5 DEF ElectionInv

\* persist() brings the Persister of s up to date.
LEMMA PersistCurrent ==
  ASSUME TypeOK, ElectionInv, NEW s \in Server, persist(s),
         \A t \in Server \ {s} : currentTerm'[t] = currentTerm[t] /\ votedFor'[t] = votedFor[t]
  PROVE  DiskCurrent'
  BY DEF TypeOK, ElectionInv, DiskCurrent, persist

\* A server that reads a higher term in a reply.
LEMMA StepDownQuiet ==
  ASSUME TypeOK, TypeOK', ElectionInv, NEW s \in Server, NEW term \in Term, term > currentTerm[s],
         StepDown(s, term), UNCHANGED <<runs, ballots, elected>>, msgs' \subseteq msgs
  PROVE  ElectionInv'
  <1>1. TermsGrow /\ NoNewCandidate
    BY DEF StepDown, TypeOK, TermsGrow, NoNewCandidate
  <1>2. DiskCurrent'
    BY PersistCurrent DEF StepDown, TypeOK
  <1> QED BY <1>1, <1>2, QuietStep DEF NoNewGrant, NoNewWinner

\* Becoming a candidate: the server's vote for itself in a new term.
LEMMA CandidateStep ==
  ASSUME TypeOK, TypeOK', ElectionInv, NEW s \in Server, Convert2Candidate(s), UNCHANGED elected,
         NoNewWinner, NoNewGrant
  PROVE  ElectionInv'
  <1>1. /\ currentTerm[s] + 1 \in Term /\ currentTerm[s] \in Int
        /\ ballots' = ballots \cup {Ballot(s, currentTerm[s] + 1, s)}
        /\ currentTerm' = [currentTerm EXCEPT ![s] = currentTerm[s] + 1]
        /\ votedFor' = [votedFor EXCEPT ![s] = s]
    BY CandidateTypes DEF Convert2Candidate, TypeOK, Term, Ballot
  <1>2. DiskCurrent'
    BY PersistCurrent DEF Convert2Candidate, TypeOK
  <1>3. GrantsCast'
    BY <1>1 DEF ElectionInv, GrantsCast, NoNewGrant
  <1>4. CandidatesCast'
    <2> SUFFICES ASSUME NEW t \in Server, state'[t] = "Candidate"
                 PROVE  Ballot(t, currentTerm'[t], t) \in ballots'
      BY DEF CandidatesCast
    <2>1. CASE t = s
      BY <1>1, <2>1 DEF TypeOK
    <2>2. CASE t # s
      BY <1>1, <2>2 DEF TypeOK, ElectionInv, CandidatesCast, Convert2Candidate
    <2> QED BY <2>1, <2>2
  <1>5. currentTerm[s] + 1 >= currentTerm[s] /\ currentTerm[s] + 1 # currentTerm[s]
    BY <1>1
  <1> QED BY <1>1, <1>2, <1>3, <1>4, <1>5, VoteStep

\* RequestVote: a vote, or a higher term, or neither.
LEMMA RequestVoteStep ==
  ASSUME TypeOK, TypeOK', ElectionInv, NEW m \in msgs, RequestVote(m)
  PROVE  ElectionInv'
  <1> DEFINE s == m.to
             newer == m.term > currentTerm[s]
             vote == IF newer THEN None ELSE votedFor[s]
             grant == /\ m.term >= currentTerm[s]
                      /\ vote \in {None, m.from}
                      /\ UpToDate(m.lastTerm, m.lastIndex, log[s])
             answer == [type |-> "RequestVoteReply", from |-> s, to |-> m.from, asked |-> m.term,
                        term |-> Max(m.term, currentTerm[s]), granted |-> grant]
  <1>1. s \in Server /\ m.from \in Server /\ m.term \in Term
    BY DEF RequestVote, TypeOK, Message
  <1>2. currentTerm[s] \in Int /\ m.term \in Int
    BY <1>1, SMTT(120) DEF TypeOK, Term
  <1>3. /\ currentTerm' = [currentTerm EXCEPT ![s] = Max(m.term, currentTerm[s])]
        /\ votedFor' = [votedFor EXCEPT ![s] = IF grant THEN m.from ELSE vote]
        /\ state' = [state EXCEPT ![s] = IF newer THEN "Follower" ELSE state[s]]
        /\ IF newer \/ grant THEN persist(s) ELSE UNCHANGED disk
        /\ ballots' = IF grant THEN ballots \cup {Ballot(s, m.term, m.from)} ELSE ballots
        /\ msgs' = IF grant \/ m.term < currentTerm[s]
                   THEN (msgs \ {m}) \cup {answer} ELSE msgs \ {m}
        /\ UNCHANGED <<runs, elected>>
    BY DEF RequestVote, Ballot
  <1>4. NoNewWinner
    BY <1>3 DEF NoNewWinner
  <1>5. CASE newer \/ grant
    <2>1. DiskCurrent'
      BY <1>1, <1>3, <1>5, PersistCurrent DEF TypeOK
    <2>2. CASE grant
      <3>1. /\ m.term >= currentTerm[s]
            /\ m.term = currentTerm[s] => votedFor[s] \in {None, m.from}
        BY <1>2, <2>2
      <3>2. /\ currentTerm' = [currentTerm EXCEPT ![s] = m.term]
            /\ votedFor' = [votedFor EXCEPT ![s] = m.from]
            /\ ballots' = ballots \cup {Ballot(s, m.term, m.from)}
        BY <1>2, <1>3, <2>2, <3>1 DEF Max
      <3>3. /\ answer.from = s /\ answer.asked = m.term /\ answer.to = m.from
        OBVIOUS
      <3>4. GrantsCast'
        <4> HIDE DEF grant, answer
        <4> QED BY <1>3, <3>2, <3>3 DEF ElectionInv, GrantsCast
      <3>5. CandidatesCast'
        <4> SUFFICES ASSUME NEW t \in Server, state'[t] = "Candidate"
                     PROVE  Ballot(t, currentTerm'[t], t) \in ballots'
          BY DEF CandidatesCast
        <4>1. state[t] = "Candidate" /\ currentTerm'[t] = currentTerm[t]
          BY <1>1, <1>2, <1>3, <3>1, <3>2, SMTT(120) DEF TypeOK
        <4> QED BY <3>2, <4>1 DEF ElectionInv, CandidatesCast
      <3> HIDE DEF grant
      <3> QED BY <1>1, <1>3, <1>4, <2>1, <3>1, <3>2, <3>4, <3>5, VoteStep
    <2>3. CASE ~ grant
      <3>1. TermsGrow /\ NoNewCandidate
        BY <1>1, <1>2, <1>3, <1>5, <2>3, SMTT(120) DEF TermsGrow, NoNewCandidate, TypeOK, Max
      <3>2. NoNewGrant
        BY <1>3, <2>3 DEF NoNewGrant
      <3> QED BY <1>3, <1>4, <2>1, <2>3, <3>1, <3>2, QuietStep
    <2> QED BY <2>2, <2>3
  <1>6. CASE ~ newer /\ ~ grant
    <2>1. currentTerm' = currentTerm /\ votedFor' = votedFor
      BY <1>1, <1>2, <1>3, <1>6, SMTT(120) DEF TypeOK, Max
    <2>2. TermsGrow /\ NoNewCandidate
      BY <1>3, <1>6, <2>1 DEF TermsGrow, NoNewCandidate, TypeOK
    <2>3. NoNewGrant
      BY <1>3, <1>6 DEF NoNewGrant
    <2>4. DiskCurrent'
      BY <1>3, <1>6, <2>1 DEF DiskCurrent, ElectionInv
    <2> QED BY <1>3, <1>4, <1>6, <2>2, <2>3, <2>4, QuietStep
  <1> QED BY <1>5, <1>6

\* Convert2Leader(), of a run whose candidate has its majority.
LEMMA TakeOfficeStep ==
  ASSUME TypeOK, TypeOK', ElectionInv, NEW r \in runs, TakeOffice(r),
         IsMajority(Voters(r.cand, r.term)),
         "Convert2Leader" \notin Windows => currentTerm[r.cand] = r.term
  PROVE  ElectionInv'
  <1>1. UNCHANGED <<currentTerm, votedFor, disk, msgs, ballots>> /\ runs' \subseteq runs
    BY DEF TakeOffice
  <1>2. DiskCurrent' /\ VotesRemembered' /\ VoteOnce' /\ GrantsCast'
    BY <1>1 DEF ElectionInv, DiskCurrent, VotesRemembered, VoteOnce, GrantsCast
  <1>3. CandidatesCast'
    BY <1>1 DEF ElectionInv, CandidatesCast, TakeOffice, TypeOK
  <1>4. WinnersElected'
    <2>1. \A e \in elected' : IsMajority(Voters(e.server, e.term))
      BY DEF ElectionInv, WinnersElected, TakeOffice
    <2>2. \A r2 \in runs' : r2.phase = "won" => IsMajority(Voters(r2.cand, r2.term))
      BY <1>1 DEF ElectionInv, WinnersElected
    <2> QED BY <1>1, <2>1, <2>2 DEF WinnersElected, Voters
  <1>5. OfficeInTerm'
    BY <1>1 DEF ElectionInv, OfficeInTerm, TakeOffice
  <1> QED BY <1>2, <1>3, <1>4, <1>5 DEF ElectionInv

\* AppendEntries: at most a higher term.
LEMMA AppendEntriesStep ==
  ASSUME TypeOK, TypeOK', ElectionInv, NEW m \in msgs, AppendEntries(m)
  PROVE  ElectionInv'
  <1> DEFINE s == m.to
  <1>1. s \in Server /\ m.term \in Int /\ currentTerm[s] \in Int
    <2>1. s \in Server /\ m.term \in Term
      BY DEF AppendEntries, TypeOK, Message
    <2> QED BY <2>1 DEF TypeOK, Term
  <1>2. UNCHANGED <<runs, ballots, elected>>
    BY DEF AppendEntries, history
  <1>3. NoNewWinner
    BY <1>2 DEF NoNewWinner
  <1>4. NoNewGrant
    <2>1. \A x \in msgs' : x \in msgs \/ x.type = "AppendEntriesReply"
      BY DEF AppendEntries, Answer
    <2> QED BY <2>1 DEF NoNewGrant
  <1>5. CASE m.term < currentTerm[s]
    <2>1. UNCHANGED <<currentTerm, votedFor, disk, state>>
      <3>1. ~ m.term >= currentTerm[s]
        BY <1>1, <1>5
      <3> QED BY <3>1 DEF AppendEntries, serverVars
    <2> QED BY <1>2, <1>3, <1>4, <2>1, QuietStep
            DEF TermsGrow, NoNewCandidate, DiskCurrent, ElectionInv
  <1>6. CASE ~ m.term < currentTerm[s]
    <2>1. /\ currentTerm' = [currentTerm EXCEPT ![s] = m.term]
          /\ votedFor' = [votedFor EXCEPT ![s] = IF m.term > currentTerm[s] THEN None ELSE @]
          /\ state' = [state EXCEPT ![s] = "Follower"]
          /\ \/ persist(s)
             \/ ~ m.term > currentTerm[s] /\ UNCHANGED disk
      BY <1>1, <1>6, Zenon DEF AppendEntries
    <2>2. TermsGrow /\ NoNewCandidate
      BY <1>1, <1>6, <2>1, SMTT(120) DEF TypeOK, TermsGrow, NoNewCandidate
    <2>3. DiskCurrent'
      <3>1. CASE persist(s)
        BY <1>1, <2>1, <3>1, PersistCurrent DEF TypeOK
      <3>2. CASE ~ m.term > currentTerm[s] /\ UNCHANGED disk
        <4>1. m.term = currentTerm[s]
          BY <1>1, <1>6, <3>2
        <4>2. currentTerm' = currentTerm /\ votedFor' = votedFor
          BY <1>1, <2>1, <3>2, <4>1 DEF TypeOK
        <4> QED BY <3>2, <4>2 DEF ElectionInv, DiskCurrent
      <3> QED BY <2>1, <3>1, <3>2
    <2> QED BY <1>2, <1>3, <1>4, <2>2, <2>3, QuietStep
  <1> QED BY <1>5, <1>6

\* A restart: memory comes back from the Persister.
LEMMA CrashStep ==
  ASSUME TypeOK, TypeOK', ElectionInv, NEW s \in Server, Crash(s)
  PROVE  ElectionInv'
  <1>1. currentTerm' = currentTerm /\ votedFor' = votedFor
    BY DEF Crash, TypeOK, ElectionInv, DiskCurrent
  <1>2. DiskCurrent'
    BY <1>1, PersistCurrent DEF Crash
  <1>3. NoNewCandidate
    BY <1>1 DEF Crash, TypeOK, NoNewCandidate
  <1> QED BY <1>1, <1>2, <1>3, QuietStep DEF Crash, TermsGrow, NoNewGrant, NoNewWinner, history

\* Every step keeps ElectionInv.
LEMMA ElectionInvNext == TypeOK /\ TypeOK' /\ ElectionInv /\ [Next]_vars => ElectionInv'
  <1> SUFFICES ASSUME TypeOK, TypeOK', ElectionInv, [Next]_vars
               PROVE  ElectionInv'
    OBVIOUS
  <1>1. ASSUME NEW s \in Server, RunForElection(s) \/ PauseInElection(s)
        PROVE  ElectionInv'
    <2>1. Convert2Candidate(s) /\ UNCHANGED elected
      BY <1>1 DEF RunForElection, PauseInElection
    <2>2. NoNewWinner
      BY <1>1 DEF RunForElection, PauseInElection, NewRun, NoNewWinner
    <2>3. NoNewGrant
      BY <1>1 DEF RunForElection, PauseInElection, VoteRequests, NoNewGrant
    <2> QED BY <2>1, <2>2, <2>3, CandidateStep
  <1>2. ASSUME NEW r \in runs, ResumeElection(r)
        PROVE  ElectionInv'
    <2>1. NoNewWinner
      BY <1>2 DEF ResumeElection, NewRun, NoNewWinner
    <2>2. NoNewGrant
      BY <1>2 DEF ResumeElection, VoteRequests, NoNewGrant
    <2>3. UNCHANGED <<currentTerm, votedFor, disk, state, ballots, elected>>
      BY <1>2 DEF ResumeElection, history
    <2> QED BY <2>1, <2>2, <2>3, QuietStep
            DEF TermsGrow, NoNewCandidate, DiskCurrent, ElectionInv
  <1>3. ASSUME NEW r \in runs, NEW m \in msgs, VoteRefused(r, m)
        PROVE  ElectionInv'
    <2>1. r.cand \in Server /\ m.term \in Term /\ m.term > currentTerm[r.cand]
      BY <1>3 DEF VoteRefused, TypeOK, Run, Message, Campaigning
    <2> QED BY <1>3, <2>1, StepDownQuiet DEF VoteRefused, history
  <1>4. ASSUME NEW r \in runs, Convert2Leader(r)
        PROVE  ElectionInv'
    BY <1>4, CountedVotes, TakeOfficeStep DEF Convert2Leader, HasMajority, Campaigning
  <1>5. ASSUME NEW r \in runs, PauseInTally(r)
        PROVE  ElectionInv'
    <2>1. UNCHANGED <<currentTerm, votedFor, disk, state, msgs, ballots, elected>>
      BY <1>5 DEF PauseInTally, serverVars, history
    <2>2. runs' = (runs \ {r}) \cup {[r EXCEPT !.phase = "won"]}
      BY <1>5 DEF PauseInTally
    <2>3. [r EXCEPT !.phase = "won"].cand = r.cand /\ [r EXCEPT !.phase = "won"].term = r.term
      BY DEF TypeOK, Run
    <2>4. IsMajority(Voters(r.cand, r.term))
      BY <1>5, CountedVotes DEF PauseInTally
    <2>5. WinnersElected'
      <3>1. \A q \in runs' : q.phase = "won" => IsMajority(Voters(q.cand, q.term))
        BY <2>2, <2>3, <2>4 DEF ElectionInv, WinnersElected
      <3> QED BY <2>1, <3>1 DEF ElectionInv, WinnersElected, Voters
    <2>6. OfficeInTerm'
      BY <1>5 DEF PauseInTally, OfficeInTerm
    <2>7. DiskCurrent' /\ VotesRemembered' /\ VoteOnce' /\ GrantsCast' /\ CandidatesCast'
      BY <2>1 DEF ElectionInv, DiskCurrent, VotesRemembered, VoteOnce, GrantsCast, CandidatesCast
    <2> QED BY <2>5, <2>6, <2>7 DEF ElectionInv
  <1>6. ASSUME NEW r \in runs, ResumeTally(r)
        PROVE  ElectionInv'
    BY <1>6, TakeOfficeStep DEF ResumeTally, ElectionInv, WinnersElected, OfficeInTerm
  <1>7. ASSUME NEW s \in Server, NEW c, NEW term, AppendEntry(s, c, term)
        PROVE  ElectionInv'
    <2>1. DiskCurrent'
      BY <1>7, PersistCurrent DEF AppendEntry
    <2> QED BY <1>7, <2>1, QuietStep
            DEF AppendEntry, TermsGrow, NoNewCandidate, NoNewGrant, NoNewWinner, history
  <1>8. ASSUME NEW s \in Server, NEW c \in Command, Start(s, c)
        PROVE  ElectionInv'
    BY <1>7, <1>8 DEF Start
  <1>9. ASSUME NEW c \in starts, ResumeStart(c)
        PROVE  ElectionInv'
    BY <1>7, <1>9 DEF ResumeStart, TypeOK
  <1>10. ASSUME UNCHANGED <<currentTerm, votedFor, disk, state, runs, ballots, elected>>, NoNewGrant
         PROVE  ElectionInv'
    BY <1>10, QuietStep DEF TermsGrow, NoNewCandidate, NoNewWinner, DiskCurrent, ElectionInv
  <1>11. ASSUME NEW s \in Server, LeaderAppendEntries(s)
         PROVE  ElectionInv'
    <2>1. NoNewGrant
      BY <1>11 DEF LeaderAppendEntries, AppendRequests, NoNewGrant
    <2> QED BY <1>10, <1>11, <2>1 DEF LeaderAppendEntries, serverVars, history
  <1>12. ASSUME NEW b \in beats, ResumeAppend(b)
         PROVE  ElectionInv'
    <2>1. NoNewGrant
      BY <1>12 DEF ResumeAppend, AppendRequests, NoNewGrant
    <2> QED BY <1>10, <1>12, <2>1 DEF ResumeAppend, serverVars, history
  <1>13. ASSUME NEW s \in Server, PauseInAppend(s)
         PROVE  ElectionInv'
    BY <1>10, <1>13 DEF PauseInAppend, NoNewGrant, serverVars, history
  <1>14. ASSUME NEW s \in Server, NEW c \in Command, PauseInStart(s, c)
         PROVE  ElectionInv'
    BY <1>10, <1>14 DEF PauseInStart, NoNewGrant, serverVars, history
  <1>15. ASSUME NEW m \in msgs, LeaderHandlesReply(m)
         PROVE  ElectionInv'
    <2>1. m.to \in Server /\ m.term \in Term /\ currentTerm[m.to] = m.asked
      BY <1>15 DEF LeaderHandlesReply, TypeOK, Message
    <2>2. msgs' \subseteq msgs /\ UNCHANGED <<runs, ballots, elected>>
      BY <1>15 DEF LeaderHandlesReply, history
    <2>3. CASE m.term > m.asked /\ StepDown(m.to, m.term)
      BY <2>1, <2>2, <2>3, StepDownQuiet
    <2>4. CASE UNCHANGED <<currentTerm, votedFor, disk, state>>
      BY <1>10, <2>2, <2>4 DEF NoNewGrant
    <2> QED BY <1>15, <2>3, <2>4 DEF LeaderHandlesReply
  <1>16. CASE UNCHANGED vars
    BY <1>10, <1>16 DEF vars, serverVars, history, NoNewGrant
  <1> QED BY <1>1, <1>2, <1>3, <1>4, <1>5, <1>6, <1>8, <1>9, <1>11, <1>12, <1>13, <1>14, <1>15,
             <1>16, RequestVoteStep, AppendEntriesStep, CrashStep DEF Next

-----------------------------------------------------------------------------
(* What elections promise. *)

\* The inductive invariant of elections: votes are on disk, remembered and cast once, and
\* whoever was elected or takes office has a majority of them (raft.go: Convert2Candidate,
\* RequestVote, RunForElection, Convert2Leader, persist, readPersist).
THEOREM ElectionInvariant == Spec => []ElectionInv
  <1>1. Init => ElectionInv
    BY Bounds DEF Init, ElectionInv, DiskCurrent, VotesRemembered, VoteOnce, GrantsCast,
                  CandidatesCast, WinnersElected, OfficeInTerm
  <1> QED BY <1>1, ElectionInvNext, TypeCorrect, PTL DEF Spec

\* No server votes for two candidates in one term, whatever goroutines interleave and
\* however often servers are restarted (raft.go: Convert2Candidate, RequestVote, persist).
THEOREM VotesOnce == Spec => []VoteOnce
  <1>1. ElectionInv => VoteOnce
    BY DEF ElectionInv
  <1> QED BY <1>1, ElectionInvariant, PTL

\* Two tallies of one term share a voter, who voted once.
LEMMA TallyUnique == ElectionInv => OneTallyPerTerm
  <1> SUFFICES ASSUME ElectionInv, NEW e \in elected, NEW f \in elected, e.term = f.term
               PROVE  e.server = f.server
    BY DEF OneTallyPerTerm
  <1>1. /\ Voters(e.server, e.term) \cap Voters(f.server, f.term) # {}
    <2>1. Voters(e.server, e.term) \subseteq Server /\ Voters(f.server, f.term) \subseteq Server
      BY DEF Voters
    <2>2. IsMajority(Voters(e.server, e.term)) /\ IsMajority(Voters(f.server, f.term))
      BY DEF ElectionInv, WinnersElected
    <2> QED BY <2>1, <2>2, MajoritiesMeet
  <1>2. PICK v \in Server : /\ Ballot(v, e.term, e.server) \in ballots
                            /\ Ballot(v, e.term, f.server) \in ballots
    BY <1>1 DEF Voters
  <1> QED BY <1>2 DEF ElectionInv, VoteOnce, Ballot

\* No two servers count a majority of votes for one term: the count in RunForElection is
\* safe with every gap open and over restarts.
THEOREM TalliesUnique == Spec => []OneTallyPerTerm
  BY TallyUnique, ElectionInvariant, PTL

\* If nothing gets between the count and Convert2Leader, no two servers lead in one term,
\* whatever other gaps are open (the tester's checkOneLeader).  MCRaft_preempted_office.cfg
\* shows that this gap is the one that matters.
THEOREM LeadersUnique ==
  ASSUME "Convert2Leader" \notin Windows
  PROVE  Spec => []OneLeaderPerTerm
  <1>1. ElectionInv => OneLeaderPerTerm
    BY TallyUnique DEF ElectionInv, OfficeInTerm, OneTallyPerTerm, OneLeaderPerTerm
  <1> QED BY <1>1, ElectionInvariant, PTL

-----------------------------------------------------------------------------
(***************************************************************************)
(* What log replication promises, for every set of servers and every       *)
(* bound, while a server that has been interrupted in Convert2Leader, in   *)
(* Start or in LeaderAppendEntries finds everything as it was (GapsClosed; *)
(* the gaps of HandleTimeout and RunForElection may be open): logs match,  *)
(* committed entries agree and stay, whoever can be elected holds them,    *)
(* and a leader's nextIndex and matchIndex stay inside the logs.           *)
(*                                                                         *)
(* The argument measures every log by leaderLog: an entry of term t was    *)
(* first in the log of t's leader, and whoever holds it holds all that     *)
(* precedes it there.  An entry is chosen once a majority has acknowledged *)
(* it, each in the entry's term and before any vote in a later one; so     *)
(* among the voters of every later leader is one who had it, and by the    *)
(* comparison of logs in RequestVote that leader had it too.               *)
(***************************************************************************)
-----------------------------------------------------------------------------
(* What the invariant is made of. *)

\* The assumption of the theorems below, TypeInvariant apart.
GapsClosed == Windows \cap {"Convert2Leader", "Start", "LeaderAppendEntries"} = {}

HistoryTypeOK == leaderLog \in [Term -> Seq(Entry)] /\ acked \in [Server -> [Term -> Nat]]

\* Two logs hold the same entries at 1 .. n.
Agree(l, k, n) == n <= Len(l) /\ n <= Len(k) /\ \A i \in 1 .. n : l[i] = k[i]

\* Up to each of its entries, l is the log of the leader of the entry's term.
FromLeaders(l, leaders) == \A i \in DOMAIN l : Agree(l, leaders[l[i].term], i)

Led(t) == \E e \in elected : e.office = t

\* Entry n of term t was thrown away by the leader of a term in t + 1 .. u.
Lost(n, t, u) == \E v \in Term : t < v /\ v <= u /\ Led(v) /\ ~HasEntry(leaderLog[v], n, t)

\* Who has entry n of term t, or may still acknowledge it.
MayStore(n, t) == {s \in Server : n <= acked[s][t] \/ currentTerm[s] <= t}

\* Entry n of term t is in the log of its leader, and a majority has acknowledged it.
Chosen(n, t) ==
  HasEntry(leaderLog[t], n, t) /\ IsMajority({s \in Server : n <= acked[s][t]})

\* The first c entries of l were chosen in a term up to u.
CommittedIn(l, c, u) ==
  \/ c = 0
  \/ \E t \in Term, n \in Nat \ {0} :
        t <= u /\ c <= n /\ Chosen(n, t) /\ Agree(l, leaderLog[t], c)

-----------------------------------------------------------------------------
(* The invariant, by what it is about. *)

\* Nobody is inside a closed gap.
NobodyInGap == beats = {} /\ starts = {}

\* Office is taken in the server's current term.
Offices == \A e \in elected : e.office <= currentTerm[e.server]

\* The logs of leaders: terms never go down and end at the leader's.
LeaderLogs ==
  \A t \in Term :
     /\ FromLeaders(leaderLog[t], leaderLog)
     /\ ~Led(t) => leaderLog[t] = <<>>
     /\ \A i, j \in DOMAIN leaderLog[t] : i <= j => leaderLog[t][i].term <= leaderLog[t][j].term
     /\ \A i \in DOMAIN leaderLog[t] : leaderLog[t][i].term <= t

\* The logs of servers.
ServerLogs ==
  \A s \in Server : /\ FromLeaders(log[s], leaderLog)
                    /\ \A i \in DOMAIN log[s] : log[s][i].term <= currentTerm[s]

\* What has been acknowledged is in the leader's log, in a term that was reached, and while
\* that term lasts the server holds it.
AckedHeld ==
  \A s \in Server :
     /\ \A t \in Term : acked[s][t] <= Len(leaderLog[t]) /\ (currentTerm[s] < t => acked[s][t] = 0)
     /\ Agree(log[s], leaderLog[currentTerm[s]], acked[s][currentTerm[s]])

\* Later it holds the entry still, unless a leader has thrown it away.
AckedKept ==
  \A s \in Server, t \in Term : \A n \in 1 .. acked[s][t] :
     HasEntry(leaderLog[t], n, t) => HasEntry(log[s], n, t) \/ Lost(n, t, currentTerm[s])

\* Leaders of later terms hold what may still be chosen.
LaterLeaders ==
  \A t, u \in Term : t < u /\ Led(u) =>
     \A n \in Nat \ {0} :
        HasEntry(leaderLog[t], n, t) /\ IsMajority(MayStore(n, t)) => HasEntry(leaderLog[u], n, t)

CoreInv == LeaderLogs /\ ServerLogs /\ AckedHeld /\ AckedKept /\ LaterLeaders

\* AppendEntries carries a piece of its leader's log, and what it calls committed is chosen.
RequestSound(m) ==
  /\ Led(m.term)
  /\ m.prevIndex + Len(m.entries) <= Len(leaderLog[m.term])
  /\ m.prevTerm = TermAt(leaderLog[m.term], m.prevIndex)
  /\ \A i \in DOMAIN m.entries : m.entries[i] = leaderLog[m.term][m.prevIndex + i]
  /\ m.commit <= m.prevIndex + Len(m.entries)
  /\ CommittedIn(leaderLog[m.term], m.commit, m.term)

\* A success was acknowledged; a conflicting term is not the last of the leader's log.
ReplySound(m) ==
  m.term <= m.asked =>
     /\ Led(m.asked)
     /\ m.success => m.last <= acked[m.from][m.asked]
     /\ ~m.success /\ m.conflictTerm # -1 =>
           m.conflictTerm # m.asked /\ LastTerm(leaderLog[m.asked]) # m.conflictTerm

\* RequestVote describes the candidate's log for as long as its campaign lasts.
VoteRequestSound(m) ==
  /\ m.term <= currentTerm[m.from]
  /\ state[m.from] = "Candidate" /\ currentTerm[m.from] = m.term =>
        m.lastIndex = Len(log[m.from]) /\ m.lastTerm = LastTerm(log[m.from])

MessagesSound ==
  \A m \in msgs : /\ m.type = "AppendEntries" => RequestSound(m)
                  /\ m.type = "AppendEntriesReply" => ReplySound(m)
                  /\ m.type = "RequestVote" => VoteRequestSound(m)

\* What a voter had acknowledged before its vote, the candidate holds.
BallotSound(b) ==
  /\ b.term <= currentTerm[b.cand]
  /\ state[b.cand] = "Candidate" /\ currentTerm[b.cand] = b.term =>
        \A t \in Term : t < b.term => \A n \in 1 .. acked[b.voter][t] :
           HasEntry(leaderLog[t], n, t) => HasEntry(log[b.cand], n, t) \/ Lost(n, t, b.term)

VotersOutdone == \A b \in ballots : BallotSound(b)

\* A leader took office in its term, has its term's log, and its arrays stay inside that log
\* and inside what has been acknowledged.
LeaderSound(s) ==
  /\ \E e \in elected : e.server = s /\ e.office = currentTerm[s]
  /\ log[s] = leaderLog[currentTerm[s]] /\ acked[s][currentTerm[s]] = Len(log[s])
  /\ \A p \in Server : /\ matchIndex[s][p] <= acked[p][currentTerm[s]]
                       /\ nextIndex[s][p] \in 1 .. Len(log[s]) + 1

\* What the Persister holds is the log in memory, what the server takes for committed was
\* chosen, and a candidate has not led in its term.
ServerSound(s) ==
  /\ disk[s].log = log[s]
  /\ CommittedIn(log[s], commitIndex[s], currentTerm[s])
  /\ state[s] = "Leader" => LeaderSound(s)
  /\ state[s] = "Candidate" => \A e \in elected : ~(e.server = s /\ e.office = currentTerm[s])

ServersSound == \A s \in Server : ServerSound(s)

LogInv ==
  /\ HistoryTypeOK /\ NobodyInGap /\ Offices /\ CoreInv
  /\ VotersOutdone /\ MessagesSound /\ ServersSound

-----------------------------------------------------------------------------
(* Operators on logs. *)

\* HasEntry, at an index that is not the placeholder's.
LEMMA EntryAt ==
  ASSUME NEW l \in Seq(Entry), NEW n \in Nat \ {0}, NEW t \in Term
  PROVE  HasEntry(l, n, t) <=> n <= Len(l) /\ n \in DOMAIN l /\ l[n].term = t
  BY DEF HasEntry, TermAt, Term

\* Agreement up to n is agreement up to any smaller index, and is transitive.
LEMMA AgreeParts ==
  ASSUME NEW l \in Seq(Entry), NEW k \in Seq(Entry), NEW h \in Seq(Entry),
         NEW n \in Nat, NEW m \in Nat, m <= n, Agree(l, k, n)
  PROVE  /\ Agree(l, k, m) /\ Agree(k, l, m)
         /\ Agree(k, h, m) => Agree(l, h, m)
         /\ Agree(h, k, m) => Agree(h, l, m)
  BY DEF Agree

\* Entries on which two logs agree: HasEntry does not tell them apart.
LEMMA AgreeHas ==
  ASSUME NEW l \in Seq(Entry), NEW k \in Seq(Entry), NEW n \in Nat, NEW m \in Nat \ {0},
         m <= n, Agree(l, k, n), NEW t \in Term, HasEntry(l, m, t)
  PROVE  HasEntry(k, m, t)
  <1>1. l[m] = k[m] /\ m <= Len(k)
    BY DEF Agree
  <1> QED BY <1>1, EntryAt

\* A log r with one entry more than l.
Longer(l, e, r) ==
  /\ r \in Seq(Entry) /\ Len(r) = Len(l) + 1
  /\ r[Len(l) + 1] = e /\ \A i \in 1 .. Len(l) : r[i] = l[i]

\* Append makes one.
LEMMA AppendLonger ==
  ASSUME NEW l \in Seq(Entry), NEW e \in Entry
  PROVE  Longer(l, e, Append(l, e))
  BY AppendProperties DEF Longer

\* The entries it holds.
LEMMA AppendHas ==
  ASSUME NEW l \in Seq(Entry), NEW e \in Entry, NEW r, Longer(l, e, r),
         NEW n \in Nat \ {0}, NEW t \in Term
  PROVE  /\ HasEntry(l, n, t) => HasEntry(r, n, t)
         /\ HasEntry(r, n, t) => HasEntry(l, n, t) \/ (n = Len(l) + 1 /\ t = e.term)
  <1>1. HasEntry(r, n, t) <=> n <= Len(l) + 1 /\ r[n].term = t
    BY EntryAt DEF Longer
  <1>2. HasEntry(l, n, t) <=> n <= Len(l) /\ l[n].term = t
    BY EntryAt
  <1>3. n <= Len(l) => r[n] = l[n] /\ n <= Len(l) + 1
    BY DEF Longer
  <1>4. n <= Len(l) + 1 => n <= Len(l) \/ n = Len(l) + 1
    OBVIOUS
  <1>5. n = Len(l) + 1 => r[n] = e
    BY DEF Longer
  <1>6. HasEntry(l, n, t) => HasEntry(r, n, t)
    BY <1>1, <1>2, <1>3, Zenon
  <1>7. HasEntry(r, n, t) => HasEntry(l, n, t) \/ (n = Len(l) + 1 /\ t = e.term)
    <2> SUFFICES ASSUME HasEntry(r, n, t), ~HasEntry(l, n, t)
                 PROVE  n = Len(l) + 1 /\ t = e.term
      OBVIOUS
    <2>1. n <= Len(l) + 1 /\ r[n].term = t
      BY <1>1
    <2>2. ~(n <= Len(l))
      BY <1>2, <1>3, <2>1
    <2> QED BY <1>4, <1>5, <2>1, <2>2
  <1> QED BY <1>6, <1>7

\* Two logs that come from leaders and have one term at one index agree up to there.
LEMMA LogsMatch ==
  ASSUME NEW l \in Seq(Entry), NEW k \in Seq(Entry), NEW ll \in [Term -> Seq(Entry)],
         FromLeaders(l, ll), FromLeaders(k, ll),
         NEW n \in Nat \ {0}, NEW t \in Term, HasEntry(l, n, t), HasEntry(k, n, t)
  PROVE  Agree(l, k, n)
  <1>1. n \in DOMAIN l /\ n \in DOMAIN k /\ l[n].term = t /\ k[n].term = t
    BY EntryAt
  <1>2. Agree(l, ll[t], n) /\ Agree(k, ll[t], n)
    BY <1>1 DEF FromLeaders
  <1> QED BY <1>2, AgreeParts

\* A log that comes from leaders agrees with the leader's of each of its entries.
LEMMA LogOfEntry ==
  ASSUME NEW l \in Seq(Entry), NEW ll \in [Term -> Seq(Entry)], FromLeaders(l, ll),
         NEW n \in Nat \ {0}, NEW t \in Term, HasEntry(l, n, t)
  PROVE  Agree(l, ll[t], n) /\ HasEntry(ll[t], n, t)
  <1>1. n \in DOMAIN l /\ l[n].term = t
    BY EntryAt
  <1>2. Agree(l, ll[t], n)
    BY <1>1 DEF FromLeaders
  <1> QED BY <1>2, AgreeHas

\* A log that agrees, over its whole length, with one from leaders comes from leaders.
LEMMA PrefixFromLeaders ==
  ASSUME NEW l \in Seq(Entry), NEW k \in Seq(Entry), NEW ll \in [Term -> Seq(Entry)],
         FromLeaders(k, ll), Agree(l, k, Len(l))
  PROVE  FromLeaders(l, ll)
  <1> SUFFICES ASSUME NEW i \in DOMAIN l
               PROVE  Agree(l, ll[l[i].term], i)
    BY DEF FromLeaders
  <1>1. i \in Nat \ {0} /\ i <= Len(l) /\ Len(l) \in Nat
    OBVIOUS
  <1>2. l[i] = k[i] /\ i \in DOMAIN k /\ l[i] \in Entry
    BY <1>1 DEF Agree
  <1>3. l[i].term \in Term
    BY <1>2 DEF Entry
  <1>4. Agree(k, ll[l[i].term], i)
    BY <1>2 DEF FromLeaders
  <1>5. Agree(l, k, i)
    BY <1>1, AgreeParts
  <1> QED BY <1>1, <1>3, <1>4, <1>5, AgreeParts

\* What AppendEntries makes of a follower's log l that passed its check, when the entries
\* are those of the leader's log k after prev: l itself, if it has them all, or the part of
\* k they complete.  Nothing on which l and k agreed is lost.
LEMMA MergeAgrees ==
  ASSUME NEW l \in Seq(Entry), NEW k \in Seq(Entry), NEW ll \in [Term -> Seq(Entry)],
         FromLeaders(l, ll), FromLeaders(k, ll),
         NEW es \in Seq(Entry), NEW prev \in Nat, prev + Len(es) <= Len(k),
         \A i \in DOMAIN es : es[i] = k[prev + i],
         HasEntry(l, prev, TermAt(k, prev))
  PROVE  /\ Agree(Merge(l, prev, es), k, prev + Len(es))
         /\ \A n \in Nat : Agree(l, k, n) => Agree(Merge(l, prev, es), k, n)
         /\ FromLeaders(Merge(l, prev, es), ll)
         /\ Merge(l, prev, es) = l \/ Len(Merge(l, prev, es)) = prev + Len(es)
         /\ Merge(l, prev, es) \in Seq(Entry)
  <1> DEFINE new  == Merge(l, prev, es)
             last == prev + Len(es)
             agrees(i) == HasEntry(l, prev + i, es[i].term)
  <1>0. /\ prev <= Len(l) /\ last \in Nat /\ Len(l) \in Nat /\ Len(k) \in Nat
        /\ \A i \in DOMAIN es : i \in Nat \ {0} /\ prev + i \in Nat \ {0} /\ prev + i <= last
                                /\ es[i] \in Entry /\ es[i].term \in Term
    <2>1. prev <= Len(l) /\ last \in Nat /\ Len(l) \in Nat /\ Len(k) \in Nat
      BY DEF HasEntry
    <2>2. \A i \in DOMAIN es : es[i] \in Entry
      OBVIOUS
    <2>3. \A i \in DOMAIN es : es[i].term \in Term
      BY <2>2 DEF Entry
    <2>4. \A i \in DOMAIN es : i \in Nat \ {0} /\ prev + i \in Nat \ {0} /\ prev + i <= last
      OBVIOUS
    <2> QED BY <2>1, <2>2, <2>3, <2>4
  <1>t. new \in Seq(Entry)
    BY <1>0, MergeType
  <1>1. Agree(l, k, prev)
    <2>1. CASE prev = 0
      BY <2>1 DEF Agree
    <2>2. CASE prev # 0
      <3>1. prev \in DOMAIN k /\ k[prev] \in Entry
        BY <2>2, <1>0
      <3>2. TermAt(k, prev) = k[prev].term /\ k[prev].term \in Term
        BY <3>1 DEF TermAt, Entry
      <3>3. HasEntry(k, prev, k[prev].term)
        BY <2>2, <3>1, <3>2 DEF HasEntry
      <3> QED BY <2>2, <3>2, <3>3, LogsMatch
    <2> QED BY <2>1, <2>2
  <1>2. \A i \in DOMAIN es : HasEntry(k, prev + i, es[i].term)
    <2> SUFFICES ASSUME NEW i \in DOMAIN es
                 PROVE  HasEntry(k, prev + i, es[i].term)
      OBVIOUS
    <2>1. prev + i \in Nat \ {0} /\ prev + i <= Len(k) /\ es[i].term \in Term
      BY <1>0
    <2>2. prev + i \in DOMAIN k /\ k[prev + i] = es[i]
      BY <2>1
    <2> QED BY <2>1, <2>2, EntryAt
  <1>3. \A i \in DOMAIN es : agrees(i) => Agree(l, k, prev + i)
    BY <1>0, <1>2, LogsMatch
  <1>4. CASE \A i \in DOMAIN es : agrees(i)
    <2>1. new = l
      BY <1>4 DEF Merge
    <2>2. Agree(l, k, last)
      <3>1. CASE Len(es) = 0
        BY <1>1, <3>1
      <3>2. CASE Len(es) # 0
        <4>1. Len(es) \in DOMAIN es
          BY <3>2
        <4> QED BY <1>3, <1>4, <4>1
      <3> QED BY <3>1, <3>2
    <2> QED BY <1>t, <2>1, <2>2
  <1>5. CASE ~ \A i \in DOMAIN es : agrees(i)
    <2>1. new = [i \in 1 .. last |->
                    IF \A j \in 1 .. i - prev : agrees(j) THEN l[i] ELSE es[i - prev]]
      BY <1>5 DEF Merge
    <2>2. Len(new) = last /\ DOMAIN new = 1 .. last
      <3> HIDE DEF agrees
      <3>1. DOMAIN new = 1 .. last
        BY <2>1
      <3> HIDE DEF new, last
      <3> QED BY <1>0, <1>t, <3>1, LenProperties
    <2>3. ASSUME NEW i \in 1 .. last
          PROVE  new[i] = k[i]
      <3>0. new[i] = IF \A j \in 1 .. i - prev : agrees(j) THEN l[i] ELSE es[i - prev]
        BY <2>1
      <3>1. CASE i <= prev
        <4>1. \A j \in 1 .. i - prev : agrees(j)
          BY <3>1
        <4> QED BY <1>1, <3>0, <3>1, <4>1 DEF Agree
      <3>2. CASE i > prev
        <4>1. i - prev \in DOMAIN es /\ prev + (i - prev) = i /\ i - prev \in 1 .. i - prev
          BY <3>2
        <4>2. CASE \A j \in 1 .. i - prev : agrees(j)
          <5>1. agrees(i - prev) /\ new[i] = l[i]
            BY <3>0, <4>1, <4>2
          <5>2. Agree(l, k, prev + (i - prev))
            BY <1>3, <4>1, <5>1
          <5> QED BY <4>1, <5>1, <5>2 DEF Agree
        <4>3. CASE ~ \A j \in 1 .. i - prev : agrees(j)
          <5>1. new[i] = es[i - prev]
            BY <3>0, <4>3
          <5> QED BY <4>1, <5>1
        <4> QED BY <4>2, <4>3
      <3> QED BY <3>1, <3>2
    <2> HIDE DEF new
    <2>4. Agree(new, k, last)
      BY <2>2, <2>3 DEF Agree
    <2>5. ASSUME NEW n \in Nat, Agree(l, k, n)
          PROVE  n <= last
      <3> SUFFICES ASSUME n > last
                   PROVE  FALSE
        BY <1>0
      <3>1. ASSUME NEW i \in DOMAIN es
            PROVE  agrees(i)
        <4>1. prev + i <= n
          BY <1>0
        <4> QED BY <1>0, <1>2, <2>5, <4>1, AgreeParts, AgreeHas
      <3> QED BY <1>5, <3>1
    <2>6. \A n \in Nat : Agree(l, k, n) => Agree(new, k, n)
      BY <1>0, <1>t, <2>4, <2>5, AgreeParts
    <2>7. FromLeaders(new, ll)
      BY <1>t, <2>2, <2>4, PrefixFromLeaders
    <2> QED BY <1>t, <2>2, <2>4, <2>6, <2>7 DEF new
  <1> QED BY <1>4, <1>5

\* RequestVote's comparison: a log at least as new as one that holds entry n of term t holds
\* it too, unless some later leader up to the term it ends in has thrown the entry away.
LEMMA NewerHolds ==
  ASSUME HistoryTypeOK, LeaderLogs, NEW l \in Seq(Entry), NEW c \in Seq(Entry),
         FromLeaders(l, leaderLog), FromLeaders(c, leaderLog),
         NEW n \in Nat \ {0}, NEW t \in Term, HasEntry(l, n, t),
         UpToDate(LastTerm(c), Len(c), l)
  PROVE  HasEntry(c, n, t) \/ Lost(n, t, LastTerm(c))
  <1> DEFINE K == Len(l)
             J == Len(c)
             T == LastTerm(c)
  <1>1. /\ K \in Nat \ {0} /\ n <= K /\ l[n].term = t /\ n \in DOMAIN l
        /\ l[K].term \in Term /\ LastTerm(l) = l[K].term /\ HasEntry(l, K, l[K].term)
    <2>1. n <= K /\ n \in DOMAIN l /\ l[n].term = t /\ K \in Nat
      BY EntryAt
    <2>2. K \in DOMAIN l /\ l[K] \in Entry
      BY <2>1
    <2>3. l[K].term \in Term /\ LastTerm(l) = l[K].term
      BY <2>2 DEF Entry, LastTerm, TermAt
    <2> QED BY <2>1, <2>2, <2>3, EntryAt
  <1>2. LastTerm(l) >= t
    <2>1. Agree(l, leaderLog[l[K].term], K)
      BY <1>1, LogOfEntry DEF HistoryTypeOK
    <2>2. /\ n \in DOMAIN leaderLog[l[K].term] /\ K \in DOMAIN leaderLog[l[K].term]
          /\ leaderLog[l[K].term][n] = l[n] /\ leaderLog[l[K].term][K] = l[K]
      BY <1>1, <2>1 DEF Agree, HistoryTypeOK
    <2> QED BY <1>1, <2>2 DEF LeaderLogs
  <1>3. J \in Nat \ {0} /\ T \in Term /\ T >= LastTerm(l) /\ HasEntry(c, J, T)
    <2>1. T \in Term \cup {-1} /\ T >= LastTerm(l)
      BY <1>1, LastTermType DEF UpToDate, Term
    <2>2. T >= 0
      BY <1>1, <2>1 DEF Term
    <2>3. T = TermAt(c, J) /\ J \in Nat
      BY DEF LastTerm
    <2>4. J \in DOMAIN c
      BY <2>2, <2>3 DEF TermAt
    <2> QED BY <2>1, <2>2, <2>3, <2>4 DEF HasEntry, Term
  <1>4. Agree(c, leaderLog[T], J) /\ HasEntry(leaderLog[T], J, T) /\ leaderLog[T] \in Seq(Entry)
    BY <1>3, LogOfEntry DEF HistoryTypeOK
  <1>5. CASE T = LastTerm(l)
    <2>1. J >= K
      BY <1>1, <1>5 DEF UpToDate, Term
    <2>2. Agree(l, leaderLog[T], K)
      BY <1>1, <1>5, LogOfEntry DEF HistoryTypeOK
    <2>3. Agree(l, c, K)
      BY <1>1, <1>3, <1>4, <2>1, <2>2, AgreeParts
    <2> QED BY <1>1, <2>3, AgreeHas
  <1>6. CASE T # LastTerm(l)
    <2>1. t < T
      BY <1>1, <1>2, <1>3, <1>6 DEF Term
    <2>2. Led(T)
      BY <1>3, <1>4, EntryAt DEF LeaderLogs
    <2>3. CASE HasEntry(leaderLog[T], n, t)
      <3>1. /\ n \in DOMAIN leaderLog[T] /\ leaderLog[T][n].term = t
            /\ J \in DOMAIN leaderLog[T] /\ leaderLog[T][J].term = T
        BY <1>3, <1>4, <2>3, EntryAt
      <3>2. n <= J
        BY <1>3, <2>1, <3>1 DEF LeaderLogs, Term
      <3>3. Agree(leaderLog[T], c, J)
        BY <1>3, <1>4, AgreeParts
      <3> QED BY <1>3, <1>4, <2>3, <3>2, <3>3, AgreeHas
    <2>4. CASE ~HasEntry(leaderLog[T], n, t)
      BY <1>3, <2>1, <2>2, <2>4 DEF Lost, Term
    <2> QED BY <2>3, <2>4
  <1> QED BY <1>5, <1>6

-----------------------------------------------------------------------------
(* How a step changes what the invariant is measured by. *)

\* Terms grow, offices and acknowledgements are not taken back, acknowledgements come only in
\* a term that is not over, and the log of a leader in office grows by entries of its term.
HistoryGrows ==
  /\ \A s \in Server : currentTerm[s] <= currentTerm'[s]
  /\ \A s \in Server, t \in Term :
        acked[s][t] <= acked'[s][t] /\ (acked'[s][t] # acked[s][t] => currentTerm[s] <= t)
  /\ elected \subseteq elected'
  /\ \A t \in Term :
        /\ Agree(leaderLog[t], leaderLog'[t], Len(leaderLog[t]))
        /\ Led(t) => \A n \in Nat \ {0}, u \in Term \ {t} :
              HasEntry(leaderLog'[t], n, u) => HasEntry(leaderLog[t], n, u)

\* The types all that follows needs.
LogTypes ==
  /\ currentTerm \in [Server -> Term] /\ log \in [Server -> Seq(Entry)]
  /\ HistoryTypeOK

\* They hold of each part.
LEMMA TypesAt ==
  ASSUME LogTypes, NEW s \in Server, NEW t \in Term
  PROVE  /\ currentTerm[s] \in Term /\ currentTerm[s] \in Int /\ t \in Int
         /\ acked[s][t] \in Nat
         /\ leaderLog[t] \in Seq(Entry) /\ Len(leaderLog[t]) \in Nat
         /\ log[s] \in Seq(Entry) /\ Len(log[s]) \in Nat
  <1>0. acked \in [Server -> [Term -> Nat]] /\ leaderLog \in [Term -> Seq(Entry)]
    BY DEF LogTypes, HistoryTypeOK
  <1>1. acked[s][t] \in Nat /\ leaderLog[t] \in Seq(Entry)
    BY <1>0
  <1>2. currentTerm[s] \in Term /\ log[s] \in Seq(Entry)
    BY DEF LogTypes
  <1> QED BY <1>1, <1>2 DEF Term

\* The same after the step.
LEMMA TypesAtNext ==
  ASSUME LogTypes', NEW s \in Server, NEW t \in Term
  PROVE  /\ currentTerm'[s] \in Term /\ currentTerm'[s] \in Int /\ t \in Int
         /\ acked'[s][t] \in Nat
         /\ leaderLog'[t] \in Seq(Entry) /\ Len(leaderLog'[t]) \in Nat
         /\ log'[s] \in Seq(Entry) /\ Len(log'[s]) \in Nat
  <1>0. acked' \in [Server -> [Term -> Nat]] /\ leaderLog' \in [Term -> Seq(Entry)]
    BY DEF LogTypes, HistoryTypeOK
  <1>1. acked'[s][t] \in Nat /\ leaderLog'[t] \in Seq(Entry)
    BY <1>0
  <1>2. currentTerm'[s] \in Term /\ log'[s] \in Seq(Entry)
    BY DEF LogTypes
  <1> QED BY <1>1, <1>2 DEF Term

\* What is true of the leaders' logs stays true.
LEMMA LeaderLogsGrow ==
  ASSUME LogTypes, LogTypes', HistoryGrows
  PROVE  /\ \A l \in Seq(Entry), t \in Term, n \in Nat :
               Agree(l, leaderLog[t], n) => Agree(l, leaderLog'[t], n)
         /\ \A l \in Seq(Entry) : FromLeaders(l, leaderLog) => FromLeaders(l, leaderLog')
         /\ \A t, u \in Term, n \in Nat \ {0} :
               HasEntry(leaderLog[t], n, u) => HasEntry(leaderLog'[t], n, u)
         /\ \A t \in Term : Led(t) => Led(t)'
  <1>0. leaderLog \in [Term -> Seq(Entry)] /\ leaderLog' \in [Term -> Seq(Entry)]
    BY DEF LogTypes, HistoryTypeOK
  <1>1. ASSUME NEW l \in Seq(Entry), NEW t \in Term, NEW n \in Nat, Agree(l, leaderLog[t], n)
        PROVE  Agree(l, leaderLog'[t], n)
    <2>1. Agree(leaderLog[t], leaderLog'[t], Len(leaderLog[t])) /\ n <= Len(leaderLog[t])
      BY <1>1 DEF HistoryGrows, Agree
    <2>2. leaderLog[t] \in Seq(Entry) /\ leaderLog'[t] \in Seq(Entry) /\ Len(leaderLog[t]) \in Nat
      BY <1>0
    <2> QED BY <1>1, <2>1, <2>2, AgreeParts
  <1>2. ASSUME NEW l \in Seq(Entry), FromLeaders(l, leaderLog)
        PROVE  FromLeaders(l, leaderLog')
    <2> SUFFICES ASSUME NEW i \in DOMAIN l
                 PROVE  Agree(l, leaderLog'[l[i].term], i)
      BY DEF FromLeaders
    <2>1. l[i] \in Entry /\ i \in Nat
      OBVIOUS
    <2>2. l[i].term \in Term
      BY <2>1 DEF Entry
    <2> QED BY <1>1, <1>2, <2>1, <2>2 DEF FromLeaders
  <1>3. ASSUME NEW t \in Term, NEW u \in Term, NEW n \in Nat \ {0}, HasEntry(leaderLog[t], n, u)
        PROVE  HasEntry(leaderLog'[t], n, u)
    <2>1. Agree(leaderLog[t], leaderLog'[t], Len(leaderLog[t])) /\ n <= Len(leaderLog[t])
      BY <1>3 DEF HistoryGrows, HasEntry
    <2>2. leaderLog[t] \in Seq(Entry) /\ leaderLog'[t] \in Seq(Entry) /\ Len(leaderLog[t]) \in Nat
      BY <1>0
    <2> QED BY <1>3, <2>1, <2>2, AgreeHas
  <1>4. \A t \in Term : Led(t) => Led(t)'
    BY DEF Led, HistoryGrows
  <1> QED BY <1>1, <1>2, <1>3, <1>4

\* What was thrown away stays so: the leader that did it appends entries of its own term.
LEMMA LostKept ==
  ASSUME LogTypes, LogTypes', HistoryGrows, NEW n \in Nat \ {0}, NEW t \in Term,
         NEW u \in Term, NEW w \in Term, u <= w, Lost(n, t, u)
  PROVE  \E v \in Term : t < v /\ v <= w /\ Led(v)' /\ ~HasEntry(leaderLog'[v], n, t)
  <1>1. PICK v \in Term : t < v /\ v <= u /\ Led(v) /\ ~HasEntry(leaderLog[v], n, t)
    BY DEF Lost
  <1>2. v <= w /\ t \in Term \ {v}
    BY <1>1 DEF Term
  <1>3. ~HasEntry(leaderLog'[v], n, t)
    BY <1>1, <1>2 DEF HistoryGrows
  <1>4. Led(v)'
    BY <1>1, LeaderLogsGrow
  <1> QED BY <1>1, <1>2, <1>3, <1>4

\* Nobody joins those who may still acknowledge an entry, or leaves those who have.
LEMMA StoresChange ==
  ASSUME LogTypes, LogTypes', HistoryGrows, NEW n \in Nat \ {0}, NEW t \in Term
  PROVE  /\ MayStore(n, t)' \subseteq MayStore(n, t)
         /\ IsMajority(MayStore(n, t)') => IsMajority(MayStore(n, t))
         /\ Chosen(n, t) => Chosen(n, t)'
  <1>0. \A s \in Server : /\ acked[s][t] \in Nat /\ acked'[s][t] \in Nat
                          /\ currentTerm[s] \in Int /\ currentTerm'[s] \in Int /\ t \in Int
    BY TypesAt, TypesAtNext
  <1>1. MayStore(n, t)' \subseteq MayStore(n, t)
    BY <1>0 DEF MayStore, HistoryGrows
  <1>2. {s \in Server : n <= acked[s][t]} \subseteq {s \in Server : n <= acked'[s][t]}
    BY <1>0 DEF HistoryGrows
  <1>3. MayStore(n, t) \subseteq Server
    BY DEF MayStore
  <1>4. {s \in Server : n <= acked'[s][t]} \subseteq Server
    OBVIOUS
  <1>5. Chosen(n, t) => Chosen(n, t)'
    BY <1>2, <1>4, LargerMajority, LeaderLogsGrow DEF Chosen
  <1> QED BY <1>1, <1>3, <1>5, LargerMajority

\* What is committed stays committed.
LEMMA CommittedGrows ==
  ASSUME LogTypes, LogTypes', HistoryGrows, NEW l \in Seq(Entry), NEW c \in Nat,
         NEW u \in Term, NEW w \in Term, u <= w, CommittedIn(l, c, u)
  PROVE  \/ c = 0
         \/ \E t \in Term, n \in Nat \ {0} :
               t <= w /\ c <= n /\ Chosen(n, t)' /\ Agree(l, leaderLog'[t], c)
  <1> SUFFICES ASSUME c # 0
               PROVE  \E t \in Term, n \in Nat \ {0} :
                         t <= w /\ c <= n /\ Chosen(n, t)' /\ Agree(l, leaderLog'[t], c)
    OBVIOUS
  <1>1. PICK t \in Term, n \in Nat \ {0} :
           t <= u /\ c <= n /\ Chosen(n, t) /\ Agree(l, leaderLog[t], c)
    BY DEF CommittedIn
  <1>2. t <= w
    BY <1>1 DEF Term
  <1> QED BY <1>1, <1>2, StoresChange, LeaderLogsGrow

-----------------------------------------------------------------------------
(* The core: terms, logs, acknowledgements. *)

\* AckedKept after a step: for whoever keeps the entry, or takes over the log of a leader of
\* its new term that lacks it, and for new acknowledgements.
LEMMA AckedKeptGrows ==
  ASSUME LogTypes, LogTypes', HistoryGrows, CoreInv,
         \A s \in Server, t \in Term : \A n \in Nat \ {0} :
            HasEntry(leaderLog'[t], n, t) /\ n <= acked'[s][t] =>
               \/ HasEntry(log'[s], n, t)
               \/ Lost(n, t, currentTerm[s])
               \/ /\ t < currentTerm'[s] /\ \E e \in elected' : e.office = currentTerm'[s]
                  /\ ~HasEntry(leaderLog'[currentTerm'[s]], n, t)
  PROVE  AckedKept'
  <1> SUFFICES ASSUME NEW s \in Server, NEW t \in Term, NEW n \in 1 .. acked'[s][t],
                      HasEntry(leaderLog'[t], n, t)
               PROVE  HasEntry(log'[s], n, t) \/ Lost(n, t, currentTerm[s])'
    BY DEF AckedKept
  <1>1. n \in Nat \ {0} /\ n <= acked'[s][t]
    BY TypesAtNext
  <1>2. currentTerm[s] \in Term /\ currentTerm'[s] \in Term /\ currentTerm[s] <= currentTerm'[s]
    BY TypesAt, TypesAtNext DEF HistoryGrows
  <1>3. CASE Lost(n, t, currentTerm[s])
    <2>1. \E v \in Term : t < v /\ v <= currentTerm'[s] /\ Led(v)' /\ ~HasEntry(leaderLog'[v], n, t)
      BY <1>1, <1>2, <1>3, LostKept
    <2> QED BY <2>1 DEF Lost
  <1>4. CASE /\ t < currentTerm'[s] /\ \E e \in elected' : e.office = currentTerm'[s]
             /\ ~HasEntry(leaderLog'[currentTerm'[s]], n, t)
    <2>1. currentTerm'[s] <= currentTerm'[s]
      BY <1>2 DEF Term
    <2> QED BY <1>2, <1>4, <2>1 DEF Lost, Led
  <1> QED BY <1>1, <1>3, <1>4

\* A step that leaves logs and history alone.
LEMMA QuietCore ==
  ASSUME LogTypes, LogTypes', CoreInv, UNCHANGED <<log, elected, leaderLog, acked>>,
         \A s \in Server : currentTerm[s] <= currentTerm'[s]
  PROVE  HistoryGrows /\ CoreInv'
  <1>1. HistoryGrows
    <2>1. \A t \in Term : Agree(leaderLog[t], leaderLog'[t], Len(leaderLog[t]))
      BY DEF LogTypes, HistoryTypeOK, Agree
    <2>2. \A s \in Server, t \in Term : acked[s][t] <= acked'[s][t]
      BY TypesAt
    <2> QED BY <2>1, <2>2 DEF HistoryGrows
  <1>2. LeaderLogs'
    BY DEF CoreInv, LeaderLogs, Led
  <1>3. ServerLogs'
    <2> SUFFICES ASSUME NEW s \in Server
                 PROVE  /\ FromLeaders(log[s], leaderLog)
                        /\ \A i \in DOMAIN log[s] : log[s][i].term <= currentTerm'[s]
      BY DEF ServerLogs
    <2>1. \A i \in DOMAIN log[s] : log[s][i].term \in Int
      <3> SUFFICES ASSUME NEW i \in DOMAIN log[s]
                   PROVE  log[s][i].term \in Int
        OBVIOUS
      <3>1. log[s][i] \in Entry
        BY DEF LogTypes
      <3> QED BY <3>1 DEF Entry, Term
    <2>2. currentTerm[s] \in Int /\ currentTerm'[s] \in Int
      BY DEF LogTypes, Term
    <2> QED BY <2>1, <2>2 DEF CoreInv, ServerLogs
  <1>4. AckedHeld'
    <2> SUFFICES ASSUME NEW s \in Server
                 PROVE  /\ \A t \in Term : /\ acked[s][t] <= Len(leaderLog[t])
                                           /\ currentTerm'[s] < t => acked[s][t] = 0
                        /\ Agree(log[s], leaderLog[currentTerm'[s]], acked[s][currentTerm'[s]])
      BY DEF AckedHeld
    <2>1. currentTerm[s] \in Term /\ currentTerm'[s] \in Term
      BY DEF LogTypes
    <2>2. \A t \in Term : currentTerm'[s] < t => currentTerm[s] < t
      BY <2>1 DEF Term
    <2>3. CASE currentTerm'[s] = currentTerm[s]
      BY <2>2, <2>3 DEF CoreInv, AckedHeld
    <2>4. CASE currentTerm'[s] # currentTerm[s]
      <3>1. currentTerm[s] < currentTerm'[s]
        BY <2>1, <2>4 DEF Term
      <3>2. acked[s][currentTerm'[s]] = 0
        BY <2>1, <3>1 DEF CoreInv, AckedHeld
      <3>3. Agree(log[s], leaderLog[currentTerm'[s]], 0)
        BY <2>1, TypesAt DEF Agree
      <3> QED BY <2>2, <3>2, <3>3 DEF CoreInv, AckedHeld
    <2> QED BY <2>3, <2>4
  <1>5. AckedKept'
    <2>1. ASSUME NEW s \in Server, NEW t \in Term, NEW n \in Nat \ {0},
                 HasEntry(leaderLog'[t], n, t), n <= acked'[s][t]
          PROVE  HasEntry(log'[s], n, t) \/ Lost(n, t, currentTerm[s])
      <3>1. n \in 1 .. acked[s][t] /\ HasEntry(leaderLog[t], n, t)
        BY <2>1, TypesAt
      <3> QED BY <3>1 DEF CoreInv, AckedKept
    <2> QED BY <1>1, <2>1, AckedKeptGrows
  <1>6. LaterLeaders'
    <2> SUFFICES ASSUME NEW t \in Term, NEW u \in Term, t < u, Led(u), NEW n \in Nat \ {0},
                        HasEntry(leaderLog[t], n, t), IsMajority(MayStore(n, t)')
                 PROVE  HasEntry(leaderLog[u], n, t)
      BY DEF LaterLeaders, Led
    <2>1. IsMajority(MayStore(n, t))
      BY <1>1, StoresChange
    <2> QED BY <2>1 DEF CoreInv, LaterLeaders
  <1> QED BY <1>1, <1>2, <1>3, <1>4, <1>5, <1>6 DEF CoreInv

\* A server takes over entries of the leader of term T, which may be new to it.
LEMMA StoreCore ==
  ASSUME LogTypes, LogTypes', CoreInv, UNCHANGED <<elected, leaderLog>>,
         NEW s \in Server, NEW T \in Term, T >= currentTerm[s], Led(T),
         NEW r \in Seq(Entry), NEW last \in Nat,
         currentTerm' = [currentTerm EXCEPT ![s] = T],
         log' = [log EXCEPT ![s] = r],
         acked' = [acked EXCEPT ![s][T] = Max(@, last)],
         Agree(r, leaderLog[T], last),
         \A n \in Nat : Agree(log[s], leaderLog[T], n) => Agree(r, leaderLog[T], n),
         FromLeaders(r, leaderLog), r = log[s] \/ Len(r) = last
  PROVE  HistoryGrows /\ CoreInv'
  <1>0. /\ currentTerm[s] \in Int /\ T \in Int /\ leaderLog[T] \in Seq(Entry) /\ log[s] \in Seq(Entry)
        /\ acked[s][T] \in Nat /\ Len(leaderLog[T]) \in Nat
    BY TypesAt
  <1>1. /\ currentTerm'[s] = T /\ \A q \in Server \ {s} : currentTerm'[q] = currentTerm[q]
        /\ log'[s] = r /\ \A q \in Server \ {s} : log'[q] = log[q]
    BY DEF LogTypes
  <1>2. /\ acked'[s][T] = Max(acked[s][T], last)
        /\ \A q \in Server, t \in Term : q # s \/ t # T => acked'[q][t] = acked[q][t]
    <2>1. acked \in [Server -> [Term -> Nat]]
      BY DEF LogTypes, HistoryTypeOK
    <2> QED BY <2>1
  <1>3. acked'[s][T] \in Nat /\ acked[s][T] <= acked'[s][T] /\ last <= acked'[s][T]
        /\ acked'[s][T] \in {acked[s][T], last}
    BY <1>0, <1>2 DEF Max
  <1>4. HistoryGrows
    <2>1. \A t \in Term : Agree(leaderLog[t], leaderLog'[t], Len(leaderLog[t]))
      BY DEF LogTypes, HistoryTypeOK, Agree
    <2>2. \A q \in Server, t \in Term : /\ acked[q][t] <= acked'[q][t]
                                        /\ acked'[q][t] # acked[q][t] => currentTerm[q] <= t
      BY <1>0, <1>2, <1>3, TypesAt
    <2>3. \A q \in Server : currentTerm[q] <= currentTerm'[q]
      BY <1>0, <1>1, TypesAt
    <2> QED BY <2>1, <2>2, <2>3 DEF HistoryGrows
  <1>5. LeaderLogs'
    BY DEF CoreInv, LeaderLogs, Led
  <1>6. ASSUME NEW i \in DOMAIN r
        PROVE  r[i].term <= T
    <2>1. r[i] \in Entry /\ i \in Nat
      OBVIOUS
    <2>2. r[i].term \in Int
      BY <2>1 DEF Entry, Term
    <2>3. CASE r = log[s]
      BY <1>0, <1>6, <2>2, <2>3 DEF CoreInv, ServerLogs
    <2>4. CASE Len(r) = last
      <3>1. r[i] = leaderLog[T][i] /\ i \in DOMAIN leaderLog[T]
        BY <1>0, <2>4 DEF Agree
      <3> QED BY <3>1 DEF CoreInv, LeaderLogs
    <2> QED BY <2>3, <2>4
  <1>7. ServerLogs'
    <2> SUFFICES ASSUME NEW q \in Server
                 PROVE  /\ FromLeaders(log'[q], leaderLog)
                        /\ \A i \in DOMAIN log'[q] : log'[q][i].term <= currentTerm'[q]
      BY DEF ServerLogs
    <2>1. CASE q = s
      BY <1>1, <1>6, <2>1
    <2>2. CASE q # s
      BY <1>1, <2>2 DEF CoreInv, ServerLogs
    <2> QED BY <2>1, <2>2
  <1>8. AckedHeld'
    <2>1. Agree(r, leaderLog[T], acked'[s][T])
      <3>1. CASE acked'[s][T] = last
        BY <3>1
      <3>2. CASE acked'[s][T] = acked[s][T]
        <4>1. Agree(log[s], leaderLog[T], acked[s][T])
          <5>1. CASE currentTerm[s] = T
            BY <5>1 DEF CoreInv, AckedHeld
          <5>2. CASE currentTerm[s] # T
            <6>1. acked[s][T] = 0
              BY <1>0, <5>2 DEF CoreInv, AckedHeld
            <6> QED BY <1>0, <6>1 DEF Agree
          <5> QED BY <5>1, <5>2
        <4> QED BY <1>0, <3>2, <4>1
      <3> QED BY <1>3, <3>1, <3>2
    <2>2. ASSUME NEW q \in Server, NEW t \in Term
          PROVE  acked'[q][t] <= Len(leaderLog[t]) /\ (currentTerm'[q] < t => acked'[q][t] = 0)
      <3>1. CASE q = s /\ t = T
        BY <1>0, <1>1, <2>1, <3>1 DEF Agree
      <3>2. CASE ~(q = s /\ t = T)
        <4>1. /\ acked'[q][t] = acked[q][t] /\ currentTerm[q] <= currentTerm'[q]
              /\ currentTerm[q] \in Int /\ currentTerm'[q] \in Int /\ t \in Int
          BY <1>2, <1>4, <3>2, TypesAt, TypesAtNext DEF HistoryGrows
        <4>2. currentTerm'[q] < t => currentTerm[q] < t
          BY <4>1
        <4> QED BY <4>1, <4>2 DEF CoreInv, AckedHeld
      <3> QED BY <3>1, <3>2
    <2>3. ASSUME NEW q \in Server
          PROVE  Agree(log'[q], leaderLog[currentTerm'[q]], acked'[q][currentTerm'[q]])
      <3>1. CASE q = s
        BY <1>1, <2>1, <3>1
      <3>2. CASE q # s
        <4>1. /\ log'[q] = log[q] /\ currentTerm'[q] = currentTerm[q] /\ currentTerm[q] \in Term
              /\ acked'[q][currentTerm[q]] = acked[q][currentTerm[q]]
          BY <1>1, <1>2, <3>2, TypesAt
        <4> QED BY <4>1 DEF CoreInv, AckedHeld
      <3> QED BY <3>1, <3>2
    <2> QED BY <2>2, <2>3 DEF AckedHeld
  <1>9. AckedKept'
    <2>1. ASSUME NEW q \in Server, NEW t \in Term, NEW n \in Nat \ {0},
                 HasEntry(leaderLog'[t], n, t), n <= acked'[q][t]
          PROVE  \/ HasEntry(log'[q], n, t)
                 \/ Lost(n, t, currentTerm[q])
                 \/ /\ t < currentTerm'[q] /\ \E e \in elected' : e.office = currentTerm'[q]
                    /\ ~HasEntry(leaderLog'[currentTerm'[q]], n, t)
      <3>0. HasEntry(leaderLog[t], n, t) /\ t \in Int
        BY <2>1, TypesAt
      <3>1. CASE q # s
        <4>1. n \in 1 .. acked[q][t] /\ log'[q] = log[q]
          BY <1>1, <1>2, <2>1, <3>1, TypesAt
        <4> QED BY <3>0, <4>1 DEF CoreInv, AckedKept
      <3>2. CASE q = s /\ t = T
        <4>1. Agree(leaderLog[T], r, acked'[s][T])
          <5>1. Agree(r, leaderLog[T], acked'[s][T])
            BY <1>1, <1>8 DEF AckedHeld
          <5> QED BY <1>0, <1>3, <5>1, AgreeParts
        <4>2. HasEntry(r, n, T)
          BY <1>0, <1>3, <2>1, <3>0, <3>2, <4>1, AgreeHas
        <4> QED BY <1>1, <3>2, <4>2
      <3>3. CASE q = s /\ t # T
        <4>1. n \in 1 .. acked[s][t]
          BY <1>2, <2>1, <3>3, TypesAt
        <4>2. t < T
          BY <1>0, <3>0, <3>3, <4>1 DEF CoreInv, AckedHeld
        <4>3. HasEntry(log[s], n, t) \/ Lost(n, t, currentTerm[s])
          BY <3>0, <4>1 DEF CoreInv, AckedKept
        <4>4. CASE HasEntry(log[s], n, t) /\ HasEntry(leaderLog[T], n, t)
          <5>1. FromLeaders(log[s], leaderLog) /\ FromLeaders(leaderLog[T], leaderLog)
            BY DEF CoreInv, ServerLogs, LeaderLogs
          <5>2. Agree(log[s], leaderLog[T], n)
            BY <1>0, <4>4, <5>1, LogsMatch DEF LogTypes, HistoryTypeOK
          <5>3. Agree(r, leaderLog[T], n)
            BY <5>2
          <5>4. Agree(leaderLog[T], r, n)
            BY <1>0, <5>3, AgreeParts
          <5>5. HasEntry(r, n, t)
            BY <1>0, <4>4, <5>4, AgreeHas
          <5> QED BY <1>1, <3>3, <5>5
        <4>5. CASE ~HasEntry(leaderLog[T], n, t)
          <5>1. \E e \in elected' : e.office = T
            BY DEF Led
          <5> QED BY <1>1, <3>3, <4>2, <4>5, <5>1
        <4> QED BY <3>3, <4>3, <4>4, <4>5
      <3> QED BY <3>1, <3>2, <3>3
    <2> QED BY <1>4, <2>1, AckedKeptGrows
  <1>10. LaterLeaders'
    <2> SUFFICES ASSUME NEW t \in Term, NEW u \in Term, t < u, Led(u), NEW n \in Nat \ {0},
                        HasEntry(leaderLog[t], n, t), IsMajority(MayStore(n, t)')
                 PROVE  HasEntry(leaderLog[u], n, t)
      BY DEF LaterLeaders, Led
    <2>1. IsMajority(MayStore(n, t))
      BY <1>4, StoresChange
    <2> QED BY <2>1 DEF CoreInv, LaterLeaders
  <1> QED BY <1>4, <1>5, <1>7, <1>8, <1>9, <1>10 DEF CoreInv

\* The voters of a leader are in its term or a later one.
LEMMA VotersInTerm ==
  ASSUME TypeOK, ElectionInv, NEW c \in Server, NEW term \in Term, NEW v \in Voters(c, term)
  PROVE  v \in Server /\ term <= currentTerm[v] /\ Ballot(v, term, c) \in ballots
  <1>1. v \in Server /\ Ballot(v, term, c) \in ballots
    BY DEF Voters
  <1>2. Ballot(v, term, c).voter = v /\ Ballot(v, term, c).term = term
    BY DEF Ballot
  <1> QED BY <1>1, <1>2 DEF ElectionInv, VotesRemembered

\* A leader appends an entry of its term.
LEMMA StartCore ==
  ASSUME LogTypes, LogTypes', CoreInv, TypeOK, ElectionInv, "Convert2Leader" \notin Windows,
         UNCHANGED <<currentTerm, elected>>,
         NEW s \in Server, NEW T \in Term, T = currentTerm[s], Led(T),
         log[s] = leaderLog[T], acked[s][T] = Len(log[s]),
         NEW e \in Entry, e.term = T, NEW r, Longer(log[s], e, r),
         log' = [log EXCEPT ![s] = r],
         leaderLog' = [leaderLog EXCEPT ![T] = r],
         acked' = [acked EXCEPT ![s][T] = Len(r)]
  PROVE  HistoryGrows /\ CoreInv'
  <1> DEFINE l == log[s]
             K == Len(log[s])
  <1>0. T \in Int /\ l \in Seq(Entry) /\ K \in Nat
    BY TypesAt
  <1>1. /\ r \in Seq(Entry) /\ Len(r) = K + 1 /\ DOMAIN r = 1 .. K + 1 /\ r[K + 1] = e
        /\ \A i \in 1 .. K : r[i] = l[i]
    BY <1>0 DEF Longer
  <1>2. Agree(l, r, K)
    BY <1>0, <1>1 DEF Agree
  <1>3. /\ log'[s] = r /\ \A q \in Server \ {s} : log'[q] = log[q]
        /\ leaderLog'[T] = r /\ \A t \in Term \ {T} : leaderLog'[t] = leaderLog[t]
    BY DEF LogTypes, HistoryTypeOK
  <1>4. /\ acked'[s][T] = K + 1
        /\ \A q \in Server, t \in Term : q # s \/ t # T => acked'[q][t] = acked[q][t]
    <2>1. acked \in [Server -> [Term -> Nat]]
      BY DEF LogTypes, HistoryTypeOK
    <2> QED BY <1>1, <2>1
  <1>5. HistoryGrows
    <2>1. ASSUME NEW t \in Term
          PROVE  /\ Agree(leaderLog[t], leaderLog'[t], Len(leaderLog[t]))
                 /\ \A n \in Nat \ {0}, u \in Term \ {t} :
                       HasEntry(leaderLog'[t], n, u) => HasEntry(leaderLog[t], n, u)
      <3>1. CASE t = T
        <4>1. ASSUME NEW n \in Nat \ {0}, NEW u \in Term \ {T}, HasEntry(r, n, u)
              PROVE  HasEntry(l, n, u)
          <5>1. HasEntry(l, n, u) \/ u = e.term
            BY <1>0, <4>1, AppendHas
          <5> QED BY <5>1
        <4> QED BY <1>2, <1>3, <3>1, <4>1
      <3>2. CASE t # T
        BY <1>3, <3>2 DEF LogTypes, HistoryTypeOK, Agree
      <3> QED BY <3>1, <3>2
    <2>2. ASSUME NEW q \in Server, NEW t \in Term
          PROVE  acked[q][t] <= acked'[q][t] /\ (acked'[q][t] # acked[q][t] => currentTerm[q] <= t)
      <3>1. CASE q = s /\ t = T
        BY <1>0, <1>4, <3>1
      <3>2. CASE ~(q = s /\ t = T)
        BY <1>4, <3>2, TypesAt
      <3> QED BY <3>1, <3>2
    <2>3. \A q \in Server : currentTerm[q] <= currentTerm'[q]
      BY TypesAt
    <2> QED BY <2>1, <2>2, <2>3 DEF HistoryGrows
  <1>6. FromLeaders(r, leaderLog')
    <2> SUFFICES ASSUME NEW i \in DOMAIN r
                 PROVE  Agree(r, leaderLog'[r[i].term], i)
      BY DEF FromLeaders
    <2>1. CASE i = K + 1
      BY <1>0, <1>1, <1>3, <2>1 DEF Agree
    <2>2. CASE i # K + 1
      <3>1. i \in DOMAIN l /\ i \in Nat /\ r[i] = l[i] /\ l[i] \in Entry /\ i <= K
        BY <1>0, <1>1, <2>2
      <3>2. FromLeaders(l, leaderLog')
        BY <1>0, <1>5, LeaderLogsGrow DEF CoreInv, ServerLogs
      <3>3. Agree(l, leaderLog'[l[i].term], i) /\ l[i].term \in Term
        BY <3>1, <3>2 DEF FromLeaders, Entry
      <3>4. Agree(r, l, i)
        BY <1>0, <1>1, <1>2, <3>1, AgreeParts
      <3>5. leaderLog'[l[i].term] \in Seq(Entry)
        BY <3>3 DEF LogTypes, HistoryTypeOK
      <3>6. Agree(r, leaderLog'[l[i].term], i)
        BY <1>0, <1>1, <3>1, <3>3, <3>4, <3>5 DEF Agree
      <3> QED BY <3>1, <3>6
    <2> QED BY <2>1, <2>2
  <1>7. \A i \in DOMAIN r : r[i].term <= T /\ r[i].term \in Int
    <2> SUFFICES ASSUME NEW i \in DOMAIN r
                 PROVE  r[i].term <= T /\ r[i].term \in Int
      OBVIOUS
    <2>1. CASE i = K + 1
      BY <1>0, <1>1, <2>1
    <2>2. CASE i # K + 1
      <3>1. i \in DOMAIN l /\ r[i] = l[i] /\ l[i] \in Entry
        BY <1>0, <1>1, <2>2
      <3> QED BY <3>1 DEF Entry, Term, CoreInv, ServerLogs
    <2> QED BY <2>1, <2>2
  <1>8. LeaderLogs'
    <2> SUFFICES ASSUME NEW t \in Term
                 PROVE  /\ FromLeaders(leaderLog'[t], leaderLog')
                        /\ ~Led(t) => leaderLog'[t] = <<>>
                        /\ \A i, j \in DOMAIN leaderLog'[t] :
                              i <= j => leaderLog'[t][i].term <= leaderLog'[t][j].term
                        /\ \A i \in DOMAIN leaderLog'[t] : leaderLog'[t][i].term <= t
      BY DEF LeaderLogs, Led
    <2>1. CASE t = T
      <3>1. ASSUME NEW i \in DOMAIN r, NEW j \in DOMAIN r, i <= j
            PROVE  r[i].term <= r[j].term
        <4>1. CASE j = K + 1
          <5>1. r[j] = e /\ r[i].term <= T
            BY <1>1, <1>7, <4>1
          <5> QED BY <5>1
        <4>2. CASE j # K + 1
          <5>1. i \in 1 .. K + 1 /\ j \in 1 .. K + 1
            BY <1>1, <3>1, Zenon
          <5>2. i \in 1 .. K /\ j \in 1 .. K
            BY <1>0, <3>1, <4>2, <5>1
          <5>3. i \in DOMAIN l /\ j \in DOMAIN l
            BY <1>0, <5>2
          <5>4. r[i] = l[i] /\ r[j] = l[j]
            BY <1>1, <5>2
          <5>5. l[i].term <= l[j].term
            BY <3>1, <5>3 DEF CoreInv, LeaderLogs
          <5> QED BY <5>4, <5>5
        <4> QED BY <4>1, <4>2
      <3> QED BY <1>3, <1>6, <1>7, <2>1, <3>1
    <2>2. CASE t # T
      <3>1. leaderLog'[t] = leaderLog[t] /\ leaderLog[t] \in Seq(Entry)
        BY <1>3, <2>2, TypesAt
      <3>2. FromLeaders(leaderLog[t], leaderLog')
        BY <1>5, <3>1, LeaderLogsGrow DEF CoreInv, LeaderLogs
      <3> QED BY <3>1, <3>2 DEF CoreInv, LeaderLogs
    <2> QED BY <2>1, <2>2
  <1>9. ServerLogs'
    <2> SUFFICES ASSUME NEW q \in Server
                 PROVE  /\ FromLeaders(log'[q], leaderLog')
                        /\ \A i \in DOMAIN log'[q] : log'[q][i].term <= currentTerm[q]
      BY DEF ServerLogs
    <2>1. CASE q = s
      BY <1>3, <1>6, <1>7, <2>1
    <2>2. CASE q # s
      <3>1. log[q] \in Seq(Entry) /\ log'[q] = log[q]
        BY <1>3, <2>2, TypesAt
      <3> QED BY <1>5, <3>1, LeaderLogsGrow DEF CoreInv, ServerLogs
    <2> QED BY <2>1, <2>2
  <1>10. AckedHeld'
    <2>1. ASSUME NEW q \in Server, NEW t \in Term
          PROVE  /\ acked'[q][t] <= Len(leaderLog'[t])
                 /\ currentTerm[q] < t => acked'[q][t] = 0
      <3>1. CASE q = s /\ t = T
        BY <1>0, <1>1, <1>3, <1>4, <3>1
      <3>2. CASE ~(q = s /\ t = T)
        <4>1. acked'[q][t] = acked[q][t] /\ acked[q][t] \in Nat
          BY <1>4, <3>2, TypesAt
        <4>2. acked[q][t] <= Len(leaderLog[t]) /\ (currentTerm[q] < t => acked[q][t] = 0)
          BY DEF CoreInv, AckedHeld
        <4>3. Len(leaderLog[t]) <= Len(leaderLog'[t])
          BY <1>0, <1>1, <1>3, TypesAt
        <4> QED BY <4>1, <4>2, <4>3, TypesAt, TypesAtNext
      <3> QED BY <3>1, <3>2
    <2>2. ASSUME NEW q \in Server
          PROVE  Agree(log'[q], leaderLog'[currentTerm[q]], acked'[q][currentTerm[q]])
      <3>1. CASE q = s
        BY <1>0, <1>1, <1>3, <1>4, <3>1 DEF Agree
      <3>2. CASE q # s
        <4>1. /\ log'[q] = log[q] /\ currentTerm[q] \in Term /\ log[q] \in Seq(Entry)
              /\ acked'[q][currentTerm[q]] = acked[q][currentTerm[q]]
              /\ acked[q][currentTerm[q]] \in Nat
          BY <1>3, <1>4, <3>2, TypesAt
        <4>2. Agree(log[q], leaderLog[currentTerm[q]], acked[q][currentTerm[q]])
          BY DEF CoreInv, AckedHeld
        <4> QED BY <1>5, <4>1, <4>2, LeaderLogsGrow
      <3> QED BY <3>1, <3>2
    <2> QED BY <2>1, <2>2 DEF AckedHeld
  <1>11. \A t \in Term, n \in Nat \ {0} :
            HasEntry(leaderLog'[t], n, t) /\ ~(t = T /\ n = K + 1) => HasEntry(leaderLog[t], n, t)
    <2> SUFFICES ASSUME NEW t \in Term, NEW n \in Nat \ {0}, HasEntry(leaderLog'[t], n, t),
                        ~(t = T /\ n = K + 1)
                 PROVE  HasEntry(leaderLog[t], n, t)
      OBVIOUS
    <2>1. CASE t # T
      BY <1>3, <2>1
    <2>2. CASE t = T
      <3>1. HasEntry(r, n, t) /\ n # K + 1
        BY <1>3, <2>2
      <3> QED BY <1>0, <2>2, <3>1, AppendHas
    <2> QED BY <2>1, <2>2
  <1>12. AckedKept'
    <2>1. ASSUME NEW q \in Server, NEW t \in Term, NEW n \in Nat \ {0},
                 HasEntry(leaderLog'[t], n, t), n <= acked'[q][t]
          PROVE  HasEntry(log'[q], n, t) \/ Lost(n, t, currentTerm[q])
      <3>1. CASE q = s /\ t = T
        BY <1>3, <2>1, <3>1
      <3>2. CASE ~(q = s /\ t = T)
        <4>1. n \in 1 .. acked[q][t]
          BY <1>4, <2>1, <3>2, TypesAt
        <4>2. n <= Len(leaderLog[t])
          BY <4>1, TypesAt DEF CoreInv, AckedHeld
        <4>3. HasEntry(leaderLog[t], n, t)
          BY <1>0, <1>11, <2>1, <4>2
        <4>4. HasEntry(log[q], n, t) \/ Lost(n, t, currentTerm[q])
          BY <4>1, <4>3 DEF CoreInv, AckedKept
        <4>5. HasEntry(log[q], n, t) => HasEntry(log'[q], n, t)
          <5>1. CASE q = s
            <6> SUFFICES ASSUME HasEntry(l, n, t)
                         PROVE  HasEntry(r, n, t)
              BY <1>3, <5>1
            <6> QED BY <1>0, AppendHas
          <5>2. CASE q # s
            BY <1>3, <5>2
          <5> QED BY <5>1, <5>2
        <4> QED BY <4>4, <4>5
      <3> QED BY <3>1, <3>2
    <2> QED BY <1>5, <2>1, AckedKeptGrows
  <1>13. LaterLeaders'
    <2> SUFFICES ASSUME NEW t \in Term, NEW u \in Term, t < u, Led(u), NEW n \in Nat \ {0},
                        HasEntry(leaderLog'[t], n, t), IsMajority(MayStore(n, t)')
                 PROVE  HasEntry(leaderLog'[u], n, t)
      BY DEF LaterLeaders, Led
    <2>1. CASE t = T /\ n = K + 1
      <3>1. PICK f \in elected : f.office = u
        BY DEF Led
      <3>2. f.server \in Server /\ f.term = u /\ IsMajority(Voters(f.server, u))
        BY <3>1 DEF ElectionInv, WinnersElected, OfficeInTerm, TypeOK
      <3>3. IsMajority(MayStore(n, t)) /\ MayStore(n, t) \subseteq Server
        BY <1>5, StoresChange DEF MayStore
      <3>4. Voters(f.server, u) \subseteq Server
        BY DEF Voters
      <3>5. PICK v \in Voters(f.server, u) : v \in MayStore(n, t)
        BY <3>2, <3>3, <3>4, MajoritiesMeet
      <3>6. v \in Server /\ u <= currentTerm[v]
        BY <3>2, VotersInTerm
      <3>7. /\ u \in Int /\ t \in Int /\ currentTerm[v] \in Int /\ acked[v][t] \in Nat
            /\ acked[v][t] <= K
        BY <2>1, <3>6, TypesAt DEF CoreInv, AckedHeld
      <3> QED BY <1>0, <2>1, <3>5, <3>6, <3>7 DEF MayStore
    <2>2. CASE ~(t = T /\ n = K + 1)
      <3>1. HasEntry(leaderLog[t], n, t)
        BY <1>11, <2>2
      <3>2. IsMajority(MayStore(n, t))
        BY <1>5, StoresChange
      <3>3. HasEntry(leaderLog[u], n, t)
        BY <3>1, <3>2 DEF CoreInv, LaterLeaders
      <3> QED BY <1>5, <3>3, LeaderLogsGrow
    <2> QED BY <2>1, <2>2
  <1> QED BY <1>5, <1>8, <1>9, <1>10, <1>12, <1>13 DEF CoreInv

\* A candidate takes office in a term that had no leader.
LEMMA OfficeCore ==
  ASSUME LogTypes, LogTypes', CoreInv, TypeOK, ElectionInv, VotersOutdone,
         UNCHANGED <<currentTerm, log>>,
         NEW s \in Server, NEW T \in Term, T = currentTerm[s], state[s] = "Candidate",
         ~Led(T), IsMajority(Voters(s, T)),
         NEW e, e.office = T, elected' = elected \cup {e},
         leaderLog' = [leaderLog EXCEPT ![T] = log[s]],
         acked' = [acked EXCEPT ![s][T] = Len(log[s])]
  PROVE  HistoryGrows /\ CoreInv'
  <1> DEFINE l == log[s]
  <1>0. T \in Int /\ l \in Seq(Entry) /\ Len(l) \in Nat
    BY TypesAt
  <1>1. leaderLog[T] = <<>>
    BY DEF CoreInv, LeaderLogs
  <1>2. leaderLog'[T] = l /\ \A t \in Term \ {T} : leaderLog'[t] = leaderLog[t]
    BY DEF LogTypes, HistoryTypeOK
  <1>3. \A q \in Server : acked[q][T] = 0
    <2> SUFFICES ASSUME NEW q \in Server
                 PROVE  acked[q][T] = 0
      OBVIOUS
    <2>1. acked[q][T] \in Nat /\ acked[q][T] <= Len(leaderLog[T])
      BY TypesAt DEF CoreInv, AckedHeld
    <2> QED BY <1>1, <2>1
  <1>4. /\ acked'[s][T] = Len(l)
        /\ \A q \in Server, t \in Term : q # s \/ t # T => acked'[q][t] = acked[q][t]
    <2>1. acked \in [Server -> [Term -> Nat]]
      BY DEF LogTypes, HistoryTypeOK
    <2> QED BY <2>1
  <1>5. FromLeaders(l, leaderLog) /\ \A n \in Nat \ {0} : ~HasEntry(l, n, T)
    <2>1. FromLeaders(l, leaderLog)
      BY DEF CoreInv, ServerLogs
    <2>2. ASSUME NEW n \in Nat \ {0}, HasEntry(l, n, T)
          PROVE  FALSE
      <3>1. HasEntry(leaderLog[T], n, T)
        BY <1>0, <2>1, <2>2, LogOfEntry DEF LogTypes, HistoryTypeOK
      <3> QED BY <1>1, <3>1 DEF HasEntry
    <2> QED BY <2>1, <2>2
  <1>6. \A t \in Term, n \in Nat \ {0} :
           HasEntry(leaderLog'[t], n, t) => t # T /\ HasEntry(leaderLog[t], n, t)
    BY <1>2, <1>5
  <1>7. HistoryGrows
    <2>1. ASSUME NEW t \in Term
          PROVE  /\ Agree(leaderLog[t], leaderLog'[t], Len(leaderLog[t]))
                 /\ Led(t) => \A n \in Nat \ {0}, u \in Term \ {t} :
                       HasEntry(leaderLog'[t], n, u) => HasEntry(leaderLog[t], n, u)
      <3>1. CASE t = T
        BY <1>0, <1>1, <1>2, <3>1 DEF Agree
      <3>2. CASE t # T
        BY <1>2, <3>2 DEF LogTypes, HistoryTypeOK, Agree
      <3> QED BY <3>1, <3>2
    <2>2. ASSUME NEW q \in Server, NEW t \in Term
          PROVE  acked[q][t] <= acked'[q][t] /\ (acked'[q][t] # acked[q][t] => currentTerm[q] <= t)
      <3>1. CASE q = s /\ t = T
        BY <1>0, <1>3, <1>4, <3>1
      <3>2. CASE ~(q = s /\ t = T)
        BY <1>4, <3>2, TypesAt
      <3> QED BY <3>1, <3>2
    <2>3. \A q \in Server : currentTerm[q] <= currentTerm'[q]
      BY TypesAt
    <2> QED BY <2>1, <2>2, <2>3 DEF HistoryGrows
  <1>8. \A q \in Server : FromLeaders(log[q], leaderLog')
    <2> SUFFICES ASSUME NEW q \in Server
                 PROVE  FromLeaders(log[q], leaderLog')
      OBVIOUS
    <2>1. log[q] \in Seq(Entry)
      BY TypesAt
    <2> QED BY <1>7, <2>1, LeaderLogsGrow DEF CoreInv, ServerLogs
  <1>9. ServerLogs'
    BY <1>8 DEF CoreInv, ServerLogs
  <1>10. LeaderLogs'
    <2> SUFFICES ASSUME NEW t \in Term
                 PROVE  /\ FromLeaders(leaderLog'[t], leaderLog')
                        /\ ~(\E f \in elected' : f.office = t) => leaderLog'[t] = <<>>
                        /\ \A i, j \in DOMAIN leaderLog'[t] :
                              i <= j => leaderLog'[t][i].term <= leaderLog'[t][j].term
                        /\ \A i \in DOMAIN leaderLog'[t] : leaderLog'[t][i].term <= t
      BY DEF LeaderLogs, Led
    <2>1. CASE t = T
      <3>1. ASSUME NEW i \in DOMAIN l, NEW j \in DOMAIN l, i <= j
            PROVE  l[i].term <= l[j].term
        <4>1. l[j] \in Entry /\ j \in Nat /\ i \in Nat \ {0}
          BY <1>0
        <4>2. l[j].term \in Term
          BY <4>1 DEF Entry
        <4>3. Agree(l, leaderLog[l[j].term], j) /\ leaderLog[l[j].term] \in Seq(Entry)
          BY <1>5, <4>2, TypesAt DEF FromLeaders
        <4>4. /\ i \in DOMAIN leaderLog[l[j].term] /\ leaderLog[l[j].term][i] = l[i]
              /\ j \in DOMAIN leaderLog[l[j].term] /\ leaderLog[l[j].term][j] = l[j]
          BY <3>1, <4>1, <4>3 DEF Agree
        <4> QED BY <3>1, <4>2, <4>4 DEF CoreInv, LeaderLogs
      <3>2. \A i \in DOMAIN l : l[i].term <= T
        BY DEF CoreInv, ServerLogs
      <3> QED BY <1>2, <1>8, <2>1, <3>1, <3>2
    <2>2. CASE t # T
      <3>1. leaderLog'[t] = leaderLog[t] /\ leaderLog[t] \in Seq(Entry)
        BY <1>2, <2>2, TypesAt
      <3>2. FromLeaders(leaderLog[t], leaderLog')
        BY <1>7, <3>1, LeaderLogsGrow DEF CoreInv, LeaderLogs
      <3> QED BY <3>1, <3>2 DEF CoreInv, LeaderLogs, Led
    <2> QED BY <2>1, <2>2
  <1>11. AckedHeld'
    <2>1. ASSUME NEW q \in Server, NEW t \in Term
          PROVE  /\ acked'[q][t] <= Len(leaderLog'[t])
                 /\ currentTerm[q] < t => acked'[q][t] = 0
      <3>1. CASE q = s /\ t = T
        BY <1>0, <1>2, <1>4, <3>1
      <3>2. CASE ~(q = s /\ t = T)
        <4>1. acked'[q][t] = acked[q][t]
          BY <1>4, <3>2
        <4>2. acked[q][t] <= Len(leaderLog[t]) /\ (currentTerm[q] < t => acked[q][t] = 0)
          BY DEF CoreInv, AckedHeld
        <4>3. CASE t = T
          BY <1>0, <1>2, <1>3, <4>1, <4>3
        <4>4. CASE t # T
          BY <1>2, <4>1, <4>2, <4>4
        <4> QED BY <4>3, <4>4
      <3> QED BY <3>1, <3>2
    <2>2. ASSUME NEW q \in Server
          PROVE  Agree(log[q], leaderLog'[currentTerm[q]], acked'[q][currentTerm[q]])
      <3>1. CASE q = s
        BY <1>0, <1>2, <1>4, <3>1 DEF Agree
      <3>2. CASE q # s
        <4>1. /\ currentTerm[q] \in Term /\ log[q] \in Seq(Entry)
              /\ acked'[q][currentTerm[q]] = acked[q][currentTerm[q]]
              /\ acked[q][currentTerm[q]] \in Nat
          BY <1>4, <3>2, TypesAt
        <4>2. Agree(log[q], leaderLog[currentTerm[q]], acked[q][currentTerm[q]])
          BY DEF CoreInv, AckedHeld
        <4> QED BY <1>7, <4>1, <4>2, LeaderLogsGrow
      <3> QED BY <3>1, <3>2
    <2> QED BY <2>1, <2>2 DEF AckedHeld
  <1>12. AckedKept'
    <2>1. ASSUME NEW q \in Server, NEW t \in Term, NEW n \in Nat \ {0},
                 HasEntry(leaderLog'[t], n, t), n <= acked'[q][t]
          PROVE  HasEntry(log'[q], n, t) \/ Lost(n, t, currentTerm[q])
      <3>1. t # T /\ HasEntry(leaderLog[t], n, t)
        BY <1>6, <2>1
      <3>2. n \in 1 .. acked[q][t]
        BY <1>4, <2>1, <3>1, TypesAt
      <3> QED BY <3>1, <3>2 DEF CoreInv, AckedKept
    <2> QED BY <1>7, <2>1, AckedKeptGrows
  <1>13. LaterLeaders'
    <2> SUFFICES ASSUME NEW t \in Term, NEW u \in Term, t < u, \E f \in elected' : f.office = u,
                        NEW n \in Nat \ {0},
                        HasEntry(leaderLog'[t], n, t), IsMajority(MayStore(n, t)')
                 PROVE  HasEntry(leaderLog'[u], n, t)
      BY DEF LaterLeaders, Led
    <2>1. /\ t # T /\ HasEntry(leaderLog[t], n, t)
          /\ IsMajority(MayStore(n, t)) /\ MayStore(n, t) \subseteq Server
      BY <1>6, <1>7, StoresChange DEF MayStore
    <2>2. CASE u # T
      <3>1. Led(u)
        BY <2>2 DEF Led
      <3> QED BY <1>2, <2>1, <2>2, <3>1 DEF CoreInv, LaterLeaders
    <2>3. CASE u = T
      <3>1. Voters(s, T) \subseteq Server
        BY DEF Voters
      <3>2. PICK v \in Voters(s, T) : v \in MayStore(n, t)
        BY <2>1, <3>1, MajoritiesMeet
      <3>3. v \in Server /\ T <= currentTerm[v] /\ Ballot(v, T, s) \in ballots
        BY <3>2, VotersInTerm
      <3>4. n \in 1 .. acked[v][t]
        <4>1. currentTerm[v] \in Int /\ t \in Int /\ acked[v][t] \in Nat
          BY <3>3, TypesAt
        <4> QED BY <1>0, <2>3, <3>2, <3>3, <4>1 DEF MayStore
      <3>5. HasEntry(l, n, t) \/ Lost(n, t, T)
        <4>1. Ballot(v, T, s).voter = v /\ Ballot(v, T, s).term = T /\ Ballot(v, T, s).cand = s
          BY DEF Ballot
        <4> QED BY <2>1, <2>3, <3>3, <3>4, <4>1 DEF VotersOutdone, BallotSound
      <3>6. ~Lost(n, t, T)
        BY <2>1 DEF Lost, CoreInv, LaterLeaders
      <3> QED BY <1>2, <2>3, <3>5, <3>6
    <2> QED BY <2>2, <2>3
  <1> QED BY <1>7, <1>9, <1>10, <1>11, <1>12, <1>13 DEF CoreInv

-----------------------------------------------------------------------------
(* Messages and votes that were there before a step. *)

\* A candidate after the step began its campaign with it, or goes on with its log unchanged.
CandidatesSettled ==
  \A s \in Server : state'[s] = "Candidate" =>
     \/ currentTerm'[s] > currentTerm[s]
     \/ state[s] = "Candidate" /\ currentTerm'[s] = currentTerm[s] /\ log'[s] = log[s]

\* Requests, replies and votes stay sound while history grows.
LEMMA RequestsKept ==
  ASSUME LogTypes, LogTypes', HistoryGrows, TypeOK, NEW m \in msgs,
         m.type = "AppendEntries", RequestSound(m)
  PROVE  RequestSound(m)'
  <1> DEFINE k == leaderLog[m.term]
  <1>1. /\ m.term \in Term /\ m.prevIndex \in Nat /\ m.entries \in Seq(Entry)
        /\ m.commit \in Nat
    BY DEF TypeOK, Message
  <1>2. k \in Seq(Entry) /\ Len(k) \in Nat /\ leaderLog'[m.term] \in Seq(Entry)
    BY <1>1 DEF LogTypes, HistoryTypeOK
  <1>3. Agree(k, leaderLog'[m.term], Len(k))
    BY <1>1 DEF HistoryGrows
  <1>4. \A i \in 1 .. Len(k) : leaderLog'[m.term][i] = k[i]
    BY <1>3 DEF Agree
  <1>5. Len(k) <= Len(leaderLog'[m.term]) /\ Len(leaderLog'[m.term]) \in Nat
    BY <1>2, <1>3 DEF Agree
  <1>6. m.prevIndex + Len(m.entries) <= Len(k) /\ Len(m.entries) \in Nat
    BY <1>1 DEF RequestSound
  <1>7. m.prevIndex + Len(m.entries) <= Len(leaderLog'[m.term])
    BY <1>1, <1>2, <1>5, <1>6
  <1>8. m.prevTerm = TermAt(leaderLog'[m.term], m.prevIndex)
    <2>1. m.prevIndex \in 0 .. Len(k)
      BY <1>1, <1>2, <1>6
    <2>2. DOMAIN k = 1 .. Len(k) /\ DOMAIN leaderLog'[m.term] = 1 .. Len(leaderLog'[m.term])
      BY <1>2
    <2>3. TermAt(leaderLog'[m.term], m.prevIndex) = TermAt(k, m.prevIndex)
      BY <1>2, <1>4, <1>5, <2>1, <2>2 DEF TermAt
    <2> QED BY <2>3 DEF RequestSound
  <1>9. \A i \in DOMAIN m.entries : m.entries[i] = leaderLog'[m.term][m.prevIndex + i]
    <2> SUFFICES ASSUME NEW i \in DOMAIN m.entries
                 PROVE  m.entries[i] = leaderLog'[m.term][m.prevIndex + i]
      OBVIOUS
    <2>1. m.prevIndex + i \in 1 .. Len(k)
      BY <1>1, <1>2, <1>6
    <2>2. m.entries[i] = k[m.prevIndex + i]
      BY DEF RequestSound
    <2> QED BY <1>4, <2>1, <2>2
  <1>10. CommittedIn(leaderLog[m.term], m.commit, m.term)'
    <2>1. CommittedIn(k, m.commit, m.term) /\ m.commit <= Len(k)
      BY <1>1, <1>2, <1>6 DEF RequestSound
    <2>2. \/ m.commit = 0
          \/ \E t \in Term, n \in Nat \ {0} :
                t <= m.term /\ m.commit <= n /\ Chosen(n, t)' /\ Agree(k, leaderLog'[t], m.commit)
      <3>1. m.term <= m.term
        BY <1>1 DEF Term
      <3> QED BY <1>1, <1>2, <2>1, <3>1, CommittedGrows
    <2>3. CASE m.commit = 0
      BY <2>3 DEF CommittedIn
    <2>4. CASE m.commit # 0
      <3>1. PICK t \in Term, n \in Nat \ {0} :
               t <= m.term /\ m.commit <= n /\ Chosen(n, t)' /\ Agree(k, leaderLog'[t], m.commit)
        BY <2>2, <2>4
      <3>2. Agree(leaderLog'[m.term], k, m.commit)
        BY <1>1, <1>2, <1>3, <2>1, AgreeParts
      <3>t. leaderLog'[t] \in Seq(Entry)
        BY DEF LogTypes, HistoryTypeOK
      <3>3. Agree(leaderLog'[m.term], leaderLog'[t], m.commit)
        <4>1. m.commit <= m.commit
          BY <1>1
        <4> QED BY <1>1, <1>2, <3>1, <3>2, <3>t, <4>1, AgreeParts
      <3> QED BY <3>1, <3>3 DEF CommittedIn
    <2> QED BY <2>3, <2>4
  <1>11. m.commit <= m.prevIndex + Len(m.entries) /\ Led(m.term)'
    BY <1>1, LeaderLogsGrow DEF RequestSound
  <1> QED BY <1>7, <1>8, <1>9, <1>10, <1>11 DEF RequestSound

\* Replies.
LEMMA RepliesKept ==
  ASSUME LogTypes, LogTypes', HistoryGrows, TypeOK, NEW m \in msgs,
         m.type = "AppendEntriesReply", ReplySound(m)
  PROVE  ReplySound(m)'
  <1> SUFFICES ASSUME m.term <= m.asked
               PROVE  /\ Led(m.asked)'
                      /\ m.success => m.last <= acked'[m.from][m.asked]
                      /\ ~m.success /\ m.conflictTerm # -1 =>
                            /\ m.conflictTerm # m.asked
                            /\ LastTerm(leaderLog'[m.asked]) # m.conflictTerm
    BY DEF ReplySound
  <1> DEFINE k == leaderLog[m.asked]
             h == leaderLog'[m.asked]
  <1>1. m.asked \in Term /\ m.from \in Server /\ m.last \in Nat
    BY DEF TypeOK, Message
  <1>2. Led(m.asked)
    BY DEF ReplySound
  <1>3. Led(m.asked)'
    BY <1>1, <1>2, LeaderLogsGrow
  <1>4. m.success => m.last <= acked'[m.from][m.asked]
    <2>1. acked[m.from][m.asked] <= acked'[m.from][m.asked]
      BY <1>1 DEF HistoryGrows
    <2>2. acked[m.from][m.asked] \in Nat /\ acked'[m.from][m.asked] \in Nat
      BY <1>1, TypesAt, TypesAtNext
    <2> QED BY <1>1, <2>1, <2>2 DEF ReplySound
  <1>5. ASSUME ~m.success, m.conflictTerm # -1
        PROVE  m.conflictTerm # m.asked /\ LastTerm(h) # m.conflictTerm
    <2>1. m.conflictTerm # m.asked /\ LastTerm(k) # m.conflictTerm
      BY <1>5 DEF ReplySound
    <2>2. k \in Seq(Entry) /\ h \in Seq(Entry) /\ Len(k) \in Nat /\ Len(h) \in Nat
      BY <1>1, TypesAt, TypesAtNext
    <2>3. Agree(k, h, Len(k)) /\ Len(k) <= Len(h)
      BY <1>1 DEF HistoryGrows, Agree
    <2> SUFFICES ASSUME LastTerm(h) = m.conflictTerm
                 PROVE  FALSE
      BY <2>1
    <2>4. Len(h) \in DOMAIN h /\ LastTerm(h) = h[Len(h)].term
      BY <1>5, <2>2 DEF LastTerm, TermAt
    <2>5. Len(h) \in Nat \ {0} /\ h[Len(h)] \in Entry
      BY <2>2, <2>4
    <2>6. LastTerm(h) \in Term \ {m.asked}
      BY <2>1, <2>4, <2>5 DEF Entry
    <2>7. HasEntry(h, Len(h), LastTerm(h))
      BY <2>2, <2>4 DEF HasEntry, TermAt
    <2>8. HasEntry(k, Len(h), LastTerm(h))
      BY <1>1, <1>2, <2>5, <2>6, <2>7 DEF HistoryGrows
    <2>9. Len(h) = Len(k) /\ TermAt(k, Len(k)) = LastTerm(h)
      BY <2>2, <2>3, <2>8 DEF HasEntry
    <2> QED BY <2>1, <2>9 DEF LastTerm
  <1> QED BY <1>3, <1>4, <1>5

\* Requests for votes.
LEMMA VoteRequestsKept ==
  ASSUME LogTypes, LogTypes', HistoryGrows, TypeOK, CandidatesSettled, NEW m \in msgs,
         m.type = "RequestVote", VoteRequestSound(m)
  PROVE  VoteRequestSound(m)'
  <1>1. m.from \in Server /\ m.term \in Term
    BY DEF TypeOK, Message
  <1>2. /\ currentTerm[m.from] \in Int /\ currentTerm'[m.from] \in Int /\ m.term \in Int
        /\ currentTerm[m.from] <= currentTerm'[m.from]
    BY <1>1, TypesAt, TypesAtNext DEF HistoryGrows
  <1>3. m.term <= currentTerm'[m.from]
    BY <1>2 DEF VoteRequestSound
  <1>4. ASSUME state'[m.from] = "Candidate", currentTerm'[m.from] = m.term
        PROVE  m.lastIndex = Len(log'[m.from]) /\ m.lastTerm = LastTerm(log'[m.from])
    <2>1. state[m.from] = "Candidate" /\ currentTerm[m.from] = m.term /\ log'[m.from] = log[m.from]
      BY <1>1, <1>2, <1>4 DEF CandidatesSettled, VoteRequestSound
    <2> QED BY <2>1 DEF VoteRequestSound
  <1> QED BY <1>3, <1>4 DEF VoteRequestSound

\* Votes.
LEMMA BallotsKept ==
  ASSUME LogTypes, LogTypes', HistoryGrows, TypeOK, ElectionInv, AckedHeld, CandidatesSettled,
         NEW b \in ballots, BallotSound(b)
  PROVE  BallotSound(b)'
  <1>1. b.cand \in Server /\ b.voter \in Server /\ b.term \in Term
    BY DEF TypeOK
  <1>2. /\ currentTerm[b.cand] \in Int /\ currentTerm'[b.cand] \in Int /\ b.term \in Int
        /\ currentTerm[b.cand] <= currentTerm'[b.cand] /\ currentTerm[b.voter] \in Int
    BY <1>1, TypesAt, TypesAtNext DEF HistoryGrows
  <1>3. b.term <= currentTerm'[b.cand]
    BY <1>2 DEF BallotSound
  <1>4. ASSUME state'[b.cand] = "Candidate", currentTerm'[b.cand] = b.term,
               NEW t \in Term, t < b.term, NEW n \in 1 .. acked'[b.voter][t],
               HasEntry(leaderLog'[t], n, t)
        PROVE  HasEntry(log'[b.cand], n, t) \/ Lost(n, t, b.term)'
    <2>1. state[b.cand] = "Candidate" /\ currentTerm[b.cand] = b.term /\ log'[b.cand] = log[b.cand]
      BY <1>1, <1>2, <1>4 DEF CandidatesSettled, BallotSound
    <2>2. t \in Int /\ acked[b.voter][t] \in Nat /\ acked'[b.voter][t] \in Nat
      BY <1>1, TypesAt, TypesAtNext
    <2>3. acked'[b.voter][t] = acked[b.voter][t]
      <3>1. b.term <= currentTerm[b.voter]
        BY DEF ElectionInv, VotesRemembered
      <3> QED BY <1>1, <1>2, <1>4, <2>2, <3>1 DEF HistoryGrows
    <2>4. n \in 1 .. acked[b.voter][t] /\ n \in Nat \ {0}
      BY <2>2, <2>3
    <2>5. HasEntry(leaderLog[t], n, t)
      <3>1. n <= Len(leaderLog[t])
        BY <1>1, <2>2, <2>4, TypesAt DEF AckedHeld
      <3>2. Agree(leaderLog'[t], leaderLog[t], Len(leaderLog[t]))
        BY <1>1, TypesAt, TypesAtNext, AgreeParts DEF HistoryGrows
      <3> QED BY <1>1, <1>4, <2>4, <3>1, <3>2, TypesAt, TypesAtNext, AgreeHas
    <2>6. CASE HasEntry(log[b.cand], n, t)
      BY <2>1, <2>6
    <2>7. CASE Lost(n, t, b.term)
      <3>1. b.term <= b.term
        BY <1>2
      <3>2. \E v \in Term : t < v /\ v <= b.term /\ Led(v)' /\ ~HasEntry(leaderLog'[v], n, t)
        BY <1>1, <2>4, <2>7, <3>1, LostKept
      <3> QED BY <3>2 DEF Lost
    <2> QED BY <1>4, <2>1, <2>4, <2>5, <2>6, <2>7 DEF BallotSound
  <1> QED BY <1>3, <1>4 DEF BallotSound

\* So a step has to vouch only for the messages and votes it adds.
LEMMA OldKept ==
  ASSUME LogTypes, LogTypes', HistoryGrows, TypeOK, ElectionInv, AckedHeld, CandidatesSettled,
         VotersOutdone, MessagesSound,
         \A m \in msgs' \ msgs : /\ m.type = "AppendEntries" => RequestSound(m)'
                                 /\ m.type = "AppendEntriesReply" => ReplySound(m)'
                                 /\ m.type = "RequestVote" => VoteRequestSound(m)',
         \A b \in ballots' \ ballots : BallotSound(b)'
  PROVE  VotersOutdone' /\ MessagesSound'
  <1>1. \A b \in ballots : BallotSound(b)'
    BY BallotsKept DEF VotersOutdone
  <1>2. \A m \in msgs : /\ m.type = "AppendEntries" => RequestSound(m)'
                        /\ m.type = "AppendEntriesReply" => ReplySound(m)'
                        /\ m.type = "RequestVote" => VoteRequestSound(m)'
    BY RequestsKept, RepliesKept, VoteRequestsKept DEF MessagesSound
  <1> QED BY <1>1, <1>2 DEF VotersOutdone, MessagesSound

-----------------------------------------------------------------------------
(* Servers. *)

\* What a server has committed remains so in its term or a later one.
LEMMA CommitsKept ==
  ASSUME LogTypes, LogTypes', HistoryGrows, NEW s \in Server, commitIndex[s] \in Nat,
         CommittedIn(log[s], commitIndex[s], currentTerm[s]),
         log'[s] = log[s], commitIndex'[s] \in {0, commitIndex[s]}
  PROVE  CommittedIn(log[s], commitIndex[s], currentTerm[s])'
  <1>1. CASE commitIndex'[s] = 0
    BY <1>1 DEF CommittedIn
  <1>2. CASE commitIndex'[s] = commitIndex[s]
    <2>1. /\ currentTerm[s] \in Term /\ currentTerm'[s] \in Term
          /\ currentTerm[s] <= currentTerm'[s] /\ log[s] \in Seq(Entry)
      BY DEF HistoryGrows, LogTypes
    <2>2. \/ commitIndex[s] = 0
          \/ \E t \in Term, n \in Nat \ {0} :
                t <= currentTerm'[s] /\ commitIndex[s] <= n /\ Chosen(n, t)'
                /\ Agree(log[s], leaderLog'[t], commitIndex[s])
      BY <2>1, CommittedGrows
    <2> QED BY <1>2, <2>2 DEF CommittedIn
  <1> QED BY <1>1, <1>2

\* A server that follows, with the log it had.
LEMMA FollowerSound ==
  ASSUME LogTypes, LogTypes', HistoryGrows, TypeOK, NEW s \in Server, ServerSound(s),
         state'[s] = "Follower", log'[s] = log[s], disk'[s].log = log[s],
         commitIndex'[s] \in {0, commitIndex[s]}
  PROVE  ServerSound(s)'
  <1>1. commitIndex[s] \in Nat
    BY DEF TypeOK
  <1>2. CommittedIn(log[s], commitIndex[s], currentTerm[s])'
    BY <1>1, CommitsKept DEF ServerSound
  <1> QED BY <1>2 DEF ServerSound

\* A server to which nothing happens, whose term's log is left alone and which wins nothing.
LEMMA BystanderSound ==
  ASSUME LogTypes, LogTypes', HistoryGrows, TypeInv, CoreInv, CoreInv', NEW s \in Server,
         ServerSound(s),
         currentTerm'[s] = currentTerm[s], state'[s] = state[s], log'[s] = log[s],
         disk'[s].log = disk[s].log, commitIndex'[s] = commitIndex[s],
         nextIndex'[s] = nextIndex[s], matchIndex'[s] = matchIndex[s],
         state[s] = "Leader" => leaderLog'[currentTerm[s]] = leaderLog[currentTerm[s]],
         \A e \in elected' \ elected : e.server # s
  PROVE  ServerSound(s)'
  <1> DEFINE T == currentTerm[s]
  <1>1. commitIndex[s] \in Nat /\ T \in Term /\ log[s] \in Seq(Entry) /\ Len(log[s]) \in Nat
    BY TypesAt DEF TypeInv, TypeOK
  <1>2. CommittedIn(log[s], commitIndex[s], currentTerm[s])'
    BY <1>1, CommitsKept DEF ServerSound
  <1>3. ASSUME state[s] = "Leader"
        PROVE  LeaderSound(s)'
    <2>1. LeaderSound(s) /\ leaderLog'[T] = leaderLog[T]
      BY <1>3 DEF ServerSound
    <2>2. log'[s] = leaderLog'[T]
      BY <2>1 DEF LeaderSound
    <2>3. acked'[s][T] = Len(log'[s])
      <3>1. acked[s][T] <= acked'[s][T] /\ acked[s][T] = Len(log[s])
        BY <1>1, <2>1 DEF HistoryGrows, LeaderSound
      <3>2. acked'[s][T] <= Len(leaderLog'[T])
        BY <1>1 DEF CoreInv, AckedHeld
      <3>3. acked'[s][T] \in Nat
        BY <1>1, TypesAtNext
      <3>4. Len(leaderLog'[T]) = Len(log[s]) /\ Len(log'[s]) = Len(log[s])
        BY <2>2
      <3>5. acked'[s][T] <= Len(log[s]) /\ Len(log[s]) <= acked'[s][T] /\ Len(log[s]) \in Nat
        BY <1>1, <3>1, <3>2, <3>4, Zenon
      <3>6. acked'[s][T] = Len(log[s])
        BY <3>3, <3>5
      <3> QED BY <3>4, <3>6
    <2>4. ASSUME NEW p \in Server
          PROVE  /\ matchIndex[s][p] <= acked'[p][T]
                 /\ nextIndex[s][p] \in 1 .. Len(log[s]) + 1
      <3>1. matchIndex[s][p] <= acked[p][T] /\ nextIndex[s][p] \in 1 .. Len(log[s]) + 1
        BY <2>1 DEF LeaderSound
      <3>2. acked[p][T] <= acked'[p][T]
        BY <1>1 DEF HistoryGrows
      <3>3. acked[p][T] \in Nat /\ acked'[p][T] \in Nat
        BY <1>1, TypesAt, TypesAtNext
      <3>4. matchIndex[s][p] \in Int
        <4>1. matchIndex[s] \in [Server -> Nat]
          BY <1>3 DEF TypeInv, LeaderReady
        <4> QED BY <4>1
      <3> QED BY <3>1, <3>2, <3>3, <3>4
    <2>5. \E e \in elected' : e.server = s /\ e.office = T
      BY <2>1 DEF LeaderSound, HistoryGrows
    <2> QED BY <2>2, <2>3, <2>4, <2>5 DEF LeaderSound
  <1>4. ASSUME state[s] = "Candidate"
        PROVE  \A e \in elected' : ~(e.server = s /\ e.office = T)
    BY <1>4 DEF ServerSound
  <1> QED BY <1>2, <1>3, <1>4 DEF ServerSound

\* What a step of server s has to vouch for: itself, and what it adds.
LEMMA StepKeeps ==
  ASSUME TypeInv, TypeInv', HistoryTypeOK', ElectionInv, LogInv,
         HistoryGrows, CoreInv', NobodyInGap',
         \A m \in msgs' \ msgs : /\ m.type = "AppendEntries" => RequestSound(m)'
                                 /\ m.type = "AppendEntriesReply" => ReplySound(m)'
                                 /\ m.type = "RequestVote" => VoteRequestSound(m)',
         \A b \in ballots' \ ballots : BallotSound(b)',
         NEW s \in Server, ServerSound(s)',
         \/ currentTerm'[s] > currentTerm[s]
         \/ state'[s] # "Candidate"
         \/ state[s] = "Candidate" /\ currentTerm'[s] = currentTerm[s] /\ log'[s] = log[s],
         \A e \in elected' \ elected : e.server = s /\ e.office <= currentTerm'[s],
         \A q \in Server \ {s} :
            /\ currentTerm'[q] = currentTerm[q] /\ state'[q] = state[q] /\ log'[q] = log[q]
            /\ disk'[q] = disk[q] /\ commitIndex'[q] = commitIndex[q]
            /\ nextIndex'[q] = nextIndex[q] /\ matchIndex'[q] = matchIndex[q]
            /\ state[q] = "Leader" => leaderLog'[currentTerm[q]] = leaderLog[currentTerm[q]]
  PROVE  LogInv'
  <1>1. TypeOK /\ LogTypes /\ LogTypes'
    BY DEF TypeInv, TypeOK, LogInv, LogTypes
  <1>2. CandidatesSettled
    BY DEF CandidatesSettled
  <1>3. VotersOutdone' /\ MessagesSound'
    BY <1>1, <1>2, OldKept DEF LogInv, CoreInv
  <1>4. Offices'
    <2> SUFFICES ASSUME NEW e \in elected'
                 PROVE  e.office <= currentTerm'[e.server]
      BY DEF Offices
    <2>1. CASE e \in elected
      <3>1. e.server \in Server /\ e.office \in Int /\ e.office <= currentTerm[e.server]
        BY <1>1, <2>1 DEF TypeOK, Term, LogInv, Offices
      <3>2. currentTerm[e.server] \in Int /\ currentTerm'[e.server] \in Int
        BY <1>1, <3>1 DEF LogTypes, Term
      <3> QED BY <3>1, <3>2 DEF HistoryGrows
    <2>2. CASE e \notin elected
      BY <2>2
    <2> QED BY <2>1, <2>2
  <1>5. ServersSound'
    <2> SUFFICES ASSUME NEW q \in Server \ {s}
                 PROVE  ServerSound(q)'
      BY DEF ServersSound
    <2>1. ServerSound(q) /\ CoreInv
      BY DEF LogInv, ServersSound
    <2>2. \A e \in elected' \ elected : e.server # q
      OBVIOUS
    <2> QED BY <1>1, <2>1, <2>2, BystanderSound
  <1> QED BY <1>3, <1>4, <1>5 DEF LogInv

-----------------------------------------------------------------------------
(* Elections. *)

\* The types of LogTypes, and nobody in a gap, before and after a step that leaves leaderLog
\* and acked alone.
LEMMA LogTypesHold ==
  ASSUME TypeInv, TypeInv', LogInv, HistoryTypeOK'
  PROVE  LogTypes /\ LogTypes' /\ TypeOK /\ CoreInv
  BY DEF TypeInv, TypeOK, LogInv, LogTypes

\* A request for votes describes the log of its candidate.
LEMMA NewVoteRequests ==
  ASSUME NEW s \in Server, UNCHANGED log, currentTerm'[s] \in Nat
  PROVE  \A m \in VoteRequests(s, currentTerm'[s]) : m.type = "RequestVote" /\ VoteRequestSound(m)'
  <1> SUFFICES ASSUME NEW m \in VoteRequests(s, currentTerm'[s])
               PROVE  m.type = "RequestVote" /\ VoteRequestSound(m)'
    OBVIOUS
  <1>1. /\ m.type = "RequestVote" /\ m.from = s /\ m.term = currentTerm'[s]
        /\ m.lastIndex = Len(log[s]) /\ m.lastTerm = LastTerm(log[s])
    BY DEF VoteRequests
  <1>2. currentTerm'[s] <= currentTerm'[s]
    OBVIOUS
  <1> QED BY <1>1, <1>2 DEF VoteRequestSound

\* A campaign begins.
LEMMA CampaignLog ==
  ASSUME TypeInv, TypeInv', ElectionInv, LogInv, NEW s \in Server, Convert2Candidate(s),
         msgs' \subseteq msgs \cup VoteRequests(s, currentTerm'[s]),
         UNCHANGED <<commitIndex, nextIndex, matchIndex, beats, starts, elected, leaderLog, acked>>
  PROVE  LogInv'
  <1> DEFINE T == currentTerm[s]
  <1>0. LogTypes /\ LogTypes' /\ TypeOK /\ CoreInv /\ HistoryTypeOK'
    BY LogTypesHold DEF LogInv, HistoryTypeOK
  <1>1. /\ currentTerm'[s] = T + 1 /\ T \in Int /\ T + 1 \in Term
        /\ \A q \in Server \ {s} : currentTerm'[q] = currentTerm[q] /\ state'[q] = state[q]
                                   /\ disk'[q] = disk[q]
        /\ log' = log /\ state'[s] = "Candidate" /\ disk'[s].log = log[s]
        /\ ballots' = ballots \cup {Ballot(s, T + 1, s)}
    <2>0. currentTerm' \in [Server -> Term] /\ currentTerm'[s] = T + 1
      BY <1>0, CandidateTypes
    <2>1. T \in Term /\ T + 1 \in Term /\ currentTerm'[s] = T + 1
      <3>1. T \in Term
        BY <1>0 DEF TypeOK
      <3>2. currentTerm'[s] \in Term
        BY <2>0
      <3> QED BY <2>0, <3>1, <3>2
    <2>2. T \in Int
      BY <2>1 DEF Term
    <2>3. /\ \A q \in Server \ {s} : currentTerm'[q] = currentTerm[q] /\ state'[q] = state[q]
          /\ log' = log /\ state'[s] = "Candidate"
          /\ ballots' = ballots \cup {Ballot(s, T + 1, s)}
      BY <1>0 DEF Convert2Candidate, TypeOK, Ballot
    <2>4. disk'[s].log = log[s] /\ \A q \in Server \ {s} : disk'[q] = disk[q]
      BY <1>0 DEF Convert2Candidate, persist, TypeOK
    <2> QED BY <2>1, <2>2, <2>3, <2>4
  <1>2. \A q \in Server : currentTerm[q] <= currentTerm'[q]
    BY <1>0, <1>1, TypesAt
  <1>3. HistoryGrows /\ CoreInv'
    BY <1>0, <1>1, <1>2, QuietCore
  <1>4. \A m \in msgs' \ msgs : m.type = "RequestVote" /\ VoteRequestSound(m)'
    BY <1>1, NewVoteRequests DEF Term
  <1>5. \A b \in ballots' \ ballots : BallotSound(b)'
    <2> SUFFICES ASSUME NEW b \in ballots' \ ballots
                 PROVE  BallotSound(b)'
      OBVIOUS
    <2>1. b.voter = s /\ b.term = T + 1 /\ b.cand = s
      BY <1>1 DEF Ballot
    <2>2. ASSUME NEW t \in Term, t < T + 1, NEW n \in 1 .. acked[s][t], HasEntry(leaderLog[t], n, t)
          PROVE  HasEntry(log[s], n, t) \/ \E v \in Term : t < v /\ v <= T + 1 /\ Led(v)
                                                       /\ ~HasEntry(leaderLog[v], n, t)
      <3>1. HasEntry(log[s], n, t) \/ Lost(n, t, T)
        BY <1>0, <2>2 DEF CoreInv, AckedKept
      <3>2. \A v \in Term : v <= T => v <= T + 1
        BY <1>1 DEF Term
      <3> QED BY <3>1, <3>2 DEF Lost
    <2>3. T + 1 <= T + 1
      BY <1>1
    <2> QED BY <1>1, <2>1, <2>2, <2>3 DEF BallotSound, Lost, Led
  <1>6. ServerSound(s)'
    <2>1. ServerSound(s) /\ commitIndex[s] \in Nat
      BY <1>0 DEF LogInv, ServersSound, TypeOK
    <2>2. CommittedIn(log[s], commitIndex[s], currentTerm[s])'
      BY <1>0, <1>1, <1>3, <2>1, CommitsKept DEF ServerSound
    <2>3. \A e \in elected : ~(e.server = s /\ e.office = T + 1)
      <3>1. \A e \in elected : e.office \in Int /\ (e.server = s => e.office <= T)
        BY <1>0 DEF LogInv, Offices, TypeOK, Term
      <3> QED BY <1>1, <3>1
    <2> QED BY <1>1, <2>2, <2>3 DEF ServerSound
  <1>7. NobodyInGap'
    BY DEF LogInv, NobodyInGap
  <1>8. currentTerm'[s] > currentTerm[s]
    BY <1>1
  <1> QED BY <1>0, <1>1, <1>3, <1>4, <1>5, <1>6, <1>7, <1>8, StepKeeps

\* RunForElection's section after the gap.
LEMMA ResumeElectionLog ==
  ASSUME TypeInv, TypeInv', ElectionInv, LogInv, NEW r \in runs, ResumeElection(r)
  PROVE  LogInv'
  <1> DEFINE s == r.cand
  <1>0. LogTypes /\ LogTypes' /\ TypeOK /\ CoreInv /\ HistoryTypeOK' /\ s \in Server
    BY LogTypesHold DEF LogInv, HistoryTypeOK, ResumeElection, history, TypeInv, TypeOK, Run
  <1>1. /\ UNCHANGED <<currentTerm, log, disk, state, commitIndex, nextIndex, matchIndex, beats, starts,
                       ballots, elected, leaderLog, acked>>
        /\ msgs' \subseteq msgs \cup VoteRequests(s, currentTerm'[s])
    BY DEF ResumeElection, history, leaderVars
  <1>2. \A q \in Server : currentTerm[q] <= currentTerm'[q]
    BY <1>0, <1>1 DEF LogTypes, Term
  <1>3. HistoryGrows /\ CoreInv'
    BY <1>0, <1>1, <1>2, QuietCore
  <1>4. \A m \in msgs' \ msgs : m.type = "RequestVote" /\ VoteRequestSound(m)'
    <2>1. currentTerm'[s] \in Nat
      BY <1>0 DEF LogTypes, Term
    <2> QED BY <1>0, <1>1, <2>1, NewVoteRequests
  <1>5. ServerSound(s)'
    <2>1. ServerSound(s) /\ \A e \in elected' \ elected : e.server # s
      BY <1>0, <1>1 DEF LogInv, ServersSound
    <2> QED BY <1>0, <1>1, <1>3, <2>1, BystanderSound
  <1>6. NobodyInGap'
    BY <1>1 DEF LogInv, NobodyInGap
  <1> QED BY <1>0, <1>1, <1>3, <1>4, <1>5, <1>6, StepKeeps

\* RequestVote: whoever gets the vote holds what the voter has acknowledged.
LEMMA RequestVoteLog ==
  ASSUME TypeInv, TypeInv', ElectionInv, LogInv, NEW m \in msgs, RequestVote(m)
  PROVE  LogInv'
  <1> DEFINE s == m.to
             c == m.from
             granted == /\ m.term >= currentTerm[s]
                        /\ UpToDate(m.lastTerm, m.lastIndex, log[s])
                        /\ ballots' = ballots \cup {Ballot(s, m.term, c)}
  <1>0. LogTypes /\ LogTypes' /\ TypeOK /\ CoreInv /\ HistoryTypeOK'
    BY LogTypesHold DEF LogInv, HistoryTypeOK, RequestVote
  <1>1. /\ s \in Server /\ c \in Server /\ m.term \in Term
        /\ m.term \in Int /\ currentTerm[s] \in Int
    <2>1. s \in Server /\ c \in Server /\ m.term \in Term
      BY <1>0 DEF RequestVote, TypeOK, Message
    <2> QED BY <2>1, <1>0 DEF TypeOK, Term
  <1>2. /\ currentTerm' = [currentTerm EXCEPT ![s] = Max(m.term, currentTerm[s])]
        /\ state' = [state EXCEPT ![s] = IF m.term > currentTerm[s] THEN "Follower" ELSE state[s]]
        /\ persist(s) \/ UNCHANGED disk
        /\ UNCHANGED <<log, commitIndex, nextIndex, matchIndex, beats, starts, elected,
                       leaderLog, acked>>
        /\ granted \/ ballots' = ballots
        /\ \A x \in msgs' \ msgs : x.type = "RequestVoteReply"
    <2>1. /\ currentTerm' = [currentTerm EXCEPT ![s] = Max(m.term, currentTerm[s])]
          /\ state' = [state EXCEPT ![s] = IF m.term > currentTerm[s] THEN "Follower" ELSE state[s]]
          /\ persist(s) \/ UNCHANGED disk
          /\ UNCHANGED <<log, commitIndex, nextIndex, matchIndex, beats, starts, elected,
                         leaderLog, acked>>
      BY DEF RequestVote, leaderVars
    <2>2. granted \/ ballots' = ballots
      BY DEF RequestVote, Ballot
    <2>3. \A x \in msgs' \ msgs : x.type = "RequestVoteReply"
      BY DEF RequestVote
    <2> QED BY <2>1, <2>2, <2>3
  <1>3. /\ currentTerm'[s] >= currentTerm[s] /\ currentTerm'[s] >= m.term
        /\ currentTerm'[s] = currentTerm[s] \/ currentTerm'[s] = m.term
        /\ m.term > currentTerm[s] => state'[s] = "Follower"
        /\ ~(m.term > currentTerm[s]) => state'[s] = state[s] /\ currentTerm'[s] = currentTerm[s]
        /\ disk'[s].log = log[s]
        /\ \A q \in Server \ {s} : currentTerm'[q] = currentTerm[q] /\ state'[q] = state[q]
                                   /\ disk'[q] = disk[q]
    <2>1. disk[s].log = log[s]
      BY <1>1 DEF LogInv, ServersSound, ServerSound
    <2>2. disk'[s].log = log[s] /\ \A q \in Server \ {s} : disk'[q] = disk[q]
      BY <1>0, <1>1, <1>2, <2>1 DEF TypeOK, persist
    <2> QED BY <1>0, <1>1, <1>2, <2>2 DEF TypeOK, Max
  <1>4. \A q \in Server : currentTerm[q] <= currentTerm'[q]
    BY <1>0, <1>1, <1>3, TypesAt
  <1>5. HistoryGrows /\ CoreInv'
    BY <1>0, <1>2, <1>4, QuietCore
  <1>6. ASSUME granted, NEW b \in ballots' \ ballots
        PROVE  BallotSound(b)'
    <2>1. b.voter = s /\ b.term = m.term /\ b.cand = c
      BY <1>6 DEF Ballot
    <2>2. VoteRequestSound(m)
      BY DEF LogInv, MessagesSound, RequestVote
    <2>3. m.term <= currentTerm'[c]
      <3>1. m.term <= currentTerm[c] /\ currentTerm[c] \in Int /\ currentTerm'[c] \in Int
        BY <1>0, <1>1, <2>2, TypesAt, TypesAtNext DEF VoteRequestSound
      <3> QED BY <1>1, <1>4, <3>1
    <2>4. ASSUME state'[c] = "Candidate", currentTerm'[c] = m.term,
                 NEW t \in Term, t < m.term, NEW n \in 1 .. acked[s][t], HasEntry(leaderLog[t], n, t)
          PROVE  HasEntry(log[c], n, t) \/ Lost(n, t, m.term)
      <3>1. state[c] = "Candidate" /\ currentTerm[c] = m.term
        <4>1. CASE c = s
          BY <1>1, <1>3, <1>6, <2>4, <4>1
        <4>2. CASE c # s
          BY <1>1, <1>3, <2>4, <4>2
        <4> QED BY <4>1, <4>2
      <3>2. UpToDate(LastTerm(log[c]), Len(log[c]), log[s])
        BY <1>6, <2>2, <3>1 DEF VoteRequestSound
      <3>3. /\ log[c] \in Seq(Entry) /\ log[s] \in Seq(Entry) /\ n \in Nat \ {0}
            /\ FromLeaders(log[c], leaderLog) /\ FromLeaders(log[s], leaderLog)
        BY <1>0, <1>1, TypesAt DEF CoreInv, ServerLogs
      <3>4. HasEntry(log[s], n, t) \/ Lost(n, t, currentTerm[s])
        BY <1>0, <1>1, <2>4 DEF CoreInv, AckedKept
      <3>5. CASE Lost(n, t, currentTerm[s])
        <4>1. \A v \in Term : v <= currentTerm[s] => v <= m.term
          BY <1>1, <1>6 DEF Term
        <4> QED BY <3>5, <4>1 DEF Lost
      <3>6. CASE HasEntry(log[s], n, t)
        <4>1. HasEntry(log[c], n, t) \/ Lost(n, t, LastTerm(log[c]))
          BY <1>0, <3>2, <3>3, <3>6, NewerHolds DEF LogTypes, CoreInv
        <4>2. \A v \in Term : v <= LastTerm(log[c]) => v <= m.term
          <5>1. LastTerm(log[c]) <= m.term
            <6>1. CASE Len(log[c]) \in DOMAIN log[c]
              <7>1. LastTerm(log[c]) = log[c][Len(log[c])].term
                BY <6>1 DEF LastTerm, TermAt
              <7> QED BY <1>0, <1>1, <3>1, <6>1, <7>1 DEF CoreInv, ServerLogs
            <6>2. CASE Len(log[c]) \notin DOMAIN log[c]
              <7>1. LastTerm(log[c]) = -1
                BY <6>2 DEF LastTerm, TermAt
              <7> QED BY <1>1, <7>1 DEF Term
            <6> QED BY <6>1, <6>2
          <5>2. LastTerm(log[c]) \in Int
            BY <3>3, LastTermType DEF Term
          <5> QED BY <1>1, <5>1, <5>2 DEF Term
        <4> QED BY <4>1, <4>2 DEF Lost
      <3> QED BY <3>4, <3>5, <3>6
    <2> QED BY <1>2, <2>1, <2>3, <2>4 DEF BallotSound, Lost, Led
  <1>7. ServerSound(s)'
    <2>1. ServerSound(s)
      BY <1>1 DEF LogInv, ServersSound
    <2>2. CASE m.term > currentTerm[s]
      BY <1>0, <1>1, <1>2, <1>3, <1>5, <2>1, <2>2, FollowerSound
    <2>3. CASE ~(m.term > currentTerm[s])
      <3>1. disk'[s].log = disk[s].log /\ \A e \in elected' \ elected : e.server # s
        BY <1>2, <1>3, <2>1 DEF ServerSound
      <3> QED BY <1>0, <1>1, <1>2, <1>3, <1>5, <2>1, <2>3, <3>1, BystanderSound
    <2> QED BY <2>2, <2>3
  <1>8. NobodyInGap'
    BY <1>2 DEF LogInv, NobodyInGap
  <1>9. \A b \in ballots' \ ballots : BallotSound(b)'
    BY <1>2, <1>6 DEF granted
  <1>10. \/ currentTerm'[s] > currentTerm[s]
         \/ state'[s] # "Candidate"
         \/ state[s] = "Candidate" /\ currentTerm'[s] = currentTerm[s] /\ log'[s] = log[s]
    BY <1>2, <1>3
  <1> HIDE DEF granted
  <1> QED BY <1>0, <1>1, <1>2, <1>3, <1>5, <1>7, <1>8, <1>9, <1>10, StepKeeps

\* A server that reads a higher term in a reply.
LEMMA StepDownLog ==
  ASSUME TypeInv, TypeInv', ElectionInv, LogInv, NEW s \in Server, NEW term \in Term,
         term > currentTerm[s], StepDown(s, term), msgs' \subseteq msgs,
         UNCHANGED <<commitIndex, nextIndex, matchIndex, beats, starts, ballots, elected,
                     leaderLog, acked>>
  PROVE  LogInv'
  <1>0. LogTypes /\ LogTypes' /\ TypeOK /\ CoreInv /\ HistoryTypeOK'
    BY LogTypesHold DEF LogInv, HistoryTypeOK
  <1>1. /\ currentTerm'[s] = term /\ state'[s] = "Follower"
        /\ \A q \in Server \ {s} : currentTerm'[q] = currentTerm[q] /\ state'[q] = state[q]
        /\ log' = log
    BY <1>0 DEF StepDown, TypeOK
  <1>2. disk'[s].log = log[s] /\ \A q \in Server \ {s} : disk'[q] = disk[q]
    BY <1>0, <1>1 DEF StepDown, persist, TypeOK
  <1>3. \A q \in Server : currentTerm[q] <= currentTerm'[q]
    BY <1>0, <1>1 DEF LogTypes, Term
  <1>4. HistoryGrows /\ CoreInv'
    BY <1>0, <1>1, <1>3, QuietCore
  <1>5. ServerSound(s)'
    <2>1. ServerSound(s)
      BY DEF LogInv, ServersSound
    <2> QED BY <1>0, <1>1, <1>2, <1>4, <2>1, FollowerSound
  <1>6. NobodyInGap'
    BY DEF LogInv, NobodyInGap
  <1> QED BY <1>0, <1>1, <1>2, <1>4, <1>5, <1>6, StepKeeps

\* Two offices of one term are one server's.
LEMMA OfficeUnique ==
  ASSUME ElectionInv, "Convert2Leader" \notin Windows, NEW e \in elected, NEW f \in elected,
         e.office = f.office
  PROVE  e.server = f.server
  BY TallyUnique DEF ElectionInv, OfficeInTerm, OneTallyPerTerm

\* Whoever counts a majority is the first to take office in its term.
LEMMA FirstInOffice ==
  ASSUME TypeOK, ElectionInv, LogInv, "Convert2Leader" \notin Windows, NEW s \in Server,
         state[s] = "Candidate", IsMajority(Voters(s, currentTerm[s]))
  PROVE  ~Led(currentTerm[s])
  <1> SUFFICES ASSUME NEW e \in elected, e.office = currentTerm[s]
               PROVE  FALSE
    BY DEF Led
  <1>1. e.server \in Server /\ IsMajority(Voters(e.server, currentTerm[s]))
    BY DEF TypeOK, ElectionInv, WinnersElected, OfficeInTerm
  <1>2. /\ Voters(e.server, currentTerm[s]) \subseteq Server
        /\ Voters(s, currentTerm[s]) \subseteq Server
    BY DEF Voters
  <1>3. PICK v \in Server : v \in Voters(e.server, currentTerm[s]) \cap Voters(s, currentTerm[s])
    BY <1>1, <1>2, MajoritiesMeet
  <1>4. e.server = s
    BY <1>3 DEF Voters, Ballot, ElectionInv, VoteOnce
  <1> QED BY <1>4 DEF LogInv, ServersSound, ServerSound

\* Convert2Leader.
LEMMA OfficeLog ==
  ASSUME TypeInv, TypeInv', ElectionInv, LogInv, "Convert2Leader" \notin Windows,
         NEW r \in runs, Convert2Leader(r)
  PROVE  LogInv'
  <1> DEFINE s == r.cand
             T == currentTerm[s]
             e == [server |-> s, term |-> r.term, office |-> T]
  <1>1. TypeOK /\ CoreInv /\ s \in Server /\ T \in Term /\ log[s] \in Seq(Entry)
    BY DEF TypeInv, TypeOK, Run, LogInv
  <1>2. /\ state' = [state EXCEPT ![s] = "Leader"]
        /\ nextIndex' = [nextIndex EXCEPT ![s] = [p \in Server |-> Len(log[s]) + 1]]
        /\ matchIndex' = [matchIndex EXCEPT ![s] = [p \in Server |-> 0]]
        /\ elected' = elected \cup {e}
        /\ leaderLog' = [leaderLog EXCEPT ![T] = log[s]]
        /\ acked' = [acked EXCEPT ![s][T] = Len(log[s])]
        /\ UNCHANGED <<currentTerm, log, disk, commitIndex, beats, starts, msgs, ballots>>
    BY DEF Convert2Leader, TakeOffice, RecordLeader, FirstNext
  <1>3. HistoryTypeOK'
    <2>1. leaderLog \in [Term -> Seq(Entry)] /\ acked \in [Server -> [Term -> Nat]]
      BY DEF LogInv, HistoryTypeOK
    <2>2. leaderLog' \in [Term -> Seq(Entry)]
      BY <1>1, <1>2, <2>1
    <2>3. acked' \in [Server -> [Term -> Nat]]
      BY <1>1, <1>2, <2>1
    <2> QED BY <2>2, <2>3 DEF HistoryTypeOK
  <1>4. LogTypes /\ LogTypes'
    BY <1>3, LogTypesHold
  <1>5. state[s] = "Candidate" /\ T = r.term /\ IsMajority(Voters(s, T))
    BY <1>1, CountedVotes DEF Convert2Leader, HasMajority, Campaigning
  <1>6. ~Led(T)
    BY <1>1, <1>5, FirstInOffice
  <1>7. HistoryGrows /\ CoreInv'
    <2>1. e.office = T /\ VotersOutdone
      BY DEF LogInv
    <2> HIDE DEF e
    <2> QED BY <1>1, <1>2, <1>4, <1>5, <1>6, <2>1, OfficeCore
  <1>8. ServerSound(s)'
    <2>1. ServerSound(s) /\ commitIndex[s] \in Nat
      BY <1>1 DEF LogInv, ServersSound, TypeOK
    <2>2. CommittedIn(log[s], commitIndex[s], currentTerm[s])'
      BY <1>1, <1>2, <1>4, <1>7, <2>1, CommitsKept DEF ServerSound
    <2>3. e \in elected' /\ e.server = s /\ e.office = T
      BY <1>2
    <2>4. log'[s] = leaderLog'[T] /\ acked'[s][T] = Len(log'[s])
      BY <1>1, <1>2 DEF LogInv, HistoryTypeOK
    <2>5. ASSUME NEW p \in Server
          PROVE  matchIndex'[s][p] <= acked'[p][T] /\ nextIndex'[s][p] \in 1 .. Len(log'[s]) + 1
      <3>1. matchIndex'[s][p] = 0 /\ nextIndex'[s][p] = Len(log[s]) + 1
        BY <1>1, <1>2 DEF TypeOK
      <3>2. acked'[p][T] \in Nat /\ Len(log[s]) \in Nat /\ log'[s] = log[s]
        BY <1>1, <1>2, <1>4, TypesAtNext
      <3> QED BY <3>1, <3>2
    <2>6. currentTerm'[s] = T /\ state'[s] = "Leader" /\ disk'[s].log = log'[s]
      BY <1>1, <1>2, <2>1 DEF TypeOK, ServerSound
    <2> HIDE DEF e
    <2>7. LeaderSound(s)'
      BY <2>3, <2>4, <2>5, <2>6 DEF LeaderSound
    <2> QED BY <2>2, <2>6, <2>7 DEF ServerSound
  <1>9. \A q \in Server \ {s} :
           /\ currentTerm'[q] = currentTerm[q] /\ state'[q] = state[q] /\ log'[q] = log[q]
           /\ disk'[q] = disk[q] /\ commitIndex'[q] = commitIndex[q]
           /\ nextIndex'[q] = nextIndex[q] /\ matchIndex'[q] = matchIndex[q]
           /\ state[q] = "Leader" => leaderLog'[currentTerm[q]] = leaderLog[currentTerm[q]]
    <2> SUFFICES ASSUME NEW q \in Server \ {s}
                 PROVE  /\ state'[q] = state[q]
                        /\ nextIndex'[q] = nextIndex[q] /\ matchIndex'[q] = matchIndex[q]
                        /\ state[q] = "Leader" =>
                              leaderLog'[currentTerm[q]] = leaderLog[currentTerm[q]]
      BY <1>2
    <2>1. state'[q] = state[q] /\ nextIndex'[q] = nextIndex[q] /\ matchIndex'[q] = matchIndex[q]
      BY <1>1, <1>2 DEF TypeOK
    <2>2. state[q] = "Leader" => Led(currentTerm[q])
      BY DEF LogInv, ServersSound, ServerSound, LeaderSound, Led
    <2>3. leaderLog \in [Term -> Seq(Entry)] /\ currentTerm[q] \in Term
      BY <1>1 DEF LogInv, HistoryTypeOK, TypeOK
    <2> QED BY <1>2, <1>6, <2>1, <2>2, <2>3
  <1>10. \A f \in elected' \ elected : f.server = s /\ f.office <= currentTerm'[s]
    <2>1. T <= T
      BY <1>1 DEF Term
    <2> QED BY <1>2, <2>1
  <1>11. NobodyInGap' /\ state'[s] # "Candidate"
    BY <1>1, <1>2 DEF LogInv, NobodyInGap, TypeOK
  <1> QED BY <1>1, <1>2, <1>3, <1>7, <1>8, <1>9, <1>10, <1>11, StepKeeps

\* A restart: the log comes back from the Persister.
LEMMA CrashLog ==
  ASSUME TypeInv, TypeInv', ElectionInv, LogInv, NEW s \in Server, Crash(s)
  PROVE  LogInv'
  <1>0. LogTypes /\ LogTypes' /\ TypeOK /\ CoreInv /\ HistoryTypeOK'
    BY LogTypesHold DEF LogInv, HistoryTypeOK, Crash, history
  <1>1. ServerSound(s) /\ disk[s].log = log[s] /\ disk[s].term = currentTerm[s]
    BY DEF LogInv, ServersSound, ServerSound, ElectionInv, DiskCurrent
  <1>2. currentTerm' = currentTerm /\ log' = log
    BY <1>0, <1>1 DEF Crash, TypeOK
  <1>3. /\ state'[s] = "Follower" /\ commitIndex'[s] = 0
        /\ \A q \in Server \ {s} :
              /\ state'[q] = state[q] /\ commitIndex'[q] = commitIndex[q]
              /\ nextIndex'[q] = nextIndex[q] /\ matchIndex'[q] = matchIndex[q]
    BY <1>0 DEF Crash, TypeOK
  <1>4. disk'[s].log = log[s] /\ \A q \in Server \ {s} : disk'[q] = disk[q]
    BY <1>0, <1>2 DEF Crash, persist, TypeOK
  <1>5. UNCHANGED <<msgs, ballots, elected, leaderLog, acked>>
    BY DEF Crash, history
  <1>6. \A q \in Server : currentTerm[q] <= currentTerm'[q]
    BY <1>0, <1>2 DEF LogTypes, Term
  <1>7. HistoryGrows /\ CoreInv'
    BY <1>0, <1>2, <1>5, <1>6, QuietCore
  <1>8. ServerSound(s)'
    BY <1>0, <1>1, <1>2, <1>3, <1>4, <1>7, FollowerSound
  <1>9. NobodyInGap'
    BY DEF LogInv, NobodyInGap, Crash
  <1> QED BY <1>0, <1>2, <1>3, <1>4, <1>5, <1>7, <1>8, <1>9, StepKeeps

-----------------------------------------------------------------------------
(* Replication. *)

\* What is committed in one log is committed in another that agrees with it so far.
LEMMA CommitsMove ==
  ASSUME LogTypes, LogTypes', HistoryGrows, NEW l \in Seq(Entry), NEW k \in Seq(Entry),
         NEW c \in Nat, NEW u \in Term, NEW w \in Term, u <= w, CommittedIn(l, c, u), Agree(k, l, c)
  PROVE  \/ c = 0
         \/ \E t \in Term, n \in Nat \ {0} :
               t <= w /\ c <= n /\ Chosen(n, t)' /\ Agree(k, leaderLog'[t], c)
  <1>1. CASE c = 0
    BY <1>1
  <1>2. CASE c # 0
    <2>1. PICK t \in Term, n \in Nat \ {0} :
             t <= w /\ c <= n /\ Chosen(n, t)' /\ Agree(l, leaderLog'[t], c)
      BY <1>2, CommittedGrows
    <2>2. leaderLog'[t] \in Seq(Entry) /\ c <= c
      BY DEF LogTypes, HistoryTypeOK
    <2>3. Agree(k, leaderLog'[t], c)
      BY <2>1, <2>2, AgreeParts
    <2> QED BY <2>1, <2>3
  <1> QED BY <1>1, <1>2

\* What is committed is in the log.
LEMMA CommittedBound ==
  ASSUME NEW l \in Seq(Entry), NEW c \in Nat, NEW u, CommittedIn(l, c, u)
  PROVE  c <= Len(l)
  BY DEF CommittedIn, Agree

\* No two servers lead in one term.
LEMMA OneLeader ==
  ASSUME ElectionInv, LogInv, "Convert2Leader" \notin Windows,
         NEW s \in Server, NEW q \in Server, state[s] = "Leader", state[q] = "Leader",
         currentTerm[s] = currentTerm[q]
  PROVE  s = q
  <1>1. PICK e \in elected : e.server = s /\ e.office = currentTerm[s]
    BY DEF LogInv, ServersSound, ServerSound, LeaderSound
  <1>2. PICK f \in elected : f.server = q /\ f.office = currentTerm[q]
    BY DEF LogInv, ServersSound, ServerSound, LeaderSound
  <1> QED BY <1>1, <1>2, OfficeUnique

\* Start, on a leader.
LEMMA StartLog ==
  ASSUME TypeInv, TypeInv', ElectionInv, LogInv, "Convert2Leader" \notin Windows,
         NEW s \in Server, NEW c \in Command, Start(s, c)
  PROVE  LogInv'
  <1> DEFINE T == currentTerm[s]
             l == log[s]
             e == [term |-> T, cmd |-> c]
             r == Append(l, e)
  <1>1. /\ TypeOK /\ CoreInv /\ T \in Term /\ l \in Seq(Entry) /\ Len(l) \in Nat /\ e \in Entry
        /\ e.term = T
    <2>1. TypeOK /\ CoreInv /\ T \in Term /\ l \in Seq(Entry)
      BY DEF TypeInv, TypeOK, LogInv
    <2> QED BY <2>1 DEF Entry
  <1>2. /\ state[s] = "Leader"
        /\ log' = [log EXCEPT ![s] = r]
        /\ leaderLog' = [leaderLog EXCEPT ![T] = log'[s]]
        /\ acked' = [acked EXCEPT ![s][T] = Len(log'[s])]
        /\ persist(s)
        /\ UNCHANGED <<currentTerm, state, commitIndex, nextIndex, matchIndex, beats, starts, msgs,
                       ballots, elected>>
    BY DEF Start, AppendEntry, RecordLeader, leaderVars
  <1>3. Longer(l, e, r)
    BY <1>1, AppendLonger
  <1> HIDE DEF e, r
  <1>4. log'[s] = r /\ r \in Seq(Entry) /\ Len(r) = Len(l) + 1 /\ Agree(r, l, Len(l))
    <2>1. log'[s] = r
      BY <1>1, <1>2 DEF TypeOK
    <2> QED BY <1>1, <1>3, <2>1 DEF Longer, Agree
  <1>5. HistoryTypeOK'
    <2>1. leaderLog \in [Term -> Seq(Entry)] /\ acked \in [Server -> [Term -> Nat]]
      BY DEF LogInv, HistoryTypeOK
    <2>2. leaderLog' \in [Term -> Seq(Entry)]
      BY <1>1, <1>2, <1>4, <2>1
    <2>3. acked' \in [Server -> [Term -> Nat]]
      BY <1>1, <1>2, <1>4, <2>1
    <2> QED BY <2>2, <2>3 DEF HistoryTypeOK
  <1>6. LogTypes /\ LogTypes'
    BY <1>5, LogTypesHold
  <1>7. ServerSound(s) /\ LeaderSound(s) /\ commitIndex[s] \in Nat
    BY <1>1, <1>2 DEF LogInv, ServersSound, ServerSound, TypeOK
  <1>8. HistoryGrows /\ CoreInv'
    <2>1. Led(T) /\ l = leaderLog[T] /\ acked[s][T] = Len(l)
      BY <1>7 DEF LeaderSound, Led
    <2>2. leaderLog' = [leaderLog EXCEPT ![T] = r] /\ acked' = [acked EXCEPT ![s][T] = Len(r)]
      BY <1>2, <1>4
    <2> QED BY <1>1, <1>2, <1>3, <1>6, <2>1, <2>2, StartCore
  <1>9. ServerSound(s)'
    <2>1. disk'[s].log = log'[s] /\ leaderLog'[T] = r /\ acked'[s][T] = Len(r)
      BY <1>1, <1>2, <1>4 DEF persist, TypeOK, LogInv, HistoryTypeOK
    <2>2. \/ commitIndex[s] = 0
          \/ \E t \in Term, n \in Nat \ {0} :
                t <= T /\ commitIndex[s] <= n /\ Chosen(n, t)' /\ Agree(r, leaderLog'[t], commitIndex[s])
      <3>1. CommittedIn(l, commitIndex[s], T) /\ T <= T
        BY <1>1, <1>7 DEF ServerSound, Term
      <3>2. commitIndex[s] <= Len(l)
        BY <1>1, <1>7, <3>1, CommittedBound
      <3>3. Agree(r, l, commitIndex[s])
        BY <1>1, <1>4, <1>7, <3>2, AgreeParts
      <3> QED BY <1>1, <1>4, <1>6, <1>7, <1>8, <3>1, <3>3, CommitsMove
    <2>3. CommittedIn(log[s], commitIndex[s], currentTerm[s])'
      BY <1>2, <1>4, <2>2 DEF CommittedIn
    <2>4. ASSUME NEW p \in Server
          PROVE  matchIndex[s][p] <= acked'[p][T] /\ nextIndex[s][p] \in 1 .. Len(r) + 1
      <3>1. matchIndex[s][p] <= acked[p][T] /\ nextIndex[s][p] \in 1 .. Len(l) + 1
        BY <1>7 DEF LeaderSound
      <3>2. acked[p][T] <= acked'[p][T] /\ acked[p][T] \in Nat /\ acked'[p][T] \in Nat
        BY <1>1, <1>6, <1>8, TypesAt, TypesAtNext DEF HistoryGrows
      <3>3. matchIndex[s][p] \in Nat
        <4>1. matchIndex[s] \in [Server -> Nat]
          BY <1>2 DEF TypeInv, LeaderReady
        <4> QED BY <4>1
      <3> QED BY <1>1, <1>4, <3>1, <3>2, <3>3, SMTT(120)
    <2>5. \E f \in elected : f.server = s /\ f.office = T
      BY <1>7 DEF LeaderSound
    <2>6. LeaderSound(s)'
      BY <1>2, <1>4, <2>1, <2>4, <2>5 DEF LeaderSound
    <2> QED BY <1>2, <2>1, <2>3, <2>6 DEF ServerSound
  <1>10. \A q \in Server \ {s} :
           /\ log'[q] = log[q] /\ disk'[q] = disk[q]
           /\ state[q] = "Leader" => leaderLog'[currentTerm[q]] = leaderLog[currentTerm[q]]
    <2> SUFFICES ASSUME NEW q \in Server \ {s}
                 PROVE  /\ log'[q] = log[q] /\ disk'[q] = disk[q]
                        /\ state[q] = "Leader" =>
                              leaderLog'[currentTerm[q]] = leaderLog[currentTerm[q]]
      OBVIOUS
    <2>1. log'[q] = log[q] /\ disk'[q] = disk[q]
      BY <1>1, <1>2 DEF TypeOK, persist
    <2>2. state[q] = "Leader" => currentTerm[q] # T
      BY <1>2, OneLeader
    <2>3. leaderLog \in [Term -> Seq(Entry)] /\ currentTerm[q] \in Term
      BY <1>1 DEF LogInv, HistoryTypeOK, TypeOK
    <2> QED BY <1>2, <2>1, <2>2, <2>3
  <1>11. NobodyInGap' /\ state'[s] # "Candidate"
    BY <1>2 DEF LogInv, NobodyInGap
  <1> QED BY <1>1, <1>2, <1>5, <1>8, <1>9, <1>10, <1>11, StepKeeps

\* What LeaderAppendEntries sends is a piece of the leader's log.
LEMMA NewRequests ==
  ASSUME TypeInv, LogInv, HistoryGrows, LogTypes, LogTypes', NEW s \in Server, state[s] = "Leader",
         UNCHANGED <<elected, leaderLog>>,
         NEW m \in AppendRequests(s, currentTerm[s])
  PROVE  m.type = "AppendEntries" /\ RequestSound(m)'
  <1> DEFINE T == currentTerm[s]
             l == log[s]
  <1>1. /\ TypeOK /\ T \in Term /\ l \in Seq(Entry) /\ Len(l) \in Nat
        /\ ServerSound(s) /\ LeaderSound(s) /\ commitIndex[s] \in Nat
    BY SMTT(120) DEF TypeInv, TypeOK, LogInv, ServersSound, ServerSound
  <1>2. PICK p \in Server \ {s} :
           m = [type |-> "AppendEntries", from |-> s, to |-> p, term |-> T,
                prevIndex |-> nextIndex[s][p] - 1,
                prevTerm |-> TermAt(l, nextIndex[s][p] - 1),
                entries |-> SubSeq(l, nextIndex[s][p], Len(l)),
                commit |-> commitIndex[s]]
    BY DEF AppendRequests
  <1> DEFINE N == nextIndex[s][p]
  <1>3. N \in 1 .. Len(l) + 1 /\ l = leaderLog[T]
    BY <1>1 DEF LeaderSound
  <1>4. /\ SubSeq(l, N, Len(l)) \in Seq(Entry)
        /\ Len(SubSeq(l, N, Len(l))) = Len(l) - N + 1
        /\ \A i \in 1 .. Len(l) - N + 1 : SubSeq(l, N, Len(l))[i] = l[N + i - 1]
    <2>1. N \in Int /\ Len(l) \in Int /\ N >= 1 /\ N <= Len(l) + 1
      BY <1>1, <1>3
    <2> QED BY <1>1, <2>1, SubSeqProperties, SMTT(120)
  <1>5. /\ m.type = "AppendEntries" /\ m.from = s /\ m.to = p /\ m.term = T
        /\ m.prevIndex = N - 1 /\ m.prevTerm = TermAt(l, N - 1)
        /\ m.entries = SubSeq(l, N, Len(l)) /\ m.commit = commitIndex[s]
    BY <1>2
  <1>6. m.prevIndex + Len(m.entries) = Len(l)
    <2>1. Len(m.entries) = Len(l) - N + 1 /\ m.prevIndex = N - 1
      BY <1>4, <1>5
    <2>2. N \in Int /\ Len(l) \in Int
      BY <1>1, <1>3
    <2> HIDE DEF N, l
    <2> QED BY <2>1, <2>2
  <1>7. ASSUME NEW i \in DOMAIN m.entries
        PROVE  m.entries[i] = l[m.prevIndex + i]
    <2>1. i \in 1 .. Len(l) - N + 1
      BY <1>4, <1>5
    <2>2. m.prevIndex + i = N + i - 1
      BY <1>1, <1>3, <1>5, <2>1
    <2> QED BY <1>4, <1>5, <2>1, <2>2, SMTT(120)
  <1>8. CommittedIn(l, commitIndex[s], T) /\ commitIndex[s] <= Len(l)
    BY <1>1, CommittedBound DEF ServerSound
  <1>9. \/ m.commit = 0
        \/ \E t \in Term, n \in Nat \ {0} :
              t <= T /\ m.commit <= n /\ Chosen(n, t)' /\ Agree(l, leaderLog'[t], m.commit)
    <2>1. T <= T
      BY <1>1 DEF Term
    <2> QED BY <1>1, <1>5, <1>8, <2>1, CommittedGrows
  <1>10. CommittedIn(leaderLog[m.term], m.commit, m.term)'
    BY <1>3, <1>5, <1>9 DEF CommittedIn
  <1>11. Led(m.term)'
    BY <1>1, <1>5 DEF LeaderSound, Led
  <1>12. Len(l) <= Len(l)
    BY <1>1
  <1> QED BY <1>3, <1>5, <1>6, <1>7, <1>8, <1>10, <1>11, <1>12 DEF RequestSound

\* LeaderAppendEntries.
LEMMA SendLog ==
  ASSUME TypeInv, TypeInv', ElectionInv, LogInv, NEW s \in Server, LeaderAppendEntries(s)
  PROVE  LogInv'
  <1> DEFINE T == currentTerm[s]
  <1>0. LogTypes /\ LogTypes' /\ TypeOK /\ CoreInv /\ HistoryTypeOK'
    BY LogTypesHold DEF LogInv, HistoryTypeOK, LeaderAppendEntries, history
  <1>1. /\ state[s] = "Leader"
        /\ matchIndex' = [matchIndex EXCEPT ![s][s] = Len(log[s])]
        /\ nextIndex' = [nextIndex EXCEPT ![s][s] = Len(log[s]) + 1]
        /\ msgs' = msgs \cup AppendRequests(s, T)
        /\ UNCHANGED <<currentTerm, log, disk, state, commitIndex, beats, starts,
                       ballots, elected, leaderLog, acked>>
    BY DEF LeaderAppendEntries, serverVars, history
  <1>2. \A q \in Server : currentTerm[q] <= currentTerm'[q]
    BY <1>0, <1>1 DEF LogTypes, Term
  <1>3. HistoryGrows /\ CoreInv'
    BY <1>0, <1>1, <1>2, QuietCore
  <1>4. \A m \in msgs' \ msgs : m.type = "AppendEntries" /\ RequestSound(m)'
    BY <1>0, <1>1, <1>3, NewRequests
  <1>5. /\ matchIndex[s] \in [Server -> Nat] /\ nextIndex[s] \in [Server -> Nat \ {0}]
        /\ \A q \in Server \ {s} : nextIndex'[q] = nextIndex[q] /\ matchIndex'[q] = matchIndex[q]
        /\ matchIndex'[s] = [matchIndex[s] EXCEPT ![s] = Len(log[s])]
        /\ nextIndex'[s] = [nextIndex[s] EXCEPT ![s] = Len(log[s]) + 1]
    <2>1. matchIndex[s] \in [Server -> Nat] /\ nextIndex[s] \in [Server -> Nat \ {0}]
      BY <1>1 DEF TypeInv, LeaderReady
    <2> QED BY <1>0, <1>1, <2>1 DEF TypeOK
  <1>6. ServerSound(s)'
    <2>1. ServerSound(s) /\ LeaderSound(s) /\ commitIndex[s] \in Nat
      BY <1>0, <1>1 DEF LogInv, ServersSound, ServerSound, TypeOK
    <2>2. CommittedIn(log[s], commitIndex[s], currentTerm[s])'
      BY <1>0, <1>1, <1>3, <2>1, CommitsKept DEF ServerSound
    <2>3. ASSUME NEW p \in Server
          PROVE  matchIndex'[s][p] <= acked[p][T] /\ nextIndex'[s][p] \in 1 .. Len(log[s]) + 1
      <3>1. /\ matchIndex[s][p] <= acked[p][T] /\ nextIndex[s][p] \in 1 .. Len(log[s]) + 1
            /\ acked[s][T] = Len(log[s])
        BY <2>1 DEF LeaderSound
      <3>2. Len(log[s]) \in Nat
        BY <1>0 DEF LogTypes
      <3>3. CASE p = s
        <4>1. matchIndex'[s][s] = Len(log[s]) /\ nextIndex'[s][s] = Len(log[s]) + 1
          BY <1>5
        <4> QED BY <3>1, <3>2, <3>3, <4>1
      <3>4. CASE p # s
        BY <1>5, <3>1, <3>4
      <3> QED BY <3>3, <3>4
    <2>4. LeaderSound(s)'
      BY <1>1, <2>1, <2>3 DEF LeaderSound
    <2> QED BY <1>1, <2>1, <2>2, <2>4 DEF ServerSound
  <1>7. NobodyInGap'
    BY <1>1 DEF LogInv, NobodyInGap
  <1>8. state'[s] # "Candidate"
    BY <1>1
  <1> QED BY <1>0, <1>1, <1>3, <1>4, <1>5, <1>6, <1>7, <1>8, StepKeeps

\* The leader of a later term holds what is committed.
LEMMA CommittedWithLeader ==
  ASSUME LogTypes, CoreInv, NEW l \in Seq(Entry), NEW c \in Nat, NEW u \in Term, NEW T \in Term,
         u <= T, Led(T), CommittedIn(l, c, u)
  PROVE  Agree(l, leaderLog[T], c)
  <1> DEFINE k == leaderLog[T]
  <1>1. k \in Seq(Entry) /\ leaderLog \in [Term -> Seq(Entry)]
    BY DEF LogTypes, HistoryTypeOK
  <1>2. CASE c = 0
    BY <1>1, <1>2 DEF Agree
  <1>3. CASE c # 0
    <2>1. PICK t \in Term, n \in Nat \ {0} :
             t <= u /\ c <= n /\ Chosen(n, t) /\ Agree(l, leaderLog[t], c)
      BY <1>3 DEF CommittedIn
    <2>2. t <= T /\ t \in Int /\ T \in Int
      BY <2>1 DEF Term
    <2>3. CASE t = T
      BY <2>1, <2>3
    <2>4. CASE t # T
      <3>1. IsMajority(MayStore(n, t))
        <4>1. /\ {q \in Server : n <= acked[q][t]} \subseteq MayStore(n, t)
              /\ MayStore(n, t) \subseteq Server
          BY DEF MayStore
        <4> QED BY <2>1, <4>1, LargerMajority DEF Chosen
      <3>2. HasEntry(k, n, t)
        BY <2>1, <2>2, <2>4, <3>1 DEF CoreInv, LaterLeaders, Chosen
      <3>3. Agree(k, leaderLog[t], n)
        BY <1>1, <3>2, LogOfEntry DEF CoreInv, LeaderLogs
      <3>4. leaderLog[t] \in Seq(Entry) /\ c <= c
        BY <1>1
      <3>5. Agree(k, leaderLog[t], c)
        BY <1>1, <2>1, <3>3, <3>4, AgreeParts
      <3>6. Agree(leaderLog[t], k, c)
        BY <1>1, <3>4, <3>5, AgreeParts
      <3> QED BY <1>1, <2>1, <3>4, <3>6, AgreeParts
    <2> QED BY <2>3, <2>4
  <1> QED BY <1>2, <1>3

\* The term that a follower reports as conflicting is not the last of its leader's log.
LEMMA ConflictSound ==
  ASSUME LogTypes, CoreInv, NEW l \in Seq(Entry), FromLeaders(l, leaderLog), NEW T \in Term,
         NEW prev \in Nat, prev <= Len(leaderLog[T]),
         ~HasEntry(l, prev, TermAt(leaderLog[T], prev)), ConflictTerm(l, prev) # -1
  PROVE  ConflictTerm(l, prev) # T /\ LastTerm(leaderLog[T]) # ConflictTerm(l, prev)
  <1> DEFINE k == leaderLog[T]
             t == ConflictTerm(l, prev)
  <1>1. leaderLog \in [Term -> Seq(Entry)] /\ k \in Seq(Entry) /\ Len(k) \in Nat /\ Len(l) \in Nat
    BY DEF LogTypes, HistoryTypeOK
  <1>2. prev \in DOMAIN l /\ prev <= Len(l) /\ prev \in Nat \ {0} /\ t = l[prev].term
    BY <1>1 DEF ConflictTerm, TermAt
  <1>3. t \in Term
    <2>1. l[prev] \in Entry
      BY <1>2
    <2> QED BY <1>2, <2>1 DEF Entry
  <1>4. HasEntry(l, prev, t) /\ ~HasEntry(k, prev, t)
    BY <1>1, <1>2 DEF HasEntry, TermAt
  <1>5. Agree(l, leaderLog[t], prev) /\ HasEntry(leaderLog[t], prev, t) /\ leaderLog[t] \in Seq(Entry)
    BY <1>1, <1>2, <1>3, <1>4, LogOfEntry
  <1>6. t # T
    BY <1>4, <1>5
  <1>7. ASSUME LastTerm(k) = t
        PROVE  FALSE
    <2>1. HasEntry(k, Len(k), t) /\ Len(k) \in Nat \ {0}
      BY <1>1, <1>2, <1>7 DEF HasEntry, LastTerm
    <2>2. FromLeaders(k, leaderLog)
      BY DEF CoreInv, LeaderLogs
    <2> HIDE DEF k, t
    <2>3. Agree(k, leaderLog[t], Len(k))
      BY <1>1, <1>3, <2>1, <2>2, LogOfEntry
    <2>4. Agree(leaderLog[t], k, Len(k))
      BY <1>1, <1>5, <2>3, AgreeParts
    <2>5. prev <= Len(k)
      BY DEF k
    <2> QED BY <1>1, <1>2, <1>3, <1>4, <1>5, <2>4, <2>5, AgreeHas
  <1> QED BY <1>6, <1>7

\* AppendEntries from a term that is over.
LEMMA RefuseLog ==
  ASSUME TypeInv, TypeInv', ElectionInv, LogInv, NEW m \in msgs, AppendEntries(m),
         m.term < currentTerm[m.to]
  PROVE  LogInv'
  <1> DEFINE s == m.to
             answer == Answer(m, FALSE, 0, 0, 0)
  <1>1. TypeOK /\ s \in Server /\ m.term \in Int /\ currentTerm[s] \in Int /\ m.term \in Term
    <2>1. TypeOK /\ s \in Server /\ m.term \in Term
      BY DEF TypeInv, TypeOK, AppendEntries, Message
    <2>2. currentTerm[s] \in Term
      BY <2>1 DEF TypeOK
    <2> QED BY <2>1, <2>2 DEF Term
  <1>2. /\ msgs' = (msgs \ {m}) \cup {answer}
        /\ UNCHANGED <<currentTerm, log, disk, state, commitIndex, nextIndex, matchIndex,
                       beats, starts, ballots, elected, leaderLog, acked>>
    <2>1. ~(m.term >= currentTerm[s])
      BY <1>1
    <2> QED BY <2>1 DEF AppendEntries, serverVars, leaderVars
  <1>3. LogTypes /\ LogTypes' /\ CoreInv /\ HistoryTypeOK'
    BY <1>2, LogTypesHold DEF LogInv, HistoryTypeOK
  <1>4. \A q \in Server : currentTerm[q] <= currentTerm'[q]
    BY <1>2, <1>3 DEF LogTypes, Term
  <1>5. HistoryGrows /\ CoreInv'
    BY <1>2, <1>3, <1>4, QuietCore
  <1>6. \A x \in msgs' \ msgs : x.type = "AppendEntriesReply" /\ ReplySound(x)'
    <2> SUFFICES ASSUME NEW x \in msgs' \ msgs
                 PROVE  x.type = "AppendEntriesReply" /\ ReplySound(x)'
      OBVIOUS
    <2>1. x.type = "AppendEntriesReply" /\ x.asked = m.term /\ x.term = Max(m.term, currentTerm[s])
      BY <1>2 DEF Answer
    <2>2. ~(x.term <= x.asked)
      BY <1>1, <2>1 DEF Max
    <2> QED BY <2>1, <2>2 DEF ReplySound
  <1>7. ServerSound(s)'
    <2>1. ServerSound(s) /\ \A e \in elected' \ elected : e.server # s
      BY <1>1, <1>2 DEF LogInv, ServersSound
    <2> QED BY <1>1, <1>2, <1>3, <1>5, <2>1, BystanderSound
  <1>8. NobodyInGap'
    BY <1>2 DEF LogInv, NobodyInGap
  <1> HIDE DEF answer
  <1> QED BY <1>1, <1>2, <1>3, <1>5, <1>6, <1>7, <1>8, StepKeeps

\* AppendEntries that fails the consistency check.
LEMMA ConflictLog ==
  ASSUME TypeInv, TypeInv', ElectionInv, LogInv, NEW m \in msgs, AppendEntries(m),
         ~(m.term < currentTerm[m.to]), ~HasEntry(log[m.to], m.prevIndex, m.prevTerm)
  PROVE  LogInv'
  <1> DEFINE s == m.to
             T == m.term
             l == log[s]
  <1>1. /\ TypeOK /\ s \in Server /\ T \in Term /\ T \in Int /\ currentTerm[s] \in Int
        /\ m.prevIndex \in Nat /\ m.type = "AppendEntries" /\ m.entries \in Seq(Entry)
        /\ l \in Seq(Entry)
    <2>1. /\ TypeOK /\ s \in Server /\ T \in Term /\ m.type = "AppendEntries"
          /\ m.prevIndex \in Nat /\ m.entries \in Seq(Entry)
      BY DEF TypeInv, TypeOK, AppendEntries, Message
    <2>2. currentTerm[s] \in Term /\ l \in Seq(Entry)
      BY <2>1 DEF TypeOK
    <2> QED BY <2>1, <2>2 DEF Term
  <1>2. /\ currentTerm' = [currentTerm EXCEPT ![s] = T]
        /\ state' = [state EXCEPT ![s] = "Follower"]
        /\ \E i \in Nat : msgs' = (msgs \ {m}) \cup {Answer(m, FALSE, 0, ConflictTerm(l, m.prevIndex), i)}
        /\ persist(s) \/ UNCHANGED disk
        /\ UNCHANGED <<log, commitIndex, nextIndex, matchIndex, beats, starts, ballots, elected,
                       leaderLog, acked>>
    <2>1. \A i \in 1 .. Len(l) + 1 : i \in Nat
      BY <1>1
    <2> QED BY <2>1 DEF AppendEntries, leaderVars
  <1>3. LogTypes /\ LogTypes' /\ CoreInv /\ HistoryTypeOK'
    BY <1>2, LogTypesHold DEF LogInv, HistoryTypeOK
  <1>4. /\ currentTerm'[s] = T /\ state'[s] = "Follower"
        /\ \A q \in Server \ {s} : currentTerm'[q] = currentTerm[q] /\ state'[q] = state[q]
    BY <1>1, <1>2 DEF TypeOK
  <1>5. disk'[s].log = l /\ \A q \in Server \ {s} : disk'[q] = disk[q]
    <2>1. disk[s].log = l
      BY <1>1 DEF LogInv, ServersSound, ServerSound
    <2> QED BY <1>1, <1>2, <2>1 DEF persist, TypeOK
  <1>6. \A q \in Server : currentTerm[q] <= currentTerm'[q]
    <2>1. \A q \in Server : currentTerm[q] \in Int
      BY <1>3 DEF LogTypes, Term
    <2> QED BY <1>1, <1>4, <2>1
  <1>7. HistoryGrows /\ CoreInv'
    BY <1>2, <1>3, <1>6, QuietCore
  <1>8. \A x \in msgs' \ msgs : x.type = "AppendEntriesReply" /\ ReplySound(x)'
    <2> SUFFICES ASSUME NEW x \in msgs' \ msgs
                 PROVE  x.type = "AppendEntriesReply" /\ ReplySound(x)'
      OBVIOUS
    <2>1. /\ x.type = "AppendEntriesReply" /\ x.asked = T /\ x.success = FALSE
          /\ x.conflictTerm = ConflictTerm(l, m.prevIndex)
      BY <1>2 DEF Answer
    <2>2. RequestSound(m) /\ Led(T)
      BY <1>1 DEF LogInv, MessagesSound, RequestSound
    <2>3. m.prevIndex <= Len(leaderLog[T])
      <3>1. Len(leaderLog[T]) \in Nat
        BY <1>1, <1>3, TypesAt
      <3> QED BY <1>1, <2>2, <3>1 DEF RequestSound
    <2>4. ~HasEntry(l, m.prevIndex, TermAt(leaderLog[T], m.prevIndex))
      BY <2>2 DEF RequestSound
    <2>5. FromLeaders(l, leaderLog)
      BY <1>1, <1>3 DEF CoreInv, ServerLogs
    <2>6. x.conflictTerm # -1 =>
             x.conflictTerm # T /\ LastTerm(leaderLog[T]) # x.conflictTerm
      BY <1>1, <1>3, <2>1, <2>3, <2>4, <2>5, ConflictSound
    <2> QED BY <1>2, <2>1, <2>2, <2>6 DEF ReplySound, Led
  <1>9. ServerSound(s)'
    <2>1. ServerSound(s)
      BY <1>1 DEF LogInv, ServersSound
    <2> QED BY <1>1, <1>2, <1>3, <1>4, <1>5, <1>7, <2>1, FollowerSound
  <1>10. NobodyInGap'
    BY <1>2 DEF LogInv, NobodyInGap
  <1> QED BY <1>1, <1>2, <1>3, <1>4, <1>5, <1>7, <1>8, <1>9, <1>10, StepKeeps

\* What AppendEntries makes of the log agrees with the leader's as far as it brings entries,
\* and with the log it finds as far as that was committed.
LEMMA StoreMerges ==
  ASSUME TypeInv, LogInv, NEW m \in msgs, m.type = "AppendEntries",
         m.term >= currentTerm[m.to], HasEntry(log[m.to], m.prevIndex, m.prevTerm),
         NEW r, r = Merge(log[m.to], m.prevIndex, m.entries)
  PROVE  /\ r \in Seq(Entry)
         /\ Agree(r, leaderLog[m.term], m.prevIndex + Len(m.entries)) /\ FromLeaders(r, leaderLog)
         /\ \A n \in Nat : Agree(log[m.to], leaderLog[m.term], n) => Agree(r, leaderLog[m.term], n)
         /\ r = log[m.to] \/ Len(r) = m.prevIndex + Len(m.entries)
         /\ Agree(r, log[m.to], commitIndex[m.to])
  <1> DEFINE s == m.to
             T == m.term
             l == log[s]
             k == leaderLog[T]
  <1>1. /\ TypeOK /\ s \in Server /\ T \in Term /\ currentTerm[s] \in Term /\ CoreInv
        /\ m.prevIndex \in Nat /\ m.entries \in Seq(Entry)
        /\ l \in Seq(Entry) /\ commitIndex[s] \in Nat /\ LogTypes
    <2>1. /\ TypeOK /\ s \in Server /\ T \in Term /\ CoreInv
          /\ m.prevIndex \in Nat /\ m.entries \in Seq(Entry)
      BY DEF TypeInv, TypeOK, Message, LogInv
    <2>2. currentTerm[s] \in Term /\ l \in Seq(Entry) /\ commitIndex[s] \in Nat /\ LogTypes
      BY <2>1 DEF TypeOK, LogTypes, LogInv
    <2> QED BY <2>1, <2>2
  <1>2. leaderLog \in [Term -> Seq(Entry)] /\ k \in Seq(Entry)
    BY <1>1 DEF LogInv, HistoryTypeOK
  <1>3. RequestSound(m) /\ Led(T)
    BY <1>1 DEF LogInv, MessagesSound, RequestSound
  <1>4. FromLeaders(l, leaderLog) /\ FromLeaders(k, leaderLog)
    BY <1>1 DEF CoreInv, ServerLogs, LeaderLogs
  <1>5. /\ m.prevIndex + Len(m.entries) <= Len(k) /\ HasEntry(l, m.prevIndex, TermAt(k, m.prevIndex))
        /\ \A i \in DOMAIN m.entries : m.entries[i] = k[m.prevIndex + i]
    BY <1>3 DEF RequestSound
  <1>6. Agree(l, k, commitIndex[s])
    <2>1. CommittedIn(l, commitIndex[s], currentTerm[s]) /\ currentTerm[s] <= T
      BY <1>1 DEF LogInv, ServersSound, ServerSound, Term
    <2> QED BY <1>1, <1>3, <2>1, CommittedWithLeader
  <1> HIDE DEF k, l
  <1>7. LET mg == Merge(l, m.prevIndex, m.entries)
        IN  /\ Agree(mg, k, m.prevIndex + Len(m.entries))
            /\ \A n \in Nat : Agree(l, k, n) => Agree(mg, k, n)
            /\ FromLeaders(mg, leaderLog)
            /\ mg = l \/ Len(mg) = m.prevIndex + Len(m.entries)
            /\ mg \in Seq(Entry)
    BY <1>1, <1>2, <1>4, <1>5, MergeAgrees
  <1>m. r = Merge(l, m.prevIndex, m.entries)
    BY DEF l
  <1>8. /\ Agree(r, k, m.prevIndex + Len(m.entries))
        /\ \A n \in Nat : Agree(l, k, n) => Agree(r, k, n)
        /\ FromLeaders(r, leaderLog)
        /\ r = l \/ Len(r) = m.prevIndex + Len(m.entries)
        /\ r \in Seq(Entry)
    BY <1>7, <1>m, Zenon
  <1>9. Agree(r, l, commitIndex[s])
    <2>1. Agree(r, k, commitIndex[s]) /\ commitIndex[s] <= commitIndex[s]
      BY <1>1, <1>6, <1>8
    <2>2. Agree(k, l, commitIndex[s])
      BY <1>1, <1>2, <1>6, <2>1, AgreeParts
    <2> QED BY <1>1, <1>2, <1>8, <2>1, <2>2, AgreeParts
  <1> QED BY <1>8, <1>9 DEF k, l

\* AppendEntries that stores what it brings.
LEMMA StoreLog ==
  ASSUME TypeInv, TypeInv', ElectionInv, LogInv, NEW m \in msgs, AppendEntries(m),
         ~(m.term < currentTerm[m.to]), HasEntry(log[m.to], m.prevIndex, m.prevTerm)
  PROVE  LogInv'
  <1> DEFINE s == m.to
             T == m.term
             l == log[s]
             k == leaderLog[T]
             last == m.prevIndex + Len(m.entries)
             r == Merge(l, m.prevIndex, m.entries)
  <1>1. /\ TypeOK /\ s \in Server /\ T \in Term /\ T \in Int /\ currentTerm[s] \in Int
        /\ m.prevIndex \in Nat /\ m.type = "AppendEntries" /\ m.entries \in Seq(Entry)
        /\ l \in Seq(Entry) /\ m.commit \in Nat /\ commitIndex[s] \in Nat /\ last \in Nat
        /\ currentTerm[s] \in Term
    <2>1. /\ TypeOK /\ s \in Server /\ T \in Term /\ m.type = "AppendEntries"
          /\ m.prevIndex \in Nat /\ m.entries \in Seq(Entry) /\ m.commit \in Nat
      BY DEF TypeInv, TypeOK, AppendEntries, Message
    <2>2. currentTerm[s] \in Term /\ l \in Seq(Entry) /\ commitIndex[s] \in Nat
      BY <2>1 DEF TypeOK
    <2> QED BY <2>1, <2>2 DEF Term
  <1>2. /\ currentTerm' = [currentTerm EXCEPT ![s] = T]
        /\ state' = [state EXCEPT ![s] = "Follower"]
        /\ log' = [log EXCEPT ![s] = r]
        /\ persist(s)
        /\ commitIndex' = [commitIndex EXCEPT ![s] =
                              IF m.commit > commitIndex[s] THEN Min(m.commit, Len(log'[s]))
                                                           ELSE commitIndex[s]]
        /\ msgs' = (msgs \ {m}) \cup {Answer(m, TRUE, last, 0, 0)}
        /\ acked' = [acked EXCEPT ![s][T] = Max(acked[s][T], last)]
        /\ UNCHANGED <<nextIndex, matchIndex, beats, starts, ballots, elected, leaderLog>>
    BY <1>1 DEF AppendEntries, leaderVars
  <1>3. acked \in [Server -> [Term -> Nat]] /\ leaderLog \in [Term -> Seq(Entry)]
    BY DEF LogInv, HistoryTypeOK
  <1>4. HistoryTypeOK'
    <2>1. Max(acked[s][T], last) \in Nat
      BY <1>1, <1>3 DEF Max
    <2>2. acked' \in [Server -> [Term -> Nat]]
      BY <1>1, <1>2, <1>3, <2>1
    <2> QED BY <1>2, <1>3, <2>2 DEF HistoryTypeOK
  <1>5. LogTypes /\ LogTypes' /\ CoreInv
    BY <1>4, LogTypesHold
  <1>6. RequestSound(m) /\ Led(T)
    BY <1>1 DEF LogInv, MessagesSound, RequestSound
  <1>7. /\ r \in Seq(Entry) /\ Agree(r, k, last) /\ FromLeaders(r, leaderLog)
        /\ \A n \in Nat : Agree(l, k, n) => Agree(r, k, n)
        /\ r = l \/ Len(r) = last
        /\ Agree(r, l, commitIndex[s])
    <2>1. m.term >= currentTerm[s]
      BY <1>1
    <2> QED BY <1>1, <2>1, StoreMerges
  <1> HIDE DEF r
  <1>8. /\ currentTerm'[s] = T /\ state'[s] = "Follower" /\ log'[s] = r
        /\ \A q \in Server \ {s} :
              /\ currentTerm'[q] = currentTerm[q] /\ state'[q] = state[q] /\ log'[q] = log[q]
              /\ commitIndex'[q] = commitIndex[q]
        /\ commitIndex'[s] = IF m.commit > commitIndex[s] THEN Min(m.commit, Len(r))
                                                          ELSE commitIndex[s]
    BY <1>1, <1>2 DEF TypeOK
  <1>9. disk'[s].log = r /\ \A q \in Server \ {s} : disk'[q] = disk[q]
    BY <1>1, <1>2, <1>8 DEF persist, TypeOK
  <1>10. HistoryGrows /\ CoreInv'
    <2>1. T >= currentTerm[s]
      BY <1>1
    <2> QED BY <1>1, <1>2, <1>5, <1>6, <1>7, <2>1, StoreCore
  <1>11. \A x \in msgs' \ msgs : x.type = "AppendEntriesReply" /\ ReplySound(x)'
    <2> SUFFICES ASSUME NEW x \in msgs' \ msgs
                 PROVE  x.type = "AppendEntriesReply" /\ ReplySound(x)'
      OBVIOUS
    <2>1. /\ x.type = "AppendEntriesReply" /\ x.asked = T /\ x.from = s /\ x.success = TRUE
          /\ x.last = last
      BY <1>2 DEF Answer
    <2>2. last <= acked'[s][T]
      <3>1. acked'[s][T] = Max(acked[s][T], last) /\ acked[s][T] \in Nat
        BY <1>1, <1>2, <1>3
      <3> QED BY <1>1, <3>1 DEF Max
    <2> QED BY <1>2, <1>6, <2>1, <2>2 DEF ReplySound, Led
  <1>12. ServerSound(s)'
    <2>1. CommittedIn(l, commitIndex[s], currentTerm[s]) /\ currentTerm[s] <= T /\ T <= T
      BY <1>1 DEF LogInv, ServersSound, ServerSound
    <2>2. k \in Seq(Entry) /\ Len(k) \in Nat
      BY <1>1, <1>3
    <2>3. \/ commitIndex'[s] = 0
          \/ \E t \in Term, n \in Nat \ {0} :
                /\ t <= T /\ commitIndex'[s] <= n /\ Chosen(n, t)'
                /\ Agree(r, leaderLog'[t], commitIndex'[s])
      <3>1. CASE m.commit > commitIndex[s]
        <4>1. CommittedIn(k, m.commit, T) /\ m.commit <= last
          BY <1>6 DEF RequestSound
        <4>2. Agree(r, k, m.commit)
          BY <1>1, <1>7, <2>2, <4>1, AgreeParts
        <4>3. m.commit <= Len(r) /\ Len(r) \in Nat
          BY <1>7, <4>2 DEF Agree
        <4>4. commitIndex'[s] = m.commit
          BY <1>8, <3>1, <4>3 DEF Min
        <4> QED BY <1>1, <1>5, <1>7, <1>10, <2>1, <2>2, <4>1, <4>2, <4>4, CommitsMove
      <3>2. CASE ~(m.commit > commitIndex[s])
        <4>1. commitIndex'[s] = commitIndex[s]
          BY <1>8, <3>2
        <4> QED BY <1>1, <1>5, <1>7, <1>10, <2>1, <4>1, CommitsMove
      <3> QED BY <3>1, <3>2
    <2>4. CommittedIn(log[s], commitIndex[s], currentTerm[s])'
      BY <1>8, <2>3 DEF CommittedIn
    <2> QED BY <1>8, <1>9, <2>4 DEF ServerSound
  <1>13. NobodyInGap'
    BY <1>2 DEF LogInv, NobodyInGap
  <1> QED BY <1>1, <1>2, <1>4, <1>8, <1>9, <1>10, <1>11, <1>12, <1>13, StepKeeps

\* What the leader commits after a reply has been chosen.
LEMMA CommittableChosen ==
  ASSUME TypeInv, LogInv, NEW s \in Server, state[s] = "Leader",
         NEW match \in [Server -> Nat],
         \A p \in Server : match[p] <= acked[p][currentTerm[s]],
         NEW n \in Committable(log[s], currentTerm[s], match, commitIndex[s])
  PROVE  CommittedIn(log[s], n, currentTerm[s])
  <1> DEFINE T == currentTerm[s]
             l == log[s]
  <1>1. /\ LeaderSound(s) /\ T \in Term /\ l \in Seq(Entry)
        /\ acked \in [Server -> [Term -> Nat]]
    BY DEF TypeInv, TypeOK, LogInv, ServersSound, ServerSound, HistoryTypeOK
  <1>2. /\ n \in DOMAIN l /\ n \in Nat \ {0} /\ n <= Len(l) /\ l[n].term = T
        /\ IsMajority({p \in Server : match[p] >= n})
    BY <1>1 DEF Committable
  <1>3. {p \in Server : match[p] >= n} \subseteq {p \in Server : n <= acked[p][T]}
    <2> SUFFICES ASSUME NEW p \in Server, match[p] >= n
                 PROVE  n <= acked[p][T]
      OBVIOUS
    <2>1. match[p] \in Nat /\ acked[p][T] \in Nat /\ match[p] <= acked[p][T]
      BY <1>1
    <2> QED BY <1>2, <2>1
  <1>4. IsMajority({p \in Server : n <= acked[p][T]})
    BY <1>2, <1>3, LargerMajority
  <1>5. l = leaderLog[T]
    BY <1>1 DEF LeaderSound
  <1>6. HasEntry(leaderLog[T], n, T)
    BY <1>1, <1>2, <1>5, EntryAt
  <1>7. Agree(l, leaderLog[T], n) /\ T <= T /\ n <= n
    BY <1>1, <1>2, <1>5 DEF Agree, Term
  <1> QED BY <1>1, <1>2, <1>4, <1>6, <1>7 DEF CommittedIn, Chosen

\* A reply within the leader's term.
LEMMA HeardLog ==
  ASSUME TypeInv, TypeInv', ElectionInv, LogInv, NEW m \in msgs, LeaderHandlesReply(m),
         m.term <= m.asked
  PROVE  LogInv'
  <1> DEFINE s == m.to
             p == m.from
             T == currentTerm[s]
             new == [matchIndex[s] EXCEPT ![p] = Max(m.last, @)]
             ns == Committable(log[s], T, new, commitIndex[s])
  <1>1. /\ TypeOK /\ s \in Server /\ p \in Server /\ T \in Term /\ m.asked = T
        /\ m.last \in Nat /\ log[s] \in Seq(Entry) /\ Len(log[s]) \in Nat
        /\ state[s] = "Leader" /\ m.type = "AppendEntriesReply" /\ commitIndex[s] \in Nat
    <2>1. /\ TypeOK /\ s \in Server /\ p \in Server /\ m.asked = T
          /\ m.last \in Nat /\ state[s] = "Leader" /\ m.type = "AppendEntriesReply"
      BY DEF TypeInv, TypeOK, LeaderHandlesReply, Message
    <2>2. T \in Term /\ log[s] \in Seq(Entry) /\ commitIndex[s] \in Nat
      BY <2>1 DEF TypeOK
    <2> QED BY <2>1, <2>2
  <1>2. matchIndex[s] \in [Server -> Nat] /\ nextIndex[s] \in [Server -> Nat \ {0}]
    BY <1>1 DEF TypeInv, LeaderReady
  <1>3. ~(m.term > m.asked)
    <2>1. m.term \in Int /\ m.asked \in Int
      <3>1. m.term \in Term /\ m.asked \in Term
        BY <1>1 DEF TypeOK, Message
      <3> QED BY <3>1 DEF Term
    <2> QED BY <2>1
  <1>4. /\ UNCHANGED <<currentTerm, log, disk, state, beats, starts, ballots, elected,
                       leaderLog, acked>>
        /\ msgs' = msgs \ {m}
        /\ \/ /\ UNCHANGED <<matchIndex, commitIndex>>
              /\ \E i \in matchIndex[s][p] + 1 .. nextIndex[s][p] - 1 :
                    nextIndex' = [nextIndex EXCEPT ![s][p] = i]
           \/ /\ m.success
              /\ matchIndex' = [matchIndex EXCEPT ![s] = new]
              /\ nextIndex' = [nextIndex EXCEPT ![s][p] = new[p] + 1]
              /\ \/ UNCHANGED commitIndex
                 \/ \E n \in ns : commitIndex' = [commitIndex EXCEPT ![s] = n]
    BY <1>3 DEF LeaderHandlesReply, history
  <1>5. LogTypes /\ LogTypes' /\ CoreInv /\ HistoryTypeOK'
    BY <1>4, LogTypesHold DEF LogInv, HistoryTypeOK
  <1>6. \A q \in Server : currentTerm[q] <= currentTerm'[q]
    BY <1>4, <1>5 DEF LogTypes, Term
  <1>7. HistoryGrows /\ CoreInv'
    BY <1>4, <1>5, <1>6, QuietCore
  <1>8. ServerSound(s) /\ LeaderSound(s)
    BY <1>1 DEF LogInv, ServersSound, ServerSound
  <1>9. \A q \in Server :
           /\ matchIndex[s][q] \in Nat /\ nextIndex[s][q] \in Nat \ {0}
           /\ matchIndex[s][q] <= acked[q][T] /\ nextIndex[s][q] \in 1 .. Len(log[s]) + 1
           /\ acked[q][T] \in Nat /\ acked[q][T] <= Len(log[s])
    <2> SUFFICES ASSUME NEW q \in Server
                 PROVE  /\ matchIndex[s][q] \in Nat /\ nextIndex[s][q] \in Nat \ {0}
                        /\ matchIndex[s][q] <= acked[q][T]
                        /\ nextIndex[s][q] \in 1 .. Len(log[s]) + 1
                        /\ acked[q][T] \in Nat /\ acked[q][T] <= Len(log[s])
      OBVIOUS
    <2>1. matchIndex[s][q] <= acked[q][T] /\ nextIndex[s][q] \in 1 .. Len(log[s]) + 1
      BY <1>8 DEF LeaderSound
    <2>2. acked[q][T] <= Len(leaderLog[T]) /\ leaderLog[T] = log[s]
      BY <1>1, <1>5, <1>8 DEF CoreInv, AckedHeld, LeaderSound
    <2>3. acked[q][T] \in Nat
      BY <1>1, <1>5, TypesAt
    <2> QED BY <1>2, <2>1, <2>2, <2>3
  <1> DEFINE others == \A q \in Server \ {s} : /\ nextIndex'[q] = nextIndex[q]
                                               /\ matchIndex'[q] = matchIndex[q]
                                               /\ commitIndex'[q] = commitIndex[q]
             arrays == \A q \in Server : /\ matchIndex'[s][q] <= acked[q][T]
                                         /\ nextIndex'[s][q] \in 1 .. Len(log[s]) + 1
  <1>10. others /\ arrays /\ CommittedIn(log[s], commitIndex'[s], T)
    <2>1. CommittedIn(log[s], commitIndex[s], T)
      BY <1>8 DEF ServerSound
    <2>2. ASSUME UNCHANGED <<matchIndex, commitIndex>>,
                 NEW i \in matchIndex[s][p] + 1 .. nextIndex[s][p] - 1,
                 nextIndex' = [nextIndex EXCEPT ![s][p] = i]
          PROVE  others /\ arrays /\ CommittedIn(log[s], commitIndex'[s], T)
      <3>1. i \in 1 .. Len(log[s]) + 1
        <4>1. /\ matchIndex[s][p] \in Nat /\ nextIndex[s][p] \in Nat \ {0}
              /\ nextIndex[s][p] \in 1 .. Len(log[s]) + 1
          BY <1>1, <1>9
        <4> QED BY <1>1, <4>1
      <3>2. nextIndex'[s] = [nextIndex[s] EXCEPT ![p] = i]
        BY <1>1, <2>2 DEF TypeOK
      <3>3. others
        BY <1>1, <2>2 DEF TypeOK
      <3>4. \A q \in Server : nextIndex'[s][q] \in 1 .. Len(log[s]) + 1
        BY <1>2, <1>9, <3>1, <3>2
      <3>5. arrays
        BY <1>9, <2>2, <3>4
      <3> QED BY <2>1, <2>2, <3>3, <3>5
    <2>3. ASSUME m.success,
                 matchIndex' = [matchIndex EXCEPT ![s] = new],
                 nextIndex' = [nextIndex EXCEPT ![s][p] = new[p] + 1],
                 \/ UNCHANGED commitIndex
                 \/ \E n \in ns : commitIndex' = [commitIndex EXCEPT ![s] = n]
          PROVE  others /\ arrays /\ CommittedIn(log[s], commitIndex'[s], T)
      <3>1. m.last <= acked[p][T]
        <4>1. m.term <= m.asked /\ ReplySound(m)
          BY <1>1 DEF LogInv, MessagesSound
        <4> QED BY <1>1, <2>3, <4>1 DEF ReplySound
      <3>2. /\ new \in [Server -> Nat]
            /\ \A q \in Server : new[q] = IF q = p THEN Max(m.last, matchIndex[s][p])
                                                   ELSE matchIndex[s][q]
        <4>1. Max(m.last, matchIndex[s][p]) \in Nat
          BY <1>1, <1>9 DEF Max
        <4> QED BY <1>1, <1>2, <4>1
      <3>3. \A q \in Server : new[q] <= acked[q][T]
        BY <1>1, <1>9, <3>1, <3>2 DEF Max
      <3> HIDE DEF new
      <3>4. new[p] + 1 \in 1 .. Len(log[s]) + 1
        <4>1. /\ new[p] <= acked[p][T] /\ acked[p][T] <= Len(log[s])
              /\ new[p] \in Nat /\ acked[p][T] \in Nat
          BY <1>1, <1>9, <3>2, <3>3
        <4> QED BY <1>1, <4>1
      <3>5. /\ matchIndex'[s] = new /\ nextIndex'[s] = [nextIndex[s] EXCEPT ![p] = new[p] + 1]
            /\ \A q \in Server \ {s} : nextIndex'[q] = nextIndex[q] /\ matchIndex'[q] = matchIndex[q]
        BY <1>1, <2>3 DEF TypeOK
      <3>6. others
        BY <1>1, <2>3, <3>5 DEF TypeOK
      <3>7. \A q \in Server : nextIndex'[s][q] \in 1 .. Len(log[s]) + 1
        BY <1>2, <1>9, <3>4, <3>5
      <3>8. arrays
        BY <3>3, <3>5, <3>7
      <3>9. CommittedIn(log[s], commitIndex'[s], T)
        <4>1. CASE UNCHANGED commitIndex
          BY <2>1, <4>1
        <4>2. ASSUME NEW n \in ns, commitIndex' = [commitIndex EXCEPT ![s] = n]
              PROVE  CommittedIn(log[s], commitIndex'[s], T)
          <5>1. CommittedIn(log[s], n, T)
            BY <1>1, <3>2, <3>3, CommittableChosen
          <5>2. commitIndex'[s] = n
            BY <1>1, <4>2 DEF TypeOK
          <5> QED BY <5>1, <5>2
        <4> QED BY <2>3, <4>1, <4>2
      <3> QED BY <3>6, <3>8, <3>9
    <2> HIDE DEF others, arrays, new, ns
    <2> QED BY <1>4, <2>2, <2>3
  <1>11. ServerSound(s)'
    <2>1. LeaderSound(s)'
      BY <1>4, <1>8, <1>10 DEF LeaderSound
    <2>2. CommittedIn(log[s], commitIndex[s], currentTerm[s])'
      BY <1>4, <1>10 DEF CommittedIn, Chosen
    <2>3. disk'[s].log = log'[s] /\ state'[s] = "Leader"
      BY <1>1, <1>4, <1>8 DEF ServerSound
    <2> QED BY <2>1, <2>2, <2>3 DEF ServerSound
  <1>12. NobodyInGap'
    BY <1>4 DEF LogInv, NobodyInGap
  <1>13. state'[s] # "Candidate"
    BY <1>1, <1>4
  <1> QED BY <1>1, <1>4, <1>5, <1>7, <1>10, <1>11, <1>12, <1>13, StepKeeps

\* A reply from a later term.
LEMMA OvertakenLog ==
  ASSUME TypeInv, TypeInv', ElectionInv, LogInv, NEW m \in msgs, LeaderHandlesReply(m),
         m.term > m.asked
  PROVE  LogInv'
  <1>1. m.to \in Server /\ m.term \in Term /\ m.term \in Int /\ m.asked \in Int
        /\ currentTerm[m.to] = m.asked
    <2>1. m.to \in Server /\ m.term \in Term /\ m.asked \in Term /\ currentTerm[m.to] = m.asked
      BY DEF TypeInv, TypeOK, LeaderHandlesReply, Message
    <2> QED BY <2>1 DEF Term
  <1>2. ~(m.term <= m.asked)
    BY <1>1
  <1>3. StepDown(m.to, m.term) /\ msgs' \subseteq msgs
        /\ UNCHANGED <<commitIndex, nextIndex, matchIndex, beats, starts, ballots, elected,
                       leaderLog, acked>>
    BY <1>2 DEF LeaderHandlesReply, leaderVars, history
  <1> QED BY <1>1, <1>3, StepDownLog

-----------------------------------------------------------------------------
(* The invariant. *)

\* Every step keeps LogInv.
LEMMA LogInvNext ==
  ASSUME GapsClosed, TypeInv, TypeInv', ElectionInv, LogInv, [Next]_vars
  PROVE  LogInv'
  <1>0. /\ "Convert2Leader" \notin Windows /\ "Start" \notin Windows
        /\ "LeaderAppendEntries" \notin Windows
    BY DEF GapsClosed
  <1>g. beats = {} /\ starts = {} /\ \A r \in runs : r.phase # "won"
    BY <1>0 DEF LogInv, NobodyInGap, ElectionInv, OfficeInTerm
  <1>1. ASSUME NEW s \in Server, RunForElection(s)
        PROVE  LogInv'
    BY <1>1, CampaignLog DEF RunForElection, leaderVars
  <1>2. ASSUME NEW s \in Server, PauseInElection(s)
        PROVE  LogInv'
    BY <1>2, CampaignLog DEF PauseInElection, leaderVars
  <1>3. ASSUME NEW s \in Server, LeaderAppendEntries(s)
        PROVE  LogInv'
    BY <1>3, SendLog
  <1>4. ASSUME NEW s \in Server, PauseInAppend(s)
        PROVE  LogInv'
    BY <1>0, <1>4 DEF PauseInAppend
  <1>5. ASSUME NEW s \in Server, NEW c \in Command, Start(s, c)
        PROVE  LogInv'
    BY <1>0, <1>5, StartLog
  <1>6. ASSUME NEW s \in Server, NEW c \in Command, PauseInStart(s, c)
        PROVE  LogInv'
    BY <1>0, <1>6 DEF PauseInStart
  <1>7. ASSUME NEW s \in Server, Crash(s)
        PROVE  LogInv'
    BY <1>7, CrashLog
  <1>8. ASSUME NEW r \in runs, ResumeElection(r)
        PROVE  LogInv'
    BY <1>8, ResumeElectionLog
  <1>9. ASSUME NEW r \in runs, NEW m \in msgs, VoteRefused(r, m)
        PROVE  LogInv'
    <2>1. r.cand \in Server /\ m.term \in Term /\ m.term > currentTerm[r.cand]
      BY <1>9 DEF VoteRefused, Campaigning, TypeInv, TypeOK, Run, Message
    <2> QED BY <1>9, <2>1, StepDownLog DEF VoteRefused, leaderVars, history
  <1>10. ASSUME NEW r \in runs, Convert2Leader(r)
         PROVE  LogInv'
    BY <1>0, <1>10, OfficeLog
  <1>11. ASSUME NEW r \in runs, PauseInTally(r)
         PROVE  LogInv'
    BY <1>0, <1>11 DEF PauseInTally
  <1>12. ASSUME NEW r \in runs, ResumeTally(r)
         PROVE  LogInv'
    BY <1>g, <1>12 DEF ResumeTally
  <1>13. ASSUME NEW m \in msgs, RequestVote(m)
         PROVE  LogInv'
    BY <1>13, RequestVoteLog
  <1>14. ASSUME NEW m \in msgs, AppendEntries(m)
         PROVE  LogInv'
    BY <1>14, RefuseLog, ConflictLog, StoreLog
  <1>15. ASSUME NEW m \in msgs, LeaderHandlesReply(m)
         PROVE  LogInv'
    <2>1. m.term <= m.asked \/ m.term > m.asked
      <3>1. m.term \in Term /\ m.asked \in Term
        BY <1>15 DEF LeaderHandlesReply, TypeInv, TypeOK, Message
      <3> QED BY <3>1 DEF Term
    <2> QED BY <1>15, <2>1, HeardLog, OvertakenLog
  <1>16. ASSUME UNCHANGED vars
         PROVE  LogInv'
    <2>1. UNCHANGED <<currentTerm, log, disk, state, commitIndex, nextIndex, matchIndex, beats, starts,
                      msgs, ballots, elected, leaderLog, acked>>
      BY <1>16 DEF vars, serverVars, leaderVars, history
    <2>2. HistoryTypeOK' /\ NobodyInGap' /\ Offices'
      BY <2>1 DEF LogInv, HistoryTypeOK, NobodyInGap, Offices
    <2>3. LogTypes /\ LogTypes' /\ CoreInv
      BY <2>2, LogTypesHold
    <2>4. \A q \in Server : currentTerm[q] <= currentTerm'[q]
      BY <2>1, <2>3 DEF LogTypes, Term
    <2>5. HistoryGrows /\ CoreInv'
      BY <2>1, <2>3, <2>4, QuietCore
    <2>6. ASSUME NEW s \in Server
          PROVE  LogInv'
      <3>1. ServerSound(s) /\ \A e \in elected' \ elected : e.server # s
        BY <2>1 DEF LogInv, ServersSound
      <3>2. ServerSound(s)'
        BY <2>1, <2>3, <2>5, <3>1, BystanderSound
      <3> QED BY <2>1, <2>2, <2>5, <3>2, StepKeeps
    <2>7. CASE Server = {}
      <3>1. msgs = {} /\ ballots = {}
        BY <2>7 DEF TypeInv, TypeOK, Message
      <3> QED BY <2>1, <2>2, <2>5, <2>7, <3>1
              DEF LogInv, VotersOutdone, MessagesSound, ServersSound
    <2> QED BY <2>6, <2>7
  <1> QED BY <1>1, <1>2, <1>3, <1>4, <1>5, <1>6, <1>7, <1>8, <1>9, <1>10, <1>11, <1>12, <1>13,
             <1>14, <1>15, <1>16, <1>g DEF Next

-----------------------------------------------------------------------------
(* What the invariant says of the servers. *)

\* The types RaftProofs proves preserved, as an invariant.
THEOREM TypeInvariant == Spec => []TypeInv
  <1>1. Init => TypeInv
    BY Bounds DEF Init, TypeInv, TypeOK, LeaderReady, Term
  <1> QED BY <1>1, TypeInvNext, PTL DEF Spec

\* Logs that agree up to n have one prefix of that length.
LEMMA AgreeSubSeq ==
  ASSUME NEW l \in Seq(Entry), NEW k \in Seq(Entry), NEW n \in Nat, Agree(l, k, n)
  PROVE  SubSeq(l, 1, n) = SubSeq(k, 1, n)
  <1>1. /\ \A i \in 1 .. n : l[i] \in Entry /\ k[i] \in Entry /\ l[i] = k[i]
    BY DEF Agree
  <1>2. /\ SubSeq(l, 1, n) \in Seq(Entry)
        /\ Len(SubSeq(l, 1, n)) = n
        /\ \A i \in 1 .. n : SubSeq(l, 1, n)[i] = l[i]
    BY <1>1, SubSeqProperties
  <1>3. /\ SubSeq(k, 1, n) \in Seq(Entry)
        /\ Len(SubSeq(k, 1, n)) = n
        /\ \A i \in 1 .. n : SubSeq(k, 1, n)[i] = k[i]
    BY <1>1, SubSeqProperties
  <1> QED BY <1>1, <1>2, <1>3, SeqEqual

\* No leader has thrown away an entry that was chosen.
LEMMA NotLost ==
  ASSUME LogTypes, CoreInv, NEW t \in Term, NEW n \in Nat \ {0}, Chosen(n, t), NEW u
  PROVE  ~Lost(n, t, u)
  <1> SUFFICES ASSUME NEW v \in Term, t < v, Led(v), ~HasEntry(leaderLog[v], n, t)
               PROVE  FALSE
    BY DEF Lost
  <1>1. /\ {q \in Server : n <= acked[q][t]} \subseteq MayStore(n, t)
        /\ MayStore(n, t) \subseteq Server
    BY DEF MayStore
  <1>2. IsMajority(MayStore(n, t))
    BY <1>1, LargerMajority DEF Chosen
  <1> QED BY <1>2 DEF CoreInv, LaterLeaders, Chosen

\* Two entries that were chosen are entries of one log: that of the later term's leader.
LEMMA ChosenAgree ==
  ASSUME LogTypes, CoreInv, NEW l \in Seq(Entry), NEW k \in Seq(Entry),
         NEW t \in Term, NEW u \in Term, NEW n \in Nat \ {0}, NEW c \in Nat, NEW d \in Nat,
         t <= u, c <= n, Chosen(n, t), Led(u),
         Agree(l, leaderLog[t], c), Agree(k, leaderLog[u], d)
  PROVE  Agree(l, k, Min(c, d))
  <1>1. leaderLog \in [Term -> Seq(Entry)] /\ t \in Int /\ u \in Int
    BY DEF LogTypes, HistoryTypeOK, Term
  <1>2. CommittedIn(l, c, t)
    BY <1>1 DEF CommittedIn
  <1>3. Agree(l, leaderLog[u], c)
    BY <1>1, <1>2, CommittedWithLeader
  <1>4. Min(c, d) \in Nat /\ Min(c, d) <= c /\ Min(c, d) <= d
    BY DEF Min
  <1>5. leaderLog[u] \in Seq(Entry)
    BY <1>1
  <1>6. Agree(l, leaderLog[u], Min(c, d)) /\ Agree(leaderLog[u], k, Min(c, d))
    BY <1>3, <1>4, <1>5, AgreeParts
  <1> QED BY <1>4, <1>5, <1>6, AgreeParts

\* A chosen entry's term had a leader.
LEMMA ChosenLed ==
  ASSUME LogTypes, CoreInv, NEW t \in Term, NEW n \in Nat \ {0}, Chosen(n, t)
  PROVE  Led(t)
  <1>1. leaderLog[t] \in Seq(Entry) /\ n <= Len(leaderLog[t])
    BY DEF Chosen, HasEntry, LogTypes, HistoryTypeOK
  <1>2. leaderLog[t] # <<>>
    BY <1>1
  <1> QED BY <1>2 DEF CoreInv, LeaderLogs

\* Two committed prefixes agree.
LEMMA CommitsAgree ==
  ASSUME LogTypes, CoreInv, NEW l \in Seq(Entry), NEW k \in Seq(Entry),
         NEW c \in Nat, NEW d \in Nat, NEW u, NEW w, CommittedIn(l, c, u), CommittedIn(k, d, w)
  PROVE  Agree(l, k, Min(c, d))
  <1>1. CASE c = 0 \/ d = 0
    <2>1. Min(c, d) = 0
      BY <1>1 DEF Min
    <2> QED BY <2>1 DEF Agree
  <1>2. CASE c # 0 /\ d # 0
    <2>1. PICK t \in Term, n \in Nat \ {0} :
             c <= n /\ Chosen(n, t) /\ Agree(l, leaderLog[t], c)
      BY <1>2 DEF CommittedIn
    <2>2. PICK v \in Term, m \in Nat \ {0} :
             d <= m /\ Chosen(m, v) /\ Agree(k, leaderLog[v], d)
      BY <1>2 DEF CommittedIn
    <2>3. Led(t) /\ Led(v)
      BY <2>1, <2>2, ChosenLed
    <2>4. CASE t <= v
      BY <2>1, <2>2, <2>3, <2>4, ChosenAgree
    <2>5. CASE v <= t
      <3>1. Agree(k, l, Min(d, c))
        BY <2>1, <2>2, <2>3, <2>5, ChosenAgree
      <3>2. Min(d, c) = Min(c, d) /\ Min(c, d) \in Nat /\ Min(c, d) <= Min(c, d)
        BY DEF Min
      <3> QED BY <3>1, <3>2, AgreeParts
    <2>6. t <= v \/ v <= t
      BY DEF Term
    <2> QED BY <2>4, <2>5, <2>6
  <1> QED BY <1>1, <1>2

\* The invariant, and what it needs of types and elections, as one.
LogsSound == TypeInv /\ ElectionInv /\ LogInv

\* What is used of it below.
LEMMA LogsSoundParts ==
  ASSUME LogsSound
  PROVE  /\ LogTypes /\ CoreInv /\ leaderLog \in [Term -> Seq(Entry)]
         /\ acked \in [Server -> [Term -> Nat]]
         /\ \A s \in Server : /\ currentTerm[s] \in Term /\ log[s] \in Seq(Entry)
                              /\ commitIndex[s] \in Nat /\ ServerSound(s)
                              /\ CommittedIn(log[s], commitIndex[s], currentTerm[s])
                              /\ commitIndex[s] <= Len(log[s])
  <1>1. /\ LogTypes /\ CoreInv /\ leaderLog \in [Term -> Seq(Entry)]
        /\ acked \in [Server -> [Term -> Nat]]
    BY DEF LogsSound, LogInv, LogTypes, HistoryTypeOK, TypeInv, TypeOK
  <1>2. ASSUME NEW s \in Server
        PROVE  /\ currentTerm[s] \in Term /\ log[s] \in Seq(Entry)
               /\ commitIndex[s] \in Nat /\ ServerSound(s)
               /\ CommittedIn(log[s], commitIndex[s], currentTerm[s])
    BY DEF LogsSound, TypeInv, TypeOK, LogInv, ServersSound, ServerSound
  <1> QED BY <1>1, <1>2, CommittedBound

-----------------------------------------------------------------------------
(* What log replication promises. *)

\* The inductive invariant of replication (raft.go: AppendEntries, LeaderAppendEntries, Start,
\* RequestVote, Convert2Leader, persist, readPersist): every log is a piece of its leaders'
\* logs, what is committed was acknowledged by a majority, and every later leader holds it.
THEOREM LogInvariant ==
  ASSUME GapsClosed
  PROVE  Spec => []LogsSound
  <1>1. Init => LogInv
    <2> SUFFICES ASSUME Init
                 PROVE  LogInv
      OBVIOUS
    <2>1. HistoryTypeOK
      BY DEF Init, HistoryTypeOK
    <2>2. /\ \A t \in Term : leaderLog[t] = <<>> /\ ~Led(t)
          /\ \A s \in Server : /\ log[s] = <<>> /\ \A t \in Term : acked[s][t] = 0
                               /\ currentTerm[s] = 0 /\ commitIndex[s] = 0
                               /\ state[s] = "Follower" /\ disk[s].log = <<>>
          /\ 0 \in Term
      BY Bounds DEF Init, Led, Term
    <2>3. /\ \A l : FromLeaders(<<>>, l)
          /\ Len(<<>>) = 0 /\ DOMAIN <<>> = {}
      BY DEF FromLeaders
    <2>4. LeaderLogs /\ ServerLogs
      BY <2>2, <2>3 DEF LeaderLogs, ServerLogs
    <2>5. AckedHeld /\ AckedKept
      BY <2>2, <2>3 DEF AckedHeld, AckedKept, Agree
    <2>6. LaterLeaders
      BY <2>2 DEF LaterLeaders
    <2>7. ServersSound
      BY <2>2 DEF ServersSound, ServerSound, CommittedIn
    <2>8. NobodyInGap /\ Offices /\ VotersOutdone /\ MessagesSound
      BY DEF Init, NobodyInGap, Offices, VotersOutdone, MessagesSound
    <2> QED BY <2>1, <2>4, <2>5, <2>6, <2>7, <2>8 DEF LogInv, CoreInv
  <1>2. LogInv /\ TypeInv /\ TypeInv' /\ ElectionInv /\ [Next]_vars => LogInv'
    BY LogInvNext
  <1>3. LogsSound <=> TypeInv /\ ElectionInv /\ LogInv
    BY DEF LogsSound
  <1> QED BY <1>1, <1>2, <1>3, TypeInvariant, ElectionInvariant, PTL DEF Spec

\* Two logs that hold entries of one term at one index are equal up to there: the check of
\* PreLogTerm in AppendEntries and the repair of conflicts do what they are for.
THEOREM LogsMatchAlways ==
  ASSUME GapsClosed
  PROVE  Spec => []LogMatching
  <1>1. LogsSound => LogMatching
    <2> SUFFICES ASSUME LogsSound, NEW s \in Server, NEW q \in Server,
                        NEW i \in DOMAIN log[s] \cap DOMAIN log[q],
                        log[s][i].term = log[q][i].term
                 PROVE  SubSeq(log[s], 1, i) = SubSeq(log[q], 1, i)
      BY DEF LogMatching
    <2>1. /\ log[s] \in Seq(Entry) /\ log[q] \in Seq(Entry) /\ leaderLog \in [Term -> Seq(Entry)]
          /\ FromLeaders(log[s], leaderLog) /\ FromLeaders(log[q], leaderLog)
      BY LogsSoundParts DEF CoreInv, ServerLogs
    <2>2. i \in Nat \ {0} /\ log[s][i] \in Entry
      BY <2>1
    <2>3. log[s][i].term \in Term
      BY <2>2 DEF Entry
    <2>4. HasEntry(log[s], i, log[s][i].term) /\ HasEntry(log[q], i, log[s][i].term)
      BY <2>1, <2>2, <2>3, EntryAt
    <2>5. Agree(log[s], log[q], i)
      BY <2>1, <2>2, <2>3, <2>4, LogsMatch
    <2> QED BY <2>1, <2>2, <2>5, AgreeSubSeq
  <1> QED BY <1>1, LogInvariant, PTL

\* No two servers disagree on a committed entry (the tester's "committed values do not
\* match"), and no commitIndex passes the end of its log.
THEOREM StateMachinesSafe ==
  ASSUME GapsClosed
  PROVE  Spec => []StateMachineSafety
  <1>1. LogsSound => StateMachineSafety
    <2> SUFFICES ASSUME LogsSound, NEW s \in Server, NEW q \in Server
                 PROVE  /\ commitIndex[s] <= Len(log[s])
                        /\ \A i \in 1 .. Min(commitIndex[s], commitIndex[q]) :
                              log[s][i] = log[q][i]
      BY DEF StateMachineSafety
    <2>1. Agree(log[s], log[q], Min(commitIndex[s], commitIndex[q]))
      BY LogsSoundParts, CommitsAgree
    <2> QED BY <2>1, LogsSoundParts DEF Agree
  <1> QED BY <1>1, LogInvariant, PTL

\* While leader and follower are in one term, the follower holds the leader's entries up to
\* matchIndex, in whatever order replies come (handling of AppendEntriesReply).
THEOREM MatchIndexTrue ==
  ASSUME GapsClosed
  PROVE  Spec => []MatchIndexSound
  <1>1. LogsSound => MatchIndexSound
    <2> SUFFICES ASSUME LogsSound, NEW s \in Server, NEW p \in Server,
                        state[s] = "Leader", currentTerm[p] = currentTerm[s]
                 PROVE  /\ matchIndex[s][p] <= Len(log[p])
                        /\ SubSeq(log[p], 1, matchIndex[s][p]) = SubSeq(log[s], 1, matchIndex[s][p])
      BY DEF MatchIndexSound
    <2> DEFINE T == currentTerm[s]
               n == matchIndex[s][p]
    <2>1. /\ log[s] = leaderLog[T] /\ matchIndex[s][p] <= acked[p][T]
          /\ log[s] \in Seq(Entry) /\ log[p] \in Seq(Entry) /\ T \in Term
      BY LogsSoundParts DEF ServerSound, LeaderSound
    <2>2. acked[p][T] \in Nat /\ Agree(log[p], log[s], acked[p][T])
      BY <2>1, LogsSoundParts DEF CoreInv, AckedHeld
    <2>3. n \in Nat
      BY DEF LogsSound, TypeInv, LeaderReady
    <2>4. Agree(log[p], log[s], n)
      BY <2>1, <2>2, <2>3, AgreeParts
    <2> QED BY <2>1, <2>3, <2>4, AgreeSubSeq DEF Agree
  <1> QED BY <1>1, LogInvariant, PTL

\* A leader's slices of its log stay inside it: nextIndex is at most one past the end, and
\* rf.log[k+1] in the search for ConflictTerm exists.
THEOREM LeaderIndexesSafe ==
  ASSUME GapsClosed
  PROVE  Spec => []LeaderIndexesInLog
  <1>1. LogsSound => LeaderIndexesInLog
    <2> SUFFICES ASSUME LogsSound, NEW s \in Server, state[s] = "Leader"
                 PROVE  /\ \A p \in Server : nextIndex[s][p] \in 1 .. Len(log[s]) + 1
                        /\ \A m \in msgs :
                              /\ m.type = "AppendEntriesReply" /\ m.to = s
                              /\ m.asked = currentTerm[s] /\ m.term <= m.asked
                              /\ ~m.success /\ m.conflictTerm # -1
                              => LastTerm(log[s]) # m.conflictTerm
      BY DEF LeaderIndexesInLog
    <2>1. LeaderSound(s)
      BY LogsSoundParts DEF ServerSound
    <2>2. \A m \in msgs : m.type = "AppendEntriesReply" => ReplySound(m)
      BY DEF LogsSound, LogInv, MessagesSound
    <2> QED BY <2>1, <2>2 DEF LeaderSound, ReplySound
  <1> QED BY <1>1, LogInvariant, PTL

\* Whoever a majority could vote for, by RequestVote's comparison of logs, holds every entry
\* that any server has committed: no possible leader lacks one.
THEOREM ElectableHoldAll ==
  ASSUME GapsClosed
  PROVE  Spec => []ElectableHoldsCommitted
  <1>1. LogsSound => ElectableHoldsCommitted
    <2> SUFFICES ASSUME LogsSound, NEW s \in Server, NEW q \in Server,
                        IsMajority({v \in Server :
                                      UpToDate(LastTerm(log[s]), Len(log[s]), log[v])})
                 PROVE  /\ commitIndex[q] <= Len(log[s])
                        /\ SubSeq(log[s], 1, commitIndex[q]) = SubSeq(log[q], 1, commitIndex[q])
      BY DEF ElectableHoldsCommitted
    <2> DEFINE willing == {v \in Server : UpToDate(LastTerm(log[s]), Len(log[s]), log[v])}
    <2> DEFINE c == commitIndex[q]
    <2>1. /\ LogTypes /\ CoreInv /\ HistoryTypeOK /\ leaderLog \in [Term -> Seq(Entry)]
          /\ acked \in [Server -> [Term -> Nat]]
          /\ log[s] \in Seq(Entry) /\ log[q] \in Seq(Entry) /\ c \in Nat
          /\ CommittedIn(log[q], c, currentTerm[q])
      BY LogsSoundParts DEF LogTypes
    <2>2. CASE c = 0
      <3>1. Agree(log[s], log[q], c)
        BY <2>1, <2>2 DEF Agree
      <3> QED BY <2>1, <3>1, AgreeSubSeq DEF Agree
    <2>3. CASE c # 0
      <3>1. PICK t \in Term, n \in Nat \ {0} :
               c <= n /\ Chosen(n, t) /\ Agree(log[q], leaderLog[t], c)
        BY <2>1, <2>3 DEF CommittedIn
      <3>2. PICK v \in Server : v \in willing /\ n <= acked[v][t]
        <4>1. willing \cap {p \in Server : n <= acked[p][t]} # {}
          BY <3>1, MajoritiesMeet DEF Chosen
        <4> QED BY <4>1
      <3>3. HasEntry(leaderLog[t], n, t) /\ n \in 1 .. acked[v][t] /\ log[v] \in Seq(Entry)
        BY <2>1, <3>1, <3>2, LogsSoundParts DEF Chosen
      <3>4. HasEntry(log[v], n, t)
        BY <2>1, <3>1, <3>3, NotLost DEF CoreInv, AckedKept
      <3>5. /\ FromLeaders(log[v], leaderLog) /\ FromLeaders(log[s], leaderLog) /\ LeaderLogs
            /\ UpToDate(LastTerm(log[s]), Len(log[s]), log[v])
        BY <2>1, <3>2 DEF CoreInv, ServerLogs
      <3>6. HasEntry(log[s], n, t)
        BY <2>1, <3>1, <3>3, <3>4, <3>5, NewerHolds, NotLost
      <3>7. Agree(log[s], leaderLog[t], n)
        BY <2>1, <3>5, <3>6, LogOfEntry
      <3>8. leaderLog[t] \in Seq(Entry) /\ c <= c
        BY <2>1
      <3>9. Agree(log[s], leaderLog[t], c)
        BY <2>1, <3>1, <3>7, <3>8, AgreeParts
      <3>10. Agree(leaderLog[t], log[q], c)
        BY <2>1, <3>1, <3>8, AgreeParts
      <3>11. Agree(log[s], log[q], c)
        BY <2>1, <3>8, <3>9, <3>10, AgreeParts
      <3> QED BY <2>1, <3>11, AgreeSubSeq DEF Agree
    <2> QED BY <2>2, <2>3
  <1> QED BY <1>1, LogInvariant, PTL

\* CommittedKept, of one server.
CommitsKeptAt(s) ==
  /\ commitIndex[s] <= Len(log'[s])
  /\ SubSeq(log'[s], 1, commitIndex[s]) = SubSeq(log[s], 1, commitIndex[s])
  /\ commitIndex'[s] >= commitIndex[s] \/ crashes' # crashes

\* A step that changes no log and takes back no commitIndex keeps what is committed.
LEMMA SameLogsKept ==
  ASSUME LogsSound, log' = log, commitIndex' = commitIndex \/ crashes' # crashes,
         NEW s \in Server
  PROVE  CommitsKeptAt(s)
  BY LogsSoundParts DEF CommitsKeptAt

\* A step that changes one server's log, or its commitIndex, and there keeps the committed
\* entries.
LEMMA OneLogKept ==
  ASSUME LogsSound, NEW p \in Server, NEW l \in Seq(Entry), NEW c \in Nat,
         log' = [log EXCEPT ![p] = l], commitIndex' = [commitIndex EXCEPT ![p] = c],
         commitIndex[p] <= c, Agree(l, log[p], commitIndex[p]),
         NEW s \in Server
  PROVE  CommitsKeptAt(s)
  <1>1. /\ log \in [Server -> Seq(Entry)] /\ commitIndex \in [Server -> Nat]
        /\ \A q \in Server : commitIndex[q] <= Len(log[q])
    BY LogsSoundParts DEF LogsSound, TypeInv, TypeOK
  <1>2. CASE s = p
    <2>1. log'[s] = l /\ commitIndex'[s] = c
      BY <1>1, <1>2
    <2>2. SubSeq(l, 1, commitIndex[p]) = SubSeq(log[p], 1, commitIndex[p])
      BY <1>1, AgreeSubSeq
    <2> QED BY <1>1, <1>2, <2>1, <2>2 DEF CommitsKeptAt, Agree
  <1>3. CASE s # p
    <2>1. log'[s] = log[s] /\ commitIndex'[s] = commitIndex[s]
      BY <1>1, <1>3
    <2> QED BY <1>1, <2>1 DEF CommitsKeptAt
  <1> QED BY <1>2, <1>3

\* Start appends after the committed entries.
LEMMA StartKeepsCommits ==
  ASSUME LogsSound, TypeInv', NEW p \in Server, NEW c \in Command, Start(p, c), NEW s \in Server
  PROVE  CommitsKeptAt(s)
  <1> DEFINE e == [term |-> currentTerm[p], cmd |-> c]
             l == Append(log[p], e)
  <1>1. /\ log[p] \in Seq(Entry) /\ commitIndex[p] \in Nat /\ currentTerm[p] \in Term
        /\ commitIndex[p] <= Len(log[p]) /\ commitIndex \in [Server -> Nat]
    BY LogsSoundParts DEF LogsSound, TypeInv, TypeOK
  <1>2. log' = [log EXCEPT ![p] = l] /\ commitIndex' = commitIndex
    BY DEF Start, AppendEntry
  <1>3. e \in Entry
    BY <1>1 DEF Entry
  <1> HIDE DEF e
  <1>4. l \in Seq(Entry) /\ Longer(log[p], e, l)
    BY <1>1, <1>3, AppendLonger DEF Longer
  <1> HIDE DEF l
  <1>5. Agree(l, log[p], commitIndex[p])
    BY <1>1, <1>4 DEF Agree, Longer
  <1>6. commitIndex' = [commitIndex EXCEPT ![p] = commitIndex[p]] /\ commitIndex[p] <= commitIndex[p]
    BY <1>1, <1>2
  <1> QED BY <1>1, <1>2, <1>4, <1>5, <1>6, OneLogKept

\* AppendEntries replaces only what is not committed.
LEMMA AppendEntriesKeepsCommits ==
  ASSUME LogsSound, NEW m \in msgs, AppendEntries(m), NEW s \in Server
  PROVE  CommitsKeptAt(s)
  <1> DEFINE p == m.to
             r == Merge(log[p], m.prevIndex, m.entries)
  <1>1. CASE UNCHANGED <<log, commitIndex>>
    BY <1>1, SameLogsKept
  <1>2. CASE ~UNCHANGED <<log, commitIndex>>
    <2>1. /\ m.type = "AppendEntries" /\ m.term >= currentTerm[p]
          /\ HasEntry(log[p], m.prevIndex, m.prevTerm)
          /\ log' = [log EXCEPT ![p] = r]
          /\ commitIndex' = [commitIndex EXCEPT ![p] =
                               IF m.commit > commitIndex[p] THEN Min(m.commit, Len(log'[p]))
                                                            ELSE commitIndex[p]]
      BY <1>2 DEF AppendEntries, serverVars
    <2>2. /\ p \in Server /\ m.commit \in Nat /\ commitIndex[p] \in Nat
          /\ log \in [Server -> Seq(Entry)]
      BY <2>1 DEF LogsSound, TypeInv, TypeOK, Message
    <2>3. r \in Seq(Entry) /\ Agree(r, log[p], commitIndex[p])
      BY <2>1, StoreMerges DEF LogsSound
    <2> HIDE DEF r
    <2>4. log'[p] = r /\ Len(r) \in Nat /\ commitIndex[p] <= Len(r)
      BY <2>1, <2>2, <2>3 DEF Agree
    <2> DEFINE c == IF m.commit > commitIndex[p] THEN Min(m.commit, Len(r)) ELSE commitIndex[p]
    <2>5. commitIndex' = [commitIndex EXCEPT ![p] = c]
      <3>1. Len(log'[p]) = Len(r)
        BY <2>4
      <3>2. (IF m.commit > commitIndex[p] THEN Min(m.commit, Len(log'[p]))
                                          ELSE commitIndex[p]) = c
        BY <3>1
      <3> QED BY <2>1, <3>2, Zenon
    <2>6. c \in Nat /\ commitIndex[p] <= c
      BY <2>2, <2>4 DEF Min
    <2> HIDE DEF c
    <2> QED BY <2>1, <2>2, <2>3, <2>5, <2>6, OneLogKept
  <1> QED BY <1>1, <1>2

\* A reply moves a leader's commitIndex forward only.
LEMMA ReplyKeepsCommits ==
  ASSUME LogsSound, NEW m \in msgs, LeaderHandlesReply(m), NEW s \in Server
  PROVE  CommitsKeptAt(s)
  <1> DEFINE p == m.to
  <1>1. log' = log
    BY DEF LeaderHandlesReply, StepDown
  <1>2. CASE UNCHANGED commitIndex
    BY <1>1, <1>2, SameLogsKept
  <1>3. CASE ~UNCHANGED commitIndex
    <2>1. PICK n \in Committable(log[p], currentTerm[p],
                                 [matchIndex[p] EXCEPT ![m.from] = Max(m.last, @)],
                                 commitIndex[p]) :
             commitIndex' = [commitIndex EXCEPT ![p] = n]
      BY <1>3 DEF LeaderHandlesReply
    <2>2. p \in Server /\ log[p] \in Seq(Entry) /\ commitIndex[p] \in Nat
          /\ log \in [Server -> Seq(Entry)]
      BY LogsSoundParts DEF LeaderHandlesReply, LogsSound, TypeInv, TypeOK, Message
    <2>3. n \in Nat /\ commitIndex[p] <= n
      BY <2>1, <2>2 DEF Committable
    <2>4. log' = [log EXCEPT ![p] = log[p]]
      BY <1>1, <2>2
    <2>5. Agree(log[p], log[p], commitIndex[p])
      BY <2>2, LogsSoundParts DEF Agree
    <2> QED BY <2>1, <2>2, <2>3, <2>4, <2>5, OneLogKept
  <1> QED BY <1>2, <1>3

\* A restart finds on disk the log that was in memory, and counts as one.
LEMMA CrashKeepsCommits ==
  ASSUME LogsSound, NEW p \in Server, Crash(p), NEW s \in Server
  PROVE  CommitsKeptAt(s)
  <1>1. crashes \in Nat /\ crashes' = crashes + 1
    BY DEF LogsSound, TypeInv, TypeOK, Crash
  <1>2. log' = log
    <2>1. disk[p].log = log[p] /\ log \in [Server -> Seq(Entry)]
      BY LogsSoundParts DEF ServerSound, LogsSound, TypeInv, TypeOK
    <2> QED BY <2>1 DEF Crash
  <1> QED BY <1>1, <1>2, SameLogsKept

\* Every step keeps the entries a server has committed, and commitIndex goes back only when
\* the server is restarted (AppendEntries, LeaderHandlesReply, Start, readPersist).
THEOREM CommitsNeverLost ==
  ASSUME GapsClosed
  PROVE  Spec => CommittedKept
  <1>1. LogsSound /\ TypeInv' /\ [Next]_vars => [\A s \in Server : CommitsKeptAt(s)]_vars
    <2> SUFFICES ASSUME LogsSound, TypeInv', Next, NEW s \in Server
                 PROVE  CommitsKeptAt(s)
      OBVIOUS
    <2>1. \A p \in Server, c \in Command : Start(p, c) => CommitsKeptAt(s)
      BY StartKeepsCommits
    <2>2. \A m \in msgs : AppendEntries(m) => CommitsKeptAt(s)
      BY AppendEntriesKeepsCommits
    <2>3. \A m \in msgs : LeaderHandlesReply(m) => CommitsKeptAt(s)
      BY ReplyKeepsCommits
    <2>4. \A p \in Server : Crash(p) => CommitsKeptAt(s)
      BY CrashKeepsCommits
    <2>5. CASE UNCHANGED <<log, commitIndex>>
      BY <2>5, SameLogsKept
    <2>6. \A c \in starts : ~ResumeStart(c)
      BY DEF LogsSound, LogInv, NobodyInGap
    <2>7. \A p \in Server :
             /\ RunForElection(p) \/ PauseInElection(p) \/ LeaderAppendEntries(p) \/ PauseInAppend(p)
                => UNCHANGED <<log, commitIndex>>
             /\ \A c \in Command : PauseInStart(p, c) => UNCHANGED <<log, commitIndex>>
      BY DEF RunForElection, PauseInElection, Convert2Candidate, LeaderAppendEntries, PauseInAppend,
             PauseInStart, serverVars
    <2>8. \A r \in runs :
             /\ ResumeElection(r) \/ Convert2Leader(r) \/ PauseInTally(r) \/ ResumeTally(r)
                => UNCHANGED <<log, commitIndex>>
             /\ \A m \in msgs : VoteRefused(r, m) => UNCHANGED <<log, commitIndex>>
      BY DEF ResumeElection, Convert2Leader, PauseInTally, ResumeTally, TakeOffice, VoteRefused,
             StepDown, serverVars
    <2>9. /\ \A b \in beats : ResumeAppend(b) => UNCHANGED <<log, commitIndex>>
          /\ \A m \in msgs : RequestVote(m) => UNCHANGED <<log, commitIndex>>
      BY DEF ResumeAppend, RequestVote, serverVars
    <2> QED BY <2>1, <2>2, <2>3, <2>4, <2>5, <2>6, <2>7, <2>8, <2>9 DEF Next
  <1>2. [\A s \in Server : CommitsKeptAt(s)]_vars <=>
          [\A s \in Server :
             /\ commitIndex[s] <= Len(log'[s])
             /\ SubSeq(log'[s], 1, commitIndex[s]) = SubSeq(log[s], 1, commitIndex[s])
             /\ commitIndex'[s] >= commitIndex[s] \/ crashes' # crashes]_vars
    BY DEF CommitsKeptAt
  <1> QED BY <1>1, <1>2, LogInvariant, TypeInvariant, PTL DEF Spec, CommittedKept
=============================================================================
