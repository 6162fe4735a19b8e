------------------------- MODULE ShardMasterProofs -------------------------
(***************************************************************************)
(* Proofs about ShardMaster for any number of servers and clerks, any      *)
(* scripts and any bounds: what servers take for committed agrees, and a   *)
(* request changes the configuration of a server at most once.             *)
(***************************************************************************)
EXTENDS ShardMaster, FiniteSetTheorems, TLAPS

Entry == [cmd : Clerk \X Nat, term : Nat]

RaftTypes ==
    /\ currentTerm \in [Server -> Nat]
    /\ isLeader \in [Server -> BOOLEAN]
    /\ log \in [Server -> Seq(Entry)]
    /\ commitIndex \in [Server -> Nat]
    /\ lastApplied \in [Server -> Nat]
    /\ committed \in Seq(Entry)

(* Two leaders that think they lead are leaders of different terms. *)
TermsUnique == \A l, m \in Server :
    isLeader[l] /\ isLeader[m] /\ currentTerm[l] = currentTerm[m] => l = m

EntryTerms ==
    /\ \A s \in Server : \A i \in DOMAIN log[s] : log[s][i].term <= currentTerm[s]
    /\ \A i \in DOMAIN committed : \E s \in Server : committed[i].term <= currentTerm[s]

(* A leader has what servers of its term or an earlier one have committed. *)
LeadersHold == \A l, s \in Server :
    isLeader[l] /\ currentTerm[s] <= currentTerm[l] =>
        \A i \in 1 .. commitIndex[s] : i <= Len(log[l]) /\ log[l][i] = log[s][i]

Newest(l) == isLeader[l] /\ \A q \in Server : currentTerm[q] <= currentTerm[l]

(* The newest leader has all that is committed, and has itself committed   *)
(* what is of its own term.                                                *)
NewestHolds == \A l \in Server : Newest(l) =>
    \A i \in DOMAIN committed :
        /\ i <= Len(log[l]) /\ log[l][i] = committed[i]
        /\ committed[i].term = currentTerm[l] => i <= commitIndex[l]

AppliedCommitted == \A s \in Server : lastApplied[s] <= commitIndex[s]

LogInv == /\ RaftTypes /\ TermsUnique /\ EntryTerms /\ CommittedAgree
          /\ LeadersHold /\ NewestHolds /\ AppliedCommitted

(* Only the number of a clerk's request matters. *)
ClerkFields == {"seq", "pc", "srv", "index", "chan", "shared", "floor", "got"}

IsClerk(r) == r = [f \in ClerkFields |-> r[f]] /\ r.seq \in Nat

ClerkOK == clerk = [c \in Clerk |-> clerk[c]] /\ \A c \in Clerk : IsClerk(clerk[c])

SessionsOK ==
    /\ sessions = [s \in Server |-> [c \in Clerk |-> sessions[s][c]]]
    /\ \A s \in Server, c \in Clerk : sessions[s][c].lastSeqNum \in Nat

(* The session of a clerk is at or past every request of it that was run,  *)
(* and no request was run twice.                                           *)
RunsRecorded ==
    /\ ran \in [Server -> Seq(Clerk \X Nat)]
    /\ \A s \in Server : \A k \in DOMAIN ran[s] :
            ran[s][k][2] <= sessions[s][ran[s][k][1]].lastSeqNum

RunsOK == SessionsOK /\ RunsRecorded /\ AtMostOnce

Inv == LogInv /\ ClerkOK /\ RunsOK

-----------------------------------------------------------------------------
(* The log. *)

(* IsPrefix of SequencesExt, index by index. *)
LEMMA PrefixAt ==
    ASSUME NEW S, NEW p \in Seq(S), NEW q \in Seq(S), IsPrefix(p, q)
    PROVE  \A i \in 1 .. Len(p) : i <= Len(q) /\ q[i] = p[i]
BY DEF IsPrefix

(* The element facts of RaftTypes. *)
LEMMA TypeFacts ==
    ASSUME RaftTypes
    PROVE  /\ \A s \in Server : currentTerm[s] \in Nat /\ commitIndex[s] \in Nat
           /\ \A s \in Server : /\ log[s] \in Seq(Entry) /\ Len(log[s]) \in Nat
                                /\ DOMAIN log[s] = 1 .. Len(log[s])
                                /\ \A i \in DOMAIN log[s] : log[s][i].term \in Nat
           /\ Len(committed) \in Nat /\ DOMAIN committed = 1 .. Len(committed)
           /\ \A i \in DOMAIN committed : committed[i].term \in Nat
<1>1. \A q \in Seq(Entry) : /\ Len(q) \in Nat /\ DOMAIN q = 1 .. Len(q)
                           /\ \A i \in DOMAIN q : q[i] \in Entry
  OBVIOUS
<1>2. \A e \in Entry : e.term \in Nat
  BY DEF Entry
<1>3. \A s \in Server : log[s] \in Seq(Entry) /\ currentTerm[s] \in Nat /\ commitIndex[s] \in Nat
  BY DEF RaftTypes
<1>4. committed \in Seq(Entry)
  BY DEF RaftTypes
<1> QED
  BY <1>1, <1>2, <1>3, <1>4

(* RaftInit: nothing is in the logs and nobody leads. *)
LEMMA LogInit == RaftInit => LogInv
BY GroupSizeAssumption
   DEF RaftInit, LogInv, RaftTypes, TermsUnique, EntryTerms, CommittedAgree, LeadersHold,
       NewestHolds, Newest, AppliedCommitted, Server

(* Steps of clerks and services that leave Raft alone. *)
LEMMA LogUnchanged == LogInv /\ UNCHANGED raftVars => LogInv'
BY DEF raftVars, LogInv, RaftTypes, TermsUnique, EntryTerms, CommittedAgree, LeadersHold,
       NewestHolds, Newest, AppliedCommitted

(* Elect: the new leader has all that is committed, in a term above all.   *)
LEMMA LogElect == ASSUME LogInv, NEW s \in Server, Elect(s) PROVE LogInv'
<1>1. PICK newest \in Server, voters \in SUBSET Server :
        /\ \A q \in Server : currentTerm[q] < currentTerm[newest] + 1
        /\ s \in voters
        /\ IsPrefix(committed, log[s])
        /\ currentTerm' = [q \in Server |->
                IF q \in voters THEN currentTerm[newest] + 1 ELSE currentTerm[q]]
        /\ isLeader' = [q \in Server |-> IF q \in voters THEN q = s ELSE isLeader[q]]
        /\ UNCHANGED <<log, commitIndex, lastApplied, committed>>
  BY DEF Elect
<1> DEFINE t == currentTerm[newest] + 1
<1>2. RaftTypes /\ t \in Nat
  BY SMTT(120) DEF LogInv, RaftTypes
<1>3. RaftTypes'
  BY <1>1, <1>2 DEF RaftTypes
<1>4. \A q \in Server : /\ currentTerm[q] < t /\ currentTerm[q] \in Nat
                        /\ currentTerm'[q] = IF q \in voters THEN t ELSE currentTerm[q]
                        /\ isLeader'[q] = IF q \in voters THEN q = s ELSE isLeader[q]
  BY <1>1, <1>2 DEF RaftTypes
<1>5. \A i \in DOMAIN committed : i <= Len(log[s]) /\ log[s][i] = committed[i]
  BY <1>1, <1>2, PrefixAt DEF RaftTypes
<1> HIDE DEF t
<1>6. TermsUnique'
  <2> SUFFICES ASSUME NEW l \in Server, NEW m \in Server, isLeader'[l], isLeader'[m],
                      currentTerm'[l] = currentTerm'[m]
               PROVE  l = m
    BY DEF TermsUnique
  <2>1. l \in voters <=> m \in voters
    BY <1>2, <1>4
  <2>2. CASE l \in voters
    BY <2>1, <2>2, <1>4
  <2>3. CASE l \notin voters
    <3>1. isLeader[l] /\ isLeader[m] /\ currentTerm[l] = currentTerm[m]
      BY <2>1, <2>3, <1>4
    <3> QED
      BY <3>1 DEF LogInv, TermsUnique
  <2> QED
    BY <2>2, <2>3
<1>7. \A i \in DOMAIN committed : committed[i].term < t
  BY <1>2, <1>4, TypeFacts DEF LogInv, EntryTerms
<1>8. EntryTerms'
  BY <1>1, <1>2, <1>4, TypeFacts, SMTT(120) DEF LogInv, EntryTerms
<1>9. CommittedAgree' /\ AppliedCommitted'
  BY <1>1 DEF LogInv, CommittedAgree, AppliedCommitted
<1>10. LeadersHold'
  <2> SUFFICES ASSUME NEW l \in Server, NEW q \in Server, isLeader'[l],
                      currentTerm'[q] <= currentTerm'[l], NEW i \in 1 .. commitIndex[q]
               PROVE  i <= Len(log[l]) /\ log[l][i] = log[q][i]
    BY <1>1 DEF LeadersHold
  <2>1. i <= Len(committed) /\ log[q][i] = committed[i]
    BY DEF LogInv, CommittedAgree
  <2>2. i \in DOMAIN committed
    BY <2>1, <1>2, TypeFacts
  <2>3. CASE l \in voters
    BY <2>3, <2>1, <2>2, <1>4, <1>5
  <2>4. CASE l \notin voters
    <3>1. q \notin voters /\ isLeader[l] /\ currentTerm[q] <= currentTerm[l]
      BY <2>4, <1>2, <1>4
    <3> QED
      BY <3>1 DEF LogInv, LeadersHold
  <2> QED
    BY <2>3, <2>4
<1>11. NewestHolds'
  <2> SUFFICES ASSUME NEW l \in Server, Newest(l)', NEW i \in DOMAIN committed
               PROVE  /\ i <= Len(log[l]) /\ log[l][i] = committed[i]
                      /\ committed[i].term = currentTerm'[l] => i <= commitIndex[l]
    BY <1>1 DEF NewestHolds
  <2>1. isLeader'[l] /\ currentTerm'[s] <= currentTerm'[l]
    BY DEF Newest
  <2>2. currentTerm'[s] = t /\ l \in voters
    BY <2>1, <1>1, <1>2, <1>4
  <2>3. l = s /\ currentTerm'[l] = t
    BY <2>1, <2>2, <1>4
  <2> QED
    BY <2>3, <1>2, <1>5, <1>7, TypeFacts
<1> QED
  BY <1>3, <1>6, <1>8, <1>9, <1>10, <1>11 DEF LogInv

(* Replicate: the follower's log agrees with the leader's wherever one of  *)
(* them has committed.                                                     *)
LEMMA LogReplicate ==
    ASSUME LogInv, NEW l \in Server, NEW s \in Server, Replicate(l, s) PROVE LogInv'
<1>1. /\ l # s /\ isLeader[l] /\ currentTerm[l] >= currentTerm[s]
      /\ currentTerm' = [currentTerm EXCEPT ![s] = currentTerm[l]]
      /\ isLeader' = [isLeader EXCEPT ![s] = FALSE]
      /\ log' = [log EXCEPT ![s] = IF IsPrefix(log[l], @) THEN @ ELSE log[l]]
      /\ commitIndex' = [commitIndex EXCEPT ![s] = IF @ < commitIndex[l] THEN commitIndex[l] ELSE @]
      /\ UNCHANGED <<lastApplied, committed>>
  BY DEF Replicate
<1>2. RaftTypes
  BY DEF LogInv
<1>3. RaftTypes'
  BY <1>1, <1>2 DEF RaftTypes
<1>4. \A q \in Server \ {s} : /\ currentTerm'[q] = currentTerm[q] /\ isLeader'[q] = isLeader[q]
                              /\ log'[q] = log[q] /\ commitIndex'[q] = commitIndex[q]
  BY <1>1, <1>2 DEF RaftTypes
<1>5. /\ currentTerm'[s] = currentTerm[l] /\ ~isLeader'[s]
      /\ log'[s] = (IF IsPrefix(log[l], log[s]) THEN log[s] ELSE log[l])
      /\ commitIndex'[s] = IF commitIndex[s] < commitIndex[l] THEN commitIndex[l] ELSE commitIndex[s]
  BY <1>1, <1>2 DEF RaftTypes
<1>6. \A i \in 1 .. Len(log[l]) : i <= Len(log'[s]) /\ log'[s][i] = log[l][i]
  <2>1. CASE IsPrefix(log[l], log[s])
    BY <2>1, <1>2, <1>5, PrefixAt, TypeFacts
  <2>2. CASE ~IsPrefix(log[l], log[s])
    BY <2>2, <1>2, <1>5, TypeFacts
  <2> QED
    BY <2>1, <2>2
<1>7. \A i \in 1 .. commitIndex'[s] :
        /\ i <= Len(log'[s]) /\ log'[s][i] = log[l][i]
        /\ i <= Len(committed) /\ log[l][i] = committed[i]
        /\ i \in 1 .. commitIndex[l] \/ (i \in 1 .. commitIndex[s] /\ log[s][i] = log[l][i])
  <2> SUFFICES ASSUME NEW i \in 1 .. commitIndex'[s]
               PROVE  /\ i <= Len(log'[s]) /\ log'[s][i] = log[l][i]
                      /\ i <= Len(committed) /\ log[l][i] = committed[i]
                      /\ i \in 1 .. commitIndex[l] \/ (i \in 1 .. commitIndex[s] /\ log[s][i] = log[l][i])
    OBVIOUS
  <2>1. i \in 1 .. commitIndex[l] \/ i \in 1 .. commitIndex[s]
    BY <1>2, <1>5, TypeFacts
  <2>2. CASE i \in 1 .. commitIndex[l]
    <3>1. i <= Len(log[l]) /\ i <= Len(committed) /\ log[l][i] = committed[i]
      BY <2>2 DEF LogInv, CommittedAgree
    <3> QED
      BY <2>2, <3>1, <1>2, <1>6, TypeFacts
  <2>3. CASE i \in 1 .. commitIndex[s]
    <3>1. i <= Len(committed) /\ log[s][i] = committed[i]
      BY <2>3 DEF LogInv, CommittedAgree
    <3>2. currentTerm[s] <= currentTerm[l]
      BY <1>1, <1>2, TypeFacts
    <3>3. i <= Len(log[l]) /\ log[l][i] = log[s][i]
      BY <2>3, <1>1, <3>2 DEF LogInv, LeadersHold
    <3> QED
      BY <2>3, <3>1, <3>3, <1>2, <1>6, TypeFacts
  <2> QED
    BY <2>1, <2>2, <2>3
<1>8. TermsUnique'
  BY <1>4, <1>5 DEF LogInv, TermsUnique
<1>9. EntryTerms'
  <2>1. \A q \in Server : \A i \in DOMAIN log'[q] : log'[q][i].term <= currentTerm'[q]
    BY <1>1, <1>2, <1>4, <1>5, TypeFacts DEF LogInv, EntryTerms
  <2>2. \A i \in DOMAIN committed : \E q \in Server : committed[i].term <= currentTerm'[q]
    BY <1>1, <1>2, <1>4, <1>5, TypeFacts, SMTT(120) DEF LogInv, EntryTerms
  <2> QED
    BY <1>1, <2>1, <2>2 DEF EntryTerms
<1>10. CommittedAgree'
  BY <1>1, <1>4, <1>7 DEF LogInv, CommittedAgree
<1>11. AppliedCommitted'
  BY <1>1, <1>2, <1>4, <1>5 DEF LogInv, AppliedCommitted, RaftTypes
<1>12. LeadersHold'
  <2> SUFFICES ASSUME NEW m \in Server, NEW q \in Server, isLeader'[m],
                      currentTerm'[q] <= currentTerm'[m], NEW i \in 1 .. commitIndex'[q]
               PROVE  i <= Len(log'[m]) /\ log'[m][i] = log'[q][i]
    BY DEF LeadersHold
  <2>1. m # s /\ isLeader[m] /\ log'[m] = log[m] /\ currentTerm'[m] = currentTerm[m]
    BY <1>4, <1>5
  <2>2. CASE q # s
    BY <2>1, <2>2, <1>4 DEF LogInv, LeadersHold
  <2>3. CASE q = s
    <3>1. currentTerm[l] <= currentTerm[m] /\ currentTerm[s] <= currentTerm[m]
      BY <2>1, <2>3, <1>1, <1>2, <1>5, TypeFacts
    <3>2. CASE i \in 1 .. commitIndex[l]
      BY <2>1, <2>3, <3>1, <3>2, <1>7 DEF LogInv, LeadersHold
    <3>3. CASE i \in 1 .. commitIndex[s] /\ log[s][i] = log[l][i]
      BY <2>1, <2>3, <3>1, <3>3, <1>7 DEF LogInv, LeadersHold
    <3> QED
      BY <2>3, <3>2, <3>3, <1>7
  <2> QED
    BY <2>2, <2>3
<1>13. NewestHolds'
  <2> SUFFICES ASSUME NEW m \in Server, Newest(m)', NEW i \in DOMAIN committed
               PROVE  /\ i <= Len(log'[m]) /\ log'[m][i] = committed[i]
                      /\ committed[i].term = currentTerm'[m] => i <= commitIndex'[m]
    BY <1>1 DEF NewestHolds
  <2>1. m # s /\ isLeader[m]
    BY <1>4, <1>5 DEF Newest
  <2>2. \A q \in Server : currentTerm[q] <= currentTerm'[q]
    BY <1>1, <1>2, <1>4, <1>5, TypeFacts
  <2>3. \A q \in Server : currentTerm'[q] <= currentTerm[m]
    BY <2>1, <1>4 DEF Newest
  <2>4. \A q \in Server : currentTerm[q] \in Nat /\ currentTerm'[q] \in Nat
    BY <1>2, <1>3 DEF RaftTypes
  <2>5. Newest(m)
    BY <2>1, <2>2, <2>3, <2>4 DEF Newest
  <2> QED
    BY <2>1, <2>5, <1>4 DEF LogInv, NewestHolds
<1> QED
  BY <1>3, <1>8, <1>9, <1>10, <1>11, <1>12, <1>13 DEF LogInv

(* Commit: what the newest leader commits extends what was committed.      *)
LEMMA LogCommit == ASSUME LogInv, NEW l \in Server, Commit(l) PROVE LogInv'
<1>1. PICK n \in commitIndex[l] + 1 .. Len(log[l]) :
        /\ log[l][n].term = currentTerm[l]
        /\ commitIndex' = [commitIndex EXCEPT ![l] = n]
        /\ committed' = SubSeq(log[l], 1, n)
  BY DEF Commit
<1>2. RaftTypes /\ Newest(l) /\ UNCHANGED <<currentTerm, isLeader, log, lastApplied>>
  BY DEF LogInv, Commit, Newest
<1>3. n \in Nat /\ commitIndex[l] < n /\ n <= Len(log[l])
  BY <1>2, TypeFacts
<1>4. RaftTypes'
  BY <1>1, <1>2, <1>3 DEF RaftTypes
<1>5. Len(committed') = n /\ \A i \in 1 .. n : committed'[i] = log[l][i]
  BY <1>1, <1>2, <1>3, TypeFacts
<1>6. Len(committed) < n
  <2> SUFFICES ASSUME n <= Len(committed) PROVE FALSE
    BY <1>2, <1>3, TypeFacts
  <2>1. n \in DOMAIN committed
    BY <1>2, <1>3, TypeFacts
  <2>2. log[l][n] = committed[n] /\ (committed[n].term = currentTerm[l] => n <= commitIndex[l])
    BY <2>1, <1>2 DEF LogInv, NewestHolds
  <2> QED
    BY <2>2, <1>1, <1>2, <1>3, TypeFacts
<1>7. \A q \in Server : commitIndex'[q] = IF q = l THEN n ELSE commitIndex[q]
  BY <1>1, <1>2 DEF RaftTypes
<1>8. \A m \in Server : isLeader[m] /\ currentTerm[l] <= currentTerm[m] => m = l
  BY <1>2, TypeFacts DEF LogInv, TermsUnique, Newest
<1>9. TermsUnique'
  BY <1>2 DEF LogInv, TermsUnique
<1>10. EntryTerms'
  <2>1. \A i \in DOMAIN committed' : committed'[i].term <= currentTerm[l]
    <3>1. \A i \in DOMAIN committed' : i \in DOMAIN log[l] /\ committed'[i] = log[l][i]
      BY <1>2, <1>3, <1>4, <1>5, TypeFacts, SMTT(120) DEF RaftTypes
    <3> QED
      BY <3>1 DEF LogInv, EntryTerms
  <2> QED
    BY <2>1, <1>2 DEF LogInv, EntryTerms
<1>11. CommittedAgree'
  <2> SUFFICES ASSUME NEW q \in Server, NEW i \in 1 .. commitIndex'[q]
               PROVE  i <= Len(log[q]) /\ i <= n /\ log[q][i] = committed'[i]
    BY <1>2, <1>5 DEF CommittedAgree
  <2>1. CASE q = l
    BY <2>1, <1>3, <1>5, <1>7, <1>2, TypeFacts
  <2>2. CASE q # l
    <3>1. i \in 1 .. commitIndex[q]
      BY <2>2, <1>7
    <3>2. i <= Len(log[q]) /\ i <= Len(committed) /\ log[q][i] = committed[i]
      BY <3>1 DEF LogInv, CommittedAgree
    <3>3. i \in DOMAIN committed /\ i \in 1 .. n
      BY <3>1, <3>2, <1>2, <1>3, <1>6, TypeFacts
    <3>4. log[l][i] = committed[i]
      BY <3>3, <1>2 DEF LogInv, NewestHolds
    <3> QED
      BY <3>2, <3>3, <3>4, <1>5
  <2> QED
    BY <2>1, <2>2
<1>12. LeadersHold'
  <2> SUFFICES ASSUME NEW m \in Server, NEW q \in Server, isLeader[m],
                      currentTerm[q] <= currentTerm[m], NEW i \in 1 .. commitIndex'[q]
               PROVE  i <= Len(log[m]) /\ log[m][i] = log[q][i]
    BY <1>2 DEF LeadersHold
  <2>1. CASE q = l
    BY <2>1, <1>2, <1>3, <1>7, <1>8, TypeFacts
  <2>2. CASE q # l
    BY <2>2, <1>7 DEF LogInv, LeadersHold
  <2> QED
    BY <2>1, <2>2
<1>13. NewestHolds'
  <2> SUFFICES ASSUME NEW m \in Server, Newest(m), NEW i \in DOMAIN committed'
               PROVE  /\ i <= Len(log[m]) /\ log[m][i] = committed'[i]
                      /\ i <= commitIndex'[m]
    BY <1>2 DEF NewestHolds, Newest
  <2>1. m = l
    BY <1>8 DEF Newest
  <2>2. i \in 1 .. n
    BY <1>4, <1>5, TypeFacts DEF RaftTypes
  <2> QED
    BY <2>1, <2>2, <1>2, <1>3, <1>5, <1>7, TypeFacts
<1>14. AppliedCommitted'
  <2>1. \A q \in Server : lastApplied[q] \in Nat /\ commitIndex[q] \in Nat
    BY <1>2 DEF RaftTypes
  <2> QED
    BY <2>1, <1>2, <1>3, <1>7 DEF LogInv, AppliedCommitted
<1> QED
  BY <1>4, <1>9, <1>10, <1>11, <1>12, <1>13, <1>14 DEF LogInv

(* AppendToLog: a log grows at its end, by an entry of the leader's term.  *)
LEMMA LogAppend ==
    ASSUME LogInv, NEW s \in Server, NEW cmd \in Clerk \X Nat, AppendToLog(s, cmd) PROVE LogInv'
<1> DEFINE e == [cmd |-> cmd, term |-> currentTerm[s]]
<1>1. /\ log' = [log EXCEPT ![s] = Append(@, e)]
      /\ UNCHANGED <<currentTerm, isLeader, commitIndex, lastApplied, committed>>
  BY DEF AppendToLog
<1>2. RaftTypes /\ e \in Entry
  BY DEF LogInv, RaftTypes, Entry
<1>3. RaftTypes'
  BY <1>1, <1>2 DEF RaftTypes
<1>4. e.term = currentTerm[s]
  OBVIOUS
<1> HIDE DEF e
<1>5. \A q \in Server :
        /\ \A i \in 1 .. Len(log[q]) : i <= Len(log'[q]) /\ log'[q][i] = log[q][i]
        /\ \A i \in DOMAIN log'[q] : i \in DOMAIN log[q] \/ (q = s /\ log'[q][i] = e)
  BY <1>1, <1>2, TypeFacts, SMTT(120) DEF RaftTypes
<1>6. TermsUnique' /\ AppliedCommitted'
  BY <1>1 DEF LogInv, TermsUnique, AppliedCommitted
<1>7. EntryTerms'
  <2>1. ASSUME NEW q \in Server, NEW i \in DOMAIN log'[q]
        PROVE  log'[q][i].term <= currentTerm[q]
    <3>1. CASE i \in DOMAIN log[q]
      <4>1. log'[q][i] = log[q][i]
        BY <3>1, <1>2, <1>5, TypeFacts
      <4> QED
        BY <3>1, <4>1 DEF LogInv, EntryTerms
    <3>2. CASE q = s /\ log'[q][i] = e
      BY <3>2, <1>2, <1>4, TypeFacts
    <3> QED
      BY <3>1, <3>2, <1>5
  <2> QED
    BY <2>1, <1>1 DEF LogInv, EntryTerms
<1>8. CommittedAgree'
  <2> SUFFICES ASSUME NEW q \in Server, NEW i \in 1 .. commitIndex[q]
               PROVE  i <= Len(log'[q]) /\ i <= Len(committed) /\ log'[q][i] = committed[i]
    BY <1>1 DEF CommittedAgree
  <2>1. i <= Len(log[q]) /\ i <= Len(committed) /\ log[q][i] = committed[i]
    BY DEF LogInv, CommittedAgree
  <2> QED
    BY <2>1, <1>2, <1>5, TypeFacts
<1>9. LeadersHold'
  <2> SUFFICES ASSUME NEW l \in Server, NEW q \in Server, isLeader[l],
                      currentTerm[q] <= currentTerm[l], NEW i \in 1 .. commitIndex[q]
               PROVE  i <= Len(log'[l]) /\ log'[l][i] = log'[q][i]
    BY <1>1 DEF LeadersHold
  <2>1. i <= Len(log[l]) /\ log[l][i] = log[q][i] /\ i <= Len(log[q])
    BY DEF LogInv, LeadersHold, CommittedAgree
  <2> QED
    BY <2>1, <1>2, <1>5, TypeFacts
<1>10. NewestHolds'
  <2> SUFFICES ASSUME NEW l \in Server, Newest(l), NEW i \in DOMAIN committed
               PROVE  /\ i <= Len(log'[l]) /\ log'[l][i] = committed[i]
                      /\ committed[i].term = currentTerm[l] => i <= commitIndex[l]
    BY <1>1 DEF NewestHolds, Newest
  <2>1. /\ i <= Len(log[l]) /\ log[l][i] = committed[i]
        /\ committed[i].term = currentTerm[l] => i <= commitIndex[l]
    BY DEF LogInv, NewestHolds
  <2> QED
    BY <2>1, <1>2, <1>5, TypeFacts
<1> QED
  BY <1>3, <1>6, <1>7, <1>8, <1>9, <1>10 DEF LogInv

(* ApplyNext stays behind commitIndex. *)
LEMMA LogApply == ASSUME LogInv, NEW s \in Server, ApplyNext(s) PROVE LogInv'
<1>1. /\ lastApplied[s] < commitIndex[s] /\ lastApplied' = [lastApplied EXCEPT ![s] = @ + 1]
      /\ UNCHANGED <<currentTerm, isLeader, log, commitIndex, committed>>
  BY DEF ApplyNext
<1>2. RaftTypes' /\ AppliedCommitted'
  BY <1>1 DEF LogInv, RaftTypes, AppliedCommitted
<1> QED
  BY <1>1, <1>2 DEF LogInv, TermsUnique, EntryTerms, CommittedAgree, LeadersHold, NewestHolds,
                    Newest

(* RestartRaft forgets only what is learned again. *)
LEMMA LogRestart == ASSUME LogInv, NEW s \in Server, RestartRaft(s) PROVE LogInv'
<1>1. /\ isLeader' = [isLeader EXCEPT ![s] = FALSE]
      /\ commitIndex' = [commitIndex EXCEPT ![s] = 0]
      /\ lastApplied' = [lastApplied EXCEPT ![s] = 0]
      /\ UNCHANGED <<currentTerm, log, committed>>
  BY DEF RestartRaft
<1>2. RaftTypes /\ RaftTypes'
  BY <1>1 DEF LogInv, RaftTypes
<1>3. \A q \in Server : /\ isLeader'[q] = (q # s /\ isLeader[q])
                        /\ commitIndex'[q] = (IF q = s THEN 0 ELSE commitIndex[q])
                        /\ lastApplied'[q] = (IF q = s THEN 0 ELSE lastApplied[q])
  BY <1>1, <1>2 DEF RaftTypes
<1>4. \A q \in Server : 1 .. commitIndex'[q] \subseteq 1 .. commitIndex[q]
  BY <1>2, <1>3, TypeFacts
<1>5. /\ TermsUnique' /\ EntryTerms' /\ CommittedAgree' /\ LeadersHold' /\ AppliedCommitted'
  <2>1. TermsUnique' /\ EntryTerms'
    BY <1>1, <1>3 DEF LogInv, TermsUnique, EntryTerms
  <2>2. CommittedAgree'
    BY <1>1, <1>4 DEF LogInv, CommittedAgree
  <2>3. LeadersHold'
    BY <1>1, <1>3, <1>4 DEF LogInv, LeadersHold
  <2>4. AppliedCommitted'
    BY <1>3 DEF LogInv, AppliedCommitted
  <2> QED
    BY <2>1, <2>2, <2>3, <2>4
<1>6. NewestHolds'
  BY <1>1, <1>3, ZenonT(120) DEF LogInv, NewestHolds, Newest
<1> QED
  BY <1>2, <1>5, <1>6 DEF LogInv

-----------------------------------------------------------------------------
(* Clerks and sessions. *)

(* Changing any field but seq leaves a clerk a clerk. *)
LEMMA ClerkFieldChange ==
    ASSUME NEW r, IsClerk(r), NEW v
    PROVE  /\ IsClerk([r EXCEPT !.pc = v]) /\ IsClerk([r EXCEPT !.chan = v])
           /\ IsClerk([r EXCEPT !.shared = v])
           /\ \A w, x : /\ IsClerk([r EXCEPT !.pc = v, !.floor = w, !.shared = x])
                        /\ IsClerk([r EXCEPT !.pc = v, !.index = w, !.shared = x])
BY ZenonT(120) DEF IsClerk, ClerkFields

(* So does a new number. *)
LEMMA ClerkReturn ==
    ASSUME NEW r, IsClerk(r), NEW n \in Nat, NEW f, NEW g, NEW h
    PROVE  IsClerk([r EXCEPT !.seq = n, !.floor = f, !.got = g, !.shared = h])
BY DEF IsClerk, ClerkFields

(* AtNext keeps the number of the request. *)
LEMMA ClerkNext == ASSUME NEW r, IsClerk(r) PROVE IsClerk(AtNext(r))
BY DEF IsClerk, ClerkFields, AtNext

(* TryNext, Finish and Answer: the clerk's number stays or grows by one.   *)
LEMMA ClerkTryNext == ASSUME ClerkOK, NEW c \in Clerk, TryNext(c) PROVE ClerkOK'
BY ClerkNext DEF TryNext, ClerkOK

(* A clerk whose function returns has the next number. *)
LEMMA ClerkFinish == ASSUME ClerkOK, NEW c \in Clerk, NEW reply, Finish(c, reply) PROVE ClerkOK'
<1> DEFINE r == [FreshClerk EXCEPT !.seq = clerk[c].seq + 1, !.floor = clerk[c].floor,
                                   !.got = reply.config.num, !.shared = clerk[c].shared]
<1>1. clerk' = [clerk EXCEPT ![c] = r]
  BY DEF Finish
<1>2. clerk[c].seq \in Nat
  BY DEF ClerkOK, IsClerk
<1>3. IsClerk(FreshClerk)
  BY DEF IsClerk, ClerkFields, FreshClerk
<1>4. clerk[c].seq + 1 \in Nat
  BY <1>2
<1>5. IsClerk(r)
  BY <1>3, <1>4, ClerkReturn
<1> HIDE DEF r
<1> QED
  BY <1>1, <1>5 DEF ClerkOK

(* Either way an answer ends. *)
LEMMA ClerkAnswer == ASSUME ClerkOK, NEW c \in Clerk, NEW reply, Answer(c, reply) PROVE ClerkOK'
BY ClerkTryNext, ClerkFinish DEF Answer

(* A reply in a channel. *)
LEMMA ClerkPut == ASSUME ClerkOK, NEW cs, NEW reply, Put(cs, reply) PROVE ClerkOK'
BY ClerkFieldChange DEF Put, ClerkOK

(* Start: indexes and marks. *)
LEMMA ClerkStart == ASSUME ClerkOK, NEW c \in Clerk, Start(c) PROVE ClerkOK'
<1>1. CASE TryNext(c)
  BY <1>1, ClerkTryNext
<1>2. CASE ~TryNext(c)
  <2> DEFINE i == Len(log[clerk[c].srv]) + 1
             others == Holders(clerk[c].srv, i)
  <2>1. clerk' = [d \in Clerk |->
                      IF d = c THEN [clerk[c] EXCEPT !.pc = "create", !.index = i,
                                                     !.shared = others # {}]
                      ELSE IF d \in others THEN [clerk[d] EXCEPT !.shared = TRUE]
                      ELSE clerk[d]]
    BY <1>2 DEF Start
  <2> HIDE DEF i, others
  <2> QED
    BY <2>1, ClerkFieldChange DEF ClerkOK
<1> QED
  BY <1>1, <1>2

(* Every step of a clerk. *)
LEMMA ClerkSteps == ASSUME ClerkOK, NEW c \in Clerk, ClerkStep(c) PROVE ClerkOK'
<1>1. CASE Invoke(c)
  BY <1>1, ClerkFieldChange DEF Invoke, ClerkOK
<1>2. CASE LoseCall(c)
  BY <1>2, ClerkTryNext DEF LoseCall
<1>3. CASE EnterHandler(c)
  <2>1. (\E reply : Answer(c, reply)) \/ clerk' = [clerk EXCEPT ![c].pc = "start"]
    BY <1>3 DEF EnterHandler
  <2>2. CASE \E reply : Answer(c, reply)
    BY <2>2, ClerkAnswer
  <2>3. CASE clerk' = [clerk EXCEPT ![c].pc = "start"]
    BY <2>3, ClerkFieldChange DEF ClerkOK
  <2> QED
    BY <2>1, <2>2, <2>3
<1>4. CASE Start(c)
  BY <1>4, ClerkStart
<1>5. CASE createNotifyCh(c)
  BY <1>5, ClerkFieldChange DEF createNotifyCh, ClerkOK
<1>6. CASE Receive(c)
  BY <1>6, ClerkAnswer DEF Receive
<1>7. CASE Timeout(c)
  BY <1>7, ClerkTryNext DEF Timeout
<1> QED
  BY <1>1, <1>2, <1>3, <1>4, <1>5, <1>6, <1>7 DEF ClerkStep

(* Every step of a server. *)
LEMMA ClerkServerSteps == ASSUME ClerkOK, NEW s \in Server, ServerStep(s) PROVE ClerkOK'
<1>1. CASE applyConfigChange(s)
  <2>1. clerk' = clerk \/ \E cs, reply : Put(cs, reply)
    BY <1>1 DEF applyConfigChange, Notify
  <2> QED
    BY <2>1, ClerkPut DEF ClerkOK
<1>2. CASE \E i \in Index : closeNotifyCh(s, i)
  BY <1>2, ClerkPut DEF closeNotifyCh
<1>3. CASE Restart(s)
  BY <1>3, ClerkNext DEF Restart, ClerkOK
<1>4. CASE UNCHANGED clerk
  BY <1>4 DEF ClerkOK
<1> QED
  BY <1>1, <1>2, <1>3, <1>4 DEF ServerStep, RaftStep

(* The log over every step: clerks append requests, servers do the rest.   *)
LEMMA LogStep == ASSUME LogInv, ClerkOK, [Next]_vars PROVE LogInv'
<1>1. ASSUME NEW c \in Clerk, ClerkStep(c) PROVE LogInv'
  <2>1. CASE Start(c)
    <3>1. Request(c) \in Clerk \X Nat
      BY DEF Request, ClerkOK, IsClerk
    <3>2. CASE isLeader[clerk[c].srv]
      <4>1. AppendToLog(clerk[c].srv, Request(c))
        BY <2>1, <3>2 DEF Start
      <4>2. CASE clerk[c].srv \in Server
        BY <4>1, <4>2, <3>1, LogAppend
      <4>3. CASE clerk[c].srv \notin Server
        <5>1. UNCHANGED raftVars
          BY <4>1, <4>3 DEF AppendToLog, raftVars, LogInv, RaftTypes
        <5> QED
          BY <5>1, LogUnchanged
      <4> QED
        BY <4>2, <4>3
    <3>3. CASE ~isLeader[clerk[c].srv]
      BY <2>1, <3>3, LogUnchanged DEF Start
    <3> QED
      BY <3>2, <3>3
  <2>2. CASE UNCHANGED raftVars
    BY <2>2, LogUnchanged
  <2> QED
    BY <1>1, <2>1, <2>2 DEF ClerkStep, Invoke, LoseCall, EnterHandler, createNotifyCh, Receive,
                            Timeout, LeaveSelect
<1>2. ASSUME NEW s \in Server, ServerStep(s) PROVE LogInv'
  <2>1. CASE RaftStep(Elect(s))
    BY <2>1, LogElect DEF RaftStep
  <2>2. CASE RaftStep(Commit(s))
    BY <2>2, LogCommit DEF RaftStep
  <2>3. CASE \E l \in Server : RaftStep(Replicate(l, s))
    BY <2>3, LogReplicate DEF RaftStep
  <2>4. CASE applyConfigChange(s)
    BY <2>4, LogApply DEF applyConfigChange
  <2>5. CASE \E i \in Index : closeNotifyCh(s, i)
    BY <2>5, LogUnchanged DEF closeNotifyCh
  <2>6. CASE Restart(s)
    BY <2>6, LogRestart DEF Restart
  <2> QED
    BY <1>2, <2>1, <2>2, <2>3, <2>4, <2>5, <2>6 DEF ServerStep
<1>3. CASE UNCHANGED vars
  BY <1>3, LogUnchanged DEF vars
<1> QED
  BY <1>1, <1>2, <1>3 DEF Next

(* Append, index by index. *)
LEMMA AppendFacts ==
    ASSUME NEW S, NEW q \in Seq(S), NEW r \in S
    PROVE  /\ DOMAIN Append(q, r) = 1 .. Len(q) + 1 /\ DOMAIN q = 1 .. Len(q)
           /\ \A k \in 1 .. Len(q) : Append(q, r)[k] = q[k] /\ q[k] \in S
           /\ Append(q, r)[Len(q) + 1] = r /\ Len(q) \in Nat
OBVIOUS

(* applyConfigChange: a request is run only if its clerk's session is      *)
(* behind it, and the session is then at it.                               *)
LEMMA RunsApply ==
    ASSUME LogInv, RunsOK, NEW s \in Server, applyConfigChange(s) PROVE RunsOK'
<1> DEFINE i == lastApplied[s] + 1
           req == log[s][i].cmd
           done == [err |-> "OK", config |-> InitConfig]
<1>1. CASE UNCHANGED <<sessions, ran>>
  BY <1>1 DEF RunsOK, SessionsOK, RunsRecorded, AtMostOnce
<1>2. CASE /\ Op(req).type # "Query" /\ ~IsRepeated(s, req)
           /\ sessions' = [sessions EXCEPT ![s][req[1]] =
                                [lastSeqNum |-> req[2], response |-> done]]
           /\ ran' = [ran EXCEPT ![s] = Append(@, req)]
  <2>1. i \in DOMAIN log[s]
    <3>1. lastApplied[s] \in Nat /\ lastApplied[s] < commitIndex[s] /\ RaftTypes
      BY DEF LogInv, RaftTypes, applyConfigChange, ApplyNext
    <3>2. i \in 1 .. commitIndex[s]
      BY <3>1, TypeFacts
    <3>3. i <= Len(log[s])
      BY <3>2 DEF LogInv, CommittedAgree
    <3> QED
      BY <3>1, <3>2, <3>3, TypeFacts
  <2>2. req \in Clerk \X Nat
    <3>1. log[s][i] \in Entry
      BY <2>1 DEF LogInv, RaftTypes
    <3> QED
      BY <3>1 DEF Entry
  <2> HIDE DEF i, req, done
  <2>3. PICK c \in Clerk, n \in Nat : req = <<c, n>>
    BY <2>2
  <2>4. req[1] = c /\ req[2] = n
    BY <2>3
  <2>5. sessions[s][c].lastSeqNum \in Nat /\ sessions[s][c].lastSeqNum < n
    BY <1>2, <2>3, <2>4 DEF IsRepeated, RunsOK, SessionsOK
  <2>6. sessions = [q \in Server |-> [d \in Clerk |-> sessions[q][d]]]
    BY DEF RunsOK, SessionsOK
  <2>7. /\ sessions' = [q \in Server |-> [d \in Clerk |-> sessions'[q][d]]]
        /\ \A q \in Server, d \in Clerk : q # s \/ d # c => sessions'[q][d] = sessions[q][d]
        /\ sessions'[s][c].lastSeqNum = n
    <3> DEFINE new == [lastSeqNum |-> n, response |-> done]
    <3>1. sessions' = [sessions EXCEPT ![s][c] = new]
      BY <1>2, <2>4
    <3>2. new.lastSeqNum = n
      OBVIOUS
    <3> HIDE DEF new
    <3>3. /\ sessions' = [q \in Server |-> [d \in Clerk |-> sessions'[q][d]]]
          /\ \A q \in Server, d \in Clerk : q # s \/ d # c => sessions'[q][d] = sessions[q][d]
          /\ sessions'[s][c] = new
      BY <3>1, <2>6
    <3> QED
      BY <3>2, <3>3
  <2>8. SessionsOK'
    <3>1. \A q \in Server, d \in Clerk : sessions[q][d].lastSeqNum \in Nat
      BY DEF RunsOK, SessionsOK
    <3>2. \A q \in Server, d \in Clerk : sessions'[q][d].lastSeqNum \in Nat
      BY <3>1, <2>7
    <3> QED
      BY <3>2, <2>7 DEF SessionsOK
  <2>9. ran \in [Server -> Seq(Clerk \X Nat)]
    BY DEF RunsOK, RunsRecorded
  <2>10. /\ ran' \in [Server -> Seq(Clerk \X Nat)]
         /\ \A q \in Server : q # s => ran'[q] = ran[q]
         /\ ran'[s] = Append(ran[s], req) /\ ran[s] \in Seq(Clerk \X Nat)
    BY <1>2, <2>2, <2>9
  <2>11. /\ DOMAIN ran'[s] = 1 .. Len(ran[s]) + 1 /\ DOMAIN ran[s] = 1 .. Len(ran[s])
         /\ \A k \in 1 .. Len(ran[s]) : ran'[s][k] = ran[s][k] /\ ran[s][k] \in Clerk \X Nat
         /\ ran'[s][Len(ran[s]) + 1] = req /\ Len(ran[s]) \in Nat
    BY <2>2, <2>10, AppendFacts, SMTT(120)
  <2>12. \A k \in 1 .. Len(ran[s]) :
            /\ ran[s][k][1] \in Clerk /\ ran[s][k][2] \in Nat
            /\ ran[s][k][2] <= sessions[s][ran[s][k][1]].lastSeqNum
    BY <2>11 DEF RunsOK, RunsRecorded
  <2>13. \A k \in 1 .. Len(ran[s]) : ran[s][k] # req
    BY <2>4, <2>5, <2>12, SMTT(120)
  <2>14. \A k \in DOMAIN ran'[s] : ran'[s][k][2] <= sessions'[s][ran'[s][k][1]].lastSeqNum
    <3> SUFFICES ASSUME NEW k \in DOMAIN ran'[s]
                 PROVE  ran'[s][k][2] <= sessions'[s][ran'[s][k][1]].lastSeqNum
      OBVIOUS
    <3>1. CASE k = Len(ran[s]) + 1
      <4>1. ran'[s][k][1] = c /\ ran'[s][k][2] = n
        BY <3>1, <2>4, <2>11
      <4> QED
        BY <4>1, <2>7
    <3>2. CASE k \in 1 .. Len(ran[s]) /\ ran[s][k][1] = c
      BY <3>2, <2>5, <2>7, <2>11, <2>12, SMTT(120)
    <3>3. CASE k \in 1 .. Len(ran[s]) /\ ran[s][k][1] # c
      BY <3>3, <2>7, <2>11, <2>12, SMTT(120)
    <3> QED
      BY <3>1, <3>2, <3>3, <2>11
  <2>15. RunsRecorded'
    <3>1. \A z \in Seq(Clerk \X Nat) : \A k \in DOMAIN z : z[k] \in Clerk \X Nat
      OBVIOUS
    <3>2. ASSUME NEW q \in Server, q # s, NEW k \in DOMAIN ran'[q]
          PROVE  ran'[q][k][2] <= sessions'[q][ran'[q][k][1]].lastSeqNum
      <4>1. ran'[q] = ran[q] /\ k \in DOMAIN ran[q] /\ ran[q] \in Seq(Clerk \X Nat)
        BY <3>2, <2>9, <2>10
      <4>2. ran[q][k][1] \in Clerk
        BY <4>1, <3>1
      <4>3. ran[q][k][2] <= sessions[q][ran[q][k][1]].lastSeqNum
        BY <4>1 DEF RunsOK, RunsRecorded
      <4> QED
        BY <4>1, <4>2, <4>3, <3>2, <2>7
    <3> QED
      BY <3>2, <2>10, <2>14 DEF RunsRecorded
  <2>16. AtMostOnce'
    <3>1. IsInjective(ran'[s])
      <4>1. \A j, k \in 1 .. Len(ran[s]) : ran[s][j] = ran[s][k] => j = k
        BY <2>11 DEF RunsOK, AtMostOnce, IsInjective
      <4>2. ASSUME NEW j \in DOMAIN ran'[s], NEW k \in DOMAIN ran'[s], ran'[s][j] = ran'[s][k]
            PROVE  j = k
        <5>1. CASE j \in 1 .. Len(ran[s]) /\ k \in 1 .. Len(ran[s])
          BY <5>1, <4>1, <4>2, <2>11
        <5>2. CASE j = Len(ran[s]) + 1 /\ k \in 1 .. Len(ran[s])
          BY <5>2, <4>2, <2>11, <2>13
        <5>3. CASE k = Len(ran[s]) + 1 /\ j \in 1 .. Len(ran[s])
          BY <5>3, <4>2, <2>11, <2>13
        <5> QED
          BY <5>1, <5>2, <5>3, <2>11
      <4> QED
        BY <4>2 DEF IsInjective
    <3> QED
      BY <3>1, <2>10 DEF RunsOK, AtMostOnce, IsInjective
  <2> QED
    BY <2>8, <2>15, <2>16 DEF RunsOK
<1> QED
  BY <1>1, <1>2 DEF applyConfigChange

(* Sessions and runs over every step; a restart starts both from nothing.  *)
LEMMA RunsStep == ASSUME LogInv, RunsOK, [Next]_vars PROVE RunsOK'
<1>1. CASE UNCHANGED <<sessions, ran>>
  BY <1>1 DEF RunsOK, SessionsOK, RunsRecorded, AtMostOnce
<1>2. CASE \E s \in Server : applyConfigChange(s)
  BY <1>2, RunsApply
<1>3. ASSUME NEW s \in Server, Restart(s) PROVE RunsOK'
  <2>1. /\ sessions' = [sessions EXCEPT ![s] = [c \in Clerk |-> NoSession]]
        /\ ran' = [ran EXCEPT ![s] = <<>>]
    BY <1>3 DEF Restart
  <2>2. SessionsOK'
    BY <2>1 DEF RunsOK, SessionsOK, NoSession
  <2>3. ran \in [Server -> Seq(Clerk \X Nat)]
    BY DEF RunsOK, RunsRecorded
  <2>4. /\ ran' \in [Server -> Seq(Clerk \X Nat)] /\ DOMAIN ran'[s] = {}
        /\ \A q \in Server : q # s => ran'[q] = ran[q] /\ sessions'[q] = sessions[q]
    BY <2>1, <2>3 DEF RunsOK, SessionsOK
  <2>5. RunsRecorded' /\ AtMostOnce'
    BY <2>4 DEF RunsOK, RunsRecorded, AtMostOnce, IsInjective
  <2> QED
    BY <2>2, <2>5 DEF RunsOK
<1> QED
  BY <1>1, <1>2, <1>3
     DEF Next, ClerkStep, ServerStep, RaftStep, Invoke, LoseCall, EnterHandler, Start,
         createNotifyCh, Receive, Timeout, LeaveSelect, closeNotifyCh, vars, smVars

(* The first state. *)
LEMMA InvInit == Init => Inv
<1> SUFFICES ASSUME Init PROVE Inv
  OBVIOUS
<1>1. LogInv
  BY LogInit DEF Init
<1>2. ClerkOK
  BY DEF Init, ClerkOK, IsClerk, ClerkFields, FreshClerk
<1>3. RunsOK
  BY DEF Init, RunsOK, SessionsOK, NoSession, RunsRecorded, AtMostOnce, IsInjective
<1> QED
  BY <1>1, <1>2, <1>3 DEF Inv

(* Every step. *)
LEMMA InvStep == Inv /\ [Next]_vars => Inv'
<1> SUFFICES ASSUME Inv, [Next]_vars PROVE Inv'
  OBVIOUS
<1>1. LogInv' /\ RunsOK'
  BY LogStep, RunsStep DEF Inv
<1>2. ClerkOK'
  <2>1. CASE UNCHANGED vars
    BY <2>1 DEF Inv, ClerkOK, vars
  <2> QED
    BY <2>1, ClerkSteps, ClerkServerSteps DEF Inv, Next
<1> QED
  BY <1>1, <1>2 DEF Inv

(* Entries that servers have committed are in their logs and agree, over   *)
(* any number of elections, restarts and overwritten entries.              *)
THEOREM LogsAgree == Spec => []CommittedAgree
<1>1. Inv => CommittedAgree
  BY DEF Inv, LogInv
<1> QED
  BY <1>1, InvInit, InvStep, PTL DEF Spec

(* server.go:306: however often a request is in the log, it makes one      *)
(* configuration on a server.                                              *)
THEOREM RequestsRunOnce == Spec => []AtMostOnce
<1>1. Inv => AtMostOnce
  BY DEF Inv, RunsOK
<1> QED
  BY <1>1, InvInit, InvStep, PTL DEF Spec
-----------------------------------------------------------------------------
(* Answers.  What is told of a state that changes is stated of values, so  *)
(* that it can be used of a state and of the next alike.                   *)

(* The request is among these entries. *)
Held(entries, req) == \E i \in DOMAIN entries : entries[i].cmd = req

(* If a leader has an entry of its own term at index i, it is req's. *)
Owns(leads, entries, term, i, req) ==
    leads /\ i \in DOMAIN entries /\ entries[i].term = term => entries[i].cmd = req

(* The clerk c, in state r: unless its index was given away, its handler   *)
(* waits for an entry of its own, and has only been told of one that is    *)
(* committed.                                                              *)
ToldTrue(c, r, leads, logs, terms, entries) ==
    /\ r.srv \in Server /\ r.index \in Nat /\ r.shared \in BOOLEAN /\ r.seq \in Nat \ {0}
    /\ r.pc # "wait" => r.chan = <<>>
    /\ r.pc \in {"create", "wait"} /\ ~r.shared =>
            Owns(leads[r.srv], logs[r.srv], terms[r.srv], r.index, <<c, r.seq>>)
    /\ r.chan # <<>> /\ Head(r.chan).err = "OK" /\ ~r.shared => Held(entries, <<c, r.seq>>)

ClerksTold == \A c \in Clerk : ToldTrue(c, clerk[c], isLeader, log, currentTerm, committed)

(* An answer that a session keeps is that of a committed request. *)
SessionsTold == \A s \in Server, c \in Clerk :
    sessions[s][c].response.err = "OK" => Held(committed, <<c, sessions[s][c].lastSeqNum>>)

AckInv == ClerksTold /\ SessionsTold /\ AckedKept

(* Entries are only added. *)
Extended(old, new) == \A i \in DOMAIN old : i \in DOMAIN new /\ new[i] = old[i]

(* What a server holds in office it held in that office before. *)
OfficeKept(s) ==
    \A i \in DOMAIN log'[s] : isLeader'[s] /\ log'[s][i].term = currentTerm'[s] =>
        isLeader[s] /\ i \in DOMAIN log[s] /\ log[s][i] = log'[s][i] /\ currentTerm'[s] = currentTerm[s]

(* A committed request stays committed. *)
LEMMA HeldKept ==
    ASSUME NEW old, NEW new, Extended(old, new), NEW req, Held(old, req)
    PROVE  Held(new, req)
BY DEF Extended, Held

(* Elect and Replicate: whoever takes office, or hears of another leader,  *)
(* has no entry of its term.                                               *)
LEMMA ElectKeepsOffice ==
    ASSUME LogInv, NEW s \in Server, Elect(s), NEW q \in Server PROVE OfficeKept(q)
<1>1. PICK newest \in Server, voters \in SUBSET Server :
        /\ \A p \in Server : currentTerm[p] < currentTerm[newest] + 1
        /\ currentTerm' = [p \in Server |->
                IF p \in voters THEN currentTerm[newest] + 1 ELSE currentTerm[p]]
        /\ isLeader' = [p \in Server |-> IF p \in voters THEN p = s ELSE isLeader[p]]
        /\ log' = log
  BY DEF Elect
<1>2. RaftTypes /\ currentTerm[newest] + 1 \in Nat /\ currentTerm[q] < currentTerm[newest] + 1
  BY <1>1, SMTT(120) DEF LogInv, RaftTypes
<1>3. \A i \in DOMAIN log[q] : log[q][i].term <= currentTerm[q] /\ log[q][i].term \in Nat
  BY <1>2, TypeFacts DEF LogInv, EntryTerms
<1>4. CASE q \in voters
  <2>1. currentTerm'[q] = currentTerm[newest] + 1 /\ currentTerm[q] \in Nat
    BY <1>1, <1>2, <1>4 DEF RaftTypes
  <2>2. \A i \in DOMAIN log'[q] : log'[q][i].term # currentTerm'[q]
    BY <1>1, <1>2, <1>3, <2>1
  <2> QED
    BY <2>2 DEF OfficeKept
<1>5. CASE q \notin voters
  BY <1>1, <1>5 DEF OfficeKept
<1> QED
  BY <1>4, <1>5

(* The other steps of Raft change nobody's entries in office. *)
LEMMA QuietKeepsOffice ==
    ASSUME LogInv, NEW s \in Server,
           \/ \E l \in Server : Replicate(l, s)
           \/ Commit(s) \/ ApplyNext(s) \/ RestartRaft(s) \/ UNCHANGED raftVars,
           NEW q \in Server
    PROVE  OfficeKept(q)
<1>1. RaftTypes
  BY DEF LogInv
<1>2. CASE \E l \in Server : Replicate(l, s)
  BY <1>1, <1>2 DEF Replicate, OfficeKept, RaftTypes
<1>3. CASE Commit(s) \/ ApplyNext(s) \/ UNCHANGED raftVars
  BY <1>3 DEF Commit, ApplyNext, raftVars, OfficeKept
<1>4. CASE RestartRaft(s)
  BY <1>1, <1>4 DEF RestartRaft, OfficeKept, RaftTypes
<1> QED
  BY <1>2, <1>3, <1>4

(* What is committed is only added to. *)
LEMMA CommittedExtended ==
    ASSUME LogInv, [Next]_vars PROVE Extended(committed, committed')
<1>1. CASE committed' = committed
  BY <1>1 DEF Extended
<1>2. ASSUME NEW l \in Server, Commit(l) PROVE Extended(committed, committed')
  <2>1. PICK n \in commitIndex[l] + 1 .. Len(log[l]) :
          /\ log[l][n].term = currentTerm[l] /\ committed' = SubSeq(log[l], 1, n)
    BY <1>2 DEF Commit
  <2>2. RaftTypes /\ Newest(l)
    BY <1>2 DEF LogInv, Commit, Newest
  <2>3. n \in Nat /\ commitIndex[l] < n /\ n <= Len(log[l])
    BY <2>2, TypeFacts
  <2>4. DOMAIN committed' = 1 .. n /\ \A i \in 1 .. n : committed'[i] = log[l][i]
    BY <2>1, <2>2, <2>3, TypeFacts
  <2>5. Len(committed) < n
    <3> SUFFICES ASSUME n <= Len(committed) PROVE FALSE
      BY <2>2, <2>3, TypeFacts
    <3>1. n \in DOMAIN committed
      BY <2>2, <2>3, TypeFacts
    <3>2. log[l][n] = committed[n] /\ (committed[n].term = currentTerm[l] => n <= commitIndex[l])
      BY <3>1, <2>2 DEF LogInv, NewestHolds
    <3> QED
      BY <3>2, <2>1, <2>2, <2>3, TypeFacts
  <2>6. \A i \in DOMAIN committed : i \in 1 .. n
    BY <2>2, <2>3, <2>5, TypeFacts
  <2> QED
    BY <2>2, <2>4, <2>6 DEF LogInv, NewestHolds, Extended
<1> QED
  BY <1>1, <1>2, ZenonT(120)
     DEF Next, ClerkStep, ServerStep, RaftStep, Invoke, LoseCall, EnterHandler, Start, AppendToLog,
         createNotifyCh, Receive, Timeout, LeaveSelect, closeNotifyCh, applyConfigChange, ApplyNext,
         Restart, RestartRaft, Elect, Replicate, vars, smVars, raftVars
-----------------------------------------------------------------------------
(* A clerk whose state stays, whatever Raft does. *)
LEMMA ToldStays ==
    ASSUME NEW c, NEW r, ToldTrue(c, r, isLeader, log, currentTerm, committed),
           \A q \in Server : OfficeKept(q), Extended(committed, committed')
    PROVE  ToldTrue(c, r, isLeader', log', currentTerm', committed')
<1>1. Owns(isLeader[r.srv], log[r.srv], currentTerm[r.srv], r.index, <<c, r.seq>>) =>
          Owns(isLeader'[r.srv], log'[r.srv], currentTerm'[r.srv], r.index, <<c, r.seq>>)
  BY DEF OfficeKept, Owns, ToldTrue
<1>2. Held(committed, <<c, r.seq>>) => Held(committed', <<c, r.seq>>)
  BY HeldKept
<1> QED
  BY <1>1, <1>2 DEF ToldTrue

(* A clerk that turns to the next server. *)
LEMMA ToldNext ==
    ASSUME NEW c, NEW r, IsClerk(r), r.srv \in Server, r.seq \in Nat \ {0},
           NEW leads, NEW logs, NEW terms, NEW entries
    PROVE  ToldTrue(c, AtNext(r), leads, logs, terms, entries)
<1> DEFINE q == AtNext(r)
<1>1. /\ q.pc = "call" /\ q.index = 0 /\ q.chan = <<>> /\ q.shared \in BOOLEAN /\ q.seq = r.seq
      /\ q.srv = IF r.srv + 1 \in Server THEN r.srv + 1 ELSE 1
  BY DEF IsClerk, ClerkFields, AtNext
<1>2. 1 \in Server
  BY GroupSizeAssumption DEF Server
<1> HIDE DEF q
<1>3. q.srv \in Server
  BY <1>1, <1>2
<1>4. /\ q.srv \in Server /\ q.index \in Nat /\ q.shared \in BOOLEAN /\ q.seq \in Nat \ {0}
      /\ q.pc # "wait" /\ q.pc # "create" /\ q.chan = <<>>
  BY <1>1, <1>3
<1>5. ToldTrue(c, q, leads, logs, terms, entries)
  BY <1>4 DEF ToldTrue
<1> QED
  BY <1>5 DEF q

(* A clerk whose function has returned. *)
LEMMA ToldReturn ==
    ASSUME NEW c, NEW n \in Nat \ {0}, NEW f, NEW g, NEW h \in BOOLEAN,
           NEW leads, NEW logs, NEW terms, NEW entries
    PROVE  LET r == [FreshClerk EXCEPT !.seq = n, !.floor = f, !.got = g, !.shared = h]
           IN  ToldTrue(c, r, leads, logs, terms, entries) /\ r.seq = n
<1> DEFINE r == [FreshClerk EXCEPT !.seq = n, !.floor = f, !.got = g, !.shared = h]
<1>1. /\ r.pc = "idle" /\ r.index = 0 /\ r.chan = <<>> /\ r.srv = 1
      /\ r.shared = h /\ r.seq = n
  BY DEF FreshClerk
<1>2. 1 \in Server
  BY GroupSizeAssumption DEF Server
<1> HIDE DEF r
<1>3. ToldTrue(c, r, leads, logs, terms, entries)
  BY <1>1, <1>2 DEF ToldTrue
<1> QED
  BY <1>1, <1>3 DEF r

(* An answer that is put into a clerk's channel. *)
LEMMA ToldPut ==
    ASSUME NEW c, NEW r, IsClerk(r), r.pc = "wait", NEW reply,
           NEW leads, NEW logs, NEW terms, NEW entries,
           ToldTrue(c, r, leads, logs, terms, entries),
           reply.err = "OK" /\ ~r.shared => Held(entries, <<c, r.seq>>)
    PROVE  ToldTrue(c, [r EXCEPT !.chan = <<reply>>], leads, logs, terms, entries)
<1> DEFINE q == [r EXCEPT !.chan = <<reply>>]
<1>1. /\ q.pc = r.pc /\ q.index = r.index /\ q.srv = r.srv /\ q.shared = r.shared /\ q.seq = r.seq
      /\ q.chan = <<reply>>
  BY DEF IsClerk, ClerkFields
<1>2. Head(<<reply>>) = reply
  OBVIOUS
<1> HIDE DEF q
<1>3. ToldTrue(c, q, leads, logs, terms, entries)
  BY <1>1, <1>2 DEF ToldTrue
<1> QED
  BY <1>3 DEF q

(* The handler goes on, or the clerk's function is called.                 *)
LEMMA ToldGoesOn ==
    ASSUME NEW c, NEW r, IsClerk(r), r.chan = <<>>,
           NEW leads, NEW logs, NEW terms, NEW entries,
           ToldTrue(c, r, leads, logs, terms, entries)
    PROVE  /\ ToldTrue(c, [r EXCEPT !.pc = "start"], leads, logs, terms, entries)
           /\ r.pc = "create" => ToldTrue(c, [r EXCEPT !.pc = "wait"], leads, logs, terms, entries)
           /\ \A f : ToldTrue(c, [r EXCEPT !.pc = "call", !.floor = f, !.shared = FALSE],
                              leads, logs, terms, entries)
<1>1. LET q == [r EXCEPT !.pc = "start"]
      IN  /\ q.pc = "start" /\ q.index = r.index /\ q.srv = r.srv /\ q.shared = r.shared
          /\ q.seq = r.seq /\ q.chan = r.chan
  BY DEF IsClerk, ClerkFields
<1>2. LET q == [r EXCEPT !.pc = "wait"]
      IN  /\ q.pc = "wait" /\ q.index = r.index /\ q.srv = r.srv /\ q.shared = r.shared
          /\ q.seq = r.seq /\ q.chan = r.chan
  BY DEF IsClerk, ClerkFields
<1>3. ASSUME NEW f
      PROVE  ToldTrue(c, [r EXCEPT !.pc = "call", !.floor = f, !.shared = FALSE],
                      leads, logs, terms, entries)
  <2> DEFINE q == [r EXCEPT !.pc = "call", !.floor = f, !.shared = FALSE]
  <2>1. /\ q.pc = "call" /\ q.index = r.index /\ q.srv = r.srv /\ q.shared = FALSE
        /\ q.seq = r.seq /\ q.chan = r.chan
    BY DEF IsClerk, ClerkFields
  <2> HIDE DEF q
  <2>2. ToldTrue(c, q, leads, logs, terms, entries)
    BY <2>1 DEF ToldTrue
  <2> QED
    BY <2>2 DEF q
<1> QED
  BY <1>1, <1>2, <1>3 DEF ToldTrue

(* What there is to keep of other clerks, sessions and earlier answers.    *)
LEMMA OthersTold ==
    ASSUME AckInv, LogInv, [Next]_vars, \A q \in Server : OfficeKept(q)
    PROVE  /\ \A c \in Clerk : ToldTrue(c, clerk[c], isLeader', log', currentTerm', committed')
           /\ sessions' = sessions => SessionsTold'
           /\ \A req : Durable(req) => Held(committed', req)
<1>1. Extended(committed, committed')
  BY CommittedExtended
<1>2. \A c \in Clerk : ToldTrue(c, clerk[c], isLeader', log', currentTerm', committed')
  BY <1>1, ToldStays DEF AckInv, ClerksTold
<1>3. \A req : Held(committed, req) => Held(committed', req)
  BY <1>1, HeldKept
<1> QED
  BY <1>2, <1>3, SMTT(120) DEF AckInv, SessionsTold, Held, Durable

(* No clerk returns. *)
LEMMA NobodyAcked ==
    ASSUME AckedKept, Extended(committed, committed'), doubtful' = doubtful,
           \A c \in Clerk : clerk'[c].seq = clerk[c].seq
    PROVE  AckedKept'
<1>1. \A req : Held(committed, req) => Held(committed', req)
  BY HeldKept
<1> QED
  BY <1>1 DEF AckedKept, Durable, Held

(* TryNext: a call has failed. *)
LEMMA TryNextAcks ==
    ASSUME AckInv, ClerkOK, NEW c \in Clerk, TryNext(c), UNCHANGED <<raftVars, sessions>>
    PROVE  AckInv'
<1>1. clerk' = [clerk EXCEPT ![c] = AtNext(clerk[c])] /\ doubtful' = doubtful
  BY DEF TryNext, ClerkOK
<1>2. /\ clerk'[c] = AtNext(clerk[c]) /\ \A d \in Clerk \ {c} : clerk'[d] = clerk[d]
  BY <1>1 DEF ClerkOK
<1>3. IsClerk(clerk[c]) /\ clerk[c].srv \in Server /\ clerk[c].seq \in Nat \ {0}
  BY DEF ClerkOK, AckInv, ClerksTold, ToldTrue
<1>4. clerk'[c].seq = clerk[c].seq
  BY <1>2, <1>3 DEF IsClerk, ClerkFields, AtNext
<1>5. ClerksTold'
  BY <1>2, <1>3, ToldNext DEF AckInv, ClerksTold, raftVars
<1>6. SessionsTold' /\ AckedKept'
  BY <1>1, <1>2, <1>4 DEF AckInv, SessionsTold, AckedKept, Durable, raftVars
<1> QED
  BY <1>5, <1>6 DEF AckInv

(* Finish: what is acknowledged is committed, or doubtful. *)
LEMMA FinishAcks ==
    ASSUME AckInv, ClerkOK, NEW c \in Clerk, NEW reply, Finish(c, reply),
           UNCHANGED <<raftVars, sessions>>,
           ~clerk[c].shared => Durable(Request(c))
    PROVE  AckInv'
<1> DEFINE r == [FreshClerk EXCEPT !.seq = clerk[c].seq + 1, !.floor = clerk[c].floor,
                                   !.got = reply.config.num, !.shared = clerk[c].shared]
<1>1. /\ clerk' = [clerk EXCEPT ![c] = r]
      /\ doubtful' = IF clerk[c].shared THEN doubtful \cup {Request(c)} ELSE doubtful
  BY DEF Finish
<1>2. clerk[c].seq \in Nat \ {0} /\ clerk[c].shared \in BOOLEAN
  BY DEF AckInv, ClerksTold, ToldTrue
<1> DEFINE n1 == clerk[c].seq + 1
           f == clerk[c].floor
           g == reply.config.num
           h == clerk[c].shared
<1>3. /\ ToldTrue(c, r, isLeader, log, currentTerm, committed) /\ r.seq = clerk[c].seq + 1
  <2>1. n1 \in Nat \ {0} /\ h \in BOOLEAN
    BY <1>2
  <2> HIDE DEF n1, f, g, h
  <2>2. LET q == [FreshClerk EXCEPT !.seq = n1, !.floor = f, !.got = g, !.shared = h]
        IN  ToldTrue(c, q, isLeader, log, currentTerm, committed) /\ q.seq = n1
    BY <2>1, ToldReturn, ZenonT(120)
  <2> QED
    BY <2>2 DEF n1, f, g, h
<1> HIDE DEF r
<1>4. /\ clerk'[c] = r /\ \A d \in Clerk \ {c} : clerk'[d] = clerk[d]
  BY <1>1 DEF ClerkOK
<1>5. ClerksTold'
  BY <1>3, <1>4 DEF AckInv, ClerksTold, raftVars
<1>6. AckedKept'
  <2> SUFFICES ASSUME NEW d \in Clerk, NEW n \in 1 .. clerk'[d].seq - 1,
                      Script[d][n].type # "Query", <<d, n>> \notin doubtful'
               PROVE  Durable(<<d, n>>)
    BY DEF AckedKept, Durable, raftVars
  <2>1. <<d, n>> \notin doubtful
    BY <1>1
  <2>2. CASE n \in 1 .. clerk[d].seq - 1
    BY <2>1, <2>2 DEF AckInv, AckedKept
  <2>3. CASE n \notin 1 .. clerk[d].seq - 1
    <3>1. d = c /\ n = clerk[c].seq
      BY <1>2, <1>3, <1>4, <2>3
    <3>2. ~clerk[c].shared
      BY <1>1, <1>2, <3>1 DEF Request
    <3> QED
      BY <3>1, <3>2 DEF Request
  <2> QED
    BY <2>2, <2>3
<1>7. SessionsTold'
  BY DEF AckInv, SessionsTold, raftVars
<1> QED
  BY <1>5, <1>6, <1>7 DEF AckInv

(* Steps of clerks. *)
LEMMA ClerkAcks ==
    ASSUME AckInv, ClerkOK, NEW c \in Clerk,
           Invoke(c) \/ LoseCall(c) \/ EnterHandler(c) \/ createNotifyCh(c) \/ Receive(c) \/ Timeout(c)
    PROVE  AckInv'
<1> DEFINE r == clerk[c]
<1>1. /\ IsClerk(r) /\ r.srv \in Server
      /\ ToldTrue(c, r, isLeader, log, currentTerm, committed)
  BY DEF ClerkOK, AckInv, ClerksTold, ToldTrue
<1>2. ASSUME NEW q, clerk' = [clerk EXCEPT ![c] = q], UNCHANGED <<raftVars, sessions, doubtful>>,
             ToldTrue(c, q, isLeader, log, currentTerm, committed), q.seq = r.seq
      PROVE  AckInv'
  <2>1. clerk'[c] = q /\ \A d \in Clerk \ {c} : clerk'[d] = clerk[d]
    BY <1>2 DEF ClerkOK
  <2>2. ClerksTold'
    <3> SUFFICES ASSUME NEW d \in Clerk
                 PROVE  ToldTrue(d, clerk'[d], isLeader, log, currentTerm, committed)
      BY <1>2 DEF ClerksTold, raftVars
    <3>1. CASE d = c
      BY <1>2, <2>1, <3>1
    <3>2. CASE d # c
      BY <2>1, <3>2 DEF AckInv, ClerksTold
    <3> QED
      BY <3>1, <3>2
  <2>3. SessionsTold'
    BY <1>2 DEF AckInv, SessionsTold, raftVars
  <2>4. AckedKept'
    <3>1. \A d \in Clerk : clerk'[d].seq = clerk[d].seq
      BY <1>2, <2>1
    <3>2. UNCHANGED <<committed, doubtful>>
      BY <1>2 DEF raftVars
    <3> QED
      BY <3>1, <3>2 DEF AckInv, AckedKept, Durable
  <2> QED
    BY <2>2, <2>3, <2>4 DEF AckInv
<1>3. CASE Invoke(c)
  <2> DEFINE q == [r EXCEPT !.pc = "call", !.floor = seen, !.shared = FALSE]
  <2>1. /\ clerk' = [clerk EXCEPT ![c] = q] /\ UNCHANGED <<raftVars, sessions, doubtful>>
        /\ r.chan = <<>>
    BY <1>1, <1>3 DEF Invoke, ClerkOK, smVars, ToldTrue
  <2>2. ToldTrue(c, q, isLeader, log, currentTerm, committed)
    BY <1>1, <2>1, ToldGoesOn
  <2>3. q.seq = r.seq
    BY <1>1 DEF IsClerk, ClerkFields
  <2> HIDE DEF q
  <2> QED
    BY <1>2, <2>1, <2>2, <2>3
<1>4. CASE LoseCall(c)
  BY <1>4, TryNextAcks DEF LoseCall, smVars
<1>5. CASE EnterHandler(c)
  <2> DEFINE session == sessions[r.srv][c]
             reply == IF r.seq = session.lastSeqNum THEN session.response ELSE ZeroReply
  <2>1. UNCHANGED <<raftVars, smVars>>
    BY <1>5 DEF EnterHandler
  <2>2. CASE Answer(c, reply)
    <3>1. CASE reply.err = "OK" /\ Finish(c, reply)
      <4>1. r.seq = session.lastSeqNum /\ session.response.err = "OK"
        BY <3>1 DEF ZeroReply
      <4>2. Durable(Request(c))
        BY <1>1, <4>1 DEF AckInv, SessionsTold, Held, Durable, Request
      <4> QED
        BY <2>1, <3>1, <4>2, FinishAcks DEF smVars
    <3>2. CASE TryNext(c)
      BY <2>1, <3>2, TryNextAcks DEF smVars
    <3> QED
      BY <2>2, <3>1, <3>2 DEF Answer
  <2>3. CASE clerk' = [clerk EXCEPT ![c].pc = "start"] /\ UNCHANGED <<faults, seen, doubtful>>
    <3> DEFINE q == [r EXCEPT !.pc = "start"]
    <3>1. clerk' = [clerk EXCEPT ![c] = q] /\ r.chan = <<>>
      BY <1>1, <1>5, <2>3 DEF ClerkOK, EnterHandler, ToldTrue
    <3>2. ToldTrue(c, q, isLeader, log, currentTerm, committed)
      BY <1>1, <3>1, ToldGoesOn
    <3>3. q.seq = r.seq
      BY <1>1 DEF IsClerk, ClerkFields
    <3> HIDE DEF q
    <3> QED
      BY <1>2, <2>1, <2>3, <3>1, <3>2, <3>3 DEF smVars
  <2> QED
    BY <1>5, <2>2, <2>3 DEF EnterHandler
<1>6. CASE createNotifyCh(c)
  <2> DEFINE q == [r EXCEPT !.pc = "wait"]
  <2>1. /\ clerk' = [clerk EXCEPT ![c] = q] /\ UNCHANGED <<raftVars, sessions, doubtful>>
        /\ r.chan = <<>> /\ r.pc = "create"
    BY <1>1, <1>6 DEF createNotifyCh, ClerkOK, ToldTrue
  <2>2. ToldTrue(c, q, isLeader, log, currentTerm, committed)
    BY <1>1, <2>1, ToldGoesOn
  <2>3. q.seq = r.seq
    BY <1>1 DEF IsClerk, ClerkFields
  <2> HIDE DEF q
  <2> QED
    BY <1>2, <2>1, <2>2, <2>3
<1>7. CASE Receive(c)
  <2>1. /\ r.chan # <<>> /\ Answer(c, Head(r.chan)) /\ UNCHANGED <<raftVars, sessions>>
    BY <1>7 DEF Receive, LeaveSelect
  <2>2. CASE Head(r.chan).err = "OK" /\ Finish(c, Head(r.chan))
    <3>1. ~r.shared => Durable(Request(c))
      BY <1>1, <2>1, <2>2 DEF ToldTrue, Held, Durable, Request
    <3> QED
      BY <2>1, <2>2, <3>1, FinishAcks
  <2>3. CASE TryNext(c)
    BY <2>1, <2>3, TryNextAcks
  <2> QED
    BY <2>1, <2>2, <2>3 DEF Answer
<1>8. CASE Timeout(c)
  BY <1>8, TryNextAcks DEF Timeout, LeaveSelect
<1> QED
  BY <1>3, <1>4, <1>5, <1>6, <1>7, <1>8

(* Start: the entry at the new index is the clerk's, and whoever held that *)
(* index shares it.                                                        *)
LEMMA StartAcks ==
    ASSUME AckInv, ClerkOK, LogInv, NEW c \in Clerk, Start(c) PROVE AckInv'
<1> DEFINE s == clerk[c].srv
           i == Len(log[s]) + 1
           others == Holders(s, i)
           e == [cmd |-> Request(c), term |-> currentTerm[s]]
           q == [clerk[c] EXCEPT !.pc = "create", !.index = i, !.shared = others # {}]
<1>1. /\ \A d \in Clerk : ToldTrue(d, clerk[d], isLeader, log, currentTerm, committed)
      /\ s \in Server /\ clerk[c].chan = <<>> /\ IsClerk(clerk[c]) /\ clerk[c].seq \in Nat \ {0}
  BY DEF AckInv, ClerksTold, ToldTrue, Start, ClerkOK
<1>2. CASE TryNext(c) /\ UNCHANGED raftVars
  BY <1>2, TryNextAcks DEF Start, smVars
<1>3. CASE isLeader[s]
  <2>1. /\ log' = [log EXCEPT ![s] = Append(@, e)]
        /\ UNCHANGED <<currentTerm, isLeader, committed, sessions, doubtful>>
        /\ clerk' = [d \in Clerk |->
                IF d = c THEN q
                ELSE IF d \in others THEN [clerk[d] EXCEPT !.shared = TRUE] ELSE clerk[d]]
    BY <1>3 DEF Start, AppendToLog, smVars
  <2>2. /\ log[s] \in Seq(Entry) /\ i \in Nat /\ DOMAIN log[s] = 1 .. i - 1
        /\ log'[s] = Append(log[s], e) /\ \A p \in Server \ {s} : log'[p] = log[p]
    <3>1. RaftTypes
      BY DEF LogInv
    <3>2. log[s] \in Seq(Entry) /\ Len(log[s]) \in Nat /\ DOMAIN log[s] = 1 .. Len(log[s])
      BY <1>1, <3>1, TypeFacts
    <3>3. i \in Nat /\ i - 1 = Len(log[s])
      BY <3>2
    <3>4. log = [p \in Server |-> log[p]]
      BY <3>1 DEF RaftTypes
    <3> HIDE DEF e, i, s
    <3>5. log'[s] = Append(log[s], e) /\ \A p \in Server \ {s} : log'[p] = log[p]
      BY <1>1, <2>1, <3>4
    <3> QED
      BY <3>2, <3>3, <3>5
  <2>3. /\ DOMAIN log'[s] = 1 .. i /\ log'[s][i] = e
        /\ \A j \in 1 .. i - 1 : log'[s][j] = log[s][j]
    BY <2>2
  <2>4. e.cmd = <<c, clerk[c].seq>>
    BY DEF Request
  <2>5. /\ q.pc = "create" /\ q.index = i /\ q.shared \in BOOLEAN /\ q.srv = s
        /\ q.seq = clerk[c].seq /\ q.chan = <<>>
    BY <1>1 DEF IsClerk, ClerkFields
  <2>6. \A d \in others : /\ clerk[d].srv = s /\ clerk[d].index = i /\ d \in Clerk
    BY DEF Holders
  <2>7. \A d \in Clerk \ others : clerk[d].pc \in {"create", "wait"} /\ clerk[d].srv = s => clerk[d].index # i
    BY DEF Holders
  <2> HIDE DEF e, q, others, i, s
  <2>8. ToldTrue(c, q, isLeader', log', currentTerm', committed')
    BY <1>1, <2>2, <2>3, <2>4, <2>5 DEF ToldTrue, Owns
  <2>9. ASSUME NEW d \in others
        PROVE  ToldTrue(d, [clerk[d] EXCEPT !.shared = TRUE], isLeader', log', currentTerm', committed')
               /\ [clerk[d] EXCEPT !.shared = TRUE].seq = clerk[d].seq
    <3> DEFINE r == [clerk[d] EXCEPT !.shared = TRUE]
    <3>1. /\ r.pc = clerk[d].pc /\ r.index = clerk[d].index /\ r.srv = clerk[d].srv
          /\ r.shared /\ r.shared \in BOOLEAN /\ r.seq = clerk[d].seq /\ r.chan = clerk[d].chan
      BY <2>6 DEF ClerkOK, IsClerk, ClerkFields
    <3> HIDE DEF r
    <3>2. ToldTrue(d, r, isLeader', log', currentTerm', committed')
      BY <1>1, <2>6, <3>1 DEF ToldTrue
    <3> QED
      BY <3>1, <3>2 DEF r
  <2>10. ASSUME NEW d \in Clerk \ others
         PROVE  ToldTrue(d, clerk[d], isLeader', log', currentTerm', committed')
    <3> DEFINE r == clerk[d]
    <3>1. ToldTrue(d, r, isLeader, log, currentTerm, committed)
      BY <1>1
    <3>2. r.pc \in {"create", "wait"} /\ ~r.shared =>
              Owns(isLeader'[r.srv], log'[r.srv], currentTerm'[r.srv], r.index, <<d, r.seq>>)
      <4>1. CASE r.srv = s
        BY <2>1, <2>2, <2>3, <2>7, <3>1, <4>1 DEF ToldTrue, Owns
      <4>2. CASE r.srv # s
        BY <2>1, <2>2, <3>1, <4>2 DEF ToldTrue, Owns
      <4> QED
        BY <4>1, <4>2
    <3> QED
      BY <2>1, <3>1, <3>2 DEF ToldTrue
  <2>11. ClerksTold'
    BY <2>1, <2>8, <2>9, <2>10 DEF ClerksTold
  <2>12. \A d \in Clerk : clerk'[d].seq = clerk[d].seq
    BY <2>1, <2>5, <2>9
  <2>13. SessionsTold' /\ AckedKept'
    BY <2>1, <2>12 DEF AckInv, SessionsTold, AckedKept, Durable
  <2> QED
    BY <2>11, <2>13 DEF AckInv
<1> QED
  BY <1>2, <1>3 DEF Start

(* Put: whoever is told OK, and does not share its index, is told the      *)
(* truth.                                                                  *)
LEMMA PutAcks ==
    ASSUME ClerkOK, AckedKept, Extended(committed, committed'),
           \A d \in Clerk : ToldTrue(d, clerk[d], isLeader', log', currentTerm', committed'),
           NEW cs, NEW reply, Put(cs, reply), doubtful' = doubtful,
           \A d \in cs : /\ clerk[d].pc = "wait"
                         /\ reply.err = "OK" /\ ~clerk[d].shared => Held(committed', <<d, clerk[d].seq>>)
    PROVE  ClerksTold' /\ AckedKept'
<1>1. ASSUME NEW d \in Clerk
      PROVE  ToldTrue(d, clerk'[d], isLeader', log', currentTerm', committed')
             /\ clerk'[d].seq = clerk[d].seq
  <2>1. IsClerk(clerk[d])
    BY DEF ClerkOK
  <2>2. clerk'[d] = IF d \in cs /\ clerk[d].chan = <<>>
                    THEN [clerk[d] EXCEPT !.chan = <<reply>>] ELSE clerk[d]
    BY DEF Put
  <2>3. CASE d \in cs /\ clerk[d].chan = <<>>
    <3>1. ToldTrue(d, [clerk[d] EXCEPT !.chan = <<reply>>], isLeader', log', currentTerm', committed')
      BY <2>1, <2>3, ToldPut
    <3>2. [clerk[d] EXCEPT !.chan = <<reply>>].seq = clerk[d].seq
      BY <2>1 DEF IsClerk, ClerkFields
    <3> QED
      BY <2>2, <2>3, <3>1, <3>2
  <2>4. CASE ~(d \in cs /\ clerk[d].chan = <<>>)
    BY <2>2, <2>4
  <2> QED
    BY <2>3, <2>4
<1> QED
  BY <1>1, NobodyAcked DEF ClerksTold
(* The session of whoever asked is at the request, and the request is held. *)
LEMMA RunTold ==
    ASSUME SessionsOK, SessionsTold, Extended(committed, committed'),
           NEW s \in Server, NEW c \in Clerk, NEW n \in Nat, NEW answer,
           Held(committed, <<c, n>>),
           sessions' = [sessions EXCEPT ![s][c] = [lastSeqNum |-> n, response |-> answer]]
    PROVE  SessionsTold'
<1> DEFINE new == [lastSeqNum |-> n, response |-> answer]
<1>1. new.lastSeqNum = n /\ sessions' = [sessions EXCEPT ![s][c] = new]
  OBVIOUS
<1>2. \A req : Held(committed, req) => Held(committed', req)
  BY HeldKept
<1> HIDE DEF new
<1>3. \A q \in Server, d \in Clerk :
        sessions'[q][d] = IF q = s /\ d = c THEN new ELSE sessions[q][d]
  BY <1>1 DEF SessionsOK
<1> QED
  BY <1>1, <1>2, <1>3 DEF SessionsTold

(* applyConfigChange: what is told of the next entry is true of whoever    *)
(* has put that entry there.                                               *)
LEMMA ApplyAcks ==
    ASSUME Inv, AckInv, [Next]_vars, NEW s \in Server, applyConfigChange(s) PROVE AckInv'
<1> DEFINE i == lastApplied[s] + 1
           req == log[s][i].cmd
           done == [err |-> "OK", config |-> InitConfig]
<1>1. /\ i \in 1 .. commitIndex[s] /\ i \in DOMAIN log[s] /\ i \in DOMAIN committed
      /\ log[s][i] = committed[i] /\ req \in Clerk \X Nat
  <2>1. /\ lastApplied[s] \in Nat /\ lastApplied[s] < commitIndex[s] /\ RaftTypes /\ CommittedAgree
    BY DEF Inv, LogInv, RaftTypes, applyConfigChange, ApplyNext
  <2>2. i \in 1 .. commitIndex[s]
    BY <2>1, TypeFacts
  <2>3. i <= Len(log[s]) /\ i <= Len(committed) /\ log[s][i] = committed[i]
    BY <2>1, <2>2 DEF CommittedAgree
  <2>4. i \in DOMAIN log[s] /\ i \in DOMAIN committed
    BY <2>1, <2>2, <2>3, TypeFacts
  <2>5. log[s][i] \in Entry
    BY <2>1, <2>4, TypeFacts
  <2> QED
    BY <2>2, <2>3, <2>4, <2>5 DEF Entry
<1>2. ApplyNext(s) /\ doubtful' = doubtful
  BY DEF applyConfigChange
<1>3. \A q \in Server : OfficeKept(q)
  BY <1>2, QuietKeepsOffice DEF Inv
<1>4. /\ \A d \in Clerk : ToldTrue(d, clerk[d], isLeader', log', currentTerm', committed')
      /\ sessions' = sessions => SessionsTold'
      /\ \A x : Durable(x) => Held(committed', x)
  BY <1>3, OthersTold DEF Inv
<1>5. Extended(committed, committed') /\ committed' = committed
  BY <1>2, CommittedExtended DEF Inv, ApplyNext
<1> HIDE DEF i, req, done
<1>6. Held(committed, req)
  BY <1>1 DEF Held, req
<1>7. ASSUME NEW reply, Notify(s, i, reply), reply.err = "OK" => Held(committed, req)
      PROVE  ClerksTold' /\ AckedKept'
  <2>1. CASE isLeader[s] /\ log[s][i].term = currentTerm[s] /\ Put(Waiting(s, i), reply)
    <3>1. ASSUME NEW d \in Waiting(s, i)
          PROVE  /\ d \in Clerk /\ clerk[d].pc = "wait"
                 /\ reply.err = "OK" /\ ~clerk[d].shared => Held(committed', <<d, clerk[d].seq>>)
      <4>1. d \in Clerk /\ clerk[d].pc = "wait" /\ clerk[d].srv = s /\ clerk[d].index = i
        BY DEF Waiting, Holders
      <4>2. ToldTrue(d, clerk[d], isLeader, log, currentTerm, committed)
        BY <4>1 DEF AckInv, ClerksTold
      <4>3. ~clerk[d].shared => req = <<d, clerk[d].seq>>
        BY <1>1, <2>1, <4>1, <4>2 DEF ToldTrue, Owns, req
      <4> QED
        BY <4>1, <4>3, <1>5, <1>6
    <3> QED
      BY <1>2, <1>4, <1>5, <2>1, <3>1, PutAcks DEF Inv, AckInv
  <2>2. CASE clerk' = clerk
    BY <1>2, <1>4, <1>5, <2>2, NobodyAcked DEF AckInv, ClerksTold
  <2> QED
    BY <1>7, <2>1, <2>2 DEF Notify
<1>8. PICK c \in Clerk, n \in Nat : req = <<c, n>>
  BY <1>1
<1>9. \/ \E reply : Notify(s, i, reply) /\ (reply.err = "OK" => Held(committed, req)) /\ sessions' = sessions
      \/ /\ Notify(s, i, done)
         /\ sessions' = [sessions EXCEPT ![s][c] = [lastSeqNum |-> n, response |-> done]]
  BY <1>6, <1>8 DEF applyConfigChange, i, req, done
<1>10. CASE /\ Notify(s, i, done)
            /\ sessions' = [sessions EXCEPT ![s][c] = [lastSeqNum |-> n, response |-> done]]
  <2>1. SessionsTold'
    BY <1>5, <1>6, <1>8, <1>10, RunTold DEF Inv, RunsOK, AckInv
  <2> QED
    BY <1>6, <1>7, <1>10, <2>1 DEF AckInv
<1>11. CASE \E reply : Notify(s, i, reply) /\ (reply.err = "OK" => Held(committed, req)) /\ sessions' = sessions
  BY <1>4, <1>7, <1>11 DEF AckInv
<1> QED
  BY <1>9, <1>10, <1>11

(* Restart: calls under way fail, and sessions start over.                 *)
LEMMA RestartAcks ==
    ASSUME Inv, AckInv, [Next]_vars, NEW s \in Server, Restart(s) PROVE AckInv'
<1>1. \A q \in Server : OfficeKept(q)
  BY QuietKeepsOffice DEF Inv, Restart
<1>2. /\ \A d \in Clerk : ToldTrue(d, clerk[d], isLeader', log', currentTerm', committed')
      /\ \A x : Durable(x) => Held(committed', x)
  BY <1>1, OthersTold DEF Inv
<1>3. ASSUME NEW d \in Clerk
      PROVE  ToldTrue(d, clerk'[d], isLeader', log', currentTerm', committed')
             /\ clerk'[d].seq = clerk[d].seq
  <2>1. IsClerk(clerk[d]) /\ clerk[d].srv \in Server /\ clerk[d].seq \in Nat \ {0}
    BY DEF Inv, ClerkOK, AckInv, ClerksTold, ToldTrue
  <2>2. clerk'[d] = AtNext(clerk[d]) \/ clerk'[d] = clerk[d]
    BY DEF Restart
  <2>3. AtNext(clerk[d]).seq = clerk[d].seq
    BY <2>1 DEF IsClerk, ClerkFields, AtNext
  <2>4. ToldTrue(d, AtNext(clerk[d]), isLeader', log', currentTerm', committed')
    BY <2>1, ToldNext
  <2> QED
    BY <1>2, <2>2, <2>3, <2>4
<1>4. ClerksTold'
  BY <1>3 DEF ClerksTold
<1>5. committed' = committed /\ doubtful' = doubtful
  BY DEF Restart, RestartRaft
<1>6. Extended(committed, committed')
  BY <1>5 DEF Extended
<1>7. AckedKept'
  BY <1>3, <1>5, <1>6, NobodyAcked DEF AckInv
<1>8. \A q \in Server, d \in Clerk :
        sessions'[q][d] = IF q = s THEN NoSession ELSE sessions[q][d]
  BY DEF Restart, Inv, RunsOK, SessionsOK
<1>9. NoSession.response.err # "OK"
  BY DEF NoSession, ZeroReply
<1>10. SessionsTold'
  BY <1>5, <1>8, <1>9 DEF AckInv, SessionsTold
<1> QED
  BY <1>4, <1>7, <1>10 DEF AckInv

(* Steps of servers.                                                       *)
LEMMA ServerAcks ==
    ASSUME Inv, AckInv, [Next]_vars, NEW s \in Server, ServerStep(s) PROVE AckInv'
<1>1. ASSUME \A q \in Server : OfficeKept(q), UNCHANGED <<clerk, sessions, doubtful>> PROVE AckInv'
  <2>1. Extended(committed, committed')
    BY CommittedExtended DEF Inv
  <2> QED
    BY <1>1, <2>1, OthersTold, NobodyAcked DEF Inv, AckInv, ClerksTold
<1>2. CASE RaftStep(Elect(s))
  BY <1>1, <1>2, ElectKeepsOffice DEF RaftStep, smVars, Inv
<1>3. CASE RaftStep(Commit(s)) \/ \E l \in Server : RaftStep(Replicate(l, s))
  BY <1>1, <1>3, QuietKeepsOffice DEF RaftStep, smVars, Inv
<1>4. CASE applyConfigChange(s)
  BY <1>4, ApplyAcks
<1>5. ASSUME NEW i \in Index, closeNotifyCh(s, i) PROVE AckInv'
  <2>1. \A q \in Server : OfficeKept(q)
    BY <1>5, QuietKeepsOffice DEF Inv, closeNotifyCh
  <2>2. /\ \A d \in Clerk : ToldTrue(d, clerk[d], isLeader', log', currentTerm', committed')
        /\ sessions' = sessions => SessionsTold'
    BY <2>1, OthersTold DEF Inv
  <2>3. /\ Put(Waiting(s, i), ZeroReply) /\ UNCHANGED <<sessions, doubtful>>
    BY <1>5 DEF closeNotifyCh
  <2>4. ZeroReply.err # "OK"
    BY DEF ZeroReply
  <2>5. \A d \in Waiting(s, i) : clerk[d].pc = "wait"
    BY DEF Waiting
  <2>6. Extended(committed, committed')
    BY CommittedExtended DEF Inv
  <2>7. ClerksTold' /\ AckedKept'
    BY <2>2, <2>3, <2>4, <2>5, <2>6, PutAcks DEF Inv, AckInv
  <2> QED
    BY <2>2, <2>3, <2>7 DEF AckInv
<1>6. CASE Restart(s)
  BY <1>6, RestartAcks
<1> QED
  BY <1>2, <1>3, <1>4, <1>5, <1>6 DEF ServerStep

(* The first state and every step.                                         *)
LEMMA AckInit == Init => AckInv
<1> SUFFICES ASSUME Init PROVE AckInv
  OBVIOUS
<1>1. 1 \in Server
  BY GroupSizeAssumption DEF Server
<1>2. ClerksTold
  <2>1. \A c \in Clerk : clerk[c] = FreshClerk
    BY DEF Init
  <2>2. /\ FreshClerk.srv = 1 /\ FreshClerk.index = 0 /\ FreshClerk.shared = FALSE
        /\ FreshClerk.seq = 1 /\ FreshClerk.pc = "idle" /\ FreshClerk.chan = <<>>
    BY DEF FreshClerk
  <2>3. ASSUME NEW c, NEW r, r.srv = 1, r.index = 0, r.shared \in BOOLEAN, r.seq = 1,
               r.pc = "idle", r.chan = <<>>
        PROVE  ToldTrue(c, r, isLeader, log, currentTerm, committed)
    BY <1>1, <2>3 DEF ToldTrue
  <2> QED
    BY <2>1, <2>2, <2>3 DEF ClerksTold
<1>3. SessionsTold
  BY DEF Init, SessionsTold, NoSession, ZeroReply
<1>4. AckedKept
  BY DEF Init, AckedKept, FreshClerk
<1> QED
  BY <1>2, <1>3, <1>4 DEF AckInv

(* What has been acknowledged is kept by every step.                       *)
LEMMA AckStep == Inv /\ AckInv /\ [Next]_vars => AckInv'
<1> SUFFICES ASSUME Inv, AckInv, [Next]_vars PROVE AckInv'
  OBVIOUS
<1>1. CASE UNCHANGED vars
  BY <1>1 DEF vars, smVars, raftVars, AckInv, ClerksTold, SessionsTold, AckedKept, Durable
<1>2. ASSUME NEW c \in Clerk, ClerkStep(c) PROVE AckInv'
  BY <1>2, ClerkAcks, StartAcks DEF ClerkStep, Inv
<1>3. ASSUME NEW s \in Server, ServerStep(s) PROVE AckInv'
  BY <1>3, ServerAcks
<1> QED
  BY <1>1, <1>2, <1>3 DEF Next

(* server.go:342-345: a Join, Leave or Move that has returned is in the    *)
(* log for good, whatever elections, restarts and retries there were,      *)
(* unless its index was given to another request while its handler ran.    *)
THEOREM AcksKept == Spec => []AckedKept
<1>1. AckInv => AckedKept
  BY DEF AckInv
<1> QED
  BY <1>1, InvInit, InvStep, AckInit, AckStep, PTL DEF Spec
-----------------------------------------------------------------------------
(* Numbers of configurations.  How many changes of configuration there are *)
(* among the first n entries depends on the entries alone: it is the       *)
(* number of the configuration of whoever has applied them.                *)

IsChange(req) == Op(req).type # "Query"

(* The entry i is the first of its clerk with so high a number. *)
ChangesAt(entries, i) ==
    /\ IsChange(entries[i].cmd)
    /\ \A j \in 1 .. i - 1 :
          IsChange(entries[j].cmd) /\ entries[j].cmd[1] = entries[i].cmd[1] =>
              entries[j].cmd[2] < entries[i].cmd[2]

Changes(entries, n) == {i \in 1 .. n : ChangesAt(entries, i)}

NumAt(entries, n) == Cardinality(Changes(entries, n))

(* One more entry. *)
LEMMA NumNext ==
    ASSUME NEW entries, NEW n \in Nat
    PROVE  /\ NumAt(entries, n) \in Nat /\ IsFiniteSet(Changes(entries, n))
           /\ NumAt(entries, n + 1) =
                IF ChangesAt(entries, n + 1) THEN NumAt(entries, n) + 1 ELSE NumAt(entries, n)
<1>1. Changes(entries, n) \subseteq 1 .. n /\ IsFiniteSet(1 .. n)
  BY FS_Interval DEF Changes
<1>2. IsFiniteSet(Changes(entries, n))
  BY <1>1, FS_Subset
<1>3. NumAt(entries, n) \in Nat
  BY <1>2, FS_CardinalityType DEF NumAt
<1>4. n + 1 \notin Changes(entries, n)
  BY <1>1
<1>5. CASE ChangesAt(entries, n + 1)
  <2>1. Changes(entries, n + 1) = Changes(entries, n) \cup {n + 1}
    BY <1>5 DEF Changes
  <2> QED
    BY <1>2, <1>3, <1>4, <1>5, <2>1, FS_AddElement DEF NumAt
<1>6. CASE ~ChangesAt(entries, n + 1)
  <2>1. Changes(entries, n + 1) = Changes(entries, n)
    BY <1>6 DEF Changes
  <2> QED
    BY <1>2, <1>3, <1>6, <2>1 DEF NumAt
<1> QED
  BY <1>2, <1>3, <1>5, <1>6

(* More entries do not make fewer changes. *)
LEMMA NumGrows ==
    ASSUME NEW entries, NEW m \in Nat, NEW n \in Nat, m <= n
    PROVE  NumAt(entries, m) <= NumAt(entries, n)
<1>1. Changes(entries, m) \subseteq Changes(entries, n) /\ IsFiniteSet(Changes(entries, n))
  BY NumNext DEF Changes
<1> QED
  BY <1>1, FS_Subset DEF NumAt

(* Only the first n entries matter. *)
LEMMA NumAgrees ==
    ASSUME NEW old, NEW new, NEW n \in Nat, \A i \in 1 .. n : new[i] = old[i]
    PROVE  NumAt(new, n) = NumAt(old, n)
<1>1. \A i \in 1 .. n : ChangesAt(new, i) <=> ChangesAt(old, i)
  BY DEF ChangesAt
<1>2. Changes(new, n) = Changes(old, n)
  BY <1>1 DEF Changes
<1> QED
  BY <1>2 DEF NumAt

(* What a Query that asks for num must return, as the clerk knows of floor. *)
AtLeast(num, floor) == IF num = -1 THEN floor ELSE Min({num, floor})

(* The smaller of two numbers, and the greatest. *)
LEMMA MinOfTwo ==
    ASSUME NEW m \in Int, NEW n \in Int
    PROVE  Min({m, n}) = IF m <= n THEN m ELSE n
BY DEF Min

(* The larger of two,                                                      *)
LEMMA MaxOfFew ==
    ASSUME NEW n \in Int
    PROVE  /\ Max({n}) = n
           /\ \A m \in Int : Max({n} \cup {m}) = IF m <= n THEN n ELSE m
<1>1. Max({n}) = n
  BY DEF Max
<1>2. ASSUME NEW m \in Int PROVE Max({n} \cup {m}) = IF m <= n THEN n ELSE m
  <2> DEFINE top == IF m <= n THEN n ELSE m
  <2>1. top \in {n} \cup {m} /\ \A y \in {n} \cup {m} : top >= y
    OBVIOUS
  <2>2. \A x \in {n} \cup {m} : (\A y \in {n} \cup {m} : x >= y) => x = top
    OBVIOUS
  <2> QED
    BY <2>1, <2>2 DEF Max
<1> QED
  BY <1>1, <1>2

(* ... which is no larger than what bounds both.                           *)
LEMMA MaxBounded ==
    ASSUME NEW n \in Nat, NEW j \in 0 .. n
    PROVE  Max({j}) \in 0 .. n /\ \A k \in 0 .. n : Max({j} \cup {k}) \in 0 .. n
<1>1. j \in Int /\ \A k \in 0 .. n : k \in Int
  OBVIOUS
<1>2. Max({j}) = j
  BY <1>1, MaxOfFew
<1>3. ASSUME NEW k \in 0 .. n PROVE Max({j} \cup {k}) \in 0 .. n
  <2>1. Max({j} \cup {k}) = IF k <= j THEN j ELSE k
    BY <1>1, MaxOfFew
  <2> QED
    BY <2>1
<1> QED
  BY <1>2, <1>3

-----------------------------------------------------------------------------
(* What is new.  As above, of values. *)

(* Requests of c among the entries are c's to ask, and the one it has not  *)
(* yet called for is not there.                                            *)
NotAhead(c, r, entries) ==
    \A i \in DOMAIN entries : entries[i].cmd[1] = c =>
        /\ entries[i].cmd[2] \in 1 .. Len(Script[c]) /\ entries[i].cmd[2] <= r.seq
        /\ r.pc = "idle" => entries[i].cmd[2] # r.seq

(* Nobody knows of more than n configurations; what is in the channel of a *)
(* Query, and what it has returned, is new enough.                         *)
AnswerTrue(c, r, n) ==
    /\ r.floor \in 0 .. n
    /\ r.chan # <<>> /\ Head(r.chan).err = "OK" /\ ~IsChange(<<c, r.seq>>) =>
          /\ Head(r.chan).config.num \in 0 .. n
          /\ ~r.shared => Head(r.chan).config.num >= AtLeast(Op(<<c, r.seq>>).num, r.floor)
    /\ r.pc = "idle" /\ r.seq > 1 /\ ~r.shared /\ ~IsChange(<<c, r.seq - 1>>) =>
          r.got >= AtLeast(Op(<<c, r.seq - 1>>).num, r.floor)

(* The request is committed after the configurations that were known when  *)
(* it was called.                                                          *)
FloorTrue(c, r, entries) ==
    r.pc # "idle" => /\ r.seq <= Len(Script[c])
                     /\ \A k \in DOMAIN entries :
                            entries[k].cmd = <<c, r.seq>> => r.floor <= NumAt(entries, k - 1)

ClerkTrue(c, r, logs, entries) ==
    /\ NotAhead(c, r, entries) /\ \A s \in Server : NotAhead(c, r, logs[s])
    /\ AnswerTrue(c, r, NumAt(entries, Len(entries)))
    /\ FloorTrue(c, r, entries)

(* A server that has applied n entries: its configurations are numbered,   *)
(* there is one for each change, and sessions are at the last change.      *)
ServerTrue(made, runs, known, n, entries) ==
    /\ made = [k \in 1 .. Len(runs) + 1 |->
                  [num |-> k - 1, shards |-> made[k].shards, groups |-> made[k].groups]]
    /\ Len(runs) = NumAt(entries, n)
    /\ \A i \in 1 .. n : IsChange(entries[i].cmd) =>
          entries[i].cmd[2] <= known[entries[i].cmd[1]].lastSeqNum
    /\ \A c \in Clerk :
          /\ known[c].response.config.num = 0
          /\ known[c].lastSeqNum = 0
             \/ \E i \in 1 .. n : IsChange(entries[i].cmd) /\ entries[i].cmd = <<c, known[c].lastSeqNum>>

NewsInv ==
    /\ \A c \in Clerk : ClerkTrue(c, clerk[c], log, committed)
    /\ configs = [s \in Server |-> configs[s]]
    /\ \A s \in Server : ServerTrue(configs[s], ran[s], sessions[s], lastApplied[s], committed)
    /\ seen \in 0 .. NumAt(committed, Len(committed))

(* Entries come from entries. *)
FromLogs == \A s \in Server : \A i \in DOMAIN log'[s] :
    \E q \in Server : \E j \in DOMAIN log[q] : log'[s][i].cmd = log[q][j].cmd

(* A clerk whose state stays. *)
LEMMA TrueStays ==
    ASSUME LogInv, LogInv', Extended(committed, committed'), FromLogs,
           \A i \in DOMAIN committed' : i \in DOMAIN committed \/ \E q \in Server : \E j \in DOMAIN log[q] : committed'[i].cmd = log[q][j].cmd,
           NEW c, NEW r, ClerkTrue(c, r, log, committed)
    PROVE  ClerkTrue(c, r, log', committed')
<1>1. /\ Len(committed) \in Nat /\ DOMAIN committed = 1 .. Len(committed)
      /\ Len(committed') \in Nat /\ DOMAIN committed' = 1 .. Len(committed')
  <2>1. committed \in Seq(Entry) /\ committed' \in Seq(Entry)
    BY DEF LogInv, RaftTypes
  <2> QED
    BY <2>1
<1>2. Len(committed) <= Len(committed') /\ \A i \in 1 .. Len(committed) : committed'[i] = committed[i]
  BY <1>1 DEF Extended
<1>3. NotAhead(c, r, committed') /\ \A s \in Server : NotAhead(c, r, log'[s])
  BY DEF ClerkTrue, NotAhead, FromLogs, Extended
<1> DEFINE n == NumAt(committed, Len(committed))
           m == NumAt(committed', Len(committed'))
<1>4. /\ n = NumAt(committed', Len(committed)) /\ n <= m /\ n \in Nat /\ m \in Nat
  <2> DEFINE old == committed
             new == committed'
             p == Len(committed)
             q == Len(committed')
  <2>1. p \in Nat /\ q \in Nat /\ p <= q /\ \A i \in 1 .. p : new[i] = old[i]
    BY <1>1, <1>2
  <2> HIDE DEF old, new, p, q
  <2>2. NumAt(new, p) = NumAt(old, p)
    BY <2>1, NumAgrees
  <2>3. NumAt(new, p) <= NumAt(new, q) /\ NumAt(new, p) \in Nat /\ NumAt(new, q) \in Nat
    BY <2>1, NumGrows, NumNext
  <2> QED
    BY <2>2, <2>3 DEF old, new, p, q
<1>5. ASSUME NEW k \in DOMAIN committed', committed'[k].cmd = <<c, r.seq>>, r.pc # "idle"
      PROVE  r.floor <= NumAt(committed', k - 1)
  <2>1. k - 1 \in Nat
    BY <1>1
  <2>2. CASE k \in DOMAIN committed
    <3>1. r.floor <= NumAt(committed, k - 1)
      BY <1>2, <1>1, <1>5, <2>2 DEF ClerkTrue, FloorTrue
    <3>2. \A i \in 1 .. k - 1 : committed'[i] = committed[i]
      BY <1>1, <1>2, <2>2
    <3>3. NumAt(committed', k - 1) = NumAt(committed, k - 1)
      BY <2>1, <3>2, NumAgrees
    <3> QED
      BY <3>1, <3>3
  <2>3. CASE k \notin DOMAIN committed
    <3>1. Len(committed) <= k - 1
      BY <1>1, <2>3
    <3>2. n <= NumAt(committed', k - 1)
      BY <1>1, <1>4, <2>1, <3>1, NumGrows
    <3>3. r.floor \in 0 .. n /\ NumAt(committed', k - 1) \in Nat
      BY <2>1, NumNext DEF ClerkTrue, AnswerTrue
    <3> QED
      BY <1>4, <3>2, <3>3
  <2> QED
    BY <2>2, <2>3
<1>6. FloorTrue(c, r, committed')
  BY <1>5 DEF ClerkTrue, FloorTrue
<1>7. AnswerTrue(c, r, n)
  BY DEF ClerkTrue
<1> HIDE DEF n, m
<1>8. \A x : x \in 0 .. n => x \in 0 .. m
  BY <1>4
<1>9. AnswerTrue(c, r, m)
  BY <1>7, <1>8 DEF AnswerTrue
<1> QED
  BY <1>3, <1>6, <1>9 DEF ClerkTrue, m

(* A clerk that goes on with its request, with nothing new in its channel. *)
LEMMA TrueGoesOn ==
    ASSUME NEW c, NEW r, NEW q, NEW logs, NEW entries,
           ClerkTrue(c, r, logs, entries), r.pc # "idle", q.pc # "idle",
           q.seq = r.seq, q.floor = r.floor,
           q.chan = <<>> \/ (q.chan = r.chan /\ (q.shared \/ q.shared = r.shared))
    PROVE  ClerkTrue(c, q, logs, entries)
BY DEF ClerkTrue, NotAhead, AnswerTrue, FloorTrue

(* The next server. *)
LEMMA TrueNext ==
    ASSUME NEW c, NEW r, IsClerk(r), NEW logs, NEW entries,
           ClerkTrue(c, r, logs, entries), r.pc # "idle"
    PROVE  ClerkTrue(c, AtNext(r), logs, entries)
<1> DEFINE q == AtNext(r)
<1>1. q.pc # "idle" /\ q.seq = r.seq /\ q.floor = r.floor /\ q.chan = <<>>
  BY DEF IsClerk, ClerkFields, AtNext
<1> HIDE DEF q
<1>2. ClerkTrue(c, q, logs, entries)
  BY <1>1, TrueGoesOn
<1> QED
  BY <1>2 DEF q

(* A server whose state stays. *)
LEMMA ServerStays ==
    ASSUME NEW old, NEW new, Extended(old, new), NEW made, NEW runs, NEW known,
           NEW n \in Nat, 1 .. n \subseteq DOMAIN old, ServerTrue(made, runs, known, n, old)
    PROVE  ServerTrue(made, runs, known, n, new)
<1>1. \A i \in 1 .. n : new[i] = old[i]
  BY DEF Extended
<1>2. NumAt(new, n) = NumAt(old, n)
  BY <1>1, NumAgrees
<1> QED
  BY <1>1, <1>2 DEF ServerTrue
CommittedFromLogs == \A i \in DOMAIN committed' :
    i \in DOMAIN committed
    \/ \E q \in Server : \E j \in DOMAIN log[q] : committed'[i].cmd = log[q][j].cmd

ServersTrue ==
    /\ configs = [s \in Server |-> configs[s]]
    /\ \A s \in Server : ServerTrue(configs[s], ran[s], sessions[s], lastApplied[s], committed)

Total == NumAt(committed, Len(committed))

(* Every step of Raft but Start moves entries, and makes none. *)
LEMMA EntriesMove ==
    ASSUME LogInv, NEW s \in Server,
           \/ Elect(s) \/ \E l \in Server : Replicate(l, s)
           \/ Commit(s) \/ ApplyNext(s) \/ RestartRaft(s) \/ UNCHANGED raftVars
    PROVE  FromLogs /\ CommittedFromLogs
<1>1. RaftTypes
  BY DEF LogInv
<1>2. CASE \E l \in Server : Replicate(l, s)
  <2>1. PICK l \in Server : Replicate(l, s)
    BY <1>2
  <2>2. /\ committed' = committed
        /\ \A q \in Server : log'[q] = log[q] \/ log'[q] = log[l]
    BY <1>1, <2>1 DEF Replicate, RaftTypes
  <2> QED
    BY <2>2 DEF FromLogs, CommittedFromLogs
<1>3. CASE Commit(s)
  <2>1. PICK n \in commitIndex[s] + 1 .. Len(log[s]) : committed' = SubSeq(log[s], 1, n)
    BY <1>3 DEF Commit
  <2>2. /\ log[s] \in Seq(Entry) /\ n \in Nat /\ n <= Len(log[s]) /\ DOMAIN log[s] = 1 .. Len(log[s])
    BY <1>1, <2>1, TypeFacts
  <2>3. DOMAIN committed' = 1 .. n /\ \A i \in 1 .. n : i \in DOMAIN log[s] /\ committed'[i] = log[s][i]
    BY <2>1, <2>2
  <2>4. log' = log
    BY <1>3 DEF Commit
  <2> QED
    BY <2>3, <2>4 DEF FromLogs, CommittedFromLogs
<1>4. CASE log' = log /\ committed' = committed
  BY <1>4 DEF FromLogs, CommittedFromLogs
<1> QED
  BY <1>2, <1>3, <1>4 DEF Elect, ApplyNext, RestartRaft, raftVars

(* Then clerks that stay as they are know what is true, and so do servers  *)
(* that apply nothing.                                                     *)
LEMMA OthersTrue ==
    ASSUME Inv, Inv', NewsInv, [Next]_vars, FromLogs, CommittedFromLogs
    PROVE  /\ \A c \in Clerk : ClerkTrue(c, clerk[c], log', committed')
           /\ \A n : n \in 0 .. Total => n \in 0 .. Total'
           /\ \A s \in Server : ServerTrue(configs[s], ran[s], sessions[s], lastApplied[s], committed')
<1>1. Extended(committed, committed') /\ LogInv /\ LogInv'
  BY CommittedExtended DEF Inv
<1>2. \A c \in Clerk : ClerkTrue(c, clerk[c], log', committed')
  BY <1>1, TrueStays DEF NewsInv, CommittedFromLogs
<1>3. /\ committed \in Seq(Entry) /\ committed' \in Seq(Entry)
      /\ \A s \in Server : lastApplied[s] \in Nat /\ lastApplied[s] <= commitIndex[s] /\ commitIndex[s] \in Nat
  BY <1>1 DEF LogInv, RaftTypes, AppliedCommitted
<1>4. ASSUME NEW s \in Server PROVE 1 .. lastApplied[s] \subseteq DOMAIN committed
  <2>1. \A i \in 1 .. commitIndex[s] : i <= Len(committed)
    BY <1>1 DEF LogInv, CommittedAgree
  <2>2. DOMAIN committed = 1 .. Len(committed) /\ Len(committed) \in Nat
    BY <1>3
  <2> QED
    BY <1>3, <2>1, <2>2
<1>5. ASSUME NEW s \in Server
      PROVE  ServerTrue(configs[s], ran[s], sessions[s], lastApplied[s], committed')
  BY <1>1, <1>3, <1>4, ServerStays DEF NewsInv
<1>6. Total \in Nat /\ Total' \in Nat /\ Total <= Total'
  <2> DEFINE old == committed
             new == committed'
             p == Len(committed)
             q == Len(committed')
  <2>1. p \in Nat /\ q \in Nat /\ DOMAIN committed = 1 .. p /\ DOMAIN committed' = 1 .. q
    BY <1>3
  <2>2. p <= q /\ \A i \in 1 .. p : new[i] = old[i]
    BY <1>1, <2>1 DEF Extended
  <2> HIDE DEF old, new, p, q
  <2>3. NumAt(new, p) = NumAt(old, p)
    BY <2>1, <2>2, NumAgrees
  <2>4. NumAt(new, p) <= NumAt(new, q) /\ NumAt(new, p) \in Nat /\ NumAt(new, q) \in Nat
    BY <2>1, <2>2, NumGrows, NumNext
  <2> QED
    BY <2>3, <2>4 DEF old, new, p, q, Total
<1> QED
  BY <1>2, <1>5, <1>6

(* A server has no more configurations than there are changes. *)
LEMMA RunsBounded ==
    ASSUME LogInv, NewsInv, NEW s \in Server
    PROVE  /\ Len(ran[s]) \in 0 .. Total /\ Total \in Nat
           /\ lastApplied[s] \in Nat /\ Len(ran[s]) = NumAt(committed, lastApplied[s])
<1>1. /\ committed \in Seq(Entry)
      /\ lastApplied[s] \in Nat /\ lastApplied[s] <= commitIndex[s] /\ commitIndex[s] \in Nat
  BY DEF LogInv, RaftTypes, AppliedCommitted
<1>2. \A i \in 1 .. commitIndex[s] : i <= Len(committed)
  BY DEF LogInv, CommittedAgree
<1>3. Len(committed) \in Nat /\ lastApplied[s] <= Len(committed)
  BY <1>1, <1>2
<1>4. Len(ran[s]) = NumAt(committed, lastApplied[s])
  BY DEF NewsInv, ServerTrue
<1>5. /\ NumAt(committed, lastApplied[s]) <= Total /\ Total \in Nat
      /\ NumAt(committed, lastApplied[s]) \in Nat
  BY <1>1, <1>3, NumGrows, NumNext DEF Total
<1> QED
  BY <1>1, <1>4, <1>5

(* A clerk whose record changes while nothing else does. *)
LEMMA OneClerkNews ==
    ASSUME NewsInv, ClerkOK, NEW c \in Clerk, NEW q, clerk' = [clerk EXCEPT ![c] = q],
           UNCHANGED <<raftVars, configs, sessions, ran>>,
           ClerkTrue(c, q, log, committed), seen' \in 0 .. Total
    PROVE  NewsInv'
<1>1. clerk'[c] = q /\ \A d \in Clerk \ {c} : clerk'[d] = clerk[d]
  BY DEF ClerkOK
<1> QED
  BY <1>1 DEF NewsInv, raftVars, Total

(* TryNext. *)
LEMMA TryNextNews ==
    ASSUME NewsInv, ClerkOK, NEW c \in Clerk, TryNext(c), clerk[c].pc # "idle",
           UNCHANGED <<raftVars, configs, sessions, ran>>
    PROVE  NewsInv'
<1>1. clerk' = [clerk EXCEPT ![c] = AtNext(clerk[c])] /\ seen' = seen
  BY DEF TryNext, ClerkOK
<1>2. ClerkTrue(c, AtNext(clerk[c]), log, committed)
  BY TrueNext DEF NewsInv, ClerkOK
<1>3. seen' \in 0 .. Total
  BY <1>1 DEF NewsInv, Total
<1> QED
  BY <1>1, <1>2, <1>3, OneClerkNews

(* Finish: the answer to a Query is new enough, and nobody is told of a    *)
(* configuration that is not.                                              *)
LEMMA FinishNews ==
    ASSUME Inv, NewsInv, AckInv, NEW c \in Clerk, NEW reply, Finish(c, reply),
           clerk[c].pc # "idle", UNCHANGED <<raftVars, configs, sessions, ran>>,
           ~IsChange(Request(c)) =>
              /\ reply.config.num \in 0 .. Total
              /\ ~clerk[c].shared => reply.config.num >= AtLeast(Op(Request(c)).num, clerk[c].floor)
    PROVE  NewsInv'
<1> DEFINE r == clerk[c]
           q == [FreshClerk EXCEPT !.seq = r.seq + 1, !.floor = r.floor,
                                   !.got = reply.config.num, !.shared = r.shared]
           made == {k \in DOMAIN ran[r.srv] : ran[r.srv][k] = Request(c)}
<1>1. /\ clerk' = [clerk EXCEPT ![c] = q]
      /\ seen' = Max({seen} \cup (IF ~IsChange(Request(c)) THEN {reply.config.num} ELSE made))
  BY DEF Finish, IsChange
<1>2. /\ r.seq \in Nat \ {0} /\ r.srv \in Server
      /\ ClerkTrue(c, r, log, committed) /\ seen \in 0 .. Total
  BY DEF AckInv, ClerksTold, ToldTrue, NewsInv, Total
<1>3. Len(ran[r.srv]) \in 0 .. Total /\ Total \in Nat
  BY <1>2, RunsBounded DEF Inv
<1>4. q.pc = "idle" /\ q.seq = r.seq + 1 /\ q.floor = r.floor /\ q.chan = <<>>
      /\ q.got = reply.config.num /\ q.shared = r.shared
  BY DEF FreshClerk
<1> HIDE DEF q
<1>5. \A entries : NotAhead(c, r, entries) => NotAhead(c, q, entries)
  <2> SUFFICES ASSUME NEW entries, NotAhead(c, r, entries) PROVE NotAhead(c, q, entries)
    OBVIOUS
  <2> SUFFICES ASSUME NEW i \in DOMAIN entries, entries[i].cmd[1] = c
               PROVE  /\ entries[i].cmd[2] \in 1 .. Len(Script[c]) /\ entries[i].cmd[2] <= q.seq
                      /\ entries[i].cmd[2] # q.seq
    BY DEF NotAhead
  <2>1. entries[i].cmd[2] \in 1 .. Len(Script[c]) /\ entries[i].cmd[2] <= r.seq
    BY DEF NotAhead
  <2>2. Len(Script[c]) \in Nat
    BY ScriptAssumption
  <2> HIDE DEF r
  <2> QED
    BY <1>2, <1>4, <2>1, <2>2
<1>6. AnswerTrue(c, q, Total)
  <2>1. r.floor \in 0 .. Total
    BY <1>2 DEF ClerkTrue, AnswerTrue, Total
  <2>2. q.seq - 1 = r.seq
    BY <1>2, <1>4
  <2>3. ~r.shared /\ ~IsChange(<<c, r.seq>>) =>
            reply.config.num >= AtLeast(Op(<<c, r.seq>>).num, r.floor)
    BY DEF Request
  <2> HIDE DEF r
  <2> QED
    BY <1>4, <2>1, <2>2, <2>3 DEF AnswerTrue
<1>7. ClerkTrue(c, q, log, committed)
  BY <1>2, <1>4, <1>5, <1>6 DEF ClerkTrue, FloorTrue, Total
<1>8. seen' \in 0 .. Total
  <2>1. CASE ~IsChange(Request(c))
    <3>1. seen' = Max({seen} \cup {reply.config.num})
      BY <1>1, <2>1
    <3>2. reply.config.num \in 0 .. Total
      BY <2>1
    <3> QED
      BY <1>2, <1>3, <3>1, <3>2, MaxBounded
  <2>2. CASE IsChange(Request(c))
    <3>1. seen' = Max({seen} \cup made)
      BY <1>1, <2>2
    <3>2. \A j, k \in made : j = k
      BY <1>2 DEF Inv, RunsOK, AtMostOnce, IsInjective
    <3>3. made \subseteq 0 .. Total
      <4>1. ran[r.srv] \in Seq(Clerk \X Nat)
        BY <1>2 DEF Inv, RunsOK, RunsRecorded
      <4>2. DOMAIN ran[r.srv] = 1 .. Len(ran[r.srv])
        BY <4>1
      <4> QED
        BY <1>3, <4>2
    <3> HIDE DEF made
    <3>4. CASE made = {}
      <4>1. seen' = Max({seen})
        BY <3>1, <3>4
      <4> QED
        BY <1>2, <1>3, <4>1, MaxBounded
    <3>5. CASE made # {}
      <4>1. PICK k : k \in made
        BY <3>5
      <4>2. made = {k} /\ k \in 0 .. Total
        BY <3>2, <3>3, <4>1
      <4>3. seen' = Max({seen} \cup {k})
        BY <3>1, <4>2
      <4> QED
        BY <1>2, <1>3, <4>2, <4>3, MaxBounded
    <3> QED
      BY <3>4, <3>5
  <2> QED
    BY <2>1, <2>2
<1> QED
  BY <1>1, <1>7, <1>8, OneClerkNews DEF Inv
(* The record with other values in its fields. *)
LEMMA ClerkCopies ==
    ASSUME NEW r, IsClerk(r), NEW v, NEW f
    PROVE  /\ LET q == [r EXCEPT !.pc = v]
              IN  q.pc = v /\ q.seq = r.seq /\ q.floor = r.floor /\ q.chan = r.chan /\ q.shared = r.shared
           /\ LET q == [r EXCEPT !.pc = v, !.floor = f, !.shared = FALSE]
              IN  q.pc = v /\ q.seq = r.seq /\ q.floor = f /\ q.chan = r.chan /\ q.shared = FALSE
           /\ LET q == [r EXCEPT !.pc = v, !.index = f, !.shared = FALSE]
              IN  q.pc = v /\ q.seq = r.seq /\ q.floor = r.floor /\ q.chan = r.chan
           /\ LET q == [r EXCEPT !.pc = v, !.index = f, !.shared = TRUE]
              IN  q.pc = v /\ q.seq = r.seq /\ q.floor = r.floor /\ q.chan = r.chan
           /\ LET q == [r EXCEPT !.shared = TRUE]
              IN  q.pc = r.pc /\ q.seq = r.seq /\ q.floor = r.floor /\ q.chan = r.chan /\ q.shared = TRUE
           /\ LET q == [r EXCEPT !.chan = v]
              IN  q.pc = r.pc /\ q.seq = r.seq /\ q.floor = r.floor /\ q.chan = v /\ q.shared = r.shared
BY DEF IsClerk, ClerkFields

(* Steps of clerks but Start. *)
LEMMA ClerkNews ==
    ASSUME Inv, AckInv, NewsInv, NEW c \in Clerk,
           Invoke(c) \/ LoseCall(c) \/ EnterHandler(c) \/ createNotifyCh(c) \/ Receive(c) \/ Timeout(c)
    PROVE  NewsInv'
<1> DEFINE r == clerk[c]
<1>1. /\ IsClerk(r) /\ ToldTrue(c, r, isLeader, log, currentTerm, committed)
      /\ ClerkTrue(c, r, log, committed) /\ seen \in 0 .. Total /\ ClerkOK /\ NewsInv
  BY DEF Inv, ClerkOK, AckInv, ClerksTold, NewsInv, Total
<1>2. CASE Invoke(c)
  <2> DEFINE q == [r EXCEPT !.pc = "call", !.floor = seen, !.shared = FALSE]
  <2>1. /\ clerk' = [clerk EXCEPT ![c] = q] /\ UNCHANGED <<raftVars, configs, sessions, ran, seen>>
        /\ r.pc = "idle" /\ r.seq <= Len(Script[c]) /\ r.chan = <<>>
    BY <1>1, <1>2 DEF Invoke, ClerkOK, smVars, ToldTrue
  <2>2. /\ q.pc = "call" /\ q.seq = r.seq /\ q.floor = seen /\ q.chan = <<>> /\ q.shared = FALSE
    BY <1>1, <2>1 DEF IsClerk, ClerkFields
  <2> HIDE DEF q
  <2>3. NotAhead(c, q, committed) /\ \A s \in Server : NotAhead(c, q, log[s])
    BY <1>1, <2>2 DEF ClerkTrue, NotAhead
  <2>4. AnswerTrue(c, q, Total)
    BY <1>1, <2>2 DEF AnswerTrue
  <2>5. \A k \in DOMAIN committed : committed[k].cmd # <<c, r.seq>>
    <3> SUFFICES ASSUME NEW k \in DOMAIN committed, committed[k].cmd = <<c, r.seq>> PROVE FALSE
      OBVIOUS
    <3>1. committed[k].cmd[1] = c /\ committed[k].cmd[2] = r.seq
      OBVIOUS
    <3> QED
      BY <1>1, <2>1, <3>1 DEF ClerkTrue, NotAhead
  <2>6. FloorTrue(c, q, committed)
    BY <2>1, <2>2, <2>5 DEF FloorTrue
  <2>7. ClerkTrue(c, q, log, committed)
    BY <2>3, <2>4, <2>6 DEF ClerkTrue, Total
  <2> QED
    BY <1>1, <2>1, <2>7, OneClerkNews
<1>3. CASE LoseCall(c) \/ Timeout(c)
  BY <1>1, <1>3, TryNextNews DEF LoseCall, Timeout, LeaveSelect, smVars
<1>4. CASE EnterHandler(c)
  <2> DEFINE session == sessions[r.srv][c]
             reply == IF r.seq = session.lastSeqNum THEN session.response ELSE ZeroReply
  <2>1. UNCHANGED <<raftVars, configs, sessions, ran>> /\ r.pc = "call"
    BY <1>4 DEF EnterHandler, smVars
  <2>2. CASE IsChange(Request(c)) /\ Answer(c, reply)
    <3>1. CASE Finish(c, reply)
      BY <1>1, <2>1, <2>2, <3>1, FinishNews
    <3>2. CASE TryNext(c)
      BY <1>1, <2>1, <3>2, TryNextNews
    <3> QED
      BY <2>2, <3>1, <3>2 DEF Answer
  <2>3. CASE clerk' = [clerk EXCEPT ![c].pc = "start"] /\ seen' = seen
    <3> DEFINE q == [r EXCEPT !.pc = "start"]
    <3>1. clerk' = [clerk EXCEPT ![c] = q]
      BY <1>1, <2>3 DEF ClerkOK
    <3>2. q.pc = "start" /\ q.seq = r.seq /\ q.floor = r.floor /\ q.chan = r.chan /\ q.shared = r.shared
      BY <1>1, ClerkCopies
    <3> HIDE DEF q
    <3>3. ClerkTrue(c, q, log, committed)
      BY <1>1, <2>1, <3>2, TrueGoesOn
    <3> QED
      BY <1>1, <2>1, <2>3, <3>1, <3>3, OneClerkNews
  <2> QED
    BY <1>4, <2>2, <2>3 DEF EnterHandler, IsChange
<1>5. CASE createNotifyCh(c)
  <2> DEFINE q == [r EXCEPT !.pc = "wait"]
  <2>1. /\ clerk' = [clerk EXCEPT ![c] = q] /\ UNCHANGED <<raftVars, configs, sessions, ran, seen>>
        /\ r.pc = "create"
    BY <1>1, <1>5 DEF createNotifyCh, ClerkOK
  <2>2. q.pc = "wait" /\ q.seq = r.seq /\ q.floor = r.floor /\ q.chan = r.chan /\ q.shared = r.shared
    BY <1>1, ClerkCopies
  <2> HIDE DEF q
  <2>3. ClerkTrue(c, q, log, committed)
    BY <1>1, <2>1, <2>2, TrueGoesOn
  <2> QED
    BY <1>1, <2>1, <2>3, OneClerkNews
<1>6. CASE Receive(c)
  <2> DEFINE reply == Head(r.chan)
  <2>1. /\ r.chan # <<>> /\ Answer(c, reply) /\ UNCHANGED <<raftVars, configs, sessions, ran>>
        /\ r.pc = "wait"
    BY <1>6 DEF Receive, LeaveSelect
  <2>2. reply.err = "OK" /\ ~IsChange(Request(c)) =>
            /\ reply.config.num \in 0 .. Total
            /\ ~r.shared => reply.config.num >= AtLeast(Op(Request(c)).num, r.floor)
    BY <1>1, <2>1 DEF ClerkTrue, AnswerTrue, Request, Total
  <2> HIDE DEF reply
  <2>3. CASE reply.err = "OK" /\ Finish(c, reply)
    BY <1>1, <2>1, <2>2, <2>3, FinishNews
  <2>4. CASE TryNext(c)
    BY <1>1, <2>1, <2>4, TryNextNews
  <2> QED
    BY <2>1, <2>3, <2>4 DEF Answer
<1> QED
  BY <1>2, <1>3, <1>4, <1>5, <1>6

(* Start: the new entry is a request under way. *)
LEMMA StartNews ==
    ASSUME Inv, AckInv, NewsInv, NEW c \in Clerk, Start(c) PROVE NewsInv'
<1> DEFINE s == clerk[c].srv
           i == Len(log[s]) + 1
           others == Holders(s, i)
           e == [cmd |-> Request(c), term |-> currentTerm[s]]
           q == [clerk[c] EXCEPT !.pc = "create", !.index = i, !.shared = others # {}]
<1>1. /\ \A d \in Clerk : ClerkTrue(d, clerk[d], log, committed) /\ IsClerk(clerk[d])
      /\ s \in Server /\ clerk[c].pc = "start" /\ clerk[c].seq \in Nat \ {0}
      /\ RaftTypes /\ ClerkOK
  BY DEF Inv, LogInv, ClerkOK, AckInv, ClerksTold, ToldTrue, NewsInv, Start
<1>2. CASE TryNext(c) /\ UNCHANGED raftVars
  BY <1>1, <1>2, TryNextNews DEF Start, smVars
<1>3. CASE isLeader[s]
  <2>1. /\ log' = [log EXCEPT ![s] = Append(@, e)]
        /\ UNCHANGED <<lastApplied, committed, configs, sessions, ran, seen>>
        /\ clerk' = [d \in Clerk |->
                IF d = c THEN q
                ELSE IF d \in others THEN [clerk[d] EXCEPT !.shared = TRUE] ELSE clerk[d]]
    BY <1>3 DEF Start, AppendToLog, smVars
  <2>2. e.cmd[1] = c /\ e.cmd[2] = clerk[c].seq
    BY DEF Request
  <2>3. log[s] \in Seq(Entry) /\ Len(log[s]) \in Nat /\ DOMAIN log[s] = 1 .. Len(log[s])
    BY <1>1, TypeFacts
  <2>4. log = [p \in Server |-> log[p]]
    BY <1>1 DEF RaftTypes
  <2>5. q.pc = "create" /\ q.seq = clerk[c].seq /\ q.floor = clerk[c].floor /\ q.chan = clerk[c].chan
        /\ clerk[c].chan = <<>>
    <3>1. clerk[c].chan = <<>>
      BY <1>1 DEF AckInv, ClerksTold, ToldTrue
    <3> QED
      BY <1>1, <3>1 DEF IsClerk, ClerkFields
  <2>6. \A d \in others : d \in Clerk /\ clerk[d].pc # "idle"
    BY DEF Holders
  <2> HIDE DEF e, q, others, i
  <2>7. ASSUME NEW p \in Server, NEW k \in DOMAIN log'[p]
        PROVE  (k \in DOMAIN log[p] /\ log'[p][k] = log[p][k]) \/ log'[p][k] = e
    <3>1. CASE p = s
      <4>1. log'[p] = Append(log[p], e)
        BY <1>1, <2>1, <2>4, <3>1
      <4> QED
        BY <2>3, <2>7, <3>1, <4>1
    <3>2. CASE p # s
      BY <2>1, <2>4, <2>7, <3>2
    <3> QED
      BY <3>1, <3>2
  <2>8. ASSUME NEW d \in Clerk, NEW r, ClerkTrue(d, r, log, committed), d = c => r.seq = clerk[c].seq /\ r.pc # "idle",
               clerk[c].seq \in 1 .. Len(Script[c])
        PROVE  ClerkTrue(d, r, log', committed')
    <3>1. \A p \in Server : NotAhead(d, r, log'[p])
      BY <1>1, <2>2, <2>7, <2>8 DEF ClerkTrue, NotAhead
    <3> QED
      BY <2>1, <2>8, <3>1 DEF ClerkTrue
  <2>9. clerk[c].seq \in 1 .. Len(Script[c])
    <3>1. clerk[c].seq <= Len(Script[c]) /\ Len(Script[c]) \in Nat
      BY <1>1, ScriptAssumption DEF ClerkTrue, FloorTrue
    <3> HIDE DEF s
    <3> QED
      BY <1>1, <3>1
  <2>10. ClerkTrue(c, q, log', committed')
    <3>1. ClerkTrue(c, q, log, committed)
      BY <1>1, <2>5, TrueGoesOn
    <3> QED
      BY <1>1, <2>5, <2>8, <2>9, <3>1
  <2>11. ASSUME NEW d \in Clerk \ {c} PROVE ClerkTrue(d, clerk'[d], log', committed')
    <3>1. CASE d \in others
      <4> DEFINE r == [clerk[d] EXCEPT !.shared = TRUE]
      <4>1. r.pc = clerk[d].pc /\ r.seq = clerk[d].seq /\ r.floor = clerk[d].floor
            /\ r.chan = clerk[d].chan /\ r.shared = TRUE
        BY <1>1, ClerkCopies
      <4>2. clerk'[d] = r
        BY <2>1, <3>1
      <4> HIDE DEF r
      <4>3. ClerkTrue(d, r, log, committed)
        BY <1>1, <2>6, <3>1, <4>1, TrueGoesOn
      <4> QED
        BY <2>8, <2>9, <4>2, <4>3
    <3>2. CASE d \notin others
      BY <1>1, <2>1, <2>8, <2>9, <3>2
    <3> QED
      BY <3>1, <3>2
  <2> QED
    BY <2>1, <2>10, <2>11 DEF NewsInv
<1> QED
  BY <1>2, <1>3 DEF Start

(* Put: an answer that is new enough for whoever waits for one. *)
LEMMA PutNews ==
    ASSUME ClerkOK, NEW cs, NEW reply, Put(cs, reply),
           \A d \in Clerk : ClerkTrue(d, clerk[d], log', committed'),
           \A d \in cs : /\ clerk[d].pc = "wait"
                         /\ reply.err = "OK" /\ ~IsChange(<<d, clerk[d].seq>>) =>
                                /\ reply.config.num \in 0 .. Total'
                                /\ ~clerk[d].shared =>
                                     reply.config.num >= AtLeast(Op(<<d, clerk[d].seq>>).num, clerk[d].floor)
    PROVE  \A d \in Clerk : ClerkTrue(d, clerk'[d], log', committed')
<1> TAKE d \in Clerk
<1> DEFINE q == [clerk[d] EXCEPT !.chan = <<reply>>]
           m == NumAt(committed', Len(committed'))
<1>1. clerk'[d] = IF d \in cs /\ clerk[d].chan = <<>> THEN q ELSE clerk[d]
  BY DEF Put
<1>2. CASE d \in cs /\ clerk[d].chan = <<>>
  <2>1. q.pc = clerk[d].pc /\ q.seq = clerk[d].seq /\ q.floor = clerk[d].floor
        /\ q.chan = <<reply>> /\ q.shared = clerk[d].shared
    BY ClerkCopies DEF ClerkOK
  <2>2. Head(<<reply>>) = reply /\ Total' = m
    BY DEF Total
  <2>3. ClerkTrue(d, clerk[d], log', committed') /\ clerk'[d] = q
    BY <1>1, <1>2
  <2> HIDE DEF q, m
  <2>4. AnswerTrue(d, q, m)
    BY <1>2, <2>1, <2>2, <2>3 DEF ClerkTrue, AnswerTrue, m
  <2>5. ClerkTrue(d, q, log', committed')
    BY <2>1, <2>3, <2>4 DEF ClerkTrue, NotAhead, FloorTrue, m
  <2> QED
    BY <2>3, <2>5
<1>3. CASE ~(d \in cs /\ clerk[d].chan = <<>>)
  BY <1>1, <1>3
<1> QED
  BY <1>2, <1>3
-----------------------------------------------------------------------------
(* Configurations and their numbers. *)

IsConfig(config, num) ==
    config = [num |-> num, shards |-> config.shards, groups |-> config.groups]

(* Join, Leave and Move give the next number. *)
LEMMA ExecutedNext ==
    ASSUME NEW op, op.type \in {"Join", "Leave", "Move"}, NEW n, NEW last, IsConfig(last, n),
           NEW config \in Executed(op, last)
    PROVE  IsConfig(config, n + 1)
<1>1. last.num = n
  BY DEF IsConfig
<1>2. CASE op.type = "Join"
  <2>1. PICK o : config = executeJoin(last, op.gids, o)
    BY <1>2 DEF Executed
  <2> QED
    BY <1>1, <2>1 DEF executeJoin, IsConfig
<1>3. CASE op.type = "Leave"
  <2>1. PICK o : config = executeLeave(last, op.gids, o)
    BY <1>3 DEF Executed
  <2> QED
    BY <1>1, <2>1 DEF executeLeave, IsConfig
<1>4. CASE op.type = "Move"
  <2>1. config = executeMove(last, op.shard, op.gid)
    BY <1>4 DEF Executed
  <2> DEFINE old == last.shards
             dealt == [old EXCEPT ![op.shard] = op.gid]
  <2>2. last = [num |-> n, shards |-> old, groups |-> last.groups]
    BY DEF IsConfig
  <2>3. config = [last EXCEPT !.num = @ + 1, !.shards = dealt]
    BY <2>1 DEF executeMove
  <2> HIDE DEF old, dealt
  <2>4. config = [num |-> n + 1, shards |-> dealt, groups |-> last.groups]
    BY <1>1, <2>2, <2>3
  <2> QED
    BY <2>4 DEF IsConfig
<1> QED
  BY <1>2, <1>3, <1>4

(* Configurations in the order of their numbers. *)
Numbered(made, m) ==
    made = [k \in 1 .. m + 1 |-> [num |-> k - 1, shards |-> made[k].shards, groups |-> made[k].groups]]

(* Its last configuration has the last number.                             *)
LEMMA NumberedLast ==
    ASSUME NEW m \in Nat, NEW made, Numbered(made, m)
    PROVE  /\ made \in Seq({made[k] : k \in 1 .. m + 1}) /\ Len(made) = m + 1
           /\ DOMAIN made = 1 .. m + 1
           /\ \A k \in 1 .. m + 1 : IsConfig(made[k], k - 1) /\ made[k].num = k - 1
           /\ IsConfig(Last(made), m) /\ Last(made).num = m
<1>1. DOMAIN made = 1 .. m + 1
  BY DEF Numbered
<1>2. made = [k \in 1 .. m + 1 |-> made[k]]
  BY DEF Numbered
<1>3. \A k \in 1 .. m + 1 : IsConfig(made[k], k - 1) /\ made[k].num = k - 1
  BY DEF Numbered, IsConfig
<1>4. made \in Seq({made[k] : k \in 1 .. m + 1})
  BY <1>2
<1>5. Len(made) = m + 1
  BY <1>1, <1>4
<1>6. m + 1 \in 1 .. m + 1 /\ (m + 1) - 1 = m
  OBVIOUS
<1>7. IsConfig(Last(made), m) /\ Last(made).num = m
  BY <1>3, <1>5, <1>6 DEF Last
<1> QED
  BY <1>1, <1>3, <1>4, <1>5, <1>7

(* One more configuration, of the next number.                             *)
LEMMA NumberedAppend ==
    ASSUME NEW m \in Nat, NEW made, Numbered(made, m), NEW config, IsConfig(config, m + 1)
    PROVE  Numbered(Append(made, config), m + 1)
<1> DEFINE S == {made[k] : k \in 1 .. m + 1} \cup {config}
           new == Append(made, config)
<1>1. made \in Seq(S) /\ Len(made) = m + 1 /\ config \in S
  <2>1. Len(made) = m + 1 /\ made = [k \in 1 .. m + 1 |-> made[k]]
    BY NumberedLast DEF Numbered
  <2>2. \A k \in 1 .. m + 1 : made[k] \in S
    OBVIOUS
  <2> HIDE DEF S
  <2>3. made \in Seq(S)
    BY <2>1, <2>2
  <2> QED
    BY <2>1, <2>3 DEF S
<1> HIDE DEF S
<1>2. /\ DOMAIN new = 1 .. m + 2 /\ new = [k \in 1 .. m + 2 |-> new[k]]
      /\ \A k \in 1 .. m + 1 : new[k] = made[k]
      /\ new[m + 2] = config
  <2>1. /\ DOMAIN new = 1 .. (m + 1) + 1 /\ \A k \in 1 .. m + 1 : new[k] = made[k]
        /\ new[(m + 1) + 1] = config /\ new \in Seq(S)
    BY <1>1, AppendFacts
  <2>2. (m + 1) + 1 = m + 2
    OBVIOUS
  <2> HIDE DEF new
  <2>3. new \in [1 .. Len(new) -> S] /\ DOMAIN new = 1 .. Len(new)
    BY <2>1
  <2>4. new = [k \in DOMAIN new |-> new[k]]
    BY <2>3
  <2> QED
    BY <2>1, <2>2, <2>4
<1> HIDE DEF new
<1>3. \A k \in 1 .. m + 2 : IsConfig(new[k], k - 1)
  <2> SUFFICES ASSUME NEW k \in 1 .. m + 2 PROVE IsConfig(new[k], k - 1)
    OBVIOUS
  <2>1. CASE k = m + 2
    <3>1. k - 1 = m + 1
      BY <2>1
    <3> QED
      BY <1>2, <2>1, <3>1
  <2>2. CASE k \in 1 .. m + 1
    BY <1>2, <2>2, NumberedLast
  <2> QED
    BY <2>1, <2>2
<1>4. new = [k \in 1 .. m + 2 |-> [num |-> k - 1, shards |-> new[k].shards, groups |-> new[k].groups]]
  BY <1>2, <1>3 DEF IsConfig
<1>5. (m + 1) + 1 = m + 2
  OBVIOUS
<1> QED
  BY <1>4, <1>5 DEF Numbered, new

(* executeQuery returns the configuration asked for, or the last. *)
LEMMA QueryNum ==
    ASSUME NEW m \in Nat, NEW made, Numbered(made, m), NEW num \in Nat \cup {-1}
    PROVE  /\ executeQuery(made, num).num \in 0 .. m
           /\ \A floor \in 0 .. m : executeQuery(made, num).num >= AtLeast(num, floor)
<1> DEFINE got == executeQuery(made, num).num
<1>1. got = IF num = -1 \/ num > m THEN m ELSE num
  <2>1. CASE num = -1 \/ num > m
    BY <2>1, NumberedLast DEF executeQuery
  <2>2. CASE ~(num = -1 \/ num > m)
    <3>1. num + 1 \in 1 .. m + 1 /\ (num + 1) - 1 = num
      BY <2>2
    <3> DEFINE k == num + 1
    <3>2. k \in 1 .. m + 1 /\ k - 1 = num
      BY <3>1
    <3> HIDE DEF k
    <3>4. made[k].num = k - 1
      BY <3>2, NumberedLast
    <3>3. made[num + 1].num = num
      BY <3>2, <3>4 DEF k
    <3> QED
      BY <2>2, <3>3, NumberedLast, ZenonT(120) DEF executeQuery
  <2> QED
    BY <2>1, <2>2
<1> HIDE DEF got
<1>2. ASSUME NEW floor \in 0 .. m PROVE got >= AtLeast(num, floor)
  <2>1. CASE num = -1
    BY <1>1, <2>1 DEF AtLeast
  <2>2. CASE num # -1
    <3>1. AtLeast(num, floor) = IF num <= floor THEN num ELSE floor
      BY <2>2, MinOfTwo DEF AtLeast
    <3> QED
      BY <1>1, <2>2, <3>1
  <2> QED
    BY <2>1, <2>2
<1>3. got \in 0 .. m
  BY <1>1
<1> QED
  BY <1>2, <1>3 DEF got
(* A server that applies one entry more: it changes its configuration just *)
(* if the entry is a change.                                               *)
LEMMA ServerApplies ==
    ASSUME NEW made, NEW runs, NEW known, NEW n \in Nat, NEW entries,
           ServerTrue(made, runs, known, n, entries),
           known = [d \in Clerk |-> known[d]], \A d \in Clerk : known[d].lastSeqNum \in Nat,
           NEW c \in Clerk, NEW m \in Nat, m >= 1, entries[n + 1].cmd = <<c, m>>,
           \A i \in 1 .. n : entries[i].cmd \in Clerk \X Nat
    PROVE  /\ ~IsChange(<<c, m>>) \/ m <= known[c].lastSeqNum =>
                  ServerTrue(made, runs, known, n + 1, entries)
           /\ IsChange(<<c, m>>) /\ ~(m <= known[c].lastSeqNum) =>
                  NumAt(entries, n + 1) = NumAt(entries, n) + 1
<1>1. <<c, m>>[1] = c /\ <<c, m>>[2] = m
  OBVIOUS
<1>2. NumAt(entries, n) \in Nat /\ Len(runs) = NumAt(entries, n)
  BY NumNext DEF ServerTrue
<1>3. (n + 1) - 1 = n /\ 1 .. n + 1 = 1 .. n \cup {n + 1}
  OBVIOUS
<1>4. ASSUME ~IsChange(<<c, m>>) \/ m <= known[c].lastSeqNum
      PROVE  ServerTrue(made, runs, known, n + 1, entries)
  <2>1. ~ChangesAt(entries, n + 1)
    <3> SUFFICES ASSUME ChangesAt(entries, n + 1) PROVE FALSE
      OBVIOUS
    <3>1. IsChange(<<c, m>>) /\ m <= known[c].lastSeqNum
      BY <1>4 DEF ChangesAt
    <3>2. known[c].lastSeqNum # 0
      BY <3>1
    <3>3. PICK j \in 1 .. n : IsChange(entries[j].cmd) /\ entries[j].cmd = <<c, known[c].lastSeqNum>>
      BY <3>2 DEF ServerTrue
    <3>4. entries[j].cmd[1] = c /\ entries[j].cmd[2] = known[c].lastSeqNum
      BY <3>3
    <3>5. j \in 1 .. (n + 1) - 1
      BY <1>3
    <3>6. entries[j].cmd[2] < m
      BY <1>1, <3>3, <3>4, <3>5 DEF ChangesAt
    <3> QED
      BY <3>1, <3>4, <3>6
  <2>2. NumAt(entries, n + 1) = NumAt(entries, n)
    BY <2>1, NumNext
  <2>3. \A i \in 1 .. n + 1 : IsChange(entries[i].cmd) =>
            entries[i].cmd[2] <= known[entries[i].cmd[1]].lastSeqNum
    BY <1>1, <1>3, <1>4 DEF ServerTrue
  <2>4. \A d \in Clerk :
          /\ known[d].response.config.num = 0
          /\ known[d].lastSeqNum = 0
             \/ \E i \in 1 .. n + 1 : IsChange(entries[i].cmd) /\ entries[i].cmd = <<d, known[d].lastSeqNum>>
    BY <1>3 DEF ServerTrue
  <2>5. /\ Len(runs) = NumAt(entries, n + 1)
        /\ made = [k \in 1 .. Len(runs) + 1 |->
                  [num |-> k - 1, shards |-> made[k].shards, groups |-> made[k].groups]]
    BY <1>2, <2>2 DEF ServerTrue
  <2> QED
    BY <2>3, <2>4, <2>5 DEF ServerTrue
<1>5. ASSUME IsChange(<<c, m>>), ~(m <= known[c].lastSeqNum)
      PROVE  NumAt(entries, n + 1) = NumAt(entries, n) + 1
  <2>1. ASSUME NEW j \in 1 .. n, IsChange(entries[j].cmd), entries[j].cmd[1] = c
        PROVE  entries[j].cmd[2] < m
    <3>1. entries[j].cmd[2] <= known[c].lastSeqNum
      BY <2>1 DEF ServerTrue
    <3>2. entries[j].cmd[2] \in Nat /\ known[c].lastSeqNum \in Nat
      BY <2>1
    <3> QED
      BY <1>5, <3>1, <3>2
  <2>2. ChangesAt(entries, n + 1)
    BY <1>1, <1>3, <1>5, <2>1 DEF ChangesAt
  <2> QED
    BY <2>2, NumNext
<1> QED
  BY <1>4, <1>5

(* And the state it has then, if it is one. *)
LEMMA ServerChanges ==
    ASSUME NEW made, NEW runs \in Seq(Clerk \X Nat), NEW known, NEW n \in Nat, NEW entries,
           ServerTrue(made, runs, known, n, entries),
           known = [d \in Clerk |-> known[d]],
           NEW c \in Clerk, NEW m \in Nat, entries[n + 1].cmd = <<c, m>>, IsChange(<<c, m>>),
           ~(m <= known[c].lastSeqNum), known[c].lastSeqNum \in Nat,
           NumAt(entries, n + 1) = NumAt(entries, n) + 1,
           \A i \in 1 .. n : entries[i].cmd \in Clerk \X Nat,
           NEW config \in Executed(Op(<<c, m>>), Last(made)),
           Op(<<c, m>>).type \in {"Join", "Leave", "Move"},
           NEW answer, answer.lastSeqNum = m, answer.response.config.num = 0
    PROVE  ServerTrue(Append(made, config), Append(runs, <<c, m>>),
                      [known EXCEPT ![c] = answer], n + 1, entries)
<1> DEFINE new == Append(made, config)
           more == Append(runs, <<c, m>>)
           next == [known EXCEPT ![c] = answer]
<1>1. <<c, m>>[1] = c /\ <<c, m>>[2] = m /\ 1 .. n + 1 = 1 .. n \cup {n + 1}
  OBVIOUS
<1>2. Len(runs) \in Nat /\ Len(more) = Len(runs) + 1 /\ Len(runs) = NumAt(entries, n)
  BY DEF ServerTrue
<1>3. Numbered(made, Len(runs))
  BY DEF ServerTrue, Numbered
<1>4. IsConfig(Last(made), Len(runs))
  BY <1>2, <1>3, NumberedLast
<1>5. IsConfig(config, Len(runs) + 1)
  BY <1>4, ExecutedNext
<1>6. Numbered(new, Len(more))
  BY <1>2, <1>3, <1>5, NumberedAppend
<1>7. /\ next[c] = answer /\ \A d \in Clerk \ {c} : next[d] = known[d]
  OBVIOUS
<1> HIDE DEF new, more, next
<1>8. ASSUME NEW i \in 1 .. n + 1, IsChange(entries[i].cmd)
      PROVE  entries[i].cmd[2] <= next[entries[i].cmd[1]].lastSeqNum
  <2>1. CASE i = n + 1
    BY <1>1, <1>7, <2>1
  <2>2. CASE i \in 1 .. n
    <3>1. PICK d \in Clerk, p \in Nat : entries[i].cmd = <<d, p>>
      BY <2>2
    <3>2. entries[i].cmd[1] = d /\ entries[i].cmd[2] = p
      BY <3>1
    <3>3. p <= known[d].lastSeqNum
      BY <1>8, <2>2, <3>2 DEF ServerTrue
    <3>4. CASE d = c
      BY <1>7, <3>2, <3>3, <3>4
    <3>5. CASE d # c
      BY <1>7, <3>2, <3>3, <3>5
    <3> QED
      BY <3>4, <3>5
  <2> QED
    BY <1>1, <2>1, <2>2
<1>9. ASSUME NEW d \in Clerk
      PROVE  /\ next[d].response.config.num = 0
             /\ next[d].lastSeqNum = 0
                \/ \E i \in 1 .. n + 1 : IsChange(entries[i].cmd) /\ entries[i].cmd = <<d, next[d].lastSeqNum>>
  <2>1. CASE d = c
    <3>1. n + 1 \in 1 .. n + 1
      OBVIOUS
    <3> QED
      BY <1>7, <2>1, <3>1
  <2>2. CASE d # c
    <3>1. next[d] = known[d]
      BY <1>7, <2>2
    <3>2. /\ known[d].response.config.num = 0
          /\ known[d].lastSeqNum = 0
             \/ \E i \in 1 .. n : IsChange(entries[i].cmd) /\ entries[i].cmd = <<d, known[d].lastSeqNum>>
      BY DEF ServerTrue
    <3> QED
      BY <1>1, <3>1, <3>2
  <2> QED
    BY <2>1, <2>2
<1>10. Len(more) = NumAt(entries, n + 1)
  BY <1>2
<1>11. ServerTrue(new, more, next, n + 1, entries)
  BY <1>6, <1>8, <1>9, <1>10 DEF ServerTrue, Numbered
<1> QED
  BY <1>11 DEF new, more, next
(* applyConfigChange. *)
LEMMA ApplyNews ==
    ASSUME Inv, Inv', AckInv, NewsInv, [Next]_vars, NEW s \in Server, applyConfigChange(s)
    PROVE  NewsInv'
<1> DEFINE n == lastApplied[s]
           i == lastApplied[s] + 1
           req == log[s][i].cmd
           made == configs[s]
           runs == ran[s]
           known == sessions[s]
           done == [err |-> "OK", config |-> InitConfig]
<1>1. ApplyNext(s) /\ committed' = committed /\ seen' = seen /\ log' = log
  BY DEF applyConfigChange, ApplyNext
<1>2. /\ n \in Nat /\ lastApplied' = [lastApplied EXCEPT ![s] = i]
      /\ \A q \in Server : lastApplied'[q] = IF q = s THEN i ELSE lastApplied[q]
      /\ n < commitIndex[s] /\ commitIndex[s] \in Nat /\ RaftTypes /\ CommittedAgree
  BY <1>1 DEF Inv, LogInv, RaftTypes, ApplyNext
<1>3. /\ i \in DOMAIN log[s] /\ i \in DOMAIN committed /\ log[s][i] = committed[i]
      /\ \A j \in 1 .. n : committed[j].cmd \in Clerk \X Nat
      /\ req \in Clerk \X Nat
  <2>1. i \in 1 .. commitIndex[s] /\ \A j \in 1 .. n : j \in 1 .. commitIndex[s]
    BY <1>2
  <2>2. \A j \in 1 .. commitIndex[s] : j <= Len(log[s]) /\ j <= Len(committed) /\ log[s][j] = committed[j]
    BY <1>2 DEF CommittedAgree
  <2>3. \A j \in 1 .. commitIndex[s] : j \in DOMAIN log[s] /\ j \in DOMAIN committed
    BY <1>2, <2>2, TypeFacts
  <2>4. \A j \in DOMAIN committed : committed[j] \in Entry
    BY <1>2 DEF RaftTypes
  <2> QED
    BY <2>1, <2>2, <2>3, <2>4 DEF Entry
<1>4. PICK c \in Clerk, m \in Nat : req = <<c, m>>
  BY <1>3
<1>5. committed[i].cmd = <<c, m>> /\ req[1] = c /\ req[2] = m
  BY <1>3, <1>4
<1>6. m \in 1 .. Len(Script[c])
  <2>1. NotAhead(c, clerk[c], committed)
    BY DEF NewsInv, ClerkTrue
  <2> QED
    BY <1>3, <1>5, <2>1 DEF NotAhead
<1>7. /\ known = [d \in Clerk |-> known[d]] /\ \A d \in Clerk : known[d].lastSeqNum \in Nat
      /\ sessions = [q \in Server |-> sessions[q]]
      /\ runs \in Seq(Clerk \X Nat) /\ ran = [q \in Server |-> ran[q]]
      /\ configs = [q \in Server |-> configs[q]]
      /\ ServerTrue(made, runs, known, n, committed)
  BY DEF Inv, RunsOK, SessionsOK, RunsRecorded, NewsInv
<1>8. Len(Script[c]) \in Nat /\ Op(req).type \in {"Join", "Leave", "Move", "Query"}
      /\ (~IsChange(req) => Op(req).num \in Nat \cup {-1})
      /\ m >= 1
  <2>1. Op(req) = Script[c][m]
    BY <1>5 DEF Op
  <2> QED
    BY <1>6, <2>1, ScriptAssumption DEF IsChange
<1>9. FromLogs /\ CommittedFromLogs
  BY <1>1, EntriesMove DEF Inv
<1>10. /\ \A d \in Clerk : ClerkTrue(d, clerk[d], log', committed')
       /\ \A q \in Server : ServerTrue(configs[q], ran[q], sessions[q], lastApplied[q], committed')
  BY <1>9, OthersTrue
<1>11. Total' = Total /\ Total \in Nat /\ Len(runs) \in 0 .. Total /\ Len(runs) = NumAt(committed, n)
  BY <1>1, RunsBounded DEF Inv, Total
<1> HIDE DEF n, i, req, made, runs, known, done
<1>12. ASSUME NEW reply, Notify(s, i, reply),
              /\ reply.err = "OK" /\ IsChange(req) => reply.config.num = 0
              /\ reply.err = "OK" /\ ~IsChange(req) =>
                    /\ reply.config.num \in 0 .. Total
                    /\ \A floor \in 0 .. Len(runs) : reply.config.num >= AtLeast(Op(req).num, floor)
       PROVE  \A d \in Clerk : ClerkTrue(d, clerk'[d], log', committed')
  <2>1. CASE isLeader[s] /\ log[s][i].term = currentTerm[s] /\ Put(Waiting(s, i), reply)
    <3>1. ASSUME NEW d \in Waiting(s, i)
          PROVE  /\ clerk[d].pc = "wait"
                 /\ reply.err = "OK" /\ ~IsChange(<<d, clerk[d].seq>>) =>
                        /\ reply.config.num \in 0 .. Total'
                        /\ ~clerk[d].shared =>
                             reply.config.num >= AtLeast(Op(<<d, clerk[d].seq>>).num, clerk[d].floor)
      <4>1. d \in Clerk /\ clerk[d].pc = "wait" /\ clerk[d].srv = s /\ clerk[d].index = i
        BY DEF Waiting, Holders
      <4>2. ToldTrue(d, clerk[d], isLeader, log, currentTerm, committed) /\ ClerkTrue(d, clerk[d], log, committed)
        BY <4>1 DEF AckInv, ClerksTold, NewsInv
      <4>3. ~clerk[d].shared => req = <<d, clerk[d].seq>>
        BY <1>3, <2>1, <4>1, <4>2 DEF ToldTrue, Owns, req
      <4>4. ASSUME reply.err = "OK", ~IsChange(<<d, clerk[d].seq>>), ~clerk[d].shared
            PROVE  reply.config.num >= AtLeast(Op(<<d, clerk[d].seq>>).num, clerk[d].floor)
        <5>1. req = <<d, clerk[d].seq>> /\ committed[i].cmd = req
          BY <4>3, <4>4, <1>4, <1>5
        <5>2. clerk[d].floor <= NumAt(committed, i - 1) /\ clerk[d].floor \in 0 .. Total
          BY <1>3, <4>1, <4>2, <5>1 DEF ClerkTrue, FloorTrue, AnswerTrue, Total
        <5>3. i - 1 = n
          BY <1>2 DEF i, n
        <5>4. clerk[d].floor \in 0 .. Len(runs)
          BY <1>11, <5>2, <5>3
        <5> QED
          BY <1>12, <4>4, <5>1, <5>4
      <4>5. reply.err = "OK" => reply.config.num \in 0 .. Total'
        BY <1>11, <1>12
      <4> QED
        BY <4>1, <4>4, <4>5
    <3> QED
      BY <1>10, <2>1, <3>1, PutNews DEF Inv
  <2>2. CASE clerk' = clerk
    BY <1>10, <2>2
  <2> QED
    BY <1>12, <2>1, <2>2 DEF Notify
<1>13. ASSUME UNCHANGED <<configs, sessions, ran>>, ~IsChange(req) \/ m <= known[c].lastSeqNum
       PROVE  configs' = [q \in Server |-> configs'[q]]
              /\ \A q \in Server : ServerTrue(configs'[q], ran'[q], sessions'[q], lastApplied'[q], committed')
  <2>1. ServerTrue(made, runs, known, i, committed)
    BY <1>2, <1>3, <1>4, <1>5, <1>7, <1>8, <1>13, ServerApplies DEF i, n
  <2> QED
    BY <1>1, <1>2, <1>7, <1>10, <1>13, <2>1 DEF made, runs, known
<1>14. InitConfig.num = 0
  BY DEF InitConfig
<1>15. CASE /\ IsRepeated(s, req) /\ Notify(s, i, known[c].response)
            /\ UNCHANGED <<configs, sessions, ran>>
  <2>1. known[c].response.config.num = 0 /\ IsChange(req) /\ m <= known[c].lastSeqNum
    BY <1>5, <1>7, <1>15 DEF ServerTrue, IsRepeated, IsChange, known
  <2> DEFINE reply == known[c].response
  <2> HIDE DEF reply
  <2>2. reply.config.num = 0 /\ Notify(s, i, reply)
    BY <1>15, <2>1 DEF reply
  <2>3. \A d \in Clerk : ClerkTrue(d, clerk'[d], log', committed')
    BY <1>11, <1>12, <2>1, <2>2
  <2> QED
    BY <1>1, <1>11, <1>13, <1>15, <2>1, <2>3 DEF NewsInv, Total
<1>16. CASE /\ ~IsChange(req) /\ Notify(s, i, [err |-> "OK", config |-> executeQuery(made, Op(req).num)])
            /\ UNCHANGED <<configs, sessions, ran>>
  <2> DEFINE num == Op(req).num
             got == executeQuery(made, num)
             reply == [err |-> "OK", config |-> got]
  <2>1. Numbered(made, Len(runs)) /\ Len(runs) \in Nat
    BY <1>7, <1>11 DEF ServerTrue, Numbered
  <2>2. num \in Nat \cup {-1}
    BY <1>8, <1>16
  <2>3. reply.config = got
    OBVIOUS
  <2> HIDE DEF num
  <2>4. got.num \in 0 .. Len(runs) /\ \A floor \in 0 .. Len(runs) : got.num >= AtLeast(num, floor)
    BY <2>1, <2>2, QueryNum
  <2>5. Notify(s, i, reply)
    BY <1>16 DEF num
  <2> HIDE DEF got, reply
  <2>6. got.num \in 0 .. Total
    BY <1>11, <2>4
  <2>7. \A d \in Clerk : ClerkTrue(d, clerk'[d], log', committed')
    BY <1>12, <1>16, <2>3, <2>4, <2>5, <2>6 DEF num
  <2> QED
    BY <1>1, <1>11, <1>13, <1>16, <2>7 DEF NewsInv, Total
<1>17. CASE /\ IsChange(req) /\ ~IsRepeated(s, req) /\ Notify(s, i, done)
            /\ \E config \in Executed(Op(req), Last(made)) :
                    configs' = [configs EXCEPT ![s] = Append(@, config)]
            /\ sessions' = [sessions EXCEPT ![s][c] = [lastSeqNum |-> m, response |-> done]]
            /\ ran' = [ran EXCEPT ![s] = Append(@, req)]
  <2> DEFINE answer == [lastSeqNum |-> m, response |-> done]
  <2>1. PICK config \in Executed(Op(req), Last(made)) : configs' = [configs EXCEPT ![s] = Append(@, config)]
    BY <1>17
  <2>2. answer.lastSeqNum = m /\ answer.response.config.num = 0
    BY <1>14 DEF done
  <2>3. sessions' = [sessions EXCEPT ![s][c] = answer]
    BY <1>17
  <2> HIDE DEF answer
  <2>4. /\ configs' = [q \in Server |-> configs'[q]]
        /\ configs'[s] = Append(made, config) /\ ran'[s] = Append(runs, <<c, m>>)
        /\ sessions'[s] = [known EXCEPT ![c] = answer]
        /\ \A q \in Server \ {s} : configs'[q] = configs[q] /\ ran'[q] = ran[q] /\ sessions'[q] = sessions[q]
    <3>1. configs' = [q \in Server |-> configs'[q]]
          /\ configs'[s] = Append(made, config)
          /\ \A q \in Server \ {s} : configs'[q] = configs[q]
      BY <1>7, <2>1 DEF made
    <3>2. ran'[s] = Append(runs, <<c, m>>) /\ \A q \in Server \ {s} : ran'[q] = ran[q]
      BY <1>4, <1>7, <1>17 DEF runs
    <3>3. sessions'[s] = [known EXCEPT ![c] = answer]
          /\ \A q \in Server \ {s} : sessions'[q] = sessions[q]
      BY <1>7, <2>3 DEF known
    <3> QED
      BY <3>1, <3>2, <3>3
  <2>5. ~(m <= known[c].lastSeqNum) /\ known[c].lastSeqNum \in Nat /\ Op(req).type \in {"Join", "Leave", "Move"}
    BY <1>5, <1>7, <1>8, <1>17 DEF IsRepeated, IsChange, known
  <2>6. NumAt(committed, n + 1) = NumAt(committed, n) + 1
    <3>1. committed[n + 1].cmd = <<c, m>>
      BY <1>5 DEF i, n
    <3>2. IsChange(<<c, m>>)
      BY <1>4, <1>17
    <3> QED
      <4>1. /\ n \in Nat /\ ServerTrue(made, runs, known, n, committed)
            /\ known = [d \in Clerk |-> known[d]] /\ \A d \in Clerk : known[d].lastSeqNum \in Nat
            /\ m >= 1 /\ \A j \in 1 .. n : committed[j].cmd \in Clerk \X Nat
        BY <1>2, <1>3, <1>7, <1>8
      <4>2. IsChange(<<c, m>>) /\ ~(m <= known[c].lastSeqNum) =>
                  NumAt(committed, n + 1) = NumAt(committed, n) + 1
        BY <3>1, <4>1, ServerApplies, SMTT(120)
      <4> QED
        BY <2>5, <3>2, <4>2
  <2>7. ServerTrue(Append(made, config), Append(runs, <<c, m>>), [known EXCEPT ![c] = answer], n + 1, committed)
    <3>1. Op(<<c, m>>).type \in {"Join", "Leave", "Move"} /\ IsChange(<<c, m>>)
          /\ config \in Executed(Op(<<c, m>>), Last(made))
      BY <1>4, <1>17, <2>1, <2>5
    <3>2. n + 1 = i
      BY DEF i, n
    <3> QED
      BY <1>2, <1>3, <1>5, <1>7, <2>2, <2>5, <2>6, <3>1, <3>2, ServerChanges
  <2>8. \A q \in Server : ServerTrue(configs'[q], ran'[q], sessions'[q], lastApplied'[q], committed')
    <3> SUFFICES ASSUME NEW q \in Server
                 PROVE  ServerTrue(configs'[q], ran'[q], sessions'[q], lastApplied'[q], committed')
      OBVIOUS
    <3>1. CASE q = s
      <4>1. lastApplied'[q] = n + 1
        BY <1>2, <3>1 DEF i, n
      <4> QED
        BY <1>1, <2>4, <2>7, <3>1, <4>1
    <3>2. CASE q # s
      BY <1>1, <1>2, <1>10, <2>4, <3>2
    <3> QED
      BY <3>1, <3>2
  <2>9. done.config.num = 0
    BY <1>14 DEF done
  <2>10. \A d \in Clerk : ClerkTrue(d, clerk'[d], log', committed')
    BY <1>12, <1>17, <2>9
  <2> QED
    BY <1>1, <1>11, <2>4, <2>8, <2>10 DEF NewsInv, Total
<1>18. \/ IsRepeated(s, req) /\ Notify(s, i, known[c].response) /\ UNCHANGED <<configs, sessions, ran>>
       \/ /\ ~IsChange(req) /\ Notify(s, i, [err |-> "OK", config |-> executeQuery(made, Op(req).num)])
          /\ UNCHANGED <<configs, sessions, ran>>
       \/ /\ IsChange(req) /\ ~IsRepeated(s, req) /\ Notify(s, i, done)
          /\ \E config \in Executed(Op(req), Last(made)) :
                    configs' = [configs EXCEPT ![s] = Append(@, config)]
          /\ sessions' = [sessions EXCEPT ![s][c] = [lastSeqNum |-> m, response |-> done]]
          /\ ran' = [ran EXCEPT ![s] = Append(@, req)]
  BY <1>5 DEF applyConfigChange, IsChange, i, req, made, known, done
<1> QED
  BY <1>15, <1>16, <1>17, <1>18
(* A server that has applied nothing has the first configuration. *)
LEMMA NewServerTrue ==
    ASSUME NEW entries
    PROVE  ServerTrue(<<InitConfig>>, <<>>, [c \in Clerk |-> NoSession], 0, entries)
<1>1. NumAt(entries, 0) = 0
  <2>1. Changes(entries, 0) = {}
    BY DEF Changes
  <2> QED
    BY <2>1, FS_EmptySet DEF NumAt
<1> DEFINE made == <<InitConfig>>
<1>2. made = [k \in 1 .. 0 + 1 |-> [num |-> k - 1, shards |-> made[k].shards, groups |-> made[k].groups]]
  <2>1. DOMAIN made = 1 .. 1 /\ made = [k \in 1 .. 1 |-> made[k]] /\ made[1] = InitConfig
    OBVIOUS
  <2> HIDE DEF made
  <2>2. InitConfig = [num |-> 0, shards |-> InitConfig.shards, groups |-> InitConfig.groups]
    BY DEF InitConfig
  <2>3. \A k \in 1 .. 1 : k = 1 /\ k - 1 = 0
    OBVIOUS
  <2>4. 1 .. 0 + 1 = 1 .. 1
    OBVIOUS
  <2>5. \A k \in 1 .. 1 : made[k] = [num |-> k - 1, shards |-> made[k].shards, groups |-> made[k].groups]
    BY <2>1, <2>2, <2>3
  <2>6. made = [k \in 1 .. 1 |-> [num |-> k - 1, shards |-> made[k].shards, groups |-> made[k].groups]]
    BY <2>1, <2>5
  <2> QED
    BY <2>4, <2>6
<1> HIDE DEF made
<1>3. NoSession.lastSeqNum = 0 /\ NoSession.response.config.num = 0
  BY DEF NoSession, ZeroReply, InitConfig
<1>4. Len(<<>>) = 0
  OBVIOUS
<1>5. ServerTrue(made, <<>>, [c \in Clerk |-> NoSession], 0, entries)
  BY <1>1, <1>2, <1>3, <1>4 DEF ServerTrue
<1> QED
  BY <1>5 DEF made

(* Restart. *)
LEMMA RestartNews ==
    ASSUME Inv, Inv', AckInv, NewsInv, [Next]_vars, NEW s \in Server, Restart(s) PROVE NewsInv'
<1>1. FromLogs /\ CommittedFromLogs
  BY EntriesMove DEF Inv, Restart
<1>2. /\ \A d \in Clerk : ClerkTrue(d, clerk[d], log', committed')
      /\ \A q \in Server : ServerTrue(configs[q], ran[q], sessions[q], lastApplied[q], committed')
  BY <1>1, OthersTrue
<1>3. /\ committed' = committed /\ seen' = seen
      /\ lastApplied' = [lastApplied EXCEPT ![s] = 0]
      /\ configs' = [configs EXCEPT ![s] = <<InitConfig>>]
      /\ sessions' = [sessions EXCEPT ![s] = [c \in Clerk |-> NoSession]]
      /\ ran' = [ran EXCEPT ![s] = <<>>]
  BY DEF Restart, RestartRaft
<1>4. /\ configs = [q \in Server |-> configs[q]] /\ sessions = [q \in Server |-> sessions[q]]
      /\ ran = [q \in Server |-> ran[q]] /\ lastApplied = [q \in Server |-> lastApplied[q]]
  BY DEF Inv, LogInv, RaftTypes, RunsOK, SessionsOK, RunsRecorded, NewsInv
<1>5. ASSUME NEW d \in Clerk PROVE ClerkTrue(d, clerk'[d], log', committed')
  <2>1. \/ clerk'[d] = AtNext(clerk[d]) /\ clerk[d].pc # "idle"
        \/ clerk'[d] = clerk[d]
    BY DEF Restart
  <2>2. IsClerk(clerk[d])
    BY DEF Inv, ClerkOK
  <2>3. clerk[d].pc # "idle" => ClerkTrue(d, AtNext(clerk[d]), log', committed')
    BY <1>2, <2>2, TrueNext
  <2> QED
    BY <1>2, <2>1, <2>3
<1>7. ASSUME NEW q \in Server
      PROVE  ServerTrue(configs'[q], ran'[q], sessions'[q], lastApplied'[q], committed')
  <2>1. CASE q = s
    <3>1. /\ configs'[q] = <<InitConfig>> /\ ran'[q] = <<>> /\ lastApplied'[q] = 0
          /\ sessions'[q] = [c \in Clerk |-> NoSession]
      BY <1>3, <1>4, <2>1
    <3> QED
      BY NewServerTrue, <3>1
  <2>2. CASE q # s
    <3>1. /\ configs'[q] = configs[q] /\ ran'[q] = ran[q] /\ lastApplied'[q] = lastApplied[q]
          /\ sessions'[q] = sessions[q]
      BY <1>3, <1>4, <2>2
    <3> QED
      BY <1>2, <3>1
  <2> QED
    BY <2>1, <2>2
<1> QED
  BY <1>3, <1>4, <1>5, <1>7 DEF NewsInv, Total

(* Steps of servers. *)
LEMMA ServerNews ==
    ASSUME Inv, Inv', AckInv, NewsInv, [Next]_vars, NEW s \in Server, ServerStep(s) PROVE NewsInv'
<1>1. ASSUME FromLogs, CommittedFromLogs, UNCHANGED <<clerk, configs, sessions, ran, lastApplied, seen>>
      PROVE  NewsInv'
  <2>1. /\ \A d \in Clerk : ClerkTrue(d, clerk[d], log', committed')
        /\ \A q \in Server : ServerTrue(configs[q], ran[q], sessions[q], lastApplied[q], committed')
        /\ \A n : n \in 0 .. Total => n \in 0 .. Total'
    BY <1>1, OthersTrue
  <2>2. seen \in 0 .. Total
    BY DEF NewsInv, Total
  <2>3. seen' \in 0 .. Total'
    BY <1>1, <2>1, <2>2
  <2> QED
    BY <1>1, <2>1, <2>3 DEF NewsInv, Total
<1>2. CASE RaftStep(Elect(s)) \/ RaftStep(Commit(s)) \/ \E l \in Server : RaftStep(Replicate(l, s))
  <2>1. FromLogs /\ CommittedFromLogs
    BY <1>2, EntriesMove DEF RaftStep, Inv
  <2> QED
    BY <1>1, <1>2, <2>1 DEF RaftStep, smVars, Elect, Commit, Replicate
<1>3. CASE applyConfigChange(s)
  BY <1>3, ApplyNews
<1>4. ASSUME NEW i \in Index, closeNotifyCh(s, i) PROVE NewsInv'
  <2>1. FromLogs /\ CommittedFromLogs
    BY <1>4, EntriesMove DEF closeNotifyCh, Inv
  <2>2. /\ \A d \in Clerk : ClerkTrue(d, clerk[d], log', committed')
        /\ Put(Waiting(s, i), ZeroReply) /\ UNCHANGED <<raftVars, configs, sessions, ran, seen>>
    BY <1>4, <2>1, OthersTrue DEF closeNotifyCh
  <2>3. ZeroReply.err # "OK" /\ \A d \in Waiting(s, i) : clerk[d].pc = "wait"
    BY DEF ZeroReply, Waiting
  <2>4. \A d \in Clerk : ClerkTrue(d, clerk'[d], log', committed')
    BY <2>2, <2>3, PutNews DEF Inv
  <2> QED
    BY <2>2, <2>4 DEF NewsInv, raftVars
<1>5. CASE Restart(s)
  BY <1>5, RestartNews
<1> QED
  BY <1>2, <1>3, <1>4, <1>5 DEF ServerStep
(* The first state and every step. *)
LEMMA NewsInit == Init => NewsInv
<1> SUFFICES ASSUME Init PROVE NewsInv
  OBVIOUS
<1>1. /\ committed = <<>> /\ seen = 0 /\ \A c \in Clerk : clerk[c] = FreshClerk
      /\ \A s \in Server : /\ log[s] = <<>> /\ configs[s] = <<InitConfig>> /\ ran[s] = <<>>
                           /\ sessions[s] = [c \in Clerk |-> NoSession] /\ lastApplied[s] = 0
      /\ configs = [s \in Server |-> configs[s]]
  BY DEF Init, RaftInit
<1>2. Len(committed) = 0 /\ DOMAIN committed = {} /\ \A s \in Server : DOMAIN log[s] = {}
  BY <1>1
<1>3. NumAt(committed, 0) = 0
  <2>1. Changes(committed, 0) = {}
    BY DEF Changes
  <2> QED
    BY <2>1, FS_EmptySet DEF NumAt
<1>4. ASSUME NEW c \in Clerk, NEW r, r.pc = "idle", r.seq = 1, r.chan = <<>>, r.floor = 0
      PROVE  ClerkTrue(c, r, log, committed)
  <2>1. AnswerTrue(c, r, 0)
    BY <1>4 DEF AnswerTrue
  <2> QED
    BY <1>2, <1>3, <1>4, <2>1 DEF ClerkTrue, NotAhead, FloorTrue
<1>5. FreshClerk.pc = "idle" /\ FreshClerk.seq = 1 /\ FreshClerk.chan = <<>> /\ FreshClerk.floor = 0
  BY DEF FreshClerk
<1>6. \A c \in Clerk : ClerkTrue(c, clerk[c], log, committed)
  BY <1>1, <1>4, <1>5
<1>7. \A s \in Server : ServerTrue(configs[s], ran[s], sessions[s], lastApplied[s], committed)
  BY <1>1, NewServerTrue
<1> QED
  BY <1>1, <1>2, <1>3, <1>6, <1>7 DEF NewsInv

(* What Queries were told stays true in every step.                        *)
LEMMA NewsStep == Inv /\ Inv' /\ AckInv /\ NewsInv /\ [Next]_vars => NewsInv'
<1> SUFFICES ASSUME Inv, Inv', AckInv, NewsInv, [Next]_vars PROVE NewsInv'
  OBVIOUS
<1>1. CASE UNCHANGED vars
  BY <1>1 DEF vars, smVars, raftVars, NewsInv
<1>2. ASSUME NEW c \in Clerk, ClerkStep(c) PROVE NewsInv'
  BY <1>2, ClerkNews, StartNews DEF ClerkStep
<1>3. ASSUME NEW s \in Server, ServerStep(s) PROVE NewsInv'
  BY <1>3, ServerNews
<1> QED
  BY <1>1, <1>2, <1>3 DEF Next

(* server.go:201: a Query goes through the log, so that it returns a       *)
(* configuration at least as new as any that a clerk knew of when it was   *)
(* called, whichever server answers and however often it was asked.        *)
THEOREM QueriesNew == Spec => []QueriesFresh
<1>1. AckInv /\ NewsInv => QueriesFresh
  <2> SUFFICES ASSUME AckInv, NewsInv, NEW c \in Clerk, clerk[c].pc = "idle", clerk[c].seq > 1,
                      ~clerk[c].shared, Script[c][clerk[c].seq - 1].type = "Query"
               PROVE  clerk[c].got >= AtLeast(Script[c][clerk[c].seq - 1].num, clerk[c].floor)
    BY DEF QueriesFresh, AtLeast
  <2>1. Op(<<c, clerk[c].seq - 1>>) = Script[c][clerk[c].seq - 1]
    BY DEF Op
  <2> QED
    BY <2>1 DEF NewsInv, ClerkTrue, AnswerTrue, IsChange
<1>2. Inv /\ AckInv /\ [Next]_vars => Inv' /\ AckInv'
  BY InvStep, AckStep
<1> QED
  BY <1>1, <1>2, InvInit, AckInit, NewsInit, NewsStep, PTL DEF Spec
-----------------------------------------------------------------------------
(* Servers agree.  The balancer is a fold over sequences, about which no   *)
(* induction can be done here: BalanceSettled is a hypothesis, which       *)
(* OrderIrrelevant of ShardConfigs checks for small sets of groups.        *)

Config == [num : Nat, shards : Assignment, groups : SUBSET GIDs]

IsChangeOp(op) ==
    \/ op.type \in {"Join", "Leave"} /\ op.gids \subseteq GIDs
    \/ op.type = "Move" /\ op.shard \in Shard /\ op.gid \in GIDs \cup {0}

(* The configurations made are those of the changes among the first n      *)
(* entries, in order.                                                      *)
MadeTrue(made, runs, n, entries) ==
    /\ made[1] = InitConfig
    /\ \A k \in 1 .. Len(runs) + 1 : made[k] \in Config
    /\ \A k \in 1 .. Len(runs) :
          /\ made[k + 1] \in Executed(Op(runs[k]), made[k])
          /\ \E j \in 1 .. n : /\ ChangesAt(entries, j) /\ NumAt(entries, j) = k
                               /\ entries[j].cmd = runs[k]

Agree(s, t) == \A k \in 1 .. Len(ran[s]) + 1 : k <= Len(ran[t]) + 1 => configs[s][k] = configs[t][k]

MadeInv ==
    /\ \A s \in Server : MadeTrue(configs[s], ran[s], lastApplied[s], committed)
    /\ \A s, t \in Server : Agree(s, t)

(* A change makes one configuration, whatever order groups are met in. *)
LEMMA ExecutedSettled ==
    ASSUME BalanceSettled, NEW op, IsChangeOp(op), NEW last \in Config
    PROVE  Executed(op, last) \subseteq Config /\ \A x, y \in Executed(op, last) : x = y
<1>1. /\ last.num \in Nat /\ last.num + 1 \in Nat /\ last.shards \in Assignment
      /\ last.groups \subseteq GIDs
      /\ last = [num |-> last.num, shards |-> last.shards, groups |-> last.groups]
  BY DEF Config
<1>2. Unassigned \in Assignment
  BY DEF Unassigned, Assignment
<1>3. \A groups \in SUBSET GIDs : \A o, p \in SetToSeqs(groups) :
        /\ shardLoadBalance(groups, last.shards, o) \in Assignment
        /\ shardLoadBalance(groups, last.shards, o) = shardLoadBalance(groups, last.shards, p)
  BY <1>1 DEF BalanceSettled
<1>4. CASE op.type = "Join"
  <2> DEFINE groups == last.groups \cup op.gids
             made(o) == [num |-> last.num + 1, groups |-> groups,
                         shards |-> shardLoadBalance(groups, last.shards, o)]
  <2>1. groups \in SUBSET GIDs
    BY <1>1, <1>4 DEF IsChangeOp
  <2>2. Executed(op, last) = {made(o) : o \in SetToSeqs(groups)}
    BY <1>4 DEF Executed, executeJoin
  <2> HIDE DEF groups
  <2>3. \A o, p \in SetToSeqs(groups) : made(o) \in Config /\ made(o) = made(p)
    BY <1>1, <1>3, <2>1 DEF Config
  <2> HIDE DEF made
  <2> QED
    BY <2>2, <2>3
<1>5. CASE op.type = "Leave"
  <2> DEFINE groups == last.groups \ op.gids
             made(o) == [num |-> last.num + 1, groups |-> groups,
                         shards |-> IF last.groups \subseteq op.gids THEN Unassigned
                                    ELSE shardLoadBalance(groups, last.shards, o)]
  <2>1. groups \in SUBSET GIDs
    BY <1>1, <1>5 DEF IsChangeOp
  <2>2. Executed(op, last) = {made(o) : o \in SetToSeqs(groups)}
    BY <1>5 DEF Executed, executeLeave
  <2> HIDE DEF groups
  <2>3. \A o, p \in SetToSeqs(groups) : made(o) \in Config /\ made(o) = made(p)
    BY <1>1, <1>2, <1>3, <2>1 DEF Config
  <2> HIDE DEF made
  <2> QED
    BY <2>2, <2>3
<1>6. CASE op.type = "Move"
  <2> DEFINE dealt == [last.shards EXCEPT ![op.shard] = op.gid]
             made == [num |-> last.num + 1, shards |-> dealt, groups |-> last.groups]
  <2>1. dealt \in Assignment
    BY <1>1, <1>6 DEF IsChangeOp, Assignment
  <2>2. Executed(op, last) = {executeMove(last, op.shard, op.gid)}
    BY <1>6 DEF Executed
  <2>3. executeMove(last, op.shard, op.gid) = [last EXCEPT !.num = @ + 1, !.shards = dealt]
    BY DEF executeMove
  <2> HIDE DEF dealt
  <2>4. executeMove(last, op.shard, op.gid) = made
    BY <1>1, <2>3
  <2>5. made \in Config
    BY <1>1, <2>1 DEF Config
  <2> QED
    BY <2>2, <2>4, <2>5
<1> QED
  BY <1>4, <1>5, <1>6 DEF IsChangeOp

(* A number is given once. *)
LEMMA NumOnce ==
    ASSUME NEW entries, NEW i \in Nat \ {0}, NEW j \in Nat \ {0},
           ChangesAt(entries, i), ChangesAt(entries, j), NumAt(entries, i) = NumAt(entries, j)
    PROVE  i = j
<1>1. ASSUME NEW k \in Nat \ {0}, NEW l \in Nat \ {0}, k < l, ChangesAt(entries, l)
      PROVE  NumAt(entries, k) < NumAt(entries, l)
  <2> DEFINE m == l - 1
  <2>1. m \in Nat /\ k \in Nat /\ k <= m /\ m + 1 = l
    BY <1>1
  <2> HIDE DEF m
  <2>2. /\ NumAt(entries, m + 1) = NumAt(entries, m) + 1 /\ NumAt(entries, m) \in Nat
        /\ NumAt(entries, k) \in Nat
    BY <1>1, <2>1, NumNext
  <2>3. NumAt(entries, k) <= NumAt(entries, m)
    BY <2>1, NumGrows
  <2> QED
    BY <2>1, <2>2, <2>3
<1>2. NumAt(entries, i) \in Nat /\ NumAt(entries, j) \in Nat
  BY NumNext
<1>3. ~(i < j) /\ ~(j < i)
  BY <1>1, <1>2
<1> QED
  BY <1>3

(* A server that has applied no less than before, of the same entries. *)
LEMMA MadeStays ==
    ASSUME NEW old, NEW new, Extended(old, new), NEW made, NEW runs,
           NEW n \in Nat, NEW p \in Nat, n <= p, 1 .. n \subseteq DOMAIN old,
           MadeTrue(made, runs, n, old)
    PROVE  MadeTrue(made, runs, p, new)
<1>1. \A i \in 1 .. n : new[i] = old[i]
  BY DEF Extended
<1>2. ASSUME NEW j \in 1 .. n PROVE /\ ChangesAt(new, j) <=> ChangesAt(old, j)
                                   /\ NumAt(new, j) = NumAt(old, j) /\ j \in 1 .. p
  <2>1. j \in Nat /\ \A i \in 1 .. j : i \in 1 .. n
    OBVIOUS
  <2>2. \A i \in 1 .. j - 1 : new[i] = old[i]
    BY <1>1, <2>1
  <2>3. NumAt(new, j) = NumAt(old, j)
    BY <1>1, <2>1, NumAgrees
  <2> QED
    BY <1>1, <2>2, <2>3 DEF ChangesAt
<1> QED
  BY <1>1, <1>2 DEF MadeTrue
(* A function on 1 .. m is a sequence. *)
LEMMA SequenceOf ==
    ASSUME NEW m \in Nat, NEW S, NEW q, q = [k \in 1 .. m |-> q[k]], \A k \in 1 .. m : q[k] \in S
    PROVE  q \in Seq(S)
OBVIOUS

(* One more change. *)
LEMMA MadeChanges ==
    ASSUME BalanceSettled, NEW made, NEW runs \in Seq(Clerk \X Nat), NEW n \in Nat, NEW entries,
           MadeTrue(made, runs, n, entries), Numbered(made, Len(runs)),
           NEW req \in Clerk \X Nat, IsChangeOp(Op(req)), entries[n + 1].cmd = req,
           ChangesAt(entries, n + 1), NumAt(entries, n + 1) = Len(runs) + 1,
           NEW config \in Executed(Op(req), Last(made))
    PROVE  MadeTrue(Append(made, config), Append(runs, req), n + 1, entries)
<1> DEFINE new == Append(made, config)
           more == Append(runs, req)
           m == Len(runs)
           S == {made[k] : k \in 1 .. m + 1} \cup {config}
<1>0. m \in Nat
  OBVIOUS
<1>1. m \in Nat /\ Len(more) = m + 1 /\ (\A k \in 1 .. m : more[k] = runs[k]) /\ more[m + 1] = req
  BY AppendFacts
<1>2. Len(made) = m + 1 /\ made = [k \in 1 .. m + 1 |-> made[k]]
  BY <1>1, NumberedLast DEF Numbered
<1>3. \A k \in 1 .. m + 1 : made[k] \in S
  OBVIOUS
<1>4. config \in S
  OBVIOUS
<1> HIDE DEF S, more, m
<1>5. made \in Seq(S)
  <2>1. m + 1 \in Nat
    BY <1>0
  <2> QED
    BY <1>2, <1>3, <2>1, SequenceOf
<1>6. (\A k \in 1 .. m + 1 : new[k] = made[k]) /\ new[(m + 1) + 1] = config
  <2>1. /\ \A k \in 1 .. Len(made) : new[k] = made[k]
        /\ new[Len(made) + 1] = config
    BY <1>4, <1>5, AppendFacts
  <2> HIDE DEF new
  <2> QED
    BY <1>2, <2>1
<1> HIDE DEF new
<1>7. Last(made) = made[m + 1] /\ m + 1 \in 1 .. m + 1
  BY <1>1, <1>2 DEF Last
<1>8. made[m + 1] \in Config
  BY <1>1, <1>7 DEF MadeTrue, m
<1>9. config \in Config
  BY <1>7, <1>8, ExecutedSettled
<1>10. new[1] = InitConfig
  BY <1>1, <1>6 DEF MadeTrue
<1>11. ASSUME NEW k \in 1 .. (m + 1) + 1 PROVE new[k] \in Config
  <2>1. CASE k \in 1 .. m + 1
    BY <1>1, <1>6, <2>1 DEF MadeTrue, m
  <2>2. CASE k = (m + 1) + 1
    BY <1>6, <1>9, <2>2
  <2> QED
    BY <1>1, <2>1, <2>2
<1>12. ASSUME NEW k \in 1 .. m + 1
       PROVE  /\ new[k + 1] \in Executed(Op(more[k]), new[k])
              /\ \E j \in 1 .. n + 1 : /\ ChangesAt(entries, j) /\ NumAt(entries, j) = k
                                       /\ entries[j].cmd = more[k]
  <2>1. CASE k \in 1 .. m
    <3>1. /\ made[k + 1] \in Executed(Op(runs[k]), made[k])
          /\ \E j \in 1 .. n : /\ ChangesAt(entries, j) /\ NumAt(entries, j) = k
                               /\ entries[j].cmd = runs[k]
      BY <2>1 DEF MadeTrue, m
    <3>2. new[k + 1] = made[k + 1] /\ new[k] = made[k] /\ more[k] = runs[k]
      <4>1. k \in 1 .. m + 1 /\ k + 1 \in 1 .. m + 1
        BY <1>0, <2>1
      <4> QED
        BY <1>1, <1>6, <2>1, <4>1
    <3>3. \A j \in 1 .. n : j \in 1 .. n + 1
      OBVIOUS
    <3> QED
      BY <3>1, <3>2, <3>3
  <2>2. CASE k = m + 1
    <3>1. new[k + 1] = config /\ new[k] = Last(made) /\ more[k] = req
      BY <1>1, <1>6, <1>7, <2>2
    <3>2. n + 1 \in 1 .. n + 1 /\ NumAt(entries, n + 1) = k
      BY <2>2 DEF m
    <3> QED
      BY <3>1, <3>2
  <2> QED
    BY <1>0, <2>1, <2>2
<1>13. MadeTrue(new, more, n + 1, entries)
  BY <1>1, <1>10, <1>11, <1>12 DEF MadeTrue
<1> QED
  BY <1>13 DEF new, more

(* What the next entry does to the server that applies it. *)
LEMMA ApplyMakes ==
    ASSUME Inv, NewsInv, NewsInv', NEW s \in Server, applyConfigChange(s)
    PROVE  LET n == lastApplied[s]
               req == committed[n + 1].cmd
           IN  /\ n \in Nat /\ n + 1 \in DOMAIN committed /\ committed' = committed
               /\ lastApplied' = [lastApplied EXCEPT ![s] = n + 1]
               /\ \/ UNCHANGED <<configs, ran>>
                  \/ /\ req \in Clerk \X Nat /\ IsChangeOp(Op(req))
                     /\ ChangesAt(committed, n + 1) /\ NumAt(committed, n + 1) = Len(ran[s]) + 1
                     /\ ran' = [ran EXCEPT ![s] = Append(@, req)]
                     /\ \E config \in Executed(Op(req), Last(configs[s])) :
                            configs' = [configs EXCEPT ![s] = Append(@, config)]
<1> DEFINE n == lastApplied[s]
           req == committed[n + 1].cmd
<1>1. ApplyNext(s)
  BY DEF applyConfigChange
<1>2. /\ n \in Nat /\ lastApplied' = [lastApplied EXCEPT ![s] = n + 1] /\ committed' = committed
      /\ n < commitIndex[s] /\ commitIndex[s] \in Nat /\ RaftTypes /\ CommittedAgree
      /\ lastApplied'[s] = n + 1
  BY <1>1 DEF Inv, LogInv, RaftTypes, ApplyNext
<1>3. n + 1 \in DOMAIN committed /\ log[s][n + 1] = committed[n + 1]
  <2>1. n + 1 \in 1 .. commitIndex[s]
    BY <1>2
  <2>2. n + 1 <= Len(committed) /\ log[s][n + 1] = committed[n + 1]
    BY <1>2, <2>1 DEF CommittedAgree
  <2> QED
    BY <1>2, <2>1, <2>2, TypeFacts
<1>4. PICK c \in Clerk, m \in Nat : req = <<c, m>>
  <2>1. committed[n + 1] \in Entry
    BY <1>2, <1>3 DEF RaftTypes
  <2> QED
    BY <2>1 DEF Entry
<1>5. CASE UNCHANGED <<configs, ran>>
  BY <1>2, <1>3, <1>5
<1>6. CASE /\ IsChange(req) /\ ran' = [ran EXCEPT ![s] = Append(@, req)]
           /\ \E config \in Executed(Op(req), Last(configs[s])) :
                    configs' = [configs EXCEPT ![s] = Append(@, config)]
  <2>1. m \in 1 .. Len(Script[c])
    <3>1. NotAhead(c, clerk[c], committed)
      BY DEF NewsInv, ClerkTrue
    <3>2. req[1] = c /\ req[2] = m
      BY <1>4
    <3> QED
      BY <1>3, <3>1, <3>2 DEF NotAhead
  <2>2. IsChangeOp(Op(req))
    <3>1. Op(req) = Script[c][m]
      BY <1>4 DEF Op
    <3> QED
      BY <1>6, <2>1, <3>1, ScriptAssumption DEF IsChange, IsChangeOp
  <2>3. ran[s] \in Seq(Clerk \X Nat) /\ ran'[s] = Append(ran[s], req)
    BY <1>6 DEF Inv, RunsOK, RunsRecorded
  <2>4. Len(ran'[s]) = Len(ran[s]) + 1
    BY <1>4, <2>3
  <2>5. Len(ran[s]) = NumAt(committed, n) /\ Len(ran'[s]) = NumAt(committed, n + 1)
    BY <1>2 DEF NewsInv, ServerTrue
  <2>6. ChangesAt(committed, n + 1) /\ NumAt(committed, n + 1) = Len(ran[s]) + 1
    BY <1>2, <2>4, <2>5, NumNext
  <2>7. req \in Clerk \X Nat
    BY <1>4
  <2> HIDE DEF n, req
  <2> QED
    BY <1>2, <1>3, <1>6, <2>2, <2>6, <2>7 DEF n, req
<1>7. \/ UNCHANGED <<configs, ran>>
      \/ /\ IsChange(req) /\ ran' = [ran EXCEPT ![s] = Append(@, req)]
         /\ \E config \in Executed(Op(req), Last(configs[s])) :
                  configs' = [configs EXCEPT ![s] = Append(@, config)]
  BY <1>3 DEF applyConfigChange, IsChange
<1> QED
  BY <1>5, <1>6, <1>7
(* Every step. *)
LEMMA MadeStep ==
    ASSUME BalanceSettled, Inv, Inv', NewsInv, NewsInv', MadeInv, [Next]_vars PROVE MadeInv'
<1>1. /\ Extended(committed, committed') /\ RaftTypes /\ RaftTypes' /\ CommittedAgree
      /\ AppliedCommitted
  BY CommittedExtended DEF Inv, LogInv
<1>2. ASSUME NEW s \in Server
      PROVE  /\ lastApplied[s] \in Nat /\ 1 .. lastApplied[s] \subseteq DOMAIN committed
             /\ ran[s] \in Seq(Clerk \X Nat) /\ Len(ran[s]) \in Nat /\ Numbered(configs[s], Len(ran[s]))
  <2>1. lastApplied[s] \in Nat /\ commitIndex[s] \in Nat /\ lastApplied[s] <= commitIndex[s]
    BY <1>1 DEF RaftTypes, AppliedCommitted
  <2>2. \A i \in 1 .. commitIndex[s] : i <= Len(committed)
    BY <1>1 DEF CommittedAgree
  <2>3. DOMAIN committed = 1 .. Len(committed) /\ Len(committed) \in Nat
    BY <1>1, TypeFacts
  <2>4. ran[s] \in Seq(Clerk \X Nat)
    BY DEF Inv, RunsOK, RunsRecorded
  <2>5. Numbered(configs[s], Len(ran[s]))
    BY DEF NewsInv, ServerTrue, Numbered
  <2> QED
    BY <2>1, <2>2, <2>3, <2>4, <2>5
<1>3. /\ configs = [s \in Server |-> configs[s]] /\ ran = [s \in Server |-> ran[s]]
      /\ lastApplied = [s \in Server |-> lastApplied[s]]
  BY <1>1 DEF NewsInv, Inv, RunsOK, RunsRecorded, RaftTypes
<1>4. CASE UNCHANGED <<configs, ran, lastApplied>>
  BY <1>1, <1>2, <1>4, MadeStays DEF MadeInv, Agree
<1>5. ASSUME NEW s \in Server, Restart(s) PROVE MadeInv'
  <2>1. /\ committed' = committed /\ lastApplied' = [lastApplied EXCEPT ![s] = 0]
        /\ configs' = [configs EXCEPT ![s] = <<InitConfig>>] /\ ran' = [ran EXCEPT ![s] = <<>>]
    BY <1>5 DEF Restart, RestartRaft
  <2>2. /\ lastApplied'[s] = 0 /\ configs'[s] = <<InitConfig>> /\ ran'[s] = <<>>
        /\ \A q \in Server \ {s} : /\ lastApplied'[q] = lastApplied[q] /\ configs'[q] = configs[q]
                                   /\ ran'[q] = ran[q]
    BY <1>3, <2>1
  <2>3. /\ Len(ran'[s]) = 0 /\ configs'[s][1] = InitConfig /\ InitConfig \in Config
    BY <2>2 DEF InitConfig, Config, Unassigned, Assignment
  <2>4. MadeTrue(configs'[s], ran'[s], 0, committed)
    BY <2>3 DEF MadeTrue
  <2>5. \A q \in Server : MadeTrue(configs'[q], ran'[q], lastApplied'[q], committed')
    BY <2>1, <2>2, <2>4 DEF MadeInv
  <2>6. \A q \in Server : configs'[q][1] = InitConfig
    BY <2>5 DEF MadeTrue
  <2>7. ASSUME NEW p \in Server, NEW q \in Server PROVE Agree(p, q)'
    <3>1. CASE p = s \/ q = s
      <4>1. \A k \in 1 .. Len(ran'[p]) + 1 : k <= Len(ran'[q]) + 1 => k = 1
        BY <1>2, <2>2, <2>3, <3>1
      <4> QED
        BY <2>6, <4>1 DEF Agree
    <3>2. CASE p # s /\ q # s
      BY <2>2, <3>2 DEF MadeInv, Agree
    <3> QED
      BY <3>1, <3>2
  <2> QED
    BY <2>5, <2>7 DEF MadeInv
<1>6. ASSUME NEW s \in Server, applyConfigChange(s) PROVE MadeInv'
  <2> DEFINE n == lastApplied[s]
             req == committed[n + 1].cmd
             made == configs[s]
             runs == ran[s]
  <2>1. /\ n \in Nat /\ n + 1 \in DOMAIN committed /\ committed' = committed
        /\ lastApplied' = [lastApplied EXCEPT ![s] = n + 1]
    BY <1>6, ApplyMakes
  <2>2. /\ lastApplied'[s] = n + 1 /\ \A q \in Server \ {s} : lastApplied'[q] = lastApplied[q]
    BY <1>3, <2>1
  <2>3. CASE UNCHANGED <<configs, ran>>
    <3>1. ASSUME NEW q \in Server PROVE MadeTrue(configs[q], ran[q], lastApplied'[q], committed')
      <4>1. lastApplied'[q] \in Nat /\ lastApplied[q] <= lastApplied'[q]
        BY <1>2, <2>1, <2>2
      <4> QED
        BY <1>1, <1>2, <4>1, MadeStays DEF MadeInv
    <3> QED
      BY <2>3, <3>1 DEF MadeInv, Agree
  <2>4. CASE /\ req \in Clerk \X Nat /\ IsChangeOp(Op(req))
             /\ ChangesAt(committed, n + 1) /\ NumAt(committed, n + 1) = Len(ran[s]) + 1
             /\ ran' = [ran EXCEPT ![s] = Append(@, req)]
             /\ \E config \in Executed(Op(req), Last(configs[s])) :
                    configs' = [configs EXCEPT ![s] = Append(@, config)]
    <3>1. PICK config \in Executed(Op(req), Last(made)) : configs' = [configs EXCEPT ![s] = Append(@, config)]
      BY <2>4
    <3>2. /\ configs'[s] = Append(made, config) /\ ran'[s] = Append(runs, req)
          /\ \A q \in Server \ {s} : configs'[q] = configs[q] /\ ran'[q] = ran[q]
      BY <1>3, <2>4, <3>1
    <3>3. committed[n + 1].cmd = req
      OBVIOUS
    <3> HIDE DEF req
    <3>4. MadeTrue(Append(made, config), Append(runs, req), n + 1, committed)
      <4>1. MadeTrue(made, runs, n, committed) /\ Numbered(made, Len(runs)) /\ runs \in Seq(Clerk \X Nat)
        BY <1>2 DEF MadeInv
      <4> HIDE DEF n, made, runs
      <4> QED
        BY <2>1, <2>4, <3>1, <3>3, <4>1, MadeChanges DEF runs
    <3>5. \A q \in Server : MadeTrue(configs'[q], ran'[q], lastApplied'[q], committed')
      BY <2>1, <2>2, <3>2, <3>4 DEF MadeInv
    <3>6. /\ Len(runs) \in Nat /\ Len(ran'[s]) = Len(runs) + 1 /\ Len(made) = Len(runs) + 1
          /\ Last(made) = made[Len(runs) + 1]
      <4>1. Len(runs) \in Nat /\ Len(made) = Len(runs) + 1
        BY <1>2, NumberedLast
      <4>2. Len(ran'[s]) = Len(runs) + 1
        BY <1>2, <2>4, <3>2
      <4> QED
        BY <4>1, <4>2 DEF Last
    <3>7. /\ \A k \in 1 .. Len(runs) + 1 : configs'[s][k] = made[k]
          /\ configs'[s][(Len(runs) + 1) + 1] = config
      <4> DEFINE m == Len(runs)
                 S == {made[k] : k \in 1 .. m + 1} \cup {config}
      <4>1. m \in Nat /\ m + 1 \in Nat /\ Len(made) = m + 1
        BY <3>6
      <4>2. made = [k \in 1 .. m + 1 |-> made[k]]
        BY <1>2 DEF Numbered
      <4>3. config \in S /\ \A k \in 1 .. m + 1 : made[k] \in S
        OBVIOUS
      <4> HIDE DEF m, S, made
      <4>4. made \in Seq(S)
        BY <4>1, <4>2, <4>3, SequenceOf
      <4>5. /\ \A k \in 1 .. Len(made) : Append(made, config)[k] = made[k]
            /\ Append(made, config)[Len(made) + 1] = config
        BY <4>3, <4>4, AppendFacts
      <4> QED
        BY <3>2, <4>1, <4>5 DEF m
    <3>8. ASSUME NEW t \in Server \ {s}, NEW k \in 1 .. (Len(runs) + 1) + 1, k <= Len(ran[t]) + 1
          PROVE  configs'[s][k] = configs[t][k]
      <4>1. Len(ran[t]) \in Nat /\ MadeTrue(configs[t], ran[t], lastApplied[t], committed) /\ lastApplied[t] \in Nat
        BY <1>2 DEF MadeInv
      <4>2. \A j \in 1 .. Len(runs) + 1 : j <= Len(ran[t]) + 1 => made[j] = configs[t][j]
        BY DEF MadeInv, Agree
      <4>3. CASE k \in 1 .. Len(runs) + 1
        BY <3>7, <3>8, <4>2, <4>3
      <4>4. CASE k = (Len(runs) + 1) + 1
        <5>1. Len(runs) + 1 <= Len(ran[t])
          BY <3>6, <3>8, <4>1, <4>4
        <5>2. made[Len(runs) + 1] = configs[t][Len(runs) + 1]
          <6>1. Len(runs) + 1 \in 1 .. Len(runs) + 1 /\ Len(runs) + 1 <= Len(ran[t]) + 1
            BY <3>6, <4>1, <5>1
          <6> QED
            BY <4>2, <6>1
        <5> DEFINE i == n + 1
                   m == Len(runs)
                   other == configs[t]
                   theirs == ran[t]
                   p == lastApplied[t]
        <5>3. /\ MadeTrue(other, theirs, p, committed) /\ Len(theirs) \in Nat /\ p \in Nat
              /\ m + 1 <= Len(theirs) /\ m \in Nat /\ i \in Nat \ {0}
              /\ config \in Executed(Op(req), other[m + 1])
              /\ NumAt(committed, i) = m + 1 /\ ChangesAt(committed, i)
              /\ IsChangeOp(Op(req)) /\ committed[i].cmd = req
          BY <2>1, <2>4, <3>1, <3>3, <3>6, <4>1, <5>1, <5>2, SMTT(120)
        <5> HIDE DEF other, theirs, p, i, m
        <5>4. m + 1 \in 1 .. Len(theirs) /\ m + 1 \in 1 .. Len(theirs) + 1
          BY <5>3
        <5>5. PICK j \in 1 .. p :
                 ChangesAt(committed, j) /\ NumAt(committed, j) = m + 1 /\ committed[j].cmd = theirs[m + 1]
          BY <5>3, <5>4 DEF MadeTrue
        <5>6. j = i
          <6>1. j \in Nat \ {0}
            BY <5>3
          <6> QED
            BY <5>3, <5>5, <6>1, NumOnce
        <5>7. theirs[m + 1] = req
          BY <5>3, <5>5, <5>6
        <5>8. other[(m + 1) + 1] \in Executed(Op(req), other[m + 1]) /\ other[m + 1] \in Config
          BY <5>3, <5>4, <5>7 DEF MadeTrue
        <5>9. other[(m + 1) + 1] = config
          BY <5>3, <5>8, ExecutedSettled
        <5> QED
          BY <3>7, <4>4, <5>9 DEF other, m
      <4> QED
        BY <3>6, <4>3, <4>4
    <3>9. ASSUME NEW p \in Server, NEW q \in Server PROVE Agree(p, q)'
      <4>1. CASE p = s /\ q = s
        BY <4>1 DEF Agree
      <4>2. CASE p = s /\ q # s
        <5>1. Len(ran'[s]) + 1 = (Len(runs) + 1) + 1 /\ ran'[q] = ran[q] /\ configs'[q] = configs[q]
          BY <3>2, <3>6, <4>2
        <5>2. \A k \in 1 .. (Len(runs) + 1) + 1 : k <= Len(ran[q]) + 1 => configs'[s][k] = configs[q][k]
          BY <3>8, <4>2
        <5> QED
          BY <4>2, <5>1, <5>2 DEF Agree
      <4>3. CASE p # s /\ q = s
        <5>1. \A k \in 1 .. Len(ran[p]) + 1 : k <= Len(ran'[s]) + 1 => k \in 1 .. (Len(runs) + 1) + 1
          BY <1>2, <3>6
        <5>2. \A k \in 1 .. Len(ran[p]) + 1 : k <= Len(ran[p]) + 1
          BY <1>2
        <5> QED
          BY <3>2, <3>8, <4>3, <5>1, <5>2, ZenonT(120) DEF Agree
      <4>4. CASE p # s /\ q # s
        BY <3>2, <4>4, SMTT(120) DEF MadeInv, Agree
      <4> QED
        BY <4>1, <4>2, <4>3, <4>4
    <3> QED
      BY <3>5, <3>9 DEF MadeInv
  <2>5. \/ UNCHANGED <<configs, ran>>
        \/ /\ req \in Clerk \X Nat /\ IsChangeOp(Op(req))
           /\ ChangesAt(committed, n + 1) /\ NumAt(committed, n + 1) = Len(ran[s]) + 1
           /\ ran' = [ran EXCEPT ![s] = Append(@, req)]
           /\ \E config \in Executed(Op(req), Last(configs[s])) :
                    configs' = [configs EXCEPT ![s] = Append(@, config)]
    BY <1>6, ApplyMakes
  <2> QED
    BY <2>3, <2>4, <2>5
<1> QED
  BY <1>4, <1>5, <1>6, ZenonT(120)
     DEF Next, ClerkStep, ServerStep, RaftStep, Invoke, LoseCall, EnterHandler, Start, AppendToLog,
         createNotifyCh, Receive, Timeout, LeaveSelect, closeNotifyCh, Elect, Commit, Replicate,
         vars, smVars, raftVars
(* The first state. *)
LEMMA MadeInit == Init => MadeInv
<1> SUFFICES ASSUME Init PROVE MadeInv
  OBVIOUS
<1>1. \A s \in Server : configs[s] = <<InitConfig>> /\ ran[s] = <<>> /\ lastApplied[s] = 0
  BY DEF Init, RaftInit
<1>2. InitConfig \in Config
  BY DEF InitConfig, Config, Unassigned, Assignment
<1>3. Len(<<>>) = 0 /\ <<InitConfig>>[1] = InitConfig
  OBVIOUS
<1>4. \A s \in Server : MadeTrue(configs[s], ran[s], lastApplied[s], committed)
  BY <1>1, <1>2, <1>3 DEF MadeTrue
<1>5. \A s, t \in Server : Agree(s, t)
  BY <1>1 DEF Agree
<1> QED
  BY <1>4, <1>5 DEF MadeInv

(* Item by item, a shorter sequence is a prefix. *)
LEMMA PrefixOf ==
    ASSUME NEW S, NEW q \in Seq(S), NEW T, NEW r \in Seq(T), Len(q) <= Len(r),
           \A k \in 1 .. Len(q) : q[k] = r[k]
    PROVE  IsPrefix(q, r)
<1> DEFINE m == Len(q)
<1>1. m \in Nat /\ m <= Len(r) /\ Len(r) \in Nat
  OBVIOUS
<1>2. SubSeq(q, 1, m) = [k \in 1 .. m |-> q[k]]
  BY <1>1
<1>3. SubSeq(r, 1, m) = [k \in 1 .. m |-> r[k]]
  BY <1>1
<1> QED
  BY <1>1, <1>2, <1>3 DEF IsPrefix

(* server.go:305 and 482: servers that apply the same log have the same    *)
(* configurations, through restarts and repeated requests, if the balancer *)
(* does not let the order of the groups show.                              *)
THEOREM ServersAgree == ASSUME BalanceSettled PROVE Spec => []ConfigsAgree
<1>1. Inv /\ NewsInv /\ MadeInv => ConfigsAgree
  <2> SUFFICES ASSUME Inv, NewsInv, MadeInv, NEW s \in Server, NEW t \in Server
               PROVE  IsPrefix(configs[s], configs[t]) \/ IsPrefix(configs[t], configs[s])
    BY DEF ConfigsAgree
  <2>1. ASSUME NEW p \in Server
        PROVE  /\ Len(ran[p]) \in Nat /\ Len(configs[p]) = Len(ran[p]) + 1
               /\ configs[p] \in Seq({configs[p][k] : k \in 1 .. Len(ran[p]) + 1})
    <3>1. Len(ran[p]) \in Nat /\ Numbered(configs[p], Len(ran[p]))
      BY DEF Inv, RunsOK, RunsRecorded, NewsInv, ServerTrue, Numbered
    <3> QED
      BY <3>1, NumberedLast
  <2>2. ASSUME NEW p \in Server, NEW q \in Server, Len(ran[p]) <= Len(ran[q])
        PROVE  IsPrefix(configs[p], configs[q])
    <3> DEFINE m == Len(ran[p])
               l == Len(ran[q])
               made == configs[p]
               other == configs[q]
    <3>1. m \in Nat /\ l \in Nat /\ m <= l /\ Len(made) = m + 1 /\ Len(other) = l + 1
      BY <2>1, <2>2
    <3>2. \A k \in 1 .. m + 1 : k <= l + 1 => made[k] = other[k]
      BY DEF MadeInv, Agree
    <3> DEFINE S == {made[k] : k \in 1 .. m + 1}
               T == {other[k] : k \in 1 .. l + 1}
    <3>3. made \in Seq(S) /\ other \in Seq(T)
      BY <2>1
    <3> HIDE DEF m, l, made, other, S, T
    <3>4. Len(made) <= Len(other) /\ \A k \in 1 .. Len(made) : made[k] = other[k]
      BY <3>1, <3>2
    <3>5. IsPrefix(made, other)
      BY <3>3, <3>4, PrefixOf
    <3> QED
      BY <3>5 DEF made, other
  <2>3. Len(ran[s]) <= Len(ran[t]) \/ Len(ran[t]) <= Len(ran[s])
    BY <2>1
  <2> QED
    BY <2>2, <2>3
<1>2. Init => Inv /\ AckInv /\ NewsInv /\ MadeInv
  BY InvInit, AckInit, NewsInit, MadeInit
<1>3. Inv /\ AckInv /\ NewsInv /\ MadeInv /\ [Next]_vars => Inv' /\ AckInv' /\ NewsInv' /\ MadeInv'
  <2> SUFFICES ASSUME Inv, AckInv, NewsInv, MadeInv, [Next]_vars
               PROVE  Inv' /\ AckInv' /\ NewsInv' /\ MadeInv'
    OBVIOUS
  <2>1. Inv' /\ AckInv'
    BY InvStep, AckStep
  <2>2. NewsInv'
    BY <2>1, NewsStep
  <2> QED
    BY <2>1, <2>2, MadeStep
<1> QED
  BY <1>1, <1>2, <1>3, PTL DEF Spec
=============================================================================
