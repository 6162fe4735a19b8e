---------------------------- MODULE KVRaftProofs ----------------------------
(***************************************************************************)
(* Proofs about KVRaft for any number of servers, any clerks, any          *)
(* scripts and any bounds: a write that returned is in the committed log   *)
(* for good, and a Get sees every write that had returned when it was      *)
(* called.                                                                 *)
(***************************************************************************)
EXTENDS KVRaft, SequenceTheorems, WellFoundedInduction, TLAPS

Req == {req \in Clerk \X Nat : req[2] \in DOMAIN Script[req[1]]}
Entry == [cmd : Req, term : Nat]

-----------------------------------------------------------------------------
(* The log: the entries up to commitIndex, or up to the base of the        *)
(* snapshot a server restarted from, are the committed ones.               *)

RaftTypes ==
    /\ currentTerm \in [Server -> Nat]
    /\ isLeader \in [Server -> BOOLEAN]
    /\ log \in [Server -> Seq(Entry)]
    /\ commitIndex \in [Server -> Nat]
    /\ lastApplied \in [Server -> Nat]
    /\ base \in [Server -> Nat]
    /\ committed \in Seq(Entry)

(* As far as a server knows the log to be committed. *)
Known(s) == IF commitIndex[s] < base[s] THEN base[s] ELSE commitIndex[s]

(* Two leaders that think they lead are leaders of different terms. *)
TermsUnique == \A l, m \in Server :
    isLeader[l] /\ isLeader[m] /\ currentTerm[l] = currentTerm[m] => l = m

EntryTerms ==
    /\ \A s \in Server : \A i \in DOMAIN log[s] : log[s][i].term <= currentTerm[s]
    /\ \A i \in DOMAIN committed : \E s \in Server : committed[i].term <= currentTerm[s]

KnownAgree == \A s \in Server : \A i \in 1 .. Known(s) :
    i <= Len(log[s]) /\ i <= Len(committed) /\ log[s][i] = committed[i]

(* A leader has what servers of its term or an earlier one know. *)
LeadersHold == \A l, s \in Server :
    isLeader[l] /\ currentTerm[s] <= currentTerm[l] =>
        \A i \in 1 .. Known(s) : i <= Len(log[l]) /\ log[l][i] = log[s][i]

Newest(l) == isLeader[l] /\ \A q \in Server : currentTerm[q] <= currentTerm[l]

(* The newest leader has all that is committed, and has itself committed   *)
(* what is of its own term.                                                *)
NewestHolds == \A l \in Server : Newest(l) =>
    \A i \in DOMAIN committed :
        /\ i <= Len(log[l]) /\ log[l][i] = committed[i]
        /\ committed[i].term = currentTerm[l] => i <= commitIndex[l]

LogInv == RaftTypes /\ TermsUnique /\ EntryTerms /\ KnownAgree /\ LeadersHold /\ NewestHolds

-----------------------------------------------------------------------------
(* The path from the log to the store. *)

PathTypes ==
    /\ install \in [Server -> Nat] /\ upTo \in [Server -> Nat]
    /\ lastIncludeIndex \in [Server -> Nat]
    /\ batch \in [Server -> Seq(Nat)]
    /\ loop \in [Server -> [pc : {"receive", "snapshot", "notify", "ended"}, index : Nat]]

(* What is on its way to the store carries on where the store is, or a     *)
(* snapshot has overtaken all of it.                                       *)
Pending(up, last, li, queue, inst) ==
    \/ /\ \A k \in 1 .. Len(queue) : queue[k] = up + k
       /\ inst = 0 => last = up + Len(queue)
    \/ /\ \A k \in 1 .. Len(queue) : queue[k] <= li
       /\ inst = 0 => last = up

(* The store is not ahead of a snapshot that waits for the loop, and never *)
(* behind the one on disk otherwise.                                       *)
Position(known, bs, inst, up, last, li, queue) ==
    /\ li <= up /\ up <= known /\ last <= known
    /\ \A k \in 1 .. Len(queue) : queue[k] <= known
    /\ inst = 0 => bs <= up
    /\ inst # 0 => /\ up <= inst /\ inst = bs /\ last = inst
                   /\ \A k \in 1 .. Len(queue) : queue[k] <= inst
    /\ Pending(up, last, li, queue, inst)

PathAt(s) ==
    /\ Position(Known(s), base[s], install[s], upTo[s], lastApplied[s], lastIncludeIndex[s], batch[s])
    /\ loop[s].pc \in {"snapshot", "notify"} => loop[s].index = upTo[s] /\ upTo[s] >= 1

PathInv == PathTypes /\ \A s \in Server : PathAt(s)

-----------------------------------------------------------------------------
(* What is committed, and who knows. *)

(* The request is among the first n entries. *)
Within(entries, n, req) == \E j \in DOMAIN entries : j <= n /\ entries[j].cmd = req
Held(entries, req) == \E j \in DOMAIN entries : entries[j].cmd = req

ClerkRecord ==
    [seq : Nat \ {0}, pc : {"idle", "call", "started", "wait"}, srv : Server, index : Nat,
     own : Seq(Req), alone : BOOLEAN, floor : SUBSET Req, got : Seq(Req)]

ClerkTypes == clerk \in [Clerk -> ClerkRecord]

(* A request that its clerk has made. *)
Made(asked, req) ==
    \/ req[2] < asked[req[1]].seq
    \/ req[2] = asked[req[1]].seq /\ asked[req[1]].pc # "idle"

(* Nothing is in a log that was not asked for, and what a clerk asked      *)
(* before its present request is committed.                                *)
LogsMade ==
    /\ \A s \in Server : \A i \in DOMAIN log[s] : Made(clerk, log[s][i].cmd)
    /\ \A i \in DOMAIN committed : Made(clerk, committed[i].cmd)

ReturnedHeld == \A c \in Clerk : \A n \in 1 .. clerk[c].seq - 1 : Held(committed, <<c, n>>)

(* A clerk's requests are committed first in its order. *)
InOrder == \A k \in DOMAIN committed : \A n \in 1 .. committed[k].cmd[2] - 1 :
    Within(committed, k - 1, <<committed[k].cmd[1], n>>)

AckedWrites == acked \subseteq {req \in Req : Op(req) # "Get"}

(* A request is committed behind all that had returned when it was made. *)
FloorsBehind == \A c \in Clerk :
    /\ clerk[c].floor \subseteq acked
    /\ clerk[c].pc # "idle" =>
        /\ clerk[c].seq \in DOMAIN Script[c]
        /\ \A k \in DOMAIN committed : committed[k].cmd = Request(c) =>
            \A req \in clerk[c].floor : Within(committed, k - 1, req)

(* A channel holds at most one request, which the server has executed. *)
Real(entries, n, ch) ==
    ch \in Seq(Req) /\ Len(ch) <= 1 /\ (Len(ch) = 1 => Within(entries, n, ch[1]))

ChannelsReal ==
    /\ waitChMap = [s \in Server |-> [i \in Index |-> waitChMap[s][i]]]
    /\ \A s \in Server, i \in Index :
            waitChMap[s][i] = NoChan \/ Real(committed, upTo[s], waitChMap[s][i])
    /\ \A c \in Clerk :
        /\ clerk[c].pc \in {"started", "wait"} => clerk[c].index \in Index
        /\ clerk[c].pc # "wait" => ~clerk[c].alone
        /\ clerk[c].pc = "wait" => Real(committed, upTo[clerk[c].srv], Channel(c))

AskedInv == LogsMade /\ ReturnedHeld /\ InOrder /\ AckedWrites /\ AckedKept /\ FloorsBehind

ClerkInv == ClerkTypes /\ AskedInv /\ ChannelsReal

-----------------------------------------------------------------------------
(* The store. *)

StoreTypes ==
    /\ kvPersist \in [Server -> Seq(Req)]
    /\ seqMap \in [Server -> [Clerk -> Nat]]
    /\ snapshot \in [Server -> [value : Seq(Req), seq : [Clerk -> Nat]]]

(* A clerk's last executed request and all before it are among the first n *)
(* entries.                                                                *)
SeqTrue(entries, seq, n) == \A c \in Clerk : \A m \in 1 .. seq[c] : Within(entries, n, <<c, m>>)

(* The writes among the first n entries are in the value, but for those    *)
(* that a Put may have replaced.                                           *)
ValueTrue(entries, value, n) ==
    \A j \in DOMAIN entries :
        j <= n /\ Op(entries[j].cmd) # "Get" /\ ~Overwritten(entries[j].cmd) =>
            entries[j].cmd \in Range(value)

(* A clerk's requests among the first n entries go no further than that,   *)
(* so that a request not yet executed is not among them.                   *)
SeqFull(entries, seq, n) ==
    \A j \in DOMAIN entries : j <= n => entries[j].cmd[2] <= seq[entries[j].cmd[1]]

StoreTrue(entries, value, seq, n) ==
    /\ SeqTrue(entries, seq, n) /\ SeqFull(entries, seq, n)
    /\ ValueTrue(entries, value, n) /\ value = Replay(entries, n)

(* What a clerk got holds all that had returned when it asked. *)
GotAll == \A c \in Clerk : clerk[c].pc = "idle" /\ clerk[c].seq > 1 =>
    \A req \in clerk[c].floor : ~Overwritten(req) => req \in Range(clerk[c].got)

StoreInv ==
    /\ StoreTypes
    /\ \A s \in Server : /\ StoreTrue(committed, kvPersist[s], seqMap[s], upTo[s])
                         /\ StoreTrue(committed, snapshot[s].value, snapshot[s].seq, base[s])
    /\ GotAll

Inv == LogInv /\ PathInv /\ ClerkInv /\ StoreInv
(* IsPrefix of SequencesExt, index by index. *)
LEMMA PrefixAt ==
    ASSUME NEW S, NEW p \in Seq(S), NEW q \in Seq(S), IsPrefix(p, q)
    PROVE  \A i \in 1 .. Len(p) : i <= Len(q) /\ q[i] = p[i]
BY DEF IsPrefix

(* The element facts of RaftTypes. *)
LEMMA TypeFacts ==
    ASSUME RaftTypes
    PROVE  /\ \A s \in Server : /\ currentTerm[s] \in Nat /\ commitIndex[s] \in Nat
                                /\ base[s] \in Nat /\ Known(s) \in Nat
                                /\ commitIndex[s] <= Known(s) /\ base[s] <= Known(s)
           /\ \A s \in Server : /\ log[s] \in Seq(Entry) /\ Len(log[s]) \in Nat
                                /\ DOMAIN log[s] = 1 .. Len(log[s])
                                /\ \A i \in DOMAIN log[s] : log[s][i].term \in Nat
           /\ Len(committed) \in Nat /\ DOMAIN committed = 1 .. Len(committed)
           /\ \A i \in DOMAIN committed : committed[i].term \in Nat
<1>1. \A q \in Seq(Entry) : /\ Len(q) \in Nat /\ DOMAIN q = 1 .. Len(q)
                           /\ \A i \in DOMAIN q : q[i] \in Entry
  OBVIOUS
<1>2. \A e \in Entry : e.term \in Nat
  BY DEF Entry
<1>3. \A s \in Server : /\ log[s] \in Seq(Entry)
                         /\ currentTerm[s] \in Nat /\ commitIndex[s] \in Nat
                         /\ base[s] \in Nat
  BY DEF RaftTypes
<1>4. committed \in Seq(Entry)
  BY DEF RaftTypes
<1> QED
  BY <1>1, <1>2, <1>3, <1>4 DEF Known

(* RaftInit: nothing is in the logs and nobody leads. *)
LEMMA LogInit == Init => LogInv
BY GroupSizeAssumption
   DEF Init, RaftInit, Known, LogInv, RaftTypes, TermsUnique, EntryTerms, KnownAgree, LeadersHold,
       NewestHolds, Newest, Server

(* Steps of clerks and services that leave Raft alone. *)
LEMMA LogUnchanged == LogInv /\ UNCHANGED <<raftVars, base>> => LogInv'
BY DEF raftVars, Known, LogInv, RaftTypes, TermsUnique, EntryTerms, KnownAgree, LeadersHold,
       NewestHolds, Newest

(* Elect: the new leader has all that is committed, in a term above all.   *)
LEMMA LogElect ==
    ASSUME LogInv, NEW s \in Server, Elect(s), UNCHANGED base
    PROVE  LogInv'
<1>1. PICK newest \in Server, voters \in SUBSET Server :
        /\ \A q \in Server : currentTerm[q] < currentTerm[newest] + 1
        /\ s \in voters
        /\ IsPrefix(committed, log[s])
        /\ currentTerm' = [q \in Server |->
                IF q \in voters THEN currentTerm[newest] + 1 ELSE currentTerm[q]]
        /\ isLeader' = [q \in Server |-> IF q \in voters THEN q = s ELSE isLeader[q]]
        /\ UNCHANGED <<log, commitIndex, lastApplied, committed>>
  BY DEF Elect
<1> DEFINE t == currentTerm[newest] + 1
<1>2. RaftTypes /\ t \in Nat
  BY SMTT(120) DEF LogInv, RaftTypes
<1>3. RaftTypes'
  BY <1>1, <1>2 DEF RaftTypes
<1>4. \A q \in Server : /\ currentTerm[q] < t /\ currentTerm[q] \in Nat
                        /\ currentTerm'[q] = IF q \in voters THEN t ELSE currentTerm[q]
                        /\ isLeader'[q] = IF q \in voters THEN q = s ELSE isLeader[q]
  BY <1>1, <1>2 DEF RaftTypes
<1>5. \A i \in DOMAIN committed : i <= Len(log[s]) /\ log[s][i] = committed[i]
  <2>1. committed \in Seq(Entry) /\ log[s] \in Seq(Entry) /\ IsPrefix(committed, log[s])
    BY <1>1, <1>2 DEF RaftTypes
  <2> QED
    BY <2>1, <1>2, PrefixAt, TypeFacts
<1> HIDE DEF t
<1>6. TermsUnique'
  <2> SUFFICES ASSUME NEW l \in Server, NEW m \in Server, isLeader'[l], isLeader'[m],
                      currentTerm'[l] = currentTerm'[m]
               PROVE  l = m
    BY DEF TermsUnique
  <2>1. l \in voters <=> m \in voters
    BY <1>2, <1>4
  <2>2. CASE l \in voters
    BY <2>1, <2>2, <1>4
  <2>3. CASE l \notin voters
    <3>1. isLeader[l] /\ isLeader[m] /\ currentTerm[l] = currentTerm[m]
      BY <2>1, <2>3, <1>4
    <3> QED
      BY <3>1 DEF LogInv, TermsUnique
  <2> QED
    BY <2>2, <2>3
<1>7. \A i \in DOMAIN committed : committed[i].term < t
  BY <1>2, <1>4, TypeFacts DEF LogInv, EntryTerms
<1>8. EntryTerms'
  <2>1. \A q \in Server : \A i \in DOMAIN log'[q] : log'[q][i].term <= currentTerm'[q]
    BY <1>1, <1>2, <1>4, TypeFacts, SMTT(120) DEF LogInv, EntryTerms
  <2>2. \A i \in DOMAIN committed' : \E q \in Server : committed'[i].term <= currentTerm'[q]
    BY <1>1, <1>2, <1>4, TypeFacts, SMTT(120) DEF LogInv, EntryTerms
  <2> QED
    BY <2>1, <2>2 DEF EntryTerms
<1>9. KnownAgree'
  BY <1>1 DEF LogInv, KnownAgree, Known
<1>10. LeadersHold'
  <2> SUFFICES ASSUME NEW l \in Server, NEW q \in Server, isLeader'[l],
                      currentTerm'[q] <= currentTerm'[l], NEW i \in 1 .. Known(q)
               PROVE  i <= Len(log[l]) /\ log[l][i] = log[q][i]
    BY <1>1 DEF LeadersHold, Known
  <2>1. i <= Len(committed) /\ log[q][i] = committed[i]
    BY DEF LogInv, KnownAgree
  <2>2. i \in DOMAIN committed
    BY <2>1, <1>2, TypeFacts
  <2>3. CASE l \in voters
    BY <2>3, <2>1, <2>2, <1>4, <1>5
  <2>4. CASE l \notin voters
    <3>1. q \notin voters /\ isLeader[l] /\ currentTerm[q] <= currentTerm[l]
      BY <2>4, <1>2, <1>4
    <3> QED
      BY <3>1 DEF LogInv, LeadersHold
  <2> QED
    BY <2>3, <2>4
<1>11. NewestHolds'
  <2> SUFFICES ASSUME NEW l \in Server, Newest(l)', NEW i \in DOMAIN committed
               PROVE  /\ i <= Len(log[l]) /\ log[l][i] = committed[i]
                      /\ committed[i].term = currentTerm'[l] => i <= commitIndex[l]
    BY <1>1 DEF NewestHolds
  <2>1. isLeader'[l] /\ currentTerm'[s] <= currentTerm'[l]
    BY DEF Newest
  <2>2. currentTerm'[s] = t /\ l \in voters
    BY <2>1, <1>1, <1>2, <1>4
  <2>3. l = s /\ currentTerm'[l] = t
    BY <2>1, <2>2, <1>4
  <2> QED
    BY <2>3, <1>2, <1>5, <1>7, TypeFacts
<1> QED
  BY <1>3, <1>6, <1>8, <1>9, <1>10, <1>11 DEF LogInv

(* Replicate: the follower's log agrees with the leader's wherever one of  *)
(* them has committed.                                                     *)
LEMMA LogReplicate ==
    ASSUME LogInv, NEW l \in Server, NEW s \in Server, Replicate(l, s), UNCHANGED base
    PROVE  LogInv'
<1>1. /\ l # s /\ isLeader[l] /\ currentTerm[l] >= currentTerm[s]
      /\ currentTerm' = [currentTerm EXCEPT ![s] = currentTerm[l]]
      /\ isLeader' = [isLeader EXCEPT ![s] = FALSE]
      /\ log' = [log EXCEPT ![s] = IF IsPrefix(log[l], @) THEN @ ELSE log[l]]
      /\ commitIndex' = [commitIndex EXCEPT ![s] = IF @ < commitIndex[l] THEN commitIndex[l] ELSE @]
      /\ UNCHANGED <<lastApplied, committed>>
  BY DEF Replicate
<1>2. RaftTypes
  BY DEF LogInv
<1>3. RaftTypes'
  BY <1>1, <1>2 DEF RaftTypes
<1>4. \A q \in Server \ {s} : /\ currentTerm'[q] = currentTerm[q] /\ isLeader'[q] = isLeader[q]
                              /\ log'[q] = log[q] /\ commitIndex'[q] = commitIndex[q]
                              /\ Known(q)' = Known(q)
  BY <1>1, <1>2 DEF RaftTypes, Known
<1>5. /\ currentTerm'[s] = currentTerm[l] /\ ~isLeader'[s]
      /\ log'[s] = (IF IsPrefix(log[l], log[s]) THEN log[s] ELSE log[l])
      /\ commitIndex'[s] = IF commitIndex[s] < commitIndex[l] THEN commitIndex[l] ELSE commitIndex[s]
  BY <1>1, <1>2 DEF RaftTypes
<1>6. \A i \in 1 .. Len(log[l]) : i <= Len(log'[s]) /\ log'[s][i] = log[l][i]
  <2>1. CASE IsPrefix(log[l], log[s])
    BY <2>1, <1>2, <1>5, PrefixAt, TypeFacts
  <2>2. CASE ~IsPrefix(log[l], log[s])
    BY <2>2, <1>2, <1>5, TypeFacts
  <2> QED
    BY <2>1, <2>2
<1>7. \A i \in 1 .. Known(s)' :
        /\ i <= Len(log'[s]) /\ log'[s][i] = log[l][i]
        /\ i <= Len(committed) /\ log[l][i] = committed[i]
        /\ i \in 1 .. Known(l) \/ (i \in 1 .. Known(s) /\ log[s][i] = log[l][i])
  <2> SUFFICES ASSUME NEW i \in 1 .. Known(s)'
               PROVE  /\ i <= Len(log'[s]) /\ log'[s][i] = log[l][i]
                      /\ i <= Len(committed) /\ log[l][i] = committed[i]
                      /\ i \in 1 .. Known(l) \/ (i \in 1 .. Known(s) /\ log[s][i] = log[l][i])
    OBVIOUS
  <2>1. i \in 1 .. Known(l) \/ i \in 1 .. Known(s)
    BY <1>1, <1>2, <1>5, TypeFacts DEF Known
  <2>2. CASE i \in 1 .. Known(l)
    <3>1. i <= Len(log[l]) /\ i <= Len(committed) /\ log[l][i] = committed[i]
      BY <2>2 DEF LogInv, KnownAgree
    <3> QED
      BY <2>2, <3>1, <1>2, <1>6, TypeFacts
  <2>3. CASE i \in 1 .. Known(s)
    <3>1. i <= Len(committed) /\ log[s][i] = committed[i]
      BY <2>3 DEF LogInv, KnownAgree
    <3>2. currentTerm[s] <= currentTerm[l]
      BY <1>1, <1>2, TypeFacts
    <3>3. i <= Len(log[l]) /\ log[l][i] = log[s][i]
      BY <2>3, <1>1, <3>2 DEF LogInv, LeadersHold
    <3> QED
      BY <2>3, <3>1, <3>3, <1>2, <1>6, TypeFacts
  <2> QED
    BY <2>1, <2>2, <2>3
<1>8. TermsUnique'
  BY <1>4, <1>5 DEF LogInv, TermsUnique
<1>9. EntryTerms'
  <2>1. \A q \in Server : \A i \in DOMAIN log'[q] : log'[q][i].term <= currentTerm'[q]
    BY <1>1, <1>2, <1>4, <1>5, TypeFacts, SMTT(120) DEF LogInv, EntryTerms
  <2>2. \A i \in DOMAIN committed : \E q \in Server : committed[i].term <= currentTerm'[q]
    BY <1>1, <1>2, <1>4, <1>5, TypeFacts, SMTT(120) DEF LogInv, EntryTerms
  <2> QED
    BY <1>1, <2>1, <2>2 DEF EntryTerms
<1>10. KnownAgree'
  BY <1>1, <1>4, <1>7 DEF LogInv, KnownAgree
<1>12. LeadersHold'
  <2> SUFFICES ASSUME NEW m \in Server, NEW q \in Server, isLeader'[m],
                      currentTerm'[q] <= currentTerm'[m], NEW i \in 1 .. Known(q)'
               PROVE  i <= Len(log'[m]) /\ log'[m][i] = log'[q][i]
    BY DEF LeadersHold
  <2>1. m # s /\ isLeader[m] /\ log'[m] = log[m] /\ currentTerm'[m] = currentTerm[m]
    BY <1>4, <1>5
  <2>2. CASE q # s
    BY <2>1, <2>2, <1>4 DEF LogInv, LeadersHold
  <2>3. CASE q = s
    <3>1. currentTerm[l] <= currentTerm[m] /\ currentTerm[s] <= currentTerm[m]
      BY <2>1, <2>3, <1>1, <1>2, <1>5, TypeFacts
    <3>2. CASE i \in 1 .. Known(l)
      BY <2>1, <2>3, <3>1, <3>2, <1>7 DEF LogInv, LeadersHold
    <3>3. CASE i \in 1 .. Known(s) /\ log[s][i] = log[l][i]
      BY <2>1, <2>3, <3>1, <3>3, <1>7 DEF LogInv, LeadersHold
    <3> QED
      BY <2>3, <3>2, <3>3, <1>7
  <2> QED
    BY <2>2, <2>3
<1>13. NewestHolds'
  <2> SUFFICES ASSUME NEW m \in Server, Newest(m)', NEW i \in DOMAIN committed
               PROVE  /\ i <= Len(log'[m]) /\ log'[m][i] = committed[i]
                      /\ committed[i].term = currentTerm'[m] => i <= commitIndex'[m]
    BY <1>1 DEF NewestHolds
  <2>1. m # s /\ isLeader[m]
    BY <1>4, <1>5 DEF Newest
  <2>2. \A q \in Server : currentTerm[q] <= currentTerm'[q]
    BY <1>1, <1>2, <1>4, <1>5, TypeFacts, SMTT(120)
  <2>3. \A q \in Server : currentTerm'[q] <= currentTerm[m]
    BY <2>1, <1>4 DEF Newest
  <2>4. \A q \in Server : currentTerm[q] \in Nat /\ currentTerm'[q] \in Nat
    BY <1>2, <1>3 DEF RaftTypes
  <2>5. Newest(m)
    BY <2>1, <2>2, <2>3, <2>4 DEF Newest
  <2> QED
    BY <2>1, <2>5, <1>4 DEF LogInv, NewestHolds
<1> QED
  BY <1>3, <1>8, <1>9, <1>10, <1>12, <1>13 DEF LogInv

(* Commit: what the newest leader commits extends what was committed.      *)
LEMMA LogCommit ==
    ASSUME LogInv, NEW l \in Server, Commit(l), UNCHANGED base
    PROVE  LogInv'
<1>1. PICK n \in commitIndex[l] + 1 .. Len(log[l]) :
        /\ log[l][n].term = currentTerm[l]
        /\ commitIndex' = [commitIndex EXCEPT ![l] = n]
        /\ committed' = SubSeq(log[l], 1, n)
  BY DEF Commit
<1>2. RaftTypes /\ Newest(l) /\ UNCHANGED <<currentTerm, isLeader, log, lastApplied>>
  BY DEF LogInv, Commit, Newest
<1>3. n \in Nat /\ commitIndex[l] < n /\ n <= Len(log[l])
  BY <1>2, TypeFacts
<1>4. RaftTypes'
  BY <1>1, <1>2, <1>3 DEF RaftTypes
<1>5. Len(committed') = n /\ \A i \in 1 .. n : committed'[i] = log[l][i]
  BY <1>1, <1>2, <1>3, TypeFacts
<1>6. Len(committed) < n
  <2> SUFFICES ASSUME n <= Len(committed) PROVE FALSE
    BY <1>2, <1>3, TypeFacts
  <2>1. n \in DOMAIN committed
    BY <1>2, <1>3, TypeFacts
  <2>2. log[l][n] = committed[n] /\ (committed[n].term = currentTerm[l] => n <= commitIndex[l])
    BY <2>1, <1>2 DEF LogInv, NewestHolds
  <2> QED
    BY <2>2, <1>1, <1>2, <1>3, TypeFacts
<1>7. \A q \in Server : /\ commitIndex'[q] = (IF q = l THEN n ELSE commitIndex[q])
                        /\ q # l => Known(q)' = Known(q)
  BY <1>1, <1>2 DEF RaftTypes, Known
<1>15. Known(l)' <= Len(log[l]) /\ Known(l)' <= n /\ Known(l) \in Nat /\ Known(l)' \in Nat
  <2>1. Known(l) <= Len(committed) /\ Known(l) \in Nat
    BY <1>2, TypeFacts DEF LogInv, KnownAgree
  <2> QED
    BY <2>1, <1>2, <1>3, <1>6, <1>7, TypeFacts DEF Known
<1>8. \A m \in Server : isLeader[m] /\ currentTerm[l] <= currentTerm[m] => m = l
  BY <1>2, TypeFacts DEF LogInv, TermsUnique, Newest
<1>9. TermsUnique'
  BY <1>2 DEF LogInv, TermsUnique
<1>10. EntryTerms'
  <2>1. \A i \in DOMAIN committed' : committed'[i].term <= currentTerm[l]
    <3>1. \A i \in DOMAIN committed' : i \in DOMAIN log[l] /\ committed'[i] = log[l][i]
      BY <1>2, <1>3, <1>4, <1>5, TypeFacts, SMTT(120) DEF RaftTypes
    <3> QED
      BY <3>1 DEF LogInv, EntryTerms
  <2> QED
    BY <2>1, <1>2 DEF LogInv, EntryTerms
<1>11. KnownAgree'
  <2> SUFFICES ASSUME NEW q \in Server, NEW i \in 1 .. Known(q)'
               PROVE  i <= Len(log[q]) /\ i <= n /\ log[q][i] = committed'[i]
    BY <1>2, <1>5 DEF KnownAgree
  <2>1. CASE q = l
    BY <2>1, <1>3, <1>5, <1>7, <1>15, <1>2, TypeFacts
  <2>2. CASE q # l
    <3>1. i \in 1 .. Known(q)
      BY <2>2, <1>7
    <3>2. i <= Len(log[q]) /\ i <= Len(committed) /\ log[q][i] = committed[i]
      BY <3>1 DEF LogInv, KnownAgree
    <3>3. i \in DOMAIN committed /\ i \in 1 .. n
      BY <3>1, <3>2, <1>2, <1>3, <1>6, TypeFacts
    <3>4. log[l][i] = committed[i]
      BY <3>3, <1>2 DEF LogInv, NewestHolds
    <3> QED
      BY <3>2, <3>3, <3>4, <1>5
  <2> QED
    BY <2>1, <2>2
<1>12. LeadersHold'
  <2> SUFFICES ASSUME NEW m \in Server, NEW q \in Server, isLeader[m],
                      currentTerm[q] <= currentTerm[m], NEW i \in 1 .. Known(q)'
               PROVE  i <= Len(log[m]) /\ log[m][i] = log[q][i]
    BY <1>2 DEF LeadersHold
  <2>1. CASE q = l
    BY <2>1, <1>2, <1>3, <1>7, <1>8, <1>15, TypeFacts, SMTT(120)
  <2>2. CASE q # l
    BY <2>2, <1>7 DEF LogInv, LeadersHold
  <2> QED
    BY <2>1, <2>2
<1>13. NewestHolds'
  <2> SUFFICES ASSUME NEW m \in Server, Newest(m), NEW i \in DOMAIN committed'
               PROVE  /\ i <= Len(log[m]) /\ log[m][i] = committed'[i]
                      /\ i <= commitIndex'[m]
    BY <1>2 DEF NewestHolds, Newest
  <2>1. m = l
    BY <1>8 DEF Newest
  <2>2. i \in 1 .. n
    BY <1>4, <1>5, TypeFacts DEF RaftTypes
  <2> QED
    BY <2>1, <2>2, <1>2, <1>3, <1>5, <1>7, TypeFacts
<1> QED
  BY <1>4, <1>9, <1>10, <1>11, <1>12, <1>13 DEF LogInv

(* AppendToLog: a log grows at its end, by an entry of the leader's term.  *)
LEMMA LogAppend ==
    ASSUME LogInv, NEW s \in Server, NEW cmd \in Req, AppendToLog(s, cmd), UNCHANGED base
    PROVE  LogInv'
<1> DEFINE e == [cmd |-> cmd, term |-> currentTerm[s]]
<1>1. /\ log' = [log EXCEPT ![s] = Append(@, e)]
      /\ UNCHANGED <<currentTerm, isLeader, commitIndex, lastApplied, committed>>
  BY DEF AppendToLog
<1>2. RaftTypes /\ e \in Entry
  BY DEF LogInv, RaftTypes, Entry
<1>3. RaftTypes'
  BY <1>1, <1>2 DEF RaftTypes
<1>4. e.term = currentTerm[s]
  OBVIOUS
<1> HIDE DEF e
<1>5. \A q \in Server :
        /\ \A i \in 1 .. Len(log[q]) : i <= Len(log'[q]) /\ log'[q][i] = log[q][i]
        /\ \A i \in DOMAIN log'[q] : i \in DOMAIN log[q] \/ (q = s /\ log'[q][i] = e)
  BY <1>1, <1>2, TypeFacts, SMTT(120) DEF RaftTypes
<1>6. TermsUnique'
  BY <1>1 DEF LogInv, TermsUnique
<1>7. EntryTerms'
  <2>1. ASSUME NEW q \in Server, NEW i \in DOMAIN log'[q]
        PROVE  log'[q][i].term <= currentTerm[q]
    <3>1. CASE i \in DOMAIN log[q]
      <4>1. log'[q][i] = log[q][i]
        BY <3>1, <1>2, <1>5, TypeFacts
      <4> QED
        BY <3>1, <4>1 DEF LogInv, EntryTerms
    <3>2. CASE q = s /\ log'[q][i] = e
      BY <3>2, <1>2, <1>4, TypeFacts
    <3> QED
      BY <3>1, <3>2, <1>5
  <2> QED
    BY <2>1, <1>1 DEF LogInv, EntryTerms
<1>8. KnownAgree'
  <2> SUFFICES ASSUME NEW q \in Server, NEW i \in 1 .. Known(q)
               PROVE  i <= Len(log'[q]) /\ i <= Len(committed) /\ log'[q][i] = committed[i]
    BY <1>1 DEF KnownAgree, Known
  <2>1. i <= Len(log[q]) /\ i <= Len(committed) /\ log[q][i] = committed[i]
    BY DEF LogInv, KnownAgree
  <2> QED
    BY <2>1, <1>2, <1>5, TypeFacts
<1>9. LeadersHold'
  <2> SUFFICES ASSUME NEW l \in Server, NEW q \in Server, isLeader[l],
                      currentTerm[q] <= currentTerm[l], NEW i \in 1 .. Known(q)
               PROVE  i <= Len(log'[l]) /\ log'[l][i] = log'[q][i]
    BY <1>1 DEF LeadersHold, Known
  <2>1. i <= Len(log[l]) /\ log[l][i] = log[q][i] /\ i <= Len(log[q])
    BY DEF LogInv, LeadersHold, KnownAgree
  <2> QED
    BY <2>1, <1>2, <1>5, TypeFacts, SMTT(120)
<1>10. NewestHolds'
  <2> SUFFICES ASSUME NEW l \in Server, Newest(l), NEW i \in DOMAIN committed
               PROVE  /\ i <= Len(log'[l]) /\ log'[l][i] = committed[i]
                      /\ committed[i].term = currentTerm[l] => i <= commitIndex[l]
    BY <1>1 DEF NewestHolds, Newest
  <2>1. /\ i <= Len(log[l]) /\ log[l][i] = committed[i]
        /\ committed[i].term = currentTerm[l] => i <= commitIndex[l]
    BY DEF LogInv, NewestHolds
  <2> QED
    BY <2>1, <1>2, <1>5, TypeFacts
<1> QED
  BY <1>3, <1>6, <1>7, <1>8, <1>9, <1>10 DEF LogInv
(* Steps of the service and of snapshots leave what LogInv is about alone, *)
(* as long as each server knows the same number of entries.                *)
LEMMA LogServed ==
    ASSUME LogInv, UNCHANGED <<currentTerm, isLeader, log, commitIndex, committed>>, RaftTypes',
           \A q \in Server : Known(q)' = Known(q)
    PROVE  LogInv'
<1>1. TermsUnique' /\ EntryTerms' /\ NewestHolds'
  BY DEF LogInv, TermsUnique, EntryTerms, NewestHolds, Newest
<1>2. KnownAgree' /\ LeadersHold'
  BY DEF LogInv, KnownAgree, LeadersHold
<1> QED
  BY <1>1, <1>2 DEF LogInv

(* What InstallSnapshotHandler makes of a log: the entries that the        *)
(* snapshot covers, and the rest as it was.                                *)
Splice(p, r, i) == SubSeq(p, 1, i) \o SubSeq(r, i + 1, Len(r))

(* It has the first i entries of p, and otherwise those of r.               *)
LEMMA Spliced ==
    ASSUME NEW S, NEW p \in Seq(S), NEW r \in Seq(S), NEW i \in Nat, i <= Len(p)
    PROVE  /\ Splice(p, r, i) \in Seq(S) /\ i <= Len(Splice(p, r, i))
           /\ \A k \in 1 .. i : Splice(p, r, i)[k] = p[k]
           /\ \A k \in DOMAIN Splice(p, r, i) :
                k \in 1 .. i \/ (k \in DOMAIN r /\ Splice(p, r, i)[k] = r[k])
<1>1. SubSeq(p, 1, i) \in Seq(S) /\ Len(SubSeq(p, 1, i)) = i /\ Len(r) \in Nat
  OBVIOUS
<1>2. \A k \in 1 .. i : SubSeq(p, 1, i)[k] = p[k]
  OBVIOUS
<1> DEFINE u == SubSeq(p, 1, i)
           v == SubSeq(r, i + 1, Len(r))
           m == IF Len(r) < i THEN 0 ELSE Len(r) - i
<1>3. v \in Seq(S) /\ Len(v) = m
  OBVIOUS
<1>4. \A k \in 1 .. m : v[k] = r[i + k] /\ i + k \in DOMAIN r
  OBVIOUS
<1>5. u \in Seq(S) /\ Len(u) = i /\ \A k \in 1 .. i : u[k] = p[k]
  BY <1>1, <1>2
<1>6. m \in Nat
  BY <1>1
<1> HIDE DEF u, v, m
<1>7. /\ u \o v \in Seq(S) /\ Len(u \o v) = i + m
      /\ \A k \in 1 .. i + m : (u \o v)[k] = IF k <= i THEN u[k] ELSE v[k - i]
  BY <1>3, <1>5, <1>6, ConcatProperties, ZenonT(120)
<1>8. \A k \in 1 .. i : (u \o v)[k] = p[k]
  BY <1>5, <1>6, <1>7
<1>9. ASSUME NEW k \in DOMAIN (u \o v), k \notin 1 .. i
      PROVE  k \in DOMAIN r /\ (u \o v)[k] = r[k]
  <2>1. k \in Nat /\ i < k /\ k <= i + m
    BY <1>6, <1>7, <1>9
  <2> DEFINE h == k - i
  <2>2. h \in 1 .. m /\ i + h = k
    BY <2>1, <1>6
  <2>3. (u \o v)[k] = v[h]
    BY <2>1, <1>6, <1>7
  <2> QED
    BY <2>2, <2>3, <1>4
<1>10. i <= Len(u \o v)
  BY <1>6, <1>7
<1> QED
  BY <1>7, <1>8, <1>9, <1>10 DEF u, v, Splice

(* InstallSnapshotHandler: the leader knows what its snapshot covers to be *)
(* committed.                                                              *)
LEMMA LogInstall ==
    ASSUME LogInv, NEW l \in Server, NEW s \in Server, InstallSnapshot(l, s) PROVE LogInv'
<1> DEFINE i == base[l]
           q == Splice(log[l], log[s], i)
<1>1. /\ l # s /\ isLeader[l] /\ currentTerm[l] >= currentTerm[s]
      /\ i > commitIndex[s] /\ i >= base[s]
      /\ currentTerm' = [currentTerm EXCEPT ![s] = currentTerm[l]]
      /\ isLeader' = [isLeader EXCEPT ![s] = FALSE]
      /\ log' = [log EXCEPT ![s] = q]
      /\ commitIndex' = [commitIndex EXCEPT ![s] = i]
      /\ lastApplied' = [lastApplied EXCEPT ![s] = i]
      /\ base' = [base EXCEPT ![s] = i]
      /\ committed' = committed
  BY DEF InstallSnapshot, Newer, Splice
<1>2. RaftTypes
  BY DEF LogInv
<1>17. i = base[l] /\ q = Splice(log[l], log[s], i)
  OBVIOUS
<1> HIDE DEF i, q
<1>3. /\ i \in Nat /\ i <= Len(log[l]) /\ i <= Known(l) /\ i <= Len(committed)
      /\ \A k \in 1 .. i : log[l][k] = committed[k]
  <2>1. i \in Nat /\ i <= Known(l) /\ Known(l) \in Nat
    BY <1>2, <1>17, TypeFacts
  <2>2. \A k \in 1 .. i : k <= Len(log[l]) /\ k <= Len(committed) /\ log[l][k] = committed[k]
    BY <2>1 DEF LogInv, KnownAgree
  <2>3. i \in 1 .. i
    BY <2>1, <1>1, <1>2, TypeFacts
  <2> QED
    BY <2>1, <2>2, <2>3
<1>4. log[l] \in Seq(Entry) /\ log[s] \in Seq(Entry)
  BY <1>2 DEF RaftTypes
<1>5. /\ q \in Seq(Entry) /\ i <= Len(q)
      /\ \A k \in 1 .. i : q[k] = log[l][k]
      /\ \A k \in DOMAIN q : k \in 1 .. i \/ (k \in DOMAIN log[s] /\ q[k] = log[s][k])
  <2>1. i \in Nat /\ i <= Len(log[l])
    BY <1>3
  <2>2. Splice(log[l], log[s], i) \in Seq(Entry)
    BY <2>1, <1>4, Spliced
  <2>3. i <= Len(Splice(log[l], log[s], i))
    BY <2>1, <1>4, Spliced
  <2>4. \A k \in 1 .. i : Splice(log[l], log[s], i)[k] = log[l][k]
    BY <2>1, <1>4, Spliced
  <2>5. \A k \in DOMAIN Splice(log[l], log[s], i) :
        k \in 1 .. i \/ (k \in DOMAIN log[s] /\ Splice(log[l], log[s], i)[k] = log[s][k])
    BY <2>1, <1>4, Spliced, SMTT(120)
  <2> QED
    BY <2>2, <2>3, <2>4, <2>5, <1>17
<1>6. RaftTypes'
  <2>1. committed' \in Seq(Entry) /\ currentTerm[l] \in Nat
    BY <1>1, <1>2 DEF RaftTypes
  <2> QED
    BY <2>1, <1>1, <1>2, <1>3, <1>5 DEF RaftTypes
<1>7. \A m \in Server \ {s} : /\ currentTerm'[m] = currentTerm[m] /\ isLeader'[m] = isLeader[m]
                              /\ log'[m] = log[m] /\ commitIndex'[m] = commitIndex[m]
                              /\ Known(m)' = Known(m)
  BY <1>1, <1>2 DEF RaftTypes, Known
<1>8. currentTerm'[s] = currentTerm[l] /\ ~isLeader'[s] /\ log'[s] = q /\ Known(s)' = i
  BY <1>1, <1>2, <1>3 DEF RaftTypes, Known
<1>9. TermsUnique'
  BY <1>7, <1>8 DEF LogInv, TermsUnique
<1>10. \A m \in Server : /\ currentTerm[m] \in Nat /\ currentTerm'[m] \in Nat
                         /\ currentTerm[m] <= currentTerm'[m]
  BY <1>1, <1>2, <1>7, <1>8, TypeFacts
<1>11. EntryTerms'
  <2>1. ASSUME NEW m \in Server, NEW k \in DOMAIN log'[m]
        PROVE  log'[m][k].term <= currentTerm'[m]
    <3>1. CASE m # s
      BY <3>1, <1>7 DEF LogInv, EntryTerms
    <3>2. CASE m = s /\ k \in 1 .. i
      <4>1. k \in DOMAIN log[l] /\ log'[m][k] = log[l][k]
        BY <3>2, <1>2, <1>3, <1>5, <1>8, TypeFacts
      <4> QED
        BY <3>2, <4>1, <1>8 DEF LogInv, EntryTerms
    <3>3. CASE m = s /\ k \notin 1 .. i
      <4>1. k \in DOMAIN log[s] /\ log'[m][k] = log[s][k]
        BY <3>3, <1>5, <1>8
      <4>2. log[s][k].term <= currentTerm[s] /\ log[s][k].term \in Nat
        BY <4>1, <1>2, TypeFacts DEF LogInv, EntryTerms
      <4> QED
        BY <3>3, <4>1, <4>2, <1>10
    <3> QED
      BY <3>1, <3>2, <3>3
  <2>2. ASSUME NEW k \in DOMAIN committed
        PROVE  \E m \in Server : committed[k].term <= currentTerm'[m]
    <3>1. PICK m \in Server : committed[k].term <= currentTerm[m]
      BY DEF LogInv, EntryTerms
    <3>2. committed[k].term \in Nat
      BY <1>2, TypeFacts
    <3> QED
      BY <3>1, <3>2, <1>10
  <2> QED
    BY <2>1, <2>2, <1>1 DEF EntryTerms
<1>12. \A k \in 1 .. i : k <= Len(q) /\ k <= Len(committed) /\ q[k] = committed[k]
  BY <1>2, <1>3, <1>5, TypeFacts
<1>13. KnownAgree'
  BY <1>1, <1>7, <1>8, <1>12 DEF LogInv, KnownAgree
<1>14. LeadersHold'
  <2> SUFFICES ASSUME NEW m \in Server, NEW p \in Server, isLeader'[m],
                      currentTerm'[p] <= currentTerm'[m], NEW k \in 1 .. Known(p)'
               PROVE  k <= Len(log'[m]) /\ log'[m][k] = log'[p][k]
    BY DEF LeadersHold
  <2>1. m # s /\ isLeader[m] /\ log'[m] = log[m] /\ currentTerm'[m] = currentTerm[m]
    BY <1>7, <1>8
  <2>2. CASE p # s
    BY <2>1, <2>2, <1>7 DEF LogInv, LeadersHold
  <2>3. CASE p = s
    <3>1. k \in 1 .. i /\ k \in 1 .. Known(l) /\ currentTerm[l] <= currentTerm[m]
      BY <2>1, <2>3, <1>2, <1>3, <1>8, TypeFacts
    <3>2. k <= Len(log[m]) /\ log[m][k] = log[l][k]
      BY <3>1, <2>1 DEF LogInv, LeadersHold
    <3> QED
      BY <2>1, <2>3, <3>1, <3>2, <1>5, <1>8
  <2> QED
    BY <2>2, <2>3
<1>15. NewestHolds'
  <2> SUFFICES ASSUME NEW m \in Server, Newest(m)', NEW k \in DOMAIN committed
               PROVE  /\ k <= Len(log'[m]) /\ log'[m][k] = committed[k]
                      /\ committed[k].term = currentTerm'[m] => k <= commitIndex'[m]
    BY <1>1 DEF NewestHolds
  <2>1. m # s /\ isLeader[m]
    BY <1>7, <1>8 DEF Newest
  <2>2. Newest(m)
    BY <2>1, <1>7, <1>10 DEF Newest
  <2> QED
    BY <2>1, <2>2, <1>7 DEF LogInv, NewestHolds
<1> QED
  BY <1>6, <1>9, <1>11, <1>13, <1>14, <1>15 DEF LogInv

(* Restart: what a server knows up to its base it still knows.             *)
LEMMA LogRestart == ASSUME LogInv, NEW s \in Server, StartedAgain(s) PROVE LogInv'
<1>1. PICK n \in commitIndex[s] .. Len(log[s]) :
        n >= base[s] /\ log' = [log EXCEPT ![s] = SubSeq(@, 1, n)]
  BY DEF StartedAgain
<1>2. /\ isLeader' = [isLeader EXCEPT ![s] = FALSE]
      /\ commitIndex' = [commitIndex EXCEPT ![s] = 0]
      /\ lastApplied' = [lastApplied EXCEPT ![s] = base[s]]
      /\ UNCHANGED <<currentTerm, committed, base>>
  BY DEF StartedAgain, diskVars
<1>3. RaftTypes
  BY DEF LogInv
<1> DEFINE q == SubSeq(log[s], 1, n)
<1>4. n \in Nat /\ Known(s) <= n /\ n <= Len(log[s]) /\ log[s] \in Seq(Entry)
  BY <1>1, <1>3, TypeFacts DEF Known
<1>5. /\ q \in Seq(Entry) /\ Len(q) = n /\ DOMAIN q = 1 .. n
      /\ \A k \in 1 .. n : k \in DOMAIN log[s] /\ q[k] = log[s][k]
  BY <1>4, TypeFacts
<1>6. log' = [log EXCEPT ![s] = q]
  BY <1>1
<1> HIDE DEF q
<1>7. RaftTypes'
  <2>1. base[s] \in Nat /\ committed' \in Seq(Entry)
    BY <1>2, <1>3 DEF RaftTypes
  <2> QED
    BY <2>1, <1>2, <1>3, <1>5, <1>6 DEF RaftTypes
<1>8. \A m \in Server : /\ m # s => isLeader'[m] = isLeader[m] /\ log'[m] = log[m]
                        /\ m # s => commitIndex'[m] = commitIndex[m] /\ Known(m)' = Known(m)
  BY <1>2, <1>3, <1>6 DEF RaftTypes, Known
<1>9. ~isLeader'[s] /\ log'[s] = q
  BY <1>2, <1>3, <1>6 DEF RaftTypes
<1>10. Known(s)' \in Nat /\ Known(s)' <= Known(s)
  BY <1>2, <1>3, TypeFacts DEF RaftTypes, Known
<1>11. \A k \in 1 .. Known(s)' : k \in 1 .. Known(s) /\ k \in 1 .. n /\ q[k] = log[s][k]
  BY <1>3, <1>4, <1>5, <1>10, TypeFacts
<1>12. TermsUnique'
  BY <1>2, <1>8, <1>9 DEF LogInv, TermsUnique
<1>13. EntryTerms'
  <2>1. \A m \in Server : \A k \in DOMAIN log'[m] : k \in DOMAIN log[m] /\ log'[m][k] = log[m][k]
    BY <1>5, <1>8, <1>9
  <2> QED
    BY <2>1, <1>2 DEF LogInv, EntryTerms
<1>14. KnownAgree'
  <2> SUFFICES ASSUME NEW m \in Server, NEW k \in 1 .. Known(m)'
               PROVE  k <= Len(log'[m]) /\ k <= Len(committed) /\ log'[m][k] = committed[k]
    BY <1>2 DEF KnownAgree
  <2>1. CASE m # s
    BY <2>1, <1>8 DEF LogInv, KnownAgree
  <2>2. CASE m = s
    BY <2>2, <1>4, <1>5, <1>9, <1>11 DEF LogInv, KnownAgree
  <2> QED
    BY <2>1, <2>2
<1>15. LeadersHold'
  <2> SUFFICES ASSUME NEW m \in Server, NEW p \in Server, isLeader'[m],
                      currentTerm[p] <= currentTerm[m], NEW k \in 1 .. Known(p)'
               PROVE  k <= Len(log'[m]) /\ log'[m][k] = log'[p][k]
    BY <1>2 DEF LeadersHold
  <2>1. m # s /\ isLeader[m] /\ log'[m] = log[m]
    BY <1>8, <1>9
  <2>2. k \in 1 .. Known(p) /\ log'[p][k] = log[p][k]
    BY <1>8, <1>9, <1>11
  <2> QED
    BY <2>1, <2>2 DEF LogInv, LeadersHold
<1>16. NewestHolds'
  <2> SUFFICES ASSUME NEW m \in Server, Newest(m)', NEW k \in DOMAIN committed
               PROVE  /\ k <= Len(log'[m]) /\ log'[m][k] = committed[k]
                      /\ committed[k].term = currentTerm'[m] => k <= commitIndex'[m]
    BY <1>2 DEF NewestHolds
  <2>1. m # s /\ Newest(m)
    BY <1>2, <1>8, <1>9 DEF Newest
  <2>2. /\ k <= Len(log[m]) /\ log[m][k] = committed[k]
        /\ committed[k].term = currentTerm[m] => k <= commitIndex[m]
    BY <2>1 DEF LogInv, NewestHolds
  <2> QED
    BY <2>1, <2>2, <1>2, <1>8, ZenonT(120)
<1> QED
  BY <1>7, <1>12, <1>13, <1>14, <1>15, <1>16 DEF LogInv
-----------------------------------------------------------------------------
(* The path. *)

(* The element facts of PathTypes. *)
LEMMA PathFacts ==
    ASSUME PathTypes
    PROVE  \A s \in Server :
            /\ install[s] \in Nat /\ upTo[s] \in Nat /\ lastIncludeIndex[s] \in Nat
            /\ batch[s] \in Seq(Nat) /\ Len(batch[s]) \in Nat
            /\ loop[s] \in [pc : {"receive", "snapshot", "notify", "ended"}, index : Nat]
BY DEF PathTypes

(* A server may learn that more is committed. *)
LEMMA PositionGrows ==
    ASSUME NEW known \in Nat, NEW more \in Nat, known <= more, NEW bs \in Nat, NEW inst \in Nat,
           NEW up \in Nat, NEW last \in Nat, NEW li \in Nat, NEW queue \in Seq(Nat),
           Position(known, bs, inst, up, last, li, queue)
    PROVE  Position(more, bs, inst, up, last, li, queue)
<1>1. \A k \in 1 .. Len(queue) : queue[k] \in Nat
  OBVIOUS
<1> QED
  BY <1>1 DEF Position

(* applyLog: nothing was on its way, so what is committed comes next. *)
LEMMA PositionTaken ==
    ASSUME NEW known \in Nat, NEW bs \in Nat, NEW up \in Nat, NEW last \in Nat, NEW li \in Nat,
           NEW ci \in Nat, last < ci, ci <= known,
           Position(known, bs, 0, up, last, li, <<>>)
    PROVE  Position(known, bs, 0, up, ci, li, [k \in 1 .. ci - last |-> last + k])
<1> DEFINE q == [k \in 1 .. ci - last |-> last + k]
<1>1. ci - last \in Nat /\ Len(<<>>) = 0
  OBVIOUS
<1>2. Len(q) = ci - last /\ \A k \in 1 .. Len(q) : q[k] = last + k
  BY <1>1
<1>3. last = up
  BY <1>1 DEF Position, Pending
<1> HIDE DEF q
<1>4. Pending(up, ci, li, q, 0)
  BY <1>1, <1>2, <1>3 DEF Pending
<1>5. \A k \in 1 .. Len(q) : q[k] <= known
  BY <1>1, <1>2
<1> QED
  BY <1>4, <1>5 DEF Position, q

(* applyMsgHandlerLoop takes the next command. *)
LEMMA PositionNext ==
    ASSUME NEW known \in Nat, NEW bs \in Nat, NEW inst \in Nat, NEW up \in Nat, NEW last \in Nat,
           NEW li \in Nat, NEW queue \in Seq(Nat), queue # <<>>,
           Position(known, bs, inst, up, last, li, queue)
    PROVE  /\ Head(queue) <= li => Position(known, bs, inst, up, last, li, Tail(queue))
           /\ Head(queue) > li =>
                /\ Head(queue) = up + 1 /\ up + 1 <= known
                /\ Position(known, bs, inst, up + 1, last, li, Tail(queue))
<1> DEFINE t == Tail(queue)
           n == Len(queue)
<1>1. /\ n \in Nat /\ n >= 1 /\ Head(queue) = queue[1] /\ Len(t) = n - 1
      /\ \A k \in 1 .. n : queue[k] \in Nat
      /\ \A k \in 1 .. n - 1 : t[k] = queue[k + 1] /\ k + 1 \in 1 .. n
  BY SMTT(120)
<1>2. \A k \in 1 .. n : queue[k] <= known /\ (inst # 0 => queue[k] <= inst)
  BY <1>1 DEF Position
<1>3. 1 \in 1 .. n /\ queue[1] \in Nat
  BY <1>1
<1> HIDE DEF t, n
<1>4. li <= up /\ Pending(up, last, li, queue, inst)
  BY DEF Position
<1>5. CASE Head(queue) <= li
  <2>1. \A k \in 1 .. n : queue[k] <= li
    BY <1>1, <1>3, <1>4, <1>5, SMTT(120) DEF Pending, n
  <2>2. inst = 0 => last = up
    <3>1. \/ queue[1] = up + 1
          \/ inst = 0 => last = up
      BY <1>3, <1>4 DEF Pending, n
    <3> QED
      BY <3>1, <1>1, <1>3, <1>4, <1>5
  <2>3. Pending(up, last, li, t, inst)
    BY <1>1, <2>1, <2>2 DEF Pending
  <2> QED
    BY <2>3, <1>1, <1>2, <1>5 DEF Position, t
<1>6. CASE Head(queue) > li
  <2>1. /\ \A k \in 1 .. n : queue[k] = up + k
        /\ inst = 0 => last = up + n
    BY <1>1, <1>3, <1>4, <1>6 DEF Pending, n
  <2>2. Head(queue) = up + 1 /\ up + 1 <= known /\ (inst # 0 => up + 1 <= inst)
    BY <2>1, <1>1, <1>2, <1>3
  <2>3. \A k \in 1 .. n - 1 : t[k] = (up + 1) + k
    BY <2>1, <1>1
  <2>4. Pending(up + 1, last, li, t, inst)
    BY <2>1, <2>3, <1>1 DEF Pending
  <2>5. \A k \in 1 .. n - 1 : t[k] <= known /\ (inst # 0 => t[k] <= inst)
    BY <1>1, <1>2
  <2> QED
    BY <2>2, <2>4, <2>5, <1>1, <1>6 DEF Position, t
<1> QED
  BY <1>1, <1>3, <1>5, <1>6

(* InstallSnapshotHandler: the store is not ahead of the snapshot it will  *)
(* get (nor behind it, if that is the one it has restarted from).          *)
LEMMA PositionInstalled ==
    ASSUME NEW known \in Nat, NEW bs \in Nat, NEW up \in Nat, NEW last \in Nat, NEW li \in Nat,
           NEW queue \in Seq(Nat), Position(known, bs, 0, up, last, li, queue),
           NEW i \in Nat, i # 0, known <= i
    PROVE  Position(i, i, i, up, i, li, queue)
<1>1. \A k \in 1 .. Len(queue) : queue[k] \in Nat /\ queue[k] <= known
  BY DEF Position
<1>2. Pending(up, i, li, queue, i)
  BY DEF Position, Pending
<1> QED
  BY <1>1, <1>2, SMTT(120) DEF Position

(* The loop gets the snapshot: all that was on its way is overtaken. *)
LEMMA PositionCaughtUp ==
    ASSUME NEW known \in Nat, NEW bs \in Nat, NEW inst \in Nat, NEW up \in Nat, NEW last \in Nat,
           NEW li \in Nat, NEW queue \in Seq(Nat), inst # 0,
           Position(known, bs, inst, up, last, li, queue)
    PROVE  Position(known, bs, 0, inst, last, inst, queue)
<1>1. \A k \in 1 .. Len(queue) : queue[k] \in Nat /\ queue[k] <= inst
  BY DEF Position
<1> QED
  BY <1>1 DEF Position, Pending

(* After a restart the store is where its snapshot is. *)
LEMMA PositionRestarted == ASSUME NEW bs \in Nat PROVE Position(bs, bs, 0, bs, bs, 0, <<>>)
BY DEF Position, Pending
(* Only the path of one server changes. *)
LEMMA PathOfOne ==
    ASSUME PathInv, PathTypes', NEW s \in Server, PathAt(s)',
           \A q \in Server \ {s} :
                /\ Known(q)' = Known(q) /\ base'[q] = base[q] /\ install'[q] = install[q]
                /\ upTo'[q] = upTo[q] /\ lastApplied'[q] = lastApplied[q]
                /\ lastIncludeIndex'[q] = lastIncludeIndex[q] /\ batch'[q] = batch[q]
                /\ loop'[q] = loop[q]
    PROVE  PathInv'
<1>1. \A q \in Server \ {s} : PathAt(q)'
  BY DEF PathInv, PathAt
<1> QED
  BY <1>1 DEF PathInv

(* Clerks and their handlers leave the path alone; Raft may only learn     *)
(* that more is committed.                                                 *)
LEMMA PathLearns ==
    ASSUME LogInv, RaftTypes', PathInv,
           UNCHANGED <<base, install, upTo, lastApplied, lastIncludeIndex, batch, loop>>,
           \A q \in Server : Known(q) <= Known(q)'
    PROVE  PathInv'
<1>1. PathTypes'
  BY DEF PathInv, PathTypes
<1>2. ASSUME NEW q \in Server PROVE PathAt(q)'
  <2> DEFINE more == Known(q)'
  <2>1. more \in Nat /\ Known(q) <= more
    BY TypeFacts DEF RaftTypes, Known
  <2>2. Known(q) \in Nat /\ base[q] \in Nat /\ lastApplied[q] \in Nat
    BY TypeFacts DEF LogInv, RaftTypes
  <2>3. /\ Position(Known(q), base[q], install[q], upTo[q], lastApplied[q], lastIncludeIndex[q],
                    batch[q])
        /\ loop[q].pc \in {"snapshot", "notify"} => loop[q].index = upTo[q] /\ upTo[q] >= 1
    BY DEF PathInv, PathAt
  <2>4. /\ install[q] \in Nat /\ upTo[q] \in Nat /\ lastIncludeIndex[q] \in Nat
        /\ batch[q] \in Seq(Nat)
    BY PathFacts DEF PathInv
  <2> HIDE DEF more
  <2>5. Position(more, base[q], install[q], upTo[q], lastApplied[q], lastIncludeIndex[q], batch[q])
    BY <2>1, <2>2, <2>3, <2>4, PositionGrows
  <2>6. Position(Known(q)', base[q], install[q], upTo[q], lastApplied[q], lastIncludeIndex[q], batch[q])
    BY <2>5 DEF more
  <2> QED
    BY <2>3, <2>6 DEF PathAt
<1> QED
  BY <1>1, <1>2 DEF PathInv

(* What Elect, Replicate and Commit do to a server's knowledge. *)
LEMMA KnownGrows ==
    ASSUME LogInv, LogInv', UNCHANGED base,
           \A q \in Server : commitIndex[q] <= commitIndex'[q]
    PROVE  \A q \in Server : Known(q) <= Known(q)'
<1>1. \A q \in Server : commitIndex[q] \in Nat /\ base[q] \in Nat /\ commitIndex'[q] \in Nat
  BY DEF LogInv, RaftTypes
<1> QED
  BY <1>1 DEF Known

(* applyLog. *)
LEMMA PathApply ==
    ASSUME LogInv, RaftTypes', PathInv, NEW s \in Server, applyLog(s) PROVE PathInv'
<1> DEFINE ci == commitIndex[s]
           last == lastApplied[s]
           q == [k \in 1 .. ci - last |-> last + k]
<1>1. /\ install[s] = 0 /\ batch[s] = <<>> /\ last < ci
      /\ batch' = [batch EXCEPT ![s] = q]
      /\ lastApplied' = [lastApplied EXCEPT ![s] = ci]
      /\ UNCHANGED <<commitIndex, base, install, upTo, lastIncludeIndex, loop>>
  BY DEF applyLog, Unlocked, diskVars, storeVars
<1>2. ci \in Nat /\ last \in Nat /\ Known(s) \in Nat /\ base[s] \in Nat /\ ci <= Known(s)
  BY TypeFacts DEF LogInv, RaftTypes
<1>3. q \in Seq(Nat)
  BY <1>2
<1>4. PathTypes /\ upTo[s] \in Nat /\ lastIncludeIndex[s] \in Nat
  BY PathFacts DEF PathInv
<1>5. PathAt(s)
  BY DEF PathInv
<1> HIDE DEF ci, last
<1>6. Position(Known(s), base[s], 0, upTo[s], ci, lastIncludeIndex[s], q)
  <2>1. Position(Known(s), base[s], 0, upTo[s], last, lastIncludeIndex[s], <<>>)
    BY <1>1, <1>5 DEF PathAt, last
  <2> QED
    BY <2>1, <1>1, <1>2, <1>4, PositionTaken, ZenonT(120)
<1> HIDE DEF q
<1>7. PathTypes'
  BY <1>1, <1>3, <1>4 DEF PathTypes
<1>8. \A p \in Server : /\ Known(p)' = Known(p)
                        /\ batch'[p] = IF p = s THEN q ELSE batch[p]
                        /\ lastApplied'[p] = IF p = s THEN ci ELSE lastApplied[p]
  BY <1>1, <1>4 DEF LogInv, RaftTypes, PathTypes, Known
<1>9. PathAt(s)'
  BY <1>1, <1>5, <1>6, <1>8 DEF PathAt
<1> QED
  BY <1>1, <1>7, <1>8, <1>9, PathOfOne

(* applyMsgHandlerLoop takes a command: it is the committed one behind     *)
(* what the store has, or the loop ends.                                   *)
LEMMA PathCommand ==
    ASSUME LogInv, PathInv, NEW s \in Server, applyCommand(s)
    PROVE  /\ PathInv'
           /\ \/ UNCHANGED upTo /\ UNCHANGED <<kvPersist, seqMap>>
              \/ /\ upTo[s] + 1 <= Known(s) /\ Head(batch[s]) = upTo[s] + 1
                 /\ Head(batch[s]) > lastIncludeIndex[s]
                 /\ upTo' = [upTo EXCEPT ![s] = upTo[s] + 1]
<1> DEFINE q == batch[s]
           i == Head(q)
<1>1. /\ loop[s].pc = "receive" /\ q # <<>>
      /\ batch' = [batch EXCEPT ![s] = Tail(q)]
      /\ UNCHANGED <<commitIndex, lastApplied, base, install, lastIncludeIndex>>
      /\ IF i <= lastIncludeIndex[s]
         THEN loop' = [loop EXCEPT ![s].pc = "ended"] /\ UNCHANGED <<kvPersist, seqMap, upTo>>
         ELSE /\ \E pc \in {"snapshot", "notify"} : loop' = [loop EXCEPT ![s] = [pc |-> pc, index |-> i]]
              /\ upTo' = [upTo EXCEPT ![s] = i]
  BY DEF applyCommand, raftVars, diskVars
<1>2. /\ Known(s) \in Nat /\ base[s] \in Nat /\ lastApplied[s] \in Nat
      /\ \A p \in Server : Known(p)' = Known(p)
  BY <1>1, TypeFacts DEF LogInv, RaftTypes, Known
<1>3. /\ PathTypes /\ q \in Seq(Nat) /\ install[s] \in Nat /\ upTo[s] \in Nat
      /\ lastIncludeIndex[s] \in Nat
  BY PathFacts DEF PathInv
<1>4. Position(Known(s), base[s], install[s], upTo[s], lastApplied[s], lastIncludeIndex[s], q)
  BY DEF PathInv, PathAt
<1>5. Tail(q) \in Seq(Nat) /\ i \in Nat
  BY <1>1, <1>3
<1> HIDE DEF q
<1>6. /\ i <= lastIncludeIndex[s] =>
            Position(Known(s), base[s], install[s], upTo[s], lastApplied[s], lastIncludeIndex[s], Tail(q))
      /\ i > lastIncludeIndex[s] =>
            /\ i = upTo[s] + 1 /\ upTo[s] + 1 <= Known(s)
            /\ Position(Known(s), base[s], install[s], upTo[s] + 1, lastApplied[s],
                        lastIncludeIndex[s], Tail(q))
  BY <1>1, <1>2, <1>3, <1>4, PositionNext
<1> HIDE DEF i
<1>7. CASE i <= lastIncludeIndex[s]
  <2>1. UNCHANGED upTo /\ UNCHANGED <<kvPersist, seqMap>> /\ loop' = [loop EXCEPT ![s].pc = "ended"]
    BY <1>1, <1>7
  <2>2. PathTypes'
    BY <2>1, <1>1, <1>3, <1>5, ZenonT(120) DEF PathTypes
  <2>3. \A p \in Server : /\ batch'[p] = IF p = s THEN Tail(q) ELSE batch[p]
                          /\ p # s => loop'[p] = loop[p]
    BY <2>1, <1>1, <1>3 DEF PathTypes
  <2>4. loop'[s].pc = "ended"
    BY <2>1, <1>3 DEF PathTypes
  <2>5. PathAt(s)'
    BY <2>1, <2>3, <2>4, <1>1, <1>2, <1>6, <1>7 DEF PathAt
  <2>6. PathInv'
    BY <2>1, <2>2, <2>3, <2>5, <1>1, <1>2, PathOfOne
  <2> QED
    BY <2>1, <2>6
<1>8. CASE i > lastIncludeIndex[s]
  <2>1. PICK pc \in {"snapshot", "notify"} : loop' = [loop EXCEPT ![s] = [pc |-> pc, index |-> i]]
    BY <1>1, <1>3, <1>5, <1>8
  <2>2. upTo' = [upTo EXCEPT ![s] = i] /\ i = upTo[s] + 1 /\ upTo[s] + 1 <= Known(s)
    BY <1>1, <1>3, <1>5, <1>6, <1>8
  <2>3. PathTypes'
    BY <2>1, <2>2, <1>1, <1>3, <1>5 DEF PathTypes
  <2>4. \A p \in Server : /\ batch'[p] = IF p = s THEN Tail(q) ELSE batch[p]
                          /\ upTo'[p] = IF p = s THEN upTo[s] + 1 ELSE upTo[p]
                          /\ p # s => loop'[p] = loop[p]
    BY <2>1, <2>2, <1>1, <1>3 DEF PathTypes
  <2>5. loop'[s].index = i
    BY <2>1, <1>3 DEF PathTypes
  <2>6. PathAt(s)'
    BY <2>2, <2>4, <2>5, <1>1, <1>2, <1>3, <1>6, <1>8 DEF PathAt
  <2>7. PathInv'
    BY <2>3, <2>4, <2>6, <1>1, <1>2, PathOfOne
  <2> QED
    BY <2>2, <2>7, <1>8 DEF i, q
<1> QED
  BY <1>3, <1>5, <1>7, <1>8
(* Snapshot: the base catches up with the store. *)
LEMMA PathSnapshot ==
    ASSUME LogInv, PathInv, NEW s \in Server, Snapshot(s)
    PROVE  /\ PathInv' /\ LogInv'
           /\ install[s] = 0 /\ base' = [base EXCEPT ![s] = upTo[s]]
<1>1. /\ loop[s].pc = "snapshot" /\ install[s] = 0
      /\ base' = [base EXCEPT ![s] = IF @ >= loop[s].index THEN @ ELSE loop[s].index]
      /\ loop' = [loop EXCEPT ![s].pc = "notify"]
      /\ UNCHANGED raftVars
      /\ UNCHANGED <<install, upTo, lastIncludeIndex, batch>>
  BY DEF Snapshot, SnapshotIndex, Unlocked, storeVars
<1>2. RaftTypes /\ PathTypes /\ PathAt(s)
  BY DEF LogInv, PathInv
<1>3. /\ base[s] \in Nat /\ upTo[s] \in Nat /\ Known(s) \in Nat /\ commitIndex[s] \in Nat
      /\ lastApplied[s] \in Nat /\ lastIncludeIndex[s] \in Nat
  BY <1>2, TypeFacts, PathFacts DEF RaftTypes
<1>4. /\ loop[s].index = upTo[s] /\ upTo[s] >= 1 /\ base[s] <= upTo[s] /\ upTo[s] <= Known(s)
      /\ Position(Known(s), base[s], 0, upTo[s], lastApplied[s], lastIncludeIndex[s], batch[s])
  BY <1>1, <1>2, <1>3 DEF PathAt, Position
<1>5. base' = [base EXCEPT ![s] = upTo[s]]
  <2>1. (IF base[s] >= loop[s].index THEN base[s] ELSE loop[s].index) = upTo[s]
    BY <1>3, <1>4
  <2> QED
    BY <2>1, <1>1
<1>6. RaftTypes'
  BY <1>1, <1>2, <1>3, <1>5 DEF RaftTypes, raftVars
<1>7. \A q \in Server : base'[q] = IF q = s THEN upTo[s] ELSE base[q]
  BY <1>2, <1>5 DEF RaftTypes
<1>8. \A q \in Server : Known(q)' = Known(q)
  BY <1>1, <1>3, <1>4, <1>7 DEF Known, raftVars
<1>9. LogInv'
  BY <1>1, <1>6, <1>8, LogServed DEF raftVars
<1>10. PathTypes'
  BY <1>1, <1>2 DEF PathTypes
<1>11. Position(Known(s), upTo[s], 0, upTo[s], lastApplied[s], lastIncludeIndex[s], batch[s])
  BY <1>3, <1>4 DEF Position
<1>12. loop'[s].index = upTo[s] /\ \A q \in Server : q # s => loop'[q] = loop[q]
  BY <1>1, <1>2, <1>4 DEF PathTypes
<1>13. PathAt(s)'
  BY <1>1, <1>4, <1>7, <1>8, <1>11, <1>12 DEF PathAt, raftVars
<1>14. PathInv'
  BY <1>1, <1>7, <1>8, <1>10, <1>12, <1>13, PathOfOne DEF raftVars
<1> QED
  BY <1>1, <1>5, <1>9, <1>14

(* Notify only moves the loop on. *)
LEMMA PathNotify ==
    ASSUME LogInv, PathInv, NEW s \in Server, Notify(s) PROVE PathInv'
<1>1. /\ loop' = [loop EXCEPT ![s] = [pc |-> "receive", index |-> 0]]
      /\ UNCHANGED raftVars
      /\ UNCHANGED <<base, install, upTo, lastIncludeIndex, batch>>
  BY DEF Notify, Running, storeVars, diskVars
<1>2. PathTypes /\ PathAt(s)
  BY DEF PathInv
<1>3. PathTypes'
  BY <1>1, <1>2 DEF PathTypes
<1>4. \A q \in Server : Known(q)' = Known(q)
  BY <1>1 DEF Known, raftVars
<1>5. loop'[s].pc = "receive" /\ \A q \in Server : q # s => loop'[q] = loop[q]
  BY <1>1, <1>2 DEF PathTypes
<1>6. PathAt(s)'
  BY <1>1, <1>2, <1>4, <1>5 DEF PathAt, raftVars
<1> QED
  BY <1>1, <1>3, <1>4, <1>5, <1>6, PathOfOne DEF raftVars

(* applySnapshot: the store is where the snapshot is. *)
LEMMA PathCatchUp ==
    ASSUME LogInv, PathInv, NEW s \in Server, applySnapshot(s)
    PROVE  PathInv' /\ upTo[s] <= base[s] /\ upTo' = [upTo EXCEPT ![s] = base[s]]
<1> DEFINE i == install[s]
<1>1. /\ loop[s].pc = "receive" /\ i # 0
      /\ lastIncludeIndex' = [lastIncludeIndex EXCEPT ![s] = i]
      /\ upTo' = [upTo EXCEPT ![s] = i]
      /\ install' = [install EXCEPT ![s] = 0]
      /\ UNCHANGED raftVars
      /\ UNCHANGED <<base, batch, loop>>
  BY DEF applySnapshot, Unlocked, diskVars
<1>2. RaftTypes /\ PathTypes /\ PathAt(s)
  BY DEF LogInv, PathInv
<1>3. /\ base[s] \in Nat /\ upTo[s] \in Nat /\ Known(s) \in Nat /\ i \in Nat
      /\ lastApplied[s] \in Nat /\ lastIncludeIndex[s] \in Nat /\ batch[s] \in Seq(Nat)
  BY <1>2, TypeFacts, PathFacts DEF RaftTypes
<1>4. Position(Known(s), base[s], i, upTo[s], lastApplied[s], lastIncludeIndex[s], batch[s])
  BY <1>2 DEF PathAt
<1> HIDE DEF i
<1>5. upTo[s] <= i /\ i = base[s]
  BY <1>1, <1>4 DEF Position
<1>6. Position(Known(s), base[s], 0, i, lastApplied[s], i, batch[s])
  BY <1>1, <1>3, <1>4, PositionCaughtUp
<1>7. PathTypes'
  BY <1>1, <1>2, <1>3 DEF PathTypes
<1>8. \A q \in Server : /\ Known(q)' = Known(q)
                        /\ lastIncludeIndex'[q] = IF q = s THEN i ELSE lastIncludeIndex[q]
                        /\ upTo'[q] = IF q = s THEN i ELSE upTo[q]
                        /\ install'[q] = IF q = s THEN 0 ELSE install[q]
  BY <1>1, <1>2 DEF Known, raftVars, PathTypes
<1>9. PathAt(s)'
  BY <1>1, <1>6, <1>8 DEF PathAt, raftVars
<1>10. PathInv'
  BY <1>1, <1>7, <1>8, <1>9, PathOfOne DEF raftVars
<1> QED
  BY <1>1, <1>5, <1>10

(* InstallSnapshotHandler: the store is left behind. *)
LEMMA PathInstall ==
    ASSUME LogInv, PathInv, NEW l \in Server, NEW s \in Server, InstallSnapshot(l, s)
    PROVE  PathInv'
<1> DEFINE i == base[l]
<1>1. /\ install[s] = 0 /\ i > commitIndex[s] /\ i >= base[s]
      /\ commitIndex' = [commitIndex EXCEPT ![s] = i]
      /\ lastApplied' = [lastApplied EXCEPT ![s] = i]
      /\ base' = [base EXCEPT ![s] = i]
      /\ install' = [install EXCEPT ![s] = i]
      /\ UNCHANGED <<upTo, lastIncludeIndex, batch, loop>>
  BY DEF InstallSnapshot, Newer, Unlocked, storeVars
<1>2. RaftTypes /\ PathTypes /\ PathAt(s)
  BY DEF LogInv, PathInv
<1>3. /\ base[s] \in Nat /\ upTo[s] \in Nat /\ Known(s) \in Nat /\ i \in Nat /\ i # 0 /\ Known(s) <= i
      /\ lastApplied[s] \in Nat /\ lastIncludeIndex[s] \in Nat /\ batch[s] \in Seq(Nat)
  BY <1>1, <1>2, TypeFacts, PathFacts DEF RaftTypes, Known
<1>4. Position(Known(s), base[s], 0, upTo[s], lastApplied[s], lastIncludeIndex[s], batch[s])
  BY <1>1, <1>2 DEF PathAt
<1> HIDE DEF i
<1>5. Position(i, i, i, upTo[s], i, lastIncludeIndex[s], batch[s])
  BY <1>3, <1>4, PositionInstalled
<1>6. PathTypes'
  BY <1>1, <1>2, <1>3 DEF PathTypes
<1>7. \A q \in Server : /\ base'[q] = IF q = s THEN i ELSE base[q]
                        /\ commitIndex'[q] = IF q = s THEN i ELSE commitIndex[q]
                        /\ lastApplied'[q] = IF q = s THEN i ELSE lastApplied[q]
                        /\ install'[q] = IF q = s THEN i ELSE install[q]
  BY <1>1, <1>2 DEF RaftTypes, PathTypes
<1>8. \A q \in Server : Known(q)' = IF q = s THEN i ELSE Known(q)
  BY <1>3, <1>7 DEF Known
<1>9. PathAt(s)'
  BY <1>1, <1>2, <1>5, <1>7, <1>8 DEF PathAt
<1> QED
  BY <1>1, <1>6, <1>7, <1>8, <1>9, PathOfOne

(* Restart: everything is where the snapshot on disk is. *)
LEMMA PathRestart ==
    ASSUME LogInv, PathInv, NEW s \in Server, StartedAgain(s) PROVE PathInv'
<1>1. /\ commitIndex' = [commitIndex EXCEPT ![s] = 0]
      /\ lastApplied' = [lastApplied EXCEPT ![s] = base[s]]
      /\ batch' = [batch EXCEPT ![s] = <<>>] /\ install' = [install EXCEPT ![s] = 0]
      /\ lastIncludeIndex' = [lastIncludeIndex EXCEPT ![s] = 0]
      /\ upTo' = [upTo EXCEPT ![s] = base[s]]
      /\ loop' = [loop EXCEPT ![s] = [pc |-> "receive", index |-> 0]]
      /\ base' = base
  BY DEF StartedAgain, Running, diskVars
<1>2. RaftTypes /\ PathTypes /\ base[s] \in Nat
  BY DEF LogInv, PathInv, RaftTypes
<1>3. PathTypes'
  BY <1>1, <1>2 DEF PathTypes
<1>4. /\ loop'[s].pc = "receive"
      /\ \A q \in Server : /\ commitIndex'[q] = IF q = s THEN 0 ELSE commitIndex[q]
                           /\ lastApplied'[q] = IF q = s THEN base[s] ELSE lastApplied[q]
                           /\ batch'[q] = IF q = s THEN <<>> ELSE batch[q]
                           /\ install'[q] = IF q = s THEN 0 ELSE install[q]
                           /\ lastIncludeIndex'[q] = IF q = s THEN 0 ELSE lastIncludeIndex[q]
                           /\ upTo'[q] = IF q = s THEN base[s] ELSE upTo[q]
                           /\ q # s => loop'[q] = loop[q]
  BY <1>1, <1>2 DEF RaftTypes, PathTypes
<1>5. \A q \in Server : Known(q)' = IF q = s THEN base[s] ELSE Known(q)
  BY <1>1, <1>2, <1>4 DEF Known
<1>6. PathAt(s)'
  BY <1>1, <1>2, <1>4, <1>5, PositionRestarted DEF PathAt
<1> QED
  BY <1>1, <1>3, <1>4, <1>5, <1>6, PathOfOne
-----------------------------------------------------------------------------
(* What a step does to the entries. *)

Extends(p, q) == Len(p) <= Len(q) /\ \A i \in 1 .. Len(p) : q[i] = p[i]

SomewhereInLogs(e) == \E q \in Server : \E j \in DOMAIN log[q] : log[q][j] = e

(* Raft only copies and drops entries, and commits at the end. *)
Grow ==
    /\ Extends(committed, committed')
    /\ \A k \in DOMAIN committed' : k \in DOMAIN committed \/ SomewhereInLogs(committed'[k])

Flow == Grow /\ \A s \in Server : \A i \in DOMAIN log'[s] : SomewhereInLogs(log'[s][i])

(* Nothing happens to the logs. *)
LEMMA FlowUnchanged == ASSUME LogInv, UNCHANGED <<log, committed>> PROVE Flow
<1>1. Len(committed) \in Nat /\ committed' = committed /\ log' = log
  BY TypeFacts DEF LogInv
<1> QED
  BY <1>1 DEF Flow, Grow, Extends, SomewhereInLogs

(* Replicate. *)
LEMMA FlowReplicate ==
    ASSUME LogInv, NEW l \in Server, NEW s \in Server, Replicate(l, s) PROVE Flow
<1>1. /\ log' = [log EXCEPT ![s] = IF IsPrefix(log[l], @) THEN @ ELSE log[l]]
      /\ committed' = committed
  BY DEF Replicate
<1>2. RaftTypes /\ Len(committed) \in Nat
  BY TypeFacts DEF LogInv
<1>3. \A q \in Server : log'[q] = log[q] \/ log'[q] = log[l]
  BY <1>1, <1>2 DEF RaftTypes
<1>4. \A q \in Server : \A i \in DOMAIN log'[q] : SomewhereInLogs(log'[q][i])
  BY <1>3 DEF SomewhereInLogs
<1> QED
  BY <1>1, <1>2, <1>4 DEF Flow, Grow, Extends

(* Commit. *)
LEMMA FlowCommit == ASSUME LogInv, NEW l \in Server, Commit(l) PROVE Flow
<1>1. PICK n \in commitIndex[l] + 1 .. Len(log[l]) :
        /\ log[l][n].term = currentTerm[l]
        /\ committed' = SubSeq(log[l], 1, n)
  BY DEF Commit
<1>2. RaftTypes /\ Newest(l) /\ log' = log
  BY DEF LogInv, Commit, Newest
<1>3. n \in Nat /\ commitIndex[l] < n /\ n <= Len(log[l]) /\ log[l] \in Seq(Entry)
  BY <1>2, TypeFacts DEF RaftTypes
<1>4. /\ Len(committed') = n /\ DOMAIN committed' = 1 .. n
      /\ \A i \in 1 .. n : committed'[i] = log[l][i] /\ i \in DOMAIN log[l]
  BY <1>1, <1>3
<1>5. \A i \in 1 .. Len(committed) : i <= Len(log[l]) /\ log[l][i] = committed[i]
  BY <1>2, TypeFacts DEF LogInv, NewestHolds
<1>6. Len(committed) < n
  <2> SUFFICES ASSUME n <= Len(committed) PROVE FALSE
    BY <1>2, <1>3, TypeFacts
  <2>1. n \in DOMAIN committed
    BY <1>2, <1>3, TypeFacts
  <2>2. log[l][n] = committed[n] /\ (committed[n].term = currentTerm[l] => n <= commitIndex[l])
    BY <2>1, <1>2 DEF LogInv, NewestHolds
  <2> QED
    BY <2>2, <1>1, <1>2, <1>3, TypeFacts
<1>7. Extends(committed, committed')
  BY <1>2, <1>3, <1>4, <1>5, <1>6, TypeFacts DEF Extends
<1>8. \A k \in DOMAIN committed' : SomewhereInLogs(committed'[k])
  BY <1>4 DEF SomewhereInLogs
<1> QED
  BY <1>2, <1>7, <1>8 DEF Flow, Grow, SomewhereInLogs

(* InstallSnapshotHandler. *)
LEMMA FlowInstall ==
    ASSUME LogInv, NEW l \in Server, NEW s \in Server, InstallSnapshot(l, s) PROVE Flow
<1>1. /\ log' = [log EXCEPT ![s] = Splice(log[l], log[s], base[l])]
      /\ committed' = committed
  BY DEF InstallSnapshot, Splice
<1>2. RaftTypes /\ Len(committed) \in Nat
  BY TypeFacts DEF LogInv
<1>3. /\ base[l] \in Nat /\ base[l] <= Len(log[l])
      /\ log[l] \in Seq(Entry) /\ log[s] \in Seq(Entry)
  <2>1. base[l] \in Nat /\ base[l] <= Known(l) /\ Known(l) \in Nat /\ Len(log[l]) \in Nat
    BY <1>2, TypeFacts
  <2>2. Known(l) <= Len(log[l])
    BY <2>1 DEF LogInv, KnownAgree
  <2> QED
    BY <2>1, <2>2, <1>2 DEF RaftTypes
<1> DEFINE q == Splice(log[l], log[s], base[l])
<1>4. \A k \in 1 .. base[l] : q[k] = log[l][k]
  BY <1>3, Spliced
<1>5. \A k \in DOMAIN q : k \in 1 .. base[l] \/ (k \in DOMAIN log[s] /\ q[k] = log[s][k])
  BY <1>3, Spliced
<1>6. log'[s] = q /\ \A p \in Server : p # s => log'[p] = log[p]
  BY <1>1, <1>2 DEF RaftTypes
<1> HIDE DEF q
<1>7. \A k \in 1 .. base[l] : k \in DOMAIN log[l]
  BY <1>3
<1>8. \A k \in DOMAIN q : SomewhereInLogs(q[k])
  BY <1>4, <1>5, <1>7 DEF SomewhereInLogs
<1>9. \A p \in Server : \A k \in DOMAIN log'[p] : SomewhereInLogs(log'[p][k])
  BY <1>6, <1>8 DEF SomewhereInLogs
<1> QED
  BY <1>1, <1>2, <1>9 DEF Flow, Grow, Extends

(* Restart. *)
LEMMA FlowRestart == ASSUME LogInv, NEW s \in Server, StartedAgain(s) PROVE Flow
<1>1. PICK n \in commitIndex[s] .. Len(log[s]) : log' = [log EXCEPT ![s] = SubSeq(@, 1, n)]
  BY DEF StartedAgain
<1>2. RaftTypes /\ Len(committed) \in Nat /\ committed' = committed
  BY TypeFacts DEF LogInv, StartedAgain
<1>3. n \in Nat /\ n <= Len(log[s]) /\ log[s] \in Seq(Entry)
  BY <1>2, TypeFacts DEF RaftTypes
<1>4. \A k \in DOMAIN SubSeq(log[s], 1, n) : k \in DOMAIN log[s] /\ SubSeq(log[s], 1, n)[k] = log[s][k]
  BY <1>3
<1>5. log'[s] = SubSeq(log[s], 1, n) /\ \A p \in Server : p # s => log'[p] = log[p]
  BY <1>1, <1>2 DEF RaftTypes
<1>6. \A p \in Server : \A k \in DOMAIN log'[p] : SomewhereInLogs(log'[p][k])
  BY <1>4, <1>5 DEF SomewhereInLogs
<1> QED
  BY <1>2, <1>6 DEF Flow, Grow, Extends

(* An entry among the first n stays there. *)
LEMMA WithinKept ==
    ASSUME NEW p \in Seq(Entry), NEW q \in Seq(Entry), Extends(p, q),
           NEW n \in Int, NEW m \in Int, n <= m, NEW req, Within(p, n, req)
    PROVE  Within(q, m, req)
<1>1. PICK j \in DOMAIN p : j <= n /\ p[j].cmd = req
  BY DEF Within
<1>2. j \in 1 .. Len(p) /\ Len(p) \in Nat /\ Len(q) \in Nat /\ Len(p) <= Len(q)
  BY DEF Extends
<1>3. q[j] = p[j] /\ j \in DOMAIN q /\ j <= m
  BY <1>1, <1>2 DEF Extends
<1> QED
  BY <1>1, <1>3 DEF Within

(* It is held by every number of entries that includes it all. *)
LEMMA HeldWithin ==
    ASSUME NEW p \in Seq(Entry), NEW q \in Seq(Entry), Extends(p, q), NEW req, Held(p, req),
           NEW m \in Int, Len(p) <= m
    PROVE  Within(q, m, req)
<1>1. Within(p, Len(p), req) /\ Len(p) \in Int
  BY DEF Within, Held
<1> QED
  BY <1>1, WithinKept

(* A request a sequence of entries holds stays in its extensions,          *)
LEMMA HeldKept ==
    ASSUME NEW p \in Seq(Entry), NEW q \in Seq(Entry), Extends(p, q), NEW req, Held(p, req)
    PROVE  Held(q, req)
<1>1. Within(q, Len(p), req)
  BY HeldWithin
<1> QED
  BY <1>1 DEF Within, Held

(* ... and so does what a waiting channel was sent.                        *)
LEMMA RealKept ==
    ASSUME NEW p \in Seq(Entry), NEW q \in Seq(Entry), Extends(p, q),
           NEW n \in Int, NEW m \in Int, n <= m, NEW ch, Real(p, n, ch)
    PROVE  Real(q, m, ch)
BY WithinKept DEF Real
-----------------------------------------------------------------------------
(* Clerks, when Raft or the service of a server moves. *)

(* A clerk's request is the one it was. *)
SameRequest(c) ==
    /\ clerk'[c].seq = clerk[c].seq /\ clerk'[c].floor = clerk[c].floor
    /\ clerk'[c].pc = "idle" <=> clerk[c].pc = "idle"

(* A clerk that is idle has done nothing. *)
IdleSame(c) == clerk'[c].pc = "idle" => SameRequest(c) /\ clerk'[c].got = clerk[c].got

(* Copies of what was asked for were asked for. *)
LEMMA MadeStays ==
    ASSUME LogInv, LogsMade, Flow, LogInv', \A c \in Clerk : SameRequest(c) PROVE LogsMade'
<1>1. \A e : SomewhereInLogs(e) => Made(clerk, e.cmd)
  BY DEF LogsMade, SomewhereInLogs
<1>2. \A k \in DOMAIN committed : committed'[k] = committed[k]
  <2>1. DOMAIN committed = 1 .. Len(committed)
    BY TypeFacts DEF LogInv
  <2> QED
    BY <2>1 DEF Flow, Grow, Extends
<1>3. \A k \in DOMAIN committed' : Made(clerk, committed'[k].cmd)
  BY <1>1, <1>2 DEF Flow, Grow, LogsMade
<1>4. \A s \in Server : \A i \in DOMAIN log'[s] : Made(clerk, log'[s][i].cmd)
  BY <1>1 DEF Flow
<1>5. /\ \A k \in DOMAIN committed' : committed'[k].cmd[1] \in Clerk
      /\ \A s \in Server : \A i \in DOMAIN log'[s] : log'[s][i].cmd[1] \in Clerk
  <2>1. \A e \in Entry : e.cmd[1] \in Clerk
    BY DEF Entry, Req
  <2>2. \A q \in Seq(Entry) : \A k \in DOMAIN q : q[k] \in Entry
    OBVIOUS
  <2>3. committed' \in Seq(Entry) /\ \A s \in Server : log'[s] \in Seq(Entry)
    BY DEF LogInv, RaftTypes
  <2> QED
    BY <2>1, <2>2, <2>3
<1>6. \A req : req[1] \in Clerk /\ Made(clerk, req) => Made(clerk', req)
  BY DEF Made, SameRequest
<1> QED
  BY <1>3, <1>4, <1>5, <1>6 DEF LogsMade

(* An entry that is committed now is committed behind all that was         *)
(* committed before.                                                       *)
LEMMA NewBehind ==
    ASSUME LogInv, LogInv', Grow, NEW k \in DOMAIN committed', k \notin DOMAIN committed
    PROVE  k - 1 \in Int /\ Len(committed) <= k - 1 /\ SomewhereInLogs(committed'[k])
<1>1. /\ Len(committed) \in Nat /\ DOMAIN committed = 1 .. Len(committed)
      /\ Len(committed)' \in Nat /\ DOMAIN committed' = 1 .. Len(committed')
  BY DEF LogInv, RaftTypes
<1>2. k \in Nat /\ k >= 1
  BY <1>1
<1> QED
  BY <1>1, <1>2 DEF Grow

(* Raft and the services keep what the clerks count on. *)
LEMMA AskedKept ==
    ASSUME LogInv, LogInv', Grow, LogsMade', ClerkTypes, AskedInv, acked' = acked,
           \A c \in Clerk : SameRequest(c)
    PROVE  AskedInv'
<1>1. /\ committed \in Seq(Entry) /\ committed' \in Seq(Entry)
      /\ Extends(committed, committed') /\ Len(committed) \in Nat
      /\ DOMAIN committed = 1 .. Len(committed)
      /\ \A k \in DOMAIN committed : committed'[k] = committed[k]
  <2>1. committed \in Seq(Entry) /\ committed' \in Seq(Entry)
    BY DEF LogInv, RaftTypes
  <2>2. Len(committed) \in Nat /\ DOMAIN committed = 1 .. Len(committed)
    BY <2>1
  <2> QED
    BY <2>1, <2>2 DEF Grow, Extends
<1>2. AckedWrites'
  BY DEF AskedInv, AckedWrites
<1>3. ReturnedHeld'
  BY <1>1, HeldKept DEF AskedInv, ReturnedHeld, SameRequest
<1>4. AckedKept'
  <2>1. \A req \in acked : Held(committed, req)
    BY DEF AskedInv, AckedKept, Held
  <2>2. \A req \in acked : Held(committed', req)
    BY <2>1, <1>1, HeldKept
  <2> QED
    BY <2>2 DEF AckedKept, Held
<1>5. \A e \in Entry : e.cmd[1] \in Clerk /\ e.cmd[2] \in Nat
  BY DEF Entry, Req
<1>6. ASSUME NEW k \in DOMAIN committed', k \notin DOMAIN committed
      PROVE  /\ k - 1 \in Int /\ Len(committed) <= k - 1
             /\ Made(clerk, committed'[k].cmd) /\ committed'[k] \in Entry
  <2>1. SomewhereInLogs(committed'[k]) /\ k - 1 \in Int /\ Len(committed) <= k - 1
    BY <1>6, NewBehind
  <2> QED
    BY <1>1, <2>1 DEF AskedInv, LogsMade, SomewhereInLogs
<1>7. InOrder'
  <2> SUFFICES ASSUME NEW k \in DOMAIN committed', NEW n \in 1 .. committed'[k].cmd[2] - 1
               PROVE  Within(committed', k - 1, <<committed'[k].cmd[1], n>>)
    BY DEF InOrder
  <2>1. CASE k \in DOMAIN committed
    <3>1. committed'[k] = committed[k] /\ k - 1 \in Int
      BY <2>1, <1>1
    <3>2. Within(committed, k - 1, <<committed'[k].cmd[1], n>>)
      BY <2>1, <3>1 DEF AskedInv, InOrder
    <3> QED
      BY <3>1, <3>2, <1>1, WithinKept
  <2>2. CASE k \notin DOMAIN committed
    <3> DEFINE c == committed'[k].cmd[1]
               m == committed'[k].cmd[2]
    <3>1. Made(clerk, committed'[k].cmd) /\ c \in Clerk /\ m \in Nat
      BY <2>2, <1>5, <1>6
    <3>2. n \in 1 .. m - 1
      OBVIOUS
    <3>3. clerk[c].seq \in Nat /\ m <= clerk[c].seq
      BY <3>1 DEF Made, ClerkTypes, ClerkRecord
    <3> HIDE DEF c, m
    <3>4. n \in 1 .. clerk[c].seq - 1
      BY <3>1, <3>2, <3>3
    <3>5. Held(committed, <<c, n>>)
      BY <3>1, <3>4 DEF AskedInv, ReturnedHeld
    <3>6. Within(committed', k - 1, <<c, n>>)
      BY <2>2, <3>5, <1>1, <1>6, HeldWithin
    <3> QED
      BY <3>6 DEF c
  <2> QED
    BY <2>1, <2>2
<1>8. FloorsBehind'
  <2>1. ASSUME NEW c \in Clerk, clerk[c].pc # "idle", NEW k \in DOMAIN committed',
               committed'[k].cmd = Request(c), NEW req \in clerk[c].floor
        PROVE  Within(committed', k - 1, req)
    <3>1. CASE k \in DOMAIN committed
      <4>1. committed'[k] = committed[k] /\ k - 1 \in Int
        BY <3>1, <1>1
      <4>2. Within(committed, k - 1, req)
        BY <2>1, <3>1, <4>1 DEF AskedInv, FloorsBehind
      <4> QED
        BY <4>1, <4>2, <1>1, WithinKept
    <3>2. CASE k \notin DOMAIN committed
      <4>1. Held(committed, req)
        BY DEF AskedInv, FloorsBehind, AckedKept, Held
      <4> QED
        BY <3>2, <4>1, <1>1, <1>6, HeldWithin
    <3> QED
      BY <3>1, <3>2
  <2> QED
    BY <2>1 DEF AskedInv, FloorsBehind, Request, SameRequest
<1> QED
  BY <1>2, <1>3, <1>4, <1>7, <1>8 DEF AskedInv
(* Channels, when nobody deletes one: entries stay, and stores move on.    *)
LEMMA ChannelsKept ==
    ASSUME LogInv, LogInv', Grow, ClerkTypes, ChannelsReal, UNCHANGED <<clerk, waitChMap>>,
           \A q \in Server : upTo[q] \in Int /\ upTo'[q] \in Int /\ upTo[q] <= upTo'[q]
    PROVE  ChannelsReal'
<1>1. committed \in Seq(Entry) /\ committed' \in Seq(Entry) /\ Extends(committed, committed')
  BY DEF LogInv, RaftTypes, Grow
<1>2. \A q \in Server : \A ch : Real(committed, upTo[q], ch) => Real(committed', upTo'[q], ch)
  BY <1>1, RealKept
<1>3. \A c \in Clerk : clerk[c].srv \in Server
  BY DEF ClerkTypes, ClerkRecord
<1>4. \A c \in Clerk : Channel(c)' = Channel(c)
  BY DEF Channel
<1> QED
  BY <1>2, <1>3, <1>4 DEF ChannelsReal

(* What a server does, clerks apart. *)
LEMMA ClerksServed ==
    ASSUME LogInv, LogInv', Flow, ClerkInv, UNCHANGED <<clerk, acked, waitChMap>>,
           \A q \in Server : upTo[q] \in Int /\ upTo'[q] \in Int /\ upTo[q] <= upTo'[q]
    PROVE  ClerkInv'
<1>1. /\ ClerkTypes' /\ Grow /\ ClerkTypes /\ AskedInv /\ LogsMade /\ ChannelsReal
      /\ acked' = acked
      /\ \A c \in Clerk : SameRequest(c)
  BY DEF ClerkInv, ClerkTypes, Flow, AskedInv, SameRequest
<1>2. LogsMade'
  BY <1>1, MadeStays
<1>3. AskedInv'
  BY <1>1, <1>2, AskedKept
<1>4. ChannelsReal'
  BY <1>1, ChannelsKept
<1> QED
  BY <1>1, <1>3, <1>4 DEF ClerkInv

(* A channel in the map gets a new content. *)
LEMMA ChannelSet ==
    ASSUME ChannelsReal, NEW s \in Server, NEW i, NEW v,
           waitChMap' = [waitChMap EXCEPT ![s][i] = v]
    PROVE  /\ waitChMap' = [q \in Server |-> [j \in Index |-> waitChMap'[q][j]]]
           /\ \A q \in Server, j \in Index :
                waitChMap'[q][j] = IF q = s /\ j = i THEN v ELSE waitChMap[q][j]
<1>1. waitChMap = [q \in Server |-> [j \in Index |-> waitChMap[q][j]]]
  BY DEF ChannelsReal
<1>2. \A q \in Server, j \in Index :
        waitChMap'[q][j] = IF q = s /\ j = i THEN v ELSE waitChMap[q][j]
  BY <1>1
<1>3. waitChMap' = [q \in Server |-> [j \in Index |-> waitChMap'[q][j]]]
  BY <1>1
<1> QED
  BY <1>2, <1>3

(* kv.getWaitCh(index) <- op: the loop sends the entry it has executed.    *)
LEMMA ClerksNotified ==
    ASSUME LogInv, PathInv, ClerkInv, NEW s \in Server, Notify(s) PROVE ClerkInv'
<1> DEFINE i == loop[s].index
           v == <<log[s][i].cmd>>
<1>1. /\ loop[s].pc = "notify"
      /\ waitChMap' = [waitChMap EXCEPT ![s][i] = v]
      /\ UNCHANGED <<log, committed, base, upTo, clerk, acked>>
  BY DEF Notify, raftVars, diskVars, storeVars
<1>2. /\ i = upTo[s] /\ upTo[s] >= 1 /\ upTo[s] <= Known(s)
      /\ upTo[s] \in Nat /\ Known(s) \in Nat
  BY <1>1, TypeFacts, PathFacts DEF PathInv, PathAt, Position, LogInv
<1>3. i \in 1 .. Known(s)
  BY <1>2
<1>4. i <= Len(committed) /\ log[s][i] = committed[i] /\ Len(committed) \in Nat
  BY <1>3, TypeFacts DEF LogInv, KnownAgree
<1>5. i \in DOMAIN committed /\ committed[i] \in Entry
  BY <1>2, <1>4, TypeFacts DEF LogInv, RaftTypes
<1>6. log[s][i].cmd \in Req
  BY <1>4, <1>5 DEF Entry
<1>7. Within(committed, upTo[s], log[s][i].cmd)
  BY <1>2, <1>4, <1>5 DEF Within
<1>8. v \in Seq(Req) /\ Len(v) = 1 /\ v[1] = log[s][i].cmd
  BY <1>6
<1>9. Real(committed, upTo[s], v)
  BY <1>7, <1>8 DEF Real
<1> HIDE DEF v, i
<1>10. /\ ClerkTypes' /\ LogsMade' /\ ReturnedHeld' /\ InOrder' /\ AckedWrites' /\ AckedKept'
       /\ FloorsBehind'
  BY <1>1 DEF ClerkInv, AskedInv, ClerkTypes, LogsMade, ReturnedHeld, InOrder, AckedWrites, AckedKept,
              FloorsBehind, Request
<1>11. /\ waitChMap' = [q \in Server |-> [j \in Index |-> waitChMap'[q][j]]]
       /\ \A q \in Server, j \in Index :
            waitChMap'[q][j] = IF q = s /\ j = i THEN v ELSE waitChMap[q][j]
  <2>1. waitChMap' = [waitChMap EXCEPT ![s][i] = v] /\ ChannelsReal
    BY <1>1 DEF ClerkInv
  <2>2. \A j, w : waitChMap' = [waitChMap EXCEPT ![s][j] = w] =>
            /\ waitChMap' = [q \in Server |-> [h \in Index |-> waitChMap'[q][h]]]
            /\ \A q \in Server, h \in Index :
                    waitChMap'[q][h] = IF q = s /\ h = j THEN w ELSE waitChMap[q][h]
    BY <2>1, ChannelSet, Zenon
  <2> QED
    BY <2>1, <2>2, ZenonT(120)
<1>12. \A q \in Server, j \in Index :
            waitChMap'[q][j] = NoChan \/ Real(committed, upTo[q], waitChMap'[q][j])
  BY <1>9, <1>11 DEF ClerkInv, ChannelsReal
<1>13. ASSUME NEW c \in Clerk, clerk[c].pc = "wait"
       PROVE  Real(committed, upTo[clerk[c].srv], Channel(c)')
  <2>1. clerk[c].srv \in Server /\ clerk[c].index \in Index
    BY <1>13 DEF ClerkInv, ClerkTypes, ClerkRecord, ChannelsReal
  <2>2. Real(committed, upTo[clerk[c].srv], Channel(c))
    BY <1>13 DEF ClerkInv, ChannelsReal
  <2>3. CASE clerk[c].alone
    BY <2>2, <2>3, <1>1 DEF Channel
  <2>4. CASE ~clerk[c].alone
    <3>1. Channel(c)' = waitChMap'[clerk[c].srv][clerk[c].index]
      BY <2>4, <1>1 DEF Channel
    <3>2. Channel(c) = waitChMap[clerk[c].srv][clerk[c].index]
      BY <2>4 DEF Channel
    <3> QED
      BY <2>1, <2>2, <3>1, <3>2, <1>9, <1>11
  <2> QED
    BY <2>3, <2>4
<1>14. ChannelsReal'
  BY <1>1, <1>11, <1>12, <1>13 DEF ClerkInv, ChannelsReal
<1> QED
  BY <1>10, <1>14 DEF ClerkInv, AskedInv
-----------------------------------------------------------------------------
(* Clerks, when they move. *)

(* The clerk tries the next server with the request it has. *)
LEMMA NextTried ==
    ASSUME NEW r \in ClerkRecord
    PROVE  /\ AtNext(r) \in ClerkRecord /\ AtNext(r).pc = "call" /\ AtNext(r).seq = r.seq
           /\ AtNext(r).floor = r.floor /\ AtNext(r).got = r.got /\ ~AtNext(r).alone
<1>1. r.srv \in Server /\ NServers \in Nat \ {0}
  BY GroupSizeAssumption DEF ClerkRecord
<1>2. (r.srv % NServers) + 1 \in Server
  BY <1>1 DEF Server
<1>3. <<>> \in Seq(Req) /\ 0 \in Nat
  OBVIOUS
<1> QED
  BY <1>2, <1>3 DEF AtNext, ClerkRecord

(* A server that keeps the entries it has executed: requests as they were, *)
(* and nothing new in the logs.                                            *)
LEMMA AskedStays ==
    ASSUME LogInv, ClerkInv, UNCHANGED <<currentTerm, isLeader, log, commitIndex, lastApplied, base,
           committed, acked>>, \A c \in Clerk : SameRequest(c)
    PROVE  AskedInv'
<1>1. Flow /\ Grow
  BY FlowUnchanged DEF Flow
<1>2. LogInv'
  BY LogUnchanged DEF raftVars
<1>3. ClerkTypes /\ AskedInv /\ LogsMade
  BY DEF ClerkInv, AskedInv
<1>4. LogsMade'
  BY <1>1, <1>2, <1>3, MadeStays
<1> QED
  BY <1>1, <1>2, <1>3, <1>4, AskedKept

(* A handler returns and deletes the channel of its index: whoever else    *)
(* waits there goes on with the one he holds.                              *)
LEMMA ClerksLeft ==
    ASSUME ClerkTypes, ChannelsReal, NEW c \in Clerk, clerk[c].pc = "wait",
           NEW r \in ClerkRecord, r.pc \in {"idle", "call"}, ~r.alone,
           NEW left, Real(committed, upTo[clerk[c].srv], left), Leave(c, r, left)
    PROVE  /\ ClerkTypes' /\ ChannelsReal' /\ clerk'[c] = r
           /\ \A d \in Clerk \ {c} : /\ SameRequest(d) /\ clerk'[d].got = clerk[d].got
                                     /\ clerk'[d].pc = clerk[d].pc
<1> DEFINE s == clerk[c].srv
           i == clerk[c].index
           rest == IF clerk[c].alone THEN waitChMap[s][i] ELSE left
           Loses(d) == /\ d # c /\ clerk[d].pc = "wait" /\ ~clerk[d].alone
                       /\ clerk[d].srv = s /\ clerk[d].index = i
           New(d) == [clerk[d] EXCEPT !.alone = TRUE, !.own = rest]
<1>1. /\ clerk' = [[d \in Clerk |-> IF Loses(d) THEN New(d) ELSE clerk[d]] EXCEPT ![c] = r]
      /\ waitChMap' = [waitChMap EXCEPT ![s][i] = NoChan]
      /\ UNCHANGED <<committed, upTo>>
  BY DEF Leave, Deleted, raftVars, storeVars
<1>2. \A d \in Clerk : /\ clerk[d] \in ClerkRecord /\ clerk[d].srv \in Server
                       /\ clerk[d].own \in Seq(Req)
                       /\ clerk[d].alone \in BOOLEAN
  BY DEF ClerkTypes, ClerkRecord
<1>3. s \in Server /\ i \in Index
  BY <1>2 DEF ChannelsReal
<1>4. ASSUME NEW d \in Clerk, Loses(d)
      PROVE  Real(committed, upTo[s], rest) /\ rest \in Seq(Req)
  <2>1. Real(committed, upTo[s], Channel(d)) /\ Channel(d) = waitChMap[s][i]
    BY <1>4 DEF ChannelsReal, Channel
  <2>2. Real(committed, upTo[s], rest)
    BY <2>1
  <2> QED
    BY <2>2 DEF Real
<1> HIDE DEF rest
<1>5. \A d \in Clerk : Loses(d) =>
        /\ New(d) \in ClerkRecord /\ New(d).own = rest /\ New(d).alone \in BOOLEAN /\ New(d).alone
        /\ New(d).seq = clerk[d].seq /\ New(d).floor = clerk[d].floor /\ New(d).pc = clerk[d].pc
        /\ New(d).got = clerk[d].got /\ New(d).srv = clerk[d].srv /\ New(d).index = clerk[d].index
  <2> TAKE d \in Clerk
  <2> HAVE Loses(d)
  <2>1. rest \in Seq(Req)
    BY <1>4
  <2> QED
    BY <2>1, <1>2 DEF ClerkRecord
<1> HIDE DEF New
<1>6. \A d \in Clerk \ {c} : clerk'[d] = IF Loses(d) THEN New(d) ELSE clerk[d]
  BY <1>1
<1>7. clerk'[c] = r
  BY <1>1
<1>8. ClerkTypes'
  <2>1. clerk' = [d \in Clerk |-> clerk'[d]]
    BY <1>1
  <2>2. \A d \in Clerk : clerk'[d] \in ClerkRecord
    BY <1>2, <1>5, <1>6, <1>7
  <2> QED
    BY <2>1, <2>2 DEF ClerkTypes
<1>9. /\ waitChMap' = [q \in Server |-> [j \in Index |-> waitChMap'[q][j]]]
      /\ \A q \in Server, j \in Index :
            waitChMap'[q][j] = IF q = s /\ j = i THEN NoChan ELSE waitChMap[q][j]
  <2>1. waitChMap = [q \in Server |-> [j \in Index |-> waitChMap[q][j]]]
    BY DEF ChannelsReal
  <2> HIDE DEF s, i
  <2>2. \A q \in Server, j \in Index :
            waitChMap'[q][j] = IF q = s /\ j = i THEN NoChan ELSE waitChMap[q][j]
    BY <2>1, <1>1, <1>3
  <2>3. waitChMap' = [q \in Server |-> [j \in Index |-> waitChMap'[q][j]]]
    BY <2>1, <1>1, <1>3
  <2> QED
    BY <2>2, <2>3
<1>10. ASSUME NEW d \in Clerk \ {c}
       PROVE  /\ SameRequest(d) /\ clerk'[d].got = clerk[d].got /\ clerk'[d].pc = clerk[d].pc
              /\ clerk'[d].srv = clerk[d].srv /\ clerk'[d].index = clerk[d].index
  BY <1>5, <1>6 DEF SameRequest
<1>11. ASSUME NEW d \in Clerk \ {c}, clerk[d].pc = "wait"
       PROVE  Real(committed, upTo[clerk[d].srv], Channel(d)')
  <2>1. CASE Loses(d)
    <3>1. Channel(d)' = rest
      BY <2>1, <1>5, <1>6 DEF Channel
    <3> QED
      BY <2>1, <3>1, <1>4
  <2>2. CASE ~Loses(d) /\ clerk[d].alone
    <3>1. Channel(d)' = Channel(d)
      BY <2>2, <1>6 DEF Channel
    <3> QED
      BY <3>1, <1>11 DEF ChannelsReal
  <2>3. CASE ~Loses(d) /\ ~clerk[d].alone
    <3>1. clerk'[d] = clerk[d] /\ ~(clerk[d].srv = s /\ clerk[d].index = i)
      BY <2>3, <1>6, <1>11
    <3>2. clerk[d].srv \in Server /\ clerk[d].index \in Index
      BY <1>2, <1>11 DEF ChannelsReal
    <3>3. waitChMap'[clerk[d].srv][clerk[d].index] = waitChMap[clerk[d].srv][clerk[d].index]
      BY <3>1, <3>2, <1>9
    <3>4. Channel(d)' = Channel(d)
      BY <2>3, <3>1, <3>3 DEF Channel
    <3> QED
      BY <3>4, <1>11 DEF ChannelsReal
  <2> QED
    BY <2>1, <2>2, <2>3
<1>12. ChannelsReal'
  <2>1. \A q \in Server, j \in Index :
            waitChMap'[q][j] = NoChan \/ Real(committed, upTo[q], waitChMap'[q][j])
    BY <1>9 DEF ChannelsReal
  <2>2. \A d \in Clerk : /\ clerk'[d].pc \in {"started", "wait"} => clerk'[d].index \in Index
                         /\ clerk'[d].pc # "wait" => ~clerk'[d].alone
                         /\ clerk'[d].pc = "wait" => Real(committed, upTo[clerk'[d].srv], Channel(d)')
    <3>1. \A d \in Clerk \ {c} : clerk[d].pc # "wait" => clerk'[d] = clerk[d]
      BY <1>6
    <3> QED
      BY <3>1, <1>7, <1>10, <1>11 DEF ChannelsReal
  <2> QED
    BY <2>1, <2>2, <1>1, <1>9 DEF ChannelsReal
<1> QED
  BY <1>7, <1>8, <1>10, <1>12
(* One clerk's record changes and nothing else. *)
LEMMA OneClerk ==
    ASSUME ClerkTypes, ChannelsReal, NEW c \in Clerk, NEW r \in ClerkRecord,
           clerk' = [clerk EXCEPT ![c] = r], UNCHANGED <<committed, upTo, waitChMap>>,
           r.pc \in {"started", "wait"} => r.index \in Index,
           r.pc # "wait", ~r.alone
    PROVE  /\ ClerkTypes' /\ ChannelsReal' /\ clerk'[c] = r
           /\ \A d \in Clerk \ {c} : clerk'[d] = clerk[d] /\ SameRequest(d)
<1>1. ClerkTypes' /\ clerk'[c] = r /\ \A d \in Clerk \ {c} : clerk'[d] = clerk[d]
  BY DEF ClerkTypes
<1>2. \A d \in Clerk : clerk'[d].pc = "wait" => d # c /\ Channel(d)' = Channel(d)
  BY <1>1 DEF Channel
<1>3. ChannelsReal'
  BY <1>1, <1>2 DEF ChannelsReal
<1> QED
  BY <1>1, <1>3 DEF SameRequest

(* Invoke: no log has the request yet, and all that returned is committed. *)
LEMMA ClerksInvoke ==
    ASSUME LogInv, ClerkInv, NEW c \in Clerk, Invoke(c)
    PROVE  ClerkInv' /\ \A d \in Clerk : IdleSame(d)
<1> DEFINE r == [clerk[c] EXCEPT !.pc = "call", !.floor = acked]
<1>1. /\ clerk[c].pc = "idle" /\ clerk[c].seq <= Len(Script[c])
      /\ clerk' = [clerk EXCEPT ![c] = r]
      /\ UNCHANGED <<log, committed, upTo, waitChMap, acked>>
  BY DEF Invoke, raftVars, storeVars
<1>2. clerk[c] \in ClerkRecord /\ acked \in SUBSET Req
  BY DEF ClerkInv, ClerkTypes, AskedInv, AckedWrites
<1>3. /\ r \in ClerkRecord /\ r.pc = "call" /\ r.seq = clerk[c].seq /\ r.floor = acked
      /\ ~r.alone
  BY <1>1, <1>2 DEF ClerkInv, ChannelsReal, ClerkRecord
<1>4. clerk[c].seq \in Nat \ {0}
  BY <1>2 DEF ClerkRecord
<1> HIDE DEF r
<1>5. /\ ClerkTypes' /\ ChannelsReal' /\ clerk'[c] = r
      /\ \A d \in Clerk \ {c} : clerk'[d] = clerk[d] /\ SameRequest(d)
  BY <1>1, <1>3, OneClerk DEF ClerkInv
<1>6. \A d \in Clerk : clerk'[d].seq = clerk[d].seq
  BY <1>3, <1>5
<1>7. LogsMade'
  <2>1. \A req : Made(clerk, req) => Made(clerk', req) \/ req[1] \notin Clerk
    BY <1>3, <1>5 DEF Made
  <2>2. \A e \in Entry : e.cmd[1] \in Clerk
    BY DEF Entry, Req
  <2>3. /\ \A s \in Server : \A k \in DOMAIN log[s] : log[s][k] \in Entry
        /\ \A k \in DOMAIN committed : committed[k] \in Entry
    BY DEF LogInv, RaftTypes
  <2> QED
    BY <2>1, <2>2, <2>3, <1>1 DEF ClerkInv, AskedInv, LogsMade
<1>8. ReturnedHeld' /\ InOrder' /\ AckedWrites' /\ AckedKept'
  BY <1>1, <1>6 DEF ClerkInv, AskedInv, ReturnedHeld, InOrder, AckedWrites, AckedKept
<1>9. clerk[c].seq \in DOMAIN Script[c]
  <2>1. Script[c] \in Seq({"Get", "Put", "Append"})
    BY ClerkAssumption
  <2> QED
    BY <2>1, <1>1, <1>4
<1>10. ASSUME NEW k \in DOMAIN committed PROVE committed[k].cmd # <<c, clerk[c].seq>>
  <2>1. Made(clerk, committed[k].cmd)
    BY DEF ClerkInv, AskedInv, LogsMade
  <2> SUFFICES ASSUME committed[k].cmd = <<c, clerk[c].seq>> PROVE FALSE
    OBVIOUS
  <2> QED
    BY <2>1, <1>1, <1>4 DEF Made
<1>11. FloorsBehind'
  BY <1>1, <1>3, <1>5, <1>9, <1>10 DEF ClerkInv, AskedInv, FloorsBehind, Request
<1>12. \A d \in Clerk : IdleSame(d)
  BY <1>3, <1>5 DEF IdleSame
<1> QED
  BY <1>12, <1>5, <1>7, <1>8, <1>11 DEF ClerkInv, AskedInv

(* The clerk goes on to another server. *)
LEMMA ClerksRetry ==
    ASSUME LogInv, ClerkInv, NEW c \in Clerk, CallFails(c)
    PROVE  ClerkInv' /\ \A d \in Clerk : IdleSame(d)
<1> DEFINE r == AtNext(clerk[c])
<1>1. /\ clerk[c].pc = "call" /\ clerk' = [clerk EXCEPT ![c] = r]
      /\ UNCHANGED <<upTo, waitChMap>>
      /\ UNCHANGED <<currentTerm, isLeader, log, commitIndex, lastApplied, base, committed, acked>>
  BY DEF CallFails, raftVars, storeVars, diskVars
<1>2. /\ r \in ClerkRecord /\ r.pc = "call" /\ r.seq = clerk[c].seq /\ r.floor = clerk[c].floor
      /\ ~r.alone
  BY NextTried DEF ClerkInv, ClerkTypes
<1> HIDE DEF r
<1>3. /\ ClerkTypes' /\ ChannelsReal' /\ clerk'[c] = r
      /\ \A d \in Clerk \ {c} : clerk'[d] = clerk[d] /\ SameRequest(d)
  BY <1>1, <1>2, OneClerk DEF ClerkInv
<1>4. \A d \in Clerk : SameRequest(d)
  BY <1>1, <1>2, <1>3 DEF SameRequest
<1>5. AskedInv'
  BY <1>1, <1>4, AskedStays
<1>6. \A d \in Clerk : IdleSame(d)
  BY <1>2, <1>3 DEF IdleSame
<1> QED
  BY <1>6, <1>3, <1>5 DEF ClerkInv

(* Start: the clerk's present request goes to the end of a log. *)
LEMMA ClerksStart ==
    ASSUME LogInv, ClerkInv, NEW c \in Clerk, Start(c)
    PROVE  /\ LogInv' /\ ClerkInv' /\ UNCHANGED <<commitIndex, committed>>
           /\ \A d \in Clerk : IdleSame(d)
<1> DEFINE s == clerk[c].srv
           i == Len(log[s]) + 1
           r == [clerk[c] EXCEPT !.pc = "started", !.index = i]
           e == [cmd |-> Request(c), term |-> currentTerm[s]]
<1>1. /\ clerk[c].pc = "call" /\ AppendToLog(s, Request(c))
      /\ clerk' = [clerk EXCEPT ![c] = r]
      /\ Len(log[s]) < MaxLog
      /\ log' = [log EXCEPT ![s] = Append(@, e)]
      /\ UNCHANGED <<commitIndex, committed, base, upTo, waitChMap, acked>>
  BY DEF Start, AppendToLog, diskVars, storeVars
<1>2. clerk[c] \in ClerkRecord /\ s \in Server /\ clerk[c].seq \in Nat
  BY DEF ClerkInv, ClerkTypes, ClerkRecord
<1>3. Request(c) \in Req
  BY <1>1, <1>2 DEF Request, Req, ClerkInv, AskedInv, FloorsBehind
<1>4. LogInv'
  BY <1>1, <1>2, <1>3, LogAppend
<1>5. i \in Nat /\ i \in Index
  <2>1. Len(log[s]) \in Nat /\ MaxLog \in Nat
    BY <1>2, TypeFacts, LogBoundAssumption DEF LogInv
  <2> QED
    BY <2>1, <1>1 DEF Index
<1> HIDE DEF i
<1>6. /\ r \in ClerkRecord /\ r.pc = "started" /\ r.seq = clerk[c].seq /\ r.index = i
      /\ r.floor = clerk[c].floor /\ ~r.alone
  BY <1>1, <1>2, <1>5 DEF ClerkRecord, ClerkInv, ChannelsReal
<1> HIDE DEF r
<1>7. /\ ClerkTypes' /\ ChannelsReal' /\ clerk'[c] = r
      /\ \A d \in Clerk \ {c} : clerk'[d] = clerk[d] /\ SameRequest(d)
  BY <1>1, <1>5, <1>6, OneClerk DEF ClerkInv
<1>8. \A d \in Clerk : SameRequest(d)
  BY <1>1, <1>6, <1>7 DEF SameRequest
<1>9. Grow
  BY FlowUnchanged, <1>1, TypeFacts DEF LogInv, Grow, Extends
<1>10. LogsMade'
  <2>1. \A e2 \in Entry : e2.cmd[1] \in Clerk
    BY DEF Entry, Req
  <2>2. \A req : req[1] \in Clerk /\ Made(clerk, req) => Made(clerk', req)
    BY <1>8 DEF Made, SameRequest
  <2>3. Made(clerk', Request(c))
    BY <1>1, <1>2, <1>6, <1>7 DEF Made, Request
  <2>4. /\ \A q \in Server : \A k \in DOMAIN log[q] : log[q][k] \in Entry
        /\ \A k \in DOMAIN committed : committed[k] \in Entry
        /\ log[s] \in Seq(Entry)
    BY <1>2 DEF LogInv, RaftTypes
  <2>5. e.cmd = Request(c) /\ e \in Entry
    BY <1>2, <1>3 DEF Entry, LogInv, RaftTypes
  <2> HIDE DEF e, s
  <2>6. \A q \in Server : q # s => log'[q] = log[q]
    BY <1>1 DEF LogInv, RaftTypes
  <2>7. log'[s] = Append(log[s], e)
    BY <1>1, <1>2 DEF LogInv, RaftTypes
  <2>8. \A k \in DOMAIN log'[s] : log'[s][k] = e \/ (k \in DOMAIN log[s] /\ log'[s][k] = log[s][k])
    BY <2>4, <2>5, <2>7
  <2>9. \A q \in Server : \A k \in DOMAIN log'[q] : Made(clerk', log'[q][k].cmd)
    BY <2>1, <2>2, <2>3, <2>4, <2>5, <2>6, <2>8 DEF ClerkInv, AskedInv, LogsMade
  <2>10. \A k \in DOMAIN committed : Made(clerk', committed[k].cmd)
    BY <2>1, <2>2, <2>4 DEF ClerkInv, AskedInv, LogsMade
  <2> QED
    BY <2>9, <2>10, <1>1 DEF LogsMade
<1>11. AskedInv'
  BY <1>1, <1>4, <1>8, <1>9, <1>10, AskedKept DEF ClerkInv
<1>12. \A d \in Clerk : IdleSame(d)
  BY <1>6, <1>7 DEF IdleSame
<1> QED
  BY <1>12, <1>1, <1>4, <1>7, <1>11 DEF ClerkInv
(* getWaitCh: the handler waits on the channel of its index, which holds   *)
(* nothing or what the server has executed.                                *)
LEMMA ClerksWait ==
    ASSUME LogInv, ClerkInv, NEW c \in Clerk, Wait(c)
    PROVE  ClerkInv' /\ \A d \in Clerk : IdleSame(d)
<1> DEFINE s == clerk[c].srv
           i == clerk[c].index
           r == [clerk[c] EXCEPT !.pc = "wait"]
           v == IF waitChMap[s][i] = NoChan THEN <<>> ELSE waitChMap[s][i]
<1>1. /\ clerk[c].pc = "started"
      /\ waitChMap' = [waitChMap EXCEPT ![s] = getWaitCh(@, i)]
      /\ clerk' = [clerk EXCEPT ![c] = r]
      /\ upTo' = upTo
      /\ UNCHANGED <<currentTerm, isLeader, log, commitIndex, lastApplied, base, committed, acked>>
  BY DEF Wait, raftVars, storeVars, diskVars
<1>2. clerk[c] \in ClerkRecord /\ s \in Server /\ i \in Index /\ ~clerk[c].alone
  BY <1>1 DEF ClerkInv, ClerkTypes, ClerkRecord, ChannelsReal
<1>3. /\ r \in ClerkRecord /\ r.pc = "wait" /\ r.seq = clerk[c].seq /\ r.floor = clerk[c].floor
      /\ ~r.alone /\ r.srv = s /\ r.index = i
  BY <1>2 DEF ClerkRecord
<1> HIDE DEF r
<1>4. Real(committed, upTo[s], v)
  <2>1. Real(committed, upTo[s], <<>>)
    BY DEF Real
  <2> QED
    BY <2>1, <1>2 DEF ClerkInv, ChannelsReal
<1>5. /\ waitChMap' = [q \in Server |-> [j \in Index |-> waitChMap'[q][j]]]
      /\ \A q \in Server, j \in Index :
            waitChMap'[q][j] = IF q = s /\ j = i THEN v ELSE waitChMap[q][j]
  <2>1. waitChMap = [q \in Server |-> [j \in Index |-> waitChMap[q][j]]]
    BY DEF ClerkInv, ChannelsReal
  <2> DEFINE row == getWaitCh(waitChMap[s], i)
  <2>2. waitChMap' = [waitChMap EXCEPT ![s] = row]
    BY <1>1
  <2>3. row = [j \in Index |-> IF j = i THEN v ELSE waitChMap[s][j]]
    <3>1. waitChMap[s] = [j \in Index |-> waitChMap[s][j]]
      BY <2>1, <1>2
    <3> QED
      BY <3>1, <1>2 DEF getWaitCh
  <2> HIDE DEF row, v, s, i
  <2>4. waitChMap'[s] = row /\ \A q \in Server : q # s => waitChMap'[q] = waitChMap[q]
    BY <2>1, <2>2, <1>2
  <2>5. waitChMap' = [q \in Server |-> waitChMap'[q]]
    BY <2>1, <2>2
  <2>6. \A q \in Server : waitChMap'[q] = [j \in Index |-> waitChMap'[q][j]]
    BY <2>1, <2>3, <2>4
  <2> QED
    BY <2>3, <2>4, <2>5, <2>6
<1> HIDE DEF v
<1>6. /\ ClerkTypes' /\ clerk'[c] = r
      /\ \A d \in Clerk \ {c} : clerk'[d] = clerk[d]
  BY <1>1, <1>3 DEF ClerkInv, ClerkTypes
<1>7. \A d \in Clerk : SameRequest(d)
  BY <1>1, <1>3, <1>6 DEF SameRequest
<1>8. AskedInv'
  BY <1>1, <1>7, AskedStays
<1>9. ASSUME NEW d \in Clerk, clerk'[d].pc = "wait"
      PROVE  Real(committed, upTo[clerk'[d].srv], Channel(d)')
  <2>1. CASE d = c
    BY <2>1, <1>2, <1>3, <1>4, <1>5, <1>6 DEF Channel
  <2>2. CASE d # c /\ clerk[d].alone
    <3>1. Channel(d)' = Channel(d) /\ clerk'[d] = clerk[d]
      BY <2>2, <1>6 DEF Channel
    <3> QED
      BY <3>1, <1>9 DEF ClerkInv, ChannelsReal
  <2>3. CASE d # c /\ ~clerk[d].alone
    <3>1. clerk'[d] = clerk[d] /\ clerk[d].srv \in Server /\ clerk[d].index \in Index
      BY <2>3, <1>6, <1>9 DEF ClerkInv, ClerkTypes, ClerkRecord, ChannelsReal
    <3>2. /\ Channel(d)' = waitChMap'[clerk[d].srv][clerk[d].index]
          /\ Channel(d) = waitChMap[clerk[d].srv][clerk[d].index]
      BY <2>3, <3>1 DEF Channel
    <3>3. Real(committed, upTo[clerk[d].srv], Channel(d))
      BY <3>1, <1>9 DEF ClerkInv, ChannelsReal
    <3> QED
      BY <3>1, <3>2, <3>3, <1>4, <1>5
  <2> QED
    BY <2>1, <2>2, <2>3
<1>10. ChannelsReal'
  <2>1. \A q \in Server, j \in Index :
            waitChMap'[q][j] = NoChan \/ Real(committed, upTo[q], waitChMap'[q][j])
    BY <1>4, <1>5 DEF ClerkInv, ChannelsReal
  <2>2. \A d \in Clerk : /\ clerk'[d].pc \in {"started", "wait"} => clerk'[d].index \in Index
                         /\ clerk'[d].pc # "wait" => ~clerk'[d].alone
    BY <1>2, <1>3, <1>6 DEF ClerkInv, ChannelsReal
  <2> QED
    BY <2>1, <2>2, <1>1, <1>5, <1>9 DEF ChannelsReal
<1>11. \A d \in Clerk : IdleSame(d)
  BY <1>3, <1>6, <1>7 DEF IdleSame
<1> QED
  BY <1>11, <1>6, <1>8, <1>10 DEF ClerkInv

(* The handler gives up, or finds that the operation is not its own. *)
LEMMA ClerksGiveUp ==
    ASSUME LogInv, ClerkInv, NEW c \in Clerk, clerk[c].pc = "wait", NEW left,
           Real(committed, upTo[clerk[c].srv], left),
           Leave(c, AtNext(clerk[c]), left), acked' = acked
    PROVE  ClerkInv' /\ \A d \in Clerk : IdleSame(d)
<1> DEFINE r == AtNext(clerk[c])
<1>1. UNCHANGED <<currentTerm, isLeader, log, commitIndex, lastApplied, base, committed, acked>>
  BY DEF Leave, raftVars, diskVars
<1>2. /\ r \in ClerkRecord /\ r.pc = "call" /\ r.seq = clerk[c].seq /\ r.floor = clerk[c].floor
      /\ ~r.alone
  BY NextTried DEF ClerkInv, ClerkTypes
<1> HIDE DEF r
<1>3. Leave(c, r, left) /\ ClerkTypes /\ ChannelsReal
  BY DEF r, ClerkInv
<1>4. /\ ClerkTypes' /\ ChannelsReal' /\ clerk'[c] = r
      /\ \A d \in Clerk \ {c} : SameRequest(d) /\ clerk'[d].got = clerk[d].got
  BY <1>2, <1>3, ClerksLeft
<1>5. \A d \in Clerk : SameRequest(d)
  BY <1>2, <1>4 DEF SameRequest
<1>6. AskedInv'
  BY <1>1, <1>5, AskedStays
<1>7. \A d \in Clerk : IdleSame(d)
  BY <1>2, <1>4 DEF IdleSame
<1> QED
  BY <1>7, <1>4, <1>6 DEF ClerkInv

(* The call returns: the operation that was applied is in the committed    *)
(* log, so the write counts as acknowledged.                               *)
LEMMA ClerksFinish ==
    ASSUME LogInv, ClerkInv, StoreTypes, NEW c \in Clerk, clerk[c].pc = "wait",
           Len(Channel(c)) = 1, Mine(c, Channel(c)[1]), Finish(c)
    PROVE  /\ ClerkInv'
           /\ Within(committed, upTo[clerk[c].srv], Request(c))
           /\ clerk'[c].floor = clerk[c].floor /\ clerk'[c].got = kvPersist[clerk[c].srv]
           /\ \A d \in Clerk \ {c} : SameRequest(d) /\ clerk'[d].got = clerk[d].got
<1> DEFINE s == clerk[c].srv
           r == [FreshClerk EXCEPT !.seq = clerk[c].seq + 1, !.srv = s, !.floor = clerk[c].floor,
                                   !.got = kvPersist[s]]
<1>1. /\ Leave(c, r, <<>>)
      /\ acked' = IF Op(Request(c)) = "Get" THEN acked ELSE acked \cup {Request(c)}
      /\ UNCHANGED <<log, committed, upTo>>
  BY DEF Finish, Leave, raftVars, storeVars
<1>2. clerk[c] \in ClerkRecord /\ s \in Server /\ clerk[c].seq \in Nat \ {0} /\ clerk[c].floor \in SUBSET Req
  BY DEF ClerkInv, ClerkTypes, ClerkRecord
<1>3. kvPersist[s] \in Seq(Req) /\ <<>> \in Seq(Req)
  BY <1>2 DEF StoreTypes
<1>4. /\ r \in ClerkRecord /\ r.pc = "idle" /\ r.seq = clerk[c].seq + 1 /\ r.floor = clerk[c].floor
      /\ r.got = kvPersist[s] /\ ~r.alone
  <2> DEFINE n == clerk[c].seq + 1
             f == clerk[c].floor
             g == kvPersist[s]
  <2>1. n \in Nat \ {0} /\ f \in SUBSET Req /\ g \in Seq(Req) /\ s \in Server
    BY <1>2, <1>3
  <2>5. r = [FreshClerk EXCEPT !.seq = n, !.srv = s, !.floor = f, !.got = g]
    OBVIOUS
  <2> HIDE DEF n, f, g, s, r
  <2>2. r = [seq |-> n, pc |-> "idle", srv |-> s, index |-> 0, own |-> <<>>, alone |-> FALSE,
             floor |-> f, got |-> g]
    BY <2>5 DEF FreshClerk
  <2>3. 0 \in Nat /\ FALSE \in BOOLEAN
    OBVIOUS
  <2>4. r \in ClerkRecord
    BY <2>1, <2>2, <2>3, <1>3 DEF ClerkRecord
  <2> QED
    BY <2>2, <2>4 DEF n, f, g
<1>5. Within(committed, upTo[s], Request(c))
  BY DEF ClerkInv, ChannelsReal, Real, Mine
<1>6. Held(committed, Request(c))
  BY <1>5 DEF Within, Held
<1> HIDE DEF r
<1>7. Real(committed, upTo[s], <<>>)
  BY DEF Real
<1>8. /\ ClerkTypes' /\ ChannelsReal' /\ clerk'[c] = r
      /\ \A d \in Clerk \ {c} : SameRequest(d) /\ clerk'[d].got = clerk[d].got
  BY <1>1, <1>4, <1>7, ClerksLeft DEF ClerkInv
<1>9. Request(c) \in Req
  BY <1>2 DEF ClerkInv, AskedInv, FloorsBehind, Request, Req
<1>10. LogsMade'
  <2>1. \A e \in Entry : e.cmd[1] \in Clerk /\ e.cmd[2] \in Nat
    BY DEF Entry, Req
  <2>2. \A req : req[1] \in Clerk /\ req[2] \in Nat /\ Made(clerk, req) => Made(clerk', req)
    BY <1>2, <1>4, <1>8 DEF Made, SameRequest
  <2>3. /\ \A q \in Server : \A k \in DOMAIN log[q] : log[q][k] \in Entry
        /\ \A k \in DOMAIN committed : committed[k] \in Entry
    BY DEF LogInv, RaftTypes
  <2> QED
    BY <2>1, <2>2, <2>3, <1>1 DEF ClerkInv, AskedInv, LogsMade
<1>11. ReturnedHeld'
  <2> SUFFICES ASSUME NEW d \in Clerk, NEW n \in 1 .. clerk'[d].seq - 1
               PROVE  Held(committed, <<d, n>>)
    BY <1>1 DEF ReturnedHeld
  <2>1. CASE d # c
    BY <2>1, <1>8 DEF SameRequest, ClerkInv, AskedInv, ReturnedHeld
  <2>2. CASE d = c /\ n = clerk[c].seq
    BY <2>2, <1>6 DEF Request
  <2>3. CASE d = c /\ n # clerk[c].seq
    <3>1. n \in 1 .. clerk[c].seq - 1
      BY <2>3, <1>2, <1>4, <1>8
    <3> QED
      BY <2>3, <3>1 DEF ClerkInv, AskedInv, ReturnedHeld
  <2> QED
    BY <2>1, <2>2, <2>3
<1>12. InOrder' /\ AckedWrites' /\ AckedKept'
  BY <1>1, <1>6, <1>9 DEF ClerkInv, AskedInv, InOrder, AckedWrites, AckedKept, Held
<1>13. FloorsBehind'
  <2>1. acked \subseteq acked'
    BY <1>1
  <2>2. \A d \in Clerk \ {c} : Request(d)' = Request(d)
    BY <1>8 DEF SameRequest, Request
  <2>3. \A d \in Clerk : clerk'[d].floor \subseteq acked'
    BY <2>1, <1>4, <1>8 DEF ClerkInv, AskedInv, FloorsBehind, SameRequest
  <2>4. \A d \in Clerk : clerk'[d].pc # "idle" => d # c /\ clerk[d].pc # "idle"
    BY <1>4, <1>8 DEF SameRequest
  <2> QED
    BY <2>2, <2>3, <2>4, <1>1, <1>8 DEF ClerkInv, AskedInv, FloorsBehind, SameRequest
<1> QED
  BY <1>4, <1>5, <1>8, <1>10, <1>11, <1>12, <1>13 DEF ClerkInv, AskedInv

(* Kill and Make: calls under way at the server fail. *)
LEMMA ClerksRestart ==
    ASSUME LogInv, PathInv, ClerkInv, NEW s \in Server, StartedAgain(s)
    PROVE  ClerkInv' /\ \A d \in Clerk : IdleSame(d)
<1> DEFINE Fails(c) == clerk[c].srv = s /\ clerk[c].pc \in {"started", "wait"}
<1>1. /\ clerk' = [c \in Clerk |-> IF Fails(c) THEN AtNext(clerk[c]) ELSE clerk[c]]
      /\ waitChMap' = [waitChMap EXCEPT ![s] = [i \in Index |-> NoChan]]
      /\ upTo' = [upTo EXCEPT ![s] = base[s]]
      /\ UNCHANGED <<committed, acked>>
  BY DEF StartedAgain
<1>2. \A c \in Clerk : clerk[c] \in ClerkRecord /\ clerk[c].srv \in Server
  BY DEF ClerkInv, ClerkTypes, ClerkRecord
<1>3. \A c \in Clerk : /\ AtNext(clerk[c]) \in ClerkRecord /\ AtNext(clerk[c]).pc = "call"
                       /\ AtNext(clerk[c]).seq = clerk[c].seq
                       /\ AtNext(clerk[c]).floor = clerk[c].floor
                       /\ ~AtNext(clerk[c]).alone
  BY <1>2, NextTried
<1>4. \A c \in Clerk : SameRequest(c)
  BY <1>1, <1>3 DEF SameRequest
<1>5. ClerkTypes'
  BY <1>1, <1>2, <1>3 DEF ClerkTypes
<1>6. Flow /\ Grow /\ LogInv'
  BY FlowRestart, LogRestart DEF Flow
<1>7. LogsMade'
  BY <1>4, <1>6, MadeStays DEF ClerkInv, AskedInv
<1>8. AskedInv'
  BY <1>1, <1>4, <1>6, <1>7, AskedKept DEF ClerkInv
<1>9. \A q \in Server : q # s => upTo'[q] = upTo[q]
  BY <1>1 DEF PathInv, PathTypes
<1>10. /\ waitChMap' = [q \in Server |-> [j \in Index |-> waitChMap'[q][j]]]
       /\ \A q \in Server, j \in Index :
             waitChMap'[q][j] = IF q = s THEN NoChan ELSE waitChMap[q][j]
  BY <1>1 DEF ClerkInv, ChannelsReal
<1>11. \A c \in Clerk : clerk'[c].pc = "wait" => clerk'[c] = clerk[c] /\ clerk[c].srv # s
  BY <1>1, <1>3
<1>12. ASSUME NEW c \in Clerk, clerk'[c].pc = "wait"
       PROVE  Real(committed, upTo'[clerk'[c].srv], Channel(c)')
  <2>1. /\ clerk'[c] = clerk[c] /\ clerk[c].srv # s /\ clerk[c].srv \in Server
        /\ clerk[c].index \in Index /\ clerk[c].pc = "wait"
    BY <1>2, <1>11, <1>12 DEF ClerkInv, ChannelsReal
  <2>2. Channel(c)' = Channel(c)
    BY <2>1, <1>10 DEF Channel
  <2> QED
    BY <2>1, <2>2, <1>9 DEF ClerkInv, ChannelsReal
<1>13. ChannelsReal'
  <2>1. \A q \in Server, j \in Index :
            waitChMap'[q][j] = NoChan \/ Real(committed, upTo'[q], waitChMap'[q][j])
    BY <1>9, <1>10 DEF ClerkInv, ChannelsReal
  <2>2. \A c \in Clerk : /\ clerk'[c].pc \in {"started", "wait"} => clerk'[c].index \in Index
                         /\ clerk'[c].pc # "wait" => ~clerk'[c].alone
    BY <1>1, <1>3 DEF ClerkInv, ChannelsReal
  <2> QED
    BY <2>1, <2>2, <1>1, <1>10, <1>12 DEF ChannelsReal
<1>14. \A d \in Clerk : IdleSame(d)
  BY <1>1, <1>3, <1>4 DEF IdleSame
<1> QED
  BY <1>14, <1>5, <1>8, <1>13 DEF ClerkInv
-----------------------------------------------------------------------------
(* The replay of a log: one fact for no entry, one for one entry more.     *)

(* A set of numbers that is not empty has a least one. *)
LEMMA Least ==
  ASSUME NEW T \in SUBSET Nat, T # {}
  PROVE  \E n \in T : \A m \in T : n <= m
<1>1. IsWellFoundedOn(OpToRel(<,Nat), Nat)
  BY NatLessThanWellFounded
<1>2. PICK n \in T : \A m \in T : <<m, n>> \notin OpToRel(<,Nat)
  BY <1>1, WFMin
<1>3. \A m \in T : <<m,n>> \in OpToRel(<,Nat) <=> m < n
  BY DEF OpToRel
<1>4. \A m \in T : ~(m < n)
  BY <1>2, <1>3, Zenon
<1>5. n \in Nat /\ \A m \in T : m \in Nat
  OBVIOUS
<1> QED BY <1>4, <1>5

(* The replay as a function: what there is after each of n entries. *)
Replays(entries, n, f) ==
    f = [m \in 0 .. n |-> IF m = 0 THEN <<>>
                          ELSE IF FirstTime(entries, m) THEN Written(f[m - 1], entries[m].cmd)
                          ELSE f[m - 1]]

LEMMA ReplayUnique ==
    ASSUME NEW entries, NEW n \in Nat, NEW f, Replays(entries, n, f),
           NEW q, NEW k \in Nat, n <= k, NEW g, Replays(q, k, g),
           \A m \in 1 .. n : entries[m] = q[m]
    PROVE  \A m \in 0 .. n : f[m] = g[m]
<1> DEFINE T == {m \in 0 .. n : f[m] # g[m]}
<1> SUFFICES ASSUME T # {} PROVE FALSE
  OBVIOUS
<1>1. T \in SUBSET Nat
  OBVIOUS
<1>2. PICK m \in T : \A j \in T : m <= j
  BY <1>1, Least
<1>3. m \in 0 .. n /\ m \in 0 .. k /\ f[m] # g[m]
  OBVIOUS
<1>4. /\ f[m] = IF m = 0 THEN <<>>
                ELSE IF FirstTime(entries, m) THEN Written(f[m - 1], entries[m].cmd) ELSE f[m - 1]
      /\ g[m] = IF m = 0 THEN <<>>
                ELSE IF FirstTime(q, m) THEN Written(g[m - 1], q[m].cmd) ELSE g[m - 1]
  BY <1>3 DEF Replays
<1>5. CASE m = 0
  BY <1>3, <1>4, <1>5
<1>6. CASE m # 0
  <2>1. m - 1 \in 0 .. n /\ m \in 1 .. n /\ ~(m <= m - 1)
    BY <1>3, <1>6
  <2>2. f[m - 1] = g[m - 1]
    BY <2>1, <1>2
  <2>3. entries[m] = q[m]
    BY <2>1
  <2>4. \A j \in 1 .. m - 1 : entries[j] = q[j]
    BY <2>1
  <2>5. FirstTime(entries, m) <=> FirstTime(q, m)
    BY <2>3, <2>4 DEF FirstTime
  <2> QED
    BY <1>3, <1>4, <1>6, <2>2, <2>3, <2>5
<1> QED
  BY <1>5, <1>6

LEMMA ReplayExists ==
    ASSUME NEW entries, NEW n \in Nat PROVE \E f : Replays(entries, n, f)
<1> DEFINE T == {m \in Nat : ~\E f : Replays(entries, m, f)}
<1> SUFFICES ASSUME T # {} PROVE FALSE
  OBVIOUS
<1>1. PICK m \in T : \A j \in T : m <= j
  BY Least
<1>2. m \in Nat /\ ~\E f : Replays(entries, m, f)
  OBVIOUS
<1>3. CASE m = 0
  <2> DEFINE f == [j \in 0 .. 0 |-> <<>>]
  <2>1. Replays(entries, 0, f)
    BY DEF Replays
  <2> QED
    BY <2>1, <1>2, <1>3
<1>4. CASE m # 0
  <2>1. m - 1 \in Nat /\ ~(m <= m - 1)
    BY <1>2, <1>4
  <2>2. PICK f : Replays(entries, m - 1, f)
    BY <2>1, <1>1
  <2> DEFINE last == IF FirstTime(entries, m) THEN Written(f[m - 1], entries[m].cmd) ELSE f[m - 1]
             g == [j \in 0 .. m |-> IF j = m THEN last ELSE f[j]]
  <2> HIDE DEF last
  <2>3. ASSUME NEW j \in 0 .. m
        PROVE  g[j] = IF j = 0 THEN <<>>
                      ELSE IF FirstTime(entries, j) THEN Written(g[j - 1], entries[j].cmd)
                      ELSE g[j - 1]
    <3>1. CASE j = m
      <4>1. g[j] = last /\ g[j - 1] = f[j - 1] /\ j # 0
        BY <3>1, <1>2, <1>4
      <4> QED
        BY <4>1, <3>1 DEF last
    <3>2. CASE j # m
      <4>1. j \in 0 .. m - 1 /\ j \in Nat
        BY <3>2, <1>2
      <4>2. g[j] = f[j]
        BY <3>2
      <4>3. f[j] = IF j = 0 THEN <<>>
                   ELSE IF FirstTime(entries, j) THEN Written(f[j - 1], entries[j].cmd) ELSE f[j - 1]
        BY <4>1, <2>2 DEF Replays
      <4>4. j # 0 => g[j - 1] = f[j - 1]
        BY <4>1, <1>2
      <4> QED
        BY <4>2, <4>3, <4>4
    <3> QED
      BY <3>1, <3>2
  <2>4. g = [j \in 0 .. m |-> g[j]]
    OBVIOUS
  <2> HIDE DEF g
  <2>5. Replays(entries, m, g)
    BY <2>3, <2>4 DEF Replays
  <2> QED
    BY <2>5, <1>2
<1> QED
  BY <1>3, <1>4

LEMMA ReplayIs ==
    ASSUME NEW entries, NEW n \in Nat
    PROVE  \E f : Replays(entries, n, f) /\ Replay(entries, n) = f[n]
<1>1. \E f : Replays(entries, n, f)
  BY ReplayExists
<1> DEFINE f == CHOOSE g : Replays(entries, n, g)
<1>2. Replays(entries, n, f)
  BY <1>1
<1>3. Replay(entries, n) = f[n]
  BY DEF Replay, Replays
<1> QED
  BY <1>2, <1>3

(* The replay begins with nothing. *)
LEMMA ReplayNone == ASSUME NEW entries PROVE Replay(entries, 0) = <<>>
<1>1. PICK f : Replays(entries, 0, f) /\ Replay(entries, 0) = f[0]
  BY ReplayIs
<1> QED
  BY <1>1 DEF Replays

(* One more entry: a request that was there before changes nothing. *)
LEMMA ReplayNext ==
    ASSUME NEW entries, NEW n \in Nat
    PROVE  Replay(entries, n + 1) =
               IF FirstTime(entries, n + 1) THEN Written(Replay(entries, n), entries[n + 1].cmd)
               ELSE Replay(entries, n)
<1>1. PICK f : Replays(entries, n, f) /\ Replay(entries, n) = f[n]
  BY ReplayIs
<1>2. PICK g : Replays(entries, n + 1, g) /\ Replay(entries, n + 1) = g[n + 1]
  BY ReplayIs
<1>3. n \in 0 .. n /\ n + 1 \in Nat /\ n <= n + 1 /\ n + 1 # 0 /\ n + 1 - 1 = n /\ n + 1 \in 0 .. n + 1
  OBVIOUS
<1>4. f[n] = g[n]
  BY <1>1, <1>2, <1>3, ReplayUnique
<1>5. g[n + 1] = IF FirstTime(entries, n + 1) THEN Written(g[n], entries[n + 1].cmd) ELSE g[n]
  BY <1>2, <1>3 DEF Replays
<1> QED
  BY <1>1, <1>2, <1>4, <1>5

(* What the first n entries make does not depend on what follows them. *)
LEMMA ReplayKept ==
    ASSUME NEW p, NEW q, NEW n \in Nat, \A i \in 1 .. n : q[i] = p[i]
    PROVE  Replay(q, n) = Replay(p, n)
<1>1. PICK f : Replays(p, n, f) /\ Replay(p, n) = f[n]
  BY ReplayIs
<1>2. PICK g : Replays(q, n, g) /\ Replay(q, n) = g[n]
  BY ReplayIs
<1>3. n <= n /\ n \in 0 .. n /\ \A i \in 1 .. n : p[i] = q[i]
  OBVIOUS
<1>4. \A m \in 0 .. n : f[m] = g[m]
  BY <1>1, <1>2, <1>3, ReplayUnique
<1> QED
  BY <1>1, <1>2, <1>3, <1>4
-----------------------------------------------------------------------------
(* The store. *)

(* What a store has of the log it has of the log as it grows. *)
LEMMA StoreKept ==
    ASSUME NEW p \in Seq(Entry), NEW q \in Seq(Entry), Extends(p, q), NEW n \in Nat, n <= Len(p),
           NEW value, NEW seq, StoreTrue(p, value, seq, n)
    PROVE  StoreTrue(q, value, seq, n)
<1>1. SeqTrue(q, seq, n)
  <2>1. n \in Int /\ n <= n
    OBVIOUS
  <2>2. \A req : Within(p, n, req) => Within(q, n, req)
    BY <2>1, WithinKept
  <2> QED
    BY <2>2 DEF StoreTrue, SeqTrue
<1>2. ASSUME NEW j \in DOMAIN q, j <= n PROVE j \in DOMAIN p /\ q[j] = p[j]
  <2>1. j \in Nat /\ j >= 1 /\ Len(p) \in Nat /\ DOMAIN p = 1 .. Len(p)
    OBVIOUS
  <2> QED
    BY <2>1, <1>2 DEF Extends
<1>3. ValueTrue(q, value, n) /\ SeqFull(q, seq, n)
  BY <1>2 DEF StoreTrue, ValueTrue, SeqFull
<1>4. Replay(q, n) = Replay(p, n)
  <2>1. \A i \in 1 .. n : q[i] = p[i]
    BY DEF Extends
  <2> QED
    BY <2>1, ReplayKept
<1> QED
  BY <1>1, <1>3, <1>4 DEF StoreTrue

(* A write that no Put replaces is still there after the next request.     *)
LEMMA WrittenKeeps ==
    ASSUME NEW value \in Seq(Req), NEW req \in Req
    PROVE  /\ Written(value, req) \in Seq(Req)
           /\ Op(req) # "Get" => req \in Range(Written(value, req))
           /\ \A old \in Range(value) : ~Overwritten(old) => old \in Range(Written(value, req))
<1>1. CASE Op(req) = "Put"
  <2>1. Written(value, req) = <<req>>
    BY <1>1 DEF Written
  <2>2. req[1] \in Clerk /\ req[2] \in DOMAIN Script[req[1]] /\ req = <<req[1], req[2]>>
    BY DEF Req
  <2>3. \A old : ~Overwritten(old) => old = req
    BY <2>2, <1>1 DEF Overwritten, Op
  <2>4. <<req>> \in Seq(Req) /\ 1 \in DOMAIN <<req>> /\ <<req>>[1] = req
    OBVIOUS
  <2>5. req \in Range(<<req>>)
    BY <2>4, Zenon DEF Range
  <2> QED
    BY <2>1, <2>3, <2>4, <2>5
<1>2. CASE Op(req) = "Append"
  <2>1. Written(value, req) = Append(value, req)
    BY <1>2 DEF Written
  <2> DEFINE w == Append(value, req)
  <2>2. /\ w \in Seq(Req) /\ Len(value) + 1 \in DOMAIN w /\ w[Len(value) + 1] = req
        /\ \A k \in DOMAIN value : k \in DOMAIN w /\ w[k] = value[k]
    OBVIOUS
  <2> HIDE DEF w
  <2>3. req \in Range(w)
    BY <2>2 DEF Range
  <2>4. \A old \in Range(value) : old \in Range(w)
    BY <2>2 DEF Range
  <2> QED
    BY <2>1, <2>2, <2>3, <2>4 DEF w
<1>3. CASE Op(req) \notin {"Put", "Append"}
  <2>1. Written(value, req) = value
    BY <1>3 DEF Written
  <2>2. Op(req) = "Get"
    <3>1. req[1] \in Clerk /\ req[2] \in DOMAIN Script[req[1]]
      BY DEF Req
    <3>2. Script[req[1]] \in Seq({"Get", "Put", "Append"})
      BY <3>1, ClerkAssumption
    <3>3. Script[req[1]][req[2]] \in {"Get", "Put", "Append"}
      BY <3>1, <3>2
    <3> QED
      BY <3>3, <1>3 DEF Op
  <2> QED
    BY <2>1, <2>2
<1> QED
  BY <1>1, <1>2, <1>3

(* The next request: skipped if it was executed before, executed otherwise. *)
LEMMA StoreNext ==
    ASSUME LogInv, InOrder, NEW n \in Nat, n + 1 <= Len(committed),
           NEW value \in Seq(Req), NEW seq \in [Clerk -> Nat], StoreTrue(committed, value, seq, n),
           NEW req, req = committed[n + 1].cmd
    PROVE  /\ ifDuplicate(seq, req) => StoreTrue(committed, value, seq, n + 1)
           /\ ~ifDuplicate(seq, req) =>
                /\ Written(value, req) \in Seq(Req)
                /\ [seq EXCEPT ![req[1]] = req[2]] \in [Clerk -> Nat]
                /\ StoreTrue(committed, Written(value, req), [seq EXCEPT ![req[1]] = req[2]], n + 1)
<1>1. /\ committed \in Seq(Entry) /\ Len(committed) \in Nat /\ DOMAIN committed = 1 .. Len(committed)
      /\ Extends(committed, committed)
  BY TypeFacts DEF LogInv, RaftTypes, Extends
<1>2. n + 1 \in DOMAIN committed /\ (n + 1) - 1 = n
  BY <1>1
<1>3. /\ req \in Req /\ req[1] \in Clerk /\ req[2] \in Nat /\ req = <<req[1], req[2]>>
      /\ req[2] >= 1
  <2>1. committed[n + 1] \in Entry
    BY <1>1, <1>2
  <2>2. req \in Req
    BY <2>1 DEF Entry
  <2>3. req[1] \in Clerk /\ req[2] \in DOMAIN Script[req[1]] /\ req[2] \in Nat /\ req = <<req[1], req[2]>>
    BY <2>2 DEF Req
  <2>4. Script[req[1]] \in Seq({"Get", "Put", "Append"})
    BY <2>3, ClerkAssumption
  <2> QED
    BY <2>2, <2>3, <2>4
<1>4. \A r : Within(committed, n, r) => Within(committed, n + 1, r)
  BY <1>1, WithinKept
<1>5. Within(committed, n + 1, req)
  BY <1>2 DEF Within
<1>6. \A j \in DOMAIN committed : j <= n + 1 => j <= n \/ j = n + 1
  BY <1>1
<1>7. CASE ifDuplicate(seq, req)
  <2>1. SeqTrue(committed, seq, n + 1)
    BY <1>4 DEF StoreTrue, SeqTrue
  <2>2. Within(committed, n, req)
    <3>1. req[2] \in 1 .. seq[req[1]]
      BY <1>3, <1>7 DEF ifDuplicate
    <3>2. Within(committed, n, <<req[1], req[2]>>)
      BY <3>1, <1>3 DEF StoreTrue, SeqTrue
    <3> QED
      BY <3>2, <1>3
  <2>3. PICK j \in DOMAIN committed : j <= n /\ committed[j].cmd = req
    BY <2>2 DEF Within
  <2>4. ValueTrue(committed, value, n + 1)
    BY <2>3, <1>6 DEF StoreTrue, ValueTrue
  <2>5. SeqFull(committed, seq, n + 1)
    BY <1>6, <1>7 DEF StoreTrue, SeqFull, ifDuplicate
  <2>6. ~FirstTime(committed, n + 1)
    <3>1. j \in 1 .. (n + 1) - 1
      BY <2>3, <1>1
    <3> QED
      BY <3>1, <2>3 DEF FirstTime
  <2>7. value = Replay(committed, n + 1)
    BY <2>6, ReplayNext DEF StoreTrue
  <2> QED
    BY <2>1, <2>4, <2>5, <2>7, <1>7 DEF StoreTrue
<1>8. CASE ~ifDuplicate(seq, req)
  <2> DEFINE c == req[1]
             m == req[2]
             next == [seq EXCEPT ![c] = m]
  <2>1. next \in [Clerk -> Nat] /\ \A d \in Clerk : next[d] = IF d = c THEN m ELSE seq[d]
    BY <1>3
  <2> HIDE DEF next
  <2>2. \A h \in 1 .. m - 1 : Within(committed, n, <<c, h>>)
    BY <1>2, <1>3 DEF InOrder
  <2>3. ASSUME NEW d \in Clerk, NEW h \in 1 .. next[d] PROVE Within(committed, n + 1, <<d, h>>)
    <3>1. CASE d # c
      BY <3>1, <2>1, <1>4 DEF StoreTrue, SeqTrue
    <3>2. CASE d = c /\ h = m
      BY <3>2, <1>3, <1>5
    <3>3. CASE d = c /\ h # m
      <4>1. h \in 1 .. m - 1
        BY <3>3, <2>1, <1>3
      <4> QED
        BY <4>1, <3>3, <2>2, <1>4
    <3> QED
      BY <3>1, <3>2, <3>3
  <2>4. SeqTrue(committed, next, n + 1)
    BY <2>3 DEF SeqTrue
  <2> DEFINE w == Written(value, req)
  <2>5. /\ w \in Seq(Req) /\ (Op(req) # "Get" => req \in Range(w))
        /\ \A old \in Range(value) : ~Overwritten(old) => old \in Range(w)
    BY <1>3, WrittenKeeps
  <2> HIDE DEF w
  <2>6. ValueTrue(committed, w, n + 1)
    BY <2>5, <1>6 DEF StoreTrue, ValueTrue
  <2>7. \A j \in DOMAIN committed : j <= n => committed[j].cmd # req
    BY <1>8 DEF StoreTrue, SeqFull, ifDuplicate
  <2>8. SeqFull(committed, next, n + 1)
    <3>1. seq[c] \in Nat /\ seq[c] < m
      BY <1>3, <1>8 DEF ifDuplicate
    <3> SUFFICES ASSUME NEW j \in DOMAIN committed, j <= n + 1
                 PROVE  committed[j].cmd[2] <= next[committed[j].cmd[1]]
      BY DEF SeqFull
    <3>2. CASE j = n + 1
      BY <3>2, <2>1, <1>3
    <3>3. CASE j <= n
      <4> DEFINE d == committed[j].cmd[1]
      <4>0. committed[j] \in Entry
        BY <1>1
      <4>1. committed[j].cmd \in Req
        BY <4>0 DEF Entry
      <4>2. d \in Clerk /\ committed[j].cmd[2] \in Nat
        BY <4>1 DEF Req
      <4>3. committed[j].cmd[2] <= seq[d]
        BY <3>3 DEF StoreTrue, SeqFull
      <4>4. seq[d] \in Nat /\ next[d] \in Nat /\ seq[d] <= next[d]
        <5> HIDE DEF d
        <5>1. seq[d] \in Nat /\ (d = c => seq[d] < m) /\ m \in Nat
          BY <4>2, <3>1, <1>3
        <5>2. next[d] = IF d = c THEN m ELSE seq[d]
          BY <4>2, <2>1
        <5> QED
          BY <5>1, <5>2
      <4> HIDE DEF d
      <4> QED
        BY <4>2, <4>3, <4>4 DEF d
    <3> QED
      BY <3>2, <3>3, <1>6
  <2>9. FirstTime(committed, n + 1)
    <3>1. \A j \in 1 .. (n + 1) - 1 : j \in DOMAIN committed /\ j <= n
      BY <1>1
    <3> QED
      BY <3>1, <2>7 DEF FirstTime
  <2>10. w = Replay(committed, n + 1)
    BY <2>9, ReplayNext DEF StoreTrue, w
  <2> QED
    BY <2>1, <2>4, <2>5, <2>6, <2>8, <2>10, <1>8 DEF StoreTrue, w, next
<1> QED
  BY <1>7, <1>8
(* What a server has executed, or has in its snapshot, is committed. *)
LEMMA StoreBounds ==
    ASSUME LogInv, PathInv
    PROVE  \A s \in Server : /\ upTo[s] \in Nat /\ upTo[s] <= Len(committed)
                             /\ base[s] \in Nat /\ base[s] <= Len(committed)
                             /\ Known(s) \in Nat /\ Known(s) <= Len(committed)
<1> TAKE s \in Server
<1>1. /\ upTo[s] \in Nat /\ base[s] \in Nat /\ Known(s) \in Nat /\ base[s] <= Known(s)
      /\ upTo[s] <= Known(s) /\ Len(committed) \in Nat
  BY TypeFacts, PathFacts DEF LogInv, PathInv, PathAt, Position
<1>2. Known(s) <= Len(committed)
  BY <1>1 DEF LogInv, KnownAgree
<1> QED
  BY <1>1, <1>2

(* What idle clerks got does not change. *)
LEMMA GotStays == ASSUME GotAll, \A c \in Clerk : IdleSame(c) PROVE GotAll'
BY DEF GotAll, IdleSame, SameRequest

(* Only one server's store or snapshot changes, and it stays true. *)
LEMMA StoreOfOne ==
    ASSUME LogInv, LogInv', Grow, PathInv, StoreInv, StoreTypes', \A c \in Clerk : IdleSame(c),
           NEW s \in Server,
           \A q \in Server \ {s} :
                /\ kvPersist'[q] = kvPersist[q] /\ seqMap'[q] = seqMap[q] /\ upTo'[q] = upTo[q]
                /\ snapshot'[q] = snapshot[q] /\ base'[q] = base[q],
           StoreTrue(committed', kvPersist'[s], seqMap'[s], upTo'[s]),
           StoreTrue(committed', snapshot'[s].value, snapshot'[s].seq, base'[s])
    PROVE  StoreInv'
<1>1. committed \in Seq(Entry) /\ committed' \in Seq(Entry) /\ Extends(committed, committed')
  BY DEF LogInv, RaftTypes, Grow
<1>2. ASSUME NEW q \in Server \ {s}
      PROVE  /\ StoreTrue(committed', kvPersist'[q], seqMap'[q], upTo'[q])
             /\ StoreTrue(committed', snapshot'[q].value, snapshot'[q].seq, base'[q])
  <2>1. /\ StoreTrue(committed, kvPersist[q], seqMap[q], upTo[q])
        /\ StoreTrue(committed, snapshot[q].value, snapshot[q].seq, base[q])
        /\ upTo[q] \in Nat /\ upTo[q] <= Len(committed)
        /\ base[q] \in Nat /\ base[q] <= Len(committed)
    BY StoreBounds DEF StoreInv
  <2>2. StoreTrue(committed', kvPersist[q], seqMap[q], upTo[q])
    BY <2>1, <1>1, StoreKept
  <2>3. StoreTrue(committed', snapshot[q].value, snapshot[q].seq, base[q])
    BY <2>1, <1>1, StoreKept
  <2> QED
    BY <2>2, <2>3
<1>3. GotAll'
  BY GotStays DEF StoreInv
<1> QED
  BY <1>2, <1>3 DEF StoreInv

(* No store changes. *)
LEMMA StoreStays ==
    ASSUME LogInv, LogInv', Grow, PathInv, StoreInv, \A c \in Clerk : IdleSame(c),
           UNCHANGED <<kvPersist, seqMap, snapshot, base, upTo>>
    PROVE  StoreInv'
<1>1. PICK s \in Server : TRUE
  BY GroupSizeAssumption DEF Server
<1>2. StoreTypes'
  BY DEF StoreInv, StoreTypes
<1>3. committed \in Seq(Entry) /\ committed' \in Seq(Entry) /\ Extends(committed, committed')
  BY DEF LogInv, RaftTypes, Grow
<1>4. /\ StoreTrue(committed, kvPersist[s], seqMap[s], upTo[s])
      /\ StoreTrue(committed, snapshot[s].value, snapshot[s].seq, base[s])
      /\ upTo[s] \in Nat /\ upTo[s] <= Len(committed)
      /\ base[s] \in Nat /\ base[s] <= Len(committed)
  BY StoreBounds DEF StoreInv
<1>5. StoreTrue(committed', kvPersist[s], seqMap[s], upTo[s])
  BY <1>3, <1>4, StoreKept
<1>6. StoreTrue(committed', snapshot[s].value, snapshot[s].seq, base[s])
  BY <1>3, <1>4, StoreKept
<1> QED
  BY <1>2, <1>5, <1>6, StoreOfOne

(* applyMsgHandlerLoop executes the next command. *)
LEMMA StoreCommand ==
    ASSUME LogInv, PathInv, ClerkInv, StoreInv, NEW s \in Server, applyCommand(s) PROVE StoreInv'
<1> DEFINE n == upTo[s]
           i == Head(batch[s])
           req == log[s][i].cmd
<1>1. /\ UNCHANGED raftVars /\ UNCHANGED <<snapshot, base, clerk>>
      /\ i > lastIncludeIndex[s] =>
            IF ifDuplicate(seqMap[s], req) THEN UNCHANGED <<kvPersist, seqMap>>
            ELSE /\ kvPersist' = [kvPersist EXCEPT ![s] = Written(@, req)]
                 /\ seqMap' = [seqMap EXCEPT ![s][req[1]] = req[2]]
  <2>1. i > lastIncludeIndex[s] => ~(i <= lastIncludeIndex[s])
    <3>1. PathTypes /\ batch[s] # <<>>
      BY DEF PathInv, applyCommand
    <3>2. batch[s] \in Seq(Nat) /\ lastIncludeIndex[s] \in Nat
      BY <3>1, PathFacts
    <3>3. i \in Nat
      BY <3>1, <3>2
    <3> QED
      BY <3>2, <3>3
  <2> QED
    BY <2>1 DEF applyCommand, diskVars
<1>2. LogInv' /\ Grow /\ \A c \in Clerk : IdleSame(c)
  BY <1>1, LogUnchanged, FlowUnchanged DEF Flow, raftVars, IdleSame, SameRequest
<1>3. \/ UNCHANGED upTo /\ UNCHANGED <<kvPersist, seqMap>>
      \/ /\ n + 1 <= Known(s) /\ i = n + 1 /\ i > lastIncludeIndex[s]
         /\ upTo' = [upTo EXCEPT ![s] = n + 1]
  BY PathCommand
<1>4. CASE UNCHANGED upTo /\ UNCHANGED <<kvPersist, seqMap>>
  BY <1>1, <1>2, <1>4, StoreStays
<1>5. CASE /\ n + 1 <= Known(s) /\ i = n + 1 /\ i > lastIncludeIndex[s]
           /\ upTo' = [upTo EXCEPT ![s] = n + 1]
  <2>1. n \in Nat /\ n + 1 <= Len(committed)
    BY <1>5, StoreBounds
  <2>2. req = committed[n + 1].cmd
    <3>1. n + 1 \in 1 .. Known(s)
      BY <2>1, <1>5, StoreBounds
    <3> QED
      BY <3>1, <1>5 DEF LogInv, KnownAgree
  <2>3. /\ kvPersist[s] \in Seq(Req) /\ seqMap[s] \in [Clerk -> Nat]
        /\ StoreTrue(committed, kvPersist[s], seqMap[s], n) /\ InOrder
        /\ StoreTrue(committed, snapshot[s].value, snapshot[s].seq, base[s])
    BY DEF StoreInv, StoreTypes, ClerkInv, AskedInv
  <2> HIDE DEF req, n
  <2>4. /\ ifDuplicate(seqMap[s], req) => StoreTrue(committed, kvPersist[s], seqMap[s], n + 1)
        /\ ~ifDuplicate(seqMap[s], req) =>
            /\ Written(kvPersist[s], req) \in Seq(Req)
            /\ [seqMap[s] EXCEPT ![req[1]] = req[2]] \in [Clerk -> Nat]
            /\ StoreTrue(committed, Written(kvPersist[s], req), [seqMap[s] EXCEPT ![req[1]] = req[2]],
                         n + 1)
    BY <2>1, <2>2, <2>3, StoreNext
  <2>5. committed' = committed /\ UNCHANGED <<snapshot, base>>
    BY <1>1 DEF raftVars
  <2>6. upTo'[s] = n + 1 /\ \A q \in Server \ {s} : upTo'[q] = upTo[q]
    BY <1>5 DEF PathInv, PathTypes
  <2>7. CASE ifDuplicate(seqMap[s], req)
    <3>1. UNCHANGED <<kvPersist, seqMap>>
      BY <2>7, <1>1, <1>5 DEF req
    <3>2. StoreTypes'
      BY <3>1, <2>5 DEF StoreInv, StoreTypes
    <3> QED
      BY <3>1, <3>2, <2>3, <2>4, <2>5, <2>6, <2>7, <1>2, StoreOfOne
  <2>8. CASE ~ifDuplicate(seqMap[s], req)
    <3> DEFINE w == Written(kvPersist[s], req)
               t == [seqMap[s] EXCEPT ![req[1]] = req[2]]
    <3>1. kvPersist' = [kvPersist EXCEPT ![s] = w] /\ seqMap' = [seqMap EXCEPT ![s] = t]
      BY <2>8, <1>1, <1>5 DEF req
    <3>2. w \in Seq(Req) /\ t \in [Clerk -> Nat] /\ StoreTrue(committed, w, t, n + 1)
      BY <2>4, <2>8
    <3> HIDE DEF w, t
    <3>3. StoreTypes'
      BY <3>1, <3>2, <2>5 DEF StoreInv, StoreTypes
    <3>4. /\ kvPersist'[s] = w /\ seqMap'[s] = t
          /\ \A q \in Server \ {s} : kvPersist'[q] = kvPersist[q] /\ seqMap'[q] = seqMap[q]
      BY <3>1 DEF StoreInv, StoreTypes
    <3> QED
      BY <3>2, <3>3, <3>4, <2>3, <2>5, <2>6, <1>2, StoreOfOne
  <2> QED
    BY <2>7, <2>8
<1> QED
  BY <1>3, <1>4, <1>5

(* Snapshot: what the store has is on disk. *)
LEMMA StoreSnapshot ==
    ASSUME LogInv, PathInv, StoreInv, NEW s \in Server, Snapshot(s) PROVE StoreInv'
<1> DEFINE d == [value |-> kvPersist[s], seq |-> seqMap[s]]
<1>1. /\ snapshot' = [snapshot EXCEPT ![s] = d]
      /\ UNCHANGED raftVars /\ UNCHANGED <<kvPersist, seqMap, upTo, clerk>>
  BY DEF Snapshot, PersistSnapShot, storeVars
<1>2. LogInv' /\ base' = [base EXCEPT ![s] = upTo[s]]
  BY PathSnapshot
<1>3. Grow /\ \A c \in Clerk : IdleSame(c)
  BY <1>1, FlowUnchanged DEF Flow, raftVars, IdleSame, SameRequest
<1>4. /\ kvPersist[s] \in Seq(Req) /\ seqMap[s] \in [Clerk -> Nat]
      /\ StoreTrue(committed, kvPersist[s], seqMap[s], upTo[s])
  BY DEF StoreInv, StoreTypes
<1>5. /\ d \in [value : Seq(Req), seq : [Clerk -> Nat]]
      /\ d.value = kvPersist[s] /\ d.seq = seqMap[s]
  BY <1>4
<1> HIDE DEF d
<1>6. StoreTypes'
  BY <1>1, <1>5 DEF StoreInv, StoreTypes
<1>7. /\ snapshot'[s] = d /\ base'[s] = upTo[s] /\ committed' = committed
      /\ \A q \in Server \ {s} : snapshot'[q] = snapshot[q] /\ base'[q] = base[q]
  BY <1>1, <1>2 DEF StoreInv, StoreTypes, LogInv, RaftTypes, raftVars
<1> QED
  BY <1>1, <1>2, <1>3, <1>4, <1>5, <1>6, <1>7, StoreOfOne

(* The store is taken from the snapshot on disk: by the loop that gets it  *)
(* or by a restart.                                                        *)
LEMMA StoreDecoded ==
    ASSUME LogInv, LogInv', Grow, committed' = committed, PathInv, StoreInv, NEW s \in Server,
           \A c \in Clerk : IdleSame(c),
           DecodeSnapShot(s, snapshot[s]), upTo' = [upTo EXCEPT ![s] = base[s]],
           UNCHANGED <<snapshot, base>>
    PROVE  StoreInv'
<1>1. /\ snapshot[s].value \in Seq(Req) /\ snapshot[s].seq \in [Clerk -> Nat]
      /\ StoreTrue(committed, snapshot[s].value, snapshot[s].seq, base[s])
  BY DEF StoreInv, StoreTypes
<1>2. StoreTypes'
  BY <1>1 DEF StoreInv, StoreTypes, DecodeSnapShot
<1>3. /\ kvPersist'[s] = snapshot[s].value /\ seqMap'[s] = snapshot[s].seq
      /\ \A q \in Server \ {s} : kvPersist'[q] = kvPersist[q] /\ seqMap'[q] = seqMap[q]
  BY DEF StoreInv, StoreTypes, DecodeSnapShot
<1>4. upTo'[s] = base[s] /\ \A q \in Server \ {s} : upTo'[q] = upTo[q]
  BY DEF PathInv, PathTypes
<1> QED
  BY <1>1, <1>2, <1>3, <1>4, StoreOfOne

(* InstallSnapshotHandler: the leader's snapshot comes with its base. *)
LEMMA StoreInstall ==
    ASSUME LogInv, PathInv, StoreInv, NEW l \in Server, NEW s \in Server, InstallSnapshot(l, s)
    PROVE  StoreInv'
<1>1. /\ snapshot' = [snapshot EXCEPT ![s] = snapshot[l]]
      /\ base' = [base EXCEPT ![s] = base[l]]
      /\ committed' = committed /\ UNCHANGED <<kvPersist, seqMap, upTo, clerk>>
  BY DEF InstallSnapshot, storeVars
<1>2. LogInv' /\ Grow
  BY LogInstall, FlowInstall DEF Flow
<1>3. \A c \in Clerk : IdleSame(c)
  BY <1>1 DEF IdleSame, SameRequest
<1>4. /\ snapshot[l] \in [value : Seq(Req), seq : [Clerk -> Nat]]
      /\ StoreTrue(committed, snapshot[l].value, snapshot[l].seq, base[l])
      /\ StoreTrue(committed, kvPersist[s], seqMap[s], upTo[s])
  BY DEF StoreInv, StoreTypes
<1>5. StoreTypes'
  BY <1>1, <1>4 DEF StoreInv, StoreTypes
<1>6. /\ snapshot'[s] = snapshot[l] /\ base'[s] = base[l]
      /\ \A q \in Server \ {s} : snapshot'[q] = snapshot[q] /\ base'[q] = base[q]
  BY <1>1 DEF StoreInv, StoreTypes, LogInv, RaftTypes
<1> QED
  BY <1>1, <1>2, <1>3, <1>4, <1>5, <1>6, StoreOfOne

(* The call returns: what had returned when it was made is in front of it  *)
(* in the log, and so in the value that a Get reads.                       *)
LEMMA StoreFinish ==
    ASSUME LogInv, PathInv, ClerkInv, StoreInv, NEW c \in Clerk, clerk[c].pc = "wait",
           Len(Channel(c)) = 1, Mine(c, Channel(c)[1]), Finish(c)
    PROVE  StoreInv'
<1> DEFINE s == clerk[c].srv
<1>1. /\ UNCHANGED <<kvPersist, seqMap, snapshot, base, upTo, committed>>
  BY DEF Finish, Leave, raftVars, diskVars, storeVars
<1>2. /\ Within(committed, upTo[s], Request(c))
      /\ clerk'[c].floor = clerk[c].floor /\ clerk'[c].got = kvPersist[s]
      /\ \A d \in Clerk \ {c} : SameRequest(d) /\ clerk'[d].got = clerk[d].got
  BY ClerksFinish DEF StoreInv
<1>3. s \in Server
  BY DEF ClerkInv, ClerkTypes, ClerkRecord
<1>4. upTo[s] \in Nat /\ ValueTrue(committed, kvPersist[s], upTo[s])
  BY <1>3, StoreBounds DEF StoreInv, StoreTrue
<1>5. PICK k \in DOMAIN committed : k <= upTo[s] /\ committed[k].cmd = Request(c)
  BY <1>2 DEF Within
<1>6. ASSUME NEW req \in clerk[c].floor, ~Overwritten(req) PROVE req \in Range(kvPersist[s])
  <2>1. Within(committed, k - 1, req) /\ req \in acked
    BY <1>5 DEF ClerkInv, AskedInv, FloorsBehind
  <2>2. PICK j \in DOMAIN committed : j <= k - 1 /\ committed[j].cmd = req
    BY <2>1 DEF Within
  <2>3. j \in Nat /\ k \in Nat
    BY TypeFacts DEF LogInv
  <2>4. j <= upTo[s]
    BY <2>2, <2>3, <1>4, <1>5
  <2>5. Op(req) # "Get"
    BY <2>1 DEF ClerkInv, AskedInv, AckedWrites
  <2> QED
    BY <2>2, <2>4, <2>5, <1>4, <1>6 DEF ValueTrue
<1>7. GotAll'
  BY <1>2, <1>6 DEF StoreInv, GotAll, SameRequest
<1> QED
  BY <1>1, <1>7 DEF StoreInv, StoreTypes
-----------------------------------------------------------------------------
(* The invariant. *)

(* Nothing has been asked.                                                 *)
LEMMA InitInv == Init => Inv
<1> SUFFICES ASSUME Init PROVE Inv
  OBVIOUS
<1>1. LogInv
  BY LogInit
<1>2. 1 \in Server /\ 0 \in Nat /\ <<>> \in Seq(Nat) /\ <<>> \in Seq(Req) /\ 1 \in Nat \ {0}
  BY GroupSizeAssumption DEF Server
<1>3. /\ lastApplied = [s \in Server |-> 0] /\ commitIndex = [s \in Server |-> 0]
      /\ log = [s \in Server |-> <<>>] /\ committed = <<>>
      /\ base = [s \in Server |-> 0]
      /\ snapshot = [s \in Server |-> [value |-> <<>>, seq |-> [c \in Clerk |-> 0]]]
      /\ batch = [s \in Server |-> <<>>] /\ install = [s \in Server |-> 0]
      /\ kvPersist = [s \in Server |-> <<>>] /\ seqMap = [s \in Server |-> [c \in Clerk |-> 0]]
      /\ lastIncludeIndex = [s \in Server |-> 0] /\ upTo = [s \in Server |-> 0]
      /\ waitChMap = [s \in Server |-> [i \in Index |-> NoChan]]
      /\ loop = [s \in Server |-> [pc |-> "receive", index |-> 0]]
      /\ clerk = [c \in Clerk |-> FreshClerk]
      /\ acked = {}
  BY DEF Init, RaftInit, Empty, Running
<1>4. PathTypes
  BY <1>2, <1>3 DEF PathTypes
<1>5. ASSUME NEW s \in Server PROVE PathAt(s)
  <2>1. Known(s) = 0
    BY <1>3 DEF Known
  <2>2. Position(0, 0, 0, 0, 0, 0, <<>>)
    BY PositionRestarted
  <2> QED
    BY <2>1, <2>2, <1>3 DEF PathAt
<1>6. PathInv
  BY <1>4, <1>5 DEF PathInv
<1>7. /\ FreshClerk \in ClerkRecord /\ FreshClerk.seq = 1 /\ FreshClerk.pc = "idle"
      /\ FreshClerk.floor = {} /\ ~FreshClerk.alone
  BY <1>2 DEF FreshClerk, ClerkRecord
<1>8. ClerkTypes
  BY <1>3, <1>7 DEF ClerkTypes
<1>9. \A c \in Clerk : clerk[c] = FreshClerk
  BY <1>3
<1>10. AskedInv
  <2>1. DOMAIN committed = {} /\ \A s \in Server : DOMAIN log[s] = {}
    BY <1>3
  <2>2. \A c \in Clerk : 1 .. clerk[c].seq - 1 = {}
    BY <1>7, <1>9
  <2> QED
    BY <2>1, <2>2, <1>3, <1>7, <1>9
       DEF AskedInv, LogsMade, ReturnedHeld, InOrder, AckedWrites, AckedKept, FloorsBehind
<1>11. ChannelsReal
  BY <1>3, <1>7, <1>9 DEF ChannelsReal
<1>12. StoreTypes
  BY <1>2, <1>3 DEF StoreTypes
<1>13. ASSUME NEW s \in Server
       PROVE  /\ StoreTrue(committed, kvPersist[s], seqMap[s], upTo[s])
              /\ StoreTrue(committed, snapshot[s].value, snapshot[s].seq, base[s])
  <2>1. DOMAIN committed = {}
    BY <1>3
  <2>2. \A c \in Clerk : 1 .. seqMap[s][c] = {} /\ 1 .. snapshot[s].seq[c] = {}
    BY <1>3
  <2> QED
    BY <2>1, <2>2, <1>3, ReplayNone DEF StoreTrue, SeqTrue, SeqFull, ValueTrue
<1>14. GotAll
  BY <1>7, <1>9 DEF GotAll
<1> QED
  BY <1>1, <1>6, <1>8, <1>10, <1>11, <1>12, <1>13, <1>14 DEF Inv, ClerkInv, StoreInv

(* Steps of the servers that leave the logs, the clerks and their channels *)
(* alone: the service moves on.                                            *)
LEMMA ServedInv ==
    ASSUME Inv, LogInv', PathInv', StoreInv', UNCHANGED <<log, committed, clerk, acked, waitChMap>>,
           \A q \in Server : upTo[q] <= upTo'[q]
    PROVE  Inv'
<1>1. Flow
  BY FlowUnchanged DEF Inv
<1>2. \A q \in Server : upTo[q] \in Int /\ upTo'[q] \in Int
  BY PathFacts DEF Inv, PathInv, PathTypes
<1>3. ClerkInv'
  BY <1>1, <1>2, ClerksServed DEF Inv
<1> QED
  BY <1>3 DEF Inv

(* applyLog. *)
LEMMA StepApply == ASSUME Inv, NEW s \in Server, applyLog(s) PROVE Inv'
<1>1. /\ lastApplied' = [lastApplied EXCEPT ![s] = commitIndex[s]]
      /\ UNCHANGED <<currentTerm, isLeader, log, commitIndex, committed, base, snapshot,
                     kvPersist, seqMap, upTo, clerk, acked, waitChMap>>
  BY DEF applyLog, diskVars, storeVars
<1>2. RaftTypes'
  BY <1>1 DEF Inv, LogInv, RaftTypes
<1>3. \A q \in Server : Known(q)' = Known(q)
  BY <1>1 DEF Known
<1>4. LogInv'
  BY <1>1, <1>2, <1>3, LogServed DEF Inv
<1>5. PathInv'
  BY <1>2, PathApply DEF Inv
<1>6. Grow /\ \A c \in Clerk : IdleSame(c)
  BY <1>1, FlowUnchanged DEF Inv, Flow, IdleSame, SameRequest
<1>7. StoreInv'
  BY <1>1, <1>4, <1>6, StoreStays DEF Inv
<1>8. \A q \in Server : upTo[q] <= upTo'[q]
  BY <1>1, PathFacts DEF Inv, PathInv
<1> QED
  BY <1>1, <1>4, <1>5, <1>7, <1>8, ServedInv

(* applyMsgHandlerLoop, a command. *)
LEMMA StepCommand == ASSUME Inv, NEW s \in Server, applyCommand(s) PROVE Inv'
<1>1. UNCHANGED raftVars /\ UNCHANGED <<base, clerk, acked, waitChMap>>
  BY DEF applyCommand, diskVars
<1>2. LogInv'
  BY <1>1, LogUnchanged DEF Inv
<1>3. PathInv' /\ StoreInv'
  BY PathCommand, StoreCommand DEF Inv
<1>4. \A q \in Server : upTo[q] <= upTo'[q]
  <2>1. upTo' = upTo \/ upTo' = [upTo EXCEPT ![s] = upTo[s] + 1]
    BY PathCommand DEF Inv
  <2>2. upTo \in [Server -> Nat]
    BY DEF Inv, PathInv, PathTypes
  <2> QED
    BY <2>1, <2>2
<1> QED
  BY <1>1, <1>2, <1>3, <1>4, ServedInv DEF raftVars

(* Snapshot. *)
LEMMA StepSnapshot == ASSUME Inv, NEW s \in Server, Snapshot(s) PROVE Inv'
<1>1. UNCHANGED raftVars /\ UNCHANGED <<upTo, clerk, acked, waitChMap>>
  BY DEF Snapshot, storeVars
<1>2. LogInv' /\ PathInv' /\ StoreInv'
  BY PathSnapshot, StoreSnapshot DEF Inv
<1>3. \A q \in Server : upTo[q] <= upTo'[q]
  BY <1>1, PathFacts DEF Inv, PathInv
<1> QED
  BY <1>1, <1>2, <1>3, ServedInv DEF raftVars

(* applyMsgHandlerLoop, a snapshot. *)
LEMMA StepCatchUp == ASSUME Inv, NEW s \in Server, applySnapshot(s) PROVE Inv'
<1>1. /\ UNCHANGED raftVars /\ UNCHANGED <<base, snapshot, clerk, acked, waitChMap>>
      /\ DecodeSnapShot(s, snapshot[s])
  BY DEF applySnapshot, diskVars
<1>2. LogInv' /\ Grow /\ \A c \in Clerk : IdleSame(c)
  BY <1>1, LogUnchanged, FlowUnchanged DEF Inv, Flow, raftVars, IdleSame, SameRequest
<1>3. PathInv' /\ upTo[s] <= base[s] /\ upTo' = [upTo EXCEPT ![s] = base[s]]
  BY PathCatchUp DEF Inv
<1>4. StoreInv'
  BY <1>1, <1>2, <1>3, StoreDecoded DEF Inv, raftVars
<1>5. \A q \in Server : upTo[q] <= upTo'[q]
  <2>1. upTo \in [Server -> Nat] /\ base[s] \in Nat
    BY StoreBounds DEF Inv, PathInv, PathTypes
  <2> QED
    BY <2>1, <1>3
<1> QED
  BY <1>1, <1>2, <1>3, <1>4, <1>5, ServedInv DEF raftVars

(* kv.getWaitCh(index) <- op. *)
LEMMA StepNotify == ASSUME Inv, NEW s \in Server, Notify(s) PROVE Inv'
<1>1. UNCHANGED raftVars /\ UNCHANGED <<base, snapshot, kvPersist, seqMap, upTo, clerk>>
  BY DEF Notify, diskVars, storeVars
<1>2. LogInv' /\ Grow /\ \A c \in Clerk : IdleSame(c)
  BY <1>1, LogUnchanged, FlowUnchanged DEF Inv, Flow, raftVars, IdleSame, SameRequest
<1>3. PathInv' /\ ClerkInv'
  BY PathNotify, ClerksNotified DEF Inv
<1>4. StoreInv'
  BY <1>1, <1>2, StoreStays DEF Inv
<1> QED
  BY <1>2, <1>3, <1>4 DEF Inv

(* Elections, replication and commitment. *)
LEMMA StepRaft ==
    ASSUME Inv, LogInv', Flow, \A q \in Server : commitIndex[q] <= commitIndex'[q],
           lastApplied' = lastApplied,
           UNCHANGED <<diskVars, batch, install, storeVars, waitChMap, loop, clerk, troubles, acked>>
    PROVE  Inv'
<1>1. UNCHANGED <<base, snapshot, batch, install, loop, clerk, acked, waitChMap,
                  kvPersist, seqMap, lastIncludeIndex, upTo>>
  BY DEF diskVars, storeVars
<1>2. \A q \in Server : Known(q) <= Known(q)'
  BY <1>1, KnownGrows DEF Inv
<1>3. PathInv'
  BY <1>1, <1>2, PathLearns DEF Inv, LogInv
<1>4. Grow /\ \A c \in Clerk : IdleSame(c)
  BY <1>1 DEF Flow, IdleSame, SameRequest
<1>5. StoreInv'
  BY <1>1, <1>4, StoreStays DEF Inv
<1>6. \A q \in Server : upTo[q] \in Int /\ upTo'[q] \in Int /\ upTo[q] <= upTo'[q]
  BY <1>1, PathFacts DEF Inv, PathInv
<1>7. ClerkInv'
  BY <1>1, <1>6, ClerksServed DEF Inv
<1> QED
  BY <1>3, <1>5, <1>7 DEF Inv

(* An election moves terms and offices only.                               *)
LEMMA StepElect ==
    ASSUME Inv, NEW s \in Server, RaftStep(Elect(s))
    PROVE  Inv'
<1>1. /\ Elect(s)
      /\ UNCHANGED <<diskVars, batch, install, storeVars, waitChMap, loop, clerk, troubles, acked>>
  BY DEF RaftStep
<1>2. UNCHANGED <<log, commitIndex, committed, lastApplied, base>>
  BY <1>1 DEF Elect, diskVars
<1>3. LogInv' /\ Flow
  BY <1>1, <1>2, LogElect, FlowUnchanged DEF Inv
<1>4. \A q \in Server : commitIndex[q] <= commitIndex'[q]
  BY <1>2, TypeFacts DEF Inv, LogInv
<1> QED
  BY <1>1, <1>2, <1>3, <1>4, StepRaft

(* What a follower takes over from the leader leaves what it applied.      *)
LEMMA StepReplicate ==
    ASSUME Inv, NEW l \in Server, NEW s \in Server,
           RaftStep(Len(log[s]) >= base[l] /\ Replicate(l, s))
    PROVE  Inv'
<1>1. /\ Replicate(l, s)
      /\ UNCHANGED <<diskVars, batch, install, storeVars, waitChMap, loop, clerk, troubles, acked>>
  BY DEF RaftStep
<1>2. /\ commitIndex' = [commitIndex EXCEPT ![s] = IF @ < commitIndex[l] THEN commitIndex[l] ELSE @]
      /\ UNCHANGED <<lastApplied, base>>
  BY <1>1 DEF Replicate, diskVars
<1>3. LogInv' /\ Flow
  BY <1>1, <1>2, LogReplicate, FlowReplicate DEF Inv
<1>4. \A q \in Server : commitIndex[q] <= commitIndex'[q]
  BY <1>2, SMTT(120) DEF Inv, LogInv, RaftTypes
<1> QED
  BY <1>1, <1>2, <1>3, <1>4, StepRaft

(* The committed log grows, and nothing that was in it changes.            *)
LEMMA StepCommit ==
    ASSUME Inv, NEW s \in Server, RaftStep(Commit(s))
    PROVE  Inv'
<1>1. /\ Commit(s)
      /\ UNCHANGED <<diskVars, batch, install, storeVars, waitChMap, loop, clerk, troubles, acked>>
  BY DEF RaftStep
<1>2. PICK n \in commitIndex[s] + 1 .. Len(log[s]) : commitIndex' = [commitIndex EXCEPT ![s] = n]
  BY <1>1 DEF Commit
<1>3. UNCHANGED <<lastApplied, base>>
  BY <1>1 DEF Commit, diskVars
<1>4. LogInv' /\ Flow
  BY <1>1, <1>3, LogCommit, FlowCommit DEF Inv
<1>5. \A q \in Server : commitIndex[q] <= commitIndex'[q]
  <2>1. commitIndex[s] \in Nat /\ Len(log[s]) \in Nat /\ commitIndex[s] <= n
    BY <1>2, TypeFacts DEF Inv, LogInv
  <2> QED
    BY <2>1, <1>2 DEF Inv, LogInv, RaftTypes
<1> QED
  BY <1>1, <1>3, <1>4, <1>5, StepRaft

(* InstallSnapshotHandler. *)
LEMMA StepInstall ==
    ASSUME Inv, NEW l \in Server, NEW s \in Server, InstallSnapshot(l, s) PROVE Inv'
<1>1. UNCHANGED <<upTo, clerk, acked, waitChMap>>
  BY DEF InstallSnapshot, storeVars
<1>2. LogInv' /\ Flow /\ PathInv' /\ StoreInv'
  BY LogInstall, FlowInstall, PathInstall, StoreInstall DEF Inv
<1>3. \A q \in Server : upTo[q] \in Int /\ upTo'[q] \in Int /\ upTo[q] <= upTo'[q]
  BY <1>1, PathFacts DEF Inv, PathInv
<1>4. ClerkInv'
  BY <1>1, <1>2, <1>3, ClerksServed DEF Inv
<1> QED
  BY <1>2, <1>4 DEF Inv

(* Kill and StartKVServer. *)
LEMMA StepRestart == ASSUME Inv, NEW s \in Server, StartedAgain(s) PROVE Inv'
<1>1. /\ UNCHANGED <<committed, base, snapshot>> /\ upTo' = [upTo EXCEPT ![s] = base[s]]
      /\ DecodeSnapShot(s, snapshot[s])
  BY DEF StartedAgain, diskVars
<1>2. LogInv' /\ Grow /\ PathInv'
  BY LogRestart, FlowRestart, PathRestart DEF Inv, Flow
<1>3. ClerkInv' /\ \A c \in Clerk : IdleSame(c)
  BY ClerksRestart DEF Inv
<1>4. StoreInv'
  BY <1>1, <1>2, <1>3, StoreDecoded DEF Inv
<1> QED
  BY <1>2, <1>3, <1>4 DEF Inv

(* A clerk or its handler moves; of Raft at most a log grows. *)
LEMMA StepClerk ==
    ASSUME Inv, LogInv', Grow, ClerkInv', \A q \in Server : Known(q)' = Known(q),
           UNCHANGED <<lastApplied, diskVars, batch, install, storeVars, loop>>,
           \A c \in Clerk : IdleSame(c)
    PROVE  Inv'
<1>1. UNCHANGED <<base, snapshot, batch, install, loop, kvPersist, seqMap, lastIncludeIndex, upTo>>
  BY DEF diskVars, storeVars
<1>2. \A q \in Server : Known(q) <= Known(q)'
  BY TypeFacts DEF Inv, LogInv
<1>3. PathInv'
  BY <1>1, <1>2, PathLearns DEF Inv, LogInv
<1>4. StoreInv'
  BY <1>1, StoreStays DEF Inv
<1> QED
  BY <1>3, <1>4 DEF Inv

(* Every step of a clerk. *)
LEMMA ClerkSteps == ASSUME Inv, NEW c \in Clerk, ClerkStep(c) PROVE Inv'
<1>1. ASSUME UNCHANGED <<raftVars, diskVars, batch, install, storeVars, loop>>, ClerkInv',
             \A d \in Clerk : IdleSame(d)
      PROVE  Inv'
  <2>1. UNCHANGED <<log, commitIndex, committed, base, lastApplied>>
    BY <1>1 DEF raftVars, diskVars
  <2>2. LogInv' /\ Grow /\ \A q \in Server : Known(q)' = Known(q)
    BY <2>1, <1>1, LogUnchanged, FlowUnchanged DEF Inv, Flow, Known
  <2> QED
    BY <2>1, <2>2, <1>1, StepClerk
<1>2. CASE Invoke(c)
  BY <1>1, <1>2, ClerksInvoke DEF Inv, Invoke
<1>3. CASE CallFails(c)
  BY <1>1, <1>3, ClerksRetry DEF Inv, CallFails
<1>4. CASE Start(c)
  <2>1. /\ LogInv' /\ ClerkInv' /\ UNCHANGED <<commitIndex, committed>>
        /\ \A d \in Clerk : IdleSame(d)
    BY <1>4, ClerksStart DEF Inv
  <2>2. UNCHANGED <<lastApplied, diskVars, batch, install, storeVars, loop>>
    BY <1>4 DEF Start, AppendToLog
  <2>3. Grow /\ \A q \in Server : Known(q)' = Known(q)
    BY <2>1, <2>2, TypeFacts DEF Inv, LogInv, Grow, Extends, Known, diskVars
  <2> QED
    BY <2>1, <2>2, <2>3, StepClerk
<1>5. CASE Wait(c)
  BY <1>1, <1>5, ClerksWait DEF Inv, Wait
<1>6. CASE Receive(c)
  <2>1. clerk[c].pc = "wait" /\ Len(Channel(c)) = 1
    BY <1>6 DEF Receive
  <2>2. CASE Mine(c, Channel(c)[1]) /\ Finish(c)
    <3>1. UNCHANGED <<raftVars, diskVars, batch, install, storeVars, loop>>
      BY <2>2 DEF Finish, Leave
    <3>2. ClerkInv' /\ StoreInv'
      BY <2>1, <2>2, ClerksFinish, StoreFinish DEF Inv, StoreInv
    <3>3. LogInv'
      BY <3>1, LogUnchanged DEF Inv, diskVars
    <3>4. PathInv'
      <4>1. \A q \in Server : Known(q) <= Known(q)'
        BY <3>1, TypeFacts DEF Inv, LogInv, Known, raftVars, diskVars
      <4> QED
        BY <3>1, <3>3, <4>1, PathLearns DEF Inv, LogInv, raftVars, diskVars, storeVars
    <3> QED
      BY <3>2, <3>3, <3>4 DEF Inv
  <2>3. CASE Leave(c, AtNext(clerk[c]), <<>>) /\ UNCHANGED acked
    <3>1. Real(committed, upTo[clerk[c].srv], <<>>)
      BY DEF Real
    <3>2. ClerkInv' /\ \A d \in Clerk : IdleSame(d)
      BY <2>1, <2>3, <3>1, ClerksGiveUp DEF Inv
    <3>3. UNCHANGED <<raftVars, diskVars, batch, install, storeVars, loop>>
      BY <2>3 DEF Leave
    <3> QED
      BY <3>2, <3>3, <1>1
  <2> QED
    BY <2>2, <2>3, <1>6 DEF Receive
<1>7. CASE Timeout(c)
  <2>1. clerk[c].pc = "wait" /\ Leave(c, AtNext(clerk[c]), Channel(c)) /\ acked' = acked
    BY <1>7 DEF Timeout
  <2>2. Real(committed, upTo[clerk[c].srv], Channel(c))
    BY <2>1 DEF Inv, ClerkInv, ChannelsReal
  <2>3. ClerkInv' /\ \A d \in Clerk : IdleSame(d)
    BY <2>1, <2>2, ClerksGiveUp DEF Inv
  <2>4. UNCHANGED <<raftVars, diskVars, batch, install, storeVars, loop>>
    BY <2>1 DEF Leave
  <2> QED
    BY <2>3, <2>4, <1>1
<1> QED
  BY <1>2, <1>3, <1>4, <1>5, <1>6, <1>7 DEF ClerkStep

(* Every step of a server. *)
LEMMA ServerSteps == ASSUME Inv, NEW s \in Server, ServerStep(s) PROVE Inv'
<1>1. CASE \E l \in Server : \/ RaftStep(Len(log[s]) >= base[l] /\ Replicate(l, s))
                             \/ InstallSnapshot(l, s) \/ Panic(l, s)
  BY <1>1, StepReplicate, StepInstall, StepRestart DEF Panic
<1>2. CASE RaftStep(Elect(s)) \/ RaftStep(Commit(s)) \/ Restart(s)
  BY <1>2, StepElect, StepCommit, StepRestart DEF Restart
<1>3. CASE applyLog(s) \/ applyCommand(s) \/ Snapshot(s) \/ Notify(s) \/ applySnapshot(s)
  BY <1>3, StepApply, StepCommand, StepSnapshot, StepNotify, StepCatchUp
<1> QED
  BY <1>1, <1>2, <1>3 DEF ServerStep

(* A step that changes nothing. *)
LEMMA StutterInv == ASSUME Inv, UNCHANGED vars PROVE Inv'
<1>1. UNCHANGED <<raftVars, diskVars, batch, install, storeVars, waitChMap, loop, clerk, troubles, acked>>
  BY DEF vars
<1>2. UNCHANGED <<currentTerm, isLeader, log, commitIndex, committed, lastApplied, base>>
  BY <1>1 DEF raftVars, diskVars
<1>3. LogInv' /\ Flow /\ \A q \in Server : commitIndex[q] <= commitIndex'[q]
  BY <1>2, LogUnchanged, FlowUnchanged, TypeFacts DEF Inv, LogInv, raftVars
<1> QED
  BY <1>1, <1>2, <1>3, StepRaft

(* Every reachable state satisfies the inductive invariant: the log that   *)
(* servers know to be committed is the committed one, what is on its way   *)
(* to a store continues it, requests are committed in their clerk's order, *)
(* and stores and snapshots hold what their index says.                    *)
THEOREM Invariant == Spec => []Inv
<1>1. Init => Inv
  BY InitInv
<1>2. Inv /\ [Next]_vars => Inv'
  <2> SUFFICES ASSUME Inv, [Next]_vars PROVE Inv'
    OBVIOUS
  <2>1. CASE \E c \in Clerk : ClerkStep(c)
    BY <2>1, ClerkSteps
  <2>2. CASE \E s \in Server : ServerStep(s)
    BY <2>2, ServerSteps
  <2>3. CASE UNCHANGED vars
    BY <2>3, StutterInv
  <2> QED
    BY <2>1, <2>2, <2>3 DEF Next
<1> QED
  BY <1>1, <1>2, PTL DEF Spec

(* server.go:132-140: a Put or Append that returned is in the committed    *)
(* log for good, through elections, overwritten entries, restarts,         *)
(* snapshots and indexes given out twice.                                  *)
THEOREM AcksKept == Spec => []AckedKept
<1>1. Inv => AckedKept
  BY DEF Inv, ClerkInv, AskedInv
<1> QED
  BY <1>1, Invariant, PTL

(* server.go:86-97: a Get returns every write that had returned when it    *)
(* was called, unless a Put may have replaced it.                          *)
THEOREM GetsNew == Spec => []GetsFresh
<1>1. Inv => GetsFresh
  BY DEF Inv, StoreInv, GotAll, GetsFresh
<1> QED
  BY <1>1, Invariant, PTL

(* A server's store is what the committed log up to the entry it has       *)
(* executed says, each request counting once, and its snapshot what the    *)
(* log up to the snapshot's base says (server.go:253-280, 206-209).        *)
THEOREM StoresExact == Spec => []StoreExact
<1>1. Inv => StoreExact
  BY DEF Inv, StoreInv, StoreTrue, StoreExact
<1> QED
  BY <1>1, Invariant, PTL
=============================================================================
