--------------------------- MODULE ReplicatedLog ---------------------------
(***************************************************************************)
(* What a service built on src/raft/raft.go sees of its Raft group: a log  *)
(* per server whose entries may be overwritten until they are committed,   *)
(* leaders that come and go, a leader that has lost its office and does    *)
(* not know it, and committed prefixes that agree.                         *)
(*                                                                         *)
(* Module Raft has the messages, votes and critical sections; here an      *)
(* election, and a round of AppendEntries with its retries, are one step   *)
(* each, and committed stands for what majorities hold: whoever is elected *)
(* has it in its log (ElectableHoldsCommitted of Raft), and only the       *)
(* newest leader can add to it, as every majority has a member that has    *)
(* heard of that leader's term.  Server are the servers a run looks at;    *)
(* the group may have others, which vote and store but serve nobody.       *)
(***************************************************************************)
EXTENDS Integers, FiniteSets, SequencesExt

CONSTANTS
    NServers, \* servers that are modelled
    MaxTerm,  \* bound: terms
    MaxLog    \* bound: Start appends to logs shorter than this

ASSUME GroupSizeAssumption == NServers \in Nat \ {0}
ASSUME LogBoundAssumption == MaxTerm \in Nat /\ MaxLog \in Nat

(* Numbered in the order in which clerks try them. *)
Server == 1 .. NServers

VARIABLES
    currentTerm, isLeader, log, commitIndex, lastApplied,  \* of each server
    committed                                              \* history: entries that are committed

raftVars == <<currentTerm, isLeader, log, commitIndex, lastApplied, committed>>

LastTermOf(l) == IF l = <<>> THEN -1 ELSE Last(l).term

(* The log lc of a candidate is good enough for a voter whose log is lv.   *)
AtLeastAsGood(lc, lv) ==
    \/ LastTermOf(lc) > LastTermOf(lv)
    \/ LastTermOf(lc) = LastTermOf(lv) /\ Len(lc) >= Len(lv)

RaftInit ==
    /\ currentTerm = [s \in Server |-> 0]
    /\ isLeader = [s \in Server |-> FALSE]
    /\ log = [s \in Server |-> <<>>]
    /\ commitIndex = [s \in Server |-> 0]
    /\ lastApplied = [s \in Server |-> 0]
    /\ committed = <<>>

(* Mutant: nobody compares logs. *)
Elect_AnyLog(s) ==
    \E newest \in Server, voters \in SUBSET Server :
        LET t == currentTerm[newest] + 1
        IN  /\ \A q \in Server : currentTerm[q] < t
            /\ t <= MaxTerm
            /\ s \in voters
            /\ currentTerm' = [q \in Server |-> IF q \in voters THEN t ELSE currentTerm[q]]
            /\ isLeader' = [q \in Server |-> IF q \in voters THEN q = s ELSE isLeader[q]]
            /\ UNCHANGED <<log, commitIndex, lastApplied, committed>>

(* RunForElection that succeeds in a new term: voters are the servers      *)
(* looked at that voted for s.  A leader that did not vote keeps thinking  *)
(* that it leads.                                                          *)
Elect(s) ==
    \E newest \in Server, voters \in SUBSET Server :
        LET t == currentTerm[newest] + 1
        IN  /\ \A q \in Server : currentTerm[q] < t
            /\ t <= MaxTerm
            /\ s \in voters
            /\ IsPrefix(committed, log[s])
            /\ \A q \in voters : AtLeastAsGood(log[s], log[q])
            /\ currentTerm' = [q \in Server |-> IF q \in voters THEN t ELSE currentTerm[q]]
            /\ isLeader' = [q \in Server |-> IF q \in voters THEN q = s ELSE isLeader[q]]
            /\ UNCHANGED <<log, commitIndex, lastApplied, committed>>

(* AppendEntries: s takes over what its leader has, and throws away what   *)
(* it holds beyond that only if the logs conflict.                         *)
Replicate(l, s) ==
    /\ l # s
    /\ isLeader[l]
    /\ currentTerm[l] >= currentTerm[s]
    /\ currentTerm' = [currentTerm EXCEPT ![s] = currentTerm[l]]
    /\ isLeader' = [isLeader EXCEPT ![s] = FALSE]
    /\ log' = [log EXCEPT ![s] = IF IsPrefix(log[l], @) THEN @ ELSE log[l]]
    /\ commitIndex' = [commitIndex EXCEPT ![s] = IF @ < commitIndex[l] THEN commitIndex[l] ELSE @]
    /\ UNCHANGED <<lastApplied, committed>>

(* The newest leader commits up to an entry of its own term. *)
Commit(l) ==
    /\ isLeader[l]
    /\ \A q \in Server : currentTerm[q] <= currentTerm[l]
    /\ \E n \in commitIndex[l] + 1 .. Len(log[l]) :
        /\ log[l][n].term = currentTerm[l]
        /\ commitIndex' = [commitIndex EXCEPT ![l] = n]
        /\ committed' = SubSeq(log[l], 1, n)
    /\ UNCHANGED <<currentTerm, isLeader, log, lastApplied>>

(* Start on a leader: the entry goes to index Len(log[s]) + 1. *)
AppendToLog(s, cmd) ==
    /\ Len(log[s]) < MaxLog
    /\ log' = [log EXCEPT ![s] = Append(@, [cmd |-> cmd, term |-> currentTerm[s]])]
    /\ UNCHANGED <<currentTerm, isLeader, commitIndex, lastApplied, committed>>

(* The applier sends the next committed entry on applyCh. *)
ApplyNext(s) ==
    /\ lastApplied[s] < commitIndex[s]
    /\ lastApplied' = [lastApplied EXCEPT ![s] = @ + 1]
    /\ UNCHANGED <<currentTerm, isLeader, log, commitIndex, committed>>

(* Kill and Make: term and log come back from the Persister. *)
RestartRaft(s) ==
    /\ isLeader' = [isLeader EXCEPT ![s] = FALSE]
    /\ commitIndex' = [commitIndex EXCEPT ![s] = 0]
    /\ lastApplied' = [lastApplied EXCEPT ![s] = 0]
    /\ UNCHANGED <<currentTerm, log, committed>>

-----------------------------------------------------------------------------

(* The entries a server takes for committed are in its log and are the     *)
(* committed ones: what applyCh delivers is the same everywhere, across    *)
(* elections that throw entries away.                                      *)
CommittedAgree ==
    \A s \in Server : \A i \in 1 .. commitIndex[s] :
        i <= Len(log[s]) /\ i <= Len(committed) /\ log[s][i] = committed[i]
=============================================================================
