------------------------------ MODULE MCLab2D ------------------------------
(* Lab2D on small instances. *)
EXTENDS Lab2D

CONSTANTS s1, s2, s3

(* Only s1 and s2 run for election; s3 votes. *)
Exchange == Permutations({s1, s2})

(* What follows once a ticker is out of step is left aside: the invariants *)
(* say nothing of it.                                                      *)
InStep == ~outOfStep

(* What can still matter of a ticker in step: nothing of a follower in the *)
(* last term; else a reply is followed only in the case of a candidate,    *)
(* and never once it is of an earlier term than the server, and a          *)
(* goroutine asks only in the campaign it was started in.                  *)
Matters(s) ==
    IF rf[s].role # "Candidate" /\ rf[s].term = MaxTerm THEN NewTicker
    ELSE [ticker[s] EXCEPT !.heard = IF ticker[s].candidate /\ @ >= rf[s].term THEN @ ELSE 0,
                           !.asking = @ \cap {t \in {rf[s].term} : rf[s].role = "Candidate"}]

(* An election sets them anew. *)
OfLeaders(index) == [s \in Server |-> IF rf[s].role = "Leader" THEN index[s] ELSE <<>>]

(* A server that will not be started again reads nothing of its disk. *)
Disks ==
    IF rounds < MaxRounds \/ \E m \in net : m.type = "install" THEN disk
    ELSE [s \in Server |-> disk[s].log]

(* Nothing in the run depends on more of the state, ballots being history. *)
View ==
    <<rf, Disks, snapshot, OfLeaders(nextIndex), OfLeaders(matchIndex), net, applied, boundVars, elected,
      [s \in Server |-> Matters(s)], outOfStep>>

(* raft.go:1127: no snapshot under way is older than that of the server it *)
(* goes to and would be accepted; the code does not see to it              *)
(* (MCLab2D_old_snapshot.cfg).                                             *)
NoPanic ==
    \A m \in net : m.type = "install" /\ rf[m.to].term <= m.term => ~Panics(Followed(rf[m.to], m.term), m)
=============================================================================
