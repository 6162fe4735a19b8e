------------------------- MODULE Lab2DProofs --------------------------
(***************************************************************************)
(* raft-Lab2D, for every set of servers and every bound.                   *)
(*                                                                         *)
(* All of it holds until a ticker is out of step, that is, until it has    *)
(* followed a term after the server had gone on, or a goroutine has asked  *)
(* for votes in another campaign than its own; the code can be brought to  *)
(* that (MCLab2D_ticker.cfg).                                              *)
(*                                                                         *)
(* First the elections: two servers never lead in one term, although a     *)
(* candidate's term and vote are only in memory until something else is    *)
(* persisted, a candidate that hears of a leader forgets its vote, and     *)
(* replies are merely counted.  What saves it: a vote for another server   *)
(* is persisted before it is sent, and so is the office; of a candidate    *)
(* that is killed nobody waits for the replies; and a candidate in step    *)
(* asks once.                                                              *)
(*                                                                         *)
(* Then the logs: what two servers apply never differs, nor does what a    *)
(* majority has on disk ever lack what one of them has applied.            *)
(***************************************************************************)
EXTENDS Lab2D, TLAPS, FiniteSetTheorems, SequenceTheorems, WellFoundedInduction

\* The roles a server plays.
Role == {"Follower", "Candidate", "Leader"}

\* A server's fields; what its log is does not matter here.
Field == {"role", "term", "vote", "count", "log", "commit", "lastApplied"}

\* Types: what a server holds in memory, ...
IsRaft(r) ==
  /\ r = [f \in Field |-> r[f]]
  /\ r.role \in Role /\ r.term \in Nat /\ r.vote \in Server \cup {Nobody} /\ r.count \in Nat

\* ... and on disk, ...
IsDisk(d) ==
  /\ d.term \in Nat /\ d.vote \in Server \cup {Nobody}

\* ... a message, ...
IsMessage(m) ==
  /\ m.from \in Server /\ m.to \in Server /\ m.from # m.to /\ m.term \in Nat
  /\ m.type \in Requests =>
       m.waits \in BOOLEAN /\ {"type", "from", "to", "waits", "term"} \subseteq DOMAIN m
  /\ m.type \notin Requests => m.rterm \in Nat
  /\ m.type = "voted" => m.ok \in BOOLEAN

\* ... and all of the state.
Types ==
  /\ rf = [s \in Server |-> rf[s]] /\ disk = [s \in Server |-> disk[s]]
  /\ \A s \in Server : IsRaft(rf[s]) /\ IsDisk(disk[s])
  /\ \A m \in net : IsMessage(m)
  /\ elected \subseteq Nat \X Server
  /\ ballots \subseteq Server \X Nat \X Server

\* Whoever has, or will read, the fields of r has not forgotten a vote for c in term t.
Remembers(r, t, c) == r.term > t \/ (r.term = t /\ r.vote = c)

\* Votes for others are remembered, on disk too, and bar the voter from running in the
\* term; there is one in a term.
VotesKept ==
  \A v, c \in Server, t \in Nat : <<v, t, c>> \in ballots =>
    /\ v # c /\ Remembers(rf[v], t, c) /\ Remembers(disk[v], t, c)
    /\ rf[v].term = t => rf[v].role = "Follower"
    /\ \A d \in Server : <<v, t, d>> \in ballots => c = d

\* All of Q but c itself voted for c.
Elects(Q, t, c) == \A v \in Q \ {c} : <<v, t, c>> \in ballots

\* So is the office: whoever was elected remembers its own vote, never votes for another,
\* and has been elected by a majority.
OfficesKept ==
  \A c \in Server, t \in Nat : <<t, c>> \in elected =>
    /\ Remembers(rf[c], t, c) /\ Remembers(disk[c], t, c)
    /\ rf[c].term = t => rf[c].role # "Candidate"
    /\ \A d \in Server : <<c, t, d>> \notin ballots
    /\ \E Q \in SUBSET Server : 2 * Cardinality(Q) > Cardinality(Server) /\ Elects(Q, t, c)

\* m is a request of s for v's vote in term t that s waits for, or the answer.
Open(m, s, v, t) ==
  m.term = t /\ \/ m.type = "vote" /\ m.from = s /\ m.to = v /\ m.waits
                \/ m.type = "voted" /\ m.from = v /\ m.to = s

\* A server asks each other one once in a term, in the terms it has been in since it was
\* started, and an answer that grants the vote stands for a vote.
AskedOnce ==
  /\ \A s, v \in Server, t \in Nat : \A m \in net : Open(m, s, v, t) =>
       /\ t <= rf[s].term
       /\ \A n \in net : Open(n, s, v, t) => m = n
  /\ \A m \in net : m.type = "voted" /\ m.ok => <<m.from, m.term, m.to>> \in ballots

\* A candidate voted for itself and has counted servers, itself among them, that voted
\* for it and that it waits for no more.
Tally(s, C) ==
  /\ s \in C /\ Cardinality(C) = rf[s].count
  /\ Elects(C, rf[s].term, s)
  /\ \A v \in C \ {s} : \A m \in net : ~Open(m, s, v, rf[s].term)

CountsTrue ==
  \A s \in Server : rf[s].role = "Candidate" =>
    rf[s].vote = s /\ \E C \in SUBSET Server : Tally(s, C)

\* The goroutines of a server that have yet to ask for votes.
IsTicker(k) ==
  k = [f \in {"candidate", "heard", "resp", "asking"} |-> k[f]] /\ k.asking \subseteq Nat

\* In the term of such a goroutine nothing has been asked, nor counted but the server's own vote.
Unasked(s, t) ==
  /\ t <= rf[s].term
  /\ \A v \in Server : \A m \in net : ~Open(m, s, v, t)
  /\ rf[s].role = "Candidate" /\ rf[s].term = t => rf[s].count = 1

YetToAsk ==
  /\ ticker = [s \in Server |-> ticker[s]] /\ \A s \in Server : IsTicker(ticker[s])
  /\ \A s \in Server : \A t \in ticker[s].asking : Unasked(s, t)

Inv == Types /\ VotesKept /\ OfficesKept /\ AskedOnce /\ CountsTrue /\ YetToAsk
-----------------------------------------------------------------------------
(* One server goes on with the fields r. *)

\* s has the fields r in memory, and perhaps on disk.
Goes(s, r) ==
  rf' = [rf EXCEPT ![s] = r] /\ disk' \in {disk, [disk EXCEPT ![s] = Saved(r)]}

\* r leaves the role, term and vote of q alone, or makes a follower of a later term or of
\* a candidate.
Stays(q, r) ==
  \/ r.role = q.role /\ r.term = q.term /\ r.vote = q.vote /\ r.count = q.count
  \/ r.role = "Follower" /\ r.term > q.term
  \/ r.role = "Follower" /\ r.term = q.term /\ q.role = "Candidate"

\* All that votes and offices need of it: a candidate does not lead, nor is a vote taken
\* back by another than a candidate.
Keeps(q, r) ==
  \/ r.role = q.role /\ r.term = q.term /\ r.vote = q.vote
  \/ r.term > q.term
  \/ r.role = "Follower" /\ r.term = q.term /\ q.role = "Candidate"

\* What becomes of each server's fields.
LEMMA FieldsStep ==
  ASSUME Types, NEW s \in Server, NEW r, IsRaft(r), Goes(s, r)
  PROVE  /\ rf' = [v \in Server |-> rf'[v]] /\ disk' = [v \in Server |-> disk'[v]]
         /\ rf'[s] = r /\ disk'[s] \in {disk[s], Saved(r)}
         /\ \A v \in Server \ {s} : rf'[v] = rf[v] /\ disk'[v] = disk[v]
         /\ \A v \in Server : IsRaft(rf'[v]) /\ IsDisk(disk'[v])
         /\ Saved(r).term = r.term /\ Saved(r).vote = r.vote
  <1>1. rf' = [v \in Server |-> rf'[v]] /\ disk' = [v \in Server |-> disk'[v]]
    BY DEF Types, Goes
  <1>2. rf'[s] = r /\ \A v \in Server \ {s} : rf'[v] = rf[v]
    BY DEF Types, Goes
  <1>3. disk'[s] \in {disk[s], Saved(r)} /\ \A v \in Server \ {s} : disk'[v] = disk[v]
    BY DEF Types, Goes
  <1>4. IsDisk(Saved(r)) /\ Saved(r).term = r.term /\ Saved(r).vote = r.vote
    BY DEF Saved, IsDisk, IsRaft
  <1>5. \A v \in Server : IsRaft(rf'[v]) /\ IsDisk(disk'[v])
    BY <1>2, <1>3, <1>4 DEF Types
  <1> QED BY <1>1, <1>2, <1>3, <1>4, <1>5

\* A vote that r remembers is remembered.
LEMMA RememberStep ==
  ASSUME Types, NEW s \in Server, NEW r, IsRaft(r), Goes(s, r),
         NEW v \in Server, NEW t \in Nat, NEW c \in Server,
         Remembers(rf[v], t, c), Remembers(disk[v], t, c), v = s => Remembers(r, t, c)
  PROVE  Remembers(rf'[v], t, c) /\ Remembers(disk'[v], t, c)
  <1>1. CASE v = s
    <2>1. rf'[v] = r /\ (disk'[v] = disk[v] \/ disk'[v] = Saved(r))
      BY <1>1, FieldsStep
    <2>2. Saved(r).term = r.term /\ Saved(r).vote = r.vote
      BY FieldsStep
    <2> QED BY <1>1, <2>1, <2>2 DEF Remembers
  <1>2. CASE v # s
    BY <1>2, FieldsStep
  <1> QED BY <1>1, <1>2

\* Votes and offices are kept if nothing is added to them and r forgets none of s.
LEMMA KeptStep ==
  ASSUME Types, VotesKept, OfficesKept, NEW s \in Server, NEW r, IsRaft(r), Goes(s, r),
         UNCHANGED historyVars, Keeps(rf[s], r)
  PROVE  VotesKept' /\ OfficesKept'
  <1>0. IsRaft(rf[s]) /\ rf'[s] = r /\ \A v \in Server \ {s} : rf'[v] = rf[v]
    BY FieldsStep DEF Types
  <1>1. UNCHANGED <<elected, ballots>>
    BY DEF historyVars
  <1>2. ASSUME NEW v \in Server, NEW c \in Server, NEW t \in Nat, <<v, t, c>> \in ballots
        PROVE  /\ v # c /\ Remembers(rf'[v], t, c) /\ Remembers(disk'[v], t, c)
               /\ rf'[v].term = t => rf'[v].role = "Follower"
               /\ \A d \in Server : <<v, t, d>> \in ballots => c = d
    <2>1. /\ v # c /\ Remembers(rf[v], t, c) /\ Remembers(disk[v], t, c)
          /\ rf[v].term = t => rf[v].role = "Follower"
          /\ \A d \in Server : <<v, t, d>> \in ballots => c = d
      BY <1>2 DEF VotesKept
    <2>2. v = s => Remembers(r, t, c) /\ (r.term = t => r.role = "Follower")
      BY <1>0, <2>1 DEF Remembers, Keeps, IsRaft
    <2>3. Remembers(rf'[v], t, c) /\ Remembers(disk'[v], t, c)
      BY <2>1, <2>2, RememberStep
    <2> QED BY <1>0, <2>1, <2>2, <2>3
  <1>3. ASSUME NEW c \in Server, NEW t \in Nat, <<t, c>> \in elected
        PROVE  /\ Remembers(rf'[c], t, c) /\ Remembers(disk'[c], t, c)
               /\ rf'[c].term = t => rf'[c].role # "Candidate"
    <2>1. /\ Remembers(rf[c], t, c) /\ Remembers(disk[c], t, c)
          /\ rf[c].term = t => rf[c].role # "Candidate"
      BY <1>3 DEF OfficesKept
    <2>2. c = s => Remembers(r, t, c) /\ (r.term = t => r.role # "Candidate")
      BY <1>0, <2>1 DEF Remembers, Keeps, IsRaft
    <2>3. Remembers(rf'[c], t, c) /\ Remembers(disk'[c], t, c)
      BY <2>1, <2>2, RememberStep
    <2> QED BY <1>0, <2>1, <2>2, <2>3
  <1>4. VotesKept'
    BY <1>1, <1>2 DEF VotesKept
  <1>5. OfficesKept'
    BY <1>1, <1>3 DEF OfficesKept, Elects
  <1> QED BY <1>4, <1>5

\* No goroutine begins to ask.
Subsides ==
  /\ ticker' = [v \in Server |-> ticker'[v]]
  /\ \A v \in Server : IsTicker(ticker'[v]) /\ ticker'[v].asking \subseteq ticker[v].asking

\* What the actions do to the ticker.
LEMMA TickerForms ==
  ASSUME YetToAsk
  PROVE  /\ UNCHANGED ticker => Subsides
         /\ UNCHANGED tickerVars => Subsides
         /\ \A s \in Server : \A k : ticker' = [ticker EXCEPT ![s] = k] /\ IsTicker(k)
                                      /\ k.asking \subseteq ticker[s].asking => Subsides
         /\ \A s \in Server : \A t : Hears(s, t) => Subsides
  <1>1. ticker = [v \in Server |-> ticker[v]] /\ \A v \in Server : IsTicker(ticker[v])
    BY DEF YetToAsk
  <1>2. UNCHANGED ticker => Subsides
    BY <1>1 DEF Subsides
  <1>3. UNCHANGED tickerVars => Subsides
    BY <1>2 DEF tickerVars
  <1>4. ASSUME NEW s \in Server, NEW k, ticker' = [ticker EXCEPT ![s] = k], IsTicker(k),
               k.asking \subseteq ticker[s].asking
        PROVE  Subsides
    BY <1>1, <1>4 DEF Subsides
  <1>5. ASSUME NEW s \in Server, NEW t, Hears(s, t) PROVE Subsides
    <2>1. PICK k : k = [ticker[s] EXCEPT !.heard = t]
      OBVIOUS
    <2>2. k.asking = ticker[s].asking /\ IsTicker(k)
      BY <1>1, <2>1 DEF IsTicker
    <2>3. ticker' = [ticker EXCEPT ![s] = k]
      BY <1>5, <2>1 DEF Hears
    <2> QED BY <1>4, <2>2, <2>3
  <1> QED BY <1>2, <1>3, <1>4, <1>5

\* Who has yet to ask still has, if it is asked no more and no more is counted.
LEMMA YetToAskStep ==
  ASSUME YetToAsk, Subsides,
         \A v \in Server : ticker'[v].asking # {} => rf[v].term \in Nat /\ rf'[v].term \in Nat
                                                    /\ rf[v].term <= rf'[v].term,
         \A v, x \in Server : \A t \in ticker'[v].asking : \A m \in net' :
            Open(m, v, x, t) => \E n \in net : Open(n, v, x, t),
         \A v \in Server : rf'[v].role = "Candidate" /\ rf'[v].term \in ticker'[v].asking =>
            rf[v].role = "Candidate" /\ rf'[v].term = rf[v].term /\ rf'[v].count = rf[v].count
  PROVE  YetToAsk'
  <1>1. ASSUME NEW s \in Server, NEW t \in ticker'[s].asking PROVE Unasked(s, t)'
    <2>1. t \in ticker[s].asking /\ t \in Nat
      BY DEF Subsides, IsTicker
    <2>2. Unasked(s, t)
      BY <2>1 DEF YetToAsk
    <2>3. t <= rf'[s].term
      BY <2>1, <2>2 DEF Unasked
    <2>4. \A v \in Server : \A m \in net' : ~Open(m, s, v, t)
      BY <2>2 DEF Unasked
    <2>5. rf'[s].role = "Candidate" /\ rf'[s].term = t => rf'[s].count = 1
      BY <2>2 DEF Unasked
    <2> QED BY <2>3, <2>4, <2>5 DEF Unasked, Open
  <1> QED BY <1>1 DEF YetToAsk, Subsides

\* A message that has nothing to do with votes.
Other(m) == IsMessage(m) /\ m.type \notin {"vote", "voted"}

\* A step that is none of an election's.
LEMMA QuietStep ==
  ASSUME Inv, NEW s \in Server, NEW r, IsRaft(r), Goes(s, r), UNCHANGED historyVars,
         Stays(rf[s], r), \A m \in net' : m \in net \/ Other(m), Subsides
  PROVE  Inv'
  <1>0. IsRaft(rf[s]) /\ rf'[s] = r /\ \A v \in Server \ {s} : rf'[v] = rf[v]
    BY FieldsStep DEF Inv, Types
  <1>1. UNCHANGED <<elected, ballots>>
    BY DEF historyVars
  <1>2. Types'
    <2>1. \A m \in net' : IsMessage(m)
      BY DEF Inv, Types, Other
    <2> QED BY <1>1, <2>1, FieldsStep DEF Inv, Types
  <1>3. VotesKept' /\ OfficesKept'
    BY KeptStep DEF Inv, Stays, Keeps
  <1>4. \A m \in net' : m \notin net => ~(m.type = "vote") /\ ~(m.type = "voted")
    BY DEF Other
  <1>5. AskedOnce'
    <2>1. ASSUME NEW c \in Server, NEW v \in Server, NEW t \in Nat, NEW m \in net', Open(m, c, v, t)
          PROVE  t <= rf'[c].term /\ \A n \in net' : Open(n, c, v, t) => m = n
      <3>1. m \in net
        BY <1>4, <2>1 DEF Open
      <3>2. t <= rf[c].term /\ \A n \in net : Open(n, c, v, t) => m = n
        BY <2>1, <3>1 DEF Inv, AskedOnce
      <3>3. r.term >= rf[s].term /\ r.term \in Nat /\ rf[s].term \in Nat
        BY <1>0 DEF Stays, IsRaft
      <3>4. \A n \in net' : Open(n, c, v, t) => n \in net
        BY <1>4 DEF Open
      <3> QED BY <1>0, <3>2, <3>3, <3>4
    <2>2. \A m \in net' : m.type = "voted" /\ m.ok => <<m.from, m.term, m.to>> \in ballots
      BY <1>4 DEF Inv, AskedOnce
    <2> QED BY <1>1, <2>1, <2>2 DEF AskedOnce
  <1>6. CountsTrue'
    <2> SUFFICES ASSUME NEW c \in Server, rf'[c].role = "Candidate"
                 PROVE  rf'[c].vote = c /\ \E C \in SUBSET Server : Tally(c, C)'
      BY DEF CountsTrue
    <2>1. /\ rf'[c].role = rf[c].role /\ rf'[c].term = rf[c].term
          /\ rf'[c].vote = rf[c].vote /\ rf'[c].count = rf[c].count
      BY <1>0 DEF Stays
    <2>2. PICK C \in SUBSET Server : Tally(c, C)
      BY <2>1 DEF Inv, CountsTrue
    <2>3. Tally(c, C)'
      BY <1>1, <1>4, <2>1, <2>2 DEF Tally, Elects, Open
    <2> QED BY <2>1, <2>3 DEF Inv, CountsTrue
  <1>7. YetToAsk'
    <2>1. \A v \in Server : rf[v].term \in Nat /\ rf'[v].term \in Nat /\ rf[v].term <= rf'[v].term
      BY <1>0 DEF Inv, Types, IsRaft, Stays
    <2>2. \A v \in Server : rf'[v].role = "Candidate" =>
             rf[v].role = "Candidate" /\ rf'[v].term = rf[v].term /\ rf'[v].count = rf[v].count
      BY <1>0 DEF Stays
    <2>3. \A v, x \in Server : \A t : \A m \in net' : Open(m, v, x, t) => m \in net
      BY <1>4 DEF Open
    <2> QED BY <2>1, <2>2, <2>3, YetToAskStep DEF Inv
  <1> QED BY <1>2, <1>3, <1>5, <1>6, <1>7 DEF Inv
-----------------------------------------------------------------------------
(* What the operators of the model do to a server's fields. *)

\* What is known of one server.
LEMMA ServerFacts ==
  ASSUME Inv, NEW s \in Server
  PROVE  IsRaft(rf[s]) /\ IsDisk(disk[s]) /\ rf[s].term \in Nat
  BY DEF Inv, Types, IsRaft

\* ConvertToFollower enters the term and forgets the vote.
LEMMA FollowerFields ==
  ASSUME NEW q, IsRaft(q), NEW t \in Nat
  PROVE  LET r == ConvertToFollower(q, t)
         IN  IsRaft(r) /\ r.role = "Follower" /\ r.term = t /\ r.vote = Nobody
  BY DEF ConvertToFollower, IsRaft, Role, Field

\* A request of a leader makes a follower of a server of an older term or of a candidate.
LEMMA FollowedStays ==
  ASSUME NEW q, IsRaft(q), NEW t \in Nat
  PROVE  IsRaft(Followed(q, t)) /\ Stays(q, Followed(q, t))
  <1>1. CASE q.term < t \/ (q.term = t /\ q.role = "Candidate")
    BY <1>1, FollowerFields DEF Followed, Stays, IsRaft
  <1>2. CASE ~(q.term < t \/ (q.term = t /\ q.role = "Candidate"))
    BY <1>2 DEF Followed, Stays
  <1> QED BY <1>1, <1>2

\* An answer of a higher term makes a follower.
LEMMA HigherStays ==
  ASSUME NEW q, IsRaft(q), NEW t \in Nat
  PROVE  LET r == IF t > q.term THEN ConvertToFollower(q, t) ELSE q
         IN  IsRaft(r) /\ Stays(q, r)
  BY FollowerFields DEF Stays, IsRaft

\* The log and the positions in it have nothing to do with elections.
LEMMA LogStays ==
  ASSUME NEW q, NEW r, IsRaft(r), Stays(q, r), NEW new, new = [f \in Field |-> new[f]],
         \A f \in {"role", "term", "vote", "count"} : new[f] = r[f]
  PROVE  IsRaft(new) /\ Stays(q, new)
  <1>1. new.role = r.role /\ new.term = r.term /\ new.vote = r.vote /\ new.count = r.count
    OBVIOUS
  <1>2. IsRaft(new)
    BY <1>1 DEF IsRaft
  <1> QED BY <1>1, <1>2 DEF Stays

\* Such changes, as the actions write them.
LEMMA LogForms ==
  ASSUME NEW q, NEW r, IsRaft(r), Stays(q, r), NEW log, NEW commit, NEW last
  PROVE  /\ LET new == [r EXCEPT !.log = log] IN IsRaft(new) /\ Stays(q, new)
         /\ LET new == [r EXCEPT !.commit = commit] IN IsRaft(new) /\ Stays(q, new)
         /\ LET new == [r EXCEPT !.lastApplied = last] IN IsRaft(new) /\ Stays(q, new)
         /\ LET new == [r EXCEPT !.log = log, !.commit = commit] IN IsRaft(new) /\ Stays(q, new)
         /\ LET new == [r EXCEPT !.commit = commit, !.lastApplied = last, !.log = log]
            IN  IsRaft(new) /\ Stays(q, new)
  <1>0. r = [f \in Field |-> r[f]]
    BY DEF IsRaft
  <1> DEFINE Fits(new) == /\ new = [f \in Field |-> new[f]]
                          /\ \A f \in {"role", "term", "vote", "count"} : new[f] = r[f]
  <1>1. Fits([r EXCEPT !.log = log])
    BY <1>0 DEF Field
  <1>2. Fits([r EXCEPT !.commit = commit])
    BY <1>0 DEF Field
  <1>3. Fits([r EXCEPT !.lastApplied = last])
    BY <1>0 DEF Field
  <1>4. Fits([r EXCEPT !.log = log, !.commit = commit])
    BY <1>0 DEF Field
  <1>5. Fits([r EXCEPT !.commit = commit, !.lastApplied = last, !.log = log])
    BY <1>0 DEF Field
  <1>6. ASSUME NEW new, Fits(new) PROVE IsRaft(new) /\ Stays(q, new)
    BY <1>6, LogStays
  <1> HIDE DEF Fits
  <1> QED BY <1>1, <1>2, <1>3, <1>4, <1>5, <1>6

\* Become and BecomeUnsaved go on with r.
LEMMA BecomeGoes ==
  ASSUME NEW s, NEW r, Become(s, r) \/ BecomeUnsaved(s, r)
  PROVE  Goes(s, r)
  BY DEF Become, BecomeUnsaved, Goes

\* A server that goes on as it was.
LEMMA SameStays ==
  ASSUME Inv, NEW s \in Server
  PROVE  Stays(rf[s], rf[s]) /\ (UNCHANGED <<rf, disk>> => Goes(s, rf[s]))
  BY DEF Stays, Goes, Inv, Types

-----------------------------------------------------------------------------
(* Steps that are none of an election's. *)

\* What a server does on its own, elections and restarts apart.
LEMMA LocalKeeps ==
  ASSUME Inv, NEW s \in Server,
         Start(s) \/ checkCommitIndex(s) \/ applyLog(s) \/ Snapshot(s)
  PROVE  Inv'
  <1>0. IsRaft(rf[s]) /\ Stays(rf[s], rf[s])
    BY ServerFacts, SameStays
  <1>t. UNCHANGED tickerVars => Subsides
    BY TickerForms DEF Inv
  <1>1. CASE Start(s)
    <2> DEFINE r == [rf[s] EXCEPT !.log.ents = Append(@, [term |-> rf[s].term, cmd |-> cmds + 1])]
    <2>1. PICK log : r = [rf[s] EXCEPT !.log = log]
      BY <1>0 DEF IsRaft
    <2>2. IsRaft(r) /\ Stays(rf[s], r)
      BY <1>0, <2>1, LogForms
    <2>3. Goes(s, r) /\ UNCHANGED <<net, historyVars, tickerVars>>
      BY <1>1, BecomeGoes DEF Start
    <2> QED BY <1>t, <2>2, <2>3, QuietStep
  <1>2. CASE checkCommitIndex(s)
    <2>1. PICK commit : BecomeUnsaved(s, [rf[s] EXCEPT !.commit = commit]) /\ UNCHANGED <<net, historyVars, tickerVars>>
      BY <1>2 DEF checkCommitIndex
    <2> DEFINE r == [rf[s] EXCEPT !.commit = commit]
    <2>2. IsRaft(r) /\ Stays(rf[s], r)
      BY <1>0, LogForms
    <2> QED BY <1>t, <2>1, <2>2, BecomeGoes, QuietStep
  <1>3. CASE applyLog(s)
    <2>1. PICK last : BecomeUnsaved(s, [rf[s] EXCEPT !.lastApplied = last]) /\ UNCHANGED <<net, historyVars, tickerVars>>
      BY <1>3 DEF applyLog
    <2> DEFINE r == [rf[s] EXCEPT !.lastApplied = last]
    <2>2. IsRaft(r) /\ Stays(rf[s], r)
      BY <1>0, LogForms
    <2> QED BY <1>t, <2>1, <2>2, BecomeGoes, QuietStep
  <1>4. CASE Snapshot(s)
    <2>1. PICK log : Become(s, [rf[s] EXCEPT !.log = log]) /\ UNCHANGED <<net, historyVars, tickerVars>>
      BY <1>4 DEF Snapshot
    <2> DEFINE r == [rf[s] EXCEPT !.log = log]
    <2>2. IsRaft(r) /\ Stays(rf[s], r)
      BY <1>0, LogForms
    <2> QED BY <1>t, <2>1, <2>2, BecomeGoes, QuietStep
  <1> QED BY <1>1, <1>2, <1>3, <1>4

\* A leader sends entries or its snapshot.
LEMMA SendKeeps ==
  ASSUME Inv, NEW s \in Server, SendAllAppendEntries(s)
  PROVE  Inv'
  <1>1. ASSUME NEW f \in Server \ {s} PROVE Other(RequestFor(s, f))
    <2> DEFINE m == RequestFor(s, f)
    <2>1. /\ m.type \in {"append", "install"} /\ m.from = s /\ m.to = f /\ m.waits \in BOOLEAN
          /\ m.term = rf[s].term /\ {"type", "from", "to", "waits", "term"} \subseteq DOMAIN m
      BY DEF RequestFor
    <2>2. m = RequestFor(s, f)
      OBVIOUS
    <2> HIDE DEF m
    <2>3. Other(m)
      BY <2>1, ServerFacts DEF Other, IsMessage, Requests
    <2> QED BY <2>2, <2>3
  <1>2. \A m \in net' : m \in net \/ Other(m)
    BY <1>1 DEF SendAllAppendEntries, Call
  <1>3. UNCHANGED <<rf, disk, historyVars>>
    BY DEF SendAllAppendEntries
  <1>4. Subsides
    <2>1. PICK k : k = [ticker[s] EXCEPT !.candidate = FALSE]
      OBVIOUS
    <2>2. IsTicker(k) /\ k.asking = ticker[s].asking
      BY <2>1 DEF Inv, YetToAsk, IsTicker
    <2>3. ticker' = [ticker EXCEPT ![s] = k]
      BY <2>1 DEF SendAllAppendEntries
    <2> QED BY <2>2, <2>3, TickerForms DEF Inv
  <1> QED BY <1>2, <1>3, <1>4, ServerFacts, SameStays, QuietStep

\* A message is lost.
LEMMA LoseKeeps ==
  ASSUME Inv, NEW m \in net, Lose(m)
  PROVE  Inv'
  <1>1. m.to \in Server
    BY DEF Inv, Types, IsMessage
  <1>2. UNCHANGED <<rf, disk, historyVars>> /\ net' \subseteq net
    BY DEF Lose
  <1>3. Subsides
    BY TickerForms DEF Lose, Inv
  <1> QED BY <1>1, <1>2, <1>3, ServerFacts, SameStays, QuietStep

\* Entries and snapshots arrive, and their answers.
LEMMA EntriesKeep ==
  ASSUME Inv, NEW m \in net, AppendEntriesHandler(m)
  PROVE  Inv'
  <1> DEFINE s == m.to
             r == Followed(rf[s], m.term)
  <1>0. s \in Server /\ m.from \in Server /\ s # m.from /\ m.term \in Nat /\ IsRaft(rf[s])
        /\ rf[s].term \in Nat
    BY ServerFacts DEF Inv, Types, IsMessage
  <1>1. IsRaft(r) /\ Stays(rf[s], r)
    BY <1>0, FollowedStays
  <1>2. ASSUME NEW ok, NEW cterm, NEW cindex PROVE Other(Appended(m, rf[s].term, ok, cterm, cindex))
    BY <1>0 DEF Appended, Other, IsMessage, Requests
  <1>3. PICK ok, cterm, cindex : Answered(m, Appended(m, rf[s].term, ok, cterm, cindex))
    BY DEF AppendEntriesHandler
  <1>4. \A n \in net' : n \in net \/ Other(n)
    BY <1>2, <1>3 DEF Answered
  <1>5. UNCHANGED historyVars
    BY DEF AppendEntriesHandler
  <1>t. Subsides
    <2>1. UNCHANGED tickerVars \/ \E t : Hears(s, t)
      BY DEF AppendEntriesHandler
    <2> QED BY <1>0, <2>1, TickerForms DEF Inv
  <1>6. CASE Become(s, rf[s])
    BY <1>0, <1>t, <1>4, <1>5, <1>6, SameStays, BecomeGoes, QuietStep
  <1>7. CASE Become(s, r)
    BY <1>0, <1>t, <1>1, <1>4, <1>5, <1>7, BecomeGoes, QuietStep
  <1>8. ASSUME NEW log, NEW commit, Become(s, [r EXCEPT !.log = log, !.commit = commit])
        PROVE  Inv'
    <2> DEFINE q == [r EXCEPT !.log = log, !.commit = commit]
    <2>1. IsRaft(q) /\ Stays(rf[s], q)
      BY <1>1, LogForms
    <2>2. Goes(s, q)
      BY <1>8, BecomeGoes
    <2> HIDE DEF q
    <2> QED BY <1>0, <1>t, <1>4, <1>5, <2>1, <2>2, QuietStep
  <1>9. \/ Become(s, rf[s]) \/ Become(s, r)
        \/ \E log, commit : Become(s, [r EXCEPT !.log = log, !.commit = commit])
    BY DEF AppendEntriesHandler
  <1> QED BY <1>6, <1>7, <1>8, <1>9

\* The leader hears of a higher term, or the answer changes its indexes only.
LEMMA EntriesReplyKeeps ==
  ASSUME Inv, NEW m \in net, AppendReply(m)
  PROVE  Inv'
  <1> DEFINE s == m.to
             r == IF m.rterm > rf[s].term THEN ConvertToFollower(rf[s], m.rterm) ELSE rf[s]
  <1>0. s \in Server /\ m.rterm \in Nat /\ IsRaft(rf[s])
    BY ServerFacts DEF AppendReply, Inv, Types, IsMessage, Requests
  <1>1. IsRaft(r) /\ Stays(rf[s], r)
    BY <1>0, HigherStays
  <1>2. UNCHANGED historyVars /\ net' \subseteq net /\ Subsides
    BY TickerForms DEF AppendReply, Inv
  <1>3. Become(s, rf[s]) \/ Become(s, r)
    BY DEF AppendReply
  <1>4. CASE Become(s, rf[s])
    BY <1>0, <1>2, <1>4, SameStays, BecomeGoes, QuietStep
  <1>5. CASE Become(s, r)
    BY <1>0, <1>1, <1>2, <1>5, BecomeGoes, QuietStep
  <1> QED BY <1>3, <1>4, <1>5

\* A snapshot arrives.
LEMMA InstallKeeps ==
  ASSUME Inv, NEW m \in net, InstallReturns(m)
  PROVE  Inv'
  <1> DEFINE s == m.to
             r == Followed(rf[s], m.term)
             q == Installed(r, m)
             reply == [type |-> "installed", from |-> s, to |-> m.from, term |-> m.term,
                       rterm |-> rf[s].term, index |-> m.index, data |-> m.data]
  <1>0. s \in Server /\ m.from \in Server /\ s # m.from /\ m.term \in Nat /\ IsRaft(rf[s])
        /\ rf[s].term \in Nat
    BY ServerFacts DEF Inv, Types, IsMessage
  <1>1. IsRaft(r) /\ Stays(rf[s], r)
    BY <1>0, FollowedStays
  <1>2. Other(reply)
    BY <1>0 DEF Other, IsMessage, Requests
  <1>3. Answered(m, reply) /\ UNCHANGED historyVars
    BY DEF InstallReturns
  <1>4. \A n \in net' : n \in net \/ Other(n)
    BY <1>2, <1>3 DEF Answered
  <1>5. Become(s, q) \/ BecomeUnsaved(s, rf[s]) \/ BecomeUnsaved(s, r)
    BY DEF InstallReturns
  <1>6. IsRaft(q) /\ Stays(rf[s], q)
    <2>1. PICK log, i : q = [r EXCEPT !.commit = i, !.lastApplied = i, !.log = log]
      BY DEF Installed
    <2> HIDE DEF q
    <2> QED BY <1>1, <2>1, LogForms
  <1>t. Subsides
    <2>1. UNCHANGED tickerVars \/ \E t : Hears(s, t)
      BY DEF InstallReturns
    <2> QED BY <1>0, <2>1, TickerForms DEF Inv
  <1> HIDE DEF q
  <1>7. CASE Become(s, q)
    BY <1>0, <1>t, <1>3, <1>4, <1>6, <1>7, BecomeGoes, QuietStep
  <1>8. CASE BecomeUnsaved(s, rf[s])
    BY <1>0, <1>t, <1>3, <1>4, <1>8, SameStays, BecomeGoes, QuietStep
  <1>9. CASE BecomeUnsaved(s, r)
    BY <1>0, <1>t, <1>1, <1>3, <1>4, <1>9, BecomeGoes, QuietStep
  <1> QED BY <1>5, <1>7, <1>8, <1>9

\* The leader hears whether it arrived.
LEMMA InstallReplyKeeps ==
  ASSUME Inv, NEW m \in net, InstallReply(m)
  PROVE  Inv'
  <1> DEFINE s == m.to
             r == IF m.term = rf[s].term /\ m.rterm > rf[s].term
                  THEN ConvertToFollower(rf[s], m.rterm) ELSE rf[s]
  <1>0. s \in Server /\ m.rterm \in Nat /\ IsRaft(rf[s])
    BY ServerFacts DEF InstallReply, Inv, Types, IsMessage, Requests
  <1>1. IsRaft(r) /\ Stays(rf[s], r)
    BY <1>0, HigherStays, SameStays
  <1>2. UNCHANGED historyVars /\ net' \subseteq net /\ (Become(s, r) \/ BecomeUnsaved(s, r)) /\ Subsides
    BY TickerForms DEF InstallReply, Inv
  <1> QED BY <1>0, <1>1, <1>2, BecomeGoes, QuietStep
-----------------------------------------------------------------------------
(* Elections. *)

\* It has one vote, its own, and has yet to ask for others in the term it enters.
LEMMA TimeoutKeeps ==
  ASSUME Inv, NEW s \in Server, ElectionTimeout(s)
  PROVE  Inv'
  <1> DEFINE r == ConvertToCandidate(s, rf[s])
             t == rf[s].term + 1
  <1>0. IsRaft(rf[s]) /\ rf[s].term \in Nat /\ t \in Nat
    BY ServerFacts
  <1>1. IsRaft(r) /\ r.role = "Candidate" /\ r.term = t /\ r.vote = s /\ r.count = 1
    <2>1. rf[s] = [f \in Field |-> rf[s][f]]
      BY <1>0 DEF IsRaft
    <2>2. r.role = "Candidate" /\ r.term = t /\ r.vote = s /\ r.count = 1
      BY <2>1 DEF ConvertToCandidate, Field
    <2>3. r = [f \in Field |-> r[f]]
      BY <2>1 DEF ConvertToCandidate, Field
    <2> HIDE DEF r
    <2> QED BY <1>0, <2>2, <2>3 DEF IsRaft, Role
  <1>2. Goes(s, r) /\ UNCHANGED historyVars /\ net' = net
    BY BecomeGoes DEF ElectionTimeout
  <1> HIDE DEF r
  <1>3. rf'[s] = r /\ \A v \in Server \ {s} : rf'[v] = rf[v]
    BY <1>1, <1>2, FieldsStep DEF Inv
  <1>4. Types'
    <2>1. \A m \in net' : IsMessage(m)
      BY <1>2 DEF Inv, Types
    <2> QED BY <1>1, <1>2, <2>1, FieldsStep DEF Inv, Types, historyVars
  <1>5. VotesKept' /\ OfficesKept'
    BY <1>0, <1>1, <1>2, KeptStep DEF Inv, Keeps
  <1>6. AskedOnce'
    <2>1. \A c \in Server : rf[c].term \in Nat /\ rf'[c].term \in Nat /\ rf[c].term <= rf'[c].term
      BY <1>0, <1>1, <1>3, ServerFacts
    <2>2. \A c, v \in Server, u \in Nat : \A m \in net : Open(m, c, v, u) =>
             u <= rf'[c].term /\ \A n \in net : Open(n, c, v, u) => m = n
      BY <2>1 DEF Inv, AskedOnce
    <2> QED BY <1>2, <2>2 DEF Inv, AskedOnce, Open, historyVars
  <1>7. CountsTrue'
    <2> SUFFICES ASSUME NEW c \in Server, rf'[c].role = "Candidate"
                 PROVE  rf'[c].vote = c /\ \E C \in SUBSET Server : Tally(c, C)'
      BY DEF CountsTrue
    <2>1. CASE c = s
      <3>1. Tally(s, {s})'
        BY <1>1, <1>3, FS_Singleton DEF Tally, Elects
      <3> QED BY <1>1, <1>3, <2>1, <3>1
    <2>2. CASE c # s
      <3>1. rf'[c] = rf[c]
        BY <1>3, <2>2
      <3>2. PICK C \in SUBSET Server : Tally(c, C)
        BY <3>1 DEF Inv, CountsTrue
      <3>3. Tally(c, C)'
        BY <1>2, <3>1, <3>2 DEF Tally, Elects, Open, historyVars
      <3> QED BY <3>1, <3>3 DEF Inv, CountsTrue
    <2> QED BY <2>1, <2>2
  <1>8. YetToAsk'
    <2>1. PICK k : k = [ticker[s] EXCEPT !.candidate = TRUE, !.asking = @ \cup {t}]
      OBVIOUS
    <2>2. IsTicker(k) /\ k.asking = ticker[s].asking \cup {t}
      BY <1>0, <2>1 DEF Inv, YetToAsk, IsTicker
    <2>3. ticker' = [ticker EXCEPT ![s] = k] /\ ticker = [v \in Server |-> ticker[v]]
      BY <2>1 DEF ElectionTimeout, Inv, YetToAsk
    <2>4. ticker'[s] = k /\ \A v \in Server \ {s} : ticker'[v] = ticker[v]
      BY <2>3
    <2>5. ticker' = [v \in Server |-> ticker'[v]] /\ \A v \in Server : IsTicker(ticker'[v])
      BY <2>2, <2>3, <2>4 DEF Inv, YetToAsk
    <2>6. ASSUME NEW v \in Server, NEW u \in ticker'[v].asking PROVE Unasked(v, u)'
      <3>0. u \in Nat
        BY <2>5 DEF IsTicker
      <3>1. CASE v = s /\ u = t
        <4>1. \A x \in Server : \A m \in net : ~Open(m, s, x, t)
          BY <1>0 DEF Inv, AskedOnce
        <4> QED BY <1>0, <1>1, <1>2, <1>3, <3>1, <4>1 DEF Unasked, Open
      <3>2. CASE v = s /\ u # t
        <4>1. u \in ticker[s].asking
          BY <2>2, <2>4, <3>2
        <4>2. u <= rf[s].term /\ \A x \in Server : \A m \in net : ~Open(m, s, x, u)
          BY <4>1 DEF Inv, YetToAsk, Unasked
        <4>3. u <= rf'[s].term
          BY <1>0, <1>1, <1>3, <3>0, <4>2
        <4> QED BY <1>1, <1>2, <1>3, <3>2, <4>2, <4>3 DEF Unasked, Open
      <3>3. CASE v # s
        <4>1. Unasked(v, u)
          BY <2>4, <3>3 DEF Inv, YetToAsk
        <4> QED BY <1>2, <1>3, <3>3, <4>1 DEF Unasked, Open
      <3> QED BY <3>1, <3>2, <3>3
    <2> QED BY <2>5, <2>6 DEF YetToAsk
  <1> QED BY <1>4, <1>5, <1>6, <1>7, <1>8 DEF Inv

\* The ticker, and a goroutine that has nothing to ask for any more.
LEMMA TickerKeeps ==
  ASSUME Inv, NEW s \in Server, UNCHANGED <<rf, disk, net, historyVars>>, Subsides
  PROVE  Inv'
  BY ServerFacts, SameStays, QuietStep

\* In step, the ticker follows a term only if the server has followed it.
LEMMA FollowsNothing ==
  ASSUME Inv, NEW s \in Server, TickerTakes(s) \/ TickerFollows(s), ~outOfStep'
  PROVE  UNCHANGED <<rf, disk, net, historyVars>> /\ Subsides
  <1>1. CASE TickerTakes(s)
    <2>0. PICK resp : ticker' = [ticker EXCEPT ![s].heard = 0, ![s].resp = resp]
      BY <1>1 DEF TickerTakes
    <2>1. PICK k : k = [ticker[s] EXCEPT !.heard = 0, !.resp = resp] /\ ticker' = [ticker EXCEPT ![s] = k]
      BY <2>0
    <2>2. IsTicker(k) /\ k.asking = ticker[s].asking
      BY <2>1 DEF Inv, YetToAsk, IsTicker
    <2>3. Subsides
      BY <2>1, <2>2, TickerForms DEF Inv
    <2> QED BY <1>1, <2>3 DEF TickerTakes
  <1>2. CASE TickerFollows(s)
    <2>1. PICK k : k = [ticker[s] EXCEPT !.candidate = FALSE, !.resp = 0] /\ ticker' = [ticker EXCEPT ![s] = k]
      BY <1>2 DEF TickerFollows
    <2>2. IsTicker(k) /\ k.asking = ticker[s].asking
      BY <2>1 DEF Inv, YetToAsk, IsTicker
    <2>3. Subsides
      BY <2>1, <2>2, TickerForms DEF Inv
    <2>4. ConvertToFollower(rf[s], ticker[s].resp) = rf[s]
      BY <1>2 DEF TickerFollows
    <2>5. rf' = [rf EXCEPT ![s] = rf[s]] /\ UNCHANGED <<disk, net, historyVars>>
      BY <1>2, <2>4 DEF TickerFollows, BecomeUnsaved
    <2>6. rf' = rf
      BY <2>5 DEF Inv, Types
    <2> QED BY <2>3, <2>5, <2>6
  <1> QED BY <1>1, <1>2

\* A goroutine has asked: it is no longer among those that have yet to.
LEMMA AskDone ==
  ASSUME Inv, NEW s \in Server, NEW t, sendAllRequestVote(s, t)
  PROVE  Subsides /\ t \in ticker[s].asking /\ t \in Nat /\ ticker'[s].asking = ticker[s].asking \ {t}
  <1>1. PICK k : k = [ticker[s] EXCEPT !.asking = @ \ {t}]
    OBVIOUS
  <1>2. IsTicker(k) /\ k.asking = ticker[s].asking \ {t}
    BY <1>1 DEF Inv, YetToAsk, IsTicker
  <1>3. ticker' = [ticker EXCEPT ![s] = k] /\ ticker = [v \in Server |-> ticker[v]]
    BY <1>1 DEF sendAllRequestVote, Inv, YetToAsk
  <1>4. Subsides
    BY <1>2, <1>3, TickerForms DEF Inv
  <1>5. t \in ticker[s].asking /\ t \in Nat
    BY DEF sendAllRequestVote, Inv, YetToAsk, IsTicker
  <1> QED BY <1>2, <1>3, <1>4, <1>5

\* What a candidate asks for, in step, is of the term in which the goroutine was started, and
\* it has counted nobody but itself.
LEMMA AskIs ==
  ASSUME Inv, NEW s \in Server, NEW t, sendAllRequestVote(s, t), rf[s].role = "Candidate", ~outOfStep'
  PROVE  /\ t = rf[s].term /\ rf[s].count = 1 /\ \A v \in Server : \A m \in net : ~Open(m, s, v, t)
         /\ \A m \in net' : m \in net \/
               \E q \in Server \ {s} :
                 m = [type |-> "vote", from |-> s, to |-> q, waits |-> TRUE, term |-> t, by |-> t,
                      last |-> LastIndex(rf[s].log), lastTerm |-> LastTerm(rf[s].log)]
  <1>1. t = rf[s].term
    BY DEF sendAllRequestVote
  <1>2. Unasked(s, t)
    BY AskDone DEF Inv, YetToAsk
  <1>3. \E sent \in SUBSET VoteRequests(s, t) : net' = net \cup sent
    BY DEF sendAllRequestVote, Call
  <1>4. \A m \in net' : m \in net \/ m \in VoteRequests(s, t)
    BY <1>3
  <1> QED BY <1>1, <1>2, <1>4 DEF Unasked, VoteRequests

\* Only requests of s, of its term, are new.
LEMMA AskKeeps ==
  ASSUME Inv, NEW s \in Server, NEW t, sendAllRequestVote(s, t), ~outOfStep'
  PROVE  Inv'
  <1> DEFINE request(q) == [type |-> "vote", from |-> s, to |-> q, waits |-> TRUE, term |-> t, by |-> t,
                            last |-> LastIndex(rf[s].log), lastTerm |-> LastTerm(rf[s].log)]
  <1>0. /\ UNCHANGED <<rf, disk, historyVars, elected, ballots>> /\ Subsides /\ t \in Nat
        /\ ticker'[s].asking = ticker[s].asking \ {t}
    BY AskDone DEF sendAllRequestVote, historyVars
  <1>1. CASE rf[s].role # "Candidate"
    <2>1. net' = net
      BY <1>1 DEF sendAllRequestVote
    <2> QED BY <1>0, <2>1, TickerKeeps
  <1>2. CASE rf[s].role = "Candidate"
    <2>1. /\ t = rf[s].term /\ rf[s].count = 1 /\ \A v \in Server : \A m \in net : ~Open(m, s, v, t)
          /\ \A m \in net' : m \in net \/ \E q \in Server \ {s} : m = request(q)
      BY <1>2, AskIs
    <2>2. ASSUME NEW q \in Server \ {s} PROVE IsMessage(request(q))
      BY <1>0 DEF IsMessage, Requests
    <2>3. ASSUME NEW c \in Server, NEW v \in Server, NEW u, NEW n \in net', Open(n, c, v, u)
          PROVE  n \in net \/ (c = s /\ u = t /\ n = request(v))
      BY <2>1, <2>3 DEF Open
    <2>4. Types'
      <3>1. \A m \in net' : IsMessage(m)
        BY <2>1, <2>2 DEF Inv, Types
      <3> QED BY <1>0, <3>1 DEF Inv, Types
    <2>5. VotesKept' /\ OfficesKept'
      BY <1>0 DEF Inv, VotesKept, OfficesKept, Elects
    <2>6. AskedOnce'
      <3>1. ASSUME NEW c \in Server, NEW v \in Server, NEW u \in Nat, NEW m \in net', Open(m, c, v, u)
            PROVE  u <= rf'[c].term /\ \A n \in net' : Open(n, c, v, u) => m = n
        <4>1. CASE c = s /\ u = t
          <5>1. \A n \in net' : Open(n, c, v, u) => n = request(v)
            BY <2>1, <2>3, <4>1
          <5>2. u <= rf'[c].term
            BY <1>0, <2>1, <4>1
          <5> QED BY <3>1, <5>1, <5>2
        <4>2. CASE ~(c = s /\ u = t)
          <5>1. \A n \in net' : Open(n, c, v, u) => n \in net
            BY <2>3, <4>2
          <5> QED BY <1>0, <3>1, <5>1 DEF Inv, AskedOnce
        <4> QED BY <4>1, <4>2
      <3>2. ASSUME NEW m \in net', m.type = "voted", m.ok PROVE <<m.from, m.term, m.to>> \in ballots
        BY <2>1, <3>2 DEF Inv, AskedOnce
      <3> QED BY <1>0, <3>1, <3>2 DEF AskedOnce
    <2>7. CountsTrue'
      <3> SUFFICES ASSUME NEW c \in Server, rf[c].role = "Candidate"
                   PROVE  rf[c].vote = c /\ \E C \in SUBSET Server : Tally(c, C)'
        BY <1>0 DEF CountsTrue
      <3>1. rf[c].vote = c
        BY DEF Inv, CountsTrue
      <3>2. CASE c = s
        <4>1. Tally(s, {s})'
          BY <1>0, <2>1, FS_Singleton DEF Tally, Elects
        <4> QED BY <3>1, <3>2, <4>1
      <3>3. CASE c # s
        <4>1. PICK C \in SUBSET Server : Tally(c, C)
          BY DEF Inv, CountsTrue
        <4>2. \A v \in C \ {c} : \A m \in net' : ~Open(m, c, v, rf[c].term)
          BY <2>3, <3>3, <4>1 DEF Tally
        <4>3. Tally(c, C)'
          BY <1>0, <4>1, <4>2 DEF Tally, Elects, Open
        <4> QED BY <3>1, <4>3
      <3> QED BY <3>2, <3>3
    <2>8. YetToAsk'
      <3>1. ASSUME NEW c \in Server, NEW x \in Server, NEW u \in ticker'[c].asking, NEW n \in net', Open(n, c, x, u)
            PROVE  n \in net
        BY <1>0, <2>3, <3>1
      <3>2. \A c \in Server : rf[c].term \in Nat
        BY ServerFacts
      <3>3. \A k \in Nat : k <= k
        OBVIOUS
      <3> HIDE DEF YetToAsk
      <3> QED BY <1>0, <3>1, <3>2, <3>3, YetToAskStep DEF Inv
    <2> QED BY <2>4, <2>5, <2>6, <2>7, <2>8 DEF Inv
  <1> QED BY <1>1, <1>2

\* A server is started again from its disk, and nobody waits for answers to it.
LEMMA RestartKeeps ==
  ASSUME Inv, NEW s \in Server, NEW messages \in SUBSET net, StartedAgain(s, messages)
  PROVE  Inv'
  <1> DEFINE r == NewRaft(disk[s])
  <1>1. IsRaft(r) /\ r.role = "Follower" /\ r.term = disk[s].term /\ r.vote = disk[s].vote
    BY ServerFacts DEF NewRaft, IsRaft, IsDisk, Role, Field
  <1>2. Goes(s, r) /\ UNCHANGED historyVars /\ UNCHANGED disk
    BY BecomeGoes DEF StartedAgain, BecomeUnsaved
  <1>3. net' = {Orphaned(m, s) : m \in {n \in messages : n.to = s => n.type \in Requests}}
    BY DEF StartedAgain
  <1> HIDE DEF r
  <1>4. rf'[s] = r /\ \A v \in Server \ {s} : rf'[v] = rf[v]
    BY <1>1, <1>2, FieldsStep DEF Inv
  <1>5. UNCHANGED <<elected, ballots>>
    BY <1>2 DEF historyVars
  <1>6. ASSUME NEW m \in net'
        PROVE  /\ IsMessage(m)
               /\ m.type = "voted" => m \in net
               /\ \A c, v \in Server, t \in Nat : Open(m, c, v, t) => c # s /\ m \in net
    <2>1. PICK n \in net : m = Orphaned(n, s) /\ (n.to = s => n.type \in Requests)
      BY <1>3
    <2>2. IsMessage(n)
      BY DEF Inv, Types
    <2>3. CASE n.from = s /\ n.type \in Requests
      <3>1. /\ m.type = n.type /\ m.from = n.from /\ m.to = n.to /\ m.term = n.term
            /\ m.waits = FALSE /\ {"type", "from", "to", "waits", "term"} \subseteq DOMAIN m
        BY <2>1, <2>2, <2>3 DEF Orphaned, IsMessage
      <3>2. IsMessage(m) /\ m.type # "voted"
        BY <2>2, <2>3, <3>1 DEF IsMessage, Requests
      <3> QED BY <3>1, <3>2 DEF Open
    <2>4. CASE ~(n.from = s /\ n.type \in Requests)
      <3>1. m = n
        BY <2>1, <2>4 DEF Orphaned
      <3> QED BY <2>1, <2>2, <2>4, <3>1 DEF Open, Requests
    <2> QED BY <2>3, <2>4
  <1>7. Types'
    BY <1>1, <1>2, <1>5, <1>6, FieldsStep DEF Inv, Types
  <1>8. VotesKept'
    <2> SUFFICES ASSUME NEW v \in Server, NEW c \in Server, NEW t \in Nat, <<v, t, c>> \in ballots
                 PROVE  /\ v # c /\ Remembers(rf'[v], t, c) /\ Remembers(disk[v], t, c)
                        /\ rf'[v].term = t => rf'[v].role = "Follower"
                        /\ \A d \in Server : <<v, t, d>> \in ballots => c = d
      BY <1>2, <1>5 DEF VotesKept
    <2>1. /\ v # c /\ Remembers(rf[v], t, c) /\ Remembers(disk[v], t, c)
          /\ rf[v].term = t => rf[v].role = "Follower"
          /\ \A d \in Server : <<v, t, d>> \in ballots => c = d
      BY DEF Inv, VotesKept
    <2> QED BY <1>1, <1>4, <2>1 DEF Remembers
  <1>9. OfficesKept'
    <2>1. ASSUME NEW c \in Server, NEW t \in Nat, <<t, c>> \in elected
          PROVE  /\ Remembers(rf'[c], t, c) /\ Remembers(disk[c], t, c)
                 /\ rf'[c].term = t => rf'[c].role # "Candidate"
      <3>1. /\ Remembers(rf[c], t, c) /\ Remembers(disk[c], t, c)
            /\ rf[c].term = t => rf[c].role # "Candidate"
        BY <2>1 DEF Inv, OfficesKept
      <3> QED BY <1>1, <1>4, <3>1 DEF Remembers
    <2> QED BY <1>2, <1>5, <2>1 DEF Inv, OfficesKept, Elects
  <1>10. AskedOnce'
    <2>1. ASSUME NEW c \in Server, NEW v \in Server, NEW t \in Nat, NEW m \in net', Open(m, c, v, t)
          PROVE  t <= rf'[c].term /\ \A n \in net' : Open(n, c, v, t) => m = n
      <3>1. c # s /\ m \in net /\ \A n \in net' : Open(n, c, v, t) => n \in net
        BY <1>6, <2>1
      <3> QED BY <1>4, <2>1, <3>1 DEF Inv, AskedOnce
    <2>2. ASSUME NEW m \in net', m.type = "voted", m.ok PROVE <<m.from, m.term, m.to>> \in ballots
      BY <1>6, <2>2 DEF Inv, AskedOnce
    <2> QED BY <1>5, <2>1, <2>2 DEF AskedOnce
  <1>11. CountsTrue'
    <2> SUFFICES ASSUME NEW c \in Server, rf'[c].role = "Candidate"
                 PROVE  rf'[c].vote = c /\ \E C \in SUBSET Server : Tally(c, C)'
      BY DEF CountsTrue
    <2>1. rf'[c] = rf[c]
      BY <1>1, <1>4
    <2>2. PICK C \in SUBSET Server : Tally(c, C)
      BY <2>1 DEF Inv, CountsTrue
    <2>3. rf[c].term \in Nat
      BY ServerFacts
    <2>4. \A v \in C \ {c} : \A m \in net' : ~Open(m, c, v, rf[c].term)
      BY <1>6, <2>2, <2>3 DEF Tally
    <2>5. Tally(c, C)'
      BY <1>5, <2>1, <2>2, <2>4 DEF Tally, Elects, Open
    <2> QED BY <2>1, <2>5 DEF Inv, CountsTrue
  <1>12. YetToAsk'
    <2>1. NewTicker.asking = {} /\ IsTicker(NewTicker)
      BY DEF NewTicker, IsTicker
    <2>2. ticker' = [ticker EXCEPT ![s] = NewTicker] /\ ticker = [v \in Server |-> ticker[v]]
      BY DEF StartedAgain, Inv, YetToAsk
    <2>3. Subsides /\ ticker'[s].asking = {}
      BY <2>1, <2>2, TickerForms DEF Inv
    <2>4. \A v \in Server : rf[v].term \in Nat
      BY ServerFacts
    <2>5. \A t \in Nat : t <= t
      OBVIOUS
    <2>6. \A v \in Server : ticker'[v].asking # {} => v # s /\ rf'[v] = rf[v]
      BY <1>4, <2>3
    <2>7. \A v \in Server : rf'[v].term \in ticker'[v].asking => rf'[v] = rf[v]
      BY <1>4, <2>3
    <2>8. \A v, x \in Server : \A t \in ticker'[v].asking : \A m \in net' : Open(m, v, x, t) => m \in net
      BY <1>6, <2>3 DEF Subsides, IsTicker
    <2> HIDE DEF YetToAsk
    <2> QED BY <2>3, <2>4, <2>5, <2>6, <2>7, <2>8, YetToAskStep DEF Inv
  <1> QED BY <1>7, <1>8, <1>9, <1>10, <1>11, <1>12 DEF Inv

\* A vote is cast, and persisted with the term, before the answer can be counted.
LEMMA VoteKeeps ==
  ASSUME Inv, NEW m \in net, RequestVoteHandler(m)
  PROVE  Inv'
  <1> DEFINE s == m.to
             c == m.from
             t == m.term
             r == IF m.term > rf[s].term THEN ConvertToFollower(rf[s], m.term) ELSE rf[s]
             granted == Grants(r, m)
             q == IF granted THEN [r EXCEPT !.vote = m.from] ELSE r
             reply == [type |-> "voted", from |-> s, to |-> m.from, term |-> m.term, by |-> m.by,
                       rterm |-> r.term, ok |-> granted]
  <1>0. IsMessage(m) /\ m.type = "vote" /\ s \in Server /\ c \in Server /\ s # c /\ t \in Nat
    BY DEF Inv, Types, IsMessage, RequestVoteHandler
  <1>1. IsRaft(rf[s]) /\ rf[s].term \in Nat /\ IsRaft(r) /\ Stays(rf[s], r) /\ r.term \in Nat
        /\ r.term >= t /\ r.term >= rf[s].term
    <2>1. IsRaft(rf[s]) /\ rf[s].term \in Nat
      BY <1>0, ServerFacts
    <2>2. r.term >= t /\ r.term >= rf[s].term
      BY <1>0, <2>1, FollowerFields
    <2> QED BY <1>0, <2>1, <2>2, HigherStays DEF IsRaft
  <1>2. granted => r.term = t /\ r.role = "Follower" /\ r.vote \in {Nobody, c} /\ t <= r.term
    BY <1>0, <1>1 DEF Grants
  <1>3. IsRaft(q) /\ q.role = r.role /\ q.term = r.term /\ q.count = r.count
        /\ q.vote = IF granted THEN c ELSE r.vote
    <2>1. r = [f \in Field |-> r[f]]
      BY <1>1 DEF IsRaft
    <2> HIDE DEF r
    <2>2. q.role = r.role /\ q.term = r.term /\ q.count = r.count /\ q.vote = IF granted THEN c ELSE r.vote
      BY <2>1 DEF Field
    <2>3. q = [f \in Field |-> q[f]]
      BY <2>1 DEF Field
    <2> HIDE DEF q, granted
    <2> QED BY <1>0, <1>1, <2>2, <2>3 DEF IsRaft
  <1>4. Become(s, q) /\ Answered(m, reply) /\ UNCHANGED elected
        /\ ballots' = IF granted THEN ballots \cup {<<s, t, c>>} ELSE ballots
    BY DEF RequestVoteHandler
  <1>5. Goes(s, q) /\ disk' = [disk EXCEPT ![s] = Saved(q)]
    BY <1>4, BecomeGoes DEF Become
  <1>6. granted \in BOOLEAN
    BY DEF Grants
  <1>7. \A n \in net' : n \in net \ {m} \/ (m.waits /\ n = reply)
    BY <1>4 DEF Answered
  <1>8. /\ reply.type = "voted" /\ reply.from = s /\ reply.to = c /\ reply.term = t
        /\ reply.ok = granted /\ reply.rterm = r.term
    OBVIOUS
  <1> HIDE DEF r, granted, q, reply
  <1>9. IsMessage(reply)
    BY <1>0, <1>1, <1>6, <1>8 DEF IsMessage, Requests
  <1>10. rf'[s] = q /\ \A v \in Server \ {s} : rf'[v] = rf[v]
    BY <1>0, <1>3, <1>5, FieldsStep DEF Inv
  <1>11. \A v \in Server, u \in Nat, d \in Server :
            <<v, u, d>> \in ballots' =>
              <<v, u, d>> \in ballots \/ (granted /\ v = s /\ u = t /\ d = c)
    BY <1>4
  <1>12. ballots \subseteq ballots'
    BY <1>4
  <1>13. ASSUME NEW u \in Nat, NEW d \in Server, Remembers(rf[s], u, d), u = t, granted,
                rf[s].term = u => rf[s].role # "Candidate"
         PROVE  rf[s].term = t /\ d = c
    <2>1. rf[s].term = t /\ rf[s].vote = d
      BY <1>0, <1>1, <1>2, <1>13 DEF Remembers
    <2>2. r.vote = rf[s].vote
      BY <1>1, <1>2, <1>13, <2>1 DEF Stays
    <2> QED BY <1>2, <1>13, <2>1, <2>2, Lab2DAssumption
  <1>14. ASSUME NEW u \in Nat, NEW d \in Server, Remembers(rf[s], u, d),
                rf[s].term = u => rf[s].role # "Candidate"
         PROVE  Remembers(q, u, d)
    <2>1. CASE r.term > u
      BY <1>1, <1>3, <2>1 DEF Remembers
    <2>2. CASE ~(r.term > u)
      <3>1. rf[s].term = u /\ rf[s].vote = d /\ r.term = u
        BY <1>1, <1>14, <2>2 DEF Remembers
      <3>2. r.vote = rf[s].vote
        BY <1>1, <1>14, <3>1 DEF Stays
      <3>3. granted => u = t
        BY <1>2, <3>1
      <3>4. granted => d = c
        BY <1>13, <1>14, <3>3
      <3> QED BY <1>3, <3>1, <3>2, <3>4 DEF Remembers
    <2> QED BY <2>1, <2>2
  <1>15. Types'
    <2>1. \A n \in net' : IsMessage(n)
      BY <1>7, <1>9 DEF Inv, Types
    <2>2. ballots' \subseteq Server \X Nat \X Server
      BY <1>0, <1>4 DEF Inv, Types
    <2> QED BY <1>0, <1>3, <1>4, <1>5, <2>1, <2>2, FieldsStep DEF Inv, Types
  <1>16. VotesKept'
    <2> SUFFICES ASSUME NEW v \in Server, NEW d \in Server, NEW u \in Nat, <<v, u, d>> \in ballots'
                 PROVE  /\ v # d /\ Remembers(rf'[v], u, d) /\ Remembers(disk'[v], u, d)
                        /\ rf'[v].term = u => rf'[v].role = "Follower"
                        /\ \A e \in Server : <<v, u, e>> \in ballots' => d = e
      BY DEF VotesKept
    <2>1. ASSUME NEW e \in Server, <<v, u, e>> \in ballots
          PROVE  /\ v # e /\ Remembers(rf[v], u, e) /\ Remembers(disk[v], u, e)
                 /\ rf[v].term = u => rf[v].role = "Follower"
                 /\ \A x \in Server : <<v, u, x>> \in ballots => e = x
                 /\ (granted /\ v = s /\ u = t) => e = c
      <3>1. /\ v # e /\ Remembers(rf[v], u, e) /\ Remembers(disk[v], u, e)
            /\ rf[v].term = u => rf[v].role = "Follower"
            /\ \A x \in Server : <<v, u, x>> \in ballots => e = x
        BY <2>1 DEF Inv, VotesKept
      <3> QED BY <1>13, <3>1
    <2>2. \A e \in Server : <<v, u, e>> \in ballots' => d = e
      BY <1>11, <2>1
    <2>3. CASE v = s
      <3>1. Remembers(q, u, d) /\ v # d /\ (q.term = u => q.role = "Follower")
        <4>1. CASE <<v, u, d>> \in ballots
          <5>1. Remembers(q, u, d)
            BY <1>14, <2>1, <2>3, <4>1
          <5>2. q.term = u => q.role = "Follower"
            <6>1. CASE rf[s].term > u
              BY <1>1, <1>3, <6>1
            <6>2. CASE rf[s].term = u /\ rf[s].role = "Follower"
              BY <1>1, <1>3, <6>2 DEF Stays
            <6>3. rf[s].term > u \/ (rf[s].term = u /\ rf[s].role = "Follower")
              BY <2>1, <2>3, <4>1 DEF Remembers
            <6> QED BY <6>1, <6>2, <6>3
          <5> QED BY <2>1, <4>1, <5>1, <5>2
        <4>2. CASE granted /\ u = t /\ d = c
          BY <1>0, <1>2, <1>3, <2>3, <4>2 DEF Remembers
        <4> QED BY <1>11, <4>1, <4>2
      <3>2. disk'[s] = Saved(q) /\ Saved(q).term = q.term /\ Saved(q).vote = q.vote
        BY <1>0, <1>5 DEF Saved, Inv, Types
      <3> QED BY <1>10, <2>2, <2>3, <3>1, <3>2 DEF Remembers
    <2>4. CASE v # s
      <3>1. <<v, u, d>> \in ballots
        BY <1>11, <2>4
      <3>2. rf'[v] = rf[v] /\ disk'[v] = disk[v]
        BY <1>0, <1>3, <1>5, <2>4, FieldsStep DEF Inv
      <3> QED BY <2>1, <2>2, <3>1, <3>2
    <2> QED BY <2>3, <2>4
  <1>17. OfficesKept'
    <2> SUFFICES ASSUME NEW d \in Server, NEW u \in Nat, <<u, d>> \in elected
                 PROVE  /\ Remembers(rf'[d], u, d) /\ Remembers(disk'[d], u, d)
                        /\ rf'[d].term = u => rf'[d].role # "Candidate"
                        /\ \A e \in Server : <<d, u, e>> \notin ballots'
                        /\ (\E Q \in SUBSET Server : 2 * Cardinality(Q) > Cardinality(Server) /\ Elects(Q, u, d))'
      BY <1>4 DEF OfficesKept
    <2>1. /\ Remembers(rf[d], u, d) /\ Remembers(disk[d], u, d)
          /\ rf[d].term = u => rf[d].role # "Candidate"
          /\ \A e \in Server : <<d, u, e>> \notin ballots
          /\ \E Q \in SUBSET Server : 2 * Cardinality(Q) > Cardinality(Server) /\ Elects(Q, u, d)
      BY DEF Inv, OfficesKept
    <2>2. d = s => Remembers(q, u, d) /\ (q.term = u => q.role # "Candidate")
      <3>1. d = s => Remembers(q, u, d)
        BY <1>14, <2>1
      <3>2. d = s /\ q.term = u => q.role # "Candidate"
        BY <1>1, <1>3, <2>1 DEF Stays, Remembers
      <3> QED BY <3>1, <3>2
    <2>3. Remembers(rf'[d], u, d) /\ Remembers(disk'[d], u, d)
      BY <1>0, <1>3, <1>5, <2>1, <2>2, RememberStep DEF Inv
    <2>4. \A e \in Server : <<d, u, e>> \notin ballots'
      BY <1>0, <1>11, <1>13, <2>1
    <2>5. (\E Q \in SUBSET Server : 2 * Cardinality(Q) > Cardinality(Server) /\ Elects(Q, u, d))'
      BY <1>12, <2>1 DEF Elects
    <2> QED BY <1>10, <2>1, <2>2, <2>3, <2>4, <2>5
  <1>18. m.waits => Open(m, c, s, t)
    BY <1>0 DEF Open
  <1>19. \A x, v \in Server, u \in Nat : Open(reply, x, v, u) => x = c /\ v = s /\ u = t
    BY <1>8 DEF Open
  <1>20. AskedOnce'
    <2>1. ASSUME NEW x \in Server, NEW v \in Server, NEW u \in Nat, NEW n \in net', Open(n, x, v, u)
          PROVE  u <= rf'[x].term /\ \A k \in net' : Open(k, x, v, u) => n = k
      <3>1. rf[x].term \in Nat /\ rf[x].term <= rf'[x].term /\ rf'[x].term \in Nat
        BY <1>1, <1>3, <1>10, ServerFacts
      <3>2. CASE m.waits /\ x = c /\ v = s /\ u = t
        <4>1. u <= rf[x].term /\ \A k \in net : Open(k, x, v, u) => k = m
          BY <1>18, <3>2 DEF Inv, AskedOnce
        <4>2. \A k \in net' : Open(k, x, v, u) => k = reply
          BY <1>7, <4>1
        <4> QED BY <2>1, <3>1, <4>1, <4>2
      <3>3. CASE ~(m.waits /\ x = c /\ v = s /\ u = t)
        <4>1. \A k \in net' : Open(k, x, v, u) => k \in net
          BY <1>7, <1>19, <3>3
        <4>2. u <= rf[x].term /\ \A k \in net : Open(k, x, v, u) => n = k
          BY <2>1, <4>1 DEF Inv, AskedOnce
        <4> QED BY <3>1, <4>1, <4>2
      <3> QED BY <3>2, <3>3
    <2>2. ASSUME NEW n \in net', n.type = "voted", n.ok PROVE <<n.from, n.term, n.to>> \in ballots'
      <3>1. CASE n \in net
        BY <1>12, <2>2, <3>1 DEF Inv, AskedOnce
      <3>2. CASE n = reply
        BY <1>4, <1>8, <2>2, <3>2
      <3> QED BY <1>7, <3>1, <3>2
    <2> QED BY <2>1, <2>2 DEF AskedOnce
  <1>21. CountsTrue'
    <2> SUFFICES ASSUME NEW x \in Server, rf'[x].role = "Candidate"
                 PROVE  rf'[x].vote = x /\ \E C \in SUBSET Server : Tally(x, C)'
      BY DEF CountsTrue
    <2>1. /\ rf'[x].role = rf[x].role /\ rf'[x].term = rf[x].term
          /\ rf'[x].vote = rf[x].vote /\ rf'[x].count = rf[x].count
      <3>1. CASE x = s
        <4>1. ~granted /\ r.role = "Candidate"
          BY <1>2, <1>3, <1>10, <3>1
        <4> QED BY <1>1, <1>3, <1>10, <3>1, <4>1 DEF Stays
      <3>2. CASE x # s
        BY <1>10, <3>2
      <3> QED BY <3>1, <3>2
    <2>2. PICK C \in SUBSET Server : Tally(x, C)
      BY <2>1 DEF Inv, CountsTrue
    <2>3. ASSUME NEW v \in C \ {x}, NEW n \in net' PROVE ~Open(n, x, v, rf[x].term)
      <3>1. CASE n \in net
        BY <2>2, <3>1 DEF Tally
      <3>2. CASE m.waits /\ n = reply
        <4>1. rf[x].term \in Nat
          BY ServerFacts
        <4>2. ~Open(m, x, v, rf[x].term)
          BY <2>2 DEF Tally
        <4> QED BY <1>18, <1>19, <3>2, <4>1, <4>2
      <3> QED BY <1>7, <3>1, <3>2
    <2>4. Tally(x, C)'
      BY <1>12, <2>1, <2>2, <2>3 DEF Tally, Elects, Open
    <2> QED BY <2>1, <2>4 DEF Inv, CountsTrue
  <1>22. YetToAsk'
    <2>1. Subsides
      BY TickerForms DEF RequestVoteHandler, Inv
    <2>2. \A v \in Server : rf[v].term \in Nat /\ rf'[v].term \in Nat /\ rf[v].term <= rf'[v].term
      BY <1>1, <1>3, <1>10, ServerFacts
    <2>3. ASSUME NEW v \in Server, NEW x \in Server, NEW u \in ticker'[v].asking, NEW n \in net', Open(n, v, x, u)
          PROVE  \E k \in net : Open(k, v, x, u)
      <3>1. u \in Nat
        BY <2>1 DEF Subsides, IsTicker
      <3> QED BY <1>7, <1>18, <1>19, <2>3, <3>1
    <2>4. ASSUME NEW x \in Server, rf'[x].role = "Candidate"
          PROVE  rf[x].role = "Candidate" /\ rf'[x].term = rf[x].term /\ rf'[x].count = rf[x].count
      <3>1. CASE x = s
        <4>1. ~granted /\ r.role = "Candidate"
          BY <1>2, <1>3, <1>10, <2>4, <3>1
        <4> QED BY <1>1, <1>3, <1>10, <3>1, <4>1 DEF Stays
      <3>2. CASE x # s
        BY <1>10, <2>4, <3>2
      <3> QED BY <3>1, <3>2
    <2> QED BY <2>1, <2>2, <2>3, <2>4, YetToAskStep DEF Inv
  <1> QED BY <1>15, <1>16, <1>17, <1>20, <1>21, <1>22 DEF Inv

\* An answer is counted: the voter was not among those counted, as its answer was awaited.
\* Who has a majority takes office and persists that it has.
LEMMA CountKeeps ==
  ASSUME Inv, NEW m \in net, VoteReply(m)
  PROVE  Inv'
  <1> DEFINE s == m.to
             v == m.from
             r == rf[s]
             t == rf[s].term
             counted == [r EXCEPT !.count = @ + 1]
  <1>0. /\ m.type = "voted" /\ s \in Server /\ v \in Server /\ s # v /\ m.term \in Nat
        /\ m.rterm \in Nat /\ m.ok \in BOOLEAN
    BY DEF Inv, Types, IsMessage, VoteReply, Requests
  <1>1. IsRaft(r) /\ t \in Nat /\ r.count \in Nat
    BY <1>0, ServerFacts DEF IsRaft
  <1>2. net' = net \ {m} /\ UNCHANGED ballots /\ Subsides
    BY TickerForms DEF VoteReply, Inv
  <1>3. \/ Become(s, r) /\ UNCHANGED elected
        \/ m.rterm > r.term /\ Become(s, ConvertToFollower(r, m.rterm)) /\ UNCHANGED elected
        \/ /\ r.role = "Candidate" /\ m.term = t /\ m.ok
           /\ \/ 2 * counted.count > Cardinality(Server) /\ ConvertToLeader(s, counted)
              \/ Become(s, counted) /\ UNCHANGED elected
    BY DEF VoteReply
  <1>4. CASE Become(s, r) /\ UNCHANGED elected
    BY <1>0, <1>1, <1>2, <1>4, SameStays, BecomeGoes, QuietStep DEF historyVars
  <1>5. CASE m.rterm > r.term /\ Become(s, ConvertToFollower(r, m.rterm)) /\ UNCHANGED elected
    <2> DEFINE q == ConvertToFollower(r, m.rterm)
    <2>1. IsRaft(q) /\ Stays(r, q)
      BY <1>0, <1>1, <1>5, FollowerFields DEF Stays
    <2>2. Goes(s, q)
      BY <1>5, BecomeGoes
    <2> HIDE DEF q
    <2> QED BY <1>0, <1>2, <1>5, <2>1, <2>2, QuietStep DEF historyVars
  <1>6. ASSUME NEW q, Become(s, q), IsRaft(q), q.term = t, q.vote = s, q.count = r.count + 1,
               r.role = "Candidate", m.term = t, m.ok,
               \/ q.role = "Candidate" /\ UNCHANGED elected
               \/ q.role = "Leader" /\ elected' = elected \cup {<<t, s>>}
                    /\ 2 * q.count > Cardinality(Server)
        PROVE  Inv'
    <2>1. Goes(s, q) /\ disk' = [disk EXCEPT ![s] = Saved(q)]
      BY <1>6, BecomeGoes DEF Become
    <2>2. rf'[s] = q /\ \A x \in Server \ {s} : rf'[x] = rf[x]
      BY <1>0, <1>6, <2>1, FieldsStep, ZenonT(120) DEF Inv
    <2>3. disk'[s] = Saved(q) /\ Saved(q).term = t /\ Saved(q).vote = s
      BY <1>0, <1>6, <2>1 DEF Saved, Inv, Types
    <2>4. \A x \in Server \ {s} : disk'[x] = disk[x]
      BY <1>0, <1>6, <2>1, FieldsStep DEF Inv
    <2>5. r.vote = s /\ \E C \in SUBSET Server : Tally(s, C)
      BY <1>0, <1>6 DEF Inv, CountsTrue
    <2>6. PICK C \in SUBSET Server : Tally(s, C)
      BY <2>5
    <2>7. <<v, t, s>> \in ballots
      BY <1>6, <1>0 DEF Inv, AskedOnce
    <2>8. Open(m, s, v, t)
      BY <1>0, <1>6 DEF Open
    <2>9. v \notin C
      BY <1>0, <2>6, <2>8 DEF Tally
    <2> DEFINE D == C \cup {v}
    <2>10. D \in SUBSET Server /\ s \in D /\ Elects(D, t, s) /\ Cardinality(D) = r.count + 1
      <3>1. IsFiniteSet(C)
        BY Lab2DAssumption, FS_Subset
      <3>2. Cardinality(D) = Cardinality(C) + 1
        BY <2>9, <3>1, FS_AddElement
      <3> QED BY <1>0, <2>6, <2>7, <3>2 DEF Tally, Elects
    <2> HIDE DEF D
    <2>11. \A d \in Server : <<s, t, d>> \notin ballots
      BY <1>0, <1>1, <1>6 DEF Inv, VotesKept
    <2>12. Types'
      <3>1. elected' \subseteq Nat \X Server
        BY <1>0, <1>1, <1>6 DEF Inv, Types
      <3>2. \A n \in net' : IsMessage(n)
        BY <1>2 DEF Inv, Types
      <3> QED BY <1>0, <1>2, <1>6, <2>1, <3>1, <3>2, FieldsStep DEF Inv, Types
    <2>13. VotesKept'
      <3> SUFFICES ASSUME NEW x \in Server, NEW d \in Server, NEW u \in Nat, <<x, u, d>> \in ballots
                   PROVE  /\ x # d /\ Remembers(rf'[x], u, d) /\ Remembers(disk'[x], u, d)
                          /\ rf'[x].term = u => rf'[x].role = "Follower"
                          /\ \A e \in Server : <<x, u, e>> \in ballots => d = e
        BY <1>2 DEF VotesKept
      <3>1. /\ x # d /\ Remembers(rf[x], u, d) /\ Remembers(disk[x], u, d)
            /\ rf[x].term = u => rf[x].role = "Follower"
            /\ \A e \in Server : <<x, u, e>> \in ballots => d = e
        BY DEF Inv, VotesKept
      <3>2. CASE x = s
        <4>1. t > u
          BY <1>6, <3>1, <3>2 DEF Remembers
        <4> QED BY <1>1, <1>6, <2>2, <2>3, <3>1, <3>2, <4>1 DEF Remembers
      <3>3. CASE x # s
        BY <2>2, <2>4, <3>1, <3>3
      <3> QED BY <3>2, <3>3
    <2>14. OfficesKept'
      <3> SUFFICES ASSUME NEW d \in Server, NEW u \in Nat, <<u, d>> \in elected'
                   PROVE  /\ Remembers(rf'[d], u, d) /\ Remembers(disk'[d], u, d)
                          /\ rf'[d].term = u => rf'[d].role # "Candidate"
                          /\ \A e \in Server : <<d, u, e>> \notin ballots
                          /\ \E Q \in SUBSET Server : 2 * Cardinality(Q) > Cardinality(Server) /\ Elects(Q, u, d)
        BY <1>2 DEF OfficesKept, Elects
      <3>1. CASE <<u, d>> \in elected
        <4>1. /\ Remembers(rf[d], u, d) /\ Remembers(disk[d], u, d)
              /\ rf[d].term = u => rf[d].role # "Candidate"
              /\ \A e \in Server : <<d, u, e>> \notin ballots
              /\ \E Q \in SUBSET Server : 2 * Cardinality(Q) > Cardinality(Server) /\ Elects(Q, u, d)
          BY <3>1 DEF Inv, OfficesKept
        <4>2. CASE d = s
          <5>1. t > u
            BY <1>6, <4>1, <4>2 DEF Remembers
          <5> QED BY <1>1, <1>6, <2>2, <2>3, <4>1, <4>2, <5>1 DEF Remembers
        <4>3. CASE d # s
          BY <2>2, <2>4, <4>1, <4>3
        <4> QED BY <4>2, <4>3
      <3>2. CASE <<u, d>> \notin elected
        <4>1. u = t /\ d = s /\ q.role = "Leader" /\ 2 * q.count > Cardinality(Server)
          BY <1>6, <3>2
        <4>2. 2 * Cardinality(D) > Cardinality(Server)
          BY <1>6, <2>10, <4>1
        <4> QED BY <1>6, <2>2, <2>3, <2>10, <2>11, <4>1, <4>2 DEF Remembers
      <3> QED BY <3>1, <3>2
    <2>15. AskedOnce'
      <3>1. \A x \in Server : rf'[x].term = rf[x].term
        BY <1>6, <2>2
      <3> QED BY <1>2, <3>1 DEF Inv, AskedOnce, Open
    <2>16. CountsTrue'
      <3> SUFFICES ASSUME NEW x \in Server, rf'[x].role = "Candidate"
                   PROVE  rf'[x].vote = x /\ \E E \in SUBSET Server : Tally(x, E)'
        BY DEF CountsTrue
      <3>1. CASE x = s
        <4>1. ASSUME NEW y \in D \ {s}, NEW n \in net' PROVE ~Open(n, s, y, t)
          <5>1. CASE y = v
            BY <1>0, <1>1, <1>2, <2>8, <5>1 DEF Inv, AskedOnce
          <5>2. CASE y \in C
            BY <1>2, <2>6, <5>2 DEF Tally
          <5> QED BY <5>1, <5>2 DEF D
        <4>2. Tally(s, D)'
          BY <1>2, <1>6, <2>2, <2>10, <4>1 DEF Tally, Elects, Open
        <4> QED BY <1>6, <2>2, <2>10, <3>1, <4>2
      <3>2. CASE x # s
        <4>1. rf'[x] = rf[x]
          BY <2>2, <3>2
        <4>2. PICK E \in SUBSET Server : Tally(x, E)
          BY <4>1 DEF Inv, CountsTrue
        <4>3. Tally(x, E)'
          BY <1>2, <4>1, <4>2 DEF Tally, Elects, Open
        <4> QED BY <4>1, <4>3 DEF Inv, CountsTrue
      <3> QED BY <3>1, <3>2
    <2>17. YetToAsk'
      <3>1. \A x \in Server : rf[x].term \in Nat /\ rf'[x].term = rf[x].term
        BY <1>6, <2>2, ServerFacts
      <3>2. t \notin ticker[s].asking
        BY <1>0, <2>8 DEF Inv, YetToAsk, Unasked
      <3>3. t \notin ticker'[s].asking
        BY <1>0, <1>2, <3>2 DEF Subsides
      <3>4. \A x \in Server : rf'[x].term \in ticker'[x].asking => rf'[x] = rf[x]
        BY <1>6, <2>2, <3>3
      <3>5. \A k \in Nat : k <= k
        OBVIOUS
      <3> HIDE DEF YetToAsk
      <3> QED BY <1>2, <3>1, <3>4, <3>5, YetToAskStep DEF Inv
    <2> QED BY <2>12, <2>13, <2>14, <2>15, <2>16, <2>17 DEF Inv
  <1>7. CASE /\ r.role = "Candidate" /\ m.term = t /\ m.ok
             /\ \/ 2 * counted.count > Cardinality(Server) /\ ConvertToLeader(s, counted)
                \/ Become(s, counted) /\ UNCHANGED elected
    <2> DEFINE led == [counted EXCEPT !.role = "Leader"]
    <2>0. r.vote = s
      BY <1>0, <1>7 DEF Inv, CountsTrue
    <2>1. r = [f \in Field |-> r[f]]
      BY <1>1 DEF IsRaft
    <2>2. counted = [f \in Field |-> counted[f]] /\ counted.count = r.count + 1
          /\ counted.role = r.role /\ counted.term = t /\ counted.vote = r.vote
      BY <2>1 DEF Field
    <2>3. led = [f \in Field |-> led[f]] /\ led.count = r.count + 1
          /\ led.role = "Leader" /\ led.term = t /\ led.vote = r.vote
      BY <2>2 DEF Field
    <2>4. IsRaft(counted) /\ IsRaft(led)
      <3> HIDE DEF led, counted
      <3> QED BY <1>0, <1>1, <2>0, <2>2, <2>3, SMTT(120) DEF IsRaft, Role
    <2>5. CASE 2 * counted.count > Cardinality(Server) /\ ConvertToLeader(s, counted)
      <3>1. Become(s, led) /\ elected' = elected \cup {<<counted.term, s>>}
        BY <2>5 DEF ConvertToLeader
      <3> HIDE DEF led, counted
      <3> QED BY <1>6, <1>7, <2>0, <2>2, <2>3, <2>4, <2>5, <3>1
    <2>6. CASE Become(s, counted) /\ UNCHANGED elected
      <3> HIDE DEF led, counted
      <3> QED BY <1>6, <1>7, <2>0, <2>2, <2>4, <2>6
    <2> QED BY <1>7, <2>5, <2>6
  <1> QED BY <1>3, <1>4, <1>5, <1>7

-----------------------------------------------------------------------------
(* The theorems. *)

\* Nobody has asked for a vote.
LEMMA InvInit == Init => Inv
  <1> SUFFICES ASSUME Init PROVE Inv
    OBVIOUS
  <1>1. IsRaft(NewRaft(NewDisk)) /\ IsDisk(NewDisk) /\ NewRaft(NewDisk).role = "Follower"
    BY DEF NewRaft, NewDisk, IsRaft, IsDisk, Role, Field
  <1>2. Types
    BY <1>1 DEF Init, Types
  <1>3. VotesKept /\ OfficesKept /\ AskedOnce
    BY DEF Init, VotesKept, OfficesKept, AskedOnce
  <1>4. CountsTrue
    BY <1>1 DEF Init, CountsTrue
  <1>5. YetToAsk
    BY DEF Init, YetToAsk, IsTicker, NewTicker
  <1> QED BY <1>2, <1>3, <1>4, <1>5 DEF Inv

\* A snapshot arrives, and the handler returns or panics.
LEMMA InstallCases ==
  ASSUME NEW m \in net, InstallSnapshotHandler(m)
  PROVE  /\ m.type = "install"
         /\ \/ \E messages \in SUBSET net : StartedAgain(m.to, messages)
            \/ InstallReturns(m) /\ ~(rf[m.to].term <= m.term /\ Panics(Followed(rf[m.to], m.term), m))
  BY DEF InstallSnapshotHandler

\* As long as tickers are in step, every step keeps the invariant.
LEMMA InvNext == Inv /\ [Next]_vars => outOfStep' \/ Inv'
  <1> SUFFICES ASSUME Inv, [Next]_vars, ~outOfStep' PROVE Inv'
    OBVIOUS
  <1>1. ASSUME NEW s \in Server, ServerStep(s) PROVE Inv'
    <2>1. CASE TickerTakes(s) \/ TickerFollows(s)
      BY <2>1, FollowsNothing, TickerKeeps
    <2>2. CASE \E t \in ticker[s].asking : sendAllRequestVote(s, t)
      BY <2>2, AskKeeps
    <2>3. CASE Restart(s)
      BY <2>3, RestartKeeps DEF Restart
    <2> QED BY <1>1, <2>1, <2>2, <2>3, TimeoutKeeps, LocalKeeps, SendKeeps DEF ServerStep
  <1>2. ASSUME NEW m \in net, MessageStep(m) PROVE Inv'
    <2>1. CASE InstallSnapshotHandler(m)
      <3>1. m.to \in Server
        BY DEF Inv, Types, IsMessage
      <3> QED BY <2>1, <3>1, InstallCases, InstallKeeps, RestartKeeps
    <2> QED BY <1>2, <2>1, VoteKeeps, CountKeeps, EntriesKeep, EntriesReplyKeeps, InstallReplyKeeps,
               LoseKeeps DEF MessageStep
  <1>3. CASE UNCHANGED vars
    <2>1. UNCHANGED <<rf, disk, net, elected, ballots, ticker>>
      BY <1>3 DEF vars, historyVars, tickerVars
    <2>2. Types' /\ VotesKept' /\ OfficesKept'
      BY <2>1 DEF Inv, Types, VotesKept, OfficesKept, Elects
    <2>3. AskedOnce'
      BY <2>1 DEF Inv, AskedOnce, Open
    <2>4. CountsTrue'
      BY <2>1 DEF Inv, CountsTrue, Tally, Elects, Open
    <2>5. YetToAsk'
      BY <2>1 DEF Inv, YetToAsk, Unasked, Open
    <2> QED BY <2>2, <2>3, <2>4, <2>5 DEF Inv
  <1> QED BY <1>1, <1>2, <1>3 DEF Next

\* Who is out of step remains so.
LEMMA StaysOut == outOfStep /\ [Next]_vars => outOfStep'
  <1> SUFFICES ASSUME outOfStep, [Next]_vars PROVE outOfStep'
    OBVIOUS
  <1>1. ASSUME NEW s \in Server, ServerStep(s) PROVE outOfStep'
    <2>1. \A m : StartedAgain(s, m) => outOfStep'
      BY DEF StartedAgain
    <2>2. TickerFollows(s) => outOfStep'
      BY DEF TickerFollows
    <2>3. ASSUME NEW t, sendAllRequestVote(s, t) PROVE outOfStep'
      <3>1. CASE rf[s].role = "Candidate"
        BY <2>3, <3>1 DEF sendAllRequestVote
      <3>2. CASE rf[s].role # "Candidate"
        BY <2>3, <3>2 DEF sendAllRequestVote
      <3> QED BY <3>1, <3>2
    <2>4. ElectionTimeout(s) \/ TickerTakes(s) \/ SendAllAppendEntries(s) => outOfStep'
      BY DEF ElectionTimeout, TickerTakes, SendAllAppendEntries
    <2>5. Start(s) \/ checkCommitIndex(s) \/ applyLog(s) \/ Snapshot(s) => outOfStep'
      BY DEF Start, checkCommitIndex, applyLog, Snapshot, tickerVars
    <2> QED BY <1>1, <2>1, <2>2, <2>3, <2>4, <2>5 DEF ServerStep, Restart
  <1>2. ASSUME NEW m \in net, MessageStep(m) PROVE outOfStep'
    <2>1. \A s, n : StartedAgain(s, n) => outOfStep'
      BY DEF StartedAgain
    <2>2. \A s, t : Hears(s, t) => outOfStep'
      BY DEF Hears
    <2>3. AppendEntriesHandler(m) => UNCHANGED tickerVars \/ \E s, t : Hears(s, t)
      BY DEF AppendEntriesHandler
    <2>4. InstallSnapshotHandler(m) => UNCHANGED tickerVars \/ (\E s, t : Hears(s, t)) \/ \E s, n : StartedAgain(s, n)
      BY DEF InstallSnapshotHandler, InstallReturns
    <2>5. RequestVoteHandler(m) \/ VoteReply(m) \/ AppendReply(m) \/ InstallReply(m) \/ Lose(m) => UNCHANGED tickerVars
      BY DEF RequestVoteHandler, VoteReply, AppendReply, InstallReply, Lose
    <2>6. UNCHANGED tickerVars => outOfStep'
      BY DEF tickerVars
    <2> QED BY <1>2, <2>1, <2>2, <2>3, <2>4, <2>5, <2>6 DEF MessageStep
  <1> QED BY <1>1, <1>2 DEF Next, vars, tickerVars

\* The invariant holds until a ticker is out of step.
THEOREM Invariant == Spec => [](outOfStep \/ Inv)
  BY InvInit, InvNext, StaysOut, PTL DEF Spec

\* Of two majorities in a term one server is in both.
LEMMA OneLeader == Inv => NoSecondLeader
  <1> SUFFICES ASSUME Inv PROVE NoSecondLeader
    OBVIOUS
  <1> SUFFICES ASSUME NEW t \in Nat, NEW c \in Server, NEW d \in Server,
                      <<t, c>> \in elected, <<t, d>> \in elected, c # d
               PROVE  FALSE
    BY DEF NoSecondLeader, Inv, Types
  <1>1. PICK P \in SUBSET Server : 2 * Cardinality(P) > Cardinality(Server) /\ Elects(P, t, c)
    BY DEF Inv, OfficesKept
  <1>2. PICK Q \in SUBSET Server : 2 * Cardinality(Q) > Cardinality(Server) /\ Elects(Q, t, d)
    BY DEF Inv, OfficesKept
  <1>3. PICK v : v \in P \cap Q
    <2>1. IsFiniteSet(Server) /\ IsFiniteSet(P) /\ IsFiniteSet(Q) /\ IsFiniteSet(P \cup Q)
      BY Lab2DAssumption, FS_Subset
    <2>2. /\ Cardinality(Server) \in Nat /\ Cardinality(P) \in Nat /\ Cardinality(Q) \in Nat
          /\ Cardinality(P \cap Q) \in Nat
      BY <2>1, FS_CardinalityType, FS_Intersection
    <2>3. Cardinality(P \cup Q) = Cardinality(P) + Cardinality(Q) - Cardinality(P \cap Q)
      BY <2>1, FS_Union
    <2>4. Cardinality(P \cup Q) <= Cardinality(Server)
      BY <2>1, FS_Subset
    <2>5. Cardinality(P \cap Q) # 0
      BY <1>1, <1>2, <2>2, <2>3, <2>4
    <2> QED BY <2>1, <2>5, FS_EmptySet
  <1>4. /\ \A e \in Server : <<c, t, e>> \notin ballots
        /\ \A e \in Server : <<d, t, e>> \notin ballots
    BY DEF Inv, OfficesKept
  <1>5. v = c \/ <<v, t, c>> \in ballots
    BY <1>1, <1>3 DEF Elects
  <1>6. v = d \/ <<v, t, d>> \in ballots
    BY <1>2, <1>3 DEF Elects
  <1>7. v \in Server /\ <<v, t, c>> \in ballots /\ <<v, t, d>> \in ballots
    BY <1>3, <1>4, <1>5, <1>6
  <1> QED BY <1>7 DEF Inv, VotesKept

\* raft.go:477-486, 545-551: of two majorities in a term one server is in both, and it
\* voted once: for another, as its disk remembers, or for itself, as its office does; until
\* its ticker makes it forget (690), or a candidate asks, and counts, twice (734).
THEOREM LeadersUnique == Spec => []OneLeaderPerTerm
  <1>1. outOfStep \/ Inv => OneLeaderPerTerm
    BY OneLeader DEF OneLeaderPerTerm
  <1> QED BY <1>1, Invariant, PTL


-----------------------------------------------------------------------------
(***************************************************************************)
(* Logs.  A history h says what the servers' logs are as if no snapshot    *)
(* had ever been taken: h.log and h.saved, in memory and on disk, and      *)
(* h.led, that of each term's leader; what each server has acknowledged in *)
(* each term, h.acked; the term on each disk, h.term; who was elected,     *)
(* h.office; and the entries that are committed, h.sure.  A snapshot from  *)
(* the leader may be followed by entries that do not belong after it: then *)
(* h.log differs from h.sure where the snapshot is, and nowhere else does  *)
(* the code see it.                                                        *)
(***************************************************************************)

\* Entries and logs as raft-Lab2D persists them, without the first index it counts from.
Entry == [term : Nat, cmd : Nat]
Log == Seq(Entry)
Pos == Nat \ {0}

\* A history's parts.
IsHistory(h) ==
  /\ h.led \in [Nat -> Log] /\ h.acked \in [Server -> [Nat -> Nat]]
  /\ h.log \in [Server -> Log] /\ h.saved \in [Server -> Log]
  /\ h.term \in [Server -> Nat] /\ h.office \subseteq Nat \X Server /\ h.sure \in Log

\* More than half of the servers.
IsMajority(Q) == 2 * Cardinality(Q) > Cardinality(Server)

\* Two logs hold the same entries at 1 .. n.
Agree(l, k, n) == n <= Len(l) /\ n <= Len(k) /\ \A i \in 1 .. n : l[i] = k[i]

\* Entry n of l is of term t.
Has(l, n, t) == n \in DOMAIN l /\ l[n].term = t

\* The term of entry n, 0 before the first.
TermOf(l, n) == IF n \in DOMAIN l THEN l[n].term ELSE 0

\* Up to each of its entries, l is the log of the leader of the entry's term.
FromLeaders(l, h) == \A i \in DOMAIN l : Agree(l, h.led[l[i].term], i)

Led(t, h) == \E s \in Server : <<t, s>> \in h.office

\* Entry n of term t was thrown away by the leader of a term in t + 1 .. u.
Lost(n, t, u, h) == \E v \in Nat : t < v /\ v <= u /\ Led(v, h) /\ ~Has(h.led[v], n, t)

\* Who has entry n of term t on disk, and who may still acknowledge it.
Stores(n, t, h) == {s \in Server : n <= h.acked[s][t]}
MayStore(n, t, h) == {s \in Server : n <= h.acked[s][t] \/ h.term[s] <= t}

\* Entry n of term t is in the log of its leader, and a majority has acknowledged it.
Chosen(n, t, h) == Has(h.led[t], n, t) /\ IsMajority(Stores(n, t, h))

\* The first c committed entries were chosen in a term up to u.
Sure(c, u, h) ==
  \/ c = 0
  \/ /\ c <= Len(h.sure)
     /\ \E t \in Nat, n \in Pos :
           t <= u /\ c <= n /\ Chosen(n, t, h) /\ Agree(h.sure, h.led[t], c)

\* The logs of leaders: terms never go down and end at the leader's.
LeaderLogs(h) ==
  \A t \in Nat :
     /\ FromLeaders(h.led[t], h)
     /\ ~Led(t, h) => h.led[t] = <<>>
     /\ \A i, j \in DOMAIN h.led[t] : i <= j => h.led[t][i].term <= h.led[t][j].term
     /\ \A i \in DOMAIN h.led[t] : h.led[t][i].term <= t

\* The logs of servers; memory is never behind the disk.
ServerLogs(h) ==
  \A s \in Server :
     /\ FromLeaders(h.log[s], h)
     /\ \A i \in DOMAIN h.log[s] : h.log[s][i].term <= h.term[s]
     /\ Agree(h.saved[s], h.log[s], Len(h.saved[s]))

\* What has been acknowledged is in the leader's log, in a term that was reached, and while
\* that term lasts it is on disk.
AckedHeld(h) ==
  \A s \in Server :
     /\ \A t \in Nat : h.acked[s][t] <= Len(h.led[t]) /\ (h.term[s] < t => h.acked[s][t] = 0)
     /\ Agree(h.saved[s], h.led[h.term[s]], h.acked[s][h.term[s]])

\* Later it is on disk still, unless a leader has thrown it away.
AckedKept(h) ==
  \A s \in Server, t \in Nat : \A n \in 1 .. h.acked[s][t] :
     Has(h.led[t], n, t) => Has(h.saved[s], n, t) \/ Lost(n, t, h.term[s], h)

\* Leaders of later terms hold what may still be chosen.
LaterLeaders(h) ==
  \A t, u \in Nat : t < u /\ Led(u, h) =>
     \A n \in Pos : Has(h.led[t], n, t) /\ IsMajority(MayStore(n, t, h)) => Has(h.led[u], n, t)

\* A majority has been in a leader's term.
Backed(h) ==
  \A t \in Nat : Led(t, h) =>
     \E Q \in SUBSET Server : IsMajority(Q) /\ \A v \in Q : t <= h.term[v]

\* The committed entries were all chosen.
Settled(h) == \E u \in Nat : Sure(Len(h.sure), u, h)

\* What holds of every history.
Core(h) ==
  /\ IsHistory(h) /\ LeaderLogs(h) /\ ServerLogs(h) /\ AckedHeld(h) /\ AckedKept(h)
  /\ LaterLeaders(h) /\ Backed(h)

-----------------------------------------------------------------------------
(* Operators on logs. *)

\* A larger set than a majority is one.
LEMMA LargerMajority ==
  ASSUME NEW S, NEW T, S \subseteq T, T \subseteq Server, IsMajority(S)
  PROVE  IsMajority(T)
  <1>1. IsFiniteSet(T)
    BY Lab2DAssumption, FS_Subset
  <1>2. IsFiniteSet(S) /\ Cardinality(S) <= Cardinality(T)
    BY <1>1, FS_Subset
  <1>3. Cardinality(S) \in Nat /\ Cardinality(T) \in Nat /\ Cardinality(Server) \in Nat
    BY <1>1, <1>2, Lab2DAssumption, FS_CardinalityType
  <1> QED BY <1>2, <1>3 DEF IsMajority

\* Two majorities share a server.
LEMMA MajoritiesMeet ==
  ASSUME NEW S, NEW T, S \subseteq Server, T \subseteq Server, IsMajority(S), IsMajority(T)
  PROVE  \E v \in Server : v \in S /\ v \in T
  <1>1. IsFiniteSet(S) /\ IsFiniteSet(T) /\ IsFiniteSet(Server)
    BY Lab2DAssumption, FS_Subset
  <1>2. Cardinality(S) \in Nat /\ Cardinality(T) \in Nat /\ Cardinality(Server) \in Nat
    BY <1>1, FS_CardinalityType
  <1>3. Cardinality(S) + Cardinality(T) > Cardinality(Server)
    BY <1>2 DEF IsMajority
  <1>4. S \cap T # {}
    BY <1>1, <1>3, FS_MajoritiesIntersect
  <1> QED BY <1>4

\* The parts of a history.
LEMMA Parts ==
  ASSUME NEW h, IsHistory(h), NEW s \in Server, NEW t \in Nat
  PROVE  /\ h.led[t] \in Log /\ Len(h.led[t]) \in Nat /\ h.acked[s][t] \in Nat
         /\ h.log[s] \in Log /\ Len(h.log[s]) \in Nat
         /\ h.saved[s] \in Log /\ Len(h.saved[s]) \in Nat
         /\ h.term[s] \in Nat /\ h.sure \in Log /\ Len(h.sure) \in Nat
  <1>1. h.acked \in [Server -> [Nat -> Nat]]
    BY DEF IsHistory
  <1>2. h.acked[s] \in [Nat -> Nat]
    BY <1>1
  <1>3. h.acked[s][t] \in Nat
    BY <1>2
  <1>4. h.led[t] \in Log /\ h.log[s] \in Log /\ h.saved[s] \in Log /\ h.term[s] \in Nat /\ h.sure \in Log
    BY DEF IsHistory
  <1> QED BY <1>3, <1>4 DEF Log

\* A log has a length.
LEMMA LogLen == \A l \in Log : Len(l) \in Nat
  BY DEF Log

\* The entries of a log.
LEMMA EntryAt ==
  ASSUME NEW l \in Log, NEW n
  PROVE  /\ n \in DOMAIN l <=> n \in Pos /\ n <= Len(l)
         /\ n \in DOMAIN l => l[n] \in Entry /\ l[n].term \in Nat /\ l[n].cmd \in Nat
  <1>1. DOMAIN l = 1 .. Len(l) /\ Len(l) \in Nat
    BY DEF Log
  <1>2. n \in DOMAIN l => l[n] \in Entry
    BY DEF Log
  <1> QED BY <1>1, <1>2 DEF Entry, Pos

\* Agreement up to n is agreement up to any smaller index, and is transitive.
LEMMA AgreeParts ==
  ASSUME NEW l \in Log, NEW k \in Log, NEW r \in Log,
         NEW n \in Nat, NEW m \in Nat, m <= n, Agree(l, k, n)
  PROVE  /\ Agree(l, k, m) /\ Agree(k, l, m)
         /\ Agree(k, r, m) => Agree(l, r, m)
         /\ Agree(r, k, m) => Agree(r, l, m)
  BY DEF Agree, Log

\* Any two logs agree up to 0, and each with itself.
LEMMA AgreeZero ==
  ASSUME NEW l \in Log, NEW k \in Log
  PROVE  Agree(l, k, 0) /\ Agree(l, l, Len(l))
  BY DEF Agree, Log

\* Entries on which two logs agree: Has does not tell them apart.
LEMMA AgreeHas ==
  ASSUME NEW l \in Log, NEW k \in Log, NEW n \in Nat, NEW m \in Pos,
         m <= n, Agree(l, k, n), NEW t, Has(l, m, t)
  PROVE  Has(k, m, t)
  <1>1. l[m] = k[m] /\ m <= Len(k)
    BY DEF Agree, Pos
  <1> QED BY <1>1, EntryAt DEF Has

\* Two logs that come from leaders and have one term at one index agree up to there.
LEMMA LogsMatch ==
  ASSUME NEW h, IsHistory(h), NEW l \in Log, NEW k \in Log, FromLeaders(l, h), FromLeaders(k, h),
         NEW n, NEW t, Has(l, n, t), Has(k, n, t)
  PROVE  n \in Nat /\ Agree(l, k, n)
  <1>1. n \in DOMAIN l /\ n \in DOMAIN k /\ l[n].term = t /\ k[n].term = t
    BY DEF Has
  <1>2. n \in Nat /\ t \in Nat
    BY <1>1, EntryAt DEF Pos
  <1>3. Agree(l, h.led[t], n) /\ Agree(k, h.led[t], n) /\ h.led[t] \in Log
    BY <1>1, <1>2 DEF FromLeaders, IsHistory
  <1> QED BY <1>2, <1>3, AgreeParts

\* A log that comes from leaders agrees with the leader's of each of its entries.
LEMMA LogOfEntry ==
  ASSUME NEW h, IsHistory(h), NEW l \in Log, FromLeaders(l, h), NEW n, NEW t, Has(l, n, t)
  PROVE  n \in Pos /\ t \in Nat /\ Agree(l, h.led[t], n) /\ Has(h.led[t], n, t)
  <1>1. n \in DOMAIN l /\ l[n].term = t
    BY DEF Has
  <1>2. n \in Pos /\ t \in Nat /\ h.led[t] \in Log
    BY <1>1, EntryAt DEF IsHistory
  <1>3. Agree(l, h.led[t], n)
    BY <1>1 DEF FromLeaders
  <1> QED BY <1>2, <1>3, AgreeHas DEF Pos

\* A log that agrees, over its whole length, with one from leaders comes from leaders.
LEMMA PrefixFromLeaders ==
  ASSUME NEW h, IsHistory(h), NEW l \in Log, NEW k \in Log, FromLeaders(k, h), Agree(l, k, Len(l))
  PROVE  FromLeaders(l, h)
  <1> SUFFICES ASSUME NEW i \in DOMAIN l
               PROVE  Agree(l, h.led[l[i].term], i)
    BY DEF FromLeaders
  <1>1. i \in Nat /\ i <= Len(l) /\ Len(l) \in Nat /\ l[i].term \in Nat /\ i \in 1 .. Len(l)
    BY EntryAt DEF Pos, Log
  <1>2. l[i] = k[i] /\ i \in DOMAIN k
    BY <1>1, EntryAt DEF Agree, Pos
  <1>3. Agree(k, h.led[l[i].term], i) /\ h.led[l[i].term] \in Log
    BY <1>1, <1>2 DEF FromLeaders, IsHistory
  <1>4. Agree(l, k, i)
    BY <1>1, AgreeParts
  <1> QED BY <1>1, <1>3, <1>4, AgreeParts

\* The term of the last entry, 0 of none.
LastOf(l) == TermOf(l, Len(l))

\* RequestVote's comparison: a log that is not older than one that holds entry n of term t
\* holds it too, unless some later leader up to the term it ends in threw the entry away.
LEMMA NewerHolds ==
  ASSUME NEW h, IsHistory(h), LeaderLogs(h), NEW l \in Log, NEW c \in Log,
         FromLeaders(l, h), FromLeaders(c, h), NEW n, NEW t, Has(l, n, t),
         ~(LastOf(c) < LastOf(l) \/ (LastOf(c) = LastOf(l) /\ Len(c) < Len(l)))
  PROVE  Has(c, n, t) \/ Lost(n, t, LastOf(c), h)
  <1> DEFINE K == Len(l)
             J == Len(c)
             T == LastOf(c)
             U == LastOf(l)
  <1>0. n \in Pos /\ t \in Nat /\ n <= K /\ K \in Pos /\ J \in Nat
    BY EntryAt DEF Has, Pos, Log
  <1>1. U \in Nat /\ Has(l, K, U) /\ T \in Nat
    BY <1>0, EntryAt DEF LastOf, TermOf, Has
  <1>2. Agree(l, h.led[U], K) /\ h.led[U] \in Log
    BY <1>1, LogOfEntry DEF IsHistory
  <1>3. t <= U
    <2>1. Has(h.led[U], n, t) /\ Has(h.led[U], K, U)
      BY <1>0, <1>1, <1>2, AgreeHas DEF Pos
    <2> QED BY <1>0, <1>1, <2>1 DEF LeaderLogs, Has
  <1>4. CASE T = U
    <2>1. J >= K /\ J \in Pos /\ Has(c, J, U)
      BY <1>0, <1>1, <1>4, EntryAt DEF LastOf, TermOf, Has, Pos
    <2>2. Agree(c, h.led[U], J)
      BY <2>1, LogOfEntry
    <2>3. Agree(c, h.led[U], n) /\ Agree(l, h.led[U], n)
      BY <1>0, <1>2, <2>1, <2>2, AgreeParts DEF Pos
    <2>4. Agree(h.led[U], c, n)
      BY <1>0, <1>2, <2>3, AgreeParts DEF Pos
    <2>5. Agree(l, c, n)
      BY <1>0, <1>2, <2>3, <2>4, AgreeParts DEF Pos
    <2> QED BY <1>0, <2>5, AgreeHas DEF Pos
  <1>5. CASE T # U
    <2>1. t < T /\ T # 0
      BY <1>0, <1>1, <1>3, <1>5
    <2>2. Has(c, J, T)
      BY <2>1 DEF LastOf, TermOf, Has
    <2>3. J \in Pos /\ Agree(c, h.led[T], J) /\ Has(h.led[T], J, T) /\ h.led[T] \in Log
      BY <1>1, <2>2, LogOfEntry DEF IsHistory
    <2>4. Led(T, h)
      BY <1>1, <2>3, EntryAt DEF LeaderLogs, Has
    <2>5. CASE Has(h.led[T], n, t)
      <3>1. n <= J
        BY <1>0, <1>1, <2>1, <2>3, <2>5 DEF LeaderLogs, Has, Pos
      <3>2. Agree(h.led[T], c, J)
        BY <2>3, AgreeParts DEF Pos
      <3> QED BY <1>0, <2>3, <2>5, <3>1, <3>2, AgreeHas DEF Pos
    <2>6. CASE ~Has(h.led[T], n, t)
      BY <1>1, <2>1, <2>4, <2>6 DEF Lost
    <2> QED BY <2>5, <2>6
  <1> QED BY <1>4, <1>5

-----------------------------------------------------------------------------
(* How a step changes what the invariant is measured by. *)

\* Terms grow, offices and acknowledgements are not taken back, acknowledgements come only in
\* a term that is not over, and the log of a leader in office grows by entries of its term.
Grows(h, g) ==
  /\ \A s \in Server : h.term[s] <= g.term[s]
  /\ \A s \in Server, t \in Nat :
        h.acked[s][t] <= g.acked[s][t] /\ (g.acked[s][t] # h.acked[s][t] => h.term[s] <= t)
  /\ h.office \subseteq g.office
  /\ \A t \in Nat :
        /\ Agree(h.led[t], g.led[t], Len(h.led[t]))
        /\ Led(t, h) => \A n \in Pos, u \in Nat \ {t} : Has(g.led[t], n, u) => Has(h.led[t], n, u)
  /\ Agree(h.sure, g.sure, Len(h.sure))

\* What is true of the leaders' logs stays true.
LEMMA LeaderLogsGrow ==
  ASSUME NEW h, NEW g, IsHistory(h), IsHistory(g), Grows(h, g)
  PROVE  /\ \A l \in Log, t \in Nat, n \in Nat : Agree(l, h.led[t], n) => Agree(l, g.led[t], n)
         /\ \A l \in Log : FromLeaders(l, h) => FromLeaders(l, g)
         /\ \A t \in Nat : \A n, u : Has(h.led[t], n, u) => Has(g.led[t], n, u)
         /\ \A t \in Nat : Led(t, h) => Led(t, g)
  <1>0. \A t \in Nat : h.led[t] \in Log /\ g.led[t] \in Log /\ Len(h.led[t]) \in Nat
    <2>1. \A t \in Nat : h.led[t] \in Log /\ g.led[t] \in Log
      BY DEF IsHistory
    <2> QED BY <2>1, LogLen
  <1>1. ASSUME NEW l \in Log, NEW t \in Nat, NEW n \in Nat, Agree(l, h.led[t], n)
        PROVE  Agree(l, g.led[t], n)
    <2>1. Agree(h.led[t], g.led[t], Len(h.led[t])) /\ n <= Len(h.led[t])
      BY <1>1 DEF Grows, Agree
    <2>2. Agree(h.led[t], g.led[t], n)
      BY <1>0, <2>1, AgreeParts
    <2> QED BY <1>0, <1>1, <2>2, AgreeParts
  <1>2. ASSUME NEW l \in Log, FromLeaders(l, h)
        PROVE  FromLeaders(l, g)
    <2> SUFFICES ASSUME NEW i \in DOMAIN l
                 PROVE  Agree(l, g.led[l[i].term], i)
      BY DEF FromLeaders
    <2>1. l[i].term \in Nat /\ i \in Nat
      BY EntryAt DEF Pos
    <2> QED BY <1>1, <1>2, <2>1 DEF FromLeaders
  <1>3. ASSUME NEW t \in Nat, NEW n, NEW u, Has(h.led[t], n, u)
        PROVE  Has(g.led[t], n, u)
    <2>1. Agree(h.led[t], g.led[t], Len(h.led[t])) /\ n <= Len(h.led[t]) /\ n \in Pos
      BY <1>0, <1>3, EntryAt DEF Grows, Has
    <2> QED BY <1>0, <1>3, <2>1, AgreeHas
  <1>4. \A t \in Nat : Led(t, h) => Led(t, g)
    BY DEF Led, Grows
  <1> QED BY <1>1, <1>2, <1>3, <1>4

\* What was thrown away stays so: the leader that did it appends entries of its own term.
LEMMA LostKept ==
  ASSUME NEW h, NEW g, IsHistory(h), IsHistory(g), Grows(h, g), NEW n \in Pos, NEW t \in Nat,
         NEW u \in Nat, NEW w \in Nat, u <= w, Lost(n, t, u, h)
  PROVE  Lost(n, t, w, g)
  <1>1. PICK v \in Nat : t < v /\ v <= u /\ Led(v, h) /\ ~Has(h.led[v], n, t)
    BY DEF Lost
  <1>2. v <= w /\ t \in Nat \ {v}
    BY <1>1
  <1>3. ~Has(g.led[v], n, t)
    BY <1>1, <1>2 DEF Grows
  <1>4. Led(v, g)
    BY <1>1, LeaderLogsGrow
  <1> QED BY <1>1, <1>2, <1>3, <1>4 DEF Lost

\* Nobody joins those who may still acknowledge an entry, or leaves those who have.
LEMMA StoresChange ==
  ASSUME NEW h, NEW g, IsHistory(h), IsHistory(g), Grows(h, g), NEW n \in Pos, NEW t \in Nat
  PROVE  /\ MayStore(n, t, g) \subseteq MayStore(n, t, h)
         /\ IsMajority(MayStore(n, t, g)) => IsMajority(MayStore(n, t, h))
         /\ Chosen(n, t, h) => Chosen(n, t, g)
  <1>0. \A s \in Server : /\ h.acked[s][t] \in Nat /\ g.acked[s][t] \in Nat
                          /\ h.term[s] \in Nat /\ g.term[s] \in Nat /\ n \in Nat
    BY Parts DEF Pos
  <1>1. MayStore(n, t, g) \subseteq MayStore(n, t, h)
    BY <1>0 DEF MayStore, Grows
  <1>2. Stores(n, t, h) \subseteq Stores(n, t, g)
    BY <1>0 DEF Grows, Stores
  <1>3. MayStore(n, t, h) \subseteq Server /\ Stores(n, t, g) \subseteq Server
    BY DEF MayStore, Stores
  <1>4. Chosen(n, t, h) => Chosen(n, t, g)
    BY <1>2, <1>3, LargerMajority, LeaderLogsGrow DEF Chosen
  <1> QED BY <1>1, <1>3, <1>4, LargerMajority

\* What is committed stays committed.
LEMMA SureKept ==
  ASSUME NEW h, NEW g, IsHistory(h), IsHistory(g), Grows(h, g), NEW c \in Nat, NEW u \in Nat,
         NEW w \in Nat, u <= w, Sure(c, u, h)
  PROVE  Sure(c, w, g)
  <1> SUFFICES ASSUME c # 0
               PROVE  Sure(c, w, g)
    BY DEF Sure
  <1>1. PICK t \in Nat, n \in Pos :
           c <= Len(h.sure) /\ t <= u /\ c <= n /\ Chosen(n, t, h) /\ Agree(h.sure, h.led[t], c)
    BY DEF Sure
  <1>2. h.sure \in Log /\ g.sure \in Log /\ Len(h.sure) \in Nat /\ Len(g.sure) \in Nat /\ g.led[t] \in Log
    <2>1. h.sure \in Log /\ g.sure \in Log /\ g.led[t] \in Log
      BY DEF IsHistory
    <2> QED BY <2>1, LogLen
  <1>3. Agree(h.sure, g.led[t], c)
    BY <1>1, <1>2, LeaderLogsGrow
  <1>4. Agree(h.sure, g.sure, c) /\ c <= Len(g.sure)
    BY <1>1, <1>2, AgreeParts DEF Grows, Agree
  <1>5. Agree(g.sure, h.sure, c)
    BY <1>2, <1>4, AgreeParts
  <1>6. Agree(g.sure, g.led[t], c)
    BY <1>2, <1>3, <1>5, AgreeParts
  <1>7. Chosen(n, t, g)
    BY <1>1, StoresChange
  <1> QED BY <1>1, <1>4, <1>6, <1>7 DEF Sure

\* A part of what is committed is.
LEMMA SurePart ==
  ASSUME NEW h, IsHistory(h), NEW c \in Nat, NEW d \in Nat, d <= c, NEW u, Sure(c, u, h)
  PROVE  Sure(d, u, h)
  <1> SUFFICES ASSUME d # 0
               PROVE  Sure(d, u, h)
    BY DEF Sure
  <1>1. PICK t \in Nat, n \in Pos :
           c <= Len(h.sure) /\ t <= u /\ c <= n /\ Chosen(n, t, h) /\ Agree(h.sure, h.led[t], c)
    BY DEF Sure
  <1>2. h.sure \in Log /\ h.led[t] \in Log
    BY DEF IsHistory
  <1>3. Agree(h.sure, h.led[t], d)
    BY <1>1, <1>2, AgreeParts
  <1> QED BY <1>1, <1>2, <1>3 DEF Sure, Pos

-----------------------------------------------------------------------------
(* What is chosen. *)

\* No leader has thrown away an entry that was chosen.
LEMMA NotLost ==
  ASSUME NEW h, Core(h), NEW t \in Nat, NEW n \in Pos, Chosen(n, t, h), NEW u
  PROVE  ~Lost(n, t, u, h)
  <1> SUFFICES ASSUME NEW v \in Nat, t < v, Led(v, h), ~Has(h.led[v], n, t)
               PROVE  FALSE
    BY DEF Lost
  <1>1. Stores(n, t, h) \subseteq MayStore(n, t, h) /\ MayStore(n, t, h) \subseteq Server
    BY DEF MayStore, Stores
  <1>2. IsMajority(MayStore(n, t, h))
    BY <1>1, LargerMajority DEF Chosen
  <1> QED BY <1>2 DEF Core, LaterLeaders, Chosen

\* A leader of the term of a chosen entry, or of a later one, has the log up to it.
LEMMA ChosenKept ==
  ASSUME NEW h, Core(h), NEW t \in Nat, NEW u \in Nat, t <= u, Led(u, h), NEW n \in Pos,
         Chosen(n, t, h)
  PROVE  Agree(h.led[t], h.led[u], n) /\ Has(h.led[u], n, t)
  <1>1. IsHistory(h) /\ h.led[t] \in Log /\ h.led[u] \in Log /\ Has(h.led[t], n, t)
    BY DEF Core, IsHistory, Chosen
  <1>2. Has(h.led[u], n, t)
    <2>1. CASE t = u
      BY <1>1, <2>1
    <2>2. CASE t < u
      BY <1>1, <2>2, NotLost, SMTT(120) DEF Lost
    <2> QED BY <2>1, <2>2
  <1>3. FromLeaders(h.led[t], h) /\ FromLeaders(h.led[u], h)
    BY DEF Core, LeaderLogs
  <1> QED BY <1>1, <1>2, <1>3, LogsMatch

\* Its term had a leader.
LEMMA ChosenLed ==
  ASSUME NEW h, Core(h), NEW t \in Nat, NEW n, Chosen(n, t, h)
  PROVE  Led(t, h)
  <1>1. Has(h.led[t], n, t) /\ h.led[t] \in Log
    BY DEF Chosen, Core, IsHistory
  <1>2. h.led[t] # <<>>
    BY <1>1, EntryAt DEF Has, Pos
  <1> QED BY <1>2 DEF Core, LeaderLogs

\* A leader has all that was committed up to its term.
LEMMA SureWithLeader ==
  ASSUME NEW h, Core(h), NEW c \in Nat, NEW u \in Nat, NEW w \in Nat, u <= w, Led(w, h),
         Sure(c, u, h)
  PROVE  Agree(h.sure, h.led[w], c)
  <1>0. IsHistory(h) /\ h.sure \in Log /\ h.led[w] \in Log
    BY DEF Core, IsHistory
  <1>1. CASE c = 0
    BY <1>0, <1>1, AgreeZero
  <1>2. CASE c # 0
    <2>1. PICK t \in Nat, n \in Pos : t <= u /\ c <= n /\ Chosen(n, t, h) /\ Agree(h.sure, h.led[t], c)
      BY <1>2 DEF Sure
    <2>2. Agree(h.led[t], h.led[w], n) /\ h.led[t] \in Log /\ n \in Nat
      BY <1>0, <2>1, ChosenKept DEF IsHistory, Pos
    <2>3. Agree(h.led[t], h.led[w], c)
      BY <1>0, <2>1, <2>2, AgreeParts
    <2> QED BY <1>0, <2>1, <2>2, <2>3, AgreeParts
  <1> QED BY <1>1, <1>2

\* What was chosen is on the disks of a majority.
LEMMA ChosenOnDisk ==
  ASSUME NEW h, Core(h), NEW t \in Nat, NEW n \in Pos, Chosen(n, t, h),
         NEW s \in Stores(n, t, h)
  PROVE  s \in Server /\ Agree(h.saved[s], h.led[t], n)
  <1>0. IsHistory(h) /\ s \in Server /\ n <= h.acked[s][t] /\ Has(h.led[t], n, t)
    BY DEF Core, Stores, Chosen
  <1>1. h.saved[s] \in Log /\ h.log[s] \in Log /\ Len(h.saved[s]) \in Nat /\ h.acked[s][t] \in Nat /\ n \in Nat
    BY <1>0, Parts DEF Pos
  <1>2. n \in 1 .. h.acked[s][t]
    BY <1>0, <1>1 DEF Pos
  <1>3. Has(h.saved[s], n, t)
    BY <1>0, <1>2, NotLost DEF Core, AckedKept
  <1>4. FromLeaders(h.saved[s], h)
    BY <1>0, <1>1, PrefixFromLeaders DEF Core, ServerLogs
  <1> QED BY <1>0, <1>1, <1>3, <1>4, LogOfEntry

-----------------------------------------------------------------------------
(* How histories grow. *)

\* What is on disk is in memory too.
LEMMA SavedInLog ==
  ASSUME NEW h, IsHistory(h), ServerLogs(h), NEW s \in Server, NEW k \in Log, NEW n \in Nat
  PROVE  /\ Agree(h.saved[s], k, n) => Agree(h.log[s], k, n)
         /\ \A t : n # 0 /\ Has(h.saved[s], n, t) => Has(h.log[s], n, t)
         /\ FromLeaders(h.saved[s], h)
         /\ \A i \in DOMAIN h.saved[s] : h.saved[s][i].term <= h.term[s]
  <1>0. h.saved[s] \in Log /\ h.log[s] \in Log /\ Len(h.saved[s]) \in Nat
        /\ Agree(h.saved[s], h.log[s], Len(h.saved[s]))
    BY Parts DEF ServerLogs
  <1>1. ASSUME Agree(h.saved[s], k, n) PROVE Agree(h.log[s], k, n)
    <2>1. n <= Len(h.saved[s])
      BY <1>1 DEF Agree
    <2>2. Agree(h.log[s], h.saved[s], n)
      BY <1>0, <2>1, AgreeParts
    <2> QED BY <1>0, <1>1, <2>2, AgreeParts
  <1>2. ASSUME NEW t, n # 0, Has(h.saved[s], n, t) PROVE Has(h.log[s], n, t)
    <2>1. n \in Pos /\ n <= Len(h.saved[s])
      BY <1>0, <1>2, EntryAt DEF Has
    <2> QED BY <1>0, <1>2, <2>1, AgreeHas
  <1>3. FromLeaders(h.saved[s], h)
    BY <1>0, PrefixFromLeaders DEF ServerLogs
  <1>4. ASSUME NEW i \in DOMAIN h.saved[s] PROVE h.saved[s][i].term <= h.term[s]
    <2>1. i \in 1 .. Len(h.saved[s]) /\ i \in Pos /\ i <= Len(h.log[s])
      BY <1>0, EntryAt DEF Agree, Log
    <2>2. i \in DOMAIN h.log[s] /\ h.log[s][i] = h.saved[s][i]
      BY <1>0, <2>1, EntryAt DEF Agree
    <2> QED BY <2>2 DEF ServerLogs
  <1> QED BY <1>1, <1>2, <1>3, <1>4

\* AckedKept after a step: for whoever keeps the entry, or takes over the log of a leader of
\* its new term that lacks it, and for new acknowledgements.
LEMMA AckedKeptGrows ==
  ASSUME NEW h, NEW g, IsHistory(h), IsHistory(g), Grows(h, g),
         \A s \in Server, t \in Nat, n \in Pos :
            Has(g.led[t], n, t) /\ n <= g.acked[s][t] =>
               \/ Has(g.saved[s], n, t)
               \/ Lost(n, t, h.term[s], h)
               \/ t < g.term[s] /\ Led(g.term[s], g) /\ ~Has(g.led[g.term[s]], n, t)
  PROVE  AckedKept(g)
  <1> SUFFICES ASSUME NEW s \in Server, NEW t \in Nat, NEW n \in 1 .. g.acked[s][t],
                      Has(g.led[t], n, t)
               PROVE  Has(g.saved[s], n, t) \/ Lost(n, t, g.term[s], g)
    BY DEF AckedKept
  <1>1. n \in Pos /\ n <= g.acked[s][t]
    BY Parts DEF Pos
  <1>2. h.term[s] \in Nat /\ g.term[s] \in Nat /\ h.term[s] <= g.term[s]
    BY Parts DEF Grows
  <1>3. CASE Lost(n, t, h.term[s], h)
    BY <1>1, <1>2, <1>3, LostKept
  <1>4. CASE t < g.term[s] /\ Led(g.term[s], g) /\ ~Has(g.led[g.term[s]], n, t)
    BY <1>2, <1>4 DEF Lost
  <1> QED BY <1>1, <1>3, <1>4

\* LaterLeaders after a step, of the leaders there were: what may still be chosen could be.
LEMMA LaterLeadersKept ==
  ASSUME NEW h, NEW g, Core(h), IsHistory(g), Grows(h, g), NEW t \in Nat, NEW u \in Nat, t < u,
         Led(u, h), NEW n \in Pos, Has(h.led[t], n, t), IsMajority(MayStore(n, t, g))
  PROVE  Has(g.led[u], n, t)
  <1>1. IsMajority(MayStore(n, t, h))
    BY StoresChange DEF Core
  <1>2. Has(h.led[u], n, t)
    BY <1>1 DEF Core, LaterLeaders
  <1> QED BY <1>2, LeaderLogsGrow DEF Core

\* A majority has still been in a leader's term.
LEMMA BackedKept ==
  ASSUME NEW h, NEW g, Core(h), IsHistory(g), Grows(h, g), NEW t \in Nat, Led(t, h)
  PROVE  \E Q \in SUBSET Server : IsMajority(Q) /\ \A v \in Q : t <= g.term[v]
  <1>1. PICK Q \in SUBSET Server : IsMajority(Q) /\ \A v \in Q : t <= h.term[v]
    BY DEF Core, Backed
  <1>2. \A v \in Q : h.term[v] \in Nat /\ g.term[v] \in Nat /\ h.term[v] <= g.term[v]
    BY Parts DEF Grows, Core
  <1> QED BY <1>1, <1>2

\* A step that leaves leaders and acknowledgements alone: logs are saved, or fall back to
\* what was saved.
LEMMA QuietCore ==
  ASSUME NEW h, NEW g, Core(h), IsHistory(g),
         g.led = h.led, g.acked = h.acked, g.office = h.office,
         Agree(h.sure, g.sure, Len(h.sure)),
         \A s \in Server :
            /\ h.term[s] <= g.term[s]
            /\ \/ g.log[s] = h.log[s] /\ g.saved[s] \in {h.saved[s], h.log[s]}
               \/ g.log[s] = h.saved[s] /\ g.saved[s] = h.saved[s]
  PROVE  Grows(h, g) /\ Core(g)
  <1>0. IsHistory(h) /\ \A t : Led(t, h) <=> Led(t, g)
    BY DEF Core, Led
  <1>p. \A s \in Server, t \in Nat : /\ h.led[t] \in Log /\ h.acked[s][t] \in Nat /\ h.term[s] \in Nat
                                     /\ h.log[s] \in Log /\ h.saved[s] \in Log /\ g.term[s] \in Nat
    BY <1>0, Parts
  <1>1. Grows(h, g)
    <2>1. \A t \in Nat : Agree(h.led[t], h.led[t], Len(h.led[t]))
      BY <1>0, AgreeZero DEF IsHistory
    <2>2. \A s \in Server, t \in Nat : h.acked[s][t] <= g.acked[s][t] /\ g.acked[s][t] = h.acked[s][t]
      BY <1>p
    <2> QED BY <2>1, <2>2 DEF Grows
  <1>2. LeaderLogs(g)
    BY <1>0 DEF Core, LeaderLogs, FromLeaders
  <1>3. ServerLogs(g)
    <2> SUFFICES ASSUME NEW s \in Server
                 PROVE  /\ FromLeaders(g.log[s], g)
                        /\ \A i \in DOMAIN g.log[s] : g.log[s][i].term <= g.term[s]
                        /\ Agree(g.saved[s], g.log[s], Len(g.saved[s]))
      BY DEF ServerLogs
    <2>1. /\ FromLeaders(h.log[s], h) /\ Agree(h.saved[s], h.log[s], Len(h.saved[s]))
          /\ \A i \in DOMAIN h.log[s] : h.log[s][i].term <= h.term[s]
          /\ FromLeaders(h.saved[s], h)
          /\ \A i \in DOMAIN h.saved[s] : h.saved[s][i].term <= h.term[s]
      BY <1>0, <1>p, SavedInLog DEF Core, ServerLogs
    <2>2. FromLeaders(g.log[s], g)
      BY <2>1 DEF FromLeaders
    <2>3. \A i \in DOMAIN g.log[s] : g.log[s][i].term <= h.term[s] /\ g.log[s][i].term \in Nat
      BY <1>p, <2>1, EntryAt
    <2>4. \A i \in DOMAIN g.log[s] : g.log[s][i].term <= g.term[s]
      <3>1. h.term[s] \in Nat /\ g.term[s] \in Nat /\ h.term[s] <= g.term[s]
        BY <1>0, Parts
      <3> QED BY <2>3, <3>1
    <2>5. Agree(g.saved[s], g.log[s], Len(g.saved[s]))
      BY <1>p, <2>1, AgreeZero
    <2> QED BY <2>2, <2>4, <2>5
  <1>4. ASSUME NEW s \in Server, NEW k \in Log, NEW n \in Nat, Agree(h.saved[s], k, n)
        PROVE  Agree(g.saved[s], k, n)
    BY <1>0, <1>4, SavedInLog DEF Core
  <1>5. AckedHeld(g)
    <2> SUFFICES ASSUME NEW s \in Server
                 PROVE  /\ \A t \in Nat : /\ h.acked[s][t] <= Len(h.led[t])
                                          /\ g.term[s] < t => h.acked[s][t] = 0
                        /\ Agree(g.saved[s], h.led[g.term[s]], h.acked[s][g.term[s]])
      BY DEF AckedHeld
    <2>1. \A t \in Nat : /\ h.acked[s][t] <= Len(h.led[t]) /\ (h.term[s] < t => h.acked[s][t] = 0)
                         /\ (g.term[s] < t => h.term[s] < t)
      BY <1>p DEF Core, AckedHeld
    <2>2. CASE g.term[s] = h.term[s]
      <3>1. Agree(h.saved[s], h.led[h.term[s]], h.acked[s][h.term[s]])
        BY DEF Core, AckedHeld
      <3> QED BY <1>p, <1>4, <2>1, <2>2, <3>1
    <2>3. CASE g.term[s] # h.term[s]
      <3>1. h.acked[s][g.term[s]] = 0
        BY <1>p, <2>1, <2>3
      <3>2. Agree(g.saved[s], h.led[g.term[s]], 0)
        BY <1>p, AgreeZero
      <3> QED BY <2>1, <3>1, <3>2
    <2> QED BY <2>2, <2>3
  <1>6. AckedKept(g)
    <2>1. ASSUME NEW s \in Server, NEW t \in Nat, NEW n \in Pos,
                 Has(g.led[t], n, t), n <= g.acked[s][t]
          PROVE  Has(g.saved[s], n, t) \/ Lost(n, t, h.term[s], h)
      <3>1. n \in 1 .. h.acked[s][t] /\ Has(h.led[t], n, t) /\ n \in Nat /\ n # 0
        BY <1>p, <2>1 DEF Pos
      <3>2. Has(h.saved[s], n, t) \/ Lost(n, t, h.term[s], h)
        BY <3>1 DEF Core, AckedKept
      <3>3. Has(h.saved[s], n, t) => Has(h.log[s], n, t)
        BY <1>0, <1>p, <3>1, SavedInLog DEF Core
      <3> QED BY <3>2, <3>3
    <2> QED BY <1>0, <1>1, <2>1, AckedKeptGrows
  <1>7. LaterLeaders(g)
    BY <1>0, <1>1, LaterLeadersKept DEF LaterLeaders
  <1>8. Backed(g)
    BY <1>0, <1>1, BackedKept DEF Backed
  <1> QED BY <1>1, <1>2, <1>3, <1>5, <1>6, <1>7, <1>8 DEF Core

\* A server saves entries of the leader of term T, which may be new to it.
LEMMA StoreCore ==
  ASSUME NEW h, NEW g, Core(h), IsHistory(g),
         g.led = h.led, g.office = h.office, g.sure = h.sure,
         NEW s \in Server, NEW T \in Nat, h.term[s] <= T, Led(T, h), NEW r \in Log, NEW a \in Nat,
         g.term[s] = T, g.log[s] = r, g.saved[s] = r, g.acked[s][T] = a,
         \A q \in Server \ {s} : /\ g.term[q] = h.term[q] /\ g.log[q] = h.log[q]
                                 /\ g.saved[q] = h.saved[q],
         \A q \in Server, t \in Nat : q # s \/ t # T => g.acked[q][t] = h.acked[q][t],
         h.acked[s][T] <= a, a = h.acked[s][T] \/ Agree(r, h.led[T], a),
         \A n \in Nat : Agree(h.log[s], h.led[T], n) => Agree(r, h.led[T], n),
         r = h.log[s] \/ Agree(r, h.led[T], Len(r))
  PROVE  Grows(h, g) /\ Core(g)
  <1>0. IsHistory(h) /\ (\A t : Led(t, h) <=> Led(t, g)) /\ LeaderLogs(h) /\ ServerLogs(h)
    BY DEF Core, Led
  <1>p. \A q \in Server, t \in Nat : /\ h.led[t] \in Log /\ h.acked[q][t] \in Nat /\ h.term[q] \in Nat
                                     /\ h.log[q] \in Log /\ h.saved[q] \in Log /\ g.term[q] \in Nat
                                     /\ g.acked[q][t] \in Nat
    BY <1>0, Parts
  <1>1. Grows(h, g)
    <2>1. \A t \in Nat : Agree(h.led[t], h.led[t], Len(h.led[t]))
      BY <1>0, AgreeZero DEF IsHistory
    <2>2. ASSUME NEW q \in Server, NEW t \in Nat
          PROVE  h.acked[q][t] <= g.acked[q][t] /\ (g.acked[q][t] # h.acked[q][t] => h.term[q] <= t)
      BY <1>p
    <2>3. \A q \in Server : h.term[q] <= g.term[q]
      BY <1>p
    <2>4. Agree(h.sure, h.sure, Len(h.sure))
      BY <1>0, AgreeZero DEF IsHistory
    <2> QED BY <2>1, <2>2, <2>3, <2>4 DEF Grows
  <1>2. LeaderLogs(g)
    BY <1>0 DEF Core, LeaderLogs, FromLeaders
  <1>3. Agree(r, h.led[T], a)
    <2> SUFFICES ASSUME a = h.acked[s][T]
                 PROVE  Agree(r, h.led[T], a)
      OBVIOUS
    <2>1. CASE h.term[s] = T
      <3>1. Agree(h.saved[s], h.led[T], a)
        BY <2>1 DEF Core, AckedHeld
      <3>2. Agree(h.log[s], h.led[T], a)
        BY <1>0, <1>p, <3>1, SavedInLog
      <3> QED BY <3>2
    <2>2. CASE h.term[s] # T
      <3>1. a = 0
        BY <1>p, <2>2 DEF Core, AckedHeld
      <3> QED BY <1>p, <3>1, AgreeZero
    <2> QED BY <2>1, <2>2
  <1>4. FromLeaders(r, g) /\ \A i \in DOMAIN r : r[i].term <= T
    <2>1. CASE r = h.log[s]
      <3>1. FromLeaders(r, h) /\ \A i \in DOMAIN r : r[i].term <= h.term[s] /\ r[i].term \in Nat
        BY <1>0, <2>1, EntryAt DEF ServerLogs
      <3>2. h.term[s] \in Nat
        BY <1>0, Parts
      <3> QED BY <3>1, <3>2 DEF FromLeaders
    <2>2. CASE Agree(r, h.led[T], Len(r))
      <3>0. h.led[T] \in Log
        BY <1>0, Parts
      <3>1. FromLeaders(r, h)
        BY <1>0, <2>2, <3>0, PrefixFromLeaders DEF LeaderLogs
      <3>2. ASSUME NEW i \in DOMAIN r PROVE r[i].term <= T
        <4>1. i \in Pos /\ i <= Len(r) /\ i \in 1 .. Len(r)
          BY EntryAt DEF Log
        <4>2. r[i] = h.led[T][i] /\ i \in DOMAIN h.led[T]
          BY <2>2, <3>0, <4>1, EntryAt, LogLen DEF Agree, Pos
        <4> QED BY <1>0, <4>2 DEF LeaderLogs
      <3> QED BY <3>1, <3>2 DEF FromLeaders
    <2> QED BY <2>1, <2>2
  <1>5. ServerLogs(g)
    <2> SUFFICES ASSUME NEW q \in Server
                 PROVE  /\ FromLeaders(g.log[q], g)
                        /\ \A i \in DOMAIN g.log[q] : g.log[q][i].term <= g.term[q]
                        /\ Agree(g.saved[q], g.log[q], Len(g.saved[q]))
      BY DEF ServerLogs
    <2>1. CASE q = s
      BY <1>4, <2>1, AgreeZero
    <2>2. CASE q # s
      BY <1>0, <2>2 DEF ServerLogs, FromLeaders
    <2> QED BY <2>1, <2>2
  <1>6. AckedHeld(g)
    <2> SUFFICES ASSUME NEW q \in Server
                 PROVE  /\ \A t \in Nat : /\ g.acked[q][t] <= Len(h.led[t])
                                          /\ g.term[q] < t => g.acked[q][t] = 0
                        /\ Agree(g.saved[q], h.led[g.term[q]], g.acked[q][g.term[q]])
      BY DEF AckedHeld
    <2>1. CASE q = s
      <3>1. ASSUME NEW t \in Nat, t # T
            PROVE  g.acked[s][t] <= Len(h.led[t]) /\ (T < t => g.acked[s][t] = 0)
        <4>1. h.acked[s][t] <= Len(h.led[t]) /\ (h.term[s] < t => h.acked[s][t] = 0)
          BY DEF Core, AckedHeld
        <4>2. h.term[s] \in Nat /\ g.acked[s][t] = h.acked[s][t]
          BY <1>0, <3>1, Parts
        <4> QED BY <4>1, <4>2
      <3>2. a <= Len(h.led[T])
        BY <1>3 DEF Agree
      <3> QED BY <1>3, <2>1, <3>1, <3>2
    <2>2. CASE q # s
      <3>1. \A t \in Nat : g.acked[q][t] = h.acked[q][t] /\ g.term[q] = h.term[q] /\ h.term[q] \in Nat
        BY <1>p, <2>2
      <3> QED BY <2>2, <3>1 DEF Core, AckedHeld
    <2> QED BY <2>1, <2>2
  <1>7. AckedKept(g)
    <2>1. ASSUME NEW q \in Server, NEW t \in Nat, NEW n \in Pos,
                 Has(g.led[t], n, t), n <= g.acked[q][t]
          PROVE  \/ Has(g.saved[q], n, t)
                 \/ Lost(n, t, h.term[q], h)
                 \/ t < g.term[q] /\ Led(g.term[q], g) /\ ~Has(g.led[g.term[q]], n, t)
      <3>0. Has(h.led[t], n, t) /\ n \in Nat /\ n # 0
        BY <2>1 DEF Pos
      <3>1. CASE q # s
        <4>1. n \in 1 .. h.acked[q][t]
          BY <1>p, <2>1, <3>1 DEF Pos
        <4> QED BY <3>0, <3>1, <4>1 DEF Core, AckedKept
      <3>2. CASE q = s /\ t = T
        <4>1. Agree(h.led[T], r, a)
          BY <1>3, <1>p, AgreeParts
        <4> QED BY <1>p, <2>1, <3>0, <3>2, <4>1, AgreeHas
      <3>3. CASE q = s /\ t # T
        <4>1. n \in 1 .. h.acked[s][t]
          BY <1>p, <2>1, <3>3 DEF Pos
        <4>2. t < T
          BY <1>p, <3>3, <4>1, SMTT(120) DEF Core, AckedHeld
        <4>3. Has(h.saved[s], n, t) \/ Lost(n, t, h.term[s], h)
          BY <3>0, <4>1 DEF Core, AckedKept
        <4>4. CASE Has(h.saved[s], n, t) /\ Has(h.led[T], n, t)
          <5>1. Has(h.log[s], n, t)
            BY <1>0, <1>p, <3>0, <4>1, <4>4, SavedInLog
          <5>2. Agree(h.log[s], h.led[T], n)
            BY <1>0, <1>p, <4>4, <5>1, LogsMatch DEF ServerLogs, LeaderLogs
          <5>3. Agree(h.led[T], r, n)
            BY <1>p, <3>0, <5>2, AgreeParts
          <5> QED BY <1>p, <3>0, <3>3, <4>4, <5>3, AgreeHas
        <4>5. CASE ~Has(h.led[T], n, t)
          BY <1>0, <3>3, <4>2, <4>5
        <4> QED BY <3>3, <4>3, <4>4, <4>5
      <3> QED BY <3>1, <3>2, <3>3
    <2> QED BY <1>0, <1>1, <2>1, AckedKeptGrows
  <1>8. LaterLeaders(g)
    BY <1>0, <1>1, LaterLeadersKept DEF LaterLeaders
  <1>9. Backed(g)
    BY <1>0, <1>1, BackedKept DEF Backed
  <1> QED BY <1>1, <1>2, <1>5, <1>6, <1>7, <1>8, <1>9 DEF Core

\* A log r with one entry more than l.
Longer(l, e, r) ==
  /\ r \in Log /\ Len(r) = Len(l) + 1
  /\ r[Len(l) + 1] = e /\ \A i \in 1 .. Len(l) : r[i] = l[i]

\* The entries it holds.
LEMMA LongerHas ==
  ASSUME NEW l \in Log, NEW e \in Entry, NEW r, Longer(l, e, r), NEW n, NEW t
  PROVE  /\ Has(l, n, t) => Has(r, n, t)
         /\ Has(r, n, t) => Has(l, n, t) \/ (n = Len(l) + 1 /\ t = e.term)
  <1>0. r \in Log /\ Len(r) = Len(l) + 1 /\ Len(l) \in Nat
        /\ r[Len(l) + 1] = e /\ \A i \in 1 .. Len(l) : r[i] = l[i]
    BY LogLen DEF Longer
  <1>1. ASSUME Has(l, n, t) PROVE Has(r, n, t)
    <2>1. n \in 1 .. Len(l) /\ n \in Pos /\ n <= Len(r)
      BY <1>0, <1>1, EntryAt DEF Has, Pos
    <2> QED BY <1>0, <1>1, <2>1, EntryAt DEF Has
  <1>2. ASSUME Has(r, n, t), n # Len(l) + 1 PROVE Has(l, n, t)
    <2>1. n \in 1 .. Len(l) /\ n \in Pos /\ n <= Len(l)
      BY <1>0, <1>2, EntryAt DEF Has, Pos
    <2> QED BY <1>0, <1>2, <2>1, EntryAt DEF Has
  <1>3. ASSUME Has(r, n, t), n = Len(l) + 1 PROVE t = e.term
    BY <1>0, <1>3 DEF Has
  <1> QED BY <1>1, <1>2, <1>3

\* A leader appends an entry of its term, in memory.
LEMMA StartCore ==
  ASSUME NEW h, NEW g, Core(h), IsHistory(g), NEW s \in Server, NEW T \in Nat, NEW e \in Entry, NEW r,
         Led(T, h), h.term[s] = T, h.log[s] = h.led[T], e.term = T, Longer(h.log[s], e, r),
         g.acked = h.acked, g.office = h.office, g.sure = h.sure, g.term = h.term, g.saved = h.saved,
         g.log[s] = r, g.led[T] = r, \A q \in Server \ {s} : g.log[q] = h.log[q],
         \A t \in Nat \ {T} : g.led[t] = h.led[t]
  PROVE  Grows(h, g) /\ Core(g)
  <1> DEFINE l == h.log[s]
             K == Len(h.log[s])
  <1>0. IsHistory(h) /\ (\A t : Led(t, h) <=> Led(t, g)) /\ LeaderLogs(h) /\ ServerLogs(h)
    BY DEF Core, Led
  <1>p. \A q \in Server, t \in Nat : /\ h.led[t] \in Log /\ h.acked[q][t] \in Nat /\ h.term[q] \in Nat
                                     /\ h.log[q] \in Log /\ h.saved[q] \in Log /\ g.led[t] \in Log
    BY <1>0, Parts
  <1>1. /\ r \in Log /\ Len(r) = K + 1 /\ r[K + 1] = e /\ (\A i \in 1 .. K : r[i] = l[i])
        /\ l \in Log /\ K \in Nat /\ l = h.led[T]
    BY <1>0, Parts DEF Longer
  <1>2. Agree(l, r, K)
    BY <1>1 DEF Agree
  <1>3. \A t \in Nat : Agree(h.led[t], g.led[t], Len(h.led[t]))
    BY <1>1, <1>2, <1>p, AgreeZero
  <1>4. \A t \in Nat : \A n, u : Has(g.led[t], n, u) => Has(h.led[t], n, u) \/ (t = T /\ u = T /\ n = K + 1)
    <2>1. \A n, u : Has(r, n, u) => Has(l, n, u) \/ (n = K + 1 /\ u = T)
      BY <1>1, LongerHas
    <2> QED BY <1>1, <2>1
  <1>5. Grows(h, g)
    <2>1. \A t \in Nat : \A n \in Pos, u \in Nat \ {t} : Has(g.led[t], n, u) => Has(h.led[t], n, u)
      BY <1>4
    <2>2. \A q \in Server, t \in Nat : h.acked[q][t] <= h.acked[q][t]
      BY <1>p
    <2>3. Agree(h.sure, h.sure, Len(h.sure)) /\ \A q \in Server : h.term[q] <= h.term[q]
      <3>1. h.sure \in Log
        BY <1>0 DEF IsHistory
      <3> QED BY <1>p, <3>1, AgreeZero
    <2> QED BY <1>3, <2>1, <2>2, <2>3 DEF Grows
  <1>6. FromLeaders(r, g)
    <2> SUFFICES ASSUME NEW i \in DOMAIN r
                 PROVE  Agree(r, g.led[r[i].term], i)
      BY DEF FromLeaders
    <2>0. i \in Pos /\ i <= K + 1 /\ i \in Nat
      BY <1>1, EntryAt DEF Pos
    <2>1. CASE i = K + 1
      BY <1>1, <2>1, AgreeZero
    <2>2. CASE i # K + 1
      <3>1. i \in DOMAIN l /\ r[i] = l[i] /\ l[i].term \in Nat /\ i <= K
        BY <1>1, <2>0, <2>2, EntryAt DEF Pos
      <3>2. FromLeaders(l, g)
        BY <1>0, <1>1, <1>5, LeaderLogsGrow DEF ServerLogs
      <3>3. Agree(l, g.led[l[i].term], i)
        BY <3>1, <3>2 DEF FromLeaders
      <3>4. Agree(r, l, i)
        BY <1>1, <1>2, <2>0, <3>1, AgreeParts
      <3> QED BY <1>1, <1>p, <2>0, <3>1, <3>3, <3>4, AgreeParts, SMTT(120)
    <2> QED BY <2>1, <2>2
  <1>7. \A i \in DOMAIN r : r[i].term <= T /\ r[i].term \in Nat
    <2> SUFFICES ASSUME NEW i \in DOMAIN r
                 PROVE  r[i].term <= T /\ r[i].term \in Nat
      OBVIOUS
    <2>1. CASE i = K + 1
      BY <1>1, <2>1
    <2>2. CASE i # K + 1
      <3>1. i \in DOMAIN l /\ r[i] = l[i] /\ l[i].term \in Nat
        BY <1>1, <2>2, EntryAt DEF Pos
      <3> QED BY <1>0, <3>1 DEF ServerLogs
    <2> QED BY <2>1, <2>2
  <1>8. LeaderLogs(g)
    <2> SUFFICES ASSUME NEW t \in Nat
                 PROVE  /\ FromLeaders(g.led[t], g)
                        /\ ~Led(t, g) => g.led[t] = <<>>
                        /\ \A i, j \in DOMAIN g.led[t] : i <= j => g.led[t][i].term <= g.led[t][j].term
                        /\ \A i \in DOMAIN g.led[t] : g.led[t][i].term <= t
      BY DEF LeaderLogs
    <2>1. CASE t = T
      <3>1. ASSUME NEW i \in DOMAIN r, NEW j \in DOMAIN r, i <= j
            PROVE  r[i].term <= r[j].term
        <4>1. CASE j = K + 1
          BY <1>1, <1>7, <4>1
        <4>2. CASE j # K + 1
          <5>1. i \in DOMAIN l /\ j \in DOMAIN l /\ r[i] = l[i] /\ r[j] = l[j]
            BY <1>1, <3>1, <4>2, EntryAt, SMTT(120) DEF Pos
          <5> QED BY <1>0, <1>1, <3>1, <5>1 DEF LeaderLogs
        <4> QED BY <4>1, <4>2
      <3> QED BY <1>0, <1>6, <1>7, <2>1, <3>1
    <2>2. CASE t # T
      <3>1. g.led[t] = h.led[t] /\ h.led[t] \in Log
        BY <1>0, <2>2, Parts
      <3>2. FromLeaders(h.led[t], g)
        BY <1>0, <1>5, <3>1, LeaderLogsGrow DEF LeaderLogs
      <3> QED BY <1>0, <3>1, <3>2 DEF LeaderLogs
    <2> QED BY <2>1, <2>2
  <1>9. ServerLogs(g)
    <2> SUFFICES ASSUME NEW q \in Server
                 PROVE  /\ FromLeaders(g.log[q], g)
                        /\ \A i \in DOMAIN g.log[q] : g.log[q][i].term <= h.term[q]
                        /\ Agree(h.saved[q], g.log[q], Len(h.saved[q]))
      BY DEF ServerLogs
    <2>1. CASE q = s
      <3>1. Agree(h.saved[s], l, Len(h.saved[s])) /\ h.saved[s] \in Log /\ Len(h.saved[s]) \in Nat
        BY <1>0, Parts DEF ServerLogs
      <3>2. Agree(l, r, Len(h.saved[s]))
        BY <1>1, <1>2, <3>1, AgreeParts, SMTT(120) DEF Agree
      <3>3. Agree(h.saved[s], r, Len(h.saved[s]))
        BY <1>1, <3>1, <3>2, AgreeParts
      <3> QED BY <1>6, <1>7, <2>1, <3>3
    <2>2. CASE q # s
      <3>1. FromLeaders(h.log[q], g)
        BY <1>0, <1>p, <1>5, LeaderLogsGrow DEF ServerLogs
      <3> QED BY <1>0, <2>2, <3>1 DEF ServerLogs
    <2> QED BY <2>1, <2>2
  <1>10. \A t \in Nat : Len(h.led[t]) <= Len(g.led[t])
    BY <1>3 DEF Agree
  <1>11. AckedHeld(g)
    <2> SUFFICES ASSUME NEW q \in Server
                 PROVE  /\ \A t \in Nat : /\ h.acked[q][t] <= Len(g.led[t])
                                          /\ h.term[q] < t => h.acked[q][t] = 0
                        /\ Agree(h.saved[q], g.led[h.term[q]], h.acked[q][h.term[q]])
      BY DEF AckedHeld
    <2>1. ASSUME NEW t \in Nat
          PROVE  h.acked[q][t] <= Len(g.led[t]) /\ (h.term[q] < t => h.acked[q][t] = 0)
      <3>1. h.acked[q][t] <= Len(h.led[t]) /\ (h.term[q] < t => h.acked[q][t] = 0)
        BY DEF Core, AckedHeld
      <3>2. h.acked[q][t] \in Nat /\ Len(h.led[t]) \in Nat /\ Len(g.led[t]) \in Nat
        BY <1>p, LogLen
      <3> QED BY <1>10, <3>1, <3>2
    <2>2. Agree(h.saved[q], h.led[h.term[q]], h.acked[q][h.term[q]]) /\ h.term[q] \in Nat
      BY <1>0, Parts DEF Core, AckedHeld
    <2> QED BY <1>0, <1>p, <1>5, <2>1, <2>2, LeaderLogsGrow
  <1>12. ASSUME NEW q \in Server, NEW t \in Nat, NEW n \in Nat, n <= h.acked[q][t], Has(g.led[t], n, t)
         PROVE  Has(h.led[t], n, t)
    <2>1. n <= Len(h.led[t])
      <3>1. h.acked[q][t] <= Len(h.led[t]) /\ h.acked[q][t] \in Nat /\ Len(h.led[t]) \in Nat
        BY <1>p, LogLen DEF Core, AckedHeld
      <3> QED BY <1>12, <3>1
    <2>2. Has(h.led[t], n, t) \/ (t = T /\ n = K + 1)
      <3>1. \A i, u : Has(g.led[t], i, u) => Has(h.led[t], i, u) \/ (t = T /\ u = T /\ i = K + 1)
        BY <1>4
      <3> HIDE DEF K
      <3> QED BY <1>12, <3>1
    <2>3. ~(t = T /\ n = K + 1)
      BY <1>1, <2>1
    <2> QED BY <2>2, <2>3
  <1>13. AckedKept(g)
    <2>1. ASSUME NEW q \in Server, NEW t \in Nat, NEW n \in Pos,
                 Has(g.led[t], n, t), n <= g.acked[q][t]
          PROVE  Has(g.saved[q], n, t) \/ Lost(n, t, h.term[q], h)
      <3>1. Has(h.led[t], n, t) /\ n \in 1 .. h.acked[q][t]
        BY <1>p, <1>12, <2>1 DEF Pos
      <3> QED BY <3>1 DEF Core, AckedKept
    <2> QED BY <1>0, <1>5, <2>1, AckedKeptGrows
  <1>14. LaterLeaders(g)
    <2> SUFFICES ASSUME NEW t \in Nat, NEW u \in Nat, t < u, Led(u, g), NEW n \in Pos,
                        Has(g.led[t], n, t), IsMajority(MayStore(n, t, g))
                 PROVE  Has(g.led[u], n, t)
      BY DEF LaterLeaders
    <2>1. CASE Has(h.led[t], n, t)
      BY <1>0, <1>5, <2>1, LaterLeadersKept
    <2>2. CASE ~Has(h.led[t], n, t)
      <3>1. PICK Q \in SUBSET Server : IsMajority(Q) /\ \A v \in Q : u <= h.term[v]
        BY <1>0 DEF Core, Backed
      <3>2. MayStore(n, t, g) \subseteq Server
        BY DEF MayStore
      <3>3. PICK v \in Server : v \in Q /\ v \in MayStore(n, t, g)
        BY <3>1, <3>2, MajoritiesMeet
      <3>4. h.term[v] \in Nat /\ u <= h.term[v]
        BY <1>p, <3>1, <3>3
      <3>5. n <= h.acked[v][t]
        BY <3>3, <3>4 DEF MayStore
      <3> QED BY <1>12, <2>2, <3>5 DEF Pos
    <2> QED BY <2>1, <2>2
  <1>15. Backed(g)
    BY <1>0, <1>5, BackedKept DEF Backed
  <1> QED BY <1>5, <1>8, <1>9, <1>11, <1>13, <1>14, <1>15 DEF Core

\* In a history, v's acknowledgements of earlier terms do not bar s from leading term T.
Outdone(v, s, T, h) ==
  \A t \in Nat, n \in Pos : t < T /\ n <= h.acked[v][t] /\ Has(h.led[t], n, t) =>
     Has(h.log[s], n, t) \/ Lost(n, t, T, h)

\* A server takes office, and saves its log.
LEMMA OfficeCore ==
  ASSUME NEW h, NEW g, Core(h), IsHistory(g), NEW s \in Server, NEW T \in Nat,
         h.term[s] <= T, ~Led(T, h), NEW Q \in SUBSET Server, IsMajority(Q),
         \A v \in Q : Outdone(v, s, T, h) /\ (v = s \/ T <= h.term[v]),
         g.acked = h.acked, g.sure = h.sure, g.log = h.log,
         g.term[s] = T, g.saved[s] = h.log[s],
         \A q \in Server \ {s} : g.term[q] = h.term[q] /\ g.saved[q] = h.saved[q],
         g.led[T] = h.log[s], \A t \in Nat \ {T} : g.led[t] = h.led[t],
         g.office = h.office \cup {<<T, s>>}
  PROVE  Grows(h, g) /\ Core(g)
  <1> DEFINE l == h.log[s]
  <1>0. IsHistory(h) /\ LeaderLogs(h) /\ ServerLogs(h)
    BY DEF Core
  <1>p. \A q \in Server, t \in Nat : /\ h.led[t] \in Log /\ h.acked[q][t] \in Nat /\ h.term[q] \in Nat
                                     /\ h.log[q] \in Log /\ h.saved[q] \in Log /\ g.led[t] \in Log
                                     /\ g.term[q] \in Nat /\ h.term[q] <= g.term[q]
    <2>1. \A q \in Server, t \in Nat : /\ h.led[t] \in Log /\ h.acked[q][t] \in Nat /\ h.term[q] \in Nat
                                       /\ h.log[q] \in Log /\ h.saved[q] \in Log /\ g.led[t] \in Log
                                       /\ g.term[q] \in Nat
      BY <1>0, Parts
    <2> QED BY <2>1
  <1>1. (\A t \in Nat : Led(t, g) <=> Led(t, h) \/ t = T) /\ h.led[T] = <<>> /\ l \in Log
    <2>1. h.led[T] = <<>>
      BY <1>0 DEF LeaderLogs
    <2>2. \A t \in Nat : Led(t, g) <=> Led(t, h) \/ t = T
      BY DEF Led
    <2> QED BY <1>p, <2>1, <2>2
  <1>2. \A q \in Server : h.acked[q][T] = 0
    <2>1. \A q \in Server : h.acked[q][T] <= Len(h.led[T]) /\ h.acked[q][T] \in Nat
      BY <1>p DEF Core, AckedHeld
    <2> QED BY <1>1, <2>1
  <1>3. \A n : ~Has(l, n, T)
    <2> SUFFICES ASSUME NEW n, Has(l, n, T)
                 PROVE  FALSE
      OBVIOUS
    <2>1. Has(h.led[T], n, T)
      BY <1>0, <1>1, LogOfEntry DEF ServerLogs
    <2> QED BY <1>1, <2>1 DEF Has
  <1>4. \A t \in Nat, n \in Pos : Has(g.led[t], n, t) => t # T /\ Has(h.led[t], n, t)
    BY <1>3
  <1>5. Grows(h, g)
    <2>1. ASSUME NEW t \in Nat
          PROVE  /\ Agree(h.led[t], g.led[t], Len(h.led[t]))
                 /\ Led(t, h) => \A n \in Pos, u \in Nat \ {t} : Has(g.led[t], n, u) => Has(h.led[t], n, u)
      <3>1. CASE t = T
        BY <1>1, <1>p, <3>1, AgreeZero
      <3>2. CASE t # T
        BY <1>p, <3>2, AgreeZero
      <3> QED BY <3>1, <3>2
    <2>2. \A q \in Server, t \in Nat : h.acked[q][t] <= g.acked[q][t] /\ g.acked[q][t] = h.acked[q][t]
      BY <1>p
    <2>3. Agree(h.sure, h.sure, Len(h.sure))
      <3>1. h.sure \in Log
        BY <1>0 DEF IsHistory
      <3> QED BY <3>1, AgreeZero
    <2> QED BY <1>p, <2>1, <2>2, <2>3 DEF Grows
  <1>6. \A q \in Server : FromLeaders(h.log[q], g)
    BY <1>0, <1>p, <1>5, LeaderLogsGrow DEF ServerLogs
  <1>7. \A i \in DOMAIN l : l[i].term <= T /\ l[i].term \in Nat
    <2>1. \A i \in DOMAIN l : l[i].term <= h.term[s] /\ l[i].term \in Nat
      BY <1>0, <1>1, EntryAt DEF ServerLogs
    <2>2. h.term[s] \in Nat
      BY <1>p
    <2> QED BY <2>1, <2>2
  <1>8. LeaderLogs(g)
    <2> SUFFICES ASSUME NEW t \in Nat
                 PROVE  /\ FromLeaders(g.led[t], g)
                        /\ ~Led(t, g) => g.led[t] = <<>>
                        /\ \A i, j \in DOMAIN g.led[t] : i <= j => g.led[t][i].term <= g.led[t][j].term
                        /\ \A i \in DOMAIN g.led[t] : g.led[t][i].term <= t
      BY DEF LeaderLogs
    <2>1. CASE t = T
      <3>1. ASSUME NEW i \in DOMAIN l, NEW j \in DOMAIN l, i <= j
            PROVE  l[i].term <= l[j].term
        <4>1. j \in Nat /\ i \in Pos /\ l[j].term \in Nat /\ i \in 1 .. j /\ j \in 1 .. j
          BY <1>1, <3>1, EntryAt DEF Pos
        <4>2. Agree(l, h.led[l[j].term], j) /\ h.led[l[j].term] \in Log
          BY <1>0, <1>p, <4>1 DEF ServerLogs, FromLeaders
        <4>3. /\ i \in DOMAIN h.led[l[j].term] /\ h.led[l[j].term][i] = l[i]
              /\ j \in DOMAIN h.led[l[j].term] /\ h.led[l[j].term][j] = l[j]
          <5> DEFINE k == h.led[l[j].term]
          <5>1. Agree(l, k, j) /\ k \in Log /\ Len(k) \in Nat
            BY <4>2, LogLen
          <5> HIDE DEF k
          <5>2. \A x \in 1 .. j : x \in Pos /\ x <= Len(k) /\ k[x] = l[x]
            BY <4>1, <5>1 DEF Agree, Pos
          <5>3. \A x \in 1 .. j : x \in DOMAIN k /\ k[x] = l[x]
            BY <5>1, <5>2, EntryAt
          <5> QED BY <4>1, <5>3 DEF k
        <4> QED BY <1>0, <3>1, <4>1, <4>3 DEF LeaderLogs
      <3> QED BY <1>1, <1>6, <1>7, <2>1, <3>1
    <2>2. CASE t # T
      <3>1. g.led[t] = h.led[t] /\ h.led[t] \in Log
        BY <1>p, <2>2
      <3>2. FromLeaders(h.led[t], g)
        BY <1>0, <1>5, <3>1, LeaderLogsGrow DEF LeaderLogs
      <3> QED BY <1>0, <1>1, <3>1, <3>2 DEF LeaderLogs
    <2> QED BY <2>1, <2>2
  <1>9. ServerLogs(g)
    <2> SUFFICES ASSUME NEW q \in Server
                 PROVE  /\ FromLeaders(h.log[q], g)
                        /\ \A i \in DOMAIN h.log[q] : h.log[q][i].term <= g.term[q]
                        /\ Agree(g.saved[q], h.log[q], Len(g.saved[q]))
      BY DEF ServerLogs
    <2>1. CASE q = s
      BY <1>1, <1>6, <1>7, <2>1, AgreeZero
    <2>2. CASE q # s
      BY <1>0, <1>6, <2>2 DEF ServerLogs
    <2> QED BY <2>1, <2>2
  <1>10. AckedHeld(g)
    <2> SUFFICES ASSUME NEW q \in Server
                 PROVE  /\ \A t \in Nat : /\ h.acked[q][t] <= Len(g.led[t])
                                          /\ g.term[q] < t => h.acked[q][t] = 0
                        /\ Agree(g.saved[q], g.led[g.term[q]], h.acked[q][g.term[q]])
      BY DEF AckedHeld
    <2>1. ASSUME NEW t \in Nat
          PROVE  h.acked[q][t] <= Len(g.led[t]) /\ (g.term[q] < t => h.acked[q][t] = 0)
      <3>1. h.acked[q][t] <= Len(h.led[t]) /\ (h.term[q] < t => h.acked[q][t] = 0)
        BY DEF Core, AckedHeld
      <3>2. /\ h.acked[q][t] \in Nat /\ Len(h.led[t]) \in Nat /\ Len(g.led[t]) \in Nat
            /\ Len(h.led[t]) <= Len(g.led[t])
        BY <1>p, <1>5, LogLen DEF Grows, Agree
      <3>3. h.term[q] \in Nat /\ g.term[q] \in Nat /\ h.term[q] <= g.term[q]
        BY <1>p
      <3> QED BY <3>1, <3>2, <3>3, SMTT(120)
    <2>2. Agree(g.saved[q], g.led[g.term[q]], h.acked[q][g.term[q]])
      <3>1. CASE q = s
        <4>1. g.led[T] \in Log /\ h.log[s] \in Log
          BY <1>p
        <4> QED BY <1>2, <3>1, <4>1, AgreeZero
      <3>2. CASE q # s
        <4>1. Agree(h.saved[q], h.led[h.term[q]], h.acked[q][h.term[q]])
          BY DEF Core, AckedHeld
        <4>2. h.saved[q] \in Log /\ h.term[q] \in Nat /\ h.acked[q][h.term[q]] \in Nat
          BY <1>p
        <4> QED BY <1>0, <1>5, <3>2, <4>1, <4>2, LeaderLogsGrow
      <3> QED BY <3>1, <3>2
    <2> QED BY <2>1, <2>2
  <1>11. AckedKept(g)
    <2>1. ASSUME NEW q \in Server, NEW t \in Nat, NEW n \in Pos,
                 Has(g.led[t], n, t), n <= g.acked[q][t]
          PROVE  Has(g.saved[q], n, t) \/ Lost(n, t, h.term[q], h)
      <3>1. n \in 1 .. h.acked[q][t] /\ Has(h.led[t], n, t) /\ n \in Nat /\ n # 0
        BY <1>p, <1>4, <2>1 DEF Pos
      <3>2. Has(h.saved[q], n, t) \/ Lost(n, t, h.term[q], h)
        BY <3>1 DEF Core, AckedKept
      <3>3. q = s /\ Has(h.saved[s], n, t) => Has(l, n, t)
        BY <1>0, <1>p, <3>1, SavedInLog
      <3> QED BY <3>2, <3>3
    <2> QED BY <1>0, <1>5, <2>1, AckedKeptGrows
  <1>12. LaterLeaders(g)
    <2> SUFFICES ASSUME NEW t \in Nat, NEW u \in Nat, t < u, Led(u, g), NEW n \in Pos,
                        Has(g.led[t], n, t), IsMajority(MayStore(n, t, g))
                 PROVE  Has(g.led[u], n, t)
      BY DEF LaterLeaders
    <2>1. t # T /\ Has(h.led[t], n, t)
      BY <1>4
    <2>2. CASE Led(u, h)
      BY <1>5, <2>1, <2>2, LaterLeadersKept
    <2>3. CASE ~Led(u, h)
      <3>1. u = T
        BY <1>1, <2>3
      <3>2. MayStore(n, t, g) \subseteq Server
        BY DEF MayStore
      <3>3. PICK v \in Server : v \in Q /\ v \in MayStore(n, t, g)
        BY <3>2, MajoritiesMeet
      <3>4. T <= g.term[v] /\ g.term[v] \in Nat
        BY <1>p, <3>3
      <3>5. n <= h.acked[v][t]
        BY <3>1, <3>3, <3>4 DEF MayStore
      <3>6. Has(l, n, t) \/ Lost(n, t, T, h)
        BY <2>1, <3>1, <3>3, <3>5 DEF Outdone
      <3>7. ~Lost(n, t, T, h)
        <4>1. IsMajority(MayStore(n, t, h))
          BY <1>0, <1>5, StoresChange
        <4> QED BY <2>1, <4>1 DEF Lost, Core, LaterLeaders
      <3> QED BY <3>1, <3>6, <3>7
    <2> QED BY <2>2, <2>3
  <1>13. Backed(g)
    <2> SUFFICES ASSUME NEW t \in Nat, Led(t, g)
                 PROVE  \E R \in SUBSET Server : IsMajority(R) /\ \A v \in R : t <= g.term[v]
      BY DEF Backed
    <2>1. CASE Led(t, h)
      BY <1>5, <2>1, BackedKept
    <2>2. CASE ~Led(t, h)
      <3>1. t = T
        BY <1>1, <2>2
      <3>2. \A v \in Q : T <= g.term[v]
        <4> SUFFICES ASSUME NEW v \in Q PROVE T <= g.term[v]
          OBVIOUS
        <4>1. v \in Server /\ g.term[v] \in Nat /\ h.term[v] \in Nat /\ h.term[v] <= g.term[v]
          BY <1>p
        <4> QED BY <4>1
      <3> QED BY <3>1, <3>2
    <2> QED BY <2>1, <2>2
  <1> QED BY <1>5, <1>8, <1>9, <1>10, <1>11, <1>12, <1>13 DEF Core

-----------------------------------------------------------------------------
(* Committing. *)

\* The committed entries remain all chosen.
LEMMA SettledKept ==
  ASSUME NEW h, NEW g, IsHistory(h), IsHistory(g), Grows(h, g), Settled(h), g.sure = h.sure
  PROVE  Settled(g)
  <1>1. Len(h.sure) \in Nat
    BY LogLen DEF IsHistory
  <1>2. PICK u \in Nat : Sure(Len(h.sure), u, h)
    BY DEF Settled
  <1> QED BY <1>1, <1>2, SureKept DEF Settled

\* An entry that is chosen is the same in the committed entries and in the leader's log, as
\* are those before it.
LEMMA ChosenAgrees ==
  ASSUME NEW h, Core(h), Settled(h), NEW T \in Nat, NEW i \in Pos, Chosen(i, T, h)
  PROVE  /\ i <= Len(h.sure) => Agree(h.sure, h.led[T], i)
         /\ Len(h.sure) <= i => Agree(h.sure, h.led[T], Len(h.sure))
  <1> DEFINE c == Len(h.sure)
  <1>0. IsHistory(h) /\ h.sure \in Log /\ h.led[T] \in Log /\ c \in Nat /\ i \in Nat /\ Led(T, h)
    BY ChosenLed, LogLen DEF Core, IsHistory, Pos
  <1>1. CASE c = 0
    BY <1>0, <1>1, AgreeZero DEF Pos
  <1>2. CASE c # 0
    <2>1. PICK u \in Nat : Sure(c, u, h)
      BY DEF Settled
    <2>2. PICK t \in Nat, n \in Pos : c <= n /\ Chosen(n, t, h) /\ Agree(h.sure, h.led[t], c)
      BY <1>2, <2>1 DEF Sure
    <2>3. h.led[t] \in Log /\ n \in Nat /\ Led(t, h)
      BY <1>0, <2>2, ChosenLed DEF IsHistory, Pos
    <2>4. CASE t <= T
      <3>1. Agree(h.led[t], h.led[T], n)
        BY <1>0, <2>2, <2>4, ChosenKept
      <3>2. Agree(h.led[t], h.led[T], c)
        BY <1>0, <2>2, <2>3, <3>1, AgreeParts
      <3>3. Agree(h.sure, h.led[T], c)
        BY <1>0, <2>2, <2>3, <3>2, AgreeParts
      <3> QED BY <1>0, <3>3, AgreeParts
    <2>5. CASE T <= t
      <3>1. Agree(h.led[T], h.led[t], i)
        BY <2>3, <2>5, ChosenKept
      <3>2. \A m \in Nat : m <= i /\ m <= c => Agree(h.sure, h.led[T], m)
        <4> SUFFICES ASSUME NEW m \in Nat, m <= i, m <= c
                     PROVE  Agree(h.sure, h.led[T], m)
          OBVIOUS
        <4>1. Agree(h.led[t], h.led[T], m)
          <5>1. Agree(h.led[T], h.led[t], m)
            BY <1>0, <2>3, <3>1, AgreeParts
          <5> QED BY <1>0, <2>3, <5>1, AgreeParts
        <4>2. Agree(h.sure, h.led[t], m)
          BY <1>0, <2>2, <2>3, AgreeParts
        <4> QED BY <1>0, <2>3, <4>1, <4>2, AgreeParts
      <3> QED BY <1>0, <3>2
    <2> QED BY <2>4, <2>5
  <1> QED BY <1>1, <1>2

\* A leader commits entry i, of its term, and those before it.
LEMMA CommitCore ==
  ASSUME NEW h, NEW g, Core(h), Settled(h), IsHistory(g), NEW T \in Nat, NEW i \in Pos, Chosen(i, T, h),
         g.led = h.led, g.acked = h.acked, g.office = h.office, g.log = h.log, g.saved = h.saved,
         g.term = h.term,
         \/ i <= Len(h.sure) /\ g.sure = h.sure
         \/ Len(h.sure) <= i /\ Len(g.sure) = i /\ Agree(g.sure, h.led[T], i)
  PROVE  Grows(h, g) /\ Core(g) /\ Settled(g) /\ Sure(i, T, g)
  <1>0. IsHistory(h) /\ h.sure \in Log /\ g.sure \in Log /\ h.led[T] \in Log /\ Len(h.sure) \in Nat /\ i \in Nat
    BY LogLen DEF Core, IsHistory, Pos
  <1>1. Agree(h.sure, g.sure, Len(h.sure))
    <2>1. CASE g.sure = h.sure
      BY <1>0, <2>1, AgreeZero
    <2>2. CASE Len(h.sure) <= i /\ Len(g.sure) = i /\ Agree(g.sure, h.led[T], i)
      <3>1. Agree(h.sure, h.led[T], Len(h.sure))
        BY <2>2, ChosenAgrees
      <3>2. Agree(h.led[T], g.sure, Len(h.sure))
        BY <1>0, <2>2, AgreeParts
      <3> QED BY <1>0, <3>1, <3>2, AgreeParts
    <2> QED BY <2>1, <2>2
  <1>2. \A s \in Server : h.term[s] <= g.term[s]
    BY <1>0, Parts
  <1>3. Grows(h, g) /\ Core(g)
    BY <1>1, <1>2, QuietCore
  <1>4. Chosen(i, T, g)
    BY <1>0, <1>3, StoresChange
  <1>5. Agree(g.sure, g.led[T], i)
    BY ChosenAgrees
  <1>6. Sure(i, T, g)
    BY <1>0, <1>4, <1>5 DEF Sure, Agree
  <1>7. Settled(g)
    <2>1. CASE g.sure = h.sure
      BY <1>0, <1>3, <2>1, SettledKept
    <2>2. CASE Len(g.sure) = i
      BY <1>6, <2>2 DEF Settled
    <2> QED BY <2>1, <2>2
  <1> QED BY <1>3, <1>6, <1>7

-----------------------------------------------------------------------------
(* Least and greatest numbers. *)

LEMMA MinIs ==
  ASSUME NEW S \in SUBSET Nat, S # {}
  PROVE  Min(S) \in S /\ \A n \in S : Min(S) <= n
  <1>1. IsWellFoundedOn(OpToRel(<, Nat), Nat)
    BY NatLessThanWellFounded
  <1>2. PICK n \in S : \A m \in S : <<m, n>> \notin OpToRel(<, Nat)
    BY <1>1, WFMin
  <1>3. \A m \in S : <<m, n>> \in OpToRel(<, Nat) <=> m < n
    BY DEF OpToRel
  <1>4. \A m \in S : ~(m < n)
    BY <1>2, <1>3, Zenon
  <1>5. \A m \in S : n <= m
    BY <1>4
  <1> QED BY <1>5 DEF Min

\* The largest of a set of numbers up to b.
LEMMA MaxIs ==
  ASSUME NEW b \in Nat, NEW S \in SUBSET (0 .. b), S # {}
  PROVE  Max(S) \in S /\ \A n \in S : n <= Max(S)
  <1> DEFINE T == {k \in Nat : b - k \in S}
  <1>1. T \in SUBSET Nat
    OBVIOUS
  <1>2. T # {}
    <2>1. PICK n \in S : TRUE
      OBVIOUS
    <2>2. b - n \in Nat /\ b - (b - n) = n
      BY <2>1
    <2> QED BY <2>1, <2>2
  <1> HIDE DEF T
  <1>3. PICK k \in T : \A j \in T : k <= j
    BY <1>1, <1>2, MinIs
  <1> USE DEF T
  <1>4. b - k \in S /\ k \in Nat
    OBVIOUS
  <1>5. ASSUME NEW n \in S PROVE n <= b - k
    <2>1. n \in 0 .. b /\ b - n \in Nat /\ b - (b - n) = n
      OBVIOUS
    <2>2. k <= b - n
      BY <1>3, <2>1
    <2> QED BY <1>4, <2>1, <2>2
  <1>6. \E x \in S : \A y \in S : x >= y
    BY <1>4, <1>5
  <1>7. Max(S) \in S /\ \A y \in S : Max(S) >= y
    BY <1>6 DEF Max
  <1> QED BY <1>7

-----------------------------------------------------------------------------
(* What the code keeps of a log. *)

IsLog(l) == l = [base |-> l.base, bterm |-> l.bterm, ents |-> l.ents]
            /\ l.base \in Nat /\ l.bterm \in Nat /\ l.ents \in Log

\* l is what is left of the log p, of which a snapshot has the entries that are committed up
\* to l.base.
Remains(l, p, c) ==
  /\ IsLog(l) /\ Len(p) = l.base + Len(l.ents)
  /\ \A i \in DOMAIN l.ents : p[l.base + i] = l.ents[i]
  /\ l.base <= Len(c) /\ l.bterm = TermOf(c, l.base)
  /\ Len(p) = l.base => Agree(p, c, l.base)

\* Reading it.
LEMMA ReadLog ==
  ASSUME NEW l, NEW p \in Log, NEW c \in Log, Remains(l, p, c)
  PROVE  /\ l.base \in Nat /\ Len(l.ents) \in Nat /\ l.base <= Len(p)
         /\ LastIndex(l) = Len(p) /\ Len(p) \in Nat
         /\ LastTerm(l) = LastOf(p) /\ LastOf(p) \in Nat
         /\ TermAt(l, l.base) = TermOf(c, l.base)
         /\ \A i \in Nat : l.base < i /\ i <= Len(p) =>
               /\ i \in DOMAIN p /\ i \in Pos /\ TermAt(l, i) = p[i].term /\ CmdAt(l, i) = p[i].cmd
               /\ i - l.base \in DOMAIN l.ents /\ l.ents[i - l.base] = p[i]
  <1>1. /\ IsLog(l) /\ Len(p) = l.base + Len(l.ents) /\ l.bterm = TermOf(c, l.base)
        /\ l.base \in Nat /\ Len(l.ents) \in Nat /\ Len(p) \in Nat /\ l.ents \in Log
    BY LogLen DEF Remains, IsLog
  <1>2. LastIndex(l) = Len(p) /\ l.base <= Len(p)
    BY <1>1 DEF LastIndex
  <1>3. TermAt(l, l.base) = TermOf(c, l.base)
    BY <1>1 DEF TermAt
  <1>4. ASSUME NEW i \in Nat, l.base < i, i <= Len(p)
        PROVE  /\ i \in DOMAIN p /\ i \in Pos /\ TermAt(l, i) = p[i].term /\ CmdAt(l, i) = p[i].cmd
               /\ i - l.base \in DOMAIN l.ents /\ l.ents[i - l.base] = p[i]
    <2>1. i \in Pos /\ i \in DOMAIN p /\ i - l.base \in Pos /\ i - l.base <= Len(l.ents) /\ i # l.base
      BY <1>1, <1>4, EntryAt DEF Pos
    <2>2. i - l.base \in DOMAIN l.ents
      BY <1>1, <2>1, EntryAt
    <2>3. l.ents[i - l.base] = p[i]
      <3>1. p[l.base + (i - l.base)] = l.ents[i - l.base]
        BY <2>2 DEF Remains
      <3>2. l.base + (i - l.base) = i
        BY <1>1
      <3> QED BY <3>1, <3>2
    <2> QED BY <2>1, <2>2, <2>3 DEF TermAt, CmdAt
  <1>5. LastTerm(l) = LastOf(p)
    <2>1. CASE l.base < Len(p)
      <3>1. TermAt(l, Len(p)) = p[Len(p)].term /\ Len(p) \in DOMAIN p
        BY <1>1, <1>4, <2>1
      <3> QED BY <1>2, <3>1 DEF LastTerm, LastOf, TermOf
    <2>2. CASE l.base = Len(p)
      <3>1. Agree(p, c, Len(p))
        BY <2>2 DEF Remains
      <3>2. TermOf(c, Len(p)) = TermOf(p, Len(p))
        <4>1. CASE Len(p) = 0
          <5>1. ~(0 \in DOMAIN p) /\ ~(0 \in DOMAIN c)
            BY EntryAt DEF Pos
          <5> QED BY <4>1, <5>1 DEF TermOf
        <4>2. CASE Len(p) # 0
          <5>1. Len(p) \in 1 .. Len(p) /\ Len(p) \in Pos /\ Len(p) <= Len(c)
            BY <1>1, <3>1, <4>2 DEF Agree, Pos
          <5>2. Len(p) \in DOMAIN p /\ Len(p) \in DOMAIN c /\ p[Len(p)] = c[Len(p)]
            BY <3>1, <5>1, EntryAt DEF Agree
          <5> QED BY <5>2 DEF TermOf
        <4> QED BY <4>1, <4>2
      <3> QED BY <1>2, <1>3, <2>2, <3>2 DEF LastTerm, LastOf
    <2> QED BY <1>1, <1>2, <2>1, <2>2
  <1>6. LastOf(p) \in Nat
    BY EntryAt DEF LastOf, TermOf
  <1> QED BY <1>1, <1>2, <1>3, <1>4, <1>5, <1>6

\* The term at an index up to which two logs agree.
LEMMA AgreeTerm ==
  ASSUME NEW l \in Log, NEW k \in Log, NEW n \in Nat, NEW m \in Nat, m <= n, Agree(l, k, n)
  PROVE  TermOf(l, m) = TermOf(k, m)
  <1>1. CASE m = 0
    <2>1. ~(0 \in DOMAIN l) /\ ~(0 \in DOMAIN k)
      BY EntryAt DEF Pos
    <2> QED BY <1>1, <2>1 DEF TermOf
  <1>2. CASE m # 0
    <2>1. m \in 1 .. n /\ m \in Pos /\ m <= Len(l) /\ m <= Len(k)
      BY <1>2, LogLen DEF Agree, Pos
    <2>2. m \in DOMAIN l /\ m \in DOMAIN k /\ l[m] = k[m]
      BY <2>1, EntryAt DEF Agree
    <2> QED BY <2>2 DEF TermOf
  <1> QED BY <1>1, <1>2

\* An index and its term.
LEMMA TermHas ==
  ASSUME NEW l \in Log, NEW n \in Nat
  PROVE  /\ TermOf(l, n) \in Nat /\ (TermOf(l, n) # 0 => Has(l, n, TermOf(l, n)))
         /\ \A t : Has(l, n, t) => TermOf(l, n) = t /\ n \in Pos
  BY EntryAt DEF TermOf, Has

\* What remains true as more is committed.
LEMMA KeepsGrows ==
  ASSUME NEW l, NEW p \in Log, NEW c \in Log, NEW d \in Log, Remains(l, p, c), Agree(c, d, Len(c))
  PROVE  Remains(l, p, d)
  <1>1. IsLog(l) /\ l.base \in Nat /\ l.base <= Len(c) /\ Len(c) \in Nat /\ Len(d) \in Nat /\ Len(c) <= Len(d)
    BY LogLen DEF Remains, IsLog, Agree
  <1>2. TermOf(c, l.base) = TermOf(d, l.base)
    BY <1>1, AgreeTerm
  <1>3. Agree(c, d, l.base)
    BY <1>1, AgreeParts
  <1>4. Agree(p, c, l.base) => Agree(p, d, l.base)
    BY <1>1, <1>3, AgreeParts
  <1> QED BY <1>1, <1>2, <1>4 DEF Remains

\* A part of a log.
LEMMA SubLog ==
  ASSUME NEW l \in Log, NEW a \in Pos, NEW b \in Nat, a <= b + 1, b <= Len(l)
  PROVE  LET r == SubSeq(l, a, b)
         IN  /\ r \in Log /\ Len(r) = b + 1 - a
             /\ \A k \in DOMAIN r : k \in 1 .. Len(r) /\ r[k] = l[a + k - 1]
  <1>1. a \in Int /\ b \in Int /\ a \in Nat /\ a # 0
    BY DEF Pos
  <1>2. \A i \in a .. b : l[i] \in Entry
    BY <1>1, EntryAt DEF Pos
  <1> DEFINE r == SubSeq(l, a, b)
  <1>3. /\ r \in Seq(Entry) /\ Len(r) = IF a <= b THEN b - a + 1 ELSE 0
        /\ \A i \in 1 .. b - a + 1 : r[i] = l[a + i - 1]
    BY <1>1, <1>2, SubSeqProperties
  <1> HIDE DEF r
  <1>4. DOMAIN r = 1 .. Len(r) /\ Len(r) = b + 1 - a
    BY <1>1, <1>3
  <1>5. r \in Log /\ Len(r) = b + 1 - a /\ \A k \in DOMAIN r : k \in 1 .. Len(r) /\ r[k] = l[a + k - 1]
    BY <1>1, <1>3, <1>4 DEF Log
  <1> QED BY <1>5 DEF r

\* The first entries of a log.
LEMMA FirstPart ==
  ASSUME NEW l \in Log, NEW n \in Nat, n <= Len(l)
  PROVE  LET r == SubSeq(l, 1, n) IN r \in Log /\ Len(r) = n /\ Agree(r, l, n)
  <1>1. 1 \in Pos /\ 1 <= n + 1
    BY DEF Pos
  <1> DEFINE r == SubSeq(l, 1, n)
  <1>2. /\ r \in Log /\ Len(r) = n + 1 - 1
        /\ \A k \in DOMAIN r : k \in 1 .. Len(r) /\ r[k] = l[1 + k - 1]
    BY <1>1, SubLog
  <1> HIDE DEF r
  <1>3. Len(r) = n /\ \A k \in 1 .. n : k \in DOMAIN r /\ 1 + k - 1 = k
    BY <1>2, EntryAt DEF Pos
  <1>4. Agree(r, l, n)
    BY <1>2, <1>3 DEF Agree
  <1> QED BY <1>2, <1>3, <1>4 DEF r

\* The entries from an index on.
LEMMA FromIs ==
  ASSUME NEW l, NEW p \in Log, NEW c \in Log, Remains(l, p, c), NEW i \in Nat, l.base < i, i <= Len(p) + 1
  PROVE  /\ From(l, i) \in Log /\ Len(From(l, i)) = Len(p) + 1 - i
         /\ \A k \in DOMAIN From(l, i) : From(l, i)[k] = p[i - 1 + k]
  <1>1. /\ l.ents \in Log /\ l.base \in Nat /\ Len(l.ents) \in Nat /\ Len(p) = l.base + Len(l.ents)
    BY ReadLog DEF Remains, IsLog
  <1>2. i - l.base \in Pos /\ i - l.base <= Len(l.ents) + 1
    BY <1>1 DEF Pos
  <1> DEFINE e == SubSeq(l.ents, i - l.base, Len(l.ents))
  <1>3. /\ e \in Log /\ Len(e) = Len(l.ents) + 1 - (i - l.base)
        /\ \A k \in DOMAIN e : k \in 1 .. Len(e) /\ e[k] = l.ents[i - l.base + k - 1]
    <2> DEFINE a == i - l.base
               n == Len(l.ents)
    <2>1. a \in Pos /\ a <= n + 1 /\ n <= Len(l.ents) /\ n \in Nat
      BY <1>1, <1>2
    <2>2. l.ents \in Log
      BY <1>1
    <2> HIDE DEF a, n
    <2>3. LET r == SubSeq(l.ents, a, n)
          IN  /\ r \in Log /\ Len(r) = n + 1 - a
              /\ \A k \in DOMAIN r : k \in 1 .. Len(r) /\ r[k] = l.ents[a + k - 1]
      BY <2>1, <2>2, SubLog
    <2> QED BY <2>3 DEF a, n
  <1>4. From(l, i) = e
    BY DEF From
  <1> HIDE DEF e
  <1>5. ASSUME NEW k \in DOMAIN e PROVE e[k] = p[i - 1 + k]
    <2>1. k \in 1 .. Len(l.ents) + 1 - (i - l.base)
      BY <1>3
    <2>2. i - 1 + k \in Nat /\ l.base < i - 1 + k /\ i - 1 + k <= Len(p)
      BY <1>1, <2>1, SMTT(120)
    <2>3. l.ents[(i - 1 + k) - l.base] = p[i - 1 + k]
      BY <2>2, ReadLog
    <2>4. (i - 1 + k) - l.base = i - l.base + k - 1
      BY <1>1, <2>1
    <2> QED BY <1>3, <2>3, <2>4
  <1>6. Len(e) = Len(p) + 1 - i
    <2>1. Len(e) = Len(l.ents) + 1 - (i - l.base)
      BY <1>3
    <2> QED BY <1>1, <2>1, SMTT(120)
  <1> QED BY <1>3, <1>4, <1>5, <1>6

\* trimIndex leaves to the snapshot what is committed.
LEMMA TrimIs ==
  ASSUME NEW l, NEW p \in Log, NEW c \in Log, Remains(l, p, c), NEW i \in Nat, l.base < i, Agree(p, c, i)
  PROVE  Remains(trimIndex(l, i), p, c) /\ trimIndex(l, i).base = i
  <1>1. i <= Len(p) /\ i <= Len(c) /\ l.base \in Nat /\ Len(p) \in Nat /\ Len(c) \in Nat
    BY ReadLog, LogLen DEF Agree
  <1> DEFINE r == [base |-> i, bterm |-> TermAt(l, i), ents |-> From(l, i + 1)]
  <1>2. trimIndex(l, i) = r
    BY <1>1 DEF trimIndex
  <1>3. /\ From(l, i + 1) \in Log /\ Len(From(l, i + 1)) = Len(p) - i
        /\ \A k \in DOMAIN From(l, i + 1) : From(l, i + 1)[k] = p[i + k]
    <2>1. i + 1 \in Nat /\ l.base < i + 1 /\ i + 1 <= Len(p) + 1 /\ \A k : k \in Nat => (i + 1) - 1 + k = i + k
      BY <1>1
    <2>2. /\ From(l, i + 1) \in Log /\ Len(From(l, i + 1)) = Len(p) + 1 - (i + 1)
          /\ \A k \in DOMAIN From(l, i + 1) : From(l, i + 1)[k] = p[(i + 1) - 1 + k]
      BY <2>1, FromIs
    <2>3. \A k \in DOMAIN From(l, i + 1) : k \in Nat
      BY <2>2, EntryAt DEF Pos
    <2>4. Len(p) + 1 - (i + 1) = Len(p) - i
      BY <1>1
    <2> QED BY <2>1, <2>2, <2>3, <2>4
  <1>4. TermAt(l, i) = TermOf(c, i) /\ TermAt(l, i) \in Nat
    <2>1. TermAt(l, i) = p[i].term /\ i \in DOMAIN p
      BY <1>1, ReadLog
    <2>2. TermOf(p, i) = TermOf(c, i)
      BY AgreeTerm
    <2> QED BY <2>1, <2>2, TermHas DEF TermOf
  <1>5. IsLog(r) /\ r.base = i /\ r.ents = From(l, i + 1) /\ r.bterm = TermOf(c, i)
    BY <1>3, <1>4 DEF IsLog
  <1> HIDE DEF r
  <1>6. Remains(r, p, c)
    <2>1. Len(p) = i + Len(r.ents) /\ i <= Len(c)
      BY <1>1, <1>3, <1>5
    <2>2. \A k \in DOMAIN r.ents : p[i + k] = r.ents[k]
      BY <1>3, <1>5
    <2> QED BY <1>5, <2>1, <2>2 DEF Remains
  <1> QED BY <1>2, <1>5, <1>6

\* The entries ents are those of the log k after index prev.
Carries(k, prev, ents) ==
  /\ prev \in Nat /\ ents \in Log /\ prev + Len(ents) <= Len(k)
  /\ \A i \in DOMAIN ents : ents[i] = k[prev + i]

\* Where the log has the leader's term at an index after its snapshot, the two agree up to it.
LEMMA SameTerm ==
  ASSUME NEW h, IsHistory(h), LeaderLogs(h), NEW T \in Nat, NEW p \in Log, FromLeaders(p, h),
         NEW l, Remains(l, p, h.sure), NEW i \in Nat, l.base < i, i <= Len(p), i <= Len(h.led[T]),
         TermAt(l, i) = TermOf(h.led[T], i)
  PROVE  Agree(p, h.led[T], i)
  <1>1. h.led[T] \in Log /\ FromLeaders(h.led[T], h) /\ h.sure \in Log
    BY DEF IsHistory, LeaderLogs
  <1>2. i \in Pos /\ i \in DOMAIN p /\ TermAt(l, i) = p[i].term /\ i \in DOMAIN h.led[T]
    BY <1>1, ReadLog, EntryAt, ZenonT(120)
  <1>3. Has(p, i, TermAt(l, i)) /\ Has(h.led[T], i, TermAt(l, i))
    BY <1>2 DEF Has, TermOf
  <1> QED BY <1>1, <1>3, LogsMatch

\* AppendEntries' merge: if the log has the leader's term at prev it is left alone, or, if it
\* does not agree with the leader's up to the last of the entries, becomes the leader's up to
\* there.  A log that begins at prev may disagree with the leader's before it, which only an
\* empty request leaves it to do.
LEMMA MergedIs ==
  ASSUME NEW h, IsHistory(h), LeaderLogs(h), NEW T \in Nat, NEW p \in Log, FromLeaders(p, h),
         NEW l, Remains(l, p, h.sure), NEW prev, NEW ents, Carries(h.led[T], prev, ents),
         l.base <= prev, prev <= Len(p), TermAt(l, prev) = TermOf(h.led[T], prev)
  PROVE  LET k == h.led[T]
             new == Merged(l, prev, ents)
             last == prev + Len(ents)
         IN  \E r \in Log :
                /\ Remains(new, r, h.sure) /\ new.base = l.base /\ last <= Len(r)
                /\ \/ r = p /\ new = l
                   \/ ~Agree(p, k, last) /\ Len(r) = last /\ Agree(r, k, last)
                /\ Agree(r, k, last) \/ (r = p /\ ents = <<>> /\ prev = l.base)
  <1> DEFINE k == h.led[T]
             new == Merged(l, prev, ents)
             last == prev + Len(ents)
             differ == {j \in DOMAIN ents : prev + j > LastIndex(l) \/ TermAt(l, prev + j) # ents[j].term}
  <1>0. /\ k \in Log /\ Len(k) \in Nat /\ h.sure \in Log /\ Len(p) \in Nat /\ ents \in Log /\ Len(ents) \in Nat
        /\ prev \in Nat /\ last \in Nat /\ last <= Len(k)
    <2>1. k \in Log /\ h.sure \in Log /\ ents \in Log /\ prev \in Nat /\ last <= Len(k)
      BY DEF IsHistory, Carries
    <2>2. Len(k) \in Nat /\ Len(p) \in Nat /\ Len(ents) \in Nat
      BY <2>1, LogLen
    <2> QED BY <2>1, <2>2
  <1>1. IsLog(l) /\ l.base \in Nat /\ LastIndex(l) = Len(p) /\ Len(p) = l.base + Len(l.ents) /\ l.ents \in Log
    BY <1>0, ReadLog DEF Remains, IsLog
  <1>2. ASSUME NEW j \in DOMAIN ents, j \notin differ
        PROVE  Agree(p, k, prev + j)
    <2>1. j \in Pos /\ j \in Nat /\ j <= Len(ents) /\ j # 0
      BY <1>0, EntryAt DEF Pos
    <2>2. prev + j <= Len(p) /\ TermAt(l, prev + j) = ents[j].term
      BY <1>0, <1>1, <1>2, <2>1
    <2>3. prev + j \in Nat /\ l.base < prev + j /\ prev + j <= Len(k) /\ prev + j \in Pos
      BY <1>0, <1>1, <2>1 DEF Pos
    <2>4. ents[j] = k[prev + j] /\ prev + j \in DOMAIN k
      BY <1>0, <2>3, EntryAt DEF Carries
    <2> HIDE DEF k
    <2>5. TermAt(l, prev + j) = TermOf(k, prev + j)
      BY <2>2, <2>4 DEF TermOf
    <2> QED BY <2>2, <2>3, <2>5, SameTerm DEF k
  <1>3. l.base < prev => Agree(p, k, prev)
    <2>1. prev <= Len(k)
      BY <1>0
    <2> QED BY <1>0, <2>1, SameTerm
  <1>4. CASE differ = {}
    <2>1. new = l
      BY <1>4 DEF Merged
    <2>2. last <= Len(p)
      <3>1. CASE Len(ents) = 0
        BY <1>0, <3>1
      <3>2. CASE Len(ents) # 0
        <4>1. Len(ents) \in DOMAIN ents
          BY <1>0, <3>2, EntryAt DEF Pos
        <4>2. Agree(p, k, last)
          BY <1>2, <1>4, <4>1
        <4> QED BY <4>2 DEF Agree
      <3> QED BY <3>1, <3>2
    <2>3. Agree(p, k, last) \/ (ents = <<>> /\ prev = l.base)
      <3>1. CASE Len(ents) = 0
        <4>1. ents = <<>> /\ last = prev
          BY <1>0, <3>1 DEF Log
        <4> QED BY <1>0, <1>1, <1>3, <4>1
      <3>2. CASE Len(ents) # 0
        <4>1. Len(ents) \in DOMAIN ents
          BY <1>0, <3>2, EntryAt DEF Pos
        <4> QED BY <1>2, <1>4, <4>1
      <3> QED BY <3>1, <3>2
    <2> HIDE DEF differ, new, last, k
    <2> QED BY <2>1, <2>2, <2>3 DEF new, last, k
  <1>5. CASE differ # {}
    <2>0. differ \in SUBSET Nat
      BY <1>0, EntryAt DEF Pos
    <2> DEFINE d == Min(differ)
    <2>1. d \in differ /\ \A j \in differ : d <= j
      BY <1>5, <2>0, MinIs
    <2> DEFINE a == SubSeq(l.ents, 1, prev + d - 1 - l.base)
               b == SubSeq(ents, d, Len(ents))
               r == SubSeq(k, 1, last)
    <2>2. new = [l EXCEPT !.ents = a \o b]
      BY <1>5 DEF Merged
    <2>3. d \in DOMAIN ents /\ d \in Pos /\ d \in Nat /\ d # 0 /\ d <= Len(ents)
      BY <1>0, <2>1, EntryAt DEF Pos
    <2>4. prev + d > Len(p) \/ TermAt(l, prev + d) # ents[d].term
      BY <1>1, <2>1
    <2> HIDE DEF differ, d
    <2>5. d # 1 \/ l.base < prev => Agree(p, k, prev + d - 1)
      <3>0. CASE d = 1
        <4>1. prev + d - 1 = prev
          BY <1>0, <3>0
        <4> QED BY <1>3, <3>0, <4>1
      <3> SUFFICES ASSUME d # 1 PROVE Agree(p, k, prev + d - 1)
        BY <3>0
      <3>1. d - 1 \in Pos /\ d - 1 <= Len(ents) /\ ~(d <= d - 1) /\ prev + (d - 1) = prev + d - 1
        BY <1>0, <2>3 DEF Pos
      <3>2. d - 1 \in DOMAIN ents
        BY <1>0, <3>1, EntryAt
      <3>3. d - 1 \notin differ
        BY <2>1, <3>1
      <3> QED BY <1>2, <3>1, <3>2, <3>3
    <2>6. prev + d - 1 <= Len(p)
      <3>1. d # 1 => prev + d - 1 <= Len(p)
        BY <2>5 DEF Agree
      <3> QED BY <1>0, <2>3, <3>1
    <2>7. ~Agree(p, k, last)
      <3> SUFFICES ASSUME Agree(p, k, last) PROVE FALSE
        OBVIOUS
      <3>1. prev + d \in 1 .. last /\ prev + d \in Nat /\ l.base < prev + d
        BY <1>0, <1>1, <2>3
      <3>2. prev + d <= Len(p) /\ p[prev + d] = k[prev + d]
        BY <1>0, <3>1 DEF Agree
      <3>3. TermAt(l, prev + d) = p[prev + d].term
        <4>1. h.sure \in Log
          BY <1>0
        <4> HIDE DEF last, k
        <4> QED BY <3>1, <3>2, <4>1, ReadLog
      <3>4. ents[d] = k[prev + d]
        BY <2>3 DEF Carries
      <3>5. p[prev + d].term = ents[d].term
        BY <3>2, <3>4
      <3> QED BY <1>0, <2>3, <2>4, <3>2, <3>3, <3>5
    <2> HIDE DEF k, last
    <2>8. r \in Log /\ Len(r) = last /\ Agree(r, k, last)
      BY <1>0, FirstPart
    <2>9. /\ a \in Log /\ Len(a) = prev + d - 1 - l.base
          /\ \A i \in DOMAIN a : i \in 1 .. prev + d - 1 - l.base /\ a[i] = r[l.base + i]
      <3> DEFINE n == prev + d - 1 - l.base
      <3>1. n \in Nat /\ n <= Len(l.ents)
        <4>1. Len(l.ents) \in Nat /\ l.base \in Nat /\ Len(p) = l.base + Len(l.ents) /\ l.base <= prev
          BY <1>1, LogLen
        <4>2. d \in Nat /\ d # 0 /\ prev \in Nat /\ prev + d - 1 <= Len(p)
          BY <1>0, <2>3, <2>6
        <4> QED BY <4>1, <4>2
      <3>2. l.ents \in Log
        BY <1>1
      <3> HIDE DEF n
      <3> DEFINE c == SubSeq(l.ents, 1, n)
      <3>3. c \in Log /\ Len(c) = n /\ Agree(c, l.ents, n)
        BY <3>1, <3>2, FirstPart
      <3> HIDE DEF c
      <3>4. ASSUME NEW i \in DOMAIN c PROVE i \in 1 .. n /\ c[i] = r[l.base + i]
        <4>1. i \in 1 .. n /\ i \in Pos /\ i <= Len(l.ents) /\ i \in Nat
          BY <3>1, <3>3, EntryAt DEF Pos
        <4>2. c[i] = l.ents[i] /\ i \in DOMAIN l.ents
          BY <3>2, <3>3, <4>1, EntryAt DEF Agree
        <4>3. p[l.base + i] = l.ents[i]
          BY <4>2 DEF Remains
        <4>4. l.base + i \in 1 .. prev + d - 1
          BY <1>0, <1>1, <2>3, <4>1, SMTT(120) DEF n
        <4>5. p[l.base + i] = k[l.base + i]
          <5>1. d # 1 \/ l.base < prev
            BY <1>0, <1>1, <2>3, <4>1 DEF n
          <5> QED BY <2>5, <4>4, <5>1 DEF Agree
        <4>6. l.base + i \in 1 .. last
          BY <1>0, <2>3, <4>4 DEF last
        <4>7. r[l.base + i] = k[l.base + i]
          BY <2>8, <4>6 DEF Agree
        <4> QED BY <4>1, <4>2, <4>3, <4>5, <4>7
      <3> QED BY <3>3, <3>4 DEF c, n
    <2>10. /\ b \in Log /\ Len(b) = Len(ents) + 1 - d
           /\ \A i \in DOMAIN b : i \in 1 .. Len(ents) + 1 - d /\ b[i] = r[prev + d - 1 + i]
      <3>1. d \in Pos /\ d <= Len(ents) + 1 /\ Len(ents) <= Len(ents) /\ Len(ents) \in Nat
        BY <1>0, <2>3
      <3>2. /\ b \in Log /\ Len(b) = Len(ents) + 1 - d
            /\ \A i \in DOMAIN b : i \in 1 .. Len(b) /\ b[i] = ents[d + i - 1]
        BY <1>0, <3>1, SubLog
      <3> HIDE DEF b
      <3>3. ASSUME NEW i \in DOMAIN b PROVE b[i] = r[prev + d - 1 + i]
        <4>1. i \in 1 .. Len(ents) + 1 - d /\ b[i] = ents[d + i - 1]
          BY <3>2
        <4>2. d + i - 1 \in Pos /\ d + i - 1 <= Len(ents) /\ prev + (d + i - 1) = prev + d - 1 + i
          <5>1. i \in 1 .. Len(ents) + 1 - d /\ d \in Pos /\ prev \in Nat /\ Len(ents) \in Nat
            BY <1>0, <2>3, <4>1
          <5> HIDE DEF d
          <5> QED BY <5>1, SMTT(120) DEF Pos
        <4>3. d + i - 1 \in DOMAIN ents
          BY <1>0, <4>2, EntryAt
        <4>4. ents[d + i - 1] = k[prev + (d + i - 1)]
          BY <4>3 DEF Carries, k
        <4>5. prev + d - 1 + i \in 1 .. last
          BY <1>0, <2>3, <4>1, SMTT(120) DEF last
        <4>6. r[prev + d - 1 + i] = k[prev + d - 1 + i]
          BY <2>8, <4>5 DEF Agree
        <4> QED BY <4>1, <4>2, <4>4, <4>6
      <3> QED BY <3>2, <3>3
    <2> HIDE DEF a, b, r
    <2>14. /\ Len(a) = prev + d - 1 - l.base /\ Len(b) = Len(ents) + 1 - d /\ last = prev + Len(ents)
          /\ prev \in Nat /\ d \in Nat /\ d # 0 /\ d <= Len(ents) /\ l.base \in Nat /\ l.base <= prev
          /\ Len(ents) \in Nat /\ Len(r) = last
      BY <1>0, <1>1, <2>3, <2>8, <2>9, <2>10 DEF last
    <2> DEFINE e == a \o b
    <2>11. e \in Log /\ Len(e) = last - l.base /\ \A i \in DOMAIN e : r[l.base + i] = e[i]
      <3>1. a \in Seq(Entry) /\ b \in Seq(Entry)
        BY <2>9, <2>10 DEF Log
      <3>2. /\ e \in Seq(Entry) /\ Len(e) = Len(a) + Len(b)
            /\ \A i \in 1 .. Len(a) + Len(b) : e[i] = IF i <= Len(a) THEN a[i] ELSE b[i - Len(a)]
        BY <3>1, ConcatProperties
      <3> HIDE DEF e
      <3>3. Len(a) \in Nat /\ Len(b) \in Nat /\ DOMAIN a = 1 .. Len(a) /\ DOMAIN b = 1 .. Len(b)
            /\ DOMAIN e = 1 .. Len(a) + Len(b)
        BY <3>1, <3>2
      <3>4. ASSUME NEW i \in DOMAIN e PROVE r[l.base + i] = e[i]
        <4>1. CASE i <= Len(a)
          <5>1. i \in DOMAIN a /\ e[i] = a[i]
            BY <3>2, <3>3, <4>1
          <5> QED BY <2>9, <5>1
        <4>2. CASE ~(i <= Len(a))
          <5>1. i - Len(a) \in DOMAIN b /\ e[i] = b[i - Len(a)]
            BY <3>2, <3>3, <4>2
          <5>2. prev + d - 1 + (i - Len(a)) = l.base + i
            <6>1. i \in Nat
              BY <3>3
            <6>2. /\ Len(a) = prev + d - 1 - l.base
                  /\ prev \in Int /\ d \in Int /\ l.base \in Int
              BY <2>14
            <6>3. \A x, y, z, j \in Int : x + y - 1 + (j - (x + y - 1 - z)) = z + j
              OBVIOUS
            <6>4. prev + d - 1 + (i - (prev + d - 1 - l.base)) = l.base + i
              BY <6>1, <6>2, <6>3, SMTT(120)
            <6> QED BY <6>2, <6>4
          <5> QED BY <2>10, <5>1, <5>2
        <4> QED BY <4>1, <4>2
      <3>5. Len(a) + Len(b) = last - l.base
        <4>1. /\ Len(a) = prev + d - 1 - l.base /\ Len(b) = Len(ents) + 1 - d /\ last = prev + Len(ents)
              /\ prev \in Int /\ d \in Int /\ l.base \in Int /\ Len(ents) \in Int
          BY <2>14
        <4> HIDE DEF e
        <4> QED BY <4>1, SMTT(120)
      <3> QED BY <3>1, <3>2, <3>4, <3>5 DEF Log
    <2>12. new = [base |-> l.base, bterm |-> l.bterm, ents |-> e]
      BY <1>1, <2>2 DEF IsLog
    <2> HIDE DEF new, e
    <2>13. Remains(new, r, h.sure)
      <3>1. IsLog(new) /\ new.base = l.base /\ new.ents = e /\ new.bterm = l.bterm
        BY <1>1, <2>11, <2>12 DEF IsLog
      <3>2. l.base < last
        BY <1>0, <1>1, <2>3 DEF last
      <3>3. Len(r) = l.base + Len(e) /\ Len(r) # l.base
        <4>1. Len(e) = last - l.base
          BY <2>11
        <4> QED BY <2>14, <3>2, <4>1, SMTT(120)
      <3> QED BY <2>11, <3>1, <3>3 DEF Remains
    <2> QED BY <1>0, <2>7, <2>8, <2>12, <2>13 DEF new, last, k
  <1> QED BY <1>4, <1>5

-----------------------------------------------------------------------------
(* A history of the state: what servers and messages have to do with it. *)

\* The commands of the first n entries.
Commands(c, n) == [i \in 1 .. n |-> c[i].cmd]

\* Server s has r in memory and d on disk.
Stored(r, d, s, h) ==
  /\ h.term[s] = d.term /\ d.term <= r.term
  /\ Remains(r.log, h.log[s], h.sure) /\ Remains(d.log, h.saved[s], h.sure)
  /\ r.log.base = d.log.base /\ Sure(d.log.base, d.term, h)

\* A leader has persisted its term, and its log is that of the leader of the term.
Leads(r, d, s, h) ==
  r.role = "Leader" => /\ <<r.term, s>> \in h.office
                       /\ h.log[s] = h.led[r.term] /\ d.term = r.term

\* What the server takes for committed is, and is in its log.
Known(r) == Larger(r.commit, r.lastApplied)

\* What a server takes for committed was chosen, and is in its log behind the snapshot.
Knows(r, s, h) ==
  /\ r.commit \in Nat /\ r.lastApplied \in Nat /\ r.log.base <= r.lastApplied
  /\ Sure(Known(r), r.term, h)
  /\ Known(r) > r.log.base => Agree(h.log[s], h.sure, Known(r))

\* A leader has entries to send from where it goes on, and has heard that they are stored
\* up to where they match, unless it is a snapshot that brought them.
Follows(r, next, match, s, h) ==
  /\ next \in [Server -> Nat] /\ match \in [Server -> Nat]
  /\ r.role = "Leader" => \A f \in Server :
       /\ next[f] <= Len(h.log[s]) + 1
       /\ \/ match[f] <= h.acked[s][r.term] /\ match[f] <= h.acked[f][r.term]
          \/ Sure(match[f], r.term, h)

\* The service has executed what is committed, and so had the one that took the snapshot.
Executed(r, d, state, old, h) ==
  state = Commands(h.sure, r.lastApplied) /\ old = Commands(h.sure, d.log.base)

\* A server's state, as h has it.
ServerFits(s, h) ==
  /\ Stored(rf[s], disk[s], s, h) /\ Leads(rf[s], disk[s], s, h) /\ Knows(rf[s], s, h)
  /\ Follows(rf[s], nextIndex[s], matchIndex[s], s, h)
  /\ Executed(rf[s], disk[s], applied[s], snapshot[s], h)

\* A candidate has counted servers that do not bar it from leading.
Runs(s, h) ==
  rf[s].role = "Candidate" =>
    \E D \in SUBSET Server : Tally(s, D) /\ \A v \in D : Outdone(v, s, rf[s].term, h)

\* What s asked for, or was told, in a term in which it still runs.
RunsIn(s, t) == rf[s].role = "Candidate" /\ rf[s].term = t

\* A request for votes that still counts has the log it speaks of; a vote that counts was given for it.
VoteFits(m, h) ==
  /\ m.type = "vote" /\ m.waits /\ RunsIn(m.from, m.term) =>
       m.last = Len(h.log[m.from]) /\ m.lastTerm = LastOf(h.log[m.from])
  /\ m.type = "voted" /\ m.ok /\ RunsIn(m.to, m.term) => Outdone(m.from, m.to, m.term, h)

\* Entries are a leader's, and what came of them is on the follower's disk.
EntriesFit(m, h) ==
  /\ m.type = "append" =>
       /\ <<m.term, m.from>> \in h.office /\ {"prev", "pterm", "ents", "commit"} \subseteq DOMAIN m
       /\ Carries(h.led[m.term], m.prev, m.ents) /\ m.pterm = TermOf(h.led[m.term], m.prev)
       /\ m.commit \in Nat /\ m.commit <= m.prev + Len(m.ents) /\ Sure(m.commit, m.term, h)
  /\ m.type = "appended" =>
       /\ m.cindex \in Nat /\ m.cindex <= Len(h.led[m.term]) + 1
       /\ m.ok => /\ m.rterm <= m.term /\ m.match \in Nat /\ m.match <= Len(h.led[m.term])
                  /\ m.match <= h.acked[m.from][m.term] \/ Sure(m.match, m.term, h)

\* Snapshots hold what is committed.
SnapshotFits(m, h) ==
  m.type \in {"install", "installed"} =>
    /\ m.index \in Nat /\ Sure(m.index, m.term, h) /\ m.data = Commands(h.sure, m.index)
    /\ m.type = "install" => /\ <<m.term, m.from>> \in h.office /\ m.iterm = TermOf(h.sure, m.index)
                             /\ {"index", "iterm", "data"} \subseteq DOMAIN m

\* A message, as h has it.
MessageFits(m, h) == VoteFits(m, h) /\ EntriesFit(m, h) /\ SnapshotFits(m, h)

\* h is a history of the state.
HistoryOf(h) ==
  /\ Core(h) /\ Settled(h) /\ h.office = elected
  /\ \A s \in Server : ServerFits(s, h) /\ Runs(s, h)
  /\ \A m \in net : MessageFits(m, h)
  /\ elected # {} => \E s, q \in Server : s # q
  /\ nextIndex \in [Server -> [Server -> Nat]] /\ matchIndex \in [Server -> [Server -> Nat]]
  /\ snapshot = [s \in Server |-> snapshot[s]] /\ applied = [s \in Server |-> applied[s]]
  /\ cmds \in Nat

\* The inductive invariant: that of the elections, and that there is a history.
LogInv == Inv /\ \E h : HistoryOf(h)

-----------------------------------------------------------------------------
(* What remains true as histories grow. *)

\* Of the first committed entries.
LEMMA SurePrefix ==
  ASSUME NEW h, NEW g, IsHistory(h), IsHistory(g), Grows(h, g), NEW n \in Nat, n <= Len(h.sure)
  PROVE  /\ Commands(g.sure, n) = Commands(h.sure, n) /\ TermOf(g.sure, n) = TermOf(h.sure, n)
         /\ Agree(h.sure, g.sure, n)
         /\ \A l \in Log : Agree(l, h.sure, n) => Agree(l, g.sure, n)
  <1>1. h.sure \in Log /\ g.sure \in Log /\ Len(h.sure) \in Nat
    BY LogLen DEF IsHistory
  <1>2. Agree(h.sure, g.sure, n)
    BY <1>1, AgreeParts DEF Grows
  <1>3. \A i \in 1 .. n : h.sure[i] = g.sure[i]
    BY <1>2 DEF Agree
  <1>4. Commands(g.sure, n) = Commands(h.sure, n)
    BY <1>3 DEF Commands
  <1>5. TermOf(g.sure, n) = TermOf(h.sure, n)
    BY <1>1, <1>2, AgreeTerm
  <1> QED BY <1>1, <1>2, <1>4, <1>5, AgreeParts

\* What is sure is part of the committed entries.
LEMMA SureLen ==
  ASSUME NEW h, IsHistory(h), NEW n \in Nat, NEW u, Sure(n, u, h)
  PROVE  n <= Len(h.sure)
  <1>1. Len(h.sure) \in Nat
    BY LogLen DEF IsHistory
  <1> QED BY <1>1 DEF Sure

\* A server that keeps its log, goes on in this or a later term, and may persist that.
LEMMA StoredKept ==
  ASSUME NEW h, NEW g, Core(h), IsHistory(g), Grows(h, g), NEW s \in Server, NEW r, NEW d, NEW q, NEW e,
         Stored(r, d, s, h), Knows(r, s, h), r.term \in Nat, q.term \in Nat, d.term \in Nat, r.term <= q.term,
         q.log = r.log, q.commit = r.commit, q.lastApplied = r.lastApplied, g.log[s] = h.log[s],
         \/ e = d /\ g.saved[s] = h.saved[s] /\ g.term[s] = h.term[s]
         \/ e = Saved(q) /\ g.saved[s] = h.log[s] /\ g.term[s] = q.term
  PROVE  Stored(q, e, s, g) /\ Knows(q, s, g) /\ e.log.base = d.log.base /\ d.term <= e.term
  <1>0. IsHistory(h) /\ h.log[s] \in Log /\ h.saved[s] \in Log /\ h.sure \in Log /\ g.sure \in Log
        /\ Agree(h.sure, g.sure, Len(h.sure))
    BY Parts DEF Core, IsHistory, Grows
  <1>1. e.term \in Nat /\ d.term <= e.term /\ e.term <= q.term /\ g.term[s] = e.term
        /\ e.log \in {d.log, r.log} /\ e.log.base = d.log.base
    BY DEF Stored, Saved
  <1>2. Remains(r.log, h.log[s], g.sure) /\ Remains(d.log, h.saved[s], g.sure)
    BY <1>0, KeepsGrows DEF Stored
  <1>3. Remains(q.log, g.log[s], g.sure) /\ Remains(e.log, g.saved[s], g.sure)
    BY <1>2 DEF Saved
  <1>4. d.log.base \in Nat /\ r.log.base \in Nat
    BY <1>2 DEF Remains, IsLog
  <1>5. Sure(e.log.base, e.term, g)
    BY <1>0, <1>1, <1>4, SureKept DEF Stored
  <1>6. Stored(q, e, s, g)
    BY <1>1, <1>3, <1>5 DEF Stored
  <1>7. Known(q) = Known(r) /\ Known(r) \in Nat
    BY DEF Known, Larger, Knows
  <1>8. Sure(Known(q), q.term, g)
    BY <1>0, <1>7, SureKept DEF Knows
  <1>9. Known(q) > q.log.base => Agree(g.log[s], g.sure, Known(q))
    <2>1. Known(r) <= Len(h.sure)
      BY <1>0, <1>7, SureLen DEF Knows
    <2> QED BY <1>0, <1>7, <2>1, SurePrefix DEF Knows
  <1>10. Knows(q, s, g)
    BY <1>8, <1>9 DEF Knows
  <1> QED BY <1>1, <1>6, <1>10

\* What was executed was executed.
LEMMA ExecutedKept ==
  ASSUME NEW h, NEW g, Core(h), IsHistory(g), Grows(h, g), NEW s \in Server, NEW r, NEW d, NEW q, NEW e,
         Stored(r, d, s, h), Knows(r, s, h), NEW state, NEW old, Executed(r, d, state, old, h),
         q.lastApplied = r.lastApplied, e.log.base = d.log.base
  PROVE  Executed(q, e, state, old, g)
  <1>0. IsHistory(h)
    BY DEF Core
  <1>1. Known(r) \in Nat /\ r.lastApplied \in Nat /\ r.lastApplied <= Known(r)
    BY DEF Known, Larger, Knows
  <1>2. d.log.base \in Nat
    BY DEF Stored, Remains, IsLog
  <1>3. d.log.base <= Len(h.sure) /\ r.lastApplied <= Len(h.sure)
    <2>1. Sure(r.lastApplied, r.term, h)
      BY <1>0, <1>1, SurePart DEF Knows
    <2> QED BY <1>0, <1>1, <1>2, <2>1, SureLen DEF Stored
  <1> QED BY <1>0, <1>1, <1>2, <1>3, SurePrefix DEF Executed

\* The indexes of a leader.
LEMMA FollowsKept ==
  ASSUME NEW h, NEW g, Core(h), IsHistory(g), Grows(h, g), NEW s \in Server, NEW r, NEW q, NEW next, NEW match,
         Follows(r, next, match, s, h), r.term \in Nat,
         q.role = "Leader" => r.role = "Leader" /\ q.term = r.term,
         Len(h.log[s]) <= Len(g.log[s])
  PROVE  Follows(q, next, match, s, g)
  <1> SUFFICES ASSUME q.role = "Leader", NEW f \in Server
               PROVE  /\ next[f] <= Len(g.log[s]) + 1
                      /\ \/ match[f] <= g.acked[s][r.term] /\ match[f] <= g.acked[f][r.term]
                         \/ Sure(match[f], r.term, g)
    BY DEF Follows
  <1>0. IsHistory(h)
    BY DEF Core
  <1>1. /\ next[f] \in Nat /\ match[f] \in Nat /\ next[f] <= Len(h.log[s]) + 1
        /\ \/ match[f] <= h.acked[s][r.term] /\ match[f] <= h.acked[f][r.term]
           \/ Sure(match[f], r.term, h)
    BY DEF Follows
  <1>2. Len(h.log[s]) \in Nat /\ Len(g.log[s]) \in Nat
    BY <1>0, Parts
  <1>3. CASE match[f] <= h.acked[s][r.term] /\ match[f] <= h.acked[f][r.term]
    <2>1. /\ h.acked[s][r.term] \in Nat /\ h.acked[f][r.term] \in Nat /\ g.acked[s][r.term] \in Nat
          /\ g.acked[f][r.term] \in Nat
          /\ h.acked[s][r.term] <= g.acked[s][r.term] /\ h.acked[f][r.term] <= g.acked[f][r.term]
      BY <1>0, Parts DEF Grows
    <2>2. match[f] <= g.acked[s][r.term] /\ match[f] <= g.acked[f][r.term]
      <3>1. match[f] \in Nat
        BY <1>1
      <3> QED BY <1>3, <2>1, <3>1
    <2>3. next[f] <= Len(g.log[s]) + 1
      BY <1>1, <1>2
    <2> QED BY <2>2, <2>3
  <1>4. CASE Sure(match[f], r.term, h)
    <2>1. Sure(match[f], r.term, g)
      BY <1>0, <1>1, <1>4, SureKept
    <2> QED BY <1>1, <1>2, <2>1
  <1> QED BY <1>1, <1>3, <1>4

-----------------------------------------------------------------------------
(* What a step of server s leaves alone: other servers, and messages. *)

\* Server v is not s.
Apart(v, h, g) ==
  /\ rf'[v] = rf[v] /\ disk'[v] = disk[v] /\ nextIndex'[v] = nextIndex[v] /\ matchIndex'[v] = matchIndex[v]
  /\ snapshot'[v] = snapshot[v] /\ applied'[v] = applied[v]
  /\ g.term[v] = h.term[v] /\ g.log[v] = h.log[v] /\ g.saved[v] = h.saved[v] /\ g.acked[v] = h.acked[v]
  /\ rf[v].role = "Leader" => g.led[rf[v].term] = h.led[rf[v].term]

\* A server that a step leaves alone fits as it did.
LEMMA ApartFits ==
  ASSUME Inv, NEW h, NEW g, Core(h), IsHistory(g), Grows(h, g), NEW v \in Server,
         ServerFits(v, h), Apart(v, h, g)
  PROVE  ServerFits(v, g)'
  <1> DEFINE r == rf[v]
             d == disk[v]
  <1>0. IsHistory(h) /\ r.term \in Nat /\ d.term \in Nat
    BY ServerFacts DEF Core, IsDisk
  <1>1. Stored(r, d, v, h) /\ Knows(r, v, h) /\ r.term <= r.term
    BY <1>0 DEF ServerFits
  <1>2. Stored(r, d, v, g) /\ Knows(r, v, g)
    <2>1. /\ r.log = r.log /\ r.commit = r.commit /\ r.lastApplied = r.lastApplied
          /\ g.log[v] = h.log[v] /\ g.saved[v] = h.saved[v] /\ g.term[v] = h.term[v]
      BY DEF Apart
    <2> HIDE DEF r, d
    <2> QED BY <1>0, <1>1, <2>1, StoredKept
  <1>3. Leads(r, d, v, g)
    BY DEF Leads, Grows, Apart, ServerFits
  <1>4. Len(h.log[v]) <= Len(g.log[v])
    BY <1>0, Parts DEF Apart
  <1>5. Follows(r, nextIndex[v], matchIndex[v], v, g)
    <2>1. Follows(r, nextIndex[v], matchIndex[v], v, h)
      BY DEF ServerFits
    <2> HIDE DEF r, d
    <2> QED BY <1>0, <1>4, <2>1, FollowsKept
  <1>6. Executed(r, d, applied[v], snapshot[v], g)
    <2>1. Executed(r, d, applied[v], snapshot[v], h)
      BY DEF ServerFits
    <2> HIDE DEF r, d
    <2> QED BY <1>0, <1>1, <2>1, ExecutedKept
  <1> HIDE DEF r, d
  <1>7. rf'[v] = r /\ disk'[v] = d /\ nextIndex'[v] = nextIndex[v] /\ matchIndex'[v] = matchIndex[v]
        /\ snapshot'[v] = snapshot[v] /\ applied'[v] = applied[v]
    BY DEF Apart, r, d
  <1> QED BY <1>2, <1>3, <1>5, <1>6, <1>7 DEF ServerFits

\* Whoever has voted in a term acknowledges nothing more of earlier ones.
LEMMA OutdoneKept ==
  ASSUME NEW h, NEW g, Core(h), IsHistory(g), Grows(h, g), NEW w \in Server, NEW v \in Server, NEW T \in Nat,
         Outdone(w, v, T, h), g.log[v] = h.log[v], T <= h.term[w] \/ g.acked[w] = h.acked[w]
  PROVE  Outdone(w, v, T, g)
  <1> SUFFICES ASSUME NEW t \in Nat, NEW n \in Pos, t < T, n <= g.acked[w][t], Has(g.led[t], n, t)
               PROVE  Has(g.log[v], n, t) \/ Lost(n, t, T, g)
    BY DEF Outdone
  <1>0. IsHistory(h)
    BY DEF Core
  <1>1. /\ h.acked[w][t] \in Nat /\ g.acked[w][t] \in Nat /\ h.term[w] \in Nat
        /\ h.led[t] \in Log /\ g.led[t] \in Log /\ n \in Nat /\ Len(h.led[t]) \in Nat
    BY <1>0, Parts DEF Pos
  <1>2. n <= h.acked[w][t]
    BY <1>1, SMTT(120) DEF Grows
  <1>3. n <= Len(h.led[t])
    BY <1>1, <1>2 DEF Core, AckedHeld
  <1>4. Has(h.led[t], n, t)
    <2>1. Agree(g.led[t], h.led[t], n)
      <3>1. Agree(h.led[t], g.led[t], Len(h.led[t]))
        BY DEF Grows
      <3> QED BY <1>1, <1>3, <3>1, AgreeParts
    <2> QED BY <1>1, <2>1, AgreeHas
  <1>5. Has(h.log[v], n, t) \/ Lost(n, t, T, h)
    BY <1>2, <1>4 DEF Outdone
  <1>6. Lost(n, t, T, h) => Lost(n, t, T, g)
    BY <1>0, LostKept
  <1> QED BY <1>5, <1>6

\* Who voted for another in a term has it on disk.
LEMMA VoterTerm ==
  ASSUME Inv, NEW v \in Server, NEW s \in Server, NEW t \in Nat, <<v, t, s>> \in ballots
  PROVE  v # s /\ t <= disk[v].term
  <1>1. v # s /\ Remembers(disk[v], t, s) /\ disk[v].term \in Nat
    BY ServerFacts DEF Inv, VotesKept, IsDisk
  <1> QED BY <1>1 DEF Remembers

\* Server v ran, and still runs in the same term, with the same log, and nothing new is asked
\* for it.
StillRuns(v, h, g) ==
  /\ rf[v].role = "Candidate" /\ rf'[v].role = "Candidate"
  /\ rf'[v].term = rf[v].term /\ g.log[v] = h.log[v] /\ g.acked[v] = h.acked[v]

\* No request for v's votes is open that was not.
NothingNew(v) ==
  \A n \in net', x \in Server : Open(n, v, x, rf[v].term) => \E k \in net : Open(k, v, x, rf[v].term)

\* A candidate that goes on running fits as it did.
LEMMA RunsKept ==
  ASSUME Inv, NEW h, NEW g, Core(h), IsHistory(g), Grows(h, g), NEW v \in Server,
         \A q \in Server : h.term[q] = disk[q].term,
         Runs(v, h), StillRuns(v, h, g), rf'[v].count = rf[v].count, NothingNew(v), ballots \subseteq ballots'
  PROVE  Runs(v, g)'
  <1> DEFINE T == rf[v].term
  <1>0. T \in Nat
    BY ServerFacts
  <1>1. PICK D \in SUBSET Server : Tally(v, D) /\ \A w \in D : Outdone(w, v, T, h)
    BY DEF Runs, StillRuns
  <1>2. Tally(v, D)'
    <2>1. v \in D /\ Cardinality(D) = rf'[v].count
      BY <1>1 DEF Tally
    <2>2. \A w \in D \ {v} : <<w, T, v>> \in ballots'
      BY <1>1 DEF Tally, Elects
    <2>3. \A w \in D \ {v} : \A m \in net' : ~Open(m, v, w, T)
      BY <1>1 DEF Tally, NothingNew
    <2> QED BY <2>1, <2>2, <2>3 DEF Tally, StillRuns, Elects, Open
  <1>3. ASSUME NEW w \in D PROVE Outdone(w, v, T, g)
    <2>1. T <= h.term[w] \/ g.acked[w] = h.acked[w]
      <3>1. CASE w = v
        BY <3>1 DEF StillRuns
      <3>2. CASE w # v
        <4>1. <<w, T, v>> \in ballots
          BY <1>1, <3>2 DEF Tally, Elects
        <4> QED BY <1>0, <4>1, VoterTerm
      <3> QED BY <3>1, <3>2
    <2> QED BY <1>0, <1>1, <2>1, OutdoneKept DEF StillRuns
  <1>4. rf'[v].term = T
    BY DEF StillRuns
  <1> HIDE DEF T
  <1> QED BY <1>2, <1>3, <1>4 DEF Runs

\* A message that remains.
LEMMA MessageKept ==
  ASSUME Inv, NEW h, NEW g, Core(h), IsHistory(g), Grows(h, g), NEW m \in net, MessageFits(m, h),
         \A q \in Server : h.term[q] = disk[q].term,
         \A v \in Server : rf'[v].role = "Candidate" => StillRuns(v, h, g) \/ rf[v].term < rf'[v].term
  PROVE  MessageFits(m, g)'
  <1> DEFINE T == m.term
  <1>0. /\ IsMessage(m) /\ T \in Nat /\ m.from \in Server /\ m.to \in Server /\ m.from # m.to
        /\ IsHistory(h) /\ h.led[T] \in Log /\ g.led[T] \in Log /\ Len(h.led[T]) \in Nat /\ Len(g.led[T]) \in Nat
        /\ Agree(h.led[T], g.led[T], Len(h.led[T])) /\ Len(h.led[T]) <= Len(g.led[T])
    <2>1. IsMessage(m) /\ T \in Nat /\ m.from \in Server /\ m.to \in Server /\ m.from # m.to
      BY DEF Inv, Types, IsMessage
    <2>2. IsHistory(h) /\ h.led[T] \in Log /\ g.led[T] \in Log /\ Len(h.led[T]) \in Nat /\ Len(g.led[T]) \in Nat
      BY <2>1, Parts DEF Core
    <2> QED BY <2>1, <2>2 DEF Grows, Agree
  <1>1. VoteFits(m, g)'
    <2>1. ASSUME m.type = "vote", m.waits, rf'[m.from].role = "Candidate", rf'[m.from].term = T
          PROVE  m.last = Len(g.log[m.from]) /\ m.lastTerm = LastOf(g.log[m.from])
      <3>1. Open(m, m.from, m.to, T)
        BY <2>1 DEF Open
      <3>2. T <= rf[m.from].term /\ rf[m.from].term \in Nat
        BY <1>0, <3>1, ServerFacts DEF Inv, AskedOnce
      <3>3. StillRuns(m.from, h, g)
        BY <1>0, <2>1, <3>2
      <3> QED BY <2>1, <3>3 DEF StillRuns, MessageFits, VoteFits, RunsIn
    <2>2. ASSUME m.type = "voted", m.ok, rf'[m.to].role = "Candidate", rf'[m.to].term = T
          PROVE  Outdone(m.from, m.to, T, g)
      <3>1. Open(m, m.to, m.from, T) /\ <<m.from, T, m.to>> \in ballots
        BY <2>2 DEF Open, Inv, AskedOnce
      <3>2. T <= rf[m.to].term /\ rf[m.to].term \in Nat
        BY <1>0, <3>1, ServerFacts DEF Inv, AskedOnce
      <3>3. StillRuns(m.to, h, g)
        BY <1>0, <2>2, <3>2
      <3>4. Outdone(m.from, m.to, T, h)
        BY <2>2, <3>3 DEF StillRuns, MessageFits, VoteFits, RunsIn
      <3>5. T <= h.term[m.from]
        BY <1>0, <3>1, VoterTerm
      <3> QED BY <1>0, <3>3, <3>4, <3>5, OutdoneKept DEF StillRuns
    <2> QED BY <2>1, <2>2 DEF VoteFits, RunsIn
  <1>2. h.office \subseteq g.office
    BY DEF Grows
  <1>3. EntriesFit(m, g)
    <2>1. CASE m.type = "append"
      <3>1. /\ <<T, m.from>> \in h.office /\ {"prev", "pterm", "ents", "commit"} \subseteq DOMAIN m
            /\ Carries(h.led[T], m.prev, m.ents)
            /\ m.pterm = TermOf(h.led[T], m.prev)
            /\ m.commit \in Nat /\ m.commit <= m.prev + Len(m.ents) /\ Sure(m.commit, T, h)
        BY <2>1 DEF MessageFits, EntriesFit
      <3>2. m.prev \in Nat /\ m.ents \in Log /\ Len(m.ents) \in Nat /\ m.prev + Len(m.ents) <= Len(h.led[T])
        BY <3>1, LogLen DEF Carries
      <3>3. Carries(g.led[T], m.prev, m.ents)
        <4>1. ASSUME NEW i \in DOMAIN m.ents PROVE m.ents[i] = g.led[T][m.prev + i]
          <5>1. i \in Nat /\ i # 0 /\ i <= Len(m.ents)
            BY <3>2, EntryAt DEF Pos
          <5>2. m.prev + i \in 1 .. Len(h.led[T])
            <6>1. Len(h.led[T]) \in Nat
              BY <1>0
            <6> QED BY <3>2, <5>1, <6>1
          <5>3. h.led[T][m.prev + i] = g.led[T][m.prev + i]
            BY <1>0, <5>2 DEF Agree
          <5> QED BY <3>1, <5>3 DEF Carries
        <4>2. m.prev + Len(m.ents) <= Len(g.led[T])
          <5>1. Len(h.led[T]) \in Nat /\ Len(g.led[T]) \in Nat /\ Len(h.led[T]) <= Len(g.led[T])
            BY <1>0
          <5> DEFINE x == Len(h.led[T])
                     y == Len(g.led[T])
                     z == m.prev + Len(m.ents)
          <5>2. x \in Nat /\ y \in Nat /\ x <= y /\ z \in Nat /\ z <= x
            BY <3>2, <5>1
          <5> HIDE DEF x, y, z
          <5>3. z <= y
            BY <5>2
          <5> QED BY <5>3 DEF y, z
        <4> QED BY <3>2, <4>1, <4>2 DEF Carries
      <3>4. m.pterm = TermOf(g.led[T], m.prev)
        <4>1. m.prev <= Len(h.led[T])
          BY <1>0, <3>1, <3>2 DEF Carries
        <4> QED BY <1>0, <3>1, <3>2, <4>1, AgreeTerm
      <3>5. Sure(m.commit, T, g)
        BY <1>0, <3>1, SureKept
      <3> QED BY <1>2, <2>1, <3>1, <3>3, <3>4, <3>5 DEF EntriesFit
    <2>2. CASE m.type = "appended"
      <3>1. /\ m.cindex \in Nat /\ m.cindex <= Len(h.led[T]) + 1
            /\ m.ok => /\ m.rterm <= T /\ m.match \in Nat /\ m.match <= Len(h.led[T])
                       /\ m.match <= h.acked[m.from][T] \/ Sure(m.match, T, h)
        BY <2>2 DEF MessageFits, EntriesFit
      <3>2. m.ok => m.match <= g.acked[m.from][T] \/ Sure(m.match, T, g)
        <4> SUFFICES ASSUME m.ok PROVE m.match <= g.acked[m.from][T] \/ Sure(m.match, T, g)
          OBVIOUS
        <4>1. Sure(m.match, T, h) => Sure(m.match, T, g)
          BY <1>0, <3>1, SureKept
        <4>2. h.acked[m.from][T] \in Nat /\ g.acked[m.from][T] \in Nat
              /\ h.acked[m.from][T] <= g.acked[m.from][T]
          BY <1>0, Parts DEF Grows
        <4> QED BY <3>1, <4>1, <4>2
      <3>3. m.cindex <= Len(g.led[T]) + 1 /\ (m.ok => m.match <= Len(g.led[T]))
        <4>1. Len(h.led[T]) \in Nat /\ Len(g.led[T]) \in Nat /\ Len(h.led[T]) <= Len(g.led[T])
          BY <1>0
        <4> DEFINE x == Len(h.led[T])
                   y == Len(g.led[T])
        <4>2. /\ x \in Nat /\ y \in Nat /\ x <= y
              /\ m.cindex \in Nat /\ m.cindex <= x + 1 /\ (m.ok => m.match \in Nat /\ m.match <= x)
          BY <3>1, <4>1
        <4> HIDE DEF x, y
        <4>3. m.cindex <= y + 1 /\ (m.ok => m.match <= y)
          BY <4>2
        <4> QED BY <4>3 DEF y
      <3> QED BY <2>2, <3>1, <3>2, <3>3 DEF EntriesFit
    <2> QED BY <2>1, <2>2 DEF EntriesFit
  <1>4. SnapshotFits(m, g)
    <2> SUFFICES ASSUME m.type \in {"install", "installed"}
                 PROVE  /\ m.index \in Nat /\ Sure(m.index, T, g) /\ m.data = Commands(g.sure, m.index)
                        /\ m.type = "install" => /\ <<T, m.from>> \in g.office /\ m.iterm = TermOf(g.sure, m.index)
                                                 /\ {"index", "iterm", "data"} \subseteq DOMAIN m
      BY DEF SnapshotFits
    <2>1. /\ m.index \in Nat /\ Sure(m.index, T, h) /\ m.data = Commands(h.sure, m.index)
          /\ m.type = "install" => /\ <<T, m.from>> \in h.office /\ m.iterm = TermOf(h.sure, m.index)
                                   /\ {"index", "iterm", "data"} \subseteq DOMAIN m
      BY DEF MessageFits, SnapshotFits
    <2>2. Sure(m.index, T, g) /\ m.index <= Len(h.sure)
      BY <1>0, <2>1, SureKept, SureLen
    <2> QED BY <1>0, <1>2, <2>1, <2>2, SurePrefix
  <1> QED BY <1>1, <1>3, <1>4 DEF MessageFits, EntriesFit, SnapshotFits

\* Fields of the right shape.
Shapes ==
  /\ nextIndex \in [Server -> [Server -> Nat]] /\ matchIndex \in [Server -> [Server -> Nat]]
  /\ snapshot = [s \in Server |-> snapshot[s]] /\ applied = [s \in Server |-> applied[s]]
  /\ cmds \in Nat

\* A step of server s, from history h to g.
LEMMA GoesOn ==
  ASSUME Inv, NEW h, HistoryOf(h), NEW g, Core(g), Settled(g), Grows(h, g), g.office = elected',
         NEW s \in Server, \A v \in Server \ {s} : Apart(v, h, g), ServerFits(s, g)',
         Runs(s, g)' \/ (StillRuns(s, h, g) /\ rf'[s].count = rf[s].count),
         rf'[s].role = "Candidate" => StillRuns(s, h, g) \/ rf[s].term < rf'[s].term,
         \A v \in Server : NothingNew(v), ballots \subseteq ballots',
         \A m \in net' : m \in net \/ MessageFits(m, g)',
         elected' = elected \/ \E v, q \in Server : v # q, Shapes'
  PROVE  HistoryOf(g)'
  <1>0. /\ Core(h) /\ IsHistory(h) /\ IsHistory(g) /\ h.office = elected
        /\ \A v \in Server : ServerFits(v, h) /\ Runs(v, h) /\ h.term[v] = disk[v].term
        /\ \A m \in net : MessageFits(m, h)
    BY DEF HistoryOf, Core, ServerFits, Stored
  <1>1. \A v \in Server \ {s} : ServerFits(v, g)'
    BY <1>0, ApartFits
  <1>2. ASSUME NEW v \in Server \ {s}, rf'[v].role = "Candidate"
        PROVE  StillRuns(v, h, g) /\ rf'[v].count = rf[v].count
    BY <1>2 DEF Apart, StillRuns
  <1>3. \A v \in Server : Runs(v, g)'
    <2>1. ASSUME NEW v \in Server, StillRuns(v, h, g), rf'[v].count = rf[v].count PROVE Runs(v, g)'
      BY <1>0, <2>1, RunsKept
    <2>2. Runs(s, g)'
      BY <2>1
    <2>3. ASSUME NEW v \in Server \ {s} PROVE Runs(v, g)'
      <3>1. rf'[v].role # "Candidate" => Runs(v, g)'
        BY DEF Runs
      <3> QED BY <1>2, <2>1, <3>1
    <2> QED BY <2>2, <2>3
  <1>4. \A m \in net' : MessageFits(m, g)'
    <2>1. \A v \in Server : rf'[v].role = "Candidate" => StillRuns(v, h, g) \/ rf[v].term < rf'[v].term
      BY <1>2
    <2> QED BY <1>0, <2>1, MessageKept
  <1>5. elected' # {} => \E v, q \in Server : v # q
    BY DEF HistoryOf
  <1> QED BY <1>1, <1>3, <1>4, <1>5 DEF HistoryOf, Shapes

\* Nothing is asked by messages that are not about votes.
LEMMA NothingAsked ==
  ASSUME \A m \in net' : m \in net \/ m.type \notin {"vote", "voted"}, NEW v \in Server
  PROVE  NothingNew(v)
  BY DEF NothingNew, Open

\* A history in which at most something was saved.
Quiet(h, g) ==
  /\ g.led = h.led /\ g.acked = h.acked /\ g.sure = h.sure /\ g.log = h.log /\ g.office = h.office
  /\ Core(g) /\ Settled(g) /\ Grows(h, g)

\* ... and server s has q in memory and e on disk.
QuietAt(h, g, s, q, e) ==
  /\ Quiet(h, g)
  /\ \A v \in Server \ {s} : g.term[v] = h.term[v] /\ g.saved[v] = h.saved[v]
  /\ e = Saved(q) => g.saved[s] = h.log[s] /\ g.term[s] = q.term
  /\ Stored(q, e, s, g) /\ Leads(q, e, s, g) /\ Knows(q, s, g)
  /\ Executed(q, e, applied[s], snapshot[s], g)

\* Server s goes on with q, the log and the positions in it as before, and may persist it.
LEMMA KeepHistory ==
  ASSUME Inv, NEW h, HistoryOf(h), NEW s \in Server, NEW q, IsRaft(q), NEW e, e \in {disk[s], Saved(q)},
         rf[s].term <= q.term,
         q.log = rf[s].log, q.commit = rf[s].commit, q.lastApplied = rf[s].lastApplied,
         q.role = "Leader" => rf[s].role = "Leader" /\ q.term = rf[s].term
  PROVE  \E g : QuietAt(h, g, s, q, e)
  <1> DEFINE r == rf[s]
             d == disk[s]
  <1>0. /\ Core(h) /\ IsHistory(h) /\ Settled(h) /\ h.term[s] = d.term /\ r.term \in Nat /\ q.term \in Nat
        /\ d.term \in Nat /\ d.term <= r.term /\ r.term <= q.term
        /\ Stored(r, d, s, h) /\ Leads(r, d, s, h) /\ Knows(r, s, h) /\ Executed(r, d, applied[s], snapshot[s], h)
    BY ServerFacts DEF HistoryOf, Core, ServerFits, Stored, IsDisk, IsRaft
  <1>p. \A v \in Server : h.log[v] \in Log /\ h.saved[v] \in Log /\ h.term[v] \in Nat
    BY <1>0 DEF IsHistory
  <1>1. PICK g : \/ /\ e = Saved(q)
                    /\ g = [led |-> h.led, acked |-> h.acked, sure |-> h.sure, log |-> h.log, office |-> h.office,
                            saved |-> [h.saved EXCEPT ![s] = h.log[s]], term |-> [h.term EXCEPT ![s] = q.term]]
                 \/ e # Saved(q) /\ g = h
    OBVIOUS
  <1>2. /\ g.led = h.led /\ g.acked = h.acked /\ g.sure = h.sure /\ g.log = h.log /\ g.office = h.office
        /\ IsHistory(g)
        /\ \/ e = d /\ g.saved[s] = h.saved[s] /\ g.term[s] = h.term[s]
           \/ e = Saved(q) /\ g.saved[s] = h.log[s] /\ g.term[s] = q.term
        /\ e = Saved(q) => g.saved[s] = h.log[s] /\ g.term[s] = q.term
        /\ \A v \in Server \ {s} : g.term[v] = h.term[v] /\ g.saved[v] = h.saved[v]
    <2>1. CASE e # Saved(q) /\ g = h
      BY <1>0, <2>1
    <2>2. CASE e = Saved(q) /\ g # h
      <3>1. /\ g.led = h.led /\ g.acked = h.acked /\ g.sure = h.sure /\ g.log = h.log /\ g.office = h.office
            /\ g.saved = [h.saved EXCEPT ![s] = h.log[s]] /\ g.term = [h.term EXCEPT ![s] = q.term]
        BY <1>1, <2>2
      <3>2. h.saved \in [Server -> Log] /\ h.term \in [Server -> Nat] /\ h.log[s] \in Log /\ q.term \in Nat
        BY <1>0, <1>p DEF IsHistory
      <3>3. /\ g.saved \in [Server -> Log] /\ g.term \in [Server -> Nat]
            /\ g.saved[s] = h.log[s] /\ g.term[s] = q.term
            /\ \A v \in Server \ {s} : g.term[v] = h.term[v] /\ g.saved[v] = h.saved[v]
        BY <3>1, <3>2
      <3>4. IsHistory(g)
        BY <1>0, <3>1, <3>3 DEF IsHistory
      <3> QED BY <2>2, <3>1, <3>3, <3>4
    <2>3. CASE e = Saved(q) /\ g = h
      <3>1. [h.saved EXCEPT ![s] = h.log[s]] = h.saved /\ [h.term EXCEPT ![s] = q.term] = h.term
        BY <1>1, <2>3
      <3>2. h.saved \in [Server -> Log] /\ h.term \in [Server -> Nat]
        BY <1>0 DEF IsHistory
      <3>3. h.saved[s] = h.log[s] /\ h.term[s] = q.term
        BY <3>1, <3>2
      <3> QED BY <1>0, <2>3, <3>3
    <2> QED BY <1>1, <2>1, <2>2, <2>3
  <1>3. Grows(h, g) /\ Core(g)
    <2>1. h.sure \in Log
      BY <1>0 DEF IsHistory
    <2>2. Agree(h.sure, g.sure, Len(h.sure))
      BY <1>2, <2>1, AgreeZero
    <2>3. \A v \in Server : /\ h.term[v] <= g.term[v]
                            /\ g.log[v] = h.log[v] /\ g.saved[v] \in {h.saved[v], h.log[v]}
      BY <1>0, <1>2, <1>p
    <2> QED BY <1>0, <1>2, <2>2, <2>3, QuietCore
  <1>4. Settled(g)
    BY <1>0, <1>2, <1>3, SettledKept
  <1>5. Stored(q, e, s, g) /\ Knows(q, s, g) /\ e.log.base = d.log.base
    <2> HIDE DEF r, d
    <2>1. q.log = r.log /\ q.commit = r.commit /\ q.lastApplied = r.lastApplied /\ g.log[s] = h.log[s]
      BY <1>2 DEF r
    <2>2. IsHistory(g)
      BY <1>2
    <2>3. \/ e = d /\ g.saved[s] = h.saved[s] /\ g.term[s] = h.term[s]
          \/ e = Saved(q) /\ g.saved[s] = h.log[s] /\ g.term[s] = q.term
      BY <1>2
    <2>4. /\ Stored(r, d, s, h) /\ Knows(r, s, h) /\ r.term \in Nat /\ q.term \in Nat /\ d.term \in Nat
          /\ r.term <= q.term /\ Core(h) /\ Grows(h, g)
      BY <1>0, <1>3
    <2> QED BY <2>1, <2>2, <2>3, <2>4, StoredKept
  <1>6. Executed(q, e, applied[s], snapshot[s], g)
    <2> HIDE DEF d
    <2> QED BY <1>0, <1>2, <1>3, <1>5, ExecutedKept
  <1>7. Leads(q, e, s, g)
    BY <1>0, <1>2 DEF Leads, Saved
  <1> QED BY <1>2, <1>3, <1>4, <1>5, <1>6, <1>7 DEF Quiet, QuietAt

\* ... and the step is one of its own: if its indexes, its candidacy and the new messages
\* are right, all is.
LEMMA KeepStep ==
  ASSUME Inv, Inv', NEW h, HistoryOf(h), NEW s \in Server, NEW q, IsRaft(q),
         rf' = [rf EXCEPT ![s] = q], disk' \in {disk, [disk EXCEPT ![s] = Saved(q)]},
         rf[s].term <= q.term,
         q.log = rf[s].log, q.commit = rf[s].commit, q.lastApplied = rf[s].lastApplied,
         q.role = "Leader" => rf[s].role = "Leader" /\ q.term = rf[s].term,
         q.role = "Candidate" => \/ rf[s].role = "Candidate" /\ q.term = rf[s].term
                                 \/ rf[s].term < q.term,
         NEW next \in [Server -> Nat], NEW match \in [Server -> Nat],
         nextIndex' = [nextIndex EXCEPT ![s] = next], matchIndex' = [matchIndex EXCEPT ![s] = match],
         UNCHANGED <<snapshot, applied, elected, cmds>>, ballots \subseteq ballots',
         \A v \in Server : NothingNew(v)
  PROVE  \E g : /\ Quiet(h, g) /\ g.term[s] <= q.term
                /\ disk' = [disk EXCEPT ![s] = Saved(q)] => g.saved[s] = h.log[s] /\ g.term[s] = q.term
                /\ /\ Follows(q, next, match, s, g)
                   /\ Runs(s, g)' \/ (q.role = rf[s].role /\ q.term = rf[s].term /\ q.count = rf[s].count)
                   /\ \A m \in net' : m \in net \/ MessageFits(m, g)'
                   => LogInv'
  <1> DEFINE e == disk'[s]
  <1>0. /\ rf = [v \in Server |-> rf[v]] /\ disk = [v \in Server |-> disk[v]]
        /\ rf'[s] = q /\ e \in {disk[s], Saved(q)}
        /\ \A v \in Server \ {s} : rf'[v] = rf[v] /\ disk'[v] = disk[v]
        /\ disk' = [disk EXCEPT ![s] = Saved(q)] => e = Saved(q)
    BY DEF Inv, Types
  <1>1. /\ nextIndex \in [Server -> [Server -> Nat]] /\ matchIndex \in [Server -> [Server -> Nat]]
        /\ Core(h) /\ h.office = elected /\ Shapes
    BY DEF HistoryOf, Shapes
  <1> HIDE DEF e
  <1>a. PICK g : QuietAt(h, g, s, q, e)
    <2>1. e \in {disk[s], Saved(q)}
      BY <1>0
    <2> QED BY <2>1, KeepHistory
  <1>2. /\ Quiet(h, g)
        /\ \A v \in Server \ {s} : g.term[v] = h.term[v] /\ g.saved[v] = h.saved[v]
        /\ e = Saved(q) => g.saved[s] = h.log[s] /\ g.term[s] = q.term
        /\ Stored(q, e, s, g) /\ Leads(q, e, s, g) /\ Knows(q, s, g)
        /\ Executed(q, e, applied[s], snapshot[s], g)
        /\ g.term[s] <= q.term
    BY <1>a DEF QuietAt, Stored
  <1>3. ASSUME Follows(q, next, match, s, g),
               Runs(s, g)' \/ (q.role = rf[s].role /\ q.term = rf[s].term /\ q.count = rf[s].count),
               \A m \in net' : m \in net \/ MessageFits(m, g)'
        PROVE  LogInv'
    <2>1. ServerFits(s, g)'
      <3>1. nextIndex'[s] = next /\ matchIndex'[s] = match /\ disk'[s] = e
        BY <1>1 DEF e
      <3> QED BY <1>0, <1>2, <1>3, <3>1 DEF ServerFits
    <2>2. \A v \in Server \ {s} : Apart(v, h, g)
      <3> SUFFICES ASSUME NEW v \in Server \ {s} PROVE Apart(v, h, g)
        OBVIOUS
      <3>1. nextIndex'[v] = nextIndex[v] /\ matchIndex'[v] = matchIndex[v]
        BY <1>1
      <3> QED BY <1>0, <1>2, <3>1 DEF Apart, Quiet
    <2>3. Runs(s, g)' \/ (StillRuns(s, h, g) /\ rf'[s].count = rf[s].count)
      <3>1. q.role # "Candidate" => Runs(s, g)'
        BY <1>0 DEF Runs
      <3> QED BY <1>0, <1>2, <1>3, <3>1 DEF StillRuns, Quiet
    <2>4. rf'[s].role = "Candidate" => StillRuns(s, h, g) \/ rf[s].term < rf'[s].term
      BY <1>0, <1>2 DEF StillRuns, Quiet
    <2>5. Shapes'
      <3>1. nextIndex' \in [Server -> [Server -> Nat]] /\ matchIndex' \in [Server -> [Server -> Nat]]
        BY <1>1
      <3> QED BY <1>1, <3>1 DEF Shapes
    <2>6. g.office = elected' /\ elected' = elected
      BY <1>1, <1>2 DEF Quiet
    <2>7. HistoryOf(g)'
      BY <1>2, <1>3, <2>1, <2>2, <2>3, <2>4, <2>5, <2>6, GoesOn DEF Quiet
    <2> QED BY <2>7 DEF LogInv
  <1> QED BY <1>0, <1>2, <1>3

-----------------------------------------------------------------------------
(* Steps that leave logs and commit indexes alone. *)

\* What such a history says of messages and indexes.
LEMMA QuietFits ==
  ASSUME NEW h, NEW g, Quiet(h, g)
  PROVE  /\ \A m : EntriesFit(m, h) => EntriesFit(m, g)
         /\ \A m : SnapshotFits(m, h) => SnapshotFits(m, g)
         /\ \A r, next, match, s : Follows(r, next, match, s, h) => Follows(r, next, match, s, g)
  <1>0. g.led = h.led /\ g.acked = h.acked /\ g.sure = h.sure /\ g.log = h.log /\ g.office = h.office
    BY DEF Quiet
  <1>1. \A c, u : Sure(c, u, h) <=> Sure(c, u, g)
    BY <1>0 DEF Sure, Chosen, Stores
  <1>2. \A m : EntriesFit(m, h) => EntriesFit(m, g)
    BY <1>0, <1>1 DEF EntriesFit
  <1>3. \A m : SnapshotFits(m, h) => SnapshotFits(m, g)
    BY <1>0, <1>1 DEF SnapshotFits
  <1>4. \A r, next, match, s : Follows(r, next, match, s, h) => Follows(r, next, match, s, g)
    BY <1>0, <1>1 DEF Follows
  <1> QED BY <1>2, <1>3, <1>4

\* None of an election's, with new indexes.
LEMMA SameStep ==
  ASSUME Inv, Inv', NEW h, HistoryOf(h), NEW s \in Server, NEW q, IsRaft(q), Goes(s, q), Stays(rf[s], q),
         q.log = rf[s].log, q.commit = rf[s].commit, q.lastApplied = rf[s].lastApplied,
         NEW next \in [Server -> Nat], NEW match \in [Server -> Nat], Follows(q, next, match, s, h),
         nextIndex' = [nextIndex EXCEPT ![s] = next], matchIndex' = [matchIndex EXCEPT ![s] = match],
         UNCHANGED <<snapshot, applied, cmds, historyVars>>,
         \A m \in net' : \/ m \in net
                         \/ m.type \notin {"vote", "voted"} /\ EntriesFit(m, h) /\ SnapshotFits(m, h)
  PROVE  LogInv'
  <1>0. rf[s].term \in Nat /\ q.term \in Nat
    BY ServerFacts DEF IsRaft
  <1>1. /\ rf[s].term <= q.term
        /\ q.role = "Leader" => rf[s].role = "Leader" /\ q.term = rf[s].term
        /\ q.role = "Candidate" => rf[s].role = "Candidate" /\ q.term = rf[s].term
    BY <1>0 DEF Stays
  <1>2. \A v \in Server : NothingNew(v)
    BY NothingAsked
  <1>3. /\ rf' = [rf EXCEPT ![s] = q] /\ disk' \in {disk, [disk EXCEPT ![s] = Saved(q)]}
        /\ elected' = elected /\ ballots \subseteq ballots'
    BY DEF Goes, historyVars
  <1>4. PICK g : /\ Quiet(h, g)
                 /\ /\ Follows(q, next, match, s, g)
                    /\ Runs(s, g)' \/ (q.role = rf[s].role /\ q.term = rf[s].term /\ q.count = rf[s].count)
                    /\ \A m \in net' : m \in net \/ MessageFits(m, g)'
                    => LogInv'
    BY <1>1, <1>2, <1>3, KeepStep
  <1>5. Follows(q, next, match, s, g)
    BY <1>4, QuietFits
  <1>6. Runs(s, g)' \/ (q.role = rf[s].role /\ q.term = rf[s].term /\ q.count = rf[s].count)
    <2>1. rf'[s] = q
      BY <1>3 DEF Inv, Types
    <2> QED BY <2>1 DEF Runs, Stays
  <1>7. ASSUME NEW m \in net', m \notin net PROVE MessageFits(m, g)'
    <2>1. EntriesFit(m, g) /\ SnapshotFits(m, g) /\ m.type \notin {"vote", "voted"}
      BY <1>4, <1>7, QuietFits
    <2>2. VoteFits(m, g)'
      BY <2>1 DEF VoteFits
    <2> QED BY <2>1, <2>2 DEF MessageFits, EntriesFit, SnapshotFits
  <1> QED BY <1>4, <1>5, <1>6, <1>7

\* ... and with the indexes there were.
LEMMA SameIndexes ==
  ASSUME Inv, Inv', NEW h, HistoryOf(h), NEW s \in Server, NEW q, IsRaft(q), Goes(s, q), Stays(rf[s], q),
         q.log = rf[s].log, q.commit = rf[s].commit, q.lastApplied = rf[s].lastApplied,
         UNCHANGED <<nextIndex, matchIndex, snapshot, applied, cmds, historyVars>>,
         \A m \in net' : \/ m \in net
                         \/ m.type \notin {"vote", "voted"} /\ EntriesFit(m, h) /\ SnapshotFits(m, h)
  PROVE  LogInv'
  <1>1. /\ nextIndex[s] \in [Server -> Nat] /\ matchIndex[s] \in [Server -> Nat]
        /\ nextIndex' = [nextIndex EXCEPT ![s] = nextIndex[s]]
        /\ matchIndex' = [matchIndex EXCEPT ![s] = matchIndex[s]]
    BY DEF HistoryOf
  <1>2. Follows(rf[s], nextIndex[s], matchIndex[s], s, h)
    BY DEF HistoryOf, ServerFits
  <1>3. rf[s].term \in Nat /\ q.term \in Nat
    BY ServerFacts DEF IsRaft
  <1>4. q.role = "Leader" => rf[s].role = "Leader" /\ q.term = rf[s].term
    BY <1>3 DEF Stays
  <1>5. Follows(q, nextIndex[s], matchIndex[s], s, h)
    BY <1>2, <1>4 DEF Follows
  <1> QED BY <1>1, <1>5, SameStep

\* A message is lost, or nothing happens.
LEMMA LostFits ==
  ASSUME LogInv, Inv', UNCHANGED <<rf, disk, snapshot, nextIndex, matchIndex, applied, cmds, historyVars>>,
         net' \subseteq net, NEW s \in Server
  PROVE  LogInv'
  <1>1. PICK h : HistoryOf(h)
    BY DEF LogInv
  <1>2. IsRaft(rf[s]) /\ Stays(rf[s], rf[s]) /\ Goes(s, rf[s])
    BY ServerFacts, SameStays DEF LogInv
  <1> QED BY <1>1, <1>2, SameIndexes DEF LogInv

\* What a history says of server s.
LEMMA ServerIs ==
  ASSUME Inv, NEW h, HistoryOf(h), NEW s \in Server
  PROVE  /\ Core(h) /\ IsHistory(h) /\ Settled(h) /\ h.office = elected
         /\ IsRaft(rf[s]) /\ rf[s].term \in Nat /\ disk[s].term \in Nat
         /\ ServerFits(s, h) /\ Stored(rf[s], disk[s], s, h) /\ Leads(rf[s], disk[s], s, h)
         /\ Knows(rf[s], s, h) /\ Follows(rf[s], nextIndex[s], matchIndex[s], s, h)
         /\ Executed(rf[s], disk[s], applied[s], snapshot[s], h)
         /\ h.log[s] \in Log /\ Len(h.log[s]) \in Nat /\ h.sure \in Log /\ Len(h.sure) \in Nat
         /\ Remains(rf[s].log, h.log[s], h.sure) /\ rf[s].log.base \in Nat
         /\ rf[s].log.base = disk[s].log.base /\ Sure(rf[s].log.base, disk[s].term, h)
         /\ rf[s].role = "Leader" => /\ <<rf[s].term, s>> \in h.office /\ Led(rf[s].term, h)
                                     /\ h.log[s] = h.led[rf[s].term] /\ disk[s].term = rf[s].term
         /\ disk[s].term <= rf[s].term /\ h.term[s] = disk[s].term
  <1>1. /\ Core(h) /\ IsHistory(h) /\ Settled(h) /\ h.office = elected
        /\ IsRaft(rf[s]) /\ rf[s].term \in Nat /\ disk[s].term \in Nat
    BY ServerFacts DEF HistoryOf, Core, IsDisk
  <1>2. /\ ServerFits(s, h) /\ Stored(rf[s], disk[s], s, h) /\ Leads(rf[s], disk[s], s, h)
        /\ Knows(rf[s], s, h) /\ Follows(rf[s], nextIndex[s], matchIndex[s], s, h)
        /\ Executed(rf[s], disk[s], applied[s], snapshot[s], h)
    BY DEF HistoryOf, ServerFits
  <1>3. h.log[s] \in Log /\ Len(h.log[s]) \in Nat /\ h.sure \in Log /\ Len(h.sure) \in Nat
    BY <1>1, Parts
  <1>4. Remains(rf[s].log, h.log[s], h.sure) /\ rf[s].log.base \in Nat
    BY <1>2 DEF Stored, Remains, IsLog
  <1> QED BY <1>1, <1>2, <1>3, <1>4 DEF Stored, Leads, Led

\* What a server takes for committed is in its log, or under its snapshot.
LEMMA KnownIs ==
  ASSUME Inv, NEW h, HistoryOf(h), NEW s \in Server
  PROVE  LET r == rf[s]
         IN  /\ r.commit \in Nat /\ r.lastApplied \in Nat /\ Known(r) \in Nat
             /\ r.commit <= Known(r) /\ r.lastApplied <= Known(r) /\ r.log.base <= r.lastApplied
             /\ r.lastApplied <= r.commit => Known(r) = r.commit
             /\ Known(r) <= Len(h.log[s])
             /\ \A i \in Nat : i <= Known(r) =>
                  Sure(i, r.term, h) /\ i <= Len(h.sure) /\ (Known(r) > r.log.base => Agree(h.log[s], h.sure, i))
  <1> DEFINE r == rf[s]
  <1>0. /\ IsHistory(h) /\ Knows(r, s, h) /\ h.log[s] \in Log /\ h.sure \in Log /\ Len(h.log[s]) \in Nat
        /\ Remains(r.log, h.log[s], h.sure) /\ r.log.base \in Nat /\ Len(h.sure) \in Nat
    BY ServerIs
  <1> HIDE DEF r
  <1>1. /\ r.commit \in Nat /\ r.lastApplied \in Nat /\ Known(r) \in Nat
        /\ r.commit <= Known(r) /\ r.lastApplied <= Known(r) /\ r.log.base <= r.lastApplied
        /\ r.lastApplied <= r.commit => Known(r) = r.commit
    BY <1>0 DEF Knows, Known, Larger
  <1>2. Known(r) <= Len(h.log[s])
    <2>1. CASE Known(r) > r.log.base
      BY <1>0, <2>1 DEF Knows, Agree
    <2>2. CASE ~(Known(r) > r.log.base)
      <3>1. r.log.base <= Len(h.log[s])
        BY <1>0, ReadLog
      <3> QED BY <1>0, <1>1, <2>2, <3>1
    <2> QED BY <2>1, <2>2
  <1>3. ASSUME NEW i \in Nat, i <= Known(r)
        PROVE  Sure(i, r.term, h) /\ i <= Len(h.sure) /\ (Known(r) > r.log.base => Agree(h.log[s], h.sure, i))
    <2>1. Sure(i, r.term, h)
      BY <1>0, <1>1, <1>3, SurePart DEF Knows
    <2>2. Known(r) > r.log.base => Agree(h.log[s], h.sure, i)
      BY <1>0, <1>1, <1>3, AgreeParts DEF Knows
    <2> QED BY <1>0, <2>1, <2>2, SureLen
  <1> QED BY <1>1, <1>2, <1>3 DEF r

\* What a leader sends fits.
LEMMA SentFits ==
  ASSUME Inv, NEW h, HistoryOf(h), NEW s \in Server, NEW f \in Server, rf[s].role = "Leader"
  PROVE  LET m == RequestFor(s, f) IN EntriesFit(m, h) /\ SnapshotFits(m, h) /\ m.type \notin {"vote", "voted"}
  <1> DEFINE r == rf[s]
             T == r.term
             p == h.log[s]
             next == nextIndex[s][f]
             prev == next - 1
             m == RequestFor(s, f)
  <1>0. /\ Core(h) /\ IsHistory(h) /\ p \in Log /\ h.sure \in Log /\ Len(p) \in Nat /\ T \in Nat
        /\ Remains(r.log, p, h.sure) /\ r.log.base \in Nat /\ Sure(r.log.base, T, h)
        /\ <<T, s>> \in h.office /\ Led(T, h) /\ p = h.led[T]
        /\ snapshot[s] = Commands(h.sure, r.log.base)
    BY ServerIs DEF Executed
  <1>1. next \in Nat /\ next <= Len(p) + 1
    BY ServerIs DEF Follows
  <1>2. LastIndex(r.log) = Len(p) /\ r.log.base <= Len(p)
    BY <1>0, ReadLog
  <1>3. r.commit \in Nat /\ r.commit <= Len(p) /\ Sure(r.commit, T, h)
    BY <1>0, KnownIs
  <1>4. CASE next > r.log.base
    <2>1. m = [type |-> "append", from |-> s, to |-> f, waits |-> TRUE, term |-> r.term, prev |-> prev,
               pterm |-> TermAt(r.log, prev), ents |-> From(r.log, next), commit |-> r.commit]
      BY <1>4 DEF RequestFor
    <2> HIDE DEF r, T, p, next, m
    <2> DEFINE ents == From(r.log, next)
    <2>2. prev \in Nat /\ r.log.base <= prev /\ prev <= Len(p)
      BY <1>0, <1>1, <1>4 DEF prev
    <2>3. ents \in Log /\ Len(ents) = Len(p) + 1 - next /\ \A k \in DOMAIN ents : ents[k] = p[prev + k]
      <3>1. PICK c \in Log : Remains(r.log, p, c)
        BY <1>0
      <3>2. p \in Log /\ next \in Nat /\ r.log.base < next /\ next <= Len(p) + 1
        BY <1>0, <1>1, <1>4
      <3>3. /\ ents \in Log /\ Len(ents) = Len(p) + 1 - next
            /\ \A k \in DOMAIN ents : ents[k] = p[next - 1 + k]
        BY <3>1, <3>2, FromIs
      <3> QED BY <3>3 DEF prev
    <2>4. prev + Len(ents) = Len(p)
      BY <1>0, <1>1, <2>3
    <2>5. TermAt(r.log, prev) = TermOf(p, prev)
      <3>1. CASE prev = r.log.base
        <4>1. Agree(h.sure, p, r.log.base)
          BY <1>0, SureWithLeader
        <4>2. TermOf(h.sure, prev) = TermOf(p, prev)
          BY <1>0, <2>2, <3>1, <4>1, AgreeTerm
        <4> QED BY <1>0, <3>1, <4>2, ReadLog
      <3>2. CASE r.log.base < prev
        <4>1. prev \in DOMAIN p /\ TermAt(r.log, prev) = p[prev].term
          BY <1>0, <2>2, <3>2, ReadLog, SMTT(120)
        <4> QED BY <4>1 DEF TermOf
      <3> QED BY <1>0, <2>2, <3>1, <3>2
    <2> HIDE DEF ents, prev
    <2>6. Carries(h.led[T], prev, ents)
      BY <1>0, <2>2, <2>3, <2>4 DEF Carries
    <2>7. EntriesFit(m, h)
      <3>1. /\ m.type = "append" /\ m.from = s /\ m.term = T /\ m.prev = prev
            /\ m.pterm = TermOf(p, prev) /\ m.ents = ents /\ m.commit = r.commit
            /\ {"prev", "pterm", "ents", "commit"} \subseteq DOMAIN m
        BY <2>1, <2>5 DEF ents, T
      <3> QED BY <1>0, <1>3, <2>4, <2>6, <3>1 DEF EntriesFit
    <2>8. SnapshotFits(m, h) /\ m.type \notin {"vote", "voted"}
      BY <2>1 DEF SnapshotFits
    <2> QED BY <2>7, <2>8 DEF m
  <1>5. CASE ~(next > r.log.base)
    <2>1. /\ m.type = "install" /\ m.from = s /\ m.term = T /\ m.index = r.log.base
          /\ m.iterm = r.log.bterm /\ m.data = snapshot[s] /\ {"index", "iterm", "data"} \subseteq DOMAIN m
      BY <1>5 DEF RequestFor
    <2>2. r.log.bterm = TermOf(h.sure, r.log.base)
      BY <1>0 DEF Remains
    <2> HIDE DEF p, T, m
    <2>3. SnapshotFits(m, h)
      BY <1>0, <2>1, <2>2 DEF SnapshotFits
    <2>4. EntriesFit(m, h) /\ m.type \notin {"vote", "voted"}
      BY <2>1 DEF EntriesFit
    <2> QED BY <2>3, <2>4 DEF m
  <1> QED BY <1>4, <1>5

\* sendAllAppendEntries sends what the leader has on its hands.
LEMMA SendFits ==
  ASSUME LogInv, Inv', NEW s \in Server, SendAllAppendEntries(s)
  PROVE  LogInv'
  <1>1. PICK h : HistoryOf(h)
    BY DEF LogInv
  <1>2. rf[s].role = "Leader" /\ UNCHANGED <<rf, disk, snapshot, nextIndex, matchIndex, applied, cmds, historyVars>>
    BY DEF SendAllAppendEntries
  <1>3. \A m \in net' : m \in net \/ \E f \in Server : m = RequestFor(s, f)
    BY DEF SendAllAppendEntries, Call
  <1>4. \A f \in Server : LET m == RequestFor(s, f)
                          IN  EntriesFit(m, h) /\ SnapshotFits(m, h) /\ m.type \notin {"vote", "voted"}
    BY <1>1, <1>2, SentFits DEF LogInv
  <1>5. IsRaft(rf[s]) /\ Stays(rf[s], rf[s]) /\ Goes(s, rf[s])
    BY <1>2, ServerFacts, SameStays DEF LogInv
  <1> QED BY <1>1, <1>2, <1>3, <1>4, <1>5, SameIndexes DEF LogInv

\* Whoever hears of a term enters it with its log.
LEMMA FollowersSame ==
  ASSUME NEW q, IsRaft(q), NEW t
  PROVE  /\ LET r == ConvertToFollower(q, t)
            IN  r.log = q.log /\ r.commit = q.commit /\ r.lastApplied = q.lastApplied
         /\ LET r == Followed(q, t)
            IN  r.log = q.log /\ r.commit = q.commit /\ r.lastApplied = q.lastApplied
  <1>1. LET r == ConvertToFollower(q, t)
        IN  r.log = q.log /\ r.commit = q.commit /\ r.lastApplied = q.lastApplied
    BY DEF ConvertToFollower, IsRaft, Field
  <1> QED BY <1>1 DEF Followed

\* The term that a server has once it has followed a request that is not of an older one.
LEMMA FollowedTerm ==
  ASSUME NEW q, IsRaft(q), NEW t \in Nat, q.term <= t
  PROVE  LET r == Followed(q, t)
         IN  r.term = t /\ r.role # "Candidate" /\ (r.role = "Leader" => q.role = "Leader" /\ q.term = t)
  <1>1. CASE q.term < t \/ (q.term = t /\ q.role = "Candidate")
    BY <1>1, FollowerFields DEF Followed
  <1>2. CASE ~(q.term < t \/ (q.term = t /\ q.role = "Candidate"))
    BY <1>2 DEF Followed, IsRaft
  <1> QED BY <1>1, <1>2

\* A message and who sent it.
LEMMA MessageIs ==
  ASSUME Inv, NEW h, HistoryOf(h), NEW m \in net
  PROVE  /\ IsMessage(m) /\ m.from \in Server /\ m.to \in Server /\ m.from # m.to /\ m.term \in Nat
         /\ VoteFits(m, h) /\ EntriesFit(m, h) /\ SnapshotFits(m, h)
         /\ h.led[m.term] \in Log /\ Len(h.led[m.term]) \in Nat
         /\ rf[m.to].role = "Leader" /\ rf[m.to].term = m.term =>
              ~(m.type \in {"append", "install"})
  <1>1. /\ IsMessage(m) /\ m.from \in Server /\ m.to \in Server /\ m.from # m.to /\ m.term \in Nat
        /\ VoteFits(m, h) /\ EntriesFit(m, h) /\ SnapshotFits(m, h)
    BY DEF Inv, Types, IsMessage, HistoryOf, MessageFits
  <1>2. h.led[m.term] \in Log /\ Len(h.led[m.term]) \in Nat
    BY <1>1, Parts DEF HistoryOf, Core
  <1>3. ASSUME rf[m.to].role = "Leader", rf[m.to].term = m.term, m.type \in {"append", "install"}
        PROVE  FALSE
    <2>1. <<m.term, m.from>> \in elected
      BY <1>1, <1>3 DEF EntriesFit, SnapshotFits, HistoryOf
    <2>2. <<m.term, m.to>> \in elected
      BY <1>1, <1>3, ServerIs
    <2> QED BY <1>1, <2>1, <2>2, OneLeader DEF NoSecondLeader
  <1> QED BY <1>1, <1>2, <1>3

\* A refusal of entries fits: it sends the leader back to where it has entries.
LEMMA RefusalFits ==
  ASSUME Inv, NEW h, HistoryOf(h), NEW m \in net, m.type = "append", NEW n, NEW c \in Nat,
         c <= m.prev + 1 \/ c <= Len(h.led[m.term]), NEW t, n = Appended(m, t, FALSE, n.cterm, c)
  PROVE  n.type \notin {"vote", "voted"} /\ EntriesFit(n, h) /\ SnapshotFits(n, h)
  <1>1. n.type = "appended" /\ n.term = m.term /\ n.ok = FALSE /\ n.cindex = c
    BY DEF Appended
  <1>2. m.prev \in Nat /\ m.ents \in Log /\ m.prev + Len(m.ents) <= Len(h.led[m.term])
    BY MessageIs DEF EntriesFit, Carries
  <1>3. Len(m.ents) \in Nat /\ Len(h.led[m.term]) \in Nat
    BY <1>2, LogLen, MessageIs
  <1>4. c <= Len(h.led[m.term]) + 1
    <2> DEFINE x == Len(h.led[m.term])
               y == Len(m.ents)
               z == m.prev
    <2>1. x \in Nat /\ y \in Nat /\ z \in Nat /\ z + y <= x /\ (c <= z + 1 \/ c <= x)
      BY <1>2, <1>3
    <2> HIDE DEF x, y, z
    <2>2. c <= x + 1
      BY <2>1
    <2> QED BY <2>2 DEF x
  <1> QED BY <1>1, <1>4 DEF EntriesFit, SnapshotFits

\* Where the term at prev begins is at prev or before it.
LEMMA ConflictIs ==
  ASSUME NEW l, l.base \in Nat, NEW prev \in Nat
  PROVE  ConflictIndex(l, prev) \in Nat /\ ConflictIndex(l, prev) <= prev
  <1> DEFINE others == {j \in l.base .. prev : TermAt(l, j) # TermAt(l, prev)}
  <1>1. CASE others = {}
    BY <1>1 DEF ConflictIndex
  <1>2. CASE others # {}
    <2>1. others \in SUBSET (0 .. prev) /\ prev \notin others
      OBVIOUS
    <2>2. Max(others) \in others
      BY <1>2, <2>1, MaxIs
    <2>3. ConflictIndex(l, prev) = Max(others) + 1
      BY <1>2 DEF ConflictIndex
    <2>4. Max(others) \in 0 .. prev /\ Max(others) # prev
      BY <2>1, <2>2
    <2> HIDE DEF others
    <2> QED BY <2>3, <2>4
  <1> QED BY <1>1, <1>2

\* The follower has the entry before those it is sent.
Fitting(m) ==
  LET l == rf[m.to].log
  IN  /\ rf[m.to].term <= m.term /\ l.base <= m.prev /\ m.prev <= LastIndex(l)
      /\ TermAt(l, m.prev) = m.pterm

\* Entries are refused.
LEMMA RefuseFits ==
  ASSUME LogInv, Inv', NEW m \in net, AppendEntriesHandler(m), ~Fitting(m)
  PROVE  LogInv'
  <1> DEFINE s == m.to
             r == Followed(rf[s], m.term)
             k == rf[s].log
  <1>1. PICK h : HistoryOf(h) /\ Inv
    BY DEF LogInv
  <1>2. /\ m.type = "append" /\ s \in Server /\ m.term \in Nat /\ IsRaft(rf[s]) /\ rf[s].term \in Nat
        /\ m.prev \in Nat /\ m.prev + Len(m.ents) <= Len(h.led[m.term]) /\ Led(m.term, h)
        /\ k.base \in Nat /\ LastIndex(k) \in Nat /\ Core(h) /\ h.sure \in Log /\ h.led[m.term] \in Log
    <2>1. m.type = "append" /\ s \in Server /\ m.term \in Nat
      BY <1>1, MessageIs DEF AppendEntriesHandler
    <2>2. /\ m.prev \in Nat /\ m.prev + Len(m.ents) <= Len(h.led[m.term]) /\ Led(m.term, h)
          /\ h.led[m.term] \in Log
      BY <1>1, <2>1, MessageIs DEF EntriesFit, Carries, Led
    <2>3. /\ IsRaft(rf[s]) /\ rf[s].term \in Nat /\ k.base \in Nat /\ Core(h) /\ h.sure \in Log
          /\ Remains(k, h.log[s], h.sure) /\ h.log[s] \in Log
      BY <1>1, <2>1, ServerIs
    <2>4. LastIndex(k) \in Nat
      <3>1. PICK p \in Log, c \in Log : Remains(k, p, c)
        BY <2>3
      <3> HIDE DEF k
      <3> QED BY <3>1, ReadLog
    <2> QED BY <2>1, <2>2, <2>3, <2>4
  <1>3. /\ UNCHANGED <<nextIndex, matchIndex, snapshot, applied, cmds, historyVars>>
    BY DEF AppendEntriesHandler, boundVars
  <1>4. IsRaft(r) /\ Stays(rf[s], r) /\ Stays(rf[s], rf[s]) /\ r.log = k
        /\ r.commit = rf[s].commit /\ r.lastApplied = rf[s].lastApplied
    BY <1>1, <1>2, FollowedStays, FollowersSame, SameStays
  <1>5. ASSUME NEW q \in {rf[s], r}, Become(s, q), NEW t, NEW cterm, NEW c \in Nat,
               c <= m.prev + 1 \/ c <= Len(h.led[m.term]), Answered(m, Appended(m, t, FALSE, cterm, c))
        PROVE  LogInv'
    <2> DEFINE n == Appended(m, t, FALSE, cterm, c)
    <2>1. n = Appended(m, t, FALSE, n.cterm, c)
      BY DEF Appended
    <2> HIDE DEF n
    <2>2. n.type \notin {"vote", "voted"} /\ EntriesFit(n, h) /\ SnapshotFits(n, h)
      BY <1>1, <1>2, <1>5, <2>1, RefusalFits
    <2>3. \A x \in net' : x \in net \/ x = n
      BY <1>5 DEF Answered, n
    <2>4. IsRaft(q) /\ Goes(s, q) /\ Stays(rf[s], q) /\ q.log = k
          /\ q.commit = rf[s].commit /\ q.lastApplied = rf[s].lastApplied
      BY <1>2, <1>4, <1>5, BecomeGoes
    <2> HIDE DEF s, r
    <2> QED BY <1>1, <1>2, <1>3, <2>2, <2>3, <2>4, SameIndexes DEF k, s
  <1>6. CASE rf[s].term > m.term
    <2>1. Become(s, rf[s]) /\ Answered(m, Appended(m, rf[s].term, FALSE, 0, 0))
      BY <1>6 DEF AppendEntriesHandler
    <2>2. 0 <= m.prev + 1
      BY <1>2
    <2> QED BY <1>5, <2>1, <2>2
  <1>7. CASE ~(rf[s].term > m.term)
    <2>0. r.log = k
      BY <1>4
    <2>1. CASE m.prev > LastIndex(k)
      <3>1. Become(s, r) /\ Answered(m, Appended(m, rf[s].term, FALSE, -1, LastIndex(k) + 1))
        BY <1>7, <2>0, <2>1 DEF AppendEntriesHandler
      <3>2. LastIndex(k) + 1 \in Nat /\ LastIndex(k) + 1 <= m.prev + 1
        BY <1>2, <2>1
      <3> QED BY <1>5, <3>1, <3>2
    <2>2. CASE ~(m.prev > LastIndex(k)) /\ m.prev < k.base
      <3>1. Become(s, r) /\ Answered(m, Appended(m, rf[s].term, FALSE, -1, k.base))
        BY <1>7, <2>0, <2>2 DEF AppendEntriesHandler
      <3>2. Sure(k.base, disk[s].term, h) /\ disk[s].term \in Nat /\ disk[s].term <= rf[s].term
        BY <1>1, <1>2, ServerIs
      <3>3. Agree(h.sure, h.led[m.term], k.base)
        BY <1>2, <1>7, <3>2, SureWithLeader
      <3> QED BY <1>2, <1>5, <3>1, <3>3 DEF Agree
    <2>3. CASE ~(m.prev > LastIndex(k)) /\ ~(m.prev < k.base)
      <3>1. TermAt(k, m.prev) # m.pterm
        BY <1>2, <1>7, <2>3 DEF Fitting
      <3>2. Become(s, r) /\ Answered(m, Appended(m, rf[s].term, FALSE, TermAt(k, m.prev), ConflictIndex(k, m.prev)))
        BY <1>7, <2>0, <2>3, <3>1 DEF AppendEntriesHandler
      <3>3. ConflictIndex(k, m.prev) \in Nat /\ ConflictIndex(k, m.prev) <= m.prev + 1
        <4> HIDE DEF k
        <4>1. ConflictIndex(k, m.prev) \in Nat /\ ConflictIndex(k, m.prev) <= m.prev
          BY <1>2, ConflictIs
        <4> QED BY <1>2, <4>1
      <3> QED BY <1>5, <3>2, <3>3
    <2> QED BY <2>1, <2>2, <2>3
  <1> QED BY <1>6, <1>7

\* The snapshot is taken in, rather than left.
Taken(m) == rf[m.to].term <= m.term /\ Accepts(Followed(rf[m.to], m.term), m)

\* A snapshot that is left.
LEMMA LeaveFits ==
  ASSUME LogInv, Inv', NEW m \in net, m.type = "install", InstallReturns(m), ~Taken(m)
  PROVE  LogInv'
  <1> DEFINE s == m.to
             r == Followed(rf[s], m.term)
             n == [type |-> "installed", from |-> s, to |-> m.from, term |-> m.term,
                   rterm |-> rf[s].term, index |-> m.index, data |-> m.data]
  <1>1. PICK h : HistoryOf(h) /\ Inv
    BY DEF LogInv
  <1>2. m.type = "install" /\ s \in Server /\ m.term \in Nat /\ SnapshotFits(m, h)
    BY <1>1, MessageIs DEF InstallReturns
  <1>3. IsRaft(r) /\ Stays(rf[s], r) /\ Stays(rf[s], rf[s]) /\ r.log = rf[s].log
        /\ r.commit = rf[s].commit /\ r.lastApplied = rf[s].lastApplied /\ IsRaft(rf[s])
    BY <1>1, <1>2, FollowedStays, FollowersSame, SameStays, ServerFacts
  <1>4. BecomeUnsaved(s, rf[s]) \/ BecomeUnsaved(s, r)
    BY DEF InstallReturns, Taken
  <1>5. /\ UNCHANGED <<nextIndex, matchIndex, snapshot, applied, cmds, historyVars>>
        /\ Answered(m, n)
    BY DEF InstallReturns, Taken, boundVars
  <1>6. n.type \notin {"vote", "voted"} /\ EntriesFit(n, h) /\ SnapshotFits(n, h)
    BY <1>2 DEF SnapshotFits, EntriesFit
  <1> HIDE DEF n, r
  <1>7. \A x \in net' : x \in net \/ x = n
    BY <1>5 DEF Answered
  <1>8. CASE BecomeUnsaved(s, rf[s])
    <2>1. Goes(s, rf[s])
      BY <1>8, BecomeGoes
    <2> QED BY <1>1, <1>2, <1>3, <1>5, <1>6, <1>7, <2>1, SameIndexes
  <1>9. CASE BecomeUnsaved(s, r)
    <2>1. Goes(s, r)
      BY <1>9, BecomeGoes
    <2> QED BY <1>1, <1>2, <1>3, <1>5, <1>6, <1>7, <2>1, SameIndexes
  <1> QED BY <1>4, <1>8, <1>9

\* A leader goes on elsewhere with f.
LEMMA FollowsSet ==
  ASSUME NEW h, NEW s \in Server, NEW r, NEW next, NEW match, Follows(r, next, match, s, h),
         NEW f \in Server, NEW x \in Nat, NEW y \in Nat,
         r.role = "Leader" =>
           /\ x <= Len(h.log[s]) + 1
           /\ \/ y = match[f]
              \/ y <= h.acked[s][r.term] /\ y <= h.acked[f][r.term]
              \/ Sure(y, r.term, h)
  PROVE  Follows(r, [next EXCEPT ![f] = x], [match EXCEPT ![f] = y], s, h)
  <1> DEFINE nx == [next EXCEPT ![f] = x]
             mt == [match EXCEPT ![f] = y]
  <1>1. next \in [Server -> Nat] /\ match \in [Server -> Nat]
    BY DEF Follows
  <1>2. /\ nx \in [Server -> Nat] /\ mt \in [Server -> Nat]
        /\ nx[f] = x /\ mt[f] = y /\ \A v \in Server \ {f} : nx[v] = next[v] /\ mt[v] = match[v]
    BY <1>1
  <1> HIDE DEF nx, mt
  <1>3. ASSUME r.role = "Leader", NEW v \in Server
        PROVE  /\ nx[v] <= Len(h.log[s]) + 1
               /\ \/ mt[v] <= h.acked[s][r.term] /\ mt[v] <= h.acked[v][r.term]
                  \/ Sure(mt[v], r.term, h)
    <2>1. CASE v = f
      BY <1>2, <1>3, <2>1 DEF Follows
    <2>2. CASE v # f
      BY <1>2, <1>3, <2>2 DEF Follows
    <2> QED BY <2>1, <2>2
  <1>4. Follows(r, nx, mt, s, h)
    BY <1>2, <1>3 DEF Follows
  <1> QED BY <1>4 DEF nx, mt

\* A leader that hears of a higher term is no leader.
LEMMA FollowsStays ==
  ASSUME NEW r, NEW q, Stays(r, q), r.term \in Nat, q.term \in Nat,
         NEW h, NEW s, NEW next, NEW match, Follows(r, next, match, s, h)
  PROVE  Follows(q, next, match, s, h)
  <1>1. q.role = "Leader" => r.role = "Leader" /\ q.term = r.term
    BY DEF Stays
  <1> QED BY <1>1 DEF Follows

\* Where a refusal sends a leader back to is in its log, or right after it.
LEMMA BackToIs ==
  ASSUME NEW l, l.base \in Nat, LastIndex(l) \in Nat, NEW m, m.cindex \in Nat, m.cindex <= LastIndex(l) + 1
  PROVE  BackTo(l, m) \in Nat /\ BackTo(l, m) <= LastIndex(l) + 1
  <1> DEFINE same == {i \in l.base .. LastIndex(l) :
                        TermAt(l, i) = m.cterm /\ \A j \in i + 1 .. LastIndex(l) : TermAt(l, j) > m.cterm}
  <1>1. CASE m.cterm = -1 \/ same = {}
    BY <1>1 DEF BackTo
  <1>2. CASE ~(m.cterm = -1 \/ same = {})
    <2>1. same \in SUBSET (0 .. LastIndex(l)) /\ same # {}
      BY <1>2
    <2>2. BackTo(l, m) = Max(same) + 1
      BY <1>2 DEF BackTo
    <2> HIDE DEF same
    <2>3. Max(same) \in same
      BY <2>1, MaxIs
    <2>4. Max(same) \in 0 .. LastIndex(l)
      BY <2>1, <2>3
    <2> QED BY <2>2, <2>4
  <1> QED BY <1>1, <1>2

\* A refusal, or an answer to a request of an earlier term.
LEMMA RefusedFits ==
  ASSUME LogInv, Inv', NEW m \in net, AppendReply(m), ~(Counts(rf[m.to], m) /\ m.ok)
  PROVE  LogInv'
  <1> DEFINE s == m.to
             f == m.from
             r == rf[s]
             q == IF m.rterm > r.term THEN ConvertToFollower(r, m.rterm) ELSE r
  <1>1. PICK h : HistoryOf(h) /\ Inv
    BY DEF LogInv
  <1>2. /\ m.type = "appended" /\ s \in Server /\ f \in Server /\ m.term \in Nat /\ m.rterm \in Nat
        /\ EntriesFit(m, h)
    BY <1>1, MessageIs DEF AppendReply, IsMessage, Requests
  <1>3. /\ IsRaft(r) /\ r.term \in Nat /\ Follows(r, nextIndex[s], matchIndex[s], s, h)
        /\ r.log.base \in Nat /\ LastIndex(r.log) = Len(h.log[s]) /\ Len(h.log[s]) \in Nat
        /\ r.role = "Leader" => h.log[s] = h.led[r.term]
    <2>1. /\ IsRaft(r) /\ r.term \in Nat /\ Follows(r, nextIndex[s], matchIndex[s], s, h)
          /\ r.log.base \in Nat /\ Remains(r.log, h.log[s], h.sure) /\ h.log[s] \in Log /\ h.sure \in Log
          /\ Len(h.log[s]) \in Nat
          /\ r.role = "Leader" => h.log[s] = h.led[r.term]
      BY <1>1, <1>2, ServerIs
    <2> HIDE DEF r
    <2>2. LastIndex(r.log) = Len(h.log[s])
      BY <2>1, ReadLog
    <2> QED BY <2>1, <2>2
  <1>4. UNCHANGED <<snapshot, applied, cmds, historyVars>> /\ \A x \in net' : x \in net
    BY DEF AppendReply, boundVars
  <1>5. CASE ~Counts(r, m)
    <2>1. Become(s, r) /\ UNCHANGED <<nextIndex, matchIndex>>
      BY <1>5 DEF AppendReply
    <2>2. Goes(s, r) /\ Stays(r, r)
      BY <1>1, <1>2, <2>1, BecomeGoes, SameStays
    <2> QED BY <1>1, <1>2, <1>3, <1>4, <2>1, <2>2, SameIndexes
  <1>6. CASE Counts(r, m) /\ ~m.ok
    <2> DEFINE b == BackTo(r.log, m)
               next == [nextIndex[s] EXCEPT ![f] = b]
               match == [matchIndex[s] EXCEPT ![f] = matchIndex[s][f]]
    <2>1. Become(s, q) /\ nextIndex' = [nextIndex EXCEPT ![s][f] = b] /\ UNCHANGED matchIndex
      BY <1>6 DEF AppendReply
    <2>2. r.role = "Leader" /\ r.term = m.term
      BY <1>6 DEF Counts
    <2>3. m.cindex \in Nat /\ m.cindex <= LastIndex(r.log) + 1
      BY <1>2, <1>3, <2>2 DEF EntriesFit
    <2>4. b \in Nat /\ b <= Len(h.log[s]) + 1
      <3> HIDE DEF r
      <3> QED BY <1>3, <2>3, BackToIs
    <2>5. nextIndex \in [Server -> [Server -> Nat]] /\ matchIndex \in [Server -> [Server -> Nat]]
      BY <1>1 DEF HistoryOf
    <2>6. matchIndex[s][f] \in Nat
      BY <1>2, <2>5
    <2> HIDE DEF b
    <2>7. Follows(r, next, match, s, h)
      <3> HIDE DEF r
      <3> QED BY <1>2, <1>3, <2>4, <2>6, FollowsSet
    <2>8. /\ nextIndex' = [nextIndex EXCEPT ![s] = next] /\ matchIndex' = [matchIndex EXCEPT ![s] = match]
          /\ next \in [Server -> Nat] /\ match \in [Server -> Nat]
      BY <1>2, <2>1, <2>4, <2>5, <2>6
    <2>9. IsRaft(q) /\ Stays(r, q) /\ q.log = r.log /\ q.commit = r.commit /\ q.lastApplied = r.lastApplied
      BY <1>2, <1>3, HigherStays, FollowersSame
    <2>10. Goes(s, q) /\ q.term \in Nat
      BY <2>1, <2>9, BecomeGoes DEF IsRaft
    <2> HIDE DEF next, match, q
    <2>11. Follows(q, next, match, s, h)
      BY <1>3, <2>7, <2>9, <2>10, FollowsStays
    <2> QED BY <1>1, <1>2, <1>4, <2>8, <2>9, <2>10, <2>11, SameStep
  <1> QED BY <1>5, <1>6

\* A leader hears whether its snapshot has arrived: what it writes is the one there is.
LEMMA InstalledFits ==
  ASSUME LogInv, Inv', NEW m \in net, InstallReply(m)
  PROVE  LogInv'
  <1> DEFINE s == m.to
             f == m.from
             r == rf[s]
             q == IF m.term = r.term /\ m.rterm > r.term THEN ConvertToFollower(r, m.rterm) ELSE r
  <1>1. PICK h : HistoryOf(h) /\ Inv
    BY DEF LogInv
  <1>2. /\ m.type = "installed" /\ s \in Server /\ f \in Server /\ m.term \in Nat /\ m.rterm \in Nat
        /\ SnapshotFits(m, h)
    BY <1>1, MessageIs DEF InstallReply, IsMessage, Requests
  <1>3. /\ IsRaft(r) /\ r.term \in Nat /\ Follows(r, nextIndex[s], matchIndex[s], s, h)
        /\ r.log.base \in Nat /\ r.log.base <= Len(h.log[s]) /\ Len(h.log[s]) \in Nat
        /\ snapshot[s] = Commands(h.sure, r.log.base)
    <2>1. /\ IsRaft(r) /\ r.term \in Nat /\ Follows(r, nextIndex[s], matchIndex[s], s, h)
          /\ r.log.base \in Nat /\ Remains(r.log, h.log[s], h.sure) /\ h.log[s] \in Log /\ h.sure \in Log
          /\ Len(h.log[s]) \in Nat /\ r.log.base = disk[s].log.base
          /\ Executed(r, disk[s], applied[s], snapshot[s], h)
      BY <1>1, <1>2, ServerIs
    <2> HIDE DEF r, s
    <2>2. r.log.base <= Len(h.log[s])
      BY <2>1, ReadLog
    <2> QED BY <2>1, <2>2 DEF Executed
  <1>4. UNCHANGED <<applied, cmds, historyVars>> /\ \A x \in net' : x \in net
    BY DEF InstallReply, boundVars
  <1>5. IsRaft(q) /\ Stays(r, q) /\ q.log = r.log /\ q.commit = r.commit /\ q.lastApplied = r.lastApplied
    BY <1>1, <1>2, <1>3, HigherStays, FollowersSame, SameStays
  <1>6. q.term \in Nat
    BY <1>5 DEF IsRaft
  <1>7. CASE Obsolete(q, m)
    <2>1. BecomeUnsaved(s, q) /\ UNCHANGED <<nextIndex, matchIndex, snapshot>>
      BY <1>7 DEF InstallReply
    <2>2. Goes(s, q)
      BY <2>1, BecomeGoes
    <2> HIDE DEF q
    <2> QED BY <1>1, <1>2, <1>4, <1>5, <2>1, <2>2, SameIndexes
  <1>8. CASE ~Obsolete(q, m)
    <2> DEFINE x == Larger(nextIndex[s][f], m.index + 1)
               y == Larger(matchIndex[s][f], m.index)
               next == [nextIndex[s] EXCEPT ![f] = x]
               match == [matchIndex[s] EXCEPT ![f] = y]
    <2>1. /\ Become(s, q) /\ nextIndex' = [nextIndex EXCEPT ![s][f] = x]
          /\ matchIndex' = [matchIndex EXCEPT ![s][f] = y]
          /\ snapshot' = [snapshot EXCEPT ![s] = m.data]
      BY <1>8 DEF InstallReply
    <2>2. q.term = m.term /\ q.role = "Leader" /\ m.index = r.log.base
      BY <1>5, <1>8 DEF Obsolete
    <2>3. r.role = "Leader" /\ r.term = m.term
      BY <1>3, <1>5, <1>6, <2>2 DEF Stays
    <2>4. m.index \in Nat /\ Sure(m.index, r.term, h) /\ m.data = snapshot[s]
      BY <1>2, <1>3, <2>2, <2>3 DEF SnapshotFits
    <2>5. nextIndex \in [Server -> [Server -> Nat]] /\ matchIndex \in [Server -> [Server -> Nat]]
          /\ snapshot = [v \in Server |-> snapshot[v]]
      BY <1>1 DEF HistoryOf
    <2>6. matchIndex[s][f] \in Nat /\ nextIndex[s][f] \in Nat /\ nextIndex[s][f] <= Len(h.log[s]) + 1
      <3>1. matchIndex[s][f] \in Nat /\ nextIndex[s][f] \in Nat
        BY <1>2, <2>5
      <3> QED BY <1>2, <1>3, <2>3, <3>1 DEF Follows
    <2>7. x \in Nat /\ y \in Nat /\ x <= Len(h.log[s]) + 1 /\ y \in {matchIndex[s][f], m.index}
      BY <1>3, <2>2, <2>4, <2>6, SMTT(120) DEF Larger
    <2> HIDE DEF x, y
    <2>8. Follows(r, next, match, s, h)
      <3> HIDE DEF r
      <3> QED BY <1>2, <1>3, <2>4, <2>7, FollowsSet
    <2>9. /\ nextIndex' = [nextIndex EXCEPT ![s] = next] /\ matchIndex' = [matchIndex EXCEPT ![s] = match]
          /\ next \in [Server -> Nat] /\ match \in [Server -> Nat]
      BY <1>2, <2>1, <2>5, <2>7
    <2>10. Goes(s, q)
      BY <2>1, BecomeGoes
    <2>11. snapshot' = snapshot
      BY <1>2, <2>1, <2>4, <2>5
    <2> HIDE DEF next, match, q
    <2>12. Follows(q, next, match, s, h)
      BY <1>3, <1>5, <1>6, <2>8, FollowsStays
    <2> QED BY <1>1, <1>2, <1>4, <1>5, <2>9, <2>10, <2>11, <2>12, SameStep
  <1> QED BY <1>7, <1>8

-----------------------------------------------------------------------------
(* Elections. *)

\* What server v keeps of what it has acknowledged bars no log that holds it, and at its own
\* candidacy it holds it itself.
LEMMA OutdoneByDisk ==
  ASSUME NEW g, Core(g), NEW v \in Server, NEW s \in Server, NEW T \in Nat, g.term[v] <= T,
         \A n \in Pos, t \in Nat : Has(g.saved[v], n, t) => Has(g.log[s], n, t) \/ Lost(n, t, T, g)
  PROVE  Outdone(v, s, T, g)
  <1> SUFFICES ASSUME NEW t \in Nat, NEW n \in Pos, t < T, n <= g.acked[v][t], Has(g.led[t], n, t)
               PROVE  Has(g.log[s], n, t) \/ Lost(n, t, T, g)
    BY DEF Outdone
  <1>0. g.term[v] \in Nat /\ g.acked[v][t] \in Nat
    BY Parts DEF Core
  <1>1. g.term[v] \in Nat /\ g.acked[v][t] \in Nat /\ n \in 1 .. g.acked[v][t]
    BY <1>0 DEF Pos
  <1>2. Has(g.saved[v], n, t) \/ Lost(n, t, g.term[v], g)
    BY <1>1 DEF Core, AckedKept
  <1>3. Lost(n, t, g.term[v], g) => Lost(n, t, T, g)
    BY <1>1 DEF Lost
  <1> QED BY <1>2, <1>3

\* A server runs: it bars itself from nothing.
LEMMA TimeoutFits ==
  ASSUME LogInv, Inv', NEW s \in Server, ElectionTimeout(s)
  PROVE  LogInv'
  <1> DEFINE r == rf[s]
             q == ConvertToCandidate(s, r)
             T == r.term + 1
  <1>1. PICK h : HistoryOf(h) /\ Inv
    BY DEF LogInv
  <1>2. /\ IsRaft(r) /\ r.term \in Nat /\ Follows(r, nextIndex[s], matchIndex[s], s, h)
        /\ h.log[s] \in Log /\ h.sure \in Log /\ Remains(r.log, h.log[s], h.sure)
    BY <1>1, ServerIs
  <1>3. /\ q.role = "Candidate" /\ q.term = T /\ q.count = 1 /\ q.vote = s
        /\ q.log = r.log /\ q.commit = r.commit /\ q.lastApplied = r.lastApplied
        /\ q = [f \in Field |-> q[f]]
    BY <1>2 DEF ConvertToCandidate, IsRaft, Field
  <1> HIDE DEF q
  <1>4. IsRaft(q)
    BY <1>2, <1>3 DEF IsRaft, Role
  <1>5. /\ rf' = [rf EXCEPT ![s] = q] /\ disk' = disk
        /\ UNCHANGED <<snapshot, nextIndex, matchIndex, applied, cmds, historyVars>>
    BY DEF ElectionTimeout, BecomeUnsaved, boundVars, q
  <1>6. UNCHANGED <<elected, ballots>>
    BY <1>5 DEF historyVars
  <1>7. net' = net
    BY DEF ElectionTimeout
  <1>8. \A v \in Server : NothingNew(v)
    BY <1>7 DEF NothingNew
  <1>9. /\ nextIndex[s] \in [Server -> Nat] /\ matchIndex[s] \in [Server -> Nat]
        /\ nextIndex' = [nextIndex EXCEPT ![s] = nextIndex[s]]
        /\ matchIndex' = [matchIndex EXCEPT ![s] = matchIndex[s]]
    BY <1>1, <1>5 DEF HistoryOf
  <1>10. rf[s].term <= q.term /\ rf[s].term < q.term /\ q.role # "Leader"
    BY <1>2, <1>3
  <1>11. disk' \in {disk, [disk EXCEPT ![s] = Saved(q)]}
    BY <1>5
  <1>12. PICK g : /\ Quiet(h, g) /\ g.term[s] <= q.term
                  /\ /\ Follows(q, nextIndex[s], matchIndex[s], s, g)
                     /\ Runs(s, g)' \/ (q.role = rf[s].role /\ q.term = rf[s].term /\ q.count = rf[s].count)
                     /\ \A m \in net' : m \in net \/ MessageFits(m, g)'
                     => LogInv'
    <2>1. /\ q.log = rf[s].log /\ q.commit = rf[s].commit /\ q.lastApplied = rf[s].lastApplied
          /\ q.role = "Leader" => rf[s].role = "Leader" /\ q.term = rf[s].term
          /\ ballots \subseteq ballots' /\ UNCHANGED <<snapshot, applied, elected, cmds>>
      BY <1>3, <1>5, <1>6, <1>10
    <2>2. /\ rf' = [rf EXCEPT ![s] = q]
          /\ q.role = "Candidate" => \/ rf[s].role = "Candidate" /\ q.term = rf[s].term
                                     \/ rf[s].term < q.term
      BY <1>5, <1>10
    <2>3. rf[s].term <= q.term
      BY <1>10
    <2> HIDE DEF r, T
    <2> QED BY <1>1, <1>4, <1>8, <1>9, <1>11, <2>1, <2>2, <2>3, KeepStep
  <1>13. Follows(q, nextIndex[s], matchIndex[s], s, g)
    BY <1>2, <1>9, <1>10 DEF Follows
  <1>14. rf'[s] = q
    BY <1>1, <1>5 DEF Inv, Types
  <1>15. Runs(s, g)'
    <2>1. Tally(s, {s})'
      <3>1. s \in {s} /\ Cardinality({s}) = rf'[s].count
        BY <1>3, <1>14, FS_Singleton
      <3> QED BY <3>1 DEF Tally, Elects
    <2>2. Core(g) /\ IsHistory(g) /\ ServerLogs(g)
      BY <1>12 DEF Quiet, Core
    <2>3. \A n \in Pos, t \in Nat : Has(g.saved[s], n, t) => Has(g.log[s], n, t)
      <3> SUFFICES ASSUME NEW n \in Pos, NEW t \in Nat, Has(g.saved[s], n, t) PROVE Has(g.log[s], n, t)
        OBVIOUS
      <3>1. n \in Nat /\ n # 0 /\ g.log[s] \in Log
        BY <2>2, Parts DEF Pos
      <3> QED BY <2>2, <3>1, SavedInLog
    <2>4. Outdone(s, s, T, g)
      BY <1>2, <1>3, <1>12, <2>2, <2>3, OutdoneByDisk
    <2>5. rf'[s].term = T
      BY <1>3, <1>14
    <2> HIDE DEF T
    <2> QED BY <2>1, <2>4, <2>5 DEF Runs
  <1>16. \A m \in net' : m \in net
    BY <1>7
  <1> QED BY <1>12, <1>13, <1>15, <1>16

\* It asks, and says what its log ends with.
LEMMA AskFits ==
  ASSUME LogInv, Inv', NEW s \in Server, NEW t, sendAllRequestVote(s, t), ~outOfStep'
  PROVE  LogInv'
  <1>1. PICK h : HistoryOf(h) /\ Inv
    BY DEF LogInv
  <1>2. /\ UNCHANGED <<rf, disk, snapshot, nextIndex, matchIndex, applied, cmds, historyVars>>
        /\ UNCHANGED <<elected, ballots>>
    BY DEF sendAllRequestVote, boundVars, historyVars
  <1>3. CASE rf[s].role # "Candidate"
    <2>1. net' \subseteq net
      BY <1>3 DEF sendAllRequestVote
    <2> QED BY <1>2, <2>1, LostFits
  <1>4. CASE rf[s].role = "Candidate"
    <2> DEFINE r == rf[s]
               request(q) == [type |-> "vote", from |-> s, to |-> q, waits |-> TRUE, term |-> t, by |-> t,
                              last |-> LastIndex(r.log), lastTerm |-> LastTerm(r.log)]
    <2>1. /\ t = r.term /\ r.count = 1 /\ \A v \in Server : \A m \in net : ~Open(m, s, v, t)
          /\ \A m \in net' : m \in net \/ \E q \in Server \ {s} : m = request(q)
      BY <1>1, <1>4, AskIs
    <2>2. \A v \in Server : ServerFits(v, h)'
      <3> SUFFICES ASSUME NEW v \in Server PROVE ServerFits(v, h)'
        OBVIOUS
      <3>1. ServerFits(v, h)
        BY <1>1 DEF HistoryOf
      <3> QED BY <1>2, <3>1 DEF ServerFits
    <2>3. ASSUME NEW v \in Server, rf[v].role = "Candidate"
          PROVE  \E D \in SUBSET Server : Tally(v, D)' /\ \A x \in D : Outdone(x, v, rf[v].term, h)
      <3>1. PICK D \in SUBSET Server : Tally(v, D) /\ \A x \in D : Outdone(x, v, rf[v].term, h)
        BY <1>1, <2>3 DEF HistoryOf, Runs
      <3>2. \A x \in D \ {v} : \A m \in net' : ~Open(m, v, x, rf[v].term)
        <4>1. CASE v # s
          <5>1. \A m \in net', x \in Server : Open(m, v, x, rf[v].term) => m \in net
            BY <2>1, <4>1 DEF Open
          <5> QED BY <3>1, <5>1 DEF Tally
        <4>2. CASE v = s
          <5>1. IsFiniteSet(D) /\ Cardinality(D) = 1 /\ s \in D
            BY <2>1, <3>1, <4>2, FS_Subset, Lab2DAssumption DEF Tally
          <5>2. D = {s}
            BY <5>1, FS_Singleton
          <5> QED BY <4>2, <5>2
        <4> QED BY <4>1, <4>2
      <3> QED BY <1>2, <3>1, <3>2 DEF Tally, Elects, Open
    <2>4. \A v \in Server : Runs(v, h)'
      BY <1>2, <2>3 DEF Runs
    <2>5. ASSUME NEW m \in net PROVE MessageFits(m, h)'
      <3>1. MessageFits(m, h)
        BY <1>1 DEF HistoryOf
      <3> QED BY <1>2, <3>1 DEF MessageFits, VoteFits, RunsIn, EntriesFit, SnapshotFits
    <2>6. ASSUME NEW v \in Server \ {s}, NEW m, m = request(v) PROVE MessageFits(m, h)'
      <3>1. m.type = "vote" /\ m.from = s /\ m.last = LastIndex(r.log) /\ m.lastTerm = LastTerm(r.log)
        BY <2>6
      <3>2. LastIndex(r.log) = Len(h.log[s]) /\ LastTerm(r.log) = LastOf(h.log[s])
        <4>1. h.log[s] \in Log /\ h.sure \in Log /\ Remains(r.log, h.log[s], h.sure)
          BY <1>1, ServerIs
        <4> HIDE DEF r
        <4> QED BY <4>1, ReadLog
      <3>3. m.last = Len(h.log[s]) /\ m.lastTerm = LastOf(h.log[s])
        BY <3>1, <3>2
      <3> QED BY <3>1, <3>3 DEF MessageFits, VoteFits, EntriesFit, SnapshotFits
    <2>7. \A m \in net' : MessageFits(m, h)'
      BY <2>1, <2>5, <2>6
    <2>8. HistoryOf(h)'
      BY <1>1, <1>2, <2>2, <2>4, <2>7 DEF HistoryOf
    <2> QED BY <2>8 DEF LogInv
  <1> QED BY <1>3, <1>4

\* A vote is persisted with the log, which is not newer than the candidate's.
LEMMA CastFits ==
  ASSUME LogInv, Inv', NEW m \in net, RequestVoteHandler(m)
  PROVE  LogInv'
  <1> DEFINE s == m.to
             c == m.from
             T == m.term
             r == IF T > rf[s].term THEN ConvertToFollower(rf[s], T) ELSE rf[s]
             granted == Grants(r, m)
             q == IF granted THEN [r EXCEPT !.vote = c] ELSE r
             reply == [type |-> "voted", from |-> s, to |-> c, term |-> T, by |-> m.by, rterm |-> r.term, ok |-> granted]
  <1>1. PICK h : HistoryOf(h) /\ Inv
    BY DEF LogInv
  <1>2. m.type = "vote" /\ s \in Server /\ c \in Server /\ s # c /\ T \in Nat /\ VoteFits(m, h)
    BY <1>1, MessageIs DEF RequestVoteHandler
  <1>3. /\ IsRaft(rf[s]) /\ rf[s].term \in Nat /\ Follows(rf[s], nextIndex[s], matchIndex[s], s, h)
        /\ h.log[s] \in Log /\ h.sure \in Log /\ Remains(rf[s].log, h.log[s], h.sure) /\ IsHistory(h)
    BY <1>1, <1>2, ServerIs
  <1>4. /\ IsRaft(r) /\ r.log = rf[s].log /\ r.commit = rf[s].commit /\ r.lastApplied = rf[s].lastApplied
        /\ \/ r = rf[s] /\ ~(T > rf[s].term)
           \/ r.role = "Follower" /\ r.term = T /\ T > rf[s].term
    BY <1>2, <1>3, FollowerFields, FollowersSame, ZenonT(120)
  <1>5. r.term \in Nat /\ T <= r.term
    BY <1>2, <1>3, <1>4
  <1> HIDE DEF r
  <1>6. granted \in BOOLEAN /\ (granted => r.role = "Follower" /\ T = r.term /\ UpToDate(m, r.log))
    BY <1>2, <1>5 DEF Grants
  <1> HIDE DEF granted
  <1>7. /\ q.role = r.role /\ q.term = r.term /\ q.count = r.count
        /\ q.log = r.log /\ q.commit = r.commit /\ q.lastApplied = r.lastApplied /\ IsRaft(q)
    <2>1. r = [f \in Field |-> r[f]]
      BY <1>4 DEF IsRaft
    <2>2. CASE granted
      <3>1. q = [r EXCEPT !.vote = c]
        BY <2>2
      <3>2. /\ q.role = r.role /\ q.term = r.term /\ q.count = r.count /\ q.vote = c
            /\ q.log = r.log /\ q.commit = r.commit /\ q.lastApplied = r.lastApplied
            /\ q = [f \in Field |-> q[f]]
        BY <2>1, <3>1 DEF Field
      <3> HIDE DEF q
      <3> QED BY <1>2, <1>4, <3>2 DEF IsRaft
    <2>3. CASE ~granted
      BY <1>4, <2>3
    <2> QED BY <2>2, <2>3
  <1> HIDE DEF q
  <1>8. /\ rf' = [rf EXCEPT ![s] = q] /\ disk' = [disk EXCEPT ![s] = Saved(q)]
        /\ UNCHANGED <<snapshot, nextIndex, matchIndex, applied, cmds, elected>>
        /\ ballots \subseteq ballots' /\ Answered(m, reply)
    BY DEF RequestVoteHandler, Become, boundVars, q, granted, r
  <1>9. \A n \in net' : n \in net \/ (n = reply /\ m.waits)
    <2> HIDE DEF reply
    <2> QED BY <1>8 DEF Answered
  <1>10. \A v \in Server : NothingNew(v)
    <2> SUFFICES ASSUME NEW v \in Server, NEW n \in net', NEW x \in Server, Open(n, v, x, rf[v].term)
                 PROVE  \E k \in net : Open(k, v, x, rf[v].term)
      BY DEF NothingNew
    <2>1. CASE n = reply /\ m.waits
      <3>1. v = c /\ x = s /\ rf[v].term = T
        BY <2>1 DEF Open
      <3> QED BY <1>2, <2>1, <3>1 DEF Open
    <2> QED BY <1>9, <2>1
  <1>11. /\ nextIndex[s] \in [Server -> Nat] /\ matchIndex[s] \in [Server -> Nat]
         /\ nextIndex' = [nextIndex EXCEPT ![s] = nextIndex[s]]
         /\ matchIndex' = [matchIndex EXCEPT ![s] = matchIndex[s]]
    BY <1>1, <1>2, <1>8 DEF HistoryOf
  <1>12. /\ rf[s].term <= q.term
         /\ q.role = "Leader" => rf[s].role = "Leader" /\ q.term = rf[s].term
         /\ q.role = "Candidate" => rf[s].role = "Candidate" /\ q.term = rf[s].term
         /\ q.role = "Follower" \/ (q.role = rf[s].role /\ q.term = rf[s].term /\ q.count = rf[s].count)
    BY <1>2, <1>3, <1>4, <1>7
  <1>13. PICK g : /\ Quiet(h, g) /\ g.term[s] <= q.term /\ g.saved[s] = h.log[s] /\ g.term[s] = q.term
                  /\ /\ Follows(q, nextIndex[s], matchIndex[s], s, g)
                     /\ Runs(s, g)' \/ (q.role = rf[s].role /\ q.term = rf[s].term /\ q.count = rf[s].count)
                     /\ \A n \in net' : n \in net \/ MessageFits(n, g)'
                     => LogInv'
    <2>1. /\ q.log = rf[s].log /\ q.commit = rf[s].commit /\ q.lastApplied = rf[s].lastApplied
          /\ q.role = "Leader" => rf[s].role = "Leader" /\ q.term = rf[s].term
          /\ ballots \subseteq ballots' /\ UNCHANGED <<snapshot, applied, elected, cmds>>
      BY <1>4, <1>7, <1>8, <1>12
    <2>2. /\ rf' = [rf EXCEPT ![s] = q]
          /\ q.role = "Candidate" => \/ rf[s].role = "Candidate" /\ q.term = rf[s].term
                                     \/ rf[s].term < q.term
      BY <1>8, <1>12
    <2>3. rf[s].term <= q.term /\ disk' \in {disk, [disk EXCEPT ![s] = Saved(q)]} /\ IsRaft(q)
      BY <1>7, <1>8, <1>12
    <2> HIDE DEF s, c, T, reply
    <2>4. s \in Server
      BY <1>2
    <2>5. PICK g : /\ Quiet(h, g) /\ g.term[s] <= q.term
                   /\ disk' = [disk EXCEPT ![s] = Saved(q)] => g.saved[s] = h.log[s] /\ g.term[s] = q.term
                   /\ /\ Follows(q, nextIndex[s], matchIndex[s], s, g)
                      /\ Runs(s, g)' \/ (q.role = rf[s].role /\ q.term = rf[s].term /\ q.count = rf[s].count)
                      /\ \A n \in net' : n \in net \/ MessageFits(n, g)'
                      => LogInv'
      BY <1>1, <1>10, <1>11, <2>1, <2>2, <2>3, <2>4, KeepStep
    <2> QED BY <1>8, <2>5
  <1>14. Follows(q, nextIndex[s], matchIndex[s], s, g)
    <2>1. Follows(q, nextIndex[s], matchIndex[s], s, h)
      BY <1>3, <1>12 DEF Follows
    <2> QED BY <1>13, <2>1, QuietFits
  <1>15. rf'[s] = q /\ \A v \in Server \ {s} : rf'[v] = rf[v]
    BY <1>1, <1>2, <1>8 DEF Inv, Types
  <1>16. Runs(s, g)' \/ (q.role = rf[s].role /\ q.term = rf[s].term /\ q.count = rf[s].count)
    <2>1. q.role = "Follower" => Runs(s, g)'
      BY <1>15 DEF Runs
    <2> QED BY <1>12, <2>1
  <1>17. Core(g) /\ IsHistory(g) /\ LeaderLogs(g) /\ ServerLogs(g) /\ g.log = h.log /\ g.acked = h.acked
    BY <1>13 DEF Quiet, Core
  <1>18. ASSUME NEW n, n = reply, m.waits PROVE MessageFits(n, g)'
    <2>1. n.type = "voted" /\ n.from = s /\ n.to = c /\ n.term = T /\ n.ok = granted
      BY <1>18
    <2> HIDE DEF s, c, T, reply
    <2>2. ASSUME granted, rf'[c].role = "Candidate", rf'[c].term = T PROVE Outdone(s, c, T, g)
      <3>1. rf[c].role = "Candidate" /\ rf[c].term = T
        BY <1>2, <1>15, <2>2
      <3>2. m.last = Len(h.log[c]) /\ m.lastTerm = LastOf(h.log[c])
        BY <1>2, <1>18, <3>1 DEF VoteFits, RunsIn, c, T
      <3>3. h.log[c] \in Log /\ h.term[c] \in Nat /\ h.term[c] <= T
        BY <1>1, <1>2, <3>1, ServerIs
      <3>4. LastIndex(rf[s].log) = Len(h.log[s]) /\ LastTerm(rf[s].log) = LastOf(h.log[s])
        BY <1>3, ReadLog
      <3>5. ~(LastOf(h.log[c]) < LastOf(h.log[s])
              \/ (LastOf(h.log[c]) = LastOf(h.log[s]) /\ Len(h.log[c]) < Len(h.log[s])))
        BY <1>4, <1>6, <2>2, <3>2, <3>4 DEF UpToDate
      <3>6. LastOf(h.log[c]) <= T /\ LastOf(h.log[c]) \in Nat
        <4>1. LastOf(h.log[c]) = 0 \/ \E i \in DOMAIN h.log[c] : LastOf(h.log[c]) = h.log[c][i].term
          BY DEF LastOf, TermOf
        <4>2. \A i \in DOMAIN h.log[c] : h.log[c][i].term <= h.term[c] /\ h.log[c][i].term \in Nat
          <5>1. Core(h)
            BY <1>1 DEF HistoryOf
          <5> QED BY <1>2, <3>3, <5>1, EntryAt DEF Core, ServerLogs
        <4> QED BY <1>2, <3>3, <4>1, <4>2
      <3>7. ASSUME NEW k \in Pos, NEW t \in Nat, Has(g.saved[s], k, t)
            PROVE  Has(g.log[c], k, t) \/ Lost(k, t, T, g)
        <4>1. Has(g.log[s], k, t)
          BY <1>13, <1>17, <3>7
        <4>2. FromLeaders(g.log[s], g) /\ FromLeaders(g.log[c], g)
          BY <1>2, <1>17 DEF ServerLogs
        <4>3. Has(g.log[c], k, t) \/ Lost(k, t, LastOf(g.log[c]), g)
          BY <1>3, <1>17, <3>3, <3>5, <4>1, <4>2, NewerHolds
        <4>4. Lost(k, t, LastOf(g.log[c]), g) => Lost(k, t, T, g)
          BY <1>2, <1>17, <3>6 DEF Lost
        <4> QED BY <4>3, <4>4
      <3>8. g.term[s] <= T
        BY <1>6, <1>7, <1>13, <2>2
      <3> QED BY <1>2, <1>17, <3>7, <3>8, OutdoneByDisk
    <2>3. VoteFits(n, g)'
      BY <2>1, <2>2 DEF VoteFits, RunsIn
    <2> QED BY <2>1, <2>3 DEF MessageFits, EntriesFit, SnapshotFits
  <1>19. \A n \in net' : n \in net \/ MessageFits(n, g)'
    BY <1>9, <1>18
  <1> QED BY <1>13, <1>14, <1>16, <1>19

\* The answer that m grants is counted for s, which runs.
LEMMA TallyGrows ==
  ASSUME Inv, NEW m \in net, m.type = "voted", m.ok, NEW s, s = m.to, m.term = rf[s].term,
         NEW C \in SUBSET Server, Tally(s, C)
  PROVE  LET D == C \cup {m.from}
         IN  /\ D \in SUBSET Server /\ s \in D /\ Elects(D, rf[s].term, s)
             /\ Cardinality(D) = rf[s].count + 1 /\ Cardinality(D) \in Nat
             /\ \A v \in D \ {s} : \A n \in net \ {m} : ~Open(n, s, v, rf[s].term)
  <1> DEFINE v == m.from
             t == rf[s].term
             D == C \cup {v}
  <1>1. s \in Server /\ v \in Server /\ s # v /\ t \in Nat
    BY ServerFacts DEF Inv, Types, IsMessage
  <1>2. <<v, t, s>> \in ballots
    BY DEF Inv, AskedOnce
  <1>3. Open(m, s, v, t)
    BY DEF Open
  <1>4. v \notin C
    BY <1>1, <1>3 DEF Tally
  <1>5. IsFiniteSet(C)
    BY Lab2DAssumption, FS_Subset
  <1>6. Cardinality(D) = Cardinality(C) + 1 /\ Cardinality(C) \in Nat
    BY <1>4, <1>5, FS_AddElement, FS_CardinalityType
  <1>7. D \in SUBSET Server /\ s \in D /\ Elects(D, t, s)
    BY <1>1, <1>2 DEF Tally, Elects
  <1>8. ASSUME NEW y \in D \ {s}, NEW n \in net \ {m} PROVE ~Open(n, s, y, t)
    <2>1. CASE y = v
      BY <1>1, <1>3, <2>1 DEF Inv, AskedOnce
    <2>2. CASE y \in C
      BY <1>8, <2>2 DEF Tally
    <2> QED BY <2>1, <2>2
  <1> QED BY <1>6, <1>7, <1>8 DEF Tally

\* With the answer, s has heard from a set of servers that do not bar it.
LEMMA HeardFrom ==
  ASSUME Inv, NEW h, HistoryOf(h), NEW m \in net, m.type = "voted", m.ok, NEW s, s = m.to,
         rf[s].role = "Candidate", m.term = rf[s].term
  PROVE  \E D \in SUBSET Server :
           /\ s \in D /\ Elects(D, rf[s].term, s)
           /\ Cardinality(D) = rf[s].count + 1 /\ Cardinality(D) \in Nat
           /\ \A v \in D \ {s} : \A n \in net \ {m} : ~Open(n, s, v, rf[s].term)
           /\ \A v \in D : Outdone(v, s, rf[s].term, h) /\ (v = s \/ rf[s].term <= h.term[v])
  <1> DEFINE T == rf[s].term
  <1>0. s \in Server /\ m.from \in Server /\ T \in Nat /\ VoteFits(m, h)
    BY MessageIs, ServerFacts
  <1>1. PICK C \in SUBSET Server : Tally(s, C) /\ \A w \in C : Outdone(w, s, T, h)
    BY <1>0 DEF HistoryOf, Runs
  <1> DEFINE D == C \cup {m.from}
  <1>2. /\ D \in SUBSET Server /\ s \in D /\ Elects(D, T, s)
        /\ Cardinality(D) = rf[s].count + 1 /\ Cardinality(D) \in Nat
        /\ \A v \in D \ {s} : \A n \in net \ {m} : ~Open(n, s, v, T)
    BY <1>1, TallyGrows
  <1>3. Outdone(m.from, s, T, h)
    BY <1>0 DEF VoteFits, RunsIn
  <1>4. ASSUME NEW v \in D PROVE Outdone(v, s, T, h) /\ (v = s \/ T <= h.term[v])
    <2>1. Outdone(v, s, T, h)
      BY <1>1, <1>3
    <2>2. ASSUME v # s PROVE T <= h.term[v]
      <3>1. <<v, T, s>> \in ballots /\ v \in Server
        BY <1>2, <2>2 DEF Elects
      <3>2. T <= disk[v].term
        BY <1>0, <3>1, VoterTerm
      <3> QED BY <3>1, <3>2, ServerIs
    <2> QED BY <2>1, <2>2
  <1> QED BY <1>2, <1>4

\* The indexes of leaders stay as they are.
IndexesKept == UNCHANGED <<nextIndex, matchIndex>>

\* KeepStep, of a step that leaves them alone and persists.
LEMMA SavedStep ==
  ASSUME Inv, Inv', NEW h, HistoryOf(h), NEW s \in Server, NEW q, IsRaft(q), Become(s, q),
         q.log = rf[s].log, q.commit = rf[s].commit, q.lastApplied = rf[s].lastApplied,
         q.role = rf[s].role, q.term = rf[s].term,
         IndexesKept, UNCHANGED <<snapshot, applied, elected, cmds, ballots>>, net' \subseteq net
  PROVE  \E g : Quiet(h, g) /\ (Runs(s, g)' => LogInv')
  <1>1. /\ nextIndex[s] \in [Server -> Nat] /\ matchIndex[s] \in [Server -> Nat]
        /\ nextIndex' = [nextIndex EXCEPT ![s] = nextIndex[s]]
        /\ matchIndex' = [matchIndex EXCEPT ![s] = matchIndex[s]]
    BY DEF HistoryOf, IndexesKept
  <1>2. PICK next \in [Server -> Nat], match \in [Server -> Nat] :
           /\ next = nextIndex[s] /\ match = matchIndex[s]
           /\ nextIndex' = [nextIndex EXCEPT ![s] = next] /\ matchIndex' = [matchIndex EXCEPT ![s] = match]
    BY <1>1
  <1>3. /\ rf' = [rf EXCEPT ![s] = q] /\ disk' \in {disk, [disk EXCEPT ![s] = Saved(q)]}
        /\ rf[s].term <= q.term /\ ballots \subseteq ballots' /\ UNCHANGED <<snapshot, applied, elected, cmds>>
        /\ \A v \in Server : NothingNew(v)
    BY ServerFacts DEF Become, NothingNew
  <1>4. PICK g : /\ Quiet(h, g)
                 /\ /\ Follows(q, next, match, s, g)
                    /\ Runs(s, g)' \/ (q.role = rf[s].role /\ q.term = rf[s].term /\ q.count = rf[s].count)
                    /\ \A m \in net' : m \in net \/ MessageFits(m, g)'
                    => LogInv'
    <2>1. /\ nextIndex' = [nextIndex EXCEPT ![s] = next]
          /\ matchIndex' = [matchIndex EXCEPT ![s] = match]
      BY <1>2
    <2> QED BY <1>3, <2>1, KeepStep
  <1>5. Follows(rf[s], next, match, s, h)
    BY <1>2, ServerIs
  <1>6. Follows(q, next, match, s, h)
    BY <1>5 DEF Follows
  <1>7. Follows(q, next, match, s, g)
    BY <1>4, <1>6, QuietFits
  <1> QED BY <1>4, <1>7

\* The answer is counted, and more are needed.
LEMMA CountFits ==
  ASSUME LogInv, Inv', NEW m \in net, VoteReply(m), NEW s, s = m.to, rf[s].role = "Candidate",
         m.term = rf[s].term, m.ok, Become(s, [rf[s] EXCEPT !.count = @ + 1]),
         IndexesKept, UNCHANGED elected
  PROVE  LogInv'
  <1> DEFINE T == rf[s].term
             q == [rf[s] EXCEPT !.count = @ + 1]
  <1>1. PICK h : HistoryOf(h) /\ Inv
    BY DEF LogInv
  <1>2. m.type = "voted" /\ s \in Server /\ net' = net \ {m} /\ UNCHANGED <<snapshot, applied, cmds, ballots>>
    BY <1>1, MessageIs DEF VoteReply, boundVars
  <1>3. IsRaft(rf[s]) /\ T \in Nat
    BY <1>1, <1>2, ServerIs
  <1>4. /\ q.role = "Candidate" /\ q.term = T /\ q.count = rf[s].count + 1
        /\ q.log = rf[s].log /\ q.commit = rf[s].commit /\ q.lastApplied = rf[s].lastApplied /\ IsRaft(q)
    <2>1. /\ rf[s] = [f \in Field |-> rf[s][f]] /\ rf[s].count \in Nat
      BY <1>3 DEF IsRaft
    <2>2. /\ q.role = rf[s].role /\ q.term = T /\ q.count = rf[s].count + 1 /\ q.vote = rf[s].vote
          /\ q.log = rf[s].log /\ q.commit = rf[s].commit /\ q.lastApplied = rf[s].lastApplied
          /\ q = [f \in Field |-> q[f]]
      BY <2>1 DEF Field
    <2> HIDE DEF q
    <2>3. IsRaft(q)
      BY <1>3, <2>1, <2>2 DEF IsRaft
    <2> QED BY <2>2, <2>3
  <1>5. /\ rf' = [rf EXCEPT ![s] = q] /\ disk' = [disk EXCEPT ![s] = Saved(q)]
    BY DEF Become
  <1> HIDE DEF q
  <1>8. PICK g : Quiet(h, g) /\ (Runs(s, g)' => LogInv')
    <2>1. IsRaft(q) /\ Become(s, q)
      BY <1>4 DEF q
    <2>2. /\ q.log = rf[s].log /\ q.commit = rf[s].commit /\ q.lastApplied = rf[s].lastApplied
          /\ q.role = rf[s].role /\ q.term = rf[s].term
      BY <1>4
    <2>3. IndexesKept /\ UNCHANGED <<snapshot, applied, elected, cmds, ballots>> /\ net' \subseteq net
      BY <1>2
    <2> QED BY <1>1, <1>2, <2>1, <2>2, <2>3, SavedStep
  <1>10. Runs(s, g)'
    <2>1. PICK D \in SUBSET Server :
             /\ s \in D /\ Elects(D, T, s)
             /\ Cardinality(D) = rf[s].count + 1
             /\ \A v \in D \ {s} : \A n \in net \ {m} : ~Open(n, s, v, T)
             /\ \A v \in D : Outdone(v, s, T, h)
      BY <1>1, <1>2, HeardFrom
    <2>2. rf'[s] = q /\ rf'[s].term = T
      BY <1>1, <1>2, <1>4, <1>5 DEF Inv, Types
    <2>3. Tally(s, D)'
      <3>1. s \in D /\ Cardinality(D) = rf'[s].count
        BY <1>4, <2>1, <2>2
      <3>2. \A v \in D \ {s} : <<v, T, s>> \in ballots'
        BY <1>2, <2>1 DEF Elects
      <3>3. \A v \in D \ {s} : \A n \in net' : ~Open(n, s, v, T)
        BY <1>2, <2>1
      <3> QED BY <2>2, <3>1, <3>2, <3>3 DEF Tally, Elects, Open
    <2>4. ASSUME NEW v \in D PROVE Outdone(v, s, T, g)
      <3>1. /\ Core(h) /\ Core(g) /\ IsHistory(g) /\ Grows(h, g) /\ g.log = h.log /\ g.acked = h.acked
        BY <1>1, <1>8 DEF Quiet, Core, HistoryOf
      <3> HIDE DEF T
      <3> QED BY <1>2, <1>3, <2>1, <3>1, OutdoneKept DEF T
    <2> HIDE DEF T
    <2> QED BY <2>2, <2>3, <2>4 DEF Runs
  <1> QED BY <1>8, <1>10

\* The history in which s takes office in term T with its log.
Elected(h, s, T) ==
  [led |-> [h.led EXCEPT ![T] = h.log[s]], acked |-> h.acked, sure |-> h.sure, log |-> h.log,
   saved |-> [h.saved EXCEPT ![s] = h.log[s]], term |-> [h.term EXCEPT ![s] = T],
   office |-> h.office \cup {<<T, s>>}]

\* Nobody leads the term in which s is elected.
LEMMA NobodyLed ==
  ASSUME Inv, Inv', NEW h, h.office = elected, NEW s \in Server, NEW T, T = rf[s].term,
         rf[s].role = "Candidate", elected' = elected \cup {<<T, s>>}
  PROVE  ~Led(T, h)
  <1> SUFFICES ASSUME NEW x \in Server, <<T, x>> \in elected PROVE FALSE
    BY DEF Led
  <1>1. NoSecondLeader'
    BY OneLeader, PTL
  <1>2. x = s
    <2>1. <<T, x>> \in elected' /\ <<T, s>> \in elected'
      OBVIOUS
    <2>2. PICK a \in elected', b \in elected' : a = <<T, x>> /\ b = <<T, s>>
      BY <2>1
    <2>3. a[1] = b[1] => a[2] = b[2]
      BY <1>1 DEF NoSecondLeader
    <2> QED BY <2>2, <2>3
  <1>3. T \in Nat
    BY ServerFacts
  <1> QED BY <1>2, <1>3 DEF Inv, OfficesKept

\* The history of an election.
LEMMA ElectedIs ==
  ASSUME NEW h, Core(h), Settled(h), NEW s \in Server, NEW T \in Nat, h.term[s] <= T, ~Led(T, h),
         NEW Q \in SUBSET Server, IsMajority(Q),
         \A v \in Q : Outdone(v, s, T, h) /\ (v = s \/ T <= h.term[v]),
         NEW g, g = Elected(h, s, T)
  PROVE  /\ Grows(h, g) /\ Core(g) /\ Settled(g) /\ IsHistory(g) /\ g.office = h.office \cup {<<T, s>>}
         /\ g.acked = h.acked /\ g.sure = h.sure /\ g.log = h.log /\ g.led[T] = h.log[s]
         /\ g.term[s] = T /\ g.saved[s] = h.log[s]
         /\ \A v \in Server \ {s} : g.term[v] = h.term[v] /\ g.saved[v] = h.saved[v]
         /\ \A t \in Nat \ {T} : g.led[t] = h.led[t]
  <1>0. IsHistory(h) /\ h.log[s] \in Log
    BY Parts DEF Core
  <1>1. /\ g.led = [h.led EXCEPT ![T] = h.log[s]] /\ g.acked = h.acked /\ g.sure = h.sure /\ g.log = h.log
        /\ g.saved = [h.saved EXCEPT ![s] = h.log[s]] /\ g.term = [h.term EXCEPT ![s] = T]
        /\ g.office = h.office \cup {<<T, s>>}
    BY DEF Elected
  <1>2. h.led \in [Nat -> Log] /\ h.saved \in [Server -> Log] /\ h.term \in [Server -> Nat]
    BY <1>0 DEF IsHistory
  <1>3. /\ g.led \in [Nat -> Log] /\ g.led[T] = h.log[s] /\ \A t \in Nat \ {T} : g.led[t] = h.led[t]
        /\ g.saved \in [Server -> Log] /\ g.saved[s] = h.log[s]
        /\ g.term \in [Server -> Nat] /\ g.term[s] = T
        /\ \A v \in Server \ {s} : g.term[v] = h.term[v] /\ g.saved[v] = h.saved[v]
    BY <1>0, <1>1, <1>2
  <1>4. IsHistory(g)
    BY <1>0, <1>1, <1>3 DEF IsHistory
  <1>5. Grows(h, g) /\ Core(g)
    BY <1>1, <1>3, <1>4, OfficeCore, SMTT(120)
  <1>6. Settled(g)
    BY <1>0, <1>1, <1>4, <1>5, SettledKept
  <1> QED BY <1>1, <1>3, <1>4, <1>5, <1>6

\* StoredKept, of a server that persists.
LEMMA PersistedKept ==
  ASSUME NEW h, NEW g, Core(h), IsHistory(g), Grows(h, g), NEW s \in Server, NEW r, NEW d, NEW q,
         Stored(r, d, s, h), Knows(r, s, h), r.term \in Nat, q.term \in Nat, d.term \in Nat, r.term <= q.term,
         q.log = r.log, q.commit = r.commit, q.lastApplied = r.lastApplied,
         g.log[s] = h.log[s], g.saved[s] = h.log[s], g.term[s] = q.term
  PROVE  Stored(q, Saved(q), s, g) /\ Knows(q, s, g) /\ Saved(q).log.base = d.log.base
  <1>1. PICK e : e = Saved(q)
    OBVIOUS
  <1>2. \/ e = d /\ g.saved[s] = h.saved[s] /\ g.term[s] = h.term[s]
        \/ e = Saved(q) /\ g.saved[s] = h.log[s] /\ g.term[s] = q.term
    BY <1>1
  <1>3. Stored(q, e, s, g) /\ Knows(q, s, g) /\ e.log.base = d.log.base
    BY <1>2, StoredKept
  <1> QED BY <1>1, <1>3

\* What is true of the server itself.
LEMMA ElectedFits ==
  ASSUME Inv, NEW h, HistoryOf(h), NEW s \in Server, NEW T \in Nat, T = rf[s].term,
         NEW g, Core(g), IsHistory(g), Grows(h, g), <<T, s>> \in g.office,
         g.log = h.log, g.led[T] = h.log[s], g.term[s] = T, g.saved[s] = h.log[s],
         NEW q, q.role = "Leader", q.term = T, q.log = rf[s].log, q.commit = rf[s].commit,
         q.lastApplied = rf[s].lastApplied,
         NEW next \in [Server -> Nat], \A f \in Server : next[f] = Len(h.log[s]) + 1,
         NEW match \in [Server -> Nat], \A f \in Server : match[f] = 0
  PROVE  /\ Stored(q, Saved(q), s, g) /\ Leads(q, Saved(q), s, g) /\ Knows(q, s, g)
         /\ Follows(q, next, match, s, g) /\ Executed(q, Saved(q), applied[s], snapshot[s], g)
  <1> DEFINE r == rf[s]
             d == disk[s]
  <1>1. /\ Core(h) /\ IsHistory(h) /\ r.term \in Nat /\ d.term \in Nat
        /\ Stored(r, d, s, h) /\ Knows(r, s, h) /\ Executed(r, d, applied[s], snapshot[s], h)
        /\ h.log[s] \in Log /\ h.sure \in Log /\ Len(h.log[s]) \in Nat /\ Remains(r.log, h.log[s], h.sure)
    BY ServerIs
  <1>3. /\ r.term <= q.term /\ q.term \in Nat /\ q.log = r.log /\ q.commit = r.commit
        /\ q.lastApplied = r.lastApplied /\ g.log[s] = h.log[s]
        /\ g.saved[s] = h.log[s] /\ g.term[s] = q.term /\ Saved(q).term = T
    BY DEF Saved
  <1>4. Follows(q, next, match, s, g)
    <2>3. \A f \in Server : 0 <= g.acked[s][T] /\ 0 <= g.acked[f][T]
      <3>1. \A f \in Server : g.acked[f][T] \in Nat
        BY Parts
      <3> QED BY <3>1
    <2>4. \A f \in Server : next[f] <= Len(g.log[s]) + 1
      BY <1>1
    <2> QED BY <2>3, <2>4 DEF Follows
  <1> HIDE DEF r, d
  <1>5. Stored(q, Saved(q), s, g) /\ Knows(q, s, g) /\ Saved(q).log.base = d.log.base
    BY <1>1, <1>3, PersistedKept
  <1>6. Executed(q, Saved(q), applied[s], snapshot[s], g)
    BY <1>1, <1>3, <1>5, ExecutedKept
  <1>7. Leads(q, Saved(q), s, g)
    BY <1>3 DEF Leads
  <1> QED BY <1>4, <1>5, <1>6, <1>7

\* The answer makes a majority: the server takes office.
LEMMA WinFits ==
  ASSUME LogInv, Inv', NEW m \in net, VoteReply(m), NEW s, s = m.to, rf[s].role = "Candidate",
         m.term = rf[s].term, m.ok, 2 * (rf[s].count + 1) > Cardinality(Server),
         ConvertToLeader(s, [rf[s] EXCEPT !.count = @ + 1])
  PROVE  LogInv'
  <1> DEFINE T == rf[s].term
             r == [rf[s] EXCEPT !.count = @ + 1]
             q == [r EXCEPT !.role = "Leader"]
             next == [f \in Server |-> LastIndex(r.log) + 1]
             match == [f \in Server |-> 0]
  <1>1. PICK h : HistoryOf(h) /\ Inv
    BY DEF LogInv
  <1>2. /\ m.type = "voted" /\ s \in Server /\ m.from \in Server /\ m.from # s
        /\ net' = net \ {m} /\ UNCHANGED <<snapshot, applied, cmds, ballots>>
    BY <1>1, MessageIs DEF VoteReply, boundVars
  <1>3. /\ IsRaft(rf[s]) /\ T \in Nat /\ Core(h) /\ Settled(h) /\ h.office = elected
        /\ h.log[s] \in Log /\ h.sure \in Log /\ Remains(rf[s].log, h.log[s], h.sure) /\ Len(h.log[s]) \in Nat
        /\ h.term[s] <= T
    BY <1>1, <1>2, ServerIs
  <1>4. /\ q.role = "Leader" /\ q.term = T
        /\ q.log = rf[s].log /\ q.commit = rf[s].commit /\ q.lastApplied = rf[s].lastApplied
        /\ r.term = T /\ r.log = rf[s].log
    <2>1. rf[s] = [f \in Field |-> rf[s][f]]
      BY <1>3 DEF IsRaft
    <2> QED BY <2>1 DEF Field
  <1>5. /\ rf' = [rf EXCEPT ![s] = q] /\ disk' = [disk EXCEPT ![s] = Saved(q)]
        /\ nextIndex' = [nextIndex EXCEPT ![s] = next] /\ matchIndex' = [matchIndex EXCEPT ![s] = match]
        /\ elected' = elected \cup {<<T, s>>}
    BY <1>4 DEF ConvertToLeader, Become
  <1>6. LastIndex(r.log) = Len(h.log[s])
    <2>1. LastIndex(rf[s].log) = Len(h.log[s])
      BY <1>3, ReadLog
    <2> QED BY <1>4, <2>1
  <1> HIDE DEF r
  <1>7. next \in [Server -> Nat] /\ match \in [Server -> Nat]
        /\ \A f \in Server : next[f] = Len(h.log[s]) + 1 /\ match[f] = 0
    BY <1>3, <1>6
  <1> HIDE DEF next, match, q, T
  <1>8. ~Led(T, h)
    BY <1>1, <1>2, <1>3, <1>5, NobodyLed DEF T
  <1>9. PICK Q \in SUBSET Server :
           /\ IsMajority(Q) /\ \A v \in Q : Outdone(v, s, T, h) /\ (v = s \/ T <= h.term[v])
    <2>1. PICK D \in SUBSET Server :
             /\ Cardinality(D) = rf[s].count + 1
             /\ \A v \in D : Outdone(v, s, rf[s].term, h) /\ (v = s \/ rf[s].term <= h.term[v])
      BY <1>1, <1>2, HeardFrom
    <2> QED BY <2>1 DEF T, IsMajority
  <1>10. PICK g : g = Elected(h, s, T)
    OBVIOUS
  <1>11. /\ Grows(h, g) /\ Core(g) /\ Settled(g) /\ IsHistory(g) /\ g.office = h.office \cup {<<T, s>>}
         /\ g.acked = h.acked /\ g.sure = h.sure /\ g.log = h.log /\ g.led[T] = h.log[s]
         /\ g.term[s] = T /\ g.saved[s] = h.log[s]
         /\ \A v \in Server \ {s} : g.term[v] = h.term[v] /\ g.saved[v] = h.saved[v]
         /\ \A t \in Nat \ {T} : g.led[t] = h.led[t]
    BY <1>2, <1>3, <1>8, <1>9, <1>10, ElectedIs
  <1>12. /\ Stored(q, Saved(q), s, g) /\ Leads(q, Saved(q), s, g) /\ Knows(q, s, g)
         /\ Follows(q, next, match, s, g) /\ Executed(q, Saved(q), applied[s], snapshot[s], g)
    <2>1. <<T, s>> \in g.office /\ T = rf[s].term
      BY <1>11 DEF T
    <2>2. /\ q.role = "Leader" /\ q.term = T
          /\ q.log = rf[s].log /\ q.commit = rf[s].commit /\ q.lastApplied = rf[s].lastApplied
      BY <1>4
    <2>3. /\ Core(g) /\ IsHistory(g) /\ Grows(h, g)
          /\ g.log = h.log /\ g.led[T] = h.log[s] /\ g.term[s] = T /\ g.saved[s] = h.log[s]
      BY <1>11
    <2>4. s \in Server /\ T \in Nat
      BY <1>2, <1>3
    <2> QED BY <1>1, <1>7, <2>1, <2>2, <2>3, <2>4, ElectedFits, SMTT(120)
  <1>13. /\ rf'[s] = q /\ disk'[s] = Saved(q)
         /\ \A v \in Server \ {s} : rf'[v] = rf[v] /\ disk'[v] = disk[v]
    BY <1>1, <1>2, <1>5 DEF Inv, Types
  <1>14. /\ nextIndex'[s] = next /\ matchIndex'[s] = match
         /\ \A v \in Server \ {s} : nextIndex'[v] = nextIndex[v] /\ matchIndex'[v] = matchIndex[v]
         /\ Shapes'
    <2>1. nextIndex \in [Server -> [Server -> Nat]] /\ matchIndex \in [Server -> [Server -> Nat]]
          /\ snapshot = [v \in Server |-> snapshot[v]] /\ applied = [v \in Server |-> applied[v]] /\ cmds \in Nat
      BY <1>1 DEF HistoryOf
    <2>2. /\ nextIndex'[s] = next /\ matchIndex'[s] = match
          /\ \A v \in Server \ {s} : nextIndex'[v] = nextIndex[v] /\ matchIndex'[v] = matchIndex[v]
          /\ nextIndex' \in [Server -> [Server -> Nat]] /\ matchIndex' \in [Server -> [Server -> Nat]]
      BY <1>2, <1>5, <1>7, <2>1
    <2> QED BY <1>2, <2>1, <2>2 DEF Shapes
  <1>15. ServerFits(s, g)'
    BY <1>2, <1>12, <1>13, <1>14 DEF ServerFits
  <1>16. ASSUME NEW v \in Server \ {s} PROVE Apart(v, h, g)
    <2>1. rf[v].role = "Leader" => g.led[rf[v].term] = h.led[rf[v].term]
      <3>1. rf[v].role = "Leader" => Led(rf[v].term, h) /\ rf[v].term \in Nat
        BY <1>1, ServerIs
      <3> QED BY <1>8, <1>11, <3>1
    <2> QED BY <1>2, <1>11, <1>13, <1>14, <2>1 DEF Apart
  <1>17. Runs(s, g)' /\ rf'[s].role # "Candidate"
    BY <1>4, <1>13 DEF Runs
  <1>18. \A v \in Server : NothingNew(v)
    BY <1>2 DEF NothingNew
  <1>19. g.office = elected' /\ ballots \subseteq ballots' /\ (\E v, u \in Server : v # u)
         /\ \A n \in net' : n \in net
    BY <1>2, <1>3, <1>5, <1>11
  <1>20. HistoryOf(g)'
    BY <1>1, <1>2, <1>11, <1>14, <1>15, <1>16, <1>17, <1>18, <1>19, GoesOn
  <1> QED BY <1>20 DEF LogInv

\* An answer to a candidate.
LEMMA AnswerFits ==
  ASSUME LogInv, Inv', NEW m \in net, VoteReply(m)
  PROVE  LogInv'
  <1> DEFINE s == m.to
             r == rf[s]
             counted == [r EXCEPT !.count = @ + 1]
  <1>1. PICK h : HistoryOf(h) /\ Inv
    BY DEF LogInv
  <1>2. /\ m.type = "voted" /\ s \in Server /\ m.rterm \in Nat /\ m.ok \in BOOLEAN
        /\ net' = net \ {m} /\ UNCHANGED <<snapshot, applied, cmds, ballots>>
    BY <1>1, MessageIs DEF VoteReply, boundVars, IsMessage, Requests
  <1>3. IsRaft(r) /\ r.term \in Nat /\ r.count \in Nat
    BY <1>1, <1>2, ServerIs DEF IsRaft
  <1>4. \/ Become(s, r) /\ UNCHANGED <<nextIndex, matchIndex, elected>>
        \/ /\ m.rterm > r.term /\ Become(s, ConvertToFollower(r, m.rterm))
           /\ UNCHANGED <<nextIndex, matchIndex, elected>>
        \/ /\ r.role = "Candidate" /\ m.term = r.term /\ m.ok
           /\ \/ 2 * counted.count > Cardinality(Server) /\ ConvertToLeader(s, counted)
              \/ Become(s, counted) /\ UNCHANGED <<nextIndex, matchIndex, elected>>
    BY DEF VoteReply
  <1>5. CASE Become(s, r) /\ UNCHANGED <<nextIndex, matchIndex, elected>>
    <2>1. Stays(r, r) /\ Goes(s, r) /\ UNCHANGED historyVars
      BY <1>1, <1>2, <1>5, SameStays, BecomeGoes DEF historyVars
    <2> QED BY <1>1, <1>2, <1>3, <1>5, <2>1, SameIndexes
  <1>6. CASE /\ m.rterm > r.term /\ Become(s, ConvertToFollower(r, m.rterm))
             /\ UNCHANGED <<nextIndex, matchIndex, elected>>
    <2> DEFINE q == ConvertToFollower(r, m.rterm)
    <2>1. IsRaft(q) /\ Stays(r, q) /\ q.log = r.log /\ q.commit = r.commit /\ q.lastApplied = r.lastApplied
      <3>1. IsRaft(q) /\ Stays(r, q)
        BY <1>2, <1>3, <1>6, FollowerFields DEF Stays
      <3>2. q.log = r.log /\ q.commit = r.commit /\ q.lastApplied = r.lastApplied
        <4> HIDE DEF r
        <4> QED BY <1>3, FollowersSame
      <3> QED BY <3>1, <3>2
    <2>2. Goes(s, q) /\ UNCHANGED historyVars
      BY <1>2, <1>6, BecomeGoes DEF historyVars
    <2> HIDE DEF q
    <2> QED BY <1>1, <1>2, <1>6, <2>1, <2>2, SameIndexes
  <1>7. CASE /\ r.role = "Candidate" /\ m.term = r.term /\ m.ok
             /\ 2 * counted.count > Cardinality(Server) /\ ConvertToLeader(s, counted)
    <2>1. counted.count = r.count + 1
      <3>1. r = [f \in Field |-> r[f]]
        BY <1>3 DEF IsRaft
      <3> QED BY <3>1 DEF Field
    <2> QED BY <1>7, <2>1, WinFits
  <1>8. CASE /\ r.role = "Candidate" /\ m.term = r.term /\ m.ok
             /\ Become(s, counted) /\ UNCHANGED <<nextIndex, matchIndex, elected>>
    BY <1>8, CountFits DEF IndexesKept
  <1> QED BY <1>4, <1>5, <1>6, <1>7, <1>8

-----------------------------------------------------------------------------
(* Steps that change a log, or the positions in it. *)

\* What remains true of a server whose log is as before.
LEMMA StillFits ==
  ASSUME Inv, NEW h, HistoryOf(h), NEW g, IsHistory(g), Grows(h, g), NEW s \in Server,
         g.log[s] = h.log[s], g.saved[s] = h.saved[s], g.term[s] = h.term[s]
  PROVE  /\ Stored(rf[s], disk[s], s, g) /\ Knows(rf[s], s, g)
         /\ Follows(rf[s], nextIndex[s], matchIndex[s], s, g)
         /\ Executed(rf[s], disk[s], applied[s], snapshot[s], g)
  <1>1. PICK r, d, next, match, state, old :
           /\ r = rf[s] /\ d = disk[s] /\ next = nextIndex[s] /\ match = matchIndex[s]
           /\ state = applied[s] /\ old = snapshot[s]
    OBVIOUS
  <1>2. /\ Core(h) /\ IsHistory(h) /\ r.term \in Nat /\ d.term \in Nat
        /\ Stored(r, d, s, h) /\ Knows(r, s, h) /\ Follows(r, next, match, s, h)
        /\ Executed(r, d, state, old, h) /\ Len(h.log[s]) \in Nat
    BY <1>1, ServerIs
  <1>3. /\ r.log = r.log /\ r.commit = r.commit /\ r.lastApplied = r.lastApplied /\ r.term <= r.term
        /\ Len(h.log[s]) <= Len(g.log[s])
    BY <1>2
  <1>4. Stored(r, d, s, g) /\ Knows(r, s, g)
    BY <1>2, <1>3, StoredKept
  <1>5. Follows(r, next, match, s, g)
    BY <1>2, <1>3, FollowsKept
  <1>6. Executed(r, d, state, old, g)
    BY <1>2, <1>3, ExecutedKept
  <1> QED BY <1>1, <1>4, <1>5, <1>6

\* A step of server s alone, to history g: what others have to do with it ...
Advances(h, g, s) ==
  /\ Core(g) /\ Settled(g) /\ Grows(h, g) /\ g.office = h.office
  /\ \A v \in Server \ {s} :
       /\ g.term[v] = h.term[v] /\ g.log[v] = h.log[v] /\ g.saved[v] = h.saved[v] /\ g.acked[v] = h.acked[v]
       /\ rf[v].role = "Leader" => g.led[rf[v].term] = h.led[rf[v].term]
\* ... what it changes ...
Sets(s, q, e, next, match, state, old) ==
  /\ rf' = [rf EXCEPT ![s] = q] /\ disk' = [disk EXCEPT ![s] = e]
  /\ next \in [Server -> Nat] /\ match \in [Server -> Nat]
  /\ nextIndex' = [nextIndex EXCEPT ![s] = next] /\ matchIndex' = [matchIndex EXCEPT ![s] = match]
  /\ applied' = [applied EXCEPT ![s] = state] /\ snapshot' = [snapshot EXCEPT ![s] = old]
  /\ cmds' \in Nat /\ UNCHANGED historyVars
\* ... what is true of s after it ...
AllFit(q, e, next, match, state, old, s, g) ==
  /\ Stored(q, e, s, g) /\ Leads(q, e, s, g) /\ Knows(q, s, g) /\ Follows(q, next, match, s, g)
  /\ Executed(q, e, state, old, g)
\* ... that it runs only if it did ...
Continues(s, q, h, g) ==
  q.role = "Candidate" => /\ rf[s].role = "Candidate" /\ q.term = rf[s].term /\ q.count = rf[s].count
                          /\ g.log[s] = h.log[s] /\ g.acked[s] = h.acked[s]
\* ... and the new messages.
NewFit(g) ==
  /\ \A v \in Server : NothingNew(v)
  /\ \A m \in net' : m \in net \/ MessageFits(m, g)'

\* A step of one server that changes its log, its office or its snapshot.
LEMMA ChangeStep ==
  ASSUME Inv, Inv', NEW h, HistoryOf(h), NEW g, NEW s \in Server, NEW q, NEW e, NEW next, NEW match,
         NEW state, NEW old, Advances(h, g, s), Sets(s, q, e, next, match, state, old),
         AllFit(q, e, next, match, state, old, s, g), Continues(s, q, h, g), NewFit(g)
  PROVE  LogInv'
  <1>0. /\ next \in [Server -> Nat] /\ match \in [Server -> Nat]
        /\ rf' = [rf EXCEPT ![s] = q] /\ disk' = [disk EXCEPT ![s] = e]
        /\ nextIndex' = [nextIndex EXCEPT ![s] = next] /\ matchIndex' = [matchIndex EXCEPT ![s] = match]
        /\ applied' = [applied EXCEPT ![s] = state] /\ snapshot' = [snapshot EXCEPT ![s] = old]
        /\ cmds' \in Nat /\ UNCHANGED historyVars
    BY DEF Sets
  <1>1. /\ nextIndex \in [Server -> [Server -> Nat]] /\ matchIndex \in [Server -> [Server -> Nat]]
        /\ snapshot = [v \in Server |-> snapshot[v]] /\ applied = [v \in Server |-> applied[v]]
        /\ rf = [v \in Server |-> rf[v]] /\ disk = [v \in Server |-> disk[v]]
    BY DEF HistoryOf, Inv, Types
  <1>2. /\ rf'[s] = q /\ disk'[s] = e /\ nextIndex'[s] = next /\ matchIndex'[s] = match
        /\ applied'[s] = state /\ snapshot'[s] = old
    BY <1>0, <1>1
  <1>3. \A v \in Server \ {s} : /\ rf'[v] = rf[v] /\ disk'[v] = disk[v]
                                /\ nextIndex'[v] = nextIndex[v] /\ matchIndex'[v] = matchIndex[v]
                                /\ applied'[v] = applied[v] /\ snapshot'[v] = snapshot[v]
    BY <1>0, <1>1
  <1>4. Shapes'
    BY <1>0, <1>1 DEF Shapes
  <1>5. ServerFits(s, g)'
    BY <1>2 DEF ServerFits, AllFit
  <1>6. \A v \in Server \ {s} : Apart(v, h, g)
    BY <1>3 DEF Apart, Advances
  <1>7. Runs(s, g)' \/ (StillRuns(s, h, g) /\ rf'[s].count = rf[s].count)
    <2>1. q.role # "Candidate" => Runs(s, g)'
      BY <1>2 DEF Runs
    <2> QED BY <1>2, <2>1 DEF StillRuns, Continues
  <1>8. rf'[s].role = "Candidate" => StillRuns(s, h, g) \/ rf[s].term < rf'[s].term
    BY <1>2 DEF StillRuns, Continues
  <1>9. elected' = elected /\ ballots \subseteq ballots' /\ g.office = elected'
    BY <1>0 DEF historyVars, HistoryOf, Advances
  <1>10. HistoryOf(g)'
    <2>1. Core(g) /\ Settled(g) /\ Grows(h, g) /\ g.office = elected'
      BY <1>9 DEF Advances
    <2>2. (\A v \in Server : NothingNew(v)) /\ \A m \in net' : m \in net \/ MessageFits(m, g)'
      BY DEF NewFit
    <2> QED BY <1>4, <1>5, <1>6, <1>7, <1>8, <1>9, <2>1, <2>2, GoesOn
  <1> QED BY <1>10 DEF LogInv

\* An entry is appended to what is left of a log.
LEMMA AppendRemains ==
  ASSUME NEW l, NEW p \in Log, NEW c, Remains(l, p, c), NEW e \in Entry
  PROVE  LET k == [l EXCEPT !.ents = Append(@, e)]
             r == Append(p, e)
         IN  /\ Remains(k, r, c) /\ k.base = l.base /\ k.bterm = l.bterm
             /\ Longer(p, e, r) /\ r \in Log
  <1> DEFINE k == [l EXCEPT !.ents = Append(@, e)]
             r == Append(p, e)
             x == Append(l.ents, e)
  <1>1. /\ l.base \in Nat /\ l.bterm \in Nat /\ l.ents \in Log
        /\ l = [base |-> l.base, bterm |-> l.bterm, ents |-> l.ents]
        /\ Len(p) = l.base + Len(l.ents) /\ Len(l.ents) \in Nat /\ Len(p) \in Nat
    BY LogLen DEF Remains, IsLog
  <1>2. k = [base |-> l.base, bterm |-> l.bterm, ents |-> x]
    <2>1. PICK b, t, n : l = [base |-> b, bterm |-> t, ents |-> n]
      BY <1>1
    <2>2. l.base = b /\ l.bterm = t /\ l.ents = n
      BY <2>1
    <2> QED BY <2>1, <2>2
  <1>3. /\ r \in Log /\ Len(r) = Len(p) + 1 /\ r[Len(p) + 1] = e /\ \A i \in 1 .. Len(p) : r[i] = p[i]
    BY DEF Log
  <1>4. /\ x \in Log /\ Len(x) = Len(l.ents) + 1 /\ x[Len(l.ents) + 1] = e
        /\ \A i \in 1 .. Len(l.ents) : x[i] = l.ents[i]
    BY <1>1 DEF Log
  <1> HIDE DEF r, x, k
  <1>5. k.base = l.base /\ k.bterm = l.bterm /\ k.ents = x
    BY <1>2
  <1>6. IsLog(k)
    BY <1>1, <1>2, <1>4, <1>5 DEF IsLog
  <1>7. ASSUME NEW i \in DOMAIN x PROVE r[l.base + i] = x[i]
    <2>1. i \in 1 .. Len(l.ents) + 1
      BY <1>1, <1>4, EntryAt DEF Pos
    <2>2. CASE i = Len(l.ents) + 1
      BY <1>1, <1>3, <1>4, <2>2
    <2>3. CASE i # Len(l.ents) + 1
      <3>1. i \in 1 .. Len(l.ents) /\ i \in DOMAIN l.ents
        BY <1>1, <2>1, <2>3, EntryAt DEF Pos
      <3>2. l.base + i \in 1 .. Len(p)
        BY <1>1, <3>1
      <3> QED BY <1>3, <1>4, <3>1, <3>2 DEF Remains
    <2> QED BY <2>2, <2>3
  <1>8. Len(r) = l.base + Len(x) /\ Len(r) # l.base
    BY <1>1, <1>3, <1>4
  <1>9. Remains(k, r, c)
    BY <1>5, <1>6, <1>7, <1>8 DEF Remains
  <1>10. Longer(p, e, r)
    BY <1>3 DEF Longer
  <1> QED BY <1>3, <1>5, <1>9, <1>10 DEF r, k

\* A history grows into itself.
LEMMA GrowsSame ==
  ASSUME NEW h, Core(h)
  PROVE  Grows(h, h)
  <1>1. IsHistory(h)
    BY DEF Core
  <1>2. \A s \in Server : h.term[s] <= h.term[s]
    BY <1>1, Parts
  <1>3. Agree(h.sure, h.sure, Len(h.sure))
    BY <1>1, AgreeZero DEF IsHistory
  <1> QED BY <1>1, <1>2, <1>3, QuietCore

\* A server goes on to commit or to apply more; perhaps more is committed.
MoreSure(h, g) ==
  /\ Core(g) /\ Settled(g) /\ Grows(h, g) /\ g.office = h.office
  /\ g.led = h.led /\ g.acked = h.acked /\ g.log = h.log /\ g.saved = h.saved /\ g.term = h.term

\* The step commits or applies, and changes nothing else.
Progress(s, q, state) ==
  /\ BecomeUnsaved(s, q) /\ q.role = rf[s].role /\ q.term = rf[s].term /\ q.count = rf[s].count /\ q.log = rf[s].log
  /\ applied' = [applied EXCEPT ![s] = state]
  /\ UNCHANGED <<snapshot, nextIndex, matchIndex, net, cmds, historyVars>>

\* Such a step keeps the invariant.
LEMMA ProgressStep ==
  ASSUME Inv, Inv', NEW h, HistoryOf(h), NEW g, MoreSure(h, g), NEW s \in Server, NEW q, NEW state,
         Progress(s, q, state),
         q.commit \in Nat, q.lastApplied \in Nat, rf[s].log.base <= q.lastApplied,
         Sure(Known(q), rf[s].term, g), Known(q) > rf[s].log.base => Agree(h.log[s], g.sure, Known(q)),
         state = Commands(g.sure, q.lastApplied)
  PROVE  LogInv'
  <1>0. /\ rf' = [rf EXCEPT ![s] = q] /\ disk' = disk
        /\ q.role = rf[s].role /\ q.term = rf[s].term /\ q.count = rf[s].count /\ q.log = rf[s].log
        /\ applied' = [applied EXCEPT ![s] = state] /\ UNCHANGED historyVars
        /\ snapshot' = snapshot /\ nextIndex' = nextIndex /\ matchIndex' = matchIndex /\ net' = net /\ cmds' = cmds
    BY DEF Progress, BecomeUnsaved
  <1>1. PICK r, d, next, match, old :
           r = rf[s] /\ d = disk[s] /\ next = nextIndex[s] /\ match = matchIndex[s] /\ old = snapshot[s]
    OBVIOUS
  <1>2. /\ IsHistory(g) /\ Core(g) /\ Grows(h, g) /\ Leads(r, d, s, h)
        /\ g.log = h.log /\ g.saved = h.saved /\ g.term = h.term /\ g.led = h.led /\ g.office = h.office
    BY <1>1, ServerIs DEF Core, MoreSure
  <1>3. Stored(r, d, s, g) /\ Follows(r, next, match, s, g) /\ Executed(r, d, applied[s], old, g)
    BY <1>1, <1>2, StillFits
  <1>4. AllFit(q, d, next, match, state, old, s, g)
    <2>1. Stored(q, d, s, g)
      BY <1>0, <1>1, <1>3 DEF Stored
    <2>2. Leads(q, d, s, g)
      BY <1>0, <1>1, <1>2 DEF Leads
    <2>3. Knows(q, s, g)
      BY <1>0, <1>1, <1>2 DEF Knows
    <2>4. Follows(q, next, match, s, g)
      BY <1>0, <1>1, <1>3 DEF Follows
    <2>5. Executed(q, d, state, old, g)
      BY <1>3 DEF Executed
    <2> QED BY <2>1, <2>2, <2>3, <2>4, <2>5 DEF AllFit
  <1>5. Sets(s, q, d, next, match, state, old)
    <2>1. nextIndex \in [Server -> [Server -> Nat]] /\ matchIndex \in [Server -> [Server -> Nat]] /\ cmds \in Nat
          /\ snapshot = [v \in Server |-> snapshot[v]] /\ disk = [v \in Server |-> disk[v]]
      BY DEF HistoryOf, Inv, Types
    <2>2. /\ next \in [Server -> Nat] /\ match \in [Server -> Nat] /\ cmds' \in Nat
          /\ nextIndex' = [nextIndex EXCEPT ![s] = next] /\ matchIndex' = [matchIndex EXCEPT ![s] = match]
      BY <1>0, <1>1, <2>1
    <2>3. snapshot' = [snapshot EXCEPT ![s] = old] /\ disk' = [disk EXCEPT ![s] = d]
      BY <1>0, <1>1, <2>1
    <2> QED BY <1>0, <2>2, <2>3 DEF Sets
  <1>6. NewFit(g)
    BY <1>0, NothingAsked DEF NewFit
  <1>7. Advances(h, g, s)
    BY DEF MoreSure, Advances
  <1>8. Continues(s, q, h, g)
    BY <1>0 DEF Continues, MoreSure
  <1> QED BY <1>4, <1>5, <1>6, <1>7, <1>8, ChangeStep

\* What is applied is committed.
LEMMA ApplyFits ==
  ASSUME LogInv, Inv', NEW s \in Server, applyLog(s)
  PROVE  LogInv'
  <1>1. PICK h : HistoryOf(h) /\ Inv
    BY DEF LogInv
  <1>2. PICK r, state, q :
           /\ r = rf[s] /\ q = [r EXCEPT !.lastApplied = r.commit]
           /\ state = applied[s] \o [k \in 1 .. r.commit - r.lastApplied |-> CmdAt(r.log, r.lastApplied + k)]
    OBVIOUS
  <1>3. /\ r.commit > r.lastApplied /\ BecomeUnsaved(s, q) /\ applied' = [applied EXCEPT ![s] = state]
        /\ UNCHANGED <<snapshot, nextIndex, matchIndex, net, cmds, historyVars>>
    BY <1>2 DEF applyLog, boundVars
  <1>4. /\ Core(h) /\ Settled(h) /\ IsRaft(r) /\ h.log[s] \in Log /\ h.sure \in Log /\ Len(h.sure) \in Nat
        /\ Len(h.log[s]) \in Nat /\ Remains(r.log, h.log[s], h.sure) /\ applied[s] = Commands(h.sure, r.lastApplied)
    BY <1>1, <1>2, ServerIs DEF Executed
  <1>5. /\ r.commit \in Nat /\ r.lastApplied \in Nat /\ r.log.base \in Nat /\ r.log.base <= r.lastApplied
    BY <1>1, <1>2, KnownIs, ServerIs
  <1>6. Known(r) = r.commit
    BY <1>1, <1>2, <1>3, <1>5, KnownIs
  <1>7. Sure(r.commit, r.term, h) /\ r.commit <= Len(h.sure) /\ Agree(h.log[s], h.sure, r.commit)
    BY <1>1, <1>2, <1>3, <1>5, <1>6, KnownIs
  <1>8. /\ q.role = r.role /\ q.term = r.term /\ q.count = r.count /\ q.log = r.log /\ q.commit = r.commit
        /\ q.lastApplied = r.commit
    BY <1>2, <1>4 DEF IsRaft, Field
  <1>9. Known(q) = r.commit
    BY <1>5, <1>8 DEF Known, Larger
  <1>10. state = Commands(h.sure, r.commit)
    <2>1. ASSUME NEW k \in 1 .. r.commit - r.lastApplied
          PROVE  CmdAt(r.log, r.lastApplied + k) = h.sure[r.lastApplied + k].cmd
      <3>1. /\ r.lastApplied + k \in Nat /\ r.log.base < r.lastApplied + k /\ r.lastApplied + k \in 1 .. r.commit
            /\ r.lastApplied + k <= Len(h.log[s])
        BY <1>3, <1>5, <1>7 DEF Agree
      <3>2. CmdAt(r.log, r.lastApplied + k) = h.log[s][r.lastApplied + k].cmd
        BY <1>4, <3>1, ReadLog
      <3> QED BY <1>7, <3>1, <3>2 DEF Agree
    <2>2. PICK n \in Nat, x \in Nat : n = r.lastApplied /\ x = r.commit - r.lastApplied /\ n + x = r.commit
      BY <1>3, <1>5
    <2>3. state = Commands(h.sure, n) \o [k \in 1 .. x |-> h.sure[n + k].cmd]
      BY <1>2, <1>4, <2>1, <2>2
    <2>4. PICK c : c = [i \in 1 .. n + x |-> h.sure[i].cmd]
      OBVIOUS
    <2>5. Commands(h.sure, n) = [i \in 1 .. n |-> h.sure[i].cmd] /\ c = Commands(h.sure, r.commit)
      BY <2>2, <2>4 DEF Commands
    <2>6. [i \in 1 .. n |-> h.sure[i].cmd] \o [k \in 1 .. x |-> h.sure[n + k].cmd] = c
      <3>1. PICK l, k : l = [i \in 1 .. n |-> h.sure[i].cmd] /\ k = [i \in 1 .. x |-> h.sure[n + i].cmd]
        OBVIOUS
      <3>2. \A i \in 1 .. n + x : h.sure[i].cmd \in Nat
        BY <1>4, <1>7, <2>2, EntryAt DEF Pos
      <3>3. l \in Seq(Nat) /\ k \in Seq(Nat) /\ c \in Seq(Nat) /\ Len(l) = n /\ Len(k) = x /\ Len(c) = n + x
        <4>1. (\A i \in 1 .. n : h.sure[i].cmd \in Nat) /\ \A i \in 1 .. x : h.sure[n + i].cmd \in Nat
          BY <2>2, <3>2
        <4>2. l \in [1 .. n -> Nat] /\ k \in [1 .. x -> Nat] /\ c \in [1 .. n + x -> Nat] /\ n + x \in Nat
          BY <2>2, <2>4, <3>1, <3>2, <4>1
        <4>3. \A y \in Nat : \A z \in [1 .. y -> Nat] : z \in Seq(Nat) /\ Len(z) = y
          OBVIOUS
        <4> QED BY <2>2, <4>2, <4>3
      <3>4. \A i \in 1 .. n + x : i <= n => l[i] = h.sure[i].cmd
        BY <2>2, <3>1
      <3>5. \A i \in 1 .. n + x : ~(i <= n) => k[i - n] = h.sure[i].cmd
        <4>1. \A i \in 1 .. n + x : ~(i <= n) => i - n \in 1 .. x /\ n + (i - n) = i
          BY <2>2
        <4> QED BY <3>1, <4>1
      <3>6. /\ l \o k \in Seq(Nat) /\ Len(l \o k) = n + x
            /\ \A i \in 1 .. n + x : (l \o k)[i] = IF i <= n THEN l[i] ELSE k[i - n]
        BY <3>3, ConcatProperties
      <3>7. \A i \in 1 .. n + x : (l \o k)[i] = c[i]
        BY <2>4, <3>4, <3>5, <3>6
      <3>8. l \o k = c
        BY <3>3, <3>6, <3>7, SeqEqual
      <3> QED BY <3>1, <3>8
    <2> QED BY <2>3, <2>5, <2>6
  <1>11. MoreSure(h, h)
    BY <1>4, GrowsSame DEF MoreSure
  <1>12. Progress(s, q, state)
    BY <1>2, <1>3, <1>8 DEF Progress
  <1>13. Sure(Known(q), rf[s].term, h) /\ Agree(h.log[s], h.sure, Known(q))
    BY <1>2, <1>7, <1>9
  <1>14. /\ state = Commands(h.sure, q.lastApplied) /\ q.commit \in Nat /\ q.lastApplied \in Nat
         /\ rf[s].log.base <= q.lastApplied
    <2>1. r.log.base <= r.commit
      BY <1>3, <1>5
    <2>2. rf[s] = r /\ q.commit = r.commit /\ q.lastApplied = r.commit
      BY <1>2, <1>8
    <2> QED BY <1>5, <1>10, <2>1, <2>2
  <1> QED BY <1>1, <1>11, <1>12, <1>13, <1>14, ProgressStep

\* The log of a leader holds the terms up to its own, and is in the history as it is.
LEMMA LeaderEntries ==
  ASSUME Inv, NEW h, HistoryOf(h), NEW s \in Server, rf[s].role = "Leader", NEW i \in Nat,
         rf[s].log.base < i, i <= LastIndex(rf[s].log)
  PROVE  LET t == TermAt(rf[s].log, i)
         IN  /\ i \in Pos /\ t \in Nat /\ t <= rf[s].term /\ Has(h.led[rf[s].term], i, t)
             /\ i <= Len(h.led[rf[s].term])
  <1>1. PICK r : r = rf[s]
    OBVIOUS
  <1>2. /\ Core(h) /\ IsHistory(h) /\ r.term \in Nat /\ h.log[s] \in Log /\ h.sure \in Log
        /\ Remains(r.log, h.log[s], h.sure) /\ h.log[s] = h.led[r.term]
    BY <1>1, ServerIs
  <1>3. PICK p : p = h.log[s]
    OBVIOUS
  <1>4. i \in DOMAIN p /\ i \in Pos /\ TermAt(r.log, i) = p[i].term /\ i <= Len(p)
    BY <1>1, <1>2, <1>3, ReadLog
  <1>5. p[i].term \in Nat
    BY <1>2, <1>3, <1>4, EntryAt
  <1>6. p[i].term <= r.term
    BY <1>2, <1>3, <1>4 DEF Core, LeaderLogs
  <1> QED BY <1>1, <1>2, <1>3, <1>4, <1>5, <1>6 DEF Has

\* An entry of its own term that a leader takes a majority to have is chosen, or was already
\* committed when a snapshot brought a follower up to it.
LEMMA CommittableIs ==
  ASSUME Inv, NEW h, HistoryOf(h), NEW s \in Server, rf[s].role = "Leader", NEW i \in Nat,
         rf[s].log.base < i, i <= LastIndex(rf[s].log), Committable(s, i)
  PROVE  Sure(i, rf[s].term, h) \/ Chosen(i, rf[s].term, h)
  <1>1. PICK T, match : T = rf[s].term /\ match = matchIndex[s]
    OBVIOUS
  <1>2. /\ Core(h) /\ IsHistory(h) /\ T \in Nat /\ h.office = elected /\ <<T, s>> \in h.office
        /\ Follows(rf[s], nextIndex[s], match, s, h)
    BY <1>1, ServerIs
  <1>3. i \in Pos /\ Has(h.led[T], i, T)
    <2>1. PICK t : t = TermAt(rf[s].log, i)
      OBVIOUS
    <2>2. t \in Nat /\ t <= T /\ Has(h.led[T], i, t) /\ i \in Pos
      BY <1>1, <2>1, LeaderEntries
    <2>3. t >= T
      BY <1>1, <2>1 DEF Committable
    <2> QED BY <1>2, <2>2, <2>3
  <1> DEFINE F == {f \in Server \ {s} : match[f] >= i}
  <1>4. match \in [Server -> Nat] /\ \A f \in Server :
           \/ match[f] <= h.acked[s][T] /\ match[f] <= h.acked[f][T]
           \/ Sure(match[f], T, h)
    BY <1>1, <1>2 DEF Follows
  <1>5. CASE \E f \in F : Sure(match[f], T, h)
    <2>1. PICK f \in F : Sure(match[f], T, h)
      BY <1>5
    <2>2. match[f] \in Nat /\ i <= match[f]
      BY <1>4, <2>1
    <2> QED BY <1>1, <1>2, <2>1, <2>2, SurePart
  <1>6. CASE ~\E f \in F : Sure(match[f], T, h)
    <2>1. \A f \in F : f \in Stores(i, T, h) /\ i <= h.acked[s][T]
      <3> TAKE f \in F
      <3>1. f \in Server /\ match[f] \in Nat /\ i <= match[f]
        BY <1>4
      <3>2. match[f] <= h.acked[s][T] /\ match[f] <= h.acked[f][T]
        BY <1>4, <1>6, <3>1
      <3>3. h.acked[s][T] \in Nat /\ h.acked[f][T] \in Nat
        BY <1>2, <3>1, Parts
      <3> QED BY <3>1, <3>2, <3>3 DEF Stores
    <2>2. F # {}
      <3>1. SUFFICES ASSUME F = {} PROVE FALSE
        OBVIOUS
      <3>2. Cardinality(F) = 0
        BY <3>1, FS_EmptySet
      <3>3. 2 * (1 + Cardinality(F)) > Cardinality(Server)
        BY <1>1 DEF Committable
      <3>4. PICK v, w \in Server : v # w
        BY <1>2 DEF HistoryOf
      <3>5. IsFiniteSet(Server) /\ Cardinality({v, w}) = 2 /\ Cardinality(Server) \in Nat
        <4>1. IsFiniteSet(Server)
          BY Lab2DAssumption
        <4>2. Cardinality({v}) = 1 /\ IsFiniteSet({v}) /\ w \notin {v}
          BY <3>4, FS_Singleton
        <4>3. Cardinality({v} \cup {w}) = 1 + 1
          BY <4>2, FS_AddElement
        <4>4. {v} \cup {w} = {v, w}
          OBVIOUS
        <4>5. Cardinality({v, w}) = 2
          BY <4>3, <4>4
        <4> QED BY <4>1, <4>5, FS_CardinalityType
      <3>6. Cardinality({v, w}) <= Cardinality(Server)
        BY <3>4, <3>5, FS_Subset
      <3>7. PICK n \in Nat : n = Cardinality(Server)
        BY <3>5
      <3>8. 2 * (1 + 0) > n /\ 2 <= n
        BY <3>2, <3>3, <3>5, <3>6, <3>7
      <3> QED BY <3>8
    <2>3. F \cup {s} \subseteq Stores(i, T, h) /\ Stores(i, T, h) \subseteq Server
      BY <2>1, <2>2 DEF Stores
    <2>4. IsMajority(F \cup {s})
      <3>1. IsFiniteSet(F) /\ s \notin F
        <4>1. F \subseteq Server /\ IsFiniteSet(Server)
          BY Lab2DAssumption
        <4> QED BY <4>1, FS_Subset
      <3>2. Cardinality(F \cup {s}) = Cardinality(F) + 1 /\ Cardinality(F) \in Nat
        BY <3>1, FS_AddElement, FS_CardinalityType
      <3>3. 2 * (1 + Cardinality(F)) > Cardinality(Server)
        BY <1>1 DEF Committable
      <3>4. 1 + Cardinality(F) = Cardinality(F \cup {s})
        BY <3>2
      <3> QED BY <3>3, <3>4 DEF IsMajority
    <2>5. IsMajority(Stores(i, T, h))
      BY <2>3, <2>4, LargerMajority
    <2> QED BY <1>1, <1>3, <2>5 DEF Chosen
  <1> QED BY <1>5, <1>6

\* The history in which entries up to i of the leader of T are committed.
LEMMA CommitHistory ==
  ASSUME NEW h, Core(h), Settled(h), NEW T \in Nat, NEW i \in Pos, Chosen(i, T, h)
  PROVE  \E g : MoreSure(h, g) /\ Sure(i, T, g)
  <1>1. IsHistory(h) /\ h.led[T] \in Log /\ Len(h.led[T]) \in Nat /\ h.sure \in Log /\ Len(h.sure) \in Nat
    BY LogLen DEF Core, IsHistory
  <1>2. i <= Len(h.led[T])
    BY <1>1, EntryAt DEF Chosen, Has
  <1>3. PICK c : c = IF i <= Len(h.sure) THEN h.sure ELSE SubSeq(h.led[T], 1, i)
    OBVIOUS
  <1>4. /\ c \in Log
        /\ \/ i <= Len(h.sure) /\ c = h.sure
           \/ Len(h.sure) <= i /\ Len(c) = i /\ Agree(c, h.led[T], i)
    <2>1. SubSeq(h.led[T], 1, i) \in Log /\ Len(SubSeq(h.led[T], 1, i)) = i /\ Agree(SubSeq(h.led[T], 1, i), h.led[T], i)
      BY <1>1, <1>2, FirstPart DEF Pos
    <2>2. CASE i <= Len(h.sure)
      <3>1. c = h.sure
        BY <1>3, <2>2
      <3> QED BY <1>1, <2>2, <3>1
    <2>3. CASE ~(i <= Len(h.sure))
      <3>1. Len(h.sure) <= i
        BY <1>1, <2>3 DEF Pos
      <3>2. c = SubSeq(h.led[T], 1, i)
        BY <1>3, <2>3
      <3> QED BY <2>1, <3>1, <3>2
    <2> QED BY <2>2, <2>3
  <1>5. PICK g : g = [led |-> h.led, acked |-> h.acked, sure |-> c, log |-> h.log, saved |-> h.saved,
                      term |-> h.term, office |-> h.office]
    OBVIOUS
  <1>6. /\ g.led = h.led /\ g.acked = h.acked /\ g.office = h.office /\ g.log = h.log /\ g.saved = h.saved
        /\ g.term = h.term /\ g.sure = c
    BY <1>5
  <1>7. IsHistory(g)
    BY <1>1, <1>4, <1>6 DEF IsHistory
  <1>8. \/ i <= Len(h.sure) /\ g.sure = h.sure
        \/ Len(h.sure) <= i /\ Len(g.sure) = i /\ Agree(g.sure, h.led[T], i)
    BY <1>4, <1>6
  <1>9. Grows(h, g) /\ Core(g) /\ Settled(g) /\ Sure(i, T, g)
    BY <1>6, <1>7, <1>8, CommitCore
  <1> QED BY <1>6, <1>9 DEF MoreSure

\* A leader commits.
LEMMA CommitFits ==
  ASSUME LogInv, Inv', NEW s \in Server, checkCommitIndex(s)
  PROVE  LogInv'
  <1>1. PICK h : HistoryOf(h) /\ Inv
    BY DEF LogInv
  <1>2. PICK r, is, i :
           /\ r = rf[s] /\ i = Max(is)
           /\ is = {j \in Larger(r.commit, r.log.base) .. LastIndex(r.log) : Committable(s, j)}
    OBVIOUS
  <1>3. PICK q : q = [r EXCEPT !.commit = i]
    OBVIOUS
  <1>4. /\ r.role = "Leader" /\ is # {} /\ i > r.commit /\ BecomeUnsaved(s, q)
        /\ UNCHANGED <<snapshot, nextIndex, matchIndex, net, applied, cmds, historyVars>>
    BY <1>2, <1>3 DEF checkCommitIndex, boundVars
  <1>5. /\ Core(h) /\ Settled(h) /\ IsHistory(h) /\ IsRaft(r) /\ r.term \in Nat
        /\ h.log[s] \in Log /\ h.sure \in Log /\ Len(h.sure) \in Nat /\ Led(r.term, h)
        /\ Len(h.log[s]) \in Nat /\ Remains(r.log, h.log[s], h.sure) /\ h.log[s] = h.led[r.term]
        /\ applied[s] = Commands(h.sure, r.lastApplied)
    BY <1>1, <1>2, <1>4, ServerIs DEF Executed
  <1>6. /\ r.commit \in Nat /\ r.lastApplied \in Nat /\ r.log.base \in Nat /\ r.log.base <= r.lastApplied
        /\ Known(r) \in Nat /\ r.lastApplied <= Known(r)
        /\ \A n \in Nat : n <= Known(r) => Sure(n, r.term, h) /\ n <= Len(h.sure)
                                           /\ (Known(r) > r.log.base => Agree(h.log[s], h.sure, n))
    BY <1>1, <1>2, KnownIs, ServerIs
  <1>7. LastIndex(r.log) \in Nat
    BY <1>5, ReadLog
  <1>8. i \in Nat /\ Larger(r.commit, r.log.base) <= i /\ i <= LastIndex(r.log) /\ Committable(s, i)
    <2>1. Larger(r.commit, r.log.base) \in Nat
      BY <1>6 DEF Larger
    <2>2. is \in SUBSET (0 .. LastIndex(r.log))
      BY <1>2, <1>7, <2>1
    <2>3. i \in is
      BY <1>2, <1>4, <1>7, <2>2, MaxIs
    <2> QED BY <1>2, <1>7, <2>1, <2>3
  <1>9. r.log.base <= i /\ i \in Pos
    BY <1>4, <1>6, <1>8 DEF Larger, Pos
  <1>10. /\ q.role = r.role /\ q.term = r.term /\ q.count = r.count /\ q.log = r.log /\ q.commit = i
         /\ q.lastApplied = r.lastApplied
    BY <1>3, <1>5 DEF IsRaft, Field
  <1>11. \E g : MoreSure(h, g) /\ Sure(i, r.term, g)
    <2>1. CASE Sure(i, r.term, h)
      <3>1. MoreSure(h, h)
        BY <1>5, GrowsSame DEF MoreSure
      <3> QED BY <2>1, <3>1
    <2>2. CASE Chosen(i, r.term, h)
      BY <1>5, <1>9, <2>2, CommitHistory
    <2>3. CASE i = r.log.base
      <3>1. i <= Known(r)
        BY <1>6, <2>3
      <3> QED BY <1>6, <1>8, <2>1, <3>1
    <2>4. CASE i # r.log.base
      <3>1. r.log.base < i
        BY <1>6, <1>8, <1>9, <2>4
      <3> QED BY <1>1, <1>2, <1>4, <1>8, <2>1, <2>2, <3>1, CommittableIs
    <2> QED BY <2>3, <2>4
  <1>12. PICK g : MoreSure(h, g) /\ Sure(i, r.term, g)
    BY <1>11
  <1>13. Core(g) /\ IsHistory(g) /\ Led(r.term, g) /\ Grows(h, g) /\ g.led = h.led /\ g.log = h.log
    BY <1>5, <1>12 DEF MoreSure, Led, Core
  <1>14. q.commit \in Nat /\ q.lastApplied \in Nat /\ r.log.base <= q.lastApplied
         /\ Known(q) \in Nat /\ (Known(q) = i \/ Known(q) <= Known(r))
    BY <1>6, <1>8, <1>10 DEF Known, Larger
  <1>15. Sure(Known(q), r.term, g)
    <2>1. CASE Known(q) = i
      BY <1>12, <2>1
    <2>2. CASE Known(q) <= Known(r)
      <3>1. Sure(Known(q), r.term, h)
        BY <1>6, <1>14, <2>2
      <3>2. r.term <= r.term
        BY <1>5
      <3> QED BY <1>5, <1>13, <1>14, <3>1, <3>2, SureKept
    <2> QED BY <1>14, <2>1, <2>2
  <1>16. Agree(h.log[s], g.sure, Known(q))
    <2>1. r.term <= r.term
      BY <1>5
    <2>2. Agree(g.sure, g.led[r.term], Known(q))
      BY <1>5, <1>13, <1>14, <1>15, <2>1, SureWithLeader
    <2>3. g.led[r.term] = h.log[s]
      BY <1>5, <1>13
    <2> QED BY <2>2, <2>3 DEF Agree
  <1>17. applied[s] = Commands(g.sure, r.lastApplied)
    <2>1. r.lastApplied <= Len(h.sure)
      BY <1>6
    <2>2. Commands(g.sure, r.lastApplied) = Commands(h.sure, r.lastApplied)
      BY <1>5, <1>6, <1>13, <2>1, SurePrefix
    <2> QED BY <1>5, <2>2
  <1>18. Progress(s, q, applied[s])
    <2>1. applied' = [applied EXCEPT ![s] = applied[s]]
      <3>1. applied = [v \in Server |-> applied[v]] /\ applied' = applied
        BY <1>1, <1>4 DEF HistoryOf
      <3> QED BY <3>1
    <2> QED BY <1>2, <1>4, <1>10, <2>1 DEF Progress
  <1>19. /\ applied[s] = Commands(g.sure, q.lastApplied) /\ Sure(Known(q), rf[s].term, g)
         /\ rf[s].log.base <= q.lastApplied
    BY <1>2, <1>10, <1>14, <1>15, <1>17
  <1> QED BY <1>1, <1>12, <1>14, <1>16, <1>18, <1>19, ProgressStep

\* The history in which s, which leads term T, has the log p.
Appends(h, s, T, p) ==
  [led |-> [h.led EXCEPT ![T] = p], acked |-> h.acked, sure |-> h.sure, log |-> [h.log EXCEPT ![s] = p],
   saved |-> h.saved, term |-> h.term, office |-> h.office]

\* Appending to the log of the leader is growth of the history.
LEMMA AppendsIs ==
  ASSUME NEW h, Core(h), Settled(h), NEW s \in Server, NEW T \in Nat, NEW e \in Entry, NEW p,
         Led(T, h), h.term[s] = T, h.log[s] = h.led[T], e.term = T, Longer(h.log[s], e, p),
         NEW g, g = Appends(h, s, T, p)
  PROVE  /\ Grows(h, g) /\ Core(g) /\ Settled(g) /\ IsHistory(g) /\ g.office = h.office /\ g.sure = h.sure
         /\ g.acked = h.acked /\ g.term = h.term /\ g.saved = h.saved /\ g.log[s] = p /\ g.led[T] = p
         /\ \A v \in Server \ {s} : g.log[v] = h.log[v]
         /\ \A t \in Nat \ {T} : g.led[t] = h.led[t]
  <1>1. /\ g.led = [h.led EXCEPT ![T] = p] /\ g.acked = h.acked /\ g.sure = h.sure
        /\ g.log = [h.log EXCEPT ![s] = p] /\ g.saved = h.saved /\ g.term = h.term /\ g.office = h.office
    BY DEF Appends
  <1>2. IsHistory(h) /\ h.led \in [Nat -> Log] /\ h.log \in [Server -> Log] /\ p \in Log
    BY DEF Core, IsHistory, Longer
  <1>3. /\ g.log[s] = p /\ g.led[T] = p /\ \A v \in Server \ {s} : g.log[v] = h.log[v]
    BY <1>1, <1>2
  <1>4. \A t \in Nat \ {T} : g.led[t] = h.led[t]
    BY <1>1, <1>2
  <1>5. g.led \in [Nat -> Log] /\ g.log \in [Server -> Log]
    BY <1>1, <1>2
  <1>6. IsHistory(g)
    BY <1>1, <1>2, <1>5 DEF IsHistory
  <1>7. Grows(h, g) /\ Core(g)
    BY <1>1, <1>3, <1>4, <1>6, StartCore, ZenonT(120)
  <1>8. Settled(g)
    BY <1>1, <1>2, <1>6, <1>7, SettledKept
  <1> QED BY <1>1, <1>3, <1>4, <1>6, <1>7, <1>8

\* A longer log agrees with all that the log agrees with.
LEMMA LongerAgrees ==
  ASSUME NEW l \in Log, NEW e, NEW p, Longer(l, e, p), NEW c \in Log, NEW n \in Nat, Agree(l, c, n)
  PROVE  Agree(p, c, n) /\ Len(l) <= Len(p)
  <1>1. Len(l) \in Nat /\ p \in Log /\ Len(p) = Len(l) + 1 /\ \A i \in 1 .. Len(l) : p[i] = l[i]
    BY LogLen DEF Longer
  <1> QED BY <1>1 DEF Agree

\* A leader appends an entry.
LEMMA StartFits ==
  ASSUME LogInv, Inv', NEW s \in Server, Start(s)
  PROVE  LogInv'
  <1>1. PICK h : HistoryOf(h) /\ Inv
    BY DEF LogInv
  <1>2. PICK r, d, next, match, state, old, e, k :
           /\ r = rf[s] /\ d = disk[s] /\ next = nextIndex[s] /\ match = matchIndex[s]
           /\ state = applied[s] /\ old = snapshot[s] /\ e = [term |-> r.term, cmd |-> cmds + 1]
           /\ k = [r.log EXCEPT !.ents = Append(@, e)]
    OBVIOUS
  <1>3. PICK q : q = [r EXCEPT !.log = k]
    OBVIOUS
  <1>4. /\ r.role = "Leader" /\ BecomeUnsaved(s, q) /\ cmds' = cmds + 1
        /\ UNCHANGED <<snapshot, nextIndex, matchIndex, net, applied, historyVars>>
    <2>1. [rf[s] EXCEPT !.log.ents = Append(@, [term |-> rf[s].term, cmd |-> cmds + 1])] = q
      BY <1>2, <1>3
    <2> QED BY <1>2, <2>1 DEF Start
  <1>5. PICK T : T = r.term
    OBVIOUS
  <1>6. /\ Core(h) /\ Settled(h) /\ IsHistory(h) /\ h.office = elected /\ IsRaft(r) /\ T \in Nat /\ d.term \in Nat
        /\ h.log[s] \in Log /\ h.sure \in Log /\ Len(h.log[s]) \in Nat
        /\ <<T, s>> \in elected /\ Led(T, h) /\ d.term = T /\ h.term[s] = T /\ h.log[s] = h.led[T]
        /\ Remains(r.log, h.log[s], h.sure)
    BY <1>1, <1>2, <1>4, <1>5, ServerIs
  <1>7. /\ Stored(r, d, s, h) /\ Knows(r, s, h) /\ Follows(r, next, match, s, h) /\ Executed(r, d, state, old, h)
    BY <1>1, <1>2, ServerIs
  <1>8. e \in Entry /\ e.term = T /\ cmds \in Nat
    <2>1. cmds \in Nat /\ cmds + 1 \in Nat
      BY <1>1 DEF HistoryOf
    <2>2. e = [term |-> T, cmd |-> cmds + 1]
      BY <1>2, <1>5
    <2> QED BY <1>6, <2>1, <2>2 DEF Entry
  <1>9. PICK p : p = Append(h.log[s], e)
    OBVIOUS
  <1>10. Remains(k, p, h.sure) /\ k.base = r.log.base /\ Longer(h.log[s], e, p) /\ p \in Log
    BY <1>2, <1>6, <1>8, <1>9, AppendRemains
  <1>11. PICK g : g = Appends(h, s, T, p)
    OBVIOUS
  <1>12. /\ Grows(h, g) /\ Core(g) /\ Settled(g) /\ IsHistory(g) /\ g.office = h.office /\ g.sure = h.sure
         /\ g.acked = h.acked /\ g.term = h.term /\ g.saved = h.saved /\ g.log[s] = p /\ g.led[T] = p
         /\ \A v \in Server \ {s} : g.log[v] = h.log[v]
         /\ \A t \in Nat \ {T} : g.led[t] = h.led[t]
    BY <1>6, <1>8, <1>10, <1>11, AppendsIs
  <1>13. /\ q.role = r.role /\ q.term = r.term /\ q.log = k /\ q.commit = r.commit
         /\ q.lastApplied = r.lastApplied
    BY <1>3, <1>6 DEF IsRaft, Field
  <1>14. AllFit(q, d, next, match, state, old, s, g)
    <2>0. T <= T /\ d.log.base \in Nat /\ r.commit \in Nat /\ r.lastApplied \in Nat /\ Known(r) \in Nat
      <3>1. rf[s].log.base \in Nat /\ rf[s].log.base = disk[s].log.base
        BY <1>1, ServerIs
      <3>2. rf[s].commit \in Nat /\ rf[s].lastApplied \in Nat /\ Known(rf[s]) \in Nat
        BY <1>1, KnownIs
      <3> QED BY <1>2, <1>6, <3>1, <3>2
    <2>1. Stored(q, d, s, g)
      <3>1. Sure(d.log.base, d.term, h)
        BY <1>7 DEF Stored
      <3>2. Sure(d.log.base, d.term, g)
        BY <1>6, <1>12, <2>0, <3>1, SureKept
      <3>3. /\ h.term[s] = d.term /\ d.term <= r.term /\ Remains(d.log, h.saved[s], h.sure) /\ r.log.base = d.log.base
        BY <1>7 DEF Stored
      <3> QED BY <1>10, <1>12, <1>13, <3>2, <3>3 DEF Stored
    <2>2. Leads(q, d, s, g)
      BY <1>5, <1>6, <1>12, <1>13 DEF Leads
    <2>3. Knows(q, s, g)
      <3>1. /\ r.log.base <= r.lastApplied /\ Sure(Known(r), T, h)
            /\ Known(r) > r.log.base => Agree(h.log[s], h.sure, Known(r))
        BY <1>5, <1>7 DEF Knows
      <3>2. Sure(Known(r), T, g)
        BY <1>6, <1>12, <2>0, <3>1, SureKept
      <3>3. Known(r) > r.log.base => Agree(p, h.sure, Known(r))
        BY <1>6, <1>10, <2>0, <3>1, LongerAgrees
      <3>4. Known(q) = Known(r)
        BY <1>13 DEF Known
      <3> QED BY <1>5, <1>10, <1>12, <1>13, <2>0, <3>1, <3>2, <3>3, <3>4 DEF Knows
    <2>4. Follows(q, next, match, s, g)
      <3>1. Len(h.log[s]) <= Len(g.log[s])
        BY <1>6, <1>10, <1>12 DEF Longer
      <3>2. q.role = "Leader" => r.role = "Leader" /\ q.term = r.term
        BY <1>13
      <3>3. r.term \in Nat
        BY <1>5, <1>6
      <3> QED BY <1>6, <1>7, <1>12, <3>1, <3>2, <3>3, FollowsKept
    <2>5. Executed(q, d, state, old, g)
      BY <1>6, <1>7, <1>12, <1>13, ExecutedKept
    <2> QED BY <2>1, <2>2, <2>3, <2>4, <2>5 DEF AllFit
  <1>15. Sets(s, q, d, next, match, state, old)
    <2>1. nextIndex \in [Server -> [Server -> Nat]] /\ matchIndex \in [Server -> [Server -> Nat]] /\ cmds \in Nat
          /\ snapshot = [v \in Server |-> snapshot[v]] /\ disk = [v \in Server |-> disk[v]]
          /\ applied = [v \in Server |-> applied[v]]
      BY <1>1 DEF HistoryOf, Inv, Types
    <2>2. /\ next \in [Server -> Nat] /\ match \in [Server -> Nat] /\ cmds' \in Nat
          /\ nextIndex' = [nextIndex EXCEPT ![s] = next] /\ matchIndex' = [matchIndex EXCEPT ![s] = match]
      BY <1>2, <1>4, <2>1
    <2>3. snapshot' = [snapshot EXCEPT ![s] = old] /\ applied' = [applied EXCEPT ![s] = state]
      BY <1>2, <1>4, <2>1
    <2>4. rf' = [rf EXCEPT ![s] = q] /\ disk' = [disk EXCEPT ![s] = d]
      BY <1>2, <1>4, <2>1 DEF BecomeUnsaved
    <2> QED BY <1>4, <2>2, <2>3, <2>4 DEF Sets
  <1>16. Advances(h, g, s)
    <2>1. ASSUME NEW v \in Server \ {s}, rf[v].role = "Leader" PROVE g.led[rf[v].term] = h.led[rf[v].term]
      <3>1. <<rf[v].term, v>> \in elected /\ rf[v].term \in Nat
        BY <1>1, <2>1, ServerIs
      <3>2. rf[v].term # T
        <4>1. NoSecondLeader
          BY <1>1, OneLeader
        <4> QED BY <1>6, <3>1, <4>1 DEF NoSecondLeader
      <3> QED BY <1>12, <3>1, <3>2
    <2> QED BY <1>12, <2>1 DEF Advances
  <1>17. Continues(s, q, h, g)
    BY <1>4, <1>13 DEF Continues
  <1>18. NewFit(g)
    <2>1. net' = net
      BY <1>4
    <2> QED BY <2>1, NothingAsked DEF NewFit
  <1> QED BY <1>1, <1>14, <1>15, <1>16, <1>17, <1>18, ChangeStep

\* The service has a snapshot of what it has executed.
LEMMA SnapshotKeepsLog ==
  ASSUME LogInv, Inv', NEW s \in Server, Snapshot(s)
  PROVE  LogInv'
  <1>1. PICK h : HistoryOf(h) /\ Inv
    BY DEF LogInv
  <1>2. PICK r, next, match, state, i, k :
           /\ r = rf[s] /\ next = nextIndex[s] /\ match = matchIndex[s] /\ state = applied[s]
           /\ i = r.lastApplied /\ k = trimIndex(r.log, i)
    OBVIOUS
  <1>3. PICK q : q = [r EXCEPT !.log = k]
    OBVIOUS
  <1>4. /\ q # r /\ Become(s, q) /\ snapshot' = [snapshot EXCEPT ![s] = state]
        /\ UNCHANGED <<nextIndex, matchIndex, net, applied, cmds, historyVars>>
    BY <1>2, <1>3 DEF Snapshot, boundVars
  <1>5. /\ Core(h) /\ IsHistory(h) /\ IsRaft(r) /\ r.term \in Nat /\ r.log.base \in Nat
        /\ h.log[s] \in Log /\ h.sure \in Log /\ Remains(r.log, h.log[s], h.sure)
        /\ Follows(r, next, match, s, h)
    BY <1>1, <1>2, ServerIs
  <1>6. /\ q.role = r.role /\ q.term = r.term /\ q.count = r.count /\ q.log = k /\ q.commit = r.commit
        /\ q.lastApplied = i /\ (k = r.log => q = r)
    BY <1>2, <1>3, <1>5 DEF IsRaft, Field
  <1>7. /\ i \in Nat /\ Known(r) \in Nat /\ i <= Known(r) /\ Sure(i, r.term, h) /\ i <= Len(h.sure)
        /\ Known(r) > r.log.base => Agree(h.log[s], h.sure, i)
    BY <1>1, <1>2, KnownIs
  <1>8. r.log.base < i
    BY <1>2, <1>4, <1>5, <1>6, <1>7 DEF trimIndex
  <1>9. Remains(k, h.log[s], h.sure) /\ k.base = i
    BY <1>2, <1>5, <1>7, <1>8, TrimIs
  <1>10. \E g : QuietAt(h, g, s, r, Saved(r))
    <2>1. r = rf[s] /\ r.term <= r.term /\ Saved(r) \in {disk[s], Saved(r)}
      BY <1>2, <1>5
    <2> QED BY <1>1, <1>5, <2>1, KeepHistory
  <1>11. PICK g : QuietAt(h, g, s, r, Saved(r))
    BY <1>10
  <1>12. /\ Quiet(h, g) /\ g.led = h.led /\ g.acked = h.acked /\ g.sure = h.sure /\ g.log = h.log
         /\ g.office = h.office /\ Core(g) /\ Settled(g) /\ Grows(h, g) /\ IsHistory(g)
         /\ \A v \in Server \ {s} : g.term[v] = h.term[v] /\ g.saved[v] = h.saved[v]
         /\ g.saved[s] = h.log[s] /\ g.term[s] = r.term
         /\ Leads(r, Saved(r), s, g) /\ Knows(r, s, g) /\ Executed(r, Saved(r), state, snapshot[s], g)
    BY <1>2, <1>11 DEF QuietAt, Quiet, Core
  <1> DEFINE e == Saved(q)
  <1>13. e.term = r.term /\ e.log = k /\ Saved(r).term = r.term
    BY <1>6 DEF Saved
  <1> HIDE DEF e
  <1>14. AllFit(q, e, next, match, state, state, s, g)
    <2>1. Stored(q, e, s, g)
      <3>1. Sure(i, r.term, g)
        <4>1. r.term <= r.term
          BY <1>5
        <4> QED BY <1>5, <1>7, <1>12, <4>1, SureKept
      <3>2. r.term <= r.term
        BY <1>5
      <3> QED BY <1>6, <1>9, <1>12, <1>13, <3>1, <3>2 DEF Stored
    <2>2. Leads(q, e, s, g)
      BY <1>6, <1>12, <1>13 DEF Leads
    <2>3. Knows(q, s, g)
      <3>1. Known(q) = Known(r)
        BY <1>2, <1>6 DEF Known
      <3>2. Known(q) > k.base => Known(r) > r.log.base
        BY <1>5, <1>7, <1>8, <1>9, <3>1
      <3>3. i <= i
        BY <1>7
      <3> QED BY <1>2, <1>6, <1>7, <1>9, <1>12, <3>1, <3>2, <3>3 DEF Knows
    <2>4. Follows(q, next, match, s, g)
      <3>1. Follows(r, next, match, s, g)
        BY <1>5, <1>12, QuietFits
      <3> QED BY <1>6, <3>1 DEF Follows
    <2>5. Executed(q, e, state, state, g)
      BY <1>2, <1>6, <1>9, <1>12, <1>13 DEF Executed
    <2> QED BY <2>1, <2>2, <2>3, <2>4, <2>5 DEF AllFit
  <1>15. Sets(s, q, e, next, match, state, state)
    <2>1. nextIndex \in [Server -> [Server -> Nat]] /\ matchIndex \in [Server -> [Server -> Nat]] /\ cmds \in Nat
          /\ applied = [v \in Server |-> applied[v]]
      BY <1>1 DEF HistoryOf
    <2>2. /\ next \in [Server -> Nat] /\ match \in [Server -> Nat] /\ cmds' \in Nat
          /\ nextIndex' = [nextIndex EXCEPT ![s] = next] /\ matchIndex' = [matchIndex EXCEPT ![s] = match]
      BY <1>2, <1>4, <2>1
    <2>3. applied' = [applied EXCEPT ![s] = state]
      BY <1>2, <1>4, <2>1
    <2> QED BY <1>4, <2>2, <2>3 DEF Sets, Become, e
  <1>16. Advances(h, g, s)
    BY <1>12 DEF Advances
  <1>17. Continues(s, q, h, g)
    BY <1>2, <1>6, <1>12 DEF Continues
  <1>18. NewFit(g)
    <2>1. net' = net
      BY <1>4
    <2> QED BY <2>1, NothingAsked DEF NewFit
  <1> QED BY <1>1, <1>14, <1>15, <1>16, <1>17, <1>18, ChangeStep

\* A request whose sender has been killed fits if the request did.
LEMMA OrphanedFits ==
  ASSUME NEW n, IsMessage(n), NEW g, MessageFits(n, g)', NEW s
  PROVE  LET m == Orphaned(n, s) IN MessageFits(m, g)'
  <1> DEFINE m == Orphaned(n, s)
  <1>1. CASE ~(n.from = s /\ n.type \in Requests)
    <2>1. m = n
      BY <1>1 DEF Orphaned
    <2> QED BY <2>1
  <1>2. CASE n.from = s /\ n.type \in Requests
    <2>1. m = [n EXCEPT !.waits = FALSE] /\ {"type", "from", "to", "waits", "term"} \subseteq DOMAIN n
      BY <1>2 DEF Orphaned, IsMessage
    <2> HIDE DEF m
    <2>2. /\ m.type = n.type /\ m.from = n.from /\ m.to = n.to /\ m.term = n.term /\ m.waits = FALSE
          /\ DOMAIN m = DOMAIN n /\ \A f \in DOMAIN n \ {"waits"} : m[f] = n[f]
      BY <2>1
    <2>3. m.type \in Requests /\ m.type \notin {"voted", "appended", "installed"}
      BY <1>2, <2>2 DEF Requests
    <2>4. VoteFits(m, g)'
      BY <2>2, <2>3 DEF VoteFits
    <2>5. EntriesFit(m, g)
      <3>1. n.type = "append" => /\ m.prev = n.prev /\ m.pterm = n.pterm /\ m.ents = n.ents /\ m.commit = n.commit
                                 /\ {"prev", "pterm", "ents", "commit"} \subseteq DOMAIN n
        BY <2>2 DEF MessageFits, EntriesFit
      <3> QED BY <2>2, <2>3, <3>1 DEF MessageFits, EntriesFit
    <2>6. SnapshotFits(m, g)
      <3>1. n.type = "install" => /\ m.index = n.index /\ m.iterm = n.iterm /\ m.data = n.data
                                  /\ {"index", "iterm", "data"} \subseteq DOMAIN n
        BY <2>2 DEF MessageFits, SnapshotFits
      <3> QED BY <2>2, <2>3, <3>1 DEF MessageFits, SnapshotFits
    <2> QED BY <2>4, <2>5, <2>6 DEF MessageFits, m
  <1> QED BY <1>1, <1>2

\* The history in which s has lost what it did not persist.
Forgets(h, s) ==
  [led |-> h.led, acked |-> h.acked, sure |-> h.sure, log |-> [h.log EXCEPT ![s] = h.saved[s]],
   saved |-> h.saved, term |-> h.term, office |-> h.office]

\* Losing what only memory held is growth of the history.
LEMMA ForgetsIs ==
  ASSUME NEW h, Core(h), Settled(h), NEW s \in Server, NEW g, g = Forgets(h, s)
  PROVE  /\ Grows(h, g) /\ Core(g) /\ Settled(g) /\ IsHistory(g) /\ g.office = h.office /\ g.sure = h.sure
         /\ g.acked = h.acked /\ g.term = h.term /\ g.saved = h.saved /\ g.log[s] = h.saved[s] /\ g.led = h.led
         /\ \A v \in Server \ {s} : g.log[v] = h.log[v]
  <1>1. /\ g.led = h.led /\ g.acked = h.acked /\ g.sure = h.sure
        /\ g.log = [h.log EXCEPT ![s] = h.saved[s]] /\ g.saved = h.saved /\ g.term = h.term /\ g.office = h.office
    BY DEF Forgets
  <1>2. IsHistory(h) /\ h.log \in [Server -> Log] /\ h.saved \in [Server -> Log]
    BY DEF Core, IsHistory
  <1>3. g.log[s] = h.saved[s] /\ \A v \in Server \ {s} : g.log[v] = h.log[v]
    BY <1>1, <1>2
  <1>4. IsHistory(g)
    <2>1. g.log \in [Server -> Log]
      BY <1>1, <1>2
    <2> QED BY <1>1, <1>2, <2>1 DEF IsHistory
  <1>5. \A v \in Server :
            /\ h.term[v] <= g.term[v]
            /\ \/ g.log[v] = h.log[v] /\ g.saved[v] \in {h.saved[v], h.log[v]}
               \/ g.log[v] = h.saved[v] /\ g.saved[v] = h.saved[v]
    <2>1. \A v \in Server : h.term[v] <= g.term[v]
      BY <1>1, <1>2, Parts
    <2> QED BY <1>1, <1>3, <2>1
  <1>6. Agree(h.sure, g.sure, Len(h.sure))
    BY <1>1, <1>2, AgreeZero DEF IsHistory
  <1>7. Grows(h, g) /\ Core(g)
    BY <1>1, <1>4, <1>5, <1>6, QuietCore
  <1>8. Settled(g)
    BY <1>1, <1>2, <1>4, <1>7, SettledKept
  <1> QED BY <1>1, <1>3, <1>4, <1>7, <1>8

\* A server is started again.
LEMMA RestartFits ==
  ASSUME LogInv, Inv', NEW s \in Server, NEW messages \in SUBSET net, StartedAgain(s, messages)
  PROVE  LogInv'
  <1>1. PICK h : HistoryOf(h) /\ Inv
    BY DEF LogInv
  <1>2. PICK r, d, next, match, old, q :
           /\ r = rf[s] /\ d = disk[s] /\ next = nextIndex[s] /\ match = matchIndex[s] /\ old = snapshot[s]
           /\ q = NewRaft(d)
    OBVIOUS
  <1>3. /\ BecomeUnsaved(s, q) /\ applied' = [applied EXCEPT ![s] = old]
        /\ net' = {Orphaned(m, s) : m \in {n \in messages : n.to = s => n.type \in Requests}}
        /\ UNCHANGED <<snapshot, nextIndex, matchIndex, cmds, historyVars>>
    BY <1>2 DEF StartedAgain
  <1>4. /\ Core(h) /\ Settled(h) /\ IsHistory(h) /\ d.term \in Nat /\ Stored(r, d, s, h)
        /\ Follows(r, next, match, s, h) /\ Executed(r, d, applied[s], old, h)
        /\ r.log.base \in Nat /\ r.log.base = d.log.base
    BY <1>1, <1>2, ServerIs
  <1>5. /\ q.role = "Follower" /\ q.term = d.term /\ q.log = d.log /\ q.commit = 0 /\ q.lastApplied = d.log.base
    BY <1>2 DEF NewRaft
  <1>6. PICK g : g = Forgets(h, s)
    OBVIOUS
  <1>7. /\ Grows(h, g) /\ Core(g) /\ Settled(g) /\ IsHistory(g) /\ g.office = h.office /\ g.sure = h.sure
        /\ g.acked = h.acked /\ g.term = h.term /\ g.saved = h.saved /\ g.log[s] = h.saved[s] /\ g.led = h.led
        /\ \A v \in Server \ {s} : g.log[v] = h.log[v]
    BY <1>4, <1>6, ForgetsIs
  <1>8. Sure(d.log.base, d.term, g) /\ d.term <= d.term /\ d.log.base \in Nat
    <2>1. Sure(d.log.base, d.term, h) /\ d.term <= d.term
      BY <1>4 DEF Stored
    <2> QED BY <1>4, <1>7, <2>1, SureKept
  <1>9. AllFit(q, d, next, match, old, old, s, g)
    <2>1. Stored(q, d, s, g)
      BY <1>4, <1>5, <1>7, <1>8 DEF Stored
    <2>2. Leads(q, d, s, g)
      BY <1>5 DEF Leads
    <2>3. Knows(q, s, g)
      <3>1. Known(q) = d.log.base
        BY <1>5, <1>8 DEF Known, Larger
      <3> QED BY <1>5, <1>8, <3>1 DEF Knows
    <2>4. Follows(q, next, match, s, g)
      BY <1>4, <1>5 DEF Follows
    <2>5. Executed(q, d, old, old, g)
      BY <1>4, <1>5, <1>7 DEF Executed
    <2> QED BY <2>1, <2>2, <2>3, <2>4, <2>5 DEF AllFit
  <1>10. Sets(s, q, d, next, match, old, old)
    <2>1. nextIndex \in [Server -> [Server -> Nat]] /\ matchIndex \in [Server -> [Server -> Nat]] /\ cmds \in Nat
          /\ snapshot = [v \in Server |-> snapshot[v]] /\ disk = [v \in Server |-> disk[v]]
      BY <1>1 DEF HistoryOf, Inv, Types
    <2>2. /\ next \in [Server -> Nat] /\ match \in [Server -> Nat] /\ cmds' \in Nat
          /\ nextIndex' = [nextIndex EXCEPT ![s] = next] /\ matchIndex' = [matchIndex EXCEPT ![s] = match]
      BY <1>2, <1>3, <2>1
    <2>3. snapshot' = [snapshot EXCEPT ![s] = old]
      BY <1>2, <1>3, <2>1
    <2>4. rf' = [rf EXCEPT ![s] = q] /\ disk' = [disk EXCEPT ![s] = d]
      BY <1>2, <1>3, <2>1 DEF BecomeUnsaved
    <2> QED BY <1>3, <2>2, <2>3, <2>4 DEF Sets
  <1>11. Advances(h, g, s)
    BY <1>7 DEF Advances
  <1>12. Continues(s, q, h, g)
    BY <1>5 DEF Continues
  <1>13. rf'[s] = q /\ \A v \in Server \ {s} : rf'[v] = rf[v]
    <2>1. rf = [v \in Server |-> rf[v]] /\ rf' = [rf EXCEPT ![s] = q]
      BY <1>1, <1>3 DEF Inv, Types, BecomeUnsaved
    <2> QED BY <2>1
  <1>14. ASSUME NEW n \in net PROVE MessageFits(n, g)' /\ IsMessage(n)
    <2>1. \A v \in Server : rf'[v].role = "Candidate" => StillRuns(v, h, g) \/ rf[v].term < rf'[v].term
      BY <1>5, <1>7, <1>13 DEF StillRuns
    <2>2. MessageFits(n, h) /\ \A v \in Server : h.term[v] = disk[v].term
      BY <1>1 DEF HistoryOf, ServerFits, Stored
    <2> QED BY <1>1, <1>4, <1>7, <2>1, <2>2, MessageKept DEF Inv, Types
  <1>15. NewFit(g)
    <2>1. ASSUME NEW m \in net' PROVE MessageFits(m, g)'
      <3>1. PICK n \in net : m = Orphaned(n, s)
        BY <1>3
      <3> QED BY <1>14, <3>1, OrphanedFits
    <2>2. ASSUME NEW v \in Server PROVE NothingNew(v)
      <3>1. ASSUME NEW m \in net', NEW x \in Server, NEW t, Open(m, v, x, t) PROVE m \in net
        <4>1. PICK n \in net : m = Orphaned(n, s)
          BY <1>3
        <4>2. CASE n.from = s /\ n.type \in Requests
          <5>1. m.type = n.type /\ m.waits = FALSE
            BY <1>14, <4>1, <4>2 DEF Orphaned, IsMessage
          <5> QED BY <3>1, <4>2, <5>1 DEF Open, Requests
        <4> QED BY <4>1, <4>2 DEF Orphaned
      <3> QED BY <3>1 DEF NothingNew
    <2> QED BY <2>1, <2>2 DEF NewFit
  <1> QED BY <1>1, <1>9, <1>10, <1>11, <1>12, <1>15, ChangeStep

\* The history in which s saves the log x in term T, and has acknowledged a of it.
Keeping(h, s, T, x, a) ==
  [led |-> h.led, acked |-> [h.acked EXCEPT ![s] = [h.acked[s] EXCEPT ![T] = a]], sure |-> h.sure,
   log |-> [h.log EXCEPT ![s] = x], saved |-> [h.saved EXCEPT ![s] = x],
   term |-> [h.term EXCEPT ![s] = T], office |-> h.office]

\* What that says of each part.
KeptBy(h, g, s, T, x, a) ==
  /\ IsHistory(g) /\ g.office = h.office /\ g.sure = h.sure /\ g.led = h.led
  /\ g.log[s] = x /\ g.saved[s] = x /\ g.term[s] = T /\ g.acked[s][T] = a
  /\ \A v \in Server \ {s} : /\ g.term[v] = h.term[v] /\ g.log[v] = h.log[v]
                             /\ g.saved[v] = h.saved[v] /\ g.acked[v] = h.acked[v]
  /\ \A v \in Server, t \in Nat : v # s \/ t # T => g.acked[v][t] = h.acked[v][t]

\* It says that.
LEMMA KeepingParts ==
  ASSUME NEW h, IsHistory(h), NEW s \in Server, NEW T \in Nat, NEW x \in Log, NEW a \in Nat,
         NEW g, g = Keeping(h, s, T, x, a)
  PROVE  KeptBy(h, g, s, T, x, a)
  <1>1. PICK y : y = [h.acked[s] EXCEPT ![T] = a]
    OBVIOUS
  <1>2. /\ g.led = h.led /\ g.acked = [h.acked EXCEPT ![s] = y] /\ g.sure = h.sure
        /\ g.log = [h.log EXCEPT ![s] = x] /\ g.saved = [h.saved EXCEPT ![s] = x]
        /\ g.term = [h.term EXCEPT ![s] = T] /\ g.office = h.office
    BY <1>1 DEF Keeping
  <1>3. /\ h.acked \in [Server -> [Nat -> Nat]] /\ h.log \in [Server -> Log] /\ h.acked[s] \in [Nat -> Nat]
        /\ h.saved \in [Server -> Log] /\ h.term \in [Server -> Nat]
    BY DEF IsHistory
  <1>4. y \in [Nat -> Nat] /\ y[T] = a /\ \A t \in Nat \ {T} : y[t] = h.acked[s][t]
    BY <1>1, <1>3
  <1>5. g.acked \in [Server -> [Nat -> Nat]] /\ g.acked[s] = y /\ \A v \in Server \ {s} : g.acked[v] = h.acked[v]
    BY <1>2, <1>3, <1>4
  <1>6. g.log \in [Server -> Log] /\ g.log[s] = x /\ \A v \in Server \ {s} : g.log[v] = h.log[v]
    BY <1>2, <1>3
  <1>7. g.saved \in [Server -> Log] /\ g.saved[s] = x /\ \A v \in Server \ {s} : g.saved[v] = h.saved[v]
    BY <1>2, <1>3
  <1>8. g.term \in [Server -> Nat] /\ g.term[s] = T /\ \A v \in Server \ {s} : g.term[v] = h.term[v]
    BY <1>2, <1>3
  <1>9. IsHistory(g)
    BY <1>2, <1>5, <1>6, <1>7, <1>8 DEF IsHistory
  <1>10. \A v \in Server, t \in Nat : v # s \/ t # T => g.acked[v][t] = h.acked[v][t]
    BY <1>4, <1>5
  <1> QED BY <1>2, <1>4, <1>5, <1>6, <1>7, <1>8, <1>9, <1>10 DEF KeptBy

\* It is growth of the history when the log agrees with the leader's as far as acknowledged.
LEMMA KeepingIs ==
  ASSUME NEW h, Core(h), Settled(h), NEW s \in Server, NEW T \in Nat, h.term[s] <= T, Led(T, h),
         NEW x \in Log, NEW a \in Nat, h.acked[s][T] <= a, a = h.acked[s][T] \/ Agree(x, h.led[T], a),
         \A n \in Nat : Agree(h.log[s], h.led[T], n) => Agree(x, h.led[T], n),
         x = h.log[s] \/ Agree(x, h.led[T], Len(x))
  PROVE  \E g : KeptBy(h, g, s, T, x, a) /\ Grows(h, g) /\ Core(g) /\ Settled(g)
  <1>1. IsHistory(h)
    BY DEF Core
  <1>2. PICK g : g = Keeping(h, s, T, x, a)
    OBVIOUS
  <1>3. KeptBy(h, g, s, T, x, a)
    BY <1>1, <1>2, KeepingParts
  <1>4. /\ IsHistory(g) /\ g.office = h.office /\ g.sure = h.sure /\ g.led = h.led
        /\ g.log[s] = x /\ g.saved[s] = x /\ g.term[s] = T /\ g.acked[s][T] = a
        /\ \A v \in Server \ {s} : g.term[v] = h.term[v] /\ g.log[v] = h.log[v] /\ g.saved[v] = h.saved[v]
    BY <1>3 DEF KeptBy
  <1>5. \A v \in Server, t \in Nat : v # s \/ t # T => g.acked[v][t] = h.acked[v][t]
    BY <1>3 DEF KeptBy
  <1>6. Grows(h, g) /\ Core(g)
    BY <1>4, <1>5, StoreCore
  <1>7. Settled(g)
    BY <1>1, <1>4, <1>6, SettledKept
  <1> QED BY <1>3, <1>6, <1>7

\* What the follower's log becomes, and how much of it is the leader's.
LEMMA TakenIs ==
  ASSUME Inv, NEW h, HistoryOf(h), NEW m \in net, m.type = "append", Fitting(m)
  PROVE  LET s == m.to
             T == m.term
             k == h.led[T]
             l == rf[s].log
             new == Merged(l, m.prev, m.ents)
             last == m.prev + Len(m.ents)
         IN  \E x \in Log :
                /\ Remains(new, x, h.sure) /\ new.base = l.base /\ last \in Nat /\ last <= Len(x)
                /\ last <= Len(k) /\ LastIndex(new) = Len(x)
                /\ \A n \in Nat : Agree(h.log[s], k, n) => Agree(x, k, n)
                /\ x = h.log[s] \/ Agree(x, k, Len(x))
                /\ Agree(x, k, last) \/ last = l.base
  <1>1. PICK s, T, k, l, last, p : /\ s = m.to /\ T = m.term /\ k = h.led[T] /\ l = rf[s].log
                                   /\ last = m.prev + Len(m.ents) /\ p = h.log[s]
    OBVIOUS
  <1>2. s \in Server /\ T \in Nat /\ EntriesFit(m, h) /\ k \in Log /\ Len(k) \in Nat
    BY <1>1, MessageIs
  <1>3. Carries(k, m.prev, m.ents) /\ m.pterm = TermOf(k, m.prev)
    BY <1>1, <1>2 DEF EntriesFit
  <1>4. /\ Core(h) /\ IsHistory(h) /\ p \in Log /\ h.sure \in Log /\ Remains(l, p, h.sure)
    BY <1>1, <1>2, ServerIs
  <1>5. /\ l.base <= m.prev /\ m.prev <= LastIndex(l) /\ TermAt(l, m.prev) = TermOf(k, m.prev)
    BY <1>1, <1>3 DEF Fitting
  <1>6. LastIndex(l) = Len(p) /\ Len(p) \in Nat /\ l.base \in Nat
    BY <1>4, ReadLog
  <1>7. FromLeaders(p, h) /\ LeaderLogs(h)
    BY <1>1, <1>2, <1>4 DEF Core, ServerLogs
  <1>8. m.prev \in Nat /\ m.ents \in Log /\ Len(m.ents) \in Nat /\ last \in Nat /\ last <= Len(k)
    BY <1>1, <1>3, LogLen DEF Carries
  <1>9. PICK new : new = Merged(l, m.prev, m.ents)
    OBVIOUS
  <1>10. m.prev <= Len(p)
    BY <1>5, <1>6
  <1>11. PICK x \in Log :
            /\ Remains(new, x, h.sure) /\ new.base = l.base /\ last <= Len(x)
            /\ \/ x = p /\ new = l
               \/ ~Agree(p, k, last) /\ Len(x) = last /\ Agree(x, k, last)
            /\ Agree(x, k, last) \/ (x = p /\ m.ents = <<>> /\ m.prev = l.base)
    <2>1. /\ Carries(h.led[T], m.prev, m.ents) /\ TermAt(l, m.prev) = TermOf(h.led[T], m.prev)
          /\ l.base <= m.prev
      BY <1>1, <1>3, <1>5
    <2>2. \E x \in Log :
            LET last_ == m.prev + Len(m.ents)
                new_ == Merged(l, m.prev, m.ents)
                k_ == h.led[T]
            IN  /\ Remains(new_, x, h.sure) /\ new_.base = l.base /\ last_ <= Len(x)
                /\ \/ x = p /\ new_ = l
                   \/ ~Agree(p, k_, last_) /\ Len(x) = last_ /\ Agree(x, k_, last_)
                /\ Agree(x, k_, last_) \/ (x = p /\ m.ents = <<>> /\ m.prev = l.base)
      BY <1>2, <1>4, <1>7, <1>10, <2>1, MergedIs
    <2> QED BY <1>1, <1>9, <2>2
  <1>12. \A n \in Nat : Agree(p, k, n) => Agree(x, k, n)
    <2>1. CASE x = p
      BY <2>1
    <2>2. CASE x # p
      <3> SUFFICES ASSUME NEW n \in Nat, Agree(p, k, n) PROVE Agree(x, k, n)
        OBVIOUS
      <3>1. ~Agree(p, k, last) /\ Agree(x, k, last)
        BY <1>11, <2>2
      <3>2. ~(last <= n)
        BY <1>2, <1>4, <1>8, <3>1, AgreeParts
      <3>3. n <= last
        BY <1>8, <3>2
      <3> QED BY <1>2, <1>8, <3>1, <3>3, AgreeParts
    <2> QED BY <2>1, <2>2
  <1>13. x = p \/ Agree(x, k, Len(x))
    BY <1>11
  <1>14. Agree(x, k, last) \/ last = l.base
    BY <1>1, <1>6, <1>8, <1>11
  <1>15. LastIndex(new) = Len(x)
    BY <1>4, <1>11, ReadLog
  <1> QED BY <1>1, <1>8, <1>9, <1>11, <1>12, <1>13, <1>14, <1>15

\* What the follower has acknowledged once it has the entries.
LEMMA NewAck ==
  ASSUME NEW b \in Nat, NEW n \in Nat, NEW x, NEW k
  PROVE  \E a \in Nat : b <= a /\ (a = b \/ Agree(x, k, a)) /\ (Agree(x, k, n) => n <= a)
  <1>1. CASE Agree(x, k, n) /\ b <= n
    BY <1>1
  <1>2. CASE ~(Agree(x, k, n) /\ b <= n)
    <2>1. b <= b /\ (Agree(x, k, n) => n <= b)
      BY <1>2
    <2> QED BY <2>1
  <1> QED BY <1>1, <1>2

\* The history once the follower has the entries, and what it then knows.
LEMMA TakenHistory ==
  ASSUME Inv, NEW h, HistoryOf(h), NEW m \in net, m.type = "append", Fitting(m)
  PROVE  LET s == m.to
             T == m.term
             l == rf[s].log
             new == Merged(l, m.prev, m.ents)
             last == m.prev + Len(m.ents)
         IN  \E x \in Log, a \in Nat : \E g :
                /\ KeptBy(h, g, s, T, x, a) /\ Grows(h, g) /\ Core(g) /\ Settled(g)
                /\ Remains(new, x, h.sure) /\ new.base = l.base /\ LastIndex(new) = Len(x)
                /\ last \in Nat /\ last <= Len(x) /\ last <= Len(h.led[T])
                /\ last <= a \/ Sure(last, T, g)
                /\ \A n \in Nat : Sure(n, T, h) /\ (Agree(h.log[s], h.sure, n) \/ (n <= last /\ n > l.base)) =>
                     Agree(x, h.sure, n)
  <1>1. PICK s, T, k, l, last, new :
           /\ s = m.to /\ T = m.term /\ k = h.led[T] /\ l = rf[s].log
           /\ last = m.prev + Len(m.ents) /\ new = Merged(l, m.prev, m.ents)
    OBVIOUS
  <1>2. s \in Server /\ T \in Nat /\ EntriesFit(m, h) /\ k \in Log /\ Len(k) \in Nat
    BY <1>1, MessageIs
  <1>3. Led(T, h)
    <2>1. m.from \in Server
      BY MessageIs
    <2> QED BY <1>1, <1>2, <2>1 DEF EntriesFit, Led
  <1>4. /\ Core(h) /\ Settled(h) /\ IsHistory(h) /\ h.log[s] \in Log /\ h.sure \in Log /\ disk[s].term \in Nat
        /\ h.term[s] = disk[s].term /\ disk[s].term <= rf[s].term /\ rf[s].term \in Nat
        /\ l.base \in Nat /\ l.base = disk[s].log.base /\ Sure(l.base, disk[s].term, h)
    BY <1>1, <1>2, ServerIs
  <1>5. rf[s].term <= T /\ disk[s].term <= T /\ h.term[s] <= T
    BY <1>1, <1>2, <1>4 DEF Fitting
  <1>6. PICK x \in Log :
           /\ Remains(new, x, h.sure) /\ new.base = l.base /\ last \in Nat /\ last <= Len(x)
           /\ last <= Len(k) /\ LastIndex(new) = Len(x)
           /\ \A n \in Nat : Agree(h.log[s], k, n) => Agree(x, k, n)
           /\ x = h.log[s] \/ Agree(x, k, Len(x))
           /\ Agree(x, k, last) \/ last = l.base
    BY <1>1, TakenIs
  <1>7. h.acked[s][T] \in Nat
    BY <1>2, <1>4, Parts
  <1>8. PICK a \in Nat : /\ h.acked[s][T] <= a /\ (a = h.acked[s][T] \/ Agree(x, k, a))
                         /\ Agree(x, k, last) => last <= a
    BY <1>6, <1>7, NewAck
  <1>9. \E g : KeptBy(h, g, s, T, x, a) /\ Grows(h, g) /\ Core(g) /\ Settled(g)
    <2>1. h.acked[s][T] <= a /\ (a = h.acked[s][T] \/ Agree(x, h.led[T], a))
      BY <1>1, <1>8
    <2>2. (\A n \in Nat : Agree(h.log[s], h.led[T], n) => Agree(x, h.led[T], n))
          /\ (x = h.log[s] \/ Agree(x, h.led[T], Len(x)))
      BY <1>1, <1>6
    <2> QED BY <1>2, <1>3, <1>4, <1>5, <2>1, <2>2, KeepingIs
  <1>10. PICK g : KeptBy(h, g, s, T, x, a) /\ Grows(h, g) /\ Core(g) /\ Settled(g)
    BY <1>9
  <1>11. last <= a \/ Sure(last, T, g)
    <2>1. CASE Agree(x, k, last)
      BY <1>8, <2>1
    <2>2. CASE last = l.base
      <3>1. IsHistory(g)
        BY <1>10 DEF KeptBy
      <3>2. Sure(l.base, T, g)
        BY <1>2, <1>4, <1>5, <1>10, <3>1, SureKept
      <3> QED BY <2>2, <3>2
    <2> QED BY <1>6, <2>1, <2>2
  <1>12. ASSUME NEW n \in Nat, Sure(n, T, h), Agree(h.log[s], h.sure, n) \/ (n <= last /\ n > l.base)
         PROVE  Agree(x, h.sure, n)
    <2>0. T <= T /\ n <= n
      BY <1>2
    <2>1. Agree(h.sure, k, n)
      BY <1>1, <1>2, <1>3, <1>4, <1>12, <2>0, SureWithLeader
    <2>2. Agree(x, k, n)
      <3>1. CASE Agree(h.log[s], h.sure, n)
        <4>1. Agree(h.log[s], k, n)
          BY <1>2, <1>4, <2>0, <2>1, <3>1, AgreeParts
        <4> QED BY <1>6, <4>1
      <3>2. CASE n <= last /\ n > l.base
        <4>1. Agree(x, k, last)
          BY <1>4, <1>6, <3>2
        <4> QED BY <1>2, <1>6, <3>2, <4>1, AgreeParts
      <3> QED BY <1>12, <3>1, <3>2
    <2>3. Agree(k, h.sure, n)
      BY <1>2, <1>4, <2>0, <2>1, AgreeParts
    <2> QED BY <1>2, <1>4, <1>6, <2>0, <2>2, <2>3, AgreeParts
  <1>13. /\ Remains(new, x, h.sure) /\ new.base = l.base /\ LastIndex(new) = Len(x)
         /\ last \in Nat /\ last <= Len(x) /\ last <= Len(h.led[T])
    BY <1>1, <1>6
  <1> QED BY <1>1, <1>8, <1>10, <1>11, <1>12, <1>13

\* The follower's fields once it has the entries.
LEMMA TakenFields ==
  ASSUME Inv, NEW h, HistoryOf(h), NEW m \in net, m.type = "append", AppendEntriesHandler(m), Fitting(m),
         LastIndex(Merged(rf[m.to].log, m.prev, m.ents)) \in Nat,
         m.commit \in Nat, m.commit <= LastIndex(Merged(rf[m.to].log, m.prev, m.ents))
  PROVE  LET s == m.to
             r == rf[s]
             n == Appended(m, r.term, TRUE, 0, 0)
         IN  \E q : /\ Become(s, q) /\ q.role \notin {"Candidate", "Leader"} /\ q.term = m.term
                    /\ q.log = Merged(r.log, m.prev, m.ents) /\ q.lastApplied = r.lastApplied
                    /\ q.commit = Larger(r.commit, m.commit) /\ Answered(m, n)
  <1> DEFINE s == m.to
             r == Followed(rf[s], m.term)
             new == Merged(rf[s].log, m.prev, m.ents)
             x == IF m.commit > r.commit THEN Smaller(LastIndex(new) + 1, m.commit) ELSE r.commit
             q == [r EXCEPT !.log = new, !.commit = x]
  <1>1. s \in Server /\ m.term \in Nat /\ IsRaft(rf[s]) /\ ~(rf[s].role = "Leader" /\ rf[s].term = m.term)
        /\ rf[s].term \in Nat /\ rf[s].commit \in Nat
    BY MessageIs, ServerIs, KnownIs
  <1>2. /\ rf[s].term <= m.term /\ rf[s].log.base <= m.prev /\ m.prev <= LastIndex(rf[s].log)
        /\ TermAt(rf[s].log, m.prev) = m.pterm
    BY DEF Fitting
  <1>3. r.log = rf[s].log /\ r.commit = rf[s].commit /\ r.lastApplied = rf[s].lastApplied /\ IsRaft(r)
    BY <1>1, FollowersSame, FollowedStays
  <1>4. r.term = m.term /\ r.role # "Candidate" /\ r.role # "Leader"
    BY <1>1, <1>2, FollowedTerm
  <1>5. Become(s, q) /\ Answered(m, Appended(m, rf[s].term, TRUE, 0, 0))
    <2>1. ~(rf[s].term > m.term) /\ ~(m.prev < r.log.base) /\ ~(m.prev > LastIndex(r.log))
          /\ ~(TermAt(r.log, m.prev) # m.pterm)
      <3>1. m.prev \in Nat /\ rf[s].log.base \in Nat /\ LastIndex(rf[s].log) \in Nat
        <4>1. EntriesFit(m, h)
          BY MessageIs
        <4>2. m.prev \in Nat
          BY <4>1 DEF EntriesFit, Carries
        <4>3. rf[s].log.base \in Nat /\ h.log[s] \in Log /\ h.sure \in Log /\ Remains(rf[s].log, h.log[s], h.sure)
          BY <1>1, ServerIs
        <4>4. LastIndex(rf[s].log) \in Nat
          BY <4>3, ReadLog
        <4> QED BY <4>2, <4>3, <4>4
      <3>2. ~(rf[s].term > m.term)
        BY <1>1, <1>2
      <3>3. ~(m.prev < rf[s].log.base) /\ ~(m.prev > LastIndex(rf[s].log))
        BY <1>2, <3>1
      <3> QED BY <1>2, <1>3, <3>2, <3>3
    <2> QED BY <1>3, <2>1 DEF AppendEntriesHandler
  <1>6. /\ q.role = r.role /\ q.term = r.term /\ q.log = new /\ q.lastApplied = r.lastApplied /\ q.commit = x
    <2> HIDE DEF r, new, x
    <2> QED BY <1>3 DEF IsRaft, Field
  <1>7. x = Larger(rf[s].commit, m.commit)
    <2>1. Smaller(LastIndex(new) + 1, m.commit) = m.commit
      <3>1. PICK y : y = LastIndex(new)
        OBVIOUS
      <3>2. y \in Nat /\ m.commit \in Nat /\ m.commit <= y
        BY <3>1
      <3> HIDE DEF new
      <3> QED BY <3>1, <3>2 DEF Smaller
    <2>2. x = IF m.commit > rf[s].commit THEN m.commit ELSE rf[s].commit
      BY <1>3, <2>1
    <2> HIDE DEF x
    <2> QED BY <1>1, <2>2 DEF Larger
  <1> HIDE DEF q, x, new
  <1> QED BY <1>3, <1>4, <1>5, <1>6, <1>7 DEF new

\* Entries are taken.
LEMMA TakeFits ==
  ASSUME LogInv, Inv', NEW m \in net, AppendEntriesHandler(m), Fitting(m)
  PROVE  LogInv'
  <1>1. PICK h : HistoryOf(h) /\ Inv
    BY DEF LogInv
  <1>2. m.type = "append" /\ UNCHANGED <<nextIndex, matchIndex, snapshot, applied, cmds, historyVars>>
    BY DEF AppendEntriesHandler, boundVars
  <1>3. PICK s, T, r, d, next, match, state, old, new, last :
           /\ s = m.to /\ T = m.term /\ r = rf[s] /\ d = disk[s]
           /\ next = nextIndex[s] /\ match = matchIndex[s] /\ state = applied[s] /\ old = snapshot[s]
           /\ new = Merged(r.log, m.prev, m.ents) /\ last = m.prev + Len(m.ents)
    OBVIOUS
  <1>4. s \in Server /\ T \in Nat /\ EntriesFit(m, h) /\ m.from \in Server
    BY <1>1, <1>3, MessageIs
  <1>5. m.commit \in Nat /\ m.commit <= last /\ Sure(m.commit, T, h)
    BY <1>2, <1>3, <1>4 DEF EntriesFit
  <1>5a. PICK x \in Log, a \in Nat : \E g :
           /\ KeptBy(h, g, s, T, x, a) /\ Grows(h, g) /\ Core(g) /\ Settled(g)
           /\ Remains(new, x, h.sure) /\ new.base = r.log.base /\ LastIndex(new) = Len(x)
           /\ last \in Nat /\ last <= Len(x) /\ last <= Len(h.led[T])
           /\ last <= a \/ Sure(last, T, g)
           /\ \A n \in Nat : Sure(n, T, h) /\ (Agree(h.log[s], h.sure, n) \/ (n <= last /\ n > r.log.base)) =>
                Agree(x, h.sure, n)
    BY <1>1, <1>2, <1>3, TakenHistory
  <1>6. PICK g :
           /\ KeptBy(h, g, s, T, x, a) /\ Grows(h, g) /\ Core(g) /\ Settled(g)
           /\ Remains(new, x, h.sure) /\ new.base = r.log.base /\ LastIndex(new) = Len(x)
           /\ last \in Nat /\ last <= Len(x) /\ last <= Len(h.led[T])
           /\ last <= a \/ Sure(last, T, g)
           /\ \A n \in Nat : Sure(n, T, h) /\ (Agree(h.log[s], h.sure, n) \/ (n <= last /\ n > r.log.base)) =>
                Agree(x, h.sure, n)
    BY <1>5a
  <1>7. /\ IsHistory(g) /\ g.office = h.office /\ g.sure = h.sure /\ g.led = h.led
        /\ g.log[s] = x /\ g.saved[s] = x /\ g.term[s] = T /\ g.acked[s][T] = a
        /\ \A v \in Server \ {s} : /\ g.term[v] = h.term[v] /\ g.log[v] = h.log[v]
                                   /\ g.saved[v] = h.saved[v] /\ g.acked[v] = h.acked[v]
    BY <1>6 DEF KeptBy
  <1>8. Len(x) \in Nat /\ LastIndex(new) \in Nat /\ m.commit <= LastIndex(new)
    <2>1. Len(x) \in Nat
      BY LogLen
    <2> QED BY <1>5, <1>6, <2>1
  <1>9. PICK n : n = Appended(m, r.term, TRUE, 0, 0)
    OBVIOUS
  <1>10. PICK q : /\ Become(s, q) /\ q.role \notin {"Candidate", "Leader"} /\ q.term = T
                  /\ q.log = new /\ q.lastApplied = r.lastApplied
                  /\ q.commit = Larger(r.commit, m.commit) /\ Answered(m, n)
    <2>1. LastIndex(Merged(rf[m.to].log, m.prev, m.ents)) \in Nat
          /\ m.commit <= LastIndex(Merged(rf[m.to].log, m.prev, m.ents))
      BY <1>3, <1>8
    <2> QED BY <1>1, <1>2, <1>3, <1>5, <1>9, <2>1, TakenFields
  <1>11. /\ IsHistory(h) /\ Core(h) /\ h.log[s] \in Log /\ h.sure \in Log
         /\ r.term \in Nat /\ d.term \in Nat /\ d.term <= r.term /\ h.term[s] = d.term
         /\ r.log.base \in Nat /\ r.log.base = d.log.base /\ Sure(r.log.base, d.term, h)
         /\ Follows(r, next, match, s, h) /\ Executed(r, d, state, old, h) /\ Stored(r, d, s, h) /\ Knows(r, s, h)
    BY <1>1, <1>3, <1>4, ServerIs
  <1>12. r.term <= T /\ d.term <= T /\ T <= T
    BY <1>3, <1>4, <1>11 DEF Fitting
  <1>13. /\ r.commit \in Nat /\ r.lastApplied \in Nat /\ Known(r) \in Nat /\ r.log.base <= r.lastApplied
         /\ Sure(Known(r), r.term, h) /\ (Known(r) > r.log.base => Agree(h.log[s], h.sure, Known(r)))
    <2>1. Known(rf[s]) \in Nat /\ rf[s].commit \in Nat /\ rf[s].lastApplied \in Nat
      BY <1>1, <1>4, KnownIs
    <2> QED BY <1>3, <1>11, <2>1 DEF Knows
  <1> DEFINE e == Saved(q)
  <1>14. e.term = T /\ e.log = new
    BY <1>10 DEF Saved
  <1> HIDE DEF e
  <1>15. q.commit \in Nat /\ (Known(q) = Known(r) \/ Known(q) = m.commit) /\ Known(q) \in Nat
    BY <1>5, <1>10, <1>13 DEF Known, Larger
  <1>16. Sure(Known(q), T, h) /\ (Known(q) > r.log.base => Agree(x, h.sure, Known(q)))
    <2>1. CASE Known(q) = Known(r)
      <3>1. Sure(Known(r), T, h)
        <4>1. Grows(h, h)
          BY <1>11, GrowsSame
        <4> QED BY <1>4, <1>11, <1>12, <1>13, <4>1, SureKept
      <3> QED BY <1>6, <1>13, <2>1, <3>1
    <2>2. CASE Known(q) = m.commit
      BY <1>5, <1>6, <2>2
    <2> QED BY <1>15, <2>1, <2>2
  <1>17. AllFit(q, e, next, match, state, old, s, g)
    <2>1. Stored(q, e, s, g)
      <3>1. Sure(r.log.base, T, g)
        BY <1>4, <1>6, <1>7, <1>11, <1>12, SureKept
      <3> QED BY <1>6, <1>7, <1>10, <1>12, <1>14, <3>1 DEF Stored
    <2>2. Leads(q, e, s, g)
      BY <1>10 DEF Leads
    <2>3. Knows(q, s, g)
      <3>1. Sure(Known(q), T, g)
        BY <1>4, <1>6, <1>7, <1>11, <1>12, <1>15, <1>16, SureKept
      <3> QED BY <1>6, <1>7, <1>10, <1>13, <1>15, <1>16, <3>1 DEF Knows
    <2>4. Follows(q, next, match, s, g)
      BY <1>10, <1>11 DEF Follows
    <2>5. Executed(q, e, state, old, g)
      <3>1. e.log.base = d.log.base
        BY <1>6, <1>11, <1>14
      <3>2. /\ Grows(h, g) /\ IsHistory(g) /\ q.lastApplied = r.lastApplied
            /\ Stored(r, d, s, h) /\ Knows(r, s, h) /\ Executed(r, d, state, old, h)
        BY <1>6, <1>7, <1>10, <1>11
      <3> QED BY <1>4, <1>11, <3>1, <3>2, ExecutedKept
    <2> QED BY <2>1, <2>2, <2>3, <2>4, <2>5 DEF AllFit
  <1>18. Sets(s, q, e, next, match, state, old)
    <2>1. nextIndex \in [Server -> [Server -> Nat]] /\ matchIndex \in [Server -> [Server -> Nat]] /\ cmds \in Nat
          /\ snapshot = [v \in Server |-> snapshot[v]] /\ applied = [v \in Server |-> applied[v]]
      BY <1>1 DEF HistoryOf
    <2>2. /\ next \in [Server -> Nat] /\ match \in [Server -> Nat] /\ cmds' \in Nat
          /\ nextIndex' = [nextIndex EXCEPT ![s] = next] /\ matchIndex' = [matchIndex EXCEPT ![s] = match]
      BY <1>2, <1>3, <1>4, <2>1
    <2>3. snapshot' = [snapshot EXCEPT ![s] = old] /\ applied' = [applied EXCEPT ![s] = state]
      BY <1>2, <1>3, <1>4, <2>1
    <2> QED BY <1>2, <1>10, <2>2, <2>3 DEF Sets, Become, e
  <1>19. Advances(h, g, s)
    BY <1>6, <1>7 DEF Advances
  <1>20. Continues(s, q, h, g)
    BY <1>10 DEF Continues
  <1>21. n.type \notin {"vote", "voted"} /\ EntriesFit(n, g) /\ SnapshotFits(n, g)
    <2>1. /\ n.type = "appended" /\ n.from = s /\ n.term = T /\ n.rterm = r.term /\ n.match = last
          /\ n.cindex = 0 /\ n.ok = TRUE
      BY <1>3, <1>9 DEF Appended
    <2>2. PICK k \in Nat : k = Len(g.led[T])
      <3>1. g.led[T] \in Log
        BY <1>4, <1>7 DEF IsHistory
      <3> QED BY <3>1, LogLen
    <2>3. last <= k /\ 0 \in Nat /\ 0 <= k + 1
      BY <1>6, <1>7, <2>2
    <2> QED BY <1>6, <1>7, <1>12, <2>1, <2>2, <2>3 DEF EntriesFit, SnapshotFits
  <1>22. NewFit(g)
    <2>1. \A y \in net' : y \in net \/ y = n
      BY <1>10 DEF Answered
    <2>2. MessageFits(n, g)'
      BY <1>21 DEF MessageFits, VoteFits, EntriesFit, SnapshotFits
    <2> QED BY <1>21, <2>1, <2>2, NothingAsked DEF NewFit
  <1> QED BY <1>1, <1>4, <1>17, <1>18, <1>19, <1>20, <1>22, ChangeStep

\* The history in which a leader has saved its log, and knows it to be stored up to n.
LEMMA OwnAck ==
  ASSUME Inv, NEW h, HistoryOf(h), NEW s \in Server, NEW T, T = rf[s].term, rf[s].role = "Leader",
         NEW n \in Nat, n <= Len(h.led[T])
  PROVE  \E a \in Nat : \E g :
           /\ KeptBy(h, g, s, T, h.log[s], a) /\ Grows(h, g) /\ Core(g) /\ Settled(g)
           /\ n <= a
  <1>1. /\ Core(h) /\ Settled(h) /\ IsHistory(h) /\ T \in Nat /\ Led(T, h) /\ h.log[s] = h.led[T]
        /\ h.log[s] \in Log /\ h.term[s] = disk[s].term /\ disk[s].term = T
    BY ServerIs
  <1>2. PICK k, b : k = h.led[T] /\ b = h.acked[s][T]
    OBVIOUS
  <1>3. k \in Log /\ Len(k) \in Nat /\ b \in Nat /\ b <= Len(k) /\ k = h.log[s]
    BY <1>1, <1>2, Parts DEF Core, AckedHeld
  <1>4. \E a \in Nat : a <= Len(k) /\ b <= a /\ n <= a
    BY <1>2, <1>3
  <1>5. PICK a \in Nat : a <= Len(k) /\ b <= a /\ n <= a
    BY <1>4
  <1>6. Agree(k, k, a)
    BY <1>3, <1>5 DEF Agree
  <1>7. h.acked[s][T] <= a /\ Agree(h.log[s], h.led[T], a)
    BY <1>2, <1>3, <1>5, <1>6
  <1>8. h.term[s] <= T
    BY <1>1
  <1>8a. PICK g : KeptBy(h, g, s, T, h.log[s], a) /\ Grows(h, g) /\ Core(g) /\ Settled(g)
    BY <1>1, <1>7, <1>8, KeepingIs
  <1> QED BY <1>5, <1>8a

\* A leader hears that entries have been taken.
LEMMA AcceptedFits ==
  ASSUME LogInv, Inv', NEW m \in net, AppendReply(m), Counts(rf[m.to], m), m.ok
  PROVE  LogInv'
  <1>1. PICK h : HistoryOf(h) /\ Inv
    BY DEF LogInv
  <1>2. PICK s, f, T, r, d, next, match, state, old :
           /\ s = m.to /\ f = m.from /\ T = m.term /\ r = rf[s] /\ d = disk[s]
           /\ next = nextIndex[s] /\ match = matchIndex[s] /\ state = applied[s] /\ old = snapshot[s]
    OBVIOUS
  <1>3. PICK x, y : x = Larger(next[f], m.match + 1) /\ y = Larger(match[f], m.match)
    OBVIOUS
  <1>4. s \in Server /\ f \in Server /\ f # s /\ T \in Nat /\ EntriesFit(m, h) /\ m.type = "appended" /\ m.rterm \in Nat
    BY <1>1, <1>2, MessageIs DEF AppendReply, IsMessage, Requests
  <1>5. r.role = "Leader" /\ r.term = T
    BY <1>2 DEF Counts
  <1>6. /\ Core(h) /\ IsHistory(h) /\ IsRaft(r) /\ Stored(r, d, s, h) /\ Knows(r, s, h) /\ d.term \in Nat
        /\ Follows(r, next, match, s, h) /\ Executed(r, d, state, old, h) /\ <<T, s>> \in h.office
        /\ h.log[s] = h.led[T] /\ h.log[s] \in Log /\ Len(h.log[s]) \in Nat
    BY <1>1, <1>2, <1>4, <1>5, ServerIs
  <1>7. /\ m.rterm <= T /\ m.match \in Nat /\ m.match <= Len(h.led[T])
        /\ m.match <= h.acked[f][T] \/ Sure(m.match, T, h)
    BY <1>2, <1>4 DEF EntriesFit
  <1>8. /\ Become(s, r) /\ nextIndex' = [nextIndex EXCEPT ![s][f] = x] /\ matchIndex' = [matchIndex EXCEPT ![s][f] = y]
        /\ UNCHANGED <<snapshot, applied, cmds, historyVars>> /\ net' = net \ {m}
    <2>1. ~(m.rterm > r.term)
      BY <1>4, <1>5, <1>7
    <2> QED BY <1>2, <1>3, <2>1 DEF AppendReply, boundVars, Matched
  <1>8a. PICK a \in Nat : \E g : KeptBy(h, g, s, T, h.log[s], a) /\ Grows(h, g) /\ Core(g) /\ Settled(g) /\ m.match <= a
    BY <1>1, <1>2, <1>4, <1>5, <1>7, OwnAck
  <1>9. PICK g : KeptBy(h, g, s, T, h.log[s], a) /\ Grows(h, g) /\ Core(g) /\ Settled(g) /\ m.match <= a
    BY <1>8a
  <1>10. /\ IsHistory(g) /\ g.office = h.office /\ g.sure = h.sure /\ g.led = h.led
         /\ g.log[s] = h.log[s] /\ g.saved[s] = h.log[s] /\ g.term[s] = T /\ g.acked[s][T] = a
         /\ \A v \in Server \ {s} : /\ g.term[v] = h.term[v] /\ g.log[v] = h.log[v]
                                    /\ g.saved[v] = h.saved[v] /\ g.acked[v] = h.acked[v]
    BY <1>9 DEF KeptBy
  <1>11. /\ nextIndex \in [Server -> [Server -> Nat]] /\ matchIndex \in [Server -> [Server -> Nat]] /\ cmds \in Nat
         /\ snapshot = [v \in Server |-> snapshot[v]] /\ applied = [v \in Server |-> applied[v]]
    BY <1>1 DEF HistoryOf
  <1>12. match[f] \in Nat /\ next[f] \in Nat /\ next[f] <= Len(h.log[s]) + 1
    <2>1. match[f] \in Nat /\ next[f] \in Nat
      BY <1>2, <1>4, <1>11
    <2> QED BY <1>4, <1>5, <1>6, <2>1 DEF Follows
  <1>13. x \in Nat /\ y \in Nat /\ x <= Len(h.log[s]) + 1 /\ y \in {match[f], m.match}
    <2>1. PICK n \in Nat : n = Len(h.log[s]) /\ m.match <= n
      BY <1>6, <1>7
    <2>2. x <= n + 1
      BY <1>3, <1>7, <1>12, <2>1 DEF Larger
    <2> QED BY <1>3, <1>7, <1>12, <2>1, <2>2 DEF Larger
  <1>14. Follows(r, [next EXCEPT ![f] = x], [match EXCEPT ![f] = y], s, g)
    <2>1. Follows(r, next, match, s, g)
      <3>1. Len(h.log[s]) <= Len(g.log[s]) /\ r.term \in Nat
        BY <1>4, <1>5, <1>6, <1>10
      <3> QED BY <1>4, <1>6, <1>9, <1>10, <3>1, FollowsKept
    <2>2. x <= Len(g.log[s]) + 1
      BY <1>10, <1>13
    <2>3. \/ y = match[f]
          \/ y <= g.acked[s][r.term] /\ y <= g.acked[f][r.term]
          \/ Sure(y, r.term, g)
      <3>1. T <= T
        BY <1>4
      <3>2. Sure(m.match, T, h) => Sure(m.match, T, g)
        BY <1>4, <1>6, <1>7, <1>9, <1>10, <3>1, SureKept
      <3> QED BY <1>4, <1>5, <1>7, <1>9, <1>10, <1>13, <3>2
    <2> QED BY <1>4, <1>13, <2>1, <2>2, <2>3, FollowsSet
  <1> DEFINE e == Saved(r)
  <1>15. AllFit(r, e, [next EXCEPT ![f] = x], [match EXCEPT ![f] = y], state, old, s, g)
    <2>1. Stored(r, Saved(r), s, g) /\ Knows(r, s, g) /\ Saved(r).log.base = d.log.base
      <3>1. r.term \in Nat /\ r.term <= r.term /\ g.term[s] = r.term
        BY <1>4, <1>5, <1>10
      <3> QED BY <1>4, <1>6, <1>9, <1>10, <3>1, PersistedKept
    <2>2. Leads(r, e, s, g)
      BY <1>5, <1>6, <1>10 DEF Leads, Saved
    <2> HIDE DEF e
    <2>3. e.log.base = d.log.base
      BY <2>1 DEF e
    <2>4. Executed(r, e, state, old, g)
      BY <1>4, <1>6, <1>9, <1>10, <2>3, ExecutedKept
    <2> QED BY <1>14, <2>1, <2>2, <2>4 DEF AllFit, e
  <1>16. Sets(s, r, e, [next EXCEPT ![f] = x], [match EXCEPT ![f] = y], state, old)
    <2>1. /\ [next EXCEPT ![f] = x] \in [Server -> Nat] /\ [match EXCEPT ![f] = y] \in [Server -> Nat] /\ cmds' \in Nat
          /\ nextIndex' = [nextIndex EXCEPT ![s] = [next EXCEPT ![f] = x]]
          /\ matchIndex' = [matchIndex EXCEPT ![s] = [match EXCEPT ![f] = y]]
      BY <1>2, <1>4, <1>8, <1>11, <1>13
    <2>2. snapshot' = [snapshot EXCEPT ![s] = old] /\ applied' = [applied EXCEPT ![s] = state]
      BY <1>2, <1>4, <1>8, <1>11
    <2>3. rf' = [rf EXCEPT ![s] = r] /\ disk' = [disk EXCEPT ![s] = e] /\ UNCHANGED historyVars
      BY <1>8 DEF Become
    <2> HIDE DEF e
    <2> QED BY <2>1, <2>2, <2>3 DEF Sets
  <1> HIDE DEF e
  <1>17. Advances(h, g, s)
    BY <1>9, <1>10 DEF Advances
  <1>18. Continues(s, r, h, g)
    BY <1>5 DEF Continues
  <1>19. NewFit(g)
    <2>1. \A n \in net' : n \in net
      BY <1>8
    <2> QED BY <2>1, NothingAsked DEF NewFit
  <1> QED BY <1>1, <1>4, <1>15, <1>16, <1>17, <1>18, <1>19, ChangeStep

\* What is left of a log once a snapshot is put under it.
LEMMA InstalledLog ==
  ASSUME NEW l, NEW p \in Log, NEW c \in Log, Remains(l, p, c), NEW i \in Nat, l.base <= i, i <= Len(c)
  PROVE  LET ents == IF LastIndex(l) <= i THEN <<>> ELSE From(l, i + 1)
             k == [base |-> i, bterm |-> TermOf(c, i), ents |-> ents]
         IN  \E x \in Log : /\ Remains(k, x, c)
                            /\ x = p \/ (Len(x) = i /\ Agree(x, c, i) /\ Len(p) <= i)
  <1> DEFINE ents == IF LastIndex(l) <= i THEN <<>> ELSE From(l, i + 1)
             k == [base |-> i, bterm |-> TermOf(c, i), ents |-> ents]
  <1>1. /\ LastIndex(l) = Len(p) /\ Len(p) \in Nat /\ l.base \in Nat /\ TermOf(c, i) \in Nat
    BY ReadLog, TermHas
  <1>2. k.base = i /\ k.bterm = TermOf(c, i) /\ k.ents = ents
        /\ k = [base |-> k.base, bterm |-> k.bterm, ents |-> k.ents]
    OBVIOUS
  <1>3. CASE Len(p) <= i
    <2>1. PICK x : x = SubSeq(c, 1, i)
      OBVIOUS
    <2>2. x \in Log /\ Len(x) = i /\ Agree(x, c, i)
      BY <2>1, FirstPart
    <2>3. ents = <<>> /\ <<>> \in Log /\ Len(<<>>) = 0 /\ DOMAIN <<>> = {}
      BY <1>1, <1>3 DEF Log
    <2> HIDE DEF k, ents
    <2>4. Remains(k, x, c)
      <3>1. IsLog(k)
        BY <1>1, <1>2, <2>3 DEF IsLog
      <3>2. Len(x) = i + Len(k.ents) /\ DOMAIN k.ents = {}
        BY <1>2, <2>2, <2>3
      <3> QED BY <1>2, <2>2, <3>1, <3>2 DEF Remains
    <2> QED BY <1>3, <2>2, <2>4 DEF k, ents
  <1>4. CASE ~(Len(p) <= i)
    <2>1. ents = From(l, i + 1)
      BY <1>1, <1>4
    <2>2. i + 1 \in Nat /\ l.base < i + 1 /\ i + 1 <= Len(p) + 1
      BY <1>1, <1>4
    <2> HIDE DEF k, ents
    <2>3. /\ ents \in Log /\ Len(ents) = Len(p) + 1 - (i + 1)
          /\ \A n \in DOMAIN ents : ents[n] = p[i + 1 - 1 + n]
      BY <2>1, <2>2, FromIs
    <2>4. Len(p) = i + Len(ents) /\ Len(p) # i
      BY <1>1, <1>4, <2>3
    <2>5. ASSUME NEW n \in DOMAIN ents PROVE p[i + n] = ents[n]
      <3>1. i + 1 - 1 + n = i + n
        <4>1. n \in Nat
          BY <2>3, EntryAt DEF Pos
        <4> QED BY <4>1
      <3> QED BY <2>3, <3>1
    <2>6. Remains(k, p, c)
      <3>1. IsLog(k)
        BY <1>1, <1>2, <2>3 DEF IsLog
      <3> QED BY <1>2, <2>4, <2>5, <3>1 DEF Remains
    <2> QED BY <2>6 DEF k, ents
  <1> QED BY <1>3, <1>4

\* The history once a snapshot has been taken in.
LEMMA InstalledHistory ==
  ASSUME Inv, NEW h, HistoryOf(h), NEW m \in net, m.type = "install", rf[m.to].term <= m.term,
         rf[m.to].log.base <= m.index
  PROVE  LET s == m.to
             T == m.term
             l == rf[s].log
             k == [base |-> m.index, bterm |-> m.iterm,
                   ents |-> IF LastIndex(l) <= m.index THEN <<>> ELSE From(l, m.index + 1)]
         IN  \E x \in Log, a \in Nat : \E g :
                /\ KeptBy(h, g, s, T, x, a) /\ Grows(h, g) /\ Core(g) /\ Settled(g)
                /\ Remains(k, x, h.sure) /\ m.index \in Nat /\ Sure(m.index, T, g)
                /\ m.data = Commands(h.sure, m.index)
  <1>1. PICK s, T, l, p, i : s = m.to /\ T = m.term /\ l = rf[s].log /\ p = h.log[s] /\ i = m.index
    OBVIOUS
  <1>2. s \in Server /\ T \in Nat /\ m.from \in Server /\ SnapshotFits(m, h)
    BY <1>1, MessageIs
  <1>3. /\ i \in Nat /\ Sure(i, T, h) /\ m.data = Commands(h.sure, i) /\ m.iterm = TermOf(h.sure, i)
        /\ <<T, m.from>> \in h.office
    BY <1>1, <1>2 DEF SnapshotFits
  <1>4. /\ Core(h) /\ Settled(h) /\ IsHistory(h) /\ p \in Log /\ Len(p) \in Nat /\ h.sure \in Log /\ Remains(l, p, h.sure)
        /\ h.term[s] = disk[s].term /\ disk[s].term <= rf[s].term /\ disk[s].term \in Nat /\ rf[s].term \in Nat
    BY <1>1, <1>2, ServerIs
  <1>5. i <= Len(h.sure) /\ Led(T, h) /\ h.term[s] <= T /\ T <= T
    <2>1. i <= Len(h.sure)
      BY <1>3, <1>4, SureLen
    <2> QED BY <1>1, <1>2, <1>3, <1>4, <2>1 DEF Led
  <1>6. PICK k : k = h.led[T]
    OBVIOUS
  <1>7. k \in Log /\ h.acked[s][T] \in Nat /\ Agree(h.sure, k, i)
    BY <1>2, <1>3, <1>4, <1>5, <1>6, Parts, SureWithLeader
  <1>8. PICK new : new = [base |-> i, bterm |-> TermOf(h.sure, i),
                          ents |-> IF LastIndex(l) <= i THEN <<>> ELSE From(l, i + 1)]
    OBVIOUS
  <1>9. PICK x \in Log : Remains(new, x, h.sure) /\ (x = p \/ (Len(x) = i /\ Agree(x, h.sure, i) /\ Len(p) <= i))
    <2>1. l.base <= i
      BY <1>1
    <2> QED BY <1>3, <1>4, <1>5, <1>8, <2>1, InstalledLog
  <1>10. x = p \/ (Agree(x, k, Len(x)) /\ Len(x) = i /\ Len(p) <= i)
    <2>1. i <= i
      BY <1>3
    <2> QED BY <1>3, <1>4, <1>7, <1>9, <2>1, AgreeParts
  <1>11. \A n \in Nat : Agree(p, k, n) => Agree(x, k, n)
    <2>1. CASE x = p
      BY <2>1
    <2>2. CASE x # p
      <3> SUFFICES ASSUME NEW n \in Nat, Agree(p, k, n) PROVE Agree(x, k, n)
        OBVIOUS
      <3>1. Agree(x, k, i) /\ Len(p) <= i
        BY <1>10, <2>2
      <3>2. n <= Len(p)
        BY DEF Agree
      <3>3. n <= i
        BY <1>3, <1>4, <3>1, <3>2
      <3> QED BY <1>3, <1>7, <3>1, <3>3, AgreeParts
    <2> QED BY <2>1, <2>2
  <1>12. PICK a : a = h.acked[s][T]
    OBVIOUS
  <1>13. a \in Nat /\ h.acked[s][T] <= a
    BY <1>7, <1>12
  <1>14. (\A n \in Nat : Agree(h.log[s], h.led[T], n) => Agree(x, h.led[T], n))
         /\ (x = h.log[s] \/ Agree(x, h.led[T], Len(x)))
    BY <1>1, <1>6, <1>10, <1>11
  <1>15. PICK g : KeptBy(h, g, s, T, x, a) /\ Grows(h, g) /\ Core(g) /\ Settled(g)
    BY <1>2, <1>4, <1>5, <1>12, <1>13, <1>14, KeepingIs
  <1>16. Sure(i, T, g)
    <2>1. IsHistory(g)
      BY <1>15 DEF KeptBy
    <2> QED BY <1>2, <1>3, <1>4, <1>5, <1>15, <2>1, SureKept
  <1> QED BY <1>1, <1>3, <1>8, <1>9, <1>13, <1>15, <1>16

\* A snapshot is taken in.
LEMMA TakeInFits ==
  ASSUME LogInv, Inv', NEW m \in net, m.type = "install", InstallReturns(m), Taken(m),
         ~Panics(Followed(rf[m.to], m.term), m)
  PROVE  LogInv'
  <1>1. PICK h : HistoryOf(h) /\ Inv
    BY DEF LogInv
  <1>2. PICK s, T, r, i, next, match, q, n :
           /\ s = m.to /\ T = m.term /\ r = Followed(rf[s], T) /\ i = m.index
           /\ next = nextIndex[s] /\ match = matchIndex[s] /\ q = Installed(r, m)
           /\ n = [type |-> "installed", from |-> s, to |-> m.from, term |-> T,
                   rterm |-> rf[s].term, index |-> i, data |-> m.data]
    OBVIOUS
  <1>3. /\ m.type = "install" /\ rf[s].term <= T /\ Accepts(r, m) /\ ~(i < r.log.base)
        /\ Answered(m, n) /\ Become(s, q) /\ snapshot' = [snapshot EXCEPT ![s] = m.data]
        /\ applied' = [applied EXCEPT ![s] = m.data] /\ UNCHANGED <<nextIndex, matchIndex, cmds, historyVars>>
    BY <1>2 DEF InstallReturns, Taken, Panics, boundVars
  <1>4. /\ s \in Server /\ T \in Nat /\ IsRaft(rf[s]) /\ rf[s].log.base \in Nat
        /\ ~(rf[s].role = "Leader" /\ rf[s].term = T) /\ SnapshotFits(m, h)
    BY <1>1, <1>2, <1>3, MessageIs, ServerIs
  <1>5. /\ r.log = rf[s].log /\ IsRaft(r) /\ r.term = T /\ r.role # "Candidate" /\ r.role # "Leader"
    <2> DEFINE f == Followed(rf[s], T)
    <2>1. rf[s].term <= T /\ T \in Nat /\ IsRaft(rf[s]) /\ ~(rf[s].role = "Leader" /\ rf[s].term = T)
      BY <1>3, <1>4, Zenon
    <2>2. IsRaft(f)
      BY <2>1, FollowedStays, Zenon
    <2>3. f.log = rf[s].log
      BY <2>1, FollowersSame, Zenon
    <2>4. f.term = T /\ f.role # "Candidate" /\ (f.role = "Leader" => rf[s].role = "Leader" /\ rf[s].term = T)
      BY <2>1, FollowedTerm, Zenon
    <2>5. r = f
      BY <1>2, Zenon
    <2> HIDE DEF f
    <2> QED BY <2>1, <2>2, <2>3, <2>4, <2>5, Zenon
  <1>6. PICK k : k = [base |-> i, bterm |-> m.iterm,
                      ents |-> IF LastIndex(rf[s].log) <= i THEN <<>> ELSE From(rf[s].log, i + 1)]
    OBVIOUS
  <1>7. PICK x \in Log, a \in Nat : \E g :
           /\ KeptBy(h, g, s, T, x, a) /\ Grows(h, g) /\ Core(g) /\ Settled(g)
           /\ Remains(k, x, h.sure) /\ i \in Nat /\ Sure(i, T, g) /\ m.data = Commands(h.sure, i)
    <2>1. rf[m.to].term <= m.term /\ rf[m.to].log.base <= m.index
      <3>1. m.index \in Nat
        BY <1>3, <1>4 DEF SnapshotFits
      <3> QED BY <1>2, <1>3, <1>4, <1>5, <3>1
    <2> QED BY <1>1, <1>2, <1>3, <1>6, <2>1, InstalledHistory
  <1>8. PICK g :
           /\ KeptBy(h, g, s, T, x, a) /\ Grows(h, g) /\ Core(g) /\ Settled(g)
           /\ Remains(k, x, h.sure) /\ i \in Nat /\ Sure(i, T, g) /\ m.data = Commands(h.sure, i)
    BY <1>7
  <1>9. /\ IsHistory(g) /\ g.office = h.office /\ g.sure = h.sure /\ g.led = h.led
        /\ g.log[s] = x /\ g.saved[s] = x /\ g.term[s] = T
        /\ \A v \in Server \ {s} : /\ g.term[v] = h.term[v] /\ g.log[v] = h.log[v]
                                   /\ g.saved[v] = h.saved[v] /\ g.acked[v] = h.acked[v]
    BY <1>8 DEF KeptBy
  <1>10. /\ q.role = r.role /\ q.term = T /\ q.commit = i /\ q.lastApplied = i /\ q.log = k
    <2>1. PICK ents : ents = IF LastIndex(r.log) <= i THEN <<>> ELSE From(r.log, i + 1)
      OBVIOUS
    <2>2. q = [r EXCEPT !.commit = i, !.lastApplied = i, !.log = [base |-> i, bterm |-> m.iterm, ents |-> ents]]
      BY <1>2, <2>1 DEF Installed
    <2>3. k = [base |-> i, bterm |-> m.iterm, ents |-> ents]
      BY <1>5, <1>6, <2>1
    <2> QED BY <1>5, <2>2, <2>3 DEF IsRaft, Field
  <1>11. k.base = i
    BY <1>6
  <1> DEFINE e == Saved(q)
  <1>12. e.term = T /\ e.log = k
    BY <1>10 DEF Saved
  <1> HIDE DEF e
  <1>13. nextIndex \in [Server -> [Server -> Nat]] /\ matchIndex \in [Server -> [Server -> Nat]] /\ cmds \in Nat
    BY <1>1 DEF HistoryOf
  <1>14. next \in [Server -> Nat] /\ match \in [Server -> Nat]
    BY <1>2, <1>4, <1>13
  <1>15. AllFit(q, e, next, match, m.data, m.data, s, g)
    <2>1. Stored(q, e, s, g)
      <3>1. T <= T
        BY <1>4
      <3> QED BY <1>8, <1>9, <1>10, <1>11, <1>12, <3>1 DEF Stored
    <2>2. Leads(q, e, s, g)
      BY <1>5, <1>10 DEF Leads
    <2>3. Knows(q, s, g)
      <3>1. Known(q) = i /\ i <= i /\ ~(i > i)
        BY <1>8, <1>10 DEF Known, Larger
      <3> QED BY <1>8, <1>10, <1>11, <3>1 DEF Knows
    <2>4. Follows(q, next, match, s, g)
      BY <1>5, <1>10, <1>14 DEF Follows
    <2>5. Executed(q, e, m.data, m.data, g)
      BY <1>8, <1>9, <1>10, <1>11, <1>12 DEF Executed
    <2> QED BY <2>1, <2>2, <2>3, <2>4, <2>5 DEF AllFit
  <1>16. Sets(s, q, e, next, match, m.data, m.data)
    <2>1. cmds' \in Nat /\ nextIndex' = [nextIndex EXCEPT ![s] = next] /\ matchIndex' = [matchIndex EXCEPT ![s] = match]
      BY <1>2, <1>3, <1>4, <1>13
    <2> QED BY <1>3, <1>14, <2>1 DEF Sets, Become, e
  <1>17. Advances(h, g, s)
    BY <1>8, <1>9 DEF Advances
  <1>18. Continues(s, q, h, g)
    BY <1>5, <1>10 DEF Continues
  <1>19. NewFit(g)
    <2>1. \A y \in net' : y \in net \/ y = n
      BY <1>3 DEF Answered
    <2>2. n.type = "installed" /\ n.term = T /\ n.index = i /\ n.data = m.data
      BY <1>2
    <2>3. MessageFits(n, g)'
      BY <1>8, <1>9, <2>2 DEF MessageFits, VoteFits, EntriesFit, SnapshotFits
    <2> QED BY <2>1, <2>2, <2>3, NothingAsked DEF NewFit
  <1> QED BY <1>1, <1>4, <1>15, <1>16, <1>17, <1>18, <1>19, ChangeStep

-----------------------------------------------------------------------------
(* Every step. *)

\* At first all logs are empty.
LEMMA LogInit == Init => LogInv
  <1> SUFFICES ASSUME Init PROVE LogInv
    OBVIOUS
  <1>1. PICK none, h :
          /\ none = <<>>
          /\ h = [led |-> [t \in Nat |-> none], acked |-> [s \in Server |-> [t \in Nat |-> 0]], sure |-> none,
                  log |-> [s \in Server |-> none], saved |-> [s \in Server |-> none],
                  term |-> [s \in Server |-> 0], office |-> {}]
    OBVIOUS
  <1>2. none \in Log /\ Len(none) = 0 /\ DOMAIN none = {}
    BY <1>1 DEF Log
  <1>3. /\ h.led = [t \in Nat |-> none] /\ h.acked = [s \in Server |-> [t \in Nat |-> 0]] /\ h.sure = none
        /\ h.log = [s \in Server |-> none] /\ h.saved = [s \in Server |-> none]
        /\ h.term = [s \in Server |-> 0] /\ h.office = {}
    BY <1>1
  <1>4. IsHistory(h)
    BY <1>2, <1>3 DEF IsHistory
  <1>5. Agree(none, none, 0) /\ FromLeaders(none, h) /\ \A t : ~Led(t, h)
    BY <1>2, <1>3 DEF Agree, FromLeaders, Led
  <1>6. /\ \A t \in Nat : h.led[t] = none
        /\ \A s \in Server : h.log[s] = none /\ h.saved[s] = none /\ h.term[s] = 0 /\ \A t \in Nat : h.acked[s][t] = 0
    BY <1>3
  <1>7. Core(h)
    <2>1. LeaderLogs(h)
      BY <1>2, <1>5, <1>6 DEF LeaderLogs
    <2>2. ServerLogs(h)
      BY <1>2, <1>5, <1>6 DEF ServerLogs
    <2>3. AckedHeld(h)
      BY <1>2, <1>5, <1>6 DEF AckedHeld
    <2>4. AckedKept(h)
      BY <1>6 DEF AckedKept
    <2>5. LaterLeaders(h) /\ Backed(h)
      BY <1>5 DEF LaterLeaders, Backed
    <2> QED BY <1>4, <2>1, <2>2, <2>3, <2>4, <2>5 DEF Core
  <1>8. \A u : Sure(0, u, h)
    BY DEF Sure
  <1>9. Settled(h)
    BY <1>2, <1>3, <1>8 DEF Settled
  <1>10. Remains(EmptyLog, none, none) /\ EmptyLog.base = 0
    BY <1>1, <1>2, <1>5 DEF Remains, EmptyLog, IsLog, TermOf
  <1>11. Commands(none, 0) = none
    BY <1>1 DEF Commands
  <1> DEFINE r == NewRaft(NewDisk)
             d == NewDisk
  <1>12. /\ r.role = "Follower" /\ r.term = 0 /\ r.log = EmptyLog /\ r.commit = 0 /\ r.lastApplied = 0
         /\ d.term = 0 /\ d.log = EmptyLog
    BY <1>10 DEF NewRaft, NewDisk
  <1> HIDE DEF r, d
  <1>13. ASSUME NEW s \in Server PROVE ServerFits(s, h) /\ Runs(s, h)
    <2>1. /\ rf[s] = r /\ disk[s] = d /\ applied[s] = none /\ snapshot[s] = none
          /\ nextIndex[s] \in [Server -> Nat] /\ matchIndex[s] \in [Server -> Nat]
      BY <1>1 DEF Init, r, d
    <2>2. Stored(r, d, s, h)
      BY <1>3, <1>6, <1>8, <1>10, <1>12 DEF Stored
    <2>3. Leads(r, d, s, h)
      BY <1>12 DEF Leads
    <2>4. Knows(r, s, h)
      BY <1>8, <1>10, <1>12 DEF Knows, Known, Larger
    <2>5. Follows(r, nextIndex[s], matchIndex[s], s, h)
      BY <1>12, <2>1 DEF Follows
    <2>6. Executed(r, d, none, none, h)
      BY <1>3, <1>10, <1>11, <1>12 DEF Executed
    <2> QED BY <1>12, <2>1, <2>2, <2>3, <2>4, <2>5, <2>6 DEF ServerFits, Runs
  <1>14. HistoryOf(h)
    <2>1. /\ nextIndex \in [Server -> [Server -> Nat]] /\ matchIndex \in [Server -> [Server -> Nat]]
          /\ snapshot = [s \in Server |-> snapshot[s]] /\ applied = [s \in Server |-> applied[s]]
          /\ cmds \in Nat /\ net = {} /\ elected = {}
      BY DEF Init
    <2> QED BY <1>3, <1>7, <1>9, <1>13, <2>1 DEF HistoryOf
  <1> QED BY <1>14, InvInit DEF LogInv

\* As long as tickers are in step, every step keeps the invariant.
LEMMA LogNext == LogInv /\ [Next]_vars => outOfStep' \/ LogInv'
  <1> SUFFICES ASSUME LogInv, [Next]_vars, ~outOfStep' PROVE LogInv'
    OBVIOUS
  <1>1. Inv /\ Inv'
    BY InvNext DEF LogInv
  <1>2. ASSUME NEW s \in Server, ServerStep(s) PROVE LogInv'
    <2>1. CASE TickerTakes(s) \/ TickerFollows(s)
      <3>1. UNCHANGED <<rf, disk, net, historyVars>>
        BY <1>1, <2>1, FollowsNothing
      <3>2. UNCHANGED <<snapshot, nextIndex, matchIndex, applied, cmds>>
        BY <2>1 DEF TickerTakes, TickerFollows, boundVars
      <3> QED BY <1>1, <3>1, <3>2, LostFits
    <2>2. CASE \E t \in ticker[s].asking : sendAllRequestVote(s, t)
      BY <1>1, <2>2, AskFits
    <2>3. CASE Restart(s)
      BY <1>1, <2>3, RestartFits DEF Restart
    <2> QED BY <1>1, <1>2, <2>1, <2>2, <2>3, TimeoutFits, StartFits, SendFits, CommitFits, ApplyFits,
               SnapshotKeepsLog DEF ServerStep
  <1>3. ASSUME NEW m \in net, MessageStep(m) PROVE LogInv'
    <2>1. ASSUME Lose(m) PROVE LogInv'
      <3>1. m.from \in Server
        BY <1>1 DEF Inv, Types, IsMessage
      <3>2. UNCHANGED <<rf, disk, snapshot, nextIndex, matchIndex, applied, cmds, historyVars>> /\ net' \subseteq net
        BY <2>1 DEF Lose, boundVars
      <3> QED BY <1>1, <3>1, <3>2, LostFits
    <2>2. ASSUME AppendEntriesHandler(m) PROVE LogInv'
      BY <1>1, <2>2, RefuseFits, TakeFits
    <2>3. ASSUME AppendReply(m) PROVE LogInv'
      BY <1>1, <2>3, RefusedFits, AcceptedFits
    <2>4. ASSUME InstallSnapshotHandler(m) PROVE LogInv'
      <3>1. m.to \in Server /\ m.type = "install"
        BY <1>1, <2>4, InstallCases DEF Inv, Types, IsMessage
      <3>2. CASE \E messages \in SUBSET net : StartedAgain(m.to, messages)
        BY <1>1, <3>1, <3>2, RestartFits
      <3>3. CASE InstallReturns(m) /\ ~(rf[m.to].term <= m.term /\ Panics(Followed(rf[m.to], m.term), m))
        <4>1. CASE ~Taken(m)
          BY <1>1, <3>1, <3>3, <4>1, LeaveFits
        <4>2. CASE Taken(m)
          <5>1. ~Panics(Followed(rf[m.to], m.term), m)
            BY <3>3, <4>2 DEF Taken
          <5> QED BY <1>1, <3>1, <3>3, <4>2, <5>1, TakeInFits
        <4> QED BY <4>1, <4>2
      <3> QED BY <2>4, <3>2, <3>3, InstallCases
    <2> QED BY <1>1, <1>3, <2>1, <2>2, <2>3, <2>4, CastFits, AnswerFits, InstalledFits DEF MessageStep
  <1>4. CASE UNCHANGED vars
    <2>1. UNCHANGED <<rf, disk, snapshot, nextIndex, matchIndex, applied, cmds, historyVars>> /\ net' = net
      BY <1>4 DEF vars, boundVars
    <2>2. CASE Server # {}
      <3>1. PICK s : s \in Server
        BY <2>2
      <3> QED BY <1>1, <2>1, <3>1, LostFits
    <2>3. CASE Server = {}
      <3>1. PICK h : HistoryOf(h)
        BY DEF LogInv
      <3>2. net = {}
        BY <2>3 DEF LogInv, Inv, Types, IsMessage
      <3>3. elected' = elected
        BY <2>1 DEF historyVars
      <3>4. HistoryOf(h)'
        BY <2>1, <2>3, <3>1, <3>2, <3>3 DEF HistoryOf
      <3> QED BY <1>1, <3>4 DEF LogInv
    <2> QED BY <2>2, <2>3
  <1> QED BY <1>2, <1>3, <1>4 DEF Next

\* Logs, snapshots, indexes and messages have a common history until a ticker is out of step.
THEOREM LogsHaveHistory == Spec => [](outOfStep \/ LogInv)
  BY LogInit, LogNext, StaysOut, PTL DEF Spec

-----------------------------------------------------------------------------
(* What follows. *)

\* Commands of the committed entries begin with those of fewer.
LEMMA CommandsPrefix ==
  ASSUME NEW c \in Log, NEW a \in Nat, NEW b \in Nat, a <= b, b <= Len(c)
  PROVE  IsPrefix(Commands(c, a), Commands(c, b)) /\ Len(Commands(c, a)) = a
  <1>1. \A i \in 1 .. b : c[i].cmd \in Nat
    BY EntryAt, LogLen DEF Pos
  <1>2. PICK k, l : k = Commands(c, a) /\ l = Commands(c, b)
    OBVIOUS
  <1>3. k \in [1 .. a -> Nat] /\ l \in [1 .. b -> Nat] /\ \A i \in 1 .. a : k[i] = l[i]
    BY <1>1, <1>2 DEF Commands
  <1>4. k \in Seq(Nat) /\ l \in Seq(Nat) /\ Len(k) = a /\ Len(l) = b
    <2>1. \A n \in Nat : \A z \in [1 .. n -> Nat] : z \in Seq(Nat) /\ Len(z) = n
      OBVIOUS
    <2> QED BY <1>3, <2>1
  <1>5. \A i \in 1 .. a : k[i] \in Nat /\ l[i] \in Nat
    BY <1>3
  <1>6. 1 \in Int /\ a \in Int /\ Len(SubSeq(k, 1, a)) = Len(SubSeq(l, 1, a))
        /\ SubSeq(k, 1, a) \in Seq(Nat) /\ SubSeq(l, 1, a) \in Seq(Nat) /\ Len(SubSeq(k, 1, a)) = a
        /\ \A i \in 1 .. a : SubSeq(k, 1, a)[i] = k[i] /\ SubSeq(l, 1, a)[i] = l[i]
    BY <1>4, <1>5, SubSeqProperties
  <1>7. SubSeq(k, 1, a) = SubSeq(l, 1, a)
    BY <1>3, <1>6, SeqEqual
  <1> QED BY <1>2, <1>4, <1>7 DEF IsPrefix

\* All that services have executed is committed.
LEMMA StatesAre == outOfStep \/ LogInv => StateMachineSafety
  <1> SUFFICES ASSUME LogInv, NEW s \in Server, NEW q \in Server
               PROVE  IsPrefix(applied[s], applied[q]) \/ IsPrefix(applied[q], applied[s])
    BY DEF StateMachineSafety
  <1>1. PICK h : HistoryOf(h) /\ Inv
    BY DEF LogInv
  <1>2. PICK a, b, c : a = rf[s].lastApplied /\ b = rf[q].lastApplied /\ c = h.sure
    OBVIOUS
  <1>3. c \in Log /\ applied[s] = Commands(c, a) /\ applied[q] = Commands(c, b)
    BY <1>1, <1>2, ServerIs DEF Executed
  <1>4. a \in Nat /\ b \in Nat /\ a <= Len(c) /\ b <= Len(c)
    BY <1>1, <1>2, KnownIs
  <1>5. a <= b \/ b <= a
    BY <1>4
  <1> QED BY <1>3, <1>4, <1>5, CommandsPrefix

\* Positions fit the logs that remain.
LEMMA PositionsAre == outOfStep \/ LogInv => PositionsInRange
  <1> SUFFICES ASSUME LogInv, NEW s \in Server
               PROVE  /\ rf[s].commit <= LastIndex(rf[s].log) /\ rf[s].lastApplied >= rf[s].log.base
                      /\ rf[s].role = "Leader" => \A f \in Server : nextIndex[s][f] <= LastIndex(rf[s].log) + 1
                      /\ Len(snapshot[s]) = disk[s].log.base
    BY DEF PositionsInRange
  <1>1. PICK h : HistoryOf(h) /\ Inv
    BY DEF LogInv
  <1>2. PICK r, d, p : r = rf[s] /\ d = disk[s] /\ p = h.log[s]
    OBVIOUS
  <1>3. /\ p \in Log /\ Len(p) \in Nat /\ h.sure \in Log /\ IsHistory(h) /\ Remains(r.log, p, h.sure)
        /\ Follows(r, nextIndex[s], matchIndex[s], s, h) /\ Executed(r, d, applied[s], snapshot[s], h)
        /\ r.log.base \in Nat /\ r.log.base = d.log.base /\ Sure(r.log.base, d.term, h)
    BY <1>1, <1>2, ServerIs
  <1>4. LastIndex(r.log) = Len(p)
    BY <1>3, ReadLog
  <1>5. /\ r.commit \in Nat /\ r.lastApplied \in Nat /\ Known(r) \in Nat /\ r.commit <= Known(r)
        /\ Known(r) <= Len(p) /\ r.log.base <= r.lastApplied
    BY <1>1, <1>2, KnownIs
  <1>6. r.commit <= LastIndex(r.log) /\ r.lastApplied >= r.log.base
    BY <1>3, <1>4, <1>5
  <1>7. r.role = "Leader" => \A f \in Server : nextIndex[s][f] <= LastIndex(r.log) + 1
    BY <1>2, <1>3, <1>4 DEF Follows
  <1>8. Len(snapshot[s]) = d.log.base
    <2>1. r.log.base <= Len(h.sure) /\ r.log.base <= r.log.base
      BY <1>3, SureLen
    <2>2. Len(Commands(h.sure, r.log.base)) = r.log.base
      BY <1>3, <2>1, CommandsPrefix
    <2> QED BY <1>3, <2>2 DEF Executed
  <1> QED BY <1>2, <1>6, <1>7, <1>8

\* Whoever has acknowledged a committed entry has it on disk.
LEMMA OnDisk == outOfStep \/ LogInv => CommittedOnDisk
  <1> SUFFICES ASSUME LogInv, NEW s \in Server, NEW i \in 1 .. rf[s].commit
               PROVE  2 * Cardinality({q \in Server : Holds(disk[q].log, rf[s], i)}) > Cardinality(Server)
    BY DEF CommittedOnDisk
  <1>1. PICK h : HistoryOf(h) /\ Inv
    BY DEF LogInv
  <1>2. PICK r, p : r = rf[s] /\ p = h.log[s]
    OBVIOUS
  <1>3. /\ Core(h) /\ IsHistory(h) /\ p \in Log /\ Len(p) \in Nat /\ h.sure \in Log /\ Remains(r.log, p, h.sure)
        /\ r.log.base \in Nat
    BY <1>1, <1>2, ServerIs
  <1>4. /\ r.commit \in Nat /\ Known(r) \in Nat /\ r.commit <= Known(r) /\ Known(r) <= Len(p)
        /\ \A n \in Nat : n <= Known(r) =>
             Sure(n, r.term, h) /\ (Known(r) > r.log.base => Agree(p, h.sure, n))
    BY <1>1, <1>2, KnownIs
  <1>5. i \in Nat /\ i \in Pos /\ i # 0 /\ i <= Known(r) /\ i <= Len(p)
    BY <1>2, <1>4 DEF Pos
  <1>6. PICK t \in Nat, n \in Pos : i <= n /\ Chosen(n, t, h) /\ Agree(h.sure, h.led[t], i)
    BY <1>4, <1>5 DEF Sure
  <1> DEFINE Q == {q \in Server : Holds(disk[q].log, r, i)}
  <1>7. ASSUME NEW q \in Stores(n, t, h) PROVE q \in Q
    <2>1. q \in Server /\ Agree(h.saved[q], h.led[t], n)
      BY <1>3, <1>6, ChosenOnDisk
    <2>2. PICK l, k : l = disk[q].log /\ k = h.saved[q]
      OBVIOUS
    <2>3. Remains(l, k, h.sure) /\ k \in Log /\ h.led[t] \in Log /\ l.base \in Nat /\ Len(k) \in Nat
      <3>1. Stored(rf[q], disk[q], q, h)
        BY <1>1, <2>1, ServerIs
      <3>2. Remains(l, k, h.sure) /\ k \in Log /\ h.led[t] \in Log /\ Len(k) \in Nat
        BY <1>3, <2>1, <2>2, <3>1, Parts DEF Stored
      <3> QED BY <3>2 DEF Remains, IsLog
    <2>4. LastIndex(l) = Len(k)
      BY <1>3, <2>3, ReadLog
    <2>5. n \in Nat /\ Agree(k, h.led[t], i) /\ Agree(h.led[t], h.sure, i)
      <3>1. n \in Nat /\ i <= i
        BY <1>5 DEF Pos
      <3> QED BY <1>3, <1>5, <1>6, <2>1, <2>2, <2>3, <3>1, AgreeParts
    <2>6. i <= l.base \/ i <= LastIndex(l)
      BY <2>4, <2>5 DEF Agree
    <2>7. ASSUME i > l.base, i > r.log.base PROVE CmdAt(l, i) = CmdAt(r.log, i)
      <3>1. l.base < i /\ r.log.base < i /\ i <= Len(k)
        BY <1>3, <1>5, <2>3, <2>5, <2>7 DEF Agree
      <3>2. CmdAt(l, i) = k[i].cmd
        BY <1>3, <1>5, <2>3, <3>1, ReadLog
      <3>3. CmdAt(r.log, i) = p[i].cmd
        BY <1>3, <1>5, <3>1, ReadLog
      <3>4. Known(r) > r.log.base
        BY <1>3, <1>4, <1>5, <3>1
      <3>5. Agree(p, h.sure, i)
        BY <1>4, <1>5, <3>4
      <3>6. i \in 1 .. i
        BY <1>5
      <3>7. k[i] = h.led[t][i] /\ h.led[t][i] = h.sure[i] /\ p[i] = h.sure[i]
        BY <2>5, <3>5, <3>6 DEF Agree
      <3> QED BY <3>2, <3>3, <3>7
    <2>8. Holds(l, r, i)
      <3>1. i <= l.base \/ i > l.base
        BY <1>5, <2>3
      <3> QED BY <2>4, <2>5, <2>7, <3>1 DEF Holds, Agree
    <2> QED BY <2>1, <2>2, <2>8
  <1>8. Stores(n, t, h) \subseteq Q /\ Q \subseteq Server /\ IsMajority(Stores(n, t, h))
    BY <1>6, <1>7 DEF Chosen
  <1>9. IsMajority(Q)
    BY <1>8, LargerMajority
  <1> QED BY <1>2, <1>9 DEF IsMajority

\* Services execute the same commands in the same order, whether they come from the log, from
\* a leader's snapshot or from disk: what each has executed is the first of what is committed;
\* until a ticker is out of step.
THEOREM StatesSafe == Spec => []StateMachineSafety
  BY StatesAre, LogsHaveHistory, PTL

\* raft.go:208: although the leader counts itself for entries that Start has not persisted,
\* a committed entry is on the disks of a majority: a majority has acknowledged it, and an
\* acknowledgement, the leader's own included, follows persist(); until a ticker is out of step.
THEOREM CommitsOnDisk == Spec => []CommittedOnDisk
  BY OnDisk, LogsHaveHistory, PTL

\* raft.go:168, 307, 361, 764, 1002, 1051, 1141: the positions at which the code cuts and
\* reads rf.logs exist, and the snapshot on disk ends where the log on disk begins, until a
\* ticker is out of step.  At 1127, which they do not protect, the handler may panic; they
\* hold across that crash.
THEOREM PositionsSafe == Spec => []PositionsInRange
  BY PositionsAre, LogsHaveHistory, PTL
=============================================================================
