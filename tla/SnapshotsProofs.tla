-------------------------- MODULE SnapshotsProofs --------------------------
(***************************************************************************)
(* Proofs about Snapshots for every set of servers, every log and every    *)
(* bound: positions in the log exist whatever windows are open; with both  *)
(* closed the state machine is what the log makes of it; and, if no entry  *)
(* is for a shard of another group, nothing that Raft counts as applied is *)
(* missing from it.                                                        *)
(***************************************************************************)
EXTENDS Snapshots, TLAPS

-----------------------------------------------------------------------------
(* Types. *)

RaftState ==
    [last : 0 .. Len(Kind) + MaxTail, agree : Index, base : Index, commit : Index,
     lastApplied : Index, passive : BOOLEAN, active : BOOLEAN]

Image == {NoSnapshot} \cup [index : Index, data : SUBSET Index]

Service ==
    [done : SUBSET Index, logLastApplied : Index, passiveSnapshotBefore : BOOLEAN,
     pc : {"receive", "installed"}]

Checker == [pc : {"idle", "encode", "snapshot", "clear"}, index : Index, data : SUBSET Index]

Message ==
    [type : {"append"}, to : Follower, prev : Index, upto : Index, commit : Index]
    \cup [type : {"install"}, to : Follower, index : Index, data : SUBSET Index]
    \cup [type : {"appended", "installed"}, to : Follower, upto : Index, ok : BOOLEAN, conflict : Nat]

\* The domain of every variable: raft.go's struct Raft, server.go's struct ShardKV, the
\* pending sends on applyCh, the goroutines' locals and the messages.
TypeInv ==
    /\ rf \in [Server -> RaftState] /\ snapshot \in [Server -> Image]
    /\ applier \in [Server -> {None} \cup (Index \ {0})]
    /\ recovery \in [Server -> Image] /\ install \in [Server -> Image]
    /\ kv \in [Server -> Service] /\ checker \in [Server -> Checker]
    /\ nextIndex \in [Follower -> 1 .. Len(Kind) + 1] /\ matchIndex \in [Follower -> Index]
    /\ senders \subseteq [to : Follower, data : SUBSET Index]
    /\ net \subseteq Message
    /\ rounds \in Nat /\ restarts \in Nat

-----------------------------------------------------------------------------
(* Positions in the log. *)

\* What Raft has applied it has committed, and commit covers only the leader's entries.
RaftPositions(r) ==
    r.base <= r.commit /\ r.commit <= r.agree /\ r.agree <= r.last /\ r.lastApplied <= r.commit

\* Nothing on its way to the service, in it, or on its way back is past commit, and a log
\* is only cut where there is a snapshot.
ServerPositions(s) ==
    /\ RaftPositions(rf[s])
    /\ applier[s] <= rf[s].commit
    /\ recovery[s].index <= rf[s].commit /\ install[s].index <= rf[s].commit
    /\ kv[s].logLastApplied <= rf[s].commit /\ checker[s].index <= rf[s].commit
    /\ snapshot[s] = NoSnapshot => rf[s].base = 0

\* A leader commits only what it sends; a success tells what the follower has.
MessagePositions(m) ==
    /\ m.type = "append" => m.commit <= m.upto
    /\ m.type \in {"appended", "installed"} /\ m.ok => m.upto <= rf[m.to].agree

Positions ==
    /\ \A s \in Server : ServerPositions(s)
    /\ rf[Leader].agree = rf[Leader].last
    /\ \A m \in net : MessagePositions(m)
    /\ \A f \in Follower : matchIndex[f] <= rf[f].agree

PositionInv == TypeInv /\ Positions

-----------------------------------------------------------------------------
(* Steps. *)

\* A step changes nothing of any server but s.
OnlyAt(s) ==
    \A q \in Server \ {s} :
        /\ rf'[q] = rf[q] /\ snapshot'[q] = snapshot[q]
        /\ applier'[q] = applier[q] /\ recovery'[q] = recovery[q] /\ install'[q] = install[q]
        /\ kv'[q] = kv[q] /\ checker'[q] = checker[q]

\* Constants.
LEMMA Constants ==
    /\ Leader \in Server /\ Len(Kind) \in Nat /\ MaxTail \in Nat
    /\ Index = 0 .. Len(Kind) /\ 0 \in Index /\ Follower \subseteq Server /\ Leader \notin Follower
    /\ NoSnapshot \in Image /\ NoSnapshot.index = -1 /\ None = -1
  BY SnapshotsAssumption DEF Index, Follower, NoSnapshot, Image, None

\* The fields of a server, one by one.
LEMMA Fields ==
  ASSUME TypeInv, NEW s \in Server
  PROVE  /\ rf[s] \in RaftState /\ rf[s].last \in Int /\ rf[s].agree \in Index
         /\ rf[s].base \in Index /\ rf[s].commit \in Index /\ rf[s].lastApplied \in Index
         /\ rf[s].agree \in Int /\ rf[s].base \in Int
         /\ rf[s].commit \in Int /\ rf[s].lastApplied \in Int
         /\ applier[s] \in Int /\ recovery[s].index \in Int /\ install[s].index \in Int
         /\ recovery[s] \in Image /\ install[s] \in Image /\ snapshot[s] \in Image
         /\ kv[s] \in Service /\ kv[s].logLastApplied \in Int /\ kv[s].logLastApplied \in Index
         /\ checker[s] \in Checker /\ checker[s].index \in Int /\ checker[s].index \in Index
  <1>1. /\ rf[s] \in RaftState /\ applier[s] \in {None} \cup (Index \ {0})
        /\ recovery[s] \in Image /\ install[s] \in Image /\ snapshot[s] \in Image
        /\ kv[s] \in Service /\ checker[s] \in Checker
    BY DEF TypeInv
  <1>2. Index \subseteq Int /\ None \in Int /\ Len(Kind) + MaxTail \in Int
    BY Constants
  <1>3. /\ rf[s].last \in Int /\ rf[s].agree \in Index /\ rf[s].base \in Index
        /\ rf[s].commit \in Index /\ rf[s].lastApplied \in Index
    BY <1>1, <1>2 DEF RaftState
  <1>4. recovery[s].index \in {None} \cup Index /\ install[s].index \in {None} \cup Index
    BY <1>1, Constants DEF Image
  <1>5. kv[s].logLastApplied \in Index /\ checker[s].index \in Index
    BY <1>1 DEF Service, Checker
  <1> QED BY <1>1, <1>2, <1>3, <1>4, <1>5

\* The same after a step.
LEMMA FieldsNext ==
  ASSUME TypeInv', NEW s \in Server
  PROVE  /\ rf'[s] \in RaftState /\ rf'[s].last \in Int /\ rf'[s].agree \in Index
         /\ rf'[s].base \in Index /\ rf'[s].commit \in Index /\ rf'[s].lastApplied \in Index
         /\ rf'[s].agree \in Int /\ rf'[s].base \in Int
         /\ rf'[s].commit \in Int /\ rf'[s].lastApplied \in Int
         /\ applier'[s] \in Int /\ recovery'[s].index \in Int /\ install'[s].index \in Int
         /\ recovery'[s] \in Image /\ install'[s] \in Image /\ snapshot'[s] \in Image
         /\ kv'[s] \in Service /\ kv'[s].logLastApplied \in Int /\ kv'[s].logLastApplied \in Index
         /\ checker'[s] \in Checker /\ checker'[s].index \in Int /\ checker'[s].index \in Index
  <1>1. /\ rf'[s] \in RaftState /\ applier'[s] \in {None} \cup (Index \ {0})
        /\ recovery'[s] \in Image /\ install'[s] \in Image /\ snapshot'[s] \in Image
        /\ kv'[s] \in Service /\ checker'[s] \in Checker
    BY DEF TypeInv
  <1>2. Index \subseteq Int /\ None \in Int /\ Len(Kind) + MaxTail \in Int
    BY Constants
  <1>3. /\ rf'[s].last \in Int /\ rf'[s].agree \in Index /\ rf'[s].base \in Index
        /\ rf'[s].commit \in Index /\ rf'[s].lastApplied \in Index
    BY <1>1, <1>2 DEF RaftState
  <1>4. recovery'[s].index \in {None} \cup Index /\ install'[s].index \in {None} \cup Index
    BY <1>1, Constants DEF Image
  <1>5. kv'[s].logLastApplied \in Index /\ checker'[s].index \in Index
    BY <1>1 DEF Service, Checker
  <1> QED BY <1>1, <1>2, <1>3, <1>4, <1>5

\* A step of one server, or of none, that leaves its log no shorter.
LEMMA PositionsStep ==
  ASSUME PositionInv, TypeInv', NEW s \in Server, OnlyAt(s), ServerPositions(s)',
         rf[s].agree <= rf'[s].agree, s = Leader => rf'[s].agree = rf'[s].last,
         \A m \in net' \ net : MessagePositions(m)',
         \A f \in Follower : matchIndex'[f] = matchIndex[f]
                             \/ matchIndex'[f] = 0
                             \/ \E m \in net : /\ m.type \in {"appended", "installed"} /\ m.ok
                                               /\ m.to = f /\ matchIndex'[f] = m.upto
  PROVE  Positions'
  <1>1. \A q \in Server \ {s} : ServerPositions(q)'
    BY DEF PositionInv, Positions, ServerPositions, OnlyAt
  <1>2. \A q \in Server : rf[q].agree \in Int /\ rf'[q].agree \in Int /\ rf[q].agree <= rf'[q].agree
    BY Fields, FieldsNext DEF OnlyAt, PositionInv
  <1>3. rf'[Leader].agree = rf'[Leader].last
    BY Constants DEF PositionInv, Positions, OnlyAt
  <1>4. ASSUME NEW m \in net', m \in net
        PROVE  MessagePositions(m)'
    <2>1. MessagePositions(m) /\ m \in Message
      BY <1>4 DEF PositionInv, Positions, TypeInv
    <2>2. CASE m.type \in {"appended", "installed"} /\ m.ok
      <3>1. m.to \in Server /\ m.upto \in Int
        BY <2>1, <2>2, Constants DEF Message
      <3>2. m.upto <= rf'[m.to].agree
        BY <1>2, <2>1, <2>2, <3>1 DEF MessagePositions
      <3> QED BY <2>2, <3>2 DEF MessagePositions
    <2>3. CASE ~(m.type \in {"appended", "installed"} /\ m.ok)
      BY <2>1, <2>3 DEF MessagePositions
    <2> QED BY <2>2, <2>3
  <1>5. ASSUME NEW f \in Follower
        PROVE  matchIndex'[f] <= rf'[f].agree
    <2>0. f \in Server /\ matchIndex[f] \in Int /\ rf'[f].agree \in Nat
      <3>1. f \in Server /\ matchIndex[f] \in Index
        BY Constants DEF PositionInv, TypeInv
      <3>2. rf'[f].agree \in Index
        BY <3>1, FieldsNext
      <3> QED BY <3>1, <3>2, Constants
    <2>1. CASE matchIndex'[f] = matchIndex[f]
      BY <1>2, <2>0, <2>1 DEF PositionInv, Positions
    <2>2. CASE matchIndex'[f] = 0
      BY <2>0, <2>2
    <2>3. CASE \E m \in net : /\ m.type \in {"appended", "installed"} /\ m.ok
                              /\ m.to = f /\ matchIndex'[f] = m.upto
      <3>1. PICK m \in net : /\ m.type \in {"appended", "installed"} /\ m.ok
                             /\ m.to = f /\ matchIndex'[f] = m.upto
        BY <2>3
      <3>2. m.upto <= rf[f].agree /\ m.upto \in Int
        BY <3>1, Constants DEF PositionInv, Positions, MessagePositions, TypeInv, Message
      <3> QED BY <1>2, <2>0, <3>1, <3>2
    <2> QED BY <2>1, <2>2, <2>3
  <1> QED BY <1>1, <1>3, <1>4, <1>5 DEF Positions
-----------------------------------------------------------------------------
(* Positions: the applier and the service. *)

\* A step that leaves requests, replies and the leader's arrays alone.
LEMMA LocalStep ==
  ASSUME PositionInv, NEW s \in Server, OnlyAt(s), ServerPositions(s)',
         UNCHANGED <<leaderVars, boundVars>>,
         rf' \in [Server -> RaftState], snapshot' \in [Server -> Image],
         applier' \in [Server -> {None} \cup (Index \ {0})],
         recovery' \in [Server -> Image], install' \in [Server -> Image],
         kv' \in [Server -> Service], checker' \in [Server -> Checker],
         rf[s].agree <= rf'[s].agree, s = Leader => rf'[s].agree = rf'[s].last
  PROVE  PositionInv'
  <1>1. TypeInv'
    BY DEF PositionInv, TypeInv, leaderVars, boundVars
  <1>2. /\ net' = net /\ matchIndex' = matchIndex
    BY DEF leaderVars
  <1>3. Positions'
    BY <1>1, <1>2, PositionsStep
  <1> QED BY <1>1, <1>3 DEF PositionInv

\* The applier's next entry is committed.
LEMMA ApplierPositions ==
  ASSUME PositionInv, NEW s \in Server, applierStep(s)
  PROVE  PositionInv'
  <1> DEFINE i == rf[s].lastApplied + 1
  <1>1. /\ ServerPositions(s) /\ TypeInv /\ rf[s] \in RaftState
        /\ s = Leader => rf[s].agree = rf[s].last
    BY Fields DEF PositionInv, Positions
  <1>2. /\ rf[s].agree <= rf[s].agree /\ i \in Index \ {0} /\ i <= rf[s].commit
    BY <1>1, Fields, Constants, SMTT(120) DEF applierStep, Behind, ServerPositions, RaftPositions
  <1>3. CASE i <= rf[s].base
    <2>1. /\ rf' = [rf EXCEPT ![s].lastApplied = rf[s].base]
          /\ UNCHANGED <<applier, snapshot, recovery, install, kv, checker, leaderVars, boundVars>>
      BY <1>3 DEF applierStep
    <2>2. [rf[s] EXCEPT !.lastApplied = rf[s].base] \in RaftState
      BY <1>1 DEF RaftState
    <2>3. rf' = [rf EXCEPT ![s] = [rf[s] EXCEPT !.lastApplied = rf[s].base]]
      BY <2>1, <1>1 DEF TypeInv
    <2>4. /\ rf' \in [Server -> RaftState]
          /\ rf'[s] = [rf[s] EXCEPT !.lastApplied = rf[s].base]
          /\ \A q \in Server \ {s} : rf'[q] = rf[q]
      BY <2>2, <2>3, <1>1 DEF TypeInv
    <2>5. ServerPositions(s)' /\ rf'[s].agree = rf[s].agree /\ rf'[s].last = rf[s].last
      BY <1>1, <2>1, <2>4 DEF ServerPositions, RaftPositions, RaftState
    <2> QED BY <1>1, <1>2, <2>1, <2>4, <2>5, LocalStep DEF TypeInv, OnlyAt
  <1>4. CASE ~(i <= rf[s].base)
    <2>1. /\ rf' = [rf EXCEPT ![s].lastApplied = i] /\ applier' = [applier EXCEPT ![s] = i]
          /\ UNCHANGED <<snapshot, recovery, install, kv, checker, leaderVars, boundVars>>
      BY <1>4 DEF applierStep
    <2>2. [rf[s] EXCEPT !.lastApplied = i] \in RaftState
      BY <1>1, <1>2 DEF RaftState
    <2>3. rf' = [rf EXCEPT ![s] = [rf[s] EXCEPT !.lastApplied = i]]
      BY <2>1, <1>1 DEF TypeInv
    <2>4. /\ rf' \in [Server -> RaftState]
          /\ rf'[s] = [rf[s] EXCEPT !.lastApplied = i]
          /\ \A q \in Server \ {s} : rf'[q] = rf[q] /\ applier'[q] = applier[q]
          /\ applier' \in [Server -> {None} \cup (Index \ {0})] /\ applier'[s] = i
      BY <1>2, <2>1, <2>2, <2>3, <1>1 DEF TypeInv
    <2>5. ServerPositions(s)' /\ rf'[s].agree = rf[s].agree /\ rf'[s].last = rf[s].last
      BY <1>1, <1>2, <2>1, <2>4 DEF ServerPositions, RaftPositions, RaftState
    <2> QED BY <1>1, <1>2, <2>1, <2>4, <2>5, LocalStep DEF TypeInv, OnlyAt
  <1> QED BY <1>3, <1>4

\* A command, executed or not, leaves a state machine that has executed what it may have.
LEMMA ExecuteType ==
  ASSUME NEW st \in Service, NEW i \in Index
  PROVE  executeCmd(st, i) \in Service /\ executeCmd(st, i).logLastApplied \in {st.logLastApplied, i}
  BY DEF executeCmd, Service

\* The service executes what the applier sent.
LEMMA CommandPositions ==
  ASSUME PositionInv, NEW s \in Server, applyCommand(s)
  PROVE  PositionInv'
  <1>1. /\ ServerPositions(s) /\ TypeInv /\ rf[s] \in RaftState
        /\ s = Leader => rf[s].agree = rf[s].last
        /\ rf[s].agree <= rf[s].agree /\ rf[s].commit \in Nat
    BY Fields, Constants DEF PositionInv, Positions
  <1>2. /\ applier[s] \in Index /\ kv[s] \in Service
        /\ kv' = [kv EXCEPT ![s] = executeCmd(kv[s], applier[s])]
        /\ applier' = [applier EXCEPT ![s] = None]
        /\ UNCHANGED <<raftVars, recovery, install, checker, leaderVars, boundVars>>
    BY <1>1, Fields DEF applyCommand, TypeInv
  <1>3. /\ executeCmd(kv[s], applier[s]) \in Service
        /\ executeCmd(kv[s], applier[s]).logLastApplied \in {kv[s].logLastApplied, applier[s]}
    BY <1>2, ExecuteType
  <1>4. /\ kv' \in [Server -> Service] /\ applier' \in [Server -> {None} \cup (Index \ {0})]
        /\ kv'[s] = executeCmd(kv[s], applier[s]) /\ applier'[s] = -1
        /\ \A q \in Server \ {s} : kv'[q] = kv[q] /\ applier'[q] = applier[q]
    BY <1>1, <1>2, <1>3, Constants DEF TypeInv
  <1>5. ServerPositions(s)'
    BY <1>1, <1>2, <1>3, <1>4 DEF ServerPositions, raftVars
  <1> QED BY <1>1, <1>2, <1>4, <1>5, LocalStep DEF TypeInv, OnlyAt, raftVars

\* The service takes over a snapshot, from whichever sender.
LEMMA ImagePositions ==
  ASSUME PositionInv, NEW s \in Server, applySnapshot(s)
  PROVE  PositionInv'
  <1>1. /\ ServerPositions(s) /\ TypeInv /\ rf[s] \in RaftState
        /\ s = Leader => rf[s].agree = rf[s].last
        /\ rf[s].agree <= rf[s].agree /\ rf[s].commit \in Nat
    BY Fields, Constants DEF PositionInv, Positions
  <1>2. PICK m \in Image :
           /\ m # NoSnapshot /\ m.index <= rf[s].commit
           /\ kv' = [kv EXCEPT ![s] = applySnapshotToSM(kv[s], m)]
           /\ \/ install' = [install EXCEPT ![s] = NoSnapshot] /\ recovery' = recovery /\ m = install[s]
              \/ recovery' = [recovery EXCEPT ![s] = NoSnapshot] /\ install' = install /\ m = recovery[s]
    BY <1>1, Fields DEF applySnapshot, ServerPositions
  <1>3. UNCHANGED <<raftVars, applier, checker, leaderVars, boundVars>>
    BY DEF applySnapshot
  <1>4. /\ m.index \in Index
        /\ applySnapshotToSM(kv[s], m) \in Service
        /\ applySnapshotToSM(kv[s], m).logLastApplied = m.index
    <2>0. kv[s] \in Service
      BY <1>1, Fields
    <2>2. m \in [index : Index, data : SUBSET Index]
      BY <1>2 DEF Image
    <2> QED BY <2>0, <2>2 DEF applySnapshotToSM, Service
  <1>5. /\ kv' \in [Server -> Service] /\ kv'[s].logLastApplied = m.index
        /\ recovery' \in [Server -> Image] /\ install' \in [Server -> Image]
        /\ recovery'[s].index \in {recovery[s].index, -1}
        /\ install'[s].index \in {install[s].index, -1}
        /\ \A q \in Server \ {s} :
              kv'[q] = kv[q] /\ recovery'[q] = recovery[q] /\ install'[q] = install[q]
    <2>1. kv \in [Server -> Service] /\ recovery \in [Server -> Image] /\ install \in [Server -> Image]
      BY <1>1 DEF TypeInv
    <2> DEFINE k == applySnapshotToSM(kv[s], m)
    <2>2. k \in Service /\ k.logLastApplied = m.index /\ kv' = [kv EXCEPT ![s] = k]
      BY <1>2, <1>4
    <2> HIDE DEF k
    <2>3. kv' \in [Server -> Service] /\ kv'[s] = k /\ \A q \in Server \ {s} : kv'[q] = kv[q]
      BY <2>1, <2>2
    <2>4. CASE install' = [install EXCEPT ![s] = NoSnapshot] /\ recovery' = recovery
      BY <2>1, <2>2, <2>3, <2>4, Constants
    <2>5. CASE recovery' = [recovery EXCEPT ![s] = NoSnapshot] /\ install' = install
      BY <2>1, <2>2, <2>3, <2>5, Constants
    <2> QED BY <1>2, <2>4, <2>5
  <1>6. ServerPositions(s)'
    BY <1>1, <1>2, <1>3, <1>5 DEF ServerPositions, raftVars
  <1> QED BY <1>1, <1>3, <1>5, <1>6, LocalStep DEF TypeInv, OnlyAt, raftVars
\* The turn of applyMessage ends.
LEMMA InstalledPositions ==
  ASSUME PositionInv, NEW s \in Server, EndInstall(s)
  PROVE  PositionInv'
  <1>1. /\ ServerPositions(s) /\ TypeInv /\ rf[s] \in RaftState /\ kv[s] \in Service
        /\ s = Leader => rf[s].agree = rf[s].last
        /\ rf[s].agree <= rf[s].agree
    BY Fields, Constants DEF PositionInv, Positions
  <1>2. /\ rf' = [rf EXCEPT ![s] = [rf[s] EXCEPT !.passive = FALSE]]
        /\ kv' = [kv EXCEPT ![s] = [kv[s] EXCEPT !.pc = "receive"]]
        /\ UNCHANGED <<snapshot, channel, checker, leaderVars, boundVars>>
    BY <1>1 DEF EndInstall, TypeInv
  <1>3. /\ [rf[s] EXCEPT !.passive = FALSE] \in RaftState
        /\ [kv[s] EXCEPT !.pc = "receive"] \in Service
    BY <1>1 DEF RaftState, Service
  <1>4. /\ rf' \in [Server -> RaftState] /\ kv' \in [Server -> Service]
        /\ rf'[s] = [rf[s] EXCEPT !.passive = FALSE] /\ kv'[s] = [kv[s] EXCEPT !.pc = "receive"]
        /\ \A q \in Server \ {s} : rf'[q] = rf[q] /\ kv'[q] = kv[q]
    BY <1>1, <1>2, <1>3 DEF TypeInv
  <1>5. ServerPositions(s)' /\ rf'[s].agree = rf[s].agree /\ rf'[s].last = rf[s].last
    BY <1>1, <1>2, <1>4 DEF ServerPositions, RaftPositions, RaftState, Service, channel
  <1> QED BY <1>1, <1>2, <1>4, <1>5, LocalStep DEF TypeInv, OnlyAt, channel

\* checkSnapshotNeed begins or ends: only flags and the place in the loop.
LEMMA CheckPositions ==
  ASSUME PositionInv, NEW s \in Server, checkSnapshotNeed(s) \/ EndCheck(s)
  PROVE  PositionInv'
  <1>1. /\ ServerPositions(s) /\ TypeInv /\ rf[s] \in RaftState /\ checker[s] \in Checker
        /\ s = Leader => rf[s].agree = rf[s].last
        /\ rf[s].agree <= rf[s].agree /\ rf[s].commit \in Index
    BY Fields, Constants DEF PositionInv, Positions
  <1>2. PICK b \in BOOLEAN, c \in {[checker[s] EXCEPT !.pc = "encode"], Idle} :
           /\ rf' = [rf EXCEPT ![s] = [rf[s] EXCEPT !.active = b]]
           /\ checker' = [checker EXCEPT ![s] = c]
           /\ UNCHANGED <<snapshot, channel, kv, leaderVars, boundVars>>
    BY <1>1 DEF checkSnapshotNeed, GetPassiveFlagAndSetActiveFlag, EndCheck, TypeInv
  <1>3. /\ [rf[s] EXCEPT !.active = b] \in RaftState
        /\ c \in Checker /\ c.index \in {checker[s].index, 0}
    <2>1. [rf[s] EXCEPT !.active = b] \in RaftState
      BY <1>1 DEF RaftState
    <2>2. CASE c = Idle
      BY <2>1, <2>2, Constants DEF Checker, Idle
    <2>3. CASE c = [checker[s] EXCEPT !.pc = "encode"]
      BY <1>1, <2>1, <2>3 DEF Checker
    <2> QED BY <1>2, <2>1, <2>2, <2>3
  <1>4. /\ rf' \in [Server -> RaftState] /\ checker' \in [Server -> Checker]
        /\ rf'[s] = [rf[s] EXCEPT !.active = b] /\ checker'[s] = c
        /\ \A q \in Server \ {s} : rf'[q] = rf[q] /\ checker'[q] = checker[q]
    BY <1>1, <1>2, <1>3 DEF TypeInv
  <1>5. ServerPositions(s)' /\ rf'[s].agree = rf[s].agree /\ rf'[s].last = rf[s].last
    BY <1>1, <1>2, <1>3, <1>4, Constants, SMTT(120) DEF ServerPositions, RaftPositions, RaftState, channel
  <1> QED BY <1>1, <1>2, <1>4, <1>5, LocalStep DEF TypeInv, OnlyAt, channel

\* The state is encoded under the service's own count.
LEMMA EncodePositions ==
  ASSUME PositionInv, NEW s \in Server, Encode(s)
  PROVE  PositionInv'
  <1> DEFINE c == [pc |-> "snapshot", index |-> kv[s].logLastApplied, data |-> kv[s].done]
  <1>1. /\ ServerPositions(s) /\ TypeInv /\ kv[s] \in Service
        /\ s = Leader => rf[s].agree = rf[s].last
        /\ rf[s].agree <= rf[s].agree
    BY Fields, Constants DEF PositionInv, Positions
  <1>2. c \in Checker
    BY <1>1 DEF Checker, Service
  <1>3. /\ checker' = [checker EXCEPT ![s] = c]
        /\ UNCHANGED <<raftVars, channel, kv, leaderVars, boundVars>>
    BY DEF Encode, SnapshotIndex
  <1>4. /\ checker' \in [Server -> Checker] /\ checker'[s] = c
        /\ \A q \in Server \ {s} : checker'[q] = checker[q]
    BY <1>1, <1>2, <1>3 DEF TypeInv
  <1>5. ServerPositions(s)'
    BY <1>1, <1>3, <1>4 DEF ServerPositions, raftVars, channel
  <1> QED BY <1>1, <1>3, <1>4, <1>5, LocalStep DEF TypeInv, OnlyAt, raftVars, channel

\* Snapshot trims the log up to an index that is committed.
LEMMA SnapshotPositions ==
  ASSUME PositionInv, NEW s \in Server, Snapshot(s)
  PROVE  PositionInv'
  <1> DEFINE i == checker[s].index
             c == [checker[s] EXCEPT !.pc = "clear"]
  <1>1. /\ ServerPositions(s) /\ TypeInv /\ rf[s] \in RaftState /\ checker[s] \in Checker
        /\ s = Leader => rf[s].agree = rf[s].last
        /\ rf[s].agree <= rf[s].agree /\ i \in Index /\ checker[s].data \subseteq Index
    BY Fields, Constants DEF PositionInv, Positions, Checker
  <1>2. c \in Checker /\ c.index = i
    BY <1>1 DEF Checker
  <1>3. /\ checker' = [checker EXCEPT ![s] = c]
        /\ UNCHANGED <<channel, kv, nextIndex, matchIndex, net, boundVars>>
    BY <1>1 DEF Snapshot, TypeInv
  <1>4. /\ checker' \in [Server -> Checker] /\ checker'[s] = c
        /\ \A q \in Server \ {s} : checker'[q] = checker[q]
    BY <1>1, <1>2, <1>3 DEF TypeInv
  <1>5. CASE UNCHANGED <<raftVars, senders>>
    <2>1. ServerPositions(s)'
      BY <1>1, <1>2, <1>3, <1>4, <1>5 DEF ServerPositions, raftVars, channel
    <2> QED BY <1>1, <1>3, <1>4, <1>5, <2>1, LocalStep
            DEF TypeInv, OnlyAt, raftVars, channel, leaderVars
  <1>6. CASE ~UNCHANGED <<raftVars, senders>>
    <2>1. /\ rf' = [rf EXCEPT ![s] = [rf[s] EXCEPT !.base = i]]
          /\ snapshot' = [snapshot EXCEPT ![s] = [index |-> i, data |-> checker[s].data]]
          /\ senders' \subseteq senders \cup [to : Follower, data : {checker[s].data}]
      BY <1>1, <1>6 DEF Snapshot, TypeInv
    <2>2. /\ [rf[s] EXCEPT !.base = i] \in RaftState
          /\ [index |-> i, data |-> checker[s].data] \in Image
          /\ [index |-> i, data |-> checker[s].data] # NoSnapshot
      <3>1. i # -1
        BY <1>1, Constants
      <3>2. \A m : m.index = i => m # NoSnapshot
        BY <3>1, Constants
      <3> QED BY <1>1, <3>2 DEF RaftState, Image
    <2>3. /\ rf' \in [Server -> RaftState] /\ snapshot' \in [Server -> Image]
          /\ snapshot'[s] # NoSnapshot
          /\ rf'[s] = [rf[s] EXCEPT !.base = i]
          /\ \A q \in Server \ {s} : rf'[q] = rf[q] /\ snapshot'[q] = snapshot[q]
          /\ senders' \subseteq [to : Follower, data : SUBSET Index]
      BY <1>1, <2>1, <2>2 DEF TypeInv
    <2>4. ServerPositions(s)' /\ rf'[s].agree = rf[s].agree /\ rf'[s].last = rf[s].last
      BY <1>1, <1>2, <1>3, <1>4, <2>3 DEF ServerPositions, RaftPositions, RaftState, channel
    <2>5. OnlyAt(s)
      BY <1>3, <1>4, <2>3 DEF OnlyAt, channel
    <2>6. TypeInv'
      BY <1>1, <1>3, <1>4, <2>3 DEF TypeInv, channel, boundVars
    <2>7. Positions'
      BY <1>1, <1>3, <2>4, <2>5, <2>6, PositionsStep
    <2> QED BY <2>6, <2>7 DEF PositionInv
  <1> QED BY <1>5, <1>6
-----------------------------------------------------------------------------
(* Positions: leader and followers. *)

\* Start and Commit, on the leader.
LEMMA LeaderPositions ==
  ASSUME PositionInv, Start \/ \E i \in Index : Commit(i)
  PROVE  PositionInv'
  <1> DEFINE s == Leader
  <1>1. /\ ServerPositions(s) /\ TypeInv /\ rf[s] \in RaftState /\ s \in Server
        /\ rf[s].agree = rf[s].last
    BY Fields, Constants DEF PositionInv, Positions
  <1>2. PICK r \in RaftState :
           /\ rf' = [rf EXCEPT ![s] = r]
           /\ r.agree = r.last /\ rf[s].agree <= r.agree
           /\ RaftPositions(r) /\ rf[s].commit <= r.commit /\ r.base = rf[s].base
    <2>1. CASE Start
      <3> DEFINE r == [rf[s] EXCEPT !.last = rf[s].last + 1, !.agree = rf[s].agree + 1]
      <3>1. rf[s].agree + 1 \in Index
        BY <1>1, <2>1, Fields, Constants DEF Start
      <3>2. r \in RaftState
        <4>1. rf[s].last + 1 \in 0 .. Len(Kind) + MaxTail
          BY <1>1, <3>1, Constants
        <4> QED BY <1>1, <3>1, <4>1 DEF RaftState
      <3>3. rf' = [rf EXCEPT ![s] = r]
        BY <1>1, <2>1 DEF Start, TypeInv
      <3>4. /\ r.agree = r.last /\ rf[s].agree <= r.agree
            /\ RaftPositions(r) /\ rf[s].commit <= r.commit /\ r.base = rf[s].base
        BY <1>1, Fields DEF RaftState, ServerPositions, RaftPositions
      <3> QED BY <3>2, <3>3, <3>4
    <2>2. CASE \E i \in Index : Commit(i)
      <3>1. PICK i \in Index : Commit(i)
        BY <2>2
      <3> DEFINE r == [rf[s] EXCEPT !.commit = i]
      <3>2. r \in RaftState
        BY <1>1 DEF RaftState
      <3>3. rf' = [rf EXCEPT ![s] = r] /\ rf[s].commit < i /\ i <= rf[s].last
        BY <1>1, <3>1 DEF Commit, TypeInv
      <3>4. /\ r.agree = r.last /\ rf[s].agree <= r.agree
            /\ RaftPositions(r) /\ rf[s].commit <= r.commit /\ r.base = rf[s].base
        BY <1>1, <3>3, Fields, Constants, SMTT(120) DEF RaftState, ServerPositions, RaftPositions
      <3> QED BY <3>2, <3>3, <3>4
    <2> QED BY <2>1, <2>2
  <1>3. UNCHANGED <<snapshot, channel, kv, checker, leaderVars, boundVars>>
    BY DEF Start, Commit
  <1>4. /\ rf' \in [Server -> RaftState] /\ rf'[s] = r
        /\ \A q \in Server \ {s} : rf'[q] = rf[q]
    BY <1>1, <1>2 DEF TypeInv
  <1>5. r.commit \in Int
    BY <1>2, Constants DEF RaftState
  <1>6. ServerPositions(s)'
    BY <1>1, <1>2, <1>3, <1>4, <1>5, Fields DEF ServerPositions, channel
  <1> QED BY <1>1, <1>2, <1>3, <1>4, <1>6, LocalStep DEF TypeInv, OnlyAt, channel

\* Requests of the leader: entries up to its last with a commit it has, or a snapshot.
LEMMA SendPositions ==
  ASSUME PositionInv,
         \/ \E f \in Follower : LeaderAppendEntries(f)
         \/ \E t \in senders : LeaderSendSnapshot(t)
  PROVE  PositionInv'
  <1> DEFINE s == Leader
  <1>1. /\ ServerPositions(s) /\ TypeInv /\ rf[s] \in RaftState /\ s \in Server
        /\ rf[s].agree = rf[s].last /\ rf[s].agree <= rf[s].agree
    BY Fields, Constants DEF PositionInv, Positions
  <1>2. UNCHANGED <<raftVars, channel, kv, checker, nextIndex, matchIndex, restarts>>
    BY DEF LeaderAppendEntries, LeaderSendSnapshot, boundVars
  <1> DEFINE Sent == /\ senders' \subseteq [to : Follower, data : SUBSET Index]
                     /\ net' \subseteq Message /\ \A x \in net' \ net : MessagePositions(x)'
                     /\ rounds' \in Nat
  <1>3. Sent
    <2>1. ASSUME NEW f \in Follower, LeaderAppendEntries(f)
          PROVE  Sent
      <3> DEFINE m == [type |-> "append", to |-> f, prev |-> nextIndex[f] - 1,
                       upto |-> rf[s].last, commit |-> rf[s].commit]
      <3>1. m \in Message /\ snapshot[s].data \in SUBSET Index
        <4>1. nextIndex[f] - 1 \in Index /\ rf[s].last \in Index /\ rf[s].commit \in Index
          BY <1>1, Fields, Constants, SMTT(120) DEF TypeInv
        <4>2. snapshot[s].data \in SUBSET Index
          BY <1>1, Fields DEF Image, NoSnapshot
        <4> QED BY <4>1, <4>2 DEF Message
      <3>2. m.type = "append" /\ m.commit <= m.upto
        BY <1>1 DEF ServerPositions, RaftPositions
      <3>3. net' \subseteq net \cup {m} /\ rounds' = rounds + 1
            /\ senders' \subseteq senders \cup {[to |-> f, data |-> snapshot[s].data]}
        BY <2>1 DEF LeaderAppendEntries
      <3> HIDE DEF m
      <3>4. senders' \subseteq [to : Follower, data : SUBSET Index]
        BY <1>1, <3>1, <3>3 DEF TypeInv
      <3>5. \A x \in net' \ net : x = m
        BY <3>3
      <3>6. \A x \in net' \ net : MessagePositions(x)'
        BY <3>2, <3>5 DEF MessagePositions
      <3>7. net' \subseteq Message /\ rounds' \in Nat
        BY <1>1, <3>1, <3>3 DEF TypeInv
      <3> QED BY <3>4, <3>6, <3>7
    <2>2. ASSUME NEW t \in senders, LeaderSendSnapshot(t)
          PROVE  Sent
      <3> DEFINE m == [type |-> "install", to |-> t.to, index |-> rf[s].base, data |-> t.data]
      <3>1. m \in Message
        BY <1>1, Fields DEF TypeInv, Message
      <3>2. m.type = "install"
        OBVIOUS
      <3>3. net' = net \cup {m} /\ rounds' = rounds /\ senders' \subseteq senders
        BY <2>2 DEF LeaderSendSnapshot, boundVars
      <3> HIDE DEF m
      <3>5. \A x \in net' \ net : x = m
        BY <3>3
      <3>6. \A x \in net' \ net : MessagePositions(x)'
        BY <3>2, <3>5 DEF MessagePositions
      <3>7. /\ net' \subseteq Message /\ rounds' \in Nat
            /\ senders' \subseteq [to : Follower, data : SUBSET Index]
        BY <1>1, <3>1, <3>3 DEF TypeInv
      <3> QED BY <3>6, <3>7
    <2> QED BY <2>1, <2>2
  <1>4. TypeInv'
    BY <1>1, <1>2, <1>3 DEF TypeInv, raftVars, channel
  <1>5. OnlyAt(s) /\ ServerPositions(s)'
    BY <1>1, <1>2 DEF OnlyAt, ServerPositions, raftVars, channel
  <1>6. Positions'
    BY <1>1, <1>2, <1>3, <1>4, <1>5, PositionsStep DEF raftVars
  <1> QED BY <1>4, <1>6 DEF PositionInv

\* A follower's log after AppendEntries or an installed snapshot: no shorter, and commit
\* inside what agrees with the leader.
LEMMA AppendEntriesPositions ==
  ASSUME PositionInv, NEW m \in net, AppendEntries(m)
  PROVE  PositionInv'
  <1> DEFINE s == m.to
             r == rf[s]
             prev == Larger(m.prev, r.base)
             merged == IF m.upto > r.agree THEN [r EXCEPT !.last = m.upto, !.agree = m.upto] ELSE r
             new == [merged EXCEPT !.commit = Larger(merged.commit, Smaller(m.commit, merged.last))]
  <1>1. /\ TypeInv /\ m.type = "append" /\ s \in Follower /\ s \in Server /\ s # Leader
        /\ m.prev \in Index /\ m.upto \in Index /\ m.commit \in Index /\ m.commit <= m.upto
    BY Constants DEF AppendEntries, PositionInv, TypeInv, Positions, MessagePositions, Message
  <1>2. r \in RaftState /\ ServerPositions(s) /\ Index \subseteq Int
    BY <1>1, Fields, Constants DEF PositionInv, Positions
  <1>3. merged \in RaftState /\ RaftPositions(merged) /\ m.upto <= merged.agree
        /\ r.agree <= merged.agree /\ merged.commit = r.commit /\ merged.base = r.base
    <2>1. CASE m.upto > r.agree
      <3>1. m.upto \in 0 .. Len(Kind) + MaxTail
        BY <1>1, Constants
      <3>2. /\ merged = [r EXCEPT !.last = m.upto, !.agree = m.upto]
            /\ merged.last = m.upto /\ merged.agree = m.upto /\ merged.base = r.base
            /\ merged.commit = r.commit /\ merged.lastApplied = r.lastApplied
        BY <1>2, <2>1 DEF RaftState
      <3>3. merged \in RaftState
        BY <1>1, <1>2, <3>1, <3>2 DEF RaftState
      <3>4. /\ m.upto \in Int /\ r.agree \in Int /\ r.commit \in Int /\ RaftPositions(r)
        BY <1>1, <1>2, Fields DEF ServerPositions
      <3> HIDE DEF merged
      <3> QED BY <2>1, <3>2, <3>3, <3>4 DEF RaftPositions
    <2>2. CASE ~(m.upto > r.agree)
      BY <1>1, <1>2, <2>2, Fields DEF ServerPositions
    <2> QED BY <2>1, <2>2
  <1> HIDE DEF merged
  <1>4. new \in RaftState /\ RaftPositions(new) /\ new.agree = merged.agree
        /\ r.commit <= new.commit /\ new.base = r.base
    <2>1. /\ merged.commit \in Int /\ merged.agree \in Int /\ merged.last \in Int
          /\ merged.base \in Int /\ merged.lastApplied \in Int /\ merged.commit \in Index
      BY <1>2, <1>3, Constants DEF RaftState
    <2>2. /\ Smaller(m.commit, merged.last) = m.commit
          /\ Larger(merged.commit, m.commit) \in Index
          /\ Larger(merged.commit, m.commit) <= merged.agree
          /\ merged.commit <= Larger(merged.commit, m.commit)
      <3>1. m.commit \in Int /\ m.upto \in Int /\ m.commit \in Index /\ m.commit <= m.upto
        BY <1>1, <1>2
      <3>2. /\ m.upto <= merged.agree /\ merged.agree <= merged.last
            /\ merged.commit <= merged.agree
        BY <1>3 DEF RaftPositions
      <3> QED BY <2>1, <3>1, <3>2 DEF Smaller, Larger
    <2> DEFINE c == Larger(merged.commit, m.commit)
    <2>3. new = [merged EXCEPT !.commit = c]
      BY <2>2
    <2>4. /\ new.commit = c /\ new.agree = merged.agree /\ new.last = merged.last
          /\ new.base = merged.base /\ new.lastApplied = merged.lastApplied
      BY <1>3, <2>3 DEF RaftState
    <2>5. new \in RaftState
      BY <1>3, <2>2, <2>3 DEF RaftState
    <2>6. c \in Int
      BY <1>2, <2>2
    <2> HIDE DEF new, c
    <2> QED BY <1>3, <2>1, <2>2, <2>4, <2>5, <2>6 DEF RaftPositions, c
  <1> HIDE DEF new
  <1>5. PICK reply \in [type : {"appended"}, to : {s}, upto : {m.upto}, ok : BOOLEAN, conflict : Nat] :
           /\ net' = (net \ {m}) \cup {reply}
           /\ \/ rf' = rf /\ (reply.ok => m.upto <= r.base)
              \/ rf' = [rf EXCEPT ![s] = new]
    <2>1. r.last + 1 \in Nat /\ r.agree + 1 \in Nat
      <3>1. r.last \in 0 .. Len(Kind) + MaxTail /\ r.agree \in Index
        BY <1>2 DEF RaftState
      <3> QED BY <3>1, Constants
    <2> DEFINE ans(ok, c) == Appended(m, ok, c)
    <2>2. /\ ans(TRUE, 0) \in [type : {"appended"}, to : {s}, upto : {m.upto}, ok : BOOLEAN, conflict : Nat]
          /\ ans(FALSE, r.last + 1) \in [type : {"appended"}, to : {s}, upto : {m.upto}, ok : BOOLEAN, conflict : Nat]
          /\ ans(FALSE, r.agree + 1) \in [type : {"appended"}, to : {s}, upto : {m.upto}, ok : BOOLEAN, conflict : Nat]
          /\ ~ans(FALSE, r.last + 1).ok /\ ~ans(FALSE, r.agree + 1).ok
      BY <2>1 DEF Appended
    <2>3. CASE m.prev < r.base /\ m.upto <= r.base
      <3>1. rf' = rf /\ net' = (net \ {m}) \cup {ans(TRUE, 0)}
        BY <2>3 DEF AppendEntries, Answered
      <3> QED BY <2>2, <2>3, <3>1
    <2>4. CASE ~(m.prev < r.base /\ m.upto <= r.base)
      <3>1. \/ rf' = rf /\ net' = (net \ {m}) \cup {ans(FALSE, r.last + 1)}
            \/ rf' = rf /\ net' = (net \ {m}) \cup {ans(FALSE, r.agree + 1)}
            \/ rf' = [rf EXCEPT ![s] = new] /\ net' = (net \ {m}) \cup {ans(TRUE, 0)}
        BY <2>4 DEF AppendEntries, Answered, new, merged
      <3> HIDE DEF ans
      <3> QED BY <2>2, <3>1
    <2> QED BY <2>3, <2>4
  <1>6. UNCHANGED <<snapshot, channel, kv, checker, nextIndex, matchIndex, senders, boundVars>>
    BY DEF AppendEntries
  <1>7. /\ rf' \in [Server -> RaftState] /\ \A q \in Server \ {s} : rf'[q] = rf[q]
        /\ rf'[s] \in {r, new}
        /\ reply.ok => m.upto <= rf'[s].agree
    <2>1. r.base <= r.agree /\ r.base \in Int /\ r.agree \in Int
      BY <1>1, <1>2, Fields DEF ServerPositions, RaftPositions
    <2>2. CASE rf' = rf /\ (reply.ok => m.upto <= r.base)
      <3>1. m.upto \in Int /\ rf'[s] = r
        BY <1>1, <1>2, <2>2
      <3>2. reply.ok => m.upto <= r.agree
        BY <2>1, <2>2, <3>1
      <3> QED BY <1>1, <2>2, <3>1, <3>2 DEF TypeInv
    <2>3. CASE rf' = [rf EXCEPT ![s] = new]
      BY <1>1, <1>3, <1>4, <2>3 DEF TypeInv
    <2> QED BY <1>5, <2>2, <2>3
  <1>8. TypeInv'
    <2>1. reply \in Message
      BY <1>1 DEF Message
    <2> QED BY <1>1, <1>5, <1>6, <1>7, <2>1 DEF TypeInv, channel, boundVars
  <1>9. OnlyAt(s)
    BY <1>6, <1>7 DEF OnlyAt, channel
  <1>10. ServerPositions(s)' /\ r.agree <= rf'[s].agree
    <2>1. /\ RaftPositions(rf'[s]) /\ r.commit <= rf'[s].commit /\ r.agree <= rf'[s].agree
          /\ r.commit \in Int /\ rf'[s].commit \in Int /\ rf'[s].base = r.base
      BY <1>1, <1>2, <1>3, <1>4, <1>7, <1>8, Fields, FieldsNext DEF ServerPositions
    <2> QED BY <1>1, <1>2, <1>6, <2>1, Fields DEF ServerPositions, channel
  <1>11. \A x \in net' \ net : MessagePositions(x)'
    BY <1>5, <1>7 DEF MessagePositions
  <1>12. Positions'
    BY <1>1, <1>6, <1>8, <1>9, <1>10, <1>11, PositionsStep
  <1> QED BY <1>8, <1>12 DEF PositionInv
\* A snapshot that is installed becomes the log's beginning, whatever the log was.
LEMMA InstallPositions ==
  ASSUME PositionInv, NEW m \in net, CondInstallSnap(m)
  PROVE  PositionInv'
  <1> DEFINE s == m.to
             r == rf[s]
             new == Installed(r, m.index)
             image == [index |-> m.index, data |-> m.data]
             reply == [type |-> "installed", to |-> m.to, upto |-> m.index,
                       ok |-> Accepts(rf[m.to], m.index), conflict |-> 0]
  <1>1. /\ TypeInv /\ m.type = "install" /\ s \in Follower /\ s \in Server /\ s # Leader
        /\ m.index \in Index /\ m.index \in Int /\ m.data \subseteq Index /\ reply \in Message
    <2>1. /\ TypeInv /\ m.type = "install" /\ s \in Follower /\ m.index \in Index
          /\ m.data \subseteq Index
      BY DEF CondInstallSnap, PositionInv, TypeInv, Message
    <2>2. s \in Server /\ s # Leader /\ m.index \in Int
      BY <2>1, Constants
    <2>3. Accepts(rf[m.to], m.index) \in BOOLEAN
      BY DEF Accepts
    <2> QED BY <2>1, <2>2, <2>3 DEF Message
  <1>2. r \in RaftState /\ ServerPositions(s) /\ RaftPositions(r)
    BY <1>1, Fields DEF PositionInv, Positions, ServerPositions
  <1>3. /\ r.last \in Int /\ r.agree \in Int /\ r.commit \in Int /\ r.commit \in Index
        /\ m.index \in 0 .. Len(Kind) + MaxTail
    BY <1>1, Fields, Constants
  <1> DEFINE keep == m.index < r.last /\ m.index <= r.agree
  <1>4. /\ new \in RaftState
        /\ new.lastApplied = m.index /\ new.base = m.index
        /\ keep => new.last = r.last /\ new.agree = r.agree /\ new.commit = Larger(r.commit, m.index)
        /\ ~keep => new.last = m.index /\ new.agree = m.index /\ new.commit = m.index
    <2>1. Larger(r.commit, m.index) \in Index
      BY <1>1, <1>3 DEF Larger
    <2> QED BY <1>1, <1>2, <1>3, <2>1 DEF Installed, RaftState
  <1> HIDE DEF new
  <1>5. /\ RaftPositions(new) /\ r.agree <= new.agree /\ r.commit <= new.commit
        /\ m.index <= new.commit /\ m.index <= new.agree
    <2>1. r.commit <= r.agree /\ r.agree <= r.last
      BY <1>2 DEF RaftPositions
    <2>2. CASE keep
      BY <1>1, <1>3, <1>4, <2>1, <2>2 DEF Larger, RaftPositions
    <2>3. CASE ~keep
      BY <1>1, <1>3, <1>4, <2>1, <2>3 DEF RaftPositions
    <2> QED BY <2>2, <2>3
  <1>6. /\ net' = (net \ {m}) \cup {reply}
        /\ UNCHANGED <<applier, recovery, kv, checker, nextIndex, matchIndex, senders, boundVars>>
    BY DEF CondInstallSnap, Answered
  <1> HIDE DEF reply
  <1>7. CASE Accepts(r, m.index)
    <2>1. /\ rf' = [rf EXCEPT ![s] = new]
          /\ snapshot' = [snapshot EXCEPT ![s] = image]
          /\ install' = [install EXCEPT ![s] = image]
      BY <1>7 DEF CondInstallSnap, new
    <2>2. image \in Image /\ image.index = m.index /\ image # NoSnapshot
      <3>1. image.index = m.index /\ m.index # -1
        BY <1>1, Constants
      <3> QED BY <1>1, <3>1, Constants DEF Image
    <2> HIDE DEF image
    <2>3. /\ rf' \in [Server -> RaftState] /\ snapshot' \in [Server -> Image]
          /\ install' \in [Server -> Image]
          /\ rf'[s] = new /\ install'[s] = image /\ snapshot'[s] = image
          /\ \A q \in Server \ {s} :
                rf'[q] = rf[q] /\ snapshot'[q] = snapshot[q] /\ install'[q] = install[q]
      BY <1>1, <1>4, <2>1, <2>2 DEF TypeInv
    <2>4. TypeInv'
      BY <1>1, <1>6, <2>3 DEF TypeInv, boundVars
    <2>5. OnlyAt(s)
      BY <1>6, <2>3 DEF OnlyAt
    <2>6. ServerPositions(s)'
      <3>1. new.commit \in Int
        BY <1>1, <2>3, <2>4, FieldsNext
      <3>2. /\ applier[s] <= r.commit /\ recovery[s].index <= r.commit
            /\ kv[s].logLastApplied <= r.commit /\ checker[s].index <= r.commit
            /\ r.commit <= new.commit
        BY <1>2, <1>5 DEF ServerPositions
      <3>3. /\ applier[s] <= new.commit /\ recovery[s].index <= new.commit
            /\ kv[s].logLastApplied <= new.commit /\ checker[s].index <= new.commit
        BY <1>1, <1>3, <3>1, <3>2, Fields, SMTT(120)
      <3> QED BY <1>5, <1>6, <2>2, <2>3, <3>3 DEF ServerPositions
    <2>7. \A x \in net' \ net : MessagePositions(x)'
      <3>1. \A x \in net' \ net : x = reply
        BY <1>6
      <3>2. reply.to = s /\ reply.upto = m.index /\ reply.type = "installed"
        BY DEF reply
      <3> QED BY <1>5, <2>3, <3>1, <3>2 DEF MessagePositions
    <2>8. Positions'
      BY <1>1, <1>5, <1>6, <2>3, <2>4, <2>5, <2>6, <2>7, PositionsStep
    <2> QED BY <2>4, <2>8 DEF PositionInv
  <1>8. CASE ~Accepts(r, m.index)
    <2>1. UNCHANGED <<raftVars, install>>
      BY <1>8 DEF CondInstallSnap
    <2>2. TypeInv'
      BY <1>1, <1>6, <2>1 DEF TypeInv, raftVars, boundVars
    <2>3. OnlyAt(s) /\ ServerPositions(s)'
      BY <1>2, <1>6, <2>1 DEF OnlyAt, ServerPositions, raftVars
    <2>4. \A x \in net' \ net : MessagePositions(x)'
      <3>1. \A x \in net' \ net : x = reply
        BY <1>6
      <3>2. ~reply.ok /\ reply.type = "installed"
        BY <1>8 DEF reply
      <3> QED BY <3>1, <3>2 DEF MessagePositions
    <2>5. rf[s].agree <= rf'[s].agree
      BY <1>3, <2>1 DEF raftVars
    <2>6. Positions'
      BY <1>1, <1>6, <2>2, <2>3, <2>4, <2>5, PositionsStep
    <2> QED BY <2>2, <2>6 DEF PositionInv
  <1> QED BY <1>7, <1>8

\* The leader's arrays follow the answers; a success speaks the truth.
LEMMA ReplyPositions ==
  ASSUME PositionInv, NEW m \in net, LeaderHandlesReply(m)
  PROVE  PositionInv'
  <1> DEFINE f == m.to
             match == Larger(matchIndex[f], m.upto)
  <1>1. /\ TypeInv /\ m.type \in {"appended", "installed"} /\ f \in Follower
        /\ m.upto \in Index /\ m.upto \in Int /\ m.conflict \in Nat
        /\ nextIndex[f] \in 1 .. Len(Kind) + 1 /\ matchIndex[f] \in Index /\ matchIndex[f] \in Int
        /\ matchIndex[f] >= 0 /\ Leader \in Server
    <2>1. /\ TypeInv /\ m.type \in {"appended", "installed"} /\ f \in Follower
          /\ m.upto \in Index /\ m.conflict \in Nat
      BY DEF LeaderHandlesReply, PositionInv, TypeInv, Message
    <2>2. nextIndex[f] \in 1 .. Len(Kind) + 1 /\ matchIndex[f] \in Index
      BY <2>1 DEF TypeInv
    <2> QED BY <2>1, <2>2, Constants
  <1>2. match \in Index /\ match + 1 \in 1 .. Len(Kind) + 1 /\ match \in {matchIndex[f], m.upto}
    <2>1. match \in Index /\ match \in {matchIndex[f], m.upto}
      BY <1>1 DEF Larger
    <2> QED BY <2>1, Constants
  <1>3. /\ net' = net \ {m}
        /\ UNCHANGED <<raftVars, channel, kv, checker, senders, boundVars>>
    BY DEF LeaderHandlesReply
  <1> HIDE DEF match
  <1>4. /\ nextIndex' \in [Follower -> 1 .. Len(Kind) + 1] /\ matchIndex' \in [Follower -> Index]
        /\ \A g \in Follower : matchIndex'[g] = matchIndex[g]
                               \/ matchIndex'[g] = 0
                               \/ \E x \in net : /\ x.type \in {"appended", "installed"} /\ x.ok
                                                 /\ x.to = g /\ matchIndex'[g] = x.upto
    <2>1. CASE m.ok
      <3>1. /\ matchIndex' = [matchIndex EXCEPT ![f] = match]
            /\ nextIndex' = [nextIndex EXCEPT ![f] = match + 1]
        BY <2>1 DEF LeaderHandlesReply, Succeeded, match
      <3>2. /\ matchIndex' \in [Follower -> Index] /\ nextIndex' \in [Follower -> 1 .. Len(Kind) + 1]
            /\ matchIndex'[f] = match /\ \A g \in Follower \ {f} : matchIndex'[g] = matchIndex[g]
        BY <1>1, <1>2, <3>1 DEF TypeInv
      <3> QED BY <1>1, <1>2, <2>1, <3>2
    <2>2. CASE ~m.ok
      <3>1. /\ m.conflict < nextIndex[f] /\ m.conflict > matchIndex[f]
            /\ nextIndex' = [nextIndex EXCEPT ![f] = m.conflict] /\ matchIndex' = matchIndex
        BY <2>2 DEF LeaderHandlesReply, Succeeded
      <3>2. m.conflict \in 1 .. Len(Kind) + 1
        BY <1>1, <3>1, Constants
      <3> QED BY <1>1, <3>1, <3>2 DEF TypeInv
    <2> QED BY <2>1, <2>2
  <1>5. TypeInv'
    BY <1>1, <1>3, <1>4 DEF TypeInv, raftVars, channel, boundVars
  <1>6. OnlyAt(Leader) /\ ServerPositions(Leader)'
    BY <1>1, <1>3 DEF OnlyAt, PositionInv, Positions, ServerPositions, raftVars, channel
  <1>7. rf[Leader].agree <= rf'[Leader].agree /\ rf'[Leader].agree = rf'[Leader].last
    BY <1>1, <1>3, Fields DEF PositionInv, Positions, raftVars
  <1>8. \A x \in net' \ net : MessagePositions(x)'
    BY <1>3
  <1>9. Positions'
    BY <1>1, <1>4, <1>5, <1>6, <1>7, <1>8, PositionsStep
  <1> QED BY <1>5, <1>9 DEF PositionInv

\* A restart starts again from the snapshot, which ends at or before commit.
LEMMA RestartPositions ==
  ASSUME PositionInv, NEW s \in Server, Restart(s)
  PROVE  PositionInv'
  <1> DEFINE r == rf[s]
             base == r.base
             known == IF snapshot[s] = NoSnapshot THEN 0 ELSE base
             new == [r EXCEPT !.commit = known, !.lastApplied = known, !.passive = FALSE, !.active = FALSE]
             image == IF snapshot[s] = NoSnapshot THEN NoSnapshot
                      ELSE [index |-> base, data |-> snapshot[s].data]
  <1>1. /\ TypeInv /\ r \in RaftState /\ ServerPositions(s) /\ RaftPositions(r)
        /\ snapshot[s] \in Image /\ (s = Leader => r.agree = r.last)
        /\ r.agree \in Int /\ base \in Int /\ r.commit \in Int /\ base \in Index /\ base >= 0
        /\ Leader \in Server
    <2>1. /\ TypeInv /\ ServerPositions(s) /\ (s = Leader => r.agree = r.last)
      BY DEF PositionInv, Positions
    <2> QED BY <2>1, Fields, Constants DEF ServerPositions
  <1>2. known = base /\ image \in Image /\ image.index <= base
    <2>1. known = base
      BY <1>1 DEF ServerPositions
    <2>2. CASE snapshot[s] = NoSnapshot
      BY <1>1, <2>1, <2>2, Constants
    <2>3. CASE snapshot[s] # NoSnapshot
      <3>1. snapshot[s] \in [index : Index, data : SUBSET Index]
        BY <1>1, <2>3 DEF Image
      <3> QED BY <1>1, <2>1, <2>3, <3>1 DEF Image
    <2> QED BY <2>1, <2>2, <2>3
  <1>3. /\ rf' = [rf EXCEPT ![s] = new]
        /\ recovery' = [recovery EXCEPT ![s] = image]
        /\ applier' = [applier EXCEPT ![s] = None]
        /\ install' = [install EXCEPT ![s] = NoSnapshot]
        /\ kv' = [kv EXCEPT ![s] = NewService]
        /\ checker' = [checker EXCEPT ![s] = Idle]
        /\ snapshot' = snapshot /\ rounds' = rounds /\ restarts' = restarts + 1
        /\ net' \subseteq net /\ senders' \subseteq senders
        /\ nextIndex' = IF s = Leader THEN [f \in Follower |-> rf[Leader].last + 1] ELSE nextIndex
        /\ matchIndex' = IF s = Leader THEN [f \in Follower |-> 0] ELSE matchIndex
    BY <1>1 DEF Restart, TypeInv
  <1> HIDE DEF known, image
  <1>4. new \in RaftState /\ RaftPositions(new) /\ new.commit = base
        /\ new.agree = r.agree /\ new.last = r.last /\ new.base = base
    <2>1. /\ new.commit = base /\ new.agree = r.agree /\ new.last = r.last /\ new.base = base
          /\ new.lastApplied = base /\ new \in RaftState
      BY <1>1, <1>2 DEF RaftState
    <2> HIDE DEF new
    <2> QED BY <1>1, <2>1 DEF RaftPositions
  <1> HIDE DEF new
  <1>5. NewService \in Service /\ Idle \in Checker
        /\ NewService.logLastApplied = 0 /\ Idle.index = 0
    BY Constants DEF NewService, Idle, Service, Checker
  <1>6. /\ rf' \in [Server -> RaftState] /\ recovery' \in [Server -> Image]
        /\ applier' \in [Server -> {None} \cup (Index \ {0})] /\ install' \in [Server -> Image]
        /\ kv' \in [Server -> Service] /\ checker' \in [Server -> Checker]
        /\ rf'[s] = new /\ recovery'[s] = image /\ applier'[s] = -1 /\ install'[s] = NoSnapshot
        /\ kv'[s] = NewService /\ checker'[s] = Idle
        /\ OnlyAt(s)
    BY <1>1, <1>2, <1>3, <1>4, <1>5, Constants DEF TypeInv, OnlyAt
  <1>7. nextIndex' \in [Follower -> 1 .. Len(Kind) + 1] /\ matchIndex' \in [Follower -> Index]
    <2>1. CASE s = Leader
      <3>1. rf[Leader].last + 1 \in 1 .. Len(Kind) + 1
        BY <1>1, <2>1, Fields, Constants
      <3> QED BY <1>3, <2>1, <3>1, Constants
    <2>2. CASE s # Leader
      BY <1>1, <1>3, <2>2 DEF TypeInv
    <2> QED BY <2>1, <2>2
  <1>8. TypeInv'
    BY <1>1, <1>3, <1>6, <1>7 DEF TypeInv
  <1>9. ServerPositions(s)'
    BY <1>1, <1>2, <1>3, <1>4, <1>5, <1>6, Constants DEF ServerPositions
  <1>10. \A f \in Follower : matchIndex'[f] \in {matchIndex[f], 0}
    BY <1>3
  <1>11. \A m \in net' \ net : MessagePositions(m)'
    BY <1>3
  <1>12. rf[s].agree <= rf'[s].agree /\ (s = Leader => rf'[s].agree = rf'[s].last)
    BY <1>1, <1>4, <1>6
  <1>13. Positions'
    BY <1>6, <1>8, <1>9, <1>10, <1>11, <1>12, PositionsStep
  <1> QED BY <1>8, <1>13 DEF PositionInv

\* Every step keeps the positions.
LEMMA PositionInvNext == PositionInv /\ [Next]_vars => PositionInv'
  <1> SUFFICES ASSUME PositionInv, [Next]_vars
               PROVE  PositionInv'
    OBVIOUS
  <1>1. CASE UNCHANGED vars
    BY <1>1 DEF vars, raftVars, channel, leaderVars, boundVars, PositionInv, TypeInv, Positions,
                ServerPositions, MessagePositions
  <1>2. CASE Next
    BY <1>2, ApplierPositions, CommandPositions, ImagePositions, InstalledPositions, CheckPositions,
       EncodePositions, SnapshotPositions, LeaderPositions, SendPositions, AppendEntriesPositions,
       InstallPositions, ReplyPositions, RestartPositions
       DEF Next, ServiceStep, CheckerStep, LeaderStep, FollowerStep
  <1> QED BY <1>1, <1>2

\* It holds when the leader has just taken office.
LEMMA PositionInit == Init => PositionInv
  <1> SUFFICES ASSUME Init
               PROVE  PositionInv
    OBVIOUS
  <1>1. PICK tail \in [Follower -> 0 .. MaxTail] :
           rf = [s \in Server |-> NewRaft(IF s = Leader THEN 0 ELSE tail[s])]
    BY DEF Init
  <1>2. ASSUME NEW s \in Server
        PROVE  (IF s = Leader THEN 0 ELSE tail[s]) \in 0 .. MaxTail
    BY Constants DEF Follower
  <1>3. ASSUME NEW n \in 0 .. MaxTail
        PROVE  /\ NewRaft(n) \in RaftState /\ RaftPositions(NewRaft(n))
               /\ NewRaft(n).commit = 0 /\ NewRaft(n).agree = 0 /\ NewRaft(n).base = 0
               /\ NewRaft(n).last = n
    <2>1. n \in 0 .. Len(Kind) + MaxTail
      BY Constants
    <2> QED BY <2>1, Constants DEF NewRaft, RaftState, RaftPositions
  <1>4. /\ rf \in [Server -> RaftState]
        /\ \A s \in Server : /\ RaftPositions(rf[s]) /\ rf[s].commit = 0 /\ rf[s].agree = 0
                              /\ rf[s].base = 0
        /\ rf[Leader].last = 0
    BY <1>1, <1>2, <1>3, Constants
  <1>5. NewService \in Service /\ Idle \in Checker
        /\ NewService.logLastApplied = 0 /\ Idle.index = 0
    BY Constants DEF NewService, Idle, Service, Checker
  <1>6. 1 \in 1 .. Len(Kind) + 1 /\ 0 \in Nat
    BY Constants
  <1>7. TypeInv
    BY <1>4, <1>5, <1>6, Constants DEF Init, TypeInv
  <1>8. \A s \in Server : ServerPositions(s)
    BY <1>4, <1>5, Constants DEF Init, ServerPositions
  <1>9. \A f \in Follower : matchIndex[f] <= rf[f].agree
    BY <1>4, Constants DEF Init
  <1> QED BY <1>4, <1>7, <1>8, <1>9, Constants DEF PositionInv, Positions, Init
\* The positions the code takes in rf.log exist, commit never covers entries of another
\* leader (applier, Snapshot, LeaderSendSnapshot), and matchIndex never overstates what a
\* follower has: whatever windows are open.
THEOREM PositionsExist == Spec => []LogPositions
  <1>1. PositionInv => LogPositions
    <2> SUFFICES ASSUME PositionInv
                 PROVE  LogPositions
      OBVIOUS
    <2>1. ASSUME NEW s \in Server
          PROVE  /\ RaftPositions(rf[s])
                 /\ checker[s].index <= rf[s].last
      <3>1. ServerPositions(s)
        BY DEF PositionInv, Positions
      <3> QED BY <3>1, Fields DEF ServerPositions, RaftPositions, PositionInv
    <2> QED BY <2>1 DEF LogPositions, RaftPositions, PositionInv, Positions
  <1> QED BY <1>1, PositionInit, PositionInvNext, PTL DEF Spec

\* Every field of raft.go and server.go in the model keeps its domain.
THEOREM TypeCorrect == Spec => []TypeOK
  <1>1. PositionInv => TypeOK
    <2> SUFFICES ASSUME PositionInv
                 PROVE  TypeOK
      OBVIOUS
    <2>1. ASSUME NEW s \in Server
          PROVE  /\ rf[s].base \in Index /\ rf[s].last \in 0 .. Len(Kind) + MaxTail
                 /\ rf[s].agree \in Index
                 /\ rf[s].commit \in Index /\ rf[s].lastApplied \in Index
                 /\ applier[s] \in {None} \cup (Index \ {0})
                 /\ kv[s].done \subseteq Index /\ kv[s].logLastApplied \in Index
      <3>1. /\ rf[s] \in RaftState /\ kv[s] \in Service
            /\ applier[s] \in {None} \cup (Index \ {0})
        BY DEF PositionInv, TypeInv
      <3> QED BY <3>1 DEF RaftState, Service
    <2> QED BY <2>1 DEF TypeOK, PositionInv, TypeInv
  <1> QED BY <1>1, PositionInit, PositionInvNext, PTL DEF Spec
-----------------------------------------------------------------------------
(* The state machine, with both windows closed. *)

\* The assumption of the theorems below: a snapshot's bytes are those of its label, and
\* recoverFromSnap's goroutine is served first.
WindowsClosed == Windows = {}

\* No entry is for a shard of another group.
AllOwned == \A i \in Index \ {0} : Kind[i] # "foreign"

\* No command that a state machine executes is in n + 1 .. k.
NoOps(n, k) == \A j \in n + 1 .. k : Kind[j] # "op"

ImageExact(m) == m # NoSnapshot => m.data = Exact(m.index)

\* The service has executed what it counts, and so has every snapshot that was made of it.
StatesExact(s) ==
    /\ kv[s].done = Exact(kv[s].logLastApplied)
    /\ ImageExact(snapshot[s]) /\ ImageExact(recovery[s]) /\ ImageExact(install[s])
    /\ snapshot[s] # NoSnapshot => snapshot[s].index = rf[s].base
    /\ checker[s].pc = "snapshot" =>
          checker[s].data = Exact(checker[s].index) /\ checker[s].index <= kv[s].logLastApplied

\* While a snapshot waits to be installed, or to be recovered, none is made.
SnapshotsWait(s) ==
    /\ checker[s].pc # "idle" => rf[s].active
    /\ install[s] # NoSnapshot =>
          /\ rf[s].passive /\ checker[s].pc = "idle"
          /\ install[s].index = rf[s].lastApplied /\ rf[s].base = rf[s].lastApplied
    /\ recovery[s] # NoSnapshot =>
          /\ checker[s].pc = "idle" /\ kv[s].logLastApplied = 0
          /\ rf[s].base <= rf[s].lastApplied
          /\ install[s] = NoSnapshot =>
                \/ applier[s] = None /\ rf[s].lastApplied = recovery[s].index
                \/ applier[s] = rf[s].lastApplied /\ applier[s] = recovery[s].index + 1

\* Where Raft would jump over entries that a snapshot covers, the service has them.
JumpsCovered(s) ==
    rf[s].base <= rf[s].lastApplied \/ rf[s].base <= kv[s].logLastApplied

\* Raft's count and the service's.  With passiveSnapshotBefore the service takes only its
\* very next command, and passes over a foreign one for ever.
Handed(k, applied) ==
    /\ ~k.passiveSnapshotBefore => NoOps(k.logLastApplied, applied)
    /\ k.passiveSnapshotBefore /\ AllOwned => applied <= k.logLastApplied

\* The same with command a on its way: the last one counted, or one that a snapshot overtook.
Pending(k, applied, a) ==
    \/ k.passiveSnapshotBefore /\ applied <= k.logLastApplied
    \/ /\ a = applied
       /\ ~k.passiveSnapshotBefore => NoOps(k.logLastApplied, a - 1)
       /\ k.passiveSnapshotBefore /\ AllOwned => a <= k.logLastApplied + 1

CountsMeet(s) ==
    /\ recovery[s] = NoSnapshot /\ applier[s] # None /\ ~kv[s].passiveSnapshotBefore =>
          NoOps(kv[s].logLastApplied, applier[s] - 1)
    /\ recovery[s] = NoSnapshot /\ install[s] = NoSnapshot =>
          IF applier[s] = None THEN Handed(kv[s], rf[s].lastApplied)
                               ELSE Pending(kv[s], rf[s].lastApplied, applier[s])

ServerExact(s) == StatesExact(s) /\ SnapshotsWait(s) /\ JumpsCovered(s) /\ CountsMeet(s)

\* The bytes that are on their way are those of their label.
SendersExact == \A t \in senders : t.data = Exact(rf[Leader].base)
RequestsExact == \A m \in net : m.type = "install" => m.data = Exact(m.index)

ExactInv == (\A s \in Server : ServerExact(s)) /\ SendersExact /\ RequestsExact

\* A step of one server.
LEMMA ExactStep ==
  ASSUME ExactInv, NEW s \in Server, OnlyAt(s), ServerExact(s)', SendersExact', RequestsExact'
  PROVE  ExactInv'
  <1>1. ASSUME NEW q \in Server \ {s}
        PROVE  ServerExact(q)'
    BY DEF ExactInv, ServerExact, StatesExact, SnapshotsWait, JumpsCovered, CountsMeet, OnlyAt
  <1> QED BY <1>1 DEF ExactInv

\* A step of one server that sends nothing and leaves a leader's snapshot alone.
LEMMA QuietExact ==
  ASSUME ExactInv, PositionInv, NEW s \in Server, OnlyAt(s), ServerExact(s)',
         senders' \subseteq senders, net' \subseteq net, s = Leader => rf'[s].base = rf[s].base
  PROVE  ExactInv'
  <1>1. rf'[Leader].base = rf[Leader].base
    BY Constants DEF OnlyAt
  <1>2. SendersExact' /\ RequestsExact'
    BY <1>1 DEF ExactInv, SendersExact, RequestsExact
  <1> QED BY <1>2, ExactStep

\* What a state machine has executed, entry by entry.
LEMMA ExactGrows ==
  ASSUME NEW n \in Index, NEW i \in Index, n < i, NoOps(n, i - 1)
  PROVE  /\ Kind[i] = "op" => Exact(i) = Exact(n) \cup {i}
         /\ Kind[i] # "op" => Exact(i) = Exact(n)
  <1>1. n \in Int /\ i \in Int
    BY Constants
  <1>2. \A j \in 1 .. i : j <= n \/ j \in n + 1 .. i - 1 \/ j = i
    BY <1>1
  <1>3. 1 .. n \subseteq 1 .. i
    BY <1>1
  <1>4. i \in 1 .. i
    BY <1>1, Constants
  <1> QED BY <1>1, <1>2, <1>3, <1>4 DEF Exact, NoOps

\* Where no operations lie between, nothing is missing.
LEMMA ExactCovers ==
  ASSUME NEW n \in Index, NEW k \in Index, NoOps(n, k)
  PROVE  Exact(k) \subseteq Exact(n)
  <1>1. n \in Int /\ k \in Int
    BY Constants
  <1>2. \A j \in 1 .. k : j \in 1 .. n \/ j \in n + 1 .. k
    BY <1>1
  <1> QED BY <1>2 DEF Exact, NoOps

\* One command, executed or not, leaves the state that is counted.
LEMMA ExecuteDone ==
  ASSUME NEW st \in Service, NEW i \in Index \ {0}, st.done = Exact(st.logLastApplied),
         ~st.passiveSnapshotBefore => NoOps(st.logLastApplied, i - 1)
  PROVE  LET e == executeCmd(st, i)
         IN  e.done = Exact(e.logLastApplied) /\ st.logLastApplied <= e.logLastApplied
  <1> DEFINE n == st.logLastApplied
             e == executeCmd(st, i)
  <1>1. n \in Index /\ n \in Int /\ i \in Int /\ i \in Index
    BY Constants DEF Service
  <1>2. CASE InPlace(st, i) /\ Kind[i] # "foreign"
    <2>1. n < i /\ NoOps(n, i - 1)
      BY <1>1, <1>2 DEF InPlace, NoOps
    <2>2. /\ e.logLastApplied = i
          /\ e.done = IF Kind[i] = "op" THEN st.done \cup {i} ELSE st.done
      BY <1>2 DEF executeCmd, Service
    <2> QED BY <1>1, <2>1, <2>2, ExactGrows
  <1>3. CASE ~(InPlace(st, i) /\ Kind[i] # "foreign")
    <2>1. e = st
      BY <1>3 DEF executeCmd
    <2> QED BY <1>1, <2>1
  <1> QED BY <1>2, <1>3

\* The two counts after a command, new and in place, foreign, or to be ignored.
LEMMA ExecuteHands ==
  ASSUME NEW st \in Service, NEW i \in Index \ {0}, NEW applied \in Index,
         Pending(st, applied, i)
  PROVE  Handed(executeCmd(st, i), applied)
  <1> DEFINE n == st.logLastApplied
             e == executeCmd(st, i)
  <1>1. n \in Index /\ n \in Int /\ i \in Int /\ i \in Index /\ applied \in Int
        /\ st.passiveSnapshotBefore \in BOOLEAN /\ i > 0 /\ n >= 0
    BY Constants DEF Service
  <1>2. CASE InPlace(st, i) /\ Kind[i] # "foreign"
    <2>1. n < i
      BY <1>2 DEF InPlace
    <2>2. /\ e.logLastApplied = i /\ e.passiveSnapshotBefore = FALSE
      BY <1>2 DEF executeCmd, Service
    <2>4. applied <= i
      BY <1>1, <2>1 DEF Pending
    <2>5. NoOps(i, applied)
      BY <1>1, <2>4 DEF NoOps
    <2> QED BY <2>2, <2>5 DEF Handed
  <1>3. CASE Kind[i] = "foreign"
    <2>1. e = st
      BY <1>3 DEF executeCmd
    <2>2. ~AllOwned
      BY <1>1, <1>3 DEF AllOwned
    <2>3. ~st.passiveSnapshotBefore => NoOps(n, applied)
      <3> SUFFICES ASSUME ~st.passiveSnapshotBefore, NEW j \in n + 1 .. applied
                   PROVE  Kind[j] # "op"
        BY DEF NoOps
      <3>1. i = applied /\ NoOps(n, i - 1)
        BY DEF Pending
      <3>2. j \in n + 1 .. i - 1 \/ j = i
        BY <1>1, <3>1
      <3> QED BY <1>3, <3>1, <3>2 DEF NoOps
    <2> QED BY <1>1, <2>1, <2>2, <2>3 DEF Handed
  <1>4. CASE ~InPlace(st, i) /\ Kind[i] # "foreign"
    <2>1. e = st
      BY <1>4 DEF executeCmd
    <2>2. ~st.passiveSnapshotBefore => i <= n
      BY <1>1, <1>4 DEF InPlace
    <2>3. st.passiveSnapshotBefore => i # n + 1
      BY <1>1, <1>4 DEF InPlace
    <2>4. ~st.passiveSnapshotBefore => NoOps(n, applied)
      <3>1. ~st.passiveSnapshotBefore => applied <= n
        BY <1>1, <2>2 DEF Pending
      <3> QED BY <1>1, <3>1 DEF NoOps
    <2>5. st.passiveSnapshotBefore /\ AllOwned => applied <= n
      BY <1>1, <2>3 DEF Pending
    <2> QED BY <1>1, <2>1, <2>4, <2>5 DEF Handed
  <1> QED BY <1>2, <1>3, <1>4
\* The applier: on to the snapshot's end, or the next command.
LEMMA ApplierExact ==
  ASSUME PositionInv, ExactInv, NEW s \in Server, applierStep(s)
  PROVE  ExactInv'
  <1> DEFINE i == rf[s].lastApplied + 1
             k == kv[s]
             n == kv[s].logLastApplied
             L == rf[s].lastApplied
  <1>1. /\ TypeInv /\ rf[s] \in RaftState /\ k \in Service /\ n \in Int /\ L \in Int
        /\ rf[s].base \in Int /\ L \in Index /\ i \in Index \ {0} /\ k.passiveSnapshotBefore \in BOOLEAN
        /\ install[s] = NoSnapshot /\ applier[s] = None /\ recovery[s].index \in Int
        /\ ServerExact(s)
    <2>1. TypeInv /\ ServerExact(s) /\ ServerPositions(s)
      BY DEF PositionInv, ExactInv, Positions
    <2>2. L < rf[s].commit
      BY DEF applierStep, Behind
    <2>3. i \in Index \ {0}
      BY <2>1, <2>2, Fields, Constants
    <2>4. k.passiveSnapshotBefore \in BOOLEAN
      BY <2>1, Fields DEF Service
    <2> QED BY <2>1, <2>3, <2>4, Fields DEF applierStep, Unlocked
  <1>2. UNCHANGED <<snapshot, recovery, install, kv, checker, leaderVars, boundVars>>
    BY DEF applierStep
  <1>3. CASE i <= rf[s].base
    <2>1. /\ rf' = [rf EXCEPT ![s] = [rf[s] EXCEPT !.lastApplied = rf[s].base]] /\ applier' = applier
      BY <1>1, <1>3 DEF applierStep, TypeInv
    <2>2. /\ rf'[s].base = rf[s].base /\ rf'[s].lastApplied = rf[s].base
          /\ rf'[s].passive = rf[s].passive /\ rf'[s].active = rf[s].active
          /\ \A q \in Server \ {s} : rf'[q] = rf[q]
      BY <1>1, <2>1 DEF TypeInv, RaftState
    <2>3. ~(rf[s].base <= L)
      BY <1>1, <1>3
    <2>4. recovery[s] = NoSnapshot /\ rf[s].base <= n
      BY <1>1, <2>3 DEF ServerExact, SnapshotsWait, JumpsCovered
    <2>5. Handed(k, rf[s].base)
      BY <1>1, <2>4 DEF Handed, NoOps
    <2>6. ServerExact(s)'
      BY <1>1, <1>2, <2>1, <2>2, <2>4, <2>5
         DEF ServerExact, StatesExact, SnapshotsWait, JumpsCovered, CountsMeet
    <2> QED BY <1>2, <2>1, <2>2, <2>6, QuietExact DEF OnlyAt, leaderVars
  <1>4. CASE ~(i <= rf[s].base)
    <2>1. /\ rf' = [rf EXCEPT ![s] = [rf[s] EXCEPT !.lastApplied = i]]
          /\ applier' = [applier EXCEPT ![s] = i]
      BY <1>1, <1>4 DEF applierStep, TypeInv
    <2>2. /\ rf'[s].base = rf[s].base /\ rf'[s].lastApplied = i
          /\ rf'[s].passive = rf[s].passive /\ rf'[s].active = rf[s].active
          /\ applier'[s] = i
          /\ \A q \in Server \ {s} : rf'[q] = rf[q] /\ applier'[q] = applier[q]
      BY <1>1, <2>1 DEF TypeInv, RaftState
    <2>3. i # None /\ rf[s].base <= i
      BY <1>1, <1>4, Constants
    <2>4. recovery[s] = NoSnapshot => Pending(k, i, i)
      <3> SUFFICES ASSUME recovery[s] = NoSnapshot
                   PROVE  Pending(k, i, i)
        OBVIOUS
      <3>1. Handed(k, L)
        BY <1>1 DEF ServerExact, CountsMeet
      <3>2. i - 1 = L
        BY <1>1
      <3>3. k.passiveSnapshotBefore /\ AllOwned => i <= n + 1
        BY <1>1, <3>1 DEF Handed
      <3> QED BY <3>1, <3>2, <3>3 DEF Handed, Pending
    <2>5. recovery[s] # NoSnapshot => L = recovery[s].index /\ i = recovery[s].index + 1
      <3> SUFFICES ASSUME recovery[s] # NoSnapshot
                   PROVE  L = recovery[s].index
        OBVIOUS
      <3>1. L # None
        BY <1>1, Constants
      <3> QED BY <1>1, <3>1 DEF ServerExact, SnapshotsWait
    <2>6. StatesExact(s)' /\ JumpsCovered(s)'
      BY <1>1, <1>2, <2>2, <2>3 DEF ServerExact, StatesExact, JumpsCovered
    <2>7. SnapshotsWait(s)'
      BY <1>1, <1>2, <2>2, <2>3, <2>5 DEF ServerExact, SnapshotsWait
    <2>8. CountsMeet(s)'
      <3>1. recovery[s] = NoSnapshot /\ ~k.passiveSnapshotBefore => NoOps(n, i - 1)
        BY <2>4 DEF Pending
      <3> QED BY <1>2, <2>2, <2>3, <2>4, <3>1 DEF CountsMeet
    <2>9. ServerExact(s)'
      BY <2>6, <2>7, <2>8 DEF ServerExact
    <2> QED BY <1>2, <2>1, <2>2, <2>9, QuietExact DEF OnlyAt, leaderVars
  <1> QED BY <1>3, <1>4

\* The service executes the command that the applier sent.
LEMMA CommandExact ==
  ASSUME WindowsClosed, PositionInv, ExactInv, NEW s \in Server, applyCommand(s)
  PROVE  ExactInv'
  <1> DEFINE k == kv[s]
             i == applier[s]
             e == executeCmd(k, i)
             L == rf[s].lastApplied
  <1>1. /\ TypeInv /\ k \in Service /\ k.logLastApplied \in Int /\ L \in Index
        /\ i \in Index \ {0} /\ i # None /\ i \in Index /\ recovery[s] = NoSnapshot
        /\ ServerExact(s) /\ rf[s].base \in Int /\ checker[s].index \in Int
    <2>1. TypeInv /\ ServerExact(s)
      BY DEF PositionInv, ExactInv
    <2>2. recovery[s] = NoSnapshot
      BY DEF applyCommand, RecoveryFirst, WindowsClosed
    <2>3. i \in Index \ {0} /\ i # None
      BY <2>1 DEF applyCommand, TypeInv
    <2> QED BY <2>1, <2>2, <2>3, Fields
  <1>2. /\ kv' = [kv EXCEPT ![s] = e] /\ applier' = [applier EXCEPT ![s] = None]
        /\ UNCHANGED <<raftVars, recovery, install, checker, leaderVars, boundVars>>
    BY DEF applyCommand
  <1> HIDE DEF e
  <1>3. /\ kv'[s] = e /\ applier'[s] = None
        /\ \A q \in Server \ {s} : kv'[q] = kv[q] /\ applier'[q] = applier[q]
    BY <1>1, <1>2 DEF TypeInv
  <1>4. e.logLastApplied \in {k.logLastApplied, i} /\ e.logLastApplied \in Int
    BY <1>1, ExecuteType, Constants DEF e
  <1>5. e.done = Exact(e.logLastApplied) /\ k.logLastApplied <= e.logLastApplied
    BY <1>1, ExecuteDone DEF ServerExact, StatesExact, CountsMeet, e
  <1>6. install[s] = NoSnapshot => Handed(e, L)
    BY <1>1, ExecuteHands DEF ServerExact, CountsMeet, e
  <1>7. StatesExact(s)'
    BY <1>1, <1>2, <1>3, <1>4, <1>5 DEF ServerExact, StatesExact, raftVars
  <1>8. JumpsCovered(s)' /\ SnapshotsWait(s)'
    BY <1>1, <1>2, <1>3, <1>4, <1>5, Fields
       DEF ServerExact, JumpsCovered, SnapshotsWait, raftVars
  <1>9. CountsMeet(s)'
    BY <1>2, <1>3, <1>6 DEF CountsMeet, raftVars
  <1>10. ServerExact(s)'
    BY <1>7, <1>8, <1>9 DEF ServerExact
  <1> QED BY <1>2, <1>3, <1>10, QuietExact DEF OnlyAt, raftVars, leaderVars
\* The service takes over a snapshot.
LEMMA ImageExactStep ==
  ASSUME WindowsClosed, PositionInv, ExactInv, NEW s \in Server, applySnapshot(s)
  PROVE  ExactInv'
  <1> DEFINE k == kv[s]
             L == rf[s].lastApplied
  <1>1. /\ TypeInv /\ k \in Service /\ L \in Int /\ L \in Index /\ rf[s].base \in Int
        /\ ServerExact(s) /\ recovery[s] \in Image /\ install[s] \in Image
        /\ applier[s] \in {None} \cup (Index \ {0}) /\ applier[s] \in Int
    <2>1. TypeInv /\ ServerExact(s)
      BY DEF PositionInv, ExactInv
    <2> QED BY <2>1, Fields DEF TypeInv
  <1>2. PICK m \in Image :
           /\ m # NoSnapshot
           /\ kv' = [kv EXCEPT ![s] = applySnapshotToSM(k, m)]
           /\ \/ /\ install' = [install EXCEPT ![s] = NoSnapshot] /\ recovery' = recovery
                 /\ m = install[s] /\ recovery[s] = NoSnapshot
              \/ /\ recovery' = [recovery EXCEPT ![s] = NoSnapshot] /\ install' = install
                 /\ m = recovery[s]
    BY <1>1 DEF applySnapshot, RecoveryFirst, WindowsClosed
  <1>3. UNCHANGED <<raftVars, applier, checker, leaderVars, boundVars>>
    BY DEF applySnapshot
  <1> DEFINE e == applySnapshotToSM(k, m)
  <1>4. /\ e.done = m.data /\ e.logLastApplied = m.index /\ e.passiveSnapshotBefore = TRUE
        /\ e.done = Exact(e.logLastApplied) /\ m.index \in Index /\ m.index \in Int
    <2>1. m \in [index : Index, data : SUBSET Index]
      BY <1>2 DEF Image
    <2>2. m.data = Exact(m.index)
      BY <1>1, <1>2 DEF ServerExact, StatesExact, ImageExact
    <2> QED BY <1>1, <2>1, <2>2, Constants DEF applySnapshotToSM, Service
  <1> HIDE DEF e
  <1>5. /\ kv'[s] = e
        /\ \A q \in Server \ {s} :
              kv'[q] = kv[q] /\ install'[q] = install[q] /\ recovery'[q] = recovery[q]
        /\ recovery'[s] \in {recovery[s], NoSnapshot} /\ install'[s] \in {install[s], NoSnapshot}
        /\ \/ install'[s] = NoSnapshot /\ recovery'[s] = NoSnapshot /\ m = install[s]
           \/ install'[s] = install[s] /\ recovery'[s] = NoSnapshot /\ m = recovery[s]
    BY <1>1, <1>2 DEF TypeInv, e
  <1>6. checker[s].pc = "idle"
    BY <1>1, <1>2 DEF ServerExact, SnapshotsWait
  <1>7. StatesExact(s)'
    BY <1>1, <1>3, <1>4, <1>5, <1>6 DEF ServerExact, StatesExact, raftVars, ImageExact
  <1>8. SnapshotsWait(s)'
    BY <1>1, <1>3, <1>5, <1>6 DEF ServerExact, SnapshotsWait, raftVars
  <1>9. JumpsCovered(s)'
    BY <1>1, <1>2, <1>3, <1>4, <1>5 DEF ServerExact, JumpsCovered, SnapshotsWait, raftVars
  <1>10. CountsMeet(s)'
    <2>1. CASE m = install[s]
      <3>1. L = m.index
        BY <1>1, <1>2, <2>1 DEF ServerExact, SnapshotsWait
      <3> QED BY <1>1, <1>3, <1>4, <1>5, <3>1 DEF CountsMeet, Handed, Pending, raftVars
    <2>2. CASE m = recovery[s]
      <3>1. install[s] = NoSnapshot =>
               (applier[s] = None /\ L = m.index) \/ (applier[s] = L /\ applier[s] = m.index + 1)
        BY <1>1, <1>2, <2>2 DEF ServerExact, SnapshotsWait
      <3>2. install'[s] = NoSnapshot => install[s] = NoSnapshot \/ m = install[s]
        BY <1>5
      <3>3. CASE m = install[s]
        BY <2>1, <3>3
      <3>4. CASE m # install[s]
        <4>1. install'[s] = NoSnapshot =>
                 (applier[s] = None => Handed(e, L)) /\ (applier[s] # None => Pending(e, L, applier[s]))
          <5> SUFFICES ASSUME install'[s] = NoSnapshot
                       PROVE  (applier[s] = None => Handed(e, L))
                              /\ (applier[s] # None => Pending(e, L, applier[s]))
            OBVIOUS
          <5>1. (applier[s] = None /\ L = m.index) \/ (applier[s] = L /\ L = m.index + 1)
            BY <3>1, <3>2, <3>4
          <5>2. CASE L = m.index
            <6>1. L <= e.logLastApplied
              BY <1>1, <1>4, <5>2
            <6> QED BY <1>4, <6>1 DEF Handed, Pending
          <5>3. CASE applier[s] = L /\ L = m.index + 1
            <6>1. applier[s] <= e.logLastApplied + 1 /\ applier[s] # None
              BY <1>1, <1>4, <5>3, Constants
            <6> QED BY <1>4, <5>3, <6>1 DEF Pending
          <5> QED BY <5>1, <5>2, <5>3
        <4> QED BY <1>3, <1>4, <1>5, <4>1 DEF CountsMeet, raftVars
      <3> QED BY <3>3, <3>4
    <2> QED BY <1>5, <2>1, <2>2
  <1>11. ServerExact(s)'
    BY <1>7, <1>8, <1>9, <1>10 DEF ServerExact
  <1> QED BY <1>3, <1>5, <1>11, QuietExact DEF OnlyAt, raftVars, leaderVars

\* A step that changes no more of a server than its log's end and commit, its flag passive
\* with nothing to install, and the place of the service's loops.
LEMMA MarginExact ==
  ASSUME NEW s \in Server, ServerExact(s),
         rf'[s].base = rf[s].base, rf'[s].lastApplied = rf[s].lastApplied,
         snapshot'[s] = snapshot[s], applier'[s] = applier[s],
         recovery'[s] = recovery[s], install'[s] = install[s],
         kv'[s].done = kv[s].done, kv'[s].logLastApplied = kv[s].logLastApplied,
         kv'[s].passiveSnapshotBefore = kv[s].passiveSnapshotBefore,
         rf'[s].passive = rf[s].passive \/ install[s] = NoSnapshot,
         \/ checker'[s] = checker[s] /\ rf'[s].active = rf[s].active
         \/ checker'[s].pc = "idle"
         \/ checker'[s].pc # "snapshot" /\ rf'[s].active
            /\ install[s] = NoSnapshot /\ recovery[s] = NoSnapshot
  PROVE  ServerExact(s)'
  <1>1. StatesExact(s)'
    BY DEF ServerExact, StatesExact
  <1>2. SnapshotsWait(s)'
    BY DEF ServerExact, SnapshotsWait
  <1>3. JumpsCovered(s)' /\ CountsMeet(s)'
    BY DEF ServerExact, JumpsCovered, CountsMeet, Handed, Pending
  <1> QED BY <1>1, <1>2, <1>3 DEF ServerExact

\* The turn of applyMessage ends; nothing is waiting to be installed.
LEMMA InstalledExact ==
  ASSUME PositionInv, ExactInv, NEW s \in Server, EndInstall(s)
  PROVE  ExactInv'
  <1>1. /\ TypeInv /\ rf[s] \in RaftState /\ kv[s] \in Service /\ ServerExact(s)
        /\ install[s] = NoSnapshot
    BY Fields DEF PositionInv, ExactInv, EndInstall, Unlocked
  <1>2. /\ rf' = [rf EXCEPT ![s] = [rf[s] EXCEPT !.passive = FALSE]]
        /\ kv' = [kv EXCEPT ![s] = [kv[s] EXCEPT !.pc = "receive"]]
        /\ UNCHANGED <<snapshot, channel, checker, leaderVars, boundVars>>
    BY <1>1 DEF EndInstall, TypeInv
  <1>3. /\ rf'[s] = [rf[s] EXCEPT !.passive = FALSE] /\ kv'[s] = [kv[s] EXCEPT !.pc = "receive"]
        /\ \A q \in Server \ {s} : rf'[q] = rf[q] /\ kv'[q] = kv[q]
    BY <1>1, <1>2 DEF TypeInv
  <1>4. /\ rf'[s].base = rf[s].base /\ rf'[s].lastApplied = rf[s].lastApplied
        /\ rf'[s].active = rf[s].active
        /\ kv'[s].done = kv[s].done /\ kv'[s].logLastApplied = kv[s].logLastApplied
        /\ kv'[s].passiveSnapshotBefore = kv[s].passiveSnapshotBefore
    BY <1>1, <1>3 DEF RaftState, Service
  <1>5. ServerExact(s)'
    BY <1>1, <1>2, <1>4, MarginExact DEF channel
  <1> QED BY <1>2, <1>3, <1>4, <1>5, QuietExact DEF OnlyAt, channel, leaderVars

\* A snapshot is begun only when none is waiting to be installed or recovered, and ends.
LEMMA CheckExact ==
  ASSUME PositionInv, ExactInv, NEW s \in Server, checkSnapshotNeed(s) \/ EndCheck(s)
  PROVE  ExactInv'
  <1>1. /\ TypeInv /\ rf[s] \in RaftState /\ checker[s] \in Checker /\ ServerExact(s)
        /\ rf[s].base \in Int /\ rf[s].base >= 0
    <2>1. TypeInv /\ ServerExact(s)
      BY DEF PositionInv, ExactInv
    <2> QED BY <2>1, Fields, Constants
  <1>2. CASE checkSnapshotNeed(s)
    <2>1. /\ rf' = [rf EXCEPT ![s] = [rf[s] EXCEPT !.active = TRUE]]
          /\ checker' = [checker EXCEPT ![s] = [checker[s] EXCEPT !.pc = "encode"]]
          /\ UNCHANGED <<snapshot, channel, kv, leaderVars, boundVars>>
          /\ ~rf[s].passive /\ kv[s].logLastApplied > rf[s].base
      BY <1>1, <1>2 DEF checkSnapshotNeed, GetPassiveFlagAndSetActiveFlag, TypeInv
    <2>2. install[s] = NoSnapshot /\ recovery[s] = NoSnapshot
      BY <1>1, <2>1 DEF ServerExact, SnapshotsWait
    <2>3. /\ rf'[s] = [rf[s] EXCEPT !.active = TRUE]
          /\ checker'[s] = [checker[s] EXCEPT !.pc = "encode"]
          /\ \A q \in Server \ {s} : rf'[q] = rf[q] /\ checker'[q] = checker[q]
      BY <1>1, <2>1 DEF TypeInv
    <2>4. /\ rf'[s].base = rf[s].base /\ rf'[s].lastApplied = rf[s].lastApplied
          /\ rf'[s].passive = rf[s].passive /\ rf'[s].active
          /\ checker'[s].pc = "encode"
      BY <1>1, <2>3 DEF RaftState, Checker
    <2>5. ServerExact(s)'
      BY <1>1, <2>1, <2>2, <2>4, MarginExact DEF channel
    <2> QED BY <2>1, <2>3, <2>4, <2>5, QuietExact DEF OnlyAt, channel, leaderVars
  <1>3. CASE EndCheck(s)
    <2>1. /\ rf' = [rf EXCEPT ![s] = [rf[s] EXCEPT !.active = FALSE]]
          /\ checker' = [checker EXCEPT ![s] = Idle]
          /\ UNCHANGED <<snapshot, channel, kv, leaderVars, boundVars>>
      BY <1>1, <1>3 DEF EndCheck, TypeInv
    <2>2. /\ rf'[s] = [rf[s] EXCEPT !.active = FALSE] /\ checker'[s] = Idle
          /\ \A q \in Server \ {s} : rf'[q] = rf[q] /\ checker'[q] = checker[q]
      BY <1>1, <2>1 DEF TypeInv
    <2>3. /\ rf'[s].base = rf[s].base /\ rf'[s].lastApplied = rf[s].lastApplied
          /\ rf'[s].passive = rf[s].passive /\ checker'[s].pc = "idle"
      BY <1>1, <2>2 DEF RaftState, Idle
    <2>4. ServerExact(s)'
      BY <1>1, <2>1, <2>3, MarginExact DEF channel
    <2> QED BY <2>1, <2>2, <2>3, <2>4, QuietExact DEF OnlyAt, channel, leaderVars
  <1> QED BY <1>2, <1>3

\* The state is encoded with the count that belongs to it.
LEMMA EncodeExact ==
  ASSUME PositionInv, ExactInv, NEW s \in Server, Encode(s)
  PROVE  ExactInv'
  <1> DEFINE c == [pc |-> "snapshot", index |-> kv[s].logLastApplied, data |-> kv[s].done]
  <1>1. /\ TypeInv /\ ServerExact(s) /\ checker[s].pc = "encode" /\ kv[s].logLastApplied \in Int
    <2>1. TypeInv /\ ServerExact(s)
      BY DEF PositionInv, ExactInv
    <2> QED BY <2>1, Fields DEF Encode
  <1>2. /\ checker' = [checker EXCEPT ![s] = c]
        /\ UNCHANGED <<raftVars, channel, kv, leaderVars, boundVars>>
    BY DEF Encode, SnapshotIndex
  <1>3. /\ checker'[s] = c /\ \A q \in Server \ {s} : checker'[q] = checker[q]
    BY <1>1, <1>2 DEF TypeInv
  <1>4. StatesExact(s)'
    BY <1>1, <1>2, <1>3 DEF ServerExact, StatesExact, raftVars, channel
  <1>5. SnapshotsWait(s)' /\ JumpsCovered(s)' /\ CountsMeet(s)'
    BY <1>1, <1>2, <1>3 DEF ServerExact, SnapshotsWait, JumpsCovered, CountsMeet, raftVars, channel
  <1>6. ServerExact(s)'
    BY <1>4, <1>5 DEF ServerExact
  <1> QED BY <1>2, <1>3, <1>6, QuietExact DEF OnlyAt, raftVars, channel, leaderVars
\* Snapshot cuts the log where the encoded state ends; no older bytes are about to be sent.
LEMMA SnapshotExact ==
  ASSUME WindowsClosed, PositionInv, ExactInv, NEW s \in Server, Snapshot(s)
  PROVE  ExactInv'
  <1> DEFINE i == checker[s].index
             c == [checker[s] EXCEPT !.pc = "clear"]
             image == [index |-> i, data |-> checker[s].data]
  <1>1. /\ TypeInv /\ ServerExact(s) /\ checker[s].pc = "snapshot" /\ checker[s] \in Checker
        /\ i \in Int /\ i \in Index /\ rf[s] \in RaftState /\ kv[s].logLastApplied \in Int
        /\ rf[s].active /\ install[s] = NoSnapshot /\ recovery[s] = NoSnapshot
    <2>1. TypeInv /\ ServerExact(s) /\ checker[s].pc = "snapshot"
      BY DEF PositionInv, ExactInv, Snapshot
    <2>2. rf[s].active /\ install[s] = NoSnapshot /\ recovery[s] = NoSnapshot
      BY <2>1 DEF ServerExact, SnapshotsWait
    <2> QED BY <2>1, <2>2, Fields
  <1>2. c.pc = "clear"
    BY <1>1 DEF Checker
  <1>3. /\ checker' = [checker EXCEPT ![s] = c]
        /\ UNCHANGED <<channel, kv, nextIndex, matchIndex, net, boundVars>>
    BY <1>1 DEF Snapshot, TypeInv
  <1>4. /\ checker'[s] = c /\ \A q \in Server \ {s} : checker'[q] = checker[q]
    BY <1>1, <1>3 DEF TypeInv
  <1> HIDE DEF c
  <1>5. CASE i <= rf[s].base
    <2>1. UNCHANGED <<raftVars, senders>>
      BY <1>5 DEF Snapshot
    <2>2. ServerExact(s)'
      BY <1>1, <1>2, <1>3, <1>4, <2>1, MarginExact DEF raftVars, channel
    <2> QED BY <1>3, <1>4, <2>1, <2>2, QuietExact DEF OnlyAt, raftVars, channel
  <1>6. CASE ~(i <= rf[s].base)
    <2>1. /\ rf' = [rf EXCEPT ![s] = [rf[s] EXCEPT !.base = i]]
          /\ snapshot' = [snapshot EXCEPT ![s] = image]
          /\ senders' = IF s = Leader
                        THEN senders \cup {[to |-> f, data |-> checker[s].data] : f \in Follower}
                        ELSE senders
          /\ s = Leader => senders = {}
      BY <1>1, <1>6 DEF Snapshot, TypeInv, WindowsClosed
    <2>2. /\ image.index = i /\ image.data = Exact(i) /\ i <= kv[s].logLastApplied
      BY <1>1 DEF ServerExact, StatesExact
    <2> HIDE DEF image
    <2>3. /\ rf'[s].base = i /\ rf'[s].lastApplied = rf[s].lastApplied
          /\ rf'[s].active = rf[s].active /\ rf'[s].passive = rf[s].passive
          /\ snapshot'[s] = image
          /\ \A q \in Server \ {s} : rf'[q] = rf[q] /\ snapshot'[q] = snapshot[q]
      BY <1>1, <2>1 DEF TypeInv, RaftState
    <2>4. StatesExact(s)'
      BY <1>1, <1>2, <1>3, <1>4, <2>2, <2>3 DEF ServerExact, StatesExact, ImageExact, channel
    <2>5. SnapshotsWait(s)'
      BY <1>1, <1>3, <2>3 DEF SnapshotsWait, channel
    <2>6. JumpsCovered(s)' /\ CountsMeet(s)'
      BY <1>1, <1>3, <2>2, <2>3 DEF ServerExact, JumpsCovered, CountsMeet, channel
    <2>7. ServerExact(s)' /\ OnlyAt(s)
      BY <1>3, <1>4, <2>3, <2>4, <2>5, <2>6 DEF ServerExact, OnlyAt, channel
    <2>8. SendersExact'
      <3>1. CASE s = Leader
        <4>1. \A t \in senders' : t.data = checker[s].data
          BY <2>1, <3>1
        <4>2. checker[s].data = Exact(i)
          BY <2>2 DEF image
        <4> QED BY <2>3, <3>1, <4>1, <4>2 DEF SendersExact
      <3>2. CASE s # Leader
        <4>1. rf'[Leader] = rf[Leader] /\ senders' = senders
          BY <2>1, <2>3, <3>2, Constants
        <4> QED BY <4>1 DEF SendersExact, ExactInv
      <3> QED BY <3>1, <3>2
    <2>9. RequestsExact'
      BY <1>3 DEF RequestsExact, ExactInv
    <2> QED BY <2>7, <2>8, <2>9, ExactStep
  <1> QED BY <1>5, <1>6

\* A step that changes at most a server's log and commit.
LEMMA LogExact ==
  ASSUME PositionInv, ExactInv, NEW s \in Server, NEW r,
         rf' = [rf EXCEPT ![s] = r],
         r.base = rf[s].base, r.lastApplied = rf[s].lastApplied,
         r.active = rf[s].active, r.passive = rf[s].passive,
         UNCHANGED <<snapshot, channel, kv, checker>>
  PROVE  ServerExact(s)' /\ OnlyAt(s) /\ rf'[s].base = rf[s].base
  <1>1. TypeInv /\ ServerExact(s)
    BY DEF PositionInv, ExactInv
  <1>2. rf'[s] = r /\ \A q \in Server \ {s} : rf'[q] = rf[q]
    BY <1>1 DEF TypeInv
  <1>3. ServerExact(s)'
    BY <1>1, <1>2, MarginExact DEF channel
  <1> QED BY <1>2, <1>3 DEF OnlyAt, channel

\* Start and Commit.
LEMMA LeaderExact ==
  ASSUME PositionInv, ExactInv, Start \/ \E i \in Index : Commit(i)
  PROVE  ExactInv'
  <1> DEFINE r == rf[Leader]
  <1>1. TypeInv /\ r \in RaftState /\ Leader \in Server
    BY Fields, Constants DEF PositionInv
  <1>2. UNCHANGED <<snapshot, channel, kv, checker, leaderVars, boundVars>>
    BY DEF Start, Commit
  <1>3. ServerExact(Leader)' /\ OnlyAt(Leader) /\ rf'[Leader].base = r.base
    <2>1. CASE Start
      <3> DEFINE new == [r EXCEPT !.last = r.last + 1, !.agree = r.agree + 1]
      <3>1. rf' = [rf EXCEPT ![Leader] = new]
        BY <1>1, <2>1 DEF Start, TypeInv
      <3>2. /\ new.base = r.base /\ new.lastApplied = r.lastApplied
            /\ new.active = r.active /\ new.passive = r.passive
        BY <1>1 DEF RaftState
      <3> HIDE DEF new
      <3> QED BY <1>1, <1>2, <3>1, <3>2, LogExact
    <2>2. CASE \E i \in Index : Commit(i)
      <3>1. PICK i \in Index : Commit(i)
        BY <2>2
      <3> DEFINE new == [r EXCEPT !.commit = i]
      <3>2. rf' = [rf EXCEPT ![Leader] = new]
        BY <1>1, <3>1 DEF Commit, TypeInv
      <3>3. /\ new.base = r.base /\ new.lastApplied = r.lastApplied
            /\ new.active = r.active /\ new.passive = r.passive
        BY <1>1 DEF RaftState
      <3> HIDE DEF new
      <3> QED BY <1>1, <1>2, <3>2, <3>3, LogExact
    <2> QED BY <2>1, <2>2
  <1> QED BY <1>1, <1>2, <1>3, QuietExact DEF leaderVars

\* What is sent: entries, or the bytes of the label they get.
LEMMA SendExact ==
  ASSUME PositionInv, ExactInv,
         \/ \E f \in Follower : LeaderAppendEntries(f)
         \/ \E t \in senders : LeaderSendSnapshot(t)
  PROVE  ExactInv'
  <1>1. /\ TypeInv /\ Leader \in Server /\ ServerExact(Leader) /\ ServerPositions(Leader)
        /\ rf[Leader].base \in Int
    BY Fields, Constants DEF PositionInv, Positions, ExactInv
  <1>2. UNCHANGED <<raftVars, channel, kv, checker>>
    BY DEF LeaderAppendEntries, LeaderSendSnapshot
  <1>3. ServerExact(Leader)' /\ OnlyAt(Leader)
    BY <1>1, <1>2 DEF ServerExact, StatesExact, SnapshotsWait, JumpsCovered, CountsMeet, OnlyAt,
                      raftVars, channel
  <1>4. SendersExact' /\ RequestsExact'
    <2>1. ASSUME NEW f \in Follower, LeaderAppendEntries(f)
          PROVE  SendersExact' /\ RequestsExact'
      <3>1. CASE nextIndex[f] <= rf[Leader].base
        <4>1. /\ senders' = senders \cup {[to |-> f, data |-> snapshot[Leader].data]}
              /\ net' = net
          BY <2>1, <3>1 DEF LeaderAppendEntries
        <4>2. rf[Leader].base # 0
          BY <1>1, <3>1, Constants DEF TypeInv
        <4>3. snapshot[Leader].data = Exact(rf[Leader].base)
          BY <1>1, <4>2 DEF ServerPositions, ServerExact, StatesExact, ImageExact
        <4> QED BY <1>2, <4>1, <4>3 DEF SendersExact, RequestsExact, ExactInv, raftVars
      <3>2. CASE ~(nextIndex[f] <= rf[Leader].base)
        <4>1. senders' = senders /\ \A m \in net' \ net : m.type = "append"
          BY <2>1, <3>2 DEF LeaderAppendEntries
        <4> QED BY <1>2, <4>1 DEF SendersExact, RequestsExact, ExactInv, raftVars
      <3> QED BY <3>1, <3>2
    <2>2. ASSUME NEW t \in senders, LeaderSendSnapshot(t)
          PROVE  SendersExact' /\ RequestsExact'
      <3>1. /\ senders' \subseteq senders
            /\ net' = net \cup {[type |-> "install", to |-> t.to, index |-> rf[Leader].base,
                                 data |-> t.data]}
        BY <2>2 DEF LeaderSendSnapshot
      <3>2. t.data = Exact(rf[Leader].base)
        BY DEF ExactInv, SendersExact
      <3> QED BY <1>2, <3>1, <3>2 DEF SendersExact, RequestsExact, ExactInv, raftVars
    <2> QED BY <2>1, <2>2
  <1> QED BY <1>1, <1>3, <1>4, ExactStep

\* AppendEntries touches the log and commit only.
LEMMA AppendEntriesExact ==
  ASSUME PositionInv, ExactInv, NEW m \in net, AppendEntries(m)
  PROVE  ExactInv'
  <1> DEFINE s == m.to
             r == rf[s]
             merged == IF m.upto > r.agree THEN [r EXCEPT !.last = m.upto, !.agree = m.upto] ELSE r
             new == [merged EXCEPT !.commit = Larger(merged.commit, Smaller(m.commit, merged.last))]
  <1>1. /\ TypeInv /\ s \in Server /\ s # Leader /\ r \in RaftState
    <2>1. TypeInv /\ s \in Follower
      BY DEF AppendEntries, PositionInv, TypeInv, Message
    <2> QED BY <2>1, Fields, Constants
  <1>2. UNCHANGED <<snapshot, channel, kv, checker, senders>>
    BY DEF AppendEntries
  <1>3. \A x \in net' \ net : x.type = "appended"
    <2> DEFINE ans(ok, c) == Appended(m, ok, c)
    <2>1. \/ net' = (net \ {m}) \cup {ans(TRUE, 0)}
          \/ net' = (net \ {m}) \cup {ans(FALSE, r.last + 1)}
          \/ net' = (net \ {m}) \cup {ans(FALSE, r.agree + 1)}
      BY DEF AppendEntries, Answered
    <2>2. /\ ans(TRUE, 0).type = "appended" /\ ans(FALSE, r.last + 1).type = "appended"
          /\ ans(FALSE, r.agree + 1).type = "appended"
      BY DEF Appended
    <2> HIDE DEF ans
    <2> QED BY <2>1, <2>2
  <1>4. rf' = rf \/ rf' = [rf EXCEPT ![s] = new]
    BY DEF AppendEntries
  <1>5. /\ new.base = r.base /\ new.lastApplied = r.lastApplied
        /\ new.active = r.active /\ new.passive = r.passive
    BY <1>1 DEF RaftState
  <1> HIDE DEF new
  <1>6. ServerExact(s)' /\ OnlyAt(s)
    <2>1. rf = [rf EXCEPT ![s] = r]
      BY <1>1 DEF TypeInv
    <2>2. CASE rf' = rf
      BY <1>1, <1>2, <2>1, <2>2, LogExact
    <2>3. CASE rf' = [rf EXCEPT ![s] = new]
      BY <1>1, <1>2, <1>5, <2>3, LogExact
    <2> QED BY <1>4, <2>2, <2>3
  <1>7. rf'[Leader].base = rf[Leader].base
    BY <1>1, <1>6, Constants DEF OnlyAt
  <1>8. SendersExact' /\ RequestsExact'
    BY <1>2, <1>3, <1>7 DEF ExactInv, SendersExact, RequestsExact
  <1> QED BY <1>1, <1>6, <1>8, ExactStep

\* CondInstallSnap takes a snapshot only when none is being made.
LEMMA InstallExact ==
  ASSUME PositionInv, ExactInv, NEW m \in net, CondInstallSnap(m)
  PROVE  ExactInv'
  <1> DEFINE s == m.to
             r == rf[s]
             new == Installed(r, m.index)
             image == [index |-> m.index, data |-> m.data]
             reply == [type |-> "installed", to |-> m.to, upto |-> m.index,
                       ok |-> Accepts(rf[m.to], m.index), conflict |-> 0]
  <1>1. /\ TypeInv /\ s \in Server /\ s # Leader /\ r \in RaftState /\ ServerExact(s)
        /\ m.index \in Nat /\ m.data = Exact(m.index) /\ reply.type = "installed"
    <2>1. TypeInv /\ s \in Follower /\ m.index \in Index /\ m.data = Exact(m.index)
      BY DEF CondInstallSnap, PositionInv, TypeInv, Message, ExactInv, RequestsExact
    <2> QED BY <2>1, Fields, Constants DEF ExactInv
  <1>2. /\ net' = (net \ {m}) \cup {reply}
        /\ UNCHANGED <<applier, recovery, kv, checker, nextIndex, matchIndex, senders, boundVars>>
    BY DEF CondInstallSnap, Answered
  <1> HIDE DEF reply
  <1>3. RequestsExact'
    BY <1>1, <1>2 DEF ExactInv, RequestsExact
  <1>4. CASE Accepts(r, m.index)
    <2>1. /\ rf' = [rf EXCEPT ![s] = new]
          /\ snapshot' = [snapshot EXCEPT ![s] = image]
          /\ install' = [install EXCEPT ![s] = image]
      BY <1>4 DEF CondInstallSnap, new
    <2>2. /\ new.lastApplied = m.index /\ new.base = m.index /\ new.passive = TRUE
          /\ new.active = r.active
      BY <1>1 DEF Installed, RaftState
    <2>3. image.index = m.index /\ ImageExact(image)
      BY <1>1 DEF ImageExact
    <2> HIDE DEF new, image
    <2>4. /\ rf'[s] = new /\ snapshot'[s] = image /\ install'[s] = image
          /\ \A q \in Server \ {s} :
                rf'[q] = rf[q] /\ snapshot'[q] = snapshot[q] /\ install'[q] = install[q]
      BY <1>1, <2>1 DEF TypeInv
    <2>5. image # NoSnapshot /\ ~r.active
      <3>1. m.index # -1
        BY <1>1
      <3> QED BY <1>4, <2>3, <3>1, Constants DEF Accepts
    <2>6. checker[s].pc = "idle"
      BY <1>1, <2>5 DEF ServerExact, SnapshotsWait
    <2>7. StatesExact(s)'
      BY <1>1, <1>2, <2>2, <2>3, <2>4, <2>6 DEF ServerExact, StatesExact
    <2>8. SnapshotsWait(s)' /\ JumpsCovered(s)'
      BY <1>1, <1>2, <2>2, <2>3, <2>4, <2>5, <2>6 DEF ServerExact, SnapshotsWait, JumpsCovered
    <2>9. CountsMeet(s)'
      BY <1>1, <1>2, <2>4, <2>5 DEF ServerExact, CountsMeet
    <2>10. ServerExact(s)' /\ OnlyAt(s)
      BY <1>2, <2>4, <2>7, <2>8, <2>9 DEF ServerExact, OnlyAt
    <2>11. SendersExact'
      BY <1>1, <1>2, <2>4, Constants DEF ExactInv, SendersExact
    <2> QED BY <1>1, <1>3, <2>10, <2>11, ExactStep
  <1>5. CASE ~Accepts(r, m.index)
    <2>1. UNCHANGED <<raftVars, install>>
      BY <1>5 DEF CondInstallSnap
    <2>2. ServerExact(s)' /\ OnlyAt(s) /\ SendersExact'
      BY <1>1, <1>2, <2>1, MarginExact DEF OnlyAt, raftVars, ExactInv, SendersExact
    <2> QED BY <1>1, <1>3, <2>2, ExactStep
  <1> QED BY <1>4, <1>5

\* The leader handles a reply.
LEMMA ReplyExact ==
  ASSUME PositionInv, ExactInv, NEW m \in net, LeaderHandlesReply(m)
  PROVE  ExactInv'
  <1>1. /\ UNCHANGED <<raftVars, channel, kv, checker, senders, boundVars>> /\ net' \subseteq net
    BY DEF LeaderHandlesReply
  <1>2. ServerExact(Leader)' /\ OnlyAt(Leader) /\ Leader \in Server
    BY <1>1, Constants, MarginExact DEF OnlyAt, raftVars, channel, ExactInv
  <1> QED BY <1>1, <1>2, QuietExact DEF raftVars

\* A restarted service starts from nothing and gets the snapshot on disk first.
LEMMA RestartExact ==
  ASSUME PositionInv, ExactInv, NEW s \in Server, Restart(s)
  PROVE  ExactInv'
  <1> DEFINE r == rf[s]
             base == r.base
             known == IF snapshot[s] = NoSnapshot THEN 0 ELSE base
             new == [r EXCEPT !.commit = known, !.lastApplied = known, !.passive = FALSE, !.active = FALSE]
             image == IF snapshot[s] = NoSnapshot THEN NoSnapshot
                      ELSE [index |-> base, data |-> snapshot[s].data]
  <1>1. /\ TypeInv /\ r \in RaftState /\ ServerExact(s) /\ base \in Int
        /\ snapshot[s] = NoSnapshot => base = 0
    <2>1. TypeInv /\ ServerExact(s) /\ ServerPositions(s)
      BY DEF PositionInv, Positions, ExactInv
    <2> QED BY <2>1, Fields DEF ServerPositions
  <1>2. /\ rf' = [rf EXCEPT ![s] = new]
        /\ recovery' = [recovery EXCEPT ![s] = image]
        /\ applier' = [applier EXCEPT ![s] = None]
        /\ install' = [install EXCEPT ![s] = NoSnapshot]
        /\ kv' = [kv EXCEPT ![s] = NewService]
        /\ checker' = [checker EXCEPT ![s] = Idle]
        /\ snapshot' = snapshot /\ net' \subseteq net
        /\ senders' = IF s = Leader THEN {} ELSE senders
    BY <1>1 DEF Restart, TypeInv
  <1>3. /\ new.base = base /\ new.lastApplied = base
    BY <1>1 DEF RaftState
  <1>4. /\ ImageExact(image)
        /\ image # NoSnapshot => image.index = base
        /\ image = NoSnapshot => base = 0
    <2>1. CASE snapshot[s] = NoSnapshot
      BY <1>1, <2>1 DEF ImageExact
    <2>2. CASE snapshot[s] # NoSnapshot
      <3>1. snapshot[s].data = Exact(base)
        BY <1>1, <2>2 DEF ServerExact, StatesExact, ImageExact
      <3>2. image.index = base /\ image.data = Exact(base)
        BY <2>2, <3>1
      <3>3. image # NoSnapshot
        <4>1. base # -1
          BY Fields, <1>1, Constants
        <4> QED BY <3>2, <4>1, Constants
      <3> QED BY <3>2, <3>3 DEF ImageExact
    <2> QED BY <2>1, <2>2
  <1> HIDE DEF new, image
  <1>5. /\ rf'[s] = new /\ recovery'[s] = image /\ applier'[s] = None /\ install'[s] = NoSnapshot
        /\ kv'[s] = NewService /\ checker'[s] = Idle /\ OnlyAt(s)
    BY <1>1, <1>2 DEF TypeInv, OnlyAt
  <1>6. /\ NewService.done = Exact(0) /\ NewService.logLastApplied = 0
        /\ NewService.passiveSnapshotBefore = FALSE /\ Idle.pc = "idle"
    BY DEF NewService, Idle, Exact
  <1>7. StatesExact(s)'
    BY <1>1, <1>2, <1>3, <1>4, <1>5, <1>6 DEF ServerExact, StatesExact, ImageExact
  <1>8. SnapshotsWait(s)' /\ JumpsCovered(s)'
    BY <1>1, <1>3, <1>4, <1>5, <1>6 DEF SnapshotsWait, JumpsCovered
  <1>9. CountsMeet(s)'
    BY <1>1, <1>3, <1>4, <1>5, <1>6 DEF CountsMeet, Handed, NoOps
  <1>10. ServerExact(s)'
    BY <1>7, <1>8, <1>9 DEF ServerExact
  <1>11. senders' \subseteq senders /\ rf'[s].base = rf[s].base
    BY <1>2, <1>3, <1>5
  <1> QED BY <1>2, <1>5, <1>10, <1>11, QuietExact

\* At the start nothing is executed, sent or on disk.
LEMMA ExactInit == Init => ExactInv
  <1> SUFFICES ASSUME Init
               PROVE  ExactInv
    OBVIOUS
  <1>1. ASSUME NEW s \in Server
        PROVE  ServerExact(s)
    <2>1. /\ rf[s].base = 0 /\ rf[s].lastApplied = 0 /\ snapshot[s] = NoSnapshot
          /\ applier[s] = None /\ recovery[s] = NoSnapshot /\ install[s] = NoSnapshot
          /\ kv[s] = NewService /\ checker[s] = Idle
      BY DEF Init, NewRaft
    <2>2. /\ NewService.done = Exact(0) /\ NewService.logLastApplied = 0
          /\ NewService.passiveSnapshotBefore = FALSE /\ Idle.pc = "idle"
      BY DEF NewService, Idle, Exact
    <2> QED BY <2>1, <2>2 DEF ServerExact, StatesExact, SnapshotsWait, JumpsCovered, CountsMeet,
                              ImageExact, Handed, NoOps
  <1> QED BY <1>1 DEF Init, ExactInv, SendersExact, RequestsExact

\* Every step keeps the state machine what the log makes of it.
LEMMA ExactInvNext ==
  ASSUME WindowsClosed, PositionInv, ExactInv, [Next]_vars
  PROVE  ExactInv'
  <1>1. CASE Next
    <2>1. ASSUME NEW s \in Server,
                 applierStep(s) \/ ServiceStep(s) \/ CheckerStep(s) \/ Restart(s)
          PROVE  ExactInv'
      BY <2>1, ApplierExact, CommandExact, ImageExactStep, InstalledExact, CheckExact, EncodeExact,
         SnapshotExact, RestartExact DEF ServiceStep, CheckerStep
    <2>2. CASE LeaderStep
      BY <2>2, LeaderExact, SendExact, ReplyExact DEF LeaderStep
    <2>3. CASE FollowerStep
      BY <2>3, AppendEntriesExact, InstallExact DEF FollowerStep
    <2> QED BY <1>1, <2>1, <2>2, <2>3 DEF Next
  <1>2. CASE UNCHANGED vars
    BY <1>2 DEF ExactInv, ServerExact, StatesExact, SnapshotsWait, JumpsCovered, CountsMeet,
                SendersExact, RequestsExact, vars, raftVars, channel, leaderVars
  <1> QED BY <1>1, <1>2

\* With both windows closed the state machine is exactly what the log makes of it up to
\* logLastApplied (applyMessage, applySnapshotToSM), and so is the snapshot on disk
\* (Snapshot, CondInstallSnap), whatever entries of other groups' shards the log holds.
THEOREM StateIsExact ==
  ASSUME WindowsClosed
  PROVE  Spec => []StateExact
  <1>1. PositionInv /\ ExactInv => StateExact
    <2> SUFFICES ASSUME PositionInv, ExactInv, NEW s \in Server
                 PROVE  /\ kv[s].done = Exact(kv[s].logLastApplied)
                        /\ IF snapshot[s] = NoSnapshot THEN rf[s].base = 0
                           ELSE snapshot[s].index = rf[s].base /\ snapshot[s].data = Exact(rf[s].base)
      BY DEF StateExact
    <2>1. ServerPositions(s) /\ StatesExact(s)
      BY DEF PositionInv, Positions, ExactInv, ServerExact
    <2> QED BY <2>1 DEF ServerPositions, StatesExact, ImageExact
  <1>2. PositionInv /\ ExactInv /\ [Next]_vars => (PositionInv /\ ExactInv)'
    BY PositionInvNext, ExactInvNext
  <1>3. Init => PositionInv /\ ExactInv
    BY PositionInit, ExactInit
  <1> QED BY <1>1, <1>2, <1>3, PTL DEF Spec

\* With both windows closed, and where no entry is for a shard of another group, no command
\* is passed over between a snapshot and what follows it (server.go 298-304): what Raft
\* counts as applied and no sender holds is in the state machine.
THEOREM EverythingHandedOver ==
  ASSUME WindowsClosed, AllOwned
  PROVE  Spec => []HandedOver
  <1>1. PositionInv /\ ExactInv => HandedOver
    <2> SUFFICES ASSUME PositionInv, ExactInv, NEW s \in Server,
                        applier[s] = None, recovery[s] = NoSnapshot, install[s] = NoSnapshot
                 PROVE  Exact(rf[s].lastApplied) \subseteq kv[s].done
      BY DEF HandedOver
    <2> DEFINE n == kv[s].logLastApplied
               L == rf[s].lastApplied
    <2>1. /\ n \in Index /\ L \in Index /\ n \in Int /\ L \in Int
          /\ kv[s].done = Exact(n) /\ Handed(kv[s], L)
      <3>1. TypeInv /\ StatesExact(s) /\ CountsMeet(s)
        BY DEF PositionInv, ExactInv, ServerExact
      <3> QED BY <3>1, Fields DEF StatesExact, CountsMeet
    <2>2. NoOps(n, L)
      <3>1. CASE kv[s].passiveSnapshotBefore
        <4>1. L <= n
          BY <2>1, <3>1 DEF Handed
        <4> QED BY <2>1, <4>1 DEF NoOps
      <3>2. CASE ~kv[s].passiveSnapshotBefore
        BY <2>1, <3>2 DEF Handed
      <3> QED BY <3>1, <3>2
    <2> QED BY <2>1, <2>2, ExactCovers
  <1>2. PositionInv /\ ExactInv /\ [Next]_vars => (PositionInv /\ ExactInv)'
    BY PositionInvNext, ExactInvNext
  <1>3. Init => PositionInv /\ ExactInv
    BY PositionInit, ExactInit
  <1> QED BY <1>1, <1>2, <1>3, PTL DEF Spec
=============================================================================
