---------------------------- MODULE LabRPCProofs ----------------------------
(***************************************************************************)
(* What the other modules take for granted, of two components that have no *)
(* name in common.                                                         *)
(*                                                                         *)
(* LabRPC, for every set of servers and calls and every bound: a caller    *)
(* that is told of success finds the handler's effect after every later    *)
(* crash, and an instance that has crashed reaches nobody.                 *)
(*                                                                         *)
(* ElectionWait, for any number of peers, terms and messages: no wake-up   *)
(* of RunForElection's condition variable is lost.                         *)
(***************************************************************************)
EXTENDS LabRPC, ElectionWait, TLAPS

Place == {"idle", "sent", "failing", "found", "waiting", "got", "delayed", "returned"}
Progress == {"none", "running", "persisted", "returned"}
Stage == {"up", "off", "deleted", "copied", "down", "made"}

CallType ==
  [pc : Place, end : (Server \X Nat \X Server) \cup {<<0, 0, 0>>}, inst : Nat,
   reliable : BOOLEAN, reorder : BOOLEAN, handler : Progress, ok : BOOLEAN, late : BOOLEAN]

Types ==
  /\ reliable \in BOOLEAN /\ longReordering \in BOOLEAN
  /\ enabled \subseteq Server \X Nat \X Server
  /\ servers \in [Server -> Nat]
  /\ connected \in [Server -> BOOLEAN] /\ inc \in [Server -> Nat \ {0}]
  /\ saved \in [Server -> SUBSET Calls] /\ writer \in [Server -> Nat]
  /\ harness \in [Server -> Stage]
  /\ call \in [Calls -> CallType]

\* A server the network knows is the newest instance, and it is this one's Persister
\* that the harness keeps.  The ends that are enabled are those of newest instances of
\* connected servers, and a server that is being crashed or started is not connected.
ServersNewest ==
  \A i \in Server :
    /\ servers[i] # 0 => servers[i] = writer[i] /\ servers[i] = inc[i] /\ harness[i] \in {"up", "off"}
    /\ harness[i] = "up" => servers[i] = inc[i]
    /\ harness[i] = "made" => writer[i] = inc[i]
    /\ harness[i] # "up" => ~connected[i]

EndsNewest ==
  \A e \in enabled : e[2] = inc[e[1]] /\ connected[e[1]] /\ connected[e[3]]

\* A call that has been made is from and to servers, from an instance there has been.
Made(r) ==
  r.pc # "idle" => r.end \in Server \X Nat \X Server /\ r.end[2] <= inc[r.end[1]]

\* A call whose caller had crashed has reached nobody.
LateUnheard(r) ==
  r.late => /\ r.pc \in {"sent", "failing", "returned"} /\ r.handler = "none" /\ ~r.ok
            /\ r.pc # "idle" => Crashed(r.end[1], r.end[2])

\* The handler starts once the request has been found its server, and runs on an
\* instance there has been.
HandledBy(r) ==
  /\ r.pc \in {"idle", "sent", "failing", "found"} => r.handler = "none"
  /\ r.pc \in {"found", "waiting", "got", "delayed"} \/ r.handler # "none" =>
       r.inst # 0 /\ r.inst <= inc[r.end[3]]
  /\ r.pc = "got" => r.handler = "returned"

\* What a handler persisted is in cfg.saved, unless it ran on an instance whose
\* Persister had been replaced already.
PersistedKept(c, r) ==
  /\ r.handler \in {"persisted", "returned"} =>
       c \in saved[r.end[3]] \/ writer[r.end[3]] # r.inst
  /\ r.pc = "delayed" \/ r.ok => r.pc # "idle" /\ c \in saved[r.end[3]]

CallInv(c, r) == Made(r) /\ LateUnheard(r) /\ HandledBy(r) /\ PersistedKept(c, r)

Inv == Types /\ ServersNewest /\ EndsNewest /\ \A c \in Calls : CallInv(c, call[c])

-----------------------------------------------------------------------------
(* Calls. *)

\* A step of one call, with its record r afterwards, while everything else stays.
LEMMA CallStep ==
  ASSUME Inv, NEW c \in Calls, NEW r \in CallType,
         call' = [call EXCEPT ![c] = r], UNCHANGED <<netVars, cfgVars>>, CallInv(c, r)
  PROVE  Inv'
  <1>1. Types'
    BY DEF Inv, Types, netVars, cfgVars
  <1>2. ServersNewest' /\ EndsNewest'
    BY DEF Inv, ServersNewest, EndsNewest, netVars, cfgVars
  <1>3. ASSUME NEW d \in Calls PROVE CallInv(d, call[d])'
    <2>1. CallInv(d, call'[d])
      BY DEF Inv, Types
    <2> QED BY <2>1 DEF CallInv, Made, LateUnheard, HandledBy, PersistedKept, Crashed, netVars, cfgVars
  <1> QED BY <1>1, <1>2, <1>3 DEF Inv

\* What the invariant says of one call.
LEMMA CallFacts ==
  ASSUME Inv, NEW c \in Calls
  PROVE  /\ call[c] \in CallType /\ Made(call[c]) /\ LateUnheard(call[c])
         /\ HandledBy(call[c]) /\ PersistedKept(c, call[c])
  BY DEF Inv, Types, CallInv

\* A call is made; whoever makes it has crashed or not.
LEMMA CallKeeps ==
  ASSUME Inv, NEW c \in Calls, Call(c)
  PROVE  Inv'
  <1>0. PICK i \in Server, j \in Server : \E k \in 1 .. inc[i] :
          call' = [call EXCEPT ![c] = [NoCall EXCEPT !.pc = "sent", !.end = <<i, k, j>>,
                                                     !.late = Crashed(i, k)]]
    BY DEF Call
  <1>1. PICK k \in 1 .. inc[i] :
          call' = [call EXCEPT ![c] = [NoCall EXCEPT !.pc = "sent", !.end = <<i, k, j>>,
                                                     !.late = Crashed(i, k)]]
    BY <1>0
  <1> DEFINE r == [NoCall EXCEPT !.pc = "sent", !.end = <<i, k, j>>, !.late = Crashed(i, k)]
  <1>2. inc[i] \in Nat /\ k \in Nat /\ k <= inc[i]
    BY DEF Inv, Types
  <1>3. r.pc = "sent" /\ r.end = <<i, k, j>> /\ r.inst = 0 /\ r.handler = "none" /\ r.ok = FALSE
        /\ r.late = Crashed(i, k)
    BY DEF NoCall
  <1>4. r \in CallType
    BY <1>2 DEF NoCall, CallType, Place, Progress, Crashed
  <1>5. Made(r) /\ LateUnheard(r) /\ HandledBy(r) /\ PersistedKept(c, r)
    BY <1>2, <1>3 DEF Made, LateUnheard, HandledBy, PersistedKept
  <1> QED BY <1>1, <1>4, <1>5, CallStep DEF Call, CallInv

\* The request reaches the newest instance, and then the caller is the newest one too.
LEMMA FindKeeps ==
  ASSUME Inv, NEW c \in Calls, readEndnameInfo(c)
  PROVE  Inv'
  <1> DEFINE e == call[c].end
             found == e \in enabled /\ servers[e[3]] # 0
             r == IF found
                  THEN [call[c] EXCEPT !.pc = "found", !.inst = servers[e[3]],
                                       !.reliable = reliable, !.reorder = longReordering]
                  ELSE [call[c] EXCEPT !.pc = "failing"]
  <1>1. call' = [call EXCEPT ![c] = r] /\ call[c].pc = "sent"
    BY DEF readEndnameInfo
  <1>2. e \in Server \X Nat \X Server /\ e[3] \in Server
    BY <1>1, CallFacts DEF Made
  <1>3. servers[e[3]] \in Nat
    BY <1>2 DEF Inv, Types
  <1>4. r \in CallType
    BY <1>3, CallFacts, ZenonT(120) DEF CallType, Place, Inv, Types
  <1>5. CASE found
    <2>1. /\ r.pc = "found" /\ r.inst = servers[e[3]] /\ r.end = e /\ r.late = call[c].late
          /\ r.handler = call[c].handler /\ r.ok = call[c].ok
      BY <1>5, CallFacts DEF CallType
    <2>2. servers[e[3]] = inc[e[3]] /\ servers[e[3]] = writer[e[3]] /\ inc[e[3]] \in Nat
      BY <1>2, <1>5 DEF Inv, Types, ServersNewest
    <2>3. ~Crashed(e[1], e[2])
      <3>1. e[2] = inc[e[1]] /\ connected[e[1]]
        BY <1>5 DEF Inv, EndsNewest
      <3>2. e[1] \in Server /\ inc[e[1]] \in Nat
        BY <1>2 DEF Inv, Types
      <3>3. harness[e[1]] = "up"
        BY <3>1, <3>2 DEF Inv, ServersNewest
      <3> QED BY <3>1, <3>2, <3>3 DEF Crashed
    <2>4. ~r.late
      BY <1>1, <2>1, <2>3, CallFacts DEF LateUnheard
    <2>5. Made(r) /\ LateUnheard(r) /\ PersistedKept(c, r)
      BY <1>1, <2>1, <2>4, CallFacts DEF Made, LateUnheard, HandledBy, PersistedKept
    <2>6. HandledBy(r)
      <3>1. call[c].handler = "none"
        BY <1>1, CallFacts DEF HandledBy
      <3>2. r.inst # 0 /\ r.inst <= inc[r.end[3]]
        <4>1. servers[e[3]] # 0 /\ servers[e[3]] <= inc[e[3]]
          BY <1>5, <2>2
        <4> HIDE DEF r
        <4> QED BY <2>1, <4>1
      <3> HIDE DEF r
      <3> QED BY <2>1, <3>1, <3>2 DEF HandledBy
    <2> QED BY <1>1, <1>4, <2>5, <2>6, CallStep DEF CallInv, readEndnameInfo
  <1>6. CASE ~found
    <2>1. /\ r.pc = "failing" /\ r.inst = call[c].inst /\ r.end = e /\ r.late = call[c].late
          /\ r.handler = call[c].handler /\ r.ok = call[c].ok
      BY <1>6, CallFacts DEF CallType
    <2>2. Made(r) /\ LateUnheard(r) /\ HandledBy(r) /\ PersistedKept(c, r)
      BY <1>1, <2>1, CallFacts DEF Made, LateUnheard, HandledBy, PersistedKept
    <2> QED BY <1>1, <1>4, <2>2, CallStep DEF CallInv, readEndnameInfo
  <1> QED BY <1>5, <1>6

\* A call that returns, with or without success, from wherever it had come to.
LEMMA ReturnKeeps ==
  ASSUME Inv, NEW c \in Calls, NEW ok \in BOOLEAN, call[c].pc # "idle", Return(c, ok),
         UNCHANGED <<netVars, cfgVars>>,
         ok => ~call[c].late /\ c \in saved[call[c].end[3]]
  PROVE  Inv'
  <1> DEFINE r == [call[c] EXCEPT !.pc = "returned", !.ok = ok]
  <1>1. call' = [call EXCEPT ![c] = r]
    BY DEF Return
  <1>2. r \in CallType
    BY CallFacts DEF CallType, Place
  <1>3. /\ r.pc = "returned" /\ r.inst = call[c].inst /\ r.end = call[c].end /\ r.late = call[c].late
        /\ r.handler = call[c].handler /\ r.ok = ok
    BY CallFacts DEF CallType
  <1>4. Made(r) /\ LateUnheard(r) /\ HandledBy(r) /\ PersistedKept(c, r)
    BY <1>3, CallFacts DEF Made, LateUnheard, HandledBy, PersistedKept
  <1> QED BY <1>1, <1>2, <1>4, CallStep DEF CallInv

\* A call goes on from one place to another.
LEMMA MoveKeeps ==
  ASSUME Inv, NEW c \in Calls, NEW from \in {"found", "waiting", "got"}, NEW to \in {"got", "delayed"},
         Step(c, from, to),
         to = "got" => call[c].handler = "returned",
         to = "delayed" => c \in saved[call[c].end[3]]
  PROVE  Inv'
  <1> DEFINE r == [call[c] EXCEPT !.pc = to]
  <1>1. call' = [call EXCEPT ![c] = r] /\ call[c].pc = from
    BY CallFacts DEF Step, Inv, Types
  <1>2. r \in CallType
    BY CallFacts DEF CallType, Place
  <1>3. /\ r.pc = to /\ r.inst = call[c].inst /\ r.end = call[c].end /\ r.late = call[c].late
        /\ r.handler = call[c].handler /\ r.ok = call[c].ok
    BY CallFacts DEF CallType
  <1>4. Made(r) /\ LateUnheard(r) /\ HandledBy(r) /\ PersistedKept(c, r)
    BY <1>1, <1>3, CallFacts DEF Made, LateUnheard, HandledBy, PersistedKept
  <1> QED BY <1>1, <1>2, <1>4, CallStep DEF CallInv, Step

\* A handler that is under way belongs to a call that is not late; what it does next.
LEMMA HandlerKeeps ==
  ASSUME Inv, NEW c \in Calls, UNCHANGED <<netVars, cfgVars>>,
         NEW pc \in {call[c].pc, "waiting"}, NEW h \in Progress,
         call' = [call EXCEPT ![c].pc = pc, ![c].handler = h],
         \/ call[c].pc = "found" /\ pc = "waiting" /\ h = "running"
         \/ call[c].handler = "persisted" /\ pc = call[c].pc /\ h = "returned"
  PROVE  Inv'
  <1> DEFINE r == [call[c] EXCEPT !.pc = pc, !.handler = h]
  <1>1. call' = [call EXCEPT ![c] = r]
    BY CallFacts DEF Inv, Types
  <1>2. r \in CallType
    BY CallFacts, ZenonT(120) DEF CallType, Place, Progress
  <1>3. /\ r.pc = pc /\ r.inst = call[c].inst /\ r.end = call[c].end /\ r.late = call[c].late
        /\ r.handler = h /\ r.ok = call[c].ok
    BY CallFacts DEF CallType
  <1>4. Made(r) /\ LateUnheard(r) /\ HandledBy(r) /\ PersistedKept(c, r)
    BY <1>3, CallFacts DEF Made, LateUnheard, HandledBy, PersistedKept
  <1> QED BY <1>1, <1>2, <1>4, CallStep DEF CallInv

\* The handler persists its call, to the Persister that is kept if it is its own.
LEMMA SaveKeeps ==
  ASSUME Inv, NEW c \in Calls, SaveRaftState(c)
  PROVE  Inv'
  <1> DEFINE i == call[c].end[3]
             r == [call[c] EXCEPT !.handler = "persisted"]
  <1>1. i \in Server
    BY CallFacts DEF SaveRaftState, HandledBy, Made
  <1>2. /\ call' = [call EXCEPT ![c] = r]
        /\ call[c].handler = "running"
        /\ saved' = [saved EXCEPT ![i] = IF writer[i] = call[c].inst THEN @ \cup {c} ELSE @]
    BY CallFacts DEF SaveRaftState, Inv, Types
  <1>3. r \in CallType
    BY CallFacts DEF CallType, Progress
  <1>4. /\ r.pc = call[c].pc /\ r.inst = call[c].inst /\ r.end = call[c].end
        /\ r.late = call[c].late /\ r.handler = "persisted" /\ r.ok = call[c].ok
    BY CallFacts DEF CallType
  <1>5. saved' \in [Server -> SUBSET Calls] /\ \A j \in Server : saved[j] \subseteq saved'[j]
    BY <1>1, <1>2 DEF Inv, Types
  <1>6. c \in saved'[i] \/ writer[i] # call[c].inst
    BY <1>1, <1>2 DEF Inv, Types
  <1>7. Types'
    BY <1>2, <1>3, <1>5 DEF Inv, Types, SaveRaftState, netVars
  <1>8. ServersNewest' /\ EndsNewest'
    BY DEF Inv, ServersNewest, EndsNewest, SaveRaftState, netVars
  <1>9. CallInv(c, r)'
    <2>1. Made(r)' /\ LateUnheard(r)' /\ HandledBy(r)'
      <3>1. Made(r) /\ LateUnheard(r) /\ HandledBy(r)
        BY <1>2, <1>4, CallFacts DEF Made, LateUnheard, HandledBy
      <3> QED BY <3>1 DEF SaveRaftState, Made, LateUnheard, HandledBy, Crashed
    <2>2. PersistedKept(c, r)'
      BY <1>1, <1>2, <1>4, <1>5, <1>6, CallFacts DEF PersistedKept, SaveRaftState
    <2> QED BY <2>1, <2>2 DEF CallInv
  <1>10. ASSUME NEW d \in Calls PROVE CallInv(d, call[d])'
    <2>1. CASE d = c
      BY <1>2, <1>9, <2>1 DEF Inv, Types
    <2>2. CASE d # c
      <3>1. call'[d] = call[d]
        BY <1>2, <2>2 DEF Inv, Types
      <3>2. Made(call[d])' /\ LateUnheard(call[d])' /\ HandledBy(call[d])'
        BY <3>1, CallFacts DEF SaveRaftState, Made, LateUnheard, HandledBy, Crashed
      <3>3. call[d].pc # "idle" => call[d].end[3] \in Server
        BY CallFacts DEF Made
      <3>4. PersistedKept(d, call[d])'
        BY <1>5, <3>1, <3>3, CallFacts DEF PersistedKept, HandledBy, SaveRaftState
      <3> QED BY <3>2, <3>4 DEF CallInv
    <2> QED BY <2>1, <2>2
  <1> QED BY <1>7, <1>8, <1>10 DEF Inv

-----------------------------------------------------------------------------
(* Steps of the harness. *)

\* A step that leaves the calls alone keeps what is known of them, if no instance
\* returns from a crash and no Persister that was given up is taken up again.
LEMMA HarnessStep ==
  ASSUME Inv, Types', ServersNewest', EndsNewest', UNCHANGED <<call, saved>>,
         \A i \in Server : inc[i] <= inc'[i],
         \A i \in Server : \A k \in 0 .. inc[i] : Crashed(i, k) => Crashed(i, k)',
         \A i \in Server : \A k \in 1 .. inc[i] : writer[i] # k => writer'[i] # k
  PROVE  Inv'
  <1>1. ASSUME NEW c \in Calls PROVE CallInv(c, call[c])'
    <2> DEFINE r == call[c]
    <2>1. r' = r /\ r \in CallType
      BY CallFacts
    <2>2. r.end \in Server \X Nat \X Server \/ r.pc = "idle"
      BY CallFacts DEF Made
    <2>3. r.inst \in Nat
      BY <2>1 DEF CallType
    <2>4. CASE r.pc = "idle"
      BY <2>1, <2>4, CallFacts DEF CallInv, Made, LateUnheard, HandledBy, PersistedKept
    <2>5. CASE r.pc # "idle"
      <3> DEFINE i == r.end[1] j == r.end[3] k == r.end[2]
      <3>1. i \in Server /\ j \in Server /\ k \in Nat /\ k <= inc[i]
        BY <2>2, <2>5, CallFacts DEF Made
      <3>2. inc[i] \in Nat /\ inc'[i] \in Nat /\ inc[j] \in Nat /\ inc'[j] \in Nat
        BY <3>1 DEF Inv, Types
      <3>3. k <= inc'[i] /\ (r.inst <= inc[j] => r.inst <= inc'[j])
        BY <2>3, <3>1, <3>2
      <3>4. Made(r)' /\ HandledBy(r)'
        BY <2>1, <2>2, <3>3, CallFacts DEF Made, HandledBy
      <3>5. LateUnheard(r)'
        <4>1. Crashed(i, k) => Crashed(i, k)'
          BY <3>1, <3>2
        <4> QED BY <2>1, <4>1, CallFacts DEF LateUnheard
      <3>6. PersistedKept(c, r)'
        <4>1. r.handler # "none" => r.inst \in 1 .. inc[j]
          BY <2>3, <3>2, CallFacts DEF HandledBy
        <4>2. r.handler # "none" /\ writer[j] # r.inst => writer'[j] # r.inst
          BY <3>1, <4>1
        <4> QED BY <2>1, <3>1, <4>2, CallFacts DEF PersistedKept
      <3> QED BY <3>4, <3>5, <3>6 DEF CallInv
    <2> QED BY <2>4, <2>5
  <1> QED BY <1>1 DEF Inv

\* What the harness does to the network and to connections leaves instances alone.
LEMMA NetworkKeeps ==
  ASSUME Inv, TestStep
  PROVE  Inv'
  <1>1. CASE setlongreordering \/ Cleanup \/ StopListening
    <2>0. UNCHANGED <<cfgVars, call, servers, enabled, reliable>> /\ longReordering' \in BOOLEAN
      BY <1>1 DEF setlongreordering, Cleanup, StopListening, Inv, Types
    <2>1. Types' /\ ServersNewest' /\ EndsNewest'
      BY <2>0 DEF Inv, Types, ServersNewest, EndsNewest, cfgVars
    <2>2. \A i \in Server : inc[i] \in Nat
      BY DEF Inv, Types
    <2> QED BY <2>0, <2>1, <2>2, HarnessStep DEF Crashed, cfgVars
  <1>2. ASSUME NEW i \in Server, connect(i) PROVE Inv'
    <2>1. enabled' \subseteq enabled \cup {e \in EndsOf(i) : connected'[e[1]] /\ connected'[e[3]]}
      BY <1>2 DEF connect
    <2>2. \A e \in EndsOf(i) : e \in Server \X Nat \X Server /\ e[2] = inc[e[1]]
      BY DEF EndsOf, Inv, Types
    <2>3. Types'
      BY <1>2, <2>1, <2>2 DEF connect, Inv, Types
    <2>4. ServersNewest'
      BY <1>2 DEF connect, Inv, Types, ServersNewest
    <2>5. EndsNewest'
      <3> SUFFICES ASSUME NEW e \in enabled'
                   PROVE  e[2] = inc[e[1]] /\ connected'[e[1]] /\ connected'[e[3]]
        BY <1>2 DEF connect, EndsNewest
      <3>1. CASE e \in enabled
        <4>1. e[1] \in Server /\ e[3] \in Server
          BY <3>1 DEF Inv, Types
        <4> QED BY <1>2, <3>1, <4>1 DEF connect, Inv, EndsNewest, Types
      <3>2. CASE e \in EndsOf(i) /\ connected'[e[1]] /\ connected'[e[3]]
        BY <2>2, <3>2
      <3> QED BY <2>1, <3>1, <3>2
    <2>6. \A j \in Server : inc[j] \in Nat
      BY DEF Inv, Types
    <2> QED BY <1>2, <2>3, <2>4, <2>5, <2>6, HarnessStep DEF connect, Crashed
  <1>3. ASSUME NEW i \in Server, disconnect(i) \/ crash1(i) PROVE Inv'
    <2>1. Disconnected(i) /\ UNCHANGED <<servers, inc, saved, writer, call>>
          /\ harness[i] = "up" /\ harness' \in {harness, [harness EXCEPT ![i] = "off"]}
          /\ UNCHANGED <<reliable, longReordering>>
      BY <1>3 DEF disconnect, crash1
    <2>2. connected' = [connected EXCEPT ![i] = FALSE] /\ enabled' = enabled \ EndsOf(i)
      BY <2>1 DEF Disconnected
    <2>3. Types'
      BY <2>1, <2>2 DEF Inv, Types, Stage
    <2>4. ServersNewest'
      BY <2>1, <2>2 DEF Inv, Types, ServersNewest
    <2>5. EndsNewest'
      <3> SUFFICES ASSUME NEW e \in enabled'
                   PROVE  e[2] = inc[e[1]] /\ connected'[e[1]] /\ connected'[e[3]]
        BY <2>1 DEF EndsNewest
      <3>1. e \in enabled /\ e \notin EndsOf(i) /\ e \in Server \X Nat \X Server
        BY <2>2 DEF Inv, Types
      <3>2. e[1] \in Server /\ e[3] \in Server /\ e = <<e[1], e[2], e[3]>>
        BY <3>1
      <3>3. e[2] = inc[e[1]] /\ connected[e[1]] /\ connected[e[3]]
        BY <3>1 DEF Inv, EndsNewest
      <3>4. e[1] # i /\ e[3] # i
        BY <3>1, <3>2, <3>3 DEF EndsOf
      <3> QED BY <2>2, <3>2, <3>3, <3>4 DEF Inv, Types
    <2>6. \A j \in Server : inc[j] \in Nat
      BY DEF Inv, Types
    <2>7. \A j \in Server : harness'[j] = harness[j] \/ (harness'[j] = "off" /\ harness[j] = "up")
      <3>1. harness \in [Server -> Stage]
        BY DEF Inv, Types
      <3>2. CASE harness' = harness
        BY <3>2
      <3>3. CASE harness' = [harness EXCEPT ![i] = "off"]
        BY <2>1, <3>1, <3>3
      <3> QED BY <2>1, <3>2, <3>3
    <2>8. \A j \in Server : \A k \in 0 .. inc[j] : Crashed(j, k) => Crashed(j, k)'
      BY <2>1, <2>7 DEF Crashed
    <2> QED BY <2>1, <2>3, <2>4, <2>5, <2>6, <2>8, HarnessStep
  <1> QED BY <1>1, <1>2, <1>3 DEF TestStep

\* A server is taken off the network, its Persister is copied, and it is started anew.
LEMMA CrashKeeps ==
  ASSUME Inv, NEW i \in Server, CrashStep(i)
  PROVE  Inv'
  <1> USE DEF Inv
  <1>0. \A j \in Server : inc[j] \in Nat \ {0} /\ writer[j] \in Nat
    BY DEF Types
  <1>1. CASE DeleteServer(i) \/ Kill(i)
    <2>1. Types' /\ ServersNewest' /\ EndsNewest' /\ UNCHANGED <<call, inc, saved, writer>>
      BY <1>1 DEF DeleteServer, Kill, Types, Stage, ServersNewest, EndsNewest, netVars
    <2>2. \A j \in Server : \A k \in 0 .. inc[j] : Crashed(j, k) => Crashed(j, k)'
      BY <1>1 DEF DeleteServer, Kill, Crashed, Types
    <2> QED BY <1>0, <2>1, <2>2, HarnessStep
  <1>2. CASE Copy(i)
    <2>1. Types' /\ EndsNewest' /\ UNCHANGED <<call, inc, saved>>
      BY <1>2 DEF Copy, Types, Stage, EndsNewest, netVars
    <2>2. ServersNewest'
      BY <1>2 DEF Copy, Types, ServersNewest, netVars
    <2>3. \A j \in Server : \A k \in 0 .. inc[j] : Crashed(j, k) => Crashed(j, k)'
      BY <1>2 DEF Copy, Crashed, Types
    <2>4. \A j \in Server : \A k \in 1 .. inc[j] : writer[j] # k => writer'[j] # k
      BY <1>0, <1>2 DEF Copy, Types
    <2> QED BY <1>0, <2>1, <2>2, <2>3, <2>4, HarnessStep
  <1>3. CASE start1(i)
    <2>1. /\ inc' = [inc EXCEPT ![i] = inc[i] + 1] /\ writer' = [writer EXCEPT ![i] = inc[i] + 1]
          /\ harness' = [harness EXCEPT ![i] = "made"] /\ harness[i] = "down"
          /\ UNCHANGED <<netVars, connected, saved, call>>
      BY <1>3 DEF start1, FreshEnds
    <2>2. Types'
      BY <1>0, <2>1 DEF Types, Stage, netVars
    <2>3. ~connected[i] /\ servers[i] = 0
      BY <2>1 DEF ServersNewest
    <2>4. ServersNewest'
      BY <2>1, <2>3 DEF Types, ServersNewest, netVars
    <2>5. EndsNewest'
      <3> SUFFICES ASSUME NEW e \in enabled
                   PROVE  e[2] = inc'[e[1]] /\ connected[e[1]] /\ connected[e[3]]
        BY <2>1 DEF EndsNewest, netVars
      <3>1. e[1] \in Server /\ e[2] = inc[e[1]] /\ connected[e[1]] /\ connected[e[3]]
        BY DEF Types, EndsNewest
      <3> QED BY <2>1, <2>3, <3>1 DEF Types
    <2>6. \A j \in Server : inc[j] <= inc'[j]
      BY <1>0, <2>1 DEF Types
    <2>7. \A j \in Server : \A k \in 0 .. inc[j] : Crashed(j, k) => Crashed(j, k)'
      BY <1>0, <2>1 DEF Crashed, Types
    <2>8. \A j \in Server : \A k \in 1 .. inc[j] : writer[j] # k => writer'[j] # k
      BY <1>0, <2>1 DEF Types
    <2> QED BY <2>1, <2>2, <2>4, <2>5, <2>6, <2>7, <2>8, HarnessStep
  <1>4. CASE AddServer(i)
    <2>1. Types' /\ EndsNewest' /\ UNCHANGED <<call, inc, saved, writer>>
      BY <1>4 DEF AddServer, Types, Stage, EndsNewest
    <2>2. ServersNewest'
      BY <1>4 DEF AddServer, Types, ServersNewest
    <2>3. \A j \in Server : \A k \in 0 .. inc[j] : Crashed(j, k) => Crashed(j, k)'
      BY <1>4 DEF AddServer, Crashed, Types
    <2> QED BY <1>0, <2>1, <2>2, <2>3, HarnessStep
  <1> QED BY <1>1, <1>2, <1>3, <1>4 DEF CrashStep

-----------------------------------------------------------------------------
(* The invariant. *)

\* Every server has been started, and nobody has called.
LEMMA InvInit == Init => Inv
  <1> SUFFICES ASSUME Init PROVE Inv
    OBVIOUS
  <1>1. NoCall \in CallType
    BY DEF NoCall, CallType, Place, Progress
  <1>2. enabled \subseteq Server \X Nat \X Server
    BY DEF Init
  <1>3. Types
    <2>1. reliable \in BOOLEAN /\ longReordering \in BOOLEAN
      BY Zenon DEF Init
    <2>2. connected \in [Server -> BOOLEAN] /\ call \in [Calls -> CallType]
      BY <1>1, Zenon DEF Init
    <2>3. /\ servers \in [Server -> Nat] /\ inc \in [Server -> Nat \ {0}]
          /\ writer \in [Server -> Nat]
      BY DEF Init
    <2>4. saved \in [Server -> SUBSET Calls] /\ harness \in [Server -> Stage]
      BY DEF Init, Stage
    <2> QED BY <1>2, <2>1, <2>2, <2>3, <2>4 DEF Types
  <1>4. ServersNewest /\ EndsNewest
    BY DEF Init, ServersNewest, EndsNewest
  <1>5. \A c \in Calls : CallInv(c, call[c])
    BY DEF Init, NoCall, CallInv, Made, LateUnheard, HandledBy, PersistedKept
  <1> QED BY <1>3, <1>4, <1>5 DEF Inv

\* A reply that is passed on comes from a server that is still the newest instance: the
\* one whose Persister is kept.
LEMMA AliveSaved ==
  ASSUME Inv, NEW c \in Calls, call[c].pc = "got", ~Refused(c)
  PROVE  c \in saved[call[c].end[3]] /\ ~call[c].late
  <1>1. call[c].handler = "returned" /\ call[c].inst # 0 /\ ~call[c].late
    BY CallFacts DEF HandledBy, LateUnheard
  <1>2. call[c].end[3] \in Server /\ servers[call[c].end[3]] = call[c].inst
    BY CallFacts DEF Made, Refused, isServerDead
  <1>3. writer[call[c].end[3]] = call[c].inst
    BY <1>1, <1>2 DEF Inv, ServersNewest
  <1> QED BY <1>1, <1>3, CallFacts DEF PersistedKept

\* One step of the program.
LEMMA InvNext == Inv /\ [Next]_vars => Inv'
  <1> SUFFICES ASSUME Inv, [Next]_vars PROVE Inv'
    OBVIOUS
  <1>1. ASSUME NEW c \in Calls, Call(c) PROVE Inv'
    BY <1>1, CallKeeps
  <1>2. ASSUME NEW c \in Calls, NetworkStep(c) PROVE Inv'
    <2>1. CASE CallAfterCleanup(c) \/ Fail(c) \/ DropRequest(c) \/ GiveUp(c) \/ Refuse(c) \/ DropReply(c)
      <3>1. call[c].pc # "idle" /\ Return(c, FALSE) /\ UNCHANGED <<netVars, cfgVars>>
        BY <2>1 DEF CallAfterCleanup, Fail, DropRequest, GiveUp, Refuse, DropReply
      <3> QED BY <3>1, ReturnKeeps
    <2>2. CASE readEndnameInfo(c)
      BY <2>2, FindKeeps
    <2>3. CASE dispatch(c)
      <3>1. call' = [call EXCEPT ![c].pc = "waiting", ![c].handler = "running"]
            /\ call[c].pc = "found" /\ UNCHANGED <<netVars, cfgVars>>
        BY <2>3 DEF dispatch
      <3>2. "running" \in Progress /\ "waiting" \in {call[c].pc, "waiting"}
        BY DEF Progress
      <3> QED BY <3>1, <3>2, HandlerKeeps
    <2>4. CASE GetReply(c)
      BY <2>4, MoveKeeps DEF GetReply
    <2>5. CASE Deliver(c)
      <3>1. call[c].pc = "got" /\ ~Refused(c) /\ Return(c, TRUE) /\ UNCHANGED <<netVars, cfgVars>>
        BY <2>5 DEF Deliver
      <3> QED BY <3>1, AliveSaved, ReturnKeeps
    <2>6. CASE Delay(c)
      <3>1. ~Refused(c) /\ Step(c, "got", "delayed") /\ call[c].pc = "got"
        BY <2>6 DEF Delay, Step
      <3> QED BY <3>1, AliveSaved, MoveKeeps
    <2>7. CASE DeliverLate(c)
      <3>1. call[c].pc = "delayed" /\ Return(c, TRUE) /\ UNCHANGED <<netVars, cfgVars>>
        BY <2>7 DEF DeliverLate
      <3>2. ~call[c].late /\ c \in saved[call[c].end[3]]
        BY <3>1, CallFacts DEF LateUnheard, PersistedKept
      <3> QED BY <3>1, <3>2, ReturnKeeps
    <2> QED BY <1>2, <2>1, <2>2, <2>3, <2>4, <2>5, <2>6, <2>7 DEF NetworkStep
  <1>3. ASSUME NEW c \in Calls, HandlerStep(c) PROVE Inv'
    <2>1. CASE SaveRaftState(c)
      BY <2>1, SaveKeeps
    <2>2. CASE HandlerReturns(c)
      <3>1. call[c].handler = "persisted" /\ UNCHANGED <<netVars, cfgVars>>
            /\ call' = [call EXCEPT ![c].handler = "returned"]
        BY <2>2 DEF HandlerReturns
      <3>2. call' = [call EXCEPT ![c].pc = call[c].pc, ![c].handler = "returned"]
        <4>1. call \in [Calls -> CallType]
          BY DEF Inv, Types
        <4>2. [call[c] EXCEPT !.handler = "returned"] = [call[c] EXCEPT !.pc = call[c].pc, !.handler = "returned"]
          BY CallFacts DEF CallType
        <4> QED BY <3>1, <4>1, <4>2
      <3>3. "returned" \in Progress
        BY DEF Progress
      <3> QED BY <3>1, <3>2, <3>3, HandlerKeeps
    <2> QED BY <1>3, <2>1, <2>2 DEF HandlerStep
  <1>4. CASE TestStep
    BY <1>4, NetworkKeeps
  <1>5. ASSUME NEW i \in Server, CrashStep(i) PROVE Inv'
    BY <1>5, CrashKeeps
  <1>6. CASE UNCHANGED vars
    <2>1. UNCHANGED <<reliable, longReordering, enabled, servers, connected, inc, saved, writer, harness, call>>
      BY <1>6 DEF vars, netVars, cfgVars
    <2>2. Types' /\ ServersNewest' /\ EndsNewest'
      BY <2>1 DEF Inv, Types, ServersNewest, EndsNewest
    <2>3. \A i \in Server : inc[i] \in Nat
      BY DEF Inv, Types
    <2> QED BY <2>1, <2>2, <2>3, HarnessStep DEF Crashed
  <1> QED BY <1>1, <1>2, <1>3, <1>4, <1>5, <1>6 DEF Next

\* The invariant holds at all times.
THEOREM Invariant == Spec => []Inv
  BY InvInit, InvNext, PTL DEF Spec

\* labrpc.go:262-268 with config.go:104-116: what a caller is told has been done is in the
\* Persister the next instance of the server starts from.
THEOREM RepliesKept == Spec => []PositiveRepliesKept
  <1>1. Inv => PositiveRepliesKept
    BY CallFacts DEF PositiveRepliesKept, PersistedKept
  <1> QED BY <1>1, Invariant, PTL

\* config.go:142-143: new ends, and the old ones disabled, keep a crashed instance silent.
THEOREM DeadAreSilent == Spec => []DeadCannotSend
  <1>1. Inv => DeadCannotSend
    BY CallFacts DEF DeadCannotSend, LateUnheard
  <1> QED BY <1>1, Invariant, PTL

-----------------------------------------------------------------------------
(* ElectionWait. *)

Point == {"none", "new", "ask", "check", "wait", "woken", "left"}
Answer == {"none", "sent", "yes", "no", "counted"}

Campaign == [votes : Nat, finished : Nat, call : [Peer -> Answer], at : Point]

\* While it sleeps although it need not, somebody has counted a vote and not announced it.
WakeUpDue(e) == e.at = "wait" /\ ~Wait(e) => \E p \in Peer : e.call[p] = "counted"

\* Each election's record, for election and of what a step makes of it.
Sound(elections) ==
  /\ elections = [t \in Election |-> elections[t]]
  /\ \A t \in Election : elections[t] \in Campaign /\ WakeUpDue(elections[t])

WaitInv == Sound(election)

\* A step of election t that makes e of its record.
LEMMA OneChanges ==
  ASSUME Sound(election), NEW t \in Election, NEW e \in Campaign, WakeUpDue(e),
         election' = [election EXCEPT ![t] = e]
  PROVE  Sound(election')
  BY DEF Sound

\* Nobody's counted vote is dropped.
LEMMA DroppedSound ==
  ASSUME Sound(election)
  PROVE  Sound(Dropped(election))
  <1> SUFFICES ASSUME NEW t \in Election
               PROVE  Dropped(election)[t] \in Campaign /\ WakeUpDue(Dropped(election)[t])
    BY DEF Sound, Dropped
  <1> DEFINE e == election[t]
             d == Dropped(election)[t]
  <1>1. e \in Campaign /\ WakeUpDue(e)
    BY DEF Sound
  <1>2. d = [e EXCEPT !.call = [p \in Peer |-> IF e.call[p] = "sent" THEN "none" ELSE e.call[p]]]
    BY DEF Dropped
  <1> HIDE DEF e, d
  <1>3. /\ d \in Campaign /\ d.votes = e.votes /\ d.finished = e.finished /\ d.at = e.at
        /\ \A p \in Peer : e.call[p] = "counted" => d.call[p] = "counted"
    BY <1>1, <1>2 DEF Campaign, Answer
  <1>4. WakeUpDue(d)
    BY <1>1, <1>3 DEF WakeUpDue, Wait
  <1> QED BY <1>3, <1>4 DEF d

\* An election that is given up waits for nothing.
LEMMA ReturnSound ==
  ASSUME NEW e \in Campaign
  PROVE  LeaveElection(e) \in Campaign /\ WakeUpDue(LeaveElection(e))
  BY DEF LeaveElection, Campaign, Answer, Point, WakeUpDue

\* Convert2Candidate: the new term's election has just begun.
LEMMA CandidateSound ==
  ASSUME Sound(election), Convert2Candidate
  PROVE  Sound(election')
  <1> DEFINE d == Dropped(election)
             n == currentTerm + 1
  <1>1. Sound(d) /\ election' = [d EXCEPT ![n].at = "new"]
    BY DroppedSound DEF Convert2Candidate
  <1> HIDE DEF d, n
  <1>2. ASSUME NEW t \in Election
        PROVE  election'[t] \in Campaign /\ WakeUpDue(election'[t])
    <2>1. CASE t = n
      <3>1. d[t] \in Campaign /\ election'[t] = [d[t] EXCEPT !.at = "new"]
        BY <1>1, <2>1 DEF Sound
      <3> QED BY <3>1 DEF Campaign, Point, WakeUpDue
    <2>2. CASE t # n
      BY <1>1, <2>2 DEF Sound
    <2> QED BY <2>1, <2>2
  <1> QED BY <1>1, <1>2 DEF Sound

\* RunForElection: nothing is counted yet, and it does not wait.
LEMMA RunSound ==
  ASSUME Sound(election), NEW t \in Election, RunForElection(t)
  PROVE  Sound(election')
  <1> DEFINE e == IF state = "Candidate"
                  THEN [election[t] EXCEPT !.votes = OwnVote, !.finished = OwnVote, !.at = "ask",
                                           !.call = [p \in Peer |-> "sent"]]
                  ELSE NoElection
  <1>1. election' = [election EXCEPT ![t] = e]
    BY DEF RunForElection, Sound
  <1>2. election[t] \in Campaign
    BY DEF Sound
  <1>3. e \in Campaign /\ e.at # "wait"
    BY <1>2 DEF Campaign, Point, Answer, OwnVote, NoElection
  <1> HIDE DEF e
  <1> QED BY <1>1, <1>3, OneChanges DEF WakeUpDue

\* A reply, or none: only a request that is under way changes.
LEMMA ReturnsSound ==
  ASSUME Sound(election), NEW t \in Election, NEW p \in Peer, VoteReturns(t, p)
  PROVE  Sound(election')
  <1>1. CASE election' = Dropped(election)
    BY <1>1, DroppedSound
  <1>2. ASSUME NEW a \in {"none", "yes", "no"}, election' = [election EXCEPT ![t].call[p] = a]
        PROVE  Sound(election')
    <2> DEFINE e == [election[t] EXCEPT !.call[p] = a]
    <2>1. election' = [election EXCEPT ![t] = e]
      BY <1>2 DEF Sound
    <2>2. election[t] \in Campaign /\ WakeUpDue(election[t]) /\ election[t].call[p] = "sent"
      BY DEF Sound, VoteReturns
    <2>3. /\ e \in Campaign /\ e.votes = election[t].votes
          /\ e.finished = election[t].finished /\ e.at = election[t].at
          /\ \A q \in Peer \ {p} : e.call[q] = election[t].call[q]
      BY <2>2 DEF Campaign, Answer
    <2> HIDE DEF e
    <2>4. WakeUpDue(e)
      BY <2>2, <2>3 DEF WakeUpDue, Wait
    <2> QED BY <2>1, <2>3, <2>4, OneChanges
  <1> QED BY <1>1, <1>2 DEF VoteReturns

\* Under voteMu: the goroutine that has counted is the one that will announce.
LEMMA CountSound ==
  ASSUME Sound(election), NEW t \in Election, NEW p \in Peer, CountVote(t, p)
  PROVE  Sound(election')
  <1> DEFINE o == election[t]
             v == IF o.call[p] = "yes" THEN o.votes + 1 ELSE o.votes
             c == [o.call EXCEPT ![p] = "counted"]
             e == [o EXCEPT !.votes = v, !.finished = o.finished + 1, !.call = c]
  <1>1. election' = [election EXCEPT ![t] = e]
    BY ZenonT(120) DEF Sound, CountVote
  <1>2. o \in Campaign
    BY DEF Sound
  <1>3. v \in Nat /\ o.finished + 1 \in Nat
    BY <1>2 DEF Campaign
  <1>4. c \in [Peer -> Answer] /\ c[p] = "counted"
    BY <1>2 DEF Campaign, Answer
  <1> HIDE DEF v, c
  <1>5. e \in Campaign /\ e.call[p] = "counted"
    BY <1>2, <1>3, <1>4 DEF Campaign
  <1> HIDE DEF e
  <1> QED BY <1>1, <1>5, OneChanges DEF WakeUpDue

\* Broadcast: afterwards nobody sleeps.
LEMMA AnnounceSound ==
  ASSUME Sound(election), NEW t \in Election, NEW p \in Peer, Announce(t, p)
  PROVE  Sound(election')
  <1> DEFINE o == election[t]
             e == [o EXCEPT !.call[p] = "none", !.at = Broadcast(o.at)]
  <1>1. election' = [election EXCEPT ![t] = e]
    BY DEF Sound, Announce
  <1>2. o \in Campaign
    BY DEF Sound
  <1>3. e \in Campaign /\ e.at # "wait"
    BY <1>2 DEF Campaign, Answer, Point, Broadcast
  <1> HIDE DEF e
  <1> QED BY <1>1, <1>3, OneChanges DEF WakeUpDue

\* Woken, StopAsking, CheckVotes: it goes to sleep only if it has to wait.
LEMMA WaiterSound ==
  ASSUME Sound(election), NEW t \in Election, Woken(t) \/ StopAsking(t) \/ CheckVotes(t)
  PROVE  Sound(election')
  <1> DEFINE o == election[t]
  <1>1. o \in Campaign
    BY DEF Sound
  <1>2. CASE election' = [election EXCEPT ![t] = LeaveElection(o)]
    BY <1>1, <1>2, ReturnSound, OneChanges
  <1>3. CASE election' = [election EXCEPT ![t] = [o EXCEPT !.at = "check"]]
    <2>1. [o EXCEPT !.at = "check"] \in Campaign /\ [o EXCEPT !.at = "check"].at = "check"
      BY <1>1 DEF Campaign, Point
    <2> QED BY <1>3, <2>1, OneChanges DEF WakeUpDue
  <1>4. CASE Wait(o) /\ election' = [election EXCEPT ![t] = [o EXCEPT !.at = "wait"]]
    <2> DEFINE e == [o EXCEPT !.at = "wait"]
    <2>1. e \in Campaign /\ e.votes = o.votes /\ e.finished = o.finished
      BY <1>1 DEF Campaign, Point
    <2>2. WakeUpDue(e)
      BY <1>4, <2>1 DEF WakeUpDue, Wait
    <2> HIDE DEF e
    <2> QED BY <1>4, <2>1, <2>2, OneChanges DEF e
  <1> QED BY <1>2, <1>3, <1>4 DEF Woken, StopAsking, CheckVotes, Sound

\* So it is with every step.
LEMMA SoundNext ==
  ASSUME Sound(election), [ElectionNext]_electionVars
  PROVE  Sound(election')
  <1>1. CASE UNCHANGED election
    BY <1>1 DEF Sound
  <1>2. CASE UNCHANGED electionVars
    BY <1>1, <1>2 DEF electionVars
  <1>3. CASE Fire \/ TakeTick \/ \E nowState \in Role : HandleTimeout(nowState)
    BY <1>1, <1>3 DEF Fire, TakeTick, HandleTimeout
  <1>4. CASE Convert2Candidate
    BY <1>4, CandidateSound
  <1>5. ASSUME NEW t \in Election, ElectionGoroutine(t) \/ EndLoop(t)
        PROVE  Sound(election')
    BY <1>1, <1>5, RunSound, WaiterSound DEF ElectionGoroutine, EndLoop
  <1>6. ASSUME NEW t \in Election, NEW p \in Peer, VoteGoroutine(t, p)
        PROVE  Sound(election')
    BY <1>6, ReturnsSound, CountSound, AnnounceSound DEF VoteGoroutine
  <1>7. ASSUME NEW term \in currentTerm .. MaxTerm,
               RequestVote(term) \/ AppendEntries(term) \/ LeaderStepsDown(term)
        PROVE  Sound(election')
    <2>1. Hear(term)
      BY <1>7 DEF RequestVote, AppendEntries, LeaderStepsDown
    <2>2. election' = Dropped(election) \/ UNCHANGED election
      BY <2>1 DEF Hear
    <2> QED BY <1>1, <2>2, DroppedSound
  <1> QED BY <1>2, <1>3, <1>4, <1>5, <1>6, <1>7 DEF ElectionNext

\* raft.go:485-502: Broadcast is called after voteMu is unlocked, and still no
\* waiter sleeps on for good with its election decided.
THEOREM WakeUpsArrive == ElectionSpec => []NoLostWakeUp
  <1>1. ElectionInit => WaitInv
    BY DEF ElectionInit, WaitInv, Sound, Campaign, Answer, Point, NoElection, WakeUpDue
  <1>2. WaitInv /\ [ElectionNext]_electionVars => WaitInv'
    BY SoundNext DEF WaitInv
  <1>3. WaitInv => NoLostWakeUp
    BY DEF WaitInv, Sound, WakeUpDue, NoLostWakeUp
  <1> QED BY <1>1, <1>2, <1>3, PTL DEF ElectionSpec
=============================================================================
