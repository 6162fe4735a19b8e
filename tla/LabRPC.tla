------------------------------- MODULE LabRPC -------------------------------
(***************************************************************************)
(* src/labrpc, the simulated network, with the part of the test harness    *)
(* (src/raft/config.go) that crashes, restarts, connects and disconnects   *)
(* servers on it: together they are what the other modules take for        *)
(* granted of calls and crashes.                                           *)
(*                                                                         *)
(* A server that cannot really be killed is imitated: its k-th instance    *)
(* goes on running, but the ends it sends from are disabled for good, the  *)
(* network no longer knows it, and its Persister has been copied.  An end  *)
(* is <<i, k, j>>: the one instance k of server i has for server j.  A     *)
(* handler does one thing, it persists its call.  Of the Persister objects *)
(* the model keeps the one in cfg.saved: what it holds (saved), and which  *)
(* instance writes to it (writer, 0 for none).                             *)
(***************************************************************************)
EXTENDS Integers, FiniteSets

CONSTANTS
    Server, Calls,
    MaxOps,    \* bound: things the test does to the network and the servers
    MaxCrashes \* bound: of which crashes

ASSUME LabRPCAssumption ==
    /\ IsFiniteSet(Server) /\ IsFiniteSet(Calls) /\ 0 \notin Server
    /\ MaxOps \in Nat /\ MaxCrashes \in Nat

VARIABLES
    reliable, longReordering, done,  \* fields of Network
    listening,                       \* the goroutine of MakeNetwork has not returned
    enabled, servers,                \* ends that are enabled; instance of each server, 0 for nil
    connected, inc, saved, writer,   \* fields of config: inc is the instance endnames is of
    harness,                         \* how far crash1 and start1 of a server have got
    call,                            \* each call, its processReq and its handler
    ops, crashes

netVars == <<reliable, longReordering, done, listening, enabled, servers>>
cfgVars == <<connected, inc, saved, writer, harness>>
boundVars == <<ops, crashes>>
vars == <<netVars, cfgVars, call, boundVars>>

NoCall == [pc |-> "idle", end |-> <<0, 0, 0>>, inst |-> 0, reliable |-> TRUE, reorder |-> FALSE,
           handler |-> "none", ok |-> FALSE, late |-> FALSE]

(* make_config has started and connected all servers. *)
Init ==
    /\ reliable \in BOOLEAN /\ longReordering = FALSE /\ done = FALSE /\ listening = TRUE
    /\ enabled = {<<i, 1, j>> : i, j \in Server}
    /\ servers = [i \in Server |-> 1]
    /\ connected = [i \in Server |-> TRUE] /\ inc = [i \in Server |-> 1]
    /\ saved = [i \in Server |-> {}] /\ writer = [i \in Server |-> 1]
    /\ harness = [i \in Server |-> "up"]
    /\ call = [c \in Calls |-> NoCall]
    /\ ops = 0 /\ crashes = 0

-----------------------------------------------------------------------------
(* Calls. *)

Step(c, from, to) ==
    /\ call[c].pc = from
    /\ call' = [call EXCEPT ![c].pc = to]
    /\ UNCHANGED <<netVars, cfgVars, boundVars>>

Return(c, ok) == call' = [call EXCEPT ![c].pc = "returned", ![c].ok = ok]

(* The instance has been taken off the net by crash1. *)
Crashed(i, k) == k < inc[i] \/ harness[i] \in {"off", "deleted", "copied", "down"}

(* Some instance, perhaps a dead one, calls. *)
Call(c) ==
    /\ call[c].pc = "idle"
    /\ \E i, j \in Server : \E k \in 1 .. inc[i] :
        /\ i # j
        /\ call' = [call EXCEPT ![c] = [NoCall EXCEPT !.pc = "sent", !.end = <<i, k, j>>,
                                                       !.late = Crashed(i, k)]]
    /\ UNCHANGED <<netVars, cfgVars, boundVars>>

(* The whole network has been destroyed. *)
CallAfterCleanup(c) ==
    /\ call[c].pc = "sent" /\ done
    /\ Return(c, FALSE)
    /\ UNCHANGED <<netVars, cfgVars, boundVars>>

(* The network's goroutine takes the request, and processReq reads what    *)
(* there is to know of the end.                                            *)
readEndnameInfo(c) ==
    LET e == call[c].end
    IN  /\ call[c].pc = "sent" /\ listening
        /\ call' = [call EXCEPT ![c] =
                IF e \in enabled /\ servers[e[3]] # 0
                THEN [@ EXCEPT !.pc = "found", !.inst = servers[e[3]],
                               !.reliable = reliable, !.reorder = longReordering]
                ELSE [@ EXCEPT !.pc = "failing"]]
        /\ UNCHANGED <<netVars, cfgVars, boundVars>>

(* The timer of a call that reached nobody. *)
Fail(c) ==
    /\ call[c].pc = "failing"
    /\ Return(c, FALSE)
    /\ UNCHANGED <<netVars, cfgVars, boundVars>>

DropRequest(c) ==
    /\ call[c].pc = "found" /\ ~call[c].reliable
    /\ Return(c, FALSE)
    /\ UNCHANGED <<netVars, cfgVars, boundVars>>

(* Server.dispatch and Service.dispatch, in a goroutine of their own. *)
dispatch(c) ==
    /\ call[c].pc = "found"
    /\ call' = [call EXCEPT ![c].pc = "waiting", ![c].handler = "running"]
    /\ UNCHANGED <<netVars, cfgVars, boundVars>>

(* The handler persists: SaveRaftState on its instance's own Persister. *)
SaveRaftState(c) ==
    LET i == call[c].end[3]
    IN  /\ call[c].handler = "running"
        /\ call' = [call EXCEPT ![c].handler = "persisted"]
        /\ saved' = [saved EXCEPT ![i] = IF writer[i] = call[c].inst THEN @ \cup {c} ELSE @]
        /\ UNCHANGED <<netVars, connected, inc, writer, harness, boundVars>>

HandlerReturns(c) ==
    /\ call[c].handler = "persisted"
    /\ call' = [call EXCEPT ![c].handler = "returned"]
    /\ UNCHANGED <<netVars, cfgVars, boundVars>>

(* Mutant: nobody looks. *)
isServerDead_Never(c) == FALSE

isServerDead(c) == call[c].end \notin enabled \/ servers[call[c].end[3]] # call[c].inst

(* The loop of processReq: the handler's reply, or after 100 ms a look     *)
(* whether the server is still there.                                      *)
GetReply(c) ==
    /\ call[c].handler = "returned"
    /\ Step(c, "waiting", "got")

GiveUp(c) ==
    /\ call[c].pc = "waiting" /\ isServerDead(c)
    /\ Return(c, FALSE)
    /\ UNCHANGED <<netVars, cfgVars, boundVars>>

(* Mutant: no second look. *)
Refused_Never(c) == FALSE

(* A reply is passed on only if the server is still the one that was asked. *)
Refused(c) == isServerDead(c)

Refuse(c) ==
    /\ call[c].pc = "got" /\ Refused(c)
    /\ Return(c, FALSE)
    /\ UNCHANGED <<netVars, cfgVars, boundVars>>

Deliver(c) ==
    /\ call[c].pc = "got" /\ ~Refused(c)
    /\ Return(c, TRUE)
    /\ UNCHANGED <<netVars, cfgVars, boundVars>>

Delay(c) ==
    /\ call[c].reorder /\ ~Refused(c)
    /\ Step(c, "got", "delayed")

DropReply(c) ==
    /\ call[c].pc = "got" /\ ~Refused(c) /\ ~call[c].reliable
    /\ Return(c, FALSE)
    /\ UNCHANGED <<netVars, cfgVars, boundVars>>

(* The timer of a reply that was held back. *)
DeliverLate(c) ==
    /\ call[c].pc = "delayed"
    /\ Return(c, TRUE)
    /\ UNCHANGED <<netVars, cfgVars, boundVars>>

-----------------------------------------------------------------------------
(* The test. *)

Op == ops < MaxOps /\ ops' = ops + 1

setlongreordering ==
    /\ Op
    /\ longReordering' = ~longReordering
    /\ UNCHANGED <<reliable, done, listening, enabled, servers, cfgVars, call, crashes>>

Cleanup ==
    /\ Op /\ ~done
    /\ done' = TRUE
    /\ UNCHANGED <<reliable, longReordering, listening, enabled, servers, cfgVars, call, crashes>>

(* The goroutine may take requests until its select notices. *)
StopListening ==
    /\ done /\ listening
    /\ listening' = FALSE
    /\ UNCHANGED <<reliable, longReordering, done, enabled, servers, cfgVars, call, boundVars>>

(* The ends to and from i, as cfg.endnames has them. *)
EndsOf(i) == {<<i, inc[i], j>> : j \in Server} \cup {<<j, inc[j], i>> : j \in Server}

connect(i) ==
    /\ Op /\ harness[i] = "up" /\ ~connected[i]
    /\ connected' = [connected EXCEPT ![i] = TRUE]
    /\ enabled' = enabled \cup {e \in EndsOf(i) : connected'[e[1]] /\ connected'[e[3]]}
    /\ UNCHANGED <<reliable, longReordering, done, listening, servers, inc, saved, writer, harness, call, crashes>>

Disconnected(i) ==
    /\ connected' = [connected EXCEPT ![i] = FALSE]
    /\ enabled' = enabled \ EndsOf(i)

disconnect(i) ==
    /\ Op /\ harness[i] = "up" /\ connected[i]
    /\ Disconnected(i)
    /\ UNCHANGED <<reliable, longReordering, done, listening, servers, inc, saved, writer, harness, call, crashes>>

(* crash1: disconnect, DeleteServer, Copy, Kill. *)
crash1(i) ==
    /\ Op /\ crashes < MaxCrashes /\ crashes' = crashes + 1
    /\ harness[i] = "up"
    /\ Disconnected(i)
    /\ harness' = [harness EXCEPT ![i] = "off"]
    /\ UNCHANGED <<reliable, longReordering, done, listening, servers, inc, saved, writer, call>>

DeleteServer(i) ==
    /\ harness[i] = "off"
    /\ servers' = [servers EXCEPT ![i] = 0]
    /\ harness' = [harness EXCEPT ![i] = "deleted"]
    /\ UNCHANGED <<reliable, longReordering, done, listening, enabled, connected, inc, saved, writer, call, boundVars>>

(* From here on the old instance writes to a Persister nobody reads. *)
Copy(i) ==
    /\ harness[i] = "deleted"
    /\ writer' = [writer EXCEPT ![i] = 0]
    /\ harness' = [harness EXCEPT ![i] = "copied"]
    /\ UNCHANGED <<netVars, connected, inc, saved, call, boundVars>>

Kill(i) ==
    /\ harness[i] = "copied"
    /\ harness' = [harness EXCEPT ![i] = "down"]
    /\ UNCHANGED <<netVars, connected, inc, saved, writer, call, boundVars>>

(* Mutant: the new instance takes over the names of the ends. *)
FreshEnds_Same(i) == inc[i]

(* The instance whose ends start1 makes. *)
FreshEnds(i) == inc[i] + 1

(* start1: new ends, Make on a copy of the Persister, AddServer.  (The     *)
(* crash1 it begins with finds nothing to do.)                             *)
start1(i) ==
    /\ harness[i] = "down"
    /\ inc' = [inc EXCEPT ![i] = FreshEnds(i)]
    /\ writer' = [writer EXCEPT ![i] = inc[i] + 1]
    /\ harness' = [harness EXCEPT ![i] = "made"]
    /\ UNCHANGED <<netVars, connected, saved, call, boundVars>>

AddServer(i) ==
    /\ harness[i] = "made"
    /\ servers' = [servers EXCEPT ![i] = writer[i]]
    /\ harness' = [harness EXCEPT ![i] = "up"]
    /\ UNCHANGED <<reliable, longReordering, done, listening, enabled, connected, inc, saved, writer, call, boundVars>>

-----------------------------------------------------------------------------
NetworkStep(c) ==
    \/ CallAfterCleanup(c) \/ readEndnameInfo(c) \/ Fail(c) \/ DropRequest(c) \/ dispatch(c)
    \/ GetReply(c) \/ GiveUp(c)
    \/ Refuse(c) \/ Deliver(c) \/ Delay(c) \/ DropReply(c) \/ DeliverLate(c)

HandlerStep(c) == SaveRaftState(c) \/ HandlerReturns(c)

TestStep ==
    \/ setlongreordering \/ Cleanup \/ StopListening
    \/ \E i \in Server : connect(i) \/ disconnect(i) \/ crash1(i)

CrashStep(i) == DeleteServer(i) \/ Copy(i) \/ Kill(i) \/ start1(i) \/ AddServer(i)

Next ==
    \/ \E c \in Calls : Call(c) \/ NetworkStep(c) \/ HandlerStep(c)
    \/ TestStep
    \/ \E i \in Server : CrashStep(i)

(* The handler's server has been killed: it may hang, as nobody waits for  *)
(* its goroutines.                                                         *)
Killed(c) ==
    LET i == call[c].end[3]
    IN  call[c].inst # writer[i] /\ (harness[i] = "down" \/ call[c].inst < writer[i])

(* Goroutines and timers of the network run, and so do the handlers of     *)
(* servers that have not been killed and the harness once it has begun to  *)
(* crash a server.                                                         *)
Fairness ==
    /\ \A c \in Calls : WF_vars(NetworkStep(c)) /\ WF_vars(HandlerStep(c) /\ ~Killed(c))
    /\ \A i \in Server : WF_vars(CrashStep(i))

Spec == Init /\ [][Next]_vars /\ Fairness

-----------------------------------------------------------------------------
TypeOK ==
    /\ \A i \in Server : servers[i] \in 0 .. MaxCrashes + 1 /\ writer[i] \in 0 .. MaxCrashes + 1
    /\ \A i \in Server : servers[i] # 0 => servers[i] <= inc[i]
    /\ \A c \in Calls :
        /\ call[c].pc \in {"idle", "sent", "failing", "found", "waiting", "got", "delayed", "returned"}
        /\ call[c].handler \in {"none", "running", "persisted", "returned"}

(* labrpc.go:262-268 with config.go:104-116: a caller that is told of      *)
(* success finds what the handler persisted after any crash that follows,  *)
(* although a server that crashes goes on serving.                         *)
PositiveRepliesKept ==
    \A c \in Calls : call[c].pc = "returned" /\ call[c].ok => c \in saved[call[c].end[3]]

(* config.go:142-143: an instance that has crashed cannot send, whatever   *)
(* is connected afterwards.                                                *)
DeadCannotSend == \A c \in Calls : call[c].late => call[c].handler = "none"

(* raft.go:506-508 of raft-Lab2D: a call returns unless the handler does   *)
(* not; if the handler hangs because its server was killed it returns too. *)
CallsReturn == \A c \in Calls : call[c].pc = "sent" ~> call[c].pc = "returned"
=============================================================================
