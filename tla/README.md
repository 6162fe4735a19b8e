# A verification development for the 6.824 labs

The repository is a Go solution of the MIT 6.824 (2020) labs: a MapReduce master with its
workers, a Raft library, a replicated key/value server, a shard master and a sharded
key/value server, all of them on a simulated network. This directory holds TLA+ modules that
model its core, TLC configurations that check them on small instances, and TLAPS proofs that
hold for every instance. `PROJECT.json` lists runs, mutants, theorems, hazards and, for each
definition, the source lines it stands for. Paths below are relative to `src/src/`.

## 1. Inventory

| component | source | state it keeps | operations |
|---|---|---|---|
| Raft | `raft/raft.go`, `raft/persister.go` | term, vote, log (persisted); role, commitIndex, lastApplied, nextIndex, matchIndex; a timer; snapshot index and flags | `RunForElection`, `RequestVote`, `Convert2Leader`, `Start`, `LeaderAppendEntries`, `AppendEntries`, `HandleTimeout`, `applier`, `Snapshot`, `LeaderSendSnapshot`, `CondInstallSnap`, `Make`, `Kill` |
| MapReduce | `mr/master.go`, `mr/worker.go`, `mr/rpc.go`, `main/mrmaster.go` | status and start time of each task, two flags; files named `mr-m-r`, `mr-out-r` | `GetTask`, `checkTimeOut`, `ReportTask`, `Done`; `doMap`, `doReduce` |
| Shard master | `shardmaster/` | sequence of configurations, one session per client, notify channels by log index | `Join`, `Leave`, `Move`, `Query`, `applyConfigChange`, `shardLoadBalance` |
| Sharded KV | `shardkv/` | data per shard, state per shard (none, owned, to get, to give), sessions, two configurations | `Get`, `PutAppend`, `getLastestConfig`, `checkAndGetShard`/`MigrateShard`, `checkAndFinishGiveShard`/`AckReceiveShard`, snapshots |
| KV | `kvraft/` | data, last sequence number per client, wait channels | `Get`, `PutAppend`, `applyMsgHandlerLoop` |
| network | `labrpc/labrpc.go` | enabled ends, servers | `Call`, `processReq`, `dispatch`, `Enable`, `AddServer`, `DeleteServer`: an answer, or a failure after a while; loss, delay, reordering, no duplication |
| earlier Raft | `raft-Lab2ABC/`, `raft-Lab2D/` | as Raft | as Raft; the repository's README calls them early versions, but `kvraft` imports `raft-Lab2D` |
| tools | `labgob/`, `porcupine/`, `models/`, `mrapps/`, `main/`, `config.go`, `test_test.go` | - | encoding, tests, applications |

How they interact. A service calls `Start` on its Raft server and reads committed entries from
an unbuffered channel `applyCh`; RPC handlers wait on a channel per log index. Raft servers
call each other through `labrpc`. Shard-KV groups ask the shard master for configurations and
each other for shards. MapReduce stands alone: workers call the master by RPC and share a
directory with each other.

What is hard in it. Every RPC handler, timer and `go` statement is a goroutine, and a Raft
server is protected by one mutex that is released and taken again in the middle of
`RunForElection`, `Start` and `LeaderAppendEntries`. Replies come late, out of order or never.
Servers are killed and made again from what the `Persister` holds. Elections wait on a
condition variable that other paths do not signal. Snapshots and commands reach a service through
one unbuffered channel from up to three goroutines, one of which sends with the mutex held, while
the service takes snapshots of its own. Groups that exchange shards each decide by their own log,
and answer each other from what their leaders happen to have applied. MapReduce workers
die between two renames
and report tasks that have been given to others.

What makes each part correct. Raft: a vote per term and server, one leader per term, logs that
match, committed entries that stay and agree, and a server that goes on campaigning. MapReduce:
reducers find their inputs, `Done()` means the output is there, the job finishes. Shard master:
balanced and minimal moves, each request once, replicas that agree. Sharded KV: a shard is
served by one group at a time and moves with its data and sessions; no configuration blocks the
next. KV: each request once, and answers to the right client. Snapshots: the state machine and
what is on disk are always the log up to some index, and nothing committed is passed over. Network:
a caller that hears of success can rely on it over a crash, and every call returns.

## 2. Modules

### `Raft`

One Raft group whose service takes no snapshots (the Lab 2 tester and the shard master use it
so): `lastIncludedIndex` stays 0. Fields keep their names; the placeholder entry 0 of a log is
left out and its term -1 is what `TermAt` gives for index 0.

* The grain is `rf.mu`: one action is one critical section (a handler, or a goroutine between
  two unlocks). Goroutines that carry locals across sections are records: `runs`
  (RunForElection: the term it entered, the term it asks in), `beats` (LeaderAppendEntries),
  `starts` (Start). `msgs` holds requests and replies; taking one is its delivery, never taking
  it its loss, and there is no duplication, as in `labrpc`.
* `Windows` names the gaps between two sections in which code acts on what it read before:
  before `Convert2Candidate`, before `sameTerm` is read, before `Convert2Leader`, between
  `GetState` and the append in `Start`, and around the first section of `LeaderAppendEntries`.
  With a gap closed, both sections run in a row. This lets a run ask what depends on which gap,
  and a theorem say which gap must be closed.
* `disk` is the `Persister`; `Crash` is `Kill` followed by `Make`. `ballots`, `elected`, `leaderLog`
  and `acked` are history: the votes cast, who took office having campaigned in which term, the
  log each term's leader has or had, and how much of it each server has acknowledged. The proofs
  speak of the last two; no action reads any of them.
* Left out: `leaderId` (read by nobody in this package), `lastApplied`, the applier and
  snapshots (module `Snapshots`), the timer (module `ElectionWait`); a refused vote in the
  candidate's own term.

### `ElectionWait`

The goroutines of one server that keep elections going: the timer and its channel,
`HandleTimeout` goroutines (counted by where they are), `RunForElection` goroutines with their
vote calls, counters, `voteMu` section and condition variable, and heartbeat loops. Other
servers are an environment that answers or not as it likes, and sends at most `MaxHeard`
messages that change role, term or timer. An election is named by the term its
`Convert2Candidate` entered. `timer.Reset` drops an unreceived tick, as Go 1.23 (go.mod) does.

### `Snapshots`

The way from Raft's log into the state machine of `shardkv`, and back into snapshots, on a leader
and its followers within one term. `rf` has the log as positions: `base` (lastIncludedIndex),
`last`, and `agree`, up to where the log is the leader's; beyond it a follower may hold a tail of
an older term. The three senders on the unbuffered `applyCh` (`applier`, the goroutine of
`recoverFromSnap`, `CondInstallSnap` with `rf.mu` held) are variables that hold what each is about
to send. `kv` is `applyMessage` with `executeClientCmd`, `executeConfigCmd` and `executeEmptyCmd`
reduced to what they do to `logLastApplied`, `passiveSnapshotBefore` and the set of commands
executed; `checker` is `checkSnapshotNeed` with its steps. `LeaderSendSnapshot` goroutines are
`senders`: they carry the bytes and read the index later. Two windows can be opened: `label`
(another snapshot is taken between that `go` statement and its first line) and `recovery` (the
applier sends before `recoverFromSnap`'s goroutine does).

### `ShardKV`

Groups of servers, the configurations the shard master publishes one by one (`Config`), and clerks.
Raft is taken for what `Raft` and `ReplicatedLog` say: one log per group whose committed part stays,
a newest leader whose `Start` appends to it, and servers that still think they lead, whose `Start`
goes nowhere. The state machine (`sm`) has current and previous configuration, the four states of a
shard, data per shard and sessions. The loops of a leader are actions in two or three steps with
what they carry in `updater`, `pulls`, `gives`: `getLastestConfig` reads readiness and proposes
later; `checkAndGetShard` collects tasks, `MigrateShard` asks one server of the old owner after
another, and what it brings is proposed later still; `checkAndFinishGiveShard` and `AckReceiveShard`
likewise. `addEmptyLog`, elections, restarts with replay of the log, and clerks with retries over
servers and configurations are actions too. A value is the sequence of the writes that made it.

### `KVRaft`, `Lab2D`

`KVRaft` is `kvraft` over `ReplicatedLog`: clerks, handlers with their wait channels by index (kept,
shared and deleted as in the code), the apply loop with its early `return`, snapshots taken in the
loop and installed by `InstallSnapshotHandler`, which sends on `applyChan` with the lock held, while
`applyLog` sends a whole batch after it has unlocked. `Lab2D` is the Raft version this server
imports, `raft-Lab2D/raft.go`, with its own elections, replication, back-off, snapshots and what it
does and does not persist (`disk` is apart from `rf`, as `Start` and `ConvertToCandidate` do not
persist).

In `Lab2D` the goroutine `ticker` is a record per server: whether it is in the case of a candidate, the newest
reply that a handler has put into `appendEntriesChan` (`heard`), the reply it has taken and compared without the lock
(`resp`, 687-690), and the campaigns whose goroutine `sendAllRequestVote` has still to run (`asking`, 698, 734). Taking a
reply, following it under the lock, entering a term and asking for votes are separate actions, so
that a request may be handled between any two of them, a server that has just become leader may be made a candidate
(695), and a goroutine may ask in a term it was not started in. When the ticker follows a reply although
the server has moved on, so that a term, vote or role is really undone, or when a goroutine asks in another
campaign than its own, `outOfStep` is set for good. From there on the code guarantees nothing
(section 3, `MCLab2D_ticker`); the properties of `Lab2D` are about behaviours up to there. An `InstallSnapshot` older than
the server's own snapshot, accepted because a restart has set `commitIndex` to 0, makes `copy` panic (1127): the
process is started again with what is on disk (`StartedAgain`; `Panic` in `KVRaft`).

A reply goes to the goroutine that sent the request; when the server of that goroutine is
killed, the reply reaches nobody (`Orphaned`; a request says in `waits` whether anybody waits). That matters
because votes are merely counted: the next instance may ask the same voter in the same term.
`ballots`, `elected` and `outOfStep` are history.

### `LabRPC`

The network and the part of `raft/config.go` that crashes and restarts servers on it, step by step:
a call from the client end through `processReq`, the handler's goroutine and the polling of
`isServerDead` back to the caller; `crash1` with its disconnecting, deleting, copying of the
`Persister` and killing, `start1` with its new ends, `connect`, `disconnect`, `Cleanup`. It is what the
other modules suppose of calls and crashes.

### `MapReduce`, `MapReduceJob`

`MapReduce` has the master's table (`mapTasks`, `reduceTasks`, two flags), the set of tasks whose
ten seconds are over, the files that exist and the point each worker is at. A handler is one
action, `checkTimeOut` included; a worker may be stopped between any two file operations.
Map and reduce functions are deterministic, so a file is its name. `MapReduceJob` is the
abstract specification: map tasks complete once each, reduce tasks once each and after all map
tasks, and `done` is the completion of the last. `Refinement` maps completed tasks to it.

### `ReplicatedLog`

What a service sees of its Raft group, and no more: a log, term, role, `commitIndex` and
`lastApplied` per server, and `committed`, what majorities hold. `Elect` is a whole election,
`Replicate` a round of `AppendEntries` with its retries, `AppendToLog` is `Start`, `ApplyNext` the
`applier`. Three facts of Raft are built in, and `Raft` is where they are examined: whoever is
elected has `committed` in its log (`ElectableHoldsCommitted`), terms have one leader
(`OneLeaderPerTerm`), and a follower's log becomes its leader's (`LogMatching`). Under `KVRaft` the Raft is
`raft-Lab2D`, for which `Lab2D` examines them: there they hold until a ticker is out of step, and what `KVRaft` shows
supposes as much. A leader that has been
replaced goes on believing in itself until it votes or hears of the new term. Servers outside
`Server` may exist: they vote and store, so two modelled servers are two of a group of three. The
stale `GetState` in `Start` is left to `Raft`.

### `ShardBalance`, `ShardConfigs`

`ShardBalance` has `executeJoin`, `executeLeave`, `executeMove`, `executeQuery` and
`shardLoadBalance` as operators on a configuration (number, shards, set of group ids). The order in
which Go walks the map of groups is an argument. The bubble sort is a fold over the places it
visits, so a comparison that is not a total order shows. `ShardConfigs` is the machine that
applies them in any sequence, numbers left out, so that its states are all configurations
that can be reached, however many steps it takes; its properties compare `shardLoadBalance` for
every next set of groups and every order with all balanced assignments.

### `ShardMaster`

The servers of a shard master and their clerks, over `ReplicatedLog` and `ShardBalance`. A clerk
works on one call at a time, so the RPC handler of that call is in the clerk's record: `pc`
(`call`, `start`, `create`, `wait`), server, index, content of its channel. The critical sections
of a handler are actions: `EnterHandler` (session check), `Start`, `createNotifyCh`, and
`Receive` or `Timeout` (the select); `closeNotifyCh` runs later in goroutines counted by index in
`closing`. `applyConfigChange` is one action with its session check, execution, session update
and notification. `Restart` is `Kill` and `StartServer`. Restarts, lost calls, lost answers and
timeouts that come although an answer may come share the bound `MaxTroubles`; a timeout is free when
no answer can come (`Hopeless`). `ran`, `seen`, `doubtful`, and `floor`, `got`, `shared` of a clerk, are
history.

`MCRaft` and `MCLab2D` add symmetry sets, the other `MC` modules the scripts of clerks, the kinds of
entries and the configurations. `RaftProofs` (types, elections, then logs),
`SnapshotsProofs`, `MapReduceProofs`, `ShardMasterProofs`, `ShardKVProofs`, `KVRaftProofs`, `Lab2DProofs` and
`LabRPCProofs` hold the proofs. The last has those of `ElectionWait` too, whose definitions of the usual names are called
`ElectionInit`, `ElectionNext` and so on, so that one module can extend both.

## 3. Runs

| run | instance | shows |
|---|---|---|
| `raft` | 3 servers, no gap open, 3 terms, 3 elections, 2 rounds of AppendEntries, logs of 2, 1 crash, at most 5 events in all | log matching, agreement on committed entries and their keeping, `matchIndex` never ahead of a follower, one leader per term, nobody electable without a committed entry, the back-off's slice accesses, however requests and replies are reordered |
| `raft_gaps` | 3 servers, all gaps open, 2 terms, 2 elections, 1 round, 1 entry, 1 crash, at most 6 events | one vote per term and server; one tally per term |
| `election_wait` | 1 peer, 3 terms, 1 message heard | no wake-up of a waiter is lost; the server campaigns until it leads |
| `snapshots` | leader and follower, 2 commands, a tail of 1, 3 rounds, 1 restart | state machine and disk are exactly the log up to their index; positions in the log and `matchIndex` are sound; nothing handed over is passed over |
| `mapreduce` | 3 workers, 2 map and 2 reduce tasks, 1 crash | inputs, outputs, refinement; the job finishes and workers leave |
| `shards` | 3 shards, 4 groups, all reachable configurations | the result is balanced and no balanced assignment moves fewer shards; the order of the map does not show |
| `shardmaster` | 2 servers, a clerk with a Join of two groups and one with a Query of the latest, 2 terms, logs of 2, 1 trouble | committed entries agree; what was acknowledged is kept, unless its index was given out twice; a Query is as new as anything told before; each request runs once per server; servers' configurations agree |
| `shardkv` | a group of 1 and a group of 2 servers, 2 shards, of which one moves, a clerk with Put, Append and Get, 1 trouble | one group serves the shard; its data is kept; the clerk reads what it wrote; clerks and hand-overs come to an end |
| `kvraft` | 2 servers, an Append and a Get, 2 terms, logs of 2, 1 trouble | stores and snapshots are what the log says; what was acknowledged is kept; a Get sees what was acknowledged before it |
| `kvraft_overtaken` | 2 servers, a Put and an Append, 1 term, no trouble | **violated**: the apply loop goes on |
| `lab2d` | 3 servers, 2 of which campaign, 2 terms, 2 commands, 2 messages under way, 2 rounds or restarts | until a ticker is out of step: one leader per term; the same commands are applied everywhere; what counts as committed is on the disks of a majority; nothing is committed, applied or sent beyond a log, and snapshots fit the logs |
| `labrpc` | 2 servers, 1 call, 5 things the test does, 2 crashes | a positive answer survives a crash; a crashed instance reaches nobody; calls return |

Why the bounds are enough. In Raft three servers are the smallest group in which a majority can
exclude one. Two terms are what a conflict between leaders needs, three what a
leader needs to lose its office and be followed by two others; two entries what a follower needs
to hold a suffix that must be repaired; two rounds let a request or its reply overtake
another; one crash may fall between any two steps. An event is an election, a round, a half crash
or an entry of the longest log: five let any of these be combined with two or three others, as two elections with an
entry and two rounds, or three elections with two entries. `election_wait` needs
three terms because a leader of term 1 hears term 2 and campaigns in term 3; one peer is enough since
its answer may be a grant, a refusal, a failure or a higher term. In `snapshots` three rounds let
entries, a snapshot and an older answer be under way at once, and the tail of an older term is
there to be cut or overwritten. Two tasks of each kind and three
workers let a slow worker's report meet a task given to another. Two servers over `ReplicatedLog` are
two of three: the other may outvote them. In a log of two, a request can be
there twice. Three shards over two groups leave a
remainder, over four they leave a group without shards, and Moves lead to every assignment.
In `shardkv` one trouble anywhere (an election, a restart, a lost call or answer, an early timeout, a
late channel, a repeated proposal) meets every step of a hand-over; the first configuration
and the clerk's Put are behind it at the start. In `lab2d` a server that only votes is enough beside two that campaign, and a
restart of any server may take the place of a round. Its states end where a ticker gets out of step (`InStep`), as the
invariants say nothing beyond. Its `VIEW` leaves out what no later step of such a behaviour depends on: what a ticker will
do nothing with, the `nextIndex` of those who do not lead, the term and vote on the disk of a server that will not be
started again, and `ballots`. Each property has a mutant, a plausible slip in one
mapped definition, under which the same run finds it violated.

`TypeOK` of each module says what its variables hold. Those of `Raft`, `Snapshots` and `MapReduce` are proved
for every instance (section 4); no run repeats them.

Deadlock is checked in `ShardConfigs` alone, which has no bound and never stops: the bounds end every
run of the others, and a finished MapReduce job stops.

Fairness. `ElectionWait`: goroutines run, an armed timer fires, a call returns (`labrpc` gives
every call an answer or a failure after at most some seconds, `CallsReturn`); nothing is asked of other
servers. `MapReduce`: processes run, the script's loop starts workers while the master is there, ten
seconds pass, `mrmaster` polls `Done()`; crashes and late reports are unconstrained.
`ShardKV`: the shard master publishes; every clerk goes on; a group without a leader elects one
(`CampaignsAgain`, with timeouts that differ); and as long as some server can take a step of a kind
(apply, take over a configuration, pull, give, step down or add an empty entry), some server does.
Troubles are bounded and not fair, so this supposes that in the end calls get through and a leader
stays. `LabRPC`: the goroutines and timers of the network run, handlers of servers that are not killed
return, and the harness completes a crash it has begun. `ShardMaster`: as long as a goroutine of a
clerk or server can run, or a leader's rounds can bring something, one of these happens (`Progress`);
elections and troubles are asked for by nobody, and `AllServed` supposes that in the end some leader
stays the newest.

### What the code does not keep

`kvraft_overtaken`: `applyLog` of `raft-Lab2D` takes entries out of the log and sends them after
unlocking. A snapshot installed meanwhile sets `lastIncludeIndex` past them, and the next of them makes
`applyMsgHandlerLoop` return (`kvraft/server.go:249`) where the comment above it says that it is to be
skipped. The server applies nothing any more.

Further configurations have a counterexample each to something the code or its comments suppose.
They are not among the runs; `tlc -config X.cfg M` shows the behaviour.

| configuration | violated | what happens |
|---|---|---|
| `MCRaft_preempted_office` | `OneLeaderPerTerm` | the gap before `Convert2Leader` is open: the majority counted in `RunForElection` is acted on without looking again (`raft.go:516`), in a term in which another is elected |
| `MCRaft_preempted_start` | `StartOnlyOnLeader` | the gap in `Start` is open: it appends after a stale `GetState` (`raft.go:1153`) |
| `MCShardMaster_index_reused` | `EveryAckKept` | a server leads, is overwritten and leads again while a handler waits: the handler finds its answer by log index alone (`shardmaster/server.go:91`) and reports the younger request's success as its own |
| `MCShardKV_gap` | `OneChangeAtATime` | `updateConfigReady` and the reading of the current configuration are two critical sections (`shardkv/server.go:577`): a configuration applied in between lets the next be entered while shards still move |
| `MCShardKV_append` | `Settles` | an Append that makes its key answers `ErrNoKey` (`shardkv/server.go:336`), for ever from the session; the clerk's `PutAppend` returns on `OK` only |
| `MCSnapshots_foreign` | `HandedOver` | the first command after an installed snapshot is for a shard not owned: `executeClientCmd` returns before its bookkeeping (`shardkv/server.go:289`), and every later command looks out of place |
| `MCSnapshots_standoff` | `NoStandOff` | a second snapshot is installed before the service has cleared the flag of the first: `CondInstallSnap` holds `rf.mu` and waits for the service (`raft.go:1227`), the service waits for `rf.mu` |
| `MCLab2D_ticker` | `NoSecondLeader` | the ticker of a candidate compares terms without the lock (`raft-Lab2D/raft.go:688`, `>=`), and `ConvertToFollower` (690) later clears a vote that the server has given in the meantime, or takes it back to an earlier term; likewise a goroutine of line 734 asks again in a later campaign. Two servers lead in one term |
| `MCLab2D_old_snapshot` | `NoPanic` | a restart sets `commitIndex` to 0, and a snapshot older than the one on disk passes the test at `raft-Lab2D/raft.go:1098`: `copy` at 1127 is out of range and the server panics |

With the window `label` of `Snapshots` open `StateExact` is violated, with `recovery` open `HandedOver`.
The preemptions of Raft, and these two, need a goroutine to be held up between adjacent lines. The
model of the shard master has no clock; in the program both elections must happen within the handler's
500 ms, or while its goroutine is held up between `Start` and `createNotifyCh`.
The ticker of `raft-Lab2D` has its window between a `select` and a call in the next line, but a mutex that others
hold is enough to keep it open; and as the handler has released the lock by the time the ticker is woken, a
`RequestVote` of the same term need only be served first.
`MCShardMaster_served` shows that with one clerk, a Join and a Leave, `AllServed` holds: a Query whose
entry is applied before its channel is made times out and leaves no session, so nothing but chance
keeps that from happening again, while a change is answered from its session on the next try. The
waiter of an election that has been given up is woken by nobody, though the comment at `raft.go:505`
expects it to stop; it holds no lock, and `CampaignsAgain` shows that later elections do not need it.

## 4. Proofs

All theorems hold for every finite set of servers, every set of workers or calls and every value of the
bounds. They rest on the named assumptions of the modules: finite groups, natural bounds, at least one
shard, scripts that clerks can ask, in `ShardKV` a first configuration in which every shard has a group, as the first
Join makes it (`ConfigAssumption`).
What a theorem supposes beyond that is its hypothesis, and is named below with the reason.

* `RaftProofs!TypeCorrect`: `Spec => []TypeOK`. `TypeOK` is not inductive by itself: a leader
  indexes `nextIndex` and `matchIndex`, which are empty before its first term; `LeaderReady`
  says that whoever leads, or has a `LeaderAppendEntries` under way, has them.
* `RaftProofs`, elections: the inductive invariant `ElectionInv` says that the disk holds the
  current term and vote (`DiskCurrent`), that a server's vote in its term is the one it has cast
  and no vote is from a later term (`VotesRemembered`), that votes are unique (`VoteOnce`), that
  grants on the network are votes cast (`GrantsCast`), that a run's own vote is cast
  (`CandidatesCast`), and that whoever counted a majority has one among the votes
  (`WinnersElected`). From it `VotesOnce`, `TalliesUnique` (two majorities share a voter) and,
  if the gap before `Convert2Leader` is closed, `LeadersUnique`, for which `OfficeInTerm` says
  that an office is taken in the term campaigned for. `MCRaft_preempted_office.cfg` shows that
  the hypothesis is needed.
* `RaftProofs`, logs: `LogsMatchAlways`, `StateMachinesSafe`, `MatchIndexTrue`, `LeaderIndexesSafe`,
  `ElectableHoldAll` and `CommitsNeverLost`. Their hypothesis `GapsClosed` says that nobody is held up
  before `Convert2Leader`, in `Start` or in `LeaderAppendEntries`; the other two gaps may be open. Without
  the first two the properties are false (section 3); the run `raft` has them closed too. The
  invariant `LogInv` measures every log by `leaderLog`: an entry of term t was first in the
  log of t's leader, and whoever holds it holds what precedes it there (`LeaderLogs`, `ServerLogs`). An
  entry is `Chosen` once a majority has acknowledged it in its term. `AckedHeld` and `AckedKept` say
  what became of what was acknowledged, `LaterLeaders` that leaders of later terms hold what is chosen or
  may still be, `VotersOutdone` that a voter had acknowledged nothing that its candidate lacks. Of two
  majorities one server acknowledged and voted, and the comparison of logs in `RequestVote` does
  the rest. `MessagesSound` and `ServersSound` connect requests, replies, `nextIndex`,
  `matchIndex`, `commitIndex` and the disk with that.
* `LabRPCProofs`, `ElectionWait`: `WakeUpsArrive`, for any number of peers. While `RunForElection` sleeps although its
  election is decided, the goroutine that counted last has not yet called `Broadcast`.
* `SnapshotsProofs`: `PositionsExist` and `TypeCorrect` whatever windows are open: nothing on its way to the
  service, in it or back is past `commit`, and a log is cut only where there is a snapshot. `StateIsExact`
  with the windows closed (`WindowsClosed`; with `label` open it is false), and `EverythingHandedOver` if moreover no
  entry is for a shard of another group (`AllOwned`; otherwise it is false, `MCSnapshots_foreign`). The
  invariant `ExactInv` says what `logLastApplied` and `lastApplied` are to each other while a command,
  a snapshot, both or neither are on their way (`CountsMeet`), that no snapshot is made while one
  waits to be installed (`SnapshotsWait`), and that where Raft would jump over entries the
  service has them (`JumpsCovered`).
* `MapReduceProofs`: `Inv` says that what a worker has behind it exists as files (`WorkDone`),
  that the files of completed tasks exist (`FilesOfCompleted`), that the flags are up only when
  the tasks are completed (`FlagsSound`) and that the master exits only then (`MasterSound`).
  From it `ReducersFindInputs`, `OutputsComplete`, `NothingTakenBack`, `LeavesWhenDone` and
  `Implements`, the refinement of `MapReduceJob`.
* `ShardMasterProofs`: `LogInv` says that leaders have different terms
  (`TermsUnique`), that terms in logs are not from the future (`EntryTerms`), that a leader has what
  servers of its term or an earlier one take for committed (`LeadersHold`), and that the newest
  leader has all of `committed` and has itself committed what is of its own term (`NewestHolds`): without
  the last, a leader could commit an entry other than one committed before. From it `LogsAgree`.
  `ClerkOK` says that requests have numbers, and `RunsOK` that a clerk's session is at or past each
  of its requests that was run, so that none runs twice: `RequestsRunOnce`. `AckInv` follows a
  request from its index: if the handler's server leads and the entry there is of
  its present term, that entry is the handler's own (`ToldTrue`), and a session remembers only what is committed: `AcksKept`.
  `NewsInv` numbers configurations by the changes in the log (`ServerTrue`), so that a Query
  committed after a change sees it: `QueriesNew`. `MadeInv` says that a server's configurations
  are those of the changes it has applied, in the order of the log: `ServersAgree`. This one supposes
  `BalanceSettled`: what `shardLoadBalance` returns is an assignment and does not depend on the order in which
  it met the groups. `OrderIrrelevant` and `FewestMoves` of the run `shards` check that in every configuration that can be
  reached with 3 shards and 4 groups; `BalanceSettled` asks it of all assignments, reached or not, and TLC evaluates it to
  true for the same numbers. It is no `ASSUME` of a module: a balancer that lets the order show should
  be caught by `ConfigsAgree`, as the mutant of that property is.
* `KVRaftProofs`: `LogInv` is that of the shard master with what a snapshot covers counted as known
  (`Known`, `KnownAgree`). `PathInv` says that what waits in `batch`, the channel and `install` carries on where the
  store is, or has been overtaken as a whole by a snapshot (`Pending`, `Position`). `ClerkInv` says that what returned is
  committed, in the order of its clerk (`ReturnedHeld`, `InOrder`), and that a channel brings only what the server has
  executed (`ChannelsReal`); `StoreInv` that sessions and values, of stores and snapshots, hold the writes of
  the log up to where they are (`StoreTrue`), except those that a Put may have replaced. From these `AcksKept` and `GetsNew`.
  `StoresExact` says all of it: stores and snapshots are the `Replay` of the log up to where they are, each request executed
  the first time only.
* `LabRPCProofs`, the network: `RepliesKept` and `DeadAreSilent`. `Inv` says that the network knows only the newest
  instance of a server and enables only its ends (`ServersNewest`, `EndsNewest`), and of each call that a handler runs on an
  instance there has been, that a call made by a dead instance reached nobody, and that what a
  handler has persisted is in the harness's `saved`, unless its instance had been cut off before it wrote, when its
  answer is not delivered either (`CallInv`).
* `Lab2DProofs`. Every property here is about behaviours in which no ticker has got out of step: it has the form
  `outOfStep \/ ...`, and the invariants are `outOfStep \/ Inv` and `outOfStep \/ LogInv`. The hypothesis cannot be dropped:
  `MCLab2D_ticker` shows two leaders in one term. What the ticker adds to the invariant is `YetToAsk`: the campaign whose
  goroutine has still to run has asked nobody yet, and none is from a later term than the server's. A step of a ticker then
  either changes nothing that the rest of the invariant speaks of, or sets `outOfStep` (`StaysOut`: for good).
* `Lab2DProofs`, elections: `LeadersUnique`. A candidate's term and vote may be lost in a crash, and a leader's heartbeat
  makes a candidate forget its vote, so that votes for oneself are not unique. `VotesKept` says that votes
  for others are on disk and unique, `OfficesKept` that who was elected has its office on disk and a majority behind it, `AskedOnce`
  that a server waits for at most one answer of each other in a term, and `CountsTrue` that a
  candidate's count is of servers that voted for it and from which it expects nothing any more.
* `Lab2DProofs`, logs: `StatesSafe`, `CommitsOnDisk` and `PositionsSafe`, under the same condition. What a state of
  `raft-Lab2D` says of the past is incomplete: logs are cut at snapshots, memory is ahead of the disk (`Start` and
  `ConvertToCandidate` do not persist), and a crash takes memory back. So `LogInv` says that there is a history `h`
  of which the state is a part: the whole log of each server as memory has it (`h.log`) and as the disk has it (`h.saved`), the log of the
  leader of each term (`h.led`), how much of it each server has acknowledged (`h.acked`), the terms on disk, the offices, and the
  committed entries (`h.sure`). `Core` relates these as `LogInv` of `RaftProofs` does: an acknowledged prefix is in
  memory and on disk (`AckedHeld`), since `persist` comes before the reply, and stays there as long as no later leader has
  thrown it away (`AckedKept`); whoever leads later has what was chosen (`LaterLeaders`). `ServerFits` and `MessageFits` connect it with the
  code's variables: a cut log is what remains of the whole one, a snapshot is a prefix of `h.sure`, a vote still waited for
  came from a server that had acknowledged nothing the candidate lacks (`Outdone`). Each action extends the history (`Grows`), and the
  proof of a step gives the new one: `Appends`, `Keeping`, `Forgets` and so on. A weaker history would not do: an
  invariant over what logs, snapshots and disks hold at present cannot say what the entries below a snapshot were.

* `ShardKVProofs`, owners: `OwnersUnique`, for any number of groups, servers, shards, configurations and clerks. The invariant `OwnInv` speaks of what
  each group has agreed on (`Agreed`, the replay of what is committed), of everything a server has executed
  (`Past`), of the entries of logs (`Logs`) and of what goroutines have fetched (`Tasks`). `World` says that a group has of
  its shards what its configuration and the one before make of them (`Shaped`), that who
  took a shard took it from a former owner that had come to the same configuration and so had closed it (`Sources`), and that what
  was given away somebody has taken (`Given`). A shard comes into service by one configuration after another
  (`DoneBelow`), so two groups that have it have it by the same one (`OneNewest`).
* `ShardKVProofs`, data: `DataSafe` and `GetsSafe`. `Facts` measures a shard at the group that has it by the newest configuration it came to: it
  has there what the clerk's commands left, and the session knows the commands that are in it (`Fresh`); no session knows of a
  write that is not there (`Told`); a copy on its way, in a goroutine, an entry or an old state of the former owner, is
  good until the new owner has the shard (`Copy`). With that a retry is executed where the session does not know it, and
  nowhere else, and what `AckReceiveShard` lets a group delete another has.
* The hypotheses of these three. `OneChangeAtATime` says that a group enters a configuration when the one before is settled.
  The code means it (`server.go:570`) and does not guarantee it (`MCShardKV_gap`). `GapOnly` says that the window between
  `updateConfigReady` and the reading of `curConfig` is all that is wrong: if whoever found the group ready still finds it so when it
  proposes (`ReadyKept`), the property holds. `TwoConfigsSafe` needs no hypothesis: the first configuration
  moves no shard. `PrivateKeys`: `DataKept` and `GetsExact` compare what is stored with one clerk's own
  writes, which says nothing where another writes the same key. `IndexesOwn`: at the index where a clerk's handler waits
  there is no command of another clerk proposed in the term in which the server leads. A leader that loses an entry with its office, and is
  elected again, may put another command there, and the code has one channel per index (`server.go:105-111`) and compares
  nothing; what becomes of that is checked in `ShardMaster` (`MCShardMaster_index_reused`), whose code is the same. With one clerk
  (`OneClerk`) neither has to be supposed: `OneClerkSafe`, and the second half of `TwoConfigsSafe`, whose hypotheses the run `shardkv` meets.

Only model-checked:

* What is temporal beyond safety (`JobFinishes`, `WorkersLeave`, `CampaignsAgain`, `Settles`, `CallsReturn`,
  `AllServed`): liveness under fairness and `ENABLED` are out of reach of the backends here.
* `FewestMoves` and `OrderIrrelevant` of `ShardConfigs`: they compare the result of nested folds with every other
  assignment. A fold over a set or a sequence of the community modules is defined with an operator parameter and a recursion
  that no installed prover can unfold. Where a replay is written as a recursive function on `0 .. n`, as `Replay` of
  `KVRaft` and of `ShardKV` is, it can be unfolded, and induction over its argument is possible without the library's rule: a set of numbers on which a claim
  fails has a least element (`NatLessThanWellFounded`, `WFMin`). `StoresExact` and all of `ShardKVProofs` are proved that way.

## 5. Not modelled

* `labgob`, `porcupine`, `models`, the MapReduce applications, and of the test harnesses everything but
  `crash1`, `start1`, `connect` and `disconnect`: encoding, a checker of histories, and code that asks questions
  and compares answers. They keep no state the system depends on.
* `raft-Lab2ABC` is `raft-Lab2D` before snapshots were added, nothing imports it, and `Lab2D` has what
  it does; `raft-Lab2D/trySnapShot.go` is commented out from end to end.
* Of the channels of `raft-Lab2D`'s ticker, `Lab2D` keeps the newest reply in `appendEntriesChan` (one that waits before it is of an
  earlier or the same term). `voteMsgChan` and `LeaderMsgChan` only wake the ticker, and a timeout may come at any
  time. Handlers send on channels of fixed length with `rf.mu` held (`raft.go:907` there), which may block when they are full; that is
  not covered.
* A service's handler that its clerk no longer waits for, on a server that has been disconnected but not killed: in `ShardMaster`,
  `KVRaft` and `ShardKV` the handler belongs to its clerk's record and ends with the call, whereas in the program it may still reach
  `Start` later, and put the request into the log of a server that takes itself for the leader.
* A crash between the two writes of a snapshot to the `Persister` (`raft/raft.go:1026-1027`): `Snapshots` does both at
  once.
* In `ShardKV` no run has configurations that give a shard to group 0, or take it from there, after the first. The model and its
  theorems cover them; the shard is then waited for for ever (`server.go:470`), which a theorem about safety does not see. What a handler
  does with an answer to another clerk's command at its index is modelled with the shard master, where the code is the same.
* Time. Timeouts may come at any moment at which the code waits.

## 6. Plan

1. `Raft` shown to implement `ReplicatedLog`, with the gaps closed.
