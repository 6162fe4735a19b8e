----------------------------- MODULE MapReduce ------------------------------
(***************************************************************************)
(* src/mr: the master's task table (master.go), its RPC handlers GetTask   *)
(* and ReportTask, and the workers (worker.go) that write intermediate and *)
(* output files.  A handler holds m.mu throughout and is one action; a     *)
(* worker is stopped between any two of its file operations.  Map and      *)
(* reduce functions are deterministic, so a file is its name.  Temporary   *)
(* files are left out: a file appears under its name by an atomic rename.  *)
(***************************************************************************)
EXTENDS Naturals

CONSTANTS
    Worker,
    NMap,       \* len(files)
    NReduce,
    MaxCrashes  \* bound: worker processes that die

ASSUME TaskAssumption == NMap \in Nat \ {0} /\ NReduce \in Nat \ {0}
ASSUME CrashAssumption == MaxCrashes \in Nat

VARIABLES
    mapTasks, reduceTasks,      \* Status of each Task
    mapFinished, allFinished,
    lateMaps, lateReduces,      \* tasks whose Start is more than 10 s ago
    masterUp,                   \* the master process has not returned from main
    files,                      \* <<m, r>>: mr-m-r exists
    outputs,                    \* r: mr-out-r exists
    worker,                     \* what each worker process is doing
    crashes

taskVars == <<mapTasks, reduceTasks, mapFinished, allFinished, lateMaps, lateReduces>>
fileVars == <<files, outputs>>
vars == <<taskVars, masterUp, fileVars, worker, crashes>>

MapTask == 0 .. NMap - 1
ReduceTask == 0 .. NReduce - 1
Status == {"idle", "in-progress", "completed"}

\* A worker process: waiting to call GetTask, in doMap or doReduce of a task with the
\* first pos files handled, about to report, or no process at all.
Doing(job, task, pos) == [job |-> job, task |-> task, pos |-> pos]
Asking == Doing("ask", 0, 0)
Gone == Doing("gone", 0, 0)

-----------------------------------------------------------------------------
\* Variants of the definitions below with one plausible mistake each.
TimedOut_Never(tasks, late) == tasks
AllCompleted_NoneIdle(tasks) == \A i \in DOMAIN tasks : tasks[i] # "idle"

\* checkTimeOut: a task in progress for more than 10 s is handed out again.
TimedOut(tasks, late) ==
    [i \in DOMAIN tasks |-> IF tasks[i] = "in-progress" /\ i \in late THEN "idle" ELSE tasks[i]]

AllCompleted(tasks) == \A i \in DOMAIN tasks : tasks[i] = "completed"

\* The loop of doMap over its buckets.
MoreBuckets(pos) == pos < NReduce

IsFirstIdle(tasks, i) ==
    tasks[i] = "idle" /\ \A j \in DOMAIN tasks : tasks[j] = "idle" => i <= j

Init ==
    /\ mapTasks = [i \in MapTask |-> "idle"]
    /\ reduceTasks = [i \in ReduceTask |-> "idle"]
    /\ mapFinished = FALSE /\ allFinished = FALSE
    /\ lateMaps = {} /\ lateReduces = {}
    /\ masterUp = TRUE
    /\ files = {} /\ outputs = {}
    /\ worker = [w \in Worker |-> Asking]
    /\ crashes = 0

-----------------------------------------------------------------------------
(* The master. *)

\* GetTask as worker w sees it: time out, then hand out the first idle task of the phase,
\* or tell w to wait, or to exit.  A waiting worker calls again.
GetTask(w) ==
    LET maps    == IF mapFinished THEN mapTasks ELSE TimedOut(mapTasks, lateMaps)
        reduces == TimedOut(reduceTasks, lateReduces)
    IN  /\ masterUp /\ worker[w] = Asking
        /\ mapFinished' = (mapFinished \/ AllCompleted(mapTasks))
        /\ allFinished' = AllCompleted(reduceTasks)
        /\ \/ /\ allFinished'
              /\ worker' = [worker EXCEPT ![w] = Gone]
              /\ mapTasks' = maps /\ reduceTasks' = reduces
           \/ /\ ~allFinished' /\ ~mapFinished'
              /\ \E i \in MapTask :
                    /\ IsFirstIdle(maps, i)
                    /\ mapTasks' = [maps EXCEPT ![i] = "in-progress"]
                    /\ worker' = [worker EXCEPT ![w] = Doing("map", i, 0)]
              /\ reduceTasks' = reduces
           \/ /\ ~allFinished' /\ mapFinished'
              /\ \E i \in ReduceTask :
                    /\ IsFirstIdle(reduces, i)
                    /\ reduceTasks' = [reduces EXCEPT ![i] = "in-progress"]
                    /\ worker' = [worker EXCEPT ![w] = Doing("reduce", i, 0)]
              /\ mapTasks' = maps
           \/ /\ ~allFinished'
              /\ IF mapFinished' THEN \A i \in ReduceTask : reduces[i] # "idle"
                                 ELSE \A i \in MapTask : maps[i] # "idle"
              /\ mapTasks' = maps /\ reduceTasks' = reduces
              /\ UNCHANGED worker
        /\ lateMaps' = IF mapFinished THEN lateMaps ELSE {}
        /\ lateReduces' = {}
        /\ UNCHANGED <<masterUp, fileVars, crashes>>

\* ReportTask, called by w: it looks at the task's status only, not at who reports.
ReportTask(w) ==
    LET i == worker[w].task IN
    /\ masterUp
    /\ \/ /\ worker[w].job = "map reported"
          /\ \/ /\ mapTasks[i] = "in-progress"
                /\ mapTasks' = [mapTasks EXCEPT ![i] = "completed"]
                /\ mapFinished' = AllCompleted(mapTasks')
             \/ /\ mapTasks[i] # "in-progress"
                /\ UNCHANGED <<mapTasks, mapFinished>>
          /\ UNCHANGED <<reduceTasks, allFinished>>
       \/ /\ worker[w].job = "reduce reported"
          /\ \/ /\ reduceTasks[i] = "in-progress"
                /\ reduceTasks' = [reduceTasks EXCEPT ![i] = "completed"]
                /\ allFinished' = AllCompleted(reduceTasks')
             \/ /\ reduceTasks[i] # "in-progress"
                /\ UNCHANGED <<reduceTasks, allFinished>>
          /\ UNCHANGED <<mapTasks, mapFinished>>
    /\ worker' = [worker EXCEPT ![w] = Asking]
    /\ UNCHANGED <<lateMaps, lateReduces, masterUp, fileVars, crashes>>

\* Ten seconds pass since the Start of a task in progress.
ExpireMap(i) ==
    /\ mapTasks[i] = "in-progress" /\ i \notin lateMaps
    /\ lateMaps' = lateMaps \cup {i}
    /\ UNCHANGED <<mapTasks, reduceTasks, mapFinished, allFinished, lateReduces, masterUp,
                   fileVars, worker, crashes>>

ExpireReduce(i) ==
    /\ reduceTasks[i] = "in-progress" /\ i \notin lateReduces
    /\ lateReduces' = lateReduces \cup {i}
    /\ UNCHANGED <<mapTasks, reduceTasks, mapFinished, allFinished, lateMaps, masterUp,
                   fileVars, worker, crashes>>

\* mrmaster's loop sees Done() and returns.  It reads allFinished without the lock: it may
\* see the change late.
MasterExit ==
    /\ masterUp /\ allFinished
    /\ masterUp' = FALSE
    /\ UNCHANGED <<taskVars, fileVars, worker, crashes>>

-----------------------------------------------------------------------------
(* A worker. *)

\* doMap renames its buckets to mr-m-0, mr-m-1, ... and then reports.
DoMap(w) ==
    LET p == worker[w] IN
    /\ p.job = "map"
    /\ \/ /\ MoreBuckets(p.pos)
          /\ files' = files \cup {<<p.task, p.pos>>}
          /\ worker' = [worker EXCEPT ![w] = Doing("map", p.task, p.pos + 1)]
       \/ /\ ~MoreBuckets(p.pos)
          /\ worker' = [worker EXCEPT ![w] = Doing("map reported", p.task, 0)]
          /\ UNCHANGED files
    /\ UNCHANGED <<taskVars, masterUp, outputs, crashes>>

\* doReduce opens mr-0-r, mr-1-r, ..., a missing one ends the process; it renames its
\* result to mr-out-r and then reports.
DoReduce(w) ==
    LET p == worker[w] IN
    /\ p.job = "reduce"
    /\ \/ /\ p.pos < NMap
          /\ worker' = [worker EXCEPT ![w] = IF <<p.pos, p.task>> \in files
                                             THEN Doing("reduce", p.task, p.pos + 1) ELSE Gone]
          /\ UNCHANGED outputs
       \/ /\ p.pos = NMap
          /\ outputs' = outputs \cup {p.task}
          /\ worker' = [worker EXCEPT ![w] = Doing("reduce reported", p.task, 0)]
    /\ UNCHANGED <<taskVars, masterUp, files, crashes>>

\* call() can not dial a master that has returned.
Leave(w) ==
    /\ ~masterUp
    /\ worker[w].job \in {"ask", "map reported", "reduce reported"}
    /\ worker' = [worker EXCEPT ![w] = Gone]
    /\ UNCHANGED <<taskVars, masterUp, fileVars, crashes>>

\* The process dies (mrapps/crash.go), and test-mr.sh starts another while the master
\* is there.
Crash(w) ==
    /\ worker[w] # Gone /\ crashes < MaxCrashes
    /\ worker' = [worker EXCEPT ![w] = Gone]
    /\ crashes' = crashes + 1
    /\ UNCHANGED <<taskVars, masterUp, fileVars>>

StartWorker(w) ==
    /\ worker[w] = Gone /\ masterUp
    /\ worker' = [worker EXCEPT ![w] = Asking]
    /\ UNCHANGED <<taskVars, masterUp, fileVars, crashes>>

WorkerStep(w) == GetTask(w) \/ DoMap(w) \/ DoReduce(w) \/ ReportTask(w) \/ Leave(w)

Next ==
    \/ \E w \in Worker :
          GetTask(w) \/ DoMap(w) \/ DoReduce(w) \/ ReportTask(w) \/ Leave(w)
             \/ Crash(w) \/ StartWorker(w)
    \/ \E i \in MapTask : ExpireMap(i)
    \/ \E i \in ReduceTask : ExpireReduce(i)
    \/ MasterExit

\* Processes run, the script's loop starts workers, time passes, mrmaster polls Done().
Fairness ==
    /\ \A w \in Worker : WF_vars(WorkerStep(w)) /\ WF_vars(StartWorker(w))
    /\ \A i \in MapTask : WF_vars(ExpireMap(i))
    /\ \A i \in ReduceTask : WF_vars(ExpireReduce(i))
    /\ WF_vars(MasterExit)

Spec == Init /\ [][Next]_vars
FairSpec == Spec /\ Fairness

-----------------------------------------------------------------------------
(* Properties. *)

Job == {"ask", "map", "map reported", "reduce", "reduce reported", "gone"}

\* The domains of the master's fields, of the file names and of a worker's locals.
TypeOK ==
    /\ mapTasks \in [MapTask -> Status] /\ reduceTasks \in [ReduceTask -> Status]
    /\ mapFinished \in BOOLEAN /\ allFinished \in BOOLEAN /\ masterUp \in BOOLEAN
    /\ lateMaps \subseteq MapTask /\ lateReduces \subseteq ReduceTask
    /\ files \subseteq MapTask \X ReduceTask /\ outputs \subseteq ReduceTask
    /\ worker \in [Worker -> [job : Job, task : Nat, pos : Nat]]
    /\ \A w \in Worker :
          /\ worker[w].job \in {"map", "map reported"} => worker[w].task \in MapTask
          /\ worker[w].job \in {"reduce", "reduce reported"} => worker[w].task \in ReduceTask
    /\ crashes \in 0 .. MaxCrashes

\* doReduce never finds an intermediate file missing, although the report that completed
\* a map task may come from a worker other than the one the task is assigned to.
InputsPresent ==
    \A w \in Worker : worker[w].job = "reduce" =>
        \A m \in MapTask : <<m, worker[w].task>> \in files

\* When Done() returns true every mr-out-r exists.
DoneMeansOutput == allFinished => outputs = ReduceTask

\* checkTimeOut and ReportTask recompute both flags and the statuses; none of it is ever
\* taken back, however late timeouts and reports come.
CompletedStays ==
    [][/\ \A i \in MapTask : mapTasks[i] = "completed" => mapTasks'[i] = "completed"
       /\ \A i \in ReduceTask : reduceTasks[i] = "completed" => reduceTasks'[i] = "completed"
       /\ mapFinished => mapFinished'
       /\ allFinished => allFinished']_vars

\* "workers are required to exit when a job is completely finished, and not before"
\* (main/test-mr.sh): a worker that does not crash leaves only then.
LeaveOnlyWhenDone ==
    [][\A w \in Worker : worker[w] # Gone /\ worker'[w] = Gone /\ crashes' = crashes =>
          outputs = ReduceTask /\ allFinished']_vars

\* The job is finished at last, although workers die with tasks in progress and reports of
\* tasks that were timed out are ignored.
JobFinishes == <>(allFinished /\ outputs = ReduceTask)

\* And then every worker leaves.
WorkersLeave == <>[](\A w \in Worker : worker[w] = Gone)

\* The master keeps its promise.
JobSpec == INSTANCE MapReduceJob WITH
    mapped <- {i \in MapTask : mapTasks[i] = "completed"},
    reduced <- {i \in ReduceTask : reduceTasks[i] = "completed"},
    done <- allFinished

Refinement == JobSpec!Spec
=============================================================================
