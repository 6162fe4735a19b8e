-------------------------- MODULE MapReduceProofs ---------------------------
(***************************************************************************)
(* Proofs about MapReduce for every number of workers, tasks and crashes.  *)
(***************************************************************************)
EXTENDS MapReduce, TLAPS

\* How far a worker is, in terms of the files it has made; where a reduce task is being
\* worked on, the map phase is over.
WorkDone ==
  \A w \in Worker :
     LET p == worker[w] IN
     /\ p.job = "map" => /\ p.pos <= NReduce
                         /\ \A r \in ReduceTask : r < p.pos => <<p.task, r>> \in files
     /\ p.job = "map reported" => \A r \in ReduceTask : <<p.task, r>> \in files
     /\ p.job = "reduce" => mapFinished /\ p.pos <= NMap
     /\ p.job = "reduce reported" => mapFinished /\ p.task \in outputs

\* The files of a completed task exist.
FilesOfCompleted ==
  /\ \A m \in MapTask : mapTasks[m] = "completed" => \A r \in ReduceTask : <<m, r>> \in files
  /\ \A r \in ReduceTask : reduceTasks[r] = "completed" => r \in outputs

\* The master's flags say what the statuses say.
FlagsSound ==
  /\ mapFinished => \A m \in MapTask : mapTasks[m] = "completed"
  /\ allFinished <=> \A r \in ReduceTask : reduceTasks[r] = "completed"

\* The master ends with the job done.
MasterSound == masterUp \/ allFinished

Inv == TypeOK /\ WorkDone /\ FilesOfCompleted /\ FlagsSound /\ MasterSound

\* checkTimeOut touches no completed task and leaves only statuses behind.
LEMMA TimedOutKeeps ==
  ASSUME NEW S, NEW tasks \in [S -> Status], NEW late
  PROVE  /\ TimedOut(tasks, late) \in [S -> Status]
         /\ \A i \in S : TimedOut(tasks, late)[i] = "completed" <=> tasks[i] = "completed"
  BY DEF TimedOut, Status

\* What GetTask does to the task table.
LEMMA GetTaskTable ==
  ASSUME Inv, NEW w \in Worker, GetTask(w)
  PROVE  /\ mapTasks' \in [MapTask -> Status] /\ reduceTasks' \in [ReduceTask -> Status]
         /\ \A i \in MapTask : mapTasks'[i] = "completed" <=> mapTasks[i] = "completed"
         /\ \A i \in ReduceTask : reduceTasks'[i] = "completed" <=> reduceTasks[i] = "completed"
         /\ allFinished' = allFinished
         /\ mapFinished => mapFinished'
         /\ mapFinished' => \A i \in MapTask : mapTasks[i] = "completed"
  <1> DEFINE maps == IF mapFinished THEN mapTasks ELSE TimedOut(mapTasks, lateMaps)
             reduces == TimedOut(reduceTasks, lateReduces)
  <1>1. mapTasks \in [MapTask -> Status] /\ reduceTasks \in [ReduceTask -> Status]
    BY DEF Inv, TypeOK
  <1>2. /\ maps \in [MapTask -> Status]
        /\ \A i \in MapTask : maps[i] = "completed" <=> mapTasks[i] = "completed"
    BY <1>1, TimedOutKeeps
  <1>3. /\ reduces \in [ReduceTask -> Status]
        /\ \A i \in ReduceTask : reduces[i] = "completed" <=> reduceTasks[i] = "completed"
    BY <1>1, TimedOutKeeps
  <1>4. \/ mapTasks' = maps
        \/ \E i \in MapTask : maps[i] = "idle" /\ mapTasks' = [maps EXCEPT ![i] = "in-progress"]
    BY DEF GetTask, IsFirstIdle
  <1>5. \/ reduceTasks' = reduces
        \/ \E i \in ReduceTask :
              reduces[i] = "idle" /\ reduceTasks' = [reduces EXCEPT ![i] = "in-progress"]
    BY DEF GetTask, IsFirstIdle
  <1>6. /\ mapFinished' = (mapFinished \/ AllCompleted(mapTasks))
        /\ allFinished' = AllCompleted(reduceTasks)
    BY DEF GetTask
  <1>7. allFinished \in BOOLEAN
    BY DEF Inv, TypeOK
  <1>8. /\ allFinished' = allFinished
        /\ mapFinished => mapFinished'
        /\ mapFinished' => \A i \in MapTask : mapTasks[i] = "completed"
    BY <1>1, <1>6, <1>7 DEF Inv, FlagsSound, AllCompleted
  <1> HIDE DEF maps, reduces
  <1>9. /\ mapTasks' \in [MapTask -> Status]
        /\ \A i \in MapTask : mapTasks'[i] = "completed" <=> mapTasks[i] = "completed"
    BY <1>2, <1>4 DEF Status
  <1>10. /\ reduceTasks' \in [ReduceTask -> Status]
         /\ \A i \in ReduceTask : reduceTasks'[i] = "completed" <=> reduceTasks[i] = "completed"
    BY <1>3, <1>5 DEF Status
  <1> QED BY <1>8, <1>9, <1>10

\* What GetTask makes of the worker that calls it.
LEMMA GetTaskWorker ==
  ASSUME Inv, NEW w \in Worker, GetTask(w)
  PROVE  \E p : /\ worker' = [worker EXCEPT ![w] = p]
                /\ \/ p = Asking
                   \/ p = Gone /\ allFinished'
                   \/ \E i \in MapTask : p = Doing("map", i, 0)
                   \/ mapFinished' /\ \E i \in ReduceTask : p = Doing("reduce", i, 0)
  <1>1. worker = [worker EXCEPT ![w] = Asking]
    BY DEF GetTask, Inv, TypeOK
  <1>2. CASE UNCHANGED worker
    BY <1>1, <1>2
  <1>3. CASE allFinished' /\ worker' = [worker EXCEPT ![w] = Gone]
    BY <1>3
  <1>4. CASE \E i \in MapTask : worker' = [worker EXCEPT ![w] = Doing("map", i, 0)]
    BY <1>4
  <1>5. CASE mapFinished' /\ \E i \in ReduceTask : worker' = [worker EXCEPT ![w] = Doing("reduce", i, 0)]
    BY <1>5
  <1> QED BY <1>2, <1>3, <1>4, <1>5 DEF GetTask

\* A step in which worker w moves on to p, files and flags only grow, completed tasks stay
\* completed: the parts of Inv about workers and files.
LEMMA WorkDoneStep ==
  ASSUME Inv, NEW w \in Worker, NEW p \in [job : Job, task : Nat, pos : Nat],
         worker' = [worker EXCEPT ![w] = p],
         files \subseteq files', outputs \subseteq outputs', mapFinished => mapFinished',
         p.job = "map" => /\ p.pos <= NReduce
                          /\ \A r \in ReduceTask : r < p.pos => <<p.task, r>> \in files',
         p.job = "map reported" => \A r \in ReduceTask : <<p.task, r>> \in files',
         p.job = "reduce" => mapFinished' /\ p.pos <= NMap,
         p.job = "reduce reported" => mapFinished' /\ p.task \in outputs'
  PROVE  WorkDone'
  <1> SUFFICES ASSUME NEW v \in Worker
               PROVE  LET q == worker'[v] IN
                      /\ q.job = "map" => /\ q.pos <= NReduce
                                          /\ \A r \in ReduceTask : r < q.pos => <<q.task, r>> \in files'
                      /\ q.job = "map reported" => \A r \in ReduceTask : <<q.task, r>> \in files'
                      /\ q.job = "reduce" => mapFinished' /\ q.pos <= NMap
                      /\ q.job = "reduce reported" => mapFinished' /\ q.task \in outputs'
    BY DEF WorkDone
  <1>1. CASE v = w
    <2>1. worker'[v] = p
      BY <1>1 DEF Inv, TypeOK
    <2> QED BY <2>1
  <1>2. CASE v # w
    <2>1. worker'[v] = worker[v]
      BY <1>2 DEF Inv, TypeOK
    <2> QED BY <2>1 DEF Inv, WorkDone
  <1> QED BY <1>1, <1>2

\* The same for the part of TypeOK about workers.
LEMMA WorkerTypeStep ==
  ASSUME TypeOK, NEW w \in Worker, NEW p \in [job : Job, task : Nat, pos : Nat],
         worker' = [worker EXCEPT ![w] = p],
         p.job \in {"map", "map reported"} => p.task \in MapTask,
         p.job \in {"reduce", "reduce reported"} => p.task \in ReduceTask
  PROVE  /\ worker' \in [Worker -> [job : Job, task : Nat, pos : Nat]]
         /\ \A v \in Worker :
               /\ worker'[v].job \in {"map", "map reported"} => worker'[v].task \in MapTask
               /\ worker'[v].job \in {"reduce", "reduce reported"} => worker'[v].task \in ReduceTask
  BY DEF TypeOK

\* A process that is gone or asks for a task is a worker state.
LEMMA GoneType ==
  /\ Gone \in [job : Job, task : Nat, pos : Nat] /\ Gone.job = "gone"
  /\ Asking \in [job : Job, task : Nat, pos : Nat] /\ Asking.job = "ask"
  BY DEF Gone, Asking, Doing, Job

\* Task numbers are natural numbers.
LEMMA TasksAreNat == MapTask \subseteq Nat /\ ReduceTask \subseteq Nat
  BY TaskAssumption DEF MapTask, ReduceTask

\* A process that ends, starts or waits changes nothing else that Inv speaks of.
LEMMA IdleWorkerStep ==
  ASSUME Inv, NEW w \in Worker, NEW p \in {Gone, Asking}, worker' = [worker EXCEPT ![w] = p],
         UNCHANGED <<taskVars, masterUp, fileVars>>, crashes' \in 0 .. MaxCrashes
  PROVE  Inv'
  <1>1. p \in [job : Job, task : Nat, pos : Nat] /\ p.job \in {"gone", "ask"}
    BY GoneType
  <1>2. WorkDone'
    BY <1>1, WorkDoneStep DEF taskVars, fileVars
  <1>3. TypeOK'
    <2>1. TypeOK
      BY DEF Inv
    <2> QED BY <1>1, <2>1, WorkerTypeStep DEF TypeOK, taskVars, fileVars
  <1>4. FilesOfCompleted' /\ FlagsSound' /\ MasterSound'
    BY DEF Inv, FilesOfCompleted, FlagsSound, MasterSound, taskVars, fileVars
  <1> QED BY <1>2, <1>3, <1>4 DEF Inv

\* GetTask keeps Inv: a task is handed out, or the worker waits or leaves.
LEMMA GetTaskStep ==
  ASSUME Inv, NEW w \in Worker, GetTask(w)
  PROVE  Inv'
  <1>1. PICK p : /\ worker' = [worker EXCEPT ![w] = p]
                 /\ \/ p = Asking
                    \/ p = Gone /\ allFinished'
                    \/ \E i \in MapTask : p = Doing("map", i, 0)
                    \/ mapFinished' /\ \E i \in ReduceTask : p = Doing("reduce", i, 0)
    BY GetTaskWorker
  <1>2. /\ p \in [job : Job, task : Nat, pos : Nat]
        /\ p.job \in {"ask", "gone", "map", "reduce"}
        /\ p.job \in {"map", "map reported"} => p.task \in MapTask
        /\ p.job \in {"reduce", "reduce reported"} => p.task \in ReduceTask
        /\ p.job = "map" => p.pos = 0
        /\ p.job = "reduce" => mapFinished' /\ p.pos = 0
    <2>1. CASE p = Asking \/ p = Gone
      BY <2>1, GoneType
    <2>2. CASE \E i \in MapTask : p = Doing("map", i, 0)
      BY <2>2, TasksAreNat DEF Doing, Job
    <2>3. CASE mapFinished' /\ \E i \in ReduceTask : p = Doing("reduce", i, 0)
      BY <2>3, TasksAreNat DEF Doing, Job
    <2> QED BY <1>1, <2>1, <2>2, <2>3
  <1>3. UNCHANGED <<masterUp, files, outputs, crashes>>
    BY DEF GetTask, fileVars
  <1>4. WorkDone'
    <2>1. \A r \in ReduceTask : ~ r < 0
      BY TasksAreNat
    <2>2. 0 <= NReduce /\ 0 <= NMap
      BY TaskAssumption
    <2> QED BY <1>1, <1>2, <1>3, <2>1, <2>2, GetTaskTable, WorkDoneStep
  <1>5. TypeOK'
    <2>1. TypeOK
      BY DEF Inv
    <2>2. /\ lateMaps' \subseteq MapTask /\ lateReduces' \subseteq ReduceTask
          /\ mapFinished' \in BOOLEAN /\ allFinished' \in BOOLEAN
      BY <2>1, GetTaskTable DEF GetTask, TypeOK
    <2> QED BY <1>1, <1>2, <1>3, <2>1, <2>2, GetTaskTable, WorkerTypeStep DEF TypeOK
  <1>6. FilesOfCompleted' /\ FlagsSound' /\ MasterSound'
    BY <1>3, GetTaskTable DEF Inv, FilesOfCompleted, FlagsSound, MasterSound
  <1> QED BY <1>4, <1>5, <1>6 DEF Inv

\* ReportTask keeps Inv: what completes a task is the report of a worker that wrote its files.
LEMMA ReportTaskStep ==
  ASSUME Inv, NEW w \in Worker, ReportTask(w)
  PROVE  Inv'
  <1> DEFINE i == worker[w].task
  <1>1. /\ worker' = [worker EXCEPT ![w] = Asking]
        /\ UNCHANGED <<lateMaps, lateReduces, masterUp, files, outputs, crashes>>
        /\ masterUp
    BY DEF ReportTask, fileVars
  <1>2. TypeOK
    BY DEF Inv
  <1>3. mapTasks \in [MapTask -> Status] /\ reduceTasks \in [ReduceTask -> Status]
    BY <1>2 DEF TypeOK
  <1>4. CASE /\ worker[w].job = "map reported" /\ mapTasks[i] = "in-progress"
             /\ mapTasks' = [mapTasks EXCEPT ![i] = "completed"]
             /\ mapFinished' = AllCompleted(mapTasks')
             /\ UNCHANGED <<reduceTasks, allFinished>>
    <2>1. i \in MapTask /\ \A r \in ReduceTask : <<i, r>> \in files
      BY <1>2, <1>4 DEF TypeOK, Inv, WorkDone
    <2>2. ~ mapFinished
      BY <1>4, <2>1 DEF Inv, FlagsSound
    <2>3. mapTasks' \in [MapTask -> Status]
      BY <1>3, <1>4 DEF Status
    <2>4. mapFinished' \in BOOLEAN /\ (mapFinished' => \A m \in MapTask : mapTasks'[m] = "completed")
      BY <1>4, <2>3 DEF AllCompleted
    <2>5. WorkDone'
      BY <1>1, <2>2, GoneType, WorkDoneStep
    <2>6. TypeOK'
      BY <1>1, <1>2, <1>4, <2>3, <2>4, GoneType, WorkerTypeStep DEF TypeOK
    <2>7. FilesOfCompleted'
      BY <1>1, <1>3, <1>4, <2>1 DEF Inv, FilesOfCompleted
    <2>8. FlagsSound' /\ MasterSound'
      BY <1>1, <1>4, <2>4 DEF Inv, FlagsSound, MasterSound
    <2> QED BY <2>5, <2>6, <2>7, <2>8 DEF Inv
  <1>5. CASE /\ worker[w].job = "reduce reported" /\ reduceTasks[i] = "in-progress"
             /\ reduceTasks' = [reduceTasks EXCEPT ![i] = "completed"]
             /\ allFinished' = AllCompleted(reduceTasks')
             /\ UNCHANGED <<mapTasks, mapFinished>>
    <2>1. i \in ReduceTask /\ i \in outputs
      BY <1>2, <1>5 DEF TypeOK, Inv, WorkDone
    <2>2. reduceTasks' \in [ReduceTask -> Status]
      BY <1>3, <1>5 DEF Status
    <2>3. allFinished' \in BOOLEAN /\ (allFinished' <=> \A r \in ReduceTask : reduceTasks'[r] = "completed")
      BY <1>5, <2>2 DEF AllCompleted
    <2>4. WorkDone'
      BY <1>1, <1>5, GoneType, WorkDoneStep
    <2>5. TypeOK'
      BY <1>1, <1>2, <1>5, <2>2, <2>3, GoneType, WorkerTypeStep DEF TypeOK
    <2>6. FilesOfCompleted'
      BY <1>1, <1>3, <1>5, <2>1 DEF Inv, FilesOfCompleted
    <2>7. FlagsSound' /\ MasterSound'
      BY <1>1, <1>5, <2>3 DEF Inv, FlagsSound, MasterSound
    <2> QED BY <2>4, <2>5, <2>6, <2>7 DEF Inv
  <1>6. CASE UNCHANGED <<mapTasks, mapFinished, reduceTasks, allFinished>>
    <2>1. crashes' \in 0 .. MaxCrashes
      BY <1>1, <1>2 DEF TypeOK
    <2> QED BY <1>1, <1>6, <2>1, IdleWorkerStep DEF taskVars, fileVars
  <1> QED BY <1>4, <1>5, <1>6 DEF ReportTask

\* doMap keeps Inv: file after file, then the report.
LEMMA DoMapStep ==
  ASSUME Inv, NEW w \in Worker, DoMap(w)
  PROVE  Inv'
  <1> DEFINE p == worker[w]
  <1>1. TypeOK /\ p.job = "map" /\ p.task \in MapTask /\ p.task \in Nat /\ p.pos \in Nat
    BY TasksAreNat DEF DoMap, Inv, TypeOK
  <1>2. p.pos <= NReduce /\ \A r \in ReduceTask : r < p.pos => <<p.task, r>> \in files
    BY <1>1 DEF Inv, WorkDone
  <1>3. /\ UNCHANGED <<mapTasks, reduceTasks, mapFinished, allFinished, lateMaps, lateReduces,
                       masterUp, outputs, crashes>>
    BY DEF DoMap, taskVars
  <1>4. NReduce \in Nat /\ ReduceTask = 0 .. NReduce - 1
    BY TaskAssumption DEF ReduceTask
  <1>5. CASE /\ p.pos < NReduce
             /\ files' = files \cup {<<p.task, p.pos>>}
             /\ worker' = [worker EXCEPT ![w] = Doing("map", p.task, p.pos + 1)]
    <2> DEFINE q == Doing("map", p.task, p.pos + 1)
    <2>1. q \in [job : Job, task : Nat, pos : Nat] /\ q.job = "map" /\ q.task = p.task /\ q.pos = p.pos + 1
      BY <1>1 DEF Doing, Job
    <2>2. p.pos \in ReduceTask
      BY <1>1, <1>4, <1>5
    <2>3. p.pos + 1 <= NReduce /\ \A r \in ReduceTask : r < p.pos + 1 => r < p.pos \/ r = p.pos
      BY <1>1, <1>4, <1>5
    <2> HIDE DEF q
    <2>4. worker' = [worker EXCEPT ![w] = q]
      BY <1>5 DEF q
    <2>5. WorkDone'
      BY <1>2, <1>3, <1>5, <2>1, <2>3, <2>4, WorkDoneStep
    <2>6. TypeOK'
      <3>1. files' \subseteq MapTask \X ReduceTask
        <4>1. files \subseteq MapTask \X ReduceTask /\ <<p.task, p.pos>> \in MapTask \X ReduceTask
          BY <1>1, <2>2 DEF TypeOK
        <4> QED BY <1>5, <4>1
      <3>2. /\ worker' \in [Worker -> [job : Job, task : Nat, pos : Nat]]
            /\ \A v \in Worker :
                  /\ worker'[v].job \in {"map", "map reported"} => worker'[v].task \in MapTask
                  /\ worker'[v].job \in {"reduce", "reduce reported"} =>
                        worker'[v].task \in ReduceTask
        BY <1>1, <2>1, <2>4, WorkerTypeStep
      <3> QED BY <1>1, <1>3, <3>1, <3>2 DEF TypeOK
    <2>7. FilesOfCompleted' /\ FlagsSound' /\ MasterSound'
      BY <1>3, <1>5 DEF Inv, FilesOfCompleted, FlagsSound, MasterSound
    <2> QED BY <2>5, <2>6, <2>7 DEF Inv
  <1>6. CASE /\ ~ p.pos < NReduce
             /\ worker' = [worker EXCEPT ![w] = Doing("map reported", p.task, 0)]
             /\ UNCHANGED files
    <2> DEFINE q == Doing("map reported", p.task, 0)
    <2>1. q \in [job : Job, task : Nat, pos : Nat] /\ q.job = "map reported" /\ q.task = p.task
      BY <1>1 DEF Doing, Job
    <2>2. \A r \in ReduceTask : r < p.pos
      <3>1. p.pos = NReduce
        <4>1. p.pos \in Nat /\ NReduce \in Nat /\ p.pos <= NReduce /\ ~ p.pos < NReduce
          BY <1>1, <1>2, <1>4, <1>6
        <4> HIDE DEF p
        <4> QED BY <4>1
      <3> QED BY <1>4, <3>1
    <2> HIDE DEF q
    <2>3. worker' = [worker EXCEPT ![w] = q]
      BY <1>6 DEF q
    <2>4. WorkDone'
      BY <1>2, <1>3, <1>6, <2>1, <2>2, <2>3, WorkDoneStep
    <2>5. TypeOK'
      BY <1>1, <1>3, <1>6, <2>1, <2>3, WorkerTypeStep DEF TypeOK
    <2>6. FilesOfCompleted' /\ FlagsSound' /\ MasterSound'
      BY <1>3, <1>6 DEF Inv, FilesOfCompleted, FlagsSound, MasterSound
    <2> QED BY <2>4, <2>5, <2>6 DEF Inv
  <1> QED BY <1>5, <1>6 DEF DoMap, MoreBuckets

\* A reducer runs only after all map tasks completed, and their files stay.
LEMMA InputsThere == Inv => InputsPresent
  BY DEF Inv, InputsPresent, WorkDone, FlagsSound, FilesOfCompleted, TypeOK

\* doReduce keeps Inv: it reads every input, renames its output, then reports.
LEMMA DoReduceStep ==
  ASSUME Inv, NEW w \in Worker, DoReduce(w)
  PROVE  Inv'
  <1> DEFINE p == worker[w]
  <1>1. TypeOK /\ p.job = "reduce" /\ p.task \in ReduceTask /\ p.task \in Nat /\ p.pos \in Nat
    BY TasksAreNat DEF DoReduce, Inv, TypeOK
  <1>2. mapFinished /\ p.pos <= NMap
    BY <1>1 DEF Inv, WorkDone
  <1>3. /\ UNCHANGED <<mapTasks, reduceTasks, mapFinished, allFinished, lateMaps, lateReduces,
                       masterUp, files, crashes>>
    BY DEF DoReduce, taskVars
  <1>4. NMap \in Nat /\ MapTask = 0 .. NMap - 1
    BY TaskAssumption DEF MapTask
  <1>5. CASE p.pos < NMap
    <2> DEFINE q == Doing("reduce", p.task, p.pos + 1)
    <2>1. q \in [job : Job, task : Nat, pos : Nat] /\ q.job = "reduce" /\ q.task = p.task /\ q.pos = p.pos + 1
      BY <1>1 DEF Doing, Job
    <2>2. <<p.pos, p.task>> \in files
      BY <1>1, <1>4, <1>5, InputsThere DEF InputsPresent
    <2>3. worker' = [worker EXCEPT ![w] = q] /\ UNCHANGED outputs
      <3>1. p.pos # NMap
        BY <1>1, <1>4, <1>5
      <3> QED BY <2>2, <3>1 DEF DoReduce
    <2>4. p.pos + 1 <= NMap
      BY <1>1, <1>4, <1>5
    <2> HIDE DEF q
    <2>5. WorkDone'
      BY <1>2, <1>3, <2>1, <2>3, <2>4, WorkDoneStep
    <2>6. TypeOK'
      BY <1>1, <1>3, <2>1, <2>3, WorkerTypeStep DEF TypeOK
    <2>7. FilesOfCompleted' /\ FlagsSound' /\ MasterSound'
      BY <1>3, <2>3 DEF Inv, FilesOfCompleted, FlagsSound, MasterSound
    <2> QED BY <2>5, <2>6, <2>7 DEF Inv
  <1>6. CASE ~ p.pos < NMap
    <2> DEFINE q == Doing("reduce reported", p.task, 0)
    <2>1. q \in [job : Job, task : Nat, pos : Nat] /\ q.job = "reduce reported" /\ q.task = p.task
      BY <1>1 DEF Doing, Job
    <2>2. worker' = [worker EXCEPT ![w] = q] /\ outputs' = outputs \cup {p.task}
      BY <1>6 DEF DoReduce
    <2> HIDE DEF q
    <2>3. WorkDone'
      BY <1>2, <1>3, <2>1, <2>2, WorkDoneStep
    <2>4. TypeOK'
      BY <1>1, <1>3, <2>1, <2>2, WorkerTypeStep DEF TypeOK
    <2>5. FilesOfCompleted' /\ FlagsSound' /\ MasterSound'
      BY <1>3, <2>2 DEF Inv, FilesOfCompleted, FlagsSound, MasterSound
    <2> QED BY <2>3, <2>4, <2>5 DEF Inv
  <1> QED BY <1>5, <1>6

\* Time passes.
LEMMA ExpireStep ==
  ASSUME Inv, lateMaps' \subseteq MapTask, lateReduces' \subseteq ReduceTask,
         UNCHANGED <<mapTasks, reduceTasks, mapFinished, allFinished, masterUp, fileVars, worker,
                     crashes>>
  PROVE  Inv'
  <1>1. UNCHANGED <<files, outputs>>
    BY DEF fileVars
  <1>2. TypeOK'
    BY <1>1 DEF Inv, TypeOK
  <1>3. WorkDone' /\ FilesOfCompleted' /\ FlagsSound' /\ MasterSound'
    BY <1>1 DEF Inv, WorkDone, FilesOfCompleted, FlagsSound, MasterSound
  <1> QED BY <1>2, <1>3 DEF Inv

\* mrmaster returning changes no task and no file.
LEMMA MasterExitStep ==
  ASSUME Inv, MasterExit
  PROVE  Inv'
  <1>1. UNCHANGED <<mapTasks, reduceTasks, mapFinished, allFinished, lateMaps, lateReduces, files,
                    outputs, worker, crashes>> /\ masterUp' = FALSE /\ allFinished
    BY DEF MasterExit, taskVars, fileVars
  <1>2. TypeOK'
    BY <1>1 DEF Inv, TypeOK
  <1>3. WorkDone' /\ FilesOfCompleted' /\ FlagsSound' /\ MasterSound'
    BY <1>1 DEF Inv, WorkDone, FilesOfCompleted, FlagsSound, MasterSound
  <1> QED BY <1>2, <1>3 DEF Inv

\* Every step keeps Inv.
LEMMA InvNext == Inv /\ [Next]_vars => Inv'
  <1> SUFFICES ASSUME Inv, [Next]_vars
               PROVE  Inv'
    OBVIOUS
  <1>1. crashes \in 0 .. MaxCrashes /\ lateMaps \subseteq MapTask /\ lateReduces \subseteq ReduceTask
    BY DEF Inv, TypeOK
  <1>2. ASSUME NEW w \in Worker, Leave(w) \/ StartWorker(w)
        PROVE  Inv'
    BY <1>1, <1>2, IdleWorkerStep DEF Leave, StartWorker
  <1>3. ASSUME NEW w \in Worker, Crash(w)
        PROVE  Inv'
    <2>1. crashes' \in 0 .. MaxCrashes
      BY <1>1, <1>3, CrashAssumption DEF Crash
    <2> QED BY <1>3, <2>1, IdleWorkerStep DEF Crash
  <1>4. ASSUME NEW i \in MapTask, ExpireMap(i)
        PROVE  Inv'
    BY <1>1, <1>4, ExpireStep DEF ExpireMap
  <1>5. ASSUME NEW i \in ReduceTask, ExpireReduce(i)
        PROVE  Inv'
    BY <1>1, <1>5, ExpireStep DEF ExpireReduce
  <1>6. CASE UNCHANGED vars
    BY <1>1, <1>6, ExpireStep DEF vars, taskVars
  <1> QED BY <1>2, <1>3, <1>4, <1>5, <1>6, GetTaskStep, DoMapStep, DoReduceStep, ReportTaskStep,
             MasterExitStep DEF Next

\* MakeMaster and freshly started workers satisfy Inv.
LEMMA InvInit == Init => Inv
  <1> SUFFICES ASSUME Init
               PROVE  Inv
    OBVIOUS
  <1>1. 0 \in ReduceTask
    BY TaskAssumption DEF ReduceTask
  <1>2. TypeOK
    <2>1. worker \in [Worker -> [job : Job, task : Nat, pos : Nat]]
      BY GoneType DEF Init
    <2>2. \A w \in Worker : worker[w].job = "ask"
      BY GoneType DEF Init
    <2>3. /\ mapTasks \in [MapTask -> Status] /\ reduceTasks \in [ReduceTask -> Status]
          /\ crashes \in 0 .. MaxCrashes
      BY CrashAssumption DEF Init, Status
    <2>4. /\ mapFinished \in BOOLEAN /\ allFinished \in BOOLEAN /\ masterUp \in BOOLEAN
          /\ lateMaps \subseteq MapTask /\ lateReduces \subseteq ReduceTask
          /\ files \subseteq MapTask \X ReduceTask /\ outputs \subseteq ReduceTask
      BY DEF Init
    <2> QED BY <2>1, <2>2, <2>3, <2>4 DEF TypeOK
  <1>3. WorkDone /\ FilesOfCompleted /\ MasterSound
    BY GoneType DEF Init, WorkDone, FilesOfCompleted, MasterSound
  <1>4. FlagsSound
    BY <1>1 DEF Init, FlagsSound
  <1> QED BY <1>2, <1>3, <1>4 DEF Inv

-----------------------------------------------------------------------------
(* What the job promises. *)

\* The inductive invariant: reports stand for written files, completed tasks for files that
\* exist, and the flags of the master for completed tasks (master.go, worker.go).
THEOREM Invariance == Spec => []Inv
  BY InvInit, InvNext, PTL DEF Spec

\* master.go's and worker.go's state keeps its types.
THEOREM TypeCorrect == Spec => []TypeOK
  <1>1. Inv => TypeOK
    BY DEF Inv
  <1> QED BY <1>1, Invariance, PTL

\* doReduce never fails to open an intermediate file, for any number of workers that
\* crash, are slow, or report tasks that were given to others.
THEOREM ReducersFindInputs == Spec => []InputsPresent
  BY InputsThere, Invariance, PTL

\* Done() returns true only when all output files exist.
THEOREM OutputsComplete == Spec => []DoneMeansOutput
  <1>1. Inv => DoneMeansOutput
    BY DEF Inv, TypeOK, DoneMeansOutput, FlagsSound, FilesOfCompleted
  <1> QED BY <1>1, Invariance, PTL

\* Each step of master and workers is a step of the abstract job or changes nothing in it:
\* no task completes twice, no reduce task before the last map task, and Done() is the
\* completion of the last reduce task.
LEMMA RefinedStep ==
  ASSUME Inv, Inv', [Next]_vars
  PROVE  [JobSpec!Next]_(JobSpec!vars)
  <1> DEFINE mapped == {i \in MapTask : mapTasks[i] = "completed"}
             reduced == {i \in ReduceTask : reduceTasks[i] = "completed"}
  <1>1. /\ mapTasks \in [MapTask -> Status] /\ reduceTasks \in [ReduceTask -> Status]
    BY DEF Inv, TypeOK
  <1>2. ASSUME UNCHANGED <<mapTasks, reduceTasks, allFinished>>
        PROVE  UNCHANGED (JobSpec!vars)
    BY <1>2 DEF JobSpec!vars
  <1>3. ASSUME NEW w \in Worker, GetTask(w)
        PROVE  UNCHANGED (JobSpec!vars)
    BY <1>3, GetTaskTable DEF JobSpec!vars
  <1>4. ASSUME NEW w \in Worker, ReportTask(w)
        PROVE  JobSpec!Next \/ UNCHANGED (JobSpec!vars)
    <2> DEFINE i == worker[w].task
    <2>1. CASE /\ worker[w].job = "map reported" /\ mapTasks[i] = "in-progress"
               /\ mapTasks' = [mapTasks EXCEPT ![i] = "completed"]
               /\ UNCHANGED <<reduceTasks, allFinished>>
      <3>1. PICK k \in MapTask : k = i
        BY <2>1 DEF Inv, TypeOK
      <3>2. k \notin mapped /\ mapped' = mapped \cup {k} /\ reduced' = reduced
        BY <1>1, <2>1, <3>1
      <3>3. JobSpec!MapDone(k)
        BY <2>1, <3>2 DEF JobSpec!MapDone
      <3> QED BY <3>3 DEF JobSpec!Next
    <2>2. CASE /\ worker[w].job = "reduce reported" /\ reduceTasks[i] = "in-progress"
               /\ reduceTasks' = [reduceTasks EXCEPT ![i] = "completed"]
               /\ UNCHANGED mapTasks
      <3>1. PICK k \in ReduceTask : k = i /\ mapFinished
        BY <2>2 DEF Inv, TypeOK, WorkDone
      <3>2. mapped = MapTask /\ mapped' = mapped
        BY <2>2, <3>1 DEF Inv, FlagsSound
      <3>3. k \notin reduced /\ reduced' = reduced \cup {k}
        BY <1>1, <2>2, <3>1
      <3>4. allFinished' = (reduced' = ReduceTask)
        BY DEF Inv, TypeOK, FlagsSound
      <3>5. JobSpec!ReduceDone(k)
        BY <3>2, <3>3, <3>4 DEF JobSpec!ReduceDone
      <3> QED BY <3>5 DEF JobSpec!Next
    <2>3. CASE UNCHANGED <<mapTasks, mapFinished, reduceTasks, allFinished>>
      BY <1>2, <2>3
    <2> QED BY <1>4, <2>1, <2>2, <2>3 DEF ReportTask
  <1>5. ASSUME NEW w \in Worker, DoMap(w) \/ DoReduce(w) \/ Leave(w) \/ Crash(w) \/ StartWorker(w)
        PROVE  UNCHANGED <<mapTasks, reduceTasks, allFinished>>
    BY <1>5 DEF DoMap, DoReduce, Leave, Crash, StartWorker, taskVars
  <1>6. CASE \/ \E i \in MapTask : ExpireMap(i)
             \/ \E i \in ReduceTask : ExpireReduce(i)
             \/ MasterExit
             \/ UNCHANGED vars
    BY <1>2, <1>6 DEF ExpireMap, ExpireReduce, MasterExit, vars, taskVars
  <1> QED BY <1>2, <1>3, <1>4, <1>5, <1>6 DEF Next

\* The master with its workers implements MapReduceJob, what GetTask, ReportTask and Done
\* of master.go promise together.
THEOREM Implements == Spec => Refinement
  <1>1. Init => JobSpec!Init
    <2>1. 0 \in ReduceTask
      BY TaskAssumption DEF ReduceTask
    <2> QED BY <2>1 DEF Init, JobSpec!Init
  <1>2. Inv /\ Inv' /\ [Next]_vars => [JobSpec!Next]_(JobSpec!vars)
    BY RefinedStep
  <1> QED BY <1>1, <1>2, Invariance, PTL DEF Spec, Refinement, JobSpec!Spec

\* No step takes back a completed task or a flag.
LEMMA KeptStep ==
  ASSUME Inv, Inv', [Next]_vars
  PROVE  /\ \A i \in MapTask : mapTasks[i] = "completed" => mapTasks'[i] = "completed"
         /\ \A i \in ReduceTask : reduceTasks[i] = "completed" => reduceTasks'[i] = "completed"
         /\ mapFinished => mapFinished'
         /\ allFinished => allFinished'
  <1>1. /\ mapTasks \in [MapTask -> Status] /\ reduceTasks \in [ReduceTask -> Status]
    BY DEF Inv, TypeOK
  <1>2. ASSUME NEW w \in Worker, ReportTask(w)
        PROVE  /\ \A i \in MapTask : mapTasks[i] = "completed" => mapTasks'[i] = "completed"
               /\ \A i \in ReduceTask : reduceTasks[i] = "completed" => reduceTasks'[i] = "completed"
               /\ mapFinished => mapFinished'
    <2>1. worker[w].job = "map reported" => worker[w].task \in MapTask
      BY DEF Inv, TypeOK
    <2>2. mapFinished => \A i \in MapTask : mapTasks[i] # "in-progress"
      BY DEF Inv, FlagsSound
    <2>3. CASE /\ worker[w].job = "map reported" /\ mapTasks[worker[w].task] = "in-progress"
               /\ mapTasks' = [mapTasks EXCEPT ![worker[w].task] = "completed"]
               /\ UNCHANGED reduceTasks
      BY <1>1, <2>1, <2>2, <2>3
    <2>4. CASE UNCHANGED <<mapTasks, mapFinished>> /\ UNCHANGED reduceTasks
      BY <2>4
    <2>5. CASE /\ reduceTasks' = [reduceTasks EXCEPT ![worker[w].task] = "completed"]
               /\ UNCHANGED <<mapTasks, mapFinished>>
      BY <1>1, <2>5
    <2> QED BY <1>2, <2>3, <2>4, <2>5 DEF ReportTask
  <1>3. (\A i \in ReduceTask : reduceTasks[i] = "completed" => reduceTasks'[i] = "completed")
           => (allFinished => allFinished')
    BY DEF Inv, FlagsSound
  <1>4. CASE UNCHANGED taskVars
    BY <1>4 DEF taskVars
  <1>5. CASE UNCHANGED <<mapTasks, reduceTasks, mapFinished, allFinished>>
    BY <1>5
  <1>6. ASSUME NEW w \in Worker, DoMap(w) \/ DoReduce(w) \/ Leave(w) \/ Crash(w) \/ StartWorker(w)
        PROVE  UNCHANGED taskVars
    BY <1>6 DEF DoMap, DoReduce, Leave, Crash, StartWorker
  <1>7. ASSUME NEW i, ExpireMap(i) \/ ExpireReduce(i)
        PROVE  UNCHANGED <<mapTasks, reduceTasks, mapFinished, allFinished>>
    BY <1>7 DEF ExpireMap, ExpireReduce
  <1>8. MasterExit \/ UNCHANGED vars => UNCHANGED taskVars
    BY DEF MasterExit, vars, taskVars
  <1>9. ASSUME NEW w \in Worker, GetTask(w)
        PROVE  /\ \A i \in MapTask : mapTasks[i] = "completed" => mapTasks'[i] = "completed"
               /\ \A i \in ReduceTask : reduceTasks[i] = "completed" => reduceTasks'[i] = "completed"
               /\ mapFinished => mapFinished'
    BY <1>9, GetTaskTable
  <1> QED BY <1>2, <1>3, <1>4, <1>5, <1>6, <1>7, <1>8, <1>9 DEF Next

\* Completed tasks stay completed and the flags stay up, however late timeouts and reports
\* come (checkTimeOut and ReportTask recompute all of them).
THEOREM NothingTakenBack == Spec => CompletedStays
  BY KeptStep, Invariance, PTL DEF Spec, CompletedStays

\* A step in which a worker leaves without a crash finds the job done.
LEMMA LeaveStep ==
  ASSUME Inv, Inv', [Next]_vars, NEW w \in Worker, worker[w] # Gone, worker'[w] = Gone,
         crashes' = crashes
  PROVE  outputs = ReduceTask /\ allFinished'
  <1>1. allFinished => outputs = ReduceTask
    BY DEF Inv, TypeOK, FlagsSound, FilesOfCompleted
  <1>2. worker \in [Worker -> [job : Job, task : Nat, pos : Nat]] /\ crashes \in Nat
    <2>1. TypeOK
      BY DEF Inv
    <2>2. crashes \in 0 .. MaxCrashes /\ worker \in [Worker -> [job : Job, task : Nat, pos : Nat]]
      BY <2>1 DEF TypeOK
    <2> QED BY <2>2, CrashAssumption
  <1>3. ASSUME NEW v \in Worker, NEW q, worker' = [worker EXCEPT ![v] = q]
        PROVE  v = w /\ q = Gone
    <2>1. CASE v = w
      <3>1. worker'[w] = q
        BY <1>2, <1>3, <2>1
      <3> QED BY <2>1, <3>1
    <2>2. CASE v # w
      <3>1. worker'[w] = worker[w]
        BY <1>2, <1>3, <2>2
      <3> QED BY <3>1
    <2> QED BY <2>1, <2>2
  <1>4. ASSUME NEW v \in Worker, GetTask(v)
        PROVE  allFinished /\ allFinished'
    <2>1. PICK q : /\ worker' = [worker EXCEPT ![v] = q]
                   /\ \/ q = Asking
                      \/ q = Gone /\ allFinished'
                      \/ \E i \in MapTask : q = Doing("map", i, 0)
                      \/ mapFinished' /\ \E i \in ReduceTask : q = Doing("reduce", i, 0)
      BY <1>4, GetTaskWorker
    <2>2. q = Gone
      BY <1>3, <2>1
    <2>3. allFinished'
      BY <2>1, <2>2 DEF Gone, Asking, Doing
    <2> QED BY <1>4, <2>3, GetTaskTable
  <1>5. ASSUME NEW v \in Worker, DoMap(v)
        PROVE  FALSE
    <2>1. \A n : Doing("map", worker[v].task, n) # Gone
          /\ Doing("map reported", worker[v].task, 0) # Gone
      BY DEF Doing, Gone
    <2>2. CASE worker' = [worker EXCEPT ![v] = Doing("map", worker[v].task, worker[v].pos + 1)]
      BY <1>3, <2>1, <2>2
    <2>3. CASE worker' = [worker EXCEPT ![v] = Doing("map reported", worker[v].task, 0)]
      BY <1>3, <2>1, <2>3
    <2> QED BY <1>5, <2>2, <2>3 DEF DoMap
  <1>6. ASSUME NEW v \in Worker, DoReduce(v)
        PROVE  FALSE
    <2>1. /\ worker[v].job = "reduce"
          /\ worker[v].pos \in Nat /\ worker[v].task \in ReduceTask
      BY <1>6 DEF DoReduce, Inv, TypeOK
    <2>2. worker[v].pos < NMap => <<worker[v].pos, worker[v].task>> \in files
      BY <2>1, InputsThere, TaskAssumption DEF InputsPresent, MapTask
    <2>3. Doing("reduce", worker[v].task, worker[v].pos + 1) # Gone
          /\ Doing("reduce reported", worker[v].task, 0) # Gone
      BY DEF Doing, Gone
    <2>4. CASE worker' = [worker EXCEPT ![v] = Doing("reduce", worker[v].task, worker[v].pos + 1)]
      BY <1>3, <2>3, <2>4
    <2>5. CASE worker' = [worker EXCEPT ![v] = Doing("reduce reported", worker[v].task, 0)]
      BY <1>3, <2>3, <2>5
    <2> QED BY <1>6, <2>2, <2>4, <2>5 DEF DoReduce
  <1>7. ASSUME NEW v \in Worker, ReportTask(v) \/ StartWorker(v)
        PROVE  FALSE
    BY <1>3, <1>7, ZenonT(120) DEF ReportTask, StartWorker, Asking, Doing, Gone
  <1>8. ASSUME NEW v \in Worker, Leave(v)
        PROVE  allFinished /\ allFinished'
    BY <1>8 DEF Leave, Inv, MasterSound, taskVars
  <1>9. ASSUME NEW v \in Worker, Crash(v)
        PROVE  FALSE
    BY <1>2, <1>9 DEF Crash
  <1>10. ASSUME UNCHANGED worker
         PROVE  FALSE
    BY <1>10
  <1> QED BY <1>1, <1>4, <1>5, <1>6, <1>7, <1>8, <1>9, <1>10
          DEF Next, ExpireMap, ExpireReduce, MasterExit, vars

\* A worker that does not crash leaves only when the whole job is done ("and not before",
\* main/test-mr.sh): on ExitTask, or because the master it dials has returned.
THEOREM LeavesWhenDone == Spec => LeaveOnlyWhenDone
  <1>1. Inv /\ Inv' /\ [Next]_vars =>
           [\A w \in Worker : worker[w] # Gone /\ worker'[w] = Gone /\ crashes' = crashes =>
                 outputs = ReduceTask /\ allFinished']_vars
    BY LeaveStep
  <1> QED BY <1>1, Invariance, PTL DEF Spec, LeaveOnlyWhenDone
=============================================================================
