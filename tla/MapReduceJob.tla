---------------------------- MODULE MapReduceJob ----------------------------
(***************************************************************************)
(* What the master of src/mr promises its caller: tasks complete once, no  *)
(* reduce task completes before every map task has, and Done() turns true  *)
(* with the last reduce task.  Workers, files, timeouts and crashes are    *)
(* not mentioned.                                                          *)
(***************************************************************************)
CONSTANTS MapTask, ReduceTask

VARIABLES mapped, reduced, done

vars == <<mapped, reduced, done>>

Init == mapped = {} /\ reduced = {} /\ done = FALSE

MapDone(m) ==
    /\ m \notin mapped
    /\ mapped' = mapped \cup {m}
    /\ UNCHANGED <<reduced, done>>

ReduceDone(r) ==
    /\ mapped = MapTask
    /\ r \notin reduced
    /\ reduced' = reduced \cup {r}
    /\ done' = (reduced' = ReduceTask)
    /\ UNCHANGED mapped

Next ==
    \/ \E m \in MapTask : MapDone(m)
    \/ \E r \in ReduceTask : ReduceDone(r)

Spec == Init /\ [][Next]_vars
=============================================================================
