---------------------------- MODULE WorkflowTasks ----------------------------
(***************************************************************************)
(* The task dependency graph and the rules of WorkflowTask: a task has an  *)
(* internal state, written by the executors of compute services, and a     *)
(* visible state, written on behalf of the WMS.                            *)
(***************************************************************************)
EXTENDS Naturals, FiniteSets

CONSTANTS
    Tasks,      \* the tasks of the workflow
    Parents     \* Parents[t]: the tasks t depends on (data and control edges)

ASSUME ParentsAssumption == Parents \in [Tasks -> SUBSET Tasks]

InternalStates == {"TASK_NOT_READY", "TASK_READY", "TASK_RUNNING",
                   "TASK_COMPLETED", "TASK_FAILED"}

VisibleStates == {"NOT_READY", "READY", "PENDING", "COMPLETED", "UNKNOWN"}

Children(t) == {c \in Tasks : t \in Parents[c]}

\* The internal states under which setState(state) is accepted.
SaneInternal(state) ==
    CASE state = "NOT_READY" -> {"TASK_NOT_READY", "TASK_FAILED"}
      [] state = "READY"     -> {"TASK_READY", "TASK_FAILED"}
      [] state = "PENDING"   -> {"TASK_READY", "TASK_NOT_READY", "TASK_RUNNING"}
      [] state = "COMPLETED" -> {"TASK_COMPLETED"}
      [] OTHER               -> {}

\* setState(state) on a task whose internal state is internalState does not throw.
IsSane(state, internalState) == internalState \in SaneInternal(state)

\* A task that has a parent when it is built is made not ready, in both states.
InitialInternal == [t \in Tasks |->
    IF Parents[t] = {} THEN "TASK_READY" ELSE "TASK_NOT_READY"]
InitialVisible == [t \in Tasks |->
    IF Parents[t] = {} THEN "READY" ELSE "NOT_READY"]

\* The internal states after a workunit executor completes task t: every child
\* whose parents are then all completed is made ready, whatever it was.
AfterCompletion(internal, t) ==
    LET done == [internal EXCEPT ![t] = "TASK_COMPLETED"]
    IN  [c \in Tasks |->
            IF c \in Children(t) /\ \A p \in Parents[c] : done[p] = "TASK_COMPLETED"
            THEN "TASK_READY" ELSE done[c]]
=============================================================================
