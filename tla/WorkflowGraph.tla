----------------------------- MODULE WorkflowGraph -----------------------------
(***************************************************************************)
(* A workflow under construction and in execution: tasks, files, and the   *)
(* graph of the dependencies between tasks, which a WMS may change between *)
(* two executions of tasks. The graph is a Boost graph, whose vertices are *)
(* numbers that shift when one is removed; the workflow finds the vertex   *)
(* of a task in a map of its own. Each task has its depth in the graph     *)
(* (its top level), kept up to date by each change.                        *)
(*                                                                         *)
(* How tasks get from ready to completed is the subject of JobManager.tla. *)
(***************************************************************************)
EXTENDS Integers, SequencesExt, FiniteSetsExt

CONSTANTS
    Identifiers,    \* the identifiers a task may have, numbers in their order
    WorkflowFiles,
    NoFileTask,     \* nullptr, of a file no task outputs
    ClusterOf, NoCluster,   \* the cluster of a task, or NoCluster
    Redundant,      \* the values redundant_dependencies is given
    MaxParallel,    \* bound: parallel edges between two tasks
    MaxRemovals,    \* bound: how many tasks and dependencies are removed
    MaxClock        \* bound: how many times a task is executed

ASSUME IdentifiersAssumption ==
    Identifiers \subseteq Nat /\ IsFiniteSet(Identifiers) /\ NoFileTask \notin Identifiers

VARIABLES
    tasks,          \* the tasks of the workflow
    vertices,       \* the Boost graph: the task of each vertex,
    edges,          \* and how many edges there are from one vertex to another
    task_list, task_map,    \* of DagOfTasks
    toplevel,
    visibleState, internalState,      \* the states of tasks
    endDate,
    outputOf, inputOf,      \* of each file: the task that makes it, those that read it
    dangling,       \* the removed tasks in its input_of, by their identifiers
    clock,          \* the date, a number of executions
    removals,
    orphans,        \* the tasks a parent of which was removed
    ended         \* what ended the simulation

dagVars == <<vertices, edges, task_list, task_map>>
stateVars == <<visibleState, internalState, endDate>>
fileVars == <<outputOf, inputOf, dangling>>
graphVars == <<tasks, dagVars, toplevel, stateVars, fileVars, clock, removals, orphans,
          ended>>

Vertices == 1 .. Cardinality(Identifiers)
NoEdge == [e \in Vertices \X Vertices |-> 0]

GraphInit ==
    /\ tasks = {}
    /\ vertices = <<>> /\ edges = NoEdge
    /\ task_list = <<>> /\ task_map = [t \in Identifiers |-> 0]
    /\ toplevel = [t \in Identifiers |-> 0]
    /\ visibleState = [t \in Identifiers |-> "READY"]
    /\ internalState = [t \in Identifiers |-> "TASK_READY"]
    /\ endDate = [t \in Identifiers |-> -1]
    /\ outputOf = [f \in WorkflowFiles |-> NoFileTask] /\ inputOf = [f \in WorkflowFiles |-> {}]
    /\ dangling = [f \in WorkflowFiles |-> {}]
    /\ clock = 0 /\ removals = 0 /\ orphans = {} /\ ended = "no"

-------------------------------------------------------------------------------
(* DagOfTasks, read through task_map. g is a graph and its maps. *)

Graph == [vertices |-> vertices, edges |-> edges, list |-> task_list, map |-> task_map]

EdgesFrom(s, d, g) == g.edges[<<g.map[s], g.map[d]>>]

AddVertex(t, g) ==
    [g EXCEPT !.vertices = Append(@, t), !.list = Append(@, t),
              !.map[t] = Len(g.list) + 1]

\* The tasks behind t in the list move one place to the front.
ShiftedMap(t, g) ==
    LET rest == RemoveAt(g.list, g.map[t]) IN
    [u \in Identifiers |-> IF \E i \in DOMAIN rest : i >= g.map[t] /\ rest[i] = u
                     THEN g.map[u] - 1 ELSE g.map[u]]
UnshiftedMap(t, g) == g.map  \* mutant
MapWithout(t, g) == ShiftedMap(t, g)

\* clear_vertex and remove_vertex: the vertices above the one removed are renumbered.
RemoveVertex(t, g) ==
    LET v == g.map[t]
        old(i) == IF i >= v THEN i + 1 ELSE i
    IN  [vertices |-> RemoveAt(g.vertices, v),
         edges |-> [e \in Vertices \X Vertices |->
                       IF old(e[1]) \in Vertices /\ old(e[2]) \in Vertices
                       THEN g.edges[<<old(e[1]), old(e[2])>>] ELSE 0],
         list |-> RemoveAt(g.list, v),
         map |-> MapWithout(t, g)]

AddEdge(s, d, g) == [g EXCEPT !.edges[<<g.map[s], g.map[d]>>] = @ + 1]
RemoveEdge(s, d, g) == [g EXCEPT !.edges[<<g.map[s], g.map[d]>>] = 0]
DoesEdgeExist(s, d, g) == EdgesFrom(s, d, g) > 0

GetChildren(t, g) ==
    {g.vertices[v] : v \in {u \in DOMAIN g.vertices : g.edges[<<g.map[t], u>>] > 0}}
GetParents(t, g) ==
    {g.vertices[v] : v \in {u \in DOMAIN g.vertices : g.edges[<<u, g.map[t]>>] > 0}}
GetNumberOfChildren(t, g) ==
    SumFunction([u \in DOMAIN g.vertices |-> g.edges[<<g.map[t], u>>]])
GetNumberOfParents(t, g) ==
    SumFunction([u \in DOMAIN g.vertices |-> g.edges[<<u, g.map[t]>>]])

\* The tasks the breadth-first search from s discovers, s itself included.
Reached(s, g) ==
    LET Closed(S) == s \in S /\ \A t \in S : GetChildren(t, g) \subseteq S
    IN  {d \in ToSet(g.vertices) : \A S \in SUBSET ToSet(g.vertices) : d \in S \/ ~Closed(S)}
DoesPathExist(s, d, g) == d \in Reached(s, g)

-------------------------------------------------------------------------------
(* updateTopLevel: the level of t, then of its children, recursively. *)

UpdatedTopLevel(t, levels, g) ==
    LET behind == Reached(t, g)
        level[u \in behind] ==
            LET parents == GetParents(u, g)
                of(p) == IF p \in behind THEN level[p] ELSE levels[p]
            IN  IF parents = {} THEN 0 ELSE 1 + Max({of(p) : p \in parents})
    IN  [u \in Identifiers |-> IF u \in behind THEN level[u] ELSE levels[u]]

-------------------------------------------------------------------------------
(* The operations of Workflow and WorkflowTask. w is a graph with the top levels and
   the states of tasks. *)

\* Tasks in their order, in which maps of tasks are iterated over.
InOrder(S) ==
    CHOOSE q \in [1 .. Cardinality(S) -> S] : \A i, j \in DOMAIN q : i < j => q[i] < q[j]

Whole == [graph |-> Graph, levels |-> toplevel, visible |-> visibleState, internal |-> internalState,
          cyclic |-> FALSE]

\* addControlDependency. Nothing looks for a path back: a cycle makes updateTopLevel
\* call itself for ever.
WithDependency(s, d, redundant, w) ==
    IF ~redundant /\ DoesPathExist(s, d, w.graph) THEN w
    ELSE IF DoesPathExist(d, s, w.graph) THEN [w EXCEPT !.cyclic = TRUE]
    ELSE LET g == AddEdge(s, d, w.graph)
             wait == w.visible[s] # "COMPLETED"
         IN  [w EXCEPT !.graph = g,
                       !.levels = UpdatedTopLevel(d, w.levels, g),
                       !.internal[d] = IF wait THEN "TASK_NOT_READY" ELSE @,
                       !.visible[d] = IF wait THEN "NOT_READY" ELSE @]

Becomes(w) ==
    /\ vertices' = w.graph.vertices /\ edges' = w.graph.edges
    /\ task_list' = w.graph.list /\ task_map' = w.graph.map
    /\ toplevel' = w.levels /\ visibleState' = w.visible /\ internalState' = w.internal
    /\ ended' = IF w.cyclic THEN "endless recursion" ELSE ended

AddTask(t) ==
    /\ t \notin tasks
    /\ tasks' = tasks \cup {t}
    /\ Becomes([Whole EXCEPT !.graph = AddVertex(t, Graph), !.levels[t] = 0,
                             !.visible[t] = "READY", !.internal[t] = "TASK_READY"])
    /\ endDate' = [endDate EXCEPT ![t] = -1]
    /\ orphans' = orphans \ {t}
    /\ UNCHANGED <<fileVars, clock, removals>>

\* A WMS adds dependencies to tasks that have not been started.
NotStarted(t) == visibleState[t] \in {"READY", "NOT_READY"}

AddControlDependency(s, d, redundant) ==
    /\ {s, d} \subseteq tasks /\ NotStarted(d)
    /\ EdgesFrom(s, d, Graph) < MaxParallel
    /\ Becomes(WithDependency(s, d, redundant, Whole))
    /\ UNCHANGED <<tasks, endDate, fileVars, clock, removals, orphans>>

AddInputFile(t, f) ==
    /\ t \in tasks /\ NotStarted(t)
    /\ t \notin inputOf[f] /\ outputOf[f] # t       \* else it throws
    /\ inputOf' = [inputOf EXCEPT ![f] = @ \cup {t}]
    /\ dangling' = [dangling EXCEPT ![f] = @ \ {t}]
    /\ Becomes(IF outputOf[f] = NoFileTask THEN Whole
               ELSE WithDependency(outputOf[f], t, FALSE, Whole))
    /\ UNCHANGED <<tasks, endDate, outputOf, clock, removals, orphans>>

\* A task in input_of may have been removed: its pointer dangles.
AddOutputFile(t, f) ==
    /\ t \in tasks /\ \A u \in inputOf[f] : NotStarted(u)
    /\ t \notin inputOf[f] /\ outputOf[f] = NoFileTask
    /\ outputOf' = [outputOf EXCEPT ![f] = t]
    /\ IF dangling[f] = {}
       THEN Becomes(FoldLeft(LAMBDA w, u : WithDependency(t, u, FALSE, w), Whole,
                             InOrder(inputOf[f])))
       ELSE /\ ended' = "dangling task"
            /\ UNCHANGED <<dagVars, toplevel, visibleState, internalState>>
    /\ UNCHANGED <<tasks, endDate, inputOf, dangling, clock, removals, orphans>>

\* A dependency that a file makes stays.
MadeByFile(s, d) == \E f \in WorkflowFiles : d \in inputOf[f] /\ outputOf[f] = s

BecomesReady(d, w) ==
    /\ w.visible[d] = "NOT_READY" /\ w.internal[d] = "TASK_NOT_READY"
    /\ \A p \in GetParents(d, w.graph) : w.visible[p] = "COMPLETED"
NeverBecomesReady(d, w) == FALSE  \* mutant
IsFreed(d, w) == BecomesReady(d, w)

RemoveControlDependency(s, d) ==
    /\ {s, d} \subseteq tasks /\ ~MadeByFile(s, d) /\ DoesEdgeExist(s, d, Graph)
    /\ removals < MaxRemovals /\ removals' = removals + 1
    /\ LET g == RemoveEdge(s, d, Graph)
           w == [Whole EXCEPT !.graph = g, !.levels = UpdatedTopLevel(d, toplevel, g)]
       IN  Becomes(IF IsFreed(d, w)
                   THEN [w EXCEPT !.internal[d] = "TASK_READY", !.visible[d] = "READY"]
                   ELSE w)
    /\ UNCHANGED <<tasks, endDate, fileVars, clock, orphans>>

\* getInputOf returns a copy, from which the task is erased: the file keeps the pointer,
\* until a task of that identifier reads the file. The children keep their states.
RemoveTask(t) ==
    /\ t \in tasks /\ visibleState[t] # "PENDING"
    /\ removals < MaxRemovals /\ removals' = removals + 1
    /\ tasks' = tasks \ {t}
    /\ orphans' = orphans \cup GetChildren(t, Graph)
    /\ outputOf' = [f \in WorkflowFiles |-> IF outputOf[f] = t THEN NoFileTask ELSE outputOf[f]]
    /\ inputOf' = [f \in WorkflowFiles |-> inputOf[f] \ {t}]
    /\ dangling' = [f \in WorkflowFiles |-> dangling[f] \cup (inputOf[f] \cap {t})]
    /\ LET g == RemoveVertex(t, Graph)
           children == InOrder(GetChildren(t, Graph))
       IN  Becomes([Whole EXCEPT !.graph = g,
                !.levels = FoldLeft(LAMBDA l, c : UpdatedTopLevel(c, l, g),
                                    toplevel, children)])
    /\ UNCHANGED <<endDate, clock>>

-------------------------------------------------------------------------------
(* The execution of a task, in two steps: it is submitted, and completes. *)

Submit(t) ==
    /\ t \in tasks /\ visibleState[t] = "READY" /\ internalState[t] = "TASK_READY"
    /\ clock < MaxClock
    /\ visibleState' = [visibleState EXCEPT ![t] = "PENDING"]
    /\ internalState' = [internalState EXCEPT ![t] = "TASK_RUNNING"]
    /\ UNCHANGED <<tasks, dagVars, toplevel, endDate, fileVars, clock, removals,
                   orphans, ended>>

\* The children whose parents are all completed are made ready, in both states.
Complete(t) ==
    /\ t \in tasks /\ visibleState[t] = "PENDING"
    /\ clock' = clock + 1
    /\ endDate' = [endDate EXCEPT ![t] = clock']
    /\ LET done == [internalState EXCEPT ![t] = "TASK_COMPLETED"]
           freed == {c \in GetChildren(t, Graph) :
                        \A p \in GetParents(c, Graph) : done[p] = "TASK_COMPLETED"}
       IN  /\ internalState' = [u \in Identifiers |-> IF u \in freed THEN "TASK_READY" ELSE done[u]]
           /\ visibleState' = [u \in Identifiers |-> IF u = t THEN "COMPLETED"
                                          ELSE IF u \in freed THEN "READY" ELSE visibleState[u]]
    /\ UNCHANGED <<tasks, dagVars, toplevel, fileVars, removals, orphans, ended>>

Change ==
    \/ \E t \in Identifiers : AddTask(t) \/ RemoveTask(t)
    \/ \E s, d \in Identifiers : RemoveControlDependency(s, d)
    \/ \E s, d \in Identifiers, r \in Redundant : AddControlDependency(s, d, r)
    \/ \E t \in Identifiers, f \in WorkflowFiles : AddInputFile(t, f) \/ AddOutputFile(t, f)

GraphNext == ended = "no" /\ (Change \/ \E t \in Identifiers : Submit(t) \/ Complete(t))

GraphSpec == GraphInit /\ [][GraphNext]_graphVars

-------------------------------------------------------------------------------
(* The queries of Workflow. *)

GetReadyTasks == {t \in tasks : visibleState[t] = "READY"}
IsDone == \A t \in tasks : visibleState[t] = "COMPLETED"
GetEntryTasks == {t \in tasks : GetNumberOfParents(t, Graph) = 0}
GetExitTasks == {t \in tasks : GetNumberOfChildren(t, Graph) = 0}
GetTasksInTopLevelRange(min, max) == {t \in tasks : toplevel[t] \in min .. max}
GetNumLevels == Max({0} \cup {1 + toplevel[t] : t \in GetExitTasks})

CompletionDateOf(last) ==
    IF last = {} \/ \E t \in last : visibleState[t] # "COMPLETED" THEN -1
    ELSE Max({endDate[t] : t \in last})
CompletionDateOffByOne ==  \* mutant
    CompletionDateOf(GetTasksInTopLevelRange(GetNumLevels, GetNumLevels))

\* The date of the last completion in the last level.
GetCompletionDate ==
    CompletionDateOf(GetTasksInTopLevelRange(GetNumLevels - 1, GetNumLevels - 1))

\* A task in no cluster is one of its own. A task that is not ready is added to the
\* cluster if a ready one, before it in the order of tasks, has created that.
GetReadyClusters ==
    LET key(t) == IF ClusterOf[t] = NoCluster THEN t ELSE ClusterOf[t]
        creator(t) == {u \in GetReadyTasks : u < t /\ key(u) = ClusterOf[t]}
        members == GetReadyTasks \cup {t \in tasks : creator(t) # {}}
    IN  [k \in {key(t) : t \in GetReadyTasks} |-> {t \in members : key(t) = k}]

GetInputFiles == {f \in WorkflowFiles : outputOf[f] = NoFileTask /\ inputOf[f] \cup dangling[f] # {}}

-------------------------------------------------------------------------------
(* Properties. *)

\* The numbers by which tasks are looked up (DagOfTasks.cpp:32, 47-55) are those of
\* their vertices after any removals, and each edge joins tasks of the workflow:
\* otherwise a dependency is silently read from, or given to, another task.
IndexesAgree ==
    ended = "no" =>
        /\ ToSet(vertices) = tasks /\ task_list = vertices
        /\ \A t \in tasks : task_map[t] \in DOMAIN vertices /\ vertices[task_map[t]] = t
        /\ \A e \in DOMAIN edges : edges[e] > 0 => {e[1], e[2]} \subseteq DOMAIN vertices

\* The level of each task is the length of the longest path to it, although each change
\* updates only the tasks behind the one it touches; the levels up to the deepest are
\* those getNumLevels counts, and no dependency joins two tasks of the same level.
LevelsAreDepths ==
    ended = "no" =>
        /\ \A t \in tasks : toplevel[t] =
              IF GetParents(t, Graph) = {} THEN 0
              ELSE 1 + Max({toplevel[p] : p \in GetParents(t, Graph)})
        /\ \A t \in tasks : toplevel[t] < GetNumLevels
        /\ GetEntryTasks = GetTasksInTopLevelRange(0, 0)

\* What the workflow keeps beside its graph agrees with it.
GraphIsSound == IndexesAgree /\ LevelsAreDepths

\* A task that is not started is ready exactly when its parents are completed, and then
\* is in one of the clusters given to the WMS, however dependencies are added and removed
\* while other tasks run, except that the children of a removed task may wait for ever
\* (see the findings); with no removal, no task starts before the files it reads are
\* inputs of the workflow or outputs of completed tasks.
ReadyWhenParentsCompleted ==
    ended = "no" => \A t \in tasks :
        LET completed == \A p \in GetParents(t, Graph) : visibleState[p] = "COMPLETED" IN
        /\ visibleState[t] = "READY" => completed
        /\ visibleState[t] = "NOT_READY" /\ completed => t \in orphans
        /\ visibleState[t] = "READY" =>
              LET clusters == GetReadyClusters IN
              Cardinality({k \in DOMAIN clusters : t \in clusters[k]}) = 1
        /\ removals = 0 /\ visibleState[t] # "NOT_READY" =>
              \A f \in WorkflowFiles : t \in inputOf[f] =>
                  f \in GetInputFiles \/ visibleState[outputOf[f]] = "COMPLETED"

\* When every exit task is in the last level, the completion date of a workflow that is
\* done is that of its last task (for other workflows it need not be, see the findings).
CompletionDateIsLast ==
    ended = "no" /\ tasks # {} /\ IsDone
    /\ (\A t \in GetExitTasks : toplevel[t] = GetNumLevels - 1)
        => GetCompletionDate = Max({endDate[t] : t \in tasks})
===============================================================================
