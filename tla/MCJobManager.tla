---------------------------- MODULE MCJobManager ----------------------------
(* A workflow with a join, for model checking JobManager.tla. *)
EXTENDS JobManager, TLC

CONSTANTS a, b, c, d,           \* tasks: a -> c <- b, c -> d
          ja, jb, jcd, jd,      \* jobs
          s1, s2                \* services

MCParents == (a :> {}) @@ (b :> {}) @@ (c :> {a, b}) @@ (d :> {c})
MCJobTasks == [j \in Jobs |-> CASE j = ja -> {a} [] j = jb -> {b}
                                [] j = jcd -> {c, d} [] j = jd -> {d}]
MCRunnable == (s1 :> Jobs) @@ (s2 :> {jb})
=============================================================================
