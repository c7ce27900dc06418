CONSTANTS
    a = a  b = b  c = c  d = d
    ja = ja  jb = jb  jcd = jcd  jd = jd
    s1 = s1  s2 = s2
    NoService = NoService
    Tasks = {a, b, c, d}
    Parents <- MCParents
    Jobs = {ja, jb, jcd, jd}
    JobTasks <- MCJobTasks
    Services = {s1, s2}
    Runnable <- MCRunnable
    WithScratch = {s1}
    UsesScratch = {jd}
    FailingTasks = {d}
    Terminable = {ja}
    Stoppable = {s2}
    MaxFailures = 1
    MaxCallbacks = 2
SPECIFICATION FairSpec
INVARIANTS
    TypeOK
    NoLostJob
    TasksAreSafe
    NoStuckTask
PROPERTIES
    ImplementsProgress
    JobsAreReported
CHECK_DEADLOCK FALSE
