---------------------------- MODULE MCSimpleStorage ----------------------------
(* Two services with a disk of three and one of two units, files of one and two, and
   one connection each. *)
EXTENDS SimpleStorage

CONSTANTS home, cache, short, long, c1, c2

DiskCapacity == [s \in Services |-> IF s = home THEN 3 ELSE 2]
FileSize == [x \in Files |-> IF x = short THEN 1 ELSE 2]
AtHome == [s \in Services |-> IF s = home THEN {short} ELSE {}]
BothWays == {<<home, cache>>, <<cache, home>>}
TwoEach == [c \in Clients |-> 2]

(* Paths, locations and file systems *)

Paths == INSTANCE FileLocations

mountD == <<"d">>
mountD0 == <<"d", "0">>
Names == {mountD, mountD0, <<"x">>}
Written == UNION {[1 .. n -> Names \cup {Paths!Empty, Paths!Dot, Paths!DotDot}] : n \in 1 .. 4}
Absolute(p) == p[1] = Paths!Empty

\* What is sanitized has only names between slashes, and stays as it is; that a path is
\* relative makes no difference to it if it ends with a name, and costs it its first name if
\* it ends with a slash (FileLocation::sanitizePath).
ASSUME SanitizingIsStable ==
    \A p \in Written :
        LET s == Paths!SanitizePath(p) IN
        s # Paths!NoPath =>
            /\ s \in {Paths!Root} \cup {<<Paths!Empty>> \o names \o <<Paths!Empty>> :
                                         names \in UNION {[1 .. n -> Names] : n \in 1 .. 4}}
            /\ Paths!SanitizePath(s) = s
            /\ Last(p) # Paths!Empty => s = Paths!SanitizePath(<<Paths!Empty>> \o p)
            /\ Last(p) = Paths!Empty /\ ~Absolute(p) =>
                  s = Paths!SanitizePath(<<Paths!Empty>> \o Tail(p))

At(name) == <<Paths!Empty, name>>
Mounts == {<<At(mountD)>>, <<Paths!Root, At(mountD0)>>, <<At(mountD), At(<<"x">>)>>}
Below == {p \in Written : Absolute(p) /\ Paths!SanitizePath(p) # Paths!NoPath}

\* A path is found where it says, on the mount point it is below, if no mount point's last
\* name is the beginning of another name (FileLocation::LOCATION).
ASSUME LocationsAreExact ==
    \A mounts \in Mounts, p \in Below :
        LET loc == Paths!Location(mounts, p) IN
        /\ Paths!SaneDisks(mounts)
        /\ mountD0 \notin ToSet(p) /\ loc # Paths!Throws =>
              /\ Paths!FullAbsolutePath(loc) = Paths!SanitizePath(p)
              /\ loc.mount # Paths!Root <=> \E m \in ToSet(mounts) \ {Paths!Root} :
                                               Paths!SanitizePath(p)[2] = m[2]

\* With mount points /d and /d0, both of them sane, a path below /d0 is taken to be on /d.
ASSUME MountsAreConfused ==
    LET mounts == <<At(mountD), At(mountD0)>>
        path == <<Paths!Empty, mountD0, <<"x">>>>
        loc == Paths!Location(mounts, path)
    IN  /\ Paths!SaneDisks(mounts)
        /\ loc.mount = At(mountD)
        /\ loc.dir = Paths!SanitizePath(<<Paths!Empty, <<"0">>, <<"x">>>>)

\* The steps a storage service makes with two files and the directory of each.
TheFiles == {[id |-> 1, size |-> 1], [id |-> 2, size |-> 2]}
DirOf(f) == Paths!SanitizePath(At(IF f.id = 1 THEN mountD ELSE <<"x">>))
Has(fs, f) == Paths!IsFileInDirectory(fs, f, DirOf(f))
StepsOf(fs) ==
    LET rs == {f \in TheFiles : ~Has(fs, f) /\ Paths!FreeSpace(fs) >= f.size}
        waits == {f \in TheFiles : <<DirOf(f), f.id>> \in fs.reserved}
    IN  {Paths!ReserveSpace(fs, f, DirOf(f)) : f \in rs}
          \cup {Paths!StoreFile(fs, f, DirOf(f)) : f \in waits}
          \cup {Paths!UnreserveSpace(fs, f, DirOf(f)) : f \in TheFiles}
          \cup {Paths!RemoveFile(fs, f, DirOf(f)) : f \in {g \in TheFiles : Has(fs, g)}}
Fresh == [Paths!NewFileSystem(2) EXCEPT !.up = TRUE]
FileSystems ==
    LET After[n \in 0 .. 6] ==
          IF n = 0 THEN {Fresh} \cup {Paths!StageFile(Fresh, f, DirOf(f)) : f \in TheFiles}
          ELSE After[n - 1] \cup UNION {StepsOf(fs) : fs \in After[n - 1]}
    IN  After[6]
TakenBy(fs) ==
    MapThenSumSet(LAMBDA f : f.size,
                  {f \in TheFiles : Has(fs, f) \/ <<DirOf(f), f.id>> \in fs.reserved})

\* The space occupied is that of the files stored and of those it is reserved for; it is
\* within the capacity; a file is where the locations of its name lead (LogicalFileSystem).
ASSUME OccupiedIsExact ==
    /\ Cardinality(FileSystems) >= 5
    /\ \A fs \in FileSystems :
          /\ fs.occupied = TakenBy(fs) /\ fs.occupied <= fs.total
          /\ Paths!FreeSpaces([mp \in {"/"} |-> fs]) = [mp \in {"/"} |-> 2 - TakenBy(fs)]
          /\ \A f \in TheFiles : Paths!DirectoryExists(fs, DirOf(f)) =>
                (Has(fs, f) <=> Paths!ListFiles(fs, DirOf(f)) = {f.id})

\* Emptying a directory frees no space (removeAllFilesInDirectory).
ASSUME EmptiedDirectoriesKeepSpace ==
    \A f \in TheFiles :
        LET fs == Paths!RemoveAllFiles(Paths!StageFile(Fresh, f, DirOf(f)), DirOf(f))
        IN  TakenBy(fs) = 0 /\ fs.occupied = f.size

\* A service that names a mount point twice, in two ways, never initializes the second; two
\* services cannot share one (LogicalFileSystem::init).
ASSUME SecondNameIsDead ==
    /\ Paths!Initialized(<<>>, <<"k", "k">>, "s").up = <<TRUE, FALSE>>
    /\ Paths!Initialized([k \in {"k"} |-> "r"], <<"k">>, "s").taken = Paths!Throws
-------------------------------------------------------------------------------
(* The operators of SimulationLaunch, on what sequences of calls set up *)

L == INSTANCE SimulationLaunch

Offered ==
    {L!NewService("registry", "r1", FALSE), L!NewService("registry", "r2", FALSE),
     L!NewService("storage", "s", FALSE), L!NewService("bandwidth", "b", FALSE),
     L!NewService("compute", "c", TRUE)}
TheWorkflow == [files |-> {"in", "out"}, inputs |-> {"in"}, outputs |-> {"out"}]

Calls(sim) ==
    {L!AddService(sim, s) : s \in Offered} \cup {L!AddWMS(sim, "wms")}
    \cup {L!AddWorkflow(sim, w, TheWorkflow) : w \in sim.wmses}
    \cup {L!StageFile(sim, f, TheWorkflow.outputs, "s") :
            f \in IF L!Of(sim, "storage") = {} THEN {} ELSE TheWorkflow.files}
SetUps ==
    LET empty == L!InstantiatePlatform(L!New({}), {}, {})
        after[n \in 0 .. 9] ==
          IF n = 0 THEN {empty}
          ELSE after[n - 1] \cup
               {s \in UNION {Calls(sim) : sim \in after[n - 1]} :
                  s.error = "none" /\ Cardinality(s.wmses) <= 1}
    IN  after[9]
Started(sim) == {p[1] : p \in sim.started}

\* A simulation that is launched knows where every input file is, in every registry, and has
\* started all it was given but its bandwidth meters (Simulation::launch).
ASSUME LaunchesAreSound ==
    \A sim \in SetUps :
        LET launched == L!Launch(sim) IN
        launched.error = "none" =>
            /\ \A f \in TheWorkflow.inputs :
                  /\ \E where \in sim.staged : where[1] = f
                  /\ \A r \in L!Of(sim, "registry") : <<r, f>> \in sim.entries
            /\ sim.services \ Started(launched) = L!Of(sim, "bandwidth")
            /\ \A s \in sim.services : s.scratch => <<L!Scratch(s), FALSE>> \in launched.started

\* A registry that is added after a file was staged makes launch() fail, until the file is
\* staged again; nothing else does, once a WMS has its workflow (checkSimulationSetup).
ASSUME RegistriesComeFirst ==
    LET Ready == {sim \in SetUps : /\ \E w \in sim.wmses : w.given
                                    /\ <<"in", "s">> \in sim.staged}
        Refused == {sim \in Ready : L!Launch(sim).error # "none"}
    IN  /\ Refused # {}
        /\ \A sim \in Ready :
              sim \in Refused <=>
                  \E r \in L!Of(sim, "registry") : <<r, "in">> \notin sim.entries
        /\ \A sim \in Refused :
              L!Launch(L!StageFile(sim, "in", TheWorkflow.outputs, "s")).error = "none"

\* A platform that was refused once can be launched on; with page caching, one that a disk
\* without a mount point is looked at in has no error of its own (platformSanityCheck).
ASSUME RefusedPlatformsStay ==
    LET diskAt(at) == [mount |-> at, read |-> 1, write |-> 1]
        node == [sane |-> TRUE, disks |-> {diskAt("none")}]
        rejected == L!InstantiatePlatform(L!New({}), {[node EXCEPT !.sane = FALSE]}, {1})
        ready == L!AddWorkflow(L!AddWMS(rejected, "wms"),
                               [name |-> "wms", workflow |-> L!NoWorkflow, given |-> FALSE],
                               L!NoWorkflow)
    IN  /\ rejected.error = "invalid_argument"
        /\ L!Launch([ready EXCEPT !.error = "none"]).running
        /\ L!PlatformSanityCheck({node}, {1}, {"pagecache"}) = "null mount point"
        /\ L!PlatformSanityCheck({node}, {1}, {}) = "none"
===============================================================================
