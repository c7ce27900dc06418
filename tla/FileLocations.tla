---------------------------- MODULE FileLocations -----------------------------
(***************************************************************************)
(* Where a file is: paths and their sanitized form, the mount point of a   *)
(* path on a storage service, and the file system mounted there.           *)
(*                                                                         *)
(* A path is what it is split into at its slashes, a sequence of names; a  *)
(* name is a sequence of letters, so that one can be the beginning of      *)
(* another. "/a/b/" is <<Empty, a, b, Empty>>, and "" is <<Empty>>.        *)
(***************************************************************************)
EXTENDS Integers, SequencesExt, FiniteSetsExt, Functions

Empty == <<>>
Dot == <<".">>
DotDot == <<".", ".">>
Root == <<Empty, Empty>>

NoPath == <<<<"invalid_argument">>>>
Throws == [error |-> "invalid_argument"]
NotInitialized == [error |-> "runtime_error"]

(* FileLocation *)

\* A path that ends with a slash is taken to start with one.
Components(path) ==
    LET wrapped == IF Last(path) = Empty THEN path ELSE <<Empty>> \o path \o <<Empty>>
    IN  SubSeq(wrapped, 2, Len(wrapped) - 1)

\* The names so far, or NoPath once the root is left.
Descend(names, name) ==
    CASE names = NoPath -> NoPath
      [] name \in {Dot, Empty} -> names
      [] name = DotDot -> IF names = <<>> THEN NoPath ELSE Front(names)
      [] OTHER -> Append(names, name)

SanitizePath(path) ==
    IF path = <<Empty>> THEN NoPath
    ELSE LET names == FoldLeft(Descend, <<>>, Components(path))
         IN  IF names = NoPath THEN NoPath ELSE <<Empty>> \o names \o <<Empty>>

\* Of the sanitized paths, the shorter is a prefix of the other.
ProperPathPrefix(path1, path2) ==
    LET p == SanitizePath(path1)
        q == SanitizePath(path2)
    IN  \A i \in 2 .. Min({Len(p), Len(q)}) - 1 : p[i] = q[i]

\* Simulation::platformSanityCheck, of the disks of a host in their order.
SaneDisks(disks) ==
    \A i, j \in DOMAIN disks :
        i # j => /\ disks[i] # disks[j]
                 /\ \/ Root \in {disks[i], disks[j]}
                    \/ ~ProperPathPrefix(disks[i], disks[j])

\* path.find(mp) == 0, of strings; and what is left when the prefix is replaced by a slash.
StartsWith(path, mp) ==
    /\ Len(mp) <= Len(path)
    /\ Front(mp) = SubSeq(path, 1, Len(mp) - 1)
    /\ IsPrefix(Last(mp), path[Len(mp)])
ReplacePrefix(path, mp) ==
    <<Empty, SubSeq(path[Len(mp)], Len(Last(mp)) + 1, Len(path[Len(mp)]))>>
        \o SubSeq(path, Len(mp) + 1, Len(path))

\* mounts: the mount points of the service, in the order of the map of its file systems.
Location(mounts, path) ==
    LET absolute == SanitizePath(path)
        found == SelectInSeq(mounts, LAMBDA mp : mp # Root /\ StartsWith(absolute, mp))
        at == IF found = 0 THEN Root ELSE mounts[found]
    IN  IF absolute = NoPath \/ (found = 0 /\ Root \notin ToSet(mounts)) THEN Throws
        ELSE [mount |-> at, dir |-> SanitizePath(ReplacePrefix(absolute, at))]

\* Without a path: of the only mount point.
DefaultLocation(mounts) == IF Len(mounts) > 1 THEN Throws ELSE Location(mounts, mounts[1])

\* mount_point + "/" + absolute_path_at_mount_point
FullAbsolutePath(loc) == SanitizePath(loc.mount \o loc.dir)
SameLocation(loc1, loc2) == FullAbsolutePath(loc1) = FullAbsolutePath(loc2)

GetMountPoint(mounts) == IF Len(mounts) > 1 THEN NoPath ELSE SanitizePath(mounts[1])

(* LogicalFileSystem: the files of each directory, and the space taken *)

NewFileSystem(capacity) ==
    [content |-> [d \in {Root} |-> {}], total |-> capacity, occupied |-> 0,
     reserved |-> {}, up |-> FALSE]

\* init, with the services the mount points of the hosts are taken by.
Register(taken, key, service) ==
    IF key \in DOMAIN taken /\ taken[key] # service THEN Throws
    ELSE [d \in DOMAIN taken \cup {key} |-> IF d \in DOMAIN taken THEN taken[d] ELSE service]
IsInitialized(taken, key) == key \notin DOMAIN taken

\* The file systems of a service, initialized in their order; keys are sanitized.
Initialized(taken, keys, service) ==
    FoldLeft(LAMBDA s, key : IF s.taken = Throws THEN s
                             ELSE [taken |-> Register(s.taken, key, service),
                                   up |-> Append(s.up, IsInitialized(s.taken, key))],
             [taken |-> taken, up |-> <<>>], keys)

DirectoryExists(fs, dir) == dir \in DOMAIN fs.content
CreateDirectory(fs, dir) ==
    IF ~fs.up THEN NotInitialized
    ELSE IF DirectoryExists(fs, dir) THEN Throws
    ELSE [fs EXCEPT !.content = [d \in DOMAIN @ \cup {dir} |-> IF d = dir THEN {} ELSE @[d]]]
RemoveEmptyDirectory(fs, dir) ==
    IF ~fs.up THEN NotInitialized
    ELSE IF ~DirectoryExists(fs, dir) \/ fs.content[dir] # {} THEN Throws
    ELSE [fs EXCEPT !.content = Restrict(@, DOMAIN @ \ {dir})]

IsFileInDirectory(fs, f, dir) == DirectoryExists(fs, dir) /\ f.id \in fs.content[dir]
ListFiles(fs, dir) == IF DirectoryExists(fs, dir) THEN fs.content[dir] ELSE Throws
FreeSpace(fs) == fs.total - fs.occupied

InDirectory(fs, f, dir) ==
    [d \in DOMAIN fs.content \cup {dir} |->
        IF d = dir THEN {f.id} \cup (IF DirectoryExists(fs, d) THEN fs.content[d] ELSE {})
        ELSE fs.content[d]]

\* The file takes the space reserved for it, or more space.
StoreFile(fs, f, dir) ==
    IF ~fs.up THEN NotInitialized
    ELSE [fs EXCEPT !.content = InDirectory(fs, f, dir),
                    !.occupied = IF <<dir, f.id>> \in fs.reserved THEN @ ELSE @ + f.size,
                    !.reserved = @ \ {<<dir, f.id>>}]

\* Before the simulation: the file system is not initialized yet.
StageFile(fs, f, dir) ==
    IF fs.occupied + f.size > fs.total THEN Throws
    ELSE [fs EXCEPT !.content = InDirectory(fs, f, dir), !.occupied = @ + f.size]

RemoveFile(fs, f, dir) ==
    IF ~fs.up THEN NotInitialized
    ELSE IF ~IsFileInDirectory(fs, f, dir) THEN Throws
    ELSE [fs EXCEPT !.content[dir] = @ \ {f.id}, !.occupied = @ - f.size]

\* The space stays occupied.
RemoveAllFiles(fs, dir) ==
    IF ~fs.up THEN NotInitialized
    ELSE IF ~DirectoryExists(fs, dir) THEN Throws
    ELSE [fs EXCEPT !.content[dir] = {}]

ReserveSpace(fs, f, dir) ==
    IF ~fs.up THEN NotInitialized
    ELSE IF FreeSpace(fs) < f.size THEN Throws
    ELSE IF <<dir, f.id>> \in fs.reserved THEN fs
    ELSE [fs EXCEPT !.reserved = @ \cup {<<dir, f.id>>}, !.occupied = @ + f.size]
UnreserveSpace(fs, f, dir) ==
    IF ~fs.up THEN NotInitialized
    ELSE IF <<dir, f.id>> \notin fs.reserved THEN fs
    ELSE [fs EXCEPT !.reserved = @ \ {<<dir, f.id>>}, !.occupied = @ - f.size]

(* What a storage service answers about its file systems, by mount point *)

FreeSpaces(systems) == [mp \in DOMAIN systems |-> FreeSpace(systems[mp])]
TotalSpaces(systems) ==
    IF \E mp \in DOMAIN systems : ~systems[mp].up THEN NotInitialized
    ELSE [mp \in DOMAIN systems |-> systems[mp].total]
LookupFile(systems, f, loc) == IsFileInDirectory(systems[loc.mount], f, loc.dir)

\* readFiles and writeFiles: one after the other in the order of their names, until one
\* fails; the files done.
DoneInOrder(files, failing) ==
    LET sorted == SetToSortSeq(files, LAMBDA f, g : f.id < g.id)
        failed == SelectInSeq(sorted, LAMBDA f : f \in failing)
    IN  IF failed = 0 THEN sorted ELSE SubSeq(sorted, 1, failed - 1)
===============================================================================
