------------------------------- MODULE PageCache -------------------------------
(***************************************************************************)
(* The page cache of a host: the MemoryManager, its two LRU lists of       *)
(* blocks, its daemon that writes expired dirty blocks to the disk, and    *)
(* the tasks whose files go through it, chunk by chunk.                    *)
(*                                                                         *)
(* An actor runs until it waits for a disk or for the memory; only then    *)
(* may another one run. The blocks have whole sizes, so that a quotient    *)
(* is rounded down; the date at which a dirty block expires is any date.   *)
(***************************************************************************)
EXTENDS Integers, SequencesExt, FiniteSetsExt

CONSTANTS
    Tasks,
    Files,
    Size,       \* Size[f]
    Work,       \* Work[t]: the chunks that t reads and writes, in order
    Total,      \* the memory of the host
    DirtyPart   \* <<a, b>>: dirty_ratio is a / b

Op == {"read", "write", "through", "fetch"}
Chunk == [op : Op, file : Files, n : Nat \ {0}]

ASSUME CacheAssumption ==
    /\ Size \in [Files -> Nat \ {0}] /\ Total \in Nat \ {0}
    /\ \A f \in Files : Size[f] <= Total
    /\ Work \in [Tasks -> Seq(Chunk)]
    /\ DirtyPart \in Nat \X (Nat \ {0})

VARIABLES
    inactive, active,   \* the LRU lists: inactive_list, active_list
    cached, free, dirty,\* the counters of the MemoryManager
    daemon,             \* the main loop of the MemoryManager
    pc,                 \* pc[t]: what t waits for, or is about to do
    todo,               \* todo[t]: the chunks of t that are left
    local,              \* local[t]: the variables of the operation under way
    owed                \* history: bytes the tasks wrote that no disk has got yet

counters == <<cached, free, dirty>>
memoryVars == <<inactive, active, counters>>
taskVars == <<pc, todo, local>>
vars == <<memoryVars, daemon, taskVars, owed>>

Idle == [disk |-> 0, cache |-> 0, amount |-> 0, flushed |-> 0, flushing |-> 0, left |-> 0]

\* `held`: the daemon has a pointer to the block, while it writes it.
Block == [file : Files, size : Int, dirty : BOOLEAN, expired : BOOLEAN, held : BOOLEAN]

\* A task that runs has not come to its next wait yet; the others wait.
Runs == {"flush inactive", "flush active", "make room", "read cache"}
Waits == {"ready", "inactive flushed", "active flushed", "disk read", "cache read",
          "written", "written through", "done"}
PC == Runs \cup Waits

TypeOK ==
    /\ inactive \in Seq(Block) /\ active \in Seq(Block)
    /\ cached \in Int /\ free \in Int /\ dirty \in Int /\ owed \in Int
    /\ daemon \in [list : {"inactive", "active"}, writing : Nat, size : Int]
    /\ pc \in [Tasks -> PC]
    /\ \A t \in Tasks : IsSuffix(todo[t], Work[t])
    /\ local \in [Tasks -> [DOMAIN Idle -> Int]]

Init ==
    /\ inactive = <<>> /\ active = <<>>
    /\ cached = 0 /\ free = Total /\ dirty = 0
    /\ daemon = [list |-> "inactive", writing |-> 0, size |-> 0]
    /\ pc = [t \in Tasks |-> "ready"]
    /\ todo = Work
    /\ local = [t \in Tasks |-> Idle]
    /\ owed = 0

-------------------------------------------------------------------------------
(* Blocks, and lists of blocks *)

NewBlock(f, n, isDirty) ==
    [file |-> f, size |-> n, dirty |-> isDirty, expired |-> FALSE, held |-> FALSE]

Clean(b) == [b EXCEPT !.dirty = FALSE, !.expired = FALSE]

\* mutant
CleanPart(b, n) == [b EXCEPT !.size = n, !.held = FALSE, !.dirty = FALSE]

\* The part that split() takes off b: a block of its own.
Part(b, n) == [b EXCEPT !.size = n, !.held = FALSE]

\* What is left of b.
Rest(b, n) == [b EXCEPT !.size = @ - n]

Bytes(list) == FoldSeq(LAMBDA b, n : b.size + n, 0, list)
DirtyBytes(list) == Bytes(SelectSeq(list, LAMBDA b : b.dirty))

CachedAmount(f) == Bytes(SelectSeq(inactive \o active, LAMBDA b : b.file = f))

AvailableMemory == free + cached - dirty

SmallerOf(m, n) == IF m <= n THEN m ELSE n

\* Part of the active list goes to the inactive one. What has been moved is not counted:
\* every block that is small enough goes.
Balance(ina, act) ==
    LET move == (Bytes(act) - Bytes(ina)) \div 2
        large == {i \in 1 .. Len(act) : act[i].size > move}
        first == IF large = {} THEN Len(act) + 1 ELSE Min(large)
    IN CASE Bytes(act) <= 2 * Bytes(ina) -> [ina |-> ina, act |-> act]
         [] large = {} -> [ina |-> ina \o act, act |-> <<>>]
         [] OTHER -> [ina |-> ina \o SubSeq(act, 1, first - 1) \o <<Part(act[first], move)>>,
                      act |-> <<Rest(act[first], move)>> \o SubSeq(act, first + 1, Len(act))]

\* The daemon's pointer to a block stays good when the block leaves the lists.
HeldSize(ina, act) ==
    LET held == SelectSeq(ina \o act, LAMBDA b : b.held)
    IN IF held = <<>> THEN daemon.size ELSE Head(held).size

SetLists(ina, act) ==
    /\ inactive' = ina /\ active' = act
    /\ daemon' = [daemon EXCEPT !.size = HeldSize(ina, act)]

-------------------------------------------------------------------------------
(* Flushing and eviction: the blocks of one list, from its head *)

\* mutant
NoFlushedPart(b, n) == <<>>

\* The part of b that is flushed becomes a block of its own.
FlushedPart(b, n) == <<Clean(Part(b, n))>>

\* Dirty blocks of other files than `excluded` become clean until `amount` bytes are
\* about to be written; of the last one, only a part, which goes to the inactive list.
FlushList(list, amount, excluded) ==
    FoldLeft(LAMBDA r, b :
               IF r.stop \/ ~b.dirty \/ b.file = excluded
               THEN [r EXCEPT !.list = Append(@, b)]
               ELSE IF r.flushed + b.size <= amount
               THEN [r EXCEPT !.list = Append(@, Clean(b)), !.flushed = @ + b.size]
               ELSE IF r.flushed < amount
               THEN [r EXCEPT !.list = Append(@, Rest(b, amount - r.flushed)),
                              !.part = FlushedPart(b, amount - r.flushed),
                              !.flushed = amount]
               ELSE [r EXCEPT !.list = Append(@, b), !.stop = TRUE],
             [list |-> <<>>, part |-> <<>>, flushed |-> 0, stop |-> amount <= 0], list)

\* Clean blocks of other files than `excluded` go, until `amount` bytes are freed.
EvictList(list, amount, excluded) ==
    FoldLeft(LAMBDA r, b :
               IF r.stop \/ b.dirty \/ b.file = excluded
               THEN [r EXCEPT !.list = Append(@, b)]
               ELSE IF r.evicted + b.size <= amount
               THEN [r EXCEPT !.evicted = @ + b.size]
               ELSE [r EXCEPT !.list = Append(@, Rest(b, amount - r.evicted)),
                              !.evicted = amount, !.stop = TRUE],
             [list |-> <<>>, evicted |-> 0, stop |-> amount <= 0], list)

Evict(amount, excluded) ==
    LET i == EvictList(inactive, amount, excluded)
        a == EvictList(active, IF i.evicted < amount THEN amount ELSE 0, excluded)
    IN [ina |-> i.list, act |-> a.list, evicted |-> i.evicted + a.evicted]

-------------------------------------------------------------------------------
(* Reading from the cache *)

\* The first `amount` bytes of f in a list: the clean ones are taken out, to become one new
\* block; the dirty ones are moved to the end of the active list. (If f has fewer bytes
\* there, the code reads those dirty blocks once more: the lists keep their bytes.)
TakeFrom(list, f, amount) ==
    FoldLeft(LAMBDA r, b :
               IF r.read >= amount \/ b.file # f
               THEN [r EXCEPT !.list = Append(@, b)]
               ELSE LET n == SmallerOf(b.size, amount - r.read)
                        all == n = b.size
                    IN [list |-> IF all THEN r.list ELSE Append(r.list, Rest(b, n)),
                        read |-> r.read + n,
                        clean |-> r.clean + (IF b.dirty THEN 0 ELSE n),
                        dirty |-> IF b.dirty
                                  THEN Append(r.dirty, IF all THEN b ELSE Part(b, n))
                                  ELSE r.dirty],
             [list |-> <<>>, read |-> 0, clean |-> 0, dirty |-> <<>>], list)

ReadFromCache(f, amount) ==
    LET i == TakeFrom(inactive, f, amount)
        a == TakeFrom(active \o i.dirty, f, amount - i.read)
        clean == i.clean + a.clean
    IN Balance(i.list, a.list \o a.dirty \o
                       (IF clean > 0 THEN <<NewBlock(f, clean, FALSE)>> ELSE <<>>))

-------------------------------------------------------------------------------
(* The steps of a task *)

Current(t) == Head(todo[t])
File(t) == Current(t).file

\* Nobody else runs.
Turn(t) == \A u \in Tasks \ {t} : pc[u] \notin Runs

Goto(t, where, values) ==
    /\ pc' = [pc EXCEPT ![t] = where]
    /\ local' = [local EXCEPT ![t] = values]
    /\ todo' = todo

\* A chunk is done.
EndChunk(t) ==
    /\ pc' = [pc EXCEPT ![t] = "ready"]
    /\ local' = [local EXCEPT ![t] = Idle]
    /\ todo' = [todo EXCEPT ![t] = Tail(@)]

\* What fits of n bytes once `amount` bytes have been evicted.
Fitting(t, amount, n) == SmallerOf(n, free + Evict(amount, File(t)).evicted)

\* evict(), then addToCache().
EvictAndAdd(t, amount, n, isDirty) ==
    LET e == Evict(amount, File(t))
    IN /\ SetLists(Append(e.ina, NewBlock(File(t), n, isDirty)), e.act)
       /\ cached' = cached - e.evicted + n
       /\ free' = free + e.evicted - n
       /\ dirty' = IF isDirty THEN dirty + n ELSE dirty
       /\ owed' = IF isDirty THEN owed + n ELSE owed

BeginFlush(t, amount, values) ==
    Goto(t, IF amount > 0 THEN "flush inactive" ELSE "make room",
         [values EXCEPT !.amount = amount, !.flushed = 0])

\* flush(): the two lists in turn. The blocks are clean before they are written.
FlushInactive(t) ==
    LET r == FlushList(inactive, local[t].amount, IF Current(t).op = "read" THEN File(t) ELSE "")
    IN /\ pc[t] = "flush inactive"
       /\ SetLists(r.list \o r.part, active)
       /\ Goto(t, IF r.flushed > 0 THEN "inactive flushed" ELSE "flush active",
               [local[t] EXCEPT !.flushing = r.flushed, !.flushed = r.flushed])
       /\ UNCHANGED <<counters, owed>>

FlushActive(t) ==
    LET r == FlushList(active, local[t].amount - local[t].flushed,
                       IF Current(t).op = "read" THEN File(t) ELSE "")
    IN /\ pc[t] = "flush active"
       /\ SetLists(inactive \o r.part, r.list)
       /\ Goto(t, IF r.flushed > 0 THEN "active flushed" ELSE "make room",
               [local[t] EXCEPT !.flushing = r.flushed])
       /\ UNCHANGED <<counters, owed>>

\* The disk has got the bytes.
Flushed(t) ==
    /\ pc[t] \in {"inactive flushed", "active flushed"}
    /\ dirty' = dirty - local[t].flushing
    /\ owed' = owed - local[t].flushing
    /\ Goto(t, IF pc[t] = "inactive flushed" THEN "flush active" ELSE "make room",
            [local[t] EXCEPT !.flushing = 0])
    /\ UNCHANGED <<inactive, active, cached, free, daemon>>

\* readWithMemoryCache(): what the cache has of the file does not come from the disk.
BeginRead(t) ==
    LET n == Current(t).n
        disk == SmallerOf(n, Size[File(t)] - CachedAmount(File(t)))
    IN /\ pc[t] = "ready" /\ todo[t] # <<>> /\ Current(t).op = "read"
       /\ BeginFlush(t, n + disk - free - Bytes(inactive),
                     [Idle EXCEPT !.disk = disk, !.cache = n - disk])
       /\ UNCHANGED <<memoryVars, daemon, owed>>

MakeRoomToRead(t) ==
    LET disk == local[t].disk
        e == Evict(Current(t).n + disk - free, File(t))
        b == Balance(Append(e.ina, NewBlock(File(t), disk, FALSE)), e.act)
        read == IF disk > 0 THEN disk ELSE 0
    IN /\ pc[t] = "make room" /\ Current(t).op = "read"
       /\ IF disk > 0 THEN SetLists(b.ina, b.act) ELSE SetLists(e.ina, e.act)
       /\ cached' = cached - e.evicted + read
       /\ free' = free + e.evicted - read
       /\ Goto(t, IF disk > 0 THEN "disk read" ELSE "read cache", local[t])
       /\ UNCHANGED <<dirty, owed>>

ReadCache(t) ==
    LET r == ReadFromCache(File(t), local[t].cache)
    IN /\ pc[t] \in {"disk read", "read cache"} /\ local[t].cache > 0
       /\ SetLists(r.ina, r.act)
       /\ Goto(t, "cache read", local[t])
       /\ UNCHANGED <<counters, owed>>

\* The task has its bytes: useAnonymousMemory().
EndRead(t) ==
    /\ \/ pc[t] = "cache read"
       \/ pc[t] = "disk read" /\ local[t].cache <= 0
    /\ free' = IF free < Current(t).n THEN 0 ELSE free - Current(t).n
    /\ EndChunk(t)
    /\ UNCHANGED <<inactive, active, cached, dirty, daemon, owed>>

\* writebackWithMemoryCache(): first what the bound on dirty data allows, then, bit by bit,
\* what fits after a flush and an eviction. What is fetched from a server is clean.
Remaining(isDirty) ==
    IF isDirty THEN (DirtyPart[1] * AvailableMemory - DirtyPart[2] * dirty) \div DirtyPart[2]
    ELSE AvailableMemory

BeginWrite(t) ==
    LET n == Current(t).n
        isDirty == Current(t).op = "write"
        allowed == Remaining(isDirty)
        amount == SmallerOf(n, allowed) - free
        some == Fitting(t, amount, n)
    IN /\ pc[t] = "ready" /\ todo[t] # <<>> /\ Current(t).op \in {"write", "fetch"}
       /\ IF allowed > 0
          THEN /\ EvictAndAdd(t, amount, some, isDirty)
               /\ Goto(t, "written", [Idle EXCEPT !.left = n - some])
          ELSE /\ BeginFlush(t, n, [Idle EXCEPT !.left = n])
               /\ UNCHANGED <<memoryVars, daemon, owed>>

WriteMore(t) ==
    /\ pc[t] = "written" /\ local[t].left > 0
    /\ BeginFlush(t, local[t].left, local[t])
    /\ UNCHANGED <<memoryVars, daemon, owed>>

MakeRoomToWrite(t) ==
    LET amount == local[t].left - free
        some == Fitting(t, amount, local[t].left)
    IN /\ pc[t] = "make room" /\ Current(t).op \in {"write", "fetch"}
       /\ EvictAndAdd(t, amount, some, Current(t).op = "write")
       /\ Goto(t, "written", [local[t] EXCEPT !.left = @ - some])

EndWrite(t) ==
    /\ pc[t] = "written" /\ local[t].left <= 0
    /\ EndChunk(t)
    /\ UNCHANGED <<memoryVars, daemon, owed>>

\* writeThroughWithMemoryCache(): to the disk, then to the cache.
BeginWriteThrough(t) ==
    /\ pc[t] = "ready" /\ todo[t] # <<>> /\ Current(t).op = "through"
    /\ Goto(t, "written through", Idle)
    /\ UNCHANGED <<memoryVars, daemon, owed>>

EndWriteThrough(t) ==
    LET n == Current(t).n
    IN /\ pc[t] = "written through"
       /\ EvictAndAdd(t, n - free, n, FALSE)
       /\ EndChunk(t)

\* performWork() ends: the memory that the input files took is released.
Inputs(t) == {f \in Files : \E i \in DOMAIN Work[t] : Work[t][i] = [op |-> "read", file |-> f,
                                                                n |-> Work[t][i].n]}
Release(t) ==
    /\ pc[t] = "ready" /\ todo[t] = <<>>
    /\ free' = SmallerOf(Total, free + MapThenSumSet(LAMBDA f : Size[f], Inputs(t)))
    /\ pc' = [pc EXCEPT ![t] = "done"]
    /\ UNCHANGED <<inactive, active, cached, dirty, daemon, todo, local, owed>>

TaskStep(t) ==
    /\ Turn(t)
    /\ \/ FlushInactive(t) \/ FlushActive(t) \/ Flushed(t)
       \/ BeginRead(t) \/ MakeRoomToRead(t) \/ ReadCache(t) \/ EndRead(t)
       \/ BeginWrite(t) \/ WriteMore(t) \/ MakeRoomToWrite(t) \/ EndWrite(t)
       \/ BeginWriteThrough(t) \/ EndWriteThrough(t)
       \/ Release(t)

-------------------------------------------------------------------------------
(* The daemon: pdflush(), then it sleeps until the next interval *)

DaemonMay == \A t \in Tasks : pc[t] \notin Runs
List(name) == IF name = "inactive" THEN inactive ELSE active

\* mutant
DueAtHead(list) == {i \in DOMAIN list : i = 1 /\ list[i].dirty /\ list[i].expired}

Due(list) == {i \in DOMAIN list : list[i].dirty /\ list[i].expired}

\* flushExpiredData(): the first expired block is clean, then written, which takes time.
StartWriting ==
    LET list == List(daemon.list)
        first == Min(Due(list))
        flushed == [list EXCEPT ![first] = [Clean(list[first]) EXCEPT !.held = TRUE]]
    IN /\ DaemonMay /\ daemon.writing = 0 /\ Due(list) # {}
       /\ inactive' = IF daemon.list = "inactive" THEN flushed ELSE inactive
       /\ active' = IF daemon.list = "active" THEN flushed ELSE active
       /\ daemon' = [daemon EXCEPT !.writing = list[first].size, !.size = list[first].size]
       /\ UNCHANGED <<counters, taskVars, owed>>

\* The counter loses what is left of the block by now, not what has been written.
EndWriting ==
    LET letGo(list) == [i \in DOMAIN list |-> [list[i] EXCEPT !.held = FALSE]]
    IN /\ DaemonMay /\ daemon.writing > 0
       /\ dirty' = dirty - daemon.size
       /\ owed' = owed - daemon.writing
       /\ inactive' = letGo(inactive) /\ active' = letGo(active)
       /\ daemon' = [daemon EXCEPT !.writing = 0, !.size = 0]
       /\ UNCHANGED <<cached, free, taskVars>>

NextList ==
    /\ DaemonMay /\ daemon.writing = 0 /\ Due(List(daemon.list)) = {}
    /\ daemon' = [daemon EXCEPT !.list = IF @ = "inactive" THEN "active" ELSE "inactive"]
    /\ UNCHANGED <<memoryVars, taskVars, owed>>

\* expired_time has passed for a block.
Expires ==
    /\ DaemonMay
    /\ \/ /\ \E i \in DOMAIN inactive :
               /\ inactive[i].dirty /\ ~inactive[i].expired
               /\ inactive' = [inactive EXCEPT ![i].expired = TRUE]
          /\ active' = active
       \/ /\ \E i \in DOMAIN active :
               /\ active[i].dirty /\ ~active[i].expired
               /\ active' = [active EXCEPT ![i].expired = TRUE]
          /\ inactive' = inactive
    /\ UNCHANGED <<counters, daemon, taskVars, owed>>

DaemonStep == StartWriting \/ EndWriting \/ NextList

Next == (\E t \in Tasks : TaskStep(t)) \/ DaemonStep \/ Expires

\* Weak fairness, with the states in which the actors may go on written out.
CanGoOn(t) == Turn(t) /\ pc[t] # "done"
CanExpire == DaemonMay /\ \E b \in ToSet(inactive \o active) : b.dirty /\ ~b.expired

\* Waits for a disk or the memory end, the daemon wakes up, and time passes.
Spec ==
    /\ Init /\ [][Next]_vars
    /\ \A t \in Tasks : <>[]CanGoOn(t) => []<><<TaskStep(t)>>_vars
    /\ <>[]DaemonMay => []<><<DaemonStep>>_vars
    /\ <>[]CanExpire => []<><<Expires>>_vars

-------------------------------------------------------------------------------
(* Properties *)

Blocks == inactive \o active
InFlight == daemon.writing + MapThenSumSet(LAMBDA t : local[t].flushing, Tasks)

\* `cached` is the size of the blocks of the two lists, however they are split, merged,
\* moved, flushed in part and evicted while tasks and daemon wait for the disks; no block
\* has a negative size, and no task takes memory that neither was free nor has been evicted.
CachedAccounted ==
    /\ TypeOK
    /\ cached = Bytes(Blocks) /\ cached <= Total /\ free >= 0
    /\ \A i \in DOMAIN Blocks : Blocks[i].size >= 0

\* What the tasks wrote is on the disk, on its way to it, or in dirty blocks: no eviction and
\* no merging of blocks drops data that the disk has not got. And `dirty`, which bounds
\* what tasks may write without waiting for the disk, never understates it.
DirtyDataIsKept ==
    /\ owed = DirtyBytes(Blocks) + InFlight
    /\ dirty >= owed

\* The chunks of the tasks end, and what they wrote comes to the disk.
EverythingIsWritten == <>[](owed = 0 /\ \A t \in Tasks : pc[t] = "done")
===============================================================================
