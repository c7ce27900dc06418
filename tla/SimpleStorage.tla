----------------------------- MODULE SimpleStorage -----------------------------
(***************************************************************************)
(* Simple storage services that serve clients, and each other, over a      *)
(* limited number of data connections. A request that is accepted becomes  *)
(* a file transfer thread (a transfer, below) that waits for a connection, *)
(* and reports to its service when it has ended. The transfer of a copy,   *)
(* at the destination, is itself a reader of the source service.           *)
(*                                                                         *)
(* A client has one request at a time: it stands for a caller of           *)
(* StorageService, or for a copy started by initiateFileCopy. Who waits    *)
(* for the first answer of a service gives up after the network timeout;   *)
(* the request stays where it is. (To give up on the last acknowledgment   *)
(* changes nothing here: the transfer has ended.) A service has one mount  *)
(* point with one directory. The chunks of a file, and the page cache,     *)
(* only take time.                                                         *)
(***************************************************************************)
EXTENDS Integers, SequencesExt, FiniteSetsExt

CONSTANTS
    Services, Files, Clients,
    Capacity,       \* Capacity[s]: the space of the disk of s
    Size,           \* Size[f]
    Staged,         \* Staged[s]: the files staged on s before the simulation
    MaxConnections, \* the services' MAX_NUM_CONCURRENT_DATA_CONNECTIONS
    Routes,         \* the pairs <<source, destination>> of the copies
    Unlucky,        \* the clients whose transfers may be cut by network errors
    Impatient,      \* those for whom the answer of a service may come too late
    Requests        \* bound: Requests[c], how many requests c makes

SizeOf(files) == SumFunctionOnSet(Size, files)

ASSUME StorageAssumption ==
    /\ Services # {} /\ Files # {} /\ IsFiniteSet(Files)
    /\ Capacity \in [Services -> Nat] /\ Size \in [Files -> Nat \ {0}]
    /\ Staged \in [Services -> SUBSET Files]
    /\ \A s \in Services : SizeOf(Staged[s]) <= Capacity[s]
    /\ MaxConnections \in Nat \ {0}
    /\ Routes \subseteq {r \in Services \X Services : r[1] # r[2]}
    /\ Unlucky \subseteq Clients /\ Impatient \subseteq Clients
    /\ Requests \in [Clients -> Nat]

VARIABLES
    disk,       \* disk[s]: the logical file system of s
    mailbox,    \* mailbox[s]
    pending,    \* pending[s]: pending_file_transfer_threads
    running,    \* running[s]: running_file_transfer_threads
    request,    \* request[c]: the last request of c
    stage,      \* stage[c]: how far it is
    left,       \* left[c]: the requests c may still make
    rewritten,  \* history: rewritten[s], the files s was to get while it had them, or
                \* was getting them already
    aborted     \* an exception that no handler catches has ended the simulation

serviceVars == <<disk, pending, running, rewritten, aborted>>
clientVars == <<request, left>>
vars == <<serviceVars, mailbox, clientVars, stage>>

Op == {"write", "read", "copy", "delete"}
Request == {r \in [op : Op, file : Files, at : Services, from : Services] :
              IF r.op = "copy" THEN <<r.from, r.at>> \in Routes ELSE r.from = r.at}

\* A copy has two transfers: its own, and the "read" of the source on its behalf.
Transfer == [op : {"write", "read", "copy"}, client : Clients]
Message == [what : {"asked", "done", "failed"}, op : Op, client : Clients]

\* idle, asked, accepted by the service; for a copy: fetching from the source, refused
\* or fed by it; ended, but the service does not know: late, when the transfer of a copy
\* gave up on the source. gone: nobody waits for what a service does with the request.
Stage == {"idle", "asked", "accepted", "fetching", "refused", "fed", "ended", "late", "gone"}

TypeOK ==
    /\ disk \in [Services -> [stored : SUBSET Files, reserved : SUBSET Files, occupied : Nat]]
    /\ mailbox \in [Services -> Seq(Message)]
    /\ pending \in [Services -> Seq(Transfer)]
    /\ running \in [Services -> SUBSET Transfer]
    /\ request \in [Clients -> Request]
    /\ stage \in [Clients -> Stage]
    /\ left \in [Clients -> Nat]
    /\ rewritten \in [Services -> SUBSET Files]
    /\ aborted \in BOOLEAN

Init ==
    /\ disk = [s \in Services |-> [stored |-> Staged[s], reserved |-> {}, occupied |-> SizeOf(Staged[s])]]
    /\ mailbox = [s \in Services |-> <<>>]
    /\ pending = [s \in Services |-> <<>>]
    /\ running = [s \in Services |-> {}]
    /\ request \in [Clients -> {CHOOSE r \in Request : r.op = "read"}]
    /\ stage = [c \in Clients |-> "idle"]
    /\ left = Requests
    /\ rewritten = [s \in Services |-> {}]
    /\ aborted = FALSE

-------------------------------------------------------------------------------
(* LogicalFileSystem, on a disk d. Reservations are keyed by the path of the file. *)

HasEnoughFreeSpace(s, f) == Capacity[s] - disk[s].occupied >= Size[f]

ReserveSpace(d, f) ==
    IF f \in d.reserved THEN d
    ELSE [d EXCEPT !.reserved = @ \cup {f}, !.occupied = @ + Size[f]]

UnreserveSpace(d, f) ==
    IF f \in d.reserved
    THEN [d EXCEPT !.reserved = @ \ {f}, !.occupied = @ - Size[f]] ELSE d

StoreUnreserved(d, f) ==                                                \* mutant
    [d EXCEPT !.stored = @ \cup {f}, !.occupied = @ + Size[f], !.reserved = @ \ {f}]

\* The space that was reserved is now the file's.
StoreFile(d, f) ==
    [d EXCEPT !.stored = @ \cup {f}, !.reserved = @ \ {f},
              !.occupied = IF f \in d.reserved THEN @ ELSE @ + Size[f]]

RemoveFile(d, f) == [d EXCEPT !.stored = @ \ {f}, !.occupied = @ - Size[f]]

-------------------------------------------------------------------------------
(* A service: a message, and then the pending transfers that have a connection. *)

Asked(op, c) == [what |-> "asked", op |-> op, client |-> c]
TransferOf(op, c) == [op |-> op, client |-> c]

Receive(s, what, op, c) ==
    /\ ~aborted
    /\ mailbox[s] # <<>> /\ Head(mailbox[s]) = [what |-> what, op |-> op, client |-> c]
    /\ mailbox' = [mailbox EXCEPT ![s] = Tail(@)]

StartOne(s, queue, active) ==                                           \* mutant
    LET n == Min({Len(queue), MaxConnections - Cardinality(active), Cardinality(active)}) IN
      /\ pending' = [pending EXCEPT ![s] = SubSeq(queue, n + 1, Len(queue))]
      /\ running' = [running EXCEPT ![s] = active \cup ToSet(SubSeq(queue, 1, n))]

\* startPendingFileTransferThread, given the transfers in line and under way.
StartPending(s, queue, active) ==
    LET n == Min({Len(queue), MaxConnections - Cardinality(active)}) IN
      /\ pending' = [pending EXCEPT ![s] = SubSeq(queue, n + 1, Len(queue))]
      /\ running' = [running EXCEPT ![s] = active \cup ToSet(SubSeq(queue, 1, n))]

\* The answer to a request; what is accepted goes on although its client is gone.
Answer(c, answer) ==
    stage' = [stage EXCEPT ![c] = IF @ = "gone" /\ answer = "accepted" THEN "gone" ELSE answer]

\* The answer to the transfer of a copy that asked for the content.
AnswerCopy(c, found) ==
    stage' = [stage EXCEPT ![c] = CASE @ = "fetching" -> IF found THEN "fed" ELSE "refused"
                                    [] @ = "late" /\ ~found -> "ended"
                                    [] @ = "gone" /\ ~found -> "idle"
                                    [] OTHER -> @]

UnderWay(s) == ToSet(pending[s]) \cup running[s]
Coming(s) == {request[t.client].file : t \in {t \in UnderWay(s) : t.op # "read"}}
MarkRewrite(s, f) ==
    rewritten' = [rewritten EXCEPT ![s] =
                    IF f \in disk[s].stored \cup Coming(s) THEN @ \cup {f} ELSE @]

\* A write of a file the service has is not checked for space, and then reserveSpace
\* throws if there is none.
ProcessFileWriteRequest(s, c) ==
    LET f == request[c].file
        room == HasEnoughFreeSpace(s, f)
    IN  /\ Receive(s, "asked", "write", c)
        /\ \/ /\ room
              /\ disk' = [disk EXCEPT ![s] = ReserveSpace(@, f)]
              /\ MarkRewrite(s, f)
              /\ StartPending(s, Append(pending[s], TransferOf("write", c)), running[s])
              /\ Answer(c, "accepted")
              /\ UNCHANGED aborted
           \/ /\ ~room /\ f \notin disk[s].stored
              /\ Answer(c, "idle")
              /\ StartPending(s, pending[s], running[s])
              /\ UNCHANGED <<disk, rewritten, aborted>>
           \/ /\ ~room /\ f \in disk[s].stored
              /\ aborted' = TRUE
              /\ UNCHANGED <<disk, pending, running, rewritten, stage>>
        /\ UNCHANGED clientVars

\* Reads go before the transfers in line. The reader may be the transfer of a copy.
ProcessFileReadRequest(s, c) ==
    LET found == request[c].file \in disk[s].stored
        queue == IF found THEN <<TransferOf("read", c)>> \o pending[s] ELSE pending[s]
    IN  /\ Receive(s, "asked", "read", c)
        /\ StartPending(s, queue, running[s])
        /\ IF request[c].op = "copy" THEN AnswerCopy(c, found)
           ELSE Answer(c, IF found THEN "accepted" ELSE "idle")
        /\ UNCHANGED <<disk, rewritten, aborted, clientVars>>

\* A copy of a file the service has reserves nothing.
ProcessFileCopyRequest(s, c) ==
    LET f == request[c].file
        known == f \in disk[s].stored
        accepted == known \/ HasEnoughFreeSpace(s, f)
        queue == IF accepted THEN Append(pending[s], TransferOf("copy", c)) ELSE pending[s]
    IN  /\ Receive(s, "asked", "copy", c)
        /\ disk' = [disk EXCEPT ![s] = IF accepted /\ ~known THEN ReserveSpace(@, f) ELSE @]
        /\ IF accepted THEN MarkRewrite(s, f) ELSE UNCHANGED rewritten
        /\ StartPending(s, queue, running[s])
        /\ Answer(c, IF accepted THEN "accepted" ELSE "idle")
        /\ UNCHANGED <<aborted, clientVars>>

ProcessFileDeleteRequest(s, c) ==
    LET f == request[c].file
    IN  /\ Receive(s, "asked", "delete", c)
        /\ disk' = [disk EXCEPT ![s] = IF f \in @.stored THEN RemoveFile(@, f) ELSE @]
        /\ StartPending(s, pending[s], running[s])
        /\ Answer(c, "idle")
        /\ UNCHANGED <<rewritten, aborted, clientVars>>

AnswerSuccessOnly(s, op, c, what) ==                                    \* mutant
    /\ Receive(s, what, op, c)
    /\ disk' = [disk EXCEPT ![s] =
         IF op = "read" THEN @
         ELSE IF what = "done" THEN StoreFile(@, request[c].file)
         ELSE UnreserveSpace(@, request[c].file)]
    /\ StartPending(s, pending[s], running[s] \ {TransferOf(op, c)})
    /\ stage' = IF op = request[c].op /\ what = "done"
                THEN [stage EXCEPT ![c] = IF @ = "late" THEN "gone" ELSE "idle"] ELSE stage
    /\ UNCHANGED <<rewritten, aborted, clientVars>>

\* A transfer has ended: what it brought is stored or, after a failure, its space is
\* free again; its client is told (nobody listens for the read of a copy).
ProcessFileTransferThreadNotification(s, op, c, what) ==
    /\ Receive(s, what, op, c)
    /\ disk' = [disk EXCEPT ![s] =
         IF op = "read" THEN @
         ELSE IF what = "done" THEN StoreFile(@, request[c].file)
         ELSE UnreserveSpace(@, request[c].file)]
    /\ StartPending(s, pending[s], running[s] \ {TransferOf(op, c)})
    /\ stage' = IF op = request[c].op
                THEN [stage EXCEPT ![c] = IF @ = "late" THEN "gone" ELSE "idle"] ELSE stage
    /\ UNCHANGED <<rewritten, aborted, clientVars>>

ServiceStep(s) ==
    \E c \in Clients :
      \/ ProcessFileWriteRequest(s, c)
      \/ ProcessFileReadRequest(s, c)
      \/ ProcessFileCopyRequest(s, c)
      \/ ProcessFileDeleteRequest(s, c)
      \/ \E op \in {"write", "read", "copy"}, what \in {"done", "failed"} :
           ProcessFileTransferThreadNotification(s, op, c, what)

-------------------------------------------------------------------------------
(* Clients and transfers. A client whose requests have left no transfer behind asks
   for something else. *)

Put(s, message) == mailbox' = [mailbox EXCEPT ![s] = Append(@, message)]

Ask(c) ==
    /\ ~aborted
    /\ stage[c] = "idle" /\ left[c] > 0
    /\ \A s \in Services : \A t \in running[s] : t.client # c
    /\ \E r \in Request :
         /\ request' = [request EXCEPT ![c] = r]
         /\ Put(r.at, Asked(r.op, c))
    /\ stage' = [stage EXCEPT ![c] = "asked"]
    /\ left' = [left EXCEPT ![c] = @ - 1]
    /\ UNCHANGED serviceVars

\* The service has not answered in time. (The answer to a copy is waited for with no limit.)
GiveUp(c) ==
    /\ ~aborted /\ c \in Impatient
    /\ stage[c] = "asked" /\ request[c].op # "copy"
    /\ stage' = [stage EXCEPT ![c] = "gone"]
    /\ UNCHANGED <<serviceVars, mailbox, clientVars>>

Connected(c, op) == ~aborted /\ TransferOf(op, c) \in running[request[c].at]

Outcome(c) == IF c \in Unlucky THEN {"done", "failed"} ELSE {"done"}

\* The content goes over the connection, between the client and the service.
Exchange(c) ==
    /\ stage[c] = "accepted" /\ request[c].op \in {"write", "read"}
    /\ Connected(c, request[c].op)
    /\ \E what \in Outcome(c) :
         Put(request[c].at, [what |-> what, op |-> request[c].op, client |-> c])
    /\ stage' = [stage EXCEPT ![c] = "ended"]
    /\ UNCHANGED <<serviceVars, clientVars>>

\* The transfer of a copy asks the source for the file.
Fetch(c) ==
    /\ stage[c] = "accepted" /\ Connected(c, "copy")
    /\ Put(request[c].from, Asked("read", c))
    /\ stage' = [stage EXCEPT ![c] = "fetching"]
    /\ UNCHANGED <<serviceVars, clientVars>>

\* The source has not answered in time: the copy fails, and the source does not know.
FetchTimesOut(c) ==
    /\ c \in Impatient /\ stage[c] = "fetching" /\ Connected(c, "copy")
    /\ Put(request[c].at, [what |-> "failed", op |-> "copy", client |-> c])
    /\ stage' = [stage EXCEPT ![c] = "late"]
    /\ UNCHANGED <<serviceVars, clientVars>>

FetchRefused(c) ==
    /\ stage[c] = "refused" /\ Connected(c, "copy")
    /\ Put(request[c].at, [what |-> "failed", op |-> "copy", client |-> c])
    /\ stage' = [stage EXCEPT ![c] = "ended"]
    /\ UNCHANGED <<serviceVars, clientVars>>

\* The content goes from the source to the destination, each with a connection; then
\* both transfers report.
Download(c) ==
    /\ stage[c] = "fed" /\ Connected(c, "copy")
    /\ TransferOf("read", c) \in running[request[c].from]
    /\ \E what \in Outcome(c) :
         LET report(op) == [what |-> what, op |-> op, client |-> c]
         IN  mailbox' = [mailbox EXCEPT ![request[c].from] = Append(@, report("read")),
                                        ![request[c].at] = Append(@, report("copy"))]
    /\ stage' = [stage EXCEPT ![c] = "ended"]
    /\ UNCHANGED <<serviceVars, clientVars>>

TransferStep(c) == Exchange(c) \/ Fetch(c) \/ FetchRefused(c) \/ Download(c)

Next ==
    \/ \E s \in Services : ServiceStep(s)
    \/ \E c \in Clients : Ask(c) \/ GiveUp(c) \/ TransferStep(c) \/ FetchTimesOut(c)

Spec == Init /\ [][Next]_vars

\* Daemons handle their messages, transfers that can proceed do.
FairSpec ==
    /\ Spec
    /\ \A s \in Services : WF_vars(ServiceStep(s))
    /\ \A c \in Clients : WF_vars(TransferStep(c))

-------------------------------------------------------------------------------
\* Space is reserved for the transfers under way and for nothing else: whatever way they
\* end, no reservation stays behind. A file that is not asked for again while the service
\* has it, or is getting it, keeps its reservation until its transfer has ended.
ReservedForTransfers ==
    \A s \in Services :
      /\ disk[s].reserved \subseteq Coming(s)
      /\ Coming(s) \ rewritten[s] \subseteq disk[s].reserved \ disk[s].stored

\* What a service counts as occupied covers the files it stores and those it is getting,
\* but for the second of two transfers of one file: the two share a reservation, which ends
\* with the first of them (LogicalFileSystem.cpp:245). What is counted is exact, and fits on
\* the disk, as long as no file is asked for while the service has it or is getting it.
SpaceAccounted ==
    /\ TypeOK /\ ReservedForTransfers
    /\ \A s \in Services :
         /\ disk[s].occupied >= SizeOf(disk[s].stored) + SizeOf(disk[s].reserved)
         /\ disk[s].occupied >= SizeOf(disk[s].stored \cup (Coming(s) \ rewritten[s]))
         /\ rewritten[s] = {} =>
              /\ disk[s].occupied = SizeOf(disk[s].stored \cup Coming(s))
              /\ disk[s].occupied <= Capacity[s]

\* A transfer only waits when all connections are taken, and never are more taken than
\* there are.
ConnectionsUsed ==
    \A s \in Services :
      /\ Cardinality(running[s]) <= MaxConnections
      /\ pending[s] # <<>> => Cardinality(running[s]) = MaxConnections

\* Nobody sends or takes the content of this transfer: it holds its connection for ever.
Orphan(t) == t.op # "copy" /\ stage[t.client] \in {"late", "gone"}

\* The transfer of a copy at s waits for a connection of a service in S.
WaitsFor(t, S) ==
    /\ t.op = "copy" /\ stage[t.client] = "fed"
    /\ request[t.client].from \in S
    /\ TransferOf("read", t.client) \notin running[request[t.client].from]

\* The services of S have all their connections taken by transfers that cannot end, since
\* nobody is at the other end or since they wait for each other.
Jammed(S) ==
    \A s \in S :
      /\ Cardinality(running[s]) = MaxConnections
      /\ \A t \in running[s] : Orphan(t) \/ WaitsFor(t, S)

\* StorageService.cpp:584: the answer mailbox of a copy is "the mailbox to which a
\* notification message will be sent". Every request is answered, and then nothing of it
\* is left, unless its caller gave up, or a service it needs is jammed: copies in a circle
\* and requests that were given up are the only ways to be left without an answer.
EveryRequestEnds ==
    \A c \in Clients :
      stage[c] # "idle" ~>
        \/ aborted
        \/ stage[c] = "gone"
        \/ stage[c] = "idle" /\ \A s \in Services : TransferOf(request[c].op, c) \notin running[s]
        \/ \E S \in SUBSET Services : {request[c].at, request[c].from} \cap S # {} /\ Jammed(S)
===============================================================================
