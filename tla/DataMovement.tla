----------------------------- MODULE DataMovement -----------------------------
(***************************************************************************)
(* A WMS that copies, deletes and looks up files: its DataMovementManager, *)
(* which runs the asynchronous copies, the FileRegistryService, which      *)
(* keeps the locations of the files, and what both ask of other services.  *)
(*                                                                         *)
(* A storage service is what it stores and the deletions it has not        *)
(* handled: a copy to it is under way, is being sent by its source, then   *)
(* ends well or not (SimpleStorage has the details). The network proximity *)
(* service, which NetworkProximity models, is up or down here.             *)
(***************************************************************************)
EXTENDS Integers, SequencesExt, FiniteSetsExt

CONSTANTS
    Files, StorageServices,
    Staged,     \* the pairs <<file, service>> that are stored at first
    Down,       \* the storage services that are down
    MaxCalls    \* bound: the calls of the WMS

ASSUME DataAssumption ==
    /\ Staged \subseteq Files \X StorageServices
    /\ Down \subseteq StorageServices
    /\ MaxCalls \in Nat

VARIABLES
    stored,     \* the pairs <<file, service>>: the content of the storage services
    late,       \* the deletions, with no caller any more, that they have not handled yet
    copying,    \* the asynchronous copies under way
    sending,    \* the copies, asynchronous or not, whose source sends the file
    pending,    \* DataMovementManager: pending_file_copies
    dmmMail,    \* its mailbox: the answers of the storage services
    dmm,        \* its main loop: None, or whether the registry has answered
    entries,    \* FileRegistryService: the pairs <<file, service>> of its database
    registryMail,
    registry,   \* its main loop: the request under way, and whether it is up
    proximity,  \* is the network proximity service up?
    call,       \* the call of the WMS under way
    calls,      \* the calls it has made
    blamed,     \* history: the failed copies that were registered and the deletions that were not
    thrown      \* an exception that no handler catches has ended the simulation

storageVars == <<stored, late, copying, sending>>
dmmVars == <<pending, dmmMail, dmm>>
registryVars == <<entries, registryMail, registry>>
wmsVars == <<call, calls>>
dataVars == <<storageVars, dmmVars, registryVars, proximity, wmsVars, blamed, thrown>>

None == [none |-> TRUE]
Where == Files \X StorageServices
Copy == [file : Files, from : StorageServices, to : StorageServices, register : BOOLEAN]
To(c) == <<c.file, c.to>>
Answer == [copy : Copy, success : BOOLEAN]
Client == {"wms", "dmm"}
Op == {"add", "remove", "lookup", "lookup by proximity"}
Request == [op : Op, file : Files, at : StorageServices, client : Client]

\* What the WMS waits for: a copy, a deletion, whose answer may be on the way, or the registry.
WMSCall ==
    [what : {"copy"}, copy : Copy]
      \cup [what : {"delete"}, file : Files, at : StorageServices, answer : {"none", "deleted", "missing"}]
      \cup [what : {"idle", "registry"}]
NoCall == [what |-> "idle"]

DataTypeOK ==
    /\ stored \subseteq Where /\ late \subseteq Where
    /\ entries \subseteq Where /\ blamed \subseteq Where
    /\ copying \subseteq Copy /\ sending \subseteq Copy /\ pending \subseteq Copy
    /\ dmmMail \in Seq(Answer)
    /\ dmm \in {None} \cup [answered : BOOLEAN]
    /\ registryMail \in Seq(Request \cup {[op |-> "stop"]})
    /\ registry \in [up : BOOLEAN, request : Request \cup {None}, left : SUBSET StorageServices]
    /\ proximity \in BOOLEAN
    /\ call \in WMSCall /\ calls \in 0 .. MaxCalls
    /\ thrown \in BOOLEAN

DataInit ==
    /\ stored = Staged /\ late = {}
    /\ copying = {} /\ sending = {} /\ pending = {}
    /\ dmmMail = <<>> /\ dmm = None
    /\ entries = {} /\ registryMail = <<>>
    /\ registry = [up |-> TRUE, request |-> None, left |-> {}]
    /\ proximity = TRUE
    /\ call = NoCall /\ calls = 0
    /\ blamed = {}
    /\ thrown = FALSE

-------------------------------------------------------------------------------
(* The calls of the WMS *)

\* The WMS makes a call. Deletions and copies of one file to one place do not overlap:
\* the WMS waits for the event of an asynchronous copy before it deletes the copy.
Calls == ~thrown /\ call = NoCall /\ calls < MaxCalls /\ calls' = calls + 1

\* Two requests to copy a file to one place are the same, wherever it comes from.
BeingCopied(f, s) == \E c \in pending : To(c) = <<f, s>>

\* initiateAsynchronousFileCopy(): the copy is pending before the storage services are known
\* to be up.
InitiateCopy(c) ==
    /\ Calls /\ c.from # c.to
    /\ ~BeingCopied(c.file, c.to)
    /\ pending' = pending \cup {c}
    /\ copying' = IF {c.from, c.to} \cap Down = {} THEN copying \cup {c} ELSE copying
    /\ UNCHANGED <<stored, late, sending, dmmMail, dmm, registryVars, proximity, call, blamed, thrown>>

\* doSynchronousFileCopy(), the copy itself; the other half is Register.
StartCopy(c) ==
    /\ Calls /\ c.from # c.to /\ {c.from, c.to} \cap Down = {}
    /\ ~BeingCopied(c.file, c.to)
    /\ call' = [what |-> "copy", copy |-> c]
    /\ UNCHANGED <<storageVars, dmmVars, registryVars, proximity, blamed, thrown>>

\* deleteFile(): the request is in the mailbox of the storage service.
StartDeletion(f, s) ==
    /\ Calls /\ s \notin Down /\ ~BeingCopied(f, s)
    /\ call' = [what |-> "delete", file |-> f, at |-> s, answer |-> "none"]
    /\ UNCHANGED <<storageVars, dmmVars, registryVars, proximity, blamed, thrown>>

\* assertServiceIsUp(), then the request is in the mailbox of the registry.
Ask(op, f, s) ==
    /\ call' = IF registry.up THEN [what |-> "registry"] ELSE NoCall
    /\ registryMail' = IF registry.up
                       THEN Append(registryMail, [op |-> op, file |-> f, at |-> s, client |-> "wms"])
                       ELSE registryMail
    /\ UNCHANGED <<entries, registry>>

\* addEntry() of a stored file, lookupEntry() and lookupEntry() by proximity.
AskRegistry(op, f, s) ==
    /\ Calls
    /\ op = "add" => <<f, s>> \in stored
    /\ op # "remove"
    /\ Ask(op, f, s)
    /\ UNCHANGED <<storageVars, dmmVars, proximity, blamed, thrown>>

\* A deletion requested at the destination before the copy is handled before it.
InTurn(c) == To(c) \notin late

\* The synchronous copy ends; if it is a success, the registry is told.
Register ==
    LET c == call.copy
    IN /\ ~thrown /\ call.what = "copy" /\ InTurn(c)
       /\ sending' = sending \ {c}
       /\ \/ /\ c \in sending
             /\ stored' = stored \cup {To(c)}
             /\ IF c.register THEN Ask("add", c.file, c.to)
                ELSE call' = NoCall /\ UNCHANGED registryVars
          \/ /\ call' = NoCall
             /\ UNCHANGED <<stored, registryVars>>
       /\ UNCHANGED <<late, copying, dmmVars, proximity, calls, blamed, thrown>>

Deleting == call.what = "delete"
Deleted == <<call.file, call.at>>

\* mutant
UnregisterNothing ==
    /\ ~thrown /\ Deleting /\ call.answer # "none"
    /\ call' = NoCall
    /\ UNCHANGED <<storageVars, dmmVars, registryVars, proximity, calls, blamed, thrown>>

\* The answer of the storage service: if the file was there, the registry is told.
Unregister ==
    /\ ~thrown /\ Deleting /\ call.answer # "none"
    /\ IF call.answer = "deleted"
       THEN Ask("remove", call.file, call.at) /\ blamed' = blamed \ {Deleted}
       ELSE call' = NoCall /\ UNCHANGED <<registryVars, blamed>>
    /\ UNCHANGED <<storageVars, dmmVars, proximity, calls, thrown>>

\* The answer does not come in time: the caller gives up before the registry is told. The
\* request is handled all the same, if it has not been.
DeletionTimesOut ==
    /\ ~thrown /\ Deleting
    /\ call' = NoCall
    /\ late' = IF call.answer = "none" THEN late \cup {Deleted} ELSE late
    /\ blamed' = IF call.answer = "missing" THEN blamed ELSE blamed \cup {Deleted}
    /\ UNCHANGED <<stored, copying, sending, dmmVars, registryVars, proximity, calls, thrown>>

\* The answer of the registry, or a timeout: the request stays in its mailbox.
ReturnFromRegistry ==
    /\ ~thrown /\ call.what = "registry"
    /\ call' = NoCall
    /\ UNCHANGED <<storageVars, dmmVars, registryVars, proximity, calls, blamed, thrown>>

\* The WMS stops the registry, and waits for it, or until the timeout.
StopRegistry ==
    /\ Calls /\ registry.up
    /\ call' = [what |-> "registry"]
    /\ registryMail' = Append(registryMail, [op |-> "stop"])
    /\ UNCHANGED <<storageVars, dmmVars, entries, registry, proximity, blamed, thrown>>

\* Somebody stops the network proximity service.
StopProximity ==
    /\ ~thrown /\ proximity
    /\ proximity' = FALSE
    /\ UNCHANGED <<storageVars, dmmVars, registryVars, wmsVars, blamed, thrown>>

-------------------------------------------------------------------------------
(* The storage services *)

\* The deletion the WMS waits for is handled, after one it gave up on, and answered.
DeleteFile ==
    /\ ~thrown /\ Deleting /\ call.answer = "none" /\ Deleted \notin late
    /\ stored' = stored \ {Deleted}
    /\ call' = [call EXCEPT !.answer = IF Deleted \in stored THEN "deleted" ELSE "missing"]
    /\ UNCHANGED <<late, copying, sending, dmmVars, registryVars, proximity, calls, blamed, thrown>>

\* A deletion whose caller gave up is handled.
DeleteFileLate(e) ==
    /\ ~thrown /\ e \in late
    /\ stored' = stored \ {e} /\ late' = late \ {e}
    /\ UNCHANGED <<copying, sending, dmmVars, registryVars, proximity, wmsVars, blamed, thrown>>

UnderWay == copying \cup (IF call.what = "copy" THEN {call.copy} ELSE {})

\* The source of a copy has the file, and sends it: it may be deleted from then on.
SourceAccepts(c) ==
    /\ ~thrown /\ c \in UnderWay /\ InTurn(c)
    /\ <<c.file, c.from>> \in stored
    /\ sending' = sending \cup {c}
    /\ UNCHANGED <<stored, late, copying, dmmVars, registryVars, proximity, wmsVars, blamed, thrown>>

-------------------------------------------------------------------------------
(* The asynchronous copies, and the DataMovementManager *)

\* A copy ends and its answer comes to the manager.
CopyEnds(c) ==
    /\ ~thrown /\ InTurn(c)
    /\ copying' = copying \ {c} /\ sending' = sending \ {c}
    /\ \/ /\ c \in sending
          /\ stored' = stored \cup {To(c)}
          /\ dmmMail' = Append(dmmMail, [copy |-> c, success |-> TRUE])
       \/ /\ stored' = stored
          /\ dmmMail' = Append(dmmMail, [copy |-> c, success |-> FALSE])
    /\ UNCHANGED <<late, pending, dmm, registryVars, proximity, wmsVars, blamed, thrown>>

\* mutant
ForgetIfSuccess(answer) ==
    {p \in pending : To(p) # To(answer.copy) \/ ~answer.success}

\* The request that is like the answer is no longer pending.
ForgetCopies(answer) == {p \in pending : To(p) # To(answer.copy)}

\* The registry is told of the copy, whether it has succeeded or not.
ProcessAnswer ==
    LET answer == Head(dmmMail)
        c == answer.copy
        tell == c.register /\ registry.up
    IN /\ ~thrown /\ dmmMail # <<>> /\ dmm = None
       /\ dmmMail' = Tail(dmmMail)
       /\ pending' = ForgetCopies(answer)
       /\ dmm' = IF tell THEN [answered |-> FALSE] ELSE None
       /\ registryMail' = IF tell
                          THEN Append(registryMail, [op |-> "add", file |-> c.file, at |-> c.to,
                                                     client |-> "dmm"])
                          ELSE registryMail
       /\ blamed' = IF tell /\ ~answer.success THEN blamed \cup {To(c)} ELSE blamed
       /\ UNCHANGED <<storageVars, entries, registry, proximity, wmsVars, thrown>>

\* mutant
ReturnWhenAnswered ==
    /\ ~thrown /\ dmm # None /\ dmm.answered
    /\ dmm' = None
    /\ UNCHANGED <<storageVars, pending, dmmMail, registryVars, proximity, wmsVars, blamed, thrown>>

\* The answer of the registry, or a timeout; the WMS gets its event.
ReturnToManager ==
    /\ ~thrown /\ dmm # None
    /\ dmm' = None
    /\ UNCHANGED <<storageVars, pending, dmmMail, registryVars, proximity, wmsVars, blamed, thrown>>

-------------------------------------------------------------------------------
(* The FileRegistryService *)

RegistryRuns == ~thrown /\ registry.up
LocationsOf(f) == {s \in StorageServices : <<f, s>> \in entries}

\* The next message. The database changes at once; the answer takes a computation. A lookup
\* by proximity first asks for the distance of each location.
RegistryReceives ==
    LET r == Head(registryMail)
    IN /\ RegistryRuns /\ registry.request = None /\ registryMail # <<>>
       /\ registryMail' = Tail(registryMail)
       /\ entries' = CASE r.op = "add" -> entries \cup {<<r.file, r.at>>}
                       [] r.op = "remove" -> entries \ {<<r.file, r.at>>}
                       [] OTHER -> entries
       /\ registry' = IF r.op = "stop"
                      THEN [registry EXCEPT !.up = FALSE]
                      ELSE [registry EXCEPT !.request = r,
                                            !.left = IF r.op = "lookup by proximity"
                                                     THEN LocationsOf(r.file) ELSE {}]
       /\ UNCHANGED <<storageVars, dmmVars, proximity, wmsVars, blamed, thrown>>

\* getHostPairDistance() of one location: an exception when the service is down.
AskDistance ==
    /\ RegistryRuns /\ registry.left # {}
    /\ IF proximity
       THEN /\ \E s \in registry.left : registry' = [registry EXCEPT !.left = @ \ {s}]
            /\ thrown' = thrown
       ELSE registry' = registry /\ thrown' = TRUE
    /\ UNCHANGED <<storageVars, dmmVars, entries, registryMail, proximity, wmsVars, blamed>>

\* Each call has an answer mailbox of its own: a late answer is not mistaken for another.
RegistryAnswers ==
    LET forManager == registry.request.client = "dmm" /\ dmm # None
                      /\ ~\E r \in ToSet(registryMail) : r.op # "stop" /\ r.client = "dmm"
    IN /\ RegistryRuns /\ registry.request # None /\ registry.left = {}
       /\ registry' = [registry EXCEPT !.request = None]
       /\ dmm' = IF forManager THEN [answered |-> TRUE] ELSE dmm
       /\ UNCHANGED <<storageVars, pending, dmmMail, entries, registryMail, proximity, wmsVars, blamed,
                      thrown>>

-------------------------------------------------------------------------------

WMSCalls ==
    \/ \E c \in Copy : InitiateCopy(c) \/ StartCopy(c)
    \/ \E f \in Files, s \in StorageServices : StartDeletion(f, s) \/ \E op \in Op : AskRegistry(op, f, s)
    \/ StopRegistry

WMSReturns == Register \/ Unregister \/ DeletionTimesOut \/ ReturnFromRegistry
Deletes == DeleteFile \/ \E e \in late : DeleteFileLate(e)
DMMStep == ProcessAnswer \/ ReturnToManager
RegistryStep == RegistryReceives \/ AskDistance \/ RegistryAnswers

DataNext ==
    \/ WMSCalls \/ WMSReturns \/ StopProximity
    \/ Deletes \/ \E c \in UnderWay : SourceAccepts(c)
    \/ \E c \in copying : CopyEnds(c)
    \/ DMMStep \/ RegistryStep

\* Copies end, and waits for an answer end with the timeout at the latest.
DataSpec ==
    /\ DataInit /\ [][DataNext]_dataVars
    /\ WF_dataVars(WMSReturns) /\ WF_dataVars(Deletes)
    /\ WF_dataVars(DMMStep) /\ WF_dataVars(RegistryStep)
    /\ \A c \in Copy : WF_dataVars(c \in copying /\ CopyEnds(c))

-------------------------------------------------------------------------------
(* Properties *)

Answered == {dmmMail[i].copy : i \in DOMAIN dmmMail}

\* A copy is pending for as long as it is under way or its answer is on the way, and there is
\* one at most of a file to a place: a copy that has failed can be asked for again.
PendingIsUnderWay ==
    /\ DataTypeOK
    /\ pending = copying \cup Answered
    /\ \A c, d \in pending : To(c) = To(d) => c = d

\* The deletion of a stored file has been answered, and the registry does not know yet.
Untold == IF Deleting /\ call.answer = "deleted" THEN {Deleted} ELSE {}

\* A place that the registry lists and that lacks the file is one whose deletion the WMS is
\* about to tell the registry, or has told it, behind requests whose callers may have given
\* up. Excepted, until the next deletion there that the registry is told of, are the
\* destinations of failed copies and the deletions whose caller gave up (both in `blamed`).
RegistryIsTruthful ==
    registry.up =>
      \A e \in entries \ (stored \cup blamed \cup Untold) :
        \E r \in ToSet(registryMail) : r.op = "stop" \/ (r.op = "remove" /\ e = <<r.file, r.at>>)

\* Every asynchronous copy is reported to the WMS, and every call of the WMS returns, even
\* when the registry stops with requests in its mailbox.
CopiesAreReported == <>[](thrown \/ (call = NoCall /\ pending = {} /\ dmm = None))
===============================================================================
