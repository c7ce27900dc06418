------------------------------ MODULE Messages ------------------------------
(***************************************************************************)
(* The messages the actors of a simulation exchange: what each kind of     *)
(* message carries, which arguments its constructor refuses to miss, which *)
(* kinds each actor takes from its mailbox, and which kinds the others put *)
(* there.  A kind is named after its class, without the prefix of its      *)
(* service and the suffix Message.  Sizes of messages (the payloads) are   *)
(* left out, and so are the kinds behind #if 0 or used only with Batsched. *)
(***************************************************************************)
EXTENDS Integers, TLC

JobRequest == {"answer_mailbox", "job"}
JobNotice == {"job", "compute_service"}
Outcome == {"success", "failure_cause"}
FileRequest == {"answer_mailbox", "file", "location"}
VMRequest == {"answer_mailbox", "vm_name"}

-----------------------------------------------------------------------------
(* What each kind carries. *)

StandardJobMessages ==
  [SubmitStandardJobRequest    |-> JobRequest \cup {"service_specific_args"},
   SubmitStandardJobAnswer     |-> JobNotice \cup Outcome,
   StandardJobDone             |-> JobNotice,
   StandardJobFailed           |-> JobNotice \cup {"cause"},
   TerminateStandardJobRequest |-> JobRequest,
   TerminateStandardJobAnswer  |-> JobNotice \cup Outcome]

PilotJobMessages ==
  [SubmitPilotJobRequest    |-> JobRequest \cup {"service_specific_args"},
   SubmitPilotJobAnswer     |-> JobNotice \cup Outcome,
   PilotJobStarted          |-> JobNotice,
   PilotJobExpired          |-> JobNotice,
   PilotJobFailed           |-> JobNotice,
   TerminatePilotJobRequest |-> JobRequest,
   TerminatePilotJobAnswer  |-> JobNotice \cup Outcome]

ResourceMessages ==
  [ResourceInformationRequest |-> {"answer_mailbox"},
   ResourceInformationAnswer  |-> {"info"},
   IsThereAtLeastOneHostRequest |-> {"answer_mailbox", "num_cores", "ram"},
   IsThereAtLeastOneHostAnswer  |-> {"answer"}]

BatchMessages ==
  [BatchJobRequest |-> JobRequest,
   AlarmJobTimeOut |-> {"job"},
   BatchQueryAnswer |-> {"estimated_start_time"}]

VMCreationMessages ==
  [GetExecutionHostsRequest |-> {"answer_mailbox"},
   GetExecutionHostsAnswer  |-> {"execution_hosts"},
   CreateVMRequest |-> {"answer_mailbox", "num_cores", "ram_memory", "desired_vm_name",
                        "property_list", "messagepayload_list"},
   CreateVMAnswer   |-> Outcome \cup {"vm_name"},
   ShutdownVMRequest |-> VMRequest,
   ShutdownVMAnswer  |-> Outcome,
   StartVMRequest |-> VMRequest \cup {"pm_name"},
   StartVMAnswer  |-> Outcome \cup {"cs"}]

VMStateMessages ==
  [SuspendVMRequest |-> VMRequest, SuspendVMAnswer |-> Outcome,
   ResumeVMRequest  |-> VMRequest, ResumeVMAnswer  |-> Outcome,
   DestroyVMRequest |-> VMRequest, DestroyVMAnswer |-> Outcome]

MigrationMessages ==
  [MigrateVMRequest |-> VMRequest \cup {"dest_pm_hostname"},
   MigrateVMAnswer  |-> Outcome]

CentralManagerMessages ==
  [NegotiatorCompletion |-> {"scheduled_jobs"}, CentralManagerWakeUp |-> {}]

FileMessages ==
  [FreeSpaceRequest  |-> {"answer_mailbox"},
   FreeSpaceAnswer   |-> {"free_space"},
   FileLookupRequest |-> FileRequest,
   FileLookupAnswer  |-> {"file", "file_is_available"},
   FileDeleteRequest |-> FileRequest,
   FileDeleteAnswer  |-> Outcome \cup {"file", "storage_service"}]

CopyMessages ==
  [FileCopyRequest |-> {"answer_mailbox", "file", "src", "dst", "file_registry_service"},
   FileCopyAnswer  |-> Outcome \cup {"file", "src", "dst", "file_registry_service",
                                     "file_registry_service_updated"}]

TransferMessages ==
  [FileWriteRequest |-> FileRequest \cup {"buffer_size"},
   FileWriteAnswer  |-> Outcome \cup {"file", "location", "data_write_mailbox_name"},
   FileReadRequest  |-> FileRequest \cup {"buffer_size",
                                          "mailbox_to_receive_the_file_content"},
   FileReadAnswer   |-> Outcome \cup {"file", "location"},
   FileContentChunk |-> {"file", "last_chunk"},
   Ack              |-> {}]

FileTransferThreadMessages ==
  [FileTransferThreadNotification |-> Outcome \cup {"file_transfer_thread", "file",
      "src_mailbox", "src_location", "dst_mailbox", "dst_location",
      "answer_mailbox_if_read", "answer_mailbox_if_write", "answer_mailbox_if_copy"}]

RegistryMessages ==
  [RegistryLookupRequest |-> {"answer_mailbox", "file"},
   RegistryLookupAnswer  |-> {"file", "locations"},
   LookupByProximityRequest |-> {"answer_mailbox", "file", "reference_host",
                                 "network_proximity_service"},
   LookupByProximityAnswer  |-> {"file", "reference_host", "locations"},
   RemoveEntryRequest |-> FileRequest,
   RemoveEntryAnswer  |-> {"success"},
   AddEntryRequest    |-> FileRequest,
   AddEntryAnswer     |-> {}]

ProximityMessages ==
  [ProximityLookupRequest |-> {"answer_mailbox", "hosts"},
   ProximityLookupAnswer  |-> {"hosts", "proximity_value", "timestamp"},
   ProximityComputeAnswer |-> {"hosts", "proximity_value"},
   ProximityTransfer      |-> {},
   NextContactDaemonRequest |-> {"daemon"},
   NextContactDaemonAnswer  |-> {"next_host_to_send", "next_daemon_to_send",
                                 "next_mailbox_to_send"},
   CoordinateLookupRequest |-> {"answer_mailbox", "requested_host"},
   CoordinateLookupAnswer  |-> {"requested_host", "success", "xy_coordinate", "timestamp"}]

ExecutorMessages ==
  [WorkunitExecutorDone      |-> {"workunit_executor", "workunit"},
   WorkunitExecutorFailed    |-> {"workunit_executor", "workunit", "cause"},
   StandardJobExecutorDone   |-> {"executor", "job"},
   StandardJobExecutorFailed |-> {"executor", "job", "cause"},
   ComputeThreadDone         |-> {}]

JobManagerMessages ==
  [JobManagerStandardJobDone   |-> JobNotice \cup {"necessary_state_changes"},
   JobManagerStandardJobFailed |-> JobNotice \cup {"necessary_state_changes",
                                   "necessary_failure_count_increments", "cause"}]

WMSMessages == [AlarmWMSDeferredStart |-> {}, AlarmWMSTimer |-> {"message"}]

HostMessages ==
  [HostHasTurnedOn |-> {"hostname"}, HostHasTurnedOff |-> {"hostname"},
   HostHasChangedSpeed |-> {"hostname", "speed"}]

TerminationMessages ==
  [ServiceHasCrashed |-> {"service"}, ServiceHasTerminated |-> {"service", "exit_code"}]

ServiceMessages ==
  [ServiceStopDaemon |-> {"ack_mailbox"}, ServiceDaemonStopped |-> {},
   ServiceTTLExpired |-> {}]

Tables == {StandardJobMessages, PilotJobMessages, ResourceMessages, BatchMessages,
           VMCreationMessages, VMStateMessages, MigrationMessages, CentralManagerMessages,
           FileMessages, CopyMessages, TransferMessages, FileTransferThreadMessages,
           RegistryMessages, ProximityMessages, ExecutorMessages, JobManagerMessages,
           WMSMessages, HostMessages, TerminationMessages, ServiceMessages}

Kinds == UNION {DOMAIN t : t \in Tables}

Fields(kind) == (CHOOSE t \in Tables : kind \in DOMAIN t)[kind]

-----------------------------------------------------------------------------
(* What the constructors check.  `given` are the arguments that are neither  *)
(* null nor empty, `ok` the value of the argument success where there is one *)

Explained(given, ok) == ok <=> "failure_cause" \notin given

StandardJobArguments(kind, given, ok) ==
  CASE kind \in {"SubmitStandardJobRequest", "TerminateStandardJobRequest"} ->
         JobRequest \subseteq given
    [] kind \in {"SubmitStandardJobAnswer", "TerminateStandardJobAnswer"} ->
         JobNotice \subseteq given /\ Explained(given, ok)
    [] kind = "StandardJobDone" -> JobNotice \subseteq given
    [] kind = "StandardJobFailed" -> JobNotice \cup {"cause"} \subseteq given

PilotJobArguments(kind, given, ok) ==
  CASE kind \in {"SubmitPilotJobRequest", "TerminatePilotJobRequest"} ->
         JobRequest \subseteq given
    [] kind \in {"SubmitPilotJobAnswer", "TerminatePilotJobAnswer"} ->
         JobNotice \subseteq given /\ Explained(given, ok)
    [] kind \in {"PilotJobStarted", "PilotJobExpired", "PilotJobFailed"} ->
         JobNotice \subseteq given

ResourceArguments(kind, given, ok) ==
  kind \in {"ResourceInformationRequest", "IsThereAtLeastOneHostRequest"} =>
    "answer_mailbox" \in given

BatchArguments(kind, given, ok) ==
  CASE kind = "BatchJobRequest" -> JobRequest \subseteq given
    [] kind = "AlarmJobTimeOut" -> "job" \in given
    [] OTHER -> TRUE

(* The answers of a cloud service are not checked. *)
VMCreationArguments(kind, given, ok) ==
  CASE kind \in {"GetExecutionHostsRequest", "CreateVMRequest"} -> "answer_mailbox" \in given
    [] kind \in {"ShutdownVMRequest", "StartVMRequest"} -> VMRequest \subseteq given
    [] OTHER -> TRUE

VMStateArguments(kind, given, ok) ==
  kind \in {"SuspendVMRequest", "ResumeVMRequest", "DestroyVMRequest"} =>
    VMRequest \subseteq given

MigrationArguments(kind, given, ok) ==
  kind = "MigrateVMRequest" => MigrationMessages[kind] \subseteq given

FileArguments(kind, given, ok) ==
  CASE kind = "FreeSpaceRequest" -> "answer_mailbox" \in given
    [] kind \in {"FileLookupRequest", "FileDeleteRequest"} -> FileRequest \subseteq given
    [] kind = "FileLookupAnswer" -> "file" \in given
    [] kind = "FileDeleteAnswer" ->
         {"file", "storage_service"} \subseteq given /\ Explained(given, ok)
    [] OTHER -> TRUE

(* The amount a FreeSpaceAnswer carries, per mount point, is not negative. *)
FreeSpaceArguments(free_space) == \A mount \in DOMAIN free_space : free_space[mount] >= 0

(* updated: the argument file_registry_service_updated. *)
CopyArguments(kind, given, ok, updated) ==
  IF kind = "FileCopyRequest" THEN {"answer_mailbox", "file", "src", "dst"} \subseteq given
  ELSE /\ {"file", "src", "dst"} \subseteq given
       /\ Explained(given, ok)
       /\ updated => "file_registry_service" \in given

TransferArguments(kind, given, ok) ==
  CASE kind = "FileWriteRequest" -> FileRequest \subseteq given
    [] kind = "FileWriteAnswer" ->
         /\ {"file", "location"} \subseteq given
         /\ Explained(given, ok)
         /\ ok <=> "data_write_mailbox_name" \in given
    [] kind = "FileReadRequest" ->
         FileRequest \cup {"mailbox_to_receive_the_file_content"} \subseteq given
    [] kind = "FileReadAnswer" -> {"file", "location"} \subseteq given /\ Explained(given, ok)
    [] kind = "FileContentChunk" -> "file" \in given
    [] OTHER -> TRUE

RegistryArguments(kind, given, ok) ==
  CASE kind = "RegistryLookupAnswer" -> "file" \in given
    [] kind = "LookupByProximityAnswer" -> {"file", "reference_host"} \subseteq given
    [] kind \in {"RemoveEntryAnswer", "AddEntryAnswer"} -> TRUE
    [] OTHER -> RegistryMessages[kind] \subseteq given

ProximityArguments(kind, given, ok) ==
  CASE kind \in {"ProximityLookupAnswer", "ProximityComputeAnswer"} -> "hosts" \in given
    [] kind = "CoordinateLookupAnswer" -> "requested_host" \in given
    [] kind \in {"ProximityTransfer", "NextContactDaemonAnswer"} -> TRUE
    [] OTHER -> ProximityMessages[kind] \subseteq given

(* Whether the constructor of a message accepts its arguments; those of the  *)
(* other kinds check nothing.                                                *)
Constructible(kind, given, ok) ==
  CASE kind \in DOMAIN StandardJobMessages -> StandardJobArguments(kind, given, ok)
    [] kind \in DOMAIN PilotJobMessages    -> PilotJobArguments(kind, given, ok)
    [] kind \in DOMAIN ResourceMessages    -> ResourceArguments(kind, given, ok)
    [] kind \in DOMAIN BatchMessages       -> BatchArguments(kind, given, ok)
    [] kind \in DOMAIN VMCreationMessages  -> VMCreationArguments(kind, given, ok)
    [] kind \in DOMAIN VMStateMessages     -> VMStateArguments(kind, given, ok)
    [] kind \in DOMAIN MigrationMessages   -> MigrationArguments(kind, given, ok)
    [] kind \in DOMAIN FileMessages        -> FileArguments(kind, given, ok)
    [] kind \in DOMAIN CopyMessages        -> CopyArguments(kind, given, ok, FALSE)
    [] kind \in DOMAIN TransferMessages    -> TransferArguments(kind, given, ok)
    [] kind \in DOMAIN RegistryMessages    -> RegistryArguments(kind, given, ok)
    [] kind \in DOMAIN ProximityMessages   -> ProximityArguments(kind, given, ok)
    [] OTHER -> TRUE

-----------------------------------------------------------------------------
(* The exchanges.  A function that asks a service something puts a request   *)
(* in its mailbox and accepts one kind of answer in a mailbox of its own.  A *)
(* handler answers with one kind, or with "nothing" when nobody waits, and   *)
(* "throws" when it ends the simulation instead.                             *)

(* Functions of every compute service. *)
InformationCalls ==
  [IsThereAtLeastOneHostRequest |-> "IsThereAtLeastOneHostAnswer",
   ResourceInformationRequest |-> "ResourceInformationAnswer"]

BareMetalCalls ==
  [SubmitStandardJobRequest |-> "SubmitStandardJobAnswer",
   SubmitPilotJobRequest |-> "SubmitPilotJobAnswer",
   TerminateStandardJobRequest |-> "TerminateStandardJobAnswer"]

BatchCalls ==
  [BatchJobRequest |-> "SubmitAnswerOfTheJob",
   TerminateStandardJobRequest |-> "TerminateStandardJobAnswer",
   TerminatePilotJobRequest |-> "TerminatePilotJobAnswer"]

CloudVMCalls ==
  [GetExecutionHostsRequest |-> "GetExecutionHostsAnswer",
   CreateVMRequest   |-> "CreateVMAnswer",
   ShutdownVMRequest |-> "ShutdownVMAnswer"]

CloudStateCalls ==
  [StartVMRequest   |-> "StartVMAnswer",
   SuspendVMRequest |-> "SuspendVMAnswer",
   ResumeVMRequest  |-> "ResumeVMAnswer"]

CloudJobCalls ==
  [DestroyVMRequest |-> "DestroyVMAnswer",
   SubmitStandardJobRequest |-> "SubmitStandardJobAnswer",
   SubmitPilotJobRequest |-> "SubmitPilotJobAnswer"]

ClusterCalls == [StartVMRequest |-> "StartVMAnswer", MigrateVMRequest |-> "MigrateVMAnswer"]

HTCondorCalls ==
  [SubmitStandardJobRequest |-> "SubmitStandardJobAnswer",
   SubmitPilotJobRequest |-> "SubmitPilotJobAnswer"]

CentralManagerCalls ==
  [SubmitStandardJobRequest |-> "SubmitStandardJobAnswer",
   SubmitPilotJobRequest |-> "SubmitPilotJobAnswer",
   CentralManagerWakeUp |-> "nothing"]

RegistryCalls ==
  [RegistryLookupRequest |-> "RegistryLookupAnswer",
   LookupByProximityRequest |-> "LookupByProximityAnswer",
   AddEntryRequest |-> "AddEntryAnswer"]

RegistryRemovals == [RemoveEntryRequest |-> "RemoveEntryAnswer"]

ProximityCalls ==
  [CoordinateLookupRequest |-> "CoordinateLookupAnswer",
   ProximityLookupRequest |-> "ProximityLookupAnswer"]

(* What a daemon of the proximity service sends it. *)
DaemonCalls ==
  [NextContactDaemonRequest |-> "NextContactDaemonAnswer",
   ProximityComputeAnswer |-> "nothing"]

SpaceCalls == [FreeSpaceRequest |-> "FreeSpaceAnswer"]

FileCalls ==
  [FileLookupRequest |-> "FileLookupAnswer", FileReadRequest |-> "FileReadAnswer"]

(* What the other actors tell a service of their own accord. *)
BareMetalNotices ==
  {"HostHasTurnedOn", "HostHasTurnedOff", "HostHasChangedSpeed", "WorkunitExecutorDone",
   "WorkunitExecutorFailed", "ServiceHasCrashed"}
BatchNotices ==
  {"StandardJobExecutorDone", "StandardJobExecutorFailed", "PilotJobExpired",
   "AlarmJobTimeOut"}
CallbackNotices ==
  {"StandardJobDone", "StandardJobFailed", "PilotJobStarted", "PilotJobExpired"}

-----------------------------------------------------------------------------
(* The kinds processNextMessage tells apart, and how each is answered.       *)

BareMetalReplies ==
  BareMetalCalls @@ InformationCalls @@ [k \in BareMetalNotices |-> "nothing"]
    @@ [ServiceStopDaemon |-> "ServiceDaemonStopped"]

BatchReplies ==
  BatchCalls @@ [k \in BatchNotices |-> "nothing"]
    @@ [ServiceStopDaemon |-> "ServiceDaemonStopped",
        ResourceInformationRequest |-> "ResourceInformationAnswer",
        IsThereAtLeastOneHostRequest |-> "throws"]

CloudReplies ==
  CloudVMCalls @@ CloudStateCalls @@ CloudJobCalls
    @@ [ServiceStopDaemon |-> "ServiceDaemonStopped",
        ResourceInformationRequest |-> "ResourceInformationAnswer",
        IsThereAtLeastOneHostRequest |-> "throws",
        ServiceHasTerminated |-> "nothing"]

(* A virtualized cluster is a cloud service with a dispatch of its own. *)
ClusterReplies ==
  CloudVMCalls @@ CloudStateCalls @@ ClusterCalls @@ HTCondorCalls
    @@ [ServiceStopDaemon |-> "ServiceDaemonStopped",
        ResourceInformationRequest |-> "ResourceInformationAnswer",
        ServiceHasTerminated |-> "nothing"]

HTCondorReplies == HTCondorCalls @@ [ServiceStopDaemon |-> "ServiceDaemonStopped"]

CentralManagerReplies ==
  CentralManagerCalls
    @@ [ServiceStopDaemon |-> "ServiceDaemonStopped", NegotiatorCompletion |-> "nothing",
        PilotJobStarted |-> "nothing", PilotJobExpired |-> "nothing",
        StandardJobDone |-> "nothing"]

(* The managers stop without an acknowledgement. *)
JobManagerReplies ==
  [k \in CallbackNotices \cup {"ServiceStopDaemon"} |-> "nothing"]

RegistryReplies ==
  RegistryCalls @@ RegistryRemovals @@ [ServiceStopDaemon |-> "ServiceDaemonStopped"]

ProximityReplies ==
  ProximityCalls @@ DaemonCalls @@ [ServiceStopDaemon |-> "ServiceDaemonStopped"]

(* A service: what is sent to it, and what it does with it. *)
Stop == [ServiceStopDaemon |-> "ServiceDaemonStopped"]
Told(notices) == [k \in notices |-> "nothing"]

Dialogues ==
  [BareMetal |-> [sent |-> BareMetalCalls @@ InformationCalls @@ Stop
                             @@ Told(BareMetalNotices),
                  replies |-> BareMetalReplies],
   Batch |-> [sent |-> BatchCalls @@ InformationCalls @@ Stop @@ Told(BatchNotices),
              replies |-> BatchReplies],
   Cloud |-> [sent |-> CloudVMCalls @@ CloudStateCalls @@ CloudJobCalls @@ InformationCalls
                         @@ Stop @@ Told({"ServiceHasTerminated"}),
              replies |-> CloudReplies],
   VirtualizedCluster |->
     [sent |-> CloudVMCalls @@ CloudStateCalls @@ CloudJobCalls @@ ClusterCalls
                 @@ InformationCalls @@ Stop @@ Told({"ServiceHasTerminated"}),
      replies |-> ClusterReplies],
   HTCondor |-> [sent |-> HTCondorCalls @@ InformationCalls @@ Stop,
                 replies |-> HTCondorReplies],
   CentralManager |-> [sent |-> CentralManagerCalls @@ Stop
                                  @@ Told(CallbackNotices \cup {"NegotiatorCompletion"}),
                       replies |-> CentralManagerReplies],
   JobManager |-> [sent |-> Told(CallbackNotices \cup {"ServiceStopDaemon"}),
                   replies |-> JobManagerReplies],
   FileRegistry |-> [sent |-> RegistryCalls @@ RegistryRemovals @@ Stop,
                     replies |-> RegistryReplies],
   NetworkProximity |-> [sent |-> ProximityCalls @@ DaemonCalls @@ Stop,
                         replies |-> ProximityReplies]]

(* The messages sent to a service that end the simulation: those it does not *)
(* know and those whose handler throws.                                      *)
Fatal(s) ==
  LET sent == Dialogues[s].sent
      replies == Dialogues[s].replies
  IN {k \in DOMAIN sent : k \notin DOMAIN replies \/ replies[k] = "throws"}

(* The messages a service answers otherwise than their sender expects. *)
Misunderstood(s) ==
  LET sent == Dialogues[s].sent
      replies == Dialogues[s].replies
  IN {k \in DOMAIN sent \ Fatal(s) : replies[k] # sent[k]}

=============================================================================
