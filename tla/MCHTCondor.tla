------------------------------ MODULE MCHTCondor ------------------------------
(* A pool of a service with two cores, and one of one core that may join it. A job of
   two cores, one that takes one or two, one of a core that comes first by its
   priority, and one too large for any service. *)
EXTENDS HTCondor

Msg == INSTANCE Messages

CONSTANTS a, b, c, d, small, large

PoolCores == [s \in Services |-> IF s = large THEN 2 ELSE 1]
PoolMinCores == [j \in Jobs |-> CASE j = a -> 2 [] j = d -> 3 [] OTHER -> 1]
PoolMaxCores == [j \in Jobs |-> CASE j = c -> 1 [] j = d -> 3 [] OTHER -> 2]
PoolPriority == [j \in Jobs |-> IF j = c THEN 1 ELSE 0]

-----------------------------------------------------------------------------
(* The messages.  Every request that is answered names the mailbox of its answer: no
   constructor accepts one without. *)
ASSUME RequestsAreAnswerable ==
  \A kind \in Msg!Kinds : "answer_mailbox" \in Msg!Fields(kind) =>
    ~ Msg!Constructible(kind, Msg!Fields(kind) \ {"answer_mailbox"}, TRUE)

(* An answer says why a request failed, and gives no cause when it did not: where a
   constructor checks it.  The answers about virtual machines are not checked, and what a
   transfer thread reports is not either. *)
ASSUME FailuresAreExplained ==
  {kind \in Msg!Kinds : /\ Msg!Outcome \subseteq Msg!Fields(kind)
                        /\ \/ Msg!Constructible(kind, Msg!Fields(kind), TRUE)
                           \/ Msg!Constructible(kind, Msg!Fields(kind) \ {"failure_cause"},
                                                FALSE)}
    = {"CreateVMAnswer", "StartVMAnswer", "ShutdownVMAnswer", "SuspendVMAnswer",
       "ResumeVMAnswer", "DestroyVMAnswer", "MigrateVMAnswer",
       "FileTransferThreadNotification"}

(* A storage service that answers a write promises a mailbox for the data exactly when it
   accepts it, a copy cannot have updated a registry nobody named, and the free space of a
   mount point is never negative: a service that counted below zero cannot answer. *)
ASSUME StorageAnswersAreSound ==
  /\ \A given \in SUBSET Msg!Fields("FileWriteAnswer"), ok \in BOOLEAN :
       Msg!Constructible("FileWriteAnswer", given, ok) =>
         (ok <=> "data_write_mailbox_name" \in given)
  /\ \A given \in SUBSET Msg!Fields("FileCopyAnswer"), ok \in BOOLEAN :
       Msg!CopyArguments("FileCopyAnswer", given, ok, TRUE) =>
         "file_registry_service" \in given
  /\ ~ Msg!FreeSpaceArguments([mount \in {1, 2} |-> 1 - mount])

(* What is sent to a service is understood by it and answered as its sender expects,
   but for the messages that end the simulation: a question about idle hosts is one for
   every service but a bare-metal one, and the cores of an HTCondor service cannot be
   asked for; a virtualized cluster forgets the destruction of machines, and a central
   manager the failure of jobs. *)
ASSUME MessagesAreUnderstood ==
  /\ \A s \in DOMAIN Msg!Dialogues : Msg!Misunderstood(s) = {}
  /\ [s \in DOMAIN Msg!Dialogues |-> Msg!Fatal(s)] =
       [BareMetal |-> {}, Batch |-> {"IsThereAtLeastOneHostRequest"},
        Cloud |-> {"IsThereAtLeastOneHostRequest"},
        VirtualizedCluster |-> {"IsThereAtLeastOneHostRequest", "DestroyVMRequest"},
        HTCondor |-> {"IsThereAtLeastOneHostRequest", "ResourceInformationRequest"},
        CentralManager |-> {"StandardJobFailed"},
        JobManager |-> {}, FileRegistry |-> {}, NetworkProximity |-> {}]
===============================================================================
