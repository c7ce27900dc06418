---------------------------- MODULE HTCondorProofs ----------------------------
(* Proofs about HTCondor.tla, for every set of jobs and services, whatever cores they
   have, and services that join, jobs that fail and stops at any time. *)
EXTENDS HTCondor, FiniteSetTheorems, SequenceTheorems, TLAPS

-------------------------------------------------------------------------------
(* The reports of negotiators in a mailbox *)

ReportsIn(mail) == {i \in DOMAIN mail : mail[i].type = "Negotiated"}

\* A message added to the mailbox is one more report, or none.
LEMMA ReportsAppend ==
    ASSUME NEW S, NEW mail \in Seq(S), NEW m \in S
    PROVE  ReportsIn(Append(mail, m)) =
             ReportsIn(mail) \cup (IF m.type = "Negotiated" THEN {Len(mail) + 1} ELSE {})
<1>1. /\ DOMAIN Append(mail, m) = DOMAIN mail \cup {Len(mail) + 1}
      /\ \A i \in DOMAIN mail : Append(mail, m)[i] = mail[i]
      /\ Append(mail, m)[Len(mail) + 1] = m
      /\ Len(mail) + 1 \notin DOMAIN mail
  OBVIOUS
<1> QED
  BY <1>1 DEF ReportsIn

\* The reports in what is left of the mailbox are those after the first message.
LEMMA ReportsTail ==
    ASSUME NEW S, NEW mail \in Seq(S), mail # <<>>
    PROVE  /\ \A i \in ReportsIn(mail) : i # 1 => i - 1 \in ReportsIn(Tail(mail))
           /\ \A i \in ReportsIn(Tail(mail)) : i \in Nat /\ i > 0 /\ i + 1 \in ReportsIn(mail)
           /\ 1 \in ReportsIn(mail) <=> Head(mail).type = "Negotiated"
<1>1. /\ DOMAIN Tail(mail) = 1 .. Len(mail) - 1
      /\ \A i \in DOMAIN Tail(mail) : i + 1 \in DOMAIN mail /\ Tail(mail)[i] = mail[i + 1]
      /\ \A i \in DOMAIN mail : i # 1 => i - 1 \in DOMAIN Tail(mail) /\ Tail(mail)[i - 1] = mail[i]
      /\ 1 \in DOMAIN mail /\ mail[1] = Head(mail)
  OBVIOUS
<1> QED
  BY <1>1 DEF ReportsIn

-------------------------------------------------------------------------------
(* The flags *)

\* What of the types the argument needs.
Shape ==
    /\ \E S : mailbox \in Seq(S)
    /\ DOMAIN negotiator = {"working", "todo", "services", "scheduled"}
    /\ negotiator.working \in BOOLEAN
    /\ dispatching \in BOOLEAN /\ unavailable \in BOOLEAN

\* NegotiationIsOn without counting.
FlagsAreTrue ==
    condition = "up" =>
      /\ dispatching <=> negotiator.working \/ ReportsIn(mailbox) # {}
      /\ \A i, k \in ReportsIn(mailbox) : i = k
      /\ negotiator.working => ReportsIn(mailbox) = {}
      /\ ~dispatching /\ pending # <<>> => unavailable

NegotiationInv == Shape /\ FlagsAreTrue

\* What the induction carries implies what is promised.
LEMMA FlagsSuffice == NegotiationInv => NegotiationIsOn
<1> SUFFICES ASSUME NegotiationInv, condition = "up"
             PROVE  /\ dispatching <=> negotiator.working \/ Messages("Negotiated") # {}
                    /\ Cardinality(Messages("Negotiated")) + (IF negotiator.working THEN 1 ELSE 0) <= 1
                    /\ ~dispatching /\ pending # <<>> => unavailable
  BY DEF NegotiationIsOn
<1>1. Messages("Negotiated") = ReportsIn(mailbox)
  BY DEF Messages, ReportsIn
<1>2. CASE ReportsIn(mailbox) = {}
  <2>1. Cardinality(ReportsIn(mailbox)) = 0
    BY <1>2, FS_EmptySet
  <2> QED
    BY <1>1, <1>2, <2>1 DEF NegotiationInv, FlagsAreTrue, Shape
<1>3. CASE ReportsIn(mailbox) # {}
  <2>1. PICK i : ReportsIn(mailbox) = {i}
    BY <1>3 DEF NegotiationInv, FlagsAreTrue
  <2>2. Cardinality(ReportsIn(mailbox)) = 1
    BY <2>1, FS_Singleton
  <2> QED
    BY <1>1, <1>3, <2>2 DEF NegotiationInv, FlagsAreTrue, Shape
<1> QED
  BY <1>2, <1>3

\* Steps that the central manager does not take add messages that are not reports.
LEMMA FlagsFramed ==
    ASSUME NegotiationInv, UNCHANGED <<pending, dispatching, unavailable, condition>>,
           negotiator'.working = negotiator.working, DOMAIN negotiator' = DOMAIN negotiator,
           \/ mailbox' = mailbox
           \/ \E type, jobs : type # "Negotiated" /\ Send(type, jobs)
    PROVE  NegotiationInv'
<1>1. PICK S : mailbox \in Seq(S)
  BY DEF NegotiationInv, Shape
<1>2. (\E T : mailbox' \in Seq(T)) /\ ReportsIn(mailbox') = ReportsIn(mailbox)
  <2>1. CASE mailbox' = mailbox
    BY <1>1, <2>1
  <2>2. ASSUME NEW type, NEW jobs, type # "Negotiated", Send(type, jobs)
        PROVE  (\E T : mailbox' \in Seq(T)) /\ ReportsIn(mailbox') = ReportsIn(mailbox)
    <3> DEFINE m == [type |-> type, jobs |-> jobs]
               T == S \cup {m}
    <3>1. mailbox \in Seq(T) /\ m \in T /\ mailbox' = Append(mailbox, m)
      BY <1>1, <2>2 DEF Send
    <3>2. m.type # "Negotiated"
      BY <2>2
    <3> HIDE DEF m, T
    <3>3. Append(mailbox, m) \in Seq(T)
      BY <3>1
    <3>4. ReportsIn(Append(mailbox, m)) =
            ReportsIn(mailbox) \cup (IF m.type = "Negotiated" THEN {Len(mailbox) + 1} ELSE {})
      BY <3>1, ReportsAppend
    <3>5. ReportsIn(Append(mailbox, m)) = ReportsIn(mailbox)
      BY <3>2, <3>4
    <3> QED
      BY <3>1, <3>3, <3>5
  <2> QED
    BY <2>1, <2>2
<1> QED
  BY <1>2 DEF NegotiationInv, Shape, FlagsAreTrue

\* The central manager has read a message, not a report, and starts a negotiator if it
\* has reason to.
LEMMA FlagsAfterMessage ==
    ASSUME NegotiationInv, NEW type, type # "Negotiated", Receive(type),
           unavailable' \in BOOLEAN, StartNegotiator(~dispatching)
    PROVE  NegotiationInv'
<1>1. PICK S : mailbox \in Seq(S)
  BY DEF NegotiationInv, Shape
<1>2. /\ condition = "up" /\ mailbox # <<>> /\ mailbox' = Tail(mailbox)
      /\ Head(mailbox).type # "Negotiated"
  BY DEF Receive
<1>3. mailbox' \in Seq(S)
  BY <1>1, <1>2
<1>4. /\ ReportsIn(mailbox') = {} <=> ReportsIn(mailbox) = {}
      /\ \A i, k \in ReportsIn(mailbox') : i = k
  <2>1. 1 \notin ReportsIn(mailbox)
    BY <1>1, <1>2, ReportsTail
  <2>2. ASSUME NEW i \in ReportsIn(mailbox'), NEW k \in ReportsIn(mailbox') PROVE i = k
    <3>1. i \in Nat /\ k \in Nat /\ i + 1 = k + 1
      BY <1>1, <1>2, ReportsTail DEF NegotiationInv, FlagsAreTrue
    <3> QED
      BY <3>1
  <2> QED
    BY <1>1, <1>2, <2>1, <2>2, ReportsTail
<1>5. CASE dispatching
  <2>1. dispatching' = TRUE /\ negotiator' = negotiator
    BY <1>5 DEF StartNegotiator
  <2> QED
    BY <1>2, <1>3, <1>4, <1>5, <2>1 DEF NegotiationInv, Shape, FlagsAreTrue
<1>6. CASE ~dispatching
  <2>1. ReportsIn(mailbox') = {} /\ ~negotiator.working
    BY <1>2, <1>4, <1>6 DEF NegotiationInv, FlagsAreTrue
  <2>2. CASE ~unavailable' /\ pending' # <<>>
    <3>1. dispatching' = TRUE /\ negotiator'.working = TRUE
          /\ DOMAIN negotiator' = {"working", "todo", "services", "scheduled"}
      BY <1>6, <2>2 DEF StartNegotiator
    <3> QED
      BY <1>3, <2>1, <3>1 DEF NegotiationInv, Shape, FlagsAreTrue
  <2>3. CASE ~(~unavailable' /\ pending' # <<>>)
    <3>1. dispatching' = FALSE /\ negotiator' = negotiator
      BY <1>6, <2>3 DEF StartNegotiator
    <3> QED
      BY <1>3, <2>1, <2>3, <3>1 DEF NegotiationInv, Shape, FlagsAreTrue
  <2> QED
    BY <2>2, <2>3
<1> QED
  BY <1>5, <1>6 DEF NegotiationInv, Shape

\* It has read the only report, and may start another negotiator.
LEMMA FlagsAfterReport ==
    ASSUME NegotiationInv, ProcessNegotiatorCompletion
    PROVE  NegotiationInv'
<1>1. PICK S : mailbox \in Seq(S)
  BY DEF NegotiationInv, Shape
<1>2. /\ condition = "up" /\ mailbox # <<>> /\ mailbox' = Tail(mailbox)
      /\ Head(mailbox).type = "Negotiated"
  BY DEF ProcessNegotiatorCompletion, Receive
<1>3. mailbox' \in Seq(S)
  BY <1>1, <1>2
<1>4. ~negotiator.working /\ ReportsIn(mailbox') = {}
  <2>1. 1 \in ReportsIn(mailbox)
    BY <1>1, <1>2, ReportsTail
  <2>2. ASSUME NEW i \in ReportsIn(mailbox') PROVE FALSE
    <3>1. i \in Nat /\ i > 0 /\ i + 1 = 1
      BY <1>1, <1>2, <2>1, ReportsTail DEF NegotiationInv, FlagsAreTrue
    <3> QED
      BY <3>1
  <2> QED
    BY <1>2, <2>1, <2>2 DEF NegotiationInv, FlagsAreTrue
<1>5. unavailable' \in BOOLEAN
  BY DEF ProcessNegotiatorCompletion, NegotiationInv, Shape
<1>6. CASE ~unavailable' /\ pending' # <<>>
  <2>1. dispatching' = TRUE /\ negotiator'.working = TRUE
        /\ DOMAIN negotiator' = {"working", "todo", "services", "scheduled"}
    BY <1>6 DEF ProcessNegotiatorCompletion, StartNegotiator
  <2> QED
    BY <1>3, <1>4, <1>5, <2>1 DEF NegotiationInv, Shape, FlagsAreTrue
<1>7. CASE ~(~unavailable' /\ pending' # <<>>)
  <2>1. dispatching' = FALSE /\ negotiator' = negotiator
    BY <1>7 DEF ProcessNegotiatorCompletion, StartNegotiator
  <2> QED
    BY <1>3, <1>4, <1>5, <1>7, <2>1 DEF NegotiationInv, Shape, FlagsAreTrue
<1> QED
  BY <1>6, <1>7

\* The negotiator that worked reports.
LEMMA FlagsWhenReporting ==
    ASSUME NegotiationInv, ReportBack
    PROVE  NegotiationInv'
<1>1. PICK S : mailbox \in Seq(S)
  BY DEF NegotiationInv, Shape
<1> DEFINE m == [type |-> "Negotiated", jobs |-> negotiator.scheduled]
           T == S \cup {m}
<1>2. mailbox \in Seq(T) /\ m \in T /\ mailbox' = Append(mailbox, m)
  BY <1>1 DEF ReportBack, Send
<1>3. m.type = "Negotiated"
  OBVIOUS
<1> HIDE DEF m, T
<1>4. mailbox' \in Seq(T) /\ ReportsIn(mailbox') = ReportsIn(mailbox) \cup {Len(mailbox) + 1}
  BY <1>2, <1>3, ReportsAppend
<1>5. /\ UNCHANGED <<pending, dispatching, unavailable, condition>> /\ negotiator.working
      /\ negotiator' = NoNegotiator
  BY DEF ReportBack, serviceVars
<1> QED
  BY <1>4, <1>5 DEF NegotiationInv, Shape, FlagsAreTrue, NoNegotiator

\* Every step, of the front end, the central manager, the negotiator and the services.
LEMMA FlagsStayTrue == NegotiationInv /\ [Next]_vars => NegotiationInv'
<1> SUFFICES ASSUME NegotiationInv, [Next]_vars PROVE NegotiationInv'
  OBVIOUS
<1>1. CASE UNCHANGED vars
  BY <1>1, FlagsFramed DEF vars, serviceVars
<1>2. ASSUME NEW j \in Jobs, Submit(j) PROVE NegotiationInv'
  <2>1. mailbox' = mailbox \/ Send("Submit", {j})
    BY <1>2 DEF Submit
  <2> QED
    BY <1>2, <2>1, FlagsFramed DEF Submit, serviceVars
<1>3. ASSUME NEW s \in Services, AddComputeService(s) PROVE NegotiationInv'
  BY <1>3, FlagsFramed DEF AddComputeService
<1>4. CASE Stop
  BY <1>4, FlagsFramed DEF Stop, serviceVars
<1>5. CASE ProcessWakeUp
  BY <1>5, FlagsAfterMessage DEF ProcessWakeUp, NegotiationInv, Shape
<1>6. CASE ProcessSubmitStandardJob
  BY <1>6, FlagsAfterMessage DEF ProcessSubmitStandardJob
<1>7. CASE ProcessStandardJobCompletion
  BY <1>7, FlagsAfterMessage DEF ProcessStandardJobCompletion
<1>8. CASE ProcessNegotiatorCompletion
  BY <1>8, FlagsAfterReport
<1>9. CASE ProcessFailure \/ ProcessStop
  <2>1. PICK S : mailbox \in Seq(S)
    BY DEF NegotiationInv, Shape
  <2>2. mailbox # <<>> /\ mailbox' = Tail(mailbox)
    BY <1>9 DEF ProcessFailure, ProcessStop, Receive
  <2>3. mailbox' \in Seq(S)
    BY <2>1, <2>2
  <2> QED
    BY <1>9, <2>3 DEF ProcessFailure, ProcessStop, NegotiationInv, Shape, FlagsAreTrue
<1>10. ASSUME NEW j \in Jobs, Place(j) PROVE NegotiationInv'
  <2>1. negotiator'.working = negotiator.working /\ DOMAIN negotiator' = DOMAIN negotiator
    BY <1>10 DEF Place, Schedule, NegotiationInv, Shape
  <2> QED
    BY <1>10, <2>1, FlagsFramed DEF Place, serviceVars
<1>11. ASSUME NEW j \in Jobs, PassOver(j) PROVE NegotiationInv'
  <2>1. negotiator'.working = negotiator.working /\ DOMAIN negotiator' = DOMAIN negotiator
    BY <1>11 DEF PassOver, NegotiationInv, Shape
  <2> QED
    BY <1>11, <2>1, FlagsFramed DEF PassOver, serviceVars
<1>12. CASE ReportBack
  BY <1>12, FlagsWhenReporting
<1>13. ASSUME NEW j \in Jobs, EndOfJob(j) PROVE NegotiationInv'
  <2>1. PICK type \in {"Done", "Failed"} : Send(type, {j})
    BY <1>13 DEF EndOfJob, TellsDone, TellsFailed
  <2> QED
    BY <1>13, <2>1, FlagsFramed DEF EndOfJob, TellsDone, TellsFailed, serviceVars
<1> QED
  BY <1>1, <1>2, <1>3, <1>4, <1>5, <1>6, <1>7, <1>8, <1>9, <1>10, <1>11, <1>12, <1>13
  DEF Next, CentralManagerStep, NegotiatorStep

\* At first nobody reports.
LEMMA FlagsAtFirst == Init => NegotiationInv
<1> SUFFICES ASSUME Init PROVE NegotiationInv
  OBVIOUS
<1>1. mailbox \in Seq({}) /\ ReportsIn(mailbox) = {}
  BY DEF Init, ReportsIn
<1>2. Shape
  BY <1>1 DEF Init, Shape, NoNegotiator
<1>3. FlagsAreTrue
  BY <1>1 DEF Init, FlagsAreTrue, NoNegotiator
<1> QED
  BY <1>2, <1>3 DEF NegotiationInv

-------------------------------------------------------------------------------
\* The flags dispatching_jobs and resources_unavailable of the central manager are true to
\* negotiators that start, work and report asynchronously: there is at most one, the manager
\* believes in one exactly while there is one or its report is on the way, and when it does
\* not, pending jobs only wait because resources are unavailable
\* (HTCondorCentralManagerService::main, processNegotiatorCompletion).
THEOREM FlagsTellTheTruth == Spec => []NegotiationIsOn
BY FlagsAtFirst, FlagsStayTrue, FlagsSuffice, PTL DEF Spec

-------------------------------------------------------------------------------
(* What the mailbox holds about a job *)

\* The messages of some types about job j.
At(mail, types, j) == {i \in DOMAIN mail : mail[i].type \in types /\ j \in mail[i].jobs}
About(m, types, j) == m.type \in types /\ j \in m.jobs
Has(mail, types, j) == At(mail, types, j) # {}
One(mail, types, j) == \A i, k \in At(mail, types, j) : i = k

\* What a message that is added changes.
LEMMA HasAppend ==
    ASSUME NEW S, NEW mail \in Seq(S), NEW m \in S, NEW types, NEW j
    PROVE  /\ Has(Append(mail, m), types, j) <=> Has(mail, types, j) \/ About(m, types, j)
           /\ One(mail, types, j) /\ ~(Has(mail, types, j) /\ About(m, types, j))
                => One(Append(mail, m), types, j)
<1>1. /\ DOMAIN Append(mail, m) = DOMAIN mail \cup {Len(mail) + 1}
      /\ \A i \in DOMAIN mail : Append(mail, m)[i] = mail[i]
      /\ Append(mail, m)[Len(mail) + 1] = m
  OBVIOUS
<1>2. At(Append(mail, m), types, j) =
        At(mail, types, j) \cup (IF About(m, types, j) THEN {Len(mail) + 1} ELSE {})
  BY <1>1 DEF At, About
<1> QED
  BY <1>2 DEF Has, One

\* What is left when the first message is handled.
LEMMA HasTail ==
    ASSUME NEW S, NEW mail \in Seq(S), mail # <<>>, NEW types, NEW j
    PROVE  /\ Has(mail, types, j) <=> Has(Tail(mail), types, j) \/ About(Head(mail), types, j)
           /\ One(mail, types, j) => /\ One(Tail(mail), types, j)
                                     /\ ~(Has(Tail(mail), types, j) /\ About(Head(mail), types, j))
<1>1. /\ DOMAIN Tail(mail) = 1 .. Len(mail) - 1
      /\ \A i \in DOMAIN Tail(mail) : i + 1 \in DOMAIN mail /\ Tail(mail)[i] = mail[i + 1]
      /\ \A i \in DOMAIN mail : i # 1 => i - 1 \in DOMAIN Tail(mail) /\ Tail(mail)[i - 1] = mail[i]
      /\ 1 \in DOMAIN mail /\ mail[1] = Head(mail)
  OBVIOUS
<1>2. /\ \A i \in At(Tail(mail), types, j) : i \in Nat /\ i > 0 /\ i + 1 \in At(mail, types, j)
      /\ \A i \in At(mail, types, j) : i # 1 => i - 1 \in At(Tail(mail), types, j)
      /\ 1 \in At(mail, types, j) <=> About(Head(mail), types, j)
  BY <1>1 DEF At, About
<1>3. ASSUME One(mail, types, j), NEW i \in At(Tail(mail), types, j)
      PROVE  /\ \A k \in At(Tail(mail), types, j) : i = k
             /\ 1 \notin At(mail, types, j)
  <2>1. i + 1 \in At(mail, types, j) /\ i \in Nat /\ i > 0
    BY <1>2
  <2>2. ASSUME NEW k \in At(Tail(mail), types, j) PROVE i = k
    <3>1. k \in Nat /\ i + 1 = k + 1
      BY <1>2, <1>3, <2>1 DEF One
    <3> QED
      BY <2>1, <3>1
  <2>3. ASSUME 1 \in At(mail, types, j) PROVE FALSE
    <3>1. i + 1 = 1
      BY <1>3, <2>1, <2>3 DEF One
    <3> QED
      BY <2>1, <3>1
  <2> QED
    BY <2>2, <2>3
<1> QED
  BY <1>2, <1>3 DEF Has, One

-------------------------------------------------------------------------------
(* The pending jobs without some *)

Kept(jobs, d, j) == IF j \in jobs THEN d ELSE Append(d, j)
Keep == INSTANCE FoldProofs WITH op <- Kept

\* Those that are erased are not pending anymore, the others are.
LEMMA ErasedIs ==
    ASSUME NEW jobs, pending \in Seq(Jobs)
    PROVE  Erased(jobs) \in Seq(Jobs) /\ ToSet(Erased(jobs)) = ToSet(pending) \ jobs
<1> DEFINE n == Len(pending)
           I == [i \in 0 .. n |->
                   {d \in Seq(Jobs) : ToSet(d) = {pending[k] : k \in 1 .. i} \ jobs}]
<1>1. n \in Nat /\ DOMAIN pending = 1 .. n /\ \A i \in 1 .. n : pending[i] \in Jobs
  OBVIOUS
<1>2. <<>> \in I[0]
  <2>1. <<>> \in Seq(Jobs) /\ ToSet(<<>>) = {} /\ 1 .. 0 = {} /\ 0 \in 0 .. n
    BY <1>1 DEF ToSet
  <2> HIDE DEF n
  <2> QED
    BY <2>1
<1>3. ASSUME NEW i \in 1 .. n, NEW d \in I[i - 1] PROVE Kept(jobs, d, pending[i]) \in I[i]
  <2>1. i - 1 \in 0 .. n /\ i \in 0 .. n /\ pending[i] \in Jobs
    BY <1>1
  <2>2. d \in Seq(Jobs) /\ ToSet(d) = {pending[k] : k \in 1 .. i - 1} \ jobs
    BY <2>1
  <2>3. {pending[k] : k \in 1 .. i} = {pending[k] : k \in 1 .. i - 1} \cup {pending[i]}
    <3>1. 1 .. i = (1 .. i - 1) \cup {i}
      BY <1>1
    <3> QED
      BY <3>1
  <2>4. Append(d, pending[i]) \in Seq(Jobs) /\ ToSet(Append(d, pending[i])) = ToSet(d) \cup {pending[i]}
    <3>1. /\ DOMAIN Append(d, pending[i]) = DOMAIN d \cup {Len(d) + 1}
          /\ \A k \in DOMAIN d : Append(d, pending[i])[k] = d[k]
          /\ Append(d, pending[i])[Len(d) + 1] = pending[i]
          /\ Append(d, pending[i]) \in Seq(Jobs)
      BY <2>1, <2>2
    <3> QED
      BY <3>1 DEF ToSet
  <2>5. Kept(jobs, d, pending[i]) \in Seq(Jobs)
        /\ ToSet(Kept(jobs, d, pending[i])) = {pending[k] : k \in 1 .. i} \ jobs
    BY <2>2, <2>3, <2>4 DEF Kept
  <2> QED
    BY <2>1, <2>5
<1> HIDE DEF I
<1>4. Keep!Folded(jobs, <<>>, pending) \in I[n]
  <2> HIDE DEF n
  <2> QED
    BY <1>1, <1>2, <1>3, Keep!FoldKeeps
<1>5. Keep!Folded(jobs, <<>>, pending) = Erased(jobs)
  BY DEF Keep!Folded, Erased, Kept, FoldLeft, Keep!FoldLeft, MapThenFoldSet, Keep!MapThenFoldSet,
         Max, Keep!Max
<1>6. ToSet(pending) = {pending[k] : k \in 1 .. n}
  BY <1>1 DEF ToSet
<1> QED
  BY <1>1, <1>4, <1>5, <1>6 DEF I

-------------------------------------------------------------------------------
(* The jobs *)

\* A submission or the end of a job is about that job.
JobMessage == {m \in Message : m.type \in {"Submit", "Done", "Failed"} =>
                                   \E j \in Jobs : m.jobs = {j}}
Ends == {"Done", "Failed"}

\* The mailboxes a job's stack can hold.
Stacks == {<<>>, <<"submitter">>, <<"submitter", "central manager">>}

\* The types of the state, but for the cores that are idle.
PoolTypes ==
    /\ services \subseteq Services
    /\ mailbox \in Seq(JobMessage)
    /\ pending \in Seq(Jobs)
    /\ negotiator \in [working : BOOLEAN, todo : SUBSET Jobs,
                       services : SUBSET Services, scheduled : SUBSET Jobs]
    /\ place \in [Jobs -> Services \cup {Nowhere}]
    /\ callbacks \in [Jobs -> Stacks]
    /\ status \in [Jobs -> {"new", "submitting", "waiting", "rejected", "done"}]
    /\ condition \in {"up", "down", "unexpected message"}

\* A job that a service has had.
Over(j) == place[j] # Nowhere \/ Has(mailbox, Ends, j) \/ status[j] = "done"

\* Where job j is: its submission, and later its end, is reported once; while it is waiting
\* it is pending or over.
JobFine(j) ==
    /\ One(mailbox, {"Submit"}, j) /\ One(mailbox, Ends, j)
    /\ Has(mailbox, {"Submit"}, j) => status[j] = "submitting" /\ callbacks[j] = <<"submitter">>
    /\ place[j] # Nowhere => /\ status[j] = "waiting" /\ ~Has(mailbox, Ends, j)
                             /\ callbacks[j] = <<"submitter", "central manager">>
    /\ Has(mailbox, Ends, j) => status[j] = "waiting"
    /\ status[j] = "waiting" /\ place[j] = Nowhere => callbacks[j] = <<"submitter">>
    /\ condition = "up" =>
         /\ j \in ToSet(pending) => status[j] \in {"waiting", "done"}
         /\ status[j] = "waiting" => j \in ToSet(pending) \/ Over(j)

\* What the negotiator has of it: it has only jobs that are not over, and those that are
\* over and still pending are those the central manager has not yet been told of.
Negotiated(j) == j \in negotiator.scheduled \/ Has(mailbox, {"Negotiated"}, j)
NegotiationFine(j) ==
    /\ j \in negotiator.todo => status[j] = "waiting" /\ ~Over(j)
    /\ j \in negotiator.todo \cup negotiator.scheduled => negotiator.working
    /\ condition = "up" => /\ j \in ToSet(pending) /\ Over(j) => Negotiated(j)
                           /\ Negotiated(j) => Over(j)

JobsInv == NegotiationInv /\ PoolTypes /\ \A j \in Jobs : JobFine(j) /\ NegotiationFine(j)

\* The sequence q with e appended.
LEMMA AppendIs ==
    ASSUME NEW S, NEW q \in Seq(S), NEW e \in S, NEW t \in Seq(S), Len(t) = Len(q) + 1,
           \A i \in 1 .. Len(q) : t[i] = q[i], t[Len(q) + 1] = e
    PROVE  Append(q, e) = t
<1>1. /\ Append(q, e) \in Seq(S) /\ Len(Append(q, e)) = Len(q) + 1
      /\ \A i \in 1 .. Len(q) : Append(q, e)[i] = q[i]
      /\ Append(q, e)[Len(q) + 1] = e
  BY AppendProperties
<1> DEFINE a == Append(q, e)
<1>2. \A i \in 1 .. Len(q) + 1 : a[i] = t[i]
  <2>1. Len(q) \in Nat /\ \A i \in 1 .. Len(q) + 1 : i \in 1 .. Len(q) \/ i = Len(q) + 1
    OBVIOUS
  <2> QED
    BY <1>1, <2>1
<1>3. a \in Seq(S) /\ Len(a) = Len(q) + 1
  BY <1>1
<1> HIDE DEF a
<1>4. a = t
  BY <1>2, <1>3, SeqEqual
<1> QED
  BY <1>4 DEF a

\* A job ends with the mailboxes of its stack popped one after the other.
LEMMA StackFacts ==
    /\ Front(<<"submitter", "central manager">>) = <<"submitter">>
    /\ Front(<<"submitter">>) = <<>> /\ Last(<<"submitter">>) = "submitter"
    /\ Append(<<"submitter">>, "central manager") = <<"submitter", "central manager">>
<1> DEFINE S == {"submitter", "central manager"}
           two == <<"submitter", "central manager">>
           one == <<"submitter">>
<1>1. two \in Seq(S) /\ one \in Seq(S) /\ Len(two) = 2 /\ Len(one) = 1 /\ Len(one) + 1 = 2
  OBVIOUS
<1>2. two[1] = "submitter" /\ one[1] = "submitter" /\ two[2] = "central manager"
  OBVIOUS
<1>3. "central manager" \in S /\ "submitter" \in S
  OBVIOUS
<1>0. 1 .. 1 = {1} /\ 1 .. 2 = {1, 2}
  OBVIOUS
<1> HIDE DEF two, one, S
<1>4. Front(two) = SubSeq(two, 1, 1) /\ Front(one) = SubSeq(one, 1, 0)
  BY <1>1 DEF Front
<1>5. Front(one) = <<>>
  BY <1>4, SubSeqEmpty
<1>6. \A i \in 1 .. 1 : two[i] \in S
  BY <1>2, <1>3, <1>0
<1>7. /\ SubSeq(two, 1, 1) \in Seq(S) /\ Len(SubSeq(two, 1, 1)) = 1
      /\ SubSeq(two, 1, 1)[1] = two[1]
  BY <1>6, SubSeqProperties
<1>8. \A i \in 1 .. 1 : SubSeq(two, 1, 1)[i] = one[i]
  BY <1>2, <1>7, <1>0
<1>9. SubSeq(two, 1, 1) = one
  BY <1>1, <1>7, <1>8, SeqEqual
<1>10. Append(one, "central manager") = two
  <2>1. Len(two) = Len(one) + 1 /\ two[Len(one) + 1] = "central manager"
    BY <1>1, <1>2
  <2>2. \A i \in 1 .. Len(one) : two[i] = one[i]
    BY <1>1, <1>2, <1>0
  <2> QED
    BY <1>1, <1>3, <2>1, <2>2, AppendIs
<1>11. Last(one) = "submitter"
  BY <1>1, <1>2 DEF Last
<1> QED
  BY <1>4, <1>5, <1>9, <1>10, <1>11 DEF one, two

\* The pending jobs with one more.
LEMMA PendingAppend ==
    ASSUME NEW q \in Seq(Jobs), NEW j \in Jobs
    PROVE  Append(q, j) \in Seq(Jobs) /\ ToSet(Append(q, j)) = ToSet(q) \cup {j}
<1>1. /\ DOMAIN Append(q, j) = DOMAIN q \cup {Len(q) + 1}
      /\ \A k \in DOMAIN q : Append(q, j)[k] = q[k]
      /\ Append(q, j)[Len(q) + 1] = j
  OBVIOUS
<1> QED
  BY <1>1 DEF ToSet

\* A message that is sent is a message.
LEMMA SentIsMessage ==
    ASSUME NEW type, NEW jobs, Send(type, jobs), mailbox \in Seq(JobMessage),
           \/ type \in {"WakeUp", "Stop", "Negotiated"} /\ jobs \in SUBSET Jobs
           \/ type \in {"Submit", "Done", "Failed"} /\ \E j \in Jobs : jobs = {j}
    PROVE  \E m \in JobMessage : /\ m.type = type /\ m.jobs = jobs /\ mailbox' = Append(mailbox, m)
                                 /\ mailbox' \in Seq(JobMessage)
<1>1. [type |-> type, jobs |-> jobs] \in JobMessage
  BY DEF JobMessage, Message
<1> QED
  BY <1>1 DEF Send

\* A step may add a message, or handle one, that is not about a job.
Quiet(k) ==
    \A types \in {{"Submit"}, Ends, {"Negotiated"}} :
        /\ Has(mailbox', types, k) <=> Has(mailbox, types, k)
        /\ One(mailbox, types, k) => One(mailbox', types, k)

\* When it is quiet.
LEMMA WhenQuiet ==
    ASSUME PoolTypes, NEW k \in Jobs,
           \/ mailbox' = mailbox
           \/ \E m \in JobMessage : /\ mailbox' = Append(mailbox, m)
                                    /\ m.type \in {"WakeUp", "Stop"} \/ k \notin m.jobs
           \/ /\ mailbox # <<>> /\ mailbox' = Tail(mailbox)
              /\ Head(mailbox).type \in {"WakeUp", "Stop"} \/ k \notin Head(mailbox).jobs
    PROVE  Quiet(k)
<1> SUFFICES ASSUME NEW types \in {{"Submit"}, Ends, {"Negotiated"}}
             PROVE  /\ Has(mailbox', types, k) <=> Has(mailbox, types, k)
                    /\ One(mailbox, types, k) => One(mailbox', types, k)
  BY DEF Quiet
<1>1. CASE mailbox' = mailbox
  BY <1>1
<1>2. ASSUME NEW m \in JobMessage, mailbox' = Append(mailbox, m),
             m.type \in {"WakeUp", "Stop"} \/ k \notin m.jobs
      PROVE  /\ Has(mailbox', types, k) <=> Has(mailbox, types, k)
             /\ One(mailbox, types, k) => One(mailbox', types, k)
  <2>1. ~About(m, types, k)
    BY <1>2 DEF About, Ends
  <2> QED
    BY <1>2, <2>1, HasAppend DEF PoolTypes
<1>3. CASE /\ mailbox # <<>> /\ mailbox' = Tail(mailbox)
           /\ Head(mailbox).type \in {"WakeUp", "Stop"} \/ k \notin Head(mailbox).jobs
  <2>1. ~About(Head(mailbox), types, k)
    BY <1>3 DEF About, Ends
  <2> QED
    BY <1>3, <2>1, HasTail DEF PoolTypes
<1> QED
  BY <1>1, <1>2, <1>3

\* A job that a step does not touch stays fine.
LEMMA JobFramed ==
    ASSUME NEW k \in Jobs, JobFine(k), Quiet(k), UNCHANGED condition,
           status'[k] = status[k], place'[k] = place[k], callbacks'[k] = callbacks[k],
           k \in ToSet(pending') <=> k \in ToSet(pending)
    PROVE  JobFine(k)'
BY DEF JobFine, Over, Quiet

\* And so does what the negotiator has of it.
LEMMA NegotiationFramed ==
    ASSUME NEW k \in Jobs, NegotiationFine(k), Quiet(k), UNCHANGED condition,
           status'[k] = status[k], place'[k] = place[k],
           k \in ToSet(pending') <=> k \in ToSet(pending),
           k \in negotiator'.todo => k \in negotiator.todo,
           k \in negotiator'.scheduled <=> k \in negotiator.scheduled,
           negotiator'.working = negotiator.working
    PROVE  NegotiationFine(k)'
BY DEF NegotiationFine, Negotiated, Over, Quiet

\* When no negotiator works and no report waits, no job is negotiated.
LEMMA NoneNegotiated ==
    ASSUME NEW k \in Jobs, NegotiationFine(k), ~negotiator.working, ReportsIn(mailbox) = {}
    PROVE  ~Negotiated(k)
BY DEF NegotiationFine, Negotiated, Has, At, ReportsIn

\* After a message that is not a report, the negotiator that may be started is given only
\* jobs that wait.
LEMMA AfterMessage ==
    ASSUME JobsInv, NEW k \in Jobs, NEW type, type # "Negotiated", Receive(type),
           StartNegotiator(~dispatching), UNCHANGED condition, JobFine(k)',
           k \in ToSet(pending') /\ Over(k)' => k \in ToSet(pending) /\ Over(k),
           Over(k) => Over(k)',
           status[k] = "waiting" /\ ~Over(k) => status'[k] = "waiting" /\ ~Over(k)'
    PROVE  NegotiationFine(k)'
<1>1. condition = "up" /\ mailbox # <<>> /\ mailbox' = Tail(mailbox) /\ Head(mailbox).type # "Negotiated"
  BY DEF Receive
<1>2. Has(mailbox', {"Negotiated"}, k) <=> Has(mailbox, {"Negotiated"}, k)
  BY <1>1, HasTail DEF JobsInv, PoolTypes, About
<1>3. NegotiationFine(k)
  BY DEF JobsInv
<1>4. CASE UNCHANGED negotiator
  BY <1>1, <1>2, <1>3, <1>4 DEF NegotiationFine, Negotiated
<1>5. CASE ~dispatching /\ negotiator' = [working |-> TRUE, todo |-> ToSet(pending'),
                                          services |-> services, scheduled |-> {}]
  <2>1. ~Negotiated(k)
    BY <1>1, <1>3, <1>5, NoneNegotiated DEF JobsInv, NegotiationInv, FlagsAreTrue
  <2>2. ~Negotiated(k)'
    BY <1>2, <1>5, <2>1 DEF Negotiated
  <2>3. k \in ToSet(pending') => ~Over(k)'
    BY <1>1, <1>3, <2>1 DEF NegotiationFine
  <2>4. k \in ToSet(pending') => status'[k] = "waiting"
    BY <1>1, <2>3 DEF JobFine, Over
  <2> QED
    BY <1>5, <2>2, <2>3, <2>4 DEF NegotiationFine
<1> QED
  BY <1>4, <1>5 DEF StartNegotiator

\* What the services and the negotiator are told about job j, when it is about no other.
LEMMA SentFor ==
    ASSUME PoolTypes, NEW type \in {"Submit", "Done", "Failed"}, NEW j \in Jobs, Send(type, {j})
    PROVE  /\ mailbox' \in Seq(JobMessage)
           /\ \A k \in Jobs : k # j => Quiet(k)
           /\ \A types : /\ Has(mailbox', types, j) <=> Has(mailbox, types, j) \/ type \in types
                         /\ One(mailbox, types, j) /\ (type \in types => ~Has(mailbox, types, j))
                              => One(mailbox', types, j)
<1>1. PICK m \in JobMessage : /\ m.type = type /\ m.jobs = {j} /\ mailbox' = Append(mailbox, m)
                              /\ mailbox' \in Seq(JobMessage)
  BY SentIsMessage DEF PoolTypes
<1>2. ASSUME NEW k \in Jobs, k # j PROVE Quiet(k)
  BY <1>1, <1>2, WhenQuiet
<1>3. ASSUME NEW types
      PROVE  /\ Has(mailbox', types, j) <=> Has(mailbox, types, j) \/ type \in types
             /\ One(mailbox, types, j) /\ (type \in types => ~Has(mailbox, types, j))
                  => One(mailbox', types, j)
  BY <1>1, HasAppend DEF PoolTypes, About
<1> QED
  BY <1>1, <1>2, <1>3

\* A job is submitted.
LEMMA SubmitInv ==
    ASSUME JobsInv, NEW j \in Jobs, Submit(j)
    PROVE  PoolTypes' /\ \A k \in Jobs : JobFine(k)' /\ NegotiationFine(k)'
<1> USE DEF JobsInv
<1>1. /\ condition = "up" /\ status[j] = "new" /\ UNCHANGED <<serviceVars, negotiator, place, used>>
  BY DEF Submit, FrontEndUp
<1>2. CASE /\ status' = [status EXCEPT ![j] = "submitting"]
           /\ callbacks' = [callbacks EXCEPT ![j] = <<"submitter">>] /\ Send("Submit", {j})
  <2>1. PoolTypes'
    <3>1. mailbox' \in Seq(JobMessage)
      BY <1>2, SentFor
    <3> QED
      BY <1>1, <1>2, <3>1 DEF PoolTypes, Stacks, serviceVars
  <2>2. ASSUME NEW k \in Jobs, k # j PROVE JobFine(k)' /\ NegotiationFine(k)'
    <3>1. Quiet(k) /\ status'[k] = status[k] /\ callbacks'[k] = callbacks[k]
      BY <1>2, <2>2, SentFor DEF PoolTypes
    <3> QED
      BY <1>1, <3>1, JobFramed, NegotiationFramed DEF serviceVars
  <2>3. JobFine(j)' /\ NegotiationFine(j)'
    <3>1. /\ status'[j] = "submitting" /\ callbacks'[j] = <<"submitter">> /\ place'[j] = place[j]
          /\ UNCHANGED <<pending, condition, negotiator>>
      BY <1>1, <1>2 DEF PoolTypes, serviceVars
    <3>2. /\ ~Has(mailbox, {"Submit"}, j) /\ ~Has(mailbox, Ends, j) /\ place[j] = Nowhere
          /\ j \notin ToSet(pending) /\ ~Negotiated(j) /\ j \notin negotiator.todo
          /\ One(mailbox, Ends, j) /\ One(mailbox, {"Submit"}, j)
      BY <1>1 DEF JobFine, NegotiationFine, Over
    <3>3. /\ Has(mailbox', {"Submit"}, j) /\ ~Has(mailbox', Ends, j) /\ One(mailbox', {"Submit"}, j)
          /\ One(mailbox', Ends, j)
          /\ Has(mailbox', {"Negotiated"}, j) <=> Has(mailbox, {"Negotiated"}, j)
      BY <1>2, <3>2, SentFor DEF Ends
    <3> QED
      BY <3>1, <3>2, <3>3 DEF JobFine, NegotiationFine, Negotiated, Over
  <2> QED
    BY <2>1, <2>2, <2>3
<1>3. CASE status' = [status EXCEPT ![j] = "rejected"] /\ UNCHANGED <<callbacks, mailbox>>
  <2>1. PoolTypes'
    BY <1>1, <1>3 DEF PoolTypes, serviceVars
  <2>2. ASSUME NEW k \in Jobs PROVE JobFine(k)' /\ NegotiationFine(k)'
    <3>1. status'[k] = IF k = j THEN "rejected" ELSE status[k]
      BY <1>3 DEF PoolTypes
    <3> QED
      <4>1. CASE k = j
        <5>1. JobFine(k) /\ NegotiationFine(k) /\ status[k] = "new" /\ status'[k] = "rejected"
          BY <1>1, <3>1, <4>1
        <5> QED
          BY <1>1, <1>3, <5>1 DEF JobFine, NegotiationFine, Negotiated, Over, serviceVars
      <4>2. CASE k # j
        <5>1. Quiet(k) /\ status'[k] = status[k]
          BY <1>3, <3>1, <4>2, WhenQuiet
        <5> QED
          BY <1>1, <1>3, <5>1, JobFramed, NegotiationFramed DEF serviceVars
      <4> QED
        BY <4>1, <4>2
  <2> QED
    BY <2>1, <2>2
<1> QED
  BY <1>2, <1>3 DEF Submit

\* A job ends, and tells the mailbox on top of its stack, the central manager's.
LEMMA EndInv ==
    ASSUME JobsInv, NEW j \in Jobs, EndOfJob(j)
    PROVE  PoolTypes' /\ \A k \in Jobs : JobFine(k)' /\ NegotiationFine(k)'
<1> USE DEF JobsInv
<1>1. PICK type \in {"Done", "Failed"} :
        /\ place[j] # Nowhere /\ Send(type, {j})
        /\ place' = [place EXCEPT ![j] = Nowhere]
        /\ callbacks' = [callbacks EXCEPT ![j] = Front(@)]
        /\ UNCHANGED <<services, pending, condition, negotiator, status>>
  BY DEF EndOfJob, TellsDone, TellsFailed, FreesCores, serviceVars
<1>2. /\ status[j] = "waiting" /\ callbacks[j] = <<"submitter", "central manager">>
      /\ ~Has(mailbox, Ends, j)
  BY <1>1 DEF JobFine
<1>3. callbacks' = [callbacks EXCEPT ![j] = <<"submitter">>]
  BY <1>1, <1>2, StackFacts DEF PoolTypes
<1>4. PoolTypes'
  <2>1. mailbox' \in Seq(JobMessage)
    BY <1>1, SentFor
  <2> QED
    BY <1>1, <1>3, <2>1 DEF PoolTypes, Stacks
<1>5. ASSUME NEW k \in Jobs, k # j PROVE JobFine(k)' /\ NegotiationFine(k)'
  <2>1. Quiet(k) /\ place'[k] = place[k] /\ callbacks'[k] = callbacks[k]
    BY <1>1, <1>5, SentFor DEF PoolTypes
  <2> QED
    BY <1>1, <2>1, JobFramed, NegotiationFramed
<1>6. JobFine(j)' /\ NegotiationFine(j)'
  <2>1. place'[j] = Nowhere /\ callbacks'[j] = <<"submitter">>
    BY <1>1, <1>3 DEF PoolTypes
  <2>2. /\ Has(mailbox', Ends, j) /\ One(mailbox', Ends, j)
        /\ Has(mailbox', {"Submit"}, j) <=> Has(mailbox, {"Submit"}, j)
        /\ One(mailbox', {"Submit"}, j)
        /\ Has(mailbox', {"Negotiated"}, j) <=> Has(mailbox, {"Negotiated"}, j)
    BY <1>1, <1>2, SentFor DEF Ends, JobFine
  <2> QED
    BY <1>1, <1>2, <2>1, <2>2 DEF JobFine, NegotiationFine, Negotiated, Over
<1> QED
  BY <1>4, <1>5, <1>6

\* A service joins, or the pool is asked to stop: no job is concerned.
LEMMA RequestInv ==
    ASSUME JobsInv, Stop \/ \E s \in Services : AddComputeService(s)
    PROVE  PoolTypes' /\ \A k \in Jobs : JobFine(k)' /\ NegotiationFine(k)'
<1> USE DEF JobsInv
<1>1. /\ services' \subseteq Services /\ UNCHANGED <<pending, condition, negotiator, jobVars>>
      /\ Send("Stop", {}) \/ Send("WakeUp", {})
  BY DEF Stop, AddComputeService, PoolTypes, serviceVars
<1>2. PICK m \in JobMessage : /\ m.type \in {"Stop", "WakeUp"} /\ mailbox' = Append(mailbox, m)
                              /\ mailbox' \in Seq(JobMessage)
  BY <1>1, SentIsMessage DEF PoolTypes
<1>3. PoolTypes'
  BY <1>1, <1>2 DEF PoolTypes, jobVars
<1>4. ASSUME NEW k \in Jobs PROVE JobFine(k)' /\ NegotiationFine(k)'
  <2>1. Quiet(k)
    BY <1>2, WhenQuiet
  <2> QED
    BY <1>1, <2>1, JobFramed, NegotiationFramed DEF jobVars
<1> QED
  BY <1>3, <1>4

\* The negotiator gives a job to a service, or passes over it.
LEMMA PlaceInv ==
    ASSUME JobsInv, NEW j \in Jobs, Place(j) \/ PassOver(j)
    PROVE  PoolTypes' /\ \A k \in Jobs : JobFine(k)' /\ NegotiationFine(k)'
<1> USE DEF JobsInv
<1>1. /\ negotiator.working /\ j \in negotiator.todo /\ UNCHANGED <<serviceVars, mailbox, status>>
      /\ negotiator.services \subseteq Services
  BY DEF Place, PassOver, ComesNext, PoolTypes, jobVars
<1>2. /\ status[j] = "waiting" /\ ~Over(j) /\ place[j] = Nowhere /\ callbacks[j] = <<"submitter">>
      /\ ~Has(mailbox, Ends, j)
  BY <1>1 DEF NegotiationFine, JobFine, Over
<1>3. \A k \in Jobs : Quiet(k)
  BY <1>1, WhenQuiet
<1>4. ASSUME NEW s \in negotiator.services, Schedule(j, s)
      PROVE  PoolTypes' /\ \A k \in Jobs : JobFine(k)' /\ NegotiationFine(k)'
  <2>1. /\ negotiator' = [negotiator EXCEPT !.todo = @ \ {j}, !.scheduled = @ \cup {j}]
        /\ place' = [place EXCEPT ![j] = s]
        /\ callbacks' = [callbacks EXCEPT ![j] = <<"submitter", "central manager">>]
    BY <1>2, <1>4, StackFacts DEF Schedule, PoolTypes
  <2>2. s \in Services /\ s # Nowhere
    BY <1>1, HTCondorAssumption
  <2>3. PoolTypes'
    <3>1. negotiator' \in [working : BOOLEAN, todo : SUBSET Jobs,
                           services : SUBSET Services, scheduled : SUBSET Jobs]
      BY <2>1 DEF PoolTypes
    <3> QED
      BY <1>1, <2>1, <2>2, <3>1 DEF PoolTypes, Stacks, serviceVars
  <2>4. /\ negotiator'.todo = negotiator.todo \ {j} /\ negotiator'.working = negotiator.working
        /\ negotiator'.scheduled = negotiator.scheduled \cup {j}
    BY <2>1 DEF PoolTypes
  <2>5. ASSUME NEW k \in Jobs, k # j PROVE JobFine(k)' /\ NegotiationFine(k)'
    <3>1. place'[k] = place[k] /\ callbacks'[k] = callbacks[k]
      BY <2>1, <2>5 DEF PoolTypes
    <3> QED
      BY <1>1, <1>3, <2>4, <2>5, <3>1, JobFramed, NegotiationFramed DEF serviceVars
  <2>6. JobFine(j)' /\ NegotiationFine(j)'
    <3>1. /\ place'[j] = s /\ callbacks'[j] = <<"submitter", "central manager">>
          /\ JobFine(j) /\ NegotiationFine(j)
      BY <2>1 DEF PoolTypes
    <3> QED
      BY <1>1, <1>2, <2>2, <2>4, <3>1 DEF JobFine, NegotiationFine, Negotiated, Over, serviceVars
  <2> QED
    BY <2>3, <2>5, <2>6
<1>5. ASSUME negotiator' = [negotiator EXCEPT !.todo = @ \ {j}], UNCHANGED jobVars
      PROVE  PoolTypes' /\ \A k \in Jobs : JobFine(k)' /\ NegotiationFine(k)'
  <2>1. /\ negotiator'.todo = negotiator.todo \ {j} /\ negotiator'.working = negotiator.working
        /\ negotiator'.scheduled = negotiator.scheduled
        /\ negotiator' \in [working : BOOLEAN, todo : SUBSET Jobs,
                            services : SUBSET Services, scheduled : SUBSET Jobs]
    BY <1>5 DEF PoolTypes
  <2>2. PoolTypes'
    BY <1>1, <1>5, <2>1 DEF PoolTypes, serviceVars, jobVars
  <2> QED
    BY <1>1, <1>3, <1>5, <2>1, <2>2, JobFramed, NegotiationFramed DEF serviceVars, jobVars
<1> QED
  BY <1>4, <1>5 DEF Place, PassOver

\* The negotiator reports.
LEMMA ReportInv ==
    ASSUME JobsInv, ReportBack
    PROVE  PoolTypes' /\ \A k \in Jobs : JobFine(k)' /\ NegotiationFine(k)'
<1> USE DEF JobsInv
<1>1. /\ negotiator.todo = {} /\ negotiator.scheduled \in SUBSET Jobs
      /\ Send("Negotiated", negotiator.scheduled) /\ UNCHANGED <<serviceVars, jobVars>>
      /\ negotiator' = NoNegotiator
  BY DEF ReportBack, PoolTypes
<1>2. PICK m \in JobMessage :
        /\ m.type = "Negotiated" /\ m.jobs = negotiator.scheduled
        /\ mailbox' = Append(mailbox, m) /\ mailbox' \in Seq(JobMessage)
  <2>1. mailbox \in Seq(JobMessage)
    BY DEF PoolTypes
  <2> DEFINE jobs == negotiator.scheduled
  <2>2. jobs \in SUBSET Jobs /\ Send("Negotiated", jobs)
    BY <1>1
  <2> HIDE DEF jobs, JobsInv
  <2>3. \E m \in JobMessage : /\ m.type = "Negotiated" /\ m.jobs = jobs
                              /\ mailbox' = Append(mailbox, m) /\ mailbox' \in Seq(JobMessage)
    BY <2>1, <2>2, SentIsMessage
  <2> QED
    BY <2>3 DEF jobs
<1>3. PoolTypes'
  BY <1>1, <1>2 DEF PoolTypes, NoNegotiator, serviceVars, jobVars
<1>4. ASSUME NEW k \in Jobs PROVE JobFine(k)' /\ NegotiationFine(k)'
  <2>1. \A types \in {{"Submit"}, Ends} :
          /\ Has(mailbox', types, k) <=> Has(mailbox, types, k)
          /\ One(mailbox, types, k) => One(mailbox', types, k)
    BY <1>2, HasAppend DEF PoolTypes, About, Ends
  <2>2. Has(mailbox', {"Negotiated"}, k)
          <=> Has(mailbox, {"Negotiated"}, k) \/ k \in negotiator.scheduled
    BY <1>2, HasAppend DEF PoolTypes, About
  <2>3. negotiator'.todo = {} /\ negotiator'.scheduled = {}
    BY <1>1 DEF NoNegotiator
  <2>4. JobFine(k)'
    BY <1>1, <2>1 DEF JobFine, Over, serviceVars, jobVars
  <2>5. NegotiationFine(k)'
    BY <1>1, <2>1, <2>2, <2>3 DEF NegotiationFine, Negotiated, Over, serviceVars, jobVars
  <2> QED
    BY <2>4, <2>5
<1> QED
  BY <1>3, <1>4

\* The negotiator the central manager may start is given pending jobs and the services.
LEMMA StartTypes ==
    ASSUME PoolTypes, NEW idle, StartNegotiator(idle), pending' \in Seq(Jobs)
    PROVE  negotiator' \in [working : BOOLEAN, todo : SUBSET Jobs,
                            services : SUBSET Services, scheduled : SUBSET Jobs]
<1>1. ToSet(pending') \in SUBSET Jobs
  BY DEF ToSet
<1>2. CASE negotiator' = [working |-> TRUE, todo |-> ToSet(pending'),
                          services |-> services, scheduled |-> {}]
  BY <1>1, <1>2 DEF PoolTypes
<1>3. CASE UNCHANGED negotiator
  BY <1>3 DEF PoolTypes
<1> QED
  BY <1>2, <1>3 DEF StartNegotiator

\* The message the central manager handles, about a job or not.
LEMMA Received ==
    ASSUME PoolTypes, NEW type, Receive(type)
    PROVE  /\ condition = "up" /\ mailbox # <<>> /\ mailbox' = Tail(mailbox)
           /\ mailbox' \in Seq(JobMessage) /\ Head(mailbox) \in JobMessage
           /\ Head(mailbox).type = type
           /\ type \in {"WakeUp", "Stop"} => \A k \in Jobs : Quiet(k)
           /\ type \in {"Submit", "Done", "Failed"} => \E j \in Jobs :
                 /\ Head(mailbox).jobs = {j}
                 /\ \A k \in Jobs : k # j => Quiet(k)
                 /\ \A types : /\ Has(mailbox, types, j) <=> Has(mailbox', types, j) \/ type \in types
                               /\ One(mailbox, types, j) => /\ One(mailbox', types, j)
                                                            /\ type \in types => ~Has(mailbox', types, j)
<1>1. condition = "up" /\ mailbox # <<>> /\ mailbox' = Tail(mailbox) /\ Head(mailbox).type = type
  BY DEF Receive
<1>2. mailbox' \in Seq(JobMessage) /\ Head(mailbox) \in JobMessage
  BY <1>1 DEF PoolTypes
<1>3. ASSUME type \in {"WakeUp", "Stop"}, NEW k \in Jobs PROVE Quiet(k)
  BY <1>1, <1>3, WhenQuiet
<1>4. ASSUME type \in {"Submit", "Done", "Failed"}
      PROVE  \E j \in Jobs :
                 /\ Head(mailbox).jobs = {j}
                 /\ \A k \in Jobs : k # j => Quiet(k)
                 /\ \A types : /\ Has(mailbox, types, j) <=> Has(mailbox', types, j) \/ type \in types
                               /\ One(mailbox, types, j) => /\ One(mailbox', types, j)
                                                            /\ type \in types => ~Has(mailbox', types, j)
  <2>1. PICK j \in Jobs : Head(mailbox).jobs = {j}
    BY <1>1, <1>2, <1>4 DEF JobMessage
  <2>2. ASSUME NEW k \in Jobs, k # j PROVE Quiet(k)
    BY <1>1, <2>1, <2>2, WhenQuiet
  <2>3. ASSUME NEW types
        PROVE  /\ Has(mailbox, types, j) <=> Has(mailbox', types, j) \/ type \in types
               /\ One(mailbox, types, j) => /\ One(mailbox', types, j)
                                            /\ type \in types => ~Has(mailbox', types, j)
    BY <1>1, <2>1, HasTail DEF PoolTypes, About
  <2> QED
    BY <2>1, <2>2, <2>3
<1> QED
  BY <1>1, <1>2, <1>3, <1>4

\* It is woken up: only the negotiator it may start matters.
LEMMA WakeUpInv ==
    ASSUME JobsInv, ProcessWakeUp
    PROVE  PoolTypes' /\ \A k \in Jobs : JobFine(k)' /\ NegotiationFine(k)'
<1> USE DEF JobsInv
<1>1. /\ Receive("WakeUp") /\ StartNegotiator(~dispatching)
      /\ UNCHANGED <<services, pending, condition, jobVars>>
  BY DEF ProcessWakeUp
<1>2. mailbox' \in Seq(JobMessage) /\ \A k \in Jobs : Quiet(k)
  BY <1>1, Received
<1>3. PoolTypes'
  <2>1. pending' \in Seq(Jobs)
    BY <1>1 DEF PoolTypes
  <2>2. negotiator' \in [working : BOOLEAN, todo : SUBSET Jobs,
                         services : SUBSET Services, scheduled : SUBSET Jobs]
    BY <1>1, <2>1, StartTypes
  <2> QED
    BY <1>1, <1>2, <2>2 DEF PoolTypes, jobVars
<1>4. ASSUME NEW k \in Jobs PROVE JobFine(k)' /\ NegotiationFine(k)'
  <2>1. JobFine(k)'
    BY <1>1, <1>2, JobFramed DEF jobVars
  <2>2. Over(k)' <=> Over(k)
    BY <1>1, <1>2 DEF Over, Quiet, jobVars
  <2>3. status'[k] = status[k] /\ pending' = pending
    BY <1>1 DEF jobVars
  <2> QED
    BY <1>1, <2>1, <2>2, <2>3, AfterMessage
<1> QED
  BY <1>3, <1>4

\* A submitted job is put on the list of the pending ones.
LEMMA SubmittedInv ==
    ASSUME JobsInv, ProcessSubmitStandardJob
    PROVE  PoolTypes' /\ \A k \in Jobs : JobFine(k)' /\ NegotiationFine(k)'
<1> USE DEF JobsInv
<1>1. /\ Receive("Submit") /\ StartNegotiator(~dispatching)
      /\ UNCHANGED <<services, condition, place, used, callbacks>>
  BY DEF ProcessSubmitStandardJob
<1>2. PICK j \in Jobs :
        /\ Head(mailbox).jobs = {j}
        /\ \A k \in Jobs : k # j => Quiet(k)
        /\ \A types : /\ Has(mailbox, types, j) <=> Has(mailbox', types, j) \/ "Submit" \in types
                      /\ One(mailbox, types, j) => /\ One(mailbox', types, j)
                                                   /\ "Submit" \in types => ~Has(mailbox', types, j)
  BY <1>1, Received
<1>3. pending' = Append(pending, j) /\ status' = [status EXCEPT ![j] = "waiting"]
  BY <1>2 DEF ProcessSubmitStandardJob
<1>4. pending' \in Seq(Jobs) /\ ToSet(pending') = ToSet(pending) \cup {j}
  BY <1>3, PendingAppend DEF PoolTypes
<1>5. mailbox' \in Seq(JobMessage)
  BY <1>1, Received
<1>6. PoolTypes'
  <2>1. negotiator' \in [working : BOOLEAN, todo : SUBSET Jobs,
                         services : SUBSET Services, scheduled : SUBSET Jobs]
    BY <1>1, <1>4, StartTypes
  <2> QED
    BY <1>1, <1>3, <1>4, <1>5, <2>1 DEF PoolTypes
<1>7. ASSUME NEW k \in Jobs, k # j PROVE JobFine(k)' /\ NegotiationFine(k)'
  <2>1. Quiet(k) /\ status'[k] = status[k] /\ (k \in ToSet(pending') <=> k \in ToSet(pending))
    BY <1>2, <1>3, <1>4, <1>7 DEF PoolTypes
  <2>2. JobFine(k)'
    BY <1>1, <2>1, JobFramed
  <2>3. Over(k)' <=> Over(k)
    BY <1>1, <2>1 DEF Over, Quiet
  <2> QED
    BY <1>1, <2>1, <2>2, <2>3, AfterMessage
<1>8. JobFine(j)' /\ NegotiationFine(j)'
  <2>1. /\ Has(mailbox, {"Submit"}, j) /\ ~Has(mailbox', {"Submit"}, j) /\ One(mailbox', {"Submit"}, j)
        /\ Has(mailbox', Ends, j) <=> Has(mailbox, Ends, j) /\ One(mailbox', Ends, j)
    BY <1>2 DEF JobFine, Ends
  <2>2. /\ status[j] = "submitting" /\ callbacks'[j] = <<"submitter">> /\ place[j] = Nowhere
        /\ place'[j] = Nowhere /\ ~Has(mailbox, Ends, j) /\ ~Over(j)
    BY <1>1, <2>1 DEF JobFine, Over
  <2>3. ~Has(mailbox', Ends, j) /\ One(mailbox', Ends, j)
    BY <1>2, <2>2 DEF JobFine, Ends
  <2>4. status'[j] = "waiting" /\ j \in ToSet(pending') /\ ~Over(j)'
    BY <1>3, <1>4, <2>2, <2>3 DEF PoolTypes, Over
  <2>5. JobFine(j)'
    BY <2>1, <2>2, <2>3, <2>4 DEF JobFine
  <2> QED
    BY <1>1, <2>2, <2>4, <2>5, AfterMessage
<1> QED
  BY <1>6, <1>7, <1>8

\* The mailbox on top of a job's stack, its submitter's, is told that it is done.
LEMMA CompletionInv ==
    ASSUME JobsInv, ProcessStandardJobCompletion
    PROVE  PoolTypes' /\ \A k \in Jobs : JobFine(k)' /\ NegotiationFine(k)'
<1> USE DEF JobsInv
<1>1. /\ Receive("Done") /\ StartNegotiator(~dispatching)
      /\ UNCHANGED <<services, pending, condition, place, used>>
  BY DEF ProcessStandardJobCompletion
<1>2. PICK j \in Jobs :
        /\ Head(mailbox).jobs = {j}
        /\ \A k \in Jobs : k # j => Quiet(k)
        /\ \A types : /\ Has(mailbox, types, j) <=> Has(mailbox', types, j) \/ "Done" \in types
                      /\ One(mailbox, types, j) => /\ One(mailbox', types, j)
                                                   /\ "Done" \in types => ~Has(mailbox', types, j)
  BY <1>1, Received
<1>3. /\ Has(mailbox, Ends, j) /\ status[j] = "waiting" /\ callbacks[j] = <<"submitter">>
      /\ place[j] = Nowhere
  BY <1>2 DEF JobFine, Ends
<1>4. /\ callbacks' = [callbacks EXCEPT ![j] = <<>>]
      /\ status' = [status EXCEPT ![j] = "done"]
  <2>1. /\ callbacks' = [callbacks EXCEPT ![j] = Front(@)]
        /\ status' = IF Last(callbacks[j]) = "submitter"
                     THEN [status EXCEPT ![j] = "done"] ELSE status
    BY <1>2 DEF ProcessStandardJobCompletion
  <2> QED
    BY <1>3, <2>1, StackFacts DEF PoolTypes
<1>5. PoolTypes'
  <2>1. pending' \in Seq(Jobs) /\ mailbox' \in Seq(JobMessage)
    BY <1>1, Received DEF PoolTypes
  <2>2. negotiator' \in [working : BOOLEAN, todo : SUBSET Jobs,
                         services : SUBSET Services, scheduled : SUBSET Jobs]
    BY <1>1, <2>1, StartTypes
  <2> QED
    BY <1>1, <1>4, <2>1, <2>2 DEF PoolTypes, Stacks
<1>6. ASSUME NEW k \in Jobs, k # j PROVE JobFine(k)' /\ NegotiationFine(k)'
  <2>1. Quiet(k) /\ status'[k] = status[k] /\ callbacks'[k] = callbacks[k]
    BY <1>2, <1>4, <1>6 DEF PoolTypes
  <2>2. JobFine(k)'
    BY <1>1, <2>1, JobFramed
  <2>3. Over(k)' <=> Over(k)
    BY <1>1, <2>1 DEF Over, Quiet
  <2> QED
    BY <1>1, <2>1, <2>2, <2>3, AfterMessage
<1>7. JobFine(j)' /\ NegotiationFine(j)'
  <2>1. /\ ~Has(mailbox', Ends, j) /\ One(mailbox', Ends, j) /\ One(mailbox', {"Submit"}, j)
        /\ ~Has(mailbox', {"Submit"}, j)
    BY <1>2, <1>3 DEF JobFine, Ends
  <2>2. status'[j] = "done" /\ place'[j] = Nowhere
    BY <1>1, <1>3, <1>4 DEF PoolTypes
  <2>3. JobFine(j)'
    BY <2>1, <2>2 DEF JobFine
  <2>4. Over(j) /\ Over(j)'
    BY <1>3, <2>2 DEF Over
  <2> QED
    BY <1>1, <2>3, <2>4, AfterMessage
<1> QED
  BY <1>5, <1>6, <1>7

\* When it reads a report, no negotiator works, and there is no other report.
LEMMA OnlyReport ==
    ASSUME NegotiationInv, Receive("Negotiated")
    PROVE  ~negotiator.working /\ ReportsIn(mailbox') = {}
<1>1. PICK S : mailbox \in Seq(S)
  BY DEF NegotiationInv, Shape
<1>2. condition = "up" /\ mailbox # <<>> /\ mailbox' = Tail(mailbox) /\ Head(mailbox).type = "Negotiated"
  BY DEF Receive
<1>3. 1 \in ReportsIn(mailbox)
  BY <1>1, <1>2, ReportsTail
<1>4. ASSUME NEW i \in ReportsIn(mailbox') PROVE FALSE
  <2>1. i \in Nat /\ i > 0 /\ i + 1 = 1
    BY <1>1, <1>2, <1>3, ReportsTail DEF NegotiationInv, FlagsAreTrue
  <2> QED
    BY <2>1
<1> QED
  BY <1>2, <1>3, <1>4 DEF NegotiationInv, FlagsAreTrue

\* The scheduled jobs are erased; the jobs that remain are not over.
LEMMA NegotiatedInv ==
    ASSUME JobsInv, ProcessNegotiatorCompletion
    PROVE  PoolTypes' /\ \A k \in Jobs : JobFine(k)' /\ NegotiationFine(k)'
<1> USE DEF JobsInv
<1> DEFINE jobs == Head(mailbox).jobs
<1>1. /\ Receive("Negotiated") /\ StartNegotiator(TRUE) /\ pending' = Erased(jobs)
      /\ UNCHANGED <<services, condition, jobVars>>
  BY DEF ProcessNegotiatorCompletion
<1> HIDE DEF jobs
<1>2. /\ condition = "up" /\ mailbox # <<>> /\ mailbox' = Tail(mailbox)
      /\ mailbox' \in Seq(JobMessage) /\ Head(mailbox).type = "Negotiated"
  BY <1>1, Received
<1>3. pending' \in Seq(Jobs) /\ ToSet(pending') = ToSet(pending) \ jobs
  BY <1>1, ErasedIs DEF PoolTypes
<1>4. ~negotiator.working /\ ReportsIn(mailbox') = {}
  BY <1>1, OnlyReport
<1>5. PoolTypes'
  <2>1. negotiator' \in [working : BOOLEAN, todo : SUBSET Jobs,
                         services : SUBSET Services, scheduled : SUBSET Jobs]
    BY <1>1, <1>3, StartTypes
  <2> QED
    BY <1>1, <1>2, <1>3, <2>1 DEF PoolTypes, jobVars
<1>6. ASSUME NEW k \in Jobs PROVE JobFine(k)' /\ NegotiationFine(k)'
  <2>1. ~Has(mailbox', {"Negotiated"}, k)
    BY <1>4 DEF Has, At, ReportsIn
  <2>2. Negotiated(k) <=> k \in jobs
    <3>1. k \notin negotiator.scheduled /\ k \notin negotiator.todo
      BY <1>4 DEF NegotiationFine
    <3>2. Has(mailbox, {"Negotiated"}, k) <=> k \in jobs
      BY <1>2, <2>1, HasTail DEF PoolTypes, About, jobs
    <3> QED
      BY <3>1, <3>2 DEF Negotiated
  <2>3. \A types \in {{"Submit"}, Ends} :
          /\ Has(mailbox', types, k) <=> Has(mailbox, types, k)
          /\ One(mailbox, types, k) => One(mailbox', types, k)
    BY <1>2, HasTail DEF PoolTypes, About, Ends
  <2>4. Over(k)' <=> Over(k)
    BY <1>1, <2>3 DEF Over, jobVars
  <2>5. JobFine(k)'
    <3>1. JobFine(k) /\ (k \in jobs => Over(k))
      BY <1>2, <2>2 DEF NegotiationFine
    <3> QED
      BY <1>1, <1>3, <2>3, <2>4, <3>1 DEF JobFine, jobVars
  <2>6. k \in ToSet(pending') => ~Over(k)' /\ status'[k] = "waiting"
    <3>1. k \in ToSet(pending') => ~Over(k)'
      BY <1>2, <1>3, <2>2, <2>4 DEF NegotiationFine
    <3> QED
      BY <1>1, <1>2, <2>5, <3>1 DEF JobFine, Over
  <2>7. CASE negotiator' = [working |-> TRUE, todo |-> ToSet(pending'),
                            services |-> services, scheduled |-> {}]
    <3>1. /\ negotiator'.todo = ToSet(pending') /\ negotiator'.scheduled = {}
          /\ negotiator'.working
      BY <2>7
    <3>2. ~Negotiated(k)'
      BY <2>1, <3>1 DEF Negotiated
    <3> HIDE DEF JobsInv
    <3> QED
      BY <2>5, <2>6, <3>1, <3>2 DEF NegotiationFine
  <2>8. CASE UNCHANGED negotiator
    <3>1. k \notin negotiator'.scheduled /\ k \notin negotiator'.todo
      BY <1>4, <2>8 DEF NegotiationFine
    <3>2. ~Negotiated(k)'
      BY <2>1, <3>1 DEF Negotiated
    <3> HIDE DEF JobsInv
    <3> QED
      BY <2>5, <2>6, <3>1, <3>2 DEF NegotiationFine
  <2> QED
    BY <1>1, <2>5, <2>7, <2>8 DEF StartNegotiator
<1> QED
  BY <1>5, <1>6

\* The central manager goes down.
LEMMA GoesDownInv ==
    ASSUME JobsInv, ProcessFailure \/ ProcessStop
    PROVE  PoolTypes' /\ \A k \in Jobs : JobFine(k)' /\ NegotiationFine(k)'
<1> USE DEF JobsInv
<1>1. PICK type \in {"Failed", "Stop"} : Receive(type)
  BY DEF ProcessFailure, ProcessStop
<1>2. /\ UNCHANGED <<negotiator, jobVars>> /\ condition' \in {"down", "unexpected message"}
      /\ services' \in {services, {}} /\ pending' \in {pending, <<>>}
  BY DEF ProcessFailure, ProcessStop
<1>3. mailbox' \in Seq(JobMessage) /\ mailbox # <<>> /\ mailbox' = Tail(mailbox)
  BY <1>1, Received
<1>4. PoolTypes'
  <2>1. pending \in Seq(Jobs)
    BY DEF PoolTypes
  <2>3. <<>> \in Seq(Jobs)
    OBVIOUS
  <2>2. pending' \in Seq(Jobs)
    BY <1>2, <2>1, <2>3
  <2> QED
    BY <1>2, <1>3, <2>2 DEF PoolTypes, jobVars
<1>5. ASSUME NEW k \in Jobs PROVE JobFine(k)' /\ NegotiationFine(k)'
  <2>1. \A types : /\ Has(mailbox', types, k) => Has(mailbox, types, k)
                   /\ One(mailbox, types, k) => One(mailbox', types, k)
    BY <1>3, HasTail DEF PoolTypes
  <2> QED
    BY <1>2, <2>1 DEF JobFine, NegotiationFine, Over, jobVars
<1> QED
  BY <1>4, <1>5

\* Every step.
LEMMA JobsStayFine == JobsInv /\ [Next]_vars => JobsInv'
<1> SUFFICES ASSUME JobsInv, [Next]_vars PROVE JobsInv'
  OBVIOUS
<1>1. NegotiationInv'
  BY FlagsStayTrue DEF JobsInv
<1>2. CASE UNCHANGED vars
  BY <1>1, <1>2 DEF vars, serviceVars, jobVars, JobsInv, PoolTypes, JobFine, NegotiationFine, Negotiated, Over
<1>3. CASE Next
  BY <1>1, <1>3, SubmitInv, EndInv, RequestInv, PlaceInv, ReportInv, WakeUpInv, SubmittedInv,
     CompletionInv, NegotiatedInv, GoesDownInv
  DEF Next, CentralManagerStep, NegotiatorStep, JobsInv
<1> QED
  BY <1>2, <1>3

-------------------------------------------------------------------------------
(* The cores *)

\* The cores that jobs use: the jobs of R, when job j uses f[j].
CoresOf(f, R) == SumFunctionOnSet(f, R)
JobsOn(s) == {j \in Jobs : place[j] = s}

\* No service runs more threads than it has cores.
Room ==
    /\ used \in [Jobs -> Nat]
    /\ \A s \in Services : CoresOf(used, JobsOn(s)) <= Cores[s]

\* What such sums need: they are those of FoldProofs.
LEMMA CoresAreSummed ==
    ASSUME NEW R \in SUBSET Jobs, NEW f \in [Jobs -> Nat]
    PROVE  /\ CoresOf(f, R) \in Nat
           /\ \A j \in R : CoresOf(f, R) = CoresOf(f, R \ {j}) + f[j]
           /\ \A g \in [Jobs -> Nat] :
                (\A j \in R : f[j] = g[j]) => CoresOf(f, R) = CoresOf(g, R)
<1>1. \A g, U : /\ CoresOf(g, U) = Keep!SumFunctionOnSet(g, U)
                /\ IsFiniteSet(U) <=> Keep!IsFiniteSet(U)
  BY DEF CoresOf, SumFunctionOnSet, Keep!SumFunctionOnSet, FoldFunctionOnSet,
         Keep!FoldFunctionOnSet, MapThenFoldSet, Keep!MapThenFoldSet, IsFiniteSet,
         Keep!IsFiniteSet
<1>2. /\ IsFiniteSet(R) /\ \A j \in R : f[j] \in Nat
      /\ \A j \in R : IsFiniteSet(R \ {j})
  BY FS_Subset, HTCondorAssumption
<1>3. CoresOf(f, R) \in Int /\ CoresOf(f, R) >= 0
  BY <1>1, <1>2, Keep!SumType
<1>4. ASSUME NEW j \in R PROVE CoresOf(f, R) = CoresOf(f, R \ {j}) + f[j]
  <2>1. CoresOf(f, R) = f[j] + CoresOf(f, R \ {j})
    BY <1>1, <1>2, Keep!SumAdds
  <2>2. CoresOf(f, R \ {j}) \in Int
    BY <1>1, <1>2, Keep!SumType
  <2> QED
    BY <1>2, <2>1, <2>2
<1>5. ASSUME NEW g \in [Jobs -> Nat], \A j \in R : f[j] = g[j]
      PROVE  CoresOf(f, R) = CoresOf(g, R)
  BY <1>1, <1>2, <1>5, Keep!SumAgrees
<1> QED
  BY <1>3, <1>4, <1>5

\* A job is given the idle cores of its service at most, and gives them back when it ends.
LEMMA RoomStays == JobsInv /\ Room /\ [Next]_vars => Room'
<1> SUFFICES ASSUME JobsInv, Room, [Next]_vars PROVE Room'
  OBVIOUS
<1> USE HTCondorAssumption
<1>1. ASSUME UNCHANGED <<place, used>> PROVE Room'
  BY <1>1 DEF Room, JobsOn, CoresOf
<1>2. ASSUME NEW j \in Jobs, place[j] # Nowhere, FreesCores(j) PROVE Room'
  <2>1. /\ used' \in [Jobs -> Nat] /\ used \in [Jobs -> Nat]
        /\ \A k \in Jobs \ {j} : used'[k] = used[k]
    BY <1>2 DEF FreesCores, Room
  <2>2. ASSUME NEW s \in Services PROVE CoresOf(used', JobsOn(s)') <= Cores[s]
    <3>1. JobsOn(s)' = JobsOn(s) \ {j} /\ JobsOn(s) \in SUBSET Jobs /\ JobsOn(s) \ {j} \in SUBSET Jobs
      BY <1>2 DEF FreesCores, JobsOn, JobsInv, PoolTypes
    <3>2. CoresOf(used', JobsOn(s)') = CoresOf(used, JobsOn(s) \ {j})
      <4>1. \A k \in JobsOn(s) \ {j} : used'[k] = used[k]
        BY <2>1, <3>1
      <4> QED
        BY <2>1, <3>1, <4>1, CoresAreSummed
    <3>3. CoresOf(used, JobsOn(s) \ {j}) <= CoresOf(used, JobsOn(s))
      <4>1. CASE j \in JobsOn(s)
        <5>1. /\ CoresOf(used, JobsOn(s)) = CoresOf(used, JobsOn(s) \ {j}) + used[j]
              /\ CoresOf(used, JobsOn(s) \ {j}) \in Nat /\ used[j] \in Nat
          BY <2>1, <3>1, <4>1, CoresAreSummed
        <5> QED
          BY <5>1
      <4>2. CASE j \notin JobsOn(s)
        <5>1. JobsOn(s) \ {j} = JobsOn(s) /\ CoresOf(used, JobsOn(s)) \in Nat
          BY <2>1, <3>1, <4>2, CoresAreSummed
        <5> QED
          BY <5>1
      <4> QED
        BY <4>1, <4>2
    <3>4. /\ CoresOf(used, JobsOn(s)) <= Cores[s] /\ Cores[s] \in Nat
          /\ CoresOf(used, JobsOn(s)) \in Nat /\ CoresOf(used, JobsOn(s) \ {j}) \in Nat
      BY <2>1, <3>1, CoresAreSummed DEF Room
    <3> QED
      BY <3>2, <3>3, <3>4
  <2> QED
    BY <2>1, <2>2 DEF Room, CoresOf
<1>3. ASSUME NEW j \in Jobs, Place(j) PROVE Room'
  <2>1. PICK t \in negotiator.services : HasRoomFor(t, j) /\ Schedule(j, t)
    BY <1>3 DEF Place
  <2>2. /\ t \in Services /\ Cores[t] \in Nat /\ MaxCores[j] \in Nat /\ place[j] = Nowhere
        /\ t # Nowhere
    BY <1>3, <2>1 DEF JobsInv, PoolTypes, NegotiationFine, Over, Place, ComesNext
  <2>3. /\ \A s \in Services : JobsOn(s) \in SUBSET Jobs /\ j \notin JobsOn(s)
        /\ \A s \in Services : JobsOn(s)' = IF s = t THEN JobsOn(t) \cup {j} ELSE JobsOn(s)
    BY <2>1, <2>2 DEF Schedule, JobsOn, JobsInv, PoolTypes
  <2>4. used \in [Jobs -> Nat] /\ \A s \in Services : CoresOf(used, JobsOn(s)) \in Nat
    BY <2>3, CoresAreSummed DEF Room
  <2>5. Idle(t) = Cores[t] - CoresOf(used, JobsOn(t)) /\ Idle(t) \in Nat
    <3>1. CoresOf(used, JobsOn(t)) <= Cores[t]
      BY <2>2 DEF Room
    <3> QED
      BY <2>2, <2>4, <3>1 DEF Idle, CoresOf, JobsOn
  <2>6. Min({Idle(t), MaxCores[j]}) \in Nat /\ Min({Idle(t), MaxCores[j]}) <= Idle(t)
    BY <2>2, <2>5 DEF Min
  <2>7. /\ used' \in [Jobs -> Nat] /\ \A k \in Jobs \ {j} : used'[k] = used[k]
        /\ used'[j] \in Nat /\ used'[j] <= Idle(t)
    BY <2>1, <2>4, <2>6 DEF Schedule
  <2>8. \A s \in Services : CoresOf(used', JobsOn(s)) = CoresOf(used, JobsOn(s))
    <3>1. \A s \in Services : \A k \in JobsOn(s) : used'[k] = used[k]
      BY <2>3, <2>7
    <3> QED
      BY <2>3, <2>4, <2>7, <3>1, CoresAreSummed
  <2>9. ASSUME NEW s \in Services PROVE CoresOf(used', JobsOn(s)') <= Cores[s]
    <3>1. CASE s = t
      <4>1. /\ JobsOn(t) \cup {j} \in SUBSET Jobs /\ j \in JobsOn(t) \cup {j}
            /\ (JobsOn(t) \cup {j}) \ {j} = JobsOn(t)
        BY <2>2, <2>3
      <4>2. CoresOf(used', JobsOn(t) \cup {j}) = CoresOf(used', JobsOn(t)) + used'[j]
        BY <2>7, <4>1, CoresAreSummed
      <4>3. CoresOf(used', JobsOn(t)') = CoresOf(used, JobsOn(t)) + used'[j]
        BY <2>2, <2>3, <2>8, <4>2
      <4> QED
        BY <2>2, <2>4, <2>5, <2>7, <3>1, <4>3
    <3>2. CASE s # t
      BY <2>3, <2>8, <3>2 DEF Room
    <3> QED
      BY <3>1, <3>2
  <2> QED
    BY <2>7, <2>9 DEF Room, CoresOf
<1>4. CASE UNCHANGED vars
  BY <1>1, <1>4 DEF vars, jobVars
<1>5. CASE Next
  <2>1. ASSUME NEW j \in Jobs, Submit(j) PROVE UNCHANGED <<place, used>>
    BY <2>1 DEF Submit
  <2>2. ASSUME NEW s \in Services, AddComputeService(s) PROVE UNCHANGED <<place, used>>
    BY <2>2 DEF AddComputeService, jobVars
  <2>3. ASSUME Stop \/ CentralManagerStep \/ ReportBack PROVE UNCHANGED <<place, used>>
    BY <2>3 DEF Stop, CentralManagerStep, ReportBack, ProcessWakeUp, ProcessSubmitStandardJob,
       ProcessStandardJobCompletion, ProcessNegotiatorCompletion, ProcessFailure, ProcessStop, jobVars
  <2>4. ASSUME NEW j \in Jobs, PassOver(j) PROVE UNCHANGED <<place, used>>
    BY <2>4 DEF PassOver, jobVars
  <2>5. ASSUME NEW j \in Jobs, EndOfJob(j) PROVE Room'
    BY <1>2, <2>5 DEF EndOfJob, TellsDone, TellsFailed
  <2> QED
    BY <1>1, <1>3, <1>5, <2>1, <2>2, <2>3, <2>4, <2>5 DEF Next, NegotiatorStep
<1> QED
  BY <1>4, <1>5

\* The invariant says what the properties say.
LEMMA JobsSuffice == JobsInv /\ Room => NoLostJob
<1> SUFFICES ASSUME JobsInv, Room PROVE NoLostJob
  OBVIOUS
<1>1. TypeOK
  <2>1. /\ mailbox \in Seq(Message) /\ dispatching \in BOOLEAN /\ unavailable \in BOOLEAN
    <3>1. JobMessage \subseteq Message /\ mailbox \in Seq(JobMessage)
      BY DEF JobMessage, JobsInv, PoolTypes
    <3>2. mailbox \in Seq(Message)
      BY <3>1
    <3> QED
      BY <3>2 DEF JobsInv, NegotiationInv, Shape
  <2>2. \A s \in Services : Idle(s) \in Nat
    <3>1. ASSUME NEW s \in Services PROVE Idle(s) \in Nat
      <4>1. /\ CoresOf(used, JobsOn(s)) \in Nat /\ CoresOf(used, JobsOn(s)) <= Cores[s]
            /\ Cores[s] \in Nat
        <5>1. JobsOn(s) \in SUBSET Jobs
          BY DEF JobsOn
        <5> QED
          BY <5>1, CoresAreSummed, HTCondorAssumption DEF Room
      <4> QED
        BY <4>1 DEF Idle, CoresOf, JobsOn
    <3> QED
      BY <3>1
  <2>3. callbacks \in [Jobs -> Seq({"submitter", "central manager"})]
    <3>1. Stacks \subseteq Seq({"submitter", "central manager"})
      BY DEF Stacks
    <3> QED
      BY <3>1 DEF JobsInv, PoolTypes
  <2> QED
    BY <2>1, <2>2, <2>3 DEF TypeOK, JobsInv, PoolTypes, Room
<1>2. ASSUME NEW j \in Jobs
      PROVE  /\ Dispatched(j) <=> place[j] # Nowhere \/ Has(mailbox, Ends, j)
             /\ Negotiated(j) => j \in InNegotiation
  <2>1. Reported(j) <=> Has(mailbox, Ends, j)
    <3>1. \A i \in DOMAIN mailbox : i \in At(mailbox, Ends, j) <=>
            i \in Messages("Done") \cup Messages("Failed") /\ j \in mailbox[i].jobs
      BY DEF Messages, At, About, Ends
    <3>2. At(mailbox, Ends, j) \subseteq DOMAIN mailbox
      BY DEF At
    <3>3. Messages("Done") \cup Messages("Failed") \subseteq DOMAIN mailbox
      BY DEF Messages
    <3> QED
      BY <3>1, <3>2, <3>3 DEF Reported, Has
  <2>2. ASSUME Negotiated(j) PROVE j \in InNegotiation
    <3>1. CASE j \in negotiator.scheduled
      BY <3>1 DEF InNegotiation
    <3>2. ASSUME NEW i \in DOMAIN mailbox, mailbox[i].type = "Negotiated", j \in mailbox[i].jobs
          PROVE  j \in InNegotiation
      <4>1. i \in Messages("Negotiated")
        BY <3>2 DEF Messages
      <4> QED
        BY <3>2, <4>1 DEF InNegotiation
    <3> QED
      BY <2>2, <3>1, <3>2 DEF Negotiated, Has, At, About
  <2> QED
    BY <2>1, <2>2 DEF Dispatched
<1>3. DispatchedOnce
  <2>1. ASSUME NEW j \in Jobs, j \in negotiator.todo PROVE ~Dispatched(j) /\ status[j] # "done"
    BY <1>2, <2>1 DEF JobsInv, NegotiationFine, Over
  <2>2. ASSUME NEW j \in Jobs, condition = "up", j \in ToSet(pending), Dispatched(j) \/ status[j] = "done"
        PROVE  j \in InNegotiation
    BY <1>2, <2>2 DEF JobsInv, NegotiationFine, Over
  <2>3. ToSet(pending) \subseteq Jobs
    <3>1. pending \in Seq(Jobs)
      BY DEF JobsInv, PoolTypes
    <3> QED
      BY <3>1 DEF ToSet
  <2> QED
    BY <2>1, <2>2, <2>3 DEF DispatchedOnce
<1>4. ASSUME NEW j \in Jobs, condition = "up"
      PROVE  /\ status[j] = "waiting" => j \in ToSet(pending) \/ Dispatched(j)
             /\ place[j] # Nowhere => callbacks[j] = <<"submitter", "central manager">>
             /\ status[j] = "waiting" /\ place[j] = Nowhere => callbacks[j] = <<"submitter">>
  BY <1>2, <1>4 DEF JobsInv, JobFine, Over
<1> QED
  BY <1>1, <1>3, <1>4 DEF NoLostJob

\* HTCondor: the front end, addComputeService, the central manager's handlers, the
\* negotiators and the services between them: an accepted job that its submitter waits for
\* is pending, runs or is reported, it is given out once, the callback on top of its stack
\* is the one due, and no service runs more threads than it has cores.
THEOREM NoJobIsLost == Spec => []NoLostJob
<1>1. Init => JobsInv /\ Room
  <2> SUFFICES ASSUME Init PROVE JobsInv /\ Room
    OBVIOUS
  <2>1. NegotiationInv
    BY FlagsAtFirst
  <2>2. PoolTypes
    BY HTCondorAssumption DEF Init, PoolTypes, NoNegotiator, Stacks
  <2>3. ASSUME NEW j \in Jobs PROVE JobFine(j) /\ NegotiationFine(j)
    <3>1. \A types : ~Has(<<>>, types, j) /\ One(<<>>, types, j)
      BY DEF Has, One, At
    <3> QED
      BY <3>1 DEF Init, JobFine, NegotiationFine, Negotiated, Over, NoNegotiator, ToSet
  <2>4. Room
    <3>1. \A s \in Services : JobsOn(s) = {} /\ Cores[s] \in Nat
      BY HTCondorAssumption DEF Init, JobsOn
    <3>2. CoresOf(used, {}) = 0
      <4>1. IsFiniteSet({}) /\ Keep!IsFiniteSet({})
        BY FS_EmptySet, Keep!FS_EmptySet DEF IsFiniteSet, Keep!IsFiniteSet
      <4>2. Keep!SumFunctionOnSet(used, {}) = 0
        BY <4>1, Keep!SumUnfolds
      <4> QED
        BY <4>2 DEF CoresOf, SumFunctionOnSet, Keep!SumFunctionOnSet, FoldFunctionOnSet,
           Keep!FoldFunctionOnSet, MapThenFoldSet, Keep!MapThenFoldSet
    <3> QED
      <4>1. used \in [Jobs -> Nat] /\ 0 \in Nat
        BY DEF Init
      <4>2. \A s \in Services : CoresOf(used, JobsOn(s)) = 0 /\ 0 <= Cores[s]
        BY <3>1, <3>2
      <4> QED
        BY <4>1, <4>2 DEF Room
  <2> QED
    BY <2>1, <2>2, <2>3, <2>4 DEF JobsInv
<1>2. JobsInv /\ Room /\ [Next]_vars => JobsInv' /\ Room'
  BY JobsStayFine, RoomStays
<1>3. JobsInv /\ Room => NoLostJob
  BY JobsSuffice
<1> QED
  BY <1>1, <1>2, <1>3, PTL DEF Spec

===============================================================================
