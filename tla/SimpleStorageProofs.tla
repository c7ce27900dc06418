--------------------------- MODULE SimpleStorageProofs ---------------------------
(***************************************************************************)
(* Proofs about SimpleStorage: the space of its disks and the connections  *)
(* of its services are accounted for, whatever requests its clients make   *)
(* and however their transfers end.                                        *)
(***************************************************************************)
EXTENDS SimpleStorage, FiniteSetTheorems, SequenceTheorems, TLAPS

-------------------------------------------------------------------------------
(* The inductive invariant: where the requests of a client are. *)

\* A transfer in line has not begun. Of a copy there is, beside its own transfer, the one
\* by which its source sends the file, wanted or not. Who gave up did not ask for a copy.
WaitingFine(s, t) ==
    LET r == request[t.client] IN
      \/ /\ stage[t.client] = "accepted" \/ (stage[t.client] = "gone" /\ r.op # "copy")
         /\ t.op = r.op /\ s = r.at
      \/ /\ stage[t.client] \in {"fed", "late", "gone"}
         /\ t.op = "read" /\ r.op = "copy" /\ s = r.from

\* A transfer that has a connection; that of the source may be the last.
RunningFine(s, t) ==
    LET r == request[t.client] IN
      \/ /\ \/ stage[t.client] \in {"accepted", "fetching", "refused", "fed", "ended", "late"}
            \/ stage[t.client] = "gone" /\ r.op # "copy"
         /\ t.op = r.op /\ s = r.at
      \/ /\ stage[t.client] \in {"fed", "ended", "idle", "late", "gone"}
         /\ t.op = "read" /\ r.op = "copy" /\ s = r.from

\* Where a message may be, whatever of its transfer.
Placed(s, m) ==
    LET r == request[m.client] IN
      IF m.what = "asked"
      THEN \/ /\ stage[m.client] = "asked" \/ (stage[m.client] = "gone" /\ r.op # "copy")
              /\ m.op = r.op /\ s = r.at
           \/ /\ stage[m.client] \in {"fetching", "late", "gone"}
              /\ m.op = "read" /\ r.op = "copy" /\ s = r.from
      ELSE \/ stage[m.client] \in {"ended", "late"} /\ m.op = r.op /\ s = r.at
           \/ /\ stage[m.client] \in {"ended", "idle"}
              /\ m.op = "read" /\ r.op = "copy" /\ s = r.from

SubjectOf(m) == TransferOf(m.op, m.client)

\* A message asks for a transfer that does not exist yet, whether its client still waits for
\* it or not, or is about one that has ended and still has its connection.
MessageFine(s, m) ==
    /\ Placed(s, m)
    /\ IF m.what = "asked" THEN SubjectOf(m) \notin UnderWay(s) ELSE SubjectOf(m) \in running[s]

Distinct(q) == \A i, j \in DOMAIN q : q[i] = q[j] => i = j

\* No two messages are about the same transfer.
Subjects(q) == [i \in DOMAIN q |-> TransferOf(q[i].op, q[i].client)]

ServiceFine(s) ==
    /\ \A i \in DOMAIN mailbox[s] : MessageFine(s, mailbox[s][i])
    /\ Distinct(Subjects(mailbox[s]))
    /\ \A i \in DOMAIN pending[s] :
          WaitingFine(s, pending[s][i]) /\ pending[s][i] \notin running[s]
    /\ Distinct(pending[s])
    /\ \A t \in running[s] : RunningFine(s, t)
    /\ IsFiniteSet(running[s]) /\ Cardinality(running[s]) <= MaxConnections
    /\ pending[s] # <<>> => Cardinality(running[s]) = MaxConnections

\* What is stored and expected on a disk d of s is accounted for: exactly, unless the service
\* was asked for a file twice.
Room(s, d, exact) ==
    /\ d.occupied >= SizeOf(d.stored) + SizeOf(d.reserved)
    /\ exact => /\ d.stored \cap d.reserved = {}
                /\ d.occupied = SizeOf(d.stored) + SizeOf(d.reserved)
                /\ d.occupied <= Capacity[s]

\* The transfers that bring a file to s.
Bringing(s) == {t \in UnderWay(s) : t.op # "read"}
Brought(t) == request[t.client].file

\* What is expected comes; and a file that the service was not asked for twice is expected
\* and not there, and one transfer brings it.
DiskFine(s) ==
    /\ Room(s, disk[s], rewritten[s] = {})
    /\ \A f \in disk[s].reserved : \E t \in Bringing(s) : Brought(t) = f
    /\ \A t \in Bringing(s) :
         Brought(t) \notin rewritten[s] =>
           /\ Brought(t) \in disk[s].reserved /\ Brought(t) \notin disk[s].stored
           /\ \A u \in Bringing(s) : Brought(u) = Brought(t) => u = t

Inv == TypeOK /\ (\A s \in Services : ServiceFine(s)) /\ (\A s \in Services : DiskFine(s))

-------------------------------------------------------------------------------
(* Space *)

Same(p, d, x) == d
Sums == INSTANCE FoldProofs WITH op <- Same

\* The space of some files, and what one more or less changes.
LEMMA SizeFacts ==
    ASSUME NEW S \in SUBSET Files, NEW f \in Files
    PROVE  /\ IsFiniteSet(S) /\ SizeOf(S) \in Nat
           /\ Size[f] \in Nat \ {0}
           /\ f \notin S => SizeOf(S \cup {f}) = SizeOf(S) + Size[f]
           /\ f \in S => SizeOf(S \ {f}) = SizeOf(S) - Size[f] /\ SizeOf(S) >= Size[f]
<1>1. \A R : /\ SizeOf(R) = Sums!SumFunctionOnSet(Size, R)
             /\ IsFiniteSet(R) <=> Sums!IsFiniteSet(R)
  BY DEF SizeOf, SumFunctionOnSet, Sums!SumFunctionOnSet, FoldFunctionOnSet,
         Sums!FoldFunctionOnSet, MapThenFoldSet, Sums!MapThenFoldSet, IsFiniteSet,
         Sums!IsFiniteSet
<1>2. ASSUME NEW R \in SUBSET Files
      PROVE  /\ IsFiniteSet(R) /\ Sums!IsFiniteSet(R)
             /\ \A x \in R : Size[x] \in Int /\ Size[x] >= 0
  BY <1>1, FS_Subset, StorageAssumption
<1>3. ASSUME NEW R \in SUBSET Files PROVE SizeOf(R) \in Nat
  <2>1. Sums!SumFunctionOnSet(Size, R) \in Int /\ Sums!SumFunctionOnSet(Size, R) >= 0
    BY <1>2, Sums!SumType
  <2> QED
    BY <1>1, <2>1
<1>4. ASSUME NEW R \in SUBSET Files, f \in R PROVE SizeOf(R) = Size[f] + SizeOf(R \ {f})
  <2>1. Sums!SumFunctionOnSet(Size, R) = Size[f] + Sums!SumFunctionOnSet(Size, R \ {f})
    <3>1. Sums!IsFiniteSet(R) /\ \A x \in R : Size[x] \in Int
      BY <1>2
    <3> QED
      BY <1>4, <3>1, Sums!SumAdds
  <2> QED
    BY <1>1, <2>1
<1>5. Size[f] \in Nat \ {0}
  BY StorageAssumption
<1>6. ASSUME f \notin S PROVE SizeOf(S \cup {f}) = SizeOf(S) + Size[f]
  <2>1. (S \cup {f}) \ {f} = S /\ S \cup {f} \in SUBSET Files
    BY <1>6
  <2> QED
    BY <1>3, <1>4, <1>5, <2>1
<1>7. ASSUME f \in S PROVE SizeOf(S \ {f}) = SizeOf(S) - Size[f] /\ SizeOf(S) >= Size[f]
  <2>1. SizeOf(S \ {f}) \in Nat
    BY <1>3
  <2> QED
    BY <1>3, <1>4, <1>5, <1>7, <2>1
<1> QED
  BY <1>2, <1>3, <1>5, <1>6, <1>7

\* The space of some files is that of a part of them and of the rest.
LEMMA SizeSplits ==
    ASSUME NEW S \in SUBSET Files, NEW R \in SUBSET S
    PROVE  /\ SizeOf(S) \in Nat /\ SizeOf(R) \in Nat /\ SizeOf(S \ R) \in Nat
           /\ SizeOf(S) = SizeOf(R) + SizeOf(S \ R)
<1>1. \A T : /\ SizeOf(T) = Sums!SumFunctionOnSet(Size, T)
             /\ IsFiniteSet(T) <=> Sums!IsFiniteSet(T)
  BY DEF SizeOf, SumFunctionOnSet, Sums!SumFunctionOnSet, FoldFunctionOnSet,
         Sums!FoldFunctionOnSet, MapThenFoldSet, Sums!MapThenFoldSet, IsFiniteSet,
         Sums!IsFiniteSet
<1>2. Sums!IsFiniteSet(S) /\ \A x \in S : Size[x] \in Int
  BY <1>1, FS_Subset, StorageAssumption
<1>3. Sums!SumFunctionOnSet(Size, S)
        = Sums!SumFunctionOnSet(Size, R) + Sums!SumFunctionOnSet(Size, S \ R)
  BY <1>2, Sums!SumSplits
<1>4. \A T \in SUBSET Files : SizeOf(T) \in Nat
  <2>1. PICK f : f \in Files
    BY StorageAssumption
  <2> QED
    BY <2>1, SizeFacts
<1> QED
  BY <1>1, <1>3, <1>4

-------------------------------------------------------------------------------
(* Transfers that get a connection *)

\* The first elements of a sequence without repetition are as many as their number.
LEMMA FirstElements ==
    ASSUME NEW S, NEW q \in Seq(S), Distinct(q), NEW n \in 0 .. Len(q)
    PROVE  LET first == ToSet(SubSeq(q, 1, n)) IN
             /\ first = {q[i] : i \in 1 .. n}
             /\ IsFiniteSet(first) /\ Cardinality(first) = n
<1> DEFINE part == SubSeq(q, 1, n)
           first == ToSet(part)
           f == [i \in 1 .. n |-> q[i]]
<1>1. /\ Len(part) = n /\ part \in Seq(S)
      /\ \A i \in 1 .. n : part[i] = q[i]
  <2>1. \A i \in 1 .. n : q[i] \in S
    OBVIOUS
  <2> QED
    BY <2>1, SubSeqProperties
<1> HIDE DEF part
<1>2. first = {q[i] : i \in 1 .. n}
  <2>1. DOMAIN part = 1 .. n
    BY <1>1
  <2> QED
    BY <1>1, <2>1 DEF ToSet
<1>3. \A i, j \in 1 .. n : q[i] = q[j] => i = j
  BY DEF Distinct
<1> HIDE DEF first
<1>4. f \in Surjection(1 .. n, first)
  BY <1>2 DEF Surjection
<1>5. f \in Injection(1 .. n, first)
  BY <1>2, <1>3 DEF Injection, IsInjective
<1>6. IsFiniteSet(1 .. n) /\ Cardinality(1 .. n) = n
  BY FS_Interval
<1>7. IsFiniteSet(first) /\ Cardinality(first) = n
  <2> HIDE DEF f
  <2> QED
    BY <1>4, <1>5, <1>6, FS_Surjection
<1> QED
  BY <1>2, <1>7 DEF first, part

\* startPendingFileTransferThread: as many transfers get a connection as there are, in line.
LEMMA StartsPending ==
    ASSUME NEW s \in Services, NEW queue \in Seq(Transfer), NEW active \in SUBSET Transfer,
           pending \in [Services -> Seq(Transfer)], running \in [Services -> SUBSET Transfer],
           Distinct(queue), \A i \in DOMAIN queue : queue[i] \notin active,
           IsFiniteSet(active), Cardinality(active) <= MaxConnections,
           StartPending(s, queue, active)
    PROVE  /\ pending' \in [Services -> Seq(Transfer)]
           /\ running' \in [Services -> SUBSET Transfer]
           /\ \A r \in Services \ {s} : pending'[r] = pending[r] /\ running'[r] = running[r]
           /\ Distinct(pending'[s])
           /\ \A i \in DOMAIN pending'[s] :
                 pending'[s][i] \notin running'[s] /\ \E k \in DOMAIN queue : pending'[s][i] = queue[k]
           /\ active \subseteq running'[s]
           /\ \A t \in running'[s] : t \in active \/ \E k \in DOMAIN queue : t = queue[k]
           /\ UnderWay(s)' = ToSet(queue) \cup active
           /\ \A r \in Services \ {s} : UnderWay(r)' = UnderWay(r)
           /\ IsFiniteSet(running'[s]) /\ Cardinality(running'[s]) <= MaxConnections
           /\ pending'[s] # <<>> => Cardinality(running'[s]) = MaxConnections
<1> DEFINE room == MaxConnections - Cardinality(active)
           n == Min({Len(queue), room})
           first == ToSet(SubSeq(queue, 1, n))
           rest == SubSeq(queue, n + 1, Len(queue))
<1>1. Cardinality(active) \in Nat /\ room \in Nat /\ MaxConnections \in Nat
  BY FS_CardinalityType, StorageAssumption
<1>2. n \in Nat /\ n <= Len(queue) /\ n <= room /\ (n = Len(queue) \/ n = room)
  <2> HIDE DEF room
  <2>1. Len(queue) \in Nat
    OBVIOUS
  <2>2. \E x \in {Len(queue), room} : \A y \in {Len(queue), room} : x <= y
    BY <1>1, <2>1
  <2>3. n \in {Len(queue), room} /\ \A y \in {Len(queue), room} : n <= y
    BY <2>2 DEF Min
  <2> QED
    BY <1>1, <2>1, <2>3
<1>3. pending' = [pending EXCEPT ![s] = rest] /\ running' = [running EXCEPT ![s] = active \cup first]
  BY DEF StartPending
<1> HIDE DEF n, room
<1>4. /\ first = {queue[i] : i \in 1 .. n}
      /\ IsFiniteSet(first) /\ Cardinality(first) = n
  BY <1>2, FirstElements
<1>5. /\ rest \in Seq(Transfer) /\ Len(rest) = Len(queue) - n
      /\ \A i \in 1 .. Len(rest) : rest[i] = queue[n + i]
  <2>1. \A i \in n + 1 .. Len(queue) : queue[i] \in Transfer
    BY <1>2
  <2>2. n + 1 \in Int /\ Len(queue) \in Int
    BY <1>2
  <2>3. /\ rest \in Seq(Transfer)
        /\ Len(rest) = IF n + 1 <= Len(queue) THEN Len(queue) - (n + 1) + 1 ELSE 0
        /\ \A i \in 1 .. Len(queue) - (n + 1) + 1 : rest[i] = queue[n + 1 + i - 1]
    BY <2>1, <2>2, SubSeqProperties
  <2> QED
    BY <1>2, <2>3
<1> HIDE DEF first, rest
<1>6. first \subseteq Transfer
  BY <1>2, <1>4
<1>7. /\ pending' \in [Services -> Seq(Transfer)] /\ running' \in [Services -> SUBSET Transfer]
      /\ \A r \in Services \ {s} : pending'[r] = pending[r] /\ running'[r] = running[r]
      /\ pending'[s] = rest /\ running'[s] = active \cup first
  BY <1>3, <1>5, <1>6
<1>8. Distinct(rest)
  <2> SUFFICES ASSUME NEW i \in 1 .. Len(rest), NEW j \in 1 .. Len(rest), rest[i] = rest[j]
               PROVE  i = j
    BY <1>5 DEF Distinct
  <2>1. n + i \in DOMAIN queue /\ n + j \in DOMAIN queue /\ queue[n + i] = queue[n + j]
    BY <1>2, <1>5
  <2>2. n + i = n + j
    BY <2>1 DEF Distinct
  <2> QED
    BY <1>2, <2>2
<1>9. ASSUME NEW i \in DOMAIN rest
      PROVE  rest[i] \notin active \cup first /\ \E k \in DOMAIN queue : rest[i] = queue[k]
  <2>1. i \in 1 .. Len(rest) /\ rest[i] = queue[n + i] /\ n + i \in DOMAIN queue
    <3>1. DOMAIN rest = 1 .. Len(rest) /\ DOMAIN queue = 1 .. Len(queue)
      BY <1>5
    <3> QED
      BY <1>2, <1>5, <3>1
  <2>2. \A k \in 1 .. n : queue[k] # queue[n + i]
    BY <1>2, <2>1 DEF Distinct
  <2> QED
    BY <1>4, <2>1, <2>2
<1>10. \A t \in first : \E k \in DOMAIN queue : t = queue[k]
  BY <1>2, <1>4
<1>11. IsFiniteSet(active \cup first) /\ Cardinality(active \cup first) = Cardinality(active) + n
  <2>1. active \cap first = {}
    BY <1>10
  <2>2. Cardinality({}) = 0
    BY FS_EmptySet
  <2>3. /\ IsFiniteSet(active \cup first)
        /\ Cardinality(active \cup first)
             = Cardinality(active) + Cardinality(first) - Cardinality(active \cap first)
    BY <1>4, FS_Union
  <2>4. Cardinality(active \cap first) = 0
    BY <2>1, <2>2
  <2> QED
    BY <1>1, <1>2, <1>4, <2>3, <2>4
<1>12. Cardinality(active \cup first) <= MaxConnections
  BY <1>1, <1>2, <1>11 DEF room
<1>13. rest # <<>> => Cardinality(active \cup first) = MaxConnections
  <2>1. n = Len(queue) => rest = <<>>
    BY <1>5
  <2> QED
    BY <1>1, <1>2, <1>11, <2>1 DEF room
<1>14. UnderWay(s)' = ToSet(queue) \cup active
  <2>1. ASSUME NEW k \in DOMAIN queue, queue[k] \notin first
        PROVE  \E i \in DOMAIN rest : rest[i] = queue[k]
    <3>1. k \in 1 .. Len(queue) /\ k \notin 1 .. n
      BY <1>4, <2>1
    <3>2. k - n \in 1 .. Len(rest) /\ rest[k - n] = queue[k]
      BY <1>2, <1>5, <3>1
    <3> QED
      BY <1>5, <3>2
  <2>2. ToSet(rest) \cup first = ToSet(queue)
    BY <1>9, <1>10, <2>1 DEF ToSet
  <2> QED
    BY <1>7, <2>2 DEF UnderWay, ToSet
<1>15. \A r \in Services \ {s} : UnderWay(r)' = UnderWay(r)
  BY <1>7 DEF UnderWay, ToSet
<1> QED
  BY <1>7, <1>8, <1>9, <1>10, <1>11, <1>12, <1>13, <1>14, <1>15

-------------------------------------------------------------------------------
(* Messages *)

MessageOf(what, op, c) == [what |-> what, op |-> op, client |-> c]

\* A message that is received was in order, and no other is about its transfer.
LEMMA Receives ==
    ASSUME TypeOK, NEW s \in Services, ServiceFine(s), NEW c \in Clients, NEW op, NEW what,
           Receive(s, what, op, c)
    PROVE  /\ mailbox' \in [Services -> Seq(Message)]
           /\ \A r \in Services \ {s} : mailbox'[r] = mailbox[r]
           /\ \A i \in DOMAIN mailbox'[s] :
                /\ mailbox'[s][i] \in Message
                /\ \E k \in DOMAIN mailbox[s] : mailbox'[s][i] = mailbox[s][k]
                /\ SubjectOf(mailbox'[s][i]) # TransferOf(op, c)
           /\ Distinct(Subjects(mailbox'[s]))
           /\ MessageOf(what, op, c) \in Message /\ MessageFine(s, MessageOf(what, op, c))
<1> DEFINE q == mailbox[s]
           rest == Tail(q)
<1>1. q \in Seq(Message) /\ q # <<>> /\ Head(q) = MessageOf(what, op, c)
  BY DEF Receive, TypeOK, MessageOf
<1>2. mailbox' = [mailbox EXCEPT ![s] = rest]
  BY DEF Receive
<1> HIDE DEF q
<1>3. /\ rest \in Seq(Message) /\ Head(q) \in Message
      /\ DOMAIN q = 1 .. Len(q) /\ Len(q) \in Nat \ {0} /\ q[1] = Head(q)
      /\ DOMAIN rest = 1 .. Len(q) - 1
      /\ \A i \in 1 .. Len(q) - 1 : rest[i] = q[i + 1]
  BY <1>1
<1> HIDE DEF rest
<1>4. /\ mailbox' \in [Services -> Seq(Message)] /\ mailbox'[s] = rest
      /\ \A r \in Services \ {s} : mailbox'[r] = mailbox[r]
  BY <1>2, <1>3 DEF TypeOK
<1>5. \A i, j \in DOMAIN q : SubjectOf(q[i]) = SubjectOf(q[j]) => i = j
  <2>1. Distinct(Subjects(q))
    BY DEF ServiceFine, q
  <2> QED
    BY <2>1 DEF Distinct, Subjects, SubjectOf
<1>6. ASSUME NEW i \in DOMAIN rest
      PROVE  /\ i + 1 \in DOMAIN q /\ rest[i] = q[i + 1] /\ rest[i] \in Message
             /\ SubjectOf(rest[i]) # TransferOf(op, c)
  <2>1. i + 1 \in DOMAIN q /\ rest[i] = q[i + 1] /\ i + 1 # 1 /\ 1 \in DOMAIN q
    BY <1>3
  <2>2. rest[i] \in Message
    BY <1>3
  <2>3. SubjectOf(q[1]) = TransferOf(op, c)
    BY <1>1, <1>3 DEF SubjectOf, MessageOf, TransferOf
  <2> QED
    BY <1>5, <2>1, <2>2, <2>3
<1>7. Distinct(Subjects(rest))
  <2> SUFFICES ASSUME NEW i \in DOMAIN rest, NEW j \in DOMAIN rest,
                      SubjectOf(rest[i]) = SubjectOf(rest[j])
               PROVE  i = j
    BY DEF Distinct, Subjects, SubjectOf
  <2>1. i + 1 = j + 1
    BY <1>5, <1>6
  <2> QED
    BY <1>3, <2>1
<1>8. MessageOf(what, op, c) \in Message /\ MessageFine(s, MessageOf(what, op, c))
  <2>1. \A i \in DOMAIN q : MessageFine(s, q[i])
    BY DEF ServiceFine, q
  <2> QED
    BY <1>1, <1>3, <2>1
<1>9. \A i \in DOMAIN rest : /\ rest[i] \in Message /\ SubjectOf(rest[i]) # TransferOf(op, c)
                              /\ \E k \in DOMAIN q : rest[i] = q[k]
  BY <1>6
<1>10. q = mailbox[s]
  BY DEF q
<1> HIDE DEF MessageFine, MessageOf, Distinct, Subjects, SubjectOf, TransferOf
<1> QED
  BY <1>4, <1>7, <1>8, <1>9, <1>10

\* A message with a new subject.
LEMMA MailWith ==
    ASSUME NEW q \in Seq(Message), Distinct(Subjects(q)), NEW m \in Message,
           \A i \in DOMAIN q : SubjectOf(q[i]) # SubjectOf(m)
    PROVE  /\ Append(q, m) \in Seq(Message)
           /\ Distinct(Subjects(Append(q, m)))
           /\ \A i \in DOMAIN Append(q, m) :
                 \/ Append(q, m)[i] = m
                 \/ \E k \in DOMAIN q : Append(q, m)[i] = q[k]
<1> DEFINE p == Append(q, m)
<1>1. /\ p \in Seq(Message) /\ DOMAIN q = 1 .. Len(q) /\ Len(q) \in Nat
      /\ DOMAIN p = 1 .. Len(q) + 1
      /\ \A i \in 1 .. Len(q) + 1 : p[i] = IF i = Len(q) + 1 THEN m ELSE q[i]
  OBVIOUS
<1> HIDE DEF p
<1> DEFINE n == Len(q) + 1
<1> HIDE DEF n
<1>2. ASSUME NEW i \in DOMAIN p
      PROVE  \/ i = n /\ i \notin DOMAIN q /\ p[i] = m
             \/ i \in DOMAIN q /\ p[i] = q[i]
  <2>1. /\ i \in 1 .. n /\ (i # n => i \in DOMAIN q) /\ n \notin DOMAIN q
        /\ p[i] = IF i = n THEN m ELSE q[i]
    BY <1>1 DEF n
  <2> QED
    BY <2>1
<1>3. \A i, j \in DOMAIN q : SubjectOf(q[i]) = SubjectOf(q[j]) => i = j
  BY DEF Distinct, Subjects, SubjectOf
<1>4. \A i, j \in DOMAIN p : SubjectOf(p[i]) = SubjectOf(p[j]) => i = j
  BY <1>2, <1>3
<1>5. Distinct(Subjects(p))
  BY <1>4 DEF Distinct, Subjects, SubjectOf
<1> QED
  BY <1>1, <1>2, <1>5 DEF p

-------------------------------------------------------------------------------
(* The steps, by what they do to transfers and messages *)

LEMMA AboutMessages ==
    ASSUME NEW s, NEW m
    PROVE  MessageFine(s, m)' <=>
             /\ Placed(s, m)'
             /\ IF m.what = "asked" THEN SubjectOf(m) \notin UnderWay(s)' ELSE SubjectOf(m) \in running'[s]
BY DEF MessageFine, SubjectOf, TransferOf

\* What is not about c is not affected by what happens to c.
LEMMA OthersStay ==
    ASSUME NEW c, \A d \in Clients \ {c} : stage'[d] = stage[d] /\ request'[d] = request[d]
    PROVE  \A s : /\ \A t \in Transfer : t.client # c =>
                        /\ WaitingFine(s, t) => WaitingFine(s, t)'
                        /\ RunningFine(s, t) => RunningFine(s, t)'
                  /\ \A m \in Message : m.client # c => (Placed(s, m) => Placed(s, m)')
<1>1. \A t \in Transfer : t.client \in Clients
  BY DEF Transfer
<1>2. \A m \in Message : m.client \in Clients
  BY DEF Message
<1> QED
  BY <1>1, <1>2 DEF WaitingFine, RunningFine, Placed

\* ServiceFine of the next state, element by element.
LEMMA FineAfter ==
    ASSUME NEW r,
           \A m : (\E i \in DOMAIN mailbox'[r] : m = mailbox'[r][i]) => MessageFine(r, m)',
           \A t : (\E i \in DOMAIN pending'[r] : t = pending'[r][i]) =>
                     WaitingFine(r, t)' /\ t \notin running'[r],
           \A t \in running'[r] : RunningFine(r, t)',
           Distinct(Subjects(mailbox'[r])), Distinct(pending'[r]),
           IsFiniteSet(running'[r]), Cardinality(running'[r]) <= MaxConnections,
           pending'[r] # <<>> => Cardinality(running'[r]) = MaxConnections
    PROVE  ServiceFine(r)'
<1>1. \A i \in DOMAIN mailbox'[r] : MessageFine(r, mailbox[r][i])'
  BY DEF MessageFine, Placed, SubjectOf, TransferOf, UnderWay, ToSet
<1>2. \A i \in DOMAIN pending'[r] : WaitingFine(r, pending[r][i])' /\ pending'[r][i] \notin running'[r]
  BY DEF WaitingFine
<1>3. Distinct(Subjects(mailbox[r]))' /\ Distinct(pending[r])'
  BY DEF Distinct, Subjects
<1> QED
  BY <1>1, <1>2, <1>3 DEF ServiceFine

LEMMA WaitsThenRuns ==
    ASSUME NEW s, NEW t
    PROVE  WaitingFine(s, t)' => RunningFine(s, t)'
BY DEF WaitingFine, RunningFine

\* A step of a service that receives a message about a transfer: queue and active are the
\* transfers in line and under way after it was handled; what is left of the client of that
\* transfer is still in order.
LEMMA ServiceKeeps ==
    ASSUME TypeOK, \A r \in Services : ServiceFine(r),
           NEW s \in Services, NEW c \in Clients, NEW op, NEW what, Receive(s, what, op, c),
           NEW queue \in Seq(Transfer), NEW active \in SUBSET Transfer,
           StartPending(s, queue, active),
           Distinct(queue), \A i \in DOMAIN queue : queue[i] \notin active,
           \A i \in DOMAIN queue :
              \/ queue[i] = TransferOf(op, c) /\ WaitingFine(s, queue[i])'
              \/ \E k \in DOMAIN pending[s] : queue[i] = pending[s][k],
           active \subseteq running[s], running[s] \ active \subseteq {TransferOf(op, c)},
           request' = request,
           \A d \in Clients \ {c} : stage'[d] = stage[d],
           \A r \in Services : \A t \in Transfer :
              t.client = c /\ RunningFine(r, t) /\ (r = s => t \in active) => RunningFine(r, t)',
           \A r \in Services : \A t \in Transfer :
              t.client = c /\ WaitingFine(r, t) /\ (r = s => t # TransferOf(op, c))
                => WaitingFine(r, t)',
           \A r \in Services : \A m \in Message :
              m.client = c /\ Placed(r, m) /\ (r = s => SubjectOf(m) # TransferOf(op, c))
                => Placed(r, m)'
    PROVE  /\ \A r \in Services : ServiceFine(r)'
           /\ mailbox' \in [Services -> Seq(Message)]
           /\ pending' \in [Services -> Seq(Transfer)] /\ running' \in [Services -> SUBSET Transfer]
           /\ UnderWay(s)' = ToSet(queue) \cup active
           /\ \A r \in Services \ {s} : UnderWay(r)' = UnderWay(r)
<1> DEFINE t0 == TransferOf(op, c)
<1>1. /\ mailbox' \in [Services -> Seq(Message)]
      /\ \A r \in Services \ {s} : mailbox'[r] = mailbox[r]
      /\ \A i \in DOMAIN mailbox'[s] :
           /\ mailbox'[s][i] \in Message
           /\ \E k \in DOMAIN mailbox[s] : mailbox'[s][i] = mailbox[s][k]
           /\ SubjectOf(mailbox'[s][i]) # t0
      /\ Distinct(Subjects(mailbox'[s]))
      /\ MessageOf(what, op, c) \in Message /\ MessageFine(s, MessageOf(what, op, c))
  BY Receives
<1>2. /\ pending \in [Services -> Seq(Transfer)] /\ running \in [Services -> SUBSET Transfer]
      /\ mailbox \in [Services -> Seq(Message)]
  BY DEF TypeOK
<1>3. ASSUME NEW r \in Services
      PROVE  /\ \A i \in DOMAIN mailbox[r] : mailbox[r][i] \in Message /\ MessageFine(r, mailbox[r][i])
             /\ Distinct(Subjects(mailbox[r]))
             /\ \A i \in DOMAIN pending[r] :
                   /\ pending[r][i] \in Transfer /\ WaitingFine(r, pending[r][i])
                   /\ pending[r][i] \notin running[r]
             /\ Distinct(pending[r])
             /\ \A t \in running[r] : t \in Transfer /\ RunningFine(r, t)
             /\ IsFiniteSet(running[r]) /\ Cardinality(running[r]) <= MaxConnections
             /\ pending[r] # <<>> => Cardinality(running[r]) = MaxConnections
  <2>1. ServiceFine(r)
    OBVIOUS
  <2>2. \A i \in DOMAIN mailbox[r] : mailbox[r][i] \in Message
    BY <1>2
  <2>3. \A i \in DOMAIN pending[r] : pending[r][i] \in Transfer
    BY <1>2
  <2> QED
    BY <1>2, <2>1, <2>2, <2>3 DEF ServiceFine
<1>4. IsFiniteSet(active) /\ Cardinality(active) <= MaxConnections
  <2>1. IsFiniteSet(active) /\ Cardinality(active) <= Cardinality(running[s])
    BY <1>3, FS_Subset
  <2>2. /\ Cardinality(active) \in Nat /\ Cardinality(running[s]) \in Nat /\ MaxConnections \in Nat
        /\ Cardinality(running[s]) <= MaxConnections
    BY <1>3, <2>1, FS_CardinalityType, StorageAssumption
  <2> QED
    BY <2>1, <2>2
<1>5. /\ pending' \in [Services -> Seq(Transfer)]
      /\ running' \in [Services -> SUBSET Transfer]
      /\ \A r \in Services \ {s} : pending'[r] = pending[r] /\ running'[r] = running[r]
      /\ Distinct(pending'[s])
      /\ \A i \in DOMAIN pending'[s] :
            pending'[s][i] \notin running'[s] /\ \E k \in DOMAIN queue : pending'[s][i] = queue[k]
      /\ active \subseteq running'[s]
      /\ \A t \in running'[s] : t \in active \/ \E k \in DOMAIN queue : t = queue[k]
      /\ UnderWay(s)' = ToSet(queue) \cup active
      /\ \A r \in Services \ {s} : UnderWay(r)' = UnderWay(r)
      /\ IsFiniteSet(running'[s]) /\ Cardinality(running'[s]) <= MaxConnections
      /\ pending'[s] # <<>> => Cardinality(running'[s]) = MaxConnections
  BY <1>2, <1>4, StartsPending
<1>6. \A i \in DOMAIN pending[s] : pending[s][i] # t0
  <2>1. t0 \notin UnderWay(s) \/ t0 \in running[s]
    <3>1. SubjectOf(MessageOf(what, op, c)) = t0
      BY DEF SubjectOf, MessageOf
    <3> QED
      BY <1>1, <3>1 DEF MessageFine
  <2> QED
    BY <1>3, <2>1 DEF UnderWay, ToSet
<1>7. \A r : /\ \A t \in Transfer : t.client # c => /\ WaitingFine(r, t) => WaitingFine(r, t)'
                                                    /\ RunningFine(r, t) => RunningFine(r, t)'
             /\ \A m \in Message : m.client # c => (Placed(r, m) => Placed(r, m)')
  BY OthersStay
<1> HIDE DEF t0
<1>8. ASSUME NEW r \in Services, NEW t, \E i \in DOMAIN pending[r] : t = pending[r][i]
      PROVE  WaitingFine(r, t)'
  <2>1. t \in Transfer /\ WaitingFine(r, t) /\ (r = s => t # t0)
    BY <1>3, <1>6, <1>8
  <2>2. CASE t.client = c
    BY <2>1, <2>2 DEF t0
  <2>3. CASE t.client # c
    BY <1>7, <2>1, <2>3
  <2> QED
    BY <2>2, <2>3
<1>9. ASSUME NEW r \in Services, NEW t \in running[r], r = s => t \in active
      PROVE  RunningFine(r, t)'
  <2>1. t \in Transfer /\ RunningFine(r, t)
    BY <1>3
  <2>2. CASE t.client = c
    BY <1>9, <2>1, <2>2
  <2>3. CASE t.client # c
    BY <1>7, <2>1, <2>3
  <2> QED
    BY <2>2, <2>3
<1>10. ASSUME NEW t, \E i \in DOMAIN queue : t = queue[i] PROVE WaitingFine(s, t)'
  BY <1>8, <1>10
<1>11. ASSUME NEW r \in Services, NEW m \in Message, MessageFine(r, m),
              r = s => SubjectOf(m) # t0
       PROVE  MessageFine(r, m)'
  <2>1. /\ Placed(r, m)
        /\ IF m.what = "asked" THEN SubjectOf(m) \notin UnderWay(r) ELSE SubjectOf(m) \in running[r]
    BY <1>11 DEF MessageFine
  <2>2. Placed(r, m)'
    <3>1. CASE m.client = c
      BY <1>11, <2>1, <3>1 DEF t0
    <3>2. CASE m.client # c
      BY <1>7, <2>1, <3>2
    <3> QED
      BY <3>1, <3>2
  <2>3. m.what # "asked" => SubjectOf(m) \in running'[r]
    <3>1. CASE r = s
      BY <1>5, <1>11, <2>1, <3>1 DEF t0
    <3>2. CASE r # s
      BY <1>5, <2>1, <3>2
    <3> QED
      BY <3>1, <3>2
  <2>4. m.what = "asked" => SubjectOf(m) \notin UnderWay(r)'
    <3>1. UnderWay(s)' \subseteq UnderWay(s) \cup {t0}
      <4>1. ToSet(queue) \subseteq ToSet(pending[s]) \cup {t0}
        BY DEF ToSet, t0
      <4> QED
        BY <1>5, <4>1 DEF UnderWay
    <3>2. CASE r = s
      BY <1>11, <2>1, <3>1, <3>2
    <3>3. CASE r # s
      BY <1>5, <2>1, <3>3
    <3> QED
      BY <3>2, <3>3
  <2> QED
    BY <2>2, <2>3, <2>4, AboutMessages
<1>12. ASSUME NEW r \in Services, NEW m, \E i \in DOMAIN mailbox'[r] : m = mailbox'[r][i]
       PROVE  MessageFine(r, m)'
  <2>1. CASE r = s
    <3>1. PICK k \in DOMAIN mailbox[s] : m = mailbox[s][k] /\ SubjectOf(m) # t0
      BY <1>1, <1>12, <2>1
    <3>2. m \in Message /\ MessageFine(r, m)
      BY <1>3, <2>1, <3>1
    <3> QED
      BY <1>11, <3>1, <3>2
  <2>2. CASE r # s
    <3>1. PICK k \in DOMAIN mailbox[r] : m = mailbox[r][k]
      BY <1>1, <1>12, <2>2
    <3> QED
      BY <1>3, <1>11, <2>2, <3>1
  <2> QED
    BY <2>1, <2>2
<1>13. ASSUME NEW r \in Services, NEW t, \E i \in DOMAIN pending'[r] : t = pending'[r][i]
       PROVE  WaitingFine(r, t)' /\ t \notin running'[r]
  <2>1. CASE r = s
    BY <1>5, <1>10, <1>13, <2>1
  <2>2. CASE r # s
    <3>1. pending'[r] = pending[r] /\ running'[r] = running[r]
      BY <1>5, <2>2
    <3>2. WaitingFine(r, t)'
      BY <1>8, <1>13, <3>1
    <3>3. t \notin running[r]
      BY <1>3, <1>13, <3>1
    <3> QED
      BY <3>1, <3>2, <3>3
  <2> QED
    BY <2>1, <2>2
<1>14. ASSUME NEW r \in Services, NEW t \in running'[r] PROVE RunningFine(r, t)'
  <2>1. CASE r = s /\ t \in active
    BY <1>9, <2>1
  <2>2. CASE r = s /\ t \notin active
    BY <1>5, <1>10, <1>14, <2>2, WaitsThenRuns
  <2>3. CASE r # s
    BY <1>5, <1>9, <1>14, <2>3
  <2> QED
    BY <2>1, <2>2, <2>3
<1>15. ASSUME NEW r \in Services
       PROVE  /\ Distinct(Subjects(mailbox'[r])) /\ Distinct(pending'[r])
              /\ IsFiniteSet(running'[r]) /\ Cardinality(running'[r]) <= MaxConnections
              /\ pending'[r] # <<>> => Cardinality(running'[r]) = MaxConnections
  BY <1>1, <1>3, <1>5
<1>16. ASSUME NEW r \in Services PROVE ServiceFine(r)'
  BY <1>12, <1>13, <1>14, <1>15, FineAfter
<1> QED
  BY <1>1, <1>5, <1>16

\* A step of client c, or of a transfer for it: it may send a message, with a new subject,
\* and what there is of it is still in order.
LEMMA ClientKeeps ==
    ASSUME TypeOK, \A r \in Services : ServiceFine(r), NEW c \in Clients,
           pending' = pending, running' = running,
           \A d \in Clients \ {c} : stage'[d] = stage[d] /\ request'[d] = request[d],
           \A r \in Services : \A m \in Message :
              m.client = c /\ (\E i \in DOMAIN mailbox[r] : m = mailbox[r][i]) => Placed(r, m)',
           \A r \in Services : \A t \in Transfer :
              t.client = c /\ (\E i \in DOMAIN pending[r] : t = pending[r][i]) => WaitingFine(r, t)',
           \A r \in Services : \A t \in running[r] : t.client = c => RunningFine(r, t)',
           mailbox' = [r \in Services |-> mailbox'[r]],
           \A r \in Services :
              \/ mailbox'[r] = mailbox[r]
              \/ \E m \in Message : /\ \A i \in DOMAIN mailbox[r] : SubjectOf(mailbox[r][i]) # SubjectOf(m)
                                    /\ MessageFine(r, m)'
                                    /\ mailbox'[r] = Append(mailbox[r], m)
    PROVE  /\ \A r \in Services : ServiceFine(r)'
           /\ mailbox' \in [Services -> Seq(Message)]
<1>1. \A r : /\ \A t \in Transfer : t.client # c => /\ WaitingFine(r, t) => WaitingFine(r, t)'
                                                    /\ RunningFine(r, t) => RunningFine(r, t)'
             /\ \A m \in Message : m.client # c => (Placed(r, m) => Placed(r, m)')
  BY OthersStay
<1>2. /\ pending \in [Services -> Seq(Transfer)] /\ running \in [Services -> SUBSET Transfer]
      /\ mailbox \in [Services -> Seq(Message)]
  BY DEF TypeOK
<1>3. ASSUME NEW r \in Services
      PROVE  /\ mailbox'[r] \in Seq(Message) /\ Distinct(Subjects(mailbox'[r]))
             /\ \A m : (\E i \in DOMAIN mailbox'[r] : m = mailbox'[r][i]) =>
                  \/ m \in Message /\ MessageFine(r, m)'
                  \/ \E k \in DOMAIN mailbox[r] : m = mailbox[r][k]
  <2>1. mailbox[r] \in Seq(Message) /\ Distinct(Subjects(mailbox[r]))
    BY <1>2 DEF ServiceFine
  <2>2. CASE mailbox'[r] = mailbox[r]
    BY <2>1, <2>2
  <2>3. ASSUME NEW m \in Message, \A i \in DOMAIN mailbox[r] : SubjectOf(mailbox[r][i]) # SubjectOf(m),
               MessageFine(r, m)', mailbox'[r] = Append(mailbox[r], m)
        PROVE  /\ mailbox'[r] \in Seq(Message) /\ Distinct(Subjects(mailbox'[r]))
               /\ \A n : (\E i \in DOMAIN mailbox'[r] : n = mailbox'[r][i]) =>
                    n = m \/ \E k \in DOMAIN mailbox[r] : n = mailbox[r][k]
    <3> DEFINE q == mailbox[r]
    <3>1. \A i \in DOMAIN q : SubjectOf(q[i]) # SubjectOf(m)
      BY <2>3
    <3>2. q \in Seq(Message) /\ Distinct(Subjects(q))
      BY <2>1
    <3>3. q = mailbox[r]
      OBVIOUS
    <3> HIDE DEF q
    <3>4. /\ Append(q, m) \in Seq(Message) /\ Distinct(Subjects(Append(q, m)))
          /\ \A i \in DOMAIN Append(q, m) :
                Append(q, m)[i] = m \/ \E k \in DOMAIN q : Append(q, m)[i] = q[k]
      BY <3>1, <3>2, MailWith
    <3>5. mailbox'[r] = Append(q, m)
      BY <2>3, <3>3
    <3> DEFINE p == Append(q, m)
    <3> HIDE DEF p
    <3>6. /\ p \in Seq(Message) /\ Distinct(Subjects(p)) /\ mailbox'[r] = p
          /\ \A i \in DOMAIN p : p[i] = m \/ \E k \in DOMAIN q : p[i] = q[k]
      BY <3>4, <3>5 DEF p
    <3> QED
      BY <3>3, <3>6
  <2> QED
    BY <2>2, <2>3
<1>4. ASSUME NEW r \in Services, NEW m, \E i \in DOMAIN mailbox'[r] : m = mailbox'[r][i]
      PROVE  MessageFine(r, m)'
  <2>1. ASSUME NEW k \in DOMAIN mailbox[r], m = mailbox[r][k] PROVE MessageFine(r, m)'
    <3>1. m \in Message /\ MessageFine(r, m)
      BY <1>2, <2>1 DEF ServiceFine
    <3>2. Placed(r, m)'
      BY <1>1, <2>1, <3>1 DEF MessageFine
    <3>3. UnderWay(r)' = UnderWay(r) /\ running'[r] = running[r]
      BY DEF UnderWay, ToSet
    <3> QED
      BY <3>1, <3>2, <3>3, AboutMessages DEF MessageFine
  <2> QED
    BY <1>3, <1>4, <2>1
<1>5. ASSUME NEW r \in Services, NEW t, \E i \in DOMAIN pending'[r] : t = pending'[r][i]
      PROVE  WaitingFine(r, t)' /\ t \notin running'[r]
  <2>1. t \in Transfer /\ (t.client = c => WaitingFine(r, t)')
    BY <1>2, <1>5
  <2>2. WaitingFine(r, t) /\ t \notin running[r]
    BY <1>5 DEF ServiceFine
  <2> QED
    BY <1>1, <2>1, <2>2
<1>6. ASSUME NEW r \in Services, NEW t \in running'[r] PROVE RunningFine(r, t)'
  <2>1. t \in Transfer /\ t \in running[r] /\ RunningFine(r, t)
    BY <1>2, <1>6 DEF ServiceFine
  <2> QED
    BY <1>1, <2>1
<1>7. ASSUME NEW r \in Services
      PROVE  /\ Distinct(pending'[r])
             /\ IsFiniteSet(running'[r]) /\ Cardinality(running'[r]) <= MaxConnections
             /\ pending'[r] # <<>> => Cardinality(running'[r]) = MaxConnections
  BY DEF ServiceFine
<1>8. ASSUME NEW r \in Services PROVE ServiceFine(r)'
  BY <1>3, <1>4, <1>5, <1>6, <1>7, FineAfter
<1>9. mailbox' \in [Services -> Seq(Message)]
  BY <1>3
<1> QED
  BY <1>8, <1>9

-------------------------------------------------------------------------------
(* The steps of a service *)

\* A new transfer is put in line, before or after the others.
LEMMA QueueWith ==
    ASSUME NEW q \in Seq(Transfer), Distinct(q), NEW t \in Transfer,
           \A i \in DOMAIN q : q[i] # t, NEW p \in {Append(q, t), <<t>> \o q}
    PROVE  /\ p \in Seq(Transfer) /\ Distinct(p)
           /\ \A i \in DOMAIN p : p[i] = t \/ \E k \in DOMAIN q : p[i] = q[k]
           /\ ToSet(p) = ToSet(q) \cup {t}
<1> DEFINE n == Len(q)
<1>1. n \in Nat /\ DOMAIN q = 1 .. n
  OBVIOUS
<1>2. CASE p = Append(q, t)
  <2>1. /\ p \in Seq(Transfer) /\ DOMAIN p = 1 .. n + 1
        /\ \A i \in 1 .. n + 1 : p[i] = IF i = n + 1 THEN t ELSE q[i]
    BY <1>2
  <2> HIDE DEF n
  <2>2. ASSUME NEW i \in DOMAIN p
        PROVE  \/ i = n + 1 /\ p[i] = t
               \/ i \in DOMAIN q /\ p[i] = q[i]
    <3> DEFINE last == n + 1
    <3>1. (i = last => p[i] = t) /\ (i # last => i \in DOMAIN q /\ p[i] = q[i])
      BY <1>1, <2>1
    <3> HIDE DEF last
    <3>2. (i = last /\ p[i] = t) \/ (i \in DOMAIN q /\ p[i] = q[i])
      BY <3>1
    <3> QED
      BY <3>2 DEF last
  <2>3. Distinct(p)
    BY <2>2 DEF Distinct
  <2>4. n + 1 \in DOMAIN p /\ p[n + 1] = t /\ \A k \in DOMAIN q : k \in DOMAIN p /\ p[k] = q[k]
    BY <1>1, <2>1
  <2>5. ToSet(p) = ToSet(q) \cup {t}
    BY <2>2, <2>4 DEF ToSet
  <2> QED
    BY <2>1, <2>2, <2>3, <2>5
<1>3. CASE p = <<t>> \o q
  <2>1. /\ p \in Seq(Transfer) /\ DOMAIN p = 1 .. n + 1
        /\ \A i \in 1 .. n + 1 : p[i] = IF i = 1 THEN t ELSE q[i - 1]
    BY <1>3
  <2> HIDE DEF n
  <2>2. ASSUME NEW i \in DOMAIN p
        PROVE  \/ i = 1 /\ p[i] = t
               \/ i - 1 \in DOMAIN q /\ p[i] = q[i - 1]
    <3>1. /\ i \in 1 .. n + 1 /\ (i # 1 => i - 1 \in DOMAIN q)
          /\ p[i] = IF i = 1 THEN t ELSE q[i - 1]
      BY <1>1, <2>1
    <3> QED
      BY <3>1
  <2>3. ASSUME NEW i \in DOMAIN p, NEW j \in DOMAIN p, p[i] = p[j] PROVE i = j
    <3>1. i \in Int /\ j \in Int
      BY <2>1
    <3>2. CASE i = 1
      BY <2>2, <2>3, <3>2
    <3>3. CASE i # 1 /\ j # 1
      <4>1. i - 1 = j - 1
        BY <2>2, <2>3, <3>3 DEF Distinct
      <4> QED
        BY <3>1, <4>1
    <3>4. CASE j = 1
      BY <2>2, <2>3, <3>4
    <3> QED
      BY <3>2, <3>3, <3>4
  <2>4. 1 \in DOMAIN p /\ p[1] = t /\ \A k \in DOMAIN q : k + 1 \in DOMAIN p /\ p[k + 1] = q[k]
    BY <1>1, <2>1
  <2>5. ToSet(p) = ToSet(q) \cup {t}
    BY <2>2, <2>4 DEF ToSet
  <2> QED
    BY <2>1, <2>2, <2>3, <2>5 DEF Distinct
<1> QED
  BY <1>2, <1>3

\* What the transfers and the messages of the next state have to be.
NextFine ==
    /\ \A r \in Services : ServiceFine(r)'
    /\ mailbox' \in [Services -> Seq(Message)]
    /\ pending' \in [Services -> Seq(Transfer)] /\ running' \in [Services -> SUBSET Transfer]

\* The answer to a request, whoever asked for it.
Answered(op, c, accepted) ==
    IF request[c].op = "copy" /\ op = "read" THEN AnswerCopy(c, accepted)
    ELSE Answer(c, IF accepted THEN "accepted" ELSE "idle")

\* How far the client of a request that is received is, and what the answer makes of it.
LEMMA AnswerMoves ==
    ASSUME TypeOK, NEW s \in Services, ServiceFine(s), NEW c \in Clients, NEW op,
           Receive(s, "asked", op, c), NEW accepted \in BOOLEAN, Answered(op, c, accepted)
    PROVE  /\ \A d \in Clients \ {c} : stage'[d] = stage[d]
           /\ \/ /\ op = request[c].op /\ s = request[c].at
                 /\ \/ stage[c] = "asked" /\ stage'[c] = IF accepted THEN "accepted" ELSE "idle"
                    \/ /\ stage[c] = "gone" /\ op # "copy"
                       /\ stage'[c] = IF accepted THEN "gone" ELSE "idle"
              \/ /\ op = "read" /\ request[c].op = "copy" /\ s = request[c].from
                 /\ \/ stage[c] = "fetching" /\ stage'[c] = IF accepted THEN "fed" ELSE "refused"
                    \/ stage[c] = "late" /\ stage'[c] = IF accepted THEN "late" ELSE "ended"
                    \/ stage[c] = "gone" /\ stage'[c] = IF accepted THEN "gone" ELSE "idle"
           /\ TransferOf(op, c) \notin UnderWay(s)
<1>1. MessageFine(s, MessageOf("asked", op, c))
  BY Receives
<1>2. /\ \/ /\ op = request[c].op /\ s = request[c].at
            /\ stage[c] = "asked" \/ (stage[c] = "gone" /\ op # "copy")
         \/ /\ op = "read" /\ request[c].op = "copy" /\ s = request[c].from
            /\ stage[c] \in {"fetching", "late", "gone"}
      /\ TransferOf(op, c) \notin UnderWay(s)
  BY <1>1 DEF MessageFine, Placed, MessageOf, SubjectOf
<1>3. stage \in [Clients -> Stage]
  BY DEF TypeOK
<1>4. CASE request[c].op = "copy" /\ op = "read"
  <2>1. AnswerCopy(c, accepted)
    BY <1>4 DEF Answered
  <2>2. /\ \A d \in Clients \ {c} : stage'[d] = stage[d]
        /\ stage[c] = "fetching" => stage'[c] = IF accepted THEN "fed" ELSE "refused"
        /\ stage[c] = "late" => stage'[c] = IF accepted THEN "late" ELSE "ended"
        /\ stage[c] = "gone" => stage'[c] = IF accepted THEN "gone" ELSE "idle"
    BY <1>3, <2>1 DEF AnswerCopy
  <2> QED
    BY <1>2, <1>4, <2>2
<1>5. CASE ~(request[c].op = "copy" /\ op = "read")
  <2>1. Answer(c, IF accepted THEN "accepted" ELSE "idle")
    BY <1>5 DEF Answered
  <2>2. /\ \A d \in Clients \ {c} : stage'[d] = stage[d]
        /\ stage[c] = "asked" => stage'[c] = IF accepted THEN "accepted" ELSE "idle"
        /\ stage[c] = "gone" => stage'[c] = IF accepted THEN "gone" ELSE "idle"
    BY <1>3, <2>1 DEF Answer
  <2> QED
    BY <1>2, <1>5, <2>2
<1> QED
  BY <1>4, <1>5

\* The transfers under way at the services, when one more is at s.
OneMore(s, t) ==
    /\ t \notin UnderWay(s) /\ UnderWay(s)' = UnderWay(s) \cup {t}
    /\ \A r \in Services \ {s} : UnderWay(r)' = UnderWay(r)

\* A request is answered, and its transfer put in line if it is accepted.
LEMMA RequestHandled ==
    ASSUME TypeOK, \A r \in Services : ServiceFine(r),
           NEW s \in Services, NEW c \in Clients, NEW op, Receive(s, "asked", op, c),
           NEW accepted \in BOOLEAN, Answered(op, c, accepted),
           NEW queue, StartPending(s, queue, running[s]),
           IF accepted
           THEN /\ queue \in {Append(pending[s], TransferOf(op, c)), <<TransferOf(op, c)>> \o pending[s]}
                /\ op \in {"write", "read", "copy"}
           ELSE queue = pending[s],
           request' = request
    PROVE  /\ NextFine
           /\ accepted => OneMore(s, TransferOf(op, c))
           /\ ~accepted => \A r \in Services : UnderWay(r)' = UnderWay(r)
<1> DEFINE t0 == TransferOf(op, c)
<1>1. /\ pending \in [Services -> Seq(Transfer)] /\ running \in [Services -> SUBSET Transfer]
      /\ stage \in [Clients -> Stage] /\ request \in [Clients -> Request]
  BY DEF TypeOK
<1>2. /\ \A d \in Clients \ {c} : stage'[d] = stage[d]
      /\ \/ /\ op = request[c].op /\ s = request[c].at
            /\ \/ stage[c] = "asked" /\ stage'[c] = IF accepted THEN "accepted" ELSE "idle"
               \/ /\ stage[c] = "gone" /\ op # "copy"
                  /\ stage'[c] = IF accepted THEN "gone" ELSE "idle"
         \/ /\ op = "read" /\ request[c].op = "copy" /\ s = request[c].from
            /\ \/ stage[c] = "fetching" /\ stage'[c] = IF accepted THEN "fed" ELSE "refused"
               \/ stage[c] = "late" /\ stage'[c] = IF accepted THEN "late" ELSE "ended"
               \/ stage[c] = "gone" /\ stage'[c] = IF accepted THEN "gone" ELSE "idle"
      /\ t0 \notin UnderWay(s)
  BY AnswerMoves
<1>3. /\ \A i \in DOMAIN pending[s] : pending[s][i] # t0 /\ pending[s][i] \notin running[s]
      /\ t0 \notin running[s] /\ Distinct(pending[s])
  BY <1>2 DEF ServiceFine, UnderWay, ToSet
<1>4. op \in {"write", "read", "copy"} => t0 \in Transfer
  BY DEF Transfer, TransferOf
<1>5. t0.client = c /\ t0.op = op
  BY DEF TransferOf
<1> HIDE DEF t0
<1>6. accepted => WaitingFine(s, t0)'
  BY <1>2, <1>5 DEF WaitingFine
<1>7. /\ queue \in Seq(Transfer) /\ Distinct(queue)
      /\ \A i \in DOMAIN queue : \/ queue[i] = t0 /\ WaitingFine(s, t0)'
                                 \/ \E k \in DOMAIN pending[s] : queue[i] = pending[s][k]
      /\ ToSet(queue) = ToSet(pending[s]) \cup (IF accepted THEN {t0} ELSE {})
  <2>1. CASE ~accepted
    BY <1>1, <1>3, <2>1
  <2>2. CASE accepted
    <3> DEFINE q == pending[s]
    <3>1. /\ q \in Seq(Transfer) /\ Distinct(q) /\ t0 \in Transfer /\ WaitingFine(s, t0)'
          /\ \A i \in DOMAIN q : q[i] # t0
      BY <1>1, <1>3, <1>4, <1>6, <2>2
    <3>2. queue \in {Append(q, t0), <<t0>> \o q}
      BY <2>2 DEF t0
    <3> HIDE DEF q
    <3>3. /\ queue \in Seq(Transfer) /\ Distinct(queue)
          /\ \A i \in DOMAIN queue : queue[i] = t0 \/ \E k \in DOMAIN q : queue[i] = q[k]
          /\ ToSet(queue) = ToSet(q) \cup {t0}
      BY <3>1, <3>2, QueueWith
    <3> QED
      BY <2>2, <3>1, <3>3 DEF q
  <2> QED
    BY <2>1, <2>2
<1>8. ASSUME NEW i \in DOMAIN queue
      PROVE  /\ queue[i] \notin running[s]
             /\ \/ queue[i] = t0 /\ WaitingFine(s, queue[i])'
                \/ \E k \in DOMAIN pending[s] : queue[i] = pending[s][k]
  BY <1>3, <1>7
<1>9. ASSUME NEW r \in Services, NEW t \in Transfer, t.client = c, RunningFine(r, t),
             r = s => t \in running[s]
      PROVE  RunningFine(r, t)'
  <2>1. t = TransferOf(t.op, c)
    BY <1>9 DEF Transfer, TransferOf
  <2>2. ~(t.op = op /\ r = s)
    BY <1>3, <1>9, <2>1 DEF t0
  <2> QED
    BY <1>2, <1>9, <2>2 DEF RunningFine
<1>10. ASSUME NEW r \in Services, NEW t \in Transfer, t.client = c, WaitingFine(r, t), r = s => t # t0
       PROVE  WaitingFine(r, t)'
  <2>1. t = TransferOf(t.op, c)
    BY <1>10 DEF Transfer, TransferOf
  <2>2. ~(t.op = op /\ r = s)
    BY <1>10, <2>1 DEF t0
  <2> QED
    BY <1>2, <1>10, <2>2 DEF WaitingFine
<1>11. ASSUME NEW r \in Services, NEW m \in Message, m.client = c, Placed(r, m),
              r = s => SubjectOf(m) # t0
       PROVE  Placed(r, m)'
  <2>1. ~(m.op = op /\ r = s)
    BY <1>11 DEF SubjectOf, t0
  <2> QED
    BY <1>2, <1>11, <2>1 DEF Placed
<1>12. running[s] \in SUBSET Transfer /\ running[s] \subseteq running[s] /\ running[s] \ running[s] = {}
  BY <1>1
<1>13. /\ NextFine
       /\ UnderWay(s)' = ToSet(queue) \cup running[s]
       /\ \A r \in Services \ {s} : UnderWay(r)' = UnderWay(r)
  BY <1>2, <1>7, <1>8, <1>9, <1>10, <1>11, <1>12, ServiceKeeps DEF NextFine, t0
<1> QED
  BY <1>2, <1>7, <1>13 DEF UnderWay, OneMore, t0

\* The transfers under way at the services, when that t at s is over.
OneLess(s, t) ==
    /\ t \in UnderWay(s) /\ UnderWay(s)' = UnderWay(s) \ {t}
    /\ \A r \in Services \ {s} : UnderWay(r)' = UnderWay(r)

\* A transfer has ended.
LEMMA EndHandled ==
    ASSUME TypeOK, \A r \in Services : ServiceFine(r),
           NEW s \in Services, NEW c \in Clients, NEW op \in {"write", "read", "copy"},
           NEW what \in {"done", "failed"}, ProcessFileTransferThreadNotification(s, op, c, what)
    PROVE  NextFine /\ OneLess(s, TransferOf(op, c))
<1> DEFINE t0 == TransferOf(op, c)
           m0 == MessageOf(what, op, c)
           queue == pending[s]
           active == running[s] \ {t0}
<1>1. /\ pending \in [Services -> Seq(Transfer)] /\ running \in [Services -> SUBSET Transfer]
      /\ stage \in [Clients -> Stage] /\ request \in [Clients -> Request]
  BY DEF TypeOK
<1>2. /\ Receive(s, what, op, c) /\ StartPending(s, queue, active)
      /\ request' = request
      /\ stage' = IF op = request[c].op
                  THEN [stage EXCEPT ![c] = IF @ = "late" THEN "gone" ELSE "idle"] ELSE stage
  BY DEF ProcessFileTransferThreadNotification, clientVars
<1>3. m0 \in Message /\ MessageFine(s, m0)
  BY <1>2, Receives
<1>4. /\ \/ stage[c] \in {"ended", "late"} /\ op = request[c].op /\ s = request[c].at
         \/ stage[c] \in {"ended", "idle"} /\ op = "read" /\ request[c].op = "copy" /\ s = request[c].from
      /\ t0 \in running[s]
  BY <1>3 DEF MessageFine, Placed, MessageOf, SubjectOf
<1>5. /\ \A d \in Clients \ {c} : stage'[d] = stage[d]
      /\ stage'[c] = IF op = request[c].op THEN IF stage[c] = "late" THEN "gone" ELSE "idle" ELSE stage[c]
  BY <1>1, <1>2
<1>6. /\ \A i \in DOMAIN pending[s] : pending[s][i] \notin running[s]
      /\ Distinct(pending[s])
  BY DEF ServiceFine
<1>7. ASSUME NEW r \in Services, NEW t \in Transfer, t.client = c, RunningFine(r, t),
             r = s => t \in active
      PROVE  RunningFine(r, t)'
  <2>1. t = TransferOf(t.op, c)
    BY <1>7 DEF Transfer, TransferOf
  <2>2. ~(t.op = op /\ r = s)
    BY <1>7, <2>1
  <2> QED
    BY <1>2, <1>4, <1>5, <1>7, <2>2 DEF RunningFine
<1>8. ASSUME NEW r \in Services, NEW m \in Message, m.client = c, Placed(r, m),
              r = s => SubjectOf(m) # t0
       PROVE  Placed(r, m)'
  <2>1. ~(m.op = op /\ r = s)
    BY <1>8 DEF SubjectOf
  <2> QED
    BY <1>2, <1>4, <1>5, <1>8, <2>1 DEF Placed
<1>9. ASSUME NEW r \in Services, NEW t \in Transfer, t.client = c, WaitingFine(r, t)
      PROVE  WaitingFine(r, t)'
  BY <1>2, <1>4, <1>5, <1>9 DEF WaitingFine
<1>10. /\ queue \in Seq(Transfer) /\ active \in SUBSET Transfer
       /\ active \subseteq running[s] /\ running[s] \ active \subseteq {t0}
       /\ \A i \in DOMAIN queue : queue[i] \notin active
       /\ Distinct(queue)
  BY <1>1, <1>6
<1>11. /\ NextFine
       /\ UnderWay(s)' = ToSet(queue) \cup active
       /\ \A r \in Services \ {s} : UnderWay(r)' = UnderWay(r)
  <2> DEFINE q == queue
             a == active
  <2>1. /\ q \in Seq(Transfer) /\ a \in SUBSET Transfer
        /\ a \subseteq running[s] /\ running[s] \ a \subseteq {t0}
        /\ Distinct(q) /\ StartPending(s, q, a)
        /\ \A i \in DOMAIN q : q[i] \notin a
        /\ \A i \in DOMAIN q : \E k \in DOMAIN pending[s] : q[i] = pending[s][k]
    BY <1>2, <1>10
  <2>2. \A r \in Services : \A t \in Transfer :
           t.client = c /\ RunningFine(r, t) /\ (r = s => t \in a) => RunningFine(r, t)'
    BY <1>7
  <2>3. \A r \in Services : \A m \in Message :
           m.client = c /\ Placed(r, m) /\ (r = s => SubjectOf(m) # TransferOf(op, c)) => Placed(r, m)'
    BY <1>8
  <2>4. \A r \in Services : \A t \in Transfer :
           t.client = c /\ WaitingFine(r, t) /\ (r = s => t # TransferOf(op, c)) => WaitingFine(r, t)'
    BY <1>9
  <2> HIDE DEF q, a
  <2>5. /\ NextFine
        /\ UnderWay(s)' = ToSet(q) \cup a
        /\ \A r \in Services \ {s} : UnderWay(r)' = UnderWay(r)
    BY <1>2, <1>5, <2>1, <2>2, <2>3, <2>4, ServiceKeeps DEF NextFine
  <2> QED
    BY <2>5 DEF q, a
<1>12. t0 \notin ToSet(pending[s])
  BY <1>4, <1>6 DEF ToSet
<1> QED
  BY <1>4, <1>11, <1>12 DEF OneLess, UnderWay

\* A message is lost with the service that cannot handle it.
LEMMA AbortHandled ==
    ASSUME TypeOK, \A r \in Services : ServiceFine(r),
           NEW s \in Services, NEW c \in Clients, NEW op, NEW what, Receive(s, what, op, c),
           UNCHANGED <<pending, running, stage, request>>
    PROVE  NextFine /\ \A r \in Services : UnderWay(r)' = UnderWay(r)
<1>1. /\ mailbox' \in [Services -> Seq(Message)]
      /\ \A r \in Services \ {s} : mailbox'[r] = mailbox[r]
      /\ \A i \in DOMAIN mailbox'[s] : \E k \in DOMAIN mailbox[s] : mailbox'[s][i] = mailbox[s][k]
      /\ Distinct(Subjects(mailbox'[s]))
  BY Receives
<1>2. ASSUME NEW r \in Services PROVE ServiceFine(r)'
  <2>1. \A m : (\E i \in DOMAIN mailbox'[r] : m = mailbox'[r][i]) => MessageFine(r, m)'
    <3>1. \A m : (\E i \in DOMAIN mailbox'[r] : m = mailbox'[r][i]) =>
                   \E k \in DOMAIN mailbox[r] : m = mailbox[r][k]
      BY <1>1
    <3>2. \A m : (\E k \in DOMAIN mailbox[r] : m = mailbox[r][k]) => MessageFine(r, m)
      BY DEF ServiceFine
    <3>3. \A m : MessageFine(r, m) => MessageFine(r, m)'
      BY DEF MessageFine, Placed, SubjectOf, TransferOf, UnderWay, ToSet
    <3> QED
      BY <3>1, <3>2, <3>3
  <2>2. \A t : (\E i \in DOMAIN pending'[r] : t = pending'[r][i]) =>
                  WaitingFine(r, t)' /\ t \notin running'[r]
    <3>1. \A t : WaitingFine(r, t) => WaitingFine(r, t)'
      BY DEF WaitingFine
    <3> QED
      BY <3>1 DEF ServiceFine
  <2>3. \A t \in running'[r] : RunningFine(r, t)'
    <3>1. \A t : RunningFine(r, t) => RunningFine(r, t)'
      BY DEF RunningFine
    <3> QED
      BY <3>1 DEF ServiceFine
  <2>4. /\ Distinct(Subjects(mailbox'[r])) /\ Distinct(pending'[r])
        /\ IsFiniteSet(running'[r]) /\ Cardinality(running'[r]) <= MaxConnections
        /\ pending'[r] # <<>> => Cardinality(running'[r]) = MaxConnections
    BY <1>1 DEF ServiceFine
  <2> QED
    BY <2>1, <2>2, <2>3, <2>4, FineAfter
<1> QED
  BY <1>1, <1>2 DEF NextFine, TypeOK, UnderWay, ToSet

\* Each message that a service handles leaves transfers and messages in order.
LEMMA WriteHandled ==
    ASSUME TypeOK, \A r \in Services : ServiceFine(r), NEW s \in Services, NEW c \in Clients,
           ProcessFileWriteRequest(s, c)
    PROVE  /\ NextFine
           /\ \/ /\ MarkRewrite(s, request[c].file)
                 /\ disk' = [disk EXCEPT ![s] = ReserveSpace(@, request[c].file)]
                 /\ HasEnoughFreeSpace(s, request[c].file)
                 /\ OneMore(s, TransferOf("write", c))
              \/ UNCHANGED <<disk, rewritten>> /\ \A r \in Services : UnderWay(r)' = UnderWay(r)
<1> DEFINE f == request[c].file
           room == HasEnoughFreeSpace(s, f)
           queue == Append(pending[s], TransferOf("write", c))
<1>1. Receive(s, "asked", "write", c) /\ request' = request
  BY DEF ProcessFileWriteRequest, clientVars
<1>2. \/ /\ StartPending(s, queue, running[s]) /\ Answer(c, "accepted") /\ room
         /\ MarkRewrite(s, f) /\ disk' = [disk EXCEPT ![s] = ReserveSpace(@, f)]
      \/ StartPending(s, pending[s], running[s]) /\ Answer(c, "idle") /\ UNCHANGED <<disk, rewritten>>
      \/ UNCHANGED <<pending, running, stage, disk, rewritten>>
  BY DEF ProcessFileWriteRequest
<1>3. CASE /\ StartPending(s, queue, running[s]) /\ Answer(c, "accepted") /\ room
           /\ MarkRewrite(s, f) /\ disk' = [disk EXCEPT ![s] = ReserveSpace(@, f)]
  <2>1. PICK accepted \in BOOLEAN : accepted
    OBVIOUS
  <2>2. Answered("write", c, accepted)
    BY <1>3, <2>1 DEF Answered
  <2>3. queue \in {Append(pending[s], TransferOf("write", c)), <<TransferOf("write", c)>> \o pending[s]}
    OBVIOUS
  <2> HIDE DEF queue
  <2>4. NextFine /\ OneMore(s, TransferOf("write", c))
    BY <1>1, <1>3, <2>1, <2>2, <2>3, RequestHandled
  <2> QED
    BY <1>3, <2>4
<1>4. CASE StartPending(s, pending[s], running[s]) /\ Answer(c, "idle") /\ UNCHANGED <<disk, rewritten>>
  <2>1. PICK accepted \in BOOLEAN : ~accepted
    OBVIOUS
  <2>2. Answered("write", c, accepted)
    BY <1>4, <2>1 DEF Answered
  <2>3. PICK q : q = pending[s]
    OBVIOUS
  <2>4. NextFine /\ \A r \in Services : UnderWay(r)' = UnderWay(r)
    BY <1>1, <1>4, <2>1, <2>2, <2>3, RequestHandled
  <2> QED
    BY <1>4, <2>4
<1>5. CASE UNCHANGED <<pending, running, stage, disk, rewritten>>
  <2>1. NextFine /\ \A r \in Services : UnderWay(r)' = UnderWay(r)
    BY <1>1, <1>5, AbortHandled
  <2> QED
    BY <1>5, <2>1
<1> QED
  BY <1>2, <1>3, <1>4, <1>5

LEMMA ReadHandled ==
    ASSUME TypeOK, \A r \in Services : ServiceFine(r), NEW s \in Services, NEW c \in Clients,
           ProcessFileReadRequest(s, c)
    PROVE  /\ NextFine
           /\ \/ OneMore(s, TransferOf("read", c))
              \/ \A r \in Services : UnderWay(r)' = UnderWay(r)
<1> DEFINE known == request[c].file \in disk[s].stored
           ahead == <<TransferOf("read", c)>> \o pending[s]
<1>1. PICK found \in BOOLEAN : found <=> known
  OBVIOUS
<1>2. Receive(s, "asked", "read", c) /\ request' = request
  BY DEF ProcessFileReadRequest, clientVars
<1>3. PICK queue : /\ queue = IF found THEN ahead ELSE pending[s]
                   /\ StartPending(s, queue, running[s])
  BY <1>1 DEF ProcessFileReadRequest
<1>4. Answered("read", c, found)
  <2>1. CASE request[c].op = "copy"
    <3>1. AnswerCopy(c, known)
      BY <2>1 DEF ProcessFileReadRequest
    <3>2. known = found
      BY <1>1
    <3> QED
      BY <2>1, <3>1, <3>2 DEF Answered
  <2>2. CASE request[c].op # "copy"
    <3>1. Answer(c, IF known THEN "accepted" ELSE "idle")
      BY <2>2 DEF ProcessFileReadRequest
    <3> QED
      BY <1>1, <2>2, <3>1 DEF Answered
  <2> QED
    BY <2>1, <2>2
<1>5. IF found
      THEN /\ queue \in {Append(pending[s], TransferOf("read", c)), <<TransferOf("read", c)>> \o pending[s]}
           /\ "read" \in {"write", "read", "copy"}
      ELSE queue = pending[s]
  BY <1>3
<1> QED
  BY <1>2, <1>3, <1>4, <1>5, RequestHandled

LEMMA CopyHandled ==
    ASSUME TypeOK, \A r \in Services : ServiceFine(r), NEW s \in Services, NEW c \in Clients,
           ProcessFileCopyRequest(s, c)
    PROVE  /\ NextFine
           /\ \/ /\ MarkRewrite(s, request[c].file)
                 /\ \/ disk' = disk /\ request[c].file \in disk[s].stored
                    \/ /\ HasEnoughFreeSpace(s, request[c].file)
                       /\ disk' = [disk EXCEPT ![s] = ReserveSpace(@, request[c].file)]
                 /\ OneMore(s, TransferOf("copy", c))
              \/ UNCHANGED <<disk, rewritten>> /\ \A r \in Services : UnderWay(r)' = UnderWay(r)
<1> DEFINE f == request[c].file
           known == f \in disk[s].stored
           room == HasEnoughFreeSpace(s, f)
           last == Append(pending[s], TransferOf("copy", c))
<1>1. PICK accepted \in BOOLEAN : accepted <=> known \/ room
  OBVIOUS
<1>2. Receive(s, "asked", "copy", c) /\ request' = request
  BY DEF ProcessFileCopyRequest, clientVars
<1>3. PICK queue : /\ queue = IF accepted THEN last ELSE pending[s]
                   /\ StartPending(s, queue, running[s])
  BY <1>1 DEF ProcessFileCopyRequest
<1>4. Answered("copy", c, accepted)
  BY <1>1 DEF ProcessFileCopyRequest, Answered
<1>5. IF accepted
      THEN /\ queue \in {Append(pending[s], TransferOf("copy", c)), <<TransferOf("copy", c)>> \o pending[s]}
           /\ "copy" \in {"write", "read", "copy"}
      ELSE queue = pending[s]
  BY <1>3
<1>6. /\ NextFine
      /\ accepted => OneMore(s, TransferOf("copy", c))
      /\ ~accepted => \A r \in Services : UnderWay(r)' = UnderWay(r)
  BY <1>2, <1>3, <1>4, <1>5, RequestHandled
<1>7. disk = [disk EXCEPT ![s] = @]
  BY DEF TypeOK
<1>8. /\ accepted => /\ MarkRewrite(s, f)
                     /\ \/ known /\ disk' = disk
                        \/ room /\ disk' = [disk EXCEPT ![s] = ReserveSpace(@, f)]
      /\ ~accepted => UNCHANGED <<disk, rewritten>>
  <2>1. CASE known
    BY <1>1, <1>7, <2>1 DEF ProcessFileCopyRequest
  <2>2. CASE ~known /\ room
    BY <1>1, <1>7, <2>2 DEF ProcessFileCopyRequest
  <2>3. CASE ~known /\ ~room
    BY <1>1, <1>7, <2>3 DEF ProcessFileCopyRequest
  <2> QED
    BY <2>1, <2>2, <2>3
<1> QED
  BY <1>6, <1>8

LEMMA DeleteHandled ==
    ASSUME TypeOK, \A r \in Services : ServiceFine(r), NEW s \in Services, NEW c \in Clients,
           ProcessFileDeleteRequest(s, c)
    PROVE  NextFine /\ \A r \in Services : UnderWay(r)' = UnderWay(r)
<1>1. /\ Receive(s, "asked", "delete", c) /\ request' = request
      /\ StartPending(s, pending[s], running[s]) /\ Answer(c, "idle")
  BY DEF ProcessFileDeleteRequest, clientVars
<1>2. PICK accepted \in BOOLEAN : ~accepted
  OBVIOUS
<1>3. Answered("delete", c, accepted)
  BY <1>1, <1>2 DEF Answered
<1>4. PICK q : q = pending[s]
  OBVIOUS
<1> QED
  BY <1>1, <1>2, <1>3, <1>4, RequestHandled

LEMMA ServiceStepFine ==
    ASSUME TypeOK, \A r \in Services : ServiceFine(r), NEW s \in Services, ServiceStep(s)
    PROVE  NextFine
BY WriteHandled, ReadHandled, CopyHandled, DeleteHandled, EndHandled DEF ServiceStep

-------------------------------------------------------------------------------
(* The steps of clients and transfers *)

\* A client without a request, or whose transfer can proceed, waits for no message and for
\* no connection.
LEMMA QuietClient ==
    ASSUME TypeOK, \A r \in Services : ServiceFine(r), NEW c \in Clients,
           \/ stage[c] = "idle" /\ \A r \in Services : \A t \in running[r] : t.client # c
           \/ stage[c] = "accepted" /\ TransferOf(request[c].op, c) \in running[request[c].at]
           \/ stage[c] = "refused"
           \/ stage[c] = "fed" /\ TransferOf("read", c) \in running[request[c].from]
    PROVE  /\ \A r \in Services : \A i \in DOMAIN mailbox[r] : mailbox[r][i].client # c
           /\ \A r \in Services : \A i \in DOMAIN pending[r] : pending[r][i].client # c
<1>1. ASSUME NEW r \in Services, NEW i \in DOMAIN mailbox[r], mailbox[r][i].client = c PROVE FALSE
  <2> DEFINE m == mailbox[r][i]
  <2>1. MessageFine(r, m) /\ m.client = c
    BY <1>1 DEF ServiceFine
  <2> HIDE DEF m
  <2>2. \/ stage[c] \in {"asked", "fetching", "ended", "late", "gone"}
        \/ stage[c] = "idle" /\ TransferOf(m.op, c) \in running[r]
    BY <2>1 DEF MessageFine, Placed, SubjectOf
  <2>3. TransferOf(m.op, c).client = c
    BY DEF TransferOf
  <2> QED
    BY <2>2, <2>3
<1>2. ASSUME NEW r \in Services, NEW i \in DOMAIN pending[r], pending[r][i].client = c PROVE FALSE
  <2> DEFINE t == pending[r][i]
  <2>1. WaitingFine(r, t) /\ t.client = c /\ t \notin running[r]
    BY <1>2 DEF ServiceFine
  <2>2. t \in Transfer
    BY DEF TypeOK
  <2> HIDE DEF t
  <2>3. t = TransferOf(t.op, c)
    BY <2>1, <2>2 DEF Transfer, TransferOf
  <2> QED
    BY <2>1, <2>3 DEF WaitingFine
<1> QED
  BY <1>1, <1>2

\* A client asks for something.
LEMMA AskFine ==
    ASSUME TypeOK, \A r \in Services : ServiceFine(r), NEW c \in Clients, Ask(c)
    PROVE  /\ NextFine
           /\ \A r \in Services : UnderWay(r)' = UnderWay(r) /\ \A t \in UnderWay(r) : t.client # c
<1>1. PICK q \in Request : /\ request' = [request EXCEPT ![c] = q]
                           /\ Put(q.at, Asked(q.op, c))
  BY DEF Ask
<1>2. /\ pending' = pending /\ running' = running
      /\ stage' = [stage EXCEPT ![c] = "asked"] /\ stage[c] = "idle"
      /\ \A r \in Services : \A t \in running[r] : t.client # c
  BY DEF Ask, serviceVars
<1>3. /\ q.at \in Services /\ q.op \in Op
      /\ stage'[c] = "asked" /\ request'[c] = q
      /\ \A d \in Clients \ {c} : stage'[d] = stage[d] /\ request'[d] = request[d]
  BY <1>1, <1>2 DEF Request, TypeOK
<1> DEFINE m == Asked(q.op, c)
<1>4. /\ m \in Message /\ m.client = c /\ m.what = "asked" /\ m.op = q.op
  BY <1>3 DEF Asked, Message, Op
<1> HIDE DEF m
<1>5. /\ \A r \in Services : \A i \in DOMAIN mailbox[r] : mailbox[r][i].client # c
      /\ \A r \in Services : \A i \in DOMAIN pending[r] : pending[r][i].client # c
  BY <1>2, QuietClient
<1>6. \A r \in Services : UnderWay(r)' = UnderWay(r) /\ \A t \in UnderWay(r) : t.client # c
  BY <1>2, <1>5 DEF UnderWay, ToSet
<1>7. SubjectOf(m).client = c
  BY <1>4 DEF SubjectOf, TransferOf
<1>8. MessageFine(q.at, m)'
  <2>1. SubjectOf(m) \notin UnderWay(q.at)'
    BY <1>3, <1>6, <1>7
  <2>2. Placed(q.at, m)'
    BY <1>3, <1>4 DEF Placed
  <2> QED
    BY <1>4, <2>1, <2>2, AboutMessages
<1>9. /\ mailbox' = [r \in Services |-> mailbox'[r]]
      /\ \A r \in Services : \/ mailbox'[r] = mailbox[r]
                             \/ r = q.at /\ mailbox'[r] = Append(mailbox[r], m)
  <2>1. mailbox' = [mailbox EXCEPT ![q.at] = Append(@, m)] /\ mailbox = [r \in Services |-> mailbox[r]]
    BY <1>1 DEF Put, TypeOK, m
  <2> QED
    BY <1>3, <2>1
<1>10. \A r \in Services : \A i \in DOMAIN mailbox[r] : SubjectOf(mailbox[r][i]) # SubjectOf(m)
  BY <1>5, <1>7 DEF SubjectOf, TransferOf
<1>11. \A r \in Services :
         \/ mailbox'[r] = mailbox[r]
         \/ \E n \in Message : /\ \A i \in DOMAIN mailbox[r] : SubjectOf(mailbox[r][i]) # SubjectOf(n)
                               /\ MessageFine(r, n)'
                               /\ mailbox'[r] = Append(mailbox[r], n)
  BY <1>4, <1>8, <1>9, <1>10
<1>12. \A r \in Services : \A t \in running[r] : t.client = c => RunningFine(r, t)'
  BY <1>2
<1>13. /\ \A r \in Services : ServiceFine(r)'
       /\ mailbox' \in [Services -> Seq(Message)]
  BY <1>2, <1>3, <1>5, <1>9, <1>11, <1>12, ClientKeeps
<1> QED
  BY <1>2, <1>6, <1>13 DEF NextFine, TypeOK

\* A transfer sends one message.
LEMMA TransferSends ==
    ASSUME TypeOK, \A r \in Services : ServiceFine(r), NEW c \in Clients,
           \/ stage[c] = "accepted" /\ TransferOf(request[c].op, c) \in running[request[c].at]
           \/ stage[c] = "refused"
           \/ stage[c] = "fed" /\ TransferOf("read", c) \in running[request[c].from],
           UNCHANGED <<pending, running, request>>,
           NEW x, stage' = [stage EXCEPT ![c] = x],
           x \in IF stage[c] = "accepted" /\ request[c].op = "copy" THEN {"fetching"} ELSE {"ended"},
           mailbox' = [r \in Services |-> mailbox'[r]],
           \A r \in Services :
              \/ mailbox'[r] = mailbox[r]
              \/ \E m \in Message : /\ m.client = c /\ MessageFine(r, m)'
                                    /\ mailbox'[r] = Append(mailbox[r], m)
    PROVE  NextFine
<1>1. /\ stage'[c] = x
      /\ \A d \in Clients \ {c} : stage'[d] = stage[d] /\ request'[d] = request[d]
  BY DEF TypeOK
<1>2. /\ \A r \in Services : \A i \in DOMAIN mailbox[r] : mailbox[r][i].client # c
      /\ \A r \in Services : \A i \in DOMAIN pending[r] : pending[r][i].client # c
  BY QuietClient
<1>3. ASSUME NEW r \in Services, NEW t \in running[r], t.client = c PROVE RunningFine(r, t)'
  <2>1. RunningFine(r, t)
    BY DEF ServiceFine
  <2>2. request'[c] = request[c]
    OBVIOUS
  <2> QED
    BY <1>1, <1>3, <2>1, <2>2 DEF RunningFine
<1>4. ASSUME NEW r \in Services, NEW m \in Message, m.client = c
      PROVE  \A i \in DOMAIN mailbox[r] : SubjectOf(mailbox[r][i]) # SubjectOf(m)
  BY <1>2, <1>4 DEF SubjectOf, TransferOf
<1>5. \A r \in Services :
         \/ mailbox'[r] = mailbox[r]
         \/ \E m \in Message : /\ \A i \in DOMAIN mailbox[r] : SubjectOf(mailbox[r][i]) # SubjectOf(m)
                               /\ MessageFine(r, m)'
                               /\ mailbox'[r] = Append(mailbox[r], m)
  BY <1>4
<1>6. /\ \A r \in Services : \A m \in Message :
            m.client = c /\ (\E i \in DOMAIN mailbox[r] : m = mailbox[r][i]) => Placed(r, m)'
      /\ \A r \in Services : \A t \in Transfer :
            t.client = c /\ (\E i \in DOMAIN pending[r] : t = pending[r][i]) => WaitingFine(r, t)'
  BY <1>2
<1>7. /\ \A r \in Services : ServiceFine(r)'
      /\ mailbox' \in [Services -> Seq(Message)]
  BY <1>1, <1>3, <1>5, <1>6, ClientKeeps
<1> QED
  BY <1>7 DEF NextFine, TypeOK

\* A client whose request is still in a mailbox gives up.
LEMMA GiveUpFine ==
    ASSUME TypeOK, \A r \in Services : ServiceFine(r), NEW c \in Clients, GiveUp(c)
    PROVE  NextFine
<1>1. /\ stage[c] = "asked" /\ request[c].op # "copy" /\ stage' = [stage EXCEPT ![c] = "gone"]
      /\ UNCHANGED <<pending, running, request, mailbox>>
  BY DEF GiveUp, serviceVars, clientVars
<1>2. /\ stage'[c] = "gone"
      /\ \A d \in Clients \ {c} : stage'[d] = stage[d] /\ request'[d] = request[d]
      /\ mailbox = [r \in Services |-> mailbox[r]]
  BY <1>1 DEF TypeOK
<1>3. ASSUME NEW r \in Services, NEW m \in Message, m.client = c, \E i \in DOMAIN mailbox[r] : m = mailbox[r][i]
      PROVE  Placed(r, m)'
  <2>1. Placed(r, m)
    BY <1>3 DEF ServiceFine, MessageFine
  <2> QED
    BY <1>1, <1>2, <1>3, <2>1 DEF Placed
<1>4. ASSUME NEW r \in Services, NEW t \in Transfer, t.client = c, \E i \in DOMAIN pending[r] : t = pending[r][i]
      PROVE  WaitingFine(r, t)'
  <2>1. WaitingFine(r, t)
    BY <1>4 DEF ServiceFine
  <2> QED
    BY <1>1, <1>4, <2>1 DEF WaitingFine
<1>5. ASSUME NEW r \in Services, NEW t \in running[r], t.client = c PROVE RunningFine(r, t)'
  <2>1. RunningFine(r, t)
    BY DEF ServiceFine
  <2> QED
    BY <1>1, <1>5, <2>1 DEF RunningFine
<1>6. /\ \A r \in Services : mailbox'[r] = mailbox[r]
      /\ mailbox' = [r \in Services |-> mailbox'[r]]
  BY <1>1, <1>2
<1>7. /\ \A r \in Services : ServiceFine(r)'
      /\ mailbox' \in [Services -> Seq(Message)]
  BY <1>1, <1>2, <1>3, <1>4, <1>5, <1>6, ClientKeeps
<1> QED
  BY <1>1, <1>7 DEF NextFine, TypeOK

\* The transfer of a copy gives up on the source, which may not have seen its request yet.
LEMMA FetchTimesOutFine ==
    ASSUME TypeOK, \A r \in Services : ServiceFine(r), NEW c \in Clients, FetchTimesOut(c)
    PROVE  NextFine
<1>0. PICK q \in Request : q = request[c]
  BY DEF TypeOK
<1>1. /\ stage[c] = "fetching" /\ stage' = [stage EXCEPT ![c] = "late"]
      /\ TransferOf("copy", c) \in running[q.at]
      /\ mailbox' = [mailbox EXCEPT ![q.at] = Append(@, MessageOf("failed", "copy", c))]
      /\ UNCHANGED <<pending, running, request>>
  BY <1>0 DEF FetchTimesOut, Connected, Put, MessageOf, serviceVars, clientVars
<1>2. q.at \in Services /\ (q.op = "copy" => q.from # q.at)
  <2>1. q.op = "copy" => <<q.from, q.at>> \in Routes
    BY DEF Request
  <2>2. \A a, b : <<a, b>> \in Routes => a # b
    BY StorageAssumption
  <2> QED
    BY <2>1, <2>2 DEF Request
<1>3. /\ stage'[c] = "late" /\ request'[c] = q
      /\ \A d \in Clients \ {c} : stage'[d] = stage[d] /\ request'[d] = request[d]
  BY <1>0, <1>1 DEF TypeOK
<1>4. q.op = "copy"
  <2>1. RunningFine(q.at, TransferOf("copy", c))
    BY <1>1, <1>2 DEF ServiceFine
  <2> QED
    BY <1>0, <1>1, <2>1 DEF RunningFine, TransferOf
<1> DEFINE m == MessageOf("failed", "copy", c)
<1>5. m \in Message /\ m.client = c /\ m.what = "failed" /\ m.op = "copy"
  BY DEF MessageOf, Message, Op
<1>6. /\ mailbox' = [r \in Services |-> mailbox'[r]]
      /\ \A r \in Services : \/ mailbox'[r] = mailbox[r]
                             \/ r = q.at /\ mailbox'[r] = Append(mailbox[r], m)
  <2> HIDE DEF m
  <2>1. mailbox' = [mailbox EXCEPT ![q.at] = Append(@, m)] /\ mailbox = [r \in Services |-> mailbox[r]]
    BY <1>1 DEF TypeOK, m
  <2> QED
    BY <1>2, <2>1
<1> HIDE DEF m
<1>7. MessageFine(q.at, m)'
  <2>1. Placed(q.at, m)'
    BY <1>3, <1>4, <1>5 DEF Placed
  <2>2. SubjectOf(m) \in running'[q.at]
    BY <1>1, <1>5 DEF SubjectOf
  <2> QED
    BY <1>5, <2>1, <2>2, AboutMessages
<1>8. ASSUME NEW r \in Services, NEW n \in Message, \E i \in DOMAIN mailbox[r] : n = mailbox[r][i]
      PROVE  Placed(r, n)
  BY <1>8 DEF ServiceFine, MessageFine
<1>9. ASSUME NEW i \in DOMAIN mailbox[q.at] PROVE SubjectOf(mailbox[q.at][i]) # SubjectOf(m)
  <2> DEFINE n == mailbox[q.at][i]
  <2>1. n \in Message
    BY <1>2 DEF TypeOK
  <2>2. Placed(q.at, n)
    BY <1>2, <1>8, <2>1
  <2> HIDE DEF n
  <2>3. n.client = c => n.op # "copy"
    BY <1>0, <1>1, <1>2, <1>4, <2>2 DEF Placed
  <2>4. SubjectOf(n) # SubjectOf(m)
    BY <1>5, <2>3 DEF SubjectOf, TransferOf
  <2> QED
    BY <2>4 DEF n
<1>10. ASSUME NEW r \in Services, NEW n \in Message, n.client = c, \E i \in DOMAIN mailbox[r] : n = mailbox[r][i]
       PROVE  Placed(r, n)'
  <2>1. Placed(r, n)
    BY <1>8, <1>10
  <2> QED
    BY <1>0, <1>1, <1>3, <1>10, <2>1 DEF Placed
<1>11. ASSUME NEW r \in Services, NEW t \in Transfer, t.client = c, \E i \in DOMAIN pending[r] : t = pending[r][i]
       PROVE  WaitingFine(r, t)'
  <2>1. WaitingFine(r, t)
    BY <1>11 DEF ServiceFine
  <2> QED
    BY <1>1, <1>11, <2>1 DEF WaitingFine
<1>12. ASSUME NEW r \in Services, NEW t \in running[r], t.client = c PROVE RunningFine(r, t)'
  <2>1. RunningFine(r, t)
    BY DEF ServiceFine
  <2> QED
    BY <1>0, <1>1, <1>3, <1>12, <2>1 DEF RunningFine
<1>13. \A r \in Services :
         \/ mailbox'[r] = mailbox[r]
         \/ \E n \in Message : /\ \A i \in DOMAIN mailbox[r] : SubjectOf(mailbox[r][i]) # SubjectOf(n)
                               /\ MessageFine(r, n)'
                               /\ mailbox'[r] = Append(mailbox[r], n)
  BY <1>5, <1>6, <1>7, <1>9
<1>14. /\ \A r \in Services : ServiceFine(r)'
       /\ mailbox' \in [Services -> Seq(Message)]
  <2>1. /\ pending' = pending /\ running' = running
        /\ mailbox' = [r \in Services |-> mailbox'[r]]
        /\ \A d \in Clients \ {c} : stage'[d] = stage[d] /\ request'[d] = request[d]
    BY <1>1, <1>3, <1>6
  <2> QED
    BY <1>10, <1>11, <1>12, <1>13, <2>1, ClientKeeps
<1> QED
  BY <1>1, <1>14 DEF NextFine, TypeOK

\* The steps of a transfer leave transfers and messages in order.
LEMMA TransferStepFine ==
    ASSUME TypeOK, \A r \in Services : ServiceFine(r), NEW c \in Clients, TransferStep(c)
    PROVE  NextFine
<1>0. PICK q \in Request : q = request[c]
  BY DEF TypeOK
<1>1. /\ q \in Request /\ q.at \in Services /\ q.from \in Services /\ q.op \in Op
      /\ q.op = "copy" => q.from # q.at
  <2>2. q.op = "copy" => <<q.from, q.at>> \in Routes
    BY DEF Request
  <2>3. \A a, b : <<a, b>> \in Routes => a # b
    BY StorageAssumption
  <2> QED
    BY <2>2, <2>3 DEF Request
<1>2. /\ running' = running /\ pending' = pending /\ request' = request
  BY DEF TransferStep, Exchange, Fetch, FetchRefused, Download, serviceVars, clientVars
<1>3. \A r \in Services : mailbox[r] \in Seq(Message)
  BY DEF TypeOK
<1>4. mailbox = [r \in Services |-> mailbox[r]] /\ stage \in [Clients -> Stage]
  BY DEF TypeOK
<1>5. \A r \in Services : \A t \in running[r] : RunningFine(r, t)
  BY DEF ServiceFine
<1>6. request'[c] = q
  BY <1>0, <1>2
<1>7. q = request[c]
  BY <1>0
<1>8. CASE Exchange(c)
  <2>1. /\ stage[c] = "accepted" /\ q.op \in {"write", "read"}
        /\ TransferOf(q.op, c) \in running[q.at]
        /\ stage' = [stage EXCEPT ![c] = "ended"]
    BY <1>7, <1>8 DEF Exchange, Connected
  <2>2. PICK what \in {"done", "failed"} :
           mailbox' = [mailbox EXCEPT ![q.at] = Append(@, MessageOf(what, q.op, c))]
    BY <1>7, <1>8 DEF Exchange, Outcome, Put, MessageOf
  <2> DEFINE m == MessageOf(what, q.op, c)
  <2>3. m \in Message /\ m.client = c /\ m.what = what /\ m.op = q.op
    BY <1>1 DEF MessageOf, Message, Op
  <2>4. MessageFine(q.at, m)'
    <3>1. stage'[c] = "ended"
      BY <1>4, <2>1
    <3> HIDE DEF m
    <3>2. Placed(q.at, m)'
      BY <1>6, <2>3, <3>1 DEF Placed
    <3>3. SubjectOf(m) \in running'[q.at]
      BY <1>2, <2>1, <2>3 DEF SubjectOf
    <3> QED
      BY <2>3, <3>2, <3>3, AboutMessages
  <2> HIDE DEF m
  <2>5. /\ mailbox' = [r \in Services |-> mailbox'[r]]
        /\ \A r \in Services : \/ mailbox'[r] = mailbox[r]
                               \/ r = q.at /\ mailbox'[r] = Append(mailbox[r], m)
    <3>1. mailbox' = [mailbox EXCEPT ![q.at] = Append(@, m)]
      BY <2>2 DEF m
    <3> QED
      BY <1>1, <1>4, <3>1
  <2>6. \A r \in Services :
           \/ mailbox'[r] = mailbox[r]
           \/ \E n \in Message : /\ n.client = c /\ MessageFine(r, n)'
                                 /\ mailbox'[r] = Append(mailbox[r], n)
    BY <2>3, <2>4, <2>5
  <2>7. "ended" \in IF stage[c] = "accepted" /\ request[c].op = "copy" THEN {"fetching"} ELSE {"ended"}
    BY <1>7, <2>1
  <2>8. stage[c] = "accepted" /\ TransferOf(request[c].op, c) \in running[request[c].at]
    BY <1>7, <2>1
  <2> QED
    BY <1>2, <2>1, <2>5, <2>6, <2>7, <2>8, TransferSends
<1>9. CASE Fetch(c)
  <2>1. /\ stage[c] = "accepted" /\ TransferOf("copy", c) \in running[q.at]
        /\ stage' = [stage EXCEPT ![c] = "fetching"]
        /\ mailbox' = [mailbox EXCEPT ![q.from] = Append(@, Asked("read", c))]
    BY <1>7, <1>9 DEF Fetch, Connected, Put
  <2>2. q.op = "copy"
    <3>1. RunningFine(q.at, TransferOf("copy", c))
      BY <1>1, <1>5, <2>1
    <3> QED
      BY <1>7, <3>1 DEF RunningFine, TransferOf
  <2> DEFINE m == Asked("read", c)
  <2>3. m \in Message /\ m.client = c /\ m.what = "asked" /\ m.op = "read"
    BY DEF Asked, Message, Op
  <2> HIDE DEF m
  <2>4. MessageFine(q.from, m)'
    <3>1. stage'[c] = "fetching"
      BY <1>4, <2>1
    <3>2. Placed(q.from, m)'
      BY <1>6, <2>2, <2>3, <3>1 DEF Placed
    <3>3. SubjectOf(m) \notin UnderWay(q.from)
      <4>1. SubjectOf(m) = TransferOf("read", c)
        BY <2>3 DEF SubjectOf
      <4>2. ~RunningFine(q.from, TransferOf("read", c)) /\ ~WaitingFine(q.from, TransferOf("read", c))
        BY <1>7, <2>1, <2>2 DEF RunningFine, WaitingFine, TransferOf
      <4> QED
        BY <1>1, <4>1, <4>2 DEF ServiceFine, UnderWay, ToSet
    <3>4. UnderWay(q.from)' = UnderWay(q.from)
      BY <1>2 DEF UnderWay, ToSet
    <3> QED
      BY <2>3, <3>2, <3>3, <3>4, AboutMessages
  <2>5. /\ mailbox' = [r \in Services |-> mailbox'[r]]
        /\ \A r \in Services : \/ mailbox'[r] = mailbox[r]
                               \/ r = q.from /\ mailbox'[r] = Append(mailbox[r], m)
    <3>1. mailbox' = [mailbox EXCEPT ![q.from] = Append(@, m)]
      BY <2>1 DEF m
    <3> QED
      BY <1>1, <1>4, <3>1
  <2>6. \A r \in Services :
           \/ mailbox'[r] = mailbox[r]
           \/ \E n \in Message : /\ n.client = c /\ MessageFine(r, n)'
                                 /\ mailbox'[r] = Append(mailbox[r], n)
    BY <2>3, <2>4, <2>5
  <2>7. "fetching" \in IF stage[c] = "accepted" /\ request[c].op = "copy" THEN {"fetching"} ELSE {"ended"}
    BY <1>7, <2>1, <2>2
  <2>8. stage[c] = "accepted" /\ TransferOf(request[c].op, c) \in running[request[c].at]
    BY <1>7, <2>1, <2>2
  <2> QED
    BY <1>2, <2>1, <2>5, <2>6, <2>7, <2>8, TransferSends
<1>10. CASE FetchRefused(c)
  <2>1. /\ stage[c] = "refused" /\ TransferOf("copy", c) \in running[q.at]
        /\ stage' = [stage EXCEPT ![c] = "ended"]
        /\ mailbox' = [mailbox EXCEPT ![q.at] = Append(@, MessageOf("failed", "copy", c))]
    BY <1>7, <1>10 DEF FetchRefused, Connected, Put, MessageOf
  <2>2. q.op = "copy"
    <3>1. RunningFine(q.at, TransferOf("copy", c))
      BY <1>1, <1>5, <2>1
    <3> QED
      BY <1>7, <2>1, <3>1 DEF RunningFine, TransferOf
  <2> DEFINE m == MessageOf("failed", "copy", c)
  <2>3. m \in Message /\ m.client = c /\ m.what = "failed" /\ m.op = "copy"
    BY DEF MessageOf, Message, Op
  <2> HIDE DEF m
  <2>4. MessageFine(q.at, m)'
    <3>1. stage'[c] = "ended"
      BY <1>4, <2>1
    <3>2. Placed(q.at, m)'
      BY <1>6, <2>2, <2>3, <3>1 DEF Placed
    <3>3. SubjectOf(m) \in running'[q.at]
      BY <1>2, <2>1, <2>3 DEF SubjectOf
    <3> QED
      BY <2>3, <3>2, <3>3, AboutMessages
  <2>5. /\ mailbox' = [r \in Services |-> mailbox'[r]]
        /\ \A r \in Services : \/ mailbox'[r] = mailbox[r]
                               \/ r = q.at /\ mailbox'[r] = Append(mailbox[r], m)
    <3>1. mailbox' = [mailbox EXCEPT ![q.at] = Append(@, m)]
      BY <2>1 DEF m
    <3> QED
      BY <1>1, <1>4, <3>1
  <2>6. \A r \in Services :
           \/ mailbox'[r] = mailbox[r]
           \/ \E n \in Message : /\ n.client = c /\ MessageFine(r, n)'
                                 /\ mailbox'[r] = Append(mailbox[r], n)
    BY <2>3, <2>4, <2>5
  <2>7. "ended" \in IF stage[c] = "accepted" /\ request[c].op = "copy" THEN {"fetching"} ELSE {"ended"}
    BY <2>1
  <2> QED
    BY <1>2, <2>1, <2>5, <2>6, <2>7, TransferSends
<1>11. CASE Download(c)
  <2>1. /\ stage[c] = "fed" /\ TransferOf("copy", c) \in running[q.at]
        /\ TransferOf("read", c) \in running[q.from]
        /\ stage' = [stage EXCEPT ![c] = "ended"]
    BY <1>7, <1>11 DEF Download, Connected
  <2>2. PICK what \in {"done", "failed"} :
           mailbox' = [mailbox EXCEPT ![q.from] = Append(@, MessageOf(what, "read", c)),
                                      ![q.at] = Append(@, MessageOf(what, "copy", c))]
    BY <1>7, <1>11 DEF Download, Outcome, MessageOf
  <2>3. q.op = "copy" /\ q.from # q.at
    <3>1. RunningFine(q.at, TransferOf("copy", c))
      BY <1>1, <1>5, <2>1
    <3> QED
      BY <1>1, <1>7, <2>1, <3>1 DEF RunningFine, TransferOf
  <2> DEFINE m == MessageOf(what, "read", c)
             n == MessageOf(what, "copy", c)
  <2>4. /\ m \in Message /\ m.client = c /\ m.what = what /\ m.op = "read"
        /\ n \in Message /\ n.client = c /\ n.what = what /\ n.op = "copy"
    BY DEF MessageOf, Message, Op
  <2> HIDE DEF m, n
  <2>5. MessageFine(q.from, m)' /\ MessageFine(q.at, n)'
    <3>1. stage'[c] = "ended"
      BY <1>4, <2>1
    <3>2. Placed(q.from, m)' /\ Placed(q.at, n)'
      BY <1>6, <2>3, <2>4, <3>1 DEF Placed
    <3>3. SubjectOf(m) \in running'[q.from] /\ SubjectOf(n) \in running'[q.at]
      BY <1>2, <2>1, <2>4 DEF SubjectOf
    <3> QED
      BY <2>4, <3>2, <3>3, AboutMessages
  <2>6. /\ mailbox' = [r \in Services |-> mailbox'[r]]
        /\ \A r \in Services : \/ mailbox'[r] = mailbox[r]
                               \/ r = q.from /\ mailbox'[r] = Append(mailbox[r], m)
                               \/ r = q.at /\ mailbox'[r] = Append(mailbox[r], n)
    <3>1. mailbox' = [mailbox EXCEPT ![q.from] = Append(@, m), ![q.at] = Append(@, n)]
      BY <2>2 DEF m, n
    <3> QED
      BY <1>1, <1>4, <2>3, <3>1
  <2>7. \A r \in Services :
           \/ mailbox'[r] = mailbox[r]
           \/ \E x \in Message : /\ x.client = c /\ MessageFine(r, x)'
                                 /\ mailbox'[r] = Append(mailbox[r], x)
    BY <2>4, <2>5, <2>6
  <2>8. "ended" \in IF stage[c] = "accepted" /\ request[c].op = "copy" THEN {"fetching"} ELSE {"ended"}
    BY <2>1
  <2>9. stage[c] = "fed" /\ TransferOf("read", c) \in running[request[c].from]
    BY <1>7, <2>1
  <2> QED
    BY <1>2, <2>1, <2>6, <2>7, <2>8, <2>9, TransferSends
<1> QED
  BY <1>8, <1>9, <1>10, <1>11 DEF TransferStep

-------------------------------------------------------------------------------
(* Disks *)

Disk == [stored : SUBSET Files, reserved : SUBSET Files, occupied : Nat]

\* Reserving space for a file, with room for it.
LEMMA Reserves ==
    ASSUME NEW s \in Services, NEW d \in Disk, NEW f \in Files, NEW exact \in BOOLEAN,
           Room(s, d, exact), Capacity[s] - d.occupied >= Size[f]
    PROVE  LET e == ReserveSpace(d, f) IN
             /\ e \in Disk /\ e.stored = d.stored /\ e.reserved = d.reserved \cup {f}
             /\ Room(s, e, exact /\ f \notin d.stored \cup d.reserved)
<1> DEFINE e == ReserveSpace(d, f)
<1>1. /\ d.stored \in SUBSET Files /\ d.reserved \in SUBSET Files /\ d.occupied \in Nat
      /\ Capacity[s] \in Nat
  BY StorageAssumption DEF Disk
<1>2. /\ SizeOf(d.stored) \in Nat /\ SizeOf(d.reserved) \in Nat /\ Size[f] \in Nat \ {0}
      /\ f \notin d.reserved => SizeOf(d.reserved \cup {f}) = SizeOf(d.reserved) + Size[f]
  BY <1>1, SizeFacts
<1>3. CASE f \in d.reserved
  <2>1. e = d /\ d.reserved \cup {f} = d.reserved
    BY <1>3 DEF ReserveSpace
  <2> HIDE DEF e
  <2> QED
    BY <1>3, <2>1 DEF Room, e
<1>4. CASE f \notin d.reserved
  <2>1. e = [d EXCEPT !.reserved = @ \cup {f}, !.occupied = @ + Size[f]]
    BY <1>4 DEF ReserveSpace
  <2>2. /\ e.stored = d.stored /\ e.reserved = d.reserved \cup {f}
        /\ e.occupied = d.occupied + Size[f]
    BY <2>1 DEF Disk
  <2>3. e \in Disk
    <3>1. d.occupied + Size[f] \in Nat /\ d.reserved \cup {f} \in SUBSET Files
      BY <1>1, <1>2
    <3> QED
      BY <2>1, <3>1 DEF Disk
  <2> HIDE DEF e
  <2>4. Room(s, e, exact /\ f \notin d.stored \cup d.reserved)
    BY <1>1, <1>2, <1>4, <2>2 DEF Room
  <2> QED
    BY <2>2, <2>3, <2>4 DEF e
<1> QED
  BY <1>3, <1>4

\* Giving space back.
LEMMA Unreserves ==
    ASSUME NEW s \in Services, NEW d \in Disk, NEW f \in Files, NEW exact \in BOOLEAN,
           Room(s, d, exact)
    PROVE  LET e == UnreserveSpace(d, f) IN
             /\ e \in Disk /\ e.stored = d.stored /\ e.reserved = d.reserved \ {f}
             /\ Room(s, e, exact)
<1> DEFINE e == UnreserveSpace(d, f)
<1>1. /\ d.stored \in SUBSET Files /\ d.reserved \in SUBSET Files /\ d.occupied \in Nat
      /\ Capacity[s] \in Nat
  BY StorageAssumption DEF Disk
<1>2. /\ SizeOf(d.stored) \in Nat /\ SizeOf(d.reserved) \in Nat /\ Size[f] \in Nat \ {0}
      /\ f \in d.reserved => /\ SizeOf(d.reserved \ {f}) = SizeOf(d.reserved) - Size[f]
                             /\ SizeOf(d.reserved) >= Size[f]
  BY <1>1, SizeFacts
<1>3. CASE f \notin d.reserved
  <2>1. e = d /\ d.reserved \ {f} = d.reserved
    BY <1>3 DEF UnreserveSpace
  <2> QED
    BY <2>1
<1>4. CASE f \in d.reserved
  <2>1. e = [d EXCEPT !.reserved = @ \ {f}, !.occupied = @ - Size[f]]
    BY <1>4 DEF UnreserveSpace
  <2>2. /\ e.stored = d.stored /\ e.reserved = d.reserved \ {f}
        /\ e.occupied = d.occupied - Size[f]
    BY <2>1 DEF Disk
  <2>3. d.occupied - Size[f] \in Nat
    BY <1>1, <1>2, <1>4 DEF Room
  <2>4. e \in Disk
    BY <1>1, <2>1, <2>3 DEF Disk
  <2> HIDE DEF e
  <2>5. Room(s, e, exact)
    BY <1>1, <1>2, <1>4, <2>2 DEF Room
  <2> QED
    BY <2>2, <2>4, <2>5 DEF e
<1> QED
  BY <1>3, <1>4

\* Storing a file, with the space that was reserved for it if there was.
LEMMA Stores ==
    ASSUME NEW s \in Services, NEW d \in Disk, NEW f \in Files, NEW exact \in BOOLEAN,
           Room(s, d, exact), exact => f \in d.reserved
    PROVE  LET e == StoreFile(d, f) IN
             /\ e \in Disk /\ e.stored = d.stored \cup {f} /\ e.reserved = d.reserved \ {f}
             /\ Room(s, e, exact)
<1> DEFINE e == StoreFile(d, f)
<1>1. /\ d.stored \in SUBSET Files /\ d.reserved \in SUBSET Files /\ d.occupied \in Nat
      /\ Capacity[s] \in Nat
  BY StorageAssumption DEF Disk
<1>2. /\ SizeOf(d.stored) \in Nat /\ SizeOf(d.reserved) \in Nat /\ Size[f] \in Nat \ {0}
      /\ f \in d.reserved => /\ SizeOf(d.reserved \ {f}) = SizeOf(d.reserved) - Size[f]
                             /\ SizeOf(d.reserved) >= Size[f]
      /\ f \notin d.stored => SizeOf(d.stored \cup {f}) = SizeOf(d.stored) + Size[f]
  BY <1>1, SizeFacts
<1>3. /\ f \in d.stored => d.stored \cup {f} = d.stored
      /\ f \notin d.reserved => d.reserved \ {f} = d.reserved
  OBVIOUS
<1>4. /\ e.stored = d.stored \cup {f} /\ e.reserved = d.reserved \ {f}
      /\ e.occupied = IF f \in d.reserved THEN d.occupied ELSE d.occupied + Size[f]
  BY DEF StoreFile, Disk
<1>5. e \in Disk
  <2> DEFINE n == IF f \in d.reserved THEN d.occupied ELSE d.occupied + Size[f]
  <2>1. n \in Nat /\ d.stored \cup {f} \in SUBSET Files /\ d.reserved \ {f} \in SUBSET Files
    BY <1>1, <1>2
  <2>2. e = [d EXCEPT !.stored = @ \cup {f}, !.reserved = @ \ {f}, !.occupied = n]
    BY DEF StoreFile
  <2> HIDE DEF n, e
  <2> QED
    BY <2>1, <2>2 DEF Disk
<1> HIDE DEF e
<1>6. e.occupied >= SizeOf(e.stored) + SizeOf(e.reserved)
  <2>1. CASE f \in d.reserved /\ f \in d.stored
    BY <1>1, <1>2, <1>3, <1>4, <2>1 DEF Room
  <2>2. CASE f \in d.reserved /\ f \notin d.stored
    BY <1>1, <1>2, <1>4, <2>2 DEF Room
  <2>3. CASE f \notin d.reserved
    <3>1. e.reserved = d.reserved /\ e.occupied = d.occupied + Size[f]
      BY <1>3, <1>4, <2>3
    <3>2. SizeOf(e.stored) \in {SizeOf(d.stored), SizeOf(d.stored) + Size[f]}
      BY <1>2, <1>3, <1>4
    <3> QED
      BY <1>1, <1>2, <3>1, <3>2 DEF Room
  <2> QED
    BY <2>1, <2>2, <2>3
<1>7. ASSUME exact
      PROVE  /\ e.stored \cap e.reserved = {}
             /\ e.occupied = SizeOf(e.stored) + SizeOf(e.reserved) /\ e.occupied <= Capacity[s]
  <2>1. f \in d.reserved /\ f \notin d.stored
    BY <1>7 DEF Room
  <2> QED
    BY <1>1, <1>2, <1>4, <1>7, <2>1 DEF Room
<1> QED
  BY <1>4, <1>5, <1>6, <1>7 DEF Room, e

\* Removing a file that is stored.
LEMMA Removes ==
    ASSUME NEW s \in Services, NEW d \in Disk, NEW f \in d.stored, NEW exact \in BOOLEAN,
           Room(s, d, exact)
    PROVE  LET e == RemoveFile(d, f) IN
             e \in Disk /\ e.reserved = d.reserved /\ Room(s, e, exact) /\ e.stored \subseteq d.stored
<1> DEFINE e == RemoveFile(d, f)
<1>1. /\ d.stored \in SUBSET Files /\ d.reserved \in SUBSET Files /\ d.occupied \in Nat
      /\ Capacity[s] \in Nat /\ f \in Files
  BY StorageAssumption DEF Disk
<1>2. /\ SizeOf(d.stored) \in Nat /\ SizeOf(d.reserved) \in Nat /\ Size[f] \in Nat \ {0}
      /\ SizeOf(d.stored \ {f}) = SizeOf(d.stored) - Size[f] /\ SizeOf(d.stored) >= Size[f]
  BY <1>1, SizeFacts
<1>3. e = [d EXCEPT !.stored = @ \ {f}, !.occupied = @ - Size[f]]
  BY DEF RemoveFile
<1>4. /\ e.stored = d.stored \ {f} /\ e.reserved = d.reserved
      /\ e.occupied = d.occupied - Size[f]
  BY <1>3 DEF Disk
<1>5. d.occupied - Size[f] \in Nat
  BY <1>1, <1>2 DEF Room
<1>6. e \in Disk
  BY <1>1, <1>3, <1>5 DEF Disk
<1> HIDE DEF e
<1>7. Room(s, e, exact)
  BY <1>1, <1>2, <1>4 DEF Room
<1> QED
  BY <1>4, <1>6, <1>7 DEF e

\* What the disks of the next state have to be.
DisksNext ==
    /\ disk' \in [Services -> Disk] /\ rewritten' \in [Services -> SUBSET Files]
    /\ \A r \in Services : DiskFine(r)'

\* The transfers at r, and the files they bring, are those of before.
SameTransfers(r) ==
    /\ UnderWay(r)' = UnderWay(r)
    /\ \A t \in UnderWay(r) : request'[t.client] = request[t.client]

\* A disk that nobody touches and to which the same files come.
LEMMA DiskStays ==
    ASSUME NEW r \in Services, DiskFine(r), disk'[r] = disk[r], rewritten'[r] = rewritten[r],
           SameTransfers(r)
    PROVE  DiskFine(r)'
<1>1. /\ Bringing(r)' = Bringing(r)
      /\ \A t \in Bringing(r) : Brought(t)' = Brought(t)
  BY DEF Bringing, Brought, SameTransfers
<1>2. Room(r, disk[r], rewritten[r] = {})'
  BY DEF DiskFine, Room
<1> HIDE DEF Bringing, Brought
<1> QED
  BY <1>1, <1>2 DEF DiskFine

\* A step that changes no disk and no transfer.
LEMMA NothingComes ==
    ASSUME TypeOK, \A r \in Services : DiskFine(r), UNCHANGED <<disk, rewritten>>,
           \A r \in Services : SameTransfers(r)
    PROVE  DisksNext
<1>1. \A r \in Services : DiskFine(r)'
  BY DiskStays
<1> QED
  BY <1>1 DEF DisksNext, TypeOK, Disk

\* A file is deleted.
LEMMA FileDeleted ==
    ASSUME TypeOK, \A r \in Services : DiskFine(r), NEW s \in Services, NEW f \in disk[s].stored,
           disk' = [disk EXCEPT ![s] = RemoveFile(@, f)], rewritten' = rewritten,
           \A r \in Services : SameTransfers(r)
    PROVE  DisksNext
<1>1. disk \in [Services -> Disk] /\ rewritten \in [Services -> SUBSET Files]
  BY DEF TypeOK, Disk
<1>2. \A r \in Services \ {s} : disk'[r] = disk[r]
  BY <1>1
<1>3. \A r \in Services \ {s} : DiskFine(r)'
  BY <1>2, DiskStays
<1> DEFINE d == disk[s]
<1>4. disk'[s] = RemoveFile(d, f)
  BY <1>1
<1>5. d \in Disk /\ f \in d.stored /\ Room(s, d, rewritten[s] = {})
  BY <1>1 DEF DiskFine
<1>6. PICK exact \in BOOLEAN : exact <=> rewritten[s] = {}
  OBVIOUS
<1>7. Room(s, d, exact)
  BY <1>5, <1>6 DEF Room
<1> DEFINE n == RemoveFile(d, f)
<1>8. n \in Disk /\ n.reserved = d.reserved /\ Room(s, n, exact) /\ n.stored \subseteq d.stored
  <2> HIDE DEF d
  <2> QED
    BY <1>5, <1>7, Removes
<1>9. disk'[s] = n /\ disk' \in [Services -> Disk]
  BY <1>1, <1>4, <1>8
<1> HIDE DEF n
<1>10. DiskFine(s)'
  <2>1. Room(s, disk[s], rewritten[s] = {})'
    BY <1>6, <1>8, <1>9 DEF Room
  <2>2. disk'[s].reserved = disk[s].reserved /\ disk'[s].stored \subseteq disk[s].stored
    BY <1>8, <1>9
  <2>3. DiskFine(s)
    OBVIOUS
  <2>4. /\ Bringing(s)' = Bringing(s)
        /\ \A t \in Bringing(s) : Brought(t)' = Brought(t)
    BY DEF Bringing, Brought, SameTransfers
  <2> HIDE DEF d
  <2> QED
    BY <2>1, <2>2, <2>3, <2>4 DEF DiskFine
<1> QED
  BY <1>1, <1>3, <1>9, <1>10 DEF DisksNext

\* A transfer that brings a file is accepted.
LEMMA TransferAccepted ==
    ASSUME TypeOK, \A r \in Services : DiskFine(r), NEW s \in Services, NEW t0 \in Transfer,
           t0.op # "read", OneMore(s, t0), request' = request, MarkRewrite(s, Brought(t0)),
           \/ disk' = disk /\ Brought(t0) \in disk[s].stored
           \/ /\ HasEnoughFreeSpace(s, Brought(t0))
              /\ disk' = [disk EXCEPT ![s] = ReserveSpace(@, Brought(t0))]
    PROVE  DisksNext
<1>0. PICK f \in Files : f = Brought(t0)
  <2>1. t0.client \in Clients
    BY DEF Transfer
  <2> QED
    BY <2>1 DEF TypeOK, Request, Brought
<1>1. disk \in [Services -> Disk] /\ rewritten \in [Services -> SUBSET Files]
  BY DEF TypeOK, Disk
<1>2. /\ Bringing(s)' = Bringing(s) \cup {t0} /\ t0 \notin Bringing(s)
      /\ \A t : Brought(t)' = Brought(t)
      /\ Coming(s) = {Brought(t) : t \in Bringing(s)}
  BY DEF Bringing, Brought, OneMore, Coming
<1>3. \A r \in Services \ {s} : SameTransfers(r)
  BY DEF OneMore, SameTransfers
<1> HIDE DEF Bringing, Brought
<1>4. /\ \A r \in Services \ {s} : disk'[r] = disk[r] /\ rewritten'[r] = rewritten[r]
      /\ rewritten' \in [Services -> SUBSET Files]
      /\ rewritten'[s] = IF f \in disk[s].stored \cup Coming(s) THEN rewritten[s] \cup {f} ELSE rewritten[s]
  BY <1>0, <1>1 DEF MarkRewrite
<1>5. \A r \in Services \ {s} : DiskFine(r)'
  BY <1>3, <1>4, DiskStays
<1>6. PICK exact \in BOOLEAN : exact <=> rewritten[s] = {}
  OBVIOUS
<1>7. PICK d \in Disk : d = disk[s]
  BY <1>1
<1>8. Room(s, d, exact)
  BY <1>6, <1>7 DEF DiskFine, Room
<1>9. PICK n \in Disk : /\ n = disk'[s] /\ disk' \in [Services -> Disk]
                        /\ n.stored = d.stored
                        /\ n.reserved \subseteq d.reserved \cup {f}
                        /\ f \notin d.stored => n.reserved = d.reserved \cup {f}
                        /\ d.reserved \subseteq n.reserved
                        /\ Room(s, n, exact /\ f \notin d.stored \cup d.reserved)
  <2>1. CASE disk' = disk /\ f \in d.stored
    BY <1>1, <1>7, <1>8, <2>1 DEF Room
  <2>2. CASE /\ HasEnoughFreeSpace(s, f)
             /\ disk' = [disk EXCEPT ![s] = ReserveSpace(@, f)]
    <3> DEFINE e == ReserveSpace(d, f)
    <3>1. Capacity[s] - d.occupied >= Size[f]
      BY <1>7, <2>2 DEF HasEnoughFreeSpace
    <3>2. /\ e \in Disk /\ e.stored = d.stored /\ e.reserved = d.reserved \cup {f}
          /\ Room(s, e, exact /\ f \notin d.stored \cup d.reserved)
      BY <1>8, <3>1, Reserves
    <3>3. disk'[s] = e /\ disk' = [disk EXCEPT ![s] = e]
      BY <1>1, <1>7, <2>2
    <3> HIDE DEF e
    <3> QED
      BY <1>1, <3>2, <3>3
  <2> QED
    BY <1>0, <1>7, <2>1, <2>2
<1>10. /\ \A g \in d.reserved : \E t \in Bringing(s) : Brought(t) = g
       /\ \A t \in Bringing(s) :
            Brought(t) \notin rewritten[s] =>
              /\ Brought(t) \in d.reserved /\ Brought(t) \notin d.stored
              /\ \A u \in Bringing(s) : Brought(u) = Brought(t) => u = t
  BY <1>7 DEF DiskFine
<1>11. DiskFine(s)'
  <2>1. Room(s, disk[s], rewritten[s] = {})'
    <3>1. rewritten'[s] = {} => rewritten[s] = {} /\ f \notin d.stored \cup d.reserved
      BY <1>2, <1>4, <1>7, <1>10
    <3>2. Room(s, n, rewritten'[s] = {})
      BY <1>6, <1>9, <3>1 DEF Room
    <3> QED
      BY <1>9, <3>2
  <2>2. \A g \in n.reserved : \E t \in Bringing(s)' : Brought(t)' = g
    BY <1>0, <1>2, <1>9, <1>10
  <2>3. ASSUME NEW t \in Bringing(s)', Brought(t)' \notin rewritten'[s]
        PROVE  /\ Brought(t)' \in n.reserved /\ Brought(t)' \notin n.stored
               /\ \A u \in Bringing(s)' : Brought(u)' = Brought(t)' => u = t
    <3>1. CASE t = t0
      <4>1. f \notin d.stored /\ f \notin Coming(s)
        BY <1>0, <1>2, <1>4, <1>7, <2>3, <3>1
      <4> QED
        BY <1>0, <1>2, <1>9, <3>1, <4>1
    <3>2. CASE t # t0
      <4>1. t \in Bringing(s) /\ Brought(t) \notin rewritten[s]
        BY <1>2, <1>4, <2>3, <3>2
      <4>2. Brought(t) # f
        BY <1>2, <1>4, <2>3, <4>1
      <4> QED
        BY <1>0, <1>2, <1>9, <1>10, <4>1, <4>2
    <3> QED
      BY <3>1, <3>2
  <2> QED
    BY <1>9, <2>1, <2>2, <2>3 DEF DiskFine
<1> QED
  BY <1>4, <1>5, <1>9, <1>11 DEF DisksNext

\* A transfer that brings a file has ended, with the file or without.
LEMMA TransferOver ==
    ASSUME TypeOK, \A r \in Services : DiskFine(r), NEW s \in Services, NEW t0 \in Transfer,
           t0.op # "read", OneLess(s, t0), request' = request, rewritten' = rewritten,
           \/ disk' = [disk EXCEPT ![s] = StoreFile(@, Brought(t0))]
           \/ disk' = [disk EXCEPT ![s] = UnreserveSpace(@, Brought(t0))]
    PROVE  DisksNext
<1>0. PICK f \in Files : f = Brought(t0)
  <2>1. t0.client \in Clients
    BY DEF Transfer
  <2> QED
    BY <2>1 DEF TypeOK, Request, Brought
<1>1. disk \in [Services -> Disk] /\ rewritten \in [Services -> SUBSET Files]
  BY DEF TypeOK, Disk
<1>2. /\ Bringing(s)' = Bringing(s) \ {t0} /\ t0 \in Bringing(s)
      /\ \A t : Brought(t)' = Brought(t)
  BY DEF Bringing, Brought, OneLess
<1>3. \A r \in Services \ {s} : SameTransfers(r)
  BY DEF OneLess, SameTransfers
<1> HIDE DEF Bringing, Brought
<1>4. \A r \in Services \ {s} : disk'[r] = disk[r]
  BY <1>1
<1>5. \A r \in Services \ {s} : DiskFine(r)'
  BY <1>3, <1>4, DiskStays
<1>6. PICK exact \in BOOLEAN : exact <=> rewritten[s] = {}
  OBVIOUS
<1>7. PICK d \in Disk : d = disk[s]
  BY <1>1
<1>8. /\ \A g \in d.reserved : \E t \in Bringing(s) : Brought(t) = g
      /\ \A t \in Bringing(s) :
           Brought(t) \notin rewritten[s] =>
             /\ Brought(t) \in d.reserved /\ Brought(t) \notin d.stored
             /\ \A u \in Bringing(s) : Brought(u) = Brought(t) => u = t
  BY <1>7 DEF DiskFine
<1>9. Room(s, d, exact) /\ (exact => f \in d.reserved)
  <2>1. Room(s, d, exact)
    BY <1>6, <1>7 DEF DiskFine, Room
  <2> QED
    BY <1>0, <1>2, <1>6, <1>8, <2>1
<1>10. PICK n \in Disk : /\ n = disk'[s] /\ disk' \in [Services -> Disk]
                         /\ n.reserved = d.reserved \ {f}
                         /\ n.stored \subseteq d.stored \cup {f}
                         /\ Room(s, n, exact)
  <2>1. CASE disk' = [disk EXCEPT ![s] = StoreFile(@, f)]
    <3> DEFINE e == StoreFile(d, f)
    <3>1. e \in Disk /\ e.reserved = d.reserved \ {f} /\ Room(s, e, exact) /\ e.stored = d.stored \cup {f}
      BY <1>9, Stores
    <3>2. disk'[s] = e /\ disk' = [disk EXCEPT ![s] = e]
      BY <1>1, <1>7, <2>1
    <3> HIDE DEF e
    <3> QED
      BY <1>1, <3>1, <3>2
  <2>2. CASE disk' = [disk EXCEPT ![s] = UnreserveSpace(@, f)]
    <3> DEFINE e == UnreserveSpace(d, f)
    <3>1. e \in Disk /\ e.reserved = d.reserved \ {f} /\ Room(s, e, exact) /\ e.stored = d.stored
      BY <1>9, Unreserves
    <3>2. disk'[s] = e /\ disk' = [disk EXCEPT ![s] = e]
      BY <1>1, <1>7, <2>2
    <3> HIDE DEF e
    <3> QED
      BY <1>1, <3>1, <3>2
  <2> QED
    BY <1>0, <2>1, <2>2
<1>11. DiskFine(s)'
  <2>1. Room(s, disk[s], rewritten[s] = {})'
    <3>1. Room(s, n, rewritten'[s] = {})
      BY <1>6, <1>10 DEF Room
    <3> QED
      BY <1>10, <3>1
  <2>2. \A g \in n.reserved : \E t \in Bringing(s)' : Brought(t)' = g
    BY <1>0, <1>2, <1>8, <1>10
  <2>3. ASSUME NEW t \in Bringing(s)', Brought(t)' \notin rewritten'[s]
        PROVE  /\ Brought(t)' \in n.reserved /\ Brought(t)' \notin n.stored
               /\ \A u \in Bringing(s)' : Brought(u)' = Brought(t)' => u = t
    <3>1. /\ t \in Bringing(s) /\ t # t0 /\ Brought(t) \notin rewritten[s]
          /\ Brought(t)' = Brought(t)
      BY <1>2, <2>3
    <3>2. Brought(t) # f
      BY <1>0, <1>2, <1>8, <3>1
    <3> QED
      BY <1>2, <1>8, <1>10, <3>1, <3>2
  <2> QED
    BY <1>10, <2>1, <2>2, <2>3 DEF DiskFine
<1> QED
  BY <1>1, <1>5, <1>10, <1>11 DEF DisksNext

\* The requests are those of before.
LEMMA TransfersStay ==
    ASSUME request' = request, \A r \in Services : UnderWay(r)' = UnderWay(r)
    PROVE  \A r \in Services : SameTransfers(r)
BY DEF SameTransfers

\* A write is put in line with room for its file, refused, or ends the simulation.
LEMMA WriteDisks ==
    ASSUME Inv, NEW s \in Services, NEW c \in Clients, ProcessFileWriteRequest(s, c)
    PROVE  DisksNext
<1> HIDE DEF DisksNext
<1>1. TypeOK /\ (\A r \in Services : ServiceFine(r)) /\ \A r \in Services : DiskFine(r)
  BY DEF Inv
<1>2. request' = request
  BY DEF ProcessFileWriteRequest, clientVars
<1> DEFINE t0 == TransferOf("write", c)
<1>3. t0 \in Transfer /\ t0.op # "read" /\ Brought(t0) = request[c].file
  BY DEF Transfer, TransferOf, Brought
<1> HIDE DEF t0
<1>4. \/ /\ MarkRewrite(s, Brought(t0)) /\ OneMore(s, t0)
         /\ disk' = [disk EXCEPT ![s] = ReserveSpace(@, Brought(t0))]
         /\ HasEnoughFreeSpace(s, Brought(t0))
      \/ UNCHANGED <<disk, rewritten>> /\ \A r \in Services : UnderWay(r)' = UnderWay(r)
  BY <1>1, <1>3, WriteHandled DEF t0
<1>5. CASE /\ MarkRewrite(s, Brought(t0)) /\ OneMore(s, t0)
           /\ disk' = [disk EXCEPT ![s] = ReserveSpace(@, Brought(t0))]
           /\ HasEnoughFreeSpace(s, Brought(t0))
  BY <1>1, <1>2, <1>3, <1>5, TransferAccepted
<1>6. CASE UNCHANGED <<disk, rewritten>> /\ \A r \in Services : UnderWay(r)' = UnderWay(r)
  BY <1>1, <1>2, <1>6, TransfersStay, NothingComes
<1> QED
  BY <1>4, <1>5, <1>6

\* So is a copy, which needs no room for a file that is there.
LEMMA CopyDisks ==
    ASSUME Inv, NEW s \in Services, NEW c \in Clients, ProcessFileCopyRequest(s, c)
    PROVE  DisksNext
<1> HIDE DEF DisksNext
<1>1. TypeOK /\ (\A r \in Services : ServiceFine(r)) /\ \A r \in Services : DiskFine(r)
  BY DEF Inv
<1>2. request' = request
  BY DEF ProcessFileCopyRequest, clientVars
<1> DEFINE t0 == TransferOf("copy", c)
<1>3. t0 \in Transfer /\ t0.op # "read" /\ Brought(t0) = request[c].file
  BY DEF Transfer, TransferOf, Brought
<1> HIDE DEF t0
<1>4. \/ /\ MarkRewrite(s, Brought(t0)) /\ OneMore(s, t0)
         /\ \/ disk' = disk /\ Brought(t0) \in disk[s].stored
            \/ /\ HasEnoughFreeSpace(s, Brought(t0))
               /\ disk' = [disk EXCEPT ![s] = ReserveSpace(@, Brought(t0))]
      \/ UNCHANGED <<disk, rewritten>> /\ \A r \in Services : UnderWay(r)' = UnderWay(r)
  BY <1>1, <1>3, CopyHandled DEF t0
<1>5. CASE /\ MarkRewrite(s, Brought(t0)) /\ OneMore(s, t0)
           /\ \/ disk' = disk /\ Brought(t0) \in disk[s].stored
              \/ /\ HasEnoughFreeSpace(s, Brought(t0))
                 /\ disk' = [disk EXCEPT ![s] = ReserveSpace(@, Brought(t0))]
  BY <1>1, <1>2, <1>3, <1>5, TransferAccepted
<1>6. CASE UNCHANGED <<disk, rewritten>> /\ \A r \in Services : UnderWay(r)' = UnderWay(r)
  BY <1>1, <1>2, <1>6, TransfersStay, NothingComes
<1> QED
  BY <1>4, <1>5, <1>6

\* What is read comes from the disk.
LEMMA ReadDisks ==
    ASSUME Inv, NEW s \in Services, NEW c \in Clients, ProcessFileReadRequest(s, c)
    PROVE  DisksNext
<1> HIDE DEF DisksNext
<1>1. TypeOK /\ (\A r \in Services : ServiceFine(r)) /\ \A r \in Services : DiskFine(r)
  BY DEF Inv
<1>2. request' = request /\ UNCHANGED <<disk, rewritten>>
  BY DEF ProcessFileReadRequest, clientVars
<1> DEFINE t0 == TransferOf("read", c)
<1>3. t0.op = "read"
  BY DEF TransferOf
<1> HIDE DEF t0
<1>4. OneMore(s, t0) \/ \A r \in Services : UnderWay(r)' = UnderWay(r)
  BY <1>1, ReadHandled DEF t0
<1>5. CASE OneMore(s, t0)
  <2>1. \A r \in Services : Bringing(r)' = Bringing(r)
    BY <1>3, <1>5 DEF OneMore, Bringing
  <2>2. \A r \in Services : DiskFine(r)'
    BY <1>1, <1>2, <2>1 DEF DiskFine, Room, Brought
  <2> QED
    BY <1>1, <1>2, <2>2 DEF DisksNext, TypeOK, Disk
<1>6. CASE \A r \in Services : UnderWay(r)' = UnderWay(r)
  BY <1>1, <1>2, <1>6, TransfersStay, NothingComes
<1> QED
  BY <1>4, <1>5, <1>6

\* The deletion of a file that is there frees its space.
LEMMA DeleteDisks ==
    ASSUME Inv, NEW s \in Services, NEW c \in Clients, ProcessFileDeleteRequest(s, c)
    PROVE  DisksNext
<1> DEFINE f == request[c].file
<1> HIDE DEF DisksNext
<1>1. /\ TypeOK /\ (\A r \in Services : ServiceFine(r)) /\ \A r \in Services : DiskFine(r)
      /\ disk = [disk EXCEPT ![s] = @]
  BY DEF Inv, TypeOK
<1>2. /\ request' = request /\ rewritten' = rewritten
      /\ disk' = [disk EXCEPT ![s] = IF f \in @.stored THEN RemoveFile(@, f) ELSE @]
  BY DEF ProcessFileDeleteRequest, clientVars
<1>3. \A r \in Services : SameTransfers(r)
  BY <1>1, <1>2, DeleteHandled, TransfersStay
<1>4. CASE f \in disk[s].stored
  <2>1. disk' = [disk EXCEPT ![s] = RemoveFile(@, f)]
    BY <1>2, <1>4
  <2> QED
    BY <1>1, <1>2, <1>3, <1>4, <2>1, FileDeleted
<1>5. CASE f \notin disk[s].stored
  <2>1. disk' = disk
    BY <1>1, <1>2, <1>5
  <2> QED
    BY <1>1, <1>2, <1>3, <2>1, NothingComes
<1> QED
  BY <1>4, <1>5

\* What a transfer that has ended brought is stored, or its space given back.
LEMMA EndDisks ==
    ASSUME Inv, NEW s \in Services, NEW c \in Clients, NEW op \in {"write", "read", "copy"},
           NEW what \in {"done", "failed"}, ProcessFileTransferThreadNotification(s, op, c, what)
    PROVE  DisksNext
<1> DEFINE f == request[c].file
<1> HIDE DEF DisksNext
<1>1. /\ TypeOK /\ (\A r \in Services : ServiceFine(r)) /\ \A r \in Services : DiskFine(r)
      /\ disk = [disk EXCEPT ![s] = @]
  BY DEF Inv, TypeOK
<1>2. /\ request' = request /\ rewritten' = rewritten
      /\ disk' = [disk EXCEPT ![s] =
           IF op = "read" THEN @
           ELSE IF what = "done" THEN StoreFile(@, f) ELSE UnreserveSpace(@, f)]
  BY DEF ProcessFileTransferThreadNotification, clientVars
<1> DEFINE t0 == TransferOf(op, c)
<1>3. t0 \in Transfer /\ t0.op = op /\ Brought(t0) = f
  BY DEF Transfer, TransferOf, Brought
<1>4. OneLess(s, t0)
  BY <1>1, EndHandled
<1> HIDE DEF t0
<1>5. CASE op = "read"
  <2>1. disk' = disk
    BY <1>1, <1>2, <1>5
  <2>2. \A r \in Services : Bringing(r)' = Bringing(r)
    BY <1>3, <1>4, <1>5 DEF OneLess, Bringing
  <2>3. \A r \in Services : DiskFine(r)'
    BY <1>1, <1>2, <2>1, <2>2 DEF DiskFine, Room, Brought
  <2> QED
    BY <1>1, <1>2, <2>1, <2>3 DEF DisksNext, TypeOK, Disk
<1>6. CASE op # "read"
  <2>1. \/ disk' = [disk EXCEPT ![s] = StoreFile(@, Brought(t0))]
        \/ disk' = [disk EXCEPT ![s] = UnreserveSpace(@, Brought(t0))]
    BY <1>2, <1>3, <1>6
  <2> QED
    BY <1>1, <1>2, <1>3, <1>4, <1>6, <2>1, TransferOver
<1> QED
  BY <1>5, <1>6

\* The disks stay in order whatever happens.
LEMMA StepDisks ==
    ASSUME Inv, \/ \E s \in Services : ServiceStep(s)
                \/ \E c \in Clients : Ask(c) \/ GiveUp(c) \/ TransferStep(c) \/ FetchTimesOut(c)
    PROVE  DisksNext
<1> HIDE DEF DisksNext
<1>1. ASSUME NEW s \in Services, ServiceStep(s) PROVE DisksNext
  BY <1>1, WriteDisks, CopyDisks, ReadDisks, DeleteDisks, EndDisks DEF ServiceStep
<1>2. TypeOK /\ (\A r \in Services : ServiceFine(r)) /\ \A r \in Services : DiskFine(r)
  BY DEF Inv
<1>3. ASSUME NEW c \in Clients, Ask(c) PROVE DisksNext
  <2>1. /\ UNCHANGED <<disk, rewritten>>
        /\ \A d : d # c => request'[d] = request[d]
    BY <1>2, <1>3 DEF Ask, serviceVars, TypeOK
  <2>2. \A r \in Services : SameTransfers(r)
    BY <1>2, <1>3, <2>1, AskFine DEF SameTransfers
  <2> QED
    BY <1>2, <2>1, <2>2, NothingComes
<1>4. ASSUME NEW c \in Clients, GiveUp(c) \/ TransferStep(c) \/ FetchTimesOut(c) PROVE DisksNext
  <2>1. UNCHANGED <<disk, rewritten, pending, running, request>>
    BY <1>4 DEF GiveUp, FetchTimesOut, TransferStep, Exchange, Fetch, FetchRefused, Download,
                serviceVars, clientVars
  <2>2. \A r \in Services : SameTransfers(r)
    BY <2>1 DEF SameTransfers, UnderWay, ToSet
  <2> QED
    BY <1>2, <2>1, <2>2, NothingComes
<1> QED
  BY <1>1, <1>3, <1>4

-------------------------------------------------------------------------------
(* The invariant, and what follows from it *)

\* The types that the invariant of transfers and disks does not speak of.
LEMMA RequestsTyped ==
    ASSUME TypeOK, \/ \E s \in Services : ServiceStep(s)
                   \/ \E c \in Clients : Ask(c) \/ GiveUp(c) \/ TransferStep(c) \/ FetchTimesOut(c)
    PROVE  /\ request' \in [Clients -> Request] /\ stage' \in [Clients -> Stage]
           /\ left' \in [Clients -> Nat] /\ aborted' \in BOOLEAN
<1>1. /\ request \in [Clients -> Request] /\ stage \in [Clients -> Stage]
      /\ left \in [Clients -> Nat] /\ aborted \in BOOLEAN
  BY DEF TypeOK
<1>2. ASSUME NEW s \in Services, ServiceStep(s)
      PROVE  UNCHANGED clientVars /\ stage' \in [Clients -> Stage] /\ aborted' \in BOOLEAN
  <2> PICK c \in Clients :
        \/ ProcessFileWriteRequest(s, c)
        \/ ProcessFileReadRequest(s, c)
        \/ ProcessFileCopyRequest(s, c)
        \/ ProcessFileDeleteRequest(s, c)
        \/ \E op \in {"write", "read", "copy"}, what \in {"done", "failed"} :
             ProcessFileTransferThreadNotification(s, op, c, what)
    BY <1>2 DEF ServiceStep
  <2>1. CASE ProcessFileWriteRequest(s, c)
    BY <1>1, <2>1 DEF ProcessFileWriteRequest, Answer, Stage
  <2>2. CASE ProcessFileReadRequest(s, c)
    <3>1. UNCHANGED clientVars /\ aborted' = aborted
      BY <2>2 DEF ProcessFileReadRequest
    <3>2. PICK found \in BOOLEAN : AnswerCopy(c, found) \/ Answer(c, IF found THEN "accepted" ELSE "idle")
      <4> DEFINE known == request[c].file \in disk[s].stored
      <4>1. AnswerCopy(c, known) \/ Answer(c, IF known THEN "accepted" ELSE "idle")
        BY <2>2 DEF ProcessFileReadRequest
      <4>2. known \in BOOLEAN
        OBVIOUS
      <4> HIDE DEF known
      <4> QED
        BY <4>1, <4>2
    <3>3. CASE AnswerCopy(c, found)
      <4> DEFINE x == CASE stage[c] = "fetching" -> IF found THEN "fed" ELSE "refused"
                        [] stage[c] = "late" /\ ~found -> "ended"
                        [] stage[c] = "gone" /\ ~found -> "idle"
                        [] OTHER -> stage[c]
      <4>1. stage' = [stage EXCEPT ![c] = x]
        BY <1>1, <3>3 DEF AnswerCopy
      <4>2. x \in Stage
        BY <1>1 DEF Stage
      <4> HIDE DEF x
      <4> QED
        BY <1>1, <3>1, <4>1, <4>2
    <3>4. CASE Answer(c, IF found THEN "accepted" ELSE "idle")
      BY <1>1, <3>1, <3>4 DEF Answer, Stage
    <3> QED
      BY <3>2, <3>3, <3>4
  <2>3. CASE ProcessFileCopyRequest(s, c)
    BY <1>1, <2>3 DEF ProcessFileCopyRequest, Answer, Stage
  <2>4. CASE ProcessFileDeleteRequest(s, c)
    BY <1>1, <2>4 DEF ProcessFileDeleteRequest, Answer, Stage
  <2>5. CASE \E op \in {"write", "read", "copy"}, what \in {"done", "failed"} :
               ProcessFileTransferThreadNotification(s, op, c, what)
    BY <1>1, <2>5 DEF ProcessFileTransferThreadNotification, Stage
  <2> QED
    BY <2>1, <2>2, <2>3, <2>4, <2>5
<1>3. ASSUME NEW c \in Clients, Ask(c)
      PROVE  /\ request' \in [Clients -> Request] /\ stage' \in [Clients -> Stage]
             /\ left' \in [Clients -> Nat] /\ aborted' = aborted
  <2>1. left' = [left EXCEPT ![c] = @ - 1] /\ left[c] > 0 /\ left[c] - 1 \in Nat
    BY <1>1, <1>3 DEF Ask
  <2>2. left' \in [Clients -> Nat]
    BY <1>1, <2>1
  <2>3. stage' \in [Clients -> Stage] /\ aborted' = aborted
    BY <1>1, <1>3 DEF Ask, Stage, serviceVars
  <2>4. request' \in [Clients -> Request]
    BY <1>1, <1>3 DEF Ask
  <2> QED
    BY <2>2, <2>3, <2>4
<1>4. ASSUME NEW c \in Clients, GiveUp(c) \/ TransferStep(c) \/ FetchTimesOut(c)
      PROVE  UNCHANGED clientVars /\ stage' \in [Clients -> Stage] /\ aborted' = aborted
  BY <1>1, <1>4 DEF GiveUp, TransferStep, Exchange, Fetch, FetchTimesOut, FetchRefused, Download, Stage,
                    serviceVars
<1> QED
  BY <1>1, <1>2, <1>3, <1>4 DEF clientVars

LEMMA NothingIsStored ==
    SizeOf({}) = 0
<1>1. \A R : /\ SizeOf(R) = Sums!SumFunctionOnSet(Size, R)
             /\ IsFiniteSet(R) <=> Sums!IsFiniteSet(R)
  BY DEF SizeOf, SumFunctionOnSet, Sums!SumFunctionOnSet, FoldFunctionOnSet,
         Sums!FoldFunctionOnSet, MapThenFoldSet, Sums!MapThenFoldSet, IsFiniteSet,
         Sums!IsFiniteSet
<1>2. Sums!IsFiniteSet({})
  BY <1>1, FS_EmptySet
<1> QED
  BY <1>1, <1>2, Sums!SumUnfolds

LEMMA StartsFine ==
    ASSUME Init
    PROVE  Inv
<1>1. \E r \in Request : r.op = "read"
  <2>1. PICK s \in Services, f \in Files : TRUE
    BY StorageAssumption
  <2>2. [op |-> "read", file |-> f, at |-> s, from |-> s] \in Request
    BY DEF Request, Op
  <2> QED
    BY <2>2
<1>2. (CHOOSE r \in Request : r.op = "read") \in Request
  BY <1>1
<1>3. request \in [Clients -> Request]
  BY <1>2 DEF Init
<1>4. \A s \in Services : /\ Staged[s] \in SUBSET Files /\ SizeOf(Staged[s]) \in Nat
                          /\ Capacity[s] \in Nat /\ SizeOf(Staged[s]) <= Capacity[s]
  BY StorageAssumption, SizeFacts
<1>5. /\ disk \in [Services -> [stored : SUBSET Files, reserved : SUBSET Files, occupied : Nat]]
      /\ \A s \in Services : /\ disk[s].stored = Staged[s] /\ disk[s].reserved = {}
                             /\ disk[s].occupied = SizeOf(Staged[s])
  BY <1>4 DEF Init
<1>6. TypeOK
  <2>1. /\ mailbox \in [Services -> Seq(Message)] /\ pending \in [Services -> Seq(Transfer)]
        /\ running \in [Services -> SUBSET Transfer]
    BY DEF Init
  <2>2. left \in [Clients -> Nat]
    BY StorageAssumption DEF Init
  <2>3. stage \in [Clients -> Stage] /\ rewritten \in [Services -> SUBSET Files] /\ aborted \in BOOLEAN
    BY DEF Init, Stage
  <2> QED
    BY <1>3, <1>5, <2>1, <2>2, <2>3 DEF TypeOK
<1>7. ASSUME NEW s \in Services PROVE ServiceFine(s)
  <2>1. mailbox[s] = <<>> /\ pending[s] = <<>> /\ running[s] = {}
    BY DEF Init
  <2>2. IsFiniteSet({}) /\ Cardinality({}) = 0 /\ MaxConnections \in Nat
    BY FS_EmptySet, StorageAssumption
  <2> QED
    BY <2>1, <2>2 DEF ServiceFine, Distinct, Subjects
<1>8. ASSUME NEW s \in Services PROVE DiskFine(s)
  <2>1. Bringing(s) = {}
    BY DEF Init, Bringing, UnderWay, ToSet
  <2>2. Room(s, disk[s], TRUE)
    BY <1>4, <1>5, NothingIsStored DEF Room
  <2> QED
    BY <1>5, <2>1, <2>2 DEF DiskFine, Room
<1> QED
  BY <1>6, <1>7, <1>8 DEF Inv

LEMMA StaysFine ==
    ASSUME Inv, [Next]_vars
    PROVE  Inv'
<1>1. CASE UNCHANGED vars
  <2>1. TypeOK'
    BY <1>1 DEF Inv, TypeOK, vars, serviceVars, clientVars
  <2>2. ASSUME NEW s \in Services PROVE ServiceFine(s)'
    <3>1. ServiceFine(s)
      BY DEF Inv
    <3>2. UNCHANGED <<mailbox, pending, running, stage, request>>
      BY <1>1 DEF vars, serviceVars, clientVars
    <3>3. \A m : MessageFine(s, m) => MessageFine(s, m)'
      BY <3>2 DEF MessageFine, Placed, SubjectOf, TransferOf, UnderWay, ToSet
    <3>4. \A t : (WaitingFine(s, t) => WaitingFine(s, t)') /\ (RunningFine(s, t) => RunningFine(s, t)')
      BY <3>2 DEF WaitingFine, RunningFine
    <3>5. /\ \A m : (\E i \in DOMAIN mailbox'[s] : m = mailbox'[s][i]) => MessageFine(s, m)'
          /\ \A t : (\E i \in DOMAIN pending'[s] : t = pending'[s][i]) =>
                     WaitingFine(s, t)' /\ t \notin running'[s]
          /\ \A t \in running'[s] : RunningFine(s, t)'
      BY <3>1, <3>2, <3>3, <3>4 DEF ServiceFine
    <3>6. /\ Distinct(Subjects(mailbox'[s])) /\ Distinct(pending'[s])
          /\ IsFiniteSet(running'[s]) /\ Cardinality(running'[s]) <= MaxConnections
          /\ pending'[s] # <<>> => Cardinality(running'[s]) = MaxConnections
      BY <3>1, <3>2 DEF ServiceFine
    <3> QED
      BY <3>5, <3>6, FineAfter
  <2>3. ASSUME NEW s \in Services PROVE DiskFine(s)'
    <3>1. DiskFine(s)
      BY DEF Inv
    <3>2. UNCHANGED <<disk, rewritten, pending, running, request>>
      BY <1>1 DEF vars, serviceVars, clientVars
    <3>3. SameTransfers(s)
      BY <3>2 DEF SameTransfers, UnderWay, ToSet
    <3> QED
      BY <3>1, <3>2, <3>3, DiskStays
  <2> QED
    BY <2>1, <2>2, <2>3 DEF Inv
<1>2. CASE Next
  <2>1. \/ \E s \in Services : ServiceStep(s)
        \/ \E c \in Clients : Ask(c) \/ GiveUp(c) \/ TransferStep(c) \/ FetchTimesOut(c)
    BY <1>2 DEF Next
  <2>2. TypeOK /\ \A r \in Services : ServiceFine(r)
    BY DEF Inv
  <2>3. NextFine
    BY <2>1, <2>2, ServiceStepFine, AskFine, GiveUpFine, TransferStepFine, FetchTimesOutFine
  <2>4. DisksNext
    BY <2>1, StepDisks
  <2>5. /\ request' \in [Clients -> Request] /\ stage' \in [Clients -> Stage]
        /\ left' \in [Clients -> Nat] /\ aborted' \in BOOLEAN
    BY <2>1, <2>2, RequestsTyped
  <2>6. TypeOK'
    BY <2>3, <2>4, <2>5 DEF TypeOK, NextFine, DisksNext, Disk
  <2> QED
    BY <2>3, <2>4, <2>6 DEF Inv, NextFine, DisksNext
<1> QED
  BY <1>1, <1>2

LEMMA InvHolds == Spec => []Inv
BY StartsFine, StaysFine, PTL DEF Spec

\* What is reserved on a disk is for the transfers under way to it, and what is counted as
\* occupied covers them and what is stored.
LEMMA DiskAccounted ==
    ASSUME Inv
    PROVE  SpaceAccounted
<1>1. ASSUME NEW s \in Services
      PROVE  /\ disk[s].reserved \subseteq Coming(s)
             /\ Coming(s) \ rewritten[s] \subseteq disk[s].reserved \ disk[s].stored
             /\ Room(s, disk[s], rewritten[s] = {})
  <2>1. DiskFine(s)
    BY DEF Inv
  <2>2. Coming(s) = {Brought(t) : t \in Bringing(s)}
    BY DEF Coming, Bringing, Brought
  <2> QED
    BY <2>1, <2>2 DEF DiskFine
<1>2. ASSUME NEW s \in Services
      PROVE  /\ disk[s].occupied >= SizeOf(disk[s].stored) + SizeOf(disk[s].reserved)
             /\ disk[s].occupied >= SizeOf(disk[s].stored \cup (Coming(s) \ rewritten[s]))
             /\ rewritten[s] = {} =>
                  /\ disk[s].occupied = SizeOf(disk[s].stored \cup Coming(s))
                  /\ disk[s].occupied <= Capacity[s]
  <2>1. PICK stored \in SUBSET Files, reserved \in SUBSET Files, occupied \in Nat :
           stored = disk[s].stored /\ reserved = disk[s].reserved /\ occupied = disk[s].occupied
    BY DEF Inv, TypeOK
  <2>2. /\ occupied >= SizeOf(stored) + SizeOf(reserved)
        /\ rewritten[s] = {} => /\ occupied = SizeOf(stored) + SizeOf(reserved)
                                /\ occupied <= Capacity[s]
    BY <1>1, <2>1 DEF Room
  <2> DEFINE new == Coming(s) \ rewritten[s]
  <2>3. new \subseteq reserved \ stored
    BY <1>1, <2>1
  <2> HIDE DEF new
  <2>4. /\ SizeOf(stored) \in Nat /\ SizeOf(new) \in Nat /\ SizeOf(reserved) \in Nat
        /\ SizeOf(reserved) >= SizeOf(new)
        /\ SizeOf(stored \cup new) = SizeOf(stored) + SizeOf(new)
    <3>1. stored \cup new \in SUBSET Files /\ new \in SUBSET Files /\ (stored \cup new) \ stored = new
      BY <2>3
    <3>2. /\ SizeOf(reserved) = SizeOf(new) + SizeOf(reserved \ new)
          /\ SizeOf(reserved) \in Nat /\ SizeOf(new) \in Nat /\ SizeOf(reserved \ new) \in Nat
      BY <2>3, SizeSplits
    <3>3. /\ SizeOf(stored \cup new) = SizeOf(stored) + SizeOf((stored \cup new) \ stored)
          /\ SizeOf(stored) \in Nat
      BY <3>1, SizeSplits
    <3> QED
      BY <3>1, <3>2, <3>3
  <2>5. occupied >= SizeOf(stored \cup new)
    BY <2>2, <2>4
  <2>6. ASSUME rewritten[s] = {}
        PROVE  new = Coming(s) /\ new = reserved
    BY <1>1, <2>1, <2>3, <2>6 DEF new
  <2>7. rewritten[s] = {} => occupied = SizeOf(stored \cup Coming(s)) /\ occupied <= Capacity[s]
    BY <2>2, <2>4, <2>6
  <2> QED
    BY <2>1, <2>2, <2>5, <2>7 DEF new
<1> QED
  BY <1>1, <1>2 DEF SpaceAccounted, ReservedForTransfers, Inv

-------------------------------------------------------------------------------
(* Theorems *)

\* SimpleStorageService: whatever mixture of writes, reads, copies and deletions the clients
\* ask for, whether the transfers succeed, are cut or give up, what LogicalFileSystem counts
\* as occupied covers the stored files and those under way, but for a second transfer of one
\* file; it is exact, and within the capacity, while no file was asked for when the service
\* had it or was getting it; and space is only reserved for transfers that are under way.
THEOREM SpaceIsAccounted == Spec => []SpaceAccounted
<1>1. Inv => SpaceAccounted
  BY DiskAccounted
<1> QED
  BY <1>1, InvHolds, PTL

\* startPendingFileTransferThread: no service ever has more transfers under way than data
\* connections, and no transfer waits while a connection is free, for any number of services,
\* clients and connections.
THEOREM ConnectionsAreUsed == Spec => []ConnectionsUsed
<1>1. Inv => ConnectionsUsed
  BY DEF Inv, ServiceFine, ConnectionsUsed
<1> QED
  BY <1>1, InvHolds, PTL

\* Where a transfer is, its client's stage says: a service keeps a connection for a transfer
\* until it handles the one notification that it has ended, no notification is about a
\* transfer that has no connection, and no request in a mailbox, given up or not, has a
\* transfer already (SimpleStorageService::processFileTransferThreadNotification erases the
\* thread of every notification it gets).
THEOREM TransfersStayTracked == Spec => [](\A s \in Services : ServiceFine(s))
<1>1. Inv => \A s \in Services : ServiceFine(s)
  BY DEF Inv
<1> QED
  BY <1>1, InvHolds, PTL

==================================================================================
