-------------------------- MODULE WriteQueueProofs --------------------------
(***************************************************************************)
(* Proofs about WriteQueue, for any number of writes.                      *)
(***************************************************************************)
EXTENDS WriteQueue, SequenceTheorems, TLAPS

(* Batches leave the queue in the order they were numbered, so it is an    *)
(* interval that ends with the last batch written.                         *)
Settled == written - Len(queue)

QueueInterval ==
    /\ Settled \in Nat
    /\ \A i \in 1 .. Len(queue) : queue[i] = Settled + i

QueueInv ==
    /\ QueueTypeOK
    /\ QueueInterval
    /\ committed \cup refused \subseteq 1 .. written
    /\ \A b \in Batch : answer[b] = "none" <=> b > Settled
    /\ AckedWasCommitted
    /\ CommittedInOrder
    /\ RejectedForCause

LEMMA PendingInterval ==
    ASSUME QueueTypeOK, QueueInterval
    PROVE  Pending = Settled + 1 .. written
<1>1. Len(queue) \in Nat /\ written \in Nat
  BY WriteAssumption DEF QueueTypeOK
<1>2. Pending = {queue[i] : i \in 1 .. Len(queue)}
  BY DEF Pending, ToSet, QueueTypeOK
<1>3. ASSUME NEW b \in Settled + 1 .. written
      PROVE  b \in Pending
  <2>1. b - Settled \in 1 .. Len(queue)
    BY <1>1 DEF Settled, QueueInterval
  <2>2. queue[b - Settled] = b
    BY <1>1, <2>1 DEF Settled, QueueInterval
  <2> QED
    BY <1>2, <2>1, <2>2
<1>4. ASSUME NEW i \in 1 .. Len(queue)
      PROVE  queue[i] \in Settled + 1 .. written
  BY <1>1 DEF Settled, QueueInterval
<1> QED
  BY <1>2, <1>3, <1>4

LEMMA QueueInitially == QueueInit => QueueInv
BY WriteAssumption
   DEF QueueInit, QueueInv, QueueTypeOK, QueueInterval, Settled, Batch,
       AckedWasCommitted, CommittedInOrder, RejectedForCause

LEMMA WriteLocallyKeeps == QueueInv /\ WriteLocally => QueueInv'
<1> SUFFICES ASSUME QueueInv, WriteLocally PROVE QueueInv'
  OBVIOUS
<1> USE DEF QueueInv, WriteLocally
<1>1. written \in Nat /\ written' = written + 1 /\ written' \in 0 .. MaxWrites
  BY WriteAssumption DEF QueueTypeOK
<1>2. queue \in Seq(Batch) /\ written + 1 \in Batch
  BY <1>1, WriteAssumption DEF QueueTypeOK, Batch
<1>3. /\ queue' \in Seq(Batch)
      /\ Len(queue') = Len(queue) + 1
      /\ \A i \in 1 .. Len(queue') :
            queue'[i] = IF i = Len(queue) + 1 THEN written + 1 ELSE queue[i]
  BY <1>2
<1>4. Settled' = Settled /\ Len(queue) \in Nat
  BY <1>1, <1>2, <1>3 DEF Settled
<1>5. QueueInterval'
  BY <1>1, <1>3, <1>4 DEF QueueInterval, Settled
<1>6. QueueTypeOK'
  BY <1>1, <1>3 DEF QueueTypeOK
<1>7. AckedWasCommitted' /\ CommittedInOrder' /\ RejectedForCause'
  BY DEF AckedWasCommitted, CommittedInOrder, RejectedForCause
<1> QED
  BY <1>1, <1>4, <1>5, <1>6, <1>7

LEMMA CommitKeeps == QueueInv /\ Commit => QueueInv'
<1> SUFFICES ASSUME QueueInv, Commit PROVE QueueInv'
  OBVIOUS
<1> USE DEF QueueInv
<1>1. PICK b \in Batch : Reached(b) /\ committed' = committed \cup {b}
  BY DEF Commit
<1>2. UNCHANGED <<written, queue, refused, answer, Settled>>
  BY DEF Commit, Settled
<1>3. QueueTypeOK' /\ QueueInterval'
  BY <1>1, <1>2 DEF QueueTypeOK, QueueInterval
<1>4. b \in Settled + 1 .. written /\ Settled \in Nat /\ written \in Nat
  BY <1>1, PendingInterval, WriteAssumption
     DEF Reached, QueueTypeOK, QueueInterval
<1>5. \A a \in 1 .. b - 1 : a \in committed \/ answer[a] = "rejected"
  <2> TAKE a \in 1 .. b - 1
  <2>1. a \in Batch /\ b \in Nat /\ written <= MaxWrites
    BY <1>4, WriteAssumption DEF Batch, QueueTypeOK
  <2>2. CASE a > Settled
    BY <1>1, <1>4, <2>1, <2>2, PendingInterval DEF Reached
  <2>3. CASE a <= Settled
    BY <1>4, <2>1, <2>3 DEF AckedWasCommitted, QueueTypeOK
  <2> QED
    BY <1>4, <2>1, <2>2, <2>3
<1>6. CommittedInOrder'
  BY <1>1, <1>2, <1>5 DEF CommittedInOrder
<1>7. AckedWasCommitted' /\ RejectedForCause'
  BY <1>1, <1>2 DEF AckedWasCommitted, RejectedForCause
<1>8. (committed \cup refused)' \subseteq 1 .. written'
  BY <1>1, <1>2, <1>4
<1> QED
  BY <1>2, <1>3, <1>6, <1>7, <1>8

LEMMA RefuseKeeps == QueueInv /\ Refuse => QueueInv'
<1> SUFFICES ASSUME QueueInv, Refuse PROVE QueueInv'
  OBVIOUS
<1> USE DEF QueueInv
<1>1. PICK b \in Batch : Reached(b) /\ refused' = refused \cup {b}
  BY DEF Refuse
<1>2. UNCHANGED <<written, queue, committed, answer, Settled>>
  BY DEF Refuse, Settled
<1>3. QueueTypeOK' /\ QueueInterval'
  BY <1>1, <1>2 DEF QueueTypeOK, QueueInterval
<1>4. b \in Settled + 1 .. written /\ Settled \in Nat /\ written \in Nat
  BY <1>1, PendingInterval, WriteAssumption
     DEF Reached, QueueTypeOK, QueueInterval
<1>5. AckedWasCommitted' /\ CommittedInOrder' /\ RejectedForCause'
  BY <1>1, <1>2 DEF AckedWasCommitted, CommittedInOrder, RejectedForCause
<1>6. (committed \cup refused)' \subseteq 1 .. written'
  BY <1>1, <1>2, <1>4
<1> QED
  BY <1>2, <1>3, <1>5, <1>6

(* What is left to show of an answer when the queue loses its head.        *)
LEMMA SettleKeeps ==
    ASSUME QueueInv, NEW how \in {"acked", "rejected"}, Settle(how),
           how = "acked" => Head(queue) \in committed,
           how = "rejected" => \E b \in refused : Reached(b)
    PROVE  QueueInv'
<1> USE DEF QueueInv, Settle
<1>1. /\ queue \in Seq(Batch) /\ Len(queue) \in Nat \ {0}
      /\ Head(queue) = queue[1] /\ Head(queue) \in Batch
  BY DEF QueueTypeOK
<1>2. /\ queue' \in Seq(Batch)
      /\ Len(queue') = Len(queue) - 1
      /\ \A i \in 1 .. Len(queue') : queue'[i] = queue[i + 1]
  BY <1>1
<1>3. /\ Settled \in Nat /\ written \in Nat /\ Settled' = Settled + 1
      /\ Head(queue) = Settled + 1
  BY <1>1, <1>2, WriteAssumption DEF Settled, QueueInterval, QueueTypeOK
<1>4. QueueInterval'
  BY <1>1, <1>2, <1>3 DEF QueueInterval
<1>5. QueueTypeOK'
  BY <1>2 DEF QueueTypeOK
<1>6. \A b \in Batch : answer'[b] = IF b = Settled + 1 THEN how ELSE answer[b]
  BY <1>3 DEF QueueTypeOK
<1>7. \A b \in Batch : answer'[b] = "none" <=> b > Settled'
  BY <1>3, <1>6, WriteAssumption DEF Batch
<1>8. AckedWasCommitted'
  BY <1>1, <1>3, <1>6 DEF AckedWasCommitted
<1>9. CommittedInOrder'
  <2> SUFFICES ASSUME NEW b \in committed, NEW a \in 1 .. b - 1
               PROVE  a \in committed \/ answer'[a] = "rejected"
    BY DEF CommittedInOrder
  <2>1. a \in committed \/ answer[a] = "rejected"
    BY DEF CommittedInOrder
  <2>2. a \in Batch
    BY <1>3, WriteAssumption DEF Batch, QueueTypeOK
  <2>3. CASE a = Settled + 1
    <3>1. answer[a] = "none"
      BY <1>3, <2>2, <2>3
    <3> QED
      BY <2>1, <3>1
  <2>4. CASE a # Settled + 1
    BY <1>6, <2>1, <2>2, <2>4
  <2> QED
    BY <2>3, <2>4
<1>10. RejectedForCause'
  <2> SUFFICES ASSUME NEW b \in Batch, answer'[b] = "rejected"
               PROVE  b \in refused
                         \/ (b \in committed /\ \E c \in refused : c > b)
    BY DEF RejectedForCause
  <2>1. CASE b # Settled + 1
    BY <1>6, <2>1 DEF RejectedForCause
  <2>2. CASE b = Settled + 1
    <3>1. PICK c \in refused : Reached(c)
      BY <1>6, <2>2
    <3>2. c \in Settled + 1 .. written /\ b \in Settled + 1 .. written
      BY <1>1, <1>3, <2>2, <3>1, PendingInterval DEF Reached, Settled
    <3>3. c = b \/ (c > b /\ b \in committed)
      BY <1>3, <2>2, <3>1, <3>2, PendingInterval DEF Reached
    <3> QED
      BY <3>1, <3>3
  <2> QED
    BY <2>1, <2>2
<1> QED
  BY <1>4, <1>5, <1>7, <1>8, <1>9, <1>10

LEMMA QueueStep == QueueInv /\ [QueueNext]_queueVars => QueueInv'
<1> SUFFICES ASSUME QueueInv, [QueueNext]_queueVars PROVE QueueInv'
  OBVIOUS
<1>1. CASE Acknowledge
  BY <1>1, SettleKeeps DEF Acknowledge
<1>2. CASE Reject
  BY <1>2, SettleKeeps DEF Reject
<1>3. CASE UNCHANGED queueVars
  BY <1>3 DEF queueVars, QueueInv, QueueTypeOK, QueueInterval, Settled,
              AckedWasCommitted, CommittedInOrder, RejectedForCause
<1> QED
  BY <1>1, <1>2, <1>3, WriteLocallyKeeps, CommitKeeps, RefuseKeeps
     DEF QueueNext

LEMMA QueueInvariant == QueueSpec => []QueueInv
BY QueueInitially, QueueStep, PTL DEF QueueSpec

-----------------------------------------------------------------------------
(* An acknowledged write has been committed by the backend.                *)
THEOREM QueueAcksCommitted == QueueSpec => []AckedWasCommitted
BY QueueInvariant, PTL DEF QueueInv

(* Writes are committed in the order in which they were made.              *)
THEOREM QueueCommitsInOrder == QueueSpec => []CommittedInOrder
BY QueueInvariant, PTL DEF QueueInv

(* A rejected write was refused, or committed before a refused one.        *)
THEOREM QueueRejectsForCause == QueueSpec => []RejectedForCause
BY QueueInvariant, PTL DEF QueueInv

=============================================================================
