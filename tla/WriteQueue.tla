----------------------------- MODULE WriteQueue -----------------------------
(***************************************************************************)
(* What the Firestore client promises of the writes it was given: it keeps *)
(* them in order, the backend commits them in that order and possibly more *)
(* than once, and each is answered once, the oldest first.  RemoteStore    *)
(* shows how streams, a pipeline and retries provide this.                 *)
(***************************************************************************)
EXTENDS Integers, Sequences, SequencesExt

CONSTANT MaxWrites    \* bound on the writes

ASSUME WriteAssumption == MaxWrites \in Nat

Batch == 1 .. MaxWrites

VARIABLES
    written,    \* the number of batches written so far
    queue,      \* the mutation queue: written and not yet answered
    committed,  \* batches the backend has committed at least once
    refused,    \* batches the backend has refused
    answer      \* what the client learnt of each batch

queueVars == <<written, queue, committed, refused, answer>>

QueueTypeOK ==
    /\ written \in 0 .. MaxWrites
    /\ queue \in Seq(Batch)
    /\ committed \in SUBSET Batch
    /\ refused \in SUBSET Batch
    /\ answer \in [Batch -> {"none", "acked", "rejected"}]

QueueInit ==
    /\ written = 0
    /\ queue = <<>>
    /\ committed = {}
    /\ refused = {}
    /\ answer = [b \in Batch |-> "none"]

-----------------------------------------------------------------------------
Pending == ToSet(queue)

\* Every pending batch before b has been committed.
Reached(b) == b \in Pending /\ \A a \in Pending : a < b => a \in committed

WriteLocally ==
    /\ written < MaxWrites
    /\ written' = written + 1
    /\ queue' = Append(queue, written + 1)
    /\ UNCHANGED <<committed, refused, answer>>

Commit ==
    \E b \in Batch :
        /\ Reached(b)
        /\ committed' = committed \cup {b}
        /\ UNCHANGED <<written, queue, refused, answer>>

Refuse ==
    \E b \in Batch :
        /\ Reached(b)
        /\ refused' = refused \cup {b}
        /\ UNCHANGED <<written, queue, committed, answer>>

\* The oldest batch leaves the queue.
Settle(how) ==
    /\ queue # <<>>
    /\ queue' = Tail(queue)
    /\ answer' = [answer EXCEPT ![Head(queue)] = how]
    /\ UNCHANGED <<written, committed, refused>>

Acknowledge == Settle("acked") /\ Head(queue) \in committed

(* A refusal rejects the oldest batch: the refused one, or one that was    *)
(* committed just before it.                                               *)
Reject ==
    /\ Settle("rejected")
    /\ \E b \in refused : Reached(b)

QueueNext == WriteLocally \/ Commit \/ Refuse \/ Acknowledge \/ Reject

QueueSpec == QueueInit /\ [][QueueNext]_queueVars

-----------------------------------------------------------------------------
(* A write is acknowledged only when it has been committed.                *)
AckedWasCommitted == \A b \in Batch : answer[b] = "acked" => b \in committed

(* No write overtakes an earlier one: when one is committed, those written *)
(* before it are committed too, or have been rejected.                     *)
CommittedInOrder ==
    \A b \in committed : \A a \in 1 .. b - 1 :
        a \in committed \/ answer[a] = "rejected"

(* A rejected write was refused, or it was committed and a later one was   *)
(* refused while the answer to it was under way: HandleWriteError blames   *)
(* the oldest write of the pipeline, "the request itself was the problem". *)
RejectedForCause ==
    \A b \in Batch : answer[b] = "rejected" =>
        b \in refused \/ (b \in committed /\ \E c \in refused : c > b)

=============================================================================
