----------------------------- MODULE RemoteStore ----------------------------
(***************************************************************************)
(* How the Firestore client keeps its two streams to the backend, and how  *)
(* the pending writes travel on one of them: remote/remote_store.cc with   *)
(* the streams it owns.  All of it runs on one worker queue, so each       *)
(* handler is one step; tokens, timers, the backend and the end of the     *)
(* process come between them.                                              *)
(*                                                                         *)
(* Left out: what the watch stream carries (the aggregator), the stream    *)
(* token, how long backoffs last, a change of user, and a backend that     *)
(* still takes requests of a stream the client has given up.  A batch is   *)
(* known by its number for good; the code reuses the number of the last    *)
(* batch if the process ends just after it was answered.                   *)
(***************************************************************************)
EXTENDS WriteQueue, Stream, OnlineStateTracker

CONSTANTS
    Capacity,    \* kMaxPendingWrites, 10 in the code
    Targets      \* what the application can listen to

ASSUME RemoteAssumption == Capacity \in Nat \ {0}

VARIABLES
    enabled,     \* is_network_enabled_
    listening,   \* listen_targets_
    watch,       \* watch_stream_
    online,      \* online_state_tracker_
    write,       \* write_stream_
    handshake,   \* its handshake_complete_
    pipeline,    \* write_pipeline_
    wire,        \* requests the backend has not taken, in order
    replies,     \* responses the client has not read, in order
    ending       \* how a refusal ends the write stream, see below

watchVars == <<listening, watch, online>>
callVars == <<handshake, wire, replies, ending>>
vars == <<queueVars, enabled, watchVars, write, pipeline, callVars>>

Hello == 0    \* the handshake, among the batches on the wire

(* A refused request ends the call; it stays at the head of the wire.      *)
(*   "sent"  the status follows the replies the client has not read,       *)
(*   "next"  a Write failed meanwhile, one reply is read before that,      *)
(*   "now"   the failed Write is next: the replies still unread are lost.  *)
Ending == {"no", "sent", "next", "now"}

RemoteTypeOK ==
    /\ QueueTypeOK
    /\ enabled \in BOOLEAN
    /\ listening \in SUBSET Targets
    /\ watch \in Stream
    /\ online \in Tracker
    /\ write \in Stream
    /\ handshake \in BOOLEAN
    /\ pipeline \in Seq(Batch) /\ Len(pipeline) <= Capacity
    /\ wire \in Seq({Hello} \cup Batch)
    /\ replies \in Seq({Hello} \cup Batch)
    /\ ending \in Ending

Init ==
    /\ QueueInit
    /\ enabled = TRUE
    /\ listening = {}
    /\ watch = NewStream
    /\ online = NewTracker
    /\ write = NewStream
    /\ handshake = FALSE
    /\ pipeline = <<>>
    /\ wire = <<>>
    /\ replies = <<>>
    /\ ending = "no"

-----------------------------------------------------------------------------
(* The pipeline.  Batches are numbered as they are queued, so the one      *)
(* after batch id is found by its number (NextMutationBatchAfterBatchId).  *)

\* Mutant of LastRetrieved: the next number is skipped.
LastRetrievedNext(p) == IF p = <<>> THEN 0 ELSE Last(p) + 1

LastRetrieved(p) == IF p = <<>> THEN 0 ELSE Last(p)

UpTo(q, id) ==
    CHOOSE n \in 0 .. Len(q) : \A i \in 1 .. Len(q) : i <= n <=> q[i] <= id

Smaller(m, n) == IF m < n THEN m ELSE n

\* Mutant of Room: one batch too many.
RoomForOneMore(p) == Capacity + 1 - Len(p)

\* CanAddToWritePipeline holds that many times.
Room(p) == Capacity - Len(p)

Filled(q, p) ==
    LET n == UpTo(q, LastRetrieved(p))
    IN  p \o SubSeq(q, n + 1, Smaller(n + Room(p), Len(q)))

Removed(q, b) == RemoveAt(q, CHOOSE i \in 1 .. Len(q) : q[i] = b)

\* Mutant of Restarted: a stream that failed is not started again.
RestartedUnlessFailed(w, p) ==
    IF enabled' /\ w.state = "Initial" /\ p # <<>> THEN Start(w) ELSE w

(* ShouldStartWriteStream, StartWriteStream                                *)
Restarted(w, p) ==
    IF enabled' /\ ~IsStarted(w) /\ p # <<>> THEN Start(w) ELSE w

\* From queue q and pipeline p, with the stream at w and out on the wire.
FillWritePipeline(q, p, w, out) ==
    LET full  == IF enabled' THEN Filled(q, p) ELSE p
        added == SubSeq(full, Len(p) + 1, Len(full))
        live  == IsOpen(w) /\ handshake
    IN  /\ pipeline' = full
        /\ wire' = IF live THEN out \o added ELSE out
        /\ write' = IF full = <<>> /\ enabled' THEN MarkIdle(w)
                    ELSE IF live /\ added # <<>> THEN Write(w)
                    ELSE Restarted(w, full)

(* SyncEngine::WriteMutations                                              *)
WriteMutations ==
    /\ written < MaxWrites
    /\ written' = written + 1
    /\ queue' = Append(queue, written')
    /\ UNCHANGED <<committed, refused, answer, enabled, watchVars,
                   handshake, replies, ending>>
    /\ FillWritePipeline(queue', pipeline, write, wire)

-----------------------------------------------------------------------------
(* The write stream.                                                       *)

\* Mutant of CallOver: handshake_complete_ is not reset.
CallOverKept ==
    /\ handshake' = handshake
    /\ replies' = <<>>
    /\ ending' = "no"

(* What NotifyStreamClose and the end of the call leave.                   *)
CallOver ==
    /\ handshake' = FALSE
    /\ replies' = <<>>
    /\ ending' = "no"

(* OnWriteStreamClose when no write is to blame: the handshake failed, the *)
(* error is transient, or nothing is pending.                              *)
WriteStreamFailed ==
    /\ UNCHANGED <<queueVars, enabled, watchVars, pipeline>>
    /\ CallOver
    /\ wire' = <<>>
    /\ write' = Restarted(Closed(write, "Error"), pipeline)

(* Granted: OnWriteStreamOpen sends the handshake.                         *)
WriteTokenArrives(when) ==
    /\ when \in write.asked
    /\ write' = IF Counts(when) THEN Write(Opened(write))
                                ELSE Answered(write, when)
    /\ wire' = IF Counts(when) THEN <<Hello>> ELSE wire
    /\ UNCHANGED <<queueVars, enabled, watchVars, pipeline, handshake,
                   replies, ending>>

WriteTokenFails ==
    /\ \E when \in write.asked : Counts(when)
    /\ UNCHANGED <<queueVars, enabled, watchVars, pipeline, callVars>>
    /\ write' = Restarted(Closed(Answered(write, "now"), "Error"), pipeline)

WriteBackoffElapses ==
    /\ write.state = "Backoff"
    /\ write' = BackoffElapsed(write)
    /\ UNCHANGED <<queueVars, enabled, watchVars, pipeline, callVars>>

\* Stream::Stop on the write stream.
StopWriteStream ==
    /\ write' = Stop(write)
    /\ wire' = <<>>
    /\ CallOver

WriteIdles ==
    /\ write.idle
    /\ StopWriteStream
    /\ UNCHANGED <<queueVars, enabled, watchVars, pipeline>>

WriteStreamBreaks ==
    /\ IsOpen(write)
    /\ WriteStreamFailed

-----------------------------------------------------------------------------
(* The backend takes the requests of a call in order until it refuses one. *)

AcceptHandshake ==
    /\ wire # <<>> /\ Head(wire) = Hello
    /\ replies' = Append(replies, Hello)
    /\ wire' = Tail(wire)
    /\ UNCHANGED <<queueVars, enabled, watchVars, write, pipeline, handshake,
                   ending>>

MayTake == wire # <<>> /\ Head(wire) # Hello /\ ending = "no"

CommitWrite ==
    /\ MayTake
    /\ committed' = committed \cup {Head(wire)}
    /\ replies' = Append(replies, Head(wire))
    /\ wire' = Tail(wire)
    /\ UNCHANGED <<written, queue, refused, answer, enabled, watchVars, write,
                   pipeline, handshake, ending>>

RefuseWrite ==
    /\ MayTake
    /\ refused' = refused \cup {Head(wire)}
    /\ ending' = "sent"
    /\ UNCHANGED <<written, queue, committed, answer, enabled, watchVars,
                   write, pipeline, handshake, wire, replies>>

(* A request written after the refused one finds the call over.  The reply *)
(* that the outstanding Read of GrpcStream has got by then comes first.    *)
LaterWriteFails ==
    /\ ending = "sent"
    /\ Len(wire) > 1
    /\ ending' = IF replies = <<>> THEN "now" ELSE "next"
    /\ UNCHANGED <<queueVars, enabled, watchVars, write, pipeline, handshake,
                   wire, replies>>

-----------------------------------------------------------------------------
(* What the client reads on the write stream.                              *)

Reading ==
    /\ replies # <<>>
    /\ ending # "now"
    /\ replies' = Tail(replies)
    /\ ending' = IF ending = "next" THEN "now" ELSE ending

\* Mutant of IsWriteResult: the handshake's response counts as a write's.
IsAnyResult == pipeline # <<>>

(* The first response of a call is the handshake's.                        *)
IsWriteResult == handshake

\* OnWriteStreamHandshakeComplete: the pipeline is sent.
HandshakeCompletes ==
    /\ ~IsWriteResult
    /\ Reading
    /\ handshake' = TRUE
    /\ wire' = wire \o pipeline
    /\ write' = IF pipeline = <<>> THEN write ELSE Write(write)
    /\ UNCHANGED <<queueVars, enabled, watchVars, pipeline>>

\* HandleSuccessfulWrite or HandleRejectedWrite for the oldest batch of the
\* pipeline, which is then filled, with the stream at w and out on the wire.
AnswerWrite(how, w, out) ==
    /\ answer' = [answer EXCEPT ![Head(pipeline)] = how]
    /\ queue' = Removed(queue, Head(pipeline))
    /\ FillWritePipeline(queue', Tail(pipeline), w, out)

(* OnWriteStreamMutationResult: whatever was committed, the oldest batch   *)
(* of the pipeline is acknowledged.                                        *)
MutationResult ==
    /\ IsWriteResult
    /\ Reading
    /\ UNCHANGED <<written, committed, refused, enabled, watchVars, handshake>>
    /\ AnswerWrite("acked", write, wire)

\* Mutant of StatusArrives: every error counts as a permanent one.
AnyStatusArrives == handshake /\ pipeline # <<>>

(* The status of a refusal is read: OnStreamFinish.                        *)
StatusArrives == ending = "now" \/ (ending = "sent" /\ replies = <<>>)

(* OnWriteStreamClose with a permanent error: HandleWriteError.  The       *)
(* refused batch is on the wire, so the handshake is complete and the      *)
(* pipeline is not empty.                                                  *)
WriteStreamRefused ==
    /\ StatusArrives
    /\ CallOver
    /\ UNCHANGED <<written, committed, refused, enabled, watchVars>>
    /\ AnswerWrite("rejected", InhibitBackoff(Closed(write, "Error")), <<>>)

-----------------------------------------------------------------------------
(* The watch stream, and what its state says of the connection.            *)

StartWatchStream(w, o) ==
    /\ watch' = Start(w)
    /\ online' = HandleWatchStreamStart(o)

NeedsWatch(w, targets) == enabled /\ targets # {} /\ ~IsStarted(w)

\* OnWatchStreamClose with an error.
WatchStreamFailed(w) ==
    IF NeedsWatch(Closed(w, "Error"), listening)
    THEN StartWatchStream(Closed(w, "Error"), HandleWatchStreamFailure(online))
    ELSE /\ watch' = Closed(w, "Error")
         /\ online' = UpdateState(online, "Unknown")

\* What the actions on the watch stream leave alone.
OthersUnchanged == UNCHANGED <<queueVars, write, pipeline, callVars>>

Listen(t) ==
    /\ t \notin listening
    /\ listening' = listening \cup {t}
    /\ IF NeedsWatch(watch, listening')
       THEN StartWatchStream(watch, online)
       ELSE /\ watch' = IF IsOpen(watch) THEN Write(watch) ELSE watch
            /\ UNCHANGED online
    /\ OthersUnchanged /\ UNCHANGED enabled

(* SendUnwatchRequest stops the idle timer before MarkIdle starts it.      *)
StopListening(t) ==
    /\ t \in listening
    /\ listening' = listening \ {t}
    /\ watch' = IF ~IsOpen(watch) THEN watch
                ELSE IF listening' = {} THEN MarkIdle(Write(watch))
                ELSE Write(watch)
    /\ online' = IF listening' = {} /\ ~IsOpen(watch) /\ enabled
                 THEN UpdateState(online, "Unknown") ELSE online
    /\ OthersUnchanged /\ UNCHANGED enabled

(* Granted: OnWatchStreamOpen sends a request for each target.             *)
WatchTokenArrives(when) ==
    /\ when \in watch.asked
    /\ watch' = IF Counts(when) THEN Opened(watch) ELSE Answered(watch, when)
    /\ OthersUnchanged /\ UNCHANGED <<enabled, listening, online>>

WatchTokenFails ==
    /\ \E when \in watch.asked : Counts(when)
    /\ WatchStreamFailed(Answered(watch, "now"))
    /\ OthersUnchanged /\ UNCHANGED <<enabled, listening>>

WatchBackoffElapses ==
    /\ watch.state = "Backoff"
    /\ watch' = BackoffElapsed(watch)
    /\ OthersUnchanged /\ UNCHANGED <<enabled, listening, online>>

WatchIdles ==
    /\ watch.idle
    /\ watch' = Stop(watch)
    /\ online' = UpdateState(online, "Unknown")
    /\ OthersUnchanged /\ UNCHANGED <<enabled, listening>>

WatchStreamBreaks ==
    /\ IsOpen(watch)
    /\ WatchStreamFailed(watch)
    /\ OthersUnchanged /\ UNCHANGED <<enabled, listening>>

(* OnWatchStreamChange, whatever the change.                               *)
WatchChange ==
    /\ IsOpen(watch)
    /\ online' = UpdateState(online, "Online")
    /\ OthersUnchanged /\ UNCHANGED <<enabled, listening, watch>>

(* ProcessTargetError: the target goes; the stream is not marked idle.     *)
ListenRejected(t) ==
    /\ IsOpen(watch)
    /\ t \in listening
    /\ listening' = listening \ {t}
    /\ online' = UpdateState(online, "Online")
    /\ OthersUnchanged /\ UNCHANGED <<enabled, watch>>

OnlineTimerElapses ==
    /\ online.timer
    /\ online' = TimerElapsed(online)
    /\ OthersUnchanged /\ UNCHANGED <<enabled, listening, watch>>

-----------------------------------------------------------------------------
(* The network as a whole.                                                 *)

\* EnableNetwork, from the watch stream w, the tracker o, the write stream
\* v and the pipeline p.
Enable(w, o, v, p, out) ==
    /\ enabled' = TRUE
    /\ IF listening' # {} /\ ~IsStarted(w)
       THEN StartWatchStream(w, o)
       ELSE watch' = w /\ online' = UpdateState(o, "Unknown")
    /\ FillWritePipeline(queue, p, v, out)

(* Also called by the application while the network is enabled.            *)
EnableNetwork ==
    /\ UNCHANGED <<queueVars, listening, handshake, replies, ending>>
    /\ Enable(watch, online, write, pipeline, wire)

DisableNetwork ==
    /\ enabled' = FALSE
    /\ watch' = Stop(watch)
    /\ online' = UpdateState(online, "Offline")
    /\ StopWriteStream
    /\ pipeline' = <<>>
    /\ UNCHANGED <<queueVars, listening>>

(* Both streams are stopped and started anew, for a fresh token.           *)
HandleCredentialChange ==
    /\ enabled
    /\ UNCHANGED <<queueVars, listening>>
    /\ CallOver
    /\ Enable(Stop(watch), UpdateState(online, "Unknown"), Stop(write),
              <<>>, <<>>)

(* The process ends and starts again: the queue is on disk.                *)
Relaunch ==
    /\ listening' = {}
    /\ UNCHANGED queueVars
    /\ CallOver
    /\ Enable(NewStream, NewTracker, NewStream, <<>>, <<>>)

-----------------------------------------------------------------------------
Application ==
    \/ WriteMutations
    \/ \E t \in Targets : Listen(t) \/ StopListening(t)
    \/ EnableNetwork
    \/ DisableNetwork

Process == HandleCredentialChange \/ Relaunch

Faults == WriteTokenFails \/ WriteStreamBreaks
             \/ WatchTokenFails \/ WatchStreamBreaks

Timers == WriteBackoffElapses \/ WatchBackoffElapses
             \/ WriteIdles \/ WatchIdles \/ OnlineTimerElapses

Auth == \E when \in {"now", "before"} :
            WriteTokenArrives(when) \/ WatchTokenArrives(when)

TakeWrite == CommitWrite \/ RefuseWrite

Backend ==
    \/ AcceptHandshake
    \/ TakeWrite
    \/ LaterWriteFails
    \/ WatchChange
    \/ \E t \in Targets : ListenRejected(t)

Responses == HandshakeCompletes \/ MutationResult \/ WriteStreamRefused

Next == Application \/ Process \/ Faults \/ Timers \/ Auth \/ Backend
           \/ Responses

Spec == Init /\ [][Next]_vars

(* What the rest of the system owes the client once nothing fails: tokens  *)
(* and timers come, and the backend takes what it is sent.                 *)
WriteServed ==
    \/ WriteBackoffElapses
    \/ WriteTokenArrives("now")
    \/ AcceptHandshake
    \/ TakeWrite

WatchProgress == WatchBackoffElapses \/ WatchTokenArrives("now")

(* GrpcStream has a Read outstanding at all times, so what has arrived is  *)
(* read whether or not the backend goes on taking requests.                *)
FairSpec == Spec /\ WF_vars(WriteServed) /\ WF_vars(Responses)

(* An application that leaves the network enabled, as RNDM does; what the  *)
(* state of the connection depends on is fair.                             *)
EnabledSpec ==
    /\ Init /\ [][Next /\ ~EnableNetwork]_vars
    /\ WF_vars(WatchProgress)
    /\ WF_vars(OnlineTimerElapses)

-----------------------------------------------------------------------------
(* While the network is enabled the pipeline holds the oldest pending      *)
(* writes, as many as it can, and a stream that is needed is under way:    *)
(* nothing waits for a later call to fill or start it.                     *)
NothingStalls ==
    IF enabled
    THEN /\ pipeline = SubSeq(queue, 1, Smaller(Capacity, Len(queue)))
         /\ pipeline # <<>> => IsStarted(write)
         /\ listening # {} => IsStarted(watch)
    ELSE pipeline = <<>> /\ ~IsStarted(write) /\ ~IsStarted(watch)

(* Each batch of the pipeline is sent exactly once on a call, in order, so *)
(* the next response is for the oldest batch ("correlated to the first     *)
(* write in our write pipeline"); before that only the handshake travels.  *)
RepliesMatchPipeline ==
    replies \o wire = IF ~IsOpen(write) THEN <<>>
                      ELSE IF handshake THEN pipeline
                      ELSE <<Hello>>

(* The idle timer only stops a stream that nobody needs, as                *)
(* OnWatchStreamClose and OnWriteStreamClose assert of a graceful stop.    *)
IdleStreamsAreUnneeded ==
    /\ write.idle => IsOpen(write) /\ pipeline = <<>>
    /\ watch.idle => IsOpen(watch) /\ listening = {}

(* A token that counts finds its stream still Starting, and a stream that  *)
(* is Starting has one to come (ResumeStartWithCredentials asserts the     *)
(* first; without the second the stream would stay as it is).              *)
TokensMeetTheirStart ==
    \A s \in {write, watch} :
        (s.state = "Starting") <=> (\E when \in s.asked : Counts(when))

(* What OnlineStateTracker asserts: its timer runs only in state Unknown,  *)
(* before any failure and for a stream under way; online, nothing failed.  *)
TrackerAsserts ==
    /\ online.timer => online.state = "Unknown" /\ ~online.failed
                         /\ IsStarted(watch)
    /\ online.state = "Online" => ~online.failed

(* The streams, the pipeline and the retries give the write queue that     *)
(* module WriteQueue describes.                                            *)
ImplementsQueue == QueueSpec

WriteDisturbed ==
    \/ WriteTokenFails
    \/ WriteStreamBreaks
    \/ DisableNetwork
    \/ Process

(* Once the network is enabled for good and the write stream fails no      *)
(* more, every write is answered, whatever the watch stream does.          *)
WritesAreAnswered ==
    (<>[]enabled /\ <>[][~WriteDisturbed]_vars) => []<>(queue = <<>>)

(* online_state_tracker.cc:45: the state does not stay Unknown             *)
(* indefinitely while the network is enabled and something is listened to. *)
UnknownIsResolved ==
    (<>[](enabled /\ listening # {}) /\ <>[][~(Application \/ Process)]_vars)
        => []<>(online.state # "Unknown")

=============================================================================
