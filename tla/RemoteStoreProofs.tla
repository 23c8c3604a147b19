-------------------------- MODULE RemoteStoreProofs -------------------------
(***************************************************************************)
(* Proofs about RemoteStore, for any number of writes, any capacity of the *)
(* pipeline and any targets.                                               *)
(***************************************************************************)
EXTENDS RemoteStore, WriteQueueProofs

(* A stream whose idle timer runs only while it is open, and that is       *)
(* Starting exactly while a token that counts is to come.                  *)
Sound(s) ==
    /\ s \in Stream
    /\ s.state = "Starting" <=> \E when \in s.asked : Counts(when)
    /\ s.idle => IsOpen(s)

(* The tracker's part of what it asserts.                                  *)
TrackerOK(o) ==
    /\ o \in Tracker
    /\ o.timer => o.state = "Unknown" /\ ~o.failed
    /\ o.state = "Online" => ~o.failed

WatchState ==
    /\ Sound(watch)
    /\ TrackerOK(online)
    /\ online.timer => IsStarted(watch)

WatchInv ==
    /\ WatchState
    /\ enabled \in BOOLEAN
    /\ listening \in SUBSET Targets
    /\ watch.idle => listening = {}
    /\ enabled /\ listening # {} => IsStarted(watch)
    /\ ~enabled => ~IsStarted(watch)

Request == {Hello} \cup Batch

WriteInv ==
    /\ enabled \in BOOLEAN
    /\ Sound(write)
    /\ handshake \in BOOLEAN /\ (handshake => IsOpen(write))
    /\ pipeline = IF enabled THEN SubSeq(queue, 1, Smaller(Capacity, Len(queue)))
                             ELSE <<>>
    /\ wire \in Seq(Request) /\ replies \in Seq(Request)
    /\ RepliesMatchPipeline
    /\ handshake => \A i \in 1 .. Len(replies) : replies[i] \in committed
    /\ ending \in Ending
    /\ ending # "no" => handshake /\ wire # <<>> /\ Head(wire) \in refused
    /\ enabled /\ pipeline # <<>> => IsStarted(write)
    /\ ~enabled => ~IsStarted(write)
    /\ IsStarted(write) /\ ~handshake => pipeline # <<>>
    /\ write.idle => pipeline = <<>>

RemoteInv == QueueInv /\ WriteInv

-----------------------------------------------------------------------------
(* The operations of a stream.                                             *)

LEMMA StreamOperations ==
    ASSUME NEW s, Sound(s)
    PROVE  /\ ~IsStarted(s) => /\ Sound(Start(s))
                              /\ IsStarted(Start(s)) /\ ~IsOpen(Start(s))
           /\ \A e \in {"Initial", "Error"} :
                  Sound(Closed(s, e)) /\ ~IsStarted(Closed(s, e))
           /\ Sound(Stop(s)) /\ ~IsStarted(Stop(s))
           /\ Sound(MarkIdle(s)) /\ MarkIdle(s).state = s.state
           /\ Sound(Write(s)) /\ Write(s).state = s.state /\ ~Write(s).idle
           /\ ~IsStarted(s) => /\ Sound(InhibitBackoff(s))
                              /\ ~IsStarted(InhibitBackoff(s))
BY DEF Sound, Stream, StreamState, IsOpen, IsStarted, Start, Closed, Stop,
       MarkIdle, Write, InhibitBackoff, RequestCredentials, Counts

LEMMA NewStreamSound == Sound(NewStream) /\ ~IsStarted(NewStream)
BY DEF Sound, Stream, StreamState, IsOpen, IsStarted, NewStream, Counts

(* A token, or the end of a backoff.                                       *)
LEMMA StreamResumes ==
    ASSUME NEW s, Sound(s)
    PROVE  /\ \A when \in s.asked : Counts(when) =>
                 /\ s.state = "Starting"
                 /\ Sound(Opened(s)) /\ IsOpen(Opened(s)) /\ ~Opened(s).idle
                 /\ \A e \in {"Initial", "Error"} :
                       /\ Sound(Closed(Answered(s, "now"), e))
                       /\ ~IsStarted(Closed(Answered(s, "now"), e))
           /\ \A when \in s.asked : ~Counts(when) =>
                 /\ Sound(Answered(s, when))
                 /\ Answered(s, when).state = s.state
                 /\ Answered(s, when).idle = s.idle
           /\ s.state = "Backoff" => /\ Sound(BackoffElapsed(s))
                                    /\ IsStarted(BackoffElapsed(s))
                                    /\ ~IsOpen(BackoffElapsed(s))
BY DEF Sound, Stream, StreamState, IsOpen, IsStarted, Closed, Opened, Answered,
       BackoffElapsed, RequestCredentials, Counts

(* The tracker's operations keep what it asserts.                          *)
LEMMA TrackerOperations ==
    ASSUME NEW o, TrackerOK(o)
    PROVE  /\ \A state \in OnlineState :
                 /\ TrackerOK(UpdateState(o, state))
                 /\ ~UpdateState(o, state).timer
           /\ TrackerOK(HandleWatchStreamStart(o))
           /\ TrackerOK(HandleWatchStreamFailure(o))
           /\ TrackerOK(TimerElapsed(o)) /\ ~TimerElapsed(o).timer
BY DEF TrackerOK, Tracker, OnlineState, UpdateState, HandleWatchStreamStart,
       HandleWatchStreamFailure, TimerElapsed

-----------------------------------------------------------------------------
(* The watch stream.                                                       *)

LEMMA WatchInitially == Init => WatchInv
BY DEF Init, WatchInv, WatchState, TrackerOK, Sound, Stream, StreamState,
       NewStream, NewTracker, Tracker, OnlineState, IsOpen, IsStarted, Counts

LEMMA StartWatchKeeps ==
    ASSUME NEW w, NEW o, Sound(w), ~IsStarted(w), TrackerOK(o),
           StartWatchStream(w, o)
    PROVE  WatchState' /\ IsStarted(watch') /\ ~watch'.idle
BY StreamOperations, TrackerOperations
   DEF StartWatchStream, WatchState, Sound

LEMMA WatchFailureKeeps ==
    ASSUME NEW w, WatchInv, Sound(Closed(w, "Error")),
           ~IsStarted(Closed(w, "Error")),
           WatchStreamFailed(w), UNCHANGED <<enabled, listening>>
    PROVE  WatchInv'
<1> DEFINE c == Closed(w, "Error")
<1>1. TrackerOK(online) /\ TrackerOK(HandleWatchStreamFailure(online))
  BY TrackerOperations DEF WatchInv, WatchState
<1>2. CASE NeedsWatch(c, listening)
  <2>1. StartWatchStream(c, HandleWatchStreamFailure(online))
    BY <1>2 DEF WatchStreamFailed
  <2>2. WatchState' /\ IsStarted(watch') /\ ~watch'.idle
    BY <1>1, <2>1, StartWatchKeeps
  <2> QED
    BY <1>2, <2>2 DEF NeedsWatch, WatchInv
<1>3. CASE ~NeedsWatch(c, listening)
  <2>1. watch' = c /\ online' = UpdateState(online, "Unknown")
    BY <1>3 DEF WatchStreamFailed
  <2>2. TrackerOK(online') /\ ~online'.timer
    BY <1>1, <2>1, TrackerOperations DEF OnlineState
  <2>3. ~c.idle
    BY DEF Closed
  <2> QED
    BY <1>3, <2>1, <2>2, <2>3 DEF NeedsWatch, WatchInv, WatchState
<1> QED
  BY <1>2, <1>3

LEMMA ListenKeeps ==
    ASSUME WatchInv, NEW t \in Targets, Listen(t)
    PROVE  WatchInv'
<1>1. UNCHANGED enabled /\ listening' = listening \cup {t}
  BY DEF Listen
<1>2. CASE NeedsWatch(watch, listening')
  <2>1. StartWatchStream(watch, online) /\ ~IsStarted(watch) /\ enabled
    BY <1>2 DEF Listen, NeedsWatch
  <2>2. WatchState' /\ IsStarted(watch') /\ ~watch'.idle
    BY <2>1, StartWatchKeeps DEF WatchInv, WatchState
  <2> QED
    BY <1>1, <2>1, <2>2 DEF WatchInv
<1>3. CASE ~NeedsWatch(watch, listening')
  <2>1. /\ watch' = IF IsOpen(watch) THEN Write(watch) ELSE watch
        /\ online' = online
    BY <1>3 DEF Listen
  <2>2. /\ Sound(watch') /\ ~watch'.idle
        /\ IsStarted(watch') <=> IsStarted(watch)
    BY <2>1, StreamOperations DEF WatchInv, WatchState, Sound, IsStarted, IsOpen
  <2> QED
    BY <1>1, <1>3, <2>1, <2>2 DEF WatchInv, WatchState, NeedsWatch
<1> QED
  BY <1>2, <1>3

LEMMA StopListeningKeeps ==
    ASSUME WatchInv, NEW t \in Targets, StopListening(t)
    PROVE  WatchInv'
<1>1. UNCHANGED enabled /\ listening' = listening \ {t}
  BY DEF StopListening
<1>2. Sound(Write(watch)) /\ Sound(watch)
  BY StreamOperations DEF WatchInv, WatchState
<1>3. /\ Sound(watch')
      /\ IsStarted(watch') <=> IsStarted(watch)
      /\ watch'.idle => listening' = {}
  <2>1. CASE ~IsOpen(watch)
    BY <1>2, <2>1 DEF StopListening, Sound
  <2>2. CASE IsOpen(watch) /\ listening' = {}
    <3>1. watch' = MarkIdle(Write(watch))
      BY <2>2 DEF StopListening
    <3>2. Sound(watch') /\ watch'.state = watch.state
      BY <1>2, <3>1, StreamOperations
    <3> QED
      BY <2>2, <3>2 DEF IsStarted
  <2>3. CASE IsOpen(watch) /\ listening' # {}
    <3>1. watch' = Write(watch)
      BY <2>3 DEF StopListening
    <3>2. Sound(watch') /\ watch'.state = watch.state /\ ~watch'.idle
      BY <1>2, <3>1, StreamOperations
    <3> QED
      BY <3>2 DEF IsStarted
  <2> QED
    BY <2>1, <2>2, <2>3
<1>4. TrackerOK(online') /\ (online'.timer => online.timer)
  BY TrackerOperations DEF StopListening, WatchInv, WatchState, OnlineState
<1> QED
  BY <1>1, <1>3, <1>4 DEF WatchInv, WatchState

LEMMA WatchTokenKeeps ==
    ASSUME WatchInv, NEW when, WatchTokenArrives(when)
    PROVE  WatchInv'
<1>1. when \in watch.asked /\ Sound(watch)
  BY DEF WatchTokenArrives, WatchInv, WatchState
<1>2. UNCHANGED <<enabled, listening, online>>
  BY DEF WatchTokenArrives
<1>3. CASE Counts(when)
  <2>1. watch' = Opened(watch) /\ watch.state = "Starting"
    BY <1>1, <1>3, StreamResumes DEF WatchTokenArrives
  <2>2. Sound(watch') /\ IsOpen(watch') /\ ~watch'.idle
    BY <1>1, <1>3, <2>1, StreamResumes
  <2> QED
    BY <1>2, <2>1, <2>2 DEF WatchInv, WatchState, IsOpen, IsStarted
<1>4. CASE ~Counts(when)
  <2>1. watch' = Answered(watch, when)
    BY <1>4 DEF WatchTokenArrives
  <2>2. /\ Sound(watch') /\ watch'.state = watch.state
        /\ watch'.idle = watch.idle
    BY <1>1, <1>4, <2>1, StreamResumes
  <2> QED
    BY <1>2, <2>2 DEF WatchInv, WatchState, IsStarted
<1> QED
  BY <1>3, <1>4

LEMMA WatchTokenFailsKeeps == WatchInv /\ WatchTokenFails => WatchInv'
<1> SUFFICES ASSUME WatchInv, WatchTokenFails PROVE WatchInv'
  OBVIOUS
<1>1. PICK when \in watch.asked : Counts(when)
  BY DEF WatchTokenFails
<1>2. /\ Sound(Closed(Answered(watch, "now"), "Error"))
      /\ ~IsStarted(Closed(Answered(watch, "now"), "Error"))
  BY <1>1, StreamResumes DEF WatchInv, WatchState
<1> QED
  BY <1>2, WatchFailureKeeps DEF WatchTokenFails

LEMMA WatchBreaksKeeps == WatchInv /\ WatchStreamBreaks => WatchInv'
<1> SUFFICES ASSUME WatchInv, WatchStreamBreaks PROVE WatchInv'
  OBVIOUS
<1>1. /\ Sound(Closed(watch, "Error"))
      /\ ~IsStarted(Closed(watch, "Error"))
  BY StreamOperations DEF WatchInv, WatchState
<1> QED
  BY <1>1, WatchFailureKeeps DEF WatchStreamBreaks

LEMMA WatchTimersKeep ==
    ASSUME WatchInv, WatchBackoffElapses \/ WatchIdles \/ OnlineTimerElapses
    PROVE  WatchInv'
<1>1. Sound(watch) /\ TrackerOK(online)
  BY DEF WatchInv, WatchState
<1>2. CASE WatchBackoffElapses
  <2>1. Sound(watch') /\ IsStarted(watch') /\ ~watch'.idle
    BY <1>1, <1>2, StreamResumes DEF WatchBackoffElapses, Sound
  <2>2. IsStarted(watch) /\ UNCHANGED <<enabled, listening, online>>
    BY <1>2 DEF WatchBackoffElapses, IsStarted
  <2> QED
    BY <2>1, <2>2 DEF WatchInv, WatchState
<1>3. CASE WatchIdles
  <2>1. Sound(watch') /\ ~IsStarted(watch')
    BY <1>1, <1>3, StreamOperations DEF WatchIdles
  <2>2. TrackerOK(online') /\ ~online'.timer
    BY <1>1, <1>3, TrackerOperations DEF WatchIdles, OnlineState
  <2>3. listening = {} /\ UNCHANGED <<enabled, listening>>
    BY <1>3 DEF WatchIdles, WatchInv
  <2> QED
    BY <2>1, <2>2, <2>3 DEF WatchInv, WatchState
<1>4. CASE OnlineTimerElapses
  BY <1>1, <1>4, TrackerOperations
     DEF OnlineTimerElapses, WatchInv, WatchState
<1> QED
  BY <1>2, <1>3, <1>4

LEMMA WatchRepliesKeep ==
    ASSUME WatchInv, WatchChange \/ \E t \in Targets : ListenRejected(t)
    PROVE  WatchInv'
<1>1. /\ online' = UpdateState(online, "Online")
      /\ UNCHANGED <<enabled, watch>> /\ listening' \subseteq listening
  BY DEF WatchChange, ListenRejected
<1>2. TrackerOK(online') /\ ~online'.timer
  BY <1>1, TrackerOperations DEF OnlineState, WatchInv, WatchState
<1> QED
  BY <1>1, <1>2 DEF WatchInv, WatchState

(* EnableNetwork leaves the watch stream as it should be.                  *)
LEMMA EnableKeepsWatch ==
    ASSUME NEW w, NEW o, NEW v, NEW p, NEW out,
           Sound(w), TrackerOK(o), listening' \in SUBSET Targets,
           w.idle => listening' = {},
           Enable(w, o, v, p, out)
    PROVE  WatchInv'
<1>1. enabled' = TRUE
  BY DEF Enable
<1>2. CASE listening' # {} /\ ~IsStarted(w)
  <2>1. StartWatchStream(w, o)
    BY <1>2 DEF Enable
  <2>2. WatchState' /\ IsStarted(watch') /\ ~watch'.idle
    BY <1>2, <2>1, StartWatchKeeps
  <2> QED
    BY <1>1, <2>2 DEF WatchInv
<1>3. CASE ~(listening' # {} /\ ~IsStarted(w))
  <2>1. watch' = w /\ online' = UpdateState(o, "Unknown")
    BY <1>3 DEF Enable
  <2>2. TrackerOK(online') /\ ~online'.timer
    BY <2>1, TrackerOperations DEF OnlineState
  <2> QED
    BY <1>1, <1>3, <2>1, <2>2 DEF WatchInv, WatchState
<1> QED
  BY <1>2, <1>3

LEMMA NetworkKeepsWatch ==
    ASSUME WatchInv,
           EnableNetwork \/ DisableNetwork \/ HandleCredentialChange \/ Relaunch
    PROVE  WatchInv'
<1>1. Sound(watch) /\ TrackerOK(online) /\ listening \in SUBSET Targets
  BY DEF WatchInv, WatchState
<1>2. CASE EnableNetwork
  BY <1>1, <1>2, EnableKeepsWatch DEF EnableNetwork, WatchInv
<1>3. CASE DisableNetwork
  <2>1. Sound(watch') /\ ~IsStarted(watch') /\ ~watch'.idle
    BY <1>1, <1>3, StreamOperations
       DEF DisableNetwork, Sound, IsOpen, IsStarted
  <2>2. TrackerOK(online') /\ ~online'.timer
    BY <1>1, <1>3, TrackerOperations DEF DisableNetwork, OnlineState
  <2> QED
    BY <1>1, <1>3, <2>1, <2>2 DEF DisableNetwork, WatchInv, WatchState
<1>4. CASE HandleCredentialChange
  <2>1. Sound(Stop(watch)) /\ ~Stop(watch).idle
    BY <1>1, StreamOperations DEF Sound, IsOpen, IsStarted
  <2>2. TrackerOK(UpdateState(online, "Unknown"))
    BY <1>1, TrackerOperations DEF OnlineState
  <2> QED
    BY <1>1, <1>4, <2>1, <2>2, EnableKeepsWatch DEF HandleCredentialChange
<1>5. CASE Relaunch
  <2>1. TrackerOK(NewTracker) /\ ~NewStream.idle
    BY DEF TrackerOK, Tracker, OnlineState, NewTracker, NewStream
  <2> QED
    BY <1>5, <2>1, NewStreamSound, EnableKeepsWatch DEF Relaunch
<1> QED
  BY <1>2, <1>3, <1>4, <1>5

LEMMA OthersKeepWatch ==
    ASSUME WatchInv, UNCHANGED <<enabled, watchVars>>
    PROVE  WatchInv'
BY DEF watchVars, WatchInv, WatchState

LEMMA WatchStep == WatchInv /\ [Next]_vars => WatchInv'
<1> SUFFICES ASSUME WatchInv, [Next]_vars PROVE WatchInv'
  OBVIOUS
<1>1. CASE \E t \in Targets : Listen(t) \/ StopListening(t)
  BY <1>1, ListenKeeps, StopListeningKeeps
<1>2. CASE WatchTokenFails \/ WatchStreamBreaks
  BY <1>2, WatchTokenFailsKeeps, WatchBreaksKeeps
<1>3. CASE WatchBackoffElapses \/ WatchIdles \/ OnlineTimerElapses
  BY <1>3, WatchTimersKeep
<1>4. CASE \E when \in {"now", "before"} : WatchTokenArrives(when)
  BY <1>4, WatchTokenKeeps
<1>5. CASE WatchChange \/ \E t \in Targets : ListenRejected(t)
  BY <1>5, WatchRepliesKeep
<1>6. CASE EnableNetwork \/ DisableNetwork \/ HandleCredentialChange \/ Relaunch
  BY <1>6, NetworkKeepsWatch
<1>7. CASE WriteMutations \/ WriteTokenFails \/ WriteStreamBreaks
              \/ WriteBackoffElapses \/ WriteIdles
              \/ \E when \in {"now", "before"} : WriteTokenArrives(when)
  BY <1>7, OthersKeepWatch
     DEF WriteMutations, WriteTokenFails, WriteStreamBreaks, WriteStreamFailed,
         WriteBackoffElapses, WriteIdles, WriteTokenArrives
<1>8. CASE AcceptHandshake \/ TakeWrite \/ LaterWriteFails \/ Responses
  BY <1>8, OthersKeepWatch
     DEF AcceptHandshake, TakeWrite, CommitWrite, RefuseWrite, LaterWriteFails,
         Responses, HandshakeCompletes, MutationResult, WriteStreamRefused
<1>9. CASE UNCHANGED vars
  BY <1>9, OthersKeepWatch DEF vars
<1> QED
  BY <1>1, <1>2, <1>3, <1>4, <1>5, <1>6, <1>7, <1>8, <1>9
     DEF Next, Application, Process, Faults, Timers, Auth, Backend

LEMMA WatchInvariant == Spec => []WatchInv
BY WatchInitially, WatchStep, PTL DEF Spec

(* Whatever tokens, timers, listeners and failures come in which order,    *)
(* OnlineStateTracker's asserts hold.                                      *)
THEOREM RemoteTrackerAsserts == Spec => []TrackerAsserts
<1>1. WatchInv => TrackerAsserts
  BY DEF WatchInv, WatchState, TrackerOK, TrackerAsserts
<1> QED
  BY <1>1, WatchInvariant, PTL

-----------------------------------------------------------------------------
(* The pipeline is a prefix of the queue.                                  *)

Interval(q, k) == \A i \in 1 .. Len(q) : q[i] = k + i

LEMMA PrefixProperties ==
    ASSUME NEW S, NEW q \in Seq(S), NEW n \in 0 .. Len(q)
    PROVE  /\ SubSeq(q, 1, n) \in Seq(S)
           /\ Len(SubSeq(q, 1, n)) = n
           /\ \A i \in 1 .. n : SubSeq(q, 1, n)[i] = q[i]
<1>1. \A i \in 1 .. n : q[i] \in S
  OBVIOUS
<1>2. n \in Int /\ 1 \in Int
  OBVIOUS
<1>3. /\ SubSeq(q, 1, n) \in Seq(S)
      /\ Len(SubSeq(q, 1, n)) = IF 1 <= n THEN n - 1 + 1 ELSE 0
      /\ \A i \in 1 .. n - 1 + 1 : SubSeq(q, 1, n)[i] = q[1 + i - 1]
  BY <1>1, <1>2, SubSeqProperties
<1> QED
  BY <1>3

LEMMA PositionOfLast ==
    ASSUME NEW k \in Nat, NEW q \in Seq(Batch), Interval(q, k),
           NEW n \in 0 .. Len(q)
    PROVE  UpTo(q, LastRetrieved(SubSeq(q, 1, n))) = n
<1> DEFINE id == LastRetrieved(SubSeq(q, 1, n))
<1>1. id = IF n = 0 THEN 0 ELSE k + n
  <2>1. /\ SubSeq(q, 1, n) \in Seq(Batch) /\ Len(SubSeq(q, 1, n)) = n
        /\ \A i \in 1 .. n : SubSeq(q, 1, n)[i] = q[i]
    BY PrefixProperties
  <2>2. CASE n = 0
    BY <2>1, <2>2, EmptySeq DEF LastRetrieved
  <2>3. CASE n # 0
    BY <2>1, <2>3, EmptySeq DEF LastRetrieved, Last, Interval
  <2> QED
    BY <2>2, <2>3
<1>2. \A i \in 1 .. Len(q) : i <= n <=> q[i] <= id
  BY <1>1 DEF Interval
<1>3. ASSUME NEW m \in 0 .. Len(q),
             \A i \in 1 .. Len(q) : i <= m <=> q[i] <= id
      PROVE  m = n
  <2>1. CASE m < n
    <3>1. n \in 1 .. Len(q)
      BY <2>1
    <3> QED
      BY <1>2, <1>3, <2>1, <3>1
  <2>2. CASE n < m
    <3>1. m \in 1 .. Len(q)
      BY <2>2
    <3> QED
      BY <1>2, <1>3, <2>2, <3>1
  <2> QED
    BY <2>1, <2>2
<1> HIDE DEF id
<1>4. UpTo(q, id) = n
  BY <1>2, <1>3 DEF UpTo
<1> QED
  BY <1>4 DEF id

(* Filling a prefix of the queue makes it as long as the capacity allows.  *)
LEMMA FilledPrefix ==
    ASSUME NEW k \in Nat, NEW q \in Seq(Batch), Interval(q, k),
           NEW n \in 0 .. Len(q), n <= Capacity
    PROVE  Filled(q, SubSeq(q, 1, n)) = SubSeq(q, 1, Smaller(Capacity, Len(q)))
<1> DEFINE p == SubSeq(q, 1, n)
<1>1. UpTo(q, LastRetrieved(p)) = n /\ Len(p) = n
  BY PositionOfLast, PrefixProperties
<1>2. Len(q) \in Nat /\ Capacity \in Nat /\ n \in Nat
  BY RemoteAssumption
<1>3. n + Room(p) = Capacity
  BY <1>1, <1>2 DEF Room
<1>4. Filled(q, p) = p \o SubSeq(q, n + 1, Smaller(Capacity, Len(q)))
  BY <1>1, <1>3 DEF Filled
<1>5. /\ 1 \in 1 .. Len(q) + 1 /\ n \in 1 - 1 .. Len(q)
      /\ Smaller(Capacity, Len(q)) \in n .. Len(q)
  BY <1>2 DEF Smaller
<1> HIDE DEF p
<1>6. SubSeq(q, 1, n) \o SubSeq(q, n + 1, Smaller(Capacity, Len(q)))
         = SubSeq(q, 1, Smaller(Capacity, Len(q)))
  BY <1>5, ConcatAdjacentSubSeq
<1> QED
  BY <1>4, <1>6 DEF p

LEMMA PrefixOfAppend ==
    ASSUME NEW S, NEW q \in Seq(S), NEW x \in S, NEW n \in 0 .. Len(q)
    PROVE  SubSeq(Append(q, x), 1, n) = SubSeq(q, 1, n)
<1>1. /\ Append(q, x) \in Seq(S) /\ n \in 0 .. Len(Append(q, x))
      /\ \A i \in 1 .. n : Append(q, x)[i] = q[i]
  OBVIOUS
<1> QED
  BY <1>1, PrefixProperties, SeqEqual

LEMMA PrefixOfTail ==
    ASSUME NEW S, NEW q \in Seq(S), NEW n \in 1 .. Len(q)
    PROVE  /\ SubSeq(q, 1, n) # <<>>
           /\ Head(SubSeq(q, 1, n)) = Head(q)
           /\ Tail(SubSeq(q, 1, n)) = SubSeq(Tail(q), 1, n - 1)
<1> DEFINE p == SubSeq(q, 1, n)
<1>1. /\ p \in Seq(S) /\ Len(p) = n /\ \A i \in 1 .. n : p[i] = q[i]
  BY PrefixProperties
<1>2. /\ Tail(q) \in Seq(S) /\ Len(Tail(q)) = Len(q) - 1
      /\ \A i \in 1 .. Len(q) - 1 : Tail(q)[i] = q[i + 1]
  BY HeadTailProperties
<1> DEFINE t == SubSeq(Tail(q), 1, n - 1)
<1>3. /\ t \in Seq(S) /\ Len(t) = n - 1
      /\ \A i \in 1 .. n - 1 : t[i] = Tail(q)[i]
  BY <1>2, PrefixProperties
<1> HIDE DEF p, t
<1>4. p # <<>> /\ Head(p) = q[1] /\ Head(q) = q[1]
  BY <1>1, EmptySeq
<1>5. /\ Tail(p) \in Seq(S) /\ Len(Tail(p)) = n - 1
      /\ \A i \in 1 .. n - 1 : Tail(p)[i] = p[i + 1]
  BY <1>1, <1>4, HeadTailProperties
<1>6. \A i \in 1 .. n - 1 : Tail(p)[i] = t[i]
  BY <1>1, <1>2, <1>3, <1>5
<1>7. Tail(p) = t
  BY <1>3, <1>5, <1>6, SeqEqual
<1> QED
  BY <1>4, <1>7 DEF p, t

LEMMA RemovedHead ==
    ASSUME NEW k \in Nat, NEW q \in Seq(Batch), Interval(q, k), q # <<>>
    PROVE  Removed(q, Head(q)) = Tail(q)
<1>1. /\ Len(q) \in Nat \ {0} /\ Head(q) = q[1]
      /\ \A i \in 1 .. Len(q) : q[i] = Head(q) <=> i = 1
  BY EmptySeq DEF Interval
<1>2. Removed(q, Head(q)) = RemoveAt(q, 1)
  BY <1>1 DEF Removed
<1>3. SubSeq(q, 1, 0) = <<>> /\ SubSeq(q, 2, Len(q)) = Tail(q)
  BY SubSeqEmpty, TailIsSubSeq
<1>4. RemoveAt(q, 1) = SubSeq(q, 1, 0) \o SubSeq(q, 2, Len(q))
  BY <1>1 DEF RemoveAt
<1>5. Tail(q) \in Seq(Batch)
  BY HeadTailProperties
<1> QED
  BY <1>2, <1>3, <1>4, <1>5, ConcatEmptySeq

-----------------------------------------------------------------------------
(* FillWritePipeline, whoever calls it: the pipeline becomes the prefix of *)
(* the queue, the stream is started if it is needed, and what is added is  *)
(* sent if the stream is ready for it.                                     *)
Rest(p) == SubSeq(pipeline', Len(p) + 1, Len(pipeline'))

FillResult(q, p, w, out) ==
    /\ pipeline' = IF enabled' THEN SubSeq(q, 1, Smaller(Capacity, Len(q)))
                              ELSE <<>>
    /\ Sound(write') /\ (IsOpen(write') <=> IsOpen(w))
    /\ enabled' /\ pipeline' # <<>> => IsStarted(write')
    /\ IsStarted(write') => IsStarted(w) \/ pipeline' # <<>>
    /\ write'.idle => pipeline' = <<>>
    /\ ~enabled' => ~IsStarted(write')
    /\ wire' = IF IsOpen(w) /\ handshake THEN out \o Rest(p) ELSE out
    /\ p \in Seq(Batch) /\ Rest(p) \in Seq(Batch) /\ p \o Rest(p) = pipeline'

LEMMA FillKeeps ==
    ASSUME NEW k \in Nat, NEW q \in Seq(Batch), Interval(q, k),
           NEW p, NEW w, NEW out,
           enabled' \in BOOLEAN, Sound(w),
           IF enabled'
           THEN \E n \in 0 .. Len(q) : n <= Capacity /\ p = SubSeq(q, 1, n)
           ELSE p = <<>> /\ ~IsStarted(w),
           w.idle => p = <<>> /\ handshake,
           FillWritePipeline(q, p, w, out)
    PROVE  FillResult(q, p, w, out)
<1>1. Len(q) \in Nat /\ Capacity \in Nat
  BY RemoteAssumption
<1>2. CASE enabled'
  <2>1. PICK n \in 0 .. Len(q) : n <= Capacity /\ p = SubSeq(q, 1, n)
    BY <1>2
  <2> DEFINE m == Smaller(Capacity, Len(q))
  <2>2. n \in 0 .. m /\ m \in 0 .. Len(q)
    BY <1>1, <2>1 DEF Smaller
  <2>3. pipeline' = SubSeq(q, 1, m)
    BY <1>2, <2>1, FilledPrefix DEF FillWritePipeline
  <2>4. Len(p) = n /\ p \in Seq(Batch)
    BY <2>1, PrefixProperties
  <2>5. pipeline' \in Seq(Batch) /\ Len(pipeline') = m
    BY <2>2, <2>3, PrefixProperties
  <2>6. p = SubSeq(pipeline', 1, n)
    <3>1. \A i \in 1 .. m : pipeline'[i] = q[i]
      BY <2>2, <2>3, PrefixProperties
    <3>2. \A i \in 1 .. n : p[i] = q[i]
      BY <2>1, PrefixProperties
    <3>3. /\ SubSeq(pipeline', 1, n) \in Seq(Batch)
          /\ Len(SubSeq(pipeline', 1, n)) = n
          /\ \A i \in 1 .. n : SubSeq(pipeline', 1, n)[i] = pipeline'[i]
      BY <2>2, <2>5, PrefixProperties
    <3>4. \A i \in 1 .. n : p[i] = SubSeq(pipeline', 1, n)[i]
      BY <2>2, <3>1, <3>2, <3>3
    <3> QED
      BY <2>4, <3>3, <3>4, SeqEqual
  <2>7. p \o Rest(p) = pipeline' /\ Rest(p) \in Seq(Batch)
    <3>1. Rest(p) = SubSeq(pipeline', n + 1, m)
      BY <2>4, <2>5 DEF Rest
    <3>2. SubSeq(pipeline', 1, n) \o SubSeq(pipeline', n + 1, m)
             = SubSeq(pipeline', 1, m)
      <4>1. /\ 1 \in 1 .. Len(pipeline') + 1
            /\ n \in 1 - 1 .. Len(pipeline')
            /\ m \in n .. Len(pipeline')
        BY <1>1, <2>2, <2>5 DEF Smaller
      <4> QED
        BY <2>5, <4>1, ConcatAdjacentSubSeq
    <3>3. SubSeq(pipeline', 1, m) = pipeline'
      BY <2>5, SubSeqFull
    <3>4. \A i \in n + 1 .. m : pipeline'[i] \in Batch
      BY <2>2, <2>5
    <3>5. Rest(p) \in Seq(Batch)
      BY <2>2, <3>1, <3>4, SubSeqProperties
    <3> QED
      BY <2>6, <3>1, <3>2, <3>3, <3>5
  <2> HIDE DEF m
  <2>8. wire' = IF IsOpen(w) /\ handshake THEN out \o Rest(p) ELSE out
    BY <1>2, <2>1, <2>3 DEF FillWritePipeline, Rest
  <2>9. write' = IF pipeline' = <<>> THEN MarkIdle(w)
                 ELSE IF (IsOpen(w) /\ handshake) /\ Rest(p) # <<>> THEN Write(w)
                 ELSE Restarted(w, pipeline')
    BY <1>2 DEF FillWritePipeline, Rest
  <2>10. p = <<>> /\ pipeline' # <<>> => Rest(p) # <<>>
    BY <2>7, ConcatEmptySeq, EmptySeq
  <2>11. /\ Sound(write') /\ (IsOpen(write') <=> IsOpen(w))
         /\ pipeline' # <<>> => IsStarted(write')
         /\ IsStarted(write') => IsStarted(w) \/ pipeline' # <<>>
         /\ write'.idle => pipeline' = <<>>
    <3>1. CASE pipeline' = <<>>
      BY <2>9, <3>1, StreamOperations DEF IsOpen, IsStarted
    <3>2. CASE pipeline' # <<>> /\ IsOpen(w) /\ handshake /\ Rest(p) # <<>>
      <4>1. write' = Write(w)
        BY <2>9, <3>2
      <4> QED
        BY <3>2, <4>1, StreamOperations DEF IsOpen, IsStarted
    <3>3. CASE pipeline' # <<>> /\ ~((IsOpen(w) /\ handshake) /\ Rest(p) # <<>>)
      <4>1. write' = IF ~IsStarted(w) THEN Start(w) ELSE w
        BY <1>2, <2>9, <3>3 DEF Restarted
      <4>2. ~w.idle
        BY <2>10, <3>3 DEF Sound
      <4>3. CASE IsStarted(w)
        BY <3>3, <4>1, <4>2, <4>3
      <4>4. CASE ~IsStarted(w)
        BY <3>3, <4>1, <4>4, StreamOperations DEF Sound, IsOpen, IsStarted
      <4> QED
        BY <4>3, <4>4
    <3> QED
      BY <3>1, <3>2, <3>3
  <2> QED
    BY <1>2, <2>3, <2>4, <2>7, <2>8, <2>11 DEF FillResult, m
<1>3. CASE ~enabled'
  <2>1. p = <<>> /\ pipeline' = <<>> /\ ~IsStarted(w)
    BY <1>3 DEF FillWritePipeline
  <2>2. Rest(p) = <<>> /\ <<>> \in Seq(Batch)
    BY <2>1, SubSeqEmpty, EmptySeq DEF Rest
  <2>3. write' = w /\ wire' = out
    <3>1. ~IsOpen(w)
      BY <2>1 DEF IsOpen, IsStarted
    <3> QED
      BY <1>3, <2>1, <3>1 DEF FillWritePipeline, Restarted
  <2>4. p \o Rest(p) = pipeline'
    BY <2>1, <2>2, ConcatEmptySeq
  <2>5. ~IsOpen(w) /\ ~w.idle
    BY <2>1 DEF IsOpen, IsStarted, Sound
  <2> QED
    BY <1>3, <2>1, <2>2, <2>3, <2>4, <2>5 DEF FillResult
<1> QED
  BY <1>2, <1>3

-----------------------------------------------------------------------------
(* What travels on the write stream.                                       *)

LEMMA PipelineFacts ==
    ASSUME RemoteInv
    PROVE  /\ Settled \in Nat /\ queue \in Seq(Batch) /\ Interval(queue, Settled)
           /\ \E n \in 0 .. Len(queue) : n <= Capacity /\ pipeline = SubSeq(queue, 1, n)
           /\ pipeline \in Seq(Batch)
           /\ \A i \in 1 .. Len(pipeline) :
                 pipeline[i] = Settled + i /\ pipeline[i] \in Pending
           /\ ~enabled => pipeline = <<>>
<1>1. /\ Settled \in Nat /\ queue \in Seq(Batch) /\ Interval(queue, Settled)
      /\ Len(queue) \in Nat /\ written \in Nat /\ Capacity \in Nat
  BY WriteAssumption, RemoteAssumption
     DEF RemoteInv, QueueInv, QueueTypeOK, QueueInterval, Interval
<1>2. PICK n \in 0 .. Len(queue) :
         n <= Capacity /\ pipeline = SubSeq(queue, 1, n)
  <2>1. CASE enabled
    BY <1>1, <2>1 DEF RemoteInv, WriteInv, Smaller
  <2>2. CASE ~enabled
    BY <1>1, <2>2, SubSeqEmpty DEF RemoteInv, WriteInv
  <2> QED
    BY <2>1, <2>2
<1>3. /\ pipeline \in Seq(Batch) /\ Len(pipeline) = n
      /\ \A i \in 1 .. n : pipeline[i] = queue[i]
  BY <1>1, <1>2, PrefixProperties
<1>4. \A i \in 1 .. n : pipeline[i] = Settled + i
  BY <1>1, <1>3 DEF Interval
<1>5. Pending = Settled + 1 .. written /\ written = Settled + Len(queue)
  BY <1>1, PendingInterval DEF RemoteInv, QueueInv, Settled
<1>6. \A i \in 1 .. n : pipeline[i] \in Pending
  BY <1>1, <1>4, <1>5
<1> QED
  BY <1>1, <1>2, <1>3, <1>4, <1>6 DEF RemoteInv, WriteInv

(* Answering the oldest batch of the pipeline.                             *)
LEMMA OldestAnswered ==
    ASSUME RemoteInv, pipeline # <<>>
    PROVE  /\ queue # <<>> /\ Head(pipeline) = Head(queue)
           /\ Head(pipeline) = Settled + 1
           /\ Removed(queue, Head(pipeline)) = Tail(queue)
           /\ Tail(queue) \in Seq(Batch)
           /\ \E n \in 0 .. Len(Tail(queue)) :
                 n <= Capacity /\ Tail(pipeline) = SubSeq(Tail(queue), 1, n)
<1>1. PICK n \in 0 .. Len(queue) :
         n <= Capacity /\ pipeline = SubSeq(queue, 1, n)
  BY PipelineFacts
<1>2. Settled \in Nat /\ queue \in Seq(Batch) /\ Interval(queue, Settled)
  BY PipelineFacts
<1>3. n # 0
  BY <1>1, <1>2, SubSeqEmpty
<1>4. queue # <<>>
  BY <1>1, <1>2, <1>3, EmptySeq
<1>5. n \in 1 .. Len(queue)
  BY <1>1, <1>3
<1>6. Head(pipeline) = Head(queue) /\ Tail(pipeline) = SubSeq(Tail(queue), 1, n - 1)
  BY <1>1, <1>2, <1>5, PrefixOfTail
<1>7. Head(queue) = Settled + 1 /\ 1 \in 1 .. Len(queue)
  BY <1>2, <1>5 DEF Interval
<1>8. Tail(queue) \in Seq(Batch) /\ Len(Tail(queue)) = Len(queue) - 1
  BY <1>2, <1>4, HeadTailProperties
<1>9. n - 1 \in 0 .. Len(Tail(queue)) /\ n - 1 <= Capacity
  BY <1>1, <1>5, <1>8, RemoteAssumption
<1>10. Removed(queue, Head(pipeline)) = Tail(queue)
  BY <1>2, <1>4, <1>6, RemovedHead
<1> QED
  BY <1>4, <1>6, <1>7, <1>8, <1>9, <1>10

(* Before the handshake is complete, at most the handshake travels.        *)
LEMMA BeforeHandshake ==
    ASSUME RemoteInv, ~handshake
    PROVE  /\ ending = "no"
           /\ \/ ~IsOpen(write) /\ replies = <<>> /\ wire = <<>>
              \/ IsOpen(write) /\ replies = <<Hello>> /\ wire = <<>>
              \/ IsOpen(write) /\ replies = <<>> /\ wire = <<Hello>>
<1>1. /\ replies \in Seq(Request) /\ wire \in Seq(Request) /\ ending = "no"
      /\ replies \o wire = IF ~IsOpen(write) THEN <<>> ELSE <<Hello>>
  BY DEF RemoteInv, WriteInv, RepliesMatchPipeline
<1>2. CASE ~IsOpen(write)
  <2>1. Len(replies) + Len(wire) = 0
    BY <1>1, <1>2
  <2>2. Len(replies) = 0 /\ Len(wire) = 0
    BY <1>1, <2>1
  <2> QED
    BY <1>1, <1>2, <2>2, EmptySeq
<1>3. CASE IsOpen(write)
  <2>1. Len(replies) + Len(wire) = 1
    <3>1. Len(replies \o wire) = Len(replies) + Len(wire)
      BY <1>1, ConcatProperties
    <3>2. Len(<<Hello>>) = 1
      OBVIOUS
    <3> QED
      BY <1>1, <1>3, <3>1, <3>2
  <2>2. CASE Len(replies) = 0
    <3>1. replies = <<>>
      BY <1>1, <2>2, EmptySeq
    <3>2. wire = <<Hello>>
      BY <1>1, <1>3, <3>1, ConcatEmptySeq
    <3> QED
      BY <1>1, <1>3, <3>1, <3>2
  <2>3. CASE Len(wire) = 0
    <3>1. wire = <<>>
      BY <1>1, <2>3, EmptySeq
    <3>2. replies = <<Hello>>
      BY <1>1, <1>3, <3>1, ConcatEmptySeq
    <3> QED
      BY <1>1, <1>3, <3>1, <3>2
  <2>4. Len(replies) = 0 \/ Len(wire) = 0
    BY <1>1, <2>1
  <2> QED
    BY <2>2, <2>3, <2>4
<1> QED
  BY <1>2, <1>3

(* The backend takes the batches of the pipeline in their order.           *)
LEMMA HeadReached ==
    ASSUME RemoteInv, handshake, wire # <<>>
    PROVE  /\ Reached(Head(wire)) /\ Head(wire) \in Batch /\ Head(wire) # Hello
           /\ pipeline # <<>>
<1>1. /\ replies \in Seq(Request) /\ wire \in Seq(Request)
      /\ replies \o wire = pipeline
      /\ \A i \in 1 .. Len(replies) : replies[i] \in committed
  BY DEF RemoteInv, WriteInv, RepliesMatchPipeline
<1>2. /\ Settled \in Nat /\ pipeline \in Seq(Batch)
      /\ \A i \in 1 .. Len(pipeline) :
            pipeline[i] = Settled + i /\ pipeline[i] \in Pending
  BY PipelineFacts
<1> DEFINE r == Len(replies)
<1>3. r \in Nat /\ Len(wire) \in Nat \ {0} /\ Head(wire) = wire[1]
  BY <1>1, EmptySeq
<1>4. /\ Len(pipeline) = r + Len(wire)
      /\ \A i \in 1 .. r : pipeline[i] = replies[i]
      /\ pipeline[r + 1] = wire[1]
  BY <1>1, <1>3
<1>5. r + 1 \in 1 .. Len(pipeline)
  BY <1>3, <1>4
<1>6. Head(wire) = Settled + r + 1 /\ Head(wire) \in Pending /\ Head(wire) \in Batch
  BY <1>2, <1>3, <1>4, <1>5
<1>7. ASSUME NEW a \in Pending, a < Head(wire)
      PROVE  a \in committed
  <2>1. a \in Settled + 1 .. written /\ written \in Nat
    <3>1. Pending = Settled + 1 .. written
      BY PendingInterval DEF RemoteInv, QueueInv
    <3> QED
      BY <3>1, WriteAssumption DEF RemoteInv, QueueInv, QueueTypeOK
  <2>2. a - Settled \in 1 .. r
    BY <1>2, <1>3, <1>6, <1>7, <2>1
  <2>3. pipeline[a - Settled] = a
    BY <1>2, <1>3, <1>4, <2>1, <2>2
  <2> QED
    BY <1>1, <1>4, <2>2, <2>3
<1>8. pipeline # <<>>
  BY <1>2, <1>5, EmptySeq
<1> QED
  BY <1>6, <1>7, <1>8 DEF Reached, Batch, Hello

LEMMA OldestCommitted ==
    ASSUME RemoteInv, handshake, replies # <<>>
    PROVE  pipeline # <<>> /\ Head(pipeline) \in committed
<1>1. /\ replies \in Seq(Request) /\ wire \in Seq(Request)
      /\ replies \o wire = pipeline
      /\ \A i \in 1 .. Len(replies) : replies[i] \in committed
  BY DEF RemoteInv, WriteInv, RepliesMatchPipeline
<1>2. Len(replies) \in Nat \ {0} /\ Len(wire) \in Nat
  BY <1>1, EmptySeq
<1>3. Len(pipeline) = Len(replies) + Len(wire) /\ pipeline[1] = replies[1]
  BY <1>1, <1>2
<1>4. pipeline \in Seq(Batch) /\ pipeline # <<>>
  BY <1>2, <1>3, PipelineFacts, EmptySeq
<1> QED
  BY <1>1, <1>2, <1>3, <1>4

-----------------------------------------------------------------------------
(* Each step is a step of the write queue, or leaves it alone.             *)

LEMMA AnswerRefines ==
    ASSUME RemoteInv, pipeline # <<>>, NEW how, NEW w, NEW out,
           AnswerWrite(how, w, out), UNCHANGED <<written, committed, refused>>
    PROVE  Settle(how)
BY OldestAnswered DEF AnswerWrite, Settle

LEMMA Refines == RemoteInv /\ [Next]_vars => [QueueNext]_queueVars
<1> SUFFICES ASSUME RemoteInv, [Next]_vars, ~UNCHANGED queueVars
             PROVE  QueueNext
  OBVIOUS
<1>1. MayTake => /\ Reached(Head(wire)) /\ Head(wire) \in Batch
  BY BeforeHandshake, HeadReached DEF MayTake
<1>2. CASE WriteMutations
  BY <1>2 DEF WriteMutations, QueueNext, WriteLocally
<1>3. CASE CommitWrite
  BY <1>1, <1>3 DEF CommitWrite, QueueNext, Commit
<1>4. CASE RefuseWrite
  BY <1>1, <1>4 DEF RefuseWrite, QueueNext, Refuse
<1>5. CASE MutationResult
  <2>1. pipeline # <<>> /\ Head(pipeline) \in committed
    BY <1>5, OldestCommitted DEF MutationResult, IsWriteResult, Reading
  <2>2. Head(pipeline) = Head(queue)
    BY <2>1, OldestAnswered
  <2>3. Settle("acked")
    BY <1>5, <2>1, AnswerRefines DEF MutationResult
  <2> QED
    BY <2>1, <2>2, <2>3 DEF QueueNext, Acknowledge
<1>6. CASE WriteStreamRefused
  <2>1. handshake /\ wire # <<>> /\ Head(wire) \in refused
    BY <1>6 DEF WriteStreamRefused, StatusArrives, RemoteInv, WriteInv
  <2>2. Reached(Head(wire)) /\ pipeline # <<>>
    BY <2>1, HeadReached
  <2>3. Settle("rejected")
    BY <1>6, <2>2, AnswerRefines DEF WriteStreamRefused
  <2> QED
    BY <2>1, <2>2, <2>3 DEF QueueNext, Reject
<1>7. ~(WriteTokenFails \/ WriteStreamBreaks \/ WriteBackoffElapses
          \/ WriteIdles \/ AcceptHandshake \/ LaterWriteFails
          \/ HandshakeCompletes \/ EnableNetwork \/ DisableNetwork \/ Process
          \/ \E when \in {"now", "before"} : WriteTokenArrives(when))
  BY DEF queueVars, WriteTokenFails, WriteStreamBreaks, WriteStreamFailed,
         WriteBackoffElapses, WriteIdles, AcceptHandshake, LaterWriteFails,
         HandshakeCompletes, EnableNetwork, DisableNetwork, Process,
         HandleCredentialChange, Relaunch, WriteTokenArrives
<1>8. ~(WatchTokenFails \/ WatchStreamBreaks \/ WatchBackoffElapses
          \/ WatchIdles \/ OnlineTimerElapses \/ WatchChange
          \/ (\E t \in Targets : Listen(t) \/ StopListening(t) \/ ListenRejected(t))
          \/ \E when \in {"now", "before"} : WatchTokenArrives(when))
  BY DEF OthersUnchanged, WatchTokenFails, WatchStreamBreaks,
         WatchBackoffElapses, WatchIdles, OnlineTimerElapses, WatchChange,
         Listen, StopListening, ListenRejected, WatchTokenArrives
<1>9. Next
  BY DEF vars
<1> QED
  BY <1>2, <1>3, <1>4, <1>5, <1>6, <1>7, <1>8, <1>9
     DEF Next, Application, Process, Faults, Timers, Auth, Backend, Responses,
         TakeWrite

-----------------------------------------------------------------------------
(* What a step does to the write stream.                                   *)

LEMMA RequestsInOrder ==
    ASSUME NEW a \in Seq(Request), NEW b \in Seq(Request), NEW c \in Seq(Request)
    PROVE  a \o (b \o c) = (a \o b) \o c
BY ConcatAssociative

(* The step ends in FillWritePipeline from pipeline p, with the stream at  *)
(* w and out on the wire.                                                  *)
LEMMA FilledKeeps ==
    ASSUME QueueInv', enabled' \in BOOLEAN,
           NEW p, NEW w, NEW out, Sound(w),
           IF enabled'
           THEN \E n \in 0 .. Len(queue') :
                   n <= Capacity /\ p = SubSeq(queue', 1, n)
           ELSE p = <<>> /\ ~IsStarted(w),
           w.idle => p = <<>> /\ handshake,
           FillWritePipeline(queue', p, w, out),
           out \in Seq(Request), replies' \in Seq(Request),
           replies' \o out = IF ~IsOpen(w) THEN <<>>
                             ELSE IF handshake THEN p ELSE <<Hello>>,
           handshake \in BOOLEAN, handshake' = (handshake /\ IsOpen(w)),
           handshake' => \A i \in 1 .. Len(replies') : replies'[i] \in committed',
           ending' \in Ending,
           ending' # "no" => handshake' /\ out # <<>> /\ Head(out) \in refused',
           IsStarted(w) /\ ~handshake' => p # <<>>
    PROVE  WriteInv'
<1>1. Settled' \in Nat /\ queue' \in Seq(Batch) /\ Interval(queue', Settled')
  BY DEF QueueInv, QueueTypeOK, QueueInterval, Interval
<1>2. FillResult(queue', p, w, out)
  <2> DEFINE k == Settled'
             q == queue'
  <2> HIDE DEF k, q
  <2>1. k \in Nat /\ q \in Seq(Batch) /\ Interval(q, k) /\ FillWritePipeline(q, p, w, out)
    BY <1>1 DEF k, q
  <2>2. IF enabled'
        THEN \E n \in 0 .. Len(q) : n <= Capacity /\ p = SubSeq(q, 1, n)
        ELSE p = <<>> /\ ~IsStarted(w)
    BY DEF q
  <2>3. FillResult(q, p, w, out)
    BY <2>1, <2>2, FillKeeps
  <2> QED
    BY <2>3 DEF q
<1>3. Rest(p) \in Seq(Request) /\ p \in Seq(Request)
  <2>1. Batch \subseteq Request
    BY DEF Request
  <2>2. Rest(p) \in Seq(Batch) /\ p \in Seq(Batch)
    BY <1>2 DEF FillResult
  <2> QED
    BY <2>1, <2>2
<1>4. /\ wire' = IF handshake' THEN out \o Rest(p) ELSE out
      /\ IsOpen(write') <=> IsOpen(w)
      /\ p \o Rest(p) = pipeline'
  BY <1>2 DEF FillResult
<1>5. wire' \in Seq(Request)
  BY <1>3, <1>4
<1>6. RepliesMatchPipeline'
  <2>1. CASE handshake'
    <3>1. replies' \o out = p /\ IsOpen(write')
      BY <1>4, <2>1
    <3>2. replies' \o (out \o Rest(p)) = (replies' \o out) \o Rest(p)
      BY <1>3, RequestsInOrder
    <3> QED
      BY <1>4, <2>1, <3>1, <3>2 DEF RepliesMatchPipeline
  <2>2. CASE ~handshake'
    BY <1>4, <2>2 DEF RepliesMatchPipeline
  <2> QED
    BY <2>1, <2>2
<1>7. ending' # "no" => wire' # <<>> /\ Head(wire') \in refused'
  <2> SUFFICES ASSUME ending' # "no" PROVE wire' # <<>> /\ Head(wire') \in refused'
    OBVIOUS
  <2>1. Len(out) \in Nat \ {0} /\ Head(out) = out[1]
    BY EmptySeq
  <2>2. wire' = out \o Rest(p)
    BY <1>4
  <2>3. Len(wire') # 0 /\ wire'[1] = out[1]
    BY <1>3, <2>1, <2>2
  <2> QED
    BY <1>5, <2>1, <2>3, EmptySeq
<1>8. IsStarted(write') /\ ~handshake' => pipeline' # <<>>
  <2>1. p # <<>> => pipeline' # <<>>
    BY <1>3, <1>4, ConcatEmptySeq, EmptySeq
  <2> QED
    BY <1>2, <2>1 DEF FillResult
<1> QED
  BY <1>2, <1>4, <1>5, <1>6, <1>7, <1>8 DEF FillResult, WriteInv

(* The step ends the call without an answer.                               *)
LEMMA CallEndKeeps ==
    ASSUME RemoteInv, UNCHANGED <<queue, enabled, pipeline>>,
           NEW w, Sound(w), ~IsStarted(w),
           write' = Restarted(w, pipeline),
           handshake' = FALSE, wire' = <<>>, replies' = <<>>, ending' = "no"
    PROVE  WriteInv'
<1>1. /\ enabled \in BOOLEAN
      /\ pipeline = IF enabled THEN SubSeq(queue, 1, Smaller(Capacity, Len(queue)))
                               ELSE <<>>
  BY DEF RemoteInv, WriteInv
<1>2. /\ Sound(write') /\ ~IsOpen(write')
      /\ enabled /\ pipeline # <<>> => IsStarted(write')
      /\ IsStarted(write') => enabled /\ pipeline # <<>>
  BY StreamOperations DEF Restarted, IsOpen, IsStarted
<1>3. <<>> \in Seq(Request) /\ <<>> \o <<>> = <<>>
  BY EmptySeq, ConcatEmptySeq
<1>4. ~write'.idle
  BY <1>2 DEF Sound
<1>5. RepliesMatchPipeline'
  BY <1>2, <1>3 DEF RepliesMatchPipeline
<1> QED
  BY <1>1, <1>2, <1>3, <1>4, <1>5 DEF WriteInv, Ending

LEMMA SameStateKeeps ==
    ASSUME RemoteInv,
           UNCHANGED <<queueVars, enabled, pipeline, callVars>>,
           Sound(write'), write'.state = write.state, write'.idle => write.idle
    PROVE  WriteInv'
<1>1. /\ IsOpen(write') <=> IsOpen(write)
      /\ IsStarted(write') <=> IsStarted(write)
  BY DEF IsOpen, IsStarted
<1>2. RepliesMatchPipeline'
  BY <1>1 DEF RemoteInv, WriteInv, RepliesMatchPipeline, callVars
<1> QED
  BY <1>1, <1>2 DEF RemoteInv, WriteInv, callVars, queueVars

LEMMA WriteFaultsKeep ==
    ASSUME RemoteInv, WriteTokenFails \/ WriteStreamBreaks \/ WriteIdles
    PROVE  WriteInv'
<1>1. Sound(write) /\ handshake \in BOOLEAN /\ (handshake => IsOpen(write))
  BY DEF RemoteInv, WriteInv
<1>2. CASE WriteTokenFails
  <2>1. PICK when \in write.asked : Counts(when)
    BY <1>2 DEF WriteTokenFails
  <2> DEFINE w == Closed(Answered(write, "now"), "Error")
  <2>2. write.state = "Starting" /\ Sound(w) /\ ~IsStarted(w)
    BY <1>1, <2>1, StreamResumes
  <2>3. ~IsOpen(write) /\ handshake = FALSE
    BY <1>1, <2>2 DEF IsOpen
  <2>4. wire = <<>> /\ replies = <<>> /\ ending = "no"
    BY <2>3, BeforeHandshake
  <2>5. /\ write' = Restarted(w, pipeline)
        /\ UNCHANGED <<queue, enabled, pipeline, callVars>>
    BY <1>2 DEF WriteTokenFails, queueVars
  <2> HIDE DEF w
  <2> QED
    BY <2>2, <2>3, <2>4, <2>5, CallEndKeeps DEF callVars
<1>3. CASE WriteStreamBreaks
  <2> DEFINE w == Closed(write, "Error")
  <2>1. Sound(w) /\ ~IsStarted(w)
    BY <1>1, StreamOperations
  <2>2. /\ write' = Restarted(w, pipeline) /\ wire' = <<>>
        /\ UNCHANGED <<queue, enabled, pipeline>>
        /\ handshake' = FALSE /\ replies' = <<>> /\ ending' = "no"
    BY <1>3 DEF WriteStreamBreaks, WriteStreamFailed, queueVars, CallOver
  <2> HIDE DEF w
  <2> QED
    BY <2>1, <2>2, CallEndKeeps
<1>4. CASE WriteIdles
  <2> DEFINE w == Stop(write)
  <2>1. Sound(w) /\ ~IsStarted(w)
    BY <1>1, StreamOperations
  <2>2. pipeline = <<>>
    BY <1>4 DEF WriteIdles, RemoteInv, WriteInv
  <2>3. /\ write' = w /\ wire' = <<>>
        /\ UNCHANGED <<queue, enabled, pipeline>>
        /\ handshake' = FALSE /\ replies' = <<>> /\ ending' = "no"
    BY <1>4 DEF WriteIdles, StopWriteStream, queueVars, CallOver
  <2>4. write' = Restarted(w, pipeline)
    BY <2>2, <2>3 DEF Restarted
  <2> HIDE DEF w
  <2> QED
    BY <2>1, <2>3, <2>4, CallEndKeeps
<1> QED
  BY <1>2, <1>3, <1>4

LEMMA WriteTokenKeeps ==
    ASSUME RemoteInv, NEW when, WriteTokenArrives(when)
    PROVE  WriteInv'
<1>1. /\ Sound(write) /\ handshake \in BOOLEAN /\ when \in write.asked
      /\ handshake => IsOpen(write)
      /\ UNCHANGED <<queueVars, enabled, pipeline, handshake, replies, ending>>
  BY DEF RemoteInv, WriteInv, WriteTokenArrives
<1>2. CASE Counts(when)
  <2>1. write.state = "Starting" /\ Sound(Opened(write)) /\ IsOpen(Opened(write))
    BY <1>1, <1>2, StreamResumes
  <2>2. write' = Write(Opened(write)) /\ wire' = <<Hello>>
    BY <1>2 DEF WriteTokenArrives
  <2>3. Sound(write') /\ IsOpen(write') /\ ~write'.idle
    BY <2>1, <2>2, StreamOperations DEF IsOpen
  <2>4. ~handshake /\ IsStarted(write) /\ ~IsOpen(write)
    BY <1>1, <2>1 DEF IsOpen, IsStarted
  <2>5. replies = <<>> /\ ending = "no"
    BY <2>4, BeforeHandshake
  <2>6. IsStarted(write')
    BY <2>3 DEF IsOpen, IsStarted
  <2>7. wire' \in Seq(Request) /\ replies' \o wire' = <<Hello>>
    BY <1>1, <2>2, <2>5, ConcatEmptySeq DEF Request
  <2>8. RepliesMatchPipeline'
    BY <1>1, <2>3, <2>4, <2>7 DEF RepliesMatchPipeline
  <2> QED
    BY <1>1, <2>3, <2>4, <2>5, <2>6, <2>7, <2>8 DEF RemoteInv, WriteInv, queueVars
<1>3. CASE ~Counts(when)
  <2>1. write' = Answered(write, when) /\ wire' = wire
    BY <1>3 DEF WriteTokenArrives
  <2>2. /\ Sound(write') /\ write'.state = write.state
        /\ write'.idle = write.idle
    BY <1>1, <1>3, <2>1, StreamResumes
  <2> QED
    BY <1>1, <2>1, <2>2, SameStateKeeps DEF callVars
<1> QED
  BY <1>2, <1>3

LEMMA WriteBackoffKeeps ==
    ASSUME RemoteInv, WriteBackoffElapses
    PROVE  WriteInv'
<1>1. /\ Sound(write) /\ handshake \in BOOLEAN /\ (handshake => IsOpen(write))
      /\ write.state = "Backoff" /\ write' = BackoffElapsed(write)
      /\ UNCHANGED <<queueVars, enabled, pipeline, callVars>>
  BY DEF RemoteInv, WriteInv, WriteBackoffElapses
<1>2. Sound(write') /\ IsStarted(write') /\ ~IsOpen(write') /\ ~write'.idle
  BY <1>1, StreamResumes DEF Sound
<1>3. ~IsOpen(write) /\ IsStarted(write)
  BY <1>1 DEF IsOpen, IsStarted
<1>4. RepliesMatchPipeline'
  BY <1>1, <1>2, <1>3 DEF RemoteInv, WriteInv, RepliesMatchPipeline, callVars
<1> QED
  BY <1>1, <1>2, <1>3, <1>4 DEF RemoteInv, WriteInv, callVars, queueVars

(* A request that is taken becomes the last reply.                         *)
LEMMA TakenInOrder ==
    ASSUME NEW r \in Seq(Request), NEW w \in Seq(Request), w # <<>>
    PROVE  /\ Tail(w) \in Seq(Request) /\ Append(r, Head(w)) \in Seq(Request)
           /\ Append(r, Head(w)) \o Tail(w) = r \o w
           /\ Len(Append(r, Head(w))) = Len(r) + 1
           /\ \A i \in 1 .. Len(r) : Append(r, Head(w))[i] = r[i]
           /\ Append(r, Head(w))[Len(r) + 1] = Head(w)
<1>1. /\ Tail(w) \in Seq(Request) /\ Len(Tail(w)) = Len(w) - 1
      /\ Head(w) = w[1] /\ Head(w) \in Request /\ Len(w) \in Nat \ {0}
      /\ \A i \in 1 .. Len(w) - 1 : Tail(w)[i] = w[i + 1]
  BY HeadTailProperties, EmptySeq
<1> DEFINE a == Append(r, Head(w))
<1>2. /\ a \in Seq(Request) /\ Len(a) = Len(r) + 1
      /\ \A i \in 1 .. Len(r) : a[i] = r[i]
      /\ a[Len(r) + 1] = Head(w)
  BY <1>1, AppendProperties
<1> HIDE DEF a
<1> DEFINE left == a \o Tail(w)
           right == r \o w
<1>3. left \in Seq(Request) /\ right \in Seq(Request)
  BY <1>1, <1>2
<1>4. Len(left) = Len(right) /\ Len(right) = Len(r) + Len(w)
  BY <1>1, <1>2
<1>5. ASSUME NEW i \in 1 .. Len(left)
      PROVE  left[i] = right[i]
  <2>1. CASE i <= Len(r)
    BY <1>1, <1>2, <1>4, <2>1
  <2>2. CASE i = Len(r) + 1
    BY <1>1, <1>2, <1>4, <2>2
  <2>3. CASE i > Len(r) + 1
    <3>1. i - Len(a) \in 1 .. Len(w) - 1
      BY <1>1, <1>2, <1>4, <2>3
    <3>2. left[i] = Tail(w)[i - Len(a)]
      <4>1. i \in 1 .. Len(a) + Len(Tail(w)) /\ ~(i <= Len(a))
        BY <1>1, <1>2, <1>4, <2>3
      <4> QED
        BY <1>1, <1>2, <4>1, ConcatProperties
    <3>3. right[i] = w[i - Len(r)]
      BY <1>1, <1>2, <1>4, <2>3
    <3> QED
      BY <1>1, <1>2, <3>1, <3>2, <3>3
  <2> QED
    BY <1>4, <2>1, <2>2, <2>3
<1>6. left = right
  BY <1>3, <1>4, <1>5, SeqEqual
<1> QED
  BY <1>1, <1>2, <1>6 DEF a

LEMMA BackendKeeps ==
    ASSUME RemoteInv, AcceptHandshake \/ TakeWrite \/ LaterWriteFails
    PROVE  WriteInv'
<1>1. wire \in Seq(Request) /\ replies \in Seq(Request) /\ RepliesMatchPipeline
  BY DEF RemoteInv, WriteInv
<1>2. CASE AcceptHandshake
  <2>1. ~handshake
    BY <1>2, HeadReached DEF AcceptHandshake
  <2>2. IsOpen(write) /\ replies = <<>> /\ wire = <<Hello>> /\ ending = "no"
    BY <1>2, <2>1, BeforeHandshake DEF AcceptHandshake
  <2>3. /\ replies' = Append(replies, Head(wire)) /\ wire' = Tail(wire)
        /\ UNCHANGED <<queueVars, enabled, write, pipeline, handshake, ending>>
    BY <1>2 DEF AcceptHandshake
  <2>4. /\ wire' \in Seq(Request) /\ replies' \in Seq(Request)
        /\ replies' \o wire' = replies \o wire
    BY <1>1, <1>2, <2>3, TakenInOrder DEF AcceptHandshake
  <2>5. RepliesMatchPipeline'
    BY <1>1, <2>3, <2>4 DEF RepliesMatchPipeline
  <2> QED
    BY <2>1, <2>2, <2>3, <2>4, <2>5 DEF RemoteInv, WriteInv, queueVars
<1>3. CASE CommitWrite
  <2>1. wire # <<>> /\ handshake /\ ending = "no"
    BY <1>3, BeforeHandshake DEF CommitWrite, MayTake
  <2>2. /\ replies' = Append(replies, Head(wire)) /\ wire' = Tail(wire)
        /\ committed' = committed \cup {Head(wire)}
        /\ UNCHANGED <<queue, enabled, write, pipeline, handshake, ending>>
    BY <1>3 DEF CommitWrite
  <2>3. /\ wire' \in Seq(Request) /\ replies' \in Seq(Request)
        /\ replies' \o wire' = replies \o wire
        /\ Len(replies') = Len(replies) + 1
        /\ \A i \in 1 .. Len(replies) : replies'[i] = replies[i]
        /\ replies'[Len(replies) + 1] = Head(wire)
    BY <1>1, <2>1, <2>2, TakenInOrder
  <2>4. \A i \in 1 .. Len(replies) : replies[i] \in committed
    BY <2>1 DEF RemoteInv, WriteInv
  <2>5. \A i \in 1 .. Len(replies') : replies'[i] \in committed'
    BY <1>1, <2>2, <2>3, <2>4
  <2>6. RepliesMatchPipeline'
    BY <1>1, <2>2, <2>3 DEF RepliesMatchPipeline
  <2> QED
    BY <2>1, <2>2, <2>3, <2>5, <2>6 DEF RemoteInv, WriteInv
<1>4. CASE RefuseWrite
  <2>1. wire # <<>> /\ handshake
    BY <1>4, BeforeHandshake DEF RefuseWrite, MayTake
  <2>2. /\ refused' = refused \cup {Head(wire)} /\ ending' = "sent"
        /\ UNCHANGED <<queue, committed, enabled, write, pipeline, handshake,
                       wire, replies>>
    BY <1>4 DEF RefuseWrite
  <2>3. RepliesMatchPipeline'
    BY <1>1, <2>2 DEF RepliesMatchPipeline
  <2> QED
    BY <2>1, <2>2, <2>3 DEF RemoteInv, WriteInv, Ending
<1>5. CASE LaterWriteFails
  <2>1. /\ ending = "sent" /\ ending' \in Ending
        /\ UNCHANGED <<queueVars, enabled, write, pipeline, handshake, wire, replies>>
    BY <1>5 DEF LaterWriteFails, Ending
  <2>2. RepliesMatchPipeline'
    BY <1>1, <2>1 DEF RepliesMatchPipeline
  <2> QED
    BY <2>1, <2>2 DEF RemoteInv, WriteInv, queueVars
<1> QED
  BY <1>2, <1>3, <1>4, <1>5 DEF TakeWrite

LEMMA TailOfConcat ==
    ASSUME NEW r \in Seq(Request), NEW w \in Seq(Request), r # <<>>
    PROVE  Tail(r) \o w = Tail(r \o w)
<1>1. /\ Tail(r) \in Seq(Request) /\ Len(Tail(r)) = Len(r) - 1
      /\ \A i \in 1 .. Len(r) - 1 : Tail(r)[i] = r[i + 1]
      /\ Len(r) \in Nat \ {0}
  BY HeadTailProperties, EmptySeq
<1> DEFINE whole == r \o w
           left == Tail(r) \o w
<1>2. /\ whole \in Seq(Request) /\ Len(whole) = Len(r) + Len(w)
      /\ \A i \in 1 .. Len(r) + Len(w) :
            whole[i] = IF i <= Len(r) THEN r[i] ELSE w[i - Len(r)]
  BY ConcatProperties
<1>3. /\ left \in Seq(Request) /\ Len(left) = Len(r) - 1 + Len(w)
      /\ \A i \in 1 .. Len(r) - 1 + Len(w) :
            left[i] = IF i <= Len(r) - 1 THEN r[i + 1] ELSE w[i - (Len(r) - 1)]
  BY <1>1, ConcatProperties
<1> HIDE DEF whole, left
<1>4. /\ whole # <<>> /\ Tail(whole) \in Seq(Request)
      /\ Len(Tail(whole)) = Len(whole) - 1
      /\ \A i \in 1 .. Len(whole) - 1 : Tail(whole)[i] = whole[i + 1]
  <2>1. whole # <<>>
    BY <1>1, <1>2, EmptySeq
  <2> QED
    BY <1>2, <2>1, HeadTailProperties
<1>5. ASSUME NEW i \in 1 .. Len(left)
      PROVE  left[i] = Tail(whole)[i]
  <2>1. i + 1 \in 1 .. Len(r) + Len(w) /\ i - (Len(r) - 1) = i + 1 - Len(r)
    BY <1>1, <1>3
  <2>2. Tail(whole)[i] = whole[i + 1]
    BY <1>1, <1>2, <1>3, <1>4
  <2>3. left[i] = IF i <= Len(r) - 1 THEN r[i + 1] ELSE w[i + 1 - Len(r)]
    BY <1>3, <2>1
  <2>4. i <= Len(r) - 1 <=> i + 1 <= Len(r)
    BY <1>1, <1>3
  <2> QED
    BY <1>2, <2>1, <2>2, <2>3, <2>4
<1>6. Len(left) = Len(Tail(whole))
  BY <1>1, <1>2, <1>3, <1>4
<1> QED
  BY <1>3, <1>4, <1>5, <1>6, SeqEqual DEF whole, left

LEMMA HandshakeKeeps ==
    ASSUME RemoteInv, HandshakeCompletes
    PROVE  WriteInv'
<1>1. /\ ~handshake /\ replies # <<>> /\ handshake' = TRUE
      /\ replies' = Tail(replies) /\ wire' = wire \o pipeline
      /\ ending' = IF ending = "next" THEN "now" ELSE ending
      /\ write' = IF pipeline = <<>> THEN write ELSE Write(write)
      /\ UNCHANGED <<queueVars, enabled, pipeline>>
  BY DEF HandshakeCompletes, IsWriteResult, Reading
<1>2. IsOpen(write) /\ replies = <<Hello>> /\ wire = <<>> /\ ending = "no"
  BY <1>1, BeforeHandshake
<1>3. Sound(write) /\ IsStarted(write) /\ pipeline # <<>>
  BY <1>1, <1>2 DEF RemoteInv, WriteInv, IsOpen, IsStarted
<1>4. pipeline \in Seq(Request)
  <2>1. pipeline \in Seq(Batch) /\ Batch \subseteq Request
    BY PipelineFacts DEF Request
  <2> QED
    BY <2>1
<1>5. Sound(write') /\ IsOpen(write') /\ ~write'.idle /\ IsStarted(write')
  BY <1>1, <1>2, <1>3, StreamOperations DEF IsOpen, IsStarted
<1>6. replies' = <<>> /\ wire' = pipeline /\ <<>> \o pipeline = pipeline
  BY <1>1, <1>2, <1>4, ConcatEmptySeq
<1>7. RepliesMatchPipeline'
  BY <1>1, <1>5, <1>6 DEF RepliesMatchPipeline
<1>8. ending' = "no" /\ replies' \in Seq(Request) /\ wire' \in Seq(Request)
  BY <1>1, <1>2, <1>4, <1>6
<1>9. \A i \in 1 .. Len(replies') : replies'[i] \in committed'
  BY <1>6
<1>10. /\ enabled \in BOOLEAN /\ ~enabled => ~IsStarted(write)
       /\ pipeline = IF enabled THEN SubSeq(queue, 1, Smaller(Capacity, Len(queue)))
                                ELSE <<>>
       /\ handshake' = TRUE
       /\ UNCHANGED <<queue, enabled, pipeline>>
  BY <1>1 DEF RemoteInv, WriteInv, queueVars
<1> QED
  BY <1>3, <1>5, <1>7, <1>8, <1>9, <1>10 DEF WriteInv, Ending

LEMMA DisableKeeps == RemoteInv /\ DisableNetwork => WriteInv'
<1> SUFFICES ASSUME RemoteInv, DisableNetwork PROVE WriteInv'
  OBVIOUS
<1>1. /\ enabled' = FALSE /\ write' = Stop(write) /\ wire' = <<>>
      /\ handshake' = FALSE /\ replies' = <<>> /\ ending' = "no"
      /\ pipeline' = <<>>
  BY DEF DisableNetwork, StopWriteStream, CallOver
<1>2. Sound(write') /\ ~IsStarted(write')
  BY <1>1, StreamOperations DEF RemoteInv, WriteInv
<1>3. ~IsOpen(write') /\ ~write'.idle
  BY <1>2 DEF IsOpen, IsStarted, Sound
<1>4. <<>> \in Seq(Request) /\ <<>> \o <<>> = <<>>
  BY EmptySeq, ConcatEmptySeq
<1>5. RepliesMatchPipeline'
  BY <1>1, <1>3, <1>4 DEF RepliesMatchPipeline
<1> QED
  BY <1>1, <1>2, <1>3, <1>4, <1>5 DEF WriteInv, Ending

(* The prefix of the queue that a fill starts from.                        *)
StartsFrom(p, w) ==
    IF enabled'
    THEN \E n \in 0 .. Len(queue') : n <= Capacity /\ p = SubSeq(queue', 1, n)
    ELSE p = <<>> /\ ~IsStarted(w)

LEMMA WriteMutationsKeeps ==
    ASSUME RemoteInv, QueueInv', WriteMutations
    PROVE  WriteInv'
<1>1. /\ UNCHANGED <<committed, refused, enabled, handshake, replies, ending>>
      /\ queue' = Append(queue, written') /\ written' = written + 1
      /\ FillWritePipeline(queue', pipeline, write, wire)
  BY DEF WriteMutations
<1>2. written' \in Batch /\ queue \in Seq(Batch)
  BY WriteAssumption DEF WriteMutations, RemoteInv, QueueInv, QueueTypeOK, Batch
<1>3. StartsFrom(pipeline, write)
  <2>1. PICK n \in 0 .. Len(queue) :
           n <= Capacity /\ pipeline = SubSeq(queue, 1, n)
    BY PipelineFacts
  <2>2. SubSeq(queue', 1, n) = SubSeq(queue, 1, n) /\ n \in 0 .. Len(queue')
    BY <1>1, <1>2, <2>1, PrefixOfAppend
  <2>3. ~enabled => pipeline = <<>> /\ ~IsStarted(write)
    BY PipelineFacts DEF RemoteInv, WriteInv
  <2> QED
    BY <1>1, <2>1, <2>2, <2>3 DEF StartsFrom
<1>4. /\ Sound(write) /\ wire \in Seq(Request) /\ replies \in Seq(Request)
      /\ enabled \in BOOLEAN /\ handshake \in BOOLEAN
      /\ handshake => IsOpen(write)
      /\ RepliesMatchPipeline /\ ending \in Ending
      /\ handshake => \A i \in 1 .. Len(replies) : replies[i] \in committed
      /\ ending # "no" => handshake /\ wire # <<>> /\ Head(wire) \in refused
      /\ IsStarted(write) /\ ~handshake => pipeline # <<>>
      /\ write.idle => pipeline = <<>>
  BY DEF RemoteInv, WriteInv
<1>5. write.idle => handshake
  BY <1>4 DEF Sound, IsOpen, IsStarted
<1>6. /\ replies' \o wire = IF ~IsOpen(write) THEN <<>>
                            ELSE IF handshake THEN pipeline ELSE <<Hello>>
      /\ handshake' = (handshake /\ IsOpen(write))
  BY <1>1, <1>4 DEF RepliesMatchPipeline
<1> QED
  BY <1>1, <1>3, <1>4, <1>5, <1>6, FilledKeeps DEF StartsFrom

LEMMA AnswerKeeps ==
    ASSUME RemoteInv, QueueInv', MutationResult \/ WriteStreamRefused
    PROVE  WriteInv'
<1>1. /\ Sound(write) /\ wire \in Seq(Request) /\ replies \in Seq(Request)
      /\ enabled \in BOOLEAN /\ handshake \in BOOLEAN
      /\ handshake => IsOpen(write)
      /\ RepliesMatchPipeline /\ ending \in Ending
      /\ handshake => \A i \in 1 .. Len(replies) : replies[i] \in committed
      /\ ending # "no" => handshake /\ wire # <<>> /\ Head(wire) \in refused
      /\ write.idle => pipeline = <<>>
  BY DEF RemoteInv, WriteInv
<1>2. handshake /\ pipeline # <<>> /\ UNCHANGED <<committed, refused, enabled>>
  <2>1. CASE MutationResult
    BY <2>1, OldestCommitted DEF MutationResult, IsWriteResult, Reading
  <2>2. CASE WriteStreamRefused
    <3>1. handshake /\ wire # <<>>
      BY <1>1, <2>2 DEF WriteStreamRefused, StatusArrives
    <3> QED
      BY <2>2, <3>1, HeadReached DEF WriteStreamRefused
  <2> QED
    BY <2>1, <2>2
<1>3. /\ Removed(queue, Head(pipeline)) = Tail(queue)
      /\ \E n \in 0 .. Len(Tail(queue)) :
            n <= Capacity /\ Tail(pipeline) = SubSeq(Tail(queue), 1, n)
      /\ enabled
  BY <1>2, OldestAnswered, PipelineFacts
<1>4. CASE MutationResult
  <2>1. /\ replies # <<>> /\ ending # "now" /\ replies' = Tail(replies)
        /\ ending' = IF ending = "next" THEN "now" ELSE ending
        /\ handshake' = handshake /\ queue' = Tail(queue)
        /\ FillWritePipeline(queue', Tail(pipeline), write, wire)
    BY <1>3, <1>4 DEF MutationResult, Reading, AnswerWrite
  <2>2. StartsFrom(Tail(pipeline), write)
    BY <1>2, <1>3, <2>1 DEF StartsFrom
  <2>3. /\ replies' \in Seq(Request) /\ Len(replies') = Len(replies) - 1
        /\ \A i \in 1 .. Len(replies) - 1 : replies'[i] = replies[i + 1]
    BY <1>1, <2>1, HeadTailProperties
  <2>4. \A i \in 1 .. Len(replies') : replies'[i] \in committed'
    BY <1>1, <1>2, <2>3
  <2>5. replies' \o wire = Tail(pipeline)
    BY <1>1, <1>2, <2>1, TailOfConcat DEF RepliesMatchPipeline
  <2>6. /\ ~write.idle /\ ending' \in Ending /\ enabled' \in BOOLEAN
        /\ ending' # "no" => handshake' /\ wire # <<>> /\ Head(wire) \in refused'
        /\ handshake' = (handshake /\ IsOpen(write))
    BY <1>1, <1>2, <2>1 DEF Ending
  <2> QED
    BY <1>1, <1>2, <2>1, <2>2, <2>3, <2>4, <2>5, <2>6, FilledKeeps DEF StartsFrom
<1>5. CASE WriteStreamRefused
  <2> DEFINE w == InhibitBackoff(Closed(write, "Error"))
  <2>1. Sound(w) /\ ~IsStarted(w)
    BY <1>1, StreamOperations
  <2>2. ~IsOpen(w) /\ ~w.idle
    BY <2>1 DEF IsOpen, IsStarted, Sound
  <2>3. /\ handshake' = FALSE /\ replies' = <<>> /\ ending' = "no"
        /\ queue' = Tail(queue)
        /\ FillWritePipeline(queue', Tail(pipeline), w, <<>>)
    BY <1>3, <1>5 DEF WriteStreamRefused, AnswerWrite, CallOver
  <2> HIDE DEF w
  <2>4. StartsFrom(Tail(pipeline), w)
    BY <1>2, <1>3, <2>3 DEF StartsFrom
  <2>5. <<>> \in Seq(Request) /\ <<>> \o <<>> = <<>>
    BY EmptySeq, ConcatEmptySeq
  <2> QED
    BY <1>1, <1>2, <2>1, <2>2, <2>3, <2>4, <2>5, FilledKeeps
       DEF StartsFrom, Ending
<1> QED
  BY <1>4, <1>5

LEMMA EnableKeepsWrite ==
    ASSUME RemoteInv, QueueInv',
           EnableNetwork \/ HandleCredentialChange \/ Relaunch
    PROVE  WriteInv'
<1>1. /\ Sound(write) /\ wire \in Seq(Request) /\ replies \in Seq(Request)
      /\ enabled \in BOOLEAN /\ handshake \in BOOLEAN
      /\ handshake => IsOpen(write)
      /\ RepliesMatchPipeline /\ ending \in Ending
      /\ handshake => \A i \in 1 .. Len(replies) : replies[i] \in committed
      /\ ending # "no" => handshake /\ wire # <<>> /\ Head(wire) \in refused
      /\ IsStarted(write) /\ ~handshake => pipeline # <<>>
      /\ write.idle => pipeline = <<>>
  BY DEF RemoteInv, WriteInv
<1>2. enabled' = TRUE /\ UNCHANGED queueVars
  BY DEF EnableNetwork, HandleCredentialChange, Relaunch, Enable
<1>3. queue' \in Seq(Batch) /\ Capacity \in Nat
  BY RemoteAssumption DEF QueueInv, QueueTypeOK
<1>4. CASE EnableNetwork
  <2>1. /\ UNCHANGED <<handshake, replies, ending, queue, committed, refused>>
        /\ FillWritePipeline(queue', pipeline, write, wire)
    BY <1>2, <1>4 DEF EnableNetwork, Enable, queueVars
  <2>2. StartsFrom(pipeline, write)
    BY <1>2, <2>1, PipelineFacts DEF StartsFrom
  <2>3. write.idle => handshake
    BY <1>1 DEF Sound, IsOpen, IsStarted
  <2>4. /\ replies' \o wire = IF ~IsOpen(write) THEN <<>>
                              ELSE IF handshake THEN pipeline ELSE <<Hello>>
        /\ handshake' = (handshake /\ IsOpen(write))
    BY <1>1, <2>1 DEF RepliesMatchPipeline
  <2> QED
    BY <1>1, <1>2, <2>1, <2>2, <2>3, <2>4, FilledKeeps DEF StartsFrom
<1>5. ASSUME NEW w, Sound(w), ~IsStarted(w), CallOver,
             FillWritePipeline(queue', <<>>, w, <<>>)
      PROVE  WriteInv'
  <2>1. ~IsOpen(w) /\ ~w.idle
    BY <1>5 DEF IsOpen, IsStarted, Sound
  <2>2. handshake' = FALSE /\ replies' = <<>> /\ ending' = "no"
    BY <1>5 DEF CallOver
  <2>3. StartsFrom(<<>>, w)
    <3>1. <<>> = SubSeq(queue', 1, 0) /\ 0 \in 0 .. Len(queue') /\ 0 <= Capacity
      BY <1>3, SubSeqEmpty
    <3> QED
      BY <1>2, <3>1 DEF StartsFrom
  <2>4. <<>> \in Seq(Request) /\ <<>> \o <<>> = <<>>
    BY EmptySeq, ConcatEmptySeq
  <2> QED
    BY <1>1, <1>2, <1>5, <2>1, <2>2, <2>3, <2>4, FilledKeeps
       DEF StartsFrom, Ending
<1>6. CASE HandleCredentialChange
  <2>1. CallOver /\ FillWritePipeline(queue', <<>>, Stop(write), <<>>)
    BY <1>2, <1>6 DEF HandleCredentialChange, Enable, queueVars
  <2>2. Sound(Stop(write)) /\ ~IsStarted(Stop(write))
    BY <1>1, StreamOperations
  <2> QED
    BY <1>5, <2>1, <2>2
<1>7. CASE Relaunch
  <2>1. CallOver /\ FillWritePipeline(queue', <<>>, NewStream, <<>>)
    BY <1>2, <1>7 DEF Relaunch, Enable, queueVars
  <2> QED
    BY <1>5, <2>1, NewStreamSound
<1> QED
  BY <1>4, <1>6, <1>7

LEMMA OthersKeepWrite ==
    ASSUME RemoteInv,
           UNCHANGED <<queueVars, enabled, write, pipeline, callVars>>
    PROVE  WriteInv'
<1>1. Sound(write') /\ write'.state = write.state /\ write'.idle = write.idle
  BY DEF RemoteInv, WriteInv
<1> QED
  BY <1>1, SameStateKeeps

LEMMA WriteInitially == Init => RemoteInv
<1> SUFFICES ASSUME Init PROVE RemoteInv
  OBVIOUS
<1>1. QueueInv
  BY QueueInitially DEF Init
<1>2. /\ Sound(write) /\ ~IsOpen(write) /\ ~IsStarted(write) /\ ~write.idle
  BY NewStreamSound DEF Init, IsOpen, IsStarted, Sound
<1>3. <<>> \in Seq(Request) /\ <<>> \o <<>> = <<>>
  BY EmptySeq, ConcatEmptySeq
<1>4. SubSeq(queue, 1, Smaller(Capacity, Len(queue))) = <<>>
  <2>1. queue = <<>> /\ Len(queue) = 0 /\ queue \in Seq(Batch)
    BY EmptySeq DEF Init, QueueInit
  <2>2. Smaller(Capacity, Len(queue)) = 0
    BY <2>1, RemoteAssumption DEF Smaller
  <2> QED
    BY <2>1, <2>2, SubSeqEmpty
<1>5. RepliesMatchPipeline
  BY <1>2, <1>3 DEF RepliesMatchPipeline, Init
<1> QED
  BY <1>1, <1>2, <1>3, <1>4, <1>5 DEF Init, RemoteInv, WriteInv, Ending

LEMMA RemoteStep == RemoteInv /\ [Next]_vars => RemoteInv'
<1> SUFFICES ASSUME RemoteInv, [Next]_vars PROVE RemoteInv'
  OBVIOUS
<1>1. QueueInv'
  BY Refines, QueueStep DEF RemoteInv
<1> SUFFICES WriteInv'
  BY <1>1 DEF RemoteInv
<1>2. CASE WriteMutations
  BY <1>1, <1>2, WriteMutationsKeeps
<1>3. CASE MutationResult \/ WriteStreamRefused
  BY <1>1, <1>3, AnswerKeeps
<1>4. CASE EnableNetwork \/ HandleCredentialChange \/ Relaunch
  BY <1>1, <1>4, EnableKeepsWrite
<1>5. CASE DisableNetwork
  BY <1>5, DisableKeeps
<1>6. CASE WriteTokenFails \/ WriteStreamBreaks \/ WriteIdles
  BY <1>6, WriteFaultsKeep
<1>7. CASE \E when \in {"now", "before"} : WriteTokenArrives(when)
  BY <1>7, WriteTokenKeeps
<1>8. CASE WriteBackoffElapses
  BY <1>8, WriteBackoffKeeps
<1>9. CASE AcceptHandshake \/ TakeWrite \/ LaterWriteFails
  BY <1>9, BackendKeeps
<1>10. CASE HandshakeCompletes
  BY <1>10, HandshakeKeeps
<1>11. CASE \/ WatchTokenFails \/ WatchStreamBreaks \/ WatchBackoffElapses
            \/ WatchIdles \/ OnlineTimerElapses \/ WatchChange
            \/ \E t \in Targets : Listen(t) \/ StopListening(t) \/ ListenRejected(t)
            \/ \E when \in {"now", "before"} : WatchTokenArrives(when)
  BY <1>11, OthersKeepWrite
     DEF OthersUnchanged, WatchTokenFails, WatchStreamBreaks,
         WatchBackoffElapses, WatchIdles, OnlineTimerElapses, WatchChange,
         Listen, StopListening, ListenRejected, WatchTokenArrives
<1>12. CASE UNCHANGED vars
  BY <1>12, OthersKeepWrite DEF vars
<1> QED
  BY <1>2, <1>3, <1>4, <1>5, <1>6, <1>7, <1>8, <1>9, <1>10, <1>11, <1>12
     DEF Next, Application, Process, Faults, Timers, Auth, Backend, Responses

LEMMA RemoteInvariant == Spec => []RemoteInv
BY WriteInitially, RemoteStep, PTL DEF Spec

-----------------------------------------------------------------------------
(* The pipeline, the streams and their retries do what module WriteQueue   *)
(* says: every step is one of the abstract queue's steps, or none.         *)
THEOREM RemoteImplementsQueue == Spec => ImplementsQueue
<1>1. Init => QueueInit
  BY DEF Init
<1>2. RemoteInv /\ [Next]_vars => [QueueNext]_queueVars
  BY Refines
<1> QED
  BY <1>1, <1>2, RemoteInvariant, PTL DEF Spec, ImplementsQueue, QueueSpec

(* An acknowledged write has been committed: a response is never taken for *)
(* another write's, whatever was sent again on however many streams.       *)
THEOREM RemoteAcksCommitted == Spec => []AckedWasCommitted
BY RemoteImplementsQueue, QueueAcksCommitted, PTL DEF ImplementsQueue

(* Writes are committed in the order in which the application made them.   *)
THEOREM RemoteCommitsInOrder == Spec => []CommittedInOrder
BY RemoteImplementsQueue, QueueCommitsInOrder, PTL DEF ImplementsQueue

(* A rejected write was refused, or committed before a refused one.        *)
THEOREM RemoteRejectsForCause == Spec => []RejectedForCause
BY RemoteImplementsQueue, QueueRejectsForCause, PTL DEF ImplementsQueue

(* What has been sent and not been answered is the pipeline, in its order. *)
THEOREM RemoteRepliesMatch == Spec => []RepliesMatchPipeline
<1>1. RemoteInv => RepliesMatchPipeline
  BY DEF RemoteInv, WriteInv
<1> QED
  BY <1>1, RemoteInvariant, PTL

(* The pipeline is full or holds the whole queue, and the streams that are *)
(* needed are under way, after every handler.                              *)
THEOREM RemoteNeverStalls == Spec => []NothingStalls
<1>1. WatchInv /\ RemoteInv => NothingStalls
  BY DEF WatchInv, RemoteInv, WriteInv, NothingStalls
<1> QED
  BY <1>1, WatchInvariant, RemoteInvariant, PTL

(* A token of an earlier start never counts for a later one.               *)
THEOREM RemoteTokensMeetTheirStart == Spec => []TokensMeetTheirStart
<1>1. WatchInv /\ RemoteInv => TokensMeetTheirStart
  BY DEF WatchInv, WatchState, RemoteInv, WriteInv, Sound, TokensMeetTheirStart
<1> QED
  BY <1>1, WatchInvariant, RemoteInvariant, PTL

(* The idle timer never stops a stream that is needed.                     *)
THEOREM RemoteIdlesUnneeded == Spec => []IdleStreamsAreUnneeded
<1>1. WatchInv /\ RemoteInv => IdleStreamsAreUnneeded
  BY DEF WatchInv, WatchState, RemoteInv, WriteInv, Sound, IdleStreamsAreUnneeded
<1> QED
  BY <1>1, WatchInvariant, RemoteInvariant, PTL

(* The variables keep their types, and the pipeline its capacity.          *)
THEOREM RemoteTyped == Spec => []RemoteTypeOK
<1>1. ASSUME WatchInv, RemoteInv PROVE RemoteTypeOK
  <2>1. pipeline \in Seq(Batch) /\ Len(pipeline) <= Capacity
    <3>1. PICK n \in 0 .. Len(queue) :
             n <= Capacity /\ pipeline = SubSeq(queue, 1, n)
      BY <1>1, PipelineFacts
    <3>2. queue \in Seq(Batch)
      BY <1>1, PipelineFacts
    <3> QED
      BY <3>1, <3>2, PrefixProperties
  <2> QED
    BY <1>1, <2>1 DEF WatchInv, WatchState, RemoteInv, QueueInv, WriteInv,
       Sound, TrackerOK, Request, RemoteTypeOK
<1> QED
  BY <1>1, WatchInvariant, RemoteInvariant, PTL

-----------------------------------------------------------------------------
(* Progress on the write stream.  What the rest of the system owes the     *)
(* client (WriteServed) and what the client has to read (Responses), each  *)
(* as the guards of its actions.                                           *)
ServedOwed ==
    \/ write.state = "Backoff"
    \/ "now" \in write.asked
    \/ wire # <<>> /\ Head(wire) = Hello
    \/ MayTake

ReadOwed == (replies # <<>> /\ ending # "now") \/ StatusArrives

(* The status that a later write makes overtake the replies waits for the  *)
(* one reply that was read already.                                        *)
StatusWaitsForAReply == ending = "next" => replies # <<>>

LEMMA StatusWaits == Spec => []StatusWaitsForAReply
<1>1. Init => StatusWaitsForAReply
  BY DEF Init, StatusWaitsForAReply
<1>2. RemoteInv /\ StatusWaitsForAReply /\ [Next]_vars => StatusWaitsForAReply'
  <2> SUFFICES ASSUME RemoteInv, StatusWaitsForAReply, [Next]_vars,
                      ending' = "next"
               PROVE  replies' # <<>>
    BY DEF StatusWaitsForAReply
  <2>1. ending = "next" => replies # <<>>
    BY DEF StatusWaitsForAReply
  <2>2. CASE UNCHANGED <<replies, ending>>
    BY <2>1, <2>2
  <2>3. CASE AcceptHandshake \/ CommitWrite
    <3>1. \E x \in Request : replies' = Append(replies, x)
      <4>1. wire # <<>> /\ wire \in Seq(Request)
        BY <2>3 DEF AcceptHandshake, CommitWrite, MayTake, RemoteInv, WriteInv
      <4> QED
        BY <2>3, <4>1 DEF AcceptHandshake, CommitWrite, Request
    <3>2. replies \in Seq(Request)
      BY DEF RemoteInv, WriteInv
    <3> QED
      BY <3>1, <3>2
  <2>4. CASE LaterWriteFails
    BY <2>4 DEF LaterWriteFails
  <2>5. ~(RefuseWrite \/ HandshakeCompletes \/ MutationResult)
    BY <2>1 DEF RefuseWrite, HandshakeCompletes, MutationResult, Reading
  <2>6. ~CallOver
    BY DEF CallOver
  <2>7. ~(WriteStreamBreaks \/ WriteIdles \/ WriteStreamRefused
            \/ DisableNetwork \/ Process)
    BY <2>6 DEF WriteStreamBreaks, WriteStreamFailed, WriteIdles, StopWriteStream,
       WriteStreamRefused, DisableNetwork, Process, HandleCredentialChange, Relaunch
  <2>8. CASE \/ WriteMutations \/ EnableNetwork \/ WriteTokenFails
             \/ WriteBackoffElapses
             \/ \E when \in {"now", "before"} : WriteTokenArrives(when)
    <3>1. UNCHANGED <<replies, ending>>
      BY <2>8 DEF WriteMutations, EnableNetwork, WriteTokenFails,
         WriteBackoffElapses, WriteTokenArrives, callVars
    <3> QED
      BY <2>2, <3>1
  <2>9. CASE \/ WatchTokenFails \/ WatchStreamBreaks \/ WatchBackoffElapses
             \/ WatchIdles \/ OnlineTimerElapses \/ WatchChange
             \/ \E t \in Targets : Listen(t) \/ StopListening(t) \/ ListenRejected(t)
             \/ \E when \in {"now", "before"} : WatchTokenArrives(when)
             \/ UNCHANGED vars
    <3>1. UNCHANGED <<replies, ending>>
      BY <2>9 DEF OthersUnchanged, WatchTokenFails, WatchStreamBreaks,
         WatchBackoffElapses, WatchIdles, OnlineTimerElapses, WatchChange,
         Listen, StopListening, ListenRejected, WatchTokenArrives, callVars, vars
    <3> QED
      BY <2>2, <3>1
  <2> QED
    BY <2>3, <2>4, <2>5, <2>7, <2>8, <2>9
       DEF Next, Application, Process, Faults, Timers, Auth, Backend, Responses,
           TakeWrite
<1> QED
  BY <1>1, <1>2, RemoteInvariant, PTL DEF Spec

(* How far the oldest write is from its answer.                            *)
Stage ==
    IF handshake THEN IF ReadOwed THEN 5 ELSE 4
    ELSE IF replies # <<>> THEN 3
    ELSE IF wire # <<>> THEN 2
    ELSE IF write.state = "Starting" THEN 1 ELSE 0

Busy == enabled /\ queue # <<>>

LEMMA BusyStream ==
    ASSUME RemoteInv, Busy
    PROVE  pipeline # <<>> /\ IsStarted(write) /\ ~write.idle
<1>1. /\ queue \in Seq(Batch) /\ Len(queue) \in Nat \ {0}
      /\ Capacity \in Nat \ {0}
  BY RemoteAssumption, EmptySeq DEF RemoteInv, QueueInv, QueueTypeOK, Busy
<1>2. Smaller(Capacity, Len(queue)) \in 1 .. Len(queue)
  BY <1>1 DEF Smaller
<1>3. pipeline = SubSeq(queue, 1, Smaller(Capacity, Len(queue)))
  BY DEF RemoteInv, WriteInv, Busy
<1>4. pipeline # <<>>
  BY <1>1, <1>2, <1>3, PrefixOfTail
<1> QED
  BY <1>4 DEF RemoteInv, WriteInv, Busy

(* At each stage somebody owes a step.                                     *)
LEMMA StageIsOwed ==
    ASSUME RemoteInv, StatusWaitsForAReply, Busy
    PROVE  /\ Stage \in 0 .. 5
           /\ Stage \in {0, 1, 2, 4} => ServedOwed
           /\ Stage \in {3, 5} => ReadOwed
<1>1. IsStarted(write) /\ pipeline # <<>> /\ Sound(write)
  BY BusyStream DEF RemoteInv, WriteInv
<1>2. CASE ~handshake
  <2>1. CASE ~IsOpen(write)
    <3>1. replies = <<>> /\ wire = <<>>
      BY <1>2, <2>1, BeforeHandshake
    <3>2. write.state = "Backoff" \/ (write.state = "Starting" /\ "now" \in write.asked)
      BY <1>1, <2>1 DEF IsStarted, IsOpen, Sound, Counts
    <3> QED
      BY <1>2, <3>1, <3>2 DEF Stage, ServedOwed
  <2>2. CASE IsOpen(write) /\ replies = <<Hello>> /\ wire = <<>>
    BY <1>2, <2>2, BeforeHandshake DEF Stage, ReadOwed
  <2>3. CASE IsOpen(write) /\ replies = <<>> /\ wire = <<Hello>>
    BY <1>2, <2>3 DEF Stage, ServedOwed
  <2> QED
    BY <1>2, <2>1, <2>2, <2>3, BeforeHandshake
<1>3. CASE handshake
  <2>1. Stage = IF ReadOwed THEN 5 ELSE 4
    BY <1>3 DEF Stage
  <2>2. ASSUME ~ReadOwed
        PROVE  MayTake
    <3>1. replies \o wire = pipeline /\ wire \in Seq(Request) /\ ending \in Ending
      BY <1>3 DEF RemoteInv, WriteInv, RepliesMatchPipeline
    <3>2. ending = "no" /\ replies = <<>>
      BY <2>2, <3>1 DEF ReadOwed, StatusArrives, StatusWaitsForAReply, Ending
    <3>3. wire # <<>>
      BY <1>1, <3>1, <3>2, ConcatEmptySeq
    <3>4. Head(wire) # Hello
      BY <1>3, <3>3, HeadReached
    <3> QED
      BY <3>2, <3>3, <3>4 DEF MayTake
  <2> QED
    BY <2>1, <2>2 DEF ServedOwed
<1> QED
  BY <1>2, <1>3

LEMMA FillLeavesStarted ==
    ASSUME NEW q, NEW p, NEW w, NEW out, Sound(w), IsStarted(w),
           FillWritePipeline(q, p, w, out)
    PROVE  /\ write'.state = w.state
           /\ ~(IsOpen(w) /\ handshake) => wire' = out
<1>1. \/ write' = MarkIdle(w)
      \/ write' = Write(w)
      \/ write' = w
  BY DEF FillWritePipeline, Restarted
<1>2. MarkIdle(w).state = w.state /\ Write(w).state = w.state
  BY StreamOperations
<1> QED
  BY <1>1, <1>2 DEF FillWritePipeline

(* The step leaves the call as it is.                                      *)
LEMMA StageStays ==
    ASSUME UNCHANGED <<handshake, replies, ending>>,
           write'.state = write.state,
           ~handshake => wire' = wire
    PROVE  Stage' = Stage
BY DEF Stage, ReadOwed, StatusArrives

(* What the client reads takes the call, or the oldest write, further.     *)
LEMMA ReadingAdvances ==
    ASSUME RemoteInv, Busy, Responses
    PROVE  \/ Settled' = Settled + 1
           \/ /\ UNCHANGED <<queue, written, enabled>>
              /\ Stage = 3 /\ Stage' \in {4, 5}
<1>1. CASE HandshakeCompletes
  <2>1. ~handshake /\ replies # <<>> /\ handshake' /\ UNCHANGED <<queue, written, enabled>>
    BY <1>1 DEF HandshakeCompletes, IsWriteResult, Reading, queueVars
  <2> QED
    BY <2>1 DEF Stage
<1>2. CASE MutationResult \/ WriteStreamRefused
  <2>1. pipeline # <<>>
    BY BusyStream
  <2>2. written' = written /\ queue' = Tail(queue) /\ queue # <<>>
    BY <1>2, <2>1, OldestAnswered
       DEF MutationResult, WriteStreamRefused, AnswerWrite
  <2>3. queue \in Seq(Batch) /\ written \in Nat
    BY WriteAssumption DEF RemoteInv, QueueInv, QueueTypeOK
  <2>4. Len(queue') = Len(queue) - 1 /\ Len(queue) \in Nat
    BY <2>2, <2>3, HeadTailProperties
  <2>5. Settled' = written' - Len(queue')
    BY DEF Settled
  <2>6. Settled' = Settled + 1
    BY <2>2, <2>3, <2>4, <2>5 DEF Settled
  <2> QED
    BY <2>6
<1> QED
  BY <1>1, <1>2 DEF Responses

(* So does what the backend, the timers and the token provider owe.        *)
LEMMA ServingAdvances ==
    ASSUME RemoteInv, Busy, WriteServed
    PROVE  /\ UNCHANGED <<queue, written, enabled>>
           /\ Stage \in {0, 1, 2, 4, 5}
           /\ Stage' \in Stage + 1 .. 5 \/ (Stage = 5 /\ Stage' = 5)
<1>1. Sound(write) /\ (handshake => IsOpen(write)) /\ handshake \in BOOLEAN
  BY DEF RemoteInv, WriteInv
<1>2. CASE WriteBackoffElapses
  <2>1. ~IsOpen(write) /\ ~handshake /\ write'.state = "Starting"
    BY <1>1, <1>2 DEF WriteBackoffElapses, IsOpen, BackoffElapsed,
       RequestCredentials, Sound, Stream
  <2>2. replies = <<>> /\ wire = <<>> /\ write.state # "Starting"
    BY <1>2, <2>1, BeforeHandshake DEF WriteBackoffElapses
  <2>3. UNCHANGED <<queue, written, enabled, handshake, replies, wire>>
    BY <1>2 DEF WriteBackoffElapses, queueVars, callVars
  <2> QED
    BY <2>1, <2>2, <2>3 DEF Stage
<1>3. CASE WriteTokenArrives("now")
  <2>1. write.state = "Starting" /\ ~IsOpen(write) /\ ~handshake
    BY <1>1, <1>3 DEF WriteTokenArrives, Sound, Counts, IsOpen
  <2>2. replies = <<>> /\ wire = <<>>
    BY <2>1, BeforeHandshake
  <2>3. UNCHANGED <<queue, written, enabled, handshake, replies>> /\ wire' = <<Hello>>
    BY <1>3 DEF WriteTokenArrives, queueVars, Counts
  <2> QED
    BY <2>1, <2>2, <2>3 DEF Stage
<1>4. CASE AcceptHandshake
  <2>1. ~handshake
    BY <1>4, HeadReached DEF AcceptHandshake
  <2>2. replies = <<>> /\ wire # <<>>
    BY <1>4, <2>1, BeforeHandshake DEF AcceptHandshake
  <2>3. /\ UNCHANGED <<queue, written, enabled, handshake>>
        /\ replies' = Append(<<>>, Hello)
    BY <1>4, <2>2 DEF AcceptHandshake, queueVars
  <2>4. replies' # <<>>
    BY <2>3
  <2> QED
    BY <2>1, <2>2, <2>3, <2>4 DEF Stage
<1>5. CASE TakeWrite
  <2>1. MayTake
    BY <1>5 DEF TakeWrite, CommitWrite, RefuseWrite
  <2>2. handshake
    BY <2>1, BeforeHandshake DEF MayTake
  <2>3. UNCHANGED <<queue, written, enabled, handshake>>
    BY <1>5 DEF TakeWrite, CommitWrite, RefuseWrite
  <2>4. ReadOwed'
    <3>1. CASE CommitWrite
      <4>1. replies \in Seq(Request) /\ wire \in Seq(Request) /\ wire # <<>>
        BY <2>1 DEF RemoteInv, WriteInv, MayTake
      <4>2. replies' = Append(replies, Head(wire)) /\ Head(wire) \in Request
        BY <3>1, <4>1 DEF CommitWrite
      <4>3. replies' # <<>>
        BY <4>1, <4>2
      <4>4. ending' = "no"
        BY <3>1, <2>1 DEF CommitWrite, MayTake
      <4> QED
        BY <4>3, <4>4 DEF ReadOwed
    <3>2. CASE RefuseWrite
      BY <3>2 DEF RefuseWrite, ReadOwed, StatusArrives
    <3> QED
      BY <1>5, <3>1, <3>2 DEF TakeWrite
  <2> QED
    BY <2>2, <2>3, <2>4 DEF Stage
<1> QED
  BY <1>2, <1>3, <1>4, <1>5 DEF WriteServed

(* Without failures, nothing takes the oldest write further from its       *)
(* answer.                                                                 *)
LEMMA StageNeverFalls ==
    ASSUME RemoteInv, RemoteInv', Busy, [Next]_vars, [~WriteDisturbed]_vars
    PROVE  \/ Settled' = Settled + 1
           \/ /\ Settled' = Settled /\ Busy'
              /\ Stage' = Stage \/ (Stage \in 0 .. 5 /\ Stage' \in Stage + 1 .. 5)
<1>1. Sound(write) /\ IsStarted(write) /\ ~write.idle
  BY BusyStream DEF RemoteInv, WriteInv
<1>2. (handshake => IsOpen(write)) /\ handshake \in BOOLEAN /\ enabled
  BY DEF RemoteInv, WriteInv, Busy
<1>3. CASE UNCHANGED <<queueVars, enabled, write, pipeline, callVars>>
  BY <1>3, StageStays DEF queueVars, callVars, Settled, Busy
<1>4. CASE WriteMutations
  <2>1. /\ UNCHANGED <<enabled, handshake, replies, ending>>
        /\ written' = written + 1 /\ queue' = Append(queue, written')
        /\ FillWritePipeline(queue', pipeline, write, wire)
    BY <1>4 DEF WriteMutations
  <2>2. write'.state = write.state /\ (~handshake => wire' = wire)
    <3>1. \A q : FillWritePipeline(q, pipeline, write, wire) =>
             write'.state = write.state /\ (~handshake => wire' = wire)
      BY <1>1, FillLeavesStarted
    <3> QED
      BY <2>1, <3>1
  <2>3. Stage' = Stage
    BY <2>1, <2>2, StageStays
  <2>4. queue \in Seq(Batch) /\ written \in Nat /\ written' \in Batch
    BY <1>4, <2>1, WriteAssumption
       DEF WriteMutations, RemoteInv, QueueInv, QueueTypeOK, Batch
  <2>5. Len(queue') = Len(queue) + 1 /\ queue' # <<>> /\ Len(queue) \in Nat
    BY <2>1, <2>4
  <2> QED
    BY <2>1, <2>3, <2>4, <2>5 DEF Settled, Busy
<1>5. CASE EnableNetwork
  <2>1. /\ UNCHANGED <<queue, written, handshake, replies, ending>>
        /\ enabled' = TRUE
        /\ FillWritePipeline(queue, pipeline, write, wire)
    BY <1>5 DEF EnableNetwork, Enable, queueVars
  <2>2. write'.state = write.state /\ (~handshake => wire' = wire)
    BY <1>1, <2>1, FillLeavesStarted
  <2> QED
    BY <2>1, <2>2, StageStays DEF Settled, Busy
<1>6. CASE WriteTokenArrives("before")
  <2>1. write' = Answered(write, "before") /\ wire' = wire
        /\ UNCHANGED <<queue, written, enabled, handshake, replies, ending>>
    BY <1>6 DEF WriteTokenArrives, Counts, queueVars
  <2>2. write'.state = write.state
    BY <1>1, <2>1 DEF Answered, Sound, Stream
  <2> QED
    BY <2>1, <2>2, StageStays DEF Settled, Busy
<1>7. CASE LaterWriteFails
  <2>1. /\ UNCHANGED <<queue, written, enabled, handshake, replies>>
        /\ ending = "sent"
        /\ ending' = IF replies = <<>> THEN "now" ELSE "next"
    BY <1>7 DEF LaterWriteFails, queueVars
  <2>2. handshake
    BY <2>1, BeforeHandshake
  <2>3. ReadOwed /\ ReadOwed'
    BY <2>1 DEF ReadOwed, StatusArrives
  <2> QED
    BY <2>1, <2>2, <2>3 DEF Stage, Settled, Busy
<1>8. CASE WriteServed
  BY <1>8, ServingAdvances DEF Settled, Busy
<1>9. CASE Responses
  <2>1. CASE Settled' = Settled + 1
    BY <2>1
  <2>2. CASE UNCHANGED <<queue, written, enabled>> /\ Stage = 3 /\ Stage' \in {4, 5}
    <3>1. Settled' = Settled /\ Busy'
      BY <2>2 DEF Settled, Busy
    <3>2. Stage \in 0 .. 5 /\ Stage' \in Stage + 1 .. 5
      BY <2>2
    <3> QED
      BY <3>1, <3>2
  <2> QED
    BY <1>9, <2>1, <2>2, ReadingAdvances
<1>10. CASE UNCHANGED vars
  BY <1>3, <1>10 DEF vars
<1>11. CASE \/ WatchTokenFails \/ WatchStreamBreaks \/ WatchBackoffElapses
            \/ WatchIdles \/ OnlineTimerElapses \/ WatchChange
            \/ \E t \in Targets : Listen(t) \/ StopListening(t) \/ ListenRejected(t)
            \/ \E when \in {"now", "before"} : WatchTokenArrives(when)
  BY <1>3, <1>11
     DEF OthersUnchanged, WatchTokenFails, WatchStreamBreaks,
         WatchBackoffElapses, WatchIdles, OnlineTimerElapses, WatchChange,
         Listen, StopListening, ListenRejected, WatchTokenArrives
<1>12. ~WriteIdles
  BY <1>1 DEF WriteIdles
<1>13. (Next /\ ~WriteDisturbed) \/ UNCHANGED vars
  OBVIOUS
<1> QED
  BY <1>4, <1>5, <1>6, <1>7, <1>8, <1>9, <1>10, <1>11, <1>12, <1>13
     DEF Next, WriteDisturbed, Application, Process, Faults, Timers, Auth,
         Backend, WriteServed

(* What weak fairness asks: that the actions can run whenever their guards *)
(* hold (they give every variable a next value, and change one).  ENABLED  *)
(* is not expanded by the provers, so this is a hypothesis below.          *)
WriteStepsCanRun ==
    /\ ServedOwed => ENABLED <<WriteServed>>_vars
    /\ ReadOwed => ENABLED <<Responses>>_vars

(* Nothing waits for nothing: as long as a write is pending and the        *)
(* network is enabled, a timer, a token, the backend or a response that    *)
(* can be read is due, whatever failed and was restarted before.           *)
THEOREM RemoteWorkIsOwed == Spec => [](Busy => ServedOwed \/ ReadOwed)
<1>1. RemoteInv /\ StatusWaitsForAReply => (Busy => ServedOwed \/ ReadOwed)
  <2> SUFFICES ASSUME RemoteInv, StatusWaitsForAReply, Busy
               PROVE  ServedOwed \/ ReadOwed
    OBVIOUS
  <2> QED
    BY StageIsOwed
<1> QED
  BY <1>1, RemoteInvariant, StatusWaits, PTL

(* From any point after which the network stays enabled and the write      *)
(* stream is not disturbed.                                                *)
Undisturbed == []enabled /\ [][~WriteDisturbed]_vars

(* Then the oldest write is answered, however many are pending and         *)
(* whatever the watch stream does meanwhile.                               *)
OldestIsAnswered(m) ==
    [](Undisturbed => (queue # <<>> /\ Settled = m ~> Settled > m))

THEOREM RemoteOldestIsAnswered ==
    ASSUME NEW m \in Nat
    PROVE  FairSpec /\ []WriteStepsCanRun => OldestIsAnswered(m)
<1> DEFINE At(k) == Busy /\ Settled = m /\ Stage = k
           Beyond(k) == Busy /\ Settled = m /\ Stage \in k + 1 .. 5
           Running == /\ []RemoteInv /\ []StatusWaitsForAReply
                      /\ [][Next]_vars /\ Undisturbed /\ []WriteStepsCanRun
                      /\ WF_vars(WriteServed) /\ WF_vars(Responses)
           Advances(k) == At(k) ~> Settled > m \/ Beyond(k)
<1> HIDE DEF Running, Advances
<1>1. ASSUME NEW k \in 0 .. 5
      PROVE  Running => Advances(k)
  <2>1. At(k) /\ RemoteInv /\ RemoteInv' /\ [Next]_vars /\ [~WriteDisturbed]_vars =>
           At(k)' \/ (Settled > m)' \/ Beyond(k)'
    <3> SUFFICES ASSUME At(k), RemoteInv, RemoteInv', [Next]_vars, [~WriteDisturbed]_vars
                 PROVE  At(k)' \/ (Settled > m)' \/ Beyond(k)'
      OBVIOUS
    <3>1. \/ Settled' = Settled + 1
          \/ /\ Settled' = Settled /\ Busy'
             /\ Stage' = Stage \/ Stage' \in Stage + 1 .. 5
      BY StageNeverFalls
    <3> HIDE DEF Settled, Busy, Stage
    <3> QED
      BY <3>1
  <2>2. At(k) /\ RemoteInv /\ StatusWaitsForAReply =>
           (k \in {0, 1, 2, 4} /\ ServedOwed) \/ (k \in {3, 5} /\ ReadOwed)
    <3> SUFFICES ASSUME At(k), RemoteInv, StatusWaitsForAReply
                 PROVE  (k \in {0, 1, 2, 4} /\ ServedOwed) \/ (k \in {3, 5} /\ ReadOwed)
      OBVIOUS
    <3> QED
      BY StageIsOwed
  <2>3. k \in {0, 1, 2, 4} /\ At(k) /\ RemoteInv /\ <<WriteServed>>_vars =>
           (Settled > m)' \/ Beyond(k)'
    <3> SUFFICES ASSUME k \in {0, 1, 2, 4}, At(k), RemoteInv, WriteServed
                 PROVE  Beyond(k)'
      OBVIOUS
    <3>1. UNCHANGED <<queue, written, enabled>> /\ Stage' \in k + 1 .. 5
      BY ServingAdvances
    <3> QED
      BY <3>1 DEF Settled, Busy
  <2>4. k \in {3, 5} /\ At(k) /\ RemoteInv /\ <<Responses>>_vars =>
           (Settled > m)' \/ Beyond(k)'
    <3> SUFFICES ASSUME k \in {3, 5}, At(k), RemoteInv, Responses
                 PROVE  (Settled > m)' \/ Beyond(k)'
      OBVIOUS
    <3>1. CASE Settled' = Settled + 1
      BY <3>1
    <3>2. CASE UNCHANGED <<queue, written, enabled>> /\ Stage = 3 /\ Stage' \in {4, 5}
      <4>1. Settled' = Settled /\ Busy'
        BY <3>2 DEF Settled, Busy
      <4> QED
        BY <3>2, <4>1
    <3> QED
      BY <3>1, <3>2, ReadingAdvances
  <2>5. WriteStepsCanRun => /\ ServedOwed => ENABLED <<WriteServed>>_vars
                            /\ ReadOwed => ENABLED <<Responses>>_vars
    BY DEF WriteStepsCanRun
  <2> HIDE DEF At, Beyond
  <2>6. CASE k \in {0, 1, 2, 4}
    <3>1. At(k) /\ RemoteInv /\ StatusWaitsForAReply => ServedOwed
      BY <2>2, <2>6
    <3>2. At(k) /\ RemoteInv /\ <<WriteServed>>_vars => (Settled > m)' \/ Beyond(k)'
      BY <2>3, <2>6
    <3> QED
      BY <2>1, <2>5, <3>1, <3>2, PTL DEF Running, Advances, Undisturbed
  <2>7. CASE k \in {3, 5}
    <3>1. At(k) /\ RemoteInv /\ StatusWaitsForAReply => ReadOwed
      BY <2>2, <2>7
    <3>2. At(k) /\ RemoteInv /\ <<Responses>>_vars => (Settled > m)' \/ Beyond(k)'
      BY <2>4, <2>7
    <3> QED
      BY <2>1, <2>5, <3>1, <3>2, PTL DEF Running, Advances, Undisturbed
  <2> QED
    BY <2>6, <2>7
<1>2. /\ Beyond(0) => At(1) \/ Beyond(1)
      /\ Beyond(1) => At(2) \/ Beyond(2)
      /\ Beyond(2) => At(3) \/ Beyond(3)
      /\ Beyond(3) => At(4) \/ Beyond(4)
      /\ Beyond(4) => At(5)
      /\ ~Beyond(5)
  OBVIOUS
<1>3. enabled /\ RemoteInv /\ StatusWaitsForAReply /\ queue # <<>> /\ Settled = m =>
         At(0) \/ Beyond(0)
  <2> SUFFICES ASSUME enabled, RemoteInv, StatusWaitsForAReply, queue # <<>>, Settled = m
               PROVE  At(0) \/ Beyond(0)
    OBVIOUS
  <2>1. Busy /\ Stage \in 0 .. 5
    BY StageIsOwed DEF Busy
  <2> QED
    BY <2>1
<1>4. Running => /\ Advances(0) /\ Advances(1) /\ Advances(2)
                 /\ Advances(3) /\ Advances(4) /\ Advances(5)
  BY <1>1
<1> HIDE DEF At, Beyond
<1>5. Running => (queue # <<>> /\ Settled = m ~> Settled > m)
  BY <1>2, <1>3, <1>4, PTL DEF Running, Advances, Undisturbed
<1>6. FairSpec /\ []WriteStepsCanRun => [](Undisturbed => Running)
  BY RemoteInvariant, StatusWaits, PTL DEF FairSpec, Spec, Running
<1> QED
  BY <1>5, <1>6, PTL DEF OldestIsAnswered

(* All but n of the writes that the bound allows are answered.             *)
AllBut(n) == Settled >= MaxWrites - n

Drains(n) == Undisturbed /\ AllBut(n) ~> queue = <<>>

Served == FairSpec /\ []WriteStepsCanRun

LEMMA SettledOfWritten ==
    ASSUME RemoteInv
    PROVE  /\ Settled \in Nat
           /\ Settled <= MaxWrites
           /\ queue # <<>> => Settled < MaxWrites
<1>1. /\ queue \in Seq(Batch) /\ written \in 0 .. MaxWrites
      /\ Settled \in Nat /\ Settled = written - Len(queue)
  BY DEF RemoteInv, QueueInv, QueueInterval, QueueTypeOK, Settled
<1>2. Len(queue) \in Nat /\ (queue # <<>> => Len(queue) # 0)
  BY <1>1
<1> QED
  BY <1>1, <1>2, WriteAssumption

LEMMA DrainsAtZero == Served => Drains(0)
<1>1. RemoteInv /\ AllBut(0) => queue = <<>>
  <2> SUFFICES ASSUME RemoteInv, AllBut(0), queue # <<>>
               PROVE  FALSE
    OBVIOUS
  <2>1. Settled >= MaxWrites - 0
    BY DEF AllBut
  <2>2. Settled \in Nat /\ Settled < MaxWrites /\ MaxWrites \in Nat
    BY SettledOfWritten, WriteAssumption
  <2> HIDE DEF Settled
  <2> QED
    BY <2>1, <2>2
<1> QED
  BY <1>1, RemoteInvariant, PTL DEF Served, FairSpec, Drains

LEMMA DrainsFromOneMore ==
    ASSUME NEW n \in Nat
    PROVE  Served => (Drains(n) => Drains(n + 1))
<1>1. CASE n + 1 <= MaxWrites
  <2> DEFINE m == MaxWrites - (n + 1)
  <2>1. m \in Nat
    BY <1>1, WriteAssumption
  <2>2. Served => OldestIsAnswered(m)
    BY <2>1, RemoteOldestIsAnswered DEF Served
  <2>3. RemoteInv => (AllBut(n + 1) => AllBut(n) \/ queue = <<>>
                                          \/ (queue # <<>> /\ Settled = m))
    <3> SUFFICES ASSUME RemoteInv, AllBut(n + 1), queue # <<>>
                 PROVE  AllBut(n) \/ Settled = m
      OBVIOUS
    <3>1. Settled \in Nat
      BY SettledOfWritten
    <3> HIDE DEF Settled
    <3> QED
      BY <3>1, WriteAssumption DEF AllBut
  <2>4. RemoteInv => (Settled > m => AllBut(n))
    <3> SUFFICES ASSUME RemoteInv, Settled > m
                 PROVE  AllBut(n)
      OBVIOUS
    <3>1. Settled \in Nat
      BY SettledOfWritten
    <3> HIDE DEF Settled
    <3> QED
      BY <3>1, WriteAssumption DEF AllBut
  <2> HIDE DEF m
  <2> QED
    BY <2>2, <2>3, <2>4, RemoteInvariant, PTL
       DEF Served, FairSpec, Drains, OldestIsAnswered, Undisturbed
<1>2. CASE ~(n + 1 <= MaxWrites)
  <2>1. RemoteInv => (AllBut(n + 1) => AllBut(n))
    <3> SUFFICES ASSUME RemoteInv
                 PROVE  AllBut(n)
      OBVIOUS
    <3>1. Settled \in Nat
      BY SettledOfWritten
    <3> HIDE DEF Settled
    <3> QED
      BY <1>2, <3>1, WriteAssumption DEF AllBut
  <2> QED
    BY <2>1, RemoteInvariant, PTL DEF Served, FairSpec, Drains, Undisturbed
<1> QED
  BY <1>1, <1>2

(* What drains from n left drains from k more, and two such steps make one *)
(* of k + k: the provers have no induction over formulas of temporal       *)
(* logic, but sixteen doublings reach 65536 writes.                        *)
DrainsFrom(k) == \A n \in Nat : Served => (Drains(n) => Drains(n + k))

LEMMA DrainsTwice ==
    ASSUME NEW k \in Nat, DrainsFrom(k)
    PROVE  DrainsFrom(k + k)
<1> SUFFICES ASSUME NEW n \in Nat
             PROVE  Served => (Drains(n) => Drains(n + (k + k)))
  BY DEF DrainsFrom
<1>1. Served => (Drains(n) => Drains(n + k))
  BY DEF DrainsFrom
<1>2. Served => (Drains(n + k) => Drains((n + k) + k))
  BY DEF DrainsFrom
<1>3. (n + k) + k = n + (k + k)
  OBVIOUS
<1> HIDE DEF Served, Drains
<1> QED
  BY <1>1, <1>2, <1>3

\* How many writes the proof reaches; any power of two would do.
Most == 65536

LEMMA DrainsMost == Served => Drains(Most)
<1> HIDE DEF Served, Drains, DrainsFrom
<1>0. DrainsFrom(1)
  BY DrainsFromOneMore DEF DrainsFrom
<1>1. DrainsFrom(2)
  BY <1>0, DrainsTwice, 1 + 1 = 2
<1>2. DrainsFrom(4)
  BY <1>1, DrainsTwice, 2 + 2 = 4
<1>3. DrainsFrom(8)
  BY <1>2, DrainsTwice, 4 + 4 = 8
<1>4. DrainsFrom(16)
  BY <1>3, DrainsTwice, 8 + 8 = 16
<1>5. DrainsFrom(32)
  BY <1>4, DrainsTwice, 16 + 16 = 32
<1>6. DrainsFrom(64)
  BY <1>5, DrainsTwice, 32 + 32 = 64
<1>7. DrainsFrom(128)
  BY <1>6, DrainsTwice, 64 + 64 = 128
<1>8. DrainsFrom(256)
  BY <1>7, DrainsTwice, 128 + 128 = 256
<1>9. DrainsFrom(512)
  BY <1>8, DrainsTwice, 256 + 256 = 512
<1>10. DrainsFrom(1024)
  BY <1>9, DrainsTwice, 512 + 512 = 1024
<1>11. DrainsFrom(2048)
  BY <1>10, DrainsTwice, 1024 + 1024 = 2048
<1>12. DrainsFrom(4096)
  BY <1>11, DrainsTwice, 2048 + 2048 = 4096
<1>13. DrainsFrom(8192)
  BY <1>12, DrainsTwice, 4096 + 4096 = 8192
<1>14. DrainsFrom(16384)
  BY <1>13, DrainsTwice, 8192 + 8192 = 16384
<1>15. DrainsFrom(32768)
  BY <1>14, DrainsTwice, 16384 + 16384 = 32768
<1>16. DrainsFrom(65536)
  BY <1>15, DrainsTwice, 32768 + 32768 = 65536
<1>17. Served => (Drains(0) => Drains(0 + 65536))
  BY <1>16 DEF DrainsFrom
<1> QED
  BY <1>17, DrainsAtZero, 0 + 65536 = Most DEF Most

(* Every write is answered, for up to Most writes, any number of slots of  *)
(* the pipeline and any targets the watch stream is busy with: once the    *)
(* network stays enabled and the write stream fails no more, the queue is  *)
(* empty again and again.                                                  *)
THEOREM RemoteWritesAreAnswered ==
    MaxWrites <= Most => (FairSpec /\ []WriteStepsCanRun => WritesAreAnswered)
<1> SUFFICES ASSUME MaxWrites <= Most
             PROVE  Served => WritesAreAnswered
  BY DEF Served
<1>1. RemoteInv => AllBut(Most)
  <2> SUFFICES ASSUME RemoteInv
               PROVE  AllBut(Most)
    OBVIOUS
  <2>1. Settled \in Nat /\ Most \in Nat
    BY SettledOfWritten DEF Most
  <2> HIDE DEF Settled
  <2> QED
    BY <2>1, WriteAssumption DEF AllBut
<1> QED
  BY <1>1, DrainsMost, RemoteInvariant, PTL
     DEF Served, FairSpec, Spec, Drains, Undisturbed, WritesAreAnswered

=============================================================================
