------------------------- MODULE OnlineStateTracker -------------------------
(***************************************************************************)
(* What the client believes of its connection: remote/                     *)
(* online_state_tracker.cc, as operators on the tracker's state.  "failed" *)
(* says that watch_stream_failures_ is not 0, which is all that is asked   *)
(* of it as kMaxWatchStreamFailures is 1; "timer" is the 10 s timer.       *)
(***************************************************************************)

OnlineState == {"Unknown", "Online", "Offline"}

Tracker == [state : OnlineState, failed : BOOLEAN, timer : BOOLEAN]

NewTracker == [state |-> "Unknown", failed |-> FALSE, timer |-> FALSE]

\* Mutant of UpdateState: the timer is not cleared.
UpdateStateOnly(o, state) ==
    [state |-> state, failed |-> FALSE, timer |-> o.timer]

UpdateState(o, state) ==
    [state |-> state, failed |-> FALSE, timer |-> FALSE]

HandleWatchStreamStart(o) ==
    IF o.failed THEN o
    ELSE [state |-> "Unknown", failed |-> FALSE, timer |-> TRUE]

HandleWatchStreamFailure(o) ==
    IF o.state = "Online" THEN [o EXCEPT !.state = "Unknown"]
    ELSE [state |-> "Offline", failed |-> TRUE, timer |-> FALSE]

TimerElapsed(o) == [o EXCEPT !.state = "Offline", !.timer = FALSE]

=============================================================================
