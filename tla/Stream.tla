------------------------------- MODULE Stream -------------------------------
(***************************************************************************)
(* The state machine that the client's two streams to the backend have in  *)
(* common (remote/stream.cc), as operators on the state of one stream:     *)
(*   state  the five states of Stream::State,                              *)
(*   asked  the token requests that are under way: "now" is one made since *)
(*          the stream was last closed, "before" stands for older ones,    *)
(*   idle   whether the idle timer runs.                                   *)
(* close_count_ only ever tells "now" from "before".  The backoff timer    *)
(* runs exactly in state Backoff; how long it runs is left out.            *)
(***************************************************************************)

StreamState == {"Initial", "Starting", "Open", "Error", "Backoff"}

Stream == [state : StreamState, asked : SUBSET {"now", "before"}, idle : BOOLEAN]

NewStream == [state |-> "Initial", asked |-> {}, idle |-> FALSE]

IsOpen(s) == s.state = "Open"
IsStarted(s) == s.state \in {"Starting", "Open", "Backoff"}

RequestCredentials(s) ==
    [s EXCEPT !.state = "Starting", !.asked = @ \cup {"now"}]

(* A stream that failed backs off before it asks for a token.              *)
Start(s) == IF s.state = "Error" THEN [s EXCEPT !.state = "Backoff"]
                                 ELSE RequestCredentials(s)

BackoffElapsed(s) == RequestCredentials([s EXCEPT !.state = "Initial"])

\* Mutant of Counts: close_count_ is not compared.
CountsAlways(when) == when \in {"now", "before"}

(* The token of this request counts unless the stream was closed since.    *)
Counts(when) == when = "now"

Answered(s, when) == [s EXCEPT !.asked = @ \ {when}]

Opened(s) == [Answered(s, "now") EXCEPT !.state = "Open"]

(* Stream::Close, with an error or gracefully.                             *)
Closed(s, state) ==
    [state |-> state,
     asked |-> IF s.asked = {} THEN {} ELSE {"before"},
     idle  |-> FALSE]

Stop(s) == IF IsStarted(s) THEN Closed(s, "Initial") ELSE s

\* Clears the error condition: the next start does not back off.
InhibitBackoff(s) == [s EXCEPT !.state = "Initial"]

MarkIdle(s) == [s EXCEPT !.idle = @ \/ IsOpen(s)]

\* Mutant of Write: the idle timer goes on.
WriteWhileIdle(s) == s

Write(s) == [s EXCEPT !.idle = FALSE]

=============================================================================
