-------------------------------- MODULE Rndm --------------------------------
(***************************************************************************)
(* RNDM as a whole: the list, the composer pushed on it, the Firestore     *)
(* client they share, and the navigation between them.  Whenever the       *)
(* composer is popped the list appears again, and viewWillAppear adds a    *)
(* listener to the one that is there already.                              *)
(***************************************************************************)
EXTENDS ThoughtFeed, ThoughtComposer

rndmVars == <<vars, composerVars>>

RndmInit ==
    /\ ClientInit
    /\ FeedInit
    /\ ComposerInit

-----------------------------------------------------------------------------
FirstAppearance ==
    /\ thoughtsListener = 0
    /\ ViewWillAppear
    /\ ClientUnchanged
    /\ UNCHANGED <<mainQ, composerVars>>

SelectSegment(s) ==
    /\ screen = None
    /\ CategoryChanged(s)
    /\ ClientUnchanged
    /\ UNCHANGED <<mainQ, composerVars>>

\* The bound on listeners leaves one for the appearance after the composer.
ShowComposer(c) ==
    /\ thoughtsListener # 0
    /\ NextListener \in Reg
    /\ OpenComposer(c)
    /\ UNCHANGED vars

ComposerTouched(c) ==
    /\ EditUsername(c) \/ SegmentChanged(c) \/ NameMissing(c)
    /\ UNCHANGED vars

PostThought(c, d) ==
    /\ Post(c, d)
    /\ ClientUnchanged
    /\ UNCHANGED <<apiVars, mainQ, feedVars>>

Back(c) ==
    /\ screen = c
    /\ PopScreen
    /\ ViewWillAppear
    /\ ClientUnchanged
    /\ UNCHANGED mainQ

OnAnswer ==
    /\ MainHead("ack")
    /\ mainQ' = Tail(mainQ)
    /\ IF Pops(Head(mainQ))
       THEN PopScreen /\ ViewWillAppear
       ELSE UNCHANGED <<composerVars, feedVars, apiVars, workQ>>
    /\ ClientUnchanged

MainQueue == OnAnswer \/ (Main /\ UNCHANGED composerVars)

(* The process ends and is launched again.  The local store, with its      *)
(* pending mutations but without their completions, is on disk.            *)
Relaunch ==
    /\ outbox' = [i \in DOMAIN outbox |-> [outbox[i] EXCEPT !.from = None]]
    /\ query' = [r \in Reg |-> None]
    /\ muted' = {} /\ registered' = {} /\ raised' = {} /\ synced' = {}
    /\ workQ' = <<>> /\ mainQ' = <<>>
    /\ selectedCategory' = "Funny"
    /\ thoughsList' = <<>>
    /\ thoughtsListener' = 0
    /\ screen' = None /\ opened' = {}
    /\ username' = ""
    /\ segment' = "Funny"
    /\ postedBy' = [d \in Mine |-> None]
    /\ UNCHANGED <<networkVars, cache, acked, author>>

RndmNext ==
    \/ FirstAppearance
    \/ \E s \in Segments : SelectSegment(s)
    \/ \E c \in Composer :
          \/ ShowComposer(c)
          \/ ComposerTouched(c)
          \/ \E d \in Mine : PostThought(c, d)
          \/ Back(c)
    \/ MainQueue
    \/ Worker /\ UNCHANGED <<feedVars, composerVars>>
    \/ Network /\ UNCHANGED <<feedVars, composerVars>>
    \/ Relaunch

(* As in ThoughtFeed, and while the backend can be reached the oldest      *)
(* pending write is answered, one way or the other.                        *)
RndmFairness ==
    /\ WF_rndmVars(MainQueue)
    /\ WF_rndmVars(Worker /\ UNCHANGED <<feedVars, composerVars>>)
    /\ WF_rndmVars((Acknowledge \/ RejectWrite) /\ UNCHANGED <<feedVars, composerVars>>)

RndmSpec == RndmInit /\ [][RndmNext]_rndmVars /\ RndmFairness

-----------------------------------------------------------------------------
Kept == Made \ muted

(* However many listeners the appearances left behind, once nothing is on  *)
(* its way the rows are the whole current result of one listener that was  *)
(* not removed: never a mixture, and never a result the store has moved on *)
(* from, own unsent thoughts included (MainViewController.swift:60-92).    *)
QuietRowsAreOfAKeptListener ==
    Quiet /\ Kept # {} /\ Kept \subseteq raised =>
        \E r \in Kept : Rows = Result(query[r])

(* The composer closes by itself only when a thought it added itself is on *)
(* the backend: not for an error, and not for the late answer to an        *)
(* earlier composer (ThoughtViewController.swift:41-46).                   *)
ClosesOnlyWhenStored ==
    [][\A c \in Composer :
          screen = c /\ screen' = None =>
             \/ Back(c)
             \/ Relaunch
             \/ \E d \in Mine : postedBy[d] = c /\ d \in server]_rndmVars

\* An error for the write of d waits on the main queue for the composer c.
ErrorFor(c, d) == [kind |-> "ack", from |-> c, doc |-> d, ok |-> FALSE]
ToldAnError(c, d) == ErrorFor(c, d) \in ToSet(mainQ)

(* A thought that the local store shows disappears from it only when its   *)
(* write is answered with an error, and not without telling the composer   *)
(* that posted it, unless the process has ended since.  What was           *)
(* acknowledged, or brought by watch, stays.  The error does not mean that *)
(* the backend has not stored it (ThoughtViewController.swift:42).         *)
LostThoughtsAreReported ==
    [][\A d \in Mine : d \in LocalDocs /\ d \notin LocalDocs' =>
          /\ RejectWrite /\ d = Head(outbox).doc
          /\ postedBy[d] # None => ToldAnError(postedBy[d], d)']_rndmVars

\* The write of d is on the worker queue, or pending.
Awaited(d) ==
    \/ d \in Unsent
    \/ \E i \in DOMAIN workQ : workQ[i].op = "write" /\ workQ[i].doc = d

(* While the connection holds, a composer does not wait for ever: what it  *)
(* posted closes it, unless it is told an error, whatever is written       *)
(* before, and whether or not the backend keeps the thought (:41-46).      *)
PostsAreAnswered ==
    <>[]online =>
        \A c \in Composer, d \in Mine :
            (screen = c /\ postedBy[d] = c /\ Awaited(d)) ~> (screen # c \/ ToldAnError(c, d))

(* MainViewController.swift:94 "Remember to remove them once we stop using *)
(* them": a listener that was replaced has been removed.                   *)
ReplacedListenersAreRemoved ==
    \A r \in Made \ {thoughtsListener} : r \in muted

(* ThoughtViewController.swift:36, the name is "Required!": what is posted *)
(* carries a name that somebody entered.                                   *)
PostsCarryAName == \A d \in Mine : author[d] \in Names \cup {None}

=============================================================================
