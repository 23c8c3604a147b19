---------------------------- MODULE ThoughtFeed -----------------------------
(***************************************************************************)
(* The list of thoughts: MainViewController.swift on top of the Firestore  *)
(* client.  By itself this module is the screen from its first appearance  *)
(* on, with no composer to leave it for; Rndm.tla adds the composer.       *)
(***************************************************************************)
EXTENDS FirestoreClient

VARIABLES
    selectedCategory,  \* the category of the segmented control
    thoughsList,       \* the rows, a sequence of documents
    thoughtsListener   \* the last registration made; 0: none yet

feedVars == <<selectedCategory, thoughsList, thoughtsListener>>
vars == <<clientVars, feedVars>>

Segments == Categories \cup {"Popular"}

FeedTypeOK ==
    /\ selectedCategory \in Segments
    /\ thoughsList \in Seq(Thought)
    /\ thoughtsListener \in 0 .. MaxListeners

FeedInit ==
    /\ selectedCategory = "Funny"
    /\ thoughsList = <<>>
    /\ thoughtsListener = 0

-----------------------------------------------------------------------------
Made == {r \in Reg : query[r] # None}
NextListener == thoughtsListener + 1

(* setListener and setPopularListener: a new registration takes the place  *)
(* of the one thoughtsListener held.  calls are the API calls made just    *)
(* before by the same handler.                                             *)
AddSnapshotListener(q, calls) ==
    /\ NextListener \in Reg
    /\ query' = [query EXCEPT ![NextListener] = q]
    /\ thoughtsListener' = NextListener
    /\ workQ' = workQ \o Append(calls, Listen(NextListener))

(* viewWillAppear: setListener, whatever the segment, and with nothing     *)
(* removed.                                                                *)
ViewWillAppear ==
    /\ AddSnapshotListener(selectedCategory, <<>>)
    /\ UNCHANGED <<muted, selectedCategory, thoughsList>>

QueryOf(segment) == IF segment = "Popular" THEN "All" ELSE segment

\* Mutant of CategoryChanged: the old listener is not removed.
CategoryChangedKeeps(segment) ==
    /\ thoughtsListener # 0
    /\ segment # selectedCategory
    /\ selectedCategory' = segment
    /\ AddSnapshotListener(QueryOf(segment), <<>>)
    /\ UNCHANGED <<muted, thoughsList>>

(* categoryChanged: the control reports only changes.                      *)
CategoryChanged(segment) ==
    /\ thoughtsListener # 0
    /\ segment # selectedCategory
    /\ selectedCategory' = segment
    /\ muted' = muted \cup {thoughtsListener}
    /\ AddSnapshotListener(QueryOf(segment), <<Unlisten(thoughtsListener)>>)
    /\ UNCHANGED thoughsList

\* Mutant of Emptied: removeAll is not called.
EmptiedNot(list) == list

\* thoughsList.removeAll()
Emptied(list) == <<>>

(* getAndDecodeData appends one row per document.  Its search for a row of *)
(* the same document never finds one: no Thought is given a documentID.    *)
Decoded(list, docs) == list \o SetToSeq(docs)

MainHead(kind) == mainQ # <<>> /\ Head(mainQ).kind = kind

(* A snapshot arrives on the main queue: dropped if its listener was       *)
(* removed meanwhile (AsyncEventListener::OnEvent), else it replaces the   *)
(* rows.                                                                   *)
OnSnapshot ==
    LET m == Head(mainQ)
    IN  /\ MainHead("event")
        /\ mainQ' = Tail(mainQ)
        /\ thoughsList' = IF m.reg \in muted THEN thoughsList
                                             ELSE Decoded(Emptied(thoughsList), m.docs)
        /\ UNCHANGED <<selectedCategory, thoughtsListener>>

(* An error is printed and the rows are left as they are.                  *)
OnListenError ==
    /\ MainHead("error")
    /\ mainQ' = Tail(mainQ)
    /\ UNCHANGED feedVars

ClientUnchanged == UNCHANGED <<networkVars, storeVars, listenVars>>

-----------------------------------------------------------------------------
Init == ClientInit /\ FeedInit

User == \E segment \in Segments : CategoryChanged(segment)

Main ==
    /\ OnSnapshot \/ OnListenError
    /\ ClientUnchanged /\ UNCHANGED <<apiVars, workQ>>

Next ==
    \/ thoughtsListener = 0 /\ ViewWillAppear /\ ClientUnchanged /\ UNCHANGED mainQ
    \/ User /\ ClientUnchanged /\ UNCHANGED mainQ
    \/ Main
    \/ Worker /\ UNCHANGED feedVars
    \/ Network /\ UNCHANGED feedVars

\* The backend keeps sending what a listened query has come to.
Refreshes(q) == WF_vars(Watch(q) /\ UNCHANGED feedVars)

(* Both queues are served, and so is a client that stays connected.        *)
Fairness ==
    /\ WF_vars(Main)
    /\ WF_vars(Worker /\ UNCHANGED feedVars)
    /\ \A q \in Query : Refreshes(q)

Spec == Init /\ [][Next]_vars /\ Fairness

-----------------------------------------------------------------------------
TypeOK == ClientTypeOK /\ FeedTypeOK

Rows == ToSet(thoughsList)

(* No thought is shown twice: each snapshot replaces the rows, and none is *)
(* added to what another left (:67-68, :81-82).                            *)
NoDuplicates == IsInjective(thoughsList)

(* Whatever changes the rows brings the selected category, from the moment *)
(* it is selected: a snapshot of an earlier selection that is still on its *)
(* way is dropped (:51-55 with event_listener.h:121-138).                  *)
UpdatesAreOfSelection ==
    [][thoughsList' # thoughsList =>
          ToSet(thoughsList') \subseteq Match(QueryOf(selectedCategory))]_vars

(* Once nothing is on its way, the rows are what the local store has for   *)
(* the selection, unless its listener failed or, connected, still waits    *)
(* for its first answer: no change of the store is missed.                 *)
Quiet == workQ = <<>> /\ mainQ = <<>>

QuietRowsAreCurrent ==
    Quiet /\ thoughtsListener \in raised =>
        Rows = Result(QueryOf(selectedCategory))

(* If the user settles on a category and the connection holds, the rows    *)
(* come to be the backend's thoughts of that category, or the listener was *)
(* refused (:74-86).                                                       *)
Converges ==
    (<>[][~User]_vars /\ <>[]online) =>
        <>[](\/ Rows = server \cap Match(QueryOf(selectedCategory))
             \/ thoughtsListener \notin registered)

=============================================================================
