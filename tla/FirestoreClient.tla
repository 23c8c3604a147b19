-------------------------- MODULE FirestoreClient ---------------------------
(***************************************************************************)
(* The Cloud Firestore client that RNDM links (Pods/FirebaseFirestore), as *)
(* far as RNDM uses it: snapshot listeners on one collection, and adding a *)
(* document to it.                                                         *)
(*                                                                         *)
(* Three actors share this state.  The main queue runs RNDM's handlers and *)
(* the callbacks the client posts to it.  The worker queue runs what the   *)
(* API calls enqueue: event_manager.cc, sync_engine.cc.  The backend,      *)
(* through the network, brings remote documents, acknowledgements and      *)
(* rejections, which the worker queue turns into snapshots.                *)
(*                                                                         *)
(* A document is a model value that never changes its category; what its   *)
(* fields hold is of no concern to the client.  Limbo resolution, limits   *)
(* and metadata-only events are not used by RNDM and are left out.         *)
(***************************************************************************)
EXTENDS Integers, FiniteSets, Sequences, SequencesExt

CONSTANTS
    Thought,       \* documents of the collection "thoughts"
    Mine,          \* those that this client may add itself
    Category,      \* Category[d]: the field "category" of document d
    MaxListeners,  \* bound on the calls of addSnapshotListener
    None           \* no query, no author, no screen

Categories == {"Funny", "Serious", "Crazy"}

\* "All" is the collection ordered by likes; any other query is
\* whereField("category", isEqualTo: q).
Query == Categories \cup {"Popular", "All"}

ASSUME ClientAssumption ==
    /\ MaxListeners \in Nat
    /\ IsFiniteSet(Thought)
    /\ None \notin Query
    /\ DOMAIN Category = Thought
    /\ Mine \subseteq Thought

VARIABLES
    server,      \* documents the backend has committed
    online,      \* whether the backend can be reached
    cache,       \* remote documents in the local store
    outbox,      \* pending mutations, oldest first: [doc, from]
    acked,       \* acknowledged documents that watch has not brought yet
    query,       \* query[r]: the query of registration r, or None
    muted,       \* registrations that were removed: AsyncEventListener::Mute
    registered,  \* listeners known to the EventManager
    raised,      \* those whose initial event was raised
    synced,      \* listened queries whose target the backend called CURRENT
    workQ,       \* the worker queue
    mainQ        \* the user executor, which is the main queue

networkVars == <<server, online>>
storeVars == <<cache, outbox, acked>>
listenVars == <<registered, raised, synced>>
apiVars == <<query, muted>>
queueVars == <<workQ, mainQ>>
clientVars == <<networkVars, storeVars, listenVars, apiVars, queueVars>>

Reg == 1 .. MaxListeners
Match(q) == {d \in Thought : q \in {"All", Category[d]}}

ClientTypeOK ==
    /\ server \in SUBSET Thought
    /\ online \in BOOLEAN
    /\ cache \in SUBSET Thought
    /\ \A i \in DOMAIN outbox : outbox[i].doc \in Thought
    /\ acked \in SUBSET Thought
    /\ query \in [Reg -> Query \cup {None}]
    /\ muted \in SUBSET Reg
    /\ registered \in SUBSET Reg
    /\ raised \in SUBSET registered
    /\ synced \in SUBSET Query
    /\ \A i \in DOMAIN workQ : workQ[i].op \in {"listen", "unlisten", "write"}
    /\ \A i \in DOMAIN mainQ : mainQ[i].kind \in {"event", "error", "ack"}

ClientInit ==
    /\ server \in SUBSET (Thought \ Mine)
    /\ online \in BOOLEAN
    /\ cache \in SUBSET server
    /\ outbox = <<>>
    /\ acked = {}
    /\ query = [r \in Reg |-> None]
    /\ muted = {}
    /\ registered = {}
    /\ raised = {}
    /\ synced = {}
    /\ workQ = <<>>
    /\ mainQ = <<>>

-----------------------------------------------------------------------------
Unsent == {outbox[i].doc : i \in DOMAIN outbox}

\* The documents of the local view: remote ones overlaid with own writes.
LocalDocs == cache \cup acked \cup Unsent
Result(q) == LocalDocs \cap Match(q)

(* A view: its documents, each with whether watch has confirmed it.  The   *)
(* confirmation replaces the estimated timestamp and so changes the data;  *)
(* the acknowledgement before it does not (View::ComputeDocumentChanges).  *)
View(q) == {<<d, d \in cache \ Unsent>> : d \in Result(q)}

Listened == {query[r] : r \in registered}

\* Mutant of InitialDue: an empty result is never raised.
InitialWithDocuments(r) == Result(query[r])' # {}

\* QueryListener::ShouldRaiseInitialEvent, in the next state.
InitialDue(r) ==
    query[r] \in synced' \/ Result(query[r])' # {} \/ ~online'

\* Mutant of EventDue: changes after the initial event are not raised.
EventOnce(r) == r \notin raised /\ InitialDue(r)

\* QueryListener::OnViewSnapshot, for the change from this state to the next.
EventDue(r) == IF r \in raised THEN View(query[r])' # View(query[r])
                               ELSE InitialDue(r)

Event(r, docs) == [kind |-> "event", reg |-> r, docs |-> docs]
Failure(r) == [kind |-> "error", reg |-> r]

\* The completion of a write; one made by an earlier process has none.
Answer(write, ok) ==
    IF write.from = None THEN <<>>
    ELSE <<[kind |-> "ack", from |-> write.from, doc |-> write.doc, ok |-> ok]>>

(* The EventManager informs its listeners of what changed; first is what   *)
(* the same step put on the main queue before.  The views are kept in a    *)
(* hash map, so their order is not determined.                             *)
Emit(first) ==
    LET due == {r \in registered' : EventDue(r)}
    IN  /\ raised' = (raised \cap registered') \cup due
        /\ \E order \in SetToSeqs(due) :
              mainQ' = mainQ \o first \o
                  [i \in DOMAIN order |->
                      Event(order[i], Result(query[order[i]])')]

-----------------------------------------------------------------------------
(* What the API calls put on the worker queue: ListenToQuery,              *)
(* RemoveListener (after it muted the listener at once), WriteMutations.   *)
Listen(r) == [op |-> "listen", reg |-> r]
Unlisten(r) == [op |-> "unlisten", reg |-> r]
Write(from, doc) == [op |-> "write", from |-> from, doc |-> doc]

WorkHead(op) == workQ # <<>> /\ Head(workQ).op = op

(* EventManager::AddQueryListener, SyncEngine::Listen.                     *)
DoListen ==
    /\ WorkHead("listen")
    /\ workQ' = Tail(workQ)
    /\ registered' = registered \cup {Head(workQ).reg}
    /\ UNCHANGED <<networkVars, storeVars, apiVars, synced>>
    /\ Emit(<<>>)

\* Mutant of DoUnlisten: the listener is forgotten but not that it was raised.
UnlistenKeepsRaised ==
    /\ WorkHead("unlisten")
    /\ workQ' = Tail(workQ)
    /\ registered' = registered \ {Head(workQ).reg}
    /\ synced' = synced \cap {query[r] : r \in registered'}
    /\ UNCHANGED <<networkVars, storeVars, apiVars, raised, mainQ>>

(* EventManager::RemoveQueryListener; SyncEngine::StopListening with the   *)
(* last listener of a query.                                               *)
DoUnlisten ==
    /\ WorkHead("unlisten")
    /\ workQ' = Tail(workQ)
    /\ registered' = registered \ {Head(workQ).reg}
    /\ raised' = raised \ {Head(workQ).reg}
    /\ synced' = synced \cap {query[r] : r \in registered'}
    /\ UNCHANGED <<networkVars, storeVars, apiVars, mainQ>>

(* SyncEngine::WriteMutations: the write shows in every view at once.      *)
DoWrite ==
    /\ WorkHead("write")
    /\ workQ' = Tail(workQ)
    /\ outbox' = Append(outbox, [doc |-> Head(workQ).doc, from |-> Head(workQ).from])
    /\ UNCHANGED <<networkVars, cache, acked, apiVars, registered, synced>>
    /\ Emit(<<>>)

Worker == DoListen \/ DoUnlisten \/ DoWrite

-----------------------------------------------------------------------------
(* Another client adds a document.                                         *)
RemoteAdd(d) ==
    /\ d \notin server
    /\ server' = server \cup {d}
    /\ UNCHANGED <<online, storeVars, listenVars, apiVars, queueVars>>

(* Watch: SyncEngine::ApplyRemoteEvent brings the committed documents of a *)
(* listened query up to date and its target is CURRENT.                    *)
Watch(q) ==
    /\ online
    /\ q \in Listened
    /\ cache' = (cache \ Match(q)) \cup (server \cap Match(q))
    /\ acked' = acked \ cache'
    /\ synced' = synced \cup {q}
    /\ UNCHANGED <<networkVars, outbox, apiVars, registered, workQ>>
    /\ Emit(<<>>)

(* The backend refuses a listen: EventManager::OnError tells the listeners *)
(* of the query and forgets them.                                          *)
RejectListen(q) ==
    LET failed == {r \in registered : query[r] = q}
    IN  /\ online
        /\ failed # {}
        /\ registered' = registered \ failed
        /\ raised' = raised \ failed
        /\ synced' = synced \ {q}
        /\ \E order \in SetToSeqs(failed) :
              mainQ' = mainQ \o [i \in DOMAIN order |-> Failure(order[i])]
        /\ UNCHANGED <<networkVars, storeVars, apiVars, workQ>>

(* The write pipeline: the backend commits the pending mutations in order, *)
(* those behind the first without waiting for its answer to get through.   *)
Commit ==
    /\ online
    /\ \E i \in DOMAIN outbox :
          /\ outbox[i].doc \notin server
          /\ \A j \in 1 .. i - 1 : outbox[j].doc \in server
          /\ server' = server \cup {outbox[i].doc}
    /\ UNCHANGED <<online, storeVars, listenVars, apiVars, queueVars>>

\* Mutant of Acknowledge: the document is not kept until watch brings it.
AcknowledgeDrops ==
    /\ online
    /\ outbox # <<>>
    /\ Head(outbox).doc \in server
    /\ outbox' = Tail(outbox)
    /\ UNCHANGED <<networkVars, cache, acked, apiVars, registered, synced, workQ>>
    /\ Emit(Answer(Head(outbox), TRUE))

(* HandleSuccessfulWrite: the client learns that the oldest mutation was   *)
(* committed; the completion is called before the listeners are.           *)
Acknowledge ==
    /\ online
    /\ outbox # <<>>
    /\ Head(outbox).doc \in server
    /\ outbox' = Tail(outbox)
    /\ acked' = (acked \cup {Head(outbox).doc}) \ cache
    /\ UNCHANGED <<networkVars, cache, apiVars, registered, synced, workQ>>
    /\ Emit(Answer(Head(outbox), TRUE))

(* HandleRejectedWrite: the oldest mutation is answered with an error and  *)
(* taken back from every view.  The backend may have refused it, or have   *)
(* committed it: the status of a later refusal can overtake its reply      *)
(* (grpc_stream.cc:313), and one that is sent again because its reply was  *)
(* lost can be refused then (remote_store.cc:408).                         *)
RejectWrite ==
    /\ online
    /\ outbox # <<>>
    /\ outbox' = Tail(outbox)
    /\ UNCHANGED <<networkVars, cache, acked, apiVars, registered, synced, workQ>>
    /\ Emit(Answer(Head(outbox), FALSE))

(* HandleOnlineStateChange: without a backend no view is CURRENT, and an   *)
(* initial event that waited for one is raised.                            *)
GoOffline ==
    /\ online
    /\ online' = FALSE
    /\ synced' = {}
    /\ UNCHANGED <<server, storeVars, apiVars, registered, workQ>>
    /\ Emit(<<>>)

GoOnline ==
    /\ ~online
    /\ online' = TRUE
    /\ UNCHANGED <<server, storeVars, listenVars, apiVars, queueVars>>

Network ==
    \/ \E d \in Thought \ Mine : RemoteAdd(d)
    \/ \E q \in Query : Watch(q) \/ RejectListen(q)
    \/ Commit
    \/ Acknowledge
    \/ RejectWrite
    \/ GoOffline
    \/ GoOnline

=============================================================================
