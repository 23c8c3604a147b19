------------------------------ MODULE RndmProofs -----------------------------
(***************************************************************************)
(* Proofs about Rndm, for any thoughts, composers and number of listeners: *)
(* when a composer closes, that every post is answered and none is lost    *)
(* without a word, and whose rows the list shows.                          *)
(***************************************************************************)
EXTENDS Rndm, ThoughtFeedProofs

(* Registrations are numbered as they are made.                            *)
ApiInv ==
    /\ query \in [Reg -> Query \cup {None}]
    /\ thoughtsListener \in 0 .. MaxListeners
    /\ selectedCategory \in Segments
    /\ Made = 1 .. thoughtsListener
    /\ muted \subseteq Made
    /\ registered \subseteq Made
    /\ raised \subseteq registered

ComposerInv ==
    /\ screen \in Composer \cup {None}
    /\ username \in Texts
    /\ author \in [Mine -> Texts \cup {None}]
    /\ postedBy \in [Mine -> Composer \cup {None}]

(* What the local store shows of the backend is on the backend.            *)
StoreInv ==
    /\ server \in SUBSET Thought
    /\ cache \in SUBSET server
    /\ acked \in SUBSET Thought

(* Thought d was posted by composer c in this process, for good.           *)
Posted(c, d) == postedBy[d] = c /\ author[d] # None

AnyWork ==
    [op : {"listen", "unlisten"}, reg : Made]
    \cup {w \in [op : {"write"}, from : Composer, doc : Mine] : Posted(w.from, w.doc)}

AnyWrite ==
    {w \in [doc : Mine, from : Composer \cup {None}] :
        w.from # None => Posted(w.from, w.doc)}

AnyEvent == [kind : {"event"}, reg : Made, docs : SUBSET Thought]

AnyAnswer ==
    {m \in [kind : {"ack"}, from : Composer, doc : Mine, ok : BOOLEAN] :
        Posted(m.from, m.doc) /\ (m.ok => m.doc \in server)}

AnyMessage == AnyEvent \cup [kind : {"error"}, reg : Made] \cup AnyAnswer

(* What is on its way is about a post of this process: a positive answer   *)
(* is about one that is on the backend.                                    *)
WayInv ==
    /\ workQ \in Seq(AnyWork)
    /\ outbox \in Seq(AnyWrite)
    /\ mainQ \in Seq(AnyMessage)

PostInv == ApiInv /\ ComposerInv /\ StoreInv /\ WayInv

LEMMA PostInitially == RndmInit => PostInv
<1> SUFFICES ASSUME RndmInit PROVE PostInv
  OBVIOUS
<1>1. Made = {}
  BY DEF RndmInit, ClientInit, Made
<1>2. ApiInv
  BY <1>1, ClientAssumption DEF RndmInit, ClientInit, FeedInit, ApiInv, Segments, Categories
<1>3. ComposerInv
  BY DEF RndmInit, ComposerInit, ComposerInv, Texts
<1>4. StoreInv /\ WayInv
  BY DEF RndmInit, ClientInit, StoreInv, WayInv
<1> QED
  BY <1>2, <1>3, <1>4 DEF PostInv

-----------------------------------------------------------------------------
(* Within a process registrations, posts and the backend only grow.        *)
Grows ==
    /\ Made \subseteq Made'
    /\ server \subseteq server'
    /\ \A c \in Composer, d \in Mine : Posted(c, d) => Posted(c, d)'

LEMMA WayGrows ==
    ASSUME WayInv, Grows
    PROVE  /\ workQ \in Seq(AnyWork')
           /\ outbox \in Seq(AnyWrite')
           /\ mainQ \in Seq(AnyMessage')
<1>1. AnyWork \subseteq AnyWork'
  BY DEF Grows, AnyWork
<1>2. AnyWrite \subseteq AnyWrite'
  BY DEF Grows, AnyWrite
<1>3. AnyMessage \subseteq AnyMessage'
  <2>1. AnyEvent \subseteq AnyEvent'
    BY DEF Grows, AnyEvent
  <2>2. AnyAnswer \subseteq AnyAnswer'
    BY DEF Grows, AnyAnswer
  <2> QED
    BY <2>1, <2>2 DEF Grows, AnyMessage
<1> QED
  BY <1>1, <1>2, <1>3 DEF WayInv

LEMMA PostsKept ==
    ASSUME UNCHANGED <<query, postedBy, author>>, server \subseteq server'
    PROVE  Grows /\ Made' = Made
BY DEF Grows, Made, Posted

(* A new registration, and the calls that precede it.                      *)
LEMMA ListenerAdded ==
    ASSUME ApiInv, NEW q \in Query, NEW calls, AddSnapshotListener(q, calls),
           selectedCategory' \in Segments,
           muted' \subseteq Made,
           UNCHANGED <<registered, raised>>
    PROVE  /\ ApiInv'
           /\ Made' = Made \cup {NextListener}
           /\ NextListener \notin Made
           /\ \A r \in Made : query'[r] = query[r]
           /\ query'[NextListener] = q
<1> DEFINE new == NextListener
<1>1. new \in Reg /\ new = thoughtsListener + 1 /\ new \notin Made
  BY DEF AddSnapshotListener, NextListener, ApiInv
<1>2. query' = [query EXCEPT ![new] = q] /\ thoughtsListener' = new
  BY DEF AddSnapshotListener
<1>3. Made' = Made \cup {new}
  BY <1>1, <1>2, ClientAssumption DEF Made, ApiInv
<1>4. \A r \in Made : query'[r] = query[r]
  BY <1>1, <1>2 DEF ApiInv, Made
<1>5. Made' = 1 .. thoughtsListener'
  BY <1>1, <1>2, <1>3 DEF ApiInv
<1>6. query' \in [Reg -> Query \cup {None}] /\ thoughtsListener' \in 0 .. MaxListeners
  BY <1>1, <1>2, ClientAssumption DEF ApiInv, Reg
<1>7. query'[new] = q
  BY <1>1, <1>2 DEF ApiInv
<1> QED
  BY <1>1, <1>3, <1>4, <1>5, <1>6, <1>7 DEF ApiInv

LEMMA LargerSequences ==
    ASSUME NEW S, NEW T, S \subseteq T, NEW s \in Seq(S)
    PROVE  s \in Seq(T)
OBVIOUS

LEMMA AddKeeps ==
    ASSUME PostInv, NEW q \in Query, NEW calls \in Seq([op : {"unlisten"}, reg : Made]),
           AddSnapshotListener(q, calls),
           selectedCategory' \in Segments, muted' \subseteq Made,
           UNCHANGED <<registered, raised, postedBy, author, storeVars, networkVars>>,
           mainQ' \in Seq(AnyMessage),
           ComposerInv'
    PROVE  PostInv'
<1>1. ApiInv' /\ Made' = Made \cup {NextListener}
  BY ListenerAdded DEF PostInv
<1>2. Grows
  BY <1>1 DEF Grows, Posted, networkVars
<1>3. StoreInv'
  BY DEF PostInv, StoreInv, storeVars, networkVars
<1>4. workQ \in Seq(AnyWork') /\ outbox \in Seq(AnyWrite')
  BY <1>2, WayGrows DEF PostInv
<1>5. mainQ' \in Seq(AnyMessage')
  <2>1. AnyMessage \subseteq AnyMessage'
    BY <1>2 DEF Grows, AnyMessage, AnyEvent, AnyAnswer
  <2> QED
    BY <2>1
<1>6. workQ' \in Seq(AnyWork')
  <2>1. Listen(NextListener) \in AnyWork'
    BY <1>1 DEF AnyWork, Listen
  <2>2. [op : {"unlisten"}, reg : Made] \subseteq AnyWork'
    BY <1>1 DEF AnyWork
  <2>3. calls \in Seq(AnyWork')
    BY <2>2, LargerSequences
  <2>4. Append(calls, Listen(NextListener)) \in Seq(AnyWork')
    BY <2>1, <2>3
  <2> QED
    BY <1>4, <2>4 DEF AddSnapshotListener
<1> QED
  BY <1>1, <1>3, <1>4, <1>5, <1>6 DEF PostInv, WayInv, storeVars

-----------------------------------------------------------------------------
(* The handlers of the list.                                               *)
LEMMA FirstAppearanceKeeps == ASSUME PostInv, FirstAppearance PROVE PostInv'
<1>1. /\ AddSnapshotListener(selectedCategory, <<>>)
      /\ UNCHANGED <<muted, selectedCategory, registered, raised, storeVars,
                     networkVars, mainQ, composerVars>>
  BY DEF FirstAppearance, ViewWillAppear, ClientUnchanged, listenVars
<1>2. selectedCategory \in Query /\ selectedCategory' \in Segments
  BY <1>1 DEF PostInv, ApiInv, Segments, Query
<1>3. muted' \subseteq Made /\ mainQ' \in Seq(AnyMessage)
  BY <1>1 DEF PostInv, ApiInv, WayInv
<1>4. ComposerInv'
  BY <1>1 DEF PostInv, ComposerInv, composerVars
<1>5. UNCHANGED <<postedBy, author>> /\ <<>> \in Seq([op : {"unlisten"}, reg : Made])
  BY <1>1 DEF composerVars
<1> QED
  BY <1>1, <1>2, <1>3, <1>4, <1>5, AddKeeps

LEMMA SelectSegmentKeeps ==
    ASSUME PostInv, NEW s \in Segments, SelectSegment(s)
    PROVE  PostInv'
<1>1. /\ AddSnapshotListener(QueryOf(s), <<Unlisten(thoughtsListener)>>)
      /\ thoughtsListener # 0 /\ selectedCategory' = s
      /\ muted' = muted \cup {thoughtsListener}
      /\ UNCHANGED <<registered, raised, storeVars, networkVars, mainQ, composerVars>>
  BY DEF SelectSegment, CategoryChanged, ClientUnchanged, listenVars
<1>2. QueryOf(s) \in Query
  BY DEF QueryOf, Query, Segments
<1>3. thoughtsListener \in Made /\ mainQ' \in Seq(AnyMessage)
  BY <1>1 DEF PostInv, ApiInv, WayInv
<1>4. muted' \subseteq Made
  BY <1>1, <1>3 DEF PostInv, ApiInv
<1>5. ComposerInv'
  BY <1>1 DEF PostInv, ComposerInv, composerVars
<1>6. <<Unlisten(thoughtsListener)>> \in Seq([op : {"unlisten"}, reg : Made])
  BY <1>3 DEF Unlisten
<1>7. UNCHANGED <<postedBy, author>>
  BY <1>1 DEF composerVars
<1> QED
  BY <1>1, <1>2, <1>3, <1>4, <1>5, <1>6, <1>7, AddKeeps

LEMMA BackKeeps ==
    ASSUME PostInv, NEW c \in Composer, Back(c)
    PROVE  PostInv'
<1>1. /\ AddSnapshotListener(selectedCategory, <<>>)
      /\ UNCHANGED <<muted, selectedCategory, registered, raised, storeVars,
                     networkVars, mainQ, postedBy, author>>
      /\ screen' = None /\ username' = ""
  BY DEF Back, PopScreen, ViewWillAppear, ClientUnchanged, listenVars
<1>2. selectedCategory' \in Segments /\ muted' \subseteq Made
  BY <1>1 DEF PostInv, ApiInv
<1>3. selectedCategory \in Query
  BY DEF PostInv, ApiInv, Segments, Query
<1>4. ComposerInv' /\ mainQ' \in Seq(AnyMessage)
  BY <1>1 DEF PostInv, ComposerInv, WayInv, Texts
<1>5. <<>> \in Seq([op : {"unlisten"}, reg : Made])
  OBVIOUS
<1> QED
  BY <1>1, <1>2, <1>3, <1>4, <1>5, AddKeeps

(* The composer before anything is posted.                                 *)
LEMMA ComposerKeeps ==
    ASSUME PostInv, NEW c \in Composer, ShowComposer(c) \/ ComposerTouched(c)
    PROVE  PostInv'
<1>1. UNCHANGED <<vars, author, postedBy>>
  BY DEF ShowComposer, ComposerTouched, OpenComposer, EditUsername, SegmentChanged,
         NameMissing
<1>2. username' \in Texts /\ screen' \in Composer \cup {None}
  BY DEF ShowComposer, ComposerTouched, OpenComposer, EditUsername, SegmentChanged,
         NameMissing, Texts, PostInv, ComposerInv
<1>3. ComposerInv'
  BY <1>1, <1>2 DEF PostInv, ComposerInv
<1>4. /\ UNCHANGED <<query, muted, thoughtsListener, selectedCategory, registered, raised>>
      /\ UNCHANGED <<server, cache, acked, workQ, outbox, mainQ>>
  BY <1>1 DEF vars, clientVars, networkVars, storeVars, listenVars, apiVars, queueVars,
              feedVars
<1>5. ApiInv' /\ StoreInv'
  BY <1>4 DEF PostInv, ApiInv, StoreInv, Made
<1>6. Grows
  BY <1>1, <1>4, PostsKept
<1>7. WayInv'
  BY <1>4, <1>6, WayGrows DEF PostInv, WayInv
<1> QED
  BY <1>3, <1>5, <1>7 DEF PostInv

LEMMA PostKeeps ==
    ASSUME PostInv, NEW c \in Composer, NEW d \in Mine, PostThought(c, d)
    PROVE  PostInv'
<1>1. /\ author[d] = None
      /\ author' = [author EXCEPT ![d] = username]
      /\ postedBy' = [postedBy EXCEPT ![d] = c]
      /\ workQ' = Append(workQ, Write(c, d))
      /\ UNCHANGED <<screen, username>>
  BY DEF PostThought, Post
<1>2. /\ UNCHANGED <<query, muted, thoughtsListener, selectedCategory, registered, raised>>
      /\ UNCHANGED <<server, cache, acked, outbox, mainQ>>
  BY DEF PostThought, ClientUnchanged, networkVars, storeVars, listenVars, apiVars,
         feedVars
<1>3. ComposerInv'
  BY <1>1 DEF PostInv, ComposerInv
<1>4. ApiInv' /\ StoreInv' /\ Made' = Made
  BY <1>2 DEF PostInv, ApiInv, StoreInv, Made
<1>5. username # None
  BY ComposerAssumption DEF PostInv, ComposerInv
<1>6. Posted(c, d)'
  BY <1>1, <1>5 DEF PostInv, ComposerInv, Posted
<1>7. \A e \in Mine \ {d} : author'[e] = author[e] /\ postedBy'[e] = postedBy[e]
  BY <1>1 DEF PostInv, ComposerInv
<1>8. Grows
  BY <1>1, <1>2, <1>4, <1>7 DEF Grows, Posted
<1>9. Write(c, d) \in AnyWork'
  BY <1>6 DEF AnyWork, Write
<1>10. /\ workQ \in Seq(AnyWork') /\ outbox \in Seq(AnyWrite')
       /\ mainQ \in Seq(AnyMessage')
  BY <1>8, WayGrows DEF PostInv
<1> QED
  BY <1>1, <1>2, <1>3, <1>4, <1>9, <1>10 DEF PostInv, WayInv

-----------------------------------------------------------------------------
(* What the client puts on the main queue.                                 *)
LEMMA EmittedAnyEvents ==
    ASSUME PostInv, NEW first, Emit(first), registered' \subseteq Made, query' = query
    PROVE  \E order \in SetToSeqs(Due) :
              /\ Events(order) \in Seq(AnyEvent)
              /\ mainQ' = mainQ \o first \o Events(order)
<1>1. PICK order \in SetToSeqs(Due) : mainQ' = mainQ \o first \o Events(order)
  BY DEF Emit, Due, Events
<1>2. Due \in SUBSET Reg
  BY DEF Made, Due
<1>3. /\ DOMAIN order = 1 .. Len(order) /\ Len(order) \in Nat
      /\ \A i \in DOMAIN order : order[i] \in Due
  BY <1>1, <1>2, Enumeration
<1>4. \A i \in DOMAIN order : Event(order[i], Result(query[order[i]])') \in AnyEvent
  <2> SUFFICES ASSUME NEW i \in DOMAIN order
               PROVE  Event(order[i], Result(query[order[i]])') \in AnyEvent
    OBVIOUS
  <2>1. order[i] \in Made
    BY <1>3 DEF Due
  <2>2. Result(query[order[i]])' \subseteq Thought
    BY DEF Result, Match
  <2> QED
    BY <2>1, <2>2 DEF Event, AnyEvent
<1>5. Events(order) \in [1 .. Len(order) -> AnyEvent]
  BY <1>3, <1>4 DEF Events
<1>6. Events(order) \in Seq(AnyEvent)
  BY <1>3, <1>5, MappedSequence
<1> QED
  BY <1>1, <1>6

LEMMA EmitKeepsWayAfter ==
    ASSUME PostInv, NEW first \in Seq(AnyMessage'), Emit(first), Grows,
           registered' \subseteq Made, query' = query
    PROVE  mainQ' \in Seq(AnyMessage')
<1>1. PICK order \in SetToSeqs(Due) :
         /\ Events(order) \in Seq(AnyEvent)
         /\ mainQ' = mainQ \o first \o Events(order)
  BY EmittedAnyEvents
<1>2. AnyEvent \subseteq AnyMessage'
  BY DEF Grows, AnyMessage, AnyEvent
<1>3. Events(order) \in Seq(AnyMessage') /\ mainQ \in Seq(AnyMessage')
  BY <1>1, <1>2, LargerSequences, WayGrows DEF PostInv
<1> HIDE DEF Events
<1> QED
  BY <1>1, <1>3

LEMMA EmitKeepsWay ==
    ASSUME PostInv, Emit(<<>>), Grows, registered' \subseteq Made, query' = query
    PROVE  mainQ' \in Seq(AnyMessage')
<1>1. <<>> \in Seq(AnyMessage')
  OBVIOUS
<1> QED
  BY <1>1, EmitKeepsWayAfter

(* The client's own steps leave the two screens alone.                     *)
LEMMA ScreensUnchanged ==
    ASSUME PostInv, UNCHANGED <<feedVars, composerVars, apiVars>>,
           registered' \subseteq Made, raised' \subseteq registered'
    PROVE  ApiInv' /\ ComposerInv' /\ Made' = Made
BY DEF feedVars, composerVars, apiVars, PostInv, ApiInv, ComposerInv, Made

LEMMA WorkerKeeps ==
    ASSUME PostInv, Worker, UNCHANGED <<feedVars, composerVars>>
    PROVE  PostInv'
<1> DEFINE w == Head(workQ)
<1>1. workQ # <<>> /\ workQ' = Tail(workQ) /\ w \in AnyWork
  BY DEF Worker, DoListen, DoUnlisten, DoWrite, WorkHead, PostInv, WayInv
<1>2. UNCHANGED <<apiVars, server, cache, acked>>
  BY DEF Worker, DoListen, DoUnlisten, DoWrite, networkVars, storeVars
<1>3. registered' \subseteq Made /\ raised' \subseteq registered'
  <2>1. CASE DoListen
    <3>1. w.reg \in Made
      BY <1>1, <2>1 DEF DoListen, WorkHead, AnyWork
    <3> QED
      BY <2>1, <3>1 DEF DoListen, Emit, PostInv, ApiInv
  <2>2. CASE DoUnlisten
    BY <2>2 DEF DoUnlisten, PostInv, ApiInv
  <2>3. CASE DoWrite
    BY <2>3 DEF DoWrite, Emit, PostInv, ApiInv
  <2> QED
    BY <2>1, <2>2, <2>3 DEF Worker
<1>4. ApiInv' /\ ComposerInv' /\ Made' = Made
  BY <1>2, <1>3, ScreensUnchanged
<1>5. UNCHANGED <<query, postedBy, author>>
  BY <1>2 DEF apiVars, composerVars
<1>6. Grows
  BY <1>2, <1>5, PostsKept
<1>7. StoreInv'
  BY <1>2 DEF PostInv, StoreInv
<1>8. /\ workQ \in Seq(AnyWork') /\ outbox \in Seq(AnyWrite')
      /\ mainQ \in Seq(AnyMessage')
  BY <1>6, WayGrows DEF PostInv
<1>9. workQ' \in Seq(AnyWork')
  BY <1>1, <1>8
<1>10. outbox' \in Seq(AnyWrite')
  <2>1. CASE DoWrite
    <3>1. w \in [op : {"write"}, from : Composer, doc : Mine] /\ Posted(w.from, w.doc)
      BY <1>1, <2>1 DEF DoWrite, WorkHead, AnyWork
    <3>2. [doc |-> w.doc, from |-> w.from] \in AnyWrite'
      BY <3>1, <1>6 DEF AnyWrite, Grows
    <3>3. outbox' = Append(outbox, [doc |-> w.doc, from |-> w.from])
      BY <2>1 DEF DoWrite
    <3> QED
      BY <1>8, <3>2, <3>3
  <2>2. CASE DoListen \/ DoUnlisten
    BY <1>8, <2>2 DEF DoListen, DoUnlisten, storeVars
  <2> QED
    BY <2>1, <2>2 DEF Worker
<1>11. mainQ' \in Seq(AnyMessage')
  <2>1. CASE Emit(<<>>)
    BY <1>3, <1>5, <1>6, <2>1, EmitKeepsWay
  <2>2. CASE DoUnlisten
    BY <1>8, <2>2 DEF DoUnlisten
  <2> QED
    BY <2>1, <2>2 DEF Worker, DoListen, DoWrite
<1> QED
  BY <1>4, <1>7, <1>9, <1>10, <1>11 DEF PostInv, WayInv

-----------------------------------------------------------------------------
LEMMA NetworkTail ==
    ASSUME PostInv, UNCHANGED <<feedVars, composerVars, apiVars, workQ>>,
           registered' \subseteq Made, raised' \subseteq registered',
           server \subseteq server', StoreInv',
           outbox' = outbox \/ (outbox # <<>> /\ outbox' = Tail(outbox)),
           Grows => mainQ' \in Seq(AnyMessage')
    PROVE  PostInv'
<1>1. ApiInv' /\ ComposerInv' /\ UNCHANGED <<query, postedBy, author>>
  BY ScreensUnchanged DEF apiVars, composerVars
<1>2. Grows
  BY <1>1, PostsKept
<1>3. workQ' \in Seq(AnyWork') /\ outbox \in Seq(AnyWrite')
  BY <1>2, WayGrows DEF PostInv
<1>4. outbox' \in Seq(AnyWrite')
  BY <1>3
<1> QED
  BY <1>1, <1>2, <1>3, <1>4 DEF PostInv, WayInv

(* The answer to a write is about the post that made it.                   *)
LEMMA AnswerOfWrite ==
    ASSUME PostInv, Grows, outbox # <<>>, NEW ok \in BOOLEAN,
           ok => Head(outbox).doc \in server'
    PROVE  Answer(Head(outbox), ok) \in Seq(AnyMessage')
<1> DEFINE w == Head(outbox)
<1>1. w \in AnyWrite
  BY DEF PostInv, WayInv
<1>2. CASE w.from = None
  BY <1>2 DEF Answer
<1>3. CASE w.from # None
  <2>1. PICK c \in Composer, d \in Mine : w.from = c /\ w.doc = d
    BY <1>1, <1>3 DEF AnyWrite
  <2>2. Posted(c, d)'
    BY <1>1, <1>3, <2>1 DEF AnyWrite, Grows
  <2>3. [kind |-> "ack", from |-> c, doc |-> d, ok |-> ok] \in AnyAnswer'
    BY <2>1, <2>2 DEF AnyAnswer
  <2>4. [kind |-> "ack", from |-> w.from, doc |-> w.doc, ok |-> ok] \in AnyMessage'
    BY <2>1, <2>3 DEF AnyMessage
  <2> QED
    BY <1>3, <2>4 DEF Answer
<1> QED
  BY <1>2, <1>3

(* The listeners of a refused query are told so.                           *)
LEMMA FailuresAdded ==
    ASSUME PostInv, NEW q \in Query, RejectListen(q)
    PROVE  \E failures \in Seq([kind : {"error"}, reg : Made]) : mainQ' = mainQ \o failures
<1> DEFINE failed == {r \in registered : query[r] = q}
<1>1. PICK order \in SetToSeqs(failed) :
         mainQ' = mainQ \o [i \in DOMAIN order |-> Failure(order[i])]
  BY DEF RejectListen
<1> DEFINE failures == [i \in DOMAIN order |-> Failure(order[i])]
<1>2. failed \in SUBSET Reg /\ failed \subseteq Made
  BY DEF PostInv, ApiInv, Made
<1>3. /\ DOMAIN order = 1 .. Len(order) /\ Len(order) \in Nat
      /\ \A i \in DOMAIN order : order[i] \in Made
  BY <1>1, <1>2, Enumeration
<1>4. \A i \in DOMAIN order : Failure(order[i]) \in [kind : {"error"}, reg : Made]
  BY <1>3 DEF Failure
<1>5. failures \in [1 .. Len(order) -> [kind : {"error"}, reg : Made]]
  BY <1>3, <1>4
<1>6. failures \in Seq([kind : {"error"}, reg : Made])
  BY <1>3, <1>5, MappedSequence
<1> QED
  BY <1>1, <1>6

LEMMA NetworkKeeps ==
    ASSUME PostInv, Network, UNCHANGED <<feedVars, composerVars>>
    PROVE  PostInv'
<1>0. registered \subseteq Made /\ raised \subseteq registered /\ Mine \subseteq Thought
  BY ClientAssumption DEF PostInv, ApiInv
<1>1. ASSUME NEW d \in Thought, RemoteAdd(d) PROVE PostInv'
  <2>1. /\ UNCHANGED <<cache, acked, outbox, registered, raised, apiVars, workQ, mainQ>>
        /\ server' = server \cup {d}
    BY <1>1 DEF RemoteAdd, storeVars, listenVars, queueVars
  <2>2. StoreInv'
    BY <2>1 DEF PostInv, StoreInv
  <2>3. Grows => mainQ' \in Seq(AnyMessage')
    BY <2>1, WayGrows DEF PostInv
  <2> QED
    BY <1>0, <2>1, <2>2, <2>3, NetworkTail
<1>2. ASSUME NEW q \in Query, Watch(q) PROVE PostInv'
  <2>1. /\ UNCHANGED <<server, outbox, registered, apiVars, workQ>> /\ Emit(<<>>)
        /\ cache' = (cache \ Match(q)) \cup (server \cap Match(q))
        /\ acked' = acked \ cache'
    BY <1>2 DEF Watch, networkVars
  <2>2. StoreInv'
    BY <2>1 DEF PostInv, StoreInv
  <2>3. raised' \subseteq registered' /\ query' = query
    BY <2>1 DEF Emit, apiVars
  <2>4. Grows => mainQ' \in Seq(AnyMessage')
    BY <1>0, <2>1, <2>3, EmitKeepsWay
  <2> QED
    BY <1>0, <2>1, <2>2, <2>3, <2>4, NetworkTail
<1>3. ASSUME NEW q \in Query, RejectListen(q) PROVE PostInv'
  <2>1. PICK failures \in Seq([kind : {"error"}, reg : Made]) : mainQ' = mainQ \o failures
    BY <1>3, FailuresAdded
  <2>2. UNCHANGED <<networkVars, storeVars, apiVars, workQ>>
    BY <1>3 DEF RejectListen
  <2>3. [kind : {"error"}, reg : Made] \subseteq AnyMessage'
    BY <2>2 DEF apiVars, Made, AnyMessage
  <2>4. failures \in Seq(AnyMessage')
    BY <2>3, LargerSequences
  <2>5. Grows => mainQ' \in Seq(AnyMessage')
    BY <2>1, <2>4, WayGrows DEF PostInv
  <2>6. StoreInv' /\ UNCHANGED <<server, outbox>>
    BY <2>2 DEF networkVars, storeVars, PostInv, StoreInv
  <2>7. registered' \subseteq Made /\ raised' \subseteq registered'
    BY <1>0, <1>3 DEF RejectListen
  <2> QED
    BY <2>2, <2>5, <2>6, <2>7, NetworkTail
<1>4. CASE Commit
  <2>1. PICK i \in DOMAIN outbox : server' = server \cup {outbox[i].doc}
    BY <1>4 DEF Commit
  <2>2. outbox[i].doc \in Thought
    BY <1>0, <2>1 DEF PostInv, WayInv, AnyWrite
  <2>3. /\ UNCHANGED <<cache, acked, outbox, registered, raised, apiVars, workQ, mainQ>>
        /\ server' = server \cup {outbox[i].doc}
    BY <1>4, <2>1 DEF Commit, storeVars, listenVars, queueVars
  <2>4. StoreInv'
    BY <2>2, <2>3 DEF PostInv, StoreInv
  <2>5. Grows => mainQ' \in Seq(AnyMessage')
    BY <2>3, WayGrows DEF PostInv
  <2> QED
    BY <1>0, <2>3, <2>4, <2>5, NetworkTail
<1>5. ASSUME NEW ok \in BOOLEAN, outbox # <<>>, outbox' = Tail(outbox),
             ok => Head(outbox).doc \in server, Emit(Answer(Head(outbox), ok)),
             acked' \subseteq acked \cup {Head(outbox).doc},
             UNCHANGED <<networkVars, cache, apiVars, registered, workQ>>
      PROVE  PostInv'
  <2>1. Head(outbox) \in AnyWrite
    BY <1>5 DEF PostInv, WayInv
  <2>2. Head(outbox).doc \in Thought
    BY <1>0, <2>1 DEF AnyWrite
  <2>3. StoreInv' /\ server' = server
    BY <1>5, <2>2 DEF networkVars, PostInv, StoreInv
  <2>4. raised' \subseteq registered' /\ query' = query
    BY <1>5 DEF Emit, apiVars
  <2>5. ASSUME Grows PROVE mainQ' \in Seq(AnyMessage')
    <3>1. Answer(Head(outbox), ok) \in Seq(AnyMessage')
      BY <1>5, <2>3, <2>5, AnswerOfWrite
    <3> QED
      BY <1>0, <1>5, <2>4, <2>5, <3>1, EmitKeepsWayAfter
  <2> QED
    BY <1>0, <1>5, <2>3, <2>4, <2>5, NetworkTail
<1>6. CASE Acknowledge
  BY <1>5, <1>6 DEF Acknowledge
<1>7. CASE RejectWrite
  BY <1>5, <1>7 DEF RejectWrite
<1>8. CASE GoOffline
  <2>1. UNCHANGED <<server, cache, acked, outbox, registered, apiVars, workQ>> /\ Emit(<<>>)
    BY <1>8 DEF GoOffline, storeVars
  <2>2. StoreInv'
    BY <2>1 DEF PostInv, StoreInv
  <2>3. raised' \subseteq registered' /\ query' = query
    BY <2>1 DEF Emit, apiVars
  <2>4. Grows => mainQ' \in Seq(AnyMessage')
    BY <1>0, <2>1, <2>3, EmitKeepsWay
  <2> QED
    BY <1>0, <2>1, <2>2, <2>3, <2>4, NetworkTail
<1>9. CASE GoOnline
  <2>1. UNCHANGED <<server, cache, acked, outbox, registered, raised, apiVars, workQ, mainQ>>
    BY <1>9 DEF GoOnline, storeVars, listenVars, queueVars
  <2>2. StoreInv'
    BY <2>1 DEF PostInv, StoreInv
  <2>3. Grows => mainQ' \in Seq(AnyMessage')
    BY <2>1, WayGrows DEF PostInv
  <2> QED
    BY <1>0, <2>1, <2>2, <2>3, NetworkTail
<1> QED
  BY <1>1, <1>2, <1>3, <1>4, <1>6, <1>7, <1>8, <1>9 DEF Network

-----------------------------------------------------------------------------
(* The callbacks on the main queue.                                        *)
LEMMA MainQueueKeeps == ASSUME PostInv, MainQueue PROVE PostInv'
<1>1. mainQ # <<>> /\ mainQ' = Tail(mainQ) /\ mainQ \in Seq(AnyMessage)
  BY DEF MainQueue, OnAnswer, Main, OnSnapshot, OnListenError, MainHead, PostInv, WayInv
<1>2. UNCHANGED <<networkVars, storeVars, listenVars>>
  BY DEF MainQueue, OnAnswer, Main, ClientUnchanged
<1>3. StoreInv'
  BY <1>2 DEF networkVars, storeVars, PostInv, StoreInv
<1>4. CASE UNCHANGED <<composerVars, apiVars, workQ, thoughtsListener, selectedCategory>>
  <2>1. ApiInv' /\ ComposerInv'
    BY <1>2, <1>4 DEF apiVars, composerVars, listenVars, PostInv, ApiInv, ComposerInv, Made
  <2>2. Grows
    BY <1>2, <1>4, PostsKept DEF apiVars, composerVars, networkVars
  <2>3. /\ workQ \in Seq(AnyWork') /\ outbox \in Seq(AnyWrite')
        /\ mainQ \in Seq(AnyMessage')
    BY <2>2, WayGrows DEF PostInv
  <2>4. workQ' \in Seq(AnyWork') /\ outbox' \in Seq(AnyWrite')
    BY <1>2, <1>4, <2>3 DEF storeVars
  <2>5. mainQ' \in Seq(AnyMessage')
    BY <1>1, <2>3
  <2> QED
    BY <1>3, <2>1, <2>4, <2>5 DEF PostInv, WayInv
<1>5. CASE OnAnswer /\ PopScreen /\ ViewWillAppear
  <2>1. /\ AddSnapshotListener(selectedCategory, <<>>)
        /\ UNCHANGED <<muted, selectedCategory, registered, raised, postedBy, author>>
        /\ screen' = None /\ username' = ""
    BY <1>2, <1>5 DEF PopScreen, ViewWillAppear, listenVars
  <2>2. selectedCategory' \in Segments /\ muted' \subseteq Made
    BY <2>1 DEF PostInv, ApiInv
  <2>3. selectedCategory \in Query
    BY DEF PostInv, ApiInv, Segments, Query
  <2>4. ComposerInv'
    BY <2>1 DEF PostInv, ComposerInv, Texts
  <2>5. <<>> \in Seq([op : {"unlisten"}, reg : Made])
    OBVIOUS
  <2>6. mainQ' \in Seq(AnyMessage)
    BY <1>1
  <2> QED
    BY <1>2, <2>1, <2>2, <2>3, <2>4, <2>5, <2>6, AddKeeps
<1> QED
  BY <1>4, <1>5 DEF MainQueue, OnAnswer, Main, OnSnapshot, OnListenError, feedVars, apiVars

(* A new process starts with what the local store has on disk.             *)
LEMMA RelaunchKeeps == ASSUME PostInv, Relaunch PROVE PostInv'
<1>1. Made' = {}
  BY DEF Relaunch, Made
<1>2. ApiInv'
  <2>1. /\ thoughtsListener' = 0 /\ selectedCategory' = "Funny"
        /\ muted' = {} /\ registered' = {} /\ raised' = {}
        /\ query' = [r \in Reg |-> None]
    BY DEF Relaunch
  <2>2. thoughtsListener' \in 0 .. MaxListeners /\ Made' = 1 .. thoughtsListener'
    BY <1>1, <2>1, ClientAssumption
  <2>3. query' \in [Reg -> Query \cup {None}]
    BY <2>1
  <2> QED
    BY <2>1, <2>2, <2>3 DEF ApiInv, Segments, Categories
<1>3. ComposerInv'
  BY DEF Relaunch, PostInv, ComposerInv, Texts
<1>4. StoreInv'
  BY DEF Relaunch, networkVars, PostInv, StoreInv
<1>5. outbox' \in Seq(AnyWrite')
  <2>1. outbox \in Seq(AnyWrite) /\ outbox' = [i \in DOMAIN outbox |-> [outbox[i] EXCEPT !.from = None]]
    BY DEF Relaunch, PostInv, WayInv
  <2>2. \A i \in DOMAIN outbox : [outbox[i] EXCEPT !.from = None] \in AnyWrite'
    <3> SUFFICES ASSUME NEW i \in DOMAIN outbox
                 PROVE  [outbox[i] EXCEPT !.from = None] \in AnyWrite'
      OBVIOUS
    <3>1. outbox[i] \in [doc : Mine, from : Composer \cup {None}]
      BY <2>1 DEF AnyWrite
    <3>2. /\ [outbox[i] EXCEPT !.from = None] \in [doc : Mine, from : Composer \cup {None}]
          /\ [outbox[i] EXCEPT !.from = None].from = None
      BY <3>1
    <3> QED
      BY <3>2 DEF AnyWrite
  <2>3. DOMAIN outbox = 1 .. Len(outbox) /\ Len(outbox) \in Nat
    BY <2>1
  <2>4. outbox' \in [1 .. Len(outbox) -> AnyWrite']
    BY <2>1, <2>2, <2>3
  <2> QED
    BY <2>3, <2>4, MappedSequence
<1>6. workQ' = <<>> /\ mainQ' = <<>>
  BY DEF Relaunch
<1> QED
  BY <1>2, <1>3, <1>4, <1>5, <1>6 DEF PostInv, WayInv

LEMMA PostStep == PostInv /\ [RndmNext]_rndmVars => PostInv'
<1> SUFFICES ASSUME PostInv, [RndmNext]_rndmVars PROVE PostInv'
  OBVIOUS
<1>1. CASE UNCHANGED rndmVars
  <2>1. /\ UNCHANGED <<query, muted, registered, raised, thoughtsListener, selectedCategory>>
        /\ UNCHANGED <<server, cache, acked, outbox, workQ, mainQ>>
        /\ UNCHANGED <<screen, username, author, postedBy>>
    BY <1>1 DEF rndmVars, vars, clientVars, networkVars, storeVars, listenVars, apiVars,
                queueVars, feedVars, composerVars
  <2>2. ApiInv' /\ ComposerInv' /\ StoreInv'
    BY <2>1 DEF PostInv, ApiInv, ComposerInv, StoreInv, Made
  <2>3. Grows
    BY <2>1, PostsKept
  <2>4. WayInv'
    BY <2>1, <2>3, WayGrows DEF PostInv, WayInv
  <2> QED
    BY <2>2, <2>4 DEF PostInv
<1> QED
  BY <1>1, FirstAppearanceKeeps, SelectSegmentKeeps, ComposerKeeps, PostKeeps, BackKeeps,
     MainQueueKeeps, WorkerKeeps, NetworkKeeps, RelaunchKeeps
     DEF RndmNext

THEOREM RndmInvariant == RndmSpec => []PostInv
<1> QED
  BY PostInitially, PostStep, PTL DEF RndmSpec

-----------------------------------------------------------------------------
(* A composer that closes by itself was answered about a thought of its    *)
(* own that is on the backend.                                             *)
THEOREM RndmClosesOnlyWhenStored == RndmSpec => ClosesOnlyWhenStored
<1>1. PostInv /\ [RndmNext]_rndmVars =>
        [\A c \in Composer :
            screen = c /\ screen' = None =>
               \/ Back(c)
               \/ Relaunch
               \/ \E d \in Mine : postedBy[d] = c /\ d \in server]_rndmVars
  <2> SUFFICES ASSUME PostInv, [RndmNext]_rndmVars, NEW c \in Composer,
                      screen = c, screen' = None, ~Back(c), ~Relaunch
               PROVE  \E d \in Mine : postedBy[d] = c /\ d \in server
    OBVIOUS
  <2>1. screen' # screen
    BY ComposerAssumption
  <2>2. ~UNCHANGED composerVars
    BY <2>1 DEF composerVars
  <2>3. ~FirstAppearance /\ ~(\E s \in Segments : SelectSegment(s))
    BY <2>2 DEF FirstAppearance, SelectSegment
  <2>4. \A e \in Composer :
           ~ShowComposer(e) /\ ~ComposerTouched(e) /\ ~(\E d \in Mine : PostThought(e, d))
    BY <2>1, ComposerAssumption
       DEF ShowComposer, OpenComposer, ComposerTouched, EditUsername, SegmentChanged,
           NameMissing, PostThought, Post
  <2>5. \A e \in Composer : Back(e) => e = c
    BY DEF Back
  <2>6. MainQueue
    <3>1. ~UNCHANGED rndmVars
      BY <2>2 DEF rndmVars
    <3> QED
      BY <2>2, <2>3, <2>4, <2>5, <3>1 DEF RndmNext
  <2>7. OnAnswer /\ Pops(Head(mainQ))
    BY <2>2, <2>6 DEF MainQueue, OnAnswer
  <2>8. mainQ # <<>> /\ Head(mainQ).kind = "ack" /\ Head(mainQ) \in AnyMessage
    BY <2>7 DEF OnAnswer, MainHead, PostInv, WayInv
  <2>9. Head(mainQ) \in AnyAnswer
    BY <2>8 DEF AnyMessage, AnyEvent
  <2> QED
    BY <2>7, <2>9 DEF AnyAnswer, Pops, Posted
<1> QED
  BY <1>1, RndmInvariant, PTL DEF RndmSpec, ClosesOnlyWhenStored

-----------------------------------------------------------------------------
(* Several listeners may be left.  What is on its way for each of them     *)
(* that was raised ends with the local store's documents for its query,    *)
(* and the rows will be, or are, those of one of them.                     *)
KeptOnItsWay == \E r \in Kept : \E i \in DOMAIN mainQ : IsEventOf(mainQ[i], r)

KeptInv ==
    /\ \A r \in Kept \cap raised :
          Coming(mainQ, r, Result(query[r]), Result(query[r]))
    /\ Kept # {} /\ Kept \subseteq raised =>
          KeptOnItsWay \/ \E r \in Kept : Rows = Result(query[r])

LEMMA KeptInitially == RndmInit => KeptInv
<1> SUFFICES ASSUME RndmInit PROVE KeptInv
  OBVIOUS
<1>1. raised = {} /\ Made = {}
  BY DEF RndmInit, ClientInit, Made
<1> QED
  BY <1>1 DEF KeptInv, Kept

LEMMA ComingTail ==
    ASSUME NEW M, NEW q \in Seq(M), q # <<>>, NEW r, NEW res, Coming(q, r, res, res)
    PROVE  Coming(Tail(q), r, res, res)
<1> DEFINE rowsNext == IF IsEventOf(Head(q), r) THEN Head(q).docs ELSE res
<1>1. Coming(Tail(q), r, rowsNext, res)
  BY ComingDelivered
<1> HIDE DEF rowsNext
<1> QED
  BY <1>1 DEF Coming

(* A handler that adds a listener: it has no event yet.                    *)
LEMMA AddKeepsKept ==
    ASSUME PostInv, KeptInv, NEW q \in Query, NEW calls, AddSnapshotListener(q, calls),
           selectedCategory' \in Segments,
           muted \subseteq muted', muted' \subseteq Made,
           UNCHANGED <<registered, raised, storeVars>>,
           mainQ' = mainQ \/ (mainQ # <<>> /\ mainQ' = Tail(mainQ))
    PROVE  KeptInv'
<1>1. /\ Made' = Made \cup {NextListener} /\ NextListener \notin Made
      /\ \A r \in Made : query'[r] = query[r]
  BY ListenerAdded DEF PostInv
<1>2. raised' \subseteq Made
  BY DEF PostInv, ApiInv
<1>3. ~(Kept' \subseteq raised')
  BY <1>1, <1>2 DEF Kept
<1>4. ASSUME NEW r \in Kept' \cap raised'
      PROVE  Coming(mainQ', r, Result(query[r])', Result(query[r])')
  <2>1. r \in Made /\ r \in Kept \cap raised
    BY <1>2, <1>4 DEF Kept
  <2>2. Result(query[r])' = Result(query[r])
    BY <1>1, <2>1 DEF storeVars, Result, LocalDocs, Unsent, Match
  <2>3. Coming(mainQ, r, Result(query[r]), Result(query[r]))
    BY <2>1 DEF KeptInv
  <2>4. mainQ \in Seq(AnyMessage)
    BY DEF PostInv, WayInv
  <2> QED
    BY <2>2, <2>3, <2>4, ComingTail
<1> QED
  BY <1>3, <1>4 DEF KeptInv

(* A step that tells the listeners nothing they have not been told.        *)
LEMMA SilentKeepsKept ==
    ASSUME PostInv, KeptInv, ResultUnchanged, UNCHANGED <<muted, thoughsList>>,
           raised' \subseteq raised,
           NEW M, mainQ \in Seq(M), NEW e \in Seq(M), mainQ' = mainQ \o e,
           \A i \in DOMAIN e : e[i].kind # "event"
    PROVE  KeptInv'
<1>1. Kept' = Kept /\ Rows' = Rows
  BY DEF ResultUnchanged, Kept, Made, Rows
<1>2. \A r \in Reg : Result(query[r])' = Result(query[r])
  BY DEF ResultUnchanged, Result, LocalDocs, Unsent, Match
<1>3. Kept \subseteq Reg
  BY DEF Kept, Made
<1>4. ASSUME NEW r \in Kept \cap raised
      PROVE  Coming(mainQ', r, Result(query[r]), Result(query[r]))
  <2>1. Coming(mainQ, r, Result(query[r]), Result(query[r]))
    BY <1>4 DEF KeptInv
  <2> QED
    BY <2>1, ComingDespite DEF IsEventOf
<1>5. KeptOnItsWay => KeptOnItsWay'
  <2> SUFFICES ASSUME NEW r \in Kept, NEW i \in DOMAIN mainQ, IsEventOf(mainQ[i], r)
               PROVE  \E j \in DOMAIN mainQ' : IsEventOf(mainQ'[j], r)
    BY <1>1 DEF KeptOnItsWay
  <2>1. i \in DOMAIN mainQ' /\ mainQ'[i] = mainQ[i]
    OBVIOUS
  <2> QED
    BY <2>1
<1> QED
  BY <1>1, <1>2, <1>3, <1>4, <1>5 DEF KeptInv

LEMMA SameKept ==
    ASSUME PostInv, KeptInv, ResultUnchanged, UNCHANGED <<muted, thoughsList, mainQ>>,
           raised' \subseteq raised
    PROVE  KeptInv'
<1>1. mainQ \in Seq(AnyMessage)
  BY DEF PostInv, WayInv
<1>2. <<>> \in Seq(AnyMessage) /\ mainQ' = mainQ \o <<>> /\ DOMAIN <<>> = {}
  BY <1>1
<1> QED
  BY <1>1, <1>2, SilentKeepsKept

(* A step of the client that informs the listeners of what it changed.     *)
LEMMA EmitKeepsKept ==
    ASSUME PostInv, KeptInv, NEW first \in Seq(AnyMessage'),
           \A i \in DOMAIN first : first[i].kind # "event",
           Emit(first), Grows, registered' \subseteq Made,
           UNCHANGED <<query, muted, thoughsList>>
    PROVE  KeptInv'
<1>1. PICK order \in SetToSeqs(Due) :
         /\ Events(order) \in Seq(AnyEvent)
         /\ mainQ' = mainQ \o first \o Events(order)
  BY EmittedAnyEvents
<1> DEFINE q == mainQ \o first
<1>2. /\ mainQ \in Seq(AnyMessage') /\ q \in Seq(AnyMessage')
      /\ Events(order) \in Seq(AnyMessage')
  <2>1. AnyEvent \subseteq AnyMessage'
    BY DEF Grows, AnyMessage, AnyEvent
  <2>2. Events(order) \in Seq(AnyMessage') /\ mainQ \in Seq(AnyMessage')
    BY <1>1, <2>1, LargerSequences, WayGrows DEF PostInv
  <2> HIDE DEF Events
  <2> QED
    BY <2>2
<1>3. /\ IsFiniteSet(Due) /\ Cardinality(Due) \in Nat
      /\ order \in [1 .. Cardinality(Due) -> Due]
      /\ \A i, j \in 1 .. Cardinality(Due) : i # j => order[i] # order[j]
  <2>1. IsFiniteSet(Reg)
    BY FS_Interval, ClientAssumption DEF Reg
  <2>2. Due \in SUBSET Reg
    BY DEF Due, Made
  <2>3. IsFiniteSet(Due)
    BY <2>1, <2>2, FS_Subset
  <2> QED
    BY <1>1, <2>3, FS_CardinalityType DEF SetToSeqs
<1>4. /\ DOMAIN Events(order) = 1 .. Cardinality(Due)
      /\ \A i \in 1 .. Cardinality(Due) :
            Events(order)[i] = Event(order[i], Result(query[order[i]])')
  BY <1>3 DEF Events
<1>5. \A r : \A i \in DOMAIN Events(order) : IsEventOf(Events(order)[i], r) <=> order[i] = r
  BY <1>4 DEF IsEventOf, Event
<1>6. Kept' = Kept /\ Rows' = Rows /\ Kept \subseteq Reg
  BY DEF Kept, Made, Rows
<1>7. mainQ' = q \o Events(order)
  BY <1>1
<1> HIDE DEF Events
<1>8. ASSUME NEW r \in Kept, r \in raised', r \notin Due
      PROVE  /\ r \in raised /\ Result(query[r])' = Result(query[r])
             /\ Coming(mainQ', r, Result(query[r]), Result(query[r]))
  <2>1. r \in raised /\ r \in registered'
    BY <1>8 DEF Emit, Due
  <2>2. View(query[r])' = View(query[r])
    BY <1>8, <2>1 DEF Due, EventDue
  <2>3. Result(query[r])' = Result(query[r])
    BY <2>2, ViewTellsResult
  <2>4. Coming(mainQ, r, Result(query[r]), Result(query[r]))
    BY <2>1 DEF KeptInv
  <2>5. \A i \in DOMAIN first : ~IsEventOf(first[i], r)
    BY DEF IsEventOf
  <2>6. Coming(q, r, Result(query[r]), Result(query[r]))
    BY <1>2, <2>4, <2>5, ComingDespite
  <2>7. \A i \in DOMAIN Events(order) : ~IsEventOf(Events(order)[i], r)
    BY <1>3, <1>4, <1>5, <1>8
  <2>8. Coming(q \o Events(order), r, Result(query[r]), Result(query[r]))
    <3> HIDE DEF q
    <3> QED
      BY <1>2, <2>6, <2>7, ComingDespite
  <2> QED
    BY <1>7, <2>1, <2>3, <2>8
<1>9. ASSUME NEW r \in Kept \cap Due
      PROVE  /\ Coming(mainQ', r, Result(query[r])', Result(query[r])')
             /\ \E i \in DOMAIN mainQ' : IsEventOf(mainQ'[i], r)
  <2>1. PICK k \in 1 .. Cardinality(Due) : order[k] = r
    BY <1>3, <1>9, EnumerationReachesAll
  <2>2. k \in DOMAIN Events(order) /\ IsEventOf(Events(order)[k], r)
    BY <1>4, <1>5, <2>1
  <2>3. Events(order)[k].docs = Result(query[r])'
    BY <1>4, <2>1 DEF Event
  <2>4. \A i \in DOMAIN Events(order) : i # k => ~IsEventOf(Events(order)[i], r)
    BY <1>3, <1>4, <1>5, <2>1
  <2> HIDE DEF q
  <2>5. Coming(q \o Events(order), r, Result(query[r])', Result(query[r])')
    BY <1>2, <2>2, <2>3, <2>4, ComingAnew
  <2>6. /\ Len(q) + k \in DOMAIN (q \o Events(order))
        /\ (q \o Events(order))[Len(q) + k] = Events(order)[k]
    BY <1>2, <2>2
  <2> QED
    BY <1>7, <2>2, <2>5, <2>6
<1>10. ASSUME Kept # {}, Kept \subseteq raised', Kept \cap Due = {}
       PROVE  KeptOnItsWay' \/ \E r \in Kept : Rows = Result(query[r])'
  <2>1. Kept \subseteq raised /\ \A r \in Kept : Result(query[r])' = Result(query[r])
    BY <1>8, <1>10
  <2>2. CASE KeptOnItsWay
    <3>1. PICK r \in Kept, i \in DOMAIN mainQ : IsEventOf(mainQ[i], r)
      BY <2>2 DEF KeptOnItsWay
    <3>2. i \in DOMAIN q /\ q[i] = mainQ[i]
      BY <1>2
    <3> HIDE DEF q
    <3>3. i \in DOMAIN mainQ' /\ mainQ'[i] = q[i]
      BY <1>2, <1>7, <3>2
    <3> QED
      BY <1>6, <3>1, <3>2, <3>3 DEF KeptOnItsWay
  <2> QED
    BY <1>10, <2>1, <2>2 DEF KeptInv
<1> QED
  BY <1>6, <1>8, <1>9, <1>10 DEF KeptInv, KeptOnItsWay

LEMMA MainQueueKeepsKept == ASSUME PostInv, KeptInv, MainQueue PROVE KeptInv'
<1> DEFINE m == Head(mainQ)
<1>1. mainQ # <<>> /\ mainQ' = Tail(mainQ) /\ mainQ \in Seq(AnyMessage) /\ m \in AnyMessage
  BY DEF MainQueue, OnAnswer, Main, OnSnapshot, OnListenError, MainHead, PostInv, WayInv
<1>2. UNCHANGED <<networkVars, storeVars, listenVars>>
  BY DEF MainQueue, OnAnswer, Main, ClientUnchanged
<1>3. CASE OnAnswer /\ PopScreen /\ ViewWillAppear
  <2>1. /\ AddSnapshotListener(selectedCategory, <<>>)
        /\ UNCHANGED <<muted, selectedCategory, registered, raised, storeVars>>
    BY <1>2, <1>3 DEF ViewWillAppear, listenVars
  <2>2. /\ selectedCategory' \in Segments /\ selectedCategory \in Query
        /\ muted \subseteq muted' /\ muted' \subseteq Made
    BY <2>1 DEF PostInv, ApiInv, Segments, Query
  <2> QED
    BY <1>1, <2>1, <2>2, AddKeepsKept
<1>4. CASE UNCHANGED apiVars /\ (thoughsList' = thoughsList \/ OnSnapshot)
  <2>1. ResultUnchanged /\ Kept' = Kept /\ raised' = raised
    BY <1>2, <1>4 DEF storeVars, apiVars, listenVars, ResultUnchanged, Kept, Made
  <2>2. Kept \subseteq Reg /\ \A r \in Reg : Result(query[r])' = Result(query[r])
    BY <2>1 DEF ResultUnchanged, Result, LocalDocs, Unsent, Match, Kept, Made
  <2>3. ASSUME NEW r \in Kept \cap raised
        PROVE  Coming(mainQ', r, Result(query[r]), Result(query[r]))
    BY <1>1, <2>3, ComingTail DEF KeptInv
  <2>4. ASSUME Kept # {}, Kept \subseteq raised, ~KeptOnItsWay'
        PROVE  \E r \in Kept : Rows' = Result(query[r])
    <3>1. \A r \in Kept : \A i \in DOMAIN Tail(mainQ) : ~IsEventOf(Tail(mainQ)[i], r)
      BY <1>1, <2>1, <2>4 DEF KeptOnItsWay
    <3>2. CASE m.kind = "event" /\ m.reg \in Kept
      <4>1. Coming(mainQ, m.reg, Result(query[m.reg]), Result(query[m.reg]))
        BY <2>4, <3>2 DEF KeptInv
      <4>2. Coming(Tail(mainQ), m.reg, m.docs, Result(query[m.reg]))
        <5>1. IsEventOf(m, m.reg)
          BY <3>2 DEF IsEventOf
        <5> QED
          BY <1>1, <4>1, <5>1, ComingDelivered
      <4>3. m.docs = Result(query[m.reg])
        BY <3>1, <3>2, <4>2 DEF Coming
      <4>4. m \in AnyEvent
        BY <1>1, <3>2 DEF AnyMessage, AnyAnswer
      <4>5. OnSnapshot
        BY <3>2 DEF MainQueue, OnAnswer, Main, OnListenError, MainHead
      <4>6. thoughsList' = Decoded(Emptied(thoughsList), m.docs)
        BY <3>2, <4>5 DEF OnSnapshot, Kept
      <4>7. Rows' = m.docs
        BY <4>4, <4>6, RowsAreAllDocuments DEF AnyEvent, Rows
      <4> QED
        BY <3>2, <4>3, <4>7
    <3>3. CASE ~(m.kind = "event" /\ m.reg \in Kept)
      <4>1. \A r \in Kept : \A i \in DOMAIN mainQ : ~IsEventOf(mainQ[i], r)
        <5> SUFFICES ASSUME NEW r \in Kept, NEW i \in DOMAIN mainQ
                     PROVE  ~IsEventOf(mainQ[i], r)
          OBVIOUS
        <5>1. CASE i = 1
          BY <1>1, <3>3, <5>1 DEF IsEventOf
        <5>2. CASE i # 1
          <6>1. i - 1 \in DOMAIN Tail(mainQ) /\ Tail(mainQ)[i - 1] = mainQ[i]
            BY <1>1, <5>2
          <6> QED
            BY <3>1, <6>1
        <5> QED
          BY <5>1, <5>2
      <4>2. PICK r \in Kept : Rows = Result(query[r])
        BY <2>4, <4>1 DEF KeptInv, KeptOnItsWay
      <4>3. thoughsList' = thoughsList
        <5>1. CASE OnSnapshot
          <6>1. m.kind = "event" /\ m \in AnyEvent
            BY <1>1, <5>1 DEF OnSnapshot, MainHead, AnyMessage, AnyAnswer
          <6>2. m.reg \in muted
            BY <3>3, <6>1 DEF AnyEvent, Kept
          <6> QED
            BY <5>1, <6>2 DEF OnSnapshot
        <5> QED
          BY <1>4, <5>1
      <4> QED
        BY <4>2, <4>3 DEF Rows
    <3> QED
      BY <3>2, <3>3
  <2> QED
    BY <2>1, <2>2, <2>3, <2>4 DEF KeptInv
<1> QED
  BY <1>3, <1>4 DEF MainQueue, OnAnswer, Main, OnSnapshot, OnListenError, feedVars

LEMMA KeptStep == PostInv /\ KeptInv /\ [RndmNext]_rndmVars => KeptInv'
<1> SUFFICES ASSUME PostInv, KeptInv, [RndmNext]_rndmVars PROVE KeptInv'
  OBVIOUS
<1>0. registered \subseteq Made /\ selectedCategory \in Segments
  BY DEF PostInv, ApiInv
<1>1. ASSUME FirstAppearance \/ \E c \in Composer : Back(c) PROVE KeptInv'
  <2>1. /\ AddSnapshotListener(selectedCategory, <<>>)
        /\ UNCHANGED <<muted, selectedCategory, registered, raised, storeVars, mainQ>>
    BY <1>1 DEF FirstAppearance, Back, ViewWillAppear, ClientUnchanged, listenVars
  <2>2. /\ selectedCategory' \in Segments /\ selectedCategory \in Query
        /\ muted \subseteq muted' /\ muted' \subseteq Made
    BY <2>1 DEF PostInv, ApiInv, Segments, Query
  <2> QED
    BY <2>1, <2>2, AddKeepsKept
<1>2. ASSUME NEW s \in Segments, SelectSegment(s) PROVE KeptInv'
  <2>1. /\ AddSnapshotListener(QueryOf(s), <<Unlisten(thoughtsListener)>>)
        /\ thoughtsListener # 0 /\ selectedCategory' = s
        /\ muted' = muted \cup {thoughtsListener}
        /\ UNCHANGED <<registered, raised, storeVars, mainQ>>
    BY <1>2 DEF SelectSegment, CategoryChanged, ClientUnchanged, listenVars
  <2>2. QueryOf(s) \in Query /\ thoughtsListener \in Made
    BY <2>1 DEF QueryOf, Query, Segments, PostInv, ApiInv
  <2>3. muted \subseteq muted' /\ muted' \subseteq Made
    BY <2>1, <2>2 DEF PostInv, ApiInv
  <2> QED
    BY <2>1, <2>2, <2>3, AddKeepsKept
<1>3. ASSUME ResultUnchanged, UNCHANGED <<muted, thoughsList, mainQ>>, raised' \subseteq raised
      PROVE  KeptInv'
  BY <1>3, SameKept
<1>4. CASE UNCHANGED rndmVars
  BY <1>3, <1>4 DEF rndmVars, vars, clientVars, storeVars, listenVars, apiVars, queueVars,
                    feedVars, ResultUnchanged
<1>5. ASSUME NEW c \in Composer, ShowComposer(c) \/ ComposerTouched(c) PROVE KeptInv'
  <2>1. UNCHANGED vars
    BY <1>5 DEF ShowComposer, ComposerTouched
  <2> QED
    BY <1>3, <2>1 DEF vars, clientVars, storeVars, listenVars, apiVars, queueVars, feedVars,
                      ResultUnchanged
<1>6. ASSUME NEW c \in Composer, NEW d \in Mine, PostThought(c, d) PROVE KeptInv'
  BY <1>3, <1>6 DEF PostThought, ClientUnchanged, storeVars, listenVars, apiVars, feedVars,
                    ResultUnchanged
<1>7. CASE Worker /\ UNCHANGED <<feedVars, composerVars>>
  <2>1. CASE DoUnlisten
    BY <1>3, <1>7, <2>1 DEF DoUnlisten, storeVars, apiVars, feedVars, ResultUnchanged
  <2>2. CASE DoListen \/ DoWrite
    <3>1. UNCHANGED <<server, query, muted, thoughsList, postedBy, author>> /\ Emit(<<>>)
      BY <1>7, <2>2 DEF DoListen, DoWrite, networkVars, apiVars, feedVars, composerVars
    <3>2. Grows
      BY <3>1, PostsKept
    <3>3. registered' \subseteq Made
      <4>1. CASE DoListen
        <5>1. workQ # <<>> /\ Head(workQ) \in AnyWork /\ Head(workQ).op = "listen"
          BY <4>1 DEF DoListen, WorkHead, PostInv, WayInv
        <5>2. Head(workQ).reg \in Made
          BY <5>1 DEF AnyWork
        <5> QED
          BY <1>0, <4>1, <5>2 DEF DoListen
      <4> QED
        BY <1>0, <2>2, <4>1 DEF DoWrite
    <3>4. <<>> \in Seq(AnyMessage') /\ DOMAIN <<>> = {}
      OBVIOUS
    <3> QED
      BY <3>1, <3>2, <3>3, <3>4, EmitKeepsKept
  <2> QED
    BY <1>7, <2>1, <2>2 DEF Worker
<1>8. ASSUME NEW first, Emit(first),
             Grows => first \in Seq(AnyMessage')
                      /\ (\A i \in DOMAIN first : first[i].kind # "event"),
             UNCHANGED <<server, registered, apiVars, feedVars, composerVars>>
      PROVE  KeptInv'
  <2>1. UNCHANGED <<query, muted, thoughsList, postedBy, author>>
    BY <1>8 DEF apiVars, feedVars, composerVars
  <2>2. Grows
    BY <1>8, <2>1, PostsKept
  <2>3. registered' \subseteq Made
    BY <1>0, <1>8
  <2> QED
    BY <1>8, <2>1, <2>2, <2>3, EmitKeepsKept
<1>9. ASSUME NEW ok \in BOOLEAN, outbox # <<>>, ok => Head(outbox).doc \in server,
             Emit(Answer(Head(outbox), ok)),
             UNCHANGED <<networkVars, registered, apiVars, feedVars, composerVars>>
      PROVE  KeptInv'
  <2> DEFINE answer == Answer(Head(outbox), ok)
  <2>1. server' = server
    BY <1>9 DEF networkVars
  <2>2. Grows => answer \in Seq(AnyMessage')
    BY <1>9, <2>1, AnswerOfWrite
  <2>3. \A i \in DOMAIN answer : answer[i].kind # "event"
    BY DEF Answer
  <2> HIDE DEF answer
  <2>4. Emit(answer)
    BY <1>9 DEF answer
  <2> QED
    BY <1>8, <1>9, <2>1, <2>2, <2>3, <2>4
<1>10. CASE Network /\ UNCHANGED <<feedVars, composerVars>>
  <2>1. ASSUME NEW d \in Thought, RemoteAdd(d) PROVE KeptInv'
    BY <1>3, <1>10, <2>1 DEF RemoteAdd, storeVars, listenVars, apiVars, queueVars, feedVars,
                             ResultUnchanged
  <2>2. CASE Commit \/ GoOnline
    BY <1>3, <1>10, <2>2 DEF Commit, GoOnline, storeVars, listenVars, apiVars, queueVars,
                             feedVars, ResultUnchanged
  <2>3. ASSUME NEW q \in Query, Watch(q) \/ GoOffline PROVE KeptInv'
    <3>1. Emit(<<>>) /\ UNCHANGED <<server, registered, apiVars>>
      BY <2>3 DEF Watch, GoOffline, networkVars
    <3>2. <<>> \in Seq(AnyMessage') /\ DOMAIN <<>> = {}
      OBVIOUS
    <3> QED
      BY <1>8, <1>10, <3>1, <3>2
  <2>4. CASE Acknowledge
    BY <1>9, <1>10, <2>4 DEF Acknowledge
  <2>5. CASE RejectWrite
    BY <1>9, <1>10, <2>5 DEF RejectWrite
  <2>6. ASSUME NEW q \in Query, RejectListen(q) PROVE KeptInv'
    <3>1. PICK failures \in Seq([kind : {"error"}, reg : Made]) :
             mainQ' = mainQ \o failures
      BY <2>6, FailuresAdded
    <3>2. \A i \in DOMAIN failures : failures[i].kind # "event"
      <4> DEFINE Failures == [kind : {"error"}, reg : Made]
      <4>1. failures \in Seq(Failures) /\ \A f \in Failures : f.kind # "event"
        OBVIOUS
      <4> HIDE DEF Failures
      <4> QED
        BY <4>1
    <3>3. mainQ \in Seq(AnyMessage) /\ failures \in Seq(AnyMessage)
      BY LargerSequences DEF PostInv, WayInv, AnyMessage
    <3>4. ResultUnchanged /\ UNCHANGED <<muted, thoughsList>> /\ raised' \subseteq raised
      BY <1>10, <2>6 DEF RejectListen, apiVars, storeVars, feedVars, ResultUnchanged
    <3> QED
      BY <3>1, <3>2, <3>3, <3>4, SilentKeepsKept
  <2> QED
    BY <1>10, <2>1, <2>2, <2>3, <2>4, <2>5, <2>6 DEF Network, Query
<1>11. CASE Relaunch
  <2>1. raised' = {} /\ Kept' = {}
    BY <1>11 DEF Relaunch, Kept, Made
  <2> QED
    BY <2>1 DEF KeptInv
<1> QED
  BY <1>1, <1>2, <1>4, <1>5, <1>6, <1>7, <1>10, <1>11, MainQueueKeepsKept DEF RndmNext

(* Once nothing is on its way, the rows are the whole current result of    *)
(* one listener that was not removed.                                      *)
THEOREM RndmQuietRowsAreOfAKeptListener == RndmSpec => []QuietRowsAreOfAKeptListener
<1>1. KeptInv => QuietRowsAreOfAKeptListener
  BY DEF KeptInv, KeptOnItsWay, QuietRowsAreOfAKeptListener, Quiet
<1> QED
  BY <1>1, RndmInvariant, KeptInitially, KeptStep, PTL DEF RndmSpec

-----------------------------------------------------------------------------
(* The way of a thought: posted on the worker queue, then pending in the   *)
(* outbox, then answered on the main queue.  About(e, d): the entry e of   *)
(* one of the three is the write, the mutation or the completion of d.     *)
About(e, d) == "doc" \in DOMAIN e /\ e.doc = d

Has(q, d) == \E i \in DOMAIN q : About(q[i], d)

Single(q, d) == \A i, j \in DOMAIN q : About(q[i], d) /\ About(q[j], d) => i = j

\* Of the thought d, the queue p has nothing that q did not have.
Keeps(p, q, d) ==
    /\ Single(p, d)
    /\ \A i \in DOMAIN p : About(p[i], d) => \E j \in DOMAIN q : p[i] = q[j]

LEMMA HeadAndTail ==
    ASSUME NEW S, NEW q \in Seq(S), q # <<>>, NEW d, Single(q, d)
    PROVE  /\ Keeps(Tail(q), q, d)
           /\ Has(q, d) <=> About(Head(q), d) \/ Has(Tail(q), d)
           /\ ~(About(Head(q), d) /\ Has(Tail(q), d))
<1>1. /\ DOMAIN q = 1 .. Len(q) /\ Len(q) \in Nat \ {0} /\ Head(q) = q[1]
      /\ DOMAIN Tail(q) = 1 .. Len(q) - 1
      /\ \A i \in 1 .. Len(q) - 1 : Tail(q)[i] = q[i + 1]
  OBVIOUS
<1>2. \A i \in 1 .. Len(q) - 1 : i + 1 \in 1 .. Len(q)
  BY <1>1
<1>3. \A i \in 1 .. Len(q) : i # 1 => i - 1 \in 1 .. Len(q) - 1 /\ (i - 1) + 1 = i
  BY <1>1
<1>4. Single(Tail(q), d)
  <2> SUFFICES ASSUME NEW i \in 1 .. Len(q) - 1, NEW j \in 1 .. Len(q) - 1,
                      About(q[i + 1], d), About(q[j + 1], d)
               PROVE  i = j
    BY <1>1 DEF Single
  <2>1. i + 1 = j + 1
    BY <1>1, <1>2 DEF Single
  <2> QED
    BY <2>1
<1>5. \A i \in DOMAIN Tail(q) : Tail(q)[i] = q[i + 1] /\ i + 1 \in DOMAIN q
  BY <1>1, <1>2
<1>6. Keeps(Tail(q), q, d)
  BY <1>4, <1>5 DEF Keeps
<1>7. ASSUME Has(q, d) PROVE About(Head(q), d) \/ Has(Tail(q), d)
  <2>1. PICK i \in 1 .. Len(q) : About(q[i], d)
    BY <1>1, <1>7 DEF Has
  <2>2. CASE i = 1
    BY <1>1, <2>1, <2>2
  <2>3. CASE i # 1
    <3>1. i - 1 \in DOMAIN Tail(q) /\ Tail(q)[i - 1] = q[i]
      BY <1>1, <1>3, <2>3
    <3> QED
      BY <2>1, <3>1 DEF Has
  <2> QED
    BY <2>2, <2>3
<1>8. 1 \in DOMAIN q
  BY <1>1
<1>9. ASSUME About(Head(q), d), Has(Tail(q), d) PROVE FALSE
  <2>1. PICK i \in DOMAIN Tail(q) : About(Tail(q)[i], d)
    BY <1>9 DEF Has
  <2>2. About(q[i + 1], d) /\ i + 1 \in DOMAIN q /\ i + 1 # 1
    BY <1>1, <1>5, <2>1
  <2> QED
    BY <1>1, <1>8, <1>9, <2>2 DEF Single
<1>10. About(Head(q), d) \/ Has(Tail(q), d) => Has(q, d)
  BY <1>1, <1>5, <1>8 DEF Has
<1> QED
  BY <1>6, <1>7, <1>9, <1>10

LEMMA JoinedQueues ==
    ASSUME NEW S, NEW q \in Seq(S), NEW p \in Seq(S), NEW d
    PROVE  /\ Has(q \o p, d) <=> Has(q, d) \/ Has(p, d)
           /\ Single(q, d) /\ Single(p, d) /\ ~(Has(q, d) /\ Has(p, d)) => Single(q \o p, d)
           /\ Single(q, d) /\ ~Has(p, d) => Keeps(q \o p, q, d)
<1>1. /\ DOMAIN q = 1 .. Len(q) /\ Len(q) \in Nat
      /\ DOMAIN p = 1 .. Len(p) /\ Len(p) \in Nat
      /\ q \o p \in Seq(S) /\ Len(q \o p) = Len(q) + Len(p)
      /\ DOMAIN (q \o p) = 1 .. Len(q) + Len(p)
  OBVIOUS
<1> DEFINE r == q \o p
<1>2. /\ \A i \in DOMAIN q : i \in DOMAIN r /\ r[i] = q[i]
      /\ \A i \in DOMAIN p : Len(q) + i \in DOMAIN r /\ r[Len(q) + i] = p[i]
  BY <1>1
<1>3. \A i \in DOMAIN r :
         \/ i \in DOMAIN q
         \/ i - Len(q) \in DOMAIN p /\ r[i] = p[i - Len(q)]
  BY <1>1
<1> HIDE DEF r
<1>4. Has(r, d) => Has(q, d) \/ Has(p, d)
  BY <1>2, <1>3 DEF Has
<1>5. Has(q, d) \/ Has(p, d) => Has(r, d)
  BY <1>2 DEF Has
<1>6. ASSUME Single(q, d), Single(p, d), ~(Has(q, d) /\ Has(p, d))
      PROVE  Single(r, d)
  <2> SUFFICES ASSUME NEW i \in DOMAIN r, NEW j \in DOMAIN r,
                      About(r[i], d), About(r[j], d)
               PROVE  i = j
    BY DEF Single
  <2>1. CASE i \in DOMAIN q /\ j \in DOMAIN q
    BY <1>2, <1>6, <2>1 DEF Single
  <2>2. CASE i \notin DOMAIN q /\ j \notin DOMAIN q
    <3>1. i - Len(q) = j - Len(q)
      BY <1>3, <1>6, <2>2 DEF Single
    <3>2. i \in Int /\ j \in Int
      BY <1>1 DEF r
    <3> QED
      BY <1>1, <3>1, <3>2
  <2>3. CASE i \in DOMAIN q /\ j \notin DOMAIN q
    BY <1>2, <1>3, <1>6, <2>3 DEF Has
  <2>4. CASE i \notin DOMAIN q /\ j \in DOMAIN q
    BY <1>2, <1>3, <1>6, <2>4 DEF Has
  <2> QED
    BY <2>1, <2>2, <2>3, <2>4
<1>7. ASSUME Single(q, d), ~Has(p, d)
      PROVE  Keeps(r, q, d)
  <2>1. Single(p, d)
    BY <1>7 DEF Has, Single
  <2>2. Single(r, d)
    BY <1>6, <1>7, <2>1
  <2>3. ASSUME NEW i \in DOMAIN r, About(r[i], d)
        PROVE  \E j \in DOMAIN q : r[i] = q[j]
    BY <1>2, <1>3, <1>7, <2>3 DEF Has
  <2> QED
    BY <2>2, <2>3 DEF Keeps
<1> QED
  BY <1>4, <1>5, <1>6, <1>7 DEF r

LEMMA OneEntry ==
    ASSUME NEW e, NEW d
    PROVE  Single(<<e>>, d) /\ (Has(<<e>>, d) <=> About(e, d))
BY DEF Single, Has

(* Listens, snapshots and errors are not about a thought of this client.   *)
LEMMA AboutNoThought ==
    ASSUME NEW d, NEW e,
           \/ e \in [op : {"listen", "unlisten"}, reg : Made]
           \/ e \in AnyEvent
           \/ e \in [kind : {"error"}, reg : Made]
    PROVE  ~About(e, d)
BY DEF About, AnyEvent

LEMMA NoneAbout ==
    ASSUME NEW S, NEW q \in Seq(S), NEW d, \A e \in S : ~About(e, d)
    PROVE  ~Has(q, d)
BY DEF Has


LEMMA EntriesOfJoined ==
    ASSUME NEW S, NEW q \in Seq(S), NEW p \in Seq(S), NEW i \in DOMAIN (q \o p)
    PROVE  \/ \E j \in DOMAIN q : (q \o p)[i] = q[j]
           \/ \E j \in DOMAIN p : (q \o p)[i] = p[j]
<1>1. /\ DOMAIN q = 1 .. Len(q) /\ Len(q) \in Nat
      /\ DOMAIN p = 1 .. Len(p) /\ Len(p) \in Nat
      /\ DOMAIN (q \o p) = 1 .. Len(q) + Len(p)
  OBVIOUS
<1>2. CASE i <= Len(q)
  BY <1>1, <1>2
<1>3. CASE i > Len(q)
  <2>1. i - Len(q) \in DOMAIN p /\ (q \o p)[i] = p[i - Len(q)]
    BY <1>1, <1>3
  <2> QED
    BY <2>1
<1> QED
  BY <1>1, <1>2, <1>3

(* A thought is in one place of its way at a time.  It is pending under    *)
(* the composer that posted it, until the process ends, and the backend    *)
(* has none that was not sent.                                             *)
Once(d) ==
    /\ Single(workQ, d) /\ Single(outbox, d) /\ Single(mainQ, d)
    /\ ~(Has(workQ, d) /\ Has(outbox, d))
    /\ ~(Has(workQ, d) /\ Has(mainQ, d))
    /\ ~(Has(outbox, d) /\ Has(mainQ, d))
    /\ Has(workQ, d) => d \notin server
    /\ author[d] = None =>
          d \notin server /\ postedBy[d] = None /\ ~Has(workQ, d) /\ ~Has(outbox, d)
              /\ ~Has(mainQ, d)
    /\ \A i \in DOMAIN outbox : About(outbox[i], d) => outbox[i].from = postedBy[d]

OnceInv == \A d \in Mine : Once(d)

LEMMA OnceInitially == RndmInit => OnceInv
<1> SUFFICES ASSUME RndmInit, NEW d \in Mine PROVE Once(d)
  BY DEF OnceInv
<1>1. workQ = <<>> /\ outbox = <<>> /\ mainQ = <<>> /\ d \notin server
  BY DEF RndmInit, ClientInit
<1>2. author[d] = None /\ postedBy[d] = None
  BY DEF RndmInit, ComposerInit
<1>3. Single(<<>>, d) /\ ~Has(<<>>, d)
  BY DEF Single, Has
<1> QED
  BY <1>1, <1>2, <1>3 DEF Once

(* A step that puts nothing about d on any of the queues, whatever it      *)
(* takes from them.                                                        *)
LEMMA OnceKept ==
    ASSUME NEW d \in Mine, Once(d),
           Keeps(workQ', workQ, d), Keeps(outbox', outbox, d), Keeps(mainQ', mainQ, d),
           author'[d] = author[d], postedBy'[d] = postedBy[d],
           d \in server' <=> d \in server
    PROVE  Once(d)'
<1>1. /\ Has(workQ', d) => Has(workQ, d)
      /\ Has(outbox', d) => Has(outbox, d)
      /\ Has(mainQ', d) => Has(mainQ, d)
  BY DEF Keeps, Has
<1>2. Single(workQ', d) /\ Single(outbox', d) /\ Single(mainQ', d)
  BY DEF Keeps
<1>3. \A i \in DOMAIN outbox' : About(outbox'[i], d) => outbox'[i].from = postedBy'[d]
  BY DEF Keeps, Once
<1> QED
  BY <1>1, <1>2, <1>3 DEF Once

LEMMA KeepsItself ==
    ASSUME NEW q, NEW d, Single(q, d)
    PROVE  Keeps(q, q, d)
BY DEF Keeps

(* What the calls of addSnapshotListener and remove put on the worker      *)
(* queue is about no thought.                                              *)
LEMMA AddKeepsAbout ==
    ASSUME PostInv, NEW q \in Query, NEW calls \in Seq([op : {"unlisten"}, reg : Made]),
           AddSnapshotListener(q, calls), NEW d, Single(workQ, d)
    PROVE  Keeps(workQ', workQ, d)
<1> DEFINE Listens == [op : {"listen", "unlisten"}, reg : Int]
           added == Append(calls, Listen(NextListener))
<1>1. Listen(NextListener) \in Listens /\ [op : {"unlisten"}, reg : Made] \subseteq Listens
  BY DEF Listen, AddSnapshotListener, Reg, Made
<1>2. calls \in Seq(Listens)
  BY <1>1, LargerSequences
<1>3. added \in Seq(Listens)
  BY <1>1, <1>2
<1>4. \A e \in Listens : ~About(e, d)
  BY DEF About
<1>5. workQ' = workQ \o added
  BY DEF AddSnapshotListener
<1>6. workQ \in Seq(AnyWork)
  BY DEF PostInv, WayInv
<1> HIDE DEF added, Listens
<1>7. ~Has(added, d)
  BY <1>3, <1>4, NoneAbout
<1>8. workQ \in Seq(AnyWork \cup Listens) /\ added \in Seq(AnyWork \cup Listens)
  BY <1>3, <1>6, LargerSequences
<1> QED
  BY <1>5, <1>7, <1>8, JoinedQueues

(* The client adds to the main queue what it called first, and snapshots.  *)
LEMMA EmitAbout ==
    ASSUME PostInv, Grows, NEW first \in Seq(AnyMessage'), Emit(first),
           registered' \subseteq Made, query' = query, NEW d, Single(mainQ, d)
    PROVE  /\ Has(mainQ', d) <=> Has(mainQ, d) \/ Has(first, d)
           /\ ~Has(first, d) => Keeps(mainQ', mainQ, d)
           /\ Single(first, d) /\ ~Has(mainQ, d) => Keeps(mainQ', first, d)
<1>1. PICK order \in SetToSeqs(Due) :
         /\ Events(order) \in Seq(AnyEvent)
         /\ mainQ' = mainQ \o first \o Events(order)
  BY EmittedAnyEvents
<1> DEFINE ev == Events(order)
<1>2. AnyEvent \subseteq AnyMessage'
  BY DEF Grows, AnyMessage, AnyEvent
<1>3. ev \in Seq(AnyMessage') /\ mainQ \in Seq(AnyMessage')
  BY <1>1, <1>2, LargerSequences, WayGrows DEF PostInv
<1>4. ~Has(ev, d)
  <2>1. \A e \in AnyEvent : ~About(e, d)
    BY DEF About, AnyEvent
  <2> QED
    BY <1>1, <2>1, NoneAbout
<1>5. mainQ' = (mainQ \o first) \o ev
  BY <1>1
<1> HIDE DEF ev
<1> DEFINE both == mainQ \o first
<1>6. both \in Seq(AnyMessage')
  BY <1>3
<1>7. Has(both, d) <=> Has(mainQ, d) \/ Has(first, d)
  BY <1>3, JoinedQueues
<1>8. /\ ~Has(first, d) => Keeps(both, mainQ, d)
      /\ Single(first, d) /\ ~Has(mainQ, d) => Keeps(both, first, d)
  <2>1. ~Has(first, d) => Keeps(both, mainQ, d)
    BY <1>3, JoinedQueues
  <2>2. ASSUME Single(first, d), ~Has(mainQ, d) PROVE Keeps(both, first, d)
    <3>1. Single(both, d)
      BY <1>3, <2>2, JoinedQueues
    <3>2. ASSUME NEW i \in DOMAIN both, About(both[i], d)
          PROVE  \E j \in DOMAIN first : both[i] = first[j]
      <4>1. \/ \E j \in DOMAIN mainQ : both[i] = mainQ[j]
            \/ \E j \in DOMAIN first : both[i] = first[j]
        BY <1>3, <3>2, EntriesOfJoined
      <4> QED
        BY <2>2, <3>2, <4>1 DEF Has
    <3> QED
      BY <3>1, <3>2 DEF Keeps
  <2> QED
    BY <2>1, <2>2
<1> HIDE DEF both
<1>9. mainQ' = both \o ev
  BY <1>5 DEF both
<1>10. Has(mainQ', d) <=> Has(both, d)
  BY <1>3, <1>4, <1>6, <1>9, JoinedQueues
<1>11. Single(both, d) => Keeps(mainQ', both, d)
  BY <1>3, <1>4, <1>6, <1>9, JoinedQueues
<1>12. ASSUME NEW p, Keeps(both, p, d) PROVE Keeps(mainQ', p, d)
  <2>1. Keeps(mainQ', both, d)
    BY <1>11, <1>12 DEF Keeps
  <2> QED
    BY <1>12, <2>1 DEF Keeps
<1> QED
  BY <1>7, <1>8, <1>10, <1>12

-----------------------------------------------------------------------------
LEMMA AppendKeepsAbout ==
    ASSUME NEW S, NEW q \in Seq(S), NEW e \in S, NEW d, Single(q, d)
    PROVE  /\ Has(Append(q, e), d) <=> Has(q, d) \/ About(e, d)
           /\ ~About(e, d) => Keeps(Append(q, e), q, d)
           /\ ~Has(q, d) => Keeps(Append(q, e), <<e>>, d)
<1>1. Append(q, e) = q \o <<e>> /\ <<e>> \in Seq(S)
  OBVIOUS
<1>2. Single(<<e>>, d) /\ (Has(<<e>>, d) <=> About(e, d))
  BY OneEntry
<1> DEFINE one == <<e>>
<1>3. /\ one \in Seq(S) /\ Append(q, e) = q \o one
      /\ Single(one, d) /\ (Has(one, d) <=> About(e, d))
  BY <1>1, <1>2
<1> HIDE DEF one
<1>4. /\ Has(q \o one, d) <=> Has(q, d) \/ Has(one, d)
      /\ ~(Has(q, d) /\ Has(one, d)) => Single(q \o one, d)
      /\ ~Has(one, d) => Keeps(q \o one, q, d)
  BY <1>3, JoinedQueues
<1>5. ASSUME ~Has(q, d) PROVE Keeps(q \o one, one, d)
  <2>1. \A i \in DOMAIN (q \o one) :
           \/ \E j \in DOMAIN q : (q \o one)[i] = q[j]
           \/ \E j \in DOMAIN one : (q \o one)[i] = one[j]
    BY <1>3, EntriesOfJoined
  <2> QED
    BY <1>4, <1>5, <2>1 DEF Keeps, Has
<1> QED
  BY <1>3, <1>4, <1>5 DEF one

LEMMA AddKeepsOnce ==
    ASSUME PostInv, NEW q \in Query, NEW calls \in Seq([op : {"unlisten"}, reg : Made]),
           AddSnapshotListener(q, calls), NEW d \in Mine, Once(d),
           Keeps(mainQ', mainQ, d), UNCHANGED <<outbox, server, author, postedBy>>
    PROVE  Once(d)'
<1>1. Keeps(workQ', workQ, d)
  BY AddKeepsAbout DEF Once
<1>2. Keeps(outbox', outbox, d)
  BY KeepsItself DEF Once
<1> QED
  BY <1>1, <1>2, OnceKept

LEMMA ListKeepsOnce ==
    ASSUME PostInv, NEW d \in Mine, Once(d),
           \/ FirstAppearance
           \/ \E s \in Segments : SelectSegment(s)
           \/ \E c \in Composer : Back(c)
    PROVE  Once(d)'
<1>1. UNCHANGED <<mainQ, outbox, server, author, postedBy>>
  BY DEF FirstAppearance, SelectSegment, Back, PopScreen, ClientUnchanged, networkVars,
         storeVars, composerVars
<1>2. Keeps(mainQ', mainQ, d)
  BY <1>1, KeepsItself DEF Once
<1>3. selectedCategory \in Query /\ <<>> \in Seq([op : {"unlisten"}, reg : Made])
  BY DEF PostInv, ApiInv, Segments, Query
<1>4. CASE FirstAppearance \/ \E c \in Composer : Back(c)
  <2>1. AddSnapshotListener(selectedCategory, <<>>)
    BY <1>4 DEF FirstAppearance, Back, ViewWillAppear
  <2> QED
    BY <1>1, <1>2, <1>3, <2>1, AddKeepsOnce
<1>5. ASSUME NEW s \in Segments, SelectSegment(s) PROVE Once(d)'
  <2>1. /\ AddSnapshotListener(QueryOf(s), <<Unlisten(thoughtsListener)>>)
        /\ thoughtsListener # 0
    BY <1>5 DEF SelectSegment, CategoryChanged
  <2>2. QueryOf(s) \in Query
    BY DEF QueryOf, Query, Segments
  <2>3. thoughtsListener \in Made
    BY <2>1 DEF PostInv, ApiInv
  <2>4. <<Unlisten(thoughtsListener)>> \in Seq([op : {"unlisten"}, reg : Made])
    BY <2>3 DEF Unlisten
  <2> QED
    BY <1>1, <1>2, <2>1, <2>2, <2>4, AddKeepsOnce
<1> QED
  BY <1>4, <1>5

(* A thought that is posted was nowhere before.                            *)
LEMMA PostKeepsOnce ==
    ASSUME PostInv, NEW c \in Composer, NEW e \in Mine, PostThought(c, e),
           NEW d \in Mine, Once(d)
    PROVE  Once(d)'
<1>1. /\ author[e] = None
      /\ author' = [author EXCEPT ![e] = username]
      /\ postedBy' = [postedBy EXCEPT ![e] = c]
      /\ workQ' = Append(workQ, Write(c, e))
      /\ UNCHANGED <<server, outbox, mainQ>>
  BY DEF PostThought, Post, ClientUnchanged, networkVars, storeVars
<1> DEFINE S == AnyWork \cup {Write(c, e)}
           w == Write(c, e)
<1>2. workQ \in Seq(S) /\ w \in S
  BY LargerSequences DEF PostInv, WayInv
<1>3. About(w, d) <=> e = d
  BY DEF About, Write
<1>4. Single(workQ, d) /\ Single(outbox, d) /\ Single(mainQ, d)
  BY DEF Once
<1> HIDE DEF w, S
<1>5. /\ Has(Append(workQ, w), d) <=> Has(workQ, d) \/ About(w, d)
      /\ ~About(w, d) => Keeps(Append(workQ, w), workQ, d)
      /\ ~Has(workQ, d) => Keeps(Append(workQ, w), <<w>>, d)
  BY <1>2, <1>4, AppendKeepsAbout
<1>6. workQ' = Append(workQ, w)
  BY <1>1 DEF w
<1>7. Keeps(outbox', outbox, d) /\ Keeps(mainQ', mainQ, d)
  BY <1>1, <1>4, KeepsItself
<1>8. CASE e # d
  <2>1. author'[d] = author[d] /\ postedBy'[d] = postedBy[d]
    BY <1>1, <1>8 DEF PostInv, ComposerInv
  <2>2. Keeps(workQ', workQ, d)
    BY <1>3, <1>5, <1>6, <1>8
  <2> QED
    BY <1>1, <1>7, <2>1, <2>2, OnceKept
<1>9. CASE e = d
  <2>1. d \notin server /\ ~Has(workQ, d) /\ ~Has(outbox, d) /\ ~Has(mainQ, d)
    BY <1>1, <1>9 DEF Once
  <2>2. username # None
    BY ComposerAssumption DEF PostInv, ComposerInv
  <2>3. author'[d] # None
    BY <1>1, <1>9, <2>2 DEF PostInv, ComposerInv
  <2>4. Single(workQ', d)
    BY <1>5, <1>6, <2>1 DEF Keeps
  <2>5. d \notin server' /\ ~Has(outbox', d) /\ ~Has(mainQ', d)
    BY <1>1, <2>1
  <2>6. Single(outbox', d) /\ Single(mainQ', d)
    BY <1>1, <1>4
  <2>7. \A i \in DOMAIN outbox' : ~About(outbox'[i], d)
    BY <2>5 DEF Has
  <2>8. \A i \in DOMAIN mainQ' : ~About(mainQ'[i], d)
    BY <2>5 DEF Has
  <2> QED
    BY <2>3, <2>4, <2>5, <2>6, <2>7, <2>8 DEF Once
<1> QED
  BY <1>8, <1>9

LEMMA TailKeepsAbout ==
    ASSUME NEW S, NEW q \in Seq(S), q # <<>>, NEW d, Single(q, d)
    PROVE  /\ Keeps(Tail(q), q, d)
           /\ About(Head(q), d) => Has(q, d) /\ ~Has(Tail(q), d)
BY HeadAndTail

(* The worker queue: a write moves to the outbox.                          *)
LEMMA WorkerKeepsOnce ==
    ASSUME PostInv, Worker, UNCHANGED <<feedVars, composerVars>>,
           NEW d \in Mine, Once(d)
    PROVE  Once(d)'
<1> DEFINE w == Head(workQ)
<1>1. workQ # <<>> /\ workQ' = Tail(workQ) /\ workQ \in Seq(AnyWork) /\ w \in AnyWork
  BY DEF Worker, DoListen, DoUnlisten, DoWrite, WorkHead, PostInv, WayInv
<1>2. UNCHANGED <<apiVars, server, query, author, postedBy>>
  BY DEF Worker, DoListen, DoUnlisten, DoWrite, networkVars, apiVars, composerVars
<1>3. Single(workQ, d) /\ Single(outbox, d) /\ Single(mainQ, d)
  BY DEF Once
<1>4. Keeps(workQ', workQ, d)
  BY <1>1, <1>3, TailKeepsAbout
<1>5. Grows
  BY <1>2, PostsKept
<1>6. registered' \subseteq Made
  <2>1. CASE DoListen
    <3>1. w.reg \in Made
      BY <1>1, <2>1 DEF DoListen, WorkHead, AnyWork
    <3> QED
      BY <2>1, <3>1 DEF DoListen, PostInv, ApiInv
  <2>2. CASE DoUnlisten \/ DoWrite
    BY <2>2 DEF DoUnlisten, DoWrite, PostInv, ApiInv
  <2> QED
    BY <2>1, <2>2 DEF Worker
<1>7. Keeps(mainQ', mainQ, d)
  <2>1. CASE Emit(<<>>)
    <3>1. <<>> \in Seq(AnyMessage') /\ ~Has(<<>>, d)
      BY DEF Has
    <3> QED
      BY <1>2, <1>3, <1>5, <1>6, <2>1, <3>1, EmitAbout
  <2>2. CASE DoUnlisten
    BY <1>3, <2>2, KeepsItself DEF DoUnlisten
  <2> QED
    BY <2>1, <2>2 DEF Worker, DoListen, DoWrite
<1>8. CASE DoListen \/ DoUnlisten
  <2>1. outbox' = outbox
    BY <1>8 DEF DoListen, DoUnlisten, storeVars
  <2>2. Keeps(outbox', outbox, d)
    BY <1>3, <2>1, KeepsItself
  <2> QED
    BY <1>2, <1>4, <1>7, <2>2, OnceKept
<1>9. CASE DoWrite
  <2> DEFINE m == [doc |-> w.doc, from |-> w.from]
  <2>1. w \in [op : {"write"}, from : Composer, doc : Mine] /\ Posted(w.from, w.doc)
    BY <1>1, <1>9 DEF DoWrite, WorkHead, AnyWork
  <2>2. outbox' = Append(outbox, m)
    BY <1>9 DEF DoWrite
  <2>3. outbox \in Seq(AnyWrite) /\ m \in AnyWrite
    BY <2>1 DEF PostInv, WayInv, AnyWrite
  <2>4. (About(m, d) <=> w.doc = d) /\ (About(w, d) <=> w.doc = d) /\ m.from = w.from
    BY <2>1 DEF About
  <2> HIDE DEF m
  <2>5. /\ Has(outbox', d) <=> Has(outbox, d) \/ About(m, d)
        /\ ~About(m, d) => Keeps(outbox', outbox, d)
        /\ ~Has(outbox, d) => Keeps(outbox', <<m>>, d)
    BY <1>3, <2>2, <2>3, AppendKeepsAbout
  <2>6. CASE w.doc # d
    BY <1>2, <1>4, <1>7, <2>4, <2>5, <2>6, OnceKept
  <2>7. CASE w.doc = d
    <3>1. Has(workQ, d) /\ ~Has(workQ', d)
      BY <1>1, <1>3, <2>4, <2>7, TailKeepsAbout
    <3>2. /\ ~Has(outbox, d) /\ ~Has(mainQ, d) /\ d \notin server /\ author[d] # None
      BY <3>1 DEF Once
    <3>3. ~Has(mainQ', d)
      BY <1>7, <3>2 DEF Keeps, Has
    <3>4. \A i \in DOMAIN mainQ' : ~About(mainQ'[i], d)
      BY <3>3 DEF Has
    <3>5. Keeps(outbox', <<m>>, d)
      BY <2>5, <3>2
    <3>6. \A i \in DOMAIN outbox' : About(outbox'[i], d) => outbox'[i] = m
      BY <3>5 DEF Keeps
    <3>7. m.from = postedBy[d]
      BY <2>1, <2>4, <2>7 DEF Posted
    <3>8. Single(workQ', d) /\ Single(outbox', d) /\ Single(mainQ', d)
      BY <1>4, <1>7, <3>5 DEF Keeps
    <3> QED
      BY <1>2, <3>1, <3>2, <3>3, <3>4, <3>6, <3>7, <3>8 DEF Once
  <2> QED
    BY <2>6, <2>7
<1> QED
  BY <1>8, <1>9 DEF Worker

(* The completion of the oldest pending write, if it still has one.        *)
LEMMA AnswerAbout ==
    ASSUME PostInv, outbox # <<>>, NEW ok \in BOOLEAN, NEW d
    PROVE  /\ Single(Answer(Head(outbox), ok), d)
           /\ Has(Answer(Head(outbox), ok), d) <=>
                 About(Head(outbox), d) /\ Head(outbox).from # None
           /\ \A i \in DOMAIN Answer(Head(outbox), ok) : Answer(Head(outbox), ok)[i].ok = ok
<1> DEFINE w == Head(outbox)
           m == [kind |-> "ack", from |-> w.from, doc |-> w.doc, ok |-> ok]
<1>1. w \in [doc : Mine, from : Composer \cup {None}]
  BY DEF PostInv, WayInv, AnyWrite
<1>2. (About(w, d) <=> w.doc = d) /\ (About(m, d) <=> w.doc = d) /\ m.ok = ok
  BY <1>1 DEF About
<1>3. CASE w.from = None
  <2>1. Answer(w, ok) = <<>>
    BY <1>3 DEF Answer
  <2> QED
    BY <1>3, <2>1 DEF Single, Has
<1>4. CASE w.from # None
  <2>1. Answer(w, ok) = <<m>>
    BY <1>4 DEF Answer
  <2> HIDE DEF m
  <2>2. Single(<<m>>, d) /\ (Has(<<m>>, d) <=> About(m, d))
    BY OneEntry
  <2>3. \A i \in DOMAIN <<m>> : <<m>>[i] = m
    OBVIOUS
  <2> QED
    BY <1>2, <1>4, <2>1, <2>2, <2>3
<1> QED
  BY <1>3, <1>4

(* The backend answers the oldest pending write.                           *)
LEMMA AnswerKeepsOnce ==
    ASSUME PostInv, NEW d \in Mine, Once(d), NEW ok \in BOOLEAN,
           outbox # <<>>, outbox' = Tail(outbox),
           ok => Head(outbox).doc \in server, Emit(Answer(Head(outbox), ok)),
           UNCHANGED <<networkVars, apiVars, registered, workQ, composerVars>>
    PROVE  Once(d)'
<1> DEFINE w == Head(outbox)
           first == Answer(w, ok)
<1>1. UNCHANGED <<server, query, author, postedBy>> /\ registered' \subseteq Made
  BY DEF networkVars, apiVars, composerVars, PostInv, ApiInv
<1>2. Grows
  BY <1>1, PostsKept
<1>3. Single(workQ, d) /\ Single(outbox, d) /\ Single(mainQ, d)
  BY DEF Once
<1>4. outbox \in Seq(AnyWrite) /\ w \in AnyWrite
  BY DEF PostInv, WayInv
<1>5. first \in Seq(AnyMessage')
  BY <1>1, <1>2, AnswerOfWrite
<1>6. /\ Single(first, d)
      /\ Has(first, d) <=> About(w, d) /\ w.from # None
  BY AnswerAbout
<1> HIDE DEF first
<1>7. /\ Has(mainQ', d) <=> Has(mainQ, d) \/ Has(first, d)
      /\ ~Has(first, d) => Keeps(mainQ', mainQ, d)
      /\ ~Has(mainQ, d) => Keeps(mainQ', first, d)
  <2>1. Emit(first)
    BY DEF first
  <2> QED
    BY <1>1, <1>2, <1>3, <1>5, <1>6, <2>1, EmitAbout
<1>8. Keeps(outbox', outbox, d)
  BY <1>3, <1>4, TailKeepsAbout
<1>9. Keeps(workQ', workQ, d)
  BY <1>3, KeepsItself
<1>10. CASE ~Has(first, d)
  BY <1>1, <1>7, <1>8, <1>9, <1>10, OnceKept
<1>11. CASE Has(first, d)
  <2>1. Has(outbox, d) /\ ~Has(outbox', d) /\ w.doc = d
    BY <1>3, <1>4, <1>6, <1>11, TailKeepsAbout DEF About
  <2>2. ~Has(workQ, d) /\ ~Has(mainQ, d) /\ author[d] # None
    BY <2>1 DEF Once
  <2>4. \A i \in DOMAIN outbox' : ~About(outbox'[i], d)
    BY <2>1 DEF Has
  <2>5. Single(workQ', d) /\ Single(outbox', d) /\ Single(mainQ', d)
    BY <1>7, <1>8, <1>9, <2>2 DEF Keeps
  <2>6. ~Has(workQ', d)
    BY <2>2
  <2> QED
    BY <1>1, <2>1, <2>2, <2>4, <2>5, <2>6 DEF Once
<1> QED
  BY <1>10, <1>11

LEMMA NetworkKeepsOnce ==
    ASSUME PostInv, Network, UNCHANGED <<feedVars, composerVars>>,
           NEW d \in Mine, Once(d)
    PROVE  Once(d)'
<1>1. Single(workQ, d) /\ Single(outbox, d) /\ Single(mainQ, d)
  BY DEF Once
<1>2. /\ Keeps(workQ, workQ, d) /\ Keeps(outbox, outbox, d) /\ Keeps(mainQ, mainQ, d)
      /\ UNCHANGED <<author, postedBy>>
  BY <1>1, KeepsItself DEF composerVars
<1>3. ASSUME Emit(<<>>), UNCHANGED <<server, apiVars, registered>>
      PROVE  Keeps(mainQ', mainQ, d)
  <2>1. <<>> \in Seq(AnyMessage') /\ ~Has(<<>>, d)
    BY DEF Has
  <2>2. UNCHANGED query /\ registered' \subseteq Made
    BY <1>3 DEF apiVars, PostInv, ApiInv
  <2>3. Grows
    BY <1>2, <1>3, <2>2, PostsKept
  <2> QED
    BY <1>1, <1>3, <2>1, <2>2, <2>3, EmitAbout
<1>4. ASSUME NEW e \in Thought \ Mine, RemoteAdd(e) PROVE Once(d)'
  <2>1. UNCHANGED <<outbox, workQ, mainQ>> /\ (d \in server' <=> d \in server)
    BY <1>4 DEF RemoteAdd, storeVars, queueVars
  <2> QED
    BY <1>2, <2>1, OnceKept
<1>5. ASSUME NEW q \in Query, Watch(q) PROVE Once(d)'
  <2>1. UNCHANGED <<server, outbox, registered, apiVars, workQ>> /\ Emit(<<>>)
    BY <1>5 DEF Watch, networkVars
  <2> QED
    BY <1>2, <1>3, <2>1, OnceKept
<1>6. ASSUME NEW q \in Query, RejectListen(q) PROVE Once(d)'
  <2>1. PICK failures \in Seq([kind : {"error"}, reg : Made]) : mainQ' = mainQ \o failures
    BY <1>6, FailuresAdded
  <2>2. ~Has(failures, d)
    <3>1. \A e \in [kind : {"error"}, reg : Made] : ~About(e, d)
      BY DEF About
    <3> QED
      BY <3>1, NoneAbout
  <2>3. mainQ \in Seq(AnyMessage) /\ failures \in Seq(AnyMessage)
    BY LargerSequences DEF PostInv, WayInv, AnyMessage
  <2>4. Keeps(mainQ', mainQ, d)
    BY <1>1, <2>1, <2>2, <2>3, JoinedQueues
  <2>5. UNCHANGED <<server, outbox, workQ>>
    BY <1>6 DEF RejectListen, networkVars, storeVars
  <2> QED
    BY <1>2, <2>4, <2>5, OnceKept
<1>7. CASE Commit
  <2>0. PICK k \in DOMAIN outbox : server' = server \cup {outbox[k].doc}
    BY <1>7 DEF Commit
  <2> DEFINE w == outbox[k]
  <2>1. /\ outbox \in Seq(AnyWrite) /\ w \in AnyWrite
        /\ server' = server \cup {w.doc}
        /\ UNCHANGED <<outbox, workQ, mainQ>>
    BY <1>7, <2>0 DEF Commit, PostInv, WayInv, storeVars, queueVars
  <2>2. CASE w.doc # d
    <3>1. d \in server' <=> d \in server
      BY <2>1, <2>2
    <3> QED
      BY <1>2, <2>1, <3>1, OnceKept
  <2>3. CASE w.doc = d
    <3>1. About(w, d)
      BY <2>1, <2>3 DEF About, AnyWrite
    <3>2. Has(outbox, d)
      BY <2>0, <3>1 DEF Has
    <3>3. ~Has(workQ, d) /\ ~Has(mainQ, d) /\ author[d] # None
      BY <3>2 DEF Once
    <3>5. ~Has(workQ', d) /\ ~Has(mainQ', d)
      BY <2>1, <3>3
    <3>6. \A i \in DOMAIN outbox : About(outbox[i], d) => outbox[i].from = postedBy[d]
      BY DEF Once
    <3>7. /\ workQ' = workQ /\ outbox' = outbox /\ mainQ' = mainQ
          /\ author' = author /\ postedBy' = postedBy
      BY <1>2, <2>1
    <3> QED
      BY <1>1, <3>3, <3>5, <3>6, <3>7 DEF Once
  <2> QED
    BY <2>2, <2>3
<1>8. CASE Acknowledge
  BY <1>8, AnswerKeepsOnce DEF Acknowledge
<1>9. CASE RejectWrite
  BY <1>9, AnswerKeepsOnce DEF RejectWrite
<1>10. CASE GoOffline
  <2>1. UNCHANGED <<server, outbox, registered, apiVars, workQ>> /\ Emit(<<>>)
    BY <1>10 DEF GoOffline, storeVars
  <2> QED
    BY <1>2, <1>3, <2>1, OnceKept
<1>11. CASE GoOnline
  <2>1. UNCHANGED <<server, outbox, workQ, mainQ>>
    BY <1>11 DEF GoOnline, storeVars, queueVars
  <2> QED
    BY <1>2, <2>1, OnceKept
<1> QED
  BY <1>4, <1>5, <1>6, <1>7, <1>8, <1>9, <1>10, <1>11 DEF Network

LEMMA MainQueueKeepsOnce ==
    ASSUME PostInv, MainQueue, NEW d \in Mine, Once(d)
    PROVE  Once(d)'
<1>1. mainQ # <<>> /\ mainQ' = Tail(mainQ) /\ mainQ \in Seq(AnyMessage)
  BY DEF MainQueue, OnAnswer, Main, OnSnapshot, OnListenError, MainHead, PostInv, WayInv
<1>2. UNCHANGED <<server, outbox, author, postedBy>>
  BY DEF MainQueue, OnAnswer, Main, PopScreen, ClientUnchanged, networkVars, storeVars,
         composerVars
<1>3. Keeps(mainQ', mainQ, d)
  BY <1>1, TailKeepsAbout DEF Once
<1>4. CASE UNCHANGED workQ
  <2>1. Keeps(workQ', workQ, d) /\ Keeps(outbox', outbox, d)
    BY <1>2, <1>4, KeepsItself DEF Once
  <2> QED
    BY <1>2, <1>3, <2>1, OnceKept
<1>5. CASE ViewWillAppear
  <2>1. AddSnapshotListener(selectedCategory, <<>>) /\ selectedCategory \in Query
    BY <1>5 DEF ViewWillAppear, PostInv, ApiInv, Segments, Query
  <2>2. <<>> \in Seq([op : {"unlisten"}, reg : Made])
    OBVIOUS
  <2> QED
    BY <1>2, <1>3, <2>1, <2>2, AddKeepsOnce
<1> QED
  BY <1>4, <1>5 DEF MainQueue, OnAnswer, Main

(* A new process has forgotten who posted what is pending.                 *)
LEMMA RelaunchKeepsOnce ==
    ASSUME PostInv, Relaunch, NEW d \in Mine, Once(d)
    PROVE  Once(d)'
<1>1. /\ workQ' = <<>> /\ mainQ' = <<>>
      /\ postedBy' = [e \in Mine |-> None]
      /\ UNCHANGED <<server, author>>
      /\ outbox' = [i \in DOMAIN outbox |-> [outbox[i] EXCEPT !.from = None]]
  BY DEF Relaunch, networkVars
<1>2. ASSUME NEW i \in DOMAIN outbox
      PROVE  (About(outbox'[i], d) <=> About(outbox[i], d)) /\ outbox'[i].from = None
  <2>1. outbox[i] \in [doc : Mine, from : Composer \cup {None}]
    BY DEF PostInv, WayInv, AnyWrite
  <2>2. outbox'[i] = [outbox[i] EXCEPT !.from = None]
    BY <1>1
  <2> QED
    BY <2>1, <2>2 DEF About
<1>3. DOMAIN outbox' = DOMAIN outbox /\ postedBy'[d] = None
  BY <1>1
<1>4. Single(outbox', d) /\ (Has(outbox', d) <=> Has(outbox, d))
  BY <1>2, <1>3 DEF Once, Single, Has
<1>5. \A i \in DOMAIN outbox' : outbox'[i].from = postedBy'[d]
  BY <1>2, <1>3
<1>6. Single(<<>>, d) /\ ~Has(<<>>, d)
  BY DEF Single, Has
<1> QED
  BY <1>1, <1>3, <1>4, <1>5, <1>6 DEF Once

LEMMA OnceStep == PostInv /\ OnceInv /\ [RndmNext]_rndmVars => OnceInv'
<1> SUFFICES ASSUME PostInv, OnceInv, [RndmNext]_rndmVars, NEW d \in Mine
             PROVE  Once(d)'
  BY DEF OnceInv
<1>1. Once(d)
  BY DEF OnceInv
<1>2. CASE \/ UNCHANGED rndmVars
           \/ \E c \in Composer : ShowComposer(c) \/ ComposerTouched(c)
  <2>1. UNCHANGED <<workQ, outbox, mainQ, server, author, postedBy>>
    BY <1>2 DEF rndmVars, vars, clientVars, networkVars, storeVars, queueVars,
                composerVars, ShowComposer, OpenComposer, ComposerTouched, EditUsername,
                SegmentChanged, NameMissing
  <2> QED
    BY <1>1, <2>1, KeepsItself, OnceKept DEF Once
<1>3. CASE \/ FirstAppearance
           \/ \E s \in Segments : SelectSegment(s)
           \/ \E c \in Composer : Back(c)
  BY <1>1, <1>3, ListKeepsOnce
<1>4. CASE \E c \in Composer, e \in Mine : PostThought(c, e)
  BY <1>1, <1>4, PostKeepsOnce
<1>5. CASE MainQueue
  BY <1>1, <1>5, MainQueueKeepsOnce
<1>6. CASE Worker /\ UNCHANGED <<feedVars, composerVars>>
  BY <1>1, <1>6, WorkerKeepsOnce
<1>7. CASE Network /\ UNCHANGED <<feedVars, composerVars>>
  BY <1>1, <1>7, NetworkKeepsOnce
<1>8. CASE Relaunch
  BY <1>1, <1>8, RelaunchKeepsOnce
<1> QED
  BY <1>2, <1>3, <1>4, <1>5, <1>6, <1>7, <1>8 DEF RndmNext

(* However posts, answers, lost connections and relaunches interleave, a   *)
(* thought is on its way at most once: its write is queued, pending or     *)
(* answered, and no two of these, and it is pending under the composer     *)
(* that posted it (ThoughtViewController.swift:41-46).                     *)
THEOREM RndmAnsweredOnce == RndmSpec => []OnceInv
<1> QED
  BY OnceInitially, OnceStep, RndmInvariant, PTL DEF RndmSpec

(* The outbox holds each thought of this client at most once, so it is     *)
(* never longer than there are thoughts a composer can post.               *)
OutboxIsBounded == Len(outbox) <= Cardinality(Mine)

THEOREM RndmOutboxIsBounded == RndmSpec => []OutboxIsBounded
<1>1. PostInv /\ OnceInv => OutboxIsBounded
  <2> SUFFICES ASSUME PostInv, OnceInv PROVE OutboxIsBounded
    OBVIOUS
  <2> DEFINE places == 1 .. Len(outbox)
             docs == [i \in places |-> outbox[i].doc]
  <2>1. outbox \in Seq(AnyWrite) /\ Len(outbox) \in Nat /\ DOMAIN outbox = places
    BY DEF PostInv, WayInv
  <2>2. \A i \in places : outbox[i].doc \in Mine /\ About(outbox[i], outbox[i].doc)
    <3>1. \A w \in AnyWrite : w.doc \in Mine /\ "doc" \in DOMAIN w
      BY DEF AnyWrite
    <3> QED
      BY <2>1, <3>1 DEF About
  <2>3. \A d \in Mine : Single(outbox, d)
    BY DEF OnceInv, Once
  <2>4. docs \in Injection(places, Mine)
    <3>1. docs \in [places -> Mine]
      BY <2>2
    <3>2. ASSUME NEW i \in places, NEW j \in places, docs[i] = docs[j]
          PROVE  i = j
      BY <2>1, <2>2, <2>3, <3>2 DEF Single
    <3> QED
      BY <3>1, <3>2 DEF Injection, IsInjective
  <2>5. IsFiniteSet(Mine)
    BY ClientAssumption, FS_Subset
  <2>6. Cardinality(places) <= Cardinality(Mine)
    BY <2>4, <2>5, FS_Injection
  <2>7. Cardinality(places) = Len(outbox)
    <3>1. Cardinality(1 .. Len(outbox)) =
            IF 1 > Len(outbox) THEN 0 ELSE Len(outbox) - 1 + 1
      BY <2>1, FS_Interval
    <3> QED
      BY <2>1, <3>1
  <2> QED
    BY <2>6, <2>7 DEF OutboxIsBounded
<1> QED
  BY <1>1, RndmInvariant, RndmAnsweredOnce, PTL


(* The answer to a post of this process reaches the main queue, addressed  *)
(* to the composer that made it.                                           *)
LEMMA AnswerReachesMain ==
    ASSUME PostInv, OnceInv, NEW d \in Mine, NEW ok \in BOOLEAN, outbox # <<>>,
           About(Head(outbox), d), postedBy[d] # None, ok => Head(outbox).doc \in server,
           Emit(Answer(Head(outbox), ok)),
           UNCHANGED <<networkVars, apiVars, registered, composerVars>>
    PROVE  \E i \in DOMAIN mainQ' :
              mainQ'[i] = [kind |-> "ack", from |-> postedBy[d], doc |-> d, ok |-> ok]
<1> DEFINE w == Head(outbox)
           first == Answer(w, ok)
           m == [kind |-> "ack", from |-> postedBy[d], doc |-> d, ok |-> ok]
<1>1. UNCHANGED <<server, query, author, postedBy>> /\ registered' \subseteq Made
  BY DEF networkVars, apiVars, composerVars, PostInv, ApiInv
<1>2. Grows
  BY <1>1, PostsKept
<1>3. outbox \in Seq(AnyWrite) /\ 1 \in DOMAIN outbox /\ w = outbox[1]
  BY DEF PostInv, WayInv
<1>4. w.doc = d /\ w.from = postedBy[d] /\ Has(outbox, d)
  BY <1>3 DEF OnceInv, Once, About, Has
<1>5. first \in Seq(AnyMessage')
  BY <1>1, <1>2, AnswerOfWrite
<1>6. Single(first, d) /\ Has(first, d)
  BY <1>4, AnswerAbout
<1>7. first = <<m>>
  BY <1>4 DEF Answer
<1>8. \A j \in DOMAIN first : first[j] = m
  BY <1>7
<1>9. Emit(first)
  OBVIOUS
<1> HIDE DEF w, first, m
<1>10. Single(mainQ, d) /\ ~Has(mainQ, d)
  BY <1>4 DEF OnceInv, Once
<1>11. Has(mainQ', d) /\ Keeps(mainQ', first, d)
  BY <1>1, <1>2, <1>5, <1>6, <1>9, <1>10, EmitAbout
<1>12. \E i \in DOMAIN mainQ' : mainQ'[i] = m
  BY <1>8, <1>11 DEF Has, Keeps
<1> QED
  BY <1>12 DEF m

(* A thought leaves the local store only with an error, and the composer   *)
(* that posted it is told (ThoughtViewController.swift:42).                *)
THEOREM RndmLostThoughtsAreReported == RndmSpec => LostThoughtsAreReported
<1>1. PostInv /\ OnceInv /\ [RndmNext]_rndmVars =>
        [\A d \in Mine : d \in LocalDocs /\ d \notin LocalDocs' =>
            /\ RejectWrite /\ d = Head(outbox).doc
            /\ postedBy[d] # None => ToldAnError(postedBy[d], d)']_rndmVars
  <2> SUFFICES ASSUME PostInv, OnceInv, [RndmNext]_rndmVars, NEW d \in Mine,
                      d \in LocalDocs, d \notin LocalDocs'
               PROVE  /\ RejectWrite /\ d = Head(outbox).doc
                      /\ postedBy[d] # None => ToldAnError(postedBy[d], d)'
    OBVIOUS
  <2>1. outbox \in Seq(AnyWrite)
    BY DEF PostInv, WayInv
  <2>2. ~UNCHANGED storeVars
    BY DEF storeVars, LocalDocs, Unsent
  <2>3. ~DoWrite
    <3> SUFFICES ASSUME DoWrite PROVE FALSE
      OBVIOUS
    <3>1. outbox' = Append(outbox, [doc |-> Head(workQ).doc, from |-> Head(workQ).from])
      BY DEF DoWrite
    <3>2. \A i \in DOMAIN outbox : i \in DOMAIN outbox' /\ outbox'[i] = outbox[i]
      BY <2>1, <3>1
    <3>3. Unsent \subseteq Unsent' /\ UNCHANGED <<cache, acked>>
      BY <3>2 DEF Unsent, DoWrite
    <3> QED
      BY <3>3 DEF LocalDocs
  <2>4. ~(\E q \in Query : Watch(q))
    <3> SUFFICES ASSUME NEW q \in Query, Watch(q) PROVE FALSE
      OBVIOUS
    <3>1. /\ cache' = (cache \ Match(q)) \cup (server \cap Match(q))
          /\ acked' = acked \ cache' /\ outbox' = outbox
      BY DEF Watch
    <3>2. cache \subseteq cache' /\ Unsent' = Unsent
      BY <3>1 DEF PostInv, StoreInv, Unsent
    <3> QED
      BY <3>1, <3>2 DEF LocalDocs
  <2>5. ASSUME outbox # <<>>, outbox' = Tail(outbox)
        PROVE  \A e \in Unsent \ Unsent' : e = Head(outbox).doc
    <3> SUFFICES ASSUME NEW i \in DOMAIN outbox, outbox[i].doc \notin Unsent'
                 PROVE  outbox[i].doc = Head(outbox).doc
      BY DEF Unsent
    <3>1. CASE i = 1
      BY <2>1, <3>1
    <3>2. CASE i # 1
      <4>1. i - 1 \in DOMAIN Tail(outbox) /\ Tail(outbox)[i - 1] = outbox[i]
        BY <2>1, <2>5, <3>2
      <4> QED
        BY <2>5, <4>1 DEF Unsent
    <3> QED
      BY <3>1, <3>2
  <2>6. ~Acknowledge
    <3> SUFFICES ASSUME Acknowledge PROVE FALSE
      OBVIOUS
    <3>1. /\ cache' = cache /\ acked' = (acked \cup {Head(outbox).doc}) \ cache
          /\ outbox # <<>> /\ outbox' = Tail(outbox)
      BY DEF Acknowledge
    <3> QED
      BY <2>5, <3>1 DEF LocalDocs
  <2>7. ~Relaunch
    <3> SUFFICES ASSUME Relaunch PROVE FALSE
      OBVIOUS
    <3>1. /\ DOMAIN outbox' = DOMAIN outbox
          /\ \A i \in DOMAIN outbox : outbox'[i] = [outbox[i] EXCEPT !.from = None]
          /\ UNCHANGED <<cache, acked>>
      BY DEF Relaunch
    <3>2. \A i \in DOMAIN outbox : outbox[i] \in [doc : Mine, from : Composer \cup {None}]
      BY <2>1 DEF AnyWrite
    <3>3. \A i \in DOMAIN outbox : outbox'[i].doc = outbox[i].doc
      BY <3>1, <3>2
    <3>4. Unsent' = Unsent
      BY <3>1, <3>3 DEF Unsent
    <3> QED
      BY <3>1, <3>4 DEF LocalDocs
  <2>8. RejectWrite
    BY <2>2, <2>3, <2>4, <2>6, <2>7
       DEF RndmNext, FirstAppearance, SelectSegment, ShowComposer, ComposerTouched,
           PostThought, Back, MainQueue, OnAnswer, Main, ClientUnchanged, Worker,
           DoListen, DoUnlisten, Network, RemoteAdd, RejectListen, Commit, GoOffline,
           GoOnline, rndmVars, vars, clientVars
  <2>9. outbox # <<>> /\ outbox' = Tail(outbox) /\ UNCHANGED <<cache, acked>>
    BY <2>8 DEF RejectWrite
  <2>10. d \in Unsent \ Unsent'
    BY <2>9 DEF LocalDocs
  <2>11. d = Head(outbox).doc
    BY <2>5, <2>9, <2>10
  <2>12. UNCHANGED composerVars
    <3>1. outbox' # outbox
      BY <2>1, <2>9
    <3> QED
      BY <2>7, <3>1 DEF RndmNext, FirstAppearance, SelectSegment, ShowComposer,
                        ComposerTouched, PostThought, Back, MainQueue, OnAnswer, Main,
                        ClientUnchanged, storeVars, rndmVars, vars, clientVars
  <2>13. ASSUME postedBy[d] # None PROVE ToldAnError(postedBy[d], d)'
    <3>1. About(Head(outbox), d)
      BY <2>1, <2>9, <2>11 DEF About, AnyWrite
    <3>2. \E i \in DOMAIN mainQ' :
             mainQ'[i] = [kind |-> "ack", from |-> postedBy[d], doc |-> d, ok |-> FALSE]
      BY <2>8, <2>9, <2>12, <2>13, <3>1, AnswerReachesMain DEF RejectWrite
    <3>3. postedBy' = postedBy
      BY <2>12 DEF composerVars
    <3> QED
      BY <3>2, <3>3 DEF ToldAnError, ErrorFor, ToSet
  <2> QED
    BY <2>8, <2>11, <2>13
<1> QED
  BY <1>1, RndmInvariant, RndmAnsweredOnce, PTL DEF RndmSpec, LostThoughtsAreReported

-----------------------------------------------------------------------------
(* How the answer comes nearer: the write is i-th on the worker queue, or  *)
(* i-th in the outbox, or a positive answer is i-th on the main queue.     *)
IsOpen(c, d) == screen = c /\ postedBy[d] = c

QueuedAt(c, d, i) == IsOpen(c, d) /\ i \in DOMAIN workQ /\ About(workQ[i], d)

PendingAt(c, d, i) == IsOpen(c, d) /\ i \in DOMAIN outbox /\ About(outbox[i], d)

AnswerAt(c, d, i) ==
    IsOpen(c, d) /\ i \in DOMAIN mainQ /\ About(mainQ[i], d) /\ mainQ[i].ok

IsPending(c, d) == IsOpen(c, d) /\ Has(outbox, d)

AnswerWaits(c, d) == \E i \in DOMAIN mainQ : AnswerAt(c, d, i)

Closed(c) == screen # c

Settled(c, d) == Closed(c) \/ ToldAnError(c, d)

LEMMA OpenStays ==
    ASSUME PostInv, OnceInv, RndmNext, NEW c \in Composer, NEW d \in Mine, IsOpen(c, d),
           screen' = c
    PROVE  IsOpen(c, d)' /\ ~Relaunch
<1>1. c # None /\ author[d] # None
  BY ComposerAssumption DEF OnceInv, Once, IsOpen
<1>2. ~Relaunch
  BY <1>1 DEF Relaunch
<1>3. postedBy'[d] = postedBy[d]
  <2>1. ASSUME NEW e \in Composer, NEW f \in Mine, PostThought(e, f)
        PROVE  postedBy'[d] = postedBy[d]
    <3>1. f # d /\ postedBy' = [postedBy EXCEPT ![f] = e]
      BY <1>1, <2>1 DEF PostThought, Post
    <3> QED
      BY <3>1 DEF PostInv, ComposerInv
  <2> QED
    BY <1>2, <2>1 DEF RndmNext, FirstAppearance, SelectSegment, ShowComposer,
                     OpenComposer, ComposerTouched, EditUsername, SegmentChanged,
                     NameMissing, Back, PopScreen, MainQueue, OnAnswer, composerVars
<1> QED
  BY <1>2, <1>3 DEF IsOpen

(* Only its own handler takes from the main queue.                         *)
LEMMA MainQueueGrows ==
    ASSUME PostInv, RndmNext, ~MainQueue, ~Relaunch
    PROVE  \A i \in DOMAIN mainQ : i \in DOMAIN mainQ' /\ mainQ'[i] = mainQ[i]
<1>1. mainQ \in Seq(AnyMessage)
  BY DEF PostInv, WayInv
<1>2. ASSUME NEW S, mainQ \in Seq(S), NEW p \in Seq(S), mainQ' = mainQ \o p
      PROVE  \A i \in DOMAIN mainQ : i \in DOMAIN mainQ' /\ mainQ'[i] = mainQ[i]
  BY <1>2
<1>3. ASSUME NEW first \in Seq(AnyMessage'), Emit(first), registered' \subseteq Made,
             UNCHANGED <<apiVars, composerVars, server>>
      PROVE  \A i \in DOMAIN mainQ : i \in DOMAIN mainQ' /\ mainQ'[i] = mainQ[i]
  <2>1. query' = query /\ Grows
    BY <1>3, PostsKept DEF apiVars, composerVars
  <2>2. PICK order \in SetToSeqs(Due) :
           /\ Events(order) \in Seq(AnyEvent)
           /\ mainQ' = mainQ \o first \o Events(order)
    BY <1>3, <2>1, EmittedAnyEvents
  <2>3. AnyEvent \subseteq AnyMessage'
    BY <2>1 DEF Grows, AnyMessage, AnyEvent
  <2>4. Events(order) \in Seq(AnyMessage') /\ mainQ \in Seq(AnyMessage')
    BY <2>1, <2>2, <2>3, LargerSequences, WayGrows DEF PostInv
  <2> HIDE DEF Events
  <2>5. first \o Events(order) \in Seq(AnyMessage')
    BY <2>4
  <2>6. mainQ' = mainQ \o (first \o Events(order))
    BY <2>2, <2>4
  <2> QED
    BY <1>2, <2>4, <2>5, <2>6
<1>4. CASE mainQ' = mainQ
  BY <1>4
<1>5. <<>> \in Seq(AnyMessage')
  OBVIOUS
<1>6. registered \subseteq Made
  BY DEF PostInv, ApiInv
<1>7. CASE Worker /\ UNCHANGED <<feedVars, composerVars>>
  <2>1. CASE DoUnlisten
    BY <1>4, <2>1 DEF DoUnlisten
  <2>2. CASE DoListen
    <3>1. Head(workQ).reg \in Made
      BY <2>2 DEF DoListen, WorkHead, PostInv, WayInv, AnyWork
    <3>2. Emit(<<>>) /\ registered' \subseteq Made /\ UNCHANGED <<apiVars, server>>
      BY <1>6, <2>2, <3>1 DEF DoListen, networkVars
    <3> QED
      BY <1>3, <1>5, <1>7, <3>2
  <2>3. CASE DoWrite
    <3>1. Emit(<<>>) /\ UNCHANGED <<registered, apiVars, server>>
      BY <2>3 DEF DoWrite, networkVars
    <3> QED
      BY <1>3, <1>5, <1>6, <1>7, <3>1
  <2> QED
    BY <1>7, <2>1, <2>2, <2>3 DEF Worker
<1>8. CASE Network /\ UNCHANGED <<feedVars, composerVars>>
  <2>1. CASE (\E d \in Thought \ Mine : RemoteAdd(d)) \/ Commit \/ GoOnline
    BY <1>4, <2>1 DEF RemoteAdd, Commit, GoOnline, queueVars
  <2>2. CASE (\E q \in Query : Watch(q)) \/ GoOffline
    <3>1. Emit(<<>>) /\ UNCHANGED <<registered, apiVars, server>>
      BY <2>2 DEF Watch, GoOffline, networkVars
    <3> QED
      BY <1>3, <1>5, <1>6, <1>8, <3>1
  <2>3. CASE \E q \in Query : RejectListen(q)
    <3>1. PICK failures \in Seq([kind : {"error"}, reg : Made]) : mainQ' = mainQ \o failures
      BY <2>3, FailuresAdded
    <3>2. failures \in Seq(AnyMessage)
      BY LargerSequences DEF AnyMessage
    <3> QED
      BY <1>1, <1>2, <3>1, <3>2
  <2>4. ASSUME NEW ok \in BOOLEAN, outbox # <<>>, ok => Head(outbox).doc \in server,
               Emit(Answer(Head(outbox), ok)),
               UNCHANGED <<networkVars, apiVars, registered>>
        PROVE  \A i \in DOMAIN mainQ : i \in DOMAIN mainQ' /\ mainQ'[i] = mainQ[i]
    <3> DEFINE first == Answer(Head(outbox), ok)
    <3>1. UNCHANGED <<server, query, author, postedBy>>
      BY <1>8, <2>4 DEF networkVars, apiVars, composerVars
    <3>2. Grows
      BY <3>1, PostsKept
    <3>3. first \in Seq(AnyMessage')
      BY <2>4, <3>1, <3>2, AnswerOfWrite
    <3>4. Emit(first)
      BY <2>4
    <3> HIDE DEF first
    <3> QED
      BY <1>3, <1>6, <1>8, <2>4, <3>1, <3>3, <3>4
  <2>5. CASE Acknowledge \/ RejectWrite
    BY <2>4, <2>5 DEF Acknowledge, RejectWrite
  <2> QED
    BY <1>8, <2>1, <2>2, <2>3, <2>5 DEF Network
<1> QED
  BY <1>4, <1>7, <1>8 DEF RndmNext, FirstAppearance, SelectSegment, ShowComposer,
                          ComposerTouched, PostThought, Back, vars, clientVars, queueVars

LEMMA AnswerMoves ==
    ASSUME PostInv, OnceInv, RndmNext, NEW c \in Composer, NEW d \in Mine, NEW i \in Nat,
           AnswerAt(c, d, i), screen' = c
    PROVE  IF MainQueue THEN i > 1 /\ AnswerAt(c, d, i - 1)' ELSE AnswerAt(c, d, i)'
<1>1. IsOpen(c, d)' /\ ~Relaunch
  BY OpenStays DEF AnswerAt
<1>2. CASE ~MainQueue
  BY <1>1, <1>2, MainQueueGrows DEF AnswerAt
<1>3. CASE MainQueue
  <2> DEFINE m == Head(mainQ)
  <2>1. /\ mainQ # <<>> /\ mainQ' = Tail(mainQ) /\ mainQ \in Seq(AnyMessage)
        /\ m \in AnyMessage /\ m = mainQ[1] /\ i \in 1 .. Len(mainQ)
    BY <1>3 DEF MainQueue, OnAnswer, Main, OnSnapshot, OnListenError, MainHead, PostInv,
                WayInv, AnswerAt
  <2>2. i # 1
    <3> SUFFICES ASSUME i = 1 PROVE FALSE
      OBVIOUS
    <3>1. About(m, d) /\ m.ok
      BY <2>1 DEF AnswerAt
    <3>2. m \in AnyAnswer
      BY <2>1, <3>1 DEF AnyMessage, AnyEvent, About
    <3>3. m.kind = "ack" /\ m.from = c
      BY <3>1, <3>2 DEF AnyAnswer, About, Posted, AnswerAt, IsOpen
    <3>4. OnAnswer /\ Pops(m)
      BY <1>3, <3>1, <3>3 DEF MainQueue, Main, OnSnapshot, OnListenError, MainHead, Pops,
                              AnswerAt, IsOpen
    <3> QED
      BY <3>4, ComposerAssumption DEF OnAnswer, PopScreen
  <2>3. i - 1 \in 1 .. Len(mainQ) - 1 /\ i > 1 /\ (i - 1) + 1 = i
    BY <2>1, <2>2
  <2>4. i - 1 \in DOMAIN mainQ' /\ mainQ'[i - 1] = mainQ[i]
    BY <2>1, <2>3
  <2> QED
    BY <1>1, <1>3, <2>3, <2>4 DEF AnswerAt
<1> QED
  BY <1>2, <1>3

LEMMA OutboxMoves ==
    ASSUME PostInv, RndmNext, ~Relaunch
    PROVE  \/ /\ Acknowledge \/ RejectWrite
              /\ outbox' = Tail(outbox) /\ outbox # <<>>
           \/ \A i \in DOMAIN outbox : i \in DOMAIN outbox' /\ outbox'[i] = outbox[i]
<1>1. outbox \in Seq(AnyWrite)
  BY DEF PostInv, WayInv
<1>2. CASE DoWrite
  <2>1. PICK m : outbox' = Append(outbox, m)
    BY <1>2 DEF DoWrite
  <2> QED
    BY <1>1, <2>1
<1>3. CASE Acknowledge \/ RejectWrite
  BY <1>3 DEF Acknowledge, RejectWrite
<1>4. CASE outbox' = outbox
  BY <1>4
<1> QED
  BY <1>2, <1>3, <1>4
     DEF RndmNext, FirstAppearance, SelectSegment, ShowComposer, ComposerTouched,
         PostThought, Back, MainQueue, OnAnswer, Main, ClientUnchanged, Worker, DoListen,
         DoUnlisten, Network, RemoteAdd, Watch, RejectListen, Commit, GoOffline, GoOnline,
         storeVars, vars, clientVars

BackendAnswers == (Acknowledge \/ RejectWrite) /\ UNCHANGED <<feedVars, composerVars>>

LEMMA PendingMoves ==
    ASSUME PostInv, OnceInv, RndmNext, NEW c \in Composer, NEW d \in Mine, NEW i \in Nat,
           PendingAt(c, d, i), screen' = c
    PROVE  IF Acknowledge \/ RejectWrite
           THEN \/ i > 1 /\ PendingAt(c, d, i - 1)'
                \/ AnswerWaits(c, d)'
                \/ ToldAnError(c, d)'
           ELSE PendingAt(c, d, i)'
<1>1. IsOpen(c, d)' /\ ~Relaunch
  BY OpenStays DEF PendingAt
<1>2. outbox \in Seq(AnyWrite) /\ i \in 1 .. Len(outbox) /\ outbox # <<>>
  BY DEF PostInv, WayInv, PendingAt
<1>3. CASE ~(Acknowledge \/ RejectWrite)
  BY <1>1, <1>3, OutboxMoves DEF PendingAt
<1>4. CASE Acknowledge \/ RejectWrite
  <2>1. outbox' = Tail(outbox)
    BY <1>4 DEF Acknowledge, RejectWrite
  <2>2. CASE i > 1
    <3>1. i - 1 \in 1 .. Len(outbox) - 1 /\ (i - 1) + 1 = i
      BY <1>2, <2>2
    <3>2. i - 1 \in DOMAIN outbox' /\ outbox'[i - 1] = outbox[i]
      BY <1>2, <2>1, <3>1
    <3>3. PendingAt(c, d, i - 1)'
      BY <1>1, <3>2 DEF PendingAt
    <3> QED
      BY <1>4, <2>2, <3>3
  <2>3. CASE i = 1
    <3>1. UNCHANGED composerVars
      <4>1. outbox' # outbox
        BY <1>2, <2>1
      <4> QED
        BY <1>1, <4>1 DEF RndmNext, FirstAppearance, SelectSegment, ShowComposer,
                          ComposerTouched, PostThought, Back, MainQueue, OnAnswer, Main,
                          ClientUnchanged, storeVars, vars, clientVars
    <3>2. About(Head(outbox), d)
      BY <1>2, <2>3 DEF PendingAt
    <3>3. postedBy[d] = c /\ postedBy[d] # None
      BY ComposerAssumption DEF PendingAt, IsOpen
    <3>4. CASE Acknowledge
      <4>1. PICK j \in DOMAIN mainQ' :
               mainQ'[j] = [kind |-> "ack", from |-> c, doc |-> d, ok |-> TRUE]
        BY <1>2, <3>1, <3>2, <3>3, <3>4, AnswerReachesMain DEF Acknowledge
      <4>2. About(mainQ'[j], d) /\ mainQ'[j].ok
        BY <4>1 DEF About
      <4>3. AnswerAt(c, d, j)'
        BY <1>1, <4>1, <4>2 DEF AnswerAt
      <4> QED
        BY <3>4, <4>3 DEF AnswerWaits
    <3>5. CASE RejectWrite
      <4>1. \E j \in DOMAIN mainQ' :
               mainQ'[j] = [kind |-> "ack", from |-> c, doc |-> d, ok |-> FALSE]
        BY <1>2, <3>1, <3>2, <3>3, <3>5, AnswerReachesMain DEF RejectWrite
      <4>2. ToldAnError(c, d)'
        BY <4>1 DEF ToldAnError, ErrorFor, ToSet
      <4> QED
        BY <3>5, <4>2
    <3> QED
      BY <1>4, <3>4, <3>5
  <2> QED
    BY <1>2, <2>2, <2>3
<1> QED
  BY <1>3, <1>4

WorkRuns == Worker /\ UNCHANGED <<feedVars, composerVars>>

(* Under an open composer, only the worker takes from its queue.           *)
LEMMA WorkMoves ==
    ASSUME PostInv, RndmNext, ~Relaunch, screen # None, screen' # None, ~WorkRuns
    PROVE  \A i \in DOMAIN workQ : i \in DOMAIN workQ' /\ workQ'[i] = workQ[i]
<1>1. workQ \in Seq(AnyWork)
  BY DEF PostInv, WayInv
<1>2. ASSUME NEW S, workQ \in Seq(S), NEW p \in Seq(S), workQ' = workQ \o p
      PROVE  \A i \in DOMAIN workQ : i \in DOMAIN workQ' /\ workQ'[i] = workQ[i]
  BY <1>2
<1>3. CASE FirstAppearance
  <2> DEFINE p == <<Listen(NextListener)>>
             S == AnyWork \cup {Listen(NextListener)}
  <2>1. workQ' = workQ \o p
    BY <1>3 DEF FirstAppearance, ViewWillAppear, AddSnapshotListener
  <2>2. workQ \in Seq(S) /\ p \in Seq(S)
    BY <1>1, LargerSequences
  <2> HIDE DEF p, S
  <2> QED
    BY <1>2, <2>1, <2>2
<1>4. ASSUME NEW e \in Composer, NEW f \in Mine, PostThought(e, f)
      PROVE  \A i \in DOMAIN workQ : i \in DOMAIN workQ' /\ workQ'[i] = workQ[i]
  <2>1. workQ' = Append(workQ, Write(e, f))
    BY <1>4 DEF PostThought, Post
  <2> QED
    BY <1>1, <2>1
<1>5. CASE workQ' = workQ
  BY <1>5
<1> QED
  BY <1>3, <1>4, <1>5
     DEF RndmNext, SelectSegment, ShowComposer, ComposerTouched, Back, MainQueue,
         OnAnswer, PopScreen, Main, OnSnapshot, OnListenError, WorkRuns, Network,
         RemoteAdd, Watch, RejectListen, Commit, Acknowledge, RejectWrite, GoOffline,
         GoOnline, queueVars, vars, clientVars

LEMMA QueuedMoves ==
    ASSUME PostInv, OnceInv, RndmNext, NEW c \in Composer, NEW d \in Mine, NEW i \in Nat,
           QueuedAt(c, d, i), screen' = c
    PROVE  IF WorkRuns
           THEN (i > 1 /\ QueuedAt(c, d, i - 1)') \/ IsPending(c, d)'
           ELSE QueuedAt(c, d, i)'
<1>1. IsOpen(c, d)' /\ ~Relaunch
  BY OpenStays DEF QueuedAt
<1>2. workQ \in Seq(AnyWork) /\ i \in 1 .. Len(workQ) /\ workQ # <<>>
  BY DEF PostInv, WayInv, QueuedAt
<1>3. CASE ~WorkRuns
  <2>1. screen # None /\ screen' # None
    BY ComposerAssumption DEF QueuedAt, IsOpen
  <2> QED
    BY <1>1, <1>3, <2>1, WorkMoves DEF QueuedAt
<1>4. CASE WorkRuns
  <2>1. workQ' = Tail(workQ)
    BY <1>4 DEF WorkRuns, Worker, DoListen, DoUnlisten, DoWrite
  <2>2. CASE i > 1
    <3>1. i - 1 \in 1 .. Len(workQ) - 1 /\ (i - 1) + 1 = i
      BY <1>2, <2>2
    <3>2. i - 1 \in DOMAIN workQ' /\ workQ'[i - 1] = workQ[i]
      BY <1>2, <2>1, <3>1
    <3>3. QueuedAt(c, d, i - 1)'
      BY <1>1, <3>2 DEF QueuedAt
    <3> QED
      BY <1>4, <2>2, <3>3
  <2>3. CASE i = 1
    <3> DEFINE w == Head(workQ)
               m == [doc |-> w.doc, from |-> w.from]
    <3>1. w \in AnyWork /\ About(w, d)
      BY <1>2, <2>3 DEF QueuedAt
    <3>2. w \in [op : {"write"}, from : Composer, doc : Mine] /\ w.doc = d
      BY <3>1 DEF AnyWork, About
    <3>3. outbox' = Append(outbox, m)
      BY <1>4, <3>2 DEF WorkRuns, Worker, DoListen, DoUnlisten, DoWrite, WorkHead
    <3>4. outbox \in Seq(AnyWrite) /\ About(m, d)
      BY <3>2 DEF PostInv, WayInv, About
    <3> HIDE DEF m
    <3>5. Len(outbox) + 1 \in DOMAIN outbox' /\ outbox'[Len(outbox) + 1] = m
      BY <3>3, <3>4
    <3>6. Has(outbox', d)
      BY <3>4, <3>5 DEF Has
    <3> QED
      BY <1>1, <1>4, <3>6 DEF IsPending
  <2> QED
    BY <1>2, <2>2, <2>3
<1> QED
  BY <1>3, <1>4

(* What fairness needs of the three actions: that they can be taken        *)
(* whenever there is something for them to take.                           *)
WorkCanRun == workQ # <<>> => ENABLED <<WorkRuns>>_rndmVars

BackendCanAnswer == online /\ outbox # <<>> => ENABLED <<BackendAnswers>>_rndmVars

AnswersCanRun == mainQ # <<>> => ENABLED <<MainQueue>>_rndmVars

QueuedComesNearer(c, d, i) ==
    QueuedAt(c, d, i) ~> Closed(c) \/ IsPending(c, d) \/ QueuedAt(c, d, i - 1)

QueuedIsSent(c, d, i) == QueuedAt(c, d, i) ~> Closed(c) \/ IsPending(c, d)

(* A write that is i-th on the worker queue comes nearer; the first one    *)
(* becomes pending, whatever the handlers put behind it meanwhile.         *)
THEOREM RndmQueuedMovesUp ==
    ASSUME NEW c \in Composer, NEW d \in Mine, NEW i \in Nat
    PROVE  RndmSpec /\ []WorkCanRun =>
              IF i > 1 THEN QueuedComesNearer(c, d, i) ELSE QueuedIsSent(c, d, i)
<1>1. PostInv /\ OnceInv /\ QueuedAt(c, d, i) /\ [RndmNext]_rndmVars =>
         \/ QueuedAt(c, d, i)'
         \/ Closed(c)' \/ IsPending(c, d)' \/ (i > 1 /\ QueuedAt(c, d, i - 1)')
  <2>1. CASE UNCHANGED rndmVars
    BY <2>1 DEF rndmVars, vars, clientVars, queueVars, composerVars, QueuedAt, IsOpen
  <2> QED
    BY <2>1, QueuedMoves DEF Closed
<1>2. PostInv /\ OnceInv /\ QueuedAt(c, d, i) /\ [RndmNext]_rndmVars
        /\ <<WorkRuns>>_rndmVars =>
         Closed(c)' \/ IsPending(c, d)' \/ (i > 1 /\ QueuedAt(c, d, i - 1)')
  BY QueuedMoves DEF Closed
<1>3. WorkCanRun => (QueuedAt(c, d, i) => ENABLED <<WorkRuns>>_rndmVars)
  BY DEF WorkCanRun, QueuedAt
<1>4. RndmFairness => WF_rndmVars(WorkRuns)
  BY PTL DEF RndmFairness, WorkRuns
<1>5. CASE i > 1
  <2>1. PostInv /\ OnceInv /\ QueuedAt(c, d, i) /\ [RndmNext]_rndmVars =>
           \/ QueuedAt(c, d, i)'
           \/ Closed(c)' \/ IsPending(c, d)' \/ QueuedAt(c, d, i - 1)'
    BY <1>1
  <2>2. PostInv /\ OnceInv /\ QueuedAt(c, d, i) /\ [RndmNext]_rndmVars
          /\ <<WorkRuns>>_rndmVars =>
           Closed(c)' \/ IsPending(c, d)' \/ QueuedAt(c, d, i - 1)'
    BY <1>2
  <2>3. RndmSpec /\ []WorkCanRun => QueuedComesNearer(c, d, i)
    BY <1>3, <1>4, <2>1, <2>2, RndmInvariant, RndmAnsweredOnce, PTL
       DEF RndmSpec, QueuedComesNearer
  <2> QED
    BY <1>5, <2>3
<1>6. CASE ~(i > 1)
  <2>1. PostInv /\ OnceInv /\ QueuedAt(c, d, i) /\ [RndmNext]_rndmVars =>
           QueuedAt(c, d, i)' \/ Closed(c)' \/ IsPending(c, d)'
    BY <1>1, <1>6
  <2>2. PostInv /\ OnceInv /\ QueuedAt(c, d, i) /\ [RndmNext]_rndmVars
          /\ <<WorkRuns>>_rndmVars => Closed(c)' \/ IsPending(c, d)'
    BY <1>2, <1>6
  <2>3. RndmSpec /\ []WorkCanRun => QueuedIsSent(c, d, i)
    BY <1>3, <1>4, <2>1, <2>2, RndmInvariant, RndmAnsweredOnce, PTL
       DEF RndmSpec, QueuedIsSent
  <2> QED
    BY <1>6, <2>3
<1> QED
  BY <1>5, <1>6

PendingComesNearer(c, d, i) ==
    <>[]online => (PendingAt(c, d, i) ~>
                      Settled(c, d) \/ AnswerWaits(c, d) \/ PendingAt(c, d, i - 1))

PendingIsAnswered(c, d, i) ==
    <>[]online => (PendingAt(c, d, i) ~> Settled(c, d) \/ AnswerWaits(c, d))

(* While the connection holds, a write that is i-th in the outbox comes    *)
(* nearer, whether those before it are acknowledged or refused; the first  *)
(* one is answered, and its composer told which (remote_store.cc:413-503). *)
THEOREM RndmPendingMovesUp ==
    ASSUME NEW c \in Composer, NEW d \in Mine, NEW i \in Nat
    PROVE  RndmSpec /\ []BackendCanAnswer =>
              IF i > 1 THEN PendingComesNearer(c, d, i) ELSE PendingIsAnswered(c, d, i)
<1>1. PostInv /\ OnceInv /\ PendingAt(c, d, i) /\ [RndmNext]_rndmVars =>
         \/ PendingAt(c, d, i)'
         \/ Settled(c, d)' \/ AnswerWaits(c, d)' \/ (i > 1 /\ PendingAt(c, d, i - 1)')
  <2>1. CASE UNCHANGED rndmVars
    BY <2>1 DEF rndmVars, vars, clientVars, storeVars, composerVars, PendingAt, IsOpen
  <2> QED
    BY <2>1, PendingMoves DEF Settled, Closed
<1>2. PostInv /\ OnceInv /\ PendingAt(c, d, i) /\ [RndmNext]_rndmVars
        /\ <<BackendAnswers>>_rndmVars =>
         Settled(c, d)' \/ AnswerWaits(c, d)' \/ (i > 1 /\ PendingAt(c, d, i - 1)')
  BY PendingMoves DEF Settled, Closed, BackendAnswers
<1>3. BackendCanAnswer =>
         (online /\ PendingAt(c, d, i) => ENABLED <<BackendAnswers>>_rndmVars)
  BY DEF BackendCanAnswer, PendingAt
<1>4. RndmFairness => WF_rndmVars(BackendAnswers)
  BY PTL DEF RndmFairness, BackendAnswers
<1>5. CASE i > 1
  <2>1. PostInv /\ OnceInv /\ PendingAt(c, d, i) /\ [RndmNext]_rndmVars =>
           \/ PendingAt(c, d, i)'
           \/ Settled(c, d)' \/ AnswerWaits(c, d)' \/ PendingAt(c, d, i - 1)'
    BY <1>1
  <2>2. PostInv /\ OnceInv /\ PendingAt(c, d, i) /\ [RndmNext]_rndmVars
          /\ <<BackendAnswers>>_rndmVars =>
           Settled(c, d)' \/ AnswerWaits(c, d)' \/ PendingAt(c, d, i - 1)'
    BY <1>2
  <2>3. RndmSpec /\ []BackendCanAnswer => PendingComesNearer(c, d, i)
    BY <1>3, <1>4, <2>1, <2>2, RndmInvariant, RndmAnsweredOnce, PTL
       DEF RndmSpec, PendingComesNearer
  <2> QED
    BY <1>5, <2>3
<1>6. CASE ~(i > 1)
  <2>1. PostInv /\ OnceInv /\ PendingAt(c, d, i) /\ [RndmNext]_rndmVars =>
           PendingAt(c, d, i)' \/ Settled(c, d)' \/ AnswerWaits(c, d)'
    BY <1>1, <1>6
  <2>2. PostInv /\ OnceInv /\ PendingAt(c, d, i) /\ [RndmNext]_rndmVars
          /\ <<BackendAnswers>>_rndmVars =>
           Settled(c, d)' \/ AnswerWaits(c, d)'
    BY <1>2, <1>6
  <2>3. RndmSpec /\ []BackendCanAnswer => PendingIsAnswered(c, d, i)
    BY <1>3, <1>4, <2>1, <2>2, RndmInvariant, RndmAnsweredOnce, PTL
       DEF RndmSpec, PendingIsAnswered
  <2> QED
    BY <1>6, <2>3
<1> QED
  BY <1>5, <1>6

AnswerComesNearer(c, d, i) == AnswerAt(c, d, i) ~> Closed(c) \/ AnswerAt(c, d, i - 1)

AnswerCloses(c, d, i) == AnswerAt(c, d, i) ~> Closed(c)

(* A positive answer that is i-th on the main queue comes nearer or finds  *)
(* its composer closed already; the first one closes it                    *)
(* (ThoughtViewController.swift:44).                                       *)
THEOREM RndmAnswerMovesUp ==
    ASSUME NEW c \in Composer, NEW d \in Mine, NEW i \in Nat
    PROVE  RndmSpec /\ []AnswersCanRun =>
              IF i > 1 THEN AnswerComesNearer(c, d, i) ELSE AnswerCloses(c, d, i)
<1>1. PostInv /\ OnceInv /\ AnswerAt(c, d, i) /\ [RndmNext]_rndmVars =>
         AnswerAt(c, d, i)' \/ Closed(c)' \/ (i > 1 /\ AnswerAt(c, d, i - 1)')
  <2>1. CASE UNCHANGED rndmVars
    BY <2>1 DEF rndmVars, vars, clientVars, queueVars, composerVars, AnswerAt,
                IsOpen
  <2> QED
    BY <2>1, AnswerMoves DEF Closed
<1>2. PostInv /\ OnceInv /\ AnswerAt(c, d, i) /\ [RndmNext]_rndmVars
        /\ <<MainQueue>>_rndmVars =>
         Closed(c)' \/ (i > 1 /\ AnswerAt(c, d, i - 1)')
  BY AnswerMoves DEF Closed
<1>3. AnswersCanRun => (AnswerAt(c, d, i) => ENABLED <<MainQueue>>_rndmVars)
  BY DEF AnswersCanRun, AnswerAt
<1>4. CASE i > 1
  <2>1. PostInv /\ OnceInv /\ AnswerAt(c, d, i) /\ [RndmNext]_rndmVars =>
           AnswerAt(c, d, i)' \/ Closed(c)' \/ AnswerAt(c, d, i - 1)'
    BY <1>1
  <2>2. PostInv /\ OnceInv /\ AnswerAt(c, d, i) /\ [RndmNext]_rndmVars
          /\ <<MainQueue>>_rndmVars =>
           Closed(c)' \/ AnswerAt(c, d, i - 1)'
    BY <1>2
  <2>3. RndmSpec /\ []AnswersCanRun => AnswerComesNearer(c, d, i)
    BY <1>3, <2>1, <2>2, RndmInvariant, RndmAnsweredOnce, PTL
       DEF RndmSpec, RndmFairness, AnswerComesNearer
  <2> QED
    BY <1>4, <2>3
<1>5. CASE ~(i > 1)
  <2>1. PostInv /\ OnceInv /\ AnswerAt(c, d, i) /\ [RndmNext]_rndmVars =>
           AnswerAt(c, d, i)' \/ Closed(c)'
    BY <1>1, <1>5
  <2>2. PostInv /\ OnceInv /\ AnswerAt(c, d, i) /\ [RndmNext]_rndmVars
          /\ <<MainQueue>>_rndmVars => Closed(c)'
    BY <1>2, <1>5
  <2>3. RndmSpec /\ []AnswersCanRun => AnswerCloses(c, d, i)
    BY <1>3, <2>1, <2>2, RndmInvariant, RndmAnsweredOnce, PTL
       DEF RndmSpec, RndmFairness, AnswerCloses
  <2> QED
    BY <1>5, <2>3
<1> QED
  BY <1>4, <1>5

-----------------------------------------------------------------------------
(* The three steps, put together for places up to n.                       *)
QueuedWithin(c, d, n) == \E i \in 1 .. n : QueuedAt(c, d, i)

PendingWithin(c, d, n) == \E i \in 1 .. n : PendingAt(c, d, i)

AnswerWithin(c, d, n) == \E i \in 1 .. n : AnswerAt(c, d, i)

SentWithin(c, d, n) == QueuedWithin(c, d, n) ~> Closed(c) \/ IsPending(c, d)

AnsweredWithin(c, d, n) ==
    <>[]online => (PendingWithin(c, d, n) ~> Settled(c, d) \/ AnswerWaits(c, d))

ClosesWithin(c, d, n) == AnswerWithin(c, d, n) ~> Closed(c)

Reaches(c, d, n) ==
    SentWithin(c, d, n) /\ AnsweredWithin(c, d, n) /\ ClosesWithin(c, d, n)

Served == RndmSpec /\ []WorkCanRun /\ []BackendCanAnswer /\ []AnswersCanRun

LEMMA ReachesNone ==
    ASSUME NEW c \in Composer, NEW d \in Mine
    PROVE  Served => Reaches(c, d, 0)
<1>1. ~QueuedWithin(c, d, 0) /\ ~PendingWithin(c, d, 0) /\ ~AnswerWithin(c, d, 0)
  BY DEF QueuedWithin, PendingWithin, AnswerWithin
<1> QED
  BY <1>1, PTL DEF Reaches, SentWithin, AnsweredWithin, ClosesWithin

LEMMA ReachesOneMore ==
    ASSUME NEW c \in Composer, NEW d \in Mine, NEW n \in Nat
    PROVE  Served => (Reaches(c, d, n) => Reaches(c, d, n + 1))
<1> DEFINE k == n + 1
<1>1. /\ QueuedWithin(c, d, k) => QueuedWithin(c, d, n) \/ QueuedAt(c, d, k)
      /\ PendingWithin(c, d, k) => PendingWithin(c, d, n) \/ PendingAt(c, d, k)
      /\ AnswerWithin(c, d, k) => AnswerWithin(c, d, n) \/ AnswerAt(c, d, k)
  BY DEF QueuedWithin, PendingWithin, AnswerWithin
<1>2. RndmSpec /\ []AnswersCanRun =>
         IF k > 1 THEN AnswerComesNearer(c, d, k) ELSE AnswerCloses(c, d, k)
  BY RndmAnswerMovesUp
<1>3. RndmSpec /\ []BackendCanAnswer =>
         IF k > 1 THEN PendingComesNearer(c, d, k) ELSE PendingIsAnswered(c, d, k)
  BY RndmPendingMovesUp
<1>4. RndmSpec /\ []WorkCanRun =>
         IF k > 1 THEN QueuedComesNearer(c, d, k) ELSE QueuedIsSent(c, d, k)
  BY RndmQueuedMovesUp
<1>5. CASE n = 0
  <2>1. ~(k > 1)
    BY <1>5
  <2>2. RndmSpec /\ []AnswersCanRun => AnswerCloses(c, d, k)
    BY <1>2, <2>1
  <2>3. RndmSpec /\ []BackendCanAnswer => PendingIsAnswered(c, d, k)
    BY <1>3, <2>1
  <2>4. RndmSpec /\ []WorkCanRun => QueuedIsSent(c, d, k)
    BY <1>4, <2>1
  <2> HIDE DEF k
  <2>5. Served => (Reaches(c, d, n) => Reaches(c, d, k))
    BY <1>1, <2>2, <2>3, <2>4, PTL
       DEF Served, Reaches, SentWithin, AnsweredWithin, ClosesWithin, QueuedIsSent,
           PendingIsAnswered, AnswerCloses
  <2> QED
    BY <2>5 DEF k
<1>6. CASE n # 0
  <2>1. k > 1 /\ n \in 1 .. n /\ k - 1 = n
    BY <1>6
  <2>2. RndmSpec /\ []AnswersCanRun => AnswerComesNearer(c, d, k)
    BY <1>2, <2>1
  <2>3. RndmSpec /\ []BackendCanAnswer => PendingComesNearer(c, d, k)
    BY <1>3, <2>1
  <2>4. RndmSpec /\ []WorkCanRun => QueuedComesNearer(c, d, k)
    BY <1>4, <2>1
  <2>5. /\ QueuedAt(c, d, k - 1) => QueuedWithin(c, d, n)
        /\ PendingAt(c, d, k - 1) => PendingWithin(c, d, n)
        /\ AnswerAt(c, d, k - 1) => AnswerWithin(c, d, n)
    BY <2>1 DEF QueuedWithin, PendingWithin, AnswerWithin
  <2> HIDE DEF k
  <2>6. Served => (Reaches(c, d, n) => Reaches(c, d, k))
    BY <1>1, <2>2, <2>3, <2>4, <2>5, PTL
       DEF Served, Reaches, SentWithin, AnsweredWithin, ClosesWithin, QueuedComesNearer,
           PendingComesNearer, AnswerComesNearer
  <2> QED
    BY <2>6 DEF k
<1> QED
  BY <1>5, <1>6

(* What is reached from n places is reached from k more, and two such      *)
(* steps make one of k + k: the provers have no induction over formulas of *)
(* temporal logic, but sixteen doublings reach 65536 places.               *)
ReachesFrom(c, d, k) ==
    \A n \in Nat : Served => (Reaches(c, d, n) => Reaches(c, d, n + k))

LEMMA ReachesTwice ==
    ASSUME NEW c \in Composer, NEW d \in Mine, NEW k \in Nat, ReachesFrom(c, d, k)
    PROVE  ReachesFrom(c, d, k + k)
<1> SUFFICES ASSUME NEW n \in Nat
             PROVE  Served => (Reaches(c, d, n) => Reaches(c, d, n + (k + k)))
  BY DEF ReachesFrom
<1>1. Served => (Reaches(c, d, n) => Reaches(c, d, n + k))
  BY DEF ReachesFrom
<1>2. Served => (Reaches(c, d, n + k) => Reaches(c, d, (n + k) + k))
  BY DEF ReachesFrom
<1>3. (n + k) + k = n + (k + k)
  OBVIOUS
<1> HIDE DEF Served, Reaches
<1> QED
  BY <1>1, <1>2, <1>3

LEMMA ReachesMost ==
    ASSUME NEW c \in Composer, NEW d \in Mine
    PROVE  Served => Reaches(c, d, Most)
<1> HIDE DEF Served, Reaches, ReachesFrom
<1>0. ReachesFrom(c, d, 1)
  BY ReachesOneMore DEF ReachesFrom
<1>1. ReachesFrom(c, d, 2)
  BY <1>0, ReachesTwice, 1 + 1 = 2
<1>2. ReachesFrom(c, d, 4)
  BY <1>1, ReachesTwice, 2 + 2 = 4
<1>3. ReachesFrom(c, d, 8)
  BY <1>2, ReachesTwice, 4 + 4 = 8
<1>4. ReachesFrom(c, d, 16)
  BY <1>3, ReachesTwice, 8 + 8 = 16
<1>5. ReachesFrom(c, d, 32)
  BY <1>4, ReachesTwice, 16 + 16 = 32
<1>6. ReachesFrom(c, d, 64)
  BY <1>5, ReachesTwice, 32 + 32 = 64
<1>7. ReachesFrom(c, d, 128)
  BY <1>6, ReachesTwice, 64 + 64 = 128
<1>8. ReachesFrom(c, d, 256)
  BY <1>7, ReachesTwice, 128 + 128 = 256
<1>9. ReachesFrom(c, d, 512)
  BY <1>8, ReachesTwice, 256 + 256 = 512
<1>10. ReachesFrom(c, d, 1024)
  BY <1>9, ReachesTwice, 512 + 512 = 1024
<1>11. ReachesFrom(c, d, 2048)
  BY <1>10, ReachesTwice, 1024 + 1024 = 2048
<1>12. ReachesFrom(c, d, 4096)
  BY <1>11, ReachesTwice, 2048 + 2048 = 4096
<1>13. ReachesFrom(c, d, 8192)
  BY <1>12, ReachesTwice, 4096 + 4096 = 8192
<1>14. ReachesFrom(c, d, 16384)
  BY <1>13, ReachesTwice, 8192 + 8192 = 16384
<1>15. ReachesFrom(c, d, 32768)
  BY <1>14, ReachesTwice, 16384 + 16384 = 32768
<1>16. ReachesFrom(c, d, 65536)
  BY <1>15, ReachesTwice, 32768 + 32768 = 65536
<1>17. Served => (Reaches(c, d, 0) => Reaches(c, d, 0 + 65536))
  BY <1>16 DEF ReachesFrom
<1> QED
  BY <1>17, ReachesNone, 0 + 65536 = Most DEF Most

LEMMA PlaceWithin ==
    ASSUME NEW S, NEW q \in Seq(S), NEW i \in DOMAIN q, Len(q) <= Most
    PROVE  i \in 1 .. Most
<1>1. i \in 1 .. Len(q) /\ Len(q) \in Nat
  OBVIOUS
<1>2. Most \in Nat
  BY DEF Most
<1> QED
  BY <1>1, <1>2

\* The queues never hold more than the proof reaches.
QueuesFit == Len(workQ) <= Most /\ Len(mainQ) <= Most

\* What a composer posted is answered, if the connection holds.
Answers(c, d) == <>[]online => (IsOpen(c, d) /\ Awaited(d) ~> Settled(c, d))

(* PostsAreAnswered itself, for up to Most thoughts of this client and     *)
(* while neither queue is longer than Most: once the connection holds, a   *)
(* composer is closed by what it posted or told an error, however many     *)
(* calls, writes and snapshots are before it (:41-46).                     *)
THEOREM RndmPostsAreAnswered ==
    Cardinality(Mine) <= Most =>
      (RndmSpec /\ []WorkCanRun /\ []BackendCanAnswer /\ []AnswersCanRun /\ []QueuesFit
         => PostsAreAnswered)
<1> SUFFICES ASSUME Cardinality(Mine) <= Most
             PROVE  RndmSpec /\ []WorkCanRun /\ []BackendCanAnswer /\ []AnswersCanRun
                      /\ []QueuesFit => PostsAreAnswered
  OBVIOUS
<1>1. ASSUME NEW c \in Composer, NEW d \in Mine
      PROVE  Served /\ []QueuesFit => Answers(c, d)
  <2>1. PostInv /\ QueuesFit /\ AnswerWaits(c, d) => AnswerWithin(c, d, Most)
    <3> SUFFICES ASSUME PostInv, QueuesFit, NEW i \in DOMAIN mainQ, AnswerAt(c, d, i)
                 PROVE  AnswerWithin(c, d, Most)
      BY DEF AnswerWaits
    <3>1. i \in 1 .. Most
      BY PlaceWithin DEF PostInv, WayInv, QueuesFit
    <3> QED
      BY <3>1 DEF AnswerWithin
  <2>2. PostInv /\ OutboxIsBounded /\ IsPending(c, d) => PendingWithin(c, d, Most)
    <3> SUFFICES ASSUME PostInv, OutboxIsBounded, IsPending(c, d)
                 PROVE  PendingWithin(c, d, Most)
      OBVIOUS
    <3>1. PICK i \in DOMAIN outbox : About(outbox[i], d)
      BY DEF IsPending, Has
    <3>2. Cardinality(Mine) \in Nat
      BY ClientAssumption, FS_Subset, FS_CardinalityType
    <3>3. outbox \in Seq(AnyWrite) /\ Len(outbox) <= Most
      BY <3>2 DEF PostInv, WayInv, OutboxIsBounded, Most
    <3>4. i \in 1 .. Most
      BY <3>3, PlaceWithin
    <3> QED
      BY <3>1, <3>4 DEF PendingWithin, PendingAt, IsPending
  <2>3. PostInv /\ QueuesFit /\ IsOpen(c, d) /\ Awaited(d) =>
           IsPending(c, d) \/ QueuedWithin(c, d, Most)
    <3> SUFFICES ASSUME PostInv, QueuesFit, IsOpen(c, d), Awaited(d)
                 PROVE  IsPending(c, d) \/ QueuedWithin(c, d, Most)
      OBVIOUS
    <3>1. CASE d \in Unsent
      <4>1. outbox \in Seq(AnyWrite)
        BY DEF PostInv, WayInv
      <4>2. PICK i \in DOMAIN outbox : outbox[i].doc = d
        BY <3>1 DEF Unsent
      <4>3. About(outbox[i], d)
        BY <4>1, <4>2 DEF About, AnyWrite
      <4> QED
        BY <4>2, <4>3 DEF IsPending, Has
    <3>2. ASSUME NEW i \in DOMAIN workQ, workQ[i].op = "write", workQ[i].doc = d
          PROVE  QueuedWithin(c, d, Most)
      <4>1. workQ \in Seq(AnyWork) /\ i \in 1 .. Most
        BY PlaceWithin DEF PostInv, WayInv, QueuesFit
      <4>2. workQ[i] \in AnyWork
        BY <4>1
      <4>3. About(workQ[i], d)
        BY <3>2, <4>2 DEF About, AnyWork
      <4> QED
        BY <4>1, <4>3 DEF QueuedWithin, QueuedAt
    <3> QED
      BY <3>1, <3>2 DEF Awaited
  <2>4. Served => Reaches(c, d, Most)
    BY ReachesMost
  <2>5. Closed(c) => Settled(c, d)
    BY DEF Settled
  <2> QED
    BY <2>1, <2>2, <2>3, <2>4, <2>5, RndmInvariant, RndmOutboxIsBounded, PTL
       DEF Served, Reaches, SentWithin, AnsweredWithin, ClosesWithin, Answers
<1>2. Served /\ []QueuesFit => \A c \in Composer, d \in Mine : Answers(c, d)
  <2> HIDE DEF Served, QueuesFit, Answers
  <2> QED
    BY <1>1
<1> QED
  BY <1>2 DEF Served, PostsAreAnswered, Answers, IsOpen, Settled, Closed

=============================================================================
