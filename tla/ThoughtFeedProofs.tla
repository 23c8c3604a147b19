-------------------------- MODULE ThoughtFeedProofs -------------------------
(***************************************************************************)
(* Proofs about ThoughtFeed: the list of RNDM before it is left for the    *)
(* first time, for any finite set of thoughts and any number of listeners. *)
(***************************************************************************)
EXTENDS ThoughtFeed, FiniteSetTheorems, TLAPS

(* A finite set is turned into a sequence of its own elements, without     *)
(* repetitions.                                                            *)
LEMMA SetToSeqElements ==
    ASSUME NEW S, IsFiniteSet(S)
    PROVE  /\ SetToSeq(S) \in Seq(S)
           /\ IsInjective(SetToSeq(S))
<1>1. PICK f \in Bijection(1 .. Cardinality(S), S) : TRUE
  BY FS_CardinalityType DEF ExistsBijection
<1>2. f \in [1 .. Cardinality(S) -> S] /\ IsInjective(f)
  BY <1>1 DEF Bijection, Injection
<1>3. /\ SetToSeq(S) \in [1 .. Cardinality(S) -> S]
      /\ IsInjective(SetToSeq(S))
  BY <1>2 DEF SetToSeq
<1>4. Cardinality(S) \in Nat
  BY FS_CardinalityType
<1> QED
  BY <1>3, <1>4

(* The rows a snapshot leaves are its documents, each once.                *)
LEMMA RowsOfSnapshot ==
    ASSUME NEW list, NEW docs \in SUBSET Thought
    PROVE  LET rows == Decoded(Emptied(list), docs)
           IN  /\ rows \in Seq(Thought)
               /\ ToSet(rows) \subseteq docs
               /\ IsInjective(rows)
<1>1. IsFiniteSet(docs)
  BY FS_Subset, ClientAssumption
<1>2. SetToSeq(docs) \in Seq(docs) /\ IsInjective(SetToSeq(docs))
  BY <1>1, SetToSeqElements
<1>3. Decoded(Emptied(list), docs) = SetToSeq(docs)
  BY <1>2 DEF Decoded, Emptied
<1>4. SetToSeq(docs) \in Seq(Thought)
  BY <1>2
<1>5. ToSet(SetToSeq(docs)) \subseteq docs
  BY <1>2 DEF ToSet
<1> QED
  BY <1>2, <1>3, <1>4, <1>5

-----------------------------------------------------------------------------
(* What is on its way to the main queue: snapshots whose documents match   *)
(* the query of a registration that was made, and failures.                *)
Messages ==
    {m \in [kind : {"event"}, reg : Made, docs : SUBSET Thought] :
        m.docs \subseteq Match(query[m.reg])}
    \cup [kind : {"error"}, reg : Reg]

WorkItems == [op : {"listen", "unlisten"}, reg : Made]

(* The one registration that was not removed is the last one, and it was   *)
(* made for the selected category.                                         *)
OnlyTheLastIsKept ==
    \A r \in Made \ muted :
        r = thoughtsListener /\ query[r] = QueryOf(selectedCategory)

FeedInv ==
    /\ query \in [Reg -> Query \cup {None}]
    /\ thoughtsListener \in 0 .. MaxListeners
    /\ selectedCategory \in Segments
    /\ registered \subseteq Made
    /\ workQ \in Seq(WorkItems)
    /\ mainQ \in Seq(Messages)
    /\ thoughsList \in Seq(Thought)
    /\ outbox = <<>>
    /\ Made = 1 .. thoughtsListener
    /\ OnlyTheLastIsKept
    /\ thoughtsListener = 0 => selectedCategory = "Funny"
    /\ IsInjective(thoughsList)

LEMMA FeedInitially == Init => FeedInv
<1> SUFFICES ASSUME Init PROVE FeedInv
  OBVIOUS
<1>1. Made = {}
  BY DEF Init, ClientInit, Made
<1>2. MaxListeners \in Nat
  BY ClientAssumption
<1> QED
  BY <1>1, <1>2 DEF Init, ClientInit, FeedInit, FeedInv, Segments, Categories,
                    OnlyTheLastIsKept, IsInjective

(* A new registration, made by a handler that removed every one before.    *)
LEMMA NewListener ==
    ASSUME FeedInv, NEW q \in Query, NEW calls \in Seq(WorkItems),
           AddSnapshotListener(q, calls),
           Made \subseteq muted',
           q = QueryOf(selectedCategory'), selectedCategory' \in Segments,
           UNCHANGED <<registered, mainQ, thoughsList, outbox>>
    PROVE  FeedInv'
<1> DEFINE new == NextListener
<1>1. new \in Reg /\ new = thoughtsListener + 1 /\ new \notin Made
  BY DEF AddSnapshotListener, NextListener, FeedInv
<1>2. query' = [query EXCEPT ![new] = q] /\ thoughtsListener' = new
  BY DEF AddSnapshotListener
<1>3. Made' = Made \cup {new}
  BY <1>1, <1>2, ClientAssumption DEF Made, FeedInv
<1>4. \A r \in Made : query'[r] = query[r]
  BY <1>1, <1>2 DEF FeedInv, Made
<1>5. Made' = 1 .. thoughtsListener'
  BY <1>1, <1>2, <1>3 DEF FeedInv
<1>6. workQ' \in Seq(WorkItems')
  <2>1. WorkItems \subseteq WorkItems' /\ Listen(new) \in WorkItems'
    BY <1>3 DEF WorkItems, Listen
  <2>2. workQ \in Seq(WorkItems') /\ calls \in Seq(WorkItems')
    BY <2>1 DEF FeedInv
  <2> QED
    BY <2>1, <2>2 DEF AddSnapshotListener
<1>7. mainQ' \in Seq(Messages')
  <2>1. Messages \subseteq Messages'
    BY <1>3, <1>4 DEF Messages
  <2> QED
    BY <2>1 DEF FeedInv
<1>8. OnlyTheLastIsKept'
  BY <1>1, <1>2, <1>3 DEF OnlyTheLastIsKept, FeedInv
<1>9. query' \in [Reg -> Query \cup {None}] /\ thoughtsListener' \in 0 .. MaxListeners
  BY <1>1, <1>2, ClientAssumption DEF FeedInv, Reg
<1>10. registered' \subseteq Made' /\ thoughtsListener' # 0
  BY <1>1, <1>2, <1>3 DEF FeedInv
<1>11. thoughsList' \in Seq(Thought) /\ outbox' = <<>> /\ IsInjective(thoughsList')
  BY DEF FeedInv
<1> QED
  BY <1>5, <1>6, <1>7, <1>8, <1>9, <1>10, <1>11 DEF FeedInv

(* An enumeration of some of the registrations, and what is sent to each.  *)
LEMMA Enumeration ==
    ASSUME NEW S \in SUBSET Reg, NEW order \in SetToSeqs(S)
    PROVE  /\ order \in Seq(S)
           /\ DOMAIN order = 1 .. Len(order)
           /\ \A i \in DOMAIN order : order[i] \in S
<1>1. IsFiniteSet(S)
  <2>1. IsFiniteSet(Reg)
    BY FS_Interval, ClientAssumption DEF Reg
  <2> QED
    BY <2>1, FS_Subset
<1>2. Cardinality(S) \in Nat
  BY <1>1, FS_CardinalityType
<1>3. order \in [1 .. Cardinality(S) -> S]
  BY DEF SetToSeqs
<1> QED
  BY <1>2, <1>3

LEMMA MappedSequence ==
    ASSUME NEW T, NEW n \in Nat, NEW f \in [1 .. n -> T]
    PROVE  f \in Seq(T)
OBVIOUS

Due == {r \in registered' : EventDue(r)}

Events(order) ==
    [i \in DOMAIN order |-> Event(order[i], Result(query[order[i]])')]

(* What the client emits are snapshots of the listeners' own queries.      *)
LEMMA EmittedEvents ==
    ASSUME FeedInv, Emit(<<>>), registered' \subseteq Made, query' = query
    PROVE  \E order \in SetToSeqs(Due) :
              /\ Events(order) \in Seq(Messages)
              /\ mainQ' = mainQ \o Events(order)
<1>1. PICK order \in SetToSeqs(Due) : mainQ' = mainQ \o <<>> \o Events(order)
  BY DEF Emit, Due, Events
<1>2. Due \in SUBSET Reg
  BY DEF Made, Due
<1>3. /\ DOMAIN order = 1 .. Len(order) /\ Len(order) \in Nat
      /\ \A i \in DOMAIN order : order[i] \in Due
  BY <1>1, <1>2, Enumeration
<1>4. \A i \in DOMAIN order : Event(order[i], Result(query[order[i]])') \in Messages
  <2> SUFFICES ASSUME NEW i \in DOMAIN order
               PROVE  Event(order[i], Result(query[order[i]])') \in Messages
    OBVIOUS
  <2>1. order[i] \in Made
    BY <1>3 DEF Due
  <2>2. Result(query[order[i]])' \subseteq Match(query[order[i]])
    BY DEF Result
  <2>3. Match(query[order[i]]) \subseteq Thought
    BY DEF Match
  <2> QED
    BY <2>1, <2>2, <2>3 DEF Event, Messages
<1>5. Events(order) \in Seq(Messages)
  <2>1. Events(order) \in [1 .. Len(order) -> Messages]
    BY <1>3, <1>4 DEF Events
  <2> QED
    BY <1>3, <2>1, MappedSequence
<1>6. mainQ' = mainQ \o Events(order)
  <2> HIDE DEF Events
  <2> QED
    BY <1>1, <1>5 DEF FeedInv
<1> QED
  BY <1>5, <1>6

LEMMA EmittedMessages ==
    ASSUME FeedInv, Emit(<<>>), registered' \subseteq Made, query' = query
    PROVE  mainQ' \in Seq(Messages')
<1>1. Messages' = Messages
  BY DEF Made, Messages
<1>2. \E events \in Seq(Messages) : mainQ' = mainQ \o events
  BY EmittedEvents
<1>3. mainQ \in Seq(Messages)
  BY DEF FeedInv
<1> QED
  BY <1>1, <1>2, <1>3

-----------------------------------------------------------------------------
LEMMA UserKeepsFeedInv ==
    ASSUME FeedInv, NEW s \in Segments, CategoryChanged(s), ClientUnchanged,
           UNCHANGED mainQ
    PROVE  FeedInv'
<1>1. QueryOf(s) \in Query
  BY DEF QueryOf, Query, Segments
<1>2. thoughtsListener \in Made
  BY DEF CategoryChanged, FeedInv
<1>3. <<Unlisten(thoughtsListener)>> \in Seq(WorkItems)
  BY <1>2 DEF Unlisten, WorkItems
<1>4. Made \subseteq muted'
  BY DEF CategoryChanged, FeedInv, OnlyTheLastIsKept
<1>5. AddSnapshotListener(QueryOf(s), <<Unlisten(thoughtsListener)>>)
  BY DEF CategoryChanged
<1>6. selectedCategory' = s /\ UNCHANGED <<registered, mainQ, thoughsList, outbox>>
  BY DEF CategoryChanged, ClientUnchanged, listenVars, storeVars
<1> QED
  BY <1>1, <1>3, <1>4, <1>5, <1>6, NewListener

LEMMA AppearanceKeepsFeedInv ==
    ASSUME FeedInv, thoughtsListener = 0, ViewWillAppear, ClientUnchanged,
           UNCHANGED mainQ
    PROVE  FeedInv'
<1>1. Made = {}
  BY DEF FeedInv
<1>2. selectedCategory = "Funny" /\ selectedCategory' = selectedCategory
  BY DEF FeedInv, ViewWillAppear
<1>3. QueryOf(selectedCategory') = selectedCategory /\ selectedCategory \in Query
  BY <1>2 DEF QueryOf, Query, Categories
<1>4. <<>> \in Seq(WorkItems)
  OBVIOUS
<1>5. /\ AddSnapshotListener(selectedCategory, <<>>)
      /\ UNCHANGED <<registered, mainQ, thoughsList, outbox>>
  BY DEF ViewWillAppear, ClientUnchanged, listenVars, storeVars
<1>6. selectedCategory' \in Segments
  BY <1>2 DEF FeedInv
<1> QED
  BY <1>1, <1>3, <1>4, <1>5, <1>6, NewListener

(* What every step of the client, and the end of a callback, leaves alone. *)
ApiUnchanged == UNCHANGED <<apiVars, selectedCategory, thoughtsListener>>

LEMMA MainKeepsFeedInv ==
    ASSUME FeedInv, Main
    PROVE  FeedInv'
<1>1. ApiUnchanged /\ UNCHANGED <<registered, outbox, workQ>>
  BY DEF Main, OnSnapshot, OnListenError, ClientUnchanged, ApiUnchanged, feedVars,
         listenVars, storeVars
<1>2. mainQ # <<>> /\ mainQ' = Tail(mainQ)
  BY DEF Main, OnSnapshot, OnListenError, MainHead
<1>3. mainQ' \in Seq(Messages) /\ Head(mainQ) \in Messages
  BY <1>2 DEF FeedInv
<1>4. UNCHANGED <<Made, Messages, WorkItems, OnlyTheLastIsKept>>
  BY <1>1 DEF ApiUnchanged, apiVars, Made, Messages, WorkItems, OnlyTheLastIsKept
<1>5. thoughsList' \in Seq(Thought) /\ IsInjective(thoughsList')
  <2>1. CASE thoughsList' = thoughsList
    BY <2>1 DEF FeedInv
  <2>2. CASE OnSnapshot /\ thoughsList' # thoughsList
    <3>1. Head(mainQ).kind = "event"
      BY <2>2 DEF OnSnapshot, MainHead
    <3>2. Head(mainQ).docs \in SUBSET Thought
      BY <1>3, <3>1 DEF Messages
    <3>3. thoughsList' = Decoded(Emptied(thoughsList), Head(mainQ).docs)
      BY <2>2 DEF OnSnapshot
    <3> QED
      BY <3>2, <3>3, RowsOfSnapshot
  <2> QED
    BY <2>1, <2>2 DEF Main, OnListenError, feedVars
<1> QED
  BY <1>1, <1>3, <1>4, <1>5 DEF FeedInv, ApiUnchanged, apiVars

LEMMA WorkerKeepsFeedInv ==
    ASSUME FeedInv, Worker, UNCHANGED feedVars
    PROVE  FeedInv'
<1>1. ~DoWrite
  <2> SUFFICES ASSUME workQ # <<>> PROVE Head(workQ).op # "write"
    BY DEF DoWrite, WorkHead
  <2>1. Head(workQ) \in WorkItems
    BY DEF FeedInv
  <2> QED
    BY <2>1 DEF WorkItems
<1>2. workQ # <<>> /\ workQ' = Tail(workQ) /\ Head(workQ) \in WorkItems
  BY <1>1 DEF Worker, DoListen, DoUnlisten, WorkHead, FeedInv
<1>3. ApiUnchanged /\ outbox' = outbox /\ thoughsList' = thoughsList
  BY <1>1 DEF Worker, DoListen, DoUnlisten, ApiUnchanged, feedVars, storeVars
<1>4. UNCHANGED <<Made, Messages, WorkItems, OnlyTheLastIsKept>>
  BY <1>3 DEF ApiUnchanged, apiVars, Made, Messages, WorkItems, OnlyTheLastIsKept
<1>5. workQ' \in Seq(WorkItems')
  BY <1>2, <1>4 DEF FeedInv
<1>6. registered' \subseteq Made
  BY <1>1, <1>2 DEF Worker, DoListen, DoUnlisten, FeedInv, WorkItems
<1>7. mainQ' \in Seq(Messages')
  <2>1. CASE DoListen
    BY <2>1, <1>3, <1>6, EmittedMessages DEF DoListen, ApiUnchanged, apiVars
  <2>2. CASE DoUnlisten
    BY <2>2, <1>4 DEF DoUnlisten, FeedInv
  <2> QED
    BY <1>1, <2>1, <2>2 DEF Worker
<1> QED
  BY <1>3, <1>4, <1>5, <1>6, <1>7 DEF FeedInv, ApiUnchanged, apiVars

LEMMA NetworkKeepsFeedInv ==
    ASSUME FeedInv, Network, UNCHANGED feedVars
    PROVE  FeedInv'
<1>1. ~Commit /\ ~Acknowledge /\ ~RejectWrite
  BY DEF Commit, Acknowledge, RejectWrite, FeedInv
<1>2. ApiUnchanged /\ UNCHANGED <<outbox, thoughsList, workQ>>
  BY <1>1 DEF Network, RemoteAdd, Watch, RejectListen, GoOffline, GoOnline,
              ApiUnchanged, feedVars, storeVars, queueVars
<1>3. UNCHANGED <<Made, Messages, WorkItems, OnlyTheLastIsKept>>
  BY <1>2 DEF ApiUnchanged, apiVars, Made, Messages, WorkItems, OnlyTheLastIsKept
<1>4. registered' \subseteq registered
  BY <1>1 DEF Network, RemoteAdd, Watch, RejectListen, GoOffline, GoOnline, listenVars
<1>5. mainQ' \in Seq(Messages')
  <2>1. CASE mainQ' = mainQ
    BY <2>1, <1>3 DEF FeedInv
  <2>2. CASE Emit(<<>>)
    BY <2>2, <1>2, <1>4, EmittedMessages DEF ApiUnchanged, apiVars, FeedInv
  <2>3. ASSUME NEW q \in Query, RejectListen(q)
        PROVE  mainQ' \in Seq(Messages')
    <3> DEFINE failed == {r \in registered : query[r] = q}
    <3>1. PICK order \in SetToSeqs(failed) :
             mainQ' = mainQ \o [i \in DOMAIN order |-> Failure(order[i])]
      BY <2>3 DEF RejectListen
    <3> DEFINE failures == [i \in DOMAIN order |-> Failure(order[i])]
    <3>2. failed \subseteq Reg
      BY DEF FeedInv, Made
    <3>3. /\ DOMAIN order = 1 .. Len(order) /\ Len(order) \in Nat
          /\ \A i \in DOMAIN order : order[i] \in Reg
      BY <3>1, <3>2, Enumeration
    <3>4. \A i \in DOMAIN order : Failure(order[i]) \in Messages
      BY <3>3 DEF Failure, Messages
    <3>5. failures \in Seq(Messages)
      <4>1. failures \in [1 .. Len(order) -> Messages]
        BY <3>3, <3>4
      <4> QED
        BY <3>3, <4>1, MappedSequence
    <3>6. mainQ' = mainQ \o failures
      BY <3>1
    <3> HIDE DEF failures
    <3> QED
      BY <3>5, <3>6, <1>3 DEF FeedInv
  <2> QED
    BY <1>1, <2>1, <2>2, <2>3 DEF Network, RemoteAdd, Watch, GoOffline, GoOnline,
                                  queueVars
<1> QED
  BY <1>2, <1>3, <1>4, <1>5 DEF FeedInv, ApiUnchanged, apiVars

-----------------------------------------------------------------------------
LEMMA FeedStep == FeedInv /\ [Next]_vars => FeedInv'
<1> SUFFICES ASSUME FeedInv, [Next]_vars PROVE FeedInv'
  OBVIOUS
<1>1. CASE thoughtsListener = 0 /\ ViewWillAppear /\ ClientUnchanged /\ UNCHANGED mainQ
  BY <1>1, AppearanceKeepsFeedInv
<1>2. CASE User /\ ClientUnchanged /\ UNCHANGED mainQ
  BY <1>2, UserKeepsFeedInv DEF User
<1>3. CASE Main
  BY <1>3, MainKeepsFeedInv
<1>4. CASE Worker /\ UNCHANGED feedVars
  BY <1>4, WorkerKeepsFeedInv
<1>5. CASE Network /\ UNCHANGED feedVars
  BY <1>5, NetworkKeepsFeedInv
<1>6. CASE UNCHANGED vars
  <2>1. UNCHANGED <<query, muted, registered, workQ, mainQ, outbox, thoughsList,
                    selectedCategory, thoughtsListener>>
    BY <1>6 DEF vars, clientVars, apiVars, listenVars, queueVars, storeVars, feedVars
  <2>2. UNCHANGED <<Made, Messages, WorkItems, OnlyTheLastIsKept>>
    BY <2>1 DEF Made, Messages, WorkItems, OnlyTheLastIsKept
  <2> QED
    BY <2>1, <2>2 DEF FeedInv
<1> QED
  BY <1>1, <1>2, <1>3, <1>4, <1>5, <1>6 DEF Next

(* The invariant holds in every state.                                     *)
THEOREM FeedInvariant == Spec => []FeedInv
BY FeedInitially, FeedStep, PTL DEF Spec

(* No thought is ever shown twice.                                         *)
THEOREM FeedNoDuplicates == Spec => []NoDuplicates
<1>1. FeedInv => NoDuplicates
  BY DEF FeedInv, NoDuplicates
<1> QED
  BY <1>1, FeedInvariant, PTL

(* Every change of the rows brings the selected category: snapshots of an  *)
(* earlier selection, of whatever registration, are dropped.               *)
THEOREM FeedUpdatesAreOfSelection == Spec => UpdatesAreOfSelection
<1> DEFINE Update ==
      thoughsList' # thoughsList =>
         ToSet(thoughsList') \subseteq Match(QueryOf(selectedCategory))
<1>1. FeedInv /\ [Next]_vars => [Update]_vars
  <2> SUFFICES ASSUME FeedInv, Next, thoughsList' # thoughsList
               PROVE  ToSet(thoughsList') \subseteq Match(QueryOf(selectedCategory))
    OBVIOUS
  <2>1. OnSnapshot
    BY DEF Next, ViewWillAppear, User, CategoryChanged, Main, OnListenError, feedVars
  <2> DEFINE m == Head(mainQ)
  <2>2. m \in Messages /\ m.kind = "event" /\ m.reg \notin muted
    BY <2>1 DEF OnSnapshot, MainHead, FeedInv
  <2>3. m.reg \in Made /\ m.docs \in SUBSET Thought /\ m.docs \subseteq Match(query[m.reg])
    BY <2>2 DEF Messages
  <2>4. query[m.reg] = QueryOf(selectedCategory)
    BY <2>2, <2>3 DEF FeedInv, OnlyTheLastIsKept
  <2>5. thoughsList' = Decoded(Emptied(thoughsList), m.docs)
    BY <2>1 DEF OnSnapshot
  <2> QED
    BY <2>3, <2>4, <2>5, RowsOfSnapshot
<1> QED
  BY <1>1, FeedInvariant, PTL DEF Spec, UpdatesAreOfSelection

-----------------------------------------------------------------------------
(* That the rows come to be the local store's needs more: what is on its   *)
(* way for the last registration.                                          *)

(* An injective enumeration of a finite set reaches all of it.             *)
LEMMA EnumerationReachesAll ==
    ASSUME NEW S, IsFiniteSet(S), NEW f \in [1 .. Cardinality(S) -> S],
           \A i, j \in 1 .. Cardinality(S) : i # j => f[i] # f[j]
    PROVE  \A x \in S : \E i \in 1 .. Cardinality(S) : f[i] = x
<1> DEFINE n == Cardinality(S)
           R == {f[i] : i \in 1 .. n}
<1>1. n \in Nat
  BY FS_CardinalityType
<1>2. IsFiniteSet(1 .. n) /\ Cardinality(1 .. n) = n
  BY <1>1, FS_Interval
<1>3. f \in Bijection(1 .. n, R)
  BY DEF Bijection, Injection, Surjection, IsInjective
<1>4. Cardinality(R) = n
  BY <1>2, <1>3, FS_Bijection DEF ExistsBijection
<1>5. R \in SUBSET S
  OBVIOUS
<1>6. S = R
  BY <1>4, <1>5, FS_Subset
<1> QED
  BY <1>6

LEMMA RowsAreAllDocuments ==
    ASSUME NEW list, NEW docs \in SUBSET Thought
    PROVE  ToSet(Decoded(Emptied(list), docs)) = docs
<1>1. IsFiniteSet(docs)
  BY FS_Subset, ClientAssumption
<1>2. PICK f \in Bijection(1 .. Cardinality(docs), docs) : TRUE
  BY <1>1, FS_CardinalityType DEF ExistsBijection
<1>3. f \in [1 .. Cardinality(docs) -> docs] /\ IsInjective(f)
  BY <1>2 DEF Bijection, Injection
<1> DEFINE s == SetToSeq(docs)
<1>4. s \in [1 .. Cardinality(docs) -> docs] /\ IsInjective(s)
  BY <1>3 DEF SetToSeq
<1> HIDE DEF s
<1>5. \A i, j \in 1 .. Cardinality(docs) : i # j => s[i] # s[j]
  BY <1>4 DEF IsInjective
<1>6. \A x \in docs : \E i \in 1 .. Cardinality(docs) : s[i] = x
  BY <1>1, <1>4, <1>5, EnumerationReachesAll
<1>7. ToSet(s) = docs
  BY <1>4, <1>6 DEF ToSet
<1>8. s \in Seq(docs)
  BY <1>1, SetToSeqElements DEF s
<1>9. Decoded(Emptied(list), docs) = s
  BY <1>8 DEF Decoded, Emptied, s
<1> QED
  BY <1>7, <1>9

IsEventOf(m, r) == m.kind = "event" /\ m.reg = r

(* The last snapshot in q of registration r has the documents res; if q    *)
(* has none of r, the rows are res.                                        *)
Coming(q, r, rows, res) ==
    \/ /\ \A i \in DOMAIN q : ~IsEventOf(q[i], r)
       /\ rows = res
    \/ \E i \in DOMAIN q :
          /\ IsEventOf(q[i], r)
          /\ q[i].docs = res
          /\ \A j \in DOMAIN q : j > i => ~IsEventOf(q[j], r)

LEMMA ComingDespite ==
    ASSUME NEW M, NEW q \in Seq(M), NEW e \in Seq(M), NEW r, NEW rows, NEW res,
           Coming(q, r, rows, res),
           \A i \in DOMAIN e : ~IsEventOf(e[i], r)
    PROVE  Coming(q \o e, r, rows, res)
<1> DEFINE qe == q \o e
<1>1. /\ Len(q) \in Nat /\ DOMAIN q = 1 .. Len(q)
      /\ Len(e) \in Nat /\ DOMAIN e = 1 .. Len(e)
      /\ DOMAIN qe = 1 .. Len(q) + Len(e)
      /\ \A i \in 1 .. Len(q) : qe[i] = q[i]
      /\ \A i \in 1 .. Len(e) : qe[Len(q) + i] = e[i]
  OBVIOUS
<1> HIDE DEF qe
<1>2. \A i \in DOMAIN qe : i > Len(q) => ~IsEventOf(qe[i], r)
  <2> SUFFICES ASSUME NEW i \in DOMAIN qe, i > Len(q)
               PROVE  ~IsEventOf(qe[i], r)
    OBVIOUS
  <2>1. i - Len(q) \in 1 .. Len(e) /\ i = Len(q) + (i - Len(q))
    BY <1>1
  <2> QED
    BY <1>1, <2>1
<1>3. CASE (\A i \in DOMAIN q : ~IsEventOf(q[i], r)) /\ rows = res
  <2>1. \A i \in DOMAIN qe : ~IsEventOf(qe[i], r)
    BY <1>1, <1>2, <1>3
  <2> QED
    BY <1>3, <2>1 DEF Coming, qe
<1>4. ASSUME NEW i \in DOMAIN q, IsEventOf(q[i], r), q[i].docs = res,
             \A j \in DOMAIN q : j > i => ~IsEventOf(q[j], r)
      PROVE  Coming(q \o e, r, rows, res)
  <2>1. i \in DOMAIN qe /\ qe[i] = q[i]
    BY <1>1
  <2>2. \A j \in DOMAIN qe : j > i => ~IsEventOf(qe[j], r)
    BY <1>1, <1>2, <1>4
  <2> QED
    BY <1>4, <2>1, <2>2 DEF Coming, qe
<1> QED
  BY <1>3, <1>4 DEF Coming

LEMMA ComingAnew ==
    ASSUME NEW M, NEW q \in Seq(M), NEW e \in Seq(M), NEW r, NEW rows, NEW res,
           NEW k \in DOMAIN e, IsEventOf(e[k], r), e[k].docs = res,
           \A i \in DOMAIN e : i # k => ~IsEventOf(e[i], r)
    PROVE  Coming(q \o e, r, rows, res)
<1> DEFINE qe == q \o e
<1>1. /\ Len(q) \in Nat /\ DOMAIN q = 1 .. Len(q)
      /\ Len(e) \in Nat /\ DOMAIN e = 1 .. Len(e)
      /\ DOMAIN qe = 1 .. Len(q) + Len(e)
      /\ \A i \in 1 .. Len(e) : qe[Len(q) + i] = e[i]
  OBVIOUS
<1> HIDE DEF qe
<1>2. Len(q) + k \in DOMAIN qe /\ qe[Len(q) + k] = e[k]
  BY <1>1
<1>3. ASSUME NEW j \in DOMAIN qe, j > Len(q) + k
      PROVE  ~IsEventOf(qe[j], r)
  <2>1. j - Len(q) \in 1 .. Len(e) /\ j = Len(q) + (j - Len(q)) /\ j - Len(q) # k
    BY <1>1, <1>3
  <2> QED
    BY <1>1, <2>1
<1> QED
  BY <1>2, <1>3 DEF Coming, qe

LEMMA ComingDelivered ==
    ASSUME NEW M, NEW q \in Seq(M), q # <<>>, NEW r, NEW rows, NEW res, NEW rowsNext,
           Coming(q, r, rows, res),
           rowsNext = IF IsEventOf(Head(q), r) THEN Head(q).docs ELSE rows
    PROVE  Coming(Tail(q), r, rowsNext, res)
<1> DEFINE t == Tail(q)
<1>1. /\ Len(q) \in Nat \ {0} /\ DOMAIN q = 1 .. Len(q)
      /\ Head(q) = q[1]
      /\ DOMAIN t = 1 .. Len(q) - 1
      /\ \A i \in 1 .. Len(q) - 1 : t[i] = q[i + 1]
  OBVIOUS
<1> HIDE DEF t
<1>2. CASE (\A i \in DOMAIN q : ~IsEventOf(q[i], r)) /\ rows = res
  <2>1. rowsNext = res
    BY <1>1, <1>2
  <2>2. \A i \in DOMAIN t : ~IsEventOf(t[i], r)
    BY <1>1, <1>2
  <2> QED
    BY <2>1, <2>2 DEF Coming, t
<1>3. ASSUME NEW i \in DOMAIN q, IsEventOf(q[i], r), q[i].docs = res,
             \A j \in DOMAIN q : j > i => ~IsEventOf(q[j], r)
      PROVE  Coming(Tail(q), r, rowsNext, res)
  <2>1. CASE i = 1
    <3>1. rowsNext = res
      BY <1>1, <1>3, <2>1
    <3>2. \A j \in DOMAIN t : ~IsEventOf(t[j], r)
      BY <1>1, <1>3, <2>1
    <3> QED
      BY <3>1, <3>2 DEF Coming, t
  <2>2. CASE i # 1
    <3>1. i - 1 \in DOMAIN t /\ t[i - 1] = q[i]
      BY <1>1, <2>2
    <3>2. \A j \in DOMAIN t : j > i - 1 => ~IsEventOf(t[j], r)
      BY <1>1, <1>3, <2>2
    <3> QED
      BY <1>3, <3>1, <3>2 DEF Coming, t
  <2> QED
    BY <2>1, <2>2
<1> QED
  BY <1>2, <1>3 DEF Coming

-----------------------------------------------------------------------------
(* The last registration is not removed, and what is on its way for it     *)
(* ends with the local store's documents.                                  *)
ShowInv ==
    /\ raised \subseteq registered
    /\ muted \subseteq Made \ {thoughtsListener}
    /\ thoughtsListener \in raised =>
          Coming(mainQ, thoughtsListener, Rows, Result(query[thoughtsListener]))

LEMMA ShowInitially == Init => ShowInv
BY DEF Init, ClientInit, ShowInv

LEMMA UserKeepsShowInv ==
    ASSUME FeedInv, ShowInv, NEW q, NEW calls,
           AddSnapshotListener(q, calls), UNCHANGED <<registered, raised>>,
           muted' \subseteq muted \cup {thoughtsListener},
           muted' \subseteq Made
    PROVE  ShowInv'
<1>1. thoughtsListener' \notin Made /\ Made \subseteq Made'
  <2>1. thoughtsListener' = thoughtsListener + 1 /\ thoughtsListener' \in Reg
    BY DEF AddSnapshotListener, NextListener
  <2>2. thoughtsListener' \notin Made
    BY <2>1 DEF FeedInv
  <2>3. \A r \in Made : query'[r] = query[r]
    BY <2>1, <2>2 DEF AddSnapshotListener, FeedInv, Made
  <2> QED
    BY <2>2, <2>3 DEF Made
<1> QED
  BY <1>1 DEF ShowInv, FeedInv

(* A view tells its documents, so an event is due when they change.        *)
LEMMA ViewTellsResult ==
    ASSUME NEW q, View(q)' = View(q)
    PROVE  Result(q)' = Result(q)
<1> DEFINE f == [d \in Result(q) |-> d \in cache \ Unsent]
           g == [d \in Result(q)' |-> d \in cache' \ Unsent']
           A == Result(q)
           B == Result(q)'
<1>1. View(q) = {<<d, f[d]>> : d \in A}
  BY Zenon DEF View
<1>2. View(q)' = {<<d, g[d]>> : d \in B}
  BY Zenon DEF View
<1> HIDE DEF f, g, A, B
<1>3. \A d \in A : <<d, f[d]>> \in View(q)
  BY <1>1
<1>4. \A d \in B : <<d, g[d]>> \in View(q)
  BY <1>2
<1>5. \A d \in A : \E e \in B : <<d, f[d]>> = <<e, g[e]>>
  BY <1>2, <1>3
<1>6. \A d \in B : \E e \in A : <<d, g[d]>> = <<e, f[e]>>
  BY <1>1, <1>4
<1>7. A = B
  BY <1>5, <1>6
<1> QED
  BY <1>7 DEF A, B

(* Whatever the client emits for the last registration, its documents are  *)
(* those of the local store then; if it emits nothing, they are the same.  *)
LEMMA EmitKeepsShowInv ==
    ASSUME FeedInv, ShowInv, Emit(<<>>),
           registered \subseteq registered', registered' \subseteq Made,
           UNCHANGED <<query, muted, thoughtsListener, thoughsList>>
    PROVE  ShowInv'
<1> DEFINE L == thoughtsListener
           now == Result(query[L])
<1>1. PICK order \in SetToSeqs(Due) :
         /\ Events(order) \in Seq(Messages)
         /\ mainQ' = mainQ \o Events(order)
  BY EmittedEvents
<1>2. Due \in SUBSET Reg
  BY DEF Due, Made
<1>3. /\ IsFiniteSet(Due) /\ Cardinality(Due) \in Nat
      /\ order \in [1 .. Cardinality(Due) -> Due]
      /\ \A i, j \in 1 .. Cardinality(Due) : i # j => order[i] # order[j]
  <2>1. IsFiniteSet(Reg)
    BY FS_Interval, ClientAssumption DEF Reg
  <2>2. IsFiniteSet(Due)
    BY <1>2, <2>1, FS_Subset
  <2> QED
    BY <1>1, <2>2, FS_CardinalityType DEF SetToSeqs
<1>4. /\ DOMAIN Events(order) = 1 .. Cardinality(Due)
      /\ \A i \in 1 .. Cardinality(Due) :
            Events(order)[i] = Event(order[i], Result(query[order[i]])')
  BY <1>3 DEF Events
<1>5. \A i \in DOMAIN Events(order) : IsEventOf(Events(order)[i], L) <=> order[i] = L
  BY <1>4 DEF IsEventOf, Event
<1>6. mainQ \in Seq(Messages)
  BY DEF FeedInv
<1>7. ASSUME L \in raised'
      PROVE  Coming(mainQ', L, Rows, now')
  <2>1. CASE L \in Due
    <3>1. PICK k \in 1 .. Cardinality(Due) : order[k] = L
      BY <1>3, <2>1, EnumerationReachesAll
    <3>2. k \in DOMAIN Events(order) /\ IsEventOf(Events(order)[k], L)
      BY <1>4, <1>5, <3>1
    <3>3. Events(order)[k].docs = now'
      BY <1>4, <3>1 DEF Event
    <3>4. \A i \in DOMAIN Events(order) : i # k => ~IsEventOf(Events(order)[i], L)
      BY <1>3, <1>4, <1>5, <3>1
    <3> QED
      BY <1>1, <1>6, <3>2, <3>3, <3>4, ComingAnew
  <2>2. CASE L \notin Due
    <3>1. L \in raised /\ L \in registered'
      BY <1>7, <2>2 DEF Emit, Due
    <3>2. View(query[L])' = View(query[L])
      BY <2>2, <3>1 DEF Due, EventDue
    <3>3. now' = now
      BY <3>2, ViewTellsResult
    <3>4. \A i \in DOMAIN Events(order) : ~IsEventOf(Events(order)[i], L)
      BY <1>3, <1>4, <1>5, <2>2
    <3>5. Coming(mainQ, L, Rows, now)
      BY <3>1 DEF ShowInv
    <3>6. Coming(mainQ \o Events(order), L, Rows, now)
      BY <1>1, <1>6, <3>4, <3>5, ComingDespite
    <3> QED
      BY <1>1, <3>3, <3>6
  <2> QED
    BY <2>1, <2>2
<1>8. raised' \subseteq registered'
  BY DEF Emit
<1>9. Made' = Made /\ Rows' = Rows
  BY DEF Made, Rows
<1> QED
  BY <1>7, <1>8, <1>9 DEF ShowInv

ResultUnchanged == UNCHANGED <<cache, acked, outbox, query>>

LEMMA SameResult ==
    ASSUME ResultUnchanged
    PROVE  Result(query[thoughtsListener])' = Result(query[thoughtsListener'])
BY DEF ResultUnchanged, Result, LocalDocs, Unsent, Match

LEMMA SameShowInv ==
    ASSUME ShowInv, ResultUnchanged,
           UNCHANGED <<raised, muted, thoughtsListener, mainQ, thoughsList>>,
           registered' = registered
    PROVE  ShowInv'
<1>1. Made' = Made /\ Rows' = Rows
  BY DEF Made, Rows, ResultUnchanged
<1> QED
  BY <1>1, SameResult DEF ShowInv

(* A snapshot of another registration is dropped, as it was removed.       *)
LEMMA MainKeepsShowInv ==
    ASSUME FeedInv, ShowInv, Main
    PROVE  ShowInv'
<1> DEFINE L == thoughtsListener
           now == Result(query[L])
           m == Head(mainQ)
<1>1. /\ ResultUnchanged
      /\ UNCHANGED <<registered, raised, muted, thoughtsListener>>
  BY DEF Main, OnSnapshot, OnListenError, ClientUnchanged, ResultUnchanged, feedVars,
         listenVars, storeVars, apiVars
<1>2. mainQ # <<>> /\ mainQ' = Tail(mainQ) /\ mainQ \in Seq(Messages)
  BY DEF Main, OnSnapshot, OnListenError, MainHead, FeedInv
<1>3. m \in Messages
  BY <1>2
<1>4. ASSUME L \in raised
      PROVE  Rows' = IF IsEventOf(m, L) THEN m.docs ELSE Rows
  <2>1. L \in Made /\ L \notin muted
    BY <1>4 DEF ShowInv, FeedInv
  <2>2. CASE OnListenError
    BY <2>2 DEF OnListenError, MainHead, IsEventOf, feedVars, Rows
  <2>3. CASE OnSnapshot /\ IsEventOf(m, L)
    <3>1. thoughsList' = Decoded(Emptied(thoughsList), m.docs)
      BY <2>1, <2>3 DEF OnSnapshot, IsEventOf
    <3>2. m.docs \in SUBSET Thought
      BY <1>3, <2>3 DEF IsEventOf, Messages
    <3>3. ToSet(Decoded(Emptied(thoughsList), m.docs)) = m.docs
      BY <3>2, RowsAreAllDocuments
    <3> QED
      BY <2>3, <3>1, <3>3 DEF Rows
  <2>4. CASE OnSnapshot /\ ~IsEventOf(m, L)
    <3>1. m.kind = "event" /\ m.reg \in Made /\ m.reg # L
      BY <1>3, <2>4 DEF OnSnapshot, MainHead, IsEventOf, Messages
    <3>2. m.reg \in muted
      BY <3>1 DEF FeedInv, OnlyTheLastIsKept
    <3> QED
      BY <2>4, <3>2 DEF OnSnapshot, Rows
  <2> QED
    BY <2>2, <2>3, <2>4 DEF Main
<1>5. ASSUME L \in raised
      PROVE  Coming(mainQ', L, Rows', now)
  <2>1. Coming(mainQ, L, Rows, now)
    BY <1>5 DEF ShowInv
  <2> QED
    BY <1>2, <1>4, <1>5, <2>1, ComingDelivered
<1>6. Made' = Made
  BY <1>1 DEF Made, ResultUnchanged
<1>7. now' = now
  BY <1>1, SameResult
<1> QED
  BY <1>1, <1>5, <1>6, <1>7 DEF ShowInv

LEMMA WorkerKeepsShowInv ==
    ASSUME FeedInv, ShowInv, Worker, UNCHANGED feedVars
    PROVE  ShowInv'
<1>1. ~DoWrite /\ workQ \in Seq(WorkItems)
  <2>1. workQ # <<>> => Head(workQ) \in WorkItems
    BY DEF FeedInv
  <2> QED
    BY <2>1 DEF DoWrite, WorkHead, WorkItems, FeedInv
<1>2. UNCHANGED <<thoughtsListener, thoughsList>>
  BY DEF feedVars
<1>3. CASE DoListen
  <2>0. workQ # <<>> /\ Head(workQ) \in WorkItems
    BY <1>1, <1>3 DEF DoListen, WorkHead
  <2>1. Head(workQ).reg \in Made
    BY <2>0 DEF WorkItems
  <2>2. /\ registered' = registered \cup {Head(workQ).reg}
        /\ Emit(<<>>) /\ UNCHANGED <<query, muted>>
    BY <1>3 DEF DoListen, apiVars
  <2>3. registered \subseteq registered' /\ registered' \subseteq Made
    BY <2>1, <2>2 DEF FeedInv
  <2> QED
    BY <1>2, <2>2, <2>3, EmitKeepsShowInv
<1>4. CASE DoUnlisten
  <2>1. /\ ResultUnchanged /\ UNCHANGED <<muted, mainQ>>
        /\ registered' = registered \ {Head(workQ).reg}
        /\ raised' = raised \ {Head(workQ).reg}
    BY <1>4 DEF DoUnlisten, apiVars, storeVars, ResultUnchanged
  <2>2. Made' = Made /\ Rows' = Rows
    BY <1>2, <2>1 DEF Made, Rows, ResultUnchanged
  <2> QED
    BY <1>2, <2>1, <2>2, SameResult DEF ShowInv
<1> QED
  BY <1>1, <1>3, <1>4 DEF Worker

LEMMA NetworkKeepsShowInv ==
    ASSUME FeedInv, ShowInv, Network, UNCHANGED feedVars
    PROVE  ShowInv'
<1>1. ~Commit /\ ~Acknowledge /\ ~RejectWrite
  BY DEF Commit, Acknowledge, RejectWrite, FeedInv
<1>2. UNCHANGED <<thoughtsListener, thoughsList>>
  BY DEF feedVars
<1>3. ASSUME NEW d \in Thought, RemoteAdd(d)
      PROVE  ShowInv'
  <2>1. ResultUnchanged /\ UNCHANGED <<raised, muted, mainQ, registered>>
    BY <1>3 DEF RemoteAdd, storeVars, listenVars, apiVars, queueVars, ResultUnchanged
  <2> QED
    BY <1>2, <2>1, SameShowInv
<1>4. CASE GoOnline
  <2>1. ResultUnchanged /\ UNCHANGED <<raised, muted, mainQ, registered>>
    BY <1>4 DEF GoOnline, storeVars, listenVars, apiVars, queueVars, ResultUnchanged
  <2> QED
    BY <1>2, <2>1, SameShowInv
<1>5. ASSUME NEW q \in Query, Watch(q) \/ GoOffline
      PROVE  ShowInv'
  <2>1. Emit(<<>>) /\ UNCHANGED <<query, muted, registered>>
    BY <1>5 DEF Watch, GoOffline, apiVars
  <2>2. registered \subseteq Made
    BY DEF FeedInv
  <2> QED
    BY <1>2, <2>1, <2>2, EmitKeepsShowInv
<1>6. ASSUME NEW q \in Query, RejectListen(q)
      PROVE  ShowInv'
  <2> DEFINE failed == {r \in registered : query[r] = q}
             L == thoughtsListener
             now == Result(query[L])
  <2>1. PICK order \in SetToSeqs(failed) :
           mainQ' = mainQ \o [i \in DOMAIN order |-> Failure(order[i])]
    BY <1>6 DEF RejectListen
  <2> DEFINE failures == [i \in DOMAIN order |-> Failure(order[i])]
  <2>2. failed \in SUBSET Reg
    BY DEF FeedInv, Made
  <2>3. /\ DOMAIN order = 1 .. Len(order) /\ Len(order) \in Nat
        /\ \A i \in DOMAIN order : order[i] \in Reg
    BY <2>1, <2>2, Enumeration
  <2>4. \A i \in DOMAIN order : Failure(order[i]) \in Messages
    BY <2>3 DEF Failure, Messages
  <2>5. failures \in [1 .. Len(order) -> Messages]
    BY <2>3, <2>4
  <2>6. failures \in Seq(Messages)
    BY <2>3, <2>5, MappedSequence
  <2>7. \A i \in DOMAIN failures : ~IsEventOf(failures[i], L)
    BY <2>3 DEF Failure, IsEventOf
  <2>8. mainQ' = mainQ \o failures
    BY <2>1
  <2> HIDE DEF failures
  <2>9. /\ ResultUnchanged /\ UNCHANGED muted
        /\ registered' = registered \ failed /\ raised' = raised \ failed
    BY <1>6 DEF RejectListen, apiVars, storeVars, ResultUnchanged
  <2>10. ASSUME L \in raised'
         PROVE  Coming(mainQ', L, Rows, now)
    <3>1. Coming(mainQ, L, Rows, now) /\ mainQ \in Seq(Messages)
      BY <2>9, <2>10 DEF ShowInv, FeedInv
    <3> QED
      BY <2>6, <2>7, <2>8, <3>1, ComingDespite
  <2>11. Made' = Made /\ Rows' = Rows /\ now' = now
    BY <1>2, <2>9, SameResult DEF Made, Rows, ResultUnchanged
  <2> QED
    BY <1>2, <2>9, <2>10, <2>11 DEF ShowInv
<1> QED
  BY <1>1, <1>3, <1>4, <1>5, <1>6 DEF Network, Query

LEMMA ShowStep == FeedInv /\ ShowInv /\ [Next]_vars => ShowInv'
<1> SUFFICES ASSUME FeedInv, ShowInv, [Next]_vars PROVE ShowInv'
  OBVIOUS
<1>1. CASE thoughtsListener = 0 /\ ViewWillAppear /\ ClientUnchanged /\ UNCHANGED mainQ
  <2>1. /\ AddSnapshotListener(selectedCategory, <<>>)
        /\ UNCHANGED <<registered, raised, muted>>
    BY <1>1 DEF ViewWillAppear, ClientUnchanged, listenVars
  <2>2. muted' \subseteq Made
    BY <2>1 DEF ShowInv
  <2> QED
    BY <2>1, <2>2, UserKeepsShowInv
<1>2. ASSUME NEW s \in Segments, CategoryChanged(s), ClientUnchanged
      PROVE  ShowInv'
  <2>1. /\ AddSnapshotListener(QueryOf(s), <<Unlisten(thoughtsListener)>>)
        /\ UNCHANGED <<registered, raised>>
        /\ muted' = muted \cup {thoughtsListener}
    BY <1>2 DEF CategoryChanged, ClientUnchanged, listenVars
  <2>2. thoughtsListener \in Made
    BY <1>2 DEF CategoryChanged, FeedInv
  <2>3. muted' \subseteq Made
    BY <2>1, <2>2 DEF ShowInv
  <2> QED
    BY <2>1, <2>3, UserKeepsShowInv
<1>3. CASE UNCHANGED vars
  <2>1. ResultUnchanged /\ UNCHANGED <<raised, muted, thoughtsListener, mainQ,
                                       thoughsList, registered>>
    BY <1>3 DEF vars, clientVars, apiVars, listenVars, queueVars, storeVars, feedVars,
                ResultUnchanged
  <2> QED
    BY <2>1, SameShowInv
<1> QED
  BY <1>1, <1>2, <1>3, MainKeepsShowInv, WorkerKeepsShowInv, NetworkKeepsShowInv
     DEF Next, User

(* Once nothing is on its way, the rows are what the local store has for   *)
(* the selection, whatever the order of changes, snapshots and selections. *)
THEOREM FeedQuietRowsAreCurrent == Spec => []QuietRowsAreCurrent
<1>1. FeedInv /\ ShowInv => QuietRowsAreCurrent
  <2> SUFFICES ASSUME FeedInv, ShowInv, mainQ = <<>>, thoughtsListener \in raised
               PROVE  Rows = Result(QueryOf(selectedCategory))
    BY DEF QuietRowsAreCurrent, Quiet
  <2>1. thoughtsListener \in Made /\ thoughtsListener \notin muted
    BY DEF FeedInv, ShowInv
  <2>2. query[thoughtsListener] = QueryOf(selectedCategory)
    BY <2>1 DEF FeedInv, OnlyTheLastIsKept
  <2>3. Rows = Result(query[thoughtsListener])
    BY DEF ShowInv, Coming
  <2> QED
    BY <2>2, <2>3
<1> QED
  BY <1>1, FeedInvariant, ShowInitially, ShowStep, PTL DEF Spec

-----------------------------------------------------------------------------
(* The types of what the two invariants say nothing of.                    *)
StoreTyped ==
    /\ server \in SUBSET Thought
    /\ online \in BOOLEAN
    /\ cache \in SUBSET Thought
    /\ acked \in SUBSET Thought
    /\ synced \in SUBSET Query

LEMMA StoreStep == FeedInv /\ StoreTyped /\ [Next]_vars => StoreTyped'
<1> SUFFICES ASSUME FeedInv, StoreTyped, [Next]_vars PROVE StoreTyped'
  OBVIOUS
<1>1. CASE UNCHANGED <<networkVars, storeVars, synced>>
  BY <1>1 DEF networkVars, storeVars, StoreTyped
<1>2. CASE Worker
  <2>1. ~DoWrite
    <3>1. workQ # <<>> => Head(workQ) \in WorkItems
      BY DEF FeedInv
    <3> QED
      BY <3>1 DEF DoWrite, WorkHead, WorkItems
  <2>2. UNCHANGED <<networkVars, storeVars>> /\ synced' \subseteq synced
    BY <1>2, <2>1 DEF Worker, DoListen, DoUnlisten
  <2> QED
    BY <2>2 DEF networkVars, storeVars, StoreTyped
<1>3. CASE Network
  <2>1. ~Commit /\ ~Acknowledge /\ ~RejectWrite
    BY DEF Commit, Acknowledge, RejectWrite, FeedInv
  <2>2. ASSUME NEW d \in Thought \ Mine, RemoteAdd(d) PROVE StoreTyped'
    BY <2>2 DEF RemoteAdd, storeVars, listenVars, StoreTyped
  <2>3. ASSUME NEW q \in Query, Watch(q) PROVE StoreTyped'
    BY <2>3 DEF Watch, networkVars, StoreTyped
  <2>4. ASSUME NEW q \in Query, RejectListen(q) PROVE StoreTyped'
    BY <2>4 DEF RejectListen, networkVars, storeVars, StoreTyped
  <2>5. ASSUME GoOnline \/ GoOffline PROVE StoreTyped'
    BY <2>5 DEF GoOnline, GoOffline, storeVars, listenVars, StoreTyped
  <2> QED
    BY <1>3, <2>1, <2>2, <2>3, <2>4, <2>5 DEF Network
<1> QED
  BY <1>1, <1>2, <1>3 DEF Next, Main, ClientUnchanged, vars, clientVars, listenVars

(* Type correctness.                                                       *)
THEOREM FeedTypeCorrect == Spec => []TypeOK
<1>1. Init => StoreTyped
  BY DEF Init, ClientInit, StoreTyped
<1>2. FeedInv /\ ShowInv /\ StoreTyped => TypeOK
  <2> SUFFICES ASSUME FeedInv, ShowInv, StoreTyped PROVE TypeOK
    OBVIOUS
  <2>1. Made \subseteq Reg
    BY DEF Made
  <2>2. \A i \in DOMAIN workQ : workQ[i].op \in {"listen", "unlisten", "write"}
    <3>1. \A i \in DOMAIN workQ : workQ[i] \in WorkItems
      BY DEF FeedInv
    <3> QED
      BY <3>1 DEF WorkItems
  <2>3. \A i \in DOMAIN mainQ : mainQ[i].kind \in {"event", "error", "ack"}
    <3>1. \A i \in DOMAIN mainQ : mainQ[i] \in Messages
      BY DEF FeedInv
    <3> QED
      BY <3>1 DEF Messages
  <2>4. /\ muted \in SUBSET Reg /\ registered \in SUBSET Reg
        /\ raised \in SUBSET registered
    BY <2>1 DEF FeedInv, ShowInv
  <2>5. \A i \in DOMAIN outbox : outbox[i].doc \in Thought
    BY DEF FeedInv
  <2> QED
    BY <2>2, <2>3, <2>4, <2>5 DEF TypeOK, ClientTypeOK, FeedTypeOK, FeedInv, StoreTyped
<1> QED
  BY <1>1, <1>2, StoreStep, FeedInvariant, ShowInitially, ShowStep, PTL DEF Spec


-----------------------------------------------------------------------------
(* Towards convergence.  Without writes nothing is unsent or waits for     *)
(* watch, and a listener whose target is CURRENT was told so.              *)
SyncInv ==
    /\ acked = {}
    /\ \A r \in registered : query[r] \in synced => r \in raised

AllInv == FeedInv /\ ShowInv /\ StoreTyped /\ SyncInv

(* Whatever is emitted, every listener of a synced query is told.          *)
LEMMA EmitRaises ==
    ASSUME Emit(<<>>), query' = query
    PROVE  \A r \in registered' : query'[r] \in synced' => r \in raised'
BY DEF Emit, EventDue, InitialDue

LEMMA SyncStep == FeedInv /\ ShowInv /\ SyncInv /\ [Next]_vars => SyncInv'
<1> SUFFICES ASSUME FeedInv, ShowInv, SyncInv, [Next]_vars PROVE SyncInv'
  OBVIOUS
<1>1. ASSUME UNCHANGED listenVars, acked' = acked,
             \A r \in Made : query'[r] = query[r]
      PROVE  SyncInv'
  BY <1>1 DEF listenVars, SyncInv, FeedInv
<1>2. ASSUME NEW q, NEW calls, AddSnapshotListener(q, calls)
      PROVE  \A r \in Made : query'[r] = query[r]
  <2>1. thoughtsListener + 1 \notin Made
    BY DEF FeedInv
  <2> QED
    BY <1>2, <2>1 DEF AddSnapshotListener, NextListener, FeedInv, Made
<1>3. CASE thoughtsListener = 0 /\ ViewWillAppear /\ ClientUnchanged
  BY <1>1, <1>2, <1>3 DEF ViewWillAppear, ClientUnchanged, storeVars
<1>4. CASE User /\ ClientUnchanged
  BY <1>1, <1>2, <1>4 DEF User, CategoryChanged, ClientUnchanged, storeVars
<1>5. CASE Main \/ UNCHANGED vars
  BY <1>1, <1>5 DEF Main, ClientUnchanged, storeVars, apiVars, vars, clientVars
<1>6. CASE Worker /\ UNCHANGED feedVars
  <2>1. ~DoWrite
    <3>1. workQ # <<>> => Head(workQ) \in WorkItems
      BY DEF FeedInv
    <3> QED
      BY <3>1 DEF DoWrite, WorkHead, WorkItems
  <2>2. CASE DoListen
    BY <2>2, EmitRaises DEF DoListen, storeVars, apiVars, SyncInv
  <2>3. CASE DoUnlisten
    BY <2>3 DEF DoUnlisten, storeVars, apiVars, SyncInv
  <2> QED
    BY <1>6, <2>1, <2>2, <2>3 DEF Worker
<1>7. CASE Network /\ UNCHANGED feedVars
  <2>1. ~Commit /\ ~Acknowledge /\ ~RejectWrite
    BY DEF Commit, Acknowledge, RejectWrite, FeedInv
  <2>2. CASE (\E d \in Thought : RemoteAdd(d)) \/ GoOnline
    BY <1>1, <2>2 DEF RemoteAdd, GoOnline, storeVars, apiVars
  <2>3. CASE (\E q \in Query : Watch(q)) \/ GoOffline
    <3>1. Emit(<<>>) /\ query' = query /\ acked' = {}
      BY <2>3 DEF Watch, GoOffline, storeVars, apiVars, SyncInv
    <3> QED
      BY <3>1, EmitRaises DEF SyncInv
  <2>4. CASE \E q \in Query : RejectListen(q)
    BY <2>4 DEF RejectListen, storeVars, apiVars, SyncInv
  <2> QED
    BY <1>7, <2>1, <2>2, <2>3, <2>4 DEF Network
<1> QED
  BY <1>3, <1>4, <1>5, <1>6, <1>7 DEF Next

LEMMA AllInvariant == Spec => []AllInv
<1>1. Init => SyncInv /\ StoreTyped
  BY DEF Init, ClientInit, SyncInv, StoreTyped
<1>2. AllInv <=> FeedInv /\ ShowInv /\ StoreTyped /\ SyncInv
  BY DEF AllInv
<1> QED
  BY <1>1, <1>2, SyncStep, StoreStep, FeedInvariant, ShowInitially, ShowStep, PTL DEF Spec

-----------------------------------------------------------------------------
(* What can happen while the user does nothing and the connection holds.   *)
Listening == thoughtsListener # 0

LEMMA CalmStep ==
    ASSUME AllInv, Listening, [Next]_vars, [~User]_vars, online'
    PROVE  \/ UNCHANGED vars
           \/ Main
           \/ Worker /\ UNCHANGED feedVars
           \/ (\E d \in Thought : RemoteAdd(d)) /\ UNCHANGED feedVars
           \/ (\E q \in Query : Watch(q) \/ RejectListen(q)) /\ UNCHANGED feedVars
           \/ GoOnline /\ UNCHANGED feedVars
<1>1. ~Commit /\ ~Acknowledge /\ ~RejectWrite /\ ~GoOffline
  BY DEF Commit, Acknowledge, RejectWrite, GoOffline, AllInv, FeedInv
<1> QED
  BY <1>1 DEF Next, Network, Listening

LEMMA CalmKeeps ==
    ASSUME AllInv, Listening, [Next]_vars, [~User]_vars, online'
    PROVE  /\ UNCHANGED <<thoughtsListener, selectedCategory, query>>
           /\ workQ = <<>> => workQ' = <<>>
           /\ workQ = <<>> => registered' \subseteq registered
           /\ workQ' # workQ => workQ # <<>> /\ workQ' = Tail(workQ)
BY CalmStep DEF Main, OnSnapshot, OnListenError, ClientUnchanged, Worker, DoListen,
   DoUnlisten, DoWrite, WorkHead, RemoteAdd, Watch, RejectListen, GoOnline, feedVars,
   apiVars, listenVars, queueVars, vars, clientVars

(* The worker queue is empty, and the last listener is there, or it was    *)
(* refused and is gone for good.                                           *)
Idle == Listening /\ workQ = <<>>

Gone == Idle /\ thoughtsListener \notin registered

On(q) == Idle /\ thoughtsListener \in registered /\ q = QueryOf(selectedCategory)

\* The local store has what the backend has for q, and q is CURRENT.
UpToDate(q) == q \in synced /\ cache \cap Match(q) = server \cap Match(q)

Fresh(q) == On(q) /\ UpToDate(q)

\* No snapshot for the last listener is beyond the n-th place.
Within(q, n) ==
    Fresh(q) /\ \A i \in DOMAIN mainQ : IsEventOf(mainQ[i], thoughtsListener) => i <= n

SameServer == UNCHANGED server

LEMMA IdleStays ==
    ASSUME AllInv, [Next]_vars, [~User]_vars, online'
    PROVE  /\ Listening => Listening'
           /\ Idle => Idle'
           /\ Gone => Gone'
           /\ \A q : On(q) => On(q)' \/ Gone'
BY CalmKeeps DEF Listening, Idle, Gone, On

LEMMA QueryOfListener ==
    ASSUME AllInv, NEW q, On(q)
    PROVE  /\ thoughtsListener \in Made /\ query[thoughtsListener] = q
           /\ q \in Listened
BY DEF AllInv, On, FeedInv, ShowInv, OnlyTheLastIsKept, Listened

(* A watch of the query makes it up to date.                               *)
LEMMA WatchFreshens ==
    ASSUME AllInv, NEW q, On(q), Watch(q), UNCHANGED feedVars
    PROVE  Fresh(q)'
<1>1. /\ UNCHANGED <<server, registered, workQ, thoughtsListener, selectedCategory>>
      /\ q \in synced'
      /\ cache' = (cache \ Match(q)) \cup (server \cap Match(q))
  BY DEF Watch, networkVars, feedVars
<1>2. cache' \cap Match(q)' = server' \cap Match(q)'
  BY <1>1 DEF Match
<1> QED
  BY <1>1, <1>2 DEF Fresh, On, Idle, Listening, UpToDate

(* Once it is up to date, and the backend's thoughts do not change, it     *)
(* stays so, unless the listener is refused: another query's watch brings  *)
(* the same documents.                                                     *)
LEMMA FreshStays ==
    ASSUME AllInv, NEW q, Fresh(q), [Next]_vars, [~User]_vars, online',
           [SameServer]_vars
    PROVE  (Fresh(q)' /\ cache' \cap Match(q) = cache \cap Match(q)) \/ Gone'
<1>0. Listening /\ (On(q)' \/ Gone') /\ workQ = <<>>
  BY IdleStays DEF Fresh, On, Idle
<1>1. server' = server
  BY DEF SameServer, vars, clientVars, networkVars
<1>2. Match(q)' = Match(q)
  BY DEF Match
<1>3. CASE UNCHANGED <<cache, synced>>
  BY <1>0, <1>1, <1>2, <1>3 DEF Fresh, UpToDate
<1>4. ASSUME NEW p \in Query, Watch(p) PROVE Fresh(q)' \/ Gone'
  <2>1. q \in synced' /\ cache' = (cache \ Match(p)) \cup (server \cap Match(p))
    BY <1>4 DEF Watch, Fresh, UpToDate
  <2>2. cache' \cap Match(q) = server \cap Match(q)
    BY <2>1 DEF Fresh, UpToDate
  <2> QED
    BY <1>0, <1>1, <1>2, <2>1, <2>2 DEF Fresh, UpToDate
<1>5. ASSUME NEW p \in Query, RejectListen(p) PROVE Fresh(q)' \/ Gone'
  <2>1. CASE p = q
    <3>1. thoughtsListener \notin registered'
      BY <1>5, <2>1, QueryOfListener DEF RejectListen, Fresh
    <3>2. thoughtsListener' = thoughtsListener
      BY <1>0, CalmKeeps
    <3> QED
      BY <1>0, <3>1, <3>2 DEF On
  <2>2. CASE p # q
    BY <1>0, <1>1, <1>2, <1>5, <2>2 DEF RejectListen, storeVars, Fresh, UpToDate
  <2> QED
    BY <2>1, <2>2
<1>6. Fresh(q)' \/ Gone'
  BY <1>0, <1>3, <1>4, <1>5, CalmStep
     DEF Main, ClientUnchanged, storeVars, listenVars, RemoteAdd, GoOnline, Worker,
         DoListen, DoUnlisten, DoWrite, WorkHead, vars, clientVars
<1>7. Fresh(q)' => cache' \cap Match(q) = cache \cap Match(q)
  BY <1>1, <1>2 DEF Fresh, UpToDate
<1> QED
  BY <1>6, <1>7

(* Without own writes a view is its documents, all confirmed.              *)
LEMMA PlainResult ==
    ASSUME outbox = <<>>, acked = {}, NEW q
    PROVE  Unsent = {} /\ Result(q) = cache \cap Match(q)
<1>1. Unsent = {}
  BY DEF Unsent
<1> QED
  BY <1>1 DEF Result, LocalDocs

LEMMA PlainView ==
    ASSUME outbox = <<>>, acked = {}, NEW q
    PROVE  View(q) = {<<d, TRUE>> : d \in cache \cap Match(q)}
<1>1. Unsent = {} /\ Result(q) = cache \cap Match(q)
  BY PlainResult
<1>2. \A d \in cache \cap Match(q) : (d \in cache \ Unsent) = TRUE
  BY <1>1
<1>3. View(q) = {<<d, d \in cache \ Unsent>> : d \in cache \cap Match(q)}
  BY <1>1 DEF View
<1> QED
  BY <1>2, <1>3


(* What is sent to a listener that is up to date is nothing.               *)
LEMMA EmitSparesFresh ==
    ASSUME AllInv, NEW q, Fresh(q), Emit(<<>>), registered' \subseteq registered,
           UNCHANGED <<query, outbox, thoughtsListener>>, acked' = {},
           cache' \cap Match(q) = cache \cap Match(q)
    PROVE  \E e \in Seq(Messages) :
              /\ mainQ' = mainQ \o e
              /\ \A i \in DOMAIN e : ~IsEventOf(e[i], thoughtsListener)
<1> DEFINE L == thoughtsListener
<1>1. PICK order \in SetToSeqs(Due) :
         /\ Events(order) \in Seq(Messages)
         /\ mainQ' = mainQ \o Events(order)
  BY EmittedEvents DEF AllInv, FeedInv
<1>2. L \in Made /\ query[L] = q /\ L \in registered /\ q \in synced
  BY QueryOfListener DEF Fresh, On, UpToDate
<1>3. L \in raised
  BY <1>2 DEF AllInv, SyncInv
<1>4. View(q)' = View(q)
  <2>1. outbox = <<>> /\ acked = {} /\ Match(q)' = Match(q)
    BY DEF AllInv, FeedInv, SyncInv, Match
  <2>2. View(q) = {<<d, TRUE>> : d \in cache \cap Match(q)}
    BY <2>1, PlainView
  <2>3. View(q)' = {<<d, TRUE>> : d \in cache' \cap Match(q)}
    <3>1. /\ Unsent' = {} /\ LocalDocs' = cache' /\ Result(q)' = cache' \cap Match(q)
      BY <2>1 DEF Unsent, LocalDocs, Result
    <3>2. \A d \in cache' \cap Match(q) : (d \in cache' \ Unsent') = TRUE
      BY <3>1
    <3>3. View(q)' = {<<d, d \in cache' \ Unsent'>> : d \in cache' \cap Match(q)}
      BY <3>1 DEF View
    <3> QED
      BY <3>2, <3>3
  <2> QED
    BY <2>2, <2>3
<1>5. L \notin Due
  BY <1>2, <1>3, <1>4 DEF Due, EventDue
<1>6. Due \in SUBSET Reg
  BY DEF Due, AllInv, FeedInv, Made
<1>7. \A i \in DOMAIN order : order[i] \in Due
  BY <1>1, <1>6, Enumeration
<1>8. \A i \in DOMAIN Events(order) : ~IsEventOf(Events(order)[i], L)
  BY <1>5, <1>7 DEF Events, Event, IsEventOf
<1> QED
  BY <1>1, <1>8

(* Nothing but the failures of other queries is added either.              *)
LEMMA FailuresSpare ==
    ASSUME AllInv, NEW p \in Query, RejectListen(p)
    PROVE  \E e \in Seq(Messages) :
              /\ mainQ' = mainQ \o e
              /\ \A i \in DOMAIN e : ~IsEventOf(e[i], thoughtsListener)
<1> DEFINE failed == {r \in registered : query[r] = p}
<1>1. PICK order \in SetToSeqs(failed) :
         mainQ' = mainQ \o [i \in DOMAIN order |-> Failure(order[i])]
  BY DEF RejectListen
<1> DEFINE failures == [i \in DOMAIN order |-> Failure(order[i])]
<1>2. failed \in SUBSET Reg
  BY DEF AllInv, FeedInv, Made
<1>3. /\ DOMAIN order = 1 .. Len(order) /\ Len(order) \in Nat
      /\ \A i \in DOMAIN order : order[i] \in Reg
  BY <1>1, <1>2, Enumeration
<1>4. \A i \in DOMAIN order : Failure(order[i]) \in Messages
  BY <1>3 DEF Failure, Messages
<1>5. failures \in [1 .. Len(order) -> Messages]
  BY <1>3, <1>4
<1>6. failures \in Seq(Messages)
  BY <1>3, <1>5, MappedSequence
<1>7. \A i \in DOMAIN failures : ~IsEventOf(failures[i], thoughtsListener)
  BY <1>3 DEF Failure, IsEventOf
<1> QED
  BY <1>1, <1>6, <1>7

LEMMA PlacesKept ==
    ASSUME NEW M, NEW q \in Seq(M), NEW e \in Seq(M), NEW r, NEW n \in Nat,
           \A i \in DOMAIN q : IsEventOf(q[i], r) => i <= n,
           \A i \in DOMAIN e : ~IsEventOf(e[i], r)
    PROVE  \A i \in DOMAIN (q \o e) : IsEventOf((q \o e)[i], r) => i <= n
<1> DEFINE qe == q \o e
<1>1. /\ Len(q) \in Nat /\ DOMAIN q = 1 .. Len(q)
      /\ Len(e) \in Nat /\ DOMAIN e = 1 .. Len(e)
      /\ DOMAIN qe = 1 .. Len(q) + Len(e)
      /\ \A i \in 1 .. Len(q) : qe[i] = q[i]
      /\ \A i \in 1 .. Len(e) : qe[Len(q) + i] = e[i]
  OBVIOUS
<1> HIDE DEF qe
<1>2. ASSUME NEW i \in DOMAIN qe, IsEventOf(qe[i], r) PROVE i <= n
  <2>1. CASE i <= Len(q)
    BY <1>1, <1>2, <2>1
  <2>2. CASE ~(i <= Len(q))
    <3>1. i - Len(q) \in 1 .. Len(e) /\ i = Len(q) + (i - Len(q))
      BY <1>1, <2>2
    <3> QED
      BY <1>1, <1>2, <3>1
  <2> QED
    BY <2>1, <2>2
<1> QED
  BY <1>2 DEF qe

LEMMA PlacesMoveUp ==
    ASSUME NEW M, NEW q \in Seq(M), q # <<>>, NEW r, NEW n \in Nat,
           \A i \in DOMAIN q : IsEventOf(q[i], r) => i <= n + 1
    PROVE  \A i \in DOMAIN Tail(q) : IsEventOf(Tail(q)[i], r) => i <= n
<1> DEFINE t == Tail(q)
<1>1. /\ Len(q) \in Nat \ {0} /\ DOMAIN q = 1 .. Len(q)
      /\ DOMAIN t = 1 .. Len(q) - 1
      /\ \A i \in 1 .. Len(q) - 1 : t[i] = q[i + 1]
  OBVIOUS
<1> HIDE DEF t
<1>2. \A i \in DOMAIN t : IsEventOf(t[i], r) => i <= n
  BY <1>1
<1> QED
  BY <1>2 DEF t

(* The places of the last listener's snapshots: with each callback they    *)
(* move up, and no step adds one.                                          *)
LEMMA WithinMoves ==
    ASSUME AllInv, NEW q, NEW n \in Nat, Within(q, n), [Next]_vars, [~User]_vars, online',
           [SameServer]_vars
    PROVE  Within(q, n)' \/ Gone'
<1>1. Fresh(q) /\ Listening /\ workQ = <<>>
  BY DEF Within, Fresh, On, Idle
<1>2. CASE Gone'
  BY <1>2
<1>3. CASE Fresh(q)' /\ cache' \cap Match(q) = cache \cap Match(q)
  <2>0. thoughtsListener' = thoughtsListener /\ query' = query
    BY <1>1, CalmKeeps
  <2>1. mainQ \in Seq(Messages) /\ AllInv'
    <3>1. AllInv'
      BY SyncStep, StoreStep, ShowStep, FeedStep DEF AllInv
    <3> QED
      BY <3>1 DEF AllInv, FeedInv
  <2>2. outbox' = outbox /\ acked' = {}
    BY <2>1 DEF AllInv, FeedInv, SyncInv
  <2>3. ASSUME NEW e \in Seq(Messages), mainQ' = mainQ \o e,
               \A i \in DOMAIN e : ~IsEventOf(e[i], thoughtsListener)
        PROVE  Within(q, n)'
    <3>1. \A i \in DOMAIN mainQ : IsEventOf(mainQ[i], thoughtsListener) => i <= n
      BY DEF Within
    <3>2. \A i \in DOMAIN mainQ' : IsEventOf(mainQ'[i], thoughtsListener) => i <= n
      BY <2>1, <2>3, <3>1, PlacesKept
    <3> QED
      BY <1>3, <2>0, <3>2 DEF Within
  <2>4. CASE mainQ' = mainQ
    BY <1>3, <2>0, <2>4 DEF Within
  <2>5. CASE Main
    <3>1. mainQ # <<>> /\ mainQ' = Tail(mainQ)
      BY <2>5 DEF Main, OnSnapshot, OnListenError, MainHead
    <3>2. \A i \in DOMAIN mainQ : IsEventOf(mainQ[i], thoughtsListener) => i <= n + 1
      BY <2>1 DEF Within
    <3>3. \A i \in DOMAIN mainQ' : IsEventOf(mainQ'[i], thoughtsListener) => i <= n
      BY <2>1, <3>1, <3>2, PlacesMoveUp
    <3> QED
      BY <1>3, <2>0, <3>3 DEF Within
  <2>6. ASSUME NEW p \in Query, Watch(p) PROVE Within(q, n)'
    <3>1. Emit(<<>>) /\ registered' = registered
      BY <2>6 DEF Watch
    <3>2. \E e \in Seq(Messages) :
             /\ mainQ' = mainQ \o e
             /\ \A i \in DOMAIN e : ~IsEventOf(e[i], thoughtsListener)
      BY <1>1, <1>3, <2>0, <2>2, <3>1, EmitSparesFresh
    <3> QED
      BY <2>3, <3>2
  <2>7. ASSUME NEW p \in Query, RejectListen(p) PROVE Within(q, n)'
    BY <2>3, <2>7, FailuresSpare
  <2> QED
    BY <1>1, <2>4, <2>5, <2>6, <2>7, CalmStep
       DEF Worker, DoListen, DoUnlisten, DoWrite, WorkHead, RemoteAdd, GoOnline,
           queueVars, vars, clientVars
<1> QED
  BY <1>1, <1>2, <1>3, FreshStays

LEMMA WithinComesNearer ==
    ASSUME AllInv, NEW q, NEW n \in Nat, Within(q, n + 1), Main
    PROVE  Within(q, n)'
<1>1. mainQ # <<>> /\ mainQ' = Tail(mainQ) /\ mainQ \in Seq(Messages)
  BY DEF Main, OnSnapshot, OnListenError, MainHead, AllInv, FeedInv
<1>2. UNCHANGED <<networkVars, storeVars, listenVars, workQ, thoughtsListener,
                  selectedCategory>>
  BY DEF Main, OnSnapshot, OnListenError, ClientUnchanged, feedVars
<1>3. Fresh(q)'
  BY <1>2 DEF Within, Fresh, On, Idle, Listening, UpToDate, Match, networkVars, storeVars,
              listenVars
<1>4. \A i \in DOMAIN mainQ' : IsEventOf(mainQ'[i], thoughtsListener) => i <= n
  BY <1>1, PlacesMoveUp DEF Within
<1> QED
  BY <1>2, <1>3, <1>4 DEF Within

(* What the user is to see in the end.                                     *)
Goal ==
    \/ Rows = server \cap Match(QueryOf(selectedCategory))
    \/ thoughtsListener \notin registered

LEMMA NoneLeftIsShown ==
    ASSUME AllInv, NEW q, Within(q, 0)
    PROVE  Goal
<1>1. On(q) /\ UpToDate(q) /\ thoughtsListener \in registered
  BY DEF Within, Fresh, On
<1>2. query[thoughtsListener] = q /\ q = QueryOf(selectedCategory)
  BY <1>1, QueryOfListener DEF On
<1>3. thoughtsListener \in raised
  BY <1>1, <1>2 DEF AllInv, SyncInv, UpToDate
<1>4. Coming(mainQ, thoughtsListener, Rows, Result(q))
  BY <1>2, <1>3 DEF AllInv, ShowInv
<1>5. \A i \in DOMAIN mainQ : ~IsEventOf(mainQ[i], thoughtsListener)
  <2>1. mainQ \in Seq(Messages)
    BY DEF AllInv, FeedInv
  <2>2. \A i \in DOMAIN mainQ : i \in Nat /\ i >= 1
    BY <2>1
  <2> QED
    BY <2>2 DEF Within
<1>6. Rows = Result(q)
  BY <1>4, <1>5 DEF Coming
<1>7. Result(q) = cache \cap Match(q)
  BY PlainResult DEF AllInv, FeedInv, SyncInv
<1> QED
  BY <1>1, <1>2, <1>6, <1>7 DEF Goal, UpToDate


-----------------------------------------------------------------------------
WorkerStep == Worker /\ UNCHANGED feedVars

WatchStep(q) == Watch(q) /\ UNCHANGED feedVars

Watched(q) == WF_vars(WatchStep(q))

(* What the fairness needs: that a queue that is not empty can be served,  *)
(* and that the watch of a listened query that is not up to date can come. *)
(* ENABLED is not expanded by the provers, so this is a hypothesis below.  *)
StepsCanRun ==
    /\ mainQ # <<>> => ENABLED <<Main>>_vars
    /\ workQ # <<>> => ENABLED <<WorkerStep>>_vars
    /\ \A q \in Query :
          online /\ q \in Listened /\ ~UpToDate(q) => ENABLED <<WatchStep(q)>>_vars

(* The fairness of the watches, query by query: the provers know of a WF   *)
(* that it holds ever after, not of a quantified one.                      *)
AllWatched ==
    /\ Watched("Funny") /\ Watched("Serious")
    /\ Watched("Crazy") /\ Watched("Popular") /\ Watched("All")

LEMMA QueriesNamed == Query = {"Funny", "Serious", "Crazy", "Popular", "All"}
BY DEF Query, Categories

LEMMA FairToEach == Fairness => AllWatched
<1>1. Fairness => \A q \in Query : Refreshes(q)
  BY PTL DEF Fairness
<1>2. Fairness => /\ Refreshes("Funny") /\ Refreshes("Serious")
                  /\ Refreshes("Crazy") /\ Refreshes("Popular") /\ Refreshes("All")
  <2> HIDE DEF Fairness, Refreshes
  <2> QED
    BY <1>1, QueriesNamed
<1> QED
  BY <1>2, PTL DEF AllWatched, Watched, WatchStep, Refreshes

LEMMA EachIsWatched ==
    ASSUME NEW q \in Query
    PROVE  AllWatched => Watched(q)
<1> HIDE DEF Watched
<1> QED
  BY QueriesNamed DEF AllWatched

\* The user has settled and the connection holds, from now on.
Calm ==
    /\ [][Next]_vars /\ []AllInv /\ []StepsCanRun
    /\ WF_vars(Main) /\ WF_vars(WorkerStep) /\ AllWatched
    /\ [][~User]_vars /\ []online

WorkWithin(n) == Listening /\ Len(workQ) <= n

Drains(n) == WorkWithin(n) ~> Idle

Shows(q, n) == [][SameServer]_vars => (Within(q, n) ~> Within(q, 0) \/ Gone)

Arrives(q, n) == Drains(n) /\ Shows(q, n)

LEMMA WorkGetsLess ==
    ASSUME AllInv, NEW n \in Nat, WorkWithin(n + 1), [Next]_vars, [~User]_vars, online'
    PROVE  WorkWithin(n + 1)' /\ (workQ' # workQ => WorkWithin(n)')
<1>1. workQ \in Seq(WorkItems) /\ Listening' /\ Listening
  BY IdleStays DEF AllInv, FeedInv, WorkWithin
<1>2. CASE workQ' = workQ
  BY <1>1, <1>2 DEF WorkWithin
<1>3. CASE workQ' # workQ
  <2>1. workQ # <<>> /\ workQ' = Tail(workQ)
    BY <1>1, <1>3, CalmKeeps
  <2>2. Len(workQ') = Len(workQ) - 1 /\ Len(workQ) \in Nat
    BY <1>1, <2>1
  <2> QED
    BY <1>1, <2>2 DEF WorkWithin
<1> QED
  BY <1>2, <1>3

LEMMA WorkerTakes ==
    ASSUME AllInv, WorkerStep
    PROVE  workQ' # workQ
<1>1. workQ # <<>> /\ workQ' = Tail(workQ) /\ workQ \in Seq(WorkItems)
  BY DEF WorkerStep, Worker, DoListen, DoUnlisten, DoWrite, WorkHead, AllInv, FeedInv
<1>2. Len(workQ') = Len(workQ) - 1 /\ Len(workQ) \in Nat
  BY <1>1
<1> QED
  BY <1>2

LEMMA ArrivesAtZero ==
    ASSUME NEW q \in Query
    PROVE  Calm => Arrives(q, 0)
<1>1. AllInv /\ WorkWithin(0) => Idle
  BY DEF AllInv, FeedInv, WorkWithin, Idle
<1> QED
  BY <1>1, PTL DEF Calm, Arrives, Drains, Shows

LEMMA ArrivesFromOneMore ==
    ASSUME NEW q \in Query, NEW n \in Nat
    PROVE  Calm => (Arrives(q, n) => Arrives(q, n + 1))
<1> DEFINE k == n + 1
<1>1. AllInv /\ WorkWithin(k) /\ [Next]_vars /\ [~User]_vars /\ online' => WorkWithin(k)'
  BY WorkGetsLess
<1>2. AllInv /\ WorkWithin(k) /\ [Next]_vars /\ [~User]_vars /\ online'
        /\ <<WorkerStep>>_vars => WorkWithin(n)'
  BY WorkGetsLess, WorkerTakes
<1>3. WorkWithin(k) => Idle \/ workQ # <<>>
  BY DEF WorkWithin, Idle
<1>4. StepsCanRun => /\ workQ # <<>> => ENABLED <<WorkerStep>>_vars
                     /\ mainQ # <<>> => ENABLED <<Main>>_vars
  BY DEF StepsCanRun
<1>6. AllInv /\ Within(q, k) /\ [Next]_vars /\ [~User]_vars /\ online' /\ [SameServer]_vars =>
         Within(q, k)' \/ Gone'
  BY WithinMoves
<1>7. AllInv /\ Within(q, k) /\ <<Main>>_vars => Within(q, n)'
  BY WithinComesNearer
<1>8. Within(q, k) => Within(q, 0) \/ mainQ # <<>>
  BY DEF Within
<1> HIDE DEF k
<1>9. Calm => (Drains(n) => Drains(k))
  BY <1>1, <1>2, <1>3, <1>4, PTL DEF Calm, Drains
<1>10. Calm => (Shows(q, n) => Shows(q, k))
  BY <1>4, <1>6, <1>7, <1>8, PTL DEF Calm, Shows
<1>11. Calm => (Arrives(q, n) => Arrives(q, k))
  BY <1>9, <1>10, PTL DEF Arrives
<1> QED
  BY <1>11 DEF k

(* What arrives from n places arrives from k more, and two such steps make *)
(* one of k + k: the provers have no induction over formulas of temporal   *)
(* logic, but sixteen doublings reach 65536 places.                        *)
ArrivesFrom(q, k) == \A n \in Nat : Calm => (Arrives(q, n) => Arrives(q, n + k))

LEMMA ArrivesTwice ==
    ASSUME NEW q \in Query, NEW k \in Nat, ArrivesFrom(q, k)
    PROVE  ArrivesFrom(q, k + k)
<1> SUFFICES ASSUME NEW n \in Nat
             PROVE  Calm => (Arrives(q, n) => Arrives(q, n + (k + k)))
  BY DEF ArrivesFrom
<1>1. Calm => (Arrives(q, n) => Arrives(q, n + k))
  BY DEF ArrivesFrom
<1>2. Calm => (Arrives(q, n + k) => Arrives(q, (n + k) + k))
  BY DEF ArrivesFrom
<1>3. (n + k) + k = n + (k + k)
  OBVIOUS
<1> HIDE DEF Calm, Arrives
<1> QED
  BY <1>1, <1>2, <1>3

\* How many places the proof reaches; any power of two would do.
Most == 65536

LEMMA ArrivesMost ==
    ASSUME NEW q \in Query
    PROVE  Calm => Arrives(q, Most)
<1> HIDE DEF Calm, Arrives, ArrivesFrom
<1>0. ArrivesFrom(q, 1)
  BY ArrivesFromOneMore DEF ArrivesFrom
<1>1. ArrivesFrom(q, 2)
  BY <1>0, ArrivesTwice, 1 + 1 = 2
<1>2. ArrivesFrom(q, 4)
  BY <1>1, ArrivesTwice, 2 + 2 = 4
<1>3. ArrivesFrom(q, 8)
  BY <1>2, ArrivesTwice, 4 + 4 = 8
<1>4. ArrivesFrom(q, 16)
  BY <1>3, ArrivesTwice, 8 + 8 = 16
<1>5. ArrivesFrom(q, 32)
  BY <1>4, ArrivesTwice, 16 + 16 = 32
<1>6. ArrivesFrom(q, 64)
  BY <1>5, ArrivesTwice, 32 + 32 = 64
<1>7. ArrivesFrom(q, 128)
  BY <1>6, ArrivesTwice, 64 + 64 = 128
<1>8. ArrivesFrom(q, 256)
  BY <1>7, ArrivesTwice, 128 + 128 = 256
<1>9. ArrivesFrom(q, 512)
  BY <1>8, ArrivesTwice, 256 + 256 = 512
<1>10. ArrivesFrom(q, 1024)
  BY <1>9, ArrivesTwice, 512 + 512 = 1024
<1>11. ArrivesFrom(q, 2048)
  BY <1>10, ArrivesTwice, 1024 + 1024 = 2048
<1>12. ArrivesFrom(q, 4096)
  BY <1>11, ArrivesTwice, 2048 + 2048 = 4096
<1>13. ArrivesFrom(q, 8192)
  BY <1>12, ArrivesTwice, 4096 + 4096 = 8192
<1>14. ArrivesFrom(q, 16384)
  BY <1>13, ArrivesTwice, 8192 + 8192 = 16384
<1>15. ArrivesFrom(q, 32768)
  BY <1>14, ArrivesTwice, 16384 + 16384 = 32768
<1>16. ArrivesFrom(q, 65536)
  BY <1>15, ArrivesTwice, 32768 + 32768 = 65536
<1>17. Calm => (Arrives(q, 0) => Arrives(q, 0 + 65536))
  BY <1>16 DEF ArrivesFrom
<1> QED
  BY <1>17, ArrivesAtZero, 0 + 65536 = Most DEF Most

-----------------------------------------------------------------------------
(* No listener is told the same twice, so the main queue is bounded.       *)

\* n comes after m on the main queue.
TellsMore(m, n) ==
    m.reg = n.reg =>
        /\ m.kind = "event"
        /\ n.kind = "event" => m.docs \subseteq n.docs /\ m.docs # n.docs

Growing(q) == \A i, j \in DOMAIN q : i < j => TellsMore(q[i], q[j])

\* What is on its way is older than what the store has now.
ToldLess ==
    \A r \in registered : \A i \in DOMAIN mainQ :
        mainQ[i].reg = r => /\ mainQ[i].kind = "event" /\ r \in raised
                            /\ mainQ[i].docs \subseteq Result(query[r])

Told ==
    /\ cache \subseteq server
    /\ \A i \in DOMAIN mainQ : mainQ[i].reg \in Made
    /\ ToldLess
    /\ Growing(mainQ)

IsListen(w) == w.op = "listen"

ListensOnce(q) == \A k, l \in DOMAIN q : k < l /\ IsListen(q[k]) => q[l] # q[k]

\* A listener that waits on the worker queue has heard nothing.
WaitsUntold ==
    \A k \in DOMAIN workQ : IsListen(workQ[k]) =>
        /\ workQ[k].reg \notin registered
        /\ \A i \in DOMAIN mainQ : mainQ[i].reg # workQ[k].reg

Waits ==
    /\ WaitsUntold
    /\ ListensOnce(workQ)
    /\ Len(workQ) <= 2 * thoughtsListener

LEMMA JoinParts ==
    ASSUME NEW M, NEW q \in Seq(M), NEW e \in Seq(M)
    PROVE  \A i \in DOMAIN (q \o e) :
              \/ i \in DOMAIN q /\ (q \o e)[i] = q[i]
              \/ \E j \in DOMAIN e : i = Len(q) + j /\ (q \o e)[i] = e[j]
<1> DEFINE qe == q \o e
<1>1. /\ Len(q) \in Nat /\ DOMAIN q = 1 .. Len(q)
      /\ Len(e) \in Nat /\ DOMAIN e = 1 .. Len(e)
      /\ DOMAIN qe = 1 .. Len(q) + Len(e)
      /\ \A i \in 1 .. Len(q) : qe[i] = q[i]
      /\ \A i \in 1 .. Len(e) : qe[Len(q) + i] = e[i]
  OBVIOUS
<1> HIDE DEF qe
<1>2. ASSUME NEW i \in DOMAIN qe, i \notin DOMAIN q
      PROVE  \E j \in DOMAIN e : i = Len(q) + j /\ qe[i] = e[j]
  <2>1. i - Len(q) \in 1 .. Len(e) /\ i = Len(q) + (i - Len(q))
    BY <1>1, <1>2
  <2> QED
    BY <1>1, <2>1
<1>3. \A i \in DOMAIN qe : \/ i \in DOMAIN q /\ qe[i] = q[i]
                           \/ \E j \in DOMAIN e : i = Len(q) + j /\ qe[i] = e[j]
  BY <1>1, <1>2
<1> QED
  BY <1>3 DEF qe

LEMMA JoinElements ==
    ASSUME NEW M, NEW q \in Seq(M), NEW e \in Seq(M), NEW s, s = q \o e
    PROVE  \A i \in DOMAIN s : \/ \E j \in DOMAIN q : s[i] = q[j]
                              \/ \E j \in DOMAIN e : s[i] = e[j]
BY JoinParts

LEMMA TailParts ==
    ASSUME NEW M, NEW q \in Seq(M), q # <<>>
    PROVE  \A i \in DOMAIN Tail(q) :
              /\ i + 1 \in DOMAIN q /\ Tail(q)[i] = q[i + 1]
              /\ i \in Nat /\ 1 < i + 1
OBVIOUS

LEMMA GrowsOn ==
    ASSUME NEW M, NEW q \in Seq(M), NEW e \in Seq(M), Growing(q), Growing(e),
           \A i \in DOMAIN q, j \in DOMAIN e : TellsMore(q[i], e[j])
    PROVE  Growing(q \o e)
<1> DEFINE qe == q \o e
<1>1. Len(q) \in Nat /\ DOMAIN q = 1 .. Len(q) /\ DOMAIN e = 1 .. Len(e) /\ Len(e) \in Nat
  OBVIOUS
<1>2. \A i \in DOMAIN qe : \/ i \in DOMAIN q /\ qe[i] = q[i]
                           \/ \E j \in DOMAIN e : i = Len(q) + j /\ qe[i] = e[j]
  BY JoinParts
<1> HIDE DEF qe
<1>3. ASSUME NEW i \in DOMAIN qe, NEW j \in DOMAIN qe, i < j
      PROVE  TellsMore(qe[i], qe[j])
  <2>1. CASE j \in DOMAIN q /\ qe[j] = q[j]
    <3>1. i \in DOMAIN q /\ qe[i] = q[i]
      BY <1>1, <1>2, <1>3, <2>1
    <3> QED
      BY <1>3, <2>1, <3>1 DEF Growing
  <2>2. ASSUME NEW l \in DOMAIN e, j = Len(q) + l, qe[j] = e[l]
        PROVE  TellsMore(qe[i], qe[j])
    <3>1. CASE i \in DOMAIN q /\ qe[i] = q[i]
      BY <2>2, <3>1
    <3>2. ASSUME NEW k \in DOMAIN e, i = Len(q) + k, qe[i] = e[k]
          PROVE  TellsMore(qe[i], qe[j])
      <4>1. k < l
        BY <1>1, <1>3, <2>2, <3>2
      <4> QED
        BY <2>2, <3>2, <4>1 DEF Growing
    <3> QED
      BY <1>2, <3>1, <3>2
  <2> QED
    BY <1>2, <2>1, <2>2
<1> QED
  BY <1>3 DEF Growing, qe

LEMMA GrowsLess ==
    ASSUME NEW M, NEW q \in Seq(M), q # <<>>, Growing(q)
    PROVE  Growing(Tail(q))
<1> DEFINE t == Tail(q)
<1>1. \A i \in DOMAIN t : i + 1 \in DOMAIN q /\ t[i] = q[i + 1] /\ i \in Nat
  BY TailParts
<1> HIDE DEF t
<1>2. ASSUME NEW i \in DOMAIN t, NEW j \in DOMAIN t, i < j
      PROVE  TellsMore(t[i], t[j])
  <2>1. i + 1 < j + 1 /\ i + 1 \in DOMAIN q /\ j + 1 \in DOMAIN q
    BY <1>1, <1>2
  <2> QED
    BY <1>1, <2>1 DEF Growing
<1> QED
  BY <1>2 DEF Growing, t

(* One message for each of different listeners.                            *)
LEMMA OneEach ==
    ASSUME NEW S \in SUBSET Reg, NEW order \in SetToSeqs(S), NEW e,
           DOMAIN e = DOMAIN order, \A i \in DOMAIN order : e[i].reg = order[i]
    PROVE  Growing(e)
<1>1. \A i, j \in DOMAIN order : i # j => order[i] # order[j]
  BY DEF SetToSeqs
<1>2. DOMAIN order = 1 .. Len(order) /\ Len(order) \in Nat
  BY Enumeration
<1>3. \A i, j \in DOMAIN order : i < j => order[i] # order[j]
  BY <1>1, <1>2
<1> QED
  BY <1>3 DEF Growing, TellsMore

\* The store only gains documents, and is never overlaid.
Gains ==
    /\ acked = {} /\ acked' = {} /\ outbox' = outbox /\ query' = query
    /\ cache \subseteq cache' /\ cache' \subseteq server'

LEMMA GainedResult ==
    ASSUME FeedInv, Gains, NEW q
    PROVE  /\ Result(q) = cache \cap Match(q)
           /\ Result(q)' = cache' \cap Match(q)
           /\ View(q)' # View(q) => Result(q)' # Result(q)
<1>1. outbox = <<>> /\ outbox' = <<>>
  BY DEF FeedInv, Gains
<1>2. Unsent = {} /\ Unsent' = {}
  BY <1>1 DEF Unsent
<1>3. LocalDocs = cache /\ LocalDocs' = cache' /\ Match(q)' = Match(q)
  BY <1>2 DEF LocalDocs, Gains, Match
<1>4. Result(q) = cache \cap Match(q) /\ Result(q)' = cache' \cap Match(q)
  BY <1>3 DEF Result
<1>5. View(q) = {<<d, TRUE>> : d \in Result(q)}
  BY <1>1, <1>4, PlainView DEF Gains
<1>6. View(q)' = {<<d, TRUE>> : d \in Result(q)'}
  <2>1. \A d \in Result(q)' : (d \in cache' \ Unsent') = TRUE
    BY <1>2, <1>4
  <2>2. View(q)' = {<<d, d \in cache' \ Unsent'>> : d \in Result(q)'}
    BY DEF View
  <2> QED
    BY <2>1, <2>2
<1> QED
  BY <1>4, <1>5, <1>6

(* What a step emits is news to each listener.                             *)
LEMMA EmitTellsMore ==
    ASSUME FeedInv, Told, Gains, Emit(<<>>), registered' \subseteq Made,
           \A r \in registered' \ registered :
              \A i \in DOMAIN mainQ : mainQ[i].reg # r
    PROVE  /\ Told'
           /\ \A i \in DOMAIN mainQ' : \/ \E j \in DOMAIN mainQ : mainQ'[i] = mainQ[j]
                                       \/ mainQ'[i].reg \in registered'
<1>1. PICK order \in SetToSeqs(Due) :
         /\ Events(order) \in Seq(Messages)
         /\ mainQ' = mainQ \o Events(order)
  BY EmittedEvents DEF Gains
<1> DEFINE e == Events(order)
<1>2. Due \in SUBSET Reg
  BY DEF Due, Made
<1>3. \A i \in DOMAIN order : order[i] \in Due
  BY <1>1, <1>2, Enumeration
<1>4. /\ DOMAIN e = DOMAIN order
      /\ \A i \in DOMAIN e :
            /\ e[i].reg = order[i] /\ e[i].kind = "event" /\ e[i].reg \in Due
            /\ \A r : e[i].reg = r => e[i].docs = Result(query[r])'
  BY <1>3 DEF Events, Event
<1>5. Growing(e)
  BY <1>1, <1>2, <1>4, OneEach
<1>6. mainQ \in Seq(Messages) /\ e \in Seq(Messages)
  BY <1>1 DEF FeedInv
<1> HIDE DEF e
<1>7. \A r \in Made : query[r] \in Query /\ query'[r] = query[r]
  BY DEF FeedInv, Made, Gains
<1>8. \A r \in Due : r \in registered' /\ r \in Made /\ EventDue(r) /\ r \in raised'
  BY DEF Due, Emit
<1>9. \A q : Result(q) \subseteq Result(q)'
  BY GainedResult DEF Gains
<1>10. ASSUME NEW i \in DOMAIN mainQ, NEW j \in DOMAIN e
       PROVE  TellsMore(mainQ[i], e[j])
  <2> SUFFICES ASSUME mainQ[i].reg = e[j].reg PROVE TellsMore(mainQ[i], e[j])
    BY DEF TellsMore
  <2>1. PICK r \in Due : r = mainQ[i].reg /\ r = e[j].reg
    BY <1>4
  <2>2. r \in registered /\ r \in Made
    BY <1>8, <2>1
  <2>3. PICK q : q = query[r] /\ q = query'[r]
    BY <1>7, <2>2
  <2>4. /\ mainQ[i].kind = "event" /\ r \in raised
        /\ mainQ[i].docs \subseteq Result(q)
    BY <2>1, <2>2, <2>3 DEF Told, ToldLess
  <2>5. View(q)' # View(q)
    BY <1>8, <2>1, <2>3, <2>4 DEF EventDue
  <2>6. e[j].docs = Result(q)'
    BY <1>4, <2>1, <2>3
  <2>7. Result(q)' # Result(q)
    BY <2>5, GainedResult
  <2>8. mainQ[i].docs \subseteq e[j].docs /\ mainQ[i].docs # e[j].docs
    BY <1>9, <2>4, <2>6, <2>7
  <2> QED
    BY <2>4, <2>8 DEF TellsMore
<1>11. Growing(mainQ)'
  <2>1. Growing(mainQ \o e)
    BY <1>5, <1>6, <1>10, GrowsOn DEF Told
  <2> QED
    BY <1>1, <2>1 DEF Growing, e
<1>12. \A i \in DOMAIN mainQ' : \/ \E j \in DOMAIN mainQ : mainQ'[i] = mainQ[j]
                                \/ \E j \in DOMAIN e : mainQ'[i] = e[j]
  <2>1. mainQ' = mainQ \o e
    BY <1>1 DEF e
  <2> QED
    BY <1>6, <2>1, JoinElements
<1>13. \A i \in DOMAIN mainQ' : \/ \E j \in DOMAIN mainQ : mainQ'[i] = mainQ[j]
                                \/ mainQ'[i].reg \in registered'
  BY <1>4, <1>8, <1>12
<1>14. Made' = Made
  BY DEF Gains, Made
<1>15. \A i \in DOMAIN mainQ' : mainQ'[i].reg \in Made'
  BY <1>13, <1>14 DEF Told
<1>16. ToldLess'
  <2> SUFFICES ASSUME NEW r \in registered', NEW i \in DOMAIN mainQ', mainQ'[i].reg = r
               PROVE  /\ mainQ'[i].kind = "event" /\ r \in raised'
                      /\ mainQ'[i].docs \subseteq Result(query[r])'
    BY DEF ToldLess
  <2>1. ASSUME NEW j \in DOMAIN mainQ, mainQ'[i] = mainQ[j]
        PROVE  /\ mainQ'[i].kind = "event" /\ r \in raised'
               /\ mainQ'[i].docs \subseteq Result(query[r])'
    <3>1. r \in registered
      BY <2>1
    <3>2. /\ mainQ[j].kind = "event" /\ r \in raised
          /\ mainQ[j].docs \subseteq Result(query[r])
      BY <2>1, <3>1 DEF Told, ToldLess
    <3>3. r \in raised'
      BY <3>2 DEF Emit
    <3> QED
      BY <1>7, <1>9, <2>1, <3>2, <3>3
  <2>2. ASSUME NEW j \in DOMAIN e, mainQ'[i] = e[j]
        PROVE  /\ mainQ'[i].kind = "event" /\ r \in raised'
               /\ mainQ'[i].docs \subseteq Result(query[r])'
    BY <1>4, <1>8, <2>2
  <2> QED
    BY <1>12, <2>1, <2>2
<1>17. cache' \subseteq server'
  BY DEF Gains
<1> QED
  BY <1>11, <1>13, <1>15, <1>16, <1>17 DEF Told

Refused(p) == {r \in registered : query[r] = p}

(* A listener that is refused hears of it after all else.                  *)
LEMMA RefusalIsLast ==
    ASSUME FeedInv, Told, NEW p \in Query, RejectListen(p)
    PROVE  /\ Told'
           /\ \A i \in DOMAIN mainQ' : \/ \E j \in DOMAIN mainQ : mainQ'[i] = mainQ[j]
                                       \/ mainQ'[i].reg \in registered
<1>1. PICK order \in SetToSeqs(Refused(p)) :
         mainQ' = mainQ \o [i \in DOMAIN order |-> Failure(order[i])]
  BY DEF RejectListen, Refused
<1> DEFINE e == [i \in DOMAIN order |-> Failure(order[i])]
<1>2. Refused(p) \in SUBSET Reg
  BY DEF FeedInv, Made, Refused
<1>3. /\ DOMAIN order = 1 .. Len(order) /\ Len(order) \in Nat
      /\ \A i \in DOMAIN order : order[i] \in Refused(p)
  BY <1>1, <1>2, Enumeration
<1>4. /\ DOMAIN e = DOMAIN order
      /\ \A i \in DOMAIN e : e[i].reg = order[i] /\ e[i].kind = "error" /\ e[i].reg \in Refused(p)
  BY <1>3 DEF Failure
<1>5. e \in Seq(Messages)
  <2>1. \A i \in DOMAIN order : Failure(order[i]) \in Messages
    BY <1>2, <1>3 DEF Failure, Messages
  <2>2. e \in [1 .. Len(order) -> Messages]
    BY <1>3, <2>1
  <2> QED
    BY <1>3, <2>2, MappedSequence
<1>6. Growing(e)
  BY <1>1, <1>2, <1>4, OneEach
<1>7. mainQ \in Seq(Messages) /\ mainQ' = mainQ \o e
  BY <1>1 DEF FeedInv
<1> HIDE DEF e
<1>8. \A i \in DOMAIN mainQ, j \in DOMAIN e : TellsMore(mainQ[i], e[j])
  BY <1>4 DEF TellsMore, Told, ToldLess, Refused
<1>9. Growing(mainQ)'
  <2>1. Growing(mainQ \o e)
    BY <1>5, <1>6, <1>7, <1>8, GrowsOn DEF Told
  <2> QED
    BY <1>7, <2>1 DEF Growing, e
<1>10. \A i \in DOMAIN mainQ' : \/ \E j \in DOMAIN mainQ : mainQ'[i] = mainQ[j]
                                \/ mainQ'[i].reg \in Refused(p)
  <2>1. \A i \in DOMAIN mainQ' : \/ \E j \in DOMAIN mainQ : mainQ'[i] = mainQ[j]
                                 \/ \E j \in DOMAIN e : mainQ'[i] = e[j]
    BY <1>5, <1>7, JoinElements
  <2> QED
    BY <1>4, <2>1
<1>11. /\ registered' = registered \ Refused(p) /\ raised' = raised \ Refused(p)
       /\ UNCHANGED <<query, cache, acked, outbox, server>>
  BY DEF RejectListen, Refused, apiVars, networkVars, storeVars
<1>12. \A q : Result(q)' = Result(q)
  BY <1>11 DEF Result, LocalDocs, Unsent, Match
<1>13. Made' = Made
  BY <1>11 DEF Made
<1>14. \A i \in DOMAIN mainQ' : mainQ'[i].reg \in Made'
  BY <1>10, <1>13 DEF Told, FeedInv, Refused
<1>15. ToldLess'
  <2> SUFFICES ASSUME NEW r \in registered', NEW i \in DOMAIN mainQ', mainQ'[i].reg = r
               PROVE  /\ mainQ'[i].kind = "event" /\ r \in raised'
                      /\ mainQ'[i].docs \subseteq Result(query[r])'
    BY DEF ToldLess
  <2>1. r \in registered /\ r \notin Refused(p)
    BY <1>11
  <2>2. PICK j \in DOMAIN mainQ : mainQ'[i] = mainQ[j]
    BY <1>10, <2>1
  <2>3. /\ mainQ[j].kind = "event" /\ r \in raised
        /\ mainQ[j].docs \subseteq Result(query[r])
    BY <2>1, <2>2 DEF Told, ToldLess
  <2> QED
    BY <1>11, <1>12, <2>1, <2>2, <2>3
<1> QED
  BY <1>9, <1>10, <1>11, <1>14, <1>15 DEF Told, Refused

(* No more is registered, and nothing is added to the main queue.          *)
LEMMA ToldStays ==
    ASSUME FeedInv, Told,
           mainQ' = mainQ \/ (mainQ # <<>> /\ mainQ' = Tail(mainQ)),
           registered' \subseteq registered, raised \cap registered' \subseteq raised',
           \A r \in Made : r \in Made' /\ query'[r] = query[r],
           cache' = cache, acked' = acked, outbox' = outbox, server \subseteq server'
    PROVE  /\ Told'
           /\ \A i \in DOMAIN mainQ' : \E j \in DOMAIN mainQ : mainQ'[i] = mainQ[j]
<1>1. mainQ \in Seq(Messages)
  BY DEF FeedInv
<1>2. \A i \in DOMAIN mainQ' : \E j \in DOMAIN mainQ : mainQ'[i] = mainQ[j]
  <2>1. CASE mainQ' = mainQ
    BY <2>1
  <2>2. CASE mainQ # <<>> /\ mainQ' = Tail(mainQ)
    BY <1>1, <2>2, TailParts
  <2> QED
    BY <2>1, <2>2
<1>3. Growing(mainQ)'
  <2>1. CASE mainQ' = mainQ
    BY <2>1 DEF Told, Growing
  <2>2. CASE mainQ # <<>> /\ mainQ' = Tail(mainQ)
    <3>1. Growing(Tail(mainQ))
      BY <1>1, <2>2, GrowsLess DEF Told
    <3> QED
      BY <2>2, <3>1 DEF Growing
  <2> QED
    BY <2>1, <2>2
<1>4. \A q : Result(q)' = Result(q)
  BY DEF Result, LocalDocs, Unsent, Match
<1>5. ToldLess'
  <2> SUFFICES ASSUME NEW r \in registered', NEW i \in DOMAIN mainQ', mainQ'[i].reg = r
               PROVE  /\ mainQ'[i].kind = "event" /\ r \in raised'
                      /\ mainQ'[i].docs \subseteq Result(query[r])'
    BY DEF ToldLess
  <2>1. PICK j \in DOMAIN mainQ : mainQ'[i] = mainQ[j]
    BY <1>2
  <2>2. r \in registered /\ r \in Made
    BY DEF FeedInv
  <2>3. /\ mainQ[j].kind = "event" /\ r \in raised
        /\ mainQ[j].docs \subseteq Result(query[r])
    BY <2>1, <2>2 DEF Told, ToldLess
  <2> QED
    BY <1>4, <2>1, <2>2, <2>3
<1> QED
  BY <1>2, <1>3, <1>5 DEF Told

\* What a step may put on the main queue without upsetting who waits.
Hears(S) ==
    \A i \in DOMAIN mainQ' : \/ \E j \in DOMAIN mainQ : mainQ'[i] = mainQ[j]
                             \/ mainQ'[i].reg \in S

LEMMA WorkerTells ==
    ASSUME AllInv, Told, Waits, WorkerStep
    PROVE  Told' /\ Waits'
<1>1. ~DoWrite /\ workQ # <<>> /\ workQ' = Tail(workQ) /\ workQ \in Seq(WorkItems)
  <2>1. workQ # <<>> => Head(workQ) \in WorkItems
    BY DEF AllInv, FeedInv
  <2> QED
    BY <2>1 DEF WorkerStep, Worker, DoListen, DoUnlisten, DoWrite, WorkHead, WorkItems,
                AllInv, FeedInv
<1>2. /\ UNCHANGED <<query, cache, acked, outbox, server, thoughtsListener>>
      /\ Made' = Made
  BY <1>1 DEF WorkerStep, Worker, DoListen, DoUnlisten, apiVars, networkVars, storeVars,
              feedVars, Made
<1>3. FeedInv /\ acked = {}
  BY DEF AllInv, SyncInv
<1>4. \A k \in DOMAIN workQ' : /\ k + 1 \in DOMAIN workQ /\ workQ'[k] = workQ[k + 1]
                               /\ k \in Nat /\ 1 < k + 1
  BY <1>1, TailParts
<1>5. 1 \in DOMAIN workQ /\ Head(workQ) = workQ[1]
  BY <1>1
<1>6. \A k \in DOMAIN workQ' : IsListen(workQ'[k]) =>
         /\ workQ'[k].reg \notin registered
         /\ \A i \in DOMAIN mainQ : mainQ[i].reg # workQ'[k].reg
  BY <1>4 DEF Waits, WaitsUntold
<1>7. ASSUME NEW k \in DOMAIN workQ', IsListen(workQ'[k]), IsListen(workQ[1])
      PROVE  workQ'[k].reg # workQ[1].reg
  <2>1. workQ[k + 1] # workQ[1] /\ workQ'[k] = workQ[k + 1]
    BY <1>4, <1>5, <1>7 DEF Waits, ListensOnce
  <2>2. workQ[k + 1] \in WorkItems /\ workQ[1] \in WorkItems
    BY <1>1, <1>4, <1>5
  <2> QED
    BY <1>7, <2>1, <2>2 DEF WorkItems, IsListen
<1>8. Told' /\ Hears(registered') /\ registered' \subseteq registered \cup {Head(workQ).reg}
      /\ (DoUnlisten => registered' \subseteq registered)
  <2>1. CASE DoListen
    <3>1. registered' = registered \cup {Head(workQ).reg} /\ Emit(<<>>)
      BY <2>1 DEF DoListen
    <3>2. registered' \subseteq Made
      <4>1. workQ[1] \in WorkItems
        BY <1>1, <1>5
      <4>2. Head(workQ).reg \in Made
        BY <1>5, <4>1 DEF WorkItems
      <4> QED
        BY <3>1, <4>2 DEF AllInv, FeedInv
    <3>3. Gains
      BY <1>2, <1>3 DEF Gains, Told
    <3>4. IsListen(workQ[1])
      BY <1>5, <2>1 DEF DoListen, WorkHead, IsListen
    <3>5. \A r \in registered' \ registered : \A i \in DOMAIN mainQ : mainQ[i].reg # r
      BY <1>5, <3>1, <3>4 DEF Waits, WaitsUntold
    <3>6. ~DoUnlisten
      BY <2>1 DEF DoListen, DoUnlisten, WorkHead
    <3> QED
      BY <1>3, <3>1, <3>2, <3>3, <3>5, <3>6, EmitTellsMore DEF Hears
  <2>2. CASE DoUnlisten
    <3>1. /\ mainQ' = mainQ /\ registered' \subseteq registered
          /\ raised \cap registered' \subseteq raised'
      BY <2>2 DEF DoUnlisten
    <3>2. \A r \in Made : r \in Made' /\ query'[r] = query[r]
      BY <1>2
    <3>3. Told'
      BY <1>2, <1>3, <3>1, <3>2, ToldStays
    <3> QED
      BY <3>1, <3>3 DEF Hears
  <2> QED
    BY <1>1, <2>1, <2>2 DEF WorkerStep, Worker
<1>9. \A k \in DOMAIN workQ' : IsListen(workQ'[k]) => workQ'[k].reg \notin registered'
  <2>1. CASE DoUnlisten
    BY <1>6, <1>8, <2>1
  <2>2. CASE DoListen
    <3>1. IsListen(workQ[1])
      BY <1>5, <2>2 DEF DoListen, WorkHead, IsListen
    <3> QED
      BY <1>5, <1>6, <1>7, <1>8, <3>1
  <2> QED
    BY <1>1, <2>1, <2>2 DEF WorkerStep, Worker
<1>10. WaitsUntold'
  BY <1>6, <1>8, <1>9 DEF WaitsUntold, Hears
<1>11. ListensOnce(workQ)'
  <2> SUFFICES ASSUME NEW k \in DOMAIN workQ', NEW l \in DOMAIN workQ', k < l,
                      IsListen(workQ'[k])
               PROVE  workQ'[l] # workQ'[k]
    BY DEF ListensOnce
  <2>1. k + 1 < l + 1 /\ k + 1 \in DOMAIN workQ /\ l + 1 \in DOMAIN workQ
    BY <1>4
  <2> QED
    BY <1>4, <2>1 DEF Waits, ListensOnce
<1>12. Len(workQ') <= 2 * thoughtsListener'
  <2>1. Len(workQ') = Len(workQ) - 1 /\ Len(workQ) \in Nat
    BY <1>1
  <2>2. thoughtsListener \in Nat
    BY ClientAssumption DEF AllInv, FeedInv
  <2> QED
    BY <1>2, <2>1, <2>2 DEF Waits
<1> QED
  BY <1>8, <1>10, <1>11, <1>12 DEF Waits

LEMMA WaitsAppend ==
    ASSUME NEW M, NEW q \in Seq(M), NEW w \in M, ListensOnce(q),
           \A k \in DOMAIN q : IsListen(q[k]) => q[k] # w
    PROVE  ListensOnce(Append(q, w)) /\ Len(Append(q, w)) = Len(q) + 1
<1> DEFINE qw == Append(q, w)
<1>1. /\ Len(q) \in Nat /\ DOMAIN q = 1 .. Len(q)
      /\ DOMAIN qw = 1 .. Len(q) + 1 /\ Len(qw) = Len(q) + 1
      /\ \A i \in 1 .. Len(q) : qw[i] = q[i]
      /\ qw[Len(q) + 1] = w
  OBVIOUS
<1> HIDE DEF qw
<1>2. ASSUME NEW k \in DOMAIN qw, NEW l \in DOMAIN qw, k < l, IsListen(qw[k])
      PROVE  qw[l] # qw[k]
  <2>1. k \in DOMAIN q /\ qw[k] = q[k]
    BY <1>1, <1>2
  <2>2. CASE l \in DOMAIN q
    BY <1>1, <1>2, <2>1, <2>2 DEF ListensOnce
  <2>3. CASE l = Len(q) + 1
    BY <1>1, <1>2, <2>1, <2>3
  <2> QED
    BY <1>1, <2>2, <2>3
<1> QED
  BY <1>1, <1>2 DEF ListensOnce, qw

LEMMA WiderSequence ==
    ASSUME NEW S, NEW T, S \subseteq T, NEW q \in Seq(S)
    PROVE  q \in Seq(T)
OBVIOUS

LEMMA AppendedLast ==
    ASSUME NEW S, NEW q \in Seq(S), NEW c \in Seq(S), NEW y \in S
    PROVE  q \o Append(c, y) = Append(q \o c, y)
OBVIOUS

LEMMA NewListenerTells ==
    ASSUME AllInv, AllInv', Told, Waits, NEW q, NEW calls,
           AddSnapshotListener(q, calls),
           calls \in {<<>>, <<Unlisten(thoughtsListener)>>},
           UNCHANGED <<mainQ, registered, raised, cache, acked, outbox, server>>
    PROVE  Told' /\ Waits'
<1> DEFINE new == thoughtsListener + 1
           U == Unlisten(thoughtsListener)
           L == Listen(new)
           w == workQ \o calls
<1>1. /\ thoughtsListener' = new /\ new \notin Made /\ thoughtsListener \in Nat
      /\ query' = [query EXCEPT ![new] = q] /\ FeedInv /\ FeedInv'
  BY ClientAssumption DEF AllInv, FeedInv, AddSnapshotListener, NextListener
<1>2. \A r \in Made : r \in Made' /\ query'[r] = query[r]
  <2>1. Made \subseteq Made'
    BY <1>1 DEF FeedInv
  <2> QED
    BY <1>1, <2>1 DEF FeedInv, Made
<1>3. Told'
  BY <1>1, <1>2, ToldStays
<1> DEFINE Items == [op : {"listen", "unlisten"}, reg : Nat]
<1>4. workQ \in Seq(Items) /\ U \in Items /\ L \in Items
  <2>1. Made \subseteq Nat
    BY <1>1 DEF FeedInv
  <2>2. workQ \in Seq(Items)
    <3>1. workQ \in Seq(WorkItems)
      BY <1>1 DEF FeedInv
    <3>2. WorkItems \subseteq Items
      BY <2>1 DEF WorkItems
    <3> QED
      BY <3>1, <3>2, WiderSequence
  <2> QED
    BY <1>1, <2>2 DEF Unlisten, Listen
<1>5. \A k \in DOMAIN workQ : workQ[k].reg \in Made
  <2>1. workQ \in Seq(WorkItems)
    BY <1>1 DEF FeedInv
  <2>2. \A k \in DOMAIN workQ : workQ[k] \in WorkItems
    BY <2>1
  <2> QED
    BY <2>2 DEF WorkItems
<1>6. ~IsListen(U) /\ L.reg = new /\ U # L
  BY DEF IsListen, Unlisten, Listen
<1> HIDE DEF U, L
<1>7. /\ w \in Seq(Items) /\ ListensOnce(w) /\ Len(w) <= Len(workQ) + 1
      /\ \A k \in DOMAIN w : w[k] = U \/ \E j \in DOMAIN workQ : w[k] = workQ[j]
  <2>1. CASE calls = <<>>
    <3>1. w = workQ
      BY <1>4, <2>1
    <3> QED
      BY <1>4, <3>1 DEF Waits
  <2>2. CASE calls = <<U>>
    <3>1. \A k \in DOMAIN workQ : IsListen(workQ[k]) => workQ[k] # U
      BY <1>6
    <3>2. ListensOnce(Append(workQ, U)) /\ Len(Append(workQ, U)) = Len(workQ) + 1
      BY <1>4, <3>1, WaitsAppend DEF Waits
    <3>3. \A k \in DOMAIN Append(workQ, U) :
             Append(workQ, U)[k] = U \/ \E j \in DOMAIN workQ : Append(workQ, U)[k] = workQ[j]
      BY <1>4
    <3>4. workQ \o <<U>> = Append(workQ, U)
      BY <1>4
    <3>5. w = Append(workQ, U)
      BY <2>2, <3>4
    <3>6. w \in Seq(Items) /\ Len(workQ) \in Nat
      BY <1>4, <3>5
    <3> QED
      BY <3>2, <3>3, <3>5, <3>6
  <2> QED
    BY <2>1, <2>2 DEF U
<1>8. workQ' = Append(w, L)
  <2>1. workQ' = workQ \o Append(calls, L)
    BY DEF AddSnapshotListener, NextListener, L
  <2>2. calls \in Seq(Items)
    <3>1. calls = <<>> \/ calls = <<U>>
      BY DEF U
    <3> HIDE DEF Items
    <3>2. <<>> \in Seq(Items) /\ <<U>> \in Seq(Items)
      BY <1>4
    <3> QED
      BY <3>1, <3>2
  <2> QED
    BY <1>4, <2>1, <2>2, AppendedLast
<1>9. \A k \in DOMAIN w : IsListen(w[k]) => w[k] # L
  BY <1>1, <1>5, <1>6, <1>7
<1> HIDE DEF w, Items
<1>10. ListensOnce(workQ') /\ Len(workQ') = Len(w) + 1
  BY <1>4, <1>7, <1>8, <1>9, WaitsAppend
<1>11. \A k \in DOMAIN workQ' : \/ workQ'[k] = L \/ workQ'[k] = U
                                \/ \E j \in DOMAIN workQ : workQ'[k] = workQ[j]
  <2>1. \A k \in DOMAIN Append(w, L) :
           Append(w, L)[k] = L \/ \E j \in DOMAIN w : Append(w, L)[k] = w[j]
    BY <1>4, <1>7
  <2> QED
    BY <1>7, <1>8, <2>1
<1>12. WaitsUntold'
  <2>1. new \notin registered
    BY <1>1 DEF FeedInv
  <2>2. \A i \in DOMAIN mainQ : mainQ[i].reg # new
    BY <1>1 DEF Told
  <2> QED
    BY <1>6, <1>11, <2>1, <2>2 DEF Waits, WaitsUntold
<1>13. Len(workQ') <= 2 * thoughtsListener'
  <2>1. Len(workQ) \in Nat /\ Len(w) \in Nat
    BY <1>4, <1>7
  <2> QED
    BY <1>1, <1>7, <1>10, <2>1 DEF Waits
<1> QED
  BY <1>3, <1>10, <1>12, <1>13 DEF Waits, ListensOnce

LEMMA NetworkTells ==
    ASSUME AllInv, AllInv', Told, Waits, Network, UNCHANGED feedVars
    PROVE  Told' /\ Waits'
<1>1. /\ ~Commit /\ ~Acknowledge /\ ~RejectWrite
      /\ UNCHANGED <<query, outbox, workQ, thoughtsListener>>
  BY DEF Network, RemoteAdd, Watch, RejectListen, Commit, Acknowledge, RejectWrite,
         GoOffline, GoOnline, AllInv, FeedInv, apiVars, storeVars, queueVars, feedVars
<1>2. FeedInv /\ acked = {} /\ acked' = {} /\ outbox' = <<>> /\ Made' = Made
  BY <1>1 DEF AllInv, FeedInv, SyncInv, Made
<1>3. \A r \in Made : r \in Made' /\ query'[r] = query[r]
  BY <1>1, <1>2
<1>4. registered' \subseteq registered
  BY <1>1 DEF Network, RemoteAdd, Watch, RejectListen, GoOffline, GoOnline, listenVars
<1>5. Told' /\ Hears(registered)
  <2>1. ASSUME NEW d, RemoteAdd(d) PROVE Told' /\ Hears(registered)
    BY <1>1, <1>2, <1>3, <2>1, ToldStays
       DEF RemoteAdd, storeVars, listenVars, queueVars, Hears
  <2>2. CASE GoOnline
    BY <1>1, <1>2, <1>3, <2>2, ToldStays
       DEF GoOnline, storeVars, listenVars, queueVars, Hears
  <2>3. ASSUME Emit(<<>>), cache \subseteq cache', cache' \subseteq server'
        PROVE  Told' /\ Hears(registered)
    <3>1. Gains
      BY <1>1, <1>2, <2>3 DEF Gains
    <3>2. registered' \subseteq Made
      BY <1>4 DEF AllInv, FeedInv
    <3> QED
      BY <1>2, <1>4, <2>3, <3>1, <3>2, EmitTellsMore DEF Hears
  <2>4. CASE GoOffline
    BY <2>3, <2>4 DEF GoOffline, storeVars, Told
  <2>5. ASSUME NEW q \in Query, Watch(q) PROVE Told' /\ Hears(registered)
    BY <2>3, <2>5 DEF Watch, networkVars, Told
  <2>6. ASSUME NEW q \in Query, RejectListen(q) PROVE Told' /\ Hears(registered)
    BY <1>2, <2>6, RefusalIsLast DEF Hears
  <2> QED
    BY <1>1, <2>1, <2>2, <2>4, <2>5, <2>6 DEF Network
<1>6. WaitsUntold'
  BY <1>1, <1>4, <1>5 DEF Waits, WaitsUntold, Hears
<1> QED
  BY <1>1, <1>5, <1>6 DEF Waits, ListensOnce

LEMMA TellsStep == AllInv /\ AllInv' /\ Told /\ Waits /\ [Next]_vars => Told' /\ Waits'
<1> SUFFICES ASSUME AllInv, AllInv', Told, Waits, [Next]_vars PROVE Told' /\ Waits'
  OBVIOUS
<1>1. CASE thoughtsListener = 0 /\ ViewWillAppear /\ ClientUnchanged /\ UNCHANGED mainQ
  BY <1>1, NewListenerTells
     DEF ViewWillAppear, ClientUnchanged, networkVars, storeVars, listenVars
<1>2. ASSUME NEW s \in Segments, CategoryChanged(s), ClientUnchanged, UNCHANGED mainQ
      PROVE  Told' /\ Waits'
  BY <1>2, NewListenerTells
     DEF CategoryChanged, ClientUnchanged, networkVars, storeVars, listenVars
<1>3. ASSUME mainQ' = mainQ \/ (mainQ # <<>> /\ mainQ' = Tail(mainQ)),
             UNCHANGED <<networkVars, storeVars, listenVars, apiVars, workQ, thoughtsListener>>
      PROVE  Told' /\ Waits'
  <2>1. UNCHANGED <<cache, acked, outbox, server, registered, raised, query>> /\ Made' = Made
    BY <1>3 DEF networkVars, storeVars, listenVars, apiVars, Made
  <2>2. FeedInv
    BY DEF AllInv
  <2>3. Told' /\ \A i \in DOMAIN mainQ' : \E j \in DOMAIN mainQ : mainQ'[i] = mainQ[j]
    BY <1>3, <2>1, <2>2, ToldStays
  <2> QED
    BY <1>3, <2>1, <2>3 DEF Waits, WaitsUntold, ListensOnce
<1>4. CASE Main
  BY <1>3, <1>4 DEF Main, OnSnapshot, OnListenError, MainHead, ClientUnchanged, feedVars
<1>5. CASE Worker /\ UNCHANGED feedVars
  BY <1>5, WorkerTells DEF WorkerStep
<1>6. CASE Network /\ UNCHANGED feedVars
  BY <1>6, NetworkTells
<1>7. CASE UNCHANGED vars
  BY <1>3, <1>7 DEF vars, clientVars, queueVars, feedVars
<1> QED
  BY <1>1, <1>2, <1>4, <1>5, <1>6, <1>7 DEF Next, User

LEMMA TellsInvariant == Spec => [](AllInv /\ Told /\ Waits)
<1>1. Init => Told /\ Waits
  <2> SUFFICES ASSUME Init PROVE Told /\ Waits
    OBVIOUS
  <2>1. /\ mainQ = <<>> /\ workQ = <<>> /\ registered = {} /\ cache \subseteq server
        /\ thoughtsListener = 0
    BY DEF Init, ClientInit, FeedInit
  <2> QED
    BY <2>1 DEF Told, ToldLess, Growing, Waits, WaitsUntold, ListensOnce
<1> QED
  BY <1>1, AllInvariant, TellsStep, PTL DEF Spec

(* However category changes, snapshots, refusals and lost connections      *)
(* interleave, what is on its way to one listener is each time more than   *)
(* before, and a refusal is the last it hears: nothing is told twice.      *)
THEOREM FeedTellsNothingTwice == Spec => [](Growing(mainQ) /\ ListensOnce(workQ))
<1>1. Told /\ Waits => Growing(mainQ) /\ ListensOnce(workQ)
  BY DEF Told, Waits
<1> QED
  BY <1>1, TellsInvariant, PTL

\* How much a listener has been told with m.
Grade(m) == IF m.kind = "event" THEN Cardinality(m.docs) ELSE Cardinality(Thought) + 1

LEMMA GradeRises ==
    ASSUME NEW m \in Messages, NEW n \in Messages, TellsMore(m, n), m.reg = n.reg
    PROVE  /\ Grade(m) \in 0 .. Cardinality(Thought) + 1
           /\ Grade(n) \in 0 .. Cardinality(Thought) + 1
           /\ Grade(m) < Grade(n)
<1>1. IsFiniteSet(Thought) /\ Cardinality(Thought) \in Nat
  BY ClientAssumption, FS_CardinalityType
<1>2. ASSUME NEW d \in SUBSET Thought
      PROVE  IsFiniteSet(d) /\ Cardinality(d) \in 0 .. Cardinality(Thought)
  BY <1>1, FS_Subset, FS_CardinalityType
<1>3. m.kind = "event" /\ m.docs \in SUBSET Thought
  BY DEF TellsMore, Messages
<1>4. CASE n.kind = "event"
  <2>1. n.docs \in SUBSET Thought /\ m.docs \subseteq n.docs /\ m.docs # n.docs
    BY <1>4 DEF TellsMore, Messages
  <2>2. Cardinality(m.docs) <= Cardinality(n.docs) /\ Cardinality(m.docs) # Cardinality(n.docs)
    BY <1>2, <2>1, FS_Subset
  <2>3. /\ Cardinality(m.docs) \in 0 .. Cardinality(Thought)
        /\ Cardinality(n.docs) \in 0 .. Cardinality(Thought)
    BY <1>2, <1>3, <2>1
  <2> QED
    BY <1>1, <1>3, <1>4, <2>2, <2>3 DEF Grade
<1>5. CASE n.kind # "event"
  <2>1. Cardinality(m.docs) \in 0 .. Cardinality(Thought)
    BY <1>2, <1>3
  <2> QED
    BY <1>1, <1>3, <1>5, <2>1 DEF Grade
<1> QED
  BY <1>4, <1>5

(* What the two queues can hold at most: each registration is queued and   *)
(* removed once, and is told of each document that comes, that there is    *)
(* none yet, and of its refusal.                                           *)
QueuesAreBounded ==
    /\ Len(workQ) <= 2 * MaxListeners
    /\ Len(mainQ) <= MaxListeners * (Cardinality(Thought) + 2)

THEOREM FeedQueuesAreBounded == Spec => []QueuesAreBounded
<1>1. AllInv /\ Told /\ Waits => QueuesAreBounded
  <2> SUFFICES ASSUME AllInv, Told, Waits PROVE QueuesAreBounded
    OBVIOUS
  <2> DEFINE places == 1 .. Len(mainQ)
             grades == 0 .. Cardinality(Thought) + 1
             f == [i \in places |-> <<mainQ[i].reg, Grade(mainQ[i])>>]
  <2>1. /\ mainQ \in Seq(Messages) /\ workQ \in Seq(WorkItems)
        /\ thoughtsListener \in 0 .. MaxListeners /\ MaxListeners \in Nat
    BY ClientAssumption DEF AllInv, FeedInv
  <2>2. Cardinality(Thought) \in Nat
    BY ClientAssumption, FS_CardinalityType
  <2>3. \A i \in places : mainQ[i] \in Messages /\ mainQ[i].reg \in Reg
    <3>1. \A m \in Messages : m.reg \in Reg
      BY DEF Messages, Made
    <3> QED
      BY <2>1, <3>1
  <2>4. \A i \in places : Grade(mainQ[i]) \in grades
    <3> SUFFICES ASSUME NEW i \in places PROVE Grade(mainQ[i]) \in grades
      OBVIOUS
    <3>1. CASE mainQ[i].kind = "event"
      <4>1. mainQ[i].docs \in SUBSET Thought
        BY <2>3, <3>1 DEF Messages
      <4>2. Cardinality(mainQ[i].docs) \in 0 .. Cardinality(Thought)
        BY <4>1, ClientAssumption, FS_Subset, FS_CardinalityType
      <4> QED
        BY <2>2, <3>1, <4>2 DEF Grade
    <3>2. CASE mainQ[i].kind # "event"
      BY <2>2, <3>2 DEF Grade
    <3> QED
      BY <3>1, <3>2
  <2>5. ASSUME NEW i \in places, NEW j \in places, i < j PROVE f[i] # f[j]
    <3>1. TellsMore(mainQ[i], mainQ[j])
      BY <2>1, <2>5 DEF Told, Growing
    <3>2. CASE mainQ[i].reg = mainQ[j].reg
      <4>1. mainQ[i] \in Messages /\ mainQ[j] \in Messages
        BY <2>3
      <4>2. /\ Grade(mainQ[i]) < Grade(mainQ[j])
            /\ Grade(mainQ[i]) \in grades /\ Grade(mainQ[j]) \in grades
        BY <3>1, <3>2, <4>1, GradeRises
      <4>3. Grade(mainQ[i]) # Grade(mainQ[j])
        BY <2>2, <4>2
      <4> QED
        BY <4>3
    <3>3. CASE mainQ[i].reg # mainQ[j].reg
      BY <3>3
    <3> QED
      BY <3>2, <3>3
  <2>6. f \in [places -> Reg \X grades]
    BY <2>3, <2>4
  <2>7. \A i, j \in places : f[i] = f[j] => i = j
    <3> HIDE DEF f
    <3>1. \A i, j \in places : i < j \/ j < i \/ i = j
      BY <2>1
    <3> QED
      BY <2>5, <3>1
  <2>8. f \in Injection(places, Reg \X grades)
    <3> HIDE DEF f, places, grades
    <3>1. DOMAIN f = places
      BY <2>6
    <3> QED
      BY <2>6, <2>7, <3>1 DEF Injection, IsInjective
  <2>9. /\ IsFiniteSet(Reg) /\ Cardinality(Reg) = MaxListeners
        /\ IsFiniteSet(grades) /\ Cardinality(grades) = Cardinality(Thought) + 2
        /\ Cardinality(places) = Len(mainQ)
    <3>1. Len(mainQ) \in Nat
      BY <2>1
    <3>2. IsFiniteSet(Reg) /\ Cardinality(Reg) = MaxListeners
      BY <2>1, FS_Interval DEF Reg
    <3>3. IsFiniteSet(grades) /\ Cardinality(grades) = Cardinality(Thought) + 2
      <4> DEFINE last == Cardinality(Thought) + 1
      <4>1. last \in Int /\ last >= 0 /\ last + 1 = Cardinality(Thought) + 2
        BY <2>2
      <4> HIDE DEF last
      <4>2. IsFiniteSet(0 .. last) /\ Cardinality(0 .. last) = last - 0 + 1
        BY <4>1, FS_Interval
      <4> QED
        BY <4>1, <4>2 DEF last
    <3>4. Cardinality(places) = Len(mainQ)
      BY <3>1, FS_Interval
    <3> QED
      BY <3>2, <3>3, <3>4
  <2> HIDE DEF f, places, grades
  <2>10. /\ IsFiniteSet(Reg \X grades)
         /\ Cardinality(Reg \X grades) = MaxListeners * (Cardinality(Thought) + 2)
    BY <2>9, FS_Product
  <2>11. Cardinality(places) <= Cardinality(Reg \X grades)
    BY <2>8, <2>10, FS_Injection
  <2>12. Len(workQ) <= 2 * MaxListeners
    <3>1. Len(workQ) \in Nat
      BY <2>1
    <3> QED
      BY <2>1, <3>1 DEF Waits
  <2> QED
    BY <2>9, <2>10, <2>11, <2>12 DEF QueuesAreBounded
<1> QED
  BY <1>1, TellsInvariant, PTL

-----------------------------------------------------------------------------
\* Neither queue holds more than the proof reaches.
Fits == Len(workQ) <= Most /\ Len(mainQ) <= Most

(* If nobody adds a thought any more, an idle client comes to show what    *)
(* the backend has, or its listener is refused; and it stays so.           *)
Settles(q) == [][SameServer]_vars => (On(q) => <>[]Goal)

LEMMA QuerySettles ==
    ASSUME NEW q \in Query
    PROVE  Calm /\ []Fits => Settles(q)
<1>1. AllInv /\ On(q) /\ [Next]_vars /\ [~User]_vars /\ online' => On(q)' \/ Gone'
  BY IdleStays
<1>2. AllInv /\ On(q) /\ <<WatchStep(q)>>_vars => Fresh(q)'
  BY WatchFreshens DEF WatchStep
<1>3. AllInv /\ StepsCanRun /\ online /\ On(q) => Fresh(q) \/ ENABLED <<WatchStep(q)>>_vars
  BY QueryOfListener DEF StepsCanRun, Fresh
<1>4. AllWatched => Watched(q)
  BY EachIsWatched
<1>5. AllInv /\ Fits /\ Fresh(q) => Within(q, Most)
  <2> SUFFICES ASSUME AllInv, Fits, NEW i \in DOMAIN mainQ
               PROVE  i <= Most
    BY DEF Within
  <2>1. mainQ \in Seq(Messages) /\ Len(mainQ) <= Most /\ Most \in Nat
    BY DEF AllInv, FeedInv, Fits, Most
  <2> QED
    BY <2>1
<1>6. Calm => Shows(q, Most)
  BY ArrivesMost, PTL DEF Arrives
<1>7. AllInv /\ Within(q, 0) /\ [Next]_vars /\ [~User]_vars /\ online' /\ [SameServer]_vars =>
         Within(q, 0)' \/ Gone'
  BY WithinMoves
<1>8. AllInv /\ Within(q, 0) => Goal
  BY NoneLeftIsShown
<1>9. AllInv /\ Gone /\ [Next]_vars /\ [~User]_vars /\ online' => Gone'
  BY IdleStays
<1>10. Gone => Goal
  BY DEF Gone, Goal
<1>11. Calm => (On(q) ~> Fresh(q) \/ Gone)
  BY <1>1, <1>2, <1>3, <1>4, PTL DEF Calm, Watched
<1> QED
  BY <1>5, <1>6, <1>7, <1>8, <1>9, <1>10, <1>11, PTL
     DEF Calm, AllWatched, Watched, Shows, Settles

LEMMA IdleSettles ==
    Calm /\ []Fits => ([][SameServer]_vars => (Idle => <>[]Goal))
<1>1. AllInv /\ Idle => Gone \/ On("Funny") \/ On("Serious") \/ On("Crazy") \/ On("All")
  <2> SUFFICES ASSUME AllInv, Idle, thoughtsListener \in registered
               PROVE  On("Funny") \/ On("Serious") \/ On("Crazy") \/ On("All")
    BY DEF Gone
  <2>1. QueryOf(selectedCategory) \in {"Funny", "Serious", "Crazy", "All"}
    BY DEF AllInv, FeedInv, Segments, Categories, QueryOf
  <2> QED
    BY <2>1 DEF On
<1>2. AllInv /\ Gone /\ [Next]_vars /\ [~User]_vars /\ online' => Gone'
  BY IdleStays
<1>3. Gone => Goal
  BY DEF Gone, Goal
<1>4. "Funny" \in Query /\ "Serious" \in Query /\ "Crazy" \in Query /\ "All" \in Query
  BY DEF Query, Categories
<1>5. Calm /\ []Fits => /\ Settles("Funny") /\ Settles("Serious")
                        /\ Settles("Crazy") /\ Settles("All")
  <2> HIDE DEF Calm, Fits, Settles
  <2> QED
    BY <1>4, QuerySettles
<1> QED
  BY <1>1, <1>2, <1>3, <1>5, PTL DEF Calm, Settles

-----------------------------------------------------------------------------
(* Other clients add thoughts, but there are only so many.                 *)
Room(n) == Cardinality(Thought \ server) <= n

LEMMA RoomShrinks ==
    ASSUME AllInv, [Next]_vars, NEW n \in Nat, Room(n)
    PROVE  Room(n)' /\ (SameServer \/ (n > 0 /\ Room(n - 1)'))
<1> DEFINE A == Thought \ server
           B == Thought \ server'
<1>1. CASE server' = server
  BY <1>1 DEF Room, SameServer
<1>2. ASSUME NEW d \in Thought, RemoteAdd(d) PROVE Room(n)' /\ n > 0 /\ Room(n - 1)'
  <2>1. B \in SUBSET A /\ B # A
    BY <1>2 DEF RemoteAdd
  <2>2. IsFiniteSet(A)
    BY ClientAssumption, FS_Subset
  <2>3. Cardinality(A) \in Nat /\ Cardinality(B) \in Nat /\ Cardinality(B) < Cardinality(A)
    BY <2>1, <2>2, FS_Subset, FS_CardinalityType
  <2> HIDE DEF A, B
  <2>4. Cardinality(A) <= n
    BY DEF Room, A
  <2>5. Cardinality(B) <= n - 1 /\ n > 0 /\ Cardinality(B) <= n
    BY <2>3, <2>4
  <2> QED
    BY <2>5 DEF Room, B
<1>3. server' = server \/ \E d \in Thought : RemoteAdd(d)
  <2>1. ~Commit
    BY DEF Commit, AllInv, FeedInv
  <2> QED
    BY <2>1 DEF Next, ClientUnchanged, Main, Worker, DoListen, DoUnlisten, DoWrite,
       Network, Watch, RejectListen, Acknowledge, RejectWrite, GoOffline, GoOnline,
       networkVars, vars, clientVars
<1> QED
  BY <1>1, <1>2, <1>3

Rooms(n) == [](Idle /\ Room(n) => <>[]Goal)

LEMMA RoomsFull == Calm /\ []Fits => Rooms(0)
<1>1. AllInv /\ Room(0) /\ [Next]_vars => Room(0)' /\ SameServer
  BY RoomShrinks
<1> QED
  BY <1>1, IdleSettles, PTL DEF Calm, AllWatched, Watched, Rooms

LEMMA RoomsFromOneMore ==
    ASSUME NEW n \in Nat
    PROVE  Calm /\ []Fits => (Rooms(n) => Rooms(n + 1))
<1>1. AllInv /\ Room(n + 1) /\ [Next]_vars => Room(n + 1)' /\ (SameServer \/ Room(n)')
  <2> SUFFICES ASSUME AllInv, Room(n + 1), [Next]_vars
               PROVE  Room(n + 1)' /\ (SameServer \/ Room(n)')
    OBVIOUS
  <2> DEFINE k == n + 1
  <2>1. k \in Nat /\ k - 1 = n
    OBVIOUS
  <2> HIDE DEF k
  <2>2. Room(k)' /\ (SameServer \/ (k > 0 /\ Room(k - 1)'))
    BY <2>1, RoomShrinks DEF k
  <2> QED
    BY <2>1, <2>2 DEF k
<1>2. AllInv /\ Idle /\ [Next]_vars /\ [~User]_vars /\ online' => Idle'
  BY IdleStays
<1> QED
  BY <1>1, <1>2, IdleSettles, PTL DEF Calm, AllWatched, Watched, Rooms

RoomsFrom(k) == \A n \in Nat : Calm /\ []Fits => (Rooms(n) => Rooms(n + k))

LEMMA RoomsTwice ==
    ASSUME NEW k \in Nat, RoomsFrom(k)
    PROVE  RoomsFrom(k + k)
<1> SUFFICES ASSUME NEW n \in Nat
             PROVE  Calm /\ []Fits => (Rooms(n) => Rooms(n + (k + k)))
  BY DEF RoomsFrom
<1>1. Calm /\ []Fits => (Rooms(n) => Rooms(n + k))
  BY DEF RoomsFrom
<1>2. Calm /\ []Fits => (Rooms(n + k) => Rooms((n + k) + k))
  BY DEF RoomsFrom
<1>3. (n + k) + k = n + (k + k)
  OBVIOUS
<1> HIDE DEF Calm, Fits, Rooms
<1> QED
  BY <1>1, <1>2, <1>3

LEMMA RoomsMost == Calm /\ []Fits => Rooms(Most)
<1> HIDE DEF Calm, Fits, Rooms, RoomsFrom
<1>0. RoomsFrom(1)
  BY RoomsFromOneMore DEF RoomsFrom
<1>1. RoomsFrom(2)
  BY <1>0, RoomsTwice, 1 + 1 = 2
<1>2. RoomsFrom(4)
  BY <1>1, RoomsTwice, 2 + 2 = 4
<1>3. RoomsFrom(8)
  BY <1>2, RoomsTwice, 4 + 4 = 8
<1>4. RoomsFrom(16)
  BY <1>3, RoomsTwice, 8 + 8 = 16
<1>5. RoomsFrom(32)
  BY <1>4, RoomsTwice, 16 + 16 = 32
<1>6. RoomsFrom(64)
  BY <1>5, RoomsTwice, 32 + 32 = 64
<1>7. RoomsFrom(128)
  BY <1>6, RoomsTwice, 64 + 64 = 128
<1>8. RoomsFrom(256)
  BY <1>7, RoomsTwice, 128 + 128 = 256
<1>9. RoomsFrom(512)
  BY <1>8, RoomsTwice, 256 + 256 = 512
<1>10. RoomsFrom(1024)
  BY <1>9, RoomsTwice, 512 + 512 = 1024
<1>11. RoomsFrom(2048)
  BY <1>10, RoomsTwice, 1024 + 1024 = 2048
<1>12. RoomsFrom(4096)
  BY <1>11, RoomsTwice, 2048 + 2048 = 4096
<1>13. RoomsFrom(8192)
  BY <1>12, RoomsTwice, 4096 + 4096 = 8192
<1>14. RoomsFrom(16384)
  BY <1>13, RoomsTwice, 8192 + 8192 = 16384
<1>15. RoomsFrom(32768)
  BY <1>14, RoomsTwice, 16384 + 16384 = 32768
<1>16. RoomsFrom(65536)
  BY <1>15, RoomsTwice, 32768 + 32768 = 65536
<1>17. Calm /\ []Fits => (Rooms(0) => Rooms(0 + 65536))
  BY <1>16 DEF RoomsFrom
<1> QED
  BY <1>17, RoomsFull, 0 + 65536 = Most DEF Most

\* The bounds on thoughts and registrations that keep the rest within Most.
SizesFit ==
    /\ Cardinality(Thought) <= Most
    /\ 2 * MaxListeners <= Most
    /\ MaxListeners * (Cardinality(Thought) + 2) <= Most

(* Converges itself, for any thoughts and registrations whose messages     *)
(* number up to Most: if the user settles on a category and the connection *)
(* holds, the rows come to be the backend's thoughts of it, or the         *)
(* listener was refused, and that for good (:74-86).                       *)
THEOREM FeedConverges == SizesFit => (Spec /\ []StepsCanRun => Converges)
<1> SUFFICES ASSUME SizesFit
             PROVE  Spec /\ []StepsCanRun => Converges
  OBVIOUS
<1>0. AllInv /\ QueuesAreBounded => Fits
  <2> SUFFICES ASSUME AllInv, QueuesAreBounded PROVE Fits
    OBVIOUS
  <2>1. Len(workQ) \in Nat /\ Len(mainQ) \in Nat
    BY DEF AllInv, FeedInv
  <2>2. MaxListeners \in Nat /\ Cardinality(Thought) \in Nat /\ Most \in Nat
    BY ClientAssumption, FS_CardinalityType DEF Most
  <2> DEFINE most == MaxListeners * (Cardinality(Thought) + 2)
  <2>3. most \in Nat /\ most <= Most /\ Len(mainQ) <= most
    BY <2>2 DEF SizesFit, QueuesAreBounded
  <2> HIDE DEF most
  <2>4. Len(mainQ) <= Most
    BY <2>1, <2>2, <2>3
  <2>5. Len(workQ) <= Most
    BY <2>1, <2>2 DEF SizesFit, QueuesAreBounded
  <2> QED
    BY <2>4, <2>5 DEF Fits
<1>1. Room(Most)
  <2>1. Cardinality(Thought \ server) <= Cardinality(Thought)
    BY ClientAssumption, FS_Subset
  <2>2. /\ Cardinality(Thought \ server) \in Nat /\ Cardinality(Thought) \in Nat
        /\ Most \in Nat
    BY ClientAssumption, FS_Subset, FS_CardinalityType DEF Most
  <2> QED
    BY <2>1, <2>2 DEF Room, SizesFit
<1>2. AllInv /\ ~Listening => Goal
  BY DEF AllInv, FeedInv, Listening, Goal
<1>3. AllInv /\ Listening /\ [Next]_vars /\ [~User]_vars /\ online' => Listening'
  BY IdleStays
<1>4. Fits /\ Listening => WorkWithin(Most)
  BY DEF Fits, WorkWithin
<1>5. Calm => Drains(Most)
  <2>1. "All" \in Query
    BY DEF Query
  <2>2. Calm => Arrives("All", Most)
    <3> HIDE DEF Calm, Arrives
    <3> QED
      BY <2>1, ArrivesMost
  <2> QED
    BY <2>2, PTL DEF Arrives
<1>6. Calm /\ []Fits => Rooms(Most)
  BY RoomsMost
<1>7. Spec /\ []StepsCanRun => [](([][~User]_vars /\ []online) => Calm)
  BY AllInvariant, FairToEach, PTL
     DEF Spec, Fairness, WorkerStep, Calm, AllWatched, Watched
<1>8. Spec => []Fits
  BY <1>0, AllInvariant, FeedQueuesAreBounded, PTL
<1> QED
  BY <1>1, <1>2, <1>3, <1>4, <1>5, <1>6, <1>7, <1>8, PTL
     DEF Calm, Drains, Rooms, Converges, Goal

=============================================================================
