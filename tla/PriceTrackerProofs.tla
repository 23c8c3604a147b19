------------------------- MODULE PriceTrackerProofs -------------------------
(***************************************************************************)
(* Proofs about PriceTracker, for any finite set of currency codes, any    *)
(* number of requests in flight and a service that may or may not fail.    *)
(***************************************************************************)
EXTENDS PriceTracker, FiniteSetTheorems, SequenceTheorems, TLAPS

-----------------------------------------------------------------------------
(* Sequences.                                                              *)

(* An order of a set of codes has its elements, and each once.             *)
LEMMA OrderOfCodes ==
    ASSUME NEW S \in SUBSET Keys, NEW seq \in SetToSeqs(S)
    PROVE  /\ seq \in Seq(Keys)
           /\ ToSet(seq) = S
           /\ Len(seq) = Cardinality(S)
<1>1. IsFiniteSet(Keys)
  BY CodesAssumption, FS_AddElement DEF Keys
<1>2. IsFiniteSet(S) /\ Cardinality(S) \in Nat
  BY <1>1, FS_Subset, FS_CardinalityType
<1> DEFINE D == 1 .. Cardinality(S)
<1>3. seq \in [D -> S] /\ \A i, j \in D : i # j => seq[i] # seq[j]
  BY DEF SetToSeqs
<1>4. seq \in Injection(D, S)
  BY <1>3 DEF Injection, IsInjective
<1>5. Cardinality(D) = Cardinality(S)
  BY <1>2, FS_Interval
<1>6. seq \in Surjection(D, S)
  BY <1>2, <1>4, <1>5, FS_Injection
<1>7. ToSet(seq) = S
  BY <1>3, <1>6 DEF ToSet, Surjection
<1> QED
  BY <1>2, <1>3, <1>7

(* Changing the list's Set, whatever order it then has.                    *)
LEMMA ChangedList ==
    ASSUME TypeOK, NEW S \in SUBSET Keys, InSomeOrder(userCurrencyCodes, S)
    PROVE  /\ userCurrencyCodes' \in Seq(Keys)
           /\ ToSet(userCurrencyCodes') = S
           /\ Cardinality(ToSet(userCurrencyCodes')) = Len(userCurrencyCodes')
<1>1. CASE S = Listed
  BY <1>1 DEF TypeOK, InSomeOrder, Listed
<1>2. CASE S # Listed
  <2>1. userCurrencyCodes' \in SetToSeqs(S)
    BY <1>2 DEF InSomeOrder, Listed
  <2> QED
    BY <2>1, OrderOfCodes
<1> QED
  BY <1>1, <1>2

(* What is left when one request has ended were requests before.           *)
LEMMA RemainingRequests ==
    ASSUME NEW seq \in Seq(Request), NEW i \in DOMAIN seq
    PROVE  /\ RemoveAt(seq, i) \in Seq(Request)
           /\ Len(RemoveAt(seq, i)) = Len(seq) - 1
           /\ \A j \in DOMAIN RemoveAt(seq, i) :
                 \E k \in DOMAIN seq : RemoveAt(seq, i)[j] = seq[k]
           /\ \A j \in 1 .. Len(seq) - 1 :
                 RemoveAt(seq, i)[j] = IF j <= i - 1 THEN seq[j] ELSE seq[j + 1]
<1>1. i \in 1 .. Len(seq) /\ Len(seq) \in Nat
  OBVIOUS
<1> DEFINE head == SubSeq(seq, 1, i - 1)
           tail == SubSeq(seq, i + 1, Len(seq))
<1>2. /\ head \in Seq(Request) /\ Len(head) = i - 1
      /\ \A j \in 1 .. i - 1 : head[j] = seq[j]
  <2>1. 1 \in Int /\ i - 1 \in Int /\ \A j \in 1 .. i - 1 : seq[j] \in Request
    BY <1>1
  <2> QED
    BY <1>1, <2>1, SubSeqProperties
<1>3. /\ tail \in Seq(Request) /\ Len(tail) = Len(seq) - i
      /\ \A j \in 1 .. Len(seq) - i : tail[j] = seq[i + j]
  <2>1. /\ i + 1 \in Int /\ Len(seq) \in Int
        /\ \A j \in i + 1 .. Len(seq) : seq[j] \in Request
    BY <1>1
  <2> QED
    BY <1>1, <2>1, SubSeqProperties
<1>4. RemoveAt(seq, i) = head \o tail
  BY DEF RemoveAt
<1> HIDE DEF head, tail
<1>5. /\ head \o tail \in Seq(Request)
      /\ Len(head \o tail) = Len(seq) - 1
      /\ \A j \in 1 .. Len(seq) - 1 :
            (head \o tail)[j] = IF j <= i - 1 THEN seq[j] ELSE seq[j + 1]
  <2>1. /\ head \o tail \in Seq(Request)
        /\ Len(head \o tail) = Len(head) + Len(tail)
        /\ \A j \in 1 .. Len(head) + Len(tail) :
              (head \o tail)[j] = IF j <= Len(head) THEN head[j] ELSE tail[j - Len(head)]
    BY <1>2, <1>3, ConcatProperties
  <2>2. Len(head) + Len(tail) = Len(seq) - 1
    BY <1>1, <1>2, <1>3
  <2>3. ASSUME NEW j \in 1 .. Len(seq) - 1
        PROVE  (head \o tail)[j] = IF j <= i - 1 THEN seq[j] ELSE seq[j + 1]
    <3>1. (head \o tail)[j] = IF j <= i - 1 THEN head[j] ELSE tail[j - (i - 1)]
      BY <1>2, <2>1, <2>2
    <3>2. CASE j <= i - 1
      BY <1>1, <1>2, <3>1, <3>2
    <3>3. CASE ~(j <= i - 1)
      <4>1. /\ j - (i - 1) \in 1 .. Len(seq) - i
            /\ i + (j - (i - 1)) = j + 1
        BY <1>1, <3>3
      <4>2. tail[j - (i - 1)] = seq[j + 1]
        BY <1>3, <4>1
      <4> QED
        BY <3>1, <3>3, <4>2
    <3> QED
      BY <3>2, <3>3
  <2> QED
    BY <2>1, <2>2, <2>3
<1>6. ASSUME NEW j \in 1 .. Len(seq) - 1
      PROVE  \E k \in DOMAIN seq : (head \o tail)[j] = seq[k]
  <2>1. j \in DOMAIN seq /\ j + 1 \in DOMAIN seq
    BY <1>1
  <2> QED
    BY <1>5, <2>1
<1>7. DOMAIN (head \o tail) = 1 .. Len(seq) - 1
  BY <1>5
<1> QED
  BY <1>4, <1>5, <1>6, <1>7

-----------------------------------------------------------------------------
(* The invariant.  What the newest request asks for is the list as it is;  *)
(* the sheet, while it is up, has all that is stored and nothing else.     *)
NewestAsksForTheList ==
    \A i \in DOMAIN requests :
        requests[i].newest => requests[i].codes = Listed

SheetKnowsTheStore == sheet => addedCurrencies = defaults

TrackerInv ==
    /\ TypeOK
    /\ StoredIsListed
    /\ CurrentRowsAreTheList
    /\ NewestAsksForTheList
    /\ SheetKnowsTheStore

(* A request for the prices of a changed list makes the others old.        *)
LEMMA AskedForPrices ==
    ASSUME TypeOK, GetBitcoinPrices, ToSet(userCurrencyCodes') \subseteq Keys
    PROVE  /\ requests' \in Seq(Request)
           /\ Len(requests') <= MaxRequests
           /\ NewestAsksForTheList'
           /\ current' = FALSE
           /\ \A i \in DOMAIN requests :
                 i \in DOMAIN requests' /\ requests'[i].codes = requests[i].codes
<1> DEFINE older == [i \in DOMAIN requests |-> [requests[i] EXCEPT !.newest = FALSE]]
           last == [codes |-> ToSet(userCurrencyCodes'), newest |-> TRUE]
<1>1. /\ requests \in Seq(Request) /\ Len(requests) \in Nat
      /\ DOMAIN requests = 1 .. Len(requests)
      /\ \A i \in 1 .. Len(requests) : requests[i] \in Request
  BY DEF TypeOK
<1>2. /\ Len(requests) < MaxRequests
      /\ requests' = Append(older, last)
      /\ current' = FALSE
  BY DEF GetBitcoinPrices
<1>3. \A i \in 1 .. Len(requests) :
         [requests[i] EXCEPT !.newest = FALSE] \in Request
  BY <1>1 DEF Request
<1>4. /\ older \in Seq(Request) /\ Len(older) = Len(requests)
      /\ \A i \in 1 .. Len(requests) :
            older[i] = [requests[i] EXCEPT !.newest = FALSE]
  BY <1>1, <1>3
<1>5. \A i \in 1 .. Len(requests) : older[i].newest = FALSE
  BY <1>1, <1>4 DEF Request
<1>6. last \in Request /\ last.codes = ToSet(userCurrencyCodes')
  BY DEF Request
<1> HIDE DEF older, last
<1>7. requests' \in Seq(Request) /\ Len(requests') = Len(requests) + 1
  BY <1>2, <1>4, <1>6
<1>8. Len(requests') <= MaxRequests
  BY <1>1, <1>2, <1>7, CodesAssumption
<1>9. ASSUME NEW i \in DOMAIN requests', requests'[i].newest
      PROVE  requests'[i].codes = Listed'
  <2>1. i \in 1 .. Len(requests) + 1
    BY <1>7
  <2>2. CASE i \in 1 .. Len(requests)
    BY <1>2, <1>4, <1>5, <1>9, <2>2
  <2>3. CASE i = Len(requests) + 1
    BY <1>1, <1>2, <1>4, <1>6, <2>3 DEF Listed
  <2> QED
    BY <1>1, <2>1, <2>2, <2>3
<1>10. ASSUME NEW i \in DOMAIN requests
       PROVE  i \in DOMAIN requests' /\ requests'[i].codes = requests[i].codes
  <2>1. requests'[i] = older[i] /\ i \in DOMAIN requests'
    BY <1>1, <1>2, <1>4, <1>6, <1>7
  <2>2. older[i].codes = requests[i].codes
    BY <1>1, <1>4 DEF Request
  <2> QED
    BY <2>1, <2>2
<1> QED
  BY <1>2, <1>7, <1>8, <1>9, <1>10 DEF NewestAsksForTheList

(* The list as the application launches it: what is stored, and the USD.   *)
LEMMA LaunchedOrder ==
    ASSUME NEW S \in SUBSET Keys, NEW seq \in SetToSeqs({USD} \cup S)
    PROVE  /\ seq \in Seq(Keys)
           /\ ToSet(seq) = {USD} \cup S
           /\ Cardinality(ToSet(seq)) = Len(seq)
           /\ {USD} \cup S \subseteq Keys
<1>1. {USD} \cup S \in SUBSET Keys
  BY CodesAssumption DEF Keys
<1> QED
  BY <1>1, OrderOfCodes

LEMMA OnlyRequest ==
    ASSUME NEW S \in SUBSET Keys
    PROVE  LET asked == <<[codes |-> S, newest |-> TRUE]>>
           IN  /\ asked \in Seq(Request)
               /\ Len(asked) = 1 /\ Len(asked) <= MaxRequests
               /\ DOMAIN asked = {1}
               /\ asked[1].codes = S
<1>1. [codes |-> S, newest |-> TRUE] \in Request
  BY DEF Request
<1> QED
  BY <1>1, CodesAssumption

LEMMA TrackerInitially == Init => TrackerInv
<1> SUFFICES ASSUME Init PROVE TrackerInv
  OBVIOUS
<1> USE DEF Init, Launched, SheetClosed
<1>1. /\ userCurrencyCodes \in Seq(Keys)
      /\ Listed = {USD} \cup defaults
      /\ Cardinality(Listed) = Len(userCurrencyCodes)
      /\ {USD} \cup defaults \subseteq Keys
  BY LaunchedOrder DEF Listed
<1>2. /\ requests \in Seq(Request) /\ Len(requests) <= MaxRequests
      /\ DOMAIN requests = {1} /\ requests[1].codes = {USD} \cup defaults
  BY <1>1, OnlyRequest
<1>3. TypeOK
  BY <1>1, <1>2, CodesAssumption DEF TypeOK, Keys
<1>4. StoredIsListed /\ CurrentRowsAreTheList /\ SheetKnowsTheStore
  BY <1>1 DEF StoredIsListed, CurrentRowsAreTheList, SheetKnowsTheStore
<1>5. NewestAsksForTheList
  BY <1>1, <1>2 DEF NewestAsksForTheList
<1> QED
  BY <1>3, <1>4, <1>5 DEF TrackerInv

(* Steps of the list.                                                      *)

LEMMA RelaunchKeeps == TrackerInv /\ Relaunch => TrackerInv'
<1> SUFFICES ASSUME TrackerInv, Relaunch PROVE TrackerInv'
  OBVIOUS
<1> USE DEF Relaunch
<1>1. defaults \in SUBSET Keys
  BY DEF TrackerInv, TypeOK
<1>2. /\ userCurrencyCodes' \in Seq(Keys)
      /\ Listed' = {USD} \cup defaults
      /\ Cardinality(Listed') = Len(userCurrencyCodes')
      /\ {USD} \cup defaults \subseteq Keys
  BY <1>1, LaunchedOrder DEF Listed
<1>3. /\ requests' \in Seq(Request) /\ Len(requests') <= MaxRequests
      /\ DOMAIN requests' = {1} /\ requests'[1].codes = {USD} \cup defaults
  BY <1>2, OnlyRequest
<1>4. TypeOK'
  BY <1>1, <1>2, <1>3, CodesAssumption DEF TypeOK, Keys
<1>5. (StoredIsListed /\ CurrentRowsAreTheList /\ SheetKnowsTheStore)'
  BY <1>2 DEF StoredIsListed, CurrentRowsAreTheList, SheetKnowsTheStore
<1>6. NewestAsksForTheList'
  BY <1>2, <1>3 DEF NewestAsksForTheList
<1> QED
  BY <1>4, <1>5, <1>6 DEF TrackerInv

LEMMA RefreshKeeps == TrackerInv /\ RefreshTapped => TrackerInv'
<1> SUFFICES ASSUME TrackerInv, RefreshTapped PROVE TrackerInv'
  OBVIOUS
<1>1. TypeOK /\ Listed \cup defaults \in SUBSET Keys
  BY DEF TrackerInv, TypeOK, Listed, ToSet
<1>2. /\ userCurrencyCodes' \in Seq(Keys)
      /\ Listed' = Listed \cup defaults
      /\ Cardinality(Listed') = Len(userCurrencyCodes')
  BY <1>1, ChangedList DEF RefreshTapped, GetUsersCurrency, Listed
<1>3. /\ requests' \in Seq(Request) /\ Len(requests') <= MaxRequests
      /\ NewestAsksForTheList' /\ current' = FALSE
  BY <1>1, <1>2, AskedForPrices DEF RefreshTapped, Listed
<1>4. TypeOK'
  BY <1>1, <1>2, <1>3
  DEF TypeOK, RefreshTapped, GetUsersCurrency, sheetVars
<1>5. (StoredIsListed /\ CurrentRowsAreTheList /\ SheetKnowsTheStore)'
  BY <1>2, <1>3
  DEF TrackerInv, RefreshTapped, sheetVars,
      StoredIsListed, CurrentRowsAreTheList, SheetKnowsTheStore
<1> QED
  BY <1>3, <1>4, <1>5 DEF TrackerInv

LEMMA DeleteKeeps ==
    ASSUME TrackerInv, NEW row \in DOMAIN rows, ~sheet, Delete(row)
    PROVE  /\ TrackerInv'
           /\ Listed' \subseteq Listed
<1>1. TypeOK /\ Listed \ {userCurrencyCodes[row]} \in SUBSET Keys
  BY DEF TrackerInv, TypeOK, Listed, ToSet
<1>2. /\ userCurrencyCodes' \in Seq(Keys)
      /\ Listed' = Listed \ {userCurrencyCodes[row]}
      /\ Cardinality(Listed') = Len(userCurrencyCodes')
  BY <1>1, ChangedList DEF Delete, Listed
<1>3. /\ requests' \in Seq(Request) /\ Len(requests') <= MaxRequests
      /\ NewestAsksForTheList' /\ current' = FALSE
  BY <1>1, <1>2, AskedForPrices DEF Delete, Listed
<1>4. TypeOK'
  BY <1>1, <1>2, <1>3 DEF TypeOK, Delete, sheetVars, Listed
<1>5. (StoredIsListed /\ CurrentRowsAreTheList /\ SheetKnowsTheStore)'
  BY <1>2, <1>3
  DEF TrackerInv, Delete, sheetVars, Listed,
      StoredIsListed, CurrentRowsAreTheList, SheetKnowsTheStore
<1> QED
  BY <1>2, <1>3, <1>4, <1>5 DEF TrackerInv

LEMMA TrapKeeps == TrackerInv /\ Trap => TrackerInv' /\ Listed' = Listed
<1> SUFFICES ASSUME TrackerInv, Trap PROVE TrackerInv' /\ Listed' = Listed
  OBVIOUS
<1> USE DEF Trap, listVars, sheetVars, TrackerInv
<1>1. TypeOK' /\ Listed' = Listed
  BY DEF TypeOK, Listed
<1> QED
  BY <1>1 DEF StoredIsListed, CurrentRowsAreTheList, NewestAsksForTheList,
              SheetKnowsTheStore

LEMMA CellKeeps ==
    ASSUME TrackerInv, NEW row \in DOMAIN rows, CellForRow(row)
    PROVE  TrackerInv' /\ Listed' = Listed
<1>1. CASE Trap
  BY <1>1, TrapKeeps
<1>2. CASE ~Trap
  <2> USE DEF CellForRow, sheetVars
  <2>1. /\ rows' = [rows EXCEPT ![row] = userCurrencyCodes[row]]
        /\ ~Beyond(row)
        /\ UNCHANGED <<defaults, running, userCurrencyCodes, bitcoinCurrency,
                       requests, current, unread, sheetVars>>
    BY <1>2
  <2>2. userCurrencyCodes[row] \in Keys
    BY <2>1 DEF TrackerInv, TypeOK, Beyond
  <2>3. rows' \in Seq(Keys)
    BY <2>1, <2>2 DEF TrackerInv, TypeOK
  <2>4. TypeOK' /\ Listed' = Listed
    BY <2>1, <2>3 DEF TrackerInv, TypeOK, Listed
  <2>5. CurrentRowsAreTheList'
    <3>1. SUFFICES ASSUME current PROVE rows' = userCurrencyCodes
      BY <2>1, <2>4 DEF TrackerInv, CurrentRowsAreTheList
    <3>2. rows = userCurrencyCodes
      BY <3>1 DEF TrackerInv, CurrentRowsAreTheList
    <3> QED
      BY <2>1, <3>2 DEF TrackerInv, TypeOK
  <2> QED
    BY <2>1, <2>4, <2>5
    DEF TrackerInv, StoredIsListed, NewestAsksForTheList, SheetKnowsTheStore
<1> QED
  BY <1>1, <1>2

(* Answers: an answer to the newest request is an answer for the list.     *)

LEMMA AnswerKeeps ==
    ASSUME TrackerInv, NEW i \in DOMAIN requests, Answer(i)
    PROVE  TrackerInv' /\ Listed' = Listed
<1> USE DEF Answer, sheetVars, TrackerInv
<1>1. requests \in Seq(Request)
  BY DEF TypeOK
<1>2. /\ requests' \in Seq(Request) /\ Len(requests') = Len(requests) - 1
      /\ \A j \in DOMAIN requests' : \E k \in DOMAIN requests : requests'[j] = requests[k]
  BY <1>1, RemainingRequests
<1>3. requests[i] \in Request
  BY <1>1
<1>4. /\ requests[i].codes \in SUBSET Keys
      /\ requests[i].newest \in BOOLEAN
  BY <1>3 DEF Request
<1>5. Len(requests') <= MaxRequests
  BY <1>1, <1>2, CodesAssumption DEF TypeOK
<1>6. TypeOK' /\ Listed' = Listed
  BY <1>2, <1>4, <1>5 DEF TypeOK, Quoted, Listed
<1>7. CurrentRowsAreTheList'
  BY <1>6 DEF CurrentRowsAreTheList, NewestAsksForTheList, Quoted
<1>8. NewestAsksForTheList'
  BY <1>2, <1>6 DEF NewestAsksForTheList
<1> QED
  BY <1>6, <1>7, <1>8 DEF StoredIsListed, SheetKnowsTheStore

LEMMA IgnoredKeeps ==
    ASSUME TrackerInv, NEW i \in DOMAIN requests, AnswerIgnored(i)
    PROVE  TrackerInv' /\ Listed' = Listed
<1> USE DEF AnswerIgnored, sheetVars, TrackerInv
<1>1. requests \in Seq(Request)
  BY DEF TypeOK
<1>2. /\ requests' \in Seq(Request) /\ Len(requests') = Len(requests) - 1
      /\ \A j \in DOMAIN requests' : \E k \in DOMAIN requests : requests'[j] = requests[k]
  BY <1>1, RemainingRequests
<1>3. Len(requests') <= MaxRequests
  BY <1>1, <1>2, CodesAssumption DEF TypeOK
<1>4. TypeOK' /\ Listed' = Listed
  BY <1>2, <1>3 DEF TypeOK, Listed
<1>5. NewestAsksForTheList'
  BY <1>2, <1>4 DEF NewestAsksForTheList
<1> QED
  BY <1>4, <1>5 DEF StoredIsListed, CurrentRowsAreTheList, SheetKnowsTheStore

(* Steps of the sheet leave the list alone.                                *)

SheetStep ==
    \/ OpenSheet
    \/ CurrenciesLoaded
    \/ \E code \in Codes : DidSelectRow(code)
    \/ AddTapped
    \/ SwipedAway

LEMMA SheetKeeps == TrackerInv /\ SheetStep => TrackerInv' /\ Listed' = Listed
<1> SUFFICES ASSUME TrackerInv, SheetStep PROVE TrackerInv' /\ Listed' = Listed
  OBVIOUS
<1> USE DEF listVars, TrackerInv
<1>1. UNCHANGED listVars
  BY DEF SheetStep, OpenSheet, CurrenciesLoaded, DidSelectRow, AddTapped, SwipedAway
<1>2. Listed' = Listed
  BY <1>1 DEF Listed
<1>3. CurrentRowsAreTheList' /\ NewestAsksForTheList'
  BY <1>1, <1>2 DEF CurrentRowsAreTheList, NewestAsksForTheList
<1>4. (TypeOK /\ StoredIsListed /\ SheetKnowsTheStore)'
  <2> USE <1>1, <1>2 DEF TypeOK, StoredIsListed, SheetKnowsTheStore, Keys
  <2>1. CASE OpenSheet
    BY <2>1 DEF OpenSheet
  <2>2. CASE CurrenciesLoaded
    BY <2>2 DEF CurrenciesLoaded
  <2>3. CASE \E code \in Codes : DidSelectRow(code)
    BY <2>3 DEF DidSelectRow
  <2>4. CASE AddTapped
    BY <2>4 DEF AddTapped
  <2>5. CASE SwipedAway
    BY <2>5 DEF SwipedAway
  <2> QED
    BY <2>1, <2>2, <2>3, <2>4, <2>5 DEF SheetStep
<1> QED
  BY <1>2, <1>3, <1>4

-----------------------------------------------------------------------------
LEMMA StutterKeeps == TrackerInv /\ UNCHANGED vars => TrackerInv' /\ Listed' = Listed
<1> SUFFICES ASSUME TrackerInv, UNCHANGED vars
             PROVE  TrackerInv' /\ Listed' = Listed
  OBVIOUS
<1> USE DEF vars, listVars, sheetVars, TrackerInv
<1>1. TypeOK' /\ Listed' = Listed
  BY DEF TypeOK, Listed
<1> QED
  BY <1>1 DEF StoredIsListed, CurrentRowsAreTheList, NewestAsksForTheList,
              SheetKnowsTheStore

(* Every step keeps the invariant, and only Refresh and a launch put codes *)
(* on the list.                                                            *)
LEMMA TrackerStep ==
    ASSUME TrackerInv, [Next]_vars
    PROVE  /\ TrackerInv'
           /\ Listed' \subseteq Listed \/ RefreshTapped \/ Relaunch
<1>1. CASE RefreshTapped
  BY <1>1, RefreshKeeps
<1>2. ASSUME NEW row \in DOMAIN rows, CommitDelete(row)
      PROVE  TrackerInv' /\ Listed' \subseteq Listed
  BY <1>2, DeleteKeeps, TrapKeeps DEF CommitDelete
<1>3. ASSUME NEW row \in DOMAIN rows, CellForRow(row)
      PROVE  TrackerInv' /\ Listed' \subseteq Listed
  BY <1>3, CellKeeps
<1>4. CASE SheetStep
  BY <1>4, SheetKeeps
<1>5. CASE Service
  BY <1>5, AnswerKeeps, IgnoredKeeps DEF Service
<1>6. CASE Relaunch
  BY <1>6, RelaunchKeeps
<1>7. CASE UNCHANGED vars
  BY <1>7, StutterKeeps
<1> QED
  BY <1>1, <1>2, <1>3, <1>4, <1>5, <1>6, <1>7 DEF Next, User, SheetStep

LEMMA TrackerInvariant == Spec => []TrackerInv
<1>1. Init => TrackerInv
  BY TrackerInitially
<1>2. TrackerInv /\ [Next]_vars => TrackerInv'
  BY TrackerStep
<1> QED
  BY <1>1, <1>2, PTL DEF Spec

(* Type correctness of the price tracker.                                  *)
THEOREM TrackerTypeCorrect == Spec => []TypeOK
<1>1. TrackerInv => TypeOK
  BY DEF TrackerInv
<1> QED
  BY <1>1, TrackerInvariant, PTL

(* Once the last request has been answered the rows are the list, with a   *)
(* price each (ViewController.swift:59-66, :113-129).                      *)
THEOREM TrackerRowsAreTheList == Spec => []CurrentRowsAreTheList
<1>1. TrackerInv => CurrentRowsAreTheList
  BY DEF TrackerInv
<1> QED
  BY <1>1, TrackerInvariant, PTL

(* A stored code is on the list or was added on the sheet since the list   *)
(* last read the store (ViewController.swift:77-98,                        *)
(* AddCurrencyViewController.swift:99-119).                                *)
THEOREM TrackerStoredIsListed == Spec => []StoredIsListed
<1>1. TrackerInv => StoredIsListed
  BY DEF TrackerInv
<1> QED
  BY <1>1, TrackerInvariant, PTL

(* What was deleted does not come back while the application runs, except  *)
(* through the sheet (ViewController.swift:82).                            *)
THEOREM TrackerDeletedStaysDeleted == Spec => DeletedStaysDeleted
<1>1. ASSUME TrackerInv, [Next]_vars, running
      PROVE  ToSet(userCurrencyCodes') \subseteq Listed \cup unread \/ Relaunch
  <2>1. CASE RefreshTapped
    <3>1. TypeOK /\ Listed \cup defaults \in SUBSET Keys
      BY <1>1 DEF TrackerInv, TypeOK, Listed, ToSet
    <3>2. ToSet(userCurrencyCodes') = Listed \cup defaults
      BY <2>1, <3>1, ChangedList DEF RefreshTapped, GetUsersCurrency
    <3> QED
      BY <1>1, <3>2 DEF TrackerInv, StoredIsListed
  <2>2. CASE Listed' \subseteq Listed
    BY <2>2 DEF Listed
  <2> QED
    BY <1>1, <2>1, <2>2, TrackerStep
<1>2. TrackerInv /\ [Next]_vars =>
         [running => \/ ToSet(userCurrencyCodes') \subseteq Listed \cup unread
                     \/ Relaunch]_vars
  BY <1>1
<1> QED
  BY <1>2, TrackerInvariant, PTL DEF Spec, DeletedStaysDeleted

(* Add, which overwrites the store with what the sheet has, loses nothing  *)
(* (AddCurrencyViewController.swift:32,:37-42).                            *)
THEOREM TrackerAddLosesNothing == Spec => AddLosesNothing
<1>1. ASSUME TrackerInv, [Next]_vars, sheet, sheet'
      PROVE  defaults \subseteq defaults'
  <2>1. CASE AddTapped
    BY <1>1, <2>1 DEF AddTapped, TrackerInv, SheetKnowsTheStore
  <2>2. CASE ~AddTapped
    BY <1>1, <2>2
    DEF Next, User, RefreshTapped, CommitDelete, CellForRow, Trap, OpenSheet,
        DidSelectRow, SwipedAway, Service, Answer, AnswerIgnored,
        CurrenciesLoaded, Relaunch, vars
  <2> QED
    BY <2>1, <2>2
<1>2. TrackerInv /\ [Next]_vars => [sheet /\ sheet' => defaults \subseteq defaults']_vars
  BY <1>1
<1> QED
  BY <1>2, TrackerInvariant, PTL DEF Spec, AddLosesNothing

(* An index is out of range only while the rows are not those of the last  *)
(* request (ViewController.swift:50-52,:59).                               *)
THEOREM TrackerTrapsOnlyOnStaleRows == Spec => TrapsOnlyOnStaleRows
<1>1. ASSUME TrackerInv, [Next]_vars, running, ~running'
      PROVE  ~current
  <2>1. \E row \in DOMAIN rows : Beyond(row)
    BY <1>1
    DEF Next, User, RefreshTapped, CommitDelete, Delete, CellForRow, OpenSheet,
        DidSelectRow, AddTapped, SwipedAway, Service, Answer, AnswerIgnored,
        CurrenciesLoaded, Relaunch, vars
  <2>2. current => DOMAIN rows = 1 .. Len(userCurrencyCodes)
    BY <1>1 DEF TrackerInv, TypeOK, CurrentRowsAreTheList
  <2>3. Len(userCurrencyCodes) \in Nat
    BY <1>1 DEF TrackerInv, TypeOK
  <2> QED
    BY <2>1, <2>2, <2>3 DEF Beyond
<1>2. TrackerInv /\ [Next]_vars => [running /\ ~running' => ~current]_vars
  BY <1>1
<1> QED
  BY <1>2, TrackerInvariant, PTL DEF Spec, TrapsOnlyOnStaleRows

-----------------------------------------------------------------------------
(* What weak fairness asks of the service: the oldest request can end      *)
(* while the application runs.  AnswerIgnored has no guard of its own and  *)
(* takes the request off the queue.  ENABLED is not expanded by the        *)
(* provers, so this is a hypothesis below.                                 *)
RequestsCanEnd == running /\ requests # <<>> => ENABLED <<OldestRequestEnds>>_vars

\* The request in the i-th place is one that the service can answer.
AskedAt(i) == i \in DOMAIN requests /\ Quoted(requests[i]) # {}

LEMMA CodesAreKeys ==
    ASSUME NEW seq \in Seq(Keys)
    PROVE  ToSet(seq) \subseteq Keys
BY DEF ToSet

(* Whatever ends, is added or is relaunched, a request that can be         *)
(* answered keeps its place, moves up by one, or the rows have caught up.  *)
LEMMA AskedStays ==
    ASSUME TrackerInv, NEW i \in Nat, AskedAt(i), running, [Next]_vars, IgnoredRightly
    PROVE  AskedAt(i)' \/ (i > 1 /\ AskedAt(i - 1)') \/ CaughtUp'
<1>1. /\ requests \in Seq(Request) /\ Len(requests) \in Nat
      /\ i \in 1 .. Len(requests) /\ Quoted(requests[i]) # {}
      /\ TypeOK
  BY DEF TrackerInv, TypeOK, AskedAt
<1>2. ASSUME GetBitcoinPrices, ToSet(userCurrencyCodes') \subseteq Keys
      PROVE  AskedAt(i)'
  BY <1>1, <1>2, AskedForPrices DEF AskedAt, Quoted
<1>3. ASSUME UNCHANGED requests
      PROVE  AskedAt(i)'
  BY <1>3 DEF AskedAt
<1>4. ASSUME NEW j \in DOMAIN requests, Answer(j)
      PROVE  CaughtUp'
  BY <1>4 DEF Answer, CaughtUp
<1>5. ASSUME NEW j \in DOMAIN requests, AnswerIgnored(j)
      PROVE  AskedAt(i)' \/ (i > 1 /\ AskedAt(i - 1)')
  <2>1. j # i /\ j \in 1 .. Len(requests) /\ requests' = RemoveAt(requests, j)
    BY <1>1, <1>5 DEF AnswerIgnored, IgnoredRightly
  <2>2. /\ DOMAIN requests' = 1 .. Len(requests) - 1
        /\ \A k \in 1 .. Len(requests) - 1 :
              requests'[k] = IF k <= j - 1 THEN requests[k] ELSE requests[k + 1]
    <3>1. /\ RemoveAt(requests, j) \in Seq(Request)
          /\ Len(RemoveAt(requests, j)) = Len(requests) - 1
          /\ \A k \in 1 .. Len(requests) - 1 :
                RemoveAt(requests, j)[k] = IF k <= j - 1 THEN requests[k] ELSE requests[k + 1]
      BY <1>1, <1>5, RemainingRequests
    <3>2. DOMAIN RemoveAt(requests, j) = 1 .. Len(requests) - 1
      BY <3>1
    <3> QED
      BY <2>1, <3>1, <3>2
  <2>3. CASE i < j
    BY <1>1, <2>1, <2>2, <2>3 DEF AskedAt, Quoted
  <2>4. CASE i > j
    <3>1. i - 1 \in 1 .. Len(requests) - 1 /\ ~(i - 1 <= j - 1) /\ (i - 1) + 1 = i
      BY <1>1, <2>1, <2>4
    <3>2. requests'[i - 1] = requests[i]
      BY <2>2, <3>1
    <3> QED
      BY <1>1, <2>2, <3>1, <3>2 DEF AskedAt, Quoted
  <2> QED
    BY <1>1, <2>1, <2>3, <2>4
<1>6. CASE RefreshTapped
  <2>1. ToSet(userCurrencyCodes') \subseteq Keys
    <3>1. userCurrencyCodes' \in Seq(Keys)
      BY <1>6, RefreshKeeps DEF TrackerInv, TypeOK
    <3> QED
      BY <3>1, CodesAreKeys
  <2> QED
    BY <1>2, <1>6, <2>1 DEF RefreshTapped
<1>7. ASSUME NEW row \in DOMAIN rows, CommitDelete(row)
      PROVE  AskedAt(i)'
  <2>1. CASE Trap
    BY <1>3, <2>1 DEF Trap, listVars
  <2>2. CASE Delete(row)
    <3>1. ToSet(userCurrencyCodes') \subseteq Keys
      <4>1. userCurrencyCodes' \in Seq(Keys)
        BY <1>7, <2>2, DeleteKeeps DEF CommitDelete, TrackerInv, TypeOK
      <4> QED
        BY <4>1, CodesAreKeys
    <3> QED
      BY <1>2, <2>2, <3>1 DEF Delete
  <2> QED
    BY <1>7, <2>1, <2>2 DEF CommitDelete
<1>8. ASSUME NEW row \in DOMAIN rows, CellForRow(row)
      PROVE  AskedAt(i)'
  BY <1>3, <1>8 DEF CellForRow, Trap, listVars
<1>9. CASE SheetStep \/ UNCHANGED vars
  BY <1>3, <1>9 DEF SheetStep, OpenSheet, CurrenciesLoaded, DidSelectRow, AddTapped,
                    SwipedAway, listVars, vars
<1>10. CASE Relaunch
  BY <1>10 DEF Relaunch, CaughtUp
<1> QED
  BY <1>4, <1>5, <1>6, <1>7, <1>8, <1>9, <1>10 DEF Next, User, Service, SheetStep

(* The oldest request ends with the table reloaded, or makes the others    *)
(* move up.                                                                *)
LEMMA OldestMakesProgress ==
    ASSUME TrackerInv, NEW i \in Nat, AskedAt(i), OldestRequestEnds, IgnoredRightly
    PROVE  (i > 1 /\ AskedAt(i - 1)') \/ CaughtUp'
<1>1. /\ requests \in Seq(Request) /\ Len(requests) \in Nat
      /\ i \in 1 .. Len(requests) /\ Quoted(requests[i]) # {}
      /\ 1 \in DOMAIN requests
  BY DEF TrackerInv, TypeOK, AskedAt
<1>2. CASE Answer(1)
  BY <1>2 DEF Answer, CaughtUp
<1>3. CASE AnswerIgnored(1)
  <2>1. i # 1 /\ requests' = RemoveAt(requests, 1)
    BY <1>1, <1>3 DEF AnswerIgnored, IgnoredRightly
  <2>2. /\ DOMAIN requests' = 1 .. Len(requests) - 1
        /\ \A k \in 1 .. Len(requests) - 1 :
              requests'[k] = IF k <= 0 THEN requests[k] ELSE requests[k + 1]
    BY <1>1, <2>1, RemainingRequests
  <2>3. i - 1 \in 1 .. Len(requests) - 1 /\ ~(i - 1 <= 0) /\ (i - 1) + 1 = i
    BY <1>1, <2>1
  <2>4. requests'[i - 1] = requests[i]
    BY <2>2, <2>3
  <2> QED
    BY <1>1, <2>2, <2>3, <2>4 DEF AskedAt, Quoted
<1> QED
  BY <1>2, <1>3 DEF OldestRequestEnds

(* A request that can be answered, i-th in line, leads to rows that are    *)
(* the list, or moves up: the step that RowsCatchUp is an induction of,    *)
(* for any number of requests and any order of their answers.              *)
MovesUp(i) == AnswersWhatItCan /\ AskedAt(i) ~> CaughtUp \/ AskedAt(i - 1)

FirstIsAnswered(i) == AnswersWhatItCan /\ AskedAt(i) ~> CaughtUp

THEOREM TrackerRequestsMoveUp ==
    ASSUME NEW i \in Nat
    PROVE  Spec /\ []RequestsCanEnd => IF i > 1 THEN MovesUp(i) ELSE FirstIsAnswered(i)
<1> DEFINE Waiting == AskedAt(i) /\ ~CaughtUp
<1>1. Waiting => running /\ AskedAt(i)
  BY DEF CaughtUp
<1>2. TrackerInv /\ Waiting /\ [Next]_vars /\ [IgnoredRightly]_vars =>
         AskedAt(i)' \/ (i > 1 /\ AskedAt(i - 1)') \/ CaughtUp'
  <2>1. CASE UNCHANGED vars
    BY <2>1 DEF vars, listVars, AskedAt, Quoted
  <2> QED
    BY <1>1, <2>1, AskedStays
<1>3. TrackerInv /\ Waiting /\ [IgnoredRightly]_vars /\ <<OldestRequestEnds>>_vars =>
         (i > 1 /\ AskedAt(i - 1)') \/ CaughtUp'
  BY OldestMakesProgress
<1>4. RequestsCanEnd => (Waiting => ENABLED <<OldestRequestEnds>>_vars)
  BY <1>1 DEF RequestsCanEnd, AskedAt, TrackerInv, TypeOK
<1>5. CASE i > 1
  <2>1. TrackerInv /\ Waiting /\ [Next]_vars /\ [IgnoredRightly]_vars =>
           AskedAt(i)' \/ AskedAt(i - 1)' \/ CaughtUp'
    BY <1>2
  <2>2. TrackerInv /\ Waiting /\ [IgnoredRightly]_vars /\ <<OldestRequestEnds>>_vars =>
           AskedAt(i - 1)' \/ CaughtUp'
    BY <1>3
  <2>3. Spec /\ []RequestsCanEnd => MovesUp(i)
    BY <1>4, <2>1, <2>2, TrackerInvariant, PTL DEF Spec, AnswersWhatItCan, MovesUp
  <2> QED
    BY <1>5, <2>3
<1>6. CASE ~(i > 1)
  <2>1. TrackerInv /\ Waiting /\ [Next]_vars /\ [IgnoredRightly]_vars =>
           AskedAt(i)' \/ CaughtUp'
    BY <1>2, <1>6
  <2>2. TrackerInv /\ Waiting /\ [IgnoredRightly]_vars /\ <<OldestRequestEnds>>_vars =>
           CaughtUp'
    BY <1>3, <1>6
  <2>3. Spec /\ []RequestsCanEnd => FirstIsAnswered(i)
    BY <1>4, <2>1, <2>2, TrackerInvariant, PTL DEF Spec, AnswersWhatItCan, FirstIsAnswered
  <2> QED
    BY <1>6, <2>3
<1> QED
  BY <1>5, <1>6

(* A request that can be answered, at most n-th in line, is answered or    *)
(* overtaken by an answer.                                                 *)
AskedWithin(n) == \E i \in 1 .. n : AskedAt(i)

Reaches(n) == AnswersWhatItCan /\ AskedWithin(n) ~> CaughtUp

Served == Spec /\ []RequestsCanEnd

LEMMA ReachesNone == Served => Reaches(0)
<1>1. ~AskedWithin(0)
  BY DEF AskedWithin
<1> QED
  BY <1>1, PTL DEF Reaches

LEMMA ReachesOneMore ==
    ASSUME NEW n \in Nat
    PROVE  Served => (Reaches(n) => Reaches(n + 1))
<1>1. AskedWithin(n + 1) => AskedWithin(n) \/ AskedAt(n + 1)
  BY DEF AskedWithin
<1>2. CASE n = 0
  <2>1. Spec /\ []RequestsCanEnd =>
           IF n + 1 > 1 THEN MovesUp(n + 1) ELSE FirstIsAnswered(n + 1)
    BY TrackerRequestsMoveUp
  <2>2. ~(n + 1 > 1)
    BY <1>2
  <2>3. Spec /\ []RequestsCanEnd => FirstIsAnswered(n + 1)
    BY <2>1, <2>2
  <2> QED
    BY <1>1, <2>3, PTL DEF Served, Reaches, FirstIsAnswered, AnswersWhatItCan
<1>3. CASE n # 0
  <2>1. Spec /\ []RequestsCanEnd =>
           IF n + 1 > 1 THEN MovesUp(n + 1) ELSE FirstIsAnswered(n + 1)
    BY TrackerRequestsMoveUp
  <2>2. n + 1 > 1
    BY <1>3
  <2>3. Spec /\ []RequestsCanEnd => MovesUp(n + 1)
    BY <2>1, <2>2
  <2>4. AskedAt((n + 1) - 1) => AskedWithin(n)
    BY <1>3, (n + 1) - 1 = n DEF AskedWithin
  <2> QED
    BY <1>1, <2>3, <2>4, PTL DEF Served, Reaches, MovesUp, AnswersWhatItCan
<1> QED
  BY <1>2, <1>3

(* What is reached from n is reached from k more, and two such steps make  *)
(* one of k + k: the provers have no induction over formulas of temporal   *)
(* logic, but sixteen doublings reach 65536 requests in flight.            *)
ReachesFrom(k) == \A n \in Nat : Served => (Reaches(n) => Reaches(n + k))

LEMMA ReachesTwice ==
    ASSUME NEW k \in Nat, ReachesFrom(k)
    PROVE  ReachesFrom(k + k)
<1> SUFFICES ASSUME NEW n \in Nat
             PROVE  Served => (Reaches(n) => Reaches(n + (k + k)))
  BY DEF ReachesFrom
<1>1. Served => (Reaches(n) => Reaches(n + k))
  BY DEF ReachesFrom
<1>2. Served => (Reaches(n + k) => Reaches((n + k) + k))
  BY DEF ReachesFrom
<1>3. (n + k) + k = n + (k + k)
  OBVIOUS
<1> HIDE DEF Served, Reaches
<1> QED
  BY <1>1, <1>2, <1>3

\* How many requests the proof reaches; any power of two would do.
Most == 65536

LEMMA ReachesAll == Served => Reaches(Most)
<1> HIDE DEF Served, Reaches, ReachesFrom
<1>0. ReachesFrom(1)
  BY ReachesOneMore DEF ReachesFrom
<1>1. ReachesFrom(2)
  BY <1>0, ReachesTwice, 1 + 1 = 2
<1>2. ReachesFrom(4)
  BY <1>1, ReachesTwice, 2 + 2 = 4
<1>3. ReachesFrom(8)
  BY <1>2, ReachesTwice, 4 + 4 = 8
<1>4. ReachesFrom(16)
  BY <1>3, ReachesTwice, 8 + 8 = 16
<1>5. ReachesFrom(32)
  BY <1>4, ReachesTwice, 16 + 16 = 32
<1>6. ReachesFrom(64)
  BY <1>5, ReachesTwice, 32 + 32 = 64
<1>7. ReachesFrom(128)
  BY <1>6, ReachesTwice, 64 + 64 = 128
<1>8. ReachesFrom(256)
  BY <1>7, ReachesTwice, 128 + 128 = 256
<1>9. ReachesFrom(512)
  BY <1>8, ReachesTwice, 256 + 256 = 512
<1>10. ReachesFrom(1024)
  BY <1>9, ReachesTwice, 512 + 512 = 1024
<1>11. ReachesFrom(2048)
  BY <1>10, ReachesTwice, 1024 + 1024 = 2048
<1>12. ReachesFrom(4096)
  BY <1>11, ReachesTwice, 2048 + 2048 = 4096
<1>13. ReachesFrom(8192)
  BY <1>12, ReachesTwice, 4096 + 4096 = 8192
<1>14. ReachesFrom(16384)
  BY <1>13, ReachesTwice, 8192 + 8192 = 16384
<1>15. ReachesFrom(32768)
  BY <1>14, ReachesTwice, 16384 + 16384 = 32768
<1>16. ReachesFrom(65536)
  BY <1>15, ReachesTwice, 32768 + 32768 = 65536
<1>17. Served => (Reaches(0) => Reaches(0 + 65536))
  BY <1>16 DEF ReachesFrom
<1> QED
  BY <1>17, ReachesNone, 0 + 65536 = Most DEF Most

(* With up to 65536 requests in flight (the model has one for each reload  *)
(* the user asks for and the service has not answered) the rows are the    *)
(* list again and again, for any currencies and any order of the answers.  *)
THEOREM TrackerRowsCatchUp ==
    MaxRequests <= Most => (Spec /\ []RequestsCanEnd => RowsCatchUp)
<1> SUFFICES ASSUME MaxRequests <= Most
             PROVE  Spec /\ []RequestsCanEnd => RowsCatchUp
  OBVIOUS
<1>1. TrackerInv /\ Asked => AskedWithin(Most)
  <2> SUFFICES ASSUME TrackerInv, NEW i \in DOMAIN requests, Quoted(requests[i]) # {}
               PROVE  AskedWithin(Most)
    BY DEF Asked
  <2>1. i \in 1 .. Len(requests) /\ Len(requests) \in Nat /\ Len(requests) <= Most
          /\ Most \in Nat
    BY CodesAssumption DEF TrackerInv, TypeOK, Most
  <2>2. i \in 1 .. Most
    BY <2>1
  <2> QED
    BY <2>2 DEF AskedAt, AskedWithin
<1> QED
  BY <1>1, ReachesAll, TrackerInvariant, PTL
     DEF Served, Reaches, RowsCatchUp, AnswersWhatItCan

=============================================================================
