---------------------------- MODULE PriceTracker ----------------------------
(***************************************************************************)
(* Bitcoint Price Tracker: a list of the currencies the user follows, and  *)
(* a sheet on which one is added.  The two share nothing but a set of      *)
(* codes in UserDefaults.  The list reads it when it appears and when      *)
(* Refresh is tapped, and overwrites it when a row is deleted; the sheet   *)
(* reads it when it loads and overwrites it when Add is tapped.  The sheet *)
(* is a card that does not cover the list (Main.storyboard:124), so the    *)
(* list does not appear again when the sheet is swiped away.               *)
(*                                                                         *)
(* Prices come from a service that may answer late, out of order or not at *)
(* all.  Only an answer reloads the table: between a change of the set of  *)
(* codes and that answer the rows on the screen are those of before.       *)
(***************************************************************************)
EXTENDS Integers, FiniteSets, Sequences, SequencesExt

CONSTANTS
    Codes,        \* the currency codes of Common-Currency.json
    USD,          \* the one the list adds by itself
    Placeholder,  \* "Label", what the sheet shows until it has the codes
    MaxRequests   \* bound: price requests in flight at a time

ASSUME CodesAssumption ==
    /\ USD \in Codes
    /\ Placeholder \notin Codes
    /\ IsFiniteSet(Codes)
    /\ MaxRequests \in Nat \ {0}

VARIABLES
    defaults,           \* UserDefaults "currency": the codes stored, if any
    running,            \* FALSE: the process has trapped
    userCurrencyCodes,  \* the list's Set, in its present order of iteration
    bitcoinCurrency,    \* the codes whose price the list knows
    rows,               \* the codes on the table's rows
    requests,           \* price requests in flight, oldest first
    current,            \* history: the last answer was to the last request
    unread,             \* history: added since the list last read defaults
    sheet,              \* the sheet is up
    loaded,             \* it has the currencies, and its picker has rows
    chosenValueLabel,   \* the code it would add
    addedCurrencies     \* the codes it would store

listVars == <<userCurrencyCodes, bitcoinCurrency, rows, requests, current>>
sheetVars == <<sheet, loaded, chosenValueLabel, addedCurrencies>>
vars == <<defaults, running, listVars, unread, sheetVars>>

Keys == Codes \cup {Placeholder}

(* A Set's order of iteration is unspecified: after a change, any order.   *)
InSomeOrder(seq, S) ==
    IF S = ToSet(seq) THEN seq' = seq ELSE seq' \in SetToSeqs(S)

Listed == ToSet(userCurrencyCodes)

Request == [codes : SUBSET Keys, newest : BOOLEAN]

TypeOK ==
    /\ defaults \subseteq Keys
    /\ running \in BOOLEAN
    /\ userCurrencyCodes \in Seq(Keys)
    /\ Cardinality(Listed) = Len(userCurrencyCodes)
    /\ bitcoinCurrency \subseteq Codes
    /\ rows \in Seq(Keys)
    /\ requests \in Seq(Request)
    /\ Len(requests) <= MaxRequests
    /\ current \in BOOLEAN
    /\ unread \subseteq Keys
    /\ sheet \in BOOLEAN
    /\ loaded \in BOOLEAN
    /\ chosenValueLabel \in Keys
    /\ addedCurrencies \subseteq Keys

-----------------------------------------------------------------------------
(* getBitcoinPrices asks for the codes of the list as it is now.           *)
GetBitcoinPrices ==
    /\ Len(requests) < MaxRequests
    /\ requests' =
          Append([i \in DOMAIN requests |-> [requests[i] EXCEPT !.newest = FALSE]],
                 [codes |-> ToSet(userCurrencyCodes'), newest |-> TRUE])
    /\ current' = FALSE

\* Mutants of GetUsersCurrency: it reads only into an empty list; it adds
\* what was stored last without looking whether the list has it.
GetUsersCurrencyOnce ==
    /\ InSomeOrder(userCurrencyCodes, IF Listed = {} THEN defaults ELSE Listed)
    /\ unread' = {}

GetUsersCurrencyAppends ==
    /\ \E added \in SetToSeqs(unread) : userCurrencyCodes' = userCurrencyCodes \o added
    /\ unread' = {}

(* getUsersCurrency adds what is stored to the list.                       *)
GetUsersCurrency ==
    /\ InSomeOrder(userCurrencyCodes, Listed \cup defaults)
    /\ unread' = {}

SheetClosed ==
    /\ sheet = FALSE
    /\ loaded = FALSE
    /\ chosenValueLabel = Placeholder
    /\ addedCurrencies = {}

(* The process starts and the list appears: viewWillAppear, then the       *)
(* table's first layout.                                                   *)
Launched ==
    /\ running = TRUE
    /\ userCurrencyCodes \in SetToSeqs({USD} \cup defaults)
    /\ bitcoinCurrency = {}
    /\ rows = userCurrencyCodes
    /\ requests = <<[codes |-> {USD} \cup defaults, newest |-> TRUE]>>
    /\ current = FALSE
    /\ unread = {}
    /\ SheetClosed

Init == defaults = {} /\ Launched

(* The process ends, by a trap or otherwise, and the application is        *)
(* launched again: only UserDefaults is left.                              *)
Relaunch ==
    /\ running' = TRUE
    /\ userCurrencyCodes' \in SetToSeqs({USD} \cup defaults)
    /\ bitcoinCurrency' = {}
    /\ rows' = userCurrencyCodes'
    /\ requests' = <<[codes |-> {USD} \cup defaults, newest |-> TRUE]>>
    /\ current' = FALSE
    /\ unread' = {}
    /\ sheet' = FALSE
    /\ loaded' = FALSE
    /\ chosenValueLabel' = Placeholder
    /\ addedCurrencies' = {}
    /\ UNCHANGED defaults

-----------------------------------------------------------------------------
(* The list.                                                               *)

RefreshTapped ==
    /\ running /\ ~sheet
    /\ GetUsersCurrency
    /\ GetBitcoinPrices
    /\ UNCHANGED <<defaults, running, bitcoinCurrency, rows, sheetVars>>

(* An index beyond the end of the Set ends the process.                    *)
Trap ==
    /\ running' = FALSE
    /\ UNCHANGED <<defaults, listVars, unread, sheetVars>>

\* Mutant of Beyond: off by one.
BeyondLast(row) == row >= Len(userCurrencyCodes)

Beyond(row) == row > Len(userCurrencyCodes)

\* Mutants of Delete: new prices are not asked for; the Set is not stored.
DeleteUnasked(row) ==
    /\ ~Beyond(row)
    /\ InSomeOrder(userCurrencyCodes, Listed \ {userCurrencyCodes[row]})
    /\ defaults' = ToSet(userCurrencyCodes')
    /\ unread' = {}
    /\ UNCHANGED <<running, bitcoinCurrency, rows, requests, current, sheetVars>>

DeleteUnstored(row) ==
    /\ ~Beyond(row)
    /\ InSomeOrder(userCurrencyCodes, Listed \ {userCurrencyCodes[row]})
    /\ GetBitcoinPrices
    /\ UNCHANGED <<defaults, running, bitcoinCurrency, rows, unread, sheetVars>>

(* Delete on a row: the element that has its index now leaves the Set, and *)
(* the Set is stored.  The rows wait for the prices.                       *)
Delete(row) ==
    /\ ~Beyond(row)
    /\ InSomeOrder(userCurrencyCodes, Listed \ {userCurrencyCodes[row]})
    /\ defaults' = ToSet(userCurrencyCodes')
    /\ unread' = {}
    /\ GetBitcoinPrices
    /\ UNCHANGED <<running, bitcoinCurrency, rows, sheetVars>>

CommitDelete(row) ==
    /\ running /\ ~sheet
    /\ Delete(row) \/ (Beyond(row) /\ Trap)

(* A row is scrolled back onto the screen: its cell is built anew, from    *)
(* the Set as it is now.                                                   *)
CellForRow(row) ==
    /\ running /\ ~sheet
    /\ \/ /\ ~Beyond(row)
          /\ rows' = [rows EXCEPT ![row] = userCurrencyCodes[row]]
          /\ UNCHANGED <<defaults, running, userCurrencyCodes, bitcoinCurrency,
                         requests, current, unread, sheetVars>>
       \/ Beyond(row) /\ Trap

(* The service answers for the codes it knows, and with an error document  *)
(* if it is asked for none of those.                                       *)
Quoted(request) == request.codes \cap Codes

\* Mutant of Answer: the table is reloaded only for other currencies.
AnswerToOthers(i) ==
    /\ running
    /\ Quoted(requests[i]) # {}
    /\ bitcoinCurrency' = Quoted(requests[i])
    /\ rows' = IF bitcoinCurrency' = bitcoinCurrency THEN rows ELSE userCurrencyCodes
    /\ current' = requests[i].newest
    /\ requests' = RemoveAt(requests, i)
    /\ UNCHANGED <<defaults, running, userCurrencyCodes, unread, sheetVars>>

Answer(i) ==
    /\ running
    /\ Quoted(requests[i]) # {}
    /\ bitcoinCurrency' = Quoted(requests[i])
    /\ rows' = userCurrencyCodes
    /\ current' = requests[i].newest
    /\ requests' = RemoveAt(requests, i)
    /\ UNCHANGED <<defaults, running, userCurrencyCodes, unread, sheetVars>>

(* No data, or data that cannot be decoded: nothing is done.               *)
AnswerIgnored(i) ==
    /\ running
    /\ requests' = RemoveAt(requests, i)
    /\ UNCHANGED <<defaults, running, userCurrencyCodes, bitcoinCurrency, rows,
                   current, unread, sheetVars>>

-----------------------------------------------------------------------------
(* The sheet.                                                              *)

\* Mutant of OpenSheet: the store is not read.
OpenSheetUnread ==
    /\ running /\ ~sheet
    /\ sheet' = TRUE
    /\ addedCurrencies' = {}
    /\ UNCHANGED <<defaults, running, listVars, unread, loaded, chosenValueLabel>>

OpenSheet ==
    /\ running /\ ~sheet
    /\ sheet' = TRUE
    /\ addedCurrencies' = defaults
    /\ UNCHANGED <<defaults, running, listVars, unread, loaded, chosenValueLabel>>

(* The currencies have been read from the bundle; the first is chosen.     *)
CurrenciesLoaded ==
    /\ running /\ sheet /\ ~loaded
    /\ loaded' = TRUE
    /\ chosenValueLabel' \in Codes
    /\ UNCHANGED <<defaults, running, listVars, unread, sheet, addedCurrencies>>

DidSelectRow(code) ==
    /\ running /\ sheet /\ loaded
    /\ chosenValueLabel' = code
    /\ UNCHANGED <<defaults, running, listVars, unread, sheet, loaded, addedCurrencies>>

AddTapped ==
    /\ running /\ sheet
    /\ addedCurrencies' = addedCurrencies \cup {chosenValueLabel}
    /\ defaults' = addedCurrencies'
    /\ unread' = unread \cup {chosenValueLabel}
    /\ UNCHANGED <<running, listVars, sheet, loaded, chosenValueLabel>>

SwipedAway ==
    /\ running /\ sheet
    /\ sheet' = FALSE
    /\ loaded' = FALSE
    /\ chosenValueLabel' = Placeholder
    /\ addedCurrencies' = {}
    /\ UNCHANGED <<defaults, running, listVars, unread>>

-----------------------------------------------------------------------------
User ==
    \/ RefreshTapped
    \/ \E row \in DOMAIN rows : CommitDelete(row) \/ CellForRow(row)
    \/ OpenSheet
    \/ \E code \in Codes : DidSelectRow(code)
    \/ AddTapped
    \/ SwipedAway

OldestRequestEnds == requests # <<>> /\ (Answer(1) \/ AnswerIgnored(1))

Service == \E i \in DOMAIN requests : Answer(i) \/ AnswerIgnored(i)

Next == User \/ Service \/ CurrenciesLoaded \/ Relaunch

(* Every request is answered or times out in the end, whatever the order.  *)
(* Nothing is assumed of the user.                                         *)
Spec == Init /\ [][Next]_vars /\ WF_vars(OldestRequestEnds)

-----------------------------------------------------------------------------
(* Once the last price request has been answered, and no earlier one after *)
(* it, the rows are the list and every currency of it has a price: what    *)
(* answers do out of order, late or never is undone by the last one        *)
(* (ViewController.swift:59-66, :113-129).                                 *)
CurrentRowsAreTheList ==
    current => /\ rows = userCurrencyCodes
               /\ Listed \cap Codes = bitcoinCurrency

(* A stored code the list does not have was added on the sheet since the   *)
(* list last read the store: no sequence of sheets, deletions and          *)
(* relaunches makes the two differ otherwise (ViewController.swift:77-98,  *)
(* AddCurrencyViewController.swift:99-119).                                *)
StoredIsListed == defaults \subseteq Listed \cup unread

(* A code enters the list while the application runs only if it was added  *)
(* on the sheet: what was deleted does not come back through the store or  *)
(* through a sheet that read it before (ViewController.swift:82).          *)
DeletedStaysDeleted ==
    [][running => \/ ToSet(userCurrencyCodes') \subseteq Listed \cup unread
                  \/ Relaunch]_vars

(* While the sheet is up nothing is stored that it does not know, so that  *)
(* Add, which overwrites the store, loses nothing                          *)
(* (AddCurrencyViewController.swift:32,:37-42).                            *)
AddLosesNothing == [][sheet /\ sheet' => defaults \subseteq defaults']_vars

(* The process traps only on rows that no longer are the list: between a   *)
(* deletion and the answer to the request it makes, or when that answer is *)
(* an error (ViewController.swift:50-52,:59).                              *)
TrapsOnlyOnStaleRows == [][running /\ ~running' => ~current]_vars

(* If from some point on the service answers what it can answer, in        *)
(* whatever order, and is asked again and again, then the rows are the     *)
(* list again and again, whatever the user does (ViewController.swift:127, *)
(* BitcoinAPI.swift:60-74).                                                *)
IgnoredRightly == \A i \in DOMAIN requests : AnswerIgnored(i) => Quoted(requests[i]) = {}

AnswersWhatItCan == [][IgnoredRightly]_vars

Asked == \E i \in DOMAIN requests : Quoted(requests[i]) # {}

CaughtUp == ~running \/ rows = userCurrencyCodes

RowsCatchUp == <>AnswersWhatItCan /\ []<>Asked => []<>CaughtUp

=============================================================================
