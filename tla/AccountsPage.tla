---------------------------- MODULE AccountsPage ----------------------------
(***************************************************************************)
(* The accounts page: what is selected, searched for and paged to is kept  *)
(* in three places, the page (wesabe.views.pages.accounts), the address of *)
(* the browser's current history entry and the list of transactions, which *)
(* a request has to fetch.  Every change of the page is stored in the      *)
(* address (storeState), every change of the address is read back into the *)
(* page (reloadState), and reading it back may change the selection, which *)
(* is stored again from inside reloadState.  The calls of reloadState that *)
(* have not returned are a stack; JavaScript takes up nothing else until   *)
(* it is empty.                                                            *)
(***************************************************************************)
EXTENDS Naturals, Sequences

CONSTANTS
  Accounts, Tags,  \* what the two sidebars offer for selection
  Groups,          \* the groups of accounts among Accounts
  Merchants,       \* selected by their address only
  Queries,         \* search terms
  Ranges,          \* date ranges (start and end) an address may carry
  FirstAddresses,  \* where the page may be opened
  None,            \* null
  LastPage,        \* offset is a multiple of limit: pages are 0..LastPage
  MaxEdits, MaxFailures  \* bounds on the saves and the lost requests

Objects == Accounts \cup Tags \cup Merchants
Widgets == {"accounts", "tags", "transactions"}

(* What an address says; path tells /accounts/search from the others, which *)
(* are /accounts or the address of the one selected object.                 *)
Addresses ==
  [path : {"objects", "search"}, selection : SUBSET Objects,
   search : Queries \cup {None}, offset : 0..LastPage, unedited : BOOLEAN,
   range : Ranges \cup {None}]

(* What the list is asked for, and a request for it: whether the server has *)
(* read it, the saves it saw then and the number of pages it found.         *)
Queried == [selection : SUBSET Objects, search : Queries \cup {None}, offset : 0..LastPage,
            unedited : BOOLEAN, range : Ranges \cup {None}]
Requests == [params : Queried, read : BOOLEAN, version : Nat, pages : Nat]

ASSUME NoneAssumption == None \notin Queries \cup Ranges /\ None \notin Requests
ASSUME ObjectsAssumption == Merchants \cap (Accounts \cup Tags) = {} /\ Groups \subseteq Accounts
ASSUME AddressesAssumption == FirstAddresses \subseteq Addresses
ASSUME BoundsAssumption == LastPage \in Nat /\ MaxEdits \in Nat /\ MaxFailures \in Nat

VARIABLES
  entries, at,                               \* browser history, current entry
  selection, search, offset, unedited, range, \* the page
  calls,     \* reloadState calls under way, innermost first
  todo,      \* what the user's handler does after storeState has returned
  loaded,    \* _hasLoadedAccounts, _hasLoadedTags, _hasLoadedTransactions
  xhr,       \* the request for transactions in flight
  shown,     \* the request whose answer the list shows
  busy,      \* the list is hidden (class loading)
  title,     \* selection and search when repaint last set the title
  edits, saving,  \* server: saves so far; a save whose answer is outstanding
  failures,
  plain      \* history: the user has not done what Plain leaves out

historyVars == <<entries, at>>
pageVars == <<selection, search, offset, unedited, range>>
callVars == <<calls, todo>>
listVars == <<xhr, shown, busy>>
serverVars == <<edits, saving, failures>>
vars == <<historyVars, pageVars, callVars, listVars, serverVars, loaded, title, plain>>

Address == entries[at]
AllLoaded == loaded = Widgets
Idle == calls = <<>> /\ todo = "nothing"

HistoryTypes == entries \in Seq(Addresses) /\ at \in 1..Len(entries)
PageTypes ==
  /\ selection \subseteq Objects
  /\ search \in Queries \cup {None} /\ range \in Ranges \cup {None}
  /\ offset \in 0..LastPage /\ unedited \in BOOLEAN
CallTypes ==
  /\ calls \in Seq([at : {"enter", "finish"}, address : Addresses])
  /\ todo \in {"nothing", "reload", "push"}
ListTypes ==
  /\ xhr \in Requests \cup {None} /\ shown \in Requests \cup {None}
  /\ busy \in BOOLEAN
  /\ title \in [selection : SUBSET Objects, search : Queries \cup {None}]
ServerTypes ==
  /\ edits \in 0..MaxEdits /\ saving \in BOOLEAN /\ failures \in 0..MaxFailures
  /\ loaded \subseteq Widgets /\ plain \in BOOLEAN

TypeOK == HistoryTypes /\ PageTypes /\ CallTypes /\ ListTypes /\ ServerTypes

-----------------------------------------------------------------------------
(* Addresses                                                               *)
One(S) == \E o \in S : S = {o}

(* storeState: one selected object is named by the path, more of them by a *)
(* parameter; a search takes the path over.                                *)
Stored(s, q, o, u, r) ==
  [path |-> IF q = None THEN "objects" ELSE "search",
   selection |-> IF q # None /\ One(s) THEN {} ELSE s,
   search |-> q, offset |-> o, unedited |-> u, range |-> r]

(* Mutant: an address without a selection selects everything.              *)
SelectedOrAll(address) ==
  IF address.selection = {} /\ address.path = "search" THEN Accounts \cup Tags
  ELSE address.selection

(* What reloadState selects: a parameter names accounts, groups and tags   *)
(* only.                                                                   *)
Selected(address) ==
  IF One(address.selection) THEN address.selection ELSE address.selection \ Merchants

(* The current address without its parameters.                             *)
Bare(address) ==
  [path |-> address.path, selection |-> IF One(address.selection) THEN address.selection ELSE {},
   search |-> None, offset |-> 0, unedited |-> FALSE, range |-> None]

Linked(o) == Stored({o}, None, 0, FALSE, None)

(* Addresses in the form storeState gives them                             *)
Canonical(address) ==
  address = Stored(Selected(address), address.search, address.offset, address.unedited,
                   address.range)

(* Addresses from which reloadState restores a page that selects nothing   *)
(* yet without changing the address.                                       *)
PlainlyOpened(address) ==
  /\ Canonical(address)
  /\ Selected(address) # {} =>
       address.search = None /\ address.offset = 0 /\ address.range = None

Init ==
  /\ entries \in {<<a>> : a \in FirstAddresses} /\ at = 1
  /\ selection = {} /\ search = None /\ offset = 0 /\ unedited = FALSE /\ range = None
  /\ calls = <<>> /\ todo = "nothing"
  /\ loaded = {}
  /\ xhr = None /\ shown = None /\ busy = FALSE
  /\ title = [selection |-> {}, search |-> None]
  /\ edits = 0 /\ saving = FALSE /\ failures = 0
  /\ plain = PlainlyOpened(entries[1])

(* shared.pushState and History.pushState: a new entry follows the current *)
(* one, those after it are gone; statechange makes the page read it.       *)
Visit(address, rest) ==
  /\ entries' = Append(SubSeq(entries, 1, at), address)
  /\ at' = at + 1
  /\ calls' = IF AllLoaded /\ address # Address
              THEN <<[at |-> "enter", address |-> address]>> \o rest ELSE rest

(* storeState with the selection s, the search q, and so on                *)
StoreState(s, q, o, u, rest) ==
  LET address == Stored(s, q, o, u, range)
  IN IF address = Address THEN UNCHANGED historyVars /\ calls' = rest
     ELSE Visit(address, rest)

-----------------------------------------------------------------------------
(* The list                                                                *)
Params(s, q, o, u, r) ==
  [selection |-> s, search |-> q, offset |-> o, unedited |-> u, range |-> r]

Unread(params) == [params |-> params, read |-> FALSE, version |-> 0, pages |-> 0]

(* requestData sends nothing while a request is in flight.                 *)
RefreshTransactions(params) ==
  /\ xhr' = IF xhr = None THEN Unread(params) ELSE xhr
  /\ shown' = shown

(* Mutant: no request for a selection whose list is there already.         *)
ReloadOtherTransactions(params) ==
  IF shown # None /\ shown.params.selection = params.selection THEN UNCHANGED listVars
  ELSE busy' = TRUE /\ RefreshTransactions(params)

ReloadTransactions(params) == busy' = TRUE /\ RefreshTransactions(params)

-----------------------------------------------------------------------------
(* reloadState.  The unedited flag and the selection are restored first,   *)
(* and Selection#set reports a change to storeState while the offset, the  *)
(* search and the dates are still the old ones.                            *)

(* Mutant: the selection is restored before the flag.                      *)
StoreWithOldFlag(address, rest) ==
  StoreState(Selected(address), search, offset, unedited, rest)

StoreHalfRestored(address, rest) ==
  StoreState(Selected(address), search, offset, address.unedited, rest)

EnterReloadState ==
  /\ calls # <<>> /\ Head(calls).at = "enter"
  /\ LET address == Head(calls).address
         rest == <<[at |-> "finish", address |-> address]>> \o Tail(calls)
     IN /\ unedited' = address.unedited
        /\ selection' = Selected(address)
        /\ IF Selected(address) = selection
           THEN UNCHANGED historyVars /\ calls' = rest
           ELSE StoreHalfRestored(address, rest)
  /\ UNCHANGED <<search, offset, range, todo, listVars, serverVars, loaded, title, plain>>

(* Mutant: an address without an offset leaves the page's alone.           *)
OffsetOrOld(address) == IF address.offset = 0 THEN offset ELSE address.offset

OffsetOf(address) == address.offset

(* Titles count the items of a group that is not alone among the accounts, *)
(* and a group has none to give: setTitleForState throws.                  *)
Untitled(s, q) == q = None /\ \E g \in s \cap Groups : s \cap Accounts # {g}

(* What reloadState restores after the selection                           *)
Restore(address) ==
  /\ offset' = OffsetOf(address)
  /\ range' = address.range
  /\ search' = address.search

FinishReloadState ==
  /\ calls # <<>> /\ Head(calls).at = "finish"
  /\ LET address == Head(calls).address
     IN /\ Restore(address)
        /\ ~Untitled(selection, address.search)
        /\ title' = [selection |-> selection, search |-> address.search]
        /\ ReloadTransactions(Params(selection, address.search, OffsetOf(address),
                                     unedited, address.range))
  /\ calls' = Tail(calls)
  /\ UNCHANGED <<selection, unedited, historyVars, todo, serverVars, loaded, plain>>

(* The throw ends every call of reloadState under way and the handler that *)
(* has stored the page: nothing is reloaded.                               *)
RepaintThrows ==
  /\ calls # <<>> /\ Head(calls).at = "finish"
  /\ LET address == Head(calls).address
     IN Restore(address) /\ Untitled(selection, address.search)
  /\ calls' = <<>> /\ todo' = "nothing"
  /\ UNCHANGED <<selection, unedited, historyVars, listVars, serverVars, loaded, title, plain>>

(* What the handlers of the unedited buttons and the pager do last.        *)
ReloadLast ==
  /\ calls = <<>> /\ todo = "reload"
  /\ todo' = "nothing"
  /\ ReloadTransactions(Params(selection, search, offset, unedited, range))
  /\ UNCHANGED <<calls, pageVars, historyVars, serverVars, loaded, title, plain>>

(* The handler of the All Accounts link passes its address as the data of  *)
(* the entry and none as its address, which is that of the page then.      *)
PushAllLast ==
  /\ calls = <<>> /\ todo = "push"
  /\ todo' = "nothing"
  /\ Visit(Bare(Address), <<>>)
  /\ UNCHANGED <<pageVars, listVars, serverVars, loaded, title, plain>>

-----------------------------------------------------------------------------
(* The user                                                                *)

(* What keeps a history plain: the user waits for the sidebars to load and *)
(* never searches; All Accounts and links are followed from the first page *)
(* of the list only, and nothing is added to the selection of a merchant.  *)
Plain(condition) == plain' = (plain /\ AllLoaded /\ search = None /\ condition)

Select(s, condition) ==
  /\ Idle
  /\ selection' = s
  /\ IF s = selection THEN UNCHANGED <<historyVars, calls>>
     ELSE StoreState(s, search, offset, unedited, <<>>)
  /\ Plain(condition)
  /\ UNCHANGED <<search, offset, unedited, range, listVars, serverVars, loaded, title>>

Clickable(o) == \/ o \in Accounts /\ "accounts" \in loaded
                \/ o \in Tags /\ "tags" \in loaded

Click(o) == Clickable(o) /\ Select({o}, TRUE) /\ todo' = todo

Toggled(o) == IF o \in selection THEN selection \ {o} ELSE selection \cup {o}

CtrlClick(o) ==
  Clickable(o) /\ Select(Toggled(o), selection \cap Merchants = {}) /\ todo' = todo

AtDefaults == offset = 0 /\ range = None

ClickAll == Select({}, AtDefaults /\ ~unedited) /\ todo' = "push"

OnSearch(q) ==
  /\ Idle
  /\ search' = q
  /\ StoreState(selection, q, offset, unedited, <<>>)
  /\ Plain(q = None)
  /\ UNCHANGED <<selection, offset, unedited, range, todo, listVars, serverVars, loaded, title>>

(* The pager asks the data on display how far it may go.                   *)
Earlier == shown # None /\ shown.pages > offset + 1 /\ offset < LastPage
(* Mutant: Later goes on before the first page.                            *)
LaterAlways == TRUE

Later == offset > 0

(* The buttons of the pager set the offset the page observes.              *)
TurnTo(page) ==
  /\ Idle /\ "transactions" \in loaded
  /\ offset' = page
  /\ StoreState(selection, search, page, unedited, <<>>)
  /\ todo' = "reload"
  /\ Plain(TRUE)
  /\ UNCHANGED <<selection, search, unedited, range, listVars, serverVars, loaded, title>>

Turn == \/ Earlier /\ TurnTo(offset + 1)
        \/ Later /\ TurnTo(offset - 1)

ToggleUnedited ==
  /\ Idle /\ "transactions" \in loaded
  /\ unedited' = ~unedited
  /\ StoreState(selection, search, offset, ~unedited, <<>>)
  /\ todo' = "reload"
  /\ Plain(TRUE)
  /\ UNCHANGED <<selection, search, offset, range, listVars, serverVars, loaded, title>>

(* Links to accounts, tags and merchants add an entry and nothing else.    *)
Follow(o) ==
  /\ Idle
  /\ Visit(Linked(o), <<>>)
  /\ Plain(AtDefaults)
  /\ UNCHANGED <<pageVars, todo, listVars, serverVars, loaded, title>>

(* Back and Forward                                                        *)
Travel(to) ==
  /\ Idle
  /\ to \in 1..Len(entries)
  /\ at' = to
  /\ entries' = entries
  /\ calls' = IF AllLoaded /\ entries[to] # Address
              THEN <<[at |-> "enter", address |-> entries[to]]>> ELSE <<>>
  /\ Plain(TRUE)
  /\ UNCHANGED <<pageVars, todo, listVars, serverVars, loaded, title>>

Back == Travel(at - 1)
Forward == Travel(at + 1)

Save ==
  /\ Idle /\ shown # None /\ ~saving /\ edits < MaxEdits
  /\ edits' = edits + 1
  /\ saving' = TRUE
  /\ UNCHANGED <<historyVars, pageVars, callVars, listVars, failures, loaded, title, plain>>

-----------------------------------------------------------------------------
(* Loading and answers                                                     *)

(* The page has set up the list of transactions before tags can arrive.    *)
Load(w) ==
  /\ Idle /\ w \in Widgets \ loaded
  /\ w = "tags" => "transactions" \in loaded
  /\ loaded' = loaded \cup {w}
  /\ calls' = IF loaded' = Widgets THEN <<[at |-> "enter", address |-> Address]>> ELSE calls
  /\ UNCHANGED <<historyVars, pageVars, todo, listVars, serverVars, title, plain>>

(* transaction-changed                                                     *)
SaveAnswered ==
  /\ Idle /\ saving
  /\ saving' = FALSE
  /\ RefreshTransactions(Params(selection, search, offset, unedited, range))
  /\ UNCHANGED <<historyVars, pageVars, callVars, busy, edits, failures, loaded, title, plain>>

ServerReads ==
  /\ xhr # None /\ ~xhr.read
  /\ \E n \in 1..(LastPage + 1) :
       xhr' = [params |-> xhr.params, read |-> TRUE, version |-> edits, pages |-> n]
  /\ UNCHANGED <<historyVars, pageVars, callVars, shown, busy, serverVars, loaded, title, plain>>

Answer ==
  /\ Idle /\ xhr # None /\ xhr.read
  /\ shown' = xhr
  /\ xhr' = None
  /\ busy' = FALSE
  /\ UNCHANGED <<historyVars, pageVars, callVars, serverVars, loaded, title, plain>>

(* Mutant: afterLoad comes after an answer only.                           *)
FailSilently ==
  /\ Idle /\ xhr # None /\ failures < MaxFailures
  /\ failures' = failures + 1
  /\ xhr' = None
  /\ UNCHANGED <<historyVars, pageVars, callVars, shown, busy, edits, saving, loaded, title, plain>>

(* The list keeps what it shows; afterLoad reveals it.                     *)
Fail ==
  /\ Idle /\ xhr # None /\ failures < MaxFailures
  /\ failures' = failures + 1
  /\ xhr' = None
  /\ busy' = FALSE
  /\ UNCHANGED <<historyVars, pageVars, callVars, shown, edits, saving, loaded, title, plain>>

Run == EnterReloadState \/ FinishReloadState \/ RepaintThrows \/ ReloadLast \/ PushAllLast

Acts ==
  \/ \E o \in Objects : Click(o) \/ CtrlClick(o) \/ Follow(o)
  \/ ClickAll
  \/ \E q \in Queries \cup {None} : OnSearch(q)
  \/ Turn \/ ToggleUnedited
  \/ Back \/ Forward

Serve == SaveAnswered \/ ServerReads \/ Answer

Next == Run \/ Acts \/ Save \/ (\E w \in Widgets : Load(w)) \/ Serve \/ Fail

Spec == Init /\ [][Next]_vars

-----------------------------------------------------------------------------
(* Properties                                                              *)

(* Storing and reading back come to an end: reloadState is re-entered from *)
(* its own change of the selection once at most, whatever the address and  *)
(* the page say.                                                           *)
NestingBounded == Len(calls) <= 2

(* The list is hidden only while a request will reveal it.                 *)
SpinnerEnds == busy => xhr # None

AtRest == Idle /\ AllLoaded

(* The page says what the address says.                                    *)
Follows ==
  /\ selection = Selected(Address) /\ search = Address.search
  /\ offset = Address.offset /\ unedited = Address.unedited /\ range = Address.range

(* "try to restore the selection", "restore the search term": at rest the  *)
(* page is the one its address describes.                                  *)
PageFollowsAddress == AtRest => Follows

(* It is for a user whose history is plain, through any number of steps    *)
(* back and forward.                                                       *)
PlainFollows == plain => PageFollowsAddress

(* Moving in a plain history never drops entries: what Back left can be    *)
(* reached again with Forward.                                             *)
ReadingKeepsHistory ==
  [][plain /\ EnterReloadState => entries' = entries /\ at' = at]_vars
=============================================================================
