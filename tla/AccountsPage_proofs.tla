------------------------- MODULE AccountsPage_proofs -------------------------
(***************************************************************************)
(* The accounts page for any accounts, tags, merchants, addresses and any  *)
(* number of pages: its types, the list that is never hidden for good, the *)
(* nesting of reloadState, the agreement of page and address in a plain    *)
(* history and, for a user who waits, that of the list with the page.      *)
(***************************************************************************)
EXTENDS MCAccountsPage, SequenceTheorems, TLAPS

Calls == [at : {"enter", "finish"}, address : Addresses]

USE NoneAssumption, AddressesAssumption, BoundsAssumption

-----------------------------------------------------------------------------
(* A call on top of others                                                 *)
LEMMA Calling ==
  ASSUME NEW call \in Calls, NEW rest \in Seq(Calls)
  PROVE  /\ <<call>> \o rest \in Seq(Calls) /\ Len(<<call>> \o rest) = Len(rest) + 1
         /\ (<<call>> \o rest)[1] = call
         /\ \A k \in 1..Len(rest) : (<<call>> \o rest)[k + 1] = rest[k]
  OBVIOUS

LEMMA LoneCall ==
  ASSUME NEW call \in Calls
  PROVE  <<call>> \o <<>> = <<call>>
<1>1. <<call>> \in Seq(Calls)
  OBVIOUS
<1> QED BY <1>1, ConcatEmptySeq

LEMMA NoCalls == <<>> \in Seq(Calls) /\ Len(<<>>) = 0
  OBVIOUS

-----------------------------------------------------------------------------
(* Addresses and history                                                   *)
LEMMA StoredTypes ==
  ASSUME NEW s \in SUBSET Objects, NEW q \in Queries \cup {None}, NEW o \in 0..LastPage,
         NEW u \in BOOLEAN, NEW r \in Ranges \cup {None}
  PROVE  Stored(s, q, o, u, r) \in Addresses
  BY DEF Stored, Addresses

LEMMA SelectedTypes ==
  ASSUME NEW u \in Addresses
  PROVE  Selected(u) \in SUBSET Objects
  BY DEF Selected, Addresses

LEMMA BareTypes ==
  ASSUME NEW u \in Addresses
  PROVE  Bare(u) \in Addresses
  BY DEF Bare, Addresses

LEMMA CurrentAddress ==
  ASSUME HistoryTypes
  PROVE  Address \in Addresses
  BY DEF HistoryTypes, Address

(* A visit ends at the new entry, the last one, and reads it or does not.  *)
LEMMA VisitLands ==
  ASSUME HistoryTypes, NEW u \in Addresses, NEW rest \in Seq(Calls), Visit(u, rest)
  PROVE  /\ HistoryTypes' /\ calls' \in Seq(Calls)
         /\ Address' = u /\ at' = at + 1 /\ Len(entries') = at + 1
         /\ \A k \in 1..at : entries'[k] = entries[k]
         /\ calls' = IF AllLoaded /\ u # Address
                     THEN <<[at |-> "enter", address |-> u]>> \o rest ELSE rest
<1>1. entries \in Seq(Addresses) /\ at \in 1..Len(entries) /\ Len(entries) \in Nat
  BY DEF HistoryTypes
<1> DEFINE kept == SubSeq(entries, 1, at)
<1>2. kept \in Seq(Addresses) /\ Len(kept) = at /\ \A k \in 1..at : kept[k] = entries[k]
  BY <1>1
<1> HIDE DEF kept
<1>3. entries' = Append(kept, u) /\ at' = at + 1
  BY DEF Visit, kept
<1>4. /\ entries' \in Seq(Addresses) /\ Len(entries') = at + 1 /\ entries'[at + 1] = u
      /\ \A k \in 1..at : entries'[k] = entries[k]
  BY <1>1, <1>2, <1>3
<1>5. HistoryTypes' /\ Address' = u
  BY <1>1, <1>3, <1>4 DEF HistoryTypes, Address
<1>6. calls' = IF AllLoaded /\ u # Address
               THEN <<[at |-> "enter", address |-> u]>> \o rest ELSE rest
  BY DEF Visit
<1>7. [at |-> "enter", address |-> u] \in Calls
  BY DEF Calls
<1>8. calls' \in Seq(Calls)
  BY <1>6, <1>7
<1> QED BY <1>3, <1>4, <1>5, <1>6, <1>8

(* storeState ends at the address of what it stores.                       *)
LEMMA StoreLands ==
  ASSUME HistoryTypes, NEW s \in SUBSET Objects, NEW q \in Queries \cup {None},
         NEW o \in 0..LastPage, NEW u \in BOOLEAN, range \in Ranges \cup {None},
         NEW rest \in Seq(Calls), StoreState(s, q, o, u, rest)
  PROVE  /\ HistoryTypes' /\ calls' \in Seq(Calls)
         /\ Address' = Stored(s, q, o, u, range)
         /\ IF Stored(s, q, o, u, range) = Address
            THEN UNCHANGED historyVars /\ calls' = rest
            ELSE Visit(Stored(s, q, o, u, range), rest)
<1> DEFINE new == Stored(s, q, o, u, range)
<1>1. new \in Addresses
  BY StoredTypes
<1>2. IF new = Address THEN UNCHANGED historyVars /\ calls' = rest ELSE Visit(new, rest)
  BY DEF StoreState
<1> HIDE DEF new
<1>3. new = Address => HistoryTypes' /\ calls' \in Seq(Calls) /\ Address' = new
  BY <1>2 DEF HistoryTypes, historyVars, Address
<1>4. new # Address => HistoryTypes' /\ calls' \in Seq(Calls) /\ Address' = new
  BY <1>1, <1>2, VisitLands
<1>5. /\ HistoryTypes' /\ calls' \in Seq(Calls) /\ Address' = new
      /\ IF new = Address THEN UNCHANGED historyVars /\ calls' = rest ELSE Visit(new, rest)
  BY <1>2, <1>3, <1>4
<1> QED BY <1>5 DEF new

(* Only the selection of a search is left out of its address, and reading  *)
(* and storing that address again gives the same one.                      *)
LEMMA StoredAgain ==
  ASSUME NEW u \in Addresses, NEW q, NEW o, NEW f, NEW r,
         NEW v, v = Stored(Selected(u), q, o, f, r)
  PROVE  Stored(Selected(v), q, o, f, r) = v
<1> DEFINE s == Selected(u)
<1>1. v.selection = IF q # None /\ One(s) THEN {} ELSE s
  BY DEF Stored
<1>2. One(s) \/ s \cap Merchants = {}
  BY DEF Selected
<1>3. ~One({})
  BY DEF One
<1> HIDE DEF s
<1>4. Selected(v) = IF q # None /\ One(s) THEN {} ELSE s
  <2>1. CASE q # None /\ One(s)
    BY <1>1, <1>3, <2>1 DEF Selected
  <2>2. CASE ~(q # None /\ One(s))
    <3>1. v.selection = s
      BY <1>1, <2>2
    <3>2. s \cap Merchants = {} => s \ Merchants = s
      OBVIOUS
    <3> QED BY <1>2, <2>2, <3>1, <3>2 DEF Selected
  <2> QED BY <2>1, <2>2
<1>5. v = Stored(s, q, o, f, r)
  BY DEF s
<1> QED BY <1>3, <1>4, <1>5 DEF Stored

-----------------------------------------------------------------------------
(* Types, the hidden list and the nesting of reloadState                   *)

(* While the calls are nested, the inner one reads the address that the    *)
(* half restored page has just been stored under, and storing it again     *)
(* changes nothing.                                                        *)
Nested ==
  /\ Len(calls) <= 2
  /\ Len(calls) = 2 => calls[2].at = "finish"
  /\ Len(calls) = 2 /\ calls[1].at = "enter" =>
       /\ calls[1].address = Address
       /\ Stored(Selected(Address), search, offset, Address.unedited, range) = Address


PageInv == TypeOK /\ SpinnerEnds /\ Nested

LEMMA OneCallIsNested ==
  ASSUME calls' \in Seq(Calls), Len(calls') <= 1
  PROVE  Nested'
  BY DEF Nested

LEMMA NoCallIsNested ==
  ASSUME calls' = <<>>
  PROVE  Nested'
<1>1. Len(calls') = 0
  OBVIOUS
<1>2. Len(calls') # 2 /\ Len(calls') <= 2
  BY <1>1
<1> QED BY <1>2 DEF Nested

LEMMA ParamsTypes ==
  ASSUME NEW s \in SUBSET Objects, NEW q \in Queries \cup {None}, NEW o \in 0..LastPage,
         NEW u \in BOOLEAN, NEW r \in Ranges \cup {None}
  PROVE  Params(s, q, o, u, r) \in Queried
  BY DEF Params, Queried

(* After refreshing there is a request in flight.                          *)
LEMMA RefreshSends ==
  ASSUME ListTypes, NEW params \in Queried, RefreshTransactions(params)
  PROVE  xhr' \in Requests /\ shown' \in Requests \cup {None} /\ xhr' # None
<1>1. Unread(params) \in Requests
  BY DEF Unread, Requests
<1> QED BY <1>1 DEF ListTypes, RefreshTransactions

LEMMA ReloadSends ==
  ASSUME ListTypes, NEW params \in Queried, ReloadTransactions(params),
         title' \in [selection : SUBSET Objects, search : Queries \cup {None}]
  PROVE  ListTypes' /\ SpinnerEnds'
<1>1. busy' = TRUE /\ RefreshTransactions(params)
  BY DEF ReloadTransactions
<1>2. xhr' \in Requests /\ shown' \in Requests \cup {None} /\ xhr' # None
  BY <1>1, RefreshSends
<1> QED BY <1>1, <1>2 DEF ListTypes, SpinnerEnds

LEMMA ListUntouched ==
  ASSUME ListTypes, SpinnerEnds, UNCHANGED <<listVars, title>>
  PROVE  ListTypes' /\ SpinnerEnds'
  BY DEF ListTypes, SpinnerEnds, listVars

(* What a handler of the user's has stored is read by one call at most.    *)
LEMMA UserStores ==
  ASSUME HistoryTypes, NEW s \in SUBSET Objects, NEW q \in Queries \cup {None},
         NEW o \in 0..LastPage, NEW u \in BOOLEAN, range \in Ranges \cup {None},
         StoreState(s, q, o, u, <<>>)
  PROVE  /\ HistoryTypes' /\ calls' \in Seq(Calls) /\ Nested'
         /\ Address' = Stored(s, q, o, u, range)
<1> DEFINE new == Stored(s, q, o, u, range)
           none == <<>>
           call == [at |-> "enter", address |-> new]
<1>1. none \in Seq(Calls) /\ Len(none) = 0 /\ new \in Addresses /\ call \in Calls
  BY StoredTypes, NoCalls DEF Calls
<1> HIDE DEF none
<1>2. IF new = Address THEN UNCHANGED historyVars /\ calls' = none ELSE Visit(new, none)
  BY DEF none, StoreState
<1>4. Visit(new, none) => calls' = <<call>> \o none \/ calls' = none
  BY DEF Visit
<1> HIDE DEF new, call
<1>3. HistoryTypes' /\ calls' \in Seq(Calls) /\ Address' = new
  <2>1. new = Address => HistoryTypes' /\ calls' \in Seq(Calls) /\ Address' = new
    BY <1>1, <1>2 DEF HistoryTypes, historyVars, Address
  <2>2. new # Address => HistoryTypes' /\ calls' \in Seq(Calls) /\ Address' = new
    BY <1>1, <1>2, VisitLands
  <2> QED BY <2>1, <2>2
<1>5. Len(calls') <= 1
  <2>1. Len(<<call>> \o none) = 1
    BY <1>1, Calling
  <2>2. calls' = <<call>> \o none \/ calls' = none
    BY <1>2, <1>4
  <2>3. Len(none) = 0
    BY <1>1
  <2>4. Len(calls') = 0 \/ Len(calls') = 1
    BY <2>1, <2>2, <2>3
  <2>5. \A n : n = 0 \/ n = 1 => n <= 1
    OBVIOUS
  <2> QED BY <2>4, <2>5
<1>6. Nested'
  BY <1>3, <1>5, OneCallIsNested
<1> QED BY <1>3, <1>6 DEF new

LEMMA UserVisits ==
  ASSUME HistoryTypes, NEW u \in Addresses, Visit(u, <<>>)
  PROVE  HistoryTypes' /\ calls' \in Seq(Calls) /\ Nested'
<1> DEFINE none == <<>>
           call == [at |-> "enter", address |-> u]
<1>1. none \in Seq(Calls) /\ Len(none) = 0 /\ call \in Calls
  BY NoCalls DEF Calls
<1>2. Visit(u, none)
  OBVIOUS
<1> HIDE DEF none
<1>3. HistoryTypes' /\ calls' \in Seq(Calls)
  BY <1>1, <1>2, VisitLands
<1>4. calls' = <<call>> \o none \/ calls' = none
  BY <1>2 DEF Visit
<1> HIDE DEF call
<1>5. Len(calls') <= 1
  <2>1. Len(<<call>> \o none) = 1
    BY <1>1, Calling
  <2>2. Len(calls') = 0 \/ Len(calls') = 1
    BY <1>1, <1>4, <2>1
  <2>3. \A n : n = 0 \/ n = 1 => n <= 1
    OBVIOUS
  <2> QED BY <2>2, <2>3
<1> QED BY <1>3, <1>5, OneCallIsNested

LEMMA NestedUntouched ==
  ASSUME Nested, UNCHANGED <<historyVars, pageVars, callVars>>
  PROVE  Nested'
  BY DEF Nested, historyVars, pageVars, callVars, Address

LEMMA PageInit == Init => PageInv
<1> SUFFICES ASSUME Init PROVE PageInv
  OBVIOUS
<1>1. PICK a \in FirstAddresses : entries = <<a>> /\ at = 1
  BY DEF Init
<1>2. HistoryTypes
  BY <1>1 DEF HistoryTypes
<1>3. CallTypes /\ Nested
  BY DEF Init, CallTypes, Nested
<1>4. PageTypes
  <2>1. selection = {} /\ search = None /\ offset = 0 /\ unedited = FALSE /\ range = None
    BY DEF Init
  <2>2. 0 \in 0..LastPage
    OBVIOUS
  <2> QED BY <2>1, <2>2 DEF PageTypes
<1>5. ListTypes /\ SpinnerEnds
  BY DEF Init, ListTypes, SpinnerEnds
<1>6. ServerTypes
  <2>1. /\ edits = 0 /\ saving = FALSE /\ failures = 0 /\ loaded = {}
        /\ plain = PlainlyOpened(entries[1])
    BY DEF Init
  <2>2. 0 \in 0..MaxEdits /\ 0 \in 0..MaxFailures
    OBVIOUS
  <2>3. plain \in BOOLEAN
    BY <2>1 DEF PlainlyOpened, Canonical
  <2> QED BY <2>1, <2>2, <2>3 DEF ServerTypes
<1> QED BY <1>2, <1>3, <1>4, <1>5, <1>6 DEF PageInv, TypeOK

LEMMA EnterKeeps == PageInv /\ EnterReloadState => PageInv'
<1> SUFFICES ASSUME PageInv, EnterReloadState PROVE PageInv'
  OBVIOUS
<1> DEFINE address == Head(calls).address
           finish  == [at |-> "finish", address |-> address]
           rest    == <<finish>> \o Tail(calls)
<1>1. /\ calls \in Seq(Calls) /\ calls # <<>> /\ Len(calls) \in Nat /\ Len(calls) > 0
      /\ Head(calls) = calls[1] /\ calls[1] \in Calls /\ calls[1].at = "enter"
  <2>1. calls \in Seq(Calls)
    BY DEF PageInv, TypeOK, CallTypes, Calls
  <2>2. calls # <<>> /\ Head(calls).at = "enter"
    BY DEF EnterReloadState
  <2> HIDE DEF Calls
  <2> QED BY <2>1, <2>2
<1>2. address \in Addresses /\ finish \in Calls
  BY <1>1 DEF Calls
<1>3. /\ rest \in Seq(Calls) /\ Len(rest) = Len(calls)
      /\ rest[1] = finish
      /\ Len(calls) = 2 => rest[2] = calls[2]
  BY <1>1, <1>2
<1>4. /\ unedited' = address.unedited /\ selection' = Selected(address)
      /\ IF Selected(address) = selection THEN UNCHANGED historyVars /\ calls' = rest
         ELSE StoreState(Selected(address), search, offset, address.unedited, rest)
      /\ UNCHANGED <<search, offset, range, todo, listVars, serverVars, loaded, title, plain>>
  BY DEF EnterReloadState, StoreHalfRestored
<1> HIDE DEF address, finish, rest
<1>5. Selected(address) \in SUBSET Objects /\ address.unedited \in BOOLEAN
  BY <1>2, SelectedTypes DEF Addresses
<1>6. PageTypes' /\ ListTypes' /\ SpinnerEnds' /\ ServerTypes'
  BY <1>4, <1>5 DEF PageInv, TypeOK, PageTypes, ListTypes, SpinnerEnds, ServerTypes,
                    listVars, serverVars
<1>7. CASE calls' = rest /\ UNCHANGED historyVars
  <2>1. HistoryTypes' /\ CallTypes'
    BY <1>3, <1>4, <1>7 DEF PageInv, TypeOK, HistoryTypes, CallTypes, Calls, historyVars
  <2>2. Nested'
    BY <1>3, <1>7 DEF PageInv, Nested, finish
  <2> QED BY <1>6, <2>1, <2>2 DEF PageInv, TypeOK
<1>8. CASE ~(calls' = rest /\ UNCHANGED historyVars)
  <2> DEFINE new  == Stored(Selected(address), search, offset, address.unedited, range)
             call == [at |-> "enter", address |-> new]
  <2>1. StoreState(Selected(address), search, offset, address.unedited, rest)
    BY <1>4, <1>8
  <2>2. /\ search \in Queries \cup {None} /\ offset \in 0..LastPage
        /\ range \in Ranges \cup {None} /\ HistoryTypes
    BY DEF PageInv, TypeOK, PageTypes
  <2>3. /\ HistoryTypes' /\ calls' \in Seq(Calls) /\ Address' = new
        /\ IF new = Address THEN UNCHANGED historyVars /\ calls' = rest
           ELSE Visit(new, rest)
    BY <1>3, <1>5, <2>1, <2>2, StoreLands
  <2>4. new \in Addresses
    BY <1>5, <2>2, StoredTypes
  <2>5. call \in Calls
    BY <2>4 DEF Calls
  <2>6. Stored(Selected(new), search, offset, address.unedited, range) = new
    BY <1>2, StoredAgain
  <2>7. new.unedited = address.unedited
    BY DEF Stored
  <2> HIDE DEF new
  <2>8. new # Address /\ Visit(new, rest)
    BY <1>8, <2>3
  <2>9. calls' = rest \/ calls' = <<call>> \o rest
    BY <2>8 DEF Visit
  <2> HIDE DEF call
  <2>10. CallTypes'
    BY <1>4, <2>3 DEF PageInv, TypeOK, CallTypes, Calls
  <2>11. Len(calls) = 1
    <3>1. ASSUME Len(calls) = 2 PROVE FALSE
      <4>1. calls[1].address = Address
            /\ Stored(Selected(Address), search, offset, Address.unedited, range) = Address
        BY <1>1, <3>1 DEF PageInv, Nested
      <4>2. address = Address
        BY <1>1, <4>1 DEF address
      <4> QED BY <2>8, <4>1, <4>2 DEF new
    <3>2. Len(calls) <= 2
      BY DEF PageInv, Nested
    <3>3. Len(calls) \in Nat /\ Len(calls) > 0
      BY <1>1
    <3>4. Len(calls) # 2
      BY <3>1
    <3> HIDE DEF Calls
    <3>5. \A n \in Nat : n > 0 /\ n <= 2 /\ n # 2 => n = 1
      OBVIOUS
    <3> QED BY <3>2, <3>3, <3>4, <3>5
  <2>12. CASE calls' = rest
    <3> QED BY <1>3, <1>6, <2>3, <2>10, <2>11, <2>12 DEF PageInv, TypeOK, Nested
  <2>13. CASE calls' = <<call>> \o rest
    <3>1. Len(calls') = 2 /\ calls'[1] = call /\ calls'[2] = finish
      <4>1. /\ Len(<<call>> \o rest) = Len(rest) + 1 /\ (<<call>> \o rest)[1] = call
            /\ (<<call>> \o rest)[1 + 1] = rest[1]
        BY <1>3, <2>5, <2>11, Calling
      <4> QED BY <1>3, <2>11, <2>13, <4>1
    <3>2. calls'[1].address = new /\ calls'[2].at = "finish"
      BY <3>1 DEF call, finish
    <3>3. search' = search /\ offset' = offset /\ range' = range
      BY <1>4
    <3>4. Nested'
      BY <2>3, <2>6, <2>7, <3>1, <3>2, <3>3 DEF Nested
    <3> QED BY <1>6, <2>3, <2>10, <3>4 DEF PageInv, TypeOK
  <2> QED BY <2>9, <2>12, <2>13
<1> QED BY <1>7, <1>8

(* What a handler of the user's leaves behind, whatever it has stored      *)
LEMMA HandlerKeeps ==
  ASSUME PageInv, HistoryTypes', calls' \in Seq(Calls), Nested', PageTypes',
         todo' \in {"nothing", "reload", "push"}, plain' \in BOOLEAN,
         UNCHANGED <<listVars, serverVars, loaded, title>>
  PROVE  PageInv'
<1>1. ListTypes' /\ SpinnerEnds'
  BY ListUntouched DEF PageInv, TypeOK
<1>2. CallTypes'
  BY DEF CallTypes, Calls
<1>3. ServerTypes'
  BY DEF PageInv, TypeOK, ServerTypes, serverVars
<1> QED BY <1>1, <1>2, <1>3 DEF PageInv, TypeOK

LEMMA FinishKeeps == PageInv /\ FinishReloadState => PageInv'
<1> SUFFICES ASSUME PageInv, FinishReloadState PROVE PageInv'
  OBVIOUS
<1> DEFINE address == Head(calls).address
<1>1. calls \in Seq(Calls) /\ calls # <<>> /\ Len(calls) <= 2
  BY DEF PageInv, TypeOK, CallTypes, Nested, Calls, FinishReloadState
<1>2. /\ Head(calls) \in Calls /\ Tail(calls) \in Seq(Calls) /\ Len(Tail(calls)) <= 1
  <2> HIDE DEF Calls
  <2> QED BY <1>1
<1>3. address \in Addresses
  BY <1>2 DEF Calls
<1>4. /\ offset' = address.offset /\ range' = address.range /\ search' = address.search
      /\ title' = [selection |-> selection, search |-> address.search]
      /\ ReloadTransactions(Params(selection, address.search, address.offset, unedited,
                                   address.range))
      /\ calls' = Tail(calls)
      /\ UNCHANGED <<selection, unedited, historyVars, todo, serverVars, loaded, plain>>
  BY DEF FinishReloadState, Restore, OffsetOf
<1> HIDE DEF address
<1>5. /\ address.offset \in 0..LastPage /\ address.range \in Ranges \cup {None}
      /\ address.search \in Queries \cup {None}
  BY <1>3 DEF Addresses
<1>6. selection \in SUBSET Objects /\ unedited \in BOOLEAN
  BY DEF PageInv, TypeOK, PageTypes
<1>7. Params(selection, address.search, address.offset, unedited, address.range) \in Queried
  BY <1>5, <1>6 DEF Params, Queried
<1>8. title' \in [selection : SUBSET Objects, search : Queries \cup {None}]
  BY <1>4, <1>5, <1>6
<1>9. ListTypes' /\ SpinnerEnds'
  BY <1>4, <1>7, <1>8, ReloadSends DEF PageInv, TypeOK
<1>10. Nested'
  BY <1>2, <1>4, OneCallIsNested
<1>11. PageTypes' /\ HistoryTypes' /\ CallTypes' /\ ServerTypes'
  <2>1. CallTypes'
    BY <1>2, <1>4 DEF PageInv, TypeOK, CallTypes, Calls
  <2>2. PageTypes'
    BY <1>4, <1>5, <1>6 DEF PageTypes
  <2>3. HistoryTypes' /\ ServerTypes'
    BY <1>4 DEF PageInv, TypeOK, HistoryTypes, ServerTypes, historyVars, serverVars
  <2> QED BY <2>1, <2>2, <2>3
<1> QED BY <1>9, <1>10, <1>11 DEF PageInv, TypeOK

LEMMA ThrowKeeps == PageInv /\ RepaintThrows => PageInv'
<1> SUFFICES ASSUME PageInv, RepaintThrows PROVE PageInv'
  OBVIOUS
<1> DEFINE address == Head(calls).address
<1>1. calls \in Seq(Calls) /\ calls # <<>>
  BY DEF PageInv, TypeOK, CallTypes, Calls, RepaintThrows
<1>2. Head(calls) \in Calls
  <2> HIDE DEF Calls
  <2> QED BY <1>1
<1>3. address \in Addresses
  BY <1>2 DEF Calls
<1>4. /\ offset' = address.offset /\ range' = address.range /\ search' = address.search
      /\ calls' = <<>> /\ todo' = "nothing"
      /\ UNCHANGED <<selection, unedited, historyVars, listVars, serverVars, loaded, title, plain>>
  BY DEF RepaintThrows, Restore, OffsetOf
<1> HIDE DEF address
<1>5. HistoryTypes' /\ PageTypes' /\ plain' \in BOOLEAN
  BY <1>3, <1>4 DEF PageInv, TypeOK, HistoryTypes, PageTypes, ServerTypes, historyVars, Addresses
<1>6. calls' \in Seq(Calls) /\ Nested'
  BY <1>4, NoCalls, NoCallIsNested
<1> QED BY <1>4, <1>5, <1>6, HandlerKeeps

LEMMA ReloadLastKeeps == PageInv /\ ReloadLast => PageInv'
<1> SUFFICES ASSUME PageInv, ReloadLast PROVE PageInv'
  OBVIOUS
<1>1. /\ ReloadTransactions(Params(selection, search, offset, unedited, range))
      /\ UNCHANGED <<calls, pageVars, historyVars, serverVars, loaded, title, plain>>
      /\ todo' = "nothing"
  BY DEF ReloadLast
<1>2. Params(selection, search, offset, unedited, range) \in Queried
  BY DEF PageInv, TypeOK, PageTypes, Params, Queried
<1>3. ListTypes' /\ SpinnerEnds'
  BY <1>1, <1>2, ReloadSends DEF PageInv, TypeOK, ListTypes
<1>4. HistoryTypes' /\ PageTypes' /\ CallTypes' /\ ServerTypes'
  BY <1>1 DEF PageInv, TypeOK, HistoryTypes, PageTypes, CallTypes, ServerTypes,
              historyVars, pageVars, serverVars
<1>5. Nested'
  BY <1>1 DEF PageInv, Nested, historyVars, pageVars, Address
<1> QED BY <1>3, <1>4, <1>5 DEF PageInv, TypeOK

LEMMA PushAllKeeps == PageInv /\ PushAllLast => PageInv'
<1> SUFFICES ASSUME PageInv, PushAllLast PROVE PageInv'
  OBVIOUS
<1>1. HistoryTypes /\ Visit(Bare(Address), <<>>)
  BY DEF PushAllLast, PageInv, TypeOK
<1>2. Bare(Address) \in Addresses
  BY <1>1, CurrentAddress, BareTypes
<1>3. HistoryTypes' /\ calls' \in Seq(Calls) /\ Nested'
  BY <1>1, <1>2, UserVisits
<1>4. PageTypes'
  BY DEF PushAllLast, PageInv, TypeOK, PageTypes, pageVars
<1>5. plain' \in BOOLEAN
  BY DEF PushAllLast, PageInv, TypeOK, ServerTypes
<1> QED BY <1>3, <1>4, <1>5, HandlerKeeps DEF PushAllLast

LEMMA SelectKeeps ==
  ASSUME PageInv, NEW s \in SUBSET Objects, NEW condition, Select(s, condition),
         todo' \in {"nothing", "reload", "push"}
  PROVE  PageInv'
<1>1. /\ calls = <<>> /\ selection' = s
      /\ IF s = selection THEN UNCHANGED <<historyVars, calls>>
         ELSE StoreState(s, search, offset, unedited, <<>>)
      /\ plain' = (plain /\ AllLoaded /\ search = None /\ condition)
      /\ UNCHANGED <<search, offset, unedited, range, listVars, serverVars, loaded, title>>
  BY DEF Select, Idle, Plain
<1>2. PageTypes'
  BY <1>1 DEF PageInv, TypeOK, PageTypes
<1>3. HistoryTypes' /\ calls' \in Seq(Calls) /\ Nested'
  <2>1. CASE s = selection
    <3>1. HistoryTypes'
      BY <1>1, <2>1 DEF PageInv, TypeOK, HistoryTypes, historyVars
    <3>2. calls' \in Seq(Calls)
      BY <1>1, <2>1 DEF PageInv, TypeOK, CallTypes, Calls
    <3>3. calls' = <<>>
      BY <1>1, <2>1
    <3> QED BY <3>1, <3>2, <3>3, NoCallIsNested
  <2>2. CASE s # selection
    <3>1. StoreState(s, search, offset, unedited, <<>>)
      BY <1>1, <2>2
    <3> QED BY <3>1, UserStores DEF PageInv, TypeOK, PageTypes
  <2> QED BY <2>1, <2>2
<1>4. plain' \in BOOLEAN
  BY <1>1
<1> QED BY <1>1, <1>2, <1>3, <1>4, HandlerKeeps

LEMMA SearchKeeps ==
  ASSUME PageInv, NEW q \in Queries \cup {None}, OnSearch(q)
  PROVE  PageInv'
<1>1. PageTypes'
  BY DEF OnSearch, PageInv, TypeOK, PageTypes
<1>2. HistoryTypes' /\ calls' \in Seq(Calls) /\ Nested'
  BY UserStores DEF OnSearch, PageInv, TypeOK, PageTypes
<1>3. plain' \in BOOLEAN
  BY DEF OnSearch, Plain
<1> QED BY <1>1, <1>2, <1>3, HandlerKeeps DEF OnSearch, PageInv, TypeOK, CallTypes

LEMMA TurnKeeps ==
  ASSUME PageInv, NEW page \in 0..LastPage, TurnTo(page)
  PROVE  PageInv'
<1>1. PageTypes'
  BY DEF TurnTo, PageInv, TypeOK, PageTypes
<1>2. HistoryTypes' /\ calls' \in Seq(Calls) /\ Nested'
  BY UserStores DEF TurnTo, PageInv, TypeOK, PageTypes
<1>3. plain' \in BOOLEAN
  BY DEF TurnTo, Plain
<1> QED BY <1>1, <1>2, <1>3, HandlerKeeps DEF TurnTo

LEMMA ToggleKeeps == PageInv /\ ToggleUnedited => PageInv'
<1> SUFFICES ASSUME PageInv, ToggleUnedited PROVE PageInv'
  OBVIOUS
<1>1. PageTypes'
  BY DEF ToggleUnedited, PageInv, TypeOK, PageTypes
<1>2. HistoryTypes' /\ calls' \in Seq(Calls) /\ Nested'
  <2>1. (~unedited) \in BOOLEAN
    BY DEF PageInv, TypeOK, PageTypes
  <2> DEFINE flag == ~unedited
  <2>2. flag \in BOOLEAN /\ StoreState(selection, search, offset, flag, <<>>)
    BY <2>1 DEF ToggleUnedited
  <2> HIDE DEF flag
  <2> QED BY <2>2, UserStores DEF PageInv, TypeOK, PageTypes
<1>3. plain' \in BOOLEAN
  BY DEF ToggleUnedited, Plain
<1> QED BY <1>1, <1>2, <1>3, HandlerKeeps DEF ToggleUnedited

LEMMA FollowKeeps ==
  ASSUME PageInv, NEW o \in Objects, Follow(o)
  PROVE  PageInv'
<1>1. Linked(o) \in Addresses
  BY DEF Linked, Stored, Addresses
<1>2. HistoryTypes' /\ calls' \in Seq(Calls) /\ Nested'
  BY <1>1, UserVisits DEF Follow, PageInv, TypeOK
<1>3. PageTypes'
  BY DEF Follow, PageInv, TypeOK, PageTypes, pageVars
<1>4. plain' \in BOOLEAN
  BY DEF Follow, Plain
<1> QED BY <1>2, <1>3, <1>4, HandlerKeeps DEF Follow, PageInv, TypeOK, CallTypes

LEMMA TravelKeeps ==
  ASSUME PageInv, NEW to, Travel(to)
  PROVE  PageInv'
<1> DEFINE call == [at |-> "enter", address |-> entries[to]]
<1>1. HistoryTypes /\ to \in 1..Len(entries) /\ at' = to /\ entries' = entries
  BY DEF Travel, PageInv, TypeOK
<1>2. HistoryTypes' /\ entries[to] \in Addresses
  BY <1>1 DEF HistoryTypes
<1>3. call \in Calls
  BY <1>2 DEF Calls
<1>4. calls' = <<call>> \/ calls' = <<>>
  BY DEF Travel
<1> HIDE DEF call
<1>5. calls' \in Seq(Calls) /\ Nested'
  <2>1. CASE calls' = <<call>>
    <3>1. calls' \in Seq(Calls) /\ Len(calls') = 1
      BY <1>3, <2>1
    <3>2. Len(calls') <= 1
      BY <3>1
    <3> QED BY <3>1, <3>2, OneCallIsNested
  <2>2. CASE calls' = <<>>
    BY <2>2, NoCalls, NoCallIsNested
  <2> QED BY <1>4, <2>1, <2>2
<1>6. PageTypes'
  BY DEF Travel, PageInv, TypeOK, PageTypes, pageVars
<1>7. plain' \in BOOLEAN
  BY DEF Travel, Plain
<1> QED BY <1>2, <1>5, <1>6, <1>7, HandlerKeeps DEF Travel, PageInv, TypeOK, CallTypes

LEMMA LoadKeeps ==
  ASSUME PageInv, NEW w \in Widgets, Load(w)
  PROVE  PageInv'
<1> DEFINE call == [at |-> "enter", address |-> Address]
<1>1. Address \in Addresses
  BY CurrentAddress DEF PageInv, TypeOK
<1>2. call \in Calls
  BY <1>1 DEF Calls
<1>3. calls' = <<call>> \/ calls' = <<>>
  BY DEF Load, Idle
<1> HIDE DEF call
<1>4. calls' \in Seq(Calls) /\ Nested'
  <2>1. CASE calls' = <<call>>
    <3>1. calls' \in Seq(Calls) /\ Len(calls') = 1
      BY <1>2, <2>1
    <3>2. Len(calls') <= 1
      BY <3>1
    <3> QED BY <3>1, <3>2, OneCallIsNested
  <2>2. CASE calls' = <<>>
    BY <2>2, NoCalls, NoCallIsNested
  <2> QED BY <1>3, <2>1, <2>2
<1>5. ListTypes' /\ SpinnerEnds'
  BY ListUntouched DEF Load, PageInv, TypeOK
<1>6. /\ HistoryTypes' /\ PageTypes' /\ todo' \in {"nothing", "reload", "push"}
      /\ ServerTypes'
  BY DEF Load, PageInv, TypeOK, HistoryTypes, PageTypes, CallTypes, ServerTypes, historyVars,
         pageVars, serverVars
<1> QED BY <1>4, <1>5, <1>6 DEF PageInv, TypeOK, CallTypes, Calls

(* Saves and answers leave history, page and calls as they are.            *)
LEMMA ServingKeeps ==
  ASSUME PageInv, UNCHANGED <<historyVars, pageVars, callVars, loaded, title, plain>>,
         xhr' \in Requests \cup {None}, shown' \in Requests \cup {None}, busy' \in BOOLEAN,
         busy' => xhr' # None,
         edits' \in 0..MaxEdits, saving' \in BOOLEAN, failures' \in 0..MaxFailures
  PROVE  PageInv'
<1>1. Nested'
  BY NestedUntouched DEF PageInv
<1>2. HistoryTypes' /\ PageTypes' /\ CallTypes'
  BY DEF PageInv, TypeOK, HistoryTypes, PageTypes, CallTypes, historyVars, pageVars, callVars
<1>3. ListTypes' /\ SpinnerEnds' /\ ServerTypes'
  BY DEF PageInv, TypeOK, ListTypes, SpinnerEnds, ServerTypes
<1> QED BY <1>1, <1>2, <1>3 DEF PageInv, TypeOK

LEMMA SaveKeeps == PageInv /\ Save => PageInv'
<1> SUFFICES ASSUME PageInv, Save PROVE PageInv'
  OBVIOUS
<1>1. edits \in 0..MaxEdits /\ edits < MaxEdits /\ edits' = edits + 1
  BY DEF Save, PageInv, TypeOK, ServerTypes
<1>2. edits' \in 0..MaxEdits
  BY <1>1
<1> QED BY <1>2, ServingKeeps
        DEF Save, PageInv, TypeOK, ListTypes, SpinnerEnds, ServerTypes, listVars

LEMMA SaveAnsweredKeeps == PageInv /\ SaveAnswered => PageInv'
<1> SUFFICES ASSUME PageInv, SaveAnswered PROVE PageInv'
  OBVIOUS
<1>1. Params(selection, search, offset, unedited, range) \in Queried
  BY DEF PageInv, TypeOK, PageTypes, Params, Queried
<1>2. RefreshTransactions(Params(selection, search, offset, unedited, range)) /\ ListTypes
  BY DEF SaveAnswered, PageInv, TypeOK
<1>3. xhr' \in Requests /\ shown' \in Requests \cup {None} /\ xhr' # None
  BY <1>1, <1>2, RefreshSends
<1> QED BY <1>3, ServingKeeps DEF SaveAnswered, PageInv, TypeOK, ListTypes, ServerTypes

LEMMA ReadIsRequest ==
  ASSUME PageInv, ServerReads
  PROVE  xhr' \in Requests /\ xhr' # None
<1>1. PICK n \in 1..(LastPage + 1) :
        xhr' = [params |-> xhr.params, read |-> TRUE, version |-> edits, pages |-> n]
  BY DEF ServerReads
<1>2. xhr \in Requests /\ edits \in Nat
  BY DEF ServerReads, PageInv, TypeOK, ListTypes, ServerTypes
<1>3. xhr' \in Requests
  BY <1>1, <1>2 DEF Requests
<1> QED BY <1>3

LEMMA ServerReadsKeeps == PageInv /\ ServerReads => PageInv'
BY ReadIsRequest, ServingKeeps
   DEF ServerReads, PageInv, TypeOK, ListTypes, ServerTypes, serverVars

LEMMA AnswerKeeps == PageInv /\ (Answer \/ Fail) => PageInv'
<1>1. ASSUME PageInv, Answer PROVE PageInv'
  BY <1>1, ServingKeeps DEF Answer, PageInv, TypeOK, ListTypes, ServerTypes, serverVars
<1>2. ASSUME PageInv, Fail PROVE PageInv'
  <2>1. failures \in 0..MaxFailures /\ failures < MaxFailures /\ failures' = failures + 1
    BY <1>2 DEF Fail, PageInv, TypeOK, ServerTypes
  <2>2. failures' \in 0..MaxFailures
    BY <2>1
  <2> QED BY <1>2, <2>2, ServingKeeps DEF Fail, PageInv, TypeOK, ListTypes, ServerTypes
<1> QED BY <1>1, <1>2

LEMMA PageNext == PageInv /\ [Next]_vars => PageInv'
<1> SUFFICES ASSUME PageInv, [Next]_vars PROVE PageInv'
  OBVIOUS
<1>1. CASE Run
  BY <1>1, EnterKeeps, FinishKeeps, ThrowKeeps, ReloadLastKeeps, PushAllKeeps DEF Run
<1>2. CASE Acts
  <2>1. ASSUME NEW o \in Objects, Click(o) PROVE PageInv'
    <3>1. Select({o}, TRUE) /\ todo' = todo /\ {o} \in SUBSET Objects
      BY <2>1 DEF Click
    <3> QED BY <3>1, SelectKeeps DEF PageInv, TypeOK, CallTypes
  <2>2. ASSUME NEW o \in Objects, CtrlClick(o) PROVE PageInv'
    <3>1. Toggled(o) \in SUBSET Objects
      BY DEF Toggled, PageInv, TypeOK, PageTypes
    <3>2. Select(Toggled(o), selection \cap Merchants = {}) /\ todo' = todo
      BY <2>2 DEF CtrlClick
    <3> QED BY <3>1, <3>2, SelectKeeps DEF PageInv, TypeOK, CallTypes
  <2>3. ASSUME NEW o \in Objects, Follow(o) PROVE PageInv'
    BY <2>3, FollowKeeps
  <2>4. CASE ClickAll
    <3>1. Select({}, AtDefaults /\ ~unedited) /\ todo' = "push" /\ {} \in SUBSET Objects
      BY <2>4 DEF ClickAll
    <3> QED BY <3>1, SelectKeeps
  <2>5. ASSUME NEW q \in Queries \cup {None}, OnSearch(q) PROVE PageInv'
    BY <2>5, SearchKeeps
  <2>6. CASE Turn
    <3>1. offset \in 0..LastPage
      BY DEF PageInv, TypeOK, PageTypes
    <3>2. CASE Earlier /\ TurnTo(offset + 1)
      <4>1. offset + 1 \in 0..LastPage
        BY <3>1, <3>2 DEF Earlier
      <4> QED BY <3>2, <4>1, TurnKeeps
    <3>3. CASE Later /\ TurnTo(offset - 1)
      <4>1. offset - 1 \in 0..LastPage
        BY <3>1, <3>3 DEF Later
      <4> QED BY <3>3, <4>1, TurnKeeps
    <3> QED BY <2>6, <3>2, <3>3 DEF Turn
  <2>7. CASE ToggleUnedited
    BY <2>7, ToggleKeeps
  <2>8. CASE Back \/ Forward
    BY <2>8, TravelKeeps DEF Back, Forward
  <2> QED BY <1>2, <2>1, <2>2, <2>3, <2>4, <2>5, <2>6, <2>7, <2>8 DEF Acts
<1>3. CASE Save
  BY <1>3, SaveKeeps
<1>4. ASSUME NEW w \in Widgets, Load(w) PROVE PageInv'
  BY <1>4, LoadKeeps
<1>5. CASE Serve
  BY <1>5, SaveAnsweredKeeps, ServerReadsKeeps, AnswerKeeps DEF Serve
<1>6. CASE Fail
  BY <1>6, AnswerKeeps
<1>7. CASE UNCHANGED vars
  <2>1. UNCHANGED <<historyVars, pageVars, callVars, listVars, serverVars, loaded, title, plain>>
    BY <1>7 DEF vars
  <2> QED BY <2>1, ServingKeeps
          DEF PageInv, TypeOK, ListTypes, SpinnerEnds, ServerTypes, listVars, serverVars
<1> QED BY <1>1, <1>2, <1>3, <1>4, <1>5, <1>6, <1>7 DEF Next

LEMMA PageInvariant == Spec => []PageInv
  BY PageInit, PageNext, PTL DEF Spec

(* Every variable of the accounts page keeps its type.                     *)
THEOREM AccountsTypeCorrect == Spec => []TypeOK
<1>1. PageInv => TypeOK
  BY DEF PageInv
<1> QED BY <1>1, PageInvariant, PTL

(* The list is never hidden without a request that will reveal it: the     *)
(* loading class of accounts.reloadTransactions is taken back by afterLoad.*)
THEOREM SpinnersEnd == Spec => []SpinnerEnds
<1>1. PageInv => SpinnerEnds
  BY DEF PageInv
<1> QED BY <1>1, PageInvariant, PTL

(* reloadState is re-entered from its own change of the selection once at  *)
(* most: what it has just stored reads back as itself.                     *)
THEOREM NestingEnds == Spec => []NestingBounded
<1>1. PageInv => NestingBounded
  BY DEF PageInv, Nested, NestingBounded
<1> QED BY <1>1, PageInvariant, PTL

-----------------------------------------------------------------------------
(* Plain histories                                                         *)

(* Neighbours in a plain history differ in their selection or in the page  *)
(* and dates of the list, never in both.                                   *)
Near(u, v) == Selected(u) = Selected(v) \/ (u.offset = v.offset /\ u.range = v.range)

PlainEntries ==
  /\ \A k \in 1..Len(entries) : Canonical(entries[k])
  /\ Len(entries) > 1 => \A k \in 1..Len(entries) : entries[k].search = None
  /\ \A k \in 1..(Len(entries) - 1) : Near(entries[k], entries[k + 1])

(* The page before anything is restored                                    *)
Unrestored ==
  /\ calls = <<>> /\ todo = "nothing" /\ Len(entries) = 1 /\ PlainlyOpened(Address)
  /\ selection = {} /\ search = None /\ offset = 0 /\ unedited = FALSE /\ range = None

(* Restoring the selection of u changes nothing, or stores u itself.       *)
Settles(u) == \/ Selected(u) = selection
              \/ Stored(Selected(u), search, offset, u.unedited, range) = u

Reads(step) == calls = <<[at |-> step, address |-> Address]>>

PlainInv ==
  plain =>
    /\ PlainEntries
    /\ todo = "push" => Address = Stored({}, None, 0, FALSE, None)
    /\ \/ ~AllLoaded /\ Unrestored
       \/ AllLoaded /\ calls = <<>> /\ Follows
       \/ AllLoaded /\ Reads("enter") /\ Settles(Address)
       \/ AllLoaded /\ Reads("finish") /\ selection = Selected(Address)
                    /\ unedited = Address.unedited

(* What the sidebars can select                                            *)
Selectable(s) == s \in SUBSET Objects /\ (One(s) \/ s \cap Merchants = {})

LEMMA SelectedSelectable ==
  ASSUME NEW u \in Addresses
  PROVE  Selectable(Selected(u))
  BY SelectedTypes DEF Selectable, Selected

LEMMA StoredSelected ==
  \A s, o, f, r, u : Selectable(s) /\ u = Stored(s, None, o, f, r) =>
    /\ Selected(u) = s /\ Canonical(u)
    /\ u.search = None /\ u.offset = o /\ u.unedited = f /\ u.range = r
<1> SUFFICES ASSUME NEW s, NEW o, NEW f, NEW r, NEW u,
                    Selectable(s), u = Stored(s, None, o, f, r)
             PROVE  /\ Selected(u) = s /\ Canonical(u)
                    /\ u.search = None /\ u.offset = o /\ u.unedited = f /\ u.range = r
  OBVIOUS
<1>1. u.selection = s /\ u.search = None /\ u.offset = o /\ u.unedited = f /\ u.range = r
  BY DEF Stored
<1>2. s \cap Merchants = {} => s \ Merchants = s
  OBVIOUS
<1>3. Selected(u) = s
  BY <1>1, <1>2 DEF Selected, Selectable
<1>4. Canonical(u)
  BY <1>1, <1>3 DEF Canonical
<1> QED BY <1>1, <1>3, <1>4

LEMMA AllSearchNothing ==
  ASSUME HistoryTypes, PlainEntries, Address.search = None
  PROVE  \A k \in 1..Len(entries) : entries[k].search = None
<1>1. Len(entries) \in Nat /\ at \in 1..Len(entries)
  BY DEF HistoryTypes
<1>2. CASE Len(entries) > 1
  BY <1>2 DEF PlainEntries
<1>3. CASE ~(Len(entries) > 1)
  <2>1. at = 1 /\ 1..Len(entries) = {1}
    BY <1>1, <1>3
  <2> QED BY <2>1 DEF Address
<1> QED BY <1>2, <1>3

(* A new entry next to the current one                                     *)
LEMMA EntriesGrow ==
  ASSUME HistoryTypes, PlainEntries, Address.search = None,
         NEW u \in Addresses, Canonical(u), u.search = None, Near(Address, u), Visit(u, <<>>)
  PROVE  PlainEntries' /\ HistoryTypes' /\ Address' = u
<1> DEFINE none == <<>>
<1>1. none \in Seq(Calls) /\ Visit(u, none)
  BY NoCalls
<1> HIDE DEF none
<1>2. /\ HistoryTypes' /\ Address' = u /\ at' = at + 1 /\ Len(entries') = at + 1
      /\ \A k \in 1..at : entries'[k] = entries[k]
  BY <1>1, VisitLands
<1>3. at \in Nat /\ at >= 1 /\ at <= Len(entries) /\ Len(entries) \in Nat
  BY DEF HistoryTypes
<1>4. entries'[at + 1] = u
  BY <1>2 DEF Address
<1>5. \A k \in 1..Len(entries') : k \in 1..at \/ k = at + 1
  BY <1>2, <1>3
<1>6. \A k \in 1..at : Canonical(entries[k]) /\ entries[k].search = None
  <2>1. \A k \in 1..at : k \in 1..Len(entries)
    BY <1>3
  <2> QED BY <2>1, AllSearchNothing DEF PlainEntries
<1>7. \A k \in 1..Len(entries') : Canonical(entries'[k]) /\ entries'[k].search = None
  BY <1>2, <1>4, <1>5, <1>6
<1>8. ASSUME NEW k \in 1..(Len(entries') - 1) PROVE Near(entries'[k], entries'[k + 1])
  <2>1. k \in 1..at /\ Len(entries') - 1 = at
    BY <1>2, <1>3
  <2>2. CASE k = at
    <3>1. entries'[k] = Address /\ entries'[k + 1] = u
      BY <1>2, <1>4, <2>1, <2>2 DEF Address
    <3> QED BY <3>1
  <2>3. CASE k # at
    <3>1. k + 1 \in 1..at /\ k \in 1..(Len(entries) - 1)
      BY <1>3, <2>1, <2>3
    <3>2. entries'[k] = entries[k] /\ entries'[k + 1] = entries[k + 1]
      BY <1>2, <2>1, <3>1
    <3>3. Near(entries[k], entries[k + 1])
      BY <3>1 DEF PlainEntries
    <3> QED BY <3>2, <3>3
  <2> QED BY <2>2, <2>3
<1>9. PlainEntries'
  BY <1>7, <1>8 DEF PlainEntries
<1> QED BY <1>2, <1>9

(* At rest in a plain history page and address say the same.               *)
LEMMA PlainRest ==
  ASSUME PageInv, PlainInv, plain, AllLoaded, calls = <<>>
  PROVE  /\ PlainEntries /\ Follows /\ HistoryTypes /\ Address \in Addresses
         /\ Selectable(selection) /\ Canonical(Address)
         /\ Address = Stored(selection, search, offset, unedited, range)
<1>1. HistoryTypes /\ Address \in Addresses
  BY CurrentAddress DEF PageInv, TypeOK
<1>2. \A c : <<c>> # <<>>
  OBVIOUS
<1>3. PlainEntries /\ Follows
  BY <1>2 DEF PlainInv, Reads
<1>4. Canonical(Address)
  BY <1>1, <1>3 DEF PlainEntries, HistoryTypes, Address
<1>5. Selectable(selection)
  BY <1>1, <1>3, SelectedSelectable DEF Follows
<1>6. Address = Stored(selection, search, offset, unedited, range)
  BY <1>3, <1>4 DEF Canonical, Follows
<1> QED BY <1>1, <1>3, <1>4, <1>5, <1>6

AllAccounts(s, o, f) == s = {} /\ o = 0 /\ f = FALSE /\ range = None

(* A handler that stores the page with another selection, or with another  *)
(* page of the list or flag                                                *)
LEMMA HandlerStaysPlain ==
  ASSUME PageInv, PlainInv, plain, AllLoaded, calls = <<>>, search = None,
         NEW s, Selectable(s), NEW o \in 0..LastPage, NEW f, f \in BOOLEAN,
         s = selection \/ o = offset,
         StoreState(s, None, o, f, <<>>),
         selection' = s, search' = None, offset' = o, unedited' = f,
         UNCHANGED <<range, loaded>>,
         todo' = "push" => AllAccounts(s, o, f)
  PROVE  PlainInv'
<1> DEFINE u == Stored(s, None, o, f, range)
           call == [at |-> "enter", address |-> u]
<1>1. /\ PlainEntries /\ Follows /\ HistoryTypes /\ Canonical(Address)
      /\ Address = Stored(selection, search, offset, unedited, range)
  BY PlainRest
<1>2. IF u = Address THEN UNCHANGED historyVars /\ calls' = <<>> ELSE Visit(u, <<>>)
  BY DEF StoreState
<1>3. u \in Addresses /\ call \in Calls
  BY StoredTypes DEF Selectable, PageInv, TypeOK, PageTypes, Calls
<1>12. u = Stored(s, None, o, f, range)
  OBVIOUS
<1>7. Visit(u, <<>>) => calls' = <<call>> \o <<>> \/ calls' = <<>>
  BY DEF Visit
<1> HIDE DEF u, call
<1>4. /\ Selected(u) = s /\ Canonical(u)
      /\ u.search = None /\ u.offset = o /\ u.unedited = f /\ u.range = range
  BY <1>12, StoredSelected
<1>5. Address.search = None /\ Near(Address, u)
  BY <1>1, <1>4 DEF Follows, Near
<1>6. todo' = "push" => u = Stored({}, None, 0, FALSE, None)
  BY <1>12 DEF AllAccounts
<1>8. <<call>> \o <<>> = <<call>>
  BY <1>3, LoneCall
<1>9. PlainEntries' /\ Address' = u /\ (calls' = <<>> \/ calls' = <<call>>)
  <2>1. CASE u = Address
    BY <1>1, <1>2, <2>1 DEF PlainEntries, Near, historyVars, Address
  <2>2. CASE u # Address
    <3>1. Visit(u, <<>>)
      BY <1>2, <2>2
    <3>2. PlainEntries' /\ Address' = u
      BY <1>1, <1>3, <1>4, <1>5, <3>1, EntriesGrow
    <3>3. calls' = <<>> \/ calls' = <<call>>
      BY <1>7, <1>8, <3>1
    <3> QED BY <3>2, <3>3
  <2> QED BY <2>1, <2>2
<1>10. Follows' /\ Settles(Address)' /\ AllLoaded'
  <2>1. /\ Selected(Address') = s /\ Address'.search = None /\ Address'.offset = o
        /\ Address'.unedited = f /\ Address'.range = range
    BY <1>4, <1>9
  <2>2. Follows'
    BY <2>1 DEF Follows
  <2>3. Settles(Address)'
    BY <2>1 DEF Settles
  <2> QED BY <2>2, <2>3 DEF AllLoaded
<1>11. calls' = <<call>> => Reads("enter")'
  BY <1>9 DEF Reads, call
<1> QED BY <1>6, <1>9, <1>10, <1>11 DEF PlainInv

LEMMA SelectStaysPlain ==
  ASSUME PageInv, PlainInv, NEW s, Selectable(s), NEW condition, Select(s, condition),
         todo' = todo \/ (todo' = "push" /\ s = {} /\ (condition => AtDefaults /\ ~unedited))
  PROVE  PlainInv'
<1> SUFFICES ASSUME plain' PROVE PlainInv'
  BY DEF PlainInv
<1>1. /\ calls = <<>> /\ todo = "nothing" /\ selection' = s
      /\ IF s = selection THEN UNCHANGED <<historyVars, calls>>
         ELSE StoreState(s, search, offset, unedited, <<>>)
      /\ plain /\ AllLoaded /\ search = None /\ condition
      /\ UNCHANGED <<search, offset, unedited, range, loaded, listVars, serverVars, title>>
  BY DEF Select, Idle, Plain
<1>2. /\ PlainEntries /\ Follows
      /\ Address = Stored(selection, search, offset, unedited, range)
  BY <1>1, PlainRest
<1>3. unedited \in BOOLEAN /\ offset \in 0..LastPage
  BY DEF PageInv, TypeOK, PageTypes
<1>4. todo' = "push" => AllAccounts(s, offset, unedited)
  BY <1>1, <1>3 DEF AtDefaults, AllAccounts
<1>5. CASE s = selection
  <2>1. UNCHANGED <<historyVars, calls, pageVars, loaded>>
    BY <1>1, <1>5 DEF pageVars
  <2>2. PlainEntries' /\ Follows' /\ AllLoaded' /\ calls' = <<>> /\ Address' = Address
    BY <1>1, <1>2, <2>1 DEF PlainEntries, Near, Follows, AllLoaded, Address, historyVars, pageVars
  <2>3. todo' = "push" => Address = Stored({}, None, 0, FALSE, None)
    BY <1>1, <1>2, <1>4, <1>5 DEF AllAccounts
  <2> QED BY <2>2, <2>3 DEF PlainInv
<1>6. CASE s # selection
  <2>1. StoreState(s, None, offset, unedited, <<>>) /\ search' = None
    BY <1>1, <1>6
  <2> QED BY <1>1, <1>3, <1>4, <2>1, HandlerStaysPlain
<1> QED BY <1>5, <1>6

LEMMA SearchStaysPlain ==
  ASSUME PageInv, PlainInv, NEW q, OnSearch(q)
  PROVE  PlainInv'
<1> SUFFICES ASSUME plain' PROVE PlainInv'
  BY DEF PlainInv
<1>1. /\ calls = <<>> /\ todo' = todo /\ todo = "nothing" /\ q = None
      /\ StoreState(selection, None, offset, unedited, <<>>)
      /\ plain /\ AllLoaded /\ search = None /\ search' = None
      /\ UNCHANGED <<selection, offset, unedited, range, loaded>>
  BY DEF OnSearch, Idle, Plain
<1>2. Selectable(selection)
  BY <1>1, PlainRest
<1>3. unedited \in BOOLEAN /\ offset \in 0..LastPage
  BY DEF PageInv, TypeOK, PageTypes
<1> QED BY <1>1, <1>2, <1>3, HandlerStaysPlain

LEMMA TurnStaysPlain ==
  ASSUME PageInv, PlainInv, NEW page \in 0..LastPage, TurnTo(page)
  PROVE  PlainInv'
<1> SUFFICES ASSUME plain' PROVE PlainInv'
  BY DEF PlainInv
<1>1. /\ calls = <<>> /\ todo' = "reload" /\ offset' = page
      /\ StoreState(selection, search, page, unedited, <<>>)
      /\ plain /\ AllLoaded /\ search = None
      /\ UNCHANGED <<selection, search, unedited, range, loaded>>
  BY DEF TurnTo, Idle, Plain
<1>2. Selectable(selection)
  BY <1>1, PlainRest
<1>3. unedited \in BOOLEAN
  BY DEF PageInv, TypeOK, PageTypes
<1> QED BY <1>1, <1>2, <1>3, HandlerStaysPlain

LEMMA ToggleStaysPlain ==
  ASSUME PageInv, PlainInv, ToggleUnedited
  PROVE  PlainInv'
<1> SUFFICES ASSUME plain' PROVE PlainInv'
  BY DEF PlainInv
<1> DEFINE flag == ~unedited
<1>1. /\ calls = <<>> /\ todo' = "reload" /\ unedited' = flag
      /\ StoreState(selection, search, offset, flag, <<>>)
      /\ plain /\ AllLoaded /\ search = None
      /\ UNCHANGED <<selection, search, offset, range, loaded>>
  BY DEF ToggleUnedited, Idle, Plain
<1>2. Selectable(selection)
  BY <1>1, PlainRest
<1>3. flag \in BOOLEAN /\ offset \in 0..LastPage
  BY DEF PageInv, TypeOK, PageTypes
<1> HIDE DEF flag
<1> QED BY <1>1, <1>2, <1>3, HandlerStaysPlain

LEMMA FollowStaysPlain ==
  ASSUME PageInv, PlainInv, NEW o \in Objects, Follow(o)
  PROVE  PlainInv'
<1> SUFFICES ASSUME plain' PROVE PlainInv'
  BY DEF PlainInv
<1> DEFINE u == Linked(o)
           call == [at |-> "enter", address |-> u]
<1>1. /\ calls = <<>> /\ todo' = todo /\ todo = "nothing"
      /\ Visit(u, <<>>) /\ plain /\ AllLoaded /\ search = None /\ AtDefaults
      /\ UNCHANGED <<pageVars, loaded>>
  BY DEF Follow, Idle, Plain
<1>2. /\ PlainEntries /\ Follows /\ HistoryTypes
      /\ Address = Stored(selection, search, offset, unedited, range)
  BY <1>1, PlainRest
<1>3. Selectable({o})
  BY DEF Selectable, One
<1>4. u = Stored({o}, None, 0, FALSE, None) /\ u \in Addresses
  BY DEF Linked, Stored, Addresses
<1>5. call \in Calls
  BY <1>4 DEF Calls
<1>6. calls' = IF AllLoaded /\ u # Address THEN <<call>> \o <<>> ELSE <<>>
  BY <1>1 DEF Visit
<1> HIDE DEF u, call
<1>7. /\ Selected(u) = {o} /\ Canonical(u)
      /\ u.search = None /\ u.offset = 0 /\ u.unedited = FALSE /\ u.range = None
  <2> DEFINE flag == FALSE
  <2>1. u = Stored({o}, None, 0, flag, None)
    BY <1>4
  <2> HIDE DEF flag
  <2>2. /\ Selected(u) = {o} /\ Canonical(u)
        /\ u.search = None /\ u.offset = 0 /\ u.unedited = flag /\ u.range = None
    BY <1>3, <2>1, StoredSelected
  <2> QED BY <2>2 DEF flag
<1>8. Address.search = None /\ Near(Address, u)
  BY <1>1, <1>2, <1>7 DEF Follows, Near, AtDefaults
<1>9. PlainEntries' /\ Address' = u
  BY <1>1, <1>2, <1>4, <1>7, <1>8, EntriesGrow
<1>10. calls' = IF u # Address THEN <<call>> ELSE <<>>
  BY <1>1, <1>5, <1>6, LoneCall
<1>11. AllLoaded' /\ todo' = "nothing"
  BY <1>1 DEF AllLoaded
<1>12. CASE u = Address
  <2>1. Follows' /\ calls' = <<>>
    BY <1>1, <1>2, <1>9, <1>10, <1>12 DEF Follows, pageVars
  <2> QED BY <1>9, <1>11, <2>1 DEF PlainInv
<1>13. CASE u # Address
  <2>1. Reads("enter")'
    BY <1>9, <1>10, <1>13 DEF Reads, call
  <2>2. Stored(Selected(u), search', offset', u.unedited, range') = u
    BY <1>1, <1>4, <1>7 DEF AtDefaults, pageVars
  <2>3. Settles(Address)'
    BY <1>9, <2>2 DEF Settles
  <2> QED BY <1>9, <1>11, <2>1, <2>3 DEF PlainInv
<1> QED BY <1>12, <1>13

LEMMA TravelStaysPlain ==
  ASSUME PageInv, PlainInv, NEW to, to = at - 1 \/ to = at + 1, Travel(to)
  PROVE  PlainInv'
<1> SUFFICES ASSUME plain' PROVE PlainInv'
  BY DEF PlainInv
<1> DEFINE u == entries[to]
           call == [at |-> "enter", address |-> u]
<1>1. /\ calls = <<>> /\ todo' = todo /\ todo = "nothing"
      /\ plain /\ AllLoaded /\ search = None
      /\ to \in 1..Len(entries) /\ at' = to /\ entries' = entries
      /\ UNCHANGED <<pageVars, loaded>>
  BY DEF Travel, Idle, Plain
<1>2. /\ PlainEntries /\ Follows /\ HistoryTypes
      /\ Address = Stored(selection, search, offset, unedited, range)
  BY <1>1, PlainRest
<1>3. Address' = u /\ PlainEntries'
  BY <1>1, <1>2 DEF Address, PlainEntries, Near
<1>4. Canonical(u) /\ u.search = None
  BY <1>1, <1>2, AllSearchNothing DEF PlainEntries, Follows
<1>5. Near(u, Address)
  <2>1. at \in 1..Len(entries) /\ Len(entries) \in Nat
    BY <1>2 DEF HistoryTypes
  <2>2. CASE to = at - 1
    <3>1. to \in 1..(Len(entries) - 1) /\ to + 1 = at
      BY <1>1, <2>1, <2>2
    <3>2. Near(entries[to], entries[to + 1])
      BY <1>2, <3>1 DEF PlainEntries
    <3> QED BY <3>1, <3>2 DEF Address
  <2>3. CASE to = at + 1
    <3>1. at \in 1..(Len(entries) - 1)
      BY <1>1, <2>1, <2>3
    <3>2. Near(entries[at], entries[to])
      BY <1>2, <2>3, <3>1 DEF PlainEntries
    <3> QED BY <3>2 DEF Address, Near
  <2> QED BY <2>2, <2>3
<1>6. calls' = IF AllLoaded /\ u # Address THEN <<call>> ELSE <<>>
  BY <1>1 DEF Travel
<1> HIDE DEF u, call
<1>7. AllLoaded' /\ todo' = "nothing"
  BY <1>1 DEF AllLoaded
<1>8. CASE u = Address
  <2>1. Follows' /\ calls' = <<>>
    BY <1>1, <1>2, <1>3, <1>6, <1>8 DEF Follows, pageVars
  <2> QED BY <1>3, <1>7, <2>1 DEF PlainInv
<1>9. CASE u # Address
  <2>1. Reads("enter")'
    BY <1>1, <1>3, <1>6, <1>9 DEF Reads, call
  <2>2. Selected(u) = selection \/ Stored(Selected(u), search, offset, u.unedited, range) = u
    BY <1>1, <1>2, <1>4, <1>5 DEF Near, Follows, Canonical
  <2>3. Settles(Address)'
    BY <1>1, <1>3, <2>2 DEF Settles, pageVars
  <2> QED BY <1>3, <1>7, <2>1, <2>3 DEF PlainInv
<1> QED BY <1>8, <1>9

(* In a plain history All Accounts pushes the address that is there        *)
(* already, and nothing reads it.                                          *)
LEMMA PushAllReadsNothing ==
  ASSUME PageInv, PlainInv, plain, PushAllLast
  PROVE  calls' = <<>> /\ AllLoaded /\ PlainInv'
<1>1. /\ calls = <<>> /\ todo = "push" /\ todo' = "nothing" /\ plain
      /\ Visit(Bare(Address), <<>>) /\ UNCHANGED <<pageVars, loaded>>
  BY DEF PushAllLast
<1>2. AllLoaded
  BY <1>1 DEF PlainInv, Unrestored
<1>3. /\ PlainEntries /\ Follows /\ HistoryTypes /\ Address \in Addresses
      /\ Canonical(Address)
  BY <1>1, <1>2, PlainRest
<1>4. Address = Stored({}, None, 0, FALSE, None)
  BY <1>1 DEF PlainInv
<1>5. Bare(Address) = Address /\ Address.search = None
  <2>1. /\ Address.path = "objects" /\ Address.selection = {} /\ Address.search = None
        /\ Address.offset = 0 /\ Address.unedited = FALSE /\ Address.range = None
    BY <1>4 DEF Stored
  <2> QED BY <1>4, <2>1 DEF Bare, Stored
<1>6. PlainEntries' /\ Address' = Address
  BY <1>1, <1>3, <1>5, EntriesGrow DEF Near
<1>7. calls' = <<>>
  BY <1>1, <1>5 DEF Visit
<1>8. Follows' /\ AllLoaded'
  BY <1>1, <1>2, <1>3, <1>6 DEF Follows, AllLoaded, pageVars
<1> QED BY <1>1, <1>2, <1>6, <1>7, <1>8 DEF PlainInv

LEMMA PushAllStaysPlain ==
  ASSUME PageInv, PlainInv, PushAllLast
  PROVE  PlainInv'
<1>1. plain' = plain
  BY DEF PushAllLast
<1> QED BY <1>1, PushAllReadsNothing DEF PlainInv

(* Reading an address of a plain history stores nothing else.              *)
LEMMA PlainEnter ==
  ASSUME PageInv, PlainInv, plain, EnterReloadState
  PROVE  /\ UNCHANGED historyVars
         /\ calls' = <<[at |-> "finish", address |-> Address]>>
         /\ selection' = Selected(Address) /\ unedited' = Address.unedited
         /\ AllLoaded /\ UNCHANGED <<todo, loaded, plain>>
<1> DEFINE finish == [at |-> "finish", address |-> Address]
           none   == <<>>
<1>1. calls # <<>> /\ Head(calls).at = "enter"
  BY DEF EnterReloadState
<1>2. AllLoaded /\ calls = <<[at |-> "enter", address |-> Address]>> /\ Settles(Address)
  BY <1>1 DEF PlainInv, Unrestored, Reads
<1>3. Head(calls).address = Address /\ Tail(calls) = none
  BY <1>2
<1>4. finish \in Calls
  BY CurrentAddress DEF PageInv, TypeOK, Calls
<1> DEFINE rest == <<finish>> \o none
<1>5. /\ unedited' = Address.unedited /\ selection' = Selected(Address)
      /\ IF Selected(Address) = selection THEN UNCHANGED historyVars /\ calls' = rest
         ELSE StoreState(Selected(Address), search, offset, Address.unedited, rest)
      /\ UNCHANGED <<todo, loaded, plain>>
  BY <1>3 DEF EnterReloadState, StoreHalfRestored
<1>6. rest = <<finish>>
  BY <1>4, LoneCall
<1> HIDE DEF rest
<1>7. UNCHANGED historyVars /\ calls' = rest
  BY <1>2, <1>5 DEF StoreState, Settles
<1> QED BY <1>2, <1>5, <1>6, <1>7

LEMMA EnterStaysPlain ==
  ASSUME PageInv, PlainInv, EnterReloadState
  PROVE  PlainInv'
<1> SUFFICES ASSUME plain PROVE PlainInv'
  BY DEF PlainInv, EnterReloadState
<1>1. /\ UNCHANGED historyVars
      /\ calls' = <<[at |-> "finish", address |-> Address]>>
      /\ selection' = Selected(Address) /\ unedited' = Address.unedited
      /\ AllLoaded /\ UNCHANGED <<todo, loaded, plain>>
  BY PlainEnter
<1>2. Address' = Address /\ (PlainEntries' <=> PlainEntries)
  BY <1>1 DEF Address, PlainEntries, Near, historyVars
<1>3. AllLoaded' /\ Reads("finish")'
  BY <1>1, <1>2 DEF AllLoaded, Reads
<1> QED BY <1>1, <1>2, <1>3 DEF PlainInv

LEMMA FinishStaysPlain ==
  ASSUME PageInv, PlainInv, FinishReloadState \/ RepaintThrows
  PROVE  PlainInv'
<1> SUFFICES ASSUME plain PROVE PlainInv'
  BY DEF PlainInv, FinishReloadState, RepaintThrows
<1>1. calls # <<>> /\ Head(calls).at = "finish"
  BY DEF FinishReloadState, RepaintThrows
<1>2. /\ AllLoaded /\ calls = <<[at |-> "finish", address |-> Address]>>
      /\ selection = Selected(Address) /\ unedited = Address.unedited
  BY <1>1 DEF PlainInv, Unrestored, Reads
<1>3. Head(calls).address = Address /\ Tail(calls) = <<>>
  BY <1>2
<1>4. /\ offset' = Address.offset /\ range' = Address.range /\ search' = Address.search
      /\ calls' = <<>> /\ (todo' = todo \/ todo' = "nothing")
      /\ UNCHANGED <<selection, unedited, historyVars, loaded, plain>>
  BY <1>3 DEF FinishReloadState, RepaintThrows, Restore, OffsetOf
<1>5. Address' = Address /\ (PlainEntries' <=> PlainEntries)
  BY <1>4 DEF Address, PlainEntries, Near, historyVars
<1>6. AllLoaded' /\ Follows'
  BY <1>2, <1>4, <1>5 DEF AllLoaded, Follows
<1> QED BY <1>4, <1>5, <1>6 DEF PlainInv

LEMMA LoadStaysPlain ==
  ASSUME PageInv, PlainInv, NEW w \in Widgets, Load(w)
  PROVE  PlainInv'
<1> SUFFICES ASSUME plain PROVE PlainInv'
  BY DEF PlainInv, Load
<1>1. /\ calls = <<>> /\ loaded' = loaded \cup {w} /\ w \notin loaded
      /\ calls' = IF loaded' = Widgets THEN <<[at |-> "enter", address |-> Address]>> ELSE calls
      /\ UNCHANGED <<historyVars, pageVars, todo, plain>>
  BY DEF Load, Idle
<1>2. ~AllLoaded
  BY <1>1 DEF AllLoaded
<1>3. Unrestored /\ PlainEntries
  BY <1>2 DEF PlainInv
<1>4. Address' = Address /\ PlainEntries'
  BY <1>1, <1>3 DEF Address, PlainEntries, Near, historyVars
<1>5. CASE AllLoaded'
  <2>1. Reads("enter")'
    BY <1>1, <1>4, <1>5 DEF AllLoaded, Reads
  <2>2. /\ Canonical(Address)
        /\ Selected(Address) # {} =>
             Address.search = None /\ Address.offset = 0 /\ Address.range = None
    BY <1>3 DEF Unrestored, PlainlyOpened
  <2>3. Settles(Address)
    BY <1>3, <2>2 DEF Unrestored, Settles, Canonical
  <2>4. Settles(Address)'
    BY <1>1, <1>4, <2>3 DEF Settles, pageVars
  <2>5. todo' = "nothing"
    BY <1>1, <1>3 DEF Unrestored
  <2> QED BY <1>4, <1>5, <2>1, <2>4, <2>5 DEF PlainInv
<1>6. CASE ~AllLoaded'
  <2>1. Unrestored'
    BY <1>1, <1>3, <1>4, <1>6 DEF Unrestored, AllLoaded, historyVars, pageVars
  <2> QED BY <1>4, <1>6, <2>1 DEF PlainInv, Unrestored
<1> QED BY <1>5, <1>6

(* Steps that leave history, page and calls alone                          *)
LEMMA ServingStaysPlain ==
  ASSUME PlainInv, UNCHANGED <<historyVars, pageVars, calls, loaded, plain>>,
         todo' = todo \/ todo' = "nothing"
  PROVE  PlainInv'
<1> SUFFICES ASSUME plain' PROVE PlainInv'
  BY DEF PlainInv
<1>1. Address' = Address /\ (PlainEntries' <=> PlainEntries)
  BY DEF Address, PlainEntries, Near, historyVars
<1>2. /\ AllLoaded' <=> AllLoaded
      /\ Follows' <=> Follows
      /\ Settles(Address)' <=> Settles(Address)
      /\ Reads("enter")' <=> Reads("enter")
      /\ Reads("finish")' <=> Reads("finish")
  BY <1>1 DEF AllLoaded, Follows, Settles, Reads, pageVars
<1>3. Unrestored => Unrestored'
  BY <1>1 DEF Unrestored, historyVars, pageVars
<1>4. selection' = selection /\ unedited' = unedited /\ calls' = calls /\ plain' = plain
  BY DEF pageVars
<1>5. todo' = "push" => Address' = Stored({}, None, 0, FALSE, None)
  BY <1>1 DEF PlainInv
<1>6. /\ PlainEntries
      /\ \/ ~AllLoaded /\ Unrestored
         \/ AllLoaded /\ calls = <<>> /\ Follows
         \/ AllLoaded /\ Reads("enter") /\ Settles(Address)
         \/ AllLoaded /\ Reads("finish") /\ selection = Selected(Address)
                      /\ unedited = Address.unedited
  BY <1>4 DEF PlainInv
<1>7. \/ ~AllLoaded' /\ Unrestored'
      \/ AllLoaded' /\ calls' = <<>> /\ Follows'
      \/ AllLoaded' /\ Reads("enter")' /\ Settles(Address)'
      \/ AllLoaded' /\ Reads("finish")' /\ selection' = Selected(Address')
                    /\ unedited' = Address'.unedited
  BY <1>1, <1>2, <1>3, <1>4, <1>6
<1> QED BY <1>1, <1>5, <1>6, <1>7 DEF PlainInv

LEMMA PlainInit == Init => PlainInv
<1> SUFFICES ASSUME Init, plain PROVE PlainInv
  BY DEF PlainInv
<1>1. PICK a \in FirstAddresses : entries = <<a>> /\ at = 1
  BY DEF Init
<1>2. Len(entries) = 1 /\ entries[1] = a /\ Address = a
  BY <1>1 DEF Address
<1>3. PlainlyOpened(a) /\ Canonical(a)
  BY <1>2 DEF Init, PlainlyOpened
<1>4. PlainEntries
  BY <1>2, <1>3 DEF PlainEntries
<1>5. ~AllLoaded /\ Unrestored /\ todo # "push"
  BY <1>2, <1>3 DEF Init, AllLoaded, Unrestored, Widgets
<1> QED BY <1>4, <1>5 DEF PlainInv

LEMMA PlainNext == PageInv /\ PlainInv /\ [Next]_vars => PlainInv'
<1> SUFFICES ASSUME PageInv, PlainInv, [Next]_vars PROVE PlainInv'
  OBVIOUS
<1>1. CASE Run
  <2>1. CASE ReloadLast
    BY <2>1, ServingStaysPlain DEF ReloadLast
  <2> QED BY <1>1, <2>1, EnterStaysPlain, FinishStaysPlain, PushAllStaysPlain DEF Run
<1>2. CASE Acts
  <2>1. ASSUME NEW o \in Objects, Click(o) PROVE PlainInv'
    <3>1. Select({o}, TRUE) /\ todo' = todo /\ Selectable({o})
      BY <2>1 DEF Click, Selectable, One
    <3> QED BY <3>1, SelectStaysPlain
  <2>2. ASSUME NEW o \in Objects, CtrlClick(o) PROVE PlainInv'
    <3> SUFFICES ASSUME plain' PROVE PlainInv'
      BY DEF PlainInv
    <3>1. Select(Toggled(o), selection \cap Merchants = {}) /\ todo' = todo
      BY <2>2 DEF CtrlClick
    <3>2. o \in Accounts \cup Tags /\ selection \cap Merchants = {}
      BY <2>2, <3>1 DEF CtrlClick, Clickable, Select, Plain
    <3>3. Selectable(Toggled(o))
      BY <3>2, ObjectsAssumption DEF Selectable, Toggled, PageInv, TypeOK, PageTypes
    <3> QED BY <3>1, <3>3, SelectStaysPlain
  <2>3. ASSUME NEW o \in Objects, Follow(o) PROVE PlainInv'
    BY <2>3, FollowStaysPlain
  <2>4. CASE ClickAll
    <3>1. Select({}, AtDefaults /\ ~unedited) /\ todo' = "push" /\ Selectable({})
      BY <2>4 DEF ClickAll, Selectable
    <3> QED BY <3>1, SelectStaysPlain
  <2>5. ASSUME NEW q \in Queries \cup {None}, OnSearch(q) PROVE PlainInv'
    BY <2>5, SearchStaysPlain
  <2>6. CASE Turn
    <3>1. offset \in 0..LastPage
      BY DEF PageInv, TypeOK, PageTypes
    <3>2. CASE Earlier /\ TurnTo(offset + 1)
      <4>1. offset + 1 \in 0..LastPage
        BY <3>1, <3>2 DEF Earlier
      <4> QED BY <3>2, <4>1, TurnStaysPlain
    <3>3. CASE Later /\ TurnTo(offset - 1)
      <4>1. offset - 1 \in 0..LastPage
        BY <3>1, <3>3 DEF Later
      <4> QED BY <3>3, <4>1, TurnStaysPlain
    <3> QED BY <2>6, <3>2, <3>3 DEF Turn
  <2>7. CASE ToggleUnedited
    BY <2>7, ToggleStaysPlain
  <2>8. CASE Back \/ Forward
    BY <2>8, TravelStaysPlain DEF Back, Forward
  <2> QED BY <1>2, <2>1, <2>2, <2>3, <2>4, <2>5, <2>6, <2>7, <2>8 DEF Acts
<1>3. CASE Save
  BY <1>3, ServingStaysPlain DEF Save, callVars
<1>4. ASSUME NEW w \in Widgets, Load(w) PROVE PlainInv'
  BY <1>4, LoadStaysPlain
<1>5. CASE Serve
  BY <1>5, ServingStaysPlain DEF Serve, SaveAnswered, ServerReads, Answer, callVars
<1>6. CASE Fail
  BY <1>6, ServingStaysPlain DEF Fail, callVars
<1>7. CASE UNCHANGED vars
  BY <1>7, ServingStaysPlain DEF vars, callVars
<1> QED BY <1>1, <1>2, <1>3, <1>4, <1>5, <1>6, <1>7 DEF Next

LEMMA PlainInvariant == Spec => [](PageInv /\ PlainInv)
<1>1. Init => PageInv /\ PlainInv
  BY PageInit, PlainInit
<1>2. PageInv /\ PlainInv /\ [Next]_vars => (PageInv /\ PlainInv)'
  BY PageNext, PlainNext
<1> QED BY <1>1, <1>2, PTL DEF Spec

(* At rest the page is the one its address describes, through any number   *)
(* of clicks, pages, links and steps back and forward of a user who keeps  *)
(* to plain navigation (accounts.storeState against accounts.reloadState). *)
THEOREM PlainPagesFollow == Spec => []PlainFollows
<1>1. PageInv /\ PlainInv => PlainFollows
  <2> SUFFICES ASSUME PageInv, PlainInv, plain, AtRest PROVE Follows
    BY DEF PlainFollows, PageFollowsAddress
  <2>1. AllLoaded /\ calls = <<>>
    BY DEF AtRest, Idle
  <2> QED BY <2>1, PlainRest
<1> QED BY <1>1, PlainInvariant, PTL

(* Restoring the selection in a plain history stores nothing: Back and     *)
(* Forward never drop an entry.                                            *)
THEOREM ReadingKeepsEntries == Spec => ReadingKeepsHistory
<1>1. PageInv /\ PlainInv /\ [Next]_vars =>
        [plain /\ EnterReloadState => entries' = entries /\ at' = at]_vars
  BY PlainEnter DEF historyVars
<1> QED BY <1>1, PlainInvariant, PTL DEF Spec, ReadingKeepsHistory

-----------------------------------------------------------------------------
(***************************************************************************)
(* The list of a user who waits                                            *)
(*                                                                         *)
(* ListFollowsIfWaited speaks of the page at rest with nothing in flight.  *)
(* Before that the request in flight has to be the one the page would make *)
(* now, and no call of reloadState may be under way beside it: such a call *)
(* changes the page and then asks for nothing, since requestData sends     *)
(* nothing while a request is in flight.  Where repaint has thrown it has  *)
(* asked for nothing either, and leaves a page without a title; the next   *)
(* page that has one is restored by a call that asks.                      *)
(***************************************************************************)

Current(params) == params = Params(selection, search, offset, unedited, range)

ListCurrent ==
  /\ calls # <<>> => xhr = None /\ ~saving
  /\ saving => Idle /\ AllLoaded /\ xhr = None
  /\ ~AllLoaded => xhr = None
  /\ xhr = None /\ shown # None => saving \/ shown.version = edits
  /\ AllLoaded /\ calls = <<>> =>
       /\ xhr # None => Current(xhr.params) /\ (xhr.read => xhr.version = edits)
       /\ ~Untitled(selection, search) =>
            /\ title = [selection |-> selection, search |-> search]
            /\ xhr = None => shown # None /\ Current(shown.params)

WaitedInv == plain /\ waited /\ failures = 0 => ListCurrent

(* What the user does starts from a page at rest.  When nothing has to be  *)
(* read back afterwards the page is as it was.                             *)
LEMMA StoringReads ==
  ASSUME PageInv, PlainInv, PlainInv', plain, plain', AllLoaded, calls = <<>>,
         NEW s, NEW q, NEW o, NEW f, StoreState(s, q, o, f, <<>>), Stored(s, q, o, f, range) \in Addresses,
         loaded' = loaded, calls' = <<>>
  PROVE  UNCHANGED pageVars
<1> DEFINE u == Stored(s, q, o, f, range)
           call == [at |-> "enter", address |-> u]
<1>1. call \in Calls
  BY DEF Calls
<1>2. Visit(u, <<>>) /\ u # Address => calls' = <<call>> \o <<>>
  BY DEF Visit
<1>3. <<call>> \o <<>> # <<>>
  BY <1>1, LoneCall
<1>4. UNCHANGED historyVars
  BY <1>2, <1>3 DEF StoreState
<1>5. Address' = Address /\ Follows
  BY <1>4, PlainRest DEF Address, historyVars
<1>6. Follows'
  <2>1. AllLoaded'
    BY DEF AllLoaded
  <2>2. \A c : <<c>> # <<>>
    OBVIOUS
  <2> QED BY <2>1, <2>2 DEF PlainInv, Reads
<1> QED BY <1>5, <1>6 DEF Follows, pageVars

LEMMA ActsLand ==
  ASSUME PageInv, PlainInv, PlainInv', Acts, plain'
  PROVE  /\ plain /\ AllLoaded /\ Idle
         /\ UNCHANGED <<xhr, shown, edits, saving, failures, loaded, title>>
         /\ calls' = <<>> => UNCHANGED pageVars
<1>t. /\ offset \in 0..LastPage /\ unedited \in BOOLEAN
      /\ selection \in SUBSET Objects /\ search \in Queries \cup {None}
      /\ range \in Ranges \cup {None}
  BY DEF PageInv, TypeOK, PageTypes
<1>1. ASSUME NEW s \in SUBSET Objects, NEW condition, Select(s, condition)
      PROVE  /\ plain /\ AllLoaded /\ Idle
             /\ UNCHANGED <<xhr, shown, edits, saving, failures, loaded, title>>
             /\ calls' = <<>> => UNCHANGED pageVars
  <2>1. /\ plain /\ AllLoaded /\ Idle
        /\ UNCHANGED <<xhr, shown, edits, saving, failures, loaded, title>>
    BY <1>1 DEF Select, Plain, listVars, serverVars
  <2>2. CASE s = selection
    BY <1>1, <2>1, <2>2 DEF Select, pageVars
  <2>3. CASE s # selection
    <3>1. StoreState(s, search, offset, unedited, <<>>)
      BY <1>1, <2>3 DEF Select
    <3>2. Stored(s, search, offset, unedited, range) \in Addresses
      BY <1>t, StoredTypes
    <3> QED BY <2>1, <3>1, <3>2, StoringReads DEF Idle
  <2> QED BY <2>1, <2>2, <2>3
<1>2. ASSUME NEW o \in Objects, Click(o) \/ CtrlClick(o) \/ ClickAll
      PROVE  /\ plain /\ AllLoaded /\ Idle
             /\ UNCHANGED <<xhr, shown, edits, saving, failures, loaded, title>>
             /\ calls' = <<>> => UNCHANGED pageVars
  <2>1. {o} \in SUBSET Objects /\ Toggled(o) \in SUBSET Objects /\ {} \in SUBSET Objects
    BY <1>t DEF Toggled
  <2> QED BY <1>1, <1>2, <2>1 DEF Click, CtrlClick, ClickAll
<1>3. CASE ClickAll
  <2>1. {} \in SUBSET Objects
    OBVIOUS
  <2> QED BY <1>1, <1>3, <2>1 DEF ClickAll
<1>4. ASSUME NEW q \in Queries \cup {None}, OnSearch(q)
      PROVE  /\ plain /\ AllLoaded /\ Idle
             /\ UNCHANGED <<xhr, shown, edits, saving, failures, loaded, title>>
             /\ calls' = <<>> => UNCHANGED pageVars
  <2>1. Stored(selection, q, offset, unedited, range) \in Addresses
    BY <1>t, StoredTypes
  <2> QED BY <1>4, <2>1, StoringReads DEF OnSearch, Plain, Idle, listVars, serverVars
<1>5. ASSUME NEW page \in 0..LastPage, TurnTo(page)
      PROVE  /\ plain /\ AllLoaded /\ Idle
             /\ UNCHANGED <<xhr, shown, edits, saving, failures, loaded, title>>
             /\ calls' = <<>> => UNCHANGED pageVars
  <2>1. Stored(selection, search, page, unedited, range) \in Addresses
    BY <1>t, StoredTypes
  <2> QED BY <1>5, <2>1, StoringReads DEF TurnTo, Plain, Idle, listVars, serverVars
<1>6. CASE Turn
  <2>1. Earlier => offset + 1 \in 0..LastPage
    BY <1>t DEF Earlier
  <2>2. Later => offset - 1 \in 0..LastPage
    BY <1>t DEF Later
  <2> QED BY <1>5, <1>6, <2>1, <2>2 DEF Turn
<1>7. CASE ToggleUnedited
  <2> DEFINE flag == ~unedited
  <2>f. flag \in BOOLEAN
    OBVIOUS
  <2>1. Stored(selection, search, offset, flag, range) \in Addresses
    BY <1>t, <2>f, StoredTypes
  <2>2. StoreState(selection, search, offset, flag, <<>>)
    BY <1>7 DEF ToggleUnedited
  <2> HIDE DEF flag
  <2> QED BY <1>7, <2>1, <2>2, StoringReads DEF ToggleUnedited, Plain, Idle, listVars, serverVars
<1>8. ASSUME NEW o \in Objects, Follow(o)
      PROVE  /\ plain /\ AllLoaded /\ Idle
             /\ UNCHANGED <<xhr, shown, edits, saving, failures, loaded, title>>
             /\ calls' = <<>> => UNCHANGED pageVars
  BY <1>8 DEF Follow, Plain, Idle, listVars, serverVars
<1>9. CASE Back \/ Forward
  BY <1>9 DEF Back, Forward, Travel, Plain, Idle, listVars, serverVars
<1> QED BY <1>2, <1>3, <1>4, <1>6, <1>7, <1>8, <1>9 DEF Acts

LEMMA ActsWaited ==
  ASSUME PageInv, PlainInv, PlainInv', ListCurrent, Acts, plain', xhr = None, ~saving
  PROVE  ListCurrent'
<1>1. /\ AllLoaded /\ Idle /\ UNCHANGED <<xhr, shown, edits, saving, loaded, title>>
      /\ calls' = <<>> => UNCHANGED pageVars
  BY ActsLand
<1>2. /\ shown # None => shown.version = edits
      /\ ~Untitled(selection, search) =>
           /\ title = [selection |-> selection, search |-> search]
           /\ shown # None /\ Current(shown.params)
  BY <1>1 DEF ListCurrent, Idle
<1>3. xhr' = None /\ ~saving' /\ AllLoaded' /\ UNCHANGED <<shown, edits>>
  BY <1>1 DEF AllLoaded
<1>4. ASSUME calls' = <<>>
      PROVE  /\ UNCHANGED <<pageVars, shown, edits, title>>
             /\ Untitled(selection, search)' <=> Untitled(selection, search)
  BY <1>1, <1>4 DEF pageVars, Untitled
<1> QED BY <1>2, <1>3, <1>4 DEF ListCurrent, Current, pageVars

LEMMA UnreadIsRequest ==
  ASSUME NEW params \in Queried
  PROVE  Unread(params) # None /\ Unread(params).params = params /\ ~Unread(params).read
<1>1. Unread(params) \in Requests
  BY DEF Unread, Requests
<1> QED BY <1>1 DEF Unread

LEMMA RunWaited ==
  ASSUME PageInv, PlainInv, plain, ListCurrent, Run
  PROVE  ListCurrent'
<1>1. CASE EnterReloadState
  <2>1. calls # <<>> /\ AllLoaded /\ calls' = <<[at |-> "finish", address |-> Address]>>
        /\ UNCHANGED <<xhr, shown, edits, saving, loaded>>
    BY <1>1, PlainEnter DEF EnterReloadState, listVars, serverVars
  <2>2. calls' # <<>>
    BY <2>1
  <2> QED BY <2>1, <2>2 DEF ListCurrent, AllLoaded
<1>2. CASE FinishReloadState
  <2>1. calls # <<>> /\ Head(calls).at = "finish"
    BY <1>2 DEF FinishReloadState
  <2>2. AllLoaded /\ calls = <<[at |-> "finish", address |-> Address]>>
    BY <2>1 DEF PlainInv, Unrestored, Reads
  <2>3. Head(calls).address = Address /\ Tail(calls) = <<>> /\ xhr = None /\ ~saving
    BY <2>1, <2>2 DEF ListCurrent
  <2> DEFINE params == Params(selection', search', offset', unedited', range')
  <2>4. /\ ReloadTransactions(params) /\ calls' = <<>>
        /\ title' = [selection |-> selection', search |-> search']
        /\ UNCHANGED <<loaded, saving, edits>>
    BY <1>2, <2>3 DEF FinishReloadState, Restore, serverVars
  <2>5. Address \in Addresses /\ selection \in SUBSET Objects /\ unedited \in BOOLEAN
    BY CurrentAddress DEF PageInv, TypeOK, PageTypes
  <2>6. xhr' = Unread(params)
    BY <2>3, <2>4 DEF ReloadTransactions, RefreshTransactions
  <2>7. xhr' # None
    <3>1. params \in Queried
      BY <1>2, <2>3, <2>5, ParamsTypes DEF FinishReloadState, Restore, OffsetOf, Addresses
    <3> QED BY <2>6, <3>1, UnreadIsRequest
  <2>8. xhr'.params = params /\ ~xhr'.read
    BY <2>6 DEF Unread
  <2> QED BY <2>2, <2>3, <2>4, <2>7, <2>8 DEF ListCurrent, AllLoaded, Current
<1>3. CASE ReloadLast
  <2>1. AllLoaded /\ calls = <<>> /\ ~saving
    BY <1>3 DEF ReloadLast, PlainInv, Unrestored, ListCurrent, Idle
  <2> DEFINE params == Params(selection, search, offset, unedited, range)
  <2>2. /\ xhr' = IF xhr = None THEN Unread(params) ELSE xhr
        /\ UNCHANGED <<calls, pageVars, title, loaded, saving, edits>>
    BY <1>3 DEF ReloadLast, ReloadTransactions, RefreshTransactions, serverVars
  <2>3. Unread(params) # None
    <3>1. params \in Queried
      BY ParamsTypes DEF PageInv, TypeOK, PageTypes
    <3> QED BY <3>1, UnreadIsRequest
  <2>4. Unread(params).params = params /\ ~Unread(params).read
    BY DEF Unread
  <2>5. xhr' # None /\ Current(xhr'.params) /\ (xhr'.read => xhr'.version = edits)
    BY <2>1, <2>2, <2>3, <2>4 DEF ListCurrent, Current
  <2> QED BY <2>1, <2>2, <2>5 DEF ListCurrent, AllLoaded, Current, pageVars
<1>4. CASE PushAllLast
  <2>1. calls = <<>> /\ calls' = <<>> /\ AllLoaded
    BY <1>4, PushAllReadsNothing DEF PushAllLast
  <2>2. todo = "push" /\ UNCHANGED <<pageVars, xhr, shown, title, loaded, saving, edits>>
    BY <1>4 DEF PushAllLast, listVars, serverVars
  <2> QED BY <2>1, <2>2 DEF ListCurrent, AllLoaded, Current, Idle, pageVars
<1>5. CASE RepaintThrows
  <2>1. calls # <<>> /\ Head(calls).at = "finish" /\ calls' = <<>>
    BY <1>5 DEF RepaintThrows
  <2>2. AllLoaded /\ calls = <<[at |-> "finish", address |-> Address]>>
    BY <2>1 DEF PlainInv, Unrestored, Reads
  <2>3. UNCHANGED <<xhr, shown, edits, saving, loaded>>
    BY <1>5 DEF RepaintThrows, listVars, serverVars
  <2>4. Untitled(selection, search)'
    BY <1>5 DEF RepaintThrows, Restore, Untitled
  <2>5. xhr = None /\ ~saving /\ (shown # None => shown.version = edits)
    BY <2>1 DEF ListCurrent
  <2> QED BY <2>2, <2>3, <2>4, <2>5 DEF ListCurrent, AllLoaded
<1> QED BY <1>1, <1>2, <1>3, <1>4, <1>5 DEF Run

LEMMA ServeWaited ==
  ASSUME PageInv, PlainInv, plain, ListCurrent, Serve
  PROVE  ListCurrent'
<1>1. CASE SaveAnswered
  <2>1. Idle /\ AllLoaded /\ xhr = None /\ saving' = FALSE
    BY <1>1 DEF SaveAnswered, ListCurrent
  <2> DEFINE params == Params(selection, search, offset, unedited, range)
  <2>2. xhr' = Unread(params) /\ UNCHANGED <<calls, todo, pageVars, loaded, title, edits>>
    BY <1>1, <2>1 DEF SaveAnswered, RefreshTransactions, callVars
  <2>3. xhr' # None /\ xhr'.params = params /\ ~xhr'.read
    <3>1. params \in Queried
      BY ParamsTypes DEF PageInv, TypeOK, PageTypes
    <3> QED BY <2>2, <3>1, UnreadIsRequest
  <2> QED BY <2>1, <2>2, <2>3 DEF ListCurrent, AllLoaded, Current, Idle, pageVars
<1>2. CASE ServerReads
  <2>1. xhr # None /\ calls = <<>> /\ AllLoaded /\ ~saving
    BY <1>2 DEF ServerReads, ListCurrent
  <2>2. /\ xhr'.params = xhr.params /\ xhr'.version = edits
        /\ UNCHANGED <<calls, pageVars, loaded, title, edits, saving>>
    BY <1>2 DEF ServerReads, callVars, serverVars
  <2>3. xhr' # None
    BY <1>2, ReadIsRequest
  <2> QED BY <2>1, <2>2, <2>3 DEF ListCurrent, AllLoaded, Current, pageVars
<1>3. CASE Answer
  <2>1. xhr # None /\ xhr.read /\ Idle /\ AllLoaded /\ ~saving
    BY <1>3 DEF Answer, ListCurrent
  <2>2. shown' = xhr /\ xhr' = None /\ UNCHANGED <<calls, todo, pageVars, loaded, title, edits, saving>>
    BY <1>3 DEF Answer, callVars, serverVars
  <2> QED BY <2>1, <2>2 DEF ListCurrent, AllLoaded, Current, Idle, pageVars
<1> QED BY <1>1, <1>2, <1>3 DEF Serve

LEMMA WaitedNext ==
  PageInv /\ PlainInv /\ WaitedInv /\ [MCNext]_<<vars, waited, acts>> => WaitedInv'
<1> SUFFICES ASSUME PageInv, PlainInv, WaitedInv, [MCNext]_<<vars, waited, acts>>,
                    plain', waited', failures' = 0
             PROVE  ListCurrent'
  BY DEF WaitedInv
<1>1. CASE UNCHANGED <<vars, waited, acts>>
  BY <1>1 DEF WaitedInv, ListCurrent, Current, Idle, AllLoaded, vars, pageVars, callVars, listVars,
              serverVars
<1>2. CASE MCNext
  <2>1. /\ Next /\ PlainInv' /\ waited
        /\ Acts \/ Save => xhr = None /\ ~saving /\ AllLoaded
    BY <1>2, PlainNext DEF MCNext
  <2>2. CASE Acts
    <3>1. plain /\ failures = 0
      BY <2>1, <2>2, ActsLand
    <3> QED BY <2>1, <2>2, <3>1, ActsWaited DEF WaitedInv
  <2>3. CASE Run
    <3>1. plain /\ failures = 0
      BY <2>3 DEF Run, EnterReloadState, FinishReloadState, RepaintThrows, ReloadLast, PushAllLast,
                   serverVars
    <3> QED BY <2>1, <2>3, <3>1, RunWaited DEF WaitedInv
  <2>4. CASE Save
    <3>1. /\ plain /\ failures = 0 /\ Idle /\ AllLoaded /\ xhr = None /\ saving' = TRUE
          /\ UNCHANGED <<pageVars, calls, todo, xhr, shown, loaded, title>>
      BY <2>1, <2>4 DEF Save, callVars, listVars
    <3> QED BY <2>1, <3>1 DEF WaitedInv, ListCurrent, AllLoaded, Current, Idle, pageVars
  <2>5. ASSUME NEW w \in Widgets, Load(w) PROVE ListCurrent'
    <3>1. /\ plain /\ failures = 0 /\ calls = <<>> /\ ~AllLoaded
          /\ UNCHANGED <<xhr, shown, edits, saving>>
          /\ calls' = IF AllLoaded' THEN <<[at |-> "enter", address |-> Address]>> ELSE calls
      BY <2>5 DEF Load, Idle, AllLoaded, listVars, serverVars
    <3>2. xhr = None /\ ~saving /\ (shown # None => shown.version = edits)
      BY <2>1, <3>1 DEF WaitedInv, ListCurrent
    <3>3. AllLoaded' => calls' # <<>>
      BY <3>1
    <3> QED BY <3>1, <3>2, <3>3 DEF ListCurrent
  <2>6. CASE Serve
    <3>1. plain /\ failures = 0
      BY <2>6 DEF Serve, SaveAnswered, ServerReads, Answer, serverVars
    <3> QED BY <2>1, <2>6, <3>1, ServeWaited DEF WaitedInv
  <2>7. ASSUME Fail PROVE FALSE
    <3>1. failures \in Nat
      BY DEF PageInv, TypeOK, ServerTypes
    <3>2. failures' = failures + 1
      BY <2>7 DEF Fail
    <3> QED BY <3>1, <3>2
  <2> QED BY <2>1, <2>2, <2>3, <2>4, <2>5, <2>6, <2>7 DEF Next
<1> QED BY <1>1, <1>2

(* For any accounts, groups, pages and number of acts: to a user with a    *)
(* plain history who waits for every answer, the list at rest has every    *)
(* save in it, and it is the one the page asks for, under its own title,   *)
(* unless a group is among several selected accounts: there repaint throws *)
(* before the list is reloaded (accounts.js:419).                          *)
THEOREM ListsFollow == MCSpec => []ListFollowsIfWaited
<1>1. MCInit => PageInv /\ PlainInv /\ WaitedInv
  <2>1. Init => ListCurrent
    BY DEF Init, ListCurrent, AllLoaded, Widgets
  <2> QED BY <2>1, PageInit, PlainInit DEF MCInit, WaitedInv
<1>2. PageInv /\ PlainInv /\ WaitedInv /\ [MCNext]_<<vars, waited, acts>>
        => (PageInv /\ PlainInv /\ WaitedInv)'
  <2>1. [MCNext]_<<vars, waited, acts>> => [Next]_vars
    BY DEF MCNext
  <2> QED BY <2>1, PageNext, PlainNext, WaitedNext
<1>3. WaitedInv => ListFollowsIfWaited
  BY DEF WaitedInv, ListFollowsIfWaited, ListFollows, Settled, ListCurrent, Current, Params, AtRest,
         Idle
<1> QED BY <1>1, <1>2, <1>3, PTL DEF MCSpec

=============================================================================
