----------------------------- MODULE TargetsPage -----------------------------
(***************************************************************************)
(* The spending targets of the dashboard: TargetWidget walks through the   *)
(* months, TargetList mirrors the data of the chosen month as widgets, and *)
(* targets are added, edited and removed through requests of their own.    *)
(* The data comes from a TargetDataSource with caching enabled, one        *)
(* request per month.                                                      *)
(***************************************************************************)
EXTENDS DataSource, Naturals, FiniteSets

CONSTANTS
  Tags,
  NoTag,        \* no dialog is open
  Amounts,      \* monthly limits a user types
  LastMonth,    \* months are 1..LastMonth, LastMonth is the present one
  MaxWrites,    \* bound on the requests that change targets
  MaxFailures,  \* bound on the requests for data that fail
  Ops           \* what the user does to targets: update, create, remove

ASSUME MonthsAssumption == Keys = 1..LastMonth /\ LastMonth \in Nat \ {0}
ASSUME WritesAssumption == MaxWrites \in Nat /\ MaxFailures \in Nat
ASSUME TagsAssumption == NoTag \notin Tags
ASSUME OpsAssumption == Ops \subseteq {"update", "create", "remove"}
ASSUME AmountsAssumption == Amounts \subseteq Nat \ {0}

VARIABLES
  month,        \* the month of the data source (startDate, endDate)
  label,        \* the month the labels show
  items,        \* TargetList's items, by tag: absent, shown, fading (removed
                \* by the user, on its way out) or gone (its fade has ended:
                \* the widget is destroyed but the list still holds it)
  dialog,       \* the tag in the edit dialog while it is open
  limits,       \* server: the targets rows, tag -> monthly limit (0: no row)
  writes,       \* POSTs and PUTs under way
  failures,     \* how many requests for data failed
  written       \* how many writes were sent

pageVars == <<month, label, items, dialog>>
vars == <<sourceVars, pageVars, limits, writes, failures, written>>

Values == [month : Keys, limits : [Tags -> Amounts \cup {0}]]

(* null is neither a list of targets nor a request *)
ASSUME NullAssumption ==
  NoData \notin Values /\ Idle \notin [key : Keys, answer : Values \cup {Unread}]

Writes == [op : {"update", "create", "remove"}, tag : Tags,
           amount : Amounts \cup {0}, state : {"sent", "done", "refused"}]

TypeOK ==
  /\ SourceTypeOK(Values)
  /\ month \in Keys
  /\ label \in Keys
  /\ items \in [Tags -> {"absent", "shown", "fading", "gone"}]
  /\ dialog \in Tags \cup {NoTag}
  /\ limits \in [Tags -> Amounts \cup {0}]
  /\ writes \subseteq Writes
  /\ failures \in 0..MaxFailures
  /\ written \in 0..MaxWrites

Listed(value) == {t \in Tags : value.limits[t] # 0}

-----------------------------------------------------------------------------
(* TargetList#update, the subscriber of change.  A widget of the list is   *)
(* reused for its tag even when the user removed it; one whose fade has    *)
(* ended has lost its elements and redraw throws.                          *)
Throws(value) == \E t \in Listed(value) : items[t] = "gone"

(* Mutant: the removed widget is shown again.                             *)
ListRevived(value) ==
  [t \in Tags |-> IF t \in Listed(value) THEN "shown" ELSE "absent"]

ListOf(value) ==
  [t \in Tags |-> IF t \notin Listed(value) THEN "absent"
                  ELSE IF items[t] = "absent" THEN "shown" ELSE items[t]]

Update(value) ==
  items' = IF value = NoData \/ Throws(value) THEN items ELSE ListOf(value)

(* TargetList#refresh drops the removed widgets ... *)
Kept == [t \in Tags |-> IF items[t] \in {"fading", "gone"} THEN "absent" ELSE items[t]]

(* Mutant: refresh does not clear the cache.                               *)
RefreshKeepsCache ==
  /\ items' = Kept
  /\ RequestData(month, cache)
  /\ UNCHANGED <<month, label, dialog>>

(* ... and the cache *)
Refresh ==
  /\ items' = Kept
  /\ RequestData(month, NoCache)
  /\ UNCHANGED <<month, label, dialog>>

-----------------------------------------------------------------------------
(* TargetWidget#init selects the present month *)
Init ==
  /\ data = NoData
  /\ loading = TRUE
  /\ cache = NoCache
  /\ xhr = [key |-> LastMonth, answer |-> Unread]
  /\ month = LastMonth
  /\ label = LastMonth
  /\ items = [t \in Tags |-> "absent"]
  /\ dialog = NoTag
  /\ limits \in [Tags -> Amounts \cup {0}]
  /\ writes = {}
  /\ failures = 0
  /\ written = 0

AtRest == xhr = Idle /\ writes = {} /\ \A t \in Tags : items[t] # "fading"

(* TargetWidget#setCurrentMonth: the labels are set after requestData, so  *)
(* not when a cached value makes the list throw                            *)
SelectMonth(m) ==
  /\ dialog = NoTag
  /\ m \in {month - 1, month + 1} \cap Keys
  /\ month' = m
  /\ RequestData(m, cache)
  /\ LET value == ChangedTo(m, cache) IN
       /\ Update(value)
       /\ label' = IF value # NoData /\ Throws(value) THEN label ELSE m
  /\ UNCHANGED <<dialog, limits, writes, failures, written>>

Send(op, t, a) ==
  /\ op \in Ops
  /\ written < MaxWrites
  /\ written' = written + 1
  /\ writes' = writes \cup {[op |-> op, tag |-> t, amount |-> a, state |-> "sent"]}

(* Target#onEdit, then TargetList#onConfirm: the dialog is modal, but the  *)
(* list may change below it                                                *)
OpenDialog(t) ==
  /\ dialog = NoTag
  /\ items[t] = "shown"
  /\ "update" \in Ops
  /\ dialog' = t
  /\ UNCHANGED <<sourceVars, month, label, items, limits, writes, failures, written>>

Edit(a) ==
  /\ dialog # NoTag
  /\ Send("update", dialog, a)
  /\ dialog' = NoTag
  /\ UNCHANGED <<sourceVars, month, label, items, limits, failures>>

(* Dialog#onCancel *)
CancelDialog ==
  /\ dialog # NoTag
  /\ dialog' = NoTag
  /\ UNCHANGED <<sourceVars, month, label, items, limits, writes, failures, written>>

(* TargetWidget#onConfirm of the add dialog *)
Add(t, a) ==
  /\ dialog = NoTag
  /\ Send("create", t, a)
  /\ UNCHANGED <<sourceVars, pageVars, limits, failures>>

(* Target#onRemove *)
Remove(t) ==
  /\ dialog = NoTag
  /\ items[t] = "shown"
  /\ Send("remove", t, 0)
  /\ items' = [items EXCEPT ![t] = "fading"]
  /\ UNCHANGED <<sourceVars, month, label, dialog, limits, failures>>

(* The fadeOut of Target#onRemove ends and destroys the widget; one that   *)
(* the list has dropped meanwhile is of no account                         *)
FadedOut(t) ==
  /\ items[t] = "fading"
  /\ items' = [items EXCEPT ![t] = "gone"]
  /\ UNCHANGED <<sourceVars, month, label, dialog, limits, writes, failures, written>>

-----------------------------------------------------------------------------
(* TargetsController: index, update, create and destroy *)
Read ==
  /\ ServerReads([month |-> xhr.key, limits |-> limits])
  /\ UNCHANGED <<pageVars, limits, writes, failures, written>>

Written(w, l) ==
  /\ w.state = "sent"
  /\ limits' = l
  /\ writes' = (writes \ {w}) \cup {[w EXCEPT !.state = "done"]}
  /\ UNCHANGED <<sourceVars, pageVars, failures, written>>

ServerUpdates(w) ==
  w.op = "update" /\ limits[w.tag] # 0 /\ Written(w, [limits EXCEPT ![w.tag] = w.amount])

(* An existing target keeps its amount *)
ServerCreates(w) ==
  w.op = "create" /\ Written(w, IF limits[w.tag] # 0 THEN limits ELSE [limits EXCEPT ![w.tag] = w.amount])

ServerDestroys(w) ==
  w.op = "remove" /\ limits[w.tag] # 0 /\ Written(w, [limits EXCEPT ![w.tag] = 0])

(* RecordNotFound *)
ServerRefuses(w) ==
  /\ w.state = "sent"
  /\ w.op \in {"update", "remove"} /\ limits[w.tag] = 0
  /\ writes' = (writes \ {w}) \cup {[w EXCEPT !.state = "refused"]}
  /\ UNCHANGED <<sourceVars, pageVars, limits, failures, written>>

(* The browser gets the answer of a write.  update and create have refresh *)
(* as the callback of success.  removeTarget passes it in the place of the *)
(* amount, so that the success handler throws before anything is refreshed *)
Refreshes(w) == w.state = "done" /\ w.op \in {"update", "create"}

WriteAnswered(w) ==
  /\ w.state # "sent"
  /\ writes' = writes \ {w}
  /\ IF Refreshes(w) THEN Refresh ELSE UNCHANGED <<sourceVars, pageVars>>
  /\ UNCHANGED <<limits, failures, written>>

(* Mutant: the cache key is that of a request made now.                    *)
LoadForThisMonth ==
  /\ Answered
  /\ data' = xhr.answer
  /\ cache' = [cache EXCEPT ![month] = xhr.answer]
  /\ loading' = FALSE
  /\ xhr' = Idle
  /\ Update(xhr.answer)
  /\ UNCHANGED <<month, label, dialog, limits, writes, failures, written>>

(* The browser gets the answer of a request for data *)
Load ==
  /\ IF Answered /\ Throws(xhr.answer) THEN LoadedBadly ELSE Loaded
  /\ Update(xhr.answer)
  /\ UNCHANGED <<month, label, dialog, limits, writes, failures, written>>

Fail ==
  /\ failures < MaxFailures
  /\ LoadFailed
  /\ failures' = failures + 1
  /\ UNCHANGED <<pageVars, limits, writes, written>>

Next ==
  \/ \E m \in Keys : SelectMonth(m)
  \/ \E t \in Tags : OpenDialog(t) \/ Remove(t) \/ FadedOut(t)
  \/ \E a \in Amounts : Edit(a) \/ \E t \in Tags : Add(t, a)
  \/ \E w \in writes : ServerUpdates(w) \/ ServerCreates(w) \/ ServerDestroys(w)
                         \/ ServerRefuses(w) \/ WriteAnswered(w)
  \/ CancelDialog \/ Read \/ Load \/ Fail

Spec == Init /\ [][Next]_vars

-----------------------------------------------------------------------------
(* The cache answers a request only with the answer that very request got, *)
(* although the month may have changed while the answer was on its way     *)
(* (BaseDataSource#onDataLoaded keeps the options it was sent with).       *)
CacheKeyed == \A m \in Keys : cache[m] # NoData => cache[m].month = m

(* What the user took away does not come back to life in the list: only a  *)
(* refresh may drop its widget and make a new one (TargetList#update       *)
(* reuses widgets by tag, Target#onRemove marks them destroyed).           *)
RemovedStaysRemoved ==
  [][\A t \in Tags : items[t] \in {"fading", "gone"} => items'[t] # "shown"]_vars

(* At rest, the cached months agree with the server about every target it  *)
(* still has, whatever was added and edited in between: TargetList#refresh *)
(* clears the cache before it asks again.                                  *)
CacheHonest ==
  AtRest => \A m \in Keys, t \in Tags :
              cache[m] # NoData /\ limits[t] # 0 => cache[m].limits[t] = limits[t]

(* TargetWidget#setCurrentMonth: "Sets the displayed month to the month    *)
(* that includes currentMonth".  At rest, with no failed request, labels,  *)
(* data and list are those of the chosen month.                            *)
MonthShown ==
  AtRest /\ failures = 0 =>
    /\ label = month /\ data.month = month
    /\ \A t \in Tags : (items[t] = "shown") <=> (t \in Listed(data))

(* At rest, with no failed request, the list shows no target the server    *)
(* has not: TargetList#refresh is the callback of every write.             *)
NoGhosts ==
  AtRest /\ failures = 0 => \A t \in Tags : items[t] = "shown" => limits[t] # 0
=============================================================================
