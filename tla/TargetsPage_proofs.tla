-------------------------- MODULE TargetsPage_proofs --------------------------
(***************************************************************************)
(* What holds of the targets page for any number of months, tags and       *)
(* writes.  The strengthening of CacheKeyed says that an answer on its way *)
(* is the one of its own request; those of the properties about a user who *)
(* waits say what is under way between one act of his and the next.        *)
(***************************************************************************)
EXTENDS MCTargetsPage, TLAPS

(* An answer that has been read belongs to the month that was asked for *)
AnswerKeyed == xhr # Idle => (xhr.answer # Unread => xhr.answer.month = xhr.key)

KeyedInv == TypeOK /\ CacheKeyed /\ AnswerKeyed

USE MonthsAssumption, WritesAssumption, AmountsAssumption, TagsAssumption, OpsAssumption

-------------------------------------------------------------------------------
(* A request leaves the source in order, whatever the cache the caller     *)
(* hands over, as long as that cache is keyed.                             *)
LEMMA RequestKeeps ==
  ASSUME NEW key \in Keys, NEW c, SourceTypeOK(Values), AnswerKeyed,
         c \in [Keys -> Values \cup {NoData}],
         \A m \in Keys : c[m] # NoData => c[m].month = m,
         RequestData(key, c)
  PROVE  SourceTypeOK(Values)' /\ CacheKeyed' /\ AnswerKeyed'
<1>1. cache' = c /\ CacheKeyed'
  BY DEF RequestData, CacheKeyed
<1>2. CASE loading
  <2>1. UNCHANGED <<data, loading, xhr>>
    BY <1>2 DEF RequestData
  <2> QED BY <1>1, <2>1 DEF SourceTypeOK, AnswerKeyed
<1>3. CASE ~loading /\ c[key] # NoData
  <2>1. data' = c[key] /\ UNCHANGED <<loading, xhr>>
    BY <1>3 DEF RequestData, UseCached
  <2> QED BY <1>1, <2>1 DEF SourceTypeOK, AnswerKeyed
<1>4. CASE ~loading /\ c[key] = NoData
  <2>1. loading' = TRUE /\ xhr' = [key |-> key, answer |-> Unread] /\ data' = data
    BY <1>4 DEF RequestData, BeginLoading
  <2>2. xhr' \in [key : Keys, answer : Values \cup {Unread}] /\ AnswerKeyed'
    BY <2>1 DEF AnswerKeyed
  <2> QED BY <1>1, <2>1, <2>2 DEF SourceTypeOK
<1> QED BY <1>2, <1>3, <1>4

LEMMA ClearedCache ==
  /\ NoCache \in [Keys -> Values \cup {NoData}]
  /\ \A m \in Keys : NoCache[m] # NoData => NoCache[m].month = m
  BY DEF NoCache

LEMMA ListTypes ==
  ASSUME TypeOK, NEW value
  PROVE  Update(value) => items' \in [Tags -> {"absent", "shown", "fading", "gone"}]
  BY DEF TypeOK, Update, ListOf

LEMMA RefreshKeeps ==
  ASSUME KeyedInv, Refresh
  PROVE  /\ SourceTypeOK(Values)' /\ CacheKeyed' /\ AnswerKeyed'
         /\ items' \in [Tags -> {"absent", "shown", "fading", "gone"}]
<1>1. RequestData(month, NoCache)
  BY DEF Refresh
<1>2. SourceTypeOK(Values)' /\ CacheKeyed' /\ AnswerKeyed'
  BY <1>1, RequestKeeps, ClearedCache DEF KeyedInv, TypeOK
<1>3. items' \in [Tags -> {"absent", "shown", "fading", "gone"}]
  BY DEF Refresh, Kept, KeyedInv, TypeOK
<1> QED BY <1>2, <1>3

(* Reading, loading and failing, as far as the source is concerned *)
LEMMA AnswersKeep ==
  ASSUME KeyedInv,
         \/ ServerReads([month |-> xhr.key, limits |-> limits])
         \/ Loaded \/ LoadedBadly \/ LoadFailed
  PROVE  SourceTypeOK(Values)' /\ CacheKeyed' /\ AnswerKeyed'
<1>1. CASE ServerReads([month |-> xhr.key, limits |-> limits])
  <2>1. xhr.key \in Keys /\ xhr \in [key : Keys, answer : Values \cup {Unread}]
    BY <1>1 DEF ServerReads, KeyedInv, TypeOK, SourceTypeOK
  <2>2. [month |-> xhr.key, limits |-> limits] \in Values
    BY <2>1 DEF KeyedInv, TypeOK, Values
  <2> QED BY <1>1, <2>1, <2>2 DEF ServerReads, KeyedInv, TypeOK, SourceTypeOK, CacheKeyed, AnswerKeyed
<1>2. CASE Loaded
  <2>1. /\ xhr # Idle /\ xhr.answer # Unread /\ xhr.answer.month = xhr.key
        /\ data' = xhr.answer /\ loading' = FALSE /\ xhr' = Idle /\ cache' = Remembered
    BY <1>2 DEF Loaded, Answered, KeyedInv, AnswerKeyed
  <2>2. xhr.key \in Keys /\ xhr.answer \in Values
    BY <2>1 DEF KeyedInv, TypeOK, SourceTypeOK
  <2>3. cache' \in [Keys -> Values \cup {NoData}]
    BY <2>1, <2>2 DEF Remembered, KeyedInv, TypeOK, SourceTypeOK
  <2>4. CacheKeyed'
    BY <2>1, <2>2 DEF Remembered, KeyedInv, TypeOK, SourceTypeOK, CacheKeyed
  <2> QED BY <2>1, <2>2, <2>3, <2>4 DEF SourceTypeOK, AnswerKeyed
<1>3. CASE LoadedBadly
  BY <1>3 DEF LoadedBadly, Answered, KeyedInv, TypeOK, SourceTypeOK, CacheKeyed, AnswerKeyed
<1>4. CASE LoadFailed
  BY <1>4 DEF LoadFailed, KeyedInv, TypeOK, SourceTypeOK, CacheKeyed, AnswerKeyed
<1> QED BY <1>1, <1>2, <1>3, <1>4

LEMMA SourceUntouched ==
  ASSUME KeyedInv, UNCHANGED sourceVars
  PROVE  SourceTypeOK(Values)' /\ CacheKeyed' /\ AnswerKeyed'
  BY DEF KeyedInv, TypeOK, SourceTypeOK, sourceVars, CacheKeyed, AnswerKeyed

LEMMA SendTypes ==
  ASSUME TypeOK, NEW op \in {"update", "create", "remove"}, NEW t \in Tags,
         NEW a \in Amounts \cup {0}, Send(op, t, a)
  PROVE  writes' \subseteq Writes /\ written' \in 0..MaxWrites
<1>1. [op |-> op, tag |-> t, amount |-> a, state |-> "sent"] \in Writes
  BY DEF Writes
<1> QED BY <1>1 DEF Send, TypeOK

LEMMA WrittenTypes ==
  ASSUME TypeOK, NEW w \in writes, NEW s \in {"sent", "done", "refused"}
  PROVE  (writes \ {w}) \cup {[w EXCEPT !.state = s]} \subseteq Writes
  BY DEF TypeOK, Writes

-------------------------------------------------------------------------------
LEMMA KeyedInit == Init => KeyedInv
<1> SUFFICES ASSUME Init PROVE KeyedInv
  OBVIOUS
<1>1. LastMonth \in Keys
  OBVIOUS
<1>2. TypeOK
  BY <1>1 DEF Init, TypeOK, SourceTypeOK, NoCache
<1>3. CacheKeyed /\ AnswerKeyed
  BY DEF Init, CacheKeyed, AnswerKeyed, NoCache
<1> QED BY <1>2, <1>3 DEF KeyedInv

LEMMA KeyedNext == KeyedInv /\ [Next]_vars => KeyedInv'
<1> SUFFICES ASSUME KeyedInv, [Next]_vars PROVE KeyedInv'
  OBVIOUS
<1> USE DEF KeyedInv
<1>1. ASSUME NEW m \in Keys, SelectMonth(m) PROVE KeyedInv'
  <2>1. RequestData(m, cache)
    BY <1>1 DEF SelectMonth
  <2>2. SourceTypeOK(Values)' /\ CacheKeyed' /\ AnswerKeyed'
    BY <2>1, RequestKeeps DEF TypeOK, SourceTypeOK, CacheKeyed
  <2>3. items' \in [Tags -> {"absent", "shown", "fading", "gone"}]
    BY <1>1, ListTypes DEF SelectMonth
  <2>4. month' \in Keys /\ label' \in Keys
    BY <1>1 DEF SelectMonth, TypeOK
  <2> QED BY <1>1, <2>2, <2>3, <2>4 DEF SelectMonth, TypeOK
<1>2. ASSUME NEW t \in Tags, OpenDialog(t) PROVE KeyedInv'
  BY <1>2, SourceUntouched DEF OpenDialog, TypeOK
<1>3. ASSUME NEW t \in Tags, Remove(t) PROVE KeyedInv'
  BY <1>3, SourceUntouched, SendTypes DEF Remove, TypeOK
<1>4. ASSUME NEW t \in Tags, FadedOut(t) PROVE KeyedInv'
  BY <1>4, SourceUntouched DEF FadedOut, TypeOK
<1>5. ASSUME NEW a \in Amounts, Edit(a) PROVE KeyedInv'
  BY <1>5, SourceUntouched, SendTypes DEF Edit, TypeOK
<1>6. ASSUME NEW t \in Tags, NEW a \in Amounts, Add(t, a) PROVE KeyedInv'
  BY <1>6, SourceUntouched, SendTypes DEF Add, TypeOK, pageVars
<1>7. CASE CancelDialog
  BY <1>7, SourceUntouched DEF CancelDialog, TypeOK
<1>8. ASSUME NEW w \in writes, NEW l \in [Tags -> Amounts \cup {0}], Written(w, l)
      PROVE  KeyedInv'
  BY <1>8, SourceUntouched, WrittenTypes DEF Written, TypeOK, pageVars
<1>9. ASSUME NEW w \in writes,
             ServerUpdates(w) \/ ServerCreates(w) \/ ServerDestroys(w)
      PROVE  KeyedInv'
  <2>1. w.tag \in Tags /\ w.amount \in Amounts \cup {0}
    BY DEF TypeOK, Writes
  <2> QED BY <1>8, <1>9, <2>1 DEF ServerUpdates, ServerCreates, ServerDestroys, TypeOK
<1>10. ASSUME NEW w \in writes, ServerRefuses(w) PROVE KeyedInv'
  BY <1>10, SourceUntouched, WrittenTypes DEF ServerRefuses, TypeOK, pageVars
<1>11. ASSUME NEW w \in writes, WriteAnswered(w) PROVE KeyedInv'
  <2>1. CASE Refreshes(w)
    <3>1. Refresh
      BY <1>11, <2>1 DEF WriteAnswered
    <3>2. SourceTypeOK(Values)' /\ CacheKeyed' /\ AnswerKeyed' /\ items' \in [Tags -> {"absent", "shown", "fading", "gone"}]
      BY <3>1, RefreshKeeps
    <3> QED BY <1>11, <3>1, <3>2 DEF WriteAnswered, Refresh, TypeOK
  <2>2. CASE ~Refreshes(w)
    BY <1>11, <2>2, SourceUntouched DEF WriteAnswered, TypeOK, pageVars
  <2> QED BY <2>1, <2>2
<1>12. CASE Read
  BY <1>12, AnswersKeep DEF Read, TypeOK, pageVars
<1>13. CASE Load
  <2>1. Loaded \/ LoadedBadly
    BY <1>13 DEF Load
  <2>2. SourceTypeOK(Values)' /\ CacheKeyed' /\ AnswerKeyed'
    BY <2>1, AnswersKeep
  <2>3. items' \in [Tags -> {"absent", "shown", "fading", "gone"}]
    BY <1>13, ListTypes DEF Load
  <2> QED BY <1>13, <2>2, <2>3 DEF Load, TypeOK
<1>14. CASE Fail
  <2>1. SourceTypeOK(Values)' /\ CacheKeyed' /\ AnswerKeyed'
    BY <1>14, AnswersKeep DEF Fail
  <2> QED BY <1>14, <2>1 DEF Fail, TypeOK, pageVars
<1>15. CASE UNCHANGED vars
  BY <1>15, SourceUntouched DEF vars, pageVars, TypeOK
<1> QED BY <1>1, <1>2, <1>3, <1>4, <1>5, <1>6, <1>7, <1>9, <1>10, <1>11, <1>12, <1>13, <1>14, <1>15 DEF Next

(* Every variable of the page keeps its type. *)
THEOREM TargetsTypeCorrect == Spec => []TypeOK
<1>1. KeyedInv => TypeOK
  BY DEF KeyedInv
<1> QED BY <1>1, KeyedInit, KeyedNext, PTL DEF Spec

(* Whatever overlaps, the place of a month in the cache holds the data of  *)
(* that month: BaseDataSource#onDataLoaded files under the options of the  *)
(* request.                                                                *)
THEOREM CacheStaysKeyed == Spec => []CacheKeyed
<1>1. KeyedInv => CacheKeyed
  BY DEF KeyedInv
<1> QED BY <1>1, KeyedInit, KeyedNext, PTL DEF Spec

-------------------------------------------------------------------------------
LEMMA UpdateKeepsRemoved ==
  ASSUME NEW value, NEW t \in Tags, items[t] \in {"fading", "gone"}, Update(value)
  PROVE  items'[t] # "shown"
  BY DEF Update, ListOf

LEMMA StepKeepsRemoved ==
  ASSUME TypeOK, [Next]_vars, NEW t \in Tags, items[t] \in {"fading", "gone"}
  PROVE  items'[t] # "shown"
<1>1. ASSUME NEW m \in Keys, SelectMonth(m) PROVE items'[t] # "shown"
  BY <1>1, UpdateKeepsRemoved DEF SelectMonth
<1>2. CASE Load
  BY <1>2, UpdateKeepsRemoved DEF Load
<1>3. ASSUME NEW s \in Tags, Remove(s) \/ FadedOut(s) PROVE items'[t] # "shown"
  BY <1>3 DEF Remove, FadedOut, TypeOK
<1>4. ASSUME NEW w \in writes, WriteAnswered(w) PROVE items'[t] # "shown"
  BY <1>4 DEF WriteAnswered, Refresh, Kept, pageVars
<1>5. CASE items' = items
  BY <1>5
<1> QED
  BY <1>1, <1>2, <1>3, <1>4, <1>5 DEF Next, vars, pageVars, OpenDialog, Edit, Add, CancelDialog,
     ServerUpdates, ServerCreates, ServerDestroys, ServerRefuses, Written, Read, Fail

(* A widget the user removed is never shown again: TargetList#update       *)
(* reuses it only as what it has become.                                   *)
THEOREM RemovedNeverRevives == Spec => RemovedStaysRemoved
<1>1. TypeOK /\ [Next]_vars => [\A t \in Tags : items[t] \in {"fading", "gone"} => items'[t] # "shown"]_vars
  BY StepKeepsRemoved
<1> QED BY <1>1, TargetsTypeCorrect, PTL DEF Spec, RemovedStaysRemoved

-------------------------------------------------------------------------------
(***************************************************************************)
(* The user who waits                                                      *)
(*                                                                         *)
(* MonthShown and CacheHonest speak of the page at rest.  What makes them  *)
(* true there is what is under way before: a request or a write, never     *)
(* both, the request for the month that is shown (Calm), the answer and    *)
(* the cache as honest as the server's targets, unless a write is done     *)
(* whose answer will clear the cache (HonestSource).                       *)
(***************************************************************************)

Honest(value) == \A t \in Tags : limits[t] # 0 => value.limits[t] = limits[t]

Calm ==
  /\ \A t \in Tags : items[t] \in {"absent", "shown"}
  /\ \A w \in writes : w.op # "remove"
  /\ loading <=> xhr # Idle
  /\ xhr # Idle => writes = {} /\ xhr.key = month
  /\ \A v, w \in writes : v = w
  /\ label = month

ShowsData ==
  failures = 0 /\ xhr = Idle =>
    /\ data.month = month
    /\ \A t \in Tags : items[t] = "shown" <=> t \in Listed(data)

HonestSource ==
  /\ (\A w \in writes : w.state # "done")
       => \A m \in Keys : cache[m] # NoData => Honest(cache[m])
  /\ xhr # Idle => (xhr.answer # Unread => Honest(xhr.answer))

WaitedInv == waited => Calm /\ ShowsData /\ HonestSource

(* With no widget on its way out the list becomes what the value lists.    *)
LEMMA UpdateShows ==
  ASSUME Calm, NEW value, value # NoData, Update(value)
  PROVE  /\ ~Throws(value)
         /\ \A t \in Tags : items'[t] \in {"absent", "shown"}
         /\ \A t \in Tags : items'[t] = "shown" <=> t \in Listed(value)
<1>1. ~Throws(value)
  BY DEF Throws, Listed, Calm
<1>2. items' = ListOf(value)
  BY <1>1 DEF Update
<1> QED
  BY <1>1, <1>2 DEF ListOf, Listed, Calm

(* Nothing the user waits for changes.                                     *)
LEMMA WaitingKept ==
  ASSUME Calm, ShowsData, HonestSource,
         UNCHANGED <<sourceVars, month, label, items, limits, writes, failures>>
  PROVE  Calm' /\ ShowsData' /\ HonestSource'
  BY DEF Calm, ShowsData, HonestSource, Honest, Listed, sourceVars

LEMMA SelectWaited ==
  ASSUME KeyedInv, Calm, ShowsData, HonestSource, AtRest, NEW m \in Keys, SelectMonth(m)
  PROVE  Calm' /\ ShowsData' /\ HonestSource'
<1>1. xhr = Idle /\ ~loading /\ writes = {}
  BY DEF AtRest, Calm
<1>2. month' = m /\ RequestData(m, cache) /\ cache' = cache /\ UNCHANGED <<limits, writes, failures>>
  BY DEF SelectMonth, RequestData
<1>3. ChangedTo(m, cache) = cache[m] /\ Update(cache[m])
  BY <1>1 DEF SelectMonth, ChangedTo
<1>4. CASE cache[m] # NoData
  <2>1. data' = cache[m] /\ UNCHANGED <<loading, xhr>> /\ cache[m].month = m
    BY <1>1, <1>2, <1>4 DEF RequestData, UseCached, KeyedInv, CacheKeyed
  <2>2. /\ ~Throws(cache[m])
        /\ \A t \in Tags : items'[t] \in {"absent", "shown"}
        /\ \A t \in Tags : items'[t] = "shown" <=> t \in Listed(cache[m])
    BY <1>3, <1>4, UpdateShows
  <2>3. label' = m
    BY <1>3, <2>2 DEF SelectMonth
  <2>4. Calm'
    BY <1>1, <1>2, <2>1, <2>2, <2>3 DEF Calm
  <2>5. ShowsData'
    BY <1>2, <2>1, <2>2 DEF ShowsData, Listed
  <2>6. HonestSource'
    BY <1>1, <1>2, <2>1 DEF HonestSource, Honest
  <2> QED
    BY <2>4, <2>5, <2>6
<1>5. CASE cache[m] = NoData
  <2>1. loading' = TRUE /\ xhr' = [key |-> m, answer |-> Unread] /\ items' = items /\ label' = m
    BY <1>1, <1>2, <1>3, <1>5 DEF RequestData, BeginLoading, Update, SelectMonth
  <2>2. xhr' # Idle
    BY <2>1, NullAssumption
  <2>3. Calm'
    BY <1>1, <1>2, <2>1, <2>2 DEF Calm
  <2>4. ShowsData'
    BY <2>2 DEF ShowsData
  <2>5. HonestSource'
    BY <1>1, <1>2, <2>1 DEF HonestSource, Honest
  <2> QED
    BY <2>3, <2>4, <2>5
<1> QED
  BY <1>4, <1>5

(* The one write is sent.                                                  *)
LEMMA SendWaited ==
  ASSUME KeyedInv, Calm, ShowsData, HonestSource, AtRest,
         NEW op \in {"update", "create"}, NEW t, NEW a, Send(op, t, a),
         UNCHANGED <<sourceVars, month, label, items, limits, failures>>
  PROVE  Calm' /\ ShowsData' /\ HonestSource'
<1>1. xhr = Idle /\ writes = {} /\ UNCHANGED <<data, loading, cache, xhr>>
  BY DEF AtRest, sourceVars
<1>2. writes' = {[op |-> op, tag |-> t, amount |-> a, state |-> "sent"]}
  BY <1>1 DEF Send
<1>3. Calm'
  BY <1>1, <1>2 DEF Calm
<1>4. ShowsData' /\ HonestSource'
  BY <1>1, <1>2 DEF ShowsData, HonestSource, Honest, Listed
<1> QED
  BY <1>3, <1>4

(* The server writes or refuses: a write that is done leaves the cache to  *)
(* the refresh.                                                            *)
LEMMA WriteWaited ==
  ASSUME KeyedInv, Calm, ShowsData, HonestSource, NEW w \in writes,
         ServerUpdates(w) \/ ServerCreates(w) \/ ServerDestroys(w) \/ ServerRefuses(w)
  PROVE  Calm' /\ ShowsData' /\ HonestSource'
<1>1. writes = {w} /\ w.op # "remove" /\ xhr = Idle /\ w \in Writes
  BY DEF Calm, KeyedInv, TypeOK
<1>2. /\ UNCHANGED <<data, loading, cache, xhr, month, label, items, failures>>
      /\ w.state = "sent"
  BY DEF ServerUpdates, ServerCreates, ServerDestroys, ServerRefuses, Written, sourceVars, pageVars
<1>3. CASE ServerRefuses(w)
  <2>1. writes' = {[w EXCEPT !.state = "refused"]} /\ limits' = limits
    BY <1>1, <1>3 DEF ServerRefuses
  <2> QED
    BY <1>1, <1>2, <2>1 DEF Calm, ShowsData, HonestSource, Honest, Listed, Writes
<1>4. CASE ServerUpdates(w) \/ ServerCreates(w) \/ ServerDestroys(w)
  <2>1. writes' = {[w EXCEPT !.state = "done"]}
    BY <1>1, <1>4 DEF ServerUpdates, ServerCreates, ServerDestroys, Written
  <2> QED
    BY <1>1, <1>2, <2>1 DEF Calm, ShowsData, HonestSource, Listed, Writes
<1> QED
  BY <1>3, <1>4

LEMMA AnswerWaited ==
  ASSUME KeyedInv, Calm, ShowsData, HonestSource, NEW w \in writes, WriteAnswered(w)
  PROVE  Calm' /\ ShowsData' /\ HonestSource'
<1>1. writes = {w} /\ w.op \in {"update", "create"} /\ xhr = Idle /\ ~loading /\ w \in Writes
  BY DEF Calm, KeyedInv, TypeOK, Writes
<1>2. writes' = {} /\ UNCHANGED <<limits, failures>> /\ w.state # "sent"
  BY <1>1 DEF WriteAnswered
<1>3. CASE Refreshes(w)
  <2>1. Refresh
    BY <1>3 DEF WriteAnswered
  <2>2. cache' = NoCache /\ loading' = TRUE /\ xhr' = [key |-> month, answer |-> Unread]
        /\ UNCHANGED <<month, label>>
    BY <1>1, <2>1 DEF Refresh, RequestData, BeginLoading, NoCache, KeyedInv, TypeOK
  <2>3. xhr' # Idle
    BY <2>2, NullAssumption DEF KeyedInv, TypeOK
  <2>4. \A t \in Tags : items'[t] \in {"absent", "shown"}
    BY <2>1 DEF Refresh, Kept, Calm
  <2>5. Calm'
    BY <1>2, <2>2, <2>3, <2>4 DEF Calm
  <2> QED
    BY <2>2, <2>3, <2>5 DEF ShowsData, HonestSource, NoCache
<1>4. CASE ~Refreshes(w)
  <2>1. UNCHANGED <<data, loading, cache, xhr, month, label, items>>
    BY <1>4 DEF WriteAnswered, sourceVars, pageVars
  <2>2. \A v \in writes : v.state # "done"
    BY <1>1, <1>4 DEF Refreshes
  <2> QED
    BY <1>1, <1>2, <2>1, <2>2 DEF Calm, ShowsData, HonestSource, Honest, Listed
<1> QED
  BY <1>3, <1>4

LEMMA LoadWaited ==
  ASSUME KeyedInv, Calm, ShowsData, HonestSource, Load
  PROVE  Calm' /\ ShowsData' /\ HonestSource'
<1>1. xhr # Idle /\ xhr.answer # Unread /\ Update(xhr.answer)
      /\ UNCHANGED <<month, label, limits, writes, failures>>
  BY DEF Load, Loaded, LoadedBadly, Answered
<1>2. xhr.answer \in Values /\ xhr.answer.month = month /\ xhr.key = month /\ writes = {}
  BY <1>1 DEF KeyedInv, TypeOK, SourceTypeOK, AnswerKeyed, Calm
<1>3. /\ ~Throws(xhr.answer)
      /\ \A t \in Tags : items'[t] \in {"absent", "shown"}
      /\ \A t \in Tags : items'[t] = "shown" <=> t \in Listed(xhr.answer)
  BY <1>1, <1>2, UpdateShows, NullAssumption
<1>4. data' = xhr.answer /\ cache' = Remembered /\ loading' = FALSE /\ xhr' = Idle
  BY <1>3 DEF Load, Loaded
<1>5. Calm'
  BY <1>1, <1>2, <1>3, <1>4 DEF Calm
<1>6. ShowsData'
  BY <1>1, <1>2, <1>3, <1>4 DEF ShowsData, Listed
<1>7. HonestSource'
  <2>1. Honest(xhr.answer) /\ \A m \in Keys : cache[m] # NoData => Honest(cache[m])
    BY <1>1, <1>2 DEF HonestSource
  <2>2. \A m \in Keys : cache'[m] \in {cache[m], xhr.answer}
    BY <1>4 DEF Remembered, KeyedInv, TypeOK, SourceTypeOK
  <2> QED
    BY <1>1, <1>4, <2>1, <2>2 DEF HonestSource, Honest
<1> QED
  BY <1>5, <1>6, <1>7

LEMMA ReadWaited ==
  ASSUME KeyedInv, Calm, ShowsData, HonestSource, Read
  PROVE  Calm' /\ ShowsData' /\ HonestSource'
<1> DEFINE value == [month |-> xhr.key, limits |-> limits]
<1>1. /\ xhr # Idle /\ xhr' = [xhr EXCEPT !.answer = value]
      /\ UNCHANGED <<data, loading, cache, month, label, items, limits, writes, failures>>
  BY DEF Read, ServerReads, pageVars
<1>2. xhr \in [key : Keys, answer : Values \cup {Unread}] /\ value \in Values
  BY <1>1 DEF KeyedInv, TypeOK, SourceTypeOK, Values
<1>3. xhr'.key = xhr.key /\ xhr'.answer = value /\ value.limits = limits /\ xhr' # Idle
  <2>1. xhr' \in [key : Keys, answer : Values \cup {Unread}]
    BY <1>1, <1>2
  <2> QED
    BY <1>1, <1>2, <2>1, NullAssumption
<1>4. Honest(value)'
  BY <1>1 DEF Honest
<1> HIDE DEF value
<1>5. Calm' /\ ShowsData'
  BY <1>1, <1>3 DEF Calm, ShowsData
<1>6. HonestSource'
  BY <1>1, <1>3 DEF HonestSource, Honest
<1> QED
  BY <1>5, <1>6

LEMMA WaitedNext == KeyedInv /\ WaitedInv /\ [MCNext]_<<vars, waited>> => WaitedInv'
<1> SUFFICES ASSUME KeyedInv, WaitedInv, [MCNext]_<<vars, waited>>, waited'
             PROVE  Calm' /\ ShowsData' /\ HonestSource'
  BY DEF WaitedInv
<1>1. CASE UNCHANGED <<vars, waited>>
  BY <1>1, WaitingKept DEF vars, pageVars, WaitedInv
<1>2. CASE MCNext
  <2>1. /\ Next /\ Calm /\ ShowsData /\ HonestSource
        /\ month' # month \/ written' # written => AtRest
        /\ ~Removes
    BY <1>2 DEF MCNext, WaitedInv, UserActs
  <2>2. ASSUME NEW m \in Keys, SelectMonth(m) PROVE Calm' /\ ShowsData' /\ HonestSource'
    <3>1. month' # month
      BY <2>2 DEF SelectMonth, KeyedInv, TypeOK
    <3> QED
      BY <2>1, <2>2, <3>1, SelectWaited
  <2>s. ASSUME NEW op, NEW t, NEW a, Send(op, t, a) PROVE AtRest
    <3>1. written' # written
      BY <2>s DEF Send, KeyedInv, TypeOK
    <3> QED
      BY <2>1, <3>1
  <2>3. ASSUME NEW a \in Amounts, Edit(a) PROVE Calm' /\ ShowsData' /\ HonestSource'
    BY <2>1, <2>3, <2>s, SendWaited DEF Edit
  <2>4. ASSUME NEW t \in Tags, NEW a \in Amounts, Add(t, a) PROVE Calm' /\ ShowsData' /\ HonestSource'
    BY <2>1, <2>4, <2>s, SendWaited DEF Add, pageVars
  <2>5. ASSUME NEW t \in Tags, OpenDialog(t) PROVE Calm' /\ ShowsData' /\ HonestSource'
    BY <2>1, <2>5, WaitingKept DEF OpenDialog
  <2>6. CASE CancelDialog
    BY <2>1, <2>6, WaitingKept DEF CancelDialog
  <2>7. ASSUME NEW t \in Tags, Remove(t) \/ FadedOut(t) PROVE FALSE
    BY <2>1, <2>7 DEF Remove, FadedOut, Removes, Calm, KeyedInv, TypeOK
  <2>8. ASSUME NEW w \in writes,
               ServerUpdates(w) \/ ServerCreates(w) \/ ServerDestroys(w) \/ ServerRefuses(w)
        PROVE  Calm' /\ ShowsData' /\ HonestSource'
    BY <2>1, <2>8, WriteWaited
  <2>9. ASSUME NEW w \in writes, WriteAnswered(w) PROVE Calm' /\ ShowsData' /\ HonestSource'
    BY <2>1, <2>9, AnswerWaited
  <2>10. CASE Read
    BY <2>1, <2>10, ReadWaited
  <2>11. CASE Load
    BY <2>1, <2>11, LoadWaited
  <2>12. CASE Fail
    <3>1. failures' # 0 /\ xhr' = Idle /\ loading' = FALSE
          /\ UNCHANGED <<cache, month, label, items, limits, writes>>
      BY <2>12 DEF Fail, LoadFailed, pageVars, KeyedInv, TypeOK
    <3> QED
      BY <2>1, <3>1 DEF Calm, ShowsData, HonestSource, Honest
  <2> QED
    BY <2>1, <2>2, <2>3, <2>4, <2>5, <2>6, <2>7, <2>8, <2>9, <2>10, <2>11, <2>12 DEF Next
<1> QED
  BY <1>1, <1>2

LEMMA WaitedInit == MCInit => WaitedInv
<1> SUFFICES ASSUME MCInit PROVE Calm /\ ShowsData /\ HonestSource
  BY DEF WaitedInv
<1>1. Init
  BY DEF MCInit
<1>2. xhr = [key |-> LastMonth, answer |-> Unread] /\ LastMonth \in Keys
  BY <1>1 DEF Init
<1>3. xhr # Idle
  BY <1>2, NullAssumption
<1> QED
  BY <1>1, <1>2, <1>3 DEF Init, Calm, ShowsData, HonestSource, NoCache

LEMMA WaitedAlways == MCSpec => [](KeyedInv /\ WaitedInv)
<1>1. MCInit => KeyedInv /\ WaitedInv
  BY KeyedInit, WaitedInit DEF MCInit
<1>2. [MCNext]_<<vars, waited>> => [Next]_vars
  BY DEF MCNext
<1>3. KeyedInv /\ WaitedInv /\ [MCNext]_<<vars, waited>> => (KeyedInv /\ WaitedInv)'
  BY <1>2, KeyedNext, WaitedNext
<1> QED
  BY <1>1, <1>3, PTL DEF MCSpec

(* For any number of months, targets and writes: to a user who waits for   *)
(* the page before each click it shows the month he chose, in the labels,  *)
(* the data and the list.                                                  *)
THEOREM ChosenMonthIsShown == MCSpec => []MonthShownIfWaited
<1>1. WaitedInv => MonthShownIfWaited
  BY DEF WaitedInv, MonthShownIfWaited, MonthShown, AtRest, Calm, ShowsData
<1> QED
  BY <1>1, WaitedAlways, PTL

(* To that user no cached month disagrees with the server, even when       *)
(* requests fail: a write that is done clears the cache before it rests.   *)
THEOREM CacheStaysHonest == MCSpec => []CacheHonestIfWaited
<1>1. WaitedInv => CacheHonestIfWaited
  BY DEF WaitedInv, CacheHonestIfWaited, CacheHonest, AtRest, HonestSource, Honest
<1> QED
  BY <1>1, WaitedAlways, PTL
===============================================================================
