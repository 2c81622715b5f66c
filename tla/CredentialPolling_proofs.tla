----------------------- MODULE CredentialPolling_proofs -----------------------
(***************************************************************************)
(* One poller, for any number of credentials, clicks and failures.         *)
(***************************************************************************)
EXTENDS CredentialPolling, TLAPS

(* Why there is only one: while an interval is running, its xhr is set     *)
(* exactly when its callback waits, and a request in flight always has a   *)
(* callback waiting for it.                                                *)
OneCallback ==
  /\ timers = {syncDone} \ {None}
  /\ queue = <<>> \/ (syncDone # None /\ queue = <<syncDone>>)
  /\ requested = IF queue = <<>> THEN {} ELSE {syncDone}
  /\ loading <=> xhr # Idle
  /\ xhr # Idle => queue # <<>>
  /\ cache = NoCache

PollInv == TypeOK /\ OneCallback

USE OneKey, NeverCached, CredsAssumption, PollingBounds, IdleIsNoRequest

LEMMA KeyExists == TheKey \in Keys
  BY DEF TheKey

(* A poller that is not waiting for an answer sends a request *)
LEMMA PollSends ==
  ASSUME TypeOK, NEW p \in Pollers, queue = <<>>, requested = {}, ~loading, cache = NoCache,
         DoPoll(p, requested)
  PROVE  /\ queue' = <<p>> /\ requested' = {p}
         /\ loading' = TRUE /\ xhr' # Idle /\ cache' = NoCache
         /\ SourceTypeOK(SUBSET Creds)'
<1>1. RequestData(TheKey, cache) /\ queue' = Append(queue, p) /\ requested' = requested \cup {p}
  BY DEF DoPoll
<1>2. BeginLoading(TheKey) /\ cache' = cache
  BY <1>1, KeyExists DEF RequestData, NoCache
<1>3. xhr' = [key |-> TheKey, answer |-> Unread] /\ loading' = TRUE /\ data' = data
  BY <1>2 DEF BeginLoading
<1>4. xhr' # Idle /\ xhr' \in [key : Keys, answer : (SUBSET Creds) \cup {Unread}]
  BY <1>3, KeyExists, IdleIsNoRequest
<1>5. SourceTypeOK(SUBSET Creds)'
  BY <1>2, <1>3, <1>4 DEF TypeOK, SourceTypeOK
<1>6. queue' = <<p>>
  BY <1>1
<1> QED BY <1>1, <1>2, <1>3, <1>4, <1>5, <1>6

LEMMA StartKeeps ==
  ASSUME PollInv, PollUntilSyncDone, UNCHANGED <<pending, failures>>,
         acts' \in 0..MaxActs, posts' \subseteq [n : 1..MaxActs, creds : SUBSET Creds, done : BOOLEAN]
  PROVE  PollInv'
<1>1. CASE syncDone # None
  <2>1. UNCHANGED <<sourceVars, pollVars>>
    BY <1>1 DEF PollUntilSyncDone
  <2> QED BY <2>1 DEF PollInv, TypeOK, SourceTypeOK, OneCallback, sourceVars, pollVars
<1>2. CASE syncDone = None
  <2> DEFINE p == started + 1
  <2>1. /\ started' = p /\ timers' = timers \cup {p} /\ list' = Append(list, p)
        /\ syncDone' = p /\ DoPoll(p, requested)
    BY <1>2 DEF PollUntilSyncDone
  <2>2. p \in Pollers /\ p # None /\ p \in Nat
    BY DEF PollInv, TypeOK, Pollers, None
  <2>3. timers = {} /\ queue = <<>> /\ requested = {} /\ ~loading /\ cache = NoCache
    BY <1>2 DEF PollInv, OneCallback
  <2> HIDE DEF p
  <2>4. /\ queue' = <<p>> /\ requested' = {p}
        /\ loading' = TRUE /\ xhr' # Idle /\ cache' = NoCache
        /\ SourceTypeOK(SUBSET Creds)'
    BY <2>1, <2>2, <2>3, PollSends DEF PollInv
  <2>5. queue' \in Seq(Pollers) /\ list' \in Seq(Pollers) /\ queue' # <<>>
    BY <2>1, <2>2, <2>4 DEF PollInv, TypeOK
  <2>6. OneCallback'
    BY <2>1, <2>2, <2>3, <2>4, <2>5 DEF OneCallback
  <2>7. TypeOK'
    BY <2>1, <2>2, <2>3, <2>4, <2>5 DEF PollInv, TypeOK
  <2> QED BY <2>6, <2>7 DEF PollInv
<1> QED BY <1>1, <1>2

LEMMA PollUntouched ==
  ASSUME PollInv, UNCHANGED <<sourceVars, pollVars>>, pending' \subseteq Creds,
         posts' \subseteq [n : 1..MaxActs, creds : SUBSET Creds, done : BOOLEAN],
         acts' \in 0..MaxActs, failures' \in 0..MaxFailures
  PROVE  PollInv'
  BY DEF PollInv, TypeOK, SourceTypeOK, OneCallback, sourceVars, pollVars

LEMMA ReplaceTypes ==
  ASSUME NEW s \in Seq(Pollers), NEW k, NEW v \in Pollers
  PROVE  [s EXCEPT ![k] = v] \in Seq(Pollers)
<1>1. s \in [1..Len(s) -> Pollers] /\ Len(s) \in Nat
  OBVIOUS
<1>2. [s EXCEPT ![k] = v] \in [1..Len(s) -> Pollers]
  BY <1>1
<1> QED BY <1>1, <1>2

(* The popped poller takes a place in the list or the list stays as it is  *)
LEMMA RemovalTypes ==
  ASSUME NEW l \in Seq(Pollers), NEW p \in Pollers
  PROVE  RemovedFrom(l, p) \in Seq(Pollers)
<1> DEFINE places == {i \in DOMAIN l : l[i] = p}
           place  == CHOOSE i \in places : \A j \in places : j <= i
           n      == Len(l)
<1>1. RemovedFrom(l, p) = IF places = {} \/ place = n THEN l
                          ELSE [SubSeq(l, 1, n - 1) EXCEPT ![place] = l[n]]
  BY DEF RemovedFrom
<1>2. CASE places = {} \/ place = n
  BY <1>1, <1>2
<1>3. CASE ~(places = {} \/ place = n)
  <2>1. n \in Nat /\ n >= 1 /\ l[n] \in Pollers
    <3>1. DOMAIN l # {} /\ DOMAIN l = 1..n /\ n \in Nat
      BY <1>3
    <3> QED BY <3>1
  <2>2. SubSeq(l, 1, n - 1) \in Seq(Pollers)
    BY <2>1
  <2> HIDE DEF places, place, n
  <2>3. [SubSeq(l, 1, n - 1) EXCEPT ![place] = l[n]] \in Seq(Pollers)
    BY <2>1, <2>2, ReplaceTypes
  <2> QED BY <1>1, <1>3, <2>3
<1> QED BY <1>2, <1>3

-------------------------------------------------------------------------------
LEMMA PollInit == Init => PollInv
<1> SUFFICES ASSUME Init PROVE PollInv
  OBVIOUS
<1>1. TheKey \in Keys
  BY KeyExists
<1>2. xhr \in [key : Keys, answer : (SUBSET Creds) \cup {Unread}] /\ xhr # Idle
  BY <1>1 DEF Init
<1>3. SourceTypeOK(SUBSET Creds)
  BY <1>2 DEF Init, SourceTypeOK, NoCache
<1>4. queue \in Seq(Pollers) /\ list \in Seq(Pollers) /\ queue # <<>>
  BY DEF Init, Pollers
<1>5. TypeOK
  BY <1>3, <1>4 DEF Init, TypeOK, Pollers
<1>6. OneCallback
  BY <1>2, <1>4 DEF Init, OneCallback, None
<1> QED BY <1>5, <1>6 DEF PollInv

LEMMA PollNext == PollInv /\ [Next]_vars => PollInv'
<1> SUFFICES ASSUME PollInv, [Next]_vars PROVE PollInv'
  OBVIOUS
<1>1. ASSUME NEW S \in SUBSET Creds \ {{}}, StartUpdate(S) PROVE PollInv'
  <2>1. acts' \in 0..MaxActs /\ acts + 1 \in 1..MaxActs
    BY <1>1 DEF StartUpdate, PollInv, TypeOK
  <2>2. posts' \subseteq [n : 1..MaxActs, creds : SUBSET Creds, done : BOOLEAN]
    <3>1. acts + 1 \in 1..MaxActs
      BY <2>1
    <3>2. [n |-> acts + 1, creds |-> S, done |-> FALSE] \in [n : 1..MaxActs, creds : SUBSET Creds, done : BOOLEAN]
      BY <3>1
    <3>3. posts' = posts \cup {[n |-> acts + 1, creds |-> S, done |-> FALSE]}
      BY <1>1 DEF StartUpdate
    <3>4. posts \subseteq [n : 1..MaxActs, creds : SUBSET Creds, done : BOOLEAN]
      BY DEF PollInv, TypeOK
    <3> QED BY <3>2, <3>3, <3>4
  <2> QED BY <1>1, <2>1, <2>2, PollUntouched DEF StartUpdate, PollInv, TypeOK
<1>2. CASE Refresh
  <2>1. acts' \in 0..MaxActs
    BY <1>2 DEF Refresh, PollInv, TypeOK
  <2> QED BY <1>2, <2>1, StartKeeps DEF Refresh, PollInv, TypeOK
<1>3. ASSUME NEW p \in timers, Tick(p) PROVE PollInv'
  <2>1. p = syncDone /\ p # None /\ p \in Pollers /\ p \notin requested
    BY <1>3 DEF Tick, PollInv, TypeOK, OneCallback
  <2>2. queue = <<>> /\ requested = {} /\ ~loading /\ cache = NoCache
    BY <2>1 DEF PollInv, OneCallback
  <2>3. DoPoll(p, requested)
    BY <1>3 DEF Tick
  <2>4. /\ queue' = <<p>> /\ requested' = {p}
        /\ loading' = TRUE /\ xhr' # Idle /\ cache' = NoCache
        /\ SourceTypeOK(SUBSET Creds)'
    BY <2>1, <2>2, <2>3, PollSends DEF PollInv
  <2>5. queue' \in Seq(Pollers) /\ queue' # <<>>
    BY <2>1, <2>4
  <2>6. OneCallback'
    BY <1>3, <2>1, <2>4, <2>5 DEF Tick, OneCallback, PollInv
  <2>7. TypeOK'
    BY <1>3, <2>1, <2>4, <2>5 DEF Tick, TypeOK, PollInv
  <2> QED BY <2>6, <2>7 DEF PollInv
<1>4. ASSUME NEW p \in posts, ServerStarts(p) PROVE PollInv'
  <2>1. p \in [n : 1..MaxActs, creds : SUBSET Creds, done : BOOLEAN]
    BY DEF PollInv, TypeOK
  <2>2. [p EXCEPT !.done = TRUE] \in [n : 1..MaxActs, creds : SUBSET Creds, done : BOOLEAN]
    BY <2>1
  <2>3. p.creds \subseteq Creds
    BY <2>1
  <2> QED BY <1>4, <2>2, <2>3, PollUntouched DEF ServerStarts, PollInv, TypeOK
<1>5. ASSUME NEW p \in posts, PostAnswered(p) PROVE PollInv'
  BY <1>5, StartKeeps DEF PostAnswered, PollInv, TypeOK
<1>6. ASSUME NEW p \in posts, PostFails(p) PROVE PollInv'
  BY <1>6, PollUntouched DEF PostFails, PollInv, TypeOK
<1>7. ASSUME NEW c \in Creds, JobEnds(c) PROVE PollInv'
  BY <1>7, PollUntouched DEF JobEnds, PollInv, TypeOK
<1>8. CASE Read
  <2>1. /\ xhr # Idle /\ xhr' = [xhr EXCEPT !.answer = pending]
        /\ UNCHANGED <<data, loading, cache>>
    BY <1>8 DEF Read, ServerReads
  <2>2. xhr' \in [key : Keys, answer : (SUBSET Creds) \cup {Unread}]
    BY <2>1 DEF PollInv, TypeOK, SourceTypeOK
  <2>3. xhr' # Idle
    BY <2>2
  <2>4. SourceTypeOK(SUBSET Creds)'
    BY <2>1, <2>2 DEF PollInv, TypeOK, SourceTypeOK
  <2> QED BY <1>8, <2>1, <2>3, <2>4 DEF Read, pollVars, PollInv, TypeOK, OneCallback
<1>9. CASE Load
  <2>1. xhr # Idle /\ Answered /\ queue = <<syncDone>> /\ syncDone # None /\ syncDone \in Pollers
    BY <1>9 DEF Load, Loaded, LoadedBadly, Answered, PollInv, TypeOK, OneCallback
  <2>2. ~Throws(xhr.answer)
    BY <2>1 DEF Throws
  <2>3. /\ data' = xhr.answer /\ cache' = Remembered /\ loading' = FALSE /\ xhr' = Idle
    BY <1>9, <2>1, <2>2 DEF Load, Loaded
  <2>4. cache' = NoCache
    BY <2>3 DEF Remembered, PollInv, OneCallback
  <2>5. SourceTypeOK(SUBSET Creds)'
    BY <2>1, <2>3, <2>4 DEF Answered, PollInv, TypeOK, SourceTypeOK, NoCache
  <2>6. requested' = {} /\ queue' = <<>> /\ started' = started
    BY <1>9, <2>1 DEF Load, RunCallbacks, Unrequested, PollInv, OneCallback
  <2>7. RemovedFrom(list, syncDone) \in Seq(Pollers)
    BY <2>1, RemovalTypes DEF PollInv, TypeOK
  <2>8. \/ timers' = timers \ {syncDone} /\ list' = RemovedFrom(list, syncDone) /\ syncDone' = None
        \/ UNCHANGED <<timers, list, syncDone>>
    BY <1>9 DEF Load, RunCallbacks
  <2>9. OneCallback'
    BY <2>3, <2>4, <2>6, <2>8 DEF PollInv, OneCallback
  <2>10. TypeOK'
    BY <1>9, <2>5, <2>6, <2>7, <2>8 DEF Load, PollInv, TypeOK
  <2> QED BY <2>9, <2>10 DEF PollInv
<1>10. CASE Fail
  <2>1. /\ loading' = FALSE /\ xhr' = Idle /\ UNCHANGED <<data, cache>>
    BY <1>10 DEF Fail, LoadFailed
  <2>2. SourceTypeOK(SUBSET Creds)'
    BY <2>1 DEF PollInv, TypeOK, SourceTypeOK
  <2>3. OneCallback'
    BY <1>10, <2>1 DEF Fail, pollVars, PollInv, OneCallback
  <2>4. TypeOK'
    BY <1>10, <2>2 DEF Fail, pollVars, PollInv, TypeOK
  <2> QED BY <2>3, <2>4 DEF PollInv
<1>11. CASE UNCHANGED vars
  BY <1>11, PollUntouched DEF vars, PollInv, TypeOK
<1> QED BY <1>1, <1>2, <1>3, <1>4, <1>5, <1>6, <1>7, <1>8, <1>9, <1>10, <1>11 DEF Next

(* Every variable keeps its type. *)
THEOREM PollingTypeCorrect == Spec => []TypeOK
<1>1. PollInv => TypeOK
  BY DEF PollInv
<1> QED BY <1>1, PollInit, PollNext, PTL DEF Spec

(* However clicks, answers, failures and the timer interleave, one         *)
(* interval at most is running, it is the one _syncDonePoller names, and   *)
(* no callback throws.                                                     *)
THEOREM OnlyOnePoller == Spec => []OnePoller
<1>1. PollInv => OnePoller
  <2> SUFFICES ASSUME PollInv PROVE OnePoller
    OBVIOUS
  <2>1. Len(queue) <= 1
    <3>1. Len(<<>>) = 0 /\ Len(<<syncDone>>) = 1
      OBVIOUS
    <3>2. queue = <<>> \/ queue = <<syncDone>>
      BY DEF PollInv, OneCallback
    <3>3. CASE queue = <<>>
      BY <3>1, <3>3
    <3>4. CASE queue = <<syncDone>>
      BY <3>1, <3>4
    <3> QED BY <3>2, <3>3, <3>4
  <2> QED BY <2>1 DEF PollInv, OneCallback, OnePoller
<1> QED BY <1>1, PollInit, PollNext, PTL DEF Spec
===============================================================================
