-------------------------- MODULE CredentialPolling --------------------------
(***************************************************************************)
(* How the accounts page watches automatic updates: a click starts sync    *)
(* jobs on the server and CredentialDataSource#pollUntilSyncDone loads the *)
(* credentials again and again until none of them has a pending job.       *)
(* Everything runs in one browser thread; the requests (the clicks' POSTs  *)
(* and the one GET of the data source) and the timer interleave freely.    *)
(***************************************************************************)
EXTENDS DataSource, Naturals, Sequences, FiniteSets

CONSTANTS
  Creds,        \* the user's credentials
  MaxActs,      \* bound on what the user does
  MaxFailures   \* bound on the failed GETs

ASSUME OneKey == \E k \in Keys : Keys = {k}
ASSUME NeverCached == ~CachingEnabled   \* nobody enables it for credentials
ASSUME CredsAssumption == Creds # {} /\ IsFiniteSet(Creds)
ASSUME IdleIsNoRequest == Idle \notin [key : Keys, answer : (SUBSET Creds) \cup {Unread}]
ASSUME PollingBounds == MaxActs \in Nat /\ MaxFailures \in Nat

Pollers == Nat \ {0}
None    == 0

VARIABLES
  pending,      \* server: the credentials whose last job is pending
  posts,        \* POSTs that start jobs
  started,      \* how many pollers were started
  timers,       \* pollers whose interval is running
  requested,    \* pollers whose xhr is set
  list,         \* _pollers
  syncDone,     \* _syncDonePoller
  queue,        \* callbacks waiting for the next change, by their poller
  acts, failures

pollVars == <<started, timers, requested, list, syncDone, queue>>
vars == <<sourceVars, pending, posts, pollVars, acts, failures>>

TheKey == CHOOSE k \in Keys : TRUE

TypeOK ==
  /\ SourceTypeOK(SUBSET Creds)
  /\ pending \subseteq Creds
  /\ posts \subseteq [n : 1..MaxActs, creds : SUBSET Creds, done : BOOLEAN]
  /\ started \in Nat
  /\ timers \subseteq Pollers
  /\ requested \subseteq Pollers
  /\ list \in Seq(Pollers)
  /\ syncDone \in Pollers \cup {None}
  /\ queue \in Seq(Pollers)
  /\ acts \in 0..MaxActs
  /\ failures \in 0..MaxFailures

-----------------------------------------------------------------------------
(* BaseDataSource#_doPoll: the callback is bound before requestData finds  *)
(* out whether it may send, and xhr is what requestData returned           *)
DoPoll(p, r) ==
  IF p \in r THEN UNCHANGED sourceVars /\ requested' = r /\ queue' = queue
  ELSE /\ RequestData(TheKey, cache)
       /\ queue' = Append(queue, p)
       /\ requested' = IF loading THEN r ELSE r \cup {p}

(* Mutant: a poller is started although one is there.                      *)
PollAgain ==
  /\ started' = started + 1
  /\ timers' = timers \cup {started + 1}
  /\ list' = Append(list, started + 1)
  /\ syncDone' = started + 1
  /\ DoPoll(started + 1, requested)

(* CredentialDataSource#pollUntilSyncDone, BaseDataSource#startPoller      *)
PollUntilSyncDone ==
  IF syncDone # None THEN UNCHANGED <<sourceVars, pollVars>>
  ELSE /\ started' = started + 1
       /\ timers' = timers \cup {started + 1}
       /\ list' = Append(list, started + 1)
       /\ syncDone' = started + 1
       /\ DoPoll(started + 1, requested)

(* The last lines of stopPoller: the popped poller takes the place of the  *)
(* stopped one, also when they are the same                                *)
RemovedFrom(l, p) ==
  LET places == {i \in DOMAIN l : l[i] = p}
      place  == CHOOSE i \in places : \A j \in places : j <= i
      n      == Len(l)
  IN IF places = {} \/ place = n THEN l
     ELSE [SubSeq(l, 1, n - 1) EXCEPT ![place] = l[n]]

(* Mutant: isUpdating is not asked.                                        *)
StopsWithCallbacks(value) == value # value

(* The callbacks of one change event, in the order they were bound, given  *)
(* the value they see: the first that finds no job pending stops the       *)
(* poller; another one would stop null and throw.                          *)
Stops(value)  == value = {} /\ queue # <<>>
Throws(value) == value = {} /\ (Len(queue) > 1 \/ (queue # <<>> /\ syncDone = None))

(* Mutant: the callback does not clear xhr.                                *)
StillRequested == requested

Unrequested == {p \in requested : \A i \in DOMAIN queue : queue[i] # p}

RunCallbacks(value) ==
  /\ queue' = <<>>
  /\ started' = started
  /\ requested' = Unrequested
  /\ IF Stops(value) /\ syncDone # None
       THEN /\ timers' = timers \ {syncDone}
            /\ list' = RemovedFrom(list, syncDone)
            /\ syncDone' = None
       ELSE UNCHANGED <<timers, list, syncDone>>

-----------------------------------------------------------------------------
(* AccountWidget#init starts to poll unless it was given data that shows   *)
(* no update                                                               *)
Init ==
  /\ pending \in SUBSET Creds
  /\ data = NoData
  /\ loading = TRUE
  /\ cache = NoCache
  /\ xhr = [key |-> TheKey, answer |-> Unread]
  /\ posts = {}
  /\ started = 1 /\ timers = {1} /\ requested = {1} /\ list = <<1>>
  /\ syncDone = 1 /\ queue = <<1>>
  /\ acts = 0 /\ failures = 0

(* Account#_startUpdate for one credential, AccountWidget#triggerUpdates   *)
(* for all; neither can be clicked before the credentials are loaded       *)
StartUpdate(S) ==
  /\ data # NoData
  /\ acts < MaxActs
  /\ acts' = acts + 1
  /\ posts' = posts \cup {[n |-> acts + 1, creds |-> S, done |-> FALSE]}
  /\ UNCHANGED <<sourceVars, pending, pollVars, failures>>

(* AccountWidget#refresh *)
Refresh ==
  /\ acts < MaxActs
  /\ acts' = acts + 1
  /\ PollUntilSyncDone
  /\ UNCHANGED <<pending, posts, failures>>

(* setInterval of startPoller *)
Tick(p) ==
  /\ p \notin requested
  /\ DoPoll(p, requested)
  /\ UNCHANGED <<pending, posts, started, timers, list, syncDone, acts, failures>>

(* SsuJobsController#create, AccountsController#trigger_updates *)
ServerStarts(p) ==
  /\ ~p.done
  /\ pending' = pending \cup p.creds
  /\ posts' = (posts \ {p}) \cup {[p EXCEPT !.done = TRUE]}
  /\ UNCHANGED <<sourceVars, pollVars, acts, failures>>

(* The success callback of the POST *)
PostAnswered(p) ==
  /\ p.done
  /\ posts' = posts \ {p}
  /\ PollUntilSyncDone
  /\ UNCHANGED <<pending, acts, failures>>

(* No error callback is given to $.post *)
PostFails(p) ==
  /\ ~p.done
  /\ posts' = posts \ {p}
  /\ UNCHANGED <<sourceVars, pending, pollVars, acts, failures>>

(* A sync ends: SSU::SyncJob *)
JobEnds(c) ==
  /\ c \in pending
  /\ pending' = pending \ {c}
  /\ UNCHANGED <<sourceVars, posts, pollVars, acts, failures>>

(* AccountCredsController#index *)
Read ==
  /\ ServerReads(pending)
  /\ UNCHANGED <<pending, posts, pollVars, acts, failures>>

(* The answer reaches the browser: onDataLoaded, change, onAfterLoad *)
Load ==
  /\ IF Answered /\ Throws(xhr.answer) THEN LoadedBadly ELSE Loaded
  /\ RunCallbacks(xhr.answer)
  /\ UNCHANGED <<pending, posts, acts, failures>>

(* onDataError, onAfterLoad: the callbacks go on waiting *)
Fail ==
  /\ failures < MaxFailures
  /\ failures' = failures + 1
  /\ LoadFailed
  /\ UNCHANGED <<pending, posts, pollVars, acts>>

Next ==
  \/ \E S \in SUBSET Creds \ {{}} : StartUpdate(S)
  \/ Refresh
  \/ \E p \in timers : Tick(p)
  \/ \E p \in posts : ServerStarts(p) \/ PostAnswered(p) \/ PostFails(p)
  \/ \E c \in Creds : JobEnds(c)
  \/ Read \/ Load \/ Fail

Spec == Init /\ [][Next]_vars

(* The interval goes on ticking, the server answers, syncs come to an end  *)
(* (their timeout sees to it).  The user need not do anything.             *)
FairSpec ==
  /\ Spec
  /\ WF_vars(\E p \in timers : Tick(p))
  /\ WF_vars(Read) /\ WF_vars(Load)
  /\ WF_vars(\E p \in posts : ServerStarts(p) \/ PostAnswered(p) \/ PostFails(p))
  /\ \A c \in Creds : WF_vars(JobEnds(c))

-----------------------------------------------------------------------------
(* pollUntilSyncDone is called from four places whenever one of them sees  *)
(* fit, yet there is one interval at most, it is the one _syncDonePoller   *)
(* names, at most one callback waits, and no callback ever throws (the     *)
(* source would load for ever).                                            *)
OnePoller ==
  /\ timers = {syncDone} \ {None}
  /\ Len(queue) <= 1
  /\ loading => xhr # Idle

ShownPending(c) == data # NoData /\ c \in data

(* What the page shows as being updated it shows as done in the end, as    *)
(* long as no request fails.                                               *)
ShownEnds == \A c \in Creds : ShownPending(c) ~> (~ShownPending(c) \/ failures > 0)

(* "polling [...] until there are no more running sync jobs"               *)
(* (CredentialDataSource#pollUntilSyncDone): when the polling stops, the   *)
(* page has seen the end of everything that was running, and it does stop. *)
PollingEnds == syncDone # None ~> (syncDone = None \/ failures > 0)

(* BaseDataSource#_doPoll: "Execute the polling request for {poller} if    *)
(* one isn't already running".  A running interval that has its xhr set    *)
(* has a request in flight.                                                *)
XhrIsRunning == timers \cap requested # {} => xhr # Idle

(* Account#_startUpdate "Tells the server to begin updating the credential *)
(* [...] and restarts polling for job completion": once every POST is      *)
(* answered and the polling has stopped without a failure, no job runs     *)
(* unwatched.                                                              *)
UpdatesWatched == posts = {} /\ syncDone = None /\ failures = 0 => pending = {}

(* BaseDataSource#stopPoller: "remove the poller from the list"            *)
StoppedAreRemoved == \A i \in DOMAIN list : list[i] \in timers
=============================================================================
