----------------------------- MODULE DataSource -----------------------------
(***************************************************************************)
(* wesabe.data.BaseDataSource: the browser's copy of something the server  *)
(* keeps.  A source has one current value, at most one request in flight   *)
(* and, when caching is enabled, a value per request it has made.  Asking  *)
(* again while a request is in flight sends nothing, whatever the options  *)
(* of the new request would have been.                                     *)
(*                                                                         *)
(* The operators are halves of handlers: what a handler does to the source *)
(* itself.  A page that uses the source conjoins what the subscribers of   *)
(* its change event do, which happens inside the same handler.             *)
(***************************************************************************)
CONSTANTS
  Keys,            \* request options that differ (URL and query parameters)
  NoData,          \* null
  Idle,            \* no request in flight
  Unread,          \* the answer of a request the server has not read yet
  CachingEnabled

ASSUME CachingAssumption == CachingEnabled \in BOOLEAN

VARIABLES
  data,      \* what get('data') returns
  loading,   \* _loading
  cache,     \* _cache, by request options
  xhr        \* the request in flight: its options and the server's answer

sourceVars == <<data, loading, cache, xhr>>

SourceTypeOK(Values) ==
  /\ data \in Values \cup {NoData}
  /\ loading \in BOOLEAN
  /\ cache \in [Keys -> Values \cup {NoData}]
  /\ xhr \in {Idle} \cup [key : Keys, answer : Values \cup {Unread}]

SourceInit ==
  /\ data = NoData
  /\ loading = FALSE
  /\ cache = [k \in Keys |-> NoData]
  /\ xhr = Idle

NoCache == [k \in Keys |-> NoData]

(* requestData with no request in flight and nothing in the cache *)
BeginLoading(key) ==
  /\ loading' = TRUE
  /\ xhr' = [key |-> key, answer |-> Unread]
  /\ data' = data

(* Mutant: the cached value is not set.                                    *)
UseCachedSilently(value) == UNCHANGED <<data, loading, xhr>>

(* requestData answered from the cache: the change event fires before it   *)
(* returns                                                                 *)
UseCached(value) ==
  /\ data' = value
  /\ UNCHANGED <<loading, xhr>>

(* requestData with the cache c, which the caller may just have cleared    *)
RequestData(key, c) ==
  /\ cache' = c
  /\ IF loading             THEN UNCHANGED <<data, loading, xhr>>
     ELSE IF c[key] # NoData THEN UseCached(c[key])
     ELSE BeginLoading(key)

(* The value the subscribers of change are given by that call, if any *)
ChangedTo(key, c) == IF loading THEN NoData ELSE c[key]

(* The server reads what it answers with *)
ServerReads(value) ==
  /\ xhr # Idle
  /\ xhr.answer = Unread
  /\ xhr' = [xhr EXCEPT !.answer = value]
  /\ UNCHANGED <<data, loading, cache>>

(* The cache after onDataLoaded: the options of the request, not those a   *)
(* request would have now, are the key                                     *)
Remembered ==
  IF CachingEnabled THEN [cache EXCEPT ![xhr.key] = xhr.answer] ELSE cache

Answered == xhr # Idle /\ xhr.answer # Unread

(* success and complete of jQuery.ajax, when no subscriber throws *)
Loaded ==
  /\ Answered
  /\ data' = xhr.answer
  /\ cache' = Remembered
  /\ loading' = FALSE
  /\ xhr' = Idle

(* A subscriber of change throws: the value is not cached and complete is  *)
(* never called, so that the source loads for ever                         *)
LoadedBadly ==
  /\ Answered
  /\ data' = xhr.answer
  /\ xhr' = Idle
  /\ UNCHANGED <<cache, loading>>

(* Mutant: the request in flight is set to null.                           *)
LoadFailedForGood ==
  /\ xhr # Idle
  /\ loading' = FALSE
  /\ xhr' = NoData
  /\ UNCHANGED <<data, cache>>

(* error and complete of jQuery.ajax *)
LoadFailed ==
  /\ xhr # Idle
  /\ loading' = FALSE
  /\ xhr' = Idle
  /\ UNCHANGED <<data, cache>>
=============================================================================
