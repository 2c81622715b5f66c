-------------------------- MODULE SyncJobLifecycle --------------------------
(***************************************************************************)
(* What an ssu_jobs row promises to those who read it (the browser polling *)
(* SsuJobsController#show, User::AccountUpdateManager): it appears pending *)
(* at version 0, its version only grows, once it is complete it never goes *)
(* back to pending, the only change a complete row can still see is a turn *)
(* to 500, and after the worker is through it never changes at all.        *)
(***************************************************************************)
EXTENDS Naturals

CONSTANTS Jobs, Outcomes

VARIABLES
  status,   \* status[j]: 0 before the row exists, then its status code
  version,  \* version[j]: the version column
  closed    \* closed[j]: the worker of the job has ended

vars == <<status, version, closed>>

Pending      == 202
GeneralError == 500

Init ==
  /\ status  = [j \in Jobs |-> 0]
  /\ version = [j \in Jobs |-> 0]
  /\ closed  = [j \in Jobs |-> FALSE]

(* SsuJob.create!, at any time: nothing orders it before the worker         *)
Post(j) ==
  /\ status[j] = 0
  /\ status' = [status EXCEPT ![j] = Pending]
  /\ UNCHANGED <<version, closed>>

(* A newer status of the daemon reaches the pending row                     *)
Report(j) ==
  /\ ~closed[j]
  /\ status[j] = Pending
  /\ \E code \in Outcomes \cup {Pending} : status' = [status EXCEPT ![j] = code]
  /\ version' = [version EXCEPT ![j] = version'[j]]
  /\ version'[j] > version[j]
  /\ UNCHANGED closed

(* An error of the worker overwrites whatever the row said, and the worker  *)
(* may end with it.                                                         *)
Fail(j) ==
  /\ ~closed[j]
  /\ status[j] # 0
  /\ status' = [status EXCEPT ![j] = GeneralError]
  /\ closed' \in {closed, [closed EXCEPT ![j] = TRUE]}
  /\ UNCHANGED version

Close(j) ==
  /\ ~closed[j]
  /\ closed' = [closed EXCEPT ![j] = TRUE]
  /\ UNCHANGED <<status, version>>

Next == \E j \in Jobs : Post(j) \/ Report(j) \/ Fail(j) \/ Close(j)

Spec == Init /\ [][Next]_vars

=============================================================================
