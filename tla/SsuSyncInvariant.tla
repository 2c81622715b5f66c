-------------------------- MODULE SsuSyncInvariant --------------------------
(***************************************************************************)
(* The inductive invariant behind the safety properties of SsuSync, part   *)
(* by part. TLC checks it on the instances, SsuSyncInvariant_proofs proves.*)
(***************************************************************************)
EXTENDS SsuSync

(* Where perform has not seen a final status of the daemon yet *)
Waiting == {"off", "start", "begin", "poll", "status", "decide"}

(* Requests come before workers, rows after requests, lookups after rows.   *)
RequestInv(j) ==
  /\ reqState[j] # "idle" => credState[reqCred[j]] # "none"
  /\ reqState[j] \in {"idle", "loaded"} => pc[j] = "off"
  /\ reqState[j] \in {"idle", "loaded", "pushed"} => ~Present(j)
  /\ memo[j] # "none" => Present(j)
  /\ memo[j] = "gone" => ~Stored(reqCred[j])
  /\ pc[j] = "off" => memo[j] = "none"

(* Every guid is pushed once, and waits there until a worker takes it.      *)
QueueInv ==
  /\ \A i \in 1..Len(low) : /\ reqState[low[i]] \notin {"idle", "loaded"}
                            /\ pc[low[i]] = "off"
  /\ \A i, n \in 1..Len(low) : low[i] = low[n] => i = n

(* imports counts exactly the statements seen and worked off.               *)
LedgerInv(j) ==
  /\ todo[j] \subseteq seen[j] /\ seen[j] \subseteq dListed[j]
  /\ pc[j] \in Waiting \cup {"list"} => todo[j] = {}
  /\ \A s \in Statements :
       imports[j][s] = IF s \in seen[j] /\ s \notin todo[j] THEN 1 ELSE 0

(* Versions only grow on their way from the daemon to the row.              *)
VersionInv(j) ==
  /\ rowVersion[j] <= knownVersion[j]
  /\ knownVersion[j] <= dVersion[j]
  /\ dStatus[j] \in Outcomes \cup {Pending}
  /\ ~Present(j) => rowVersion[j] = 0
  /\ pc[j] \in {"off", "start", "begin"} => dVersion[j] = 0

(* While perform waits for the daemon the row is pending; once it knows the *)
(* final status, so does the row, unless it could not be reached.           *)
Through(j) == \/ pc[j] = "stop"
              \/ pc[j] \in {"list", "enqueue"} /\ Complete(j)
              \/ Concluded(j)

RowInv(j) ==
  /\ pc[j] \in Waiting => ~Complete(j)
  /\ pc[j] \in InLoop \cup Waiting /\ ~Complete(j) => rowStatus[j] \in {Absent, Pending}
  /\ Through(j) /\ rowStatus[j] = Pending => memo[j] = "none" \/ ~Stored(reqCred[j])

(* A row that says 200 got it from a daemon that downloads no more.         *)
SuccessInv(j) ==
  rowStatus[j] = Successful =>
    /\ Complete(j) /\ memo[j] = "cred"
    /\ dStatus[j] # Pending
    /\ pc[j] = "enqueue" => seen[j] = dListed[j]
    /\ pc[j] = "stop" \/ Concluded(j) => seen[j] = dListed[j] /\ todo[j] = {}

(* A worker that believes the daemon waits for an answer is right, or the   *)
(* daemon has finished meanwhile; either way it has no answer yet.          *)
AnswerInv(j) ==
  /\ dResumes[j] <= 1
  /\ Paused(j) => dResumes[j] = 0
  /\ Paused(j) /\ dStatus[j] = Pending => dAsking[j] /\ dVersion[j] = knownVersion[j]
  /\ dResumes[j] > 0 /\ dStatus[j] = Pending => dVersion[j] = knownVersion[j]
  /\ resumed[j] <= knownVersion[j]
  /\ dStatus[j] # Pending => ~dAsking[j]
  /\ dVersion[j] = 0 => dResumes[j] = 0 /\ dStatus[j] = Pending

(* The daemon's answers are the ones the worker holds, once it started it.  *)
HeldInv(j) == pc[j] \in InLoop => dAnswers[j] = held[j]

StopInv(j) == pc[j] = "returned" => daemon[j] = "down"

IInv ==
  /\ TypeOK
  /\ QueueInv
  /\ \A j \in Jobs : /\ RequestInv(j) /\ LedgerInv(j) /\ VersionInv(j) /\ RowInv(j)
                     /\ SuccessInv(j) /\ AnswerInv(j) /\ HeldInv(j) /\ StopInv(j)

=============================================================================
