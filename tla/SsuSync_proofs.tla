--------------------------- MODULE SsuSync_proofs ---------------------------
(***************************************************************************)
(* The safety properties of SsuSync, for any number of credentials, jobs,  *)
(* statements, versions and workers, and that its rows follow              *)
(* SyncJobLifecycle. All of them rest on the inductive invariant.          *)
(***************************************************************************)
EXTENDS SsuSyncInvariant_proofs

USE DEF Successful, Pending, GeneralError, Absent

(* The groups of variables are mere abbreviations in UNCHANGED.             *)
USE DEF webVars, credVars, reqVars, rowVars, workerVars, localVars, knownVars,
        ledgerVars, daemonVars, siteVars

(* No statement of the daemon is pushed to the import queue twice by one    *)
(* job (SyncJob#statements=).                                               *)
THEOREM NoStatementTwice == Spec => []StatementsOnce
<1>1. IInv => StatementsOnce
  BY DEF IInv, LedgerInv, StatementsOnce
<1>2. QED
  BY <1>1, InvariantHolds, PTL

(* A concluded job whose row says 200 has handed over every statement the   *)
(* daemon downloaded.                                                       *)
THEOREM SuccessIsComplete == Spec => []SuccessMeansDelivered
<1>1. ASSUME IInv PROVE SuccessMeansDelivered
  <2>1. SUFFICES ASSUME NEW j \in Jobs, Concluded(j), rowStatus[j] = Successful,
                        NEW s \in dListed[j]
                 PROVE  imports[j][s] > 0
    BY DEF SuccessMeansDelivered
  <2>2. seen[j] = dListed[j] /\ todo[j] = {}
    BY <1>1, <2>1 DEF IInv, SuccessInv
  <2>3. s \in Statements
    BY <1>1, <2>1 DEF IInv, TypeOK
  <2>4. QED
    BY <1>1, <2>1, <2>2, <2>3 DEF IInv, LedgerInv
<1>2. QED
  BY <1>1, InvariantHolds, PTL

(* A concluded job leaves its row pending only if it never saw the row or   *)
(* the credentials were destroyed.                                          *)
THEOREM PendingIsExplained == Spec => []PendingExplained
<1>1. IInv => PendingExplained
  BY DEF IInv, RowInv, Through, PendingExplained
<1>2. QED
  BY <1>1, InvariantHolds, PTL

(* A question of the bank is answered at most once (SyncJob#paused?).       *)
THEOREM NoAnswerTwice == Spec => []QuestionsAnsweredOnce
<1>1. IInv => QuestionsAnsweredOnce
  BY DEF IInv, AnswerInv, QuestionsAnsweredOnce
<1>2. QED
  BY <1>1, InvariantHolds, PTL

(* A sync that returned leaves no daemon behind.                            *)
THEOREM NoDaemonLeft == Spec => []DaemonReaped
<1>1. IInv => DaemonReaped
  BY DEF IInv, StopInv, DaemonReaped
<1>2. QED
  BY <1>1, InvariantHolds, PTL

----------------------------------------------------------------------------
(* Only Resume counts up dResumes. *)
LEMMA ResumeOnly ==
  ASSUME TypeOK, [Next]_vars, NEW k \in Jobs, dResumes'[k] > dResumes[k]
  PROVE  Resume(k)
<1>1. dResumes \in [Jobs -> Nat]
  BY DEF TypeOK
<1>2. CASE Web
  BY <1>1, <1>2, WebLeaves
<1>3. ASSUME NEW j \in Jobs, DaemonStep(j) PROVE FALSE
  BY <1>1, <1>3 DEF DaemonStep, DaemonAdvance, DaemonDownload, DaemonFinish,
     DaemonDies, DaemonHangs
<1>4. ASSUME NEW j \in Jobs, Perform(j) PROVE Resume(k)
  <2>1. CASE Resume(j)
    <3>1. j = k
      BY <1>1, <2>1 DEF Resume
    <3>2. QED
      BY <2>1, <3>1
  <2>2. CASE ~Resume(j)
    <3>1. UNCHANGED dResumes
      BY <1>4, <2>2
      DEF Perform, TakeJob, StartDaemon, StartSync, PollRunning, PollQuit, SameStatus,
          NewStatus, StatusWithoutCred, GetStatements, EnqueueStatement, EnqueuedAll,
          KeepWaiting, ReloadMissing, RequestFails, Stop, RescueTimeout, RescueObject
    <3>2. QED
      BY <1>1, <3>1
  <2>3. QED
    BY <2>1, <2>2
<1>5. ASSUME NEW j \in Jobs, Timeout(j) \/ Kill(j) PROVE FALSE
  BY <1>1, <1>5 DEF Timeout, Kill
<1>6. CASE UNCHANGED vars
  BY <1>1, <1>6 DEF vars
<1>7. QED
  BY <1>2, <1>3, <1>4, <1>5, <1>6 DEF Next

(* job.resume is never sent with the answers the daemon has already.        *)
THEOREM ResumesBringNews == Spec => ResumeBringsNews
<1>1. ASSUME IInv, [Next]_vars, NEW j \in Jobs, dResumes'[j] > dResumes[j]
      PROVE  dAnswers'[j] # dAnswers[j]
  <2>1. Resume(j)
    BY <1>1, ResumeOnly DEF IInv
  <2>2. held[j] = dAnswers[j]
    BY <1>1, <2>1 DEF IInv, HeldInv, InLoop, Resume
  <2>3. QED
    BY <1>1, <2>1, <2>2 DEF IInv, TypeOK, Resume, NewAnswers
<1>2. IInv /\ [Next]_vars => [\A j \in Jobs : dResumes'[j] > dResumes[j]
                                 => dAnswers'[j] # dAnswers[j]]_vars
  BY <1>1
<1>3. QED
  BY <1>2, InvariantHolds, PTL DEF Spec, ResumeBringsNews

----------------------------------------------------------------------------
(* The row refines SyncJobLifecycle *)

closed == [j \in Jobs |-> pc[j] \in Ended]

LEMMA GotoClosed ==
  ASSUME TypeOK, NEW j \in Jobs, NEW label \in Labels, Goto(j, label), pc[j] \notin Ended
  PROVE  /\ ~closed[j]
         /\ label \in Ended => closed' = [closed EXCEPT ![j] = TRUE]
         /\ label \notin Ended => closed' = closed
<1>1. pc \in [Jobs -> Labels]
  BY DEF TypeOK
<1>2. \A k \in Jobs : pc'[k] = IF k = j THEN label ELSE pc[k]
  BY <1>1 DEF Goto
<1>3. ~closed[j]
  BY DEF closed
<1>4. ASSUME label \in Ended PROVE closed' = [closed EXCEPT ![j] = TRUE]
  <2>1. \A k \in Jobs : (pc'[k] \in Ended) = IF k = j THEN TRUE ELSE pc[k] \in Ended
    BY <1>2, <1>4
  <2>2. QED
    BY <2>1, Zenon DEF closed
<1>5. ASSUME label \notin Ended PROVE closed' = closed
  <2>1. \A k \in Jobs : (pc'[k] \in Ended) = (pc[k] \in Ended)
    BY <1>2, <1>5
  <2>2. QED
    BY <2>1, Zenon DEF closed
<1>6. QED
  BY <1>3, <1>4, <1>5

(* update_attributes in a rescue: it writes 500, or cannot write at all.    *)
LEMMA FailRowWrites ==
  ASSUME IInv, NEW j \in Jobs, FailRow(j)
  PROVE  /\ rowVersion' = rowVersion
         /\ \/ rowStatus' = rowStatus
            \/ Present(j) /\ rowStatus' = [rowStatus EXCEPT ![j] = GeneralError]
  BY DEF FailRow, Found, IInv, RequestInv

(* How each step moves the row and the end of the worker.                   *)
LEMMA QuietStep ==
  ASSUME TypeOK, UNCHANGED <<rowStatus, rowVersion, closed>>
  PROVE  UNCHANGED Lifecycle!vars
  BY DEF Lifecycle!vars, closed

LEMMA CloseStep ==
  ASSUME NEW j \in Jobs, ~closed[j], closed' = [closed EXCEPT ![j] = TRUE],
         UNCHANGED <<rowStatus, rowVersion>>
  PROVE  Lifecycle!Next
  BY DEF Lifecycle!Next, Lifecycle!Close, closed

LEMMA FailStep ==
  ASSUME NEW j \in Jobs, Present(j), ~closed[j],
         rowStatus' = [rowStatus EXCEPT ![j] = GeneralError],
         rowVersion' = rowVersion,
         closed' \in {closed, [closed EXCEPT ![j] = TRUE]}
  PROVE  Lifecycle!Next
  BY DEF Lifecycle!Next, Lifecycle!Fail, Lifecycle!GeneralError, closed, Present

(* A newer status reaches a row that is still pending. *)
LEMMA ReportStep ==
  ASSUME IInv, NEW j \in Jobs, NewStatus(j), Found(j)
  PROVE  Lifecycle!Next
<1>1. closed' = closed /\ ~closed[j]
  <2>1. Goto(j, "list") /\ pc[j] = "status"
    BY DEF NewStatus
  <2>2. QED
    BY <2>1, Literals, GotoClosed DEF IInv, Ended
<1>2. /\ rowStatus' = [rowStatus EXCEPT ![j] = dStatus[j]]
      /\ rowVersion' = [rowVersion EXCEPT ![j] = dVersion[j]]
  BY NewStatusCases
<1>3. rowStatus[j] = Pending
  BY DEF NewStatus, Found, IInv, RequestInv, RowInv, Present, Waiting, InLoop
<1>4. dVersion[j] > rowVersion[j] /\ dStatus[j] \in Outcomes \cup {Pending}
  <2>1. knownVersion[j] < dVersion[j]
    BY DEF NewStatus, NewerStatus
  <2>2. QED
    BY <2>1 DEF IInv, TypeOK, VersionInv
<1>5. rowVersion'[j] = dVersion[j]
  BY <1>2 DEF IInv, TypeOK
<1>6. Lifecycle!Report(j)
  BY <1>1, <1>2, <1>3, <1>4, <1>5 DEF Lifecycle!Report, Lifecycle!Pending,
     closed
<1>7. QED
  BY <1>6 DEF Lifecycle!Next

(* Every step of the web application, of a worker and of a daemon is a step *)
(* of the lifecycle of one row, or invisible to its readers.                *)
LEMMA LifecycleStep ==
  ASSUME IInv, [Next]_vars PROVE [Lifecycle!Next]_(Lifecycle!vars)
<1>t. TypeOK
  BY DEF IInv
<1>1. CASE Web
  <2>1. ASSUME NEW j \in Jobs, CreateRow(j) PROVE Lifecycle!Next
    <3>1. rowStatus[j] = Absent /\ rowVersion[j] = 0
      BY <2>1 DEF CreateRow, IInv, RequestInv, VersionInv, Present
    <3>2. rowStatus' = [rowStatus EXCEPT ![j] = Pending] /\ rowVersion' = rowVersion
      BY <1>t, <2>1, <3>1 DEF CreateRow, TypeOK
    <3>3. closed' = closed
      BY <2>1 DEF CreateRow, closed
    <3>4. Lifecycle!Post(j)
      BY <3>1, <3>2, <3>3 DEF Lifecycle!Post, Lifecycle!Pending, closed
    <3>5. QED
      BY <3>4 DEF Lifecycle!Next
  <2>2. CASE ~\E j \in Jobs : CreateRow(j)
    <3>1. UNCHANGED <<rowStatus, rowVersion, pc>>
      BY <1>1, <2>2 DEF Web, CreateCred, UpdateCred, DestroyCred, RequestJob,
         Login,
         Load, PushJob, RequestDies, Age
    <3>2. QED
      BY <1>t, <3>1, QuietStep DEF closed
  <2>3. QED
    BY <2>1, <2>2
<1>2. ASSUME NEW j \in Jobs, TakeJob(j) PROVE [Lifecycle!Next]_(Lifecycle!vars)
  <2>1. pc[j] \notin Ended /\ Goto(j, "start") /\ UNCHANGED <<rowStatus, rowVersion>>
    <3>1. pc[j] = "off"
      BY <1>2, TakenJob
    <3>2. QED
      BY <1>2, <3>1 DEF TakeJob, Ended
  <2>2. QED
    BY <1>t, <2>1, Literals, GotoClosed, QuietStep DEF Ended
<1>3. ASSUME NEW j \in Jobs, StartSync(j)
      PROVE  [Lifecycle!Next]_(Lifecycle!vars)
  <2>1. pc[j] \notin Ended /\ Goto(j, "poll") /\ UNCHANGED <<rowStatus, rowVersion>>
    BY <1>3 DEF StartSync, Ended
  <2>2. QED
    BY <1>t, <2>1, Literals, GotoClosed, QuietStep DEF Ended
<1>4. ASSUME NEW j \in Jobs, PollRunning(j)
      PROVE  [Lifecycle!Next]_(Lifecycle!vars)
  <2>1. pc[j] \notin Ended /\ Goto(j, "status") /\ UNCHANGED <<rowStatus, rowVersion>>
    BY <1>4 DEF PollRunning, Ended
  <2>2. QED
    BY <1>t, <2>1, Literals, GotoClosed, QuietStep DEF Ended
<1>5. ASSUME NEW j \in Jobs, SameStatus(j)
      PROVE  [Lifecycle!Next]_(Lifecycle!vars)
  <2>1. pc[j] \notin Ended /\ Goto(j, "list") /\ UNCHANGED <<rowStatus, rowVersion>>
    BY <1>5 DEF SameStatus, Ended
  <2>2. QED
    BY <1>t, <2>1, Literals, GotoClosed, QuietStep DEF Ended
<1>6. ASSUME NEW j \in Jobs, GetStatements(j)
      PROVE  [Lifecycle!Next]_(Lifecycle!vars)
  <2>1. pc[j] \notin Ended /\ Goto(j, "enqueue") /\ UNCHANGED <<rowStatus, rowVersion>>
    BY <1>6 DEF GetStatements, Ended
  <2>2. QED
    BY <1>t, <2>1, Literals, GotoClosed, QuietStep DEF Ended
<1>7. ASSUME NEW j \in Jobs, EnqueuedAll(j)
      PROVE  [Lifecycle!Next]_(Lifecycle!vars)
  <2>1. /\ pc[j] \notin Ended /\ (Goto(j, "stop") \/ Goto(j, "decide"))
        /\ UNCHANGED <<rowStatus, rowVersion>>
    BY <1>7 DEF EnqueuedAll, Ended
  <2>2. QED
    BY <1>t, <2>1, Literals, GotoClosed, QuietStep DEF Ended
<1>8. ASSUME NEW j \in Jobs, KeepWaiting(j)
      PROVE  [Lifecycle!Next]_(Lifecycle!vars)
  <2>1. pc[j] \notin Ended /\ Goto(j, "poll") /\ UNCHANGED <<rowStatus, rowVersion>>
    BY <1>8 DEF KeepWaiting, Ended
  <2>2. QED
    BY <1>t, <2>1, Literals, GotoClosed, QuietStep DEF Ended
<1>9. ASSUME NEW j \in Jobs, Resume(j) PROVE [Lifecycle!Next]_(Lifecycle!vars)
  <2>1. pc[j] \notin Ended /\ Goto(j, "poll") /\ UNCHANGED <<rowStatus, rowVersion>>
    BY <1>9 DEF Resume, Ended
  <2>2. QED
    BY <1>t, <2>1, Literals, GotoClosed, QuietStep DEF Ended
<1>10. ASSUME NEW j \in Jobs, ReloadMissing(j)
       PROVE  [Lifecycle!Next]_(Lifecycle!vars)
  <2>1. pc[j] \notin Ended /\ Goto(j, "rescue") /\ UNCHANGED <<rowStatus, rowVersion>>
    BY <1>10 DEF ReloadMissing, Ended
  <2>2. QED
    BY <1>t, <2>1, Literals, GotoClosed, QuietStep DEF Ended
<1>11. ASSUME NEW j \in Jobs, RequestFails(j)
       PROVE  [Lifecycle!Next]_(Lifecycle!vars)
  <2>1. pc[j] \notin Ended /\ Goto(j, "rescue") /\ UNCHANGED <<rowStatus, rowVersion>>
    BY <1>11 DEF RequestFails, Ended, Requesting
  <2>2. QED
    BY <1>t, <2>1, Literals, GotoClosed, QuietStep DEF Ended
<1>12. ASSUME NEW j \in Jobs, Timeout(j)
       PROVE  [Lifecycle!Next]_(Lifecycle!vars)
  <2>1. pc[j] \notin Ended /\ Goto(j, "timeout") /\ UNCHANGED <<rowStatus, rowVersion>>
    BY <1>12 DEF Timeout, Ended, InLoop
  <2>2. QED
    BY <1>t, <2>1, Literals, GotoClosed, QuietStep DEF Ended
<1>13. ASSUME NEW j \in Jobs, StartDaemon(j)
       PROVE  [Lifecycle!Next]_(Lifecycle!vars)
  <2>1. /\ pc[j] \notin Ended /\ (Goto(j, "begin") \/ Goto(j, "escaped"))
        /\ UNCHANGED <<rowStatus, rowVersion>>
    BY <1>13 DEF StartDaemon, Ended
  <2>2. QED
    BY <1>t, <2>1, Literals, GotoClosed, QuietStep, CloseStep DEF Ended
<1>14. ASSUME NEW j \in Jobs, Stop(j) PROVE [Lifecycle!Next]_(Lifecycle!vars)
  <2>1. /\ pc[j] \notin Ended /\ (Goto(j, "returned") \/ Goto(j, "rescue"))
        /\ UNCHANGED <<rowStatus, rowVersion>>
    BY <1>14 DEF Stop, Ended
  <2>2. QED
    BY <1>t, <2>1, Literals, GotoClosed, QuietStep, CloseStep DEF Ended
<1>15. ASSUME NEW j \in Jobs, Kill(j) PROVE [Lifecycle!Next]_(Lifecycle!vars)
  <2>1. pc[j] \notin Ended /\ Goto(j, "killed") /\ UNCHANGED <<rowStatus, rowVersion>>
    BY <1>15 DEF Kill, Active, InLoop, Ended
  <2>2. QED
    BY <1>t, <2>1, Literals, GotoClosed, CloseStep DEF Ended
<1>16. ASSUME NEW j \in Jobs, PollQuit(j)
       PROVE  [Lifecycle!Next]_(Lifecycle!vars)
  <2>1. pc[j] \notin Ended /\ Goto(j, "stop") /\ FailRow(j)
    BY <1>16 DEF PollQuit, Ended
  <2>2. closed' = closed /\ ~closed[j]
    BY <1>t, <2>1, Literals, GotoClosed DEF Ended
  <2>3. QED
    BY <1>t, <2>1, <2>2, FailRowWrites, FailStep, QuietStep
<1>17. ASSUME NEW j \in Jobs, RescueTimeout(j)
       PROVE  [Lifecycle!Next]_(Lifecycle!vars)
  <2>1. CASE FailRow(j) /\ Goto(j, "returned")
    <3>1. ~closed[j] /\ closed' = [closed EXCEPT ![j] = TRUE]
      BY <1>t, <1>17, <2>1, Literals, GotoClosed DEF Ended, RescueTimeout
    <3>2. QED
      BY <2>1, <3>1, FailRowWrites, FailStep, CloseStep
  <2>2. CASE Goto(j, "escaped") /\ UNCHANGED rowVars
    <3>1. ~closed[j] /\ closed' = [closed EXCEPT ![j] = TRUE]
      BY <1>t, <1>17, <2>2, Literals, GotoClosed DEF Ended, RescueTimeout
    <3>2. QED
      BY <2>2, <3>1, CloseStep
  <2>3. QED
    BY <1>17, <2>1, <2>2 DEF RescueTimeout
<1>18. ASSUME NEW j \in Jobs, RescueObject(j)
       PROVE  [Lifecycle!Next]_(Lifecycle!vars)
  <2>1. pc[j] \notin Ended /\ Goto(j, "raised") /\ FailRow(j)
    BY <1>18 DEF RescueObject, Ended
  <2>2. ~closed[j] /\ closed' = [closed EXCEPT ![j] = TRUE]
    BY <1>t, <2>1, Literals, GotoClosed DEF Ended
  <2>3. QED
    BY <2>1, <2>2, FailRowWrites, FailStep, CloseStep
<1>19. ASSUME NEW j \in Jobs, StatusWithoutCred(j)
       PROVE  [Lifecycle!Next]_(Lifecycle!vars)
  <2>1. pc[j] \notin Ended /\ Goto(j, "rescue") /\ UNCHANGED <<rowStatus, rowVersion>>
    BY <1>19 DEF StatusWithoutCred, Ended
  <2>2. QED
    BY <1>t, <2>1, Literals, GotoClosed, QuietStep DEF Ended
<1>20. ASSUME NEW j \in Jobs, NewStatus(j)
       PROVE  [Lifecycle!Next]_(Lifecycle!vars)
  <2>1. CASE Found(j)
    BY <1>20, <2>1, ReportStep
  <2>2. CASE ~Found(j)
    <3>1. /\ pc[j] \notin Ended /\ Goto(j, "list")
          /\ UNCHANGED <<rowStatus, rowVersion>>
      BY <1>20, <2>2 DEF NewStatus, Ended
    <3>2. QED
      BY <1>t, <3>1, Literals, GotoClosed, QuietStep DEF Ended
  <2>3. QED
    BY <2>1, <2>2
<1>21. ASSUME NEW j \in Jobs, NEW s \in Statements, EnqueueStatement(j, s)
       PROVE  [Lifecycle!Next]_(Lifecycle!vars)
  BY <1>t, <1>21, QuietStep DEF EnqueueStatement, closed
<1>22. ASSUME NEW j \in Jobs, DaemonStep(j)
       PROVE  [Lifecycle!Next]_(Lifecycle!vars)
  BY <1>t, <1>22, DaemonLeaves, QuietStep DEF closed
<1>23. CASE UNCHANGED vars
  BY <1>t, <1>23, QuietStep DEF vars, closed
<1>24. QED
  BY <1>1, <1>2, <1>3, <1>4, <1>5, <1>6, <1>7, <1>8, <1>9, <1>10, <1>11,
     <1>12, <1>13, <1>14, <1>15, <1>16, <1>17, <1>18, <1>19, <1>20, <1>21,
     <1>22, <1>23
  DEF Next, Perform

(* What the browser and AccountUpdateManager may rely on: a row appears     *)
(* pending, its versions grow, a complete row only ever turns to 500, and   *)
(* nothing changes after the worker ended.                                  *)
THEOREM RowsFollowLifecycle == Spec => RowKeepsLifecycle
<1>1. Init => Lifecycle!Init
  <2> SUFFICES ASSUME Init PROVE Lifecycle!Init
    OBVIOUS
  <2>1. \A j \in Jobs : (pc[j] \in Ended) = FALSE
    BY DEF Init, Ended
  <2>2. closed = [j \in Jobs |-> FALSE]
    BY <2>1, Zenon DEF closed
  <2>3. rowStatus = [j \in Jobs |-> 0] /\ rowVersion = [j \in Jobs |-> 0]
    BY DEF Init
  <2>4. QED
    BY <2>2, <2>3, Zenon DEF Lifecycle!Init, closed
<1>2. IInv /\ [Next]_vars => [Lifecycle!Next]_(Lifecycle!vars)
  BY LifecycleStep
<1>3. QED
  BY <1>1, <1>2, InvariantHolds, PTL DEF Spec, RowKeepsLifecycle,
     Lifecycle!Spec

(* The same said of a single step, as a reader of the row needs it: a       *)
(* version never comes back, a complete row only turns to 500 (and keeps    *)
(* its version then), and there is nothing to wait for after the worker.    *)
RowAdvances(j) ==
  /\ rowVersion[j] <= rowVersion'[j]
  /\ rowVersion[j] # rowVersion'[j] => rowStatus[j] = Pending
  /\ Present(j) => Present(j)'
  /\ rowStatus[j] \notin {Absent, Pending} => rowStatus'[j] \in {rowStatus[j], GeneralError}
  /\ Present(j) /\ pc[j] \in Ended => UNCHANGED <<rowStatus[j], rowVersion[j]>>

(* A step of the lifecycle of one row, seen from any row.                   *)
LEMMA LifecycleAdvances ==
  ASSUME TypeOK, TypeOK', [Lifecycle!Next]_(Lifecycle!vars), NEW j \in Jobs
  PROVE  RowAdvances(j)
<1>t. /\ rowStatus \in [Jobs -> Codes] /\ rowVersion \in [Jobs -> Nat]
      /\ rowVersion' \in [Jobs -> Nat]
  BY DEF TypeOK
<1>1. closed[j] <=> pc[j] \in Ended
  BY DEF closed
<1>2. CASE UNCHANGED <<rowStatus, rowVersion>>
  BY <1>t, <1>2 DEF RowAdvances, Present
<1>3. ASSUME NEW k \in Jobs, Lifecycle!Post(k) PROVE RowAdvances(j)
  BY <1>t, <1>3 DEF Lifecycle!Post, Lifecycle!Pending, RowAdvances, Present
<1>4. ASSUME NEW k \in Jobs, Lifecycle!Report(k) PROVE RowAdvances(j)
  <2>1. ~closed[k] /\ rowStatus[k] = Pending
    BY <1>4 DEF Lifecycle!Report, Lifecycle!Pending, closed
  <2>2. PICK code \in Outcomes \cup {Pending} : rowStatus' = [rowStatus EXCEPT ![k] = code]
    BY <1>4 DEF Lifecycle!Report, Lifecycle!Pending
  <2>3. rowVersion' = [rowVersion EXCEPT ![k] = rowVersion'[k]] /\ rowVersion'[k] > rowVersion[k]
    BY <1>4 DEF Lifecycle!Report
  <2>4. CASE j = k
    <3>1. rowStatus'[j] = code /\ code # Absent
      BY <1>t, <2>2, <2>4, OutcomesAssumption
    <3>2. rowVersion[j] \in Nat /\ rowVersion[j] <= rowVersion'[j]
      BY <1>t, <2>3, <2>4
    <3>3. pc[j] \notin Ended /\ rowStatus[j] = Pending
      BY <1>1, <2>1, <2>4
    <3>4. QED
      BY <3>1, <3>2, <3>3 DEF RowAdvances, Present
  <2>5. CASE j # k
    <3>1. rowStatus'[j] = rowStatus[j] /\ rowVersion'[j] = rowVersion[j]
      BY <1>t, <2>2, <2>3, <2>5
    <3>2. QED
      BY <1>t, <3>1 DEF RowAdvances, Present
  <2>6. QED
    BY <2>4, <2>5
<1>5. ASSUME NEW k \in Jobs, Lifecycle!Fail(k) PROVE RowAdvances(j)
  <2>1. /\ ~closed[k] /\ rowVersion' = rowVersion
        /\ rowStatus' = [rowStatus EXCEPT ![k] = GeneralError]
    BY <1>5 DEF Lifecycle!Fail, Lifecycle!GeneralError, closed
  <2>2. QED
    BY <1>t, <1>1, <2>1 DEF RowAdvances, Present
<1>6. ASSUME NEW k \in Jobs, Lifecycle!Close(k) PROVE RowAdvances(j)
  BY <1>2, <1>6 DEF Lifecycle!Close
<1>7. QED
  BY <1>2, <1>3, <1>4, <1>5, <1>6 DEF Lifecycle!Next, Lifecycle!vars

(* The versions of a row grow, a complete row turns to 500 or stays, and    *)
(* nothing touches the row after its worker: for every reader of ssu_jobs,  *)
(* for any number of jobs, workers and versions.                            *)
THEOREM RowsAdvance == Spec => [][\A j \in Jobs : RowAdvances(j)]_vars
<1>1. IInv /\ IInv' /\ [Next]_vars => [\A j \in Jobs : RowAdvances(j)]_vars
  BY LifecycleStep, LifecycleAdvances DEF IInv
<1>2. QED
  BY <1>1, InvariantHolds, PTL DEF Spec

=============================================================================
