---------------------- MODULE SsuSyncInvariant_proofs ----------------------
(***************************************************************************)
(* IInv is inductive, for any number of credentials, jobs, statements,     *)
(* versions and workers. One lemma per part of it, one step per action.    *)
(***************************************************************************)
EXTENDS SsuSyncInvariant, FiniteSetTheorems, TLAPS

USE DEF Successful, Pending, GeneralError, Absent

(* The groups of variables are mere abbreviations in UNCHANGED.             *)
USE DEF webVars, credVars, reqVars, rowVars, workerVars, localVars, knownVars,
        ledgerVars, daemonVars, siteVars

----------------------------------------------------------------------------
(* Types *)

LEMMA Literals ==
  /\ {Absent, Successful, Pending, GeneralError} \cup Outcomes \subseteq Codes
  /\ {"start", "begin", "poll", "status", "list", "enqueue", "decide", "stop",
      "timeout", "rescue", "returned", "raised", "escaped", "killed",
         "off"} \subseteq Labels
  /\ {"none", "row", "cred", "gone"} \subseteq Memos
  BY DEF Codes, Labels, Active, InLoop, Ended, Memos

LEMMA GotoType ==
  ASSUME TypeOK, NEW j \in Jobs, NEW label \in Labels, Goto(j, label)
  PROVE  pc' \in [Jobs -> Labels]
  BY DEF Goto, TypeOK

LEMMA LookType ==
  ASSUME TypeOK, NEW j \in Jobs, Look(j) PROVE memo' \in [Jobs -> Memos]
  BY Literals DEF Look, TypeOK

LEMMA FailRowType ==
  ASSUME TypeOK, NEW j \in Jobs, FailRow(j)
  PROVE  /\ memo' \in [Jobs -> Memos]
         /\ rowStatus' \in [Jobs -> Codes]
         /\ rowFresh' \in [Jobs -> BOOLEAN]
<1>1. rowStatus' \in [Jobs -> Codes]
  BY Literals DEF FailRow, TypeOK
<1>2. rowFresh' \in [Jobs -> BOOLEAN]
  BY DEF FailRow, TypeOK
<1>3. QED BY <1>1, <1>2, LookType DEF FailRow

LEMMA NewSeq == Cardinality({k \in Jobs : Present(k)}) + 1 \in Nat
<1>1. IsFiniteSet({k \in Jobs : Present(k)})
  BY SetsAssumption, FS_Subset
<1>2. QED BY <1>1, FS_CardinalityType

LEMMA TypeInit == Init => TypeOK
  BY SetsAssumption, Literals DEF Init, TypeOK, SomeCred, SomeAnswers

LEMMA TypeStep ==
  ASSUME TypeOK, [Next]_vars PROVE TypeOK'
<1>1. ASSUME NEW c \in Creds, NEW a \in Answers, CreateCred(c, a) PROVE TypeOK'
  BY <1>1, Literals DEF CreateCred, TypeOK
<1>2. ASSUME NEW c \in Creds, NEW a \in Answers, UpdateCred(c, a) PROVE TypeOK'
  BY <1>2, Literals DEF UpdateCred, TypeOK
<1>3. ASSUME NEW c \in Creds, DestroyCred(c) PROVE TypeOK'
  BY <1>3, Literals DEF DestroyCred, TypeOK
<1>4. ASSUME NEW j \in Jobs, NEW c \in Creds, RequestJob(j, c) PROVE TypeOK'
  BY <1>4, Literals DEF RequestJob, Load, TypeOK
<1>5. ASSUME NEW j \in Jobs, NEW c \in Creds, Login(j, c) PROVE TypeOK'
  BY <1>5, Literals DEF Login, Load, TypeOK
<1>6. ASSUME NEW j \in Jobs, PushJob(j) PROVE TypeOK'
  <2>1. reqState' \in [Jobs -> {"idle", "loaded", "pushed", "done", "died"}]
    BY <1>6 DEF PushJob, TypeOK
  <2>2. low' \in Seq(Jobs)
    BY <1>6 DEF PushJob, TypeOK
  <2> QED
    BY <1>6, <2>1, <2>2 DEF PushJob, TypeOK
<1>7. ASSUME NEW j \in Jobs, CreateRow(j) PROVE TypeOK'
  <2>1. reqState' \in [Jobs -> {"idle", "loaded", "pushed", "done", "died"}]
    BY <1>7 DEF CreateRow, TypeOK
  <2>2. rowStatus' \in [Jobs -> Codes]
    BY <1>7, Literals DEF CreateRow, TypeOK, rowVars
  <2>3. rowVersion' \in [Jobs -> Nat]
    BY <1>7 DEF CreateRow, TypeOK, rowVars
  <2>4. rowFresh' \in [Jobs -> BOOLEAN]
    BY <1>7 DEF CreateRow, TypeOK, rowVars
  <2>5. rowSeq' \in [Jobs -> Nat]
    BY <1>7, NewSeq DEF CreateRow, TypeOK, rowVars
  <2> QED
    BY <1>7, <2>1, <2>2, <2>3, <2>4, <2>5 DEF CreateRow, TypeOK
<1>8. ASSUME NEW j \in Jobs, RequestDies(j) PROVE TypeOK'
  BY <1>8, Literals DEF RequestDies, TypeOK
<1>9. ASSUME NEW j \in Jobs, Age(j) PROVE TypeOK'
  BY <1>9, Literals DEF Age, TypeOK
<1>10. ASSUME NEW j \in Jobs, TakeJob(j) PROVE TypeOK'
  <2>1. pc' \in [Jobs -> Labels]
    BY <1>10, GotoType, Literals DEF TakeJob
  <2>2. low' \in Seq(Jobs)
    BY <1>10 DEF TakeJob, TypeOK
  <2>3. held' \in [Jobs -> Answers]
    BY <1>10 DEF TakeJob, TypeOK
  <2> QED
    BY <1>10, <2>1, <2>2, <2>3 DEF TakeJob, TypeOK
<1>11. ASSUME NEW j \in Jobs, StartDaemon(j) PROVE TypeOK'
  <2>1. pc' \in [Jobs -> Labels]
    BY <1>11, GotoType, Literals DEF StartDaemon
  <2>2. daemon' \in [Jobs -> {"down", "up", "hung"}]
    BY <1>11 DEF StartDaemon, TypeOK
  <2> QED
    BY <1>11, <2>1, <2>2 DEF StartDaemon, TypeOK
<1>12. ASSUME NEW j \in Jobs, StartSync(j) PROVE TypeOK'
  BY <1>12, Literals DEF StartSync, Goto, TypeOK
<1>13. ASSUME NEW j \in Jobs, PollRunning(j) PROVE TypeOK'
  BY <1>13, Literals DEF PollRunning, Goto, TypeOK
<1>14. ASSUME NEW j \in Jobs, PollQuit(j) PROVE TypeOK'
  <2>1. pc' \in [Jobs -> Labels]
    BY <1>14, GotoType, Literals DEF PollQuit
  <2>2. memo' \in [Jobs -> Memos] /\ rowStatus' \in [Jobs -> Codes] /\ rowFresh' \in [Jobs -> BOOLEAN]
    BY <1>14, FailRowType DEF PollQuit, TypeOK, rowVars
  <2>3. rowVersion' = rowVersion /\ rowSeq' = rowSeq
    BY <1>14 DEF PollQuit, FailRow, rowVars
  <2> QED
    BY <1>14, <2>1, <2>2, <2>3 DEF PollQuit, TypeOK
<1>15. ASSUME NEW j \in Jobs, SameStatus(j) PROVE TypeOK'
  BY <1>15, Literals DEF SameStatus, Goto, TypeOK
<1>16. ASSUME NEW j \in Jobs, NewStatus(j) PROVE TypeOK'
  <2>1. pc' \in [Jobs -> Labels]
    BY <1>16, GotoType, Literals DEF NewStatus
  <2>2. memo' \in [Jobs -> Memos]
    BY <1>16, LookType DEF NewStatus, TypeOK
  <2>a. dStatus[j] \in Codes /\ dVersion[j] \in Nat
    BY DEF TypeOK
  <2>b. \/ rowStatus' = rowStatus /\ rowVersion' = rowVersion
        \/ /\ rowStatus' = [rowStatus EXCEPT ![j] = dStatus[j]]
           /\ rowVersion' = [rowVersion EXCEPT ![j] = dVersion[j]]
    BY <1>16 DEF NewStatus, rowVars
  <2>3. rowStatus' \in [Jobs -> Codes]
    BY <2>a, <2>b DEF TypeOK
  <2>4. rowVersion' \in [Jobs -> Nat]
    BY <2>a, <2>b DEF TypeOK
  <2>5. rowFresh' \in [Jobs -> BOOLEAN]
    BY <1>16 DEF NewStatus, TypeOK, rowVars
  <2>6. rowSeq' \in [Jobs -> Nat]
    BY <1>16 DEF NewStatus, TypeOK, rowVars
  <2>7. knownVersion' \in [Jobs -> Nat]
    BY <1>16 DEF NewStatus, KeepStatus, TypeOK
  <2>8. knownStatus' \in [Jobs -> Codes]
    BY <1>16 DEF NewStatus, KeepStatus, TypeOK
  <2>9. knownAsking' \in [Jobs -> BOOLEAN]
    BY <1>16 DEF NewStatus, KeepStatus, TypeOK
  <2> QED
    BY <1>16, <2>1, <2>2, <2>3, <2>4, <2>5, <2>6, <2>7, <2>8,
       <2>9 DEF NewStatus, TypeOK
<1>17. ASSUME NEW j \in Jobs, StatusWithoutCred(j) PROVE TypeOK'
  BY <1>17, Literals DEF StatusWithoutCred, Goto, KeepStatus, Look, TypeOK
<1>18. ASSUME NEW j \in Jobs, GetStatements(j) PROVE TypeOK'
  BY <1>18, Literals DEF GetStatements, Goto, TypeOK
<1>19. ASSUME NEW j \in Jobs, NEW s \in Statements, EnqueueStatement(j, s)
       PROVE  TypeOK'
  <2>1. todo' \in [Jobs -> SUBSET Statements]
    BY <1>19 DEF EnqueueStatement, TypeOK
  <2>2. imports' \in [Jobs -> [Statements -> Nat]]
    BY <1>19 DEF EnqueueStatement, TypeOK
  <2> QED
    BY <1>19, <2>1, <2>2 DEF EnqueueStatement, TypeOK
<1>20. ASSUME NEW j \in Jobs, EnqueuedAll(j) PROVE TypeOK'
  BY <1>20, Literals DEF EnqueuedAll, Goto, TypeOK
<1>21. ASSUME NEW j \in Jobs, KeepWaiting(j) PROVE TypeOK'
  <2>1. pc' \in [Jobs -> Labels]
    BY <1>21, GotoType, Literals DEF KeepWaiting
  <2>2. memo' \in [Jobs -> Memos]
    BY <1>21, LookType DEF KeepWaiting, TypeOK
  <2> QED
    BY <1>21, <2>1, <2>2 DEF KeepWaiting, TypeOK
<1>22. ASSUME NEW j \in Jobs, Resume(j) PROVE TypeOK'
  <2>1. pc' \in [Jobs -> Labels]
    BY <1>22, GotoType, Literals DEF Resume
  <2>2. memo' \in [Jobs -> Memos]
    BY <1>22, LookType DEF Resume, TypeOK
  <2>3. held' \in [Jobs -> Answers]
    BY <1>22 DEF Resume, TypeOK
  <2>4. resumed' \in [Jobs -> Nat]
    BY <1>22 DEF Resume, TypeOK
  <2>5. dAnswers' \in [Jobs -> Answers]
    BY <1>22 DEF Resume, TypeOK
  <2>6. dResumes' \in [Jobs -> Nat]
    BY <1>22 DEF Resume, TypeOK
  <2> QED
    BY <1>22, <2>1, <2>2, <2>3, <2>4, <2>5, <2>6 DEF Resume, TypeOK
<1>23. ASSUME NEW j \in Jobs, ReloadMissing(j) PROVE TypeOK'
  BY <1>23, Literals DEF ReloadMissing, Goto, TypeOK
<1>24. ASSUME NEW j \in Jobs, RequestFails(j) PROVE TypeOK'
  BY <1>24, Literals DEF RequestFails, Goto, TypeOK
<1>25. ASSUME NEW j \in Jobs, Timeout(j) PROVE TypeOK'
  BY <1>25, Literals DEF Timeout, Goto, TypeOK
<1>26. ASSUME NEW j \in Jobs, Stop(j) PROVE TypeOK'
  <2>1. pc' \in [Jobs -> Labels]
    BY <1>26, GotoType, Literals DEF Stop
  <2>2. daemon' \in [Jobs -> {"down", "up", "hung"}]
    BY <1>26 DEF Stop, StopDaemon, TypeOK
  <2> QED
    BY <1>26, <2>1, <2>2 DEF Stop, TypeOK
<1>27. ASSUME NEW j \in Jobs, RescueTimeout(j) PROVE TypeOK'
  <2>1. pc' \in [Jobs -> Labels]
    BY <1>27, GotoType, Literals DEF RescueTimeout
  <2>2. memo' \in [Jobs -> Memos] /\ rowStatus' \in [Jobs -> Codes] /\ rowFresh' \in [Jobs -> BOOLEAN]
    BY <1>27, FailRowType DEF RescueTimeout, TypeOK, rowVars
  <2>3. rowVersion' = rowVersion /\ rowSeq' = rowSeq
    BY <1>27 DEF RescueTimeout, FailRow, rowVars
  <2>4. daemon' \in [Jobs -> {"down", "up", "hung"}]
    BY <1>27 DEF RescueTimeout, StopDaemon, TypeOK
  <2> QED
    BY <1>27, <2>1, <2>2, <2>3, <2>4 DEF RescueTimeout, TypeOK
<1>28. ASSUME NEW j \in Jobs, RescueObject(j) PROVE TypeOK'
  <2>1. pc' \in [Jobs -> Labels]
    BY <1>28, GotoType, Literals DEF RescueObject
  <2>2. memo' \in [Jobs -> Memos] /\ rowStatus' \in [Jobs -> Codes] /\ rowFresh' \in [Jobs -> BOOLEAN]
    BY <1>28, FailRowType DEF RescueObject, TypeOK, rowVars
  <2>3. rowVersion' = rowVersion /\ rowSeq' = rowSeq
    BY <1>28 DEF RescueObject, FailRow, rowVars
  <2>4. daemon' \in [Jobs -> {"down", "up", "hung"}]
    BY <1>28 DEF RescueObject, StopDaemon, TypeOK
  <2> QED
    BY <1>28, <2>1, <2>2, <2>3, <2>4 DEF RescueObject, TypeOK
<1>29. ASSUME NEW j \in Jobs, Kill(j) PROVE TypeOK'
  BY <1>29, Literals DEF Kill, Goto, TypeOK
<1>30. ASSUME NEW j \in Jobs, NEW b \in BOOLEAN, DaemonAdvance(j, b)
       PROVE  TypeOK'
  <2>1. dVersion' \in [Jobs -> Nat]
    BY <1>30 DEF DaemonAdvance, TypeOK
  <2>2. dAsking' \in [Jobs -> BOOLEAN]
    BY <1>30 DEF DaemonAdvance, TypeOK
  <2>3. dResumes' \in [Jobs -> Nat]
    BY <1>30 DEF DaemonAdvance, TypeOK
  <2> QED
    BY <1>30, <2>1, <2>2, <2>3 DEF DaemonAdvance, TypeOK
<1>31. ASSUME NEW j \in Jobs, NEW s \in Statements, DaemonDownload(j, s)
       PROVE  TypeOK'
  BY <1>31, Literals DEF DaemonDownload, TypeOK
<1>32. ASSUME NEW j \in Jobs, NEW o \in Outcomes, DaemonFinish(j, o)
       PROVE  TypeOK'
  BY <1>32, Literals DEF DaemonFinish, TypeOK
<1>33. ASSUME NEW j \in Jobs, DaemonDies(j) PROVE TypeOK'
  BY <1>33, Literals DEF DaemonDies, TypeOK
<1>34. ASSUME NEW j \in Jobs, DaemonHangs(j) PROVE TypeOK'
  BY <1>34, Literals DEF DaemonHangs, TypeOK
<1>35. CASE UNCHANGED vars
  BY <1>35 DEF vars, TypeOK
<1>36. QED
  BY <1>1, <1>2, <1>3, <1>4, <1>5, <1>6, <1>7, <1>8, <1>9, <1>10, <1>11,
     <1>12, <1>13, <1>14, <1>15, <1>16, <1>17, <1>18, <1>19, <1>20, <1>21,
     <1>22, <1>23, <1>24, <1>25, <1>26, <1>27, <1>28, <1>29, <1>30, <1>31,
     <1>32, <1>33, <1>34, <1>35
  DEF Next, Web, Perform, DaemonStep

----------------------------------------------------------------------------
(* What the parts of the invariant need to know of a step *)

(* The web application does not touch a worker or a daemon, nor a daemon     *)
(* anything but itself; the answers it has come from the worker.            *)
LEMMA WebLeaves == ASSUME Web PROVE UNCHANGED <<workerVars, daemonVars>>
  BY DEF Web, CreateCred, UpdateCred, DestroyCred, RequestJob, Login, Load,
         PushJob, CreateRow, RequestDies, Age

LEMMA DaemonLeaves ==
  ASSUME NEW j \in Jobs, DaemonStep(j)
  PROVE  UNCHANGED <<webVars, rowVars, workerVars, dAnswers>>
  BY DEF DaemonStep, DaemonAdvance, DaemonDownload, DaemonFinish, DaemonDies,
     DaemonHangs

(* A job at the head of the queue has not been taken before.                *)
LEMMA TakenJob ==
  ASSUME IInv, NEW j \in Jobs, TakeJob(j)
  PROVE  pc[j] = "off" /\ reqState[j] \notin {"idle", "loaded"}
<1>1. low \in Seq(Jobs) /\ low # << >>
  BY DEF IInv, TypeOK, TakeJob
<1>2. 1 \in 1..Len(low) /\ Head(low) = low[1]
  BY <1>1
<1>3. QED BY <1>2 DEF IInv, QueueInv, TakeJob

(* The row after a step that may fail it, or report to it.                  *)
LEMMA FailRowCases ==
  ASSUME TypeOK, NEW j \in Jobs, FailRow(j)
  PROVE  /\ rowVersion' = rowVersion
         /\ \/ ~(Found(j) /\ CredFound(j)) /\ rowStatus' = rowStatus
            \/ Found(j) /\ CredFound(j) /\ rowStatus' = [rowStatus EXCEPT ![j] = GeneralError]
  BY DEF FailRow

(* The two ways status= leaves the row.                                     *)
LEMMA NewStatusCases ==
  ASSUME NEW j \in Jobs, NewStatus(j)
  PROVE  \/ ~Found(j) /\ rowStatus' = rowStatus /\ rowVersion' = rowVersion
         \/ /\ Found(j) /\ CredFound(j)
            /\ rowStatus' = [rowStatus EXCEPT ![j] = dStatus[j]]
            /\ rowVersion' = [rowVersion EXCEPT ![j] = dVersion[j]]
  BY DEF NewStatus, rowVars

----------------------------------------------------------------------------
(* The parts of the invariant *)

(* The order of events: load, push, row, lookup.                            *)
LEMMA RequestStep ==
  ASSUME IInv, [Next]_vars, NEW k \in Jobs PROVE RequestInv(k)'
<1>t. /\ credState \in [Creds -> {"none", "stored", "destroyed"}]
      /\ reqState \in [Jobs -> {"idle", "loaded", "pushed", "done", "died"}]
      /\ reqCred \in [Jobs -> Creds]
      /\ pc \in [Jobs -> Labels]
      /\ rowStatus \in [Jobs -> Codes]
      /\ memo \in [Jobs -> Memos]
  BY DEF IInv, TypeOK
<1>i. \A j \in Jobs : RequestInv(j) /\ VersionInv(j)
  BY DEF IInv
<1>1. ASSUME NEW c \in Creds, NEW a \in Answers, CreateCred(c, a)
      PROVE  RequestInv(k)'
  BY <1>1, <1>t, <1>i DEF CreateCred, RequestInv, Present, Stored, VersionInv
<1>2. ASSUME NEW c \in Creds, NEW a \in Answers, UpdateCred(c, a)
      PROVE  RequestInv(k)'
  BY <1>2, <1>i DEF UpdateCred, RequestInv, Present, Stored
<1>3. ASSUME NEW c \in Creds, DestroyCred(c) PROVE RequestInv(k)'
  BY <1>3, <1>t, <1>i DEF DestroyCred, RequestInv, Present, Stored, VersionInv
<1>4. ASSUME NEW j \in Jobs, NEW c \in Creds, RequestJob(j, c)
      PROVE  RequestInv(k)'
  BY <1>4, <1>t, <1>i DEF RequestJob, Load, RequestInv, Present, Stored,
     VersionInv
<1>5. ASSUME NEW j \in Jobs, NEW c \in Creds, Login(j, c) PROVE RequestInv(k)'
  BY <1>5, <1>t, <1>i DEF Login, Load, RequestInv, Present, Stored, VersionInv
<1>6. ASSUME NEW j \in Jobs, PushJob(j) PROVE RequestInv(k)'
  BY <1>6, <1>t, <1>i DEF PushJob, RequestInv, Present, Stored, VersionInv
<1>7. ASSUME NEW j \in Jobs, CreateRow(j) PROVE RequestInv(k)'
  BY <1>7, <1>t, <1>i DEF CreateRow, RequestInv, Present, Stored, VersionInv
<1>8. ASSUME NEW j \in Jobs, RequestDies(j) PROVE RequestInv(k)'
  BY <1>8, <1>t, <1>i DEF RequestDies, RequestInv, Present, Stored, VersionInv
<1>9. ASSUME NEW j \in Jobs, Age(j) PROVE RequestInv(k)'
  BY <1>9, <1>i DEF Age, RequestInv, Present, Stored
<1>10. ASSUME NEW j \in Jobs, TakeJob(j) PROVE RequestInv(k)'
  <2>1. pc[j] = "off" /\ reqState[j] \notin {"idle", "loaded"}
    BY <1>10, TakenJob
  <2>2. QED
    BY <1>10, <1>t, <1>i, <2>1 DEF TakeJob, Goto, RequestInv, Present, Stored,
       VersionInv
<1>11. ASSUME NEW j \in Jobs, StartDaemon(j) PROVE RequestInv(k)'
  BY <1>11, <1>t, <1>i DEF StartDaemon, Goto, RequestInv, Present, Stored,
     VersionInv
<1>12. ASSUME NEW j \in Jobs, StartSync(j) PROVE RequestInv(k)'
  BY <1>12, <1>t, <1>i DEF StartSync, Goto, RequestInv, Present, Stored,
     VersionInv
<1>13. ASSUME NEW j \in Jobs, PollRunning(j) PROVE RequestInv(k)'
  BY <1>13, <1>t, <1>i DEF PollRunning, Goto, RequestInv, Present, Stored,
     VersionInv
<1>14. ASSUME NEW j \in Jobs, PollQuit(j) PROVE RequestInv(k)'
  BY <1>14, <1>t, <1>i DEF PollQuit, Goto, FailRow, Look, Found, CredFound,
     Stored, RequestInv, Present, VersionInv
<1>15. ASSUME NEW j \in Jobs, SameStatus(j) PROVE RequestInv(k)'
  BY <1>15, <1>t, <1>i DEF SameStatus, Goto, RequestInv, Present, Stored,
     VersionInv
<1>16. ASSUME NEW j \in Jobs, NewStatus(j) PROVE RequestInv(k)'
  <2>1. pc[j] = "status" /\ Goto(j, "list") /\ Look(j) /\ (Found(j) => CredFound(j))
    BY <1>16 DEF NewStatus
  <2>2. UNCHANGED <<credState, reqState, reqCred>>
    BY <1>16 DEF NewStatus, webVars, credVars, reqVars
  <2>3. \/ rowStatus' = rowStatus
        \/ Present(j) /\ rowStatus' = [rowStatus EXCEPT ![j] = dStatus[j]]
    BY <1>16, <1>i, NewStatusCases DEF Found, RequestInv
  <2>4. dStatus[j] # Absent
    BY <1>i, OutcomesAssumption DEF VersionInv
  <2>5. QED
    BY <1>t, <1>i, <2>1, <2>2, <2>3, <2>4
    DEF RequestInv, Present, Stored, Look, Found, CredFound, Goto
<1>17. ASSUME NEW j \in Jobs, StatusWithoutCred(j) PROVE RequestInv(k)'
  BY <1>17, <1>t, <1>i DEF StatusWithoutCred, Goto, KeepStatus, Look, Found,
     CredFound, Stored, RequestInv, Present, VersionInv
<1>18. ASSUME NEW j \in Jobs, GetStatements(j) PROVE RequestInv(k)'
  BY <1>18, <1>t, <1>i DEF GetStatements, Goto, RequestInv, Present, Stored,
     VersionInv
<1>19. ASSUME NEW j \in Jobs, NEW s \in Statements, EnqueueStatement(j, s)
       PROVE  RequestInv(k)'
  BY <1>19, <1>i DEF EnqueueStatement, RequestInv, Present, Stored
<1>20. ASSUME NEW j \in Jobs, EnqueuedAll(j) PROVE RequestInv(k)'
  BY <1>20, <1>t, <1>i DEF EnqueuedAll, Goto, RequestInv, Present, Stored,
     VersionInv
<1>21. ASSUME NEW j \in Jobs, KeepWaiting(j) PROVE RequestInv(k)'
  BY <1>21, <1>t, <1>i DEF KeepWaiting, Goto, Look, Found, CredFound, Stored,
     RequestInv, Present, VersionInv
<1>22. ASSUME NEW j \in Jobs, Resume(j) PROVE RequestInv(k)'
  BY <1>22, <1>t, <1>i DEF Resume, Goto, Look, Found, CredFound, Stored,
     RequestInv, Present, VersionInv
<1>23. ASSUME NEW j \in Jobs, ReloadMissing(j) PROVE RequestInv(k)'
  BY <1>23, <1>t, <1>i DEF ReloadMissing, Goto, Found, CredFound, Stored,
     ChecksCreds, RequestInv, Present, VersionInv
<1>24. ASSUME NEW j \in Jobs, RequestFails(j) PROVE RequestInv(k)'
  BY <1>24, <1>t, <1>i DEF RequestFails, Goto, Requesting, RequestInv,
     Present, Stored, VersionInv
<1>25. ASSUME NEW j \in Jobs, Timeout(j) PROVE RequestInv(k)'
  BY <1>25, <1>t, <1>i DEF Timeout, Goto, InLoop, RequestInv, Present, Stored,
     VersionInv
<1>26. ASSUME NEW j \in Jobs, Stop(j) PROVE RequestInv(k)'
  BY <1>26, <1>t, <1>i DEF Stop, Goto, StopDaemon, RequestInv, Present,
     Stored, VersionInv
<1>27. ASSUME NEW j \in Jobs, RescueTimeout(j) PROVE RequestInv(k)'
  BY <1>27, <1>t, <1>i DEF RescueTimeout, Goto, FailRow, StopDaemon, Look,
     Found, CredFound, Stored, RequestInv, Present, VersionInv
<1>28. ASSUME NEW j \in Jobs, RescueObject(j) PROVE RequestInv(k)'
  BY <1>28, <1>t, <1>i DEF RescueObject, Goto, FailRow, StopDaemon, Look,
     Found, CredFound, Stored, RequestInv, Present, VersionInv
<1>29. ASSUME NEW j \in Jobs, Kill(j) PROVE RequestInv(k)'
  BY <1>29, <1>t, <1>i DEF Kill, Goto, Active, InLoop, RequestInv, Present,
     Stored, VersionInv
<1>30. ASSUME NEW j \in Jobs, DaemonStep(j) PROVE RequestInv(k)'
  BY <1>30, <1>i, DaemonLeaves DEF RequestInv, Present, Stored
<1>31. CASE UNCHANGED vars
  BY <1>31, <1>i DEF vars, RequestInv, Present, Stored
<1>32. QED
  BY <1>1, <1>2, <1>3, <1>4, <1>5, <1>6, <1>7, <1>8, <1>9, <1>10, <1>11,
     <1>12, <1>13, <1>14, <1>15, <1>16, <1>17, <1>18, <1>19, <1>20, <1>21,
     <1>22, <1>23, <1>24, <1>25, <1>26, <1>27, <1>28, <1>29, <1>30,
     <1>31 DEF Next, Web, Perform, DaemonStep

(* Only a request that was loaded pushes its guid, and TakeJob removes it.  *)
LEMMA QueueStep ==
  ASSUME IInv, [Next]_vars PROVE QueueInv'
<1>t. /\ low \in Seq(Jobs)
      /\ reqState \in [Jobs -> {"idle", "loaded", "pushed", "done", "died"}]
      /\ pc \in [Jobs -> Labels]
  BY DEF IInv, TypeOK
<1>e. \A i \in 1..Len(low) : low[i] \in Jobs
  BY <1>t
<1>i. QueueInv /\ \A j \in Jobs : RequestInv(j)
  BY DEF IInv
<1>1. ASSUME NEW c \in Creds, NEW a \in Answers, CreateCred(c, a)
      PROVE  QueueInv'
  BY <1>1, <1>t, <1>e, <1>i DEF CreateCred, QueueInv
<1>2. ASSUME NEW c \in Creds, NEW a \in Answers, UpdateCred(c, a)
      PROVE  QueueInv'
  BY <1>2, <1>t, <1>e, <1>i DEF UpdateCred, QueueInv
<1>3. ASSUME NEW c \in Creds, DestroyCred(c) PROVE QueueInv'
  BY <1>3, <1>t, <1>e, <1>i DEF DestroyCred, QueueInv
<1>4. ASSUME NEW j \in Jobs, NEW c \in Creds, RequestJob(j, c) PROVE QueueInv'
  BY <1>4, <1>t, <1>e, <1>i DEF RequestJob, Load, QueueInv
<1>5. ASSUME NEW j \in Jobs, NEW c \in Creds, Login(j, c) PROVE QueueInv'
  BY <1>5, <1>t, <1>e, <1>i DEF Login, Load, QueueInv
<1>6. ASSUME NEW j \in Jobs, PushJob(j) PROVE QueueInv'
  <2>1. /\ reqState[j] = "loaded" /\ pc[j] = "off" /\ pc' = pc
        /\ reqState' = [reqState EXCEPT ![j] = "pushed"]
        /\ low' = Append(low, j)
    BY <1>6, <1>i DEF PushJob, RequestInv, workerVars
  <2>2. /\ Len(low) \in Nat /\ Len(low') = Len(low) + 1
        /\ low'[Len(low) + 1] = j
        /\ \A m \in 1..Len(low) : low'[m] = low[m]
    BY <1>t, <2>1
  <2>3. \A m \in 1..Len(low) : low[m] # j
    BY <1>i, <2>1 DEF QueueInv
  <2>4. \A m \in 1..Len(low') : m \in 1..Len(low) \/ m = Len(low) + 1
    BY <2>2
  <2>5. \A m \in 1..Len(low') : /\ reqState'[low'[m]] \notin {"idle", "loaded"}
                                 /\ pc'[low'[m]] = "off"
    <3>1. ASSUME NEW m \in 1..Len(low)
          PROVE  reqState'[low'[m]] \notin {"idle", "loaded"} /\ pc'[low'[m]] = "off"
      BY <1>t, <1>e, <1>i, <2>1, <2>2, <2>3 DEF QueueInv
    <3>2. QED
      BY <1>t, <2>1, <2>2, <2>4, <3>1
  <2>6. ASSUME NEW m \in 1..Len(low'), NEW n \in 1..Len(low'),
     low'[m] = low'[n]
        PROVE  m = n
    BY <1>i, <2>2, <2>3, <2>4, <2>6 DEF QueueInv
  <2>7. QED
    BY <2>5, <2>6 DEF QueueInv
<1>7. ASSUME NEW j \in Jobs, CreateRow(j) PROVE QueueInv'
  BY <1>7, <1>t, <1>e, <1>i DEF CreateRow, QueueInv
<1>8. ASSUME NEW j \in Jobs, RequestDies(j) PROVE QueueInv'
  BY <1>8, <1>t, <1>e, <1>i DEF RequestDies, QueueInv
<1>9. ASSUME NEW j \in Jobs, Age(j) PROVE QueueInv'
  BY <1>9, <1>t, <1>e, <1>i DEF Age, QueueInv
<1>10. ASSUME NEW j \in Jobs, TakeJob(j) PROVE QueueInv'
  <2>1. /\ low # << >> /\ j = Head(low) /\ low' = Tail(low)
        /\ reqState' = reqState /\ pc' = [pc EXCEPT ![j] = "start"]
    BY <1>10 DEF TakeJob, Goto, reqVars
  <2>2. /\ Len(low) \in Nat \ {0} /\ Len(low') = Len(low) - 1 /\ low[1] = j
        /\ \A m \in 1..Len(low') : low'[m] = low[m + 1] /\ m + 1 \in 1..Len(low)
    BY <1>t, <2>1
  <2>3. \A m \in 1..Len(low') : low'[m] # j
    BY <1>i, <2>2 DEF QueueInv
  <2>4. QED
    BY <1>t, <1>e, <1>i, <2>1, <2>2, <2>3 DEF QueueInv
<1>11. ASSUME NEW j \in Jobs, StartDaemon(j) PROVE QueueInv'
  BY <1>11, <1>t, <1>e, <1>i DEF StartDaemon, Goto, QueueInv
<1>12. ASSUME NEW j \in Jobs, StartSync(j) PROVE QueueInv'
  BY <1>12, <1>t, <1>e, <1>i DEF StartSync, Goto, QueueInv
<1>13. ASSUME NEW j \in Jobs, PollRunning(j) PROVE QueueInv'
  BY <1>13, <1>t, <1>e, <1>i DEF PollRunning, Goto, QueueInv
<1>14. ASSUME NEW j \in Jobs, PollQuit(j) PROVE QueueInv'
  BY <1>14, <1>t, <1>e, <1>i DEF PollQuit, Goto, QueueInv
<1>15. ASSUME NEW j \in Jobs, SameStatus(j) PROVE QueueInv'
  BY <1>15, <1>t, <1>e, <1>i DEF SameStatus, Goto, QueueInv
<1>16. ASSUME NEW j \in Jobs, NewStatus(j) PROVE QueueInv'
  BY <1>16, <1>t, <1>e, <1>i DEF NewStatus, Goto, KeepStatus, QueueInv
<1>17. ASSUME NEW j \in Jobs, StatusWithoutCred(j) PROVE QueueInv'
  BY <1>17, <1>t, <1>e, <1>i DEF StatusWithoutCred, Goto, KeepStatus, QueueInv
<1>18. ASSUME NEW j \in Jobs, GetStatements(j) PROVE QueueInv'
  BY <1>18, <1>t, <1>e, <1>i DEF GetStatements, Goto, QueueInv
<1>19. ASSUME NEW j \in Jobs, NEW s \in Statements, EnqueueStatement(j, s)
       PROVE  QueueInv'
  BY <1>19, <1>t, <1>e, <1>i DEF EnqueueStatement, QueueInv
<1>20. ASSUME NEW j \in Jobs, EnqueuedAll(j) PROVE QueueInv'
  BY <1>20, <1>t, <1>e, <1>i DEF EnqueuedAll, Goto, QueueInv
<1>21. ASSUME NEW j \in Jobs, KeepWaiting(j) PROVE QueueInv'
  BY <1>21, <1>t, <1>e, <1>i DEF KeepWaiting, Goto, QueueInv
<1>22. ASSUME NEW j \in Jobs, Resume(j) PROVE QueueInv'
  BY <1>22, <1>t, <1>e, <1>i DEF Resume, Goto, QueueInv
<1>23. ASSUME NEW j \in Jobs, ReloadMissing(j) PROVE QueueInv'
  BY <1>23, <1>t, <1>e, <1>i DEF ReloadMissing, Goto, QueueInv
<1>24. ASSUME NEW j \in Jobs, RequestFails(j) PROVE QueueInv'
  BY <1>24, <1>t, <1>e, <1>i DEF RequestFails, Goto, Requesting, QueueInv
<1>25. ASSUME NEW j \in Jobs, Timeout(j) PROVE QueueInv'
  BY <1>25, <1>t, <1>e, <1>i DEF Timeout, Goto, InLoop, QueueInv
<1>26. ASSUME NEW j \in Jobs, Stop(j) PROVE QueueInv'
  BY <1>26, <1>t, <1>e, <1>i DEF Stop, Goto, StopDaemon, QueueInv
<1>27. ASSUME NEW j \in Jobs, RescueTimeout(j) PROVE QueueInv'
  BY <1>27, <1>t, <1>e, <1>i DEF RescueTimeout, Goto, StopDaemon, QueueInv
<1>28. ASSUME NEW j \in Jobs, RescueObject(j) PROVE QueueInv'
  BY <1>28, <1>t, <1>e, <1>i DEF RescueObject, Goto, StopDaemon, QueueInv
<1>29. ASSUME NEW j \in Jobs, Kill(j) PROVE QueueInv'
  BY <1>29, <1>t, <1>e, <1>i DEF Kill, Goto, Active, InLoop, QueueInv
<1>30. ASSUME NEW j \in Jobs, NEW b \in BOOLEAN, DaemonAdvance(j, b)
       PROVE  QueueInv'
  BY <1>30, <1>t, <1>e, <1>i DEF DaemonAdvance, QueueInv
<1>31. ASSUME NEW j \in Jobs, NEW s \in Statements, DaemonDownload(j, s)
       PROVE  QueueInv'
  BY <1>31, <1>t, <1>e, <1>i DEF DaemonDownload, QueueInv
<1>32. ASSUME NEW j \in Jobs, NEW o \in Outcomes, DaemonFinish(j, o)
       PROVE  QueueInv'
  BY <1>32, <1>t, <1>e, <1>i DEF DaemonFinish, QueueInv
<1>33. ASSUME NEW j \in Jobs, DaemonDies(j) PROVE QueueInv'
  BY <1>33, <1>t, <1>e, <1>i DEF DaemonDies, QueueInv
<1>34. ASSUME NEW j \in Jobs, DaemonHangs(j) PROVE QueueInv'
  BY <1>34, <1>t, <1>e, <1>i DEF DaemonHangs, QueueInv
<1>35. CASE UNCHANGED vars
  BY <1>35, <1>i DEF vars, QueueInv
<1>36. QED
  BY <1>1, <1>2, <1>3, <1>4, <1>5, <1>6, <1>7, <1>8, <1>9, <1>10, <1>11,
     <1>12, <1>13, <1>14, <1>15, <1>16, <1>17, <1>18, <1>19, <1>20, <1>21,
     <1>22, <1>23, <1>24, <1>25, <1>26, <1>27, <1>28, <1>29, <1>30, <1>31,
     <1>32, <1>33, <1>34, <1>35 DEF Next, Web, Perform, DaemonStep

(* GetStatements moves the ledger on as a whole, EnqueueStatement one by    *)
(* one; nothing else touches it.                                            *)
LEMMA LedgerStep ==
  ASSUME IInv, [Next]_vars, NEW k \in Jobs PROVE LedgerInv(k)'
<1>t. /\ pc \in [Jobs -> Labels]
      /\ seen \in [Jobs -> SUBSET Statements]
      /\ todo \in [Jobs -> SUBSET Statements]
      /\ imports \in [Jobs -> [Statements -> Nat]]
      /\ dListed \in [Jobs -> SUBSET Statements]
  BY DEF IInv, TypeOK
<1>i. \A j \in Jobs : LedgerInv(j)
  BY DEF IInv
<1>1. CASE Web
  BY <1>1, <1>i, WebLeaves DEF LedgerInv, Waiting
<1>2. ASSUME NEW j \in Jobs, TakeJob(j) PROVE LedgerInv(k)'
  <2>1. pc[j] = "off" /\ reqState[j] \notin {"idle", "loaded"}
    BY <1>2, TakenJob
  <2>2. QED
    BY <1>2, <1>t, <1>i, <2>1 DEF TakeJob, Goto, LedgerInv, Waiting
<1>3. ASSUME NEW j \in Jobs, StartDaemon(j) PROVE LedgerInv(k)'
  BY <1>3, <1>t, <1>i DEF StartDaemon, Goto, LedgerInv, Waiting
<1>4. ASSUME NEW j \in Jobs, StartSync(j) PROVE LedgerInv(k)'
  BY <1>4, <1>t, <1>i DEF StartSync, Goto, LedgerInv, Waiting
<1>5. ASSUME NEW j \in Jobs, PollRunning(j) PROVE LedgerInv(k)'
  BY <1>5, <1>t, <1>i DEF PollRunning, Goto, LedgerInv, Waiting
<1>6. ASSUME NEW j \in Jobs, PollQuit(j) PROVE LedgerInv(k)'
  BY <1>6, <1>t, <1>i DEF PollQuit, Goto, FailRow, Look, LedgerInv, Waiting
<1>7. ASSUME NEW j \in Jobs, SameStatus(j) PROVE LedgerInv(k)'
  BY <1>7, <1>t, <1>i DEF SameStatus, Goto, LedgerInv, Waiting
<1>8. ASSUME NEW j \in Jobs, NewStatus(j) PROVE LedgerInv(k)'
  BY <1>8, <1>t, <1>i DEF NewStatus, Goto, KeepStatus, Look, LedgerInv, Waiting
<1>9. ASSUME NEW j \in Jobs, StatusWithoutCred(j) PROVE LedgerInv(k)'
  BY <1>9, <1>t, <1>i DEF StatusWithoutCred, Goto, KeepStatus, Look,
     LedgerInv, Waiting
<1>10. ASSUME NEW j \in Jobs, GetStatements(j) PROVE LedgerInv(k)'
  BY <1>10, <1>t, <1>i DEF GetStatements, Goto, LedgerInv, Waiting
<1>11. ASSUME NEW j \in Jobs, NEW s \in Statements, EnqueueStatement(j, s)
       PROVE  LedgerInv(k)'
  BY <1>11, <1>t, <1>i DEF EnqueueStatement, LedgerInv, Waiting
<1>12. ASSUME NEW j \in Jobs, EnqueuedAll(j) PROVE LedgerInv(k)'
  BY <1>12, <1>t, <1>i DEF EnqueuedAll, Goto, LedgerInv, Waiting
<1>13. ASSUME NEW j \in Jobs, KeepWaiting(j) PROVE LedgerInv(k)'
  BY <1>13, <1>t, <1>i DEF KeepWaiting, Goto, Look, LedgerInv, Waiting
<1>14. ASSUME NEW j \in Jobs, Resume(j) PROVE LedgerInv(k)'
  BY <1>14, <1>t, <1>i DEF Resume, Goto, Look, LedgerInv, Waiting
<1>15. ASSUME NEW j \in Jobs, ReloadMissing(j) PROVE LedgerInv(k)'
  BY <1>15, <1>t, <1>i DEF ReloadMissing, Goto, LedgerInv, Waiting
<1>16. ASSUME NEW j \in Jobs, RequestFails(j) PROVE LedgerInv(k)'
  BY <1>16, <1>t, <1>i DEF RequestFails, Goto, LedgerInv, Waiting
<1>17. ASSUME NEW j \in Jobs, Timeout(j) PROVE LedgerInv(k)'
  BY <1>17, <1>t, <1>i DEF Timeout, Goto, InLoop, LedgerInv, Waiting
<1>18. ASSUME NEW j \in Jobs, Stop(j) PROVE LedgerInv(k)'
  BY <1>18, <1>t, <1>i DEF Stop, Goto, StopDaemon, LedgerInv, Waiting
<1>19. ASSUME NEW j \in Jobs, RescueTimeout(j) PROVE LedgerInv(k)'
  BY <1>19, <1>t, <1>i DEF RescueTimeout, Goto, FailRow, StopDaemon, Look,
     LedgerInv, Waiting
<1>20. ASSUME NEW j \in Jobs, RescueObject(j) PROVE LedgerInv(k)'
  BY <1>20, <1>t, <1>i DEF RescueObject, Goto, FailRow, StopDaemon, Look,
     LedgerInv, Waiting
<1>21. ASSUME NEW j \in Jobs, Kill(j) PROVE LedgerInv(k)'
  BY <1>21, <1>t, <1>i DEF Kill, Goto, Active, LedgerInv, Waiting
<1>22. ASSUME NEW j \in Jobs, NEW b \in BOOLEAN, DaemonAdvance(j, b)
       PROVE  LedgerInv(k)'
  BY <1>22, <1>i DEF DaemonAdvance, LedgerInv, Waiting
<1>23. ASSUME NEW j \in Jobs, NEW s \in Statements, DaemonDownload(j, s)
       PROVE  LedgerInv(k)'
  BY <1>23, <1>t, <1>i DEF DaemonDownload, LedgerInv, Waiting
<1>24. ASSUME NEW j \in Jobs, NEW o \in Outcomes, DaemonFinish(j, o)
       PROVE  LedgerInv(k)'
  BY <1>24, <1>i DEF DaemonFinish, LedgerInv, Waiting
<1>25. ASSUME NEW j \in Jobs, DaemonDies(j) PROVE LedgerInv(k)'
  BY <1>25, <1>i DEF DaemonDies, LedgerInv, Waiting
<1>26. ASSUME NEW j \in Jobs, DaemonHangs(j) PROVE LedgerInv(k)'
  BY <1>26, <1>i DEF DaemonHangs, LedgerInv, Waiting
<1>27. CASE UNCHANGED vars
  BY <1>27, <1>i DEF vars, LedgerInv, Waiting
<1>28. QED
  BY <1>1, <1>2, <1>3, <1>4, <1>5, <1>6, <1>7, <1>8, <1>9, <1>10, <1>11,
     <1>12, <1>13, <1>14, <1>15, <1>16, <1>17, <1>18, <1>19, <1>20, <1>21,
     <1>22, <1>23, <1>24, <1>25, <1>26, <1>27 DEF Next, Web, Perform,
     DaemonStep

(* The daemon counts up, status= only takes what is newer.                  *)
LEMMA VersionStep ==
  ASSUME IInv, [Next]_vars, NEW k \in Jobs PROVE VersionInv(k)'
<1>t. /\ pc \in [Jobs -> Labels]
      /\ rowStatus \in [Jobs -> Codes]
      /\ rowVersion \in [Jobs -> Nat]
      /\ knownVersion \in [Jobs -> Nat]
      /\ dVersion \in [Jobs -> Nat]
      /\ dStatus \in [Jobs -> Codes]
  BY DEF IInv, TypeOK
<1>i. \A j \in Jobs : VersionInv(j) /\ RequestInv(j)
  BY DEF IInv
<1>1. ASSUME NEW c \in Creds, NEW a \in Answers, CreateCred(c, a)
      PROVE  VersionInv(k)'
  BY <1>1, <1>i DEF CreateCred, VersionInv, Present
<1>2. ASSUME NEW c \in Creds, NEW a \in Answers, UpdateCred(c, a)
      PROVE  VersionInv(k)'
  BY <1>2, <1>i DEF UpdateCred, VersionInv, Present
<1>3. ASSUME NEW c \in Creds, DestroyCred(c) PROVE VersionInv(k)'
  BY <1>3, <1>i DEF DestroyCred, VersionInv, Present
<1>4. ASSUME NEW j \in Jobs, NEW c \in Creds, RequestJob(j, c)
      PROVE  VersionInv(k)'
  BY <1>4, <1>i DEF RequestJob, Load, VersionInv, Present
<1>5. ASSUME NEW j \in Jobs, NEW c \in Creds, Login(j, c) PROVE VersionInv(k)'
  BY <1>5, <1>i DEF Login, Load, VersionInv, Present
<1>6. ASSUME NEW j \in Jobs, PushJob(j) PROVE VersionInv(k)'
  BY <1>6, <1>i DEF PushJob, VersionInv, Present
<1>7. ASSUME NEW j \in Jobs, CreateRow(j) PROVE VersionInv(k)'
  BY <1>7, <1>t, <1>i DEF CreateRow, VersionInv, Present, RequestInv
<1>8. ASSUME NEW j \in Jobs, RequestDies(j) PROVE VersionInv(k)'
  BY <1>8, <1>i DEF RequestDies, VersionInv, Present
<1>9. ASSUME NEW j \in Jobs, Age(j) PROVE VersionInv(k)'
  BY <1>9, <1>i DEF Age, VersionInv, Present
<1>10. ASSUME NEW j \in Jobs, TakeJob(j) PROVE VersionInv(k)'
  <2>1. pc[j] = "off" /\ reqState[j] \notin {"idle", "loaded"}
    BY <1>10, TakenJob
  <2>2. QED
    BY <1>10, <1>t, <1>i, <2>1 DEF TakeJob, Goto, VersionInv, Present,
       RequestInv
<1>11. ASSUME NEW j \in Jobs, StartDaemon(j) PROVE VersionInv(k)'
  BY <1>11, <1>t, <1>i DEF StartDaemon, Goto, VersionInv, Present, RequestInv
<1>12. ASSUME NEW j \in Jobs, StartSync(j) PROVE VersionInv(k)'
  BY <1>12, <1>t, <1>i DEF StartSync, Goto, VersionInv, Present, RequestInv
<1>13. ASSUME NEW j \in Jobs, PollRunning(j) PROVE VersionInv(k)'
  BY <1>13, <1>t, <1>i DEF PollRunning, Goto, VersionInv, Present, RequestInv
<1>14. ASSUME NEW j \in Jobs, PollQuit(j) PROVE VersionInv(k)'
  BY <1>14, <1>t, <1>i DEF PollQuit, Goto, FailRow, Look, Found, VersionInv,
     Present, RequestInv
<1>15. ASSUME NEW j \in Jobs, SameStatus(j) PROVE VersionInv(k)'
  BY <1>15, <1>t, <1>i DEF SameStatus, Goto, VersionInv, Present, RequestInv
<1>16. ASSUME NEW j \in Jobs, NewStatus(j) PROVE VersionInv(k)'
  <2>1. KeepStatus(j) /\ NewerStatus(j) /\ pc[j] = "status" /\ Goto(j, "list")
    BY <1>16 DEF NewStatus
  <2>2. UNCHANGED <<dVersion, dStatus>>
    BY <1>16 DEF NewStatus, daemonVars, siteVars
  <2>3. \/ rowStatus' = rowStatus /\ rowVersion' = rowVersion
        \/ /\ Present(j)
           /\ rowStatus' = [rowStatus EXCEPT ![j] = dStatus[j]]
           /\ rowVersion' = [rowVersion EXCEPT ![j] = dVersion[j]]
    BY <1>16, <1>i, NewStatusCases DEF Found, RequestInv
  <2>4. QED
    BY <1>t, <1>i, <2>1, <2>2, <2>3, OutcomesAssumption
    DEF VersionInv, Present, KeepStatus, NewerStatus, Goto
<1>17. ASSUME NEW j \in Jobs, StatusWithoutCred(j) PROVE VersionInv(k)'
  BY <1>17, <1>t, <1>i DEF StatusWithoutCred, Goto, KeepStatus, Look,
     NewerStatus, VersionInv, Present, RequestInv
<1>18. ASSUME NEW j \in Jobs, GetStatements(j) PROVE VersionInv(k)'
  BY <1>18, <1>t, <1>i DEF GetStatements, Goto, VersionInv, Present, RequestInv
<1>19. ASSUME NEW j \in Jobs, NEW s \in Statements, EnqueueStatement(j, s)
       PROVE  VersionInv(k)'
  BY <1>19, <1>i DEF EnqueueStatement, VersionInv, Present
<1>20. ASSUME NEW j \in Jobs, EnqueuedAll(j) PROVE VersionInv(k)'
  BY <1>20, <1>t, <1>i DEF EnqueuedAll, Goto, VersionInv, Present, RequestInv
<1>21. ASSUME NEW j \in Jobs, KeepWaiting(j) PROVE VersionInv(k)'
  BY <1>21, <1>t, <1>i DEF KeepWaiting, Goto, Look, VersionInv, Present,
     RequestInv
<1>22. ASSUME NEW j \in Jobs, Resume(j) PROVE VersionInv(k)'
  BY <1>22, <1>t, <1>i DEF Resume, Goto, Look, VersionInv, Present, RequestInv
<1>23. ASSUME NEW j \in Jobs, ReloadMissing(j) PROVE VersionInv(k)'
  BY <1>23, <1>t, <1>i DEF ReloadMissing, Goto, VersionInv, Present, RequestInv
<1>24. ASSUME NEW j \in Jobs, RequestFails(j) PROVE VersionInv(k)'
  BY <1>24, <1>t, <1>i DEF RequestFails, Goto, VersionInv, Present, RequestInv
<1>25. ASSUME NEW j \in Jobs, Timeout(j) PROVE VersionInv(k)'
  BY <1>25, <1>t, <1>i DEF Timeout, Goto, VersionInv, Present, RequestInv
<1>26. ASSUME NEW j \in Jobs, Stop(j) PROVE VersionInv(k)'
  BY <1>26, <1>t, <1>i DEF Stop, Goto, StopDaemon, VersionInv, Present,
     RequestInv
<1>27. ASSUME NEW j \in Jobs, RescueTimeout(j) PROVE VersionInv(k)'
  BY <1>27, <1>t, <1>i DEF RescueTimeout, Goto, FailRow, StopDaemon, Look,
     Found, VersionInv, Present, RequestInv
<1>28. ASSUME NEW j \in Jobs, RescueObject(j) PROVE VersionInv(k)'
  BY <1>28, <1>t, <1>i DEF RescueObject, Goto, FailRow, StopDaemon, Look,
     Found, VersionInv, Present, RequestInv
<1>29. ASSUME NEW j \in Jobs, Kill(j) PROVE VersionInv(k)'
  BY <1>29, <1>t, <1>i DEF Kill, Goto, VersionInv, Present, RequestInv
<1>30. ASSUME NEW j \in Jobs, NEW b \in BOOLEAN, DaemonAdvance(j, b)
       PROVE  VersionInv(k)'
  BY <1>30, <1>t, <1>i DEF DaemonAdvance, Syncing, VersionInv, Present,
     RequestInv
<1>31. ASSUME NEW j \in Jobs, NEW s \in Statements, DaemonDownload(j, s)
       PROVE  VersionInv(k)'
  BY <1>31, <1>i DEF DaemonDownload, VersionInv, Present
<1>32. ASSUME NEW j \in Jobs, NEW o \in Outcomes, DaemonFinish(j, o)
       PROVE  VersionInv(k)'
  BY <1>32, <1>t, <1>i DEF DaemonFinish, Syncing, VersionInv, Present,
     RequestInv
<1>33. ASSUME NEW j \in Jobs, DaemonDies(j) PROVE VersionInv(k)'
  BY <1>33, <1>i DEF DaemonDies, VersionInv, Present
<1>34. ASSUME NEW j \in Jobs, DaemonHangs(j) PROVE VersionInv(k)'
  BY <1>34, <1>i DEF DaemonHangs, VersionInv, Present
<1>35. CASE UNCHANGED vars
  BY <1>35, <1>i DEF vars, VersionInv, Present
<1>36. QED
  BY <1>1, <1>2, <1>3, <1>4, <1>5, <1>6, <1>7, <1>8, <1>9, <1>10, <1>11,
     <1>12, <1>13, <1>14, <1>15, <1>16, <1>17, <1>18, <1>19, <1>20, <1>21,
     <1>22, <1>23, <1>24, <1>25, <1>26, <1>27, <1>28, <1>29, <1>30, <1>31,
     <1>32, <1>33, <1>34, <1>35 DEF Next, Web, Perform, DaemonStep

(* Wherever the loop ends, the row has been told, if it could be.           *)
LEMMA RowStep ==
  ASSUME IInv, [Next]_vars, NEW k \in Jobs PROVE RowInv(k)'
<1>t. /\ credState \in [Creds -> {"none", "stored", "destroyed"}]
      /\ reqState \in [Jobs -> {"idle", "loaded", "pushed", "done", "died"}]
      /\ reqCred \in [Jobs -> Creds]
      /\ pc \in [Jobs -> Labels]
      /\ rowStatus \in [Jobs -> Codes]
      /\ memo \in [Jobs -> Memos]
      /\ knownStatus \in [Jobs -> Codes]
      /\ dStatus \in [Jobs -> Codes]
  BY DEF IInv, TypeOK
<1>i. \A j \in Jobs : RowInv(j) /\ RequestInv(j) /\ VersionInv(j)
  BY DEF IInv
<1>1. ASSUME NEW c \in Creds, NEW a \in Answers, CreateCred(c, a)
      PROVE  RowInv(k)'
  BY <1>1, <1>t, <1>i DEF CreateCred, RowInv, Present, Stored, Through,
     Complete, Concluded, Waiting, InLoop, RequestInv, VersionInv
<1>2. ASSUME NEW c \in Creds, NEW a \in Answers, UpdateCred(c, a)
      PROVE  RowInv(k)'
  BY <1>2, <1>i DEF UpdateCred, RowInv, Present, Stored, Through, Complete,
     Concluded, Waiting, InLoop
<1>3. ASSUME NEW c \in Creds, DestroyCred(c) PROVE RowInv(k)'
  BY <1>3, <1>t, <1>i DEF DestroyCred, RowInv, Present, Stored, Through,
     Complete, Concluded, Waiting, InLoop, RequestInv, VersionInv
<1>4. ASSUME NEW j \in Jobs, NEW c \in Creds, RequestJob(j, c) PROVE RowInv(k)'
  BY <1>4, <1>t, <1>i DEF RequestJob, Load, RowInv, Present, Stored, Through,
     Complete, Concluded, Waiting, InLoop, RequestInv, VersionInv
<1>5. ASSUME NEW j \in Jobs, NEW c \in Creds, Login(j, c) PROVE RowInv(k)'
  BY <1>5, <1>t, <1>i DEF Login, Load, RowInv, Present, Stored, Through,
     Complete, Concluded, Waiting, InLoop, RequestInv, VersionInv
<1>6. ASSUME NEW j \in Jobs, PushJob(j) PROVE RowInv(k)'
  BY <1>6, <1>t, <1>i DEF PushJob, RowInv, Present, Stored, Through, Complete,
     Concluded, Waiting, InLoop, RequestInv, VersionInv
<1>7. ASSUME NEW j \in Jobs, CreateRow(j) PROVE RowInv(k)'
  BY <1>7, <1>t, <1>i DEF CreateRow, RowInv, Present, Stored, Through,
     Complete, Concluded, Waiting, InLoop, RequestInv, VersionInv
<1>8. ASSUME NEW j \in Jobs, RequestDies(j) PROVE RowInv(k)'
  BY <1>8, <1>t, <1>i DEF RequestDies, RowInv, Present, Stored, Through,
     Complete, Concluded, Waiting, InLoop, RequestInv, VersionInv
<1>9. ASSUME NEW j \in Jobs, Age(j) PROVE RowInv(k)'
  BY <1>9, <1>i DEF Age, RowInv, Present, Stored, Through, Complete,
     Concluded, Waiting, InLoop
<1>10. ASSUME NEW j \in Jobs, TakeJob(j) PROVE RowInv(k)'
  <2>1. pc[j] = "off" /\ reqState[j] \notin {"idle", "loaded"}
    BY <1>10, TakenJob
  <2>2. QED
    BY <1>10, <1>t, <1>i, <2>1 DEF TakeJob, Goto, RowInv, Present, Stored,
       Through, Complete, Concluded, Waiting, InLoop, RequestInv, VersionInv
<1>11. ASSUME NEW j \in Jobs, StartDaemon(j) PROVE RowInv(k)'
  BY <1>11, <1>t, <1>i DEF StartDaemon, Goto, RowInv, Present, Stored,
     Through, Complete, Concluded, Waiting, InLoop, RequestInv, VersionInv
<1>12. ASSUME NEW j \in Jobs, StartSync(j) PROVE RowInv(k)'
  BY <1>12, <1>t, <1>i DEF StartSync, Goto, RowInv, Present, Stored, Through,
     Complete, Concluded, Waiting, InLoop, RequestInv, VersionInv
<1>13. ASSUME NEW j \in Jobs, PollRunning(j) PROVE RowInv(k)'
  BY <1>13, <1>t, <1>i DEF PollRunning, Goto, RowInv, Present, Stored,
     Through, Complete, Concluded, Waiting, InLoop, RequestInv, VersionInv
<1>14. ASSUME NEW j \in Jobs, PollQuit(j) PROVE RowInv(k)'
  BY <1>14, <1>t, <1>i DEF PollQuit, Goto, FailRow, Look, Found, CredFound,
     Stored, RowInv, Present, Through, Complete, Concluded, Waiting, InLoop,
     RequestInv, VersionInv
<1>15. ASSUME NEW j \in Jobs, SameStatus(j) PROVE RowInv(k)'
  BY <1>15, <1>t, <1>i DEF SameStatus, Goto, RowInv, Present, Stored, Through,
     Complete, Concluded, Waiting, InLoop, RequestInv, VersionInv
<1>16. ASSUME NEW j \in Jobs, NewStatus(j) PROVE RowInv(k)'
  BY <1>16, <1>t, <1>i DEF NewStatus, Goto, KeepStatus, Look, Found,
     CredFound, Stored, RowInv, Present, Through, Complete, Concluded,
     Waiting, InLoop, RequestInv, VersionInv
<1>17. ASSUME NEW j \in Jobs, StatusWithoutCred(j) PROVE RowInv(k)'
  BY <1>17, <1>t, <1>i DEF StatusWithoutCred, Goto, KeepStatus, Look, Found,
     CredFound, Stored, RowInv, Present, Through, Complete, Concluded,
     Waiting, InLoop, RequestInv, VersionInv
<1>18. ASSUME NEW j \in Jobs, GetStatements(j) PROVE RowInv(k)'
  BY <1>18, <1>t, <1>i DEF GetStatements, Goto, RowInv, Present, Stored,
     Through, Complete, Concluded, Waiting, InLoop, RequestInv, VersionInv
<1>19. ASSUME NEW j \in Jobs, NEW s \in Statements, EnqueueStatement(j, s)
       PROVE  RowInv(k)'
  BY <1>19, <1>i DEF EnqueueStatement, RowInv, Present, Stored, Through,
     Complete, Concluded, Waiting, InLoop
<1>20. ASSUME NEW j \in Jobs, EnqueuedAll(j) PROVE RowInv(k)'
  BY <1>20, <1>t, <1>i DEF EnqueuedAll, Goto, RowInv, Present, Stored,
     Through, Complete, Concluded, Waiting, InLoop, RequestInv, VersionInv
<1>21. ASSUME NEW j \in Jobs, KeepWaiting(j) PROVE RowInv(k)'
  BY <1>21, <1>t, <1>i DEF KeepWaiting, Goto, Look, Found, CredFound, Stored,
     RowInv, Present, Through, Complete, Concluded, Waiting, InLoop,
     RequestInv, VersionInv
<1>22. ASSUME NEW j \in Jobs, Resume(j) PROVE RowInv(k)'
  BY <1>22, <1>t, <1>i DEF Resume, Goto, Look, Found, CredFound, Stored,
     RowInv, Present, Through, Complete, Concluded, Waiting, InLoop,
     RequestInv, VersionInv
<1>23. ASSUME NEW j \in Jobs, ReloadMissing(j) PROVE RowInv(k)'
  BY <1>23, <1>t, <1>i DEF ReloadMissing, Goto, Found, CredFound, Stored,
     ChecksCreds, RowInv, Present, Through, Complete, Concluded, Waiting,
     InLoop, RequestInv, VersionInv
<1>24. ASSUME NEW j \in Jobs, RequestFails(j) PROVE RowInv(k)'
  BY <1>24, <1>t, <1>i DEF RequestFails, Goto, Requesting, RowInv, Present,
     Stored, Through, Complete, Concluded, Waiting, InLoop, RequestInv,
     VersionInv
<1>25. ASSUME NEW j \in Jobs, Timeout(j) PROVE RowInv(k)'
  BY <1>25, <1>t, <1>i DEF Timeout, Goto, RowInv, Present, Stored, Through,
     Complete, Concluded, Waiting, InLoop, RequestInv, VersionInv
<1>26. ASSUME NEW j \in Jobs, Stop(j) PROVE RowInv(k)'
  BY <1>26, <1>t, <1>i DEF Stop, Goto, StopDaemon, RowInv, Present, Stored,
     Through, Complete, Concluded, Waiting, InLoop, RequestInv, VersionInv
<1>27. ASSUME NEW j \in Jobs, RescueTimeout(j) PROVE RowInv(k)'
  BY <1>27, <1>t, <1>i DEF RescueTimeout, Goto, FailRow, StopDaemon, Look,
     Found, CredFound, Stored, RowInv, Present, Through, Complete, Concluded,
     Waiting, InLoop, RequestInv, VersionInv
<1>28. ASSUME NEW j \in Jobs, RescueObject(j) PROVE RowInv(k)'
  BY <1>28, <1>t, <1>i DEF RescueObject, Goto, FailRow, StopDaemon, Look,
     Found, CredFound, Stored, RowInv, Present, Through, Complete, Concluded,
     Waiting, InLoop, RequestInv, VersionInv
<1>29. ASSUME NEW j \in Jobs, Kill(j) PROVE RowInv(k)'
  BY <1>29, <1>t, <1>i DEF Kill, Goto, Active, RowInv, Present, Stored,
     Through, Complete, Concluded, Waiting, InLoop, RequestInv, VersionInv
<1>30. ASSUME NEW j \in Jobs, NEW b \in BOOLEAN, DaemonAdvance(j, b)
       PROVE  RowInv(k)'
  BY <1>30, <1>i DEF DaemonAdvance, RowInv, Present, Stored, Through,
     Complete, Concluded, Waiting, InLoop
<1>31. ASSUME NEW j \in Jobs, NEW s \in Statements, DaemonDownload(j, s)
       PROVE  RowInv(k)'
  BY <1>31, <1>i DEF DaemonDownload, RowInv, Present, Stored, Through,
     Complete, Concluded, Waiting, InLoop
<1>32. ASSUME NEW j \in Jobs, NEW o \in Outcomes, DaemonFinish(j, o)
       PROVE  RowInv(k)'
  BY <1>32, <1>t, <1>i DEF DaemonFinish, RowInv, Present, Stored, Through,
     Complete, Concluded, Waiting, InLoop, RequestInv, VersionInv
<1>33. ASSUME NEW j \in Jobs, DaemonDies(j) PROVE RowInv(k)'
  BY <1>33, <1>i DEF DaemonDies, RowInv, Present, Stored, Through, Complete,
     Concluded, Waiting, InLoop
<1>34. ASSUME NEW j \in Jobs, DaemonHangs(j) PROVE RowInv(k)'
  BY <1>34, <1>i DEF DaemonHangs, RowInv, Present, Stored, Through, Complete,
     Concluded, Waiting, InLoop
<1>35. CASE UNCHANGED vars
  BY <1>35, <1>i DEF vars, RowInv, Present, Stored, Through, Complete,
     Concluded, Waiting, InLoop
<1>36. QED
  BY <1>1, <1>2, <1>3, <1>4, <1>5, <1>6, <1>7, <1>8, <1>9, <1>10, <1>11,
     <1>12, <1>13, <1>14, <1>15, <1>16, <1>17, <1>18, <1>19, <1>20, <1>21,
     <1>22, <1>23, <1>24, <1>25, <1>26, <1>27, <1>28, <1>29, <1>30, <1>31,
     <1>32, <1>33, <1>34, <1>35 DEF Next, Web, Perform, DaemonStep

(* A row gets its 200 with the worker in "list", from a daemon that has     *)
(* finished: the list read next is the last one.                            *)
LEMMA SuccessStep ==
  ASSUME IInv, [Next]_vars, NEW k \in Jobs PROVE SuccessInv(k)'
<1>t. /\ pc \in [Jobs -> Labels]
      /\ rowStatus \in [Jobs -> Codes]
      /\ memo \in [Jobs -> Memos]
      /\ knownStatus \in [Jobs -> Codes]
      /\ dStatus \in [Jobs -> Codes]
      /\ seen \in [Jobs -> SUBSET Statements]
      /\ todo \in [Jobs -> SUBSET Statements]
      /\ dListed \in [Jobs -> SUBSET Statements]
  BY DEF IInv, TypeOK
<1>i. \A j \in Jobs : SuccessInv(j) /\ RowInv(j) /\ RequestInv(j)
  BY DEF IInv
<1>1. ASSUME NEW c \in Creds, NEW a \in Answers, CreateCred(c, a)
      PROVE  SuccessInv(k)'
  BY <1>1, <1>i DEF CreateCred, SuccessInv, Complete, Concluded
<1>2. ASSUME NEW c \in Creds, NEW a \in Answers, UpdateCred(c, a)
      PROVE  SuccessInv(k)'
  BY <1>2, <1>i DEF UpdateCred, SuccessInv, Complete, Concluded
<1>3. ASSUME NEW c \in Creds, DestroyCred(c) PROVE SuccessInv(k)'
  BY <1>3, <1>i DEF DestroyCred, SuccessInv, Complete, Concluded
<1>4. ASSUME NEW j \in Jobs, NEW c \in Creds, RequestJob(j, c)
      PROVE  SuccessInv(k)'
  BY <1>4, <1>i DEF RequestJob, Load, SuccessInv, Complete, Concluded
<1>5. ASSUME NEW j \in Jobs, NEW c \in Creds, Login(j, c) PROVE SuccessInv(k)'
  BY <1>5, <1>i DEF Login, Load, SuccessInv, Complete, Concluded
<1>6. ASSUME NEW j \in Jobs, PushJob(j) PROVE SuccessInv(k)'
  BY <1>6, <1>i DEF PushJob, SuccessInv, Complete, Concluded
<1>7. ASSUME NEW j \in Jobs, CreateRow(j) PROVE SuccessInv(k)'
  BY <1>7, <1>t, <1>i DEF CreateRow, SuccessInv, Complete, Concluded, RowInv,
     RequestInv
<1>8. ASSUME NEW j \in Jobs, RequestDies(j) PROVE SuccessInv(k)'
  BY <1>8, <1>i DEF RequestDies, SuccessInv, Complete, Concluded
<1>9. ASSUME NEW j \in Jobs, Age(j) PROVE SuccessInv(k)'
  BY <1>9, <1>i DEF Age, SuccessInv, Complete, Concluded
<1>10. ASSUME NEW j \in Jobs, TakeJob(j) PROVE SuccessInv(k)'
  <2>1. pc[j] = "off" /\ reqState[j] \notin {"idle", "loaded"}
    BY <1>10, TakenJob
  <2>2. QED
    BY <1>10, <1>t, <1>i, <2>1 DEF TakeJob, Goto, SuccessInv, Complete,
       Concluded, RowInv, RequestInv
<1>11. ASSUME NEW j \in Jobs, StartDaemon(j) PROVE SuccessInv(k)'
  BY <1>11, <1>t, <1>i DEF StartDaemon, Goto, SuccessInv, Complete, Concluded,
     RowInv, RequestInv
<1>12. ASSUME NEW j \in Jobs, StartSync(j) PROVE SuccessInv(k)'
  BY <1>12, <1>t, <1>i DEF StartSync, Goto, SuccessInv, Complete, Concluded,
     RowInv, RequestInv
<1>13. ASSUME NEW j \in Jobs, PollRunning(j) PROVE SuccessInv(k)'
  BY <1>13, <1>t, <1>i DEF PollRunning, Goto, SuccessInv, Complete, Concluded,
     RowInv, RequestInv
<1>14. ASSUME NEW j \in Jobs, PollQuit(j) PROVE SuccessInv(k)'
  BY <1>14, <1>t, <1>i DEF PollQuit, Goto, FailRow, Look, Found, CredFound,
     Stored, SuccessInv, Complete, Concluded, RowInv, RequestInv
<1>15. ASSUME NEW j \in Jobs, SameStatus(j) PROVE SuccessInv(k)'
  BY <1>15, <1>t, <1>i DEF SameStatus, Goto, SuccessInv, Complete, Concluded,
     RowInv, RequestInv
<1>16. ASSUME NEW j \in Jobs, NewStatus(j) PROVE SuccessInv(k)'
  BY <1>16, <1>t, <1>i DEF NewStatus, Goto, KeepStatus, Look, Found,
     CredFound, Stored, SuccessInv, Complete, Concluded, RowInv, RequestInv
<1>17. ASSUME NEW j \in Jobs, StatusWithoutCred(j) PROVE SuccessInv(k)'
  BY <1>17, <1>t, <1>i DEF StatusWithoutCred, Goto, KeepStatus, Look, Found,
     CredFound, Stored, SuccessInv, Complete, Concluded, RowInv, RequestInv
<1>18. ASSUME NEW j \in Jobs, GetStatements(j) PROVE SuccessInv(k)'
  BY <1>18, <1>t, <1>i DEF GetStatements, Goto, SuccessInv, Complete,
     Concluded, RowInv, RequestInv
<1>19. ASSUME NEW j \in Jobs, NEW s \in Statements, EnqueueStatement(j, s)
       PROVE  SuccessInv(k)'
  BY <1>19, <1>t, <1>i DEF EnqueueStatement, SuccessInv, Complete, Concluded,
     RowInv, RequestInv
<1>20. ASSUME NEW j \in Jobs, EnqueuedAll(j) PROVE SuccessInv(k)'
  BY <1>20, <1>t, <1>i DEF EnqueuedAll, Goto, InLoop, SuccessInv, Complete,
     Concluded, RowInv, RequestInv
<1>21. ASSUME NEW j \in Jobs, KeepWaiting(j) PROVE SuccessInv(k)'
  BY <1>21, <1>t, <1>i DEF KeepWaiting, Goto, Look, Found, CredFound, Stored,
     SuccessInv, Complete, Concluded, RowInv, RequestInv
<1>22. ASSUME NEW j \in Jobs, Resume(j) PROVE SuccessInv(k)'
  BY <1>22, <1>t, <1>i DEF Resume, Goto, Look, Found, CredFound, Stored,
     SuccessInv, Complete, Concluded, RowInv, RequestInv
<1>23. ASSUME NEW j \in Jobs, ReloadMissing(j) PROVE SuccessInv(k)'
  BY <1>23, <1>t, <1>i DEF ReloadMissing, Goto, Found, CredFound, Stored,
     ChecksCreds, Waiting, SuccessInv, Complete, Concluded, RowInv, RequestInv
<1>24. ASSUME NEW j \in Jobs, RequestFails(j) PROVE SuccessInv(k)'
  BY <1>24, <1>t, <1>i DEF RequestFails, Goto, Requesting, SuccessInv,
     Complete, Concluded, RowInv, RequestInv
<1>25. ASSUME NEW j \in Jobs, Timeout(j) PROVE SuccessInv(k)'
  BY <1>25, <1>t, <1>i DEF Timeout, Goto, SuccessInv, Complete, Concluded,
     RowInv, RequestInv
<1>26. ASSUME NEW j \in Jobs, Stop(j) PROVE SuccessInv(k)'
  BY <1>26, <1>t, <1>i DEF Stop, Goto, StopDaemon, SuccessInv, Complete,
     Concluded, RowInv, RequestInv
<1>27. ASSUME NEW j \in Jobs, RescueTimeout(j) PROVE SuccessInv(k)'
  BY <1>27, <1>t, <1>i DEF RescueTimeout, Goto, FailRow, StopDaemon, Look,
     Found, CredFound, Stored, SuccessInv, Complete, Concluded, RowInv,
     RequestInv
<1>28. ASSUME NEW j \in Jobs, RescueObject(j) PROVE SuccessInv(k)'
  BY <1>28, <1>t, <1>i DEF RescueObject, Goto, FailRow, StopDaemon, Look,
     Found, CredFound, Stored, SuccessInv, Complete, Concluded, RowInv,
     RequestInv
<1>29. ASSUME NEW j \in Jobs, Kill(j) PROVE SuccessInv(k)'
  BY <1>29, <1>t, <1>i DEF Kill, Goto, Active, SuccessInv, Complete,
     Concluded, RowInv, RequestInv
<1>30. ASSUME NEW j \in Jobs, NEW b \in BOOLEAN, DaemonAdvance(j, b)
       PROVE  SuccessInv(k)'
  BY <1>30, <1>i DEF DaemonAdvance, SuccessInv, Complete, Concluded
<1>31. ASSUME NEW j \in Jobs, NEW s \in Statements, DaemonDownload(j, s)
       PROVE  SuccessInv(k)'
  BY <1>31, <1>t, <1>i DEF DaemonDownload, Syncing, SuccessInv, Complete,
     Concluded, RowInv, RequestInv
<1>32. ASSUME NEW j \in Jobs, NEW o \in Outcomes, DaemonFinish(j, o)
       PROVE  SuccessInv(k)'
  BY <1>32, <1>t, <1>i, OutcomesAssumption DEF DaemonFinish, Syncing,
     SuccessInv, Complete, Concluded, RowInv, RequestInv
<1>33. ASSUME NEW j \in Jobs, DaemonDies(j) PROVE SuccessInv(k)'
  BY <1>33, <1>i DEF DaemonDies, SuccessInv, Complete, Concluded
<1>34. ASSUME NEW j \in Jobs, DaemonHangs(j) PROVE SuccessInv(k)'
  BY <1>34, <1>i DEF DaemonHangs, SuccessInv, Complete, Concluded
<1>35. CASE UNCHANGED vars
  BY <1>35, <1>i DEF vars, SuccessInv, Complete, Concluded
<1>36. QED
  BY <1>1, <1>2, <1>3, <1>4, <1>5, <1>6, <1>7, <1>8, <1>9, <1>10, <1>11,
     <1>12, <1>13, <1>14, <1>15, <1>16, <1>17, <1>18, <1>19, <1>20, <1>21,
     <1>22, <1>23, <1>24, <1>25, <1>26, <1>27, <1>28, <1>29, <1>30, <1>31,
     <1>32, <1>33, <1>34, <1>35 DEF Next, Web, Perform, DaemonStep

(* Resume spends the question (resumed = knownVersion), and only a newer    *)
(* status of the daemon, which forgets its job.resume, opens another.       *)
LEMMA AnswerStep ==
  ASSUME IInv, [Next]_vars, NEW k \in Jobs PROVE AnswerInv(k)'
<1>t. /\ pc \in [Jobs -> Labels]
      /\ knownVersion \in [Jobs -> Nat]
      /\ knownStatus \in [Jobs -> Codes]
      /\ knownAsking \in [Jobs -> BOOLEAN]
      /\ resumed \in [Jobs -> Nat]
      /\ dVersion \in [Jobs -> Nat]
      /\ dStatus \in [Jobs -> Codes]
      /\ dAsking \in [Jobs -> BOOLEAN]
      /\ dResumes \in [Jobs -> Nat]
  BY DEF IInv, TypeOK
<1>i. \A j \in Jobs : AnswerInv(j) /\ VersionInv(j)
  BY DEF IInv
<1>1. CASE Web
  BY <1>1, <1>i, WebLeaves DEF AnswerInv, Paused
<1>2. ASSUME NEW j \in Jobs, TakeJob(j) PROVE AnswerInv(k)'
  <2>1. pc[j] = "off" /\ reqState[j] \notin {"idle", "loaded"}
    BY <1>2, TakenJob
  <2>2. QED
    BY <1>2, <1>t, <1>i, <2>1 DEF TakeJob, Goto, AnswerInv, Paused, VersionInv
<1>3. ASSUME NEW j \in Jobs, StartDaemon(j) PROVE AnswerInv(k)'
  BY <1>3, <1>t, <1>i DEF StartDaemon, Goto, AnswerInv, Paused, VersionInv
<1>4. ASSUME NEW j \in Jobs, StartSync(j) PROVE AnswerInv(k)'
  BY <1>4, <1>t, <1>i DEF StartSync, Goto, AnswerInv, Paused, VersionInv
<1>5. ASSUME NEW j \in Jobs, PollRunning(j) PROVE AnswerInv(k)'
  BY <1>5, <1>t, <1>i DEF PollRunning, Goto, AnswerInv, Paused, VersionInv
<1>6. ASSUME NEW j \in Jobs, PollQuit(j) PROVE AnswerInv(k)'
  BY <1>6, <1>t, <1>i DEF PollQuit, Goto, FailRow, Look, AnswerInv, Paused,
     VersionInv
<1>7. ASSUME NEW j \in Jobs, SameStatus(j) PROVE AnswerInv(k)'
  BY <1>7, <1>t, <1>i DEF SameStatus, Goto, AnswerInv, Paused, VersionInv
<1>8. ASSUME NEW j \in Jobs, NewStatus(j) PROVE AnswerInv(k)'
  BY <1>8, <1>t, <1>i DEF NewStatus, Goto, KeepStatus, Look, NewerStatus,
     AnswerInv, Paused, VersionInv
<1>9. ASSUME NEW j \in Jobs, StatusWithoutCred(j) PROVE AnswerInv(k)'
  BY <1>9, <1>t, <1>i DEF StatusWithoutCred, Goto, KeepStatus, Look,
     NewerStatus, AnswerInv, Paused, VersionInv
<1>10. ASSUME NEW j \in Jobs, GetStatements(j) PROVE AnswerInv(k)'
  BY <1>10, <1>t, <1>i DEF GetStatements, Goto, AnswerInv, Paused, VersionInv
<1>11. ASSUME NEW j \in Jobs, NEW s \in Statements, EnqueueStatement(j, s)
       PROVE  AnswerInv(k)'
  BY <1>11, <1>i DEF EnqueueStatement, AnswerInv, Paused
<1>12. ASSUME NEW j \in Jobs, EnqueuedAll(j) PROVE AnswerInv(k)'
  BY <1>12, <1>t, <1>i DEF EnqueuedAll, Goto, AnswerInv, Paused, VersionInv
<1>13. ASSUME NEW j \in Jobs, KeepWaiting(j) PROVE AnswerInv(k)'
  BY <1>13, <1>t, <1>i DEF KeepWaiting, Goto, Look, AnswerInv, Paused,
     VersionInv
<1>14. ASSUME NEW j \in Jobs, Resume(j) PROVE AnswerInv(k)'
  BY <1>14, <1>t, <1>i DEF Resume, Goto, Look, ChecksCreds, AnswerInv, Paused,
     VersionInv
<1>15. ASSUME NEW j \in Jobs, ReloadMissing(j) PROVE AnswerInv(k)'
  BY <1>15, <1>t, <1>i DEF ReloadMissing, Goto, AnswerInv, Paused, VersionInv
<1>16. ASSUME NEW j \in Jobs, RequestFails(j) PROVE AnswerInv(k)'
  BY <1>16, <1>t, <1>i DEF RequestFails, Goto, AnswerInv, Paused, VersionInv
<1>17. ASSUME NEW j \in Jobs, Timeout(j) PROVE AnswerInv(k)'
  BY <1>17, <1>t, <1>i DEF Timeout, Goto, AnswerInv, Paused, VersionInv
<1>18. ASSUME NEW j \in Jobs, Stop(j) PROVE AnswerInv(k)'
  BY <1>18, <1>t, <1>i DEF Stop, Goto, StopDaemon, AnswerInv, Paused,
     VersionInv
<1>19. ASSUME NEW j \in Jobs, RescueTimeout(j) PROVE AnswerInv(k)'
  BY <1>19, <1>t, <1>i DEF RescueTimeout, Goto, FailRow, StopDaemon, Look,
     AnswerInv, Paused, VersionInv
<1>20. ASSUME NEW j \in Jobs, RescueObject(j) PROVE AnswerInv(k)'
  BY <1>20, <1>t, <1>i DEF RescueObject, Goto, FailRow, StopDaemon, Look,
     AnswerInv, Paused, VersionInv
<1>21. ASSUME NEW j \in Jobs, Kill(j) PROVE AnswerInv(k)'
  BY <1>21, <1>t, <1>i DEF Kill, Goto, AnswerInv, Paused, VersionInv
<1>22. ASSUME NEW j \in Jobs, NEW b \in BOOLEAN, DaemonAdvance(j, b)
       PROVE  AnswerInv(k)'
  BY <1>22, <1>t, <1>i DEF DaemonAdvance, Syncing, AnswerInv, Paused,
     VersionInv
<1>23. ASSUME NEW j \in Jobs, NEW s \in Statements, DaemonDownload(j, s)
       PROVE  AnswerInv(k)'
  BY <1>23, <1>i DEF DaemonDownload, AnswerInv, Paused
<1>24. ASSUME NEW j \in Jobs, NEW o \in Outcomes, DaemonFinish(j, o)
       PROVE  AnswerInv(k)'
  <2>1. /\ o # Pending /\ dStatus[j] = Pending
        /\ dVersion' = [dVersion EXCEPT ![j] = @ + 1]
        /\ dStatus' = [dStatus EXCEPT ![j] = o]
        /\ dAsking' = [dAsking EXCEPT ![j] = FALSE]
        /\ UNCHANGED <<knownVersion, knownStatus, knownAsking, resumed, dResumes>>
    BY <1>24, OutcomesAssumption DEF DaemonFinish, Syncing, workerVars,
       localVars, knownVars
  <2>2. QED
    BY <1>t, <1>i, <2>1 DEF AnswerInv, Paused, VersionInv
<1>25. ASSUME NEW j \in Jobs, DaemonDies(j) PROVE AnswerInv(k)'
  BY <1>25, <1>i DEF DaemonDies, AnswerInv, Paused
<1>26. ASSUME NEW j \in Jobs, DaemonHangs(j) PROVE AnswerInv(k)'
  BY <1>26, <1>i DEF DaemonHangs, AnswerInv, Paused
<1>27. CASE UNCHANGED vars
  BY <1>27, <1>i DEF vars, AnswerInv, Paused
<1>28. QED
  BY <1>1, <1>2, <1>3, <1>4, <1>5, <1>6, <1>7, <1>8, <1>9, <1>10, <1>11,
     <1>12, <1>13, <1>14, <1>15, <1>16, <1>17, <1>18, <1>19, <1>20, <1>21,
     <1>22, <1>23, <1>24, <1>25, <1>26, <1>27 DEF Next, Web, Perform,
     DaemonStep

(* StartSync and Resume send what the worker holds from then on.            *)
LEMMA HeldStep ==
  ASSUME IInv, [Next]_vars, NEW k \in Jobs PROVE HeldInv(k)'
<1>t. /\ pc \in [Jobs -> Labels]
      /\ held \in [Jobs -> Answers]
      /\ dAnswers \in [Jobs -> Answers]
      /\ credAnswers \in [Creds -> Answers]
      /\ reqAnswers \in [Jobs -> Answers]
  BY DEF IInv, TypeOK
<1>i. \A j \in Jobs : HeldInv(j)
  BY DEF IInv
<1>1. ASSUME NEW c \in Creds, NEW a \in Answers, CreateCred(c, a)
      PROVE  HeldInv(k)'
  BY <1>1, <1>t, <1>i DEF CreateCred, HeldInv, InLoop
<1>2. ASSUME NEW c \in Creds, NEW a \in Answers, UpdateCred(c, a)
      PROVE  HeldInv(k)'
  BY <1>2, <1>t, <1>i DEF UpdateCred, HeldInv, InLoop
<1>3. ASSUME NEW c \in Creds, DestroyCred(c) PROVE HeldInv(k)'
  BY <1>3, <1>i DEF DestroyCred, HeldInv, InLoop
<1>4. ASSUME NEW j \in Jobs, NEW c \in Creds, RequestJob(j, c)
      PROVE  HeldInv(k)'
  BY <1>4, <1>t, <1>i DEF RequestJob, Load, HeldInv, InLoop
<1>5. ASSUME NEW j \in Jobs, NEW c \in Creds, Login(j, c) PROVE HeldInv(k)'
  BY <1>5, <1>t, <1>i DEF Login, Load, HeldInv, InLoop
<1>6. ASSUME NEW j \in Jobs, PushJob(j) PROVE HeldInv(k)'
  BY <1>6, <1>i DEF PushJob, HeldInv, InLoop
<1>7. ASSUME NEW j \in Jobs, CreateRow(j) PROVE HeldInv(k)'
  BY <1>7, <1>i DEF CreateRow, HeldInv, InLoop
<1>8. ASSUME NEW j \in Jobs, RequestDies(j) PROVE HeldInv(k)'
  BY <1>8, <1>i DEF RequestDies, HeldInv, InLoop
<1>9. ASSUME NEW j \in Jobs, Age(j) PROVE HeldInv(k)'
  BY <1>9, <1>i DEF Age, HeldInv, InLoop
<1>10. ASSUME NEW j \in Jobs, TakeJob(j) PROVE HeldInv(k)'
  <2>1. pc[j] = "off" /\ reqState[j] \notin {"idle", "loaded"}
    BY <1>10, TakenJob
  <2>2. QED
    BY <1>10, <1>t, <1>i, <2>1 DEF TakeJob, Goto, HeldInv, InLoop
<1>11. ASSUME NEW j \in Jobs, StartDaemon(j) PROVE HeldInv(k)'
  BY <1>11, <1>t, <1>i DEF StartDaemon, Goto, HeldInv, InLoop
<1>12. ASSUME NEW j \in Jobs, StartSync(j) PROVE HeldInv(k)'
  BY <1>12, <1>t, <1>i DEF StartSync, Goto, HeldInv, InLoop
<1>13. ASSUME NEW j \in Jobs, PollRunning(j) PROVE HeldInv(k)'
  BY <1>13, <1>t, <1>i DEF PollRunning, Goto, HeldInv, InLoop
<1>14. ASSUME NEW j \in Jobs, PollQuit(j) PROVE HeldInv(k)'
  BY <1>14, <1>t, <1>i DEF PollQuit, Goto, FailRow, Look, HeldInv, InLoop
<1>15. ASSUME NEW j \in Jobs, SameStatus(j) PROVE HeldInv(k)'
  BY <1>15, <1>t, <1>i DEF SameStatus, Goto, HeldInv, InLoop
<1>16. ASSUME NEW j \in Jobs, NewStatus(j) PROVE HeldInv(k)'
  BY <1>16, <1>t, <1>i DEF NewStatus, Goto, KeepStatus, Look, HeldInv, InLoop
<1>17. ASSUME NEW j \in Jobs, StatusWithoutCred(j) PROVE HeldInv(k)'
  BY <1>17, <1>t, <1>i DEF StatusWithoutCred, Goto, KeepStatus, Look, HeldInv,
     InLoop
<1>18. ASSUME NEW j \in Jobs, GetStatements(j) PROVE HeldInv(k)'
  BY <1>18, <1>t, <1>i DEF GetStatements, Goto, HeldInv, InLoop
<1>19. ASSUME NEW j \in Jobs, NEW s \in Statements, EnqueueStatement(j, s)
       PROVE  HeldInv(k)'
  BY <1>19, <1>i DEF EnqueueStatement, HeldInv, InLoop
<1>20. ASSUME NEW j \in Jobs, EnqueuedAll(j) PROVE HeldInv(k)'
  BY <1>20, <1>t, <1>i DEF EnqueuedAll, Goto, HeldInv, InLoop
<1>21. ASSUME NEW j \in Jobs, KeepWaiting(j) PROVE HeldInv(k)'
  BY <1>21, <1>t, <1>i DEF KeepWaiting, Goto, Look, HeldInv, InLoop
<1>22. ASSUME NEW j \in Jobs, Resume(j) PROVE HeldInv(k)'
  BY <1>22, <1>t, <1>i DEF Resume, Goto, Look, HeldInv, InLoop
<1>23. ASSUME NEW j \in Jobs, ReloadMissing(j) PROVE HeldInv(k)'
  BY <1>23, <1>t, <1>i DEF ReloadMissing, Goto, HeldInv, InLoop
<1>24. ASSUME NEW j \in Jobs, RequestFails(j) PROVE HeldInv(k)'
  BY <1>24, <1>t, <1>i DEF RequestFails, Goto, HeldInv, InLoop
<1>25. ASSUME NEW j \in Jobs, Timeout(j) PROVE HeldInv(k)'
  BY <1>25, <1>t, <1>i DEF Timeout, Goto, HeldInv, InLoop
<1>26. ASSUME NEW j \in Jobs, Stop(j) PROVE HeldInv(k)'
  BY <1>26, <1>t, <1>i DEF Stop, Goto, StopDaemon, HeldInv, InLoop
<1>27. ASSUME NEW j \in Jobs, RescueTimeout(j) PROVE HeldInv(k)'
  BY <1>27, <1>t, <1>i DEF RescueTimeout, Goto, FailRow, StopDaemon, Look,
     HeldInv, InLoop
<1>28. ASSUME NEW j \in Jobs, RescueObject(j) PROVE HeldInv(k)'
  BY <1>28, <1>t, <1>i DEF RescueObject, Goto, FailRow, StopDaemon, Look,
     HeldInv, InLoop
<1>29. ASSUME NEW j \in Jobs, Kill(j) PROVE HeldInv(k)'
  BY <1>29, <1>t, <1>i DEF Kill, Goto, HeldInv, InLoop
<1>30. ASSUME NEW j \in Jobs, DaemonStep(j) PROVE HeldInv(k)'
  BY <1>30, <1>i, DaemonLeaves DEF HeldInv, InLoop
<1>31. CASE UNCHANGED vars
  BY <1>31, <1>i DEF vars, HeldInv, InLoop
<1>32. QED
  BY <1>1, <1>2, <1>3, <1>4, <1>5, <1>6, <1>7, <1>8, <1>9, <1>10, <1>11,
     <1>12, <1>13, <1>14, <1>15, <1>16, <1>17, <1>18, <1>19, <1>20, <1>21,
     <1>22, <1>23, <1>24, <1>25, <1>26, <1>27, <1>28, <1>29, <1>30,
     <1>31 DEF Next, Web, Perform, DaemonStep

(* The two ways to "returned" are behind a daemon.stop that succeeded.      *)
LEMMA StopStep ==
  ASSUME IInv, [Next]_vars, NEW k \in Jobs PROVE StopInv(k)'
<1>t. /\ pc \in [Jobs -> Labels]
      /\ daemon \in [Jobs -> {"down", "up", "hung"}]
  BY DEF IInv, TypeOK
<1>i. \A j \in Jobs : StopInv(j)
  BY DEF IInv
<1>1. CASE Web
  BY <1>1, <1>i, WebLeaves DEF StopInv
<1>2. ASSUME NEW j \in Jobs, TakeJob(j) PROVE StopInv(k)'
  <2>1. pc[j] = "off" /\ reqState[j] \notin {"idle", "loaded"}
    BY <1>2, TakenJob
  <2>2. QED
    BY <1>2, <1>t, <1>i, <2>1 DEF TakeJob, Goto, StopInv
<1>3. ASSUME NEW j \in Jobs, StartDaemon(j) PROVE StopInv(k)'
  BY <1>3, <1>t, <1>i DEF StartDaemon, Goto, StopInv
<1>4. ASSUME NEW j \in Jobs, StartSync(j) PROVE StopInv(k)'
  BY <1>4, <1>t, <1>i DEF StartSync, Goto, StopInv
<1>5. ASSUME NEW j \in Jobs, PollRunning(j) PROVE StopInv(k)'
  BY <1>5, <1>t, <1>i DEF PollRunning, Goto, StopInv
<1>6. ASSUME NEW j \in Jobs, PollQuit(j) PROVE StopInv(k)'
  BY <1>6, <1>t, <1>i DEF PollQuit, Goto, FailRow, Look, StopInv
<1>7. ASSUME NEW j \in Jobs, SameStatus(j) PROVE StopInv(k)'
  BY <1>7, <1>t, <1>i DEF SameStatus, Goto, StopInv
<1>8. ASSUME NEW j \in Jobs, NewStatus(j) PROVE StopInv(k)'
  BY <1>8, <1>t, <1>i DEF NewStatus, Goto, KeepStatus, Look, StopInv
<1>9. ASSUME NEW j \in Jobs, StatusWithoutCred(j) PROVE StopInv(k)'
  BY <1>9, <1>t, <1>i DEF StatusWithoutCred, Goto, KeepStatus, Look, StopInv
<1>10. ASSUME NEW j \in Jobs, GetStatements(j) PROVE StopInv(k)'
  BY <1>10, <1>t, <1>i DEF GetStatements, Goto, StopInv
<1>11. ASSUME NEW j \in Jobs, NEW s \in Statements, EnqueueStatement(j, s)
       PROVE  StopInv(k)'
  BY <1>11, <1>i DEF EnqueueStatement, StopInv
<1>12. ASSUME NEW j \in Jobs, EnqueuedAll(j) PROVE StopInv(k)'
  BY <1>12, <1>t, <1>i DEF EnqueuedAll, Goto, StopInv
<1>13. ASSUME NEW j \in Jobs, KeepWaiting(j) PROVE StopInv(k)'
  BY <1>13, <1>t, <1>i DEF KeepWaiting, Goto, Look, StopInv
<1>14. ASSUME NEW j \in Jobs, Resume(j) PROVE StopInv(k)'
  BY <1>14, <1>t, <1>i DEF Resume, Goto, Look, StopInv
<1>15. ASSUME NEW j \in Jobs, ReloadMissing(j) PROVE StopInv(k)'
  BY <1>15, <1>t, <1>i DEF ReloadMissing, Goto, StopInv
<1>16. ASSUME NEW j \in Jobs, RequestFails(j) PROVE StopInv(k)'
  BY <1>16, <1>t, <1>i DEF RequestFails, Goto, StopInv
<1>17. ASSUME NEW j \in Jobs, Timeout(j) PROVE StopInv(k)'
  BY <1>17, <1>t, <1>i DEF Timeout, Goto, StopInv
<1>18. ASSUME NEW j \in Jobs, Stop(j) PROVE StopInv(k)'
  BY <1>18, <1>t, <1>i DEF Stop, Goto, StopDaemon, StopInv
<1>19. ASSUME NEW j \in Jobs, RescueTimeout(j) PROVE StopInv(k)'
  BY <1>19, <1>t, <1>i DEF RescueTimeout, Goto, FailRow, StopDaemon, Look,
     StopInv
<1>20. ASSUME NEW j \in Jobs, RescueObject(j) PROVE StopInv(k)'
  BY <1>20, <1>t, <1>i DEF RescueObject, Goto, FailRow, StopDaemon, Look,
     StopInv
<1>21. ASSUME NEW j \in Jobs, Kill(j) PROVE StopInv(k)'
  BY <1>21, <1>t, <1>i DEF Kill, Goto, StopInv
<1>22. ASSUME NEW j \in Jobs, NEW b \in BOOLEAN, DaemonAdvance(j, b)
       PROVE  StopInv(k)'
  BY <1>22, <1>i DEF DaemonAdvance, StopInv
<1>23. ASSUME NEW j \in Jobs, NEW s \in Statements, DaemonDownload(j, s)
       PROVE  StopInv(k)'
  BY <1>23, <1>i DEF DaemonDownload, StopInv
<1>24. ASSUME NEW j \in Jobs, NEW o \in Outcomes, DaemonFinish(j, o)
       PROVE  StopInv(k)'
  BY <1>24, <1>i DEF DaemonFinish, StopInv
<1>25. ASSUME NEW j \in Jobs, DaemonDies(j) PROVE StopInv(k)'
  BY <1>25, <1>t, <1>i DEF DaemonDies, StopInv
<1>26. ASSUME NEW j \in Jobs, DaemonHangs(j) PROVE StopInv(k)'
  BY <1>26, <1>t, <1>i DEF DaemonHangs, StopInv
<1>27. CASE UNCHANGED vars
  BY <1>27, <1>i DEF vars, StopInv
<1>28. QED
  BY <1>1, <1>2, <1>3, <1>4, <1>5, <1>6, <1>7, <1>8, <1>9, <1>10, <1>11,
     <1>12, <1>13, <1>14, <1>15, <1>16, <1>17, <1>18, <1>19, <1>20, <1>21,
     <1>22, <1>23, <1>24, <1>25, <1>26, <1>27 DEF Next, Web, Perform,
     DaemonStep

----------------------------------------------------------------------------

LEMMA InvariantInit == Init => IInv
<1> SUFFICES ASSUME Init PROVE IInv
  OBVIOUS
<1>1. TypeOK
  BY TypeInit
<1>2. QueueInv
  BY DEF Init, QueueInv
<1>3. ASSUME NEW j \in Jobs
      PROVE  /\ RequestInv(j) /\ LedgerInv(j) /\ VersionInv(j) /\ RowInv(j)
             /\ SuccessInv(j) /\ AnswerInv(j) /\ HeldInv(j) /\ StopInv(j)
  <2>1. RequestInv(j) /\ HeldInv(j) /\ StopInv(j)
    BY DEF Init, RequestInv, HeldInv, StopInv, Present, InLoop
  <2>2. LedgerInv(j) /\ VersionInv(j) /\ AnswerInv(j)
    BY DEF Init, LedgerInv, VersionInv, AnswerInv, Paused
  <2>3. RowInv(j) /\ SuccessInv(j)
    BY DEF Init, RowInv, SuccessInv, Waiting, Complete, Through, Concluded
  <2>4. QED
    BY <2>1, <2>2, <2>3
<1>4. QED
  BY <1>1, <1>2, <1>3 DEF IInv

(* The inductive invariant of SsuSync: types, the queue, and for every job  *)
(* the state of its row, statements, versions and answers in each phase of  *)
(* SyncJob#perform.                                                         *)
THEOREM InvariantHolds == Spec => []IInv
<1>1. IInv /\ [Next]_vars => IInv'
  <2> SUFFICES ASSUME IInv, [Next]_vars PROVE IInv'
    OBVIOUS
  <2>1. TypeOK'
    BY TypeStep DEF IInv
  <2>2. QueueInv'
    BY QueueStep
  <2>3. ASSUME NEW j \in Jobs
        PROVE  /\ RequestInv(j)' /\ LedgerInv(j)' /\ VersionInv(j)' /\ RowInv(j)'
               /\ SuccessInv(j)' /\ AnswerInv(j)' /\ HeldInv(j)' /\ StopInv(j)'
    BY RequestStep, LedgerStep, VersionStep, RowStep, SuccessStep, AnswerStep,
       HeldStep, StopStep
  <2>4. QED
    BY <2>1, <2>2, <2>3 DEF IInv
<1>2. QED
  BY <1>1, InvariantInit, PTL DEF Spec

(* Every variable keeps its type; the ssu_jobs codes and versions stay in   *)
(* their ranges whatever the daemon reports.                                *)
THEOREM TypeCorrect == Spec => []TypeOK
<1>1. IInv => TypeOK
  BY DEF IInv
<1>2. QED
  BY <1>1, InvariantHolds, PTL

=============================================================================
