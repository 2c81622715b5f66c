------------------------------ MODULE SsuSync ------------------------------
(***************************************************************************)
(* The server-side uploader (SSU) pipeline: a web request stores bank      *)
(* credentials and enqueues a sync, a Resque worker drives an SSU daemon   *)
(* through it, mirrors the daemon's status into the ssu_jobs row the       *)
(* browser polls, relays the user's answers to security questions and      *)
(* hands every downloaded statement to the import queue.                   *)
(*                                                                         *)
(* A job guid stands for one call of AccountCred#enqueue_sync: the web     *)
(* request that makes the call, the queued Resque job, the worker that     *)
(* performs it, its daemon process and its ssu_jobs row all carry it.      *)
(* Records of the program are kept one function per column or instance     *)
(* variable; the prefix says whose they are.                               *)
(***************************************************************************)
EXTENDS Naturals, Sequences, FiniteSets

CONSTANTS
  Creds,        \* ids of account_creds rows
  Jobs,         \* job guids (SSU::SyncJob.make_jobid)
  Answers,      \* values the JSON in account_creds.creds can have
  Statements,   \* names of the statements a bank site offers
  Outcomes,     \* status codes with which the daemon may complete a job
  MaxVersion,   \* bound on the daemon's status version
  Workers       \* how many Resque workers serve the queue "low"

(* SsuJob::Status, and the status of a row that was not created *)
Successful   == 200
Pending      == 202
GeneralError == 500
Absent       == 0

ASSUME OutcomesAssumption == Outcomes \subseteq (Nat \ {Absent, Pending})
ASSUME SetsAssumption     == Creds # {} /\ Answers # {} /\ IsFiniteSet(Jobs)
ASSUME BoundsAssumption   == MaxVersion \in Nat \ {0} /\ Workers \in Nat

VARIABLES
  credState, credAnswers,            \* account_creds: is there a row; creds
  reqState, reqCred, reqAnswers,     \* the web request: how far it is; what
                                     \* it loaded and passes to Resque
  low,                               \* the Resque queue of the sync jobs
  rowStatus, rowVersion,             \* ssu_jobs: status and version; whether
  rowFresh, rowSeq,                  \* updated_at is less than 3 hours ago;
                                     \* the order of created_at
  pc,                                \* where SyncJob#perform is
  knownVersion,                      \* @status: version (0 while it is nil),
  knownStatus, knownAsking,          \* status code, result is suspended.*
  held, resumed,                     \* @creds, @last_resumed_version (or 0)
  memo,                              \* @ssu_job and its memoised account_cred
  seen, todo,                        \* @statements, statements_to_process
  daemon,                            \* the external SSU daemon process; its
  dVersion, dStatus, dAsking,        \* job's version, status, open question,
  dListed, dAnswers, dResumes,       \* statements, answers; job.resume's sent
                                     \* while it was at this version
  imports                            \* StatementImport jobs pushed to "normal"

credVars   == <<credState, credAnswers>>
reqVars    == <<reqState, reqCred, reqAnswers>>
rowVars    == <<rowStatus, rowVersion, rowFresh, rowSeq>>
knownVars  == <<knownVersion, knownStatus, knownAsking>>
ledgerVars == <<seen, todo, imports>>
localVars  == <<knownVars, held, resumed, memo>>
workerVars == <<pc, localVars, ledgerVars>>
siteVars   == <<dVersion, dStatus, dAsking, dListed, dAnswers, dResumes>>
daemonVars == <<daemon, siteVars>>
webVars    == <<credVars, reqVars, low>>
vars == <<webVars, rowVars, workerVars, daemonVars>>

----------------------------------------------------------------------------
(* Types *)

Codes == {Absent, Successful, Pending, GeneralError} \cup Outcomes

InLoop == {"poll", "status", "list", "enqueue", "decide"}
Active == InLoop \cup {"start", "begin", "stop", "timeout", "rescue"}
Ended  == {"returned",  \* perform returned
           "raised",    \* perform re-raised out of `rescue Object'
           "escaped",   \* an exception left perform past its rescues
           "killed"}    \* the worker process died
Labels == Active \cup Ended \cup {"off"}

Memos == {"none",    \* @ssu_job is nil
          "row",     \* it is set, its account_cred not loaded
          "cred",    \* its account_cred is loaded
          "gone"}    \* its account_cred was reloaded and not there

TypeOK ==
  /\ credState    \in [Creds -> {"none", "stored", "destroyed"}]
  /\ credAnswers  \in [Creds -> Answers]
  /\ reqState     \in [Jobs -> {"idle", "loaded", "pushed", "done", "died"}]
  /\ reqCred      \in [Jobs -> Creds]
  /\ reqAnswers   \in [Jobs -> Answers]
  /\ low          \in Seq(Jobs)
  /\ rowStatus    \in [Jobs -> Codes]
  /\ rowVersion   \in [Jobs -> Nat]
  /\ rowFresh     \in [Jobs -> BOOLEAN]
  /\ rowSeq       \in [Jobs -> Nat]
  /\ pc           \in [Jobs -> Labels]
  /\ knownVersion \in [Jobs -> Nat]
  /\ knownStatus  \in [Jobs -> Codes]
  /\ knownAsking  \in [Jobs -> BOOLEAN]
  /\ held         \in [Jobs -> Answers]
  /\ resumed      \in [Jobs -> Nat]
  /\ memo         \in [Jobs -> Memos]
  /\ seen         \in [Jobs -> SUBSET Statements]
  /\ todo         \in [Jobs -> SUBSET Statements]
  /\ imports      \in [Jobs -> [Statements -> Nat]]
  /\ daemon       \in [Jobs -> {"down", "up", "hung"}]
  /\ dVersion     \in [Jobs -> Nat]
  /\ dStatus      \in [Jobs -> Codes]
  /\ dAsking      \in [Jobs -> BOOLEAN]
  /\ dListed      \in [Jobs -> SUBSET Statements]
  /\ dAnswers     \in [Jobs -> Answers]
  /\ dResumes     \in [Jobs -> Nat]

----------------------------------------------------------------------------
(* The tables *)

Stored(c)  == credState[c] = "stored"
Present(j) == rowStatus[j] # Absent
JobsOf(c)  == {j \in Jobs : Present(j) /\ reqCred[j] = c}

(* AccountCred.has_one :last_job, :order => 'created_at DESC' *)
LastJob(j, c) == j \in JobsOf(c) /\ \A k \in JobsOf(c) : rowSeq[k] <= rowSeq[j]

(* AccountUpdateManager#login!: last_job.nil? || updated_at < 3.hours.ago   *)
NeedsUpdate(c) == \A j \in Jobs : LastJob(j, c) => ~rowFresh[j]

(* What a column holds before its row exists *)
SomeCred    == CHOOSE c \in Creds : TRUE
SomeAnswers == CHOOSE a \in Answers : TRUE

Init ==
  /\ credState = [c \in Creds |-> "none"]
  /\ credAnswers = [c \in Creds |-> SomeAnswers]
  /\ reqState = [j \in Jobs |-> "idle"]
  /\ reqCred = [j \in Jobs |-> SomeCred]
  /\ reqAnswers = [j \in Jobs |-> SomeAnswers]
  /\ low = << >>
  /\ rowStatus = [j \in Jobs |-> Absent]
  /\ rowVersion = [j \in Jobs |-> 0]
  /\ rowFresh = [j \in Jobs |-> FALSE]
  /\ rowSeq = [j \in Jobs |-> 0]
  /\ pc = [j \in Jobs |-> "off"]
  /\ knownVersion = [j \in Jobs |-> 0]
  /\ knownStatus = [j \in Jobs |-> Pending]
  /\ knownAsking = [j \in Jobs |-> FALSE]
  /\ held = [j \in Jobs |-> SomeAnswers]
  /\ resumed = [j \in Jobs |-> 0]
  /\ memo = [j \in Jobs |-> "none"]
  /\ seen = [j \in Jobs |-> {}]
  /\ todo = [j \in Jobs |-> {}]
  /\ imports = [j \in Jobs |-> [s \in Statements |-> 0]]
  /\ daemon = [j \in Jobs |-> "down"]
  /\ dVersion = [j \in Jobs |-> 0]
  /\ dStatus = [j \in Jobs |-> Pending]
  /\ dAsking = [j \in Jobs |-> FALSE]
  /\ dListed = [j \in Jobs |-> {}]
  /\ dAnswers = [j \in Jobs |-> SomeAnswers]
  /\ dResumes = [j \in Jobs |-> 0]

----------------------------------------------------------------------------
(* The web application *)

(* POST /credentials *)
CreateCred(c, a) ==
  /\ credState[c] = "none"
  /\ credState' = [credState EXCEPT ![c] = "stored"]
  /\ credAnswers' = [credAnswers EXCEPT ![c] = a]
  /\ UNCHANGED <<reqVars, low, rowVars, workerVars, daemonVars>>

(* PUT /credentials/:id, also how the browser answers a security question   *)
UpdateCred(c, a) ==
  /\ Stored(c)
  /\ credAnswers' = [credAnswers EXCEPT ![c] = a]
  /\ UNCHANGED <<credState, reqVars, low, rowVars, workerVars, daemonVars>>

(* DELETE /credentials/:id, and Account#destroy for the last account of the *)
(* credentials: no callback touches the jobs.                               *)
DestroyCred(c) ==
  /\ Stored(c)
  /\ credState' = [credState EXCEPT ![c] = "destroyed"]
  /\ UNCHANGED <<credAnswers, reqVars, low, rowVars, workerVars, daemonVars>>

Load(j, c) ==
  /\ reqState[j] = "idle"
  /\ Stored(c)
  /\ reqState' = [reqState EXCEPT ![j] = "loaded"]
  /\ reqCred' = [reqCred EXCEPT ![j] = c]
  /\ reqAnswers' = [reqAnswers EXCEPT ![j] = credAnswers[c]]
  /\ UNCHANGED <<credVars, low, rowVars, workerVars, daemonVars>>

(* POST /credentials/:id/jobs loads the credentials, whatever jobs exist    *)
RequestJob(j, c) == Load(j, c)

(* A login, or POST /accounts/trigger_updates, looks at the last job first  *)
Login(j, c) == NeedsUpdate(c) /\ Load(j, c)

(* AccountCred#enqueue_sync: Resque.enqueue with the loaded creds ...       *)
PushJob(j) ==
  /\ reqState[j] = "loaded"
  /\ reqState' = [reqState EXCEPT ![j] = "pushed"]
  /\ low' = Append(low, j)
  /\ UNCHANGED <<credVars, reqCred, reqAnswers, rowVars, workerVars, daemonVars>>

(* ... and only then SsuJob.create!                                         *)
CreateRow(j) ==
  /\ reqState[j] = "pushed"
  /\ reqState' = [reqState EXCEPT ![j] = "done"]
  /\ rowStatus' = [rowStatus EXCEPT ![j] = Pending]
  /\ rowVersion' = [rowVersion EXCEPT ![j] = 0]
  /\ rowFresh' = [rowFresh EXCEPT ![j] = TRUE]
  /\ rowSeq' = [rowSeq EXCEPT ![j] = Cardinality({k \in Jobs : Present(k)}) + 1]
  /\ UNCHANGED <<credVars, reqCred, reqAnswers, low, workerVars, daemonVars>>

(* The web process dies, or create! raises, before the request is through   *)
RequestDies(j) ==
  /\ reqState[j] \in {"loaded", "pushed"}
  /\ reqState' = [reqState EXCEPT ![j] = "died"]
  /\ UNCHANGED <<credVars, reqCred, reqAnswers, low, rowVars, workerVars, daemonVars>>

(* Three hours pass without an update of the row                            *)
Age(j) ==
  /\ rowFresh[j]
  /\ rowFresh' = [rowFresh EXCEPT ![j] = FALSE]
  /\ UNCHANGED <<webVars, rowStatus, rowVersion, rowSeq, workerVars, daemonVars>>

----------------------------------------------------------------------------
(* The worker *)

Goto(j, label) == pc' = [pc EXCEPT ![j] = label]

(* The daemon of the job answers a request                                  *)
Responds(j) == daemon[j] = "up"

(* SyncJob#ssu_job, memoised once it is not nil                             *)
Found(j) == memo[j] # "none" \/ Present(j)

(* @ssu_job.account_cred is not nil; SsuJob validates its presence, so      *)
(* without it update_attributes returns false and writes nothing.           *)
CredFound(j) == memo[j] = "cred" \/ (memo[j] # "gone" /\ Stored(reqCred[j]))

(* What a look at @ssu_job and its account_cred leaves memoised             *)
Look(j) ==
  memo' = [memo EXCEPT ![j] = IF Found(j) /\ CredFound(j) THEN "cred"
                              ELSE IF Found(j) /\ @ = "none" THEN "row" ELSE @]

(* Mutant: the job is put back to pending, to be tried again.               *)
FailRowForRetry(j) ==
  /\ rowStatus' = IF Found(j) /\ CredFound(j)
                  THEN [rowStatus EXCEPT ![j] = Pending] ELSE rowStatus
  /\ rowFresh' = rowFresh
  /\ Look(j)
  /\ UNCHANGED <<rowVersion, rowSeq>>

(* ssu_job && ssu_job.update_attributes(:status => 500, ...)                *)
FailRow(j) ==
  /\ rowStatus' = IF Found(j) /\ CredFound(j)
                  THEN [rowStatus EXCEPT ![j] = GeneralError] ELSE rowStatus
  /\ rowFresh' = IF Found(j) /\ CredFound(j)
                 THEN [rowFresh EXCEPT ![j] = TRUE] ELSE rowFresh
  /\ Look(j)
  /\ UNCHANGED <<rowVersion, rowSeq>>

(* Mutant: a worker that is through with a job does not take another.       *)
TakeJobOnce(j) ==
  /\ low # << >> /\ Head(low) = j
  /\ Cardinality({k \in Jobs : pc[k] # "off"}) < Workers
  /\ low' = Tail(low)
  /\ held' = [held EXCEPT ![j] = reqAnswers[j]]
  /\ Goto(j, "start")
  /\ UNCHANGED <<credVars, reqVars, rowVars, knownVars, resumed, memo, ledgerVars,
                 daemonVars>>

(* Resque pops the head of "low" when one of the workers is free            *)
TakeJob(j) ==
  /\ low # << >> /\ Head(low) = j
  /\ Cardinality({k \in Jobs : pc[k] \in Active}) < Workers
  /\ low' = Tail(low)
  /\ held' = [held EXCEPT ![j] = reqAnswers[j]]
  /\ Goto(j, "start")
  /\ UNCHANGED <<credVars, reqVars, rowVars, knownVars, resumed, memo, ledgerVars,
                 daemonVars>>

(* daemon.start, outside of perform's begin/rescue                          *)
StartDaemon(j) ==
  /\ pc[j] = "start"
  /\ \/ daemon' = [daemon EXCEPT ![j] = "up"] /\ Goto(j, "begin")
     \/ daemon' = daemon /\ Goto(j, "escaped")
  /\ UNCHANGED <<webVars, rowVars, localVars, ledgerVars, siteVars>>

(* start_sync                                                               *)
StartSync(j) ==
  /\ pc[j] = "begin"
  /\ Responds(j)
  /\ dVersion' = [dVersion EXCEPT ![j] = 1]
  /\ dAnswers' = [dAnswers EXCEPT ![j] = held[j]]
  /\ Goto(j, "poll")
  /\ UNCHANGED <<webVars, rowVars, localVars, ledgerVars, daemon, dStatus, dAsking,
                 dListed, dResumes>>

(* while daemon.running? ...; a daemon that is gone fails the row           *)
PollRunning(j) ==
  /\ pc[j] = "poll"
  /\ daemon[j] # "down"
  /\ Goto(j, "status")
  /\ UNCHANGED <<webVars, rowVars, localVars, ledgerVars, daemonVars>>

PollQuit(j) ==
  /\ pc[j] = "poll"
  /\ daemon[j] = "down"
  /\ FailRow(j)
  /\ Goto(j, "stop")
  /\ UNCHANGED <<webVars, knownVars, held, resumed, ledgerVars, daemonVars>>

(* job.status and status=: a status that is not newer is dropped, a newer   *)
(* one is kept and mirrored into the row, if there is one by now.           *)
NewerStatus(j) == knownVersion[j] < dVersion[j]

KeepStatus(j) ==
  /\ knownVersion' = [knownVersion EXCEPT ![j] = dVersion[j]]
  /\ knownStatus' = [knownStatus EXCEPT ![j] = dStatus[j]]
  /\ knownAsking' = [knownAsking EXCEPT ![j] = dAsking[j]]

SameStatus(j) ==
  /\ pc[j] = "status"
  /\ Responds(j) /\ ~NewerStatus(j)
  /\ Goto(j, "list")
  /\ UNCHANGED <<webVars, rowVars, localVars, ledgerVars, daemonVars>>

NewStatus(j) ==
  /\ pc[j] = "status"
  /\ Responds(j) /\ NewerStatus(j)
  /\ KeepStatus(j)
  /\ Look(j)
  /\ \/ ~Found(j) /\ UNCHANGED rowVars
     \/ /\ Found(j) /\ CredFound(j)
        /\ rowStatus' = [rowStatus EXCEPT ![j] = dStatus[j]]
        /\ rowVersion' = [rowVersion EXCEPT ![j] = dVersion[j]]
        /\ rowFresh' = [rowFresh EXCEPT ![j] = TRUE]
        /\ rowSeq' = rowSeq
  /\ Goto(j, "list")
  /\ UNCHANGED <<webVars, held, resumed, ledgerVars, daemonVars>>

(* The row cannot be saved, and ssu_job.account_cred.update_attributes with *)
(* the cookies raises NoMethodError.                                        *)
StatusWithoutCred(j) ==
  /\ pc[j] = "status"
  /\ Responds(j) /\ NewerStatus(j)
  /\ Found(j) /\ ~CredFound(j)
  /\ KeepStatus(j)
  /\ Look(j)
  /\ Goto(j, "rescue")
  /\ UNCHANGED <<webVars, rowVars, held, resumed, ledgerVars, daemonVars>>

(* Mutant: all statements of the list are processed, not the new ones.      *)
GetStatementsAgain(j) ==
  /\ pc[j] = "list"
  /\ Responds(j)
  /\ todo' = [todo EXCEPT ![j] = dListed[j]]
  /\ seen' = [seen EXCEPT ![j] = dListed[j]]
  /\ Goto(j, "enqueue")
  /\ UNCHANGED <<webVars, rowVars, localVars, imports, daemonVars>>

(* statements=: the new ones are to be processed, the list replaces the old *)
GetStatements(j) ==
  /\ pc[j] = "list"
  /\ Responds(j)
  /\ todo' = [todo EXCEPT ![j] = dListed[j] \ seen[j]]
  /\ seen' = [seen EXCEPT ![j] = dListed[j]]
  /\ Goto(j, "enqueue")
  /\ UNCHANGED <<webVars, rowVars, localVars, imports, daemonVars>>

(* One turn of statements_to_process.each                                   *)
EnqueueStatement(j, s) ==
  /\ pc[j] = "enqueue"
  /\ Responds(j)
  /\ s \in todo[j]
  /\ todo' = [todo EXCEPT ![j] = @ \ {s}]
  /\ imports' = [imports EXCEPT ![j][s] = @ + 1]
  /\ UNCHANGED <<webVars, rowVars, pc, localVars, seen, daemonVars>>

(* complete?                                                                *)
Complete(j) == knownStatus[j] # Pending

(* Mutant: a complete job is left before its statements are enqueued.       *)
EnqueuedSome(j) ==
  /\ pc[j] = "enqueue"
  /\ todo[j] = {} \/ Complete(j)
  /\ Goto(j, IF Complete(j) THEN "stop" ELSE "decide")
  /\ UNCHANGED <<webVars, rowVars, localVars, ledgerVars, daemonVars>>

EnqueuedAll(j) ==
  /\ pc[j] = "enqueue"
  /\ todo[j] = {}
  /\ Goto(j, IF Complete(j) THEN "stop" ELSE "decide")
  /\ UNCHANGED <<webVars, rowVars, localVars, ledgerVars, daemonVars>>

(* Mutants: job.resume is not remembered, or it is remembered for ever.     *)
PausedWhileAsked(j) == knownAsking[j]
PausedOnce(j)       == knownAsking[j] /\ resumed[j] = 0

(* paused?                                                                  *)
Paused(j) == knownAsking[j] /\ resumed[j] < knownVersion[j]

(* paused? && account_cred: the credentials are to be looked at again       *)
ChecksCreds(j) == Paused(j) /\ Found(j) /\ CredFound(j)

(* Mutant: creds= does not compare.                                         *)
AnyAnswers(j) == credAnswers[reqCred[j]] = credAnswers[reqCred[j]]

(* The credentials in the table are not the ones the worker holds           *)
NewAnswers(j) == credAnswers[reqCred[j]] # held[j]

KeepWaiting(j) ==
  /\ pc[j] = "decide"
  /\ ChecksCreds(j) => Stored(reqCred[j]) /\ ~NewAnswers(j)
  /\ IF Paused(j) THEN Look(j) ELSE UNCHANGED memo
  /\ Goto(j, "poll")
  /\ UNCHANGED <<webVars, rowVars, knownVars, held, resumed, ledgerVars, daemonVars>>

(* Mutant: the credentials sent with job.resume are not kept.               *)
ResumeForgets(j) ==
  /\ pc[j] = "decide"
  /\ ChecksCreds(j) /\ Stored(reqCred[j]) /\ NewAnswers(j)
  /\ Responds(j)
  /\ resumed' = [resumed EXCEPT ![j] = knownVersion[j]]
  /\ Look(j)
  /\ dAnswers' = [dAnswers EXCEPT ![j] = credAnswers[reqCred[j]]]
  /\ dResumes' = [dResumes EXCEPT ![j] = @ + 1]
  /\ Goto(j, "poll")
  /\ UNCHANGED <<webVars, rowVars, knownVars, held, ledgerVars, daemon, dVersion,
                 dStatus, dAsking, dListed>>

(* creds= while paused: remember the version, send job.resume               *)
Resume(j) ==
  /\ pc[j] = "decide"
  /\ ChecksCreds(j) /\ Stored(reqCred[j]) /\ NewAnswers(j)
  /\ Responds(j)
  /\ held' = [held EXCEPT ![j] = credAnswers[reqCred[j]]]
  /\ resumed' = [resumed EXCEPT ![j] = knownVersion[j]]
  /\ Look(j)
  /\ dAnswers' = [dAnswers EXCEPT ![j] = credAnswers[reqCred[j]]]
  /\ dResumes' = [dResumes EXCEPT ![j] = @ + 1]
  /\ Goto(j, "poll")
  /\ UNCHANGED <<webVars, rowVars, knownVars, ledgerVars, daemon, dVersion, dStatus,
                 dAsking, dListed>>

(* account_cred.reload finds no record: the association is nil from now on  *)
ReloadMissing(j) ==
  /\ pc[j] = "decide"
  /\ ChecksCreds(j) /\ ~Stored(reqCred[j])
  /\ memo' = [memo EXCEPT ![j] = "gone"]
  /\ Goto(j, "rescue")
  /\ UNCHANGED <<webVars, rowVars, knownVars, held, resumed, ledgerVars, daemonVars>>

(* Any request to the daemon may raise: it is down, it refuses, or Resque   *)
(* is unreachable. A hung daemon never answers at all.                      *)
Requesting(j) ==
  \/ pc[j] \in {"begin", "status", "list"}
  \/ pc[j] = "enqueue" /\ todo[j] # {}
  \/ pc[j] = "decide" /\ ChecksCreds(j) /\ Stored(reqCred[j]) /\ NewAnswers(j)

RequestFails(j) ==
  /\ Requesting(j)
  /\ daemon[j] # "hung"
  /\ Goto(j, "rescue")
  /\ UNCHANGED <<webVars, rowVars, localVars, ledgerVars, daemonVars>>

(* Mutant: only the request for the status is timed out.                    *)
TimeoutOfStatus(j) ==
  /\ pc[j] = "status"
  /\ Goto(j, "timeout")
  /\ UNCHANGED <<webVars, rowVars, localVars, ledgerVars, daemonVars>>

(* Timeout.timeout(10*60) around wait_for_sync_to_finish                    *)
Timeout(j) ==
  /\ pc[j] \in InLoop
  /\ Goto(j, "timeout")
  /\ UNCHANGED <<webVars, rowVars, localVars, ledgerVars, daemonVars>>

StopDaemon(j) == daemon' = [daemon EXCEPT ![j] = "down"]

(* Mutant: an error of daemon.stop is ignored.                              *)
StopAnyway(j) ==
  /\ pc[j] = "stop"
  /\ StopDaemon(j) \/ UNCHANGED daemon
  /\ Goto(j, "returned")
  /\ UNCHANGED <<webVars, rowVars, localVars, ledgerVars, siteVars>>

(* daemon.stop after the loop; an error there lands in `rescue Object'      *)
Stop(j) ==
  /\ pc[j] = "stop"
  /\ \/ StopDaemon(j) /\ Goto(j, "returned")
     \/ UNCHANGED daemon /\ Goto(j, "rescue")
  /\ UNCHANGED <<webVars, rowVars, localVars, ledgerVars, siteVars>>

(* rescue Timeout::Error; nothing rescues an error of its daemon.stop       *)
RescueTimeout(j) ==
  /\ pc[j] = "timeout"
  /\ \/ StopDaemon(j) /\ FailRow(j) /\ Goto(j, "returned")
     \/ UNCHANGED <<daemon, rowVars, memo>> /\ Goto(j, "escaped")
  /\ UNCHANGED <<webVars, knownVars, held, resumed, ledgerVars, siteVars>>

(* Mutant: the exception goes on before the row is told.                    *)
RescueSilently(j) ==
  /\ pc[j] = "rescue"
  /\ StopDaemon(j) \/ UNCHANGED daemon
  /\ Goto(j, "raised")
  /\ UNCHANGED <<webVars, rowVars, localVars, ledgerVars, siteVars>>

(* rescue Object: an error of daemon.stop is logged, the exception goes on  *)
RescueObject(j) ==
  /\ pc[j] = "rescue"
  /\ StopDaemon(j) \/ UNCHANGED daemon
  /\ FailRow(j)
  /\ Goto(j, "raised")
  /\ UNCHANGED <<webVars, knownVars, held, resumed, ledgerVars, siteVars>>

(* The worker process is killed; its daemon is not its child and lives on   *)
Kill(j) ==
  /\ pc[j] \in Active
  /\ Goto(j, "killed")
  /\ UNCHANGED <<webVars, rowVars, localVars, ledgerVars, daemonVars>>

----------------------------------------------------------------------------
(* The SSU daemon (external), as the requests of SyncJob show it            *)

Syncing(j) == Responds(j) /\ dVersion[j] > 0 /\ dStatus[j] = Pending

(* It makes progress or asks a security question; a question it asked is    *)
(* answered by job.resume.                                                  *)
DaemonAdvance(j, asking) ==
  /\ Syncing(j)
  /\ dAsking[j] => dResumes[j] > 0
  /\ dVersion[j] + 1 < MaxVersion
  /\ dVersion' = [dVersion EXCEPT ![j] = @ + 1]
  /\ dAsking' = [dAsking EXCEPT ![j] = asking]
  /\ dResumes' = [dResumes EXCEPT ![j] = 0]
  /\ UNCHANGED <<webVars, rowVars, workerVars, daemon, dStatus, dListed, dAnswers>>

DaemonDownload(j, s) ==
  /\ Syncing(j) /\ ~dAsking[j]
  /\ s \notin dListed[j]
  /\ dListed' = [dListed EXCEPT ![j] = @ \cup {s}]
  /\ UNCHANGED <<webVars, rowVars, workerVars, daemon, dVersion, dStatus, dAsking,
                 dAnswers, dResumes>>

(* Also while it asks: it gives up on an answer in its own time.            *)
DaemonFinish(j, outcome) ==
  /\ Syncing(j)
  /\ dVersion[j] < MaxVersion
  /\ dVersion' = [dVersion EXCEPT ![j] = @ + 1]
  /\ dStatus' = [dStatus EXCEPT ![j] = outcome]
  /\ dAsking' = [dAsking EXCEPT ![j] = FALSE]
  /\ UNCHANGED <<webVars, rowVars, workerVars, daemon, dListed, dAnswers, dResumes>>

DaemonDies(j) ==
  /\ daemon[j] # "down"
  /\ daemon' = [daemon EXCEPT ![j] = "down"]
  /\ UNCHANGED <<webVars, rowVars, workerVars, siteVars>>

DaemonHangs(j) ==
  /\ daemon[j] = "up"
  /\ daemon' = [daemon EXCEPT ![j] = "hung"]
  /\ UNCHANGED <<webVars, rowVars, workerVars, siteVars>>

----------------------------------------------------------------------------

Web ==
  \/ \E c \in Creds :
       \/ \E a \in Answers : CreateCred(c, a) \/ UpdateCred(c, a)
       \/ DestroyCred(c)
       \/ \E j \in Jobs : RequestJob(j, c) \/ Login(j, c)
  \/ \E j \in Jobs : PushJob(j) \/ CreateRow(j) \/ RequestDies(j) \/ Age(j)

Perform(j) ==
  \/ TakeJob(j) \/ StartDaemon(j) \/ StartSync(j)
  \/ PollRunning(j) \/ PollQuit(j)
  \/ SameStatus(j) \/ NewStatus(j) \/ StatusWithoutCred(j) \/ GetStatements(j)
  \/ (\E s \in Statements : EnqueueStatement(j, s)) \/ EnqueuedAll(j)
  \/ KeepWaiting(j) \/ Resume(j) \/ ReloadMissing(j)
  \/ RequestFails(j) \/ Stop(j) \/ RescueTimeout(j) \/ RescueObject(j)

DaemonStep(j) ==
  \/ \E asking \in BOOLEAN : DaemonAdvance(j, asking)
  \/ \E s \in Statements : DaemonDownload(j, s)
  \/ \E o \in Outcomes : DaemonFinish(j, o)
  \/ DaemonDies(j) \/ DaemonHangs(j)

Next ==
  \/ Web
  \/ \E j \in Jobs : Perform(j) \/ Timeout(j) \/ Kill(j) \/ DaemonStep(j)

Spec == Init /\ [][Next]_vars

(* A worker that runs goes on; nothing makes users, daemons or crashes      *)
(* happen.                                                                  *)
WorkersRun == \A j \in Jobs : WF_vars(Perform(j))

(* Ten minutes in the loop end in Timeout::Error                            *)
ClockRuns == \A j \in Jobs : WF_vars(Timeout(j))

RunningSpec == Spec /\ WorkersRun
FairSpec    == Spec /\ WorkersRun /\ ClockRuns

----------------------------------------------------------------------------
(* Safety *)

(* However often the worker polls statement.list, and wherever a timeout or *)
(* an error cuts it short, no statement is pushed to the import queue twice *)
(* by one job (SyncJob#statements=).                                        *)
StatementsOnce == \A j \in Jobs, s \in Statements : imports[j][s] <= 1

(* perform came to an end by itself: not killed, and no error of            *)
(* daemon.start or of the daemon.stop in `rescue Timeout::Error'            *)
Concluded(j) == pc[j] \in {"returned", "raised"}

(* A job that concluded with the row saying 200 has handed over every       *)
(* statement the daemon downloaded: the status is asked for before the      *)
(* list, the list is worked off before complete? ends the loop, and a       *)
(* failure in between turns the 200 into a 500.                             *)
SuccessMeansDelivered ==
  \A j \in Jobs : Concluded(j) /\ rowStatus[j] = Successful
                    => \A s \in dListed[j] : imports[j][s] > 0

(* A concluded job leaves its row pending only when the worker never saw    *)
(* the row (it was created too late) or the credentials were destroyed      *)
(* under it (SsuJob then fails its own validation and is never saved).      *)
PendingExplained ==
  \A j \in Jobs : Concluded(j) /\ rowStatus[j] = Pending
                    => memo[j] = "none" \/ ~Stored(reqCred[j])

(* Each question of the bank is answered at most once, however often the    *)
(* user changes the credentials meanwhile (SyncJob#paused?, #creds=).       *)
QuestionsAnsweredOnce == \A j \in Jobs : dResumes[j] <= 1

(* job.resume is never sent with the answers the daemon has already.        *)
ResumeBringsNews ==
  [][\A j \in Jobs : dResumes'[j] > dResumes[j]
                       => dAnswers'[j] # dAnswers[j]]_vars

(* When perform returns the daemon is down: no xulrunner is left behind by  *)
(* a sync that completed, timed out, or lost its daemon.                    *)
DaemonReaped == \A j \in Jobs : pc[j] = "returned" => daemon[j] = "down"

(* What the browser and the other components may rely on about the row      *)
Lifecycle == INSTANCE SyncJobLifecycle WITH
               status  <- rowStatus,
               version <- rowVersion,
               closed  <- [j \in Jobs |-> pc[j] \in Ended]

RowKeepsLifecycle == Lifecycle!Spec

(* Liveness *)

(* While the clock runs no sync runs for ever: it ends, or its daemon hung  *)
(* before the timeout was armed (start_sync is outside of Timeout.timeout). *)
StuckStarting(j) == pc[j] = "begin" /\ daemon[j] = "hung"

WorkersEnd ==
  ClockRuns => \A j \in Jobs : pc[j] \in Active ~> pc[j] \in Ended \/ StuckStarting(j)

(* A job in the queue "low" is taken, unless stuck jobs hold the workers.   *)
QueueDrains ==
  \A j \in Jobs : reqState[j] = "pushed"
                    ~> pc[j] # "off" \/ \E k \in Jobs : StuckStarting(k)

(* The daemon waits for an answer and the table holds one the worker does   *)
(* not have: job.resume brings it, without help from the timeout, unless    *)
(* the user takes it back, the credentials or the daemon go away, or the    *)
(* loop ends.                                                               *)
AwaitsAnswer(j) ==
  /\ pc[j] \in InLoop
  /\ Syncing(j) /\ dAsking[j] /\ dResumes[j] = 0
  /\ Present(j) /\ Stored(reqCred[j]) /\ NewAnswers(j)

AnswersRelayed == \A j \in Jobs : AwaitsAnswer(j) ~> ~AwaitsAnswer(j)

(* What the tests say of it *)

(* spec/models/ssu_job_spec.rb:239: when the last job is still pending,     *)
(* starting another does not create a job                                   *)
NoSecondPendingJob ==
  \A c \in Creds : Cardinality({j \in JobsOf(c) : rowStatus[j] = Pending}) <= 1

(* spec/models/account_cred_spec.rb:176: the jobs of credentials are        *)
(* deleted with them                                                        *)
NoOrphanedJobs == \A j \in Jobs : Present(j) => credState[reqCred[j]] # "destroyed"

=============================================================================
