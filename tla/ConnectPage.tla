----------------------------- MODULE ConnectPage -----------------------------
(***************************************************************************)
(* The page on which a user connects a bank (credentials.NewPage): each    *)
(* click on Connect starts a chain of requests.  It stores the credentials *)
(* or their change, starts a sync job, and polls the job's row until the   *)
(* row says what to do: leave for the accounts, ask the user the bank's    *)
(* security questions, or begin again.  The chains share the page's URLs   *)
(* and the last version of the row anyone has seen.  The rows are those    *)
(* SyncJobLifecycle promises.                                              *)
(***************************************************************************)
EXTENDS Integers, FiniteSets

CONSTANTS
  MaxClicks,    \* bound on the clicks that send something
  HastyClicks,  \* the same for a user who does not wait for the form
  MaxVersion,   \* bound on the version of a row
  Retries,      \* failed polls a chain puts up with (errorsLeft, 5)
  MaxFailures   \* bound on the requests that fail

ASSUME BoundsAssumption ==
  {MaxClicks, HastyClicks, MaxVersion, Retries, MaxFailures} \subseteq Nat

Clicks   == 1..MaxClicks
None     == 0                  \* null, where a URL may be
Success  == 200
Pending  == 202
Refused  == 401                \* a failure the daemon reported
Error    == 500
Contents == {"login", "questions"}

VARIABLES
  fields, filled, enabled,     \* the form: what it asks for; no field is
                               \* empty; the fields can be edited
  cred, job, lastVersion,      \* _credentialURL, _jobURL, _lastVersion
  place,                       \* "open", "leaving" for the accounts, "left"
  phase, sent, target, watched, left, seen,
                               \* the chain of each click: its next step, the
                               \* fields and credentials it sent, the job it
                               \* watches, its errorsLeft, the answer it has
  creds,                       \* server: what each account_cred holds, {} for
                               \* one that is not there
  status, version, closed,     \* server: the ssu_jobs rows
  asking,                      \* the row's result begins with "suspended."
  owner,                       \* the row's account_cred
  failures, clicks,
  hasty                        \* history: Connect was clicked although the
                               \* form was disabled

formVars   == <<fields, filled, enabled>>
urlVars    == <<cred, job, lastVersion>>
pageVars   == <<formVars, urlVars, place>>
chainVars  == <<phase, sent, target, watched, left, seen>>
rowVars    == <<status, version, closed>>
serverVars == <<creds, rowVars, asking, owner>>
userVars   == <<clicks, hasty>>
vars == <<pageVars, chainVars, serverVars, failures, userVars>>

Row == INSTANCE SyncJobLifecycle WITH Jobs <- Clicks, Outcomes <- {Success, Refused}

Phases == {"none", "create", "created", "update", "updated", "start", "started",
           "poll", "polled", "wait", "over"}
Statuses == {0, Success, Pending, Refused, Error}
Answers  == [version : 0..MaxVersion, status : Statuses, asking : BOOLEAN]

FormTyped == fields \in Contents /\ filled \in BOOLEAN /\ enabled \in BOOLEAN

UrlsTyped ==
  /\ cred \in Clicks \cup {None} /\ job \in Clicks \cup {None}
  /\ lastVersion \in -1..MaxVersion
  /\ place \in {"open", "leaving", "left"}

ChainsTyped ==
  /\ phase \in [Clicks -> Phases]
  /\ sent \in [Clicks -> Contents]
  /\ target \in [Clicks -> Clicks \cup {None}]
  /\ watched \in [Clicks -> Clicks \cup {None}]
  /\ left \in [Clicks -> 0..Retries]
  /\ seen \in [Clicks -> Answers]

RowsTyped ==
  /\ creds \in [Clicks -> SUBSET Contents]
  /\ status \in [Clicks -> Statuses]
  /\ version \in [Clicks -> 0..MaxVersion]
  /\ closed \in [Clicks -> BOOLEAN]
  /\ asking \in [Clicks -> BOOLEAN]
  /\ owner \in [Clicks -> Clicks \cup {None}]

BoundsTyped ==
  failures \in 0..MaxFailures /\ clicks \in 0..MaxClicks /\ hasty \in BOOLEAN

TypeOK == FormTyped /\ UrlsTyped /\ ChainsTyped /\ RowsTyped /\ BoundsTyped

Unseen == [version |-> 0, status |-> 0, asking |-> FALSE]

(* NewPage#init, #setFinancialInstitution *)
Init ==
  /\ fields = "login" /\ filled = FALSE /\ enabled = TRUE
  /\ cred = None /\ job = None /\ lastVersion = -1
  /\ place = "open"
  /\ phase = [n \in Clicks |-> "none"]
  /\ sent = [n \in Clicks |-> "login"]
  /\ target = [n \in Clicks |-> None]
  /\ watched = [n \in Clicks |-> None]
  /\ left = [n \in Clicks |-> 0]
  /\ seen = [n \in Clicks |-> Unseen]
  /\ creds = [n \in Clicks |-> {}]
  /\ Row!Init
  /\ asking = [n \in Clicks |-> FALSE]
  /\ owner = [n \in Clicks |-> None]
  /\ failures = 0 /\ clicks = 0 /\ hasty = FALSE

-----------------------------------------------------------------------------
(* The user *)

Fill ==
  /\ place = "open"
  /\ enabled /\ ~filled
  /\ filled' = TRUE
  /\ UNCHANGED <<fields, enabled, urlVars, place, chainVars, serverVars, failures, userVars>>

(* _connectButtonWasClicked: the button is no field of the form, so that   *)
(* disabling the form leaves it as it is.  With an empty field nothing is  *)
(* sent.                                                                   *)
Connect(n) ==
  /\ place # "left"
  /\ filled
  /\ clicks < MaxClicks /\ n = clicks + 1
  /\ clicks' = n
  /\ hasty' = (hasty \/ ~enabled)
  /\ hasty' => n <= HastyClicks
  /\ enabled' = FALSE
  /\ phase' = [phase EXCEPT ![n] = IF cred = None THEN "create" ELSE "update"]
  /\ sent' = [sent EXCEPT ![n] = fields]
  /\ target' = [target EXCEPT ![n] = cred]
  /\ UNCHANGED <<fields, filled, urlVars, place, watched, left, seen, serverVars, failures>>

-----------------------------------------------------------------------------
(* The chains *)

Goto(n, label) == phase' = [phase EXCEPT ![n] = label]

(* Mutant: the last version is not forgotten.                              *)
ResetKeepsVersion ==
  /\ enabled' = TRUE
  /\ cred' = None /\ job' = None /\ lastVersion' = lastVersion
  /\ UNCHANGED <<fields, filled>>

(* Mutant: the form stays disabled.                                        *)
ResetUrlsOnly ==
  /\ enabled' = enabled
  /\ cred' = None /\ job' = None /\ lastVersion' = -1
  /\ UNCHANGED <<fields, filled>>

(* _reset: the fields stay as they are *)
Reset ==
  /\ enabled' = TRUE
  /\ cred' = None /\ job' = None /\ lastVersion' = -1
  /\ UNCHANGED <<fields, filled>>

(* Mutant: the location is kept before the old one is looked at.           *)
SavedFirst(n) ==
  /\ place # "left"
  /\ phase[n] \in {"created", "updated"}
  /\ cred' = IF phase[n] = "created" THEN target[n] ELSE cred
  /\ Goto(n, IF job # None THEN "poll" ELSE "over")
  /\ watched' = [watched EXCEPT ![n] = job]
  /\ left' = [left EXCEPT ![n] = Retries]
  /\ UNCHANGED <<formVars, job, lastVersion, place, sent, target, seen, serverVars, failures, userVars>>

(* The success of PUT or POST looks at the page's URL as it is now; to     *)
(* watch no job at all throws in jQuery.ajax.  An answered PUT whose URL   *)
(* was reset meanwhile brings no Location: the job is asked for at null.   *)
Saved(n) ==
  /\ place # "left"
  /\ phase[n] \in {"created", "updated"}
  /\ IF cred # None
       THEN /\ Goto(n, IF job # None THEN "poll" ELSE "over")
            /\ watched' = [watched EXCEPT ![n] = job]
            /\ left' = [left EXCEPT ![n] = Retries]
            /\ UNCHANGED <<cred, target>>
       ELSE /\ Goto(n, "start")
            /\ target' = IF phase[n] = "created" THEN target ELSE [target EXCEPT ![n] = None]
            /\ cred' = target'[n]
            /\ UNCHANGED <<watched, left>>
  /\ UNCHANGED <<formVars, job, lastVersion, place, sent, seen, serverVars, failures, userVars>>

(* _credentialCreated, _watchJob *)
Started(n) ==
  /\ place # "left"
  /\ phase[n] = "started"
  /\ job' = watched[n]
  /\ left' = [left EXCEPT ![n] = Retries]
  /\ Goto(n, "poll")
  /\ UNCHANGED <<formVars, cred, lastVersion, place, sent, target, watched, seen, serverVars,
                 failures, userVars>>

(* Mutant: a version that was seen is dealt with again.                    *)
StaleBelow(n) == seen[n].version < lastVersion

(* data.version <= me._lastVersion *)
Stale(n) == seen[n].version <= lastVersion

Polled(n) == place # "left" /\ phase[n] = "polled"

(* Mutant: the page notes the version it expects next.                     *)
NotesNext(n) == lastVersion' = seen[n].version + 1

Notes(n) == lastVersion' = seen[n].version

Skip(n) ==
  /\ Polled(n) /\ Stale(n)
  /\ Goto(n, "wait")
  /\ UNCHANGED <<pageVars, sent, target, watched, left, seen, serverVars, failures, userVars>>

Succeed(n) ==
  /\ Polled(n) /\ ~Stale(n)
  /\ seen[n].status = Success
  /\ Notes(n)
  /\ place' = "leaving"
  /\ Goto(n, "over")
  /\ UNCHANGED <<formVars, cred, job, sent, target, watched, left, seen, serverVars, failures,
                 userVars>>

(* askSecurityQuestions *)
Ask(n) ==
  /\ Polled(n) /\ ~Stale(n)
  /\ seen[n].status = Pending /\ seen[n].asking
  /\ Notes(n)
  /\ fields' = "questions" /\ filled' = FALSE /\ enabled' = TRUE
  /\ Goto(n, "over")
  /\ UNCHANGED <<cred, job, place, sent, target, watched, left, seen, serverVars, failures,
                 userVars>>

GoOn(n) ==
  /\ Polled(n) /\ ~Stale(n)
  /\ seen[n].status = Pending /\ ~seen[n].asking
  /\ Notes(n)
  /\ Goto(n, "wait")
  /\ UNCHANGED <<formVars, cred, job, place, sent, target, watched, left, seen, serverVars,
                 failures, userVars>>

GiveUp(n) ==
  /\ Polled(n) /\ ~Stale(n)
  /\ seen[n].status \in {Refused, Error}
  /\ Reset
  /\ Goto(n, "over")
  /\ UNCHANGED <<place, sent, target, watched, left, seen, serverVars, failures, userVars>>

(* setTimeout(pollStatus, ...) *)
PollAgain(n) ==
  /\ place # "left"
  /\ phase[n] = "wait"
  /\ Goto(n, "poll")
  /\ UNCHANGED <<pageVars, sent, target, watched, left, seen, serverVars, failures, userVars>>

(* The error callbacks: the request or its answer was lost *)
Unanswered(n) == phase[n] \in {"create", "created", "update", "updated", "start", "started"}
Unpolled(n)   == phase[n] \in {"poll", "polled"}

Lost == failures < MaxFailures /\ failures' = failures + 1

SaveOrStartFails(n) ==
  /\ place # "left"
  /\ Unanswered(n)
  /\ Lost
  /\ Reset
  /\ Goto(n, "over")
  /\ UNCHANGED <<place, sent, target, watched, left, seen, serverVars, userVars>>

PollFails(n) ==
  /\ place # "left"
  /\ Unpolled(n)
  /\ Lost
  /\ IF left[n] > 0
       THEN /\ left' = [left EXCEPT ![n] = @ - 1]
            /\ Goto(n, "wait")
            /\ UNCHANGED <<formVars, urlVars>>
       ELSE Reset /\ Goto(n, "over") /\ left' = left
  /\ seen' = [seen EXCEPT ![n] = Unseen]
  /\ UNCHANGED <<place, sent, target, watched, serverVars, userVars>>

(* POST null/jobs: the controller finds no credentials *)
StartRefused(n) ==
  /\ place # "left"
  /\ phase[n] = "start" /\ target[n] = None
  /\ Reset
  /\ Goto(n, "over")
  /\ UNCHANGED <<place, sent, target, watched, left, seen, serverVars, failures, userVars>>

(* One second after the success *)
Leave ==
  /\ place = "leaving"
  /\ place' = "left"
  /\ UNCHANGED <<formVars, urlVars, chainVars, serverVars, failures, userVars>>

-----------------------------------------------------------------------------
(* The server; the credentials and the job a chain makes carry its number  *)

(* AccountCredsController#create *)
ServerCreates(n) ==
  /\ phase[n] = "create"
  /\ creds' = [creds EXCEPT ![n] = {sent[n]}]
  /\ target' = [target EXCEPT ![n] = n]
  /\ Goto(n, "created")
  /\ UNCHANGED <<pageVars, sent, watched, left, seen, rowVars, asking, owner, failures, userVars>>

(* AccountCredsController#update merges *)
ServerUpdates(n) ==
  /\ phase[n] = "update"
  /\ creds' = [creds EXCEPT ![target[n]] = @ \cup {sent[n]}]
  /\ Goto(n, "updated")
  /\ UNCHANGED <<pageVars, sent, target, watched, left, seen, rowVars, asking, owner, failures,
                 userVars>>

(* SsuJobsController#create *)
ServerStarts(n) ==
  /\ phase[n] = "start" /\ target[n] # None
  /\ Row!Post(n)
  /\ owner' = [owner EXCEPT ![n] = target[n]]
  /\ watched' = [watched EXCEPT ![n] = n]
  /\ Goto(n, "started")
  /\ UNCHANGED <<pageVars, sent, target, left, seen, creds, asking, failures, userVars>>

(* SsuJobsController#show *)
ServerShows(n) ==
  /\ phase[n] = "poll"
  /\ LET j == watched[n] IN
       seen' = [seen EXCEPT ![n] =
                  [version |-> version[j], status |-> status[j], asking |-> asking[j]]]
  /\ Goto(n, "polled")
  /\ UNCHANGED <<pageVars, sent, target, watched, left, serverVars, failures, userVars>>

(* The worker reports a newer status, or fails the row as it is *)
JobReports(j) ==
  /\ \E v \in (version[j] + 1)..MaxVersion : version' = [version EXCEPT ![j] = v]
  /\ Row!Report(j)
  /\ \E a \in BOOLEAN : asking' = [asking EXCEPT ![j] = a /\ status'[j] = Pending]
  /\ UNCHANGED <<pageVars, chainVars, creds, owner, failures, userVars>>

JobFails(j) ==
  /\ status[j] # Error
  /\ Row!Fail(j)
  /\ asking' = [asking EXCEPT ![j] = FALSE]
  /\ UNCHANGED <<pageVars, chainVars, creds, owner, failures, userVars>>

(* The worker is killed before it brought the row to an end *)
WorkerDies(j) ==
  /\ status[j] = Pending
  /\ Row!Close(j)
  /\ UNCHANGED <<pageVars, chainVars, creds, asking, owner, failures, userVars>>

-----------------------------------------------------------------------------
Chain(n) ==
  \/ Saved(n) \/ Started(n)
  \/ Skip(n) \/ Succeed(n) \/ Ask(n) \/ GoOn(n) \/ GiveUp(n)
  \/ PollAgain(n) \/ StartRefused(n)

JobEnds(n) ==
  status[n] = Pending /\ (JobFails(n) \/ JobReports(n)) /\ status'[n] # Pending

Serve(n) == ServerCreates(n) \/ ServerUpdates(n) \/ ServerStarts(n) \/ ServerShows(n)

Next ==
  \/ Fill \/ Leave
  \/ \E n \in Clicks :
       \/ Connect(n) \/ Chain(n) \/ Serve(n)
       \/ SaveOrStartFails(n) \/ PollFails(n)
       \/ JobReports(n) \/ JobFails(n) \/ WorkerDies(n)

Spec == Init /\ [][Next]_vars

(* The browser and the server go on; a sync comes to an end (SsuSync's     *)
(* WorkersEnd).  The user need not do anything.                            *)
Fairness ==
  \A n \in Clicks :
    /\ WF_vars(Chain(n)) /\ WF_vars(Serve(n))
    /\ WF_vars(JobEnds(n))

FairSpec == Spec /\ Fairness

-----------------------------------------------------------------------------
Running == {n \in Clicks : phase[n] \notin {"none", "over"}}

(* For a user who waits for the form, disabling it works as a lock: there  *)
(* is one chain while it is disabled, none while it is enabled or the page *)
(* leaves, and the job that chain watches is one of the credentials the    *)
(* page remembers (a chain reads both URLs from the page, not from its own *)
(* request).                                                               *)
OneChain ==
  ~hasty =>
    /\ \A n, m \in Running : n = m
    /\ Running = {} <=> enabled \/ place # "open"
    /\ job # None => owner[job] = cred
    /\ \A n \in Running : phase[n] \in {"poll", "polled", "wait"} => watched[n] = job

(* That user's credentials are all tried: once the chain that stored them  *)
(* has gone on there is a sync job for them and no other's, as long as no  *)
(* request failed (_credentialCreated starts it only when the page had no  *)
(* credentials yet).                                                       *)
CredentialsTried ==
  ~hasty /\ failures = 0 =>
    \A n \in Clicks : creds[n] # {} /\ phase[n] \notin {"created", "start"}
                        => status[n] # 0 /\ owner[n] = n

(* The row ended in a way that bumps no version, or not at all: perform's  *)
(* rescues update the status alone, and a killed worker nothing            *)
Unheard == \E j \in Clicks : status[j] = Error \/ (closed[j] /\ status[j] = Pending)

(* A form that was disabled by Connect is enabled again, with questions or *)
(* after a failure, or the page leaves for the accounts: the polling never *)
(* ends in silence, whatever requests fail, unless the row does.           *)
FormComesBack ==
  ~enabled /\ ~hasty ~> enabled \/ place # "open" \/ hasty \/ Unheard

(* _watchJob: "ignore ones we've already seen or are stale".  A chain that *)
(* waits for more has not just been shown the end of the job.              *)
SkippedAreSeen ==
  ~hasty => \A n \in Clicks : phase[n] = "wait" => seen[n].status \in {0, Pending}

(* _showUnableToConnectNotification: "We saved the credentials, but we     *)
(* couldn't connect [...] Please try again."  Whatever is stored as new    *)
(* credentials are the fields of the bank's login.                         *)
CreatedWithLogin == \A n \in Clicks : creds[n] # {} => "login" \in creds[n]
=============================================================================
