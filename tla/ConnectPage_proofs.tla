-------------------------- MODULE ConnectPage_proofs --------------------------
(* Proofs about ConnectPage: every variable keeps its type, and for a user *)
(* who waits for the form there is never more than one chain of requests,  *)
(* all stored credentials are tried, and no question is asked twice.       *)
EXTENDS MCConnectPage, TLAPS

USE DEF Clicks, None, Success, Pending, Refused, Error, Contents, Statuses, Answers, Unseen

(***************************************************************************)
(* Types                                                                   *)
(***************************************************************************)

(* What a group of variables that stays as it is keeps.                    *)
LEMMA FormKept == FormTyped /\ UNCHANGED formVars => FormTyped'
BY DEF FormTyped, formVars

LEMMA UrlsKept == UrlsTyped /\ UNCHANGED <<urlVars, place>> => UrlsTyped'
BY DEF UrlsTyped, urlVars

LEMMA ChainsKept == ChainsTyped /\ UNCHANGED chainVars => ChainsTyped'
BY DEF ChainsTyped, chainVars

LEMMA RowsKept == RowsTyped /\ UNCHANGED serverVars => RowsTyped'
BY DEF RowsTyped, serverVars, rowVars

LEMMA BoundsKept == BoundsTyped /\ UNCHANGED <<failures, userVars>> => BoundsTyped'
BY DEF BoundsTyped, userVars

(* A Goto keeps the type of phase.                                         *)
LEMMA GotoTyped ==
  ASSUME NEW n \in Clicks, NEW l \in Phases, phase \in [Clicks -> Phases], Goto(n, l)
  PROVE  phase' \in [Clicks -> Phases]
BY DEF Goto

(* A step of a chain that changes nothing of it but its phase.             *)
LEMMA PhaseOnly ==
  ASSUME ChainsTyped, NEW n \in Clicks, NEW l \in Phases, Goto(n, l),
         UNCHANGED <<sent, target, watched, left, seen>>
  PROVE  ChainsTyped'
<1>1. phase' \in [Clicks -> Phases]
  BY GotoTyped DEF ChainsTyped
<1> QED
  BY <1>1 DEF ChainsTyped

LEMMA ResetTyped == Reset /\ FormTyped /\ UrlsTyped /\ place' = place => FormTyped' /\ UrlsTyped'
<1> SUFFICES ASSUME Reset, FormTyped, UrlsTyped, place' = place PROVE FormTyped' /\ UrlsTyped'
  OBVIOUS
<1>1. FormTyped'
  BY DEF Reset, FormTyped
<1>2. -1 \in -1..MaxVersion
  BY BoundsAssumption
<1>3. UrlsTyped'
  BY <1>2 DEF Reset, UrlsTyped
<1> QED
  BY <1>1, <1>3

LEMMA LostTyped == Lost /\ BoundsTyped /\ UNCHANGED userVars => BoundsTyped'
BY BoundsAssumption DEF Lost, BoundsTyped, userVars

(* The steps of the user.                                                  *)
LEMMA FillTyped == TypeOK /\ (Fill \/ Leave) => TypeOK'
<1> SUFFICES ASSUME TypeOK, Fill \/ Leave PROVE TypeOK'
  OBVIOUS
<1> USE DEF TypeOK
<1>1. CASE Fill
  <2>1. FormTyped'
    BY <1>1 DEF Fill, FormTyped
  <2> QED
    BY <1>1, <2>1, UrlsKept, ChainsKept, RowsKept, BoundsKept DEF Fill
<1>2. CASE Leave
  <2>1. UrlsTyped'
    BY <1>2 DEF Leave, UrlsTyped, urlVars
  <2> QED
    BY <1>2, <2>1, FormKept, ChainsKept, RowsKept, BoundsKept DEF Leave
<1> QED
  BY <1>1, <1>2

LEMMA ConnectTyped ==
  ASSUME TypeOK, NEW n \in Clicks, Connect(n)
  PROVE  TypeOK'
<1> USE DEF TypeOK
<1>3. CASE Connect(n)
  <2>1. FormTyped'
    BY <1>3 DEF Connect, FormTyped
  <2>2. phase' \in [Clicks -> Phases]
    <3>1. (IF cred = None THEN "create" ELSE "update") \in Phases
      BY DEF Phases
    <3> QED
      BY <1>3, <3>1 DEF Connect, ChainsTyped
  <2>3. ChainsTyped'
    BY <1>3, <2>2 DEF Connect, ChainsTyped, UrlsTyped, FormTyped
  <2>4. BoundsTyped'
    BY <1>3 DEF Connect, BoundsTyped
  <2> QED
    BY <1>3, <2>1, <2>3, <2>4, UrlsKept, RowsKept DEF Connect
<1> QED
  BY <1>3

(* The steps of a chain in the browser.                                    *)
LEMMA ChainTyped ==
  ASSUME TypeOK, NEW n \in Clicks, Chain(n) \/ SaveOrStartFails(n) \/ PollFails(n)
  PROVE  TypeOK'
<1> USE DEF TypeOK
<1>p. {"poll", "over", "start", "wait"} \subseteq Phases
  BY DEF Phases
<1>r. Retries \in 0..Retries
  BY BoundsAssumption
<1>1. CASE Saved(n)
  <2>1. phase' \in [Clicks -> Phases]
    <3>1. CASE cred # None
      <4>1. (IF job # None THEN "poll" ELSE "over") \in Phases
        BY <1>p
      <4> QED
        BY <1>1, <3>1, <4>1, GotoTyped DEF Saved, ChainsTyped
    <3>2. CASE cred = None
      BY <1>1, <1>p, <3>2, GotoTyped DEF Saved, ChainsTyped
    <3> QED
      BY <3>1, <3>2
  <2>2. target' \in [Clicks -> Clicks \cup {None}]
    BY <1>1 DEF Saved, ChainsTyped
  <2>3. ChainsTyped'
    BY <1>1, <1>r, <2>1, <2>2 DEF Saved, ChainsTyped, UrlsTyped
  <2>4. UrlsTyped'
    BY <1>1, <2>2 DEF Saved, UrlsTyped
  <2> QED
    BY <1>1, <2>3, <2>4, FormKept, RowsKept, BoundsKept DEF Saved
<1>2. CASE Started(n)
  <2>1. phase' \in [Clicks -> Phases]
    BY <1>2, <1>p, GotoTyped DEF Started, ChainsTyped
  <2>2. ChainsTyped'
    BY <1>2, <1>r, <2>1 DEF Started, ChainsTyped
  <2>3. UrlsTyped'
    BY <1>2 DEF Started, UrlsTyped, ChainsTyped
  <2> QED
    BY <1>2, <2>2, <2>3, FormKept, RowsKept, BoundsKept DEF Started
<1>3. CASE Skip(n)
  <2>1. ChainsTyped'
    BY <1>3, <1>p, PhaseOnly DEF Skip
  <2> QED
    BY <1>3, <2>1, FormKept, UrlsKept, RowsKept, BoundsKept DEF Skip, pageVars
<1>4. CASE PollAgain(n)
  <2>1. ChainsTyped'
    BY <1>4, <1>p, PhaseOnly DEF PollAgain
  <2> QED
    BY <1>4, <2>1, FormKept, UrlsKept, RowsKept, BoundsKept DEF PollAgain, pageVars
<1>v. ASSUME Notes(n) PROVE lastVersion' \in -1..MaxVersion
  <2>1. seen[n].version \in 0..MaxVersion
    BY DEF ChainsTyped
  <2> QED
    BY <1>v, <2>1 DEF Notes
<1>5. CASE Succeed(n)
  <2>1. ChainsTyped'
    BY <1>5, <1>p, PhaseOnly DEF Succeed
  <2>2. UrlsTyped'
    BY <1>5, <1>v DEF Succeed, UrlsTyped
  <2> QED
    BY <1>5, <2>1, <2>2, FormKept, RowsKept, BoundsKept DEF Succeed
<1>6. CASE Ask(n)
  <2>1. ChainsTyped'
    BY <1>6, <1>p, PhaseOnly DEF Ask
  <2>2. UrlsTyped'
    BY <1>6, <1>v DEF Ask, UrlsTyped
  <2>3. FormTyped'
    BY <1>6 DEF Ask, FormTyped
  <2> QED
    BY <1>6, <2>1, <2>2, <2>3, RowsKept, BoundsKept DEF Ask
<1>7. CASE GoOn(n)
  <2>1. ChainsTyped'
    BY <1>7, <1>p, PhaseOnly DEF GoOn
  <2>2. UrlsTyped'
    BY <1>7, <1>v DEF GoOn, UrlsTyped
  <2> QED
    BY <1>7, <2>1, <2>2, FormKept, RowsKept, BoundsKept DEF GoOn
<1>8. CASE GiveUp(n) \/ StartRefused(n)
  <2>1. ChainsTyped'
    BY <1>8, <1>p, PhaseOnly DEF GiveUp, StartRefused
  <2> QED
    BY <1>8, <2>1, ResetTyped, RowsKept, BoundsKept DEF GiveUp, StartRefused
<1>9. CASE SaveOrStartFails(n)
  <2>1. ChainsTyped'
    BY <1>9, <1>p, PhaseOnly DEF SaveOrStartFails
  <2> QED
    BY <1>9, <2>1, ResetTyped, RowsKept, LostTyped DEF SaveOrStartFails
<1>10. CASE PollFails(n)
  <2>1. phase' \in [Clicks -> Phases]
    BY <1>10, <1>p, GotoTyped DEF PollFails, ChainsTyped
  <2>2. left' \in [Clicks -> 0..Retries]
    <3>1. left[n] > 0 => left[n] - 1 \in 0..Retries
      BY BoundsAssumption DEF ChainsTyped
    <3> QED
      BY <1>10, <3>1 DEF PollFails, ChainsTyped
  <2>3. Unseen \in Answers
    BY BoundsAssumption
  <2>4. seen' \in [Clicks -> Answers]
    BY <1>10, <2>3 DEF PollFails, ChainsTyped
  <2>5. ChainsTyped'
    BY <1>10, <2>1, <2>2, <2>4 DEF PollFails, ChainsTyped
  <2>6. FormTyped' /\ UrlsTyped'
    BY <1>10, ResetTyped, FormKept, UrlsKept DEF PollFails
  <2> QED
    BY <1>10, <2>5, <2>6, RowsKept, LostTyped DEF PollFails
<1> QED
  BY <1>1, <1>2, <1>3, <1>4, <1>5, <1>6, <1>7, <1>8, <1>9, <1>10 DEF Chain

(* A chain that polls has a job to ask for: TypeOK needs it for the answer *)
(* of the server.                                                          *)
Grounded ==
  \A n \in Clicks : phase[n] \in {"started", "poll", "polled", "wait"} => watched[n] # None

LEMMA ShownIsAnswer ==
  ASSUME TypeOK, NEW j \in Clicks
  PROVE  [version |-> version[j], status |-> status[j], asking |-> asking[j]] \in Answers
<1>1. version[j] \in 0..MaxVersion /\ status[j] \in Statuses /\ asking[j] \in BOOLEAN
  BY DEF TypeOK, RowsTyped
<1> QED
  BY <1>1

LEMMA GroundedKept ==
  ASSUME ChainsTyped, Grounded, UNCHANGED <<phase, watched>>
  PROVE  Grounded'
BY DEF Grounded

(* Only Saved and ServerStarts choose what a chain watches.                *)
LEMMA GroundedGoto ==
  ASSUME ChainsTyped, Grounded, NEW n \in Clicks, NEW l, Goto(n, l), watched' = watched,
         l \in {"started", "poll", "polled", "wait"} =>
           phase[n] \in {"started", "poll", "polled", "wait"}
  PROVE  Grounded'
BY DEF Grounded, Goto, ChainsTyped

LEMMA GroundedNext == TypeOK /\ Grounded /\ [Next]_vars => Grounded'
<1> SUFFICES ASSUME TypeOK, Grounded, [Next]_vars PROVE Grounded'
  OBVIOUS
<1> USE DEF TypeOK
<1>1. CASE UNCHANGED vars \/ Fill \/ Leave
  BY <1>1, GroundedKept DEF vars, chainVars, Fill, Leave
<1>2. ASSUME NEW n \in Clicks, JobReports(n) \/ JobFails(n) \/ WorkerDies(n) PROVE Grounded'
  BY <1>2, GroundedKept DEF chainVars, JobReports, JobFails, WorkerDies
<1>3. ASSUME NEW n \in Clicks, Connect(n) PROVE Grounded'
  <2> DEFINE l == IF cred = None THEN "create" ELSE "update"
  <2>1. Goto(n, l) /\ watched' = watched
    BY <1>3 DEF Connect, Goto
  <2> QED
    BY <2>1, GroundedGoto
<1>4. ASSUME NEW n \in Clicks, Skip(n) \/ Succeed(n) \/ Ask(n) \/ GoOn(n) \/ GiveUp(n)
      PROVE  Grounded'
  <2>1. phase[n] = "polled" /\ watched' = watched
    BY <1>4 DEF Skip, Succeed, Ask, GoOn, GiveUp, Polled
  <2>2. PICK l : Goto(n, l)
    BY <1>4 DEF Skip, Succeed, Ask, GoOn, GiveUp
  <2> QED
    BY <2>1, <2>2, GroundedGoto
<1>5. ASSUME NEW n \in Clicks, Started(n) \/ PollAgain(n) \/ ServerShows(n) PROVE Grounded'
  <2>1. phase[n] \in {"started", "wait", "poll"} /\ watched' = watched
    BY <1>5 DEF Started, PollAgain, ServerShows
  <2>2. PICK l : Goto(n, l)
    BY <1>5 DEF Started, PollAgain, ServerShows
  <2> QED
    BY <2>1, <2>2, GroundedGoto
<1>6. ASSUME NEW n \in Clicks, SaveOrStartFails(n) \/ StartRefused(n) PROVE Grounded'
  BY <1>6, GroundedGoto DEF SaveOrStartFails, StartRefused
<1>7. ASSUME NEW n \in Clicks, PollFails(n) PROVE Grounded'
  <2>1. phase[n] \in {"poll", "polled"} /\ watched' = watched
    BY <1>7 DEF PollFails, Unpolled
  <2>2. PICK l : Goto(n, l)
    BY <1>7 DEF PollFails
  <2> QED
    BY <2>1, <2>2, GroundedGoto
<1>8. ASSUME NEW n \in Clicks, ServerCreates(n) \/ ServerUpdates(n) PROVE Grounded'
  BY <1>8, GroundedGoto DEF ServerCreates, ServerUpdates
<1>9. ASSUME NEW n \in Clicks, ServerStarts(n) PROVE Grounded'
  BY <1>9 DEF ServerStarts, Goto, Grounded, ChainsTyped
<1>10. ASSUME NEW n \in Clicks, Saved(n) PROVE Grounded'
  <2>1. CASE cred # None /\ job # None
    <3>1. phase' = [phase EXCEPT ![n] = "poll"] /\ watched' = [watched EXCEPT ![n] = job]
      BY <1>10, <2>1 DEF Saved, Goto
    <3> QED
      BY <3>1, <2>1 DEF Grounded, ChainsTyped
  <2>3. CASE cred # None /\ job = None
    <3>1. phase' = [phase EXCEPT ![n] = "over"] /\ watched' = [watched EXCEPT ![n] = job]
      BY <1>10, <2>3 DEF Saved, Goto
    <3> QED
      BY <3>1 DEF Grounded, ChainsTyped
  <2>2. CASE cred = None
    BY <1>10, <2>2, GroundedGoto DEF Saved
  <2> QED
    BY <2>1, <2>2, <2>3
<1> QED
  BY <1>1, <1>2, <1>3, <1>4, <1>5, <1>6, <1>7, <1>8, <1>9, <1>10 DEF Next, Chain, Serve

(* The server's steps.                                                     *)
LEMMA ServerTyped ==
  ASSUME TypeOK, Grounded, NEW n \in Clicks, Serve(n)
  PROVE  TypeOK'
<1> USE DEF TypeOK
<1>p. {"created", "updated", "started", "polled"} \subseteq Phases
  BY DEF Phases
<1>1. CASE ServerCreates(n)
  <2>1. phase' \in [Clicks -> Phases]
    BY <1>1, <1>p, GotoTyped DEF ServerCreates, ChainsTyped
  <2>2. ChainsTyped'
    BY <1>1, <2>1 DEF ServerCreates, ChainsTyped
  <2>3. creds' \in [Clicks -> SUBSET Contents]
    BY <1>1 DEF ServerCreates, ChainsTyped, RowsTyped
  <2>4. RowsTyped'
    BY <1>1, <2>3 DEF ServerCreates, RowsTyped, rowVars
  <2> QED
    BY <1>1, <2>2, <2>4, FormKept, UrlsKept, BoundsKept DEF ServerCreates, pageVars
<1>2. CASE ServerUpdates(n)
  <2>1. ChainsTyped'
    BY <1>2, <1>p, PhaseOnly DEF ServerUpdates
  <2>2. creds' \in [Clicks -> SUBSET Contents]
    <3>1. sent[n] \in Contents
      BY DEF ChainsTyped
    <3>2. \A c \in Clicks : creds[c] \cup {sent[n]} \in SUBSET Contents
      BY <3>1 DEF RowsTyped
    <3> QED
      BY <1>2, <3>2 DEF ServerUpdates, RowsTyped
  <2>3. RowsTyped'
    BY <1>2, <2>2 DEF ServerUpdates, RowsTyped, rowVars
  <2> QED
    BY <1>2, <2>1, <2>3, FormKept, UrlsKept, BoundsKept DEF ServerUpdates, pageVars
<1>3. CASE ServerStarts(n)
  <2>1. phase' \in [Clicks -> Phases]
    BY <1>3, <1>p, GotoTyped DEF ServerStarts, ChainsTyped
  <2>2. ChainsTyped'
    BY <1>3, <2>1 DEF ServerStarts, ChainsTyped
  <2>3. status' \in [Clicks -> Statuses] /\ UNCHANGED <<version, closed>>
    BY <1>3 DEF RowsTyped, ServerStarts, Row!Post, Row!Pending
  <2>4. owner' \in [Clicks -> Clicks \cup {None}]
    BY <1>3 DEF ServerStarts, ChainsTyped, RowsTyped
  <2>5. RowsTyped'
    BY <1>3, <2>3, <2>4 DEF ServerStarts, RowsTyped
  <2> QED
    BY <1>3, <2>2, <2>5, FormKept, UrlsKept, BoundsKept DEF ServerStarts, pageVars
<1>4. CASE ServerShows(n)
  <2>1. phase' \in [Clicks -> Phases]
    BY <1>4, <1>p, GotoTyped DEF ServerShows, ChainsTyped
  <2>2. seen' \in [Clicks -> Answers]
    <3>1. watched[n] \in Clicks
      BY <1>4 DEF ServerShows, Grounded, ChainsTyped
    <3> DEFINE a == [version |-> version[watched[n]], status |-> status[watched[n]],
                     asking |-> asking[watched[n]]]
    <3>2. a \in Answers /\ seen' = [seen EXCEPT ![n] = a]
      BY <1>4, <3>1, ShownIsAnswer DEF ServerShows
    <3> HIDE DEF a
    <3> QED
      BY <3>2 DEF ChainsTyped
  <2>3. ChainsTyped'
    BY <1>4, <2>1, <2>2 DEF ServerShows, ChainsTyped
  <2> QED
    BY <1>4, <2>3, FormKept, UrlsKept, RowsKept, BoundsKept DEF ServerShows, pageVars
<1> QED
  BY <1>1, <1>2, <1>3, <1>4 DEF Serve

(* The steps of a job.                                                     *)
LEMMA JobTyped ==
  ASSUME TypeOK, NEW n \in Clicks, JobReports(n) \/ JobFails(n) \/ WorkerDies(n)
  PROVE  TypeOK'
<1> USE DEF TypeOK
<1>1. CASE JobReports(n)
  <2>1. version' \in [Clicks -> 0..MaxVersion]
    <3>1. PICK v \in (version[n] + 1)..MaxVersion : version' = [version EXCEPT ![n] = v]
      BY <1>1 DEF JobReports
    <3>2. v \in 0..MaxVersion
      <4>1. version[n] \in 0..MaxVersion
        BY DEF RowsTyped
      <4> QED
        BY <4>1, BoundsAssumption
    <3> QED
      BY <3>1, <3>2 DEF RowsTyped
  <2>2. status' \in [Clicks -> Statuses] /\ closed' = closed
    BY <1>1 DEF RowsTyped, JobReports, Row!Report, Row!Pending
  <2>3. asking' \in [Clicks -> BOOLEAN]
    <3>1. PICK a \in BOOLEAN : asking' = [asking EXCEPT ![n] = a /\ status'[n] = Pending]
      BY <1>1 DEF JobReports
    <3>2. PICK b \in BOOLEAN : b = (a /\ status'[n] = Pending)
      OBVIOUS
    <3>3. asking' = [asking EXCEPT ![n] = b]
      BY <3>1, <3>2
    <3> QED
      BY <3>3 DEF RowsTyped
  <2>4. RowsTyped'
    BY <1>1, <2>1, <2>2, <2>3 DEF JobReports, RowsTyped
  <2> QED
    BY <1>1, <2>4, FormKept, UrlsKept, ChainsKept, BoundsKept DEF JobReports, pageVars
<1>2. CASE JobFails(n)
  <2>1. status' \in [Clicks -> Statuses] /\ version' = version
    BY <1>2 DEF RowsTyped, JobFails, Row!Fail, Row!GeneralError
  <2>2. closed' \in [Clicks -> BOOLEAN]
    <3>1. closed' = closed \/ closed' = [closed EXCEPT ![n] = TRUE]
      BY <1>2 DEF JobFails, Row!Fail
    <3>2. CASE closed' = closed
      BY <3>2 DEF RowsTyped
    <3>3. CASE closed' = [closed EXCEPT ![n] = TRUE]
      BY <3>3 DEF RowsTyped
    <3> QED
      BY <3>1, <3>2, <3>3
  <2>3. asking' \in [Clicks -> BOOLEAN]
    BY <1>2 DEF RowsTyped, JobFails
  <2>4. RowsTyped'
    BY <1>2, <2>1, <2>2, <2>3 DEF JobFails, RowsTyped
  <2> QED
    BY <1>2, <2>4, FormKept, UrlsKept, ChainsKept, BoundsKept DEF JobFails, pageVars
<1>3. CASE WorkerDies(n)
  <2>1. closed' \in [Clicks -> BOOLEAN] /\ status' = status /\ version' = version
    BY <1>3 DEF RowsTyped, WorkerDies, Row!Close
  <2>2. RowsTyped'
    BY <1>3, <2>1 DEF WorkerDies, RowsTyped
  <2> QED
    BY <1>3, <2>2, FormKept, UrlsKept, ChainsKept, BoundsKept DEF WorkerDies, pageVars
<1> QED
  BY <1>1, <1>2, <1>3

LEMMA InitTyped == Init => TypeOK /\ Grounded
<1> SUFFICES ASSUME Init PROVE TypeOK /\ Grounded
  OBVIOUS
<1>f. FormTyped
  BY DEF Init, FormTyped
<1>b. 0 \in 0..MaxFailures /\ 0 \in 0..MaxClicks
  BY BoundsAssumption
<1>1. BoundsTyped
  BY <1>b DEF Init, BoundsTyped
<1>2. UrlsTyped
  BY BoundsAssumption DEF Init, UrlsTyped
<1>3. Unseen \in Answers
  BY BoundsAssumption
<1>4. ChainsTyped
  BY <1>3, BoundsAssumption DEF Init, ChainsTyped, Phases
<1>5. RowsTyped
  BY BoundsAssumption DEF Init, RowsTyped, Row!Init
<1>6. Grounded
  BY DEF Init, Grounded
<1> QED
  BY <1>f, <1>1, <1>2, <1>4, <1>5, <1>6 DEF TypeOK

LEMMA NextTyped == TypeOK /\ Grounded /\ [Next]_vars => TypeOK'
<1> SUFFICES ASSUME TypeOK, Grounded, [Next]_vars PROVE TypeOK'
  OBVIOUS
<1>1. CASE UNCHANGED vars
  BY <1>1, FormKept, UrlsKept, ChainsKept, RowsKept, BoundsKept DEF TypeOK, vars, pageVars
<1>2. ASSUME NEW n \in Clicks, Connect(n) PROVE TypeOK'
  BY <1>2, ConnectTyped
<1>3. CASE Fill \/ Leave
  BY <1>3, FillTyped
<1>4. ASSUME NEW n \in Clicks, Chain(n) \/ SaveOrStartFails(n) \/ PollFails(n) PROVE TypeOK'
  BY <1>4, ChainTyped
<1>5. ASSUME NEW n \in Clicks, Serve(n) PROVE TypeOK'
  BY <1>5, ServerTyped
<1>6. ASSUME NEW n \in Clicks, JobReports(n) \/ JobFails(n) \/ WorkerDies(n) PROVE TypeOK'
  BY <1>6, JobTyped
<1> QED
  BY <1>1, <1>2, <1>3, <1>4, <1>5, <1>6 DEF Next

(* Every variable of the page, its chains and the rows keeps its type.     *)
THEOREM ConnectTypeCorrect == Spec => []TypeOK
<1>1. Init => TypeOK /\ Grounded
  BY InitTyped
<1>2. TypeOK /\ Grounded /\ [Next]_vars => (TypeOK /\ Grounded)'
  BY NextTyped, GroundedNext
<1> QED
  BY <1>1, <1>2, PTL DEF Spec

-----------------------------------------------------------------------------
(***************************************************************************)
(* One chain at a time                                                     *)
(*                                                                         *)
(* OneChain is not inductive: that the watched job is one of the page's    *)
(* credentials depends on what the one chain was started for.  Lock adds   *)
(* what the page's URLs are in each phase of it.                           *)
(***************************************************************************)

Live(n) == phase[n] \notin {"none", "over"}

Sole == \A n, m \in Clicks : Live(n) /\ Live(m) => n = m

Locked == (\E n \in Clicks : Live(n)) <=> ~(enabled \/ place # "open")

(* What holds of the chain n and the page's URLs.                          *)
Matches(n) ==
  /\ phase[n] \in {"create", "created"} => cred = None /\ job = None
  /\ phase[n] \in {"update", "updated"} => cred # None /\ job # None
  /\ phase[n] \in {"start", "started"} => target[n] = cred /\ job = None /\ cred # None
  /\ phase[n] = "created" => target[n] # None
  /\ phase[n] = "started" => owner[watched[n]] = cred /\ watched[n] # None
  /\ phase[n] \in {"poll", "polled", "wait"} => watched[n] = job /\ job # None

Urls ==
  /\ enabled => place = "open"
  /\ cred = None => job = None
  /\ enabled /\ cred # None => job # None
  /\ job # None => owner[job] = cred
  /\ \A n \in Clicks : Matches(n)

Lock == ~hasty => Sole /\ Locked /\ Urls

LEMMA LockIsEnough == TypeOK /\ Lock => OneChain
<1> SUFFICES ASSUME TypeOK, Lock, ~hasty PROVE OneChain
  BY DEF OneChain
<1>1. Running = {n \in Clicks : Live(n)}
  BY DEF Running, Live
<1>2. \A n, m \in Running : n = m
  BY <1>1 DEF Lock, Sole
<1>3. Running = {} <=> enabled \/ place # "open"
  BY <1>1 DEF Lock, Locked
<1>4. job # None => owner[job] = cred
  BY DEF Lock, Urls
<1>5. \A n \in Running : phase[n] \in {"poll", "polled", "wait"} => watched[n] = job
  BY <1>1 DEF Lock, Urls, Matches
<1> QED
  BY <1>2, <1>3, <1>4, <1>5 DEF OneChain

(* A step of the one chain that goes on.                                   *)
LEMMA GoesOn ==
  ASSUME ChainsTyped, NEW n \in Clicks, NEW l, Goto(n, l), Live(n), l \notin {"none", "over"},
         Sole, Locked, enabled' = enabled, place' = place
  PROVE  /\ Sole' /\ Locked'
         /\ \A m \in Clicks : m # n => phase'[m] \in {"none", "over"}
         /\ phase'[n] = l
<1>1. \A m \in Clicks : phase'[m] = IF m = n THEN l ELSE phase[m]
  BY DEF Goto, ChainsTyped
<1>2. \A m \in Clicks : Live(m)' <=> Live(m)
  BY <1>1 DEF Live
<1>3. Sole'
  BY <1>2 DEF Sole
<1>4. Locked'
  BY <1>2 DEF Locked
<1>5. \A m \in Clicks : m # n => phase'[m] \in {"none", "over"}
  BY <1>1 DEF Sole, Live
<1> QED
  BY <1>1, <1>3, <1>4, <1>5

(* A step that ends the one chain.                                         *)
LEMMA ComesToEnd ==
  ASSUME ChainsTyped, NEW n \in Clicks, Goto(n, "over"), Live(n), Sole
  PROVE  Sole' /\ \A m \in Clicks : phase'[m] \in {"none", "over"}
<1>1. \A m \in Clicks : phase'[m] = IF m = n THEN "over" ELSE phase[m]
  BY DEF Goto, ChainsTyped
<1>2. \A m \in Clicks : phase'[m] \in {"none", "over"}
  BY <1>1 DEF Sole, Live
<1> QED
  BY <1>2 DEF Sole, Live

(* Chains that are over say nothing of the URLs.                           *)
LEMMA OverMatches ==
  ASSUME \A m \in Clicks : phase'[m] \in {"none", "over"}
  PROVE  /\ \A m \in Clicks : Matches(m)'
         /\ ~\E m \in Clicks : Live(m)'
BY DEF Matches, Live

(* A reset ends the chain and enables the form.                            *)
LEMMA ResetLock ==
  ASSUME ChainsTyped, NEW n \in Clicks, Goto(n, "over"), Live(n), Sole, Locked, Reset,
         place' = place
  PROVE  Sole' /\ Locked' /\ Urls'
<1>1. Sole' /\ \A m \in Clicks : phase'[m] \in {"none", "over"}
  BY ComesToEnd
<1>2. \A m \in Clicks : Matches(m)'
  BY <1>1, OverMatches
<1>3. place = "open"
  BY DEF Locked
<1>4. Locked'
  BY <1>1, OverMatches DEF Locked, Reset
<1> QED
  BY <1>1, <1>2, <1>3, <1>4 DEF Urls, Reset

(* The steps of the user.                                                  *)
LEMMA UserLock ==
  ASSUME TypeOK, Lock, ~hasty', Fill \/ Leave \/ \E n \in Clicks : Connect(n)
  PROVE  Sole' /\ Locked' /\ Urls'
<1>1. CASE Fill
  <2>1. ~hasty /\ UNCHANGED <<enabled, cred, job, place, phase, target, watched, owner>>
    BY <1>1 DEF Fill, urlVars, chainVars, serverVars, userVars
  <2> QED
    BY <2>1 DEF Lock, Sole, Locked, Urls, Matches, Live
<1>2. CASE Leave
  <2>1. ~hasty /\ UNCHANGED <<enabled, cred, job, phase, target, watched, owner>>
    BY <1>2 DEF Leave, formVars, urlVars, chainVars, serverVars, userVars
  <2>2. place = "leaving" /\ place' = "left"
    BY <1>2 DEF Leave
  <2> QED
    BY <2>1, <2>2 DEF Lock, Sole, Locked, Urls, Matches, Live
<1>3. ASSUME NEW n \in Clicks, Connect(n) PROVE Sole' /\ Locked' /\ Urls'
  <2> DEFINE l == IF cred = None THEN "create" ELSE "update"
  <2>1. ~hasty /\ enabled /\ ~enabled'
    BY <1>3 DEF Connect, TypeOK, BoundsTyped, FormTyped
  <2>2. /\ UNCHANGED <<cred, job, place, watched, owner>>
        /\ phase' = [phase EXCEPT ![n] = l]
    BY <1>3 DEF Connect, urlVars, serverVars
  <2>3. place = "open" /\ \A m \in Clicks : ~Live(m)
    BY <2>1 DEF Lock, Locked, Urls
  <2>4. \A m \in Clicks : phase'[m] = IF m = n THEN l ELSE phase[m]
    BY <2>2 DEF TypeOK, ChainsTyped
  <2>5. \A m \in Clicks : Live(m)' <=> m = n
    BY <2>3, <2>4 DEF Live
  <2>6. Sole' /\ Locked'
    BY <2>1, <2>2, <2>3, <2>5 DEF Sole, Locked
  <2>7. \A m \in Clicks : Matches(m)'
    <3> SUFFICES ASSUME NEW m \in Clicks PROVE Matches(m)'
      OBVIOUS
    <3>1. CASE m # n
      BY <3>1, <2>3, <2>4 DEF Matches, Live
    <3>2. CASE m = n
      BY <3>2, <2>1, <2>2, <2>4 DEF Matches, Lock, Urls
    <3> QED
      BY <3>1, <3>2
  <2> QED
    BY <2>1, <2>2, <2>6, <2>7 DEF Lock, Urls
<1> QED
  BY <1>1, <1>2, <1>3

(* The steps of a chain in the browser.                                    *)
LEMMA ChainLock ==
  ASSUME TypeOK, Lock, ~hasty', NEW n \in Clicks,
         Chain(n) \/ SaveOrStartFails(n) \/ PollFails(n)
  PROVE  Sole' /\ Locked' /\ Urls'
<1>h. ~hasty
  BY DEF Chain, Saved, Started, Skip, Succeed, Ask, GoOn, GiveUp, PollAgain, StartRefused,
         SaveOrStartFails, PollFails, userVars
<1>i. Sole /\ Locked /\ Urls /\ Matches(n) /\ ChainsTyped
  BY <1>h DEF Lock, Urls, TypeOK
<1>1. CASE Saved(n)
  <2>0. Live(n) /\ UNCHANGED <<enabled, job, place, owner>>
    BY <1>1 DEF Saved, Live, formVars, serverVars
  <2>1. CASE phase[n] = "updated"
    <3>1. cred # None /\ job # None
      BY <2>1, <1>i DEF Matches
    <3>2. Goto(n, "poll") /\ cred' = cred /\ watched' = [watched EXCEPT ![n] = job]
      BY <1>1, <3>1 DEF Saved
    <3>3. /\ Sole' /\ Locked'
          /\ \A m \in Clicks : m # n => phase'[m] \in {"none", "over"}
          /\ phase'[n] = "poll"
      BY <1>i, <2>0, <3>2, GoesOn
    <3>4. watched'[n] = job
      BY <3>2, <1>i DEF ChainsTyped
    <3>5. \A m \in Clicks : Matches(m)'
      BY <3>1, <3>3, <3>4, <2>0 DEF Matches
    <3> QED
      BY <3>1, <3>2, <3>3, <3>5, <2>0, <1>i DEF Urls
  <2>2. CASE phase[n] = "created"
    <3>1. cred = None /\ job = None /\ target[n] # None
      BY <2>2, <1>i DEF Matches
    <3>2. Goto(n, "start") /\ target' = target /\ cred' = target[n]
      BY <1>1, <2>2, <3>1 DEF Saved
    <3>3. /\ Sole' /\ Locked'
          /\ \A m \in Clicks : m # n => phase'[m] \in {"none", "over"}
          /\ phase'[n] = "start"
      BY <1>i, <2>0, <3>2, GoesOn
    <3>4. \A m \in Clicks : Matches(m)'
      BY <3>1, <3>2, <3>3, <2>0 DEF Matches
    <3> QED
      <4>1. ~enabled'
        BY <2>0, <1>i DEF Locked
      <4> QED
        BY <3>1, <3>2, <3>3, <3>4, <4>1, <2>0, <1>i DEF Urls
  <2> QED
    BY <1>1, <2>1, <2>2 DEF Saved
<1>2. CASE Started(n)
  <2>0. Live(n) /\ phase[n] = "started" /\ UNCHANGED <<enabled, cred, place, owner, watched>>
    BY <1>2 DEF Started, Live, formVars, serverVars
  <2>1. Goto(n, "poll") /\ job' = watched[n]
    BY <1>2 DEF Started
  <2>2. /\ Sole' /\ Locked'
        /\ \A m \in Clicks : m # n => phase'[m] \in {"none", "over"}
        /\ phase'[n] = "poll"
    BY <1>i, <2>0, <2>1, GoesOn
  <2>3. owner[watched[n]] = cred /\ watched[n] # None /\ cred # None
    BY <2>0, <1>i DEF Matches
  <2>4. \A m \in Clicks : Matches(m)'
    BY <2>0, <2>1, <2>2, <2>3 DEF Matches
  <2> QED
    BY <2>0, <2>1, <2>2, <2>3, <2>4, <1>i DEF Urls
<1>3. ASSUME NEW l \in {"wait", "poll"}, Goto(n, l), phase[n] \in {"poll", "polled", "wait"},
             UNCHANGED <<enabled, cred, job, place, owner, watched>>
      PROVE  Sole' /\ Locked' /\ Urls'
  <2>0. Live(n)
    BY <1>3 DEF Live
  <2>1. /\ Sole' /\ Locked'
        /\ \A m \in Clicks : m # n => phase'[m] \in {"none", "over"}
        /\ phase'[n] = l
    BY <1>i, <1>3, <2>0, GoesOn
  <2>2. watched[n] = job /\ job # None
    BY <1>3, <1>i DEF Matches
  <2>3. \A m \in Clicks : Matches(m)'
    BY <1>3, <2>1, <2>2 DEF Matches
  <2> QED
    BY <1>3, <2>1, <2>3, <1>i DEF Urls
<1>4. CASE Skip(n) \/ PollAgain(n) \/ GoOn(n)
  <2>1. UNCHANGED <<enabled, cred, job, place, owner, watched>>
    BY <1>4 DEF Skip, PollAgain, GoOn, pageVars, formVars, urlVars, serverVars
  <2> QED
    BY <1>4, <1>3, <2>1 DEF Skip, PollAgain, GoOn, Polled
<1>5. CASE Succeed(n)
  <2>1. Live(n) /\ Goto(n, "over") /\ UNCHANGED <<enabled, cred, job, owner>> /\ place' = "leaving"
    BY <1>5 DEF Succeed, Polled, Live, formVars, serverVars
  <2>2. Sole' /\ \A m \in Clicks : phase'[m] \in {"none", "over"}
    BY <1>i, <2>1, ComesToEnd
  <2>3. Locked' /\ \A m \in Clicks : Matches(m)'
    BY <2>1, <2>2, OverMatches DEF Locked
  <2>4. ~enabled
    BY <2>1, <1>i DEF Locked
  <2> QED
    BY <2>1, <2>2, <2>3, <2>4, <1>i DEF Urls
<1>6. CASE Ask(n)
  <2>1. /\ Live(n) /\ Goto(n, "over") /\ enabled' /\ phase[n] = "polled"
        /\ UNCHANGED <<cred, job, place, owner>>
    BY <1>6 DEF Ask, Polled, Live, serverVars
  <2>2. Sole' /\ \A m \in Clicks : phase'[m] \in {"none", "over"}
    BY <1>i, <2>1, ComesToEnd
  <2>3. Locked' /\ \A m \in Clicks : Matches(m)'
    BY <2>1, <2>2, OverMatches DEF Locked
  <2>4. place = "open" /\ job # None
    BY <2>1, <1>i DEF Locked, Matches
  <2> QED
    BY <2>1, <2>2, <2>3, <2>4, <1>i DEF Urls
<1>7. CASE GiveUp(n) \/ StartRefused(n) \/ SaveOrStartFails(n)
  <2>1. Live(n) /\ Goto(n, "over") /\ Reset /\ place' = place
    BY <1>7 DEF GiveUp, StartRefused, SaveOrStartFails, Polled, Unanswered, Live
  <2> QED
    BY <1>i, <2>1, ResetLock
<1>8. CASE PollFails(n)
  <2>1. Live(n) /\ phase[n] \in {"poll", "polled"} /\ UNCHANGED <<place, owner, watched>>
    BY <1>8 DEF PollFails, Unpolled, Live, serverVars
  <2>2. CASE left[n] > 0
    <3>1. Goto(n, "wait") /\ UNCHANGED <<enabled, cred, job>>
      BY <1>8, <2>2 DEF PollFails, formVars, urlVars
    <3> QED
      BY <1>3, <2>1, <3>1
  <2>3. CASE ~(left[n] > 0)
    BY <1>8, <1>i, <2>1, <2>3, ResetLock DEF PollFails
  <2> QED
    BY <2>2, <2>3
<1> QED
  BY <1>1, <1>2, <1>4, <1>5, <1>6, <1>7, <1>8 DEF Chain

(* The server's steps and those of the jobs.                               *)
LEMMA ServerLock ==
  ASSUME TypeOK, Lock, ~hasty', NEW n \in Clicks, Serve(n)
  PROVE  Sole' /\ Locked' /\ Urls'
<1>h. ~hasty
  BY DEF Serve, ServerCreates, ServerUpdates, ServerStarts, ServerShows, userVars
<1>i. Sole /\ Locked /\ Urls /\ Matches(n) /\ ChainsTyped
  BY <1>h DEF Lock, Urls, TypeOK
<1>u. UNCHANGED <<enabled, cred, job, place>>
  BY DEF Serve, ServerCreates, ServerUpdates, ServerStarts, ServerShows, pageVars, formVars,
         urlVars
<1>1. CASE ServerCreates(n)
  <2>1. /\ Live(n) /\ phase[n] = "create" /\ Goto(n, "created")
        /\ target' = [target EXCEPT ![n] = n] /\ UNCHANGED <<watched, owner>>
    BY <1>1 DEF ServerCreates, Live
  <2>2. /\ Sole' /\ Locked'
        /\ \A m \in Clicks : m # n => phase'[m] \in {"none", "over"}
        /\ phase'[n] = "created"
    BY <1>i, <1>u, <2>1, GoesOn
  <2>3. target'[n] # None
    BY <2>1, <1>i DEF ChainsTyped
  <2>4. \A m \in Clicks : Matches(m)'
    BY <1>i, <1>u, <2>1, <2>2, <2>3 DEF Matches
  <2> QED
    BY <1>i, <1>u, <2>1, <2>2, <2>4 DEF Urls
<1>2. CASE ServerUpdates(n)
  <2>1. /\ Live(n) /\ phase[n] = "update" /\ Goto(n, "updated")
        /\ UNCHANGED <<target, watched, owner>>
    BY <1>2 DEF ServerUpdates, Live
  <2>2. /\ Sole' /\ Locked'
        /\ \A m \in Clicks : m # n => phase'[m] \in {"none", "over"}
        /\ phase'[n] = "updated"
    BY <1>i, <1>u, <2>1, GoesOn
  <2>4. \A m \in Clicks : Matches(m)'
    BY <1>i, <1>u, <2>1, <2>2 DEF Matches
  <2> QED
    BY <1>i, <1>u, <2>1, <2>2, <2>4 DEF Urls
<1>3. CASE ServerStarts(n)
  <2>1. /\ Live(n) /\ phase[n] = "start" /\ Goto(n, "started")
        /\ owner' = [owner EXCEPT ![n] = target[n]]
        /\ watched' = [watched EXCEPT ![n] = n] /\ target' = target
    BY <1>3 DEF ServerStarts, Live
  <2>2. /\ Sole' /\ Locked'
        /\ \A m \in Clicks : m # n => phase'[m] \in {"none", "over"}
        /\ phase'[n] = "started"
    BY <1>i, <1>u, <2>1, GoesOn
  <2>3. target[n] = cred /\ job = None /\ cred # None
    BY <2>1, <1>i DEF Matches
  <2>4. watched'[n] = n /\ owner'[n] = cred
    BY <2>1, <2>3, <1>i DEF ChainsTyped, TypeOK, RowsTyped
  <2>5. \A m \in Clicks : Matches(m)'
    BY <1>u, <2>1, <2>2, <2>3, <2>4 DEF Matches
  <2> QED
    BY <1>i, <1>u, <2>2, <2>3, <2>5 DEF Urls
<1>4. CASE ServerShows(n)
  <2>1. /\ Live(n) /\ phase[n] = "poll" /\ Goto(n, "polled")
        /\ UNCHANGED <<target, watched, owner>>
    BY <1>4 DEF ServerShows, Live, serverVars
  <2>2. /\ Sole' /\ Locked'
        /\ \A m \in Clicks : m # n => phase'[m] \in {"none", "over"}
        /\ phase'[n] = "polled"
    BY <1>i, <1>u, <2>1, GoesOn
  <2>4. \A m \in Clicks : Matches(m)'
    BY <1>i, <1>u, <2>1, <2>2 DEF Matches
  <2> QED
    BY <1>i, <1>u, <2>1, <2>2, <2>4 DEF Urls
<1> QED
  BY <1>1, <1>2, <1>3, <1>4 DEF Serve

LEMMA LockNext == TypeOK /\ Lock /\ [Next]_vars => Lock'
<1> SUFFICES ASSUME TypeOK, Lock, [Next]_vars, ~hasty' PROVE Sole' /\ Locked' /\ Urls'
  BY DEF Lock
<1>1. CASE UNCHANGED <<hasty, enabled, cred, job, place, phase, target, watched, owner>>
  BY <1>1 DEF Lock, Sole, Locked, Urls, Matches, Live
<1>2. CASE UNCHANGED vars
  BY <1>1, <1>2 DEF vars, pageVars, formVars, urlVars, chainVars, serverVars, userVars
<1>3. ASSUME NEW n \in Clicks, JobReports(n) \/ JobFails(n) \/ WorkerDies(n)
      PROVE  Sole' /\ Locked' /\ Urls'
  BY <1>1, <1>3 DEF JobReports, JobFails, WorkerDies, pageVars, formVars, urlVars, chainVars,
                    userVars
<1>4. CASE Fill \/ Leave \/ \E n \in Clicks : Connect(n)
  BY <1>4, UserLock
<1>5. ASSUME NEW n \in Clicks, Chain(n) \/ SaveOrStartFails(n) \/ PollFails(n)
      PROVE  Sole' /\ Locked' /\ Urls'
  BY <1>5, ChainLock
<1>6. ASSUME NEW n \in Clicks, Serve(n) PROVE Sole' /\ Locked' /\ Urls'
  BY <1>6, ServerLock
<1> QED
  BY <1>2, <1>3, <1>4, <1>5, <1>6 DEF Next

(* For any number of clicks a user who waits for the form has one chain of *)
(* requests at most, and it watches the job of the page's credentials.     *)
THEOREM OneChainAtATime == Spec => []OneChain
<1>1. Init => TypeOK /\ Grounded /\ Lock
  BY InitTyped DEF Init, Lock, Sole, Locked, Urls, Matches, Live
<1>2. TypeOK /\ Grounded /\ Lock /\ [Next]_vars => (TypeOK /\ Grounded /\ Lock)'
  BY NextTyped, GroundedNext, LockNext
<1>3. TypeOK /\ Grounded /\ Lock => OneChain
  BY LockIsEnough
<1> QED
  BY <1>1, <1>2, <1>3, PTL DEF Spec

-----------------------------------------------------------------------------
(***************************************************************************)
(* Credentials are tried                                                   *)
(*                                                                         *)
(* CredentialsTried speaks of chains that have gone on.  What makes them   *)
(* go on with their own credentials is what the earlier phases know: a     *)
(* chain that creates targets itself until its job is there, and one that  *)
(* updates targets credentials that were stored before.                    *)
(***************************************************************************)

(* What the chain n has done to the credentials and the job of its number. *)
Chained(n) ==
  /\ n > clicks => phase[n] = "none"
  /\ phase[n] \in {"none", "create"} => creds[n] = {}
  /\ phase[n] \in {"created", "start", "started"} => target[n] = n /\ creds[n] # {}
  /\ phase[n] = "update" => target[n] = cred
  /\ creds[n] # {} /\ phase[n] \notin {"created", "start"} => status[n] # 0 /\ owner[n] = n

Tried ==
  ~hasty /\ failures = 0 =>
    /\ cred # None => creds[cred] # {}
    /\ \A n \in Clicks : Chained(n)

LEMMA TriedIsEnough == Tried => CredentialsTried
BY DEF Tried, Chained, CredentialsTried

(* A step of a chain that neither saves nor starts: from anywhere but the  *)
(* phases before the job, to one after it.                                 *)
LEMMA LaterStep ==
  ASSUME TypeOK, NEW n \in Clicks, NEW l \in {"poll", "polled", "wait", "over"}, Goto(n, l),
         phase[n] \in {"updated", "started", "poll", "polled", "wait"},
         \A m \in Clicks : Chained(m),
         \A m \in Clicks : phase[m] = "update" /\ m # n => target[m] = cred',
         UNCHANGED <<clicks, creds, target, status, owner>>
  PROVE  \A m \in Clicks : Chained(m)'
<1> SUFFICES ASSUME NEW m \in Clicks PROVE Chained(m)'
  OBVIOUS
<1>1. phase'[m] = IF m = n THEN l ELSE phase[m]
  BY DEF Goto, TypeOK, ChainsTyped
<1>2. n > clicks => FALSE
  BY DEF Chained
<1>3. Chained(m)
  OBVIOUS
<1>4. CASE m # n
  BY <1>1, <1>3, <1>4 DEF Chained
<1>5. CASE m = n
  <2>1. phase'[n] = l /\ l \notin {"none", "create", "created", "start", "started", "update"}
    BY <1>1, <1>5
  <2>2. creds[n] # {} => status[n] # 0 /\ owner[n] = n
    BY <1>3, <1>5 DEF Chained
  <2> QED
    BY <1>2, <1>5, <2>1, <2>2 DEF Chained
<1> QED
  BY <1>4, <1>5

LEMMA TriedUser ==
  ASSUME TypeOK, Lock, Tried, ~hasty', failures' = 0, Fill \/ Leave \/ \E n \in Clicks : Connect(n)
  PROVE  Tried'
<1>1. CASE Fill \/ Leave
  BY <1>1 DEF Fill, Leave, Tried, Chained, urlVars, formVars, chainVars, serverVars, rowVars, userVars
<1>2. ASSUME NEW n \in Clicks, Connect(n) PROVE Tried'
  <2> DEFINE l == IF cred = None THEN "create" ELSE "update"
  <2>1. ~hasty /\ failures = 0 /\ n = clicks + 1 /\ clicks' = n /\ clicks \in Nat
    BY <1>2 DEF Connect, TypeOK, BoundsTyped
  <2>2. /\ UNCHANGED <<cred, creds, status, owner>>
        /\ \A m \in Clicks : phase'[m] = IF m = n THEN l ELSE phase[m]
        /\ \A m \in Clicks : target'[m] = IF m = n THEN cred ELSE target[m]
    BY <1>2 DEF Connect, TypeOK, ChainsTyped, urlVars, serverVars, rowVars
  <2>3. ASSUME NEW m \in Clicks PROVE Chained(m)'
    <3>1. Chained(m)
      BY <2>1 DEF Tried
    <3>2. CASE m # n
      BY <2>1, <2>2, <3>1, <3>2 DEF Chained
    <3>3. CASE m = n
      <4>1. phase[m] = "none" /\ creds[m] = {}
        BY <2>1, <3>1, <3>3 DEF Chained
      <4> QED
        BY <2>1, <2>2, <3>3, <4>1 DEF Chained
    <3> QED
      BY <3>2, <3>3
  <2> QED
    BY <2>1, <2>2, <2>3 DEF Tried
<1> QED
  BY <1>1, <1>2

LEMMA TriedChain ==
  ASSUME TypeOK, Lock, Tried, ~hasty', failures' = 0, NEW n \in Clicks,
         Chain(n) \/ SaveOrStartFails(n) \/ PollFails(n)
  PROVE  Tried'
<1>1. ~SaveOrStartFails(n) /\ ~PollFails(n)
  BY DEF SaveOrStartFails, PollFails, Lost, TypeOK, BoundsTyped
<1>2. /\ ~hasty /\ failures = 0
      /\ UNCHANGED <<clicks, creds, status, owner>>
  BY <1>1 DEF Chain, Saved, Started, Skip, Succeed, Ask, GoOn, GiveUp, PollAgain, StartRefused,
              userVars, serverVars, rowVars
<1>3. /\ Matches(n) /\ Chained(n) /\ \A m \in Clicks : Chained(m)
      /\ cred # None => creds[cred] # {}
  BY <1>2 DEF Lock, Urls, Tried
<1>4. ASSUME Live(n) PROVE \A m \in Clicks : m # n => phase[m] \in {"none", "over"}
  BY <1>2, <1>4 DEF Lock, Sole, Live
<1>5. CASE Saved(n) /\ phase[n] = "updated"
  <2>1. cred # None /\ job # None
    BY <1>3, <1>5 DEF Matches
  <2>2. Goto(n, "poll") /\ UNCHANGED <<cred, target>>
    BY <1>5, <2>1 DEF Saved
  <2> QED
    BY <1>2, <1>3, <1>5, <2>2, LaterStep DEF Tried, Chained
<1>6. CASE Saved(n) /\ phase[n] = "created"
  <2>1. cred = None /\ target[n] = n /\ creds[n] # {}
    BY <1>3, <1>6 DEF Matches, Chained
  <2>2. Goto(n, "start") /\ target' = target /\ cred' = n
    BY <1>6, <2>1 DEF Saved
  <2>3. \A m \in Clicks : phase'[m] = IF m = n THEN "start" ELSE phase[m]
    BY <2>2 DEF Goto, TypeOK, ChainsTyped
  <2>4. \A m \in Clicks : m # n => phase[m] \in {"none", "over"}
    BY <1>4, <1>6 DEF Live
  <2>5. \A m \in Clicks : Chained(m)'
    BY <1>2, <1>3, <1>6, <2>1, <2>2, <2>3, <2>4 DEF Chained
  <2> QED
    BY <1>2, <2>1, <2>2, <2>5 DEF Tried
<1>7. CASE Started(n)
  <2>1. Goto(n, "poll") /\ phase[n] = "started" /\ UNCHANGED <<cred, target>>
    BY <1>7 DEF Started
  <2> QED
    BY <1>2, <1>3, <2>1, LaterStep DEF Tried, Chained
<1>8. CASE Skip(n) \/ GoOn(n) \/ PollAgain(n) \/ Succeed(n) \/ Ask(n)
  <2>1. /\ \E l \in {"poll", "wait", "over"} : Goto(n, l)
        /\ phase[n] \in {"polled", "wait"} /\ UNCHANGED <<cred, target>>
    BY <1>8 DEF Skip, GoOn, PollAgain, Succeed, Ask, Polled, pageVars, urlVars
  <2> QED
    BY <1>2, <1>3, <2>1, LaterStep DEF Tried, Chained
<1>9. CASE GiveUp(n)
  <2>1. Goto(n, "over") /\ phase[n] = "polled" /\ target' = target /\ cred' = None
    BY <1>9 DEF GiveUp, Polled, Reset
  <2>2. \A m \in Clicks : m # n => phase[m] \in {"none", "over"}
    BY <1>4, <2>1 DEF Live
  <2>3. \A m \in Clicks : Chained(m)'
    BY <1>2, <1>3, <2>1, <2>2, LaterStep
  <2> QED
    BY <1>2, <2>1, <2>3 DEF Tried
<1>10. ~StartRefused(n)
  BY <1>3 DEF StartRefused, Chained
<1> QED
  BY <1>1, <1>5, <1>6, <1>7, <1>8, <1>9, <1>10 DEF Chain, Saved

LEMMA TriedServer ==
  ASSUME TypeOK, Lock, Tried, ~hasty', failures' = 0, NEW n \in Clicks, Serve(n)
  PROVE  Tried'
<1>1. ~hasty /\ failures = 0 /\ UNCHANGED <<clicks, cred>>
  BY DEF Serve, ServerCreates, ServerUpdates, ServerStarts, ServerShows, userVars, pageVars, urlVars
<1>2. /\ Matches(n) /\ Chained(n) /\ \A m \in Clicks : Chained(m)
      /\ cred # None => creds[cred] # {}
  BY <1>1 DEF Lock, Urls, Tried
<1>3. CASE ServerCreates(n)
  <2>1. /\ phase[n] = "create" /\ UNCHANGED <<status, owner>>
        /\ \A m \in Clicks : phase'[m] = IF m = n THEN "created" ELSE phase[m]
        /\ \A m \in Clicks : target'[m] = IF m = n THEN n ELSE target[m]
        /\ \A m \in Clicks : creds'[m] = IF m = n THEN {sent[n]} ELSE creds[m]
    BY <1>3 DEF ServerCreates, Goto, TypeOK, ChainsTyped, RowsTyped, rowVars
  <2>2. \A m \in Clicks : Chained(m)'
    BY <1>1, <1>2, <2>1 DEF Chained
  <2>3. cred # None => cred \in Clicks
    BY DEF TypeOK, UrlsTyped
  <2> QED
    BY <1>1, <1>2, <2>1, <2>2, <2>3 DEF Tried
<1>4. CASE ServerUpdates(n)
  <2>1. target[n] = cred /\ cred \in Clicks /\ creds[cred] # {}
    BY <1>2, <1>4 DEF ServerUpdates, Matches, Chained, TypeOK, UrlsTyped
  <2>2. /\ phase[n] = "update" /\ UNCHANGED <<status, owner, target>>
        /\ \A m \in Clicks : phase'[m] = IF m = n THEN "updated" ELSE phase[m]
        /\ creds' = [creds EXCEPT ![cred] = creds[cred] \cup {sent[n]}]
    BY <1>4, <2>1 DEF ServerUpdates, Goto, TypeOK, ChainsTyped, rowVars
  <2>3. \A m \in Clicks : creds'[m] = {} <=> creds[m] = {}
    BY <2>1, <2>2 DEF TypeOK, RowsTyped
  <2>4. \A m \in Clicks : Chained(m)'
    BY <1>1, <1>2, <2>2, <2>3 DEF Chained
  <2> QED
    BY <1>1, <1>2, <2>1, <2>3, <2>4 DEF Tried
<1>5. CASE ServerStarts(n)
  <2>1. target[n] = n /\ creds[n] # {}
    BY <1>2, <1>5 DEF ServerStarts, Chained
  <2>2. /\ phase[n] = "start" /\ UNCHANGED <<creds, target>>
        /\ \A m \in Clicks : phase'[m] = IF m = n THEN "started" ELSE phase[m]
        /\ \A m \in Clicks : owner'[m] = IF m = n THEN n ELSE owner[m]
        /\ \A m \in Clicks : status'[m] = IF m = n THEN Pending ELSE status[m]
    BY <1>5, <2>1 DEF ServerStarts, Goto, Row!Post, Row!Pending, TypeOK, ChainsTyped, RowsTyped
  <2>3. \A m \in Clicks : Chained(m)'
    BY <1>1, <1>2, <2>1, <2>2 DEF Chained
  <2> QED
    BY <1>1, <1>2, <2>2, <2>3 DEF Tried
<1>6. CASE ServerShows(n)
  <2>1. /\ Goto(n, "polled") /\ phase[n] = "poll"
        /\ UNCHANGED <<creds, target, status, owner>>
    BY <1>6 DEF ServerShows, serverVars, rowVars
  <2> QED
    BY <1>1, <1>2, <2>1, LaterStep DEF Tried, Chained
<1> QED
  BY <1>3, <1>4, <1>5, <1>6 DEF Serve

(* A row that is there stays, whatever its worker does to it.              *)
LEMMA RowStays ==
  ASSUME TypeOK, NEW n \in Clicks, JobReports(n) \/ JobFails(n) \/ WorkerDies(n)
  PROVE  \A m \in Clicks : status[m] # 0 => status'[m] # 0
<1>1. CASE JobReports(n)
  <2>1. PICK code \in {Success, Refused} \cup {Pending} : status' = [status EXCEPT ![n] = code]
    <3>1. Row!Report(n)
      BY <1>1 DEF JobReports
    <3> QED
      BY <3>1 DEF Row!Report, Row!Pending
  <2> QED
    BY <2>1 DEF TypeOK, RowsTyped
<1>2. CASE JobFails(n)
  <2>1. status' = [status EXCEPT ![n] = Error]
    BY <1>2 DEF JobFails, Row!Fail, Row!GeneralError
  <2> QED
    BY <2>1 DEF TypeOK, RowsTyped
<1>3. CASE WorkerDies(n)
  BY <1>3 DEF WorkerDies, Row!Close
<1> QED
  BY <1>1, <1>2, <1>3

LEMMA TriedNext == TypeOK /\ Lock /\ Tried /\ [Next]_vars => Tried'
<1> SUFFICES ASSUME TypeOK, Lock, Tried, [Next]_vars, ~hasty', failures' = 0 PROVE Tried'
  BY DEF Tried
<1>1. CASE UNCHANGED vars
  BY <1>1 DEF Tried, Chained, vars, pageVars, urlVars, chainVars, serverVars, rowVars, userVars
<1>2. ASSUME NEW n \in Clicks, JobReports(n) \/ JobFails(n) \/ WorkerDies(n) PROVE Tried'
  <2>1. UNCHANGED <<hasty, failures, clicks, cred, phase, target, creds, owner>>
    BY <1>2 DEF JobReports, JobFails, WorkerDies, pageVars, urlVars, chainVars, userVars
  <2>2. \A m \in Clicks : status[m] # 0 => status'[m] # 0
    BY <1>2, RowStays
  <2> QED
    BY <2>1, <2>2 DEF Tried, Chained
<1>3. CASE Fill \/ Leave \/ \E n \in Clicks : Connect(n)
  BY <1>3, TriedUser
<1>4. ASSUME NEW n \in Clicks, Chain(n) \/ SaveOrStartFails(n) \/ PollFails(n) PROVE Tried'
  BY <1>4, TriedChain
<1>5. ASSUME NEW n \in Clicks, Serve(n) PROVE Tried'
  BY <1>5, TriedServer
<1> QED
  BY <1>1, <1>2, <1>3, <1>4, <1>5 DEF Next

(* For any number of clicks: while no request fails, the credentials a     *)
(* user who waits has stored have a sync job of their own.                 *)
THEOREM StoredCredentialsAreTried == Spec => []CredentialsTried
<1>1. Init => TypeOK /\ Grounded /\ Lock /\ Tried
  BY InitTyped DEF Init, Lock, Sole, Locked, Urls, Matches, Live, Tried, Chained
<1>2. TypeOK /\ Grounded /\ Lock /\ Tried /\ [Next]_vars => (TypeOK /\ Grounded /\ Lock /\ Tried)'
  BY NextTyped, GroundedNext, LockNext, TriedNext
<1>3. Tried => CredentialsTried
  BY TriedIsEnough
<1> QED
  BY <1>1, <1>2, <1>3, PTL DEF Spec

-----------------------------------------------------------------------------
(***************************************************************************)
(* No question twice                                                       *)
(*                                                                         *)
(* A question is known by its job and the version of the row.  The page's  *)
(* lastVersion bounds the versions asked about for the page's own job; a   *)
(* job that is only being started has a row that was not there before, so  *)
(* that it cannot have asked anything.                                     *)
(***************************************************************************)

Heard ==
  /\ asked \subseteq Clicks \X (0..MaxVersion)
  /\ \A e \in asked : status[e[1]] # 0 /\ (e[1] = job => e[2] <= lastVersion)
  /\ job # None => status[job] # 0
  /\ \A n \in Clicks : phase[n] = "started" =>
       status[watched[n]] # 0 /\ \A e \in asked : e[1] # watched[n]

AskedOnce == ~hasty => Heard

(* Only the one chain's polling asks, and about the page's job.            *)
LEMMA AsksWhat ==
  ASSUME TypeOK, Lock, ~hasty, Next, AsksNow
  PROVE  \E n \in Clicks :
           /\ Ask(n) /\ job # None /\ job' = job /\ lastVersion' = seen[n].version
           /\ lastVersion < lastVersion' /\ lastVersion' \in 0..MaxVersion
<1>1. ASSUME NEW n \in Clicks, Ask(n)
      PROVE  /\ job # None /\ job' = job /\ lastVersion' = seen[n].version
             /\ lastVersion < lastVersion' /\ lastVersion' \in 0..MaxVersion
  <2>1. phase[n] = "polled" /\ ~(seen[n].version <= lastVersion) /\ job' = job
        /\ lastVersion' = seen[n].version
    BY <1>1 DEF Ask, Polled, Stale, Notes
  <2>2. job # None
    BY <2>1 DEF Lock, Urls, Matches
  <2>3. seen[n].version \in 0..MaxVersion /\ lastVersion \in Int
    BY DEF TypeOK, ChainsTyped, UrlsTyped
  <2> QED
    BY <2>1, <2>2, <2>3
<1>2. ASSUME NEW n \in Clicks, Connect(n) \/ Saved(n) \/ Started(n) \/ Skip(n) \/ Succeed(n)
                               \/ GoOn(n) \/ GiveUp(n) \/ PollAgain(n) \/ StartRefused(n)
                               \/ SaveOrStartFails(n) \/ PollFails(n)
      PROVE  filled' = filled
  BY <1>2 DEF Connect, Saved, Started, Skip, Succeed, GoOn, GiveUp, PollAgain, StartRefused,
              SaveOrStartFails, PollFails, Reset, formVars, pageVars
<1>3. ASSUME NEW n \in Clicks, Serve(n) \/ JobReports(n) \/ JobFails(n) \/ WorkerDies(n)
      PROVE  filled' = filled
  BY <1>3 DEF Serve, ServerCreates, ServerUpdates, ServerStarts, ServerShows, JobReports, JobFails,
              WorkerDies, pageVars, formVars
<1>4. CASE Fill \/ Leave
  BY <1>4 DEF Fill, Leave, AsksNow, formVars
<1> QED
  BY <1>1, <1>2, <1>3, <1>4 DEF Next, Chain, AsksNow

(* A step that neither asks, starts a job nor takes one over: the page     *)
(* keeps its job and may note a later version, or forgets both.            *)
LEMMA HeardKept ==
  ASSUME TypeOK, Heard, asked' = asked,
         \A j \in Clicks : status[j] # 0 => status'[j] # 0,
         \/ job' = job /\ lastVersion <= lastVersion'
         \/ job' = None,
         \A n \in Clicks : phase'[n] = "started" => phase[n] = "started" /\ watched'[n] = watched[n],
         \A n \in Clicks : phase[n] = "started" => watched[n] \in Clicks,
         lastVersion' \in Int
  PROVE  Heard'
<1>1. \A e \in asked : e[1] \in Clicks /\ e[2] \in Int
  BY DEF Heard
<1>2. \A e \in asked : status'[e[1]] # 0
  BY <1>1 DEF Heard
<1>3. \A e \in asked : e[1] = job' => e[2] <= lastVersion'
  <2> SUFFICES ASSUME NEW e \in asked, e[1] = job' PROVE e[2] <= lastVersion'
    OBVIOUS
  <2>1. job' = job /\ lastVersion <= lastVersion' /\ lastVersion \in Int
    BY <1>1 DEF TypeOK, UrlsTyped
  <2>2. e[2] <= lastVersion
    BY <2>1 DEF Heard
  <2> QED
    BY <1>1, <2>1, <2>2
<1>4. job' # None => status'[job'] # 0
  BY DEF Heard, TypeOK, UrlsTyped
<1>5. \A n \in Clicks : phase'[n] = "started" =>
        status'[watched'[n]] # 0 /\ \A e \in asked : e[1] # watched'[n]
  BY DEF Heard
<1> QED
  BY <1>2, <1>3, <1>4, <1>5 DEF Heard

LEMMA HeardNext ==
  ASSUME TypeOK, Lock, ~hasty, Heard, Next, asked' = asked
  PROVE  Heard'
<1>t. /\ lastVersion \in Int /\ lastVersion <= lastVersion
      /\ \A n \in Clicks : phase[n] = "started" => watched[n] \in Clicks
  <2>1. \A n \in Clicks : phase[n] = "started" => watched[n] # None /\ watched[n] \in Clicks \cup {None}
    BY DEF Lock, Urls, Matches, TypeOK, ChainsTyped
  <2> QED
    BY <2>1 DEF TypeOK, UrlsTyped
<1>p. ASSUME NEW n \in Clicks, NEW l, Goto(n, l), l # "started", watched' = watched
      PROVE  \A m \in Clicks : phase'[m] = "started" => phase[m] = "started" /\ watched'[m] = watched[m]
  BY <1>p DEF Goto, TypeOK, ChainsTyped
<1>1. CASE Fill \/ Leave
  BY <1>1, <1>t, HeardKept DEF Fill, Leave, urlVars, chainVars, serverVars, rowVars
<1>2. ASSUME NEW n \in Clicks, Connect(n) PROVE Heard'
  <2>1. \A m \in Clicks : phase'[m] = "started" => phase[m] = "started"
    BY <1>2 DEF Connect, TypeOK, ChainsTyped
  <2> QED
    BY <1>2, <1>t, <2>1, HeardKept DEF Connect, urlVars, serverVars, rowVars
<1>3. ASSUME NEW n \in Clicks, Saved(n) PROVE Heard'
  <2>1. \A m \in Clicks : phase'[m] = "started" => phase[m] = "started" /\ watched'[m] = watched[m]
    <3>1. PICK l \in {"poll", "over", "start"} : Goto(n, l)
      BY <1>3 DEF Saved
    <3>2. watched' = watched \/ watched' = [watched EXCEPT ![n] = job]
      BY <1>3 DEF Saved
    <3>3. \A m \in Clicks : phase'[m] = IF m = n THEN l ELSE phase[m]
      BY <3>1 DEF Goto, TypeOK, ChainsTyped
    <3>4. phase'[n] # "started"
      BY <3>1, <3>3
    <3>5. \A m \in Clicks : m # n => watched'[m] = watched[m]
      <4>1. watched \in [Clicks -> Clicks \cup {None}]
        BY DEF TypeOK, ChainsTyped
      <4>2. CASE watched' = [watched EXCEPT ![n] = job]
        BY <4>1, <4>2
      <4> QED
        BY <3>2, <4>2
    <3> QED
      BY <3>3, <3>4, <3>5
  <2> QED
    BY <1>3, <1>t, <2>1, HeardKept DEF Saved, serverVars, rowVars
<1>4. ASSUME NEW n \in Clicks, Started(n) PROVE Heard'
  <2>1. phase[n] = "started" /\ Goto(n, "poll") /\ job' = watched[n]
        /\ UNCHANGED <<lastVersion, watched, status>>
    BY <1>4 DEF Started, serverVars, rowVars
  <2>2. \A m \in Clicks : phase'[m] = "started" => phase[m] = "started" /\ watched'[m] = watched[m]
    BY <2>1, <1>p
  <2>3. status[watched[n]] # 0 /\ \A e \in asked : e[1] # watched[n]
    BY <2>1 DEF Heard
  <2> QED
    BY <2>1, <2>2, <2>3 DEF Heard
<1>5. ASSUME NEW n \in Clicks, Skip(n) \/ PollAgain(n) PROVE Heard'
  <2>1. /\ \E l \in {"wait", "poll"} : Goto(n, l)
        /\ UNCHANGED <<job, lastVersion, watched, status>>
    BY <1>5 DEF Skip, PollAgain, pageVars, urlVars, serverVars, rowVars
  <2>2. \A m \in Clicks : phase'[m] = "started" => phase[m] = "started" /\ watched'[m] = watched[m]
    BY <2>1, <1>p
  <2> QED
    BY <2>1, <2>2, <1>t, HeardKept
<1>6. ASSUME NEW n \in Clicks, Succeed(n) \/ Ask(n) \/ GoOn(n) PROVE Heard'
  <2>1. /\ \E l \in {"wait", "over"} : Goto(n, l)
        /\ ~(seen[n].version <= lastVersion) /\ lastVersion' = seen[n].version
        /\ UNCHANGED <<job, watched, status>>
    BY <1>6 DEF Succeed, Ask, GoOn, Stale, Notes, serverVars, rowVars
  <2>2. \A m \in Clicks : phase'[m] = "started" => phase[m] = "started" /\ watched'[m] = watched[m]
    BY <2>1, <1>p
  <2>3. seen[n].version \in Int
    BY DEF TypeOK, ChainsTyped
  <2>4. lastVersion <= lastVersion' /\ lastVersion' \in Int
    BY <1>t, <2>1, <2>3
  <2> QED
    BY <2>1, <2>2, <2>4, <1>t, HeardKept
<1>7. ASSUME NEW n \in Clicks, GiveUp(n) \/ StartRefused(n) \/ SaveOrStartFails(n) PROVE Heard'
  <2>1. Goto(n, "over") /\ job' = None /\ lastVersion' = -1 /\ UNCHANGED <<watched, status>>
    BY <1>7 DEF GiveUp, StartRefused, SaveOrStartFails, Reset, serverVars, rowVars
  <2>2. \A m \in Clicks : phase'[m] = "started" => phase[m] = "started" /\ watched'[m] = watched[m]
    BY <2>1, <1>p
  <2> QED
    BY <2>1, <2>2, <1>t, HeardKept
<1>8. ASSUME NEW n \in Clicks, PollFails(n) PROVE Heard'
  <2>1. /\ \E l \in {"wait", "over"} : Goto(n, l)
        /\ UNCHANGED <<watched, status>>
        /\ \/ UNCHANGED <<job, lastVersion>>
           \/ job' = None /\ lastVersion' = -1
    BY <1>8 DEF PollFails, Reset, urlVars, serverVars, rowVars
  <2>2. \A m \in Clicks : phase'[m] = "started" => phase[m] = "started" /\ watched'[m] = watched[m]
    BY <2>1, <1>p
  <2> QED
    BY <2>1, <2>2, <1>t, HeardKept
<1>9. ASSUME NEW n \in Clicks, ServerCreates(n) \/ ServerUpdates(n) \/ ServerShows(n) PROVE Heard'
  <2>1. /\ \E l \in {"created", "updated", "polled"} : Goto(n, l)
        /\ UNCHANGED <<job, lastVersion, watched, status>>
    BY <1>9 DEF ServerCreates, ServerUpdates, ServerShows, pageVars, urlVars, serverVars, rowVars
  <2>2. \A m \in Clicks : phase'[m] = "started" => phase[m] = "started" /\ watched'[m] = watched[m]
    BY <2>1, <1>p
  <2> QED
    BY <2>1, <2>2, <1>t, HeardKept
<1>10. ASSUME NEW n \in Clicks, ServerStarts(n) PROVE Heard'
  <2>1. /\ status[n] = 0 /\ UNCHANGED <<job, lastVersion>>
        /\ \A m \in Clicks : status'[m] = IF m = n THEN Pending ELSE status[m]
        /\ \A m \in Clicks : phase'[m] = IF m = n THEN "started" ELSE phase[m]
        /\ \A m \in Clicks : watched'[m] = IF m = n THEN n ELSE watched[m]
    BY <1>10 DEF ServerStarts, Goto, Row!Post, Row!Pending, pageVars, urlVars, TypeOK, ChainsTyped,
                 RowsTyped
  <2>2. \A e \in asked : e[1] \in Clicks /\ e[1] # n
    BY <2>1 DEF Heard
  <2>3. \A m \in Clicks : phase'[m] = "started" =>
          status'[watched'[m]] # 0 /\ \A e \in asked : e[1] # watched'[m]
    <3> SUFFICES ASSUME NEW m \in Clicks, phase'[m] = "started"
                 PROVE  status'[watched'[m]] # 0 /\ \A e \in asked : e[1] # watched'[m]
      OBVIOUS
    <3>1. CASE m = n
      BY <2>1, <2>2, <3>1
    <3>2. CASE m # n
      BY <2>1, <3>2, <1>t DEF Heard
    <3> QED
      BY <3>1, <3>2
  <2>4. job \in Clicks \cup {None}
    BY DEF TypeOK, UrlsTyped
  <2> QED
    BY <2>1, <2>2, <2>3, <2>4 DEF Heard
<1>11. ASSUME NEW n \in Clicks, JobReports(n) \/ JobFails(n) \/ WorkerDies(n) PROVE Heard'
  <2>1. UNCHANGED <<job, lastVersion, phase, watched>>
    BY <1>11 DEF JobReports, JobFails, WorkerDies, pageVars, urlVars, chainVars
  <2> QED
    BY <1>11, <2>1, <1>t, RowStays, HeardKept
<1> QED
  BY <1>1, <1>2, <1>3, <1>4, <1>5, <1>6, <1>7, <1>8, <1>9, <1>10, <1>11
     DEF Next, Chain, Serve

(* Once Connect was clicked on a disabled form nothing is claimed any more. *)
LEMMA HastyStays == TypeOK /\ Next /\ hasty => hasty'
BY DEF Next, Fill, Leave, Connect, Chain, Saved, Started, Skip, Succeed, Ask, GoOn, GiveUp,
       PollAgain, StartRefused, SaveOrStartFails, PollFails, Serve, ServerCreates, ServerUpdates,
       ServerStarts, ServerShows, JobReports, JobFails, WorkerDies, userVars, TypeOK, BoundsTyped

LEMMA AskedNext == TypeOK /\ Lock /\ AskedOnce /\ [MCNext]_<<vars, asked>> => AskedOnce'
<1> SUFFICES ASSUME TypeOK, Lock, AskedOnce, [MCNext]_<<vars, asked>>, ~hasty' PROVE Heard'
  BY DEF AskedOnce
<1>1. CASE UNCHANGED <<vars, asked>>
  BY <1>1 DEF vars, pageVars, urlVars, chainVars, serverVars, rowVars, userVars, AskedOnce, Heard
<1>2. CASE MCNext
  <2>1. Next /\ ~hasty /\ Heard
    BY <1>2, HastyStays DEF MCNext, AskedOnce
  <2>2. CASE ~AsksNow
    BY <1>2, <2>1, <2>2, HeardNext DEF MCNext
  <2>3. CASE AsksNow
    <3>1. PICK n \in Clicks :
            /\ Ask(n) /\ job # None /\ job' = job
            /\ lastVersion < lastVersion' /\ lastVersion' \in 0..MaxVersion
      BY <2>1, <2>3, AsksWhat
    <3>2. asked' = asked \cup {<<job, lastVersion'>>}
      BY <1>2, <2>3 DEF MCNext
    <3>3. /\ UNCHANGED <<status, watched>> /\ phase[n] = "polled"
          /\ \A m \in Clicks : phase'[m] = IF m = n THEN "over" ELSE phase[m]
      BY <3>1 DEF Ask, Polled, Goto, serverVars, rowVars, TypeOK, ChainsTyped
    <3>4. job \in Clicks /\ status[job] # 0 /\ lastVersion \in Int
      BY <2>1, <3>1 DEF Heard, TypeOK, UrlsTyped
    <3>5. asked' \subseteq Clicks \X (0..MaxVersion)
      BY <2>1, <3>1, <3>2, <3>4 DEF Heard
    <3>6. \A e \in asked' : status'[e[1]] # 0 /\ (e[1] = job' => e[2] <= lastVersion')
      <4> SUFFICES ASSUME NEW e \in asked'
                   PROVE  status'[e[1]] # 0 /\ (e[1] = job' => e[2] <= lastVersion')
        OBVIOUS
      <4>1. CASE e = <<job, lastVersion'>>
        BY <3>1, <3>3, <3>4, <4>1
      <4>2. CASE e \in asked
        BY <2>1, <3>1, <3>3, <3>4, <3>5, <4>2 DEF Heard
      <4> QED
        BY <3>2, <4>1, <4>2
    <3>7. \A m \in Clicks : phase'[m] # "started"
      BY <2>1, <3>3 DEF Lock, Sole, Live
    <3> QED
      BY <3>1, <3>3, <3>4, <3>5, <3>6, <3>7 DEF Heard
  <2> QED
    BY <2>2, <2>3
<1> QED
  BY <1>1, <1>2

(* For any number of clicks and versions a user who waits for the form is  *)
(* asked no question of the bank twice: the polling that meets the old row *)
(* again knows its version.                                                *)
THEOREM QuestionsAreNew == MCSpec => NoQuestionTwice
<1> DEFINE Inv == TypeOK /\ Grounded /\ Lock /\ AskedOnce
<1>1. MCInit => Inv
  <2>1. Init => TypeOK /\ Grounded /\ Lock
    BY InitTyped DEF Init, Lock, Sole, Locked, Urls, Matches, Live
  <2>2. MCInit => AskedOnce
    BY DEF MCInit, Init, AskedOnce, Heard
  <2> QED
    BY <2>1, <2>2 DEF MCInit
<1>2. Inv /\ [MCNext]_<<vars, asked>> => Inv'
  <2>1. [MCNext]_<<vars, asked>> => [Next]_vars
    BY DEF MCNext
  <2> QED
    BY <2>1, NextTyped, GroundedNext, LockNext, AskedNext
<1>3. Inv /\ [MCNext]_<<vars, asked>>
        => [AsksNow /\ ~hasty => <<job, lastVersion'>> \notin asked]_<<vars, asked>>
  <2> SUFFICES ASSUME Inv, MCNext, AsksNow, ~hasty, <<job, lastVersion'>> \in asked PROVE FALSE
    OBVIOUS
  <2>1. Next
    BY DEF MCNext
  <2>2. lastVersion < lastVersion' /\ lastVersion' \in Int /\ lastVersion \in Int
    BY <2>1, AsksWhat DEF TypeOK, UrlsTyped
  <2>3. lastVersion' <= lastVersion
    BY DEF AskedOnce, Heard
  <2> QED
    BY <2>2, <2>3
<1> QED
  BY <1>1, <1>2, <1>3, PTL DEF MCSpec, NoQuestionTwice

-----------------------------------------------------------------------------
(***************************************************************************)
(* A chain goes on                                                         *)
(*                                                                         *)
(* The part of FormComesBack that needs no fairness: whatever the user     *)
(* does and whichever requests fail, no chain comes to a point where       *)
(* neither it nor the server has a step to take.  HasStep lists the guards *)
(* of Chain and Serve.  Two phases could get stuck: a job is started once  *)
(* per chain, and pollStatus (new.js) has no branch for a row without a    *)
(* status.                                                                 *)
(***************************************************************************)

HasStep(n) ==
  \/ phase[n] \in {"create", "created", "update", "updated", "started", "poll", "wait"}
  \/ phase[n] = "start" /\ (target[n] # None => status[n] = 0)
  \/ phase[n] = "polled" /\ (Stale(n) \/ seen[n].status \in {Success, Pending, Refused, Error})

(* No running chain is stuck, and to a user who waits a disabled form      *)
(* means that one is running.                                              *)
NeverStuck ==
  /\ \A n \in Running : HasStep(n)
  /\ ~enabled /\ ~hasty /\ place = "open" => Running # {}

BeforeJob == {"none", "create", "created", "update", "updated", "start"}
AfterJob  == {"started", "poll", "polled", "wait"}

(* The rows a chain will start or ask for: none before its job is started, *)
(* and one that is there from then on.                                     *)
Rooted(n) ==
  /\ n > clicks => phase[n] = "none"
  /\ phase[n] \in BeforeJob => status[n] = 0
  /\ phase[n] \in AfterJob => status[watched[n]] # 0
  /\ phase[n] = "polled" => seen[n].status # 0

Going ==
  /\ job # None => status[job] # 0
  /\ \A n \in Clicks : Rooted(n)

LEMMA GoingIsEnough == TypeOK /\ Going /\ Lock => NeverStuck
<1> SUFFICES ASSUME TypeOK, Going, Lock PROVE NeverStuck
  OBVIOUS
<1>1. ASSUME NEW n \in Running PROVE HasStep(n)
  <2>1. phase[n] \in Phases \ {"none", "over"} /\ n \in Clicks /\ Rooted(n)
    BY DEF Running, TypeOK, ChainsTyped, Going
  <2>2. seen[n].status \in Statuses
    BY <2>1 DEF TypeOK, ChainsTyped
  <2> QED
    BY <2>1, <2>2 DEF Phases, HasStep, Rooted, BeforeJob
<1>2. ~enabled /\ ~hasty /\ place = "open" => Running # {}
  BY DEF Lock, Locked, Live, Running
<1> QED
  BY <1>1, <1>2 DEF NeverStuck

(* A step of a chain that only moves it, to a phase with no more demands.  *)
LEMMA GoingGoto ==
  ASSUME TypeOK, NEW n \in Clicks, NEW l \in BeforeJob \cup {"poll", "wait", "over"}, Goto(n, l),
         \A m \in Clicks : Rooted(m),
         phase[n] # "none",
         l \in BeforeJob => phase[n] \in BeforeJob,
         l \in {"poll", "wait"} => phase[n] \in AfterJob,
         watched' = watched, status' = status, clicks' = clicks,
         \A m \in Clicks : m # n => seen'[m] = seen[m]
  PROVE  \A m \in Clicks : Rooted(m)'
<1> SUFFICES ASSUME NEW m \in Clicks PROVE Rooted(m)'
  OBVIOUS
<1>1. phase'[m] = IF m = n THEN l ELSE phase[m]
  BY DEF Goto, TypeOK, ChainsTyped
<1>2. Rooted(m)
  OBVIOUS
<1> QED
  BY <1>1, <1>2 DEF Rooted, BeforeJob, AfterJob

LEMMA GoingUser ==
  ASSUME TypeOK, Going, Fill \/ Leave \/ \E n \in Clicks : Connect(n)
  PROVE  Going'
<1>1. CASE Fill \/ Leave
  BY <1>1 DEF Fill, Leave, Going, Rooted, urlVars, chainVars, serverVars, rowVars, userVars
<1>2. ASSUME NEW n \in Clicks, Connect(n) PROVE Going'
  <2>1. /\ n = clicks + 1 /\ clicks' = n /\ clicks \in Nat
        /\ \A m \in Clicks : phase'[m] = IF m = n THEN (IF cred = None THEN "create" ELSE "update")
                                                  ELSE phase[m]
        /\ UNCHANGED <<job, status, watched, seen>>
    BY <1>2 DEF Connect, TypeOK, ChainsTyped, BoundsTyped, urlVars, serverVars, rowVars
  <2> QED
    BY <2>1 DEF Going, Rooted, BeforeJob, AfterJob
<1> QED
  BY <1>1, <1>2

LEMMA GoingChain ==
  ASSUME TypeOK, Going, NEW n \in Clicks, Chain(n) \/ SaveOrStartFails(n) \/ PollFails(n)
  PROVE  Going'
<1>1. UNCHANGED <<status, clicks>>
  BY DEF Chain, Saved, Started, Skip, Succeed, Ask, GoOn, GiveUp, PollAgain, StartRefused,
         SaveOrStartFails, PollFails, userVars, serverVars, rowVars
<1>2. \A m \in Clicks : Rooted(m)
  BY DEF Going
<1>3. CASE Saved(n)
  <2>1. phase[n] \in BeforeJob /\ phase[n] # "none" /\ UNCHANGED <<job, seen>>
    BY <1>3 DEF Saved, BeforeJob
  <2>2. CASE cred = None
    <3>1. Goto(n, "start") /\ watched' = watched
      BY <1>3, <2>2 DEF Saved
    <3> QED
      BY <1>1, <1>2, <2>1, <3>1, GoingGoto DEF Going, BeforeJob
  <2>3. CASE cred # None
    <3> DEFINE l == IF job # None THEN "poll" ELSE "over"
    <3>1. Goto(n, l) /\ watched' = [watched EXCEPT ![n] = job]
      BY <1>3, <2>3 DEF Saved
    <3>2. /\ \A m \in Clicks : phase'[m] = IF m = n THEN l ELSE phase[m]
          /\ \A m \in Clicks : watched'[m] = IF m = n THEN job ELSE watched[m]
      BY <3>1 DEF Goto, TypeOK, ChainsTyped
    <3> QED
      BY <1>1, <1>2, <2>1, <3>2 DEF Going, Rooted, BeforeJob, AfterJob
  <2> QED
    BY <2>2, <2>3
<1>4. CASE Started(n)
  <2>1. /\ phase[n] = "started" /\ Goto(n, "poll") /\ UNCHANGED <<watched, seen>>
        /\ job' = watched[n]
    BY <1>4 DEF Started
  <2> QED
    BY <1>1, <1>2, <2>1, GoingGoto DEF Going, Rooted, AfterJob, BeforeJob
<1>5. CASE Skip(n) \/ Succeed(n) \/ Ask(n) \/ GoOn(n) \/ PollAgain(n)
  <2>1. /\ \E l \in {"poll", "wait", "over"} : Goto(n, l)
        /\ phase[n] \in {"polled", "wait"} /\ UNCHANGED <<job, watched, seen>>
    BY <1>5 DEF Skip, Succeed, Ask, GoOn, PollAgain, Polled, pageVars, urlVars
  <2> QED
    BY <1>1, <1>2, <2>1, GoingGoto DEF Going, AfterJob, BeforeJob
<1>6. CASE GiveUp(n) \/ StartRefused(n) \/ SaveOrStartFails(n)
  <2>1. Goto(n, "over") /\ phase[n] # "none" /\ job' = None /\ UNCHANGED <<watched, seen>>
    BY <1>6 DEF GiveUp, StartRefused, SaveOrStartFails, Reset, Polled, Unanswered
  <2> QED
    BY <1>1, <1>2, <2>1, GoingGoto DEF Going, AfterJob, BeforeJob
<1>7. CASE PollFails(n)
  <2>1. /\ \E l \in {"wait", "over"} : Goto(n, l)
        /\ phase[n] \in {"poll", "polled"} /\ watched' = watched
        /\ \A m \in Clicks : m # n => seen'[m] = seen[m]
    BY <1>7 DEF PollFails, Unpolled, TypeOK, ChainsTyped
  <2>2. job' = job \/ job' = None
    BY <1>7 DEF PollFails, Reset, urlVars
  <2> QED
    BY <1>1, <1>2, <2>1, <2>2, GoingGoto DEF Going, AfterJob, BeforeJob
<1> QED
  BY <1>3, <1>4, <1>5, <1>6, <1>7 DEF Chain

LEMMA GoingServer ==
  ASSUME TypeOK, Grounded, Going, NEW n \in Clicks, Serve(n)
  PROVE  Going'
<1>1. \A m \in Clicks : Rooted(m)
  BY DEF Going
<1>2. clicks' = clicks /\ job' = job
  BY DEF Serve, ServerCreates, ServerUpdates, ServerStarts, ServerShows, userVars, pageVars, urlVars
<1>3. CASE ServerCreates(n) \/ ServerUpdates(n)
  <2>1. /\ \E l \in {"created", "updated"} : Goto(n, l)
        /\ phase[n] \in {"create", "update"} /\ UNCHANGED <<status, watched, seen>>
    BY <1>3 DEF ServerCreates, ServerUpdates, rowVars
  <2> QED
    BY <1>1, <1>2, <2>1, GoingGoto DEF Going, AfterJob, BeforeJob
<1>4. CASE ServerStarts(n)
  <2>1. /\ \A m \in Clicks : phase'[m] = IF m = n THEN "started" ELSE phase[m]
        /\ \A m \in Clicks : watched'[m] = IF m = n THEN n ELSE watched[m]
        /\ \A m \in Clicks : status'[m] = IF m = n THEN Pending ELSE status[m]
        /\ phase[n] = "start" /\ seen' = seen
    BY <1>4 DEF ServerStarts, Goto, Row!Post, Row!Pending, TypeOK, ChainsTyped, RowsTyped
  <2>2. ASSUME NEW m \in Clicks PROVE Rooted(m)'
    <3>1. phase[m] \in AfterJob => watched[m] \in Clicks
      BY DEF AfterJob, Grounded, TypeOK, ChainsTyped
    <3> QED
      BY <1>1, <1>2, <2>1, <3>1 DEF Rooted, BeforeJob, AfterJob
  <2>3. job # None => job \in Clicks
    BY DEF TypeOK, UrlsTyped
  <2> QED
    BY <1>2, <2>1, <2>2, <2>3 DEF Going
<1>5. CASE ServerShows(n)
  <2>1. /\ \A m \in Clicks : phase'[m] = IF m = n THEN "polled" ELSE phase[m]
        /\ \A m \in Clicks \ {n} : seen'[m] = seen[m]
        /\ seen'[n].status = status[watched[n]]
        /\ phase[n] = "poll" /\ UNCHANGED <<watched, status>>
    BY <1>5 DEF ServerShows, Goto, TypeOK, ChainsTyped, serverVars, rowVars
  <2> QED
    BY <1>1, <1>2, <2>1 DEF Going, Rooted, BeforeJob, AfterJob
<1> QED
  BY <1>3, <1>4, <1>5 DEF Serve

(* The worker's steps are those on a row that is there.                    *)
LEMMA RowMovesOnlyThere ==
  ASSUME TypeOK, NEW n \in Clicks, JobReports(n) \/ JobFails(n) \/ WorkerDies(n)
  PROVE  \A m \in Clicks : status[m] = 0 => status'[m] = 0
<1>1. CASE JobReports(n)
  <2>1. Row!Report(n)
    BY <1>1 DEF JobReports
  <2>2. status[n] # 0
    BY <2>1 DEF Row!Report, Row!Pending
  <2>3. PICK code \in {Success, Refused} \cup {Pending} : status' = [status EXCEPT ![n] = code]
    BY <2>1 DEF Row!Report, Row!Pending
  <2> QED
    BY <2>2, <2>3 DEF TypeOK, RowsTyped
<1>2. CASE JobFails(n)
  <2>1. status[n] # 0 /\ \E code : status' = [status EXCEPT ![n] = code]
    BY <1>2 DEF JobFails, Row!Fail
  <2> QED
    BY <2>1 DEF TypeOK, RowsTyped
<1>3. CASE WorkerDies(n)
  BY <1>3 DEF WorkerDies, Row!Close
<1> QED
  BY <1>1, <1>2, <1>3

LEMMA GoingNext == TypeOK /\ Grounded /\ Going /\ [Next]_vars => Going'
<1> SUFFICES ASSUME TypeOK, Grounded, Going, [Next]_vars PROVE Going'
  OBVIOUS
<1>1. CASE UNCHANGED vars
  BY <1>1 DEF Going, Rooted, vars, pageVars, urlVars, chainVars, serverVars, rowVars, userVars
<1>2. ASSUME NEW n \in Clicks, JobReports(n) \/ JobFails(n) \/ WorkerDies(n) PROVE Going'
  <2>1. UNCHANGED <<clicks, job, phase, watched, seen>>
    BY <1>2 DEF JobReports, JobFails, WorkerDies, pageVars, urlVars, chainVars, userVars
  <2>2. \A m \in Clicks : status[m] = 0 <=> status'[m] = 0
    BY <1>2, RowStays, RowMovesOnlyThere
  <2>3. job # None => job \in Clicks
    BY DEF TypeOK, UrlsTyped
  <2>4. ASSUME NEW m \in Clicks PROVE Rooted(m)'
    <3>1. phase[m] \in AfterJob => watched[m] \in Clicks
      BY DEF AfterJob, Grounded, TypeOK, ChainsTyped
    <3> QED
      BY <2>1, <2>2, <3>1 DEF Going, Rooted
  <2> QED
    BY <2>1, <2>2, <2>3, <2>4 DEF Going
<1>3. CASE Fill \/ Leave \/ \E n \in Clicks : Connect(n)
  BY <1>3, GoingUser
<1>4. ASSUME NEW n \in Clicks, Chain(n) \/ SaveOrStartFails(n) \/ PollFails(n) PROVE Going'
  BY <1>4, GoingChain
<1>5. ASSUME NEW n \in Clicks, Serve(n) PROVE Going'
  BY <1>5, GoingServer
<1> QED
  BY <1>1, <1>2, <1>3, <1>4, <1>5 DEF Next

(* For any number of clicks, hasty or not, and any failed requests: a      *)
(* chain always has a next step in the page or on the server, and a form   *)
(* that is disabled for a user who waits has such a chain.                 *)
THEOREM ChainsGoOn == Spec => []NeverStuck
<1> DEFINE Inv == TypeOK /\ Grounded /\ Lock /\ Going
<1>1. Init => Inv
  <2>1. Init => Going
    BY DEF Init, Row!Init, Going, Rooted, AfterJob
  <2> QED
    BY <2>1, InitTyped DEF Init, Lock, Sole, Locked, Urls, Matches, Live
<1>2. Inv /\ [Next]_vars => Inv'
  BY NextTyped, GroundedNext, LockNext, GoingNext
<1>3. Inv => NeverStuck
  BY GoingIsEnough
<1> QED
  BY <1>1, <1>2, <1>3, PTL DEF Spec
=============================================================================
