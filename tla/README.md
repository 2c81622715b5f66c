# Verification of PFC

TLA+ models of the parts of PFC (Wesabe's Rails application and the JavaScript
of its pages) whose correctness depends on the order in which things happen: web
requests, Resque workers, external daemons, the answers, timers and clicks of one
page. TLC checks the models on small instances; TLAPS proves the most important
properties for every value of the constants. Paths are relative to `src/`;
`wesabe/` stands for `public/javascripts/wesabe/`.

## Running

    tlc -workers 2 -config MCSsuSync_one.cfg MCSsuSync.tla
    tlapm SsuSyncInvariant_proofs.tla

Each configuration belongs to the module before its underscore. The longest
runs (`one`, `imports`, `transfers_race`, `accounts`) take one to three minutes with two
workers, the proofs some minutes each.

## The system and its components

PFC is a Rails 3 application over MySQL and memcached. Three kinds of process
share the database: web workers answer requests; Resque workers take jobs from
the queues `low` (syncs with banks) and `normal` (imports, snapshots, deferred
deletes); each sync starts an external daemon (SSU, a headless browser that logs
into a bank). The JavaScript of the pages polls the web workers. Nothing in the
application takes a lock; `transaction` is rare. What keeps the data consistent
is the order of writes, unique indexes, and rescues. In the browser there is one
thread, but answers, timers and clicks come in any order, and a handler may
trigger others inside itself.

### Modelled

**SSU sync pipeline** — `app/models/ssu/sync_job.rb`, `ssu/daemon.rb`,
`account_cred.rb`, `ssu_job.rb`, `user/account_update_manager.rb`,
`app/controllers/{account_creds,ssu_jobs}_controller.rb`.
*State:* the tables `account_creds` and `ssu_jobs`, the queue `low`, the instance
variables of `SyncJob` (`@status`, `@creds`, `@last_resumed_version`, `@ssu_job`,
`@statements`), the daemon process and its job.
*Operations:* create, change and destroy credentials; request a job, or start one
at login when the last is three hours old; `enqueue_sync`; `perform` with its loop
and its three kinds of end; the daemon's progress, questions, failures.
*Interactions:* the browser answers a bank's security question by a `PUT` of the
credentials, which the worker notices by reloading them; it reads the row the
worker mirrors the daemon's status into; each downloaded statement is pushed to
the queue `normal`.
*Hard:* the job is queued before its row exists; everything is polled; a timeout
may strike between any two steps; the daemon can die or hang; the credentials can
disappear; an update of the row can fail silently (validation).
*Correct when:* no statement is imported twice, a job that reports success has
handed over all it downloaded, a finished job does not look pending, a question
is answered exactly once, no daemon is left behind, every sync ends.

**Transfers** — `app/models/txaction/transfers_concern.rb`, `txaction/form.rb`,
`app/controllers/txactions_controller.rb`, the deletion of uploads and accounts.
*State:* `transfer_txaction_id`: the two sides of a transfer name each other, a
transfer without a known other side names itself.
*Operations:* pair, mark as unpaired, clear; attach the other side when a
transaction is created or imported; clear before a row is destroyed.
*Interactions:* any request may relink rows that another one has already loaded.
*Hard:* relinking touches up to five rows through different instances of them; the
rows of an upload are loaded at once and destroyed one by one; nothing locks.
*Correct when:* links are mutual as long as requests do not overlap; when they do,
what a later request does repairs the rows it writes and spreads no damage.

**Statement import and accounts** — `app/models/{statement_import,upload,account,txaction}.rb`,
`lib/ofx2importer.rb`, the deletion of uploads, accounts and credentials.
*State:* uploads, accounts with their bank account's number, status and
credentials, transactions with a `wesabe_txid` and a status (active, deleted,
disabled), the unique index on both.
*Operations:* an import finds or creates the account, links its upload, loads the
transactions, creates or updates those of the statement one by one, and associates
account and credentials; a removal marks the account, then its rows, then
destroys uploads and account in a job, and the credentials with the last account.
*Interactions:* the pipeline above queues the imports; the removal counts the
accounts of the credentials; deleting a transaction twice meets the index and
purges the older copy.
*Hard:* everything is find-then-create; what an import loaded is stale when it
saves; a removal and an import can cross between any two of their steps.
*Correct when:* nothing of a statement is lost, nothing disabled comes back, a bank
account exists once, a removal leaves nothing behind and takes nobody else's
credentials; where two imports or an import and a removal overlap these fail, and
the properties say that nothing *else* makes them fail.

**Browser data sources** — `wesabe/data/BaseDataSource.js`. One value, one request in
flight, a cache by request, one-shot callbacks, pollers. *Hard:* a second request
while one is in flight is not sent; the first one's answer serves both.

**Targets on the dashboard** — `wesabe/views/widgets/targets/`, `wesabe/data/TargetDataSource.js`,
`targets_controller.rb`. Months, a list of widgets, a dialog, requests that write, a cache.
*Correct when:* the cache never mixes up months, a removed widget does not come back,
the page at rest shows the chosen month and what the server has.

**Polling for updates** — `wesabe/data/credentials/`, the pollers of `BaseDataSource`.
*Correct when:* there is one poller at most, and the page sees the end of every sync.

**Connecting a bank** — `wesabe/views/pages/credentials/new.js` with the three
controllers it talks to. A chain of requests for each click: store, start, poll.
*Correct when:* a user who waits for the form has one chain, about the right job; no
question is put twice; the page comes to an end.

**Accounts page** — `wesabe/views/pages/accounts.js`, the lists it restores and the list of
transactions. Selection, search and paging are kept in the page, the address and
the request for the list. *Hard:* storing changes the address, whose change is read
back, which changes the selection, which stores. *Correct when:* this ends, the list
is never hidden for good, page and address agree, and the list is that of the page.

### Not modelled

* *Snapshots, tag statistics, the login throttle, service calls.* One row and one job
  per user; counters with one increment per callback; two keys of a cache; a retry
  loop. Their hazards are one missing lock or one line of arithmetic, which a
  model would repeat without finding more than the line says.
* *Sessions, balances and currencies, parsers, normalizers, exporters, attachments,
  views, charts, preferences.* Work within one request, on text or numbers.
* *The other pages of the browser code* (edit form of a transaction, editing accounts
  and tags, spending summary, trends): a request per confirmation, redrawing, no
  state that outlives them. Their saves are actions of `AccountsPage`.
* *Third-party code.* Of the 45,741 lines of JavaScript under `public/javascripts` about
  13,000 are the application's own (`wesabe/`); the others are jQuery and its
  plugins, ie7, processing.js and flot. Even a model of all that is the application's own
  would cover less than three tenths of the directory. What is modelled of it is the logic of
  four pages and their data sources, about 1,500 lines; another 850 lines of Ruby
  are not part of that count.

Inside modelled components: the profile directories of the SSU daemon;
`SsuJob#update_status`; the choice among candidates in `find_matching_transfer`; of the
import, the reading of files, balances, merchants and tags, investments, statements of
several accounts, several financial institutions, the match of a transaction by the
old txid, archived accounts, the API's uploads by job guid, `merge_onto!` (which
nothing calls), and the form that enables disabled accounts again.

## Modules

| module | what it is |
|---|---|
| `SyncJobLifecycle` | abstract: what a reader of an `ssu_jobs` row may rely on |
| `SsuSync` | the pipeline in detail, its properties; it implements `SyncJobLifecycle` |
| `SsuSyncInvariant` | its inductive invariant `IInv`, part by part |
| `Transfers` | the transfers concern as operators on a transaction, the requests that use it |
| `StatementImport` | imports and removals, their properties and inductive invariant |
| `DataSource` | the halves of `BaseDataSource`'s handlers, extended by the next two |
| `TargetsPage` | the dashboard's targets over a cached source |
| `CredentialPolling` | the accounts page's polling over an uncached source |
| `ConnectPage` | the page for connecting a bank; its server is an instance of `SyncJobLifecycle` |
| `AccountsPage` | page, address and list of the accounts page |
| `MC…` | instances for TLC; three add history variables that properties need |
| `…_proofs` | theorems of the module they are named after |

`SyncJobLifecycle` is the joint between server and browser: `SsuSync` implements it
(`RowKeepsLifecycle`, checked and proved), and `ConnectPage` polls rows that take no
step but its own.

### SsuSync and the code

A guid in `Jobs` stands for one call of `AccountCred#enqueue_sync`, with everything
that belongs to it: the web request that makes the call (`reqState`, `reqCred`,
`reqAnswers`), the row (`rowStatus`, `rowVersion`, `rowFresh`, `rowSeq`), the worker
(`pc`, `knownVersion` … `todo`) and the daemon (`daemon`, `dVersion` …).

| actions | code |
|---|---|
| `CreateCred`, `UpdateCred`, `DestroyCred` | `AccountCredsController` |
| `RequestJob`, `Login`, then `PushJob`, `CreateRow` | `SsuJobsController#create`, `AccountUpdateManager#login!`; the two halves of `enqueue_sync` |
| `TakeJob`, `StartDaemon`, `StartSync` | Resque, `SyncJob.perform`, `perform` up to the loop |
| `PollRunning`/`PollQuit` → `SameStatus`/`NewStatus`/`StatusWithoutCred` → `GetStatements` → `EnqueueStatement`* → `EnqueuedAll` → `KeepWaiting`/`Resume`/`ReloadMissing` | one turn of `wait_for_sync_to_finish`, one action between each two calls that leave the process |
| `RequestFails`, `Timeout`, `Stop`, `RescueTimeout`, `RescueObject` | the exceptions and the rescues of `perform` |
| `Kill`, `RequestDies`, `DaemonDies`, `DaemonHangs` | crashes |
| `DaemonAdvance`, `DaemonDownload`, `DaemonFinish` | the daemon (external): only what `SyncJob` sees of it |

What is abstracted:

* *Status codes.* `complete?` is "the code is not 202"; `Outcomes` holds the codes
  with which a daemon completes. Codes of progress other than 202 do not occur.
* *Result strings* are reduced to whether one begins with `suspended.` (the daemon
  asks). Cookies, the data column and the text of answers are left out; the value of
  `account_creds.creds` is a member of `Answers`, and a `PUT` may store any of them,
  which covers the merge the controller does.
* *Atomicity.* An action ends where the code talks to another process: the database,
  Resque, the daemon. One `update_attributes` is one step. `Login` reads the last
  job and the credentials in one step; `RequestJob` starts a job at any time, so no
  interleaving of requests is lost.
* *The daemon* is not part of the repository. A question it asks stays open until
  `job.resume`, or until it gives up (`DaemonFinish`); it may die or hang at any time.
* *Profile directories* of the daemon are left out.
* `memo` is what `@ssu_job` has memoised, and whether *its* memoised `account_cred`
  has been loaded or found missing: `SsuJob` validates the presence of its
  credentials, so this decides whether the row can still be written.

Bounds: `MaxVersion` bounds how often a daemon changes its status; every other
counter is bounded by it, by `Cardinality(Jobs)` or by `Statements`.

### Transfers and the code

The branches of `set_transfer_buddy!` are operators on a record `[links, written]`: the
table as a database transaction sees it and the rows it wrote. Each takes the key
that the instance holds in memory, which may differ from the row: `MarkUnpaired` is
`set_transfer_buddy!(self)`, `ClearBuddy` is `(nil)`, `Pair` is `(other)`, with
`LeaveBuddy` the unlinking of lines 95-100 and `FreeBuddy` line 110. `DestroyRow` is
`destroy` with its `before_destroy`.

| actions | code |
|---|---|
| `LoadTxaction`, then `UpdatePaired`, `UpdateUnpaired` or `UpdateNoTransfer` | `TxactionsController#update`, `Txaction::Form#update_transfer_status` |
| `CreateTxaction`, then `NoMatch` or `FindMatch`, then `AttachMatch`, `ClearAmbiguous` or `NoMatch` | `TxactionsController#create` and `Ofx2Importer`, lines 390-391: save, then `attach_matching_transfer` |
| `LoadUpload`, then `DestroyTxaction` for each row | `has_many :all_txactions, :dependent => :destroy` of `Upload` and `Account`, `destroy_for_account` |
| `PurgeCopy` | the `delete_all` of `Txaction.change_status` |
| `Commit`, `Rollback` | the end of `Txaction.transaction` |

* *Concurrency.* A request reads rows into instances in one step (`memory`), in a
  later one works on the snapshot of its database transaction (`base`, REPEATABLE
  READ), and commits in a third. Writing at the commit is what InnoDB's row locks allow:
  a row a transaction has written cannot be written by another before the commit,
  and an `UPDATE` of a row that was deleted meanwhile does nothing.
* *Partial updates.* `update_attribute` writes a column only if it differs from what
  the instance holds: `Pair` leaves a side out when its instance already names the other.
* *The search.* `find_matching_transfer` may find any other row, or none; that the row
  found "finds this one in turn" is a free choice. A transaction created with the
  transfer parameters of the form is a creation followed by an update.
* *Deletion.* Each row of an upload or account goes in a database transaction of its
  own. `destroy_for_account` of an upload with several accounts wraps them in one;
  its end states are among those modelled.
* *Status.* Which rows are deleted copies is not modelled, any row can be purged, one
  at a time.

### StatementImport and the code

An element of `Imports` is a statement with its upload, and also names the account the
import creates, if it does. A row is a record of account, upload, txid and status.

| actions | code |
|---|---|
| `StartImport`, `FindAccount`, `CreateAccount`, `LinkUpload`, `LoadTxactions`, `SaveTxaction` for each one, `ReadCred`, `Associate` | `StatementImport#import` and `OFX2Importer#import`, an action between each two calls to the database |
| `Die` | an exception or a killed worker, at any step |
| `DeleteTxaction`, `Undelete` | `TxactionsController#destroy`, `#undelete` |
| `DisableTxactions`, `EnableTxactions` | `Account#disable_txactions_before_date` and back |
| `DeleteUpload`, `DestroyCred` | `Upload#destroy`, `AccountCredsController#destroy` |
| `MarkDeleted`, `DeleteRows`, `Empty`, `Decide`, `DeleteAccount`, `DropCred` | `Account#destroy_deferred`, then `Account::DestroyAccount.perform` |
| `Kill` | the end of a removal at any step |

`New` says which rows an import creates (`Taken` is the index in its way). Four history variables
remember what the properties except: `raced` (bank accounts that two imports were about
at once), `revived` (those with a transaction undeleted beside a copy of it or during an
import), `revoked` (credentials the user destroyed himself), `crossed` (an import was under
way while an account was removed). Abstracted: amounts are zero or not (`Zero`: a transaction of
amount zero is created as a deleted one), a `wesabe_txid` is an account and a txid, a statement is of one
account, and credentials that exist have a last job.

### DataSource, TargetsPage, CredentialPolling and the code

`DataSource` has operators and no `Next`: `RequestData` is `requestData` with its three
cases (nothing while one is in flight, `UseCached`, `BeginLoading`); `Loaded`, `LoadedBadly` and `LoadFailed` are what
the ajax callbacks do to the source. A page conjoins what its subscribers do, since they run inside the same handler.
jQuery's order (error or success, then complete) is part of these operators, and so is
a subscriber that throws (`LoadedBadly`): what follows in the same callback does not happen.

`TargetsPage` has an action for each click (`SelectMonth`, `OpenDialog`, `Edit`, `Add`, `Remove`,
`CancelDialog`), the end of an animation (`FadedOut`), the two halves of each request
(`Server…`, `Read`; `WriteAnswered`, `Load`, `Fail`). Bounds: two months, two tags, two amounts,
two writes, one failure: two months are "this one and another", two writes can overlap.

`CredentialPolling` has the clicks (`StartUpdate`, `Refresh`), the interval (`Tick`), the halves of the
`POST` and of the `GET`, and the jobs' ends. The pollers' numbers are the order in which they
were started. Two credentials, three clicks, one failure.

### ConnectPage and the code

Each click on Connect is a chain with its own `phase`, from `create` or `update` through
`start` to `poll`, `polled`, `wait` or `over`; an action is one callback or one request's effect on the server
(`Serve`). All chains share the page's variables `_credentialURL`, `_jobURL`, `_lastVersion`.
`JobReports`, `JobFails`, `WorkerDies` are the worker; each is a step of `SyncJobLifecycle`.
`hasty` remembers that Connect was clicked although the form was disabled (only its fields are,
the button is not among them and goes on working). `MaxClicks = 3` allows
login, answers, second answers; `HastyClicks = 2` two chains at once;
`Retries = 1` stands for the five errors a chain puts up with.

### AccountsPage and the code

`calls` is the stack of `reloadState`s that have not returned, `todo` what a handler still has
to do after them; every other action waits until both are empty, which is what a single
thread means. `Visit` is `pushState` with the event it causes at once.

| actions | code |
|---|---|
| `EnterReloadState`, `FinishReloadState`, `ReloadLast`, `PushAllLast` | `reloadState` up to and after the selection's change; what waits behind it |
| `RepaintThrows` | instead of `FinishReloadState`: `repaint` throws, and the list is not reloaded |
| `Click`, `CtrlClick`, `ClickAll`, `Follow`, `OnSearch`, `Turn`, `ToggleUnedited`, `Back`, `Forward` | the user |
| `Load(w)` | the three widgets become ready; `reloadState` waits for all |
| `Save`, `SaveAnswered`, `ServerReads`, `Answer`, `Fail` | requests |

`Accounts` holds the accounts of the sidebar and its `Groups`, which are selected like accounts. When a
group is selected beside another account or group, and nothing is searched for (`Untitled`), `setTitleForState` asks the
group for items it does not have (`$(group).fn('items')`, `accounts.js:419`, answered with a throw by
`jquery/effen.js:24`). `repaint` comes between restoring the page and reloading the list, so
`RepaintThrows` restores offset, dates and search like `FinishReloadState` (both by `Restore`), but neither sets the title nor asks for
the list; and it empties `calls` and `todo`, since the throw leaves every `reloadState` under way and
the handler that stored the page. The widgets load in any order, except that the list of transactions comes before the tags:
it is set up while the document becomes ready, and tags are answered after that. (Otherwise a throw could leave the list
without its handlers.)

The selection is a set, an empty search is none, `limit` is a constant, unknown addresses
and the hash fallback for old browsers are left out; so are the refresh after `account-updated`, an error in the chart, and
a `change` subscriber of the list that throws (which `DataSource` has, for its own pages). `plain` remembers that the user has only done what
keeps his history plain (`Plain`): he waited for the sidebars to load, did not search, and followed links
and All Accounts from the first page of the list only.
Bounds: an account, a group, a merchant, a query, a range (in `accounts_address` a tag in place of the group: a tag is
selected like an account, and only its loading and its part in titles differ); pages 0 and 1; three acts from three first
addresses, a save and a lost request counted among them. Three acts are a click, another, and a step back;
or a click on the account, one on the group with ctrl, where `repaint` throws, and a click that brings the list back.

## What TLC checks

| run | instance | shows |
|---|---|---|
| `one` | one job, two answers, a statement, two outcomes, versions to 4; fair workers | all safety properties of `SsuSync`, `IInv`, the refinement, `WorkersEnd`, `AnswersRelayed` |
| `pool` | two jobs of the same credentials, one worker; fair | `QueueDrains` |
| `second` | two jobs | violation: a statement of the tests that the code does not keep |
| `transfers_race` | three transactions, two overlapping requests, uploads of one row | `CurrentCommitsHeal` |
| `transfers_serial` | four transactions, one request after another, uploads of up to three rows | `LinksAreMutual` |
| `imports` | two statements, two bank accounts, one txid, one set of credentials, one mishap | the six properties of `StatementImport`, and `Support`, what they rest on |
| `targets_race` | two months, two tags, two writes, one failure | `CacheKeyed`, `RemovedStaysRemoved`; to a user who waits, `MonthShownIfWaited`, `CacheHonestIfWaited` |
| `polling` | two credentials, three clicks, one failure; fair | `OnePoller`, `ShownEnds`, `PollingEnds` |
| `connect` | three clicks, versions to 2, one failure; fair | `OneChain`, `CredentialsTried`, `NoQuestionTwice`, `FormComesBack` |
| `connect_skipped` | the same | violation: a failure the page skips |
| `accounts` | an account and a group; three acts, among them at most one save and one lost request; two pages | `NestingBounded`, `SpinnerEnds`, `PlainFollows`, `ReadingKeepsHistory`; to a user who waits, `ListFollowsIfWaited` |
| `accounts_address` | the same with a tag for the group, without saves and losses | violation: an address that is not the one opened |

Jobs of `SsuSync` interact only through the queue, the pool of workers, the creation
order of rows and the credentials, so one job shows every path of `perform` and two show the
queue. With versions up to 4 a daemon can ask, be answered, ask again, be answered and
finish, the shortest run in which an old `@last_resumed_version` could do harm. Two
answers distinguish "changed" from "changed back".

Two statements suffice for every overlap `StatementImport` has: of two imports, of an import and
the removal of the account the other made, of two removals under one set of credentials. A
statement may be of the same bank account or of another. With two txids, one of them of amount zero,
and one bank account the properties hold as well (that instance is not among the runs
since it asks nothing new: transactions meet only under one txid). `MaxMishaps` bounds what goes wrong besides
overlaps: processes that die, credentials the user destroys, undone deletions beside a copy. One at a time keeps the run
short (without the bound it has three times the states and holds as well; the proofs have none). The run uses
symmetry of imports and numbers, and checks invariants only.

Runs set `CHECK_DEADLOCK FALSE` where the system really stops: all jobs done and the
credentials destroyed, all statements imported, the page left, the acts used up.

Safety properties (`SsuSync`, at the end): `StatementsOnce`, `SuccessMeansDelivered`,
`PendingExplained`, `QuestionsAnsweredOnce`, `ResumeBringsNews`, `DaemonReaped`, and
`RowKeepsLifecycle`, the refinement of `SyncJobLifecycle`: the version of a row only
grows, a complete row never goes back to pending, it may at most turn to 500, and after the
worker has ended it never changes.

`PendingExplained` is worded around what the code really does. A row stays pending
for ever when the worker died, when `daemon.start` or the `daemon.stop` inside the
rescue raised (both outside of any rescue: label `escaped`), when the worker never
found the row, or when the credentials were destroyed under it. For these last two
the property says that there is no third reason.

One-sided links do arise when requests overlap: two requests that pair one
transaction with different others, each from its own snapshot, leave one of the others
naming it for nothing. The code knows (the comment at line 99 of the concern, `spec/models/txaction_spec.rb:387`)
and never relies on mutuality. What it must not do is make it worse, and that is
`CurrentCommitsHeal`: from *any* table, a commit whose reads are still true
leaves only mutual links in the rows it wrote, and turns no other row one-sided.
`LinksAreMutual` says that overlap is the only cause, and it holds although the
instances of an upload's later rows are stale when they are destroyed (`Orphaned`).
A row may name one that `PurgeCopy` removed, since that deletes without
callbacks: such rows carry the mark `Purged` and are the one exception in `OneSided`.
Three transactions and two requests let one relink what the other holds; four
transactions are two transfers, the most one relinking takes apart, and three rows of
an upload are a transfer and one more. `MaxUpload` bounds the rows of an upload.

`StatementImport`'s properties except named overlaps and nothing else. `ImportedKept` excepts none: even
when two imports race for the index and the loser's error is swallowed, the winner's row
is there. `DisabledStay` and `OneAccountPerNumber` say that duplicates come only from `raced` and
`revived`. `StuckOnlyByCopies`: an error of `DeleteRows` leaves an account marked as deleted that no job will
destroy; two live copies of one transaction are the only reason. `NoneLeftBehind` and
`CredsServe` hold for every removal that no import crosses, also for two removals at once,
whose counts may both see the other's account.

The pages are checked twice: what holds for any user, and what holds for one who waits for
answers. The difference is real, and the modules keep the stronger statements, which
fail, beside those that hold (see the last section).

### Fairness

`WorkersRun` (weak fairness of `Perform`): a Resque worker that is running takes the
next step, and a free worker takes the head of the queue. `ClockRuns` (weak fairness
of `Timeout`): `Timeout.timeout(10*60)` fires if the loop goes on. Nothing is assumed
of users, daemons, crashes or failures. `WorkersEnd` needs the clock, which is its hypothesis
because run `one` has none: `AnswersRelayed` is checked there, so that a timeout cannot be what
makes it true. `WorkersEnd` has one honest exception that the code does not prevent:
`start_sync` is sent before the timeout is armed and reads a socket without one, so a
daemon that hangs there keeps its worker (`StuckStarting`), and with it, possibly, the queue
(`QueueDrains`).

`CredentialPolling`: the interval ticks, the server answers, a job comes to its end (the timeout
of `SyncJob` sees to that). The user need not do anything, and one failed request may stop it all
(`failures > 0` is excepted; see the last section). `ConnectPage`: chains and the server go on,
and a job ends. `FormComesBack` excepts rows that end without a new version (`Unheard`); that
they do is finding `connect_skipped`.

## What is proved

`SsuSync_proofs` and `SsuSyncInvariant_proofs`, for any sets of credentials, answers and
statements, any finite set of jobs, any number of workers, versions without limit other than `MaxVersion`, under the three
assumptions in `SsuSync`: completing codes are positive numbers other than 202
(`OutcomesAssumption`), there are credentials and answers and jobs are finitely
many (`SetsAssumption`, used for the order of rows), the bounds are numbers
(`BoundsAssumption`).

* `InvariantHolds`: `Spec => []IInv`. None of the properties is inductive alone. That
  no statement is pushed twice needs `LedgerInv` (`imports` counts exactly
  `seen \ todo`, and the list of the daemon only grows); that success means
  delivery needs to know where the 200 of a row came from, that is `SuccessInv`
  over `VersionInv` and `RowInv` (the daemon had finished when the status was
  read, so the list read after it is complete); that a question is answered once
  needs `AnswerInv`, which relates what the worker believes of the daemon to what
  the daemon does, across the versions the polling skipped; `ResumeBringsNews` needs
  `HeldInv`. `RequestInv` and `QueueInv` say that a guid is pushed once, which keeps
  one worker per job. Each part is one lemma with one step per action.
* `TypeCorrect`, `NoStatementTwice`, `SuccessIsComplete`, `PendingIsExplained`,
  `NoAnswerTwice`, `NoDaemonLeft`: the properties, from `IInv`.
* `ResumesBringNews`: an action property, from `IInv`.
* `RowsFollowLifecycle`: `SsuSync` implements `SyncJobLifecycle`; a lemma maps each
  action to a step of it or a stutter, with `IInv` as hypothesis.
* `RowsAdvance`: what that means for a reader of `ssu_jobs`, derived from the lifecycle alone
  (`LifecycleAdvances`): versions never go back and grow only while the row is pending, a complete row stays or turns
  to 500, and nothing changes a row after its worker.

`Transfers_proofs`, for any set of transactions and requests, assuming only that the
marks of the model differ from ids (`ValuesAssumption`):

* `TransfersInvariant`: `IInv`, that a commit is one of the five operations, done from
  what the request read. It is what makes a commit's `view` known.
* `CommitsHeal`: `CurrentCommitsHeal`, from lemmas about the operators alone. A row is
  `Free` when no other row is mutual with it; `LeaveBuddy` frees the row it is called
  for at the price of a link to nowhere, a free row can be rewritten without harm
  (`PutOnFreeRow`), and `Pair` frees both its rows before it links them.
* `SerialInvariant` and `LinksStayMutual`: a request that runs alone holds current
  instances, except that an instance of an upload may remember the buddy that was
  destroyed before it, in which case its row no longer names anything.

`StatementImport_proofs`, for any sets of imports, bank accounts, transactions and credentials,
and any mishaps, assuming finitely many imports (for the count), that `Zero` are transactions, and that `None` is
none of the ids. `ImportsInvariant` proves `IInv`, that is the six properties and `Support`, without
which none of them is inductive:

* `UniqueInv` is the index; `PlaceInv` says who has an account, a target and an upload in
  each phase, `RacedInv` that overlaps are remembered.
* `KnownInv`: alone with its bank account, an import still knows every live transaction it has
  to save, whatever the user deletes or disables in between. It gives `DisabledStay`. `CreateInv` is its
  counterpart for accounts, between the find and the create.
* `SavedInv`: whatever is known or saved has a row, also when it was the loser. It gives
  `ImportedKept`, together with the fact that the purge of `change_status` takes only older copies.
* `RemovalInv`: in a history without crossings, a removal past `Empty` has no rows, holds the
  credentials the account names, and its count is still true when it acts.

`TargetsPage_proofs` (assuming that `null` is neither a list of targets nor a request: `NullAssumption`): types;
`CacheStaysKeyed` (with `AnswerKeyed`: the answer in flight is of the
month it was asked for); `RemovedNeverRevives`. `ChosenMonthIsShown` and `CacheStaysHonest` are about
the user who waits and removes nothing, by `WaitedInv`: `Calm` (a request or a write, never both, and the request
is for the month on the label), `ShowsData` (with no request under way the widgets are those of the data), and
`HonestSource` (cache and answer agree with the server, unless a write is done whose answer will clear the cache).

`CredentialPolling_proofs`: types and
`OnlyOnePoller`, for any number of credentials, clicks and failures; its invariant `OneCallback`
ties interval, `xhr`, callback and request together.

`ConnectPage_proofs`: types, and four results for any number of clicks, versions and failures:

* `OneChainAtATime`, by a lemma for each kind of step over `Matches` (what a phase
  implies about the two URLs).
* `StoredCredentialsAreTried`. `CredentialsTried` speaks of chains that have gone on; `Tried` adds what makes them go
  on with their own credentials: a chain that creates targets itself until its job is there, one that
  updates targets credentials that were stored before.
* `QuestionsAreNew`, that no question is put twice. `AskedOnce` bounds the versions asked about for
  the page's job by `_lastVersion`, and says that a job being started has asked nothing.
* `ChainsGoOn`, the part of `FormComesBack` that needs no fairness, and also true of a hasty user: a running chain
  always has a step to take. The phases that could get stuck are the start of a job (once per chain)
  and an answer without a status, for which `pollStatus` has no branch; `Rooted` says that the job a chain asks for
  is there. That `HasStep` lists the guards of `Chain` and `Serve` was compared with `ENABLED` by TLC, for three
  clicks, two of them possibly hasty.

`AccountsPage_proofs`: types; `SpinnersEnd` and `NestingEnds`, by the
shape of the stack (`Nested`: the inner call runs with the selection its address asks for, so
it changes nothing and stores nothing); `PlainPagesFollow` and `ReadingKeepsEntries`, by `PlainInv`:
while an address is being read, restoring its selection changes nothing or stores that very
address (`Settles`). `ListsFollow` is about the user who waits, by `ListCurrent`: the request in flight is the one the page would
make now, and no call of `reloadState` is under way beside it, for it would change the page and then ask for
nothing. Its statement excepts the pages that are `Untitled`: there the old list stays, and only the saves in it are
promised. The proof shows that such a page is left only by way of a `reloadState` that asks again.

The theorems on users who wait, and on questions asked, are about the `MCSpec` of the MC modules, whose history variables say
who waited; so `TargetsPage_proofs`, `ConnectPage_proofs` and `AccountsPage_proofs` extend those modules. A history
variable constrains no step, except `acts` in `MCAccountsPage`, whose bound `MaxActs` is arbitrary.

Every invariant and every safety action property of the passing runs is stated by a theorem. Only
model-checked: liveness (`WorkersEnd`, `AnswersRelayed`, `QueueDrains`, `ShownEnds`, `PollingEnds`, `FormComesBack`),
since fairness and ENABLED are outside the prover. The invariants proved were checked by TLC first, on the
instances of the runs or smaller ones.

## Where the code disagrees with its docs and tests

Runs that TLC must find violated:

* `second`: `spec/models/ssu_job_spec.rb:239` expects that a job is not created while the
  last one is pending. `AccountCred#enqueue_sync` does not look.
* `connect_skipped`: `new.js:186` ignores rows "we've already seen". `SyncJob` fails a row
  by its status alone, without a new version, so the page ignores the failure
  and polls for ever with its form disabled.
* `accounts_address`: `reloadState` (`accounts.js:286`) restores the selection first, whose
  change stores the page with the offset, search and dates of *before*. An address with a
  selection and any of these is replaced by another.

Observed while modelling, without a run of their own. Where a definition is named, naming it
in the `.cfg` reproduces the behaviour:

* Sync: `spec/models/account_cred_spec.rb:176` expects the jobs of credentials to be deleted
  with them; nothing deletes them (`NoOrphanedJobs`).
* Targets: a month chosen while a request is in flight sends none, and the page stays with the
  other month's data (`MonthShown`; `BaseDataSource.js:102`). A target that was removed while a refresh
  was under way is listed again and cannot be removed (`NoGhosts`; `TargetList.js:113`).
* Polling: after a failed request the poller's `xhr` stays set and it never polls again
  (`XhrIsRunning`; `BaseDataSource.js:271`). A click whose jobs start after the last poll was read is not watched
  (`UpdatesWatched`; `CredentialDataSource.js:125`). Stopping the last poller of the list puts it back
  (`StoppedAreRemoved`; `BaseDataSource.js:293`).
* Connecting: answers to questions typed after the credentials were lost are stored as new
  credentials (`CreatedWithLogin`; `new.js:236`).
* Accounts page: with a group selected beside another account, `repaint` throws and the page keeps the list and
  the title of before (`ListFollowsAnySelection`; `accounts.js:419`); Back out of a search returns to the search at once; the link "All Accounts"
  passes a path where an object is expected (`accounts.js:68`); selecting another account keeps the offset.
* Imports: `find_account` looks at visible accounts only, so an account the user removed under
  shared credentials (it is `DISABLED`, "uncheck it if you don't want to add it",
  `uploads/select.html.erb`) comes back as a new one at the next sync, and the branches for
  `account.disabled?` in `ofx2importer.rb` are dead. The count at `account.rb:185` includes disabled accounts, so
  credentials whose accounts are all disabled are never destroyed, against the comment
  at line 186. Enabling and disabling transactions does nothing, silently, when a copy with the new status exists. Undoing a
  deletion beside a disabled copy gives the user the transaction twice. Destroying
  credentials leaves accounts that name them.

## What could follow

The composition of
`CredentialPolling` with `SyncJobLifecycle`, whose rows it now has as a set; statements of several accounts
in `StatementImport`.
