--------------------------- MODULE StatementImport ---------------------------
(***************************************************************************)
(* Statements, accounts and the transactions in them.  Jobs of the queue   *)
(* "normal" (StatementImport) and uploads by hand import statements: they  *)
(* find or create the account a statement is of, load the transactions it  *)
(* has, and create those they did not load.  Meanwhile the user deletes    *)
(* transactions, uploads and accounts; the account itself is destroyed by  *)
(* a job (Account::DestroyAccount), and with the last account of           *)
(* credentials the credentials.  There is no lock and no database          *)
(* transaction around any of this, only the unique index of txactions on   *)
(* wesabe_txid and status.                                                 *)
(***************************************************************************)
EXTENDS FiniteSets

CONSTANTS
  Imports,   \* statements that are imported, each once
  Numbers,   \* bank accounts: what Account.find_account goes by
  Txids,     \* transactions of a bank account (wesabe_txid without account id)
  Zero,      \* those whose amount is zero
  Creds,     \* the user's account_creds
  None       \* nil

ASSUME SetsAssumption == Zero \subseteq Txids /\ IsFiniteSet(Imports)

VARIABLES
  accounts,  \* the accounts row an import created, None when there is none
  rows,      \* txactions
  uploads,   \* the upload of each import
  creds,     \* account_creds
  pc, number, statement, job,
             \* an import: its next step, the bank account and the txids of
             \* its statement, the credentials of its sync job
  target, known, todo,
             \* the account it works on (named by the import that created it),
             \* the transactions it loaded, those it has still to save
  removal,   \* how far the removal of each account is
  held, doomed,
             \* what the removal has loaded: account_cred_id and the uploads
  raced,     \* history: numbers that two imports were about at once
  revived,   \* history: numbers of which a deleted transaction was brought back
             \* beside a copy of it, or during an import
  revoked,   \* history: credentials the user destroyed
  crossed    \* history: an import was under way while an account was destroyed

importVars  == <<pc, number, statement, job, target, known, todo>>
removalVars == <<removal, held, doomed>>
historyVars == <<raced, revived, revoked, crossed>>
vars == <<accounts, rows, uploads, creds, importVars, removalVars, historyVars>>

Statuses == {"active", "deleted", "disabled"}
Account  == [number : Numbers, status : Statuses, cred : Creds \cup {None}]
ASSUME NoneAssumption == None \notin Imports \cup Numbers \cup Creds \cup Account

Row      == [account : Imports, txid : Txids, status : Statuses, upload : Imports]

TypeOK ==
  /\ accounts \in [Imports -> Account \cup {None}]
  /\ rows \subseteq Row
  /\ uploads \in [Imports -> {"none", "linked", "kept", "gone"}]
  /\ creds \subseteq Creds
  /\ pc \in [Imports -> {"none", "find", "create", "link", "load", "save", "reload",
                         "associate", "done", "failed"}]
  /\ number \in [Imports -> Numbers \cup {None}]
  /\ statement \in [Imports -> SUBSET Txids]
  /\ job \in [Imports -> Creds \cup {None}]
  /\ target \in [Imports -> Imports \cup {None}]
  /\ known \in [Imports -> SUBSET Txids]
  /\ todo \in [Imports -> SUBSET Txids]
  /\ removal \in [Imports -> {"no", "marked", "stuck", "queued", "emptied", "last", "plain",
                              "dropping", "kept", "done", "dead"}]
  /\ held \in [Imports -> Creds \cup {None}]
  /\ doomed \in [Imports -> SUBSET Imports]
  /\ raced \subseteq Numbers
  /\ revived \subseteq Numbers
  /\ revoked \subseteq Creds
  /\ crossed \in BOOLEAN

Init ==
  /\ accounts  = [i \in Imports |-> None]
  /\ rows      = {}
  /\ uploads   = [i \in Imports |-> "none"]
  /\ creds     = Creds
  /\ pc        = [i \in Imports |-> "none"]
  /\ number    = [i \in Imports |-> None]
  /\ statement = [i \in Imports |-> {}]
  /\ job       = [i \in Imports |-> None]
  /\ target    = [i \in Imports |-> None]
  /\ known     = [i \in Imports |-> {}]
  /\ todo      = [i \in Imports |-> {}]
  /\ removal   = [a \in Imports |-> "no"]
  /\ held      = [a \in Imports |-> None]
  /\ doomed    = [a \in Imports |-> {}]
  /\ raced     = {}
  /\ revived   = {}
  /\ revoked   = {}
  /\ crossed   = FALSE

UnderWay(i) == pc[i] \notin {"none", "done", "failed"}
Removing(a) == removal[a] \in {"emptied", "last", "plain", "dropping"}
Exists(a)   == accounts[a] # None

-----------------------------------------------------------------------------
(* The table of transactions                                               *)

RowsOf(a) == {r \in rows : r.account = a}

Same(r, q) == r.account = q.account /\ r.txid = q.txid

(* Setting the status of the rows R of the table T meets the unique index. *)
Clashes(T, R, status) ==
  \E r \in R, q \in T : r # q /\ Same(r, q) /\ (q \in R \/ q.status = status)

Moved(T, R, status) == (T \ R) \cup {[r EXCEPT !.status = status] : r \in R}

(* Mutant: the copies go, whatever their status.                           *)
WithoutCopies(R) == {q \in rows : \A r \in R : ~Same(r, q)}

(* The table without the deleted copies of R                               *)
WithoutDeletedCopies(R) ==
  {q \in rows : q.status = "deleted" => \A r \in R : ~Same(r, q)}

(* Txaction.safe_delete: change_status to DELETED, which deletes older     *)
(* copies outright when the index objects, and tries once more             *)
DeleteFails(R) ==
  LET T == WithoutDeletedCopies(R)
  IN  Clashes(rows, R, "deleted") /\ Clashes(T, R \cap T, "deleted")

AfterDelete(R) ==
  LET T == WithoutDeletedCopies(R)
  IN  IF ~Clashes(rows, R, "deleted") THEN Moved(rows, R, "deleted")
      ELSE IF DeleteFails(R) THEN T
      ELSE Moved(T, R \cap T, "deleted")

(* The user deletes a transaction.                                         *)
DeleteTxaction(r) ==
  /\ r.status = "active" /\ Exists(r.account)
  /\ rows' = AfterDelete({r})
  /\ UNCHANGED <<accounts, uploads, creds, importVars, removalVars, historyVars>>

(* The user takes it back.  The status is saved without a second try.      *)
Undelete(r) ==
  /\ r.status = "deleted" /\ Exists(r.account) /\ ~Clashes(rows, {r}, "active")
  /\ rows' = Moved(rows, {r}, "active")
  /\ revived' = revived \cup {n \in {number[r.account]} :
                   \/ \E i \in Imports : UnderWay(i) /\ number[i] = n
                   \/ \E q \in rows : q # r /\ Same(r, q)}
  /\ UNCHANGED <<accounts, uploads, creds, importVars, removalVars, raced, revoked, crossed>>

(* change_status to another status: when the index objects, nothing is     *)
(* changed, and nobody is told                                             *)
SetStatus(R, status) ==
  /\ R # {} /\ ~Clashes(rows, R, status)
  /\ rows' = Moved(rows, R, status)
  /\ UNCHANGED <<accounts, uploads, creds, importVars, removalVars, historyVars>>

(* Account#disable_txactions_before_date: the dates can be any             *)
DisableTxactions(a) ==
  \E early \in SUBSET {r \in RowsOf(a) : r.status = "active"} :
    Exists(a) /\ SetStatus(early, "disabled")

EnableTxactions(a) ==
  Exists(a) /\ SetStatus({r \in RowsOf(a) : r.status = "disabled"}, "active")

-----------------------------------------------------------------------------
(* An import: StatementImport#import around OFX2Importer                    *)

(* The upload is stored and the job begins.  Another import under way for  *)
(* the same bank account, or a removal, is remembered.                     *)
StartImport(i) ==
  /\ pc[i] = "none"
  /\ \E n \in Numbers, T \in SUBSET Txids \ {{}}, c \in Creds \cup {None} :
       /\ number'    = [number EXCEPT ![i] = n]
       /\ statement' = [statement EXCEPT ![i] = T]
       /\ job'       = [job EXCEPT ![i] = c]
       /\ raced'     = raced \cup {m \in {n} : \E j \in Imports : UnderWay(j) /\ number[j] = m}
  /\ pc' = [pc EXCEPT ![i] = "find"]
  /\ uploads' = [uploads EXCEPT ![i] = "kept"]
  /\ crossed' = (crossed \/ \E a \in Imports : Removing(a))
  /\ UNCHANGED <<accounts, rows, creds, revived, revoked, target, known, todo, removalVars>>

Visible(a) == Exists(a) /\ accounts[a].status = "active"

(* Mutant: the credentials have to match as well.                          *)
FoundByJob(i) == {a \in Imports : Visible(a) /\ accounts[a].number = number[i] /\ accounts[a].cred = job[i]}

(* Account.find_account                                                    *)
Found(i) == {a \in Imports : Visible(a) /\ accounts[a].number = number[i]}

FindAccount(i) ==
  /\ pc[i] = "find"
  /\ \/ /\ Found(i) = {}
        /\ pc' = [pc EXCEPT ![i] = "create"]
        /\ target' = target
     \/ \E a \in Found(i) :
          /\ pc' = [pc EXCEPT ![i] = "link"]
          /\ target' = [target EXCEPT ![i] = a]
  /\ UNCHANGED <<accounts, rows, uploads, creds, number, statement, job, known, todo,
                 removalVars, historyVars>>

CreateAccount(i) ==
  /\ pc[i] = "create"
  /\ accounts' = [accounts EXCEPT
       ![i] = [number |-> number[i], status |-> "active", cred |-> None]]
  /\ pc' = [pc EXCEPT ![i] = "link"]
  /\ target' = [target EXCEPT ![i] = i]
  /\ UNCHANGED <<rows, uploads, creds, number, statement, job, known, todo, removalVars, historyVars>>

(* account.uploads << upload                                               *)
LinkUpload(i) ==
  /\ pc[i] = "link"
  /\ pc' = [pc EXCEPT ![i] = "load"]
  /\ uploads' = [uploads EXCEPT ![i] = "linked"]
  /\ UNCHANGED <<accounts, rows, creds, number, statement, job, target, known, todo,
                 removalVars, historyVars>>

(* Mutant: only the active ones are loaded.                                *)
LoadActive(i) ==
  /\ pc[i] = "load"
  /\ known' = [known EXCEPT
       ![i] = {t \in statement[i] : \E r \in RowsOf(target[i]) : r.txid = t /\ r.status = "active"}]
  /\ todo' = [todo EXCEPT ![i] = statement[i]]
  /\ pc' = [pc EXCEPT ![i] = "save"]
  /\ UNCHANGED <<accounts, rows, uploads, creds, number, statement, job, target,
                 removalVars, historyVars>>

(* txaction_hash: not of an account this import created, not the deleted   *)
LoadTxactions(i) ==
  /\ pc[i] = "load"
  /\ known' = [known EXCEPT
       ![i] = IF target[i] = i THEN {}
              ELSE {t \in statement[i] : \E r \in RowsOf(target[i]) :
                      r.txid = t /\ r.status # "deleted"}]
  /\ todo' = [todo EXCEPT ![i] = statement[i]]
  /\ pc' = [pc EXCEPT ![i] = "save"]
  /\ UNCHANGED <<accounts, rows, uploads, creds, number, statement, job, target,
                 removalVars, historyVars>>

New(i, t) == [account |-> target[i], txid |-> t,
              status |-> IF t \in Zero THEN "deleted" ELSE "active", upload |-> i]

Taken(r) == \E q \in rows : Same(r, q) /\ q.status = r.status

(* Mutant: no index.                                                       *)
CreateTxactionAgain(i, t) == t \notin known[i] /\ rows' = rows \cup {New(i, t)}

(* A new transaction; when the index objects, the error is logged and the  *)
(* import goes on                                                          *)
CreateTxaction(i, t) ==
  /\ t \notin known[i]
  /\ rows' = IF Taken(New(i, t)) THEN rows ELSE rows \cup {New(i, t)}

(* One that was loaded: if its row says something else than the statement, *)
(* it now belongs to this upload.  A row that has gone is not missed.      *)
UpdateTxaction(i, t) ==
  /\ t \in known[i]
  /\ \/ rows' = rows
     \/ \E r \in RowsOf(target[i]) :
          /\ r.txid = t
          /\ rows' = (rows \ {r}) \cup {[r EXCEPT !.upload = i]}

SaveTxaction(i) ==
  /\ pc[i] = "save"
  /\ \E t \in todo[i] :
       /\ CreateTxaction(i, t) \/ UpdateTxaction(i, t)
       /\ todo' = [todo EXCEPT ![i] = @ \ {t}]
       /\ pc' = [pc EXCEPT ![i] = IF todo[i] = {t} THEN "reload" ELSE @]
       /\ known' = [known EXCEPT ![i] = @ \ {t}]
  /\ UNCHANGED <<accounts, uploads, creds, number, statement, job, target,
                 removalVars, historyVars>>

(* An upload by hand ends here.  In a job, upload.reload raises when the   *)
(* upload has gone; then the credentials and the accounts of the upload    *)
(* are read.                                                               *)
ReadCred(i) ==
  /\ pc[i] = "reload"
  /\ LET next == IF job[i] # None /\ uploads[i] = "gone" THEN "failed"
                 ELSE IF job[i] \in creds /\ Exists(target[i]) THEN "associate" ELSE "done"
     IN  /\ pc' = [pc EXCEPT ![i] = next]
         /\ job' = [job EXCEPT ![i] = IF next = "associate" THEN @ ELSE None]
  /\ UNCHANGED <<accounts, rows, uploads, creds, number, statement, target, known, todo,
                 removalVars, historyVars>>

Associate(i) ==
  /\ pc[i] = "associate"
  /\ pc' = [pc EXCEPT ![i] = "done"]
  /\ accounts' = [accounts EXCEPT
       ![target[i]] = IF @ = None THEN None ELSE [@ EXCEPT !.cred = job[i]]]
  /\ job' = [job EXCEPT ![i] = None]
  /\ UNCHANGED <<rows, uploads, creds, number, statement, target, known, todo,
                 removalVars, historyVars>>

(* The job ends early: an error, or its worker is killed.                  *)
Die(i) ==
  /\ UnderWay(i)
  /\ pc' = [pc EXCEPT ![i] = "failed"]
  /\ job' = [job EXCEPT ![i] = None]
  /\ known' = [known EXCEPT ![i] = {}]
  /\ todo' = [todo EXCEPT ![i] = {}]
  /\ statement' = [statement EXCEPT ![i] = {}]
  /\ UNCHANGED <<accounts, rows, uploads, creds, number, target, removalVars, historyVars>>

-----------------------------------------------------------------------------
(* The user deletes uploads and accounts.                                  *)

(* Upload#destroy, for an upload of one account                            *)
DeleteUpload(i) ==
  /\ uploads[i] = "linked" /\ Exists(target[i])
  /\ uploads' = [uploads EXCEPT ![i] = "gone"]
  /\ rows' = {r \in rows : r.upload # i}
  /\ UNCHANGED <<accounts, creds, importVars, removalVars, historyVars>>

(* The user destroys credentials; their accounts go on naming them.        *)
DestroyCred(c) ==
  /\ c \in creds
  /\ creds' = creds \ {c}
  /\ revoked' = revoked \cup {c}
  /\ UNCHANGED <<accounts, rows, uploads, importVars, removalVars, raced, revived, crossed>>

(* Account#destroy_deferred marks the account, then its rows, then queues  *)
(* the job; an error of the second keeps it from the third                 *)
MarkDeleted(a) ==
  /\ Visible(a) /\ removal[a] = "no"
  /\ accounts' = [accounts EXCEPT ![a].status = "deleted"]
  /\ removal' = [removal EXCEPT ![a] = "marked"]
  /\ UNCHANGED <<rows, uploads, creds, importVars, held, doomed, historyVars>>

DeleteRows(a) ==
  /\ removal[a] = "marked"
  /\ rows' = AfterDelete(RowsOf(a))
  /\ removal' = [removal EXCEPT ![a] = IF DeleteFails(RowsOf(a)) THEN "stuck" ELSE "queued"]
  /\ UNCHANGED <<accounts, uploads, creds, importVars, held, doomed, historyVars>>

(* Account#destroy, by the job or by the page that lists new accounts: the *)
(* callbacks destroy the account's uploads and transactions ...            *)
Linked(a) == {i \in Imports : uploads[i] = "linked" /\ target[i] = a}

(* Mutant: the association that leaves out all but the active rows.        *)
EmptyOfActive(a) ==
  /\ removal[a] = "queued" \/ (removal[a] = "no" /\ Visible(a))
  /\ rows' = {r \in rows : r.account = a => r.status # "active"}
  /\ uploads' = [i \in Imports |-> IF i \in Linked(a) THEN "gone" ELSE uploads[i]]
  /\ removal' = [removal EXCEPT ![a] = "emptied"]
  /\ held' = [held EXCEPT ![a] = accounts[a].cred]
  /\ doomed' = [doomed EXCEPT ![a] = Linked(a)]
  /\ crossed' = (crossed \/ \E i \in Imports : UnderWay(i))
  /\ UNCHANGED <<accounts, creds, importVars, raced, revived, revoked>>

Empty(a) ==
  /\ removal[a] = "queued" \/ (removal[a] = "no" /\ Visible(a))
  /\ rows' = rows \ RowsOf(a)
  /\ uploads' = [i \in Imports |-> IF i \in Linked(a) THEN "gone" ELSE uploads[i]]
  /\ removal' = [removal EXCEPT ![a] = "emptied"]
  /\ held' = [held EXCEPT ![a] = accounts[a].cred]
  /\ doomed' = [doomed EXCEPT ![a] = Linked(a)]
  /\ crossed' = (crossed \/ \E i \in Imports : UnderWay(i))
  /\ UNCHANGED <<accounts, creds, importVars, raced, revived, revoked>>

(* Mutant: only the accounts the user still sees are counted.              *)
SharingVisibly(c) == {a \in Imports : Exists(a) /\ accounts[a].cred = c /\ accounts[a].status = "active"}

(* ... account_cred.accounts.count then decides ...                        *)
Sharing(c) == {a \in Imports : Exists(a) /\ accounts[a].cred = c}

Forget(a) == held' = [held EXCEPT ![a] = None] /\ doomed' = [doomed EXCEPT ![a] = {}]

Decide(a) ==
  /\ removal[a] = "emptied"
  /\ LET ssu  == held[a] \in creds
         kept == ssu /\ Cardinality(Sharing(held[a])) # 1
     IN  /\ removal' = [removal EXCEPT ![a] =
              IF kept THEN "kept" ELSE IF ssu THEN "last" ELSE "plain"]
         /\ accounts' = IF kept THEN [accounts EXCEPT ![a].status = "disabled"] ELSE accounts
         /\ IF kept THEN Forget(a) ELSE UNCHANGED <<held, doomed>>
  /\ UNCHANGED <<rows, uploads, creds, importVars, historyVars>>

(* ... whether the row goes (the callbacks run once more, for the uploads  *)
(* they know) ...                                                          *)
DeleteAccount(a) ==
  /\ removal[a] \in {"last", "plain"}
  /\ accounts' = [accounts EXCEPT ![a] = None]
  /\ rows' = {r \in rows : ~(r.account = a /\ r.upload \in doomed[a])}
  /\ removal' = [removal EXCEPT ![a] = IF @ = "last" THEN "dropping" ELSE "done"]
  /\ IF removal[a] = "last" THEN UNCHANGED <<held, doomed>> ELSE Forget(a)
  /\ UNCHANGED <<uploads, creds, importVars, historyVars>>

(* ... and the credentials with it.                                        *)
DropCred(a) ==
  /\ removal[a] = "dropping"
  /\ creds' = creds \ {held[a]}
  /\ removal' = [removal EXCEPT ![a] = "done"]
  /\ Forget(a)
  /\ UNCHANGED <<accounts, rows, uploads, importVars, historyVars>>

(* The worker or the web process is killed.                                *)
Kill(a) ==
  /\ Removing(a) \/ removal[a] = "marked"
  /\ removal' = [removal EXCEPT ![a] = "dead"]
  /\ Forget(a)
  /\ UNCHANGED <<accounts, rows, uploads, creds, importVars, historyVars>>

-----------------------------------------------------------------------------
Import(i) == StartImport(i) \/ FindAccount(i) \/ CreateAccount(i) \/ LinkUpload(i)
             \/ LoadTxactions(i) \/ SaveTxaction(i) \/ ReadCred(i) \/ Associate(i) \/ Die(i)

Remove(a) == MarkDeleted(a) \/ DeleteRows(a) \/ Empty(a) \/ Decide(a) \/ DeleteAccount(a)
             \/ DropCred(a) \/ Kill(a)

Edit ==
  \/ \E i \in Imports : DeleteUpload(i) \/ DisableTxactions(i) \/ EnableTxactions(i)
  \/ \E r \in rows : DeleteTxaction(r) \/ Undelete(r)
  \/ \E c \in creds : DestroyCred(c)

Next == Edit \/ \E i \in Imports : Import(i) \/ Remove(i)

Spec == Init /\ [][Next]_vars

-----------------------------------------------------------------------------
(* Safety                                                                  *)

(* What a statement said stays: an import that came to its end left a row  *)
(* for each transaction of its statement, whatever else was imported or    *)
(* deleted meanwhile, as long as nobody removes the account or one of its  *)
(* uploads (ofx2importer.rb:263-404, txaction.rb:156-172).                 *)
ImportedKept ==
  \A i \in Imports : pc[i] \in {"reload", "associate", "done"} =>
    LET a == target[i] IN
      \/ removal[a] # "no"
      \/ \E j \in Imports : target[j] = a /\ uploads[j] = "gone"
      \/ \A t \in statement[i] : \E r \in rows : r.account = a /\ r.txid = t

(* "Disabled transactions are not recreated if they are uploaded again"    *)
(* (account.rb:323): no transaction is both disabled and active, unless    *)
(* two imports of its bank account overlapped, or the user brought back a  *)
(* deleted one beside a copy of it or during an import.                    *)
DisabledStay ==
  \A r, q \in rows : Same(r, q) /\ r.status = "disabled" /\ q.status = "active"
                     => number[r.account] \in raced \cup revived

(* The user sees a bank account once, unless two imports of it overlapped  *)
(* (ofx2importer.rb:451-500).                                              *)
OneAccountPerNumber ==
  \A a, b \in Imports : Visible(a) /\ Visible(b) /\ accounts[a].number = accounts[b].number
                        => a = b \/ accounts[a].number \in raced

(* The error that keeps an account, marked as deleted, from being          *)
(* destroyed has no cause but copies that overlapping imports or the       *)
(* undoing of a deletion left (account.rb:175-178, txaction.rb:163-171).   *)
StuckOnlyByCopies == \A a \in Imports : removal[a] = "stuck" => number[a] \in raced \cup revived

(* Nothing is left of a destroyed account, and a disabled one is empty,    *)
(* unless an import was under way during the removal (account.rb:181-194). *)
NoneLeftBehind ==
  \A r \in rows : crossed \/ (Exists(r.account) /\ accounts[r.account].status # "disabled")

(* Removing accounts leaves none with credentials that went with another,  *)
(* unless an import was under way during the removal (account.rb:185-188). *)
CredsServe ==
  \A a \in Imports : Exists(a) /\ accounts[a].cred # None =>
    accounts[a].cred \in creds \cup revoked \/ crossed

-----------------------------------------------------------------------------
(* The inductive invariant                                                 *)

(* The unique index of txactions on wesabe_txid and status                 *)
UniqueInv == \A r, q \in rows : Same(r, q) /\ r.status = q.status => r = q

(* Who has an account, a target, an upload                                 *)
PlaceInv ==
  /\ \A i \in Imports :
       /\ pc[i] \in {"none", "find", "create", "link"} => uploads[i] \in {"none", "kept"}
       /\ pc[i] \in {"none", "find", "create"} => target[i] = None
       /\ pc[i] \in {"link", "load", "save", "reload", "associate", "done"} => target[i] # None
       /\ pc[i] # "none" => number[i] # None
       /\ pc[i] = "none" => todo[i] = {}
       /\ todo[i] \subseteq statement[i] /\ known[i] \subseteq todo[i]
       /\ target[i] # None =>
            number[target[i]] = number[i] /\ pc[target[i]] \notin {"none", "find", "create"}
  /\ \A a \in Imports : Exists(a) =>
       accounts[a].number = number[a] /\ pc[a] \notin {"none", "find", "create"}
  /\ \A r \in rows : target[r.upload] = r.account
  /\ \A a \in Imports :
       /\ removal[a] \in {"marked", "queued", "emptied", "last", "plain"} => Exists(a)
       /\ removal[a] # "no" => pc[a] \notin {"none", "find", "create"}

(* Two imports of a number under way are remembered.                       *)
RacedInv ==
  \A i, j \in Imports : i # j /\ UnderWay(i) /\ UnderWay(j) /\ number[i] = number[j]
                        => number[i] \in raced

(* Alone with its bank account, an import knows every live transaction it  *)
(* has still to save.                                                      *)
KnownInv ==
  \A i \in Imports : number[i] \notin raced \cup revived =>
    /\ pc[i] \in {"link", "load"} /\ target[i] = i => RowsOf(i) = {}
    /\ pc[i] = "save" =>
         \A r \in rows : r.account = target[i] /\ r.txid \in todo[i] \ known[i]
                        => r.status = "deleted"

(* ... and the account it is about to create is the only one.              *)
CreateInv ==
  \A i, a \in Imports : pc[i] = "create" /\ number[i] \notin raced /\ Visible(a)
                        => accounts[a].number # number[i]

(* What KnownInv is for ImportedKept                                       *)
Trimmed(a) == removal[a] # "no" \/ \E j \in Imports : target[j] = a /\ uploads[j] = "gone"

SavedInv ==
  \A i \in Imports : pc[i] = "save" =>
    \/ Trimmed(target[i])
    \/ \A t \in (statement[i] \ todo[i]) \cup known[i] :
         \E r \in rows : r.account = target[i] /\ r.txid = t

(* Without an import under way during it, a removal does what it is for.   *)
RemovalInv == ~crossed =>
  /\ \A i, a \in Imports : ~(UnderWay(i) /\ Removing(a))
  /\ \A i \in Imports : UnderWay(i) /\ target[i] # None =>
       Exists(target[i]) /\ accounts[target[i]].status # "disabled"
  /\ \A i \in Imports : pc[i] = "associate" => job[i] \in creds \cup revoked
  /\ \A a \in Imports : removal[a] \in {"emptied", "last", "plain"} =>
       RowsOf(a) = {} /\ held[a] = accounts[a].cred
  /\ \A a \in Imports : removal[a] = "last" => Sharing(held[a]) = {a}
  /\ \A a \in Imports : removal[a] = "dropping" => Sharing(held[a]) = {}

(* What the safety properties rest on                                      *)
Support ==
  TypeOK /\ UniqueInv /\ PlaceInv /\ RacedInv /\ KnownInv /\ CreateInv /\ SavedInv /\ RemovalInv

IInv ==
  /\ Support
  /\ ImportedKept /\ DisabledStay /\ OneAccountPerNumber /\ StuckOnlyByCopies
  /\ NoneLeftBehind /\ CredsServe
=============================================================================
