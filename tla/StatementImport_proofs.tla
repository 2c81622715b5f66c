------------------------ MODULE StatementImport_proofs ------------------------
(***************************************************************************)
(* IInv is an inductive invariant of StatementImport, and with it the      *)
(* safety properties hold for any statements, accounts, transactions and   *)
(* credentials.  First what the operations do to the table of              *)
(* transactions, then one lemma for each part of IInv.                     *)
(***************************************************************************)
EXTENDS StatementImport, FiniteSetTheorems, TLAPS

(* The unique index, for any table                                         *)
Unique(T) == \A r, q \in T : Same(r, q) /\ r.status = q.status => r = q

(* Each row of U stems from one of T, and at most the status s of rows of  *)
(* R is new.                                                               *)
Stems(U, T, R, s) ==
  \A r \in U : \E q \in T :
    Same(r, q) /\ r.upload = q.upload /\ (r = q \/ (q \in R /\ r.status = s))

(* No transaction of T is missing in U.                                    *)
Covers(U, T) == \A q \in T : \E r \in U : Same(r, q)

-----------------------------------------------------------------------------
(* The table of transactions                                               *)

LEMMA MovedRow ==
  ASSUME NEW r \in Row, NEW s \in Statuses
  PROVE  LET m == [r EXCEPT !.status = s] IN
         m \in Row /\ Same(m, r) /\ m.upload = r.upload /\ m.status = s
  BY DEF Row, Same

LEMMA MovedFacts ==
  ASSUME NEW T \in SUBSET Row, NEW R \in SUBSET T, NEW s \in Statuses
  PROVE  /\ Moved(T, R, s) \in SUBSET Row
         /\ Stems(Moved(T, R, s), T, R, s)
         /\ Covers(Moved(T, R, s), T)
  <1>1. \A r \in R : r \in Row
    OBVIOUS
  <1>2. ASSUME NEW p \in Moved(T, R, s)
        PROVE  p \in Row /\ \E q \in T :
                 Same(p, q) /\ p.upload = q.upload /\ (p = q \/ (q \in R /\ p.status = s))
    <2>1. CASE p \in T
      BY <2>1 DEF Same
    <2>2. CASE p \notin T
      <3>1. PICK r \in R : p = [r EXCEPT !.status = s]
        BY <2>2 DEF Moved
      <3>2. QED BY <3>1, <1>1, MovedRow
    <2>3. QED BY <2>1, <2>2
  <1>3. ASSUME NEW q \in T
        PROVE  \E p \in Moved(T, R, s) : Same(p, q)
    <2>1. CASE q \in R
      BY <2>1, MovedRow DEF Moved
    <2>2. CASE q \notin R
      BY <2>2 DEF Moved, Same
    <2>3. QED BY <2>1, <2>2
  <1>4. QED BY <1>2, <1>3 DEF Stems, Covers

LEMMA MovedUnique ==
  ASSUME NEW T \in SUBSET Row, NEW R \in SUBSET T, NEW s \in Statuses,
         Unique(T), ~Clashes(T, R, s)
  PROVE  Unique(Moved(T, R, s))
  <1> SUFFICES ASSUME NEW p \in Moved(T, R, s), NEW q \in Moved(T, R, s),
                      Same(p, q), p.status = q.status
               PROVE  p = q
    BY DEF Unique
  <1>1. \A x \in Moved(T, R, s) : x \in T \ R \/ \E r \in R : x = [r EXCEPT !.status = s]
    BY DEF Moved
  <1>2. ASSUME NEW r \in R, NEW y \in T \ R, NEW x, x = [r EXCEPT !.status = s]
        PROVE  ~(Same(x, y) /\ x.status = y.status)
    BY <1>2, MovedRow DEF Clashes, Same
  <1>3. ASSUME NEW r \in R, NEW z \in R, NEW x, NEW y,
               x = [r EXCEPT !.status = s], y = [z EXCEPT !.status = s], Same(x, y)
        PROVE  x = y
    BY <1>3, MovedRow DEF Clashes, Same
  <1>4. CASE p \in T \ R /\ q \in T \ R
    BY <1>4 DEF Unique
  <1>5. CASE p \notin T \ R /\ q \notin T \ R
    BY <1>1, <1>3, <1>5
  <1>6. CASE p \in T \ R /\ q \notin T \ R
    BY <1>1, <1>2, <1>6 DEF Same
  <1>7. CASE p \notin T \ R /\ q \in T \ R
    BY <1>1, <1>2, <1>7
  <1>8. QED BY <1>4, <1>5, <1>6, <1>7

LEMMA WithoutFacts ==
  ASSUME NEW R \in SUBSET rows
  PROVE  /\ WithoutDeletedCopies(R) \in SUBSET rows
         /\ \A q \in rows : (\A r \in R : ~Same(r, q)) => q \in WithoutDeletedCopies(R)
         /\ \A q \in rows : q.status # "deleted" => q \in WithoutDeletedCopies(R)
         /\ \A q \in WithoutDeletedCopies(R) : q.status = "deleted" => \A r \in R : ~Same(r, q)
  BY DEF WithoutDeletedCopies

(* What a deletion of R leaves, whichever way it goes                      *)
LEMMA AfterDeleteFacts ==
  ASSUME rows \in SUBSET Row, UniqueInv, NEW R \in SUBSET rows
  PROVE  /\ AfterDelete(R) \in SUBSET Row
         /\ Unique(AfterDelete(R))
         /\ Stems(AfterDelete(R), rows, R, "deleted")
         /\ \A q \in rows : (\A r \in R : ~Same(r, q)) => q \in AfterDelete(R)
  <1> DEFINE T == WithoutDeletedCopies(R)
  <1>1. T \in SUBSET rows /\ T \in SUBSET Row /\ R \cap T \in SUBSET T /\ "deleted" \in Statuses
    BY WithoutFacts DEF Statuses
  <1>2. Unique(rows) /\ Unique(T)
    BY <1>1 DEF UniqueInv, Unique
  <1>3. \A q \in rows : (\A r \in R : ~Same(r, q)) => q \in T /\ q \notin R
    BY WithoutFacts DEF Same
  <1> HIDE DEF T
  <1>4. CASE ~Clashes(rows, R, "deleted")
    <2>1. AfterDelete(R) = Moved(rows, R, "deleted")
      BY <1>4 DEF AfterDelete
    <2>2. \A q \in rows : q \notin R => q \in Moved(rows, R, "deleted")
      BY DEF Moved
    <2>3. QED BY <1>1, <1>2, <1>3, <1>4, <2>1, <2>2, MovedFacts, MovedUnique
  <1>5. CASE Clashes(rows, R, "deleted") /\ Clashes(T, R \cap T, "deleted")
    <2>1. AfterDelete(R) = T
      BY <1>5 DEF AfterDelete, DeleteFails, T
    <2>2. QED BY <1>1, <1>2, <1>3, <2>1 DEF Stems, Same
  <1>6. CASE Clashes(rows, R, "deleted") /\ ~Clashes(T, R \cap T, "deleted")
    <2>1. AfterDelete(R) = Moved(T, R \cap T, "deleted")
      BY <1>6 DEF AfterDelete, DeleteFails, T
    <2>2. Stems(Moved(T, R \cap T, "deleted"), T, R \cap T, "deleted")
      BY <1>1, MovedFacts
    <2>3. Stems(Moved(T, R \cap T, "deleted"), rows, R, "deleted")
      BY <1>1, <2>2 DEF Stems
    <2>4. \A q \in T : q \notin R => q \in Moved(T, R \cap T, "deleted")
      BY DEF Moved
    <2>5. Moved(T, R \cap T, "deleted") \in SUBSET Row
      BY <1>1, MovedFacts
    <2>6. Unique(Moved(T, R \cap T, "deleted"))
      BY <1>1, <1>2, <1>6, MovedUnique
    <2>7. QED BY <1>3, <2>1, <2>3, <2>4, <2>5, <2>6
  <1>7. QED BY <1>4, <1>5, <1>6

(* Deleting one live transaction succeeds and leaves a copy of each.       *)
LEMMA DeleteOneCovers ==
  ASSUME rows \in SUBSET Row, NEW r \in rows, r.status = "active"
  PROVE  Covers(AfterDelete({r}), rows)
  <1> DEFINE T == WithoutDeletedCopies({r})
  <1>1. T \in SUBSET rows /\ T \in SUBSET Row /\ {r} \cap T = {r} /\ {r} \in SUBSET T
    BY WithoutFacts
  <1>2. "deleted" \in Statuses /\ {r} \in SUBSET rows
    BY DEF Statuses
  <1>3. ~Clashes(T, {r}, "deleted")
    BY WithoutFacts DEF Clashes
  <1>4. ASSUME NEW q \in rows, q \notin T
        PROVE  Same(r, q)
    BY <1>4, WithoutFacts
  <1> HIDE DEF T
  <1>5. CASE ~Clashes(rows, {r}, "deleted")
    BY <1>2, <1>5, MovedFacts DEF AfterDelete
  <1>6. CASE Clashes(rows, {r}, "deleted")
    <2>1. AfterDelete({r}) = Moved(T, {r}, "deleted")
      BY <1>1, <1>3, <1>6 DEF AfterDelete, DeleteFails, T
    <2>2. Covers(Moved(T, {r}, "deleted"), T)
      BY <1>1, <1>2, MovedFacts
    <2>3. QED BY <1>1, <1>4, <2>1, <2>2 DEF Covers, Same
  <1>7. QED BY <1>5, <1>6

-----------------------------------------------------------------------------
(* What the actions do to it                                               *)

LEMMA DeleteTxactionRows ==
  ASSUME TypeOK, UniqueInv, NEW r \in rows, DeleteTxaction(r)
  PROVE  /\ rows' \in SUBSET Row /\ Unique(rows')
         /\ Stems(rows', rows, {r}, "deleted") /\ Covers(rows', rows)
  BY AfterDeleteFacts, DeleteOneCovers DEF DeleteTxaction, TypeOK

LEMMA SetStatusRows ==
  ASSUME TypeOK, UniqueInv, NEW R \in SUBSET rows, NEW s \in Statuses,
         ~Clashes(rows, R, s), rows' = Moved(rows, R, s)
  PROVE  /\ rows' \in SUBSET Row /\ Unique(rows')
         /\ Stems(rows', rows, R, s) /\ Covers(rows', rows)
  <1>1. Unique(rows) /\ rows \in SUBSET Row
    BY DEF TypeOK, UniqueInv, Unique
  <1>2. QED BY <1>1, MovedFacts, MovedUnique

LEMMA UndeleteRows ==
  ASSUME TypeOK, UniqueInv, NEW r \in rows, Undelete(r)
  PROVE  /\ rows' \in SUBSET Row /\ Unique(rows')
         /\ Stems(rows', rows, {r}, "active") /\ Covers(rows', rows)
  BY SetStatusRows DEF Undelete, Statuses

LEMMA DisableRows ==
  ASSUME TypeOK, UniqueInv, NEW a \in Imports, DisableTxactions(a)
  PROVE  \E R \in SUBSET {r \in RowsOf(a) : r.status = "active"} :
           /\ rows' \in SUBSET Row /\ Unique(rows') /\ rows' = Moved(rows, R, "disabled")
           /\ Stems(rows', rows, R, "disabled") /\ Covers(rows', rows)
  <1>1. PICK R \in SUBSET {r \in RowsOf(a) : r.status = "active"} : SetStatus(R, "disabled")
    BY DEF DisableTxactions
  <1>2. R \in SUBSET rows /\ "disabled" \in Statuses
    BY DEF RowsOf, Statuses
  <1>3. QED BY <1>1, <1>2, SetStatusRows DEF SetStatus

LEMMA EnableRows ==
  ASSUME TypeOK, UniqueInv, NEW a \in Imports, EnableTxactions(a)
  PROVE  LET R == {r \in RowsOf(a) : r.status = "disabled"} IN
           /\ rows' \in SUBSET Row /\ Unique(rows') /\ rows' = Moved(rows, R, "active")
           /\ Stems(rows', rows, R, "active") /\ Covers(rows', rows)
  <1> DEFINE R == {r \in RowsOf(a) : r.status = "disabled"}
  <1>1. R \in SUBSET rows /\ "active" \in Statuses
    BY DEF RowsOf, Statuses
  <1>2. SetStatus(R, "active")
    BY DEF EnableTxactions
  <1> HIDE DEF R
  <1>3. rows' = Moved(rows, R, "active") /\ ~Clashes(rows, R, "active")
    BY <1>2 DEF SetStatus
  <1>4. /\ rows' \in SUBSET Row /\ Unique(rows')
        /\ Stems(rows', rows, R, "active") /\ Covers(rows', rows)
    BY <1>1, <1>3, SetStatusRows
  <1>5. QED BY <1>3, <1>4 DEF R

(* An import saves the transaction t.                                      *)
LEMMA SaveRows ==
  ASSUME TypeOK, UniqueInv, PlaceInv, NEW i \in Imports, pc[i] = "save", NEW t \in todo[i],
         CreateTxaction(i, t) \/ UpdateTxaction(i, t)
  PROVE  /\ rows' \in SUBSET Row /\ Unique(rows') /\ Covers(rows', rows)
         /\ \A p \in rows' :
              \/ p = New(i, t) /\ t \notin known[i]
              \/ p \in rows
              \/ p.account = target[i] /\ p.upload = i
                 /\ \E q \in rows : Same(p, q) /\ p.status = q.status
         /\ t \notin known[i] => \E p \in rows' : p.account = target[i] /\ p.txid = t
  <1>1. target[i] \in Imports /\ t \in Txids /\ rows \in SUBSET Row /\ Unique(rows)
    BY NoneAssumption DEF TypeOK, PlaceInv, UniqueInv, Unique
  <1>2. New(i, t) \in Row /\ New(i, t).account = target[i] /\ New(i, t).txid = t
    BY <1>1 DEF New, Row, Statuses
  <1>3. CASE CreateTxaction(i, t)
    <2>1. CASE Taken(New(i, t))
      BY <1>1, <1>2, <1>3, <2>1 DEF CreateTxaction, Taken, Same, Covers
    <2>2. CASE ~Taken(New(i, t))
      <3>1. rows' = rows \cup {New(i, t)} /\ t \notin known[i]
        BY <1>3, <2>2 DEF CreateTxaction
      <3>2. Unique(rows')
        BY <1>1, <2>2, <3>1 DEF Unique, Taken, Same
      <3>3. QED BY <1>1, <1>2, <3>1, <3>2 DEF Covers, Same
    <2>3. QED BY <2>1, <2>2
  <1>4. CASE UpdateTxaction(i, t) /\ rows' = rows
    BY <1>1, <1>4 DEF UpdateTxaction, Covers, Same
  <1>5. CASE UpdateTxaction(i, t) /\ rows' # rows
    <2>1. PICK r \in RowsOf(target[i]) :
            r.txid = t /\ rows' = (rows \ {r}) \cup {[r EXCEPT !.upload = i]}
      BY <1>5 DEF UpdateTxaction
    <2> DEFINE m == [r EXCEPT !.upload = i]
    <2>2. r \in rows /\ r \in Row /\ r.account = target[i] /\ t \in known[i]
      BY <1>1, <1>5, <2>1 DEF RowsOf, UpdateTxaction
    <2>3. m \in Row /\ Same(m, r) /\ m.status = r.status /\ m.upload = i /\ m.account = target[i]
      BY <2>2 DEF Row, Same
    <2>4. rows' = (rows \ {r}) \cup {m}
      BY <2>1
    <2> HIDE DEF m
    <2>5. Unique(rows')
      BY <1>1, <2>2, <2>3, <2>4 DEF Unique, Same
    <2>6. Covers(rows', rows)
      BY <2>2, <2>3, <2>4 DEF Covers, Same
    <2>7. QED BY <1>1, <2>2, <2>3, <2>4, <2>5, <2>6
  <1>6. QED BY <1>3, <1>4, <1>5

LEMMA DeleteRowsRows ==
  ASSUME TypeOK, UniqueInv, NEW a \in Imports, DeleteRows(a)
  PROVE  /\ rows' \in SUBSET Row /\ Unique(rows')
         /\ Stems(rows', rows, RowsOf(a), "deleted")
         /\ \A q \in rows : q.account # a => q \in rows'
  <1>1. RowsOf(a) \in SUBSET rows /\ \A q \in rows : q.account # a => \A r \in RowsOf(a) : ~Same(r, q)
    BY DEF RowsOf, Same
  <1>2. QED BY <1>1, AfterDeleteFacts DEF DeleteRows, TypeOK

LEMMA FilterRows ==
  ASSUME TypeOK, UniqueInv, PlaceInv, NEW a \in Imports
  PROVE  /\ Empty(a) \/ DeleteAccount(a) =>
              rows' \in SUBSET rows /\ \A q \in rows : q.account # a => q \in rows'
         /\ DeleteUpload(a) =>
              rows' \in SUBSET rows /\ \A q \in rows : q.account # target[a] => q \in rows'
  BY DEF Empty, DeleteAccount, DeleteUpload, RowsOf, PlaceInv

-----------------------------------------------------------------------------
(* What no step does                                                       *)

RowStep ==
  \/ \E r \in rows : DeleteTxaction(r) \/ Undelete(r)
  \/ \E i \in Imports : \/ DeleteUpload(i) \/ DisableTxactions(i) \/ EnableTxactions(i)
                        \/ SaveTxaction(i) \/ DeleteRows(i) \/ Empty(i) \/ DeleteAccount(i)

AccountStep ==
  \E i \in Imports : CreateAccount(i) \/ Associate(i) \/ MarkDeleted(i) \/ Decide(i) \/ DeleteAccount(i)

LEMMA RowFrame == ASSUME [Next]_vars PROVE RowStep \/ UNCHANGED rows
  BY DEF Next, vars, Edit, Import, Remove, RowStep, StartImport, FindAccount, CreateAccount,
         LinkUpload, LoadTxactions, ReadCred, Associate, Die, MarkDeleted, Decide, DropCred, Kill,
         DestroyCred

LEMMA AccountFrame == ASSUME [Next]_vars PROVE AccountStep \/ UNCHANGED accounts
  BY DEF Next, vars, Edit, Import, Remove, AccountStep, StartImport, FindAccount, LinkUpload,
         LoadTxactions, SaveTxaction, ReadCred, Die, DeleteRows, Empty, DropCred, Kill, DestroyCred,
         DeleteUpload, DisableTxactions, EnableTxactions, SetStatus, DeleteTxaction, Undelete

LEMMA ImportFrame ==
  ASSUME [Next]_vars
  PROVE  (\E i \in Imports : Import(i)) \/ UNCHANGED importVars
  BY DEF Next, vars, Edit, Remove, DeleteRows, Empty, MarkDeleted, Decide, DeleteAccount, DropCred,
         Kill, DestroyCred, DeleteUpload, DisableTxactions, EnableTxactions, SetStatus,
         DeleteTxaction, Undelete

LEMMA RemovalFrame ==
  ASSUME [Next]_vars
  PROVE  (\E i \in Imports : Remove(i)) \/ UNCHANGED removalVars
  BY DEF Next, vars, Edit, Import, StartImport, FindAccount, CreateAccount, LinkUpload,
         LoadTxactions, SaveTxaction, ReadCred, Associate, Die, DestroyCred, DeleteUpload,
         DisableTxactions, EnableTxactions, SetStatus, DeleteTxaction, Undelete

LEMMA UploadFrame ==
  ASSUME [Next]_vars
  PROVE  \/ \E i \in Imports : StartImport(i) \/ LinkUpload(i) \/ DeleteUpload(i) \/ Empty(i)
         \/ UNCHANGED uploads
  BY DEF Next, vars, Edit, Import, Remove, FindAccount, CreateAccount, LoadTxactions, SaveTxaction,
         ReadCred, Associate, Die, MarkDeleted, DeleteRows, Decide, DeleteAccount, DropCred, Kill,
         DestroyCred, DisableTxactions, EnableTxactions, SetStatus, DeleteTxaction, Undelete

LEMMA CredFrame ==
  ASSUME [Next]_vars
  PROVE  (\E c \in creds : DestroyCred(c)) \/ (\E i \in Imports : DropCred(i)) \/ UNCHANGED <<creds, revoked>>
  BY DEF Next, vars, historyVars, Edit, Import, Remove, StartImport, FindAccount, CreateAccount,
         LinkUpload, LoadTxactions, SaveTxaction, ReadCred, Associate, Die, MarkDeleted, DeleteRows,
         Empty, Decide, DeleteAccount, Kill, DropCred, DeleteUpload, DisableTxactions, EnableTxactions,
         SetStatus, DeleteTxaction, Undelete

LEMMA HistoryFrame ==
  ASSUME [Next]_vars
  PROVE  /\ raced \subseteq raced' /\ revived \subseteq revived' /\ (crossed => crossed')
         /\ (\E i \in Imports : StartImport(i)) \/ UNCHANGED raced
  <1>1. \/ \E i \in Imports : StartImport(i) \/ Empty(i)
        \/ \E r \in rows : Undelete(r)
        \/ \E c \in creds : DestroyCred(c)
        \/ UNCHANGED historyVars
    BY DEF Next, vars, Edit, Import, Remove, FindAccount, CreateAccount, LinkUpload, LoadTxactions,
           SaveTxaction, ReadCred, Associate, Die, MarkDeleted, DeleteRows, Decide, DeleteAccount,
           Kill, DropCred, DeleteUpload, DisableTxactions, EnableTxactions, SetStatus, DeleteTxaction
  <1>2. ASSUME NEW i \in Imports, StartImport(i) \/ Empty(i)
        PROVE  /\ raced \subseteq raced' /\ revived \subseteq revived' /\ (crossed => crossed')
               /\ StartImport(i) \/ UNCHANGED raced
    BY <1>2 DEF StartImport, Empty
  <1>3. ASSUME NEW r, Undelete(r)
        PROVE  revived \subseteq revived' /\ UNCHANGED raced /\ UNCHANGED crossed
    BY <1>3 DEF Undelete
  <1>4. ASSUME NEW c, DestroyCred(c)
        PROVE  UNCHANGED <<raced, revived, crossed>>
    BY <1>4 DEF DestroyCred
  <1>5. QED BY <1>1, <1>2, <1>3, <1>4 DEF historyVars

Early == {"none", "find", "create"}

(* An import and a removal only go forward.                                *)
LEMMA Onwards ==
  ASSUME TypeOK, PlaceInv, [Next]_vars, NEW j \in Imports
  PROVE  /\ pc[j] # "none" => pc'[j] # "none" /\ number'[j] = number[j]
         /\ pc[j] \notin Early => pc'[j] \notin Early
         /\ target[j] # None => target'[j] = target[j]
         /\ UnderWay(j)' => UnderWay(j) \/ StartImport(j)
  <1> USE DEF Early, UnderWay
  <1>1. CASE UNCHANGED importVars
    BY <1>1 DEF importVars
  <1>2. ASSUME NEW i \in Imports, StartImport(i)
        PROVE  /\ pc[j] # "none" => pc'[j] # "none" /\ number'[j] = number[j]
               /\ pc[j] \notin Early => pc'[j] \notin Early
               /\ target'[j] = target[j]
               /\ i # j => pc'[j] = pc[j]
    BY <1>2 DEF StartImport, TypeOK
  <1>3. ASSUME NEW i \in Imports,
               FindAccount(i) \/ CreateAccount(i) \/ LinkUpload(i) \/ LoadTxactions(i)
                 \/ ReadCred(i) \/ Associate(i) \/ Die(i)
        PROVE  /\ pc[j] # "none" => pc'[j] # "none" /\ number'[j] = number[j]
               /\ pc[j] \notin Early => pc'[j] \notin Early
               /\ target[j] # None => target'[j] = target[j]
               /\ UnderWay(j)' => UnderWay(j)
    BY <1>3 DEF FindAccount, CreateAccount, LinkUpload, LoadTxactions, ReadCred, Associate, Die,
                TypeOK, PlaceInv
  <1>4. ASSUME NEW i \in Imports, SaveTxaction(i)
        PROVE  /\ pc[j] # "none" => pc'[j] # "none" /\ number'[j] = number[j]
               /\ pc[j] \notin Early => pc'[j] \notin Early
               /\ target'[j] = target[j]
               /\ UnderWay(j)' => UnderWay(j)
    BY <1>4 DEF SaveTxaction, TypeOK
  <1>5. QED BY <1>1, <1>2, <1>3, <1>4, ImportFrame DEF Import

LEMMA RemovalOnwards ==
  ASSUME TypeOK, [Next]_vars, NEW a \in Imports, removal[a] # "no"
  PROVE  removal'[a] # "no"
  <1>1. ASSUME NEW b \in Imports, Remove(b)
        PROVE  removal'[a] # "no"
    BY <1>1 DEF Remove, MarkDeleted, DeleteRows, Empty, Decide, DeleteAccount, DropCred, Kill, TypeOK
  <1>2. QED BY <1>1, RemovalFrame DEF removalVars

LEMMA GoneStaysGone ==
  ASSUME TypeOK, PlaceInv, [Next]_vars, NEW j \in Imports, uploads[j] = "gone"
  PROVE  uploads'[j] = "gone"
  BY UploadFrame DEF StartImport, LinkUpload, DeleteUpload, Empty, Linked, TypeOK, PlaceInv

LEMMA TrimmedStays ==
  ASSUME TypeOK, PlaceInv, [Next]_vars, NEW a \in Imports, Trimmed(a)
  PROVE  Trimmed(a)'
  <1>1. \A j \in Imports : target[j] = a => target'[j] = a
    BY Onwards, NoneAssumption
  <1>2. QED BY <1>1, RemovalOnwards, GoneStaysGone DEF Trimmed

(* Where the rows come from                                                *)
LEMMA RowOrigin ==
  ASSUME TypeOK, UniqueInv, PlaceInv, [Next]_vars
  PROVE  /\ rows' \in SUBSET Row /\ Unique(rows')
         /\ \A p \in rows' :
              \/ \E q \in rows : Same(p, q) /\ p.upload = q.upload
              \/ \E i \in Imports : SaveTxaction(i) /\ p.account = target[i] /\ p.upload = i
  <1>1. rows \in SUBSET Row /\ Unique(rows)
    BY DEF TypeOK, UniqueInv, Unique
  <1>2. CASE UNCHANGED rows
    BY <1>1, <1>2 DEF Same
  <1>3. ASSUME NEW r \in rows, DeleteTxaction(r) \/ Undelete(r)
        PROVE  rows' \in SUBSET Row /\ Unique(rows')
               /\ \A p \in rows' : \E q \in rows : Same(p, q) /\ p.upload = q.upload
    BY <1>3, DeleteTxactionRows, UndeleteRows DEF Stems
  <1>4. ASSUME NEW i \in Imports, DisableTxactions(i) \/ EnableTxactions(i) \/ DeleteRows(i)
        PROVE  rows' \in SUBSET Row /\ Unique(rows')
               /\ \A p \in rows' : \E q \in rows : Same(p, q) /\ p.upload = q.upload
    <2>1. CASE DisableTxactions(i)
      BY <2>1, DisableRows DEF Stems
    <2>2. CASE EnableTxactions(i)
      BY <2>2, EnableRows DEF Stems
    <2>3. CASE DeleteRows(i)
      BY <2>3, DeleteRowsRows DEF Stems
    <2>4. QED BY <1>4, <2>1, <2>2, <2>3
  <1>5. ASSUME NEW i \in Imports, DeleteUpload(i) \/ Empty(i) \/ DeleteAccount(i)
        PROVE  rows' \in SUBSET Row /\ Unique(rows')
               /\ \A p \in rows' : \E q \in rows : Same(p, q) /\ p.upload = q.upload
    BY <1>1, <1>5, FilterRows DEF Unique, Same
  <1>6. ASSUME NEW i \in Imports, SaveTxaction(i)
        PROVE  rows' \in SUBSET Row /\ Unique(rows')
               /\ \A p \in rows' :
                    \/ \E q \in rows : Same(p, q) /\ p.upload = q.upload
                    \/ p.account = target[i] /\ p.upload = i
    <2>1. PICK t \in todo[i] : pc[i] = "save" /\ (CreateTxaction(i, t) \/ UpdateTxaction(i, t))
      BY <1>6 DEF SaveTxaction
    <2>2. \A p \in rows' : p = New(i, t) \/ p \in rows \/ (p.account = target[i] /\ p.upload = i)
      BY <2>1, SaveRows
    <2>3. QED BY <2>1, <2>2, SaveRows DEF New, Same
  <1>7. QED BY <1>2, <1>3, <1>4, <1>5, <1>6, RowFrame DEF RowStep

(* What becomes of them                                                    *)
LEMMA RowKept ==
  ASSUME TypeOK, UniqueInv, PlaceInv, [Next]_vars, NEW q \in rows
  PROVE  (\E p \in rows' : Same(p, q)) \/ Trimmed(q.account)'
  <1>1. q \in Row /\ q.account \in Imports
    BY DEF TypeOK, Row
  <1>2. CASE UNCHANGED rows
    BY <1>2 DEF Same
  <1>3. ASSUME NEW r \in rows, DeleteTxaction(r) \/ Undelete(r)
        PROVE  \E p \in rows' : Same(p, q)
    BY <1>3, DeleteTxactionRows, UndeleteRows DEF Covers
  <1>4. ASSUME NEW i \in Imports, DisableTxactions(i) \/ EnableTxactions(i)
        PROVE  \E p \in rows' : Same(p, q)
    BY <1>4, DisableRows, EnableRows DEF Covers
  <1>5. ASSUME NEW i \in Imports, SaveTxaction(i)
        PROVE  \E p \in rows' : Same(p, q)
    BY <1>5, SaveRows DEF SaveTxaction, Covers
  <1>6. ASSUME NEW a \in Imports, DeleteRows(a) \/ Empty(a) \/ DeleteAccount(a)
        PROVE  (\E p \in rows' : Same(p, q)) \/ Trimmed(q.account)'
    <2>1. q.account = a \/ q \in rows'
      BY <1>6, DeleteRowsRows, FilterRows
    <2>2. removal'[a] # "no"
      BY <1>6 DEF DeleteRows, Empty, DeleteAccount, TypeOK
    <2>3. QED BY <2>1, <2>2 DEF Trimmed, Same
  <1>7. ASSUME NEW i \in Imports, DeleteUpload(i)
        PROVE  (\E p \in rows' : Same(p, q)) \/ Trimmed(q.account)'
    <2>1. q.account = target[i] \/ q \in rows'
      BY <1>7, FilterRows
    <2>2. uploads'[i] = "gone" /\ target' = target
      BY <1>7 DEF DeleteUpload, TypeOK, importVars
    <2>3. QED BY <2>1, <2>2 DEF Trimmed, Same
  <1>8. QED BY <1>2, <1>3, <1>4, <1>5, <1>6, <1>7, RowFrame DEF RowStep

-----------------------------------------------------------------------------
(* The parts of the inductive invariant                                    *)

LEMMA TypeStep ==
  ASSUME TypeOK, UniqueInv, PlaceInv, [Next]_vars
  PROVE  TypeOK'
  <1>1. rows' \subseteq Row
    BY RowOrigin
  <1>2. accounts' \in [Imports -> Account \cup {None}]
    <2>1. ASSUME NEW i \in Imports, CreateAccount(i)
          PROVE  accounts' \in [Imports -> Account \cup {None}]
      <3>1. number[i] \in Numbers
        BY <2>1 DEF CreateAccount, TypeOK, PlaceInv
      <3>2. [number |-> number[i], status |-> "active", cred |-> None] \in Account
        BY <3>1 DEF Account, Statuses
      <3>3. QED BY <2>1, <3>2 DEF CreateAccount, TypeOK
    <2>2. ASSUME NEW a \in Imports, MarkDeleted(a) \/ Decide(a)
          PROVE  accounts' \in [Imports -> Account \cup {None}]
      <3>1. accounts[a] \in Account
        BY <2>2 DEF MarkDeleted, Visible, Exists, Decide, TypeOK, PlaceInv
      <3>2. \A s \in Statuses : [accounts[a] EXCEPT !.status = s] \in Account
        BY <3>1 DEF Account
      <3>3. QED BY <2>2, <3>2 DEF MarkDeleted, Decide, TypeOK, Statuses
    <2>3. ASSUME NEW a \in Imports, DeleteAccount(a)
          PROVE  accounts' \in [Imports -> Account \cup {None}]
      BY <2>3 DEF DeleteAccount, TypeOK
    <2>4. ASSUME NEW i \in Imports, Associate(i)
          PROVE  accounts' \in [Imports -> Account \cup {None}]
      <3>1. accounts[target[i]] # None => [accounts[target[i]] EXCEPT !.cred = job[i]] \in Account
        BY <2>4, NoneAssumption DEF Associate, PlaceInv, TypeOK, Account
      <3>2. QED BY <2>4, <3>1 DEF Associate, TypeOK
    <2>5. QED BY <2>1, <2>2, <2>3, <2>4, AccountFrame DEF AccountStep, TypeOK
  <1>3. uploads' \in [Imports -> {"none", "linked", "kept", "gone"}]
    BY UploadFrame DEF StartImport, LinkUpload, DeleteUpload, Empty, TypeOK
  <1>4. creds' \subseteq Creds /\ revoked' \subseteq Creds
    BY CredFrame DEF DestroyCred, DropCred, historyVars, TypeOK
  <1>5. /\ pc' \in [Imports -> {"none", "find", "create", "link", "load", "save", "reload",
                                "associate", "done", "failed"}]
        /\ number' \in [Imports -> Numbers \cup {None}]
        /\ statement' \in [Imports -> SUBSET Txids]
        /\ job' \in [Imports -> Creds \cup {None}]
        /\ target' \in [Imports -> Imports \cup {None}]
        /\ known' \in [Imports -> SUBSET Txids]
        /\ todo' \in [Imports -> SUBSET Txids]
    <2> DEFINE Typed == /\ pc' \in [Imports -> {"none", "find", "create", "link", "load", "save",
                                                "reload", "associate", "done", "failed"}]
                        /\ number' \in [Imports -> Numbers \cup {None}]
                        /\ statement' \in [Imports -> SUBSET Txids]
                        /\ job' \in [Imports -> Creds \cup {None}]
                        /\ target' \in [Imports -> Imports \cup {None}]
                        /\ known' \in [Imports -> SUBSET Txids]
                        /\ todo' \in [Imports -> SUBSET Txids]
    <2>1. ASSUME NEW i \in Imports, StartImport(i)
          PROVE  Typed
      BY <2>1 DEF StartImport, TypeOK
    <2>2. ASSUME NEW i \in Imports, FindAccount(i) \/ CreateAccount(i) \/ LinkUpload(i)
          PROVE  Typed
      BY <2>2 DEF FindAccount, Found, CreateAccount, LinkUpload, TypeOK
    <2>3. ASSUME NEW i \in Imports, LoadTxactions(i)
          PROVE  Typed
      BY <2>3 DEF LoadTxactions, TypeOK
    <2>4. ASSUME NEW i \in Imports, SaveTxaction(i)
          PROVE  Typed
      BY <2>4 DEF SaveTxaction, TypeOK
    <2>5. ASSUME NEW i \in Imports, ReadCred(i)
          PROVE  Typed
      BY <2>5 DEF ReadCred, TypeOK
    <2>6. ASSUME NEW i \in Imports, Associate(i) \/ Die(i)
          PROVE  Typed
      BY <2>6 DEF Associate, Die, TypeOK
    <2>7. CASE UNCHANGED importVars
      BY <2>7 DEF importVars, TypeOK
    <2>8. QED BY <2>1, <2>2, <2>3, <2>4, <2>5, <2>6, <2>7, ImportFrame DEF Import
  <1>6. /\ removal' \in [Imports -> {"no", "marked", "stuck", "queued", "emptied", "last", "plain",
                                     "dropping", "kept", "done", "dead"}]
        /\ held' \in [Imports -> Creds \cup {None}]
        /\ doomed' \in [Imports -> SUBSET Imports]
    <2> DEFINE Typed == /\ removal' \in [Imports -> {"no", "marked", "stuck", "queued", "emptied",
                                                     "last", "plain", "dropping", "kept", "done", "dead"}]
                        /\ held' \in [Imports -> Creds \cup {None}]
                        /\ doomed' \in [Imports -> SUBSET Imports]
    <2>1. ASSUME NEW a \in Imports, MarkDeleted(a) \/ DeleteRows(a)
          PROVE  Typed
      BY <2>1 DEF MarkDeleted, DeleteRows, TypeOK
    <2>2. ASSUME NEW a \in Imports, Empty(a)
          PROVE  Typed
      <3>1. accounts[a] \in Account
        BY <2>2 DEF Empty, Visible, Exists, TypeOK, PlaceInv
      <3>2. accounts[a].cred \in Creds \cup {None} /\ Linked(a) \in SUBSET Imports
        BY <3>1 DEF Account, Linked
      <3>3. QED BY <2>2, <3>2 DEF Empty, TypeOK
    <2>3. ASSUME NEW a \in Imports, Decide(a) \/ DeleteAccount(a) \/ DropCred(a) \/ Kill(a)
          PROVE  Typed
      BY <2>3 DEF Decide, DeleteAccount, DropCred, Kill, Forget, TypeOK
    <2>4. CASE UNCHANGED removalVars
      BY <2>4 DEF removalVars, TypeOK
    <2>5. QED BY <2>1, <2>2, <2>3, <2>4, RemovalFrame DEF Remove
  <1>7. raced' \subseteq Numbers /\ revived' \subseteq Numbers /\ crossed' \in BOOLEAN
    <2>1. \/ \E i \in Imports : StartImport(i) \/ Empty(i)
          \/ \E r \in rows : Undelete(r)
          \/ \E c \in creds : DestroyCred(c)
          \/ UNCHANGED <<raced, revived, crossed>>
      BY DEF Next, vars, historyVars, Edit, Import, Remove, FindAccount, CreateAccount, LinkUpload,
             LoadTxactions, SaveTxaction, ReadCred, Associate, Die, MarkDeleted, DeleteRows, Decide,
             DeleteAccount, Kill, DropCred, DeleteUpload, DisableTxactions, EnableTxactions, SetStatus,
             DeleteTxaction
    <2>2. ASSUME NEW i \in Imports, StartImport(i) \/ Empty(i)
          PROVE  raced' \subseteq Numbers /\ revived' \subseteq Numbers /\ crossed' \in BOOLEAN
      BY <2>2 DEF StartImport, Empty, TypeOK
    <2>3. ASSUME NEW r \in rows, Undelete(r)
          PROVE  raced' \subseteq Numbers /\ revived' \subseteq Numbers /\ crossed' \in BOOLEAN
      <3>1. r.account \in Imports /\ number[r.account] \in Numbers
        BY <2>3 DEF Undelete, Exists, PlaceInv, TypeOK, Row
      <3>2. QED BY <2>3, <3>1 DEF Undelete, TypeOK
    <2>4. ASSUME NEW c, DestroyCred(c)
          PROVE  raced' \subseteq Numbers /\ revived' \subseteq Numbers /\ crossed' \in BOOLEAN
      BY <2>4 DEF DestroyCred, TypeOK
    <2>5. QED BY <2>1, <2>2, <2>3, <2>4 DEF TypeOK
  <1>8. QED BY <1>1, <1>2, <1>3, <1>4, <1>5, <1>6, <1>7 DEF TypeOK

LEMMA UniqueStep ==
  ASSUME TypeOK, UniqueInv, PlaceInv, [Next]_vars
  PROVE  UniqueInv'
  BY RowOrigin DEF Unique, UniqueInv

(* An account goes by DeleteAccount only.                                 *)
LEMMA ExistsStays ==
  ASSUME TypeOK, PlaceInv, [Next]_vars, NEW a \in Imports, Exists(a), ~DeleteAccount(a)
  PROVE  Exists(a)'
  <1>1. accounts[a] # None /\ accounts[a] \in Account
    BY DEF Exists, TypeOK
  <1>2. ASSUME NEW i \in Imports, CreateAccount(i)
        PROVE  accounts'[a] # None
    <2>1. a # i
      BY <1>2 DEF Exists, CreateAccount, PlaceInv
    <2>2. QED BY <1>1, <1>2, <2>1 DEF CreateAccount, TypeOK
  <1>3. ASSUME NEW i \in Imports, MarkDeleted(i) \/ Decide(i)
        PROVE  accounts'[a] # None
    <2>1. \A x \in Account, z \in Statuses : [x EXCEPT !.status = z] # None
      BY NoneAssumption DEF Account
    <2>2. QED BY <1>1, <1>3, <2>1 DEF MarkDeleted, Decide, TypeOK, Statuses
  <1>4. ASSUME NEW i \in Imports, Associate(i)
        PROVE  accounts'[a] # None
    <2>1. target[i] \in Imports /\ job[i] \in Creds \cup {None}
      BY <1>4 DEF Associate, TypeOK, PlaceInv
    <2>2. \A x \in Account, z \in Creds \cup {None} : [x EXCEPT !.cred = z] # None
      BY NoneAssumption DEF Account
    <2>3. QED BY <1>1, <1>4, <2>1, <2>2 DEF Associate, TypeOK
  <1>5. ASSUME NEW i \in Imports, DeleteAccount(i)
        PROVE  accounts'[a] # None
    BY <1>1, <1>5 DEF DeleteAccount, TypeOK
  <1>6. QED BY <1>1, <1>2, <1>3, <1>4, <1>5, AccountFrame DEF AccountStep, Exists

LEMMA PlaceStep ==
  ASSUME TypeOK, UniqueInv, PlaceInv, [Next]_vars
  PROVE  PlaceInv'
  <1>1. ASSUME NEW j \in Imports, pc'[j] \in {"none", "find", "create", "link"}
        PROVE  uploads'[j] \in {"none", "kept"}
    <2>1. pc[j] \in {"none", "find", "create", "link"}
      <3>1. ASSUME NEW i \in Imports, Import(i)
            PROVE  pc[j] \in {"none", "find", "create", "link"}
        BY <1>1, <3>1 DEF Import, StartImport, FindAccount, CreateAccount, LinkUpload, LoadTxactions,
                          SaveTxaction, ReadCred, Associate, Die, TypeOK
      <3>2. QED BY <1>1, <3>1, ImportFrame DEF importVars
    <2>2. uploads[j] \in {"none", "kept"}
      BY <2>1 DEF PlaceInv
    <2>3. ASSUME NEW i \in Imports, StartImport(i) \/ LinkUpload(i) \/ DeleteUpload(i) \/ Empty(i)
          PROVE  uploads'[j] \in {"none", "kept"}
      BY <1>1, <2>2, <2>3 DEF StartImport, LinkUpload, DeleteUpload, Empty, Linked, TypeOK
    <2>4. QED BY <2>2, <2>3, UploadFrame
  <1>2. ASSUME NEW j \in Imports
        PROVE  /\ pc'[j] \in Early => target'[j] = None
               /\ pc'[j] \in {"link", "load", "save", "reload", "associate", "done"} => target'[j] # None
               /\ pc'[j] # "none" => number'[j] # None
               /\ pc'[j] = "none" => todo'[j] = {}
               /\ todo'[j] \subseteq statement'[j] /\ known'[j] \subseteq todo'[j]
    <2> DEFINE Placed ==
          /\ pc'[j] \in Early => target'[j] = None
          /\ pc'[j] \in {"link", "load", "save", "reload", "associate", "done"} => target'[j] # None
          /\ pc'[j] # "none" => number'[j] # None
          /\ pc'[j] = "none" => todo'[j] = {}
          /\ todo'[j] \subseteq statement'[j] /\ known'[j] \subseteq todo'[j]
    <2> USE DEF Early
    <2>1. ASSUME NEW i \in Imports, StartImport(i)
          PROVE  Placed
      <3>1. pc[i] = "none" /\ target' = target /\ todo' = todo /\ known' = known
        BY <2>1 DEF StartImport
      <3>2. PICK n \in Numbers, T \in SUBSET Txids \ {{}} :
              number' = [number EXCEPT ![i] = n] /\ statement' = [statement EXCEPT ![i] = T]
        BY <2>1 DEF StartImport
      <3>3. pc' = [pc EXCEPT ![i] = "find"]
        BY <2>1 DEF StartImport
      <3>4. CASE i = j
        <4>1. pc'[j] = "find" /\ number'[j] = n /\ target'[j] = None
          BY <3>1, <3>2, <3>3, <3>4 DEF TypeOK, PlaceInv
        <4>2. todo[j] = {} /\ known[j] = {}
          BY <3>1, <3>4 DEF PlaceInv
        <4>3. QED BY <3>1, <4>1, <4>2, NoneAssumption
      <3>5. CASE i # j
        BY <3>1, <3>2, <3>3, <3>5 DEF TypeOK, PlaceInv
      <3>6. QED BY <3>4, <3>5
    <2>2. ASSUME NEW i \in Imports, FindAccount(i) \/ CreateAccount(i) \/ LinkUpload(i)
          PROVE  Placed
      BY <2>2, NoneAssumption DEF FindAccount, Found, CreateAccount, LinkUpload, TypeOK, PlaceInv
    <2>3. ASSUME NEW i \in Imports, LoadTxactions(i)
          PROVE  Placed
      BY <2>3 DEF LoadTxactions, TypeOK, PlaceInv
    <2>4. ASSUME NEW i \in Imports, SaveTxaction(i)
          PROVE  Placed
      BY <2>4 DEF SaveTxaction, TypeOK, PlaceInv
    <2>5. ASSUME NEW i \in Imports, ReadCred(i) \/ Associate(i) \/ Die(i)
          PROVE  Placed
      <3>1. CASE ReadCred(i)
        BY <3>1 DEF ReadCred, TypeOK, PlaceInv
      <3>2. CASE Associate(i)
        BY <3>2 DEF Associate, TypeOK, PlaceInv
      <3>3. CASE Die(i)
        BY <3>3 DEF Die, TypeOK, PlaceInv, UnderWay
      <3>4. QED BY <2>5, <3>1, <3>2, <3>3
    <2>6. CASE UNCHANGED importVars
      BY <2>6 DEF importVars, PlaceInv
    <2>7. QED BY <2>1, <2>2, <2>3, <2>4, <2>5, <2>6, ImportFrame DEF Import
  <1>3. ASSUME NEW j \in Imports, target'[j] # None
        PROVE  number'[target'[j]] = number'[j] /\ pc'[target'[j]] \notin Early
    <2>1. CASE target[j] # None
      <3>1. target[j] \in Imports /\ number[target[j]] = number[j] /\ pc[target[j]] \notin Early
        BY <2>1 DEF TypeOK, PlaceInv, Early
      <3>2. pc[j] # "none" /\ pc[target[j]] # "none"
        BY <2>1, <3>1 DEF PlaceInv, Early
      <3>3. QED BY <2>1, <3>1, <3>2, Onwards
    <2>2. CASE target[j] = None
      <3>1. ASSUME NEW i \in Imports, FindAccount(i)
            PROVE  number'[target'[j]] = number'[j] /\ pc'[target'[j]] \notin Early
        <4>1. target' # target
          BY <1>3, <2>2
        <4>2. PICK a \in Found(i) : pc' = [pc EXCEPT ![i] = "link"] /\ target' = [target EXCEPT ![i] = a]
          BY <3>1, <4>1 DEF FindAccount
        <4>3. i = j /\ target'[j] = a /\ number' = number
          BY <1>3, <2>2, <3>1, <4>2 DEF FindAccount, TypeOK
        <4>4. a \in Imports /\ number[a] = number[i] /\ pc[a] \notin Early
          BY <4>2 DEF Found, Visible, PlaceInv, Early
        <4>5. QED BY <4>3, <4>4, Onwards
      <3>2. ASSUME NEW i \in Imports, CreateAccount(i)
            PROVE  number'[target'[j]] = number'[j] /\ pc'[target'[j]] \notin Early
        BY <1>3, <2>2, <3>2 DEF CreateAccount, TypeOK, Early
      <3>3. ASSUME NEW i \in Imports, Import(i), ~FindAccount(i), ~CreateAccount(i)
            PROVE  target' = target
        BY <3>3 DEF Import, StartImport, LinkUpload, LoadTxactions, SaveTxaction, ReadCred, Associate, Die
      <3>4. QED BY <1>3, <2>2, <3>1, <3>2, <3>3, ImportFrame DEF importVars
    <2>3. QED BY <2>1, <2>2
  <1>4. ASSUME NEW a \in Imports, Exists(a)'
        PROVE  accounts'[a].number = number'[a] /\ pc'[a] \notin Early
    <2>1. CASE Exists(a) /\ accounts'[a].number = accounts[a].number
      BY <2>1, Onwards DEF PlaceInv, Early
    <2>2. ASSUME NEW i \in Imports, CreateAccount(i)
          PROVE  accounts'[a].number = number'[a] /\ pc'[a] \notin Early
      <3>1. CASE a = i
        BY <2>2, <3>1 DEF CreateAccount, TypeOK, Early
      <3>2. CASE a # i
        BY <1>4, <2>1, <2>2, <3>2 DEF CreateAccount, TypeOK, Exists
      <3>3. QED BY <3>1, <3>2
    <2>3. ASSUME NEW i \in Imports, Associate(i) \/ MarkDeleted(i) \/ Decide(i) \/ DeleteAccount(i)
          PROVE  Exists(a) /\ accounts'[a].number = accounts[a].number
      <3>1. \A b \in Imports : Exists(b) => accounts[b] \in Account
        BY DEF TypeOK, Exists
      <3>2. QED BY <1>4, <2>3, <3>1 DEF Associate, MarkDeleted, Visible, Decide, DeleteAccount, Exists,
                                        TypeOK, Account, PlaceInv
    <2>4. QED BY <1>4, <2>1, <2>2, <2>3, AccountFrame DEF AccountStep, Exists
  <1>5. ASSUME NEW p \in rows'
        PROVE  target'[p.upload] = p.account
    <2>1. p \in Row
      BY RowOrigin
    <2>2. target[p.upload] = p.account
      BY RowOrigin DEF PlaceInv, Same
    <2>3. p.upload \in Imports /\ p.account \in Imports
      BY <2>1 DEF Row
    <2>4. QED BY <2>2, <2>3, Onwards, NoneAssumption
  <1>6. ASSUME NEW a \in Imports
        PROVE  /\ removal'[a] \in {"marked", "queued", "emptied", "last", "plain"} => Exists(a)'
               /\ removal'[a] # "no" => pc'[a] \notin Early
    <2>1. ASSUME removal'[a] \in {"marked", "queued", "emptied", "last", "plain"}
          PROVE  Exists(a) /\ ~DeleteAccount(a)
      <3>1. ASSUME NEW b \in Imports, Remove(b)
            PROVE  Exists(a) /\ ~DeleteAccount(a)
        BY <2>1, <3>1 DEF Remove, MarkDeleted, Visible, DeleteRows, Empty, Decide, DeleteAccount, DropCred,
                          Kill, TypeOK, PlaceInv
      <3>2. QED BY <2>1, <3>1, RemovalFrame DEF removalVars, PlaceInv, DeleteAccount, TypeOK
    <2>2. Exists(a) /\ ~DeleteAccount(a) => Exists(a)'
      BY ExistsStays
    <2>3. removal'[a] # "no" => pc'[a] \notin Early
      <3>1. CASE removal[a] # "no"
        BY <3>1, Onwards DEF PlaceInv, Early
      <3>2. CASE Exists(a)
        BY <3>2, Onwards DEF PlaceInv, Early
      <3>3. ASSUME NEW b \in Imports, Remove(b), removal[a] = "no", removal'[a] # "no"
            PROVE  Exists(a)
        <4>1. b = a
          BY <3>3 DEF Remove, MarkDeleted, DeleteRows, Empty, Decide, DeleteAccount, DropCred, Kill, TypeOK
        <4>2. MarkDeleted(a) \/ Empty(a)
          BY <3>3, <4>1 DEF Remove, DeleteRows, Decide, DeleteAccount, DropCred, Kill, Removing
        <4>3. QED BY <3>3, <4>2 DEF MarkDeleted, Empty, Visible
      <3>4. QED BY <3>1, <3>2, <3>3, RemovalFrame DEF removalVars
    <2>4. QED BY <2>1, <2>2, <2>3
  <1>7. QED BY <1>1, <1>2, <1>3, <1>4, <1>5, <1>6 DEF PlaceInv, Early

LEMMA RacedStep ==
  ASSUME TypeOK, PlaceInv, RacedInv, [Next]_vars
  PROVE  RacedInv'
  <1> SUFFICES ASSUME NEW i \in Imports, NEW j \in Imports, i # j, UnderWay(i)', UnderWay(j)',
                      number'[i] = number'[j]
               PROVE  number'[i] \in raced'
    BY DEF RacedInv
  <1>1. ASSUME NEW k \in Imports, NEW l \in Imports, k # l, StartImport(k), UnderWay(l)',
               number'[k] = number'[l]
        PROVE  number'[k] \in raced'
    <2>1. PICK n \in Numbers :
            /\ number' = [number EXCEPT ![k] = n]
            /\ raced' = raced \cup {m \in {n} : \E x \in Imports : UnderWay(x) /\ number[x] = m}
      BY <1>1 DEF StartImport
    <2>2. number'[k] = n /\ number'[l] = number[l] /\ pc'[l] = pc[l]
      BY <1>1, <2>1 DEF StartImport, TypeOK
    <2>3. QED BY <1>1, <2>1, <2>2 DEF UnderWay
  <1>2. CASE StartImport(i)
    BY <1>1, <1>2
  <1>3. CASE StartImport(j)
    BY <1>1, <1>3
  <1>4. CASE ~StartImport(i) /\ ~StartImport(j)
    <2>1. UnderWay(i) /\ UnderWay(j)
      BY <1>4, Onwards
    <2>2. number'[i] = number[i] /\ number'[j] = number[j]
      BY <2>1, Onwards DEF UnderWay
    <2>3. QED BY <2>1, <2>2, HistoryFrame DEF RacedInv
  <1>5. QED BY <1>2, <1>3, <1>4

LEMMA KnownStep ==
  ASSUME TypeOK, UniqueInv, PlaceInv, RacedInv, KnownInv, [Next]_vars
  PROVE  KnownInv'
  <1> SUFFICES ASSUME NEW i \in Imports, number'[i] \notin raced' \cup revived'
               PROVE  /\ pc'[i] \in {"link", "load"} /\ target'[i] = i => RowsOf(i)' = {}
                      /\ pc'[i] = "save" =>
                           \A p \in rows' : p.account = target'[i] /\ p.txid \in todo'[i] \ known'[i]
                                            => p.status = "deleted"
    BY DEF KnownInv
  <1>1. ASSUME pc'[i] \in {"link", "load", "save"}
        PROVE  UnderWay(i) /\ number'[i] = number[i] /\ number[i] \notin raced \cup revived
    <2>1. ~StartImport(i)
      BY <1>1 DEF StartImport, TypeOK
    <2>2. UnderWay(i)
      BY <1>1, <2>1, Onwards DEF UnderWay
    <2>3. QED BY <2>2, Onwards, HistoryFrame DEF UnderWay
  <1>2. ASSUME NEW j \in Imports, j # i, UnderWay(j), pc'[i] \in {"link", "load", "save"}
        PROVE  number[j] # number[i]
    BY <1>1, <1>2 DEF RacedInv
  <1>3. ASSUME pc'[i] \in {"link", "load"}, target'[i] = i, NEW p \in rows', p.account = i
        PROVE  FALSE
    <2>1. pc[i] \in {"find", "create", "link", "load"}
      <3>1. ASSUME NEW j \in Imports, Import(j)
            PROVE  pc[i] \in {"find", "create", "link", "load"}
        BY <1>3, <3>1 DEF Import, StartImport, FindAccount, CreateAccount, LinkUpload, LoadTxactions,
                          SaveTxaction, ReadCred, Associate, Die, TypeOK
      <3>2. QED BY <1>3, <3>1, ImportFrame DEF importVars
    <2>2. RowsOf(i) = {}
      <3>1. CASE pc[i] \in {"find", "create"}
        BY <3>1, NoneAssumption DEF PlaceInv, RowsOf, TypeOK, Row
      <3>2. CASE pc[i] \in {"link", "load"}
        <4>1. target[i] = i
          BY <1>3, <3>2, Onwards DEF PlaceInv
        <4>2. QED BY <1>1, <1>3, <3>2, <4>1 DEF KnownInv
      <3>3. QED BY <2>1, <3>1, <3>2
    <2>3. PICK j \in Imports : SaveTxaction(j) /\ p.account = target[j]
      BY <1>3, <2>2, RowOrigin DEF RowsOf, Same
    <2>4. UnderWay(j) /\ j # i /\ number[j] = number[i]
      BY <1>3, <2>1, <2>3, NoneAssumption DEF SaveTxaction, UnderWay, PlaceInv
    <2>5. QED BY <1>2, <1>3, <2>4
  <1>4. ASSUME pc'[i] = "save", NEW p \in rows', p.account = target'[i], p.txid \in todo'[i] \ known'[i]
        PROVE  p.status = "deleted"
    <2>1. CASE LoadTxactions(i)
      <3>1. p \in rows /\ target'[i] = target[i] /\ p \in Row
        BY <2>1 DEF LoadTxactions, TypeOK
      <3>2. RowsOf(i) = {} \/ target[i] # i
        BY <1>1, <1>4, <2>1 DEF LoadTxactions, KnownInv
      <3>3. target[i] # i
        BY <1>4, <3>1, <3>2 DEF RowsOf
      <3>4. /\ known'[i] = {t \in statement[i] : \E r \in RowsOf(target[i]) :
                              r.txid = t /\ r.status # "deleted"}
            /\ todo'[i] = statement[i]
        BY <2>1, <3>3 DEF LoadTxactions, TypeOK
      <3>5. QED BY <1>4, <3>1, <3>4 DEF RowsOf
    <2>2. CASE pc[i] = "save"
      <3>1. target'[i] = target[i] /\ target[i] \in Imports /\ number[target[i]] = number[i]
        BY <2>2, Onwards DEF PlaceInv, TypeOK
      <3>2. \A q \in rows : q.account = target[i] /\ q.txid \in todo[i] \ known[i] => q.status = "deleted"
        BY <1>1, <1>4, <2>2 DEF KnownInv
      <3>3. todo'[i] \ known'[i] \subseteq todo[i] \ known[i]
        <4>1. ASSUME NEW j \in Imports, Import(j)
              PROVE  todo'[i] \ known'[i] \subseteq todo[i] \ known[i]
          <5>1. CASE j # i
            BY <4>1, <5>1 DEF Import, StartImport, FindAccount, CreateAccount, LinkUpload, LoadTxactions,
                              SaveTxaction, ReadCred, Associate, Die, TypeOK
          <5>2. CASE j = i
            <6>1. SaveTxaction(i)
              BY <1>4, <2>2, <4>1, <5>2 DEF Import, StartImport, FindAccount, CreateAccount, LinkUpload,
                                             LoadTxactions, ReadCred, Associate, Die, TypeOK
            <6>2. QED BY <6>1 DEF SaveTxaction, TypeOK
          <5>3. QED BY <5>1, <5>2
        <4>2. QED BY <4>1, ImportFrame DEF importVars
      <3>4. ASSUME p \in rows
            PROVE  p.status = "deleted"
        BY <1>4, <3>1, <3>2, <3>3, <3>4
      <3>5. ASSUME NEW R, NEW s, Stems(rows', rows, R, s), s # "deleted" => \A r \in R : r.status # "deleted"
            PROVE  p.status = "deleted"
        <4>1. PICK q \in rows : Same(p, q) /\ (p = q \/ (q \in R /\ p.status = s))
          BY <3>5 DEF Stems
        <4>2. q.status = "deleted"
          BY <1>4, <3>1, <3>2, <3>3, <4>1 DEF Same
        <4>3. QED BY <3>5, <4>1, <4>2
      <3>6. ASSUME NEW r \in rows, Undelete(r)
            PROVE  p.status = "deleted"
        <4>1. PICK q \in rows : Same(p, q) /\ (p = q \/ q = r)
          BY <3>6, UndeleteRows DEF Stems
        <4>2. ASSUME q = r
              PROVE  FALSE
          <5>1. r.account = target[i]
            BY <1>4, <3>1, <4>1, <4>2 DEF Same
          <5>2. number[i] \in revived'
            BY <1>1, <1>4, <3>1, <3>6, <5>1 DEF Undelete
          <5>3. QED BY <1>1, <1>4, <5>2
        <4>3. QED BY <3>4, <4>1, <4>2
      <3>7. ASSUME NEW r \in rows, DeleteTxaction(r)
            PROVE  p.status = "deleted"
        BY <3>5, <3>7, DeleteTxactionRows
      <3>8. ASSUME NEW a \in Imports, DisableTxactions(a) \/ EnableTxactions(a) \/ DeleteRows(a)
            PROVE  p.status = "deleted"
        <4>1. CASE DisableTxactions(a)
          BY <3>5, <4>1, DisableRows
        <4>2. CASE EnableTxactions(a)
          <5>1. Stems(rows', rows, {r \in RowsOf(a) : r.status = "disabled"}, "active")
            BY <4>2, EnableRows
          <5>2. QED BY <3>5, <5>1
        <4>3. CASE DeleteRows(a)
          BY <3>5, <4>3, DeleteRowsRows
        <4>4. QED BY <3>8, <4>1, <4>2, <4>3
      <3>9. ASSUME NEW a \in Imports, DeleteUpload(a) \/ Empty(a) \/ DeleteAccount(a)
            PROVE  p.status = "deleted"
        BY <3>4, <3>9, FilterRows
      <3>10. ASSUME NEW j \in Imports, SaveTxaction(j), j # i
             PROVE  p.status = "deleted"
        <4>1. PICK t \in todo[j] : pc[j] = "save" /\ (CreateTxaction(j, t) \/ UpdateTxaction(j, t))
          BY <3>10 DEF SaveTxaction
        <4>2. p = New(j, t) \/ p \in rows \/ p.account = target[j]
          BY <4>1, SaveRows
        <4>3. p \in rows \/ p.account = target[j]
          BY <4>2 DEF New
        <4>4. number[target[j]] = number[j] /\ UnderWay(j)
          BY <4>1 DEF PlaceInv, UnderWay
        <4>5. QED BY <1>2, <1>4, <3>1, <3>4, <3>10, <4>3, <4>4
      <3>11. CASE SaveTxaction(i)
        <4>1. PICK t \in todo[i] :
                /\ pc[i] = "save" /\ (CreateTxaction(i, t) \/ UpdateTxaction(i, t))
                /\ todo' = [todo EXCEPT ![i] = @ \ {t}]
          BY <3>11 DEF SaveTxaction
        <4>2. p.txid # t
          BY <1>4, <4>1 DEF TypeOK
        <4>3. \/ p = New(i, t)
              \/ p \in rows
              \/ \E q \in rows : Same(p, q) /\ p.status = q.status
          BY <4>1, SaveRows
        <4>4. \E q \in rows : Same(p, q) /\ p.status = q.status
          BY <4>2, <4>3 DEF New, Same
        <4>5. QED BY <1>4, <3>1, <3>2, <3>3, <4>4 DEF Same
      <3>12. QED BY <3>4, <3>6, <3>7, <3>8, <3>9, <3>10, <3>11, RowFrame DEF RowStep
    <2>3. pc[i] = "save" \/ LoadTxactions(i)
      <3>1. ASSUME NEW j \in Imports, Import(j), pc[i] # "save"
            PROVE  LoadTxactions(i)
        BY <1>4, <3>1 DEF Import, StartImport, FindAccount, CreateAccount, LinkUpload, LoadTxactions,
                          SaveTxaction, ReadCred, Associate, Die, TypeOK
      <3>2. QED BY <1>4, <3>1, ImportFrame DEF importVars
    <2>4. QED BY <2>1, <2>2, <2>3
  <1>5. QED BY <1>3, <1>4 DEF RowsOf

LEMMA VisibleStep ==
  ASSUME TypeOK, PlaceInv, [Next]_vars, NEW a \in Imports, Visible(a)'
  PROVE  /\ accounts'[a].number = number[a] /\ number'[a] = number[a]
         /\ CreateAccount(a) \/ (Visible(a) /\ accounts[a].number = number[a])
  <1>1. \A b \in Imports : Exists(b) => accounts[b] \in Account
    BY DEF TypeOK, Exists
  <1>2. CASE accounts' = accounts
    BY <1>2, Onwards DEF Visible, Exists, PlaceInv
  <1>3. ASSUME NEW i \in Imports, CreateAccount(i)
        PROVE  /\ accounts'[a].number = number[a]
               /\ CreateAccount(a) \/ (Visible(a) /\ accounts[a].number = number[a])
    BY <1>3 DEF CreateAccount, Visible, Exists, TypeOK, PlaceInv
  <1>4. ASSUME NEW i \in Imports, Associate(i)
        PROVE  Visible(a) /\ accounts'[a].number = accounts[a].number
    <2>1. accounts' = [accounts EXCEPT
            ![target[i]] = IF accounts[target[i]] = None THEN None
                           ELSE [accounts[target[i]] EXCEPT !.cred = job[i]]]
      BY <1>4 DEF Associate
    <2>2. \A x \in Account : \A c :
            [x EXCEPT !.cred = c].status = x.status /\ [x EXCEPT !.cred = c].number = x.number
      BY DEF Account
    <2>3. CASE a = target[i]
      BY <1>1, <2>1, <2>2, <2>3 DEF Visible, Exists, TypeOK
    <2>4. CASE a # target[i]
      BY <2>1, <2>4 DEF Visible, Exists, TypeOK
    <2>5. QED BY <2>3, <2>4
  <1>5. ASSUME NEW i \in Imports, MarkDeleted(i) \/ Decide(i) \/ DeleteAccount(i)
        PROVE  Visible(a) /\ accounts'[a].number = accounts[a].number
    <2>1. \A x \in Account, z \in {"deleted", "disabled"} : [x EXCEPT !.status = z].status # "active"
      BY DEF Account
    <2>2. CASE a = i
      <3>1. accounts[a] # None
        BY <1>5, <2>2 DEF MarkDeleted, Visible, Exists, Decide, DeleteAccount, PlaceInv
      <3>2. accounts[a] \in Account
        BY <3>1 DEF TypeOK
      <3>3. QED BY <1>5, <2>1, <2>2, <3>2 DEF MarkDeleted, Decide, DeleteAccount, Visible, Exists, TypeOK
    <2>3. CASE a # i
      BY <1>5, <2>3 DEF MarkDeleted, Decide, DeleteAccount, Visible, Exists, TypeOK
    <2>4. QED BY <2>2, <2>3
  <1>6. accounts'[a].number = number[a] /\ (CreateAccount(a) \/ (Visible(a) /\ accounts[a].number = number[a]))
    BY <1>2, <1>3, <1>4, <1>5, AccountFrame DEF AccountStep, PlaceInv, Visible
  <1>7. pc[a] # "none"
    BY <1>6 DEF CreateAccount, PlaceInv, Visible
  <1>8. QED BY <1>6, <1>7, Onwards

LEMMA CreateStep ==
  ASSUME TypeOK, PlaceInv, RacedInv, CreateInv, [Next]_vars
  PROVE  CreateInv'
  <1> SUFFICES ASSUME NEW i \in Imports, NEW a \in Imports, pc'[i] = "create",
                      number'[i] \notin raced', Visible(a)', accounts'[a].number = number'[i]
               PROVE  FALSE
    BY DEF CreateInv
  <1>1. number[a] = number'[i]
    BY VisibleStep
  <1>2. pc[i] = "create" \/ FindAccount(i)
    <2>1. ASSUME NEW j \in Imports, Import(j), pc[i] # "create"
          PROVE  FindAccount(i)
      BY <2>1 DEF Import, StartImport, FindAccount, CreateAccount, LinkUpload, LoadTxactions,
                  SaveTxaction, ReadCred, Associate, Die, TypeOK
    <2>2. QED BY <2>1, ImportFrame DEF importVars
  <1>3. UnderWay(i) /\ number'[i] = number[i] /\ number[i] \notin raced
    <2>1. UnderWay(i)
      BY <1>2 DEF FindAccount, UnderWay
    <2>2. QED BY <2>1, Onwards, HistoryFrame DEF UnderWay
  <1>4. CASE CreateAccount(a)
    <2>1. a # i /\ UnderWay(a)
      BY <1>4 DEF CreateAccount, UnderWay, TypeOK
    <2>2. QED BY <1>1, <1>3, <2>1 DEF RacedInv
  <1>5. CASE Visible(a) /\ accounts[a].number = number[a]
    <2>1. CASE pc[i] = "create"
      BY <1>1, <1>3, <1>5, <2>1 DEF CreateInv
    <2>2. CASE FindAccount(i)
      <3>1. a \in Found(i)
        BY <1>1, <1>3, <1>5 DEF Found
      <3>2. pc'[i] = "link"
        BY <2>2, <3>1 DEF FindAccount, TypeOK
      <3>3. QED BY <3>2
    <2>3. QED BY <1>2, <2>1, <2>2
  <1>6. QED BY <1>4, <1>5, VisibleStep

LEMMA OneAccountStep ==
  ASSUME TypeOK, PlaceInv, CreateInv, OneAccountPerNumber, [Next]_vars
  PROVE  OneAccountPerNumber'
  <1> SUFFICES ASSUME NEW a \in Imports, NEW b \in Imports, Visible(a)', Visible(b)',
                      accounts'[a].number = accounts'[b].number, a # b,
                      accounts'[a].number \notin raced'
               PROVE  FALSE
    BY DEF OneAccountPerNumber
  <1>1. number[a] = number[b] /\ number[a] \notin raced
    BY VisibleStep, HistoryFrame
  <1>2. ASSUME NEW x \in Imports, NEW y \in Imports, x # y, CreateAccount(x), Visible(y)', number[x] = number[y],
               number[x] \notin raced
        PROVE  FALSE
    <2>1. ~CreateAccount(y)
      <3>1. accounts[y] = None /\ CreateAccount(y) => accounts' = [accounts EXCEPT ![x] = accounts'[x]]
        BY <1>2 DEF CreateAccount, TypeOK
      <3>2. pc'[y] = pc[y]
        BY <1>2 DEF CreateAccount, TypeOK
      <3>3. QED BY <3>2 DEF CreateAccount, TypeOK
    <2>2. Visible(y) /\ accounts[y].number = number[y]
      BY <1>2, <2>1, VisibleStep
    <2>3. QED BY <1>2, <2>2 DEF CreateInv, CreateAccount
  <1>3. CASE CreateAccount(a)
    BY <1>1, <1>2, <1>3
  <1>4. CASE CreateAccount(b)
    BY <1>1, <1>2, <1>4
  <1>5. CASE Visible(a) /\ Visible(b) /\ accounts[a].number = number[a] /\ accounts[b].number = number[b]
    BY <1>1, <1>5 DEF OneAccountPerNumber
  <1>6. QED BY <1>3, <1>4, <1>5, VisibleStep

LEMMA SavedOne ==
  ASSUME TypeOK, UniqueInv, PlaceInv, SavedInv, [Next]_vars,
         NEW i \in Imports, NEW a \in Imports, pc'[i] = "save", target'[i] = a, ~Trimmed(a)',
         NEW t \in (statement'[i] \ todo'[i]) \cup known'[i]
  PROVE  \E p \in rows' : p.account = a /\ p.txid = t
  <1>1. pc[i] = "save" \/ LoadTxactions(i)
    <2>1. ASSUME NEW j \in Imports, Import(j), pc[i] # "save"
          PROVE  LoadTxactions(i)
      BY <2>1 DEF Import, StartImport, FindAccount, CreateAccount, LinkUpload, LoadTxactions,
                  SaveTxaction, ReadCred, Associate, Die, TypeOK
    <2>2. QED BY <2>1, ImportFrame DEF importVars
  <1>2. target[i] = a
    BY <1>1, Onwards DEF PlaceInv, LoadTxactions
  <1>3. CASE LoadTxactions(i)
    <2>1. t \in known'[i] /\ rows' = rows
      BY <1>3 DEF LoadTxactions, TypeOK
    <2>2. QED BY <1>2, <1>3, <2>1, NoneAssumption DEF LoadTxactions, TypeOK, RowsOf
  <1>4. CASE pc[i] = "save"
    <2>1. ~Trimmed(a)
      BY TrimmedStays
    <2>2. \A x \in (statement[i] \ todo[i]) \cup known[i] : \E q \in rows : q.account = a /\ q.txid = x
      BY <1>2, <1>4, <2>1 DEF SavedInv
    <2>3. ASSUME NEW q \in rows, q.account = a, q.txid = t
          PROVE  \E p \in rows' : p.account = a /\ p.txid = t
      BY <2>3, RowKept DEF Same
    <2>4. CASE t \in (statement[i] \ todo[i]) \cup known[i]
      BY <2>2, <2>3, <2>4
    <2>5. CASE t \notin (statement[i] \ todo[i]) \cup known[i]
      <3>1. SaveTxaction(i)
        <4>1. ASSUME NEW j \in Imports, Import(j), ~SaveTxaction(i)
              PROVE  statement'[i] = statement[i] /\ todo'[i] = todo[i] /\ known'[i] = known[i]
          <5>1. CASE j # i
            BY <4>1, <5>1 DEF Import, StartImport, FindAccount, CreateAccount, LinkUpload, LoadTxactions,
                              SaveTxaction, ReadCred, Associate, Die, TypeOK
          <5>2. CASE j = i
            BY <1>4, <4>1, <5>2 DEF Import, StartImport, FindAccount, CreateAccount, LinkUpload,
                                     LoadTxactions, ReadCred, Associate, Die, TypeOK
          <5>3. QED BY <5>1, <5>2
        <4>2. QED BY <2>5, <4>1, ImportFrame DEF importVars
      <3>2. PICK x \in todo[i] : /\ CreateTxaction(i, x) \/ UpdateTxaction(i, x)
                                 /\ todo' = [todo EXCEPT ![i] = @ \ {x}]
                                 /\ known' = [known EXCEPT ![i] = @ \ {x}]
                                 /\ statement' = statement
        BY <3>1 DEF SaveTxaction
      <3>3. t = x
        BY <2>5, <3>2 DEF TypeOK
      <3>4. QED BY <1>2, <1>4, <2>5, <3>2, <3>3, SaveRows
    <2>6. QED BY <2>4, <2>5
  <1>5. QED BY <1>1, <1>3, <1>4

LEMMA SavedStep ==
  ASSUME TypeOK, UniqueInv, PlaceInv, SavedInv, [Next]_vars
  PROVE  SavedInv'
  <1>1. \A i \in Imports : pc'[i] = "save" => target'[i] \in Imports
    BY TypeStep, PlaceStep DEF TypeOK, PlaceInv
  <1>2. \A i, a \in Imports : pc'[i] = "save" /\ target'[i] = a =>
          \/ Trimmed(a)'
          \/ \A t \in (statement'[i] \ todo'[i]) \cup known'[i] :
               \E p \in rows' : p.account = a /\ p.txid = t
    BY SavedOne
  <1>3. QED BY <1>1, <1>2 DEF SavedInv, Trimmed

LEMMA ImportedOne ==
  ASSUME TypeOK, UniqueInv, PlaceInv, SavedInv, ImportedKept, [Next]_vars,
         NEW i \in Imports, NEW a \in Imports, pc'[i] \in {"reload", "associate", "done"},
         target'[i] = a, ~Trimmed(a)', NEW t \in statement'[i]
  PROVE  \E p \in rows' : p.account = a /\ p.txid = t
  <1>1. pc[i] \in {"reload", "associate", "done"} \/ SaveTxaction(i)
    <2>1. ASSUME NEW j \in Imports, Import(j), ~SaveTxaction(i)
          PROVE  pc[i] \in {"reload", "associate", "done"}
      BY <2>1 DEF Import, StartImport, FindAccount, CreateAccount, LinkUpload, LoadTxactions,
                  SaveTxaction, ReadCred, Associate, Die, TypeOK
    <2>2. QED BY <2>1, ImportFrame DEF importVars
  <1>2. target[i] = a
    BY <1>1, Onwards DEF PlaceInv, SaveTxaction
  <1>3. ~Trimmed(a)
    BY TrimmedStays
  <1>4. ASSUME NEW q \in rows, q.account = a, q.txid = t
        PROVE  \E p \in rows' : p.account = a /\ p.txid = t
    BY <1>4, RowKept DEF Same
  <1>5. CASE pc[i] \in {"reload", "associate", "done"}
    <2>1. statement'[i] = statement[i]
      <3>1. ASSUME NEW j \in Imports, Import(j)
            PROVE  statement'[i] = statement[i]
        <4>1. CASE StartImport(j)
          <5>1. j # i
            BY <1>5, <4>1 DEF StartImport
          <5>2. QED BY <4>1, <5>1 DEF StartImport, TypeOK
        <4>2. CASE Die(j)
          BY <4>2 DEF Die, TypeOK
        <4>3. CASE ~StartImport(j) /\ ~Die(j)
          BY <3>1, <4>3 DEF Import, FindAccount, CreateAccount, LinkUpload, LoadTxactions,
                            SaveTxaction, ReadCred, Associate
        <4>4. QED BY <4>1, <4>2, <4>3
      <3>2. QED BY <3>1, ImportFrame DEF importVars
    <2>2. QED BY <1>2, <1>3, <1>4, <1>5, <2>1 DEF ImportedKept, Trimmed
  <1>6. CASE SaveTxaction(i)
    <2>1. PICK x \in todo[i] : /\ pc[i] = "save" /\ (CreateTxaction(i, x) \/ UpdateTxaction(i, x))
                               /\ pc' = [pc EXCEPT ![i] = IF todo[i] = {x} THEN "reload" ELSE @]
                               /\ statement' = statement
      BY <1>6 DEF SaveTxaction
    <2>2. todo[i] = {x}
      BY <2>1 DEF TypeOK
    <2>3. CASE t = x /\ x \notin known[i]
      BY <1>2, <2>1, <2>3, SaveRows
    <2>4. CASE t # x \/ x \in known[i]
      <3>1. t \in (statement[i] \ todo[i]) \cup known[i]
        BY <2>1, <2>2, <2>4
      <3>2. QED BY <1>2, <1>3, <1>4, <2>1, <3>1 DEF SavedInv
    <2>5. QED BY <2>3, <2>4
  <1>7. QED BY <1>1, <1>5, <1>6

LEMMA ImportedStep ==
  ASSUME TypeOK, UniqueInv, PlaceInv, SavedInv, ImportedKept, [Next]_vars
  PROVE  ImportedKept'
  <1>1. \A i \in Imports : pc'[i] \in {"reload", "associate", "done"} => target'[i] \in Imports
    BY TypeStep, PlaceStep DEF TypeOK, PlaceInv
  <1>2. \A i, a \in Imports : pc'[i] \in {"reload", "associate", "done"} /\ target'[i] = a =>
          \/ Trimmed(a)'
          \/ \A t \in statement'[i] : \E p \in rows' : p.account = a /\ p.txid = t
    BY ImportedOne
  <1>3. QED BY <1>1, <1>2 DEF ImportedKept, Trimmed

LEMMA DisabledStep ==
  ASSUME TypeOK, UniqueInv, PlaceInv, KnownInv, DisabledStay, [Next]_vars
  PROVE  DisabledStay'
  <1> DEFINE Excused(a) == number'[a] \in raced' \cup revived'
  <1> SUFFICES ASSUME NEW p \in rows', NEW z \in rows', Same(p, z), p.status = "disabled",
                      z.status = "active", ~Excused(p.account)
               PROVE  FALSE
    BY DEF DisabledStay
  <1>1. \A q \in rows : number'[q.account] = number[q.account]
    <2>1. ASSUME NEW q \in rows
          PROVE  q.account \in Imports /\ pc[q.account] # "none"
      BY NoneAssumption DEF TypeOK, Row, PlaceInv
    <2>2. QED BY <2>1, Onwards
  <1>2. ASSUME NEW q \in rows, NEW y \in rows, Same(q, p), Same(y, p), q.status = "disabled", y.status = "active"
        PROVE  FALSE
    <2>1. Same(q, y) /\ q.account = p.account
      BY <1>2 DEF Same
    <2>2. number[q.account] \in raced \cup revived
      BY <1>2, <2>1 DEF DisabledStay
    <2>3. QED BY <1>1, <2>1, <2>2, HistoryFrame
  <1>3. ASSUME NEW R, NEW s, Stems(rows', rows, R, s), s = "deleted"
        PROVE  FALSE
    BY <1>2, <1>3 DEF Stems, Same
  <1>4. CASE UNCHANGED rows
    BY <1>2, <1>4 DEF Same
  <1>5. ASSUME NEW r \in rows, DeleteTxaction(r)
        PROVE  FALSE
    BY <1>3, <1>5, DeleteTxactionRows
  <1>6. ASSUME NEW r \in rows, Undelete(r)
        PROVE  FALSE
    <2>1. PICK q \in rows : Same(p, q) /\ p = q
      BY <1>6, UndeleteRows DEF Stems
    <2>2. PICK y \in rows : Same(z, y) /\ (z = y \/ y = r)
      BY <1>6, UndeleteRows DEF Stems
    <2>3. z # y
      BY <1>2, <2>1, <2>2 DEF Same
    <2>4. y = r /\ q # r /\ Same(r, q) /\ r.account = p.account
      BY <1>6, <2>1, <2>2, <2>3 DEF Same, Undelete
    <2>5. number[r.account] \in revived'
      BY <1>6, <2>1, <2>4 DEF Undelete
    <2>6. QED BY <1>1, <2>4, <2>5
  <1>7. ASSUME NEW a \in Imports, DisableTxactions(a)
        PROVE  FALSE
    <2>1. PICK R \in SUBSET {r \in RowsOf(a) : r.status = "active"} :
            rows' = Moved(rows, R, "disabled") /\ Stems(rows', rows, R, "disabled")
      BY <1>7, DisableRows
    <2>2. PICK q \in rows : Same(p, q) /\ (p = q \/ q \in R)
      BY <2>1 DEF Stems
    <2>3. z \in rows /\ z \notin R
      <3>1. R \subseteq Row
        BY DEF RowsOf, TypeOK
      <3>2. \A r \in R : [r EXCEPT !.status = "disabled"].status = "disabled"
        BY <3>1 DEF Row
      <3>3. QED BY <2>1, <3>2 DEF Moved
    <2>4. CASE q \in R
      <3>1. q.status = "active" /\ Same(q, z)
        BY <2>2, <2>4 DEF Same
      <3>2. q = z
        BY <2>3, <3>1 DEF UniqueInv
      <3>3. QED BY <2>3, <2>4, <3>2
    <2>5. CASE p = q
      BY <1>2, <2>2, <2>3, <2>5 DEF Same
    <2>6. QED BY <2>2, <2>4, <2>5
  <1>8. ASSUME NEW a \in Imports, EnableTxactions(a)
        PROVE  FALSE
    <2> DEFINE R == {r \in RowsOf(a) : r.status = "disabled"}
    <2>1. rows' = Moved(rows, R, "active") /\ Stems(rows', rows, R, "active")
      BY <1>8, EnableRows
    <2>2. PICK y \in rows : Same(z, y) /\ (z = y \/ y \in R)
      BY <2>1 DEF Stems
    <2>3. p \in rows /\ p \notin R
      <3>1. R \subseteq Row
        BY DEF RowsOf, TypeOK
      <3>2. \A r \in R : [r EXCEPT !.status = "active"].status = "active"
        BY <3>1 DEF Row
      <3>3. QED BY <2>1, <3>2 DEF Moved
    <2>4. p.account # a
      BY <2>3 DEF RowsOf
    <2>5. y \notin R
      BY <2>2, <2>4 DEF RowsOf, Same
    <2>6. QED BY <1>2, <2>2, <2>3, <2>5 DEF Same
  <1>9. ASSUME NEW a \in Imports, DeleteRows(a)
        PROVE  FALSE
    BY <1>3, <1>9, DeleteRowsRows
  <1>10. ASSUME NEW a \in Imports, DeleteUpload(a) \/ Empty(a) \/ DeleteAccount(a)
         PROVE  FALSE
    BY <1>2, <1>10, FilterRows DEF Same
  <1>11. ASSUME NEW i \in Imports, SaveTxaction(i)
         PROVE  FALSE
    <2>1. PICK t \in todo[i] : pc[i] = "save" /\ (CreateTxaction(i, t) \/ UpdateTxaction(i, t))
      BY <1>11 DEF SaveTxaction
    <2>2. \A x \in rows' : \/ x = New(i, t) /\ t \notin known[i]
                           \/ \E q \in rows : Same(x, q) /\ x.status = q.status
      BY <2>1, SaveRows DEF Same
    <2>3. PICK q \in rows : Same(p, q) /\ p.status = q.status
      BY <2>2 DEF New
    <2>4. CASE z = New(i, t) /\ t \notin known[i]
      <3>1. q.account = target[i] /\ q.txid = t /\ q.status = "disabled" /\ p.account = target[i]
        BY <2>3, <2>4 DEF Same, New
      <3>2. number[i] \in raced \cup revived
        BY <2>1, <2>4, <3>1 DEF KnownInv
      <3>3. number[target[i]] = number[i]
        BY <2>1 DEF PlaceInv
      <3>4. QED BY <1>1, <2>3, <3>1, <3>2, <3>3, HistoryFrame
    <2>5. CASE ~(z = New(i, t) /\ t \notin known[i])
      BY <1>2, <2>2, <2>3, <2>5 DEF Same
    <2>6. QED BY <2>4, <2>5
  <1>12. QED BY <1>4, <1>5, <1>6, <1>7, <1>8, <1>9, <1>10, <1>11, RowFrame DEF RowStep

(* Why a removal gets stuck                                                *)
LEMMA FailingDeletion ==
  ASSUME TypeOK, UniqueInv, DisabledStay, NEW a \in Imports, DeleteFails(RowsOf(a))
  PROVE  number[a] \in raced \cup revived
  <1> DEFINE R == RowsOf(a)
             T == WithoutDeletedCopies(R)
  <1>1. R \subseteq rows /\ T \subseteq rows
    BY WithoutFacts DEF RowsOf
  <1>2. PICK r \in R \cap T, q \in T : r # q /\ Same(r, q) /\ (q \in R \cap T \/ q.status = "deleted")
    BY DEF DeleteFails, Clashes
  <1>3. \A x \in T : x.status = "deleted" => \A y \in R : ~Same(y, x)
    BY <1>1, WithoutFacts
  <1>4. r.status # "deleted" /\ q.status # "deleted" /\ r.account = a
    BY <1>2, <1>3 DEF Same, RowsOf
  <1>5. r.status # q.status
    BY <1>1, <1>2 DEF UniqueInv
  <1>6. r \in Row /\ q \in Row /\ r \in rows /\ q \in rows
    BY <1>1, <1>2 DEF TypeOK
  <1>7. (r.status = "active" /\ q.status = "disabled") \/ (r.status = "disabled" /\ q.status = "active")
    BY <1>4, <1>5, <1>6 DEF Row, Statuses
  <1>8. QED BY <1>2, <1>4, <1>6, <1>7 DEF DisabledStay, Same

LEMMA StuckStep ==
  ASSUME TypeOK, UniqueInv, PlaceInv, DisabledStay, StuckOnlyByCopies, [Next]_vars
  PROVE  StuckOnlyByCopies'
  <1> SUFFICES ASSUME NEW a \in Imports, removal'[a] = "stuck"
               PROVE  number'[a] \in raced' \cup revived'
    BY DEF StuckOnlyByCopies
  <1>1. removal[a] = "stuck" \/ (DeleteRows(a) /\ DeleteFails(RowsOf(a)))
    <2>1. ASSUME NEW b \in Imports, Remove(b), removal[a] # "stuck"
          PROVE  DeleteRows(a) /\ DeleteFails(RowsOf(a))
      BY <2>1 DEF Remove, MarkDeleted, DeleteRows, Empty, Decide, DeleteAccount, DropCred, Kill, TypeOK
    <2>2. QED BY <2>1, RemovalFrame DEF removalVars
  <1>2. number[a] \in raced \cup revived
    BY <1>1, FailingDeletion DEF StuckOnlyByCopies
  <1>3. pc[a] # "none"
    BY <1>1 DEF PlaceInv, DeleteRows
  <1>4. QED BY <1>2, <1>3, Onwards, HistoryFrame

(* What a step makes of an account                                         *)
LEMMA AccountFate ==
  ASSUME TypeOK, PlaceInv, [Next]_vars, NEW a \in Imports, Exists(a)'
  PROVE  \/ CreateAccount(a) /\ accounts'[a].status = "active" /\ accounts'[a].cred = None
         \/ /\ Exists(a)
            /\ \/ accounts'[a] = accounts[a]
               \/ /\ \E i \in Imports : Associate(i) /\ target[i] = a /\ accounts'[a].cred = job[i]
                  /\ accounts'[a].status = accounts[a].status
               \/ MarkDeleted(a) /\ accounts'[a].status = "deleted" /\ accounts'[a].cred = accounts[a].cred
               \/ Decide(a) /\ removal'[a] = "kept" /\ accounts'[a].cred = accounts[a].cred
  <1>1. Exists(a) => accounts[a] \in Account
    BY DEF TypeOK, Exists
  <1>2. CASE accounts' = accounts
    BY <1>2 DEF Exists
  <1>3. ASSUME NEW i \in Imports, CreateAccount(i)
        PROVE  \/ CreateAccount(a) /\ accounts'[a].status = "active" /\ accounts'[a].cred = None
               \/ Exists(a) /\ accounts'[a] = accounts[a]
    BY <1>3 DEF CreateAccount, Exists, TypeOK
  <1>4. ASSUME NEW i \in Imports, Associate(i)
        PROVE  /\ Exists(a)
               /\ \/ accounts'[a] = accounts[a]
                  \/ /\ target[i] = a /\ accounts'[a].cred = job[i]
                     /\ accounts'[a].status = accounts[a].status
    <2>1. accounts' = [accounts EXCEPT
            ![target[i]] = IF accounts[target[i]] = None THEN None
                           ELSE [accounts[target[i]] EXCEPT !.cred = job[i]]]
      BY <1>4 DEF Associate
    <2>2. \A x \in Account : \A c :
            [x EXCEPT !.cred = c].status = x.status /\ [x EXCEPT !.cred = c].cred = c
      BY DEF Account
    <2>3. CASE a = target[i]
      BY <1>1, <2>1, <2>2, <2>3 DEF Exists, TypeOK
    <2>4. CASE a # target[i]
      BY <2>1, <2>4 DEF Exists, TypeOK
    <2>5. QED BY <2>3, <2>4
  <1>5. \A x \in Account : \A c : [x EXCEPT !.status = c].status = c /\ [x EXCEPT !.status = c].cred = x.cred
    BY DEF Account
  <1>6. ASSUME NEW i \in Imports, MarkDeleted(i)
        PROVE  /\ Exists(a)
               /\ \/ accounts'[a] = accounts[a]
                  \/ MarkDeleted(a) /\ accounts'[a].status = "deleted" /\ accounts'[a].cred = accounts[a].cred
    <2>1. accounts' = [accounts EXCEPT ![i] = [accounts[i] EXCEPT !.status = "deleted"]] /\ Exists(i)
      BY <1>6 DEF MarkDeleted, Visible
    <2>2. CASE a = i
      BY <1>1, <1>5, <1>6, <2>1, <2>2 DEF TypeOK
    <2>3. CASE a # i
      BY <2>1, <2>3 DEF Exists, TypeOK
    <2>4. QED BY <2>2, <2>3
  <1>7. ASSUME NEW i \in Imports, Decide(i), accounts' # accounts
        PROVE  /\ Exists(a)
               /\ \/ accounts'[a] = accounts[a]
                  \/ Decide(a) /\ removal'[a] = "kept" /\ accounts'[a].cred = accounts[a].cred
    <2>1. /\ accounts' = [accounts EXCEPT ![i] = [accounts[i] EXCEPT !.status = "disabled"]]
          /\ removal' = [removal EXCEPT ![i] = "kept"] /\ Exists(i)
      BY <1>7 DEF Decide, PlaceInv
    <2>2. CASE a = i
      BY <1>1, <1>5, <1>7, <2>1, <2>2 DEF TypeOK
    <2>3. CASE a # i
      BY <2>1, <2>3 DEF Exists, TypeOK
    <2>4. QED BY <2>2, <2>3
  <1>8. ASSUME NEW i \in Imports, DeleteAccount(i)
        PROVE  Exists(a) /\ accounts'[a] = accounts[a]
    BY <1>8 DEF DeleteAccount, Exists, TypeOK
  <1>9. QED BY <1>2, <1>3, <1>4, <1>6, <1>7, <1>8, AccountFrame DEF AccountStep

(* ... and of a removal                                                    *)
LEMMA RemovalFate ==
  ASSUME TypeOK, [Next]_vars, NEW a \in Imports
  PROVE  /\ removal'[a] = "emptied" => (removal[a] = "emptied" /\ held'[a] = held[a]) \/ Empty(a)
         /\ removal'[a] \in {"last", "plain"} =>
              held'[a] = held[a] /\ (removal'[a] = removal[a] \/ Decide(a))
         /\ removal'[a] = "dropping" =>
              held'[a] = held[a] /\ (removal[a] = "dropping" \/ (DeleteAccount(a) /\ removal[a] = "last"))
         /\ Removing(a)' => Removing(a) \/ Empty(a)
  <1> USE DEF Removing
  <1>1. CASE UNCHANGED removalVars
    BY <1>1 DEF removalVars
  <1>2. ASSUME NEW b \in Imports, Remove(b), b # a
        PROVE  removal'[a] = removal[a] /\ held'[a] = held[a]
    BY <1>2 DEF Remove, MarkDeleted, DeleteRows, Empty, Decide, DeleteAccount, DropCred, Kill, Forget, TypeOK
  <1>3. CASE MarkDeleted(a) \/ DeleteRows(a) \/ Kill(a) \/ DropCred(a)
    BY <1>3 DEF MarkDeleted, DeleteRows, DropCred, Kill, Forget, TypeOK
  <1>4. CASE Empty(a)
    BY <1>4 DEF Empty, TypeOK
  <1>5. CASE Decide(a)
    BY <1>5 DEF Decide, Forget, TypeOK
  <1>6. CASE DeleteAccount(a)
    BY <1>6 DEF DeleteAccount, Forget, TypeOK
  <1>7. QED BY <1>1, <1>2, <1>3, <1>4, <1>5, <1>6, RemovalFrame DEF Remove

LEMMA NoneLeftStep ==
  ASSUME TypeOK, UniqueInv, PlaceInv, RemovalInv, NoneLeftBehind, [Next]_vars
  PROVE  NoneLeftBehind'
  <1> SUFFICES ASSUME NEW p \in rows', NEW a, a = p.account, ~crossed'
               PROVE  Exists(a)' /\ accounts'[a].status # "disabled"
    BY DEF NoneLeftBehind, Exists
  <1>1. ~crossed /\ a \in Imports
    BY HistoryFrame, RowOrigin DEF Row
  <1>2. Exists(a) /\ accounts[a].status # "disabled"
    <2>1. CASE \E q \in rows : Same(p, q)
      BY <1>1, <2>1 DEF NoneLeftBehind, Same
    <2>2. ASSUME NEW i \in Imports, SaveTxaction(i), a = target[i]
          PROVE  Exists(a) /\ accounts[a].status # "disabled"
      BY <1>1, <2>2, NoneAssumption DEF RemovalInv, SaveTxaction, UnderWay
    <2>3. QED BY <2>1, <2>2, RowOrigin
  <1>3. ~DeleteAccount(a)
    <2>1. DeleteAccount(a) => p \in RowsOf(a)
      BY FilterRows, <1>1 DEF RowsOf
    <2>2. QED BY <1>1, <2>1 DEF DeleteAccount, RemovalInv
  <1>4. ~Decide(a)
    <2>1. Decide(a) => p \in RowsOf(a)
      BY DEF Decide, RowsOf
    <2>2. QED BY <1>1, <2>1 DEF Decide, RemovalInv
  <1>5. Exists(a)'
    BY <1>1, <1>2, <1>3, ExistsStays
  <1>6. QED BY <1>1, <1>2, <1>4, <1>5, AccountFate

LEMMA CredsStep ==
  ASSUME TypeOK, PlaceInv, RemovalInv, CredsServe, [Next]_vars
  PROVE  CredsServe'
  <1> SUFFICES ASSUME NEW a \in Imports, Exists(a)', accounts'[a].cred # None, ~crossed'
               PROVE  accounts'[a].cred \in creds' \cup revoked'
    BY DEF CredsServe
  <1>1. ~crossed
    BY HistoryFrame
  <1>2. accounts'[a].cred \in creds \cup revoked
    <2>1. Exists(a) /\ accounts[a].cred # None => accounts[a].cred \in creds \cup revoked
      BY <1>1 DEF CredsServe
    <2>2. \A i \in Imports : Associate(i) => job[i] \in creds \cup revoked
      BY <1>1 DEF RemovalInv, Associate
    <2>3. QED BY <2>1, <2>2, AccountFate
  <1>3. ASSUME NEW b \in Imports, DropCred(b)
        PROVE  accounts'[a].cred # held[b]
    BY <1>1, <1>3 DEF DropCred, RemovalInv, Sharing, Exists
  <1>4. CASE UNCHANGED <<creds, revoked>>
    BY <1>2, <1>4
  <1>5. ASSUME NEW c \in creds, DestroyCred(c)
        PROVE  creds' \cup revoked' = creds \cup revoked
    BY <1>5 DEF DestroyCred
  <1>6. ASSUME NEW b \in Imports, DropCred(b)
        PROVE  accounts'[a].cred \in creds' \cup revoked'
    BY <1>2, <1>3, <1>6 DEF DropCred, historyVars
  <1>7. QED BY <1>2, <1>4, <1>5, <1>6, CredFrame

LEMMA RemovalStep ==
  ASSUME TypeOK, UniqueInv, PlaceInv, RemovalInv, [Next]_vars
  PROVE  RemovalInv'
  <1> SUFFICES ASSUME ~crossed'
               PROVE  RemovalInv'
    BY DEF RemovalInv
  <1>0. ~crossed
    BY HistoryFrame
  <1>1. ASSUME NEW i \in Imports, NEW a \in Imports, UnderWay(i)
        PROVE  ~Removing(a)
    BY <1>0, <1>1 DEF RemovalInv
  <1>2. ASSUME NEW i \in Imports, NEW a \in Imports, UnderWay(i)', Removing(a)'
        PROVE  FALSE
    <2>1. (UnderWay(i) \/ StartImport(i)) /\ (Removing(a) \/ Empty(a))
      BY <1>2, Onwards, RemovalFate
    <2>2. ~(UnderWay(i) /\ Removing(a)) /\ ~(UnderWay(i) /\ Empty(a))
      BY <1>1 DEF Empty
    <2>3. ~(StartImport(i) /\ Removing(a))
      BY DEF StartImport
    <2>4. ~(StartImport(i) /\ Empty(a))
      <3>1. StartImport(i) => pc'[i] = "find"
        BY DEF StartImport, TypeOK
      <3>2. QED BY <3>1 DEF Empty, importVars, StartImport
    <2>5. QED BY <2>1, <2>2, <2>3, <2>4
  <1>3. ASSUME NEW i \in Imports, NEW a \in Imports, UnderWay(i)', target'[i] = a
        PROVE  Exists(a)' /\ accounts'[a].status # "disabled"
    <2>1. UnderWay(i)
      <3>1. StartImport(i) => target'[i] = None
        BY DEF StartImport, PlaceInv
      <3>2. QED BY <1>3, <3>1, Onwards, NoneAssumption
    <2>2. CASE target[i] = a
      <3>1. Exists(a) /\ accounts[a].status # "disabled"
        BY <1>0, <2>1, <2>2, NoneAssumption DEF RemovalInv
      <3>2. ~DeleteAccount(a) /\ ~Decide(a)
        BY <1>1, <2>1 DEF DeleteAccount, Decide, Removing
      <3>3. Exists(a)'
        BY <3>1, <3>2, ExistsStays
      <3>4. QED BY <3>1, <3>2, <3>3, AccountFate
    <2>3. CASE target[i] # a
      <3>1. target[i] = None
        BY <1>3, <2>3, Onwards
      <3>2. ASSUME NEW j \in Imports, Import(j)
            PROVE  FindAccount(i) \/ CreateAccount(i)
        BY <1>3, <2>3, <3>2 DEF Import, StartImport, FindAccount, CreateAccount, LinkUpload, LoadTxactions,
                                SaveTxaction, ReadCred, Associate, Die, TypeOK
      <3>3. CASE FindAccount(i)
        <4>1. a \in Found(i) /\ accounts' = accounts
          BY <1>3, <2>3, <3>3 DEF FindAccount, TypeOK
        <4>2. QED BY <4>1 DEF Found, Visible, Exists
      <3>4. CASE CreateAccount(i)
        BY <1>3, <3>1, <3>4, NoneAssumption, PlaceStep DEF CreateAccount, TypeOK, Exists, Account, PlaceInv, Statuses
      <3>5. QED BY <1>3, <2>3, <3>2, <3>3, <3>4, ImportFrame DEF importVars
    <2>4. QED BY <2>2, <2>3
  <1>4. ASSUME NEW i \in Imports, pc'[i] = "associate"
        PROVE  job'[i] \in creds' \cup revoked'
    <2>1. /\ UnderWay(i) /\ job'[i] = job[i]
          /\ pc[i] = "associate" \/ job[i] \in creds
      <3>1. ASSUME NEW j \in Imports, Import(j)
            PROVE  /\ UnderWay(i) /\ job'[i] = job[i]
                   /\ pc[i] = "associate" \/ job[i] \in creds
        BY <1>4, <3>1 DEF Import, StartImport, FindAccount, CreateAccount, LinkUpload, LoadTxactions,
                          SaveTxaction, ReadCred, Associate, Die, TypeOK, UnderWay
      <3>2. QED BY <1>4, <3>1, ImportFrame DEF importVars, UnderWay
    <2>2. job[i] \in creds \cup revoked
      BY <1>0, <2>1 DEF RemovalInv
    <2>3. ASSUME NEW b \in Imports, DropCred(b)
          PROVE  FALSE
      BY <1>1, <2>1, <2>3 DEF DropCred, Removing
    <2>4. QED BY <2>1, <2>2, <2>3, CredFrame DEF DestroyCred
  <1>5. ASSUME NEW a \in Imports, removal'[a] \in {"emptied", "last", "plain"}
        PROVE  RowsOf(a)' = {} /\ held'[a] = accounts'[a].cred
    <2>1. CASE Empty(a)
      BY <2>1 DEF Empty, RowsOf, TypeOK
    <2>2. CASE ~Empty(a)
      <3>1. removal[a] \in {"emptied", "last", "plain"} /\ held'[a] = held[a]
        BY <1>5, <2>2, RemovalFate DEF Decide
      <3>2. RowsOf(a) = {} /\ held[a] = accounts[a].cred /\ Removing(a)
        BY <1>0, <3>1 DEF RemovalInv, Removing
      <3>3. \A i \in Imports : ~UnderWay(i)
        BY <1>1, <3>2
      <3>4. RowsOf(a)' = {}
        <4>1. \A i \in Imports : ~SaveTxaction(i)
          BY <3>3 DEF SaveTxaction, UnderWay
        <4>2. QED BY <3>2, <4>1, RowOrigin DEF RowsOf, Same
      <3>5. Exists(a)'
        BY <1>5, PlaceStep DEF PlaceInv
      <3>6. ~CreateAccount(a) /\ \A i \in Imports : ~Associate(i)
        BY <3>3 DEF CreateAccount, Associate, UnderWay
      <3>7. accounts'[a].cred = accounts[a].cred
        BY <3>5, <3>6, AccountFate
      <3>8. QED BY <3>1, <3>2, <3>4, <3>7
    <2>3. QED BY <2>1, <2>2
  <1>6. ASSUME NEW a \in Imports, Removing(a), NEW b \in Imports, Exists(b)'
        PROVE  Exists(b) /\ accounts'[b].cred = accounts[b].cred
    <2>1. \A i \in Imports : ~CreateAccount(i) /\ ~Associate(i)
      BY <1>1, <1>6 DEF CreateAccount, Associate, UnderWay
    <2>2. QED BY <1>6, <2>1, AccountFate
  <1>7. ASSUME NEW a \in Imports, removal'[a] = "last"
        PROVE  Sharing(held[a])' = {a}
    <2>1. held'[a] = held[a] /\ (removal[a] = "last" \/ Decide(a)) /\ Removing(a)
      BY <1>7, RemovalFate DEF Decide, Removing
    <2>2. Exists(a) /\ Exists(a)' /\ held'[a] = accounts'[a].cred
      BY <1>5, <1>7, <2>1, <1>6, PlaceStep DEF PlaceInv
    <2>3. Sharing(held[a]) = {a}
      <3>1. CASE removal[a] = "last"
        BY <1>0, <3>1 DEF RemovalInv
      <3>2. CASE Decide(a) /\ removal[a] # "last"
        <4>1. removal[a] = "emptied" /\ Cardinality(Sharing(held[a])) = 1
          BY <1>7, <3>2 DEF Decide, TypeOK
        <4>2. a \in Sharing(held[a])
          BY <1>0, <2>2, <4>1 DEF RemovalInv, Sharing
        <4>3. IsFiniteSet(Sharing(held[a]))
          <5>1. Sharing(held[a]) \subseteq Imports
            BY DEF Sharing
          <5>2. QED BY <5>1, SetsAssumption, FS_Subset
        <4>4. PICK x : Sharing(held[a]) = {x}
          BY <4>1, <4>3, FS_Singleton
        <4>5. QED BY <4>2, <4>4
      <3>3. QED BY <2>1, <3>1, <3>2
    <2>4. \A b \in Imports : Exists(b)' /\ accounts'[b].cred = held[a] => b = a
      BY <1>6, <2>1, <2>3 DEF Sharing
    <2>5. QED BY <2>1, <2>2, <2>4 DEF Sharing
  <1>8. ASSUME NEW a \in Imports, removal'[a] = "dropping"
        PROVE  Sharing(held[a])' = {}
    <2>1. held'[a] = held[a] /\ (removal[a] = "dropping" \/ (DeleteAccount(a) /\ removal[a] = "last"))
      BY <1>8, RemovalFate
    <2>2. Removing(a)
      BY <2>1 DEF Removing
    <2>3. \A b \in Imports : Exists(b)' /\ accounts'[b].cred = held[a] => b \in Sharing(held[a])
      BY <1>6, <2>2 DEF Sharing
    <2>4. CASE removal[a] = "dropping"
      <3>1. Sharing(held[a]) = {}
        BY <1>0, <2>4 DEF RemovalInv
      <3>2. QED BY <2>1, <2>3, <3>1 DEF Sharing
    <2>5. CASE DeleteAccount(a) /\ removal[a] = "last"
      <3>1. Sharing(held[a]) = {a}
        BY <1>0, <2>5 DEF RemovalInv
      <3>2. ~Exists(a)'
        BY <2>5 DEF DeleteAccount, Exists, TypeOK
      <3>3. QED BY <2>1, <2>3, <3>1, <3>2 DEF Sharing
    <2>6. QED BY <2>1, <2>4, <2>5
  <1>9. \A i \in Imports : target'[i] # None => target'[i] \in Imports
    BY TypeStep DEF TypeOK
  <1>10. \A i \in Imports : UnderWay(i)' /\ target'[i] # None =>
           Exists(target[i])' /\ accounts'[target'[i]].status # "disabled"
    <2>1. \A i, a \in Imports : UnderWay(i)' /\ target'[i] = a => accounts'[a] # None /\ accounts'[a].status # "disabled"
      BY <1>3 DEF Exists
    <2>2. QED BY <1>9, <2>1 DEF Exists
  <1>11. QED BY <1>2, <1>4, <1>5, <1>7, <1>8, <1>10 DEF RemovalInv

-----------------------------------------------------------------------------
(* The theorems                                                            *)

LEMMA InitHolds == Init => IInv
  <1> SUFFICES ASSUME Init PROVE IInv
    OBVIOUS
  <1> USE DEF Init
  <1>1. TypeOK
    BY DEF TypeOK
  <1>2. UniqueInv /\ PlaceInv /\ RacedInv /\ KnownInv /\ CreateInv /\ SavedInv
    BY DEF UniqueInv, PlaceInv, RacedInv, KnownInv, CreateInv, SavedInv, UnderWay, Exists, Visible
  <1>3. RemovalInv
    BY DEF RemovalInv, UnderWay
  <1>4. ImportedKept /\ DisabledStay /\ OneAccountPerNumber /\ StuckOnlyByCopies /\ NoneLeftBehind /\ CredsServe
    BY DEF ImportedKept, DisabledStay, OneAccountPerNumber, StuckOnlyByCopies, NoneLeftBehind, CredsServe,
           Visible, Exists
  <1>5. QED BY <1>1, <1>2, <1>3, <1>4 DEF IInv, Support

LEMMA StepHolds == IInv /\ [Next]_vars => IInv'
  <1> SUFFICES ASSUME IInv, [Next]_vars PROVE IInv'
    OBVIOUS
  <1>1. TypeOK' /\ UniqueInv' /\ PlaceInv' /\ RacedInv'
    BY TypeStep, UniqueStep, PlaceStep, RacedStep DEF IInv, Support
  <1>2. KnownInv' /\ CreateInv' /\ SavedInv' /\ RemovalInv'
    BY KnownStep, CreateStep, SavedStep, RemovalStep DEF IInv, Support
  <1>3. ImportedKept' /\ DisabledStay' /\ OneAccountPerNumber'
    BY ImportedStep, DisabledStep, OneAccountStep DEF IInv, Support
  <1>4. StuckOnlyByCopies' /\ NoneLeftBehind' /\ CredsServe'
    BY StuckStep, NoneLeftStep, CredsStep DEF IInv, Support
  <1>5. QED BY <1>1, <1>2, <1>3, <1>4 DEF IInv, Support

(* The inductive invariant holds in every behaviour of the imports and     *)
(* removals (ofx2importer.rb:96-410, account.rb:175-200).                  *)
THEOREM ImportsInvariant == Spec => []IInv
  <1>1. QED BY InitHolds, StepHolds, PTL DEF Spec

(* ... and in it what the properties rest on: the index, the phases, what  *)
(* an import still knows when it saves (ofx2importer.rb:261-410).          *)
THEOREM SupportHolds == Spec => []Support
  <1>1. IInv => Support
    BY DEF IInv
  <1>2. QED BY <1>1, ImportsInvariant, PTL

(* What a completed import saved stays, as long as the user removes        *)
(* neither the account nor an upload of it (ofx2importer.rb:361-410,       *)
(* txaction.rb:156-178).                                                   *)
THEOREM ImportsAreKept == Spec => []ImportedKept
  <1>1. IInv => ImportedKept
    BY DEF IInv
  <1>2. QED BY <1>1, ImportsInvariant, PTL

(* A disabled transaction is not imported again, except by overlapping     *)
(* imports or beside one the user brought back (account.rb:321-326).       *)
THEOREM DisabledStayDisabled == Spec => []DisabledStay
  <1>1. IInv => DisabledStay
    BY DEF IInv
  <1>2. QED BY <1>1, ImportsInvariant, PTL

(* Only overlapping imports give the user one bank account twice           *)
(* (ofx2importer.rb:453-500).                                              *)
THEOREM AccountsAreSingle == Spec => []OneAccountPerNumber
  <1>1. IInv => OneAccountPerNumber
    BY DEF IInv
  <1>2. QED BY <1>1, ImportsInvariant, PTL

(* Only copies left by overlapping imports or an undone deletion keep a    *)
(* removal from its job (account.rb:175-178).                              *)
THEOREM StuckHaveCopies == Spec => []StuckOnlyByCopies
  <1>1. IInv => StuckOnlyByCopies
    BY DEF IInv
  <1>2. QED BY <1>1, ImportsInvariant, PTL

(* A removal that no import crosses leaves no transaction behind           *)
(* (account.rb:181-194).                                                   *)
THEOREM RemovalsAreClean == Spec => []NoneLeftBehind
  <1>1. IInv => NoneLeftBehind
    BY DEF IInv
  <1>2. QED BY <1>1, ImportsInvariant, PTL

(* A removal that no import crosses takes the credentials of no other      *)
(* account with it (account.rb:185-188).                                   *)
THEOREM CredentialsServe == Spec => []CredsServe
  <1>1. IInv => CredsServe
    BY DEF IInv
  <1>2. QED BY <1>1, ImportsInvariant, PTL
=============================================================================
