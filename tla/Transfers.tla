----------------------------- MODULE Transfers -----------------------------
(***************************************************************************)
(* Account-to-account transfers (app/models/txaction/transfers_concern.rb): *)
(* two transactions of a user that are the two sides of one transfer name  *)
(* each other in transfer_txaction_id. A transaction that is a transfer    *)
(* without a known other side names itself.                                *)
(*                                                                         *)
(* A request works on ActiveRecord instances: it has read a row at one     *)
(* time and acts on it later, inside a database transaction that reads a   *)
(* snapshot (REPEATABLE READ) and its own writes. update_attribute writes  *)
(* a column only if it changes the value the instance holds in memory.     *)
(***************************************************************************)
EXTENDS Naturals, FiniteSets

CONSTANTS
  Txactions,    \* ids of rows of txactions
  Requests,     \* web requests
  MaxUpload,    \* bound on the transactions of an upload that is deleted
  None, New, Gone, Purged

ASSUME ValuesAssumption ==
  /\ {None, New, Gone, Purged} \cap Txactions = {}
  /\ None \notin {New, Gone, Purged}
  /\ Gone \notin {New, Purged}
  /\ New # Purged

VARIABLES
  link,      \* transfer_txaction_id of each row. New, Gone, Purged: there is no
             \* row (yet; it was destroyed; it was deleted without callbacks)
  step,      \* how far a request is
  me, other, \* the transaction it is about, and the one it is linked with
  memory,    \* transfer_txaction_id of the instances it holds
  todo,      \* the rows it still has to delete
  base,      \* the table when its database transaction first read it
  view,      \* the table as its database transaction sees it
  written    \* the rows its database transaction wrote

requestVars == <<step, me, other, memory, todo, base, view, written>>
vars == <<link, requestVars>>

Keys == Txactions \cup {None}
Rows == Keys \cup {New, Gone, Purged}

TypeOK ==
  /\ link    \in [Txactions -> Rows]
  /\ step    \in [Requests -> {"idle", "loaded", "saved", "found", "deleting", "commit"}]
  /\ me      \in [Requests -> Keys]
  /\ other   \in [Requests -> Keys]
  /\ memory  \in [Requests -> [Txactions -> Rows]]
  /\ todo    \in [Requests -> SUBSET Txactions]
  /\ base    \in [Requests -> [Txactions -> Rows]]
  /\ view    \in [Requests -> [Txactions -> Rows]]
  /\ written \in [Requests -> SUBSET Txactions]

Nothing == [x \in Txactions |-> New]

Init ==
  /\ link    = Nothing
  /\ step    = [r \in Requests |-> "idle"]
  /\ me      = [r \in Requests |-> None]
  /\ other   = [r \in Requests |-> None]
  /\ memory  = [r \in Requests |-> Nothing]
  /\ todo    = [r \in Requests |-> {}]
  /\ base    = [r \in Requests |-> Nothing]
  /\ view    = [r \in Requests |-> Nothing]
  /\ written = [r \in Requests |-> {}]

----------------------------------------------------------------------------
(* The concern, on a transaction t: the links it sees, the rows it wrote    *)

(* x names a row that can be loaded                                         *)
Exists(L, x) == x \in Txactions /\ L[x] \in Keys

(* Mutant: the key is noted, not the row.                                   *)
PutNotesKey(t, x, k) ==
  IF Exists(t.links, x)
  THEN [links |-> [t.links EXCEPT ![x] = k], written |-> t.written \cup {k}]
  ELSE t

(* UPDATE or DELETE of row x; without the row it does nothing               *)
Put(t, x, k) ==
  IF Exists(t.links, x)
  THEN [links |-> [t.links EXCEPT ![x] = k], written |-> t.written \cup {x}]
  ELSE t

(* Mutant: a buddy is unlinked whether or not it names x.                   *)
LeaveBuddyAlways(t, x, k) ==
  IF Exists(t.links, k) THEN Put(t, k, None) ELSE t

(* The first branch of set_transfer_buddy! on an instance of x that holds   *)
(* key k: a buddy that names x in return is unlinked, another is left alone *)
LeaveBuddy(t, x, k) ==
  IF Exists(t.links, k) /\ t.links[k] = x /\ Exists(t.links, x)
  THEN Put(t, k, None) ELSE t

(* set_transfer_buddy!(self)                                                *)
MarkUnpaired(t, x, k) ==
  IF k = x /\ Exists(t.links, x) THEN t ELSE Put(LeaveBuddy(t, x, k), x, x)

(* Mutant: the former buddy of the new buddy is forgotten.                  *)
FreeNoBuddy(t, k) == t

(* Line 110: the former buddy of the new buddy, loaded by its key k         *)
FreeBuddy(t, k) == IF Exists(t.links, k) THEN MarkUnpaired(t, k, t.links[k]) ELSE t

(* set_transfer_buddy!(nil); without a buddy there is nothing to change     *)
ClearBuddy(t, x, k) ==
  IF Exists(t.links, k) THEN Put(LeaveBuddy(t, x, k), x, None) ELSE t

(* set_transfer_buddy!(y), y another transaction that holds key ky          *)
Pair(t, x, k, y, ky) ==
  LET freed  == FreeBuddy(LeaveBuddy(t, x, k), ky)
      linked == IF k = y THEN freed ELSE Put(freed, x, y)
  IN IF k = y /\ Exists(t.links, y) THEN t
     ELSE IF ky = x THEN linked ELSE Put(linked, y, x)

(* before_destroy :clear_transfer_buddy!, then the row goes                 *)
DestroyRow(t, x, k) == Put(ClearBuddy(t, x, k), x, Gone)

----------------------------------------------------------------------------
(* Requests *)

Snapshot == [links |-> link, written |-> {}]

Goto(r, label) == step' = [step EXCEPT ![r] = label]

(* The request lets go of its instances, and of its database transaction    *)
Release(r) ==
  /\ me'      = [me EXCEPT ![r] = None]
  /\ other'   = [other EXCEPT ![r] = None]
  /\ base'    = [base EXCEPT ![r] = Nothing]
  /\ view'    = [view EXCEPT ![r] = Nothing]
  /\ written' = [written EXCEPT ![r] = {}]

Finish(r) ==
  /\ Goto(r, "idle")
  /\ Release(r)
  /\ memory'  = [memory EXCEPT ![r] = Nothing]
  /\ todo'    = [todo EXCEPT ![r] = {}]

(* The request holds instances of the rows S, as they are now               *)
Hold(r, S) ==
  memory' = [memory EXCEPT ![r] = [x \in Txactions |-> IF x \in S THEN link[x] ELSE @[x]]]

(* The request has done its writes and is about to commit them              *)
Do(r, t, from) ==
  /\ base' = [base EXCEPT ![r] = from]
  /\ view' = [view EXCEPT ![r] = t.links]
  /\ written' = [written EXCEPT ![r] = t.written]

(* TxactionsController#txaction, a before filter                            *)
LoadTxaction(r, x) ==
  /\ step[r] = "idle"
  /\ Exists(link, x)
  /\ Goto(r, "loaded")
  /\ me' = [me EXCEPT ![r] = x]
  /\ Hold(r, {x})
  /\ UNCHANGED <<link, other, todo, base, view, written>>

(* PUT /transactions/:id: Txaction::Form#update_transfer_status             *)
UpdatePaired(r, y) ==
  /\ step[r] = "loaded"
  /\ y # me[r] /\ Exists(link, y)
  /\ other' = [other EXCEPT ![r] = y]
  /\ Hold(r, {y})
  /\ Do(r, Pair(Snapshot, me[r], memory[r][me[r]], y, link[y]), link)
  /\ Goto(r, "commit")
  /\ UNCHANGED <<link, me, todo>>

UpdateUnpaired(r) ==
  /\ step[r] = "loaded"
  /\ Do(r, MarkUnpaired(Snapshot, me[r], memory[r][me[r]]), link)
  /\ Goto(r, "commit")
  /\ UNCHANGED <<link, me, other, memory, todo>>

UpdateNoTransfer(r) ==
  /\ step[r] = "loaded"
  /\ Do(r, ClearBuddy(Snapshot, me[r], memory[r][me[r]]), link)
  /\ Goto(r, "commit")
  /\ UNCHANGED <<link, me, other, memory, todo>>

(* POST /transactions saves the new row ...                                 *)
CreateTxaction(r, x) ==
  /\ step[r] = "idle"
  /\ link[x] = New
  /\ link' = [link EXCEPT ![x] = None]
  /\ Goto(r, "saved")
  /\ me' = [me EXCEPT ![r] = x]
  /\ memory' = [memory EXCEPT ![r][x] = None]
  /\ UNCHANGED <<other, todo, base, view, written>>

(* ... and looks for the other side: find_matching_transfer, which may be   *)
(* any row of another account, or none.                                     *)
FindMatch(r, y) ==
  /\ step[r] = "saved"
  /\ y # me[r] /\ Exists(link, y)
  /\ Goto(r, "found")
  /\ other' = [other EXCEPT ![r] = y]
  /\ Hold(r, {y})
  /\ UNCHANGED <<link, me, todo, base, view, written>>

NoMatch(r) ==
  /\ step[r] \in {"saved", "found"}
  /\ Finish(r)
  /\ UNCHANGED link

(* The match finds this one in turn                                         *)
AttachMatch(r) ==
  /\ step[r] = "found"
  /\ Do(r, Pair(Snapshot, me[r], memory[r][me[r]], other[r], memory[r][other[r]]), link)
  /\ Goto(r, "commit")
  /\ UNCHANGED <<link, me, other, memory, todo>>

(* It finds none: the new transaction makes it ambiguous                    *)
ClearAmbiguous(r) ==
  /\ step[r] = "found"
  /\ Do(r, ClearBuddy(Snapshot, other[r], memory[r][other[r]]), link)
  /\ Goto(r, "commit")
  /\ UNCHANGED <<link, me, other, memory, todo>>

(* Upload#destroy and Account's all_txactions, :dependent => :destroy, load *)
(* the rows S and destroy them one by one                                   *)
LoadUpload(r, S) ==
  /\ step[r] = "idle"
  /\ \A x \in S : Exists(link, x)
  /\ Goto(r, "deleting")
  /\ Hold(r, S)
  /\ todo' = [todo EXCEPT ![r] = S]
  /\ UNCHANGED <<link, me, other, base, view, written>>

DestroyTxaction(r, x) ==
  /\ step[r] = "deleting"
  /\ x \in todo[r]
  /\ me' = [me EXCEPT ![r] = x]
  /\ todo' = [todo EXCEPT ![r] = @ \ {x}]
  /\ Do(r, DestroyRow(Snapshot, x, memory[r][x]), link)
  /\ Goto(r, "commit")
  /\ UNCHANGED <<link, other, memory>>

(* Txaction.change_status, which found that x is an old deleted copy of a   *)
(* row that is to be deleted: one statement, no callback                    *)
PurgeCopy(r, x) ==
  /\ step[r] = "idle"
  /\ Exists(link, x)
  /\ link' = [link EXCEPT ![x] = Purged]
  /\ UNCHANGED requestVars

(* What the database transaction wrote becomes the table; a row that was    *)
(* deleted meanwhile stays deleted.                                         *)
Apply(r) ==
  link' = [x \in Txactions |->
             IF x \in written[r] /\ Exists(link, x) THEN view[r][x] ELSE link[x]]

Commit(r) ==
  /\ step[r] = "commit"
  /\ Apply(r)
  /\ IF todo[r] = {} THEN Finish(r)
     ELSE Goto(r, "deleting") /\ Release(r) /\ UNCHANGED <<memory, todo>>

(* A deadlock, a lost connection, an exception                              *)
Rollback(r) ==
  /\ step[r] = "commit"
  /\ Finish(r)
  /\ UNCHANGED link

Work(r) ==
  \/ \E x \in Txactions :
       \/ LoadTxaction(r, x) \/ UpdatePaired(r, x) \/ CreateTxaction(r, x)
       \/ FindMatch(r, x) \/ DestroyTxaction(r, x) \/ PurgeCopy(r, x)
  \/ UpdateUnpaired(r) \/ UpdateNoTransfer(r)
  \/ NoMatch(r) \/ AttachMatch(r) \/ ClearAmbiguous(r)
  \/ \E S \in SUBSET Txactions : Cardinality(S) \in 1..MaxUpload /\ LoadUpload(r, S)
  \/ Commit(r) \/ Rollback(r)

Next == \E r \in Requests : Work(r)

Spec == Init /\ [][Next]_vars

(* Requests that do not overlap                                             *)
Alone(r) == \A q \in Requests \ {r} : step[q] = "idle"
SerialNext == \E r \in Requests : Alone(r) /\ Work(r)
SerialSpec == Init /\ [][SerialNext]_vars

----------------------------------------------------------------------------
(* Properties *)

(* The rows that name another row which does not name them in return, other *)
(* than one that was purged                                                 *)
OneSided(L) ==
  {x \in Txactions : L[x] \in Txactions \ {x} /\ L[L[x]] \notin {x, Purged}}

(* A request that commits has done one of the five things                   *)
Decided(r) ==
  LET s == [links |-> base[r], written |-> {}]
      t == [links |-> view[r], written |-> written[r]]
      x == me[r]
      y == other[r]
  IN /\ x \in Txactions /\ memory[r][x] \in Keys
     /\ y # None => y # x /\ memory[r][y] \in Keys
     /\ \/ y # None /\ t = Pair(s, x, memory[r][x], y, memory[r][y])
        \/ t = MarkUnpaired(s, x, memory[r][x])
        \/ t = ClearBuddy(s, x, memory[r][x])
        \/ y # None /\ t = ClearBuddy(s, y, memory[r][y])
        \/ t = DestroyRow(s, x, memory[r][x])

(* What a request has in hand at each step                                  *)
StepInv(r) ==
  /\ step[r] = "commit" => Decided(r)
  /\ step[r] \in {"loaded", "saved", "found"} =>
       me[r] \in Txactions /\ memory[r][me[r]] \in Keys
  /\ step[r] = "found" =>
       other[r] \in Txactions \ {me[r]} /\ memory[r][other[r]] \in Keys
  /\ step[r] # "found" /\ step[r] # "commit" => other[r] = None
  /\ step[r] \notin {"deleting", "commit"} => todo[r] = {}
  /\ \A x \in todo[r] : memory[r][x] \in Keys

(* The inductive invariant of Spec                                          *)
IInv == TypeOK /\ \A r \in Requests : StepInv(r)

(* The buddy that the instance of x remembers was deleted with the upload   *)
Orphaned(r, x) ==
  memory[r][x] \in Txactions /\ link[memory[r][x]] = Gone /\ link[x] = None

(* What a request has in hand is so while no other runs                     *)
AloneInv(r) ==
  /\ step[r] \in {"loaded", "saved", "found"} => memory[r][me[r]] = link[me[r]]
  /\ other[r] # None => memory[r][other[r]] = link[other[r]]
  /\ \A x \in todo[r] : memory[r][x] = link[x] \/ Orphaned(r, x)
  /\ step[r] = "commit" =>
       /\ base[r] = link
       /\ me[r] \notin todo[r]
       /\ todo[r] # {} \/ memory[r][me[r]] # link[me[r]] =>
            /\ view[r] = DestroyRow([links |-> link, written |-> {}],
                                    me[r], memory[r][me[r]]).links
            /\ memory[r][me[r]] = link[me[r]] \/ Orphaned(r, me[r])

(* The inductive invariant of SerialSpec                                    *)
SerialInv ==
  /\ IInv
  /\ \A r, q \in Requests : step[r] # "idle" /\ step[q] # "idle" => r = q
  /\ \A r \in Requests : AloneInv(r)
  /\ OneSided(link) = {}

(* As long as requests do not overlap the two sides of every transfer name  *)
(* each other, whatever is linked, relinked, unlinked, attached at creation *)
(* or deleted with an upload; in particular no row names a destroyed one.   *)
LinksAreMutual == OneSided(link) = {}

(* All the request read, of the table and into its instances, is still so   *)
Current(r) == base[r] = link /\ \A x \in {me[r], other[r]} \ {None} : memory[r][x] = link[x]

(* Whatever earlier races left behind: a request commits only rows that are *)
(* mutual, and damages no other transfer, unless something it read changed  *)
(* before its commit.                                                       *)
CurrentCommitsHeal ==
  [][\A r \in Requests : Commit(r) /\ Current(r)
       => OneSided(link') \subseteq OneSided(link) \ written[r]]_vars

=============================================================================
