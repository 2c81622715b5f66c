------------------------- MODULE Transfers_proofs -------------------------
(***************************************************************************)
(* The properties of Transfers, for any set of transactions and requests.  *)
(* First what the methods of the concern do to the links of a transaction  *)
(* that started from a table, then the invariants of the requests.         *)
(***************************************************************************)
EXTENDS Transfers, TLAPS

Table == [Txactions -> Rows]
Transaction == [links : Table, written : SUBSET Txactions]

(* u went on from t: rows it did not write are as before, and it wrote      *)
(* existing rows only                                                       *)
Follows(u, t) ==
  /\ u \in Transaction
  /\ t.written \subseteq u.written
  /\ \A z \in Txactions \ u.written : u.links[z] = t.links[z]
  /\ \A z \in u.written \ t.written : Exists(t.links, z)

(* u made no row name another one                                           *)
OnlyUnlinks(u, t) == \A z \in Txactions : u.links[z] \in {t.links[z], z, None}

(* x and another row do not name each other                                 *)
Free(t, x) == \A z \in Txactions \ {x} : t.links[z] = x => t.links[x] # z

(* What u has written since t is mutual, and nothing else has come apart    *)
Heals(u, t) ==
  OneSided(u.links) \subseteq OneSided(t.links) \ (u.written \ t.written)

(* Values of the column are not confused with the marks of missing rows.    *)
LEMMA RowValues ==
  /\ Keys \subseteq Rows /\ Txactions \subseteq Keys /\ None \in Keys
  /\ {New, Gone, Purged} \cap Keys = {} /\ None \notin Txactions
  /\ {New, Gone, Purged} \subseteq Rows
BY ValuesAssumption DEF ValuesAssumption, Keys, Rows

(* One UPDATE or DELETE.                                                    *)
LEMMA PutFollows ==
  ASSUME NEW t \in Transaction, NEW x, NEW k \in Rows
  PROVE  Follows(Put(t, x, k), t)
BY DEF Put, Follows, Exists, Transaction, Table

(* Going on twice is going on.                                              *)
LEMMA FollowsTransitive ==
  ASSUME NEW t \in Transaction, NEW u, NEW v, Follows(u, t), Follows(v, u)
  PROVE  Follows(v, t)
BY DEF Follows, Exists, Transaction, Table

(* The first branch of set_transfer_buddy! writes the buddy or nothing.     *)
LEMMA LeaveBuddyFollows ==
  ASSUME NEW t \in Transaction, NEW x, NEW k
  PROVE  /\ Follows(LeaveBuddy(t, x, k), t)
         /\ OnlyUnlinks(LeaveBuddy(t, x, k), t)
         /\ \A z \in Txactions \ {k} : LeaveBuddy(t, x, k).links[z] = t.links[z]
         /\ Exists(t.links, x) /\ k \in Txactions => LeaveBuddy(t, x, k).links[k] # x
<1>1. CASE Exists(t.links, k) /\ t.links[k] = x /\ Exists(t.links, x)
  <2>1. LeaveBuddy(t, x, k) = Put(t, k, None)
    BY <1>1 DEF LeaveBuddy
  <2>2. /\ Follows(Put(t, k, None), t)
        /\ Put(t, k, None).links = [t.links EXCEPT ![k] = None]
    BY <1>1, PutFollows, RowValues DEF Put
  <2> QED BY <1>1, <2>1, <2>2, RowValues DEF OnlyUnlinks, Exists, Transaction, Table
<1>2. CASE ~(Exists(t.links, k) /\ t.links[k] = x /\ Exists(t.links, x))
  <2>1. LeaveBuddy(t, x, k) = t
    BY <1>2 DEF LeaveBuddy
  <2>2. Exists(t.links, x) /\ k \in Txactions => t.links[k] # x
    BY <1>2, RowValues DEF Exists
  <2> QED BY <2>1, <2>2 DEF Follows, OnlyUnlinks
<1> QED BY <1>1, <1>2

(* set_transfer_buddy!(self).                                               *)
LEMMA MarkUnpairedFollows ==
  ASSUME NEW t \in Transaction, NEW x \in Txactions, NEW k
  PROVE  /\ Follows(MarkUnpaired(t, x, k), t)
         /\ OnlyUnlinks(MarkUnpaired(t, x, k), t)
<1>1. Follows(LeaveBuddy(t, x, k), t) /\ OnlyUnlinks(LeaveBuddy(t, x, k), t)
  BY LeaveBuddyFollows
<1>2. LeaveBuddy(t, x, k) \in Transaction /\ x \in Rows
  BY <1>1, RowValues DEF Follows
<1>3. Follows(Put(LeaveBuddy(t, x, k), x, x), LeaveBuddy(t, x, k))
      /\ OnlyUnlinks(Put(LeaveBuddy(t, x, k), x, x), LeaveBuddy(t, x, k))
  <2> DEFINE left == LeaveBuddy(t, x, k)
  <2>1. left \in Transaction /\ x \in Rows BY <1>2
  <2> HIDE DEF left
  <2>2. Follows(Put(left, x, x), left)
    BY <2>1, PutFollows
  <2>3. \/ Put(left, x, x) = left
        \/ Put(left, x, x).links = [left.links EXCEPT ![x] = x]
    BY DEF Put
  <2>4. OnlyUnlinks(Put(left, x, x), left)
    BY <2>1, <2>3 DEF OnlyUnlinks, Transaction, Table
  <2> QED BY <2>2, <2>4 DEF left
<1>4. Follows(Put(LeaveBuddy(t, x, k), x, x), t)
  BY <1>1, <1>3, FollowsTransitive
<1>5. OnlyUnlinks(Put(LeaveBuddy(t, x, k), x, x), t)
  BY <1>1, <1>3 DEF OnlyUnlinks
<1>6. Follows(t, t) /\ OnlyUnlinks(t, t)
  BY DEF Follows, OnlyUnlinks
<1> QED BY <1>4, <1>5, <1>6 DEF MarkUnpaired

(* set_transfer_buddy!(nil).                                                *)
LEMMA ClearBuddyFollows ==
  ASSUME NEW t \in Transaction, NEW x, NEW k
  PROVE  Follows(ClearBuddy(t, x, k), t)
<1>1. Follows(LeaveBuddy(t, x, k), t)
  BY LeaveBuddyFollows
<1>2. LeaveBuddy(t, x, k) \in Transaction /\ None \in Rows
  BY <1>1, RowValues DEF Follows
<1>3. Follows(Put(LeaveBuddy(t, x, k), x, None), t)
  BY <1>1, <1>2, PutFollows, FollowsTransitive
<1>4. Follows(t, t)
  BY DEF Follows
<1> QED BY <1>3, <1>4 DEF ClearBuddy

(* The destruction of a row, with its callback.                             *)
LEMMA DestroyRowFollows ==
  ASSUME NEW t \in Transaction, NEW x, NEW k
  PROVE  Follows(DestroyRow(t, x, k), t)
<1>1. Follows(ClearBuddy(t, x, k), t) /\ Gone \in Rows
  BY ClearBuddyFollows, RowValues
<1>2. ClearBuddy(t, x, k) \in Transaction
  BY <1>1 DEF Follows
<1>3. Follows(Put(ClearBuddy(t, x, k), x, Gone), ClearBuddy(t, x, k))
  BY <1>1, <1>2, PutFollows
<1>4. Follows(Put(ClearBuddy(t, x, k), x, Gone), t)
  BY <1>1, <1>3, FollowsTransitive
<1> QED BY <1>4 DEF DestroyRow

(* set_transfer_buddy! with another row: the first half.                    *)
LEMMA FreedFollows ==
  ASSUME NEW t \in Transaction, NEW x, NEW k, NEW ky
  PROVE  LET freed == FreeBuddy(LeaveBuddy(t, x, k), ky)
         IN  Follows(freed, t) /\ OnlyUnlinks(freed, t)
<1> DEFINE left == LeaveBuddy(t, x, k)
<1>1. Follows(left, t) /\ OnlyUnlinks(left, t) /\ left \in Transaction
  BY LeaveBuddyFollows DEF Follows
<1>2. CASE Exists(left.links, ky)
  <2>1. ky \in Txactions BY <1>2 DEF Exists
  <2>2. /\ Follows(MarkUnpaired(left, ky, left.links[ky]), left)
        /\ OnlyUnlinks(MarkUnpaired(left, ky, left.links[ky]), left)
    BY <1>1, <2>1, MarkUnpairedFollows
  <2> HIDE DEF left
  <2>3. Follows(MarkUnpaired(left, ky, left.links[ky]), t)
    BY <1>1, <2>2, FollowsTransitive
  <2>4. OnlyUnlinks(MarkUnpaired(left, ky, left.links[ky]), t)
    BY <1>1, <2>2 DEF OnlyUnlinks
  <2> QED BY <1>2, <2>3, <2>4 DEF FreeBuddy, left
<1>3. CASE ~Exists(left.links, ky)
  BY <1>1, <1>3 DEF FreeBuddy
<1> QED BY <1>2, <1>3

(* set_transfer_buddy! with another row.                                    *)
LEMMA PairFollows ==
  ASSUME NEW t \in Transaction, NEW x \in Txactions, NEW y \in Txactions, NEW k, NEW ky
  PROVE  Follows(Pair(t, x, k, y, ky), t)
<1> DEFINE freed  == FreeBuddy(LeaveBuddy(t, x, k), ky)
           linked == IF k = y THEN freed ELSE Put(freed, x, y)
<1>1. Follows(freed, t) /\ freed \in Transaction
  BY FreedFollows DEF Follows
<1>2. x \in Rows /\ y \in Rows
  BY RowValues
<1> HIDE DEF freed
<1>3. Follows(linked, t) /\ linked \in Transaction
  <2>1. Follows(Put(freed, x, y), freed)
    BY <1>1, <1>2, PutFollows
  <2>2. Follows(Put(freed, x, y), t)
    BY <1>1, <2>1, FollowsTransitive
  <2>3. Follows(linked, t)
    BY <1>1, <2>2
  <2> QED BY <2>3 DEF Follows
<1> HIDE DEF linked
<1>4. Follows(Put(linked, y, x), t)
  BY <1>2, <1>3, PutFollows, FollowsTransitive
<1>5. Follows(t, t)
  BY DEF Follows
<1> QED BY <1>3, <1>4, <1>5 DEF Pair, freed, linked
----------------------------------------------------------------------------
(* A row that is in no mutual link can be given up without harm.            *)
LEMMA PutOnFreeRow ==
  ASSUME NEW t \in Transaction, NEW x \in Txactions, NEW k \in {x, None, Gone},
         Exists(t.links, x), Free(t, x)
  PROVE  OneSided(Put(t, x, k).links) \subseteq OneSided(t.links) \ {x}
<1>1. Put(t, x, k).links = [t.links EXCEPT ![x] = k]
  BY DEF Put
<1>2. t.links[x] # Purged /\ k \notin Txactions \ {x} /\ Gone # Purged
  BY RowValues, ValuesAssumption DEF Exists, ValuesAssumption
<1> QED BY <1>1, <1>2 DEF OneSided, Free, Transaction, Table

(* Once the buddy of x is left no row is mutual with x, and x at most has   *)
(* become one-sided by it.                                                  *)
LEMMA LeaveBuddyFrees ==
  ASSUME NEW t \in Transaction, NEW x \in Txactions, Exists(t.links, x)
  PROVE  LET left == LeaveBuddy(t, x, t.links[x])
         IN  /\ Free(left, x) /\ Exists(left.links, x)
             /\ OneSided(left.links)
                  \subseteq (OneSided(t.links) \ (left.written \ t.written)) \cup {x}
<1> DEFINE k == t.links[x]
           left == LeaveBuddy(t, x, k)
<1>1. CASE Exists(t.links, k) /\ t.links[k] = x
  <2>1. left = Put(t, k, None) /\ k \in Txactions
    BY <1>1 DEF LeaveBuddy, Exists
  <2>2. left.links = [t.links EXCEPT ![k] = None] /\ left.written = t.written \cup {k}
    BY <1>1, <2>1 DEF Put
  <2>3. Free(left, x) /\ Exists(left.links, x)
    BY <1>1, <2>1, <2>2, RowValues DEF Free, Exists, Transaction, Table
  <2>4. OneSided(left.links) \subseteq (OneSided(t.links) \ {k}) \cup {x}
    BY <1>1, <2>1, <2>2, RowValues DEF OneSided, Exists, Transaction, Table
  <2> QED BY <2>2, <2>3, <2>4
<1>2. CASE ~(Exists(t.links, k) /\ t.links[k] = x)
  <2>1. left = t
    BY <1>2 DEF LeaveBuddy
  <2>2. Free(t, x)
    BY <1>2, RowValues DEF Free, Exists
  <2> QED BY <2>1, <2>2
<1> QED BY <1>1, <1>2

(* set_transfer_buddy!(self) on an instance that is up to date.             *)
LEMMA MarkUnpairedHeals ==
  ASSUME NEW t \in Transaction, NEW x \in Txactions, Exists(t.links, x)
  PROVE  LET marked == MarkUnpaired(t, x, t.links[x])
         IN  Heals(marked, t) /\ marked.links[x] = x
<1> DEFINE left == LeaveBuddy(t, x, t.links[x])
<1>1. /\ Free(left, x) /\ Exists(left.links, x)
      /\ OneSided(left.links)
           \subseteq (OneSided(t.links) \ (left.written \ t.written)) \cup {x}
  BY LeaveBuddyFrees
<1>2. left \in Transaction
  BY LeaveBuddyFollows DEF Follows
<1>3. CASE t.links[x] = x
  BY <1>3 DEF MarkUnpaired, Heals
<1>4. CASE t.links[x] # x
  <2>1. MarkUnpaired(t, x, t.links[x]) = Put(left, x, x)
    BY <1>4 DEF MarkUnpaired
  <2> HIDE DEF left
  <2>2. OneSided(Put(left, x, x).links) \subseteq OneSided(left.links) \ {x}
    BY <1>1, <1>2, PutOnFreeRow
  <2>3. /\ Put(left, x, x).written = left.written \cup {x}
        /\ Put(left, x, x).links[x] = x
    BY <1>1, <1>2 DEF Put, Exists, Transaction, Table
  <2> QED BY <1>1, <2>1, <2>2, <2>3 DEF Heals
<1> QED BY <1>3, <1>4

(* set_transfer_buddy!(nil) on an instance that is up to date.              *)
LEMMA ClearBuddyHeals ==
  ASSUME NEW t \in Transaction, NEW x \in Txactions, Exists(t.links, x)
  PROVE  LET cleared == ClearBuddy(t, x, t.links[x])
         IN  Heals(cleared, t) /\ Free(cleared, x) /\ Exists(cleared.links, x)
<1> DEFINE left == LeaveBuddy(t, x, t.links[x])
<1>1. /\ Free(left, x) /\ Exists(left.links, x)
      /\ OneSided(left.links)
           \subseteq (OneSided(t.links) \ (left.written \ t.written)) \cup {x}
  BY LeaveBuddyFrees
<1>2. left \in Transaction
  BY LeaveBuddyFollows DEF Follows
<1>3. CASE ~Exists(t.links, t.links[x])
  <2>1. ClearBuddy(t, x, t.links[x]) = t
    BY <1>3 DEF ClearBuddy
  <2>2. Free(t, x)
    BY <1>3, RowValues DEF Free, Exists
  <2> QED BY <2>1, <2>2 DEF Heals
<1>4. CASE Exists(t.links, t.links[x])
  <2>1. ClearBuddy(t, x, t.links[x]) = Put(left, x, None)
    BY <1>4 DEF ClearBuddy
  <2> HIDE DEF left
  <2>2. OneSided(Put(left, x, None).links) \subseteq OneSided(left.links) \ {x}
    BY <1>1, <1>2, PutOnFreeRow
  <2>3. /\ Put(left, x, None).written = left.written \cup {x}
        /\ Put(left, x, None).links[x] = None
    BY <1>1, <1>2 DEF Put, Exists, Transaction, Table
  <2>4. Free(Put(left, x, None), x) /\ Exists(Put(left, x, None).links, x)
    BY <2>3, RowValues DEF Free, Exists
  <2> QED BY <1>1, <2>1, <2>2, <2>3, <2>4 DEF Heals
<1> QED BY <1>3, <1>4

(* The destruction of a row whose instance is up to date, or remembers a    *)
(* buddy that is gone and that no longer is in the row.                     *)
LEMMA DestroyRowHeals ==
  ASSUME NEW t \in Transaction, NEW x \in Txactions, NEW k, Exists(t.links, x),
         k = t.links[x] \/ (~Exists(t.links, k) /\ t.links[x] = None)
  PROVE  LET u == DestroyRow(t, x, k)
         IN  Heals(u, t) /\ u.links[x] = Gone
<1> DEFINE cleared == ClearBuddy(t, x, k)
<1>1. Heals(cleared, t) /\ Free(cleared, x) /\ Exists(cleared.links, x)
  <2>1. CASE k = t.links[x]
    BY <2>1, ClearBuddyHeals
  <2>2. CASE ~Exists(t.links, k) /\ t.links[x] = None
    BY <2>2, RowValues DEF ClearBuddy, Heals, Free
  <2> QED BY <2>1, <2>2
<1>2. cleared \in Transaction
  BY ClearBuddyFollows DEF Follows
<1> HIDE DEF cleared
<1>3. OneSided(Put(cleared, x, Gone).links) \subseteq OneSided(cleared.links) \ {x}
  BY <1>1, <1>2, PutOnFreeRow
<1>4. /\ Put(cleared, x, Gone).written = cleared.written \cup {x}
      /\ Put(cleared, x, Gone).links[x] = Gone
  BY <1>1, <1>2 DEF Put, Exists, Transaction, Table
<1> QED BY <1>1, <1>3, <1>4 DEF DestroyRow, Heals, cleared

(* Line 110 lets the former buddy of the new buddy y go.                    *)
LEMMA FreeBuddyFrees ==
  ASSUME NEW t \in Transaction, NEW x \in Txactions, NEW y \in Txactions \ {x},
         Exists(t.links, x), Exists(t.links, y), Free(t, x)
  PROVE  LET freed == FreeBuddy(t, t.links[y])
         IN  /\ freed \in Transaction /\ t.written \subseteq freed.written
             /\ Heals(freed, t)
             /\ Exists(freed.links, x) /\ Exists(freed.links, y)
             /\ Free(freed, x) /\ Free(freed, y)
             /\ t.links[y] = x => freed.links[y] = x
<1> DEFINE z == t.links[y]
           marked == MarkUnpaired(t, z, t.links[z])
<1>1. CASE ~Exists(t.links, z)
  <2>1. FreeBuddy(t, z) = t
    BY <1>1 DEF FreeBuddy
  <2>2. Free(t, y)
    BY <1>1, RowValues DEF Free, Exists
  <2> QED BY <1>1, <2>1, <2>2 DEF Heals
<1>2. CASE Exists(t.links, z)
  <2>1. FreeBuddy(t, z) = marked
    BY <1>2 DEF FreeBuddy
  <2>2. z \in Txactions
    BY <1>2 DEF Exists
  <2>3. Heals(marked, t) /\ marked.links[z] = z
    BY <1>2, <2>2, MarkUnpairedHeals
  <2>4. Follows(marked, t) /\ OnlyUnlinks(marked, t)
    BY <2>2, MarkUnpairedFollows
  <2>5. z = x => marked.links[y] = x
    <3> SUFFICES ASSUME z = x PROVE marked.links[y] = x
      OBVIOUS
    <3>1. LeaveBuddy(t, x, t.links[x]) = t \/ t.links[x] = x
      BY DEF LeaveBuddy, Free, Exists
    <3>2. marked = t \/ marked = Put(t, x, x)
      BY <3>1 DEF MarkUnpaired
    <3>3. t.links[y] = x /\ Put(t, x, x).links[y] = t.links[y]
      BY DEF Put, Transaction, Table
    <3> QED BY <3>2, <3>3
  <2> HIDE DEF marked
  <2>6. marked \in Transaction /\ t.written \subseteq marked.written
    BY <2>4 DEF Follows
  <2>7. \A v \in Txactions : Exists(t.links, v) => Exists(marked.links, v)
    BY <2>4, RowValues DEF OnlyUnlinks, Exists
  <2>8. Free(marked, x)
    BY <2>4, RowValues DEF Free, OnlyUnlinks
  <2>9. Free(marked, y)
    <3> SUFFICES ASSUME NEW v \in Txactions \ {y},
                        marked.links[v] = y, marked.links[y] = v
                 PROVE  FALSE
      BY DEF Free
    <3>1. t.links[y] = v
      BY <2>4, RowValues DEF OnlyUnlinks
    <3> QED BY <2>3, <3>1
  <2> QED BY <2>1, <2>3, <2>5, <2>6, <2>7, <2>8, <2>9
<1> QED BY <1>1, <1>2

(* set_transfer_buddy! with another row, on instances that are up to date.  *)
LEMMA PairHeals ==
  ASSUME NEW t \in Transaction, NEW x \in Txactions, NEW y \in Txactions \ {x},
         Exists(t.links, x), Exists(t.links, y)
  PROVE  Heals(Pair(t, x, t.links[x], y, t.links[y]), t)
<1> DEFINE k     == t.links[x]
           left  == LeaveBuddy(t, x, k)
           freed == FreeBuddy(left, t.links[y])
           pair  == Pair(t, x, k, y, t.links[y])
<1>1. CASE k = y
  BY <1>1 DEF Pair, Heals
<1>2. CASE k # y
  <2>1. /\ Free(left, x) /\ Exists(left.links, x)
        /\ OneSided(left.links)
             \subseteq (OneSided(t.links) \ (left.written \ t.written)) \cup {x}
    BY LeaveBuddyFrees
  <2>2. /\ left \in Transaction /\ t.written \subseteq left.written
        /\ left.links[y] = t.links[y]
    BY <1>2, LeaveBuddyFollows DEF Follows
  <2>3. Exists(left.links, y)
    BY <2>2 DEF Exists
  <2>4. \/ t.links[y] = x /\ pair = Put(freed, x, y)
        \/ t.links[y] # x /\ pair = Put(Put(freed, x, y), y, x)
    BY <1>2 DEF Pair
  <2> HIDE DEF left, pair
  <2>5. /\ freed \in Transaction /\ left.written \subseteq freed.written
        /\ Heals(freed, left)
        /\ Exists(freed.links, x) /\ Exists(freed.links, y)
        /\ Free(freed, x) /\ Free(freed, y)
        /\ t.links[y] = x => freed.links[y] = x
    BY <2>1, <2>2, <2>3, FreeBuddyFrees
  <2> HIDE DEF freed
  <2>6. /\ pair.links = [freed.links EXCEPT ![x] = y, ![y] = x]
        /\ pair.written \subseteq freed.written \cup {x, y}
    BY <2>4, <2>5, RowValues DEF Put, Exists, Transaction, Table
  <2>7. freed.links[x] # Purged /\ freed.links[y] # Purged
    BY <2>5, RowValues DEF Exists
  <2>8. OneSided(pair.links) \subseteq OneSided(freed.links) \ {x, y}
    BY <2>5, <2>6, <2>7 DEF OneSided, Free, Transaction, Table
  <2>9. Heals(pair, t)
    BY <2>1, <2>2, <2>5, <2>6, <2>8 DEF Heals
  <2> QED BY <2>9 DEF pair
<1> QED BY <1>1, <1>2
----------------------------------------------------------------------------
(* Requests *)

(* The five things a request does, from what the table is now               *)
LEMMA WorkFollows ==
  ASSUME TypeOK, NEW x \in Txactions, NEW k
  PROVE  /\ Snapshot \in Transaction
         /\ Follows(MarkUnpaired(Snapshot, x, k), Snapshot)
         /\ Follows(ClearBuddy(Snapshot, x, k), Snapshot)
         /\ Follows(DestroyRow(Snapshot, x, k), Snapshot)
         /\ \A y \in Txactions : \A ky : Follows(Pair(Snapshot, x, k, y, ky), Snapshot)
<1>1. Snapshot \in Transaction
  BY DEF TypeOK, Snapshot, Transaction, Table
<1> QED
  BY <1>1, MarkUnpairedFollows, ClearBuddyFollows, DestroyRowFollows, PairFollows

(* A request that is ready to commit what it has done from the table as it  *)
(* is now.                                                                  *)
LEMMA DoKeepsType ==
  ASSUME TypeOK, NEW r \in Requests, NEW t, Follows(t, Snapshot), Do(r, t, link)
  PROVE  /\ base'    \in [Requests -> Table]
         /\ view'    \in [Requests -> Table]
         /\ written' \in [Requests -> SUBSET Txactions]
         /\ base'[r] = link
         /\ [links |-> view'[r], written |-> written'[r]] = t
         /\ \A q \in Requests \ {r} : /\ base'[q] = base[q]
                                      /\ view'[q] = view[q]
                                      /\ written'[q] = written[q]
<1>1. t \in Transaction
  BY DEF Follows
<1>2. t = [links |-> t.links, written |-> t.written]
      /\ t.links \in Table /\ t.written \in SUBSET Txactions
  BY <1>1 DEF Transaction
<1>3. /\ base  \in [Requests -> Table] /\ link \in Table
      /\ view  \in [Requests -> Table]
      /\ written \in [Requests -> SUBSET Txactions]
  BY DEF TypeOK, Table
<1> QED BY <1>2, <1>3 DEF Do

(* No request touches what another one holds.                               *)
Untouched(q) ==
  /\ step'[q] = step[q] /\ me'[q] = me[q] /\ other'[q] = other[q]
  /\ memory'[q] = memory[q] /\ todo'[q] = todo[q]
  /\ base'[q] = base[q] /\ view'[q] = view[q] /\ written'[q] = written[q]

LEMMA UntouchedKeepsStep ==
  ASSUME NEW q, StepInv(q), Untouched(q)
  PROVE  StepInv(q)'
BY DEF StepInv, Decided, Untouched

(* One step of request r keeps the types, what r has in hand fits its new   *)
(* step, and the other requests keep what they have.                        *)
Keeps(r) == TypeOK' /\ StepInv(r)' /\ \A q \in Requests \ {r} : Untouched(q)

LEMMA HoldKeepsType ==
  ASSUME TypeOK, NEW r \in Requests, NEW S, Hold(r, S)
  PROVE  /\ memory' \in [Requests -> Table]
         /\ \A z \in Txactions :
              memory'[r][z] = IF z \in S THEN link[z] ELSE memory[r][z]
         /\ \A q \in Requests \ {r} : memory'[q] = memory[q]
BY DEF TypeOK, Hold, Table

LEMMA LoadTxactionKeeps ==
  ASSUME TypeOK, NEW r \in Requests, StepInv(r), NEW x \in Txactions, LoadTxaction(r, x)
  PROVE  Keeps(r)
<1>1. /\ memory' \in [Requests -> Table]
      /\ memory'[r][x] = link[x]
      /\ \A q \in Requests \ {r} : memory'[q] = memory[q]
  BY HoldKeepsType DEF LoadTxaction
<1>2. TypeOK'
  BY <1>1 DEF TypeOK, LoadTxaction, Goto, Table, Keys
<1>3. StepInv(r)'
  <2>1. /\ step'[r] = "loaded" /\ me'[r] = x /\ todo'[r] = todo[r]
        /\ other'[r] = other[r] /\ step[r] = "idle"
    BY DEF TypeOK, LoadTxaction, Goto
  <2>2. \A z \in todo[r] : memory'[r][z] \in Keys
    <3>1. \A z \in Txactions :
            memory'[r][z] = IF z \in {x} THEN link[z] ELSE memory[r][z]
      BY HoldKeepsType DEF LoadTxaction
    <3>2. link[x] \in Keys /\ todo[r] \subseteq Txactions
      BY DEF LoadTxaction, Exists, TypeOK
    <3> QED BY <3>1, <3>2 DEF StepInv
  <2>3. memory'[r][x] \in Keys
    BY <1>1 DEF LoadTxaction, Exists
  <2> QED BY <2>1, <2>2, <2>3 DEF StepInv
<1>4. \A q \in Requests \ {r} : Untouched(q)
  BY <1>1 DEF Untouched, TypeOK, LoadTxaction, Goto
<1> QED BY <1>2, <1>3, <1>4 DEF Keeps

(* A step that ends in Do: what is left to show of each of them.            *)
LEMMA DoingKeeps ==
  ASSUME TypeOK, NEW r \in Requests, NEW t, NEW x, NEW y,
         Follows(t, Snapshot), Do(r, t, link), Goto(r, "commit"), link' = link,
         x \in Txactions, y = None \/ y \in Txactions \ {x},
         me' = [me EXCEPT ![r] = x], other' = [other EXCEPT ![r] = y],
         memory' \in [Requests -> Table],
         \A q \in Requests \ {r} : memory'[q] = memory[q],
         memory'[r][x] \in Keys, y # None => memory'[r][y] \in Keys,
         \/ y # None /\ t = Pair(Snapshot, x, memory'[r][x], y, memory'[r][y])
         \/ t = MarkUnpaired(Snapshot, x, memory'[r][x])
         \/ t = ClearBuddy(Snapshot, x, memory'[r][x])
         \/ y # None /\ t = ClearBuddy(Snapshot, y, memory'[r][y])
         \/ t = DestroyRow(Snapshot, x, memory'[r][x]),
         todo' \in [Requests -> SUBSET Txactions],
         \A q \in Requests \ {r} : todo'[q] = todo[q],
         \A z \in todo'[r] : memory'[r][z] \in Keys
  PROVE  Keeps(r)
<1>1. /\ base'    \in [Requests -> Table]
      /\ view'    \in [Requests -> Table]
      /\ written' \in [Requests -> SUBSET Txactions]
      /\ base'[r] = link
      /\ [links |-> view'[r], written |-> written'[r]] = t
      /\ \A q \in Requests \ {r} : /\ base'[q] = base[q]
                                   /\ view'[q] = view[q]
                                   /\ written'[q] = written[q]
  BY DoKeepsType
<1>2. x \in Keys /\ y \in Keys
  BY RowValues
<1>3. TypeOK'
  BY <1>1, <1>2 DEF TypeOK, Goto, Table
<1>4. step'[r] = "commit" /\ me'[r] = x /\ other'[r] = y
  BY DEF TypeOK, Goto
<1>5. Decided(r)'
  BY <1>1, <1>4 DEF Decided, Snapshot
<1>6. StepInv(r)'
  BY <1>4, <1>5 DEF StepInv
<1>7. \A q \in Requests \ {r} : Untouched(q)
  BY <1>1 DEF Untouched, TypeOK, Goto
<1> QED BY <1>3, <1>6, <1>7 DEF Keeps

LEMMA UpdatePairedKeeps ==
  ASSUME TypeOK, NEW r \in Requests, StepInv(r), NEW y \in Txactions, UpdatePaired(r, y)
  PROVE  Keeps(r)
<1> DEFINE x == me[r]
           t == Pair(Snapshot, x, memory[r][x], y, link[y])
<1>1. x \in Txactions /\ y # x /\ memory[r][x] \in Keys /\ link[y] \in Keys
  BY DEF StepInv, UpdatePaired, Exists
<1>2. /\ memory' \in [Requests -> Table]
      /\ memory'[r][x] = memory[r][x] /\ memory'[r][y] = link[y]
      /\ \A z \in Txactions : memory[r][z] \in Keys => memory'[r][z] \in Keys
      /\ \A q \in Requests \ {r} : memory'[q] = memory[q]
  BY <1>1, HoldKeepsType DEF UpdatePaired
<1>3. Follows(t, Snapshot) /\ Do(r, t, link)
  BY <1>1, WorkFollows DEF UpdatePaired
<1>4. t = Pair(Snapshot, x, memory'[r][x], y, memory'[r][y])
  BY <1>2
<1>5. /\ link' = link /\ Goto(r, "commit") /\ todo' = todo
      /\ me' = [me EXCEPT ![r] = x] /\ other' = [other EXCEPT ![r] = y]
      /\ todo \in [Requests -> SUBSET Txactions]
  BY DEF UpdatePaired, TypeOK
<1>6. \A z \in todo'[r] : memory'[r][z] \in Keys
  BY <1>2, <1>5 DEF StepInv
<1>7. y # None /\ memory'[r][x] \in Keys /\ memory'[r][y] \in Keys
  BY <1>1, <1>2, RowValues
<1> HIDE DEF t, x
<1> QED BY <1>1, <1>2, <1>3, <1>4, <1>5, <1>6, <1>7, DoingKeeps

LEMMA UpdateUnpairedKeeps ==
  ASSUME TypeOK, NEW r \in Requests, StepInv(r), UpdateUnpaired(r) \/ UpdateNoTransfer(r)
  PROVE  Keeps(r)
<1> DEFINE x == me[r]
           m == MarkUnpaired(Snapshot, x, memory[r][x])
           c == ClearBuddy(Snapshot, x, memory[r][x])
<1>1. x \in Txactions /\ memory[r][x] \in Keys /\ other[r] = None
  BY DEF StepInv, UpdateUnpaired, UpdateNoTransfer
<1>2. Follows(m, Snapshot) /\ Follows(c, Snapshot) /\ (Do(r, m, link) \/ Do(r, c, link))
  BY <1>1, WorkFollows DEF UpdateUnpaired, UpdateNoTransfer
<1>3. /\ link' = link /\ Goto(r, "commit") /\ todo' = todo /\ memory' = memory
      /\ me' = [me EXCEPT ![r] = x] /\ other' = [other EXCEPT ![r] = None]
      /\ todo \in [Requests -> SUBSET Txactions] /\ memory \in [Requests -> Table]
  BY <1>1 DEF UpdateUnpaired, UpdateNoTransfer, TypeOK, Table
<1>4. \A z \in todo'[r] : memory'[r][z] \in Keys
  BY <1>3 DEF StepInv
<1>5. m = MarkUnpaired(Snapshot, x, memory'[r][x]) /\ c = ClearBuddy(Snapshot, x, memory'[r][x])
  BY <1>3
<1> HIDE DEF m, c, x
<1>6. CASE Do(r, m, link)
  BY <1>1, <1>2, <1>3, <1>4, <1>5, <1>6, DoingKeeps
<1>7. CASE Do(r, c, link)
  BY <1>1, <1>2, <1>3, <1>4, <1>5, <1>7, DoingKeeps
<1> QED BY <1>2, <1>6, <1>7

LEMMA CreateTxactionKeeps ==
  ASSUME TypeOK, NEW r \in Requests, StepInv(r), NEW x \in Txactions, CreateTxaction(r, x)
  PROVE  Keeps(r)
<1>1. /\ step[r] = "idle" /\ step'[r] = "saved" /\ me'[r] = x
      /\ other' = other /\ todo' = todo /\ todo[r] \subseteq Txactions
  BY DEF TypeOK, CreateTxaction, Goto
<1>2. /\ memory' \in [Requests -> Table]
      /\ memory'[r] = [memory[r] EXCEPT ![x] = None]
      /\ \A q \in Requests \ {r} : memory'[q] = memory[q]
  BY RowValues DEF TypeOK, CreateTxaction, Table
<1>3. TypeOK'
  BY <1>2, RowValues DEF TypeOK, CreateTxaction, Goto, Table
<1>4. \A z \in Txactions : memory'[r][z] = IF z = x THEN None ELSE memory[r][z]
  BY <1>2 DEF TypeOK
<1>5. StepInv(r)'
  BY <1>1, <1>4, RowValues DEF StepInv
<1>6. \A q \in Requests \ {r} : Untouched(q)
  BY <1>2 DEF Untouched, TypeOK, CreateTxaction, Goto
<1> QED BY <1>3, <1>5, <1>6 DEF Keeps

LEMMA FindMatchKeeps ==
  ASSUME TypeOK, NEW r \in Requests, StepInv(r), NEW y \in Txactions, FindMatch(r, y)
  PROVE  Keeps(r)
<1>1. /\ step[r] = "saved" /\ step'[r] = "found" /\ me' = me /\ other'[r] = y
      /\ y # me[r] /\ todo' = todo /\ todo[r] \subseteq Txactions
  BY DEF TypeOK, FindMatch, Goto
<1>2. /\ memory' \in [Requests -> Table]
      /\ \A z \in Txactions :
           memory'[r][z] = IF z \in {y} THEN link[z] ELSE memory[r][z]
      /\ \A q \in Requests \ {r} : memory'[q] = memory[q]
  BY HoldKeepsType DEF FindMatch
<1>3. link[y] \in Keys
  BY DEF FindMatch, Exists
<1>4. TypeOK'
  BY <1>2, RowValues DEF TypeOK, FindMatch, Goto, Table
<1>5. StepInv(r)'
  BY <1>1, <1>2, <1>3 DEF StepInv
<1>6. \A q \in Requests \ {r} : Untouched(q)
  BY <1>2 DEF Untouched, TypeOK, FindMatch, Goto
<1> QED BY <1>4, <1>5, <1>6 DEF Keeps

LEMMA AttachMatchKeeps ==
  ASSUME TypeOK, NEW r \in Requests, StepInv(r), AttachMatch(r) \/ ClearAmbiguous(r)
  PROVE  Keeps(r)
<1> DEFINE x == me[r]
           y == other[r]
           p == Pair(Snapshot, x, memory[r][x], y, memory[r][y])
           c == ClearBuddy(Snapshot, y, memory[r][y])
<1>1. /\ x \in Txactions /\ memory[r][x] \in Keys
      /\ y \in Txactions \ {x} /\ memory[r][y] \in Keys /\ y # None
  BY RowValues DEF StepInv, AttachMatch, ClearAmbiguous
<1>2. Follows(p, Snapshot) /\ Follows(c, Snapshot) /\ (Do(r, p, link) \/ Do(r, c, link))
  BY <1>1, WorkFollows DEF AttachMatch, ClearAmbiguous
<1>3. /\ link' = link /\ Goto(r, "commit") /\ todo' = todo /\ memory' = memory
      /\ me' = [me EXCEPT ![r] = x] /\ other' = [other EXCEPT ![r] = y]
      /\ todo \in [Requests -> SUBSET Txactions] /\ memory \in [Requests -> Table]
  BY <1>1 DEF AttachMatch, ClearAmbiguous, TypeOK, Table
<1>4. \A z \in todo'[r] : memory'[r][z] \in Keys
  BY <1>3 DEF StepInv
<1>5. /\ p = Pair(Snapshot, x, memory'[r][x], y, memory'[r][y])
      /\ c = ClearBuddy(Snapshot, y, memory'[r][y])
  BY <1>3
<1> HIDE DEF p, c, x, y
<1>6. CASE Do(r, p, link)
  BY <1>1, <1>2, <1>3, <1>4, <1>5, <1>6, DoingKeeps
<1>7. CASE Do(r, c, link)
  BY <1>1, <1>2, <1>3, <1>4, <1>5, <1>7, DoingKeeps
<1> QED BY <1>2, <1>6, <1>7

LEMMA LoadUploadKeeps ==
  ASSUME TypeOK, NEW r \in Requests, StepInv(r), NEW S \in SUBSET Txactions, LoadUpload(r, S)
  PROVE  Keeps(r)
<1>1. /\ step[r] = "idle" /\ step'[r] = "deleting" /\ other' = other /\ todo'[r] = S
  BY DEF TypeOK, LoadUpload, Goto
<1>2. /\ memory' \in [Requests -> Table]
      /\ \A z \in Txactions :
           memory'[r][z] = IF z \in S THEN link[z] ELSE memory[r][z]
      /\ \A q \in Requests \ {r} : memory'[q] = memory[q]
  BY HoldKeepsType DEF LoadUpload
<1>3. TypeOK'
  BY <1>2 DEF TypeOK, LoadUpload, Goto, Table
<1>4. StepInv(r)'
  BY <1>1, <1>2 DEF StepInv, LoadUpload, Exists
<1>5. \A q \in Requests \ {r} : Untouched(q)
  BY <1>2 DEF Untouched, TypeOK, LoadUpload, Goto
<1> QED BY <1>3, <1>4, <1>5 DEF Keeps

LEMMA DestroyTxactionKeeps ==
  ASSUME TypeOK, NEW r \in Requests, StepInv(r), NEW x \in Txactions, DestroyTxaction(r, x)
  PROVE  Keeps(r)
<1> DEFINE t == DestroyRow(Snapshot, x, memory[r][x])
<1>1. /\ step[r] = "deleting" /\ x \in todo[r] /\ memory[r][x] \in Keys /\ other[r] = None
  BY DEF StepInv, DestroyTxaction
<1>2. Follows(t, Snapshot) /\ Do(r, t, link)
  BY WorkFollows DEF DestroyTxaction
<1>3. /\ link' = link /\ Goto(r, "commit") /\ memory' = memory
      /\ me' = [me EXCEPT ![r] = x] /\ other' = [other EXCEPT ![r] = None]
      /\ todo' \in [Requests -> SUBSET Txactions] /\ todo'[r] = todo[r] \ {x}
      /\ \A q \in Requests \ {r} : todo'[q] = todo[q]
      /\ memory \in [Requests -> Table]
  BY <1>1 DEF DestroyTxaction, TypeOK, Table
<1>4. \A z \in todo'[r] : memory'[r][z] \in Keys
  BY <1>3 DEF StepInv
<1>5. t = DestroyRow(Snapshot, x, memory'[r][x])
  BY <1>3
<1> HIDE DEF t
<1> QED BY <1>1, <1>2, <1>3, <1>4, <1>5, DoingKeeps

(* The end of a request, and of one of its database transactions.           *)
LEMMA FinishKeeps ==
  ASSUME TypeOK, NEW r \in Requests, StepInv(r), link' \in Table,
         \/ Finish(r)
         \/ Goto(r, "deleting") /\ Release(r) /\ UNCHANGED <<memory, todo>>
  PROVE  Keeps(r)
<1>1. Nothing \in Table
  BY RowValues DEF Nothing, Table
<1>2. TypeOK'
  <2>0. Release(r) /\ None \in Keys
    BY RowValues DEF Finish
  <2>1. /\ me' \in [Requests -> Keys] /\ other' \in [Requests -> Keys]
        /\ base' \in [Requests -> Table] /\ view' \in [Requests -> Table]
        /\ written' \in [Requests -> SUBSET Txactions]
    BY <1>1, <2>0 DEF TypeOK, Release, Table
  <2>2. /\ memory' \in [Requests -> Table]
        /\ todo' \in [Requests -> SUBSET Txactions]
    BY <1>1 DEF TypeOK, Finish, Table
  <2>3. step' \in [Requests -> {"idle", "loaded", "saved", "found", "deleting", "commit"}]
    BY DEF TypeOK, Finish, Goto
  <2> QED BY <2>1, <2>2, <2>3 DEF TypeOK, Table
<1>3. StepInv(r)'
  BY DEF StepInv, TypeOK, Finish, Release, Goto
<1>4. \A q \in Requests \ {r} : Untouched(q)
  BY DEF Untouched, TypeOK, Finish, Release, Goto
<1> QED BY <1>2, <1>3, <1>4 DEF Keeps

LEMMA EndingKeeps ==
  ASSUME TypeOK, NEW r \in Requests, StepInv(r), NoMatch(r) \/ Commit(r) \/ Rollback(r)
  PROVE  Keeps(r)
<1>1. link' \in Table
  BY DEF TypeOK, NoMatch, Commit, Rollback, Apply, Table
<1> QED BY <1>1, FinishKeeps DEF NoMatch, Commit, Rollback

LEMMA PurgeCopyKeeps ==
  ASSUME TypeOK, NEW r \in Requests, StepInv(r), NEW x \in Txactions, PurgeCopy(r, x)
  PROVE  Keeps(r)
<1>1. TypeOK'
  BY RowValues DEF TypeOK, PurgeCopy, requestVars
<1>2. \A q \in Requests : Untouched(q)
  BY DEF Untouched, PurgeCopy, requestVars
<1> QED BY <1>1, <1>2, UntouchedKeepsStep DEF Keeps

LEMMA WorkKeeps ==
  ASSUME IInv, NEW r \in Requests, Work(r)
  PROVE  Keeps(r) /\ IInv'
<1>1. TypeOK /\ \A q \in Requests : StepInv(q)
  BY DEF IInv
<1>2. Keeps(r)
  BY <1>1, LoadTxactionKeeps, UpdatePairedKeeps, UpdateUnpairedKeeps, CreateTxactionKeeps,
     FindMatchKeeps, AttachMatchKeeps, LoadUploadKeeps, DestroyTxactionKeeps,
     EndingKeeps, PurgeCopyKeeps DEF Work
<1> QED BY <1>1, <1>2, UntouchedKeepsStep DEF Keeps, IInv

(* What a request has in hand at each of its steps, and that a commit is    *)
(* one of the five things a request can do, done on the table it read.      *)
THEOREM TransfersInvariant == Spec => []IInv
<1>1. Init => IInv
  <2> SUFFICES ASSUME Init PROVE IInv
    OBVIOUS
  <2>1. TypeOK
    BY RowValues DEF Init, TypeOK, Nothing
  <2>2. \A r \in Requests : StepInv(r)
    BY DEF Init, StepInv
  <2> QED BY <2>1, <2>2 DEF IInv
<1>2. IInv /\ [Next]_vars => IInv'
  <2> SUFFICES ASSUME IInv, [Next]_vars PROVE IInv'
    OBVIOUS
  <2>1. CASE Next
    BY <2>1, WorkKeeps DEF Next
  <2>2. CASE UNCHANGED vars
    <3>1. TypeOK' /\ \A q \in Requests : Untouched(q)
      BY <2>2 DEF IInv, TypeOK, Untouched, vars, requestVars
    <3> QED BY <3>1, UntouchedKeepsStep DEF IInv
  <2> QED BY <2>1, <2>2
<1> QED BY <1>1, <1>2, PTL DEF Spec

(* Every variable keeps its type.                                           *)
THEOREM TransfersTypeCorrect == Spec => []TypeOK
<1>1. IInv => TypeOK
  BY DEF IInv
<1> QED BY <1>1, TransfersInvariant, PTL

(* What a commit leaves is what the request saw, when nothing changed in    *)
(* between.                                                                 *)
LEMMA CommitPublishes ==
  ASSUME IInv, NEW r \in Requests, Commit(r), base[r] = link
  PROVE  link' = view[r]
<1> DEFINE t == [links |-> view[r], written |-> written[r]]
<1>1. /\ TypeOK /\ Decided(r) /\ me[r] \in Txactions
      /\ other[r] # None => other[r] \in Txactions
      /\ [links |-> base[r], written |-> {}] = Snapshot
  BY DEF IInv, StepInv, Commit, Decided, TypeOK, Keys, Snapshot
<1>2. \/ other[r] # None /\ t = Pair(Snapshot, me[r], memory[r][me[r]], other[r], memory[r][other[r]])
      \/ t = MarkUnpaired(Snapshot, me[r], memory[r][me[r]])
      \/ t = ClearBuddy(Snapshot, me[r], memory[r][me[r]])
      \/ other[r] # None /\ t = ClearBuddy(Snapshot, other[r], memory[r][other[r]])
      \/ t = DestroyRow(Snapshot, me[r], memory[r][me[r]])
  BY <1>1 DEF Decided
<1> HIDE DEF t
<1>3. Follows(t, Snapshot)
  BY <1>1, <1>2, WorkFollows
<1>4. \A z \in Txactions : IF z \in written[r] THEN Exists(link, z) ELSE view[r][z] = link[z]
  BY <1>3 DEF Follows, Snapshot, t
<1>5. link' = [z \in Txactions |-> view[r][z]]
  BY <1>4 DEF Commit, Apply
<1> QED BY <1>1, <1>5 DEF TypeOK

(* Whatever earlier races left behind: a request commits only rows that are *)
(* mutual, and damages no other transfer, unless something it read changed  *)
(* before its commit.                                                       *)
LEMMA CurrentCommitHeals ==
  ASSUME IInv, NEW r \in Requests, Commit(r), Current(r)
  PROVE  OneSided(link') \subseteq OneSided(link) \ written[r]
<1> DEFINE t == [links |-> view[r], written |-> written[r]]
           x == me[r]
           y == other[r]
<1>1. /\ TypeOK /\ Decided(r) /\ base[r] = link
      /\ [links |-> base[r], written |-> {}] = Snapshot
  BY DEF IInv, StepInv, Commit, Current, Snapshot
<1>2. /\ x \in Txactions /\ memory[r][x] = link[x] /\ Exists(link, x)
      /\ y # None => /\ y \in Txactions \ {x} /\ memory[r][y] = link[y] /\ Exists(link, y)
  BY <1>1, RowValues DEF Decided, Current, Exists, TypeOK, Keys
<1>3. \/ y # None /\ t = Pair(Snapshot, x, link[x], y, link[y])
      \/ t = MarkUnpaired(Snapshot, x, link[x])
      \/ t = ClearBuddy(Snapshot, x, link[x])
      \/ y # None /\ t = ClearBuddy(Snapshot, y, link[y])
      \/ t = DestroyRow(Snapshot, x, link[x])
  BY <1>1, <1>2 DEF Decided
<1>4. Snapshot \in Transaction /\ Snapshot.links = link /\ Snapshot.written = {}
  BY <1>1, WorkFollows, <1>2 DEF Snapshot
<1> HIDE DEF t, x, y
<1>6. Heals(t, Snapshot)
  BY <1>2, <1>3, <1>4, PairHeals, MarkUnpairedHeals, ClearBuddyHeals, DestroyRowHeals
<1>7. link' = view[r]
  BY <1>1, CommitPublishes DEF t
<1> QED BY <1>4, <1>6, <1>7 DEF Heals, t

THEOREM CommitsHeal == Spec => CurrentCommitsHeal
<1>1. IInv /\ [Next]_vars =>
        [\A r \in Requests : Commit(r) /\ Current(r)
           => OneSided(link') \subseteq OneSided(link) \ written[r]]_vars
  BY CurrentCommitHeals
<1> QED BY <1>1, TransfersInvariant, PTL DEF Spec, CurrentCommitsHeal

----------------------------------------------------------------------------
(* Requests that do not overlap *)

(* An idle request has nothing in hand that could become old.               *)
LEMMA IdleIsAlone ==
  ASSUME NEW q, StepInv(q), step[q] = "idle"
  PROVE  AloneInv(q)
BY DEF StepInv, AloneInv

(* Everything but a commit, by the request that runs.                       *)
LEMMA AloneReading ==
  ASSUME TypeOK, NEW r \in Requests, StepInv(r), AloneInv(r),
         NEW x \in Txactions,
         \/ LoadTxaction(r, x) \/ CreateTxaction(r, x) \/ FindMatch(r, x)
         \/ PurgeCopy(r, x)
  PROVE  AloneInv(r)'
<1>1. CASE LoadTxaction(r, x)
  <2>1. memory'[r][x] = link[x]
    BY <1>1, HoldKeepsType DEF LoadTxaction
  <2>2. /\ link' = link /\ step'[r] = "loaded" /\ me'[r] = x
        /\ other'[r] = None /\ todo'[r] = {}
    BY <1>1 DEF LoadTxaction, Goto, TypeOK, StepInv
  <2> QED BY <2>1, <2>2 DEF AloneInv
<1>2. CASE CreateTxaction(r, x)
  <2>1. /\ link'[x] = None /\ memory'[r][x] = None /\ step'[r] = "saved"
        /\ me'[r] = x /\ other'[r] = None /\ todo'[r] = {}
    BY <1>2 DEF CreateTxaction, Goto, TypeOK, StepInv
  <2> QED BY <2>1 DEF AloneInv
<1>3. CASE FindMatch(r, x)
  <2>1. /\ me[r] \in Txactions /\ x # me[r] /\ memory[r][me[r]] = link[me[r]]
    BY <1>3 DEF FindMatch, StepInv, AloneInv
  <2>2. memory'[r][x] = link[x] /\ memory'[r][me[r]] = link[me[r]]
    BY <1>3, <2>1, HoldKeepsType DEF FindMatch
  <2>3. /\ link' = link /\ step'[r] = "found" /\ me'[r] = me[r]
        /\ other'[r] = x /\ todo'[r] = {}
    BY <1>3 DEF FindMatch, Goto, TypeOK, StepInv
  <2> QED BY <2>2, <2>3 DEF AloneInv
<1>4. CASE PurgeCopy(r, x)
  <2>1. step'[r] = "idle" /\ other'[r] = None /\ todo'[r] = {}
    BY <1>4 DEF PurgeCopy, requestVars, StepInv
  <2> QED BY <2>1 DEF AloneInv
<1> QED BY <1>1, <1>2, <1>3, <1>4

LEMMA AloneDoing ==
  ASSUME TypeOK, NEW r \in Requests, StepInv(r), AloneInv(r),
         \/ \E y \in Txactions : UpdatePaired(r, y)
         \/ UpdateUnpaired(r) \/ UpdateNoTransfer(r)
         \/ AttachMatch(r) \/ ClearAmbiguous(r)
  PROVE  AloneInv(r)'
<1>1. /\ me' = me /\ memory[r][me[r]] = link[me[r]] /\ todo'[r] = {}
      /\ link' = link /\ step'[r] = "commit" /\ base'[r] = link /\ me[r] \in Txactions
  BY DEF StepInv, AloneInv, TypeOK, UpdatePaired, UpdateUnpaired, UpdateNoTransfer,
         AttachMatch, ClearAmbiguous, Do, Goto
<1>2. /\ memory'[r][me[r]] = link[me[r]]
      /\ other'[r] # None => memory'[r][other'[r]] = link[other'[r]]
  <2>1. ASSUME NEW y \in Txactions, UpdatePaired(r, y) PROVE <1>2
    <3>1. \A z \in Txactions :
            memory'[r][z] = IF z \in {y} THEN link[z] ELSE memory[r][z]
      BY <2>1, HoldKeepsType DEF UpdatePaired
    <3>2. other'[r] = y /\ y # me[r]
      BY <2>1 DEF UpdatePaired, TypeOK
    <3> QED BY <1>1, <3>1, <3>2
  <2>2. CASE UNCHANGED <<memory, other>>
    BY <1>1, <2>2 DEF AloneInv
  <2> QED BY <2>1, <2>2 DEF UpdateUnpaired, UpdateNoTransfer, AttachMatch, ClearAmbiguous
<1> QED BY <1>1, <1>2 DEF AloneInv

LEMMA AloneDeleting ==
  ASSUME TypeOK, NEW r \in Requests, StepInv(r), AloneInv(r),
         \/ \E S \in SUBSET Txactions : LoadUpload(r, S)
         \/ \E x \in Txactions : DestroyTxaction(r, x)
  PROVE  AloneInv(r)'
<1>1. ASSUME NEW S \in SUBSET Txactions, LoadUpload(r, S) PROVE AloneInv(r)'
  <2>1. \A z \in S : memory'[r][z] = link[z]
    BY <1>1, HoldKeepsType DEF LoadUpload
  <2>2. /\ link' = link /\ step'[r] = "deleting" /\ other'[r] = None /\ todo'[r] = S
    BY <1>1 DEF LoadUpload, Goto, TypeOK, StepInv
  <2> QED BY <2>1, <2>2 DEF AloneInv
<1>2. ASSUME NEW x \in Txactions, DestroyTxaction(r, x) PROVE AloneInv(r)'
  <2>1. /\ link' = link /\ step'[r] = "commit" /\ other'[r] = None /\ me'[r] = x
        /\ todo'[r] = todo[r] \ {x} /\ x \in todo[r] /\ memory' = memory
        /\ base'[r] = link
        /\ view'[r] = DestroyRow(Snapshot, x, memory[r][x]).links
    BY <1>2 DEF DestroyTxaction, Do, Goto, TypeOK, StepInv
  <2>2. \A z \in todo[r] : memory'[r][z] = link'[z] \/ Orphaned(r, z)'
    BY <2>1 DEF AloneInv, Orphaned
  <2> QED BY <2>1, <2>2 DEF AloneInv, Snapshot
<1> QED BY <1>1, <1>2

(* The destruction of one row of an upload leaves the instances of the      *)
(* other rows as they were, but for its buddy, which remembers it.          *)
LEMMA DestroyOrphans ==
  ASSUME NEW t \in Transaction, NEW x \in Txactions, NEW k
  PROVE  \A z \in Txactions \ {x} :
           LET u == DestroyRow(t, x, k)
           IN  u.links[z] = t.links[z] \/ (z = k /\ t.links[z] = x /\ u.links[z] = None)
<1>1. \A z \in Txactions \ {x} :
        LET left == LeaveBuddy(t, x, k)
        IN  left.links[z] = t.links[z] \/ (z = k /\ t.links[z] = x /\ left.links[z] = None)
  BY DEF LeaveBuddy, Put, Exists, Transaction, Table
<1>2. \A z \in Txactions \ {x} : ClearBuddy(t, x, k).links[z] \in {t.links[z], LeaveBuddy(t, x, k).links[z]}
  BY LeaveBuddyFollows DEF ClearBuddy, Put, Follows, Transaction, Table
<1>3. \A z \in Txactions \ {x} : DestroyRow(t, x, k).links[z] = ClearBuddy(t, x, k).links[z]
  BY ClearBuddyFollows DEF DestroyRow, Put, Follows, Transaction, Table
<1> QED BY <1>1, <1>2, <1>3

(* A commit of a request that runs alone.                                   *)
LEMMA AloneCommit ==
  ASSUME IInv, NEW r \in Requests, AloneInv(r), OneSided(link) = {}, Commit(r)
  PROVE  OneSided(link') = {} /\ AloneInv(r)'
<1> DEFINE x == me[r]
           k == memory[r][x]
           u == DestroyRow(Snapshot, x, k)
<1>1. /\ TypeOK /\ Decided(r) /\ StepInv(r) /\ base[r] = link /\ step[r] = "commit"
      /\ x \in Txactions /\ k \in Keys /\ Snapshot \in Transaction /\ Snapshot.links = link
      /\ Snapshot.written = {}
  BY WorkFollows DEF IInv, StepInv, Commit, AloneInv, Decided, Snapshot
<1>2. CASE todo[r] = {} /\ k = link[x]
  <2>1. Current(r)
    BY <1>1, <1>2 DEF Current, AloneInv
  <2>2. OneSided(link') = {}
    BY <2>1, CurrentCommitHeals
  <2>3. AloneInv(r)'
    BY <1>1, <1>2 DEF Commit, Finish, Release, Goto, TypeOK, AloneInv
  <2> QED BY <2>2, <2>3
<1>3. CASE todo[r] # {} \/ k # link[x]
  <2>1. view[r] = u.links /\ (k = link[x] \/ Orphaned(r, x)) /\ x \notin todo[r]
    BY <1>1, <1>3 DEF AloneInv, Snapshot
  <2>2. Exists(link, x)
    BY <1>1, <2>1, RowValues DEF Exists, Orphaned
  <2>3. k = link[x] \/ (~Exists(link, k) /\ link[x] = None)
    BY <2>1, RowValues DEF Orphaned, Exists
  <2>4. Heals(u, Snapshot) /\ u.links[x] = Gone
    BY <1>1, <2>2, <2>3, DestroyRowHeals
  <2>5. Follows(u, Snapshot)
    BY <1>1, WorkFollows
  <2>6. link' = u.links
    BY <1>1, <2>1, CommitPublishes
  <2>7. OneSided(link') = {}
    BY <1>1, <2>4, <2>6 DEF Heals
  <2>8. AloneInv(r)'
    <3>1. CASE todo[r] = {}
      BY <1>1, <3>1 DEF Commit, Finish, Release, Goto, TypeOK, AloneInv
    <3>2. CASE todo[r] # {}
      <4>1. /\ step'[r] = "deleting" /\ other'[r] = None
            /\ todo' = todo /\ memory' = memory /\ todo[r] \subseteq Txactions
        BY <1>1, <3>2 DEF Commit, Release, Goto, TypeOK
      <4>2. ASSUME NEW z \in todo[r]
            PROVE  memory[r][z] = link'[z] \/ Orphaned(r, z)'
        <5>1. z \in Txactions \ {x} /\ (memory[r][z] = link[z] \/ Orphaned(r, z))
          BY <1>1, <2>1, <4>1 DEF AloneInv
        <5>2. link'[z] = link[z] \/ (link[z] = x /\ link'[z] = None)
          BY <1>1, <2>6, <5>1, DestroyOrphans
        <5>3. link'[x] = Gone
          BY <2>4, <2>6
        <5>4. \A v \in Txactions : link[v] = Gone => link'[v] = Gone
          BY <1>1, <2>5, <2>6, RowValues DEF Follows, Exists
        <5>5. CASE memory[r][z] = link[z]
          BY <1>1, <4>1, <5>1, <5>2, <5>3, <5>5 DEF Orphaned
        <5>6. CASE Orphaned(r, z)
          <6>1. link'[z] = None /\ link'[memory[r][z]] = Gone
            BY <1>1, <5>2, <5>4, <5>6, RowValues DEF Orphaned
          <6> QED BY <4>1, <5>6, <6>1 DEF Orphaned
        <5> QED BY <5>1, <5>5, <5>6
      <4> QED BY <4>1, <4>2 DEF AloneInv
    <3> QED BY <3>1, <3>2
  <2> QED BY <2>7, <2>8
<1> QED BY <1>2, <1>3

(* The inductive invariant of requests that do not overlap.                 *)
THEOREM SerialInvariant == SerialSpec => []SerialInv
<1>1. Init => SerialInv
  <2> SUFFICES ASSUME Init PROVE SerialInv
    OBVIOUS
  <2>1. IInv
    <3>1. TypeOK
      BY RowValues DEF Init, TypeOK, Nothing
    <3> QED BY <3>1 DEF Init, IInv, StepInv
  <2>2. \A r \in Requests : step[r] = "idle"
    BY DEF Init
  <2>3. OneSided(link) = {}
    BY RowValues DEF Init, OneSided, Nothing
  <2> QED BY <2>1, <2>2, <2>3, IdleIsAlone DEF SerialInv, IInv
<1>2. SerialInv /\ [SerialNext]_vars => SerialInv'
  <2> SUFFICES ASSUME SerialInv, [SerialNext]_vars PROVE SerialInv'
    OBVIOUS
  <2>1. IInv /\ TypeOK /\ OneSided(link) = {} /\ \A q \in Requests : StepInv(q) /\ AloneInv(q)
    BY DEF SerialInv, IInv
  <2>2. ASSUME NEW r \in Requests, Alone(r), Work(r) PROVE SerialInv'
    <3>1. IInv' /\ \A q \in Requests \ {r} : Untouched(q)
      BY <2>1, <2>2, WorkKeeps DEF Keeps
    <3>2. \A q \in Requests \ {r} : step'[q] = "idle" /\ StepInv(q)'
      BY <2>2, <3>1 DEF Alone, Untouched, IInv
    <3>3. \A q \in Requests \ {r} : AloneInv(q)'
      BY <3>2 DEF StepInv, AloneInv
    <3>4. OneSided(link') = {} /\ AloneInv(r)'
      <4>1. CASE Commit(r)
        BY <2>1, <4>1, AloneCommit
      <4>2. CASE NoMatch(r) \/ Rollback(r)
        BY <2>1, <4>2 DEF NoMatch, Rollback, Finish, Release, Goto, TypeOK, AloneInv
      <4>3. ASSUME NEW x \in Txactions,
                   CreateTxaction(r, x) \/ PurgeCopy(r, x)
            PROVE  OneSided(link') = {} /\ AloneInv(r)'
        <5>1. AloneInv(r)'
          BY <2>1, <4>3, AloneReading
        <5>2. \/ link' = [link EXCEPT ![x] = None] /\ link[x] = New
              \/ link' = [link EXCEPT ![x] = Purged]
          BY <4>3 DEF CreateTxaction, PurgeCopy
        <5>3. OneSided(link') = {}
          <6> SUFFICES ASSUME NEW z \in Txactions, link'[z] \in Txactions \ {z},
                              link'[link'[z]] \notin {z, Purged}
                       PROVE  FALSE
            BY DEF OneSided
          <6>1. z # x /\ link'[z] = link[z]
            BY <2>1, <5>2, RowValues DEF TypeOK
          <6>2. link[link[z]] \in {z, Purged}
            BY <2>1, <6>1 DEF OneSided
          <6>3. link[z] # x
            BY <2>1, <5>2, <6>1, <6>2, RowValues, ValuesAssumption
               DEF TypeOK, ValuesAssumption
          <6> QED BY <2>1, <5>2, <6>1, <6>2, <6>3 DEF TypeOK
        <5> QED BY <5>1, <5>3
      <4>4. ASSUME NEW x \in Txactions, LoadTxaction(r, x) \/ FindMatch(r, x)
            PROVE  OneSided(link') = {} /\ AloneInv(r)'
        BY <2>1, <4>4, AloneReading DEF LoadTxaction, FindMatch
      <4>5. CASE \/ \E y \in Txactions : UpdatePaired(r, y)
                 \/ UpdateUnpaired(r) \/ UpdateNoTransfer(r)
                 \/ AttachMatch(r) \/ ClearAmbiguous(r)
        <5>1. AloneInv(r)'
          BY <2>1, <4>5, AloneDoing
        <5>2. link' = link
          BY <4>5 DEF UpdatePaired, UpdateUnpaired, UpdateNoTransfer, AttachMatch, ClearAmbiguous
        <5> QED BY <2>1, <5>1, <5>2
      <4>6. CASE \/ \E S \in SUBSET Txactions : LoadUpload(r, S)
                 \/ \E x \in Txactions : DestroyTxaction(r, x)
        <5>1. AloneInv(r)'
          BY <2>1, <4>6, AloneDeleting
        <5>2. link' = link
          BY <4>6 DEF LoadUpload, DestroyTxaction
        <5> QED BY <2>1, <5>1, <5>2
      <4> QED BY <2>2, <4>1, <4>2, <4>3, <4>4, <4>5, <4>6 DEF Work
    <3> QED BY <3>1, <3>2, <3>3, <3>4 DEF SerialInv
  <2>3. CASE UNCHANGED vars
    <3>1. TypeOK' /\ link' = link /\ \A q \in Requests : Untouched(q)
      BY <2>1, <2>3 DEF TypeOK, Untouched, vars, requestVars
    <3>2. \A q \in Requests : StepInv(q)'
      BY <2>1, <3>1, UntouchedKeepsStep
    <3>3. ASSUME NEW q \in Requests PROVE AloneInv(q)'
      <4>1. AloneInv(q) /\ UNCHANGED <<link, step, me, other, memory, todo, base, view>>
        BY <2>1, <2>3 DEF vars, requestVars
      <4>2. \A x : Orphaned(q, x)' <=> Orphaned(q, x)
        BY <4>1 DEF Orphaned
      <4> QED BY <4>1, <4>2 DEF AloneInv
    <3>4. OneSided(link') = {}
      BY <2>1, <3>1
    <3> QED BY <3>1, <3>2, <3>3, <3>4 DEF SerialInv, IInv, Untouched
  <2> QED BY <2>2, <2>3 DEF SerialNext
<1> QED BY <1>1, <1>2, PTL DEF SerialSpec

(* As long as requests do not overlap the two sides of every transfer name  *)
(* each other.                                                              *)
THEOREM LinksStayMutual == SerialSpec => []LinksAreMutual
<1>1. SerialInv => LinksAreMutual
  BY DEF SerialInv, LinksAreMutual
<1> QED BY <1>1, SerialInvariant, PTL
=============================================================================
