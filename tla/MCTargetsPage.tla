---------------------------- MODULE MCTargetsPage ----------------------------
(* Instances of TargetsPage for TLC, with a history variable: whether the  *)
(* user has waited for every answer so far and removed nothing.            *)
EXTENDS TargetsPage

MCKeys == 1..LastMonth

VARIABLE waited

UserActs == month' # month \/ written' # written
Removes  == \E t \in Tags : items[t] = "shown" /\ items'[t] = "fading"

MCInit == Init /\ waited = TRUE
MCNext == Next /\ waited' = (waited /\ (UserActs => AtRest) /\ ~Removes)
MCSpec == MCInit /\ [][MCNext]_<<vars, waited>>

(* TargetWidget#setCurrentMonth: to a user who waits for the page to come  *)
(* to rest before each click, it shows the chosen month, although a change *)
(* of month answered from the cache, an edit and an answer take different  *)
(* ways to the labels and the list.                                        *)
MonthShownIfWaited == waited => MonthShown

(* To that user the cached months agree with the server about every        *)
(* target: TargetList#refresh clears the cache before it asks again.       *)
CacheHonestIfWaited == waited => CacheHonest
=============================================================================
