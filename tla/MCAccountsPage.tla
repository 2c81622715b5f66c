--------------------------- MODULE MCAccountsPage ---------------------------
(* Instances of AccountsPage for TLC, with two history variables: whether  *)
(* the user has waited for every answer so far, and how often he acted or  *)
(* a request was lost.                                                     *)
EXTENDS AccountsPage

CONSTANTS
  theAccount, theQuery, theMerchant, theRange,  \* for MCFirst
  MaxActs   \* bound on the acts and the lost requests

VARIABLES waited, acts

MCFirst == {[Linked(theAccount) EXCEPT !.offset = 1], [Linked(theMerchant) EXCEPT !.unedited = TRUE],
            Stored({}, theQuery, 0, FALSE, theRange)}

MCInit == Init /\ waited = TRUE /\ acts = 0
MCNext ==
  /\ Next
  /\ LET act == Acts \/ Save
     IN /\ acts' = IF act \/ failures' # failures THEN acts + 1 ELSE acts
        /\ acts' <= MaxActs
        /\ waited' = (waited /\ (act => xhr = None /\ ~saving /\ AllLoaded))
MCSpec == MCInit /\ [][MCNext]_<<vars, waited, acts>>

Settled == plain /\ waited /\ failures = 0 /\ AtRest /\ xhr = None /\ ~saving

ListFollows ==
  /\ shown # None /\ shown.params = Params(selection, search, offset, unedited, range)
  /\ title = [selection |-> selection, search |-> search]

(* To a user with a plain history who waits for every answer, the list at  *)
(* rest has every save in it and is the one the page asks for, under its   *)
(* own title: one click may ask for it twice, and only the first request   *)
(* is sent.  A group among several selected accounts is excepted: there    *)
(* repaint throws before the list is reloaded, and the old list and title  *)
(* stay until the user goes to a page that has a title.                    *)
ListFollowsIfWaited ==
  Settled => /\ shown # None => shown.version = edits
             /\ ~Untitled(selection, search) => ListFollows

(* Without the exception the code does not keep it.                        *)
ListFollowsAnySelection == Settled => ListFollows
=============================================================================
