---------------------------- MODULE MCConnectPage ----------------------------
(* Instances of ConnectPage for TLC, with a history variable: the versions *)
(* of each job's row that put questions on the page.                       *)
EXTENDS ConnectPage

VARIABLE asked

AsksNow == filled /\ ~filled'

MCInit == Init /\ asked = {}
MCNext == Next /\ asked' = IF AsksNow THEN asked \cup {<<job, lastVersion'>>} ELSE asked
MCSpec == MCInit /\ [][MCNext]_<<vars, asked>> /\ Fairness

(* A question of the bank is put to the user once, although the polling    *)
(* that follows the answers first meets the very row that asked for them   *)
(* (_lastVersion is kept for that).                                        *)
NoQuestionTwice ==
  [][AsksNow /\ ~hasty => <<job, lastVersion'>> \notin asked]_<<vars, asked>>
=============================================================================
