---------------------------- MODULE MCTransfers ----------------------------
(* Instances of Transfers for TLC. *)
EXTENDS Transfers, TLC

TransferSymmetry == Permutations(Txactions) \cup Permutations(Requests)
=============================================================================
