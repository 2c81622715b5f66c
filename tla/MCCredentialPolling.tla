------------------------- MODULE MCCredentialPolling -------------------------
(* Instances of CredentialPolling for TLC. *)
EXTENDS CredentialPolling
=============================================================================
