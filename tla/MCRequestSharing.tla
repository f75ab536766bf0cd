-------------------------- MODULE MCRequestSharing --------------------------
(* TLC instances of RequestSharing. *)
EXTENDS RequestSharing
=============================================================================
