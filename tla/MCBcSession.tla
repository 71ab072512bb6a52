----------------------------- MODULE MCBcSession ----------------------------
(* One sender beside the tasks of Baichuan. *)
EXTENDS BcSession
=============================================================================
