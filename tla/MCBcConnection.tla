--------------------------- MODULE MCBcConnection ---------------------------
(* Instances of BcConnection for TLC. *)
EXTENDS BcConnection

CONSTANTS a, b, c

(* Two calls have the same cmd_id and mess_id. *)
MCKey == [x \in {a, b, c} |-> IF x = c THEN c ELSE a]
=============================================================================
