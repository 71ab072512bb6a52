----------------------------- MODULE MCUdpSend -----------------------------
(* Instances of UdpSend for TLC. *)
EXTENDS UdpSend

CONSTANTS a, b, c

(* Two commands of two packets and one of a single packet, all different. *)
MCSize == [x \in {a, b, c} |-> IF x = c THEN 1 ELSE 2]
MCKey == [x \in {a, b, c} |-> x]

(* The first two calls have the same cmd_id and mess_id, the third two packets. *)
TwinSize == [x \in {a, b, c} |-> IF x = c THEN 2 ELSE 1]
TwinKey == [x \in {a, b, c} |-> IF x = c THEN c ELSE a]
=============================================================================
