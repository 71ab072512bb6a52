--------------------------- MODULE OrderedStream ---------------------------
(***************************************************************************)
(* What the UDP layer of the Baichuan protocol promises to the layer above *)
(* it, whatever the network does to single datagrams: the chunks one peer  *)
(* submits come out at the other peer in the order they were submitted,    *)
(* each at most once and with none left out.  One connection is one        *)
(* stream; closing it forgets both ends.                                   *)
(*                                                                         *)
(* Chunks are numbered from 0 in the order of submission, so the streams   *)
(* are known by their lengths and a chunk by its number.                   *)
(***************************************************************************)
EXTENDS Integers, Sequences

VARIABLES submitted,   \* number of chunks submitted on the current connection
          received     \* numbers of the chunks received, in order of reception

streamVars == <<submitted, received>>

Init == submitted = 0 /\ received = <<>>

(* The sender submits some more chunks. *)
Submit == /\ submitted' \in Nat
          /\ submitted' > submitted
          /\ UNCHANGED received

(* The receiver gets the next chunks: what it has stays, what it gets was  *)
(* submitted, and chunk i is the i-th one received.                        *)
Receive == /\ Len(received') > Len(received)
           /\ Len(received') <= submitted
           /\ received' = [i \in 1..Len(received') |-> i - 1]
           /\ UNCHANGED submitted

(* The connection ends and the next one starts empty. *)
Reset == submitted' = 0 /\ received' = <<>>

Next == Submit \/ Receive \/ Reset

Spec == Init /\ [][Next]_streamVars
=============================================================================
