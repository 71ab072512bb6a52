---------------------------- MODULE MCHttpBatch -----------------------------
EXTENDS HttpBatch, SequencesExt, TLC
CONSTANTS x1, y1, y2, x2
\* A chunk of three commands and one of one; each cmd for two channels.
MCBody == <<x1, y1, y2, x2>>
MCName == x1 :> "x" @@ x2 :> "x" @@ y1 :> "y" @@ y2 :> "y"

\* Inserted is what list.insert does for one index after the other.
InsertedOneByOne(answers, taken) ==
    FoldLeft(LAMBDA s, i : InsertAt(s, IF i <= Len(s) + 1 THEN i ELSE Len(s) + 1, taken[i]),
             answers, SetToSortSeq(DOMAIN taken, <))

ASSUME InsertedAsListInsert ==
    \A n \in 0..4 : \A is \in SUBSET (1..5) :
        LET answers == [k \in 1..n |-> <<"answer", k>>]
            taken   == [i \in is |-> <<"taken", i>>]
        IN  InOrder(is) = SetToSortSeq(is, <) /\ Inserted(answers, taken) = InsertedOneByOne(answers, taken)
=============================================================================
