----------------------------- MODULE DataLemmas -----------------------------
(***************************************************************************)
(* Facts about the data of the models that their proofs share: queues of   *)
(* different tasks, as at a mutex.                                         *)
(***************************************************************************)
EXTENDS Integers, SequencesExt, SequenceTheorems, TLAPS

(* q holds the members of S, each once.                                    *)
QueueOf(q, S) == q \in Seq(S) /\ IsInjective(q) /\ Range(q) = S

LEMMA QueueHolds ==
  ASSUME NEW S, NEW q, QueueOf(q, S), NEW x \in S
  PROVE  \E i \in 1..Len(q) : q[i] = x /\ \A j \in 1..Len(q) : q[j] = x => j = i
<1>1. q \in Seq(S) /\ x \in Range(q) /\ DOMAIN q = 1..Len(q)
  BY DEF QueueOf
<1>2. PICK i \in 1..Len(q) : q[i] = x
  BY <1>1 DEF Range
<1> QED
  BY <1>1, <1>2 DEF QueueOf, IsInjective

(* The first of a queue.                                                   *)
LEMMA QueueHead ==
  ASSUME NEW S, NEW q, QueueOf(q, S), S # {}
  PROVE  q # << >> /\ Head(q) \in S
<1>1. q \in Seq(S)
  BY DEF QueueOf
<1>2. PICK x \in S : TRUE
  OBVIOUS
<1>3. \E i \in 1..Len(q) : q[i] = x
  BY QueueHolds
<1> QED
  BY <1>1, <1>3

LEMMA QueueEmpty == QueueOf(<< >>, {})
BY DEF QueueOf, IsInjective, Range

LEMMA QueueAppend ==
  ASSUME NEW S, NEW q, QueueOf(q, S), NEW x, x \notin S
  PROVE  /\ QueueOf(Append(q, x), S \cup {x})
         /\ q # << >> => Head(Append(q, x)) = Head(q)
<1> DEFINE p == Append(q, x)
<1>1. q \in Seq(S) /\ Range(q) = S /\ \A a, b \in 1..Len(q) : q[a] = q[b] => a = b
  BY DEF QueueOf, IsInjective
<1>2. q \in Seq(S \cup {x})
  BY <1>1
<1>3. p \in Seq(S \cup {x}) /\ Len(p) = Len(q) + 1 /\ Len(q) \in Nat
  BY <1>2
<1>4. \A i \in 1..Len(q) : p[i] = q[i] /\ q[i] \in S
  BY <1>1, <1>2
<1>5. p[Len(q) + 1] = x
  BY <1>2
<1>6. \A i \in 1..Len(p) : i \in 1..Len(q) \/ i = Len(q) + 1
  BY <1>3
<1> HIDE DEF p
<1>7. IsInjective(p)
  <2> SUFFICES ASSUME NEW a \in 1..Len(p), NEW b \in 1..Len(p), p[a] = p[b] PROVE a = b
    BY <1>3 DEF IsInjective
  <2> QED
    BY <1>1, <1>4, <1>5, <1>6
<1>8. Range(p) = S \cup {x}
  <2>1. Range(p) \subseteq S \cup {x}
    BY <1>3, <1>4, <1>5, <1>6 DEF Range
  <2>2. x \in Range(p)
    <3>1. Len(q) + 1 \in DOMAIN p
      BY <1>3
    <3> QED
      BY <1>5, <3>1 DEF Range
  <2>3. ASSUME NEW y \in S PROVE y \in Range(p)
    <3>1. PICK i \in 1..Len(q) : q[i] = y
      BY QueueHolds
    <3>2. i \in DOMAIN p /\ p[i] = y
      BY <1>3, <1>4, <3>1
    <3> QED
      BY <3>2 DEF Range
  <2> QED
    BY <2>1, <2>2, <2>3
<1>9. q # << >> => Head(p) = Head(q)
  BY <1>2 DEF p
<1> QED
  BY <1>3, <1>7, <1>8, <1>9 DEF QueueOf, p

(* What is left of a queue without its element at position n.              *)
LEMMA QueueCut ==
  ASSUME NEW S, NEW q, QueueOf(q, S), NEW n \in 1..Len(q), NEW p, NEW T, p \in Seq(T), Len(p) = Len(q) - 1,
         \A i \in 1..Len(p) : p[i] = IF i < n THEN q[i] ELSE q[i + 1]
  PROVE  QueueOf(p, S \ {q[n]})
<1> DEFINE at(i) == IF i < n THEN i ELSE i + 1
<1>1. q \in Seq(S) /\ Range(q) = S /\ \A a, b \in 1..Len(q) : q[a] = q[b] => a = b
  BY DEF QueueOf, IsInjective
<1>2. Len(q) \in Nat /\ DOMAIN p = 1..Len(p)
  BY <1>1
<1>3. \A i \in 1..Len(p) : at(i) \in 1..Len(q) /\ at(i) # n /\ p[i] = q[at(i)]
  BY <1>2
<1>4. \A a, b \in 1..Len(p) : at(a) = at(b) => a = b
  BY <1>2
<1>5. \A i \in 1..Len(q) : i # n => \E a \in 1..Len(p) : at(a) = i
  <2> SUFFICES ASSUME NEW i \in 1..Len(q), i # n PROVE \E a \in 1..Len(p) : at(a) = i
    OBVIOUS
  <2>1. CASE i < n
    BY <1>2, <2>1
  <2>2. CASE i > n
    <3>1. i - 1 \in 1..Len(p) /\ at(i - 1) = i
      BY <1>2, <2>2
    <3> QED
      BY <3>1
  <2> QED
    BY <2>1, <2>2
<1> HIDE DEF at
<1>6. \A i \in 1..Len(p) : p[i] \in S \ {q[n]}
  BY <1>1, <1>3
<1>7. IsInjective(p)
  <2> SUFFICES ASSUME NEW a \in 1..Len(p), NEW b \in 1..Len(p), p[a] = p[b] PROVE a = b
    BY <1>2 DEF IsInjective
  <2> QED
    BY <1>1, <1>3, <1>4
<1>8. ASSUME NEW y \in S \ {q[n]} PROVE y \in Range(p)
  <2>1. PICK i \in 1..Len(q) : q[i] = y
    BY QueueHolds
  <2>2. PICK a \in 1..Len(p) : at(a) = i
    BY <1>5, <2>1
  <2> QED
    BY <1>2, <1>3, <2>1, <2>2 DEF Range
<1>9. Range(p) = S \ {q[n]}
  BY <1>2, <1>6, <1>8 DEF Range
<1>10. p \in Seq(S \ {q[n]})
  BY <1>2, <1>6
<1> QED
  BY <1>7, <1>9, <1>10 DEF QueueOf

LEMMA QueueTail ==
  ASSUME NEW S, NEW q, QueueOf(q, S), q # << >>
  PROVE  QueueOf(Tail(q), S \ {Head(q)})
<1>1. q \in Seq(S)
  BY DEF QueueOf
<1>2. 1 \in 1..Len(q) /\ Head(q) = q[1]
  BY <1>1
<1> DEFINE p == Tail(q)
<1>3. p \in Seq(S) /\ Len(p) = Len(q) - 1 /\ \A i \in 1..Len(p) : p[i] = q[i + 1]
  BY <1>1, HeadTailProperties
<1> HIDE DEF p
<1>4. \A i \in 1..Len(p) : p[i] = IF i < 1 THEN q[i] ELSE q[i + 1]
  BY <1>3
<1>5. QueueOf(p, S \ {q[1]})
  BY <1>2, <1>3, <1>4, QueueCut
<1> QED
  BY <1>2, <1>5 DEF p

(* A task gives its place in a queue up.                                   *)
LEMMA QueueRemove ==
  ASSUME NEW S, NEW q, QueueOf(q, S), NEW x \in S
  PROVE  /\ QueueOf(RemoveFirst(q, x), S \ {x})
         /\ Head(q) # x => RemoveFirst(q, x) # << >> /\ Head(RemoveFirst(q, x)) = Head(q)
<1> DEFINE p == RemoveFirst(q, x)
           I == {i \in 1..Len(q) : q[i] = x}
<1>1. q \in Seq(S) /\ Len(q) \in Nat
  BY DEF QueueOf
<1>2. PICK n \in 1..Len(q) : q[n] = x /\ \A j \in 1..Len(q) : q[j] = x => j = n
  BY QueueHolds
<1>3. I = {n}
  BY <1>2
<1>4. Min(I) = n
  BY <1>1, <1>3 DEF Min
<1>5. SelectInSeq(q, LAMBDA v : v = x) = n
  BY <1>3, <1>4 DEF SelectInSeq
<1> DEFINE left == SubSeq(q, 1, n - 1)
           right == SubSeq(q, n + 1, Len(q))
<1>6. p = left \o right
  BY <1>2, <1>5 DEF RemoveFirst, RemoveAt
<1>7. left \in Seq(S) /\ right \in Seq(S)
  BY <1>1
<1>8. /\ Len(left) = n - 1 /\ Len(right) = Len(q) - n
      /\ \A i \in 1..(n - 1) : left[i] = q[i]
      /\ \A i \in 1..(Len(q) - n) : right[i] = q[n + i]
  BY <1>1
<1> HIDE DEF p, I, left, right
<1>9. /\ p \in Seq(S) /\ Len(p) = Len(left) + Len(right)
      /\ \A i \in 1..(Len(left) + Len(right)) :
            p[i] = IF i <= Len(left) THEN left[i] ELSE right[i - Len(left)]
  BY <1>6, <1>7, ConcatProperties
<1>10. ASSUME NEW i \in 1..Len(p) PROVE p[i] = IF i < n THEN q[i] ELSE q[i + 1]
  <2>1. CASE i < n
    BY <1>1, <1>8, <1>9, <2>1
  <2>2. CASE i >= n
    <3>1. i - (n - 1) \in 1..(Len(q) - n) /\ n + (i - (n - 1)) = i + 1
      BY <1>1, <1>8, <1>9, <2>2
    <3>2. p[i] = right[i - (n - 1)]
      BY <1>1, <1>8, <1>9, <2>2
    <3>3. right[i - (n - 1)] = q[n + (i - (n - 1))]
      BY <1>8, <3>1
    <3> QED
      BY <1>1, <2>2, <3>1, <3>2, <3>3
  <2> QED
    BY <1>1, <1>8, <1>9, <2>1, <2>2
<1>11. QueueOf(p, S \ {x})
  <2>1. Len(p) = Len(q) - 1
    BY <1>1, <1>8, <1>9
  <2>2. QueueOf(p, S \ {q[n]})
    BY <1>9, <1>10, <2>1, QueueCut
  <2> QED
    BY <1>2, <2>2
<1>12. ASSUME Head(q) # x PROVE p # << >> /\ Head(p) = Head(q)
  <2>1. n # 1
    BY <1>1, <1>2, <1>12
  <2>2. 1 \in 1..Len(p) /\ 1 < n
    BY <1>1, <1>8, <1>9, <2>1
  <2>3. p[1] = q[1]
    BY <1>10, <2>2
  <2> QED
    BY <1>1, <1>8, <1>9, <2>2, <2>3
<1> QED
  BY <1>11, <1>12 DEF p

(* The same, of a task that need not be in the queue.                      *)
LEMMA QueueDrop ==
  ASSUME NEW S, NEW q, QueueOf(q, S), NEW x
  PROVE  /\ QueueOf(RemoveFirst(q, x), S \ {x})
         /\ \A y \in S \ {x} : Head(q) = y => RemoveFirst(q, x) # << >> /\ Head(RemoveFirst(q, x)) = y
<1>1. CASE x \in S
  BY <1>1, QueueRemove
<1>2. CASE x \notin S
  <2>1. q \in Seq(S) /\ \A i \in 1..Len(q) : q[i] # x
    BY <1>2 DEF QueueOf
  <2>2. RemoveFirst(q, x) = q /\ S \ {x} = S
    BY <1>2, <2>1 DEF RemoveFirst
  <2>3. S # {} => q # << >>
    BY QueueHead
  <2> QED
    BY <2>2, <2>3
<1> QED
  BY <1>1, <1>2

=============================================================================
