-------------------------- MODULE HttpBatchProofs ---------------------------
(***************************************************************************)
(* Proofs about HttpBatch, for any batch, any size of the chunks, and any  *)
(* number of attempts: the recursion is bounded, and the answers belong to *)
(* the commands of the caller by their index.                              *)
(***************************************************************************)
EXTENDS HttpBatch, SequenceTheorems, FiniteSetTheorems, TLAPS

-----------------------------------------------------------------------------
(* The inductive invariants: what the frames and what they left are like.  *)

(* Types.                                                                  *)
Answers == [to : Command, code : Code, flag : {"none", "yes", "no"}]
Taken == UNION {[is -> Answers] : is \in {S \in SUBSET (Nat \ {0}) : IsFiniteSet(S)}}
Places == {"enter", "post", "whole", "again", "separate", "apart", "chunks"}
Frames == [at : Places, body : Seq(Command), retry : 0..(RETRY_ATTEMPTS - 1), taken : Taken,
           popped : BOOLEAN, todo : Seq(Command) \cup Seq(Seq(Command)), done : Seq(Answers),
           global : BOOLEAN, idxs : Seq(Nat)]
OneByOne == {"separate", "apart"}

(* A body that can still be divided counts as one more attempt.            *)
Wide(b) == IF Len(b) > 1 THEN 1 ELSE 0

(* What a frame is like at depth d, the one of send at depth 1: the deeper *)
(* it is, the fewer attempts are left.                                     *)
FrameOK(f, d) ==
    /\ f.at = "chunks" <=> d = 1
    /\ f.at = "chunks" => f.todo \in Seq(Seq(Command))
    /\ f.at # "chunks" => f.todo \in Seq(Command) /\ d + f.retry + Wide(f.body) <= RETRY_ATTEMPTS + 2
    /\ f.at \in {"enter", "post", "again", "apart"} => ~f.popped
    /\ f.at = "separate" => f.popped
    /\ f.at = "post" => DOMAIN f.taken \subseteq DOMAIN f.body
    /\ f.at \in OneByOne => Len(f.body) > 1 /\ Len(f.todo) <= Len(f.body)

(* A frame that runs, and one that waits for the frame above it.           *)
Runs(f) == f.at \in {"enter", "post"} \cup OneByOne /\ (f.at \in OneByOne => Len(f.todo) = Len(f.body))
Waits(f) ==
    /\ f.at \in {"chunks", "whole", "again"} \cup OneByOne
    /\ f.at \in OneByOne => Len(f.todo) < Len(f.body)

(* What frame g called has body b.                                         *)
NotLonger(b, g) == g.at = "whole" => Len(b) <= Len(g.body)

(* The frames: each waits for the one above it.                            *)
Stacked(s) ==
    /\ s \in Seq(Frames)
    /\ \A i \in 1..Len(s) : FrameOK(s[i], Len(s) - i + 1)
    /\ \A i \in 1..(Len(s) - 1) : Waits(s[i + 1]) /\ NotLonger(s[i].body, s[i + 1])

Replies == [how : {"returned"}, body : Seq(Command), answers : Seq(Answers)]
Excs == {"Reolink", "Other", "Timeout", "Runtime"}
Errors == [how : {"raised"}, body : Seq(Command), exc : Excs]

(* A frame runs, or takes up an answer or an exception.                    *)
RetOK(s, r) ==
    \/ r = None /\ s # << >> /\ Runs(s[1])
    \/ r \in Replies /\ (s # << >> => Waits(s[1]))
    \/ r \in Errors /\ (s # << >> => Waits(s[1]) /\ NotLonger(r.body, s[1]))

CmdsOK == baichuan_cmds \subseteq cmd_funcs /\ broken_cmds \subseteq Range(Name)

(* The first invariant: types, and the depth of the recursion.             *)
TypeInv == Stacked(stack) /\ RetOK(stack, ret) /\ CmdsOK

Aligns(answers, b) == Len(answers) = Len(b) /\ \A i \in 1..Len(b) : answers[i].to = b[i]

(* The chunk that is sent when todo is left.                               *)
ChunkNo(todo) == Len(Chunks(Body)) - Len(todo)

(* The commands whose answers frame g waits for.                           *)
Expected(g) ==
    CASE g.at = "chunks" -> Chunks(Body)[ChunkNo(g.todo)]
      [] g.at = "whole" -> g.body
      [] g.at = "again" -> [k \in DOMAIN g.idxs |-> g.body[g.idxs[k]]]
      [] OTHER -> <<Sent(g)>>

(* Frame f was called with the commands o.                                 *)
CalledWith(f, o) ==
    /\ f.body = IF f.popped THEN Picked(o, DOMAIN o \ DOMAIN f.taken) ELSE o
    /\ \A i \in DOMAIN f.taken : i \in 1..Len(o) /\ f.taken[i].to = o[i]

(* What a frame has already got.                                           *)
Got(f) ==
    /\ f.at = "chunks" => /\ ChunkNo(f.todo) \in 1..Len(Chunks(Body))
                          /\ f.todo = SubSeq(Chunks(Body), ChunkNo(f.todo) + 1, Len(Chunks(Body)))
                          /\ Aligns(f.done, SubSeq(Body, 1, (ChunkNo(f.todo) - 1) * MAX_CHUNK_ITEMS))
    /\ f.at \in {"enter", "post"} => f.done = << >>
    /\ f.at = "again" => Aligns(f.done, f.body) /\ Range(f.idxs) \subseteq DOMAIN f.body
    /\ f.at \in OneByOne =>
          /\ f.todo = SubSeq(f.body, Len(f.body) - Len(f.todo) + 1, Len(f.body))
          /\ f.done = << >> \/ Len(f.todo) < Len(f.body)
          /\ Len(f.todo) < Len(f.body) => Aligns(f.done, SubSeq(f.body, 1, Len(f.body) - Len(f.todo) - 1))

(* b is the commands o, or some were taken out.                            *)
Shrunk(b, o) == b = o \/ Len(b) < Len(o)

(* Every frame was called with what the frame below it waits for.          *)
Matching(s) ==
    /\ \A i \in 1..Len(s) : Got(s[i])
    /\ \A i \in 1..(Len(s) - 1) : CalledWith(s[i], Expected(s[i + 1]))

(* An answer for each command, or an exception with a body that is no      *)
(* longer than the commands.                                               *)
RetMatches(s, r) ==
    /\ r.how = "returned" => Aligns(r.answers, IF s = << >> THEN Body ELSE Expected(s[1]))
    /\ r.how = "raised" /\ s # << >> => Shrunk(r.body, Expected(s[1]))

(* The second invariant.                                                   *)
AlignInv == ~cut => Matching(stack) /\ RetMatches(stack, ret)

-----------------------------------------------------------------------------
(* Sorting indexes: InOrder, Picked and Inserted.                          *)

(* How many members of S are at most x.                                    *)
Rank(S, x) == Cardinality({y \in S : y <= x})

(* A greater member has a greater rank.                                    *)
LEMMA RankGrows ==
  ASSUME NEW S \in SUBSET Int, IsFiniteSet(S), NEW x \in S, NEW y \in S, x < y
  PROVE  Rank(S, x) < Rank(S, y)
<1> DEFINE A == {z \in S : z <= x}
<1> DEFINE B == {z \in S : z <= y}
<1>1. B \in SUBSET S
  OBVIOUS
<1>2. IsFiniteSet(B) /\ Cardinality(B) \in Nat
  BY <1>1, FS_Subset, FS_CardinalityType
<1>3. A \in SUBSET B /\ A # B
  <2>1. \A z \in S : z <= x => z <= y
    OBVIOUS
  <2>2. y \in B /\ y \notin A
    OBVIOUS
  <2> QED
    BY <2>1, <2>2
<1>4. IsFiniteSet(A) /\ Cardinality(A) <= Cardinality(B) /\ Cardinality(A) # Cardinality(B)
  BY <1>2, <1>3, FS_Subset
<1>5. Cardinality(A) \in Nat
  BY <1>4, FS_CardinalityType
<1> QED
  BY <1>2, <1>4, <1>5 DEF Rank

LEMMA RankBounds ==
  ASSUME NEW S \in SUBSET Int, IsFiniteSet(S), NEW x \in S
  PROVE  Rank(S, x) \in 1..Cardinality(S)
<1> DEFINE A == {z \in S : z <= x}
<1>1. A \in SUBSET S /\ x \in A
  OBVIOUS
<1>2. IsFiniteSet(A) /\ Cardinality(A) <= Cardinality(S)
  BY <1>1, FS_Subset
<1>3. Cardinality(A) \in Nat /\ Cardinality(S) \in Nat
  BY <1>2, FS_CardinalityType
<1>4. Cardinality(A) # 0
  BY <1>1, <1>2, FS_EmptySet
<1> QED
  BY <1>2, <1>3, <1>4 DEF Rank

LEMMA RankOrders ==
  ASSUME NEW S \in SUBSET Int, IsFiniteSet(S), NEW x \in S, NEW y \in S
  PROVE  /\ Rank(S, x) = Rank(S, y) => x = y
         /\ Rank(S, x) < Rank(S, y) => x < y
<1>1. Rank(S, x) \in Int /\ Rank(S, y) \in Int
  BY RankBounds
<1>2. x < y => Rank(S, x) < Rank(S, y)
  BY RankGrows
<1>3. y < x => Rank(S, y) < Rank(S, x)
  BY RankGrows
<1>4. x \in Int /\ y \in Int
  OBVIOUS
<1> QED
  BY <1>1, <1>2, <1>3, <1>4

(* Every rank is the rank of a member.                                     *)
LEMMA RankReached ==
  ASSUME NEW S \in SUBSET Int, IsFiniteSet(S), NEW k \in 1..Cardinality(S)
  PROVE  \E x \in S : Rank(S, x) = k
<1> DEFINE f == [x \in S |-> Rank(S, x)]
<1> DEFINE n == Cardinality(S)
<1>1. n \in Nat /\ IsFiniteSet(1..n) /\ Cardinality(1..n) = n
  BY FS_CardinalityType, FS_Interval
<1>2. f \in [S -> 1..n]
  BY RankBounds
<1>3. ASSUME NEW x \in S, NEW y \in S, f[x] = f[y] PROVE x = y
  BY <1>3, RankOrders
<1>4. f \in Injection(S, 1..n)
  BY <1>2, <1>3 DEF Injection, IsInjective
<1>5. f \in Surjection(S, 1..n)
  BY <1>1, <1>4, FS_Injection
<1> QED
  BY <1>5 DEF Surjection

(* q lists the members of S by rising value.                               *)
Rising(q, S) ==
    /\ Cardinality(S) \in Nat
    /\ q \in [1..Cardinality(S) -> S]
    /\ \A i, j \in 1..Cardinality(S) : i < j => q[i] < q[j]

(* The sequence that InOrder chooses exists: a finite set of integers can  *)
(* be sorted.                                                              *)
LEMMA InOrderRises ==
  ASSUME NEW S \in SUBSET Int, IsFiniteSet(S)
  PROVE  Rising(InOrder(S), S)
<1> DEFINE n == Cardinality(S)
<1> DEFINE q == [k \in 1..n |-> CHOOSE x \in S : Rank(S, x) = k]
<1>1. n \in Nat
  BY FS_CardinalityType
<1>2. ASSUME NEW k \in 1..n PROVE q[k] \in S /\ Rank(S, q[k]) = k
  <2>1. \E x \in S : Rank(S, x) = k
    BY RankReached
  <2> QED
    BY <2>1
<1>3. ASSUME NEW i \in 1..n, NEW j \in 1..n, i < j PROVE q[i] < q[j]
  <2>1. q[i] \in S /\ Rank(S, q[i]) = i
    BY <1>2
  <2>2. q[j] \in S /\ Rank(S, q[j]) = j
    BY <1>2
  <2>3. Rank(S, q[i]) < Rank(S, q[j])
    BY <1>3, <2>1, <2>2
  <2> HIDE DEF q
  <2> QED
    BY <2>1, <2>2, <2>3, RankOrders
<1>4. q \in [1..n -> S]
  BY <1>2
<1>5. \E p \in [1..n -> S] : \A j, k \in DOMAIN p : j < k => p[j] < p[k]
  BY <1>3, <1>4
<1> QED
  BY <1>1, <1>5 DEF InOrder, Rising

(* A rising sequence of the members has every member, at its rank.          *)
LEMMA RisingAll ==
  ASSUME NEW S \in SUBSET Int, IsFiniteSet(S), NEW q, Rising(q, S)
  PROVE  /\ \A i, j \in 1..Cardinality(S) : q[i] = q[j] => i = j
         /\ \A x \in S : \E k \in 1..Cardinality(S) : q[k] = x
<1> DEFINE n == Cardinality(S)
<1>1. q \in [1..n -> S] /\ n \in Nat
  BY DEF Rising
<1>2. ASSUME NEW i \in 1..n, NEW j \in 1..n, q[i] = q[j] PROVE i = j
  <2>1. q[i] \in Int /\ q[j] \in Int
    BY <1>1
  <2>2. ~(i < j) /\ ~(j < i)
    BY <1>2, <2>1 DEF Rising
  <2> QED
    BY <2>2
<1>3. q \in Injection(1..n, S)
  BY <1>1, <1>2 DEF Injection, IsInjective
<1>4. IsFiniteSet(1..n) /\ Cardinality(1..n) = n
  BY <1>1, FS_Interval
<1>5. q \in Surjection(1..n, S)
  BY <1>3, <1>4, FS_Injection
<1> QED
  BY <1>2, <1>5 DEF Surjection

(* Min chooses the lesser of the two.                                      *)
LEMMA MinOfTwo ==
  ASSUME NEW a \in Int, NEW b \in Int
  PROVE  Min({a, b}) = IF a <= b THEN a ELSE b
<1> DEFINE m == IF a <= b THEN a ELSE b
<1>1. m \in {a, b} /\ \A y \in {a, b} : m <= y
  OBVIOUS
<1>2. \A x \in {a, b} : (\A y \in {a, b} : x <= y) => x = m
  OBVIOUS
<1> QED
  BY <1>1, <1>2 DEF Min

(* What is above a member of S leaves room for the members after it.       *)
LEMMA RisingBound ==
  ASSUME NEW N \in Nat, NEW S \in SUBSET (1..N), NEW q, Rising(q, S), NEW k \in 1..Cardinality(S)
  PROVE  q[k] <= N - Cardinality(S) + k
<1> DEFINE n == Cardinality(S)
<1> DEFINE f == [j \in (k + 1)..n |-> q[j]]
<1> DEFINE room == (q[k] + 1)..N
<1>1. n \in Nat /\ q \in [1..n -> S] /\ \A i, j \in 1..n : i < j => q[i] < q[j]
  BY DEF Rising
<1> HIDE DEF n
<1>2. q[k] \in 1..N /\ k \in 1..n
  BY <1>1 DEF n
<1>3. ASSUME NEW j \in (k + 1)..n PROVE q[j] \in room
  <2>1. j \in 1..n /\ k < j
    BY <1>1, <1>2
  <2>2. q[j] \in 1..N /\ q[k] < q[j]
    BY <1>1, <1>2, <2>1
  <2> QED
    BY <1>2, <2>2
<1>4. ASSUME NEW i \in (k + 1)..n, NEW j \in (k + 1)..n, q[i] = q[j] PROVE i = j
  <2>1. i \in 1..n /\ j \in 1..n
    BY <1>1, <1>2
  <2>2. q[i] \in S /\ q[j] \in S
    BY <1>1, <2>1
  <2>3. q[i] \in 1..N
    BY <2>2
  <2>4. ~(i < j) /\ ~(j < i)
    BY <1>1, <1>4, <2>1, <2>3
  <2> QED
    BY <2>1, <2>4
<1>5. f \in Injection((k + 1)..n, room)
  <2>1. f \in [(k + 1)..n -> room]
    BY <1>3
  <2> QED
    BY <1>4, <2>1 DEF Injection, IsInjective
<1>6. IsFiniteSet(room) /\ Cardinality(room) = N - q[k]
  <2>1. q[k] + 1 \in Int /\ N \in Int /\ q[k] <= N
    BY <1>2
  <2>2. IsFiniteSet(room) /\ Cardinality(room) = IF q[k] + 1 > N THEN 0 ELSE N - (q[k] + 1) + 1
    BY <2>1, FS_Interval
  <2> QED
    BY <1>2, <2>2
<1>7. Cardinality((k + 1)..n) = n - k
  <2>1. Cardinality((k + 1)..n) = IF k + 1 > n THEN 0 ELSE n - (k + 1) + 1
    BY <1>1, <1>2, FS_Interval
  <2> QED
    BY <1>1, <1>2, <2>1
<1>8. Cardinality((k + 1)..n) <= Cardinality(room)
  BY <1>5, <1>6, FS_Injection
<1>9. n - k <= N - q[k]
  BY <1>6, <1>7, <1>8
<1> QED
  BY <1>1, <1>2, <1>9 DEF n

-----------------------------------------------------------------------------

(* The parts of Inserted.                                                  *)
Order(taken) == InOrder(DOMAIN taken)
All(answers, taken) == 1..(Len(answers) + Len(Order(taken)))
Place(answers, taken) == [k \in DOMAIN Order(taken) |-> Min({Order(taken)[k], Len(answers) + k})]
Rest(answers, taken) == InOrder(All(answers, taken) \ Range(Place(answers, taken)))

(* Inserted, with its parts named: the indexes, their places, and the      *)
(* places left for the answers.                                            *)
LEMMA InsertedForm ==
  ASSUME NEW answers, NEW taken
  PROVE  Inserted(answers, taken) =
           [p \in All(answers, taken) |->
              IF \E k \in DOMAIN Order(taken) : Place(answers, taken)[k] = p
              THEN taken[Order(taken)[CHOOSE k \in DOMAIN Order(taken) : Place(answers, taken)[k] = p]]
              ELSE answers[CHOOSE k \in DOMAIN Rest(answers, taken) : Rest(answers, taken)[k] = p]]
BY DEF Inserted, Order, All, Place, Rest

LEMMA TakenFact ==
  ASSUME NEW taken \in Taken
  PROVE  /\ DOMAIN taken \in SUBSET Int /\ IsFiniteSet(DOMAIN taken)
         /\ \A i \in DOMAIN taken : i >= 1 /\ taken[i] \in Answers
BY DEF Taken

(* The indexes rise, and none is missing.                                  *)
LEMMA OrderFact ==
  ASSUME NEW taken \in Taken
  PROVE  LET m == Cardinality(DOMAIN taken)
         IN  /\ m \in Nat /\ Len(Order(taken)) = m /\ DOMAIN Order(taken) = 1..m
             /\ \A k \in 1..m : Order(taken)[k] \in DOMAIN taken
             /\ \A j, k \in 1..m : j < k => Order(taken)[j] < Order(taken)[k]
             /\ \A x \in DOMAIN taken : \E k \in 1..m : Order(taken)[k] = x
<1> DEFINE m == Cardinality(DOMAIN taken)
<1>1. Rising(Order(taken), DOMAIN taken)
  BY TakenFact, InOrderRises DEF Order
<1>2. \A x \in DOMAIN taken : \E k \in 1..m : Order(taken)[k] = x
  BY <1>1, TakenFact, RisingAll
<1>3. m \in Nat /\ Order(taken) \in [1..m -> DOMAIN taken]
  BY <1>1 DEF Rising
<1>4. Len(Order(taken)) = m
  BY <1>3
<1> QED
  BY <1>1, <1>2, <1>3, <1>4 DEF Rising

(* The places rise as the indexes do, so no two placeholders meet.         *)
LEMMA PlaceFact ==
  ASSUME NEW answers \in Seq(Answers), NEW taken \in Taken
  PROVE  LET m == Cardinality(DOMAIN taken)
             L == Len(answers)
             P == Place(answers, taken)
         IN  /\ L \in Nat /\ All(answers, taken) = 1..(L + m)
             /\ P \in [1..m -> 1..(L + m)]
             /\ \A k \in 1..m : P[k] = IF Order(taken)[k] <= L + k THEN Order(taken)[k] ELSE L + k
             /\ \A j, k \in 1..m : j < k => P[j] < P[k]
<1> DEFINE m == Cardinality(DOMAIN taken)
<1> DEFINE L == Len(answers)
<1> DEFINE P == Place(answers, taken)
<1> DEFINE o == Order(taken)
<1>1. m \in Nat /\ DOMAIN o = 1..m /\ Len(o) = m
  BY OrderFact
<1>2. \A k \in 1..m : o[k] \in DOMAIN taken
  BY OrderFact
<1>3. \A j, k \in 1..m : j < k => o[j] < o[k]
  BY OrderFact
<1>4. L \in Nat /\ All(answers, taken) = 1..(L + m)
  BY <1>1 DEF All
<1>5. \A k \in 1..m : o[k] \in Int /\ o[k] >= 1
  BY <1>2, TakenFact
<1>6. P = [k \in 1..m |-> Min({o[k], L + k})]
  BY <1>1 DEF Place
<1> HIDE DEF m, L, P, o
<1>7. ASSUME NEW k \in 1..m
      PROVE  P[k] = (IF o[k] <= L + k THEN o[k] ELSE L + k) /\ P[k] \in 1..(L + m)
  <2>1. P[k] = Min({o[k], L + k})
    BY <1>6
  <2>2. o[k] \in Int /\ L + k \in Int /\ o[k] >= 1
    BY <1>1, <1>4, <1>5
  <2>3. P[k] = IF o[k] <= L + k THEN o[k] ELSE L + k
    BY <2>1, <2>2, MinOfTwo
  <2> QED
    BY <1>1, <1>4, <2>2, <2>3
<1>8. P \in [1..m -> 1..(L + m)]
  BY <1>6, <1>7
<1>9. ASSUME NEW j \in 1..m, NEW k \in 1..m, j < k PROVE P[j] < P[k]
  <2>1. P[j] = (IF o[j] <= L + j THEN o[j] ELSE L + j) /\ P[k] = (IF o[k] <= L + k THEN o[k] ELSE L + k)
    BY <1>7
  <2>2. o[j] < o[k] /\ o[j] \in Int /\ o[k] \in Int
    BY <1>3, <1>5, <1>9
  <2> QED
    BY <1>1, <1>4, <1>9, <2>1, <2>2
<1> QED
  BY <1>4, <1>7, <1>8, <1>9 DEF m, L, P, o

(* The other places are as many as the answers.                            *)
LEMMA RestFact ==
  ASSUME NEW answers \in Seq(Answers), NEW taken \in Taken
  PROVE  LET A == All(answers, taken) \ Range(Place(answers, taken))
             R == Rest(answers, taken)
         IN  /\ R \in [1..Len(answers) -> A] /\ DOMAIN R = 1..Len(answers)
             /\ \A p \in A : \E k \in 1..Len(answers) : R[k] = p
<1> DEFINE m == Cardinality(DOMAIN taken)
<1> DEFINE L == Len(answers)
<1> DEFINE P == Place(answers, taken)
<1> DEFINE N == 1..(L + m)
<1>1. m \in Nat
  BY OrderFact
<1>2. L \in Nat /\ All(answers, taken) = N
  BY PlaceFact
<1>3. P \in [1..m -> N]
  BY PlaceFact
<1>4. \A j, k \in 1..m : j < k => P[j] < P[k]
  BY PlaceFact
<1> HIDE DEF m, L, P
<1>5. IsFiniteSet(N) /\ Cardinality(N) = L + m /\ IsFiniteSet(1..m) /\ Cardinality(1..m) = m
  <2>1. IsFiniteSet(N) /\ Cardinality(N) = IF 1 > L + m THEN 0 ELSE L + m - 1 + 1
    BY <1>1, <1>2, FS_Interval
  <2>2. IsFiniteSet(1..m) /\ Cardinality(1..m) = IF 1 > m THEN 0 ELSE m - 1 + 1
    BY <1>1, FS_Interval
  <2> QED
    BY <1>1, <1>2, <2>1, <2>2
<1>6. ASSUME NEW j \in 1..m, NEW k \in 1..m, P[j] = P[k] PROVE j = k
  <2>1. P[j] \in Int /\ P[k] \in Int
    BY <1>3
  <2>2. ~(j < k) /\ ~(k < j)
    BY <1>4, <1>6, <2>1
  <2> QED
    BY <2>2, <1>1
<1>7. P \in Surjection(1..m, Range(P)) /\ P \in Injection(1..m, Range(P))
  <2>1. P \in [1..m -> Range(P)]
    BY <1>3 DEF Range
  <2>2. \A x \in Range(P) : \E k \in 1..m : P[k] = x
    BY <1>3 DEF Range
  <2> QED
    BY <1>6, <2>1, <2>2 DEF Surjection, Injection, IsInjective
<1>8. IsFiniteSet(Range(P)) /\ Cardinality(Range(P)) = m
  BY <1>5, <1>7, FS_Surjection
<1>9. N \cap Range(P) = Range(P)
  BY <1>3 DEF Range
<1> DEFINE A == N \ Range(P)
<1>10. IsFiniteSet(A) /\ Cardinality(A) = L
  <2> HIDE DEF N
  <2>1. IsFiniteSet(A) /\ Cardinality(A) = Cardinality(N) - Cardinality(N \cap Range(P))
    BY <1>5, FS_Difference
  <2>2. Cardinality(A) = (L + m) - m
    BY <1>5, <1>8, <1>9, <2>1
  <2> HIDE DEF A
  <2> QED
    BY <1>1, <1>2, <2>1, <2>2
<1> DEFINE R == Rest(answers, taken)
<1>11. A \in SUBSET Int /\ R = InOrder(A)
  BY <1>2 DEF Rest, P
<1> HIDE DEF A, R
<1>12. Rising(R, A)
  BY <1>10, <1>11, InOrderRises
<1>13. \A p \in A : \E k \in 1..Cardinality(A) : R[k] = p
  BY <1>10, <1>11, <1>12, RisingAll
<1>14. R \in [1..L -> A]
  BY <1>10, <1>12 DEF Rising
<1> QED
  BY <1>2, <1>10, <1>13, <1>14 DEF L, A, R, P

(* The commands at some indexes of a body: as many, and fewer than the     *)
(* body has unless they are all.                                           *)
LEMMA PickedFact ==
  ASSUME NEW X, NEW b \in Seq(X), NEW is \in SUBSET (DOMAIN b)
  PROVE  /\ IsFiniteSet(is) /\ is \in SUBSET Int /\ Rising(InOrder(is), is)
         /\ Picked(b, is) \in Seq(X) /\ Len(Picked(b, is)) = Cardinality(is)
         /\ Len(Picked(b, is)) <= Len(b)
         /\ is # DOMAIN b => Len(Picked(b, is)) < Len(b)
         /\ \A k \in 1..Cardinality(is) : InOrder(is)[k] \in is /\ Picked(b, is)[k] = b[InOrder(is)[k]]
<1> DEFINE n == Cardinality(is)
<1> DEFINE q == InOrder(is)
<1>1. Len(b) \in Nat /\ DOMAIN b = 1..Len(b) /\ IsFiniteSet(1..Len(b)) /\ Cardinality(1..Len(b)) = Len(b)
  <2>1. Len(b) \in Nat /\ DOMAIN b = 1..Len(b)
    OBVIOUS
  <2>2. IsFiniteSet(1..Len(b)) /\ Cardinality(1..Len(b)) = IF 1 > Len(b) THEN 0 ELSE Len(b) - 1 + 1
    BY <2>1, FS_Interval
  <2> QED
    BY <2>1, <2>2
<1>2. is \in SUBSET (1..Len(b)) /\ is \in SUBSET Int
  BY <1>1
<1>3. IsFiniteSet(is) /\ n <= Len(b) /\ (Len(b) = n => is = 1..Len(b))
  BY <1>1, <1>2, FS_Subset
<1>4. Rising(q, is)
  BY <1>2, <1>3, InOrderRises
<1> HIDE DEF q, n
<1>5. n \in Nat /\ q \in [1..n -> is]
  BY <1>4 DEF Rising, n
<1>6. Picked(b, is) = [k \in 1..n |-> b[q[k]]]
  BY <1>5 DEF Picked, q
<1>7. \A k \in 1..n : q[k] \in 1..Len(b) /\ b[q[k]] \in X
  BY <1>1, <1>2, <1>5
<1>8. Picked(b, is) \in Seq(X) /\ Len(Picked(b, is)) = n
  BY <1>5, <1>6, <1>7
<1>9. is # DOMAIN b => n < Len(b)
  <2>1. is # DOMAIN b => n # Len(b)
    BY <1>1, <1>3
  <2>2. n <= Len(b) /\ Len(b) \in Int
    BY <1>1, <1>3
  <2> QED
    BY <1>5, <2>1, <2>2
<1>10. \A k \in 1..n : q[k] \in is /\ Picked(b, is)[k] = b[q[k]]
  BY <1>5, <1>6
<1> QED
  BY <1>2, <1>3, <1>4, <1>8, <1>9, <1>10 DEF q, n

(* A member of S has all those before it below it.                         *)
LEMMA RisingLow ==
  ASSUME NEW N \in Nat, NEW S \in SUBSET (1..N), NEW q, Rising(q, S), NEW k \in 1..Cardinality(S)
  PROVE  k <= q[k]
<1> DEFINE n == Cardinality(S)
<1> DEFINE f == [j \in 1..k |-> q[j]]
<1> DEFINE room == 1..q[k]
<1>1. n \in Nat /\ q \in [1..n -> S] /\ \A i, j \in 1..n : i < j => q[i] < q[j]
  BY DEF Rising
<1> HIDE DEF n
<1>2. q[k] \in 1..N /\ k \in 1..n
  BY <1>1 DEF n
<1>3. ASSUME NEW j \in 1..k PROVE j \in 1..n /\ q[j] \in 1..N /\ q[j] \in room
  <2>1. j \in 1..n /\ (j < k \/ j = k)
    BY <1>1, <1>2
  <2>2. q[j] \in S
    BY <1>1, <2>1
  <2>3. q[j] \in 1..N
    BY <2>2
  <2>4. j < k => q[j] < q[k]
    BY <1>1, <1>2, <2>1
  <2> QED
    BY <1>2, <2>1, <2>3, <2>4
<1>4. ASSUME NEW i \in 1..k, NEW j \in 1..k, q[i] = q[j] PROVE i = j
  <2>1. i \in 1..n /\ j \in 1..n /\ q[i] \in 1..N
    BY <1>3
  <2>2. ~(i < j) /\ ~(j < i)
    BY <1>1, <1>4, <2>1
  <2> QED
    BY <2>1, <2>2
<1>5. f \in Injection(1..k, room)
  <2>1. f \in [1..k -> room]
    BY <1>3
  <2> QED
    BY <1>4, <2>1 DEF Injection, IsInjective
<1>6. IsFiniteSet(room) /\ Cardinality(room) = q[k]
  <2>1. IsFiniteSet(room) /\ Cardinality(room) = IF 1 > q[k] THEN 0 ELSE q[k] - 1 + 1
    BY <1>2, FS_Interval
  <2> QED
    BY <1>2, <2>1
<1>7. Cardinality(1..k) = k
  <2>1. Cardinality(1..k) = IF 1 > k THEN 0 ELSE k - 1 + 1
    BY <1>1, <1>2, FS_Interval
  <2> QED
    BY <1>1, <1>2, <2>1
<1> QED
  BY <1>5, <1>6, <1>7, FS_Injection

(* A sequence of all the numbers to n that rises counts them.              *)
LEMMA PickedWhole ==
  ASSUME NEW X, NEW b \in Seq(X)
  PROVE  Picked(b, DOMAIN b) = b
<1> DEFINE n == Len(b)
<1> DEFINE q == InOrder(DOMAIN b)
<1>1. n \in Nat /\ DOMAIN b = 1..n
  OBVIOUS
<1>2. Cardinality(1..n) = n
  <2>1. Cardinality(1..n) = IF 1 > n THEN 0 ELSE n - 1 + 1
    BY <1>1, FS_Interval
  <2> QED
    BY <1>1, <2>1
<1>3. DOMAIN b \in SUBSET (DOMAIN b)
  OBVIOUS
<1>4. Rising(q, 1..n) /\ Picked(b, DOMAIN b) \in Seq(X) /\ Len(Picked(b, DOMAIN b)) = n
  BY <1>1, <1>2, <1>3, PickedFact
<1>5. \A k \in 1..n : q[k] \in 1..n /\ Picked(b, DOMAIN b)[k] = b[q[k]]
  BY <1>1, <1>2, <1>3, PickedFact
<1> HIDE DEF q, n
<1>6. ASSUME NEW k \in 1..n PROVE q[k] = k
  <2>1. 1..n \in SUBSET (1..n) /\ k \in 1..Cardinality(1..n)
    BY <1>2
  <2>2. q[k] <= n - Cardinality(1..n) + k
    BY <1>1, <1>4, <2>1, RisingBound
  <2>3. k <= q[k]
    BY <1>1, <1>4, <2>1, RisingLow
  <2> QED
    BY <1>1, <1>2, <1>5, <2>2, <2>3
<1>7. \A k \in 1..n : Picked(b, DOMAIN b)[k] = b[k]
  BY <1>5, <1>6
<1> QED
  BY <1>1, <1>4, <1>7

(* Inserting lengthens the answers by the placeholders.                    *)
LEMMA InsertedType ==
  ASSUME NEW answers \in Seq(Answers), NEW taken \in Taken
  PROVE  /\ Inserted(answers, taken) \in Seq(Answers)
         /\ Len(Inserted(answers, taken)) = Len(answers) + Cardinality(DOMAIN taken)
         /\ Len(answers) + Cardinality(DOMAIN taken) \in Nat
<1> DEFINE m == Cardinality(DOMAIN taken)
<1> DEFINE L == Len(answers)
<1> DEFINE P == Place(answers, taken)
<1> DEFINE R == Rest(answers, taken)
<1> DEFINE N == All(answers, taken)
<1> DEFINE I == Inserted(answers, taken)
<1>1. m \in Nat /\ L \in Nat /\ N = 1..(L + m) /\ DOMAIN Order(taken) = 1..m
  BY OrderFact, PlaceFact
<1>2. \A k \in 1..m : Order(taken)[k] \in DOMAIN taken
  BY OrderFact
<1>3. \A i \in DOMAIN taken : taken[i] \in Answers
  BY TakenFact
<1>4. \A p \in N \ Range(P) : \E k \in 1..L : R[k] = p
  BY RestFact
<1>5. DOMAIN R = 1..L
  BY RestFact
<1>6. P \in [1..m -> N]
  BY PlaceFact
<1>7. I = [p \in N |-> IF \E k \in DOMAIN Order(taken) : P[k] = p
                       THEN taken[Order(taken)[CHOOSE k \in DOMAIN Order(taken) : P[k] = p]]
                       ELSE answers[CHOOSE k \in DOMAIN R : R[k] = p]]
  BY InsertedForm
<1> HIDE DEF m, L, P, R, N, I
<1>8. ASSUME NEW p \in N PROVE I[p] \in Answers
  <2>1. CASE \E k \in 1..m : P[k] = p
    <3> DEFINE k == CHOOSE k \in 1..m : P[k] = p
    <3>1. k \in 1..m
      BY <2>1
    <3>2. I[p] = taken[Order(taken)[k]]
      BY <1>1, <1>7, <2>1
    <3> HIDE DEF k
    <3> QED
      BY <1>2, <1>3, <3>1, <3>2
  <2>2. CASE ~\E k \in 1..m : P[k] = p
    <3> DEFINE k == CHOOSE k \in 1..L : R[k] = p
    <3>1. p \notin Range(P)
      BY <1>6, <2>2 DEF Range
    <3>2. k \in 1..L
      BY <1>4, <3>1
    <3>3. I[p] = answers[k]
      BY <1>1, <1>5, <1>7, <2>2
    <3> HIDE DEF k
    <3> QED
      BY <3>2, <3>3 DEF L
  <2> QED
    BY <2>1, <2>2
<1>9. I \in [1..(L + m) -> Answers] /\ L + m \in Nat
  <2>1. I \in [N -> Answers]
    BY <1>7, <1>8
  <2>2. L + m \in Nat
    BY <1>1
  <2> QED
    BY <1>1, <2>1, <2>2
<1> QED
  BY <1>9 DEF L, m, I

(* Placeholders that say for which commands they stand come back to them.  *)
LEMMA InsertedAligns ==
  ASSUME NEW o \in Seq(Command), NEW answers \in Seq(Answers), NEW taken \in Taken,
         \A i \in DOMAIN taken : i \in 1..Len(o) /\ taken[i].to = o[i],
         Aligns(answers, Picked(o, DOMAIN o \ DOMAIN taken))
  PROVE  Aligns(Inserted(answers, taken), o)
<1> DEFINE m == Cardinality(DOMAIN taken)
<1> DEFINE L == Len(answers)
<1> DEFINE P == Place(answers, taken)
<1> DEFINE R == Rest(answers, taken)
<1> DEFINE N == All(answers, taken)
<1> DEFINE I == Inserted(answers, taken)
<1> DEFINE n == Len(o)
<1> DEFINE T == DOMAIN taken
<1> DEFINE U == DOMAIN o \ T
<1> DEFINE O == Order(taken)
<1>1. m \in Nat /\ L \in Nat /\ N = 1..(L + m) /\ DOMAIN O = 1..m
  BY OrderFact, PlaceFact
<1>2. n \in Nat /\ DOMAIN o = 1..n
  OBVIOUS
<1>3. T \in SUBSET (1..n) /\ IsFiniteSet(T)
  BY TakenFact
<1>4. Rising(O, T)
  BY TakenFact, InOrderRises DEF Order
<1>5. U \in SUBSET (DOMAIN o)
  OBVIOUS
<1>6. L = Cardinality(U) /\ Len(Picked(o, U)) = Cardinality(U)
  BY <1>5, PickedFact DEF Aligns
<1>7. L = n - m
  <2>1. IsFiniteSet(1..n) /\ Cardinality(1..n) = n
    <3> HIDE DEF n
    <3>1. IsFiniteSet(1..n) /\ Cardinality(1..n) = IF 1 > n THEN 0 ELSE n - 1 + 1
      BY <1>2, FS_Interval
    <3> QED
      BY <1>2, <3>1
  <2>2. (1..n) \cap T = T
    BY <1>3
  <2>3. Cardinality((1..n) \ T) = Cardinality(1..n) - Cardinality((1..n) \cap T)
    BY <2>1, FS_Difference
  <2> QED
    BY <1>2, <1>6, <2>1, <2>2, <2>3
<1>8. ASSUME NEW k \in 1..m PROVE P[k] = O[k] /\ O[k] \in T
  <2>1. P[k] = IF O[k] <= L + k THEN O[k] ELSE L + k
    BY PlaceFact
  <2>2. O[k] <= n - m + k
    BY <1>2, <1>3, <1>4, RisingBound
  <2>3. O[k] \in T
    BY OrderFact
  <2> HIDE DEF P, O, T, m, L, n
  <2> QED
    BY <1>7, <2>1, <2>2, <2>3
<1>9. P \in [1..m -> N]
  BY PlaceFact
<1>10. \A x \in T : \E k \in 1..m : O[k] = x
  BY OrderFact
<1>11. Range(P) = T
  <2> HIDE DEF P, O, T, m, N
  <2> QED
    BY <1>8, <1>9, <1>10 DEF Range
<1>12. N = 1..n
  <2> HIDE DEF N, L, m, n
  <2> QED
    BY <1>1, <1>2, <1>7
<1>13. R = InOrder(U)
  BY <1>2, <1>11, <1>12 DEF Rest
<1>14. \A k \in 1..L : InOrder(U)[k] \in U /\ Picked(o, U)[k] = o[InOrder(U)[k]]
  BY <1>5, <1>6, PickedFact
<1>15. \A k \in 1..L : answers[k].to = Picked(o, U)[k]
  BY <1>6 DEF Aligns
<1>16. \A p \in N \ Range(P) : \E k \in 1..L : R[k] = p
  BY RestFact
<1>17. DOMAIN R = 1..L
  BY RestFact
<1>18. I = [p \in N |-> IF \E k \in DOMAIN O : P[k] = p
                        THEN taken[O[CHOOSE k \in DOMAIN O : P[k] = p]]
                        ELSE answers[CHOOSE k \in DOMAIN R : R[k] = p]]
  BY InsertedForm
<1>19. \A i \in T : taken[i].to = o[i]
  OBVIOUS
<1>20. Len(I) = n
  <2>1. Len(I) = L + m
    BY InsertedType
  <2> HIDE DEF I, L, m, n
  <2> QED
    BY <1>1, <1>2, <1>7, <2>1
<1> HIDE DEF m, L, P, R, N, I, n, T, U, O
<1>21. ASSUME NEW p \in 1..n PROVE I[p].to = o[p]
  <2>1. CASE \E k \in 1..m : P[k] = p
    <3> DEFINE k == CHOOSE k \in 1..m : P[k] = p
    <3>1. k \in 1..m /\ P[k] = p
      BY <2>1
    <3>2. I[p] = taken[O[k]]
      BY <1>1, <1>12, <1>18, <2>1
    <3> HIDE DEF k
    <3>3. O[k] = p /\ p \in T
      BY <1>8, <3>1
    <3> QED
      BY <1>19, <3>2, <3>3
  <2>2. CASE ~\E k \in 1..m : P[k] = p
    <3> DEFINE k == CHOOSE k \in 1..L : R[k] = p
    <3>1. p \notin Range(P)
      BY <1>9, <2>2 DEF Range
    <3>2. k \in 1..L /\ R[k] = p
      BY <1>12, <1>16, <3>1
    <3>3. I[p] = answers[k]
      BY <1>1, <1>12, <1>17, <1>18, <2>2
    <3> HIDE DEF k
    <3> QED
      BY <1>13, <1>14, <1>15, <3>2, <3>3
  <2> QED
    BY <2>1, <2>2
<1> QED
  BY <1>20, <1>21 DEF Aligns, I, n

-----------------------------------------------------------------------------
(* The stack of frames.                                                    *)

-----------------------------------------------------------------------------
(* The stack.                                                              *)

(* What is known of the frame that runs.                                   *)
LEMMA StackTop ==
  ASSUME NEW s, Stacked(s), s # << >>
  PROVE  /\ s \in Seq(Frames) /\ Len(s) \in Nat \ {0} /\ Head(s) = s[1] /\ s[1] \in Frames
         /\ FrameOK(s[1], Len(s))
         /\ s[1].at = "chunks" <=> Len(s) = 1
         /\ Len(s) > 1 => Waits(s[2]) /\ NotLonger(s[1].body, s[2])
<1>1. s \in Seq(Frames) /\ Len(s) \in Nat \ {0} /\ Head(s) = s[1] /\ s[1] \in Frames
  BY DEF Stacked
<1>2. FrameOK(s[1], Len(s) - 1 + 1) /\ Len(s) - 1 + 1 = Len(s)
  BY <1>1 DEF Stacked
<1>3. FrameOK(s[1], Len(s))
  BY <1>2
<1>4. s[1].at = "chunks" <=> Len(s) = 1
  BY <1>3 DEF FrameOK
<1>5. ASSUME Len(s) > 1 PROVE Waits(s[2]) /\ NotLonger(s[1].body, s[2])
  <2>1. 1 \in 1..(Len(s) - 1) /\ 1 + 1 = 2
    BY <1>1, <1>5
  <2>2. Waits(s[1 + 1]) /\ NotLonger(s[1].body, s[1 + 1])
    BY <2>1 DEF Stacked
  <2> QED
    BY <2>1, <2>2
<1> QED
  BY <1>1, <1>3, <1>4, <1>5

LEMMA StackTail ==
  ASSUME NEW s, Stacked(s), s # << >>
  PROVE  /\ Stacked(Tail(s)) /\ Tail(s) \in Seq(Frames) /\ Len(Tail(s)) = Len(s) - 1
         /\ Tail(s) # << >> <=> Len(s) > 1
         /\ \A i \in 1..Len(Tail(s)) : Tail(s)[i] = s[i + 1]
<1> DEFINE t == Tail(s)
<1>1. s \in Seq(Frames) /\ Len(s) \in Nat /\ Len(s) >= 1
  BY DEF Stacked
<1>2. t \in Seq(Frames) /\ Len(t) = Len(s) - 1 /\ \A i \in 1..Len(t) : t[i] = s[i + 1]
  BY <1>1
<1> HIDE DEF t
<1>3. t # << >> <=> Len(s) > 1
  <2>1. t # << >> <=> Len(t) # 0
    BY <1>2
  <2> QED
    BY <1>1, <1>2, <2>1
<1>4. ASSUME NEW i \in 1..Len(t) PROVE FrameOK(t[i], Len(t) - i + 1)
  <2>1. i + 1 \in 1..Len(s) /\ Len(s) - (i + 1) + 1 = Len(t) - i + 1 /\ t[i] = s[i + 1]
    BY <1>1, <1>2
  <2>2. FrameOK(s[i + 1], Len(s) - (i + 1) + 1)
    BY <2>1 DEF Stacked
  <2> QED
    BY <2>1, <2>2
<1>5. ASSUME NEW i \in 1..(Len(t) - 1) PROVE Waits(t[i + 1]) /\ NotLonger(t[i].body, t[i + 1])
  <2>1. i + 1 \in 1..(Len(s) - 1) /\ i \in 1..Len(t) /\ i + 1 \in 1..Len(t)
    BY <1>1, <1>2
  <2>2. t[i] = s[i + 1] /\ t[i + 1] = s[(i + 1) + 1]
    BY <1>2, <2>1
  <2>3. Waits(s[(i + 1) + 1]) /\ NotLonger(s[i + 1].body, s[(i + 1) + 1])
    BY <2>1 DEF Stacked
  <2> QED
    BY <2>2, <2>3
<1>6. Stacked(t)
  BY <1>2, <1>4, <1>5 DEF Stacked
<1> QED
  BY <1>2, <1>3, <1>6 DEF t

(* A sequence with one more element in front.                              *)
LEMMA PushFact ==
  ASSUME NEW F, NEW t \in Seq(F), NEW f \in F
  PROVE  LET u == <<f>> \o t
         IN  /\ u \in Seq(F) /\ Len(u) = Len(t) + 1 /\ u # << >> /\ u[1] = f /\ Head(u) = f /\ Tail(u) = t
             /\ \A i \in 1..Len(t) : u[i + 1] = t[i]
             /\ \A i \in 2..Len(u) : u[i] = t[i - 1]
<1> DEFINE u == <<f>> \o t
<1>1. <<f>> \in Seq(F) /\ Len(<<f>>) = 1 /\ <<f>>[1] = f /\ Len(t) \in Nat
  OBVIOUS
<1>2. u \in Seq(F) /\ Len(u) = Len(t) + 1
  BY <1>1
<1>3. u[1] = f
  BY <1>1
<1>4. \A i \in 2..Len(u) : u[i] = t[i - 1]
  BY <1>1, <1>2
<1>5. \A i \in 1..Len(t) : u[i + 1] = t[i]
  BY <1>1, <1>2
<1> HIDE DEF u
<1>6. u # << >> /\ Head(u) = f
  BY <1>1, <1>2, <1>3
<1>7. Tail(u) = t
  <2>1. Tail(u) \in Seq(F) /\ Len(Tail(u)) = Len(t) /\ \A i \in 1..Len(t) : Tail(u)[i] = u[i + 1]
    BY <1>1, <1>2, <1>6
  <2> QED
    BY <1>5, <2>1
<1> QED
  BY <1>2, <1>3, <1>4, <1>5, <1>6, <1>7 DEF u

(* A frame can be put upon one that waits.                                 *)
LEMMA StackPush ==
  ASSUME NEW t, Stacked(t), NEW f \in Frames, FrameOK(f, Len(t) + 1),
         t # << >> => Waits(t[1]) /\ NotLonger(f.body, t[1])
  PROVE  Stacked(<<f>> \o t)
<1> DEFINE u == <<f>> \o t
<1>1. t \in Seq(Frames) /\ Len(t) \in Nat
  BY DEF Stacked
<1>2. u \in Seq(Frames) /\ Len(u) = Len(t) + 1 /\ u[1] = f /\ \A i \in 2..Len(u) : u[i] = t[i - 1]
  BY <1>1, PushFact
<1> HIDE DEF u
<1>3. ASSUME NEW i \in 1..Len(u) PROVE FrameOK(u[i], Len(u) - i + 1)
  <2>1. CASE i = 1
    <3>1. Len(u) - i + 1 = Len(t) + 1 /\ u[i] = f
      BY <1>1, <1>2, <2>1
    <3> QED
      BY <3>1
  <2>2. CASE i # 1
    <3>1. i \in 2..Len(u) /\ i - 1 \in 1..Len(t) /\ Len(u) - i + 1 = Len(t) - (i - 1) + 1
      BY <1>1, <1>2, <2>2
    <3>2. u[i] = t[i - 1]
      BY <1>2, <3>1
    <3>3. FrameOK(t[i - 1], Len(t) - (i - 1) + 1)
      BY <3>1 DEF Stacked
    <3> QED
      BY <3>1, <3>2, <3>3
  <2> QED
    BY <2>1, <2>2
<1>4. ASSUME NEW i \in 1..(Len(u) - 1) PROVE Waits(u[i + 1]) /\ NotLonger(u[i].body, u[i + 1])
  <2>1. i + 1 \in 2..Len(u) /\ (i + 1) - 1 = i
    BY <1>1, <1>2
  <2>2. u[i + 1] = t[i]
    <3>1. u[i + 1] = t[(i + 1) - 1]
      BY <1>2, <2>1
    <3> QED
      BY <2>1, <3>1
  <2>3. CASE i = 1
    <3>1. t # << >>
      BY <1>1, <1>2, <2>3
    <3> QED
      BY <1>2, <2>2, <2>3, <3>1
  <2>4. CASE i # 1
    <3>1. i \in 2..Len(u) /\ i - 1 \in 1..(Len(t) - 1) /\ (i - 1) + 1 = i
      BY <1>1, <1>2, <2>4
    <3>2. u[i] = t[i - 1]
      BY <1>2, <3>1
    <3>3. Waits(t[(i - 1) + 1]) /\ NotLonger(t[i - 1].body, t[(i - 1) + 1])
      BY <3>1 DEF Stacked
    <3> QED
      BY <2>2, <3>1, <3>2, <3>3
  <2> QED
    BY <2>3, <2>4
<1>5. Stacked(u)
  BY <1>2, <1>3, <1>4 DEF Stacked
<1> QED
  BY <1>5 DEF u

LEMMA NothingTaken == << >> \in Taken /\ DOMAIN << >> = {}
<1>1. {} \in SUBSET (Nat \ {0}) /\ IsFiniteSet({})
  BY FS_EmptySet
<1>2. << >> \in [{} -> Answers]
  OBVIOUS
<1> QED
  BY <1>1, <1>2 DEF Taken

(* What is assumed of the constants.                                       *)
LEMMA BodyType ==
  /\ Body \in Seq(Command) /\ Body # << >> /\ Command \subseteq DOMAIN Name /\ Offline \subseteq Command
  /\ MAX_CHUNK_ITEMS \in Nat \ {0} /\ RETRY_ATTEMPTS \in Nat \ {0}
BY HttpBatchAssumption

LEMMA WideFact == ASSUME NEW b PROVE Wide(b) \in 0..1 /\ (Len(b) > 1 <=> Wide(b) = 1)
BY DEF Wide

(* The frame of a send_chunk that begins.                                  *)
LEMMA NewFrame ==
  ASSUME NEW b \in Seq(Command), NEW r \in 1..RETRY_ATTEMPTS
  PROVE  /\ Frame(b, r) \in Frames /\ Runs(Frame(b, r))
         /\ Frame(b, r).at = "enter" /\ Frame(b, r).body = b /\ Frame(b, r).retry = r - 1
         /\ ~Frame(b, r).popped /\ Frame(b, r).taken = << >>
         /\ \A d \in Nat : d > 1 /\ d + r - 1 + Wide(b) <= RETRY_ATTEMPTS + 2 => FrameOK(Frame(b, r), d)
<1> DEFINE f == Frame(b, r)
<1>1. f = [at |-> "enter", body |-> b, retry |-> r - 1, taken |-> << >>, popped |-> FALSE,
           todo |-> << >>, done |-> << >>, global |-> FALSE, idxs |-> << >>]
  BY DEF Frame
<1> HIDE DEF f
<1>2. f.at = "enter" /\ f.body = b /\ f.retry = r - 1 /\ f.popped = FALSE /\ f.taken = << >> /\ f.todo = << >>
  BY <1>1
<1>3. f \in Frames
  <2>1. << >> \in Taken /\ << >> \in Seq(Command) /\ << >> \in Seq(Answers) /\ << >> \in Seq(Nat)
    BY NothingTaken
  <2>2. r - 1 \in 0..(RETRY_ATTEMPTS - 1)
    BY BodyType
  <2>3. "enter" \in Places /\ FALSE \in BOOLEAN
    BY DEF Places
  <2> QED
    BY <1>1, <2>1, <2>2, <2>3 DEF Frames
<1>4. Runs(f)
  BY <1>2 DEF Runs, OneByOne
<1>5. ASSUME NEW d \in Nat, d > 1, d + r - 1 + Wide(b) <= RETRY_ATTEMPTS + 2 PROVE FrameOK(f, d)
  <2>1. d + (r - 1) + Wide(b) <= RETRY_ATTEMPTS + 2
    BY <1>5, WideFact, BodyType
  <2>2. f.todo \in Seq(Command)
    BY <1>2
  <2> QED
    BY <1>2, <1>5, <2>1, <2>2 DEF FrameOK, OneByOne
<1> QED
  BY <1>2, <1>3, <1>4, <1>5 DEF f

-----------------------------------------------------------------------------
(* What the operations on the stack leave.                                 *)

(* The frame that runs goes on, no deeper than it was.                     *)
LEMMA ReplaceOK ==
  ASSUME Stacked(stack), stack # << >>, NEW f \in Frames, FrameOK(f, Len(stack)),
         Len(f.body) <= Len(stack[1].body), Replace(f)
  PROVE  Stacked(stack') /\ stack' # << >> /\ stack'[1] = f
<1> DEFINE t == Tail(stack)
<1>1. stack[1] \in Frames /\ Len(stack) \in Nat
  BY StackTop
<1>2. Stacked(t) /\ t \in Seq(Frames) /\ Len(t) = Len(stack) - 1 /\ (t # << >> <=> Len(stack) > 1)
  BY StackTail
<1>3. t # << >> => t[1] = stack[2] /\ Waits(stack[2]) /\ NotLonger(stack[1].body, stack[2])
  <2>1. ASSUME t # << >> PROVE t[1] = stack[2]
    <3>1. 1 \in 1..Len(t) /\ 1 + 1 = 2
      BY <1>1, <1>2, <2>1
    <3>2. t[1] = stack[1 + 1]
      BY <3>1, StackTail
    <3> QED
      BY <3>1, <3>2
  <2> QED
    BY <1>2, <2>1, StackTop
<1>4. stack' = <<f>> \o t
  BY DEF Replace
<1> HIDE DEF t
<1>5. t # << >> => Waits(t[1]) /\ NotLonger(f.body, t[1])
  <2>1. Len(f.body) \in Int /\ Len(stack[1].body) \in Int
    BY <1>1 DEF Frames
  <2>2. t # << >> /\ t[1].at = "whole" => Len(stack[1].body) <= Len(t[1].body) /\ Len(t[1].body) \in Int
    <3>1. t # << >> => t[1] \in Frames
      BY <1>2
    <3> QED
      BY <1>3, <3>1 DEF NotLonger, Frames
  <2> QED
    BY <1>3, <2>1, <2>2 DEF NotLonger
<1>6. FrameOK(f, Len(t) + 1)
  <2>1. Len(t) + 1 = Len(stack)
    BY <1>1, <1>2
  <2> QED
    BY <2>1
<1>7. Stacked(<<f>> \o t)
  BY <1>2, <1>5, <1>6, StackPush
<1>8. <<f>> \o t # << >> /\ (<<f>> \o t)[1] = f
  BY <1>2, PushFact
<1> QED
  BY <1>4, <1>7, <1>8

(* The frame that runs calls another.                                      *)
LEMMA PushOK ==
  ASSUME Stacked(stack), stack # << >>, NEW f \in Frames, FrameOK(f, Len(stack)), Waits(f),
         Len(f.body) <= Len(stack[1].body),
         NEW g \in Frames, FrameOK(g, Len(stack) + 1), NotLonger(g.body, f), Push(f, g)
  PROVE  Stacked(stack') /\ stack' # << >> /\ stack'[1] = g
<1> DEFINE t == Tail(stack)
<1> DEFINE u == <<f>> \o t
<1>1. stack[1] \in Frames /\ Len(stack) \in Nat
  BY StackTop
<1>2. Stacked(t) /\ t \in Seq(Frames) /\ Len(t) = Len(stack) - 1 /\ (t # << >> <=> Len(stack) > 1)
  BY StackTail
<1>3. t # << >> => t[1] = stack[2] /\ Waits(stack[2]) /\ NotLonger(stack[1].body, stack[2])
  <2>1. ASSUME t # << >> PROVE t[1] = stack[2]
    <3>1. 1 \in 1..Len(t) /\ 1 + 1 = 2
      BY <1>1, <1>2, <2>1
    <3>2. t[1] = stack[1 + 1]
      BY <3>1, StackTail
    <3> QED
      BY <3>1, <3>2
  <2> QED
    BY <1>2, <2>1, StackTop
<1>4. stack' = <<g, f>> \o t
  BY DEF Push
<1> HIDE DEF t
<1>5. t # << >> => Waits(t[1]) /\ NotLonger(f.body, t[1])
  <2>1. Len(f.body) \in Int /\ Len(stack[1].body) \in Int
    BY <1>1 DEF Frames
  <2>2. t # << >> /\ t[1].at = "whole" => Len(stack[1].body) <= Len(t[1].body) /\ Len(t[1].body) \in Int
    <3>1. t # << >> => t[1] \in Frames
      BY <1>2
    <3> QED
      BY <1>3, <3>1 DEF NotLonger, Frames
  <2> QED
    BY <1>3, <2>1, <2>2 DEF NotLonger
<1>6. FrameOK(f, Len(t) + 1)
  <2>1. Len(t) + 1 = Len(stack)
    BY <1>1, <1>2
  <2> QED
    BY <2>1
<1>7. Stacked(u)
  BY <1>2, <1>5, <1>6, StackPush
<1>8. u \in Seq(Frames) /\ u # << >> /\ u[1] = f /\ Len(u) = Len(t) + 1
  BY <1>2, PushFact
<1>9. stack' = <<g>> \o u
  BY <1>2, <1>4
<1> HIDE DEF u
<1>10. FrameOK(g, Len(u) + 1)
  <2>1. Len(u) + 1 = Len(stack) + 1
    BY <1>1, <1>2, <1>8
  <2> QED
    BY <2>1
<1>11. Stacked(<<g>> \o u)
  BY <1>7, <1>8, <1>10, StackPush
<1>12. <<g>> \o u # << >> /\ (<<g>> \o u)[1] = g
  BY <1>8, PushFact
<1> QED
  BY <1>9, <1>11, <1>12

(* The frame that runs ends.                                               *)
LEMMA PopOK ==
  ASSUME Stacked(stack), stack # << >>, stack' = Tail(stack)
  PROVE  /\ Stacked(stack')
         /\ stack' # << >> => stack'[1] = stack[2] /\ Len(stack) > 1
                              /\ Waits(stack'[1]) /\ NotLonger(stack[1].body, stack'[1])
<1> DEFINE t == Tail(stack)
<1>1. Len(stack) \in Nat
  BY StackTop
<1>2. Stacked(t) /\ t \in Seq(Frames) /\ Len(t) = Len(stack) - 1 /\ (t # << >> <=> Len(stack) > 1)
  BY StackTail
<1>3. ASSUME t # << >> PROVE t[1] = stack[2]
  <2>1. 1 \in 1..Len(t) /\ 1 + 1 = 2
    BY <1>1, <1>2, <1>3
  <2>2. t[1] = stack[1 + 1]
    BY <2>1, StackTail
  <2> QED
    BY <2>1, <2>2
<1>4. Len(stack) > 1 => Waits(stack[2]) /\ NotLonger(stack[1].body, stack[2])
  BY StackTop
<1>5. stack' = t
  OBVIOUS
<1> HIDE DEF t
<1> QED
  BY <1>2, <1>3, <1>4, <1>5

(* return.                                                                 *)
LEMMA ReturnOK ==
  ASSUME Stacked(stack), stack # << >>, NEW answers \in Seq(Answers), Return(answers)
  PROVE  Stacked(stack') /\ RetOK(stack', ret')
<1>1. Top = stack[1] /\ stack[1] \in Frames
  BY StackTop DEF Top
<1>2. stack' = Tail(stack) /\ ret' = Returned(Top.body, answers)
  BY DEF Return
<1>3. Stacked(stack') /\ (stack' # << >> => Waits(stack'[1]))
  BY <1>2, PopOK
<1>4. ret' \in Replies
  BY <1>1, <1>2 DEF Returned, Replies, Frames
<1> QED
  BY <1>3, <1>4 DEF RetOK

(* raise.                                                                  *)
LEMMA RaisedOK ==
  ASSUME Stacked(stack), stack # << >>, NEW b \in Seq(Command), Len(b) <= Len(stack[1].body),
         NEW exc \in Excs, stack' = Tail(stack), ret' = Raised(b, exc)
  PROVE  Stacked(stack') /\ RetOK(stack', ret')
<1>1. stack[1] \in Frames
  BY StackTop
<1>2. Stacked(stack') /\ (stack' # << >> => Waits(stack'[1]) /\ NotLonger(stack[1].body, stack'[1]))
  BY PopOK
<1>3. ret' \in Errors /\ ret'.body = b
  BY DEF Raised, Errors
<1>4. ASSUME stack' # << >> PROVE NotLonger(b, stack'[1])
  <2>1. stack'[1] \in Frames
    BY <1>2, <1>4, StackTop
  <2>2. Len(stack'[1].body) \in Int /\ Len(stack[1].body) \in Int /\ Len(b) \in Int
    BY <1>1, <2>1 DEF Frames
  <2> QED
    BY <1>2, <1>4, <2>2 DEF NotLonger
<1> QED
  BY <1>2, <1>3, <1>4 DEF RetOK

LEMMA RaiseOK ==
  ASSUME Stacked(stack), stack # << >>, NEW exc \in Excs, Raise(exc)
  PROVE  Stacked(stack') /\ RetOK(stack', ret')
<1>1. Top = stack[1] /\ stack[1] \in Frames
  BY StackTop DEF Top
<1>2. Top.body \in Seq(Command) /\ Len(Top.body) <= Len(stack[1].body)
  BY <1>1 DEF Frames
<1> QED
  BY <1>2, RaisedOK DEF Raise

(* send again from an except clause: one attempt less.                     *)
LEMMA ResendOK ==
  ASSUME Stacked(stack), stack # << >>, stack[1].at # "chunks", stack[1].retry > 0,
         NEW b \in Seq(Command), Len(b) <= Len(stack[1].body), Resend(b)
  PROVE  Stacked(stack') /\ RetOK(stack', ret')
<1> DEFINE f == Frame(b, Top.retry)
<1>1. Top = stack[1] /\ stack[1] \in Frames /\ Len(stack) \in Nat \ {0} /\ FrameOK(stack[1], Len(stack))
  BY StackTop DEF Top
<1>2. Len(stack) > 1
  <2>1. Len(stack) \in Nat \ {0} /\ Len(stack) # 1
    BY StackTop
  <2> QED
    BY <2>1
<1>3. Top.retry \in 1..RETRY_ATTEMPTS
  BY <1>1, BodyType DEF Frames
<1>4. Len(stack) + Top.retry + Wide(Top.body) <= RETRY_ATTEMPTS + 2
  BY <1>1 DEF FrameOK
<1>5. Len(stack) + Top.retry - 1 + Wide(b) <= RETRY_ATTEMPTS + 2
  <2>1. Wide(b) \in 0..1 /\ Wide(Top.body) \in 0..1 /\ RETRY_ATTEMPTS \in Nat
    BY WideFact, BodyType
  <2> QED
    BY <1>1, <1>3, <1>4, <2>1
<1>6. f \in Frames /\ FrameOK(f, Len(stack)) /\ Runs(f) /\ f.body = b
  BY <1>1, <1>2, <1>3, <1>5, NewFrame
<1>7. Replace(f) /\ ret' = None
  BY DEF Resend
<1> HIDE DEF f
<1>8. Stacked(stack') /\ stack' # << >> /\ stack'[1] = f
  BY <1>6, <1>7, ReplaceOK
<1> QED
  BY <1>6, <1>7, <1>8 DEF RetOK

LEMMA ExceptOK ==
  ASSUME Stacked(stack), stack # << >>, stack[1].at # "chunks",
         NEW b \in Seq(Command), Len(b) <= Len(stack[1].body), NEW exc \in Excs, Except(b, exc)
  PROVE  Stacked(stack') /\ RetOK(stack', ret')
<1>1. Top = stack[1]
  BY StackTop DEF Top
<1>2. CASE Top.retry > 0 /\ Resend(b)
  BY <1>1, <1>2, ResendOK
<1>3. CASE stack' = Tail(stack) /\ ret' = Raised(b, exc)
  BY <1>3, RaisedOK
<1> QED
  BY <1>2, <1>3 DEF Except

(* send again from inside of the try: one frame more and one attempt less. *)
LEMMA SendWholeOK ==
  ASSUME Stacked(stack), stack # << >>, stack[1].at # "chunks", ret = None,
         NEW f \in Frames, f.todo \in Seq(Command), f.retry > 0,
         Len(stack) + f.retry + Wide(f.body) <= RETRY_ATTEMPTS + 2,
         Len(f.body) <= Len(stack[1].body), SendWhole(f)
  PROVE  Stacked(stack') /\ RetOK(stack', ret')
<1> DEFINE h == [f EXCEPT !.at = "whole"]
<1> DEFINE g == Frame(f.body, f.retry)
<1>1. Len(stack) \in Nat \ {0} /\ Len(stack) # 1
  BY StackTop
<1>2. h \in Frames /\ h.at = "whole" /\ h.body = f.body /\ h.retry = f.retry /\ h.todo = f.todo
  BY DEF Frames, Places
<1>3. FrameOK(h, Len(stack)) /\ Waits(h)
  BY <1>1, <1>2 DEF FrameOK, Waits, OneByOne
<1>4. f.retry \in 1..RETRY_ATTEMPTS /\ f.body \in Seq(Command)
  BY BodyType DEF Frames
<1>5. Len(stack) + 1 + f.retry - 1 + Wide(f.body) <= RETRY_ATTEMPTS + 2
  <2>1. Wide(f.body) \in 0..1 /\ RETRY_ATTEMPTS \in Nat
    BY WideFact, BodyType
  <2> QED
    BY <1>1, <1>4, <2>1
<1>6. g \in Frames /\ FrameOK(g, Len(stack) + 1) /\ Runs(g) /\ g.body = f.body
  BY <1>1, <1>4, <1>5, NewFrame
<1>7. NotLonger(g.body, h)
  BY <1>2, <1>4, <1>6 DEF NotLonger
<1>8. Push(h, g) /\ ret' = None
  BY DEF SendWhole
<1> HIDE DEF h, g
<1>9. Stacked(stack') /\ stack' # << >> /\ stack'[1] = g
  BY <1>2, <1>3, <1>6, <1>7, <1>8, PushOK
<1> QED
  BY <1>6, <1>8, <1>9 DEF RetOK

(* One command sent separately: one frame more, but a body that cannot be  *)
(* divided again.                                                          *)
LEMMA SendNextOK ==
  ASSUME Stacked(stack), stack # << >>, stack[1].at # "chunks",
         NEW f \in Frames, f.at \in OneByOne, FrameOK(f, Len(stack)), f.todo # << >>,
         Len(f.body) <= Len(stack[1].body), SendNext(f)
  PROVE  Stacked(stack') /\ RetOK(stack', ret')
<1> DEFINE h == [f EXCEPT !.todo = Tail(@)]
<1> DEFINE b == <<Head(f.todo)>>
<1> DEFINE g == Frame(b, f.retry + 1)
<1>1. Len(stack) \in Nat \ {0} /\ Len(stack) # 1
  BY StackTop
<1>2. f.at # "chunks" /\ f.at # "whole" /\ f.at # "post" /\ f.at # "enter" /\ f.at # "again"
  BY DEF OneByOne
<1>3. f.todo \in Seq(Command) /\ Len(stack) + f.retry + Wide(f.body) <= RETRY_ATTEMPTS + 2
      /\ Len(f.body) > 1 /\ Len(f.todo) <= Len(f.body)
  BY <1>2 DEF FrameOK
<1>4. f.retry \in 0..(RETRY_ATTEMPTS - 1) /\ f.body \in Seq(Command)
  BY DEF Frames
<1>5. Tail(f.todo) \in Seq(Command) /\ Len(Tail(f.todo)) = Len(f.todo) - 1 /\ Len(f.todo) \in Nat
      /\ Head(f.todo) \in Command
  BY <1>3
<1>6. h.at = f.at /\ h.body = f.body /\ h.retry = f.retry /\ h.todo = Tail(f.todo) /\ h.popped = f.popped
      /\ h.taken = f.taken
  BY DEF Frames
<1>7. h \in Frames
  BY <1>5 DEF Frames
<1> HIDE DEF h
<1>8. Len(h.todo) < Len(h.body)
  BY <1>3, <1>4, <1>5, <1>6
<1>9. Waits(h) /\ FrameOK(h, Len(stack))
  BY <1>1, <1>3, <1>4, <1>5, <1>6, <1>8 DEF FrameOK, Waits
<1>10. b \in Seq(Command) /\ Len(b) = 1 /\ Wide(b) = 0
  BY <1>5 DEF Wide
<1>11. Wide(f.body) = 1
  BY <1>3, WideFact
<1>12. f.retry + 1 \in 1..RETRY_ATTEMPTS
  BY <1>4, BodyType
<1> HIDE DEF b
<1>13. Len(stack) + 1 > 1 /\ (Len(stack) + 1) + (f.retry + 1) - 1 + Wide(b) <= RETRY_ATTEMPTS + 2
  BY <1>1, <1>3, <1>4, <1>10, <1>11, BodyType
<1>14. g \in Frames /\ Runs(g)
  BY <1>10, <1>12, NewFrame
<1>15. FrameOK(g, Len(stack) + 1)
  <2>1. Len(stack) + 1 \in Nat
    BY <1>1
  <2> QED
    BY <1>10, <1>12, <1>13, <2>1, NewFrame
<1>16. NotLonger(g.body, h)
  BY <1>2, <1>6 DEF NotLonger
<1>17. Push(h, g) /\ ret' = None
  BY DEF SendNext, h, b
<1> HIDE DEF g
<1>18. Stacked(stack') /\ stack' # << >> /\ stack'[1] = g
  <2>1. Len(h.body) <= Len(stack[1].body)
    BY <1>6
  <2> QED
    BY <1>7, <1>9, <1>14, <1>15, <1>16, <1>17, <2>1, PushOK
<1> QED
  BY <1>14, <1>17, <1>18 DEF RetOK

-----------------------------------------------------------------------------
(* The chunks.                                                             *)

LEMMA Times ==
  ASSUME NEW M \in Nat, NEW i \in Int, NEW j \in Int, i <= j
  PROVE  i * M \in Int /\ j * M \in Int /\ i * M <= j * M
<1>1. (j - i) * M >= 0
  OBVIOUS
<1> QED
  BY <1>1

LEMMA DivFact ==
  ASSUME NEW M \in Nat \ {0}, NEW a \in Nat
  PROVE  LET q == a \div M IN q \in Nat /\ q * M <= a /\ a < q * M + M
OBVIOUS

(* The number of chunks, and the index of the last command of a chunk.     *)
Count == (Len(Body) + MAX_CHUNK_ITEMS - 1) \div MAX_CHUNK_ITEMS
End(i) == Min({i * MAX_CHUNK_ITEMS, Len(Body)})

(* Count chunks are enough for the body, and one less is not.              *)
LEMMA CountFact ==
  /\ Count \in Nat \ {0} /\ Len(Body) \in Nat \ {0} /\ MAX_CHUNK_ITEMS \in Nat \ {0}
  /\ (Count - 1) * MAX_CHUNK_ITEMS < Len(Body) /\ Len(Body) <= Count * MAX_CHUNK_ITEMS
<1> DEFINE M == MAX_CHUNK_ITEMS
<1> DEFINE l == Len(Body)
<1> DEFINE q == Count
<1>1. M \in Nat \ {0} /\ l \in Nat \ {0}
  BY BodyType
<1>2. q \in Nat /\ q * M <= l + M - 1 /\ l + M - 1 < q * M + M
  <2>1. l + M - 1 \in Nat
    BY <1>1
  <2> HIDE DEF l, M
  <2> QED
    BY <1>1, <2>1, DivFact DEF Count, l, M
<1> HIDE DEF M, l, q
<1>3. (q - 1) * M = q * M - M /\ q * M \in Int
  BY <1>1, <1>2
<1>4. (q - 1) * M < l /\ l <= q * M
  BY <1>1, <1>2, <1>3
<1>5. q # 0
  <2>1. q = 0 => q * M = 0
    BY <1>1
  <2> QED
    BY <1>1, <1>4, <2>1
<1> QED
  BY <1>1, <1>2, <1>4, <1>5 DEF M, l, q

(* Chunk i holds the commands from (i - 1) * MAX_CHUNK_ITEMS + 1 to End(i). *)
LEMMA ChunkFact ==
  ASSUME NEW i \in 1..Count
  PROVE  LET c == Chunks(Body)[i]
             low == (i - 1) * MAX_CHUNK_ITEMS
         IN  /\ c \in Seq(Command) /\ low \in Nat /\ End(i) \in 1..Len(Body) /\ low < End(i)
             /\ Len(c) = End(i) - low
             /\ \A k \in 1..Len(c) : c[k] = Body[low + k]
             /\ i < Count => End(i) = i * MAX_CHUNK_ITEMS
             /\ i = Count => End(i) = Len(Body)
<1> DEFINE M == MAX_CHUNK_ITEMS
<1> DEFINE l == Len(Body)
<1> DEFINE low == (i - 1) * M
<1> DEFINE c == Chunks(Body)[i]
<1>1. M \in Nat \ {0} /\ l \in Nat \ {0} /\ Count \in Nat \ {0} /\ i \in Int
      /\ (Count - 1) * M < l /\ l <= Count * M
  BY CountFact
<1>2. c = SubSeq(Body, low + 1, End(i))
  BY <1>1 DEF Chunks, Count, End
<1>3. Body \in Seq(Command)
  BY BodyType
<1> HIDE DEF M, l, c
<1>4. low \in Nat /\ low <= (Count - 1) * M /\ i * M = low + M /\ i * M \in Int
  <2>1. low \in Int /\ low <= (Count - 1) * M
    BY <1>1, Times
  <2>2. 0 * M <= low /\ 0 * M = 0
    BY <1>1, Times
  <2>3. i * M = low + M
    BY <1>1
  <2> QED
    BY <1>1, <2>1, <2>2, <2>3
<1> HIDE DEF low
<1>5. End(i) = IF i * M <= l THEN i * M ELSE l
  BY <1>1, <1>4, MinOfTwo DEF End, M, l
<1>6. End(i) \in 1..l /\ low < End(i)
  <2>1. (Count - 1) * M \in Int
    BY <1>1
  <2>2. low < l
    BY <1>1, <1>4, <2>1
  <2> QED
    BY <1>1, <1>4, <1>5, <2>2
<1>7. i < Count => End(i) = i * M
  <2>1. ASSUME i < Count PROVE i * M <= l
    <3>1. i * M <= (Count - 1) * M /\ (Count - 1) * M \in Int
      BY <1>1, <2>1, Times
    <3> QED
      BY <1>1, <1>4, <3>1
  <2> QED
    BY <1>5, <2>1
<1>8. i = Count => End(i) = l
  BY <1>1, <1>4, <1>5
<1>9. c \in Seq(Command) /\ Len(c) = End(i) - low /\ \A k \in 1..Len(c) : c[k] = Body[low + k]
  <2>1. \A j \in (low + 1)..End(i) : Body[j] \in Command
    BY <1>3, <1>4, <1>6 DEF l
  <2>2. low + 1 \in Int /\ End(i) \in Int
    BY <1>4, <1>6
  <2>3. /\ c \in Seq(Command)
        /\ Len(c) = IF low + 1 <= End(i) THEN End(i) - (low + 1) + 1 ELSE 0
        /\ \A k \in 1..(End(i) - (low + 1) + 1) : c[k] = Body[(low + 1) + k - 1]
    <3> HIDE DEF End
    <3> QED
      BY <1>2, <2>1, <2>2, SubSeqProperties
  <2>4. Len(c) = End(i) - low /\ End(i) - (low + 1) + 1 = End(i) - low
    BY <1>4, <1>6, <2>2, <2>3
  <2>5. ASSUME NEW k \in 1..Len(c) PROVE c[k] = Body[low + k]
    <3>1. c[k] = Body[(low + 1) + k - 1]
      BY <2>3, <2>4
    <3>2. (low + 1) + k - 1 = low + k
      BY <1>4
    <3> QED
      BY <3>1, <3>2
  <2> QED
    BY <2>3, <2>4, <2>5
<1> QED
  BY <1>4, <1>6, <1>7, <1>8, <1>9 DEF M, l, low, c

(* Chunks has Count chunks.                                                *)
LEMMA ChunksType ==
  /\ Chunks(Body) \in Seq(Seq(Command)) /\ Len(Chunks(Body)) = Count /\ Count \in Nat \ {0}
  /\ Chunks(Body)[1] \in Seq(Command) /\ Chunks(Body) # << >>
<1>1. Count \in Nat \ {0}
  BY CountFact
<1>2. \A i \in 1..Count : Chunks(Body)[i] \in Seq(Command)
  BY ChunkFact
<1>3. DOMAIN Chunks(Body) = 1..Count /\ Chunks(Body) = [i \in 1..Count |-> Chunks(Body)[i]]
  BY DEF Chunks, Count
<1> HIDE DEF Count
<1>4. Chunks(Body) \in [1..Count -> Seq(Command)]
  BY <1>2, <1>3
<1>5. Chunks(Body) \in Seq(Seq(Command)) /\ Len(Chunks(Body)) = Count
  BY <1>1, <1>4
<1>6. 1 \in 1..Count
  BY <1>1
<1> QED
  BY <1>1, <1>2, <1>5, <1>6

-----------------------------------------------------------------------------
(* TypeInv is kept by every action.                                        *)

(* What the frame above left, by its kind.                                 *)
LEMMA RetFact ==
  ASSUME NEW s, NEW r, RetOK(s, r)
  PROVE  /\ r.how = "none" => r = None /\ s # << >> /\ Runs(s[1])
         /\ r.how # "none" => r.how \in {"returned", "raised"} /\ (s # << >> => Waits(s[1]))
         /\ r.how = "returned" => r \in Replies
         /\ r.how = "raised" => r \in Errors /\ (s # << >> => NotLonger(r.body, s[1]))
<1>1. CASE r = None /\ s # << >> /\ Runs(s[1])
  BY <1>1 DEF None
<1>2. CASE r \in Replies /\ (s # << >> => Waits(s[1]))
  BY <1>2 DEF Replies
<1>3. CASE r \in Errors /\ (s # << >> => Waits(s[1]) /\ NotLonger(r.body, s[1]))
  BY <1>3 DEF Errors
<1> QED
  BY <1>1, <1>2, <1>3 DEF RetOK

(* What is known of the frame that runs.                                   *)
LEMMA TopFact ==
  ASSUME Stacked(stack), stack # << >>
  PROVE  /\ Top = stack[1] /\ Top \in Frames /\ FrameOK(Top, Len(stack)) /\ Len(stack) \in Nat \ {0}
         /\ Top.at = "chunks" <=> Len(stack) = 1
         /\ Top.body \in Seq(Command) /\ Top.done \in Seq(Answers) /\ Top.taken \in Taken
         /\ Top.retry \in 0..(RETRY_ATTEMPTS - 1) /\ Top.popped \in BOOLEAN /\ Top.idxs \in Seq(Nat)
         /\ Len(Top.body) <= Len(stack[1].body)
<1>1. Top = stack[1] /\ Top \in Frames /\ FrameOK(Top, Len(stack)) /\ Len(stack) \in Nat \ {0}
  BY StackTop DEF Top
<1>2. Top.at = "chunks" <=> Len(stack) = 1
  BY <1>1, StackTop
<1>3. Top.body \in Seq(Command) /\ Top.done \in Seq(Answers) /\ Top.taken \in Taken
      /\ Top.retry \in 0..(RETRY_ATTEMPTS - 1) /\ Top.popped \in BOOLEAN /\ Top.idxs \in Seq(Nat)
  BY <1>1 DEF Frames
<1>4. Len(Top.body) <= Len(stack[1].body)
  BY <1>1, <1>3
<1> QED
  BY <1>1, <1>2, <1>3, <1>4

LEMMA EmptyStacked == Stacked(<< >>)
<1>1. << >> \in Seq(Frames) /\ Len(<< >>) = 0
  OBVIOUS
<1> QED
  BY <1>1 DEF Stacked

LEMMA AnswerType ==
  ASSUME NEW c \in Command, NEW code \in Code
  PROVE  /\ Answer(c, code) \in Answers /\ Answer(c, code).to = c /\ Answer(c, code).code = code
         /\ \A flag \in {"yes", "no"} : [Answer(c, code) EXCEPT !.flag = flag] \in Answers
                                       /\ [Answer(c, code) EXCEPT !.flag = flag].to = c
BY DEF Answer, Answers

(* The call starts well.                                                   *)
LEMMA InitType == Init => TypeInv
<1> SUFFICES ASSUME Init PROVE TypeInv
  OBVIOUS
<1> DEFINE b == Chunks(Body)[1]
<1> DEFINE f == Frame(b, RETRY_ATTEMPTS)
<1> DEFINE g == [Frame(Body, RETRY_ATTEMPTS) EXCEPT !.at = "chunks", !.todo = Tail(Chunks(Body))]
<1>1. RETRY_ATTEMPTS \in 1..RETRY_ATTEMPTS /\ RETRY_ATTEMPTS \in Nat /\ Body \in Seq(Command)
  BY BodyType
<1>2. b \in Seq(Command) /\ Tail(Chunks(Body)) \in Seq(Seq(Command))
  BY ChunksType
<1>3. stack = <<f, g>> /\ ret = None /\ CmdsOK
  BY DEF Init, CmdsOK
<1>4. f \in Frames /\ Runs(f)
  BY <1>1, <1>2, NewFrame
<1> HIDE DEF b
<1>5. FrameOK(f, 2)
  <2>1. 2 + RETRY_ATTEMPTS - 1 + Wide(b) <= RETRY_ATTEMPTS + 2
    BY <1>1, WideFact
  <2> QED
    BY <1>1, <1>2, <2>1, NewFrame
<1>6. Frame(Body, RETRY_ATTEMPTS) \in Frames
  BY <1>1, NewFrame
<1>7. g \in Frames /\ g.at = "chunks" /\ g.todo \in Seq(Seq(Command))
  BY <1>2, <1>6 DEF Frames, Places
<1> HIDE DEF f, g
<1>8. FrameOK(g, 1) /\ Waits(g) /\ NotLonger(f.body, g)
  BY <1>7 DEF FrameOK, Waits, NotLonger, OneByOne
<1>9. stack \in Seq(Frames) /\ Len(stack) = 2 /\ stack[1] = f /\ stack[2] = g /\ stack # << >>
  BY <1>3, <1>4, <1>7
<1>10. Stacked(stack)
  <2>1. ASSUME NEW i \in 1..2 PROVE FrameOK(stack[i], 2 - i + 1)
    <3>1. CASE i = 1
      BY <1>5, <1>9, <3>1
    <3>2. CASE i = 2
      BY <1>8, <1>9, <3>2
    <3> QED
      BY <3>1, <3>2
  <2>2. ASSUME NEW i \in 1..(2 - 1) PROVE Waits(stack[i + 1]) /\ NotLonger(stack[i].body, stack[i + 1])
    <3>1. i = 1
      OBVIOUS
    <3> QED
      BY <1>8, <1>9, <3>1
  <2> QED
    BY <1>9, <2>1, <2>2 DEF Stacked
<1>11. RetOK(stack, ret)
  BY <1>3, <1>4, <1>9 DEF RetOK
<1> QED
  BY <1>3, <1>10, <1>11 DEF TypeInv

LEMMA NextChunkType ==
  ASSUME TypeInv, NextChunk
  PROVE  Stacked(stack') /\ RetOK(stack', ret')
<1> DEFINE f == [Top EXCEPT !.todo = Tail(@), !.done = @ \o ret.answers]
<1> DEFINE b == Head(Top.todo)
<1> DEFINE g == Frame(b, RETRY_ATTEMPTS)
<1>1. Len(stack) = 1 /\ ret.how = "returned" /\ Top.todo # << >> /\ Push(f, g) /\ ret' = None
  BY DEF NextChunk
<1>2. Stacked(stack) /\ stack # << >>
  BY <1>1 DEF TypeInv
<1>3. ret.answers \in Seq(Answers)
  BY <1>1, RetFact DEF TypeInv, Replies
<1>4. Top \in Frames /\ Top.at = "chunks" /\ FrameOK(Top, Len(stack)) /\ Top = stack[1]
      /\ Top.done \in Seq(Answers) /\ Top.body \in Seq(Command)
  BY <1>1, <1>2, TopFact
<1>5. Top.todo \in Seq(Seq(Command))
  BY <1>4 DEF FrameOK
<1>6. b \in Seq(Command) /\ Tail(Top.todo) \in Seq(Seq(Command))
  BY <1>1, <1>5
<1>7. Top.done \o ret.answers \in Seq(Answers)
  BY <1>3, <1>4
<1>8. f \in Frames /\ f.at = "chunks" /\ f.todo \in Seq(Seq(Command)) /\ f.body = Top.body
  BY <1>4, <1>6, <1>7 DEF Frames
<1>9. g \in Frames /\ Runs(g) /\ FrameOK(g, Len(stack) + 1)
  <2>1. RETRY_ATTEMPTS \in 1..RETRY_ATTEMPTS /\ RETRY_ATTEMPTS \in Nat
    BY BodyType
  <2>2. Len(stack) + 1 = 2
    BY <1>1
  <2> HIDE DEF b
  <2>3. 2 + RETRY_ATTEMPTS - 1 + Wide(b) <= RETRY_ATTEMPTS + 2
    BY <2>1, WideFact
  <2> QED
    BY <1>6, <2>1, <2>2, <2>3, NewFrame
<1> HIDE DEF f, g
<1>10. FrameOK(f, Len(stack)) /\ Waits(f) /\ NotLonger(g.body, f)
  BY <1>1, <1>8 DEF FrameOK, Waits, NotLonger, OneByOne
<1>11. Len(f.body) <= Len(stack[1].body)
  BY <1>4, <1>8
<1>12. Stacked(stack') /\ stack' # << >> /\ stack'[1] = g
  BY <1>1, <1>2, <1>8, <1>9, <1>10, <1>11, PushOK
<1> QED
  BY <1>1, <1>9, <1>12 DEF RetOK

LEMMA FinishType ==
  ASSUME TypeInv, Finish
  PROVE  Stacked(stack') /\ RetOK(stack', ret')
<1>1. stack' = << >> /\ ret.how # "none" /\ stack # << >> /\ Stacked(stack)
  BY DEF Finish, TypeInv
<1>2. CASE ret.how = "raised"
  <2>1. ret' \in Errors
    BY <1>2, RetFact DEF TypeInv, Finish
  <2> QED
    BY <1>1, <2>1, EmptyStacked DEF RetOK
<1>3. CASE ret.how # "raised"
  <2>1. ret.how = "returned" /\ ret \in Replies
    BY <1>1, <1>3, RetFact DEF TypeInv
  <2>2. ret.answers \in Seq(Answers) /\ Top.done \in Seq(Answers)
    BY <1>1, <2>1, TopFact DEF Replies
  <2>3. Top.done \o ret.answers \in Seq(Answers)
    BY <2>2
  <2>4. ret' = Returned(Body, Top.done \o ret.answers)
    BY <1>3 DEF Finish
  <2>5. ret' \in Replies
    BY <2>3, <2>4, BodyType DEF Replies, Returned
  <2> QED
    BY <1>1, <2>5, EmptyStacked DEF RetOK
<1> QED
  BY <1>2, <1>3

(* Every action keeps the frames and what they left in order; first the    *)
(* ones before the request.                                                *)
LEMMA EnterOnlyType ==
  ASSUME TypeInv, EnterOnly
  PROVE  Stacked(stack') /\ RetOK(stack', ret')
<1> DEFINE b == Top.body
<1>1. stack # << >> /\ Stacked(stack) /\ Alternative(b)
  BY DEF EnterOnly, TypeInv
<1>2. b \in Seq(Command) /\ DOMAIN b = 1..Len(b) /\ Len(b) \in Nat
  BY <1>1, TopFact
<1>3. CASE \E exc \in {"Reolink", "Other"} : Raise(exc)
  BY <1>1, <1>3, RaiseOK DEF Excs
<1>4. ASSUME NEW flags \in [DOMAIN b -> {"yes", "no"}],
             Return([i \in DOMAIN b |-> [Answer(b[i], "only") EXCEPT !.flag = flags[i]]])
      PROVE  Stacked(stack') /\ RetOK(stack', ret')
  <2> DEFINE a == [i \in DOMAIN b |-> [Answer(b[i], "only") EXCEPT !.flag = flags[i]]]
  <2>1. ASSUME NEW i \in DOMAIN b PROVE a[i] \in Answers
    <3>1. b[i] \in Command /\ "only" \in Code /\ flags[i] \in {"yes", "no"}
      BY <1>2 DEF Code
    <3> HIDE DEF b
    <3> QED
      BY <3>1, AnswerType
  <2>2. a \in [1..Len(b) -> Answers]
    BY <1>2, <2>1
  <2>3. a \in Seq(Answers)
    BY <1>2, <2>2
  <2> QED
    BY <1>1, <1>4, <2>3, ReturnOK
<1> QED
  BY <1>1, <1>3, <1>4 DEF Alternative

LEMMA EnterFailedType ==
  ASSUME TypeInv, EnterFailed
  PROVE  Stacked(stack') /\ RetOK(stack', ret')
<1>1. stack # << >> /\ Stacked(stack)
  BY DEF EnterFailed, TypeInv
<1>2. PICK exc \in {"Reolink", "Timeout"} : Raise(exc)
  BY DEF EnterFailed
<1> QED
  BY <1>1, <1>2, RaiseOK DEF Excs

(* The commands that are taken out, with their answers.                    *)
OutOf(b, done, broken) == [i \in done \cup broken |-> Answer(b[i], IF i \in done THEN "baichuan" ELSE "timeout")]

LEMMA TakenOut ==
  ASSUME NEW b \in Seq(Command), NEW done \in SUBSET (DOMAIN b), NEW broken \in SUBSET (DOMAIN b)
  PROVE  LET taken == OutOf(b, done, broken)
         IN  /\ taken \in Taken /\ DOMAIN taken \subseteq DOMAIN b
             /\ \A i \in DOMAIN taken : taken[i].to = b[i]
<1> DEFINE D == done \cup broken
<1> DEFINE code(i) == IF i \in done THEN "baichuan" ELSE "timeout"
<1> DEFINE taken == [i \in D |-> Answer(b[i], code(i))]
<1>0. taken = OutOf(b, done, broken)
  BY DEF OutOf
<1>1. D \in SUBSET (DOMAIN b)
  OBVIOUS
<1>2. DOMAIN b = 1..Len(b) /\ Len(b) \in Nat
  OBVIOUS
<1> HIDE DEF D
<1>3. D \in SUBSET (Nat \ {0}) /\ IsFiniteSet(D)
  <2>1. IsFiniteSet(1..Len(b))
    BY <1>2, FS_Interval
  <2>2. D \in SUBSET (1..Len(b))
    BY <1>1, <1>2
  <2>3. IsFiniteSet(D)
    BY <2>1, <2>2, FS_Subset
  <2> QED
    BY <2>2, <2>3
<1>4. ASSUME NEW i \in D PROVE taken[i] \in Answers /\ taken[i].to = b[i]
  <2>1. b[i] \in Command
    BY <1>1, <1>2
  <2>2. code(i) \in Code
    BY DEF Code, HttpCode
  <2>3. taken[i] = Answer(b[i], code(i))
    OBVIOUS
  <2> HIDE DEF code
  <2> QED
    BY <2>1, <2>2, <2>3, AnswerType
<1>5. taken \in [D -> Answers]
  BY <1>4
<1>6. taken \in Taken
  BY <1>3, <1>5 DEF Taken
<1>7. DOMAIN taken = D
  OBVIOUS
<1> HIDE DEF taken
<1> QED
  BY <1>0, <1>1, <1>4, <1>6, <1>7

LEMMA EnterType ==
  ASSUME TypeInv, Enter
  PROVE  Stacked(stack') /\ RetOK(stack', ret')
<1> DEFINE b == Top.body
<1> DEFINE viaBc == {i \in DOMAIN b : Name[b[i]] \in baichuan_cmds}
<1> DEFINE broken == {i \in DOMAIN b : Name[b[i]] \in broken_cmds} \ viaBc
<1>1. stack # << >> /\ Stacked(stack) /\ Top.at = "enter" /\ ret = None
  BY RetFact DEF Enter, TypeInv
<1>2. b \in Seq(Command) /\ DOMAIN b = 1..Len(b) /\ Len(b) \in Nat
  BY <1>1, TopFact
<1>3. ASSUME NEW done \in SUBSET viaBc
      PROVE  LET taken == OutOf(b, done, broken)
             IN  taken \in Taken /\ DOMAIN taken \subseteq DOMAIN b
  <2>1. done \in SUBSET (DOMAIN b) /\ broken \in SUBSET (DOMAIN b)
    OBVIOUS
  <2> HIDE DEF b, viaBc, broken
  <2> QED
    BY <1>2, <2>1, TakenOut
<1>4. ASSUME NEW done \in SUBSET viaBc,
             LET taken == OutOf(b, done, broken)
             IN  IF DOMAIN taken = DOMAIN b THEN Return(Inserted(<< >>, taken))
                 ELSE Replace([Top EXCEPT !.at = "post", !.taken = taken]) /\ UNCHANGED ret
      PROVE  Stacked(stack') /\ RetOK(stack', ret')
  <2> DEFINE taken == OutOf(b, done, broken)
  <2>1. taken \in Taken /\ DOMAIN taken \subseteq DOMAIN b
    BY <1>3
  <2>2. IF DOMAIN taken = DOMAIN b THEN Return(Inserted(<< >>, taken))
        ELSE Replace([Top EXCEPT !.at = "post", !.taken = taken]) /\ UNCHANGED ret
    BY <1>4
  <2> HIDE DEF taken
  <2>3. CASE Return(Inserted(<< >>, taken))
    <3>1. << >> \in Seq(Answers)
      OBVIOUS
    <3> QED
      BY <1>1, <2>1, <2>3, <3>1, InsertedType, ReturnOK
  <2>4. CASE Replace([Top EXCEPT !.at = "post", !.taken = taken]) /\ UNCHANGED ret
    <3> DEFINE f == [Top EXCEPT !.at = "post", !.taken = taken]
    <3>1. Top \in Frames /\ FrameOK(Top, Len(stack)) /\ Len(Top.body) <= Len(stack[1].body)
      BY <1>1, TopFact
    <3>2. f \in Frames /\ f.at = "post" /\ f.body = Top.body /\ f.retry = Top.retry /\ f.todo = Top.todo
          /\ f.popped = Top.popped /\ f.taken = taken
      BY <2>1, <3>1 DEF Frames, Places
    <3>3. Replace(f)
      BY <2>4
    <3> HIDE DEF f
    <3>4. FrameOK(f, Len(stack))
      BY <1>1, <2>1, <3>1, <3>2 DEF FrameOK, OneByOne
    <3>5. Runs(f)
      BY <3>2 DEF Runs, OneByOne
    <3>6. Stacked(stack') /\ stack' # << >> /\ stack'[1] = f
      <4>1. Len(f.body) <= Len(stack[1].body)
        BY <3>1, <3>2
      <4> QED
        BY <1>1, <3>2, <3>3, <3>4, <4>1, ReplaceOK
    <3> QED
      BY <1>1, <2>4, <3>5, <3>6 DEF RetOK
  <2> QED
    BY <2>2, <2>3, <2>4
<1>5. CASE Raise("Other")
  BY <1>1, <1>5, RaiseOK DEF Excs
<1> HIDE DEF b, viaBc, broken
<1>6. \/ \E done \in SUBSET viaBc :
            LET taken == OutOf(b, done, broken)
            IN  IF DOMAIN taken = DOMAIN b THEN Return(Inserted(<< >>, taken))
                ELSE Replace([Top EXCEPT !.at = "post", !.taken = taken]) /\ UNCHANGED ret
      \/ Raise("Other")
  BY DEF Enter, OutOf, b, viaBc, broken
<1> QED
  BY <1>4, <1>5, <1>6

(* A frame that posts.                                                     *)
LEMMA PostFact ==
  ASSUME TypeInv, Posting
  PROVE  /\ Stacked(stack) /\ stack # << >> /\ ret = None /\ Top.at = "post" /\ stack[1].at = "post"
         /\ ~Top.popped /\ DOMAIN Top.taken \subseteq DOMAIN Top.body /\ Top.todo \in Seq(Command)
         /\ Len(stack) + Top.retry + Wide(Top.body) <= RETRY_ATTEMPTS + 2 /\ Len(stack) \in Nat
         /\ Filtered(Top) = Picked(Top.body, DOMAIN Top.body \ DOMAIN Top.taken)
         /\ Filtered(Top) \in Seq(Command) /\ Len(Filtered(Top)) <= Len(Top.body)
<1>1. Stacked(stack) /\ stack # << >> /\ ret = None /\ Top.at = "post"
  BY RetFact DEF Posting, TypeInv
<1>2. FrameOK(Top, Len(stack)) /\ Top = stack[1] /\ Top.body \in Seq(Command) /\ Len(stack) \in Nat
  BY <1>1, TopFact
<1>3. ~Top.popped /\ DOMAIN Top.taken \subseteq DOMAIN Top.body /\ Top.todo \in Seq(Command)
      /\ Len(stack) + Top.retry + Wide(Top.body) <= RETRY_ATTEMPTS + 2
  BY <1>1, <1>2 DEF FrameOK
<1>4. Filtered(Top) = Picked(Top.body, DOMAIN Top.body \ DOMAIN Top.taken)
  BY <1>3 DEF Filtered
<1>5. Filtered(Top) \in Seq(Command) /\ Len(Filtered(Top)) <= Len(Top.body)
  <2>1. DOMAIN Top.body \ DOMAIN Top.taken \in SUBSET (DOMAIN Top.body)
    OBVIOUS
  <2> QED
    BY <1>2, <1>4, <2>1, PickedFact
<1> QED
  BY <1>1, <1>2, <1>3, <1>4, <1>5

LEMMA PostExcept ==
  ASSUME TypeInv, Posting, NEW exc \in Excs, Except(Top.body, exc)
  PROVE  Stacked(stack') /\ RetOK(stack', ret')
<1>1. Stacked(stack) /\ stack # << >> /\ stack[1].at # "chunks"
  BY PostFact
<1>2. Top.body \in Seq(Command) /\ Len(Top.body) <= Len(stack[1].body)
  BY <1>1, TopFact
<1> QED
  BY <1>1, <1>2, ExceptOK

LEMMA PostResend ==
  ASSUME TypeInv, Posting, Top.retry > 0, Resend(Top.body)
  PROVE  Stacked(stack') /\ RetOK(stack', ret')
<1>1. Stacked(stack) /\ stack # << >> /\ stack[1].at # "chunks"
  BY PostFact
<1>2. Top.body \in Seq(Command) /\ Len(Top.body) <= Len(stack[1].body) /\ Top = stack[1]
  BY <1>1, TopFact
<1> QED
  BY <1>1, <1>2, ResendOK

(* The answers to the request.                                             *)
LEMMA UnansweredType ==
  ASSUME TypeInv, Unanswered
  PROVE  Stacked(stack') /\ RetOK(stack', ret')
<1>1. Posting
  BY DEF Unanswered
<1>2. CASE \E exc \in {"Timeout", "Runtime"} : Except(Top.body, exc)
  BY <1>1, <1>2, PostExcept DEF Excs
<1>3. CASE Top.retry > 0 /\ Resend(Top.body)
  BY <1>1, <1>3, PostResend
<1>4. CASE Except(Top.body, "Reolink")
  BY <1>1, <1>4, PostExcept DEF Excs
<1> QED
  BY <1>2, <1>3, <1>4 DEF Unanswered

LEMMA RefusedType ==
  ASSUME TypeInv, Refused
  PROVE  Stacked(stack') /\ RetOK(stack', ret')
BY PostExcept DEF Refused, Excs

LEMMA GarbledType ==
  ASSUME TypeInv, Garbled
  PROVE  Stacked(stack') /\ RetOK(stack', ret')
<1>1. Posting
  BY DEF Garbled
<1>2. CASE Top.retry > 0 /\ SendWhole(Top)
  <2>1. stack[1].at # "chunks" /\ Stacked(stack) /\ stack # << >> /\ ret = None /\ Top.todo \in Seq(Command)
        /\ Len(stack) + Top.retry + Wide(Top.body) <= RETRY_ATTEMPTS + 2
    BY <1>1, PostFact
  <2>2. Top \in Frames /\ Len(Top.body) <= Len(stack[1].body)
    BY <2>1, TopFact
  <2> QED
    BY <1>2, <2>1, <2>2, SendWholeOK
<1>3. CASE Except(Top.body, "Reolink")
  BY <1>1, <1>3, PostExcept DEF Excs
<1> QED
  BY <1>2, <1>3 DEF Garbled

(* The frame starts to send the commands of its body one by one.           *)
LEMMA StartOK ==
  ASSUME TypeInv, Posting, ret' = ret,
         NEW f \in Frames, f.at \in OneByOne, f.at = "separate" <=> f.popped,
         f.todo = f.body, f.retry = Top.retry, Len(f.body) > 1, Len(f.body) <= Len(Top.body), Replace(f)
  PROVE  Stacked(stack') /\ RetOK(stack', ret')
<1>1. Stacked(stack) /\ stack # << >> /\ ret = None /\ Len(stack) \in Nat
      /\ Len(stack) + Top.retry + Wide(Top.body) <= RETRY_ATTEMPTS + 2 /\ stack[1].at = "post"
  BY PostFact
<1>2. Top = stack[1] /\ Top.body \in Seq(Command) /\ Len(stack) # 1 /\ Top.retry \in Nat
  <2>1. Top = stack[1] /\ Top.body \in Seq(Command) /\ (Top.at = "chunks" <=> Len(stack) = 1)
        /\ Top.retry \in 0..(RETRY_ATTEMPTS - 1)
    BY <1>1, TopFact
  <2> QED
    BY <1>1, <2>1
<1>3. f.body \in Seq(Command) /\ f.todo \in Seq(Command)
  BY DEF Frames
<1>4. Wide(f.body) = 1 /\ Wide(Top.body) = 1
  <2>1. Len(Top.body) > 1
    BY <1>2, <1>3
  <2> QED
    BY <2>1, WideFact
<1>5. FrameOK(f, Len(stack))
  BY <1>1, <1>2, <1>3, <1>4 DEF FrameOK, OneByOne
<1>6. Runs(f)
  BY DEF Runs
<1>7. Stacked(stack') /\ stack' # << >> /\ stack'[1] = f
  BY <1>1, <1>2, <1>5, ReplaceOK
<1> QED
  BY <1>1, <1>6, <1>7 DEF RetOK

LEMMA UndecodableType ==
  ASSUME TypeInv, Undecodable
  PROVE  Stacked(stack') /\ RetOK(stack', ret')
<1>1. Posting
  BY DEF Undecodable
<1>2. Stacked(stack) /\ stack # << >> /\ ~Top.popped
  BY <1>1, PostFact
<1>3. Top \in Frames /\ Top.retry \in 0..(RETRY_ATTEMPTS - 1) /\ Top.body \in Seq(Command)
  BY <1>2, TopFact
<1>4. CASE Except(Top.body, "Reolink")
  BY <1>1, <1>4, PostExcept DEF Excs
<1>5. CASE Len(Top.body) > 1 /\ Replace([Top EXCEPT !.at = "apart", !.todo = Top.body]) /\ UNCHANGED <<ret, cut>>
  <2> DEFINE f == [Top EXCEPT !.at = "apart", !.todo = Top.body]
  <2>1. f \in Frames /\ f.at = "apart" /\ f.todo = Top.body /\ f.body = Top.body /\ f.retry = Top.retry
        /\ f.popped = Top.popped
    BY <1>3 DEF Frames, Places
  <2>2. Replace(f) /\ ret' = ret
    BY <1>5
  <2>3. f.at \in OneByOne /\ f.todo = f.body /\ Len(f.body) > 1 /\ Len(f.body) <= Len(Top.body)
    <3>1. Len(Top.body) \in Int
      BY <1>3
    <3> QED
      BY <1>5, <2>1, <3>1 DEF OneByOne
  <2>4. f.at = "separate" <=> f.popped
    BY <1>2, <2>1
  <2> HIDE DEF f
  <2> QED
    BY <1>1, <2>1, <2>2, <2>3, <2>4, StartOK
<1>6. CASE Top.retry # 0 /\ Resend(Top.body)
  <2>1. Top.retry > 0
    BY <1>3, <1>6
  <2> QED
    BY <1>1, <1>6, <2>1, PostResend
<1> QED
  BY <1>4, <1>5, <1>6 DEF Undecodable

LEMMA MismatchType ==
  ASSUME TypeInv, Mismatch
  PROVE  Stacked(stack') /\ RetOK(stack', ret')
<1>1. Posting /\ Len(Filtered(Top)) > 1
  BY DEF Mismatch
<1>2. Stacked(stack) /\ stack # << >> /\ ret = None /\ stack[1].at = "post" /\ Len(stack) \in Nat
      /\ Len(stack) + Top.retry + Wide(Top.body) <= RETRY_ATTEMPTS + 2 /\ Top.todo \in Seq(Command)
  BY <1>1, PostFact
<1>3. Top \in Frames /\ Top.retry \in 0..(RETRY_ATTEMPTS - 1) /\ Top.body \in Seq(Command) /\ Top = stack[1]
  BY <1>2, TopFact
<1>4. Filtered(Top) \in Seq(Command) /\ Len(Filtered(Top)) <= Len(Top.body)
  BY <1>1, PostFact
<1>5. ASSUME NEW global \in BOOLEAN,
             LET f == [Top EXCEPT !.body = Filtered(Top), !.popped = TRUE, !.global = global]
             IN  CASE Top.retry = 0 -> Except(Top.body, "Reolink")
                   [] Top.retry > 0 /\ (global \/ Top.retry = 1) ->
                         Replace([f EXCEPT !.at = "separate", !.todo = f.body]) /\ UNCHANGED <<ret, cut>>
                   [] OTHER -> SendWhole(f) /\ UNCHANGED cut
      PROVE  Stacked(stack') /\ RetOK(stack', ret')
  <2> DEFINE f == [Top EXCEPT !.body = Filtered(Top), !.popped = TRUE, !.global = global]
  <2>1. f \in Frames /\ f.body = Filtered(Top) /\ f.popped = TRUE /\ f.retry = Top.retry /\ f.todo = Top.todo
    BY <1>3, <1>4 DEF Frames
  <2>2. CASE Except(Top.body, "Reolink")
    BY <1>1, <2>2, PostExcept DEF Excs
  <2>3. CASE Replace([f EXCEPT !.at = "separate", !.todo = f.body]) /\ UNCHANGED <<ret, cut>>
    <3> DEFINE h == [f EXCEPT !.at = "separate", !.todo = f.body]
    <3> HIDE DEF f
    <3>1. h \in Frames /\ h.at = "separate" /\ h.todo = f.body /\ h.body = f.body /\ h.retry = f.retry
          /\ h.popped = f.popped
      BY <1>4, <2>1 DEF Frames, Places
    <3>2. Replace(h) /\ ret' = ret
      BY <2>3
    <3> HIDE DEF h
    <3>3. h.at \in OneByOne /\ h.todo = h.body /\ h.retry = Top.retry /\ Len(h.body) > 1
          /\ Len(h.body) <= Len(Top.body)
      BY <1>1, <1>4, <2>1, <3>1 DEF OneByOne
    <3>4. h.at = "separate" <=> h.popped
      BY <2>1, <3>1
    <3> QED
      BY <1>1, <3>1, <3>2, <3>3, <3>4, StartOK
  <2>4. CASE Top.retry # 0 /\ SendWhole(f)
    <3> HIDE DEF f
    <3>1. f.retry > 0 /\ f.todo \in Seq(Command) /\ Len(f.body) <= Len(stack[1].body)
      BY <1>2, <1>3, <1>4, <2>1, <2>4
    <3>2. Len(stack) + f.retry + Wide(f.body) <= RETRY_ATTEMPTS + 2
      <4>1. Wide(f.body) <= Wide(Top.body) /\ Wide(f.body) \in Int /\ Wide(Top.body) \in Int
        BY <1>3, <1>4, <2>1 DEF Wide
      <4> QED
        BY <1>2, <1>3, <2>1, <4>1, BodyType
    <3> QED
      BY <1>2, <2>1, <2>4, <3>1, <3>2, SendWholeOK
  <2> HIDE DEF f
  <2> QED
    BY <1>5, <2>2, <2>3, <2>4 DEF f
<1> QED
  BY <1>5 DEF Mismatch

(* One answer for each command: return, or once more what was asleep.      *)
LEMMA MatchedType ==
  ASSUME TypeInv, Matched
  PROVE  Stacked(stack') /\ RetOK(stack', ret')
<1> DEFINE sent == Filtered(Top)
<1> DEFINE n == Len(Top.body)
<1>1. Posting
  BY DEF Matched
<1>2. Stacked(stack) /\ stack # << >> /\ ret = None /\ Top.at = "post" /\ ~Top.popped /\ Len(stack) \in Nat
      /\ DOMAIN Top.taken \subseteq DOMAIN Top.body /\ Top.todo \in Seq(Command)
      /\ Len(stack) + Top.retry + Wide(Top.body) <= RETRY_ATTEMPTS + 2
  BY <1>1, PostFact
<1>3. Top \in Frames /\ Top.retry \in 0..(RETRY_ATTEMPTS - 1) /\ Top.body \in Seq(Command) /\ Top = stack[1]
      /\ Top.taken \in Taken /\ Len(stack) # 1
  BY <1>2, TopFact
<1>4. n \in Nat /\ DOMAIN Top.body = 1..n
  BY <1>3
<1>5. sent \in Seq(Command) /\ Len(sent) + Cardinality(DOMAIN Top.taken) = n
  <2> DEFINE U == DOMAIN Top.body \ DOMAIN Top.taken
  <2>1. sent \in Seq(Command) /\ sent = Picked(Top.body, U)
    BY <1>1, PostFact
  <2>2. U \in SUBSET (DOMAIN Top.body)
    OBVIOUS
  <2>3. Len(sent) = Cardinality(U)
    BY <1>3, <2>1, <2>2, PickedFact
  <2>4. IsFiniteSet(1..n) /\ Cardinality(1..n) = n
    <3> HIDE DEF n
    <3>1. IsFiniteSet(1..n) /\ Cardinality(1..n) = IF 1 > n THEN 0 ELSE n - 1 + 1
      BY <1>4, FS_Interval
    <3> QED
      BY <1>4, <3>1
  <2>5. Cardinality((1..n) \ DOMAIN Top.taken) = Cardinality(1..n) - Cardinality((1..n) \cap DOMAIN Top.taken)
    BY <2>4, FS_Difference
  <2>6. (1..n) \cap DOMAIN Top.taken = DOMAIN Top.taken /\ U = (1..n) \ DOMAIN Top.taken
    BY <1>2, <1>4
  <2>7. Cardinality(DOMAIN Top.taken) \in Nat
    BY <1>3, OrderFact
  <2> HIDE DEF n, U, sent
  <2>8. Len(sent) = n - Cardinality(DOMAIN Top.taken)
    BY <2>3, <2>4, <2>5, <2>6
  <2> QED
    BY <1>4, <2>1, <2>7, <2>8
<1>6. ASSUME NEW codes \in [DOMAIN sent -> HttpCode]
      PROVE  /\ [k \in DOMAIN sent |-> Answer(sent[k], codes[k])] \in Seq(Answers)
             /\ Inserted([k \in DOMAIN sent |-> Answer(sent[k], codes[k])], Top.taken) \in [1..n -> Answers]
  <2> HIDE DEF sent, n
  <2> DEFINE a == [k \in DOMAIN sent |-> Answer(sent[k], codes[k])]
  <2>1. ASSUME NEW k \in DOMAIN sent PROVE a[k] \in Answers
    <3>1. sent[k] \in Command /\ codes[k] \in Code
      BY <1>5 DEF Code
    <3> QED
      BY <3>1, AnswerType
  <2>2. a \in Seq(Answers) /\ Len(a) = Len(sent)
    <3>1. DOMAIN sent = 1..Len(sent) /\ Len(sent) \in Nat
      BY <1>5
    <3>2. a \in [1..Len(sent) -> Answers]
      BY <2>1, <3>1
    <3> QED
      BY <3>1, <3>2
  <2> HIDE DEF a
  <2>3. Inserted(a, Top.taken) \in Seq(Answers)
        /\ Len(Inserted(a, Top.taken)) = Len(a) + Cardinality(DOMAIN Top.taken)
    BY <1>3, <2>2, InsertedType
  <2>4. Len(Inserted(a, Top.taken)) = n
    BY <1>5, <2>2, <2>3
  <2>5. Inserted(a, Top.taken) \in [1..n -> Answers]
    BY <2>3, <2>4
  <2> QED
    BY <2>2, <2>5 DEF a
<1>7. ASSUME NEW flagged \in Seq(Answers), NEW asleep \in SUBSET (1..n), Top.retry # 0, ret' = ret,
             Push([Top EXCEPT !.at = "again", !.done = flagged, !.idxs = InOrder(asleep)],
                  Frame(Picked(Top.body, asleep), Top.retry))
      PROVE  Stacked(stack') /\ RetOK(stack', ret')
  <2> DEFINE b == Picked(Top.body, asleep)
  <2> DEFINE f == [Top EXCEPT !.at = "again", !.done = flagged, !.idxs = InOrder(asleep)]
  <2> DEFINE g == Frame(b, Top.retry)
  <2>1. asleep \in SUBSET (DOMAIN Top.body)
    BY <1>4
  <2>2. b \in Seq(Command) /\ Len(b) <= n /\ Rising(InOrder(asleep), asleep)
    BY <1>3, <2>1, PickedFact
  <2>3. InOrder(asleep) \in Seq(Nat)
    <3>1. Cardinality(asleep) \in Nat /\ InOrder(asleep) \in [1..Cardinality(asleep) -> asleep]
      BY <2>2 DEF Rising
    <3>2. asleep \subseteq Nat
      BY <1>4
    <3>3. InOrder(asleep) \in [1..Cardinality(asleep) -> Nat]
      BY <3>1, <3>2
    <3> QED
      BY <3>1, <3>3
  <2>4. f \in Frames /\ f.at = "again" /\ f.body = Top.body /\ f.retry = Top.retry /\ f.todo = Top.todo
        /\ f.popped = Top.popped
    BY <1>3, <2>3 DEF Frames, Places
  <2>5. Top.retry \in 1..RETRY_ATTEMPTS
    BY <1>3, <1>7, BodyType
  <2>6. Push(f, g) /\ ret' = None
    BY <1>2, <1>7
  <2> HIDE DEF b, f
  <2>7. FrameOK(f, Len(stack)) /\ Waits(f)
    BY <1>2, <1>3, <2>4 DEF FrameOK, Waits, OneByOne
  <2>8. (Len(stack) + 1) + Top.retry - 1 + Wide(b) <= RETRY_ATTEMPTS + 2
    <3>1. Wide(b) <= Wide(Top.body) /\ Wide(b) \in Int /\ Wide(Top.body) \in Int
      BY <1>3, <1>4, <2>2 DEF Wide
    <3> QED
      BY <1>2, <2>5, <3>1, BodyType
  <2>9. g \in Frames /\ Runs(g)
    BY <2>2, <2>5, NewFrame
  <2>10. FrameOK(g, Len(stack) + 1)
    <3>1. Len(stack) + 1 \in Nat /\ Len(stack) + 1 > 1
      <4>1. Len(stack) \in Nat \ {0}
        BY <1>2, TopFact
      <4> QED
        BY <4>1
    <3> QED
      BY <2>2, <2>5, <2>8, <3>1, NewFrame
  <2>11. NotLonger(g.body, f) /\ Len(f.body) <= Len(stack[1].body)
    BY <1>3, <1>4, <2>4 DEF NotLonger
  <2> HIDE DEF g
  <2>12. Stacked(stack') /\ stack' # << >> /\ stack'[1] = g
    BY <1>2, <2>4, <2>6, <2>7, <2>9, <2>10, <2>11, PushOK
  <2> QED
    BY <2>6, <2>9, <2>12 DEF RetOK
<1> DEFINE cmd(i) == Name[Top.body[i]]
<1>8. ASSUME NEW codes \in [DOMAIN sent -> HttpCode],
             LET answers  == Inserted([k \in DOMAIN sent |-> Answer(sent[k], codes[k])], Top.taken)
                 rejected == {i \in DOMAIN answers : answers[i].code \in Rejected /\ Top.body[i] \notin Offline}
                 fallback == {i \in rejected : cmd(i) \notin baichuan_cmds /\ cmd(i) \in cmd_funcs}
                 asleep   == {i \in rejected \ fallback : answers[i].code = "asleep"}
             IN  IF Top.retry = 0 THEN Return(answers) /\ UNCHANGED baichuan_cmds
                 ELSE \E done \in SUBSET fallback :
                      LET flagged == [i \in DOMAIN answers |->
                                        IF i \in fallback
                                        THEN [answers[i] EXCEPT !.flag = IF i \in done THEN "yes" ELSE "no"]
                                        ELSE answers[i]]
                      IN  /\ baichuan_cmds' = baichuan_cmds \cup {cmd(i) : i \in done}
                          /\ IF asleep = {} THEN Return(flagged)
                             ELSE /\ Push([Top EXCEPT !.at = "again", !.done = flagged, !.idxs = InOrder(asleep)],
                                          Frame(Picked(Top.body, asleep), Top.retry))
                                  /\ UNCHANGED ret
      PROVE  Stacked(stack') /\ RetOK(stack', ret')
  <2> DEFINE answers == Inserted([k \in DOMAIN sent |-> Answer(sent[k], codes[k])], Top.taken)
  <2> DEFINE rejected == {i \in DOMAIN answers : answers[i].code \in Rejected /\ Top.body[i] \notin Offline}
  <2> DEFINE fallback == {i \in rejected : cmd(i) \notin baichuan_cmds /\ cmd(i) \in cmd_funcs}
  <2> DEFINE asleep == {i \in rejected \ fallback : answers[i].code = "asleep"}
  <2>1. answers \in [1..n -> Answers]
    BY <1>6
  <2>2. answers \in Seq(Answers)
    BY <1>4, <2>1
  <2>3. asleep \in SUBSET (1..n)
    BY <2>1
  <2>4. CASE Return(answers)
    BY <1>2, <2>2, <2>4, ReturnOK
  <2>5. ASSUME NEW done \in SUBSET fallback, Top.retry # 0,
               LET flagged == [i \in DOMAIN answers |->
                                 IF i \in fallback
                                 THEN [answers[i] EXCEPT !.flag = IF i \in done THEN "yes" ELSE "no"]
                                 ELSE answers[i]]
               IN  IF asleep = {} THEN Return(flagged)
                   ELSE /\ Push([Top EXCEPT !.at = "again", !.done = flagged, !.idxs = InOrder(asleep)],
                                Frame(Picked(Top.body, asleep), Top.retry))
                        /\ UNCHANGED ret
        PROVE  Stacked(stack') /\ RetOK(stack', ret')
    <3> DEFINE flagged == [i \in DOMAIN answers |->
                            IF i \in fallback
                            THEN [answers[i] EXCEPT !.flag = IF i \in done THEN "yes" ELSE "no"]
                            ELSE answers[i]]
    <3> HIDE DEF fallback, asleep, answers
    <3>1. flagged \in Seq(Answers)
      <4>1. ASSUME NEW i \in 1..n PROVE flagged[i] \in Answers
        <5>1. answers[i] \in Answers /\ i \in DOMAIN answers
          BY <2>1
        <5>2. [answers[i] EXCEPT !.flag = IF i \in done THEN "yes" ELSE "no"] \in Answers
          BY <5>1 DEF Answers
        <5> QED
          BY <5>1, <5>2
      <4>2. flagged \in [1..n -> Answers]
        BY <2>1, <4>1
      <4> QED
        BY <1>4, <4>2
    <3>2. CASE Return(flagged)
      BY <1>2, <3>1, <3>2, ReturnOK
    <3>3. CASE Push([Top EXCEPT !.at = "again", !.done = flagged, !.idxs = InOrder(asleep)],
                    Frame(Picked(Top.body, asleep), Top.retry)) /\ UNCHANGED ret
      <4> HIDE DEF flagged
      <4> QED
        BY <1>7, <2>3, <2>5, <3>1, <3>3
    <3> QED
      BY <2>5, <3>2, <3>3
  <2> HIDE DEF fallback, asleep, answers
  <2> QED
    BY <1>8, <2>4, <2>5 DEF fallback, asleep, answers
<1> HIDE DEF n
<1> QED
  BY <1>8 DEF Matched, sent

(* A frame that takes up what the frame above it left.                     *)
LEMMA TakeUp ==
  ASSUME TypeInv, ret.how # "none", stack # << >>
  PROVE  /\ Stacked(stack) /\ Waits(Top)
         /\ ret.how = "raised" => ret.body \in Seq(Command) /\ ret.exc \in Excs
                                  /\ (Top.at = "whole" => Len(ret.body) <= Len(stack[1].body))
         /\ ret.how # "raised" => ret.how = "returned" /\ ret.answers \in Seq(Answers)
<1>1. Stacked(stack) /\ RetOK(stack, ret) /\ Top = stack[1] /\ Waits(Top)
  BY RetFact, TopFact DEF TypeInv
<1>2. ASSUME ret.how = "raised"
      PROVE  ret.body \in Seq(Command) /\ ret.exc \in Excs
             /\ (Top.at = "whole" => Len(ret.body) <= Len(stack[1].body))
  <2>1. ret \in Errors /\ NotLonger(ret.body, stack[1])
    BY <1>1, <1>2, RetFact
  <2> QED
    BY <1>1, <2>1 DEF Errors, NotLonger
<1>3. ASSUME ret.how # "raised" PROVE ret.how = "returned" /\ ret.answers \in Seq(Answers)
  <2>1. ret.how = "returned" /\ ret \in Replies
    BY <1>1, <1>3, RetFact
  <2> QED
    BY <2>1 DEF Replies
<1> QED
  BY <1>1, <1>2, <1>3

(* What a frame does with what the frame above left.                       *)
LEMMA WholeType ==
  ASSUME TypeInv, Whole
  PROVE  Stacked(stack') /\ RetOK(stack', ret')
<1>1. ret.how # "none" /\ stack # << >> /\ Top.at = "whole"
  BY DEF Whole
<1>2. Stacked(stack) /\ Top.taken \in Taken /\ stack[1].at = "whole"
  BY <1>1, TakeUp, TopFact
<1>3. CASE ret.how = "raised"
  <2>1. ret.body \in Seq(Command) /\ ret.exc \in Excs /\ Len(ret.body) <= Len(stack[1].body)
    BY <1>1, <1>3, TakeUp
  <2>2. Except(ret.body, ret.exc)
    BY <1>3 DEF Whole
  <2> QED
    BY <1>1, <1>2, <2>1, <2>2, ExceptOK
<1>4. CASE ret.how # "raised"
  <2>1. ret.answers \in Seq(Answers)
    BY <1>1, <1>4, TakeUp
  <2>2. Return(IF Top.popped THEN Inserted(ret.answers, Top.taken) ELSE ret.answers)
    BY <1>4 DEF Whole
  <2>3. Inserted(ret.answers, Top.taken) \in Seq(Answers)
    BY <1>2, <2>1, InsertedType
  <2>4. (IF Top.popped THEN Inserted(ret.answers, Top.taken) ELSE ret.answers) \in Seq(Answers)
    BY <2>1, <2>3
  <2> QED
    BY <1>1, <1>2, <2>2, <2>4, ReturnOK
<1> QED
  BY <1>3, <1>4

LEMMA AgainType ==
  ASSUME TypeInv, Again
  PROVE  Stacked(stack') /\ RetOK(stack', ret')
<1>1. ret.how # "none" /\ stack # << >> /\ Top.at = "again"
  BY DEF Again
<1>2. Stacked(stack) /\ stack[1].at = "again" /\ Top.done \in Seq(Answers) /\ Top.body \in Seq(Command)
      /\ Len(Top.body) <= Len(stack[1].body)
  BY <1>1, TakeUp, TopFact
<1>3. CASE ret.how = "raised"
  <2>1. ret.exc \in Excs
    BY <1>1, <1>3, TakeUp
  <2>2. Except(Top.body, ret.exc)
    BY <1>3 DEF Again
  <2> QED
    BY <1>1, <1>2, <2>1, <2>2, ExceptOK
<1>4. CASE ret.how # "raised"
  <2> DEFINE d == Top.done
  <2> DEFINE a == [i \in DOMAIN d |-> IF \E k \in DOMAIN ret.answers : Top.idxs[k] = i
                                      THEN ret.answers[CHOOSE k \in DOMAIN ret.answers : Top.idxs[k] = i]
                                      ELSE d[i]]
  <2>1. ret.answers \in Seq(Answers)
    BY <1>1, <1>4, TakeUp
  <2>2. Return(a)
    BY <1>4 DEF Again
  <2>3. DOMAIN d = 1..Len(d) /\ Len(d) \in Nat /\ \A i \in 1..Len(d) : d[i] \in Answers
    BY <1>2
  <2> HIDE DEF d
  <2>4. ASSUME NEW i \in 1..Len(d) PROVE a[i] \in Answers
    <3>1. CASE \E k \in DOMAIN ret.answers : Top.idxs[k] = i
      <4> DEFINE k == CHOOSE k \in DOMAIN ret.answers : Top.idxs[k] = i
      <4>1. k \in DOMAIN ret.answers
        BY <3>1
      <4>2. a[i] = ret.answers[k]
        BY <2>3, <3>1
      <4> HIDE DEF k, a
      <4> QED
        BY <2>1, <4>1, <4>2
    <3>2. CASE ~\E k \in DOMAIN ret.answers : Top.idxs[k] = i
      BY <2>3, <3>2
    <3> QED
      BY <3>1, <3>2
  <2>5. a \in [1..Len(d) -> Answers]
    BY <2>3, <2>4
  <2> HIDE DEF a
  <2>6. a \in Seq(Answers)
    BY <2>3, <2>5
  <2> QED
    BY <1>1, <1>2, <2>2, <2>6, ReturnOK
<1> QED
  BY <1>3, <1>4

LEMMA StartSeparateType ==
  ASSUME TypeInv, StartSeparate
  PROVE  Stacked(stack') /\ RetOK(stack', ret')
<1>1. ret.how = "none" /\ stack # << >> /\ Top.at \in OneByOne /\ SendNext(Top)
  BY DEF StartSeparate, OneByOne
<1>2. Stacked(stack) /\ RetOK(stack, ret)
  BY DEF TypeInv
<1>3. Top = stack[1] /\ Top \in Frames /\ FrameOK(Top, Len(stack)) /\ Len(Top.body) <= Len(stack[1].body)
  BY <1>1, <1>2, TopFact
<1>4. Runs(Top)
  BY <1>1, <1>2, <1>3, RetFact
<1>5. Top.at # "chunks"
  BY <1>1 DEF OneByOne
<1>6. Top.todo # << >>
  <2>1. Len(Top.todo) > 1
    BY <1>1, <1>3, <1>4 DEF Runs, FrameOK
  <2> QED
    BY <2>1
<1> QED
  BY <1>1, <1>2, <1>3, <1>5, <1>6, SendNextOK

LEMMA SentType ==
  ASSUME TypeInv, ret.how # "none", stack # << >>, Top.at \in OneByOne
  PROVE  /\ Sent(Top) \in Command /\ Name[Sent(Top)] \in Range(Name)
         /\ Top.todo \in Seq(Command) /\ Len(Top.body) - Len(Top.todo) \in 1..Len(Top.body)
<1>1. Stacked(stack) /\ Waits(Top)
  BY TakeUp
<1>2. FrameOK(Top, Len(stack)) /\ Top.body \in Seq(Command)
  BY <1>1, TopFact
<1>3. Top.at # "chunks"
  BY DEF OneByOne
<1>4. Top.todo \in Seq(Command) /\ Len(Top.todo) < Len(Top.body)
  BY <1>1, <1>2, <1>3 DEF Waits, FrameOK
<1>5. Len(Top.body) - Len(Top.todo) \in 1..Len(Top.body)
  <2> DEFINE x == Len(Top.body)
  <2> DEFINE y == Len(Top.todo)
  <2>1. x \in Nat /\ y \in Nat /\ y < x
    BY <1>2, <1>4
  <2> HIDE DEF x, y
  <2>2. x - y \in 1..x
    BY <2>1
  <2> QED
    BY <2>2 DEF x, y
<1>6. Sent(Top) \in Command
  BY <1>2, <1>5 DEF Sent
<1>7. Name[Sent(Top)] \in Range(Name)
  BY <1>6, BodyType DEF Range
<1> QED
  BY <1>4, <1>5, <1>6, <1>7

(* One more answer in a frame that sends its commands one by one.          *)
LEMMA OneMore ==
  ASSUME TypeInv, ret.how # "none", stack # << >>, Top.at \in OneByOne, NEW res \in Seq(Answers)
  PROVE  LET f == [Top EXCEPT !.done = @ \o res]
         IN  /\ f \in Frames /\ f.at = Top.at /\ f.todo = Top.todo /\ f.taken = Top.taken /\ f.body = Top.body
             /\ f.done = Top.done \o res /\ f.popped = Top.popped /\ f.done \in Seq(Answers)
             /\ f.todo # << >> /\ SendNext(f) => Stacked(stack') /\ RetOK(stack', ret')
<1> DEFINE f == [Top EXCEPT !.done = @ \o res]
<1>1. Stacked(stack)
  BY TakeUp
<1>2. Top \in Frames /\ Top.done \in Seq(Answers) /\ FrameOK(Top, Len(stack))
      /\ Len(Top.body) <= Len(stack[1].body) /\ Top = stack[1]
  BY <1>1, TopFact
<1>3. Top.done \o res \in Seq(Answers)
  BY <1>2
<1>4. f \in Frames /\ f.at = Top.at /\ f.todo = Top.todo /\ f.taken = Top.taken /\ f.body = Top.body
      /\ f.done = Top.done \o res /\ f.popped = Top.popped /\ f.retry = Top.retry
  BY <1>2, <1>3 DEF Frames
<1> HIDE DEF f
<1>5. FrameOK(f, Len(stack))
  BY <1>2, <1>4 DEF FrameOK
<1>6. Top.at # "chunks"
  BY DEF OneByOne
<1>7. ASSUME f.todo # << >>, SendNext(f) PROVE Stacked(stack') /\ RetOK(stack', ret')
  BY <1>1, <1>2, <1>4, <1>5, <1>6, <1>7, SendNextOK
<1> QED
  BY <1>3, <1>4, <1>7 DEF f

LEMMA SeparateType ==
  ASSUME TypeInv, Separate
  PROVE  Stacked(stack') /\ RetOK(stack', ret')
<1>1. ret.how # "none" /\ stack # << >> /\ Top.at = "separate" /\ Top.at \in OneByOne
  BY DEF Separate, OneByOne
<1>2. Stacked(stack) /\ Top.taken \in Taken /\ stack[1].at # "chunks" /\ Top.body \in Seq(Command)
      /\ Len(Top.body) <= Len(stack[1].body)
  BY <1>1, TakeUp, TopFact
<1>3. CASE ret.how = "raised" /\ ~(Top.global /\ ret.exc \in {"Reolink", "Timeout"})
  <2>1. Except(Top.body, IF ret.exc = "Timeout" THEN "Reolink" ELSE ret.exc)
    BY <1>3 DEF Separate
  <2>2. (IF ret.exc = "Timeout" THEN "Reolink" ELSE ret.exc) \in Excs
    BY <1>1, <1>3, TakeUp DEF Excs
  <2> QED
    BY <1>1, <1>2, <2>1, <2>2, ExceptOK
<1>4. CASE ~(ret.how = "raised" /\ ~(Top.global /\ ret.exc \in {"Reolink", "Timeout"}))
  <2> DEFINE res == IF ret.how = "raised" THEN <<Answer(Sent(Top), "timeout")>> ELSE ret.answers
  <2> DEFINE f == [Top EXCEPT !.done = @ \o res]
  <2>1. IF f.todo # << >> THEN SendNext(f) ELSE Return(Inserted(f.done, f.taken))
    BY <1>4 DEF Separate
  <2>2. res \in Seq(Answers)
    <3>1. ret.how # "raised" => ret.answers \in Seq(Answers)
      BY <1>1, TakeUp
    <3>2. Sent(Top) \in Command /\ "timeout" \in Code
      BY <1>1, SentType DEF Code, HttpCode
    <3>3. Answer(Sent(Top), "timeout") \in Answers
      BY <3>2, AnswerType
    <3> QED
      BY <3>1, <3>3
  <2> HIDE DEF res
  <2>3. f.taken = Top.taken /\ f.done \in Seq(Answers)
    BY <1>1, <2>2, OneMore
  <2>4. f.todo # << >> /\ SendNext(f) => Stacked(stack') /\ RetOK(stack', ret')
    BY <1>1, <2>2, OneMore
  <2> HIDE DEF f
  <2>5. CASE Return(Inserted(f.done, f.taken))
    BY <1>1, <1>2, <2>3, <2>5, InsertedType, ReturnOK
  <2> QED
    BY <2>1, <2>4, <2>5
<1> QED
  BY <1>3, <1>4

LEMMA ApartType ==
  ASSUME TypeInv, Apart
  PROVE  Stacked(stack') /\ RetOK(stack', ret')
<1>1. ret.how # "none" /\ stack # << >> /\ Top.at = "apart" /\ Top.at \in OneByOne
  BY DEF Apart, OneByOne
<1>2. Stacked(stack)
  BY <1>1, TakeUp
<1>3. CASE ret.how = "raised" /\ ret.exc \notin {"Reolink", "Timeout"}
  <2>1. Raise(ret.exc)
    BY <1>3 DEF Apart
  <2>2. ret.exc \in Excs
    BY <1>1, <1>3, TakeUp
  <2> QED
    BY <1>1, <1>2, <2>1, <2>2, RaiseOK
<1>4. CASE ~(ret.how = "raised" /\ ret.exc \notin {"Reolink", "Timeout"})
  <2> DEFINE res == IF ret.how = "raised" THEN <<Answer(Sent(Top), "undecoded")>> ELSE ret.answers
  <2> DEFINE f == [Top EXCEPT !.done = @ \o res]
  <2>1. IF f.todo # << >> THEN SendNext(f) ELSE Return(f.done)
    BY <1>4 DEF Apart
  <2>2. res \in Seq(Answers)
    <3>1. ret.how # "raised" => ret.answers \in Seq(Answers)
      BY <1>1, TakeUp
    <3>2. Sent(Top) \in Command /\ "undecoded" \in Code
      BY <1>1, SentType DEF Code
    <3>3. Answer(Sent(Top), "undecoded") \in Answers
      BY <3>2, AnswerType
    <3> QED
      BY <3>1, <3>3
  <2> HIDE DEF res
  <2>3. f.done \in Seq(Answers)
    BY <1>1, <2>2, OneMore
  <2>4. f.todo # << >> /\ SendNext(f) => Stacked(stack') /\ RetOK(stack', ret')
    BY <1>1, <2>2, OneMore
  <2> HIDE DEF f
  <2>5. CASE Return(f.done)
    BY <1>1, <1>2, <2>3, <2>5, ReturnOK
  <2> QED
    BY <2>1, <2>4, <2>5
<1> QED
  BY <1>3, <1>4

(* All the actions.                                                        *)
LEMMA StepType ==
  ASSUME TypeInv, Step
  PROVE  Stacked(stack') /\ RetOK(stack', ret')
<1>1. CASE NextChunk
  BY <1>1, NextChunkType
<1>2. CASE Finish
  BY <1>2, FinishType
<1>3. CASE EnterOnly
  BY <1>3, EnterOnlyType
<1>4. CASE EnterFailed
  BY <1>4, EnterFailedType
<1>5. CASE EnterFound
  BY <1>5 DEF EnterFound, TypeInv
<1>6. CASE Enter
  BY <1>6, EnterType
<1>7. CASE Unanswered
  BY <1>7, UnansweredType
<1>8. CASE Refused
  BY <1>8, RefusedType
<1>9. CASE Garbled
  BY <1>9, GarbledType
<1>10. CASE Undecodable
  BY <1>10, UndecodableType
<1>11. CASE Mismatch
  BY <1>11, MismatchType
<1>12. CASE Matched
  BY <1>12, MatchedType
<1>13. CASE Whole
  BY <1>13, WholeType
<1>14. CASE Again
  BY <1>14, AgainType
<1>15. CASE StartSeparate
  BY <1>15, StartSeparateType
<1>16. CASE Separate
  BY <1>16, SeparateType
<1>17. CASE Apart
  BY <1>17, ApartType
<1> QED
  BY <1>1, <1>2, <1>3, <1>4, <1>5, <1>6, <1>7, <1>8, <1>9, <1>10, <1>11, <1>12, <1>13, <1>14, <1>15,
     <1>16, <1>17 DEF Step

(* Only commands that Baichuan knows are learned to go over it, and only    *)
(* commands of the batch are found broken.                                 *)
LEMMA CmdsType ==
  ASSUME TypeInv, Next
  PROVE  CmdsOK'
<1>1. baichuan_cmds \subseteq cmd_funcs /\ broken_cmds \subseteq Range(Name)
  BY DEF TypeInv, CmdsOK
<1>2. CASE UNCHANGED <<baichuan_cmds, broken_cmds>>
  BY <1>1, <1>2 DEF CmdsOK
<1>3. CASE Matched
  <2>1. broken_cmds' = broken_cmds
    BY <1>3 DEF Matched
  <2>2. ASSUME NEW c \in baichuan_cmds' PROVE c \in cmd_funcs
    <3>1. baichuan_cmds' = baichuan_cmds \/ c \in baichuan_cmds \/ \E i : c = Name[Top.body[i]] /\ Name[Top.body[i]] \in cmd_funcs
      BY <1>3, <2>2 DEF Matched
    <3> QED
      BY <1>1, <2>2, <3>1
  <2> QED
    BY <1>1, <2>1, <2>2 DEF CmdsOK
<1>4. CASE Separate
  <2>1. baichuan_cmds' = baichuan_cmds
    BY <1>4 DEF Separate
  <2>2. broken_cmds' = broken_cmds \/ broken_cmds' = broken_cmds \cup {Name[Sent(Top)]}
    BY <1>4 DEF Separate
  <2>3. Name[Sent(Top)] \in Range(Name)
    BY <1>4, SentType DEF Separate, OneByOne
  <2> QED
    BY <1>1, <2>1, <2>2, <2>3 DEF CmdsOK
<1>5. CASE OtherTask
  BY <1>1, <1>5 DEF OtherTask, CmdsOK
<1>6. CASE NextChunk \/ Finish \/ EnterOnly \/ EnterFailed \/ EnterFound \/ Enter
  BY <1>2, <1>6 DEF NextChunk, Finish, EnterOnly, EnterFailed, EnterFound, Enter
<1>7. CASE Unanswered \/ Refused \/ Garbled \/ Undecodable \/ Mismatch
  BY <1>2, <1>7 DEF Unanswered, Refused, Garbled, Undecodable, Mismatch
<1>8. CASE Whole \/ Again \/ StartSeparate \/ Apart
  BY <1>2, <1>8 DEF Whole, Again, StartSeparate, Apart
<1> QED
  BY <1>3, <1>4, <1>5, <1>6, <1>7, <1>8 DEF Next, Step

(* TypeInv is inductive.                                                   *)
LEMMA NextType == TypeInv /\ [Next]_vars => TypeInv'
<1>1. ASSUME TypeInv, Next PROVE TypeInv'
  <2>1. CASE Step
    <3>1. Stacked(stack') /\ RetOK(stack', ret')
      BY <1>1, <2>1, StepType
    <3>2. CmdsOK'
      BY <1>1, CmdsType
    <3> QED
      BY <3>1, <3>2 DEF TypeInv
  <2>2. CASE OtherTask
    <3>1. stack' = stack /\ ret' = ret
      BY <2>2 DEF OtherTask
    <3>2. CmdsOK'
      BY <1>1, CmdsType
    <3> QED
      BY <1>1, <3>1, <3>2 DEF TypeInv
  <2> QED
    BY <1>1, <2>1, <2>2 DEF Next
<1>2. ASSUME TypeInv, UNCHANGED vars PROVE TypeInv'
  BY <1>2 DEF TypeInv, CmdsOK, vars
<1> QED
  BY <1>1, <1>2

(* The invariant bounds the recursion.                                     *)
LEMMA TypeHolds == TypeInv => TypeOK
<1> SUFFICES ASSUME TypeInv PROVE TypeOK
  OBVIOUS
<1>1. stack \in Seq(Frames) /\ RETRY_ATTEMPTS \in Nat \ {0}
  BY BodyType DEF TypeInv, Stacked
<1>2. Len(stack) <= RETRY_ATTEMPTS + 2
  <2>1. CASE stack = << >>
    BY <1>1, <2>1
  <2>2. CASE stack # << >>
    <3>1. FrameOK(Top, Len(stack)) /\ (Top.at = "chunks" <=> Len(stack) = 1) /\ Top.retry \in 0..(RETRY_ATTEMPTS - 1)
          /\ Len(stack) \in Nat
      BY <2>2, TopFact DEF TypeInv
    <3>2. CASE Len(stack) = 1
      BY <1>1, <3>2
    <3>3. CASE Len(stack) # 1
      <4>1. Len(stack) + Top.retry + Wide(Top.body) <= RETRY_ATTEMPTS + 2
        BY <3>1, <3>3 DEF FrameOK
      <4>2. Wide(Top.body) \in 0..1
        BY WideFact
      <4> QED
        BY <1>1, <3>1, <4>1, <4>2
    <3> QED
      BY <3>2, <3>3
  <2> QED
    BY <2>1, <2>2
<1>3. ASSUME NEW i \in DOMAIN stack
      PROVE  /\ stack[i].retry \in 0..(RETRY_ATTEMPTS - 1)
             /\ Range(stack[i].body) \subseteq Command
             /\ \A k \in DOMAIN stack[i].done : stack[i].done[k].code \in Code
  <2>1. stack[i] \in Frames
    BY <1>1
  <2>2. stack[i].body \in Seq(Command) /\ stack[i].done \in Seq(Answers) /\ stack[i].retry \in 0..(RETRY_ATTEMPTS - 1)
    BY <2>1 DEF Frames
  <2>3. Range(stack[i].body) \subseteq Command
    BY <2>2 DEF Range
  <2>4. ASSUME NEW k \in DOMAIN stack[i].done PROVE stack[i].done[k].code \in Code
    <3>1. stack[i].done[k] \in Answers
      BY <2>2
    <3> QED
      BY <3>1 DEF Answers
  <2> QED
    BY <2>2, <2>3, <2>4
<1> QED
  BY <1>2, <1>3 DEF TypeOK, TypeInv, CmdsOK

(* The recursion of send, send_chunk and _parse_json is never deeper than  *)
(* the retries and one command sent separately, whatever the length of the *)
(* batch; the attempts left stay in range, every body has only commands of *)
(* the caller, and every answer has a code the client knows.               *)
THEOREM TypeCorrect == Spec => []TypeOK
<1>1. Init => TypeInv
  BY InitType
<1>2. TypeInv /\ [Next]_vars => TypeInv'
  BY NextType
<1>3. TypeInv => TypeOK
  BY TypeHolds
<1> QED
  BY <1>1, <1>2, <1>3, PTL DEF Spec

-----------------------------------------------------------------------------
(* The frames and the commands they were called with.                      *)

(* What matches in the frame that runs, and in those below it.             *)
LEMMA MatchingTop ==
  ASSUME NEW s, s \in Seq(Frames), s # << >>, Matching(s)
  PROVE  /\ Got(s[1]) /\ Matching(Tail(s)) /\ Tail(s) \in Seq(Frames)
         /\ Tail(s) # << >> => CalledWith(s[1], Expected(Tail(s)[1])) /\ Got(Tail(s)[1]) /\ Tail(s)[1] \in Frames
<1> DEFINE t == Tail(s)
<1>1. Len(s) \in Nat /\ Len(s) >= 1
  OBVIOUS
<1>2. t \in Seq(Frames) /\ Len(t) = Len(s) - 1 /\ \A i \in 1..Len(t) : t[i] = s[i + 1]
  OBVIOUS
<1> HIDE DEF t
<1>3. Got(s[1])
  BY <1>1 DEF Matching
<1>4. ASSUME NEW i \in 1..Len(t) PROVE Got(t[i])
  <2>1. i + 1 \in 1..Len(s) /\ t[i] = s[i + 1]
    BY <1>1, <1>2
  <2> QED
    BY <2>1 DEF Matching
<1>5. ASSUME NEW i \in 1..(Len(t) - 1) PROVE CalledWith(t[i], Expected(t[i + 1]))
  <2>1. i + 1 \in 1..(Len(s) - 1) /\ i \in 1..Len(t) /\ i + 1 \in 1..Len(t)
    BY <1>1, <1>2
  <2>2. t[i] = s[i + 1] /\ t[i + 1] = s[(i + 1) + 1]
    BY <1>2, <2>1
  <2>3. CalledWith(s[i + 1], Expected(s[(i + 1) + 1]))
    BY <2>1 DEF Matching
  <2> QED
    BY <2>2, <2>3
<1>6. Matching(t)
  BY <1>4, <1>5 DEF Matching
<1>7. ASSUME t # << >> PROVE CalledWith(s[1], Expected(t[1])) /\ Got(t[1]) /\ t[1] \in Frames
  <2>1. 1 \in 1..(Len(s) - 1) /\ 1 \in 1..Len(t)
    BY <1>1, <1>2, <1>7
  <2>2. t[1] = s[1 + 1]
    BY <1>2, <2>1
  <2>3. CalledWith(s[1], Expected(s[1 + 1]))
    BY <2>1 DEF Matching
  <2> QED
    BY <1>2, <1>4, <2>1, <2>2, <2>3
<1> QED
  BY <1>2, <1>3, <1>6, <1>7 DEF t

(* A frame called with what the one below it waits for.                    *)
LEMMA MatchingPush ==
  ASSUME NEW t, t \in Seq(Frames), Matching(t), NEW f \in Frames, Got(f),
         t # << >> => CalledWith(f, Expected(t[1]))
  PROVE  Matching(<<f>> \o t) /\ <<f>> \o t \in Seq(Frames) /\ <<f>> \o t # << >> /\ (<<f>> \o t)[1] = f
<1> DEFINE u == <<f>> \o t
<1>1. u \in Seq(Frames) /\ Len(u) = Len(t) + 1 /\ u[1] = f /\ u # << >> /\ Len(t) \in Nat
      /\ \A i \in 2..Len(u) : u[i] = t[i - 1]
  BY PushFact
<1> HIDE DEF u
<1>2. ASSUME NEW i \in 1..Len(u) PROVE Got(u[i])
  <2>1. CASE i = 1
    BY <1>1, <2>1
  <2>2. CASE i # 1
    <3>1. i \in 2..Len(u) /\ i - 1 \in 1..Len(t)
      BY <1>1, <2>2
    <3>2. u[i] = t[i - 1]
      BY <1>1, <3>1
    <3> QED
      BY <3>1, <3>2 DEF Matching
  <2> QED
    BY <2>1, <2>2
<1>3. ASSUME NEW i \in 1..(Len(u) - 1) PROVE CalledWith(u[i], Expected(u[i + 1]))
  <2>1. i + 1 \in 2..Len(u) /\ (i + 1) - 1 = i
    BY <1>1
  <2>2. u[i + 1] = t[i]
    <3>1. u[i + 1] = t[(i + 1) - 1]
      BY <1>1, <2>1
    <3> QED
      BY <2>1, <3>1
  <2>3. CASE i = 1
    <3>1. t # << >>
      BY <1>1, <2>3
    <3> QED
      BY <1>1, <2>2, <2>3, <3>1
  <2>4. CASE i # 1
    <3>1. i \in 2..Len(u) /\ i - 1 \in 1..(Len(t) - 1) /\ (i - 1) + 1 = i
      BY <1>1, <2>4
    <3>2. u[i] = t[i - 1]
      BY <1>1, <3>1
    <3>3. CalledWith(t[i - 1], Expected(t[(i - 1) + 1]))
      BY <3>1 DEF Matching
    <3> QED
      BY <2>2, <3>1, <3>2, <3>3
  <2> QED
    BY <2>3, <2>4
<1>4. Matching(u)
  BY <1>2, <1>3 DEF Matching
<1> QED
  BY <1>1, <1>4 DEF u

(* A frame waits for answers to commands.                                  *)
LEMMA ExpectedType ==
  ASSUME NEW f \in Frames, Waits(f), Got(f)
  PROVE  Expected(f) \in Seq(Command)
<1>1. f.body \in Seq(Command) /\ f.idxs \in Seq(Nat)
  BY DEF Frames
<1>2. CASE f.at = "chunks"
  <2>1. ChunkNo(f.todo) \in 1..Count
    BY <1>2, ChunksType DEF Got
  <2> QED
    BY <1>2, <2>1, ChunkFact DEF Expected
<1>3. CASE f.at = "whole"
  BY <1>1, <1>3 DEF Expected
<1>4. CASE f.at = "again"
  <2>1. Range(f.idxs) \subseteq DOMAIN f.body
    BY <1>4 DEF Got
  <2>2. Expected(f) = [k \in DOMAIN f.idxs |-> f.body[f.idxs[k]]]
    BY <1>4 DEF Expected
  <2>3. \A k \in 1..Len(f.idxs) : f.body[f.idxs[k]] \in Command
    BY <1>1, <2>1 DEF Range
  <2>4. DOMAIN f.idxs = 1..Len(f.idxs) /\ Len(f.idxs) \in Nat
    BY <1>1
  <2>5. Expected(f) \in [1..Len(f.idxs) -> Command]
    BY <2>2, <2>3, <2>4
  <2> QED
    BY <2>4, <2>5
<1>5. CASE f.at \in OneByOne
  <2>1. Expected(f) = <<Sent(f)>>
    BY <1>5 DEF Expected, OneByOne
  <2>2. Len(f.todo) < Len(f.body)
    BY <1>5 DEF Waits
  <2>3. f.todo \in Seq(Command) \/ f.todo \in Seq(Seq(Command))
    BY DEF Frames
  <2> DEFINE x == Len(f.body)
  <2> DEFINE y == Len(f.todo)
  <2>4. x \in Nat /\ y \in Nat /\ y < x
    BY <1>1, <2>2, <2>3
  <2> HIDE DEF x, y
  <2>5. x - y \in 1..x
    BY <2>4
  <2>6. Sent(f) \in Command
    BY <1>1, <2>5 DEF Sent, x, y
  <2> QED
    BY <2>1, <2>6
<1> QED
  BY <1>2, <1>3, <1>4, <1>5 DEF Waits

(* The body of a frame is shorter than what it was called with only if     *)
(* commands were taken out.                                                *)
LEMMA Shorter ==
  ASSUME NEW f \in Frames, NEW o \in Seq(Command), CalledWith(f, o)
  PROVE  /\ Shrunk(f.body, o)
         /\ ~f.popped \/ f.taken = << >> => f.body = o
<1> DEFINE D == DOMAIN f.taken
<1>1. CASE ~f.popped
  BY <1>1 DEF CalledWith, Shrunk
<1>2. CASE f.popped
  <2>1. f.body = Picked(o, DOMAIN o \ D) /\ D \subseteq 1..Len(o)
    BY <1>2 DEF CalledWith
  <2>2. DOMAIN o = 1..Len(o)
    OBVIOUS
  <2>3. DOMAIN o \ D \in SUBSET (DOMAIN o)
    OBVIOUS
  <2>4. CASE D = {}
    <3>1. DOMAIN o \ D = DOMAIN o
      BY <2>4
    <3>2. f.body = o
      BY <2>1, <3>1, PickedWhole
    <3> QED
      BY <3>2 DEF Shrunk
  <2>5. CASE D # {}
    <3>1. DOMAIN o \ D # DOMAIN o
      BY <2>1, <2>2, <2>5
    <3>2. Len(f.body) < Len(o)
      BY <2>1, <2>3, <3>1, PickedFact
    <3>3. f.taken # << >>
      BY <2>5, NothingTaken
    <3> QED
      BY <1>2, <3>2, <3>3 DEF Shrunk
  <2> QED
    BY <2>4, <2>5
<1> QED
  BY <1>1, <1>2

(* Answers to the body of a frame, with the placeholders, are answers to   *)
(* what it was called with.                                                *)
LEMMA Restored ==
  ASSUME NEW f \in Frames, NEW o \in Seq(Command), CalledWith(f, o), NEW a \in Seq(Answers), Aligns(a, f.body)
  PROVE  IF f.popped THEN Aligns(Inserted(a, f.taken), o) ELSE Aligns(a, o)
<1>1. f.taken \in Taken
  BY DEF Frames
<1>2. CASE ~f.popped
  BY <1>2 DEF CalledWith
<1>3. CASE f.popped
  <2>1. f.body = Picked(o, DOMAIN o \ DOMAIN f.taken)
    BY <1>3 DEF CalledWith
  <2>2. \A i \in DOMAIN f.taken : i \in 1..Len(o) /\ f.taken[i].to = o[i]
    BY DEF CalledWith
  <2>3. Aligns(a, Picked(o, DOMAIN o \ DOMAIN f.taken))
    BY <2>1
  <2>4. Aligns(Inserted(a, f.taken), o)
    BY <1>1, <2>2, <2>3, InsertedAligns
  <2> QED
    BY <1>3, <2>4
<1> QED
  BY <1>2, <1>3

(* A send_chunk runs, called by a frame that waits for the answers to o.   *)
Called(o) ==
    /\ Stacked(stack) /\ Matching(stack) /\ stack # << >> /\ Top.at # "chunks"
    /\ Tail(stack) # << >> /\ o = Expected(Tail(stack)[1]) /\ o \in Seq(Command) /\ CalledWith(Top, o)

(* Every frame but that of send was called by one that waits.              *)
LEMMA CalledFact ==
  ASSUME TypeInv, Matching(stack), stack # << >>, Top.at # "chunks"
  PROVE  Called(Expected(Tail(stack)[1])) /\ Got(Top)
<1> DEFINE t == Tail(stack)
<1>1. Stacked(stack) /\ stack \in Seq(Frames)
  BY DEF TypeInv, Stacked
<1>2. Top = stack[1]
  BY <1>1, TopFact
<1>3. Len(stack) > 1
  <2>1. Len(stack) \in Nat \ {0} /\ Len(stack) # 1
    BY <1>1, TopFact
  <2> DEFINE x == Len(stack)
  <2>2. x \in Nat \ {0} /\ x # 1
    BY <2>1
  <2> HIDE DEF x
  <2>3. x > 1
    BY <2>2
  <2> QED
    BY <2>3 DEF x
<1>a. t # << >> /\ t \in Seq(Frames)
  BY <1>1, <1>3, StackTail
<1>4. CalledWith(stack[1], Expected(t[1])) /\ Got(t[1]) /\ t[1] \in Frames /\ Got(stack[1])
  BY <1>1, <1>a, MatchingTop
<1>5. Waits(t[1])
  <2>1. Waits(stack[2])
    BY <1>1, <1>3, StackTop
  <2>2. t[1] = stack[2]
    BY <1>1, <1>3
  <2> QED
    BY <2>1, <2>2
<1> HIDE DEF t
<1>6. Expected(t[1]) \in Seq(Command)
  BY <1>4, <1>5, ExpectedType
<1> QED
  BY <1>1, <1>2, <1>a, <1>4, <1>6 DEF Called, t

(* What every action has to keep.                                          *)
Matches == Matching(stack') /\ RetMatches(stack', ret')

(* return, with an answer to each command.                                 *)
LEMMA ReturnMatches ==
  ASSUME NEW o, Called(o), NEW answers, Aligns(answers, o), Return(answers)
  PROVE  Matches
<1>1. stack' = Tail(stack) /\ ret' = Returned(Top.body, answers)
  BY DEF Return
<1>2. Matching(Tail(stack)) /\ Tail(stack) # << >> /\ o = Expected(Tail(stack)[1])
  BY MatchingTop DEF Called, Stacked
<1>3. ret'.how = "returned" /\ ret'.answers = answers
  BY <1>1 DEF Returned
<1>4. RetMatches(stack', ret')
  BY <1>1, <1>2, <1>3 DEF RetMatches
<1> QED
  BY <1>1, <1>2, <1>4 DEF Matches

(* raise: a body that lost commands is shorter.                            *)
LEMMA RaisedMatches ==
  ASSUME NEW o, Called(o), NEW b, b = Top.body \/ Len(b) < Len(Top.body), b \in Seq(Command),
         NEW exc, stack' = Tail(stack), ret' = Raised(b, exc)
  PROVE  Matches
<1>1. Matching(Tail(stack)) /\ Tail(stack) # << >> /\ o = Expected(Tail(stack)[1]) /\ o \in Seq(Command)
  BY MatchingTop DEF Called, Stacked
<1>2. Top \in Frames /\ CalledWith(Top, o) /\ Top.body \in Seq(Command)
  BY TopFact DEF Called
<1>3. Shrunk(Top.body, o)
  BY <1>1, <1>2, Shorter
<1>4. Shrunk(b, o)
  <2>1. Len(b) \in Int /\ Len(Top.body) \in Int /\ Len(o) \in Int
    BY <1>1, <1>2
  <2> QED
    BY <1>3, <2>1 DEF Shrunk
<1>5. ret'.how = "raised" /\ ret'.body = b
  BY DEF Raised
<1>6. RetMatches(stack', ret')
  BY <1>1, <1>4, <1>5 DEF RetMatches
<1> QED
  BY <1>1, <1>6 DEF Matches

LEMMA NewFrameGot ==
  ASSUME NEW b \in Seq(Command), NEW r \in 1..RETRY_ATTEMPTS
  PROVE  Got(Frame(b, r)) /\ CalledWith(Frame(b, r), b)
<1> DEFINE f == Frame(b, r)
<1>1. f.at = "enter" /\ f.body = b /\ ~f.popped /\ f.taken = << >> /\ f.done = << >>
  BY NewFrame DEF Frame
<1> HIDE DEF f
<1>2. Got(f)
  BY <1>1 DEF Got, OneByOne
<1>3. CalledWith(f, b)
  BY <1>1, NothingTaken DEF CalledWith
<1> QED
  BY <1>2, <1>3 DEF f

LEMMA ReplaceMatches ==
  ASSUME NEW o, Called(o), NEW f \in Frames, Got(f), CalledWith(f, o), Replace(f), ret' = None
  PROVE  Matches
<1>1. Matching(Tail(stack)) /\ Tail(stack) \in Seq(Frames) /\ o = Expected(Tail(stack)[1])
  BY MatchingTop DEF Called, Stacked
<1>2. stack' = <<f>> \o Tail(stack)
  BY DEF Replace
<1>3. Matching(stack')
  BY <1>1, <1>2, MatchingPush
<1>4. RetMatches(stack', ret')
  BY DEF RetMatches, None
<1> QED
  BY <1>3, <1>4 DEF Matches

LEMMA PushMatches ==
  ASSUME stack \in Seq(Frames), stack # << >>, Matching(stack), NEW f \in Frames, Got(f),
         Tail(stack) # << >> => CalledWith(f, Expected(Tail(stack)[1])),
         NEW g \in Frames, Got(g), CalledWith(g, Expected(f)), Push(f, g), ret' = None
  PROVE  Matches
<1> DEFINE u == <<f>> \o Tail(stack)
<1>1. Matching(Tail(stack)) /\ Tail(stack) \in Seq(Frames)
  BY MatchingTop
<1>2. Matching(u) /\ u \in Seq(Frames) /\ u # << >> /\ u[1] = f
  BY <1>1, MatchingPush
<1>3. stack' = <<g>> \o u
  BY <1>1 DEF Push
<1> HIDE DEF u
<1>4. Matching(stack')
  BY <1>2, <1>3, MatchingPush
<1>5. RetMatches(stack', ret')
  BY DEF RetMatches, None
<1> QED
  BY <1>4, <1>5 DEF Matches

(* send again from an except clause, with all that the frame was called    *)
(* with: a body that lost commands counts as cut.                          *)
LEMMA ResendMatches ==
  ASSUME NEW o, Called(o), NEW b \in Seq(Command), b = Top.body \/ Len(b) < Len(Top.body),
         Top.retry > 0, Resend(b), ~cut'
  PROVE  Matches
<1>1. Top \in Frames /\ Top.retry \in 0..(RETRY_ATTEMPTS - 1) /\ CalledWith(Top, o) /\ o \in Seq(Command)
  BY TopFact DEF Called
<1>2. ~((Top.popped /\ Top.taken # << >>) \/ Len(b) < Len(Top.body))
  BY Zenon DEF Resend
<1>3. b = Top.body /\ (~Top.popped \/ Top.taken = << >>)
  BY <1>2
<1>4. b = o
  BY <1>1, <1>3, Shorter
<1> DEFINE f == Frame(b, Top.retry)
<1>5. Top.retry \in 1..RETRY_ATTEMPTS
  BY <1>1, BodyType
<1>6. f \in Frames
  BY <1>5, NewFrame
<1>7. Got(f) /\ CalledWith(f, o)
  BY <1>4, <1>5, NewFrameGot
<1>8. Replace(f) /\ ret' = None
  BY DEF Resend
<1> HIDE DEF f
<1> QED
  BY <1>6, <1>7, <1>8, ReplaceMatches

LEMMA ExceptMatches ==
  ASSUME NEW o, Called(o), NEW b \in Seq(Command), b = Top.body \/ Len(b) < Len(Top.body),
         NEW exc, Except(b, exc), ~cut'
  PROVE  Matches
<1>1. CASE Top.retry > 0 /\ Resend(b)
  BY <1>1, ResendMatches
<1>2. CASE stack' = Tail(stack) /\ ret' = Raised(b, exc)
  BY <1>2, RaisedMatches
<1> QED
  BY <1>1, <1>2 DEF Except

-----------------------------------------------------------------------------
(* The answers stay with their commands in every action.                   *)

(* The first commands of a body.                                           *)
LEMMA PrefixFact ==
  ASSUME NEW B \in Seq(Command), NEW m \in Nat, m <= Len(B)
  PROVE  /\ Len(SubSeq(B, 1, m)) = m /\ SubSeq(B, 1, m) \in Seq(Command)
         /\ \A i \in 1..m : SubSeq(B, 1, m)[i] = B[i]
<1>1. \A i \in 1..m : B[i] \in Command
  BY LenProperties
<1>2. /\ SubSeq(B, 1, m) \in Seq(Command)
      /\ Len(SubSeq(B, 1, m)) = IF 1 <= m THEN m - 1 + 1 ELSE 0
      /\ \A i \in 1..(m - 1 + 1) : SubSeq(B, 1, m)[i] = B[1 + i - 1]
  BY <1>1, SubSeqProperties
<1>3. Len(SubSeq(B, 1, m)) = m /\ m - 1 + 1 = m
  BY <1>2
<1>4. ASSUME NEW i \in 1..m PROVE SubSeq(B, 1, m)[i] = B[i]
  <2>1. SubSeq(B, 1, m)[i] = B[1 + i - 1] /\ 1 + i - 1 = i
    BY <1>2, <1>3
  <2> QED
    BY <2>1
<1> QED
  BY <1>2, <1>3, <1>4

(* Answers to the next commands are put behind the answers to the first.   *)
LEMMA AlignsLonger ==
  ASSUME NEW B \in Seq(Command), NEW m \in Nat, NEW p \in Nat, m <= p, p <= Len(B),
         NEW a \in Seq(Answers), NEW c \in Seq(Answers), Aligns(a, SubSeq(B, 1, m)), Len(c) = p - m,
         \A j \in 1..Len(c) : c[j].to = B[m + j]
  PROVE  Aligns(a \o c, SubSeq(B, 1, p))
<1>0. Len(B) \in Nat
  OBVIOUS
<1>1. /\ Len(SubSeq(B, 1, m)) = m /\ \A i \in 1..m : SubSeq(B, 1, m)[i] = B[i]
      /\ Len(SubSeq(B, 1, p)) = p /\ \A i \in 1..p : SubSeq(B, 1, p)[i] = B[i]
  <2>1. m <= Len(B)
    BY <1>0
  <2> QED
    BY <2>1, PrefixFact
<1>2. Len(a) = m /\ \A i \in 1..m : a[i].to = B[i]
  BY <1>1 DEF Aligns
<1> DEFINE r == a \o c
<1>3. Len(r) = Len(a) + Len(c) /\ \A i \in 1..(Len(a) + Len(c)) : r[i] = IF i <= Len(a) THEN a[i] ELSE c[i - Len(a)]
  BY ConcatProperties
<1> HIDE DEF r
<1>4. Len(r) = p
  BY <1>2, <1>3
<1>5. ASSUME NEW i \in 1..p PROVE r[i].to = B[i]
  <2>1. r[i] = IF i <= m THEN a[i] ELSE c[i - m]
    BY <1>2, <1>3
  <2>2. CASE i <= m
    <3>1. i \in 1..m
      BY <2>2
    <3> QED
      BY <1>2, <2>1, <2>2, <3>1
  <2>3. CASE ~(i <= m)
    <3>1. i - m \in 1..Len(c) /\ m + (i - m) = i
      BY <2>3
    <3>2. c[i - m].to = B[m + (i - m)]
      BY <3>1
    <3> QED
      BY <2>1, <2>3, <3>1, <3>2
  <2> QED
    BY <2>2, <2>3
<1>6. Len(r) = Len(SubSeq(B, 1, p)) /\ \A i \in 1..Len(SubSeq(B, 1, p)) : r[i].to = SubSeq(B, 1, p)[i]
  BY <1>1, <1>4, <1>5
<1> QED
  BY <1>6 DEF Aligns, r

(* The chunk whose answers send has just got.                              *)
LEMMA ChunkDone ==
  ASSUME TypeInv, Matching(stack), RetMatches(stack, ret), stack # << >>, Top.at = "chunks", ret.how = "returned"
  PROVE  LET k == ChunkNo(Top.todo)
         IN  /\ k \in 1..Count /\ Top.todo = SubSeq(Chunks(Body), k + 1, Count)
             /\ End(k) \in 1..Len(Body)
             /\ Aligns(Top.done \o ret.answers, SubSeq(Body, 1, End(k)))
<1> DEFINE k == ChunkNo(Top.todo)
<1> DEFINE c == Chunks(Body)[k]
<1> DEFINE low == (k - 1) * MAX_CHUNK_ITEMS
<1>1. Stacked(stack) /\ stack \in Seq(Frames) /\ ret.answers \in Seq(Answers)
  BY RetFact DEF TypeInv, Stacked, Replies
<1>2. Top = stack[1] /\ Top.done \in Seq(Answers)
  BY <1>1, TopFact
<1>3. Got(Top)
  BY <1>1, <1>2, MatchingTop
<1>4. k \in 1..Count /\ Top.todo = SubSeq(Chunks(Body), k + 1, Count) /\ Aligns(Top.done, SubSeq(Body, 1, low))
  BY <1>3, ChunksType DEF Got
<1>5. Aligns(ret.answers, c)
  BY <1>2 DEF RetMatches, Expected
<1>6. /\ low \in Nat /\ End(k) \in 1..Len(Body) /\ low < End(k) /\ Len(c) = End(k) - low
      /\ \A j \in 1..Len(c) : c[j] = Body[low + j]
  BY <1>4, ChunkFact
<1>7. Body \in Seq(Command)
  BY BodyType
<1> HIDE DEF k, c, low
<1>8. Len(ret.answers) = End(k) - low /\ \A j \in 1..Len(ret.answers) : ret.answers[j].to = Body[low + j]
  BY <1>5, <1>6 DEF Aligns
<1>9. End(k) \in Nat /\ low <= End(k) /\ End(k) <= Len(Body)
  BY <1>6, <1>7
<1>10. Aligns(Top.done \o ret.answers, SubSeq(Body, 1, End(k)))
  BY <1>1, <1>2, <1>4, <1>6, <1>7, <1>8, <1>9, AlignsLonger
<1> QED
  BY <1>4, <1>6, <1>10 DEF k

(* The answers to another chunk are put behind those to the chunks before  *)
(* it.                                                                     *)
LEMMA NextChunkMatches ==
  ASSUME TypeInv, Matching(stack), RetMatches(stack, ret), NextChunk
  PROVE  Matches
<1> DEFINE C == Chunks(Body)
<1> DEFINE k == ChunkNo(Top.todo)
<1> DEFINE f == [Top EXCEPT !.todo = Tail(@), !.done = @ \o ret.answers]
<1> DEFINE b == Head(Top.todo)
<1> DEFINE g == Frame(b, RETRY_ATTEMPTS)
<1>1. Len(stack) = 1 /\ ret.how = "returned" /\ Top.todo # << >> /\ Push(f, g) /\ ret' = None
  BY DEF NextChunk
<1>2. Stacked(stack) /\ stack # << >> /\ stack \in Seq(Frames) /\ ret.answers \in Seq(Answers)
  <2>1. Stacked(stack) /\ stack \in Seq(Frames)
    BY DEF TypeInv, Stacked
  <2>2. stack # << >>
    <3>1. Len(stack) = 1
      BY <1>1
    <3>2. Len(<< >>) = 0
      OBVIOUS
    <3> QED
      BY <3>1, <3>2
  <2>3. ret.answers \in Seq(Answers)
    BY <1>1, RetFact DEF TypeInv, Replies
  <2> QED
    BY <2>1, <2>2, <2>3
<1>3. Top \in Frames /\ Top.at = "chunks" /\ FrameOK(Top, Len(stack)) /\ Top.done \in Seq(Answers)
  BY <1>1, <1>2, TopFact
<1>4. k \in 1..Count /\ Top.todo = SubSeq(C, k + 1, Count) /\ End(k) \in 1..Len(Body)
      /\ Aligns(Top.done \o ret.answers, SubSeq(Body, 1, End(k)))
  BY <1>1, <1>2, <1>3, ChunkDone
<1>5. C \in Seq(Seq(Command)) /\ Len(C) = Count /\ Count \in Nat
  BY ChunksType
<1>6. Top.todo \in Seq(Seq(Command))
  BY <1>3 DEF FrameOK
<1>7. b \in Seq(Command) /\ Tail(Top.todo) \in Seq(Seq(Command)) /\ Top.done \o ret.answers \in Seq(Answers)
      /\ Len(Tail(Top.todo)) = Len(Top.todo) - 1
  BY <1>1, <1>2, <1>3, <1>6
<1>8. f \in Frames /\ f.at = "chunks" /\ f.todo = Tail(Top.todo) /\ f.done = Top.done \o ret.answers
  BY <1>3, <1>7 DEF Frames
<1>9. k < Count
  <2> HIDE DEF C, k
  <2>1. CASE k = Count
    <3>1. k + 1 \in Int /\ Count \in Int /\ Count < k + 1
      BY <1>5, <2>1
    <3>2. SubSeq(C, k + 1, Count) = << >>
      BY <3>1, SubSeqEmpty
    <3> QED
      BY <1>1, <1>4, <3>2
  <2> QED
    BY <1>4, <1>5, <2>1
<1>10. b = C[k + 1] /\ f.todo = SubSeq(C, (k + 1) + 1, Count)
  <2> HIDE DEF C, k, f
  <2>1. k + 1 \in 1..Len(C) /\ Count \in (k + 1)..Len(C)
    BY <1>4, <1>5, <1>9
  <2>2. Head(SubSeq(C, k + 1, Count)) = C[k + 1] /\ Tail(SubSeq(C, k + 1, Count)) = SubSeq(C, (k + 1) + 1, Count)
    BY <1>5, <2>1, HeadTailOfSubSeq
  <2> QED
    BY <1>4, <1>8, <2>2
<1>11. ChunkNo(f.todo) = k + 1
  <2>1. ChunkNo(f.todo) = Len(C) - Len(Tail(Top.todo)) /\ k = Len(C) - Len(Top.todo)
    BY <1>8 DEF ChunkNo
  <2>2. Len(C) \in Int /\ Len(Top.todo) \in Int
    BY <1>5, <1>6
  <2> DEFINE y == Len(Top.todo)
  <2> DEFINE z == Len(Tail(Top.todo))
  <2> DEFINE n == Len(C)
  <2>3. ChunkNo(f.todo) = n - z /\ k = n - y /\ z = y - 1 /\ n \in Int /\ y \in Int
    BY <1>7, <2>1, <2>2
  <2> HIDE DEF C, k, f, y, z, n
  <2> QED
    BY <2>3
<1>12. End(k) = k * MAX_CHUNK_ITEMS /\ (k + 1) - 1 = k /\ k + 1 \in 1..Count
  <2>1. End(k) = k * MAX_CHUNK_ITEMS
    BY <1>4, <1>9, ChunkFact
  <2> HIDE DEF k
  <2> QED
    BY <1>4, <1>5, <1>9, <2>1
<1> HIDE DEF k, f
<1>13. Got(f)
  BY <1>4, <1>5, <1>8, <1>10, <1>11, <1>12 DEF Got, OneByOne
<1>14. Expected(f) = b
  BY <1>8, <1>10, <1>11 DEF Expected
<1> HIDE DEF b
<1>15. g \in Frames /\ Got(g) /\ CalledWith(g, Expected(f))
  <2>1. RETRY_ATTEMPTS \in 1..RETRY_ATTEMPTS
    BY BodyType
  <2> QED
    BY <1>7, <1>14, <2>1, NewFrame, NewFrameGot
<1>16. Tail(stack) = << >>
  <2>1. ~(Len(stack) > 1)
    <3>1. Len(stack) = 1
      BY <1>1
    <3> QED
      BY <3>1
  <2> QED
    BY <1>2, <2>1, StackTail
<1> HIDE DEF g
<1> QED
  BY <1>1, <1>2, <1>8, <1>13, <1>15, <1>16, PushMatches

(* After the last chunk the whole batch is answered.                       *)
LEMMA FinishMatches ==
  ASSUME TypeInv, Matching(stack), RetMatches(stack, ret), Finish
  PROVE  Matches
<1>1. stack' = << >> /\ ret.how # "none" /\ stack # << >> /\ Stacked(stack) /\ Len(stack) = 1
  BY DEF Finish, TypeInv
<1>2. Matching(stack')
  BY <1>1 DEF Matching
<1>3. CASE ret.how = "raised"
  BY <1>1, <1>2, <1>3 DEF Finish, Matches, RetMatches
<1>4. CASE ret.how # "raised"
  <2> DEFINE k == ChunkNo(Top.todo)
  <2>1. ret.how = "returned" /\ Top.at = "chunks" /\ Top.todo = << >>
    BY <1>1, <1>4, RetFact, TopFact DEF TypeInv, Finish
  <2>2. Aligns(Top.done \o ret.answers, SubSeq(Body, 1, End(k)))
    BY <1>1, <2>1, ChunkDone
  <2>3. k = Count
    BY <2>1, ChunksType DEF ChunkNo
  <2>4. End(k) = Len(Body)
    <3>1. Count \in 1..Count
      BY ChunksType
    <3> QED
      BY <2>3, <3>1, ChunkFact
  <2>5. SubSeq(Body, 1, End(k)) = Body
    BY <2>4, BodyType, SubSeqFull
  <2>6. ret' = Returned(Body, Top.done \o ret.answers)
    BY <1>4 DEF Finish
  <2>7. RetMatches(stack', ret')
    BY <1>1, <2>2, <2>5, <2>6 DEF RetMatches, Returned
  <2> QED
    BY <1>2, <2>7 DEF Matches
<1> QED
  BY <1>3, <1>4

(* Nothing is answered in the beginning.                                   *)
LEMMA InitMatches == Init => Matching(stack) /\ RetMatches(stack, ret)
<1> SUFFICES ASSUME Init PROVE Matching(stack) /\ RetMatches(stack, ret)
  OBVIOUS
<1> DEFINE C == Chunks(Body)
<1> DEFINE g == Frame(C[1], RETRY_ATTEMPTS)
<1> DEFINE h == Frame(Body, RETRY_ATTEMPTS)
<1> DEFINE f == [h EXCEPT !.at = "chunks", !.todo = Tail(C)]
<1>1. stack = <<g, f>> /\ ret = None
  BY DEF Init
<1>2. C \in Seq(Seq(Command)) /\ Len(C) = Count /\ Count \in Nat \ {0} /\ C[1] \in Seq(Command) /\ C # << >>
  BY ChunksType
<1>3. RETRY_ATTEMPTS \in 1..RETRY_ATTEMPTS /\ Body \in Seq(Command)
  BY BodyType
<1>4. g \in Frames /\ Got(g) /\ CalledWith(g, C[1]) /\ h \in Frames
  BY <1>2, <1>3, NewFrame, NewFrameGot
<1>5. h.done = << >>
  BY DEF Frame
<1> HIDE DEF h, g
<1>6. Tail(C) \in Seq(Seq(Command)) /\ Len(Tail(C)) = Count - 1 /\ Tail(C) = SubSeq(C, 2, Count)
  BY <1>2, TailIsSubSeq
<1>7. f \in Frames /\ f.at = "chunks" /\ f.todo = Tail(C) /\ f.done = << >>
  BY <1>4, <1>5, <1>6 DEF Frames, Places
<1>8. ChunkNo(f.todo) = 1
  BY <1>2, <1>6, <1>7 DEF ChunkNo
<1> HIDE DEF f, C
<1>9. Aligns(f.done, SubSeq(Body, 1, (1 - 1) * MAX_CHUNK_ITEMS))
  <2>1. (1 - 1) * MAX_CHUNK_ITEMS = 0
    BY BodyType
  <2>2. SubSeq(Body, 1, 0) = << >>
    BY SubSeqEmpty
  <2> QED
    BY <1>7, <2>1, <2>2 DEF Aligns
<1>10. Got(f)
  <2>1. 1 \in 1..Len(Chunks(Body))
    BY <1>2 DEF C
  <2>2. f.todo = SubSeq(Chunks(Body), 1 + 1, Len(Chunks(Body)))
    BY <1>2, <1>6, <1>7 DEF C
  <2> QED
    BY <1>7, <1>8, <1>9, <2>1, <2>2 DEF Got, OneByOne
<1>11. Expected(f) = C[1]
  BY <1>7, <1>8 DEF Expected, C
<1>12. Matching(stack)
  <2>1. Len(stack) = 2 /\ stack[1] = g /\ stack[2] = f
    BY <1>1
  <2>2. CalledWith(stack[1], Expected(stack[1 + 1])) /\ Got(stack[1]) /\ Got(stack[2])
    BY <1>4, <1>10, <1>11, <2>1
  <2> QED
    BY <2>1, <2>2 DEF Matching
<1> QED
  BY <1>1, <1>12 DEF RetMatches, None

(* A frame that has not sent anything yet has all the commands.            *)
LEMMA CalledWhole ==
  ASSUME TypeInv, Matching(stack), stack # << >>, Top.at \in {"enter", "post"}
  PROVE  /\ Called(Top.body) /\ Top.done = << >> /\ ~Top.popped /\ Top.body \in Seq(Command) /\ Top \in Frames
         /\ DOMAIN Top.taken \subseteq DOMAIN Top.body
         /\ \A i \in DOMAIN Top.taken : i \in 1..Len(Top.body) /\ Top.taken[i].to = Top.body[i]
<1> DEFINE o == Expected(Tail(stack)[1])
<1>1. Called(o) /\ Got(Top)
  BY CalledFact
<1>2. Top \in Frames /\ FrameOK(Top, Len(stack)) /\ Top.body \in Seq(Command)
  BY TopFact DEF TypeInv
<1>3. CalledWith(Top, o)
  BY <1>1 DEF Called
<1> HIDE DEF o
<1>4. ~Top.popped /\ Top.body = o
  BY <1>2, <1>3 DEF FrameOK, CalledWith
<1>5. \A i \in DOMAIN Top.taken : i \in 1..Len(Top.body) /\ Top.taken[i].to = Top.body[i]
  BY <1>3, <1>4 DEF CalledWith
<1>6. Top.done = << >>
  BY <1>1 DEF Got
<1>7. DOMAIN Top.body = 1..Len(Top.body)
  BY <1>2
<1> QED
  BY <1>1, <1>2, <1>4, <1>5, <1>6, <1>7

LEMMA RaiseMatches ==
  ASSUME NEW o, Called(o), NEW exc, Raise(exc)
  PROVE  Matches
<1>1. Top.body \in Seq(Command)
  BY TopFact DEF Called
<1> QED
  BY <1>1, RaisedMatches DEF Raise

LEMMA EnterOnlyMatches ==
  ASSUME TypeInv, Matching(stack), EnterOnly
  PROVE  Matches
<1> DEFINE b == Top.body
<1>1. stack # << >> /\ Top.at \in {"enter", "post"} /\ Alternative(b)
  BY DEF EnterOnly
<1>2. Called(b) /\ b \in Seq(Command)
  BY <1>1, CalledWhole
<1>3. DOMAIN b = 1..Len(b) /\ Len(b) \in Nat
  BY <1>2
<1>4. CASE \E exc \in {"Reolink", "Other"} : Raise(exc)
  BY <1>2, <1>4, RaiseMatches
<1>5. ASSUME NEW flags \in [DOMAIN b -> {"yes", "no"}],
             Return([i \in DOMAIN b |-> [Answer(b[i], "only") EXCEPT !.flag = flags[i]]])
      PROVE  Matches
  <2> DEFINE a == [i \in DOMAIN b |-> [Answer(b[i], "only") EXCEPT !.flag = flags[i]]]
  <2>1. ASSUME NEW i \in DOMAIN b PROVE a[i].to = b[i]
    <3>1. b[i] \in Command /\ "only" \in Code /\ flags[i] \in {"yes", "no"}
      BY <1>2, <1>3 DEF Code
    <3>2. a[i] = [Answer(b[i], "only") EXCEPT !.flag = flags[i]]
      OBVIOUS
    <3> HIDE DEF a, b
    <3>3. [Answer(b[i], "only") EXCEPT !.flag = flags[i]].to = b[i]
      BY DEF Answer
    <3> QED
      BY <3>2, <3>3
  <2>2. Return(a)
    BY <1>5
  <2>3. DOMAIN a = 1..Len(b)
    BY <1>3
  <2> HIDE DEF a, b
  <2>4. Len(a) = Len(b)
    BY <1>3, <2>3
  <2>5. Aligns(a, b)
    BY <1>3, <2>1, <2>4 DEF Aligns
  <2> QED
    BY <1>2, <2>2, <2>5, ReturnMatches
<1> HIDE DEF b
<1> QED
  BY <1>1, <1>4, <1>5 DEF Alternative

LEMMA EnterFailedMatches ==
  ASSUME TypeInv, Matching(stack), EnterFailed
  PROVE  Matches
<1>1. stack # << >> /\ Top.at \in {"enter", "post"}
  BY DEF EnterFailed
<1>2. PICK exc \in {"Reolink", "Timeout"} : Raise(exc)
  BY DEF EnterFailed
<1> QED
  BY <1>1, <1>2, CalledWhole, RaiseMatches

LEMMA NothingPicked == ASSUME NEW b \in Seq(Command) PROVE Aligns(<< >>, Picked(b, {}))
<1>1. {} \in SUBSET (DOMAIN b) /\ Cardinality({}) = 0
  BY FS_EmptySet
<1>2. Len(Picked(b, {})) = 0
  BY <1>1, PickedFact
<1> HIDE DEF Picked
<1> QED
  BY <1>2 DEF Aligns

(* The commands answered over Baichuan, and the broken ones, keep their    *)
(* index.                                                                  *)
LEMMA EnterMatches ==
  ASSUME TypeInv, Matching(stack), Enter
  PROVE  Matches
<1> DEFINE b == Top.body
<1> DEFINE viaBc == {i \in DOMAIN b : Name[b[i]] \in baichuan_cmds}
<1> DEFINE broken == {i \in DOMAIN b : Name[b[i]] \in broken_cmds} \ viaBc
<1>1. stack # << >> /\ Top.at = "enter" /\ ret = None
  BY RetFact DEF Enter, TypeInv
<1>2. Called(b) /\ b \in Seq(Command) /\ Top \in Frames /\ ~Top.popped /\ Top.done = << >>
  BY <1>1, CalledWhole
<1>3. ASSUME NEW done \in SUBSET viaBc,
             LET taken == OutOf(b, done, broken)
             IN  IF DOMAIN taken = DOMAIN b THEN Return(Inserted(<< >>, taken))
                 ELSE Replace([Top EXCEPT !.at = "post", !.taken = taken]) /\ UNCHANGED ret
      PROVE  Matches
  <2> DEFINE taken == OutOf(b, done, broken)
  <2>1. done \in SUBSET (DOMAIN b) /\ broken \in SUBSET (DOMAIN b) /\ DOMAIN b = 1..Len(b)
    BY <1>2
  <2>2. IF DOMAIN taken = DOMAIN b THEN Return(Inserted(<< >>, taken))
        ELSE Replace([Top EXCEPT !.at = "post", !.taken = taken]) /\ UNCHANGED ret
    BY <1>3
  <2> HIDE DEF viaBc, broken
  <2>3. taken \in Taken /\ DOMAIN taken \subseteq DOMAIN b /\ \A i \in DOMAIN taken : taken[i].to = b[i]
    <3> HIDE DEF b
    <3> QED
      BY <1>2, <2>1, TakenOut
  <2> HIDE DEF taken
  <2>4. \A i \in DOMAIN taken : i \in 1..Len(b) /\ taken[i].to = b[i]
    BY <2>1, <2>3
  <2>5. CASE DOMAIN taken = DOMAIN b /\ Return(Inserted(<< >>, taken))
    <3>1. << >> \in Seq(Answers)
      OBVIOUS
    <3>2. DOMAIN b \ DOMAIN taken = {}
      BY <2>5
    <3>3. Aligns(<< >>, Picked(b, DOMAIN b \ DOMAIN taken))
      BY <1>2, <3>2, NothingPicked
    <3> HIDE DEF b
    <3>4. Aligns(Inserted(<< >>, taken), b)
      BY <1>2, <2>3, <2>4, <3>1, <3>3, InsertedAligns
    <3> QED
      BY <1>2, <2>5, <3>4, ReturnMatches
  <2>6. CASE Replace([Top EXCEPT !.at = "post", !.taken = taken]) /\ UNCHANGED ret
    <3> DEFINE f == [Top EXCEPT !.at = "post", !.taken = taken]
    <3>1. f \in Frames /\ f.at = "post" /\ f.body = b /\ f.popped = Top.popped /\ f.taken = taken
          /\ f.done = Top.done
      BY <1>2, <2>3 DEF Frames, Places
    <3>2. Replace(f) /\ ret' = None
      BY <1>1, <2>6
    <3> HIDE DEF f, b
    <3>3. Got(f)
      BY <1>2, <3>1 DEF Got, OneByOne
    <3>4. CalledWith(f, b)
      BY <1>2, <2>4, <3>1 DEF CalledWith
    <3> QED
      BY <1>2, <3>1, <3>2, <3>3, <3>4, ReplaceMatches
  <2> QED
    BY <2>2, <2>5, <2>6
<1>4. CASE Raise("Other")
  BY <1>2, <1>4, RaiseMatches
<1> HIDE DEF b, viaBc, broken
<1>5. \/ \E done \in SUBSET viaBc :
            LET taken == OutOf(b, done, broken)
            IN  IF DOMAIN taken = DOMAIN b THEN Return(Inserted(<< >>, taken))
                ELSE Replace([Top EXCEPT !.at = "post", !.taken = taken]) /\ UNCHANGED ret
      \/ Raise("Other")
  BY DEF Enter, OutOf, b, viaBc, broken
<1> QED
  BY <1>3, <1>4, <1>5

LEMMA PostExceptMatches ==
  ASSUME TypeInv, Matching(stack), Posting, NEW exc, Except(Top.body, exc), ~cut'
  PROVE  Matches
<1>1. stack # << >> /\ Top.at \in {"enter", "post"}
  BY DEF Posting
<1> QED
  BY <1>1, CalledWhole, ExceptMatches

LEMMA PostResendMatches ==
  ASSUME TypeInv, Matching(stack), Posting, Top.retry > 0, Resend(Top.body), ~cut'
  PROVE  Matches
<1>1. stack # << >> /\ Top.at \in {"enter", "post"}
  BY DEF Posting
<1> QED
  BY <1>1, CalledWhole, ResendMatches

LEMMA UnansweredMatches ==
  ASSUME TypeInv, Matching(stack), Unanswered, ~cut'
  PROVE  Matches
<1>1. Posting
  BY DEF Unanswered
<1>2. CASE \E exc \in {"Timeout", "Runtime"} : Except(Top.body, exc)
  BY <1>1, <1>2, PostExceptMatches
<1>3. CASE Top.retry > 0 /\ Resend(Top.body)
  BY <1>1, <1>3, PostResendMatches
<1>4. CASE Except(Top.body, "Reolink")
  BY <1>1, <1>4, PostExceptMatches
<1> QED
  BY <1>2, <1>3, <1>4 DEF Unanswered

LEMMA RefusedMatches ==
  ASSUME TypeInv, Matching(stack), Refused, ~cut'
  PROVE  Matches
BY PostExceptMatches DEF Refused

(* The answers to the whole body are waited for.                           *)
LEMMA SendWholeMatches ==
  ASSUME NEW o, Called(o), ret = None, NEW f \in Frames, CalledWith(f, o), f.retry > 0, SendWhole(f)
  PROVE  Matches
<1> DEFINE h == [f EXCEPT !.at = "whole"]
<1> DEFINE g == Frame(f.body, f.retry)
<1>1. f.body \in Seq(Command) /\ f.retry \in 1..RETRY_ATTEMPTS
  <2>1. f.retry \in 0..(RETRY_ATTEMPTS - 1) /\ RETRY_ATTEMPTS \in Nat
    BY BodyType DEF Frames
  <2>2. f.retry \in 1..RETRY_ATTEMPTS
    BY <2>1
  <2> QED
    BY <2>2 DEF Frames
<1>2. h \in Frames /\ h.at = "whole" /\ h.body = f.body /\ h.popped = f.popped /\ h.taken = f.taken
  BY DEF Frames, Places
<1>3. Push(h, g) /\ ret' = None
  BY DEF SendWhole
<1>4. g \in Frames /\ Got(g) /\ CalledWith(g, f.body)
  BY <1>1, NewFrame, NewFrameGot
<1> HIDE DEF h, g
<1>5. Got(h)
  BY <1>2 DEF Got, OneByOne
<1>6. CalledWith(h, o)
  BY <1>2 DEF CalledWith
<1>7. Expected(h) = f.body
  BY <1>2 DEF Expected
<1>8. stack \in Seq(Frames) /\ stack # << >> /\ Matching(stack) /\ o = Expected(Tail(stack)[1])
  BY DEF Called, Stacked
<1> QED
  BY <1>2, <1>3, <1>4, <1>5, <1>6, <1>7, <1>8, PushMatches

LEMMA GarbledMatches ==
  ASSUME TypeInv, Matching(stack), Garbled, ~cut'
  PROVE  Matches
<1>1. Posting
  BY DEF Garbled
<1>2. CASE Top.retry > 0 /\ SendWhole(Top)
  <2>1. stack # << >> /\ Top.at \in {"enter", "post"} /\ ret = None
    BY <1>1, PostFact
  <2>2. Called(Top.body) /\ Top \in Frames
    BY <2>1, CalledWhole
  <2>3. CalledWith(Top, Top.body)
    BY <2>1, CalledWhole DEF CalledWith
  <2> QED
    BY <1>2, <2>1, <2>2, <2>3, SendWholeMatches
<1>3. CASE Except(Top.body, "Reolink")
  BY <1>1, <1>3, PostExceptMatches
<1> QED
  BY <1>2, <1>3 DEF Garbled

(* A frame that will send all of its commands one by one has got nothing.  *)
LEMMA StartGot ==
  ASSUME NEW f \in Frames, f.at \in OneByOne, f.todo = f.body, f.done = << >>
  PROVE  Got(f)
<1>1. f.body \in Seq(Command)
  BY DEF Frames
<1>2. f.at \notin {"chunks", "enter", "post", "again"}
  BY DEF OneByOne
<1>3. ~(Len(f.todo) < Len(f.body))
  <2>1. Len(f.todo) = Len(f.body) /\ Len(f.body) \in Nat
    BY <1>1
  <2> QED
    BY <2>1
<1>4. f.todo = SubSeq(f.body, Len(f.body) - Len(f.todo) + 1, Len(f.body))
  <2>1. Len(f.body) - Len(f.todo) + 1 = 1
    BY <1>1
  <2> QED
    BY <1>1, <2>1, SubSeqFull
<1> QED
  BY <1>2, <1>3, <1>4 DEF Got

LEMMA UndecodableMatches ==
  ASSUME TypeInv, Matching(stack), Undecodable, ~cut'
  PROVE  Matches
<1>1. Posting
  BY DEF Undecodable
<1>2. stack # << >> /\ Top.at \in {"enter", "post"} /\ ret = None
  BY <1>1, PostFact
<1>3. Called(Top.body) /\ Top \in Frames /\ ~Top.popped /\ Top.done = << >> /\ Top.body \in Seq(Command)
  BY <1>2, CalledWhole
<1>4. CASE Except(Top.body, "Reolink")
  BY <1>1, <1>4, PostExceptMatches
<1>5. CASE Replace([Top EXCEPT !.at = "apart", !.todo = Top.body]) /\ UNCHANGED <<ret, cut>>
  <2> DEFINE f == [Top EXCEPT !.at = "apart", !.todo = Top.body]
  <2>1. f \in Frames /\ f.at = "apart" /\ f.todo = f.body /\ f.body = Top.body /\ f.taken = Top.taken
        /\ f.popped = Top.popped /\ f.done = << >>
    BY <1>3 DEF Frames, Places
  <2>2. Replace(f) /\ ret' = None
    BY <1>2, <1>5
  <2> HIDE DEF f
  <2>3. Got(f)
    BY <2>1, StartGot DEF OneByOne
  <2>4. CalledWith(f, Top.body)
    BY <1>2, <2>1, CalledWhole DEF CalledWith
  <2> QED
    BY <1>3, <2>1, <2>2, <2>3, <2>4, ReplaceMatches
<1>6. CASE Top.retry # 0 /\ Resend(Top.body)
  <2>1. Top.retry > 0
    <3>1. Top.retry \in 0..(RETRY_ATTEMPTS - 1)
      BY <1>2, TopFact DEF TypeInv
    <3> QED
      BY <1>6, <3>1
  <2> QED
    BY <1>1, <1>6, <2>1, PostResendMatches
<1> QED
  BY <1>4, <1>5, <1>6 DEF Undecodable

(* The commands taken out are taken out of the body too.                   *)
LEMMA MismatchMatches ==
  ASSUME TypeInv, Matching(stack), Mismatch, ~cut'
  PROVE  Matches
<1>1. Posting
  BY DEF Mismatch
<1>2. stack # << >> /\ Top.at \in {"enter", "post"} /\ ret = None
      /\ Filtered(Top) = Picked(Top.body, DOMAIN Top.body \ DOMAIN Top.taken) /\ Filtered(Top) \in Seq(Command)
  BY <1>1, PostFact
<1>3. Called(Top.body) /\ Top \in Frames /\ Top.done = << >>
      /\ \A i \in DOMAIN Top.taken : i \in 1..Len(Top.body) /\ Top.taken[i].to = Top.body[i]
  BY <1>2, CalledWhole
<1>4. ASSUME NEW global \in BOOLEAN,
             LET f == [Top EXCEPT !.body = Filtered(Top), !.popped = TRUE, !.global = global]
             IN  CASE Top.retry = 0 -> Except(Top.body, "Reolink")
                   [] Top.retry > 0 /\ (global \/ Top.retry = 1) ->
                         Replace([f EXCEPT !.at = "separate", !.todo = f.body]) /\ UNCHANGED <<ret, cut>>
                   [] OTHER -> SendWhole(f) /\ UNCHANGED cut
      PROVE  Matches
  <2> DEFINE f == [Top EXCEPT !.body = Filtered(Top), !.popped = TRUE, !.global = global]
  <2>1. f \in Frames /\ f.body = Filtered(Top) /\ f.popped = TRUE /\ f.retry = Top.retry /\ f.taken = Top.taken
        /\ f.done = Top.done
    BY <1>2, <1>3 DEF Frames
  <2>2. CASE Except(Top.body, "Reolink")
    BY <1>1, <2>2, PostExceptMatches
  <2>3. CASE Replace([f EXCEPT !.at = "separate", !.todo = f.body]) /\ UNCHANGED <<ret, cut>>
    <3> DEFINE h == [f EXCEPT !.at = "separate", !.todo = f.body]
    <3> HIDE DEF f
    <3>1. h \in Frames /\ h.at = "separate" /\ h.todo = h.body /\ h.body = f.body /\ h.taken = f.taken
          /\ h.popped = f.popped /\ h.done = f.done
      BY <1>2, <2>1 DEF Frames, Places
    <3>2. Replace(h) /\ ret' = None
      BY <1>2, <2>3
    <3> HIDE DEF h
    <3>3. Got(h)
      BY <1>3, <2>1, <3>1, StartGot DEF OneByOne
    <3>4. CalledWith(h, Top.body)
      BY <1>2, <1>3, <2>1, <3>1 DEF CalledWith
    <3> QED
      BY <1>3, <3>1, <3>2, <3>3, <3>4, ReplaceMatches
  <2>4. CASE Top.retry # 0 /\ SendWhole(f)
    <3> HIDE DEF f
    <3>1. f.retry > 0
      <4>1. Top.retry \in 0..(RETRY_ATTEMPTS - 1)
        BY <1>2, TopFact DEF TypeInv
      <4> QED
        BY <2>1, <2>4, <4>1
    <3>2. CalledWith(f, Top.body)
      BY <1>2, <1>3, <2>1 DEF CalledWith
    <3> QED
      BY <1>2, <1>3, <2>1, <2>4, <3>1, <3>2, SendWholeMatches
  <2> HIDE DEF f
  <2> QED
    BY <1>4, <2>2, <2>3, <2>4 DEF f
<1> QED
  BY <1>4 DEF Mismatch

(* One answer for each command that was sent: with the placeholders, one   *)
(* for each that the frame was called with, and those that are sent again  *)
(* keep their index.                                                       *)
LEMMA MatchedMatches ==
  ASSUME TypeInv, Matching(stack), Matched, ~cut'
  PROVE  Matches
<1> DEFINE sent == Filtered(Top)
<1> DEFINE b == Top.body
<1> DEFINE n == Len(b)
<1>1. Posting
  BY DEF Matched
<1>2. stack # << >> /\ Top.at \in {"enter", "post"} /\ ret = None /\ stack \in Seq(Frames)
      /\ sent = Picked(b, DOMAIN b \ DOMAIN Top.taken) /\ sent \in Seq(Command)
  BY <1>1, PostFact DEF Stacked
<1>3. Called(b) /\ Top \in Frames /\ ~Top.popped /\ b \in Seq(Command)
      /\ \A i \in DOMAIN Top.taken : i \in 1..n /\ Top.taken[i].to = b[i]
  BY <1>2, CalledWhole
<1>4. n \in Nat /\ DOMAIN b = 1..n
  BY <1>3
<1>5. Top.taken \in Taken /\ Top.retry \in 0..(RETRY_ATTEMPTS - 1)
  BY <1>3 DEF Frames
<1> HIDE DEF sent, b, n
<1>6. ASSUME NEW codes \in [DOMAIN sent -> HttpCode]
      PROVE  LET answers == Inserted([k \in DOMAIN sent |-> Answer(sent[k], codes[k])], Top.taken)
             IN  answers \in [1..n -> Answers] /\ \A i \in 1..n : answers[i].to = b[i]
  <2> DEFINE a == [k \in DOMAIN sent |-> Answer(sent[k], codes[k])]
  <2> DEFINE answers == Inserted(a, Top.taken)
  <2>1. DOMAIN sent = 1..Len(sent) /\ Len(sent) \in Nat
    BY <1>2
  <2>2. ASSUME NEW k \in DOMAIN sent PROVE a[k] \in Answers /\ a[k].to = sent[k]
    <3>1. sent[k] \in Command /\ codes[k] \in Code
      <4>1. codes[k] \in HttpCode
        OBVIOUS
      <4>2. sent[k] \in Command
        BY <1>2
      <4> QED
        BY <4>1, <4>2 DEF Code
    <3>2. a[k] = Answer(sent[k], codes[k])
      BY <2>1
    <3> HIDE DEF a
    <3>3. Answer(sent[k], codes[k]) \in Answers
      BY <3>1, AnswerType
    <3>4. Answer(sent[k], codes[k]).to = sent[k]
      BY DEF Answer
    <3> QED
      BY <3>2, <3>3, <3>4
  <2>3. a \in [1..Len(sent) -> Answers]
    BY <2>1, <2>2
  <2> HIDE DEF a
  <2>4. a \in Seq(Answers) /\ Len(a) = Len(sent)
    BY <2>1, <2>3
  <2>5. Aligns(a, sent)
    BY <2>2, <2>4 DEF Aligns
  <2>6. Aligns(a, Picked(b, DOMAIN b \ DOMAIN Top.taken))
    BY <1>2, <2>5
  <2>7. Aligns(answers, b)
    BY <1>3, <1>5, <2>4, <2>6, InsertedAligns DEF n
  <2>8. answers \in Seq(Answers)
    BY <1>5, <2>4, InsertedType
  <2> HIDE DEF answers
  <2>9. answers \in [1..n -> Answers] /\ \A i \in 1..n : answers[i].to = b[i]
    <3>1. Len(answers) = n /\ \A i \in 1..n : answers[i].to = b[i]
      BY <2>7 DEF Aligns, n
    <3> QED
      BY <2>8, <3>1
  <2> QED
    BY <2>9 DEF answers, a
<1>7. ASSUME NEW flagged \in Seq(Answers), Aligns(flagged, b), NEW asleep \in SUBSET (1..n), Top.retry # 0, ret' = ret,
             Push([Top EXCEPT !.at = "again", !.done = flagged, !.idxs = InOrder(asleep)],
                  Frame(Picked(b, asleep), Top.retry))
      PROVE  Matches
  <2> DEFINE p == Picked(b, asleep)
  <2> DEFINE f == [Top EXCEPT !.at = "again", !.done = flagged, !.idxs = InOrder(asleep)]
  <2> DEFINE g == Frame(p, Top.retry)
  <2>1. asleep \in SUBSET (DOMAIN b)
    BY <1>4
  <2>2. p \in Seq(Command) /\ Rising(InOrder(asleep), asleep)
    BY <1>3, <2>1, PickedFact
  <2>3. InOrder(asleep) \in [1..Cardinality(asleep) -> asleep] /\ Cardinality(asleep) \in Nat
    BY <2>2 DEF Rising
  <2>4. InOrder(asleep) \in Seq(Nat)
    <3>0. asleep \subseteq Nat
      BY <1>4
    <3>1. InOrder(asleep) \in [1..Cardinality(asleep) -> Nat]
      BY <2>3, <3>0
    <3> QED
      BY <2>3, <3>1
  <2>5. f \in Frames /\ f.at = "again" /\ f.body = b /\ f.popped = Top.popped /\ f.taken = Top.taken
        /\ f.done = flagged /\ f.idxs = InOrder(asleep)
    BY <1>3, <2>4 DEF Frames, Places, b
  <2>6. Top.retry \in 1..RETRY_ATTEMPTS
    BY <1>5, <1>7, BodyType
  <2>7. Push(f, g) /\ ret' = None
    BY <1>2, <1>7
  <2>8. Expected(f) = p
    <3> HIDE DEF f
    <3> QED
      BY <2>5 DEF Expected, Picked
  <2> HIDE DEF p, f
  <2>9. g \in Frames /\ Got(g) /\ CalledWith(g, p)
    BY <2>2, <2>6, NewFrame, NewFrameGot
  <2> HIDE DEF g
  <2>10. Got(f)
    <3>1. Range(f.idxs) \subseteq DOMAIN f.body
      BY <2>1, <2>3, <2>5 DEF Range
    <3> QED
      BY <1>7, <2>5, <3>1 DEF Got, OneByOne
  <2>11. CalledWith(f, b)
    BY <1>3, <2>5 DEF CalledWith, n
  <2>12. b = Expected(Tail(stack)[1]) /\ Matching(stack)
    BY <1>3 DEF Called
  <2> QED
    BY <1>2, <2>5, <2>7, <2>8, <2>9, <2>10, <2>11, <2>12, PushMatches
<1> DEFINE cmd(i) == Name[b[i]]
<1>8. ASSUME NEW codes \in [DOMAIN sent -> HttpCode],
             LET answers  == Inserted([k \in DOMAIN sent |-> Answer(sent[k], codes[k])], Top.taken)
                 rejected == {i \in DOMAIN answers : answers[i].code \in Rejected /\ b[i] \notin Offline}
                 fallback == {i \in rejected : cmd(i) \notin baichuan_cmds /\ cmd(i) \in cmd_funcs}
                 asleep   == {i \in rejected \ fallback : answers[i].code = "asleep"}
             IN  IF Top.retry = 0 THEN Return(answers) /\ UNCHANGED baichuan_cmds
                 ELSE \E done \in SUBSET fallback :
                      LET flagged == [i \in DOMAIN answers |->
                                        IF i \in fallback
                                        THEN [answers[i] EXCEPT !.flag = IF i \in done THEN "yes" ELSE "no"]
                                        ELSE answers[i]]
                      IN  /\ baichuan_cmds' = baichuan_cmds \cup {cmd(i) : i \in done}
                          /\ IF asleep = {} THEN Return(flagged)
                             ELSE /\ Push([Top EXCEPT !.at = "again", !.done = flagged, !.idxs = InOrder(asleep)],
                                          Frame(Picked(b, asleep), Top.retry))
                                  /\ UNCHANGED ret
      PROVE  Matches
  <2> DEFINE answers == Inserted([k \in DOMAIN sent |-> Answer(sent[k], codes[k])], Top.taken)
  <2> DEFINE rejected == {i \in DOMAIN answers : answers[i].code \in Rejected /\ b[i] \notin Offline}
  <2> DEFINE fallback == {i \in rejected : cmd(i) \notin baichuan_cmds /\ cmd(i) \in cmd_funcs}
  <2> DEFINE asleep == {i \in rejected \ fallback : answers[i].code = "asleep"}
  <2>1. answers \in [1..n -> Answers] /\ \A i \in 1..n : answers[i].to = b[i]
    BY <1>6
  <2>2. asleep \in SUBSET (1..n)
    BY <2>1
  <2>3. CASE Return(answers)
    <3> HIDE DEF answers
    <3>1. Len(answers) = n
      BY <1>4, <2>1
    <3>2. Aligns(answers, b)
      BY <2>1, <3>1 DEF Aligns, n
    <3> QED
      BY <1>3, <2>3, <3>2, ReturnMatches
  <2>4. ASSUME NEW done \in SUBSET fallback, Top.retry # 0,
               LET flagged == [i \in DOMAIN answers |->
                                 IF i \in fallback
                                 THEN [answers[i] EXCEPT !.flag = IF i \in done THEN "yes" ELSE "no"]
                                 ELSE answers[i]]
               IN  IF asleep = {} THEN Return(flagged)
                   ELSE /\ Push([Top EXCEPT !.at = "again", !.done = flagged, !.idxs = InOrder(asleep)],
                                Frame(Picked(b, asleep), Top.retry))
                        /\ UNCHANGED ret
        PROVE  Matches
    <3> DEFINE flagged == [i \in DOMAIN answers |->
                            IF i \in fallback
                            THEN [answers[i] EXCEPT !.flag = IF i \in done THEN "yes" ELSE "no"]
                            ELSE answers[i]]
    <3> HIDE DEF fallback, asleep, answers
    <3>1. flagged \in Seq(Answers) /\ Aligns(flagged, b)
      <4>1. ASSUME NEW i \in 1..n PROVE flagged[i] \in Answers /\ flagged[i].to = b[i]
        <5>1. answers[i] \in Answers /\ i \in DOMAIN answers /\ answers[i].to = b[i]
          BY <2>1
        <5> DEFINE w == IF i \in done THEN "yes" ELSE "no"
        <5>2. flagged[i] = [answers[i] EXCEPT !.flag = w] \/ flagged[i] = answers[i]
          BY <5>1
        <5>3. w \in {"none", "yes", "no"}
          OBVIOUS
        <5> HIDE DEF flagged, w
        <5>4. [answers[i] EXCEPT !.flag = w] \in Answers /\ [answers[i] EXCEPT !.flag = w].to = b[i]
          BY <5>1, <5>3 DEF Answers
        <5> QED
          BY <5>1, <5>2, <5>4
      <4>2. flagged \in [1..n -> Answers]
        BY <2>1, <4>1
      <4> HIDE DEF flagged
      <4>3. flagged \in Seq(Answers) /\ Len(flagged) = n
        BY <1>4, <4>2
      <4>4. Aligns(flagged, b)
        BY <4>1, <4>3 DEF Aligns, n
      <4> QED
        BY <4>3, <4>4
    <3>2. CASE Return(flagged)
      <4> HIDE DEF flagged
      <4> QED
        BY <1>3, <3>1, <3>2, ReturnMatches
    <3>3. CASE Push([Top EXCEPT !.at = "again", !.done = flagged, !.idxs = InOrder(asleep)],
                    Frame(Picked(b, asleep), Top.retry)) /\ UNCHANGED ret
      <4> HIDE DEF flagged
      <4> QED
        BY <1>7, <2>2, <2>4, <3>1, <3>3
    <3> QED
      BY <2>4, <3>2, <3>3
  <2> HIDE DEF fallback, asleep, answers
  <2> QED
    BY <1>8, <2>3, <2>4 DEF fallback, asleep, answers
<1> QED
  BY <1>8 DEF Matched, sent, b

(* A frame that waits, and what came.                                      *)
LEMMA Waiting ==
  ASSUME TypeInv, Matching(stack), RetMatches(stack, ret), ret.how # "none", stack # << >>, Top.at # "chunks"
  PROVE  LET o == Expected(Tail(stack)[1])
         IN  /\ Called(o) /\ o \in Seq(Command) /\ Got(Top) /\ Top \in Frames /\ CalledWith(Top, o)
             /\ Top.body \in Seq(Command) /\ FrameOK(Top, Len(stack)) /\ Waits(Top)
             /\ ret.how # "raised" => ret.answers \in Seq(Answers) /\ Aligns(ret.answers, Expected(Top))
             /\ ret.how = "raised" => ret.body \in Seq(Command) /\ Shrunk(ret.body, Expected(Top))
<1> DEFINE o == Expected(Tail(stack)[1])
<1>1. Called(o) /\ Got(Top)
  BY CalledFact
<1>2. o \in Seq(Command) /\ CalledWith(Top, o)
  BY <1>1 DEF Called
<1> HIDE DEF o
<1>3. Top \in Frames /\ Top.body \in Seq(Command) /\ FrameOK(Top, Len(stack)) /\ Top = stack[1]
  BY TopFact DEF TypeInv
<1>4. Waits(Top)
  BY TakeUp
<1>5. ASSUME ret.how # "raised" PROVE ret.answers \in Seq(Answers) /\ Aligns(ret.answers, Expected(Top))
  <2>1. ret.answers \in Seq(Answers) /\ ret.how = "returned"
    BY <1>5, TakeUp
  <2> QED
    BY <1>3, <2>1 DEF RetMatches
<1>6. ASSUME ret.how = "raised" PROVE ret.body \in Seq(Command) /\ Shrunk(ret.body, Expected(Top))
  <2>1. ret.body \in Seq(Command)
    BY <1>6, TakeUp
  <2> QED
    BY <1>3, <1>6, <2>1 DEF RetMatches
<1> QED
  BY <1>1, <1>2, <1>3, <1>4, <1>5, <1>6 DEF o

(* The answers to the whole body, with the placeholders if it had lost     *)
(* commands.                                                               *)
LEMMA WholeMatches ==
  ASSUME TypeInv, Matching(stack), RetMatches(stack, ret), Whole, ~cut'
  PROVE  Matches
<1> DEFINE o == Expected(Tail(stack)[1])
<1>1. ret.how # "none" /\ stack # << >> /\ Top.at = "whole" /\ Top.at # "chunks"
  BY DEF Whole
<1>2. Called(o) /\ o \in Seq(Command) /\ Top \in Frames /\ CalledWith(Top, o) /\ Top.body \in Seq(Command)
  BY <1>1, Waiting
<1>3. Expected(Top) = Top.body
  BY <1>1 DEF Expected
<1>4. CASE ret.how = "raised"
  <2>1. ret.body \in Seq(Command) /\ Shrunk(ret.body, Top.body)
    BY <1>1, <1>3, <1>4, Waiting
  <2>2. Except(ret.body, ret.exc)
    BY <1>4 DEF Whole
  <2>3. ret.body = Top.body \/ Len(ret.body) < Len(Top.body)
    BY <2>1 DEF Shrunk
  <2> HIDE DEF o
  <2> QED
    BY <1>2, <2>1, <2>2, <2>3, ExceptMatches
<1>5. CASE ret.how # "raised"
  <2>1. ret.answers \in Seq(Answers) /\ Aligns(ret.answers, Top.body)
    BY <1>1, <1>3, <1>5, Waiting
  <2>2. Return(IF Top.popped THEN Inserted(ret.answers, Top.taken) ELSE ret.answers)
    BY <1>5 DEF Whole
  <2> HIDE DEF o
  <2>3. IF Top.popped THEN Aligns(Inserted(ret.answers, Top.taken), o) ELSE Aligns(ret.answers, o)
    BY <1>2, <2>1, Restored
  <2>4. CASE Top.popped
    <3>1. Return(Inserted(ret.answers, Top.taken)) /\ Aligns(Inserted(ret.answers, Top.taken), o)
      BY <2>2, <2>3, <2>4
    <3> QED
      BY <1>2, <3>1, ReturnMatches
  <2>5. CASE ~Top.popped
    <3>1. Return(ret.answers) /\ Aligns(ret.answers, o)
      BY <2>2, <2>3, <2>5
    <3> QED
      BY <1>2, <3>1, ReturnMatches
  <2> QED
    BY <2>4, <2>5
<1> QED
  BY <1>4, <1>5

(* The answers to the commands that were sent again replace the first      *)
(* ones.                                                                   *)
LEMMA AgainMatches ==
  ASSUME TypeInv, Matching(stack), RetMatches(stack, ret), Again, ~cut'
  PROVE  Matches
<1> DEFINE o == Expected(Tail(stack)[1])
<1> DEFINE b == Top.body
<1>1. ret.how # "none" /\ stack # << >> /\ Top.at = "again" /\ Top.at # "chunks"
  BY DEF Again
<1>2. Called(o) /\ o \in Seq(Command) /\ Top \in Frames /\ CalledWith(Top, o) /\ b \in Seq(Command)
      /\ FrameOK(Top, Len(stack)) /\ Got(Top)
  BY <1>1, Waiting
<1> HIDE DEF o
<1>3. b = o
  BY <1>1, <1>2 DEF FrameOK, CalledWith
<1>4. CASE ret.how = "raised"
  <2>1. Except(Top.body, ret.exc)
    BY <1>4 DEF Again
  <2> QED
    BY <1>2, <2>1, ExceptMatches
<1>5. CASE ret.how # "raised"
  <2> DEFINE d == Top.done
  <2> DEFINE s == ret.answers
  <2> DEFINE a == [i \in DOMAIN d |-> IF \E k \in DOMAIN s : Top.idxs[k] = i
                                      THEN s[CHOOSE k \in DOMAIN s : Top.idxs[k] = i]
                                      ELSE d[i]]
  <2> DEFINE e == [k \in DOMAIN Top.idxs |-> b[Top.idxs[k]]]
  <2>1. s \in Seq(Answers) /\ Aligns(s, Expected(Top))
    BY <1>1, <1>5, Waiting
  <2>2. Return(a)
    BY <1>5 DEF Again
  <2>3. d \in Seq(Answers) /\ Top.idxs \in Seq(Nat)
    BY <1>2 DEF Frames
  <2>4. Aligns(d, b)
    BY <1>1, <1>2 DEF Got
  <2>5. Expected(Top) = e
    BY <1>1 DEF Expected
  <2>6. \A k \in DOMAIN s : s[k].to = b[Top.idxs[k]]
    <3>1. DOMAIN e = 1..Len(Top.idxs) /\ Len(Top.idxs) \in Nat /\ DOMAIN Top.idxs = 1..Len(Top.idxs)
      BY <2>3
    <3>2. Len(e) = Len(Top.idxs)
      <4> HIDE DEF e
      <4> QED
        BY <3>1
    <3>3. DOMAIN s = 1..Len(s)
      BY <2>1
    <3>4. Len(s) = Len(e) /\ \A i \in 1..Len(e) : s[i].to = e[i]
      <4> HIDE DEF e, s
      <4> QED
        BY <2>1, <2>5 DEF Aligns
    <3>5. ASSUME NEW k \in DOMAIN s PROVE s[k].to = b[Top.idxs[k]]
      <4>1. k \in 1..Len(e) /\ k \in DOMAIN Top.idxs
        <5> HIDE DEF e, s
        <5> QED
          BY <3>1, <3>2, <3>3, <3>4, <3>5
      <4>2. e[k] = b[Top.idxs[k]]
        BY <4>1
      <4> HIDE DEF e, s
      <4> QED
        BY <3>4, <4>1, <4>2
    <3> QED
      BY <3>5
  <2>7. Len(d) = Len(b) /\ \A i \in 1..Len(b) : d[i].to = b[i]
    BY <2>4 DEF Aligns
  <2>8. DOMAIN d = 1..Len(b) /\ Len(b) \in Nat
    <3> HIDE DEF d, b
    <3> QED
      BY <1>2, <2>3, <2>7
  <2> HIDE DEF d, s, b
  <2>9. ASSUME NEW i \in 1..Len(b) PROVE a[i].to = b[i]
    <3>1. CASE \E k \in DOMAIN s : Top.idxs[k] = i
      <4> DEFINE k == CHOOSE k \in DOMAIN s : Top.idxs[k] = i
      <4>1. k \in DOMAIN s /\ Top.idxs[k] = i
        BY <3>1
      <4>2. a[i] = s[k]
        BY <2>8, <3>1
      <4> HIDE DEF k, a
      <4> QED
        BY <2>6, <4>1, <4>2
    <3>2. CASE ~\E k \in DOMAIN s : Top.idxs[k] = i
      <4>1. a[i] = d[i]
        BY <2>8, <3>2
      <4> QED
        BY <2>7, <4>1
    <3> QED
      BY <3>1, <3>2
  <2>10. DOMAIN a = 1..Len(b)
    BY <2>8
  <2> HIDE DEF a
  <2>11. Len(a) = Len(b)
    BY <2>8, <2>10
  <2>12. Aligns(a, b)
    BY <2>9, <2>11 DEF Aligns
  <2>13. Return(a)
    BY <2>2 DEF a, d, s
  <2> QED
    BY <1>2, <1>3, <2>12, <2>13, ReturnMatches
<1> QED
  BY <1>4, <1>5

(* The next command is sent when all before it are answered.               *)
LEMMA SendNextMatches ==
  ASSUME NEW o, Called(o), NEW f \in Frames, f.at \in OneByOne, CalledWith(f, o),
         f.todo \in Seq(Command), f.todo # << >>, Len(f.todo) <= Len(f.body),
         f.todo = SubSeq(f.body, Len(f.body) - Len(f.todo) + 1, Len(f.body)),
         Aligns(f.done, SubSeq(f.body, 1, Len(f.body) - Len(f.todo))),
         SendNext(f)
  PROVE  Matches
<1> DEFINE x == Len(f.body)
<1> DEFINE y == Len(f.todo)
<1> DEFINE c == Head(f.todo)
<1> DEFINE h == [f EXCEPT !.todo = Tail(@)]
<1> DEFINE g == Frame(<<c>>, f.retry + 1)
<1>1. f.body \in Seq(Command) /\ x \in Nat /\ y \in Nat /\ y <= x
  BY DEF Frames
<1>2. y > 0
  <2>1. y # 0
    OBVIOUS
  <2> HIDE DEF y
  <2> QED
    BY <1>1, <2>1
<1>3. c \in Command /\ Tail(f.todo) \in Seq(Command) /\ Len(Tail(f.todo)) = y - 1
  OBVIOUS
<1>4. h \in Frames /\ h.at = f.at /\ h.todo = Tail(f.todo) /\ h.body = f.body /\ h.done = f.done
      /\ h.taken = f.taken /\ h.popped = f.popped
  BY <1>3 DEF Frames
<1>5. f.retry + 1 \in 1..RETRY_ATTEMPTS
  <2>1. f.retry \in 0..(RETRY_ATTEMPTS - 1) /\ RETRY_ATTEMPTS \in Nat
    BY BodyType DEF Frames
  <2> QED
    BY <2>1
<1>6. Push(h, g) /\ ret' = None
  BY DEF SendNext
<1> HIDE DEF x, y
<1>7. x - y + 1 \in 1..x /\ x \in (x - y + 1)..x /\ (x - (y - 1)) + 1 = (x - y + 1) + 1 /\ x - (y - 1) = x - y + 1
      /\ x - (y - 1) - 1 = x - y /\ y - 1 < x
  BY <1>1, <1>2
<1>8. c = f.body[x - y + 1] /\ h.todo = SubSeq(f.body, (x - y + 1) + 1, x)
  <2>1. f.todo = SubSeq(f.body, x - y + 1, x)
    BY DEF x, y
  <2>2. x - y + 1 \in 1..Len(f.body) /\ x \in (x - y + 1)..Len(f.body)
    BY <1>7 DEF x
  <2>3. Head(SubSeq(f.body, x - y + 1, x)) = f.body[x - y + 1]
        /\ Tail(SubSeq(f.body, x - y + 1, x)) = SubSeq(f.body, (x - y + 1) + 1, x)
    BY <1>1, <2>2, HeadTailOfSubSeq
  <2> QED
    BY <1>4, <2>1, <2>3
<1> HIDE DEF h, c
<1>9. Len(h.body) = x /\ Len(h.todo) = y - 1
  BY <1>3, <1>4 DEF x
<1>10. Got(h)
  <2>1. h.todo = SubSeq(h.body, Len(h.body) - Len(h.todo) + 1, Len(h.body))
    BY <1>4, <1>7, <1>8, <1>9
  <2>2. Len(h.todo) < Len(h.body)
    BY <1>7, <1>9
  <2>3. Aligns(h.done, SubSeq(h.body, 1, Len(h.body) - Len(h.todo) - 1))
    <3>1. Aligns(f.done, SubSeq(f.body, 1, x - y))
      BY DEF x, y
    <3>2. Len(h.body) - Len(h.todo) - 1 = x - y
      BY <1>7, <1>9
    <3> QED
      BY <1>4, <3>1, <3>2
  <2>4. h.at \notin {"chunks", "enter", "post", "again"}
    BY <1>4 DEF OneByOne
  <2> QED
    BY <2>1, <2>2, <2>3, <2>4 DEF Got
<1>11. Expected(h) = <<c>>
  <2>1. Sent(h) = c
    BY <1>4, <1>7, <1>8, <1>9 DEF Sent
  <2>2. h.at \notin {"chunks", "whole", "again"}
    BY <1>4 DEF OneByOne
  <2> QED
    BY <2>1, <2>2 DEF Expected
<1>12. CalledWith(h, o)
  BY <1>4 DEF CalledWith
<1>13. g \in Frames /\ Got(g) /\ CalledWith(g, <<c>>)
  <2>1. <<c>> \in Seq(Command)
    BY <1>3 DEF c
  <2> QED
    BY <1>5, <2>1, NewFrame, NewFrameGot
<1> HIDE DEF g
<1>14. stack \in Seq(Frames) /\ stack # << >> /\ Matching(stack) /\ o = Expected(Tail(stack)[1])
  BY DEF Called, Stacked
<1> QED
  BY <1>4, <1>6, <1>10, <1>11, <1>12, <1>13, <1>14, PushMatches

(* The first command that is sent separately.                              *)
LEMMA StartSeparateMatches ==
  ASSUME TypeInv, Matching(stack), StartSeparate
  PROVE  Matches
<1> DEFINE o == Expected(Tail(stack)[1])
<1>1. ret.how = "none" /\ stack # << >> /\ Top.at \in OneByOne /\ SendNext(Top) /\ Top.at # "chunks"
  BY DEF StartSeparate, OneByOne
<1>2. Called(o) /\ Got(Top) /\ CalledWith(Top, o)
  BY <1>1, CalledFact DEF Called
<1> HIDE DEF o
<1>3. Top = stack[1] /\ Top \in Frames /\ FrameOK(Top, Len(stack)) /\ Top.body \in Seq(Command)
  BY <1>1, TopFact DEF TypeInv
<1>4. Runs(Top)
  BY <1>1, <1>3, RetFact DEF TypeInv
<1>5. Len(Top.body) > 1 /\ Len(Top.todo) = Len(Top.body) /\ Top.todo \in Seq(Command)
  BY <1>1, <1>3, <1>4 DEF Runs, FrameOK
<1>6. Top.todo # << >>
  BY <1>5
<1> DEFINE x == Len(Top.body)
<1>7. x \in Nat /\ x - x = 0 /\ ~(x < x)
  BY <1>3
<1> HIDE DEF x
<1>8. Len(Top.todo) = x /\ Len(Top.body) = x
  BY <1>5 DEF x
<1>9. Top.done = << >> /\ Top.todo = SubSeq(Top.body, Len(Top.body) - Len(Top.todo) + 1, Len(Top.body))
  BY <1>1, <1>2, <1>7, <1>8 DEF Got
<1>10. Aligns(Top.done, SubSeq(Top.body, 1, Len(Top.body) - Len(Top.todo)))
  <2>1. Len(Top.body) - Len(Top.todo) = 0
    BY <1>7, <1>8
  <2>2. SubSeq(Top.body, 1, 0) = << >>
    BY SubSeqEmpty
  <2>3. SubSeq(Top.body, 1, Len(Top.body) - Len(Top.todo)) = << >>
    BY <2>1, <2>2
  <2>4. Aligns(<< >>, << >>)
    BY DEF Aligns
  <2> QED
    BY <1>9, <2>3, <2>4
<1>11. Len(Top.todo) <= Len(Top.body)
  BY <1>7, <1>8
<1> QED
  BY <1>1, <1>2, <1>3, <1>5, <1>6, <1>9, <1>10, <1>11, SendNextMatches

(* One more command that was sent separately is answered.                  *)
LEMMA OneMoreMatches ==
  ASSUME TypeInv, Matching(stack), RetMatches(stack, ret), ret.how # "none", stack # << >>,
         Top.at \in OneByOne, NEW res \in Seq(Answers), Aligns(res, <<Sent(Top)>>)
  PROVE  LET f == [Top EXCEPT !.done = @ \o res]
         IN  /\ f.todo # << >> /\ SendNext(f) => Matches
             /\ f.todo = << >> => Aligns(f.done, Top.body)
<1> DEFINE o == Expected(Tail(stack)[1])
<1> DEFINE x == Len(Top.body)
<1> DEFINE y == Len(Top.todo)
<1> DEFINE f == [Top EXCEPT !.done = @ \o res]
<1>1. Top.at # "chunks"
  BY DEF OneByOne
<1>2. Called(o) /\ Top \in Frames /\ CalledWith(Top, o) /\ Top.body \in Seq(Command) /\ Got(Top) /\ Waits(Top)
  BY <1>1, Waiting
<1> HIDE DEF o
<1>3. f \in Frames /\ f.at = Top.at /\ f.todo = Top.todo /\ f.taken = Top.taken /\ f.body = Top.body
      /\ f.done = Top.done \o res /\ f.popped = Top.popped
  BY OneMore
<1>4. Top.todo \in Seq(Command) /\ x - y \in 1..x /\ Top.done \in Seq(Answers)
  BY <1>2, SentType DEF Frames
<1>5. x \in Nat /\ y \in Nat /\ y < x
  <2>1. Len(Top.todo) < Len(Top.body)
    BY <1>2 DEF Waits
  <2> QED
    BY <1>2, <1>4, <2>1
<1>6. Aligns(Top.done, SubSeq(Top.body, 1, x - y - 1)) /\ Top.todo = SubSeq(Top.body, x - y + 1, x)
  BY <1>2, <1>5 DEF Got
<1>7. Sent(Top) = Top.body[x - y]
  BY DEF Sent
<1>8. Len(res) = 1 /\ res[1].to = Top.body[x - y]
  <2>1. Len(<<Sent(Top)>>) = 1 /\ <<Sent(Top)>>[1] = Sent(Top)
    OBVIOUS
  <2> QED
    BY <1>7, <2>1 DEF Aligns
<1>9. Aligns(Top.done \o res, SubSeq(Top.body, 1, x - y))
  <2> DEFINE m == x - y - 1
  <2> DEFINE p == x - y
  <2>1. m \in Nat /\ p \in Nat /\ m <= p /\ p <= x /\ p - m = 1 /\ m + 1 = p
    <3> HIDE DEF x, y
    <3> QED
      BY <1>4, <1>5
  <2>2. p <= Len(Top.body)
    BY <2>1
  <2>3. Aligns(Top.done, SubSeq(Top.body, 1, m))
    BY <1>6
  <2> HIDE DEF m
  <2>4. Len(res) = p - m
    BY <1>8, <2>1
  <2>5. ASSUME NEW j \in 1..Len(res) PROVE res[j].to = Top.body[m + j]
    <3>1. j = 1
      BY <1>8, <2>5
    <3> QED
      BY <1>8, <2>1, <3>1
  <2> HIDE DEF p, x, y
  <2>6. Aligns(Top.done \o res, SubSeq(Top.body, 1, p))
    BY <1>2, <1>4, <2>1, <2>2, <2>3, <2>4, <2>5, AlignsLonger
  <2> QED
    BY <2>6 DEF p
<1> HIDE DEF f
<1>10. ASSUME f.todo # << >>, SendNext(f) PROVE Matches
  <2>1. Len(f.todo) = y /\ Len(f.body) = x
    BY <1>3
  <2>2. y <= x
    BY <1>5
  <2> HIDE DEF x, y
  <2>3. f.todo = SubSeq(f.body, Len(f.body) - Len(f.todo) + 1, Len(f.body)) /\ Len(f.todo) <= Len(f.body)
        /\ Aligns(f.done, SubSeq(f.body, 1, Len(f.body) - Len(f.todo)))
    BY <1>3, <1>6, <1>9, <2>1, <2>2
  <2>4. CalledWith(f, o)
    BY <1>2, <1>3 DEF CalledWith
  <2>5. f.at \in OneByOne /\ f.todo \in Seq(Command)
    BY <1>3, <1>4
  <2> QED
    BY <1>2, <1>3, <1>10, <2>3, <2>4, <2>5, SendNextMatches
<1>11. ASSUME f.todo = << >> PROVE Aligns(f.done, Top.body)
  <2>1. y = 0
    BY <1>3, <1>11
  <2>2. x - y = x
    <3> HIDE DEF x, y
    <3> QED
      BY <1>5, <2>1
  <2>3. SubSeq(Top.body, 1, x) = Top.body
    BY <1>2, SubSeqFull
  <2> HIDE DEF x, y
  <2> QED
    BY <1>3, <1>9, <2>2, <2>3
<1> QED
  BY <1>10, <1>11 DEF f

LEMMA AlignsOne ==
  ASSUME NEW c \in Command, NEW code \in Code
  PROVE  <<Answer(c, code)>> \in Seq(Answers) /\ Aligns(<<Answer(c, code)>>, <<c>>)
<1>1. Answer(c, code) \in Answers /\ Answer(c, code).to = c
  BY AnswerType
<1> QED
  BY <1>1 DEF Aligns

(* All were answered separately: the placeholders are inserted.            *)
LEMMA SeparateMatches ==
  ASSUME TypeInv, Matching(stack), RetMatches(stack, ret), Separate, ~cut'
  PROVE  Matches
<1> DEFINE o == Expected(Tail(stack)[1])
<1>1. ret.how # "none" /\ stack # << >> /\ Top.at = "separate" /\ Top.at \in OneByOne /\ Top.at # "chunks"
  BY DEF Separate, OneByOne
<1>2. Called(o) /\ o \in Seq(Command) /\ Top \in Frames /\ CalledWith(Top, o) /\ Top.body \in Seq(Command)
      /\ FrameOK(Top, Len(stack))
  BY <1>1, Waiting
<1>3. Expected(Top) = <<Sent(Top)>>
  BY <1>1 DEF Expected
<1> HIDE DEF o
<1>4. CASE ret.how = "raised" /\ ~(Top.global /\ ret.exc \in {"Reolink", "Timeout"})
  <2>1. Except(Top.body, IF ret.exc = "Timeout" THEN "Reolink" ELSE ret.exc)
    BY <1>4 DEF Separate
  <2> QED
    BY <1>2, <2>1, ExceptMatches
<1>5. CASE ~(ret.how = "raised" /\ ~(Top.global /\ ret.exc \in {"Reolink", "Timeout"}))
  <2> DEFINE res == IF ret.how = "raised" THEN <<Answer(Sent(Top), "timeout")>> ELSE ret.answers
  <2> DEFINE f == [Top EXCEPT !.done = @ \o res]
  <2>1. IF f.todo # << >> THEN SendNext(f) ELSE Return(Inserted(f.done, f.taken))
    BY <1>5 DEF Separate
  <2>2. res \in Seq(Answers) /\ Aligns(res, <<Sent(Top)>>)
    <3>1. ret.how # "raised" => ret.answers \in Seq(Answers) /\ Aligns(ret.answers, <<Sent(Top)>>)
      BY <1>1, <1>3, Waiting
    <3>2. Sent(Top) \in Command /\ "timeout" \in Code
      BY <1>1, SentType DEF Code, HttpCode
    <3> QED
      BY <3>1, <3>2, AlignsOne
  <2> HIDE DEF res
  <2>3. f.taken = Top.taken /\ f.done \in Seq(Answers)
    BY <1>1, <2>2, OneMore
  <2>4. /\ f.todo # << >> /\ SendNext(f) => Matches
        /\ f.todo = << >> => Aligns(f.done, Top.body)
    BY <1>1, <2>2, OneMoreMatches
  <2> HIDE DEF f
  <2>5. CASE f.todo = << >> /\ Return(Inserted(f.done, f.taken))
    <3>1. Top.popped
      BY <1>1, <1>2 DEF FrameOK
    <3>2. Aligns(f.done, Top.body)
      BY <2>4, <2>5
    <3>3. Aligns(Inserted(f.done, Top.taken), o)
      BY <1>2, <2>3, <3>1, <3>2, Restored
    <3> QED
      BY <1>2, <2>3, <2>5, <3>3, ReturnMatches
  <2> QED
    BY <2>1, <2>4, <2>5
<1> QED
  BY <1>4, <1>5

(* The same in the except clause, where nothing was taken out of the body. *)
LEMMA ApartMatches ==
  ASSUME TypeInv, Matching(stack), RetMatches(stack, ret), Apart
  PROVE  Matches
<1> DEFINE o == Expected(Tail(stack)[1])
<1>1. ret.how # "none" /\ stack # << >> /\ Top.at = "apart" /\ Top.at \in OneByOne /\ Top.at # "chunks"
  BY DEF Apart, OneByOne
<1>2. Called(o) /\ o \in Seq(Command) /\ Top \in Frames /\ CalledWith(Top, o) /\ Top.body \in Seq(Command)
      /\ FrameOK(Top, Len(stack))
  BY <1>1, Waiting
<1>3. Expected(Top) = <<Sent(Top)>>
  BY <1>1 DEF Expected
<1> HIDE DEF o
<1>4. CASE ret.how = "raised" /\ ret.exc \notin {"Reolink", "Timeout"}
  <2>1. Raise(ret.exc)
    BY <1>4 DEF Apart
  <2> QED
    BY <1>2, <2>1, RaiseMatches
<1>5. CASE ~(ret.how = "raised" /\ ret.exc \notin {"Reolink", "Timeout"})
  <2> DEFINE res == IF ret.how = "raised" THEN <<Answer(Sent(Top), "undecoded")>> ELSE ret.answers
  <2> DEFINE f == [Top EXCEPT !.done = @ \o res]
  <2>1. IF f.todo # << >> THEN SendNext(f) ELSE Return(f.done)
    BY <1>5 DEF Apart
  <2>2. res \in Seq(Answers) /\ Aligns(res, <<Sent(Top)>>)
    <3>1. ret.how # "raised" => ret.answers \in Seq(Answers) /\ Aligns(ret.answers, <<Sent(Top)>>)
      BY <1>1, <1>3, Waiting
    <3>2. Sent(Top) \in Command /\ "undecoded" \in Code
      BY <1>1, SentType DEF Code
    <3> QED
      BY <3>1, <3>2, AlignsOne
  <2> HIDE DEF res
  <2>3. /\ f.todo # << >> /\ SendNext(f) => Matches
        /\ f.todo = << >> => Aligns(f.done, Top.body)
    BY <1>1, <2>2, OneMoreMatches
  <2> HIDE DEF f
  <2>4. CASE f.todo = << >> /\ Return(f.done)
    <3>1. Top.body = o
      BY <1>1, <1>2 DEF FrameOK, CalledWith
    <3>2. Aligns(f.done, o)
      BY <2>3, <2>4, <3>1
    <3> QED
      BY <1>2, <2>4, <3>2, ReturnMatches
  <2> QED
    BY <2>1, <2>3, <2>4
<1> QED
  BY <1>4, <1>5

-----------------------------------------------------------------------------
(* The invariant holds.                                                    *)

LEMMA ResendCut == ASSUME NEW b, Resend(b), cut PROVE cut'
<1>1. cut' = (cut \/ (Top.popped /\ Top.taken # << >>) \/ Len(b) < Len(Top.body))
  BY DEF Resend
<1> QED
  BY <1>1, Zenon

LEMMA ExceptCut == ASSUME NEW b, NEW exc, Except(b, exc), cut PROVE cut'
<1>1. CASE Resend(b)
  BY <1>1, ResendCut
<1>2. CASE UNCHANGED cut
  BY <1>2, Zenon
<1> QED
  BY <1>1, <1>2, Zenon DEF Except

(* Once a body that lost commands was sent again, that is not forgotten.   *)
LEMMA CutStays == ASSUME Next, cut PROVE cut'
<1>1. CASE UNCHANGED cut
  BY <1>1, Zenon
<1>2. CASE \E b, exc : Except(b, exc)
  BY <1>2, ExceptCut, Zenon
<1>3. CASE \E b : Resend(b)
  BY <1>3, ResendCut, Zenon
<1>4. CASE NextChunk \/ Finish \/ EnterOnly \/ EnterFailed \/ EnterFound \/ Enter \/ Matched \/ StartSeparate
           \/ Apart \/ OtherTask
  <2>1. UNCHANGED cut
    BY <1>4 DEF NextChunk, Finish, EnterOnly, EnterFailed, EnterFound, Enter, Matched, StartSeparate, Apart, OtherTask
  <2> QED
    BY <1>1, <2>1, Zenon
<1>5. CASE Unanswered
  BY <1>2, <1>3, <1>5, Zenon DEF Unanswered
<1>6. CASE Refused
  BY <1>2, <1>6, Zenon DEF Refused
<1>7. CASE Garbled
  BY <1>1, <1>2, <1>7, Zenon DEF Garbled
<1>8. CASE Undecodable
  <2>1. (\E b, exc : Except(b, exc)) \/ UNCHANGED cut \/ \E b : Resend(b)
    BY <1>8 DEF Undecodable
  <2> QED
    BY <1>1, <1>2, <1>3, <2>1
<1>9. CASE Mismatch
  <2>1. (\E b, exc : Except(b, exc)) \/ UNCHANGED cut
    BY <1>9 DEF Mismatch
  <2> QED
    BY <1>1, <1>2, <2>1
<1>10. CASE Whole
  BY <1>1, <1>2, <1>10, Zenon DEF Whole
<1>11. CASE Again
  BY <1>1, <1>2, <1>11, Zenon DEF Again
<1>12. CASE Separate
  <2>1. (\E b, exc : Except(b, exc)) \/ UNCHANGED cut
    BY <1>12 DEF Separate
  <2> QED
    BY <1>1, <1>2, <2>1
<1> QED
  BY <1>4, <1>5, <1>6, <1>7, <1>8, <1>9, <1>10, <1>11, <1>12, Zenon DEF Next, Step

(* All the actions.                                                        *)
LEMMA StepMatches ==
  ASSUME TypeInv, Matching(stack), RetMatches(stack, ret), Step, ~cut'
  PROVE  Matches
<1>1. CASE NextChunk
  BY <1>1, NextChunkMatches
<1>2. CASE Finish
  BY <1>2, FinishMatches
<1>3. CASE EnterOnly
  BY <1>3, EnterOnlyMatches
<1>4. CASE EnterFailed
  BY <1>4, EnterFailedMatches
<1>5. CASE EnterFound
  BY <1>5 DEF EnterFound, Matches
<1>6. CASE Enter
  BY <1>6, EnterMatches
<1>7. CASE Unanswered
  BY <1>7, UnansweredMatches
<1>8. CASE Refused
  BY <1>8, RefusedMatches
<1>9. CASE Garbled
  BY <1>9, GarbledMatches
<1>10. CASE Undecodable
  BY <1>10, UndecodableMatches
<1>11. CASE Mismatch
  BY <1>11, MismatchMatches
<1>12. CASE Matched
  BY <1>12, MatchedMatches
<1>13. CASE Whole
  BY <1>13, WholeMatches
<1>14. CASE Again
  BY <1>14, AgainMatches
<1>15. CASE StartSeparate
  BY <1>15, StartSeparateMatches
<1>16. CASE Separate
  BY <1>16, SeparateMatches
<1>17. CASE Apart
  BY <1>17, ApartMatches
<1> QED
  BY <1>1, <1>2, <1>3, <1>4, <1>5, <1>6, <1>7, <1>8, <1>9, <1>10, <1>11, <1>12, <1>13, <1>14, <1>15,
     <1>16, <1>17 DEF Step

(* AlignInv is inductive, given TypeInv.                                   *)
LEMMA NextAligned == TypeInv /\ AlignInv /\ [Next]_vars => AlignInv'
<1>1. ASSUME TypeInv, AlignInv, Next, ~cut' PROVE Matches
  <2>1. ~cut
    BY <1>1, CutStays, Zenon
  <2>2. Matching(stack) /\ RetMatches(stack, ret)
    BY <1>1, <2>1, Zenon DEF AlignInv
  <2>3. CASE Step
    BY <1>1, <2>2, <2>3, StepMatches, Zenon
  <2>4. CASE OtherTask
    <3>1. stack' = stack /\ ret' = ret
      BY <2>4 DEF OtherTask
    <3> QED
      BY <2>2, <3>1 DEF Matches
  <2> QED
    BY <1>1, <2>3, <2>4, Zenon DEF Next
<1>2. ASSUME AlignInv, UNCHANGED vars, ~cut' PROVE Matches
  <2>1. cut' = cut /\ stack' = stack /\ ret' = ret
    BY <1>2 DEF vars
  <2>2. ~cut
    BY <1>2, <2>1, Zenon
  <2>3. Matching(stack) /\ RetMatches(stack, ret)
    BY <1>2, <2>2, Zenon DEF AlignInv
  <2> QED
    BY <2>1, <2>3 DEF Matches
<1>3. (~cut' => Matches) => AlignInv'
  <2>1. Matches => Matching(stack)' /\ RetMatches(stack, ret)'
    BY DEF Matches, Matching, RetMatches
  <2> QED
    BY <2>1, Zenon DEF AlignInv
<1> QED
  BY <1>1, <1>2, <1>3, Zenon

(* When the call is over, RetMatches says it of the whole batch.           *)
LEMMA AlignedHolds == TypeInv /\ AlignInv => AlignedUnlessCut
<1> SUFFICES ASSUME TypeInv, AlignInv, ~cut, stack = << >>, ret.how = "returned"
             PROVE  /\ Len(ret.answers) = Len(Body)
                    /\ \A i \in DOMAIN Body : ret.answers[i].to = Body[i]
  BY Zenon DEF AlignedUnlessCut, IsAligned
<1>1. RetMatches(stack, ret)
  BY Zenon DEF AlignInv
<1>2. Aligns(ret.answers, Body)
  BY <1>1 DEF RetMatches
<1>3. DOMAIN Body = 1..Len(Body)
  BY BodyType
<1> QED
  BY <1>2, <1>3 DEF Aligns

(* Whatever was filtered, split into chunks, sent again, sent one by one   *)
(* or answered over Baichuan, the answers of send are one for each command *)
(* of the caller, in the caller's order; but for a batch that was sent     *)
(* again after an exception when commands had been taken out.  (A single   *)
(* command gets a single answer in the model; the code does not check it.) *)
THEOREM AnswersAligned == Spec => []AlignedUnlessCut
<1>1. Init => TypeInv /\ AlignInv
  BY InitType, InitMatches, Zenon DEF AlignInv
<1>2. TypeInv /\ [Next]_vars => TypeInv'
  BY NextType
<1>3. TypeInv /\ AlignInv /\ [Next]_vars => AlignInv'
  BY NextAligned
<1>4. TypeInv /\ AlignInv => AlignedUnlessCut
  BY AlignedHolds
<1> QED
  BY <1>1, <1>2, <1>3, <1>4, PTL DEF Spec

=============================================================================
