--------------------------- MODULE SequenceLemmas ---------------------------
(***************************************************************************)
(* Lemmas the proofs of several components need, about stacks and queues   *)
(* kept as sequences and about sets of numbers.  Nothing here models code. *)
(***************************************************************************)
EXTENDS Integers, SequencesExt, SequenceTheorems, FiniteSetTheorems,
        FunctionTheorems, WellFoundedInduction, TLAPS

-----------------------------------------------------------------------------
(* Stacks *)

\* What is under the top of a stack.
LEMMA StackParts ==
  ASSUME NEW S, NEW q \in Seq(S), q # <<>>
  PROVE  /\ Len(q) \in Nat \ {0}
         /\ q[Len(q)] \in S
         /\ SubSeq(q, 1, Len(q) - 1) \in Seq(S)
         /\ Len(SubSeq(q, 1, Len(q) - 1)) = Len(q) - 1
         /\ \A i \in 1 .. Len(q) - 1 : SubSeq(q, 1, Len(q) - 1)[i] = q[i]
<1>1. Len(q) \in Nat \ {0}
  BY EmptySeq
<1>2. q[Len(q)] \in S
  BY <1>1
<1>3. SubSeq(q, 1, Len(q) - 1) \in Seq(S)
  OBVIOUS
<1>4. Len(SubSeq(q, 1, Len(q) - 1)) = Len(q) - 1
  <2> DEFINE n == Len(q) - 1
  <2>1. n \in Nat
    BY <1>1
  <2> HIDE DEF n
  <2>2. Len(SubSeq(q, 1, n)) = n
    BY <2>1
  <2> QED
    BY <2>2 DEF n
<1>5. ASSUME NEW i \in 1 .. Len(q) - 1
      PROVE  SubSeq(q, 1, Len(q) - 1)[i] = q[i]
  BY <1>1
<1> QED
  BY <1>1, <1>2, <1>3, <1>4, <1>5, Zenon

\* What is left of a queue when its oldest value is taken.
LEMMA QueueParts ==
  ASSUME NEW S, NEW q \in Seq(S), q # <<>>
  PROVE  /\ Head(q) \in S /\ Head(q) = q[1]
         /\ Tail(q) \in Seq(S)
         /\ Len(Tail(q)) = Len(q) - 1
         /\ \A i \in 1 .. Len(Tail(q)) : Tail(q)[i] = q[i + 1]
  OBVIOUS

\* A sequence whose values are in T.
LEMMA ValuesWithin ==
  ASSUME NEW S, NEW T, NEW q \in Seq(S), \A i \in 1 .. Len(q) : q[i] \in T
  PROVE  q \in Seq(T)
  OBVIOUS

\* One more value at the end.
LEMMA Appended ==
  ASSUME NEW S, NEW q \in Seq(S), NEW e \in S
  PROVE  /\ Append(q, e) \in Seq(S)
         /\ Len(Append(q, e)) = Len(q) + 1
         /\ \A i \in 1 .. Len(q) : Append(q, e)[i] = q[i]
         /\ Append(q, e)[Len(q) + 1] = e
  OBVIOUS

\* A sequence without the value at place k.
LEMMA RemovedAt ==
  ASSUME NEW S, NEW q \in Seq(S), NEW k \in 1 .. Len(q)
  PROVE  /\ RemoveAt(q, k) \in Seq(S)
         /\ Len(RemoveAt(q, k)) = Len(q) - 1
         /\ \A i \in 1 .. Len(q) - 1 : RemoveAt(q, k)[i] = IF i < k THEN q[i] ELSE q[i + 1]
<1> DEFINE a == SubSeq(q, 1, k - 1)
           b == SubSeq(q, k + 1, Len(q))
<1>1. /\ a \in Seq(S) /\ Len(a) = k - 1
      /\ \A i \in 1 .. k - 1 : a[i] = q[i]
  <2>1. /\ 1 \in Int /\ k - 1 \in Int /\ \A i \in 1 .. k - 1 : q[i] \in S
    OBVIOUS
  <2>2. /\ a \in Seq(S) /\ Len(a) = IF 1 <= k - 1 THEN (k - 1) - 1 + 1 ELSE 0
        /\ \A i \in 1 .. (k - 1) - 1 + 1 : a[i] = q[1 + i - 1]
    BY <2>1, SubSeqProperties
  <2> QED
    BY <2>2
<1>2. /\ b \in Seq(S) /\ Len(b) = Len(q) - k
      /\ \A i \in 1 .. Len(q) - k : b[i] = q[k + i]
  <2>1. /\ k + 1 \in Int /\ Len(q) \in Int /\ \A i \in k + 1 .. Len(q) : q[i] \in S
    OBVIOUS
  <2>2. /\ b \in Seq(S) /\ Len(b) = IF k + 1 <= Len(q) THEN Len(q) - (k + 1) + 1 ELSE 0
        /\ \A i \in 1 .. Len(q) - (k + 1) + 1 : b[i] = q[k + 1 + i - 1]
    BY <2>1, SubSeqProperties
  <2> QED
    BY <2>2
<1> HIDE DEF a, b
<1>3. /\ a \o b \in Seq(S) /\ Len(a \o b) = Len(q) - 1
      /\ \A i \in 1 .. Len(q) - 1 : (a \o b)[i] = IF i < k THEN q[i] ELSE q[i + 1]
  <2>1. /\ a \o b \in Seq(S) /\ Len(a \o b) = Len(a) + Len(b)
        /\ \A i \in 1 .. Len(a) + Len(b) : (a \o b)[i] =
             IF i <= Len(a) THEN a[i] ELSE b[i - Len(a)]
    BY <1>1, <1>2, ConcatProperties
  <2> QED
    BY <1>1, <1>2, <2>1
<1> QED
  BY <1>3 DEF a, b, RemoveAt

-----------------------------------------------------------------------------
(* Numbers *)

\* A set of natural numbers has a least one.
LEMMA LeastNumber ==
  ASSUME NEW S \in SUBSET Nat, S # {}
  PROVE  \E n \in S : \A m \in S : n <= m
<1> DEFINE R == {ss \in Nat \X Nat : ss[1] < ss[2]}
<1>1. IsWellFoundedOn(R, Nat)
  <2>1. IsWellFoundedOn(OpToRel(<, Nat), Nat)
    BY NatLessThanWellFounded
  <2> QED
    BY <2>1, Zenon DEF OpToRel
<1>2. \E n \in S : \A m \in S : <<m, n>> \notin R
  <2> HIDE DEF R
  <2> QED
    BY <1>1, WFMin
<1>3. ASSUME NEW m \in Nat, NEW n \in Nat, <<m, n>> \notin R
      PROVE  n <= m
  BY <1>3
<1> HIDE DEF R
<1> QED
  BY <1>2, <1>3

-----------------------------------------------------------------------------
(* The values of a sequence *)

\* No value comes twice.
Once(q) == \A i, j \in 1 .. Len(q) : i # j => q[i] # q[j]

\* The stack r is the value f on the stack q; the stack q is f on r.
Pushed(q, r, f) == r = Append(q, f)
Popped(q, r, f) == q # <<>> /\ r = SubSeq(q, 1, Len(q) - 1) /\ f = q[Len(q)]

\* What the values of a sequence are.
LEMMA Values ==
  ASSUME NEW S, NEW q \in Seq(S)
  PROVE  /\ ToSet(q) \subseteq S
         /\ \A e : e \in ToSet(q) <=> \E i \in 1 .. Len(q) : q[i] = e
BY DEF ToSet

LEMMA ValuesEmpty == ToSet(<<>>) = {} /\ Once(<<>>)
BY DEF ToSet, Once

\* One more value at the end, which was not there.
LEMMA ValuesAppended ==
  ASSUME NEW S, NEW q \in Seq(S), NEW e \in S, NEW r, Pushed(q, r, e)
  PROVE  /\ r \in Seq(S) /\ ToSet(r) = ToSet(q) \cup {e}
         /\ Once(q) /\ e \notin ToSet(q) => Once(r)
<1>1. /\ r \in Seq(S) /\ Len(r) = Len(q) + 1 /\ Len(q) \in Nat
      /\ \A i \in 1 .. Len(q) : r[i] = q[i]
      /\ r[Len(q) + 1] = e
  BY Appended DEF Pushed
<1>2. \A i \in 1 .. Len(r) : i \in 1 .. Len(q) \/ i = Len(q) + 1
  BY <1>1
<1>3. \A v : v \in ToSet(r) <=> v \in ToSet(q) \/ v = e
  <2>1. \A v : v \in ToSet(q) <=> \E i \in 1 .. Len(q) : q[i] = v
    BY Values
  <2>2. \A v : v \in ToSet(r) <=> \E i \in 1 .. Len(r) : r[i] = v
    BY <1>1, Values
  <2>3. \A i \in 1 .. Len(q) : i \in 1 .. Len(r)
    BY <1>1
  <2>4. Len(q) + 1 \in 1 .. Len(r)
    BY <1>1
  <2> QED
    BY <1>1, <1>2, <2>1, <2>2, <2>3, <2>4
<1>4. ASSUME Once(q), e \notin ToSet(q)
      PROVE  Once(r)
  <2>1. \A i \in 1 .. Len(q) : q[i] # e
    BY <1>4, Values
  <2> QED
    BY <1>1, <1>2, <1>4, <2>1 DEF Once
<1> QED
  BY <1>1, <1>3, <1>4

\* The top of a stack and what is under it.
LEMMA ValuesPopped ==
  ASSUME NEW S, NEW q \in Seq(S), NEW r, NEW f, Popped(q, r, f)
  PROVE  /\ r \in Seq(S) /\ f \in ToSet(q)
         /\ ToSet(q) = ToSet(r) \cup {f}
         /\ Once(q) => Once(r) /\ f \notin ToSet(r)
<1>1. q # <<>> /\ r = SubSeq(q, 1, Len(q) - 1) /\ f = q[Len(q)]
  BY DEF Popped
<1>2. /\ Len(q) \in Nat \ {0} /\ r \in Seq(S) /\ Len(r) = Len(q) - 1
      /\ \A i \in 1 .. Len(q) - 1 : r[i] = q[i]
  BY <1>1, StackParts
<1>3. f = q[Len(q)]
  BY <1>1
<1>4. \A i \in 1 .. Len(q) : i \in 1 .. Len(r) \/ i = Len(q)
  BY <1>2
<1>5. (\A i \in 1 .. Len(r) : i \in 1 .. Len(q) /\ i # Len(q)) /\ Len(q) \in 1 .. Len(q)
  BY <1>2
<1>6. /\ \A v : v \in ToSet(q) <=> \E i \in 1 .. Len(q) : q[i] = v
      /\ \A v : v \in ToSet(r) <=> \E i \in 1 .. Len(r) : r[i] = v
  BY <1>2, Values
<1>7. \A i \in 1 .. Len(r) : r[i] = q[i]
  BY <1>2
<1>8. ToSet(q) = ToSet(r) \cup {f} /\ f \in ToSet(q)
  BY <1>3, <1>4, <1>5, <1>6, <1>7
<1>9. Once(q) => Once(r) /\ f \notin ToSet(r)
  BY <1>3, <1>5, <1>6, <1>7 DEF Once
<1> QED
  BY <1>2, <1>8, <1>9

\* The oldest value of a queue and the others.
LEMMA ValuesTail ==
  ASSUME NEW S, NEW q \in Seq(S), q # <<>>, Once(q)
  PROVE  /\ Tail(q) \in Seq(S) /\ Once(Tail(q))
         /\ ToSet(Tail(q)) = ToSet(q) \ {Head(q)} /\ Head(q) \in ToSet(q)
<1> DEFINE r == Tail(q)
<1>1. /\ Head(q) = q[1] /\ r \in Seq(S) /\ Len(r) = Len(q) - 1
      /\ \A i \in 1 .. Len(r) : r[i] = q[i + 1]
  BY QueueParts
<1>2. Len(q) \in Nat \ {0}
  BY EmptySeq
<1> DEFINE n == Len(q)
           m == Len(r)
<1>3. n \in Nat \ {0} /\ m = n - 1
  BY <1>1, <1>2
<1> HIDE DEF n, m, r
<1>4. /\ \A i \in 1 .. m : i + 1 \in 1 .. n /\ i + 1 # 1
      /\ 1 \in 1 .. n
      /\ \A i \in 1 .. n : i # 1 => i - 1 \in 1 .. m /\ i = (i - 1) + 1
  BY <1>3
<1>5. /\ \A v : v \in ToSet(q) <=> \E i \in 1 .. n : q[i] = v
      /\ \A v : v \in ToSet(r) <=> \E i \in 1 .. m : r[i] = v
      /\ \A i \in 1 .. m : r[i] = q[i + 1]
  <2>1. \A v : v \in ToSet(q) <=> \E i \in 1 .. n : q[i] = v
    BY Values DEF n
  <2>2. r \in Seq(S)
    BY <1>1
  <2>3. \A v : v \in ToSet(r) <=> \E i \in 1 .. m : r[i] = v
    BY <2>2, Values DEF m
  <2>4. \A i \in 1 .. m : r[i] = q[i + 1]
    BY <1>1 DEF m
  <2> QED
    BY <2>1, <2>3, <2>4, Zenon
<1>6. Once(r)
  BY <1>1, <1>2 DEF Once
<1>7. \A v : v \in ToSet(r) <=> v \in ToSet(q) /\ v # q[1]
  <2>1. \A i \in 1 .. m : q[i + 1] # q[1]
    BY <1>4 DEF Once, n
  <2>2. ASSUME NEW v \in ToSet(r)
        PROVE  v \in ToSet(q) /\ v # q[1]
    <3>1. PICK i \in 1 .. m : r[i] = v
      BY <1>5, <2>2
    <3>2. v = q[i + 1] /\ i + 1 \in 1 .. n
      BY <1>4, <1>5, <3>1
    <3> QED
      BY <1>5, <2>1, <3>2
  <2>3. ASSUME NEW v \in ToSet(q), v # q[1]
        PROVE  v \in ToSet(r)
    <3>1. PICK i \in 1 .. n : q[i] = v
      BY <1>5, <2>3
    <3>2. i - 1 \in 1 .. m /\ q[(i - 1) + 1] = v
      BY <1>4, <2>3, <3>1
    <3> QED
      BY <1>5, <3>2
  <2> QED
    BY <2>2, <2>3
<1>8. q[1] \in ToSet(q)
  BY <1>4, <1>5
<1> QED
  BY <1>1, <1>6, <1>7, <1>8 DEF r

\* A sequence without repetitions is as long as its values are many.
LEMMA ValuesCounted ==
  ASSUME NEW S, NEW q \in Seq(S), Once(q)
  PROVE  IsFiniteSet(ToSet(q)) /\ Cardinality(ToSet(q)) = Len(q)
<1>1. ExistsBijection(1 .. Len(q), ToSet(q))
  <2>1. q \in [1 .. Len(q) -> ToSet(q)]
    BY Values
  <2>2. \A t \in ToSet(q) : \E i \in 1 .. Len(q) : q[i] = t
    BY Values
  <2>3. \A i, j \in 1 .. Len(q) : q[i] = q[j] => i = j
    BY DEF Once
  <2>4. q \in Bijection(1 .. Len(q), ToSet(q))
    BY <2>1, <2>2, <2>3, Fun_IsBij
  <2> QED
    BY <2>4, Fun_ExistsBij
<1>2. Len(q) \in Nat
  OBVIOUS
<1> QED
  BY <1>1, <1>2, FS_CountingElements, FS_NatBijection

\* Taking a value out of a sequence that holds it once leaves the others, once.
LEMMA RemovedOnce ==
  ASSUME NEW S, NEW q \in Seq(S), NEW e, NEW k \in 1 .. Len(q), q[k] = e,
         Once(q), NEW r, r = RemoveAt(q, k)
  PROVE  /\ r \in Seq(S)
         /\ Once(r)
         /\ \A i \in 1 .. Len(r) : r[i] # e /\ \E j \in 1 .. Len(q) : r[i] = q[j]
         /\ \A j \in 1 .. Len(q) : q[j] # e => \E i \in 1 .. Len(r) : r[i] = q[j]
<1>0. \A i, j \in 1 .. Len(q) : i # j => q[i] # q[j]
  BY DEF Once
<1>1. /\ r \in Seq(S) /\ Len(r) = Len(q) - 1
      /\ \A i \in 1 .. Len(q) - 1 : r[i] = IF i < k THEN q[i] ELSE q[i + 1]
  BY RemovedAt
<1>2. \A i \in 1 .. Len(r) : r[i] # e /\ \E j \in 1 .. Len(q) : r[i] = q[j]
  BY <1>0, <1>1
<1>3. ASSUME NEW j \in 1 .. Len(q), q[j] # e
      PROVE  \E i \in 1 .. Len(r) : r[i] = q[j]
  <2>1. CASE j < k
    BY <1>1, <2>1
  <2>2. CASE j > k
    <3>1. j - 1 \in 1 .. Len(r) /\ r[j - 1] = q[j]
      BY <1>1, <2>2
    <3> QED
      BY <3>1
  <2> QED
    BY <1>3, <2>1, <2>2
<1>4. Once(r)
  BY <1>0, <1>1 DEF Once
<1> QED
  BY <1>1, <1>2, <1>3, <1>4

\* A sequence without one of its values, which came once.
LEMMA ValuesRemoved ==
  ASSUME NEW S, NEW q \in Seq(S), Once(q), NEW k \in 1 .. Len(q)
  PROVE  /\ RemoveAt(q, k) \in Seq(S) /\ Once(RemoveAt(q, k))
         /\ ToSet(RemoveAt(q, k)) = ToSet(q) \ {q[k]}
<1> DEFINE r == RemoveAt(q, k)
           e == q[k]
<1>1. /\ r \in Seq(S)
      /\ Once(r)
      /\ \A i \in 1 .. Len(r) : r[i] # e /\ \E j \in 1 .. Len(q) : r[i] = q[j]
      /\ \A j \in 1 .. Len(q) : q[j] # e => \E i \in 1 .. Len(r) : r[i] = q[j]
  BY RemovedOnce
<1> HIDE DEF r, e
<1>2. /\ \A v : v \in ToSet(q) <=> \E i \in 1 .. Len(q) : q[i] = v
      /\ \A v : v \in ToSet(r) <=> \E i \in 1 .. Len(r) : r[i] = v
  BY <1>1, Values
<1>3. \A v : v \in ToSet(r) <=> v \in ToSet(q) /\ v # e
  <2>1. ASSUME NEW v, v \in ToSet(r)
        PROVE  v \in ToSet(q) /\ v # e
    <3>1. PICK i \in 1 .. Len(r) : r[i] = v
      BY <1>2, <2>1
    <3> QED
      BY <1>1, <1>2, <3>1
  <2>2. ASSUME NEW v, v \in ToSet(q), v # e
        PROVE  v \in ToSet(r)
    <3>1. PICK j \in 1 .. Len(q) : q[j] = v
      BY <1>2, <2>2
    <3>2. \E i \in 1 .. Len(r) : r[i] = v
      BY <1>1, <2>2, <3>1
    <3> QED
      BY <1>2, <3>2
  <2> QED
    BY <2>1, <2>2
<1>4. ToSet(r) = ToSet(q) \ {e}
  BY <1>3
<1> QED
  BY <1>1, <1>4 DEF r, e
=============================================================================
