--------------------------- MODULE SequenceLemmas ---------------------------
(***************************************************************************)
(* What appending, popping, erasing and permuting do to the elements of a  *)
(* sequence: the steps every container of pending work is made of.         *)
(***************************************************************************)
EXTENDS Integers, Sequences, SequencesExt, SequenceTheorems, FiniteSetTheorems, TLAPS

(* Appending adds one element and keeps the others.                        *)
LEMMA AppendElements ==
  ASSUME NEW S, NEW s \in Seq(S), NEW e \in S
  PROVE  /\ Append(s, e) \in Seq(S)
         /\ \A x : Contains(Append(s, e), x) <=> Contains(s, x) \/ x = e
         /\ IsInjective(s) /\ ~ Contains(s, e) => IsInjective(Append(s, e))
<1>1. /\ Append(s, e) \in Seq(S)
      /\ Len(Append(s, e)) = Len(s) + 1
      /\ \A i \in 1..Len(s) : Append(s, e)[i] = s[i]
      /\ Append(s, e)[Len(s) + 1] = e
  OBVIOUS
<1>2. QED BY <1>1 DEF Contains, IsInjective

(* Popping the front takes away one element and keeps the others.          *)
LEMMA TailElements ==
  ASSUME NEW S, NEW s \in Seq(S), s # <<>>
  PROVE  /\ Tail(s) \in Seq(S)
         /\ Head(s) \in S /\ Contains(s, Head(s))
         /\ \A x : Contains(s, x) <=> Contains(Tail(s), x) \/ x = Head(s)
         /\ IsInjective(s) => IsInjective(Tail(s)) /\ ~ Contains(Tail(s), Head(s))
<1>1. /\ Tail(s) \in Seq(S) /\ Len(s) \in Nat \ {0}
      /\ Len(Tail(s)) = Len(s) - 1
      /\ \A i \in 1..Len(s)-1 : Tail(s)[i] = s[i+1]
      /\ Head(s) = s[1] /\ Head(s) \in S
  OBVIOUS
<1>2. Contains(s, Head(s))
  BY <1>1 DEF Contains
<1>3. ASSUME NEW x, Contains(s, x), x # Head(s)
      PROVE  Contains(Tail(s), x)
  <2>1. PICK i \in 1..Len(s) : s[i] = x
    BY <1>3 DEF Contains
  <2>2. i - 1 \in 1..Len(s)-1 /\ Tail(s)[i-1] = x
    BY <1>1, <1>3, <2>1
  <2>3. QED BY <1>1, <2>2 DEF Contains
<1>4. ASSUME NEW x, Contains(Tail(s), x)
      PROVE  Contains(s, x)
  <2>1. PICK i \in 1..Len(s)-1 : Tail(s)[i] = x
    BY <1>1, <1>4 DEF Contains
  <2>2. i + 1 \in 1..Len(s) /\ s[i+1] = x
    BY <1>1, <2>1
  <2>3. QED BY <2>2 DEF Contains
<1>5. ASSUME IsInjective(s)
      PROVE  IsInjective(Tail(s)) /\ ~ Contains(Tail(s), Head(s))
  <2>1. \A i, j \in 1..Len(s) : s[i] = s[j] => i = j
    BY <1>1, <1>5 DEF IsInjective
  <2>2. \A i \in 1..Len(s)-1 : i + 1 \in 1..Len(s) /\ i + 1 # 1
    BY <1>1
  <2>3. ~ Contains(Tail(s), Head(s))
    BY <1>1, <2>1, <2>2 DEF Contains
  <2>4. IsInjective(Tail(s))
    BY <1>1, <2>1, <2>2 DEF IsInjective
  <2>5. QED BY <2>3, <2>4
<1>6. QED BY <1>1, <1>2, <1>3, <1>4, <1>5

(* Erasing a position closes the gap.                                      *)
LEMMA RemoveAtShape ==
  ASSUME NEW S, NEW s \in Seq(S), NEW i \in 1..Len(s)
  PROVE  /\ RemoveAt(s, i) \in Seq(S)
         /\ Len(RemoveAt(s, i)) = Len(s) - 1
         /\ \A j \in 1..Len(s)-1 :
              RemoveAt(s, i)[j] = s[IF j < i THEN j ELSE j + 1]
<1> DEFINE front == SubSeq(s, 1, i-1)
           back  == SubSeq(s, i+1, Len(s))
<1>1. Len(s) \in Nat /\ \A j \in 1..Len(s) : s[j] \in S
  BY LenProperties, ElementOfSeq
<1>2. /\ front \in Seq(S) /\ Len(front) = i - 1
      /\ \A j \in 1..i-1 : front[j] = s[j]
  BY <1>1, SubSeqProperties
<1>3. /\ back \in Seq(S) /\ Len(back) = Len(s) - i
      /\ \A j \in 1..Len(s)-i : back[j] = s[i+j]
  <2>1. \A j \in i+1..Len(s) : s[j] \in S
    BY <1>1
  <2>2. /\ back \in Seq(S)
        /\ Len(back) = IF i+1 <= Len(s) THEN Len(s)-(i+1)+1 ELSE 0
        /\ \A j \in 1..Len(s)-(i+1)+1 : back[j] = s[(i+1)+j-1]
    BY <1>1, <2>1, SubSeqProperties
  <2>3. QED BY <1>1, <2>2
<1>4. RemoveAt(s, i) = front \o back
  BY DEF RemoveAt
<1> HIDE DEF front, back
<1>5. /\ front \o back \in Seq(S)
      /\ Len(front \o back) = (i - 1) + (Len(s) - i)
      /\ \A j \in 1..(i - 1) + (Len(s) - i) :
           (front \o back)[j] = IF j <= i - 1 THEN front[j] ELSE back[j - (i - 1)]
  <2>1. /\ front \o back \in Seq(S)
        /\ Len(front \o back) = Len(front) + Len(back)
        /\ \A j \in 1 .. Len(front) + Len(back) :
             (front \o back)[j] =
               IF j <= Len(front) THEN front[j] ELSE back[j - Len(front)]
    BY <1>2, <1>3, ConcatProperties
  <2>2. QED BY <1>2, <1>3, <2>1
<1>6. ASSUME NEW j \in 1..Len(s)-1
      PROVE  (front \o back)[j] = s[IF j < i THEN j ELSE j + 1]
  <2>1. CASE j < i
    BY <1>1, <1>2, <1>5, <2>1
  <2>2. CASE ~ (j < i)
    <3>1. j - (i - 1) \in 1..Len(s)-i /\ i + (j - (i - 1)) = j + 1
      BY <1>1, <2>2
    <3>2. QED BY <1>1, <1>3, <1>5, <2>2, <3>1
  <2>3. QED BY <2>1, <2>2
<1>7. QED BY <1>1, <1>5, <1>4, <1>6

(* Erasing a position takes away its element and keeps the others.         *)
LEMMA RemoveAtElements ==
  ASSUME NEW S, NEW s \in Seq(S), NEW i \in 1..Len(s)
  PROVE  /\ RemoveAt(s, i) \in Seq(S)
         /\ \A x : Contains(RemoveAt(s, i), x) => Contains(s, x)
         /\ \A x : Contains(s, x) => Contains(RemoveAt(s, i), x) \/ x = s[i]
         /\ IsInjective(s) =>
              IsInjective(RemoveAt(s, i)) /\ ~ Contains(RemoveAt(s, i), s[i])
<1> DEFINE t == RemoveAt(s, i)
           n == Len(s)
<1>1. /\ t \in Seq(S) /\ Len(t) = n - 1
      /\ \A j \in 1..n-1 : t[j] = s[IF j < i THEN j ELSE j + 1]
  BY RemoveAtShape
<1>2. n \in Nat /\ i \in 1..n /\ DOMAIN s = 1..n /\ DOMAIN t = 1..n-1
  BY <1>1, LenProperties
<1>3. /\ \A x : Contains(t, x) <=> \E j \in 1..n-1 : t[j] = x
      /\ \A x : Contains(s, x) <=> \E j \in 1..n : s[j] = x
      /\ IsInjective(s) <=> \A j, k \in 1..n : s[j] = s[k] => j = k
      /\ IsInjective(t) <=> \A j, k \in 1..n-1 : t[j] = t[k] => j = k
  BY <1>1, <1>2 DEF Contains, IsInjective
<1> HIDE DEF t, n
<1>4. ASSUME NEW x, Contains(t, x)
      PROVE  Contains(s, x)
  <2>1. PICK j \in 1..n-1 : t[j] = x
    BY <1>3, <1>4
  <2>2. (IF j < i THEN j ELSE j + 1) \in 1..n
    BY <1>2
  <2>3. QED BY <1>1, <1>3, <2>1, <2>2
<1>5. ASSUME NEW x, Contains(s, x), x # s[i]
      PROVE  Contains(t, x)
  <2>1. PICK k \in 1..n : s[k] = x
    BY <1>3, <1>5
  <2>2. CASE k < i
    BY <1>1, <1>2, <1>3, <2>1, <2>2
  <2>3. CASE ~ (k < i)
    <3>1. k - 1 \in 1..n-1 /\ ~ (k - 1 < i) /\ (k - 1) + 1 = k
      BY <1>2, <1>5, <2>1, <2>3
    <3>2. QED BY <1>1, <1>3, <2>1, <3>1
  <2>4. QED BY <2>2, <2>3
<1>6. ASSUME IsInjective(s)
      PROVE  IsInjective(t) /\ ~ Contains(t, s[i])
  <2>1. \A k, l \in 1..n : s[k] = s[l] => k = l
    BY <1>3, <1>6
  <2>2. \A j \in 1..n-1 : (IF j < i THEN j ELSE j + 1) \in 1..n \ {i}
    BY <1>2
  <2>3. ~ Contains(t, s[i])
    BY <1>1, <1>2, <1>3, <2>1, <2>2
  <2>4. ASSUME NEW j \in 1..n-1, NEW k \in 1..n-1, t[j] = t[k]
        PROVE  j = k
    <3>1. s[IF j < i THEN j ELSE j + 1] = s[IF k < i THEN k ELSE k + 1]
      BY <1>1, <2>4
    <3>2. (IF j < i THEN j ELSE j + 1) = (IF k < i THEN k ELSE k + 1)
      BY <2>1, <2>2, <3>1
    <3>3. QED BY <1>2, <3>2
  <2>5. QED BY <1>3, <2>3, <2>4
<1>7. QED BY <1>1, <1>4, <1>5, <1>6 DEF t

(* Rearranging a sequence keeps its elements.                              *)
LEMMA PermutedElements ==
  ASSUME NEW S, NEW s \in Seq(S),
         NEW p \in Bijection(1..Len(s), 1..Len(s)),
         NEW t, t = [k \in 1..Len(s) |-> s[p[k]]]
  PROVE  /\ t \in Seq(S)
         /\ Len(t) = Len(s)
         /\ \A x : Contains(t, x) <=> Contains(s, x)
         /\ IsInjective(s) => IsInjective(t)
<1> DEFINE n == Len(s)
<1>1. /\ n \in Nat /\ DOMAIN s = 1..n
      /\ \A k \in 1..n : s[k] \in S
  BY LenProperties, ElementOfSeq
<1>2. /\ p \in [1..n -> 1..n]
      /\ \A k, l \in 1..n : p[k] = p[l] => k = l
      /\ \A l \in 1..n : \E k \in 1..n : p[k] = l
  BY DEF Bijection, Injection, Surjection, IsInjective
<1> HIDE DEF n
<1>3. \A k \in 1..n : t[k] = s[p[k]] /\ t[k] \in S
  BY <1>1, <1>2 DEF n
<1>4. t \in Seq(S) /\ Len(t) = n /\ DOMAIN t = 1..n
  BY <1>1, <1>3 DEF n
<1>5. /\ \A x : Contains(t, x) <=> \E j \in 1..n : t[j] = x
      /\ \A x : Contains(s, x) <=> \E j \in 1..n : s[j] = x
      /\ IsInjective(s) <=> \A j, k \in 1..n : s[j] = s[k] => j = k
      /\ IsInjective(t) <=> \A j, k \in 1..n : t[j] = t[k] => j = k
  BY <1>1, <1>4 DEF Contains, IsInjective, n
<1>6. ASSUME NEW x, Contains(t, x)
      PROVE  Contains(s, x)
  <2>1. PICK k \in 1..n : t[k] = x
    BY <1>5, <1>6
  <2>2. p[k] \in 1..n /\ s[p[k]] = x
    BY <1>2, <1>3, <2>1
  <2>3. QED BY <1>5, <2>2
<1>7. ASSUME NEW x, Contains(s, x)
      PROVE  Contains(t, x)
  <2>1. PICK l \in 1..n : s[l] = x
    BY <1>5, <1>7
  <2>2. PICK k \in 1..n : p[k] = l
    BY <1>2, <2>1
  <2>3. QED BY <1>3, <1>5, <2>1, <2>2
<1>8. ASSUME IsInjective(s)
      PROVE  IsInjective(t)
  <2>1. ASSUME NEW k \in 1..n, NEW l \in 1..n, t[k] = t[l]
        PROVE  k = l
    <3>1. p[k] \in 1..n /\ p[l] \in 1..n /\ s[p[k]] = s[p[l]]
      BY <1>2, <1>3, <2>1
    <3>2. p[k] = p[l]
      BY <1>5, <1>8, <3>1
    <3>3. QED BY <1>2, <3>2
  <2>2. QED BY <1>5, <2>1
<1>9. QED BY <1>4, <1>6, <1>7, <1>8 DEF n

(* What a concatenation contains.                                          *)
LEMMA ConcatElements ==
  ASSUME NEW S, NEW s \in Seq(S), NEW t \in Seq(S)
  PROVE  /\ s \o t \in Seq(S)
         /\ \A x : Contains(s \o t, x) <=> Contains(s, x) \/ Contains(t, x)
         /\ IsInjective(s) /\ IsInjective(t) /\ (\A x : ~ (Contains(s, x) /\ Contains(t, x)))
              => IsInjective(s \o t)
<1> DEFINE u == s \o t
           m == Len(s)
           n == Len(t)
<1>1. /\ u \in Seq(S) /\ Len(u) = m + n /\ m \in Nat /\ n \in Nat
      /\ \A j \in 1..m + n : u[j] = IF j <= m THEN s[j] ELSE t[j - m]
  BY ConcatProperties, LenProperties
<1>2. DOMAIN u = 1..m+n /\ DOMAIN s = 1..m /\ DOMAIN t = 1..n
  BY <1>1, LenProperties
<1>3. /\ \A x : Contains(u, x) <=> \E j \in 1..m+n : u[j] = x
      /\ \A x : Contains(s, x) <=> \E j \in 1..m : s[j] = x
      /\ \A x : Contains(t, x) <=> \E j \in 1..n : t[j] = x
      /\ IsInjective(u) <=> \A j, k \in 1..m+n : u[j] = u[k] => j = k
      /\ IsInjective(s) <=> \A j, k \in 1..m : s[j] = s[k] => j = k
      /\ IsInjective(t) <=> \A j, k \in 1..n : t[j] = t[k] => j = k
  BY <1>1, <1>2 DEF Contains, IsInjective
<1> HIDE DEF u, m, n
<1>4. ASSUME NEW x, Contains(u, x)
      PROVE  Contains(s, x) \/ Contains(t, x)
  <2>1. PICK j \in 1..m+n : u[j] = x
    BY <1>3, <1>4
  <2>2. CASE j <= m
    BY <1>1, <1>3, <2>1, <2>2
  <2>3. CASE ~ (j <= m)
    <3>1. j - m \in 1..n /\ t[j - m] = x
      BY <1>1, <2>1, <2>3
    <3>2. QED BY <1>3, <3>1
  <2>4. QED BY <2>2, <2>3
<1>5. ASSUME NEW x, Contains(s, x)
      PROVE  Contains(u, x)
  <2>1. PICK j \in 1..m : s[j] = x
    BY <1>3, <1>5
  <2>2. j \in 1..m+n /\ u[j] = x
    BY <1>1, <2>1
  <2>3. QED BY <1>3, <2>2
<1>6. ASSUME NEW x, Contains(t, x)
      PROVE  Contains(u, x)
  <2>1. PICK j \in 1..n : t[j] = x
    BY <1>3, <1>6
  <2>2. m + j \in 1..m+n /\ ~ (m + j <= m) /\ (m + j) - m = j
    BY <1>1, <2>1
  <2>3. u[m + j] = x
    BY <1>1, <2>1, <2>2
  <2>4. QED BY <1>3, <2>2, <2>3
<1>7. ASSUME IsInjective(s), IsInjective(t), \A x : ~ (Contains(s, x) /\ Contains(t, x))
      PROVE  IsInjective(u)
  <2>1. \A i \in 1..m, k \in 1..n : s[i] # t[k]
    BY <1>3, <1>7
  <2>2. ASSUME NEW j \in 1..m+n, NEW k \in 1..m+n, u[j] = u[k]
        PROVE  j = k
    <3>1. \A i \in 1..m+n : IF i <= m THEN i \in 1..m ELSE i - m \in 1..n
      BY <1>1
    <3>2. CASE j <= m /\ k <= m
      BY <1>1, <1>3, <1>7, <2>2, <3>1, <3>2
    <3>3. CASE ~ (j <= m) /\ ~ (k <= m)
      <4>1. t[j - m] = t[k - m] /\ j - m \in 1..n /\ k - m \in 1..n
        BY <1>1, <2>2, <3>1, <3>3
      <4>2. j - m = k - m
        BY <1>3, <1>7, <4>1
      <4>3. QED BY <1>1, <4>2
    <3>4. CASE (j <= m /\ ~ (k <= m)) \/ (k <= m /\ ~ (j <= m))
      BY <1>1, <2>1, <2>2, <3>1, <3>4
    <3>5. QED BY <3>2, <3>3, <3>4
  <2>3. QED BY <1>3, <2>2
<1>8. QED BY <1>1, <1>4, <1>5, <1>6, <1>7 DEF u

(* a stands in front of b.                                                 *)
InOrder(s, a, b) == \E i, j \in 1..Len(s) : i < j /\ s[i] = a /\ s[j] = b

(* Appending keeps the order, and what is appended comes last.             *)
LEMMA AppendOrder ==
  ASSUME NEW S, NEW s \in Seq(S), NEW e \in S
  PROVE  /\ \A a, b : InOrder(s, a, b) => InOrder(Append(s, e), a, b)
         /\ \A a : Contains(s, a) => InOrder(Append(s, e), a, e)
<1>1. /\ Len(s) \in Nat /\ Len(Append(s, e)) = Len(s) + 1
      /\ \A i \in 1..Len(s) : Append(s, e)[i] = s[i]
      /\ Append(s, e)[Len(s) + 1] = e
  OBVIOUS
<1>2. ASSUME NEW a, NEW b, InOrder(s, a, b)
      PROVE  InOrder(Append(s, e), a, b)
  BY <1>1, <1>2 DEF InOrder
<1>3. ASSUME NEW a, Contains(s, a)
      PROVE  InOrder(Append(s, e), a, e)
  <2>1. PICK i \in 1..Len(s) : s[i] = a
    BY <1>3 DEF Contains
  <2>2. /\ i \in 1..Len(s)+1 /\ Len(s) + 1 \in 1..Len(s)+1 /\ i < Len(s) + 1
        /\ Append(s, e)[i] = a
    BY <1>1, <2>1
  <2>3. QED BY <1>1, <2>2 DEF InOrder
<1>4. QED BY <1>2, <1>3

(* Popping the front keeps the order of the others, and the front was in   *)
(* front of all of them.                                                   *)
LEMMA TailOrder ==
  ASSUME NEW S, NEW s \in Seq(S), s # <<>>, NEW a, NEW b, InOrder(s, a, b)
  PROVE  InOrder(Tail(s), a, b) \/ (a = Head(s) /\ Contains(Tail(s), b))
<1>1. /\ Tail(s) \in Seq(S) /\ Len(s) \in Nat \ {0}
      /\ Len(Tail(s)) = Len(s) - 1
      /\ \A i \in 1..Len(s)-1 : Tail(s)[i] = s[i+1]
      /\ Head(s) = s[1]
  OBVIOUS
<1>2. PICK i \in 1..Len(s), j \in 1..Len(s) : i < j /\ s[i] = a /\ s[j] = b
  BY DEF InOrder
<1>3. j - 1 \in 1..Len(s)-1 /\ (j - 1) + 1 = j
  BY <1>1, <1>2
<1>4. Tail(s)[j-1] = b
  BY <1>1, <1>2, <1>3
<1>5. CASE i = 1
  BY <1>1, <1>2, <1>3, <1>4, <1>5 DEF Contains
<1>6. CASE i # 1
  <2>1. i - 1 \in 1..Len(s)-1 /\ (i - 1) + 1 = i /\ i - 1 < j - 1
    BY <1>1, <1>2, <1>6
  <2>2. Tail(s)[i-1] = a
    BY <1>1, <1>2, <2>1
  <2>3. QED BY <1>1, <1>3, <1>4, <2>1, <2>2 DEF InOrder
<1>7. QED BY <1>5, <1>6

(* Erasing a position keeps the order of the others.                       *)
LEMMA RemoveAtOrder ==
  ASSUME NEW S, NEW s \in Seq(S), NEW k \in 1..Len(s),
         NEW a, NEW b, InOrder(s, a, b), a # s[k], b # s[k]
  PROVE  InOrder(RemoveAt(s, k), a, b)
<1> DEFINE t == RemoveAt(s, k)
           n == Len(s)
           Moved(i) == IF i < k THEN i ELSE i - 1
<1>1. /\ n \in Nat /\ k \in 1..n /\ Len(t) = n - 1
      /\ \A j \in 1..n-1 : t[j] = s[IF j < k THEN j ELSE j + 1]
  BY RemoveAtShape, LenProperties
<1> HIDE DEF t, n
<1>2. PICK i \in 1..n, j \in 1..n : i < j /\ s[i] = a /\ s[j] = b
  BY DEF InOrder, n
<1>3. i # k /\ j # k
  BY <1>2
<1>4. ASSUME NEW l \in 1..n, l # k
      PROVE  /\ Moved(l) \in 1..n-1
             /\ (IF Moved(l) < k THEN Moved(l) ELSE Moved(l) + 1) = l
  BY <1>1, <1>4
<1>5. Moved(i) < Moved(j)
  BY <1>1, <1>2, <1>3
<1>6. t[Moved(i)] = a /\ t[Moved(j)] = b
  BY <1>1, <1>2, <1>3, <1>4
<1>7. /\ Moved(i) \in 1..n-1 /\ Moved(j) \in 1..n-1
  BY <1>3, <1>4
<1> HIDE DEF Moved
<1>8. QED BY <1>1, <1>5, <1>6, <1>7 DEF InOrder, t

(* A sequence without repetitions has as many elements as it is long.      *)
LEMMA InjectiveCardinality ==
  ASSUME NEW S, NEW s \in Seq(S), IsInjective(s)
  PROVE  /\ IsFiniteSet({s[i] : i \in DOMAIN s})
         /\ Cardinality({s[i] : i \in DOMAIN s}) = Len(s)
<1> DEFINE T == {s[i] : i \in DOMAIN s}
           n == Len(s)
<1>1. n \in Nat /\ DOMAIN s = 1..n /\ s \in [1..n -> S]
  BY LenProperties
<1>2. s \in [1..n -> T]
  BY <1>1
<1>3. s \in Surjection(1..n, T)
  BY <1>1, <1>2 DEF Surjection
<1>4. s \in Injection(1..n, T)
  BY <1>1, <1>2 DEF Injection, IsInjective
<1>5. IsFiniteSet(1..n) /\ Cardinality(1..n) = n
  BY <1>1, FS_Interval
<1> HIDE DEF T, n
<1>6. IsFiniteSet(T) /\ Cardinality(T) = n
  BY <1>3, <1>4, <1>5, FS_Surjection
<1>7. QED BY <1>6 DEF T, n
=============================================================================
