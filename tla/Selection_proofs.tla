--------------------------- MODULE Selection_proofs ---------------------------
(***************************************************************************)
(* What the proofs about lists share: numbers have a least one; a filter of *)
(* a list (Selection) is the list read along the places it keeps, so that a *)
(* filter of two lists one behind the other, of a filter, of one item is    *)
(* what one takes it for; InOrder sorts what an order without ties orders;  *)
(* and a loop, written as a recursive function, exists and keeps what its   *)
(* steps keep.                                                              *)
(***************************************************************************)
EXTENDS Selection, SequenceTheorems, FiniteSetTheorems, WellFoundedInduction, TLAPS

---------------------------------------------------------------------------
(* Induction: a set of numbers has a least element.                         *)
LEMMA Least ==
  ASSUME NEW T \in SUBSET Nat, T # {}
  PROVE  \E x \in T : \A y \in T : x <= y
<1>1. PICK R : R = OpToRel(<, Nat) /\ IsWellFoundedOn(R, Nat)
  BY NatLessThanWellFounded
<1>2. PICK x \in T : \A y \in T : <<y, x>> \notin R
  BY <1>1, WFMin
<1>3. \A y \in T : ~(y < x)
  BY <1>1, <1>2 DEF OpToRel
<1> QED
  BY <1>2, <1>3

(* A bounded one has a greatest.                                            *)
LEMMA Greatest ==
  ASSUME NEW N \in Nat, NEW T \in SUBSET (1..N), T # {}
  PROVE  \E x \in T : \A y \in T : y <= x
<1> DEFINE U == {N - x : x \in T}
<1>1. \A x \in T : N - x \in Nat
  OBVIOUS
<1>2. U \in SUBSET Nat /\ U # {}
  BY <1>1
<1> HIDE DEF U
<1>3. PICK u \in U : \A w \in U : u <= w
  BY <1>2, Least
<1>4. PICK x \in T : u = N - x
  BY DEF U
<1>5. ASSUME NEW y \in T PROVE y <= x
  <2>1. N - y \in U
    BY DEF U
  <2>2. N - x <= N - y
    BY <2>1, <1>3, <1>4
  <2> QED
    BY <2>2
<1> QED
  BY <1>5

---------------------------------------------------------------------------
(* A list is what stands before a place and behind it, and what stands      *)
(* around an item.                                                          *)
LEMMA CutIn ==
  ASSUME NEW X, NEW s \in Seq(X), NEW n \in 0..Len(s)
  PROVE  /\ SubSeq(s, 1, n) \in Seq(X) /\ SubSeq(s, n + 1, Len(s)) \in Seq(X)
         /\ s = SubSeq(s, 1, n) \o SubSeq(s, n + 1, Len(s))
         /\ Len(SubSeq(s, 1, n)) = n
         /\ \A j \in 1..n : SubSeq(s, 1, n)[j] = s[j]
<1>1. Len(s) \in Nat /\ n \in Nat /\ s \in Seq(X)
  OBVIOUS
<1>2. \A i \in 1..Len(s) : s[i] \in X
  BY <1>1, ElementOfSeq
<1>3. \A i \in 1..n : s[i] \in X
  BY <1>1, <1>2
<1>4. \A i \in (n + 1)..Len(s) : s[i] \in X
  BY <1>1, <1>2
<1>5. /\ SubSeq(s, 1, n) \in Seq(X)
      /\ Len(SubSeq(s, 1, n)) = IF 1 <= n THEN (n - 1) + 1 ELSE 0
      /\ \A i \in 1..((n - 1) + 1) : SubSeq(s, 1, n)[i] = s[(1 + i) - 1]
  BY <1>1, <1>3, SubSeqProperties
<1>6. SubSeq(s, n + 1, Len(s)) \in Seq(X)
  BY <1>1, <1>4, SubSeqProperties
<1>7. SubSeq(s, 1, n) \o SubSeq(s, n + 1, Len(s)) = SubSeq(s, 1, Len(s))
  <2>1. 1 \in 1..(Len(s) + 1) /\ n \in (1 - 1)..Len(s) /\ Len(s) \in n..Len(s)
    BY <1>1
  <2> QED
    BY <1>1, <2>1, ConcatAdjacentSubSeq
<1>8. SubSeq(s, 1, Len(s)) = s
  BY <1>1, SubSeqFull
<1>9. Len(SubSeq(s, 1, n)) = n /\ \A j \in 1..n : SubSeq(s, 1, n)[j] = s[j]
  <2>1. Len(SubSeq(s, 1, n)) = n
    BY <1>1, <1>5
  <2>2. \A j \in 1..n : j \in 1..((n - 1) + 1) /\ (1 + j) - 1 = j
    BY <1>1
  <2> QED
    BY <1>5, <2>1, <2>2
<1> QED
  BY <1>5, <1>6, <1>7, <1>8, <1>9

LEMMA AroundIn ==
  ASSUME NEW X, NEW s \in Seq(X), NEW i \in 1..Len(s)
  PROVE  /\ SubSeq(s, 1, i - 1) \in Seq(X) /\ SubSeq(s, i + 1, Len(s)) \in Seq(X)
         /\ s[i] \in X /\ <<s[i]>> \in Seq(X)
         /\ s = SubSeq(s, 1, i - 1) \o (<<s[i]>> \o SubSeq(s, i + 1, Len(s)))
         /\ <<s[i]>> \o SubSeq(s, i + 1, Len(s)) \in Seq(X)
         /\ Len(SubSeq(s, 1, i - 1)) = i - 1
         /\ \A j \in 1..(i - 1) : SubSeq(s, 1, i - 1)[j] = s[j]
<1>1. Len(s) \in Nat /\ s \in Seq(X) /\ i - 1 \in 0..Len(s) /\ i \in 0..Len(s) /\ (i - 1) + 1 = i
  OBVIOUS
<1>2. /\ SubSeq(s, 1, i - 1) \in Seq(X)
      /\ s = SubSeq(s, 1, i - 1) \o SubSeq(s, (i - 1) + 1, Len(s))
      /\ Len(SubSeq(s, 1, i - 1)) = i - 1
      /\ \A j \in 1..(i - 1) : SubSeq(s, 1, i - 1)[j] = s[j]
  BY <1>1, CutIn
<1>3. SubSeq(s, i + 1, Len(s)) \in Seq(X)
  BY <1>1, CutIn
<1>4. Len(s) \in i..Len(s)
  BY <1>1
<1>5. SubSeq(s, i, Len(s)) = <<s[i]>> \o SubSeq(s, i + 1, Len(s))
  BY <1>1, <1>4, SubSeqRecursiveFirst
<1>6. s[i] \in X
  BY <1>1, ElementOfSeq
<1>7. <<s[i]>> \in Seq(X)
  BY <1>6
<1>8. <<s[i]>> \o SubSeq(s, i + 1, Len(s)) \in Seq(X)
  BY <1>3, <1>7, ConcatProperties
<1> QED
  BY <1>1, <1>2, <1>3, <1>5, <1>6, <1>7, <1>8

---------------------------------------------------------------------------
(* Filters.  A set of places is enumerated in one way.                      *)

Enumerates(r, n, I) ==
  /\ r \in [1..n -> I]
  /\ \A a, b \in 1..n : a < b => r[a] < r[b]
  /\ \A i \in I : \E a \in 1..n : r[a] = i

LEMMA Counting ==
  ASSUME NEW I \in SUBSET Nat, NEW n \in Nat, NEW r, Enumerates(r, n, I)
  PROVE  Cardinality(I) = n
<1>1. \A a, b \in 1..n : r[a] = r[b] => a = b
  <2> SUFFICES ASSUME NEW a \in 1..n, NEW b \in 1..n, r[a] = r[b] PROVE a = b
    OBVIOUS
  <2>1. r[a] \in Nat /\ r[b] \in Nat
    BY DEF Enumerates
  <2>2. ~(a < b) /\ ~(b < a)
    BY <2>1 DEF Enumerates
  <2> QED
    BY <2>2
<1>2. r \in Bijection(1..n, I)
  BY <1>1 DEF Enumerates, Bijection, Injection, Surjection, IsInjective
<1> QED
  BY <1>2, FS_CountingElements DEF ExistsBijection

LEMMA Enumeration ==
  ASSUME NEW I \in SUBSET Nat, NEW n \in Nat, NEW r, Enumerates(r, n, I)
  PROVE  /\ Cardinality(I) = n
         /\ \A k \in 1..n : Nth(I, k) = r[k]
<1>1. Cardinality(I) = n
  BY Counting
<1>2. \A k \in 1..n : Cardinality({j \in I : j <= r[k]}) = k
  <2> SUFFICES ASSUME NEW k \in 1..n PROVE Cardinality({j \in I : j <= r[k]}) = k
    OBVIOUS
  <2> DEFINE J == {j \in I : j <= r[k]}
             q == [m \in 1..k |-> r[m]]
  <2>1. r[k] \in Nat /\ \A m \in 1..n : r[m] \in Nat
    BY DEF Enumerates
  <2>2. \A m \in 1..k : m \in 1..n /\ r[m] <= r[k] /\ r[m] \in J
    <3> SUFFICES ASSUME NEW m \in 1..k PROVE m \in 1..n /\ r[m] <= r[k] /\ r[m] \in J
      OBVIOUS
    <3>1. m \in 1..n /\ (m < k \/ m = k)
      OBVIOUS
    <3>2. r[m] <= r[k]
      BY <3>1, <2>1 DEF Enumerates
    <3> QED
      BY <3>1, <3>2 DEF Enumerates
  <2>3. \A i \in J : \E m \in 1..k : q[m] = i
    <3> SUFFICES ASSUME NEW i \in J PROVE \E m \in 1..k : q[m] = i
      OBVIOUS
    <3>1. PICK m \in 1..n : r[m] = i
      BY DEF Enumerates
    <3>2. ~(k < m)
      BY <3>1, <2>1 DEF Enumerates
    <3>3. m \in 1..k
      BY <3>2
    <3> QED
      BY <3>1, <3>3
  <2>4. Enumerates(q, k, J)
    BY <2>2, <2>3 DEF Enumerates
  <2>5. k \in Nat
    OBVIOUS
  <2> HIDE DEF q
  <2>6. J \in SUBSET Nat
    OBVIOUS
  <2> QED
    BY ONLY <2>4, <2>5, <2>6, Counting
<1>3. \A k \in 1..n : \A i \in I : Cardinality({j \in I : j <= i}) = k => i = r[k]
  BY <1>2 DEF Enumerates
<1>4. \A k \in 1..n : r[k] \in I
  BY DEF Enumerates
<1> QED
  BY <1>1, <1>2, <1>3, <1>4 DEF Nth

Countable(I) == \E n \in Nat : \E r \in [1..n -> I] : Enumerates(r, n, I)

LEMMA CountableUpTo ==
  ASSUME NEW N \in Nat, NEW I \in SUBSET (1..N), N = 0 \/ Countable(I \ {N})
  PROVE  Countable(I)
<1>1. CASE N = 0
  <2>1. I = {} /\ <<>> \in [1..0 -> I]
    BY <1>1
  <2>2. Enumerates(<<>>, 0, I)
    BY <2>1 DEF Enumerates
  <2> QED
    BY <2>1, <2>2 DEF Countable
<1>2. CASE N # 0 /\ N \notin I
  <2>1. I \ {N} = I
    BY <1>2
  <2> QED
    BY <2>1, <1>2
<1>3. CASE N # 0 /\ N \in I
  <2>1. PICK n \in Nat : \E r \in [1..n -> I \ {N}] : Enumerates(r, n, I \ {N})
    BY <1>3 DEF Countable
  <2>2. PICK r \in [1..n -> I \ {N}] : Enumerates(r, n, I \ {N})
    BY <2>1
  <2> DEFINE q == [k \in 1..(n + 1) |-> IF k = n + 1 THEN N ELSE r[k]]
  <2>3. \A k \in 1..n : r[k] \in I /\ r[k] < N /\ q[k] = r[k]
    <3> SUFFICES ASSUME NEW k \in 1..n PROVE r[k] \in I /\ r[k] < N /\ q[k] = r[k]
      OBVIOUS
    <3>1. r[k] \in I /\ r[k] \in 1..N /\ r[k] # N
      OBVIOUS
    <3>2. k \in 1..(n + 1) /\ k # n + 1
      OBVIOUS
    <3> QED
      BY <3>1, <3>2
  <2>4. q[n + 1] = N /\ q \in [1..(n + 1) -> I]
    BY <1>3, <2>3
  <2> HIDE DEF q
  <2>5. \A a, b \in 1..(n + 1) : a < b => q[a] < q[b]
    <3> SUFFICES ASSUME NEW a \in 1..(n + 1), NEW b \in 1..(n + 1), a < b PROVE q[a] < q[b]
      OBVIOUS
    <3>1. a \in 1..n
      OBVIOUS
    <3>2. CASE b \in 1..n
      BY <3>1, <3>2, <2>2, <2>3 DEF Enumerates
    <3>3. CASE b = n + 1
      BY <3>1, <3>3, <2>3, <2>4
    <3> QED
      BY <3>2, <3>3
  <2>6. \A i \in I : \E a \in 1..(n + 1) : q[a] = i
    <3> SUFFICES ASSUME NEW i \in I PROVE \E a \in 1..(n + 1) : q[a] = i
      OBVIOUS
    <3>1. CASE i = N
      <4>1. n + 1 \in 1..(n + 1)
        OBVIOUS
      <4> QED
        BY <3>1, <4>1, <2>4
    <3>2. CASE i # N
      <4>1. PICK a \in 1..n : r[a] = i
        BY <3>2, <2>2 DEF Enumerates
      <4>2. a \in 1..(n + 1)
        OBVIOUS
      <4> QED
        BY <4>1, <4>2, <2>3
    <3> QED
      BY <3>1, <3>2
  <2>7. n + 1 \in Nat /\ Enumerates(q, n + 1, I)
    BY <2>4, <2>5, <2>6 DEF Enumerates
  <2> QED
    BY <2>4, <2>7 DEF Countable
<1> QED
  BY <1>1, <1>2, <1>3

LEMMA PlacesCountable ==
  ASSUME NEW N \in Nat, NEW I \in SUBSET (1..N)
  PROVE  Countable(I)
<1> DEFINE Bad == {B \in Nat : ~(\A J \in SUBSET (1..B) : Countable(J))}
<1>1. SUFFICES ASSUME Bad # {} PROVE FALSE
  OBVIOUS
<1>2. Bad \in SUBSET Nat
  OBVIOUS
<1> HIDE DEF Bad
<1>3. PICK B \in Bad : \A m \in Bad : B <= m
  BY ONLY <1>1, <1>2, Least
<1>4. B \in Nat
  BY <1>2, <1>3
<1>5. PICK J \in SUBSET (1..B) : ~Countable(J)
  BY <1>3 DEF Bad
<1>6. CASE B = 0
  BY <1>4, <1>5, <1>6, CountableUpTo
<1>7. CASE B # 0
  <2>1. B - 1 \in Nat /\ B - 1 \notin Bad
    BY <1>3, <1>4, <1>7
  <2>2. \A K \in SUBSET (1..(B - 1)) : Countable(K)
    BY <2>1 DEF Bad
  <2>3. J \ {B} \in SUBSET (1..(B - 1))
    BY <1>4, <1>7
  <2>4. Countable(J \ {B})
    BY <2>2, <2>3
  <2> QED
    BY <2>4, <1>4, <1>5, CountableUpTo
<1> QED
  BY <1>6, <1>7

(* So a filter is the list read along the enumeration of its places.        *)
ReadAlong(s, I, n, r) == Chosen(s, I) = [k \in 1..n |-> s[r[k]]]

LEMMA ChosenIs ==
  ASSUME NEW X, NEW s \in Seq(X), NEW I \in SUBSET (1..Len(s)),
         NEW n \in Nat, NEW r, Enumerates(r, n, I)
  PROVE  ReadAlong(s, I, n, r)
<1>1. I \in SUBSET Nat
  OBVIOUS
<1>2. Cardinality(I) = n /\ \A k \in 1..n : Nth(I, k) = r[k]
  BY <1>1, Enumeration
<1> QED
  BY <1>2 DEF Chosen, ReadAlong

LEMMA ChosenAlong ==
  ASSUME NEW X, NEW s \in Seq(X), NEW I \in SUBSET (1..Len(s)),
         NEW n \in Nat, NEW r, Enumerates(r, n, I)
  PROVE  /\ Chosen(s, I) = [k \in 1..n |-> s[r[k]]]
         /\ Chosen(s, I) \in Seq(X)
         /\ Len(Chosen(s, I)) = n
         /\ \A k \in 1..n : r[k] \in I /\ r[k] \in 1..Len(s) /\ Chosen(s, I)[k] = s[r[k]]
<1>1. ReadAlong(s, I, n, r)
  BY ONLY s \in Seq(X), I \in SUBSET (1..Len(s)), n \in Nat, Enumerates(r, n, I), ChosenIs
<1>2. Chosen(s, I) = [k \in 1..n |-> s[r[k]]]
  BY ONLY <1>1 DEF ReadAlong
<1>3. \A k \in 1..n : r[k] \in I
  BY DEF Enumerates
<1>4. \A k \in 1..n : r[k] \in 1..Len(s)
  BY <1>3
<1>5. \A k \in 1..n : s[r[k]] \in X
  BY <1>4, ElementOfSeq
<1>6. [k \in 1..n |-> s[r[k]]] \in Seq(X)
  BY <1>5, IsASeq
<1> QED
  BY <1>2, <1>3, <1>4, <1>6

LEMMA ChosenPlaces ==
  ASSUME NEW X, NEW s \in Seq(X), NEW I \in SUBSET (1..Len(s))
  PROVE  \E n \in Nat : \E r \in [1..n -> I] : Enumerates(r, n, I)
<1>1. Len(s) \in Nat
  OBVIOUS
<1> QED
  BY <1>1, PlacesCountable DEF Countable

(* A filter of two lists behind each other.                                 *)
Both(I, J, c) == I \cup {c + j : j \in J}

ChosenApart(s, t, I, J) == Chosen(s \o t, Both(I, J, Len(s))) = Chosen(s, I) \o Chosen(t, J)

LEMMA ChosenConcat ==
  ASSUME NEW X, NEW s \in Seq(X), NEW t \in Seq(X),
         NEW I \in SUBSET (1..Len(s)), NEW J \in SUBSET (1..Len(t))
  PROVE  ChosenApart(s, t, I, J)
<1> SUFFICES Chosen(s \o t, Both(I, J, Len(s))) = Chosen(s, I) \o Chosen(t, J)
  BY DEF ChosenApart
<1>1. PICK K \in SUBSET (1..(Len(s) + Len(t))) : K = Both(I, J, Len(s))
  <2>1. Len(s) \in Nat /\ Len(t) \in Nat
    OBVIOUS
  <2>2. \A j \in J : Len(s) + j \in 1..(Len(s) + Len(t))
    BY <2>1
  <2>3. \A i \in I : i \in 1..(Len(s) + Len(t))
    BY <2>1
  <2>4. Both(I, J, Len(s)) \subseteq 1..(Len(s) + Len(t))
    BY <2>2, <2>3 DEF Both
  <2> QED
    BY <2>4
<1>2. PICK m \in Nat : \E p \in [1..m -> I] : Enumerates(p, m, I)
  BY ChosenPlaces
<1>3. PICK p \in [1..m -> I] : Enumerates(p, m, I)
  BY <1>2
<1>4. PICK n \in Nat : \E q \in [1..n -> J] : Enumerates(q, n, J)
  BY ChosenPlaces
<1>5. PICK q \in [1..n -> J] : Enumerates(q, n, J)
  BY <1>4
<1>6. PICK c \in Nat : c = Len(s)
  OBVIOUS
<1> DEFINE r == [k \in 1..(m + n) |-> IF k <= m THEN p[k] ELSE c + q[k - m]]
<1>7. \A k \in 1..m : r[k] = p[k] /\ p[k] \in 1..c /\ p[k] \in K
  <2> SUFFICES ASSUME NEW k \in 1..m PROVE r[k] = p[k] /\ p[k] \in 1..c /\ p[k] \in K
    OBVIOUS
  <2>1. k \in 1..(m + n) /\ k <= m
    OBVIOUS
  <2>2. p[k] \in I /\ p[k] \in 1..Len(s)
    OBVIOUS
  <2> QED
    BY <2>1, <2>2, <1>1, <1>6 DEF Both
<1>8. \A k \in 1..n : r[m + k] = c + q[k] /\ q[k] \in 1..Len(t) /\ c + q[k] \in K
  <2> SUFFICES ASSUME NEW k \in 1..n
               PROVE  r[m + k] = c + q[k] /\ q[k] \in 1..Len(t) /\ c + q[k] \in K
    OBVIOUS
  <2>1. m + k \in 1..(m + n) /\ ~(m + k <= m) /\ (m + k) - m = k
    OBVIOUS
  <2>2. q[k] \in J /\ q[k] \in 1..Len(t)
    OBVIOUS
  <2> QED
    BY <2>1, <2>2, <1>1, <1>6 DEF Both
<1>9. \A k \in 1..(m + n) : k \in 1..m \/ (k - m \in 1..n /\ k = m + (k - m))
  OBVIOUS
<1>10. \A k \in 1..(m + n) : r[k] \in K
  <2> SUFFICES ASSUME NEW k \in 1..(m + n) PROVE r[k] \in K
    OBVIOUS
  <2> HIDE DEF r
  <2>1. CASE k \in 1..m
    BY <2>1, <1>7
  <2>2. CASE k - m \in 1..n /\ k = m + (k - m)
    BY <2>2, <1>8
  <2> QED
    BY <2>1, <2>2, <1>9
<1>10a. r \in [1..(m + n) -> K]
  BY <1>10
<1> HIDE DEF r
<1>11. \A a, b \in 1..(m + n) : a < b => r[a] < r[b]
  <2> SUFFICES ASSUME NEW a \in 1..(m + n), NEW b \in 1..(m + n), a < b PROVE r[a] < r[b]
    OBVIOUS
  <2>1. CASE b \in 1..m
    <3>1. a \in 1..m
      BY <2>1
    <3> QED
      BY <2>1, <3>1, <1>3, <1>7 DEF Enumerates
  <2>2. CASE a \in 1..m /\ b - m \in 1..n
    <3>1. r[a] <= c /\ r[a] \in Nat
      BY <2>2, <1>7
    <3>2. r[m + (b - m)] = c + q[b - m] /\ q[b - m] \in 1..Len(t)
      BY <2>2, <1>8
    <3>3. m + (b - m) = b
      OBVIOUS
    <3> QED
      BY <3>1, <3>2, <3>3
  <2>3. CASE a - m \in 1..n /\ b - m \in 1..n
    <3>1. r[m + (a - m)] = c + q[a - m] /\ q[a - m] \in 1..Len(t)
      BY <2>3, <1>8
    <3>2. r[m + (b - m)] = c + q[b - m] /\ q[b - m] \in 1..Len(t)
      BY <2>3, <1>8
    <3>3. m + (b - m) = b /\ m + (a - m) = a /\ a - m < b - m
      OBVIOUS
    <3>4. q[a - m] < q[b - m]
      BY <2>3, <3>3, <1>5 DEF Enumerates
    <3> QED
      BY <3>1, <3>2, <3>3, <3>4
  <2> QED
    BY <2>1, <2>2, <2>3, <1>9
<1>12. \A i \in K : \E a \in 1..(m + n) : r[a] = i
  <2> SUFFICES ASSUME NEW i \in K PROVE \E a \in 1..(m + n) : r[a] = i
    OBVIOUS
  <2>1. CASE i <= c
    <3>1. i \in I
      BY <2>1, <1>1, <1>6 DEF Both
    <3>2. PICK a \in 1..m : p[a] = i
      BY <3>1, <1>3 DEF Enumerates
    <3>3. a \in 1..(m + n)
      OBVIOUS
    <3> QED
      BY <3>2, <3>3, <1>7
  <2>2. CASE ~(i <= c)
    <3>1. PICK j \in J : i = c + j
      BY <2>2, <1>1, <1>6 DEF Both
    <3>2. j \in J
      OBVIOUS
    <3>3. PICK a \in 1..n : q[a] = j
      BY <3>2, <1>5 DEF Enumerates
    <3>4. m + a \in 1..(m + n)
      OBVIOUS
    <3> QED
      BY <3>1, <3>3, <3>4, <1>8
  <2> QED
    BY <2>1, <2>2
<1>13. m + n \in Nat /\ Enumerates(r, m + n, K)
  BY <1>10a, <1>11, <1>12 DEF Enumerates
<1>14. /\ s \o t \in Seq(X) /\ Len(s \o t) = Len(s) + Len(t)
       /\ \A i \in 1..Len(s) : (s \o t)[i] = s[i]
       /\ \A j \in 1..Len(t) : (s \o t)[Len(s) + j] = t[j]
  BY ConcatProperties
<1>15. PICK st : st = s \o t
  OBVIOUS
<1>16. /\ Len(Chosen(st, K)) = m + n /\ Chosen(st, K) \in Seq(X)
       /\ \A k \in 1..(m + n) : Chosen(st, K)[k] = st[r[k]]
  <2>1. st \in Seq(X) /\ K \in SUBSET (1..Len(st))
    BY <1>14, <1>15
  <2>2. PICK c2 \in Nat : c2 = m + n
    OBVIOUS
  <2>3. Enumerates(r, c2, K)
    BY <1>13, <2>2
  <2>4. /\ Len(Chosen(st, K)) = c2 /\ Chosen(st, K) \in Seq(X)
        /\ \A k \in 1..c2 : Chosen(st, K)[k] = st[r[k]]
    BY ONLY <2>1, c2 \in Nat, <2>3, ChosenAlong
  <2> QED
    BY <2>2, <2>4
<1>17. /\ Len(Chosen(s, I)) = m /\ Chosen(s, I) \in Seq(X)
       /\ \A k \in 1..m : Chosen(s, I)[k] = s[p[k]]
  BY <1>3, ChosenAlong
<1>18. /\ Len(Chosen(t, J)) = n /\ Chosen(t, J) \in Seq(X)
       /\ \A k \in 1..n : Chosen(t, J)[k] = t[q[k]]
  BY ONLY t \in Seq(X), J \in SUBSET (1..Len(t)), n \in Nat, <1>5, ChosenAlong
<1>19. \A k \in 1..m : Chosen(st, K)[k] = Chosen(s, I)[k]
  <2> SUFFICES ASSUME NEW k \in 1..m PROVE Chosen(st, K)[k] = Chosen(s, I)[k]
    OBVIOUS
  <2>1. k \in 1..(m + n)
    OBVIOUS
  <2>2. r[k] = p[k] /\ p[k] \in 1..Len(s)
    BY <1>6, <1>7
  <2>3. st[p[k]] = s[p[k]]
    BY <2>2, <1>14, <1>15
  <2> QED
    BY <2>1, <2>2, <2>3, <1>16, <1>17
<1>20. \A k \in 1..n : Chosen(st, K)[m + k] = Chosen(t, J)[k]
  <2> SUFFICES ASSUME NEW k \in 1..n PROVE Chosen(st, K)[m + k] = Chosen(t, J)[k]
    OBVIOUS
  <2>1. m + k \in 1..(m + n)
    OBVIOUS
  <2>2. r[m + k] = Len(s) + q[k] /\ q[k] \in 1..Len(t)
    BY <1>6, <1>8
  <2>3. st[Len(s) + q[k]] = t[q[k]]
    BY <2>2, <1>14, <1>15
  <2> QED
    BY <2>1, <2>2, <2>3, <1>16, <1>18
<1>21. PICK u \in Seq(X) : u = Chosen(s, I)
  BY <1>17
<1>22. PICK v \in Seq(X) : v = Chosen(t, J)
  BY <1>18
<1>23. PICK w \in Seq(X) : w = Chosen(st, K)
  BY <1>16
<1>24. /\ u \o v \in Seq(X) /\ Len(u \o v) = m + n
       /\ \A k \in 1..m : (u \o v)[k] = u[k]
       /\ \A k \in 1..n : (u \o v)[m + k] = v[k]
  <2>1. Len(u) = m /\ Len(v) = n
    BY <1>17, <1>18, <1>21, <1>22
  <2>2. /\ u \o v \in Seq(X) /\ Len(u \o v) = Len(u) + Len(v)
        /\ \A i \in 1..(Len(u) + Len(v)) : (u \o v)[i] = IF i <= Len(u) THEN u[i] ELSE v[i - Len(u)]
    BY ConcatProperties
  <2>3. \A k \in 1..m : k \in 1..(m + n) /\ k <= m
    OBVIOUS
  <2>4. \A k \in 1..n : m + k \in 1..(m + n) /\ ~(m + k <= m) /\ (m + k) - m = k
    OBVIOUS
  <2> QED
    BY <2>1, <2>2, <2>3, <2>4
<1>25. Len(w) = m + n /\ (\A k \in 1..m : w[k] = u[k]) /\ (\A k \in 1..n : w[m + k] = v[k])
  BY <1>16, <1>19, <1>20, <1>21, <1>22, <1>23
<1>26. \A k \in 1..(m + n) : w[k] = (u \o v)[k]
  <2> SUFFICES ASSUME NEW k \in 1..(m + n) PROVE w[k] = (u \o v)[k]
    OBVIOUS
  <2>1. CASE k \in 1..m
    BY <2>1, <1>24, <1>25
  <2>2. CASE k - m \in 1..n /\ k = m + (k - m)
    BY <2>2, <1>24, <1>25
  <2> QED
    BY <2>1, <2>2, <1>9
<1>27. w = u \o v
  BY <1>24, <1>25, <1>26, SeqEqual
<1> QED
  BY <1>1, <1>15, <1>21, <1>22, <1>23, <1>27

(* A filter of what a filter kept.                                          *)
LEMMA ChosenTwice ==
  ASSUME NEW X, NEW s \in Seq(X), NEW I \in SUBSET (1..Len(s)), NEW J \in SUBSET I,
         NEW n \in Nat, NEW r, Enumerates(r, n, I),
         NEW K \in SUBSET (1..n), \A k \in 1..n : k \in K <=> r[k] \in J
  PROVE  Chosen(Chosen(s, I), K) = Chosen(s, J)
<1>1. /\ Chosen(s, I) \in Seq(X) /\ Len(Chosen(s, I)) = n
      /\ \A k \in 1..n : r[k] \in I /\ r[k] \in 1..Len(s) /\ Chosen(s, I)[k] = s[r[k]]
  BY ChosenAlong
<1>2. PICK w \in Seq(X) : w = Chosen(s, I)
  BY <1>1
<1>3. K \in SUBSET (1..Len(w))
  BY <1>1, <1>2
<1>4. PICK m \in Nat : \E q \in [1..m -> K] : Enumerates(q, m, K)
  BY <1>3, ChosenPlaces
<1>5. PICK q \in [1..m -> K] : Enumerates(q, m, K)
  BY <1>4
<1> DEFINE z == [k \in 1..m |-> r[q[k]]]
<1>6. \A k \in 1..m : q[k] \in K /\ q[k] \in 1..n /\ z[k] = r[q[k]] /\ z[k] \in J
  OBVIOUS
<1>7. z \in [1..m -> J]
  BY <1>6
<1> HIDE DEF z
<1>8. \A a, b \in 1..m : a < b => z[a] < z[b]
  BY <1>5, <1>6 DEF Enumerates
<1>9. \A i \in J : \E a \in 1..m : z[a] = i
  <2> SUFFICES ASSUME NEW i \in J PROVE \E a \in 1..m : z[a] = i
    OBVIOUS
  <2>1. PICK k \in 1..n : r[k] = i
    BY DEF Enumerates
  <2>2. k \in K
    BY <2>1
  <2>3. PICK a \in 1..m : q[a] = k
    BY <2>2, <1>5 DEF Enumerates
  <2> QED
    BY <2>1, <2>3, <1>6
<1>10. Enumerates(z, m, J)
  BY <1>7, <1>8, <1>9 DEF Enumerates
<1>11. J \in SUBSET (1..Len(s))
  OBVIOUS
<1>12. Chosen(s, J) = [k \in 1..m |-> s[z[k]]]
  BY <1>10, <1>11, ChosenAlong
<1>13. Chosen(w, K) = [k \in 1..m |-> w[q[k]]]
  <2>1. ReadAlong(w, K, m, q)
    BY ONLY w \in Seq(X), <1>3, m \in Nat, <1>5, ChosenIs
  <2> QED
    BY ONLY <2>1 DEF ReadAlong
<1>14. \A k \in 1..m : w[q[k]] = s[z[k]]
  BY <1>1, <1>2, <1>6
<1> QED
  BY <1>2, <1>12, <1>13, <1>14

---------------------------------------------------------------------------
(* A filter by what the items are: [x for x in s if x in V].                *)

PlacesIn(s, V) == {i \in 1..Len(s) : s[i] \in V}
Only(s, V)   == Chosen(s, PlacesIn(s, V))

(* It is s read along r.                                                    *)
Reads(r, n, s, V) ==
  /\ Enumerates(r, n, PlacesIn(s, V))
  /\ Len(Only(s, V)) = n
  /\ \A k \in 1..n : r[k] \in 1..Len(s) /\ s[r[k]] \in V /\ Only(s, V)[k] = s[r[k]]
  /\ \A i \in 1..Len(s) : s[i] \in V => \E k \in 1..n : r[k] = i

LEMMA OnlyIs ==
  ASSUME NEW X, NEW s \in Seq(X), NEW V
  PROVE  /\ Only(s, V) \in Seq(X)
         /\ \E n \in Nat : \E r \in [1..n -> PlacesIn(s, V)] : Reads(r, n, s, V)
<1>1. PICK I \in SUBSET (1..Len(s)) : I = PlacesIn(s, V)
  BY DEF PlacesIn
<1>2. PICK n \in Nat : \E r \in [1..n -> I] : Enumerates(r, n, I)
  BY ChosenPlaces
<1>3. PICK r \in [1..n -> I] : Enumerates(r, n, I)
  BY <1>2
<1>4. /\ Chosen(s, I) \in Seq(X) /\ Len(Chosen(s, I)) = n
      /\ \A i \in 1..n : r[i] \in I /\ r[i] \in 1..Len(s) /\ Chosen(s, I)[i] = s[r[i]]
  BY ONLY s \in Seq(X), I \in SUBSET (1..Len(s)), n \in Nat, <1>3, ChosenAlong
<1>5. Only(s, V) = Chosen(s, I)
  BY <1>1 DEF Only
<1>6. \A i \in 1..Len(s) : s[i] \in V => \E k \in 1..n : r[k] = i
  BY <1>1, <1>3 DEF Enumerates, PlacesIn
<1>7. \A i \in I : s[i] \in V
  BY <1>1 DEF PlacesIn
<1>8. Reads(r, n, s, V)
  BY <1>1, <1>3, <1>4, <1>5, <1>6, <1>7 DEF Reads
<1> QED
  BY <1>1, <1>4, <1>5, <1>8

LEMMA OnlyHas ==
  ASSUME NEW X, NEW s \in Seq(X), NEW V
  PROVE  /\ Only(s, V) \in Seq(X)
         /\ \A k \in 1..Len(Only(s, V)) : /\ Only(s, V)[k] \in V
                                          /\ \E i \in 1..Len(s) : Only(s, V)[k] = s[i]
         /\ \A i \in 1..Len(s) : s[i] \in V => \E k \in 1..Len(Only(s, V)) : Only(s, V)[k] = s[i]
<1>1. PICK n \in Nat : \E r \in [1..n -> PlacesIn(s, V)] : Reads(r, n, s, V)
  BY OnlyIs
<1>2. PICK r \in [1..n -> PlacesIn(s, V)] : Reads(r, n, s, V)
  BY <1>1
<1>3. Only(s, V) \in Seq(X)
  BY OnlyIs
<1>4. PICK o \in Seq(X) : o = Only(s, V)
  BY <1>3
<1>5. /\ Len(o) = n
      /\ \A k \in 1..n : r[k] \in 1..Len(s) /\ s[r[k]] \in V /\ o[k] = s[r[k]]
      /\ \A i \in 1..Len(s) : s[i] \in V => \E k \in 1..n : r[k] = i
  BY <1>2, <1>4 DEF Reads
<1>6. ASSUME NEW k \in 1..n PROVE o[k] \in V /\ \E i \in 1..Len(s) : o[k] = s[i]
  BY <1>5
<1>7. ASSUME NEW i \in 1..Len(s), s[i] \in V PROVE \E k \in 1..n : o[k] = s[i]
  <2>1. PICK k \in 1..n : r[k] = i
    BY <1>5, <1>7
  <2> QED
    BY <2>1, <1>5
<1> QED
  BY <1>4, <1>5, <1>6, <1>7

OnlyApart(s, t, V) == Only(s \o t, V) = Only(s, V) \o Only(t, V)

LEMMA OnlyConcat ==
  ASSUME NEW X, NEW s \in Seq(X), NEW t \in Seq(X), NEW V
  PROVE  OnlyApart(s, t, V)
<1>1. /\ s \o t \in Seq(X) /\ Len(s \o t) = Len(s) + Len(t)
      /\ \A i \in 1..Len(s) + Len(t) : (s \o t)[i] = IF i <= Len(s) THEN s[i] ELSE t[i - Len(s)]
  BY ConcatProperties
<1>2. PICK c \in Nat : c = Len(s)
  OBVIOUS
<1>3. PICK d \in Nat : d = Len(t)
  OBVIOUS
<1>4. PICK w : w = s \o t
  OBVIOUS
<1>5. PICK I \in SUBSET (1..Len(s)) : I = PlacesIn(s, V)
  BY DEF PlacesIn
<1>6. PICK J \in SUBSET (1..Len(t)) : J = PlacesIn(t, V)
  BY DEF PlacesIn
<1>7. Len(w) = c + d
  BY <1>1, <1>2, <1>3, <1>4
<1>8. \A i \in 1..c : i \in 1..(c + d) /\ w[i] = s[i]
  BY <1>1, <1>2, <1>3, <1>4
<1>9. \A j \in 1..d : c + j \in 1..(c + d) /\ w[c + j] = t[j]
  <2> SUFFICES ASSUME NEW j \in 1..d PROVE c + j \in 1..(c + d) /\ w[c + j] = t[j]
    OBVIOUS
  <2>1. c + j \in 1..(c + d) /\ ~(c + j <= c) /\ (c + j) - c = j
    OBVIOUS
  <2> QED
    BY <2>1, <1>1, <1>2, <1>3, <1>4
<1>10. PlacesIn(w, V) = Both(I, J, c)
  <2>1. \A i \in 1..(c + d) : i \in 1..c \/ \E j \in 1..d : i = c + j
    <3> SUFFICES ASSUME NEW i \in 1..(c + d), i \notin 1..c PROVE \E j \in 1..d : i = c + j
      OBVIOUS
    <3>1. i - c \in 1..d /\ i = c + (i - c)
      OBVIOUS
    <3> QED
      BY <3>1
  <2>2. \A i \in 1..c : i \in I <=> s[i] \in V
    BY <1>2, <1>5 DEF PlacesIn
  <2>3. \A j \in 1..d : j \in J <=> t[j] \in V
    BY <1>3, <1>6 DEF PlacesIn
  <2>4. I \subseteq 1..c /\ J \subseteq 1..d
    BY <1>2, <1>3
  <2>5. \A i \in PlacesIn(w, V) : i \in Both(I, J, c)
    <3> SUFFICES ASSUME NEW i \in 1..(c + d), w[i] \in V PROVE i \in Both(I, J, c)
      BY <1>7 DEF PlacesIn
    <3>1. CASE i \in 1..c
      BY <3>1, <2>2, <1>8 DEF Both
    <3>2. CASE \E j \in 1..d : i = c + j
      BY <3>2, <2>3, <1>9 DEF Both
    <3> QED
      BY <3>1, <3>2, <2>1
  <2>6. \A i \in Both(I, J, c) : i \in PlacesIn(w, V)
    <3>1. \A i \in I : i \in PlacesIn(w, V)
      BY <1>7, <1>8, <2>2, <2>4 DEF PlacesIn
    <3>2. \A j \in J : c + j \in PlacesIn(w, V)
      BY <1>7, <1>9, <2>3, <2>4 DEF PlacesIn
    <3> QED
      BY <3>1, <3>2 DEF Both
  <2> QED
    BY <2>5, <2>6
<1>11. Chosen(s \o t, Both(I, J, Len(s))) = Chosen(s, I) \o Chosen(t, J)
  <2>1. ChosenApart(s, t, I, J)
    BY ONLY s \in Seq(X), t \in Seq(X), I \in SUBSET (1..Len(s)), J \in SUBSET (1..Len(t)), ChosenConcat
  <2> QED
    BY ONLY <2>1 DEF ChosenApart
<1> QED
  BY <1>2, <1>4, <1>5, <1>6, <1>10, <1>11 DEF Only, OnlyApart

LEMMA OnlyAll ==
  ASSUME NEW X, NEW s \in Seq(X), NEW V, \A i \in 1..Len(s) : s[i] \in V
  PROVE  Only(s, V) = s
<1>1. PICK J \in SUBSET (1..Len(s)) : J = PlacesIn(s, V)
  BY DEF PlacesIn
<1>2. J = 1..Len(s)
  BY <1>1 DEF PlacesIn
<1>3. PICK c \in Nat : c = Len(s)
  OBVIOUS
<1> DEFINE e == [i \in 1..c |-> i]
<1>4. Enumerates(e, c, J)
  BY <1>2, <1>3 DEF Enumerates
<1> HIDE DEF e
<1>5. Chosen(s, J) \in Seq(X) /\ Len(Chosen(s, J)) = c /\ \A i \in 1..c : Chosen(s, J)[i] = s[e[i]]
  BY ONLY s \in Seq(X), J \in SUBSET (1..Len(s)), c \in Nat, <1>4, ChosenAlong
<1>6. \A i \in 1..c : e[i] = i
  BY DEF e
<1>7. Chosen(s, J) = s
  BY <1>3, <1>5, <1>6, SeqEqual
<1> QED
  BY <1>1, <1>7 DEF Only

LEMMA OnlyNone ==
  ASSUME NEW X, NEW s \in Seq(X), NEW V
  PROVE  Only(s, V) = <<>> <=> \A i \in 1..Len(s) : s[i] \notin V
<1>1. Only(s, V) \in Seq(X) /\ (Only(s, V) = <<>> <=> Len(Only(s, V)) = 0)
  BY OnlyHas
<1>2. ASSUME Len(Only(s, V)) = 0, NEW i \in 1..Len(s) PROVE s[i] \notin V
  BY <1>2, OnlyHas
<1>3. ASSUME Len(Only(s, V)) # 0, \A i \in 1..Len(s) : s[i] \notin V PROVE FALSE
  <2>1. 1 \in 1..Len(Only(s, V))
    BY <1>1, <1>3
  <2>2. Only(s, V)[1] \in V /\ \E i \in 1..Len(s) : Only(s, V)[1] = s[i]
    BY <2>1, OnlyHas
  <2> QED
    BY <2>2, <1>3
<1> QED
  BY <1>1, <1>2, <1>3

LEMMA OnlyOne ==
  ASSUME NEW x, NEW V
  PROVE  Only(<<x>>, V) = IF x \in V THEN <<x>> ELSE <<>>
<1>1. PICK X : X = {x}
  OBVIOUS
<1>2. <<x>> \in Seq(X) /\ Len(<<x>>) = 1 /\ <<x>>[1] = x
  BY <1>1
<1>3. PICK s \in Seq(X) : s = <<x>>
  BY <1>2
<1>4. \A i \in 1..Len(s) : s[i] = x
  BY <1>2, <1>3
<1>5. 1 \in 1..Len(s)
  BY <1>2, <1>3
<1>6. x \in V => Only(s, V) = s
  BY <1>4, OnlyAll
<1>7. x \notin V => Only(s, V) = <<>>
  BY <1>4, OnlyNone
<1> QED
  BY <1>3, <1>6, <1>7

LEMMA OnlyAppend ==
  ASSUME NEW X, NEW s \in Seq(X), NEW x \in X, NEW V
  PROVE  Only(Append(s, x), V) = IF x \in V THEN Append(Only(s, V), x) ELSE Only(s, V)
<1>1. \A t \in Seq(X) : Append(t, x) = t \o <<x>> /\ t \o <<>> = t
  OBVIOUS
<1>2. <<x>> \in Seq(X)
  OBVIOUS
<1>3. PICK t \in Seq(X) : t = <<x>>
  BY <1>2
<1>4. OnlyApart(s, t, V)
  BY ONLY s \in Seq(X), t \in Seq(X), OnlyConcat
<1>5. Only(s \o t, V) = Only(s, V) \o Only(t, V)
  BY ONLY <1>4 DEF OnlyApart
<1> QED
  BY <1>1, <1>3, <1>5, OnlyOne, OnlyHas

LEMMA OnlyTwice ==
  ASSUME NEW X, NEW s \in Seq(X), NEW V, NEW W
  PROVE  Only(Only(s, V), W) = Only(s, V \cap W)
<1>1. PICK I \in SUBSET (1..Len(s)) : I = PlacesIn(s, V)
  BY DEF PlacesIn
<1>2. PICK n \in Nat : \E r \in [1..n -> I] : Reads(r, n, s, V)
  BY <1>1, OnlyIs
<1>3. PICK r \in [1..n -> I] : Reads(r, n, s, V)
  BY <1>2
<1>4. PICK J \in SUBSET I : J = PlacesIn(s, V \cap W)
  BY <1>1 DEF PlacesIn
<1>5. PICK K \in SUBSET (1..n) : K = PlacesIn(Only(s, V), W)
  BY <1>3 DEF PlacesIn, Reads
<1>6. \A k \in 1..n : k \in K <=> r[k] \in J
  BY <1>3, <1>4, <1>5 DEF PlacesIn, Reads
<1>7. Enumerates(r, n, I)
  BY <1>1, <1>3 DEF Reads
<1>8. Chosen(Chosen(s, I), K) = Chosen(s, J)
  BY ONLY s \in Seq(X), I \in SUBSET (1..Len(s)), J \in SUBSET I, n \in Nat,
          K \in SUBSET (1..n), <1>7, <1>6, ChosenTwice
<1> QED
  BY <1>1, <1>4, <1>5, <1>8 DEF Only

(* The last of what a filter keeps is the last of its kind.                 *)
LEMMA OnlyLast ==
  ASSUME NEW X, NEW s \in Seq(X), NEW V,
         NEW i \in 1..Len(s), s[i] \in V, \A j \in 1..Len(s) : s[j] \in V => j <= i
  PROVE  Only(s, V) # <<>> /\ Only(s, V)[Len(Only(s, V))] = s[i]
<1>1. PICK n \in Nat : \E r \in [1..n -> PlacesIn(s, V)] : Reads(r, n, s, V)
  BY OnlyIs
<1>2. PICK r \in [1..n -> PlacesIn(s, V)] : Reads(r, n, s, V)
  BY <1>1
<1>3. PICK k \in 1..n : r[k] = i
  BY <1>2 DEF Reads
<1>4. r[n] \in 1..Len(s) /\ r[n] <= i
  BY <1>2, <1>3 DEF Reads
<1>5. k < n => r[k] < r[n]
  BY <1>2, <1>3 DEF Reads, Enumerates
<1>6. k = n
  BY <1>3, <1>4, <1>5
<1>7. Len(Only(s, V)) = n /\ Only(s, V)[n] = s[i]
  BY <1>2, <1>3, <1>6 DEF Reads
<1> QED
  BY <1>6, <1>7, OnlyHas

---------------------------------------------------------------------------
(* A list in the order of a relation that orders its members: before[i] are *)
(* those before i.                                                          *)

Orders(before, S) ==
  /\ \A i \in S : before[i] \in SUBSET S /\ i \notin before[i]
  /\ \A i, j \in S : j \in before[i] => before[j] \subseteq before[i]
  /\ \A i, j \in S : i # j => i \in before[j] \/ j \in before[i]

(* o is such a list.                                                        *)
Sorts(o, n, before, S) ==
  /\ o \in [1..n -> S]
  /\ \A i \in S : \E k \in 1..n : o[k] = i
  /\ \A a, c \in 1..n : a < c => o[a] \in before[o[c]]

LEMMA InOrderSorts ==
  ASSUME NEW N \in Nat, NEW S \in SUBSET (1..N), NEW before, Orders(before, S)
  PROVE  Cardinality(S) \in Nat /\ Sorts(InOrder(S, before), Cardinality(S), before, S)
<1>1. IsFiniteSet(S)
  <2>1. IsFiniteSet(1..N)
    BY FS_Interval
  <2> QED
    BY <2>1, FS_Subset
<1>2. PICK n \in Nat : n = Cardinality(S)
  BY <1>1, FS_CardinalityType
<1>3. ASSUME NEW i \in S
      PROVE  IsFiniteSet(before[i]) /\ Cardinality(before[i]) \in 0..(n - 1)
  <2>1. before[i] \in SUBSET S /\ before[i] # S
    BY DEF Orders
  <2>2. IsFiniteSet(before[i]) /\ Cardinality(before[i]) \in Nat
    BY <1>1, <2>1, FS_Subset, FS_CardinalityType
  <2>3. Cardinality(before[i]) <= n /\ Cardinality(before[i]) # n
    BY <1>1, <1>2, <2>1, FS_Subset
  <2>4. PICK c \in Nat : c = Cardinality(before[i])
    BY <2>2
  <2>5. c \in 0..(n - 1)
    BY <2>3, <2>4
  <2> QED
    BY <2>2, <2>4, <2>5
<1>4. ASSUME NEW i \in S, NEW j \in S, j \in before[i]
      PROVE  Cardinality(before[j]) < Cardinality(before[i])
  <2>1. before[j] \in SUBSET before[i] /\ before[j] # before[i]
    BY <1>4 DEF Orders
  <2>2. Cardinality(before[j]) <= Cardinality(before[i]) /\ Cardinality(before[j]) # Cardinality(before[i])
    BY <2>1, <1>3, FS_Subset
  <2>3. PICK c \in Nat, d \in Nat : c = Cardinality(before[j]) /\ d = Cardinality(before[i])
    BY <1>3
  <2>4. c < d
    BY <2>2, <2>3
  <2> QED
    BY <2>3, <2>4
<1>5. PICK rank : rank = [i \in S |-> Cardinality(before[i])]
  OBVIOUS
<1>6. rank \in [S -> 0..(n - 1)]
  BY <1>3, <1>5
<1>7. \A i, j \in S : rank[i] = rank[j] => i = j
  <2> SUFFICES ASSUME NEW i \in S, NEW j \in S, rank[i] = rank[j], i # j PROVE FALSE
    OBVIOUS
  <2>1. i \in before[j] \/ j \in before[i]
    BY DEF Orders
  <2>2. PICK c \in Nat : c = rank[i] /\ c = rank[j]
    BY <1>6
  <2>3. c < c
    BY <2>1, <2>2, <1>4, <1>5
  <2> QED
    BY <2>3
<1>8. rank \in Surjection(S, 0..(n - 1))
  <2>1. rank \in Injection(S, 0..(n - 1))
    BY <1>6, <1>7 DEF Injection, IsInjective
  <2>2. IsFiniteSet(0..(n - 1)) /\ Cardinality(0..(n - 1)) = n
    <3>1. IsFiniteSet(0..(n - 1)) /\ Cardinality(0..(n - 1)) = IF 0 > n - 1 THEN 0 ELSE (n - 1) - 0 + 1
      BY FS_Interval
    <3> QED
      BY <3>1
  <2> QED
    BY <2>1, <2>2, <1>2, FS_Injection
<1>9. \A k \in 0..(n - 1) : \E i \in S : rank[i] = k
  BY <1>8 DEF Surjection
<1>10. ASSUME NEW k \in 1..n
       PROVE  InOrder(S, before)[k] \in S /\ rank[InOrder(S, before)[k]] = k - 1
  <2>1. InOrder(S, before)[k] = CHOOSE i \in S : Cardinality(before[i]) = k - 1
    BY <1>2 DEF InOrder
  <2>2. k - 1 \in 0..(n - 1)
    OBVIOUS
  <2>3. \E i \in S : Cardinality(before[i]) = k - 1
    BY <2>2, <1>5, <1>9
  <2>4. PICK z : z = CHOOSE i \in S : Cardinality(before[i]) = k - 1
    OBVIOUS
  <2>5. z \in S /\ Cardinality(before[z]) = k - 1
    BY <2>3, <2>4
  <2> QED
    BY <2>1, <2>4, <2>5, <1>5
<1>11. PICK o : o = InOrder(S, before)
  OBVIOUS
<1>12. o \in [1..n -> S]
  <2>1. o = [k \in 1..n |-> o[k]]
    BY <1>2, <1>11 DEF InOrder
  <2>2. \A k \in 1..n : o[k] \in S
    BY <1>10, <1>11
  <2> QED
    BY <2>1, <2>2
<1>13. \A k \in 1..n : rank[o[k]] = k - 1
  BY <1>10, <1>11
<1>14. ASSUME NEW i \in S PROVE \E k \in 1..n : o[k] = i
  <2>1. PICK c \in 0..(n - 1) : c = rank[i]
    BY <1>6
  <2>2. c + 1 \in 1..n /\ (c + 1) - 1 = c
    OBVIOUS
  <2>3. o[c + 1] = i
    BY <2>1, <2>2, <1>7, <1>12, <1>13
  <2> QED
    BY <2>2, <2>3
<1>15. ASSUME NEW a \in 1..n, NEW c \in 1..n, a < c PROVE o[a] \in before[o[c]]
  <2>1. PICK x \in S, y \in S : x = o[a] /\ y = o[c]
    BY <1>12
  <2>2. rank[x] = a - 1 /\ rank[y] = c - 1
    BY <2>1, <1>13
  <2>3. x # y
    BY <2>2, <1>15
  <2>4. y \notin before[x]
    <3> SUFFICES ASSUME y \in before[x] PROVE FALSE
      OBVIOUS
    <3>1. rank[y] < rank[x]
      BY <1>4, <1>5
    <3> QED
      BY <3>1, <2>2, <1>15
  <2> QED
    BY <2>1, <2>3, <2>4 DEF Orders
<1> QED
  BY <1>2, <1>11, <1>12, <1>14, <1>15 DEF Sorts

---------------------------------------------------------------------------
(* Loops: what a step keeps is so at the end, and a function that steps     *)
(* from each number to the next exists.                                     *)
LEMMA UpTo ==
  ASSUME NEW N \in Nat, NEW T, 0 \in T, \A n \in 1..N : n - 1 \in T => n \in T
  PROVE  \A n \in 0..N : n \in T
<1>1. ASSUME NEW m \in 0..N, m \notin T PROVE FALSE
  <2>1. PICK R \in SUBSET Nat : R = {n \in 0..N : n \notin T}
    <3>1. {n \in 0..N : n \notin T} \in SUBSET Nat
      OBVIOUS
    <3> QED
      BY <3>1
  <2>2. R # {}
    BY <1>1, <2>1
  <2>3. PICK n \in R : \A k \in R : n <= k
    BY <2>2, Least
  <2>4. n \in 0..N /\ n \notin T /\ n # 0
    BY <2>1, <2>3
  <2>5. n \in 1..N /\ n - 1 \in 0..N /\ ~(n <= n - 1)
    BY <2>4
  <2>6. n - 1 \in T
    BY <2>1, <2>3, <2>5
  <2> QED
    BY <2>4, <2>5, <2>6
<1> QED
  BY <1>1

Steps(f, N, d, step) == f[0] = d /\ \A n \in 1..N : f[n] = step[n][f[n - 1]]

LEMMA Iterates ==
  ASSUME NEW N \in Nat, NEW D, NEW d \in D, NEW step \in [1..N -> [D -> D]]
  PROVE  \E f \in [0..N -> D] : Steps(f, N, d, step)
<1> DEFINE T == {m \in 0..N : \E f \in [0..m -> D] : Steps(f, m, d, step)}
<1>1. 0 \in T
  <2>1. [n \in 0..0 |-> d] \in [0..0 -> D] /\ [n \in 0..0 |-> d][0] = d
    OBVIOUS
  <2>2. PICK f \in [0..0 -> D] : f[0] = d
    BY <2>1
  <2>3. Steps(f, 0, d, step)
    BY <2>2 DEF Steps
  <2> QED
    BY <2>3
<1>2. ASSUME NEW m \in 1..N, m - 1 \in T PROVE m \in T
  <2>1. PICK f \in [0..(m - 1) -> D] : Steps(f, m - 1, d, step)
    BY <1>2
  <2>2. m - 1 \in 0..(m - 1) /\ f[m - 1] \in D
    OBVIOUS
  <2>3. PICK e \in D : e = step[m][f[m - 1]]
    BY <2>2
  <2>4. \A n \in 0..m : n # m => n \in 0..(m - 1)
    OBVIOUS
  <2>5. PICK g : g = [n \in 0..m |-> IF n = m THEN e ELSE f[n]]
    OBVIOUS
  <2>6. g \in [0..m -> D]
    BY <2>3, <2>4, <2>5
  <2>7. g[m] = e /\ \A n \in 0..(m - 1) : g[n] = f[n]
    <3>1. m \in 0..m /\ \A n \in 0..(m - 1) : n \in 0..m /\ n # m
      OBVIOUS
    <3> QED
      BY <2>5, <3>1
  <2>8. g[0] = d
    BY <2>1, <2>7 DEF Steps
  <2>9. ASSUME NEW n \in 1..m PROVE g[n] = step[n][g[n - 1]]
    <3>1. n - 1 \in 0..(m - 1)
      OBVIOUS
    <3>2. CASE n = m
      BY <3>1, <3>2, <2>3, <2>7
    <3>3. CASE n # m
      <4>1. n \in 1..(m - 1) /\ n \in 0..(m - 1)
        BY <3>3
      <4> QED
        BY <4>1, <3>1, <2>1, <2>7 DEF Steps
    <3> QED
      BY <3>2, <3>3
  <2>10. Steps(g, m, d, step)
    BY <2>8, <2>9 DEF Steps
  <2>11. m \in 0..N
    OBVIOUS
  <2> QED
    BY <2>6, <2>10, <2>11
<1> HIDE DEF T
<1>3. \A n \in 0..N : n \in T
  BY <1>1, <1>2, UpTo
<1>4. N \in T
  BY <1>3
<1> QED
  BY <1>4 DEF T
===============================================================================
