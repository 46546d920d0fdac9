--------------------------- MODULE HeaderList_proofs ---------------------------
(***************************************************************************)
(* Proofs about HeaderList for lists of headers of any length:              *)
(* CacheControlShown, TypeKept, ReadersAgree and RefinesMultimap.           *)
(*                                                                         *)
(* The lemmas say what each method over the list does to the values of      *)
(* every name (GetAll); they rest on how a filter is read                   *)
(* (Selection_proofs).                                                      *)
(* The inductive invariant is TypeInv /\ Shown /\ Stripped.                 *)
(***************************************************************************)
EXTENDS HeaderList, Selection_proofs

---------------------------------------------------------------------------
(* What the filters of HeaderList return.                                   *)

\* A list of pairs: what is in it does not matter here, and f is a function
\* of keys.
LEMMA OfPlaces ==
  ASSUME NEW X, NEW s \in Seq(X), NEW k, NEW f
  PROVE  /\ Of(s, k, f) \in Seq(X)
         /\ \A i \in 1..Len(Of(s, k, f)) :
              /\ f[Of(s, k, f)[i].k] = f[k]
              /\ \E j \in 1..Len(s) : Of(s, k, f)[i] = s[j]
         /\ HasKey(s, k, f) <=> Of(s, k, f) # <<>>
         /\ Without(s, k, f) \in Seq(X)
         /\ \A i \in 1..Len(Without(s, k, f)) :
              /\ f[Without(s, k, f)[i].k] # f[k]
              /\ \E j \in 1..Len(s) : Without(s, k, f)[i] = s[j]
         /\ ~HasKey(s, k, f) => Without(s, k, f) = s
<1>1. PICK I \in SUBSET (1..Len(s)) : I = Having(s, k, f)
  BY DEF Having
<1>2. PICK J \in SUBSET (1..Len(s)) : J = (1..Len(s)) \ Having(s, k, f)
  OBVIOUS
<1>3. PICK n \in Nat : \E r \in [1..n -> I] : Enumerates(r, n, I)
  BY ChosenPlaces
<1>4. PICK r \in [1..n -> I] : Enumerates(r, n, I)
  BY <1>3
<1>5. PICK m \in Nat : \E q \in [1..m -> J] : Enumerates(q, m, J)
  BY ChosenPlaces
<1>6. PICK q \in [1..m -> J] : Enumerates(q, m, J)
  BY <1>5
<1>7. /\ Chosen(s, I) \in Seq(X) /\ Len(Chosen(s, I)) = n
      /\ \A i \in 1..n : r[i] \in I /\ r[i] \in 1..Len(s) /\ Chosen(s, I)[i] = s[r[i]]
  BY <1>4, ChosenAlong
<1>8. /\ Chosen(s, J) \in Seq(X) /\ Len(Chosen(s, J)) = m
      /\ \A i \in 1..m : q[i] \in J /\ q[i] \in 1..Len(s) /\ Chosen(s, J)[i] = s[q[i]]
  BY <1>6, ChosenAlong
<1>9. n = 0 <=> I = {}
  <2>1. I = {} => n = 0
    <3>1. n # 0 => 1 \in 1..n
      OBVIOUS
    <3>2. n # 0 => r[1] \in I
      BY <3>1, <1>7
    <3> QED
      BY <3>2
  <2>2. n = 0 => I = {}
    BY <1>4 DEF Enumerates
  <2> QED
    BY <2>1, <2>2
<1>10. Chosen(s, I) = <<>> <=> n = 0
  BY <1>7
<1>11. I = {} => Chosen(s, J) = s
  <2> SUFFICES ASSUME I = {} PROVE Chosen(s, J) = s
    OBVIOUS
  <2>1. J = 1..Len(s)
    BY <1>1, <1>2
  <2>2. PICK c \in Nat : c = Len(s)
    OBVIOUS
  <2> DEFINE e == [i \in 1..c |-> i]
  <2>3. Enumerates(e, c, J)
    BY <2>1, <2>2 DEF Enumerates
  <2> HIDE DEF e
  <2>4. Chosen(s, J) \in Seq(X) /\ Len(Chosen(s, J)) = c /\ \A i \in 1..c : Chosen(s, J)[i] = s[e[i]]
    BY ONLY s \in Seq(X), J \in SUBSET (1..Len(s)), c \in Nat, <2>3, ChosenAlong
  <2>5. \A i \in 1..c : e[i] = i
    BY DEF e
  <2> QED
    BY <2>2, <2>4, <2>5, SeqEqual
<1>12. \A i \in I : f[s[i].k] = f[k]
  BY <1>1 DEF Having
<1>13. \A i \in J : f[s[i].k] # f[k]
  BY <1>2 DEF Having
<1>14. Of(s, k, f) = Chosen(s, I) /\ Without(s, k, f) = Chosen(s, J) /\ (HasKey(s, k, f) <=> I # {})
  BY <1>1, <1>2 DEF Of, Without, HasKey
<1>15. /\ Of(s, k, f) \in Seq(X)
       /\ \A i \in 1..Len(Of(s, k, f)) :
            /\ f[Of(s, k, f)[i].k] = f[k]
            /\ \E j \in 1..Len(s) : Of(s, k, f)[i] = s[j]
  BY <1>7, <1>12, <1>14
<1>16. /\ Without(s, k, f) \in Seq(X)
       /\ \A i \in 1..Len(Without(s, k, f)) :
            /\ f[Without(s, k, f)[i].k] # f[k]
            /\ \E j \in 1..Len(s) : Without(s, k, f)[i] = s[j]
  BY <1>8, <1>13, <1>14
<1>17. HasKey(s, k, f) <=> Of(s, k, f) # <<>>
  BY <1>9, <1>10, <1>14
<1>18. ~HasKey(s, k, f) => Without(s, k, f) = s
  BY <1>11, <1>14
<1> QED
  BY <1>15, <1>16, <1>17, <1>18

LEMMA OfConcat ==
  ASSUME NEW X, NEW s \in Seq(X), NEW t \in Seq(X), NEW k, NEW f
  PROVE  Of(s \o t, k, f) = Of(s, k, f) \o Of(t, k, f)
<1>1. /\ s \o t \in Seq(X) /\ Len(s \o t) = Len(s) + Len(t)
      /\ \A i \in 1..Len(s) + Len(t) : (s \o t)[i] = IF i <= Len(s) THEN s[i] ELSE t[i - Len(s)]
  BY ConcatProperties
<1>2. PICK c \in Nat : c = Len(s)
  OBVIOUS
<1>3. PICK d \in Nat : d = Len(t)
  OBVIOUS
<1>4. PICK w : w = s \o t
  OBVIOUS
<1>5. PICK I \in SUBSET (1..Len(s)) : I = Having(s, k, f)
  BY DEF Having
<1>6. PICK J \in SUBSET (1..Len(t)) : J = Having(t, k, f)
  BY DEF Having
<1>7. Len(w) = c + d
  BY <1>1, <1>2, <1>3, <1>4
<1>8. \A i \in 1..c : i \in 1..(c + d) /\ w[i] = s[i]
  BY <1>1, <1>2, <1>3, <1>4
<1>9. \A j \in 1..d : c + j \in 1..(c + d) /\ w[c + j] = t[j]
  <2> SUFFICES ASSUME NEW j \in 1..d PROVE c + j \in 1..(c + d) /\ w[c + j] = t[j]
    OBVIOUS
  <2>1. c + j \in 1..(c + d) /\ ~(c + j <= c) /\ (c + j) - c = j
    OBVIOUS
  <2> QED
    BY <2>1, <1>1, <1>2, <1>3, <1>4
<1>10. Having(w, k, f) = Both(I, J, c)
  <2>1. \A i \in 1..(c + d) : i \in 1..c \/ \E j \in 1..d : i = c + j
    <3> SUFFICES ASSUME NEW i \in 1..(c + d), i \notin 1..c PROVE \E j \in 1..d : i = c + j
      OBVIOUS
    <3>1. i - c \in 1..d /\ i = c + (i - c)
      OBVIOUS
    <3> QED
      BY <3>1
  <2>2. \A i \in 1..c : i \in I <=> f[s[i].k] = f[k]
    BY <1>2, <1>5 DEF Having
  <2>3. \A j \in 1..d : j \in J <=> f[t[j].k] = f[k]
    BY <1>3, <1>6 DEF Having
  <2>4. I \subseteq 1..c /\ J \subseteq 1..d
    BY <1>2, <1>3
  <2>5. \A i \in Having(w, k, f) : i \in Both(I, J, c)
    <3> SUFFICES ASSUME NEW i \in 1..(c + d), f[w[i].k] = f[k] PROVE i \in Both(I, J, c)
      BY <1>7 DEF Having
    <3>1. CASE i \in 1..c
      BY <3>1, <2>2, <1>8 DEF Both
    <3>2. CASE \E j \in 1..d : i = c + j
      BY <3>2, <2>3, <1>9 DEF Both
    <3> QED
      BY <3>1, <3>2, <2>1
  <2>6. \A i \in Both(I, J, c) : i \in Having(w, k, f)
    <3>1. \A i \in I : i \in Having(w, k, f)
      BY <1>7, <1>8, <2>2, <2>4 DEF Having
    <3>2. \A j \in J : c + j \in Having(w, k, f)
      BY <1>7, <1>9, <2>3, <2>4 DEF Having
    <3> QED
      BY <3>1, <3>2 DEF Both
  <2> QED
    BY <2>5, <2>6
<1>11. Chosen(s \o t, Both(I, J, Len(s))) = Chosen(s, I) \o Chosen(t, J)
  <2>1. ChosenApart(s, t, I, J)
    BY ONLY s \in Seq(X), t \in Seq(X), I \in SUBSET (1..Len(s)), J \in SUBSET (1..Len(t)), ChosenConcat
  <2> QED
    BY ONLY <2>1 DEF ChosenApart
<1> QED
  BY <1>2, <1>4, <1>5, <1>6, <1>10, <1>11 DEF Of

LEMMA OfOne ==
  ASSUME NEW p, NEW k, NEW f
  PROVE  Of(<<p>>, k, f) = IF f[p.k] = f[k] THEN <<p>> ELSE <<>>
<1>1. <<p>> \in Seq({p}) /\ Len(<<p>>) = 1 /\ <<p>>[1] = p
  OBVIOUS
<1>2. PICK s \in Seq({p}) : s = <<p>>
  BY <1>1
<1>3. /\ Of(s, k, f) \in Seq({p})
      /\ HasKey(s, k, f) <=> Of(s, k, f) # <<>>
  BY OfPlaces
<1>4. HasKey(s, k, f) <=> f[p.k] = f[k]
  BY <1>1, <1>2 DEF HasKey, Having
<1>5. CASE f[p.k] = f[k]
  <2>1. Having(s, k, f) = {1}
    BY <1>1, <1>2, <1>5 DEF Having
  <2> DEFINE e == [i \in 1..1 |-> 1]
  <2>2. Enumerates(e, 1, {1})
    BY DEF Enumerates
  <2> HIDE DEF e
  <2>3. PICK I \in SUBSET (1..Len(s)) : I = {1}
    BY <1>1, <1>2
  <2>4. PICK X : X = {p}
    OBVIOUS
  <2>5. PICK n \in Nat : n = 1
    OBVIOUS
  <2>6. s \in Seq(X) /\ Enumerates(e, n, I)
    BY <2>2, <2>3, <2>4, <2>5
  <2>7. /\ Chosen(s, I) \in Seq(X) /\ Len(Chosen(s, I)) = n
    BY ONLY <2>6, I \in SUBSET (1..Len(s)), n \in Nat, ChosenAlong
  <2>8. \A q \in Seq({p}) : Len(q) = 1 => q = <<p>>
    OBVIOUS
  <2>9. Chosen(s, {1}) = <<p>>
    BY <2>3, <2>4, <2>5, <2>7, <2>8
  <2> QED
    BY <1>2, <1>5, <2>1, <2>9 DEF Of
<1> QED
  BY <1>2, <1>3, <1>4, <1>5

\* What is left of another name after a filter took a name away.
LEMMA OfWithout ==
  ASSUME NEW X, NEW s \in Seq(X), NEW k, NEW l, NEW f
  PROVE  Of(Without(s, k, f), l, f) = IF f[l] = f[k] THEN <<>> ELSE Of(s, l, f)
<1>1. PICK I \in SUBSET (1..Len(s)) : I = (1..Len(s)) \ Having(s, k, f)
  OBVIOUS
<1>2. PICK n \in Nat : \E r \in [1..n -> I] : Enumerates(r, n, I)
  BY ChosenPlaces
<1>3. PICK r \in [1..n -> I] : Enumerates(r, n, I)
  BY <1>2
<1>4. /\ Chosen(s, I) \in Seq(X) /\ Len(Chosen(s, I)) = n
      /\ \A i \in 1..n : r[i] \in I /\ r[i] \in 1..Len(s) /\ Chosen(s, I)[i] = s[r[i]]
  BY <1>3, ChosenAlong
<1>5. PICK w \in Seq(X) : w = Without(s, k, f)
  BY <1>1, <1>4 DEF Without
<1>6. CASE f[l] = f[k]
  <2>1. \A i \in 1..Len(w) : f[w[i].k] # f[k]
    BY <1>1, <1>4, <1>5 DEF Without, Having
  <2>2. Having(w, l, f) = {}
    BY <2>1, <1>6 DEF Having
  <2>3. Of(w, l, f) = <<>>
    BY <2>2, OfPlaces DEF HasKey
  <2> QED
    BY <1>5, <1>6, <2>3
<1>7. CASE f[l] # f[k]
  <2>1. PICK J \in SUBSET I : J = Having(s, l, f)
    BY <1>1, <1>7 DEF Having
  <2>2. PICK K \in SUBSET (1..n) : K = Having(w, l, f)
    BY <1>1, <1>4, <1>5 DEF Having, Without
  <2>3. \A i \in 1..n : i \in K <=> r[i] \in J
    BY <2>1, <2>2, <1>1, <1>4, <1>5 DEF Having, Without
  <2>4. Chosen(Chosen(s, I), K) = Chosen(s, J)
    BY ONLY s \in Seq(X), I \in SUBSET (1..Len(s)), J \in SUBSET I, n \in Nat,
            K \in SUBSET (1..n), <1>3, <2>3, ChosenTwice
  <2> QED
    BY <2>1, <2>2, <2>4, <1>1, <1>5, <1>7 DEF Of, Without
<1> QED
  BY <1>6, <1>7

---------------------------------------------------------------------------
(* The values of a name, after each of the methods that change the list.    *)

CCText == [props : SUBSET Directives, odd : BOOLEAN]
Entry  == [k : {"x", "X", "y"}, v : {1, 2}] \cup [k : {CC}, v : CCText] \cup [k : {CT}, v : ContentTypes]
            \cup [k : {"expires", "last-modified", "pragma"}, v : {1}]
Vals   == {e.v : e \in Entry}
Lists  == Seq(Entry)

LEMMA ValuesOfIs ==
  ASSUME NEW s \in Lists
  PROVE  /\ ValuesOf(s) \in Seq(Vals) /\ Len(ValuesOf(s)) = Len(s)
         /\ \A i \in 1..Len(s) : ValuesOf(s)[i] = s[i].v
<1>1. \A i \in 1..Len(s) : s[i] \in Entry
  BY ElementOfSeq DEF Lists
<1>2. \A i \in 1..Len(s) : s[i].v \in Vals
  BY <1>1 DEF Vals
<1>3. Len(s) \in Nat
  BY DEF Lists
<1> QED
  BY <1>2, <1>3 DEF ValuesOf

LEMMA ValuesOfConcat ==
  ASSUME NEW s \in Lists, NEW t \in Lists
  PROVE  ValuesOf(s \o t) = ValuesOf(s) \o ValuesOf(t)
<1>1. /\ s \o t \in Lists /\ Len(s \o t) = Len(s) + Len(t)
      /\ \A i \in 1..Len(s) + Len(t) : (s \o t)[i] = IF i <= Len(s) THEN s[i] ELSE t[i - Len(s)]
  BY ConcatProperties DEF Lists
<1>2. PICK u \in Seq(Vals) : u = ValuesOf(s) /\ Len(u) = Len(s) /\ \A i \in 1..Len(s) : u[i] = s[i].v
  BY ValuesOfIs
<1>3. PICK v \in Seq(Vals) : v = ValuesOf(t) /\ Len(v) = Len(t) /\ \A i \in 1..Len(t) : v[i] = t[i].v
  BY ValuesOfIs
<1>4. PICK st \in Lists : st = s \o t
  BY <1>1
<1>5. PICK w \in Seq(Vals) : w = ValuesOf(st) /\ Len(w) = Len(st) /\ \A i \in 1..Len(st) : w[i] = st[i].v
  BY ValuesOfIs
<1>6. /\ u \o v \in Seq(Vals) /\ Len(u \o v) = Len(u) + Len(v)
      /\ \A i \in 1..Len(u) + Len(v) : (u \o v)[i] = IF i <= Len(u) THEN u[i] ELSE v[i - Len(u)]
  <2>1. u \in Seq(Vals) /\ v \in Seq(Vals)
    BY <1>2, <1>3
  <2> QED
    BY ONLY <2>1, ConcatProperties
<1>7. PICK c \in Nat : c = Len(s)
  BY DEF Lists
<1>8. PICK d \in Nat : d = Len(t)
  BY DEF Lists
<1>9. \A i \in 1..(c + d) : w[i] = (u \o v)[i]
  <2> SUFFICES ASSUME NEW i \in 1..(c + d) PROVE w[i] = (u \o v)[i]
    OBVIOUS
  <2>1. CASE i <= c
    <3>1. i \in 1..c
      BY <2>1
    <3>2. w[i] = st[i].v /\ st[i] = s[i]
      BY <2>1, <1>1, <1>4, <1>5, <1>7, <1>8
    <3>3. (u \o v)[i] = u[i] /\ u[i] = s[i].v
      BY <2>1, <3>1, <1>2, <1>3, <1>6, <1>7, <1>8
    <3> QED
      BY <3>2, <3>3
  <2>2. CASE ~(i <= c)
    <3>1. i - c \in 1..d
      BY <2>2
    <3>2. w[i] = st[i].v /\ st[i] = t[i - c]
      BY <2>2, <1>1, <1>4, <1>5, <1>7, <1>8
    <3>3. (u \o v)[i] = v[i - c] /\ v[i - c] = t[i - c].v
      BY <2>2, <3>1, <1>2, <1>3, <1>6, <1>7, <1>8
    <3> QED
      BY <3>2, <3>3
  <2> QED
    BY <2>1, <2>2
<1>10. w = u \o v
  <2>1. Len(w) = c + d /\ Len(u \o v) = c + d
    BY <1>1, <1>2, <1>3, <1>4, <1>5, <1>6, <1>7, <1>8
  <2>2. PICK x \in Seq(Vals) : x = u \o v
    BY <1>6
  <2>3. Len(w) = Len(x) /\ \A i \in 1..Len(w) : w[i] = x[i]
    BY <2>1, <2>2, <1>9
  <2>4. w = x
    BY ONLY w \in Seq(Vals), x \in Seq(Vals), <2>3, SeqEqual
  <2> QED
    BY <2>2, <2>4
<1> QED
  BY <1>2, <1>3, <1>4, <1>5, <1>10

(* Reading: [] is the last value, in is whether there is one.               *)
LEMMA Reading ==
  ASSUME NEW s \in Lists, NEW k, NEW f
  PROVE  /\ Of(s, k, f) \in Lists
         /\ GetAll(s, k, f) \in Seq(Vals)
         /\ Len(GetAll(s, k, f)) = Len(Of(s, k, f))
         /\ \A i \in 1..Len(Of(s, k, f)) : GetAll(s, k, f)[i] = Of(s, k, f)[i].v
         /\ HasKey(s, k, f) <=> GetAll(s, k, f) # <<>>
         /\ HasKey(s, k, f) => Get(s, k, f) = GetAll(s, k, f)[Len(GetAll(s, k, f))]
<1>1. PICK o \in Lists : o = Of(s, k, f) /\ (HasKey(s, k, f) <=> o # <<>>)
  BY OfPlaces DEF Lists
<1>2. ValuesOf(o) \in Seq(Vals) /\ Len(ValuesOf(o)) = Len(o) /\ \A i \in 1..Len(o) : ValuesOf(o)[i] = o[i].v
  BY ValuesOfIs
<1>3. o # <<>> => Len(o) \in 1..Len(o)
  BY DEF Lists
<1>4. o = <<>> <=> ValuesOf(o) = <<>>
  BY <1>2 DEF Lists
<1> QED
  BY <1>1, <1>2, <1>3, <1>4 DEF GetAll, Get, Last

GetAllApart(s, t, k, f) == GetAll(s \o t, k, f) = GetAll(s, k, f) \o GetAll(t, k, f)

LEMMA GetAllConcat ==
  ASSUME NEW s \in Lists, NEW t \in Lists, NEW k, NEW f
  PROVE  GetAllApart(s, t, k, f)
<1> SUFFICES GetAll(s \o t, k, f) = GetAll(s, k, f) \o GetAll(t, k, f)
  BY DEF GetAllApart
<1>1. Of(s \o t, k, f) = Of(s, k, f) \o Of(t, k, f)
  BY OfConcat DEF Lists
<1>2. Of(s, k, f) \in Lists /\ Of(t, k, f) \in Lists
  BY Reading
<1> QED
  <2>1. PICK a \in Lists, b \in Lists : a = Of(s, k, f) /\ b = Of(t, k, f)
    BY <1>2
  <2>2. ValuesOf(a \o b) = ValuesOf(a) \o ValuesOf(b)
    BY ONLY a \in Lists, b \in Lists, ValuesOfConcat
  <2> QED
    BY <1>1, <2>1, <2>2 DEF GetAll

LEMMA GetAllOne ==
  ASSUME NEW p \in Entry, NEW k, NEW f
  PROVE  GetAll(<<p>>, k, f) = IF f[p.k] = f[k] THEN <<p.v>> ELSE <<>>
<1>1. Of(<<p>>, k, f) = IF f[p.k] = f[k] THEN <<p>> ELSE <<>>
  BY OfOne
<1>2. ValuesOf(<<p>>) = <<p.v>> /\ ValuesOf(<<>>) = <<>>
  BY DEF ValuesOf
<1> QED
  BY <1>1, <1>2 DEF GetAll

LEMMA Adding ==
  ASSUME NEW s \in Lists, NEW k, NEW v, Pair(k, v) \in Entry, NEW l, NEW f
  PROVE  /\ AddItem(s, k, v) \in Lists
         /\ GetAll(AddItem(s, k, v), l, f) = IF f[l] = f[k] THEN Append(GetAll(s, l, f), v) ELSE GetAll(s, l, f)
<1>1. PICK p \in Entry : p = Pair(k, v) /\ p.k = k /\ p.v = v
  BY DEF Pair
<1>2. <<p>> \in Lists /\ Append(s, p) = s \o <<p>>
  BY AppendIsConcat DEF Lists
<1>3. GetAll(s \o <<p>>, l, f) = GetAll(s, l, f) \o GetAll(<<p>>, l, f)
  <2>1. PICK e \in Lists : e = <<p>>
    BY <1>2
  <2>2. GetAllApart(s, e, l, f)
    BY ONLY s \in Lists, e \in Lists, GetAllConcat
  <2> QED
    BY <2>1, <2>2 DEF GetAllApart
<1>4. PICK g \in Seq(Vals) : g = GetAll(s, l, f)
  BY Reading
<1>5. v \in Vals
  BY <1>1 DEF Vals
<1>6. g \o <<v>> = Append(g, v) /\ g \o <<>> = g
  BY <1>4, <1>5, AppendIsConcat, ConcatEmptySeq
<1>7. Append(s, p) \in Lists
  BY DEF Lists
<1>8. GetAll(<<p>>, l, f) = IF f[k] = f[l] THEN <<v>> ELSE <<>>
  BY <1>1, GetAllOne
<1>9. AddItem(s, k, v) = Append(s, p)
  BY <1>1 DEF AddItem
<1>10. GetAll(Append(s, p), l, f) = IF f[l] = f[k] THEN Append(g, v) ELSE g
  BY <1>2, <1>3, <1>4, <1>6, <1>8
<1> QED
  BY <1>4, <1>7, <1>9, <1>10

LEMMA Removing ==
  ASSUME NEW s \in Lists, NEW k, NEW l, NEW f
  PROVE  /\ Without(s, k, f) \in Lists
         /\ GetAll(Without(s, k, f), l, f) = IF f[l] = f[k] THEN <<>> ELSE GetAll(s, l, f)
         /\ ~HasKey(s, k, f) => Without(s, k, f) = s
<1>1. ValuesOf(<<>>) = <<>>
  BY DEF ValuesOf
<1>2. Without(s, k, f) \in Lists /\ (~HasKey(s, k, f) => Without(s, k, f) = s)
  BY OfPlaces DEF Lists
<1>3. Of(Without(s, k, f), l, f) = IF f[l] = f[k] THEN <<>> ELSE Of(s, l, f)
  BY OfWithout DEF Lists
<1> QED
  BY <1>1, <1>2, <1>3 DEF GetAll

LEMMA Setting ==
  ASSUME NEW s \in Lists, NEW k, NEW v, Pair(k, v) \in Entry, NEW l, NEW f
  PROVE  /\ SetItem(s, k, v, f) \in Lists
         /\ GetAll(SetItem(s, k, v, f), l, f) = IF f[l] = f[k] THEN <<v>> ELSE GetAll(s, l, f)
<1>1. PICK w \in Lists : w = Without(s, k, f) /\ GetAll(w, l, f) = IF f[l] = f[k] THEN <<>> ELSE GetAll(s, l, f)
  BY Removing
<1>2. /\ AddItem(w, k, v) \in Lists
      /\ GetAll(AddItem(w, k, v), l, f) = IF f[l] = f[k] THEN Append(GetAll(w, l, f), v) ELSE GetAll(w, l, f)
  <2>1. w \in Lists
    BY <1>1
  <2> QED
    BY ONLY <2>1, Pair(k, v) \in Entry, Adding
<1>3. Append(<<>>, v) = <<v>>
  OBVIOUS
<1> QED
  BY <1>1, <1>2, <1>3 DEF SetItem, AddItem

(* A list cut in two, and around one of its headers.                        *)
LEMMA Cut ==
  ASSUME NEW s \in Lists, NEW n \in 0..Len(s)
  PROVE  /\ SubSeq(s, 1, n) \in Lists /\ SubSeq(s, n + 1, Len(s)) \in Lists
         /\ s = SubSeq(s, 1, n) \o SubSeq(s, n + 1, Len(s))
         /\ Len(SubSeq(s, 1, n)) = n
         /\ \A j \in 1..n : SubSeq(s, 1, n)[j] = s[j]
  BY CutIn DEF Lists

LEMMA Around ==
  ASSUME NEW s \in Lists, NEW i \in 1..Len(s)
  PROVE  /\ SubSeq(s, 1, i - 1) \in Lists /\ SubSeq(s, i + 1, Len(s)) \in Lists
         /\ s[i] \in Entry /\ <<s[i]>> \in Lists
         /\ s = SubSeq(s, 1, i - 1) \o (<<s[i]>> \o SubSeq(s, i + 1, Len(s)))
         /\ <<s[i]>> \o SubSeq(s, i + 1, Len(s)) \in Lists
         /\ RemoveAt(s, i) = SubSeq(s, 1, i - 1) \o SubSeq(s, i + 1, Len(s))
         /\ Len(SubSeq(s, 1, i - 1)) = i - 1
         /\ \A j \in 1..(i - 1) : SubSeq(s, 1, i - 1)[j] = s[j]
  BY AroundIn DEF Lists, RemoveAt

\* What is left after deletion by index, backwards, is what a filter leaves.
LeftOf(p, b, k, f) ==
  Without(<<p>> \o b, k, f) = IF f[p.k] = f[k] THEN Without(b, k, f) ELSE <<p>> \o Without(b, k, f)

LEMMA WithoutFirst ==
  ASSUME NEW X, NEW p \in X, NEW b \in Seq(X), NEW k, NEW f
  PROVE  LeftOf(p, b, k, f)
<1>1. PICK V : V = {x \in X : f[x.k] # f[k]}
  OBVIOUS
<1>2. ASSUME NEW s \in Seq(X) PROVE Without(s, k, f) = Only(s, V)
  <2>1. (1..Len(s)) \ Having(s, k, f) = PlacesIn(s, V)
    BY <1>1 DEF Having, PlacesIn
  <2> QED
    BY <2>1 DEF Without, Only
<1>3. PICK o \in Seq(X) : o = <<p>> /\ Only(o, V) = IF p \in V THEN <<p>> ELSE <<>>
  <2>1. <<p>> \in Seq(X)
    OBVIOUS
  <2>2. Only(<<p>>, V) = IF p \in V THEN <<p>> ELSE <<>>
    BY OnlyOne
  <2> QED
    BY ONLY <2>1, <2>2
<1>4. PICK c \in Seq(X) : c = o \o b
  BY ConcatProperties
<1>5. Only(c, V) = Only(o, V) \o Only(b, V)
  BY ONLY o \in Seq(X), b \in Seq(X), <1>4, OnlyConcat DEF OnlyApart
<1>6. PICK w \in Seq(X) : w = Only(b, V)
  BY OnlyHas
<1>7. <<>> \o w = w
  BY ConcatProperties
<1>8. Without(c, k, f) = Only(c, V) /\ Without(b, k, f) = w
  BY <1>2, <1>6
<1>9. p \in V <=> f[p.k] # f[k]
  BY <1>1
<1>10. Without(<<p>> \o b, k, f) = IF f[p.k] = f[k] THEN Without(b, k, f) ELSE <<p>> \o Without(b, k, f)
  BY ONLY <1>3, <1>4, <1>5, <1>6, <1>7, <1>8, <1>9
<1> QED
  BY <1>10 DEF LeftOf

\* An item between two lists, and the lists without it.
Within(a, p, w, d) ==
  /\ d = (a \o <<p>>) \o w /\ d = a \o (<<p>> \o w)
  /\ d[Len(a) + 1] = p /\ RemoveAt(d, Len(a) + 1) = a \o w

LEMMA TakenOut ==
  ASSUME NEW X, NEW a \in Seq(X), NEW p \in X, NEW w \in Seq(X)
  PROVE  \E d \in Seq(X) : Within(a, p, w, d)
<1>1. PICK o \in Seq(X) : o = <<p>> /\ Len(o) = 1 /\ o[1] = p
  <2>1. <<p>> \in Seq(X) /\ Len(<<p>>) = 1 /\ <<p>>[1] = p
    OBVIOUS
  <2> QED
    BY ONLY <2>1
<1>2. PICK q \in Seq(X) : q = o \o w
  BY ConcatProperties
<1>3. PICK d \in Seq(X) : d = a \o q
  BY ConcatProperties
<1>4. (a \o o) \o w = d
  BY <1>2, <1>3, ConcatAssociative
<1>5. PICK c \in Nat, g \in Nat : c = Len(a) /\ g = Len(w)
  OBVIOUS
<1>6. Len(q) = 1 + g /\ q[1] = p /\ \A j \in 1..g : q[1 + j] = w[j]
  <2>1. Len(q) = 1 + g /\ \A j \in 1..(1 + g) : q[j] = IF j <= 1 THEN o[j] ELSE w[j - 1]
    BY <1>1, <1>2, <1>5, ConcatProperties
  <2>2. \A j \in 1..g : 1 + j \in 1..(1 + g) /\ ~(1 + j <= 1) /\ (1 + j) - 1 = j
    OBVIOUS
  <2>3. 1 \in 1..(1 + g) /\ 1 <= 1
    OBVIOUS
  <2> QED
    BY ONLY <2>1, <2>2, <2>3, <1>1
<1>7. /\ Len(d) = c + (1 + g) /\ d[c + 1] = p
      /\ \A j \in 1..c : d[j] = a[j]
      /\ \A j \in 1..g : d[(c + 1) + j] = w[j]
  <2>1. Len(d) = c + (1 + g) /\ \A j \in 1..(c + (1 + g)) : d[j] = IF j <= c THEN a[j] ELSE q[j - c]
    <3>1. Len(d) = Len(a) + Len(q)
      BY <1>3, ConcatProperties
    <3>2. \A j \in 1..(Len(a) + Len(q)) : d[j] = IF j <= Len(a) THEN a[j] ELSE q[j - Len(a)]
      BY <1>3, ConcatProperties
    <3>3. Len(a) = c /\ Len(q) = 1 + g
      BY <1>5, <1>6
    <3> QED
      BY ONLY <3>1, <3>2, <3>3
  <2>2. c + 1 \in 1..(c + (1 + g)) /\ ~(c + 1 <= c) /\ (c + 1) - c = 1
    OBVIOUS
  <2>3. \A j \in 1..g : (c + 1) + j \in 1..(c + (1 + g)) /\ ~((c + 1) + j <= c) /\ ((c + 1) + j) - c = 1 + j
    OBVIOUS
  <2>4. \A j \in 1..c : j \in 1..(c + (1 + g)) /\ j <= c
    OBVIOUS
  <2> QED
    BY ONLY <2>1, <2>2, <2>3, <2>4, <1>6
<1>8. SubSeq(d, 1, c) = a /\ SubSeq(d, c + 2, c + (1 + g)) = w
  <2>1. \A j \in 1..Len(d) : d[j] \in X
    BY ElementOfSeq
  <2>2. /\ SubSeq(d, 1, c) \in Seq(X) /\ Len(SubSeq(d, 1, c)) = c
        /\ \A j \in 1..c : SubSeq(d, 1, c)[j] = d[j]
    <3>1. \A j \in 1..c : d[j] \in X
      BY <2>1, <1>7
    <3>2. 1 \in Int /\ c \in Int /\ (IF 1 <= c THEN c - 1 + 1 ELSE 0) = c /\ c - 1 + 1 = c
      OBVIOUS
    <3>3. /\ SubSeq(d, 1, c) \in Seq(X) /\ Len(SubSeq(d, 1, c)) = IF 1 <= c THEN c - 1 + 1 ELSE 0
          /\ \A j \in 1..(c - 1 + 1) : SubSeq(d, 1, c)[j] = d[1 + j - 1]
      BY ONLY <3>1, <3>2, SubSeqProperties
    <3>4. \A j \in 1..c : 1 + j - 1 = j
      OBVIOUS
    <3> QED
      BY ONLY <3>2, <3>3, <3>4
  <2>3. /\ SubSeq(d, c + 2, c + (1 + g)) \in Seq(X) /\ Len(SubSeq(d, c + 2, c + (1 + g))) = g
        /\ \A j \in 1..g : SubSeq(d, c + 2, c + (1 + g))[j] = d[(c + 1) + j]
    <3>1. PICK m \in Int, n \in Int : m = c + 2 /\ n = c + (1 + g)
      OBVIOUS
    <3>2. \A j \in m..n : d[j] \in X
      BY <2>1, <1>7, <3>1
    <3>3. (IF m <= n THEN n - m + 1 ELSE 0) = g /\ n - m + 1 = g
      BY ONLY <3>1, c \in Nat, g \in Nat
    <3>4. /\ SubSeq(d, m, n) \in Seq(X) /\ Len(SubSeq(d, m, n)) = IF m <= n THEN n - m + 1 ELSE 0
          /\ \A j \in 1..(n - m + 1) : SubSeq(d, m, n)[j] = d[m + j - 1]
      BY ONLY <3>2, m \in Int, n \in Int, SubSeqProperties
    <3>5. \A j \in 1..g : m + j - 1 = (c + 1) + j
      BY ONLY <3>1, c \in Nat, g \in Nat
    <3> QED
      BY ONLY <3>1, <3>3, <3>4, <3>5
  <2>4. PICK x \in Seq(X), y \in Seq(X) : x = SubSeq(d, 1, c) /\ y = SubSeq(d, c + 2, c + (1 + g))
    BY ONLY <2>2, <2>3
  <2>5. x = a
    BY ONLY x \in Seq(X), a \in Seq(X), <2>2, <2>4, <1>5, <1>7, SeqEqual
  <2>6. y = w
    <3>1. Len(y) = g /\ Len(w) = g
      BY ONLY <2>3, <2>4, <1>5
    <3>2. \A j \in 1..g : y[j] = w[j]
      BY ONLY <2>3, <2>4, <1>7
    <3>3. Len(y) = Len(w) /\ \A j \in 1..Len(y) : y[j] = w[j]
      BY ONLY <3>1, <3>2
    <3> QED
      BY ONLY <3>3, y \in Seq(X), w \in Seq(X), SeqEqual
  <2> QED
    BY ONLY <2>4, <2>5, <2>6
<1>9. RemoveAt(d, c + 1) = a \o w
  <2>1. (c + 1) - 1 = c /\ (c + 1) + 1 = c + 2
    OBVIOUS
  <2>2. RemoveAt(d, c + 1) = SubSeq(d, 1, (c + 1) - 1) \o SubSeq(d, (c + 1) + 1, Len(d))
    BY Zenon DEF RemoveAt
  <2> QED
    BY ONLY <2>1, <2>2, <1>7, <1>8
<1> QED
  BY ONLY d \in Seq(X), <1>1, <1>2, <1>3, <1>4, <1>5, <1>7, <1>9 DEF Within

\* One turn of the loop.
Turn(s, d, i, k, f) == IF f[d[i].k] = f[k] THEN RemoveAt(d, i) ELSE d
Turned(s, i, k, f)  == SubSeq(s, 1, i) \o Without(SubSeq(s, i + 1, Len(s)), k, f)

LEMMA TurnIs ==
  ASSUME NEW X, NEW s \in Seq(X), NEW i \in 1..Len(s), NEW k, NEW f
  PROVE  Turn(s, Turned(s, i, k, f), i, k, f) = Turned(s, i - 1, k, f)
<1>1. PICK c \in Nat : c = Len(s)
  OBVIOUS
<1>2. PICK a \in Seq(X) : a = SubSeq(s, 1, i - 1) /\ Len(a) = i - 1
  BY AroundIn
<1>3. PICK b \in Seq(X) : b = SubSeq(s, i + 1, c)
  BY <1>1, AroundIn
<1>4. PICK p \in X : p = s[i]
  BY AroundIn
<1>5. SubSeq(s, 1, i) = a \o <<p>> /\ SubSeq(s, i, c) = <<p>> \o b
  <2>1. 1 \in 1..Len(s) /\ i \in 1..Len(s) /\ Len(s) \in i..Len(s)
    BY <1>1
  <2>2. SubSeq(s, 1, i) = SubSeq(s, 1, i - 1) \o <<s[i]>>
    BY ONLY s \in Seq(X), <2>1, SubSeqRecursiveSecond
  <2>3. SubSeq(s, i, Len(s)) = <<s[i]>> \o SubSeq(s, i + 1, Len(s))
    BY ONLY s \in Seq(X), <2>1, SubSeqRecursiveFirst
  <2> QED
    BY <2>2, <2>3, <1>1, <1>2, <1>3, <1>4
<1>6. PICK w \in Seq(X) : w = Without(b, k, f)
  BY OfPlaces
<1>7. Without(<<p>> \o b, k, f) = IF f[p.k] = f[k] THEN w ELSE <<p>> \o w
  <2>1. LeftOf(p, b, k, f)
    BY WithoutFirst
  <2> QED
    BY ONLY <2>1, <1>6 DEF LeftOf
<1>8. PICK d \in Seq(X) : Within(a, p, w, d)
  BY TakenOut
<1>9. i = Len(a) + 1 /\ (i - 1) + 1 = i
  BY <1>2
<1>10. d = (a \o <<p>>) \o w /\ d = a \o (<<p>> \o w) /\ d[i] = p /\ RemoveAt(d, i) = a \o w
  BY ONLY <1>8, <1>9 DEF Within
<1>11. Turned(s, i, k, f) = d
  BY ONLY <1>1, <1>3, <1>5, <1>6, <1>10 DEF Turned
<1>12. Turned(s, i - 1, k, f) = a \o (IF f[p.k] = f[k] THEN w ELSE <<p>> \o w)
  BY ONLY <1>1, <1>2, <1>5, <1>7, <1>9 DEF Turned
<1> QED
  BY ONLY <1>10, <1>11, <1>12 DEF Turn

LEMMA DeletedIs ==
  ASSUME NEW X, NEW s \in Seq(X), NEW k, NEW f
  PROVE  Deleted(s, k, f) = Without(s, k, f)
<1>1. PICK N \in Nat : N = Len(s)
  OBVIOUS
<1> DEFINE Is(a) == a = [n \in 0..N |-> IF n = 0 THEN s ELSE Turn(s, a[n - 1], N + 1 - n, k, f)]
           a0 == [n \in 0..N |-> Turned(s, N - n, k, f)]
<1>2. Turned(s, N, k, f) = s /\ Turned(s, 0, k, f) = Without(s, k, f)
  <2>1. SubSeq(s, 1, N) = s /\ SubSeq(s, 0 + 1, N) = s
    BY <1>1, SubSeqFull
  <2>2. SubSeq(s, N + 1, N) = <<>> /\ SubSeq(s, 1, 0) = <<>>
    BY SubSeqEmpty
  <2>3. PICK e \in Seq(X) : e = <<>>
    <3>1. <<>> \in Seq(X)
      OBVIOUS
    <3> QED
      BY ONLY <3>1
  <2>4. Without(e, k, f) = e
    <3>1. Len(e) = 0
      BY <2>3
    <3>2. Having(e, k, f) = {}
      BY <3>1 DEF Having
    <3> QED
      BY <3>2, OfPlaces DEF HasKey
  <2>5. PICK w \in Seq(X) : w = Without(s, k, f)
    BY OfPlaces
  <2>6. s \o <<>> = s /\ <<>> \o w = w
    BY ConcatEmptySeq
  <2> QED
    BY <1>1, <2>1, <2>2, <2>3, <2>4, <2>5, <2>6 DEF Turned
<1>3. Is(a0)
  <2>1. ASSUME NEW n \in 1..N PROVE a0[n] = Turn(s, a0[n - 1], N + 1 - n, k, f)
    <3>1. PICK i \in 1..N : i = N + 1 - n /\ N - n = i - 1 /\ N - (n - 1) = i
      OBVIOUS
    <3>2. a0[n] = Turned(s, i - 1, k, f) /\ a0[n - 1] = Turned(s, i, k, f)
      BY <3>1
    <3>3. Turn(s, Turned(s, i, k, f), i, k, f) = Turned(s, i - 1, k, f)
      BY <1>1, TurnIs
    <3> QED
      BY <3>1, <3>2, <3>3
  <2>2. a0[0] = s
    BY <1>2
  <2> HIDE DEF a0
  <2>3. \A n \in 0..N : a0[n] = IF n = 0 THEN s ELSE Turn(s, a0[n - 1], N + 1 - n, k, f)
    BY <2>1, <2>2
  <2>4. a0 = [n \in 0..N |-> a0[n]]
    BY DEF a0
  <2> QED
    BY <2>3, <2>4
<1>4. PICK a : a = (CHOOSE b : Is(b)) /\ Is(a)
  BY <1>3
<1>5. \A n \in 0..N : a[n] = a0[n]
  <2> HIDE DEF a0
  <2>1. ASSUME NEW g, Is(g)
        PROVE  g[0] = s /\ \A n \in 1..N : g[n] = Turn(s, g[n - 1], N + 1 - n, k, f)
    <3>1. \A n \in 0..N : g[n] = IF n = 0 THEN s ELSE Turn(s, g[n - 1], N + 1 - n, k, f)
      BY ONLY <2>1
    <3>2. \A n \in 1..N : n \in 0..N /\ n # 0
      OBVIOUS
    <3> QED
      BY ONLY <3>1, <3>2, N \in Nat
  <2>2. /\ a[0] = s /\ \A n \in 1..N : a[n] = Turn(s, a[n - 1], N + 1 - n, k, f)
        /\ a0[0] = s /\ \A n \in 1..N : a0[n] = Turn(s, a0[n - 1], N + 1 - n, k, f)
    BY <1>3, <1>4, <2>1
  <2>3. PICK T \in SUBSET Nat : T = {n \in 0..N : a[n] # a0[n]}
    <3>1. {n \in 0..N : a[n] # a0[n]} \in SUBSET Nat
      OBVIOUS
    <3> QED
      BY ONLY <3>1
  <2>4. SUFFICES ASSUME T # {} PROVE FALSE
    BY <2>3
  <2>5. PICK x \in T : \A y \in T : x <= y
    BY <2>4, Least
  <2>6. x \in 1..N /\ x - 1 \in 0..N /\ x - 1 \notin T
    BY <2>2, <2>3, <2>5
  <2>7. a[x - 1] = a0[x - 1] /\ a[x] # a0[x]
    BY <2>3, <2>5, <2>6
  <2> QED
    BY <2>2, <2>6, <2>7
<1>6. Deleted(s, k, f) = a[N]
  <2>1. Deleted(s, k, f) = (CHOOSE b : Is(b))[N]
    BY <1>1, Zenon DEF Deleted, Turn
  <2> QED
    BY <2>1, <1>4
<1>7. a[N] = Turned(s, 0, k, f)
  BY <1>5
<1> QED
  BY <1>2, <1>6, <1>7

LEMMA FirstIs ==
  ASSUME NEW s \in Lists, NEW k, NEW f, HasKey(s, k, f)
  PROVE  /\ First(s, k, f) \in 1..Len(s)
         /\ f[s[First(s, k, f)].k] = f[k]
         /\ \A j \in 1..(First(s, k, f) - 1) : f[s[j].k] # f[k]
<1>1. PICK T \in SUBSET Nat : T = Having(s, k, f)
  <2>1. Having(s, k, f) \subseteq Nat
    BY DEF Having
  <2> QED
    BY <2>1
<1>2. T # {}
  BY <1>1 DEF HasKey
<1>3. PICK i \in T : \A j \in T : i <= j
  BY ONLY <1>2, T \in SUBSET Nat, Least
<1>4. First(s, k, f) \in Having(s, k, f) /\ \A j \in Having(s, k, f) : First(s, k, f) <= j
  BY <1>1, <1>3 DEF First
<1>5. PICK c \in Nat : c = First(s, k, f)
  BY <1>1, <1>4
<1>6. c \in 1..Len(s) /\ f[s[c].k] = f[k] /\ \A j \in 1..Len(s) : f[s[j].k] = f[k] => c <= j
  BY <1>4, <1>5 DEF Having
<1>7. Len(s) \in Nat
  BY DEF Lists
<1> QED
  BY <1>5, <1>6, <1>7

LEMMA Popping ==
  ASSUME NEW s \in Lists, NEW k, NEW f, HasKey(s, k, f)
  PROVE  /\ PopFirst(s, k, f) \in Lists
         /\ s[First(s, k, f)].v = GetAll(s, k, f)[1]
         /\ \A l : GetAll(PopFirst(s, k, f), l, f) = IF f[l] = f[k] THEN Tail(GetAll(s, l, f)) ELSE GetAll(s, l, f)
<1>1. PICK i \in 1..Len(s) : i = First(s, k, f) /\ f[s[i].k] = f[k] /\ \A j \in 1..(i - 1) : f[s[j].k] # f[k]
  BY FirstIs
<1>2. PICK a \in Lists : a = SubSeq(s, 1, i - 1) /\ Len(a) = i - 1 /\ \A j \in 1..(i - 1) : a[j] = s[j]
  BY Around
<1>3. PICK b \in Lists : b = SubSeq(s, i + 1, Len(s))
  BY Around
<1>4. PICK p \in Entry : p = s[i]
  BY Around
<1>5. <<p>> \in Lists /\ <<p>> \o b \in Lists /\ s = a \o (<<p>> \o b) /\ RemoveAt(s, i) = a \o b
  BY <1>2, <1>3, <1>4, Around
<1>6. PopFirst(s, k, f) = a \o b
  BY <1>1, <1>5 DEF PopFirst
<1>7. a \o b \in Lists
  BY ConcatProperties DEF Lists
<1>8. \A l : GetAll(a \o b, l, f) = GetAll(a, l, f) \o GetAll(b, l, f)
  <2>1. \A l : GetAllApart(a, b, l, f)
    BY GetAllConcat
  <2> QED
    BY <2>1 DEF GetAllApart
<1>9. \A l : GetAll(s, l, f) = GetAll(a, l, f) \o (GetAll(<<p>>, l, f) \o GetAll(b, l, f))
  <2> SUFFICES ASSUME NEW l
               PROVE  GetAll(s, l, f) = GetAll(a, l, f) \o (GetAll(<<p>>, l, f) \o GetAll(b, l, f))
    OBVIOUS
  <2>1. \A x, y \in Lists : GetAllApart(x, y, l, f)
    BY ONLY GetAllConcat
  <2>2. \A x, y \in Lists : GetAll(x \o y, l, f) = GetAll(x, l, f) \o GetAll(y, l, f)
    BY ONLY <2>1 DEF GetAllApart
  <2>3. GetAll(a \o (<<p>> \o b), l, f) = GetAll(a, l, f) \o GetAll(<<p>> \o b, l, f)
    BY <1>5, <2>2
  <2>4. GetAll(<<p>> \o b, l, f) = GetAll(<<p>>, l, f) \o GetAll(b, l, f)
    BY <1>5, <2>2
  <2> QED
    BY <1>5, <2>3, <2>4
<1>10. \A l : GetAll(a, l, f) \in Seq(Vals) /\ GetAll(b, l, f) \in Seq(Vals)
  BY Reading
<1>11. \A l : f[l] = f[k] => GetAll(a, l, f) = <<>>
  <2> SUFFICES ASSUME NEW l, f[l] = f[k] PROVE GetAll(a, l, f) = <<>>
    OBVIOUS
  <2>1. ~HasKey(a, l, f)
    BY <1>1, <1>2 DEF HasKey, Having
  <2> QED
    BY <2>1, Reading
<1>12. \A l : GetAll(<<p>>, l, f) = IF f[l] = f[k] THEN <<p.v>> ELSE <<>>
  BY <1>1, <1>4, GetAllOne
<1>13. p.v \in Vals
  BY DEF Vals
<1>14. \A u \in Seq(Vals) : /\ <<>> \o u = u /\ Tail(<<p.v>> \o u) = u /\ (<<p.v>> \o u)[1] = p.v
                            /\ <<p.v>> \o u \in Seq(Vals)
  <2> SUFFICES ASSUME NEW u \in Seq(Vals) 
               PROVE  /\ <<>> \o u = u /\ Tail(<<p.v>> \o u) = u /\ (<<p.v>> \o u)[1] = p.v
                      /\ <<p.v>> \o u \in Seq(Vals)
    OBVIOUS
  <2>1. <<>> \o u = u
    BY ConcatEmptySeq
  <2>2. <<p.v>> \in Seq(Vals)
    BY <1>13
  <2>3. PICK w \in Seq(Vals) : /\ w = <<p.v>> \o u /\ Len(w) = 1 + Len(u)
           /\ \A j \in 1..(1 + Len(u)) : w[j] = IF j <= 1 THEN p.v ELSE u[j - 1]
    <3>1. PICK e \in Seq(Vals) : e = <<p.v>>
      BY <2>2
    <3>2. /\ e \o u \in Seq(Vals) /\ Len(e \o u) = Len(e) + Len(u)
          /\ \A j \in 1..Len(e) + Len(u) : (e \o u)[j] = IF j <= Len(e) THEN e[j] ELSE u[j - Len(e)]
      BY ConcatProperties
    <3>3. Len(e) = 1 /\ e[1] = p.v
      BY <3>1
    <3>4. \A j \in 1..(1 + Len(u)) : (e \o u)[j] = IF j <= 1 THEN p.v ELSE u[j - 1]
      BY <3>2, <3>3
    <3> QED
      BY <3>1, <3>2, <3>3, <3>4
  <2>4. Len(u) \in Nat
    OBVIOUS
  <2>5. w # <<>> /\ w[1] = p.v
    BY <2>3, <2>4
  <2>6. Tail(w) \in Seq(Vals) /\ Len(Tail(w)) = Len(w) - 1 /\ \A j \in 1..Len(Tail(w)) : Tail(w)[j] = w[j + 1]
    BY <2>5, HeadTailProperties
  <2>7. Len(Tail(w)) = Len(u)
    BY <2>3, <2>4, <2>6
  <2>8. \A j \in 1..Len(u) : Tail(w)[j] = u[j]
    <3> SUFFICES ASSUME NEW j \in 1..Len(u) PROVE Tail(w)[j] = u[j]
      OBVIOUS
    <3>1. j + 1 \in 1..(1 + Len(u)) /\ ~(j + 1 <= 1) /\ (j + 1) - 1 = j
      BY <2>4
    <3> QED
      BY <3>1, <2>3, <2>6, <2>7
  <2>9. Tail(w) = u
    BY <2>6, <2>7, <2>8, SeqEqual
  <2> QED
    BY <2>1, <2>3, <2>5, <2>9
<1>15. GetAll(s, k, f)[1] = p.v
  <2>1. GetAll(s, k, f) = <<>> \o (<<p.v>> \o GetAll(b, k, f))
    BY <1>9, <1>11, <1>12
  <2> QED
    BY <2>1, <1>10, <1>14
<1>16. \A l : f[l] = f[k] => GetAll(a \o b, l, f) = Tail(GetAll(s, l, f))
  <2> SUFFICES ASSUME NEW l, f[l] = f[k] PROVE GetAll(a \o b, l, f) = Tail(GetAll(s, l, f))
    OBVIOUS
  <2>1. GetAll(s, l, f) = <<>> \o (<<p.v>> \o GetAll(b, l, f))
    BY <1>9, <1>11, <1>12
  <2>2. GetAll(a \o b, l, f) = <<>> \o GetAll(b, l, f)
    BY <1>8, <1>11
  <2> QED
    BY <2>1, <2>2, <1>10, <1>14
<1>17. \A l : f[l] # f[k] => GetAll(a \o b, l, f) = GetAll(s, l, f)
  <2> SUFFICES ASSUME NEW l, f[l] # f[k] PROVE GetAll(a \o b, l, f) = GetAll(s, l, f)
    OBVIOUS
  <2>1. GetAll(s, l, f) = GetAll(a, l, f) \o (<<>> \o GetAll(b, l, f))
    BY <1>9, <1>12
  <2>2. <<>> \o GetAll(b, l, f) = GetAll(b, l, f)
    BY <1>10, <1>14
  <2> QED
    BY <2>1, <2>2, <1>8
<1> QED
  BY <1>1, <1>4, <1>6, <1>7, <1>15, <1>16, <1>17

LEMMA TakingLast ==
  ASSUME NEW s \in Lists, s # <<>>
  PROVE  /\ Front(s) \in Lists /\ Last(s) \in Entry
         /\ \A l, f : GetAll(s, l, f) = IF f[l] = f[Last(s).k] THEN Append(GetAll(Front(s), l, f), Last(s).v)
                                       ELSE GetAll(Front(s), l, f)
<1>1. PICK n \in Nat \ {0} : n = Len(s)
  BY DEF Lists
<1>2. s \in Seq(Entry) /\ n - 1 \in 0..Len(s) /\ n \in 1..Len(s) /\ 1 \in 1..Len(s) /\ n \in 1..n
  BY <1>1 DEF Lists
<1>3. PICK p \in Entry : p = Last(s)
  BY <1>1, <1>2, ElementOfSeq DEF Last
<1>4. PICK w \in Lists : w = Front(s)
  BY <1>1, <1>2, Cut DEF Front
<1>5. SubSeq(s, 1, n) = SubSeq(s, 1, n - 1) \o <<s[n]>>
  BY <1>1, <1>2, SubSeqRecursiveSecond
<1>6. s = w \o <<p>>
  BY <1>1, <1>2, <1>3, <1>4, <1>5, SubSeqFull DEF Front, Last
<1>7. s = AddItem(w, p.k, p.v)
  <2>1. Append(w, p) = w \o <<p>>
    BY AppendIsConcat DEF Lists
  <2>2. p = Pair(p.k, p.v)
    BY DEF Entry, Pair
  <2> QED
    BY <1>6, <2>1, <2>2 DEF AddItem
<1>8. Pair(p.k, p.v) \in Entry
  BY DEF Entry, Pair
<1>9. \A l, f : GetAll(AddItem(w, p.k, p.v), l, f)
                 = IF f[l] = f[p.k] THEN Append(GetAll(w, l, f), p.v) ELSE GetAll(w, l, f)
  <2> SUFFICES ASSUME NEW l, NEW f
               PROVE  GetAll(AddItem(w, p.k, p.v), l, f)
                      = IF f[l] = f[p.k] THEN Append(GetAll(w, l, f), p.v) ELSE GetAll(w, l, f)
    OBVIOUS
  <2>1. PICK k, v : k = p.k /\ v = p.v
    OBVIOUS
  <2>2. Pair(k, v) \in Entry
    BY <2>1, <1>8
  <2>3. GetAll(AddItem(w, k, v), l, f) = IF f[l] = f[k] THEN Append(GetAll(w, l, f), v) ELSE GetAll(w, l, f)
    BY ONLY w \in Lists, <2>2, Adding
  <2> QED
    BY <2>1, <2>3
<1> QED
  BY <1>3, <1>4, <1>7, <1>9

(* update and extend, with two pairs.                                       *)
LEMMA Updating ==
  ASSUME NEW s, NEW p, NEW q, NEW f
  PROVE  /\ Update(s, <<>>, f) = s
         /\ Update(s, <<p, q>>, f) = SetItem(SetItem(s, p.k, p.v, f), q.k, q.v, f)
<1>1. Update(s, <<>>, f) = s
  <2> DEFINE Is(a) == a = [n \in 0..0 |-> IF n = 0 THEN s ELSE SetItem(a[n - 1], <<>>[n].k, <<>>[n].v, f)]
             a0 == [n \in 0..0 |-> s]
  <2>1. Is(a0)
    OBVIOUS
  <2>2. Is(CHOOSE a : Is(a))
    BY <2>1
  <2>3. (CHOOSE a : Is(a))[0] = s
    BY <2>2
  <2>4. Len(<<>>) = 0
    OBVIOUS
  <2> QED
    BY <2>3, <2>4 DEF Update
<1>2. Update(s, <<p, q>>, f) = SetItem(SetItem(s, p.k, p.v, f), q.k, q.v, f)
  <2> DEFINE pq == <<p, q>>
             s1 == SetItem(s, p.k, p.v, f)
             s2 == SetItem(s1, q.k, q.v, f)
             Is(a) == a = [n \in 0..2 |-> IF n = 0 THEN s ELSE SetItem(a[n - 1], pq[n].k, pq[n].v, f)]
             a0 == [n \in 0..2 |-> IF n = 0 THEN s ELSE IF n = 1 THEN s1 ELSE s2]
  <2>1. Len(pq) = 2 /\ pq[1] = p /\ pq[2] = q
    OBVIOUS
  <2>2. Is(a0)
    <3>1. a0[0] = s /\ a0[1] = s1 /\ a0[2] = s2
      OBVIOUS
    <3> HIDE DEF pq
    <3>2. \A n \in 0..2 : a0[n] = IF n = 0 THEN s ELSE SetItem(a0[n - 1], pq[n].k, pq[n].v, f)
      <4> SUFFICES ASSUME NEW n \in 0..2
                   PROVE a0[n] = IF n = 0 THEN s ELSE SetItem(a0[n - 1], pq[n].k, pq[n].v, f)
        OBVIOUS
      <4>1. CASE n = 0
        BY <4>1, <3>1
      <4>2. CASE n = 1
        <5>1. n - 1 = 0
          BY <4>2
        <5> QED
          BY <4>2, <5>1, <3>1, <2>1
      <4>3. CASE n = 2
        <5>1. n - 1 = 1
          BY <4>3
        <5> QED
          BY <4>3, <5>1, <3>1, <2>1
      <4> QED
        BY <4>1, <4>2, <4>3
    <3> QED
      BY <3>2
  <2>3. Is(CHOOSE a : Is(a))
    BY ONLY <2>2
  <2>4. PICK a : a = (CHOOSE b : Is(b)) /\ Is(a)
    BY <2>3
  <2> HIDE DEF pq, s1, s2
  <2>5. a[0] = s /\ a[1] = SetItem(a[0], pq[1].k, pq[1].v, f) /\ a[2] = SetItem(a[1], pq[2].k, pq[2].v, f)
    BY <2>4
  <2>6. a[2] = s2
    BY <2>1, <2>5 DEF s1, s2
  <2>7. Update(s, pq, f) = a[2]
    BY <2>1, <2>4 DEF Update
  <2> QED
    BY <2>6, <2>7 DEF pq, s1, s2
<1> QED
  BY <1>1, <1>2

---------------------------------------------------------------------------
(* The invariant.  What the object of cache_control holds is what the       *)
(* header says whenever the header is the text that the object was parsed   *)
(* from, unless that text was put back by hand; and nothing but the         *)
(* deletion of the charset leaves it as the last thing done.                *)
IsObject(c) == \E p \in SUBSET Directives, t \in CCText : c = <<[props |-> p, text |-> t]>>

TypeInv ==
  /\ part \in {"multidict", "headers", "cache", "type"}
  /\ items \in Lists
  /\ view \in {"none", "current"} /\ held \in {"none", "current", "old"}
  /\ byhand \in BOOLEAN
  /\ cc = <<>> \/ IsObject(cc)
  /\ part # "cache" => cc = <<>>

Shown ==
  cc # <<>> /\ cc[1].text = Header(items) => cc[1].props = Header(items).props \/ byhand

Stripped ==
  part = "type" /\ op.name = "attribute" /\ op.attr = "del charset" => TypeHeader(items).charset = "none"

IInv == TypeInv /\ Shown /\ Stripped

LEMMA NormIs ==
  /\ \A k \in Keys : /\ Lower[k] \in Keys /\ Lower[Lower[k]] = Lower[k]
                     /\ Same[k] = k
                     /\ norm[k] \in Keys /\ norm[norm[k]] = norm[k]
  /\ norm \in {Same, Lower} /\ (part # "multidict" => norm = Lower)
  /\ \A k \in Keys : Lower[k] = CC <=> k = CC
  /\ \A k \in Keys : Lower[k] = CT <=> k = CT
  /\ \A k \in Keys \ {"X"} : Lower[k] = k
  /\ CC \in Keys /\ CT \in Keys
  BY DEF norm, Lower, Same, Keys, CC, CT

LEMMA EntryKeys ==
  /\ \A e \in Entry : e.k \in Keys /\ e = Pair(e.k, e.v)
  /\ \A e \in Entry : e.k = CC => e.v \in CCText
  /\ \A e \in Entry : e.k = CT => e.v \in ContentTypes
  /\ \A v \in CCText : Pair(CC, v) \in Entry
  /\ \A v \in ContentTypes : Pair(CT, v) \in Entry
  /\ \A k \in {"x", "X", "y"}, v \in {1, 2} : Pair(k, v) \in Entry
  /\ \A k \in {"expires", "last-modified", "pragma"} : Pair(k, 1) \in Entry
<1>1. \A e \in Entry : e.k \in Keys /\ e = Pair(e.k, e.v)
  BY DEF Entry, Keys, Pair, CC, CT
<1>2. \A e \in Entry : e.k = CC => e.v \in CCText
  BY DEF Entry, CC, CT
<1>3. \A e \in Entry : e.k = CT => e.v \in ContentTypes
  BY DEF Entry, CC, CT
<1>4. \A v \in CCText : Pair(CC, v) \in Entry
  BY DEF Entry, Pair
<1>5. \A v \in ContentTypes : Pair(CT, v) \in Entry
  BY DEF Entry, Pair
<1>6. \A k \in {"x", "X", "y"}, v \in {1, 2} : Pair(k, v) \in Entry
  BY DEF Entry, Pair
<1>7. \A k \in {"expires", "last-modified", "pragma"} : Pair(k, 1) \in Entry
  BY DEF Entry, Pair
<1> QED
  BY <1>1, <1>2, <1>3, <1>4, <1>5, <1>6, <1>7

LEMMA TextsAre == Texts \subseteq CCText /\ NoText \in CCText
  BY DEF Texts, NoText, Text, CCText, Directives

LEMMA Given ==
  ASSUME part \in {"multidict", "headers", "cache", "type"}, NEW k \in DictKeys, NEW v \in DictValues
  PROVE  Pair(k, v) \in Entry /\ k \in Keys
<1>1. CASE part \in {"multidict", "headers"}
  <2>1. k \in {"x", "X", "y"} /\ v \in {1, 2}
    BY <1>1 DEF DictKeys, DictValues
  <2> QED
    BY <2>1, EntryKeys DEF Keys
<1>2. CASE part = "cache"
  <2>1. k = CC /\ v \in CCText
    BY <1>2, TextsAre DEF DictKeys, DictValues
  <2> QED
    BY <2>1, EntryKeys, NormIs
<1>3. CASE part = "type"
  <2>1. k = CT
    BY <1>3 DEF DictKeys
  <2>2. v \in {[type |-> t, charset |-> c, param |-> FALSE] : t \in {"text", "image"}, c \in {"none", "other"}}
    BY <1>3 DEF DictValues
  <2>3. PICK t \in {"text", "image"}, c \in {"none", "other"} : v = [type |-> t, charset |-> c, param |-> FALSE]
    BY <2>2
  <2>4. v \in ContentTypes
    BY <2>3 DEF ContentTypes
  <2> QED
    BY <2>1, <2>4, EntryKeys, NormIs
<1> QED
  BY <1>1, <1>2, <1>3

(* The entries that a filter keeps, and what the two headers with a         *)
(* structure hold.                                                          *)
LEMMA OfEntries ==
  ASSUME NEW s \in Lists, NEW k, NEW f
  PROVE  \A i \in 1..Len(GetAll(s, k, f)) :
            \E e \in Entry : GetAll(s, k, f)[i] = e.v /\ f[e.k] = f[k]
<1>1. PICK o \in Lists : o = Of(s, k, f) /\ \A i \in 1..Len(o) : f[o[i].k] = f[k]
  <2>1. Of(s, k, f) \in Lists /\ \A i \in 1..Len(Of(s, k, f)) : f[Of(s, k, f)[i].k] = f[k]
    BY OfPlaces DEF Lists
  <2> QED
    BY <2>1
<1>2. \A i \in 1..Len(o) : o[i] \in Entry
  BY ElementOfSeq DEF Lists
<1> QED
  BY <1>1, <1>2, Reading

LEMMA HeaderIs ==
  ASSUME NEW s \in Lists
  PROVE  Header(s) \in CCText /\ TypeHeader(s) \in ContentTypes
<1>1. \A k : HasKey(s, k, Lower) => \E e \in Entry : Get(s, k, Lower) = e.v /\ Lower[e.k] = Lower[k]
  <2> SUFFICES ASSUME NEW k, HasKey(s, k, Lower)
               PROVE  \E e \in Entry : Get(s, k, Lower) = e.v /\ Lower[e.k] = Lower[k]
    OBVIOUS
  <2>1. PICK g \in Seq(Vals) : g = GetAll(s, k, Lower) /\ g # <<>> /\ Get(s, k, Lower) = g[Len(g)]
    BY Reading
  <2>2. Len(g) \in 1..Len(g)
    BY <2>1
  <2>3. \A i \in 1..Len(g) : \E e \in Entry : g[i] = e.v /\ Lower[e.k] = Lower[k]
    BY <2>1, OfEntries
  <2> QED
    BY <2>1, <2>2, <2>3
<1>2. HasKey(s, CC, Lower) => Get(s, CC, Lower) \in CCText
  BY <1>1, NormIs, EntryKeys
<1>3. HasKey(s, CT, Lower) => Get(s, CT, Lower) \in ContentTypes
  BY <1>1, NormIs, EntryKeys
<1>4. Plain("") \in ContentTypes
  BY DEF Plain, ContentTypes
<1> QED
  BY <1>2, <1>3, <1>4, TextsAre DEF Header, TypeHeader, HasType

LEMMA WritingBack ==
  ASSUME NEW s \in Lists, NEW props \in SUBSET Directives
  PROVE  /\ WriteBack(s, props) \in Lists
         /\ Header(WriteBack(s, props)).props = props
         /\ \A l : Lower[l] # CC => GetAll(WriteBack(s, props), l, Lower) = GetAll(s, l, Lower)
<1>1. Lower[CC] = CC
  BY NormIs
<1>2. CASE props = {}
  <2>1. PICK w \in Lists : w = Without(s, CC, Lower)
    BY Removing
  <2>2. \A l : GetAll(w, l, Lower) = IF Lower[l] = Lower[CC] THEN <<>> ELSE GetAll(s, l, Lower)
    BY <2>1, Removing
  <2>3. ~HasKey(w, CC, Lower)
    BY <2>2, Reading
  <2>4. Header(w).props = {}
    BY <2>3 DEF Header, NoText, Text
  <2>5. Deleted(s, CC, Lower) = Without(s, CC, Lower)
    BY DeletedIs DEF Lists
  <2>6. WriteBack(s, props) = w
    BY <1>2, <2>1, <2>5 DEF WriteBack
  <2> QED
    BY <1>1, <1>2, <2>2, <2>4, <2>6
<1>3. CASE props # {}
  <2>1. Text(props, FALSE) \in CCText /\ Text(props, FALSE).props = props
    BY DEF CCText, Text
  <2>2. PICK v \in CCText : v = Text(props, FALSE) /\ v.props = props
    BY <2>1
  <2>3. Pair(CC, v) \in Entry
    BY EntryKeys
  <2>4. \A l : /\ SetItem(s, CC, v, Lower) \in Lists
               /\ GetAll(SetItem(s, CC, v, Lower), l, Lower)
                    = IF Lower[l] = Lower[CC] THEN <<v>> ELSE GetAll(s, l, Lower)
    BY <2>3, Setting
  <2>5. PICK w \in Lists : w = SetItem(s, CC, v, Lower)
    BY <2>4
  <2>6. GetAll(w, CC, Lower) = <<v>>
    BY <2>4, <2>5
  <2>7. HasKey(w, CC, Lower) /\ Get(w, CC, Lower) = v
    <3>1. PICK g : g = GetAll(w, CC, Lower)
      OBVIOUS
    <3>2. g # <<>> /\ Len(g) = 1 /\ g[1] = v
      BY <2>6, <3>1
    <3>3. (HasKey(w, CC, Lower) <=> g # <<>>) /\ (HasKey(w, CC, Lower) => Get(w, CC, Lower) = g[Len(g)])
      BY <3>1, Reading
    <3> QED
      BY <3>2, <3>3
  <2>8. Header(w).props = props
    BY <2>2, <2>7 DEF Header
  <2>9. WriteBack(s, props) = w
    BY <1>3, <2>2, <2>5 DEF WriteBack
  <2> QED
    BY <1>1, <2>4, <2>5, <2>8, <2>9
<1> QED
  BY <1>2, <1>3

\* Reading res.cache_control gives an object that shows the header it leaves,
\* unless it was asked for and the header is still the text that it knows.
LEMMA ReadingCC ==
  ASSUME NEW s \in Lists, NEW c, c = <<>> \/ IsObject(c)
  PROVE  /\ ReadCC(s, c).items \in Lists
         /\ IsObject(ReadCC(s, c).cc)
         /\ \/ ReadCC(s, c).cc[1].props = Header(ReadCC(s, c).items).props
            \/ ReadCC(s, c) = [items |-> s, cc |-> c] /\ c # <<>> /\ c[1].text = Header(s)
         /\ \A l : Lower[l] # CC => GetAll(ReadCC(s, c).items, l, Lower) = GetAll(s, l, Lower)
<1>1. PICK t \in CCText : t = Header(s)
  BY HeaderIs
<1>2. t.props \in SUBSET Directives
  BY DEF CCText
<1>3. PICK o : o = <<[props |-> t.props, text |-> t]>> /\ IsObject(o) /\ o[1].props = t.props
  <2>1. PICK p \in SUBSET Directives : p = t.props
    BY <1>2
  <2>2. PICK o : o = <<[props |-> p, text |-> t]>>
    OBVIOUS
  <2>3. IsObject(o)
    BY <2>2 DEF IsObject
  <2>4. o[1].props = p
    BY <2>2
  <2> QED
    BY <2>1, <2>2, <2>3, <2>4
<1>4. PICK w \in Lists : /\ w = WriteBack(s, t.props) /\ Header(w).props = t.props
                         /\ \A l : Lower[l] # CC => GetAll(w, l, Lower) = GetAll(s, l, Lower)
  BY <1>2, WritingBack
<1>5. CASE c = <<>>
  <2>1. PICK u \in Lists : u = IF t.props = {} THEN s ELSE w
    OBVIOUS
  <2>2. ReadCC(s, c).items = u /\ ReadCC(s, c).cc = o
    BY <1>1, <1>3, <1>4, <1>5, <2>1 DEF ReadCC
  <2>3. Header(u).props = t.props
    BY <1>1, <1>4, <2>1
  <2>4. \A l : Lower[l] # CC => GetAll(u, l, Lower) = GetAll(s, l, Lower)
    BY <1>4, <2>1
  <2> QED
    BY <1>3, <2>2, <2>3, <2>4
<1>6. CASE c # <<>> /\ c[1].text # t
  <2>1. ReadCC(s, c).items = w /\ ReadCC(s, c).cc = o
    BY <1>1, <1>3, <1>4, <1>6 DEF ReadCC
  <2> QED
    BY <1>3, <1>4, <2>1
<1>7. CASE c # <<>> /\ c[1].text = t
  <2>1. ReadCC(s, c) = [items |-> s, cc |-> c]
    BY <1>1, <1>7 DEF ReadCC
  <2> QED
    BY <1>1, <1>7, <2>1
<1> QED
  BY <1>5, <1>6, <1>7

(* A call of a dictionary method.                                           *)
LEMMA CallIs ==
  \A o, n, p, a : o = [name |-> n, pairs |-> p, attr |-> a] => o.name = n /\ o.pairs = p /\ o.attr = a
  OBVIOUS

LEMMA CallDoes ==
  ASSUME TypeInv, NEW name, NEW pairs, NEW new, NEW result, Call(name, pairs, new, result)
  PROVE  /\ part' = part /\ held' = held /\ cc' = cc /\ view' \in {"none", "current"}
         /\ \/ op' = [name |-> "stale", pairs |-> <<>>, attr |-> ""] /\ items' = items
            \/ op' = [name |-> name, pairs |-> pairs, attr |-> ""] /\ ret' = result /\ items' = new
  BY DEF Call, TypeInv

LEMMA SettingType ==
  ASSUME NEW s \in Lists, NEW v \in ContentTypes
  PROVE  SetItem(s, CT, v, Lower) \in Lists /\ TypeHeader(SetItem(s, CT, v, Lower)) = v
<1>1. Pair(CT, v) \in Entry
  BY EntryKeys
<1>2. PICK w \in Lists : w = SetItem(s, CT, v, Lower) /\ GetAll(w, CT, Lower) = <<v>>
  BY <1>1, Setting
<1>3. PICK g : g = GetAll(w, CT, Lower)
  OBVIOUS
<1>4. g # <<>> /\ Len(g) = 1 /\ g[1] = v
  BY <1>2, <1>3
<1>5. (HasKey(w, CT, Lower) <=> g # <<>>) /\ (HasKey(w, CT, Lower) => Get(w, CT, Lower) = g[Len(g)])
  BY <1>3, Reading
<1> QED
  BY <1>2, <1>4, <1>5 DEF TypeHeader, HasType

LEMMA PoppedIs ==
  ASSUME NEW s \in Lists, HasType(s)
  PROVE  /\ Popped(s) = GetAll(s, CT, Lower)[1]
         /\ Popped(s) \in ContentTypes
<1>1. HasKey(s, CT, Lower)
  BY DEF HasType
<1>2. PICK g \in Seq(Vals) : g = GetAll(s, CT, Lower) /\ g # <<>>
  BY <1>1, Reading
<1>3. Popped(s) = g[1]
  BY <1>1, <1>2, Popping DEF Popped
<1>4. 1 \in 1..Len(g)
  BY <1>2
<1>5. PICK e \in Entry : g[1] = e.v /\ Lower[e.k] = Lower[CT]
  BY <1>2, <1>4, OfEntries
<1> QED
  BY <1>2, <1>3, <1>5, NormIs, EntryKeys

LEMMA SetAndPop ==
  ASSUME NEW s \in Lists, NEW k, NEW f
  PROVE  /\ PopFirst(s, k, f) \in Lists
         /\ \A v : Pair(k, v) \in Entry => SetItem(s, k, v, f) \in Lists /\ SetDefault(s, k, v, f) \in Lists
<1>1. PopFirst(s, k, f) \in Lists
  BY Popping DEF PopFirst
<1>2. \A v : Pair(k, v) \in Entry => SetItem(s, k, v, f) \in Lists
  BY Setting
<1>3. \A v : Pair(k, v) \in Entry => Append(s, Pair(k, v)) \in Lists
  BY DEF Lists
<1> QED
  BY <1>1, <1>2, <1>3 DEF SetDefault

TwoSet(s, p, q, f) ==
  /\ Update(s, <<p, q>>, f) \in Lists
  /\ s \o <<p, q>> \in Lists
  /\ Extend(s, <<p, q>>, <<>>, f) = s \o <<p, q>>
  /\ Extend(s, <<>>, <<p, q>>, f) = Update(s, <<p, q>>, f)

LEMMA SetTwo ==
  ASSUME NEW s \in Lists, NEW p \in Entry, NEW q \in Entry, NEW f
  PROVE  TwoSet(s, p, q, f)
<1>1. Pair(p.k, p.v) \in Entry /\ Pair(q.k, q.v) \in Entry
  BY EntryKeys
<1>2. PICK w \in Lists : w = SetItem(s, p.k, p.v, f)
  BY <1>1, Setting
<1>3. SetItem(w, q.k, q.v, f) \in Lists
  BY <1>1, Setting
<1>4. Update(s, <<p, q>>, f) \in Lists
  BY <1>2, <1>3, Updating
<1>5. <<p, q>> \in Seq(Entry)
  OBVIOUS
<1>6. s \o <<p, q>> \in Lists
  BY <1>5, ConcatProperties DEF Lists
<1>7. s \o <<>> = s
  BY ConcatEmptySeq DEF Lists
<1> QED
  BY <1>4, <1>6, <1>7, Updating DEF Extend, TwoSet

---------------------------------------------------------------------------
LEMMA Initial ==
  Init => IInv
<1> SUFFICES ASSUME Init PROVE IInv
  OBVIOUS
<1>1. part \in {"multidict", "headers", "cache", "type"}
  BY HeaderAssumption DEF Init
<1>2. items \in Lists
  <2>1. [type |-> "text", charset |-> "default", param |-> FALSE] \in ContentTypes
    BY DEF ContentTypes
  <2>2. PICK p \in Entry : p = Pair(CT, [type |-> "text", charset |-> "default", param |-> FALSE])
    BY <2>1, EntryKeys
  <2>3. <<p>> \in Seq(Entry) /\ <<>> \in Seq(Entry)
    OBVIOUS
  <2> QED
    BY <2>2, <2>3 DEF Init, Lists
<1>3. TypeInv
  BY <1>1, <1>2 DEF Init, TypeInv
<1>4. Shown /\ Stripped
  BY DEF Init, Shown, Stripped
<1> QED
  BY <1>3, <1>4 DEF IInv

LEMMA Stuttering ==
  IInv /\ UNCHANGED vars => IInv'
<1> SUFFICES ASSUME IInv, UNCHANGED vars PROVE IInv'
  OBVIOUS
<1>1. TypeInv'
  BY DEF IInv, TypeInv, vars
<1>2. Shown'
  BY DEF IInv, Shown, vars
<1>3. Stripped'
  BY DEF IInv, Stripped, vars
<1> QED
  BY <1>1, <1>2, <1>3 DEF IInv

\* What any call keeps when the list that it makes is one of entries.
LEMMA CallKeeps ==
  ASSUME IInv, NEW name, NEW pairs, NEW new \in Lists, NEW result, Call(name, pairs, new, result),
         name # "attribute", byhand' = TRUE
  PROVE  IInv'
<1>1. /\ part' = part /\ held' = held /\ cc' = cc /\ view' \in {"none", "current"}
      /\ items' \in Lists /\ op'.name # "attribute"
  <2>1. TypeInv
    BY DEF IInv
  <2>2. /\ part' = part /\ held' = held /\ cc' = cc /\ view' \in {"none", "current"}
        /\ \/ op' = [name |-> "stale", pairs |-> <<>>, attr |-> ""] /\ items' = items
           \/ op' = [name |-> name, pairs |-> pairs, attr |-> ""] /\ ret' = result /\ items' = new
    BY <2>1, CallDoes
  <2>3. items \in Lists
    BY <2>1 DEF TypeInv
  <2>4. op'.name \in {"stale", name}
    BY <2>2, CallIs
  <2> QED
    BY <2>2, <2>3, <2>4
<1>2. TypeInv'
  BY <1>1 DEF IInv, TypeInv
<1>3. Shown' /\ Stripped'
  BY <1>1 DEF Shown, Stripped
<1> QED
  BY <1>2, <1>3 DEF IInv

LEMMA AttributeKeeps ==
  ASSUME IInv, NEW names, NEW r, part = "cache", Attribute(names, r),
         r.items \in Lists, r.cc = <<>> \/ IsObject(r.cc),
         \/ r.cc = <<>>
         \/ r.cc[1].props = Header(r.items).props
         \/ r = [items |-> items, cc |-> cc]
  PROVE  IInv'
<1>1. /\ part' = part /\ held' = held /\ cc' = r.cc /\ items' = r.items
      /\ byhand' = (byhand /\ items' = items) /\ view' = IF view = "none" THEN "current" ELSE view
  BY DEF Attribute
<1>2. TypeInv'
  <2>1. view' \in {"none", "current"}
    BY <1>1 DEF IInv, TypeInv
  <2>2. byhand' \in BOOLEAN
    BY <1>1
  <2> QED
    BY <1>1, <2>1, <2>2 DEF IInv, TypeInv
<1>3. Shown'
  <2>1. CASE r.cc = <<>> \/ r.cc[1].props = Header(r.items).props
    BY <2>1, <1>1 DEF Shown
  <2>2. CASE r = [items |-> items, cc |-> cc]
    <3>1. items' = items /\ cc' = cc
      BY <1>1, <2>2
    <3>2. Header(items)' = Header(items)
      BY <3>1
    <3>3. byhand' <=> byhand
      BY <1>1, <3>1
    <3> QED
      BY <3>1, <3>2, <3>3 DEF IInv, Shown
  <2> QED
    BY <2>1, <2>2
<1>4. Stripped'
  BY <1>1 DEF Stripped
<1> QED
  BY <1>2, <1>3, <1>4 DEF IInv

LEMMA TypeAttributeKeeps ==
  ASSUME IInv, NEW name, NEW s \in Lists, TypeAttribute(name, s),
         name = "del charset" => TypeHeader(s).charset = "none"
  PROVE  IInv'
<1>1. /\ part = "type" /\ part' = part /\ held' = held /\ cc' = cc /\ items' = s /\ byhand' = byhand
      /\ op'.attr = name /\ view' = IF view = "none" THEN "current" ELSE view
  BY DEF TypeAttribute
<1>2. TypeInv'
  <2>1. view' \in {"none", "current"}
    BY <1>1 DEF IInv, TypeInv
  <2>2. cc' = <<>> /\ part' # "cache"
    BY <1>1 DEF IInv, TypeInv
  <2> QED
    BY <1>1, <2>1, <2>2 DEF IInv, TypeInv
<1>3. Shown'
  BY <1>1 DEF IInv, TypeInv, Shown
<1>4. Stripped'
  BY <1>1 DEF Stripped
<1> QED
  BY <1>2, <1>3, <1>4 DEF IInv

LEMMA DictionaryKeeps ==
  ASSUME IInv, Dictionary
  PROVE  IInv'
<1>1. TypeInv /\ items \in Lists /\ part \in {"multidict", "headers", "cache", "type"}
  BY DEF IInv, TypeInv
<1>2. ASSUME NEW k \in DictKeys, NEW v \in DictValues, NEW pairs, NEW result,
             \/ Call("set", pairs, SetItem(items, k, v, norm), result)
             \/ Call("add", pairs, AddItem(items, k, v), result)
             \/ Call("setdefault", pairs, SetDefault(items, k, v, norm), result),
             byhand' = TRUE
      PROVE  IInv'
  <2>1. Pair(k, v) \in Entry
    BY <1>1, Given
  <2>2. PICK a \in Lists, b \in Lists, c \in Lists :
           a = SetItem(items, k, v, norm) /\ b = AddItem(items, k, v) /\ c = SetDefault(items, k, v, norm)
    <3>1. SetItem(items, k, v, norm) \in Lists /\ SetDefault(items, k, v, norm) \in Lists
      BY <1>1, <2>1, SetAndPop
    <3>2. AddItem(items, k, v) \in Lists
      BY <1>1, <2>1, Adding
    <3> QED
      BY <3>1, <3>2
  <2>3. CASE Call("set", pairs, a, result)
    BY <2>3, <1>2, CallKeeps
  <2>4. CASE Call("add", pairs, b, result)
    BY <2>4, <1>2, CallKeeps
  <2>5. CASE Call("setdefault", pairs, c, result)
    BY <2>5, <1>2, CallKeeps
  <2> QED
    BY <1>2, <2>2, <2>3, <2>4, <2>5
<1>3. ASSUME NEW k, NEW pairs, NEW result,
             \/ Call("del", pairs, Deleted(items, k, norm), result)
             \/ Call("pop", pairs, PopFirst(items, k, norm), result),
             byhand' = TRUE
      PROVE  IInv'
  <2>1. PICK a \in Lists, b \in Lists : a = Deleted(items, k, norm) /\ b = PopFirst(items, k, norm)
    BY <1>1, Removing, DeletedIs, SetAndPop DEF Lists
  <2>2. CASE Call("del", pairs, a, result)
    BY <2>2, <1>3, CallKeeps
  <2>3. CASE Call("pop", pairs, b, result)
    BY <2>3, <1>3, CallKeeps
  <2> QED
    BY <1>3, <2>1, <2>2, <2>3
<1>4. CASE Set
  BY <1>2, <1>4 DEF Set
<1>5. CASE Add
  BY <1>2, <1>5 DEF Add
<1>6. CASE Del
  BY <1>3, <1>6 DEF Del
<1>7. CASE Default
  BY <1>2, <1>7 DEF Default
<1>8. CASE Pop
  BY <1>3, <1>8 DEF Pop
<1>9. CASE PopItem
  <2>1. PICK a \in Lists : a = IF items = <<>> THEN items ELSE Front(items)
    BY <1>1, TakingLast
  <2>2. PICK result : Call("popitem", <<>>, a, result) /\ byhand' = TRUE
    BY <1>9, <2>1 DEF PopItem
  <2> QED
    BY <2>2, CallKeeps
<1>10. CASE Clear
  <2>1. <<>> \in Lists
    BY DEF Lists
  <2> QED
    BY <1>10, <2>1, CallKeeps DEF Clear
<1>11. CASE Pairs
  <2>1. PICK k, l \in DictKeys, v, w \in DictValues :
          LET given == <<Pair(k, v), Pair(l, w)>> names == <<Named(k, v), Named(l, w)>>
          IN /\ \/ Call("update", names, Update(items, given, norm), <<>>)
                \/ Call("extend", names, Extend(items, given, <<>>, norm), <<>>)
                \/ k # l /\ Call("update", names, Extend(items, <<>>, given, norm), <<>>)
             /\ byhand' = TRUE
    BY <1>11 DEF Pairs
  <2>2. Pair(k, v) \in Entry /\ Pair(l, w) \in Entry
    BY <1>1, Given
  <2>3. PICK p \in Entry, q \in Entry : p = Pair(k, v) /\ q = Pair(l, w)
    BY <2>2
  <2>4. PICK a \in Lists, b \in Lists :
           /\ a = Update(items, <<p, q>>, norm) /\ b = Extend(items, <<p, q>>, <<>>, norm)
           /\ a = Extend(items, <<>>, <<p, q>>, norm)
    <3>1. TwoSet(items, p, q, norm)
      BY <1>1, <2>3, SetTwo
    <3> QED
      BY <3>1 DEF TwoSet
  <2>5. PICK names : Call("update", names, a, <<>>) \/ Call("extend", names, b, <<>>)
    BY <2>1, <2>3, <2>4
  <2> QED
    BY <2>1, <2>5, CallKeeps
<1>12. CASE Keep
  <2>1. TypeInv'
    BY <1>12 DEF Keep, IInv, TypeInv
  <2>2. Shown' /\ Stripped'
    <3>1. cc' = <<>>
      BY <1>12, <1>1 DEF Keep, TypeInv
    <3>2. UNCHANGED <<part, items, op>>
      BY <1>12 DEF Keep
    <3>3. Stripped'
      BY <3>2 DEF IInv, Stripped
    <3> QED
      BY <3>1, <3>3 DEF Shown
  <2> QED
    BY <2>1, <2>2 DEF IInv
<1>13. CASE AssignList
  <2>1. items' = <<>> \/ \E k \in DictKeys, v \in DictValues : items' = <<Pair(k, v)>>
    BY <1>13 DEF AssignList
  <2>2. ASSUME NEW k \in DictKeys, NEW v \in DictValues PROVE <<Pair(k, v)>> \in Lists
    <3>1. PICK p \in Entry : p = Pair(k, v)
      BY <1>1, Given
    <3> QED
      BY <3>1 DEF Lists
  <2>3. <<>> \in Lists
    BY DEF Lists
  <2>4. items' \in Lists
    BY <2>1, <2>2, <2>3
  <2>5. TypeInv'
    BY <1>13, <2>4 DEF AssignList, IInv, TypeInv
  <2>6. Shown' /\ Stripped'
    BY <1>13 DEF AssignList, Shown, Stripped
  <2> QED
    BY <2>5, <2>6 DEF IInv
<1> QED
  BY <1>4, <1>5, <1>6, <1>7, <1>8, <1>9, <1>10, <1>11, <1>12, <1>13 DEF Dictionary

LEMMA AttributesKeep ==
  ASSUME IInv, Attributes
  PROVE  IInv'
<1>1. TypeInv /\ items \in Lists
  BY DEF IInv, TypeInv
<1>2. items' \in Lists
  <2>1. CASE SetAttr
    <3>1. PICK k \in {"x", "y"}, v \in {1, 2} : items' = AttrSet(items, k, v)
      BY <2>1 DEF SetAttr
    <3>2. Pair(k, v) \in Entry
      BY EntryKeys
    <3>3. SetItem(items, k, v, Lower) \in Lists
      BY <1>1, <3>2, SetAndPop
    <3> QED
      BY <3>1, <3>3 DEF AttrSet, SetItem
  <2>2. CASE DelAttr
    BY <1>1, <2>2, Removing DEF DelAttr
  <2> QED
    BY <2>1, <2>2 DEF Attributes
<1>3. /\ part = "headers" /\ UNCHANGED <<part, view, held, cc, byhand>>
      /\ op'.name # "attribute"
  <2>1. CASE SetAttr
    <3>1. PICK p : op' = [name |-> "set", pairs |-> p, attr |-> ""]
      BY <2>1 DEF SetAttr
    <3>2. op'.name = "set"
      BY <3>1, CallIs
    <3> QED
      BY <2>1, <3>2 DEF SetAttr
  <2>2. CASE DelAttr
    <3>1. op'.name = "del"
      BY <2>2, CallIs DEF DelAttr
    <3> QED
      BY <2>2, <3>1 DEF DelAttr
  <2> QED
    BY <2>1, <2>2 DEF Attributes
<1>4. TypeInv'
  BY <1>1, <1>2, <1>3 DEF TypeInv
<1>5. Shown' /\ Stripped'
  BY <1>1, <1>3 DEF TypeInv, Shown, Stripped
<1> QED
  BY <1>4, <1>5 DEF IInv

\* What Expires assigns, of the list and of the object it has read.
ExpiringProps(old, seconds, more) ==
  (CASE seconds = "zero" -> WithDirective(old, "age0") \cup {"no-store"}
     [] seconds = "some" -> {"age1"}
     [] OTHER            -> old) \cup more
ExpiringItems(s, seconds) ==
  CASE seconds = "zero" ->
         AttrSet(IF HasKey(s, "last-modified", Lower) THEN AttrSet(s, "expires", 1)
                 ELSE AttrSet(AttrSet(s, "expires", 1), "last-modified", 1), "pragma", 1)
    [] seconds = "some" -> Without(AttrSet(s, "expires", 1), "pragma", Lower)
    [] OTHER            -> s
Expiring(r, seconds, more) ==
  LET props == ExpiringProps(r.cc[1].props, seconds, more)
  IN Attribute(Expiry, [items |-> IF seconds = "none" /\ more = {} THEN r.items
                                  ELSE WriteBack(ExpiringItems(r.items, seconds), props),
                        cc |-> <<[r.cc[1] EXCEPT !.props = props]>>])

LEMMA CacheControlKeeps ==
  ASSUME IInv, CacheControl
  PROVE  IInv'
<1>1. TypeInv /\ Shown /\ Stripped /\ items \in Lists /\ (cc = <<>> \/ IsObject(cc))
  BY DEF IInv, TypeInv
<1>2. PICK now : /\ now = ReadCC(items, cc)
                 /\ now.items \in Lists /\ IsObject(now.cc)
                 /\ now.cc[1].props = Header(now.items).props \/ now = [items |-> items, cc |-> cc]
  BY <1>1, ReadingCC
\* An object that is filled and written back shows the header it wrote.
<1>3. ASSUME NEW names, NEW s \in Lists, NEW c, IsObject(c), NEW props \in SUBSET Directives, part = "cache",
             Attribute(names, [items |-> WriteBack(s, props), cc |-> <<[c[1] EXCEPT !.props = props]>>])
      PROVE  IInv'
  <2>1. PICK w \in Lists : w = WriteBack(s, props) /\ Header(w).props = props
    BY WritingBack
  <2>2. PICK p \in SUBSET Directives, t \in CCText : c = <<[props |-> p, text |-> t]>>
    BY <1>3 DEF IsObject
  <2>3. <<[c[1] EXCEPT !.props = props]>> = <<[props |-> props, text |-> t]>>
    <3>1. c[1] = [props |-> p, text |-> t]
      BY <2>2
    <3> QED
      BY <3>1
  <2>4. PICK o : o = <<[props |-> props, text |-> t]>> /\ IsObject(o) /\ o[1].props = props
    <3>1. PICK o : o = <<[props |-> props, text |-> t]>>
      OBVIOUS
    <3> QED
      BY <3>1 DEF IsObject
  <2>5. PICK r : r = [items |-> w, cc |-> o]
    OBVIOUS
  <2>6. r.items = w /\ r.cc = o
    BY <2>5
  <2>7. Attribute(names, r)
    BY <1>3, <2>1, <2>3, <2>4, <2>5
  <2> QED
    BY <1>1, <1>3, <2>1, <2>4, <2>6, <2>7, AttributeKeeps
<1>4. \A c : IsObject(c) => c[1].props \in SUBSET Directives
  BY DEF IsObject
<1>5. CASE Read
  BY <1>1, <1>2, <1>5, AttributeKeeps DEF Read
<1>6. ASSUME NEW p \in SUBSET Directives, part = "cache", Attribute(OnlyCC, FillCC(items, cc, p))
      PROVE  IInv'
  <2>1. FillCC(items, cc, p) = [items |-> WriteBack(now.items, p), cc |-> <<[now.cc[1] EXCEPT !.props = p]>>]
    BY <1>2 DEF FillCC
  <2> QED
    BY <1>2, <1>3, <1>6, <2>1
<1>7. CASE SetDirective
  <2>1. PICK d \in {"age1", "private"}, fresh \in BOOLEAN :
          /\ part = "cache" /\ (cc = <<>> => fresh)
          /\ LET r == IF fresh THEN now ELSE [items |-> items, cc |-> cc]
                 props == WithDirective(r.cc[1].props, d)
             IN Attribute(OnlyCC, [items |-> WriteBack(r.items, props), cc |-> <<[r.cc[1] EXCEPT !.props = props]>>])
    BY <1>2, <1>7 DEF SetDirective
  <2>2. PICK r : r = IF fresh THEN now ELSE [items |-> items, cc |-> cc]
    OBVIOUS
  <2>3. r.items \in Lists /\ IsObject(r.cc)
    BY <1>1, <1>2, <2>1, <2>2
  <2>4. PICK props \in SUBSET Directives : props = WithDirective(r.cc[1].props, d)
    BY <1>4, <2>3 DEF WithDirective, Directives
  <2>5. Attribute(OnlyCC, [items |-> WriteBack(r.items, props), cc |-> <<[r.cc[1] EXCEPT !.props = props]>>])
    BY <2>1, <2>2, <2>4
  <2> QED
    BY <1>3, <2>1, <2>3, <2>5
<1>8. CASE DelDirective
  <2>1. PICK d \in Directives :
          /\ part = "cache" /\ cc # <<>>
          /\ Attribute(OnlyCC, [items |-> WriteBack(items, cc[1].props \ {d}),
                                cc |-> <<[cc[1] EXCEPT !.props = cc[1].props \ {d}]>>])
    BY <1>8 DEF DelDirective
  <2>2. PICK props \in SUBSET Directives : props = cc[1].props \ {d}
    BY <1>1, <1>4, <2>1
  <2> QED
    BY <1>1, <1>3, <2>1, <2>2
<1>9. CASE AssignText
  <2>1. PICK t \in Texts : /\ part = "cache"
                           /\ Attribute(OnlyCC, IF cc = <<>> THEN [items |-> SetItem(items, CC, t, Lower), cc |-> cc]
                                                ELSE FillCC(items, cc, {}))
    BY <1>9 DEF AssignText
  <2>2. CASE cc = <<>>
    <3>1. Pair(CC, t) \in Entry
      BY TextsAre, EntryKeys
    <3>2. PICK w \in Lists : w = SetItem(items, CC, t, Lower)
      BY <1>1, <3>1, SetAndPop
    <3>3. PICK r : r = [items |-> w, cc |-> cc]
      OBVIOUS
    <3>4. Attribute(OnlyCC, r) /\ r.items \in Lists /\ r.cc = <<>>
      BY <2>1, <2>2, <3>2, <3>3
    <3> QED
      BY <2>1, <3>4, AttributeKeeps
  <2>3. CASE cc # <<>>
    BY <1>6, <2>1, <2>3
  <2> QED
    BY <2>2, <2>3
<1>10. CASE AssignTextFails
  <2>1. UNCHANGED <<part, items, view, held, cc, byhand>> /\ part = "cache"
    BY <1>10 DEF AssignTextFails
  <2>2. TypeInv'
    BY <1>1, <2>1 DEF TypeInv
  <2>3. Shown' /\ Stripped'
    BY <1>1, <2>1 DEF Shown, Stripped
  <2> QED
    BY <2>2, <2>3 DEF IInv
<1>11. CASE AssignObject
  <2>1. \A p \in {{}, {"age1"}, {"private", "no-store"}} : p \in SUBSET Directives
    BY DEF Directives
  <2> QED
    BY <1>6, <1>11, <2>1 DEF AssignObject
<1>12. CASE AssignSelf
  BY <1>6, <1>12 DEF AssignSelf
<1>13. CASE Expires
  <2>1. now = ReadCC(items, cc)
    BY <1>2
  <2>2. PICK seconds \in {"none", "zero", "some"}, more \in {{}, {"private"}} :
          part = "cache" /\ Expiring(now, seconds, more)
    <3>1. \E seconds \in {"none", "zero", "some"}, more \in {{}, {"private"}} :
            part = "cache" /\ Expiring(ReadCC(items, cc), seconds, more)
      BY ONLY <1>13 DEF Expires, Expiring, ExpiringProps, ExpiringItems
    <3> QED
      BY <2>1, <3>1
  <2>3. PICK old \in SUBSET Directives : old = now.cc[1].props
    BY <1>2, <1>4
  <2>4. PICK props \in SUBSET Directives : props = ExpiringProps(old, seconds, more)
    BY DEF ExpiringProps, WithDirective, Directives
  <2>5. \A s \in Lists : /\ \A k \in {"expires", "last-modified", "pragma"} : AttrSet(s, k, 1) \in Lists
                         /\ Without(s, "pragma", Lower) \in Lists
    <3> SUFFICES ASSUME NEW s \in Lists
                 PROVE  /\ \A k \in {"expires", "last-modified", "pragma"} : AttrSet(s, k, 1) \in Lists
                        /\ Without(s, "pragma", Lower) \in Lists
      OBVIOUS
    <3>1. Without(s, "pragma", Lower) \in Lists
      BY Removing
    <3>2. \A k : Pair(k, 1) \in Entry => SetItem(s, k, 1, Lower) \in Lists
      BY SetAndPop
    <3> QED
      BY <3>1, <3>2, EntryKeys DEF AttrSet, SetItem
  <2>6. PICK dated \in Lists : dated = ExpiringItems(now.items, seconds)
    BY <1>2, <2>5 DEF ExpiringItems
  <2>7. Attribute(Expiry, [items |-> IF seconds = "none" /\ more = {} THEN now.items ELSE WriteBack(dated, props),
                           cc |-> <<[now.cc[1] EXCEPT !.props = props]>>])
    BY <2>2, <2>3, <2>4, <2>6 DEF Expiring
  <2>8. CASE seconds = "none" /\ more = {}
    <3>1. props = old
      BY <2>4, <2>8 DEF ExpiringProps
    <3>2. <<[now.cc[1] EXCEPT !.props = props]>> = now.cc
      BY <1>2, <2>3, <3>1 DEF IsObject
    <3>3. PICK r : r = [items |-> now.items, cc |-> now.cc]
      OBVIOUS
    <3>4. r.items = now.items /\ r.cc = now.cc /\ Attribute(Expiry, r)
      BY <2>7, <2>8, <3>2, <3>3
    <3>5. now = [items |-> items, cc |-> cc] => r = [items |-> items, cc |-> cc]
      BY <3>3
    <3> QED
      BY <1>1, <1>2, <2>2, <3>4, <3>5, AttributeKeeps
  <2>9. CASE ~(seconds = "none" /\ more = {})
    <3>1. Attribute(Expiry, [items |-> WriteBack(dated, props), cc |-> <<[now.cc[1] EXCEPT !.props = props]>>])
      BY <2>7, <2>9
    <3> QED
      BY <1>2, <1>3, <2>2, <3>1
  <2> QED
    BY <2>8, <2>9
<1> QED
  BY <1>5, <1>7, <1>8, <1>9, <1>10, <1>11, <1>12, <1>13 DEF CacheControl

LEMMA ContentTypeKeeps ==
  ASSUME IInv, ContentType
  PROVE  IInv'
<1>1. items \in Lists
  BY DEF IInv, TypeInv
<1>2. ASSUME NEW name, NEW v \in ContentTypes, TypeAttribute(name, PutType(v)),
             name = "del charset" => v.charset = "none"
      PROVE  IInv'
  <2>1. PICK s \in Lists : s = PutType(v) /\ TypeHeader(s) = v
    BY <1>1, SettingType DEF PutType
  <2> QED
    BY <1>2, <2>1, TypeAttributeKeeps
<1>3. TypeHeader(items) \in ContentTypes /\ (HasType(items) => Popped(items) \in ContentTypes)
  BY <1>1, HeaderIs, PoppedIs
<1>4. \A v \in ContentTypes : /\ \A c \in {"none", "default", "other"} : [v EXCEPT !.charset = c] \in ContentTypes
                              /\ [v EXCEPT !.charset = "none"].charset = "none"
                              /\ v.type \in {"", "text", "image"}
  BY DEF ContentTypes
<1>5. \A t \in {"", "text", "image"}, c \in {"none", "default", "other"} :
         [type |-> t, charset |-> c, param |-> TRUE] \in ContentTypes /\ Plain(t) \in ContentTypes
  BY DEF ContentTypes, Plain
<1>6. CASE SetContentType
  <2>1. PICK v \in ContentTypes :
          TypeAttribute("content_type", PutType(IF v.charset = "none" /\ v.type = "text"
                                                THEN [v EXCEPT !.charset = "default"] ELSE v))
    BY <1>6 DEF SetContentType
  <2>2. PICK w \in ContentTypes : w = IF v.charset = "none" /\ v.type = "text" THEN [v EXCEPT !.charset = "default"] ELSE v
    BY <1>4
  <2> QED
    BY <1>2, <2>1, <2>2
<1>7. CASE DelContentType
  <2>1. PICK s \in Lists : s = PopFirst(items, CT, Lower)
    BY <1>1, SetAndPop
  <2> QED
    BY <1>7, <2>1, TypeAttributeKeeps DEF DelContentType
<1>8. CASE SetCharset
  BY <1>2, <1>3, <1>4, <1>8 DEF SetCharset
<1>9. CASE DelCharset
  <2>1. CASE HasType(items)
    <3>1. PICK v \in ContentTypes : v = [Popped(items) EXCEPT !.charset = "none"] /\ v.charset = "none"
      BY <1>3, <1>4, <2>1
    <3> QED
      BY <1>2, <1>9, <2>1, <3>1 DEF DelCharset
  <2>2. CASE ~HasType(items)
    <3>1. TypeHeader(items).charset = "none"
      BY <2>2 DEF TypeHeader, Plain
    <3>2. TypeAttribute("del charset", items)
      BY <1>9, <2>2 DEF DelCharset
    <3> QED
      BY <1>1, <3>1, <3>2, TypeAttributeKeeps
  <2> QED
    BY <2>1, <2>2
<1>10. CASE SetParams
  <2>1. PICK c \in {"none", "other"} :
          TypeAttribute("params", PutType([type |-> IF HasType(items) THEN Popped(items).type ELSE "", charset |-> c, param |-> TRUE]))
    BY <1>10 DEF SetParams
  <2>2. PICK t \in {"", "text", "image"} : t = IF HasType(items) THEN Popped(items).type ELSE ""
    BY <1>3, <1>4
  <2> QED
    BY <1>2, <1>5, <2>1, <2>2
<1>11. CASE DelParams
  <2>1. TypeHeader(items).type \in {"", "text", "image"}
    BY <1>3, <1>4
  <2>2. Plain(TypeHeader(items).type) \in ContentTypes
    BY <1>5, <2>1
  <2> QED
    BY <1>2, <1>11, <2>2 DEF DelParams
<1> QED
  BY <1>6, <1>7, <1>8, <1>9, <1>10, <1>11 DEF ContentType

(* Every state has a list of entries, an object of cache_control that shows *)
(* the header it was parsed from unless that was put back by hand, and no   *)
(* charset right after the charset was deleted.                             *)
THEOREM Invariance ==
  Spec => []IInv
<1>1. IInv /\ [Next]_vars => IInv'
  BY Stuttering, DictionaryKeeps, AttributesKeep, CacheControlKeeps, ContentTypeKeeps DEF Next
<1> QED
  BY <1>1, Initial, PTL DEF Spec

(* res.cache_control shows the directives of the header, whatever was done  *)
(* through the object, by cache_expires or by hand before: ReadCC.          *)
THEOREM CacheControlIsShown ==
  Spec => []CacheControlShown
<1>1. IInv => CacheControlShown
  <2> SUFFICES ASSUME IInv, cc # <<>>
               PROVE  LET r == ReadCC(items, cc)
                      IN r.cc[1].props = Header(r.items).props \/ (byhand /\ Header(items) = cc[1].text)
    BY DEF CacheControlShown
  <2>1. items \in Lists /\ IsObject(cc)
    BY DEF IInv, TypeInv
  <2>2. PICK r : /\ r = ReadCC(items, cc)
                 /\ \/ r.cc[1].props = Header(r.items).props
                    \/ (r = [items |-> items, cc |-> cc] /\ cc[1].text = Header(items))
    BY <2>1, ReadingCC
  <2>3. CASE r = [items |-> items, cc |-> cc] /\ cc[1].text = Header(items)
    <3>1. r.items = items /\ r.cc = cc
      BY <2>3
    <3> QED
      BY <2>2, <2>3, <3>1 DEF IInv, Shown
  <2> QED
    BY <2>2, <2>3
<1> QED
  BY <1>1, Invariance, PTL

\* Of one Content-Type the first is the last.
LEMMA OneType ==
  ASSUME NEW s \in Lists, Len(GetAll(s, CT, Lower)) <= 1, HasType(s)
  PROVE  Popped(s) = TypeHeader(s)
<1>1. PICK g \in Seq(Vals) : g = GetAll(s, CT, Lower) /\ g # <<>> /\ Get(s, CT, Lower) = g[Len(g)]
  BY Reading DEF HasType
<1>2. Len(g) = 1
  BY <1>1
<1> QED
  BY <1>1, <1>2, PoppedIs DEF TypeHeader

(* Setting or deleting the charset or the parameters keeps the type, and    *)
(* the charset keeps the other parameter (response.py 817-995).             *)
THEOREM TypesAreKept ==
  Spec => TypeKept
<1> DEFINE A == part = "type" /\ op'.name = "attribute" /\ Len(GetAll(items, CT, Lower)) <= 1 =>
                  LET did == op'.attr before == TypeHeader(items) after == TypeHeader(items')
                  IN /\ did \in {"charset", "del charset", "params", "del params"} => after.type = before.type
                     /\ did \in {"charset", "del charset"} => after.param = before.param
                     /\ did = "del charset" => after.charset = "none"
<1>1. IInv /\ [Next]_vars => A
  <2> SUFFICES ASSUME IInv, [Next]_vars,
                      part = "type", op'.name = "attribute", Len(GetAll(items, CT, Lower)) <= 1
               PROVE  LET did == op'.attr before == TypeHeader(items) after == TypeHeader(items')
                      IN /\ did \in {"charset", "del charset", "params", "del params"} => after.type = before.type
                         /\ did \in {"charset", "del charset"} => after.param = before.param
                         /\ did = "del charset" => after.charset = "none"
    OBVIOUS
  <2>1. items \in Lists /\ TypeInv
    BY DEF IInv, TypeInv
  <2>2. PICK before \in ContentTypes : before = TypeHeader(items)
    BY <2>1, HeaderIs
  <2>3. HasType(items) => Popped(items) = before
    BY <2>1, <2>2, OneType
  <2>4. ~HasType(items) => before = Plain("")
    BY <2>2 DEF TypeHeader
  <2>5. \A v \in ContentTypes : /\ \A c \in {"none", "default", "other"} :
                                     /\ [v EXCEPT !.charset = c] \in ContentTypes
                                     /\ [v EXCEPT !.charset = c].type = v.type
                                     /\ [v EXCEPT !.charset = c].param = v.param
                                     /\ [v EXCEPT !.charset = c].charset = c
                                /\ v.type \in {"", "text", "image"}
    BY DEF ContentTypes
  <2>6. \A t \in {"", "text", "image"}, c \in {"none", "default", "other"} :
           /\ [type |-> t, charset |-> c, param |-> TRUE] \in ContentTypes
           /\ [type |-> t, charset |-> c, param |-> TRUE].type = t
           /\ Plain(t) \in ContentTypes /\ Plain(t).type = t
           /\ Plain(t).charset = "none"
    BY DEF ContentTypes, Plain
  <2>7. \A v \in ContentTypes : TypeHeader(PutType(v)) = v
    BY <2>1, SettingType DEF PutType
  <2>8. \A name, s : TypeAttribute(name, s) => items' = s /\ op'.attr = name
    <3> SUFFICES ASSUME NEW name, NEW s, TypeAttribute(name, s)
                 PROVE  items' = s /\ op'.attr = name
      OBVIOUS
    <3>1. items' = s /\ op' = [name |-> "attribute", pairs |-> <<<<CT, Plain("")>>>>, attr |-> name]
      BY DEF TypeAttribute
    <3> QED
      BY <3>1, CallIs
  <2>9. CASE SetContentType \/ DelContentType
    <3>1. op'.attr \in {"content_type", "del content_type"}
      BY <2>8, <2>9 DEF SetContentType, DelContentType
    <3> QED
      BY <3>1
  <2>10. CASE SetCharset
    <3>1. PICK c \in {"default", "other"} : TypeAttribute("charset", PutType([before EXCEPT !.charset = c]))
      BY <2>2, <2>10 DEF SetCharset
    <3>2. PICK v \in ContentTypes : v = [before EXCEPT !.charset = c] /\ v.type = before.type /\ v.param = before.param
      BY <2>5
    <3>3. TypeHeader(items') = v /\ op'.attr = "charset"
      BY <2>7, <2>8, <3>1, <3>2
    <3> QED
      BY <2>2, <3>2, <3>3
  <2>11. CASE DelCharset
    <3>1. CASE HasType(items)
      <4>1. PICK v \in ContentTypes : v = [before EXCEPT !.charset = "none"] /\ v.type = before.type
                                      /\ v.param = before.param /\ v.charset = "none"
        BY <2>5
      <4>2. TypeAttribute("del charset", PutType(v))
        BY <2>3, <2>11, <3>1, <4>1 DEF DelCharset
      <4>3. TypeHeader(items') = v
        BY <2>7, <2>8, <4>2
      <4> QED
        BY <2>2, <4>1, <4>3
    <3>2. CASE ~HasType(items)
      <4>1. items' = items
        BY <2>8, <2>11, <3>2 DEF DelCharset
      <4>2. before.charset = "none"
        BY <2>4, <3>2, <2>6
      <4> QED
        BY <2>2, <4>1, <4>2
    <3> QED
      BY <3>1, <3>2
  <2>12. CASE SetParams
    <3>1. PICK c \in {"none", "other"} :
            TypeAttribute("params", PutType([type |-> IF HasType(items) THEN Popped(items).type ELSE "", charset |-> c, param |-> TRUE]))
      BY <2>12 DEF SetParams
    <3>2. PICK t \in {"", "text", "image"} : t = (IF HasType(items) THEN Popped(items).type ELSE "") /\ t = before.type
      <4>1. before.type \in {"", "text", "image"}
        BY <2>5
      <4>2. ~HasType(items) => before.type = ""
        BY <2>4, <2>6
      <4> QED
        BY <2>3, <4>1, <4>2
    <3>3. PICK v \in ContentTypes : v = [type |-> t, charset |-> c, param |-> TRUE] /\ v.type = t
      BY <2>6
    <3>4. TypeAttribute("params", PutType(v))
      BY <3>1, <3>2, <3>3
    <3>5. TypeHeader(items') = v /\ op'.attr = "params"
      BY <2>7, <2>8, <3>4
    <3> QED
      BY <2>2, <3>2, <3>3, <3>5
  <2>13. CASE DelParams
    <3>1. PICK t \in {"", "text", "image"} : t = before.type
      BY <2>5
    <3>2. PICK v \in ContentTypes : v = Plain(t) /\ v.type = t
      BY <2>6
    <3>3. TypeAttribute("del params", PutType(v))
      BY <2>2, <2>13, <3>1, <3>2 DEF DelParams
    <3>4. TypeHeader(items') = v /\ op'.attr = "del params"
      BY <2>7, <2>8, <3>3
    <3> QED
      BY <2>2, <3>1, <3>2, <3>4
  <2>14. CASE Dictionary
    <3>1. CASE Keep
      <4>1. UNCHANGED <<items, op>>
        BY <3>1 DEF Keep
      <4> QED
        BY <4>1 DEF IInv, Stripped
    <3>2. CASE AssignList
      <4>1. op'.name = "assign"
        BY <3>2, CallIs DEF AssignList
      <4> QED
        BY <4>1
    <3>3. CASE \E name \in {"set", "add", "del", "setdefault", "pop", "popitem", "clear", "update", "extend"} :
                 \E pairs, new, result : Call(name, pairs, new, result)
      <4>1. PICK name \in {"set", "add", "del", "setdefault", "pop", "popitem", "clear", "update", "extend"} :
                 \E pairs, new, result : Call(name, pairs, new, result)
        BY <3>3
      <4>2. PICK pairs, new, result : Call(name, pairs, new, result)
        BY <4>1
      <4>3. \/ op' = [name |-> "stale", pairs |-> <<>>, attr |-> ""]
            \/ op' = [name |-> name, pairs |-> pairs, attr |-> ""]
        BY <2>1, <4>2, CallDoes
      <4>4. op'.name = "stale" \/ op'.name = name
        <5>1. CASE op' = [name |-> "stale", pairs |-> <<>>, attr |-> ""]
          BY <5>1, CallIs
        <5>2. CASE op' = [name |-> name, pairs |-> pairs, attr |-> ""]
          BY <5>2, CallIs
        <5> QED
          BY <4>3, <5>1, <5>2
      <4> QED
        BY <4>1, <4>4
    <3> QED
      BY <2>14, <3>1, <3>2, <3>3 DEF Dictionary, Set, Add, Del, Default, Pop, PopItem, Clear, Pairs
  <2>15. CASE Attributes
    BY <2>15 DEF Attributes, SetAttr, DelAttr
  <2>16. CASE CacheControl
    BY <2>16 DEF CacheControl, Read, SetDirective, DelDirective, AssignText, AssignTextFails, AssignObject, AssignSelf, Expires
  <2>17. CASE UNCHANGED vars
    BY <2>17 DEF vars, IInv, Stripped
  <2> QED
    BY <2>9, <2>10, <2>11, <2>12, <2>13, <2>14, <2>15, <2>16, <2>17 DEF Next, ContentType
<1>2. TypeKept <=> [][A]_vars
  BY DEF TypeKept
<1> HIDE DEF A
<1> QED
  BY <1>1, <1>2, Invariance, PTL DEF Spec

---------------------------------------------------------------------------
(* The refinement.  The table of a list, and what each of the methods does  *)
(* to it.                                                                   *)
TableOf(s, f) == [n \in Keys |-> IF f[n] = n THEN GetAll(s, n, f) ELSE <<>>]

LEMMA FoldingKeys ==
  \A f \in {Same, Lower}, k \in Keys : f[k] \in Keys /\ f[f[k]] = f[k]
  BY DEF Lower, Same, Keys, CC, CT

LEMMA FoldedKey ==
  ASSUME NEW s, NEW f \in {Same, Lower}, NEW k \in Keys
  PROVE  GetAll(s, f[k], f) = GetAll(s, k, f) /\ TableOf(s, f)[f[k]] = GetAll(s, k, f)
<1>1. f[k] \in Keys /\ f[f[k]] = f[k]
  BY FoldingKeys
<1>2. Having(s, f[k], f) = Having(s, k, f)
  BY <1>1 DEF Having
<1>3. GetAll(s, f[k], f) = GetAll(s, k, f)
  BY <1>2 DEF GetAll, Of
<1> QED
  BY <1>1, <1>3 DEF TableOf

Changed(s, t, k, f, new) == \A l : GetAll(t, l, f) = IF f[l] = f[k] THEN new ELSE GetAll(s, l, f)

Replaced(s, t, k, f, new) == TableOf(t, f) = [TableOf(s, f) EXCEPT ![f[k]] = new]

LEMMA OneName ==
  ASSUME NEW s, NEW t, NEW f \in {Same, Lower}, NEW k \in Keys, NEW new, Changed(s, t, k, f, new)
  PROVE  Replaced(s, t, k, f, new)
<1>1. f[k] \in Keys /\ f[f[k]] = f[k]
  BY FoldingKeys
<1>2. \A n \in Keys : f[n] = n => GetAll(t, n, f) = IF n = f[k] THEN new ELSE GetAll(s, n, f)
  BY DEF Changed
<1>3. \A n \in Keys : f[n] # n => n # f[k]
  BY <1>1
<1> QED
  BY <1>1, <1>2, <1>3 DEF TableOf, Replaced

LEMMA TableSet ==
  ASSUME NEW s \in Lists, NEW f \in {Same, Lower}, NEW k \in Keys, NEW v, Pair(k, v) \in Entry
  PROVE  /\ TableOf(SetItem(s, k, v, f), f) = [TableOf(s, f) EXCEPT ![f[k]] = <<v>>]
         /\ TableOf(AddItem(s, k, v), f) = [TableOf(s, f) EXCEPT ![f[k]] = Append(TableOf(s, f)[f[k]], v)]
         /\ TableOf(Without(s, k, f), f) = [TableOf(s, f) EXCEPT ![f[k]] = <<>>]
<1>1. \A l : GetAll(SetItem(s, k, v, f), l, f) = IF f[l] = f[k] THEN <<v>> ELSE GetAll(s, l, f)
  BY Setting
<1>2. \A l : GetAll(AddItem(s, k, v), l, f) = IF f[l] = f[k] THEN Append(GetAll(s, k, f), v) ELSE GetAll(s, l, f)
  <2>1. \A l : GetAll(AddItem(s, k, v), l, f) = IF f[l] = f[k] THEN Append(GetAll(s, l, f), v) ELSE GetAll(s, l, f)
    BY Adding
  <2>2. \A l : f[l] = f[k] => GetAll(s, l, f) = GetAll(s, k, f)
    <3>1. \A l : f[l] = f[k] => Having(s, l, f) = Having(s, k, f)
      BY DEF Having
    <3> QED
      BY <3>1 DEF GetAll, Of
  <2> QED
    BY <2>1, <2>2
<1>3. \A l : GetAll(Without(s, k, f), l, f) = IF f[l] = f[k] THEN <<>> ELSE GetAll(s, l, f)
  BY Removing
<1>4. PICK a, b, c : a = SetItem(s, k, v, f) /\ b = AddItem(s, k, v) /\ c = Without(s, k, f)
  OBVIOUS
<1>5. PICK va, vb : va = <<v>> /\ vb = Append(GetAll(s, k, f), v)
  OBVIOUS
<1>6. TableOf(a, f) = [TableOf(s, f) EXCEPT ![f[k]] = va]
  <2>1. Changed(s, a, k, f, va)
    BY <1>1, <1>4, <1>5 DEF Changed
  <2>2. Replaced(s, a, k, f, va)
    BY ONLY f \in {Same, Lower}, k \in Keys, <2>1, OneName
  <2> QED
    BY <2>2 DEF Replaced
<1>7. TableOf(b, f) = [TableOf(s, f) EXCEPT ![f[k]] = vb]
  <2>1. Changed(s, b, k, f, vb)
    BY <1>2, <1>4, <1>5 DEF Changed
  <2>2. Replaced(s, b, k, f, vb)
    BY ONLY f \in {Same, Lower}, k \in Keys, <2>1, OneName
  <2> QED
    BY <2>2 DEF Replaced
<1>8. TableOf(c, f) = [TableOf(s, f) EXCEPT ![f[k]] = <<>>]
  <2>1. Changed(s, c, k, f, <<>>)
    BY <1>3, <1>4 DEF Changed
  <2>2. Replaced(s, c, k, f, <<>>)
    BY ONLY f \in {Same, Lower}, k \in Keys, <2>1, OneName
  <2> QED
    BY <2>2 DEF Replaced
<1>9. TableOf(s, f)[f[k]] = GetAll(s, k, f)
  BY FoldedKey
<1> QED
  BY <1>4, <1>5, <1>6, <1>7, <1>8, <1>9

LEMMA TablePop ==
  ASSUME NEW s \in Lists, NEW f \in {Same, Lower}, NEW k \in Keys
  PROVE  /\ HasKey(s, k, f) <=> TableOf(s, f)[f[k]] # <<>>
         /\ HasKey(s, k, f) =>
              /\ s[First(s, k, f)].v = TableOf(s, f)[f[k]][1]
              /\ TableOf(PopFirst(s, k, f), f) = [TableOf(s, f) EXCEPT ![f[k]] = Tail(TableOf(s, f)[f[k]])]
<1>1. HasKey(s, k, f) <=> TableOf(s, f)[f[k]] # <<>>
  BY Reading, FoldedKey
<1>2. ASSUME HasKey(s, k, f)
      PROVE  /\ s[First(s, k, f)].v = TableOf(s, f)[f[k]][1]
             /\ TableOf(PopFirst(s, k, f), f) = [TableOf(s, f) EXCEPT ![f[k]] = Tail(TableOf(s, f)[f[k]])]
  <2>1. /\ s[First(s, k, f)].v = GetAll(s, k, f)[1]
        /\ \A l : GetAll(PopFirst(s, k, f), l, f) = IF f[l] = f[k] THEN Tail(GetAll(s, l, f)) ELSE GetAll(s, l, f)
    BY <1>2, Popping
  <2>2. \A l : f[l] = f[k] => GetAll(s, l, f) = GetAll(s, k, f)
    <3>1. \A l : f[l] = f[k] => Having(s, l, f) = Having(s, k, f)
      BY DEF Having
    <3> QED
      BY <3>1 DEF GetAll, Of
  <2>3. PICK t, new : t = PopFirst(s, k, f) /\ new = Tail(GetAll(s, k, f))
    OBVIOUS
  <2>4. \A l : GetAll(t, l, f) = IF f[l] = f[k] THEN new ELSE GetAll(s, l, f)
    BY <2>1, <2>2, <2>3
  <2>5. TableOf(t, f) = [TableOf(s, f) EXCEPT ![f[k]] = new]
    <3>1. Changed(s, t, k, f, new)
      BY <2>4 DEF Changed
    <3>2. Replaced(s, t, k, f, new)
      BY ONLY f \in {Same, Lower}, k \in Keys, <3>1, OneName
    <3> QED
      BY <3>2 DEF Replaced
  <2>6. PICK old : old = TableOf(s, f) /\ old[f[k]] = GetAll(s, k, f)
    BY FoldedKey
  <2>7. TableOf(PopFirst(s, k, f), f) = [old EXCEPT ![f[k]] = Tail(old[f[k]])]
    BY ONLY <2>3, <2>5, <2>6
  <2> QED
    BY ONLY <2>1, <2>6, <2>7
<1> QED
  BY <1>1, <1>2

LEMMA TableLast ==
  ASSUME NEW s \in Lists, s # <<>>, NEW f \in {Same, Lower}
  PROVE  LET m == f[Last(s).k]
         IN /\ m \in Keys /\ TableOf(s, f)[m] # <<>>
            /\ TableOf(Front(s), f) = [TableOf(s, f) EXCEPT ![m] = Front(TableOf(s, f)[m])]
            /\ Last(s).v = Last(TableOf(s, f)[m])
<1>1. PICK w \in Lists, e \in Entry :
         /\ w = Front(s) /\ e = Last(s)
         /\ \A l, g : GetAll(s, l, g) = IF g[l] = g[e.k] THEN Append(GetAll(w, l, g), e.v) ELSE GetAll(w, l, g)
  BY TakingLast
<1>2. PICK k \in Keys : k = e.k
  BY EntryKeys
<1>3. PICK v \in Vals : v = e.v
  BY DEF Vals
<1>4. f[k] \in Keys
  BY FoldingKeys
<1>5. PICK old \in Seq(Vals) : old = GetAll(w, k, f)
  BY Reading
<1>6. GetAll(s, k, f) = Append(old, v)
  BY <1>1, <1>2, <1>3, <1>5
<1>7. Append(old, v) # <<>> /\ Front(Append(old, v)) = old /\ Last(Append(old, v)) = v
  <2>1. PICK n \in Nat : n = Len(old)
    OBVIOUS
  <2>2. PICK u \in Seq(Vals) : /\ u = Append(old, v) /\ Len(u) = n + 1 /\ u[n + 1] = v
                               /\ \A i \in 1..n : u[i] = old[i]
    <3>1. old \in Seq(Vals) /\ v \in Vals
      BY <1>3, <1>5
    <3>2. /\ Append(old, v) \in Seq(Vals) /\ Len(Append(old, v)) = Len(old) + 1
          /\ Append(old, v)[Len(old) + 1] = v /\ \A i \in 1..Len(old) : Append(old, v)[i] = old[i]
      BY ONLY <3>1, AppendProperties
    <3> QED
      BY <2>1, <3>2
  <2>3. u # <<>>
    BY <2>2
  <2>4. Last(u) = v
    BY <2>2 DEF Last
  <2>5. Front(u) = SubSeq(u, 1, n)
    BY <2>2 DEF Front
  <2>6. Front(u) = old
    BY <2>1, <2>2, <2>5
  <2> QED
    BY <2>2, <2>3, <2>4, <2>6
<1>8. \A l : f[l] = f[k] => GetAll(w, l, f) = old
  <2>1. \A l : f[l] = f[k] => Having(w, l, f) = Having(w, k, f)
    BY DEF Having
  <2> QED
    BY <1>5, <2>1 DEF GetAll, Of
<1>9. \A l : GetAll(w, l, f) = IF f[l] = f[k] THEN old ELSE GetAll(s, l, f)
  BY <1>1, <1>2, <1>8
<1>10. TableOf(w, f) = [TableOf(s, f) EXCEPT ![f[k]] = old]
  <2>1. Changed(s, w, k, f, old)
    BY <1>9 DEF Changed
  <2>2. Replaced(s, w, k, f, old)
    BY ONLY f \in {Same, Lower}, k \in Keys, <2>1, OneName
  <2> QED
    BY <2>2 DEF Replaced
<1>11. TableOf(s, f)[f[k]] = Append(old, v)
  BY <1>6, FoldedKey
<1> QED
  BY <1>1, <1>2, <1>3, <1>4, <1>7, <1>10, <1>11

LEMMA TableEmpty ==
  ASSUME NEW f \in {Same, Lower}
  PROVE  TableOf(<<>>, f) = [n \in Keys |-> <<>>]
<1>1. <<>> \in Lists
  BY DEF Lists
<1>2. \A n : ~HasKey(<<>>, n, f)
  BY DEF HasKey, Having
<1>3. \A n : GetAll(<<>>, n, f) = <<>>
  BY <1>1, <1>2, Reading
<1> QED
  BY <1>3 DEF TableOf

\* The values that two pairs have for a name.
LEMMA ChosenIsChosen ==
  \A s, I : M!Chosen(s, I) = Chosen(s, I)
<1>1. \A S : M!Cardinality(S) = Cardinality(S)
  BY DEF M!Cardinality, Cardinality
<1>2. \A I, n : M!Nth(I, n) = Nth(I, n)
  BY <1>1 DEF M!Nth, Nth
<1> QED
  BY <1>1, <1>2 DEF M!Chosen, Chosen

LEMMA ForTwo ==
  ASSUME NEW x, NEW y, NEW m
  PROVE  M!For(<<x, y>>, m) = IF x[1] = m THEN IF y[1] = m THEN <<x[2], y[2]>> ELSE <<x[2]>>
                              ELSE IF y[1] = m THEN <<y[2]>> ELSE <<>>
<1>1. PICK X : X = {x, y}
  OBVIOUS
<1>2. PICK s \in Seq(X) : s = <<x, y>> /\ Len(s) = 2 /\ s[1] = x /\ s[2] = y
  <2>1. x \in X /\ y \in X
    BY <1>1
  <2>2. <<x, y>> \in Seq(X)
    BY <2>1
  <2>3. Len(<<x, y>>) = 2 /\ <<x, y>>[1] = x /\ <<x, y>>[2] = y
    OBVIOUS
  <2> QED
    BY <2>2, <2>3
<1>3. PICK I \in SUBSET (1..Len(s)) : I = {i \in 1..Len(s) : s[i][1] = m}
  OBVIOUS
<1>4. PICK c : c = Chosen(s, I)
  OBVIOUS
<1>5. M!For(<<x, y>>, m) = [i \in 1..Len(c) |-> c[i][2]]
  BY <1>2, <1>3, <1>4, ChosenIsChosen DEF M!For
<1>6. ASSUME NEW n \in Nat, NEW r, Enumerates(r, n, I)
      PROVE  c = [k \in 1..n |-> s[r[k]]] /\ Len(c) = n /\ \A k \in 1..n : c[k] = s[r[k]]
  <2>1. Chosen(s, I) = [k \in 1..n |-> s[r[k]]] /\ Len(Chosen(s, I)) = n
        /\ \A k \in 1..n : Chosen(s, I)[k] = s[r[k]]
    BY ONLY s \in Seq(X), I \in SUBSET (1..Len(s)), n \in Nat, <1>6, ChosenAlong
  <2> QED
    BY <1>4, <2>1
<1>7. CASE x[1] = m /\ y[1] = m
  <2>1. I = {1, 2}
    BY <1>2, <1>3, <1>7
  <2> DEFINE e == [i \in 1..2 |-> i]
  <2>2. Enumerates(e, 2, I)
    BY <2>1 DEF Enumerates
  <2>3. e[1] = 1 /\ e[2] = 2
    OBVIOUS
  <2> HIDE DEF e
  <2>4. Len(c) = 2 /\ \A k \in 1..2 : c[k] = s[e[k]]
    BY <2>2, <1>6
  <2>5. c[1] = x /\ c[2] = y
    BY <1>2, <2>3, <2>4
  <2>6. [i \in 1..2 |-> c[i][2]] = <<c[1][2], c[2][2]>>
    OBVIOUS
  <2> QED
    BY <1>5, <1>7, <2>4, <2>5, <2>6
<1>8. ASSUME NEW j \in {1, 2}, I = {j}
      PROVE  M!For(<<x, y>>, m) = <<s[j][2]>>
  <2> DEFINE e == [i \in 1..1 |-> j]
  <2>1. Enumerates(e, 1, I)
    BY <1>8 DEF Enumerates
  <2>2. e[1] = j
    OBVIOUS
  <2> HIDE DEF e
  <2>3. Len(c) = 1 /\ \A k \in 1..1 : c[k] = s[e[k]]
    BY <2>1, <1>6
  <2>4. c[1] = s[j]
    BY <2>2, <2>3
  <2>5. [i \in 1..1 |-> c[i][2]] = <<c[1][2]>>
    OBVIOUS
  <2> QED
    BY <1>5, <2>3, <2>4, <2>5
<1>9. CASE x[1] = m /\ y[1] # m
  <2>1. I = {1}
    BY <1>2, <1>3, <1>9
  <2> QED
    BY <1>2, <1>8, <1>9, <2>1
<1>10. CASE x[1] # m /\ y[1] = m
  <2>1. I = {2}
    BY <1>2, <1>3, <1>10
  <2> QED
    BY <1>2, <1>8, <1>10, <2>1
<1>11. CASE x[1] # m /\ y[1] # m
  <2>1. I = {}
    BY <1>2, <1>3, <1>11
  <2>2. Enumerates(<<>>, 0, I)
    BY <2>1 DEF Enumerates
  <2>3. Len(c) = 0
    BY <2>2, <1>6
  <2>4. [i \in 1..0 |-> c[i][2]] = <<>>
    OBVIOUS
  <2> QED
    BY <1>5, <1>11, <2>3, <2>4
<1> QED
  BY <1>7, <1>9, <1>10, <1>11

BehindIt(c, p, q, g) ==
  \A n : GetAll(c \o <<p, q>>, n, g) = GetAll(c, n, g) \o (GetAll(<<p>>, n, g) \o GetAll(<<q>>, n, g))

LEMMA GetAllTwo ==
  ASSUME NEW c \in Lists, NEW p \in Entry, NEW q \in Entry, NEW g
  PROVE  BehindIt(c, p, q, g)
<1> SUFFICES ASSUME NEW n
             PROVE  GetAll(c \o <<p, q>>, n, g) = GetAll(c, n, g) \o (GetAll(<<p>>, n, g) \o GetAll(<<q>>, n, g))
  BY DEF BehindIt
<1>1. PICK a \in Lists, b \in Lists, d \in Lists : a = <<p>> /\ b = <<q>> /\ d = <<p, q>>
  <2>1. <<p>> \in Lists /\ <<q>> \in Lists /\ <<p, q>> \in Lists
    BY DEF Lists
  <2> QED
    BY ONLY <2>1
<1>2. d = a \o b
  <2>1. <<p, q>> = Append(<<p>>, q)
    OBVIOUS
  <2>2. Append(<<p>>, q) = <<p>> \o <<q>>
    BY <1>1, AppendIsConcat DEF Lists
  <2> QED
    BY <1>1, <2>1, <2>2
<1>3. \A x, y \in Lists : \A m, h : GetAll(x \o y, m, h) = GetAll(x, m, h) \o GetAll(y, m, h)
  <2>1. \A x, y \in Lists : \A m, h : GetAllApart(x, y, m, h)
    BY ONLY GetAllConcat
  <2> QED
    BY ONLY <2>1 DEF GetAllApart
<1>4. GetAll(c \o d, n, g) = GetAll(c, n, g) \o GetAll(d, n, g)
  BY <1>3
<1>5. GetAll(a \o b, n, g) = GetAll(a, n, g) \o GetAll(b, n, g)
  BY <1>3
<1> QED
  BY <1>1, <1>2, <1>4, <1>5

TwoTables(s, f, k, l, v, w) ==
  LET new == <<<<f[k], v>>, <<f[l], w>>>>
      given == <<Pair(k, v), Pair(l, w)>>
  IN /\ TableOf(Update(s, given, f), f)
          = [m \in Keys |-> IF M!For(new, m) = <<>> THEN TableOf(s, f)[m] ELSE <<Last(M!For(new, m))>>]
     /\ TableOf(s \o given, f) = [m \in Keys |-> TableOf(s, f)[m] \o M!For(new, m)]

LEMMA TableTwo ==
  ASSUME NEW s \in Lists, NEW f \in {Same, Lower}, NEW k \in Keys, NEW l \in Keys, NEW v, NEW w,
         Pair(k, v) \in Entry, Pair(l, w) \in Entry
  PROVE  TwoTables(s, f, k, l, v, w)
<1>1. PICK x, y : x = <<f[k], v>> /\ y = <<f[l], w>> /\ x[1] = f[k] /\ x[2] = v /\ y[1] = f[l] /\ y[2] = w
  <2>1. PICK x : x = <<f[k], v>>
    OBVIOUS
  <2>2. PICK y : y = <<f[l], w>>
    OBVIOUS
  <2>3. x[1] = f[k] /\ x[2] = v
    BY <2>1
  <2>4. y[1] = f[l] /\ y[2] = w
    BY <2>2
  <2> QED
    BY <2>1, <2>2, <2>3, <2>4
<1>2. PICK p \in Entry, q \in Entry : p = Pair(k, v) /\ q = Pair(l, w) /\ p.k = k /\ p.v = v /\ q.k = l /\ q.v = w
  BY DEF Pair
<1>3. \A m : M!For(<<x, y>>, m) = IF f[k] = m THEN IF f[l] = m THEN <<v, w>> ELSE <<v>>
                                  ELSE IF f[l] = m THEN <<w>> ELSE <<>>
  BY <1>1, ForTwo
<1>4. /\ <<v, w>> # <<>> /\ <<v>> # <<>> /\ <<w>> # <<>>
      /\ Last(<<v, w>>) = w /\ Last(<<v>>) = v /\ Last(<<w>>) = w
  BY DEF Last
<1>5. \A n \in Keys : f[n] = n => (n = f[k] <=> f[n] = f[k]) /\ (n = f[l] <=> f[n] = f[l])
  OBVIOUS
<1>6. \A n \in Keys : f[n] # n => n # f[k] /\ n # f[l]
  BY FoldingKeys
<1>7. TableOf(Update(s, <<p, q>>, f), f)
        = [m \in Keys |-> IF M!For(<<x, y>>, m) = <<>> THEN TableOf(s, f)[m] ELSE <<Last(M!For(<<x, y>>, m))>>]
  <2>1. PICK a \in Lists : a = SetItem(s, k, v, f)
    BY SetAndPop
  <2>2. PICK b : b = SetItem(a, l, w, f)
    OBVIOUS
  <2>3. \A n : GetAll(a, n, f) = IF f[n] = f[k] THEN <<v>> ELSE GetAll(s, n, f)
    BY <2>1, Setting
  <2>4. \A n : GetAll(b, n, f) = IF f[n] = f[l] THEN <<w>> ELSE GetAll(a, n, f)
    BY <2>2, Setting
  <2>5. Update(s, <<p, q>>, f) = b
    BY <1>2, <2>1, <2>2, Updating
  <2>6. ASSUME NEW n \in Keys
        PROVE  TableOf(b, f)[n] = IF M!For(<<x, y>>, n) = <<>> THEN TableOf(s, f)[n] ELSE <<Last(M!For(<<x, y>>, n))>>
    <3>1. CASE f[n] = n
      BY <3>1, <1>3, <1>4, <1>5, <2>3, <2>4 DEF TableOf
    <3>2. CASE f[n] # n
      BY <3>2, <1>3, <1>6 DEF TableOf
    <3> QED
      BY <3>1, <3>2
  <2>7. TableOf(b, f) = [n \in Keys |-> TableOf(b, f)[n]]
    BY DEF TableOf
  <2> QED
    BY <2>5, <2>6, <2>7
<1>8. TableOf(s \o <<p, q>>, f) = [m \in Keys |-> TableOf(s, f)[m] \o M!For(<<x, y>>, m)]
  <2>1. \A n : GetAll(s \o <<p, q>>, n, f) = GetAll(s, n, f) \o (GetAll(<<p>>, n, f) \o GetAll(<<q>>, n, f))
    <3>1. BehindIt(s, p, q, f)
      BY <1>2, GetAllTwo
    <3> QED
      BY <3>1 DEF BehindIt
  <2>2. \A n : /\ GetAll(<<p>>, n, f) = IF f[k] = f[n] THEN <<v>> ELSE <<>>
               /\ GetAll(<<q>>, n, f) = IF f[l] = f[n] THEN <<w>> ELSE <<>>
    BY <1>2, GetAllOne
  <2>3. /\ <<v>> \o <<w>> = <<v, w>> /\ <<v>> \o <<>> = <<v>> /\ <<>> \o <<w>> = <<w>>
        /\ <<>> \o <<>> = <<>>
    <3>1. v \in Vals /\ w \in Vals
      BY <1>2 DEF Vals
    <3>2. <<v>> \in Seq(Vals) /\ <<w>> \in Seq(Vals) /\ <<>> \in Seq(Vals)
      BY ONLY <3>1
    <3>3. <<v, w>> = Append(<<v>>, w)
      BY ONLY <3>1
    <3>4. Append(<<v>>, w) = <<v>> \o <<w>>
      BY <3>1, <3>2, AppendIsConcat
    <3>5. \A u \in Seq(Vals) : u \o <<>> = u /\ <<>> \o u = u
      BY ONLY ConcatEmptySeq
    <3> QED
      BY <3>2, <3>3, <3>4, <3>5
  <2>4. ASSUME NEW n \in Keys
        PROVE  TableOf(s \o <<p, q>>, f)[n] = TableOf(s, f)[n] \o M!For(<<x, y>>, n)
    <3>1. CASE f[n] = n
      <4>1. GetAll(<<p>>, n, f) \o GetAll(<<q>>, n, f) = M!For(<<x, y>>, n)
        BY <3>1, <1>3, <1>5, <2>2, <2>3
      <4> QED
        BY <3>1, <2>1, <4>1 DEF TableOf
    <3>2. CASE f[n] # n
      BY <3>2, <1>3, <1>6, <2>3 DEF TableOf
    <3> QED
      BY <3>1, <3>2
  <2>5. TableOf(s \o <<p, q>>, f) = [n \in Keys |-> TableOf(s \o <<p, q>>, f)[n]]
    BY DEF TableOf
  <2> QED
    BY <2>4, <2>5
<1> QED
  BY <1>1, <1>2, <1>7, <1>8 DEF TwoTables

(* What each call does to the table is what Multimap says.                  *)
Table == TableOf(items, norm)

\* A call with the name n of some pairs.
Called(name, pairs) == op' = [name |-> name, pairs |-> pairs, attr |-> ""] /\ part' = part

LEMMA Ends ==
  \A s : M!Front(s) = Front(s) /\ M!Last(s) = Last(s)
  BY DEF M!Front, M!Last, Front, Last

LEMMA CalledIs ==
  ASSUME NEW name, NEW pairs, Called(name, pairs)
  PROVE  op'.name = name /\ op'.pairs = pairs /\ norm' = norm /\ Table' = TableOf(items', norm)
<1>1. op'.name = name /\ op'.pairs = pairs
  BY CallIs DEF Called
<1>2. norm' = norm
  BY DEF Called, norm
<1> QED
  BY <1>1, <1>2 DEF Table

LEMMA PairIs ==
  \A n, v : <<<<n, v>>>>[1][1] = n /\ <<<<n, v>>>>[1][2] = v
  OBVIOUS

LEMMA StepOne ==
  ASSUME NEW name, NEW n, NEW v, Called(name, <<<<n, v>>>>), n \in Keys,
         \/ name = "set" /\ Table' = [Table EXCEPT ![n] = <<v>>] /\ ret' = <<>>
         \/ name = "add" /\ Table' = [Table EXCEPT ![n] = Append(Table[n], v)] /\ ret' = <<>>
         \/ name = "del" /\ Table' = [Table EXCEPT ![n] = <<>>] /\ ret' = <<>>
         \/ name = "setdefault" /\ Table[n] = <<>> /\ Table' = [Table EXCEPT ![n] = <<v>>] /\ ret' = <<v>>
         \/ name = "setdefault" /\ Table[n] # <<>> /\ Table' = Table /\ ret' = <<Table[n][1]>>
         \/ name = "pop" /\ Table[n] = <<>> /\ Table' = Table /\ ret' = <<>>
         \/ name = "pop" /\ Table[n] # <<>> /\ Table' = [Table EXCEPT ![n] = Tail(Table[n])] /\ ret' = <<Table[n][1]>>
  PROVE  M!Step(op')
<1>1. PICK o : o = op' /\ o.name = name /\ o.pairs[1][1] = n /\ o.pairs[1][2] = v
  BY CalledIs, PairIs
<1>2. PICK T : T = Table
  OBVIOUS
<1>3. PICK U : U = Table'
  OBVIOUS
<1>4. /\ [m \in Keys |-> IF norm[m] = m THEN GetAll(items, m, norm) ELSE <<>>] = T
      /\ [m \in Keys |-> IF norm[m] = m THEN GetAll(items, m, norm) ELSE <<>>]' = U
  BY <1>2, <1>3 DEF Table, TableOf
<1>5. CASE name = "set" /\ U = [T EXCEPT ![n] = <<v>>] /\ ret' = <<>>
  BY <1>1, <1>4, <1>5 DEF M!Step
<1>6. CASE name = "add" /\ U = [T EXCEPT ![n] = Append(T[n], v)] /\ ret' = <<>>
  BY <1>1, <1>4, <1>6 DEF M!Step
<1>7. CASE name = "del" /\ U = [T EXCEPT ![n] = <<>>] /\ ret' = <<>>
  BY <1>1, <1>4, <1>7 DEF M!Step
<1>8. CASE name = "setdefault" /\ T[n] = <<>> /\ U = [T EXCEPT ![n] = <<v>>] /\ ret' = <<v>>
  BY <1>1, <1>4, <1>8 DEF M!Step
<1>9. CASE name = "setdefault" /\ T[n] # <<>> /\ U = T /\ ret' = <<T[n][1]>>
  BY <1>1, <1>4, <1>9 DEF M!Step
<1>10. CASE name = "pop" /\ T[n] = <<>> /\ U = T /\ ret' = <<>>
  BY <1>1, <1>4, <1>10 DEF M!Step
<1>11. CASE name = "pop" /\ T[n] # <<>> /\ U = [T EXCEPT ![n] = Tail(T[n])] /\ ret' = <<T[n][1]>>
  BY <1>1, <1>4, <1>11 DEF M!Step
<1> QED
  BY <1>2, <1>3, <1>5, <1>6, <1>7, <1>8, <1>9, <1>10, <1>11

LEMMA StepMany ==
  ASSUME NEW name, NEW pairs, Called(name, pairs),
         \/ name = "clear" /\ Table' = [m \in Keys |-> <<>>] /\ ret' = <<>>
         \/ /\ name = "update" /\ ret' = <<>>
            /\ Table' = [m \in Keys |-> IF M!For(pairs, m) = <<>> THEN Table[m] ELSE <<Last(M!For(pairs, m))>>]
         \/ /\ name = "extend" /\ ret' = <<>>
            /\ Table' = [m \in Keys |-> Table[m] \o M!For(pairs, m)]
         \/ name \in {"stale", "failed"} /\ Table' = Table
         \/ name = "assign"
         \/ name = "popitem" /\ (\A m \in Keys : Table[m] = <<>>) /\ Table' = Table /\ ret' = <<>>
         \/ /\ name = "popitem"
            /\ \E m \in Keys : /\ Table[m] # <<>> /\ Table' = [Table EXCEPT ![m] = Front(Table[m])]
                               /\ ret' = <<Last(Table[m])>>
  PROVE  M!Step(op')
<1>1. PICK o : o = op' /\ o.name = name /\ o.pairs = pairs
  BY CalledIs
<1>2. PICK T : T = Table
  OBVIOUS
<1>3. PICK U : U = Table'
  OBVIOUS
<1>4. /\ [m \in Keys |-> IF norm[m] = m THEN GetAll(items, m, norm) ELSE <<>>] = T
      /\ [m \in Keys |-> IF norm[m] = m THEN GetAll(items, m, norm) ELSE <<>>]' = U
  BY <1>2, <1>3 DEF Table, TableOf
<1>5. CASE name = "clear" /\ U = [m \in Keys |-> <<>>] /\ ret' = <<>>
  BY <1>1, <1>4, <1>5 DEF M!Step
<1>6. CASE name = "update" /\ ret' = <<>>
           /\ U = [m \in Keys |-> IF M!For(pairs, m) = <<>> THEN T[m] ELSE <<Last(M!For(pairs, m))>>]
  BY <1>1, <1>4, <1>6, Ends DEF M!Step
<1>7. CASE name = "extend" /\ ret' = <<>> /\ U = [m \in Keys |-> T[m] \o M!For(pairs, m)]
  BY <1>1, <1>4, <1>7 DEF M!Step
<1>8. CASE name \in {"stale", "failed"} /\ U = T
  BY <1>1, <1>4, <1>8 DEF M!Step
<1>9. CASE name = "assign"
  BY <1>1, <1>9 DEF M!Step
<1>10. CASE name = "popitem" /\ (\A m \in Keys : T[m] = <<>>) /\ U = T /\ ret' = <<>>
  BY <1>1, <1>4, <1>10 DEF M!Step
<1>11. CASE name = "popitem" /\ \E m \in Keys : T[m] # <<>> /\ U = [T EXCEPT ![m] = Front(T[m])] /\ ret' = <<Last(T[m])>>
  BY <1>1, <1>4, <1>11, Ends DEF M!Step
<1> QED
  BY <1>2, <1>3, <1>5, <1>6, <1>7, <1>8, <1>9, <1>10, <1>11

LEMMA StepAttribute ==
  ASSUME NEW names, op'.name = "attribute", op'.pairs = names,
         \A m \in Keys : Table'[m] = Table[m] \/ \E i \in 1..Len(names) : names[i][1] = m
  PROVE  M!Step(op')
<1>1. PICK o : o = op' /\ o.name = "attribute" /\ o.pairs = names
  OBVIOUS
<1>2. PICK T : T = Table
  OBVIOUS
<1>3. PICK U : U = Table'
  OBVIOUS
<1>4. /\ [m \in Keys |-> IF norm[m] = m THEN GetAll(items, m, norm) ELSE <<>>] = T
      /\ [m \in Keys |-> IF norm[m] = m THEN GetAll(items, m, norm) ELSE <<>>]' = U
  BY <1>2, <1>3 DEF Table, TableOf
<1>5. \A m \in Keys : U[m] = T[m] \/ \E i \in 1..Len(o.pairs) : o.pairs[i][1] = m
  BY <1>1, <1>2, <1>3
<1> QED
  BY <1>1, <1>4, <1>5 DEF M!Step

LEMMA CalledOr ==
  ASSUME TypeInv, NEW name, NEW pairs, NEW new, NEW result, Call(name, pairs, new, result)
  PROVE  \/ M!Step(op')
         \/ Called(name, pairs) /\ ret' = result /\ items' = new /\ Table' = TableOf(new, norm)
<1>1. /\ part' = part
      /\ \/ op' = [name |-> "stale", pairs |-> <<>>, attr |-> ""] /\ items' = items
         \/ op' = [name |-> name, pairs |-> pairs, attr |-> ""] /\ ret' = result /\ items' = new
  BY CallDoes
<1>2. CASE op' = [name |-> "stale", pairs |-> <<>>, attr |-> ""] /\ items' = items
  <2>1. Called("stale", <<>>)
    BY <1>1, <1>2 DEF Called
  <2>2. Table' = Table
    BY <1>2, <2>1, CalledIs DEF Table
  <2> QED
    BY <2>1, <2>2, StepMany
<1>3. CASE op' = [name |-> name, pairs |-> pairs, attr |-> ""] /\ ret' = result /\ items' = new
  <2>1. Called(name, pairs)
    BY <1>1, <1>3 DEF Called
  <2> QED
    BY <1>3, <2>1, CalledIs
<1> QED
  BY <1>1, <1>2, <1>3

LEMMA SomeValue ==
  ASSUME part \in {"multidict", "headers", "cache", "type"}
  PROVE  AnyValue \in DictValues
<1>1. CASE part = "cache"
  <2>1. NoText \in DictValues
    BY <1>1 DEF DictValues, Texts
  <2> QED
    BY <2>1 DEF AnyValue
<1>2. CASE part = "type"
  <2>1. [type |-> "text", charset |-> "none", param |-> FALSE]
          \in {[type |-> t, charset |-> c, param |-> FALSE] : t \in {"text", "image"}, c \in {"none", "other"}}
    OBVIOUS
  <2>2. DictValues = {[type |-> t, charset |-> c, param |-> FALSE] : t \in {"text", "image"}, c \in {"none", "other"}}
    BY <1>2 DEF DictValues
  <2> QED
    BY <2>1, <2>2 DEF AnyValue
<1>3. CASE part \in {"multidict", "headers"}
  <2>1. 1 \in DictValues
    BY <1>3 DEF DictValues
  <2> QED
    BY <2>1 DEF AnyValue
<1> QED
  BY <1>1, <1>2, <1>3

LEMMA DictionarySteps ==
  ASSUME IInv, Dictionary
  PROVE  M!Step(op') \/ (Table' = Table /\ op' = op /\ ret' = ret)
<1>1. TypeInv /\ items \in Lists /\ part \in {"multidict", "headers", "cache", "type"} /\ norm \in {Same, Lower}
  BY NormIs DEF IInv, TypeInv
<1>2. CASE Set
  <2>1. PICK k \in DictKeys, v \in DictValues : Call("set", <<Named(k, v)>>, SetItem(items, k, v, norm), <<>>)
    BY <1>2 DEF Set
  <2>2. Pair(k, v) \in Entry /\ k \in Keys /\ norm[k] \in Keys
    BY <1>1, Given, NormIs
  <2>3. \/ M!Step(op')
        \/ Called("set", <<<<norm[k], v>>>>) /\ ret' = <<>> /\ Table' = TableOf(SetItem(items, k, v, norm), norm)
    BY <1>1, <2>1, CalledOr DEF Named
  <2>4. TableOf(SetItem(items, k, v, norm), norm) = [Table EXCEPT ![norm[k]] = <<v>>]
    BY <1>1, <2>2, TableSet DEF Table
  <2> QED
    BY <2>2, <2>3, <2>4, StepOne
<1>3. CASE Add
  <2>1. PICK k \in DictKeys, v \in DictValues : Call("add", <<Named(k, v)>>, AddItem(items, k, v), <<>>)
    BY <1>3 DEF Add
  <2>2. Pair(k, v) \in Entry /\ k \in Keys /\ norm[k] \in Keys
    BY <1>1, Given, NormIs
  <2>3. \/ M!Step(op')
        \/ Called("add", <<<<norm[k], v>>>>) /\ ret' = <<>> /\ Table' = TableOf(AddItem(items, k, v), norm)
    BY <1>1, <2>1, CalledOr DEF Named
  <2>4. TableOf(AddItem(items, k, v), norm) = [Table EXCEPT ![norm[k]] = Append(Table[norm[k]], v)]
    BY <1>1, <2>2, TableSet DEF Table
  <2> QED
    BY <2>2, <2>3, <2>4, StepOne
<1>4. CASE Del
  <2>1. AnyValue \in DictValues
    BY <1>1, SomeValue
  <2>2. PICK k \in DictKeys : Call("del", <<Named(k, AnyValue)>>, Without(items, k, norm), <<>>)
    BY <1>1, <1>4, DeletedIs DEF Del, Lists
  <2>3. Pair(k, AnyValue) \in Entry /\ k \in Keys /\ norm[k] \in Keys
    BY <1>1, <2>1, Given, NormIs
  <2>4. \/ M!Step(op')
        \/ Called("del", <<<<norm[k], AnyValue>>>>) /\ ret' = <<>> /\ Table' = TableOf(Without(items, k, norm), norm)
    BY <1>1, <2>2, CalledOr DEF Named
  <2>5. TableOf(Without(items, k, norm), norm) = [Table EXCEPT ![norm[k]] = <<>>]
    BY <1>1, <2>3, TableSet DEF Table
  <2> QED
    BY <2>3, <2>4, <2>5, StepOne
<1>5. CASE Default
  <2>1. PICK k \in DictKeys, v \in DictValues :
          Call("setdefault", <<Named(k, v)>>, SetDefault(items, k, v, norm),
               IF HasKey(items, k, norm) THEN <<items[First(items, k, norm)].v>> ELSE <<v>>)
    BY <1>5 DEF Default
  <2>2. Pair(k, v) \in Entry /\ k \in Keys /\ norm[k] \in Keys
    BY <1>1, Given, NormIs
  <2>3. \/ M!Step(op')
        \/ /\ Called("setdefault", <<<<norm[k], v>>>>)
           /\ ret' = IF HasKey(items, k, norm) THEN <<items[First(items, k, norm)].v>> ELSE <<v>>
           /\ Table' = TableOf(SetDefault(items, k, v, norm), norm)
    BY <1>1, <2>1, CalledOr DEF Named
  <2>4. /\ HasKey(items, k, norm) <=> Table[norm[k]] # <<>>
        /\ HasKey(items, k, norm) => items[First(items, k, norm)].v = Table[norm[k]][1]
    BY <1>1, <2>2, TablePop DEF Table
  <2>5. CASE HasKey(items, k, norm)
    <3>1. TableOf(SetDefault(items, k, v, norm), norm) = Table
      BY <2>5 DEF SetDefault, Table
    <3> QED
      BY <2>2, <2>3, <2>4, <2>5, <3>1, StepOne
  <2>6. CASE ~HasKey(items, k, norm)
    <3>1. SetDefault(items, k, v, norm) = SetItem(items, k, v, norm)
      BY <1>1, <2>6, Removing DEF SetDefault, SetItem
    <3>2. TableOf(SetDefault(items, k, v, norm), norm) = [Table EXCEPT ![norm[k]] = <<v>>]
      BY <1>1, <2>2, <3>1, TableSet DEF Table
    <3> QED
      BY <2>2, <2>3, <2>4, <2>6, <3>2, StepOne
  <2> QED
    BY <2>5, <2>6
<1>6. CASE Pop
  <2>1. AnyValue \in DictValues
    BY <1>1, SomeValue
  <2>2. PICK k \in DictKeys :
          Call("pop", <<Named(k, AnyValue)>>, PopFirst(items, k, norm),
               IF HasKey(items, k, norm) THEN <<items[First(items, k, norm)].v>> ELSE <<>>)
    BY <1>6 DEF Pop
  <2>3. k \in Keys /\ norm[k] \in Keys
    BY <1>1, <2>1, Given, NormIs
  <2>4. \/ M!Step(op')
        \/ /\ Called("pop", <<<<norm[k], AnyValue>>>>)
           /\ ret' = IF HasKey(items, k, norm) THEN <<items[First(items, k, norm)].v>> ELSE <<>>
           /\ Table' = TableOf(PopFirst(items, k, norm), norm)
    BY <1>1, <2>2, CalledOr DEF Named
  <2>5. /\ HasKey(items, k, norm) <=> Table[norm[k]] # <<>>
        /\ HasKey(items, k, norm) =>
             /\ items[First(items, k, norm)].v = Table[norm[k]][1]
             /\ TableOf(PopFirst(items, k, norm), norm) = [Table EXCEPT ![norm[k]] = Tail(Table[norm[k]])]
    BY <1>1, <2>3, TablePop DEF Table
  <2>6. CASE HasKey(items, k, norm)
    BY <2>3, <2>4, <2>5, <2>6, StepOne
  <2>7. CASE ~HasKey(items, k, norm)
    <3>1. TableOf(PopFirst(items, k, norm), norm) = Table
      BY <2>7 DEF PopFirst, Table
    <3> QED
      BY <2>3, <2>4, <2>5, <2>7, <3>1, StepOne
  <2> QED
    BY <2>6, <2>7
<1>7. CASE PopItem
  <2>1. \/ M!Step(op')
        \/ /\ Called("popitem", <<>>) /\ ret' = IF items = <<>> THEN <<>> ELSE <<Last(items).v>>
           /\ Table' = TableOf(IF items = <<>> THEN items ELSE Front(items), norm)
    BY <1>1, <1>7, CalledOr DEF PopItem
  <2>2. CASE items = <<>>
    <3>1. Table = [n \in Keys |-> <<>>]
      BY <1>1, <2>2, TableEmpty DEF Table
    <3>2. \A m \in Keys : Table[m] = <<>>
      BY <3>1
    <3> QED
      BY <2>1, <2>2, <3>2, StepMany DEF Table
  <2>3. CASE items # <<>>
    <3>1. PICK m \in Keys : /\ Table[m] # <<>>
                            /\ TableOf(Front(items), norm) = [Table EXCEPT ![m] = Front(Table[m])]
                            /\ Last(items).v = Last(Table[m])
      BY <1>1, <2>3, TableLast DEF Table
    <3> QED
      BY <2>1, <2>3, <3>1, StepMany
  <2> QED
    BY <2>2, <2>3
<1>8. CASE Clear
  <2>1. \/ M!Step(op')
        \/ Called("clear", <<>>) /\ ret' = <<>> /\ Table' = TableOf(<<>>, norm)
    BY <1>1, <1>8, CalledOr DEF Clear
  <2> QED
    BY <1>1, <2>1, TableEmpty, StepMany
<1>9. CASE Pairs
  <2>1. PICK k, l \in DictKeys, v, w \in DictValues :
          LET given == <<Pair(k, v), Pair(l, w)>> names == <<Named(k, v), Named(l, w)>>
          IN \/ Call("update", names, Update(items, given, norm), <<>>)
             \/ Call("extend", names, Extend(items, given, <<>>, norm), <<>>)
             \/ Call("update", names, Extend(items, <<>>, given, norm), <<>>)
    BY <1>9 DEF Pairs
  <2>2. Pair(k, v) \in Entry /\ Pair(l, w) \in Entry /\ k \in Keys /\ l \in Keys
    BY <1>1, Given
  <2>3. PICK given, names : given = <<Pair(k, v), Pair(l, w)>> /\ names = <<<<norm[k], v>>, <<norm[l], w>>>>
    OBVIOUS
  <2>4. /\ Extend(items, given, <<>>, norm) = items \o given
        /\ Extend(items, <<>>, given, norm) = Update(items, given, norm)
    <3>1. TwoSet(items, Pair(k, v), Pair(l, w), norm)
      BY <1>1, <2>2, SetTwo
    <3> QED
      BY <2>3, <3>1 DEF TwoSet
  <2>5. /\ TableOf(Update(items, given, norm), norm)
             = [m \in Keys |-> IF M!For(names, m) = <<>> THEN Table[m] ELSE <<Last(M!For(names, m))>>]
        /\ TableOf(items \o given, norm) = [m \in Keys |-> Table[m] \o M!For(names, m)]
    <3>1. TwoTables(items, norm, k, l, v, w)
      BY <1>1, <2>2, TableTwo
    <3> QED
      BY <2>3, <3>1 DEF TwoTables, Table
  <2>6. CASE Call("update", names, Update(items, given, norm), <<>>)
    BY <1>1, <2>5, <2>6, CalledOr, StepMany
  <2>7. CASE Call("extend", names, items \o given, <<>>)
    BY <1>1, <2>5, <2>7, CalledOr, StepMany
  <2> QED
    BY <2>1, <2>3, <2>4, <2>6, <2>7 DEF Named
<1>10. CASE Keep
  <2>1. items' = items /\ part' = part /\ op' = op /\ ret' = ret
    BY <1>10 DEF Keep
  <2> QED
    BY <2>1 DEF Table, norm
<1>11. CASE AssignList
  <2>1. Called("assign", <<>>)
    BY <1>11 DEF AssignList, Called
  <2> QED
    BY <2>1, StepMany
<1> QED
  BY <1>2, <1>3, <1>4, <1>5, <1>6, <1>7, <1>8, <1>9, <1>10, <1>11 DEF Dictionary

\* Nothing but the headers with the names N is changed.
Elsewhere(s, t, N) == \A l : Lower[l] \notin N => GetAll(t, l, Lower) = GetAll(s, l, Lower)

About(names, N) == \A n \in N : \E i \in 1..Len(names) : names[i][1] = n

LEMMA AttributeStep ==
  ASSUME TypeInv, part' = part, part # "multidict", NEW names, NEW N,
         op'.name = "attribute", op'.pairs = names, Elsewhere(items, items', N), About(names, N)
  PROVE  M!Step(op')
<1>1. norm = Lower /\ norm' = Lower
  BY NormIs DEF norm
<1>2. ASSUME NEW m \in Keys
      PROVE  Table'[m] = Table[m] \/ \E i \in 1..Len(names) : names[i][1] = m
  <2>1. CASE Lower[m] # m
    BY <1>1, <2>1 DEF Table, TableOf
  <2>2. CASE Lower[m] = m /\ m \notin N
    BY <1>1, <2>2 DEF Table, TableOf, Elsewhere
  <2>3. CASE m \in N
    BY <2>3 DEF About
  <2> QED
    BY <2>1, <2>2, <2>3
<1> QED
  BY <1>2, StepAttribute

LEMMA OnlyCCIs ==
  About(OnlyCC, {CC}) /\ About(Expiry, {CC, "expires", "last-modified", "pragma"})
<1>1. About(OnlyCC, {CC})
  <2>1. Len(OnlyCC) = 1 /\ OnlyCC[1][1] = CC
    BY DEF OnlyCC
  <2> QED
    BY <2>1 DEF About
<1>2. About(Expiry, {CC, "expires", "last-modified", "pragma"})
  <2>1. Len(Expiry) = 4 /\ Expiry[1][1] = CC /\ Expiry[2][1] = "expires" /\ Expiry[3][1] = "last-modified" /\ Expiry[4][1] = "pragma"
    BY DEF Expiry
  <2>2. 1 \in 1..4 /\ 2 \in 1..4 /\ 3 \in 1..4 /\ 4 \in 1..4
    OBVIOUS
  <2> QED
    BY <2>1, <2>2 DEF About
<1> QED
  BY <1>1, <1>2

LEMMA CacheControlSteps ==
  ASSUME IInv, CacheControl
  PROVE  M!Step(op')
<1>1. TypeInv /\ items \in Lists /\ (cc = <<>> \/ IsObject(cc))
  BY DEF IInv, TypeInv
<1>2. PICK now : /\ now = ReadCC(items, cc)
                 /\ now.items \in Lists /\ IsObject(now.cc)
                 /\ Elsewhere(items, now.items, {CC})
  BY <1>1, ReadingCC DEF Elsewhere
<1>3. \A s \in Lists, props \in SUBSET Directives :
         WriteBack(s, props) \in Lists /\ Elsewhere(s, WriteBack(s, props), {CC})
  BY WritingBack DEF Elsewhere
<1>4. \A c : IsObject(c) => c[1].props \in SUBSET Directives
  BY DEF IsObject
<1>5. ASSUME NEW c, NEW s, Attribute(OnlyCC, [items |-> s, cc |-> c]), part = "cache", Elsewhere(items, s, {CC})
      PROVE  M!Step(op')
  <2>1. /\ op' = [name |-> "attribute", pairs |-> OnlyCC, attr |-> ""] /\ part' = part
        /\ items' = s
    BY <1>5 DEF Attribute
  <2>2. op'.name = "attribute" /\ op'.pairs = OnlyCC
    BY <2>1, CallIs
  <2> QED
    BY <1>1, <1>5, <2>1, <2>2, OnlyCCIs, AttributeStep
\* Written back, over the list as it is or as reading it leaves it.
<1>6. ASSUME NEW s \in Lists, Elsewhere(items, s, {CC}), NEW props \in SUBSET Directives
      PROVE  Elsewhere(items, WriteBack(s, props), {CC})
  BY <1>3, <1>6 DEF Elsewhere
<1>7. CASE Read
  <2>1. now = [items |-> now.items, cc |-> now.cc]
    BY <1>2 DEF ReadCC
  <2>2. Attribute(OnlyCC, [items |-> now.items, cc |-> now.cc]) /\ part = "cache"
    BY <1>2, <1>7, <2>1 DEF Read
  <2> QED
    BY <1>2, <1>5, <2>2
<1>8. Elsewhere(items, items, {CC})
  BY DEF Elsewhere
<1>9. CASE SetDirective
  <2>1. PICK d \in {"age1", "private"}, fresh \in BOOLEAN :
          /\ part = "cache" /\ (cc = <<>> => fresh)
          /\ LET r == IF fresh THEN now ELSE [items |-> items, cc |-> cc]
                 props == WithDirective(r.cc[1].props, d)
             IN Attribute(OnlyCC, [items |-> WriteBack(r.items, props), cc |-> <<[r.cc[1] EXCEPT !.props = props]>>])
    BY <1>2, <1>9 DEF SetDirective
  <2>2. PICK r : r = IF fresh THEN now ELSE [items |-> items, cc |-> cc]
    OBVIOUS
  <2>3. r.items \in Lists /\ IsObject(r.cc) /\ Elsewhere(items, r.items, {CC})
    BY <1>1, <1>2, <1>8, <2>1, <2>2
  <2>4. PICK props \in SUBSET Directives : props = WithDirective(r.cc[1].props, d)
    BY <1>4, <2>3 DEF WithDirective, Directives
  <2>5. Attribute(OnlyCC, [items |-> WriteBack(r.items, props), cc |-> <<[r.cc[1] EXCEPT !.props = props]>>])
    BY <2>1, <2>2, <2>4
  <2> QED
    BY <1>5, <1>6, <2>1, <2>3, <2>5
<1>10. CASE DelDirective
  <2>1. PICK d \in Directives :
          /\ part = "cache" /\ cc # <<>>
          /\ Attribute(OnlyCC, [items |-> WriteBack(items, cc[1].props \ {d}),
                                cc |-> <<[cc[1] EXCEPT !.props = cc[1].props \ {d}]>>])
    BY <1>10 DEF DelDirective
  <2>2. PICK props \in SUBSET Directives : props = cc[1].props \ {d}
    BY <1>1, <1>4, <2>1
  <2> QED
    BY <1>1, <1>5, <1>6, <1>8, <2>1, <2>2
<1>11. ASSUME NEW p \in SUBSET Directives, part = "cache", Attribute(OnlyCC, FillCC(items, cc, p))
       PROVE  M!Step(op')
  <2>1. FillCC(items, cc, p) = [items |-> WriteBack(now.items, p), cc |-> <<[now.cc[1] EXCEPT !.props = p]>>]
    BY <1>2 DEF FillCC
  <2> QED
    BY <1>2, <1>5, <1>6, <1>11, <2>1
<1>12. CASE AssignText
  <2>1. PICK t \in Texts : /\ part = "cache"
                           /\ Attribute(OnlyCC, IF cc = <<>> THEN [items |-> SetItem(items, CC, t, Lower), cc |-> cc]
                                                ELSE FillCC(items, cc, {}))
    BY <1>12 DEF AssignText
  <2>2. CASE cc = <<>>
    <3>1. Pair(CC, t) \in Entry /\ Lower[CC] = CC
      BY TextsAre, EntryKeys, NormIs
    <3>2. \A l : GetAll(SetItem(items, CC, t, Lower), l, Lower)
                   = IF Lower[l] = Lower[CC] THEN <<t>> ELSE GetAll(items, l, Lower)
      BY <1>1, <3>1, Setting
    <3>3. Elsewhere(items, SetItem(items, CC, t, Lower), {CC})
      BY <3>1, <3>2 DEF Elsewhere
    <3> QED
      BY <1>5, <2>1, <2>2, <3>3
  <2>3. CASE cc # <<>>
    BY <1>11, <2>1, <2>3
  <2> QED
    BY <2>2, <2>3
<1>13. CASE AssignTextFails
  <2>1. PICK t : Called("failed", <<<<CC, t>>>>) /\ items' = items
    BY <1>13 DEF AssignTextFails, Called
  <2>2. Table' = Table
    BY <2>1, CalledIs DEF Table
  <2> QED
    BY <2>1, <2>2, StepMany
<1>14. CASE AssignObject
  <2>1. \A p \in {{}, {"age1"}, {"private", "no-store"}} : p \in SUBSET Directives
    BY DEF Directives
  <2> QED
    BY <1>11, <1>14, <2>1 DEF AssignObject
<1>15. CASE AssignSelf
  BY <1>11, <1>15 DEF AssignSelf
<1>16. CASE Expires
  <2> DEFINE N == {CC, "expires", "last-modified", "pragma"}
  <2>1. now = ReadCC(items, cc)
    BY <1>2
  <2>2. PICK seconds \in {"none", "zero", "some"}, more \in {{}, {"private"}} :
          part = "cache" /\ Expiring(now, seconds, more)
    <3>1. \E seconds \in {"none", "zero", "some"}, more \in {{}, {"private"}} :
            part = "cache" /\ Expiring(ReadCC(items, cc), seconds, more)
      BY ONLY <1>16 DEF Expires, Expiring, ExpiringProps, ExpiringItems
    <3> QED
      BY <2>1, <3>1
  <2>3. PICK old \in SUBSET Directives : old = now.cc[1].props
    BY <1>2, <1>4
  <2>4. PICK props \in SUBSET Directives : props = ExpiringProps(old, seconds, more)
    BY DEF ExpiringProps, WithDirective, Directives
  <2>5. /\ \A k \in {"expires", "last-modified", "pragma"} : Lower[k] \in N /\ Pair(k, 1) \in Entry
        /\ CC \in N
    BY NormIs, EntryKeys DEF Keys
  <2> HIDE DEF N
  <2>6. ASSUME NEW s \in Lists, Elsewhere(items, s, N)
        PROVE  /\ \A k \in {"expires", "last-modified", "pragma"} :
                     AttrSet(s, k, 1) \in Lists /\ Elsewhere(items, AttrSet(s, k, 1), N)
               /\ Without(s, "pragma", Lower) \in Lists /\ Elsewhere(items, Without(s, "pragma", Lower), N)
    <3>1. \A k \in {"expires", "last-modified", "pragma"} :
             /\ SetItem(s, k, 1, Lower) \in Lists
             /\ \A l : GetAll(SetItem(s, k, 1, Lower), l, Lower)
                         = IF Lower[l] = Lower[k] THEN <<1>> ELSE GetAll(s, l, Lower)
      BY <2>5, Setting
    <3>2. /\ Without(s, "pragma", Lower) \in Lists
          /\ \A l : GetAll(Without(s, "pragma", Lower), l, Lower)
                      = IF Lower[l] = Lower["pragma"] THEN <<>> ELSE GetAll(s, l, Lower)
      BY Removing
    <3>3. \A k \in {"expires", "last-modified", "pragma"} : Elsewhere(items, SetItem(s, k, 1, Lower), N)
      BY <2>5, <2>6, <3>1 DEF Elsewhere
    <3>4. Elsewhere(items, Without(s, "pragma", Lower), N)
      BY <2>5, <2>6, <3>2 DEF Elsewhere
    <3> QED
      BY <3>1, <3>2, <3>3, <3>4 DEF AttrSet, SetItem
  <2>7. Elsewhere(items, now.items, N)
    BY <1>2, <2>5 DEF Elsewhere
  <2>8. PICK dated \in Lists : dated = ExpiringItems(now.items, seconds) /\ Elsewhere(items, dated, N)
    BY <1>2, <2>6, <2>7 DEF ExpiringItems
  <2>9. Elsewhere(items, WriteBack(dated, props), N)
    BY <1>3, <2>5, <2>8 DEF Elsewhere
  <2>10. PICK c, s : Attribute(Expiry, [items |-> s, cc |-> c]) /\ Elsewhere(items, s, N)
    BY <2>2, <2>3, <2>4, <2>7, <2>8, <2>9 DEF Expiring
  <2>11. /\ op' = [name |-> "attribute", pairs |-> Expiry, attr |-> ""] /\ part' = part
         /\ items' = s
    BY <2>10 DEF Attribute
  <2>12. op'.name = "attribute" /\ op'.pairs = Expiry
    BY <2>11, CallIs
  <2>13. About(Expiry, N)
    BY OnlyCCIs DEF N
  <2> QED
    BY <1>1, <2>2, <2>10, <2>11, <2>12, <2>13, AttributeStep
<1> QED
  BY <1>7, <1>9, <1>10, <1>12, <1>13, <1>14, <1>15, <1>16 DEF CacheControl

LEMMA OtherSteps ==
  ASSUME IInv, Attributes \/ ContentType
  PROVE  M!Step(op')
<1>1. TypeInv /\ items \in Lists
  BY DEF IInv, TypeInv
<1>2. CASE SetAttr
  <2>1. PICK k \in {"x", "y"}, v \in {1, 2} :
          /\ part = "headers" /\ part' = part
          /\ op' = [name |-> "set", pairs |-> <<Named(k, v)>>, attr |-> ""] /\ ret' = <<>>
          /\ items' = AttrSet(items, k, v)
    BY <1>2 DEF SetAttr
  <2>2. norm = Lower /\ k \in Keys /\ norm[k] \in Keys /\ Pair(k, v) \in Entry
    BY <2>1, NormIs, EntryKeys DEF Keys
  <2>3. Called("set", <<<<norm[k], v>>>>)
    BY <2>1 DEF Called, Named
  <2>4. items' = SetItem(items, k, v, norm)
    BY <2>1, <2>2 DEF AttrSet, SetItem
  <2>5. TableOf(SetItem(items, k, v, norm), norm) = [Table EXCEPT ![norm[k]] = <<v>>]
    BY <1>1, <2>2, TableSet DEF Table
  <2>6. Table' = [Table EXCEPT ![norm[k]] = <<v>>]
    BY <2>3, <2>4, <2>5, CalledIs
  <2> QED
    BY <2>1, <2>2, <2>3, <2>6, StepOne
<1>3. CASE DelAttr
  <2>1. PICK k \in {"x", "y"} :
          /\ part = "headers" /\ part' = part
          /\ op' = [name |-> "del", pairs |-> <<Named(k, AnyValue)>>, attr |-> ""] /\ ret' = <<>>
          /\ items' = Without(items, k, Lower)
    BY <1>3 DEF DelAttr
  <2>2. norm = Lower /\ k \in Keys /\ norm[k] \in Keys /\ Pair(k, 1) \in Entry
    BY <2>1, NormIs, EntryKeys DEF Keys
  <2>3. Called("del", <<<<norm[k], AnyValue>>>>)
    BY <2>1 DEF Called, Named
  <2>4. TableOf(Without(items, k, norm), norm) = [Table EXCEPT ![norm[k]] = <<>>]
    BY <1>1, <2>2, TableSet DEF Table
  <2>5. Table' = [Table EXCEPT ![norm[k]] = <<>>]
    BY <2>1, <2>2, <2>3, <2>4, CalledIs
  <2> QED
    BY <2>1, <2>2, <2>3, <2>5, StepOne
<1>4. CASE ContentType
  <2>1. PICK name, s : TypeAttribute(name, s) /\ Elsewhere(items, s, {CT})
    <3>1. \A v \in ContentTypes : Elsewhere(items, PutType(v), {CT})
      <4> SUFFICES ASSUME NEW v \in ContentTypes PROVE Elsewhere(items, PutType(v), {CT})
        OBVIOUS
      <4>1. Pair(CT, v) \in Entry /\ Lower[CT] = CT
        BY EntryKeys, NormIs
      <4>2. \A l : GetAll(SetItem(items, CT, v, Lower), l, Lower)
                     = IF Lower[l] = Lower[CT] THEN <<v>> ELSE GetAll(items, l, Lower)
        BY <1>1, <4>1, Setting
      <4> QED
        BY <4>1, <4>2 DEF Elsewhere, PutType
    <3>2. Elsewhere(items, PopFirst(items, CT, Lower), {CT})
      <4>1. CASE HasKey(items, CT, Lower)
        <5>1. \A l : GetAll(PopFirst(items, CT, Lower), l, Lower)
                       = IF Lower[l] = Lower[CT] THEN Tail(GetAll(items, l, Lower)) ELSE GetAll(items, l, Lower)
          BY <1>1, <4>1, Popping
        <5> QED
          BY <5>1, NormIs DEF Elsewhere
      <4>2. CASE ~HasKey(items, CT, Lower)
        BY <4>2 DEF PopFirst, Elsewhere
      <4> QED
        BY <4>1, <4>2
    <3>3. Elsewhere(items, items, {CT})
      BY DEF Elsewhere
    <3>4. TypeHeader(items) \in ContentTypes /\ (HasType(items) => Popped(items) \in ContentTypes)
      BY <1>1, HeaderIs, PoppedIs
    <3>5. \A v \in ContentTypes : /\ \A c \in {"none", "default", "other"} : [v EXCEPT !.charset = c] \in ContentTypes
                                  /\ v.type \in {"", "text", "image"}
      BY DEF ContentTypes
    <3>6. \A t \in {"", "text", "image"}, c \in {"none", "default", "other"} :
             [type |-> t, charset |-> c, param |-> TRUE] \in ContentTypes /\ Plain(t) \in ContentTypes
      BY DEF ContentTypes, Plain
    <3>7. CASE SetContentType
      <4>1. PICK v \in ContentTypes :
              TypeAttribute("content_type", PutType(IF v.charset = "none" /\ v.type = "text"
                                                    THEN [v EXCEPT !.charset = "default"] ELSE v))
        BY <3>7 DEF SetContentType
      <4>2. PICK w \in ContentTypes : w = IF v.charset = "none" /\ v.type = "text" THEN [v EXCEPT !.charset = "default"] ELSE v
        BY <3>5
      <4> QED
        BY <3>1, <4>1, <4>2
    <3>8. CASE DelContentType
      BY <3>2, <3>8 DEF DelContentType
    <3>9. CASE SetCharset
      <4>1. PICK c \in {"default", "other"} : TypeAttribute("charset", PutType([TypeHeader(items) EXCEPT !.charset = c]))
        BY <3>9 DEF SetCharset
      <4>2. [TypeHeader(items) EXCEPT !.charset = c] \in ContentTypes
        BY <3>4, <3>5
      <4> QED
        BY <3>1, <4>1, <4>2
    <3>10. CASE DelCharset
      <4>1. CASE HasType(items)
        <5>1. [Popped(items) EXCEPT !.charset = "none"] \in ContentTypes
          BY <3>4, <3>5, <4>1
        <5> QED
          BY <3>1, <3>10, <4>1, <5>1 DEF DelCharset
      <4>2. CASE ~HasType(items)
        BY <3>3, <3>10, <4>2 DEF DelCharset
      <4> QED
        BY <4>1, <4>2
    <3>11. CASE SetParams
      <4>1. PICK c \in {"none", "other"} :
              TypeAttribute("params", PutType([type |-> IF HasType(items) THEN Popped(items).type ELSE "", charset |-> c, param |-> TRUE]))
        BY <3>11 DEF SetParams
      <4>2. PICK t \in {"", "text", "image"} : t = IF HasType(items) THEN Popped(items).type ELSE ""
        BY <3>4, <3>5
      <4>3. [type |-> t, charset |-> c, param |-> TRUE] \in ContentTypes
        BY <3>6
      <4> QED
        BY <3>1, <4>1, <4>2, <4>3
    <3>12. CASE DelParams
      <4>1. Plain(TypeHeader(items).type) \in ContentTypes
        BY <3>4, <3>5, <3>6
      <4> QED
        BY <3>1, <3>12, <4>1 DEF DelParams
    <3> QED
      BY <1>4, <3>7, <3>8, <3>9, <3>10, <3>11, <3>12 DEF ContentType
  <2>2. PICK names : names = <<<<CT, Plain("")>>>>
    OBVIOUS
  <2>3. /\ part = "type" /\ part' = part /\ items' = s
        /\ op' = [name |-> "attribute", pairs |-> names, attr |-> name]
    BY <2>1, <2>2 DEF TypeAttribute
  <2>4. op'.name = "attribute" /\ op'.pairs = names
    BY <2>3, CallIs
  <2>5. Len(names) = 1 /\ names[1][1] = CT
    BY <2>2
  <2>6. About(names, {CT})
    BY <2>5 DEF About
  <2> QED
    BY <1>1, <2>1, <2>3, <2>4, <2>6, AttributeStep
<1> QED
  BY <1>2, <1>3, <1>4 DEF Attributes

(* The methods over the list, of any length, do what Multimap says, under   *)
(* either comparison of keys: Multimap's table is the values of each name.  *)
THEOREM Refinement ==
  Spec => RefinesMultimap
<1>1. Init => M!Init
  BY CallIs DEF Init, M!Init
<1>2. IInv /\ [Next]_vars => M!Step(op') \/ (Table' = Table /\ op' = op /\ ret' = ret)
  <2>1. CASE UNCHANGED vars
    BY <2>1 DEF vars, Table, norm
  <2> QED
    BY <2>1, DictionarySteps, CacheControlSteps, OtherSteps DEF Next
<1>3. IInv /\ [Next]_vars =>
        [M!Next]_<<[n \in Keys |-> IF norm[n] = n THEN GetAll(items, n, norm) ELSE <<>>], op, ret>>
  BY <1>2 DEF M!Next, Table, TableOf
<1> QED
  BY <1>1, <1>3, Invariance, PTL DEF Spec, RefinesMultimap, M!Spec

---------------------------------------------------------------------------
(* mixed: what its loop holds after n pairs, for lists of any length.       *)
Folds(f) == \A k \in Keys : f[k] \in Keys /\ f[f[k]] = f[k]

SoFar(s, j, f, n) == GetAll(SubSeq(s, 1, n), j, f)
Met(s, f, n) == {f[s[i].k] : i \in 1..n}

LEMMA Growing ==
  ASSUME NEW s \in Lists, NEW f, NEW n \in 1..Len(s)
  PROVE  /\ n - 1 \in 0..Len(s) /\ n \in 0..Len(s)
         /\ s[n] \in Entry
         /\ \A j : SoFar(s, j, f, n) = IF f[j] = f[s[n].k] THEN Append(SoFar(s, j, f, n - 1), s[n].v)
                                       ELSE SoFar(s, j, f, n - 1)
         /\ Met(s, f, n) = Met(s, f, n - 1) \cup {f[s[n].k]}
<1>1. n - 1 \in 0..Len(s) /\ n \in 0..Len(s) /\ n \in 1..n /\ Len(s) \in Nat /\ s \in Seq(Entry)
  BY DEF Lists
<1>2. PICK p \in Entry : p = s[n]
  BY <1>1, ElementOfSeq
<1>3. PICK w \in Lists : w = SubSeq(s, 1, n - 1)
  BY <1>1, Cut
<1>4. SubSeq(s, 1, n) = w \o <<p>>
  BY <1>1, <1>2, <1>3, SubSeqRecursiveSecond
<1>5. SubSeq(s, 1, n) = AddItem(w, p.k, p.v)
  <2>1. Append(w, p) = w \o <<p>>
    BY AppendIsConcat DEF Lists
  <2> QED
    BY <1>4, <2>1, EntryKeys DEF AddItem
<1>6. PICK k, v : k = p.k /\ v = p.v
  OBVIOUS
<1>7. Pair(k, v) \in Entry
  BY <1>6, EntryKeys
<1>8. \A j : GetAll(AddItem(w, k, v), j, f) = IF f[j] = f[k] THEN Append(GetAll(w, j, f), v) ELSE GetAll(w, j, f)
  <2> TAKE j
  <2> QED
    BY ONLY w \in Lists, <1>7, Adding
<1>9. Met(s, f, n) = Met(s, f, n - 1) \cup {f[s[n].k]}
  <2>1. \A i : i \in 1..n <=> i \in 1..(n - 1) \/ i = n
    BY <1>1
  <2> QED
    BY <2>1 DEF Met
<1> QED
  BY <1>1, <1>2, <1>3, <1>5, <1>6, <1>8, <1>9 DEF SoFar

LEMMA MetOrNot ==
  ASSUME NEW s \in Lists, NEW f, NEW n \in 0..Len(s), NEW j, f[j] = j
  PROVE  /\ SoFar(s, j, f, n) \in Seq(Vals)
         /\ j \in Met(s, f, n) <=> SoFar(s, j, f, n) # <<>>
<1>1. PICK w \in Lists : w = SubSeq(s, 1, n) /\ Len(w) = n /\ \A i \in 1..n : w[i] = s[i]
  BY Cut
<1>2. HasKey(w, j, f) <=> j \in Met(s, f, n)
  BY <1>1 DEF HasKey, Having, Met
<1> QED
  BY <1>1, <1>2, Reading DEF SoFar

LEMMA Lengths ==
  ASSUME NEW X, NEW q \in Seq(X)
  PROVE  /\ Len(q) \in Nat
         /\ q # <<>> <=> Len(q) # 0
         /\ q # <<>> <=> Len(q) >= 1
         /\ Len(q) = 1 => q = <<q[1]>>
  BY EmptySeq

LEMMA AppendTwo ==
  ASSUME NEW x, NEW v
  PROVE  Append(<<x>>, v) = <<x, v>>
<1>1. <<x>> \in Seq({x, v}) /\ <<x, v>> \in Seq({x, v})
  OBVIOUS
<1>2. Append(<<x>>, v) \in Seq({x, v}) /\ Len(Append(<<x>>, v)) = 2
  BY <1>1
<1>3. \A i \in 1..2 : Append(<<x>>, v)[i] = <<x, v>>[i]
  BY <1>1
<1> QED
  BY <1>1, <1>2, <1>3, SeqEqual

(* The tables r.single and r.multi of mixed, from the values so far.        *)
Repeated(N, S) == {j \in N : Len(S[j]) > 1}
Tables(N, S) == [single |-> [j \in N |-> S[j][1]], multi |-> [j \in Repeated(N, S) |-> S[j]]]

LEMMA PutIs ==
  ASSUME NEW V, NEW N, NEW k, NEW v \in V, NEW S, NEW U,
         \A j \in N \cup {k} : S[j] \in Seq(V) /\ (j \in N <=> S[j] # <<>>),
         \A j \in N : j # k => U[j] = S[j],
         U[k] = Append(S[k], v)
  PROVE  Put(Tables(N, S), k, v) = Tables(N \cup {k}, U)
<1> DEFINE r == Tables(N, S)
           t == Tables(N \cup {k}, U)
<1>1. /\ r.single = [j \in N |-> S[j][1]] /\ r.multi = [j \in Repeated(N, S) |-> S[j]]
      /\ DOMAIN r.single = N /\ DOMAIN r.multi = Repeated(N, S)
      /\ r = [single |-> r.single, multi |-> r.multi]
  BY DEF Tables
<1>2. /\ t.single = [j \in N \cup {k} |-> U[j][1]] /\ t.multi = [j \in Repeated(N \cup {k}, U) |-> U[j]]
      /\ t = [single |-> t.single, multi |-> t.multi]
  BY DEF Tables
<1> HIDE DEF r, t
<1>3. \A g, h : /\ [r EXCEPT !.single = g] = [single |-> g, multi |-> r.multi]
                /\ [r EXCEPT !.multi = h] = [single |-> r.single, multi |-> h]
  <2> SUFFICES ASSUME NEW g, NEW h
               PROVE  /\ [r EXCEPT !.single = g] = [single |-> g, multi |-> r.multi]
                      /\ [r EXCEPT !.multi = h] = [single |-> r.single, multi |-> h]
    OBVIOUS
  <2>1. PICK a, b : a = r.single /\ b = r.multi
    OBVIOUS
  <2>2. r = [single |-> a, multi |-> b]
    BY <1>1, <2>1
  <2>3. [r EXCEPT !.single = g] = [single |-> g, multi |-> b]
    BY ONLY <2>2
  <2>4. [r EXCEPT !.multi = h] = [single |-> a, multi |-> h]
    BY ONLY <2>2
  <2> QED
    BY ONLY <2>1, <2>3, <2>4
<1>4. CASE k \notin N
  <2>1. S[k] = <<>>
    BY <1>4
  <2>2. U[k] = <<v>> /\ Len(U[k]) = 1 /\ U[k][1] = v
    BY <2>1
  <2>3. Repeated(N \cup {k}, U) = Repeated(N, S)
    <3>1. \A j \in N : j # k /\ U[j] = S[j]
      BY <1>4
    <3>2. ~(Len(U[k]) > 1)
      BY <2>2
    <3>3. \A j : j \in Repeated(N \cup {k}, U) <=> j \in Repeated(N, S)
      BY <3>1, <3>2 DEF Repeated
    <3> QED
      BY <3>3
  <2>4. t.multi = r.multi
    BY <1>1, <1>2, <1>4, <2>3 DEF Repeated
  <2>5. t.single = With(r.single, k, v)
    BY <1>1, <1>2, <1>4, <2>2 DEF With
  <2>6. Put(r, k, v) = [r EXCEPT !.single = With(r.single, k, v)]
    BY <1>1, <1>4 DEF Put
  <2> QED
    BY <1>2, <1>3, <2>4, <2>5, <2>6 DEF r, t
<1>5. CASE k \in N
  <2>1. S[k] \in Seq(V) /\ Len(S[k]) \in Nat /\ Len(S[k]) >= 1 /\ S[k][1] \in V
    <3>1. S[k] \in Seq(V) /\ S[k] # <<>>
      BY <1>5
    <3>2. Len(S[k]) \in Nat /\ Len(S[k]) # 0
      BY <3>1, EmptySeq
    <3> QED
      BY <3>1, <3>2, ElementOfSeq
  <2>2. U[k] \in Seq(V) /\ Len(U[k]) = Len(S[k]) + 1 /\ U[k][1] = S[k][1]
    BY <2>1, AppendProperties
  <2>3. \A j \in N : U[j][1] = S[j][1]
    BY <2>2
  <2>4. N \cup {k} = N
    BY <1>5
  <2>5. t.single = r.single
    BY <1>1, <1>2, <2>3, <2>4
  <2>6. Repeated(N \cup {k}, U) = Repeated(N, S) \cup {k}
    <3>1. \A j \in N \cup {k} : j \in Repeated(N \cup {k}, U) <=> j \in Repeated(N, S) \/ j = k
      BY <2>1, <2>2, <2>4 DEF Repeated
    <3> QED
      BY <3>1, <2>4 DEF Repeated
  <2>7. t.multi = With(r.multi, k, Append(S[k], v))
    <3>1. \A j \in Repeated(N, S) \cup {k} : U[j] = IF j = k THEN Append(S[k], v) ELSE S[j]
      BY DEF Repeated
    <3>2. PICK R, A, m : R = Repeated(N, S) \cup {k} /\ A = Append(S[k], v) /\ m = r.multi
      OBVIOUS
    <3>3. With(m, k, A) = [j \in R |-> IF j = k THEN A ELSE m[j]]
      BY <1>1, <3>2 DEF With
    <3>4. \A j \in R : U[j] = IF j = k THEN A ELSE m[j]
      BY <1>1, <3>1, <3>2
    <3>5. t.multi = [j \in R |-> U[j]]
      BY <1>2, <2>6, <3>2
    <3> QED
      BY <3>2, <3>3, <3>4, <3>5
  <2>8. (IF k \in DOMAIN r.multi THEN Append(r.multi[k], v) ELSE <<r.single[k], v>>) = Append(S[k], v)
    <3>1. CASE k \in Repeated(N, S)
      BY <1>1, <3>1
    <3>2. CASE k \notin Repeated(N, S)
      <4>1. Len(S[k]) = 1
        <5>1. PICK c \in Nat : c = Len(S[k])
          BY <2>1
        <5>2. c >= 1
          BY <2>1, <5>1
        <5>3. ~(c > 1)
          BY <1>5, <3>2, <5>1 DEF Repeated
        <5>4. c = 1
          BY <5>2, <5>3
        <5> QED
          BY <5>1, <5>4
      <4>2. PICK x : x = S[k][1]
        OBVIOUS
      <4>3. S[k] = <<x>>
        BY <2>1, <4>1, <4>2, Lengths
      <4>4. Append(<<x>>, v) = <<x, v>>
        BY AppendTwo
      <4>5. r.single[k] = x
        BY <1>1, <1>5, <4>2
      <4> QED
        BY <1>1, <3>2, <4>3, <4>4, <4>5
    <3> QED
      BY <3>1, <3>2
  <2>9. Put(r, k, v) = [r EXCEPT !.multi = With(r.multi, k, Append(S[k], v))]
    BY <1>1, <1>5, <2>8 DEF Put
  <2> QED
    BY <1>2, <1>3, <2>5, <2>7, <2>9 DEF r, t
<1> QED
  BY <1>4, <1>5

Held(s, f, n) == Tables(Met(s, f, n), [j \in Met(s, f, Len(s)) |-> SoFar(s, j, f, n)])

LEMMA MetNames ==
  ASSUME NEW s \in Lists, NEW f, Folds(f), NEW n \in 0..Len(s)
  PROVE  /\ Met(s, f, n) \subseteq Met(s, f, Len(s))
         /\ \A j \in Met(s, f, Len(s)) : f[j] = j
<1>1. Len(s) \in Nat /\ n <= Len(s)
  BY DEF Lists
<1>2. \A i \in 1..Len(s) : s[i] \in Entry
  BY ElementOfSeq DEF Lists
<1>3. \A i \in 1..Len(s) : f[f[s[i].k]] = f[s[i].k]
  BY <1>2, EntryKeys DEF Folds
<1> QED
  BY <1>1, <1>3 DEF Met

LEMMA HeldStep ==
  ASSUME NEW s \in Lists, NEW f, Folds(f), NEW n \in 1..Len(s)
  PROVE  Held(s, f, n) = Put(Held(s, f, n - 1), f[s[n].k], s[n].v)
<1>1. /\ n - 1 \in 0..Len(s) /\ n \in 0..Len(s)
      /\ s[n] \in Entry
      /\ \A j : SoFar(s, j, f, n) = IF f[j] = f[s[n].k] THEN Append(SoFar(s, j, f, n - 1), s[n].v)
                                    ELSE SoFar(s, j, f, n - 1)
      /\ Met(s, f, n) = Met(s, f, n - 1) \cup {f[s[n].k]}
  BY Growing
<1>2. PICK k, v : k = f[s[n].k] /\ v = s[n].v
  OBVIOUS
<1>3. v \in Vals
  BY <1>1, <1>2 DEF Vals
<1>4. PICK A, N, O : A = Met(s, f, Len(s)) /\ N = Met(s, f, n - 1) /\ O = Met(s, f, n)
  OBVIOUS
<1>5. N \subseteq A /\ O \subseteq A /\ (\A j \in A : f[j] = j) /\ O = N \cup {k}
  BY <1>1, <1>2, <1>4, MetNames
<1>6. PICK S : S = [j \in A |-> SoFar(s, j, f, n - 1)]
  OBVIOUS
<1>7. PICK U : U = [j \in A |-> SoFar(s, j, f, n)]
  OBVIOUS
<1>8. \A j \in N \cup {k} : S[j] \in Seq(Vals) /\ (j \in N <=> S[j] # <<>>)
  <2> SUFFICES ASSUME NEW j \in A PROVE S[j] \in Seq(Vals) /\ (j \in N <=> S[j] # <<>>)
    BY <1>5
  <2>1. f[j] = j
    BY <1>5
  <2> QED
    BY <1>1, <1>4, <1>6, <2>1, MetOrNot
<1>9. \A j \in N : j # k => U[j] = S[j]
  BY <1>1, <1>2, <1>5, <1>6, <1>7
<1>10. U[k] = Append(S[k], v)
  BY <1>1, <1>2, <1>5, <1>6, <1>7
<1>11. Put(Tables(N, S), k, v) = Tables(N \cup {k}, U)
  BY ONLY <1>3, <1>8, <1>9, <1>10, PutIs
<1> QED
  BY <1>2, <1>4, <1>5, <1>6, <1>7, <1>11 DEF Held

LEMMA HeldFirst ==
  ASSUME NEW s, NEW f
  PROVE  Held(s, f, 0) = [single |-> <<>>, multi |-> <<>>]
<1>1. Met(s, f, 0) = {}
  BY DEF Met
<1>2. \A S : Repeated({}, S) = {}
  BY DEF Repeated
<1>3. \A S : [j \in {} |-> S[j][1]] = <<>> /\ [j \in {} |-> S[j]] = <<>>
  OBVIOUS
<1>4. \A S : Tables({}, S) = [single |-> <<>>, multi |-> <<>>]
  BY <1>2, <1>3 DEF Tables
<1> QED
  BY <1>1, <1>4 DEF Held

Apart(s, f, a) == {n \in Nat : n \in 0..Len(s) /\ a[n] # Held(s, f, n)}

LEMMA HeldAlways ==
  ASSUME NEW s \in Lists, NEW f, Folds(f), NEW a,
         a[0] = [single |-> <<>>, multi |-> <<>>],
         \A n \in 1..Len(s) : a[n] = Put(a[n - 1], f[s[n].k], s[n].v)
  PROVE  a[Len(s)] = Held(s, f, Len(s))
<1>1. Len(s) \in Nat
  BY DEF Lists
<1>2. ASSUME Apart(s, f, a) # {} PROVE FALSE
  <2>1. PICK n \in Apart(s, f, a) : \A m \in Apart(s, f, a) : n <= m
    BY <1>2, Least DEF Apart
  <2>2. n \in Nat /\ n \in 0..Len(s) /\ a[n] # Held(s, f, n)
    BY <2>1 DEF Apart
  <2>3. n # 0
    BY <2>2, HeldFirst
  <2>4. n \in 1..Len(s) /\ n - 1 \in Nat /\ n - 1 \in 0..Len(s) /\ ~(n <= n - 1)
    BY <2>2, <2>3, <1>1
  <2>5. a[n - 1] = Held(s, f, n - 1)
    BY <2>1, <2>4 DEF Apart
  <2>6. a[n] = Put(Held(s, f, n - 1), f[s[n].k], s[n].v)
    BY <2>4, <2>5
  <2> QED
    BY <2>2, <2>4, <2>6, HeldStep
<1> QED
  BY <1>1, <1>2 DEF Apart

\* mixed has all the values of every name.
LEMMA MixedIs ==
  ASSUME NEW s \in Lists, NEW f, Folds(f), NEW j, f[j] = j, HasKey(s, j, f)
  PROVE  Mixed(s, f)[j] = GetAll(s, j, f)
<1> DEFINE Is(a) == a = [n \in 0..Len(s) |-> IF n = 0 THEN [single |-> <<>>, multi |-> <<>>]
                                              ELSE Put(a[n - 1], f[s[n].k], s[n].v)]
           h == [n \in 0..Len(s) |-> Held(s, f, n)]
           All(r) == [k \in DOMAIN r.single |-> IF k \in DOMAIN r.multi THEN r.multi[k] ELSE <<r.single[k]>>]
<1>1. Len(s) \in Nat /\ s \in Seq(Entry) /\ Len(s) \in 0..Len(s)
  BY DEF Lists
<1>2. Is(h)
  <2>1. \A n \in 0..Len(s) : h[n] = IF n = 0 THEN [single |-> <<>>, multi |-> <<>>]
                                    ELSE Put(h[n - 1], f[s[n].k], s[n].v)
    <3> SUFFICES ASSUME NEW n \in 0..Len(s)
                 PROVE  h[n] = IF n = 0 THEN [single |-> <<>>, multi |-> <<>>]
                               ELSE Put(h[n - 1], f[s[n].k], s[n].v)
      OBVIOUS
    <3>1. CASE n = 0
      BY <3>1, HeldFirst
    <3>2. CASE n # 0
      <4>1. n \in 1..Len(s) /\ n - 1 \in 0..Len(s)
        BY <3>2, <1>1
      <4>2. h[n] = Held(s, f, n) /\ h[n - 1] = Held(s, f, n - 1)
        BY <4>1
      <4> HIDE DEF h
      <4> QED
        BY <3>2, <4>1, <4>2, HeldStep
    <3> QED
      BY <3>1, <3>2
  <2> QED
    BY <2>1
<1>3. Is(CHOOSE a : Is(a))
  BY ONLY <1>2
<1>4. PICK a : a = (CHOOSE b : Is(b)) /\ Is(a)
  BY <1>3
<1>5. Mixed(s, f) = All(a[Len(s)])
  BY <1>4 DEF Mixed
<1>6. a[0] = [single |-> <<>>, multi |-> <<>>] /\ \A n \in 1..Len(s) : a[n] = Put(a[n - 1], f[s[n].k], s[n].v)
  <2>1. 0 \in 0..Len(s) /\ \A n \in 1..Len(s) : n \in 0..Len(s) /\ n # 0
    BY <1>1
  <2> QED
    BY <1>4, <2>1
<1> HIDE DEF Is, h
<1>7. PICK r : r = a[Len(s)] /\ r = Held(s, f, Len(s))
  BY <1>6, HeldAlways
<1>8. PICK N, S : N = Met(s, f, Len(s)) /\ S = [i \in N |-> SoFar(s, i, f, Len(s))]
  OBVIOUS
<1>9. /\ r.single = [i \in N |-> S[i][1]] /\ r.multi = [i \in Repeated(N, S) |-> S[i]]
      /\ DOMAIN r.single = N /\ DOMAIN r.multi = Repeated(N, S)
  BY <1>7, <1>8 DEF Held, Tables
<1>10. j \in N
  BY <1>8 DEF HasKey, Having, Met
<1>11. S[j] = GetAll(s, j, f)
  <2>1. SubSeq(s, 1, Len(s)) = s
    BY <1>1, SubSeqFull
  <2> QED
    BY <1>8, <1>10, <2>1 DEF SoFar
<1>12. S[j] \in Seq(Vals) /\ S[j] # <<>>
  BY <1>11, Reading
<1>13. Mixed(s, f)[j] = IF j \in Repeated(N, S) THEN S[j] ELSE <<S[j][1]>>
  BY <1>5, <1>7, <1>9, <1>10
<1>14. CASE j \notin Repeated(N, S)
  <2>1. Len(S[j]) = 1
    <3>1. PICK c \in Nat : c = Len(S[j])
      BY <1>12, Lengths
    <3>2. c >= 1
      BY <1>12, <3>1, Lengths
    <3>3. ~(c > 1)
      BY <1>10, <1>14, <3>1 DEF Repeated
    <3>4. c = 1
      BY <3>2, <3>3
    <3> QED
      BY <3>1, <3>4
  <2>2. S[j] = <<S[j][1]>>
    BY <1>12, <2>1, Lengths
  <2> QED
    BY <1>11, <1>13, <1>14, <2>2
<1> QED
  BY <1>11, <1>13, <1>14

\* Two lists, one behind the other: NestedMultiDict.
LEMMA Nesting ==
  ASSUME NEW s \in Lists, NEW k, NEW f, NEW n \in 0..Len(s)
  PROVE  LET all == GetAll(s, k, f)
             u   == SubSeq(s, 1, n)
             w   == SubSeq(s, n + 1, Len(s))
         IN /\ NestedGetAll(u, w, k, f) = GetAll(NestedItems(u, w), k, f)
            /\ all # <<>> => NestedGet(u, w, k, f) \in {all[i] : i \in 1..Len(all)}
<1>1. PICK u \in Lists, w \in Lists : u = SubSeq(s, 1, n) /\ w = SubSeq(s, n + 1, Len(s)) /\ s = u \o w
  BY Cut
<1>2. GetAll(u \o w, k, f) = GetAll(u, k, f) \o GetAll(w, k, f)
  <2>1. GetAllApart(u, w, k, f)
    BY GetAllConcat
  <2> QED
    BY <2>1 DEF GetAllApart
<1>3. PICK a, b, all : a = GetAll(u, k, f) /\ b = GetAll(w, k, f) /\ all = GetAll(s, k, f)
  OBVIOUS
<1>4. /\ a \in Seq(Vals) /\ b \in Seq(Vals) /\ all = a \o b
      /\ HasKey(u, k, f) <=> a # <<>>
      /\ HasKey(w, k, f) <=> b # <<>>
      /\ HasKey(u, k, f) => Get(u, k, f) = a[Len(a)]
      /\ HasKey(w, k, f) => Get(w, k, f) = b[Len(b)]
  <2>1. a \in Seq(Vals) /\ (HasKey(u, k, f) <=> a # <<>>) /\ (HasKey(u, k, f) => Get(u, k, f) = a[Len(a)])
    BY <1>3, Reading
  <2>2. b \in Seq(Vals) /\ (HasKey(w, k, f) <=> b # <<>>) /\ (HasKey(w, k, f) => Get(w, k, f) = b[Len(b)])
    BY <1>3, Reading
  <2>3. all = a \o b
    BY <1>1, <1>2, <1>3
  <2> QED
    BY <2>1, <2>2, <2>3
<1>5. /\ Len(a) \in Nat /\ Len(b) \in Nat /\ Len(all) = Len(a) + Len(b)
      /\ \A i \in 1..Len(a) + Len(b) : all[i] = IF i <= Len(a) THEN a[i] ELSE b[i - Len(a)]
      /\ a # <<>> <=> Len(a) # 0
      /\ b # <<>> <=> Len(b) # 0
  BY <1>4, ConcatProperties, EmptySeq
<1>6. ASSUME all # <<>> PROVE NestedGet(u, w, k, f) \in {all[i] : i \in 1..Len(all)}
  <2>1. CASE a # <<>>
    <3>1. Len(a) \in 1..Len(all) /\ all[Len(a)] = a[Len(a)]
      BY <1>5, <2>1
    <3> QED
      BY <1>4, <2>1, <3>1 DEF NestedGet
  <2>2. CASE a = <<>>
    <3>1. Len(a) = 0 /\ Len(b) # 0 /\ Len(all) = Len(b)
      <4>1. all # <<>> => Len(all) # 0
        BY <1>4, ConcatProperties, EmptySeq
      <4> QED
        BY <1>5, <1>6, <2>2, <4>1
    <3>2. Len(b) \in 1..Len(all) /\ all[Len(b)] = b[Len(b)]
      BY <1>5, <3>1
    <3> QED
      BY <1>4, <1>5, <2>2, <3>1, <3>2 DEF NestedGet
  <2> QED
    BY <2>1, <2>2
<1> QED
  BY <1>1, <1>2, <1>3, <1>6 DEF NestedGetAll, NestedItems

(* The readers agree on every list of headers, of any length: in, [],       *)
(* getone, mixed, the attributes and a NestedMultiDict cut anywhere.        *)
THEOREM ReadersDoAgree ==
  Spec => []ReadersAgree
<1>1. ASSUME TypeInv PROVE ReadersAgree
  <2>1. PICK s \in Lists : s = items
    BY <1>1 DEF TypeInv
  <2>2. PICK f \in {Same, Lower} : f = norm /\ (part # "multidict" => f = Lower)
    BY NormIs
  <2>3. Folds(f)
    BY FoldingKeys DEF Folds
  <2>4. DictKeys \subseteq Keys
    BY <1>1 DEF DictKeys, TypeInv, Keys, CC, CT
  <2> SUFFICES ASSUME NEW k \in Keys
               PROVE  LET all == GetAll(s, k, f)
                      IN /\ HasKey(s, k, f) <=> all # <<>>
                         /\ all # <<>> => Get(s, k, f) = all[Len(all)] /\ Mixed(s, f)[f[k]] = all
                         /\ GetOne(s, k, f) # <<>> <=> Len(all) = 1
                         /\ Len(all) = 1 /\ part # "multidict" => AttrGet(s, k) = Get(s, k, f)
                         /\ \A n \in 0..Len(s) :
                              LET u == SubSeq(s, 1, n) w == SubSeq(s, n + 1, Len(s))
                              IN /\ NestedGetAll(u, w, k, f) = GetAll(NestedItems(u, w), k, f)
                                 /\ all # <<>> => NestedGet(u, w, k, f) \in {all[i] : i \in 1..Len(all)}
    BY <2>1, <2>2, <2>4 DEF ReadersAgree
  <2>5. PICK all : all = GetAll(s, k, f)
    OBVIOUS
  <2>6. /\ all \in Seq(Vals)
        /\ HasKey(s, k, f) <=> all # <<>>
        /\ HasKey(s, k, f) => Get(s, k, f) = all[Len(all)]
    BY <2>5, Reading
  <2>7. Len(all) = 1 => all # <<>>
    BY <2>6, Lengths
  <2>8. ASSUME all # <<>> PROVE Mixed(s, f)[f[k]] = all
    <3>1. PICK j : j = f[k] /\ f[j] = j
      BY FoldingKeys
    <3>2. GetAll(s, j, f) = all
      BY <2>5, <3>1, FoldedKey
    <3>3. HasKey(s, j, f)
      BY <2>8, <3>2, Reading
    <3> QED
      BY <2>3, <3>1, <3>2, <3>3, MixedIs
  <2>9. GetOne(s, k, f) # <<>> <=> Len(all) = 1
    BY <2>5, <2>7 DEF GetOne
  <2>10. ASSUME Len(all) = 1, part # "multidict" PROVE AttrGet(s, k) = Get(s, k, f)
    <3>1. HasKey(s, k, f) /\ s[First(s, k, f)].v = all[1]
      BY <2>5, <2>6, <2>7, <2>10, Popping
    <3> QED
      BY <2>2, <2>6, <2>10, <3>1 DEF AttrGet
  <2>11. \A n \in 0..Len(s) :
           LET u == SubSeq(s, 1, n) w == SubSeq(s, n + 1, Len(s))
           IN /\ NestedGetAll(u, w, k, f) = GetAll(NestedItems(u, w), k, f)
              /\ all # <<>> => NestedGet(u, w, k, f) \in {all[i] : i \in 1..Len(all)}
    BY <2>5, Nesting
  <2> QED
    BY <2>5, <2>6, <2>8, <2>9, <2>10, <2>11
<1> QED
  BY <1>1, Invariance, PTL DEF IInv
===============================================================================
