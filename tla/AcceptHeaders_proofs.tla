------------------------ MODULE AcceptHeaders_proofs ------------------------
(***************************************************************************)
(* Proofs about AcceptHeaders and the loops of Negotiation: for every      *)
(* header value and every list of offers, however long, what               *)
(* acceptable_offers, basic_filtering, lookup and the deprecated methods   *)
(* answer is what the loop-free definitions say (src/webob/acceptparse.py).*)
(*                                                                         *)
(* The invariant is only that the header is a text of its kind: what the   *)
(* object answers is computed from the text alone.  The work is in the     *)
(* loops: what a parsed text holds, how a list is put in order, what a     *)
(* dictionary has after n ranges, and which range decides an offer.        *)
(***************************************************************************)
EXTENDS AcceptHeaders, Selection_proofs

---------------------------------------------------------------------------
(* The texts of headers.                                                    *)

Elements(k)  == {x \in Item(k) : x.is = "element"}
Listed(es)   == [i \in 1..Len(es) |-> [range |-> es[i].range, q |-> es[i].q]]
Rest(b)      == [b EXCEPT ![1] = IF @.is = "nothing" THEN Other("blank") ELSE @]
Parseds(k)   == [range : Ranges[k] , q : 0..MaxQ]

LEMMA OthersAreItems ==
  ASSUME NEW k, NEW is \in {"nothing", "blank", "bad"}
  PROVE  Other(is) \in Item(k) /\ Other(is).is = is
BY DEF Other, Item

LEMMA ItemIs ==
  ASSUME NEW k, NEW x \in Item(k)
  PROVE  /\ x.is \in {"element", "nothing", "blank", "bad"}
         /\ x.is = "nothing" => x = Other("nothing")
         /\ x.is = "element" => x.range \in Ranges[k] /\ x.q \in 0..MaxQ
BY DEF Item, Other

LEMMA PartedIs ==
  ASSUME NEW k, NEW t \in Seq(Item(k))
  PROVE  /\ {i \in 1..Len(t) : IsElement(t, i)} = PlacesIn(t, Elements(k))
         /\ Parsed(k, t) = IF Valid(k, t) THEN Listed(Only(t, Elements(k))) ELSE <<>>
<1>1. \A i \in 1..Len(t) : t[i] \in Item(k)
  BY ElementOfSeq
<1>2. {i \in 1..Len(t) : IsElement(t, i)} = PlacesIn(t, Elements(k))
  BY <1>1 DEF IsElement, PlacesIn, Elements
<1> QED
  BY <1>2 DEF Parsed, Listed, Only

LEMMA ListedIs ==
  ASSUME NEW k, NEW es \in Seq(Elements(k))
  PROVE  Listed(es) \in Seq(Parseds(k)) /\ Len(Listed(es)) = Len(es)
<1>1. \A i \in 1..Len(es) : es[i] \in Elements(k)
  BY ElementOfSeq
<1>2. \A i \in 1..Len(es) : [range |-> es[i].range, q |-> es[i].q] \in Parseds(k)
  BY <1>1, ItemIs DEF Elements, Parseds
<1>3. Len(es) \in Nat
  OBVIOUS
<1> QED
  BY <1>2, <1>3 DEF Listed

LEMMA ElementsIn ==
  ASSUME NEW k, NEW t \in Seq(Item(k))
  PROVE  Only(t, Elements(k)) \in Seq(Elements(k))
<1>1. PICK o \in Seq(Item(k)) : o = Only(t, Elements(k))
  BY OnlyHas
<1>2. \A i \in 1..Len(Only(t, Elements(k))) : Only(t, Elements(k))[i] \in Elements(k)
  BY ONLY t \in Seq(Item(k)), OnlyHas
<1>3. \A i \in 1..Len(o) : o[i] \in Elements(k)
  BY <1>1, <1>2
<1>4. o \in Seq(Elements(k))
  BY <1>3
<1> QED
  BY <1>1, <1>4

(* What a header is parsed into.                                            *)
LEMMA ParsedIn ==
  ASSUME NEW k, NEW t \in Seq(Item(k))
  PROVE  Parsed(k, t) \in Seq(Parseds(k))
<1>1. PICK o \in Seq(Elements(k)) : o = Only(t, Elements(k))
  BY ElementsIn
<1>2. Listed(o) \in Seq(Parseds(k)) /\ <<>> \in Seq(Parseds(k))
  BY ListedIs
<1> QED
  BY <1>1, <1>2, PartedIs

ListedApart(s, t) == Listed(s \o t) = Listed(s) \o Listed(t)

LEMMA ListedConcat ==
  ASSUME NEW k, NEW s \in Seq(Elements(k)), NEW t \in Seq(Elements(k))
  PROVE  ListedApart(s, t)
<1>1. PICK st \in Seq(Elements(k)) : st = s \o t
  BY ConcatProperties
<1>2. PICK c \in Nat, d \in Nat : c = Len(s) /\ d = Len(t)
  OBVIOUS
<1>3. Len(st) = c + d /\ \A i \in 1..(c + d) : st[i] = IF i <= c THEN s[i] ELSE t[i - c]
  BY <1>1, <1>2, ConcatProperties
<1>4. PICK ls \in Seq(Parseds(k)) : ls = Listed(s) /\ Len(ls) = c
  BY <1>2, ListedIs
<1>5. PICK lt \in Seq(Parseds(k)) : lt = Listed(t) /\ Len(lt) = d
  BY <1>2, ListedIs
<1>6. PICK lst \in Seq(Parseds(k)) : lst = Listed(st) /\ Len(lst) = c + d
  BY <1>3, ListedIs
<1>7. PICK l \in Seq(Parseds(k)) : l = ls \o lt
  BY ConcatProperties
<1>8. Len(l) = c + d /\ \A i \in 1..(c + d) : l[i] = IF i <= c THEN ls[i] ELSE lt[i - c]
  <2>1. /\ Len(l) = Len(ls) + Len(lt)
        /\ \A i \in 1..Len(ls) + Len(lt) : l[i] = IF i <= Len(ls) THEN ls[i] ELSE lt[i - Len(ls)]
    BY ONLY ls \in Seq(Parseds(k)), lt \in Seq(Parseds(k)), <1>7, ConcatProperties
  <2> QED
    BY <2>1, <1>4, <1>5
<1>9. \A i \in 1..Len(lst) : lst[i] = l[i]
  <2> SUFFICES ASSUME NEW i \in 1..(c + d) PROVE lst[i] = l[i]
    BY <1>6
  <2>1. lst[i] = [range |-> st[i].range, q |-> st[i].q]
    BY <1>3, <1>6 DEF Listed
  <2>2. CASE i <= c
    <3>1. i \in 1..c
      BY <2>2
    <3>2. ls[i] = [range |-> s[i].range, q |-> s[i].q]
      BY <3>1, <1>2, <1>4 DEF Listed
    <3> QED
      BY <2>1, <2>2, <3>2, <1>3, <1>8
  <2>3. CASE ~(i <= c)
    <3>1. PICK j \in 1..d : j = i - c
      BY <2>3
    <3>2. lt[j] = [range |-> t[j].range, q |-> t[j].q]
      BY <1>2, <1>5 DEF Listed
    <3> QED
      BY <2>1, <2>3, <3>1, <3>2, <1>3, <1>8
  <2> QED
    BY <2>2, <2>3
<1>10. lst = l
  BY <1>6, <1>8, <1>9, SeqEqual
<1> QED
  BY <1>1, <1>4, <1>5, <1>6, <1>7, <1>10 DEF ListedApart

(* Joined, a text begins with blanks where it began with nothing.           *)
LEMMA RestIs ==
  ASSUME NEW k, NEW b \in Seq(Item(k)), b # <<>>, NEW r, r = Rest(b)
  PROVE  /\ r \in Seq(Item(k)) /\ Len(r) = Len(b) /\ 1 \in 1..Len(b)
         /\ \A i \in 1..Len(b) : i # 1 => r[i] = b[i]
         /\ r[1] = IF b[1].is = "nothing" THEN Other("blank") ELSE b[1]
<1>1. PICK c \in Nat : c = Len(b)
  OBVIOUS
<1>2. c # 0 /\ 1 \in 1..c
  BY <1>1
<1>3. PICK f : f = IF b[1].is = "nothing" THEN Other("blank") ELSE b[1]
  OBVIOUS
<1>4. r = [b EXCEPT ![1] = f]
  BY <1>3 DEF Rest
<1>5. f \in Item(k)
  <2>1. b[1] \in Item(k)
    BY <1>1, <1>2, ElementOfSeq
  <2> QED
    BY <2>1, <1>3, OthersAreItems
<1>6. r \in Seq(Item(k)) /\ Len(r) = c /\ \A i \in 1..c : r[i] = IF i = 1 THEN f ELSE b[i]
  BY <1>1, <1>2, <1>4, <1>5
<1> QED
  BY <1>1, <1>2, <1>3, <1>6

(* Lists of the same length that agree at the places chosen.                *)
LEMMA ChosenAgree ==
  ASSUME NEW X, NEW s \in Seq(X), NEW t \in Seq(X), Len(s) = Len(t),
         NEW I \in SUBSET (1..Len(s)), \A i \in I : s[i] = t[i]
  PROVE  Chosen(s, I) = Chosen(t, I)
<1>1. PICK n \in Nat : \E r \in [1..n -> I] : Enumerates(r, n, I)
  BY ONLY s \in Seq(X), I \in SUBSET (1..Len(s)), ChosenPlaces
<1>2. PICK r \in [1..n -> I] : Enumerates(r, n, I)
  BY <1>1
<1>3. I \in SUBSET (1..Len(t))
  OBVIOUS
<1>4. Chosen(s, I) = [k \in 1..n |-> s[r[k]]]
  BY ONLY s \in Seq(X), I \in SUBSET (1..Len(s)), n \in Nat, <1>2, ChosenAlong
<1>5. Chosen(t, I) = [k \in 1..n |-> t[r[k]]]
  BY ONLY t \in Seq(X), <1>3, n \in Nat, <1>2, ChosenAlong
<1>6. \A k \in 1..n : s[r[k]] = t[r[k]]
  OBVIOUS
<1> QED
  BY <1>4, <1>5, <1>6

LEMMA RestElements ==
  ASSUME NEW k, NEW b \in Seq(Item(k)), b # <<>>, NEW r, r = Rest(b)
  PROVE  Only(r, Elements(k)) = Only(b, Elements(k))
<1>1. /\ r \in Seq(Item(k)) /\ Len(r) = Len(b) /\ 1 \in 1..Len(b)
      /\ \A i \in 1..Len(b) : i # 1 => r[i] = b[i]
      /\ r[1] = IF b[1].is = "nothing" THEN Other("blank") ELSE b[1]
  BY RestIs
<1>2. ASSUME NEW i \in 1..Len(b) PROVE (r[i] \in Elements(k) <=> b[i] \in Elements(k)) /\ (b[i] \in Elements(k) => r[i] = b[i])
  <2>1. CASE i = 1 /\ b[1].is = "nothing"
    <3>1. r[1].is = "blank"
      BY <2>1, <1>1, OthersAreItems
    <3> QED
      BY <2>1, <3>1 DEF Elements
  <2>2. CASE ~(i = 1 /\ b[1].is = "nothing")
    <3>1. r[i] = b[i]
      BY <2>2, <1>1
    <3> QED
      BY <3>1
  <2> QED
    BY <2>1, <2>2
<1>3. PICK I \in SUBSET (1..Len(b)) : I = PlacesIn(b, Elements(k))
  <2>1. PlacesIn(b, Elements(k)) \in SUBSET (1..Len(b))
    BY DEF PlacesIn
  <2> QED
    BY <2>1
<1>4. I = PlacesIn(r, Elements(k))
  BY <1>1, <1>2, <1>3 DEF PlacesIn
<1>5. \A i \in I : b[i] = r[i]
  BY <1>2, <1>3 DEF PlacesIn
<1>6. Chosen(b, I) = Chosen(r, I)
  BY <1>1, <1>5, ChosenAgree
<1> QED
  BY <1>3, <1>4, <1>6 DEF Only

LEMMA JoinValid ==
  ASSUME NEW k, NEW a \in Seq(Item(k)), NEW b \in Seq(Item(k)), Valid(k, a), Valid(k, b),
         a # EmptyText, b # EmptyText, NEW j, j = Join(a, b)
  PROVE  j \in Seq(Item(k)) /\ Valid(k, j)
<1>1. a # <<>> /\ b # <<>>
  BY DEF Valid, NoHeader
<1>2. PICK r \in Seq(Item(k)) :
        /\ r = Rest(b) /\ Len(r) = Len(b)
        /\ \A i \in 1..Len(b) : i # 1 => r[i] = b[i]
        /\ r[1] = IF b[1].is = "nothing" THEN Other("blank") ELSE b[1]
  BY <1>1, RestIs
<1>3. j = a \o r /\ j \in Seq(Item(k))
  BY <1>2, ConcatProperties DEF Join, Rest
<1>4. PICK c \in Nat, d \in Nat : c = Len(a) /\ d = Len(b)
  OBVIOUS
<1>5. Len(j) = c + d /\ \A i \in 1..(c + d) : j[i] = IF i <= c THEN a[i] ELSE r[i - c]
  BY <1>2, <1>3, <1>4, ConcatProperties
<1>6. c # 0 /\ d # 0 /\ 1 \in 1..c /\ c \in 1..c /\ d \in 1..d /\ 1 \in 1..d
  BY <1>1, <1>4
<1>7. \A i \in 1..c : a[i] \in Item(k) /\ a[i].is # "bad"
  BY <1>4, ElementOfSeq DEF Valid
<1>8. \A i \in 1..d : b[i] \in Item(k) /\ b[i].is # "bad"
  BY <1>4, ElementOfSeq DEF Valid
<1>9. \A i \in 1..d : r[i].is # "bad"
  BY <1>2, <1>4, <1>8, OthersAreItems
<1>10. \A i \in 1..(c + d) : j[i].is # "bad"
  <2> SUFFICES ASSUME NEW i \in 1..(c + d) PROVE j[i].is # "bad"
    OBVIOUS
  <2>1. CASE i <= c
    BY <2>1, <1>5, <1>7
  <2>2. CASE ~(i <= c)
    <3>1. i - c \in 1..d
      BY <2>2
    <3> QED
      BY <3>1, <2>2, <1>5, <1>9
  <2> QED
    BY <2>1, <2>2
<1>11. j[1] = a[1] /\ 1 \in 1..(c + d)
  BY <1>5, <1>6
<1>12. j[1].is # "blank"
  BY <1>11 DEF Valid
<1>13. c + d \in 1..(c + d) /\ ~(c + d <= c) /\ (c + d) - c = d
  BY <1>6
<1>14. j[c + d] = r[d]
  BY <1>5, <1>13
<1>15. r[d].is # "blank"
  <2>1. b[d].is # "blank"
    BY <1>4 DEF Valid
  <2>2. CASE d = 1
    <3>1. b[1].is # "nothing"
      <4> SUFFICES ASSUME b[1].is = "nothing" PROVE FALSE
        OBVIOUS
      <4>1. b[1] = Other("nothing")
        BY <1>6, <1>8, ItemIs
      <4>2. Len(b) = 1
        BY <1>4, <2>2
      <4>3. b = <<b[1]>>
        BY <4>2
      <4> QED
        BY <4>1, <4>3 DEF EmptyText
    <3> QED
      BY <3>1, <2>1, <2>2, <1>2
  <2>3. CASE d # 1
    BY <2>1, <2>3, <1>2, <1>4, <1>6
  <2> QED
    BY <2>2, <2>3
<1>16. j # <<>>
  BY <1>5, <1>6
<1>17. CASE k \in ZeroOrMore
  <2>1. IsElement(j, 1) \/ ~IsElement(j, 2)
    <3>1. CASE c = 1
      <4>1. a[1].is # "nothing"
        <5> SUFFICES ASSUME a[1].is = "nothing" PROVE FALSE
          OBVIOUS
        <5>1. a[1] = Other("nothing")
          BY <1>6, <1>7, ItemIs
        <5>2. Len(a) = 1
          BY <1>4, <3>1
        <5>3. a = <<a[1]>>
          BY <5>2
        <5> QED
          BY <5>1, <5>3 DEF EmptyText
      <4>2. a[1].is # "blank"
        BY DEF Valid
      <4>3. a[1].is = "element"
        BY <4>1, <4>2, <1>6, <1>7, ItemIs
      <4> QED
        BY <4>3, <1>11 DEF IsElement
    <3>2. CASE c # 1
      <4>1. 2 \in 1..(c + d) /\ 2 <= c
        BY <3>2, <1>6
      <4>2. j[2] = a[2]
        BY <4>1, <1>5
      <4>3. IsElement(a, 1) \/ ~IsElement(a, 2)
        BY <3>2, <1>4, <1>17 DEF Valid
      <4> QED
        BY <4>2, <4>3, <1>11 DEF IsElement
    <3> QED
      BY <3>1, <3>2
  <2> QED
    BY <2>1, <1>3, <1>5, <1>10, <1>12, <1>14, <1>15, <1>16, <1>17 DEF Valid, NoHeader
<1>18. CASE k \notin ZeroOrMore
  <2>1. PICK i \in 1..c : IsElement(a, i)
    BY <1>4, <1>18 DEF Valid
  <2>2. i \in 1..(c + d) /\ i <= c
    OBVIOUS
  <2>3. IsElement(j, i)
    BY <2>1, <2>2, <1>5 DEF IsElement
  <2> QED
    BY <2>2, <2>3, <1>3, <1>5, <1>10, <1>12, <1>14, <1>15, <1>16, <1>18 DEF Valid, NoHeader
<1> QED
  BY <1>17, <1>18

(* A sum has the elements of both.                                          *)
LEMMA JoinParsed ==
  ASSUME NEW k, NEW a \in Seq(Item(k)), NEW b \in Seq(Item(k)), Valid(k, a), Valid(k, b),
         a # EmptyText, b # EmptyText, NEW j, j = Join(a, b)
  PROVE  Parsed(k, j) = Parsed(k, a) \o Parsed(k, b)
<1>1. j \in Seq(Item(k)) /\ Valid(k, j)
  BY JoinValid
<1>2. PICK r \in Seq(Item(k)) : r = Rest(b) /\ Only(r, Elements(k)) = Only(b, Elements(k))
  <2>1. b # <<>>
    BY DEF Valid, NoHeader
  <2> QED
    BY <2>1, RestIs, RestElements
<1>3. j = a \o r
  BY <1>2 DEF Join, Rest
<1>4. OnlyApart(a, r, Elements(k))
  BY ONLY a \in Seq(Item(k)), r \in Seq(Item(k)), OnlyConcat
<1>5. PICK ea \in Seq(Elements(k)) : ea = Only(a, Elements(k))
  BY ElementsIn
<1>6. PICK eb \in Seq(Elements(k)) : eb = Only(b, Elements(k))
  BY ElementsIn
<1>7. Only(j, Elements(k)) = ea \o eb
  BY <1>2, <1>3, <1>4, <1>5, <1>6 DEF OnlyApart
<1>8. ListedApart(ea, eb)
  BY ListedConcat
<1>9. Parsed(k, a) = Listed(ea) /\ Parsed(k, b) = Listed(eb) /\ Parsed(k, j) = Listed(ea \o eb)
  BY <1>1, <1>5, <1>6, <1>7, PartedIs
<1> QED
  BY <1>8, <1>9 DEF ListedApart

LEMMA EmptyParsed == ASSUME NEW k PROVE EmptyText \in Seq(Item(k)) /\ Parsed(k, EmptyText) = <<>>
<1>1. PICK x \in Item(k) : x = Other("nothing") /\ x.is = "nothing"
  BY OthersAreItems
<1>2. x \notin Elements(k)
  BY <1>1 DEF Elements
<1>3. PICK t \in Seq(Item(k)) : t = EmptyText
  <2>1. <<x>> \in Seq(Item(k))
    OBVIOUS
  <2> QED
    BY <2>1, <1>1 DEF EmptyText
<1>4. Only(t, Elements(k)) = <<>>
  BY <1>1, <1>2, <1>3, OnlyOne DEF EmptyText
<1>5. Listed(<<>>) = <<>>
  BY DEF Listed
<1>6. Parsed(k, t) = <<>>
  BY <1>4, <1>5, PartedIs
<1> QED
  BY <1>3, <1>6

(* What an addition gives.                                                  *)
LEMMA SumIs ==
  ASSUME NEW k, NEW form \in Forms, NEW a \in Seq(Item(k)), NEW b \in Seq(Item(k)),
         NEW s, s = Sum(k, form, a, b)
  PROVE  /\ s.text \in Seq(Item(k))
         /\ a # EmptyText =>
              /\ s.ok
              /\ Parsed(k, s.text) = IF form = "right" /\ Parsed(k, a) # <<>> THEN Parsed(k, b) \o Parsed(k, a)
                                     ELSE Parsed(k, a) \o Parsed(k, b)
              /\ (Valid(k, a) \/ Valid(k, b)) => Valid(k, s.text)
<1>1. PICK A \in Seq(Parseds(k)) : A = Parsed(k, a)
  BY ParsedIn
<1>2. PICK B \in Seq(Parseds(k)) : B = Parsed(k, b)
  BY ParsedIn
<1>3. A \o <<>> = A /\ <<>> \o A = A /\ B \o <<>> = B /\ <<>> \o B = B
  OBVIOUS
<1>4. NoHeader \in Seq(Item(k)) /\ ~Valid(k, NoHeader) /\ Parsed(k, NoHeader) = <<>>
  BY DEF NoHeader, Valid, Parsed
<1>5. ~Valid(k, b) => B = <<>>
  BY <1>2 DEF Parsed
<1>6. ~Valid(k, a) => A = <<>>
  BY <1>1 DEF Parsed
<1>7. b = EmptyText => B = <<>>
  BY <1>2, EmptyParsed
<1>8. CASE ~Valid(k, a)
  <2>1. s = [ok |-> TRUE, text |-> IF Valid(k, b) THEN b ELSE NoHeader]
    BY <1>8 DEF Sum, OtherPlus
  <2>2. s.ok /\ s.text = IF Valid(k, b) THEN b ELSE NoHeader
    BY <2>1
  <2> QED
    BY <2>2, <1>1, <1>2, <1>3, <1>4, <1>5, <1>6, <1>8
<1>9. CASE Valid(k, a) /\ s = [ok |-> TRUE, text |-> a] /\ B = <<>>
  <2>1. s.ok /\ s.text = a
    BY <1>9
  <2> QED
    BY <2>1, <1>1, <1>2, <1>3, <1>9
<1>10. PICK ab : ab = Join(a, b)
  OBVIOUS
<1>11. PICK ba : ba = Join(b, a)
  OBVIOUS
<1>12. ASSUME Valid(k, a), Valid(k, b), a # EmptyText, b # EmptyText
       PROVE  /\ ab \in Seq(Item(k)) /\ Valid(k, ab) /\ Parsed(k, ab) = A \o B
              /\ ba \in Seq(Item(k)) /\ Valid(k, ba) /\ Parsed(k, ba) = B \o A
  BY <1>1, <1>2, <1>10, <1>11, <1>12, JoinValid, JoinParsed
<1>13. ASSUME Valid(k, a), Valid(k, b) PROVE ab \in Seq(Item(k)) /\ ba \in Seq(Item(k))
  <2>1. a # <<>> /\ b # <<>>
    BY <1>13 DEF Valid, NoHeader
  <2>2. PICK ra \in Seq(Item(k)) : ra = Rest(a)
    BY <2>1, RestIs
  <2>3. PICK rb \in Seq(Item(k)) : rb = Rest(b)
    BY <2>1, RestIs
  <2>4. a \o rb \in Seq(Item(k)) /\ b \o ra \in Seq(Item(k))
    BY ConcatProperties
  <2> QED
    BY <2>2, <2>3, <2>4, <1>10, <1>11 DEF Join, Rest
<1>14. CASE Valid(k, a) /\ Valid(k, b) /\ b # EmptyText /\ s = [ok |-> TRUE, text |-> ab] /\ form # "right"
  <2>1. s.ok /\ s.text = ab
    BY <1>14
  <2> QED
    BY <2>1, <1>1, <1>2, <1>12, <1>13, <1>14
<1>15. CASE Valid(k, a) /\ Valid(k, b) /\ b # EmptyText /\ s = [ok |-> TRUE, text |-> ba] /\ form = "right"
  <2>1. s.ok /\ s.text = ba
    BY <1>15
  <2> QED
    BY <2>1, <1>1, <1>2, <1>3, <1>12, <1>13, <1>15
<1>16. CASE a = EmptyText /\ s.text = a
  BY <1>16
<1>17. CASE Valid(k, a) /\ form = "object"
  <2>1. s = [ok |-> TRUE, text |-> IF b = EmptyText \/ ~Valid(k, b) THEN a ELSE ab]
    BY <1>10, <1>17 DEF Sum, ValidPlusObject
  <2> QED
    BY <2>1, <1>5, <1>7, <1>9, <1>14, <1>17
<1>18. CASE Valid(k, a) /\ form = "left"
  <2>1. s = ValidPlusText(k, a, b, ab)
    BY <1>10, <1>18 DEF Sum
  <2>2. CASE b = EmptyText \/ ~Valid(k, b)
    BY <2>1, <2>2, <1>5, <1>7, <1>9, <1>18 DEF ValidPlusText
  <2>3. CASE b # EmptyText /\ Valid(k, b) /\ Valid(k, ab)
    BY <2>1, <2>3, <1>14, <1>18 DEF ValidPlusText
  <2>4. CASE b # EmptyText /\ Valid(k, b) /\ ~Valid(k, ab)
    <3>1. a = EmptyText
      BY <2>4, <1>12, <1>18
    <3>2. s = [ok |-> FALSE, text |-> a]
      BY <2>1, <2>4 DEF ValidPlusText
    <3> QED
      BY <3>1, <3>2, <1>16
  <2> QED
    BY <2>2, <2>3, <2>4
<1>19. CASE Valid(k, a) /\ form = "right"
  <2>1. CASE b = NoHeader
    <3>1. s = [ok |-> TRUE, text |-> a]
      BY <2>1, <1>19 DEF Sum
    <3>2. B = <<>>
      BY <2>1, <1>2, <1>4
    <3> QED
      BY <3>1, <3>2, <1>9, <1>19
  <2>2. CASE b # NoHeader
    <3>1. s = ValidPlusText(k, a, b, ba)
      BY <2>2, <1>11, <1>19 DEF Sum
    <3>2. CASE b = EmptyText \/ ~Valid(k, b)
      BY <3>1, <3>2, <1>5, <1>7, <1>9, <1>19 DEF ValidPlusText
    <3>3. CASE b # EmptyText /\ Valid(k, b) /\ Valid(k, ba)
      BY <3>1, <3>3, <1>15, <1>19 DEF ValidPlusText
    <3>4. CASE b # EmptyText /\ Valid(k, b) /\ ~Valid(k, ba)
      <4>1. a = EmptyText
        BY <3>4, <1>12, <1>19
      <4>2. s = [ok |-> FALSE, text |-> a]
        BY <3>1, <3>4 DEF ValidPlusText
      <4> QED
        BY <4>1, <4>2, <1>16
    <3> QED
      BY <3>2, <3>3, <3>4
  <2> QED
    BY <2>1, <2>2
<1> QED
  BY <1>8, <1>17, <1>18, <1>19 DEF Forms

---------------------------------------------------------------------------
AcceptInv == kind \in Kinds /\ environ \in Seq(Item(kind))

(* The header is a text of its kind.                                        *)
THEOREM AcceptInvariant == AcceptSpec => []AcceptInv
<1>1. AcceptInit => AcceptInv
  <2> SUFFICES ASSUME AcceptInit PROVE AcceptInv
    OBVIOUS
  <2>1. PICK n \in 0..MaxItems : environ \in [1..n -> Item(kind)]
    BY DEF AcceptInit
  <2>2. n \in Nat
    BY HeadersAssumption
  <2> QED
    BY <2>1, <2>2 DEF AcceptInit, AcceptInv
<1>2. AcceptInv /\ [AcceptNext]_acceptVars => AcceptInv'
  <2> SUFFICES ASSUME AcceptInv, [AcceptNext]_acceptVars PROVE AcceptInv'
    OBVIOUS
  <2>1. kind \in Kinds /\ kind' = kind /\ Addends[kind] \subseteq Seq(Item(kind))
    BY HeadersAssumption DEF AcceptInv, AcceptNext, Assign, Delete, Augment, acceptVars
  <2>2. CASE Assign
    BY <2>1, <2>2 DEF Assign, AcceptInv
  <2>3. CASE Delete
    BY <2>1, <2>3 DEF Delete, AcceptInv, NoHeader
  <2>4. CASE Augment
    <3>1. PICK b \in Addends[kind], form \in Forms : environ' = Sum(kind, form, environ, b).text
      BY <2>4 DEF Augment
    <3>2. Sum(kind, form, environ, b).text \in Seq(Item(kind))
      BY <2>1, SumIs DEF AcceptInv
    <3> QED
      BY <2>1, <3>1, <3>2 DEF AcceptInv
  <2>5. CASE UNCHANGED acceptVars
    BY <2>5 DEF acceptVars, AcceptInv
  <2> QED
    BY <2>2, <2>3, <2>4, <2>5 DEF AcceptNext
<1> QED
  BY <1>1, <1>2, PTL DEF AcceptSpec

(* A sum has the elements of both operands (SumKeepsElements).              *)
THEOREM AcceptSums == AcceptSpec => []SumKeepsElements
<1>1. AcceptInv => SumKeepsElements
  <2> SUFFICES ASSUME AcceptInv, environ # EmptyText, NEW b \in Addends[kind], NEW form \in Forms
               PROVE  LET s == Sum(kind, form, environ, b)
                          A == Parsed(kind, environ)
                          B == Parsed(kind, b)
                      IN  /\ s.ok
                          /\ Parsed(kind, s.text) = IF form = "right" /\ A # <<>> THEN B \o A ELSE A \o B
                          /\ (Valid(kind, environ) \/ Valid(kind, b)) => Valid(kind, s.text)
    BY DEF SumKeepsElements
  <2>1. environ \in Seq(Item(kind)) /\ b \in Seq(Item(kind))
    BY HeadersAssumption DEF AcceptInv
  <2>2. PICK s : s = Sum(kind, form, environ, b)
    OBVIOUS
  <2> QED
    BY <2>1, <2>2, SumIs
<1> QED
  BY <1>1, AcceptInvariant, PTL

---------------------------------------------------------------------------
(* Language ranges: their truncations.                                      *)

LEMMA FirstOf ==
  ASSUME NEW N \in Nat, NEW I \in SUBSET (1..N), NEW m, m = IF I # {} THEN Min(I) ELSE 0
  PROVE  (I = {} => m = 0) /\ (I # {} => m \in I /\ \A j \in I : m <= j)
<1>1. ASSUME I # {} PROVE m \in I /\ \A j \in I : m <= j
  <2>1. I \in SUBSET Nat
    OBVIOUS
  <2>2. \E x \in I : \A y \in I : x <= y
    BY <1>1, <2>1, Least
  <2> QED
    BY <1>1, <2>2 DEF Min
<1> QED
  BY <1>1

LEMMA HeadTwice ==
  ASSUME NEW X, NEW x \in Seq(X), NEW l \in 0..Len(x), NEW m \in 0..l
  PROVE  SubSeq(SubSeq(x, 1, l), 1, m) = SubSeq(x, 1, m)
<1>1. PICK t \in Seq(X) : t = SubSeq(x, 1, l) /\ Len(t) = l /\ \A j \in 1..l : t[j] = x[j]
  <2>1. SubSeq(x, 1, l) \in Seq(X) /\ Len(SubSeq(x, 1, l)) = l /\ \A j \in 1..l : SubSeq(x, 1, l)[j] = x[j]
    BY ONLY x \in Seq(X), l \in 0..Len(x), CutIn
  <2> QED
    BY <2>1
<1>2. m \in 0..Len(x) /\ m \in 0..Len(t)
  BY <1>1
<1>3. PICK u \in Seq(X) : u = SubSeq(x, 1, m) /\ Len(u) = m /\ \A j \in 1..m : u[j] = x[j]
  <2>1. SubSeq(x, 1, m) \in Seq(X) /\ Len(SubSeq(x, 1, m)) = m /\ \A j \in 1..m : SubSeq(x, 1, m)[j] = x[j]
    BY ONLY x \in Seq(X), <1>2, CutIn
  <2> QED
    BY <2>1
<1>4. PICK v \in Seq(X) : v = SubSeq(t, 1, m) /\ Len(v) = m /\ \A j \in 1..m : v[j] = t[j]
  <2>1. SubSeq(t, 1, m) \in Seq(X) /\ Len(SubSeq(t, 1, m)) = m /\ \A j \in 1..m : SubSeq(t, 1, m)[j] = t[j]
    BY ONLY t \in Seq(X), <1>2, CutIn
  <2> QED
    BY <2>1
<1>5. \A j \in 1..m : u[j] = v[j]
  <2>1. \A j \in 1..m : j \in 1..l
    OBVIOUS
  <2> QED
    BY <2>1, <1>1, <1>3, <1>4
<1>6. u = v
  BY <1>3, <1>4, <1>5, SeqEqual
<1> QED
  BY <1>1, <1>3, <1>4, <1>6

\* L gives the lengths that a range has as it is truncated.
Shrunk(x, l) == IF l < 2 THEN l ELSE IF x[l - 1] \in Singletons THEN l - 2 ELSE l - 1
Shrinks(L, x) == L[0] = Len(x) /\ \A k \in 1..Len(x) : L[k] = Shrunk(x, L[k - 1])
Shorter(t)    == IF Len(t) < 2 THEN t ELSE Cut(t)

LEMMA ShorterIs ==
  ASSUME NEW X, NEW x \in Seq(X), NEW l \in 0..Len(x)
  PROVE  Shorter(SubSeq(x, 1, l)) = SubSeq(x, 1, Shrunk(x, l)) /\ Shrunk(x, l) \in 0..Len(x)
<1>1. PICK t \in Seq(X) : t = SubSeq(x, 1, l) /\ Len(t) = l /\ \A j \in 1..l : t[j] = x[j]
  <2>1. SubSeq(x, 1, l) \in Seq(X) /\ Len(SubSeq(x, 1, l)) = l /\ \A j \in 1..l : SubSeq(x, 1, l)[j] = x[j]
    BY ONLY x \in Seq(X), l \in 0..Len(x), CutIn
  <2> QED
    BY <2>1
<1>2. CASE l < 2
  BY <1>1, <1>2 DEF Shorter, Shrunk
<1>3. CASE ~(l < 2)
  <2>1. l - 1 \in 1..l /\ l - 1 \in 0..l /\ l - 2 \in 0..l /\ l - 1 \in 0..Len(x) /\ l - 2 \in 0..Len(x)
    BY <1>3
  <2>2. t[l - 1] = x[l - 1]
    BY <1>1, <2>1
  <2>3. Shorter(t) = IF x[l - 1] \in Singletons THEN SubSeq(t, 1, l - 2) ELSE SubSeq(t, 1, l - 1)
    BY <1>1, <1>3, <2>2 DEF Shorter, Cut
  <2>4. SubSeq(t, 1, l - 2) = SubSeq(x, 1, l - 2)
    BY ONLY x \in Seq(X), l \in 0..Len(x), <1>1, <2>1, HeadTwice
  <2>5. SubSeq(t, 1, l - 1) = SubSeq(x, 1, l - 1)
    BY ONLY x \in Seq(X), l \in 0..Len(x), <1>1, <2>1, HeadTwice
  <2>6. CASE x[l - 1] \in Singletons
    BY <1>1, <1>3, <2>1, <2>3, <2>4, <2>6 DEF Shrunk
  <2>7. CASE x[l - 1] \notin Singletons
    BY <1>1, <1>3, <2>1, <2>3, <2>5, <2>7 DEF Shrunk
  <2> QED
    BY <2>6, <2>7
<1> QED
  BY <1>2, <1>3

Truncated(x, L) == [k \in 1..(Len(x) + 1) |-> SubSeq(x, 1, L[k - 1])]

LEMMA TruncationsAre ==
  ASSUME NEW X, NEW x \in Seq(X)
  PROVE  \E L \in [0..Len(x) -> 0..Len(x)] : Shrinks(L, x) /\ Truncations(x) = Truncated(x, L)
<1>1. PICK N \in Nat : N = Len(x)
  OBVIOUS
<1>2. \A l \in 0..N : Shrunk(x, l) \in 0..N
  BY <1>1, ShorterIs
<1>3. PICK step \in [1..N -> [0..N -> 0..N]] : \A k \in 1..N, l \in 0..N : step[k][l] = Shrunk(x, l)
  <2>1. PICK g \in [0..N -> 0..N] : \A l \in 0..N : g[l] = Shrunk(x, l)
    <3>1. [l \in 0..N |-> Shrunk(x, l)] \in [0..N -> 0..N]
      BY <1>2
    <3> QED
      BY <3>1
  <2>2. [k \in 1..N |-> g] \in [1..N -> [0..N -> 0..N]]
    BY <2>1
  <2> QED
    BY <2>1, <2>2
<1>4. N \in 0..N
  OBVIOUS
<1>5. PICK L \in [0..N -> 0..N] : Steps(L, N, N, step)
  BY <1>4, Iterates
<1>6. \A k \in 1..N : k - 1 \in 0..N /\ L[k - 1] \in 0..N
  OBVIOUS
<1>7. Shrinks(L, x)
  BY <1>1, <1>3, <1>5, <1>6 DEF Steps, Shrinks
<1> DEFINE Is(f) == f = [k \in 0..Len(x) |-> IF k = 0 THEN x
                                            ELSE IF Len(f[k - 1]) < 2 THEN f[k - 1] ELSE Cut(f[k - 1])]
           h == [k \in 0..Len(x) |-> SubSeq(x, 1, L[k])]
<1>8. Is(h)
  <2>1. ASSUME NEW k \in 0..N
        PROVE  h[k] = IF k = 0 THEN x ELSE IF Len(h[k - 1]) < 2 THEN h[k - 1] ELSE Cut(h[k - 1])
    <3>1. CASE k = 0
      <4>1. h[k] = SubSeq(x, 1, Len(x))
        BY <3>1, <1>1, <1>7 DEF Shrinks
      <4> QED
        BY <3>1, <4>1, SubSeqFull
    <3>2. CASE k # 0
      <4>1. k \in 1..N /\ k - 1 \in 0..N /\ k \in 0..Len(x) /\ k - 1 \in 0..Len(x)
        BY <3>2, <1>1
      <4>2. h[k] = SubSeq(x, 1, L[k]) /\ h[k - 1] = SubSeq(x, 1, L[k - 1])
        BY <4>1
      <4> HIDE DEF h
      <4>3. L[k] = Shrunk(x, L[k - 1])
        BY <4>1, <1>1, <1>7 DEF Shrinks
      <4>4. PICK l \in 0..Len(x) : l = L[k - 1]
        BY <4>1, <1>1
      <4>5. Shorter(SubSeq(x, 1, l)) = SubSeq(x, 1, Shrunk(x, l))
        BY ShorterIs
      <4>6. h[k] = Shorter(h[k - 1])
        BY <4>2, <4>3, <4>4, <4>5
      <4> QED
        BY <4>6, <3>2 DEF Shorter
    <3> QED
      BY <3>1, <3>2
  <2> QED
    BY <2>1, <1>1
<1>9. Is(CHOOSE f : Is(f))
  BY ONLY <1>8
<1>10. PICK f : f = (CHOOSE g : Is(g)) /\ Is(f)
  BY <1>9
<1>11. Truncations(x) = [k \in 1..(Len(x) + 1) |-> f[k - 1]]
  BY <1>10 DEF Truncations
<1>12. \A k \in 0..N : f[k] = IF k = 0 THEN x ELSE Shorter(f[k - 1])
  BY <1>1, <1>10 DEF Shorter
<1>13. \A k \in 0..N : h[k] = IF k = 0 THEN x ELSE Shorter(h[k - 1])
  BY <1>1, <1>8 DEF Shorter
<1>14. \A k \in 0..N : h[k] = SubSeq(x, 1, L[k])
  BY <1>1
<1> HIDE DEF Is, h
<1>15. PICK T : T = {k \in 0..N : f[k] = h[k]}
  OBVIOUS
<1>16. 0 \in T
  BY <1>12, <1>13, <1>15
<1>17. ASSUME NEW k \in 1..N, k - 1 \in T PROVE k \in T
  <2>1. f[k - 1] = h[k - 1] /\ k \in 0..N /\ k # 0
    BY <1>15, <1>17
  <2>2. f[k] = h[k]
    BY <2>1, <1>12, <1>13
  <2> QED
    BY <2>1, <2>2, <1>15
<1>18. \A k \in 0..N : k \in T
  BY <1>16, <1>17, UpTo
<1>19. \A k \in 0..N : f[k] = SubSeq(x, 1, L[k])
  BY <1>14, <1>15, <1>18
<1>20. \A k \in 1..(N + 1) : k - 1 \in 0..N
  OBVIOUS
<1>21. Truncations(x) = Truncated(x, L)
  BY <1>1, <1>11, <1>19, <1>20 DEF Truncated
<1> QED
  BY <1>1, <1>7, <1>21

\* They only shrink, reach every length but those that a singleton would end,
\* and end with one subtag or none.
LEMMA ShrinksDown ==
  ASSUME NEW X, NEW x \in Seq(X), NEW L \in [0..Len(x) -> 0..Len(x)], Shrinks(L, x),
         NEW a \in 0..Len(x), NEW c \in 0..Len(x), a <= c
  PROVE  L[c] <= L[a]
<1>1. PICK N \in Nat : N = Len(x)
  OBVIOUS
<1>2. PICK T : T = {k \in 0..N : k < a \/ L[k] <= L[a]}
  OBVIOUS
<1>3. \A k \in 0..N : L[k] \in 0..N
  BY <1>1
<1>4. 0 \in T
  <2>1. 0 \in 0..N /\ (0 < a \/ 0 = a)
    BY <1>1
  <2>2. L[0] <= L[0]
    BY <1>3
  <2> QED
    BY <2>1, <2>2, <1>2
<1>5. ASSUME NEW k \in 1..N, k - 1 \in T PROVE k \in T
  <2>1. k \in 0..N /\ k - 1 \in 0..N
    OBVIOUS
  <2>2. PICK l \in 0..N, m \in 0..N, s \in 0..N : l = L[k - 1] /\ m = L[k] /\ s = L[a]
    BY <1>1, <1>3, <2>1
  <2>3. m = Shrunk(x, l)
    BY <1>1, <2>2 DEF Shrinks
  <2>4. m <= l
    BY <2>3 DEF Shrunk
  <2>5. k - 1 < a \/ l <= s
    BY <1>2, <1>5, <2>2
  <2>6. CASE l <= s
    BY <2>6, <2>4, <2>1, <2>2, <1>2
  <2>7. CASE k - 1 < a
    <3>1. k < a \/ k = a
      BY <2>7, <1>1
    <3>2. CASE k < a
      BY <3>2, <2>1, <1>2
    <3>3. CASE k = a
      <4>1. m <= s
        BY <3>3, <2>2
      <4> QED
        BY <4>1, <2>1, <2>2, <1>2
    <3> QED
      BY <3>1, <3>2, <3>3
  <2> QED
    BY <2>5, <2>6, <2>7
<1>6. \A k \in 0..N : k \in T
  BY <1>4, <1>5, UpTo
<1>7. c \in T /\ ~(c < a)
  BY <1>1, <1>6
<1> QED
  BY <1>2, <1>7

LEMMA ShrinksTo ==
  ASSUME NEW X, NEW x \in Seq(X), NEW L \in [0..Len(x) -> 0..Len(x)], Shrinks(L, x),
         NEW m \in 1..Len(x), m = Len(x) \/ x[m] \notin Singletons
  PROVE  \E k \in 0..Len(x) : L[k] = m
<1>1. PICK N \in Nat : N = Len(x)
  OBVIOUS
<1>2. \A k \in 0..N : L[k] \in 0..N
  BY <1>1
<1>3. PICK T : T = {k \in 0..N : (\E j \in 0..N : L[j] = m) \/ (m < L[k] /\ L[k] <= N - k)}
  OBVIOUS
<1>4. 0 \in T
  <2>1. L[0] = N /\ 0 \in 0..N
    BY <1>1 DEF Shrinks
  <2>2. m = N \/ m < N
    BY <1>1
  <2> QED
    BY <2>1, <2>2, <1>3
<1>5. ASSUME NEW k \in 1..N, k - 1 \in T PROVE k \in T
  <2>1. k \in 0..N /\ k - 1 \in 0..N
    OBVIOUS
  <2>2. SUFFICES ASSUME m < L[k - 1], L[k - 1] <= N - (k - 1), ~\E j \in 0..N : L[j] = m
                 PROVE  m < L[k] /\ L[k] <= N - k
    BY <2>1, <1>3, <1>5
  <2>3. PICK l \in 0..N, n \in 0..N : l = L[k - 1] /\ n = L[k]
    BY <1>2, <2>1
  <2>4. n = Shrunk(x, l)
    BY <1>1, <2>3 DEF Shrinks
  <2>5. ~(l < 2) /\ m < l /\ l <= N - (k - 1)
    BY <2>2, <2>3
  <2>6. n # m
    BY <2>1, <2>2, <2>3
  <2>7. n = l - 1 \/ (n = l - 2 /\ x[l - 1] \in Singletons)
    BY <2>4, <2>5 DEF Shrunk
  <2>8. m < n
    <3>1. CASE n = l - 1
      BY <3>1, <2>5, <2>6
    <3>2. CASE n = l - 2 /\ x[l - 1] \in Singletons
      <4>1. l - 1 # m
        <5> SUFFICES ASSUME l - 1 = m PROVE FALSE
          OBVIOUS
        <5>1. m # N
          BY <2>3, <2>5
        <5> QED
          BY <5>1, <3>2, <1>1
      <4> QED
        BY <4>1, <3>2, <2>5, <2>6
    <3> QED
      BY <3>1, <3>2, <2>7
  <2> QED
    BY <2>3, <2>5, <2>7, <2>8
<1>6. \A k \in 0..N : k \in T
  BY <1>4, <1>5, UpTo
<1>7. N \in T
  BY <1>6
<1>8. ~(m < L[N] /\ L[N] <= N - N)
  BY <1>2
<1> QED
  BY <1>1, <1>3, <1>7, <1>8

LEMMA ShrinksApart ==
  ASSUME NEW X, NEW x \in Seq(X), NEW L \in [0..Len(x) -> 0..Len(x)], Shrinks(L, x), Separate(x),
         NEW k \in 0..Len(x)
  PROVE  L[k] = Len(x) \/ L[k] = 0 \/ x[L[k]] \notin Singletons
<1>1. PICK N \in Nat : N = Len(x)
  OBVIOUS
<1>2. \A j \in 0..N : L[j] \in 0..N
  BY <1>1
<1>3. PICK T : T = {j \in 0..N : L[j] = N \/ L[j] = 0 \/ x[L[j]] \notin Singletons}
  OBVIOUS
<1>4. 0 \in T
  BY <1>1, <1>3 DEF Shrinks
<1>5. ASSUME NEW j \in 1..N, j - 1 \in T PROVE j \in T
  <2>1. j \in 0..N /\ j - 1 \in 0..N
    OBVIOUS
  <2>2. PICK l \in 0..N, n \in 0..N : l = L[j - 1] /\ n = L[j]
    BY <1>2, <2>1
  <2>3. n = Shrunk(x, l)
    BY <1>1, <2>2 DEF Shrinks
  <2>4. l = N \/ l = 0 \/ x[l] \notin Singletons
    BY <1>3, <1>5, <2>2
  <2>5. n = N \/ n = 0 \/ x[n] \notin Singletons
    <3>1. CASE l < 2
      BY <3>1, <2>3, <2>4 DEF Shrunk
    <3>2. CASE ~(l < 2) /\ x[l - 1] \notin Singletons
      BY <3>2, <2>3 DEF Shrunk
    <3>3. CASE ~(l < 2) /\ x[l - 1] \in Singletons
      <4>1. n = l - 2
        BY <3>3, <2>3 DEF Shrunk
      <4>2. CASE l = 2
        BY <4>1, <4>2
      <4>3. CASE l # 2
        <5>1. l - 2 \in 1..(N - 1) /\ (l - 2) + 1 = l - 1
          BY <3>3, <4>3
        <5>2. x[l - 2] \notin Singletons
          BY <5>1, <3>3, <1>1 DEF Separate
        <5> QED
          BY <5>2, <4>1
      <4> QED
        BY <4>2, <4>3
    <3> QED
      BY <3>1, <3>2, <3>3
  <2> QED
    BY <2>1, <2>2, <2>5, <1>3
<1>6. \A j \in 0..N : j \in T
  BY <1>4, <1>5, UpTo
<1> QED
  BY <1>1, <1>3, <1>6

---------------------------------------------------------------------------
(* best_match of lookup.                                                    *)

Suits(t, tags, refused) == t \notin refused /\ \E i \in 1..Len(tags) : tags[i] = t
CutsOf(x) == {x} \cup {t \in Heads(x) : t[Len(t)] \notin Singletons}

LEMMA BestMatchAt ==
  ASSUME NEW X, NEW x \in Seq(X), NEW L \in [0..Len(x) -> 0..Len(x)], Truncations(x) = Truncated(x, L),
         NEW tags, NEW refused, NEW m, m = BestMatch(x, tags, refused)
  PROVE  \/ /\ m = <<>>
            /\ \A k \in 0..Len(x) : ~Suits(SubSeq(x, 1, L[k]), tags, refused)
         \/ \E a \in 0..Len(x) : /\ m = SubSeq(x, 1, L[a]) /\ Suits(m, tags, refused)
                                 /\ \A k \in 0..Len(x) : Suits(SubSeq(x, 1, L[k]), tags, refused) => a <= k
<1>1. PICK N \in Nat : N = Len(x)
  OBVIOUS
<1>2. PICK ts : ts = Truncations(x)
  OBVIOUS
<1>3. Len(ts) = N + 1 /\ \A k \in 1..(N + 1) : ts[k] = SubSeq(x, 1, L[k - 1])
  <2>1. ts = [k \in 1..(N + 1) |-> SubSeq(x, 1, L[k - 1])]
    BY <1>1, <1>2 DEF Truncated
  <2>2. PICK c \in Nat : c = N + 1
    OBVIOUS
  <2>3. \A k \in 1..c : L[k - 1] \in 0..Len(x)
    <3>1. \A k \in 1..c : k - 1 \in 0..Len(x)
      BY <2>2, <1>1
    <3> QED
      BY <3>1
  <2>4. \A k \in 1..c : SubSeq(x, 1, L[k - 1]) \in Seq(X)
    BY <2>3, CutIn
  <2>5. ts \in [1..c -> Seq(X)] /\ \A k \in 1..c : ts[k] = SubSeq(x, 1, L[k - 1])
    BY <2>1, <2>2, <2>4
  <2>6. Len(ts) = c
    BY ONLY <2>5, c \in Nat
  <2> QED
    BY <2>2, <2>5, <2>6
<1>4. PICK I \in SUBSET (1..(N + 1)) : I = {k \in 1..(N + 1) : Suits(ts[k], tags, refused)}
  <2>1. {k \in 1..(N + 1) : Suits(ts[k], tags, refused)} \in SUBSET (1..(N + 1))
    OBVIOUS
  <2> QED
    BY <2>1
<1>5. PICK z : z = IF I # {} THEN Min(I) ELSE 0
  OBVIOUS
<1>6. m = IF z = 0 THEN <<>> ELSE ts[z]
  <2>1. SelectInSeq(ts, LAMBDA t : t \notin refused /\ \E i \in 1..Len(tags) : tags[i] = t) = z
    BY <1>3, <1>4, <1>5 DEF SelectInSeq, Suits
  <2> QED
    BY <2>1, <1>2 DEF BestMatch
<1>7. (I = {} => z = 0) /\ (I # {} => z \in I /\ \A j \in I : z <= j)
  <2>1. N + 1 \in Nat
    OBVIOUS
  <2> QED
    BY ONLY <2>1, I \in SUBSET (1..(N + 1)), <1>5, FirstOf
<1>8. \A k \in 0..N : k + 1 \in 1..(N + 1) /\ (k + 1) - 1 = k
  OBVIOUS
<1>9. \A k \in 0..N : k + 1 \in I <=> Suits(SubSeq(x, 1, L[k]), tags, refused)
  BY <1>3, <1>4, <1>8
<1>10. CASE I = {}
  BY <1>1, <1>6, <1>7, <1>9, <1>10
<1>11. CASE I # {}
  <2>1. z \in 1..(N + 1) /\ z # 0 /\ z - 1 \in 0..N
    <3>1. z \in 1..(N + 1)
      BY <1>7, <1>11
    <3> QED
      BY ONLY <3>1, N \in Nat
  <2>2. m = SubSeq(x, 1, L[z - 1]) /\ Suits(m, tags, refused)
    BY <2>1, <1>3, <1>4, <1>6, <1>7, <1>11
  <2>3. ASSUME NEW k \in 0..N, Suits(SubSeq(x, 1, L[k]), tags, refused) PROVE z - 1 <= k
    <3>1. z <= k + 1
      BY <2>3, <1>7, <1>9, <1>11
    <3> QED
      BY <3>1, <2>1
  <2> QED
    BY <2>1, <2>2, <2>3, <1>1
<1> QED
  BY <1>10, <1>11

LEMMA BestMatchIs ==
  ASSUME NEW X, NEW x \in Seq(X), x # <<>>, NEW tags, NEW refused, NEW m, m = BestMatch(x, tags, refused)
  PROVE  /\ m # <<>> => m \in Heads(x) /\ Suits(m, tags, refused)
         /\ Separate(x) /\ m # <<>> => m \in CutsOf(x)
         /\ \A t \in CutsOf(x) : Suits(t, tags, refused) /\ ~Suits(<<>>, tags, refused) => m # <<>> /\ Len(t) <= Len(m)
<1>1. PICK L \in [0..Len(x) -> 0..Len(x)] : Shrinks(L, x) /\ Truncations(x) = Truncated(x, L)
  BY TruncationsAre
<1>2. PICK N \in Nat : N = Len(x)
  OBVIOUS
<1>3. N # 0 /\ \A k \in 0..N : L[k] \in 0..N
  BY <1>2
<1>4. ASSUME NEW l \in 0..N
      PROVE  /\ Len(SubSeq(x, 1, l)) = l /\ \A j \in 1..l : SubSeq(x, 1, l)[j] = x[j]
             /\ SubSeq(x, 1, l) \in Seq(X)
  BY ONLY x \in Seq(X), l \in 0..N, <1>2, CutIn
<1>5. SubSeq(x, 1, N) = x
  BY <1>2, SubSeqFull
<1>6. \/ /\ m = <<>>
         /\ \A k \in 0..N : ~Suits(SubSeq(x, 1, L[k]), tags, refused)
      \/ \E a \in 0..N : /\ m = SubSeq(x, 1, L[a]) /\ Suits(m, tags, refused)
                         /\ \A k \in 0..N : Suits(SubSeq(x, 1, L[k]), tags, refused) => a <= k
  BY <1>1, <1>2, BestMatchAt
<1>7. ASSUME m # <<>> PROVE m \in Heads(x) /\ Suits(m, tags, refused) /\ (Separate(x) => m \in CutsOf(x))
  <2>1. PICK a \in 0..N : m = SubSeq(x, 1, L[a]) /\ Suits(m, tags, refused)
    BY <1>6, <1>7
  <2>2. PICK l \in 0..N : l = L[a]
    BY <1>3
  <2>3. m = SubSeq(x, 1, l) /\ Len(m) = l
    BY <2>1, <2>2, <1>4
  <2>4. m \in Heads(x)
    BY <2>3, <1>2, <1>7 DEF Heads, Prefixes
  <2>5. ASSUME Separate(x) PROVE m \in CutsOf(x)
    <3>1. l # 0
      BY <2>3, <1>4, <1>7
    <3>2. l = N \/ x[l] \notin Singletons
      BY <2>2, <2>5, <3>1, <1>1, <1>2, ShrinksApart
    <3>3. CASE l = N
      BY <3>3, <2>3, <1>5 DEF CutsOf
    <3>4. CASE x[l] \notin Singletons
      <4>1. m[l] = x[l]
        BY <2>3, <3>1, <1>4
      <4> QED
        BY <4>1, <3>4, <2>3, <2>4 DEF CutsOf
    <3> QED
      BY <3>2, <3>3, <3>4
  <2> QED
    BY <2>1, <2>4, <2>5
<1>8. ASSUME NEW t \in CutsOf(x), Suits(t, tags, refused), ~Suits(<<>>, tags, refused)
      PROVE  m # <<>> /\ Len(t) <= Len(m)
  <2>1. PICK c \in 1..N : t = SubSeq(x, 1, c) /\ (c = N \/ x[c] \notin Singletons)
    <3>1. CASE t = x
      <4>1. N \in 1..N
        BY <1>3
      <4> QED
        BY <4>1, <3>1, <1>5
    <3>2. CASE t # x
      <4>1. t \in Heads(x) /\ t[Len(t)] \notin Singletons
        BY <3>2 DEF CutsOf
      <4>2. PICK c \in 0..N : t = SubSeq(x, 1, c) /\ t # <<>>
        BY <4>1, <1>2 DEF Heads, Prefixes
      <4>3. Len(t) = c /\ c # 0
        BY <4>2, <1>4
      <4>4. t[c] = x[c] /\ c \in 1..N
        BY <4>2, <4>3, <1>4
      <4> QED
        BY <4>1, <4>2, <4>3, <4>4
    <3> QED
      BY <3>1, <3>2
  <2>2. PICK k \in 0..N : L[k] = c
    BY <2>1, <1>1, <1>2, ShrinksTo
  <2>3. Suits(SubSeq(x, 1, L[k]), tags, refused)
    BY <2>1, <2>2, <1>8
  <2>4. PICK a \in 0..N : m = SubSeq(x, 1, L[a]) /\ Suits(m, tags, refused) /\ a <= k
    BY <2>3, <1>6
  <2>5. PICK l \in 0..N : l = L[a]
    BY <1>3
  <2>6. c <= l
    BY <2>2, <2>4, <2>5, <1>1, <1>2, ShrinksDown
  <2>7. Len(m) = l /\ Len(t) = c
    BY <2>1, <2>4, <2>5, <1>4
  <2> QED
    BY <2>4, <2>6, <2>7, <1>8
<1> QED
  BY <1>7, <1>8

---------------------------------------------------------------------------
(* The ranges in their order.                                               *)

Rankable(p, among) == {i \in among : p[i].range # Star /\ p[i].q # 0}
Before(p, i, j)    == p[i].q > p[j].q \/ (p[i].q = p[j].q /\ i < j)
Ranks(r, n, p, S)  ==
  /\ r \in [1..n -> S]
  /\ \A i \in S : \E k \in 1..n : r[k] = i
  /\ \A a, c \in 1..n : a < c => Before(p, r[a], r[c])

LEMMA RankedIs ==
  ASSUME NEW N \in Nat, NEW among \in SUBSET (1..N), NEW p, \A i \in 1..N : p[i].q \in Nat
  PROVE  \E n \in Nat : Ranks(Ranked(p, among), n, p, Rankable(p, among)) /\ Len(Ranked(p, among)) = n
<1>1. PICK S \in SUBSET (1..N) : S = Rankable(p, among)
  <2>1. Rankable(p, among) \in SUBSET (1..N)
    BY DEF Rankable
  <2> QED
    BY <2>1
<1>2. PICK b : b = [j \in S |-> {i \in S : Before(p, i, j)}]
  OBVIOUS
<1>3. Ranked(p, among) = InOrder(S, b)
  BY <1>1, <1>2 DEF Ranked, Rankable, Before
<1>4. \A i \in S : b[i] = {j \in S : Before(p, j, i)}
  BY <1>2
<1>5. Orders(b, S)
  <2>1. \A i \in S : b[i] \in SUBSET S /\ i \notin b[i]
    BY <1>4 DEF Before
  <2>2. ASSUME NEW i \in S, NEW j \in S, j \in b[i] PROVE b[j] \subseteq b[i]
    <3> SUFFICES ASSUME NEW k \in S, Before(p, k, j) PROVE Before(p, k, i)
      BY <1>4
    <3>1. Before(p, j, i) /\ Before(p, k, j)
      BY <2>2, <1>4
    <3>2. p[i].q \in Nat /\ p[j].q \in Nat /\ p[k].q \in Nat
      OBVIOUS
    <3>3. PICK x \in Nat, y \in Nat, z \in Nat : x = p[i].q /\ y = p[j].q /\ z = p[k].q
      BY <3>2
    <3>4. i \in Nat /\ j \in Nat /\ k \in Nat
      BY ONLY S \in SUBSET (1..N), i \in S, j \in S, k \in S
    <3> QED
      BY ONLY <3>1, <3>3, <3>4 DEF Before
  <2>3. ASSUME NEW i \in S, NEW j \in S, i # j PROVE i \in b[j] \/ j \in b[i]
    <3>1. PICK x \in Nat, y \in Nat : x = p[i].q /\ y = p[j].q
      OBVIOUS
    <3> QED
      BY <3>1, <2>3, <1>4 DEF Before
  <2> QED
    BY <2>1, <2>2, <2>3 DEF Orders
<1>6. PICK n \in Nat : n = Cardinality(S) /\ Sorts(InOrder(S, b), n, b, S)
  <2>1. Cardinality(S) \in Nat /\ Sorts(InOrder(S, b), Cardinality(S), b, S)
    BY <1>5, InOrderSorts
  <2> QED
    BY <2>1
<1>7. PICK r : r = Ranked(p, among)
  OBVIOUS
<1>8. r \in [1..n -> S] /\ (\A i \in S : \E k \in 1..n : r[k] = i) /\ \A a, c \in 1..n : a < c => r[a] \in b[r[c]]
  BY <1>3, <1>6, <1>7 DEF Sorts
<1>9. Len(r) = n
  BY ONLY <1>8, n \in Nat
<1>10. \A a, c \in 1..n : a < c => Before(p, r[a], r[c])
  BY <1>4, <1>8
<1> QED
  BY <1>1, <1>7, <1>8, <1>9, <1>10 DEF Ranks

---------------------------------------------------------------------------
(* lookup.                                                                  *)

RefusesOthers(p)    == \E i \in 1..Len(p) : p[i].range = Star /\ p[i].q = 0
Match(p, tags, i)   == BestMatch(p[i].range, tags, Refused(p))
Default(p, tags, r) == IF r = <<>> THEN <<>> ELSE BestMatch(r, tags, Refused(p))

LEMMA LookupIs ==
  ASSUME NEW X, NEW p \in Seq(X), \A i \in 1..Len(p) : p[i].q \in Nat,
         NEW tags, NEW default_range, NEW default_tag,
         NEW answer, answer = Lookup(p, tags, default_range, default_tag)
  PROVE  LET S == Rankable(p, 1..Len(p))
             byRange == Default(p, tags, default_range)
         IN  \/ \E i \in S : /\ answer = Match(p, tags, i) /\ answer # <<>>
                             /\ \A j \in S : Match(p, tags, j) # <<>> /\ j # i => Before(p, i, j)
             \/ /\ \A i \in S : Match(p, tags, i) = <<>>
                /\ answer = IF RefusesOthers(p) THEN <<>> ELSE IF byRange # <<>> THEN byRange
                            ELSE DefaultTag(default_tag, Refused(p))
<1>1. PICK N \in Nat : N = Len(p)
  OBVIOUS
<1>2. PICK S : S = Rankable(p, 1..Len(p))
  OBVIOUS
<1>3. PICK r : r = Ranked(p, 1..Len(p))
  OBVIOUS
<1>4. PICK n \in Nat : Ranks(r, n, p, S) /\ Len(r) = n
  BY <1>1, <1>2, <1>3, RankedIs
<1>5. r \in [1..n -> S] /\ (\A i \in S : \E k \in 1..n : r[k] = i) /\ \A a, c \in 1..n : a < c => Before(p, r[a], r[c])
  BY <1>4 DEF Ranks
<1>6. PICK ms : ms = [k \in 1..n |-> Match(p, tags, r[k])]
  OBVIOUS
<1>7. Len(ms) = n /\ \A k \in 1..n : ms[k] = Match(p, tags, r[k])
  BY <1>6
<1>8. PICK I \in SUBSET (1..n) : I = {k \in 1..n : ms[k] # <<>>}
  <2>1. {k \in 1..n : ms[k] # <<>>} \in SUBSET (1..n)
    OBVIOUS
  <2> QED
    BY <2>1
<1>9. PICK hit : hit = IF I # {} THEN Min(I) ELSE 0
  OBVIOUS
<1>10. SelectInSeq(ms, LAMBDA m : m # <<>>) = hit
  BY <1>7, <1>8, <1>9 DEF SelectInSeq
<1>11. answer = IF hit # 0 THEN ms[hit]
                ELSE IF RefusesOthers(p) THEN <<>>
                ELSE IF Default(p, tags, default_range) # <<>> THEN Default(p, tags, default_range)
                ELSE DefaultTag(default_tag, Refused(p))
  <2>1. PICK R : R = Refused(p)
    OBVIOUS
  <2>2. R = {p[i].range : i \in {j \in 1..Len(p) : p[j].q = 0}} \ {Star}
    BY <2>1 DEF Refused
  <2>3. [k \in 1..Len(r) |-> BestMatch(p[r[k]].range, tags, R)] = ms
    BY <2>1, <1>4, <1>6 DEF Match
  <2>4. answer = LET matches == [k \in 1..Len(r) |-> BestMatch(p[r[k]].range, tags, R)]
                     h == SelectInSeq(matches, LAMBDA m : m # <<>>)
                     byRange == IF default_range = <<>> THEN <<>> ELSE BestMatch(default_range, tags, R)
                 IN  IF h # 0 THEN matches[h]
                     ELSE IF \E i \in 1..Len(p) : p[i].range = Star /\ p[i].q = 0 THEN <<>>
                     ELSE IF byRange # <<>> THEN byRange
                     ELSE DefaultTag(default_tag, R)
    BY ONLY <2>2, <1>3, answer = Lookup(p, tags, default_range, default_tag) DEF Lookup
  <2>5. answer = LET byRange == IF default_range = <<>> THEN <<>> ELSE BestMatch(default_range, tags, R)
                 IN  IF hit # 0 THEN ms[hit]
                     ELSE IF \E i \in 1..Len(p) : p[i].range = Star /\ p[i].q = 0 THEN <<>>
                     ELSE IF byRange # <<>> THEN byRange
                     ELSE DefaultTag(default_tag, R)
    BY ONLY <2>3, <2>4, <1>10, SMTT(30)
  <2> QED
    BY <2>1, <2>5 DEF Default, RefusesOthers
<1>12. (I = {} => hit = 0) /\ (I # {} => hit \in I /\ \A j \in I : hit <= j)
  BY ONLY n \in Nat, I \in SUBSET (1..n), <1>9, FirstOf
<1>13. CASE I = {}
  <2>1. ASSUME NEW i \in S PROVE Match(p, tags, i) = <<>>
    <3>1. PICK k \in 1..n : r[k] = i
      BY <1>5
    <3> QED
      BY <3>1, <1>7, <1>8, <1>13
  <2> QED
    BY <2>1, <1>2, <1>11, <1>12, <1>13
<1>14. CASE I # {}
  <2>1. hit \in 1..n /\ hit # 0 /\ ms[hit] # <<>>
    BY <1>8, <1>12, <1>14
  <2>2. PICK i \in S : i = r[hit]
    BY <2>1, <1>5
  <2>3. answer = Match(p, tags, i) /\ answer # <<>>
    BY <2>1, <2>2, <1>7, <1>11
  <2>4. ASSUME NEW j \in S, Match(p, tags, j) # <<>>, j # i PROVE Before(p, i, j)
    <3>1. PICK k \in 1..n : r[k] = j
      BY <1>5
    <3>2. k \in I
      BY <3>1, <2>4, <1>7, <1>8
    <3>3. hit <= k /\ hit # k
      BY <3>1, <3>2, <2>2, <2>4, <1>12, <1>14
    <3>4. hit < k
      BY <3>3, <2>1
    <3> QED
      BY <3>1, <3>4, <2>1, <2>2, <1>5
  <2> QED
    BY <2>2, <2>3, <2>4, <1>2
<1> QED
  BY <1>13, <1>14

(* What a parsed header has: ranges that are words, and weights.            *)
LEMMA ParsedHas ==
  ASSUME NEW k \in Kinds, NEW t \in Seq(Item(k)), NEW p, p = Parsed(k, t)
  PROVE  /\ p \in Seq(Parseds(k))
         /\ \A i \in 1..Len(p) : /\ p[i].range \in Ranges[k]
                                 /\ p[i].range \in Seq(STRING) /\ p[i].range # <<>>
                                 /\ p[i].q \in 0..MaxQ /\ p[i].q \in Nat
<1>1. p \in Seq(Parseds(k))
  BY ParsedIn
<1>2. \A i \in 1..Len(p) : p[i] \in Parseds(k)
  BY <1>1, ElementOfSeq
<1>3. Ranges[k] \subseteq Seq(STRING) \ {<<>>}
  BY HeadersAssumption
<1>4. MaxQ \in Nat
  BY NegotiationAssumption
<1> QED
  BY <1>1, <1>2, <1>3, <1>4 DEF Parseds

LEMMA MatchOf ==
  ASSUME NEW t \in Seq(Item("language")), NEW p, p = Parsed("language", t), NEW tags,
         NEW i \in 1..Len(p), NEW m, m = Match(p, tags, i)
  PROVE  /\ m # <<>> => m \in Heads(p[i].range) /\ Suits(m, tags, Refused(p))
         /\ Separate(p[i].range) /\ m # <<>> => m \in CutsOf(p[i].range)
         /\ \A c \in CutsOf(p[i].range) :
              Suits(c, tags, Refused(p)) /\ ~Suits(<<>>, tags, Refused(p)) => m # <<>> /\ Len(c) <= Len(m)
<1>1. "language" \in Kinds
  BY DEF Kinds
<1>2. PICK x \in Seq(STRING) : x = p[i].range /\ x # <<>>
  BY <1>1, ParsedHas
<1>3. PICK refused : refused = Refused(p)
  OBVIOUS
<1>4. m = BestMatch(x, tags, refused)
  BY <1>2, <1>3 DEF Match
<1>5. /\ m # <<>> => m \in Heads(x) /\ Suits(m, tags, refused)
      /\ Separate(x) /\ m # <<>> => m \in CutsOf(x)
      /\ \A c \in CutsOf(x) : Suits(c, tags, refused) /\ ~Suits(<<>>, tags, refused) => m # <<>> /\ Len(c) <= Len(m)
  BY ONLY x \in Seq(STRING), <1>2, <1>4, BestMatchIs
<1> QED
  BY <1>2, <1>3, <1>5

LEMMA DefaultOf ==
  ASSUME NEW p, NEW tags, NEW r \in Defaults, NEW m, m = Default(p, tags, r)
  PROVE  m # <<>> => Suits(m, tags, Refused(p))
<1>1. CASE r = <<>>
  BY <1>1 DEF Default
<1>2. CASE r # <<>>
  <2>1. PICK x \in Seq(STRING) : x = r /\ x # <<>>
    BY <1>2, HeadersAssumption DEF Defaults, Kinds
  <2>2. PICK refused : refused = Refused(p)
    OBVIOUS
  <2>3. m = BestMatch(x, tags, refused)
    BY <2>1, <2>2 DEF Default
  <2>4. m # <<>> => Suits(m, tags, refused)
    BY ONLY x \in Seq(STRING), <2>1, <2>3, BestMatchIs
  <2> QED
    BY <2>2, <2>4
<1> QED
  BY <1>1, <1>2

(* Nothing that a header refuses by name is served, and nothing that it does *)
(* not name where it refuses all others (NeverServesRefused).               *)
THEOREM AcceptServesNothingRefused == AcceptSpec => []NeverServesRefused
<1>1. AcceptInv => NeverServesRefused
  <2> SUFFICES ASSUME AcceptInv, kind = "language", Valid(kind, environ),
                      NEW p, p = Parsed(kind, environ),
                      NEW tags \in OfferLists, NEW r \in Defaults, NEW d \in Defaults,
                      NEW a, a = LookedUp(environ, tags, r, d)
               PROVE  /\ a \notin Refused(p)
                      /\ (\E i \in 1..Len(p) : p[i].range = Star /\ p[i].q = 0)
                           => a \in (UNION {Heads(p[i].range) : i \in 1..Len(p)}) \cup {<<>>}
    BY DEF NeverServesRefused
  <2>1. environ \in Seq(Item("language")) /\ p = Parsed("language", environ) /\ "language" \in Kinds
    BY DEF AcceptInv
  <2>2. /\ p \in Seq(Parseds("language"))
        /\ \A i \in 1..Len(p) : p[i].range # <<>> /\ p[i].q \in Nat
    BY <2>1, ParsedHas
  <2>3. <<>> \notin Refused(p)
    BY <2>2 DEF Refused
  <2>4. a = Lookup(p, tags, r, d)
    BY <2>1 DEF LookedUp
  <2>5. CASE \E i \in Rankable(p, 1..Len(p)) : a = Match(p, tags, i) /\ a # <<>>
    <3>1. PICK i \in 1..Len(p) : a = Match(p, tags, i) /\ a # <<>>
      BY <2>5 DEF Rankable
    <3>2. a \in Heads(p[i].range) /\ Suits(a, tags, Refused(p))
      BY <2>1, <3>1, MatchOf
    <3> QED
      BY <3>2 DEF Suits
  <2>6. CASE a = IF RefusesOthers(p) THEN <<>> ELSE IF Default(p, tags, r) # <<>> THEN Default(p, tags, r)
                 ELSE DefaultTag(d, Refused(p))
    <3>1. CASE RefusesOthers(p)
      BY <2>3, <2>6, <3>1
    <3>2. CASE ~RefusesOthers(p) /\ Default(p, tags, r) # <<>>
      <4>1. Suits(a, tags, Refused(p))
        BY <2>6, <3>2, DefaultOf
      <4> QED
        BY <3>2, <4>1 DEF Suits, RefusesOthers
    <3>3. CASE ~RefusesOthers(p) /\ Default(p, tags, r) = <<>>
      BY <2>3, <2>6, <3>3 DEF DefaultTag, RefusesOthers
    <3> QED
      BY <3>1, <3>2, <3>3
  <2> QED
    BY <2>2, <2>4, <2>5, <2>6, LookupIs
<1> QED
  BY <1>1, AcceptInvariant, PTL

(* The tags offered, as functions of their places.                          *)
LEMMA OfferedTags ==
  ASSUME NEW k, k = kind, kind \in Kinds, NEW tags \in OfferLists, NEW refused
  PROVE  /\ tags \in Seq(Offers[k]) /\ DOMAIN tags = 1..Len(tags)
         /\ \A t : Suits(t, tags, refused) <=> t \in Members(tags) \ refused
         /\ ~Suits(<<>>, tags, refused)
<1>1. PICK n \in Nat : tags \in [1..n -> Offers[k]]
  BY HeadersAssumption DEF OfferLists
<1>2. Len(tags) = n
  BY ONLY <1>1, n \in Nat
<1>3. \A i \in 1..n : tags[i] # <<>>
  BY <1>1, HeadersAssumption
<1>4. tags \in Seq(Offers[k])
  BY ONLY <1>1, n \in Nat
<1> QED
  BY <1>1, <1>2, <1>3, <1>4 DEF Suits, Members

Reach(p, tags, i) == (CutsOf(p[i].range) \cap Members(tags)) \ Refused(p)
Hits(p, tags)     == {i \in 1..Len(p) : p[i].range # Star /\ p[i].q # 0 /\ Reach(p, tags, i) # {}}

LEMMA HitsAre ==
  ASSUME kind = "language", NEW t \in Seq(Item("language")), NEW p, p = Parsed("language", t),
         NEW tags \in OfferLists, \A i \in 1..Len(p) : Separate(p[i].range)
  PROVE  /\ Hits(p, tags) = {i \in Rankable(p, 1..Len(p)) : Match(p, tags, i) # <<>>}
         /\ \A i \in Hits(p, tags) :
              /\ Match(p, tags, i) \in Reach(p, tags, i)
              /\ \A c \in Reach(p, tags, i) : Len(c) <= Len(Match(p, tags, i))
<1>1. kind \in Kinds
  BY DEF Kinds
<1>2. /\ \A c : Suits(c, tags, Refused(p)) <=> c \in Members(tags) \ Refused(p)
      /\ ~Suits(<<>>, tags, Refused(p))
  BY <1>1, OfferedTags
<1>3. ASSUME NEW i \in 1..Len(p)
      PROVE  /\ Reach(p, tags, i) # {} <=> Match(p, tags, i) # <<>>
             /\ Match(p, tags, i) # <<>> => Match(p, tags, i) \in Reach(p, tags, i)
             /\ \A c \in Reach(p, tags, i) : Len(c) <= Len(Match(p, tags, i))
  <2>1. PICK m : m = Match(p, tags, i)
    OBVIOUS
  <2>2. /\ m # <<>> => m \in Heads(p[i].range) /\ Suits(m, tags, Refused(p))
        /\ Separate(p[i].range) /\ m # <<>> => m \in CutsOf(p[i].range)
        /\ \A c \in CutsOf(p[i].range) :
             Suits(c, tags, Refused(p)) /\ ~Suits(<<>>, tags, Refused(p)) => m # <<>> /\ Len(c) <= Len(m)
    BY <2>1, MatchOf
  <2> QED
    BY <1>2, <2>1, <2>2 DEF Reach
<1> QED
  BY <1>3 DEF Hits, Rankable

(* lookup cuts the best range that has a truncation among the tags, and     *)
(* answers with the longest of them (LookupAsSpecified).                    *)
THEOREM AcceptLooksUp == AcceptSpec => []LookupAsSpecified
<1>1. AcceptInv => LookupAsSpecified
  <2> SUFFICES ASSUME AcceptInv, kind = "language",
                      NEW p, p = Parsed(kind, environ), NEW tags \in OfferLists,
                      Hits(p, tags) # {}, \A i \in 1..Len(p) : Separate(p[i].range),
                      NEW r \in Defaults, NEW d \in Defaults,
                      NEW a, a = LookedUp(environ, tags, r, d)
               PROVE  /\ a \in Reach(p, tags, Best(p, Hits(p, tags)))
                      /\ \A t \in Reach(p, tags, Best(p, Hits(p, tags))) : Len(t) <= Len(a)
    BY DEF LookupAsSpecified, Hits, Reach, CutsOf
  <2>1. environ \in Seq(Item("language")) /\ p = Parsed("language", environ) /\ "language" \in Kinds
    BY DEF AcceptInv
  <2>2. /\ p \in Seq(Parseds("language"))
        /\ \A i \in 1..Len(p) : p[i].q \in Nat
    BY <2>1, ParsedHas
  <2>3. PICK H : H = Hits(p, tags)
    OBVIOUS
  <2>4. H = {i \in Rankable(p, 1..Len(p)) : Match(p, tags, i) # <<>>}
    BY <2>1, <2>3, HitsAre
  <2>5. \A i \in H : /\ Match(p, tags, i) \in Reach(p, tags, i)
                     /\ \A c \in Reach(p, tags, i) : Len(c) <= Len(Match(p, tags, i))
    BY <2>1, <2>3, HitsAre
  <2>6. a = Lookup(p, tags, r, d)
    <3>1. p # <<>>
      BY <2>3 DEF Hits
    <3> QED
      BY <2>1, <3>1 DEF LookedUp, Parsed
  <2>7. PICK i \in H : a = Match(p, tags, i) /\ \A j \in H : j # i => Before(p, i, j)
    <3>1. \E i \in Rankable(p, 1..Len(p)) :
             /\ a = Match(p, tags, i) /\ a # <<>>
             /\ \A j \in Rankable(p, 1..Len(p)) : Match(p, tags, j) # <<>> /\ j # i => Before(p, i, j)
      BY <2>2, <2>3, <2>4, <2>6, LookupIs
    <3> QED
      BY <2>4, <3>1
  <2>8. Best(p, H) = i
    <3>1. H \subseteq 1..Len(p)
      BY <2>4 DEF Rankable
    <3>2. \A j \in H : Better(p, i, j)
      BY <2>2, <2>7, <3>1 DEF Before, Better
    <3>3. ASSUME NEW b \in H, \A j \in H : Better(p, b, j) PROVE b = i
      <4> SUFFICES ASSUME b # i PROVE FALSE
        OBVIOUS
      <4>1. Better(p, b, i) /\ Before(p, i, b)
        BY <2>7, <3>3
      <4>2. PICK x \in Nat, y \in Nat : x = p[i].q /\ y = p[b].q
        BY <2>2, <3>1
      <4>3. i \in Nat /\ b \in Nat
        BY <3>1
      <4> QED
        BY ONLY <4>1, <4>2, <4>3, b # i DEF Before, Better
    <3> QED
      BY <3>2, <3>3 DEF Best
  <2> QED
    BY <2>3, <2>5, <2>7, <2>8
<1> QED
  BY <1>1, AcceptInvariant, PTL

---------------------------------------------------------------------------
(* Answers that list offers by their weight.                                *)

Ahead(e, i, j) ==
  \/ e[i].q > e[j].q
  \/ e[i].q = e[j].q /\ e[i].at < e[j].at
  \/ e[i].q = e[j].q /\ e[i].at = e[j].at /\ i < j

Lists(found, at, n, I, e) ==
  /\ at \in [1..n -> I]
  /\ \A i \in I : \E k \in 1..n : at[k] = i
  /\ found = [k \in 1..n |-> [offer |-> e[at[k]].offer, q |-> e[at[k]].q]]
  /\ \A a, c \in 1..n : a < c => Ahead(e, at[a], at[c])

LEMMA AheadOrders ==
  ASSUME NEW n \in Nat, NEW es, \A k \in 1..n : es[k].q \in Nat /\ es[k].at \in Nat,
         NEW b, b = [j \in 1..n |-> {i \in 1..n : Ahead(es, i, j)}]
  PROVE  Orders(b, 1..n)
<1>1. \A i \in 1..n : b[i] = {j \in 1..n : Ahead(es, j, i)}
  OBVIOUS
<1>2. \A i \in 1..n : b[i] \in SUBSET (1..n) /\ i \notin b[i]
  BY <1>1 DEF Ahead
<1>3. ASSUME NEW i \in 1..n, NEW j \in 1..n, j \in b[i] PROVE b[j] \subseteq b[i]
  <2> SUFFICES ASSUME NEW k \in 1..n, Ahead(es, k, j) PROVE Ahead(es, k, i)
    BY <1>1
  <2>1. Ahead(es, j, i) /\ Ahead(es, k, j)
    BY <1>3, <1>1
  <2>2. PICK x \in Nat, y \in Nat, z \in Nat : x = es[i].q /\ y = es[j].q /\ z = es[k].q
    OBVIOUS
  <2>3. PICK u \in Nat, v \in Nat, w \in Nat : u = es[i].at /\ v = es[j].at /\ w = es[k].at
    OBVIOUS
  <2>4. i \in Nat /\ j \in Nat /\ k \in Nat
    OBVIOUS
  <2> QED
    BY ONLY <2>1, <2>2, <2>3, <2>4 DEF Ahead
<1>4. ASSUME NEW i \in 1..n, NEW j \in 1..n, i # j PROVE i \in b[j] \/ j \in b[i]
  <2>1. PICK x \in Nat, y \in Nat : x = es[i].q /\ y = es[j].q
    OBVIOUS
  <2>2. PICK u \in Nat, v \in Nat : u = es[i].at /\ v = es[j].at
    OBVIOUS
  <2>3. i \in Nat /\ j \in Nat
    OBVIOUS
  <2>4. Ahead(es, i, j) \/ Ahead(es, j, i)
    BY ONLY <2>1, <2>2, <2>3, i # j DEF Ahead
  <2> QED
    BY <2>4, <1>1
<1> QED
  BY <1>2, <1>3, <1>4 DEF Orders

LEMMA ByWeightIs ==
  ASSUME NEW N \in Nat, NEW I \in SUBSET (1..N), NEW e, \A i \in I : e[i].q \in Nat /\ e[i].at \in Nat,
         NEW n \in Nat, NEW r, Enumerates(r, n, I), NEW es, Len(es) = n,
         \A k \in 1..n : es[k].offer = e[r[k]].offer /\ es[k].q = e[r[k]].q /\ es[k].at = e[r[k]].at,
         NEW found, found = ByWeight(es)
  PROVE  \E at : Lists(found, at, n, I, e)
<1>1. /\ r \in [1..n -> I] /\ (\A i \in I : \E k \in 1..n : r[k] = i)
      /\ \A a, c \in 1..n : a < c => r[a] < r[c]
  BY DEF Enumerates
<1>2. ASSUME NEW k \in 1..n PROVE es[k].q \in Nat /\ es[k].at \in Nat
  <2>1. PICK i \in I : i = r[k]
    BY ONLY <1>1, k \in 1..n
  <2> QED
    BY <2>1
<1>3. PICK b : b = [j \in 1..n |-> {i \in 1..n : Ahead(es, i, j)}]
  OBVIOUS
<1>4. Orders(b, 1..n)
  BY ONLY n \in Nat, <1>2, <1>3, AheadOrders
<1>5. Cardinality(1..n) = n
  BY FS_Interval
<1>6. PICK o : o = InOrder(1..n, b) /\ Sorts(o, n, b, 1..n)
  <2>1. 1..n \in SUBSET (1..n)
    OBVIOUS
  <2>2. Sorts(InOrder(1..n, b), n, b, 1..n)
    BY <1>4, <1>5, <2>1, InOrderSorts
  <2> QED
    BY <2>2
<1>7. o \in [1..n -> 1..n] /\ (\A i \in 1..n : \E k \in 1..n : o[k] = i) /\ \A a, c \in 1..n : a < c => o[a] \in b[o[c]]
  BY <1>6 DEF Sorts
<1>8. \A a, c \in 1..n : a < c => Ahead(es, o[a], o[c])
  BY <1>3, <1>7
<1>9. found = [k \in 1..n |-> [offer |-> es[o[k]].offer, q |-> es[o[k]].q]]
  BY <1>3, <1>6 DEF ByWeight, Ahead
<1>10. PICK at : at = [k \in 1..n |-> r[o[k]]]
  OBVIOUS
<1>11. at \in [1..n -> I] /\ \A k \in 1..n : at[k] = r[o[k]]
  BY <1>1, <1>7, <1>10
<1>12. \A i \in I : \E k \in 1..n : at[k] = i
  <2> SUFFICES ASSUME NEW i \in I PROVE \E k \in 1..n : at[k] = i
    OBVIOUS
  <2>1. PICK j \in 1..n : r[j] = i
    BY <1>1
  <2>2. PICK k \in 1..n : o[k] = j
    BY <1>7
  <2> QED
    BY <2>1, <2>2, <1>11
<1>13. \A k \in 1..n : es[o[k]].offer = e[at[k]].offer /\ es[o[k]].q = e[at[k]].q /\ es[o[k]].at = e[at[k]].at
  <2> SUFFICES ASSUME NEW k \in 1..n
               PROVE es[o[k]].offer = e[at[k]].offer /\ es[o[k]].q = e[at[k]].q /\ es[o[k]].at = e[at[k]].at
    OBVIOUS
  <2>1. PICK j \in 1..n : j = o[k]
    BY <1>7
  <2> QED
    BY <2>1, <1>11
<1>14. found = [k \in 1..n |-> [offer |-> e[at[k]].offer, q |-> e[at[k]].q]]
  BY <1>9, <1>13
<1>15. ASSUME NEW a \in 1..n, NEW c \in 1..n, a < c PROVE Ahead(e, at[a], at[c])
  <2>1. PICK i \in 1..n, j \in 1..n : i = o[a] /\ j = o[c]
    BY <1>7
  <2>2. Ahead(es, i, j) /\ i # j
    <3>1. Ahead(es, i, j)
      BY <1>8, <1>15, <2>1
    <3>2. i \in b[j] /\ j \notin b[j]
      BY <3>1, <1>3, <1>4 DEF Orders
    <3> QED
      BY <3>1, <3>2
  <2>3. i < j => r[i] < r[j]
    BY <1>1
  <2>4. /\ es[i].q = e[at[a]].q /\ es[i].at = e[at[a]].at /\ es[j].q = e[at[c]].q /\ es[j].at = e[at[c]].at
        /\ r[i] = at[a] /\ r[j] = at[c]
    BY <2>1, <1>11, <1>13
  <2> QED
    BY ONLY <2>2, <2>3, <2>4 DEF Ahead
<1> QED
  BY <1>11, <1>12, <1>14, <1>15 DEF Lists

---------------------------------------------------------------------------
(* The weights with which ranges are mentioned first.                       *)

FirstMention(p, i) == \A j \in 1..(i - 1) : p[j].range # p[i].range
Weighs(d, p, n)    == /\ DOMAIN d = {p[i].range : i \in 1..n}
                      /\ \A i \in 1..n : FirstMention(p, i) => d[p[i].range] = p[i].q
Dicts(R, V)        == UNION {[S -> V] : S \in SUBSET R}

LEMMA DictsHave ==
  ASSUME NEW R, NEW V
  PROVE  /\ <<>> \in Dicts(R, V) /\ DOMAIN <<>> = {}
         /\ \A d \in Dicts(R, V) : d = [x \in DOMAIN d |-> d[x]] /\ DOMAIN d \subseteq R
                                   /\ \A x \in DOMAIN d : d[x] \in V
<1>1. <<>> \in [{} -> V] /\ {} \in SUBSET R
  OBVIOUS
<1>2. <<>> \in Dicts(R, V)
  BY <1>1 DEF Dicts
<1>3. ASSUME NEW d \in Dicts(R, V)
      PROVE  d = [x \in DOMAIN d |-> d[x]] /\ DOMAIN d \subseteq R /\ \A x \in DOMAIN d : d[x] \in V
  <2>1. PICK S \in SUBSET R : d \in [S -> V]
    BY DEF Dicts
  <2> QED
    BY <2>1
<1> QED
  BY <1>1, <1>2, <1>3

Grown(e, R, V, d, key, value) ==
  /\ e \in Dicts(R, V) /\ DOMAIN e = DOMAIN d \cup {key} /\ e[key] = value
  /\ \A x \in DOMAIN d : x # key => e[x] = d[x]

LEMMA WithIs ==
  ASSUME NEW R, NEW V, NEW d \in Dicts(R, V), NEW key \in R, NEW value \in V
  PROVE  Grown(With(d, key, value), R, V, d, key, value)
<1>1. PICK e : e = With(d, key, value)
  OBVIOUS
<1>2. DOMAIN d \subseteq R /\ \A x \in DOMAIN d : d[x] \in V
  BY DictsHave
<1>3. PICK S \in SUBSET R : S = DOMAIN d \cup {key}
  BY <1>2
<1>4. e = [x \in S |-> IF x = key THEN value ELSE d[x]]
  BY <1>1, <1>3 DEF With
<1>5. e \in [S -> V]
  BY <1>2, <1>3, <1>4
<1> QED
  BY <1>1, <1>3, <1>4, <1>5 DEF Dicts, Grown

LEMMA NotedIs ==
  ASSUME NEW R, NEW d \in Dicts(R, Nat), NEW x, x.range \in R, x.q \in Nat, NEW e, e = Noted(d, x)
  PROVE  /\ e \in Dicts(R, Nat) /\ DOMAIN e = DOMAIN d \cup {x.range}
         /\ \A y \in DOMAIN d : e[y] = d[y]
         /\ x.range \notin DOMAIN d => e[x.range] = x.q
<1>1. CASE x.range \in DOMAIN d
  BY <1>1 DEF Noted
<1>2. CASE x.range \notin DOMAIN d
  <2>1. PICK key \in R, value \in Nat : key = x.range /\ value = x.q
    OBVIOUS
  <2>2. e = With(d, key, value)
    BY <1>2, <2>1 DEF Noted
  <2>3. /\ e \in Dicts(R, Nat) /\ DOMAIN e = DOMAIN d \cup {key} /\ e[key] = value
        /\ \A y \in DOMAIN d : y # key => e[y] = d[y]
    <3>1. Grown(With(d, key, value), R, Nat, d, key, value)
      BY WithIs
    <3> QED
      BY <2>2, <3>1 DEF Grown
  <2> QED
    BY <1>2, <2>1, <2>3
<1> QED
  BY <1>1, <1>2

LEMMA FirstWeightsIs ==
  ASSUME NEW R, NEW X, NEW p \in Seq(X), \A i \in 1..Len(p) : p[i].range \in R /\ p[i].q \in Nat,
         NEW d, d = FirstWeights(p)
  PROVE  d \in Dicts(R, Nat) /\ Weighs(d, p, Len(p))
<1>1. PICK N \in Nat : N = Len(p)
  OBVIOUS
<1>2. PICK D : D = Dicts(R, Nat)
  OBVIOUS
<1>3. \A i \in 1..N, e \in D : Noted(e, p[i]) \in D
  BY <1>1, <1>2, NotedIs
<1>4. PICK step \in [1..N -> [D -> D]] : \A i \in 1..N, e \in D : step[i][e] = Noted(e, p[i])
  <2>1. [i \in 1..N |-> [e \in D |-> Noted(e, p[i])]] \in [1..N -> [D -> D]]
    BY <1>3
  <2> QED
    BY <2>1
<1>5. <<>> \in D
  BY <1>2, DictsHave
<1>6. PICK h \in [0..N -> D] : Steps(h, N, <<>>, step)
  BY <1>5, Iterates
<1> DEFINE Is(f) == f = [n \in 0..Len(p) |-> IF n = 0 THEN <<>> ELSE Noted(f[n - 1], p[n])]
<1>7. Is(h)
  <2>1. ASSUME NEW n \in 0..N PROVE h[n] = IF n = 0 THEN <<>> ELSE Noted(h[n - 1], p[n])
    <3>1. CASE n = 0
      BY <3>1, <1>6 DEF Steps
    <3>2. CASE n # 0
      <4>1. n \in 1..N /\ n - 1 \in 0..N
        BY <3>2
      <4>2. PICK e \in D : e = h[n - 1]
        BY <4>1
      <4> QED
        BY <3>2, <4>1, <4>2, <1>4, <1>6 DEF Steps
    <3> QED
      BY <3>1, <3>2
  <2> QED
    BY <2>1, <1>1
<1>8. Is(CHOOSE f : Is(f))
  BY ONLY <1>7
<1>9. PICK f : f = (CHOOSE g : Is(g)) /\ Is(f)
  BY <1>8
<1>10. d = f[N]
  BY <1>1, <1>9 DEF FirstWeights
<1>11. f[0] = <<>> /\ \A n \in 1..N : f[n] = Noted(f[n - 1], p[n])
  <2>1. \A n \in 0..N : f[n] = IF n = 0 THEN <<>> ELSE Noted(f[n - 1], p[n])
    BY <1>1, <1>9
  <2> QED
    BY ONLY <2>1, N \in Nat
<1> HIDE DEF Is
<1>12. PICK T : T = {n \in 0..N : f[n] \in D /\ Weighs(f[n], p, n)}
  OBVIOUS
<1>13. 0 \in T
  <2>1. Weighs(<<>>, p, 0)
    BY DictsHave DEF Weighs
  <2> QED
    BY <2>1, <1>5, <1>11, <1>12
<1>14. ASSUME NEW n \in 1..N, n - 1 \in T PROVE n \in T
  <2>1. n - 1 \in 0..N /\ n \in 0..N
    OBVIOUS
  <2>2. PICK c \in D : c = f[n - 1] /\ Weighs(c, p, n - 1)
    BY <1>12, <1>14
  <2>3. PICK e : e = Noted(c, p[n]) /\ e = f[n]
    BY <2>2, <1>11
  <2>4. /\ e \in D /\ DOMAIN e = DOMAIN c \cup {p[n].range}
        /\ \A y \in DOMAIN c : e[y] = c[y]
        /\ p[n].range \notin DOMAIN c => e[p[n].range] = p[n].q
    <3>1. PICK x : x = p[n]
      OBVIOUS
    <3>2. x.range \in R /\ x.q \in Nat
      BY <3>1, <1>1
    <3>3. c \in Dicts(R, Nat) /\ e = Noted(c, x)
      BY <3>1, <2>3, <1>2
    <3>4. /\ e \in Dicts(R, Nat) /\ DOMAIN e = DOMAIN c \cup {x.range}
          /\ \A y \in DOMAIN c : e[y] = c[y]
          /\ x.range \notin DOMAIN c => e[x.range] = x.q
      BY ONLY <3>2, <3>3, NotedIs
    <3> QED
      BY <3>1, <3>4, <1>2
  <2>5. DOMAIN c = {p[i].range : i \in 1..(n - 1)}
    BY <2>2 DEF Weighs
  <2>6. DOMAIN e = {p[i].range : i \in 1..n}
    BY <2>4, <2>5
  <2>7. ASSUME NEW i \in 1..n, FirstMention(p, i) PROVE e[p[i].range] = p[i].q
    <3>1. CASE i = n
      BY <3>1, <2>4, <2>5, <2>7 DEF FirstMention
    <3>2. CASE i # n
      <4>1. i \in 1..(n - 1)
        BY <3>2
      <4> QED
        BY <4>1, <2>2, <2>4, <2>5, <2>7 DEF Weighs
    <3> QED
      BY <3>1, <3>2
  <2>8. Weighs(e, p, n)
    BY <2>6, <2>7 DEF Weighs
  <2> QED
    BY <2>1, <2>3, <2>4, <2>8, <1>12
<1>15. \A n \in 0..N : n \in T
  BY <1>13, <1>14, UpTo
<1> QED
  BY <1>1, <1>2, <1>10, <1>12, <1>15

LEMMA MentionedFirst ==
  ASSUME NEW p, NEW N \in Nat, NEW i \in 1..N
  PROVE  \E j \in 1..N : FirstMention(p, j) /\ p[j].range = p[i].range
<1>1. PICK T \in SUBSET Nat : T = {j \in 1..N : p[j].range = p[i].range}
  <2>1. {j \in 1..N : p[j].range = p[i].range} \in SUBSET Nat
    OBVIOUS
  <2> QED
    BY <2>1
<1>2. PICK j \in T : \A m \in T : j <= m
  BY <1>1, Least
<1>3. FirstMention(p, j) /\ p[j].range = p[i].range
  <2>1. ASSUME NEW m \in 1..(j - 1), p[m].range = p[j].range PROVE FALSE
    <3>1. m \in 1..N /\ ~(j <= m)
      BY <1>1
    <3> QED
      BY <3>1, <2>1, <1>1, <1>2
  <2> QED
    BY <2>1, <1>1 DEF FirstMention
<1> QED
  BY <1>1, <1>3

LEMMA MentionedOnce ==
  ASSUME NEW p, NEW i \in Nat, NEW j \in Nat, i # 0, j # 0,
         FirstMention(p, i), FirstMention(p, j), p[j].range = p[i].range
  PROVE  i = j
<1>1. ~(i < j) /\ ~(j < i)
  BY DEF FirstMention
<1> QED
  BY <1>1

LEMMA CodingWeightIs ==
  ASSUME kind \in {"charset", "encoding"}, Valid(kind, environ),
         NEW R, NEW X, NEW p \in Seq(X), \A i \in 1..Len(p) : p[i].range \in R /\ p[i].q \in Nat, NEW o
  PROVE  Weight(p, o) = CodingWeight(p, o, kind = "encoding") /\ Weight(p, o) \in Nat
<1>1. PICK N \in Nat : N = Len(p)
  OBVIOUS
<1>2. PICK d : d = FirstWeights(p)
  OBVIOUS
<1>3. DOMAIN d = {p[i].range : i \in 1..N} /\ \A i \in 1..N : FirstMention(p, i) => d[p[i].range] = p[i].q
  <2>1. Weighs(d, p, Len(p))
    BY <1>2, FirstWeightsIs
  <2> QED
    BY <2>1, <1>1 DEF Weighs
<1>4. Patterns(o) = <<o, Star>> /\ \A i \in 1..N : Pattern(p, i) = p[i].range
  BY DEF Patterns, Pattern
<1>5. PICK ps : ps = Patterns(o)
  OBVIOUS
<1>6. Len(ps) = 2 /\ ps[1] = o /\ ps[2] = Star
  BY <1>4, <1>5
<1>7. ASSUME NEW i \in 1..N
      PROVE  Decides(p, i, o) <=> /\ FirstMention(p, i)
                                  /\ \/ p[i].range = o
                                     \/ p[i].range = Star /\ \A j \in 1..N : p[j].range # o
  <2>1. Decides(p, i, o) <=>
          \E k \in 1..2 : /\ p[i].range = ps[k]
                          /\ FirstMention(p, i)
                          /\ \A j \in 1..N, m \in 1..(k - 1) : p[j].range # ps[m]
    <3>1. \A j \in 1..(i - 1) : j \in 1..N
      OBVIOUS
    <3>2. Decides(p, i, o) <=>
            \E k \in 1..Len(ps) : /\ Pattern(p, i) = ps[k]
                                  /\ \A j \in 1..(i - 1) : Pattern(p, j) # Pattern(p, i)
                                  /\ \A j \in 1..Len(p), m \in 1..(k - 1) : Pattern(p, j) # ps[m]
      BY ONLY <1>5 DEF Decides
    <3>3. (\A j \in 1..(i - 1) : Pattern(p, j) # Pattern(p, i)) <=> FirstMention(p, i)
      BY <1>4, <3>1 DEF FirstMention
    <3>4. Pattern(p, i) = p[i].range /\ \A j \in 1..N : Pattern(p, j) = p[j].range
      BY <1>4
    <3> QED
      BY ONLY <3>2, <3>3, <3>4, <1>1, <1>6
  <2>2. 1..2 = {1, 2} /\ 1..(1 - 1) = {} /\ 1..(2 - 1) = {1}
    OBVIOUS
  <2> QED
    BY <1>6, <2>1, <2>2
<1>8. PICK ds : ds = {i \in 1..N : Decides(p, i, o)}
  OBVIOUS
<1>9. Weight(p, o) = IF ds # {} THEN p[CHOOSE i \in ds : TRUE].q
                     ELSE IF kind = "encoding" /\ o = Identity THEN MaxQ ELSE 0
  BY <1>1, <1>8 DEF Weight
<1>10. CodingWeight(p, o, kind = "encoding")
         = IF o \in DOMAIN d THEN d[o] ELSE IF Star \in DOMAIN d THEN d[Star]
           ELSE IF kind = "encoding" /\ o = Identity THEN MaxQ ELSE 0
  BY <1>2 DEF CodingWeight
<1>11. ASSUME NEW i \in ds, \A j \in ds : i = j PROVE Weight(p, o) = p[i].q /\ p[i].q \in Nat
  <2>1. (CHOOSE j \in ds : TRUE) = i
    BY <1>11
  <2> QED
    BY <2>1, <1>1, <1>8, <1>9
<1>12. CASE o \in DOMAIN d
  <2>1. PICK j \in 1..N : p[j].range = o
    BY <1>3, <1>12
  <2>2. PICK i \in 1..N : FirstMention(p, i) /\ p[i].range = o
    BY <2>1, MentionedFirst
  <2>3. i \in ds
    BY <2>2, <1>7, <1>8
  <2>4. ASSUME NEW c \in ds PROVE i = c
    <3>1. FirstMention(p, c) /\ p[c].range = p[i].range /\ i \in Nat /\ c \in Nat /\ i # 0 /\ c # 0
      BY <2>2, <1>7, <1>8
    <3> QED
      BY <2>2, <3>1, MentionedOnce
  <2> QED
    BY <2>2, <2>3, <2>4, <1>3, <1>10, <1>11, <1>12
<1>13. CASE o \notin DOMAIN d /\ Star \in DOMAIN d
  <2>1. PICK j \in 1..N : p[j].range = Star
    BY <1>3, <1>13
  <2>2. PICK i \in 1..N : FirstMention(p, i) /\ p[i].range = Star
    BY <2>1, MentionedFirst
  <2>3. i \in ds
    BY <2>2, <1>3, <1>7, <1>8, <1>13
  <2>4. ASSUME NEW c \in ds PROVE i = c
    <3>1. FirstMention(p, c) /\ p[c].range = p[i].range /\ i \in Nat /\ c \in Nat /\ i # 0 /\ c # 0
      BY <2>2, <1>3, <1>7, <1>8, <1>13
    <3> QED
      BY <2>2, <3>1, MentionedOnce
  <2> QED
    BY <2>2, <2>3, <2>4, <1>3, <1>10, <1>11, <1>13
<1>14. CASE o \notin DOMAIN d /\ Star \notin DOMAIN d
  <2>1. ds = {}
    BY <1>3, <1>7, <1>8, <1>14
  <2>2. MaxQ \in Nat
    BY NegotiationAssumption
  <2> QED
    BY <2>1, <2>2, <1>9, <1>10, <1>14
<1> QED
  BY <1>12, <1>13, <1>14

(* What is served, in its order.                                            *)
Serves(found, at, offers, S, p) ==
  /\ at \in [DOMAIN found -> S]
  /\ {at[i] : i \in DOMAIN found} = S
  /\ \A i \in DOMAIN found : found[i] = [offer |-> offers[at[i]], q |-> Weight(p, offers[at[i]])]
  /\ \A i, j \in DOMAIN found :
       i < j => \/ Weight(p, offers[at[i]]) > Weight(p, offers[at[j]])
                \/ Weight(p, offers[at[i]]) = Weight(p, offers[at[j]]) /\ at[i] < at[j]

LEMMA ListsServe ==
  ASSUME NEW N \in Nat, NEW S \in SUBSET (1..N), NEW n \in Nat, NEW offers, NEW p, NEW e, NEW at, NEW found,
         Lists(found, at, n, S, e),
         \A i \in S : /\ e[i].offer = offers[i] /\ e[i].q = Weight(p, offers[i]) /\ e[i].at = i
                      /\ Weight(p, offers[i]) \in Nat
  PROVE  Serves(found, at, offers, S, p)
<1>1. /\ at \in [1..n -> S] /\ (\A i \in S : \E k \in 1..n : at[k] = i)
      /\ found = [k \in 1..n |-> [offer |-> e[at[k]].offer, q |-> e[at[k]].q]]
      /\ \A a, c \in 1..n : a < c => Ahead(e, at[a], at[c])
  BY DEF Lists
<1>2. DOMAIN found = 1..n
  BY <1>1
<1>3. \A k \in 1..n : found[k] = [offer |-> offers[at[k]], q |-> Weight(p, offers[at[k]])]
  BY <1>1
<1>4. {at[i] : i \in 1..n} = S
  BY <1>1
<1>5. ASSUME NEW a \in 1..n, NEW c \in 1..n, a < c
      PROVE  \/ Weight(p, offers[at[a]]) > Weight(p, offers[at[c]])
             \/ Weight(p, offers[at[a]]) = Weight(p, offers[at[c]]) /\ at[a] < at[c]
  <2>1. PICK i \in S, j \in S : i = at[a] /\ j = at[c]
    BY <1>1
  <2>2. Ahead(e, i, j)
    BY <2>1, <1>1, <1>5
  <2>3. /\ e[i].q = Weight(p, offers[i]) /\ e[i].at = i /\ e[j].q = Weight(p, offers[j]) /\ e[j].at = j
        /\ i \in Nat /\ j \in Nat
    <3>1. i \in 1..N /\ j \in 1..N
      OBVIOUS
    <3> QED
      BY <3>1
  <2>4. \/ Weight(p, offers[i]) > Weight(p, offers[j])
        \/ Weight(p, offers[i]) = Weight(p, offers[j]) /\ i < j
    BY ONLY <2>2, <2>3 DEF Ahead
  <2> QED
    BY <2>1, <2>4
<1> QED
  BY <1>1, <1>2, <1>3, <1>4, <1>5 DEF Serves

LEMMA CodingOffersServe ==
  ASSUME kind \in {"charset", "encoding"}, Valid(kind, environ),
         NEW R, NEW X, NEW p \in Seq(X), \A i \in 1..Len(p) : p[i].range \in R /\ p[i].q \in Nat,
         NEW Y, NEW offers \in Seq(Y), NEW S, S = {n \in DOMAIN offers : Weight(p, offers[n]) # 0},
         NEW found, found = CodingOffers(p, offers, kind = "encoding")
  PROVE  \E at : Serves(found, at, offers, S, p)
<1>1. PICK N \in Nat : N = Len(offers) /\ DOMAIN offers = 1..N
  OBVIOUS
<1>2. S \in SUBSET (1..N)
  BY <1>1
<1>3. PICK e : e = [i \in 1..N |-> [offer |-> offers[i], q |-> Weight(p, offers[i]), at |-> i]]
  OBVIOUS
<1>4. \A i \in 1..N : Weight(p, offers[i]) = CodingWeight(p, offers[i], kind = "encoding") /\ Weight(p, offers[i]) \in Nat
  BY CodingWeightIs
<1>5. PICK Z : Z = [offer : Y, q : Nat, at : Nat]
  OBVIOUS
<1>6. e \in Seq(Z) /\ Len(e) = N /\ \A i \in 1..N : e[i] = [offer |-> offers[i], q |-> Weight(p, offers[i]), at |-> i]
  <2>1. e \in [1..N -> Z]
    BY <1>1, <1>3, <1>4, <1>5
  <2> QED
    BY <2>1, <1>3
<1>7. found = ByWeight(Chosen(e, S))
  <2>1. e = [i \in 1..Len(offers) |-> [offer |-> offers[i], q |-> CodingWeight(p, offers[i], kind = "encoding"), at |-> i]]
    BY <1>1, <1>3, <1>4
  <2>2. S = {i \in 1..Len(offers) : CodingWeight(p, offers[i], kind = "encoding") # 0}
    BY <1>1, <1>4
  <2> QED
    BY <2>1, <2>2 DEF CodingOffers
<1>8. \A i \in S : /\ e[i].offer = offers[i] /\ e[i].q = Weight(p, offers[i]) /\ e[i].at = i
                   /\ Weight(p, offers[i]) \in Nat /\ i \in Nat
  BY <1>2, <1>4, <1>6
<1>9. PICK n \in Nat : \E r \in [1..n -> S] : Enumerates(r, n, S)
  BY <1>2, <1>6, ChosenPlaces
<1>10. PICK r \in [1..n -> S] : Enumerates(r, n, S)
  BY <1>9
<1>11. PICK es : es = Chosen(e, S)
  OBVIOUS
<1>12. Len(es) = n /\ \A k \in 1..n : es[k] = e[r[k]]
  <2>1. /\ Chosen(e, S) \in Seq(Z) /\ Len(Chosen(e, S)) = n
        /\ \A k \in 1..n : r[k] \in S /\ r[k] \in 1..Len(e) /\ Chosen(e, S)[k] = e[r[k]]
    <3>1. e \in Seq(Z) /\ S \in SUBSET (1..Len(e))
      BY <1>2, <1>6
    <3> QED
      BY ONLY <3>1, <1>10, n \in Nat, ChosenAlong
  <2> QED
    BY <2>1, <1>11
<1>13. PICK at : Lists(found, at, n, S, e)
  <2>1. \A i \in S : e[i].q \in Nat /\ e[i].at \in Nat
    BY <1>8
  <2>2. \A k \in 1..n : es[k].offer = e[r[k]].offer /\ es[k].q = e[r[k]].q /\ es[k].at = e[r[k]].at
    BY <1>12
  <2>3. found = ByWeight(es)
    BY <1>7, <1>11
  <2> QED
    BY ONLY <2>1, <2>2, <2>3, <1>2, <1>10, <1>12, n \in Nat, N \in Nat, ByWeightIs
<1>14. Serves(found, at, offers, S, p)
  <2>1. S \in SUBSET (1..N)
    BY <1>2, <1>6
  <2> QED
    BY ONLY <2>1, <1>8, <1>13, n \in Nat, N \in Nat, ListsServe, ZenonT(30)
<1> QED
  BY <1>14

---------------------------------------------------------------------------
(* basic_filtering.                                                         *)

LEMMA MatchesIs ==
  ASSUME NEW X, NEW s \in Seq(X), NEW t \in Seq(X), s # <<>>
  PROVE  Matches(s, t) <=> s \in Heads(t)
<1>1. SubSeq(s, 1, Len(s)) = s
  BY SubSeqFull
<1>2. ASSUME Matches(s, t) PROVE s \in Heads(t)
  <2>1. Len(s) <= Len(t) /\ SubSeq(s, 1, Len(s)) = SubSeq(t, 1, Len(s))
    BY <1>2 DEF Matches, IsPrefix
  <2>2. Len(s) \in 0..Len(t) /\ s = SubSeq(t, 1, Len(s))
    BY <1>1, <2>1
  <2> QED
    BY <2>2 DEF Heads, Prefixes
<1>3. ASSUME s \in Heads(t) PROVE Matches(s, t)
  <2>1. PICK l \in 0..Len(t) : s = SubSeq(t, 1, l)
    BY <1>3 DEF Heads, Prefixes
  <2>2. Len(s) = l
    BY ONLY t \in Seq(X), l \in 0..Len(t), <2>1, CutIn
  <2> QED
    BY <1>1, <2>1, <2>2 DEF Matches, IsPrefix
<1> QED
  BY <1>2, <1>3

LEMMA BestIs ==
  ASSUME NEW p, NEW S \in SUBSET Nat, \A j \in S : p[j].q \in Nat,
         NEW i \in S, \A j \in S : j # i => Before(p, i, j)
  PROVE  Best(p, S) = i
<1>1. \A j \in S : Better(p, i, j)
  BY DEF Before, Better
<1>2. ASSUME NEW b \in S, \A j \in S : Better(p, b, j) PROVE b = i
  <2> SUFFICES ASSUME b # i PROVE FALSE
    OBVIOUS
  <2>1. Better(p, b, i) /\ Before(p, i, b)
    BY <1>2
  <2>2. PICK x \in Nat, y \in Nat : x = p[i].q /\ y = p[b].q
    OBVIOUS
  <2>3. i \in Nat /\ b \in Nat
    OBVIOUS
  <2> QED
    BY ONLY <2>1, <2>2, <2>3, b # i DEF Before, Better
<1> QED
  BY <1>1, <1>2 DEF Best

LEMMA FirstAtIs ==
  ASSUME NEW X, NEW p \in Seq(X), NEW range, NEW m, m = FirstAt(p, range)
  PROVE  \/ m = 0 /\ \A i \in 1..Len(p) : p[i].range # range
         \/ m \in 1..Len(p) /\ p[m].range = range /\ FirstMention(p, m)
<1>1. PICK N \in Nat : N = Len(p)
  OBVIOUS
<1>2. PICK I \in SUBSET (1..N) : I = {i \in 1..N : p[i].range = range}
  <2>1. {i \in 1..N : p[i].range = range} \in SUBSET (1..N)
    OBVIOUS
  <2> QED
    BY <2>1
<1>3. m = IF I # {} THEN Min(I) ELSE 0
  BY <1>1, <1>2 DEF FirstAt, SelectInSeq
<1>4. (I = {} => m = 0) /\ (I # {} => m \in I /\ \A j \in I : m <= j)
  BY ONLY <1>3, N \in Nat, I \in SUBSET (1..N), FirstOf
<1>5. CASE I = {}
  BY <1>1, <1>2, <1>4, <1>5
<1>6. CASE I # {}
  <2>1. m \in 1..N /\ p[m].range = range
    BY <1>2, <1>4, <1>6
  <2>2. ASSUME NEW j \in 1..(m - 1), p[j].range = p[m].range PROVE FALSE
    <3>1. j \in 1..N /\ ~(m <= j)
      BY <2>1
    <3>2. j \in I
      BY <3>1, <2>1, <2>2, <1>2
    <3> QED
      BY <3>1, <3>2, <1>4, <1>6
  <2> QED
    BY <2>1, <2>2, <1>1 DEF FirstMention
<1> QED
  BY <1>5, <1>6

LEMMA FirstAtFirst ==
  ASSUME NEW X, NEW p \in Seq(X)
  PROVE  {i \in 1..Len(p) : FirstAt(p, p[i].range) = i} = FirstMentions(p)
<1>1. ASSUME NEW i \in 1..Len(p) PROVE FirstAt(p, p[i].range) = i <=> FirstMention(p, i)
  <2>1. PICK m : m = FirstAt(p, p[i].range)
    OBVIOUS
  <2>2. m \in 1..Len(p) /\ p[m].range = p[i].range /\ FirstMention(p, m)
    BY <2>1, FirstAtIs
  <2>3. FirstMention(p, i) => m = i
    <3>1. m \in Nat /\ i \in Nat /\ m # 0 /\ i # 0
      BY <2>2
    <3> QED
      BY <2>2, <3>1, MentionedOnce
  <2> QED
    BY <2>1, <2>2, <2>3
<1> QED
  BY <1>1 DEF FirstMention, FirstMentions

\* The position in the header of what decides a tag, 0 for nothing.
Decider(p, tag) ==
  LET d       == FirstWeights(p)
      refused == {r \in DOMAIN d \ {Star} : d[r] = 0}
      ranked  == Ranked(p, {i \in 1..Len(p) : FirstAt(p, p[i].range) = i})
      k       == SelectInSeq(ranked, LAMBDA i : Matches(p[i].range, tag))
  IN  IF \E r \in refused : Matches(r, tag) THEN 0
      ELSE IF k # 0 THEN ranked[k]
      ELSE IF Star \in DOMAIN d /\ d[Star] # 0 THEN FirstAt(p, Star) ELSE 0

LEMMA FilteringIs ==
  ASSUME NEW p, NEW tags
  PROVE  BasicFiltering(p, tags) =
           LET kept == Chosen([i \in 1..Len(tags) |-> [offer |-> tags[i], at |-> Decider(p, tags[i])]],
                              {i \in 1..Len(tags) : Decider(p, tags[i]) # 0})
           IN  ByWeight([i \in 1..Len(kept) |-> [offer |-> kept[i].offer, at |-> kept[i].at,
                                                 q |-> p[kept[i].at].q]])
BY DEF BasicFiltering, Decider

(* The headers of languages: what lookups and filters are asked with.       *)
Weighted(p) == \A i \in 1..Len(p) : p[i].range \in Seq(STRING) /\ p[i].range # <<>> /\ p[i].q \in Nat

LEMMA DeciderFound ==
  ASSUME NEW X, NEW p \in Seq(X), Weighted(p), NEW tag \in Seq(STRING), Star \notin Heads(tag),
         NEW m, m = Decider(p, tag)
  PROVE  \/ m = 0 /\ Refusing(p, tag) # {}
         \/ /\ Refusing(p, tag) = {}
            /\ \/ m \in Accepting(p, tag) /\ \A j \in Accepting(p, tag) : j # m => Before(p, m, j)
               \/ m = 0 /\ Accepting(p, tag) = {}
<1>1. PICK N \in Nat : N = Len(p)
  OBVIOUS
<1>2. PICK d : d = FirstWeights(p)
  OBVIOUS
<1>3. DOMAIN d = {p[i].range : i \in 1..N} /\ \A i \in 1..N : FirstMention(p, i) => d[p[i].range] = p[i].q
  <2>1. PICK R : R = Seq(STRING)
    OBVIOUS
  <2>2. \A i \in 1..Len(p) : p[i].range \in R /\ p[i].q \in Nat
    BY <2>1 DEF Weighted
  <2>3. Weighs(d, p, Len(p))
    BY <1>2, <2>2, FirstWeightsIs
  <2> QED
    BY <2>3, <1>1 DEF Weighs
<1>4. \A i \in 1..N : Matches(p[i].range, tag) <=> p[i].range \in Heads(tag)
  BY <1>1, MatchesIs DEF Weighted
<1>5. PICK ms \in SUBSET (1..N) : ms = FirstMentions(p) /\ \A i \in 1..N : i \in ms <=> FirstMention(p, i)
  <2>1. FirstMentions(p) \in SUBSET (1..N) /\ \A i \in 1..N : i \in FirstMentions(p) <=> FirstMention(p, i)
    BY <1>1 DEF FirstMentions, FirstMention
  <2> QED
    BY <2>1
<1>6. PICK ranked : ranked = Ranked(p, ms)
  OBVIOUS
<1>7. PICK S : S = Rankable(p, ms)
  OBVIOUS
<1>8. PICK n \in Nat : Ranks(ranked, n, p, S) /\ Len(ranked) = n
  <2>1. \A i \in 1..N : p[i].q \in Nat
    BY <1>1 DEF Weighted
  <2> QED
    BY <2>1, <1>6, <1>7, RankedIs
<1>9. ranked \in [1..n -> S] /\ (\A i \in S : \E k \in 1..n : ranked[k] = i) /\ \A a, c \in 1..n : a < c => Before(p, ranked[a], ranked[c])
  BY <1>8 DEF Ranks
<1>10. PICK I \in SUBSET (1..n) : I = {k \in 1..n : p[ranked[k]].range \in Heads(tag)}
  <2>1. {k \in 1..n : p[ranked[k]].range \in Heads(tag)} \in SUBSET (1..n)
    OBVIOUS
  <2> QED
    BY <2>1
<1>11. PICK k : k = IF I # {} THEN Min(I) ELSE 0
  OBVIOUS
<1>12. (I = {} => k = 0) /\ (I # {} => k \in I /\ \A j \in I : k <= j)
  BY ONLY <1>11, n \in Nat, I \in SUBSET (1..n), FirstOf
<1>13. S = {i \in ms : p[i].range # Star /\ p[i].q # 0}
  BY <1>7 DEF Rankable
<1>14. SelectInSeq(ranked, LAMBDA i : Matches(p[i].range, tag)) = k
  <2>1. \A j \in 1..n : ranked[j] \in 1..N
    BY <1>9, <1>13
  <2>2. I = {j \in 1..Len(ranked) : Matches(p[ranked[j]].range, tag)}
    BY <2>1, <1>4, <1>8, <1>10
  <2> QED
    BY <2>2, <1>11 DEF SelectInSeq
<1>15. PICK refusing : refusing = {i \in ms : p[i].range \in Heads(tag) /\ p[i].q = 0}
  OBVIOUS
<1>16. Refusing(p, tag) = refusing
  BY <1>5, <1>15 DEF Refusing
<1>17. (\E r \in {x \in DOMAIN d \ {Star} : d[x] = 0} : Matches(r, tag)) <=> refusing # {}
  <2>1. ASSUME NEW r \in DOMAIN d \ {Star}, d[r] = 0, Matches(r, tag) PROVE refusing # {}
    <3>1. PICK i \in 1..N : p[i].range = r
      BY <1>3
    <3>2. PICK j \in 1..N : FirstMention(p, j) /\ p[j].range = p[i].range
      BY MentionedFirst
    <3>3. d[p[j].range] = p[j].q
      BY <3>2, <1>3
    <3>4. j \in refusing
      BY <2>1, <3>1, <3>2, <3>3, <1>4, <1>5, <1>15
    <3> QED
      BY <3>4
  <2>2. ASSUME NEW i \in refusing PROVE \E r \in {x \in DOMAIN d \ {Star} : d[x] = 0} : Matches(r, tag)
    <3>1. i \in 1..N /\ FirstMention(p, i) /\ p[i].range \in Heads(tag) /\ p[i].q = 0
      BY <1>5, <1>15
    <3>2. p[i].range \in DOMAIN d /\ p[i].range # Star /\ d[p[i].range] = 0 /\ Matches(p[i].range, tag)
      BY <3>1, <1>3, <1>4
    <3> QED
      BY <3>2
  <2> QED
    BY <2>1, <2>2
<1>18. m = IF refusing # {} THEN 0 ELSE IF k # 0 THEN ranked[k]
           ELSE IF Star \in DOMAIN d /\ d[Star] # 0 THEN FirstAt(p, Star) ELSE 0
  <2>1. ranked = Ranked(p, {i \in 1..Len(p) : FirstAt(p, p[i].range) = i})
    BY <1>5, <1>6, FirstAtFirst
  <2>2. m = IF \E r \in {x \in DOMAIN d \ {Star} : d[x] = 0} : Matches(r, tag) THEN 0
            ELSE IF SelectInSeq(ranked, LAMBDA i : Matches(p[i].range, tag)) # 0
                 THEN ranked[SelectInSeq(ranked, LAMBDA i : Matches(p[i].range, tag))]
            ELSE IF Star \in DOMAIN d /\ d[Star] # 0 THEN FirstAt(p, Star) ELSE 0
    BY <2>1, <1>2 DEF Decider
  <2> QED
    BY <2>2, <1>14, <1>17
<1>19. CASE refusing # {}
  BY <1>16, <1>18, <1>19
<1>20. CASE refusing = {} /\ I # {}
  <2>1. k \in 1..n /\ k # 0 /\ p[ranked[k]].range \in Heads(tag)
    BY <1>10, <1>12, <1>20
  <2>2. PICK i \in S : i = ranked[k] /\ m = i
    BY <2>1, <1>9, <1>18, <1>20
  <2>3. Accepting(p, tag) = {j \in ms : p[j].range \in Heads(tag) /\ p[j].q # 0}
    BY <2>1, <2>2, <1>1, <1>5, <1>13 DEF Accepting
  <2>4. ASSUME NEW j \in Accepting(p, tag), j # i PROVE Before(p, i, j)
    <3>1. j \in S /\ p[j].range \in Heads(tag)
      BY <2>3, <1>13
    <3>2. PICK l \in 1..n : ranked[l] = j
      BY <3>1, <1>9
    <3>3. k <= l /\ k # l
      BY <2>2, <2>4, <3>1, <3>2, <1>10, <1>12, <1>20
    <3>4. k < l
      BY <2>1, <3>3
    <3> QED
      BY <2>1, <2>2, <3>2, <3>4, <1>9
  <2> QED
    BY <2>1, <2>2, <2>3, <2>4, <1>13, <1>16, <1>20
<1>21. CASE refusing = {} /\ I = {}
  <2>1. \A i \in 1..N : p[i].range \notin Heads(tag)
    <3> SUFFICES ASSUME NEW i \in 1..N, p[i].range \in Heads(tag) PROVE FALSE
      OBVIOUS
    <3>1. PICK j \in 1..N : FirstMention(p, j) /\ p[j].range = p[i].range
      BY MentionedFirst
    <3>2. j \in S
      BY <3>1, <1>5, <1>13, <1>15, <1>21
    <3>3. PICK l \in 1..n : ranked[l] = j
      BY <3>2, <1>9
    <3> QED
      BY <3>1, <3>3, <1>10, <1>21
  <2>2. Accepting(p, tag) = {i \in ms : p[i].range = Star /\ p[i].q # 0}
    BY <2>1, <1>1, <1>5 DEF Accepting
  <2>3. m = IF Star \in DOMAIN d /\ d[Star] # 0 THEN FirstAt(p, Star) ELSE 0
    BY <1>12, <1>18, <1>21
  <2>4. PICK c : c = FirstAt(p, Star)
    OBVIOUS
  <2>5. \/ c = 0 /\ \A i \in 1..N : p[i].range # Star
        \/ c \in 1..N /\ p[c].range = Star /\ FirstMention(p, c)
    BY <2>4, <1>1, FirstAtIs
  <2>6. CASE c = 0 /\ \A i \in 1..N : p[i].range # Star
    <3>1. Star \notin DOMAIN d /\ Accepting(p, tag) = {}
      BY <2>2, <2>6, <1>3
    <3> QED
      BY <2>3, <3>1, <1>16, <1>21
  <2>7. CASE c \in 1..N /\ p[c].range = Star /\ FirstMention(p, c)
    <3>1. Star \in DOMAIN d /\ d[Star] = p[c].q
      BY <2>7, <1>3
    <3>2. \A j \in ms : p[j].range = Star => j = c
      <4> SUFFICES ASSUME NEW j \in ms, p[j].range = Star PROVE j = c
        OBVIOUS
      <4>1. FirstMention(p, j) /\ p[j].range = p[c].range /\ j \in Nat /\ c \in Nat /\ j # 0 /\ c # 0
        BY <2>7, <1>5
      <4> QED
        BY <2>7, <4>1, MentionedOnce
    <3>3. CASE p[c].q = 0
      <4>1. Accepting(p, tag) = {}
        BY <2>2, <3>2, <3>3
      <4> QED
        BY <2>3, <3>1, <3>3, <4>1, <1>16, <1>21
    <3>4. CASE p[c].q # 0
      <4>1. c \in Accepting(p, tag) /\ \A j \in Accepting(p, tag) : j = c
        BY <2>2, <2>7, <3>2, <3>4, <1>5
      <4> QED
        BY <2>3, <2>4, <3>1, <3>4, <4>1, <1>16, <1>21
    <3> QED
      BY <3>3, <3>4
  <2> QED
    BY <2>5, <2>6, <2>7
<1> QED
  BY <1>19, <1>20, <1>21

LEMMA StarIsNoHead ==
  ASSUME NEW k \in Kinds, NEW o \in Offers[k]
  PROVE  o \in Seq(STRING) /\ o # <<>> /\ Star \notin Heads(o) /\ \A i \in 1..Len(o) : o[i] # "*"
<1>1. o \in Seq(STRING) /\ o # <<>> /\ \A i \in 1..Len(o) : o[i] # "*"
  BY HeadersAssumption
<1>2. ASSUME Star \in Heads(o) PROVE FALSE
  <2>1. PICK l \in 0..Len(o) : Star = SubSeq(o, 1, l)
    BY <1>2 DEF Heads, Prefixes
  <2>2. Len(Star) = 1 /\ Star[1] = "*"
    BY DEF Star
  <2>3. Len(SubSeq(o, 1, l)) = l /\ \A j \in 1..l : SubSeq(o, 1, l)[j] = o[j]
    BY ONLY <1>1, l \in 0..Len(o), CutIn
  <2>4. l = 1
    BY <2>1, <2>2, <2>3
  <2>5. o[1] = "*"
    BY <2>1, <2>2, <2>3, <2>4
  <2> QED
    BY <2>4, <2>5, <1>1
<1> QED
  BY <1>1, <1>2

LEMMA DeciderIs ==
  ASSUME NEW X, NEW p \in Seq(X), Weighted(p), NEW k \in Kinds, NEW tag \in Offers[k],
         NEW m, m = Decider(p, tag)
  PROVE  /\ m # 0 <=> Refusing(p, tag) = {} /\ Accepting(p, tag) # {}
         /\ m # 0 => m \in 1..Len(p) /\ Best(p, Accepting(p, tag)) = m
         /\ m \in Nat
<1>1. Accepting(p, tag) \in SUBSET (1..Len(p))
  BY DEF Accepting, FirstMentions
<1>2. tag \in Seq(STRING) /\ Star \notin Heads(tag)
  BY StarIsNoHead
<1>3. \/ m = 0 /\ Refusing(p, tag) # {}
      \/ /\ Refusing(p, tag) = {}
         /\ \/ m \in Accepting(p, tag) /\ \A j \in Accepting(p, tag) : j # m => Before(p, m, j)
            \/ m = 0 /\ Accepting(p, tag) = {}
  BY <1>2, DeciderFound
<1>4. PICK S \in SUBSET Nat : S = Accepting(p, tag) /\ S \subseteq 1..Len(p)
  <2>1. Accepting(p, tag) \in SUBSET Nat
    BY <1>1
  <2> QED
    BY <1>1, <2>1
<1>5. \A j \in S : p[j].q \in Nat
  BY <1>4 DEF Weighted
<1>6. ASSUME m \in S, \A j \in S : j # m => Before(p, m, j) PROVE Best(p, S) = m
  BY ONLY <1>5, <1>6, S \in SUBSET Nat, BestIs
<1> QED
  BY <1>1, <1>3, <1>4, <1>6

Filters(found, at, tags, S, p) ==
  /\ at \in [DOMAIN found -> S]
  /\ {at[i] : i \in DOMAIN found} = S
  /\ \A i \in DOMAIN found :
       found[i] = [offer |-> tags[at[i]], q |-> p[Best(p, Accepting(p, tags[at[i]]))].q]
  /\ \A i, j \in DOMAIN found :
       i < j => IF Best(p, Accepting(p, tags[at[i]])) = Best(p, Accepting(p, tags[at[j]])) THEN at[i] < at[j]
                ELSE Better(p, Best(p, Accepting(p, tags[at[i]])), Best(p, Accepting(p, tags[at[j]])))

LEMMA FilteringFilters ==
  ASSUME NEW X, NEW p \in Seq(X), Weighted(p), NEW k \in Kinds, NEW tags \in Seq(Offers[k]),
         NEW S, S = {n \in DOMAIN tags : Refusing(p, tags[n]) = {} /\ Accepting(p, tags[n]) # {}},
         NEW found, found = BasicFiltering(p, tags)
  PROVE  \E at : Filters(found, at, tags, S, p)
<1>1. PICK N \in Nat : N = Len(tags) /\ DOMAIN tags = 1..N /\ \A i \in 1..N : tags[i] \in Offers[k]
  OBVIOUS
<1>2. PICK best : best = [i \in 1..N |-> Decider(p, tags[i])]
  OBVIOUS
<1>3. \A i \in 1..N : best[i] = Decider(p, tags[i])
  BY <1>2
<1>4. ASSUME NEW i \in 1..N
      PROVE  /\ i \in S <=> best[i] # 0
             /\ i \in S => best[i] \in 1..Len(p) /\ Best(p, Accepting(p, tags[i])) = best[i]
             /\ best[i] \in Nat
  <2>1. PICK tag \in Offers[k] : tag = tags[i]
    BY <1>1
  <2>2. PICK m : m = Decider(p, tag)
    OBVIOUS
  <2>3. /\ m # 0 <=> Refusing(p, tag) = {} /\ Accepting(p, tag) # {}
        /\ m # 0 => m \in 1..Len(p) /\ Best(p, Accepting(p, tag)) = m
        /\ m \in Nat
    BY <2>2, DeciderIs
  <2>4. m = best[i]
    BY <2>1, <2>2, <1>3
  <2> QED
    BY <2>1, <2>3, <2>4, <1>1
<1>5. S \in SUBSET (1..N)
  BY <1>1
<1>6. PICK full : full = [i \in 1..N |-> [offer |-> tags[i], at |-> best[i]]]
  OBVIOUS
<1>7. PICK Z : Z = [offer : Offers[k], at : Nat]
  OBVIOUS
<1>8. full \in Seq(Z) /\ Len(full) = N /\ \A i \in 1..N : full[i] = [offer |-> tags[i], at |-> best[i]]
  <2>1. full \in [1..N -> Z]
    BY <1>1, <1>4, <1>6, <1>7
  <2> QED
    BY <2>1, <1>6
<1>9. PICK n \in Nat : \E r \in [1..n -> S] : Enumerates(r, n, S)
  BY <1>5, <1>8, ChosenPlaces
<1>10. PICK r \in [1..n -> S] : Enumerates(r, n, S)
  BY <1>9
<1>11. PICK kept : kept = Chosen(full, S)
  OBVIOUS
<1>12. kept \in Seq(Z) /\ Len(kept) = n /\ \A c \in 1..n : r[c] \in 1..N /\ r[c] \in S /\ kept[c] = full[r[c]]
  <2>1. full \in Seq(Z) /\ S \in SUBSET (1..Len(full))
    BY <1>5, <1>8
  <2>2. /\ Chosen(full, S) \in Seq(Z) /\ Len(Chosen(full, S)) = n
        /\ \A c \in 1..n : r[c] \in S /\ r[c] \in 1..Len(full) /\ Chosen(full, S)[c] = full[r[c]]
    BY ONLY <2>1, <1>10, n \in Nat, ChosenAlong, SMTT(30)
  <2> QED
    BY <2>2, <1>8, <1>11
<1>13. PICK es : es = [i \in 1..n |-> [offer |-> kept[i].offer, at |-> kept[i].at, q |-> p[kept[i].at].q]]
  OBVIOUS
<1>14. found = ByWeight(es)
  <2>1. full = [i \in 1..Len(tags) |-> [offer |-> tags[i], at |-> Decider(p, tags[i])]]
    BY <1>1, <1>3, <1>6
  <2>2. S = {i \in 1..Len(tags) : Decider(p, tags[i]) # 0}
    BY <1>1, <1>3, <1>4, <1>5
  <2>3. kept = Chosen([i \in 1..Len(tags) |-> [offer |-> tags[i], at |-> Decider(p, tags[i])]],
                      {i \in 1..Len(tags) : Decider(p, tags[i]) # 0})
    BY <2>1, <2>2, <1>11
  <2>4. found = ByWeight([i \in 1..Len(kept) |-> [offer |-> kept[i].offer, at |-> kept[i].at,
                                                  q |-> p[kept[i].at].q]])
    BY <2>3, FilteringIs
  <2> QED
    BY <2>4, <1>12, <1>13
<1>15. PICK e : e = [i \in 1..N |-> [offer |-> tags[i], q |-> p[best[i]].q, at |-> best[i]]]
  OBVIOUS
<1>16. \A i \in S : /\ e[i].offer = tags[i] /\ e[i].q = p[best[i]].q /\ e[i].at = best[i]
                    /\ e[i].q \in Nat /\ e[i].at \in Nat /\ i \in 1..N
  BY <1>4, <1>5, <1>15 DEF Weighted
<1>17. Len(es) = n
  <2>1. PICK W : W = {[offer |-> kept[i].offer, at |-> kept[i].at, q |-> p[kept[i].at].q] : i \in 1..n}
    OBVIOUS
  <2>2. es \in [1..n -> W]
    BY <1>13, <2>1
  <2> QED
    BY ONLY <2>2, n \in Nat
<1>18. ASSUME NEW c \in 1..n
       PROVE  es[c].offer = e[r[c]].offer /\ es[c].q = e[r[c]].q /\ es[c].at = e[r[c]].at
  <2>1. PICK i \in S : i = r[c] /\ kept[c] = full[i] /\ i \in 1..N
    BY <1>12
  <2>2. kept[c].offer = tags[i] /\ kept[c].at = best[i]
    BY <2>1, <1>8
  <2>3. es[c] = [offer |-> kept[c].offer, at |-> kept[c].at, q |-> p[kept[c].at].q]
    BY <1>13
  <2>4. es[c].offer = kept[c].offer /\ es[c].at = kept[c].at /\ es[c].q = p[kept[c].at].q
    BY ONLY <2>3
  <2>5. e[i].offer = tags[i] /\ e[i].q = p[best[i]].q /\ e[i].at = best[i]
    BY <1>16
  <2>6. es[c].offer = e[i].offer /\ es[c].q = e[i].q /\ es[c].at = e[i].at
    BY ONLY <2>2, <2>4, <2>5
  <2> QED
    BY ONLY <2>1, <2>6
<1>19. PICK at : Lists(found, at, n, S, e)
  <2>1. \A i \in S : e[i].q \in Nat /\ e[i].at \in Nat
    BY <1>16
  <2> QED
    BY ONLY <2>1, <1>5, <1>10, <1>14, <1>17, <1>18, n \in Nat, N \in Nat, ByWeightIs
<1>20. /\ at \in [1..n -> S] /\ (\A i \in S : \E c \in 1..n : at[c] = i)
       /\ found = [c \in 1..n |-> [offer |-> e[at[c]].offer, q |-> e[at[c]].q]]
       /\ \A a, c \in 1..n : a < c => Ahead(e, at[a], at[c])
  BY <1>19 DEF Lists
<1>21. DOMAIN found = 1..n
  BY <1>20
<1>22. \A i \in S : Best(p, Accepting(p, tags[i])) = best[i] /\ p[best[i]].q \in Nat /\ best[i] \in Nat
  BY <1>4, <1>16
<1>23. ASSUME NEW c \in 1..n
       PROVE  found[c] = [offer |-> tags[at[c]], q |-> p[Best(p, Accepting(p, tags[at[c]]))].q]
  <2>1. PICK i \in S : i = at[c]
    BY <1>20
  <2>2. found[c] = [offer |-> e[i].offer, q |-> e[i].q]
    BY <2>1, <1>20
  <2>3. e[i].offer = tags[i] /\ e[i].q = p[best[i]].q /\ Best(p, Accepting(p, tags[i])) = best[i]
    BY <1>16, <1>22
  <2> QED
    BY <2>1, <2>2, <2>3
<1>24. {at[c] : c \in 1..n} = S
  <2>1. at \in [1..n -> S] /\ \A i \in S : \E c \in 1..n : at[c] = i
    BY <1>20
  <2> QED
    BY ONLY <2>1
<1>25. ASSUME NEW a \in 1..n, NEW c \in 1..n, a < c
       PROVE  IF Best(p, Accepting(p, tags[at[a]])) = Best(p, Accepting(p, tags[at[c]])) THEN at[a] < at[c]
              ELSE Better(p, Best(p, Accepting(p, tags[at[a]])), Best(p, Accepting(p, tags[at[c]])))
  <2>1. PICK i \in S, j \in S : i = at[a] /\ j = at[c]
    BY <1>20
  <2>2. Ahead(e, i, j)
    BY <2>1, <1>20, <1>25
  <2>3. PICK b \in Nat, v \in Nat : b = best[i] /\ v = best[j]
    BY <1>22
  <2>4. PICK x \in Nat, y \in Nat : x = p[b].q /\ y = p[v].q
    BY <2>3, <1>22
  <2>5. e[i].q = x /\ e[i].at = b /\ e[j].q = y /\ e[j].at = v
    BY <2>3, <2>4, <1>16
  <2>6. i \in Nat /\ j \in Nat
    <3>1. i \in 1..N /\ j \in 1..N
      BY <1>16
    <3> QED
      BY <3>1
  <2>7. IF b = v THEN i < j ELSE Better(p, b, v)
    BY ONLY <2>2, <2>4, <2>5, <2>6, b \in Nat, v \in Nat, x \in Nat, y \in Nat DEF Ahead, Better
  <2> QED
    BY <2>1, <2>3, <2>7, <1>22
<1> QED
  BY <1>20, <1>21, <1>23, <1>24, <1>25 DEF Filters

---------------------------------------------------------------------------
(* Media ranges: how specific they are, and which pattern they are of.      *)

Worth(p, o, i)  == Specificity(p[i].range, o)
Leads(p, n, o, i) ==
  /\ i \in 1..n /\ Worth(p, o, i) # 0
  /\ \A j \in 1..n : Worth(p, o, j) <= Worth(p, o, i)
  /\ \A j \in 1..(i - 1) : Worth(p, o, j) # Worth(p, o, i)

LEMMA PairsApart ==
  ASSUME NEW a, NEW b, NEW c, NEW d
  PROVE  /\ Len(<<a, b>>) = 2 /\ <<a, b>>[1] = a /\ <<a, b>>[2] = b
         /\ <<a, b>> = <<c, d>> => a = c /\ b = d
BY Z3

LEMMA FirstTwo ==
  ASSUME NEW X, NEW x \in Seq(X), Len(x) >= 2, NEW t, t = SubSeq(x, 1, 2)
  PROVE  Len(t) = 2 /\ t[1] = x[1] /\ t[2] = x[2] /\ (Len(x) = 2 => t = x)
<1>1. 2 \in 0..Len(x)
  OBVIOUS
<1>2. Len(SubSeq(x, 1, 2)) = 2 /\ \A j \in 1..2 : SubSeq(x, 1, 2)[j] = x[j]
  BY ONLY x \in Seq(X), <1>1, CutIn
<1>3. Len(x) = 2 => SubSeq(x, 1, 2) = x
  BY SubSeqFull
<1> QED
  BY <1>2, <1>3

LEMMA Graded ==
  ASSUME kind = "accept", NEW p, NEW i, NEW x, x = p[i].range, x \in Seq(STRING), Len(x) >= 2,
         NEW o \in Seq(STRING), Len(o) >= 2, \A j \in 1..Len(o) : o[j] # "*",
         NEW s, s = Worth(p, o, i), NEW ps, ps = Patterns(o), NEW pattern, pattern = Pattern(p, i)
  PROVE  /\ s \in 0..4 /\ Len(ps) = 4
         /\ s # 0 => pattern = ps[5 - s]
         /\ pattern = ps[1] => s = IF Len(o) = 2 THEN 3 ELSE 4
         /\ pattern = ps[2] => s = 3
         /\ pattern = ps[3] => s = 2
         /\ pattern = ps[4] => s = 1
         /\ Len(o) = 2 => ps[1] = ps[2]
<1>1. PICK t : t = SubSeq(x, 1, 2)
  OBVIOUS
<1>2. PICK u : u = SubSeq(o, 1, 2)
  OBVIOUS
<1>3. Len(t) = 2 /\ t[1] = x[1] /\ t[2] = x[2] /\ (Len(x) = 2 => t = x)
  BY <1>1, FirstTwo
<1>4. Len(u) = 2 /\ u[1] = o[1] /\ u[2] = o[2] /\ (Len(o) = 2 => u = o)
  BY <1>2, FirstTwo
<1>5. o[1] # "*" /\ o[2] # "*"
  OBVIOUS
<1>6. PICK v : v = <<o[1], "*">>
  OBVIOUS
<1>7. Len(v) = 2 /\ v[1] = o[1] /\ v[2] = "*"
  BY <1>6
<1>8. Len(StarStar) = 2 /\ StarStar[1] = "*" /\ StarStar[2] = "*"
  BY DEF StarStar
<1>9. ps = <<o, u, v, StarStar>>
  BY <1>2, <1>6 DEF Patterns
<1>10. Len(ps) = 4 /\ ps[1] = o /\ ps[2] = u /\ ps[3] = v /\ ps[4] = StarStar
  BY <1>9
<1>11. pattern = IF x[2] = "*" THEN t ELSE x
  BY <1>1 DEF Pattern
<1>12. s = IF t = u THEN (IF Len(x) = 2 THEN 3 ELSE IF x = o THEN 4 ELSE 0)
           ELSE IF t = v THEN 2 ELSE IF t = StarStar THEN 1 ELSE 0
  BY <1>1, <1>2, <1>6 DEF Worth, Specificity
<1>13. u # v /\ u # StarStar /\ v # StarStar
  BY <1>4, <1>5, <1>7, <1>8
<1>14. s \in 0..4
  BY <1>12
<1>15. s # 0 => pattern = ps[5 - s]
  <2>1. CASE s = 4
    <3>1. x = o /\ x[2] # "*"
      BY <2>1, <1>5, <1>12
    <3> QED
      BY <2>1, <3>1, <1>10, <1>11
  <2>2. CASE s = 3
    <3>1. t = u /\ t = x
      BY <2>2, <1>3, <1>12
    <3>2. pattern = u
      BY <3>1, <1>11
    <3> QED
      BY <2>2, <3>2, <1>10
  <2>3. CASE s = 2
    <3>1. t = v /\ x[2] = "*"
      BY <2>3, <1>3, <1>7, <1>12
    <3> QED
      BY <2>3, <3>1, <1>10, <1>11
  <2>4. CASE s = 1
    <3>1. t = StarStar /\ x[2] = "*"
      BY <2>4, <1>3, <1>8, <1>12
    <3> QED
      BY <2>4, <3>1, <1>10, <1>11
  <2> QED
    BY <2>1, <2>2, <2>3, <2>4, <1>14
<1>16. ASSUME pattern = o PROVE s = IF Len(o) = 2 THEN 3 ELSE 4
  <2>1. x = o
    BY <1>16, <1>3, <1>5, <1>11
  <2>2. t = u
    BY <2>1, <1>1, <1>2
  <2> QED
    BY <2>1, <2>2, <1>12
<1>17. ASSUME pattern = u PROVE s = 3
  <2>1. x = u
    BY <1>17, <1>3, <1>4, <1>5, <1>11
  <2>2. t = u /\ Len(x) = 2
    BY <2>1, <1>3, <1>4
  <2> QED
    BY <2>2, <1>12
<1>18. ASSUME pattern = v PROVE s = 2
  <2>1. t = v
    BY <1>18, <1>7, <1>11
  <2> QED
    BY <2>1, <1>12, <1>13
<1>19. ASSUME pattern = StarStar PROVE s = 1
  <2>1. t = StarStar
    BY <1>19, <1>8, <1>11
  <2> QED
    BY <2>1, <1>12, <1>13
<1> QED
  BY <1>4, <1>10, <1>14, <1>15, <1>16, <1>17, <1>18, <1>19

(* A parsed Accept header and an offer to it.                               *)
Media(p)     == \A i \in 1..Len(p) : p[i].range \in Seq(STRING) /\ Len(p[i].range) >= 2 /\ p[i].q \in Nat
Mediatype(o) == o \in Seq(STRING) /\ Len(o) >= 2 /\ \A j \in 1..Len(o) : o[j] # "*"

LEMMA LeadsDecides ==
  ASSUME kind = "accept", NEW X, NEW p \in Seq(X), Media(p), NEW o, Mediatype(o), NEW i \in 1..Len(p)
  PROVE  Leads(p, Len(p), o, i) <=> Decides(p, i, o)
<1>1. PICK N \in Nat : N = Len(p)
  OBVIOUS
<1>2. PICK ps : ps = Patterns(o)
  OBVIOUS
<1>3. PICK s : s = [j \in 1..N |-> Worth(p, o, j)]
  OBVIOUS
<1>4. PICK ts : ts = [j \in 1..N |-> Pattern(p, j)]
  OBVIOUS
<1>5. PICK two : two = (Len(o) = 2)
  OBVIOUS
<1>6. ASSUME NEW j \in 1..N
      PROVE  /\ s[j] \in 0..4 /\ Len(ps) = 4
             /\ s[j] # 0 => ts[j] = ps[5 - s[j]]
             /\ ts[j] = ps[1] => s[j] = IF two THEN 3 ELSE 4
             /\ ts[j] = ps[2] => s[j] = 3
             /\ ts[j] = ps[3] => s[j] = 2
             /\ ts[j] = ps[4] => s[j] = 1
             /\ two => ps[1] = ps[2]
  <2>1. PICK x \in Seq(STRING) : x = p[j].range /\ Len(x) >= 2
    BY <1>1 DEF Media
  <2>2. PICK z : z = Worth(p, o, j)
    OBVIOUS
  <2>3. PICK t : t = Pattern(p, j)
    OBVIOUS
  <2>4. o \in Seq(STRING) /\ Len(o) >= 2 /\ \A m \in 1..Len(o) : o[m] # "*"
    BY DEF Mediatype
  <2>5. /\ z \in 0..4 /\ Len(ps) = 4
        /\ z # 0 => t = ps[5 - z]
        /\ t = ps[1] => z = IF Len(o) = 2 THEN 3 ELSE 4
        /\ t = ps[2] => z = 3
        /\ t = ps[3] => z = 2
        /\ t = ps[4] => z = 1
        /\ Len(o) = 2 => ps[1] = ps[2]
    BY ONLY kind = "accept", x \in Seq(STRING), <2>1, <2>2, <2>3, <2>4, <1>2, Graded
  <2>6. z = s[j] /\ t = ts[j]
    BY <2>2, <2>3, <1>3, <1>4
  <2> QED
    BY <2>5, <2>6, <1>5
<1>7. i \in 1..N /\ i \in Nat
  BY <1>1
<1>8. Leads(p, Len(p), o, i) <=> s[i] # 0 /\ (\A j \in 1..N : s[j] <= s[i]) /\ \A j \in 1..(i - 1) : s[j] # s[i]
  <2>1. \A j \in 1..(i - 1) : j \in 1..N
    BY <1>7
  <2> QED
    BY <2>1, <1>1, <1>3, <1>7 DEF Leads
<1>9. Decides(p, i, o) <=>
        \E k \in 1..4 : /\ ts[i] = ps[k]
                        /\ \A j \in 1..(i - 1) : ts[j] # ts[i]
                        /\ \A j \in 1..N, m \in 1..(k - 1) : ts[j] # ps[m]
  <2>1. \A j \in 1..(i - 1) : j \in 1..N
    BY <1>7
  <2>2. Len(ps) = 4
    BY <1>6, <1>7
  <2>3. Decides(p, i, o) <=>
          \E k \in 1..Len(ps) : /\ Pattern(p, i) = ps[k]
                                /\ \A j \in 1..(i - 1) : Pattern(p, j) # Pattern(p, i)
                                /\ \A j \in 1..Len(p), m \in 1..(k - 1) : Pattern(p, j) # ps[m]
    BY ONLY <1>2 DEF Decides
  <2>4. \A j \in 1..N : Pattern(p, j) = ts[j]
    BY <1>4
  <2> QED
    BY <2>1, <2>2, <2>3, <2>4, <1>1, <1>7, SMTT(30)
<1>10. ASSUME Leads(p, Len(p), o, i) PROVE Decides(p, i, o)
  <2>1. s[i] # 0 /\ (\A j \in 1..N : s[j] <= s[i]) /\ (\A j \in 1..(i - 1) : s[j] # s[i]) /\ ts[i] = ps[5 - s[i]] /\ s[i] \in 0..4
    BY <1>6, <1>7, <1>8, <1>10
  <2>2. ASSUME NEW j \in 1..(i - 1) PROVE ts[j] # ts[i]
    <3>1. j \in 1..N /\ s[j] # s[i]
      BY <2>1, <1>7
    <3> QED
      BY <3>1, <2>1, <1>6, <1>7
  <2>3. CASE two /\ s[i] = 3
    <3>1. ts[i] = ps[1]
      BY <2>1, <2>3, <1>6, <1>7
    <3>2. \A j \in 1..N, m \in 1..(1 - 1) : ts[j] # ps[m]
      OBVIOUS
    <3> QED
      BY <2>2, <3>1, <3>2, <1>9
  <2>4. CASE ~(two /\ s[i] = 3)
    <3>1. PICK k \in 1..4 : k = 5 - s[i] /\ ts[i] = ps[k]
      BY <2>1
    <3>2. ASSUME NEW j \in 1..N, NEW m \in 1..(k - 1), ts[j] = ps[m] PROVE FALSE
      <4>1. m \in {1, 2, 3} /\ m < k
        BY <3>1
      <4>2. s[j] <= s[i]
        BY <2>1
      <4>3. /\ m = 1 => s[j] = IF two THEN 3 ELSE 4
            /\ m = 2 => s[j] = 3
            /\ m = 3 => s[j] = 2
        BY <3>2, <1>6
      <4> QED
        BY <4>1, <4>2, <4>3, <2>1, <2>4, <3>1
    <3> QED
      BY <2>2, <3>1, <3>2, <1>9
  <2> QED
    BY <2>3, <2>4
<1>11. ASSUME Decides(p, i, o) PROVE Leads(p, Len(p), o, i)
  <2>1. PICK k \in 1..4 : /\ ts[i] = ps[k]
                          /\ \A j \in 1..(i - 1) : ts[j] # ts[i]
                          /\ \A j \in 1..N, m \in 1..(k - 1) : ts[j] # ps[m]
    BY <1>9, <1>11
  <2>2. k \in {1, 2, 3, 4}
    OBVIOUS
  <2>3. /\ s[i] \in 0..4 /\ s[i] # 0 /\ ts[i] = ps[5 - s[i]]
        /\ s[i] = 5 - k \/ (k = 1 /\ two /\ s[i] = 3)
    BY <2>1, <2>2, <1>6, <1>7
  <2>4. ASSUME NEW j \in 1..N, ~(s[j] <= s[i]) PROVE FALSE
    <3>1. s[j] \in 0..4 /\ s[j] > s[i] /\ s[j] # 0 /\ ts[j] = ps[5 - s[j]]
      BY <2>3, <2>4, <1>6
    <3>2. CASE s[i] = 5 - k
      <4>1. PICK m \in 1..(k - 1) : m = 5 - s[j]
        BY <3>1, <3>2, <2>3
      <4> QED
        BY <4>1, <3>1, <2>1
    <3>3. CASE k = 1 /\ two /\ s[i] = 3
      <4>1. s[j] = 4 /\ ts[j] = ps[1]
        BY <3>1, <3>3
      <4> QED
        BY <4>1, <3>3, <1>6
    <3> QED
      BY <3>2, <3>3, <2>3
  <2>5. ASSUME NEW j \in 1..(i - 1), s[j] = s[i] PROVE FALSE
    <3>1. j \in 1..N
      BY <1>7
    <3>2. ts[j] = ps[5 - s[j]]
      BY <3>1, <2>3, <2>5, <1>6
    <3> QED
      BY <3>2, <2>1, <2>3, <2>5
  <2> QED
    BY <2>3, <2>4, <2>5, <1>8
<1> QED
  BY <1>10, <1>11

LEMMA LeadsOnce ==
  ASSUME NEW p, NEW n \in Nat, NEW o, NEW i, NEW j, Leads(p, n, o, i), Leads(p, n, o, j),
         \A k \in 1..n : Worth(p, o, k) \in Nat
  PROVE  i = j
<1>1. i \in 1..n /\ j \in 1..n
  BY DEF Leads
<1>2. PICK x \in Nat, y \in Nat : x = Worth(p, o, i) /\ y = Worth(p, o, j)
  BY <1>1
<1>3. x <= y /\ y <= x
  BY <1>1, <1>2 DEF Leads
<1>4. x = y
  BY <1>3
<1>5. Worth(p, o, i) = Worth(p, o, j)
  BY <1>2, <1>4
<1>6. \A k \in 1..(j - 1) : Worth(p, o, k) # Worth(p, o, j)
  BY DEF Leads
<1>7. \A k \in 1..(i - 1) : Worth(p, o, k) # Worth(p, o, i)
  BY DEF Leads
<1>8. i \notin 1..(j - 1) /\ j \notin 1..(i - 1)
  BY <1>5, <1>6, <1>7
<1> QED
  BY <1>1, <1>8

LEMMA MediaWeightIs ==
  ASSUME kind = "accept", Valid(kind, environ), NEW X, NEW p \in Seq(X), Media(p), NEW o, Mediatype(o)
  PROVE  /\ \A i \in 1..Len(p) : Leads(p, Len(p), o, i) => Weight(p, o) = p[i].q
         /\ (\A i \in 1..Len(p) : ~Leads(p, Len(p), o, i)) => Weight(p, o) = 0
         /\ \A i \in 1..Len(p) : Worth(p, o, i) \in 0..4
<1>1. PICK ds : ds = {i \in 1..Len(p) : Decides(p, i, o)}
  OBVIOUS
<1>2. ds = {i \in 1..Len(p) : Leads(p, Len(p), o, i)}
  BY <1>1, LeadsDecides
<1>3. Weight(p, o) = IF ds # {} THEN p[CHOOSE i \in ds : TRUE].q ELSE 0
  BY <1>1 DEF Weight
<1>4. \A i \in 1..Len(p) : Worth(p, o, i) \in 0..4
  BY DEF Worth, Specificity
<1>5. ASSUME NEW i \in 1..Len(p), Leads(p, Len(p), o, i) PROVE Weight(p, o) = p[i].q
  <2>1. i \in ds
    BY <1>2, <1>5
  <2>2. ASSUME NEW j \in ds PROVE j = i
    <3>1. Leads(p, Len(p), o, j) /\ Len(p) \in Nat /\ \A k \in 1..Len(p) : Worth(p, o, k) \in Nat
      BY <1>2, <1>4
    <3> QED
      BY <3>1, <1>5, LeadsOnce
  <2>3. (CHOOSE j \in ds : TRUE) = i
    BY <2>1, <2>2
  <2> QED
    BY <2>1, <2>3, <1>3
<1> QED
  BY <1>2, <1>3, <1>4, <1>5

---------------------------------------------------------------------------
(* The loop over the offers and the ranges.                                 *)

Entries           == [q : Nat, at : Nat, specificity : Nat]
EntryOf(p, o, j, a) == [q |-> p[j].q, at |-> a, specificity |-> Worth(p, o, j)]

(* What is known of an offer after the first n ranges.                      *)
Knows(d, p, n, o, a) ==
  /\ o \in DOMAIN d <=> \E i \in 1..n : Worth(p, o, i) # 0
  /\ o \in DOMAIN d => \E j \in 1..n : Leads(p, n, o, j) /\ d[o] = EntryOf(p, o, j, a)
Besides(d, e, o) ==
  /\ DOMAIN e \ {o} = DOMAIN d \ {o}
  /\ \A x \in DOMAIN d : x # o => e[x] = d[x]

Considered(e, d, X, p, n, o, a) ==
  /\ e \in Dicts(X, Entries) /\ Besides(d, e, o)
  /\ Knows(d, p, n - 1, o, a) => Knows(e, p, n, o, a)
  /\ o \in DOMAIN d /\ Worth(p, o, n) <= d[o].specificity => e = d

LEMMA LeadsOn ==
  ASSUME NEW p, NEW o, NEW n \in Nat, n # 0, NEW j, Leads(p, n - 1, o, j), Worth(p, o, n) <= Worth(p, o, j)
  PROVE  Leads(p, n, o, j)
<1>1. j \in 1..n /\ \A i \in 1..n : i \in 1..(n - 1) \/ i = n
  BY DEF Leads
<1> QED
  BY <1>1 DEF Leads

LEMMA ConsiderIs ==
  ASSUME NEW X, NEW p, NEW N \in Nat, NEW o \in X, \A i \in 1..N : Worth(p, o, i) \in 0..4 /\ p[i].q \in Nat,
         NEW a \in Nat, NEW d \in Dicts(X, Entries), NEW n \in 1..N,
         NEW e, e = Consider(d, o, a, p[n])
  PROVE  Considered(e, d, X, p, n, o, a)
<1>1. PICK s \in 0..4 : s = Worth(p, o, n)
  OBVIOUS
<1>2. PICK entry \in Entries : entry = EntryOf(p, o, n, a)
  <2>1. EntryOf(p, o, n, a) \in Entries
    BY DEF EntryOf, Entries
  <2> QED
    BY <2>1
<1>3. e = IF s = 0 \/ (o \in DOMAIN d /\ s <= d[o].specificity) THEN d ELSE With(d, o, entry)
  BY <1>1, <1>2 DEF Consider, EntryOf, Worth
<1>4. n \in Nat /\ n # 0 /\ \A i \in 1..n : i \in 1..N /\ (i \in 1..(n - 1) \/ i = n)
  OBVIOUS
<1>5. CASE s = 0 \/ (o \in DOMAIN d /\ s <= d[o].specificity)
  <2>1. e = d
    BY <1>3, <1>5
  <2>2. ASSUME Knows(d, p, n - 1, o, a) PROVE Knows(d, p, n, o, a)
    <3>1. o \in DOMAIN d => \E j \in 1..(n - 1) : Leads(p, n - 1, o, j) /\ d[o] = EntryOf(p, o, j, a)
      BY <2>2 DEF Knows
    <3>2. ASSUME o \in DOMAIN d
          PROVE  \E j \in 1..n : Leads(p, n, o, j) /\ d[o] = EntryOf(p, o, j, a) /\ Worth(p, o, j) # 0
      <4>1. PICK j \in 1..(n - 1) : Leads(p, n - 1, o, j) /\ d[o] = EntryOf(p, o, j, a)
        BY <3>1, <3>2
      <4>2. j \in 1..N /\ j \in 1..n
        BY <1>4
      <4>3. d[o].specificity = Worth(p, o, j)
        BY <4>1 DEF EntryOf
      <4>4. Worth(p, o, n) <= Worth(p, o, j)
        BY <4>2, <4>3, <1>1, <1>5
      <4>5. Leads(p, n, o, j)
        BY <4>1, <4>4, <1>4, LeadsOn
      <4>6. Worth(p, o, j) # 0
        BY <4>1 DEF Leads
      <4> QED
        BY <4>1, <4>2, <4>5, <4>6
    <3>3. ASSUME NEW i \in 1..n, Worth(p, o, i) # 0 PROVE o \in DOMAIN d
      <4>1. CASE i \in 1..(n - 1)
        BY <4>1, <3>3, <2>2 DEF Knows
      <4>2. CASE i = n
        BY <4>2, <3>3, <1>1, <1>5
      <4> QED
        BY <4>1, <4>2, <1>4
    <3> QED
      BY <3>2, <3>3 DEF Knows
  <2> QED
    BY <2>1, <2>2 DEF Besides, Considered
<1>6. CASE s # 0 /\ (o \in DOMAIN d => ~(s <= d[o].specificity))
  <2>1. e = With(d, o, entry)
    BY <1>3, <1>6
  <2>2. Grown(e, X, Entries, d, o, entry)
    BY <2>1, WithIs
  <2>3. /\ e \in Dicts(X, Entries) /\ DOMAIN e = DOMAIN d \cup {o} /\ e[o] = entry
        /\ \A x \in DOMAIN d : x # o => e[x] = d[x]
    BY <2>2 DEF Grown
  <2>4. Besides(d, e, o)
    BY <2>3 DEF Besides
  <2>5. ASSUME Knows(d, p, n - 1, o, a) PROVE Knows(e, p, n, o, a)
    <3>1. ASSUME NEW i \in 1..(n - 1) PROVE Worth(p, o, i) < s
      <4>1. i \in 1..N
        BY <1>4
      <4>2. CASE o \notin DOMAIN d
        <5>1. Worth(p, o, i) = 0
          BY <4>2, <2>5 DEF Knows
        <5> QED
          BY <5>1, <1>6
      <4>3. CASE o \in DOMAIN d
        <5>1. PICK j \in 1..(n - 1) : Leads(p, n - 1, o, j) /\ d[o] = EntryOf(p, o, j, a)
          BY <4>3, <2>5 DEF Knows
        <5>2. j \in 1..N
          BY <1>4
        <5>3. d[o].specificity = Worth(p, o, j)
          BY <5>1 DEF EntryOf
        <5>4. Worth(p, o, i) <= Worth(p, o, j)
          BY <5>1 DEF Leads
        <5>5. PICK x \in Nat, y \in Nat : x = Worth(p, o, i) /\ y = Worth(p, o, j)
          BY <4>1, <5>2
        <5>6. x <= y /\ ~(s <= y)
          BY <5>3, <5>4, <5>5, <4>3, <1>6
        <5> QED
          BY <5>5, <5>6
      <4> QED
        BY <4>2, <4>3
    <3>2. n \in 1..n
      BY <1>4
    <3>3. \A i \in 1..n : Worth(p, o, i) <= Worth(p, o, n)
      <4> SUFFICES ASSUME NEW i \in 1..n PROVE Worth(p, o, i) <= Worth(p, o, n)
        OBVIOUS
      <4>1. PICK x \in Nat : x = Worth(p, o, i)
        BY <1>4
      <4> QED
        BY <4>1, <3>1, <1>1, <1>4
    <3>4. \A i \in 1..(n - 1) : Worth(p, o, i) # Worth(p, o, n)
      <4> SUFFICES ASSUME NEW i \in 1..(n - 1) PROVE Worth(p, o, i) # Worth(p, o, n)
        OBVIOUS
      <4>1. Worth(p, o, i) < s
        BY <3>1
      <4> QED
        BY <4>1, <1>1
    <3>5. Leads(p, n, o, n)
      BY <3>2, <3>3, <3>4, <1>1, <1>6 DEF Leads
    <3> QED
      BY <3>2, <3>5, <2>3, <1>1, <1>2, <1>6 DEF Knows
  <2>6. ~(o \in DOMAIN d /\ Worth(p, o, n) <= d[o].specificity)
    BY <1>1, <1>6
  <2> QED
    BY <2>3, <2>4, <2>5, <2>6 DEF Considered
<1> QED
  BY <1>5, <1>6

Worths(p, o) == \A i \in 1..Len(p) : Worth(p, o, i) \in 0..4 /\ p[i].q \in Nat

LEMMA ConsiderAllIs ==
  ASSUME NEW X, NEW Y, NEW p \in Seq(Y), NEW o \in X, Worths(p, o), NEW a \in Nat, NEW d \in Dicts(X, Entries),
         NEW e, e = ConsiderAll(d, o, a, p)
  PROVE  /\ e \in Dicts(X, Entries) /\ Besides(d, e, o)
         /\ o \notin DOMAIN d => Knows(e, p, Len(p), o, a)
         /\ o \in DOMAIN d /\ (\A i \in 1..Len(p) : Worth(p, o, i) <= d[o].specificity) => e = d
<1>1. PICK N \in Nat : N = Len(p)
  OBVIOUS
<1>2. PICK D : D = Dicts(X, Entries)
  OBVIOUS
<1>3. \A i \in 1..N : Worth(p, o, i) \in 0..4 /\ p[i].q \in Nat
  BY <1>1 DEF Worths
<1>4. ASSUME NEW n \in 1..N, NEW c \in D
      PROVE  /\ Consider(c, o, a, p[n]) \in D /\ Besides(c, Consider(c, o, a, p[n]), o)
             /\ Knows(c, p, n - 1, o, a) => Knows(Consider(c, o, a, p[n]), p, n, o, a)
             /\ o \in DOMAIN c /\ Worth(p, o, n) <= c[o].specificity => Consider(c, o, a, p[n]) = c
  <2>1. PICK g : g = Consider(c, o, a, p[n])
    OBVIOUS
  <2>2. c \in Dicts(X, Entries)
    BY <1>2
  <2>3. Considered(g, c, X, p, n, o, a)
    BY ONLY <2>1, <2>2, <1>3, N \in Nat, n \in 1..N, o \in X, a \in Nat, ConsiderIs
  <2> QED
    BY <2>1, <2>3, <1>2 DEF Considered
<1>5. PICK step \in [1..N -> [D -> D]] : \A n \in 1..N, c \in D : step[n][c] = Consider(c, o, a, p[n])
  <2>1. [n \in 1..N |-> [c \in D |-> Consider(c, o, a, p[n])]] \in [1..N -> [D -> D]]
    BY <1>4
  <2> QED
    BY <2>1
<1>6. PICK h \in [0..N -> D] : Steps(h, N, d, step)
  BY <1>2, Iterates
<1> DEFINE Is(f) == f = [n \in 0..Len(p) |-> IF n = 0 THEN d ELSE Consider(f[n - 1], o, a, p[n])]
<1>7. Is(h)
  <2>1. ASSUME NEW n \in 0..N PROVE h[n] = IF n = 0 THEN d ELSE Consider(h[n - 1], o, a, p[n])
    <3>1. CASE n = 0
      BY <3>1, <1>6 DEF Steps
    <3>2. CASE n # 0
      <4>1. n \in 1..N /\ n - 1 \in 0..N
        BY <3>2
      <4>2. PICK c \in D : c = h[n - 1]
        BY <4>1
      <4> QED
        BY <3>2, <4>1, <4>2, <1>5, <1>6 DEF Steps
    <3> QED
      BY <3>1, <3>2
  <2> QED
    BY <2>1, <1>1
<1>8. Is(CHOOSE f : Is(f))
  BY ONLY <1>7
<1>9. PICK f : f = (CHOOSE g : Is(g)) /\ Is(f)
  BY <1>8
<1>10. e = f[N]
  BY <1>1, <1>9 DEF ConsiderAll
<1>11. f[0] = d /\ \A n \in 1..N : f[n] = Consider(f[n - 1], o, a, p[n])
  <2>1. \A n \in 0..N : f[n] = IF n = 0 THEN d ELSE Consider(f[n - 1], o, a, p[n])
    BY <1>1, <1>9
  <2> QED
    BY ONLY <2>1, N \in Nat
<1> HIDE DEF Is
<1>12. PICK full : full = (o \in DOMAIN d /\ \A i \in 1..N : Worth(p, o, i) <= d[o].specificity)
  OBVIOUS
<1>13. PICK T : T = {n \in 0..N : /\ f[n] \in D /\ Besides(d, f[n], o)
                                  /\ o \notin DOMAIN d => Knows(f[n], p, n, o, a)
                                  /\ full => f[n] = d}
  OBVIOUS
<1>14. 0 \in T
  <2>1. Besides(d, d, o) /\ (o \notin DOMAIN d => Knows(d, p, 0, o, a))
    BY DEF Besides, Knows
  <2> QED
    BY <2>1, <1>2, <1>11, <1>13
<1>15. ASSUME NEW n \in 1..N, n - 1 \in T PROVE n \in T
  <2>1. n \in 0..N
    OBVIOUS
  <2>2. PICK c \in D : /\ c = f[n - 1] /\ Besides(d, c, o)
                       /\ o \notin DOMAIN d => Knows(c, p, n - 1, o, a)
                       /\ full => c = d
    BY <1>13, <1>15
  <2>3. PICK g : g = Consider(c, o, a, p[n]) /\ g = f[n]
    BY <2>2, <1>11
  <2>4. /\ g \in D /\ Besides(c, g, o)
        /\ Knows(c, p, n - 1, o, a) => Knows(g, p, n, o, a)
        /\ o \in DOMAIN c /\ Worth(p, o, n) <= c[o].specificity => g = c
    BY <2>3, <1>4
  <2>5. Besides(d, g, o)
    BY <2>2, <2>4 DEF Besides
  <2>6. full => g = d
    BY <2>2, <2>4, <1>12
  <2> QED
    BY <2>1, <2>2, <2>3, <2>4, <2>5, <2>6, <1>13
<1>16. \A n \in 0..N : n \in T
  BY <1>14, <1>15, UpTo
<1>17. N \in 0..N
  OBVIOUS
<1> QED
  BY <1>1, <1>2, <1>10, <1>12, <1>13, <1>16, <1>17

FirstOffer(offers, a) == \A b \in 1..(a - 1) : offers[b] # offers[a]
Matched(p, o)         == \E i \in 1..Len(p) : Worth(p, o, i) # 0
Finds(d, p, offers, n) ==
  /\ DOMAIN d = {offers[b] : b \in {c \in 1..n : Matched(p, offers[c])}}
  /\ \A a \in 1..n : FirstOffer(offers, a) /\ offers[a] \in DOMAIN d =>
       \E j \in 1..Len(p) : Leads(p, Len(p), offers[a], j) /\ d[offers[a]] = EntryOf(p, offers[a], j, a)

LEMMA OfferedFirst ==
  ASSUME NEW offers, NEW N \in Nat, NEW i \in 1..N
  PROVE  \E j \in 1..N : FirstOffer(offers, j) /\ offers[j] = offers[i]
<1>1. PICK T \in SUBSET Nat : T = {j \in 1..N : offers[j] = offers[i]}
  <2>1. {j \in 1..N : offers[j] = offers[i]} \in SUBSET Nat
    OBVIOUS
  <2> QED
    BY <2>1
<1>2. PICK j \in T : \A m \in T : j <= m
  BY <1>1, Least
<1>3. FirstOffer(offers, j) /\ offers[j] = offers[i]
  <2>1. ASSUME NEW m \in 1..(j - 1), offers[m] = offers[j] PROVE FALSE
    <3>1. m \in 1..N /\ ~(j <= m)
      BY <1>1
    <3> QED
      BY <3>1, <2>1, <1>1, <1>2
  <2> QED
    BY <2>1, <1>1 DEF FirstOffer
<1> QED
  BY <1>1, <1>3

LEMMA FindsOn ==
  ASSUME NEW X, NEW Y, NEW p \in Seq(Y), NEW offers \in Seq(X), \A o \in X : Worths(p, o),
         NEW n \in 1..Len(offers), NEW c \in Dicts(X, Entries), Finds(c, p, offers, n - 1),
         NEW e, e = ConsiderAll(c, offers[n], n, p)
  PROVE  e \in Dicts(X, Entries) /\ Finds(e, p, offers, n)
<1>1. PICK o \in X : o = offers[n]
  BY ElementOfSeq
<1>2. /\ e \in Dicts(X, Entries) /\ Besides(c, e, o)
      /\ o \notin DOMAIN c => Knows(e, p, Len(p), o, n)
      /\ o \in DOMAIN c /\ (\A i \in 1..Len(p) : Worth(p, o, i) <= c[o].specificity) => e = c
  <2>1. n \in Nat /\ Worths(p, o) /\ e = ConsiderAll(c, o, n, p)
    BY <1>1
  <2> QED
    BY ONLY <2>1, p \in Seq(Y), o \in X, c \in Dicts(X, Entries), ConsiderAllIs
<1>3. \A a \in 1..n : a \in 1..(n - 1) \/ a = n
  OBVIOUS
<1>4. DOMAIN c = {offers[b] : b \in {a \in 1..(n - 1) : Matched(p, offers[a])}}
  BY DEF Finds
<1>5. \A a \in 1..(n - 1) : FirstOffer(offers, a) /\ offers[a] \in DOMAIN c =>
        \E j \in 1..Len(p) : Leads(p, Len(p), offers[a], j) /\ c[offers[a]] = EntryOf(p, offers[a], j, a)
  BY DEF Finds
<1>6. n - 1 \in Nat /\ n \in 1..n /\ \A a \in 1..(n - 1) : a \in 1..n
  OBVIOUS
<1>7. CASE o \in DOMAIN c
  <2>1. PICK b \in 1..(n - 1) : offers[b] = o /\ Matched(p, o)
    BY <1>4, <1>7
  <2>2. PICK a \in 1..(n - 1) : FirstOffer(offers, a) /\ offers[a] = offers[b]
    BY <1>6, OfferedFirst
  <2>3. PICK j \in 1..Len(p) : Leads(p, Len(p), o, j) /\ c[o] = EntryOf(p, o, j, a)
    BY <2>1, <2>2, <1>5, <1>7
  <2>4. c[o].specificity = Worth(p, o, j)
    BY <2>3 DEF EntryOf
  <2>5. e = c
    BY <2>3, <2>4, <1>2, <1>7 DEF Leads
  <2>6. ~FirstOffer(offers, n)
    BY <2>1, <1>1 DEF FirstOffer
  <2>7. DOMAIN c = {offers[m] : m \in {k \in 1..n : Matched(p, offers[k])}}
    BY <1>1, <1>3, <1>4, <1>6, <1>7
  <2>8. Finds(c, p, offers, n)
    BY <2>6, <2>7, <1>3, <1>5 DEF Finds
  <2> QED
    BY <2>5, <2>8
<1>8. CASE o \notin DOMAIN c
  <2>1. o \in DOMAIN e <=> Matched(p, o)
    BY <1>2, <1>8 DEF Knows, Matched
  <2>2. o \in DOMAIN e => \E j \in 1..Len(p) : Leads(p, Len(p), o, j) /\ e[o] = EntryOf(p, o, j, n)
    BY <1>2, <1>8 DEF Knows
  <2>3. \A x : x # o => (x \in DOMAIN e <=> x \in DOMAIN c) /\ (x \in DOMAIN c => e[x] = c[x])
    BY <1>2 DEF Besides
  <2>4. DOMAIN e = {offers[m] : m \in {k \in 1..n : Matched(p, offers[k])}}
    <3>1. ASSUME NEW x \in DOMAIN e PROVE \E m \in 1..n : x = offers[m] /\ Matched(p, offers[m])
      <4>1. CASE x = o
        BY <4>1, <2>1, <1>1, <1>6
      <4>2. CASE x # o
        <5>1. x \in DOMAIN c
          BY <4>2, <2>3
        <5> QED
          BY <5>1, <1>4, <1>6
      <4> QED
        BY <4>1, <4>2
    <3>2. ASSUME NEW m \in 1..n, Matched(p, offers[m]) PROVE offers[m] \in DOMAIN e
      <4>1. CASE offers[m] = o
        BY <4>1, <3>2, <2>1
      <4>2. CASE offers[m] # o
        <5>1. m \in 1..(n - 1)
          BY <4>2, <1>1, <1>3
        <5>2. offers[m] \in DOMAIN c
          BY <5>1, <3>2, <1>4
        <5> QED
          BY <4>2, <5>2, <2>3
      <4> QED
        BY <4>1, <4>2
    <3> QED
      BY <3>1, <3>2
  <2>5. ASSUME NEW a \in 1..n, FirstOffer(offers, a), offers[a] \in DOMAIN e
        PROVE  \E j \in 1..Len(p) : Leads(p, Len(p), offers[a], j) /\ e[offers[a]] = EntryOf(p, offers[a], j, a)
    <3>1. CASE a = n
      BY <3>1, <2>2, <2>5, <1>1
    <3>2. CASE a \in 1..(n - 1) /\ offers[a] = o
      <4>1. Matched(p, o)
        BY <3>2, <2>1, <2>5
      <4>2. o \in DOMAIN c
        BY <3>2, <4>1, <1>4
      <4> QED
        BY <4>2, <1>8
    <3>3. CASE a \in 1..(n - 1) /\ offers[a] # o
      <4>1. offers[a] \in DOMAIN c /\ e[offers[a]] = c[offers[a]]
        BY <3>3, <2>3, <2>5
      <4> QED
        BY <3>3, <4>1, <2>5, <1>5
    <3> QED
      BY <3>1, <3>2, <3>3, <1>3
  <2> QED
    BY <2>4, <2>5, <1>2 DEF Finds
<1> QED
  BY <1>7, <1>8

LEMMA FoundIs ==
  ASSUME NEW X, NEW Y, NEW p \in Seq(Y), NEW offers \in Seq(X), \A o \in X : Worths(p, o),
         NEW e, e = Found(p, offers)
  PROVE  e \in Dicts(X, Entries) /\ Finds(e, p, offers, Len(offers))
<1>1. PICK M \in Nat : M = Len(offers)
  OBVIOUS
<1>2. PICK D : D = Dicts(X, Entries)
  OBVIOUS
<1>3. ASSUME NEW n \in 1..M, NEW c \in D PROVE ConsiderAll(c, offers[n], n, p) \in D
  <2>1. PICK o \in X : o = offers[n]
    BY <1>1, ElementOfSeq
  <2>2. PICK g : g = ConsiderAll(c, o, n, p)
    OBVIOUS
  <2>3. c \in Dicts(X, Entries) /\ n \in Nat /\ Worths(p, o)
    BY <1>2
  <2>4. g \in Dicts(X, Entries)
    BY ONLY <2>2, <2>3, p \in Seq(Y), o \in X, ConsiderAllIs
  <2> QED
    BY <2>1, <2>2, <2>4, <1>2
<1>4. PICK step \in [1..M -> [D -> D]] : \A n \in 1..M, c \in D : step[n][c] = ConsiderAll(c, offers[n], n, p)
  <2>1. [n \in 1..M |-> [c \in D |-> ConsiderAll(c, offers[n], n, p)]] \in [1..M -> [D -> D]]
    BY <1>3
  <2> QED
    BY <2>1
<1>5. <<>> \in D
  BY <1>2, DictsHave
<1>6. PICK h \in [0..M -> D] : Steps(h, M, <<>>, step)
  BY <1>5, Iterates
<1> DEFINE Is(f) == f = [n \in 0..Len(offers) |-> IF n = 0 THEN <<>> ELSE ConsiderAll(f[n - 1], offers[n], n, p)]
<1>7. Is(h)
  <2>1. ASSUME NEW n \in 0..M PROVE h[n] = IF n = 0 THEN <<>> ELSE ConsiderAll(h[n - 1], offers[n], n, p)
    <3>1. CASE n = 0
      BY <3>1, <1>6 DEF Steps
    <3>2. CASE n # 0
      <4>1. n \in 1..M /\ n - 1 \in 0..M
        BY <3>2
      <4>2. PICK c \in D : c = h[n - 1]
        BY <4>1
      <4> QED
        BY <3>2, <4>1, <4>2, <1>4, <1>6 DEF Steps
    <3> QED
      BY <3>1, <3>2
  <2> QED
    BY <2>1, <1>1
<1>8. Is(CHOOSE f : Is(f))
  BY ONLY <1>7
<1>9. PICK f : f = (CHOOSE g : Is(g)) /\ Is(f)
  BY <1>8
<1>10. e = f[M]
  BY <1>1, <1>9 DEF Found
<1>11. f[0] = <<>> /\ \A n \in 1..M : f[n] = ConsiderAll(f[n - 1], offers[n], n, p)
  <2>1. \A n \in 0..M : f[n] = IF n = 0 THEN <<>> ELSE ConsiderAll(f[n - 1], offers[n], n, p)
    BY <1>1, <1>9
  <2> QED
    BY ONLY <2>1, M \in Nat
<1> HIDE DEF Is
<1>12. PICK T : T = {n \in 0..M : f[n] \in D /\ Finds(f[n], p, offers, n)}
  OBVIOUS
<1>13. 0 \in T
  <2>1. Finds(<<>>, p, offers, 0)
    BY DictsHave DEF Finds
  <2> QED
    BY <2>1, <1>5, <1>11, <1>12
<1>14. ASSUME NEW n \in 1..M, n - 1 \in T PROVE n \in T
  <2>1. n \in 0..M /\ n \in 1..Len(offers)
    BY <1>1
  <2>2. PICK c \in D : c = f[n - 1] /\ Finds(c, p, offers, n - 1)
    BY <1>12, <1>14
  <2>3. PICK g : g = ConsiderAll(c, offers[n], n, p) /\ g = f[n]
    BY <2>2, <1>11
  <2>4. c \in Dicts(X, Entries)
    BY <1>2
  <2>5. g \in Dicts(X, Entries) /\ Finds(g, p, offers, n)
    BY <2>1, <2>2, <2>3, <2>4, FindsOn
  <2> QED
    BY <2>1, <2>3, <2>5, <1>2, <1>12
<1>15. \A n \in 0..M : n \in T
  BY <1>13, <1>14, UpTo
<1>16. M \in 0..M
  OBVIOUS
<1> QED
  BY <1>1, <1>2, <1>10, <1>12, <1>15, <1>16

LEMMA MediaOffersServe ==
  ASSUME kind = "accept", Valid(kind, environ), NEW Y, NEW p \in Seq(Y), Media(p),
         NEW offers \in Seq(Offers["accept"]),
         NEW S, S = {n \in DOMAIN offers : Weight(p, offers[n]) # 0 /\ FirstOffer(offers, n)},
         NEW found, found = MediaOffers(p, offers)
  PROVE  \E at : Serves(found, at, offers, S, p)
<1>1. PICK N \in Nat : N = Len(offers) /\ DOMAIN offers = 1..N
  OBVIOUS
<1>2. PICK X : X = Offers["accept"]
  OBVIOUS
<1>3. ASSUME NEW o \in X PROVE Mediatype(o) /\ Worths(p, o)
  <2>1. "accept" \in Kinds
    BY DEF Kinds
  <2>2. Mediatype(o)
    BY <2>1, <1>2, StarIsNoHead, HeadersAssumption DEF Mediatype
  <2>3. \A i \in 1..Len(p) : Worth(p, o, i) \in 0..4
    BY DEF Worth, Specificity
  <2> QED
    BY <2>2, <2>3 DEF Worths, Media
<1>4. PICK d : d = Found(p, offers)
  OBVIOUS
<1>5. d \in Dicts(X, Entries) /\ Finds(d, p, offers, N)
  <2>1. offers \in Seq(X) /\ \A o \in X : Worths(p, o)
    BY <1>2, <1>3
  <2>2. d \in Dicts(X, Entries) /\ Finds(d, p, offers, Len(offers))
    BY ONLY <2>1, <1>4, p \in Seq(Y), FoundIs
  <2> QED
    BY <2>2, <1>1
<1>6. \A i \in 1..N : offers[i] \in X
  BY <1>1, <1>2
<1>7. DOMAIN d = {offers[b] : b \in {c \in 1..N : Matched(p, offers[c])}}
  BY <1>5 DEF Finds
<1>8. ASSUME NEW a \in 1..N, FirstOffer(offers, a), offers[a] \in DOMAIN d
      PROVE  d[offers[a]].q = Weight(p, offers[a]) /\ d[offers[a]].at = a /\ Weight(p, offers[a]) \in Nat
  <2>1. PICK j \in 1..Len(p) : Leads(p, Len(p), offers[a], j) /\ d[offers[a]] = EntryOf(p, offers[a], j, a)
    BY <1>5, <1>8 DEF Finds
  <2>2. PICK o \in X : o = offers[a]
    BY <1>6
  <2>3. Mediatype(o)
    BY <1>3
  <2>4. Weight(p, o) = p[j].q
    BY <2>1, <2>2, <2>3, MediaWeightIs
  <2>5. p[j].q \in Nat
    BY DEF Media
  <2> QED
    BY <2>1, <2>2, <2>4, <2>5 DEF EntryOf
<1>9. ASSUME NEW a \in 1..N, Weight(p, offers[a]) # 0 PROVE offers[a] \in DOMAIN d
  <2>1. PICK o \in X : o = offers[a]
    BY <1>6
  <2>2. Mediatype(o)
    BY <1>3
  <2>3. PICK j \in 1..Len(p) : Leads(p, Len(p), o, j)
    BY <1>9, <2>1, <2>2, MediaWeightIs
  <2>4. Matched(p, o)
    BY <2>3 DEF Leads, Matched
  <2> QED
    BY <2>1, <2>4, <1>7
<1>10. S \in SUBSET (1..N) /\ \A i \in S : Weight(p, offers[i]) # 0 /\ FirstOffer(offers, i) /\ i \in Nat /\ i \in 1..N
  BY <1>1
<1>11. {d[o].at : o \in {x \in DOMAIN d : d[x].q # 0}} = S
  <2>1. ASSUME NEW o \in DOMAIN d, d[o].q # 0 PROVE d[o].at \in S
    <3>1. PICK b \in 1..N : offers[b] = o
      BY <1>7
    <3>2. PICK a \in 1..N : FirstOffer(offers, a) /\ offers[a] = offers[b]
      BY OfferedFirst
    <3>3. d[o].q = Weight(p, offers[a]) /\ d[o].at = a
      BY <3>1, <3>2, <1>8
    <3> QED
      BY <3>2, <3>3, <2>1, <1>1
  <2>2. ASSUME NEW i \in S PROVE \E o \in DOMAIN d : d[o].q # 0 /\ d[o].at = i
    <3>1. offers[i] \in DOMAIN d
      BY <1>9, <1>10
    <3>2. d[offers[i]].q # 0 /\ d[offers[i]].at = i
      BY <3>1, <1>8, <1>10
    <3> QED
      BY <3>1, <3>2
  <2> QED
    BY <2>1, <2>2
<1>12. PICK full : full = [i \in 1..N |-> [offer |-> offers[i], at |-> i]]
  OBVIOUS
<1>13. PICK Z : Z = [offer : X, at : Nat]
  OBVIOUS
<1>14. full \in Seq(Z) /\ Len(full) = N /\ \A i \in 1..N : full[i] = [offer |-> offers[i], at |-> i]
  <2>1. full \in [1..N -> Z]
    BY <1>6, <1>12, <1>13
  <2> QED
    BY <2>1, <1>12
<1>15. PICK n \in Nat : \E r \in [1..n -> S] : Enumerates(r, n, S)
  BY <1>10, <1>14, ChosenPlaces
<1>16. PICK r \in [1..n -> S] : Enumerates(r, n, S)
  BY <1>15
<1>17. PICK kept : kept = Chosen(full, S)
  OBVIOUS
<1>18. kept \in Seq(Z) /\ Len(kept) = n /\ \A c \in 1..n : r[c] \in 1..N /\ r[c] \in S /\ kept[c] = full[r[c]]
  <2>1. full \in Seq(Z) /\ S \in SUBSET (1..Len(full))
    BY <1>10, <1>14
  <2>2. /\ Chosen(full, S) \in Seq(Z) /\ Len(Chosen(full, S)) = n
        /\ \A c \in 1..n : r[c] \in S /\ r[c] \in 1..Len(full) /\ Chosen(full, S)[c] = full[r[c]]
    BY ONLY <2>1, <1>16, n \in Nat, ChosenAlong
  <2> QED
    BY <2>2, <1>14, <1>17
<1>19. PICK es : es = [k \in 1..n |-> [offer |-> kept[k].offer, q |-> d[kept[k].offer].q, at |-> kept[k].at]]
  OBVIOUS
<1>20. found = ByWeight(es)
  <2>1. full = [i \in 1..Len(offers) |-> [offer |-> offers[i], at |-> i]]
    BY <1>1, <1>12
  <2>2. kept = Chosen([i \in 1..Len(offers) |-> [offer |-> offers[i], at |-> i]],
                      {d[o].at : o \in {x \in DOMAIN d : d[x].q # 0}})
    BY <2>1, <1>11, <1>17
  <2>3. found = ByWeight([k \in 1..Len(kept) |-> [offer |-> kept[k].offer, q |-> d[kept[k].offer].q,
                                                  at |-> kept[k].at]])
    BY <2>2, <1>4 DEF MediaOffers
  <2> QED
    BY <2>3, <1>18, <1>19
<1>21. PICK e : e = [i \in 1..N |-> [offer |-> offers[i], q |-> Weight(p, offers[i]), at |-> i]]
  OBVIOUS
<1>22. ASSUME NEW i \in S
       PROVE  /\ e[i].offer = offers[i] /\ e[i].q = Weight(p, offers[i]) /\ e[i].at = i
              /\ Weight(p, offers[i]) \in Nat /\ i \in Nat /\ d[offers[i]].q = Weight(p, offers[i])
  <2>1. i \in 1..N
    BY <1>10
  <2>2. e[i].offer = offers[i] /\ e[i].q = Weight(p, offers[i]) /\ e[i].at = i
    BY <2>1, <1>21
  <2> QED
    BY <2>1, <2>2, <1>8, <1>9, <1>10
<1>23. Len(es) = n
  <2>1. PICK W : W = {[offer |-> kept[k].offer, q |-> d[kept[k].offer].q, at |-> kept[k].at] : k \in 1..n}
    OBVIOUS
  <2>2. es \in [1..n -> W]
    BY <1>19, <2>1
  <2> QED
    BY ONLY <2>2, n \in Nat
<1>24. ASSUME NEW c \in 1..n
       PROVE  es[c].offer = e[r[c]].offer /\ es[c].q = e[r[c]].q /\ es[c].at = e[r[c]].at
  <2>1. PICK i \in S : i = r[c] /\ kept[c] = full[i] /\ i \in 1..N
    BY <1>18
  <2>2. kept[c].offer = offers[i] /\ kept[c].at = i
    BY <2>1, <1>14
  <2>3. es[c] = [offer |-> kept[c].offer, q |-> d[kept[c].offer].q, at |-> kept[c].at]
    BY <1>19
  <2>4. es[c].offer = kept[c].offer /\ es[c].at = kept[c].at /\ es[c].q = d[kept[c].offer].q
    BY ONLY <2>3
  <2>5. e[i].offer = offers[i] /\ e[i].q = Weight(p, offers[i]) /\ e[i].at = i /\ d[offers[i]].q = Weight(p, offers[i])
    BY <1>22
  <2>6. es[c].offer = e[i].offer /\ es[c].q = e[i].q /\ es[c].at = e[i].at
    BY ONLY <2>2, <2>4, <2>5
  <2> QED
    BY ONLY <2>1, <2>6
<1>25. PICK at : Lists(found, at, n, S, e)
  <2>1. \A i \in S : e[i].q \in Nat /\ e[i].at \in Nat
    BY <1>22
  <2>2. S \in SUBSET (1..N)
    BY <1>10
  <2> QED
    BY ONLY <2>1, <2>2, <1>16, <1>20, <1>23, <1>24, n \in Nat, N \in Nat, ByWeightIs
<1>26. Serves(found, at, offers, S, p)
  <2>1. S \in SUBSET (1..N)
    BY <1>10
  <2>2. \A i \in S : /\ e[i].offer = offers[i] /\ e[i].q = Weight(p, offers[i]) /\ e[i].at = i
                     /\ Weight(p, offers[i]) \in Nat
    BY <1>22
  <2> QED
    BY ONLY <2>1, <2>2, <1>25, n \in Nat, N \in Nat, ListsServe
<1> QED
  BY <1>26

---------------------------------------------------------------------------
(* The answers of all kinds of header.                                      *)

LEMMA AllOffersServe ==
  ASSUME ~Valid(kind, environ), NEW p, NEW Y, NEW offers \in Seq(Y), NEW found, found = AllOffers(offers)
  PROVE  \E at : Serves(found, at, offers, DOMAIN offers, p)
<1>1. PICK N \in Nat : N = Len(offers) /\ DOMAIN offers = 1..N
  OBVIOUS
<1>2. \A o : Weight(p, o) = MaxQ
  BY DEF Weight
<1>3. found = [i \in 1..N |-> [offer |-> offers[i], q |-> MaxQ]]
  BY <1>1 DEF AllOffers
<1>4. PICK at : at = [i \in 1..N |-> i]
  OBVIOUS
<1>5. DOMAIN found = 1..N /\ at \in [1..N -> 1..N] /\ \A i \in 1..N : at[i] = i
  BY <1>3, <1>4
<1>6. {at[i] : i \in 1..N} = 1..N
  BY <1>5
<1>7. \A i \in 1..N : found[i] = [offer |-> offers[at[i]], q |-> Weight(p, offers[at[i]])]
  BY <1>2, <1>3, <1>5
<1>8. \A i, j \in 1..N : i < j => Weight(p, offers[at[i]]) = Weight(p, offers[at[j]]) /\ at[i] < at[j]
  BY <1>2, <1>5
<1> QED
  BY <1>1, <1>5, <1>6, <1>7, <1>8 DEF Serves

LEMMA OffersServed ==
  ASSUME AcceptInv, kind # "language", NEW offers \in OfferLists,
         NEW p, p = Parsed(kind, environ),
         NEW S, S = {n \in DOMAIN offers :
                       /\ Weight(p, offers[n]) # 0
                       /\ kind = "accept" /\ Valid(kind, environ) => FirstOffer(offers, n)},
         NEW found, found = Acceptable(kind, environ, offers)
  PROVE  \E at : Serves(found, at, offers, S, p)
<1>1. kind \in Kinds /\ environ \in Seq(Item(kind))
  BY DEF AcceptInv
<1>2. PICK k : k = kind
  OBVIOUS
<1>3. offers \in Seq(Offers[k]) /\ k \in Kinds /\ environ \in Seq(Item(k)) /\ p = Parsed(k, environ)
  BY <1>1, <1>2, OfferedTags
<1>4. /\ p \in Seq(Parseds(k))
      /\ \A i \in 1..Len(p) : /\ p[i].range \in Ranges[k] /\ p[i].range \in Seq(STRING) /\ p[i].range # <<>>
                              /\ p[i].q \in 0..MaxQ /\ p[i].q \in Nat
  BY ONLY <1>3, ParsedHas
<1>5. CASE ~Valid(kind, environ)
  <2>1. found = AllOffers(offers)
    BY <1>5 DEF Acceptable
  <2>2. S = DOMAIN offers
    <3>1. \A o : Weight(p, o) = MaxQ
      BY <1>5 DEF Weight
    <3>2. MaxQ # 0
      BY NegotiationAssumption
    <3> QED
      BY <3>1, <3>2, <1>5
  <2> QED
    BY <2>1, <2>2, <1>3, <1>5, AllOffersServe
<1>6. CASE Valid(kind, environ) /\ kind = "accept"
  <2>1. found = MediaOffers(p, offers)
    BY <1>6 DEF Acceptable
  <2>2. S = {n \in DOMAIN offers : Weight(p, offers[n]) # 0 /\ FirstOffer(offers, n)}
    BY <1>6
  <2>3. Media(p)
    BY <1>2, <1>4, <1>6, HeadersAssumption DEF Media
  <2>4. kind = "accept" /\ Valid(kind, environ) /\ offers \in Seq(Offers["accept"])
    BY <1>2, <1>3, <1>6
  <2> QED
    BY ONLY <2>1, <2>2, <2>3, <2>4, <1>4, MediaOffersServe
<1>7. CASE Valid(kind, environ) /\ kind # "accept"
  <2>1. kind \in {"charset", "encoding"}
    BY <1>1, <1>7 DEF Kinds
  <2>2. found = CodingOffers(p, offers, kind = "encoding")
    <3>1. CASE kind = "charset"
      <4>1. found = CodingOffers(p, offers, FALSE)
        BY <3>1, <1>7 DEF Acceptable
      <4>2. (kind = "encoding") = FALSE
        BY <3>1
      <4> QED
        BY <4>1, <4>2
    <3>2. CASE kind = "encoding"
      <4>1. found = CodingOffers(p, offers, TRUE)
        BY <3>2, <1>7 DEF Acceptable
      <4>2. (kind = "encoding") = TRUE
        BY <3>2
      <4> QED
        BY <4>1, <4>2
    <3> QED
      BY <3>1, <3>2, <2>1
  <2>3. S = {n \in DOMAIN offers : Weight(p, offers[n]) # 0}
    BY <1>7
  <2>4. PICK R : R = Ranges[k]
    OBVIOUS
  <2>5. \A i \in 1..Len(p) : p[i].range \in R /\ p[i].q \in Nat
    BY <1>4, <2>4
  <2>6. Valid(kind, environ)
    BY <1>7
  <2> QED
    BY ONLY <2>1, <2>2, <2>3, <2>5, <2>6, <1>3, <1>4, CodingOffersServe
<1> QED
  BY <1>5, <1>6, <1>7

LEMMA OffersAnswered == AcceptInv => OffersAsSpecified
<1> SUFFICES ASSUME AcceptInv, kind # "language", NEW offers \in OfferLists
             PROVE  LET p         == Parsed(kind, environ)
                        weight(n) == Weight(p, offers[n])
                        first(n)  == \A m \in 1..(n - 1) : offers[m] # offers[n]
                        served    == {n \in DOMAIN offers :
                                        weight(n) # 0 /\ (kind = "accept" /\ Valid(kind, environ) => first(n))}
                        before(m, n) == weight(m) > weight(n) \/ (weight(m) = weight(n) /\ m < n)
                    IN  Arranged(Acceptable(kind, environ, offers), offers, served, weight, before)
  BY DEF OffersAsSpecified
<1>1. PICK p : p = Parsed(kind, environ)
  OBVIOUS
<1>2. PICK S : S = {n \in DOMAIN offers :
                      /\ Weight(p, offers[n]) # 0
                      /\ kind = "accept" /\ Valid(kind, environ) => FirstOffer(offers, n)}
  OBVIOUS
<1>3. PICK found : found = Acceptable(kind, environ, offers)
  OBVIOUS
<1>4. PICK at : Serves(found, at, offers, S, p)
  BY <1>1, <1>2, <1>3, OffersServed
<1>5. /\ at \in [DOMAIN found -> S]
      /\ {at[i] : i \in DOMAIN found} = S
      /\ \A i \in DOMAIN found : found[i] = [offer |-> offers[at[i]], q |-> Weight(p, offers[at[i]])]
      /\ \A i, j \in DOMAIN found :
           i < j => \/ Weight(p, offers[at[i]]) > Weight(p, offers[at[j]])
                    \/ Weight(p, offers[at[i]]) = Weight(p, offers[at[j]]) /\ at[i] < at[j]
  BY <1>4 DEF Serves
<1>6. S = {n \in DOMAIN offers : Weight(p, offers[n]) # 0 /\ (kind = "accept" /\ Valid(kind, environ) =>
                                    \A m \in 1..(n - 1) : offers[m] # offers[n])}
  BY <1>2 DEF FirstOffer
<1> QED
  BY <1>1, <1>3, <1>5, <1>6 DEF Arranged

LEMMA TagsFound ==
  ASSUME AcceptInv, kind = "language", NEW tags \in OfferLists,
         NEW p, p = Parsed(kind, environ),
         NEW S, S = {n \in DOMAIN tags : Refusing(p, tags[n]) = {} /\ Accepting(p, tags[n]) # {}},
         NEW found, found = Acceptable(kind, environ, tags)
  PROVE  \E at : Filters(found, at, tags, S, p)
<1>1. PICK k \in Kinds : k = "language" /\ k = kind
  BY DEF Kinds
<1>2. environ \in Seq(Item(k)) /\ p = Parsed(k, environ) /\ kind \in Kinds
  BY <1>1 DEF AcceptInv
<1>3. p \in Seq(Parseds(k)) /\ Weighted(p)
  BY <1>2, ParsedHas DEF Weighted
<1>4. tags \in Seq(Offers[k])
  BY <1>1, <1>2, OfferedTags
<1>5. found = BasicFiltering(p, tags)
  BY DEF Acceptable
<1> QED
  BY ONLY <1>3, <1>4, <1>5, k \in Kinds,
          S = {n \in DOMAIN tags : Refusing(p, tags[n]) = {} /\ Accepting(p, tags[n]) # {}}, FilteringFilters

LEMMA TagsFiltered == AcceptInv => FilteringAsSpecified
<1> DEFINE p == Parsed(kind, environ)
<1> SUFFICES ASSUME AcceptInv, kind = "language", NEW tags \in OfferLists
             PROVE  LET best(n)   == Best(p, Accepting(p, tags[n]))
                        weight(n) == p[best(n)].q
                        served    == {n \in DOMAIN tags : Refusing(p, tags[n]) = {} /\ Accepting(p, tags[n]) # {}}
                        before(m, n) == IF best(m) = best(n) THEN m < n ELSE Better(p, best(m), best(n))
                    IN  Arranged(Acceptable(kind, environ, tags), tags, served, weight, before)
  BY DEF FilteringAsSpecified
<1>1. p = Parsed(kind, environ)
  OBVIOUS
<1> HIDE DEF p
<1>2. PICK S : S = {n \in DOMAIN tags : Refusing(p, tags[n]) = {} /\ Accepting(p, tags[n]) # {}}
  OBVIOUS
<1>3. PICK found : found = Acceptable(kind, environ, tags)
  OBVIOUS
<1>4. PICK at : Filters(found, at, tags, S, p)
  BY <1>1, <1>2, <1>3, TagsFound
<1>5. /\ at \in [DOMAIN found -> S]
      /\ {at[i] : i \in DOMAIN found} = S
      /\ \A i \in DOMAIN found :
           found[i] = [offer |-> tags[at[i]], q |-> p[Best(p, Accepting(p, tags[at[i]]))].q]
      /\ \A i, j \in DOMAIN found :
           i < j => IF Best(p, Accepting(p, tags[at[i]])) = Best(p, Accepting(p, tags[at[j]])) THEN at[i] < at[j]
                    ELSE Better(p, Best(p, Accepting(p, tags[at[i]])), Best(p, Accepting(p, tags[at[j]])))
  BY <1>4 DEF Filters
<1>6. LET best(n)   == Best(p, Accepting(p, tags[n]))
          weight(n) == p[best(n)].q
          before(m, n) == IF best(m) = best(n) THEN m < n ELSE Better(p, best(m), best(n))
      IN  Arranged(found, tags, S, weight, before)
  BY <1>5 DEF Arranged
<1> QED
  BY <1>2, <1>3, <1>6

(* For every header and every list of offers, the loops answer what the     *)
(* loop-free definitions say (AnswersAsSpecified).                          *)
THEOREM AcceptAnswers == AcceptSpec => []AnswersAsSpecified
<1>1. AcceptSpec => [](AcceptInv /\ LookupAsSpecified)
  BY AcceptInvariant, AcceptLooksUp, PTL
<1>2. AcceptInv /\ LookupAsSpecified => AnswersAsSpecified
  BY OffersAnswered, TagsFiltered DEF AnswersAsSpecified
<1> QED
  BY <1>1, <1>2, PTL

---------------------------------------------------------------------------
(* The deprecated methods.  A match of an offer with a range is a record of *)
(* what the loop of best_match keeps; one is above another if it replaces   *)
(* it.                                                                      *)
Bests(X)        == [offer : X, quality : Int, stars : Int]
RatedMatch(o, x) == [offer |-> o.offer, quality |-> o.sq * x.q, stars |-> Stars(x.range)]
Above(g, c)     == Surpasses(g.quality, g.stars, c)
Meets(k, o, x)  == OldMatch(k, x.range, o.offer)

LEMMA AboveOrders ==
  ASSUME NEW X, NEW g \in Bests(X), NEW c \in Bests(X), NEW e \in Bests(X)
  PROVE  /\ ~Above(g, g)
         /\ Above(g, c) => ~Above(c, g)
         /\ Above(g, c) /\ ~Above(e, c) => Above(g, e)
         /\ ~Above(e, c) /\ Above(g, c) => ~Above(e, g)
         /\ ~Above(g, c) /\ ~Above(c, e) => ~Above(g, e)
<1>1. /\ g.quality \in Int /\ c.quality \in Int /\ e.quality \in Int
      /\ g.stars \in Int /\ c.stars \in Int /\ e.stars \in Int
  BY DEF Bests
<1> QED
  BY ONLY <1>1 DEF Above, Surpasses

(* The matches of one offer: what is kept is one of them that is above what *)
(* there was, or what there was, and none is above it.                      *)
Tries(k, o, M, n, c, e) ==
  /\ e = c \/ (Above(e, c) /\ \E j \in 1..n : Meets(k, o, M[j]) /\ e = RatedMatch(o, M[j]))
  /\ \A j \in 1..n : Meets(k, o, M[j]) => ~Above(RatedMatch(o, M[j]), e)

Rates(X, o, M) == \A j \in 1..Len(M) : RatedMatch(o, M[j]) \in Bests(X)

LEMMA TriedIs ==
  ASSUME NEW b, NEW k, NEW o, NEW x, NEW e, e = Tried(k, b, o, x)
  PROVE  e = IF Above(RatedMatch(o, x), b) /\ Meets(k, o, x) THEN RatedMatch(o, x) ELSE b
BY DEF Tried, Above, RatedMatch, Meets

LEMMA TriesOn ==
  ASSUME NEW X, NEW k, NEW o, NEW M, NEW N \in Nat, \A j \in 1..N : RatedMatch(o, M[j]) \in Bests(X),
         NEW n \in 1..N, NEW c \in Bests(X), NEW b \in Bests(X), Tries(k, o, M, n - 1, c, b),
         NEW e, e = Tried(k, b, o, M[n])
  PROVE  e \in Bests(X) /\ Tries(k, o, M, n, c, e)
<1>1. PICK r \in Bests(X) : r = RatedMatch(o, M[n])
  OBVIOUS
<1>2. e = IF Above(r, b) /\ Meets(k, o, M[n]) THEN r ELSE b
  BY <1>1, TriedIs
<1>3. \A j \in 1..n : j = n \/ j \in 1..(n - 1)
  OBVIOUS
<1>4. n \in 1..n /\ \A j \in 1..(n - 1) : j \in 1..n /\ j \in 1..N
  OBVIOUS
<1>5. /\ b = c \/ (Above(b, c) /\ \E j \in 1..(n - 1) : Meets(k, o, M[j]) /\ b = RatedMatch(o, M[j]))
      /\ \A j \in 1..(n - 1) : Meets(k, o, M[j]) => ~Above(RatedMatch(o, M[j]), b)
  BY DEF Tries
<1>6. CASE Above(r, b) /\ Meets(k, o, M[n])
  <2>1. e = r
    BY <1>2, <1>6
  <2>2. Above(e, c)
    BY <2>1, <1>5, <1>6, AboveOrders
  <2>3. ASSUME NEW j \in 1..n, Meets(k, o, M[j]) PROVE ~Above(RatedMatch(o, M[j]), e)
    <3>1. CASE j = n
      BY <3>1, <2>1, <1>1, AboveOrders
    <3>2. CASE j \in 1..(n - 1)
      <4>1. PICK g \in Bests(X) : g = RatedMatch(o, M[j])
        BY <3>2, <1>4
      <4>2. ~Above(g, b)
        BY <4>1, <3>2, <2>3, <1>5
      <4>3. ~Above(g, r)
        BY <4>2, <1>6, AboveOrders
      <4> QED
        BY <4>1, <4>3, <2>1
    <3> QED
      BY <3>1, <3>2, <1>3
  <2> QED
    BY <2>1, <2>2, <2>3, <1>1, <1>4, <1>6 DEF Tries
<1>7. CASE ~(Above(r, b) /\ Meets(k, o, M[n]))
  <2>1. e = b
    BY <1>2, <1>7
  <2>2. \A j \in 1..n : Meets(k, o, M[j]) => ~Above(RatedMatch(o, M[j]), e)
    BY <2>1, <1>1, <1>3, <1>5, <1>7
  <2>3. e = c \/ (Above(e, c) /\ \E j \in 1..n : Meets(k, o, M[j]) /\ e = RatedMatch(o, M[j]))
    BY <2>1, <1>4, <1>5
  <2> QED
    BY <2>1, <2>2, <2>3 DEF Tries
<1> QED
  BY <1>6, <1>7

LEMMA TriedAllIs ==
  ASSUME NEW X, NEW Y, NEW M \in Seq(Y), NEW k, NEW o, Rates(X, o, M), NEW c \in Bests(X),
         NEW e, e = TriedAll(k, c, o, M)
  PROVE  e \in Bests(X) /\ Tries(k, o, M, Len(M), c, e)
<1>1. PICK N \in Nat : N = Len(M)
  OBVIOUS
<1>2. PICK D : D = Bests(X)
  OBVIOUS
<1>3. \A j \in 1..N : RatedMatch(o, M[j]) \in D
  BY <1>1, <1>2 DEF Rates
<1>4. ASSUME NEW n \in 1..N, NEW b \in D PROVE Tried(k, b, o, M[n]) \in D
  BY <1>3, TriedIs
<1>5. PICK step \in [1..N -> [D -> D]] : \A n \in 1..N, b \in D : step[n][b] = Tried(k, b, o, M[n])
  <2>1. [n \in 1..N |-> [b \in D |-> Tried(k, b, o, M[n])]] \in [1..N -> [D -> D]]
    BY <1>4
  <2> QED
    BY <2>1
<1>6. PICK h \in [0..N -> D] : Steps(h, N, c, step)
  BY <1>2, Iterates
<1> DEFINE Is(f) == f = [n \in 0..Len(M) |-> IF n = 0 THEN c ELSE Tried(k, f[n - 1], o, M[n])]
<1>7. Is(h)
  <2>1. ASSUME NEW n \in 0..N PROVE h[n] = IF n = 0 THEN c ELSE Tried(k, h[n - 1], o, M[n])
    <3>1. CASE n = 0
      BY <3>1, <1>6 DEF Steps
    <3>2. CASE n # 0
      <4>1. n \in 1..N /\ n - 1 \in 0..N
        BY <3>2
      <4>2. PICK b \in D : b = h[n - 1]
        BY <4>1
      <4> QED
        BY <3>2, <4>1, <4>2, <1>5, <1>6 DEF Steps
    <3> QED
      BY <3>1, <3>2
  <2> QED
    BY <2>1, <1>1
<1>8. Is(CHOOSE f : Is(f))
  BY ONLY <1>7
<1>9. PICK f : f = (CHOOSE g : Is(g)) /\ Is(f)
  BY <1>8
<1>10. e = f[N]
  BY <1>1, <1>9 DEF TriedAll
<1>11. f[0] = c /\ \A n \in 1..N : f[n] = Tried(k, f[n - 1], o, M[n])
  <2>1. \A n \in 0..N : f[n] = IF n = 0 THEN c ELSE Tried(k, f[n - 1], o, M[n])
    BY <1>1, <1>9
  <2> QED
    BY ONLY <2>1, N \in Nat
<1> HIDE DEF Is
<1>12. PICK T : T = {n \in 0..N : f[n] \in D /\ Tries(k, o, M, n, c, f[n])}
  OBVIOUS
<1>13. 0 \in T
  BY <1>2, <1>11, <1>12 DEF Tries
<1>14. ASSUME NEW n \in 1..N, n - 1 \in T PROVE n \in T
  <2>1. PICK b \in D : b = f[n - 1] /\ Tries(k, o, M, n - 1, c, b)
    BY <1>12, <1>14
  <2>2. PICK g : g = Tried(k, b, o, M[n]) /\ g = f[n]
    BY <2>1, <1>11
  <2>3. g \in D /\ Tries(k, o, M, n, c, g)
    BY ONLY <2>1, <2>2, <1>2, <1>3, N \in Nat, n \in 1..N, c \in Bests(X), b \in D, TriesOn
  <2> QED
    BY <2>2, <2>3, <1>12
<1>15. \A n \in 0..N : n \in T
  BY <1>13, <1>14, UpTo
<1>16. N \in 0..N
  OBVIOUS
<1> QED
  BY <1>1, <1>2, <1>10, <1>12, <1>15, <1>16

(* The matches of the first n offers: what is kept is the first of those    *)
(* that none is above.                                                      *)
TriesAll(k, os, M, n, c, e) ==
  /\ \/ e = c
     \/ \E a \in 1..n, j \in 1..Len(M) :
          /\ Meets(k, os[a], M[j]) /\ e = RatedMatch(os[a], M[j])
          /\ \A d \in 1..(a - 1), i \in 1..Len(M) : Meets(k, os[d], M[i]) => Above(e, RatedMatch(os[d], M[i]))
  /\ \A a \in 1..n, j \in 1..Len(M) : Meets(k, os[a], M[j]) => ~Above(RatedMatch(os[a], M[j]), e)

LEMMA TriesAllOn ==
  ASSUME NEW X, NEW k, NEW os, NEW L \in Nat, NEW M, NEW n \in 1..L, \A a \in 1..L : Rates(X, os[a], M),
         NEW c \in Bests(X), NEW b \in Bests(X), TriesAll(k, os, M, n - 1, c, b),
         NEW e \in Bests(X), Tries(k, os[n], M, Len(M), b, e)
  PROVE  TriesAll(k, os, M, n, c, e)
<1>1. \A a \in 1..n : a = n \/ a \in 1..(n - 1)
  OBVIOUS
<1>2. n \in 1..n /\ \A a \in 1..(n - 1) : a \in 1..n /\ a \in 1..L
  OBVIOUS
<1>3. \A a \in 1..L, j \in 1..Len(M) : RatedMatch(os[a], M[j]) \in Bests(X)
  BY DEF Rates
<1>4. /\ \/ b = c
         \/ \E a \in 1..(n - 1), j \in 1..Len(M) :
              /\ Meets(k, os[a], M[j]) /\ b = RatedMatch(os[a], M[j])
              /\ \A d \in 1..(a - 1), i \in 1..Len(M) : Meets(k, os[d], M[i]) => Above(b, RatedMatch(os[d], M[i]))
      /\ \A a \in 1..(n - 1), j \in 1..Len(M) : Meets(k, os[a], M[j]) => ~Above(RatedMatch(os[a], M[j]), b)
  BY DEF TriesAll
<1>5. /\ e = b \/ (Above(e, b) /\ \E j \in 1..Len(M) : Meets(k, os[n], M[j]) /\ e = RatedMatch(os[n], M[j]))
      /\ \A j \in 1..Len(M) : Meets(k, os[n], M[j]) => ~Above(RatedMatch(os[n], M[j]), e)
  BY DEF Tries
<1>6. CASE e = b
  <2>1. \A a \in 1..n, j \in 1..Len(M) : Meets(k, os[a], M[j]) => ~Above(RatedMatch(os[a], M[j]), e)
    BY <1>1, <1>4, <1>5, <1>6
  <2>2. e = c \/ \E a \in 1..n, j \in 1..Len(M) :
                   /\ Meets(k, os[a], M[j]) /\ e = RatedMatch(os[a], M[j])
                   /\ \A d \in 1..(a - 1), i \in 1..Len(M) :
                        Meets(k, os[d], M[i]) => Above(e, RatedMatch(os[d], M[i]))
    BY <1>2, <1>4, <1>6
  <2> QED
    BY <2>1, <2>2 DEF TriesAll
<1>7. ASSUME NEW j \in 1..Len(M), Above(e, b), Meets(k, os[n], M[j]), e = RatedMatch(os[n], M[j])
      PROVE  TriesAll(k, os, M, n, c, e)
  <2>1. ASSUME NEW a \in 1..(n - 1), NEW i \in 1..Len(M), Meets(k, os[a], M[i])
        PROVE  /\ Above(e, RatedMatch(os[a], M[i]))
               /\ ~Above(RatedMatch(os[a], M[i]), e)
    <3>1. PICK g \in Bests(X) : g = RatedMatch(os[a], M[i])
      BY <1>2, <1>3
    <3>2. ~Above(g, b)
      BY <2>1, <3>1, <1>4
    <3>3. Above(e, g) /\ ~Above(g, e)
      BY <3>2, <1>7, AboveOrders
    <3> QED
      BY <3>1, <3>3
  <2>2. \A a \in 1..n, i \in 1..Len(M) : Meets(k, os[a], M[i]) => ~Above(RatedMatch(os[a], M[i]), e)
    BY <2>1, <1>1, <1>5
  <2>3. \E a \in 1..n, i \in 1..Len(M) :
          /\ Meets(k, os[a], M[i]) /\ e = RatedMatch(os[a], M[i])
          /\ \A d \in 1..(a - 1), l \in 1..Len(M) : Meets(k, os[d], M[l]) => Above(e, RatedMatch(os[d], M[l]))
    BY <2>1, <1>2, <1>7
  <2> QED
    BY <2>2, <2>3 DEF TriesAll
<1> QED
  BY <1>5, <1>6, <1>7

Unmatched == [offer |-> <<>>, quality |-> -1, stars |-> 2]

Granted(p) == Chosen(p, {i \in 1..Len(p) : p[i].q # 0})
AllRate(X, os, M) == \A a \in 1..Len(os) : Rates(X, os[a], M)
AllTried(X, k, p, os, M) ==
  \E e \in Bests(X) : TriesAll(k, os, M, Len(os), Unmatched, e) /\ OldBestMatch(k, p, os) = e.offer

LEMMA OldBestMatchTries ==
  ASSUME NEW X, <<>> \in X, NEW Y, NEW p \in Seq(Y), NEW M \in Seq(Y), M = Granted(p),
         NEW Z, NEW os \in Seq(Z), AllRate(X, os, M), NEW k
  PROVE  AllTried(X, k, p, os, M)
<1> USE DEF AllRate, Granted
<1>1. PICK N \in Nat : N = Len(os)
  OBVIOUS
<1>2. PICK D : D = Bests(X)
  OBVIOUS
<1>3. PICK c \in D : c = Unmatched
  <2>1. Unmatched \in D
    BY <1>2 DEF Unmatched, Bests
  <2> QED
    BY <2>1
<1>4. ASSUME NEW n \in 1..N, NEW b \in D
      PROVE  TriedAll(k, b, os[n], M) \in D /\ Tries(k, os[n], M, Len(M), b, TriedAll(k, b, os[n], M))
  <2>1. PICK o : o = os[n]
    OBVIOUS
  <2>2. PICK g : g = TriedAll(k, b, o, M)
    OBVIOUS
  <2>3. Rates(X, o, M) /\ b \in Bests(X)
    BY <2>1, <1>1, <1>2
  <2>4. g \in Bests(X) /\ Tries(k, o, M, Len(M), b, g)
    BY ONLY <2>2, <2>3, M \in Seq(Y), TriedAllIs
  <2> QED
    BY <2>1, <2>2, <2>4, <1>2
<1>5. PICK step \in [1..N -> [D -> D]] : \A n \in 1..N, b \in D : step[n][b] = TriedAll(k, b, os[n], M)
  <2>1. [n \in 1..N |-> [b \in D |-> TriedAll(k, b, os[n], M)]] \in [1..N -> [D -> D]]
    BY <1>4
  <2> QED
    BY <2>1
<1>6. PICK h \in [0..N -> D] : Steps(h, N, c, step)
  BY Iterates
<1> DEFINE Is(f) == f = [n \in 0..Len(os) |-> IF n = 0 THEN [offer |-> <<>>, quality |-> -1, stars |-> 2]
                                              ELSE TriedAll(k, f[n - 1], os[n],
                                                            Chosen(p, {i \in 1..Len(p) : p[i].q # 0}))]
<1>7. Is(h)
  <2>1. ASSUME NEW n \in 0..N PROVE h[n] = IF n = 0 THEN c ELSE TriedAll(k, h[n - 1], os[n], M)
    <3>1. CASE n = 0
      BY <3>1, <1>6 DEF Steps
    <3>2. CASE n # 0
      <4>1. n \in 1..N /\ n - 1 \in 0..N
        BY <3>2
      <4>2. PICK b \in D : b = h[n - 1]
        BY <4>1
      <4> QED
        BY <3>2, <4>1, <4>2, <1>5, <1>6 DEF Steps
    <3> QED
      BY <3>1, <3>2
  <2> QED
    BY <2>1, <1>1, <1>3 DEF Unmatched
<1>8. Is(CHOOSE f : Is(f))
  BY ONLY <1>7
<1>9. PICK f : f = (CHOOSE g : Is(g)) /\ Is(f)
  BY <1>8
<1>10. OldBestMatch(k, p, os) = f[N].offer
  BY <1>1, <1>9 DEF OldBestMatch
<1>11. f[0] = c /\ \A n \in 1..N : f[n] = TriedAll(k, f[n - 1], os[n], M)
  <2>1. \A n \in 0..N : f[n] = IF n = 0 THEN c ELSE TriedAll(k, f[n - 1], os[n], M)
    BY <1>1, <1>3, <1>9 DEF Unmatched
  <2> QED
    BY ONLY <2>1, N \in Nat
<1> HIDE DEF Is
<1>12. PICK T : T = {n \in 0..N : f[n] \in D /\ TriesAll(k, os, M, n, c, f[n])}
  OBVIOUS
<1>13. 0 \in T
  BY <1>11, <1>12 DEF TriesAll
<1>14. ASSUME NEW n \in 1..N, n - 1 \in T PROVE n \in T
  <2>1. PICK b \in D : b = f[n - 1] /\ TriesAll(k, os, M, n - 1, c, b)
    BY <1>12, <1>14
  <2>2. PICK g \in D : g = f[n] /\ Tries(k, os[n], M, Len(M), b, g)
    BY <2>1, <1>4, <1>11
  <2>3. \A a \in 1..N : Rates(X, os[a], M)
    BY <1>1
  <2>4. b \in Bests(X) /\ g \in Bests(X) /\ c \in Bests(X)
    BY <1>2
  <2>5. TriesAll(k, os, M, n, c, g)
    BY ONLY <2>1, <2>2, <2>3, <2>4, N \in Nat, n \in 1..N, TriesAllOn
  <2> QED
    BY <2>2, <2>5, <1>12
<1>15. \A n \in 0..N : n \in T
  BY <1>13, <1>14, UpTo
<1>16. N \in 0..N
  OBVIOUS
<1> QED
  BY <1>1, <1>2, <1>3, <1>10, <1>12, <1>15, <1>16 DEF AllTried

(* So best_match answers with the offer of the first of the matches, of     *)
(* offers and ranges of some weight, that none is above.                    *)
Fits(k, os, p, a, i) == p[i].q # 0 /\ Meets(k, os[a], p[i])
Ideal(k, os, p, a, i) ==
  /\ Fits(k, os, p, a, i)
  /\ \A d \in 1..Len(os), j \in 1..Len(p) :
       Fits(k, os, p, d, j) => /\ ~Above(RatedMatch(os[d], p[j]), RatedMatch(os[a], p[i]))
                               /\ d < a => Above(RatedMatch(os[a], p[i]), RatedMatch(os[d], p[j]))

LEMMA OldBestMatchIs ==
  ASSUME NEW X, <<>> \in X, NEW Y, NEW p \in Seq(Y), NEW Z, NEW os \in Seq(Z), NEW k,
         \A a \in 1..Len(os), i \in 1..Len(p) :
           RatedMatch(os[a], p[i]) \in Bests(X) /\ RatedMatch(os[a], p[i]).quality >= 0,
         NEW answer, answer = OldBestMatch(k, p, os)
  PROVE  \/ answer = <<>> /\ \A a \in 1..Len(os), i \in 1..Len(p) : ~Fits(k, os, p, a, i)
         \/ \E a \in 1..Len(os), i \in 1..Len(p) : answer = os[a].offer /\ Ideal(k, os, p, a, i)
<1>1. PICK N \in Nat : N = Len(p)
  OBVIOUS
<1>2. PICK L \in Nat : L = Len(os)
  OBVIOUS
<1>3. PICK I \in SUBSET (1..Len(p)) : I = {i \in 1..Len(p) : p[i].q # 0}
  <2>1. {i \in 1..Len(p) : p[i].q # 0} \in SUBSET (1..Len(p))
    OBVIOUS
  <2> QED
    BY <2>1
<1>4. Countable(I)
  BY <1>1, <1>3, PlacesCountable
<1>5. PICK n \in Nat : \E r \in [1..n -> I] : Enumerates(r, n, I)
  BY <1>4 DEF Countable
<1>6. PICK r \in [1..n -> I] : Enumerates(r, n, I)
  BY <1>5
<1>7. PICK M : M = Chosen(p, I)
  OBVIOUS
<1>8. /\ M \in Seq(Y) /\ Len(M) = n
      /\ \A l \in 1..n : r[l] \in I /\ r[l] \in 1..Len(p) /\ M[l] = p[r[l]]
  BY ONLY p \in Seq(Y), I \in SUBSET (1..Len(p)), n \in Nat, <1>6, <1>7, ChosenAlong
<1>9. \A i \in I : \E l \in 1..n : r[l] = i
  BY <1>6 DEF Enumerates
<1>10. \A a \in 1..Len(os) : Rates(X, os[a], M)
  BY <1>8 DEF Rates
<1>11. PICK e \in Bests(X) : TriesAll(k, os, M, Len(os), Unmatched, e) /\ answer = e.offer
  <2>1. M = Granted(p) /\ AllRate(X, os, M)
    BY <1>3, <1>7, <1>10 DEF Granted, AllRate
  <2>2. M \in Seq(Y)
    BY <1>8
  <2>3. AllTried(X, k, p, os, M)
    BY ONLY <<>> \in X, p \in Seq(Y), os \in Seq(Z), <2>1, <2>2, OldBestMatchTries
  <2> QED
    BY <2>3 DEF AllTried
<1>12. /\ \/ e = Unmatched
          \/ \E a \in 1..L, l \in 1..n :
               /\ Meets(k, os[a], M[l]) /\ e = RatedMatch(os[a], M[l])
               /\ \A d \in 1..(a - 1), m \in 1..n : Meets(k, os[d], M[m]) => Above(e, RatedMatch(os[d], M[m]))
       /\ \A a \in 1..L, l \in 1..n : Meets(k, os[a], M[l]) => ~Above(RatedMatch(os[a], M[l]), e)
  BY <1>2, <1>8, <1>11 DEF TriesAll
<1>13. ASSUME NEW d \in 1..L, NEW j \in 1..N, Fits(k, os, p, d, j)
       PROVE  \E m \in 1..n : M[m] = p[j] /\ Meets(k, os[d], M[m])
  <2>1. j \in I
    BY <1>1, <1>3, <1>13 DEF Fits
  <2> QED
    BY <2>1, <1>8, <1>9, <1>13 DEF Fits
<1>14. \A d \in 1..L, j \in 1..N : Fits(k, os, p, d, j) => ~Above(RatedMatch(os[d], p[j]), e)
  BY <1>12, <1>13
<1>15. CASE e = Unmatched
  <2>1. e.offer = <<>> /\ e.quality = -1
    BY <1>15 DEF Unmatched
  <2>2. \A d \in 1..L, j \in 1..N : ~Fits(k, os, p, d, j)
    <3> SUFFICES ASSUME NEW d \in 1..L, NEW j \in 1..N PROVE ~Fits(k, os, p, d, j)
      OBVIOUS
    <3>1. PICK g \in Bests(X) : g = RatedMatch(os[d], p[j]) /\ g.quality >= 0
      BY <1>1, <1>2
    <3>2. g.quality \in Int
      BY DEF Bests
    <3>3. Above(g, e)
      BY <2>1, <3>1, <3>2 DEF Above, Surpasses
    <3> QED
      BY <3>1, <3>3, <1>14
  <2> QED
    BY <2>1, <2>2, <1>1, <1>2, <1>11
<1>16. ASSUME NEW a \in 1..L, NEW l \in 1..n, Meets(k, os[a], M[l]), e = RatedMatch(os[a], M[l]),
              \A d \in 1..(a - 1), m \in 1..n : Meets(k, os[d], M[m]) => Above(e, RatedMatch(os[d], M[m]))
       PROVE  \E i \in 1..N : answer = os[a].offer /\ Ideal(k, os, p, a, i)
  <2>1. PICK i \in 1..N : i \in I /\ p[i] = M[l]
    BY <1>1, <1>8
  <2>2. Fits(k, os, p, a, i) /\ e = RatedMatch(os[a], p[i])
    BY <2>1, <1>3, <1>16 DEF Fits
  <2>3. answer = os[a].offer
    BY <1>11, <1>16 DEF RatedMatch
  <2>4. ASSUME NEW d \in 1..L, NEW j \in 1..N, Fits(k, os, p, d, j), d < a
        PROVE  Above(e, RatedMatch(os[d], p[j]))
    <3>1. d \in 1..(a - 1)
      BY <2>4
    <3>2. PICK m \in 1..n : M[m] = p[j] /\ Meets(k, os[d], M[m])
      BY <1>13, <2>4
    <3> QED
      BY <3>1, <3>2, <1>16
  <2>5. Ideal(k, os, p, a, i)
    BY <2>2, <2>4, <1>1, <1>2, <1>14 DEF Ideal
  <2> QED
    BY <2>3, <2>5
<1> QED
  BY <1>1, <1>2, <1>12, <1>15, <1>16

(* quality finds something if and only if `in' does.                        *)
LEMMA OldQualityIs ==
  ASSUME NEW Y, NEW p \in Seq(Y), \A i \in 1..Len(p) : p[i].q \in Nat, NEW k, NEW o
  PROVE  OldQuality(k, p, o) # 0 <=> \E i \in 1..Len(p) : p[i].q # 0 /\ OldMatch(k, p[i].range, o)
<1>1. PICK N \in Nat : N = Len(p)
  OBVIOUS
<1> DEFINE next(n, c) == IF OldMatch(k, p[n].range, o) /\ p[n].q > c THEN p[n].q ELSE c
<1>2. ASSUME NEW n \in 1..N, NEW c \in Nat PROVE next(n, c) \in Nat
  BY <1>1
<1>3. PICK step \in [1..N -> [Nat -> Nat]] : \A n \in 1..N, c \in Nat : step[n][c] = next(n, c)
  <2> HIDE DEF next
  <2>1. [n \in 1..N |-> [c \in Nat |-> next(n, c)]] \in [1..N -> [Nat -> Nat]]
    BY <1>2
  <2> QED
    BY <2>1
<1>4. PICK h \in [0..N -> Nat] : Steps(h, N, 0, step)
  BY Iterates
<1> DEFINE Is(f) == f = [n \in 0..Len(p) |->
                           IF n = 0 THEN 0
                           ELSE IF OldMatch(k, p[n].range, o) /\ p[n].q > f[n - 1] THEN p[n].q
                           ELSE f[n - 1]]
<1>5. Is(h)
  <2>1. ASSUME NEW n \in 0..N
        PROVE  h[n] = IF n = 0 THEN 0
                      ELSE IF OldMatch(k, p[n].range, o) /\ p[n].q > h[n - 1] THEN p[n].q ELSE h[n - 1]
    <3>1. CASE n = 0
      BY <3>1, <1>4 DEF Steps
    <3>2. CASE n # 0
      <4>1. n \in 1..N /\ n - 1 \in 0..N
        BY <3>2
      <4>2. PICK c \in Nat : c = h[n - 1]
        BY <4>1
      <4>3. h[n] = next(n, c)
        BY <4>1, <4>2, <1>3, <1>4 DEF Steps
      <4> QED
        BY <3>2, <4>2, <4>3
    <3> QED
      BY <3>1, <3>2
  <2> QED
    BY <2>1, <1>1
<1>6. Is(CHOOSE f : Is(f))
  BY ONLY <1>5
<1>7. PICK f : f = (CHOOSE g : Is(g)) /\ Is(f)
  BY <1>6
<1>8. OldQuality(k, p, o) = f[N]
  BY <1>1, <1>7 DEF OldQuality
<1>9. f[0] = 0 /\ \A n \in 1..N : f[n] = next(n, f[n - 1])
  <2>1. \A n \in 0..N : f[n] = IF n = 0 THEN 0 ELSE next(n, f[n - 1])
    BY <1>1, <1>7
  <2> HIDE DEF next
  <2> QED
    BY ONLY <2>1, N \in Nat
<1> HIDE DEF Is
<1>10. PICK T : T = {n \in 0..N :
                       f[n] \in Nat /\ (f[n] # 0 <=> \E i \in 1..n : p[i].q # 0 /\ OldMatch(k, p[i].range, o))}
  OBVIOUS
<1>11. 0 \in T
  BY <1>9, <1>10
<1>12. ASSUME NEW n \in 1..N, n - 1 \in T PROVE n \in T
  <2>1. PICK c \in Nat : c = f[n - 1] /\ (c # 0 <=> \E i \in 1..(n - 1) : p[i].q # 0 /\ OldMatch(k, p[i].range, o))
    BY <1>10, <1>12
  <2>2. PICK q \in Nat : q = p[n].q
    BY <1>1
  <2>3. PICK g : g = f[n]
    OBVIOUS
  <2>4. g \in Nat /\ (g # 0 <=> c # 0 \/ (q # 0 /\ OldMatch(k, p[n].range, o)))
    <3>1. g = next(n, c)
      BY <2>1, <2>3, <1>9
    <3>2. CASE OldMatch(k, p[n].range, o) /\ q > c
      <4>1. g = q
        BY <3>1, <3>2, <2>2
      <4>2. q # 0
        BY ONLY <3>2, q \in Nat, c \in Nat
      <4> QED
        BY <4>1, <4>2, <3>2
    <3>3. CASE ~OldMatch(k, p[n].range, o)
      <4>1. g = c
        BY <3>1, <3>3
      <4> QED
        BY <4>1, <3>3
    <3>4. CASE ~(q > c)
      <4>1. g = c
        BY <3>1, <3>4, <2>2
      <4>2. q # 0 => c # 0
        BY ONLY <3>4, q \in Nat, c \in Nat
      <4> QED
        BY <4>1, <4>2
    <3> QED
      BY <3>2, <3>3, <3>4
  <2>5. /\ \A i \in 1..n : i = n \/ i \in 1..(n - 1)
        /\ n \in 1..n /\ n \in 0..N /\ \A i \in 1..(n - 1) : i \in 1..n
    BY ONLY N \in Nat, n \in 1..N
  <2>6. (\E i \in 1..n : p[i].q # 0 /\ OldMatch(k, p[i].range, o))
          <=> \/ \E i \in 1..(n - 1) : p[i].q # 0 /\ OldMatch(k, p[i].range, o)
              \/ p[n].q # 0 /\ OldMatch(k, p[n].range, o)
    BY <2>5
  <2> QED
    BY <2>1, <2>2, <2>3, <2>4, <2>5, <2>6, <1>10
<1>13. \A n \in 0..N : n \in T
  BY <1>11, <1>12, UpTo
<1>14. N \in 0..N
  OBVIOUS
<1> QED
  BY <1>1, <1>8, <1>10, <1>13, <1>14

(* Without a valid header best_match answers with the first of the offers   *)
(* that the server rates highest.                                           *)
RatedOffers(X) == [offer : X, sq : Int]
Highest(os, n, a) ==
  a \in 1..n /\ \A d \in 1..n : os[d].sq <= os[a].sq /\ (d < a => os[d].sq < os[a].sq)

LEMMA OldBestOfferIs ==
  ASSUME NEW X, <<>> \in X, NEW os \in Seq(RatedOffers(X)), \A a \in 1..Len(os) : os[a].sq >= 0,
         NEW answer, answer = OldBestOffer(os)
  PROVE  \/ answer = <<>> /\ Len(os) = 0
         \/ \E a \in 1..Len(os) : answer = os[a].offer /\ Highest(os, Len(os), a)
<1>1. PICK N \in Nat : N = Len(os)
  OBVIOUS
<1>2. PICK D : D = RatedOffers(X)
  OBVIOUS
<1>3. PICK e \in D : e = [offer |-> <<>>, sq |-> -1]
  <2>1. [offer |-> <<>>, sq |-> -1] \in D
    BY <1>2 DEF RatedOffers
  <2> QED
    BY <2>1
<1>4. \A n \in 1..N : os[n] \in D
  BY <1>1, <1>2, ElementOfSeq
<1> DEFINE next(n, c) == IF os[n].sq > c.sq THEN os[n] ELSE c
<1>5. PICK step \in [1..N -> [D -> D]] : \A n \in 1..N, c \in D : step[n][c] = next(n, c)
  <2>1. \A n \in 1..N, c \in D : next(n, c) \in D
    BY <1>4
  <2> HIDE DEF next
  <2>2. [n \in 1..N |-> [c \in D |-> next(n, c)]] \in [1..N -> [D -> D]]
    BY <2>1
  <2> QED
    BY <2>2
<1>6. PICK h \in [0..N -> D] : Steps(h, N, e, step)
  BY Iterates
<1> DEFINE Is(f) == f = [n \in 0..Len(os) |-> IF n = 0 THEN [offer |-> <<>>, sq |-> -1]
                                              ELSE IF os[n].sq > f[n - 1].sq THEN os[n] ELSE f[n - 1]]
<1>7. Is(h)
  <2>1. ASSUME NEW n \in 0..N
        PROVE  h[n] = IF n = 0 THEN e ELSE IF os[n].sq > h[n - 1].sq THEN os[n] ELSE h[n - 1]
    <3>1. CASE n = 0
      BY <3>1, <1>6 DEF Steps
    <3>2. CASE n # 0
      <4>1. n \in 1..N /\ n - 1 \in 0..N
        BY <3>2
      <4>2. PICK c \in D : c = h[n - 1]
        BY <4>1
      <4>3. h[n] = next(n, c)
        BY <4>1, <4>2, <1>5, <1>6 DEF Steps
      <4> QED
        BY <3>2, <4>2, <4>3
    <3> QED
      BY <3>1, <3>2
  <2> QED
    BY <2>1, <1>1, <1>3
<1>8. Is(CHOOSE f : Is(f))
  BY ONLY <1>7
<1>9. PICK f : f = (CHOOSE g : Is(g)) /\ Is(f)
  BY <1>8
<1>10. OldBestOffer(os) = f[N].offer
  BY <1>1, <1>9 DEF OldBestOffer
<1>11. f[0] = e /\ \A n \in 1..N : f[n] = next(n, f[n - 1])
  <2>1. \A n \in 0..N : f[n] = IF n = 0 THEN e ELSE next(n, f[n - 1])
    BY <1>1, <1>3, <1>9
  <2> HIDE DEF next
  <2> QED
    BY ONLY <2>1, N \in Nat
<1> HIDE DEF Is
<1> DEFINE holds(n, c) == (n = 0 /\ c = e) \/ \E a \in 1..n : c = os[a] /\ Highest(os, n, a)
<1>12. PICK T : T = {n \in 0..N : f[n] \in D /\ holds(n, f[n])}
  OBVIOUS
<1>13. 0 \in T
  BY <1>11, <1>12
<1>14. ASSUME NEW n \in 1..N, n - 1 \in T PROVE n \in T
  <2>1. PICK c \in D : c = f[n - 1] /\ holds(n - 1, c)
    BY <1>12, <1>14
  <2>2. PICK g : g = f[n] /\ g = next(n, c)
    BY <2>1, <1>11
  <2>3. /\ \A d \in 1..n : d = n \/ (d \in 1..(n - 1) /\ d < n)
        /\ n \in 1..n /\ n \in 0..N /\ \A d \in 1..(n - 1) : d \in 1..n /\ ~(n < d)
        /\ \A d \in 1..n : d \in 1..N
    BY ONLY N \in Nat, n \in 1..N
  <2>4. \A d \in 1..n : os[d].sq \in Int /\ os[d].sq >= 0
    BY <2>3, <1>1, <1>2, <1>4 DEF RatedOffers
  <2>5. c.sq \in Int /\ os[n].sq \in Int
    BY <1>2, <1>4 DEF RatedOffers
  <2>6. CASE os[n].sq > c.sq
    <3>1. g = os[n]
      BY <2>2, <2>6
    <3>2. \A d \in 1..(n - 1) : os[d].sq <= c.sq
      BY <2>1, <2>3 DEF Highest
    <3>3. \A d \in 1..(n - 1) : os[d].sq < os[n].sq
      BY <3>2, <2>3, <2>4, <2>5, <2>6
    <3>4. Highest(os, n, n)
      BY <3>3, <2>3, <2>4 DEF Highest
    <3> QED
      BY <3>1, <3>4, <2>2, <2>3, <1>4, <1>12
  <2>7. CASE ~(os[n].sq > c.sq)
    <3>1. g = c
      BY <2>2, <2>7
    <3>2. c # e
      BY <2>3, <2>4, <2>5, <2>7, <1>3
    <3>3. PICK a \in 1..(n - 1) : c = os[a] /\ Highest(os, n - 1, a)
      BY <3>2, <2>1
    <3>4. os[n].sq <= os[a].sq
      BY <3>3, <2>5, <2>7
    <3>5. Highest(os, n, a)
      BY <3>3, <3>4, <2>3 DEF Highest
    <3> QED
      BY <3>1, <3>3, <3>5, <2>2, <2>3, <1>12
  <2> QED
    BY <2>6, <2>7
<1>15. \A n \in 0..N : n \in T
  BY <1>13, <1>14, UpTo
<1>16. N \in 0..N
  OBVIOUS
<1>17. holds(N, f[N])
  BY <1>12, <1>15, <1>16
<1> QED
  BY <1>1, <1>3, <1>10, <1>17

LEMMA StarsAre ==
  ASSUME NEW x \in Seq(STRING)
  PROVE  Stars(x) \in Nat
<1>1. PICK n \in Nat : n = Len(x) /\ DOMAIN x = 1..n
  OBVIOUS
<1>2. PICK S : S = {i \in DOMAIN x : x[i] = "*"}
  OBVIOUS
<1>3. IsFiniteSet(1..n)
  BY FS_Interval
<1>4. S \subseteq 1..n
  BY <1>1, <1>2
<1>5. IsFiniteSet(S)
  BY <1>3, <1>4, FS_Subset
<1>6. Cardinality(S) \in Nat
  BY <1>5, FS_CardinalityType
<1> QED
  BY <1>2, <1>6 DEF Stars

(* The matches of offer a with range i, where there is a valid header, and  *)
(* with the one range 0 otherwise; and which is the better one.             *)
OldPlaces(p, valid)         == IF valid THEN DOMAIN p ELSE {0}
OldHit(p, valid, os, a, i)  == valid => p[i].q # 0 /\ OldMatch(kind, p[i].range, os[a].offer)
OldWeight(p, valid, os, a, i) == os[a].sq * (IF valid THEN p[i].q ELSE MaxQ)
OldStars(p, valid, i)       == IF valid THEN Stars(p[i].range) ELSE 2
OldBetter(p, valid, os, a, i, d, j) ==
  \/ OldWeight(p, valid, os, a, i) > OldWeight(p, valid, os, d, j)
  \/ /\ OldWeight(p, valid, os, a, i) = OldWeight(p, valid, os, d, j)
     /\ OldStars(p, valid, i) < OldStars(p, valid, j) \/ (OldStars(p, valid, i) = OldStars(p, valid, j) /\ a <= d)
OldBest(p, valid, os, answer) ==
  \/ answer = <<>> /\ \A a \in DOMAIN os, i \in OldPlaces(p, valid) : ~OldHit(p, valid, os, a, i)
  \/ \E a \in DOMAIN os, i \in OldPlaces(p, valid) :
       /\ OldHit(p, valid, os, a, i) /\ answer = os[a].offer
       /\ \A d \in DOMAIN os, j \in OldPlaces(p, valid) :
            OldHit(p, valid, os, d, j) => OldBetter(p, valid, os, a, i, d, j)

RatedOldOffers == [offer : OldOffers, sq : {1, 2}]

LEMMA RatedMatchIn ==
  ASSUME NEW o \in RatedOldOffers, NEW x, x.range \in Seq(STRING), x.q \in Nat
  PROVE  /\ RatedMatch(o, x) \in Bests(OldOffers \cup {<<>>})
         /\ RatedMatch(o, x).quality = o.sq * x.q /\ RatedMatch(o, x).stars = Stars(x.range)
         /\ o.sq * x.q \in Int /\ o.sq * x.q >= 0 /\ Stars(x.range) \in Int
<1>1. Stars(x.range) \in Nat
  BY StarsAre
<1>2. PICK v \in OldOffers, w \in {1, 2} : v = o.offer /\ w = o.sq
  BY DEF RatedOldOffers
<1>3. PICK q \in Nat : q = x.q
  OBVIOUS
<1>4. w * q \in Nat
  <2>1. w = 1 => w * q = q
    BY ONLY q \in Nat
  <2>2. w = 2 => w * q = q + q
    BY ONLY q \in Nat
  <2> QED
    BY ONLY <2>1, <2>2, q \in Nat, w \in {1, 2}
<1>5. PICK y \in Nat, z \in Nat : y = o.sq * x.q /\ z = Stars(x.range)
  BY <1>1, <1>2, <1>3, <1>4
<1>6. RatedMatch(o, x) = [offer |-> v, quality |-> y, stars |-> z]
  BY <1>2, <1>5 DEF RatedMatch
<1> QED
  BY <1>5, <1>6 DEF Bests

LEMMA OldAnswers ==
  ASSUME AcceptInv, NEW os \in Seq(RatedOldOffers), NEW p, p = Parsed(kind, environ),
         NEW valid \in BOOLEAN, valid <=> Valid(kind, environ),
         NEW answer, answer = BestOffer(kind, environ, os)
  PROVE  OldBest(p, valid, os, answer)
<1>1. PICK k \in Kinds : k = kind
  BY DEF AcceptInv
<1>2. environ \in Seq(Item(k)) /\ p = Parsed(k, environ)
  BY <1>1 DEF AcceptInv
<1>3. /\ p \in Seq(Parseds(k))
      /\ \A i \in 1..Len(p) : p[i].range \in Seq(STRING) /\ p[i].q \in Nat
  BY <1>2, ParsedHas
<1>4. PICK X : X = OldOffers \cup {<<>>}
  OBVIOUS
<1>5. \A a \in 1..Len(os) : os[a] \in RatedOldOffers
  BY ElementOfSeq
<1>6. DOMAIN os = 1..Len(os) /\ DOMAIN p = 1..Len(p)
  BY <1>3
<1>7. CASE valid
  <2>1. answer = OldBestMatch(kind, p, os)
    BY <1>7 DEF BestOffer
  <2>2. ASSUME NEW a \in 1..Len(os), NEW i \in 1..Len(p)
        PROVE  /\ RatedMatch(os[a], p[i]) \in Bests(X) /\ RatedMatch(os[a], p[i]).quality >= 0
               /\ RatedMatch(os[a], p[i]).quality = OldWeight(p, valid, os, a, i)
               /\ RatedMatch(os[a], p[i]).stars = OldStars(p, valid, i)
               /\ OldWeight(p, valid, os, a, i) \in Int /\ OldStars(p, valid, i) \in Int
               /\ Fits(kind, os, p, a, i) <=> OldHit(p, valid, os, a, i)
    <3>1. PICK o \in RatedOldOffers : o = os[a]
      BY <1>5
    <3>2. PICK x : o = os[a] /\ x = p[i]
      BY <3>1
    <3>3. x.range \in Seq(STRING) /\ x.q \in Nat
      BY <3>2, <1>3
    <3>4. /\ RatedMatch(o, x) \in Bests(OldOffers \cup {<<>>})
          /\ RatedMatch(o, x).quality = o.sq * x.q /\ RatedMatch(o, x).stars = Stars(x.range)
          /\ o.sq * x.q \in Int /\ o.sq * x.q >= 0 /\ Stars(x.range) \in Int
      BY ONLY <3>3, o \in RatedOldOffers, RatedMatchIn
    <3>5. OldWeight(p, valid, os, a, i) = o.sq * x.q /\ OldStars(p, valid, i) = Stars(x.range)
      BY <3>2, <1>7 DEF OldWeight, OldStars
    <3>6. Fits(kind, os, p, a, i) <=> OldHit(p, valid, os, a, i)
      BY <1>7 DEF Fits, OldHit, Meets
    <3> QED
      BY <3>2, <3>4, <3>5, <3>6, <1>4
  <2>3. \/ answer = <<>> /\ \A a \in 1..Len(os), i \in 1..Len(p) : ~Fits(kind, os, p, a, i)
        \/ \E a \in 1..Len(os), i \in 1..Len(p) : answer = os[a].offer /\ Ideal(kind, os, p, a, i)
    <3>1. \A a \in 1..Len(os), i \in 1..Len(p) :
            RatedMatch(os[a], p[i]) \in Bests(X) /\ RatedMatch(os[a], p[i]).quality >= 0
      BY <2>2
    <3>2. <<>> \in X /\ p \in Seq(Parseds(k))
      BY <1>3, <1>4
    <3> QED
      BY ONLY <3>1, <3>2, <2>1, os \in Seq(RatedOldOffers), OldBestMatchIs
  <2>4. CASE answer = <<>> /\ \A a \in 1..Len(os), i \in 1..Len(p) : ~Fits(kind, os, p, a, i)
    <3>1. \A a \in 1..Len(os), i \in 1..Len(p) : ~OldHit(p, valid, os, a, i)
      BY <2>2, <2>4
    <3> QED
      BY <3>1, <2>4, <1>6, <1>7 DEF OldBest, OldPlaces
  <2>5. ASSUME NEW a \in 1..Len(os), NEW i \in 1..Len(p), answer = os[a].offer, Ideal(kind, os, p, a, i)
        PROVE  OldBest(p, valid, os, answer)
    <3>1. OldHit(p, valid, os, a, i)
      BY <2>2, <2>5 DEF Ideal
    <3>2. ASSUME NEW d \in 1..Len(os), NEW j \in 1..Len(p), OldHit(p, valid, os, d, j)
          PROVE  OldBetter(p, valid, os, a, i, d, j)
      <4>1. Fits(kind, os, p, d, j)
        BY <2>2, <3>2
      <4>2. PICK g, c : g = RatedMatch(os[a], p[i]) /\ c = RatedMatch(os[d], p[j])
        OBVIOUS
      <4>3. ~Above(c, g) /\ (d < a => Above(g, c))
        BY <4>1, <4>2, <2>5 DEF Ideal
      <4>4. /\ g.quality = OldWeight(p, valid, os, a, i) /\ g.stars = OldStars(p, valid, i)
            /\ g.quality \in Int /\ g.stars \in Int
        BY <4>2, <2>2
      <4>5. /\ c.quality = OldWeight(p, valid, os, d, j) /\ c.stars = OldStars(p, valid, j)
            /\ c.quality \in Int /\ c.stars \in Int
        BY <4>2, <2>2
      <4>6. a \in Int /\ d \in Int
        OBVIOUS
      <4>7. \/ g.quality > c.quality
            \/ g.quality = c.quality /\ (g.stars < c.stars \/ (g.stars = c.stars /\ a <= d))
        BY ONLY <4>3, <4>4, <4>5, <4>6 DEF Above, Surpasses
      <4> QED
        BY ONLY <4>4, <4>5, <4>7 DEF OldBetter
    <3> QED
      BY <3>1, <3>2, <2>5, <1>6, <1>7 DEF OldBest, OldPlaces
  <2> QED
    BY <2>3, <2>4, <2>5
<1>8. CASE ~valid
  <2>1. answer = OldBestOffer(os)
    BY <1>8 DEF BestOffer
  <2>2. \A a \in 1..Len(os) : os[a].sq \in {1, 2} /\ os[a].sq >= 0
    BY <1>5 DEF RatedOldOffers
  <2>3. os \in Seq(RatedOffers(X)) /\ <<>> \in X
    <3>1. RatedOldOffers \subseteq RatedOffers(X)
      BY <1>4 DEF RatedOldOffers, RatedOffers
    <3>2. PICK Q, R : Q = RatedOffers(X) /\ R = RatedOldOffers
      OBVIOUS
    <3>3. R \subseteq Q /\ os \in Seq(R)
      BY <3>1, <3>2
    <3>4. os \in Seq(Q)
      BY ONLY <3>3
    <3> QED
      BY <3>2, <3>4, <1>4
  <2>4. \/ answer = <<>> /\ Len(os) = 0
        \/ \E a \in 1..Len(os) : answer = os[a].offer /\ Highest(os, Len(os), a)
    BY ONLY <2>1, <2>2, <2>3, OldBestOfferIs
  <2>5. CASE answer = <<>> /\ Len(os) = 0
    BY <2>5, <1>6 DEF OldBest
  <2>6. ASSUME NEW a \in 1..Len(os), answer = os[a].offer, Highest(os, Len(os), a)
        PROVE  OldBest(p, valid, os, answer)
    <3>1. \A d \in 1..Len(os) : OldHit(p, valid, os, d, 0)
      BY <1>8 DEF OldHit
    <3>2. ASSUME NEW d \in 1..Len(os) PROVE OldBetter(p, valid, os, a, 0, d, 0)
      <4>1. PICK u \in {1, 2}, w \in {1, 2} : u = os[a].sq /\ w = os[d].sq
        BY <2>2
      <4>2. w <= u /\ (d < a => w < u)
        BY <4>1, <2>6 DEF Highest
      <4>3. MaxQ \in Nat /\ MaxQ > 0
        BY NegotiationAssumption
      <4>4. OldWeight(p, valid, os, a, 0) = u * MaxQ /\ OldWeight(p, valid, os, d, 0) = w * MaxQ
        BY <4>1, <1>8 DEF OldWeight
      <4>5. OldStars(p, valid, 0) = 2
        BY <1>8 DEF OldStars
      <4>6. 1 * MaxQ = MaxQ /\ 2 * MaxQ = MaxQ + MaxQ
        BY ONLY <4>3
      <4>7. u * MaxQ > w * MaxQ \/ (u * MaxQ = w * MaxQ /\ a <= d)
        <5>1. CASE u = w
          <6>1. a <= d
            BY <5>1, <4>2
          <6> QED
            BY <5>1, <6>1
        <5>2. CASE u # w
          <6>1. u = 2 /\ w = 1
            BY <5>2, <4>2
          <6> QED
            BY <6>1, <4>3, <4>6
        <5> QED
          BY <5>1, <5>2
      <4> QED
        BY <4>4, <4>5, <4>7 DEF OldBetter
    <3> QED
      BY <3>1, <3>2, <2>6, <1>6, <1>8 DEF OldBest, OldPlaces
  <2> QED
    BY <2>4, <2>5, <2>6
<1> QED
  BY <1>7, <1>8

LEMMA OldOneAnswers ==
  ASSUME AcceptInv, NEW o \in OldOffers, NEW os, os = <<[offer |-> o, sq |-> 1]>>
  PROVE  /\ Offered(kind, environ, o) <=> BestOffer(kind, environ, os) = o
         /\ Quality(kind, environ, o) # 0 <=> BestOffer(kind, environ, os) = o
<1>1. PICK k \in Kinds : k = kind
  BY DEF AcceptInv
<1>2. PICK p : p = Parsed(k, environ)
  OBVIOUS
<1>3. environ \in Seq(Item(k)) /\ p = Parsed(kind, environ)
  BY <1>1, <1>2 DEF AcceptInv
<1>4. p \in Seq(Parseds(k)) /\ \A i \in 1..Len(p) : p[i].q \in Nat
  BY <1>2, <1>3, ParsedHas
<1>5. PICK valid \in BOOLEAN : valid <=> Valid(kind, environ)
  OBVIOUS
<1>6. PICK answer : answer = BestOffer(kind, environ, os)
  OBVIOUS
<1>7. /\ os \in Seq(RatedOldOffers) /\ DOMAIN os = {1} /\ os[1].offer = o
  <2>1. PICK e \in RatedOldOffers : e = [offer |-> o, sq |-> 1]
    <3>1. [offer |-> o, sq |-> 1] \in RatedOldOffers
      BY DEF RatedOldOffers
    <3> QED
      BY <3>1
  <2>2. os = <<e>> /\ e.offer = o
    BY <2>1
  <2> QED
    BY <2>2
<1>8. OldBest(p, valid, os, answer)
  BY ONLY AcceptInv, <1>3, <1>5, <1>6, <1>7, valid \in BOOLEAN, OldAnswers
<1>9. o # <<>>
  <2>1. k \in Kinds => <<>> \notin Offers[k]
    BY HeadersAssumption
  <2>2. o \in Offers[k] \/ o = <<"text", "*">> \/ o = <<"text">>
    BY <1>1 DEF OldOffers
  <2> QED
    BY <2>1, <2>2
<1>10. answer = o <=> \E i \in OldPlaces(p, valid) : OldHit(p, valid, os, 1, i)
  BY <1>7, <1>8, <1>9 DEF OldBest
<1>11. CASE valid
  <2>1. (\E i \in OldPlaces(p, valid) : OldHit(p, valid, os, 1, i))
          <=> \E i \in 1..Len(p) : p[i].q # 0 /\ OldMatch(kind, p[i].range, o)
    BY <1>4, <1>7, <1>11 DEF OldPlaces, OldHit
  <2>2. Offered(kind, environ, o) <=> \E i \in 1..Len(p) : p[i].q # 0 /\ OldMatch(kind, p[i].range, o)
    BY <1>3, <1>5, <1>11 DEF Offered, OldContains
  <2>3. PICK g : g = Quality(kind, environ, o) /\ g = OldQuality(kind, p, o)
    BY <1>3, <1>5, <1>11 DEF Quality
  <2>4. OldQuality(kind, p, o) # 0 <=> \E i \in 1..Len(p) : p[i].q # 0 /\ OldMatch(kind, p[i].range, o)
    BY ONLY <1>4, OldQualityIs
  <2> QED
    BY <2>1, <2>2, <2>3, <2>4, <1>6, <1>10
<1>12. CASE ~valid
  <2>1. \E i \in OldPlaces(p, valid) : OldHit(p, valid, os, 1, i)
    BY <1>12 DEF OldPlaces, OldHit
  <2>2. Offered(kind, environ, o)
    BY <1>5, <1>12 DEF Offered
  <2>3. Quality(kind, environ, o) # 0
    BY <1>5, <1>12, NegotiationAssumption DEF Quality
  <2> QED
    BY <2>1, <2>2, <2>3, <1>6, <1>10
<1> QED
  BY <1>11, <1>12

\* The weight of a match is a number.
LEMMA OldWeightIs ==
  ASSUME AcceptInv, NEW os \in Seq(RatedOldOffers), NEW p, p = Parsed(kind, environ),
         NEW valid \in BOOLEAN, valid <=> Valid(kind, environ),
         NEW a \in DOMAIN os, NEW i \in OldPlaces(p, valid)
  PROVE  OldWeight(p, valid, os, a, i) \in Int /\ OldStars(p, valid, i) \in Int
<1>1. PICK k \in Kinds : k = kind
  BY DEF AcceptInv
<1>2. environ \in Seq(Item(k)) /\ p = Parsed(k, environ)
  BY <1>1 DEF AcceptInv
<1>3. p \in Seq(Parseds(k)) /\ \A n \in 1..Len(p) : p[n].q \in Nat
  BY <1>2, ParsedHas
<1>4. PICK w \in {1, 2} : w = os[a].sq
  <2>1. os[a] \in RatedOldOffers
    BY ElementOfSeq
  <2> QED
    BY <2>1 DEF RatedOldOffers
<1>5. PICK q \in Nat : q = IF valid THEN p[i].q ELSE MaxQ
  <2>1. valid => i \in 1..Len(p)
    BY <1>3 DEF OldPlaces
  <2> QED
    BY <2>1, <1>3, NegotiationAssumption
<1>6. w * q \in Int
  <2>1. w = 1 => w * q = q
    BY ONLY q \in Nat
  <2>2. w = 2 => w * q = q + q
    BY ONLY q \in Nat
  <2> QED
    BY ONLY <2>1, <2>2, q \in Nat, w \in {1, 2}
<1>7. OldStars(p, valid, i) \in Int
  <2>1. CASE valid
    <3>1. i \in 1..Len(p)
      BY <2>1, <1>3 DEF OldPlaces
    <3>2. p[i].range \in Seq(STRING)
      BY <3>1, <1>2, ParsedHas
    <3>3. PICK r \in Seq(STRING) : r = p[i].range
      BY <3>2
    <3>4. Stars(r) \in Nat
      BY StarsAre
    <3> QED
      BY <2>1, <3>3, <3>4 DEF OldStars
  <2>2. CASE ~valid
    BY <2>2 DEF OldStars
  <2> QED
    BY <2>1, <2>2
<1> QED
  BY <1>4, <1>5, <1>6, <1>7 DEF OldWeight

LEMMA OldAgree == AcceptInv => OldMethodsAgree
<1> SUFFICES ASSUME AcceptInv PROVE OldMethodsAgree
  OBVIOUS
<1> DEFINE p == Parsed(kind, environ)
           valid == Valid(kind, environ)
           matches(os) == {x \in (DOMAIN os) \X (IF valid THEN DOMAIN p ELSE {0}) :
                             valid => p[x[2]].q # 0 /\ OldMatch(kind, p[x[2]].range, os[x[1]].offer)}
           weight(os, x) == os[x[1]].sq * (IF valid THEN p[x[2]].q ELSE MaxQ)
           stars(x)      == IF valid THEN Stars(p[x[2]].range) ELSE 2
           disputed(x, ties) == kind \in {"charset", "encoding"} /\ \E y \in ties : stars(y) # stars(x)
           preferred(x, y)   == IF kind \in {"accept", "language"}
                                THEN stars(x) < stars(y) \/ (stars(x) = stars(y) /\ x[1] <= y[1])
                                ELSE x[1] <= y[1]
<1>1. p = Parsed(kind, environ) /\ (valid <=> Valid(kind, environ))
  OBVIOUS
<1>2. ASSUME NEW os \in RatedLists
      PROVE  LET answer   == BestOffer(kind, environ, os)
                 matching == matches(os)
             IN  IF matching = {} THEN answer = <<>>
                 ELSE \E x \in matching :
                        LET ties == {y \in matching : weight(os, y) = weight(os, x)}
                        IN  /\ answer = os[x[1]].offer
                            /\ \A y \in matching : weight(os, y) <= weight(os, x)
                            /\ disputed(x, ties) \/ \A y \in ties : preferred(x, y)
  <2> DEFINE tied(x) == {y \in matches(os) : weight(os, y) = weight(os, x)}
  <2>1. PICK answer : answer = BestOffer(kind, environ, os)
    OBVIOUS
  <2>2. os \in Seq(RatedOldOffers)
    <3>1. PICK n \in 0..MaxRated : os \in [1..n -> RatedOldOffers]
      BY DEF RatedLists, RatedOldOffers
    <3>2. n \in Nat
      BY HeadersAssumption
    <3> QED
      BY ONLY <3>1, <3>2
  <2>3. PICK b \in BOOLEAN : b <=> valid
    OBVIOUS
  <2> HIDE DEF p, valid
  <2>4. OldBest(p, b, os, answer)
    BY <1>1, <2>1, <2>2, <2>3, OldAnswers
  <2>5. \A x \in matches(os) : x[1] \in DOMAIN os /\ x[2] \in OldPlaces(p, b) /\ OldHit(p, b, os, x[1], x[2])
    BY <2>3 DEF OldPlaces, OldHit
  <2>6. \A a \in DOMAIN os, i \in OldPlaces(p, b) : OldHit(p, b, os, a, i) => <<a, i>> \in matches(os)
    BY <2>3 DEF OldPlaces, OldHit
  <2>7. \A x : weight(os, x) = OldWeight(p, b, os, x[1], x[2]) /\ stars(x) = OldStars(p, b, x[2])
    BY <2>3 DEF OldWeight, OldStars
  <2>8. \A x \in matches(os) : weight(os, x) \in Int /\ stars(x) \in Int
    <3> SUFFICES ASSUME NEW x \in matches(os) PROVE weight(os, x) \in Int /\ stars(x) \in Int
      OBVIOUS
    <3>1. OldWeight(p, b, os, x[1], x[2]) \in Int /\ OldStars(p, b, x[2]) \in Int
      BY <1>1, <2>2, <2>3, <2>5, OldWeightIs
    <3> QED
      BY <3>1, <2>7
  <2> HIDE DEF matches, weight, stars
  <2>9. CASE answer = <<>> /\ \A a \in DOMAIN os, i \in OldPlaces(p, b) : ~OldHit(p, b, os, a, i)
    <3>1. matches(os) = {}
      BY <2>5, <2>9
    <3> QED
      BY <3>1, <2>1, <2>9
  <2>10. ASSUME NEW a \in DOMAIN os, NEW i \in OldPlaces(p, b), OldHit(p, b, os, a, i), answer = os[a].offer,
                \A d \in DOMAIN os, j \in OldPlaces(p, b) :
                  OldHit(p, b, os, d, j) => OldBetter(p, b, os, a, i, d, j)
         PROVE  matches(os) # {} /\ \E x \in matches(os) :
                  /\ answer = os[x[1]].offer
                  /\ \A y \in matches(os) : weight(os, y) <= weight(os, x)
                  /\ disputed(x, tied(x)) \/ \A y \in tied(x) : preferred(x, y)
    <3>1. PICK x : x = <<a, i>>
      OBVIOUS
    <3>2. x[1] = a /\ x[2] = i
      BY ONLY <3>1
    <3>3. x \in matches(os)
      BY <3>1, <2>6, <2>10
    <3>4. ASSUME NEW y \in matches(os)
          PROVE  \/ weight(os, x) > weight(os, y)
                 \/ /\ weight(os, x) = weight(os, y)
                    /\ stars(x) < stars(y) \/ (stars(x) = stars(y) /\ x[1] <= y[1])
      <4>1. OldBetter(p, b, os, a, i, y[1], y[2])
        BY <2>5, <2>10
      <4> QED
        BY <4>1, <2>7, <3>2 DEF OldBetter
    <3>5. ASSUME NEW y \in matches(os) PROVE weight(os, y) <= weight(os, x)
      <4>1. PICK u \in Int, w \in Int : u = weight(os, x) /\ w = weight(os, y)
        BY <2>8, <3>3
      <4>2. u > w \/ u = w
        BY <3>4, <4>1
      <4> QED
        BY ONLY <4>1, <4>2
    <3>6. ASSUME NEW y \in tied(x)
          PROVE  stars(x) < stars(y) \/ (stars(x) = stars(y) /\ x[1] <= y[1])
      <4>1. y \in matches(os) /\ weight(os, y) = weight(os, x)
        OBVIOUS
      <4>2. PICK u \in Int : u = weight(os, x)
        BY <2>8, <3>3
      <4>3. ~(weight(os, x) > weight(os, y))
        BY ONLY <4>1, <4>2
      <4> QED
        BY <3>4, <4>1, <4>3
    <3>7. disputed(x, tied(x)) \/ \A y \in tied(x) : preferred(x, y)
      <4> SUFFICES ASSUME NEW y \in tied(x), ~preferred(x, y) PROVE disputed(x, tied(x))
        OBVIOUS
      <4>1. stars(x) < stars(y) \/ (stars(x) = stars(y) /\ x[1] <= y[1])
        BY <3>6
      <4>2. kind \notin {"accept", "language"}
        BY <4>1, Zenon
      <4>3. ~(x[1] <= y[1])
        BY <4>2, Zenon
      <4>4. stars(x) < stars(y)
        BY ONLY <4>1, <4>3
      <4>5. PICK l \in Int, m \in Int : l = stars(x) /\ m = stars(y)
        BY <2>8, <3>3
      <4>6. m # l
        BY ONLY <4>4, <4>5
      <4>7. kind \in {"charset", "encoding"}
        BY <4>2 DEF AcceptInv, Kinds
      <4> QED
        BY <4>5, <4>6, <4>7
    <3> HIDE DEF disputed, preferred, tied
    <3> QED
      BY <3>2, <3>3, <3>5, <3>7, <2>10
  <2> QED
    BY <2>1, <2>4, <2>9, <2>10 DEF OldBest
<1>3. \A o \in OldOffers :
        LET some == BestOffer(kind, environ, <<[offer |-> o, sq |-> 1]>>) = o
        IN  /\ Offered(kind, environ, o) <=> some
            /\ Quality(kind, environ, o) # 0 <=> some
  BY OldOneAnswers
<1> QED
  BY <1>2, <1>3 DEF OldMethodsAgree

(* For every header, the deprecated methods answer what their docstrings    *)
(* say, and agree with one another (OldMethodsAgree).                       *)
THEOREM AcceptOldMethods == AcceptSpec => []OldMethodsAgree
BY AcceptInvariant, OldAgree, PTL
=============================================================================
