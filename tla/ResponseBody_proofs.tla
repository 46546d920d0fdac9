------------------------- MODULE ResponseBody_proofs -------------------------
(***************************************************************************)
(* Proofs about ResponseBody for any set of responses, any pieces and any   *)
(* number of iterables: NothingLost, LengthTrue and ReadersClose            *)
(* (src/webob/response.py 525-755, 1282-1355).                              *)
(*                                                                         *)
(* What makes them true is that no two responses have an iterable in        *)
(* common, directly or inside the generator that compresses it: who reads   *)
(* or writes one changes the body of one response.                          *)
(***************************************************************************)
EXTENDS ResponseBody, SequenceTheorems, TLAPS

---------------------------------------------------------------------------
(* The inductive invariant.                                                 *)

\* What a generator compresses was there before it.
Iterables ==
  /\ its \in Seq(Iter)
  /\ \A i \in 1..Len(its) :
       /\ its[i].inner \in 0..(i - 1)
       /\ its[i].inner # 0 => its[i].kind = "zip"

\* A body is compressed at most once: its header says when it was.
Responses ==
  /\ live \subseteq Resps /\ pieces \in Nat
  /\ resp \in [Resps -> Response] /\ text \in [Resps -> Seq(Nat)]
  /\ \A r \in live :
       /\ resp[r].it \in 1..Len(its)
       /\ its[resp[r].it].kind = "zip" => resp[r].enc = "gzip"

Apart(xs, i, j) ==
  /\ i # j /\ xs[i].inner # j /\ xs[j].inner # i
  /\ xs[i].inner # 0 => xs[i].inner # xs[j].inner

NoneShared == \A r, q \in live : r # q => Apart(its, resp[r].it, resp[q].it)

IInv == Iterables /\ Responses /\ NoneShared /\ NothingLost /\ LengthTrue

---------------------------------------------------------------------------
(* Bodies.                                                                  *)

LEMMA Bodies ==
  /\ \A s \in Seq(Nat) : /\ Plain(s) \in Body /\ Pieces(Plain(s)) = s /\ Length(Plain(s)) = Len(s)
                         /\ Gzip(s) \in Body /\ Pieces(Gzip(s)) = s
  /\ \A b \in Body : Pieces(b) \in Seq(Nat) /\ Length(b) \in Nat
<1>1. ASSUME NEW s \in Seq(Nat)
      PROVE  /\ Plain(s) \in Body /\ Pieces(Plain(s)) = s /\ Length(Plain(s)) = Len(s)
             /\ Gzip(s) \in Body /\ Pieces(Gzip(s)) = s
  <2>1. <<>> \o s = s /\ s \o <<>> = s BY ConcatEmptySeq
  <2>2. Len(s) \in Nat /\ <<>> \in Seq(Nat) BY LenProperties, EmptySeq
  <2> QED BY <2>1, <2>2 DEF Plain, Gzip, Body, Pieces, Length
<1>2. ASSUME NEW b \in Body PROVE Pieces(b) \in Seq(Nat) /\ Length(b) \in Nat
  <2>1. Pieces(b) \in Seq(Nat) BY ConcatProperties DEF Pieces, Body
  <2>2. Len(Pieces(b)) \in Nat BY <2>1, LenProperties
  <2> QED BY <2>1, <2>2, ResponseAssumption DEF Length
<1> QED BY <1>1, <1>2

LEMMA AppendToConcat ==
  ASSUME NEW s \in Seq(Nat), NEW t \in Seq(Nat), NEW p \in Nat
  PROVE  s \o Append(t, p) = Append(s \o t, p)
<1>1. s \o t \in Seq(Nat) /\ <<p>> \in Seq(Nat) BY ConcatProperties
<1>2. Append(t, p) = t \o <<p>> /\ Append(s \o t, p) = (s \o t) \o <<p>>
  BY <1>1, AppendIsConcat
<1>3. PICK u \in Seq(Nat) : u = <<p>> BY <1>1
<1>4. (s \o t) \o u = s \o (t \o u) BY ConcatAssociative
<1> QED BY <1>2, <1>3, <1>4

LEMMA BehindBody ==
  ASSUME NEW b \in Body, NEW p \in Nat
  PROVE  /\ Behind(b, p) \in Body /\ Pieces(Behind(b, p)) = Append(Pieces(b), p)
         /\ Length(Behind(b, p)) = Length(b) + 1
<1>1. b.of \in Seq(Nat) /\ b.rest \in Seq(Nat) /\ b.zip \in BOOLEAN BY DEF Body
<1>2. /\ Behind(b, p).of = b.of /\ Behind(b, p).rest = Append(b.rest, p)
      /\ Behind(b, p).zip = b.zip
  BY DEF Behind, Body
<1>3. Append(b.rest, p) \in Seq(Nat) BY <1>1
<1>4. Behind(b, p) \in Body BY <1>1, <1>3 DEF Behind, Body
<1>5. b.of \o Append(b.rest, p) = Append(b.of \o b.rest, p) BY <1>1, AppendToConcat
<1>6. Pieces(Behind(b, p)) = Append(Pieces(b), p) BY <1>2, <1>5 DEF Pieces
<1>7. Pieces(b) \in Seq(Nat) BY Bodies
<1>8. Len(Append(Pieces(b), p)) = Len(Pieces(b)) + 1 /\ Len(Pieces(b)) \in Nat BY <1>7
<1>9. Length(Behind(b, p)) = Length(b) + 1
  <2>1. CASE b.zip
    <3>1. Length(Behind(b, p)) = Len(Append(Pieces(b), p)) + ZipHead
      BY <1>2, <1>6, <2>1 DEF Length
    <3>2. Length(b) = Len(Pieces(b)) + ZipHead BY <2>1 DEF Length
    <3> QED BY <1>8, <3>1, <3>2, ResponseAssumption
  <2>2. CASE ~b.zip
    <3>1. Length(Behind(b, p)) = Len(Append(Pieces(b), p)) + 0
      BY <1>2, <1>6, <2>2 DEF Length
    <3>2. Length(b) = Len(Pieces(b)) + 0 BY <2>2 DEF Length
    <3> QED BY <1>8, <3>1, <3>2
  <2> QED BY <2>1, <2>2
<1> QED BY <1>4, <1>6, <1>9

LEMMA NewIters ==
  /\ \A b \in Body, n \in 0..2 : /\ List(b, n) \in Iter /\ List(b, n).inner = 0
                                 /\ List(b, n).body = b /\ List(b, n).kind = "list"
  /\ \A b \in Body, f \in BOOLEAN : /\ Gen(b, f) \in Iter /\ Gen(b, f).inner = 0
                                    /\ Gen(b, f).body = b /\ Gen(b, f).kind = "gen"
  /\ \A i \in Nat : ZipGen(i) \in Iter
<1>1. <<>> \in Seq(Nat) BY EmptySeq
<1>2. Plain(<<>>) \in Body BY <1>1, Bodies
<1> QED BY <1>2 DEF List, Gen, ZipGen, Iter

LEMMA SpentIter ==
  ASSUME NEW x \in Iter
  PROVE  /\ Spent(x) \in Iter /\ Spent(x).kind = x.kind /\ Spent(x).inner \in {0, x.inner}
         /\ [x EXCEPT !.closed = (x.kind # "list")] \in Iter
<1>1. Plain(<<>>) \in Body BY EmptySeq, Bodies
<1> QED BY <1>1 DEF Spent, Iter

---------------------------------------------------------------------------
(* What one operation does to the iterables that are there.                 *)

\* Nothing but iterable i and what it compresses is read, closed or written to.
Touched(i, xs) ==
  /\ xs \in Seq(Iter) /\ Len(xs) = Len(its)
  /\ \A j \in 1..Len(its) :
       /\ xs[j].kind = its[j].kind /\ xs[j].inner \in {0, its[j].inner}
       /\ (j # i /\ j # its[i].inner) => xs[j] = its[j]

LEMMA ReadTouches ==
  ASSUME Iterables, NEW i \in 1..Len(its)
  PROVE  Touched(i, its) /\ Touched(i, Read(i))
<1>1. its \in Seq(Iter) /\ Len(its) \in Nat BY LenProperties DEF Iterables
<1>2. \A j \in 1..Len(its) : its[j] \in Iter BY <1>1
<1>3. \A j \in 1..Len(its) : Read(i)[j] = IF j = i \/ j = its[i].inner THEN Spent(its[j]) ELSE its[j]
  BY DEF Read
<1>4. \A j \in 1..Len(its) : Read(i)[j] \in Iter BY <1>2, <1>3, SpentIter
<1>5. Read(i) \in Seq(Iter) /\ Len(Read(i)) = Len(its)
  <2>1. Read(i) \in [1..Len(its) -> Iter] BY <1>4 DEF Read
  <2> QED BY <1>1, <2>1
<1>6. ASSUME NEW j \in 1..Len(its)
      PROVE  /\ Read(i)[j].kind = its[j].kind /\ Read(i)[j].inner \in {0, its[j].inner}
             /\ (j # i /\ j # its[i].inner) => Read(i)[j] = its[j]
  <2>1. CASE j = i \/ j = its[i].inner
    <3>1. Read(i)[j] = Spent(its[j]) BY <1>3, <2>1
    <3> QED BY <1>2, <2>1, <3>1, SpentIter
  <2>2. CASE ~(j = i \/ j = its[i].inner)
    <3>1. Read(i)[j] = its[j] BY <1>3, <2>2
    <3> QED BY <3>1
  <2> QED BY <2>1, <2>2
<1> QED BY <1>1, <1>5, <1>6 DEF Touched

LEMMA CloseTouches ==
  ASSUME Iterables, NEW i \in 1..Len(its), NEW xs, Touched(i, xs)
  PROVE  /\ Touched(i, Close(xs, i))
         /\ Close(xs, i)[i].closed = (its[i].kind # "list")
<1>1. xs \in Seq(Iter) /\ Len(xs) = Len(its) /\ Len(its) \in Nat
  BY LenProperties DEF Touched, Iterables
<1>2. xs[i] \in Iter /\ xs[i].kind = its[i].kind BY <1>1 DEF Touched
<1>3. [xs[i] EXCEPT !.closed = (xs[i].kind # "list")] \in Iter BY <1>2, SpentIter
<1>4. Close(xs, i) = [xs EXCEPT ![i] = [xs[i] EXCEPT !.closed = (xs[i].kind # "list")]]
  BY DEF Close
<1>5. /\ Close(xs, i) \in Seq(Iter) /\ Len(Close(xs, i)) = Len(xs)
      /\ \A j \in 1..Len(its) :
           Close(xs, i)[j] = IF j = i THEN [xs[i] EXCEPT !.closed = (xs[i].kind # "list")] ELSE xs[j]
  BY <1>1, <1>3, <1>4, ExceptSeq
<1>6. /\ Close(xs, i)[i].kind = xs[i].kind /\ Close(xs, i)[i].inner = xs[i].inner
      /\ Close(xs, i)[i].closed = (xs[i].kind # "list")
  BY <1>2, <1>5 DEF Iter
<1>7. ASSUME NEW j \in 1..Len(its)
      PROVE  /\ Close(xs, i)[j].kind = its[j].kind /\ Close(xs, i)[j].inner \in {0, its[j].inner}
             /\ (j # i /\ j # its[i].inner) => Close(xs, i)[j] = its[j]
  <2>1. CASE j = i BY <1>6, <2>1 DEF Touched
  <2>2. CASE j # i BY <1>5, <2>2 DEF Touched
  <2> QED BY <2>1, <2>2
<1> QED BY <1>1, <1>2, <1>5, <1>6, <1>7 DEF Touched

---------------------------------------------------------------------------
(* One operation on response r: q is the copy that it makes, or r.          *)

\* The iterables behind what was there wrap nothing, or compress that of r.
Extended(r) ==
  /\ its' \in Seq(Iter) /\ Len(its) <= Len(its')
  /\ \A j \in 1..Len(its) :
       /\ its'[j].kind = its[j].kind /\ its'[j].inner \in {0, its[j].inner}
       /\ (j # resp[r].it /\ j # its[resp[r].it].inner) => its'[j] = its[j]
  /\ \A j \in (Len(its) + 1)..Len(its') :
       its'[j].inner # 0 => (its'[j].inner = resp[r].it /\ its'[j].kind = "zip")

Good(r) ==
  /\ Pieces(Current(r)) = text[r]
  /\ resp[r].clen # None => resp[r].clen = Length(Current(r))

\* r keeps the iterable it has, or has a new one.
Placed(r, p) ==
  /\ (resp'[p].it = resp[r].it /\ p = r) \/ resp'[p].it \in (Len(its) + 1)..Len(its')
  /\ its'[resp'[p].it].kind = "zip" => resp'[p].enc = "gzip"

Moves(r, q) ==
  /\ live' = live \cup {q} /\ pieces' \in Nat /\ r \in live /\ (q = r \/ q \notin live)
  /\ resp' \in [Resps -> Response] /\ text' \in [Resps -> Seq(Nat)]
  /\ \A p \in live \ {r} : /\ resp'[p] = resp[p] /\ text'[p] = text[p]
                           /\ p \in harmed => p \in harmed'
  /\ Placed(r, r) /\ Placed(r, q)
  /\ (q # r) => Apart(its', resp'[r].it, resp'[q].it)
  /\ r \notin harmed' => Good(r)'
  /\ q \notin harmed' => Good(q)'

LEMMA OthersContent ==
  ASSUME Iterables, NEW r \in live, Extended(r), NEW j \in 1..Len(its),
         resp[r].it \in 1..Len(its), Apart(its, resp[r].it, j)
  PROVE  /\ its'[j] = its[j]
         /\ Content(j)' = Content(j)
<1>1. its'[j] = its[j] BY DEF Extended, Apart
<1>2. its[j].inner # 0 => its[its[j].inner]' = its[its[j].inner]
  <2>1. SUFFICES ASSUME its[j].inner # 0 PROVE its'[its[j].inner] = its[its[j].inner]
    BY <1>1
  <2>2. /\ its[j].inner \in 1..Len(its) /\ its[j].inner # resp[r].it
        /\ its[j].inner # its[resp[r].it].inner
    BY <2>1, LenProperties DEF Iterables, Apart
  <2> QED BY <2>2 DEF Extended
<1>3. Content(j)' = IF its'[j].kind = "zip" /\ its'[j].inner # 0
                    THEN Gzip(Pieces(its'[its'[j].inner].body)) ELSE its'[j].body
  BY DEF Content, Gzip, Pieces
<1> QED BY <1>1, <1>2, <1>3 DEF Content

LEMMA StillApart ==
  ASSUME Iterables, NEW r \in live, Extended(r), NEW p \in Resps, Placed(r, p),
         NEW j \in 1..Len(its), resp[r].it \in 1..Len(its), Apart(its, resp[r].it, j)
  PROVE  Apart(its', resp'[p].it, j) /\ Apart(its', j, resp'[p].it)
<1> DEFINE i == resp[r].it
<1> DEFINE n == resp'[p].it
<1>1. its'[j] = its[j] BY OthersContent
<1>2. Len(its) \in Nat /\ its[j].inner \in 0..(j - 1) BY LenProperties DEF Iterables
<1>3. CASE n = i
  <2>1. its'[i].inner \in {0, its[i].inner} BY DEF Extended
  <2>2. its[i].inner \in 0..(i - 1) BY DEF Iterables
  <2> QED BY <1>1, <1>2, <1>3, <2>1, <2>2 DEF Apart
<1>4. CASE n \in (Len(its) + 1)..Len(its')
  <2>1. its'[n].inner # 0 => its'[n].inner = i BY <1>4 DEF Extended
  <2>2. n # j /\ its[j].inner # n BY <1>2, <1>4
  <2>3. i # j /\ its[j].inner # i BY DEF Apart
  <2>4. j # 0 /\ i # 0 BY <1>2
  <2>5. Apart(its', n, j) /\ Apart(its', j, n)
    <3> HIDE DEF n, i
    <3> QED BY <1>1, <2>1, <2>2, <2>3, <2>4 DEF Apart
  <2> QED BY <2>5
<1> QED BY <1>3, <1>4 DEF Placed

LEMMA MoveKeeps ==
  ASSUME IInv, NEW r \in live, NEW q \in Resps, Extended(r), Moves(r, q)
  PROVE  IInv'
<1> USE DEF IInv
<1>1. /\ resp[r].it \in 1..Len(its) /\ Len(its) \in Nat /\ r \in Resps
      /\ Len(its') \in Nat /\ Len(its) <= Len(its')
  BY LenProperties DEF Responses, Iterables, Extended
<1>2. Iterables'
  <2>1. ASSUME NEW j \in 1..Len(its')
        PROVE  its'[j].inner \in 0..(j - 1) /\ (its'[j].inner # 0 => its'[j].kind = "zip")
    <3>1. CASE j \in 1..Len(its)
      <4>1. its'[j].inner \in {0, its[j].inner} /\ its'[j].kind = its[j].kind
        BY <3>1 DEF Extended
      <4>2. its[j].inner \in 0..(j - 1) /\ (its[j].inner # 0 => its[j].kind = "zip")
        BY <3>1 DEF Iterables
      <4> QED BY <4>1, <4>2
    <3>2. CASE j \in (Len(its) + 1)..Len(its')
      <4>1. its'[j].inner # 0 => (its'[j].inner = resp[r].it /\ its'[j].kind = "zip")
        BY <3>2 DEF Extended
      <4> QED BY <1>1, <3>2, <4>1
    <3> QED BY <1>1, <3>1, <3>2
  <2> QED BY <2>1 DEF Iterables, Extended
<1>3. ASSUME NEW p \in live \ {r}
      PROVE  /\ resp'[p] = resp[p] /\ text'[p] = text[p] /\ resp[p].it \in 1..Len(its)
             /\ its'[resp[p].it] = its[resp[p].it]
             /\ Current(p)' = Current(p)
             /\ p \in harmed => p \in harmed'
             /\ Apart(its, resp[r].it, resp[p].it)
  <2>1. resp'[p] = resp[p] /\ text'[p] = text[p] /\ (p \in harmed => p \in harmed')
    BY DEF Moves
  <2>2. resp[p].it \in 1..Len(its) BY DEF Responses
  <2>3. Apart(its, resp[r].it, resp[p].it) BY DEF NoneShared
  <2>4. PICK j \in 1..Len(its) : j = resp[p].it BY <2>2
  <2>5. its'[j] = its[j] /\ Content(j)' = Content(j) BY <1>1, <2>3, <2>4, OthersContent
  <2>6. Current(p)' = Content(j)' /\ Current(p) = Content(j)
    BY <2>1, <2>4 DEF Current, Content
  <2> QED BY <2>1, <2>2, <2>3, <2>4, <2>5, <2>6
<1>4. ASSUME NEW p \in live'
      PROVE  resp'[p].it \in 1..Len(its') /\ (its'[resp'[p].it].kind = "zip" => resp'[p].enc = "gzip")
  <2>1. CASE p \in {r, q}
    <3>1. Placed(r, p) BY <2>1 DEF Moves
    <3> QED BY <1>1, <3>1 DEF Placed
  <2>2. CASE p \in live \ {r}
    <3>1. /\ resp[p].it \in 1..Len(its)
          /\ its[resp[p].it].kind = "zip" => resp[p].enc = "gzip"
      BY <2>2 DEF Responses
    <3> QED BY <1>1, <1>3, <2>2, <3>1
  <2> QED BY <2>1, <2>2 DEF Moves
<1>5. Responses' BY <1>4 DEF Responses, Moves
<1>6. ASSUME NEW p \in live \ {r}, NEW m \in {r, q}
      PROVE  Apart(its', resp'[m].it, resp'[p].it) /\ Apart(its', resp'[p].it, resp'[m].it)
  <2>1. PICK j \in 1..Len(its) : j = resp[p].it BY <1>3
  <2>2. Placed(r, m) /\ m \in Resps BY <1>1 DEF Moves
  <2>3. Apart(its', resp'[m].it, j) /\ Apart(its', j, resp'[m].it)
    BY <1>1, <1>3, <2>1, <2>2, StillApart
  <2> QED BY <1>3, <2>1, <2>3
<1>7. NoneShared'
  <2>1. SUFFICES ASSUME NEW a \in live', NEW b \in live', a # b
                 PROVE  Apart(its', resp'[a].it, resp'[b].it)
    BY DEF NoneShared
  <2>2. CASE a \in live \ {r} /\ b \in live \ {r}
    <3>1. Apart(its, resp[a].it, resp[b].it) BY <2>1, <2>2 DEF NoneShared
    <3>2. /\ its'[resp[a].it] = its[resp[a].it] /\ its'[resp[b].it] = its[resp[b].it]
          /\ resp'[a] = resp[a] /\ resp'[b] = resp[b]
      BY <1>3, <2>2
    <3> QED BY <3>1, <3>2 DEF Apart
  <2>3. CASE a \in {r, q} /\ b \in live \ {r} BY <1>6, <2>3
  <2>4. CASE a \in live \ {r} /\ b \in {r, q} BY <1>6, <2>4
  <2>5. CASE a \in {r, q} /\ b \in {r, q}
    <3>1. Apart(its', resp'[r].it, resp'[q].it) /\ q # r BY <2>1, <2>5 DEF Moves
    <3>2. Apart(its', resp'[q].it, resp'[r].it)
      <4>1. /\ resp'[q].it \in (Len(its) + 1)..Len(its')
            /\ resp'[r].it \in 1..Len(its')
        BY <1>4, <3>1 DEF Moves, Placed
      <4> QED BY <3>1, <4>1 DEF Apart
    <3> QED BY <2>1, <2>5, <3>1, <3>2
  <2> QED BY <2>2, <2>3, <2>4, <2>5 DEF Moves
<1>8. ASSUME NEW p \in live', p \notin harmed' PROVE Good(p)'
  <2>1. CASE p \in {r, q} BY <1>8, <2>1 DEF Moves
  <2>2. CASE p \in live \ {r}
    <3>1. p \in live \ harmed BY <1>3, <1>8, <2>2
    <3>2. Good(p) BY <3>1 DEF NothingLost, LengthTrue, Good, Whole
    <3>3. Current(p)' = Current(p) /\ resp'[p] = resp[p] /\ text'[p] = text[p] BY <1>3, <2>2
    <3> QED BY <3>2, <3>3 DEF Good, Pieces, Length
  <2> QED BY <2>1, <2>2 DEF Moves
<1> QED BY <1>2, <1>5, <1>7, <1>8 DEF NothingLost, LengthTrue, Good, Whole

---------------------------------------------------------------------------
(* The ways in which the operations end.                                    *)

LEMMA CurrentBody ==
  ASSUME Iterables, Responses, NEW r \in live
  PROVE  /\ resp[r].it \in 1..Len(its) /\ r \in Resps /\ resp[r] \in Response
         /\ Current(r) \in Body /\ Pieces(Current(r)) \in Seq(Nat) /\ Length(Current(r)) \in Nat
         /\ text[r] \in Seq(Nat)
<1>1. /\ resp[r].it \in 1..Len(its) /\ r \in Resps /\ resp[r] \in Response
      /\ text[r] \in Seq(Nat)
  BY DEF Responses
<1>2. \A j \in 1..Len(its) : its[j] \in Iter BY DEF Iterables
<1>3. Current(r) \in Body
  <2>1. PICK i \in 1..Len(its) : i = resp[r].it BY <1>1
  <2>2. Len(its) \in Nat /\ its[i].inner \in 0..(i - 1) BY LenProperties DEF Iterables
  <2>3. its[i].inner # 0 => its[i].inner \in 1..Len(its) BY <2>2
  <2>4. its[i].inner # 0 => Gzip(Pieces(its[its[i].inner].body)) \in Body
    BY <1>2, <2>3, Bodies DEF Iter
  <2>5. its[i].body \in Body BY <1>2 DEF Iter
  <2> QED BY <2>1, <2>4, <2>5 DEF Current, Content
<1> QED BY <1>1, <1>3, Bodies

LEMMA AttributeSets ==
  \A a \in Response :
    /\ \A n \in Nat \ {0} : [a EXCEPT !.it = n] \in Response
    /\ \A l \in Nat \cup {None} : [a EXCEPT !.clen = l] \in Response
    /\ \A b \in Body : [a EXCEPT !.md5 = [present |-> TRUE, of |-> b]] \in Response
    /\ [a EXCEPT !.md5 = NoMd5] \in Response
    /\ \A e \in {"identity", "gzip"} : [a EXCEPT !.enc = e] \in Response
<1>1. NoMd5 \in [present : BOOLEAN, of : Body] BY EmptySeq, Bodies DEF NoMd5
<1>2. \A b \in Body : [present |-> TRUE, of |-> b] \in [present : BOOLEAN, of : Body] OBVIOUS
<1>3. TAKE a \in Response
<1>4. \A m \in [present : BOOLEAN, of : Body] : [a EXCEPT !.md5 = m] \in Response
  BY DEF Response
<1>5. \A n \in Nat \ {0} : [a EXCEPT !.it = n] \in Response BY DEF Response
<1>6. \A l \in Nat \cup {None} : [a EXCEPT !.clen = l] \in Response BY DEF Response
<1>7. \A e \in {"identity", "gzip"} : [a EXCEPT !.enc = e] \in Response BY DEF Response
<1> QED BY <1>1, <1>2, <1>4, <1>5, <1>6, <1>7

LEMMA BrokenKeeps ==
  ASSUME IInv, NEW r \in live, NEW xs, Touched(resp[r].it, xs), NEW op, Broken(r, xs, op)
  PROVE  IInv'
<1>1. /\ its' = xs /\ harmed' = harmed \cup {r} /\ live' = live /\ resp' = resp
      /\ text' = text /\ pieces' = pieces
  BY DEF Broken
<1>2. /\ resp[r].it \in 1..Len(its) /\ Len(its) \in Nat
      /\ its[resp[r].it].kind = "zip" => resp[r].enc = "gzip"
  BY LenProperties DEF IInv, Responses, Iterables
<1>3. Extended(r) BY <1>1, <1>2 DEF Extended, Touched
<1>4. Placed(r, r) BY <1>1, <1>2 DEF Placed, Touched
<1>5. Moves(r, r) BY <1>1, <1>4 DEF Moves, IInv, Responses
<1> QED BY <1>3, <1>5, MoveKeeps DEF IInv, Responses

\* c is what the new iterable x would yield.
LEMMA ReplaceKeeps ==
  ASSUME IInv, NEW r \in live, NEW xs, Touched(resp[r].it, xs), NEW x \in Iter,
         NEW attrs \in Response, NEW t \in Seq(Nat), NEW op, Replace(r, xs, x, attrs, t, op),
         pieces' \in Nat, harmed \ {r} \subseteq harmed', NEW c,
         \/ x.inner = 0 /\ c = x.body
         \/ x.inner = resp[r].it /\ x.kind = "zip" /\ c = Gzip(Pieces(xs[resp[r].it].body)),
         x.kind = "zip" => attrs.enc = "gzip",
         r \notin harmed' => (Pieces(c) = t /\ (attrs.clen # None => attrs.clen = Length(c)))
  PROVE  IInv'
<1> DEFINE n == Len(its) + 1
<1>1. /\ its' = Append(xs, x) /\ resp' = [resp EXCEPT ![r] = [attrs EXCEPT !.it = n]]
      /\ text' = [text EXCEPT ![r] = t] /\ live' = live
  BY DEF Replace, New
<1>2. /\ resp[r].it \in 1..Len(its) /\ r \in Resps /\ Len(its) \in Nat
      /\ resp \in [Resps -> Response] /\ text \in [Resps -> Seq(Nat)] /\ live \subseteq Resps
  BY LenProperties DEF IInv, Responses, Iterables
<1>3. xs \in Seq(Iter) /\ Len(xs) = Len(its) BY DEF Touched
<1>4. /\ its' \in Seq(Iter) /\ Len(its') = n /\ its'[n] = x
      /\ \A j \in 1..Len(its) : its'[j] = xs[j]
  BY <1>1, <1>3, AppendProperties
<1>5. Extended(r)
  <2>1. \A j \in n..Len(its') : j = n BY <1>2, <1>4
  <2>2. \A j \in n..Len(its') :
          its'[j].inner # 0 => (its'[j].inner = resp[r].it /\ its'[j].kind = "zip")
    BY <1>4, <2>1
  <2>3. \A j \in 1..Len(its) :
          /\ its'[j].kind = its[j].kind /\ its'[j].inner \in {0, its[j].inner}
          /\ (j # resp[r].it /\ j # its[resp[r].it].inner) => its'[j] = its[j]
    BY <1>4 DEF Touched
  <2> QED BY <1>2, <1>4, <2>2, <2>3 DEF Extended
<1>6. [attrs EXCEPT !.it = n] \in Response
  <2>1. n \in Nat \ {0} BY <1>2
  <2> QED BY <2>1, AttributeSets
<1>7. /\ resp' \in [Resps -> Response] /\ resp'[r] = [attrs EXCEPT !.it = n]
      /\ text' \in [Resps -> Seq(Nat)] /\ text'[r] = t
      /\ \A p \in live \ {r} : resp'[p] = resp[p] /\ text'[p] = text[p]
  BY <1>1, <1>2, <1>6
<1>8. resp'[r].it = n /\ resp'[r].enc = attrs.enc /\ resp'[r].clen = attrs.clen
  BY <1>7 DEF Response
<1>9. Placed(r, r) BY <1>2, <1>4, <1>8 DEF Placed
<1>10. Current(r)' = c
  <2>1. Current(r)' = IF x.kind = "zip" /\ x.inner # 0
                      THEN Gzip(Pieces(its'[x.inner].body)) ELSE x.body
    BY <1>4, <1>8 DEF Current, Content, Gzip, Pieces
  <2>2. x.inner # 0 => (x.inner = resp[r].it /\ its'[x.inner] = xs[x.inner])
    BY <1>2, <1>4
  <2> QED BY <1>2, <2>1, <2>2
<1>11. (r \notin harmed') => Good(r)'
  <2>1. Good(r)' <=> /\ Pieces(Current(r)') = text'[r]
                     /\ resp'[r].clen # None => resp'[r].clen = Length(Current(r)')
    BY DEF Good, Pieces, Length
  <2> QED BY <1>7, <1>8, <1>10, <2>1
<1>12. Moves(r, r) BY <1>1, <1>7, <1>9, <1>11 DEF Moves
<1> QED BY <1>2, <1>5, <1>12, MoveKeeps

---------------------------------------------------------------------------
(* The operations.                                                          *)

LEMMA WholeIsGood ==
  ASSUME NothingLost, LengthTrue, NEW r \in live, r \notin harmed
  PROVE  Good(r)
  BY DEF NothingLost, LengthTrue, Good, Whole

LEMMA ReadLengths ==
  ASSUME IInv, NEW r \in live
  PROVE  /\ LengthAfterRead(r, Current(r)) \in Nat \cup {None}
         /\ r \notin harmed => LengthAfterRead(r, Current(r)) \in {None, Length(Current(r))}
<1>1. resp[r] \in Response /\ Length(Current(r)) \in Nat BY CurrentBody DEF IInv
<1>2. resp[r].clen \in Nat \cup {None} BY <1>1 DEF Response
<1>3. r \notin harmed => resp[r].clen \in {None, Length(Current(r))}
  BY WholeIsGood DEF Good, IInv
<1> QED BY <1>1, <1>2, <1>3 DEF LengthAfterRead

LEMMA GetBodyKeeps ==
  ASSUME IInv, NEW r \in live, NEW md5 \in BOOLEAN, GetBody(r, md5)
  PROVE  IInv'
<1> DEFINE body == Current(r)
           i == resp[r].it
           a == [resp[r] EXCEPT !.clen = LengthAfterRead(r, body),
                                !.md5 = IF md5 THEN [present |-> TRUE, of |-> body] ELSE @]
<1>1. /\ i \in 1..Len(its) /\ r \in Resps /\ resp[r] \in Response /\ body \in Body
      /\ Pieces(body) \in Seq(Nat) /\ Length(body) \in Nat /\ text[r] \in Seq(Nat)
  BY CurrentBody DEF IInv
<1>2. /\ LengthAfterRead(r, body) \in Nat \cup {None}
      /\ r \notin harmed => LengthAfterRead(r, body) \in {None, Length(body)}
  BY ReadLengths
<1>3. a \in Response /\ a.clen = LengthAfterRead(r, body) /\ a.enc = resp[r].enc
  <2>1. [resp[r] EXCEPT !.clen = LengthAfterRead(r, body)] \in Response
    BY <1>1, <1>2, AttributeSets
  <2>2. \A m \in Body : [[resp[r] EXCEPT !.clen = LengthAfterRead(r, body)]
                           EXCEPT !.md5 = [present |-> TRUE, of |-> m]] \in Response
    BY <2>1, AttributeSets
  <2>3. a = IF md5 THEN [[resp[r] EXCEPT !.clen = LengthAfterRead(r, body)]
                            EXCEPT !.md5 = [present |-> TRUE, of |-> body]]
            ELSE [resp[r] EXCEPT !.clen = LengthAfterRead(r, body)]
    BY <1>1 DEF Response
  <2>4. a \in Response BY <1>1, <2>1, <2>2, <2>3
  <2> QED BY <1>1, <2>4 DEF Response
<1>4. CASE its[i].kind = "list" /\ its[i].n = 1
  <2>1. /\ resp' = [resp EXCEPT ![r].md5 = a.md5]
        /\ UNCHANGED <<its, live, text, harmed, pieces>>
    BY <1>4 DEF GetBody
  <2>2. its' = its /\ live' = live /\ text' = text /\ harmed' = harmed /\ pieces' = pieces
    BY <2>1
  <2>3. resp' = [resp EXCEPT ![r] = [resp[r] EXCEPT !.md5 = a.md5]] BY <2>1
  <2>4. [resp[r] EXCEPT !.md5 = a.md5] \in Response
    <3>1. a.md5 \in [present : BOOLEAN, of : Body] BY <1>3 DEF Response
    <3> QED BY <1>1, <3>1 DEF Response
  <2>5. /\ resp' \in [Resps -> Response]
        /\ resp'[r].it = i /\ resp'[r].enc = resp[r].enc /\ resp'[r].clen = resp[r].clen
        /\ \A p \in live \ {r} : resp'[p] = resp[p]
    BY <1>1, <2>3, <2>4 DEF IInv, Responses, Response
  <2>6. Touched(i, its) BY <1>1, ReadTouches DEF IInv
  <2>7. Extended(r) BY <2>2, <2>6 DEF Extended, Touched, IInv, Iterables
  <2>8. Placed(r, r) BY <1>1, <2>2, <2>5 DEF Placed, IInv, Responses
  <2>9. r \notin harmed' => Good(r)'
    <3>1. Current(r)' = Current(r) BY <2>2, <2>5 DEF Current, Content
    <3>2. Good(r)' <=> /\ Pieces(Current(r)') = text'[r]
                       /\ resp'[r].clen # None => resp'[r].clen = Length(Current(r)')
      BY DEF Good, Pieces, Length
    <3> QED BY <2>2, <2>5, <3>1, <3>2, WholeIsGood DEF Good, IInv
  <2>10. Moves(r, r)
    BY <1>1, <2>2, <2>5, <2>8, <2>9 DEF Moves, IInv, Responses
  <2> QED BY <1>1, <2>7, <2>10, MoveKeeps
<1>5. CASE ~(its[i].kind = "list" /\ its[i].n = 1)
  <2>1. Touched(i, Close(Read(i), i)) BY <1>1, ReadTouches, CloseTouches DEF IInv
  <2>2. CASE Raises(i)
    <3>1. Broken(r, Close(Read(i), i), "body") BY <1>5, <2>2 DEF GetBody
    <3> QED BY <2>1, <3>1, BrokenKeeps
  <2>3. CASE ~Raises(i)
    <3> DEFINE attrs == IF a.clen # None /\ Length(body) # 0 /\ a.clen # Length(body)
                        THEN resp[r] ELSE a
    <3>1. /\ Replace(r, Close(Read(i), i), Join(r, body), attrs, text[r], "body")
          /\ harmed' = harmed /\ pieces' = pieces
      BY <1>5, <2>3 DEF GetBody
    <3>2. /\ Join(r, body) \in Iter /\ Join(r, body).inner = 0 /\ Join(r, body).body = body
          /\ Join(r, body).kind # "zip"
      BY <1>1, NewIters DEF Join
    <3>3. attrs \in Response BY <1>1, <1>3
    <3>4. r \notin harmed' =>
            (Pieces(body) = text[r] /\ (attrs.clen # None => attrs.clen = Length(body)))
      <4>1. SUFFICES ASSUME r \notin harmed
                     PROVE Pieces(body) = text[r] /\ (attrs.clen # None => attrs.clen = Length(body))
        BY <3>1
      <4>2. Good(r) BY <4>1, WholeIsGood DEF IInv
      <4> QED BY <1>2, <1>3, <4>1, <4>2 DEF Good
    <3>5. pieces' \in Nat BY <3>1 DEF IInv, Responses
    <3> HIDE DEF attrs, body
    <3>6. Touched(resp[r].it, Close(Read(i), i)) BY <2>1
    <3> QED BY <1>1, <3>1, <3>2, <3>3, <3>4, <3>5, <3>6, ReplaceKeeps
  <2> QED BY <2>2, <2>3
<1> QED BY <1>4, <1>5

LEMMA SetBodyKeeps ==
  ASSUME IInv, NEW r \in live, NEW empty \in BOOLEAN, SetBody(r, empty)
  PROVE  IInv'
<1> DEFINE t == IF empty THEN <<>> ELSE <<pieces + 1>>
           attrs == [resp[r] EXCEPT !.clen = Len(t), !.md5 = NoMd5]
<1>1. /\ resp[r].it \in 1..Len(its) /\ resp[r] \in Response /\ pieces \in Nat
  BY CurrentBody DEF IInv, Responses
<1>2. t \in Seq(Nat) /\ Len(t) \in Nat BY <1>1, EmptySeq, LenProperties
<1> HIDE DEF t
<1>3. attrs \in Response /\ attrs.clen = Len(t)
  <2>1. [resp[r] EXCEPT !.clen = Len(t)] \in Response BY <1>1, <1>2, AttributeSets
  <2>2. [[resp[r] EXCEPT !.clen = Len(t)] EXCEPT !.md5 = NoMd5] \in Response
    BY <2>1, AttributeSets
  <2>3. attrs = [[resp[r] EXCEPT !.clen = Len(t)] EXCEPT !.md5 = NoMd5] BY DEF Response
  <2>4. attrs \in Response BY <2>2, <2>3
  <2> QED BY <1>1, <2>4 DEF Response
<1> HIDE DEF attrs
<1>4. /\ Replace(r, its, List(Plain(t), 1), attrs, t, "set")
      /\ harmed' = harmed \ {r} /\ pieces' = pieces + Len(t)
  BY DEF SetBody, t, attrs
<1>5. /\ Plain(t) \in Body /\ List(Plain(t), 1) \in Iter /\ List(Plain(t), 1).inner = 0
      /\ List(Plain(t), 1).body = Plain(t) /\ List(Plain(t), 1).kind = "list"
      /\ Pieces(Plain(t)) = t /\ Length(Plain(t)) = Len(t)
  BY <1>2, Bodies, NewIters
<1>6. Touched(resp[r].it, its) BY <1>1, ReadTouches DEF IInv
<1>7. pieces' \in Nat BY <1>1, <1>2, <1>4
<1> QED BY <1>2, <1>3, <1>4, <1>5, <1>6, <1>7, ReplaceKeeps

LEMMA SetAppIterKeeps ==
  ASSUME IInv, NEW r \in live, SetAppIter(r) \/ DeleteAppIter(r)
  PROVE  IInv'
<1> DEFINE attrs == [resp[r] EXCEPT !.clen = None]
<1>1. resp[r].it \in 1..Len(its) /\ resp[r] \in Response /\ pieces \in Nat
  BY CurrentBody DEF IInv, Responses
<1>2. attrs \in Response /\ attrs.clen = None
  <2>1. attrs \in Response BY <1>1, AttributeSets
  <2> QED BY <1>1, <2>1 DEF Response
<1>3. Touched(resp[r].it, its) BY <1>1, ReadTouches DEF IInv
<1> HIDE DEF attrs
<1>4. ASSUME NEW x \in Iter, x.inner = 0, x.kind # "zip",
             Replace(r, its, x, attrs, Pieces(x.body), "app_iter"),
             harmed' = harmed \ {r}, pieces' \in Nat
      PROVE  IInv'
  <2>1. Pieces(x.body) \in Seq(Nat) BY Bodies DEF Iter
  <2> QED BY <1>2, <1>3, <1>4, <2>1, ReplaceKeeps
<1>5. CASE SetAppIter(r)
  <2>1. /\ <<pieces + 1>> \in Seq(Nat) /\ <<pieces + 1, pieces + 2>> \in Seq(Nat)
    BY <1>1
  <2>2. PICK x \in {Gen(Plain(<<pieces + 1>>), FALSE), Gen(Plain(<<pieces + 1>>), TRUE),
                    List(Plain(<<pieces + 1, pieces + 2>>), 2)} :
          /\ Replace(r, its, x, attrs, Pieces(x.body), "app_iter")
          /\ harmed' = harmed \ {r} /\ pieces' = pieces + Len(Pieces(x.body))
    BY <1>5 DEF SetAppIter, attrs
  <2>3. Plain(<<pieces + 1>>) \in Body /\ Plain(<<pieces + 1, pieces + 2>>) \in Body
    BY <2>1, Bodies
  <2>4. x \in Iter /\ x.inner = 0 /\ x.kind # "zip"
    <3>1. \A f \in BOOLEAN : LET g == Gen(Plain(<<pieces + 1>>), f)
                             IN  g \in Iter /\ g.inner = 0 /\ g.kind = "gen"
      BY <2>3, NewIters
    <3>2. LET l == List(Plain(<<pieces + 1, pieces + 2>>), 2)
          IN  l \in Iter /\ l.inner = 0 /\ l.kind = "list"
      BY <2>3, NewIters
    <3>3. \/ \E f \in BOOLEAN : x = Gen(Plain(<<pieces + 1>>), f)
          \/ x = List(Plain(<<pieces + 1, pieces + 2>>), 2)
      OBVIOUS
    <3> QED BY <3>1, <3>2, <3>3
  <2>5. pieces' \in Nat
    <3>1. Pieces(x.body) \in Seq(Nat) BY <2>4, Bodies DEF Iter
    <3> QED BY <1>1, <2>2, <3>1, LenProperties
  <2> QED BY <1>4, <2>2, <2>4, <2>5
<1>6. CASE DeleteAppIter(r)
  <2>1. <<>> \in Seq(Nat) BY EmptySeq
  <2>2. /\ Plain(<<>>) \in Body /\ Pieces(Plain(<<>>)) = <<>> BY <2>1, Bodies
  <2>3. /\ List(Plain(<<>>), 0) \in Iter /\ List(Plain(<<>>), 0).inner = 0
        /\ List(Plain(<<>>), 0).body = Plain(<<>>) /\ List(Plain(<<>>), 0).kind = "list"
    BY <2>2, NewIters
  <2>4. /\ Replace(r, its, List(Plain(<<>>), 0), attrs, <<>>, "app_iter")
        /\ harmed' = harmed \ {r} /\ pieces' = pieces
    BY <1>6 DEF DeleteAppIter, attrs
  <2>5. Replace(r, its, List(Plain(<<>>), 0), attrs,
                Pieces(List(Plain(<<>>), 0).body), "app_iter")
    BY <2>2, <2>3, <2>4
  <2> QED BY <1>1, <1>4, <2>3, <2>4, <2>5
<1> QED BY <1>5, <1>6

LEMMA EncodeKeeps ==
  ASSUME IInv, NEW r \in live, Encode(r)
  PROVE  IInv'
<1> DEFINE i == resp[r].it
           body == Current(r)
           zip == Gzip(Pieces(body))
           attrs == [resp[r] EXCEPT !.clen = EncodedLength(r, body), !.enc = "gzip"]
<1>1. /\ i \in 1..Len(its) /\ resp[r] \in Response /\ pieces \in Nat
      /\ Pieces(body) \in Seq(Nat) /\ text[r] \in Seq(Nat)
  BY CurrentBody DEF IInv, Responses
<1>2. Touched(i, Read(i)) BY <1>1, ReadTouches DEF IInv
<1>3. CASE Raises(i)
  <2>1. Broken(r, Read(i), "encode") BY <1>3 DEF Encode
  <2> QED BY <1>2, <2>1, BrokenKeeps
<1>4. CASE ~Raises(i)
  <2>1. /\ Replace(r, Read(i), List(zip, 2), attrs, text[r], "encode")
        /\ harmed' = harmed /\ pieces' = pieces
    BY <1>4 DEF Encode
  <2>2. /\ zip \in Body /\ Pieces(zip) = Pieces(body) /\ Length(zip) \in Nat
        /\ List(zip, 2) \in Iter /\ List(zip, 2).inner = 0
        /\ List(zip, 2).body = zip /\ List(zip, 2).kind = "list"
    BY <1>1, Bodies, NewIters
  <2>3. attrs \in Response /\ attrs.clen = Length(zip)
    <3>1. EncodedLength(r, body) = Length(zip) BY DEF EncodedLength
    <3>2. [resp[r] EXCEPT !.clen = Length(zip)] \in Response BY <1>1, <2>2, AttributeSets
    <3>3. [[resp[r] EXCEPT !.clen = Length(zip)] EXCEPT !.enc = "gzip"] \in Response
      BY <3>2, AttributeSets
    <3>4. attrs = [[resp[r] EXCEPT !.clen = Length(zip)] EXCEPT !.enc = "gzip"]
      BY <3>1 DEF Response
    <3>5. attrs \in Response BY <3>3, <3>4
    <3> QED BY <1>1, <3>1, <3>5 DEF Response
  <2>4. r \notin harmed' => (Pieces(zip) = text[r] /\ (attrs.clen # None => attrs.clen = Length(zip)))
    BY <2>1, <2>2, <2>3, WholeIsGood DEF Good, IInv
  <2> HIDE DEF attrs, zip
  <2> QED BY <1>1, <1>2, <2>1, <2>2, <2>3, <2>4, ReplaceKeeps
<1> QED BY <1>3, <1>4

LEMMA EncodeLazilyKeeps ==
  ASSUME IInv, NEW r \in live, EncodeLazily(r)
  PROVE  IInv'
<1> DEFINE i == resp[r].it
           zip == Gzip(Pieces(its[i].body))
           attrs == [resp[r] EXCEPT !.clen = None, !.enc = "gzip"]
<1>1. /\ i \in 1..Len(its) /\ resp[r] \in Response /\ pieces \in Nat
      /\ Pieces(Current(r)) \in Seq(Nat) /\ text[r] \in Seq(Nat)
  BY CurrentBody DEF IInv, Responses
<1>2. Touched(i, its) BY <1>1, ReadTouches DEF IInv
<1>3. /\ Replace(r, its, ZipGen(i), attrs, text[r], "encode")
      /\ harmed' = harmed /\ pieces' = pieces /\ resp[r].enc # "gzip"
  BY DEF EncodeLazily
<1>4. ZipGen(i) \in Iter /\ ZipGen(i).inner = i /\ ZipGen(i).kind = "zip"
  BY <1>1, NewIters DEF ZipGen
<1>5. attrs \in Response /\ attrs.clen = None /\ attrs.enc = "gzip"
  <2>1. [resp[r] EXCEPT !.clen = None] \in Response BY <1>1, AttributeSets
  <2>2. [[resp[r] EXCEPT !.clen = None] EXCEPT !.enc = "gzip"] \in Response
    BY <2>1, AttributeSets
  <2>3. attrs = [[resp[r] EXCEPT !.clen = None] EXCEPT !.enc = "gzip"] BY DEF Response
  <2>4. attrs \in Response BY <2>2, <2>3
  <2> QED BY <1>1, <2>4 DEF Response
<1>6. Current(r) = its[i].body
  <2>1. its[i].kind # "zip" BY <1>3 DEF IInv, Responses
  <2> QED BY <2>1 DEF Current, Content
<1>7. Pieces(zip) = Pieces(Current(r)) BY <1>1, <1>6, Bodies
<1>8. r \notin harmed' => Pieces(zip) = text[r]
  BY <1>3, <1>7, WholeIsGood DEF Good, IInv
<1> HIDE DEF attrs
<1>9. pieces' \in Nat /\ harmed \ {r} \subseteq harmed' BY <1>1, <1>3
<1> QED BY <1>1, <1>2, <1>3, <1>4, <1>5, <1>8, <1>9, ReplaceKeeps

LEMMA DecodeKeeps ==
  ASSUME IInv, NEW r \in live, Decode(r)
  PROVE  IInv'
<1> DEFINE i == resp[r].it
           body == Current(r)
           one == its[i].kind = "list" /\ its[i].n = 1
           xs == IF one THEN its ELSE Close(Read(i), i)
           new == IF Decodable(body) THEN Plain(Pieces(body)) ELSE body
           attrs == IF Decodable(body)
                    THEN [resp[r] EXCEPT !.clen = Len(Pieces(body)), !.enc = "identity",
                                         !.md5 = NoMd5]
                    ELSE IF one THEN resp[r]
                    ELSE [resp[r] EXCEPT !.clen = LengthAfterRead(r, body)]
<1>1. /\ i \in 1..Len(its) /\ resp[r] \in Response /\ pieces \in Nat /\ body \in Body
      /\ Pieces(body) \in Seq(Nat) /\ text[r] \in Seq(Nat)
  BY CurrentBody DEF IInv, Responses
<1>2. Touched(i, xs) BY <1>1, ReadTouches, CloseTouches DEF IInv
<1>3. CASE ~one /\ Raises(i)
  <2>1. Broken(r, xs, "decode") BY <1>3 DEF Decode
  <2> QED BY <1>2, <2>1, BrokenKeeps
<1>4. CASE ~(~one /\ Raises(i))
  <2>1. Replace(r, xs, List(new, 1), attrs, text[r], "decode")
        /\ harmed' = harmed /\ pieces' = pieces
    BY <1>4 DEF Decode
  <2>2. new \in Body /\ Pieces(new) = Pieces(body)
        /\ (Decodable(body) => Length(new) = Len(Pieces(body)))
        /\ (~Decodable(body) => new = body)
    BY <1>1, Bodies
  <2>3. /\ List(new, 1) \in Iter /\ List(new, 1).inner = 0
        /\ List(new, 1).body = new /\ List(new, 1).kind = "list"
    BY <2>2, NewIters
  <2>4. attrs \in Response
        /\ (Decodable(body) => attrs.clen = Len(Pieces(body)))
        /\ (~Decodable(body) => attrs.clen \in {resp[r].clen, LengthAfterRead(r, body)})
    <3>1. CASE Decodable(body)
      <4>1. Len(Pieces(body)) \in Nat BY <1>1, LenProperties
      <4>2. [resp[r] EXCEPT !.clen = Len(Pieces(body))] \in Response
        BY <1>1, <4>1, AttributeSets
      <4>3. [[resp[r] EXCEPT !.clen = Len(Pieces(body))] EXCEPT !.enc = "identity"] \in Response
        BY <4>2, AttributeSets
      <4>4. [[[resp[r] EXCEPT !.clen = Len(Pieces(body))] EXCEPT !.enc = "identity"]
               EXCEPT !.md5 = NoMd5] \in Response
        BY <4>3, AttributeSets
      <4>5. attrs = [[[resp[r] EXCEPT !.clen = Len(Pieces(body))] EXCEPT !.enc = "identity"]
                       EXCEPT !.md5 = NoMd5]
        BY <3>1 DEF Response
      <4>6. attrs \in Response BY <4>4, <4>5
      <4> QED BY <1>1, <3>1, <4>6 DEF Response
    <3>2. CASE ~Decodable(body)
      <4>1. LengthAfterRead(r, body) \in Nat \cup {None} BY ReadLengths
      <4>2. [resp[r] EXCEPT !.clen = LengthAfterRead(r, body)] \in Response
        BY <1>1, <4>1, AttributeSets
      <4>3. [resp[r] EXCEPT !.clen = LengthAfterRead(r, body)].clen = LengthAfterRead(r, body)
        BY <1>1 DEF Response
      <4> QED BY <1>1, <3>2, <4>2, <4>3
    <3> QED BY <3>1, <3>2
  <2>5. r \notin harmed' => (Pieces(new) = text[r] /\ (attrs.clen # None => attrs.clen = Length(new)))
    <3>1. SUFFICES ASSUME r \notin harmed
                   PROVE  Pieces(new) = text[r] /\ (attrs.clen # None => attrs.clen = Length(new))
      BY <2>1
    <3>2. Good(r) BY <3>1, WholeIsGood DEF IInv
    <3>3. LengthAfterRead(r, body) \in {None, Length(body)} BY <3>1, ReadLengths
    <3> HIDE DEF attrs, new
    <3> QED BY <2>2, <2>4, <3>2, <3>3 DEF Good
  <2> HIDE DEF attrs, new, xs
  <2>6. pieces' \in Nat /\ harmed \ {r} \subseteq harmed' BY <1>1, <2>1
  <2> QED BY <1>1, <1>2, <2>1, <2>2, <2>3, <2>4, <2>5, <2>6, ReplaceKeeps
<1> QED BY <1>3, <1>4

LEMMA AppendInPlaceKeeps ==
  ASSUME IInv, NEW r \in live, Write(r), its[resp[r].it].kind = "list"
  PROVE  IInv'
<1> DEFINE i == resp[r].it
           body == Current(r)
           p == pieces + 1
           x == List(Behind(body, p), IF Chunks(i) = 0 THEN 1 ELSE 2)
           l == WriteLength(r, body, TRUE)
           a == [resp[r] EXCEPT !.clen = l]
<1>1. /\ i \in 1..Len(its) /\ r \in Resps /\ resp[r] \in Response /\ pieces \in Nat
      /\ body \in Body /\ Pieces(body) \in Seq(Nat) /\ Length(body) \in Nat /\ text[r] \in Seq(Nat)
  BY CurrentBody DEF IInv, Responses
<1>2. Len(its) \in Nat /\ its \in Seq(Iter) BY LenProperties DEF IInv, Iterables
<1>3. /\ its' = [its EXCEPT ![i] = x] /\ resp' = [resp EXCEPT ![r] = a]
      /\ text' = [text EXCEPT ![r] = Append(text[r], p)] /\ pieces' = p
      /\ live' = live /\ harmed' = harmed
  BY DEF Write
<1>4. p \in Nat BY <1>1
<1>5. /\ Behind(body, p) \in Body /\ Pieces(Behind(body, p)) = Append(Pieces(body), p)
      /\ Length(Behind(body, p)) = Length(body) + 1
  BY <1>1, <1>4, BehindBody
<1>6. x \in Iter /\ x.inner = 0 /\ x.body = Behind(body, p) /\ x.kind = "list"
  BY <1>5, NewIters
<1>7. l \in Nat \cup {None} /\ (resp[r].clen = None => l = None)
      /\ (resp[r].clen # None => l = resp[r].clen + 1)
  BY <1>1 DEF WriteLength, Response
<1> HIDE DEF l
<1>8. a \in Response /\ a.it = i /\ a.clen = l
  <2>1. a \in Response BY <1>1, <1>7, AttributeSets
  <2> QED BY <1>1, <2>1 DEF Response
<1> HIDE DEF x, a, p
<1>9. /\ its' \in Seq(Iter) /\ Len(its') = Len(its)
      /\ \A j \in 1..Len(its) : its'[j] = IF j = i THEN x ELSE its[j]
  BY <1>1, <1>2, <1>3, <1>6, ExceptSeq
<1>10. Extended(r)
  <2>1. ASSUME NEW j \in 1..Len(its)
        PROVE  /\ its'[j].kind = its[j].kind /\ its'[j].inner \in {0, its[j].inner}
               /\ (j # i /\ j # its[i].inner) => its'[j] = its[j]
    BY <1>6, <1>9
  <2> QED BY <1>2, <1>9, <2>1 DEF Extended
<1>11. Append(text[r], p) \in Seq(Nat) BY <1>1, <1>4
<1>12. /\ resp' \in [Resps -> Response] /\ resp'[r] = a
       /\ text' \in [Resps -> Seq(Nat)] /\ text'[r] = Append(text[r], p)
       /\ \A q \in live \ {r} : resp'[q] = resp[q] /\ text'[q] = text[q]
  BY <1>1, <1>3, <1>8, <1>11 DEF IInv, Responses
<1>13. Placed(r, r) BY <1>1, <1>6, <1>8, <1>9, <1>12 DEF Placed
<1>14. Current(r)' = Behind(body, p)
  <2>1. its'[resp'[r].it] = x BY <1>1, <1>8, <1>9, <1>12
  <2>2. Current(r)' = x.body BY <1>6, <2>1 DEF Current, Content
  <2> QED BY <1>6, <2>2
<1>15. r \notin harmed' => Good(r)'
  <2>1. Good(r)' <=> /\ Pieces(Current(r)') = text'[r]
                     /\ resp'[r].clen # None => resp'[r].clen = Length(Current(r)')
    BY DEF Good, Pieces, Length
  <2>2. SUFFICES ASSUME r \notin harmed
                 PROVE  /\ Pieces(Behind(body, p)) = Append(text[r], p)
                        /\ l # None => l = Length(Behind(body, p))
    BY <1>3, <1>8, <1>12, <1>14, <2>1
  <2>3. Good(r) BY <2>2, WholeIsGood DEF IInv
  <2> QED BY <1>5, <1>7, <2>3 DEF Good
<1>16. Moves(r, r)
  BY <1>1, <1>3, <1>4, <1>12, <1>13, <1>15 DEF Moves
<1> QED BY <1>1, <1>10, <1>16, MoveKeeps

LEMMA WriteKeeps ==
  ASSUME IInv, NEW r \in live, Write(r)
  PROVE  IInv'
<1> DEFINE i == resp[r].it
           body == Current(r)
           p == pieces + 1
           x == List(Behind(body, p), IF Chunks(i) = 0 THEN 1 ELSE 2)
           l == WriteLength(r, body, FALSE)
           a == [resp[r] EXCEPT !.clen = l]
<1>1. /\ i \in 1..Len(its) /\ resp[r] \in Response /\ pieces \in Nat
      /\ body \in Body /\ Pieces(body) \in Seq(Nat) /\ Length(body) \in Nat /\ text[r] \in Seq(Nat)
  BY CurrentBody DEF IInv, Responses
<1>2. CASE its[i].kind = "list" BY <1>2, AppendInPlaceKeeps
<1>3. CASE its[i].kind # "list" /\ Raises(i)
  <2>1. Broken(r, Close(Read(i), i), "write") BY <1>3 DEF Write, WriteFails
  <2>2. Touched(i, Close(Read(i), i)) BY <1>1, ReadTouches, CloseTouches DEF IInv
  <2> QED BY <2>1, <2>2, BrokenKeeps
<1>4. CASE its[i].kind # "list" /\ ~Raises(i)
  <2>1. Replace(r, Close(Read(i), i), x, a, Append(text[r], p), "write")
        /\ pieces' = p /\ harmed' = harmed
    BY <1>4 DEF Write
  <2>2. Touched(i, Close(Read(i), i)) BY <1>1, ReadTouches, CloseTouches DEF IInv
  <2>3. p \in Nat /\ Append(text[r], p) \in Seq(Nat) BY <1>1
  <2>4. /\ Behind(body, p) \in Body /\ Pieces(Behind(body, p)) = Append(Pieces(body), p)
        /\ Length(Behind(body, p)) = Length(body) + 1
    BY <1>1, <2>3, BehindBody
  <2>5. x \in Iter /\ x.inner = 0 /\ x.body = Behind(body, p) /\ x.kind = "list"
    BY <2>4, NewIters
  <2>6. l = Length(body) + 1 /\ l \in Nat BY <1>1 DEF WriteLength
  <2> HIDE DEF l
  <2>7. a \in Response /\ a.clen = l
    <3>1. a \in Response BY <1>1, <2>6, AttributeSets
    <3> QED BY <1>1, <3>1 DEF Response
  <2> HIDE DEF x, a, p
  <2>8. r \notin harmed' =>
          (Pieces(x.body) = Append(text[r], p) /\ (a.clen # None => a.clen = Length(x.body)))
    BY <2>1, <2>4, <2>5, <2>6, <2>7, WholeIsGood DEF Good, IInv
  <2>9. x.kind # "zip" BY <2>5
  <2> QED BY <1>1, <2>1, <2>2, <2>3, <2>5, <2>7, <2>8, <2>9, ReplaceKeeps
<1> QED BY <1>2, <1>3, <1>4

LEMMA TwoMore ==
  ASSUME NEW S, NEW xs \in Seq(S), NEW x \in S, NEW n \in Nat, n = Len(xs)
  PROVE  /\ xs \o <<x, x>> \in Seq(S) /\ Len(xs \o <<x, x>>) = n + 2
         /\ \A j \in 1..n : (xs \o <<x, x>>)[j] = xs[j]
         /\ (xs \o <<x, x>>)[n + 1] = x /\ (xs \o <<x, x>>)[n + 2] = x
<1> <<x, x>> \in Seq(S)
  OBVIOUS
<1>1. PICK ys \in Seq(S) : ys = <<x, x>> BY Zenon
<1>2. Len(ys) = 2 /\ ys[1] = x /\ ys[2] = x BY <1>1
<1>3. /\ xs \o ys \in Seq(S) /\ Len(xs \o ys) = Len(xs) + Len(ys)
      /\ \A j \in 1..Len(xs) + Len(ys) :
           (xs \o ys)[j] = IF j <= Len(xs) THEN xs[j] ELSE ys[j - Len(xs)]
  BY ConcatProperties
<1>4. /\ n + 1 \in 1..(n + 2) /\ n + 2 \in 1..(n + 2) /\ ~(n + 1 <= n) /\ ~(n + 2 <= n)
      /\ (n + 1) - n = 1 /\ (n + 2) - n = 2 /\ \A j \in 1..n : j \in 1..(n + 2) /\ j <= n
  OBVIOUS
<1>5. \A j \in 1..(n + 2) : (xs \o ys)[j] = IF j <= n THEN xs[j] ELSE ys[j - n]
  BY <1>2, <1>3
<1>6. /\ (xs \o ys)[n + 1] = ys[(n + 1) - n] /\ (xs \o ys)[n + 2] = ys[(n + 2) - n]
      /\ \A j \in 1..n : (xs \o ys)[j] = xs[j]
  BY <1>4, <1>5, Zenon
<1> QED BY <1>1, <1>2, <1>3, <1>4, <1>6

LEMMA CopyKeeps ==
  ASSUME IInv, NEW r \in live, NEW q \in Resps, Copy(r, q)
  PROVE  IInv'
<1> DEFINE i == resp[r].it
           body == Current(r)
           x == List(body, Chunks(i))
           xs == Close(Read(i), i)
           n == Len(its)
           mine == [resp[r] EXCEPT !.it = n + 1]
           its2 == [resp[r] EXCEPT !.it = n + 2]
<1>1. /\ i \in 1..n /\ r \in Resps /\ resp[r] \in Response /\ pieces \in Nat /\ n \in Nat
      /\ body \in Body /\ Pieces(body) \in Seq(Nat) /\ text[r] \in Seq(Nat)
  BY CurrentBody, LenProperties DEF IInv, Responses, Iterables
<1>2. q \notin live /\ q # r BY DEF Copy
<1>3. CASE Raises(i)
  <2>1. Broken(r, Read(i), "copy") BY <1>3 DEF Copy
  <2>2. Touched(i, Read(i)) BY <1>1, ReadTouches DEF IInv
  <2> QED BY <2>1, <2>2, BrokenKeeps
<1>4. CASE ~Raises(i)
  <2>1. /\ its' = xs \o <<x, x>>
        /\ resp' = [resp EXCEPT ![r] = mine, ![q] = its2]
        /\ text' = [text EXCEPT ![q] = text[r]]
        /\ harmed' = IF r \in harmed THEN harmed \cup {q} ELSE harmed
        /\ live' = live \cup {q} /\ pieces' = pieces
    BY <1>1, <1>2, <1>4 DEF Copy, CopyIters
  <2>2. Touched(i, xs) BY <1>1, ReadTouches, CloseTouches DEF IInv
  <2>3. x \in Iter /\ x.inner = 0 /\ x.body = body /\ x.kind = "list"
    <3>1. PICK j \in 1..n : j = i BY <1>1
    <3>2. its[j] \in Iter BY DEF IInv, Iterables
    <3>3. its[j].n \in 0..2 /\ its[j].body.rest \in Seq(Nat) BY <3>2 DEF Iter, Body
    <3>4. Len(its[j].body.rest) \in Nat BY <3>3, LenProperties
    <3>5. Chunks(j) \in 0..2
      <4>1. CASE its[j].kind = "list" BY <3>3, <4>1 DEF Chunks
      <4>2. CASE its[j].kind # "list" /\ its[j].inner # 0 BY <4>2 DEF Chunks
      <4>3. CASE its[j].kind # "list" /\ its[j].inner = 0
        <5>1. PICK m \in Nat : m = Len(its[j].body.rest) BY <3>4
        <5>2. Chunks(j) = IF m < 2 THEN m ELSE 2 BY <4>3, <5>1 DEF Chunks
        <5> QED BY <5>2
      <4> QED BY <4>1, <4>2, <4>3
    <3>6. Chunks(i) \in 0..2 BY <3>1, <3>5
    <3> QED BY <1>1, <3>6, NewIters
  <2>4. xs \in Seq(Iter) /\ Len(xs) = n BY <2>2 DEF Touched
  <2> HIDE DEF x, xs
  <2>5. /\ its' \in Seq(Iter) /\ Len(its') = n + 2
        /\ \A j \in 1..n : its'[j] = xs[j]
        /\ its'[n + 1] = x /\ its'[n + 2] = x
    BY <1>1, <2>1, <2>3, <2>4, TwoMore, SMTT(30)
  <2>6. Extended(r)
    <3>1. \A j \in (n + 1)..Len(its') : its'[j].inner = 0
      <4>1. \A j \in (n + 1)..Len(its') : j = n + 1 \/ j = n + 2 BY <1>1, <2>5
      <4> QED BY <2>3, <2>5, <4>1
    <3> QED BY <1>1, <2>2, <2>5, <3>1 DEF Extended, Touched
  <2>7. mine \in Response /\ its2 \in Response
    <3>1. n + 1 \in Nat \ {0} /\ n + 2 \in Nat \ {0} BY <1>1
    <3> QED BY <1>1, <3>1, AttributeSets
  <2>8. /\ resp' \in [Resps -> Response] /\ resp'[r] = mine /\ resp'[q] = its2
        /\ text' \in [Resps -> Seq(Nat)] /\ text'[q] = text[r] /\ text'[r] = text[r]
        /\ \A p \in live \ {r} : resp'[p] = resp[p] /\ text'[p] = text[p]
    BY <1>1, <1>2, <2>1, <2>7 DEF IInv, Responses
  <2>9. /\ resp'[r].it = n + 1 /\ resp'[q].it = n + 2
        /\ resp'[r].clen = resp[r].clen /\ resp'[q].clen = resp[r].clen
    BY <1>1, <2>8 DEF Response
  <2>10. Placed(r, r) /\ Placed(r, q)
    <3>1. its'[resp'[r].it].kind = "list" /\ its'[resp'[q].it].kind = "list"
      BY <2>3, <2>5, <2>9
    <3>2. resp'[r].it \in (n + 1)..Len(its') /\ resp'[q].it \in (n + 1)..Len(its')
      BY <1>1, <2>5, <2>9
    <3> QED BY <3>1, <3>2 DEF Placed
  <2>11. Apart(its', resp'[r].it, resp'[q].it)
    <3>1. its'[n + 1].inner = 0 /\ its'[n + 2].inner = 0 BY <2>3, <2>5
    <3> QED BY <1>1, <2>9, <3>1 DEF Apart
  <2>12. ASSUME NEW p \in {r, q}, p \notin harmed' PROVE Good(p)'
    <3>1. r \notin harmed BY <2>1, <2>12
    <3>2. Good(r) BY <3>1, WholeIsGood DEF IInv
    <3>3. Current(p)' = body
      <4>1. its'[resp'[p].it] = x BY <2>5, <2>9
      <4>2. Current(p)' = x.body BY <2>3, <4>1 DEF Current, Content
      <4> QED BY <2>3, <4>2
    <3>4. Good(p)' <=> /\ Pieces(Current(p)') = text'[p]
                       /\ resp'[p].clen # None => resp'[p].clen = Length(Current(p)')
      BY DEF Good, Pieces, Length
    <3> QED BY <2>8, <2>9, <3>2, <3>3, <3>4 DEF Good
  <2>13. Moves(r, q)
    <3>1. \A p \in live \ {r} : p \in harmed => p \in harmed' BY <2>1
    <3> QED BY <1>1, <1>2, <2>1, <2>8, <2>10, <2>11, <2>12, <3>1 DEF Moves
  <2> QED BY <2>6, <2>13, MoveKeeps
<1> QED BY <1>3, <1>4

---------------------------------------------------------------------------
(* The initial state, and the theorems.                                     *)

LEMMA InitGood == Init => IInv
<1> SUFFICES ASSUME Init PROVE IInv
  OBVIOUS
<1>1. PICK k \in 0..MaxPieces, kind \in {"body", "list", "gen", "fails"}, known \in BOOLEAN :
        LET t == [i \in 1..k |-> i]
        IN  /\ kind = "body" => known /\ k = 0
            /\ its = <<CASE kind = "body" -> List(Plain(<<>>), 1)
                         [] kind = "list" -> List(Plain(t), IF k > 2 THEN 2 ELSE k)
                         [] OTHER         -> Gen(Plain(t), kind = "fails")>>
            /\ resp = [r \in Resps |-> [it |-> 1, clen |-> IF known THEN k ELSE None,
                                        enc |-> "identity", md5 |-> NoMd5]]
            /\ text = [r \in Resps |-> IF r = First THEN t ELSE <<>>]
            /\ pieces = k
  BY DEF Init
<1> DEFINE t == [i \in 1..k |-> i]
           x == its[1]
<1>2. k \in Nat /\ t \in Seq(Nat) /\ Len(t) = k
  <2>1. k \in Nat BY ResponseAssumption
  <2>2. t \in [1..k -> Nat] BY <2>1
  <2> QED BY <2>1, <2>2
<1>3. kind = "body" => <<>> = t BY <1>1, <1>2, EmptySeq
<1>4. x \in Iter /\ x.inner = 0 /\ x.body = Plain(t) /\ x.kind # "zip" /\ its = <<x>>
  <2>1. Plain(t) \in Body BY <1>2, Bodies
  <2>2. (IF k > 2 THEN 2 ELSE k) \in 0..2 BY <1>2
  <2>3. LET l == List(Plain(t), IF k > 2 THEN 2 ELSE k)
        IN  l \in Iter /\ l.inner = 0 /\ l.body = Plain(t) /\ l.kind = "list"
    BY <2>1, <2>2, NewIters
  <2>4. LET l == List(Plain(t), 1)
        IN  l \in Iter /\ l.inner = 0 /\ l.body = Plain(t) /\ l.kind = "list"
    BY <2>1, NewIters
  <2>5. LET g == Gen(Plain(t), kind = "fails")
        IN  g \in Iter /\ g.inner = 0 /\ g.body = Plain(t) /\ g.kind = "gen"
    BY <2>1, NewIters
  <2> HIDE DEF t
  <2>6. \/ its = <<List(Plain(t), 1)>> \/ its = <<List(Plain(t), IF k > 2 THEN 2 ELSE k)>>
        \/ its = <<Gen(Plain(t), kind = "fails")>>
    BY <1>1, <1>3 DEF t
  <2> QED BY <2>3, <2>4, <2>5, <2>6
<1> HIDE DEF x, t
<1>5. Len(its) = 1 /\ its \in Seq(Iter) BY <1>4
<1>6. Iterables BY <1>4, <1>5 DEF Iterables, x
<1>7. live = {First} /\ First \in Resps BY ResponseAssumption DEF Init
<1>8. NoMd5 \in [present : BOOLEAN, of : Body] BY EmptySeq, Bodies DEF NoMd5
<1>9. Responses
  <2>1. resp \in [Resps -> Response]
    <3>1. [it |-> 1, clen |-> IF known THEN k ELSE None, enc |-> "identity", md5 |-> NoMd5]
            \in Response
      BY <1>2, <1>8 DEF Response
    <3> QED BY <1>1, <3>1
  <2>2. text \in [Resps -> Seq(Nat)] BY <1>1, <1>2, EmptySeq DEF t
  <2>3. resp[First].it = 1 BY <1>1, <1>7
  <2>4. its[1].kind # "zip" BY <1>4 DEF x
  <2>5. live \subseteq Resps /\ pieces \in Nat BY <1>1, <1>2, <1>7
  <2>6. resp[First].it \in 1..Len(its) BY <1>5, <2>3
  <2> QED BY <1>7, <2>1, <2>2, <2>3, <2>4, <2>5, <2>6 DEF Responses
<1>10. Good(First)
  <2>1. resp[First].it = 1 /\ resp[First].clen \in {k, None} /\ text[First] = t
    BY <1>1, <1>7 DEF t
  <2>2. Current(First) = Plain(t) BY <1>4, <2>1 DEF Current, Content, x
  <2>3. Pieces(Plain(t)) = t /\ Length(Plain(t)) = k BY <1>2, Bodies
  <2> QED BY <2>1, <2>2, <2>3 DEF Good
<1> QED BY <1>6, <1>7, <1>9, <1>10 DEF IInv, NoneShared, NothingLost, LengthTrue, Whole, Good

\* The inductive invariant: the iterables of two responses are apart, so the
\* operations of one leave the body of the other alone.
THEOREM Inductive == Spec => []IInv
<1>1. IInv /\ [Next]_vars => IInv'
  <2> SUFFICES ASSUME IInv, [Next]_vars PROVE IInv'
    OBVIOUS
  <2>1. CASE UNCHANGED vars
    BY <2>1, ZenonT(30) DEF vars, IInv, Iterables, Responses, NoneShared, NothingLost, LengthTrue, Whole,
                Current, Content, Pieces, Gzip, Length, Apart
  <2>2. CASE Next
    <3>1. PICK r \in live :
            \/ \E md5 \in BOOLEAN : GetBody(r, md5)
            \/ \E empty \in BOOLEAN : SetBody(r, empty)
            \/ Write(r) \/ SetAppIter(r) \/ DeleteAppIter(r) \/ Encode(r)
            \/ EncodeLazily(r) \/ Decode(r)
            \/ \E q \in Resps : Copy(r, q)
      BY <2>2 DEF Next
    <3> QED BY <3>1, GetBodyKeeps, SetBodyKeeps, WriteKeeps, SetAppIterKeeps, EncodeKeeps,
               EncodeLazilyKeeps, DecodeKeeps, CopyKeeps
  <2> QED BY <2>1, <2>2
<1> QED BY InitGood, <1>1, PTL DEF Spec

\* No operation loses, repeats or reorders what the application put into the
\* body of a response, in whatever order responses are written to, read,
\* encoded, decoded, replaced and copied (response.py 525-755, 1282-1355).
THEOREM BodiesAreWhole == Spec => []NothingLost
<1>1. IInv => NothingLost BY DEF IInv
<1> QED BY Inductive, <1>1, PTL

\* Content-Length is that of the body, coded or not, or absent.
THEOREM LengthsAreTrue == Spec => []LengthTrue
<1>1. IInv => LengthTrue BY DEF IInv
<1> QED BY Inductive, <1>1, PTL

\* The body getter and write() close the iterator that they read, also when
\* it raises (response.py 542-545, 714-717).
THEOREM IteratorsAreClosed == Spec => []ReadersClose
<1>1. Init => ReadersClose BY DEF Init, ReadersClose
<1>2. IInv /\ ReadersClose /\ [Next]_vars => ReadersClose'
  <2> SUFFICES ASSUME IInv, ReadersClose, [Next]_vars PROVE ReadersClose'
    OBVIOUS
  <2>1. CASE UNCHANGED vars BY <2>1 DEF vars, ReadersClose
  <2>2. CASE Next
    <3>1. PICK r \in live :
            \/ \E md5 \in BOOLEAN : GetBody(r, md5)
            \/ Write(r)
            \/ /\ last'.op \notin {"body", "write"}
               /\ \/ \E empty \in BOOLEAN : SetBody(r, empty)
                  \/ SetAppIter(r) \/ DeleteAppIter(r) \/ Encode(r)
                  \/ EncodeLazily(r) \/ Decode(r)
                  \/ \E q \in Resps : Copy(r, q)
      <4>1. ASSUME NEW r \in live PROVE \A empty \in BOOLEAN : SetBody(r, empty) => last'.op = "set"
        BY DEF SetBody, Replace
      <4>2. ASSUME NEW r \in live PROVE SetAppIter(r) => last'.op = "app_iter"
        BY DEF SetAppIter, Replace
      <4>3. ASSUME NEW r \in live PROVE DeleteAppIter(r) => last'.op = "app_iter"
        BY DEF DeleteAppIter, Replace
      <4>4. ASSUME NEW r \in live PROVE Encode(r) => last'.op = "encode"
        BY DEF Encode, Replace, Broken
      <4>5. ASSUME NEW r \in live PROVE EncodeLazily(r) => last'.op = "encode"
        BY DEF EncodeLazily, Replace
      <4>6. ASSUME NEW r \in live PROVE Decode(r) => last'.op = "decode"
        BY DEF Decode, Replace, Broken
      <4>7. ASSUME NEW r \in live PROVE \A q \in Resps : Copy(r, q) => last'.op = "copy"
        BY DEF Copy, Broken
      <4> QED BY <2>2, <4>1, <4>2, <4>3, <4>4, <4>5, <4>6, <4>7 DEF Next
    <3> DEFINE i == resp[r].it
               xs == Close(Read(i), i)
    <3>2. i \in 1..Len(its) /\ Len(its) \in Nat
      BY CurrentBody, LenProperties DEF IInv, Iterables
    <3>3. /\ xs[i].closed = (its[i].kind # "list") /\ xs[i].kind = its[i].kind
          /\ xs \in Seq(Iter) /\ Len(xs) = Len(its)
      <4>1. Touched(i, xs) /\ xs[i].closed = (its[i].kind # "list")
        BY <3>2, ReadTouches, CloseTouches DEF IInv
      <4> HIDE DEF xs
      <4> QED BY <3>2, <4>1 DEF Touched
    <3> HIDE DEF xs
    <3>4. ASSUME NEW y, last'.it = i, its' = xs \/ its' = Append(xs, y)
          PROVE  ReadersClose'
      <4>1. its'[i] = xs[i] BY <3>2, <3>3, <3>4, AppendProperties
      <4> QED BY <3>3, <3>4, <4>1 DEF ReadersClose
    <3>5. CASE \E md5 \in BOOLEAN : GetBody(r, md5)
      <4>1. PICK md5 \in BOOLEAN : GetBody(r, md5) BY <3>5
      <4>2. CASE its[i].kind = "list" /\ its[i].n = 1
        <5>1. its' = its /\ last'.it = i BY <4>1, <4>2 DEF GetBody
        <5> QED BY <4>2, <5>1 DEF ReadersClose
      <4>3. CASE ~(its[i].kind = "list" /\ its[i].n = 1)
        <5>1. CASE Raises(i)
          <6>1. Broken(r, xs, "body") BY <4>1, <4>3, <5>1 DEF GetBody, xs
          <6> QED BY <3>4, <6>1 DEF Broken
        <5>2. CASE ~Raises(i)
          <6>1. \E attrs : Replace(r, xs, Join(r, Current(r)), attrs, text[r], "body")
            BY <4>1, <4>3, <5>2 DEF GetBody, xs
          <6> QED BY <3>4, <6>1 DEF Replace
        <5> QED BY <5>1, <5>2
      <4> QED BY <4>2, <4>3
    <3>6. CASE Write(r)
      <4>1. CASE its[i].kind = "list"
        <5>1. PICK b, n : its' = [its EXCEPT ![i] = List(b, n)] /\ last'.it = i
          BY <3>6, <4>1 DEF Write
        <5>2. its'[i].kind = "list" BY <3>2, <5>1 DEF IInv, Iterables, List
        <5> QED BY <5>1, <5>2 DEF ReadersClose
      <4>2. CASE its[i].kind # "list" /\ Raises(i)
        <5>1. Broken(r, xs, "write") BY <3>6, <4>2 DEF Write, WriteFails, xs
        <5> QED BY <3>4, <5>1 DEF Broken
      <4>3. CASE its[i].kind # "list" /\ ~Raises(i)
        <5>1. \E y, attrs, t : Replace(r, xs, y, attrs, t, "write")
          BY <3>6, <4>3 DEF Write, xs
        <5> QED BY <3>4, <5>1 DEF Replace
      <4> QED BY <4>1, <4>2, <4>3
    <3> QED BY <3>1, <3>5, <3>6 DEF ReadersClose
  <2> QED BY <2>1, <2>2
<1> QED BY Inductive, <1>1, <1>2, PTL DEF Spec
===============================================================================
