------------------------ MODULE RequestBody_proofs ------------------------
(***************************************************************************)
(* Proofs about RequestBody for every set of environments, every body and  *)
(* every length (the type invariant, NeverReadPastLength, SeekableTruthful, *)
(* LengthMatches, NoTruncation, Independent, FreshReads, StreamInOrder and *)
(* CopyFaithful), and that copy_body as a loop (CopyBodyLoop) implements   *)
(* copy_body as one step, for every chunk, limit and read-ahead, and       *)
(* however little the reads of an application's own stream return          *)
(* (src/webob/request.py 959-1044).                                        *)
(*                                                                         *)
(* The inductive invariant says, of every environ, how its keys agree with *)
(* the file they describe (GoodEnv), and of the files that only the first  *)
(* may be the wire and that no two environs share one.  That of the loop   *)
(* compares each of its states with the one it was called in: if all that  *)
(* is left were read at once, copy_body would come to the same outcome     *)
(* (Outcome) as the one step comes to.                                     *)
(***************************************************************************)
EXTENDS CopyBodyLoop, TLAPS

---------------------------------------------------------------------------
(* The inductive invariant.                                                *)

GoodFile(x) ==
  /\ x \in File
  /\ x.data.lo <= x.data.hi
  /\ x.pos <= Width(x.data)

\* Bytes that are no truncated copy of the p bytes announced.
Whole(c, p) ==
  (p # None /\ c.src = Wire)
    => (Width(c) = 0 \/ c = [src |-> Wire, lo |-> 0, hi |-> p])

\* The files beside a server's announcement p: one wire at most, whose
\* position is within the announced length, and no truncated copy of it.
GoodFiles(f, p) ==
  /\ f \in Seq(File)
  /\ Len(f) >= 1
  /\ \A i \in 1..Len(f) :
       /\ GoodFile(f[i])
       /\ f[i].kind = "wire" => /\ i = 1
                                /\ f[i].data.src = Wire
                                /\ f[i].data.lo = 0
                                /\ p # None => f[i].pos <= p
       /\ f[i].kind = "stream" => f[i].data.src # Wire
       /\ f[i].kind \in {"memory", "temp"} => Whole(f[i].data, p)

\* The bytes read ahead are those just before the position in the file.
GoodWrapper(w, x) ==
  Width(w.ahead) > 0 => /\ w.ahead.src = x.data.src
                        /\ x.data.lo <= w.ahead.lo
                        /\ w.ahead.hi = x.data.lo + x.pos

\* The keys of an environ beside the files and the announcement p.  The last
\* part is what makes the limit hold: the wrapper cached for the wire may read
\* what is left of the announced length, and without it nothing was read.
GoodEnv(f, e, p) ==
  /\ e \in Environ
  /\ e.input \in 1..Len(f)
  /\ e.wrap.ahead.lo <= e.wrap.ahead.hi
  /\ e.post.vars.lo <= e.post.vars.hi
  /\ e.seekable <=> f[e.input].kind \in {"memory", "temp"}
  /\ (e.seekable /\ e.clen # None) => e.clen = Width(f[e.input].data)
  /\ (e.seekable /\ e.clen = None) => Width(f[e.input].data) = 0
  /\ e.post.raw <= Len(f)
  /\ (e.post.raw = e.input /\ Width(e.post.vars) > 0) => e.post.vars = f[e.input].data
  /\ e.wrap.raw <= Len(f)
  /\ f[e.input].kind # "wire" => e.wrap.raw # e.input
  /\ f[e.input].kind = "stream" => e.clen = None
  /\ f[e.input].kind = "wire" =>
       /\ e.clen = p
       /\ IF e.wrap.raw = e.input
          THEN /\ p # None
               /\ e.wrap.remaining + f[e.input].pos = p
               /\ GoodWrapper(e.wrap, f[e.input])
          ELSE (~Readable(e) \/ p # None) => f[e.input].pos = 0

IInv ==
  /\ TypeOK
  /\ GoodFiles(files, promised)
  /\ \A r \in live : GoodEnv(files, env[r], promised)
  /\ \A q, r \in live : q # r => env[q].input # env[r].input

---------------------------------------------------------------------------
(* What every access does to the files: it moves the position of its own   *)
(* input at most, and appends new files.                                   *)

Effect(s, x) ==
  /\ Len(s.f) <= Len(x.f)
  /\ \A i \in 1..Len(s.f) : /\ x.f[i].kind = s.f[i].kind
                            /\ x.f[i].data = s.f[i].data
                            /\ i # s.e.input => x.f[i] = s.f[i]
  /\ x.e.input = s.e.input \/ x.e.input > Len(s.f)

Good(s, p) == GoodFiles(s.f, p) /\ GoodEnv(s.f, s.e, p)

GoodBytes(c) == c \in Slice /\ c.lo <= c.hi

\* An access that begins in s with the announcement p ends well.
Keeps(s, x, p) ==
  /\ Good(x, p)
  /\ Effect(s, x)
  /\ GoodBytes(x.data)
  /\ x.ok \in BOOLEAN

\* The lesser of two numbers is one of them, and no more than either.
LEMMA LeastBound ==
  ASSUME NEW a \in Nat, NEW b \in Nat
  PROVE  /\ Least(a, b) \in Nat /\ Least(a, b) <= a /\ Least(a, b) <= b
         /\ Least(a, b) = a \/ Least(a, b) = b
  BY DEF Least

\* The empty byte string has good bounds and no width.
LEMMA EmptyIsGood == GoodBytes(Empty) /\ Width(Empty) = 0
  BY DEF GoodBytes, Empty, Slice, Sources, Width

\* f and g differ in the position of file i, which is n in g.
Moved(f, g, i, n) ==
  /\ g \in Seq(File)
  /\ Len(g) = Len(f)
  /\ g[i].kind = f[i].kind /\ g[i].data = f[i].data /\ g[i].pos = n
  /\ \A j \in 1..Len(f) : j # i => g[j] = f[j]

\* Seeking moves the position of one file and changes nothing else.
LEMMA SeekMoves ==
  ASSUME NEW f \in Seq(File), NEW i \in 1..Len(f), NEW n \in Nat
  PROVE  Moved(f, Seek(f, i, n), i, n)
<1>1. f[i] \in File
  OBVIOUS
<1>2. [f[i] EXCEPT !.pos = n] \in File
  BY <1>1 DEF File
<1>3. /\ Seek(f, i, n) \in Seq(File)
      /\ Len(Seek(f, i, n)) = Len(f)
      /\ Seek(f, i, n)[i] = [f[i] EXCEPT !.pos = n]
      /\ \A j \in 1..Len(f) : j # i => Seek(f, i, n)[j] = f[j]
  BY <1>2 DEF Seek
<1>4. /\ [f[i] EXCEPT !.pos = n].kind = f[i].kind
      /\ [f[i] EXCEPT !.pos = n].data = f[i].data
      /\ [f[i] EXCEPT !.pos = n].pos = n
  BY <1>1 DEF File
<1> QED
  BY <1>3, <1>4 DEF Moved

\* The read-ahead of a BufferedReader never asks for more than what remains.
LEMMA WantedBound ==
  ASSUME NEW k \in Nat, NEW n \in Nat
  PROVE  Wanted(k, n) \in Nat /\ Wanted(k, n) <= n
<1>1. k + BufSize - 1 \in Nat /\ BufSize \in Nat /\ BufSize > 0
  BY ConstantsAssumption
<1>2. (k + BufSize - 1) \div BufSize \in Nat
  BY <1>1
<1>3. ((k + BufSize - 1) \div BufSize) * BufSize \in Nat
  BY <1>1, <1>2
<1> QED
  BY <1>3 DEF Wanted, Least

\* Moving the position of one's own input keeps the files good, if the wire
\* stays within the announced length.
LEMMA MovedGoodFiles ==
  ASSUME NEW p \in Nat \cup {None}, NEW f, NEW g, NEW n \in Nat, NEW i \in 1..Len(f),
         GoodFiles(f, p), Moved(f, g, i, n),
         n <= Width(f[i].data),
         (f[i].kind = "wire" /\ p # None) => n <= p
  PROVE  GoodFiles(g, p)
<1>1. \A j \in 1..Len(g) : g[j] \in File
  BY DEF Moved
<1>2. GoodFile(g[i])
  BY <1>1 DEF Moved, GoodFile, GoodFiles
<1> QED
  BY <1>2 DEF GoodFiles, Moved

\* What is known of the file of a good pair.
LEMMA GoodInput ==
  ASSUME NEW p, NEW s, Good(s, p)
  PROVE  LET y == s.f[s.e.input]
         IN  /\ s.f \in Seq(File) /\ s.e.input \in 1..Len(s.f) /\ s.e \in Environ
             /\ y \in File
             /\ y.pos \in Nat /\ y.data.lo \in Nat /\ y.data.hi \in Nat
             /\ y.data.src \in Sources
             /\ y.data.lo <= y.data.hi /\ y.pos <= y.data.hi - y.data.lo
<1>1. s.f \in Seq(File) /\ s.e.input \in 1..Len(s.f) /\ s.e \in Environ
  BY DEF Good, GoodFiles, GoodEnv
<1>2. s.f[s.e.input] \in File /\ GoodFile(s.f[s.e.input])
  BY <1>1 DEF Good, GoodFiles
<1> QED
  BY <1>1, <1>2 DEF File, Slice, GoodFile, Width

\* An access that only moves the position of its input, to n, with the
\* environ unchanged.
LEMMA MovedKeeps ==
  ASSUME NEW p \in Nat \cup {None}, NEW s, NEW g, NEW n \in Nat, NEW c,
         Good(s, p), GoodBytes(c), Moved(s.f, g, s.e.input, n),
         n <= Width(s.f[s.e.input].data),
         s.e.seekable \/ (Readable(s.e) /\ s.e.clen = None)
  PROVE  Keeps(s, Done(g, s.e, c), p)
<1> DEFINE i == s.e.input
<1>1. s.f \in Seq(File) /\ i \in 1..Len(s.f)
  BY GoodInput
<1>2. s.f[i].kind = "wire" => p = None
  BY <1>1 DEF Good, GoodEnv
<1>3. GoodFiles(g, p)
  BY <1>1, <1>2, MovedGoodFiles DEF Good
<1>4. GoodEnv(g, s.e, p)
  BY <1>1, <1>2 DEF Good, GoodEnv, Moved
<1>5. Effect(s, Done(g, s.e, c))
  BY <1>1 DEF Effect, Done, Moved
<1> QED
  BY <1>3, <1>4, <1>5 DEF Keeps, Good, Done

\* Reading an input that is seekable, or that ends by itself, directly.
LEMMA ReadRawKeeps ==
  ASSUME NEW p \in Nat \cup {None}, NEW s, NEW k \in Nat, Good(s, p),
         s.e.seekable \/ (Readable(s.e) /\ s.e.clen = None)
  PROVE  LET x == ReadRaw(s, k)
             y == s.f[s.e.input]
         IN  /\ Keeps(s, x, p)
             /\ x.ok /\ x.e = s.e
             /\ x.data = NextBytes(y, Least(k, Left(y)))
             /\ x.f[s.e.input].pos = y.pos + Least(k, Left(y))
             /\ x.f[s.e.input].data = y.data
<1> DEFINE i == s.e.input
           y == s.f[i]
           n == Least(k, Left(y))
<1>1. /\ s.f \in Seq(File) /\ i \in 1..Len(s.f)
      /\ y.pos \in Nat /\ y.data.lo \in Nat /\ y.data.hi \in Nat
      /\ y.data.src \in Sources
      /\ y.data.lo <= y.data.hi /\ y.pos <= y.data.hi - y.data.lo
  BY GoodInput
<1>2. n \in Nat /\ y.pos + n \in Nat /\ y.pos + n <= Width(y.data)
  <2>1. Left(y) \in Nat /\ y.pos + Left(y) = Width(y.data)
    <3> HIDE DEF y
    <3> QED BY <1>1 DEF Left, Width
  <2>2. n \in Nat /\ n <= Left(y)
    BY <2>1, LeastBound
  <2> HIDE DEF y, n
  <2>3. Width(y.data) \in Nat
    BY <1>1 DEF Width
  <2> QED BY <1>1, <2>1, <2>2, <2>3
<1>3. GoodBytes(NextBytes(y, n))
  <2> HIDE DEF y, n
  <2> QED BY <1>2, <1>1 DEF GoodBytes, NextBytes, Slice
<1>4. ReadRaw(s, k) = Done(Seek(s.f, i, y.pos + n), s.e, NextBytes(y, n))
  BY DEF ReadRaw
<1> HIDE DEF n
<1>5. Moved(s.f, Seek(s.f, i, y.pos + n), i, y.pos + n)
  BY <1>2, <1>1, SeekMoves
<1>6. Keeps(s, Done(Seek(s.f, i, y.pos + n), s.e, NextBytes(y, n)), p)
  BY <1>2, <1>3, <1>5, MovedKeeps
<1>7. Seek(s.f, i, y.pos + n)[i].pos = y.pos + n /\ Seek(s.f, i, y.pos + n)[i].data = y.data
  BY <1>5 DEF Moved
<1>8. PICK g : g = Seek(s.f, i, y.pos + n)
  OBVIOUS
<1>9. PICK d : d = NextBytes(y, n)
  OBVIOUS
<1>10. PICK x : x = Done(g, s.e, d)
  OBVIOUS
<1>11. x.ok = TRUE /\ x.e = s.e /\ x.f = g /\ x.data = d
  BY ONLY <1>10 DEF Done
<1>12. ReadRaw(s, k) = x
  BY <1>4, <1>8, <1>9, <1>10
<1>13. /\ Keeps(s, x, p)
       /\ x.ok /\ x.e = s.e /\ x.data = NextBytes(y, n)
       /\ x.f[i].pos = y.pos + n /\ x.f[i].data = y.data
  <2> HIDE DEF y, i
  <2> QED
    BY <1>6, <1>7, <1>8, <1>9, <1>10, <1>11
<1> QED
  BY <1>12, <1>13 DEF n

\* What the wrapped wire looks like: there is an announcement, the input is
\* the first file, and nothing lies before the wire's first byte.
LEMMA WireInput ==
  ASSUME NEW p \in Nat \cup {None}, NEW s, Good(s, p),
         ~s.e.seekable, s.e.clen # None
  PROVE  LET y == s.f[s.e.input]
         IN  /\ y.kind = "wire" /\ s.e.clen = p /\ p \in Nat
             /\ y.data.src = Wire /\ y.data.lo = 0 /\ y.pos <= p
<1> DEFINE i == s.e.input
           y == s.f[i]
<1>1. s.f \in Seq(File) /\ i \in 1..Len(s.f) /\ y \in File
  BY GoodInput
<1>2. y.kind \in Kinds
  BY <1>1 DEF File
<1>3. y.kind = "wire"
  <2>1. y.kind \notin {"memory", "temp"} /\ y.kind # "stream"
    BY DEF Good, GoodEnv
  <2> HIDE DEF y
  <2> QED BY <1>2, <2>1 DEF Kinds
<1>4. s.e.clen = p /\ p \in Nat
  BY <1>3 DEF Good, GoodEnv
<1>5. y.data.src = Wire /\ y.data.lo = 0 /\ (p # None => y.pos <= p)
  BY <1>1, <1>3 DEF Good, GoodFiles
<1> QED
  BY <1>3, <1>4, <1>5, ConstantsAssumption

\* The wrapper that is used may read what is left of the announced length.
LEMMA WrapperOfGood ==
  ASSUME NEW p \in Nat \cup {None}, NEW s, Good(s, p),
         ~s.e.seekable, s.e.clen # None
  PROVE  LET w == WrapperOf(s.e)
             y == s.f[s.e.input]
         IN  /\ w \in Wrapper /\ w.raw = s.e.input
             /\ w.remaining + y.pos = p
             /\ w.ahead.lo <= w.ahead.hi
             /\ GoodWrapper(w, y)
<1> DEFINE i == s.e.input
           y == s.f[i]
<1>1. i \in 1..Len(s.f) /\ s.e \in Environ /\ y.pos \in Nat
  BY GoodInput
<1>2. y.kind = "wire" /\ s.e.clen = p /\ p \in Nat
  BY WireInput
<1>3. CASE s.e.wrap.raw = i
  <2>1. WrapperOf(s.e) = s.e.wrap
    BY <1>3 DEF WrapperOf
  <2>2. s.e.wrap \in Wrapper
    BY <1>1 DEF Environ
  <2> QED
    BY <1>2, <1>3, <2>1, <2>2 DEF Good, GoodEnv
<1>4. CASE s.e.wrap.raw # i
  <2> DEFINE w == [raw |-> i, remaining |-> p, ahead |-> Empty]
  <2>1. WrapperOf(s.e) = w
    BY <1>2, <1>4 DEF WrapperOf
  <2>2. y.pos = 0
    BY <1>2, <1>4, ConstantsAssumption DEF Good, GoodEnv
  <2>3. w \in Wrapper /\ w.ahead.lo <= w.ahead.hi /\ GoodWrapper(w, y)
    BY <1>1, <1>2, EmptyIsGood DEF Wrapper, GoodBytes, GoodWrapper
  <2>4. w.raw = i /\ w.remaining + y.pos = p
    BY <1>2, <2>2
  <2> QED
    BY <2>1, <2>3, <2>4
<1> QED
  BY <1>3, <1>4

\* An access that moves the wire from under a wrapper, in step with what
\* remains to it.
LEMMA WrappedKeeps ==
  ASSUME NEW p \in Nat, NEW s, NEW g, NEW n \in Nat, NEW w \in Wrapper, NEW x,
         Good(s, p), s.f[s.e.input].kind = "wire",
         Moved(s.f, g, s.e.input, n), n <= Width(s.f[s.e.input].data),
         w.raw = s.e.input, w.remaining + n = p, w.ahead.lo <= w.ahead.hi,
         Width(w.ahead) > 0 => /\ w.ahead.src = Wire
                               /\ w.ahead.hi = n,
         x.f = g, x.e = [s.e EXCEPT !.wrap = w], x.ok \in BOOLEAN, GoodBytes(x.data)
  PROVE  Keeps(s, x, p)
<1> DEFINE i == s.e.input
<1>1. s.f \in Seq(File) /\ i \in 1..Len(s.f) /\ s.e \in Environ
  BY GoodInput
<1>2. /\ x.e \in Environ /\ x.e.wrap = w /\ x.e.input = i /\ x.e.clen = s.e.clen
      /\ x.e.seekable = s.e.seekable /\ x.e.post = s.e.post
  BY <1>1 DEF Environ
<1>3. w.remaining \in Nat /\ n <= p /\ w.ahead.lo \in Nat /\ p # None
  BY ConstantsAssumption DEF Wrapper, Slice
<1>4. GoodFiles(g, p)
  BY <1>1, <1>3, MovedGoodFiles DEF Good
<1>5. g[i].data.src = Wire /\ g[i].data.lo = 0 /\ g[i].kind = "wire" /\ g[i].pos = n
  BY <1>1 DEF Good, GoodFiles, Moved
<1>6. GoodWrapper(w, g[i])
  BY <1>3, <1>5 DEF GoodWrapper
<1>7. GoodEnv(g, x.e, p)
  BY <1>1, <1>2, <1>3, <1>5, <1>6 DEF Good, GoodEnv, Moved
<1>8. Effect(s, x)
  BY <1>1, <1>2 DEF Effect, Moved
<1> QED
  BY <1>4, <1>7, <1>8 DEF Keeps, Good

\* The offset of the next byte that body_file delivers: the wrapper's, when it
\* has read ahead, else that of the file.
Offset(s) ==
  LET y == s.f[s.e.input]
      w == WrapperOf(s.e)
  IN  IF ~s.e.seekable /\ s.e.clen # None /\ Width(w.ahead) > 0 THEN w.ahead.lo
      ELSE y.data.lo + y.pos

\* What x read are the bytes from there on.
Follows(s, x) == x.data.lo = Offset(s) /\ x.data.hi = Offset(x)

\* Reading through the wrapper; the bytes delivered lie between the start of
\* the wire and its position, so within the announced length.
LEMMA ReadWrappedKeeps ==
  ASSUME NEW p \in Nat \cup {None}, NEW s, NEW k \in Nat, Good(s, p),
         ~s.e.seekable, s.e.clen # None
  PROVE  LET x == ReadWrapped(s, k)
         IN  /\ Keeps(s, x, p)
             /\ x.e.input = s.e.input /\ x.e.clen = s.e.clen /\ x.e.seekable = s.e.seekable
             /\ x.ok => x.data.src = Wire /\ x.data.hi <= p
             /\ ~x.ok => x.data = Empty
             /\ x.ok => Follows(s, x)
<1> DEFINE i    == s.e.input
           y    == s.f[i]
           w    == WrapperOf(s.e)
           have == Width(w.ahead)
           ask  == IF k <= have THEN 0 ELSE Wanted(k - have, w.remaining)
           got  == Least(ask, Left(y))
           n    == Least(k, have + got)
           lo   == IF have = 0 THEN y.data.lo + y.pos ELSE w.ahead.lo
           g    == Seek(s.f, i, y.pos + got)
           held(l, h) == [w EXCEPT !.remaining = @ - got,
                                   !.ahead = [src |-> y.data.src, lo |-> l, hi |-> h]]
           x    == ReadWrapped(s, k)
<1>1. /\ s.f \in Seq(File) /\ i \in 1..Len(s.f) /\ s.e \in Environ
      /\ y.pos \in Nat /\ y.data.hi \in Nat /\ y.pos <= y.data.hi - y.data.lo
  BY GoodInput
<1>2. /\ y.kind = "wire" /\ s.e.clen = p /\ p \in Nat
      /\ y.data.src = Wire /\ y.data.lo = 0 /\ y.pos <= p
  BY WireInput
<1>3. /\ w \in Wrapper /\ w.raw = i /\ w.remaining + y.pos = p
      /\ w.ahead.lo <= w.ahead.hi /\ GoodWrapper(w, y)
  BY WrapperOfGood
<1>4. x = IF got < ask
          THEN Fail(g, [s.e EXCEPT !.wrap = held(0, 0)])
          ELSE Done(g, [s.e EXCEPT !.wrap = held(lo + n, lo + have + got)],
                    [src |-> y.data.src, lo |-> lo, hi |-> lo + n])
  BY DEF ReadWrapped
<1> HIDE DEF y, w, x
<1>5. w.remaining \in Nat /\ w.ahead.lo \in Nat /\ w.ahead.hi \in Nat /\ have \in Nat
  BY <1>3 DEF Wrapper, Slice, Width
<1>6. Left(y) \in Nat /\ y.pos + Left(y) = Width(y.data) /\ Width(y.data) \in Nat
  BY <1>1, <1>2 DEF Left, Width
<1>7. ask \in Nat /\ ask <= w.remaining
  <2>1. CASE k <= have
    BY <2>1, <1>5
  <2>2. CASE ~(k <= have)
    <3>1. k - have \in Nat
      BY <2>2, <1>5
    <3> QED
      BY <2>2, <3>1, <1>5, WantedBound
  <2> QED
    BY <2>1, <2>2
<1> HIDE DEF ask
<1>8. got \in Nat /\ got <= ask /\ got <= Left(y)
  BY <1>6, <1>7, LeastBound
<1> HIDE DEF got
<1>9. n \in Nat /\ n <= have + got
  <2>1. have + got \in Nat
    BY <1>5, <1>8
  <2> QED
    BY <2>1, LeastBound
<1> HIDE DEF n
<1>10. lo \in Nat /\ lo + have = y.pos
  <2>1. CASE have = 0
    BY <2>1, <1>1, <1>2
  <2>2. CASE have # 0
    <3>1. Width(w.ahead) > 0 /\ Width(w.ahead) = w.ahead.hi - w.ahead.lo
      BY <2>2, <1>5 DEF Width
    <3>2. w.ahead.hi = y.pos
      BY <3>1, <1>1, <1>2, <1>3 DEF GoodWrapper
    <3> HIDE DEF have
    <3>3. have = w.ahead.hi - w.ahead.lo
      BY <3>1 DEF have
    <3> QED
      BY <2>2, <3>2, <3>3, <1>5
  <2> QED
    BY <2>1, <2>2
<1>11. Offset(s) = lo
  BY <1>5 DEF Offset, y, w
<1> HIDE DEF lo, have
<1>12. Moved(s.f, g, i, y.pos + got)
  BY <1>1, <1>8, SeekMoves
<1>13. y.pos + got \in Nat /\ y.pos + got <= Width(y.data) /\ y.pos + got <= p
  <2>1. y.pos + got \in Nat
    BY <1>1, <1>8
  <2>2. y.pos + got <= Width(y.data)
    BY <1>1, <1>6, <1>8
  <2>3. got <= w.remaining
    BY <1>5, <1>7, <1>8
  <2> QED
    BY <1>1, <1>2, <1>3, <1>5, <1>8, <2>1, <2>2, <2>3
<1>14. ASSUME NEW l \in Nat, NEW h \in Nat, l <= h, h > l => h = y.pos + got
       PROVE  /\ held(l, h) \in Wrapper /\ held(l, h).raw = i
              /\ held(l, h).remaining + (y.pos + got) = p
              /\ held(l, h).ahead = [src |-> Wire, lo |-> l, hi |-> h]
  <2>1. w.remaining - got \in Nat
    BY <1>5, <1>7, <1>8
  <2>2. [src |-> Wire, lo |-> l, hi |-> h] \in Slice
    BY DEF Slice, Sources
  <2> QED
    <3>1. /\ held(l, h) \in Wrapper /\ held(l, h).raw = i
          /\ held(l, h).remaining = w.remaining - got
          /\ held(l, h).ahead = [src |-> Wire, lo |-> l, hi |-> h]
      <4> DEFINE m == w.remaining - got
                 c == [src |-> Wire, lo |-> l, hi |-> h]
      <4>1. held(l, h) = [w EXCEPT !.remaining = m, !.ahead = c]
        BY <1>2
      <4>2. m \in Nat /\ c \in Slice
        BY <2>1, <2>2
      <4> HIDE DEF held, m, c
      <4>3. /\ held(l, h) \in Wrapper /\ held(l, h).raw = i
            /\ held(l, h).remaining = m /\ held(l, h).ahead = c
        BY <1>3, <4>1, <4>2 DEF Wrapper
      <4> QED
        BY <4>3 DEF m, c
    <3> HIDE DEF held
    <3> QED
      BY <3>1, <1>1, <1>2, <1>3, <1>5, <1>8
<1> HIDE DEF g, held
<1>15. \A l \in Nat, h \in Nat : (l <= h /\ (h > l => h = y.pos + got)) =>
          /\ held(l, h) \in Wrapper /\ held(l, h).raw = i
          /\ held(l, h).remaining + (y.pos + got) = p
          /\ held(l, h).ahead.lo <= held(l, h).ahead.hi
          /\ held(l, h).ahead.lo = l /\ held(l, h).ahead.hi = h
          /\ Width(held(l, h).ahead) > 0 => /\ held(l, h).ahead.src = Wire
                                            /\ held(l, h).ahead.hi = y.pos + got
  <2> SUFFICES ASSUME NEW l \in Nat, NEW h \in Nat, l <= h, h > l => h = y.pos + got
               PROVE  /\ held(l, h) \in Wrapper /\ held(l, h).raw = i
                      /\ held(l, h).remaining + (y.pos + got) = p
                      /\ held(l, h).ahead.lo <= held(l, h).ahead.hi
                      /\ held(l, h).ahead.lo = l /\ held(l, h).ahead.hi = h
                      /\ Width(held(l, h).ahead) > 0 => /\ held(l, h).ahead.src = Wire
                                                        /\ held(l, h).ahead.hi = y.pos + got
    OBVIOUS
  <2>1. /\ held(l, h) \in Wrapper /\ held(l, h).raw = i
        /\ held(l, h).remaining + (y.pos + got) = p
        /\ held(l, h).ahead = [src |-> Wire, lo |-> l, hi |-> h]
    BY <1>14
  <2> QED
    BY <2>1 DEF Width
<1>16. CASE got < ask
  <2> DEFINE z == 0
             v == held(z, z)
  <2>1. /\ v \in Wrapper /\ v.raw = i /\ v.remaining + (y.pos + got) = p
        /\ v.ahead.lo <= v.ahead.hi
        /\ Width(v.ahead) > 0 => v.ahead.src = Wire /\ v.ahead.hi = y.pos + got
    <3>1. z \in Nat /\ z <= z /\ ~(z > z)
      OBVIOUS
    <3> HIDE DEF z
    <3>2. /\ held(z, z) \in Wrapper /\ held(z, z).raw = i
          /\ held(z, z).remaining + (y.pos + got) = p
          /\ held(z, z).ahead.lo <= held(z, z).ahead.hi
          /\ Width(held(z, z).ahead) > 0 => /\ held(z, z).ahead.src = Wire
                                            /\ held(z, z).ahead.hi = y.pos + got
      BY <1>15, <3>1
    <3> QED
      BY <3>2
  <2> HIDE DEF v
  <2>2. /\ x.f = g /\ x.e = [s.e EXCEPT !.wrap = v] /\ x.ok = FALSE /\ x.data = Empty
    BY <1>4, <1>16 DEF Fail, v
  <2>3. Keeps(s, x, p)
    BY <1>2, <1>12, <1>13, <2>1, <2>2, EmptyIsGood, WrappedKeeps DEF y
  <2> QED
    BY <1>1, <2>2, <2>3 DEF Environ, x
<1>17. CASE ~(got < ask)
  <2> DEFINE l == lo + n
             h == lo + have + got
             v == held(l, h)
             c == [src |-> y.data.src, lo |-> lo, hi |-> lo + n]
  <2>1. /\ lo + n \in Nat /\ lo + have + got = y.pos + got /\ lo + n <= lo + have + got
        /\ have \in Nat
    BY <1>5, <1>8, <1>9, <1>10
  <2>2. /\ v \in Wrapper /\ v.raw = i /\ v.remaining + (y.pos + got) = p
        /\ v.ahead.lo <= v.ahead.hi
        /\ v.ahead.lo = lo + n /\ v.ahead.hi = y.pos + got
        /\ Width(v.ahead) > 0 => v.ahead.src = Wire /\ v.ahead.hi = y.pos + got
    <3>1. l \in Nat /\ h \in Nat /\ l <= h /\ h = y.pos + got
      BY <1>13, <2>1
    <3> HIDE DEF l, h
    <3>2. /\ held(l, h) \in Wrapper /\ held(l, h).raw = i
          /\ held(l, h).remaining + (y.pos + got) = p
          /\ held(l, h).ahead.lo <= held(l, h).ahead.hi
          /\ held(l, h).ahead.lo = l /\ held(l, h).ahead.hi = h
          /\ Width(held(l, h).ahead) > 0 => /\ held(l, h).ahead.src = Wire
                                            /\ held(l, h).ahead.hi = y.pos + got
      BY <1>15, <3>1
    <3> QED
      BY <3>1, <3>2 DEF l
  <2>3. GoodBytes(c) /\ c.src = Wire /\ c.hi <= p /\ c.lo = lo /\ c.hi = lo + n
    BY <1>2, <1>9, <1>10, <1>13, <2>1 DEF GoodBytes, Slice, Sources
  <2> HIDE DEF v, c
  <2>4. /\ x.f = g /\ x.e = [s.e EXCEPT !.wrap = v] /\ x.ok = TRUE /\ x.data = c
    BY <1>4, <1>17 DEF Done, v, c
  <2>5. Keeps(s, x, p)
    BY <1>2, <1>12, <1>13, <2>2, <2>3, <2>4, WrappedKeeps DEF y
  <2>6. Follows(s, x)
    <3>1. x.e.input = i /\ x.e.wrap = v
      BY <1>1, <2>4 DEF Environ
    <3>2. WrapperOf(x.e) = v
      BY <2>2, <3>1 DEF WrapperOf
    <3>3. x.f[i].pos = y.pos + got /\ x.f[i].data.lo = 0
      BY <1>2, <1>12, <2>4 DEF Moved, y
    <3>4. Offset(x) = IF ~x.e.seekable /\ x.e.clen # None /\ Width(v.ahead) > 0 THEN lo + n
                      ELSE 0 + (y.pos + got)
      BY <2>2, <3>1, <3>2, <3>3 DEF Offset
    <3>5. x.e.seekable = s.e.seekable /\ x.e.clen = s.e.clen
      BY <1>1, <2>4 DEF Environ
    <3>6. ~(Width(v.ahead) > 0) => lo + n = y.pos + got
      <4>1. Width(v.ahead) = (y.pos + got) - (lo + n)
        BY <2>2 DEF Width
      <4> QED
        BY <1>13, <2>1, <4>1
    <3>7. Offset(x) = lo + n
      BY <1>13, <3>4, <3>5, <3>6
    <3> QED
      BY <1>11, <2>3, <2>4, <3>7 DEF Follows
  <2> QED
    BY <1>1, <2>3, <2>4, <2>5, <2>6 DEF Environ, x
<1> QED
  BY <1>16, <1>17

---------------------------------------------------------------------------
(* Accesses in sequence.                                                   *)

\* Two effects in a row on the files are one effect.
LEMMA EffectTransitive ==
  ASSUME NEW s, NEW x, NEW y, s.e.input \in 1..Len(s.f),
         s.f \in Seq(File), x.f \in Seq(File), y.f \in Seq(File),
         x.e.input \in Nat, y.e.input \in Nat,
         Effect(s, x), Effect(x, y)
  PROVE  Effect(s, y)
<1>1. Len(s.f) \in Nat /\ Len(x.f) \in Nat /\ Len(y.f) \in Nat
  OBVIOUS
<1>2. Len(s.f) <= Len(y.f)
  BY <1>1 DEF Effect
<1>3. ASSUME NEW i \in 1..Len(s.f)
      PROVE  /\ y.f[i].kind = s.f[i].kind
             /\ y.f[i].data = s.f[i].data
             /\ i # s.e.input => y.f[i] = s.f[i]
  BY <1>1 DEF Effect
<1>4. y.e.input = s.e.input \/ y.e.input > Len(s.f)
  BY <1>1 DEF Effect
<1> QED
  BY <1>2, <1>3, <1>4 DEF Effect

\* Two operations that keep the invariant of a pair keep it one after the other.
LEMMA KeepsTransitive ==
  ASSUME NEW p \in Nat \cup {None}, NEW s, NEW x, NEW y,
         Good(s, p), Good(x, p), Effect(s, x), Keeps(x, y, p)
  PROVE  Keeps(s, y, p)
<1>1. /\ s.f \in Seq(File) /\ s.e.input \in 1..Len(s.f)
  BY GoodInput
<1>2. x.f \in Seq(File) /\ x.e.input \in 1..Len(x.f)
  BY GoodInput
<1>3. y.f \in Seq(File) /\ y.e.input \in 1..Len(y.f)
  BY GoodInput DEF Keeps
<1>4. Effect(s, y)
  BY <1>1, <1>2, <1>3, EffectTransitive DEF Keeps
<1> QED
  BY <1>4 DEF Keeps

\* Giving an environ a new file: good bytes that are no truncated copy, in
\* memory or a temporary file, or an application's own stream.
LEMMA NewFileKeeps ==
  ASSUME NEW p \in Nat \cup {None}, NEW s, Good(s, p), NEW c, GoodBytes(c),
         NEW kind \in Kinds \ {"wire"}, NEW e \in Environ,
         kind = "stream" => c.src # Wire /\ e.clen = None /\ ~e.seekable,
         kind # "stream" => Whole(c, p) /\ e.clen = Width(c) /\ e.seekable,
         e.input = Len(s.f) + 1, e.wrap = s.e.wrap, e.post = s.e.post,
         NEW x, x.e = e, x.ok \in BOOLEAN, x.data = Empty,
         x.f = Append(s.f, [kind |-> kind, data |-> c, pos |-> 0])
  PROVE  Keeps(s, x, p)
<1> DEFINE y == [kind |-> kind, data |-> c, pos |-> 0]
           g == Append(s.f, y)
<1>1. s.f \in Seq(File) /\ Len(s.f) \in Nat /\ s.e.input \in 1..Len(s.f)
  BY GoodInput
<1>2. y \in File /\ y.kind = kind /\ y.data = c /\ y.pos = 0
  BY DEF File, GoodBytes
<1>3. c.lo \in Nat /\ c.hi \in Nat /\ c.lo <= c.hi /\ Width(c) \in Nat
  BY DEF GoodBytes, Slice, Width
<1>4. GoodFile(y)
  BY <1>2, <1>3 DEF GoodFile
<1> HIDE DEF y
<1>5. /\ g \in Seq(File) /\ Len(g) = Len(s.f) + 1 /\ g[Len(s.f) + 1] = y
      /\ \A i \in 1..Len(s.f) : g[i] = s.f[i]
  BY <1>1, <1>2
<1> HIDE DEF g
<1>6. GoodFiles(g, p)
  <2>1. \A i \in 1..Len(g) : i \in 1..Len(s.f) \/ i = Len(s.f) + 1
    BY <1>1, <1>5
  <2>2. \A i \in 1..Len(g) : GoodFile(g[i])
    BY <1>4, <1>5, <2>1 DEF Good, GoodFiles
  <2>3. \A i \in 1..Len(s.f) :
          /\ g[i].kind = "wire" => /\ i = 1
                                   /\ g[i].data.src = Wire
                                   /\ g[i].data.lo = 0
                                   /\ p # None => g[i].pos <= p
          /\ g[i].kind = "stream" => g[i].data.src # Wire
          /\ g[i].kind \in {"memory", "temp"} => Whole(g[i].data, p)
    BY <1>5 DEF Good, GoodFiles
  <2>4. /\ y.kind # "wire"
        /\ y.kind = "stream" => y.data.src # Wire
        /\ y.kind \in {"memory", "temp"} => Whole(y.data, p)
    BY <1>2
  <2> QED
    BY <1>1, <1>5, <2>1, <2>2, <2>3, <2>4 DEF GoodFiles
<1>7. GoodEnv(g, e, p)
  <2>1. e.input \in 1..Len(g) /\ g[e.input] = y
    BY <1>1, <1>5
  <2>2. /\ e.wrap.ahead.lo <= e.wrap.ahead.hi
        /\ e.post.vars.lo <= e.post.vars.hi
        /\ e.wrap.raw <= Len(s.f)
    BY DEF Good, GoodEnv
  <2>3. e.wrap.raw \in Nat
    BY DEF Environ, Wrapper
  <2>4. e.wrap.raw <= Len(g) /\ e.wrap.raw # e.input
    BY <1>1, <1>5, <2>2, <2>3
  <2>5. e.seekable <=> kind \in {"memory", "temp"}
    BY DEF Kinds, Environ
  <2>6. e.post.raw <= Len(g) /\ e.post.raw # e.input
    <3>1. e.post.raw \in Nat /\ e.post.raw <= Len(s.f)
      BY DEF Environ, Parsed, Good, GoodEnv
    <3> QED
      BY <1>1, <1>5, <3>1
  <2>7. e.seekable => e.clen # None
    BY <1>3, ConstantsAssumption
  <2> QED
    BY <1>2, <2>1, <2>2, <2>4, <2>5, <2>6, <2>7 DEF GoodEnv
<1>8. Effect(s, x)
  BY <1>1, <1>5 DEF Effect, g, y
<1> QED
  BY <1>6, <1>7, <1>8, EmptyIsGood DEF Keeps, Good, g, y

\* The body setter and the end of copy_body.
LEMMA SetBodyKeeps ==
  ASSUME NEW p \in Nat \cup {None}, NEW s, Good(s, p), NEW c, GoodBytes(c), Whole(c, p)
  PROVE  LET x == SetBodyIn(s, c)
         IN  /\ Keeps(s, x, p) /\ x.ok
             /\ x.e.seekable /\ x.e.clen = Width(c)
             /\ x.e.input = Len(s.f) + 1 /\ x.f[x.e.input].data = c
             /\ x.f[x.e.input].pos = 0
<1> DEFINE x == SetBodyIn(s, c)
           e == [s.e EXCEPT !.clen = Width(c), !.input = Len(s.f) + 1, !.seekable = TRUE]
<1>1. s.f \in Seq(File) /\ Len(s.f) \in Nat /\ s.e \in Environ
  BY GoodInput
<1>2. Width(c) \in Nat
  BY DEF GoodBytes, Slice, Width
<1>3. /\ e \in Environ /\ e.clen = Width(c) /\ e.input = Len(s.f) + 1 /\ e.seekable
      /\ e.wrap = s.e.wrap /\ e.post = s.e.post
  <2> DEFINE m == Width(c)
             n == Len(s.f) + 1
  <2>1. e = [s.e EXCEPT !.clen = m, !.input = n, !.seekable = TRUE]
    OBVIOUS
  <2>2. m \in Nat /\ n \in Nat \ {0}
    BY <1>1, <1>2
  <2> HIDE DEF m, n, e
  <2>3. /\ e \in Environ /\ e.clen = m /\ e.input = n /\ e.seekable
        /\ e.wrap = s.e.wrap /\ e.post = s.e.post
    BY <1>1, <2>1, <2>2 DEF Environ
  <2> QED
    BY <2>3 DEF m, n
<1>4. /\ x.e = e /\ x.ok = TRUE /\ x.data = Empty
      /\ x.f = Append(s.f, [kind |-> "memory", data |-> c, pos |-> 0])
  BY DEF SetBodyIn, Done
<1>5. x.f[Len(s.f) + 1] = [kind |-> "memory", data |-> c, pos |-> 0]
  BY <1>1, <1>4
<1> HIDE DEF e, x
<1>6. "memory" \in Kinds \ {"wire"}
  BY DEF Kinds
<1>7. Keeps(s, x, p)
  BY <1>3, <1>4, <1>6, NewFileKeeps
<1> QED
  BY <1>3, <1>4, <1>5, <1>7 DEF x

\* What copy_body stores keeps the invariant, in memory or in a temporary file.
LEMMA StoreCopyKeeps ==
  ASSUME NEW p \in Nat \cup {None}, NEW s, Good(s, p), NEW c, GoodBytes(c), Whole(c, p)
  PROVE  LET x == StoreCopy(s, c)
         IN  /\ Keeps(s, x, p) /\ x.ok
             /\ x.e.seekable /\ x.e.clen = Width(c)
             /\ x.e.input = Len(s.f) + 1 /\ x.f[x.e.input].data = c
             /\ x.f[x.e.input].pos = 0
<1> DEFINE x == StoreCopy(s, c)
           e == [s.e EXCEPT !.clen = Width(c), !.input = Len(s.f) + 1,
                            !.seekable = TRUE, !.terminated = TRUE]
<1>1. CASE Width(c) > TempfileLimit
  <2>1. s.f \in Seq(File) /\ Len(s.f) \in Nat /\ s.e \in Environ
    BY GoodInput
  <2>2. Width(c) \in Nat
    BY DEF GoodBytes, Slice, Width
  <2>3. /\ e \in Environ /\ e.clen = Width(c) /\ e.input = Len(s.f) + 1 /\ e.seekable
        /\ e.wrap = s.e.wrap /\ e.post = s.e.post
    <3> DEFINE m == Width(c)
               n == Len(s.f) + 1
    <3>1. e = [s.e EXCEPT !.clen = m, !.input = n, !.seekable = TRUE, !.terminated = TRUE]
      OBVIOUS
    <3>2. m \in Nat /\ n \in Nat \ {0}
      BY <2>1, <2>2
    <3> HIDE DEF m, n, e
    <3>3. /\ e \in Environ /\ e.clen = m /\ e.input = n /\ e.seekable
          /\ e.wrap = s.e.wrap /\ e.post = s.e.post
      BY <2>1, <3>1, <3>2 DEF Environ
    <3> QED
      BY <3>3 DEF m, n
  <2>4. /\ x.e = e /\ x.ok = TRUE /\ x.data = Empty
        /\ x.f = Append(s.f, [kind |-> "temp", data |-> c, pos |-> 0])
    BY <1>1 DEF StoreCopy, Done
  <2>5. x.f[Len(s.f) + 1] = [kind |-> "temp", data |-> c, pos |-> 0]
    BY <2>1, <2>4
  <2> HIDE DEF e, x
  <2>6. "temp" \in Kinds \ {"wire"}
    BY DEF Kinds
  <2>7. Keeps(s, x, p)
    BY <2>3, <2>4, <2>6, NewFileKeeps
  <2> QED
    BY <2>3, <2>4, <2>5, <2>7 DEF x
<1>2. CASE ~(Width(c) > TempfileLimit)
  <2>1. StoreCopy(s, c) = SetBodyIn(s, c)
    BY <1>2 DEF StoreCopy
  <2> QED
    BY <2>1, SetBodyKeeps
<1> QED
  BY <1>1, <1>2

\* req.body_file.read(k)
LEMMA ReadBodyFileKeeps ==
  ASSUME NEW p \in Nat \cup {None}, NEW s, NEW k \in Nat, Good(s, p)
  PROVE  LET x == ReadBodyFile(s, k)
             y == s.f[s.e.input]
         IN  /\ Keeps(s, x, p)
             /\ x.e.input = s.e.input /\ x.e.clen = s.e.clen /\ x.e.seekable = s.e.seekable
             /\ (Readable(s.e) /\ (s.e.seekable \/ s.e.clen = None))
                  => x.data = NextBytes(y, Least(k, Left(y)))
             /\ (x.ok /\ ~s.e.seekable /\ s.e.clen # None)
                  => (x.data = Empty \/ (x.data.src = Wire /\ x.data.hi <= p))
             /\ Width(x.data) > 0 => Follows(s, x)
<1> DEFINE x == ReadBodyFile(s, k)
<1>1. CASE ~Readable(s.e)
  <2>1. x = Done(s.f, s.e, Empty)
    BY <1>1 DEF ReadBodyFile
  <2>2. x.f = s.f /\ x.e = s.e /\ x.ok = TRUE /\ x.data = Empty
    BY <2>1 DEF Done
  <2>3. Effect(s, x)
    BY <2>2, GoodInput DEF Effect
  <2>4. Keeps(s, x, p)
    BY <2>2, <2>3, EmptyIsGood DEF Keeps, Good
  <2> HIDE DEF x
  <2>5. /\ Keeps(s, x, p)
        /\ x.e = s.e /\ x.data = Empty /\ ~(Width(x.data) > 0)
    BY <2>2, <2>4, EmptyIsGood
  <2> QED
    BY <1>1, <2>5 DEF x
<1>2. CASE Readable(s.e) /\ ~s.e.seekable /\ s.e.clen # None
  <2>1. x = ReadWrapped(s, k)
    BY <1>2 DEF ReadBodyFile
  <2> QED
    BY <1>2, <2>1, EmptyIsGood, ReadWrappedKeeps
<1>3. CASE Readable(s.e) /\ (s.e.seekable \/ s.e.clen = None)
  <2>1. x = ReadRaw(s, k)
    BY <1>3 DEF ReadBodyFile
  <2>2. Follows(s, x)
    <3> DEFINE y == s.f[s.e.input]
               n == Least(k, Left(y))
    <3>1. /\ x.e = s.e /\ x.data = NextBytes(y, n)
          /\ x.f[s.e.input].pos = y.pos + n /\ x.f[s.e.input].data = y.data
      BY <1>3, <2>1, ReadRawKeeps
    <3>2. /\ y.pos \in Nat /\ y.data.lo \in Nat /\ n \in Nat
      <4>1. /\ y.pos \in Nat /\ y.data.lo \in Nat /\ y.data.hi \in Nat
            /\ y.data.lo <= y.data.hi /\ y.pos <= y.data.hi - y.data.lo
        BY GoodInput
      <4> HIDE DEF y
      <4>2. Left(y) \in Nat
        BY <4>1 DEF Left, Width
      <4> QED
        BY <4>1, <4>2, LeastBound
    <3> HIDE DEF x, n
    <3>3. Offset(s) = y.data.lo + y.pos /\ Offset(x) = y.data.lo + (y.pos + n)
      BY <1>3, <3>1 DEF Offset
    <3> HIDE DEF y
    <3>4. x.data.lo = y.data.lo + y.pos /\ x.data.hi = y.data.lo + y.pos + n
      BY <3>1 DEF NextBytes
    <3> QED
      BY <3>2, <3>3, <3>4 DEF Follows
  <2> QED
    BY <1>3, <2>1, <2>2, ReadRawKeeps
<1> QED
  BY <1>1, <1>2, <1>3

\* Seeking a seekable input to its start.
LEMMA RewindKeeps ==
  ASSUME NEW p \in Nat \cup {None}, NEW s, Good(s, p), s.e.seekable,
         NEW x, x.f = Rewind(s.f, s.e.input), x.e = s.e
  PROVE  /\ Good(x, p) /\ Effect(s, x)
         /\ x.f[s.e.input].data = s.f[s.e.input].data
         /\ x.f[s.e.input].pos = 0
<1> DEFINE i == s.e.input
           g == Rewind(s.f, i)
           n == 0
           d == Done(g, s.e, Empty)
<1>1. s.f \in Seq(File) /\ i \in 1..Len(s.f) /\ n <= Width(s.f[i].data) /\ n \in Nat
  BY GoodInput DEF Width
<1>2. Moved(s.f, g, i, n)
  BY <1>1, SeekMoves DEF Rewind
<1>3. Keeps(s, d, p)
  <2> HIDE DEF g, n
  <2> QED
    BY <1>1, <1>2, EmptyIsGood, MovedKeeps
<1>4. d.f = x.f /\ d.e = x.e
  BY DEF Done
<1> QED
  BY <1>2, <1>3, <1>4 DEF Keeps, Good, Effect, Moved

\* All the bytes of a file at its start are its data.
LEMMA AllBytes ==
  ASSUME NEW y, y.data \in Slice, y.pos = 0, y.data.lo <= y.data.hi
  PROVE  /\ Left(y) = Width(y.data)
         /\ Left(y) \in Nat
         /\ Least(Left(y), Left(y)) = Left(y)
         /\ NextBytes(y, Left(y)) = y.data
<1>1. y.data.lo \in Nat /\ y.data.hi \in Nat
  BY DEF Slice
<1>2. Left(y) = y.data.hi - y.data.lo
  BY <1>1 DEF Left, Width
<1>3. Least(Left(y), Left(y)) = Left(y)
  BY DEF Least
<1>4. NextBytes(y, Left(y)) = [src |-> y.data.src, lo |-> y.data.lo, hi |-> y.data.hi]
  BY <1>1, <1>2 DEF NextBytes
<1>5. y.data = [src |-> y.data.src, lo |-> y.data.lo, hi |-> y.data.hi]
  BY DEF Slice
<1> QED
  BY <1>1, <1>2, <1>3, <1>4, <1>5 DEF Width

\* What copy_body read is no truncated copy of the wire when nothing raised.
LEMMA ReadAllIsWhole ==
  ASSUME NEW p \in Nat \cup {None}, NEW s, Good(s, p), Readable(s.e),
         s.e.seekable => s.f[s.e.input].pos = 0,
         NEW want, want = IF s.e.clen = None THEN Left(s.f[s.e.input]) ELSE s.e.clen
  PROVE  /\ want \in Nat
         /\ LET x == ReadBodyFile(s, want)
            IN  (x.ok /\ ~(Width(x.data) < want)) =>
                  /\ Whole(x.data, p)
                  /\ s.e.seekable => x.data = s.f[s.e.input].data
<1> DEFINE i == s.e.input
           y == s.f[i]
           x == ReadBodyFile(s, want)
<1>1. /\ s.f \in Seq(File) /\ i \in 1..Len(s.f) /\ s.e \in Environ
      /\ y \in File
      /\ y.pos \in Nat /\ y.data.lo \in Nat /\ y.data.hi \in Nat
      /\ y.data.lo <= y.data.hi /\ y.pos <= y.data.hi - y.data.lo
  BY GoodInput
<1>2. y.data \in Slice /\ y.kind \in Kinds
  BY <1>1 DEF File
<1>3. want \in Nat
  <2>1. Left(y) \in Nat
    <3> HIDE DEF y
    <3> QED BY <1>1 DEF Left, Width
  <2>2. s.e.clen \in Nat \cup {None}
    BY <1>1 DEF Environ
  <2> QED
    BY <2>1, <2>2
<1>4. /\ (s.e.seekable \/ s.e.clen = None) => x.data = NextBytes(y, Least(want, Left(y)))
      /\ (x.ok /\ ~s.e.seekable /\ s.e.clen # None)
           => (x.data = Empty \/ (x.data.src = Wire /\ x.data.hi <= p))
      /\ GoodBytes(x.data)
  BY <1>3, ReadBodyFileKeeps DEF Keeps
<1>5. CASE s.e.seekable
  <2>1. Whole(y.data, p)
    BY <1>1, <1>5 DEF Good, GoodFiles, GoodEnv
  <2>2. Left(y) = Width(y.data) /\ Least(Left(y), Left(y)) = Left(y) /\ NextBytes(y, Left(y)) = y.data
    BY <1>1, <1>2, <1>5, AllBytes
  <2>3. want = Left(y)
    BY <1>5, <2>2 DEF Good, GoodEnv
  <2> HIDE DEF y, x
  <2>4. x.data = y.data
    BY <1>4, <1>5, <2>2, <2>3
  <2> QED
    BY <1>3, <2>1, <2>4 DEF x, y
<1>6. CASE ~s.e.seekable /\ s.e.clen = None
  <2>1. y.kind \in {"wire", "stream"}
    BY <1>2, <1>6 DEF Good, GoodEnv, Kinds
  <2>2. y.kind = "wire" => p = None
    BY <1>6 DEF Good, GoodEnv
  <2>3. y.kind = "stream" => y.data.src # Wire
    BY <1>1 DEF Good, GoodFiles
  <2>4. x.data.src = y.data.src
    BY <1>4, <1>6 DEF NextBytes
  <2> HIDE DEF x, y
  <2>5. Whole(x.data, p)
    BY <2>1, <2>2, <2>3, <2>4 DEF Whole
  <2> QED
    BY <1>3, <1>6, <2>5 DEF x
<1>7. CASE ~s.e.seekable /\ s.e.clen # None
  <2>1. want = p /\ p \in Nat
    BY <1>7, WireInput
  <2> HIDE DEF x
  <2>2. ASSUME x.ok, ~(Width(x.data) < want)
        PROVE  Whole(x.data, p)
    <3>1. CASE x.data = Empty
      BY <3>1, EmptyIsGood DEF Whole
    <3>2. CASE x.data.src = Wire /\ x.data.hi <= p
      <4>1. x.data \in Slice /\ x.data.lo \in Nat /\ x.data.hi \in Nat
        BY <1>4 DEF GoodBytes, Slice
      <4>2. x.data.lo = 0 /\ x.data.hi = p
        BY <2>1, <2>2, <3>2, <4>1 DEF Width
      <4>3. x.data = [src |-> x.data.src, lo |-> x.data.lo, hi |-> x.data.hi]
        BY <4>1 DEF Slice
      <4> QED
        BY <3>2, <4>2, <4>3 DEF Whole
    <3> QED
      BY <1>4, <1>7, <2>2, <3>1, <3>2
  <2> QED
    BY <1>3, <1>7, <2>2 DEF x
<1> QED
  BY <1>5, <1>6, <1>7

\* copy_body keeps the invariant, and leaves a seekable body when it returns.
LEMMA CopyBodyKeeps ==
  ASSUME NEW p \in Nat \cup {None}, NEW s, Good(s, p)
  PROVE  LET x == CopyBodyIn(s)
         IN  /\ Keeps(s, x, p)
             /\ x.ok => /\ x.e.seekable /\ x.e.input > Len(s.f)
                        /\ x.f[x.e.input].pos = 0
                        /\ s.e.seekable => SameBytes(x.f[x.e.input].data, s.f[s.e.input].data)
<1> DEFINE x == CopyBodyIn(s)
<1>1. CASE ~Readable(s.e)
  <2>1. CopyBodyIn(s) = SetBodyIn(s, Empty)
    BY <1>1 DEF CopyBodyIn
  <2>2. Whole(Empty, p)
    BY EmptyIsGood DEF Whole
  <2>3. Len(s.f) \in Nat
    BY GoodInput
  <2>4. s.e.seekable => Width(s.f[s.e.input].data) = 0
    BY <1>1, ConstantsAssumption DEF Readable, Good, GoodEnv
  <2>5. s.e.seekable => SameBytes(Empty, s.f[s.e.input].data)
    BY <2>4, EmptyIsGood DEF SameBytes
  <2> QED
    BY <2>1, <2>2, <2>3, <2>5, EmptyIsGood, SetBodyKeeps
<1>2. CASE Readable(s.e)
  <2> DEFINE start == IF s.e.seekable THEN At(Rewind(s.f, s.e.input), s.e) ELSE s
             want  == IF s.e.clen = None THEN Left(start.f[s.e.input]) ELSE s.e.clen
             read  == ReadBodyFile(start, want)
  <2>1. x = IF ~read.ok \/ Width(read.data) < want THEN Fail(read.f, read.e)
            ELSE StoreCopy(read, read.data)
    BY <1>2 DEF CopyBodyIn
  <2>2. /\ Good(start, p) /\ Effect(s, start) /\ start.e = s.e
        /\ s.e.seekable => start.f[s.e.input].pos = 0
        /\ start.f[s.e.input].data = s.f[s.e.input].data
    <3>1. CASE s.e.seekable
      <4>1. start.f = Rewind(s.f, s.e.input) /\ start.e = s.e
        BY <3>1 DEF At
      <4> HIDE DEF start
      <4> QED
        BY <3>1, <4>1, RewindKeeps
    <3>2. CASE ~s.e.seekable
      <4>1. start = s
        BY <3>2
      <4> HIDE DEF start
      <4>2. Effect(s, start)
        BY <4>1, GoodInput DEF Effect
      <4> QED
        BY <3>2, <4>1, <4>2
    <3> QED
      BY <3>1, <3>2
  <2> HIDE DEF start
  <2>3. want = IF start.e.clen = None THEN Left(start.f[start.e.input]) ELSE start.e.clen
    BY <2>2
  <2> HIDE DEF want
  <2>4. /\ want \in Nat
        /\ (read.ok /\ ~(Width(read.data) < want)) =>
             /\ Whole(read.data, p)
             /\ s.e.seekable => read.data = s.f[s.e.input].data
    BY <1>2, <2>2, <2>3, ReadAllIsWhole
  <2>5. Keeps(start, read, p)
    BY <2>2, <2>4, ReadBodyFileKeeps
  <2> HIDE DEF read
  <2>6. Keeps(s, read, p)
    BY <2>2, <2>5, KeepsTransitive
  <2>7. CASE ~read.ok \/ Width(read.data) < want
    <3>1. x = Fail(read.f, read.e)
      BY <2>1, <2>7
    <3>2. x.f = read.f /\ x.e = read.e /\ x.ok = FALSE /\ x.data = Empty
      BY <3>1 DEF Fail
    <3> HIDE DEF x
    <3>3. Keeps(s, x, p)
      BY <2>6, <3>2, EmptyIsGood DEF Keeps, Effect, Good
    <3> QED
      BY <3>2, <3>3 DEF x
  <2>8. CASE read.ok /\ ~(Width(read.data) < want)
    <3>1. x = StoreCopy(read, read.data)
      BY <2>1, <2>8
    <3>2. Good(read, p) /\ GoodBytes(read.data) /\ Whole(read.data, p)
      BY <2>4, <2>6, <2>8 DEF Keeps
    <3>3. /\ Keeps(read, StoreCopy(read, read.data), p)
          /\ StoreCopy(read, read.data).e.seekable
          /\ StoreCopy(read, read.data).e.input = Len(read.f) + 1
          /\ LET y == StoreCopy(read, read.data).f[StoreCopy(read, read.data).e.input]
             IN  y.pos = 0 /\ y.data = read.data
      <4> DEFINE c == read.data
      <4>1. GoodBytes(c) /\ Whole(c, p)
        BY <3>2
      <4> HIDE DEF c
      <4>2. /\ Keeps(read, StoreCopy(read, c), p)
            /\ StoreCopy(read, c).e.seekable
            /\ StoreCopy(read, c).e.input = Len(read.f) + 1
            /\ LET y == StoreCopy(read, c).f[StoreCopy(read, c).e.input]
               IN  y.pos = 0 /\ y.data = c
        BY <3>2, <4>1, StoreCopyKeeps
      <4> QED
        BY <4>2 DEF c
    <3> HIDE DEF x
    <3>4. /\ Keeps(read, x, p) /\ x.e.seekable /\ x.e.input = Len(read.f) + 1
          /\ x.f[x.e.input].pos = 0 /\ x.f[x.e.input].data = read.data
      BY <3>1, <3>3
    <3>5. Keeps(s, x, p)
      BY <2>6, <3>2, <3>4, KeepsTransitive DEF Keeps
    <3>6. Len(s.f) \in Nat /\ Len(read.f) \in Nat /\ Len(s.f) <= Len(read.f)
      <4>1. s.f \in Seq(File) /\ read.f \in Seq(File)
        BY <3>2, GoodInput
      <4> QED
        BY <2>6, <4>1 DEF Keeps, Effect
    <3>7. s.e.seekable => SameBytes(x.f[x.e.input].data, s.f[s.e.input].data)
      BY <2>4, <2>8, <3>4 DEF SameBytes
    <3> QED
      BY <3>4, <3>5, <3>6, <3>7 DEF x
  <2> QED
    BY <2>7, <2>8, <2>6 DEF Keeps
<1> QED
  BY <1>1, <1>2

\* make_body_seekable keeps the invariant.
LEMMA SeekableKeeps ==
  ASSUME NEW p \in Nat \cup {None}, NEW s, Good(s, p)
  PROVE  LET x == SeekableIn(s)
         IN  /\ Keeps(s, x, p)
             /\ x.ok => x.e.seekable /\ x.f[x.e.input].pos = 0
<1> DEFINE x == SeekableIn(s)
<1>1. CASE s.e.seekable
  <2>1. x.f = Rewind(s.f, s.e.input) /\ x.e = s.e /\ x.ok = TRUE /\ x.data = Empty
    BY <1>1 DEF SeekableIn, Done
  <2> HIDE DEF x
  <2>2. Keeps(s, x, p) /\ x.f[x.e.input].pos = 0
    BY <1>1, <2>1, EmptyIsGood, RewindKeeps, ZenonT(30) DEF Keeps
  <2> QED
    BY <1>1, <2>1, <2>2 DEF x
<1>2. CASE ~s.e.seekable
  <2>1. SeekableIn(s) = CopyBodyIn(s)
    BY <1>2 DEF SeekableIn
  <2> QED
    BY <2>1, CopyBodyKeeps
<1> QED
  BY <1>1, <1>2

\* What x read is the body that its environ has.
Fresh(x) == SameBytes(x.data, IF Readable(x.e) THEN x.f[x.e.input].data ELSE Empty)

\* Bytes that are fresh are those of the input, if there are any.
LEMMA FreshIsInput ==
  ASSUME NEW x, Fresh(x), Width(x.data) > 0
  PROVE  x.data = x.f[x.e.input].data
  BY EmptyIsGood DEF Fresh, SameBytes

\* Reading a seekable input from its start for Content-Length bytes gets all
\* of it, through body_file or from wsgi.input itself.
LEMMA ReadFromStart ==
  ASSUME NEW p \in Nat \cup {None}, NEW s, Good(s, p), s.e.seekable,
         s.f[s.e.input].pos = 0, NEW k \in Nat, s.e.clen # None => k = s.e.clen
  PROVE  /\ Fresh(ReadRaw(s, k))
         /\ Fresh(ReadBodyFile(s, k)) /\ ReadBodyFile(s, k).e = s.e
<1> DEFINE y == s.f[s.e.input]
           x == ReadRaw(s, k)
           b == ReadBodyFile(s, k)
<1>1. /\ y.data \in Slice /\ y.data.lo \in Nat /\ y.data.hi \in Nat /\ y.data.lo <= y.data.hi
      /\ s.e \in Environ
  BY GoodInput DEF File
<1>2. /\ Left(y) = Width(y.data) /\ Left(y) \in Nat /\ Least(Left(y), Left(y)) = Left(y)
      /\ NextBytes(y, Left(y)) = y.data
  BY <1>1, AllBytes
<1>3. /\ Keeps(s, x, p) /\ x.e = s.e /\ x.data = NextBytes(y, Least(k, Left(y)))
  BY ReadRawKeeps
<1>4. x.f[s.e.input].data = y.data
  BY <1>3, GoodInput DEF Keeps, Effect
<1>5. ~Readable(s.e) => Width(y.data) = 0
  BY ConstantsAssumption DEF Readable, Good, GoodEnv
<1> HIDE DEF y
<1>6. SameBytes(x.data, y.data)
  <2>1. CASE s.e.clen # None
    <3>1. k = Left(y)
      BY <1>2, <2>1 DEF Good, GoodEnv, y
    <3> QED
      BY <1>2, <1>3, <3>1 DEF SameBytes
  <2>2. CASE s.e.clen = None
    <3>1. Left(y) = 0 /\ Width(y.data) = 0
      BY <1>2, <2>2 DEF Good, GoodEnv, y
    <3>2. Least(k, Left(y)) = 0
      BY <3>1 DEF Least
    <3>3. y.data.lo + y.pos + 0 = y.data.lo + y.pos /\ y.data.lo + y.pos \in Nat
      BY <1>1 DEF y
    <3>4. Width(NextBytes(y, 0)) = 0
      BY <3>3 DEF NextBytes, Width
    <3> QED
      BY <1>3, <3>1, <3>2, <3>4 DEF SameBytes
  <2> QED
    BY <2>1, <2>2
<1> HIDE DEF x
<1>7. Fresh(x)
  <2>1. CASE Readable(s.e)
    BY <1>3, <1>4, <1>6, <2>1 DEF Fresh
  <2>2. CASE ~Readable(s.e)
    <3>1. Width(x.data) = 0
      BY <1>5, <1>6, <2>2 DEF SameBytes
    <3> QED
      BY <1>3, <2>2, <3>1, EmptyIsGood DEF Fresh, SameBytes
  <2> QED
    BY <2>1, <2>2
<1>8. Fresh(b) /\ b.e = s.e
  <2>1. CASE Readable(s.e)
    <3>1. b = x
      BY <2>1 DEF ReadBodyFile, x
    <3> QED
      BY <1>3, <1>7, <3>1
  <2>2. CASE ~Readable(s.e)
    <3>1. b = Done(s.f, s.e, Empty)
      BY <2>2 DEF ReadBodyFile
    <3> QED
      BY <2>2, <3>1 DEF Fresh, SameBytes, Done
  <2> QED
    BY <2>1, <2>2
<1> QED
  BY <1>7, <1>8 DEF x

\* Making the body seekable, reading it and seeking back: the common part of
\* the body and POST getters.
LEMMA ReadBackKeeps ==
  ASSUME NEW p \in Nat \cup {None}, NEW s, Good(s, p), NEW m, Keeps(s, m, p),
         m.e.seekable, m.f[m.e.input].pos = 0,
         NEW k \in Nat, m.e.clen # None => k = m.e.clen,
         NEW read, read = ReadBodyFile(m, k),
         NEW x, x.f = Rewind(read.f, read.e.input), x.e = read.e,
         x.ok = TRUE, x.data = read.data
  PROVE  Keeps(s, x, p) /\ Fresh(x)
<1>1. Keeps(m, read, p) /\ read.e.seekable /\ Good(m, p)
  BY ReadBodyFileKeeps DEF Keeps
<1>2. Keeps(s, read, p)
  BY <1>1, KeepsTransitive DEF Keeps
<1>3. Good(x, p) /\ Effect(read, x) /\ x.f[read.e.input].data = read.f[read.e.input].data
  BY <1>1, RewindKeeps DEF Keeps
<1>4. Keeps(read, x, p)
  BY <1>1, <1>3 DEF Keeps
<1>5. Fresh(read)
  BY <1>1, ReadFromStart
<1>6. Fresh(x)
  BY <1>3, <1>5 DEF Fresh
<1> QED
  BY <1>2, <1>4, <1>6, KeepsTransitive DEF Keeps

\* The body getter keeps the invariant, and gets the body.
LEMMA GetBodyKeeps ==
  ASSUME NEW p \in Nat \cup {None}, NEW s, Good(s, p)
  PROVE  Keeps(s, GetBodyIn(s), p) /\ (GetBodyIn(s).ok => Fresh(GetBodyIn(s)))
<1> DEFINE x == GetBodyIn(s)
<1>1. CASE ~Readable(s.e)
  <2>1. x.f = s.f /\ x.e = s.e /\ x.ok = TRUE /\ x.data = Empty
    BY <1>1 DEF GetBodyIn, Done
  <2> HIDE DEF x
  <2>2. Effect(s, x)
    BY <2>1, GoodInput DEF Effect
  <2>3. Keeps(s, x, p)
    BY <2>1, <2>2, EmptyIsGood DEF Keeps, Good
  <2>4. Fresh(x)
    BY <1>1, <2>1 DEF Fresh, SameBytes
  <2> QED
    BY <2>3, <2>4 DEF x
<1>2. CASE Readable(s.e)
  <2> DEFINE m    == SeekableIn(s)
             size == IF m.e.clen = None THEN Left(m.f[m.e.input]) ELSE m.e.clen
             read == ReadBodyFile(m, size)
  <2>1. x = IF ~m.ok THEN m ELSE Done(Rewind(read.f, read.e.input), read.e, read.data)
    BY <1>2 DEF GetBodyIn
  <2>2. Keeps(s, m, p) /\ (m.ok => m.e.seekable /\ m.f[m.e.input].pos = 0)
    BY SeekableKeeps
  <2> HIDE DEF m
  <2>3. size \in Nat
    <3>1. Good(m, p)
      BY <2>2 DEF Keeps
    <3> DEFINE y == m.f[m.e.input]
    <3>2. /\ m.e \in Environ
          /\ y.pos \in Nat /\ y.data.lo \in Nat /\ y.data.hi \in Nat
          /\ y.data.lo <= y.data.hi /\ y.pos <= y.data.hi - y.data.lo
      BY <3>1, GoodInput
    <3> HIDE DEF y
    <3>3. Left(y) \in Nat /\ m.e.clen \in Nat \cup {None}
      BY <3>2 DEF Left, Width, Environ
    <3> QED
      BY <3>3 DEF y
  <2>4. m.e.clen # None => size = m.e.clen
    OBVIOUS
  <2> HIDE DEF size
  <2>5. CASE ~m.ok
    <3>1. x = m
      BY <2>1, <2>5
    <3> HIDE DEF x
    <3> QED
      BY <2>2, <2>5, <3>1 DEF x
  <2>6. CASE m.ok
    <3>1. x = Done(Rewind(read.f, read.e.input), read.e, read.data)
      BY <2>1, <2>6
    <3>2. x.f = Rewind(read.f, read.e.input) /\ x.e = read.e /\ x.ok = TRUE /\ x.data = read.data
      BY <3>1 DEF Done
    <3>3. read = ReadBodyFile(m, size)
      OBVIOUS
    <3> HIDE DEF x, read
    <3>4. Keeps(s, x, p) /\ Fresh(x)
      BY <2>2, <2>3, <2>6, <2>4, <3>2, <3>3, ReadBackKeeps
    <3> QED
      BY <3>4 DEF x
  <2> QED
    BY <2>5, <2>6
<1> QED
  BY <1>1, <1>2

\* The cache of the POST getter constrains nothing but itself.
LEMMA PostKeeps ==
  ASSUME NEW p, NEW s, NEW x, Keeps(s, x, p), NEW c, GoodBytes(c), NEW n \in Nat,
         n <= Len(x.f), (n = x.e.input /\ Width(c) > 0) => c = x.f[x.e.input].data,
         NEW z, z.f = x.f, z.ok = x.ok, z.data = x.data,
         z.e = [x.e EXCEPT !.post = [raw |-> n, vars |-> c]]
  PROVE  Keeps(s, z, p)
<1> DEFINE q == [raw |-> n, vars |-> c]
<1>1. q \in Parsed /\ q.vars = c /\ q.raw = n /\ c.lo <= c.hi
  BY DEF Parsed, GoodBytes
<1> HIDE DEF q
<1>2. x.e \in Environ
  BY DEF Keeps, Good, GoodEnv
<1>3. z.e = [x.e EXCEPT !.post = q]
  BY DEF q
<1>4. /\ z.e \in Environ /\ z.e.post = q
      /\ z.e.input = x.e.input /\ z.e.clen = x.e.clen /\ z.e.seekable = x.e.seekable
      /\ z.e.terminated = x.e.terminated /\ z.e.wrap = x.e.wrap
  BY <1>1, <1>2, <1>3 DEF Environ
<1>5. Readable(z.e) = Readable(x.e)
  BY <1>4 DEF Readable
<1>6. GoodEnv(z.f, z.e, p)
  BY <1>1, <1>4, <1>5 DEF GoodEnv, Keeps, Good
<1>7. Effect(s, z)
  BY <1>4 DEF Effect, Keeps
<1> QED
  BY <1>6, <1>7 DEF Keeps, Good

\* The POST getter keeps the invariant, and what it parsed is the input.
LEMMA GetPostKeeps ==
  ASSUME NEW p \in Nat \cup {None}, NEW s, Good(s, p)
  PROVE  LET x == GetPostIn(s)
         IN  /\ Keeps(s, x, p)
             /\ (x.ok /\ Width(x.data) > 0) => x.data = x.f[x.e.input].data
<1> DEFINE x == GetPostIn(s)
<1>1. ASSUME s.e.post.raw = s.e.input \/ ~s.e.form
      PROVE  Keeps(s, x, p) /\ (Width(x.data) > 0 => x.data = x.f[x.e.input].data)
  <2> DEFINE c == IF s.e.post.raw = s.e.input THEN s.e.post.vars ELSE Empty
  <2>1. x.f = s.f /\ x.e = s.e /\ x.ok = TRUE /\ x.data = c
    BY <1>1 DEF GetPostIn, Done
  <2> HIDE DEF x
  <2>2. Effect(s, x)
    BY <2>1, GoodInput DEF Effect
  <2>3. GoodBytes(s.e.post.vars)
    BY GoodInput DEF Good, GoodEnv, Environ, Parsed, GoodBytes
  <2>4. GoodBytes(c) /\ (Width(c) > 0 => c = s.f[s.e.input].data)
    BY <2>3, EmptyIsGood DEF Good, GoodEnv
  <2> HIDE DEF c
  <2>5. Keeps(s, x, p)
    BY <2>1, <2>2, <2>4 DEF Keeps, Good
  <2> QED
    BY <2>1, <2>4, <2>5
<1>2. CASE ~(s.e.post.raw = s.e.input) /\ s.e.form
  <2> DEFINE m    == SeekableIn(s)
             size == IF m.e.clen = None THEN 0 ELSE m.e.clen
             read == ReadBodyFile(m, size)
             q    == [raw |-> read.e.input, vars |-> read.data]
             y    == Done(Rewind(read.f, read.e.input), read.e, read.data)
  <2>1. x = IF ~m.ok THEN m
            ELSE Done(Rewind(read.f, read.e.input), [read.e EXCEPT !.post = q], read.data)
    BY <1>2 DEF GetPostIn
  <2>2. Keeps(s, m, p) /\ (m.ok => m.e.seekable /\ m.f[m.e.input].pos = 0)
    BY SeekableKeeps
  <2> HIDE DEF m
  <2>3. size \in Nat
    <3>1. m.e.clen \in Nat \cup {None}
      BY <2>2 DEF Keeps, Good, GoodEnv, Environ
    <3> QED
      BY <3>1
  <2>4. m.e.clen # None => size = m.e.clen
    OBVIOUS
  <2> HIDE DEF size
  <2>5. CASE ~m.ok
    <3>1. x = m
      BY <2>1, <2>5
    <3> HIDE DEF x
    <3> QED
      BY <2>2, <2>5, <3>1 DEF x
  <2>6. CASE m.ok
    <3>1. x = Done(Rewind(read.f, read.e.input), [read.e EXCEPT !.post = q], read.data)
      BY <2>1, <2>6
    <3>2. /\ x.f = y.f /\ x.ok = y.ok /\ x.data = y.data
          /\ x.e = [y.e EXCEPT !.post = [raw |-> y.e.input, vars |-> y.data]]
      BY <3>1 DEF Done
    <3>3. read = ReadBodyFile(m, size)
      OBVIOUS
    <3>4. y.f = Rewind(read.f, read.e.input) /\ y.e = read.e /\ y.ok = TRUE /\ y.data = read.data
      BY DEF Done
    <3> HIDE DEF x, read, y
    <3>5. Keeps(s, y, p) /\ Fresh(y)
      BY <2>2, <2>3, <2>6, <2>4, <3>3, <3>4, ReadBackKeeps
    <3>6. y.e.input \in Nat /\ GoodBytes(y.data) /\ y.e.input <= Len(y.f)
      <4>1. y.f \in Seq(File) /\ y.e.input \in 1..Len(y.f)
        BY <3>5, GoodInput DEF Keeps
      <4> QED
        BY <3>5, <4>1 DEF Keeps
    <3>7. Keeps(s, x, p)
      <4> DEFINE n == y.e.input
                 c == y.data
      <4>1. /\ n \in Nat /\ GoodBytes(c) /\ x.e = [y.e EXCEPT !.post = [raw |-> n, vars |-> c]]
            /\ n <= Len(y.f) /\ (Width(c) > 0 => c = y.f[y.e.input].data)
        BY <3>2, <3>5, <3>6, FreshIsInput
      <4> HIDE DEF n, c
      <4> QED
        BY <3>2, <3>5, <4>1, PostKeeps, ZenonT(30)
    <3>8. x.e.input = y.e.input
      BY <3>2, <3>5 DEF Keeps, Good, GoodEnv, Environ
    <3>9. Width(x.data) > 0 => x.data = x.f[x.e.input].data
      BY <3>2, <3>5, <3>8, FreshIsInput
    <3> QED
      BY <3>7, <3>9 DEF x
  <2> QED
    BY <2>5, <2>6
<1> QED
  BY <1>1, <1>2

---------------------------------------------------------------------------
(* The invariant is inductive, and every step leaves the other requests     *)
(* alone.                                                                  *)

\* The step formula of the property Independent.
Apart ==
  \A q \in live : q # ret'.req =>
    env'[q] = env[q] /\ files'[env[q].input] = files[env[q].input]

\* An environ stays good when its file is left alone, or is seekable and only
\* moved.
LEMMA OtherEnvGood ==
  ASSUME NEW p, NEW f \in Seq(File), NEW g \in Seq(File), NEW e, GoodEnv(f, e, p),
         Len(f) <= Len(g),
         \/ g[e.input] = f[e.input]
         \/ /\ e.seekable
            /\ g[e.input].kind = f[e.input].kind
            /\ g[e.input].data = f[e.input].data
  PROVE  GoodEnv(g, e, p)
<1>1. e.input \in 1..Len(g) /\ e.wrap.raw <= Len(g) /\ e.post.raw <= Len(g)
  BY DEF GoodEnv, Environ, Wrapper, Parsed
<1>2. CASE g[e.input] = f[e.input]
  BY <1>1, <1>2 DEF GoodEnv
<1>3. CASE /\ e.seekable
           /\ g[e.input].kind = f[e.input].kind
           /\ g[e.input].data = f[e.input].data
  BY <1>1, <1>3 DEF GoodEnv
<1> QED
  BY <1>2, <1>3

\* In the inductive invariant the pair of every live request is good.
LEMMA StateGood ==
  ASSUME IInv, NEW r \in live
  PROVE  /\ Good(State(r), promised) /\ promised \in Nat \cup {None}
         /\ State(r).f = files /\ State(r).e = env[r]
         /\ r \in Reqs /\ files \in Seq(File)
BY DEF IInv, TypeOK, Good, State, At

\* What one request does keeps the invariant, whatever is said of it.
LEMMA MoveStep ==
  ASSUME IInv, NEW r \in live, NEW x, Keeps(State(r), x, promised),
         files' = x.f, env' = [env EXCEPT ![r] = x.e], live' = live, promised' = promised,
         ret' \in [op : Ops, req : Reqs, ok : BOOLEAN, data : Slice]
  PROVE  IInv' /\ (ret'.req = r => Apart)
<1>1. /\ Good(x, promised) /\ Effect(State(r), x) /\ GoodBytes(x.data) /\ x.ok \in BOOLEAN
  BY DEF Keeps
<1>2. /\ files' = x.f /\ env' = [env EXCEPT ![r] = x.e] /\ live' = live
      /\ promised' = promised
  OBVIOUS
<1>3. /\ State(r).f = files /\ State(r).e = env[r] /\ r \in Reqs /\ files \in Seq(File)
  BY StateGood
<1>4. x.f \in Seq(File) /\ x.e \in Environ /\ x.data \in Slice
  BY <1>1 DEF Good, GoodFiles, GoodEnv, GoodBytes
<1>5. live \subseteq Reqs /\ env \in [Reqs -> Environ] /\ promised \in Nat \cup {None}
  BY DEF IInv, TypeOK
<1>6. TypeOK'
  BY <1>1, <1>2, <1>3, <1>4, <1>5 DEF TypeOK
<1>7. ASSUME NEW q \in live, q # r
      PROVE  /\ env'[q] = env[q] /\ env[q].input \in 1..Len(files)
             /\ files'[env[q].input] = files[env[q].input]
             /\ GoodEnv(files', env'[q], promised')
             /\ env'[q].input # x.e.input
  <2>1. env'[q] = env[q] /\ GoodEnv(files, env[q], promised) /\ env[q].input # env[r].input
    BY <1>2, <1>5, <1>7 DEF IInv
  <2>2. env[q].input \in 1..Len(files)
    BY <2>1 DEF GoodEnv
  <2>3. files'[env[q].input] = files[env[q].input]
    BY <1>1, <1>2, <1>3, <2>1, <2>2 DEF Effect
  <2>4. Len(files) <= Len(files') /\ files' \in Seq(File)
    BY <1>1, <1>2, <1>3, <1>4 DEF Effect
  <2>5. GoodEnv(files', env[q], promised)
    BY <1>3, <2>1, <2>3, <2>4, OtherEnvGood
  <2>6. env[q].input # x.e.input
    BY <1>1, <1>3, <2>1, <2>2 DEF Effect
  <2> QED
    BY <1>2, <2>1, <2>2, <2>3, <2>5, <2>6
<1>8. env'[r] = x.e /\ GoodEnv(files', env'[r], promised') /\ GoodFiles(files', promised')
  BY <1>1, <1>2, <1>3, <1>5 DEF Good
<1>9. \A q \in live' : GoodEnv(files', env'[q], promised')
  BY <1>2, <1>7, <1>8
<1>10. \A q, o \in live' : q # o => env'[q].input # env'[o].input
  <2> SUFFICES ASSUME NEW q \in live, NEW o \in live, q # o
               PROVE  env'[q].input # env'[o].input
    BY <1>2
  <2>1. CASE q # r /\ o # r
    BY <1>7, <2>1 DEF IInv
  <2>2. CASE q = r
    BY <1>7, <1>8, <2>2
  <2>3. CASE o = r
    BY <1>7, <1>8, <2>3
  <2> QED
    BY <2>1, <2>2, <2>3
<1>11. ret'.req = r => Apart
  BY <1>2, <1>7 DEF Apart
<1> QED
  BY <1>6, <1>8, <1>9, <1>10, <1>11 DEF IInv

\* An access of one request that Keeps.
LEMMA AccessStep ==
  ASSUME IInv, NEW r \in live, NEW op \in Ops, NEW x,
         Keeps(State(r), x, promised), Access(r, op, x)
  PROVE  IInv' /\ Apart
<1>1. GoodBytes(x.data) /\ x.ok \in BOOLEAN
  BY DEF Keeps
<1>2. /\ files' = x.f /\ env' = [env EXCEPT ![r] = x.e] /\ live' = live
      /\ promised' = promised /\ ret' = [op |-> op, req |-> r, ok |-> x.ok, data |-> x.data]
  BY DEF Access
<1>3. ret' \in [op : Ops, req : Reqs, ok : BOOLEAN, data : Slice] /\ ret'.req = r
  BY <1>1, <1>2, StateGood DEF GoodBytes
<1> QED
  BY <1>2, <1>3, MoveStep

\* What servers and Request.blank build satisfies the inductive invariant.
LEMMA InitInv == Init => IInv
<1> SUFFICES ASSUME Init PROVE IInv
  OBVIOUS
<1>1. PICK n \in 0..MaxBody, c \in (0..MaxBody) \cup {None}, seekable \in BOOLEAN,
           terminated \in BOOLEAN, kind \in {"wire", "memory"} :
        /\ Begin(n, c, seekable, terminated, kind)
        /\ seekable <=> kind = "memory"
        /\ kind = "memory" => (c = None /\ n = 0) \/ c = n
  <2>1. 0 \in 0..MaxBody
    BY ConstantsAssumption
  <2> QED
    BY <2>1, Zenon DEF Init, InitLength, InitNoLength, InitBlank, InitBlankPost
<1>2. PICK form \in BOOLEAN :
        env = [r \in Reqs |-> [input |-> 1, clen |-> c, seekable |-> seekable,
                               terminated |-> terminated, form |-> form,
                               wrap |-> NoWrapper, post |-> NoParsed]]
  BY <1>1 DEF Begin
<1> DEFINE d == [src |-> Wire, lo |-> 0, hi |-> n]
           y == [kind |-> kind, data |-> d, pos |-> 0]
           e == [input |-> 1, clen |-> c, seekable |-> seekable, terminated |-> terminated,
                 form |-> form, wrap |-> NoWrapper, post |-> NoParsed]
<1>3. files = <<y>> /\ promised = c
  BY <1>1 DEF Begin
<1>4. n \in Nat /\ c \in Nat \cup {None} /\ None \notin Nat /\ First \in Reqs
  BY ConstantsAssumption
<1>5. d \in Slice /\ y \in File /\ GoodFile(y) /\ Whole(d, n) /\ Width(d) = n
  BY <1>4 DEF Slice, Sources, File, Kinds, GoodFile, Width, Whole
<1>6. files \in Seq(File) /\ Len(files) = 1 /\ files[1] = y
  BY <1>3, <1>5
<1>7. NoWrapper \in Wrapper /\ NoParsed \in Parsed
  BY EmptyIsGood DEF NoWrapper, NoParsed, Wrapper, Parsed, GoodBytes
<1>8. e \in Environ
  BY <1>4, <1>7 DEF Environ
<1>9. TypeOK
  <2>1. ret \in [op : Ops, req : Reqs, ok : BOOLEAN, data : Slice]
    <3>1. ret = [op |-> "start", req |-> First, ok |-> TRUE, data |-> Empty]
      BY DEF Init
    <3>2. Empty \in Slice
      BY EmptyIsGood DEF GoodBytes
    <3> QED
      BY <1>4, <3>1, <3>2 DEF Ops
  <2>2. live \in SUBSET Reqs
    BY <1>4 DEF Init
  <2>3. env \in [Reqs -> Environ]
    BY <1>2, <1>8
  <2> QED
    BY <1>3, <1>4, <1>6, <2>1, <2>2, <2>3 DEF TypeOK
<1>10. GoodFiles(files, promised)
  <2>1. y.kind = "memory" => Whole(y.data, promised)
    BY <1>1, <1>3, <1>4, <1>5 DEF Whole, Width
  <2> QED
    BY <1>1, <1>3, <1>4, <1>5, <1>6, <2>1 DEF GoodFiles
<1>11. GoodEnv(files, e, promised)
  <2>1. /\ NoWrapper.raw = 0 /\ NoWrapper.ahead.lo <= NoWrapper.ahead.hi
        /\ NoParsed.raw = 0 /\ NoParsed.vars.lo <= NoParsed.vars.hi
    BY EmptyIsGood DEF NoWrapper, NoParsed, GoodBytes
  <2>2. /\ (e.seekable /\ e.clen # None) => e.clen = Width(d)
        /\ (e.seekable /\ e.clen = None) => Width(d) = 0
    BY <1>1, <1>4, <1>5
  <2> QED
    BY <1>1, <1>3, <1>6, <1>8, <2>1, <2>2 DEF GoodEnv
<1>12. live = {First} /\ env[First] = e
  BY <1>2, <1>4 DEF Init
<1> QED
  BY <1>9, <1>10, <1>11, <1>12 DEF IInv

---------------------------------------------------------------------------
(* The steps.                                                              *)

\* Reading body_file preserves the inductive invariant.
LEMMA StreamStep ==
  ASSUME IInv, NEW r \in live, Stream(r)
  PROVE  IInv' /\ Apart
<1>1. PICK k \in 1..(MaxBody + 1) : Access(r, "stream", ReadBodyFile(State(r), k))
  BY DEF Stream
<1>2. k \in Nat
  BY ConstantsAssumption
<1>3. Keeps(State(r), ReadBodyFile(State(r), k), promised)
  BY <1>2, StateGood, ReadBodyFileKeeps
<1>4. "stream" \in Ops
  BY DEF Ops
<1> QED
  BY <1>1, <1>3, <1>4, AccessStep

\* The getters, make_body_seekable and copy_body preserve it.
LEMMA GetterSteps ==
  ASSUME IInv, NEW r \in live,
         GetBody(r) \/ GetPost(r) \/ MakeSeekable(r) \/ CopyBody(r)
  PROVE  IInv' /\ Apart
<1>1. CASE GetBody(r)
  BY <1>1, StateGood, GetBodyKeeps, AccessStep DEF GetBody, Ops
<1>2. CASE GetPost(r)
  BY <1>2, StateGood, GetPostKeeps, AccessStep DEF GetPost, Ops
<1>3. CASE MakeSeekable(r)
  BY <1>3, StateGood, SeekableKeeps, AccessStep DEF MakeSeekable, Ops
<1>4. CASE CopyBody(r)
  BY <1>4, StateGood, CopyBodyKeeps, AccessStep DEF CopyBody, Ops
<1> QED
  BY <1>1, <1>2, <1>3, <1>4

\* The value v as a slice.
LEMMA ValueBytes ==
  ASSUME NEW v \in Values
  PROVE  LET c == [src |-> v, lo |-> 0, hi |-> Size[v]]
         IN  GoodBytes(c) /\ c.src # Wire /\ \A p : Whole(c, p)
<1>1. Size[v] \in Nat /\ v # Wire /\ v \in Sources
  BY ConstantsAssumption DEF Sources
<1> QED
  BY <1>1 DEF GoodBytes, Slice, Whole

\* Setting and deleting the body preserve it.
LEMMA SetterSteps ==
  ASSUME IInv, NEW r \in live, SetBody(r) \/ DeleteBody(r)
  PROVE  IInv' /\ Apart
<1>1. CASE SetBody(r)
  <2>1. PICK v \in Values :
          Access(r, "set", SetBodyIn(State(r), [src |-> v, lo |-> 0, hi |-> Size[v]]))
    BY <1>1 DEF SetBody
  <2> DEFINE c == [src |-> v, lo |-> 0, hi |-> Size[v]]
  <2>2. GoodBytes(c) /\ Whole(c, promised)
    BY ValueBytes
  <2>3. Access(r, "set", SetBodyIn(State(r), c))
    BY <2>1
  <2> HIDE DEF c
  <2>4. Keeps(State(r), SetBodyIn(State(r), c), promised)
    BY <2>2, StateGood, SetBodyKeeps
  <2> QED
    BY <2>3, <2>4, AccessStep DEF Ops
<1>2. CASE DeleteBody(r)
  <2>1. GoodBytes(Empty) /\ Whole(Empty, promised)
    BY EmptyIsGood DEF Whole
  <2>2. Keeps(State(r), SetBodyIn(State(r), Empty), promised)
    BY <2>1, StateGood, SetBodyKeeps
  <2> QED
    BY <1>2, <2>2, AccessStep DEF DeleteBody, Ops
<1> QED
  BY <1>1, <1>2

\* Setting a file of the application's preserves it.
LEMMA SetBodyFileStep ==
  ASSUME IInv, NEW r \in live, SetBodyFile(r)
  PROVE  IInv' /\ Apart
<1> DEFINE n == Len(files) + 1
           e == [env[r] EXCEPT !.clen = None, !.input = n, !.seekable = FALSE,
                               !.terminated = TRUE]
<1>1. PICK v \in Values :
        Access(r, "set",
          Done(Append(files, [kind |-> "stream", pos |-> 0,
                              data |-> [src |-> v, lo |-> 0, hi |-> Size[v]]]),
               e, Empty))
  BY DEF SetBodyFile
<1> DEFINE c == [src |-> v, lo |-> 0, hi |-> Size[v]]
           x == Done(Append(files, [kind |-> "stream", data |-> c, pos |-> 0]), e, Empty)
<1>2. Access(r, "set", x)
  BY <1>1
<1>3. GoodBytes(c) /\ c.src # Wire
  BY ValueBytes
<1>4. /\ Good(State(r), promised) /\ promised \in Nat \cup {None}
      /\ State(r).f = files /\ State(r).e = env[r] /\ files \in Seq(File)
  BY StateGood
<1>5. env[r] \in Environ /\ n \in Nat \ {0}
  BY <1>4 DEF Good, GoodEnv
<1>6. e = [env[r] EXCEPT !.clen = None, !.input = n, !.seekable = FALSE, !.terminated = TRUE]
  OBVIOUS
<1>7. n = Len(State(r).f) + 1
  BY <1>4
<1> HIDE DEF n, e
<1>8. /\ e \in Environ /\ e.clen = None /\ e.input = n /\ ~e.seekable
      /\ e.wrap = env[r].wrap /\ e.post = env[r].post
  BY <1>5, <1>6 DEF Environ
<1> HIDE DEF c
<1>9. /\ x.f = Append(State(r).f, [kind |-> "stream", data |-> c, pos |-> 0])
      /\ x.e = e /\ x.ok = TRUE /\ x.data = Empty
  BY <1>4 DEF Done
<1>10. "stream" \in Kinds \ {"wire"}
  BY DEF Kinds
<1> HIDE DEF x
<1>11. Keeps(State(r), x, promised)
  BY <1>3, <1>4, <1>7, <1>8, <1>9, <1>10, NewFileKeeps
<1> QED
  BY <1>2, <1>11, AccessStep DEF Ops

\* The content type constrains nothing but POST.
LEMMA FormGood ==
  ASSUME NEW f, NEW e, NEW p, GoodEnv(f, e, p), NEW form \in BOOLEAN,
         NEW z, z = [e EXCEPT !.form = form]
  PROVE  GoodEnv(f, z, p) /\ z.input = e.input
<1>1. e \in Environ
  BY DEF GoodEnv
<1>2. /\ z \in Environ /\ z.input = e.input /\ z.clen = e.clen /\ z.seekable = e.seekable
      /\ z.terminated = e.terminated /\ z.wrap = e.wrap /\ z.post = e.post
  BY <1>1 DEF Environ
<1>3. Readable(z) = Readable(e)
  BY <1>2 DEF Readable
<1> QED
  BY <1>2, <1>3 DEF GoodEnv

\* Setting the content type preserves it.
LEMMA SetContentTypeStep ==
  ASSUME IInv, NEW r \in live, SetContentType(r)
  PROVE  IInv' /\ Apart
<1>1. PICK form \in BOOLEAN :
        Access(r, "set", Done(files, [env[r] EXCEPT !.form = form], Empty))
  BY DEF SetContentType
<1> DEFINE z == [env[r] EXCEPT !.form = form]
           x == Done(files, z, Empty)
<1>2. /\ Good(State(r), promised) /\ State(r).f = files /\ State(r).e = env[r]
      /\ files \in Seq(File)
  BY StateGood
<1>3. GoodEnv(files, z, promised) /\ z.input = env[r].input
  BY <1>2, FormGood DEF Good
<1>4. x.f = files /\ x.e = z /\ x.ok = TRUE /\ x.data = Empty
  BY DEF Done
<1>5. Access(r, "set", x)
  BY <1>1
<1> HIDE DEF x, z
<1>6. Effect(State(r), x)
  BY <1>2, <1>3, <1>4 DEF Effect
<1>7. Keeps(State(r), x, promised)
  BY <1>2, <1>3, <1>4, <1>6, EmptyIsGood DEF Keeps, Good
<1> QED
  BY <1>5, <1>7, AccessStep DEF Ops

\* Calling an application preserves it.
LEMMA CallApplicationStep ==
  ASSUME IInv, NEW r \in live, CallApplication(r)
  PROVE  IInv' /\ Apart
<1> DEFINE size == IF env[r].clen = None THEN 0 ELSE env[r].clen
           s == At(Rewind(files, env[r].input), env[r])
           x == ReadRaw(s, size)
<1>1. env[r].seekable /\ Access(r, "call", x)
  BY DEF CallApplication
<1>2. /\ Good(State(r), promised) /\ State(r).f = files /\ State(r).e = env[r]
      /\ promised \in Nat \cup {None}
  BY StateGood
<1>3. size \in Nat
  BY <1>2 DEF Good, GoodEnv, Environ
<1>4. s.f = Rewind(files, env[r].input) /\ s.e = env[r]
  BY DEF At
<1> HIDE DEF size, s
<1>5. Good(s, promised) /\ Effect(State(r), s) /\ s.e.seekable
  BY <1>1, <1>2, <1>4, RewindKeeps
<1>6. Keeps(s, x, promised)
  BY <1>2, <1>3, <1>5, ReadRawKeeps
<1> HIDE DEF x
<1>7. Keeps(State(r), x, promised)
  BY <1>2, <1>5, <1>6, KeepsTransitive
<1> QED
  BY <1>1, <1>7, AccessStep DEF Ops

\* A step that may add the environ q to the live ones, beside the request r,
\* whose own environ may move to a new file.  Both are good, and the files of
\* the others are not touched.
LEMMA CopyStepInv ==
  ASSUME IInv, NEW r \in live, NEW q \in Reqs, q \notin live,
         files' \in Seq(File), GoodFiles(files', promised), promised' = promised,
         live' \subseteq live \cup {q}, env' \in [Reqs -> Environ],
         \A o \in live : o # r => env'[o] = env[o],
         GoodEnv(files', env'[r], promised),
         q \in live' => /\ GoodEnv(files', env'[q], promised)
                        /\ env'[q].input # env'[r].input
                        /\ env'[q].input > Len(files),
         Len(files) <= Len(files'),
         \A i \in 1..Len(files) : i # env[r].input => files'[i] = files[i],
         env'[r].input = env[r].input \/ env'[r].input > Len(files),
         ret' \in [op : Ops, req : Reqs, ok : BOOLEAN, data : Slice], ret'.req = r
  PROVE  IInv' /\ Apart
<1>1. live \subseteq Reqs /\ promised \in Nat \cup {None} /\ files \in Seq(File)
  BY DEF IInv, TypeOK
<1>2. TypeOK'
  BY <1>1 DEF TypeOK
<1>3. ASSUME NEW o \in live, o # r
      PROVE  /\ env'[o] = env[o] /\ env[o].input \in 1..Len(files)
             /\ files'[env[o].input] = files[env[o].input]
             /\ GoodEnv(files', env'[o], promised)
             /\ env'[o].input # env'[r].input
             /\ q \in live' => env'[o].input # env'[q].input
  <2>1. env'[o] = env[o] /\ GoodEnv(files, env[o], promised) /\ env[o].input # env[r].input
    BY <1>3 DEF IInv
  <2>2. env[o].input \in 1..Len(files) /\ Len(files) \in Nat
    BY <1>1, <2>1 DEF GoodEnv
  <2>3. files'[env[o].input] = files[env[o].input]
    BY <2>1, <2>2
  <2>4. GoodEnv(files', env[o], promised)
    BY <1>1, <2>1, <2>3, OtherEnvGood
  <2>5. env'[r].input \in Nat /\ env'[q].input \in Nat
    BY <1>1 DEF Environ
  <2> QED
    BY <2>1, <2>2, <2>3, <2>4, <2>5
<1>4. \A o \in live' : GoodEnv(files', env'[o], promised')
  <2> SUFFICES ASSUME NEW o \in live' PROVE GoodEnv(files', env'[o], promised)
    OBVIOUS
  <2>1. o = r \/ o = q \/ (o \in live /\ o # r)
    OBVIOUS
  <2> QED
    BY <1>3, <2>1
<1>5. ASSUME NEW o \in live', NEW t \in live', o # t
      PROVE  env'[o].input # env'[t].input
  <2>1. /\ o = r \/ o = q \/ (o \in live /\ o # r)
        /\ t = r \/ t = q \/ (t \in live /\ t # r)
    OBVIOUS
  <2>2. CASE o \in live /\ o # r /\ t \in live /\ t # r
    BY <1>3, <1>5, <2>2 DEF IInv
  <2>3. CASE (o \in live /\ o # r) /\ (t = r \/ t = q)
    BY <1>3, <2>3
  <2>4. CASE (t \in live /\ t # r) /\ (o = r \/ o = q)
    BY <1>3, <2>4
  <2>5. CASE (o = r \/ o = q) /\ (t = r \/ t = q)
    BY <1>5, <2>5
  <2> QED
    BY <2>1, <2>2, <2>3, <2>4, <2>5
<1>6. \A o, t \in live' : o # t => env'[o].input # env'[t].input
  BY <1>5
<1>7. Apart
  BY <1>3 DEF Apart
<1> QED
  BY <1>2, <1>4, <1>6, <1>7 DEF IInv

\* copy_get() preserves it.
LEMMA CopyGetStep ==
  ASSUME IInv, NEW r \in live, NEW q \in Reqs, CopyGet(r, q)
  PROVE  IInv' /\ Apart
<1> DEFINE z == [env[r] EXCEPT !.form = FALSE]
           s == At(files, z)
           c == SetBodyIn(s, Empty)
<1>1. /\ q \notin live /\ files' = c.f /\ live' = live \cup {q}
      /\ env' = [env EXCEPT ![q] = c.e] /\ promised' = promised
      /\ ret' = [op |-> "copy_get", req |-> r, ok |-> TRUE, data |-> Empty]
  BY DEF CopyGet
<1>2. /\ Good(State(r), promised) /\ State(r).f = files /\ State(r).e = env[r]
      /\ promised \in Nat \cup {None} /\ r \in Reqs /\ files \in Seq(File)
  BY StateGood
<1>3. GoodEnv(files, env[r], promised) /\ GoodFiles(files, promised)
  BY <1>2 DEF Good
<1>4. GoodEnv(files, z, promised) /\ s.f = files /\ s.e = z
  BY <1>3, FormGood DEF At
<1>5. GoodBytes(Empty) /\ Whole(Empty, promised)
  BY EmptyIsGood DEF Whole
<1>6. c.f = Append(files, [kind |-> "memory", data |-> Empty, pos |-> 0])
  BY DEF SetBodyIn, Done, At
<1> HIDE DEF z, s
<1>7. Good(s, promised)
  BY <1>3, <1>4 DEF Good
<1>8. Keeps(s, c, promised) /\ c.e.input = Len(files) + 1
  BY <1>2, <1>4, <1>5, <1>7, SetBodyKeeps
<1> HIDE DEF c
<1>9. Good(c, promised)
  BY <1>8 DEF Keeps
<1>10. [kind |-> "memory", data |-> Empty, pos |-> 0] \in File
  BY <1>5 DEF File, Kinds, GoodBytes
<1>11. /\ Len(files) \in Nat /\ Len(c.f) = Len(files) + 1 /\ c.f \in Seq(File)
       /\ \A i \in 1..Len(files) : c.f[i] = files[i]
  BY <1>2, <1>6, <1>10
<1>12. env[r].input \in 1..Len(files)
  BY <1>3 DEF GoodEnv
<1>13. GoodEnv(c.f, env[r], promised)
  BY <1>2, <1>3, <1>11, <1>12, OtherEnvGood
<1>14. /\ env' \in [Reqs -> Environ] /\ env'[q] = c.e
       /\ \A o \in live : env'[o] = env[o]
  <2>1. env \in [Reqs -> Environ] /\ live \subseteq Reqs /\ c.e \in Environ
    BY <1>9 DEF IInv, TypeOK, Good, GoodEnv
  <2> QED
    BY <1>1, <2>1
<1>15. ret' \in [op : Ops, req : Reqs, ok : BOOLEAN, data : Slice] /\ ret'.req = r
  BY <1>1, <1>2, <1>5 DEF Ops, GoodBytes
<1>16. /\ GoodFiles(files', promised) /\ files' \in Seq(File)
       /\ GoodEnv(files', env'[q], promised) /\ GoodEnv(files', env'[r], promised)
       /\ env'[q].input # env'[r].input /\ env'[q].input > Len(files)
       /\ Len(files) <= Len(files') /\ \A i \in 1..Len(files) : files'[i] = files[i]
  BY <1>1, <1>8, <1>9, <1>11, <1>12, <1>13, <1>14 DEF Good
<1> QED
  BY <1>1, <1>14, <1>15, <1>16, CopyStepInv

\* copy() preserves it: the copy reads the original's file and keeps another.
LEMMA CopyStep ==
  ASSUME IInv, NEW r \in live, NEW q \in Reqs, Copy(r, q)
  PROVE  IInv' /\ Apart
<1> DEFINE m == SeekableIn(State(r))
           c == CopyBodyIn(m)
           grows == m.ok /\ c.ok
           g == IF m.ok THEN c.f ELSE m.f
<1>1. /\ q \notin live /\ promised' = promised
      /\ IF grows
         THEN /\ files' = c.f
              /\ live' = live \cup {q}
              /\ env' = [env EXCEPT ![r] = m.e, ![q] = c.e]
              /\ ret' = [op |-> "copy", req |-> r, ok |-> TRUE, data |-> c.f[c.e.input].data]
         ELSE /\ files' = g
              /\ live' = live
              /\ env' = [env EXCEPT ![r] = m.e]
              /\ ret' = [op |-> "copy", req |-> r, ok |-> FALSE, data |-> Empty]
  BY DEF Copy
<1>2. /\ Good(State(r), promised) /\ State(r).f = files /\ State(r).e = env[r]
      /\ promised \in Nat \cup {None} /\ r \in Reqs /\ files \in Seq(File)
  BY StateGood
<1>3. Keeps(State(r), m, promised) /\ (m.ok => m.e.seekable)
  BY <1>2, SeekableKeeps
<1> HIDE DEF m
<1>4. Good(m, promised) /\ Effect(State(r), m) /\ m.ok \in BOOLEAN
  BY <1>3 DEF Keeps
<1>5. Keeps(m, c, promised) /\ (c.ok => c.e.seekable /\ c.e.input > Len(m.f))
  BY <1>2, <1>4, CopyBodyKeeps
<1> HIDE DEF c
<1>6. Good(c, promised) /\ Effect(m, c) /\ c.ok \in BOOLEAN
  BY <1>5 DEF Keeps
<1>7. /\ m.f \in Seq(File) /\ m.e.input \in 1..Len(m.f)
      /\ c.f \in Seq(File) /\ c.e.input \in 1..Len(c.f)
      /\ env[r].input \in 1..Len(files)
  <2>1. m.f \in Seq(File) /\ m.e.input \in 1..Len(m.f)
    BY <1>4, GoodInput
  <2>2. c.f \in Seq(File) /\ c.e.input \in 1..Len(c.f)
    BY <1>6, GoodInput
  <2>3. env[r].input \in 1..Len(files)
    BY <1>2 DEF Good, GoodEnv
  <2> QED
    BY <2>1, <2>2, <2>3
<1>8. Len(files) \in Nat /\ Len(m.f) \in Nat /\ Len(c.f) \in Nat
  BY <1>2, <1>7
<1>9. /\ Len(files) <= Len(m.f) /\ Len(m.f) <= Len(c.f)
      /\ m.e.input = env[r].input \/ m.e.input > Len(files)
  BY <1>2, <1>4, <1>6 DEF Effect
<1>10. \A i \in 1..Len(files) : i # env[r].input => m.f[i] = files[i] /\ c.f[i] = files[i]
  <2> SUFFICES ASSUME NEW i \in 1..Len(files), i # env[r].input
               PROVE  m.f[i] = files[i] /\ c.f[i] = files[i]
    OBVIOUS
  <2>1. m.f[i] = files[i]
    BY <1>2, <1>4 DEF Effect
  <2>2. i \in 1..Len(m.f) /\ i # m.e.input
    BY <1>7, <1>8, <1>9
  <2>3. c.f[i] = m.f[i]
    BY <1>6, <2>2 DEF Effect
  <2> QED
    BY <2>1, <2>3
<1>11. GoodFiles(g, promised) /\ GoodEnv(g, m.e, promised)
  <2>1. CASE ~m.ok
    BY <1>4, <2>1 DEF Good
  <2>2. CASE m.ok
    <3>1. c.f[m.e.input].kind = m.f[m.e.input].kind /\ c.f[m.e.input].data = m.f[m.e.input].data
      BY <1>6, <1>7 DEF Effect
    <3>2. GoodEnv(m.f, m.e, promised) /\ m.e.seekable
      BY <1>3, <1>4, <2>2 DEF Good
    <3>3. GoodEnv(c.f, m.e, promised)
      BY <1>7, <1>9, <3>1, <3>2, OtherEnvGood
    <3> QED
      BY <1>6, <2>2, <3>3 DEF Good
  <2> QED
    BY <1>4, <2>1, <2>2
<1>12. grows => /\ GoodEnv(g, c.e, promised) /\ c.e.input # m.e.input
                /\ c.e.input > Len(files)
  BY <1>5, <1>6, <1>7, <1>8, <1>9 DEF Good
<1>13. Len(files) <= Len(g) /\ \A i \in 1..Len(files) : i # env[r].input => g[i] = files[i]
  BY <1>8, <1>9, <1>10
<1>14. ret' \in [op : Ops, req : Reqs, ok : BOOLEAN, data : Slice] /\ ret'.req = r
  <2> DEFINE y == c.f[c.e.input]
  <2>1. y \in File
    BY <1>7
  <2>2. y.data \in Slice /\ Empty \in Slice
    <3> HIDE DEF y
    <3> QED BY <2>1, EmptyIsGood DEF File, GoodBytes
  <2>3. ret' = [op |-> "copy", req |-> r, ok |-> grows, data |-> IF grows THEN y.data ELSE Empty]
    BY <1>1
  <2> HIDE DEF y, grows
  <2>4. grows \in BOOLEAN
    BY <1>4, <1>6 DEF grows
  <2> QED
    BY <1>2, <2>2, <2>3, <2>4 DEF Ops
<1>15. files' = g /\ files' \in Seq(File)
  BY <1>1, <1>7
<1>16. /\ env' \in [Reqs -> Environ] /\ env'[r] = m.e
       /\ \A o \in live : o # r => env'[o] = env[o]
       /\ live' \subseteq live \cup {q}
       /\ q \in live' => grows /\ env'[q] = c.e
  <2>1. env \in [Reqs -> Environ] /\ live \subseteq Reqs /\ m.e \in Environ /\ c.e \in Environ
    BY <1>4, <1>6 DEF IInv, TypeOK, Good, GoodEnv
  <2>2. q # r
    BY <1>1
  <2>3. CASE grows
    BY <1>1, <1>2, <2>1, <2>2, <2>3
  <2>4. CASE ~grows
    BY <1>1, <1>2, <2>1, <2>2, <2>4
  <2> QED
    BY <2>3, <2>4
<1> HIDE DEF g, grows
<1>17. /\ GoodFiles(files', promised) /\ GoodEnv(files', env'[r], promised)
       /\ q \in live' => /\ GoodEnv(files', env'[q], promised)
                         /\ env'[q].input # env'[r].input
                         /\ env'[q].input > Len(files)
       /\ Len(files) <= Len(files')
       /\ \A i \in 1..Len(files) : i # env[r].input => files'[i] = files[i]
       /\ env'[r].input = env[r].input \/ env'[r].input > Len(files)
  BY <1>9, <1>11, <1>12, <1>13, <1>15, <1>16
<1> QED
  BY <1>1, <1>14, <1>15, <1>16, <1>17, CopyStepInv

\* Every step preserves the inductive invariant and keeps other requests apart.
LEMMA StepInv == IInv /\ [Next]_vars => IInv' /\ [Apart]_vars
<1> SUFFICES ASSUME IInv, [Next]_vars PROVE IInv' /\ [Apart]_vars
  OBVIOUS
<1>1. CASE UNCHANGED vars
  BY <1>1 DEF vars, IInv, TypeOK
<1>2. CASE Next
  <2>1. PICK r \in live :
          \/ Stream(r)
          \/ GetBody(r) \/ GetPost(r) \/ MakeSeekable(r) \/ CopyBody(r)
          \/ SetBody(r) \/ DeleteBody(r)
          \/ SetBodyFile(r)
          \/ SetContentType(r)
          \/ CallApplication(r)
          \/ \E q \in Reqs : Copy(r, q) \/ CopyGet(r, q)
    BY <1>2 DEF Next
  <2>2. CASE Stream(r)
    BY <2>2, StreamStep
  <2>3. CASE GetBody(r) \/ GetPost(r) \/ MakeSeekable(r) \/ CopyBody(r)
    BY <2>3, GetterSteps
  <2>4. CASE SetBody(r) \/ DeleteBody(r)
    BY <2>4, SetterSteps
  <2>5. CASE SetBodyFile(r)
    BY <2>5, SetBodyFileStep
  <2>6. CASE SetContentType(r)
    BY <2>6, SetContentTypeStep
  <2>7. CASE CallApplication(r)
    BY <2>7, CallApplicationStep
  <2>8. CASE \E q \in Reqs : Copy(r, q) \/ CopyGet(r, q)
    <3>1. PICK q \in Reqs : Copy(r, q) \/ CopyGet(r, q)
      BY <2>8
    <3>2. CASE Copy(r, q)
      BY <3>2, CopyStep
    <3>3. CASE CopyGet(r, q)
      BY <3>3, CopyGetStep
    <3> QED
      BY <3>1, <3>2, <3>3
  <2> QED
    BY <2>1, <2>2, <2>3, <2>4, <2>5, <2>6, <2>7, <2>8
<1> QED
  BY <1>1, <1>2

\* The inductive invariant holds in every reachable state.
\* It carries the positions and the read-ahead that the properties do not show.
THEOREM Invariance == Spec => []IInv
  BY InitInv, StepInv, PTL DEF Spec

---------------------------------------------------------------------------
(* The theorems.                                                           *)

\* Every variable keeps its type: no access leaves a file position behind the
\* end of the file, or a wrapper with fewer than no bytes remaining.
THEOREM TypeCorrect == Spec => []TypeOK
<1>1. IInv => TypeOK
  BY DEF IInv
<1> QED
  BY <1>1, Invariance, PTL

\* For any Content-Length and any client, no sequence of accesses takes more
\* than the announced bytes from the server's input (request.py 210-224).
THEOREM NeverReadsPastLength == Spec => []NeverReadPastLength
<1>1. IInv => NeverReadPastLength
  <2> SUFFICES ASSUME IInv, files[1].kind = "wire" PROVE NeverReadPastLength
    BY DEF NeverReadPastLength
  <2>1. promised # None => files[1].pos <= promised
    <3>1. Len(files) \in Nat /\ Len(files) >= 1
      BY DEF IInv, GoodFiles
    <3> QED
      BY <3>1 DEF IInv, GoodFiles
  <2>2. ASSUME NEW r \in live, env[r].input = 1, env[r].clen = None, ~Readable(env[r])
        PROVE  files[1].pos = 0
    BY <2>2 DEF IInv, GoodEnv
  <2> QED
    BY <2>1, <2>2 DEF NeverReadPastLength
<1> QED
  BY <1>1, Invariance, PTL

\* webob.is_body_seekable is never set on an input that cannot seek.
THEOREM SeekableIsTruthful == Spec => []SeekableTruthful
<1>1. IInv => SeekableTruthful
  BY DEF IInv, GoodEnv, SeekableTruthful, InputOf
<1> QED
  BY <1>1, Invariance, PTL

\* The CONTENT_LENGTH beside a seekable input is the number of its bytes.
THEOREM LengthAlwaysMatches == Spec => []LengthMatches
<1>1. IInv => LengthMatches
  BY DEF IInv, GoodEnv, LengthMatches, InputOf
<1> QED
  BY <1>1, Invariance, PTL

\* No truncated copy of an announced body is ever kept, whatever was read
\* before and whenever the client leaves (copy_body, request.py 959-1044).
THEOREM NeverTruncates == Spec => []NoTruncation
<1>1. IInv => NoTruncation
  BY DEF IInv, GoodFiles, Whole, NoTruncation
<1> QED
  BY <1>1, Invariance, PTL

\* What is done with one request does not touch the input of another.
THEOREM CopiesAreIndependent == Spec => Independent
  BY InitInv, StepInv, PTL DEF Spec, Independent, Apart

---------------------------------------------------------------------------
(* What the accesses return.                                               *)

\* An access that returns the body of its request, or bytes that were parsed.
LEMMA AccessFresh ==
  ASSUME IInv, NEW r \in live, NEW op, NEW x, Access(r, op, x),
         (op \in {"body", "call"} /\ x.ok) => Fresh(x),
         (op = "post" /\ x.ok /\ Width(x.data) > 0) => x.data = x.f[x.e.input].data
  PROVE  FreshReads'
<1>1. /\ files' = x.f /\ env' = [env EXCEPT ![r] = x.e]
      /\ ret' = [op |-> op, req |-> r, ok |-> x.ok, data |-> x.data]
  BY DEF Access
<1>2. env'[r] = x.e
  BY <1>1 DEF IInv, TypeOK
<1>3. ret'.op = op /\ ret'.req = r /\ ret'.ok = x.ok /\ ret'.data = x.data
  BY <1>1
<1>4. SameBytes(x.data, IF Readable(env'[r]) THEN files'[env'[r].input].data ELSE Empty) <=> Fresh(x)
  BY <1>1, <1>2 DEF Fresh
<1> QED
  BY <1>1, <1>2, <1>3, <1>4 DEF FreshReads, InputOf, SameBytes, Width

\* Each action returns the present input, or nothing that claims to be it.
LEMMA FreshStep == IInv /\ FreshReads /\ [Next]_vars => FreshReads'
<1> SUFFICES ASSUME IInv, FreshReads, [Next]_vars PROVE FreshReads'
  OBVIOUS
<1>1. CASE UNCHANGED vars
  BY <1>1 DEF vars, FreshReads, InputOf
<1>2. CASE Next
  <2>1. PICK r \in live :
          \/ Stream(r) \/ MakeSeekable(r) \/ CopyBody(r)
          \/ SetBody(r) \/ DeleteBody(r) \/ SetBodyFile(r) \/ SetContentType(r)
          \/ GetBody(r)
          \/ GetPost(r)
          \/ CallApplication(r)
          \/ \E q \in Reqs : Copy(r, q) \/ CopyGet(r, q)
    BY <1>2 DEF Next
  <2>2. /\ Good(State(r), promised) /\ promised \in Nat \cup {None}
        /\ State(r).f = files /\ State(r).e = env[r]
    BY StateGood
  <2>3. CASE \/ Stream(r) \/ MakeSeekable(r) \/ CopyBody(r)
             \/ SetBody(r) \/ DeleteBody(r) \/ SetBodyFile(r) \/ SetContentType(r)
    <3>1. \E op \in {"stream", "seekable", "copy_body", "set"} : \E x : Access(r, op, x)
      BY <2>3 DEF Stream, MakeSeekable, CopyBody, SetBody, DeleteBody, SetBodyFile, SetContentType
    <3> QED
      BY <3>1, AccessFresh
  <2>4. CASE GetBody(r)
    <3>1. Access(r, "body", GetBodyIn(State(r)))
      BY <2>4 DEF GetBody
    <3>2. GetBodyIn(State(r)).ok => Fresh(GetBodyIn(State(r)))
      BY <2>2, GetBodyKeeps
    <3> QED
      BY <3>1, <3>2, AccessFresh
  <2>5. CASE GetPost(r)
    <3> DEFINE x == GetPostIn(State(r))
    <3>1. Access(r, "post", x)
      BY <2>5 DEF GetPost
    <3>2. (x.ok /\ Width(x.data) > 0) => x.data = x.f[x.e.input].data
      BY <2>2, GetPostKeeps
    <3> HIDE DEF x
    <3> QED
      BY <3>1, <3>2, AccessFresh
  <2>6. CASE CallApplication(r)
    <3> DEFINE size == IF env[r].clen = None THEN 0 ELSE env[r].clen
               s == At(Rewind(files, env[r].input), env[r])
    <3>1. env[r].seekable /\ Access(r, "call", ReadRaw(s, size))
      BY <2>6 DEF CallApplication
    <3>2. size \in Nat /\ (env[r].clen # None => size = env[r].clen)
      BY <2>2 DEF Good, GoodEnv, Environ
    <3>3. s.f = Rewind(files, env[r].input) /\ s.e = env[r]
      BY DEF At
    <3> HIDE DEF size, s
    <3>4. Good(s, promised) /\ s.f[s.e.input].pos = 0
      BY <2>2, <3>1, <3>3, RewindKeeps
    <3>5. Fresh(ReadRaw(s, size))
      BY <2>2, <3>1, <3>2, <3>3, <3>4, ReadFromStart
    <3> QED
      BY <3>1, <3>5, AccessFresh
  <2>7. CASE \E q \in Reqs : Copy(r, q) \/ CopyGet(r, q)
    <3>1. ret'.op \in {"copy", "copy_get"}
      BY <2>7 DEF Copy, CopyGet
    <3> QED
      BY <3>1 DEF FreshReads
  <2> QED
    BY <2>1, <2>3, <2>4, <2>5, <2>6, <2>7
<1> QED
  BY <1>1, <1>2

\* req.body, and an application called with a seekable request, get the whole
\* present input wherever earlier reads left its position, and req.POST is
\* never served from an input that was replaced (request.py 697-727, 783-832).
THEOREM ReadsAreFresh == Spec => []FreshReads
<1>1. Init => FreshReads
  BY DEF Init, FreshReads
<1> QED
  BY Invariance, <1>1, FreshStep, PTL DEF Spec

\* Only copies are called so, and only reads of body_file streams.
LEMMA WhichOp ==
  ASSUME NEW r \in live
  PROVE  /\ Stream(r) => ret'.op = "stream"
         /\ (\/ GetBody(r) \/ GetPost(r) \/ MakeSeekable(r) \/ CopyBody(r)
             \/ SetBody(r) \/ DeleteBody(r) \/ SetBodyFile(r) \/ SetContentType(r)
             \/ CallApplication(r))
              => ret'.op \in {"body", "post", "seekable", "copy_body", "set", "call"}
         /\ \A q \in Reqs : /\ Copy(r, q) => ret'.op = "copy"
                            /\ CopyGet(r, q) => ret'.op = "copy_get"
<1>1. \A op, x : Access(r, op, x) => ret'.op = op
  BY DEF Access
<1>2. Stream(r) => ret'.op = "stream"
  BY <1>1 DEF Stream
<1>3. (GetBody(r) => ret'.op = "body") /\ (GetPost(r) => ret'.op = "post")
  BY <1>1 DEF GetBody, GetPost
<1>4. (MakeSeekable(r) => ret'.op = "seekable") /\ (CopyBody(r) => ret'.op = "copy_body")
  BY <1>1 DEF MakeSeekable, CopyBody
<1>5. (SetBody(r) \/ DeleteBody(r) \/ SetBodyFile(r) \/ SetContentType(r)) => ret'.op = "set"
  BY <1>1 DEF SetBody, DeleteBody, SetBodyFile, SetContentType
<1>6. CallApplication(r) => ret'.op = "call"
  BY <1>1 DEF CallApplication
<1>7. \A q \in Reqs : /\ Copy(r, q) => ret'.op = "copy"
                      /\ CopyGet(r, q) => ret'.op = "copy_get"
  BY DEF Copy, CopyGet
<1> QED
  BY <1>2, <1>3, <1>4, <1>5, <1>6, <1>7

\* The next byte of body_file is the one behind the last that was delivered.
Resumes ==
  (ret.op = "stream" /\ Width(ret.data) > 0) =>
    ret.req \in live /\ ret.data.hi = Offset(State(ret.req))

\* Streaming once more goes on there, whatever the chunks.
LEMMA ResumeStep ==
  ASSUME IInv, Resumes, [Next]_vars
  PROVE  /\ Resumes'
         /\ (/\ ret.op = "stream" /\ ret'.op = "stream" /\ ret.req = ret'.req
             /\ Width(ret.data) > 0 /\ Width(ret'.data) > 0)
              => (ret'.data.lo = ret.data.hi \/ UNCHANGED vars)
<1>1. CASE UNCHANGED vars
  BY <1>1 DEF vars, Resumes, State, At, Offset, WrapperOf, Width
<1>2. CASE Next
  <2>1. PICK r \in live : Stream(r) \/ ret'.op # "stream"
    BY <1>2, WhichOp DEF Next
  <2>2. CASE ret'.op # "stream"
    BY <2>2 DEF Resumes
  <2>3. CASE Stream(r)
    <3>1. PICK k \in 1..(MaxBody + 1) : Access(r, "stream", ReadBodyFile(State(r), k))
      BY <2>3 DEF Stream
    <3> DEFINE x == ReadBodyFile(State(r), k)
    <3>2. k \in Nat
      BY ConstantsAssumption
    <3>3. Width(x.data) > 0 => Follows(State(r), x)
      BY <3>2, StateGood, ReadBodyFileKeeps
    <3> HIDE DEF x
    <3>4. /\ files' = x.f /\ env'[r] = x.e /\ live' = live
          /\ ret'.req = r /\ ret'.data = x.data
      BY <3>1 DEF Access, IInv, TypeOK, x
    <3>5. Offset(State(r))' = Offset(x)
      BY <3>4 DEF State, At, Offset, WrapperOf, Width
    <3>6. Resumes'
      BY <3>3, <3>4, <3>5 DEF Resumes, Follows, Width
    <3> QED
      BY <3>3, <3>4, <3>6 DEF Resumes, Follows
  <2> QED
    BY <2>1, <2>2, <2>3
<1> QED
  BY <1>1, <1>2

\* Two reads of body_file in a row deliver consecutive bytes, although each
\* access of the property may build a new reader (request.py 196-226).
THEOREM StreamsInOrder == Spec => StreamInOrder
<1>1. Init => Resumes
  BY DEF Init, Resumes
<1>2. IInv /\ Resumes /\ [Next]_vars => Resumes' /\
        [ ( /\ ret.op = "stream" /\ ret'.op = "stream" /\ ret.req = ret'.req
            /\ Width(ret.data) > 0 /\ Width(ret'.data) > 0 )
          => ret'.data.lo = ret.data.hi ]_vars
  BY ResumeStep
<1> QED
  BY Invariance, <1>1, <1>2, PTL DEF Spec, StreamInOrder

\* A copy has the bytes of the original, which is left with a seekable body of
\* its own (request.py 845-861).
THEOREM CopiesAreFaithful == Spec => CopyFaithful
<1> DEFINE Faithful ==
      \A q \in live' \ live : ret'.op = "copy" =>
        /\ SameBytes(files'[env'[q].input].data, files'[env'[ret'.req].input].data)
        /\ env'[ret'.req].seekable /\ env'[q].seekable
        /\ env'[q].input # env'[ret'.req].input
<1>1. IInv /\ [Next]_vars => [Faithful]_vars
  <2> SUFFICES ASSUME IInv, Next, NEW q \in live' \ live, ret'.op = "copy"
               PROVE  /\ SameBytes(files'[env'[q].input].data, files'[env'[ret'.req].input].data)
                      /\ env'[ret'.req].seekable /\ env'[q].seekable
                      /\ env'[q].input # env'[ret'.req].input
    BY DEF vars
  <2>1. PICK r \in live, o \in Reqs : Copy(r, o)
    BY WhichOp DEF Next
  <2> DEFINE m == SeekableIn(State(r))
             c == CopyBodyIn(m)
  <2>2. /\ o \notin live /\ m.ok /\ c.ok /\ o = q
        /\ files' = c.f /\ env' = [env EXCEPT ![r] = m.e, ![o] = c.e] /\ ret'.req = r
    BY <2>1 DEF Copy
  <2>3. /\ Good(State(r), promised) /\ promised \in Nat \cup {None} /\ r \in Reqs
        /\ env \in [Reqs -> Environ]
    BY StateGood DEF IInv, TypeOK
  <2>4. Good(m, promised) /\ m.e.seekable
    BY <2>2, <2>3, SeekableKeeps DEF Keeps
  <2> HIDE DEF m
  <2>5. /\ Effect(m, c) /\ c.e.seekable /\ c.e.input > Len(m.f)
        /\ SameBytes(c.f[c.e.input].data, m.f[m.e.input].data)
    BY <2>2, <2>3, <2>4, CopyBodyKeeps DEF Keeps
  <2> HIDE DEF c
  <2>6. m.e.input \in 1..Len(m.f) /\ m.f \in Seq(File)
    BY <2>4, GoodInput
  <2>7. c.f[m.e.input].data = m.f[m.e.input].data /\ c.e.input # m.e.input
    BY <2>5, <2>6 DEF Effect
  <2>8. env'[r] = m.e /\ env'[q] = c.e
    BY <2>2, <2>3
  <2> QED
    BY <2>2, <2>4, <2>5, <2>7, <2>8
<1> QED
  BY Invariance, <1>1, PTL DEF Spec, CopyFaithful

---------------------------------------------------------------------------
(* copy_body as a loop: the inductive invariant.                            *)

\* What has been read.
Sofar == IF fileobj # None THEN fileobj ELSE newbody

\* The limit decides where it is kept.
Kept ==
  /\ newbody \in Slice /\ fileobj \in Slice \cup {None}
  /\ GoodBytes(Sofar)
  /\ fileobj # None <=> Width(Sofar) > TempfileLimit

\* The end of copy_body in s, with c read, if what is left is read at once.
Pending(s, n) == IF s.e.clen = None THEN Left(s.f[s.e.input]) ELSE n
Outcome(s, c, n) ==
  LET read == ReadBodyFile(s, Pending(s, n))
  IN  IF ~read.ok \/ Width(read.data) < Pending(s, n) THEN Fail(read.f, read.e)
      ELSE StoreCopy(read, Join(c, read.data))

Limited(e) == ~e.seekable /\ e.clen # None

\* The loop in s has read c and has n bytes to go.
Midway(s, c, n) ==
  /\ Readable(s.e) /\ n \in Nat
  /\ s.e.clen = None => n > 0
  /\ (s.e.clen # None /\ n = 0) => Width(c) > 0
  /\ Width(c) > 0 => c.hi = Offset(s)
  /\ (s.e.clen # None /\ s.e.seekable) => n = Left(s.f[s.e.input])
  /\ Limited(s.e) =>
       /\ s.e.clen <= Offset(s) + n
       /\ Width(c) > 0 => /\ s.e.wrap.raw = s.e.input
                          /\ s.e.wrap.ahead.src = Wire
                          /\ s.e.wrap.ahead.hi = s.f[s.e.input].pos

Beginning == At(begun.files, begun.env[r0])

\* What the loop did to the state it began in.
Advanced ==
  /\ Len(files) = Len(begun.files)
  /\ Effect(Beginning, State(r0))
  /\ env[r0].input = begun.env[r0].input
  /\ begun.env \in [Reqs -> Environ]
  /\ env = [begun.env EXCEPT ![r0] = env[r0]]

LoopInv ==
  /\ IInv /\ r0 \in live /\ busy \in BOOLEAN
  /\ busy =>
       /\ Len(begun.files) < MaxFiles
       /\ Good(Beginning, promised)
       /\ Advanced
       /\ Kept
       /\ Midway(State(r0), Sofar, todo)
       /\ Outcome(State(r0), Sofar, todo) = CopyBodyIn(Beginning)

---------------------------------------------------------------------------
(* Reading on.                                                             *)

\* A buffer has room for what is asked.
LEMMA WantedCovers ==
  ASSUME NEW k \in Nat, NEW n \in Nat
  PROVE  /\ n <= k => Wanted(k, n) = n
         /\ Wanted(k, n) = n \/ k <= Wanted(k, n)
<1> DEFINE q == (k + BufSize - 1) \div BufSize
           m == q * BufSize
<1>1. BufSize \in Nat /\ BufSize > 0 /\ k + BufSize - 1 \in Nat
  BY ConstantsAssumption
<1>2. q \in Nat /\ k + BufSize - 1 < (q + 1) * BufSize
  BY <1>1
<1>3. (q + 1) * BufSize = m + BufSize
  <2> HIDE DEF q
  <2> QED BY <1>1, <1>2
<1>4. m \in Nat /\ k <= m
  <2>1. m \in Nat
    <3> HIDE DEF q
    <3> QED BY <1>1, <1>2
  <2> HIDE DEF m
  <2>2. k + BufSize - 1 < m + BufSize
    BY <1>2, <1>3
  <2> QED
    BY <1>1, <2>1, <2>2
<1>5. Wanted(k, n) = Least(m, n)
  BY DEF Wanted
<1> HIDE DEF m
<1> QED
  BY <1>4, <1>5 DEF Least

\* The last of two seeks decides, and a seek to where the file is does nothing.
LEMMA SeekAgain ==
  ASSUME NEW f \in Seq(File), NEW i \in 1..Len(f), NEW a \in Nat, NEW b \in Nat
  PROVE  /\ Seek(Seek(f, i, a), i, b) = Seek(f, i, b)
         /\ f[i].pos = a => Seek(f, i, a) = f
<1>1. f \in [1..Len(f) -> File] /\ f[i] \in File
  OBVIOUS
<1>2. /\ [[f[i] EXCEPT !.pos = a] EXCEPT !.pos = b] = [f[i] EXCEPT !.pos = b]
      /\ f[i].pos = a => [f[i] EXCEPT !.pos = a] = f[i]
  BY <1>1 DEF File
<1> QED
  BY <1>1, <1>2 DEF Seek

\* Pieces that follow each other are joined in any order.
LEMMA JoinPieces ==
  ASSUME NEW c, GoodBytes(c), NEW a, GoodBytes(a), NEW b, GoodBytes(b),
         Width(a) > 0, Width(c) > 0 => c.hi = a.lo, a.hi = b.lo
  PROVE  /\ Join(Join(c, a), b) = Join(c, [src |-> a.src, lo |-> a.lo, hi |-> b.hi])
         /\ GoodBytes(Join(c, a)) /\ Join(c, a).hi = a.hi
         /\ Width(Join(c, a)) > 0 /\ Width(Join(c, a)) >= Width(c)
<1> DEFINE d == [src |-> a.src, lo |-> a.lo, hi |-> b.hi]
<1>1. /\ c \in Slice /\ a \in Slice /\ c.lo \in Nat /\ c.hi \in Nat /\ a.lo \in Nat /\ a.hi \in Nat
      /\ b.hi \in Nat /\ c.lo <= c.hi /\ a.lo < a.hi
  BY DEF GoodBytes, Slice, Width
<1>2. CASE Width(c) = 0
  <2>1. Join(c, a) = a /\ Join(c, d) = d
    BY <1>2 DEF Join
  <2>2. Join(a, b) = [a EXCEPT !.hi = b.hi]
    BY DEF Join
  <2>3. [a EXCEPT !.hi = b.hi] = d
    BY <1>1 DEF Slice
  <2>4. Width(a) \in Nat
    BY <1>1 DEF Width
  <2> QED
    BY <1>2, <2>1, <2>2, <2>3, <2>4
<1>3. CASE Width(c) # 0
  <2>1. c.hi = a.lo /\ c.lo < c.hi
    BY <1>1, <1>3 DEF Width
  <2>2. Join(c, a) = [c EXCEPT !.hi = a.hi] /\ Join(c, d) = [c EXCEPT !.hi = b.hi]
    BY <1>3 DEF Join
  <2>3. /\ Join(c, a) \in Slice /\ Join(c, a).lo = c.lo /\ Join(c, a).hi = a.hi
        /\ [Join(c, a) EXCEPT !.hi = b.hi] = [c EXCEPT !.hi = b.hi]
    BY <1>1, <2>2 DEF Slice
  <2>4. Width(Join(c, a)) # 0 /\ Width(Join(c, a)) > 0 /\ Width(Join(c, a)) >= Width(c)
    BY <1>1, <2>1, <2>3 DEF Width
  <2>5. Join(Join(c, a), b) = [Join(c, a) EXCEPT !.hi = b.hi]
    BY <2>4 DEF Join
  <2> QED
    BY <1>1, <2>1, <2>2, <2>3, <2>4, <2>5 DEF GoodBytes
<1> QED
  BY <1>2, <1>3

---------------------------------------------------------------------------
(* Reading an input that seeks or that ends by itself.                     *)

\* What one read of it returns.
LEMMA RawRead ==
  ASSUME NEW p \in Nat \cup {None}, NEW s, Good(s, p), Readable(s.e), ~Limited(s.e),
         NEW k \in Nat
  PROVE  LET y == s.f[s.e.input]
             w == Least(k, Left(y))
         IN  /\ ReadBodyFile(s, k) = Done(Seek(s.f, s.e.input, y.pos + w), s.e, NextBytes(y, w))
             /\ w \in Nat /\ Left(y) \in Nat /\ y.pos + Left(y) = Width(y.data)
             /\ w <= k /\ w <= Left(y) /\ (w = k \/ w = Left(y))
             /\ NextBytes(y, w) = [src |-> y.data.src, lo |-> y.data.lo + y.pos,
                                   hi |-> y.data.lo + y.pos + w]
             /\ GoodBytes(NextBytes(y, w)) /\ Width(NextBytes(y, w)) = w
             /\ y.pos \in Nat /\ y.data.lo \in Nat /\ y.data.hi \in Nat /\ y.data.src \in Sources
             /\ y.data.lo + Width(y.data) = y.data.hi
<1> DEFINE y == s.f[s.e.input]
           w == Least(k, Left(y))
<1>1. /\ y.pos \in Nat /\ y.data.lo \in Nat /\ y.data.hi \in Nat /\ y.data.src \in Sources
      /\ y.data.lo <= y.data.hi /\ y.pos <= y.data.hi - y.data.lo
  BY GoodInput
<1>2. ReadBodyFile(s, k) = ReadRaw(s, k)
  BY DEF ReadBodyFile, Limited
<1>3. ReadRaw(s, k) = Done(Seek(s.f, s.e.input, y.pos + w), s.e, NextBytes(y, w))
  BY DEF ReadRaw
<1> HIDE DEF y
<1>4. Left(y) \in Nat /\ y.pos + Left(y) = Width(y.data) /\ y.data.lo + Width(y.data) = y.data.hi
  BY <1>1 DEF Left, Width
<1>5. w \in Nat /\ w <= k /\ w <= Left(y) /\ (w = k \/ w = Left(y))
  BY <1>4, LeastBound
<1> HIDE DEF w
<1>6. GoodBytes(NextBytes(y, w)) /\ Width(NextBytes(y, w)) = w
  BY <1>1, <1>5 DEF GoodBytes, NextBytes, Slice, Width
<1> QED
  BY <1>1, <1>2, <1>3, <1>4, <1>5, <1>6 DEF NextBytes, y, w

\* Storing looks at the files and the environ only.
LEMMA StoreState ==
  ASSUME NEW s, NEW f, NEW e, s.f = f, s.e = e, NEW c
  PROVE  StoreCopy(s, c) = StoreCopy(At(f, e), c)
  BY DEF StoreCopy, SetBodyIn, At

\* All that is left at once.
LEMMA RawOutcome ==
  ASSUME NEW p \in Nat \cup {None}, NEW s, Good(s, p), Readable(s.e), ~Limited(s.e),
         NEW y, y = s.f[s.e.input], NEW n, s.e.clen # None => n = Left(y), NEW c
  PROVE  Outcome(s, c, n) =
           StoreCopy(At(Seek(s.f, s.e.input, Width(y.data)), s.e),
                     Join(c, [src |-> y.data.src, lo |-> y.data.lo + y.pos, hi |-> y.data.hi]))
<1>1. PICK k : k = Left(y)
  OBVIOUS
<1>2. Pending(s, n) = k
  BY <1>1 DEF Pending
<1>3. k \in Nat /\ Least(k, k) = k
  <2>1. k \in Nat
    <3>1. y.pos \in Nat /\ y.data.lo \in Nat /\ y.data.hi \in Nat /\ y.pos <= y.data.hi - y.data.lo
      BY GoodInput
    <3> QED
      BY <1>1, <3>1 DEF Left, Width
  <2> QED
    BY <2>1 DEF Least
<1>4. PICK read : read = ReadBodyFile(s, k)
  OBVIOUS
<1>5. PICK d : d = [src |-> y.data.src, lo |-> y.data.lo + y.pos, hi |-> y.data.hi]
  OBVIOUS
<1>6. PICK g : g = Seek(s.f, s.e.input, Width(y.data))
  OBVIOUS
<1>7. read = Done(g, s.e, d) /\ Width(d) = k
  <2>1. /\ read = Done(Seek(s.f, s.e.input, y.pos + k), s.e, NextBytes(y, k))
        /\ y.pos + k = Width(y.data)
        /\ NextBytes(y, k) = [src |-> y.data.src, lo |-> y.data.lo + y.pos,
                              hi |-> y.data.lo + y.pos + k]
        /\ Width(NextBytes(y, k)) = k
        /\ y.data.lo + Width(y.data) = y.data.hi
        /\ y.pos \in Nat /\ y.data.lo \in Nat
    <3>1. PICK w : w = Least(k, Left(y))
      OBVIOUS
    <3>2. /\ read = Done(Seek(s.f, s.e.input, y.pos + w), s.e, NextBytes(y, w))
          /\ y.pos + Left(y) = Width(y.data)
          /\ NextBytes(y, w) = [src |-> y.data.src, lo |-> y.data.lo + y.pos,
                                hi |-> y.data.lo + y.pos + w]
          /\ Width(NextBytes(y, w)) = w
          /\ y.data.lo + Width(y.data) = y.data.hi
          /\ y.pos \in Nat /\ y.data.lo \in Nat
      BY <1>3, <1>4, <3>1, RawRead
    <3>3. w = k
      BY <1>1, <1>3, <3>1
    <3> QED
      BY <1>1, <3>2, <3>3
  <2>2. y.data.lo + y.pos + k = y.data.hi
    <3>1. PICK l \in Nat, at \in Nat : l = y.data.lo /\ at = y.pos
      BY ONLY <2>1
    <3>2. PICK w, hi : w = Width(y.data) /\ hi = y.data.hi
      OBVIOUS
    <3>3. at + k = w /\ l + w = hi
      BY ONLY <2>1, <3>1, <3>2
    <3>4. k \in Nat
      BY <1>3
    <3> QED
      BY ONLY <3>1, <3>2, <3>3, <3>4
  <2> QED
    BY <1>5, <1>6, <2>1, <2>2
<1>8. read.f = g /\ read.e = s.e /\ read.ok = TRUE /\ read.data = d
  BY <1>7 DEF Done
<1>9. Outcome(s, c, n) = StoreCopy(read, Join(c, d))
  <2>1. ~(Width(read.data) < k)
    BY <1>3, <1>7, <1>8
  <2> QED
    BY <1>2, <1>4, <1>8, <2>1 DEF Outcome
<1>10. StoreCopy(read, Join(c, d)) = StoreCopy(At(g, s.e), Join(c, d))
  BY <1>8, StoreState
<1> QED
  BY <1>5, <1>6, <1>9, <1>10

\* A turn of the loop brings it nearer to the same outcome.
LEMMA RawTurn ==
  ASSUME NEW p \in Nat \cup {None}, NEW s, Good(s, p), ~Limited(s.e),
         NEW c, GoodBytes(c), NEW n, Midway(s, c, n),
         NEW k \in Nat, s.e.clen # None => k <= n,
         NEW x, x = ReadBodyFile(s, k), Width(x.data) > 0,
         NEW rest, rest = IF s.e.clen = None THEN n ELSE n - Width(x.data)
  PROVE  /\ Midway(x, Join(c, x.data), rest)
         /\ Outcome(x, Join(c, x.data), rest) = Outcome(s, c, n)
<1>1. PICK i : i = s.e.input
  OBVIOUS
<1>2. PICK y : y = s.f[i]
  OBVIOUS
<1>3. PICK w : w = Least(k, Left(y))
  OBVIOUS
<1>4. Readable(s.e) /\ n \in Nat /\ s.f \in Seq(File) /\ i \in 1..Len(s.f)
  BY <1>1, GoodInput DEF Midway
<1>5. /\ x = Done(Seek(s.f, i, y.pos + w), s.e, NextBytes(y, w))
      /\ w \in Nat /\ Left(y) \in Nat /\ y.pos + Left(y) = Width(y.data)
      /\ w <= k /\ w <= Left(y)
      /\ NextBytes(y, w) = [src |-> y.data.src, lo |-> y.data.lo + y.pos,
                            hi |-> y.data.lo + y.pos + w]
      /\ GoodBytes(NextBytes(y, w)) /\ Width(NextBytes(y, w)) = w
      /\ y.pos \in Nat /\ y.data.lo \in Nat /\ y.data.hi \in Nat /\ y.data.src \in Sources
      /\ y.data.lo + Width(y.data) = y.data.hi
  <2>1. y = s.f[s.e.input] /\ k \in Nat /\ Good(s, p) /\ Readable(s.e) /\ ~Limited(s.e)
    BY <1>1, <1>2, <1>4
  <2> QED
    BY <1>1, <1>3, <2>1, RawRead
<1>6. PICK a : a = NextBytes(y, w)
  OBVIOUS
<1>7. PICK at : at = y.pos + w
  OBVIOUS
<1>8. x.f = Seek(s.f, i, at) /\ x.e = s.e /\ x.data = a
  BY <1>5, <1>6, <1>7 DEF Done
<1>9. /\ a.src = y.data.src /\ a.lo = y.data.lo + y.pos /\ a.hi = y.data.lo + at
      /\ GoodBytes(a) /\ Width(a) = w /\ w > 0 /\ at \in Nat /\ at <= Width(y.data)
      /\ y.data.lo + at <= y.data.hi
  BY <1>5, <1>6, <1>7, <1>8
<1>10. Moved(s.f, x.f, i, at)
  BY <1>4, <1>8, <1>9, SeekMoves
<1>11. PICK z : z = x.f[i]
  OBVIOUS
<1>12. z.pos = at /\ z.data = y.data /\ Left(z) = Left(y) - w
  <2>1. z.pos = at /\ z.data = y.data
    BY <1>2, <1>10, <1>11 DEF Moved
  <2>2. Left(z) = Width(y.data) - at
    BY <2>1 DEF Left
  <2> QED
    BY <1>5, <1>7, <2>1, <2>2
<1>13. PICK d : d = [src |-> y.data.src, lo |-> y.data.lo + y.pos, hi |-> y.data.hi]
  OBVIOUS
<1>14. PICK b : b = [src |-> y.data.src, lo |-> y.data.lo + at, hi |-> y.data.hi]
  OBVIOUS
<1>15. GoodBytes(b) /\ GoodBytes(d) /\ a.hi = b.lo /\ d = [src |-> a.src, lo |-> a.lo, hi |-> b.hi]
  <2>1. y.data.lo + at \in Nat /\ y.data.lo + y.pos \in Nat /\ y.data.lo + y.pos <= y.data.hi
    BY <1>5, <1>7, <1>9
  <2> QED
    BY <1>5, <1>9, <1>13, <1>14, <2>1 DEF GoodBytes, Slice
<1>16. Offset(s) = y.data.lo + y.pos /\ Offset(x) = y.data.lo + at
  BY <1>1, <1>2, <1>8, <1>11, <1>12 DEF Offset, Limited
<1>17. Width(c) > 0 => c.hi = a.lo
  BY <1>9, <1>16 DEF Midway
<1>18. /\ Join(Join(c, a), b) = Join(c, d)
       /\ GoodBytes(Join(c, a)) /\ Join(c, a).hi = a.hi /\ Width(Join(c, a)) > 0
  BY <1>9, <1>15, <1>17, JoinPieces
<1>19. (s.e.clen # None /\ s.e.seekable) => n = Left(y)
  BY <1>1, <1>2 DEF Midway
<1>20. s.e.clen # None => (s.e.seekable /\ n = Left(y) /\ rest = Left(z))
  BY <1>8, <1>9, <1>12, <1>19 DEF Limited
<1>21. rest \in Nat
  BY <1>4, <1>5, <1>12, <1>20, SMTT(30)
<1>22. Midway(x, Join(c, a), rest)
  <2>1. s.e.clen = None => rest > 0
    BY DEF Midway
  <2> QED
    BY <1>1, <1>4, <1>8, <1>9, <1>11, <1>16, <1>18, <1>20, <1>21, <2>1 DEF Midway, Limited
<1>23. Good(x, p)
  BY ReadBodyFileKeeps DEF Keeps
<1>24. Outcome(x, Join(c, a), rest)
         = StoreCopy(At(Seek(x.f, i, Width(y.data)), s.e), Join(Join(c, a), b))
  <2>1. Readable(x.e) /\ ~Limited(x.e) /\ x.e.input = i /\ z = x.f[x.e.input]
    BY <1>1, <1>4, <1>8, <1>11
  <2>2. s.e.clen # None => rest = Left(z)
    BY <1>20
  <2> QED
    BY <1>8, <1>12, <1>14, <1>23, <2>1, <2>2, RawOutcome
<1>25. Seek(x.f, i, Width(y.data)) = Seek(s.f, i, Width(y.data))
  <2>1. Width(y.data) \in Nat
    BY <1>5
  <2> QED
    BY <1>4, <1>8, <1>9, <2>1, SeekAgain
<1>26. Outcome(s, c, n) = StoreCopy(At(Seek(s.f, i, Width(y.data)), s.e), Join(c, d))
  <2>1. s.e.clen # None => n = Left(y)
    BY <1>20
  <2> QED
    BY <1>1, <1>2, <1>4, <1>13, <2>1, RawOutcome
<1> QED
  BY <1>8, <1>18, <1>22, <1>24, <1>25, <1>26

\* Where the loop meets the end of such an input.
LEMMA RawEnd ==
  ASSUME NEW p \in Nat \cup {None}, NEW s, Good(s, p), ~Limited(s.e),
         NEW c, GoodBytes(c), NEW n, Midway(s, c, n),
         NEW k \in Nat, k > 0 \/ Left(s.f[s.e.input]) = 0, NEW x, x = ReadBodyFile(s, k)
  PROVE  /\ x.ok /\ GoodBytes(x.data)
         /\ (s.e.clen # None /\ k > 0 /\ n > 0) => Width(x.data) > 0
         /\ (s.e.clen = None /\ ~(Width(x.data) > 0)) =>
              /\ Outcome(s, c, n) = StoreCopy(x, Join(c, x.data))
              /\ Width(x.data) = 0 /\ (Width(c) > 0 => Join(c, x.data) = c)
         /\ (s.e.clen # None /\ n = 0) => Outcome(s, c, n) = StoreCopy(s, c)
<1>1. PICK i : i = s.e.input
  OBVIOUS
<1>2. PICK y : y = s.f[i]
  OBVIOUS
<1>3. PICK w : w = Least(k, Left(y))
  OBVIOUS
<1>4. Readable(s.e) /\ n \in Nat /\ s.f \in Seq(File) /\ i \in 1..Len(s.f)
  BY <1>1, GoodInput DEF Midway
<1>5. /\ x = Done(Seek(s.f, i, y.pos + w), s.e, NextBytes(y, w))
      /\ w \in Nat /\ Left(y) \in Nat /\ y.pos + Left(y) = Width(y.data)
      /\ w = k \/ w = Left(y)
      /\ NextBytes(y, w) = [src |-> y.data.src, lo |-> y.data.lo + y.pos,
                            hi |-> y.data.lo + y.pos + w]
      /\ GoodBytes(NextBytes(y, w)) /\ Width(NextBytes(y, w)) = w
      /\ y.pos \in Nat /\ y.data.lo \in Nat /\ y.data.hi \in Nat /\ y.data.src \in Sources
      /\ y.data.lo + Width(y.data) = y.data.hi
  <2>1. y = s.f[s.e.input] /\ k \in Nat /\ Good(s, p) /\ Readable(s.e) /\ ~Limited(s.e)
    BY <1>1, <1>2, <1>4
  <2> QED
    BY <1>1, <1>3, <2>1, RawRead
<1>6. /\ x.f = Seek(s.f, i, y.pos + w) /\ x.e = s.e /\ x.ok = TRUE /\ x.data = NextBytes(y, w)
  BY <1>5 DEF Done
<1>7. (s.e.clen # None /\ s.e.seekable) => n = Left(y)
  BY <1>1, <1>2 DEF Midway
<1>8. s.e.clen # None => n = Left(y)
  BY <1>7 DEF Limited
<1>9. PICK d : d = [src |-> y.data.src, lo |-> y.data.lo + y.pos, hi |-> y.data.hi]
  OBVIOUS
<1>10. Outcome(s, c, n) = StoreCopy(At(Seek(s.f, i, Width(y.data)), s.e), Join(c, d))
  BY <1>1, <1>2, <1>4, <1>8, <1>9, RawOutcome
<1>11. Width(c) > 0 => c.hi = y.data.lo + y.pos
  BY <1>1, <1>2 DEF Midway, Offset, Limited
<1>12. ASSUME Left(y) = 0
       PROVE  /\ d = [src |-> y.data.src, lo |-> y.data.lo + y.pos, hi |-> y.data.lo + y.pos]
              /\ Width(y.data) = y.pos
              /\ Width(c) > 0 => Join(c, d) = c
  <2>1. Width(y.data) = y.pos /\ y.data.hi = y.data.lo + y.pos
    BY <1>5, <1>12
  <2>2. d.hi = y.data.lo + y.pos
    BY <1>9, <2>1
  <2>3. ASSUME Width(c) > 0 PROVE Join(c, d) = c
    <3>1. c \in Slice /\ c.hi = d.hi /\ Width(c) # 0
      BY <1>11, <2>2, <2>3 DEF GoodBytes
    <3>2. [c EXCEPT !.hi = c.hi] = c
      BY <3>1 DEF Slice
    <3> QED
      BY <3>1, <3>2 DEF Join
  <2> QED
    BY <1>9, <2>1, <2>3
<1>13. ASSUME s.e.clen = None, ~(Width(x.data) > 0)
       PROVE  /\ Outcome(s, c, n) = StoreCopy(x, Join(c, x.data))
              /\ Width(x.data) = 0 /\ (Width(c) > 0 => Join(c, x.data) = c)
  <2>1. w = 0 /\ Left(y) = 0 /\ Width(x.data) = 0
    <3>1. Width(x.data) = w /\ ~(w > 0) /\ w \in Nat
      BY <1>5, <1>6, <1>13
    <3>2. k > 0 \/ Left(y) = 0
      BY <1>1, <1>2
    <3>3. w = 0
      BY <3>1
    <3> QED
      BY <1>5, <3>1, <3>2, <3>3
  <2>2. y.data.lo + y.pos + w = y.data.lo + y.pos /\ y.pos + w = y.pos
    BY <1>5, <2>1
  <2>3. x.data = d /\ x.f = Seek(s.f, i, Width(y.data))
    BY <1>5, <1>6, <1>12, <2>1, <2>2
  <2>4. StoreCopy(x, Join(c, d)) = StoreCopy(At(Seek(s.f, i, Width(y.data)), s.e), Join(c, d))
    BY <1>6, <2>3, StoreState
  <2> QED
    BY <1>10, <1>12, <2>1, <2>3, <2>4
<1>14. ASSUME s.e.clen # None, n = 0
       PROVE  Outcome(s, c, n) = StoreCopy(s, c)
  <2>1. Left(y) = 0 /\ Width(c) > 0
    BY <1>8, <1>14 DEF Midway
  <2>2. Seek(s.f, i, y.pos) = s.f
    BY <1>2, <1>4, <1>5, SeekAgain
  <2>3. Outcome(s, c, n) = StoreCopy(At(s.f, s.e), c)
    BY <1>10, <1>12, <2>1, <2>2
  <2>4. StoreCopy(s, c) = StoreCopy(At(s.f, s.e), c)
    BY StoreState
  <2> QED
    BY <2>3, <2>4
<1>15. (s.e.clen # None /\ k > 0 /\ n > 0) => Width(x.data) > 0
  BY <1>5, <1>6, <1>8
<1> QED
  BY <1>5, <1>6, <1>13, <1>14, <1>15

---------------------------------------------------------------------------
(* Reading the wire through the limited reader.                            *)

\* The environ when the reader of p bytes stands at `at' and has the bytes
\* from a on read ahead, and when it met the end there.
Over(e, p, at, a) ==
  [e EXCEPT !.wrap = [raw |-> e.input, remaining |-> p - at,
                      ahead |-> [src |-> Wire, lo |-> a, hi |-> at]]]
Lost(e, p, at) ==
  [e EXCEPT !.wrap = [raw |-> e.input, remaining |-> p - at, ahead |-> Empty]]

LEMMA WrapperSet ==
  ASSUME NEW w \in Wrapper, NEW h \in Nat, NEW v \in Slice
  PROVE  [w EXCEPT !.remaining = h, !.ahead = v] = [raw |-> w.raw, remaining |-> h, ahead |-> v]
<1> DEFINE z == [w EXCEPT !.remaining = h, !.ahead = v]
<1>1. z \in Wrapper /\ z.raw = w.raw /\ z.remaining = h /\ z.ahead = v
  BY DEF Wrapper
<1> HIDE DEF z
<1>2. z = [raw |-> z.raw, remaining |-> z.remaining, ahead |-> z.ahead]
  BY <1>1 DEF Wrapper
<1> QED
  BY <1>1, <1>2 DEF z

\* How the reader stands.
LEMMA LimitedState ==
  ASSUME NEW p \in Nat \cup {None}, NEW s, Good(s, p), Limited(s.e)
  PROVE  LET y == s.f[s.e.input]
             w == WrapperOf(s.e)
         IN  /\ s.e.clen = p /\ p \in Nat
             /\ y.data.src = Wire /\ y.data.lo = 0 /\ Width(y.data) = y.data.hi
             /\ y.pos \in Nat /\ y.data.hi \in Nat /\ y.pos <= p /\ y.pos <= y.data.hi
             /\ w \in Wrapper /\ w.raw = s.e.input /\ w.remaining = p - y.pos
             /\ Offset(s) \in Nat /\ Width(w.ahead) \in Nat
             /\ Offset(s) + Width(w.ahead) = y.pos
             /\ Offset(s) = IF Width(w.ahead) = 0 THEN y.data.lo + y.pos ELSE w.ahead.lo
<1> DEFINE y == s.f[s.e.input]
           w == WrapperOf(s.e)
<1>1. /\ y.pos \in Nat /\ y.data.hi \in Nat /\ y.pos <= y.data.hi - y.data.lo
  BY GoodInput
<1>2. /\ s.e.clen = p /\ p \in Nat
      /\ y.data.src = Wire /\ y.data.lo = 0 /\ y.pos <= p
  BY WireInput DEF Limited
<1>3. /\ w \in Wrapper /\ w.raw = s.e.input /\ w.remaining + y.pos = p
      /\ w.ahead.lo <= w.ahead.hi /\ GoodWrapper(w, y)
  BY WrapperOfGood DEF Limited
<1>4. Offset(s) = IF Width(w.ahead) > 0 THEN w.ahead.lo ELSE y.data.lo + y.pos
  BY DEF Offset, Limited
<1> HIDE DEF y, w
<1>5. w.remaining \in Nat /\ w.ahead.lo \in Nat /\ w.ahead.hi \in Nat /\ Width(w.ahead) \in Nat
  BY <1>3 DEF Wrapper, Slice, Width
<1>6. Width(w.ahead) > 0 => w.ahead.hi = y.pos
  BY <1>1, <1>2, <1>3 DEF GoodWrapper
<1>7. Offset(s) \in Nat /\ Offset(s) + Width(w.ahead) = y.pos
  BY <1>1, <1>2, <1>4, <1>5, <1>6 DEF Width
<1>8. Width(y.data) = y.data.hi /\ w.remaining = p - y.pos
  BY <1>1, <1>2, <1>3, <1>5 DEF Width
<1> QED
  BY <1>1, <1>2, <1>3, <1>4, <1>5, <1>7, <1>8 DEF y, w

\* What one read of it returns: the bytes from where it stands, fewer than k
\* only at the end of the announced length.
Limits(s, x, k, p, at, m) ==
  /\ at \in Nat /\ s.f[s.e.input].pos <= at
  /\ at <= p /\ at <= Width(s.f[s.e.input].data)
  /\ x.f = Seek(s.f, s.e.input, at)
  /\ \/ /\ ~x.ok /\ x.data = Empty /\ x.e = Lost(s.e, p, at)
        /\ at = Width(s.f[s.e.input].data) /\ at < p
     \/ /\ x.ok /\ x.e = Over(s.e, p, at, Offset(s) + m)
        /\ m \in Nat /\ m <= k /\ Offset(s) + m <= at
        /\ x.data = [src |-> Wire, lo |-> Offset(s), hi |-> Offset(s) + m]
        /\ (m < k \/ p <= Offset(s) + k) => at = p /\ Offset(s) + m = p

LEMMA LimitedRead ==
  ASSUME NEW p \in Nat \cup {None}, NEW s, Good(s, p), Readable(s.e), Limited(s.e),
         NEW k \in Nat
  PROVE  \E at, m : Limits(s, ReadBodyFile(s, k), k, p, at, m)
<1> DEFINE i    == s.e.input
           y    == s.f[i]
           w    == WrapperOf(s.e)
           have == Width(w.ahead)
           ask  == IF k <= have THEN 0 ELSE Wanted(k - have, w.remaining)
           got  == Least(ask, Left(y))
           m    == Least(k, have + got)
           lo   == IF have = 0 THEN y.data.lo + y.pos ELSE w.ahead.lo
           g    == Seek(s.f, i, y.pos + got)
           held(l, h) == [w EXCEPT !.remaining = @ - got,
                                   !.ahead = [src |-> y.data.src, lo |-> l, hi |-> h]]
           x    == ReadBodyFile(s, k)
<1>1. /\ s.e.clen = p /\ p \in Nat
      /\ y.data.src = Wire /\ y.data.lo = 0 /\ Width(y.data) = y.data.hi
      /\ y.pos \in Nat /\ y.data.hi \in Nat /\ y.pos <= p /\ y.pos <= y.data.hi
      /\ w \in Wrapper /\ w.raw = i /\ w.remaining = p - y.pos
      /\ Offset(s) \in Nat /\ have \in Nat
      /\ Offset(s) + have = y.pos
      /\ Offset(s) = lo
  BY LimitedState
<1>2. x = IF got < ask
          THEN Fail(g, [s.e EXCEPT !.wrap = held(0, 0)])
          ELSE Done(g, [s.e EXCEPT !.wrap = held(lo + m, lo + have + got)],
                    [src |-> y.data.src, lo |-> lo, hi |-> lo + m])
  <2>1. x = ReadWrapped(s, k)
    BY DEF ReadBodyFile, Limited
  <2> HIDE DEF x
  <2> QED
    BY <2>1 DEF ReadWrapped
<1> HIDE DEF y, w, x, have, lo
<1>3. Left(y) \in Nat /\ y.pos + Left(y) = Width(y.data)
  BY <1>1 DEF Left
<1>4. /\ ask \in Nat /\ ask <= w.remaining
      /\ k > have => (ask = w.remaining \/ k - have <= ask)
      /\ (k > have /\ w.remaining <= k - have) => ask = w.remaining
      /\ ~(k > have) => ask = 0
  <2>1. w.remaining \in Nat
    BY <1>1 DEF Wrapper
  <2>2. CASE k <= have
    BY <1>1, <2>1, <2>2
  <2>3. CASE ~(k <= have)
    <3>1. k - have \in Nat /\ ask = Wanted(k - have, w.remaining)
      BY <1>1, <2>3
    <3> HIDE DEF ask
    <3>2. ask \in Nat /\ ask <= w.remaining
      BY <2>1, <3>1, WantedBound
    <3>3. ask = w.remaining \/ k - have <= ask
      BY <2>1, <3>1, WantedCovers
    <3>4. w.remaining <= k - have => ask = w.remaining
      BY <2>1, <3>1, WantedCovers
    <3> QED
      BY <1>1, <2>3, <3>2, <3>3, <3>4
  <2> QED
    BY <2>2, <2>3
<1> HIDE DEF ask
<1>5. got \in Nat /\ got <= ask /\ got <= Left(y) /\ (got = ask \/ got = Left(y))
  BY <1>3, <1>4, LeastBound
<1> HIDE DEF got
<1>6. m \in Nat /\ m <= k /\ m <= have + got /\ (m = k \/ m = have + got)
  <2>1. have + got \in Nat
    BY <1>1, <1>5
  <2> QED
    BY <2>1, LeastBound
<1> HIDE DEF m
<1>7. PICK at : at = y.pos + got
  OBVIOUS
<1>8. PICK h : h = w.remaining - got
  OBVIOUS
<1>9. /\ at \in Nat /\ y.pos <= at /\ at <= p /\ at <= Width(y.data)
       /\ h \in Nat /\ h = p - at /\ lo + have + got = at /\ lo + m \in Nat /\ lo + m <= at
  BY <1>1, <1>3, <1>4, <1>5, <1>6, <1>7, <1>8
<1>10. ASSUME NEW a \in Nat, NEW b \in Nat
       PROVE  held(a, b) = [raw |-> i, remaining |-> p - at,
                            ahead |-> [src |-> Wire, lo |-> a, hi |-> b]]
  <2>1. PICK v : v = [src |-> Wire, lo |-> a, hi |-> b]
    OBVIOUS
  <2>2. v \in Slice
    BY <2>1 DEF Slice, Sources
  <2>3. held(a, b) = [w EXCEPT !.remaining = h, !.ahead = v]
    BY <1>1, <1>8, <2>1
  <2>4. h \in Nat
    BY <1>9
  <2>5. [w EXCEPT !.remaining = h, !.ahead = v] = [raw |-> w.raw, remaining |-> h, ahead |-> v]
    BY <1>1, <2>2, <2>4, WrapperSet
  <2> QED
    BY <1>1, <1>9, <2>1, <2>3, <2>5
<1> HIDE DEF held
<1>11. CASE got < ask
  <2>1. held(0, 0) = [raw |-> i, remaining |-> p - at, ahead |-> Empty]
    BY <1>10 DEF Empty
  <2>2. x.f = Seek(s.f, i, at) /\ x.e = Lost(s.e, p, at) /\ x.ok = FALSE /\ x.data = Empty
    BY <1>2, <1>7, <1>11, <2>1 DEF Fail, Lost
  <2>3. at = Width(y.data) /\ at < p
    BY <1>1, <1>3, <1>4, <1>5, <1>7, <1>11
  <2>4. Limits(s, x, k, p, at, 0)
    BY <1>9, <2>2, <2>3 DEF Limits, y
  <2> QED
    BY <2>4 DEF x
<1>12. CASE ~(got < ask)
  <2>1. held(lo + m, lo + have + got)
          = [raw |-> i, remaining |-> p - at, ahead |-> [src |-> Wire, lo |-> lo + m, hi |-> at]]
    BY <1>9, <1>10
  <2>2. /\ x.f = Seek(s.f, i, at) /\ x.e = Over(s.e, p, at, lo + m) /\ x.ok = TRUE
        /\ x.data = [src |-> Wire, lo |-> lo, hi |-> lo + m]
    BY <1>1, <1>2, <1>7, <1>12, <2>1 DEF Done, Over
  <2>3. got = ask
    BY <1>4, <1>5, <1>12
  <2>4. ASSUME m < k PROVE at = p /\ lo + m = p
    <3>1. m = have + got /\ k > have
      BY <1>1, <1>5, <1>6, <2>4
    <3>2. ask = w.remaining
      BY <1>1, <1>4, <1>5, <2>3, <2>4, <3>1
    <3> QED
      BY <1>1, <1>7, <1>9, <2>3, <3>1, <3>2
  <2>5. ASSUME p <= lo + k PROVE at = p /\ lo + m = p
    <3>1. w.remaining <= k - have /\ w.remaining \in Nat
      BY <1>1, <2>5
    <3>2. ask = w.remaining
      <4>1. CASE k > have
        BY <1>4, <3>1, <4>1
      <4>2. CASE ~(k > have)
        BY <1>1, <1>4, <3>1, <4>2
      <4> QED
        BY <4>1, <4>2
    <3>3. at = p
      BY <1>1, <1>7, <2>3, <3>2
    <3>4. m = have + got
      BY <1>1, <1>5, <1>6, <2>3, <3>1, <3>2
    <3> QED
      BY <1>1, <1>5, <1>9, <3>3, <3>4
  <2>6. Limits(s, x, k, p, at, m)
    BY <1>1, <1>6, <1>9, <2>2, <2>4, <2>5 DEF Limits, y
  <2> QED
    BY <2>6 DEF x
<1> QED
  BY <1>11, <1>12

\* The outcome depends on where the wire ends, and on what is missing.
LimitedEnd(f, e, p, hi, c, lo, n) ==
  IF hi < p THEN Fail(Seek(f, e.input, hi), Lost(e, p, hi))
  ELSE IF p < lo + n THEN Fail(Seek(f, e.input, p), Over(e, p, p, p))
  ELSE StoreCopy(At(Seek(f, e.input, p), Over(e, p, p, p)),
                 Join(c, [src |-> Wire, lo |-> lo, hi |-> p]))

LEMMA LimitedOutcome ==
  ASSUME NEW p \in Nat \cup {None}, NEW s, Good(s, p), Readable(s.e), Limited(s.e),
         NEW n \in Nat, p <= Offset(s) + n, NEW c
  PROVE  Outcome(s, c, n)
           = LimitedEnd(s.f, s.e, p, Width(s.f[s.e.input].data), c, Offset(s), n)
<1>1. PICK hi : hi = Width(s.f[s.e.input].data)
  OBVIOUS
<1>2. PICK lo : lo = Offset(s)
  OBVIOUS
<1>3. PICK read : read = ReadBodyFile(s, n)
  OBVIOUS
<1>4. PICK at, m : Limits(s, read, n, p, at, m)
  BY <1>3, LimitedRead
<1>5. p \in Nat /\ hi \in Nat /\ lo \in Nat
  BY <1>1, <1>2, LimitedState
<1>6. Outcome(s, c, n) = IF ~read.ok \/ Width(read.data) < n THEN Fail(read.f, read.e)
                         ELSE StoreCopy(read, Join(c, read.data))
  BY <1>3 DEF Outcome, Pending, Limited
<1>7. CASE ~read.ok
  BY <1>1, <1>4, <1>5, <1>6, <1>7 DEF Limits, LimitedEnd
<1>8. CASE read.ok
  <2>1. /\ at = p /\ lo + m = p /\ m \in Nat /\ p <= hi
        /\ read.f = Seek(s.f, s.e.input, p) /\ read.e = Over(s.e, p, p, p)
        /\ read.data = [src |-> Wire, lo |-> lo, hi |-> p]
    BY <1>1, <1>2, <1>4, <1>8 DEF Limits
  <2>2. Width(read.data) = m
    BY <1>5, <2>1 DEF Width
  <2>3. ~(hi < p) /\ (m < n <=> p < lo + n)
    BY <1>5, <2>1
  <2>4. StoreCopy(read, Join(c, read.data))
          = StoreCopy(At(Seek(s.f, s.e.input, p), Over(s.e, p, p, p)), Join(c, read.data))
    BY <2>1, StoreState
  <2> QED
    BY <1>1, <1>2, <1>6, <1>8, <2>1, <2>2, <2>3, <2>4 DEF LimitedEnd
<1> QED
  BY <1>7, <1>8

\* A reader that is moved is moved from wherever it stood.
LEMMA OverAgain ==
  ASSUME NEW e \in Environ, NEW p \in Nat, NEW at \in Nat, at <= p, NEW a \in Nat,
         NEW z, z = Over(e, p, at, a)
  PROVE  /\ z \in Environ /\ z.input = e.input /\ z.clen = e.clen /\ z.seekable = e.seekable
         /\ z.terminated = e.terminated
         /\ z.wrap = [raw |-> e.input, remaining |-> p - at,
                      ahead |-> [src |-> Wire, lo |-> a, hi |-> at]]
         /\ Over(z, p, p, p) = Over(e, p, p, p)
         /\ \A b : Lost(z, p, b) = Lost(e, p, b)
<1>1. PICK v : v = [raw |-> e.input, remaining |-> p - at,
                    ahead |-> [src |-> Wire, lo |-> a, hi |-> at]]
  OBVIOUS
<1>2. v \in Wrapper
  <2>1. p - at \in Nat /\ [src |-> Wire, lo |-> a, hi |-> at] \in Slice /\ e.input \in Nat
    BY DEF Slice, Sources, Environ
  <2> QED
    BY <1>1, <2>1 DEF Wrapper
<1>3. z = [e EXCEPT !.wrap = v]
  BY <1>1 DEF Over
<1>4. /\ z \in Environ /\ z.input = e.input /\ z.clen = e.clen /\ z.seekable = e.seekable
      /\ z.terminated = e.terminated /\ z.wrap = v
  BY <1>2, <1>3 DEF Environ
<1>5. \A u : [z EXCEPT !.wrap = u] = [e EXCEPT !.wrap = u]
  BY <1>3 DEF Environ
<1> QED
  BY <1>1, <1>4, <1>5 DEF Over, Lost

\* A turn of the loop brings it nearer to the same outcome.
LEMMA LimitedTurn ==
  ASSUME NEW p \in Nat \cup {None}, NEW s, Good(s, p), Limited(s.e),
         NEW c, GoodBytes(c), NEW n, Midway(s, c, n),
         NEW k \in Nat, k <= n,
         NEW x, x = ReadBodyFile(s, k), x.ok, Width(x.data) > 0,
         NEW rest, rest = n - Width(x.data)
  PROVE  /\ Midway(x, Join(c, x.data), rest)
         /\ Outcome(x, Join(c, x.data), rest) = Outcome(s, c, n)
<1>1. PICK i : i = s.e.input
  OBVIOUS
<1>2. PICK y : y = s.f[i]
  OBVIOUS
<1>3. PICK lo : lo = Offset(s)
  OBVIOUS
<1>4. Readable(s.e) /\ n \in Nat /\ s.f \in Seq(File) /\ i \in 1..Len(s.f) /\ s.e \in Environ
  BY <1>1, GoodInput DEF Midway
<1>5. /\ s.e.clen = p /\ p \in Nat /\ lo \in Nat /\ Width(y.data) \in Nat /\ p <= lo + n
  BY <1>1, <1>2, <1>3, LimitedState DEF Midway
<1>6. PICK at, m : Limits(s, x, k, p, at, m)
  BY <1>4, LimitedRead
<1>7. /\ at \in Nat /\ at <= p /\ at <= Width(y.data) /\ m \in Nat /\ m <= k /\ lo + m <= at
      /\ x.f = Seek(s.f, i, at) /\ x.e = Over(s.e, p, at, lo + m)
      /\ x.data = [src |-> Wire, lo |-> lo, hi |-> lo + m]
  BY <1>1, <1>2, <1>3, <1>6 DEF Limits
<1>8. Width(x.data) = m /\ m > 0 /\ lo + m \in Nat
  BY <1>5, <1>7 DEF Width
<1>9. /\ x.e \in Environ /\ x.e.input = i /\ x.e.clen = s.e.clen /\ x.e.seekable = s.e.seekable
      /\ x.e.terminated = s.e.terminated
      /\ x.e.wrap = [raw |-> i, remaining |-> p - at,
                     ahead |-> [src |-> Wire, lo |-> lo + m, hi |-> at]]
      /\ Over(x.e, p, p, p) = Over(s.e, p, p, p) /\ \A b : Lost(x.e, p, b) = Lost(s.e, p, b)
  <2>1. PICK e : e = s.e
    OBVIOUS
  <2>2. PICK z : z = x.e
    OBVIOUS
  <2>3. PICK h : h = lo + m
    OBVIOUS
  <2>4. e \in Environ /\ h \in Nat /\ z = Over(e, p, at, h)
    BY <1>4, <1>7, <1>8, <2>1, <2>2, <2>3
  <2>5. /\ z \in Environ /\ z.input = e.input /\ z.clen = e.clen /\ z.seekable = e.seekable
        /\ z.terminated = e.terminated
        /\ z.wrap = [raw |-> e.input, remaining |-> p - at,
                     ahead |-> [src |-> Wire, lo |-> h, hi |-> at]]
        /\ Over(z, p, p, p) = Over(e, p, p, p)
        /\ \A b : Lost(z, p, b) = Lost(e, p, b)
    BY <1>5, <1>7, <2>4, OverAgain
  <2> QED
    BY <1>1, <2>1, <2>2, <2>3, <2>5
<1>10. Readable(x.e) /\ Limited(x.e)
  BY <1>4, <1>9 DEF Readable, Limited
<1>11. Good(x, p) /\ Offset(x) = lo + m
  <2>1. Keeps(s, x, p) /\ Follows(s, x)
    BY ReadBodyFileKeeps
  <2> QED
    BY <1>7, <2>1 DEF Keeps, Follows
<1>12. Moved(s.f, x.f, i, at)
  BY <1>4, <1>7, SeekMoves
<1>13. x.f[i].pos = at /\ Width(x.f[i].data) = Width(y.data)
  BY <1>2, <1>12 DEF Moved
<1>14. rest \in Nat /\ rest = n - m /\ p <= (lo + m) + rest /\ (p < lo + n <=> p < (lo + m) + rest)
  BY <1>4, <1>5, <1>7, <1>8
<1>15. PICK a : a = x.data
  OBVIOUS
<1>16. PICK b : b = [src |-> Wire, lo |-> lo + m, hi |-> p]
  OBVIOUS
<1>17. PICK d : d = [src |-> Wire, lo |-> lo, hi |-> p]
  OBVIOUS
<1>18. /\ GoodBytes(a) /\ GoodBytes(b) /\ GoodBytes(d) /\ Width(a) > 0 /\ a.hi = b.lo
       /\ d = [src |-> a.src, lo |-> a.lo, hi |-> b.hi] /\ a.lo = lo /\ a.hi = lo + m
  BY <1>5, <1>7, <1>8, <1>15, <1>16, <1>17 DEF GoodBytes, Slice, Sources
<1>19. Width(c) > 0 => c.hi = a.lo
  BY <1>3, <1>18 DEF Midway
<1>20. /\ Join(Join(c, a), b) = Join(c, d)
       /\ GoodBytes(Join(c, a)) /\ Join(c, a).hi = lo + m /\ Width(Join(c, a)) > 0
  <2>1. GoodBytes(a) /\ GoodBytes(b) /\ GoodBytes(c) /\ Width(a) > 0 /\ a.hi = b.lo
    BY <1>18
  <2>2. /\ Join(Join(c, a), b) = Join(c, [src |-> a.src, lo |-> a.lo, hi |-> b.hi])
        /\ GoodBytes(Join(c, a)) /\ Join(c, a).hi = a.hi /\ Width(Join(c, a)) > 0
    BY ONLY <1>19, <2>1, JoinPieces
  <2> QED
    BY <1>18, <2>2
<1>21. Midway(x, Join(c, a), rest)
  <2>1. /\ x.e.wrap.raw = x.e.input /\ x.e.wrap.ahead.src = Wire
        /\ x.e.wrap.ahead.hi = x.f[x.e.input].pos
    BY <1>9, <1>13
  <2>2. x.e.clen <= Offset(x) + rest /\ x.e.clen # None
    BY <1>5, <1>9, <1>10, <1>11, <1>14 DEF Limited
  <2>3. ~x.e.seekable
    BY <1>10 DEF Limited
  <2> QED
    BY <1>10, <1>11, <1>14, <1>20, <2>1, <2>2, <2>3 DEF Midway
<1>22. Outcome(x, Join(c, a), rest)
         = LimitedEnd(x.f, x.e, p, Width(y.data), Join(c, a), lo + m, rest)
  BY <1>9, <1>10, <1>11, <1>13, <1>14, LimitedOutcome
<1>23. Outcome(s, c, n) = LimitedEnd(s.f, s.e, p, Width(y.data), c, lo, n)
  BY <1>1, <1>2, <1>3, <1>4, <1>5, LimitedOutcome
<1>24. \A h \in Nat : Seek(x.f, i, h) = Seek(s.f, i, h)
  BY <1>4, <1>7, SeekAgain
<1>25. LimitedEnd(x.f, x.e, p, Width(y.data), Join(c, a), lo + m, rest)
         = LimitedEnd(s.f, s.e, p, Width(y.data), c, lo, n)
  BY <1>1, <1>5, <1>9, <1>14, <1>16, <1>17, <1>20, <1>24 DEF LimitedEnd
<1> QED
  BY <1>15, <1>21, <1>22, <1>23, <1>25

\* Where the loop meets the end of the announced length, or of the wire.
LEMMA LimitedStop ==
  ASSUME NEW p \in Nat \cup {None}, NEW s, Good(s, p), Limited(s.e),
         NEW c, NEW n, Midway(s, c, n),
         NEW k \in Nat, k > 0, k <= n,
         NEW x, x = ReadBodyFile(s, k), ~x.ok \/ Width(x.data) = 0
  PROVE  Outcome(s, c, n) = Fail(x.f, x.e)
<1>1. PICK hi : hi = Width(s.f[s.e.input].data)
  OBVIOUS
<1>2. PICK lo : lo = Offset(s)
  OBVIOUS
<1>3. Readable(s.e) /\ n \in Nat
  BY DEF Midway
<1>4. s.e.clen = p /\ p \in Nat /\ lo \in Nat /\ hi \in Nat /\ p <= lo + n
  BY <1>1, <1>2, LimitedState DEF Midway
<1>5. PICK at, m : Limits(s, x, k, p, at, m)
  BY <1>3, LimitedRead
<1>6. Outcome(s, c, n) = LimitedEnd(s.f, s.e, p, hi, c, lo, n)
  BY <1>1, <1>2, <1>3, <1>4, LimitedOutcome
<1>7. CASE ~x.ok
  BY <1>1, <1>5, <1>6, <1>7 DEF Limits, LimitedEnd
<1>8. CASE x.ok
  <2>1. Width(x.data) = 0 /\ m \in Nat /\ x.data = [src |-> Wire, lo |-> lo, hi |-> lo + m]
    BY <1>2, <1>5, <1>8 DEF Limits
  <2>2. m = 0
    BY <1>4, <2>1 DEF Width
  <2>3. /\ at = p /\ lo + m = p /\ p <= hi
        /\ x.f = Seek(s.f, s.e.input, p) /\ x.e = Over(s.e, p, p, p)
    BY <1>1, <1>2, <1>5, <1>8, <2>2 DEF Limits
  <2>4. ~(hi < p) /\ p < lo + n
    BY <1>3, <1>4, <2>2, <2>3
  <2> QED
    BY <1>6, <2>3, <2>4 DEF LimitedEnd
<1> QED
  BY <1>7, <1>8

\* When nothing is left to do the reader is at the end as well.
LEMMA LimitedFinish ==
  ASSUME NEW p \in Nat \cup {None}, NEW s, Good(s, p), Limited(s.e),
         NEW c, GoodBytes(c), Midway(s, c, 0)
  PROVE  Outcome(s, c, 0) = StoreCopy(s, c)
<1>1. PICK i : i = s.e.input
  OBVIOUS
<1>2. PICK y : y = s.f[i]
  OBVIOUS
<1>3. PICK w : w = WrapperOf(s.e)
  OBVIOUS
<1>4. Readable(s.e) /\ s.f \in Seq(File) /\ i \in 1..Len(s.f) /\ s.e \in Environ
  BY <1>1, GoodInput DEF Midway
<1>5. /\ s.e.clen = p /\ p \in Nat
      /\ y.data.src = Wire /\ y.data.lo = 0 /\ Width(y.data) = y.data.hi
      /\ y.pos \in Nat /\ y.data.hi \in Nat /\ y.pos <= p /\ y.pos <= y.data.hi
      /\ w \in Wrapper /\ w.raw = i /\ w.remaining = p - y.pos
      /\ Offset(s) \in Nat /\ Width(w.ahead) \in Nat
      /\ Offset(s) + Width(w.ahead) = y.pos
  BY <1>1, <1>2, <1>3, LimitedState
<1>6. p <= Offset(s) /\ Width(c) > 0 /\ c.hi = Offset(s)
  <2>1. p <= Offset(s) + 0 /\ Width(c) > 0
    BY <1>5 DEF Midway, Limited
  <2> QED
    BY <1>5, <2>1 DEF Midway
<1>7. Offset(s) = p /\ y.pos = p /\ Width(w.ahead) = 0 /\ w.remaining = 0
  BY <1>5, <1>6
<1>8. s.e.wrap.raw = i /\ s.e.wrap.ahead.src = Wire /\ s.e.wrap.ahead.hi = p
  BY <1>1, <1>2, <1>6, <1>7 DEF Midway
<1>9. w = s.e.wrap
  BY <1>1, <1>3, <1>8 DEF WrapperOf
<1>10. w = [raw |-> i, remaining |-> p - p, ahead |-> [src |-> Wire, lo |-> p, hi |-> p]]
  <2>1. PICK v : v = w.ahead
    OBVIOUS
  <2>2. v \in Slice /\ v.src = Wire /\ v.hi = p /\ Width(v) = 0
    BY <1>5, <1>7, <1>8, <1>9, <2>1 DEF Wrapper
  <2>3. v.lo = p
    BY <1>5, <2>2 DEF Slice, Width
  <2>4. v = [src |-> Wire, lo |-> p, hi |-> p]
    BY <2>2, <2>3 DEF Slice
  <2>5. w = [raw |-> w.raw, remaining |-> w.remaining, ahead |-> v]
    BY <1>5, <2>1 DEF Wrapper
  <2>6. p - p = 0
    BY <1>5
  <2> QED
    BY <1>5, <1>7, <2>4, <2>5, <2>6
<1>11. Over(s.e, p, p, p) = s.e
  <2>1. [s.e EXCEPT !.wrap = s.e.wrap] = s.e
    BY <1>4 DEF Environ
  <2> QED
    BY <1>1, <1>9, <1>10, <2>1 DEF Over
<1>12. Seek(s.f, i, p) = s.f
  BY <1>2, <1>4, <1>5, <1>7, SeekAgain
<1>13. Join(c, [src |-> Wire, lo |-> p, hi |-> p]) = c
  <2>1. c \in Slice /\ c.hi = p /\ Width(c) # 0
    BY <1>6, <1>7 DEF GoodBytes
  <2>2. [c EXCEPT !.hi = p] = c
    BY <2>1 DEF Slice
  <2> QED
    BY <2>1, <2>2 DEF Join
<1>14. Outcome(s, c, 0) = LimitedEnd(s.f, s.e, p, Width(y.data), c, p, 0)
  <2>1. 0 \in Nat /\ p <= Offset(s) + 0
    BY <1>5, <1>7
  <2> QED
    BY <1>1, <1>2, <1>4, <1>7, <2>1, LimitedOutcome
<1>15. ~(Width(y.data) < p) /\ ~(p < p + 0)
  BY <1>5, <1>7
<1>16. StoreCopy(s, c) = StoreCopy(At(s.f, s.e), c)
  BY StoreState
<1> QED
  BY <1>1, <1>11, <1>12, <1>13, <1>14, <1>15, <1>16 DEF LimitedEnd

---------------------------------------------------------------------------
(* A turn of the loop, whatever it reads from.                             *)

\* What a turn makes of the outcome.
LEMMA TurnOutcome ==
  ASSUME NEW p \in Nat \cup {None}, NEW s, Good(s, p),
         NEW c, GoodBytes(c), NEW n, Midway(s, c, n),
         NEW k \in Nat, k > 0 \/ Left(s.f[s.e.input]) = 0,
         s.e.clen # None => k > 0 /\ k <= n,
         NEW x, x = ReadBodyFile(s, k)
  PROVE  /\ Len(x.f) = Len(s.f)
         /\ (x.ok /\ Width(x.data) > 0) =>
              LET rest == IF s.e.clen = None THEN n ELSE n - Width(x.data)
              IN  /\ Midway(x, Join(c, x.data), rest)
                  /\ Outcome(x, Join(c, x.data), rest) = Outcome(s, c, n)
         /\ (x.ok /\ Width(x.data) = 0 /\ s.e.clen = None) =>
              /\ Outcome(s, c, n) = StoreCopy(x, Join(c, x.data))
              /\ Width(c) > 0 => Join(c, x.data) = c
         /\ (~x.ok \/ (Width(x.data) = 0 /\ s.e.clen # None)) =>
              Outcome(s, c, n) = Fail(x.f, x.e)
<1>1. Readable(s.e) /\ s.f \in Seq(File) /\ s.e.input \in 1..Len(s.f)
  BY GoodInput DEF Midway
<1>2. Len(x.f) = Len(s.f)
  <2>1. \E at \in Nat : x.f = Seek(s.f, s.e.input, at)
    <3>1. CASE Limited(s.e)
      <4>1. PICK at, m : Limits(s, x, k, p, at, m)
        BY <1>1, <3>1, LimitedRead
      <4> QED
        BY <4>1 DEF Limits
    <3>2. CASE ~Limited(s.e)
      <4>1. PICK y : y = s.f[s.e.input]
        OBVIOUS
      <4>2. PICK w : w = Least(k, Left(y))
        OBVIOUS
      <4>3. /\ x = Done(Seek(s.f, s.e.input, y.pos + w), s.e, NextBytes(y, w))
            /\ w \in Nat /\ y.pos \in Nat
        BY <1>1, <3>2, <4>1, <4>2, RawRead
      <4> QED
        BY <4>3 DEF Done
    <3> QED
      BY <3>1, <3>2
  <2> QED
    BY <1>1, <2>1, SeekMoves DEF Moved
<1>3. CASE Limited(s.e)
  <2>1. s.e.clen # None /\ k > 0 /\ k <= n
    BY <1>3 DEF Limited
  <2>2. ASSUME x.ok, Width(x.data) > 0
        PROVE  /\ Midway(x, Join(c, x.data), n - Width(x.data))
               /\ Outcome(x, Join(c, x.data), n - Width(x.data)) = Outcome(s, c, n)
    BY <1>3, <2>1, <2>2, LimitedTurn
  <2>3. (~x.ok \/ Width(x.data) = 0) => Outcome(s, c, n) = Fail(x.f, x.e)
    BY <1>3, <2>1, LimitedStop
  <2> QED
    BY <1>2, <2>1, <2>2, <2>3
<1>4. CASE ~Limited(s.e)
  <2>1. /\ x.ok
        /\ (s.e.clen # None /\ k > 0 /\ n > 0) => Width(x.data) > 0
        /\ (s.e.clen = None /\ ~(Width(x.data) > 0)) =>
             /\ Outcome(s, c, n) = StoreCopy(x, Join(c, x.data))
             /\ (Width(c) > 0 => Join(c, x.data) = c)
    BY <1>4, RawEnd
  <2>2. s.e.clen # None => Width(x.data) > 0
    BY <2>1 DEF Midway
  <2>3. ASSUME Width(x.data) > 0
        PROVE  LET rest == IF s.e.clen = None THEN n ELSE n - Width(x.data)
               IN  /\ Midway(x, Join(c, x.data), rest)
                   /\ Outcome(x, Join(c, x.data), rest) = Outcome(s, c, n)
    <3>1. s.e.clen # None => k <= n
      OBVIOUS
    <3> QED
      BY <1>4, <2>3, <3>1, RawTurn
  <2> QED
    BY <1>2, <2>1, <2>2, <2>3
<1> QED
  BY <1>3, <1>4

\* What the end of the loop makes of it.
LEMMA FinishOutcome ==
  ASSUME NEW p \in Nat \cup {None}, NEW s, Good(s, p), NEW c, GoodBytes(c), Midway(s, c, 0)
  PROVE  Outcome(s, c, 0) = StoreCopy(s, c)
<1>1. s.e.clen # None
  BY DEF Midway
<1>2. CASE ~Limited(s.e)
  <2>1. PICK x : x = ReadBodyFile(s, 1)
    OBVIOUS
  <2> QED
    BY <1>1, <1>2, <2>1, RawEnd
<1> QED
  BY <1>2, LimitedFinish

---------------------------------------------------------------------------
(* What is kept of the pieces.                                             *)

\* A piece is added to what there is, wherever that is.
LEMMA KeepJoins ==
  ASSUME Kept, NEW a, GoodBytes(a), Width(a) > 0, Width(Sofar) > 0 => Sofar.hi = a.lo, Keep(a)
  PROVE  Kept' /\ Sofar' = Join(Sofar, a)
<1>1. PICK b : b = [src |-> Wire, lo |-> a.hi, hi |-> a.hi]
  OBVIOUS
<1>2. GoodBytes(b) /\ a.hi = b.lo
  BY <1>1 DEF GoodBytes, Slice, Sources
<1>3. PICK c : c = Sofar
  OBVIOUS
<1>4. GoodBytes(c) /\ (Width(c) > 0 => c.hi = a.lo)
  BY <1>3 DEF Kept
<1>5. PICK j : j = Join(c, a)
  OBVIOUS
<1>6. GoodBytes(j) /\ Width(j) >= Width(c)
  BY <1>2, <1>4, <1>5, JoinPieces
<1>7. j \in Slice /\ j # None /\ Width(j) \in Nat /\ Width(c) \in Nat
  BY <1>4, <1>6, ChunkAssumption DEF GoodBytes, Slice, Width
<1>8. TempfileLimit \in Nat /\ Empty \in Slice
  BY ConstantsAssumption, EmptyIsGood DEF GoodBytes
<1>9. CASE fileobj # None
  <2>1. fileobj' = j /\ newbody' = newbody /\ c = fileobj
    BY <1>3, <1>5, <1>9 DEF Keep, Sofar
  <2>2. Width(j) > TempfileLimit
    BY <1>3, <1>6, <1>7, <1>8, <1>9 DEF Kept
  <2>3. Sofar' = j
    BY <1>7, <2>1 DEF Sofar
  <2> QED
    BY <1>3, <1>5, <1>6, <1>7, <2>1, <2>2, <2>3 DEF Kept
<1>10. CASE fileobj = None
  <2>1. c = newbody
    BY <1>3, <1>10 DEF Sofar
  <2>2. CASE Width(j) > TempfileLimit
    <3>1. fileobj' = j /\ newbody' = Empty
      BY <1>5, <1>10, <2>1, <2>2 DEF Keep
    <3>2. Sofar' = j
      BY <1>7, <3>1 DEF Sofar
    <3> QED
      BY <1>3, <1>5, <1>6, <1>7, <1>8, <2>2, <3>1, <3>2 DEF Kept
  <2>3. CASE ~(Width(j) > TempfileLimit)
    <3>1. fileobj' = None /\ newbody' = j
      BY <1>5, <1>10, <2>1, <2>3 DEF Keep
    <3>2. Sofar' = j
      BY <3>1 DEF Sofar
    <3> QED
      BY <1>3, <1>5, <1>6, <1>7, <2>3, <3>1, <3>2 DEF Kept
  <2> QED
    BY <2>2, <2>3
<1> QED
  BY <1>9, <1>10

\* The loop stores in one of two ways what the one step stores.
LEMMA StoredIsCopy ==
  ASSUME Kept, NEW s
  PROVE  /\ Stored(s) = StoreCopy(s, Sofar)
         /\ \A d : (Width(d) = 0 /\ (Width(Sofar) > 0 => Join(Sofar, d) = Sofar)) =>
              (IF fileobj # None THEN Stored(s) ELSE SetBodyIn(s, Join(newbody, d)))
                = StoreCopy(s, Join(Sofar, d))
<1>1. TempfileLimit \in Nat /\ Width(Sofar) \in Nat
  BY ConstantsAssumption DEF Kept, GoodBytes, Slice, Width
<1>2. Stored(s) = StoreCopy(s, Sofar)
  BY DEF Kept, Stored, StoreCopy, Sofar
<1>3. ASSUME NEW d, Width(d) = 0, Width(Sofar) > 0 => Join(Sofar, d) = Sofar
      PROVE  (IF fileobj # None THEN Stored(s) ELSE SetBodyIn(s, Join(newbody, d)))
               = StoreCopy(s, Join(Sofar, d))
  <2>1. CASE fileobj # None
    <3>1. Width(Sofar) > 0
      BY <1>1, <2>1 DEF Kept
    <3> QED
      BY <1>2, <1>3, <2>1, <3>1
  <2>2. CASE fileobj = None
    <3>1. Sofar = newbody /\ ~(Width(Sofar) > TempfileLimit)
      BY <2>2 DEF Sofar, Kept
    <3>2. ~(Width(Join(Sofar, d)) > TempfileLimit)
      <4>1. CASE Width(Sofar) > 0
        BY <1>3, <3>1, <4>1
      <4>2. CASE ~(Width(Sofar) > 0)
        <5>1. Join(Sofar, d) = d
          BY <1>1, <4>2 DEF Join
        <5> QED
          BY <1>1, <1>3, <5>1
      <4> QED
        BY <4>1, <4>2
    <3> QED
      BY <2>2, <3>1, <3>2 DEF StoreCopy
  <2> QED
    BY <2>1, <2>2
<1> QED
  BY <1>2, <1>3

---------------------------------------------------------------------------
(* The steps of the loop.                                                  *)

\* copy_body is called: nothing is read yet.
LEMMA CallStep ==
  ASSUME LoopInv, Call
  PROVE  LoopInv' /\ begun' = [files |-> files, env |-> env] /\ busy' /\ ~busy
                  /\ UNCHANGED <<live, promised, ret>>
<1>1. PICK s : s = State(r0)
  OBVIOUS
<1>2. PICK i : i = env[r0].input
  OBVIOUS
<1>3. /\ Good(s, promised) /\ promised \in Nat \cup {None} /\ s.f = files /\ s.e = env[r0]
      /\ r0 \in Reqs /\ files \in Seq(File) /\ r0 \in live /\ i \in 1..Len(files)
  BY <1>1, <1>2, StateGood, GoodInput DEF LoopInv
<1>4. /\ busy' = TRUE /\ begun' = [files |-> files, env |-> env] /\ env' = env
      /\ files' = (IF s.e.seekable THEN Rewind(files, i) ELSE files)
      /\ todo' = (IF s.e.clen = None THEN Chunk ELSE s.e.clen)
      /\ newbody' = Empty /\ fileobj' = None /\ UNCHANGED <<live, promised, ret>>
      /\ Len(files) < MaxFiles /\ Readable(s.e) /\ ~busy
  BY <1>2, <1>3 DEF Call, Room
<1>5. PICK x : x = Done(files', s.e, Empty)
  OBVIOUS
<1>6. x.f = files' /\ x.e = s.e /\ x.ok = TRUE /\ x.data = Empty
  BY <1>5 DEF Done
<1>7. /\ Keeps(s, x, promised) /\ Len(files') = Len(files)
      /\ s.e.seekable => files'[i].pos = 0
  <2>1. CASE s.e.seekable
    <3>1. x.f = Rewind(s.f, s.e.input) /\ x.e = s.e
      BY <1>2, <1>3, <1>4, <1>6, <2>1
    <3>2. Good(x, promised) /\ Effect(s, x) /\ x.f[s.e.input].pos = 0
      BY <1>3, <2>1, <3>1, RewindKeeps
    <3>3. Len(files') = Len(files)
      BY <1>3, <1>4, <2>1, SeekMoves DEF Rewind, Moved
    <3> QED
      BY <1>2, <1>3, <1>6, <3>2, <3>3, EmptyIsGood DEF Keeps
  <2>2. CASE ~s.e.seekable
    <3>1. x.f = s.f /\ x.e = s.e
      BY <1>3, <1>4, <1>6, <2>2
    <3>2. Good(x, promised) /\ Effect(s, x)
      BY <1>3, <3>1 DEF Good, Effect
    <3> QED
      BY <1>3, <1>4, <1>6, <2>2, <3>2, EmptyIsGood DEF Keeps
  <2> QED
    BY <2>1, <2>2
<1>8. IInv' /\ env = [env EXCEPT ![r0] = s.e] /\ env \in [Reqs -> Environ]
  <2>1. env \in [Reqs -> Environ] /\ ret \in [op : Ops, req : Reqs, ok : BOOLEAN, data : Slice]
    BY DEF LoopInv, IInv, TypeOK
  <2>2. env = [env EXCEPT ![r0] = s.e]
    BY <1>3, <2>1
  <2>3. /\ files' = x.f /\ env' = [env EXCEPT ![r0] = x.e] /\ live' = live /\ promised' = promised
        /\ ret' \in [op : Ops, req : Reqs, ok : BOOLEAN, data : Slice]
    BY <1>4, <1>6, <2>1, <2>2
  <2>4. IInv /\ r0 \in live /\ Keeps(State(r0), x, promised)
    BY <1>1, <1>7 DEF LoopInv
  <2> QED
    BY <2>1, <2>2, <2>3, <2>4, MoveStep
<1>9. PICK t : t = At(files', s.e)
  OBVIOUS
<1>10. /\ t.f = files' /\ t.e = s.e /\ State(r0)' = t /\ Beginning' = s
       /\ Good(t, promised)
  <2>1. State(r0)' = t /\ Beginning' = s
    BY <1>1, <1>3, <1>4, <1>9 DEF State, Beginning
  <2> QED
    BY <1>6, <1>7, <1>9, <2>1 DEF At, Keeps, Good
<1>11. Advanced'
  <2>1. Effect(s, t)
    BY <1>6, <1>7, <1>10 DEF Keeps, Effect
  <2> QED
    BY <1>3, <1>4, <1>7, <1>8, <1>10, <2>1 DEF Advanced
<1>12. Kept' /\ Sofar' = Empty
  <2>1. Sofar' = Empty
    BY <1>4 DEF Sofar
  <2>2. Empty \in Slice /\ ~(Width(Empty) > TempfileLimit)
    BY EmptyIsGood, ConstantsAssumption DEF GoodBytes
  <2> QED
    BY <1>4, <2>1, <2>2, EmptyIsGood DEF Kept
<1>13. PICK n : n = todo'
  OBVIOUS
<1>14. Midway(t, Empty, n)
  <2>1. Readable(t.e) /\ t.e \in Environ /\ t.e.input = i
    BY <1>2, <1>3, <1>4, <1>10, GoodInput
  <2>2. n \in Nat /\ (t.e.clen = None => n > 0) /\ (t.e.clen # None => n = t.e.clen /\ n # 0)
    BY <1>4, <1>10, <1>13, <2>1, ChunkAssumption DEF Environ, Readable
  <2>3. (t.e.clen # None /\ t.e.seekable) => n = Left(t.f[i])
    <3> SUFFICES ASSUME t.e.clen # None, t.e.seekable PROVE n = Left(t.f[i])
      OBVIOUS
    <3>1. t.e.clen = Width(t.f[i].data) /\ t.f[i].pos = 0
      BY <1>7, <1>10, <2>1 DEF Good, GoodEnv
    <3> QED
      BY <2>2, <3>1 DEF Left
  <2>4. Limited(t.e) => t.e.clen <= Offset(t) + n
    <3> SUFFICES ASSUME Limited(t.e) PROVE t.e.clen <= Offset(t) + n
      OBVIOUS
    <3>1. Offset(t) \in Nat /\ t.e.clen # None
      BY <1>3, <1>10, LimitedState DEF Limited
    <3> QED
      BY <2>2, <3>1
  <2>5. ~(Width(Empty) > 0)
    BY EmptyIsGood
  <2> QED
    BY <2>1, <2>2, <2>3, <2>4, <2>5 DEF Midway
<1>15. Outcome(t, Empty, n) = CopyBodyIn(s)
  <2>1. t = IF s.e.seekable THEN At(Rewind(s.f, s.e.input), s.e) ELSE s
    <3>1. ~s.e.seekable => s = At(s.f, s.e)
      BY <1>1 DEF State, At
    <3> QED
      BY <1>2, <1>3, <1>4, <1>9, <3>1
  <2>2. Pending(t, n) = IF s.e.clen = None THEN Left(t.f[s.e.input]) ELSE s.e.clen
    BY <1>4, <1>10, <1>13 DEF Pending
  <2>3. \A d : Join(Empty, d) = d
    BY EmptyIsGood DEF Join
  <2> QED
    BY <1>4, <2>1, <2>2, <2>3 DEF Outcome, CopyBodyIn
<1>16. begun'.files = files /\ r0 \in live' /\ promised' = promised
  BY <1>3, <1>4
<1>17. Good(Beginning', promised') /\ Len(begun'.files) < MaxFiles
  BY <1>3, <1>4, <1>10, <1>16
<1>18. Midway(State(r0)', Sofar', todo') /\ Outcome(State(r0)', Sofar', todo') = CopyBodyIn(Beginning')
  BY <1>10, <1>12, <1>13, <1>14, <1>15
<1> QED
  BY <1>4, <1>8, <1>11, <1>12, <1>16, <1>17, <1>18 DEF LoopInv

\* Reading looks at the files and the environ only.
LEMMA SameState ==
  ASSUME NEW s, NEW t, s.f = t.f, s.e = t.e, NEW c, NEW n
  PROVE  Midway(s, c, n) = Midway(t, c, n) /\ Outcome(s, c, n) = Outcome(t, c, n)
<1>1. \A k : ReadBodyFile(s, k) = ReadBodyFile(t, k)
  BY DEF ReadBodyFile, ReadRaw, ReadWrapped
<1>2. Pending(s, n) = Pending(t, n)
  BY DEF Pending
<1>3. Offset(s) = Offset(t)
  BY DEF Offset
<1>4. Outcome(s, c, n) = Outcome(t, c, n)
  BY <1>1, <1>2 DEF Outcome
<1>5. Midway(s, c, n) = Midway(t, c, n)
  BY <1>3 DEF Midway
<1> QED
  BY <1>4, <1>5

\* One read of a turn is a read of body_file, of nothing only at the end of an
\* application's file.
LEMMA ReadsOnce ==
  ASSUME NEW p, NEW s, Good(s, p), NEW k \in Nat, k > 0, NEW x \in Reads(s, k)
  PROVE  \E m \in Nat : /\ x = ReadBodyFile(s, m)
                        /\ m > 0 \/ Left(s.f[s.e.input]) = 0
                        /\ s.e.clen # None => m = k
<1>1. CASE s.f[s.e.input].kind = "stream"
  <2>1. s.e.clen = None
    BY <1>1 DEF Good, GoodEnv
  <2>2. CASE Left(s.f[s.e.input]) = 0
    BY <1>1, <2>1, <2>2 DEF Reads
  <2>3. CASE Left(s.f[s.e.input]) # 0
    <3>1. PICK m \in 1..k : x = ReadBodyFile(s, m)
      BY <1>1, <2>3 DEF Reads
    <3>2. m \in Nat /\ m > 0
      OBVIOUS
    <3> QED
      BY <2>1, <3>1, <3>2
  <2> QED
    BY <2>2, <2>3
<1>2. CASE s.f[s.e.input].kind # "stream"
  BY <1>2 DEF Reads
<1> QED
  BY <1>1, <1>2

\* A turn goes on with the same outcome in sight, or returns it.
LEMMA TurnStep ==
  ASSUME LoopInv, Turn
  PROVE  \/ LoopInv' /\ busy' /\ UNCHANGED <<begun, live, promised, ret>>
         \/ Return(CopyBodyIn(Beginning))
<1>1. PICK s : s = State(r0)
  OBVIOUS
<1>2. PICK n : n = todo
  OBVIOUS
<1>3. PICK c : c = Sofar
  OBVIOUS
<1>4. /\ IInv /\ r0 \in live /\ busy \in BOOLEAN /\ busy /\ Advanced /\ Kept
      /\ Len(begun.files) < MaxFiles
      /\ Good(Beginning, promised) /\ Midway(s, c, n)
      /\ Outcome(s, c, n) = CopyBodyIn(Beginning)
  BY <1>1, <1>2, <1>3 DEF LoopInv, Turn
<1>5. /\ Good(s, promised) /\ promised \in Nat \cup {None} /\ s.f = files /\ s.e = env[r0]
      /\ r0 \in Reqs /\ GoodBytes(c)
  BY <1>1, <1>3, <1>4, StateGood DEF Kept
<1>6. PICK k : k = Least(n, Chunk)
  OBVIOUS
<1>7. k \in Nat /\ k > 0 /\ k <= n /\ n > 0 /\ n \in Nat
  <2>1. n \in Nat /\ n > 0 /\ Chunk \in Nat /\ Chunk > 0
    BY <1>2, <1>4, ChunkAssumption DEF Turn, Midway
  <2> QED
    BY <1>6, <2>1 DEF Least
<1>8. PICK x \in Reads(s, k) :
       \/ /\ x.ok /\ Width(x.data) > 0
          /\ Keep(x.data)
          /\ todo' = CountDown(n, Width(x.data))
          /\ files' = x.f
          /\ env' = [env EXCEPT ![r0] = x.e]
          /\ UNCHANGED <<live, promised, ret, busy, begun>>
       \/ /\ x.ok /\ Width(x.data) = 0 /\ env[r0].clen = None
          /\ Return(IF fileobj # None THEN Stored(x) ELSE SetBodyIn(x, Join(newbody, x.data)))
       \/ /\ ~x.ok \/ (Width(x.data) = 0 /\ env[r0].clen # None)
          /\ Return(Fail(x.f, x.e))
  BY <1>1, <1>2, <1>6 DEF Turn
<1>9. PICK m \in Nat : /\ x = ReadBodyFile(s, m)
                       /\ m > 0 \/ Left(s.f[s.e.input]) = 0
                       /\ s.e.clen # None => m = k
  BY <1>5, <1>7, ReadsOnce
<1>10. PICK p : p = promised
  OBVIOUS
<1>11. /\ Len(x.f) = Len(s.f)
       /\ (x.ok /\ Width(x.data) > 0) =>
            LET rest == IF s.e.clen = None THEN n ELSE n - Width(x.data)
            IN  /\ Midway(x, Join(c, x.data), rest)
                /\ Outcome(x, Join(c, x.data), rest) = Outcome(s, c, n)
       /\ (x.ok /\ Width(x.data) = 0 /\ s.e.clen = None) =>
            /\ Outcome(s, c, n) = StoreCopy(x, Join(c, x.data))
            /\ Width(c) > 0 => Join(c, x.data) = c
       /\ (~x.ok \/ (Width(x.data) = 0 /\ s.e.clen # None)) =>
            Outcome(s, c, n) = Fail(x.f, x.e)
  <2>1. p \in Nat \cup {None} /\ Good(s, p)
    BY <1>5, <1>10
  <2>2. /\ s.e.clen # None => m > 0 /\ m <= n
        /\ m > 0 \/ Left(s.f[s.e.input]) = 0
        /\ m \in Nat /\ x = ReadBodyFile(s, m) /\ GoodBytes(c) /\ Midway(s, c, n)
    BY <1>4, <1>5, <1>7, <1>9
  <2> QED
    BY ONLY <2>1, <2>2, TurnOutcome
<1>12. /\ Keeps(s, x, p) /\ GoodBytes(x.data) /\ x.e.input = s.e.input /\ x.e.clen = s.e.clen
       /\ Width(x.data) > 0 => x.data.lo = Offset(s)
  <2>1. p \in Nat \cup {None} /\ Good(s, p)
    BY <1>5, <1>10
  <2>2. /\ Keeps(s, x, p) /\ x.e.input = s.e.input /\ x.e.clen = s.e.clen
        /\ Width(x.data) > 0 => Follows(s, x)
    BY <1>9, <2>1, ReadBodyFileKeeps
  <2> QED
    BY <2>2 DEF Keeps, Follows
<1>13. CASE /\ x.ok /\ Width(x.data) > 0
            /\ Keep(x.data)
            /\ todo' = CountDown(n, Width(x.data))
            /\ files' = x.f
            /\ env' = [env EXCEPT ![r0] = x.e]
            /\ UNCHANGED <<live, promised, ret, busy, begun>>
  <2>1. PICK a : a = x.data
    OBVIOUS
  <2>2. Kept' /\ Sofar' = Join(c, a)
    <3>1. Width(a) > 0 /\ GoodBytes(a) /\ Keep(a)
      BY <1>12, <1>13, <2>1
    <3>2. Width(Sofar) > 0 => Sofar.hi = a.lo
      BY <1>3, <1>4, <1>12, <1>13, <2>1 DEF Midway
    <3> QED
      BY <1>3, <1>4, <3>1, <3>2, KeepJoins
  <2>3. PICK rest : rest = IF s.e.clen = None THEN n ELSE n - Width(x.data)
    OBVIOUS
  <2>4. todo' = rest
    BY <1>5, <1>13, <2>3 DEF CountDown
  <2>5. /\ Midway(x, Join(c, a), rest)
        /\ Outcome(x, Join(c, a), rest) = CopyBodyIn(Beginning)
    BY <1>4, <1>11, <1>13, <2>1, <2>3
  <2>6. PICK t : t = At(x.f, x.e)
    OBVIOUS
  <2>7. x.f = t.f /\ x.e = t.e
    BY <2>6 DEF At
  <2>8. env \in [Reqs -> Environ] /\ ret \in [op : Ops, req : Reqs, ok : BOOLEAN, data : Slice]
    BY <1>4 DEF IInv, TypeOK
  <2>9. State(r0)' = t /\ Beginning' = Beginning /\ env'[r0] = x.e
    <3>1. env'[r0] = x.e
      BY <1>5, <1>13, <2>8
    <3> QED
      BY <1>13, <2>6, <3>1 DEF State, Beginning
  <2>10. Midway(t, Join(c, a), rest) /\ Outcome(t, Join(c, a), rest) = CopyBodyIn(Beginning)
    <3>1. PICK j : j = Join(c, a)
      OBVIOUS
    <3>2. Midway(x, j, rest) = Midway(t, j, rest) /\ Outcome(x, j, rest) = Outcome(t, j, rest)
      BY <2>7, SameState
    <3> QED
      BY <2>5, <3>1, <3>2
  <2>11. IInv'
    <3>1. /\ Keeps(State(r0), x, promised) /\ live' = live /\ promised' = promised
          /\ ret' \in [op : Ops, req : Reqs, ok : BOOLEAN, data : Slice]
          /\ files' = x.f /\ env' = [env EXCEPT ![r0] = x.e]
      BY <1>1, <1>10, <1>12, <1>13, <2>8
    <3> QED
      BY <1>4, <3>1, MoveStep
  <2>12. Advanced'
    <3>1. PICK b : b = Beginning
      OBVIOUS
    <3>2. b.f = begun.files /\ b.e = begun.env[r0]
      BY <3>1 DEF Beginning, At
    <3>3. /\ Len(s.f) = Len(b.f) /\ Effect(b, s) /\ s.e.input = b.e.input
          /\ begun.env \in [Reqs -> Environ] /\ env = [begun.env EXCEPT ![r0] = s.e]
      BY <1>1, <1>4, <1>5, <3>1, <3>2 DEF Advanced
    <3>4. Good(b, promised) /\ Good(x, promised)
      BY <1>4, <1>10, <1>12, <3>1 DEF Keeps
    <3>5. /\ b.e.input \in 1..Len(b.f) /\ b.f \in Seq(File) /\ s.f \in Seq(File) /\ x.f \in Seq(File)
          /\ s.e.input \in Nat /\ x.e.input \in Nat
      BY <1>5, <3>4, GoodInput
    <3>6. Effect(b, x)
      BY <1>12, <3>3, <3>5, EffectTransitive DEF Keeps
    <3>7. Effect(b, t)
      BY <2>7, <3>6 DEF Effect
    <3>8. env' = [begun'.env EXCEPT ![r0] = env'[r0]]
      BY <1>13, <2>9, <3>3
    <3>9. Len(files') = Len(begun'.files) /\ env'[r0].input = begun'.env[r0].input /\ begun' = begun
      BY <1>11, <1>12, <1>13, <2>9, <3>2, <3>3
    <3>10. Effect(Beginning', State(r0)')
      BY <2>9, <3>1, <3>7
    <3> QED
      BY <3>3, <3>8, <3>9, <3>10 DEF Advanced
  <2>13. begun' = begun /\ live' = live /\ promised' = promised /\ busy' = busy /\ ret' = ret
    BY <1>13
  <2>14. Good(Beginning', promised') /\ Len(begun'.files) < MaxFiles
    BY <1>4, <2>9, <2>13
  <2>15. /\ Midway(State(r0)', Sofar', todo')
         /\ Outcome(State(r0)', Sofar', todo') = CopyBodyIn(Beginning')
    BY <2>1, <2>2, <2>4, <2>9, <2>10
  <2> QED
    BY <1>4, <2>2, <2>11, <2>12, <2>13, <2>14, <2>15 DEF LoopInv
<1>14. CASE /\ x.ok /\ Width(x.data) = 0 /\ env[r0].clen = None
            /\ Return(IF fileobj # None THEN Stored(x) ELSE SetBodyIn(x, Join(newbody, x.data)))
  <2>1. PICK d : d = x.data
    OBVIOUS
  <2>2. /\ Outcome(s, c, n) = StoreCopy(x, Join(c, d))
        /\ Width(c) > 0 => Join(c, d) = c
        /\ Width(d) = 0
    BY <1>5, <1>11, <1>14, <2>1
  <2>3. (IF fileobj # None THEN Stored(x) ELSE SetBodyIn(x, Join(newbody, d)))
          = StoreCopy(x, Join(c, d))
    BY <1>3, <1>4, <2>2, StoredIsCopy
  <2> QED
    BY <1>4, <1>14, <2>1, <2>2, <2>3
<1>15. CASE /\ ~x.ok \/ (Width(x.data) = 0 /\ env[r0].clen # None)
            /\ Return(Fail(x.f, x.e))
  <2>1. Outcome(s, c, n) = Fail(x.f, x.e)
    BY <1>5, <1>11, <1>15
  <2> QED
    BY <1>4, <1>15, <2>1
<1> QED
  BY <1>8, <1>13, <1>14, <1>15

\* When all the bytes are there it returns it too.
LEMMA FinishStep == ASSUME LoopInv, Finish PROVE Return(CopyBodyIn(Beginning))
<1>1. PICK s : s = State(r0)
  OBVIOUS
<1>2. PICK p : p = promised
  OBVIOUS
<1>3. PICK c : c = Sofar
  OBVIOUS
<1>4. /\ todo = 0 /\ Kept /\ Midway(s, c, 0) /\ Outcome(s, c, 0) = CopyBodyIn(Beginning)
      /\ Return(Stored(s))
  BY <1>1, <1>3 DEF LoopInv, Finish
<1>5. Good(s, p) /\ p \in Nat \cup {None} /\ GoodBytes(c)
  BY <1>1, <1>2, <1>3, <1>4, StateGood DEF LoopInv, Kept
<1>6. Outcome(s, c, 0) = StoreCopy(s, c)
  BY <1>4, <1>5, FinishOutcome
<1>7. Stored(s) = StoreCopy(s, c)
  BY <1>3, <1>4, StoredIsCopy
<1> QED
  BY <1>4, <1>6, <1>7

---------------------------------------------------------------------------
(* The one step in RequestBody's terms, seen through the loop.             *)

\* The operators of the instance are those of this module.
LEMMA SameOps ==
  /\ \A s, k : Atomic!ReadBodyFile(s, k) = ReadBodyFile(s, k)
  /\ \A s : Atomic!CopyBodyIn(s) = CopyBodyIn(s)
  /\ \A s : Atomic!GetBodyIn(s) = GetBodyIn(s)
  /\ \A s, c : Atomic!SetBodyIn(s, c) = SetBodyIn(s, c)
  /\ \A f, e, c : Atomic!Done(f, e, c) = Done(f, e, c)
  /\ \A f, e : Atomic!At(f, e) = At(f, e)
  /\ Atomic!Empty = Empty
<1>1. \A c : Atomic!Width(c) = Width(c)
  BY DEF Atomic!Width, Width
<1>2. Atomic!Empty = Empty
  BY DEF Atomic!Empty, Empty
<1>3. \A a, b : Atomic!Least(a, b) = Least(a, b)
  BY DEF Atomic!Least, Least
<1>4. \A f : Atomic!Left(f) = Left(f)
  BY <1>1 DEF Atomic!Left, Left
<1>5. \A f, k : Atomic!NextBytes(f, k) = NextBytes(f, k)
  BY DEF Atomic!NextBytes, NextBytes
<1>6. \A f, e : Atomic!At(f, e) = At(f, e)
  BY DEF Atomic!At, At
<1>7. \A f, e, c : Atomic!Done(f, e, c) = Done(f, e, c)
  BY DEF Atomic!Done, Done
<1>8. \A f, e : Atomic!Fail(f, e) = Fail(f, e)
  BY <1>2 DEF Atomic!Fail, Fail
<1>9. \A e : Atomic!Readable(e) = Readable(e)
  BY DEF Atomic!Readable, Readable
<1>10. \A f, i, n : Atomic!Seek(f, i, n) = Seek(f, i, n)
  BY DEF Atomic!Seek, Seek
<1>11. \A f, i : Atomic!Rewind(f, i) = Rewind(f, i)
  BY <1>10 DEF Atomic!Rewind, Rewind
<1>12. \A s, k : Atomic!ReadRaw(s, k) = ReadRaw(s, k)
  BY <1>3, <1>4, <1>5, <1>7, <1>10 DEF Atomic!ReadRaw, ReadRaw
<1>13. \A e : Atomic!WrapperOf(e) = WrapperOf(e)
  BY <1>2 DEF Atomic!WrapperOf, WrapperOf
<1>14. \A k, n : Atomic!Wanted(k, n) = Wanted(k, n)
  BY <1>3 DEF Atomic!Wanted, Wanted
<1>15. ASSUME NEW s, NEW k PROVE Atomic!ReadWrapped(s, k) = ReadWrapped(s, k)
  BY <1>13, ZenonT(30) DEF Atomic!ReadWrapped, ReadWrapped, Atomic!Width, Width, Atomic!Least, Least,
               Atomic!Left, Left, Atomic!Done, Done, Atomic!Fail, Fail, Atomic!Empty, Empty,
               Atomic!Seek, Seek, Atomic!Wanted, Wanted
<1>16. \A s, k : Atomic!ReadBodyFile(s, k) = ReadBodyFile(s, k)
  BY <1>2, <1>7, <1>9, <1>12, <1>15 DEF Atomic!ReadBodyFile, ReadBodyFile
<1>17. \A s, c : Atomic!SetBodyIn(s, c) = SetBodyIn(s, c)
  BY <1>1, <1>2, <1>7 DEF Atomic!SetBodyIn, SetBodyIn
<1>18. \A s, c : Atomic!StoreCopy(s, c) = StoreCopy(s, c)
  BY <1>1, <1>2, <1>7, <1>17 DEF Atomic!StoreCopy, StoreCopy
<1>19. \A s : Atomic!CopyBodyIn(s) = CopyBodyIn(s)
  <2> SUFFICES ASSUME NEW s PROVE Atomic!CopyBodyIn(s) = CopyBodyIn(s)
    OBVIOUS
  <2> QED
    BY <1>1, <1>2, <1>4, <1>6, <1>8, <1>9, <1>11, <1>16, <1>17, <1>18
       DEF Atomic!CopyBodyIn, CopyBodyIn
<1>20. \A s : Atomic!SeekableIn(s) = SeekableIn(s)
  BY <1>2, <1>7, <1>11, <1>19 DEF Atomic!SeekableIn, SeekableIn
<1>21. \A s : Atomic!GetBodyIn(s) = GetBodyIn(s)
  BY <1>2, <1>4, <1>7, <1>9, <1>11, <1>16, <1>20 DEF Atomic!GetBodyIn, GetBodyIn
<1> QED
  BY <1>2, <1>6, <1>7, <1>16, <1>17, <1>19, <1>21

\* The loop returns in one step of RequestBody from where it was called.
LEMMA ReturnStep ==
  ASSUME LoopInv, busy, Return(CopyBodyIn(Beginning))
  PROVE  LoopInv' /\ Atomic!CopyBody(r0)
<1>1. PICK b : b = Beginning
  OBVIOUS
<1>2. PICK z : z = CopyBodyIn(b)
  OBVIOUS
<1>3. PICK s : s = State(r0)
  OBVIOUS
<1>4. /\ IInv /\ r0 \in live /\ Len(begun.files) < MaxFiles /\ Good(b, promised)
      /\ b.f = begun.files /\ b.e = begun.env[r0] /\ b = At(begun.files, begun.env[r0])
      /\ Access(r0, "copy_body", z) /\ busy' = FALSE
  BY <1>1, <1>2 DEF LoopInv, Return, Beginning, At
<1>5. /\ Len(s.f) = Len(b.f) /\ Effect(b, s) /\ s.e.input = b.e.input
      /\ begun.env \in [Reqs -> Environ] /\ env = [begun.env EXCEPT ![r0] = s.e]
      /\ Good(s, promised) /\ promised \in Nat \cup {None} /\ r0 \in Reqs
  BY <1>1, <1>3, <1>4, StateGood DEF LoopInv, Advanced
<1>6. Keeps(b, z, promised)
  BY <1>2, <1>4, <1>5, CopyBodyKeeps
<1>7. Keeps(s, z, promised)
  <2>1. Effect(s, z)
    BY <1>5, <1>6 DEF Keeps, Effect
  <2> QED
    BY <1>6, <2>1 DEF Keeps
<1>8. IInv'
  BY <1>3, <1>4, <1>7, AccessStep DEF Ops
<1>9. LoopInv'
  BY <1>4, <1>8 DEF LoopInv, Access
<1>10. Atomic!CopyBody(r0)
  <2>1. Atomic!State(r0) = b
    BY <1>4, SameOps DEF Atomic!State
  <2>2. Atomic!Room
    BY <1>4 DEF Atomic!Room
  <2>3. [env EXCEPT ![r0] = z.e] = [begun.env EXCEPT ![r0] = z.e]
    BY <1>5
  <2>4. Atomic!Access(r0, "copy_body", z)
    BY <1>4, <2>3 DEF Atomic!Access, Access
  <2>5. Atomic!CopyBodyIn(b) = z
    BY <1>2, SameOps
  <2> QED
    BY <2>1, <2>2, <2>4, <2>5 DEF Atomic!CopyBody
<1> QED
  BY <1>9, <1>10

\* Between two calls the accesses are RequestBody's.
LEMMA BetweenStep == ASSUME LoopInv, Between PROVE LoopInv' /\ Atomic!Next
<1>1. IInv /\ r0 \in live /\ busy \in BOOLEAN /\ ~busy /\ busy' = busy
  BY DEF LoopInv, Between, loopVars
<1>2. /\ (IF busy THEN begun.files ELSE files) = files
      /\ (IF busy THEN begun.env ELSE env) = env
      /\ (IF busy' THEN begun'.files ELSE files') = files'
      /\ (IF busy' THEN begun'.env ELSE env') = env'
  BY <1>1
<1>3. /\ Atomic!State(r0) = State(r0) /\ (Atomic!Room <=> Room)
      /\ \A op, x : Atomic!Access(r0, op, x) <=> Access(r0, op, x)
  <2>1. Atomic!State(r0) = State(r0)
    BY <1>2, SameOps DEF Atomic!State, State
  <2>2. Atomic!Room <=> Room
    BY <1>2 DEF Atomic!Room, Room
  <2>3. \A op, x : Atomic!Access(r0, op, x) <=> Access(r0, op, x)
    BY <1>2 DEF Atomic!Access, Access
  <2> QED
    BY <2>1, <2>2, <2>3
<1>4. ASSUME IInv', live' = live PROVE LoopInv'
  BY <1>1, <1>4 DEF LoopInv
<1>5. CASE Stream(r0)
  <2>1. live' = live
    BY <1>5 DEF Stream, Access
  <2>2. Atomic!Stream(r0)
    BY <1>3, <1>5, SameOps DEF Atomic!Stream, Stream
  <2> QED
    BY <1>1, <1>4, <1>5, <2>1, <2>2, StreamStep DEF Atomic!Next
<1>6. CASE GetBody(r0)
  <2>1. live' = live
    BY <1>6 DEF GetBody, Access
  <2>2. Atomic!GetBody(r0)
    BY <1>3, <1>6, SameOps DEF Atomic!GetBody, GetBody
  <2> QED
    BY <1>1, <1>4, <1>6, <2>1, <2>2, GetterSteps DEF Atomic!Next
<1>7. CASE SetBody(r0)
  <2>1. live' = live
    BY <1>7 DEF SetBody, Access
  <2>2. Atomic!SetBody(r0)
    BY <1>3, <1>7, SameOps DEF Atomic!SetBody, SetBody
  <2> QED
    BY <1>1, <1>4, <1>7, <2>1, <2>2, SetterSteps DEF Atomic!Next
<1>8. CASE DeleteBody(r0)
  <2>1. live' = live
    BY <1>8 DEF DeleteBody, Access
  <2>2. Atomic!DeleteBody(r0)
    BY <1>3, <1>8, SameOps DEF Atomic!DeleteBody, DeleteBody
  <2> QED
    BY <1>1, <1>4, <1>8, <2>1, <2>2, SetterSteps DEF Atomic!Next
<1>9. CASE SetBodyFile(r0)
  <2>1. live' = live
    BY <1>9 DEF SetBodyFile, Access
  <2>2. Atomic!SetBodyFile(r0)
    BY <1>2, <1>3, <1>9, SameOps DEF Atomic!SetBodyFile, SetBodyFile
  <2> QED
    BY <1>1, <1>4, <1>9, <2>1, <2>2, SetBodyFileStep DEF Atomic!Next
<1>10. CASE CopyBody(r0)
  <2>1. live' = live
    BY <1>10 DEF CopyBody, Access
  <2>2. Atomic!CopyBody(r0)
    BY <1>3, <1>10, SameOps DEF Atomic!CopyBody, CopyBody
  <2> QED
    BY <1>1, <1>4, <1>10, <2>1, <2>2, GetterSteps DEF Atomic!Next
<1> QED
  BY <1>5, <1>6, <1>7, <1>8, <1>9, <1>10 DEF Between

\* Every step is one of RequestBody or changes nothing that RequestBody sees.
LEMMA LoopStep ==
  ASSUME LoopInv, [LoopNext]_allVars
  PROVE  LoopInv' /\ [Atomic!Next]_(Atomic!vars)
<1>1. r0 \in live
  BY DEF LoopInv
<1>2. ASSUME busy, Return(CopyBodyIn(Beginning)) PROVE LoopInv' /\ Atomic!Next
  BY <1>1, <1>2, ReturnStep DEF Atomic!Next
<1>3. CASE Call
  <2>1. LoopInv' /\ begun' = [files |-> files, env |-> env] /\ busy' /\ ~busy
                 /\ UNCHANGED <<live, promised, ret>>
    BY <1>3, CallStep
  <2> QED
    BY <2>1 DEF Atomic!vars
<1>4. CASE Turn
  <2>1. busy
    BY <1>4 DEF Turn
  <2>2. CASE LoopInv' /\ busy' /\ UNCHANGED <<begun, live, promised, ret>>
    BY <2>1, <2>2 DEF Atomic!vars
  <2> QED
    BY <1>2, <1>4, <2>1, <2>2, TurnStep
<1>5. CASE Finish
  BY <1>2, <1>5, FinishStep DEF Finish
<1>6. CASE Between
  BY <1>6, BetweenStep
<1>7. CASE UNCHANGED allVars
  <2>1. /\ UNCHANGED <<files, live, env, promised, ret>>
        /\ UNCHANGED <<busy, begun, todo, newbody, fileobj>>
    BY <1>7 DEF allVars, vars, loopVars
  <2>2. IInv'
    BY <2>1 DEF LoopInv, IInv, TypeOK
  <2>3. /\ Beginning' = Beginning /\ State(r0)' = State(r0) /\ Sofar' = Sofar
        /\ todo' = todo /\ promised' = promised /\ begun' = begun
    BY <2>1 DEF Beginning, State, Sofar
  <2>4. Advanced => Advanced'
    BY <2>1, <2>3 DEF Advanced
  <2>5. Kept => Kept'
    BY <2>1, <2>3 DEF Kept
  <2>6. LoopInv'
    BY <2>1, <2>2, <2>3, <2>4, <2>5 DEF LoopInv
  <2> QED
    BY <2>1, <2>6 DEF Atomic!vars
<1> QED
  BY <1>3, <1>4, <1>5, <1>6, <1>7 DEF LoopNext, Loop

\* It begins where RequestBody begins.
LEMMA LoopBegin == LoopInit => LoopInv /\ Atomic!Init
<1> SUFFICES ASSUME LoopInit PROVE LoopInv /\ Atomic!Init
  OBVIOUS
<1>1. Init /\ busy = FALSE
  BY DEF LoopInit
<1>2. LoopInv
  BY <1>1, InitInv DEF LoopInv, Init, r0
<1>3. /\ (IF busy THEN begun.files ELSE files) = files
      /\ (IF busy THEN begun.env ELSE env) = env
  BY <1>1
<1>4. /\ Atomic!Empty = Empty /\ Atomic!NoWrapper = NoWrapper /\ Atomic!NoParsed = NoParsed
  BY SameOps DEF Atomic!NoWrapper, NoWrapper, Atomic!NoParsed, NoParsed
<1>5. ASSUME NEW n, NEW clen, NEW seekable, NEW terminated, NEW kind
      PROVE  Atomic!Begin(n, clen, seekable, terminated, kind)
               <=> Begin(n, clen, seekable, terminated, kind)
  BY <1>3, <1>4 DEF Atomic!Begin, Begin
<1>6. /\ Atomic!InitLength <=> InitLength
      /\ Atomic!InitNoLength <=> InitNoLength
      /\ Atomic!InitBlank <=> InitBlank
      /\ Atomic!InitBlankPost <=> InitBlankPost
  BY <1>5 DEF Atomic!InitLength, InitLength, Atomic!InitNoLength, InitNoLength,
              Atomic!InitBlank, InitBlank, Atomic!InitBlankPost, InitBlankPost
<1>7. Atomic!Init
  BY <1>1, <1>4, <1>6 DEF Atomic!Init, Init
<1> QED
  BY <1>2, <1>7

\* Whatever has been read, and in however many pieces, reading what is left at
\* once would end as copy_body in one step from the state of the call does.
THEOREM LoopInvariant == LoopSpec => []LoopInv
<1>1. LoopInit => LoopInv
  BY LoopBegin
<1>2. LoopInv /\ [LoopNext]_allVars => LoopInv'
  BY LoopStep
<1> QED
  BY <1>1, <1>2, PTL DEF LoopSpec

\* copy_body as the loop it is implements copy_body as one step: each access of
\* RequestBody that follows finds the files and the environ that the one step
\* would have left, and none happens in between (request.py 959-1044).
THEOREM ImplementsOneStep == LoopSpec => RefinesCopyBody
<1>1. LoopInit => Atomic!Init
  BY LoopBegin
<1>2. LoopInv /\ [LoopNext]_allVars => [Atomic!Next]_(Atomic!vars)
  BY LoopStep
<1> QED
  BY <1>1, <1>2, LoopInvariant, PTL DEF LoopSpec, RefinesCopyBody, Atomic!Spec
===============================================================================
