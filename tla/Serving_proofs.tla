----------------------------- MODULE Serving_proofs -----------------------------
(***************************************************************************)
(* Proofs about Serving for files of any size, any block size, any number   *)
(* of changes and of requests: Framed, Assembled, NotStale and Released     *)
(* (src/webob/static.py 19-104, src/webob/response.py 1392-1650).           *)
(*                                                                         *)
(* The inductive invariant follows one answer from os.stat to close(): what *)
(* the response says of the file, as long as the file is what it was; how   *)
(* far each kind of iterator has come, and that what was sent is one run of *)
(* bytes of one file that begins where the answer says; and which version   *)
(* the client has bytes of: that of its tag, as long as no part was added   *)
(* by a date, and that of its date, if every version was dated later.       *)
(***************************************************************************)
EXTENDS Serving, SequenceTheorems, WellFoundedInduction, TLAPS

---------------------------------------------------------------------------
(* The inductive invariant.                                                 *)

Octet == Nat \X Nat
Length == Nat \cup {None}

Stats == [status : Nat, length : Length, date : Dates \cup {None}, etag : ETag]
Source == [kind : {"none", "file", "wrap", "gen", "object"}, ino : Nat, pos : Nat, ends : Seq(Nat),
           open : BOOLEAN, started : BOOLEAN]
Kinds == {"none", "page", "empty", "plain", "range", "fileiter", "filerange"}
Iter == [kind : Kinds, over : {"none", "plain", "range", "fileiter", "filerange"},
         start : Nat, stop : Length, pos : Nat]
Reply == [status : Nat, length : Length, start : Nat, total : Length, dated : BOOLEAN]
Copy == [bytes : Seq(Octet), total : Length, date : Dates \cup {None}, etag : ETag, dated : BOOLEAN]

Typed ==
  /\ source \in Sources /\ sizes \in Seq(Nat) /\ path \in 0..Len(sizes)
  /\ changes \in 0..MaxChanges /\ mtime \in Dates
  /\ pc \in {"idle", "stat", "open", "respond", "sending", "sent", "broken"}
  /\ req \in Request /\ res \in Stats /\ src \in Source /\ it \in Iter /\ reply \in Reply
  /\ sent \in Seq(Octet) /\ client \in Copy
  /\ still \in BOOLEAN /\ sharp \in BOOLEAN

Begun   == pc \in {"open", "respond", "sending", "sent", "broken"}
Sending == pc \in {"sending", "sent", "broken"}

\* The order of the steps of an answer.
Ordered ==
  /\ pc \in {"stat", "open", "respond"} => sent = <<>>
  /\ pc = "stat" => res = Blank /\ src = NoSource
  /\ pc = "open" => /\ src = NoSource /\ source \in {"file", "wrap"}
                    /\ res.etag = NoETag /\ res.date # None
  /\ pc = "respond" => src.ino # 0 /\ src.pos = 0 /\ ~src.started /\ res.date # None
  /\ (Begun /\ src.ino = 0) => src = NoSource
  /\ src.ino # 0 => src.ino <= Len(sizes) /\ src.kind # "none"
  /\ res.status \in {0, 200, 404}
  /\ sharp => client.date <= mtime /\ res.date <= mtime
  /\ (sharp /\ Begun /\ res.date # None) => client.date <= res.date

OwnPage(s) == s.kind \in {"gen", "object"}

\* The pieces of a page follow each other.
InOrder(s) ==
  /\ ~OwnPage(s) => s.ends = <<>>
  /\ \A k \in 1..Len(s.ends) : s.pos <= s.ends[k] /\ \A j \in 1..k : s.ends[j] <= s.ends[k]

\* Where its last piece ends.
LastEnd(s) == IF s.ends = <<>> THEN s.pos ELSE s.ends[Len(s.ends)]

\* The place in the file behind the last byte sent.
Upto ==
  CASE it.kind = "plain"                    -> src.pos
    [] it.kind \in {"fileiter", "filerange"} -> it.start + it.pos
    [] it.kind = "range"                    -> IF it.pos <= it.start THEN it.start ELSE Least(it.pos, it.stop)
    [] OTHER                                -> reply.start

\* The response is that of a version of n bytes.
Fits(n) ==
  /\ res.length \in {None, n}
  /\ OwnPage(src) => LastEnd(src) = n
  /\ src.ino # 0 => src.pos <= n
  /\ (src.ino # 0 /\ Sending) => Upto <= n

\* As long as the file is what it was at os.stat, it is what the response says.
\* A date tells that, if no two versions have one.
Undisturbed ==
  (Begun /\ res.date # None /\ (still \/ (sharp /\ path # 0 /\ res.date = mtime))) =>
    /\ path # 0 /\ res.date = mtime
    /\ src.ino # 0 => src.ino = path
    /\ Fits(sizes[path])

\* An entity tag names the version that the page was made of.
Tagged ==
  (Begun /\ res.etag # NoETag) =>
    /\ res.etag.ino = src.ino /\ OwnPage(src)
    /\ Fits(res.etag.size)

\* How far the iterator is, and what was sent.
Framing ==
  Sending =>
    /\ sent = Data(src.ino, reply.start, Upto) /\ reply.start <= Upto
    /\ it.kind # "none"
    /\ it.kind \in {"plain", "fileiter"} =>
         /\ it.start = 0 /\ it.stop = None
         /\ reply.start = 0 /\ reply.status = res.status /\ reply.length = res.length
    /\ it.kind \in {"range", "filerange"} =>
         /\ reply.status = 206 /\ it.stop # None /\ it.start < it.stop
         /\ reply.start = it.start /\ reply.length = it.stop - it.start
    /\ it.kind = "filerange" => it.start + it.pos <= it.stop
    /\ (it.kind = "range" /\ pc = "sending") => it.pos = src.pos
    /\ it.kind \in {"plain", "range"} => src.ino # 0 /\ src.kind # "file" /\ res.date # None
    /\ it.kind \in {"fileiter", "filerange"} => src.ino # 0 /\ src.kind = "file" /\ res.date # None
    /\ it.kind = "page" => reply.status \notin {200, 206, 304}
    /\ it.kind = "empty" => req.method = "HEAD" \/ reply.status = 304
    /\ (it.kind = "empty" /\ it.over \in {"fileiter", "filerange"}) => src.kind = "file"
    /\ reply.status = 304 => it.kind = "empty" /\ src.ino # 0 /\ res.date # None
    /\ req.method = "HEAD" => it.kind \in {"empty", "page"}
    /\ reply.status = 206 =>
         /\ src.ino # 0 /\ res.date # None /\ res.length # None /\ reply.total = res.length
         /\ reply.length # None /\ reply.start + reply.length <= res.length
         /\ req.resume => reply.start = Len(client.bytes)

\* What the client asks for comes from what it keeps.
AskedBy(r) ==
  /\ \A t \in r.inm : t \in {client.etag, NoETag}
  /\ r.ims \in {client.date, None}
  /\ r.resume =>
       /\ r.ranged /\ r.first = Len(client.bytes) /\ r.last = None
       /\ \/ r.iftag = client.etag /\ client.etag # NoETag
          \/ r.iftag = NoETag /\ r.ifdate = client.date /\ client.date # None

Asked == pc \in {"stat", "open", "respond"} => AskedBy(req)

\* The client has bytes of the version of n bytes of file i.
OfVersion(i, n) ==
  /\ client.bytes = Data(i, 0, Len(client.bytes))
  /\ n # None => Len(client.bytes) <= n /\ client.total \in {None, n}
  /\ client.etag # NoETag => client.etag.ino = i /\ (n # None => client.etag.size = n)

\* The file that the answer is made of; before it is open, that of the name.
Served0 == IF pc = "open" THEN path ELSE src.ino

\* Which version that is.
Versions ==
  /\ (sharp \/ ~client.dated) =>
       /\ \E i \in 1..Len(sizes) : client.bytes = Data(i, 0, Len(client.bytes))
       /\ client.etag # NoETag => OfVersion(client.etag.ino, client.etag.size)
       /\ (Sending /\ reply.status = 206 /\ req.resume /\ (sharp \/ ~reply.dated)) => OfVersion(src.ino, res.length)
  /\ sharp =>
       /\ (path # 0 /\ client.date = mtime) => OfVersion(path, sizes[path])
       /\ (pc \in {"open", "respond"} /\ Served0 # 0 /\ client.date = res.date) => OfVersion(Served0, res.length)

\* 304 is for a tag or a date that the client has.
Confirmed ==
  (Sending /\ reply.status = 304) =>
    IF reply.dated THEN res.date <= client.date
    ELSE client.etag # NoETag /\ res.etag # NoETag /\ SameTag(client.etag, res.etag)

\* A page of the server's own leaves a source open only as Released allows; a
\* file that is sent to its end is closed.
Held ==
  /\ (Sending /\ src.open /\ it.kind = "page") => reply.status = 500 \/ src.kind = "file"
  /\ (pc = "sent" /\ it.kind \in {"fileiter", "filerange"}) => ~src.open

IInv ==
  /\ Typed /\ Ordered /\ (Begun => InOrder(src))
  /\ Undisturbed /\ Tagged /\ Framing
  /\ Asked /\ Versions /\ Confirmed /\ Held

---------------------------------------------------------------------------
(* Runs of bytes.                                                           *)

LEMMA DataSeq ==
  ASSUME NEW i \in Nat, NEW a \in Nat, NEW b \in Nat
  PROVE  /\ Data(i, a, b) \in Seq(Octet)
         /\ a <= b => Len(Data(i, a, b)) = b - a
         /\ b <= a => Len(Data(i, a, b)) = 0
         /\ \A k \in 1..Len(Data(i, a, b)) : Data(i, a, b)[k] = <<i, a + k>>
<1> DEFINE n == IF a < b THEN b - a ELSE 0
<1>1. n \in Nat /\ (a <= b => n = b - a) /\ (b <= a => n = 0) OBVIOUS
<1>2. Data(i, a, b) = [k \in 1..n |-> <<i, a + k>>] BY DEF Data
<1> HIDE DEF n
<1>3. \A k \in 1..n : <<i, a + k>> \in Octet BY <1>1 DEF Octet
<1>4. Data(i, a, b) \in [1..n -> Octet] BY <1>2, <1>3
<1>5. Data(i, a, b) \in Seq(Octet) BY <1>1, <1>4
<1>6. Len(Data(i, a, b)) = n BY <1>1, <1>2, <1>4, <1>5
<1> QED BY <1>1, <1>2, <1>5, <1>6

LEMMA DataLen ==
  ASSUME NEW i \in Nat, NEW a \in Nat, NEW b \in Nat
  PROVE  /\ Data(i, a, b) \in Seq(Octet)
         /\ a <= b => Len(Data(i, a, b)) = b - a
         /\ b <= a => Len(Data(i, a, b)) = 0
BY DataSeq

LEMMA DataEmpty ==
  ASSUME NEW i \in Nat, NEW a \in Nat, NEW b \in Nat
  PROVE  Data(i, a, b) = <<>> <=> b <= a
<1>1. /\ Data(i, a, b) \in Seq(Octet) /\ (a <= b => Len(Data(i, a, b)) = b - a)
      /\ b <= a => Len(Data(i, a, b)) = 0
  BY DataSeq
<1>2. Data(i, a, b) = <<>> <=> Len(Data(i, a, b)) = 0 BY <1>1, EmptySeq
<1> QED BY <1>1, <1>2

\* Who has a byte of a file and a byte of another has two.
LEMMA DataTells ==
  ASSUME NEW i \in Nat, NEW j \in Nat, NEW n \in Nat \ {0}, Data(i, 0, n) = Data(j, 0, n)
  PROVE  i = j
<1>1. 0 \in Nat /\ 0 <= n OBVIOUS
<1>2. Len(Data(i, 0, n)) = n - 0 /\ Len(Data(j, 0, n)) = n - 0 BY <1>1, DataLen
<1>3. 1 \in 1..Len(Data(i, 0, n)) /\ 1 \in 1..Len(Data(j, 0, n)) BY <1>2
<1>4. /\ \A k \in 1..Len(Data(i, 0, n)) : Data(i, 0, n)[k] = <<i, 0 + k>>
      /\ \A k \in 1..Len(Data(j, 0, n)) : Data(j, 0, n)[k] = <<j, 0 + k>>
  BY <1>1, DataSeq
<1> QED BY <1>3, <1>4

LEMMA DataConcat ==
  ASSUME NEW i \in Nat, NEW a \in Nat, NEW b \in Nat, NEW c \in Nat, a <= b, b <= c
  PROVE  Data(i, a, b) \o Data(i, b, c) = Data(i, a, c)
<1> DEFINE s == Data(i, a, b) t == Data(i, b, c) u == Data(i, a, c)
<1>1. /\ s \in Seq(Octet) /\ Len(s) = b - a /\ \A k \in 1..Len(s) : s[k] = <<i, a + k>>
      /\ t \in Seq(Octet) /\ Len(t) = c - b /\ \A k \in 1..Len(t) : t[k] = <<i, b + k>>
      /\ u \in Seq(Octet) /\ Len(u) = c - a /\ \A k \in 1..Len(u) : u[k] = <<i, a + k>>
  <2>1. Len(s) = b - a BY DataLen
  <2>2. Len(t) = c - b BY DataLen
  <2>3. a <= c OBVIOUS
  <2>4. Len(u) = c - a BY <2>3, DataLen
  <2> QED BY <2>1, <2>2, <2>4, DataSeq
<1> HIDE DEF s, t, u
<1>2. /\ s \o t \in Seq(Octet) /\ Len(s \o t) = Len(s) + Len(t)
      /\ \A k \in 1..Len(s) + Len(t) : (s \o t)[k] = IF k <= Len(s) THEN s[k] ELSE t[k - Len(s)]
  BY <1>1, ConcatProperties
<1>3. ASSUME NEW k \in 1..Len(u) PROVE (s \o t)[k] = u[k]
  <2>1. k \in Nat /\ k \in 1..(Len(s) + Len(t)) /\ u[k] = <<i, a + k>> BY <1>1
  <2>2. CASE k <= Len(s)
    <3>1. k \in 1..Len(s) BY <1>1, <2>1, <2>2
    <3> QED BY <1>1, <1>2, <2>1, <2>2, <3>1
  <2>3. CASE ~(k <= Len(s))
    <3>1. k - Len(s) \in 1..Len(t) /\ b + (k - Len(s)) = a + k BY <1>1, <2>3
    <3>2. t[k - Len(s)] = <<i, b + (k - Len(s))>> BY <1>1, <3>1
    <3> QED BY <1>2, <2>1, <2>3, <3>1, <3>2
  <2> QED BY <2>2, <2>3
<1>4. Len(s \o t) = Len(u) BY <1>1, <1>2
<1>5. s \o t = u BY <1>1, <1>2, <1>3, <1>4, SeqEqual
<1> QED BY <1>5 DEF s, t, u

LEMMA DataSub ==
  ASSUME NEW i \in Nat, NEW a \in Nat, NEW b \in Nat, NEW c \in Nat, NEW d \in Nat,
         a <= c, c <= d, d <= b
  PROVE  SubSeq(Data(i, a, b), (c - a) + 1, d - a) = Data(i, c, d)
<1> DEFINE s == Data(i, a, b) u == Data(i, c, d) w == SubSeq(s, (c - a) + 1, d - a)
<1>1. a <= b OBVIOUS
<1>2. s \in Seq(Octet) /\ Len(s) = b - a /\ \A k \in 1..Len(s) : s[k] = <<i, a + k>>
  <2>1. Len(s) = b - a BY <1>1, DataLen
  <2> QED BY <2>1, DataSeq
<1>3. u \in Seq(Octet) /\ Len(u) = d - c /\ \A k \in 1..Len(u) : u[k] = <<i, c + k>>
  <2>1. Len(u) = d - c BY DataLen
  <2>2. u \in Seq(Octet) /\ \A k \in 1..Len(u) : u[k] = <<i, c + k>> BY ONLY i \in Nat, c \in Nat, d \in Nat, DataSeq
  <2> QED BY ONLY <2>1, <2>2
<1>4. \A k \in ((c - a) + 1)..(d - a) : s[k] \in Octet
  <2> TAKE k \in ((c - a) + 1)..(d - a)
  <2>1. k \in 1..Len(s) BY <1>2
  <2> QED BY <1>2, <2>1, ElementOfSeq
<1> HIDE DEF s, u
<1>5. (c - a) + 1 \in Int /\ d - a \in Int OBVIOUS
<1>6. /\ w \in Seq(Octet)
      /\ Len(w) = (IF (c - a) + 1 <= d - a THEN (d - a) - ((c - a) + 1) + 1 ELSE 0)
      /\ \A k \in 1..((d - a) - ((c - a) + 1) + 1) : w[k] = s[((c - a) + 1) + k - 1]
  BY <1>4, <1>5, SubSeqProperties
<1> HIDE DEF w
<1>7. Len(w) = Len(u) BY <1>3, <1>6
<1>8. ASSUME NEW k \in 1..Len(w) PROVE w[k] = u[k]
  <2>1. k \in 1..((d - a) - ((c - a) + 1) + 1) BY <1>3, <1>7
  <2>2. w[k] = s[((c - a) + 1) + k - 1] BY <1>6, <2>1
  <2>3. ((c - a) + 1) + k - 1 \in 1..Len(s) /\ a + (((c - a) + 1) + k - 1) = c + k BY <1>2, <1>3, <1>7
  <2>4. s[((c - a) + 1) + k - 1] = <<i, a + (((c - a) + 1) + k - 1)>> BY <1>2, <2>3
  <2>5. u[k] = <<i, c + k>> BY <1>3, <1>7
  <2> QED BY <2>2, <2>3, <2>4, <2>5
<1>9. w = u BY <1>3, <1>6, <1>7, <1>8, SeqEqual
<1> QED BY <1>9 DEF s, u, w

\* The cuts at the ends of a range, with c the place of the cut.
LEMMA DataCut ==
  ASSUME NEW i \in Nat, NEW a \in Nat, NEW b \in Nat, NEW c \in Nat, a <= c, c <= b
  PROVE  /\ c # b => LastOf(Data(i, a, b), b - c) = Data(i, c, b)
         /\ ButLast(Data(i, a, b), b - c) = Data(i, a, c)
         /\ SubSeq(Data(i, a, b), 1, c - a) = Data(i, a, c)
<1> DEFINE s == Data(i, a, b)
<1>1. a <= b /\ a <= a /\ b <= b OBVIOUS
<1>2. Len(s) = b - a BY <1>1, DataLen
<1>3. SubSeq(s, (c - a) + 1, b - a) = Data(i, c, b) BY <1>1, DataSub
<1>4. SubSeq(s, (a - a) + 1, c - a) = Data(i, a, c) BY <1>1, DataSub
<1> HIDE DEF s
<1>5. (a - a) + 1 = 1 /\ (b - a) - (b - c) = c - a /\ (c # b => b - c # 0) OBVIOUS
<1>6. c # b => LastOf(s, b - c) = SubSeq(s, (c - a) + 1, b - a) BY <1>2, <1>5 DEF LastOf
<1>7. ButLast(s, b - c) = SubSeq(s, 1, c - a) BY <1>2, <1>5 DEF ButLast
<1> QED BY <1>3, <1>4, <1>5, <1>6, <1>7 DEF s

LEMMA DataPrefix ==
  ASSUME NEW i \in Nat, NEW a \in Nat, NEW b \in Nat, a <= b
  PROVE  IsPrefix(Data(i, 0, a), Data(i, 0, b))
<1>1. 0 \in Nat /\ 0 <= a /\ 0 <= b /\ a <= a OBVIOUS
<1>2. Len(Data(i, 0, a)) = a - 0 /\ Len(Data(i, 0, b)) = b - 0 BY <1>1, DataLen
<1>3. /\ SubSeq(Data(i, 0, a), 1, a - 0) = Data(i, 0, a)
      /\ SubSeq(Data(i, 0, b), 1, a - 0) = Data(i, 0, a)
  BY <1>1, DataCut
<1> QED BY <1>2, <1>3 DEF IsPrefix

---------------------------------------------------------------------------
(* The pieces of a source.                                                  *)

LEMMA Products ==
  ASSUME NEW b \in Nat \ {0}
  PROVE  /\ \A m, n \in Nat : m <= n => m * b <= n * b
         /\ \A n \in Nat : n * b \in Nat
<1>1. ASSUME NEW m \in Nat, NEW n \in Nat, m <= n PROVE m * b <= n * b
  <2>1. (n - m) * b >= 0 BY <1>1
  <2>2. (n - m) * b = n * b - m * b OBVIOUS
  <2> QED BY <2>1, <2>2
<1> QED BY <1>1

LEMMA Ceiling ==
  ASSUME NEW b \in Nat \ {0}, NEW d \in Nat \ {0}
  PROVE  /\ (d + b - 1) \div b \in Nat \ {0}
         /\ d <= ((d + b - 1) \div b) * b
<1> DEFINE x == d + b - 1 q == x \div b
<1>1. x \in Nat /\ x >= b OBVIOUS
<1>2. q \in Int /\ x = b * q + (x % b) /\ 0 <= x % b /\ x % b < b BY <1>1
<1> QED BY <1>1, <1>2

\* What the pieces of a source reach, one after the other.
LEMMA Places ==
  ASSUME sizes \in Seq(Nat), NEW s \in Source, s.ino \in 1..Len(sizes), InOrder(s)
  PROVE  /\ Left(s) \in Nat
         /\ \A n \in 0..Left(s) : /\ Reached(s, n) \in Nat /\ s.pos <= Reached(s, n)
                                  /\ \A m \in 0..n : Reached(s, m) <= Reached(s, n)
         /\ s.kind = "wrap" =>
              /\ \A n \in 1..Left(s) : Reached(s, n) <= sizes[s.ino]
              /\ Left(s) # 0 => Reached(s, Left(s)) = sizes[s.ino]
              /\ Left(s) = 0 => sizes[s.ino] <= s.pos
         /\ OwnPage(s) =>
              /\ \A n \in 0..Left(s) : Reached(s, n) <= LastEnd(s)
              /\ Reached(s, Left(s)) = LastEnd(s)
<1> DEFINE z == sizes[s.ino]
<1>1. z \in Nat /\ s.pos \in Nat /\ s.ends \in Seq(Nat) /\ Block \in Nat \ {0}
  BY ElementOfSeq, ServingAssumption DEF Source
<1>2. CASE s.kind = "wrap"
  <2>1. ASSUME z <= s.pos
        PROVE  Left(s) = 0
    BY <1>1, <1>2, <2>1 DEF Left
  <2>2. ASSUME s.pos < z
        PROVE  /\ Left(s) \in Nat \ {0} /\ z <= s.pos + Left(s) * Block
    <3>1. PICK d \in Nat \ {0} : d = z - s.pos BY <1>1, <2>2
    <3>2. Left(s) = (d + Block - 1) \div Block BY <1>2, <2>2, <3>1 DEF Left
    <3>3. Left(s) \in Nat \ {0} /\ d <= Left(s) * Block BY <1>1, <3>2, Ceiling
    <3>4. PICK e \in Nat : e = Left(s) * Block BY <1>1, <3>3, Products
    <3> QED BY <1>1, <3>1, <3>3, <3>4, SMTT(30)
  <2>3. Left(s) \in Nat BY <1>1, <2>1, <2>2
  <2>4. Reached(s, 0) = s.pos BY DEF Reached
  <2>5. ASSUME NEW n \in 1..Left(s)
        PROVE  /\ n * Block \in Nat /\ s.pos < z
               /\ Reached(s, n) = IF s.pos + n * Block <= z THEN s.pos + n * Block ELSE z
    <3>1. n \in Nat /\ n # 0 /\ Left(s) # 0 BY <2>3
    <3>2. n * Block \in Nat BY <1>1, <3>1, Products
    <3>3. s.pos < z BY <1>1, <2>1, <3>1
    <3>4. Reached(s, n) = Least(s.pos + n * Block, z) BY <1>2, <3>1 DEF Reached
    <3> QED BY <3>2, <3>3, <3>4 DEF Least
  <2>6. ASSUME NEW n \in 0..Left(s) PROVE Reached(s, n) \in Nat /\ s.pos <= Reached(s, n)
    <3>1. CASE n = 0 BY <1>1, <2>4, <3>1
    <3>2. CASE n # 0
      <4>1. n \in 1..Left(s) BY <2>3, <3>2
      <4>2. PICK e \in Nat : e = n * Block BY <2>5, <4>1
      <4>3. e \in Nat BY <4>2
      <4>4. Reached(s, n) = IF s.pos + e <= z THEN s.pos + e ELSE z BY <2>5, <4>1, <4>2
      <4> HIDE DEF z
      <4>5. s.pos <= z BY <1>1, <2>5, <4>1
      <4> QED BY <1>1, <4>3, <4>4, <4>5
    <3> QED BY <3>1, <3>2
  <2>7. ASSUME NEW n \in 0..Left(s), NEW m \in 0..n PROVE Reached(s, m) <= Reached(s, n)
    <3>1. CASE m = 0 BY <2>4, <2>6, <3>1
    <3>2. CASE m # 0
      <4>1. n \in 1..Left(s) /\ m \in 1..Left(s) /\ m <= n /\ m \in Nat /\ n \in Nat BY <2>3, <3>2
      <4>2. m * Block <= n * Block BY <1>1, <4>1, Products
      <4>3. PICK e \in Nat : e = n * Block BY <2>5, <4>1
      <4>4. PICK f \in Nat : f = m * Block BY <2>5, <4>1
      <4>5. /\ Reached(s, n) = IF s.pos + e <= z THEN s.pos + e ELSE z
            /\ Reached(s, m) = IF s.pos + f <= z THEN s.pos + f ELSE z
        BY <2>5, <4>1, <4>3, <4>4
      <4>6. e \in Nat /\ f \in Nat /\ f <= e BY <4>2, <4>3, <4>4
      <4> HIDE DEF z
      <4> QED BY <1>1, <4>5, <4>6
    <3> QED BY <3>1, <3>2
  <2>8. \A n \in 1..Left(s) : Reached(s, n) <= z
    <3> TAKE n \in 1..Left(s)
    <3>1. PICK e \in Nat : e = n * Block BY <2>5
    <3>2. Reached(s, n) = IF s.pos + e <= z THEN s.pos + e ELSE z BY <2>5, <3>1
    <3> HIDE DEF z
    <3> QED BY <1>1, <3>1, <3>2
  <2>9. Left(s) # 0 => Reached(s, Left(s)) = z
    <3> SUFFICES ASSUME Left(s) # 0 PROVE Reached(s, Left(s)) = z
      OBVIOUS
    <3>1. Left(s) \in 1..Left(s) BY <2>3
    <3>2. s.pos < z BY <2>5, <3>1
    <3>3. PICK e \in Nat : e = Left(s) * Block BY <2>5, <3>1
    <3>4. Reached(s, Left(s)) = IF s.pos + e <= z THEN s.pos + e ELSE z BY <2>5, <3>1, <3>3
    <3>5. z <= s.pos + e BY <2>2, <3>2, <3>3
    <3>6. e \in Nat BY <3>3
    <3>7. z \in Nat /\ s.pos + e \in Nat BY <1>1, <3>6
    <3> HIDE DEF z
    <3>8. s.pos + e <= z => s.pos + e = z BY <3>5, <3>7
    <3> QED BY <3>4, <3>8
  <2>10. Left(s) = 0 => z <= s.pos BY <1>1, <2>2
  <2>11. ~OwnPage(s) BY <1>2 DEF OwnPage
  <2> QED BY <1>2, <2>3, <2>6, <2>7, <2>8, <2>9, <2>10, <2>11
<1>3. CASE s.kind # "wrap"
  <2>1. Left(s) = Len(s.ends) /\ Left(s) \in Nat BY <1>1, <1>3, LenProperties DEF Left
  <2>2. Reached(s, 0) = s.pos BY DEF Reached
  <2>3. \A n \in 1..Left(s) : Reached(s, n) = s.ends[n] /\ s.ends[n] \in Nat
    <3> TAKE n \in 1..Left(s)
    <3>1. s.ends[n] \in Nat BY <1>1, <2>1, ElementOfSeq
    <3>2. n # 0 BY <2>1
    <3> QED BY <1>3, <3>1, <3>2 DEF Reached
  <2>4. ASSUME NEW n \in 0..Left(s) PROVE Reached(s, n) \in Nat /\ s.pos <= Reached(s, n)
    <3>1. CASE n = 0 BY <1>1, <2>2, <3>1
    <3>2. CASE n # 0
      <4>1. n \in 1..Left(s) BY <2>1, <3>2
      <4> QED BY <1>1, <2>1, <2>3, <4>1 DEF InOrder
    <3> QED BY <3>1, <3>2
  <2>5. ASSUME NEW n \in 0..Left(s), NEW m \in 0..n PROVE Reached(s, m) <= Reached(s, n)
    <3>1. CASE m = 0 BY <2>2, <2>4, <3>1
    <3>2. CASE m # 0
      <4>1. n \in 1..Left(s) /\ m \in 1..n /\ m \in 1..Left(s) BY <2>1, <3>2
      <4>2. s.ends[m] <= s.ends[n] BY <2>1, <4>1 DEF InOrder
      <4> QED BY <2>3, <4>1, <4>2
    <3> QED BY <3>1, <3>2
  <2>6. Reached(s, Left(s)) = LastEnd(s)
    <3>1. CASE Left(s) = 0
      <4>1. s.ends = <<>> BY <1>1, <2>1, <3>1, EmptySeq
      <4> QED BY <2>2, <3>1, <4>1 DEF LastEnd
    <3>2. CASE Left(s) # 0
      <4>1. s.ends # <<>> BY <2>1, <3>2, EmptySeq
      <4>2. Left(s) \in 1..Left(s) BY <2>1, <3>2
      <4> QED BY <2>1, <2>3, <4>1, <4>2 DEF LastEnd
    <3> QED BY <3>1, <3>2
  <2>7. \A n \in 0..Left(s) : Reached(s, n) <= LastEnd(s)
    <3> TAKE n \in 0..Left(s)
    <3>1. Left(s) \in 0..Left(s) BY <2>1
    <3> QED BY <2>5, <2>6, <3>1
  <2> QED BY <1>3, <2>1, <2>4, <2>5, <2>6, <2>7
<1> QED BY <1>2, <1>3

\* The source after n of its pieces.
LEMMA Following ==
  ASSUME sizes \in Seq(Nat), NEW s \in Source, s.ino \in 1..Len(sizes), InOrder(s),
         NEW n \in 0..Left(s), s.kind # "file"
  PROVE  /\ After(s, n) \in Source
         /\ After(s, n).kind = s.kind /\ After(s, n).ino = s.ino /\ After(s, n).open = s.open
         /\ After(s, n).pos = Reached(s, n) /\ After(s, n).started
         /\ InOrder(After(s, n))
         /\ OwnPage(s) => LastEnd(After(s, n)) = LastEnd(s)
<1> DEFINE t == After(s, n) L == Len(s.ends)
<1>1. /\ s.ends \in Seq(Nat) /\ L \in Nat /\ Reached(s, n) \in Nat /\ n \in Nat
      /\ \A k \in 1..L : s.ends[k] \in Nat
  <2>1. s.ends \in Seq(Nat) BY DEF Source
  <2>2. L \in Nat /\ \A k \in 1..L : s.ends[k] \in Nat BY <2>1, LenProperties, ElementOfSeq
  <2>3. Left(s) \in Nat /\ Reached(s, n) \in Nat BY Places
  <2> QED BY <2>1, <2>2, <2>3
<1>2. OwnPage(s) => n <= L /\ Left(s) = L
  BY <1>1 DEF OwnPage, Left
<1>3. /\ t = [s EXCEPT !.pos = Reached(s, n), !.ends = SubSeq(s.ends, n + 1, L), !.started = TRUE]
      /\ t.kind = s.kind /\ t.ino = s.ino /\ t.open = s.open /\ t.pos = Reached(s, n) /\ t.started
      /\ t.ends = SubSeq(s.ends, n + 1, L)
  BY DEF After, Source
<1>4. /\ SubSeq(s.ends, n + 1, L) \in Seq(Nat)
      /\ Len(SubSeq(s.ends, n + 1, L)) = IF n + 1 <= L THEN L - n ELSE 0
      /\ \A k \in 1..(L - n) : SubSeq(s.ends, n + 1, L)[k] = s.ends[n + k]
  <2>1. \A k \in (n + 1)..L : s.ends[k] \in Nat BY <1>1
  <2>2. n + 1 \in Int /\ L \in Int BY <1>1
  <2> DEFINE w == SubSeq(s.ends, n + 1, L)
  <2>3. /\ w \in Seq(Nat)
        /\ Len(w) = IF n + 1 <= L THEN L - (n + 1) + 1 ELSE 0
        /\ \A k \in 1..(L - (n + 1) + 1) : w[k] = s.ends[(n + 1) + k - 1]
    BY <2>1, <2>2, SubSeqProperties
  <2>4. \A k \in 1..(L - n) : k \in 1..(L - (n + 1) + 1) /\ (n + 1) + k - 1 = n + k BY <1>1
  <2> HIDE DEF w, L
  <2>5. \A k \in 1..(L - n) : w[k] = s.ends[n + k]
    <3> TAKE k \in 1..(L - n)
    <3>1. w[k] = s.ends[(n + 1) + k - 1] BY <2>3, <2>4
    <3> QED BY <2>4, <3>1
  <2>6. Len(w) = IF n + 1 <= L THEN L - n ELSE 0 BY <1>1, <2>3
  <2> QED BY <2>3, <2>5, <2>6 DEF w
<1>5. t \in Source
  <2>1. s.started \in BOOLEAN /\ TRUE \in BOOLEAN BY DEF Source
  <2> HIDE DEF t, L
  <2> QED BY <1>1, <1>3, <1>4, <2>1 DEF Source
<1> HIDE DEF t, L
<1>6. InOrder(t)
  <2>1. CASE OwnPage(s)
    <3>1. OwnPage(t) BY <1>3, <2>1 DEF OwnPage
    <3>2. ASSUME NEW k \in 1..Len(t.ends)
          PROVE  t.ends[k] = s.ends[n + k] /\ n + k \in 1..L /\ n + k \in Nat
      <4>1. k \in 1..(L - n) BY <1>1, <1>3, <1>4
      <4>2. t.ends[k] = s.ends[n + k] BY <1>3, <1>4, <4>1
      <4> QED BY <1>1, <4>1, <4>2
    <3>3. ASSUME NEW k \in 1..Len(t.ends)
          PROVE  t.pos <= t.ends[k] /\ \A j \in 1..k : t.ends[j] <= t.ends[k]
      <4>1. t.ends[k] = s.ends[n + k] /\ n + k \in 1..L BY <3>2
      <4>2. \A j \in 1..(n + k) : s.ends[j] <= s.ends[n + k] BY <4>1 DEF InOrder, L
      <4>3. t.pos <= t.ends[k]
        <5>1. CASE n = 0
          <6>1. t.pos = s.pos BY <1>3, <5>1 DEF Reached
          <6>2. s.pos <= s.ends[n + k] BY <4>1 DEF InOrder, L
          <6> QED BY <4>1, <6>1, <6>2
        <5>2. CASE n # 0
          <6>1. s.kind # "wrap" BY <2>1 DEF OwnPage
          <6>2. t.pos = s.ends[n] BY <1>3, <5>2, <6>1 DEF Reached
          <6>3. n \in 1..(n + k) BY <1>1, <5>2, <3>2
          <6> QED BY <4>1, <4>2, <6>2, <6>3
        <5> QED BY <5>1, <5>2
      <4>4. ASSUME NEW j \in 1..k PROVE t.ends[j] <= t.ends[k]
        <5>1. j \in 1..Len(t.ends) BY <1>4, <1>3, <1>1
        <5>2. t.ends[j] = s.ends[n + j] BY <3>2, <5>1
        <5>3. n + j \in 1..(n + k) BY <1>1
        <5> QED BY <4>1, <4>2, <5>2, <5>3
      <4> QED BY <4>3, <4>4
    <3> QED BY <3>1, <3>3 DEF InOrder
  <2>2. CASE ~OwnPage(s)
    <3>1. s.ends = <<>> /\ ~OwnPage(t) BY <1>3, <2>2 DEF InOrder, OwnPage
    <3>2. L = 0 BY <3>1, EmptySeq DEF L
    <3>3. Len(t.ends) = 0 /\ t.ends \in Seq(Nat) BY <1>1, <1>3, <1>4, <3>2
    <3>4. t.ends = <<>> BY <3>3, EmptySeq
    <3> QED BY <3>1, <3>3, <3>4 DEF InOrder
  <2> QED BY <2>1, <2>2
<1>7. ASSUME OwnPage(s) PROVE LastEnd(t) = LastEnd(s)
  <2>1. n <= L /\ Left(s) = L BY <1>2, <1>7
  <2>2. CASE n = L
    <3>1. t.ends = <<>>
      <4>1. Len(t.ends) = 0 /\ t.ends \in Seq(Nat) BY <1>1, <1>3, <1>4, <2>2
      <4> QED BY <4>1, EmptySeq
    <3>2. LastEnd(t) = Reached(s, Left(s)) BY <1>3, <2>1, <2>2, <3>1 DEF LastEnd
    <3> QED BY <1>7, <3>2, Places
  <2>3. CASE n # L
    <3>1. Len(t.ends) = L - n /\ L - n \in Nat \ {0} BY <1>1, <1>3, <1>4, <2>1, <2>3
    <3>2. t.ends # <<>> BY <3>1, EmptySeq
    <3>3. t.ends[L - n] = s.ends[n + (L - n)]
      <4>1. L - n \in 1..(L - n) BY <3>1
      <4> QED BY <1>3, <1>4, <4>1
    <3>4. n + (L - n) = L BY <1>1
    <3>5. s.ends # <<>> BY <1>1, <2>1, <2>3, EmptySeq DEF L
    <3> QED BY <3>1, <3>2, <3>3, <3>4, <3>5 DEF LastEnd, L
  <2> QED BY <2>2, <2>3
<1> QED BY <1>3, <1>5, <1>6, <1>7 DEF t

---------------------------------------------------------------------------
(* The types of the fields.                                                 *)

LEMMA Fields ==
  ASSUME Typed
  PROVE  /\ Len(sizes) \in Nat /\ path \in Nat /\ path <= Len(sizes)
         /\ \A i \in 1..Len(sizes) : sizes[i] \in Nat
         /\ path # 0 => path \in 1..Len(sizes) /\ sizes[path] \in Nat
         /\ mtime \in Nat /\ mtime \in Dates /\ changes \in Nat /\ MaxChanges \in Nat
         /\ res.status \in Nat /\ res.length \in Length /\ res.date \in Dates \cup {None} /\ res.etag \in ETag
         /\ src.ino \in Nat /\ src.pos \in Nat /\ src.open \in BOOLEAN /\ src.started \in BOOLEAN
         /\ it.start \in Nat /\ it.stop \in Length /\ it.pos \in Nat
         /\ reply.status \in Nat /\ reply.length \in Length /\ reply.start \in Nat /\ reply.total \in Length
         /\ reply.dated \in BOOLEAN /\ client.dated \in BOOLEAN
         /\ client.bytes \in Seq(Octet) /\ Len(client.bytes) \in Nat
         /\ client.total \in Length /\ client.date \in Dates \cup {None} /\ client.etag \in ETag
         /\ Len(sent) \in Nat
<1>1. /\ Len(sizes) \in Nat /\ path \in Nat /\ path <= Len(sizes)
      /\ \A i \in 1..Len(sizes) : sizes[i] \in Nat
      /\ path # 0 => path \in 1..Len(sizes) /\ sizes[path] \in Nat
  BY LenProperties, ElementOfSeq DEF Typed
<1>2. mtime \in Nat /\ mtime \in Dates /\ changes \in Nat /\ MaxChanges \in Nat
  BY ServingAssumption DEF Typed, Dates
<1>3. res.status \in Nat /\ res.length \in Length /\ res.date \in Dates \cup {None} /\ res.etag \in ETag
  BY DEF Typed, Stats
<1>4. src.ino \in Nat /\ src.pos \in Nat /\ src.open \in BOOLEAN /\ src.started \in BOOLEAN
  BY DEF Typed, Source
<1>5. /\ it.start \in Nat /\ it.stop \in Length /\ it.pos \in Nat
      /\ reply.status \in Nat /\ reply.length \in Length /\ reply.start \in Nat /\ reply.total \in Length
  BY DEF Typed, Iter, Reply
<1>6. /\ client.bytes \in Seq(Octet) /\ reply.dated \in BOOLEAN /\ client.dated \in BOOLEAN
      /\ client.total \in Length /\ client.date \in Dates \cup {None} /\ client.etag \in ETag
  BY DEF Typed, Copy, Reply
<1>7. Len(client.bytes) \in Nat /\ Len(sent) \in Nat BY <1>6, LenProperties DEF Typed
<1> QED BY <1>1, <1>2, <1>3, <1>4, <1>5, <1>6, <1>7

LEMMA ReplyLike ==
  ASSUME NEW L, NEW r \in [status : Nat, length : L, start : Nat, total : L, dated : BOOLEAN],
         NEW s \in Nat, NEW d \in BOOLEAN
  PROVE  [r EXCEPT !.status = s, !.dated = d] \in [status : Nat, length : L, start : Nat, total : L, dated : BOOLEAN]
  OBVIOUS

LEMMA TagTypes == NoETag \in ETag /\ None \notin Nat /\ None \in Int /\ Dates \subseteq Nat /\ Garbled \notin Nat /\ Garbled # None
BY DEF NoETag, ETag, None, Dates, Garbled

LEMMA Records ==
  /\ Get \in Request /\ Blank \in Stats /\ NoSource \in Source /\ NoIter \in Iter
  /\ NoReply \in Reply /\ Nothing \in Copy
<1>1. Get \in Request BY TagTypes DEF Get, Request
<1>2. Blank \in Stats /\ NoIter \in Iter /\ NoReply \in Reply
  BY TagTypes DEF Blank, Stats, NoIter, Iter, Kinds, NoReply, Reply, Length
<1>3. NoSource \in Source BY EmptySeq DEF NoSource, Source
<1>4. Nothing \in Copy BY TagTypes, EmptySeq DEF Nothing, Copy, Length
<1> QED BY <1>1, <1>2, <1>3, <1>4

LEMMA DateTypes ==
  ASSUME Typed, Ordered
  PROVE  /\ res.date \in Int /\ client.date \in Int /\ mtime \in Nat
         /\ sharp => res.date <= mtime /\ client.date <= mtime
<1>1. res.date \in Dates \cup {None} /\ client.date \in Dates \cup {None} /\ mtime \in Nat BY Fields
<1>2. \A d \in Dates \cup {None} : d \in Int BY DEF Dates, None
<1>3. res.date \in Int /\ client.date \in Int BY <1>1, <1>2
<1>4. sharp => res.date <= mtime /\ client.date <= mtime BY DEF Ordered
<1> QED BY <1>1, <1>4, <1>3

---------------------------------------------------------------------------
(* The first state.                                                         *)

LEMMA InitHolds == Init => IInv
<1> SUFFICES ASSUME Init PROVE IInv
  OBVIOUS
<1>1. PICK n \in 1..MaxSize : sizes = <<n>> BY DEF Init
<1>2. sizes \in Seq(Nat) /\ Len(sizes) = 1 /\ n \in Nat BY <1>1, ServingAssumption
<1>3. Typed
  <2>1. 0 \in 0..MaxChanges /\ 1 \in Dates /\ path \in 0..Len(sizes) BY <1>2, ServingAssumption DEF Init, Dates
  <2>2. <<>> \in Seq(Octet) BY EmptySeq
  <2> QED BY <1>2, <2>1, <2>2, Records DEF Init, Typed
<1>4. Ordered
  BY <1>2 DEF Init, Ordered, Begun, NoSource, Blank, Nothing, None
<1>5. client.bytes = Data(1, 0, Len(client.bytes))
  <2>1. client.bytes = <<>> /\ Len(client.bytes) = 0 BY EmptySeq DEF Init, Nothing
  <2>2. Data(1, 0, 0) = <<>> BY DataEmpty
  <2> QED BY <2>1, <2>2
<1>6. Versions
  <2>1. client.etag = NoETag /\ client.date # mtime BY DEF Init, Nothing, None
  <2> QED BY <1>2, <1>5, <2>1 DEF Init, Versions, Sending
<1>7. (Begun => InOrder(src)) /\ Undisturbed /\ Tagged /\ Framing /\ Asked /\ Confirmed /\ Held
  BY DEF Init, Begun, Undisturbed, Tagged, Framing, Sending, Asked, Confirmed, Held, NoSource
<1> QED BY <1>3, <1>4, <1>6, <1>7 DEF IInv

---------------------------------------------------------------------------
(* The client sends a request, which it has from what it keeps.             *)

LEMMA SendKeeps ==
  ASSUME IInv, NEW r \in Request, AskedBy(r), Send(r)
  PROVE  IInv'
<1>1. /\ pc' = "stat" /\ req' = r /\ res' = Blank /\ src' = NoSource /\ it' = NoIter /\ reply' = NoReply
      /\ sent' = <<>> /\ still' = TRUE
      /\ source' = source /\ sizes' = sizes /\ path' = path /\ mtime' = mtime /\ changes' = changes
      /\ client' = client /\ sharp' = sharp
  BY DEF Send, disk
<1>2. Typed'
  <2>1. <<>> \in Seq(Octet) BY EmptySeq
  <2> QED BY <1>1, <2>1, Records DEF IInv, Typed
<1>3. Ordered'
  <2>1. None <= mtime BY Fields DEF IInv, None
  <2> QED BY <1>1, <2>1 DEF IInv, Ordered, Begun, NoSource, Blank
<1>4. Asked'
  <2>1. AskedBy(r)' BY <1>1 DEF AskedBy
  <2> QED BY <1>1, <2>1 DEF Asked
<1>5. Versions'
  BY <1>1 DEF IInv, Versions, OfVersion, Sending
<1>6. (Begun => InOrder(src))' /\ Undisturbed' /\ Tagged' /\ Framing' /\ Confirmed' /\ Held'
  BY <1>1 DEF Begun, Undisturbed, Tagged, Framing, Sending, Confirmed, Held
<1> QED BY <1>2, <1>3, <1>4, <1>5, <1>6 DEF IInv

LEMMA ClientKeeps == ASSUME IInv, Client PROVE IInv'
<1>1. /\ client.date \in Dates \cup {None} /\ client.etag \in ETag
      /\ Len(client.bytes) \in Nat
  BY Fields DEF IInv
<1>2. CASE Fetch
  <2>1. PICK m \in {"GET", "HEAD", "POST"} : Send([Get EXCEPT !.method = m]) BY <1>2 DEF Fetch
  <2> DEFINE r == [Get EXCEPT !.method = m]
  <2>2. r \in Request BY TagTypes DEF Get, Request
  <2>3. AskedBy(r) BY DEF AskedBy, Get
  <2> HIDE DEF r
  <2> QED BY <2>1, <2>2, <2>3, SendKeeps DEF r
<1>3. CASE Revalidate
  <2>1. PICK m \in {"GET", "HEAD"}, star \in BOOLEAN :
          Send([Get EXCEPT !.method = m, !.ims = client.date,
                !.inm = IF star THEN {NoETag} ELSE {client.etag} \ {NoETag}])
    BY <1>3 DEF Revalidate
  <2>2. PICK tags \in SUBSET {client.etag, NoETag} : tags = IF star THEN {NoETag} ELSE {client.etag} \ {NoETag}
    OBVIOUS
  <2> DEFINE r == [Get EXCEPT !.method = m, !.ims = client.date, !.inm = tags]
  <2>3. r \in Request BY <1>1, TagTypes DEF Get, Request
  <2>4. AskedBy(r) BY DEF AskedBy, Get
  <2>5. Send(r) BY <2>1, <2>2
  <2> HIDE DEF r
  <2> QED BY <2>3, <2>4, <2>5, SendKeeps
<1>4. CASE Resume
  <2> DEFINE byDate == [Get EXCEPT !.ranged = TRUE, !.first = Len(client.bytes), !.ifdate = client.date, !.resume = TRUE]
             byTag == [Get EXCEPT !.ranged = TRUE, !.first = Len(client.bytes), !.iftag = client.etag, !.resume = TRUE]
  <2>1. \/ client.date # None /\ Send(byDate)
        \/ client.etag # NoETag /\ Send(byTag)
    BY <1>4 DEF Resume
  <2>2. byDate \in Request /\ byTag \in Request BY <1>1, TagTypes DEF Get, Request
  <2>3. client.date # None => AskedBy(byDate) BY DEF AskedBy, Get
  <2>4. client.etag # NoETag => AskedBy(byTag) BY DEF AskedBy, Get
  <2> HIDE DEF byDate, byTag
  <2> QED BY <2>1, <2>2, <2>3, <2>4, SendKeeps
<1>5. CASE Probe
  <2>1. PICK a \in 0..MaxSize \cup {None}, b \in 0..MaxSize \cup {None}, d \in {None, Garbled}, m \in {"GET", "HEAD"} :
          Send([Get EXCEPT !.ranged = TRUE, !.first = a, !.last = b, !.ifdate = d, !.method = m])
    BY <1>5 DEF Probe
  <2> DEFINE r == [Get EXCEPT !.ranged = TRUE, !.first = a, !.last = b, !.ifdate = d, !.method = m]
  <2>2. a \in Nat \cup {None} /\ b \in Nat \cup {None} BY ServingAssumption
  <2>3. r \in Request BY <2>2, TagTypes DEF Get, Request
  <2>4. AskedBy(r) BY DEF AskedBy, Get
  <2>5. Send(r) BY <2>1
  <2> HIDE DEF r
  <2> QED BY <2>3, <2>4, <2>5, SendKeeps
<1> QED BY <1>2, <1>3, <1>4, <1>5 DEF Client

---------------------------------------------------------------------------
(* The file changes: an answer that is under way is disturbed, and what the *)
(* client has is of a version that is no longer there, unless dates repeat. *)

LEMMA ChangeKeeps ==
  ASSUME IInv, Change, UNCHANGED <<source, pc, req, app, sent, client>>,
         sizes' \in Seq(Nat), Len(sizes) <= Len(sizes'), path' \in 0..Len(sizes'),
         mtime' \in Dates, sharp' => mtime <= mtime',
         sharp' \in BOOLEAN, sharp' => sharp,
         path' = 0 \/ mtime < mtime' \/ ~sharp',
         (sharp' /\ pc = "open") => path' \in {0, path}
  PROVE  IInv'
<1>1. /\ pc' = pc /\ req' = req /\ res' = res /\ src' = src /\ it' = it /\ reply' = reply
      /\ sent' = sent /\ client' = client /\ source' = source
      /\ still' = (pc \in {"idle", "stat"}) /\ changes' = changes + 1 /\ changes < MaxChanges
  BY DEF app, Change
<1>2. mtime \in Nat /\ mtime' \in Nat /\ changes \in Nat /\ MaxChanges \in Nat
  BY <1>1, TagTypes, Fields DEF IInv
<1>3. /\ res.date \in Int /\ client.date \in Int /\ (sharp => res.date <= mtime /\ client.date <= mtime)
  BY DateTypes DEF IInv
<1>4. Typed' BY <1>1, <1>2 DEF IInv, Typed
<1>5. Ordered'
  <2>1. sharp' => res.date <= mtime' /\ client.date <= mtime' BY <1>2, <1>3
  <2>2. src.ino # 0 => src.ino <= Len(sizes')
    <3>1. Len(sizes) \in Nat /\ Len(sizes') \in Nat /\ src.ino \in Nat BY Fields, LenProperties DEF IInv
    <3> QED BY <3>1 DEF IInv, Ordered
  <2> QED BY <1>1, <2>1, <2>2 DEF IInv, Ordered, Begun
<1>6. Undisturbed'
  <2>1. sharp' /\ path' # 0 => res.date # mtime' BY <1>2, <1>3
  <2> QED BY <1>1, <2>1 DEF Undisturbed, Begun
<1>7. Tagged' /\ Framing'
  BY <1>1 DEF IInv, Tagged, Framing, Begun, Sending, Fits, Upto
<1>8. Asked' /\ Confirmed' /\ Held' /\ (Begun => InOrder(src))'
  BY <1>1 DEF IInv, Asked, AskedBy, Confirmed, Held, Sending, Begun
<1>9. Versions'
  <2>1. ASSUME sharp \/ ~client.dated
        PROVE  /\ \E i \in 1..Len(sizes') : client.bytes = Data(i, 0, Len(client.bytes))
               /\ client.etag # NoETag => OfVersion(client.etag.ino, client.etag.size)
               /\ (Sending /\ reply.status = 206 /\ req.resume /\ (sharp \/ ~reply.dated)) => OfVersion(src.ino, res.length)
    <3>1. Len(sizes) \in Nat /\ Len(sizes') \in Nat BY Fields, LenProperties DEF IInv
    <3> QED BY <2>1, <3>1 DEF IInv, Versions
  <2>2. ASSUME sharp'
        PROVE  /\ path' # 0 => client.date # mtime'
               /\ (pc \in {"open", "respond"} /\ Served0' # 0) => Served0' = Served0
    BY <1>1, <1>2, <1>3, <2>2 DEF Served0
  <2>3. sharp' => Versions /\ sharp BY DEF IInv
  <2> QED BY <1>1, <2>1, <2>2, <2>3 DEF Versions, OfVersion, Sending
<1> QED BY <1>4, <1>5, <1>6, <1>7, <1>8, <1>9 DEF IInv

LEMMA WorldKeeps == ASSUME IInv, World PROVE IInv'
<1>1. /\ Len(sizes) \in Nat /\ path \in Nat /\ path <= Len(sizes) /\ sizes \in Seq(Nat)
      /\ mtime \in Nat /\ mtime \in Dates /\ sharp \in BOOLEAN
  BY Fields DEF IInv, Typed
<1>2. CASE Replace
  <2>1. PICK n \in 1..MaxSize, d \in Dates :
          /\ Change /\ sizes' = Append(sizes, n) /\ path' = Len(sizes) + 1 /\ mtime' = d
          /\ sharp' = (sharp /\ d > mtime /\ ~(pc = "open" /\ source \in {"file", "wrap"}))
          /\ UNCHANGED <<source, requests, pc, req, app, sent, client>>
    BY <1>2 DEF Replace
  <2>2. n \in Nat BY ServingAssumption
  <2>3. sizes' \in Seq(Nat) /\ Len(sizes') = Len(sizes) + 1 BY <1>1, <2>1, <2>2
  <2>4. path' \in 0..Len(sizes') /\ Len(sizes) <= Len(sizes') BY <1>1, <2>1, <2>3
  <2>5. d \in Nat /\ mtime' \in Dates BY <2>1, TagTypes
  <2>6. sharp' \in BOOLEAN /\ (sharp' => sharp) /\ (sharp' => mtime <= mtime') /\ (mtime < mtime' \/ ~sharp')
    <3>1. sharp' \in BOOLEAN /\ (sharp' => sharp /\ d > mtime) BY <1>1, <2>1, Zenon
    <3>2. d > mtime => mtime <= mtime' /\ mtime < mtime' BY <1>1, <2>1, <2>5
    <3> QED BY <3>1, <3>2, Zenon
  <2>7. ~(sharp' /\ pc = "open") BY <2>1 DEF IInv, Ordered
  <2>8. UNCHANGED <<source, pc, req, app, sent, client>> BY <2>1
  <2> QED BY <2>1, <2>3, <2>4, <2>5, <2>6, <2>7, <2>8, ChangeKeeps
<1>3. CASE Resize
  <2>1. PICK n \in (0..MaxSize) \ {Size}, d \in Dates :
          sizes' = [sizes EXCEPT ![path] = n] /\ mtime' = d /\ sharp' = (sharp /\ d > mtime)
    BY <1>3 DEF Resize
  <2>2. n \in Nat /\ path \in 1..Len(sizes) BY <1>1, <1>3, ServingAssumption DEF Resize
  <2>3. sizes' \in Seq(Nat) /\ Len(sizes') = Len(sizes) BY <1>1, <2>1, <2>2, ExceptSeq
  <2>4. Change /\ path' = path /\ UNCHANGED <<source, pc, req, app, sent, client>>
    BY <1>3 DEF Resize
  <2>5. d \in Nat /\ mtime' \in Dates BY <2>1, TagTypes
  <2>6. sharp' \in BOOLEAN /\ (sharp' => sharp) /\ (sharp' => mtime <= mtime') /\ (mtime < mtime' \/ ~sharp')
    <3>1. sharp' \in BOOLEAN /\ (sharp' => sharp /\ d > mtime) BY <1>1, <2>1, Zenon
    <3>2. d > mtime => mtime <= mtime' /\ mtime < mtime' BY <1>1, <2>1, <2>5
    <3> QED BY <3>1, <3>2, Zenon
  <2>7. path' \in 0..Len(sizes') /\ Len(sizes) <= Len(sizes') BY <1>1, <2>3, <2>4
  <2>8. (sharp' /\ pc = "open") => path' \in {0, path} BY <2>4
  <2> QED BY <1>1, <2>3, <2>4, <2>5, <2>6, <2>7, <2>8, ChangeKeeps
<1>4. CASE Delete
  <2>1. /\ Change /\ path' = 0 /\ sizes' = sizes /\ mtime' = mtime /\ sharp' = sharp
        /\ UNCHANGED <<source, pc, req, app, sent, client>>
    BY <1>4 DEF Delete
  <2>2. sharp' => mtime <= mtime' BY <1>1, <2>1
  <2>3. path' \in 0..Len(sizes') /\ Len(sizes) <= Len(sizes') BY <1>1, <2>1
  <2> QED BY <1>1, <2>1, <2>2, <2>3, ChangeKeeps
<1> QED BY <1>2, <1>3, <1>4 DEF World

---------------------------------------------------------------------------
(* Up to the response.                                                      *)

LEMMA ShutSame ==
  ASSUME NEW s \in Source
  PROVE  /\ Shut(s) \in Source /\ Shut(s).open = FALSE
         /\ Shut(s).kind = s.kind /\ Shut(s).ino = s.ino /\ Shut(s).pos = s.pos
         /\ Shut(s).ends = s.ends /\ Shut(s).started = s.started
BY DEF Shut, Source

LEMMA NoSourceOrdered ==
  /\ InOrder(NoSource) /\ NoSource.ino = 0 /\ NoSource.open = FALSE /\ NoSource.kind = "none"
  /\ NoSource.pos = 0 /\ NoSource.ends = <<>> /\ ~OwnPage(NoSource)
BY EmptySeq DEF NoSource, InOrder, OwnPage

LEMMA CutsEnd ==
  ASSUME NEW n \in Nat, NEW cut \in Cuts(n)
  PROVE  /\ cut \in Seq(Nat) /\ cut # <<>> /\ cut[Len(cut)] = n
         /\ \A k \in 1..Len(cut) : 0 <= cut[k] /\ \A j \in 1..k : cut[j] <= cut[k]
<1>1. CASE cut = <<n>>
  <2>1. cut \in Seq(Nat) /\ Len(cut) = 1 /\ cut[1] = n BY <1>1
  <2>2. cut # <<>> BY <2>1, EmptySeq
  <2>3. \A k \in 1..Len(cut) : k = 1 /\ \A j \in 1..k : j = 1 BY <2>1
  <2> QED BY <2>1, <2>2, <2>3
<1>2. CASE cut = [i \in 1..(n + 1) |-> i - 1]
  <2>1. n + 1 \in Nat /\ \A i \in 1..(n + 1) : i - 1 \in Nat OBVIOUS
  <2>2. cut \in [1..(n + 1) -> Nat] BY <1>2, <2>1
  <2>3. cut \in Seq(Nat) /\ Len(cut) = n + 1 BY <1>2, <2>1, <2>2
  <2>4. \A k \in 1..(n + 1) : cut[k] = k - 1 BY <1>2
  <2>5. n + 1 \in 1..(n + 1) OBVIOUS
  <2>6. cut # <<>> BY <2>3, EmptySeq
  <2>7. cut[n + 1] = n BY <2>4, <2>5
  <2>8. ASSUME NEW k \in 1..(n + 1) PROVE 0 <= cut[k] /\ \A j \in 1..k : cut[j] <= cut[k]
    <3>1. cut[k] = k - 1 BY <2>4
    <3>2. \A j \in 1..k : j \in 1..(n + 1) /\ cut[j] = j - 1 BY <2>4
    <3> QED BY <3>1, <3>2
  <2> QED BY <2>3, <2>6, <2>7, <2>8
<1> QED BY <1>1, <1>2 DEF Cuts

\* A page of the server's own instead of what was asked for.
LEMMA PageKeeps ==
  ASSUME IInv, pc \in {"stat", "open", "respond"},
         NEW status \in Nat \ {200, 206, 304}, Answer(status, 0, [NoIter EXCEPT !.kind = "page"]),
         req' \in Request, UNCHANGED <<source, disk, res, sent, client, sharp>>,
         still' \in BOOLEAN, res = Blank \/ still' = still,
         src' = src \/ (pc = "respond" /\ src' = Shut(src)), src'.open => status = 500 \/ src'.kind = "file"
  PROVE  IInv'
<1>1. /\ source' = source /\ sizes' = sizes /\ path' = path /\ mtime' = mtime /\ changes' = changes
      /\ res' = res /\ sent' = sent /\ client' = client /\ sharp' = sharp
      /\ pc' = "sending" /\ it' = [NoIter EXCEPT !.kind = "page"]
      /\ reply' = [NoReply EXCEPT !.status = status, !.length = 0]
  BY DEF disk, Answer
<1>2. /\ it'.kind = "page" /\ it' \in Iter
      /\ reply'.status = status /\ reply'.start = 0 /\ reply' \in Reply
  <2>1. 0 \in Length BY DEF Length
  <2>2. it'.kind = "page" /\ it' \in Iter BY <1>1, Records DEF NoIter, Iter, Kinds
  <2>3. /\ reply'.status = status /\ reply'.start = 0 /\ reply' \in Reply
    BY <1>1, <2>1, Records DEF NoReply, Reply
  <2> QED BY <2>2, <2>3
<1>3. /\ src' \in Source /\ src'.kind = src.kind /\ src'.ino = src.ino /\ src'.pos = src.pos
      /\ src'.ends = src.ends /\ src'.started = src.started
  <2>1. src \in Source BY DEF IInv, Typed
  <2>2. CASE src' = src BY <2>1, <2>2
  <2>3. CASE src' = Shut(src) BY <2>1, <2>3, ShutSame
  <2> QED BY <2>2, <2>3
<1>4. src.ino = 0 => src = NoSource /\ src' = NoSource
  <2>1. src.ino = 0 => src = NoSource BY DEF IInv, Ordered
  <2>2. src.ino = 0 => pc # "respond" BY DEF IInv, Ordered
  <2> QED BY <2>1, <2>2
<1>5. sent = <<>> BY DEF IInv, Ordered
<1>6. InOrder(src) BY NoSourceOrdered DEF IInv, Ordered, Begun
<1>7. res.date # None => Begun /\ still' = still
  BY DEF IInv, Ordered, Begun, Blank
<1>8. Typed' BY <1>1, <1>2, <1>3 DEF IInv, Typed
<1>9. Ordered' BY <1>1, <1>3, <1>4, <1>7 DEF IInv, Ordered, Begun
<1>10. (Begun => InOrder(src))' BY <1>3, <1>6 DEF InOrder, OwnPage
<1>11. \A n \in Nat : Fits(n) => Fits(n)'
  BY <1>1, <1>2, <1>3 DEF Fits, OwnPage, LastEnd, Upto
<1>12. Undisturbed'
  <2> SUFFICES ASSUME res.date # None, still' \/ (sharp /\ path # 0 /\ res.date = mtime)
               PROVE  /\ path # 0 /\ res.date = mtime
                      /\ src.ino # 0 => src.ino = path
                      /\ Fits(sizes[path])'
    BY <1>1, <1>3 DEF Undisturbed
  <2>1. /\ path # 0 /\ res.date = mtime
        /\ src.ino # 0 => src.ino = path
        /\ Fits(sizes[path])
    BY <1>7 DEF IInv, Undisturbed
  <2>2. sizes[path] \in Nat BY <2>1, Fields DEF IInv
  <2>3. PICK n \in Nat : n = sizes[path] BY <2>2
  <2>4. Fits(n)' BY <1>11, <2>1, <2>3
  <2> QED BY <1>1, <2>1, <2>3, <2>4
<1>13. Tagged'
  <2> SUFFICES ASSUME res.etag # NoETag
               PROVE  /\ res.etag.ino = src.ino /\ OwnPage(src)' /\ Fits(res.etag.size)'
    BY <1>1, <1>3 DEF Tagged
  <2>1. Begun BY DEF IInv, Ordered, Begun, Blank
  <2>2. res.etag.ino = src.ino /\ OwnPage(src) /\ Fits(res.etag.size) BY <2>1 DEF IInv, Tagged
  <2>3. res.etag.size \in Nat BY Fields DEF IInv, ETag
  <2>4. PICK n \in Nat : n = res.etag.size BY <2>3
  <2>5. Fits(n)' BY <1>11, <2>2, <2>4
  <2> QED BY <1>1, <1>3, <2>2, <2>4, <2>5 DEF OwnPage
<1>14. Framing'
  <2>1. src'.ino \in Nat BY <1>3 DEF Source
  <2>2. Data(src'.ino, 0, 0) = <<>> BY <2>1, DataEmpty
  <2>3. Upto' = 0 BY <1>2 DEF Upto
  <2> QED BY <1>1, <1>2, <1>5, <2>2, <2>3 DEF Framing
<1>15. Versions' BY <1>1, <1>2 DEF IInv, Versions, OfVersion, Sending
<1>16. Asked' /\ Confirmed' BY <1>1, <1>2 DEF Asked, Confirmed
<1>17. Held' BY <1>2 DEF Held
<1> QED BY <1>8, <1>9, <1>10, <1>12, <1>13, <1>14, <1>15, <1>16, <1>17 DEF IInv

LEMMA StatKeeps == ASSUME IInv, Stat PROVE IInv'
<1>1. /\ pc = "stat" /\ still' = TRUE /\ source \in {"file", "wrap"} /\ res = Blank /\ src = NoSource
      /\ UNCHANGED <<source, disk, req, sent, client, sharp>>
  BY DEF Stat, IInv, Ordered
<1>2. CASE req.method = "POST" \/ path = 0
  <2>1. PICK status \in {404, 405} : Answer(status, 0, [NoIter EXCEPT !.kind = "page"]) /\ UNCHANGED <<res, src>>
    BY <1>2 DEF Stat
  <2>2. ~src'.open BY <1>1, <2>1, NoSourceOrdered
  <2>3. req' \in Request /\ still' \in BOOLEAN BY <1>1 DEF IInv, Typed
  <2>4. status \in Nat \ {200, 206, 304} OBVIOUS
  <2> QED BY <1>1, <2>1, <2>2, <2>3, <2>4, PageKeeps
<1>3. CASE ~(req.method = "POST" \/ path = 0)
  <2>1. /\ res' = [status |-> 200, length |-> Size, date |-> mtime, etag |-> NoETag]
        /\ pc' = "open" /\ src' = src /\ it' = it /\ reply' = reply /\ path # 0
        /\ source' = source /\ sizes' = sizes /\ path' = path /\ mtime' = mtime /\ changes' = changes
        /\ req' = req /\ sent' = sent /\ client' = client /\ sharp' = sharp
    BY <1>1, <1>3 DEF Stat, disk
  <2>2. sizes[path] \in Nat /\ mtime \in Dates /\ mtime \in Nat BY <2>1, Fields DEF IInv
  <2>3. /\ res'.status = 200 /\ res'.length = sizes[path] /\ res'.date = mtime /\ res'.etag = NoETag
        /\ res' \in Stats
    BY <2>1, <2>2, TagTypes DEF Size, Stats, Length
  <2>4. src.ino = 0 /\ ~OwnPage(src) /\ InOrder(src) BY <1>1, NoSourceOrdered
  <2>5. Typed' BY <1>1, <2>1, <2>3 DEF IInv, Typed
  <2>6. Ordered'
    <3>1. mtime # None BY <2>2, TagTypes
    <3> QED BY <1>1, <2>1, <2>2, <2>3, <2>4, <3>1 DEF IInv, Ordered
  <2>7. (Begun => InOrder(src))' /\ Tagged' BY <2>1, <2>3, <2>4 DEF InOrder, OwnPage, Tagged
  <2>8. Undisturbed'
    BY <2>1, <2>3, <2>4 DEF Undisturbed, Fits, OwnPage
  <2>9. Framing' /\ Confirmed' /\ Held'
    BY <2>1 DEF Framing, Confirmed, Held, Sending
  <2>10. Asked' BY <1>1, <2>1 DEF IInv, Asked, AskedBy
  <2>11. Versions'
    <3>1. (sharp /\ client.date = mtime) => OfVersion(path, sizes[path]) BY <2>1 DEF IInv, Versions
    <3> QED BY <2>1, <2>3, <3>1 DEF IInv, Versions, OfVersion, Served0, Sending
  <2> QED BY <2>5, <2>6, <2>7, <2>8, <2>9, <2>10, <2>11 DEF IInv
<1> QED BY <1>2, <1>3

LEMMA OpenKeeps == ASSUME IInv, Open PROVE IInv'
<1>1. /\ pc = "open" /\ source \in {"file", "wrap"} /\ src = NoSource /\ res.etag = NoETag /\ res.date # None
      /\ UNCHANGED <<source, disk, req, sent, client, still, sharp>>
  BY DEF Open, IInv, Ordered
<1>2. CASE path = 0
  <2>1. Answer(403, 0, [NoIter EXCEPT !.kind = "page"]) /\ UNCHANGED <<res, src>> BY <1>2 DEF Open
  <2>2. ~src'.open BY <1>1, <2>1, NoSourceOrdered
  <2>3. req' \in Request /\ still' \in BOOLEAN BY <1>1 DEF IInv, Typed
  <2>4. 403 \in Nat \ {200, 206, 304} OBVIOUS
  <2> QED BY <1>1, <2>1, <2>2, <2>3, <2>4, PageKeeps
<1>3. CASE path # 0
  <2>1. /\ src' = [NoSource EXCEPT !.kind = source, !.ino = path, !.open = TRUE]
        /\ pc' = "respond" /\ res' = res /\ it' = it /\ reply' = reply
        /\ source' = source /\ sizes' = sizes /\ path' = path /\ mtime' = mtime /\ changes' = changes
        /\ req' = req /\ sent' = sent /\ client' = client /\ sharp' = sharp /\ still' = still
    BY <1>1, <1>3 DEF Open, disk
  <2>2. sizes[path] \in Nat /\ path \in Nat /\ path <= Len(sizes) BY <1>3, Fields DEF IInv
  <2>3. /\ src'.kind = source /\ src'.ino = path /\ src'.pos = 0 /\ src'.ends = <<>> /\ ~src'.started
        /\ src' \in Source
    BY <1>1, <2>1, <2>2, Records DEF NoSource, Source
  <2>4. InOrder(src)' /\ ~OwnPage(src)' BY <1>1, <2>3, EmptySeq DEF InOrder, OwnPage
  <2>5. Typed' BY <1>1, <2>1, <2>3 DEF IInv, Typed
  <2>6. Ordered' BY <1>1, <1>3, <2>1, <2>2, <2>3 DEF IInv, Ordered, Begun
  <2>7. Tagged' BY <1>1, <2>1 DEF Tagged
  <2>8. Undisturbed'
    <3>1. (still \/ (sharp /\ path # 0 /\ res.date = mtime)) =>
            /\ path # 0 /\ res.date = mtime
            /\ res.length \in {None, sizes[path]}
      BY <1>1 DEF IInv, Undisturbed, Begun, Fits
    <3> QED BY <2>1, <2>2, <2>3, <2>4, <3>1 DEF Undisturbed, Fits, Sending
  <2>9. Framing' /\ Confirmed' /\ Held'
    BY <2>1 DEF Framing, Confirmed, Held, Sending
  <2>10. Asked' BY <1>1, <2>1 DEF IInv, Asked, AskedBy
  <2>11. Versions'
    <3>1. (sharp /\ client.date = res.date) => OfVersion(path, res.length)
      BY <1>1, <1>3 DEF IInv, Versions, Served0
    <3> QED BY <2>1, <2>3, <3>1 DEF IInv, Versions, OfVersion, Served0, Sending
  <2> QED BY <2>4, <2>5, <2>6, <2>7, <2>8, <2>9, <2>10, <2>11 DEF IInv
<1> QED BY <1>2, <1>3

LEMMA MakeKeeps == ASSUME IInv, Make PROVE IInv'
<1>1. /\ pc = "stat" /\ src = NoSource /\ res = Blank
      /\ UNCHANGED <<source, disk, req, sent, client, still, sharp>>
  BY DEF Make, IInv, Ordered
<1>2. CASE path = 0
  <2>1. Answer(404, 0, [NoIter EXCEPT !.kind = "page"]) /\ UNCHANGED <<res, src>> BY <1>2 DEF Make
  <2>2. ~src'.open BY <1>1, <2>1, NoSourceOrdered
  <2>3. req' \in Request /\ still' \in BOOLEAN BY <1>1 DEF IInv, Typed
  <2>4. 404 \in Nat \ {200, 206, 304} OBVIOUS
  <2> QED BY <1>1, <2>1, <2>2, <2>3, <2>4, PageKeeps
<1>3. CASE path # 0
  <2>1. /\ pc' = "respond" /\ it' = it /\ reply' = reply
        /\ source' = source /\ sizes' = sizes /\ path' = path /\ mtime' = mtime /\ changes' = changes
        /\ req' = req /\ sent' = sent /\ client' = client /\ sharp' = sharp /\ still' = still
    BY <1>1, <1>3 DEF Make, disk
  <2>2. PICK cut \in Cuts(Size), p \in Pages :
          /\ res' = [status |-> p.status, length |-> IF p.known THEN Size ELSE None, date |-> mtime,
                     etag |-> IF p.tag = "none" THEN NoETag
                              ELSE [ino |-> path, size |-> Size, weak |-> p.tag = "weak"]]
          /\ src' = [NoSource EXCEPT !.kind = p.kind, !.ino = path, !.ends = cut, !.open = TRUE]
    BY <1>3 DEF Make
  <2>3. PICK n \in Nat : n = Size BY <1>3, Fields DEF IInv, Size
  <2>4. /\ path \in Nat /\ path <= Len(sizes) /\ mtime \in Dates /\ mtime \in Nat BY Fields DEF IInv
  <2>5. cut \in Seq(Nat) /\ cut # <<>> /\ cut[Len(cut)] = n
        /\ \A k \in 1..Len(cut) : 0 <= cut[k] /\ \A j \in 1..k : cut[j] <= cut[k]
    BY <2>3, CutsEnd
  <2>6. p.kind \in {"gen", "object"} /\ p.status \in {200, 404} BY ServingAssumption DEF Page
  <2>7. /\ src'.kind \in {"gen", "object"} /\ src'.ino = path /\ src'.pos = 0 /\ src'.ends = cut /\ ~src'.started
        /\ src' \in Source
    BY <2>2, <2>4, <2>5, <2>6, Records DEF NoSource, Source
  <2>8. PICK tag \in ETag :
          /\ tag = IF p.tag = "none" THEN NoETag ELSE [ino |-> path, size |-> n, weak |-> p.tag = "weak"]
          /\ tag # NoETag => tag.ino = path /\ tag.size = n
    <3>1. CASE p.tag = "none" BY <3>1, TagTypes
    <3>2. CASE p.tag # "none"
      <4>1. PICK weak \in BOOLEAN : weak = (p.tag = "weak") OBVIOUS
      <4>2. [ino |-> path, size |-> n, weak |-> weak] \in ETag BY <2>4 DEF ETag
      <4> QED BY <3>2, <4>1, <4>2
    <3> QED BY <3>1, <3>2
  <2>9. /\ res'.status \in {200, 404} /\ res'.length \in {n, None} /\ res'.date = mtime /\ res'.etag = tag
        /\ res' \in Stats
    BY <2>2, <2>3, <2>4, <2>6, <2>8 DEF Stats, Length
  <2>10. OwnPage(src)' /\ InOrder(src)' BY <2>5, <2>7 DEF InOrder, OwnPage
  <2>11. Fits(n)'
    <3>1. LastEnd(src)' = n BY <2>5, <2>7 DEF LastEnd
    <3>2. ~Sending' BY <2>1 DEF Sending
    <3> QED BY <2>7, <2>9, <3>1, <3>2 DEF Fits
  <2>12. Typed' BY <2>1, <2>7, <2>9 DEF IInv, Typed
  <2>13. Ordered'
    <3>1. mtime # None BY <2>4, TagTypes
    <3> QED BY <1>1, <1>3, <2>1, <2>4, <2>7, <2>9, <3>1 DEF IInv, Ordered, Begun
  <2>14. Tagged' BY <2>7, <2>8, <2>9, <2>10, <2>11 DEF Tagged
  <2>15. Undisturbed'
    BY <1>3, <2>1, <2>3, <2>7, <2>9, <2>11 DEF Undisturbed, Size
  <2>16. Framing' /\ Confirmed' /\ Held'
    BY <2>1 DEF Framing, Confirmed, Held, Sending
  <2>17. Asked' BY <1>1, <2>1 DEF IInv, Asked, AskedBy
  <2>18. Versions'
    <3>1. (sharp /\ client.date = mtime) => OfVersion(path, n)
      BY <1>3, <2>3 DEF IInv, Versions, Size
    <3>2. (sharp /\ client.date = mtime) => OfVersion(path, res.length)'
      BY <2>1, <2>9, <3>1 DEF OfVersion
    <3> QED BY <2>1, <2>7, <2>9, <3>2 DEF IInv, Versions, OfVersion, Served0, Sending
  <2> QED BY <2>10, <2>12, <2>13, <2>14, <2>15, <2>16, <2>17, <2>18 DEF IInv
<1> QED BY <1>2, <1>3

---------------------------------------------------------------------------
(* The response.                                                            *)

LEMMA RangeNumbers ==
  ASSUME NEW r \in Request, NEW n \in Nat, Satisfiable(r, n)
  PROVE  /\ Start(r, n) \in Nat /\ Stop(r, n) \in Nat
         /\ Start(r, n) < Stop(r, n) /\ Stop(r, n) <= n
         /\ r.first # None => Start(r, n) = r.first
<1>1. r.first \in Nat \cup {None} /\ r.last \in Nat \cup {None} BY DEF Request
<1>2. r.first \in Int /\ r.last \in Int BY <1>1 DEF None
<1>3. Start(r, n) \in Int BY <1>2 DEF Start
<1>4. Stop(r, n) \in Int /\ Stop(r, n) <= n BY <1>2 DEF Stop, Least
<1>5. 0 <= Start(r, n) /\ Start(r, n) < Stop(r, n) BY DEF Satisfiable
<1>6. r.first # None => Start(r, n) = r.first BY DEF Start
<1> QED BY <1>3, <1>4, <1>5, <1>6

\* What all the answers have in common that are made of the response.
LEMMA AnswerKeeps ==
  ASSUME IInv, pc = "respond", pc' = "sending", reply' \in Reply, it' \in Iter, src' = src,
         req' = [Get EXCEPT !.method = req.method, !.resume = req.resume],
         UNCHANGED <<source, disk, requests, res, sent, client, still, sharp>>,
         it'.kind # "page", Upto' = reply'.start,
         reply'.start = 0 \/ (res.length # None /\ reply'.start <= res.length),
         Framing', Versions', Confirmed'
  PROVE  IInv'
<1>1. /\ source' = source /\ sizes' = sizes /\ path' = path /\ mtime' = mtime /\ changes' = changes
      /\ res' = res /\ sent' = sent /\ client' = client /\ sharp' = sharp /\ still' = still /\ src' = src
  BY DEF disk
<1>2. src.ino # 0 /\ Begun /\ InOrder(src) /\ res.date # None BY DEF IInv, Ordered, Begun
<1>3. reply'.start \in Nat BY DEF Reply
<1>4. req' \in Request
  <2>1. req.method \in {"GET", "HEAD", "POST"} /\ req.resume \in BOOLEAN BY DEF IInv, Typed, Request
  <2> QED BY <2>1, Records DEF Get, Request
<1>5. Typed' BY <1>1, <1>4 DEF IInv, Typed
<1>6. Ordered' BY <1>1, <1>2 DEF IInv, Ordered, Begun
<1>7. (Begun => InOrder(src))' BY <1>1, <1>2 DEF InOrder, OwnPage
<1>8. \A n \in Nat : Fits(n) => Fits(n)'
  <2> TAKE n \in Nat
  <2> HAVE Fits(n)
  <2>1. Upto' <= n
    <3>1. res.length \in {None, n} BY DEF Fits
    <3> QED BY <1>3, <3>1
  <2> QED BY <1>1, <1>2, <2>1 DEF Fits, OwnPage, LastEnd
<1>9. Undisturbed'
  <2> SUFFICES ASSUME still \/ (sharp /\ path # 0 /\ res.date = mtime)
               PROVE  /\ path # 0 /\ res.date = mtime
                      /\ src.ino # 0 => src.ino = path
                      /\ Fits(sizes[path])'
    BY <1>1 DEF Undisturbed
  <2>1. /\ path # 0 /\ res.date = mtime
        /\ src.ino # 0 => src.ino = path
        /\ Fits(sizes[path])
    BY <1>2 DEF IInv, Undisturbed
  <2>2. sizes[path] \in Nat BY <2>1, Fields DEF IInv
  <2>3. PICK n \in Nat : n = sizes[path] BY <2>2
  <2>4. Fits(n)' BY <1>8, <2>1, <2>3
  <2> QED BY <1>1, <2>1, <2>3, <2>4
<1>10. Tagged'
  <2> SUFFICES ASSUME res.etag # NoETag
               PROVE  /\ res.etag.ino = src.ino /\ OwnPage(src)' /\ Fits(res.etag.size)'
    BY <1>1 DEF Tagged
  <2>1. res.etag.ino = src.ino /\ OwnPage(src) /\ Fits(res.etag.size) BY <1>2 DEF IInv, Tagged
  <2>2. res.etag.size \in Nat BY Fields DEF IInv, ETag
  <2>3. PICK n \in Nat : n = res.etag.size BY <2>2
  <2>4. Fits(n)' BY <1>8, <2>1, <2>3
  <2> QED BY <1>1, <2>1, <2>3, <2>4 DEF OwnPage
<1>11. Asked' /\ Held' BY <1>1 DEF Asked, Held
<1> QED BY <1>5, <1>6, <1>7, <1>9, <1>10, <1>11 DEF IInv

LEMMA RespondKeeps == ASSUME IInv, Respond PROVE IInv'
<1> DEFINE safe  == req.method \in {"GET", "HEAD"}
           n     == res.length
           same  == safe /\ NotModified(req, res)
           raises == Unreadable(req) \/ Uncomparable(req, res)
           ranged == /\ safe /\ ~raises /\ Satisfies(req) /\ InIfRange(req, res)
                     /\ res.status = 200 /\ n # None
           a == Start(req, n)
           b == Stop(req, n)
<1>1. /\ pc = "respond" /\ src.ino # 0 /\ src.pos = 0 /\ res.date # None /\ sent = <<>>
      /\ src.kind # "none" /\ res.status \in {0, 200, 404}
      /\ req' = [Get EXCEPT !.method = req.method, !.resume = req.resume]
      /\ UNCHANGED <<source, disk, requests, res, sent, client, still, sharp>>
  BY DEF IInv, Ordered, Respond
<1>2. /\ req \in Request /\ src \in Source /\ res \in Stats
      /\ req'.method = req.method /\ req'.resume = req.resume /\ req' \in Request
  <2>1. req \in Request /\ src \in Source /\ res \in Stats BY DEF IInv, Typed
  <2>2. req.method \in {"GET", "HEAD", "POST"} /\ req.resume \in BOOLEAN BY <2>1 DEF Request
  <2>3. req'.method = req.method /\ req'.resume = req.resume BY <1>1 DEF Get
  <2>4. [Get EXCEPT !.method = req.method, !.resume = req.resume] \in Request
    BY <2>2, TagTypes DEF Get, Request
  <2> QED BY <1>1, <2>1, <2>3, <2>4
<1>3. /\ res' = res /\ sent' = sent /\ client' = client /\ still' = still /\ sharp' = sharp
      /\ sizes' = sizes /\ path' = path /\ mtime' = mtime
  BY <1>1 DEF disk
<1>4. \A k \in Nat : Data(src.ino, k, k) = <<>>
  <2>1. src.ino \in Nat BY <1>2 DEF Source
  <2> QED BY <2>1, DataEmpty
<1>5. (pc' = "sending" /\ ~(reply'.status = 206 /\ req'.resume)) => Versions'
  BY <1>1, <1>3 DEF IInv, Versions, OfVersion
\* Not modified.
<1> DEFINE dated == ~(Quoted(req) /\ res.etag # NoETag)
<1>6. CASE /\ same /\ reply' = [NoReply EXCEPT !.status = 304, !.dated = dated]
           /\ it' = Empty(WholeIter) /\ pc' = "sending" /\ UNCHANGED src
  <2>1. /\ reply' = [NoReply EXCEPT !.status = 304, !.dated = dated] /\ it' = Empty(WholeIter)
        /\ pc' = "sending" /\ src' = src
    BY <1>6
  <2>2. /\ reply'.status = 304 /\ reply'.start = 0 /\ reply'.dated = dated /\ reply' \in Reply
        /\ it'.kind = "empty" /\ it' \in Iter /\ (it'.over \in {"fileiter", "filerange"} => src.kind = "file")
    <3>1. reply'.status = 304 /\ reply'.start = 0 /\ reply'.dated = dated BY <2>1 DEF NoReply
    <3>2. PICK r \in Reply : r = NoReply BY Records
    <3>3. PICK s \in Nat, d \in BOOLEAN : s = 304 /\ d = dated
      <4>1. dated \in BOOLEAN OBVIOUS
      <4>2. 304 \in Nat OBVIOUS
      <4> HIDE DEF dated
      <4> QED BY ONLY <4>1, <4>2, Zenon
    <3>4. [r EXCEPT !.status = s, !.dated = d] \in Reply
      BY ONLY r \in Reply, s \in Nat, d \in BOOLEAN, ReplyLike DEF Reply
    <3>5. [NoReply EXCEPT !.status = 304, !.dated = dated] \in Reply BY ONLY <3>2, <3>3, <3>4
    <3>6. PICK k \in {"plain", "fileiter"} : k = WholeIter.kind /\ (k = "fileiter" => src.kind = "file")
      BY DEF WholeIter, NoIter
    <3>7. it' = [NoIter EXCEPT !.kind = "empty", !.over = k] BY <2>1, <3>6 DEF Empty
    <3>8. PICK z \in Iter : z = NoIter BY Records
    <3>9. k \in Kinds BY <3>6 DEF Kinds
    <3>10. it' \in Iter
      <4>1. "empty" \in Kinds BY DEF Kinds
      <4>2. [z EXCEPT !.kind = "empty", !.over = k] \in Iter BY ONLY z \in Iter, <3>9, <4>1 DEF Iter
      <4> QED BY <3>7, <3>8, <4>2
    <3>11. it'.kind = "empty" /\ it'.over = k BY <3>7 DEF NoIter
    <3>12. it'.over \in {"fileiter", "filerange"} => src.kind = "file" BY <3>6, <3>11
    <3>13. reply' \in Reply BY <2>1, <3>5
    <3> QED BY <3>1, <3>10, <3>11, <3>12, <3>13
  <2>3. Upto' = 0 BY <2>2 DEF Upto
  <2>4. Framing' BY <1>1, <1>3, <1>4, <2>1, <2>2, <2>3 DEF Framing
  <2>5. Confirmed'
    <3>1. AskedBy(req) BY <1>1 DEF IInv, Asked
    <3>2. CASE Quoted(req) /\ res.etag # NoETag
      <4>1. PICK t \in req.inm : SameTag(t, res.etag) BY <1>6, <3>2 DEF NotModified
      <4>2. t # NoETag /\ t \in {client.etag, NoETag} BY <3>1, <3>2 DEF Quoted, AskedBy
      <4>3. ~reply'.dated BY <2>2, <3>2
      <4> QED BY <1>3, <3>2, <4>1, <4>2, <4>3 DEF Confirmed
    <3>3. CASE ~(Quoted(req) /\ res.etag # NoETag)
      <4>1. req.ims # None /\ res.date <= req.ims BY <1>6, <3>3 DEF NotModified
      <4>2. req.ims = client.date BY <3>1, <4>1 DEF AskedBy
      <4>3. reply'.dated BY <2>2, <3>3
      <4> QED BY <1>3, <4>1, <4>2, <4>3 DEF Confirmed
    <3> QED BY <3>2, <3>3
  <2>6. Versions' BY <1>5, <2>1, <2>2
  <2> HIDE DEF safe, n, same, raises, ranged, a, b
  <2> QED BY <1>1, <2>1, <2>2, <2>3, <2>4, <2>5, <2>6, AnswerKeeps
\* The errors.
<1>7. CASE Answer(500, 0, [NoIter EXCEPT !.kind = "page"]) /\ UNCHANGED src
  <2>1. still' \in BOOLEAN /\ 500 \in Nat \ {200, 206, 304} BY <1>3 DEF IInv, Typed
  <2> HIDE DEF safe, n, same, raises, ranged, a, b
  <2> QED BY <1>1, <1>2, <1>3, <1>7, <2>1, PageKeeps
<1>8. CASE Answer(416, 0, [NoIter EXCEPT !.kind = "page"]) /\ src' = Unsatisfied(src)
  <2>1. still' \in BOOLEAN /\ 416 \in Nat \ {200, 206, 304} BY <1>3 DEF IInv, Typed
  <2>2. src' = src \/ src' = Shut(src) BY <1>8 DEF Unsatisfied
  <2>3. src'.open => src'.kind = "file" BY <1>2, <1>8, ShutSame DEF Unsatisfied, Closable
  <2> HIDE DEF safe, n, same, raises, ranged, a, b
  <2> QED BY <1>1, <1>2, <1>3, <1>8, <2>1, <2>2, <2>3, PageKeeps
\* A part.
<1>9. CASE /\ ranged /\ Satisfiable(req, n)
           /\ reply' = [status |-> 206, length |-> b - a, start |-> a, total |-> n, dated |-> req.ifdate # None]
           /\ it' = Body(RangeIter(a, b))
           /\ pc' = "sending" /\ UNCHANGED src
  <2>1. n \in Nat BY <1>2, <1>9 DEF Stats, Length
  <2>2. a \in Nat /\ b \in Nat /\ a < b /\ b <= n /\ (req.first # None => a = req.first)
    BY <1>2, <1>9, <2>1, RangeNumbers
  <2>3. b # None /\ b - a \in Nat /\ b - a # None /\ n # None /\ a + (b - a) <= n BY <2>1, <2>2 DEF None
  <2>4. /\ reply'.status = 206 /\ reply'.start = a /\ reply'.length = b - a /\ reply'.total = n
        /\ reply'.dated = (req.ifdate # None) /\ reply' \in Reply
    <3>1. PICK d \in BOOLEAN : d = (req.ifdate # None) OBVIOUS
    <3> HIDE DEF a, b, n
    <3>2. reply' = [status |-> 206, length |-> b - a, start |-> a, total |-> n, dated |-> d] BY <1>9, <3>1
    <3> QED BY <2>1, <2>2, <2>3, <3>1, <3>2 DEF Reply, Length
  <2>5. /\ it' \in Iter /\ it'.kind # "none" /\ it'.kind # "page"
        /\ req.method = "HEAD" => it'.kind = "empty"
        /\ it'.kind \in {"empty", "range", "filerange"} /\ it'.pos = 0
        /\ it'.kind = "empty" => req.method = "HEAD"
        /\ it'.kind \in {"range", "filerange"} =>
             /\ it'.start = a /\ it'.stop = b
             /\ it'.kind = "filerange" <=> src.kind = "file"
        /\ (it'.kind = "empty" /\ it'.over \in {"fileiter", "filerange"}) => src.kind = "file"
    <3>1. PICK k \in {"range", "filerange"} : k = (IF src.kind = "file" THEN "filerange" ELSE "range") OBVIOUS
    <3>2. RangeIter(a, b) = [NoIter EXCEPT !.kind = k, !.start = a, !.stop = b] BY <3>1 DEF RangeIter
    <3>3. CASE req.method = "HEAD"
      <4>1. it' = Empty(RangeIter(a, b)) BY <1>9, <3>3 DEF Body
      <4>2. RangeIter(a, b).kind = k BY <3>2 DEF NoIter
      <4>3. it' = [NoIter EXCEPT !.kind = "empty", !.over = k] BY <4>1, <4>2 DEF Empty
      <4> QED BY <3>1, <3>3, <4>3, Records DEF NoIter, Iter, Kinds
    <3>4. CASE req.method # "HEAD"
      <4>1. it' = RangeIter(a, b) BY <1>9, <3>4 DEF Body
      <4> HIDE DEF a, b, n
      <4> QED BY <2>2, <3>1, <3>2, <3>4, <4>1, Records DEF NoIter, Iter, Kinds, Length
    <3> QED BY <3>3, <3>4
  <2> HIDE DEF a, b
  <2>6. Upto' = reply'.start
    <3>1. CASE it'.kind = "empty" BY <3>1 DEF Upto
    <3>2. CASE it'.kind = "filerange" BY <2>2, <2>4, <2>5, <3>2 DEF Upto
    <3>3. CASE it'.kind = "range" BY <2>2, <2>4, <2>5, <3>3 DEF Upto
    <3> QED BY <2>5, <3>1, <3>2, <3>3
  <2>7. src' = src /\ pc' = "sending" BY <1>9
  <2>8. req.resume => a = Len(client.bytes)
    <3> SUFFICES ASSUME req.resume PROVE a = Len(client.bytes)
      OBVIOUS
    <3>1. AskedBy(req) BY <1>1 DEF IInv, Asked
    <3>2. req.first = Len(client.bytes) /\ Len(client.bytes) \in Nat BY <3>1, Fields DEF AskedBy, IInv
    <3> QED BY <2>2, <3>2, TagTypes
  <2>9. Framing'
    <3>1. sent' = Data(src'.ino, reply'.start, Upto') BY <1>1, <1>3, <1>4, <2>2, <2>4, <2>6, <2>7
    <3>2. reply'.start <= Upto' BY <2>2, <2>4, <2>6
    <3>3. it'.kind = "filerange" => it'.start + it'.pos <= it'.stop BY <2>2, <2>5
    <3>4. it'.kind = "range" => it'.pos = src'.pos BY <1>1, <2>5, <2>7
    <3>5. reply'.start + reply'.length <= res'.length BY <1>3, <2>3, <2>4
    <3>6. req'.resume => reply'.start = Len(client.bytes)' BY <1>2, <1>3, <2>4, <2>8
    <3> QED BY <1>1, <1>2, <1>3, <2>2, <2>3, <2>4, <2>5, <2>7, <3>1, <3>2, <3>3, <3>4, <3>5, <3>6 DEF Framing
  <2>10. Confirmed' BY <2>4 DEF Confirmed
  <2>11. ASSUME req.resume, sharp \/ ~client.dated, sharp \/ ~reply'.dated
         PROVE  OfVersion(src.ino, n)
    <3>1. AskedBy(req) BY <1>1 DEF IInv, Asked
    <3>2. CASE req.iftag = client.etag /\ client.etag # NoETag
      <4>1. res.etag = client.etag /\ res.etag # NoETag BY <1>9, <3>2 DEF InIfRange
      <4>2. res.etag.ino = src.ino /\ res.length \in {None, res.etag.size}
        BY <1>1, <4>1 DEF IInv, Tagged, Begun, Fits
      <4>3. OfVersion(client.etag.ino, client.etag.size) BY <2>11, <3>2 DEF IInv, Versions
      <4> QED BY <2>3, <4>1, <4>2, <4>3
    <3>3. CASE req.iftag = NoETag /\ req.ifdate = client.date /\ client.date # None
      <4>1. res.date <= client.date BY <1>9, <3>3 DEF InIfRange
      <4>2. sharp BY <2>4, <2>11, <3>3
      <4>3. client.date <= res.date BY <1>1, <4>2 DEF IInv, Ordered, Begun
      <4>4. client.date = res.date BY <4>1, <4>3, DateTypes DEF IInv
      <4>5. Served0 = src.ino BY <1>1 DEF Served0
      <4>6. OfVersion(src.ino, res.length) BY <1>1, <4>2, <4>4, <4>5 DEF IInv, Versions
      <4> QED BY <4>6
    <3> QED BY <2>11, <3>1, <3>2, <3>3 DEF AskedBy
  <2>12. Versions'
    <3>1. (req'.resume /\ (sharp \/ ~client.dated) /\ (sharp \/ ~reply'.dated)) => OfVersion(src.ino, res.length)
      BY <1>2, <2>11
    <3> QED BY <1>1, <1>3, <2>7, <3>1 DEF IInv, Versions, OfVersion
  <2>13. reply'.start <= res.length /\ res.length # None BY <2>1, <2>2, <2>3, <2>4
  <2> HIDE DEF safe, n, same, raises, ranged
  <2> QED BY <1>1, <2>4, <2>5, <2>6, <2>7, <2>9, <2>10, <2>12, <2>13, AnswerKeeps
\* The whole.
<1>10. CASE Answer(res.status, n, Body(WholeIter)) /\ UNCHANGED src
  <2>1. reply' = [NoReply EXCEPT !.status = res.status, !.length = res.length] /\ it' = Body(WholeIter)
        /\ pc' = "sending" /\ src' = src
    BY <1>10 DEF Answer
  <2>2. /\ reply'.status = res.status /\ reply'.start = 0 /\ reply'.length = res.length /\ reply' \in Reply
    BY <1>2, <2>1, Records DEF NoReply, Reply, Stats
  <2>3. /\ it' \in Iter /\ it'.start = 0 /\ it'.stop = None /\ it'.pos = 0
        /\ it'.kind \in {"empty", "plain", "fileiter"}
        /\ it'.kind = "empty" <=> req.method = "HEAD"
        /\ it'.kind # "empty" => (it'.kind = "fileiter" <=> src.kind = "file")
        /\ (it'.kind = "empty" /\ it'.over \in {"fileiter", "filerange"}) => src.kind = "file"
    <3>1. PICK k \in {"plain", "fileiter"} : k = (IF src.kind = "file" THEN "fileiter" ELSE "plain") OBVIOUS
    <3>2. WholeIter = [NoIter EXCEPT !.kind = k] /\ WholeIter.kind = k BY <3>1 DEF WholeIter, NoIter
    <3>3. CASE req.method = "HEAD"
      <4>1. it' = [NoIter EXCEPT !.kind = "empty", !.over = k] BY <2>1, <3>2, <3>3 DEF Body, Empty
      <4> QED BY <3>1, <3>3, <4>1, Records DEF NoIter, Iter, Kinds
    <3>4. CASE req.method # "HEAD"
      <4>1. it' = [NoIter EXCEPT !.kind = k] BY <2>1, <3>2, <3>4 DEF Body
      <4> QED BY <3>1, <3>4, <4>1, Records DEF NoIter, Iter, Kinds
    <3> QED BY <3>3, <3>4
  <2>4. Upto' = 0
    <3>1. CASE it'.kind = "empty" BY <2>2, <3>1 DEF Upto
    <3>2. CASE it'.kind = "fileiter" BY <2>3, <3>2 DEF Upto
    <3>3. CASE it'.kind = "plain" BY <1>1, <2>1, <3>3 DEF Upto
    <3> QED BY <2>3, <3>1, <3>2, <3>3
  <2>5. Framing'
    <3>1. sent' = Data(src'.ino, reply'.start, Upto') BY <1>1, <1>3, <1>4, <2>1, <2>2, <2>4
    <3>2. reply'.start <= Upto' BY <2>2, <2>4
    <3>3. reply'.status \notin {206, 304} BY <1>1, <2>2
    <3> QED BY <1>1, <1>2, <1>3, <2>1, <2>2, <2>3, <3>1, <3>2, <3>3 DEF Framing
  <2>6. Confirmed' BY <1>1, <2>2 DEF Confirmed
  <2>7. Versions' BY <1>1, <1>5, <2>1, <2>2
  <2> HIDE DEF safe, n, same, raises, ranged, a, b
  <2>8. reply'.start = 0 /\ Upto' = reply'.start /\ it'.kind # "page" BY <2>2, <2>3, <2>4
  <2> QED BY <1>1, <2>1, <2>2, <2>3, <2>5, <2>6, <2>7, <2>8, AnswerKeeps
<1>11. \/ /\ same /\ reply' = [NoReply EXCEPT !.status = 304, !.dated = dated]
          /\ it' = Empty(WholeIter) /\ pc' = "sending" /\ UNCHANGED src
       \/ Answer(500, 0, [NoIter EXCEPT !.kind = "page"]) /\ UNCHANGED src
       \/ Answer(416, 0, [NoIter EXCEPT !.kind = "page"]) /\ src' = Unsatisfied(src)
       \/ /\ ranged /\ Satisfiable(req, n)
          /\ reply' = [status |-> 206, length |-> b - a, start |-> a, total |-> n, dated |-> req.ifdate # None]
          /\ it' = Body(RangeIter(a, b))
          /\ pc' = "sending" /\ UNCHANGED src
       \/ Answer(res.status, n, Body(WholeIter)) /\ UNCHANGED src
  BY DEF Respond
<1> QED BY <1>6, <1>7, <1>8, <1>9, <1>10, <1>11

---------------------------------------------------------------------------
(* The server takes the next piece.                                         *)

LEMMA LeastMember ==
  ASSUME NEW T \in SUBSET Nat, T # {}
  PROVE  \E x \in T : \A y \in T : x <= y
<1>1. PICK R : R = OpToRel(<, Nat) /\ IsWellFoundedOn(R, Nat)
  BY NatLessThanWellFounded
<1>2. \A x, y \in Nat : x < y => <<x, y>> \in R
  <2> TAKE x \in Nat, y \in Nat
  <2> HAVE x < y
  <2>1. <<x, y>> \in Nat \X Nat /\ <<x, y>>[1] = x /\ <<x, y>>[2] = y OBVIOUS
  <2> QED BY <1>1, <2>1 DEF OpToRel
<1>3. PICK x \in T : \A y \in T : <<y, x>> \notin R BY <1>1, WFMin
<1>4. \A y \in T : ~(y < x) BY <1>2, <1>3
<1>5. x \in Nat /\ \A y \in T : y \in Nat OBVIOUS
<1>6. \A y \in T : x <= y BY <1>4, <1>5
<1> QED BY <1>6

\* What every step of the server has in common.
LEMMA StepKeeps ==
  ASSUME IInv, pc = "sending", pc' \in {"sending", "sent", "broken"},
         UNCHANGED <<source, disk, requests, req, res, reply, client, still, sharp>>,
         src' \in Source, src'.kind = src.kind, src'.ino = src.ino, src'.open => src.open,
         InOrder(src'), OwnPage(src) => LastEnd(src') = LastEnd(src),
         src.ino = 0 => src' = src,
         (pc' = "sent" /\ it.kind \in {"fileiter", "filerange"}) => ~src'.open,
         it' \in Iter, it'.kind = it.kind, it'.over = it.over, it'.start = it.start, it'.stop = it.stop,
         sent' \in Seq(Octet), sent' = Data(src.ino, reply.start, Upto'), reply.start <= Upto',
         it.kind = "filerange" => it.start + it'.pos <= it.stop,
         (it.kind = "range" /\ pc' = "sending") => it'.pos = src'.pos,
         \A n \in Nat : (Fits(n) /\ src.ino # 0 /\ (OwnPage(src) \/ n = sizes[src.ino])) =>
                          src'.pos <= n /\ Upto' <= n
  PROVE  IInv'
<1>1. /\ source' = source /\ sizes' = sizes /\ path' = path /\ mtime' = mtime /\ changes' = changes
      /\ req' = req /\ res' = res /\ reply' = reply /\ client' = client /\ still' = still /\ sharp' = sharp
      /\ Begun /\ Sending /\ Begun' /\ Sending'
  BY DEF disk, Begun, Sending
<1>2. Typed' BY <1>1 DEF IInv, Typed
<1>3. Ordered' BY <1>1 DEF IInv, Ordered, Begun
<1>4. ASSUME NEW n \in Nat, Fits(n), OwnPage(src) \/ n = sizes[src.ino] \/ src.ino = 0
      PROVE  Fits(n)'
  <2>1. src.ino # 0 => src'.pos <= n /\ Upto' <= n BY <1>4
  <2>2. OwnPage(src)' => LastEnd(src') = n BY <1>4 DEF OwnPage, Fits
  <2>3. res.length \in {None, n} BY <1>4 DEF Fits
  <2>4. LastEnd(src)' = LastEnd(src') BY DEF LastEnd
  <2> QED BY <1>1, <2>1, <2>2, <2>3, <2>4 DEF Fits
<1>5. Undisturbed'
  <2> SUFFICES ASSUME res.date # None, still \/ (sharp /\ path # 0 /\ res.date = mtime)
               PROVE  /\ path # 0 /\ res.date = mtime
                      /\ src.ino # 0 => src.ino = path
                      /\ Fits(sizes[path])'
    BY <1>1 DEF Undisturbed
  <2>1. /\ path # 0 /\ res.date = mtime
        /\ src.ino # 0 => src.ino = path
        /\ Fits(sizes[path])
    BY <1>1 DEF IInv, Undisturbed
  <2>2. sizes[path] \in Nat BY <2>1, Fields DEF IInv
  <2>3. PICK n \in Nat : n = sizes[path] BY <2>2
  <2>4. Fits(n)' BY <1>4, <2>1, <2>3
  <2> QED BY <1>1, <2>1, <2>3, <2>4
<1>6. Tagged'
  <2> SUFFICES ASSUME res.etag # NoETag
               PROVE  /\ res.etag.ino = src.ino /\ OwnPage(src)' /\ Fits(res.etag.size)'
    BY <1>1 DEF Tagged
  <2>1. res.etag.ino = src.ino /\ OwnPage(src) /\ Fits(res.etag.size) BY <1>1 DEF IInv, Tagged
  <2>2. res.etag.size \in Nat BY Fields DEF IInv, ETag
  <2>3. PICK n \in Nat : n = res.etag.size BY <2>2
  <2>4. Fits(n)' BY <1>4, <2>1, <2>3
  <2> QED BY <1>1, <2>1, <2>3, <2>4 DEF OwnPage
<1>7. Framing' BY <1>1 DEF IInv, Framing
<1>8. Versions' BY <1>1 DEF IInv, Versions, OfVersion, Served0, Sending
<1>9. Asked' BY DEF Asked
<1>10. Confirmed' /\ Held' BY <1>1 DEF IInv, Confirmed, Held
<1>11. (Begun => InOrder(src))' BY DEF InOrder, OwnPage
<1> QED BY <1>2, <1>3, <1>5, <1>6, <1>7, <1>8, <1>9, <1>10, <1>11 DEF IInv

\* What is known of an answer that is under way.
LEMMA UnderWay ==
  ASSUME IInv, pc = "sending"
  PROVE  /\ src \in Source /\ it \in Iter /\ InOrder(src) /\ sizes \in Seq(Nat)
         /\ reply.start \in Nat /\ reply.start <= Upto /\ Upto \in Nat
         /\ sent = Data(src.ino, reply.start, Upto) /\ src.ino \in Nat /\ src.pos \in Nat
         /\ src.ino # 0 => src.ino \in 1..Len(sizes) /\ sizes[src.ino] \in Nat
         /\ src.ino = 0 => src = NoSource
<1>1. /\ src \in Source /\ it \in Iter /\ InOrder(src) /\ sizes \in Seq(Nat)
      /\ sent = Data(src.ino, reply.start, Upto) /\ reply.start <= Upto
  BY DEF IInv, Typed, Framing, Sending, Begun
<1>2. /\ reply.start \in Nat /\ src.ino \in Nat /\ src.pos \in Nat /\ it.start \in Nat /\ it.pos \in Nat
      /\ it.stop \in Length
  BY Fields DEF IInv
<1>3. src.ino # 0 => src.ino \in 1..Len(sizes) /\ sizes[src.ino] \in Nat
  <2>1. src.ino # 0 => src.ino <= Len(sizes) BY DEF IInv, Ordered
  <2>2. src.ino # 0 => src.ino \in 1..Len(sizes) BY <1>2, <2>1, Fields DEF IInv
  <2> QED BY <2>2, Fields DEF IInv
<1>4. src.ino = 0 => src = NoSource BY DEF IInv, Ordered, Begun
<1>5. Upto \in Nat
  <2>1. it.kind = "range" => it.stop \in Nat BY <1>2 DEF IInv, Framing, Sending, Length
  <2> QED BY <1>2, <2>1 DEF Upto, Least
<1> QED BY <1>1, <1>2, <1>3, <1>4, <1>5

\* Nothing more comes.
LEMMA EndKeeps ==
  ASSUME IInv, pc = "sending", pc' \in {"sent", "broken"}, sent' = sent, it' = it,
         (pc' = "sent" /\ it.kind \in {"fileiter", "filerange"}) => ~src'.open,
         UNCHANGED <<source, disk, requests, req, res, reply, client, still, sharp>>,
         src' \in Source, src'.kind = src.kind, src'.ino = src.ino, src'.open => src.open,
         InOrder(src'), OwnPage(src) => LastEnd(src') = LastEnd(src),
         src.ino = 0 => src' = src, Upto' = Upto,
         \A n \in Nat : (Fits(n) /\ src.ino # 0 /\ (OwnPage(src) \/ n = sizes[src.ino])) => src'.pos <= n
  PROVE  IInv'
<1>1. \A n \in Nat : (Fits(n) /\ src.ino # 0) => Upto' <= n BY DEF Fits, Sending
<1>2. sent \in Seq(Octet) BY DEF IInv, Typed
<1>3. it.kind = "filerange" => it.start + it'.pos <= it.stop BY DEF IInv, Framing, Sending
<1> QED BY <1>1, <1>2, <1>3, UnderWay, StepKeeps

LEMMA FileKeeps ==
  ASSUME IInv, pc = "sending", it.kind \in {"fileiter", "filerange"}, NextOfFile,
         UNCHANGED <<source, disk, requests, req, res, reply, client, still, sharp>>
  PROVE  IInv'
<1> DEFINE from  == it.start + it.pos
           want  == IF it.stop = None THEN Block ELSE Least(Block, it.stop - from)
           upto  == Least(from + want, sizes[src.ino])
           bytes == Data(src.ino, from, upto)
<1>1. /\ src.ino # 0 /\ src.kind = "file"
      /\ it.kind = "fileiter" => it.stop = None
      /\ it.kind = "filerange" => it.stop # None /\ it.start + it.pos <= it.stop
  BY DEF IInv, Framing, Sending
<1>2. /\ it.start \in Nat /\ it.pos \in Nat /\ it.stop \in Nat \cup {None} /\ Block \in Nat
      /\ src \in Source /\ src.ino \in Nat /\ src.pos \in Nat /\ sizes[src.ino] \in Nat /\ InOrder(src)
      /\ Upto = from /\ reply.start \in Nat /\ reply.start <= from
      /\ sent = Data(src.ino, reply.start, from)
  <2>1. Upto = from BY DEF Upto
  <2> QED BY <1>1, <2>1, UnderWay, Fields, ServingAssumption DEF IInv, Length
<1>3. want \in Nat /\ (it.kind = "filerange" => from + want <= it.stop)
  <2>1. CASE it.kind = "fileiter" BY <1>1, <1>2, <2>1
  <2>2. CASE it.kind = "filerange"
    <3>1. want = Least(Block, it.stop - from) /\ it.stop \in Nat /\ from <= it.stop BY <1>1, <1>2, <2>2
    <3> QED BY <1>2, <3>1 DEF Least
  <2> QED BY <2>1, <2>2
<1>4. PICK f \in Nat : f = from BY <1>2
<1>5. PICK u \in Nat : /\ u = upto /\ u <= sizes[src.ino]
                       /\ it.kind = "filerange" => u <= it.stop
  <2>1. PICK w \in Nat : w = want /\ (it.kind = "filerange" => f + w <= it.stop) BY <1>3, <1>4
  <2>2. upto = Least(f + w, sizes[src.ino]) BY <1>4, <2>1
  <2>3. upto \in Nat /\ upto <= sizes[src.ino] /\ upto <= f + w
    <3> HIDE DEF upto
    <3> QED BY <1>2, <2>2 DEF Least
  <2>4. it.kind = "filerange" => upto <= it.stop
    <3>1. it.kind = "filerange" => it.stop \in Nat BY <1>1, <1>2
    <3> HIDE DEF upto
    <3> QED BY <2>1, <2>3, <3>1
  <2> QED BY <2>3, <2>4
<1>6. bytes = Data(src.ino, f, u) BY <1>4, <1>5
<1> DEFINE begun == [src EXCEPT !.started = TRUE]
           over  == [Shut(src) EXCEPT !.started = TRUE]
<1>7. /\ begun \in Source /\ begun.kind = src.kind /\ begun.ino = src.ino /\ begun.open = src.open
      /\ begun.pos = src.pos /\ begun.ends = src.ends
      /\ over \in Source /\ over.kind = src.kind /\ over.ino = src.ino /\ over.open = FALSE
      /\ over.pos = src.pos /\ over.ends = src.ends
  BY <1>2 DEF Shut, Source
<1>8. InOrder(begun) /\ InOrder(over) /\ LastEnd(begun) = LastEnd(src) /\ LastEnd(over) = LastEnd(src)
  <2> HIDE DEF begun, over
  <2>1. \A s : s.kind = src.kind /\ s.pos = src.pos /\ s.ends = src.ends
               => InOrder(s) /\ LastEnd(s) = LastEnd(src)
    BY <1>2 DEF InOrder, LastEnd, OwnPage
  <2> QED BY <1>7, <2>1
<1>9. \A n \in Nat : (Fits(n) /\ src.ino # 0) => src.pos <= n BY DEF Fits
<1>10. CASE bytes = <<>>
  <2>1. pc' = "sent" /\ src' = over /\ sent' = sent /\ it' = it BY <1>10 DEF NextOfFile, End, Spent
  <2>2. Upto' = Upto BY <2>1 DEF Upto
  <2> HIDE DEF begun, over, bytes, upto, want, from
  <2> QED BY <1>1, <1>7, <1>8, <1>9, <2>1, <2>2, EndKeeps
<1>11. CASE bytes # <<>>
  <2>1. /\ sent' = sent \o bytes /\ src' = begun /\ it' = [it EXCEPT !.pos = it.pos + Len(bytes)]
        /\ pc' = "sending"
    BY <1>11 DEF NextOfFile, Deliver
  <2>2. f < u BY <1>2, <1>6, <1>11, DataEmpty
  <2>3. Len(bytes) = u - f
    <3>1. f <= u /\ f \in Nat /\ u \in Nat BY <1>4, <1>5, <2>2
    <3>2. PICK i \in Nat : i = src.ino BY <1>2
    <3>3. Len(Data(i, f, u)) = u - f BY <3>1, <3>2, DataLen
    <3> HIDE DEF bytes, upto, want, from
    <3> QED BY <1>6, <3>2, <3>3
  <2>4. it.pos + Len(bytes) \in Nat BY <1>2, <2>2, <2>3
  <2>5. /\ it' \in Iter /\ it'.kind = it.kind /\ it'.start = it.start /\ it'.stop = it.stop
        /\ it'.pos = it.pos + Len(bytes)
    <3>1. it \in Iter BY UnderWay
    <3> HIDE DEF bytes
    <3> QED BY <2>1, <2>4, <3>1 DEF Iter
  <2>6. Upto' = u
    <3>1. Upto' = it.start + (it.pos + Len(bytes)) BY <2>5 DEF Upto
    <3>2. PICK l \in Nat : l = Len(bytes) BY <1>2, <2>2, <2>3
    <3>3. it.start \in Nat /\ it.pos \in Nat /\ f = it.start + it.pos /\ u \in Nat BY <1>2, <1>4, <1>5
    <3> HIDE DEF bytes
    <3>4. l = u - f BY <2>3, <3>2
    <3>5. it.start + (it.pos + l) = u BY ONLY <3>3, <3>4, l \in Nat
    <3> QED BY ONLY <3>1, <3>2, <3>5
  <2>7. sent' = Data(src.ino, reply.start, u)
    <3>1. reply.start <= f /\ f <= u /\ f \in Nat /\ u \in Nat BY <1>2, <1>4, <1>5, <2>2
    <3>2. PICK i \in Nat, b \in Nat : i = src.ino /\ b = reply.start BY <1>2
    <3>3. b \in Nat /\ b <= f BY <3>1, <3>2
    <3>4. Data(i, b, f) \o Data(i, f, u) = Data(i, b, u)
        <4>1. i \in Nat /\ b \in Nat /\ f \in Nat /\ u \in Nat BY <3>1, <3>2, <3>3
        <4>2. b <= f BY <3>1, <3>2, <3>3
        <4>3. f <= u BY <3>1, <3>2, <3>3
        <4> QED BY <4>1, <4>2, <4>3, DataConcat
    <3>5. sent = Data(src.ino, reply.start, f) BY <1>2, <1>4
    <3> HIDE DEF bytes, upto, want, from
    <3> QED BY <1>6, <2>1, <3>2, <3>4, <3>5
  <2>8. sent' \in Seq(Octet) BY <1>2, <2>7, DataLen
  <2>9. reply.start <= u BY <1>2, <1>4, <2>2
  <2>10. it.kind = "filerange" => it.start + it'.pos <= it.stop BY <1>5, <2>5, <2>6 DEF Upto
  <2>11. \A n \in Nat : n = sizes[src.ino] => u <= n BY <1>5
  <2>12. ~OwnPage(src) BY <1>1 DEF OwnPage
  <2> HIDE DEF begun, over, bytes, upto, want, from
  <2> QED BY <1>1, <1>7, <1>8, <1>9, <2>1, <2>5, <2>6, <2>7, <2>8, <2>9, <2>10, <2>11, <2>12, StepKeeps
<1> QED BY <1>10, <1>11

\* The bytes of some pieces, of the last of them, and what the source is then.
LEMMA PiecesOf ==
  ASSUME IInv, pc = "sending", src.ino # 0, src.kind # "file", NEW m \in 0..Left(src)
  PROVE  /\ m \in Nat /\ Left(src) \in Nat
         /\ Reached(src, m) \in Nat /\ src.pos <= Reached(src, m)
         /\ Len(Ahead(src, m)) = Reached(src, m) - src.pos
         /\ Ahead(src, m) = Data(src.ino, src.pos, Reached(src, m))
         /\ After(src, m) \in Source /\ After(src, m).kind = src.kind /\ After(src, m).ino = src.ino
         /\ After(src, m).open = src.open /\ After(src, m).pos = Reached(src, m)
         /\ InOrder(After(src, m))
         /\ OwnPage(src) => LastEnd(After(src, m)) = LastEnd(src)
         /\ \A n \in Nat : (Fits(n) /\ (OwnPage(src) \/ n = sizes[src.ino])) => Reached(src, m) <= n
<1>1. /\ src \in Source /\ sizes \in Seq(Nat) /\ src.ino \in 1..Len(sizes) /\ InOrder(src)
      /\ src.ino \in Nat /\ src.pos \in Nat /\ sizes[src.ino] \in Nat
  BY UnderWay
<1>2. /\ Left(src) \in Nat /\ Reached(src, m) \in Nat /\ src.pos <= Reached(src, m)
      /\ m \in Nat
  BY <1>1, Places
<1>3. /\ Ahead(src, m) = Data(src.ino, src.pos, Reached(src, m))
      /\ Len(Ahead(src, m)) = Reached(src, m) - src.pos
  BY <1>1, <1>2, DataLen DEF Ahead
<1>4. /\ After(src, m) \in Source /\ After(src, m).kind = src.kind /\ After(src, m).ino = src.ino
      /\ After(src, m).open = src.open /\ After(src, m).pos = Reached(src, m)
      /\ InOrder(After(src, m))
      /\ OwnPage(src) => LastEnd(After(src, m)) = LastEnd(src)
  BY <1>1, Following
<1>5. ASSUME NEW n \in Nat, Fits(n), OwnPage(src) \/ n = sizes[src.ino]
      PROVE  Reached(src, m) <= n
  <2>1. src.pos <= n BY <1>5 DEF Fits
  <2>2. CASE OwnPage(src)
    <3>1. LastEnd(src) = n BY <1>5, <2>2 DEF Fits
    <3> QED BY <1>1, <2>2, <3>1, Places
  <2>3. CASE ~OwnPage(src)
    <3>1. src.kind = "wrap"
      <4>1. src.kind # "none" BY DEF IInv, Ordered
      <4> QED BY <1>1, <2>3, <4>1 DEF OwnPage, Source
    <3>2. n = sizes[src.ino] BY <1>5, <2>3
    <3>3. CASE m = 0 BY <2>1, <3>3 DEF Reached
    <3>4. CASE m # 0
      <4>1. m \in 1..Left(src) BY <1>2, <3>4
      <4> QED BY <1>1, <3>1, <3>2, <4>1, Places
    <3> QED BY <3>3, <3>4
  <2> QED BY <2>2, <2>3
<1> QED BY <1>2, <1>3, <1>4, <1>5

LEMMA PlainKeeps ==
  ASSUME IInv, pc = "sending", it.kind = "plain",
         IF Left(src) = 0 THEN End(src) ELSE Deliver(Ahead(src, 1), After(src, 1), it),
         UNCHANGED <<source, disk, requests, req, res, reply, client, still, sharp>>
  PROVE  IInv'
<1>1. /\ src.ino # 0 /\ src.kind # "file" /\ reply.start = 0 /\ Upto = src.pos
      /\ src \in Source /\ src.ino \in Nat /\ src.pos \in Nat /\ InOrder(src) /\ it \in Iter
      /\ sent = Data(src.ino, 0, src.pos)
  BY UnderWay DEF IInv, Framing, Sending, Upto
<1>2. CASE Left(src) = 0
  <2>1. pc' = "sent" /\ src' = src /\ sent' = sent /\ it' = it BY <1>2 DEF End
  <2>2. Upto' = Upto BY <2>1 DEF Upto
  <2>3. \A n \in Nat : (Fits(n) /\ src.ino # 0) => src.pos <= n BY DEF Fits
  <2> QED BY <1>1, <2>1, <2>2, <2>3, EndKeeps
<1>3. CASE Left(src) # 0
  <2>1. sent' = sent \o Ahead(src, 1) /\ src' = After(src, 1) /\ it' = it /\ pc' = "sending"
    BY <1>3 DEF Deliver
  <2>2. 1 \in 0..Left(src)
    <3>1. Left(src) \in Nat BY <1>1, UnderWay, Places
    <3> QED BY <1>3, <3>1
  <2>3. PICK u \in Nat : /\ u = Reached(src, 1) /\ src.pos <= u
                         /\ Ahead(src, 1) = Data(src.ino, src.pos, u)
                         /\ src' \in Source /\ src'.kind = src.kind /\ src'.ino = src.ino
                         /\ src'.open = src.open /\ src'.pos = u /\ InOrder(src')
                         /\ OwnPage(src) => LastEnd(src') = LastEnd(src)
                         /\ \A n \in Nat : (Fits(n) /\ (OwnPage(src) \/ n = sizes[src.ino])) => u <= n
    BY <1>1, <2>1, <2>2, PiecesOf
  <2>4. u \in Nat /\ Upto' = u BY <2>1, <2>3 DEF Upto
  <2>5. sent' = Data(src.ino, 0, u) /\ sent' \in Seq(Octet)
    <3>1. 0 \in Nat /\ 0 <= src.pos /\ src.pos <= u BY <1>1, <2>3
    <3>2. PICK i \in Nat, p \in Nat : i = src.ino /\ p = src.pos BY <1>1
    <3>3. p \in Nat /\ 0 <= p /\ p <= u BY <3>1, <3>2
    <3>4. Data(i, 0, p) \o Data(i, p, u) = Data(i, 0, u)
      <4>1. i \in Nat /\ 0 \in Nat /\ p \in Nat /\ u \in Nat BY <2>4, <3>2
      <4>2. 0 <= p BY <3>3
      <4>3. p <= u BY <3>3
      <4> QED BY <4>1, <4>2, <4>3, DataConcat
    <3>5. Data(src.ino, 0, src.pos) \o Data(src.ino, src.pos, u) = Data(src.ino, 0, u)
      BY <3>2, <3>4
    <3>6. Data(src.ino, 0, u) \in Seq(Octet) BY <1>1, <2>4, <3>1, DataLen
    <3> QED BY <1>1, <2>1, <2>3, <3>5, <3>6
  <2>6. reply.start <= u BY <1>1, <2>4
  <2> QED BY <1>1, <2>1, <2>3, <2>4, <2>5, <2>6, StepKeeps
<1> QED BY <1>2, <1>3

\* The pieces before the range are dropped, and the first that reaches it cut.
LEMMA SkipKeeps ==
  ASSUME IInv, pc = "sending", it.kind = "range", it.pos < it.start, NextOfRange,
         UNCHANGED <<source, disk, requests, req, res, reply, client, still, sharp>>
  PROVE  IInv'
<1>1. /\ src.ino # 0 /\ src.kind # "file" /\ it.pos = src.pos /\ reply.start = it.start
      /\ it.stop # None /\ it.start < it.stop
  BY DEF IInv, Framing, Sending
<1>2. /\ src \in Source /\ src.ino \in Nat /\ src.pos \in Nat /\ InOrder(src) /\ it \in Iter
      /\ it.start \in Nat /\ it.stop \in Nat /\ it.pos \in Nat
      /\ Left(src) \in Nat
  BY <1>1, UnderWay, Fields, Places DEF IInv, Length
<1>3. Upto = it.start /\ sent = Data(src.ino, it.start, it.start)
  <2>1. Upto = it.start BY <1>2 DEF Upto
  <2> QED BY <1>1, <2>1, UnderWay
<1> DEFINE reach == {m \in 1..Left(src) : it.pos + Len(Ahead(src, m)) >= it.start}
           n     == CHOOSE m \in reach : \A k \in reach : m <= k
           pos   == it.pos + Len(Ahead(src, n))
<1>4. CASE reach = {}
  <2>1. pc' = "sent" /\ src' = After(src, Left(src)) /\ sent' = sent /\ it' = it
    BY <1>4 DEF NextOfRange, End
  <2>2. Left(src) \in 0..Left(src) BY <1>2
  <2>3. Upto' = Upto BY <1>2, <1>3, <2>1 DEF Upto
  <2>4. PICK u \in Nat : /\ src' \in Source /\ src'.kind = src.kind /\ src'.ino = src.ino
                         /\ src'.open = src.open /\ src'.pos = u /\ InOrder(src')
                         /\ OwnPage(src) => LastEnd(src') = LastEnd(src)
                         /\ \A k \in Nat : (Fits(k) /\ (OwnPage(src) \/ k = sizes[src.ino])) => u <= k
    BY <1>1, <2>1, <2>2, PiecesOf
  <2> HIDE DEF reach, n, pos
  <2> QED BY <1>1, <2>1, <2>3, <2>4, EndKeeps
<1>5. CASE reach # {}
  <2>1. \E x \in reach : \A y \in reach : x <= y
    <3>1. reach \in SUBSET Nat BY <1>2
    <3> HIDE DEF reach
    <3> QED BY <1>5, <3>1, LeastMember
  <2>2. n \in reach /\ \A k \in reach : n <= k BY <2>1
  <2>3. PICK m \in 1..Left(src) : /\ m = n /\ it.pos + Len(Ahead(src, m)) >= it.start
                                  /\ \A k \in 1..Left(src) : it.pos + Len(Ahead(src, k)) >= it.start => m <= k
    <3>1. n \in 1..Left(src) /\ it.pos + Len(Ahead(src, n)) >= it.start BY <2>2
    <3>2. \A k \in 1..Left(src) : it.pos + Len(Ahead(src, k)) >= it.start => n <= k BY <2>2
    <3> HIDE DEF n, reach
    <3> QED BY <3>1, <3>2
  <2>4. /\ sent' = sent \o Skipped(Piece(src, n), pos) /\ src' = After(src, n)
        /\ it' = [it EXCEPT !.pos = pos] /\ pc' = "sending"
    BY <1>5 DEF NextOfRange, Deliver
  <2> HIDE DEF n, reach
  <2>5. m \in 0..Left(src) /\ m - 1 \in 0..Left(src) /\ m # 0 /\ m \in Nat BY <1>2
  <2>6. PICK u \in Nat : /\ u = Reached(src, m) /\ src.pos <= u
                         /\ Len(Ahead(src, m)) = u - src.pos
                         /\ src' \in Source /\ src'.kind = src.kind /\ src'.ino = src.ino
                         /\ src'.open = src.open /\ src'.pos = u /\ InOrder(src')
                         /\ OwnPage(src) => LastEnd(src') = LastEnd(src)
                         /\ \A k \in Nat : (Fits(k) /\ (OwnPage(src) \/ k = sizes[src.ino])) => u <= k
    BY <1>1, <2>3, <2>4, <2>5, PiecesOf
  <2>7. pos = u /\ it.start <= u /\ u \in Nat BY <1>1, <1>2, <2>3, <2>6
  <2>8. PICK v \in Nat : v = Reached(src, m - 1) /\ v < it.start /\ v <= u
    <3>1. /\ Reached(src, m - 1) \in Nat /\ src.pos <= Reached(src, m - 1)
          /\ Len(Ahead(src, m - 1)) = Reached(src, m - 1) - src.pos
      BY <1>1, <2>5, PiecesOf
    <3>2. Reached(src, m - 1) < it.start
      <4>1. CASE m = 1
        <5>1. Reached(src, m - 1) = src.pos BY <4>1 DEF Reached
        <5> QED BY <1>1, <5>1
      <4>2. CASE m # 1
        <5>1. m - 1 \in 1..Left(src) /\ ~(m <= m - 1) BY <2>5, <4>2
        <5>2. ~(it.pos + Len(Ahead(src, m - 1)) >= it.start) BY <2>3, <5>1
        <5> QED BY <1>1, <1>2, <3>1, <5>2
      <4> QED BY <4>1, <4>2
    <3> QED BY <1>2, <2>7, <3>1, <3>2
  <2>9. Piece(src, n) = Data(src.ino, v, u) BY <2>3, <2>6, <2>8 DEF Piece
  <2> DEFINE e == IF u <= it.stop THEN u ELSE it.stop
  <2>10. e \in Nat /\ it.start <= e /\ e <= u BY <1>1, <1>2, <2>7
  <2>11. Skipped(Data(src.ino, v, u), u) = Data(src.ino, it.start, e)
    <3>1. CASE u = it.start
      <4>1. e = it.start BY <1>1, <1>2, <3>1
      <4>2. Data(src.ino, it.start, it.start) = <<>> BY <1>2, DataEmpty
      <4> QED BY <3>1, <4>1, <4>2 DEF Skipped
    <3>2. CASE u # it.start
      <4>1. v <= it.start /\ it.start <= u /\ it.start # u /\ v \in Nat BY <2>7, <2>8, <3>2, <1>2
      <4>2. LastOf(Data(src.ino, v, u), u - it.start) = Data(src.ino, it.start, u)
        <5>1. PICK i \in Nat, a \in Nat : i = src.ino /\ a = it.start BY <1>2
        <5>2. v <= a /\ a <= u /\ a # u /\ u \in Nat BY <2>7, <4>1, <5>1
        <5>3. LastOf(Data(i, v, u), u - a) = Data(i, a, u)
            <6>1. i \in Nat /\ v \in Nat /\ a \in Nat /\ u \in Nat BY <4>1, <5>1, <5>2
            <6>2. v <= a BY <4>1, <5>1, <5>2
            <6>3. a <= u BY <4>1, <5>1, <5>2
            <6>4. a # u BY <4>1, <5>1, <5>2
            <6> QED BY <6>1, <6>2, <6>3, <6>4, DataCut
        <5> QED BY <5>1, <5>3
      <4>3. CASE u > it.stop
        <5>1. it.start <= it.stop /\ it.stop <= u BY <1>1, <1>2, <2>7, <4>3
        <5>2. ButLast(Data(src.ino, it.start, u), u - it.stop) = Data(src.ino, it.start, it.stop)
          <6>1. PICK i \in Nat, a \in Nat, c \in Nat : i = src.ino /\ a = it.start /\ c = it.stop BY <1>2
          <6>2. a <= c /\ c <= u /\ u \in Nat BY <2>7, <5>1, <6>1
          <6>3. ButLast(Data(i, a, u), u - c) = Data(i, a, c)
              <7>1. i \in Nat /\ a \in Nat /\ u \in Nat /\ c \in Nat BY <6>1, <6>2
              <7>2. a <= c BY <6>1, <6>2
              <7>3. c <= u BY <6>1, <6>2
              <7> QED BY <7>1, <7>2, <7>3, DataCut
          <6> QED BY <6>1, <6>3
        <5>3. e = it.stop BY <1>2, <2>7, <4>3
        <5> QED BY <3>2, <4>2, <4>3, <5>2, <5>3 DEF Skipped
      <4>4. CASE ~(u > it.stop)
        <5>1. e = u BY <1>2, <2>7, <4>4
        <5> QED BY <3>2, <4>2, <4>4, <5>1 DEF Skipped
      <4> QED BY <4>3, <4>4
    <3> QED BY <3>1, <3>2
  <2>12. sent' = Data(src.ino, it.start, e)
    <3>1. sent' = Data(src.ino, it.start, it.start) \o Data(src.ino, it.start, e)
      BY <1>3, <2>4, <2>7, <2>9, <2>11
    <3> HIDE DEF e
    <3>2. PICK i \in Nat, a \in Nat : i = src.ino /\ a = it.start BY <1>2
    <3>3. a <= a /\ a <= e /\ e \in Nat BY <2>10, <3>2
    <3>4. Data(i, a, a) \o Data(i, a, e) = Data(i, a, e)
        <4>1. i \in Nat /\ a \in Nat /\ e \in Nat BY <3>2, <3>3
        <4>2. a <= a BY <3>2, <3>3
        <4>3. a <= e BY <3>2, <3>3
        <4> QED BY <4>1, <4>2, <4>3, DataConcat
    <3> QED BY <3>1, <3>2, <3>4
  <2>13. /\ it' \in Iter /\ it'.kind = it.kind /\ it'.start = it.start /\ it'.stop = it.stop
         /\ it'.pos = u
    <3>1. it' = [it EXCEPT !.pos = u] BY <2>4, <2>7
    <3> QED BY <1>2, <2>7, <3>1 DEF Iter
  <2>14. Upto' = e
    <3>1. Upto' = IF u <= it.start THEN it.start ELSE Least(u, it.stop) BY <2>13 DEF Upto
    <3> QED BY <1>1, <1>2, <2>7, <3>1 DEF Least
  <2> HIDE DEF e, pos
  <2>15. sent' \in Seq(Octet) BY <1>2, <2>10, <2>12, DataLen
  <2>16. \A k \in Nat : (Fits(k) /\ (OwnPage(src) \/ k = sizes[src.ino])) => u <= k /\ e <= k
    BY <2>6, <2>7, <2>10
  <2> QED BY <1>1, <2>4, <2>6, <2>10, <2>12, <2>13, <2>14, <2>15, <2>16, StepKeeps
<1> QED BY <1>4, <1>5

\* In the range the pieces are passed on, the last of them cut.
LEMMA PassKeeps ==
  ASSUME IInv, pc = "sending", it.kind = "range", ~(it.pos < it.start), NextOfRange,
         UNCHANGED <<source, disk, requests, req, res, reply, client, still, sharp>>
  PROVE  IInv'
<1>1. /\ src.ino # 0 /\ src.kind # "file" /\ it.pos = src.pos /\ reply.start = it.start
      /\ it.stop # None /\ it.start < it.stop
  BY DEF IInv, Framing, Sending
<1>2. /\ src \in Source /\ src.ino \in Nat /\ src.pos \in Nat /\ InOrder(src) /\ it \in Iter
      /\ it.start \in Nat /\ it.stop \in Nat /\ it.pos \in Nat /\ Left(src) \in Nat
      /\ it.start <= src.pos
  <2>1. /\ src \in Source /\ src.ino \in Nat /\ src.pos \in Nat /\ InOrder(src) /\ it \in Iter
        /\ sizes \in Seq(Nat) /\ src.ino \in 1..Len(sizes)
    BY <1>1, UnderWay
  <2>2. it.start \in Nat /\ it.stop \in Nat /\ it.pos \in Nat BY <1>1, Fields DEF IInv, Length
  <2>3. Left(src) \in Nat BY <2>1, Places
  <2>4. it.start <= src.pos BY <1>1, <2>1, <2>2
  <2> QED BY <2>1, <2>2, <2>3, <2>4
<1>3. CASE it.pos >= it.stop \/ Left(src) = 0
  <2>1. pc' = "sent" /\ src' = src /\ sent' = sent /\ it' = it
    BY <1>3 DEF NextOfRange, End
  <2>2. Upto' = Upto BY <2>1 DEF Upto
  <2>3. \A n \in Nat : (Fits(n) /\ src.ino # 0) => src.pos <= n BY DEF Fits
  <2> QED BY <1>1, <1>2, <2>1, <2>2, <2>3, EndKeeps
<1>4. CASE ~(it.pos >= it.stop \/ Left(src) = 0)
  <2> DEFINE pos == it.pos + Len(Ahead(src, 1))
  <2>1. /\ sent' = sent \o (IF pos <= it.stop THEN Ahead(src, 1) ELSE ButLast(Ahead(src, 1), pos - it.stop))
        /\ src' = After(src, 1) /\ it' = [it EXCEPT !.pos = pos] /\ pc' = "sending"
    BY <1>4 DEF NextOfRange, Deliver
  <2>2. 1 \in 0..Left(src) BY <1>2, <1>4
  <2>3. PICK u \in Nat : /\ u = Reached(src, 1) /\ src.pos <= u
                         /\ Len(Ahead(src, 1)) = u - src.pos
                         /\ Ahead(src, 1) = Data(src.ino, src.pos, u)
                         /\ src' \in Source /\ src'.kind = src.kind /\ src'.ino = src.ino
                         /\ src'.open = src.open /\ src'.pos = u /\ InOrder(src')
                         /\ OwnPage(src) => LastEnd(src') = LastEnd(src)
                         /\ \A k \in Nat : (Fits(k) /\ (OwnPage(src) \/ k = sizes[src.ino])) => u <= k
    BY <1>1, <2>1, <2>2, PiecesOf
  <2>4. u \in Nat /\ pos = u BY <1>1, <1>2, <2>3
  <2>5. src.pos < it.stop BY <1>1, <1>2, <1>4
  <2>6. sent = Data(src.ino, it.start, src.pos)
    <3>1. Upto = src.pos BY <1>1, <1>2, <2>5 DEF Upto, Least
    <3> QED BY <1>1, <3>1, UnderWay
  <2> DEFINE e == IF u <= it.stop THEN u ELSE it.stop
  <2>7. e \in Nat /\ src.pos <= e /\ it.start <= e /\ e <= u
    <3>1. PICK p \in Nat, x \in Nat, y \in Nat : p = src.pos /\ x = it.start /\ y = it.stop BY <1>2
    <3>2. x <= p /\ p < y /\ p <= u /\ u \in Nat BY <1>2, <2>3, <2>4, <2>5, <3>1
    <3>3. PICK z : z = IF u <= y THEN u ELSE y OBVIOUS
    <3>4. z \in Nat /\ p <= z /\ x <= z /\ z <= u BY ONLY <3>2, <3>3, p \in Nat, x \in Nat, y \in Nat
    <3> QED BY <3>1, <3>3, <3>4
  <2>8. sent' = Data(src.ino, it.start, src.pos) \o Data(src.ino, src.pos, e)
    <3>1. CASE u <= it.stop BY <2>1, <2>3, <2>4, <2>6, <3>1
    <3>2. CASE ~(u <= it.stop)
      <4>1. src.pos <= it.stop /\ it.stop <= u BY <1>2, <2>4, <2>5, <3>2
      <4>2. ButLast(Data(src.ino, src.pos, u), u - it.stop) = Data(src.ino, src.pos, it.stop)
        <5>1. PICK i \in Nat, a \in Nat, c \in Nat : i = src.ino /\ a = src.pos /\ c = it.stop BY <1>2
        <5>2. a <= c /\ c <= u /\ u \in Nat BY <2>4, <4>1, <5>1
        <5>3. ButLast(Data(i, a, u), u - c) = Data(i, a, c)
            <6>1. i \in Nat /\ a \in Nat /\ u \in Nat /\ c \in Nat BY <5>1, <5>2
            <6>2. a <= c BY <5>1, <5>2
            <6>3. c <= u BY <5>1, <5>2
            <6> QED BY <6>1, <6>2, <6>3, DataCut
        <5> QED BY <5>1, <5>3
      <4> QED BY <2>1, <2>3, <2>4, <2>6, <3>2, <4>2
    <3> QED BY <3>1, <3>2
  <2>9. /\ it' \in Iter /\ it'.kind = it.kind /\ it'.over = it.over /\ it'.start = it.start /\ it'.stop = it.stop
        /\ it'.pos = u
    <3>1. it' = [it EXCEPT !.pos = u] BY <2>1, <2>4
    <3> QED BY <1>2, <2>4, <3>1 DEF Iter
  <2>10. Upto' = e
    <3>1. Upto' = IF u <= it.start THEN it.start ELSE Least(u, it.stop) BY <2>9 DEF Upto
    <3> QED BY <1>1, <1>2, <2>3, <2>4, <3>1 DEF Least
  <2> HIDE DEF e, pos
  <2>11. sent' = Data(src.ino, it.start, e)
    <3>1. it.start <= src.pos /\ src.pos <= e /\ e \in Nat BY <1>2, <2>7
    <3>2. PICK i \in Nat, a \in Nat, p \in Nat : i = src.ino /\ a = it.start /\ p = src.pos BY <1>2
    <3>3. a <= p /\ p <= e BY <3>1, <3>2
    <3>4. Data(i, a, p) \o Data(i, p, e) = Data(i, a, e)
        <4>1. i \in Nat /\ a \in Nat /\ p \in Nat /\ e \in Nat BY <3>1, <3>2, <3>3
        <4>2. a <= p BY <3>1, <3>2, <3>3
        <4>3. p <= e BY <3>1, <3>2, <3>3
        <4> QED BY <4>1, <4>2, <4>3, DataConcat
    <3> QED BY <2>8, <3>2, <3>4
  <2>12. sent' \in Seq(Octet) BY <1>2, <2>7, <2>11, DataLen
  <2>13. \A k \in Nat : (Fits(k) /\ (OwnPage(src) \/ k = sizes[src.ino])) => u <= k /\ e <= k
    BY <2>3, <2>4, <2>7
  <2> QED BY <1>1, <2>1, <2>3, <2>7, <2>9, <2>10, <2>11, <2>12, <2>13, StepKeeps
<1> QED BY <1>3, <1>4

LEMMA IterateKeeps == ASSUME IInv, Iterate PROVE IInv'
<1>1. /\ pc = "sending"
      /\ UNCHANGED <<source, disk, requests, req, res, reply, client, still, sharp>>
  BY DEF Iterate
<1>2. it \in Iter /\ it.kind # "none" BY <1>1 DEF IInv, Typed, Framing, Sending
<1>3. CASE it.kind \in {"empty", "page"}
  <2>1. pc' = "sent" /\ src' = src /\ sent' = sent /\ it' = it BY <1>3 DEF Iterate, End
  <2>2. Upto' = Upto BY <1>1, <2>1 DEF Upto
  <2>3. \A n \in Nat : (Fits(n) /\ src.ino # 0) => src.pos <= n BY DEF Fits
  <2>4. src \in Source /\ InOrder(src) BY <1>1, UnderWay
  <2> QED BY <1>1, <1>3, <2>1, <2>2, <2>3, <2>4, EndKeeps
<1>4. CASE it.kind \in {"fileiter", "filerange"}
  <2>1. NextOfFile BY <1>4 DEF Iterate
  <2> QED BY <1>1, <1>4, <2>1, FileKeeps
<1>5. CASE it.kind = "range"
  <2>1. NextOfRange BY <1>5 DEF Iterate
  <2> QED BY <1>1, <1>5, <2>1, SkipKeeps, PassKeeps
<1>6. CASE it.kind = "plain"
  <2>1. IF Left(src) = 0 THEN End(src) ELSE Deliver(Ahead(src, 1), After(src, 1), it)
    BY <1>6 DEF Iterate
  <2> QED BY <1>1, <1>6, <2>1, PlainKeeps
<1> QED BY <1>2, <1>3, <1>4, <1>5, <1>6 DEF Iter, Kinds

---------------------------------------------------------------------------
(* The connection breaks, or the answer is over and its iterable closed.    *)

LEMMA DisconnectKeeps == ASSUME IInv, Disconnect PROVE IInv'
<1>1. /\ pc = "sending" /\ pc' = "broken" /\ src' = src /\ it' = it /\ sent' = sent
      /\ UNCHANGED <<source, disk, requests, req, res, reply, client, still, sharp>>
  BY DEF Disconnect, app
<1>2. Upto' = Upto BY <1>1 DEF Upto
<1>3. \A n \in Nat : (Fits(n) /\ src.ino # 0) => src.pos <= n BY DEF Fits
<1>4. src \in Source /\ InOrder(src) BY <1>1, UnderWay
<1> QED BY <1>1, <1>2, <1>3, <1>4, EndKeeps

\* The client has read a run of bytes that is not longer than was announced.
LEMMA BodyRead ==
  ASSUME NEW i \in Nat, NEW a \in Nat, NEW u \in Nat, NEW n \in Length, a <= u, sent = Data(i, a, u)
  PROVE  \E e \in Nat :
           /\ Data(i, a, e) = IF n # None /\ Len(sent) > n THEN SubSeq(sent, 1, n) ELSE sent
           /\ a <= e /\ e <= u
           /\ n # None => e <= a + n
<1>1. Len(sent) = u - a BY DataLen
<1>2. CASE n # None /\ Len(sent) > n
  <2>1. n \in Nat BY <1>2 DEF Length
  <2>2. PICK e \in Nat : e = a + n BY <2>1
  <2>3. a <= e BY <2>1, <2>2
  <2>4. e <= u BY <1>1, <1>2, <2>1, <2>2
  <2>5. i \in Nat /\ a \in Nat /\ u \in Nat /\ e \in Nat BY <2>2
  <2>6. SubSeq(Data(i, a, u), 1, e - a) = Data(i, a, e)
    BY ONLY <2>3, <2>4, <2>5, DataCut
  <2>7. e - a = n BY <2>1, <2>2
  <2>8. SubSeq(sent, 1, n) = Data(i, a, e) BY <2>6, <2>7
  <2> QED BY <1>2, <2>2, <2>3, <2>4, <2>5, <2>8
<1>3. CASE ~(n # None /\ Len(sent) > n)
  <2>1. n # None => u <= a + n
    <3>1. n # None => n \in Nat BY DEF Length
    <3> QED BY <1>1, <1>3, <3>1
  <2> QED BY <1>3, <2>1
<1> QED BY <1>2, <1>3

\* What the client has got is of the version that the response is of.
LEMMA VersionKept ==
  ASSUME IInv, NEW i \in Nat, NEW n \in Length, NEW e \in Nat, n # None => e <= n,
         client'.bytes = Data(i, 0, e), n # None => client'.total \in {None, n},
         client'.etag # NoETag => client'.etag.ino = i /\ (n # None => client'.etag.size = n)
  PROVE  OfVersion(i, n)'
<1>1. 0 \in Nat /\ 0 <= e OBVIOUS
<1>2. Len(Data(i, 0, e)) = e - 0 BY <1>1, DataLen
<1>3. Len(client'.bytes) = e BY <1>1, <1>2
<1> QED BY <1>3 DEF OfVersion

LEMMA CloseTypes ==
  ASSUME IInv, Close
  PROVE  /\ src'.ino = 0 /\ src'.open = Closed(src).open /\ src' \in Source
         /\ it' = NoIter /\ reply' = NoReply
<1>1. src \in Source BY DEF IInv, Typed
<1>2. Closed(src) = src \/ Closed(src) = Shut(src) BY DEF Closed
<1>3. PICK o \in BOOLEAN : o = Closed(src).open BY <1>1, <1>2, ShutSame DEF Source
<1>4. src' = [NoSource EXCEPT !.open = o] BY <1>3 DEF Close
<1>5. src'.ino = 0 /\ src'.open = o /\ src' \in Source BY <1>4, EmptySeq DEF NoSource, Source
<1>6. it' = NoIter /\ reply' = NoReply BY DEF Close
<1> QED BY <1>3, <1>5, <1>6

\* A whole answer.
LEMMA FetchedKeeps ==
  ASSUME IInv, Close, req.method = "GET", reply.status = 200
  PROVE  client' \in Copy /\ Versions' /\ (sharp => client'.date <= mtime)
<1>1. Sending /\ Begun BY DEF Close, Sending, Begun
<1>2. /\ it.kind \in {"plain", "fileiter"} /\ src.ino # 0 /\ reply.start = 0 /\ reply.length = res.length
      /\ sent = Data(src.ino, 0, Upto) /\ 0 <= Upto /\ res.date # None
  <2>1. it \in Iter BY DEF IInv, Typed
  <2>2. it.kind \in {"plain", "fileiter"} BY <1>1, <2>1 DEF IInv, Framing, Iter, Kinds
  <2> QED BY <1>1, <2>2 DEF IInv, Framing
<1>3. /\ src.ino \in Nat /\ src.ino \in 1..Len(sizes) /\ src.pos \in Nat /\ it.start \in Nat /\ it.pos \in Nat
      /\ res.length \in Length /\ res.date \in Dates \cup {None} /\ res.etag \in ETag /\ Upto \in Nat
  <2>1. /\ src.ino \in Nat /\ src.pos \in Nat /\ it.start \in Nat /\ it.pos \in Nat /\ Len(sizes) \in Nat
        /\ res.length \in Length /\ res.date \in Dates \cup {None} /\ res.etag \in ETag
    BY Fields DEF IInv
  <2>2. src.ino <= Len(sizes) BY <1>2 DEF IInv, Ordered
  <2>3. Upto \in Nat BY <1>2, <2>1 DEF Upto
  <2> QED BY <1>2, <2>1, <2>2, <2>3
<1> DEFINE body == IF res.length # None /\ Len(sent) > res.length THEN SubSeq(sent, 1, res.length) ELSE sent
<1>4. client' = [bytes |-> body, total |-> res.length, date |-> res.date, etag |-> res.etag, dated |-> FALSE]
  BY <1>2 DEF Close, Kept
<1>5. PICK i \in Nat, u \in Nat, n \in Length : i = src.ino /\ u = Upto /\ n = res.length BY <1>3
<1>6. PICK e \in Nat : body = Data(i, 0, e) /\ e <= u /\ (n # None => e <= n)
  <2>1. 0 \in Nat /\ u \in Nat /\ i \in Nat /\ n \in Length BY <1>5
  <2>2. 0 <= u BY <2>1
  <2>3. sent = Data(i, 0, u) BY <1>2, <1>5
  <2>4. PICK e \in Nat : /\ Data(i, 0, e) = IF n # None /\ Len(sent) > n THEN SubSeq(sent, 1, n) ELSE sent
                         /\ 0 <= e /\ e <= u /\ (n # None => e <= 0 + n)
    BY ONLY <2>1, <2>2, <2>3, BodyRead
  <2>5. n # None => n \in Nat BY DEF Length
  <2>6. body = Data(i, 0, e) BY <1>5, <2>4
  <2> QED BY <2>4, <2>5, <2>6
<1> HIDE DEF body
<1>7. /\ client'.bytes = Data(i, 0, e) /\ client'.total = res.length /\ client'.date = res.date
      /\ client'.etag = res.etag
  BY <1>4, <1>6
<1>8. 0 \in Nat /\ 0 <= e OBVIOUS
<1>9. Data(i, 0, e) \in Seq(Octet) /\ Len(Data(i, 0, e)) = e - 0 BY <1>8, DataLen
<1>10. client' \in Copy BY <1>3, <1>4, <1>6, <1>9 DEF Copy
<1>11. sharp => client'.date <= mtime BY <1>7, DateTypes DEF IInv
<1>12. ASSUME NEW m \in Nat, Fits(m) PROVE e <= m /\ (m # None => e <= m) /\ client'.total \in {None, m}
  <2>1. u <= m /\ res.length \in {None, m} BY <1>1, <1>2, <1>5, <1>12 DEF Fits
  <2>2. u \in Nat /\ e \in Nat /\ e <= u BY <1>5, <1>6
  <2> QED BY <1>7, <2>1, <2>2
<1>13. ASSUME sharp, path # 0, res.date = mtime PROVE OfVersion(path, sizes[path])'
  <2>1. src.ino = path /\ Fits(sizes[path]) BY <1>1, <1>2, <1>13 DEF IInv, Undisturbed
  <2>2. PICK m \in Nat : m = sizes[path] BY <1>13, Fields DEF IInv
  <2>3. client'.etag # NoETag => client'.etag.ino = i /\ client'.etag.size = m
    <3>1. res.etag # NoETag => /\ res.etag.ino = src.ino /\ LastEnd(src) = res.etag.size /\ OwnPage(src)
      BY <1>1 DEF IInv, Tagged, Fits
    <3>2. OwnPage(src) => LastEnd(src) = m BY <2>1, <2>2 DEF Fits
    <3> QED BY <1>5, <1>7, <3>1, <3>2
  <2>4. m # None => e <= m /\ client'.total \in {None, m} BY <1>12, <2>1, <2>2
  <2>5. m \in Length BY DEF Length
  <2>6. OfVersion(i, m)' BY <1>7, <2>3, <2>4, <2>5, VersionKept
  <2>7. path' = path /\ sizes' = sizes BY DEF Close, disk
  <2>8. i = path BY <1>5, <2>1
  <2> QED BY <2>2, <2>6, <2>7, <2>8 DEF OfVersion
<1>14. ASSUME res.etag # NoETag PROVE OfVersion(client.etag.ino, client.etag.size)'
  <2>1. res.etag.ino = src.ino /\ Fits(res.etag.size) BY <1>1, <1>14 DEF IInv, Tagged
  <2>2. PICK m \in Nat : m = res.etag.size BY <1>3 DEF ETag
  <2>3. client'.etag # NoETag => client'.etag.ino = i /\ client'.etag.size = m BY <1>5, <1>7, <2>1, <2>2
  <2>4. m # None => e <= m /\ client'.total \in {None, m} BY <1>12, <2>1, <2>2
  <2>5. m \in Length BY DEF Length
  <2>6. OfVersion(i, m)' BY <1>7, <2>3, <2>4, <2>5, VersionKept
  <2>7. client'.etag.ino = i /\ client'.etag.size = m BY <1>5, <1>7, <2>1, <2>2
  <2> QED BY <2>6, <2>7 DEF OfVersion
<1>15. Versions'
  <2>1. Len(client'.bytes) = e BY <1>7, <1>8, <1>9
  <2>2. client'.bytes = Data(i, 0, Len(client'.bytes)) /\ i \in 1..Len(sizes) BY <1>3, <1>5, <1>7, <2>1
  <2>3. path' = path /\ sizes' = sizes /\ mtime' = mtime /\ sharp' = sharp /\ pc' = "idle" BY DEF Close, disk
  <2>4. (sharp /\ path # 0 /\ client'.date = mtime) => OfVersion(path, sizes[path])' BY <1>7, <1>13
  <2>5. client'.etag # NoETag => OfVersion(client.etag.ino, client.etag.size)' BY <1>7, <1>14
  <2> QED BY <2>2, <2>3, <2>4, <2>5 DEF Versions, Sending
<1> QED BY <1>10, <1>11, <1>15

\* A part, which the client puts behind what it has.
LEMMA ResumedKeeps ==
  ASSUME IInv, Close, reply.status = 206, req.resume
  PROVE  client' \in Copy /\ Versions' /\ (sharp => client'.date <= mtime)
<1>1. Sending /\ Begun BY DEF Close, Sending, Begun
<1>2. /\ src.ino # 0 /\ res.date # None /\ res.length # None /\ reply.total = res.length
      /\ reply.length # None /\ reply.start + reply.length <= res.length
      /\ reply.start = Len(client.bytes)
      /\ sent = Data(src.ino, reply.start, Upto) /\ reply.start <= Upto
  BY <1>1 DEF IInv, Framing
<1>3. /\ src.ino \in Nat /\ src.ino \in 1..Len(sizes)
      /\ res.length \in Nat /\ reply.length \in Nat /\ reply.start \in Nat /\ reply.total \in Length
      /\ client.bytes \in Seq(Octet) /\ client \in Copy /\ Upto \in Nat
      /\ client.date \in Dates \cup {None} /\ client.etag \in ETag
  <2>1. /\ src.ino \in Nat /\ res.length \in Nat /\ reply.length \in Nat /\ reply.start \in Nat
        /\ reply.total \in Length /\ client.bytes \in Seq(Octet) /\ Len(sizes) \in Nat
        /\ src.pos \in Nat /\ it.start \in Nat /\ it.pos \in Nat /\ it.stop \in Length
        /\ client.date \in Dates \cup {None} /\ client.etag \in ETag
    BY <1>2, Fields DEF IInv, Length
  <2>2. src.ino <= Len(sizes) BY <1>2 DEF IInv, Ordered
  <2>3. it.kind = "range" => it.stop \in Nat BY <1>1, <2>1 DEF IInv, Framing, Length
  <2>4. Upto \in Nat BY <2>1, <2>3 DEF Upto, Least
  <2>5. client \in Copy BY DEF IInv, Typed
  <2> QED BY <1>2, <2>1, <2>2, <2>4, <2>5
<1> DEFINE body == IF reply.length # None /\ Len(sent) > reply.length THEN SubSeq(sent, 1, reply.length) ELSE sent
           whole == SubSeq(client.bytes, 1, reply.start) \o body
<1>4. client' = [client EXCEPT !.bytes = whole, !.total = reply.total, !.dated = client.dated \/ reply.dated]
  BY <1>2 DEF Close, Kept
<1>5. PICK i \in Nat, a \in Nat, u \in Nat, n \in Length :
        i = src.ino /\ a = reply.start /\ u = Upto /\ n = reply.length
  <2>1. reply.length \in Length BY <1>3 DEF Length
  <2> QED BY <1>3, <2>1
<1>6. PICK e \in Nat : body = Data(i, a, e) /\ a <= e /\ e <= res.length
  <2>1. i \in Nat /\ a \in Nat /\ u \in Nat /\ n \in Length BY <1>5
  <2>2. a <= u BY <1>2, <1>5
  <2>3. sent = Data(i, a, u) BY <1>2, <1>5
  <2>4. PICK e \in Nat : /\ Data(i, a, e) = IF n # None /\ Len(sent) > n THEN SubSeq(sent, 1, n) ELSE sent
                         /\ a <= e /\ e <= u /\ (n # None => e <= a + n)
    BY ONLY <2>1, <2>2, <2>3, BodyRead
  <2>5. body = Data(i, a, e) BY <1>5, <2>4
  <2>6. e <= a + n /\ a + n <= res.length /\ n \in Nat BY <1>2, <1>3, <1>5, <2>4
  <2>7. e <= res.length BY <1>3, <1>5, <2>4, <2>6
  <2> QED BY <2>4, <2>5, <2>7
<1> HIDE DEF body
<1>7. SubSeq(client.bytes, 1, reply.start) = client.bytes
  <2>1. client.bytes = SubSeq(client.bytes, 1, Len(client.bytes)) BY <1>3
  <2> QED BY <1>2, <2>1
<1>8. Data(i, a, e) \in Seq(Octet)
  <2>1. i \in Nat /\ a \in Nat /\ e \in Nat BY <1>5, <1>6
  <2> QED BY ONLY <2>1, DataLen
<1>9. whole \in Seq(Octet)
  <2>1. client.bytes \o Data(i, a, e) \in Seq(Octet) BY <1>3, <1>8, ConcatProperties
  <2> QED BY <1>6, <1>7, <2>1
<1> HIDE DEF whole
<1>10. /\ client'.bytes = whole /\ client'.total = res.length /\ client'.date = client.date
       /\ client'.etag = client.etag /\ client'.dated = (client.dated \/ reply.dated) /\ client' \in Copy
  <2>1. whole \in Seq(Octet) /\ reply.total \in Length /\ client \in Copy BY <1>3, <1>9
  <2>2. PICK d \in BOOLEAN : d = (client.dated \/ reply.dated) OBVIOUS
  <2>3. client' = [client EXCEPT !.bytes = whole, !.total = reply.total, !.dated = d] BY <1>4, <2>2
  <2> QED BY <1>2, <2>1, <2>2, <2>3 DEF Copy
<1>11. sharp => client'.date <= mtime BY <1>10, DateTypes DEF IInv
<1>12. Versions'
  <2> SUFFICES ASSUME sharp \/ ~(client.dated \/ reply.dated) PROVE Versions'
    <3>1. sharp' = sharp BY DEF Close
    <3> QED BY <1>10, <3>1 DEF Versions
  <2>1. OfVersion(src.ino, res.length) BY <1>1 DEF IInv, Versions
  <2>2. client.bytes = Data(i, 0, a)
    <3>1. client.bytes = Data(src.ino, 0, Len(client.bytes)) BY <2>1 DEF OfVersion
    <3> QED BY <1>2, <1>5, <3>1
  <2>3. client'.bytes = Data(i, 0, e)
    <3>1. Data(i, 0, a) \o Data(i, a, e) = Data(i, 0, e)
      <4>1. 0 \in Nat /\ i \in Nat /\ a \in Nat /\ e \in Nat BY <1>5, <1>6
      <4>2. 0 <= a BY <4>1
      <4>3. a <= e BY <1>6
      <4> QED BY ONLY <4>1, <4>2, <4>3, DataConcat
    <3>2. whole = Data(i, 0, a) \o Data(i, a, e) BY <1>6, <1>7, <2>2 DEF whole
    <3> QED BY <1>10, <3>1, <3>2
  <2>4. Len(client'.bytes) = e
    <3>1. 0 \in Nat /\ i \in Nat /\ e \in Nat BY <1>5, <1>6
    <3>2. 0 <= e BY <3>1
    <3>3. Len(Data(i, 0, e)) = e - 0 BY ONLY <3>1, <3>2, DataLen
    <3>4. e - 0 = e BY ONLY <3>1
    <3> QED BY <2>3, <3>3, <3>4
  <2>5. client.etag # NoETag => client.etag.ino = i /\ client.etag.size = res.length
    BY <1>2, <1>5, <2>1 DEF OfVersion
  <2>6. PICK m \in Nat : m = res.length BY <1>3
  <2>7. m # None => e <= m /\ client'.total \in {None, m} BY <1>6, <1>10, <2>6
  <2>8. client'.etag # NoETag => client'.etag.ino = i /\ (m # None => client'.etag.size = m) BY <1>10, <2>5, <2>6
  <2>9. OfVersion(i, m)'
    <3>1. m \in Length BY DEF Length
    <3> QED BY <2>3, <2>7, <2>8, <3>1, VersionKept
  <2>10. path' = path /\ sizes' = sizes /\ mtime' = mtime /\ sharp' = sharp /\ pc' = "idle" BY DEF Close, disk
  <2>11. (sharp /\ path # 0 /\ client.date = mtime) => OfVersion(path, sizes[path])'
    <3> SUFFICES ASSUME sharp, path # 0, client.date = mtime PROVE OfVersion(path, sizes[path])'
      OBVIOUS
    <3>1. res.date = mtime
      <4>1. client.date <= res.date BY <1>1, <1>2 DEF IInv, Ordered
      <4> QED BY <4>1, DateTypes DEF IInv
    <3>2. src.ino = path /\ res.length \in {None, sizes[path]} BY <1>1, <1>2, <3>1 DEF IInv, Undisturbed, Fits
    <3>3. i = path /\ m = sizes[path] BY <1>2, <1>5, <2>6, <3>2
    <3> QED BY <2>9, <2>10, <3>3 DEF OfVersion
  <2>12. client'.etag # NoETag => OfVersion(client.etag.ino, client.etag.size)'
    <3>1. client'.etag # NoETag => client'.etag.ino = i /\ client'.etag.size = m BY <1>10, <2>5, <2>6
    <3> QED BY <2>9, <3>1 DEF OfVersion
  <2>13. client'.bytes = Data(i, 0, Len(client'.bytes)) /\ i \in 1..Len(sizes) BY <1>3, <1>5, <2>3, <2>4
  <2> QED BY <1>10, <2>10, <2>11, <2>12, <2>13 DEF Versions, Sending
<1> QED BY <1>10, <1>11, <1>12

LEMMA CloseKeeps == ASSUME IInv, Close PROVE IInv'
<1>1. /\ pc' = "idle" /\ client' = Kept /\ req' = Get /\ res' = Blank /\ sent' = <<>>
      /\ source' = source /\ sizes' = sizes /\ path' = path /\ mtime' = mtime /\ changes' = changes
      /\ still' = still /\ sharp' = sharp
  BY DEF Close, disk
<1>2. client' \in Copy /\ Versions' /\ (sharp => client'.date <= mtime)
  <2>1. CASE req.method = "GET" /\ reply.status = 200 BY <2>1, FetchedKeeps
  <2>2. CASE reply.status = 206 /\ req.resume BY <2>2, ResumedKeeps
  <2>3. CASE ~(req.method = "GET" /\ reply.status = 200) /\ ~(reply.status = 206 /\ req.resume)
    <3>1. client' = client BY <1>1, <2>3 DEF Kept
    <3>2. Versions' BY <1>1, <3>1 DEF IInv, Versions, OfVersion, Sending
    <3> QED BY <3>1, <3>2, DateTypes DEF IInv, Typed
  <2> QED BY <2>1, <2>2, <2>3
<1>3. Typed'
  <2>1. <<>> \in Seq(Octet) BY EmptySeq
  <2> QED BY <1>1, <1>2, <2>1, CloseTypes, Records DEF IInv, Typed
<1>4. Ordered'
  <2>1. None <= mtime BY Fields DEF IInv, None
  <2> QED BY <1>1, <1>2, <2>1, CloseTypes DEF Ordered, Begun, Blank
<1>5. (Begun => InOrder(src))' /\ Undisturbed' /\ Tagged' /\ Framing' /\ Asked' /\ Confirmed' /\ Held'
  BY <1>1 DEF Begun, Undisturbed, Tagged, Framing, Sending, Asked, Confirmed, Held
<1> QED BY <1>2, <1>3, <1>4, <1>5 DEF IInv

---------------------------------------------------------------------------
(* The theorems.                                                            *)

LEMMA SameKeeps == ASSUME IInv, UNCHANGED vars PROVE IInv'
<1>1. /\ source' = source /\ sizes' = sizes /\ path' = path /\ mtime' = mtime /\ changes' = changes
      /\ pc' = pc /\ req' = req /\ res' = res /\ src' = src /\ it' = it /\ reply' = reply
      /\ sent' = sent /\ client' = client /\ still' = still /\ sharp' = sharp
  BY DEF vars, disk, app
<1>2. Typed' BY <1>1 DEF IInv, Typed
<1>3. Ordered' BY <1>1 DEF IInv, Ordered, Begun
<1>4. (Begun => InOrder(src))' BY <1>1 DEF IInv, Begun, InOrder, OwnPage
<1>5. Undisturbed' BY <1>1 DEF IInv, Undisturbed, Begun, Fits, Sending, OwnPage, LastEnd, Upto
<1>6. Tagged' BY <1>1 DEF IInv, Tagged, Begun, Fits, Sending, OwnPage, LastEnd, Upto
<1>7. Framing' BY <1>1 DEF IInv, Framing, Sending, Upto
<1>8. Asked' BY <1>1 DEF IInv, Asked, AskedBy
<1>9. Versions' BY <1>1 DEF IInv, Versions, OfVersion, Served0, Sending
<1>10. Confirmed' /\ Held' BY <1>1 DEF IInv, Confirmed, Held, Sending
<1> QED BY <1>2, <1>3, <1>4, <1>5, <1>6, <1>7, <1>8, <1>9, <1>10 DEF IInv

LEMMA NextKeeps == ASSUME IInv, [Next]_vars PROVE IInv'
<1>1. CASE Client BY <1>1, ClientKeeps
<1>2. CASE World BY <1>2, WorldKeeps
<1>3. CASE Stat BY <1>3, StatKeeps
<1>4. CASE Open BY <1>4, OpenKeeps
<1>5. CASE Make BY <1>5, MakeKeeps
<1>6. CASE Respond BY <1>6, RespondKeeps
<1>7. CASE Iterate BY <1>7, IterateKeeps
<1>8. CASE Close BY <1>8, CloseKeeps
<1>9. CASE Disconnect BY <1>9, DisconnectKeeps
<1>10. CASE UNCHANGED vars BY <1>10, SameKeeps
<1> QED BY <1>1, <1>2, <1>3, <1>4, <1>5, <1>6, <1>7, <1>8, <1>9, <1>10 DEF Next, Server

\* What is known of every state: how far an answer is, what was sent of which
\* file, which version the client has, and what is left open (the whole of
\* static.py 19-104 and of conditional_response_app and AppIterRange).
THEOREM Inductive == Spec => []IInv
<1>1. Init => IInv BY InitHolds
<1>2. IInv /\ [Next]_vars => IInv' BY NextKeeps
<1> QED BY <1>1, <1>2, PTL DEF Spec

\* Whenever the server has closed what it got (FileIter, AppIterRange,
\* EmptyResponse or the iterable as it is), what is still open is only what
\* the code leaves to the garbage collector; a FileIter that was sent to its
\* end is not, by the finally of app_iter_range.
THEOREM SourcesAreClosed == Spec => Released
<1>1. ASSUME IInv, Close, src'.open
      PROVE  \/ reply.status = 500
             \/ src.kind = "file" /\ it.kind \in {"empty", "page"}
             \/ src.kind = "file" /\ pc = "broken" /\ ~(it.kind = "filerange" /\ src.started)
             \/ src.kind = "object" /\ "range" \in {it.kind, it.over}
  <2> DEFINE kind == IF it.kind = "empty" THEN it.over ELSE it.kind
  <2>1. Sending /\ pc \in {"sent", "broken"} /\ src \in Source /\ it \in Iter
    BY <1>1 DEF Close, Sending, IInv, Typed
  <2>2. Closed(src).open BY <1>1, CloseTypes
  <2>3. CASE kind \in {"page", "fileiter"} \/ (kind = "filerange" /\ ~src.started)
    <3>1. Closed(src) = src BY <2>3 DEF Closed
    <3>2. src.open BY <2>2, <3>1
    <3>3. CASE it.kind = "empty"
      <4>1. it.over \in {"fileiter", "filerange"} BY <2>1, <2>3, <3>3 DEF Iter
      <4>2. src.kind = "file" BY <1>1, <2>1, <3>3, <4>1 DEF IInv, Framing
      <4> QED BY <3>3, <4>2
    <3>4. CASE it.kind = "page" BY <1>1, <2>1, <3>2, <3>4 DEF IInv, Held
    <3>5. CASE it.kind \in {"fileiter", "filerange"}
      <4>1. src.kind = "file" BY <1>1, <2>1, <3>5 DEF IInv, Framing
      <4>2. pc = "broken" BY <1>1, <2>1, <3>2, <3>5 DEF IInv, Held
      <4> QED BY <2>3, <3>5, <4>1, <4>2
    <3> QED BY <2>3, <3>3, <3>4, <3>5
  <2>4. CASE kind = "range" /\ src.kind = "object" BY <2>4
  <2>5. CASE /\ kind \notin {"page", "fileiter"} /\ ~(kind = "filerange" /\ ~src.started)
             /\ ~(kind = "range" /\ src.kind = "object")
    <3>1. Closed(src) = Shut(src) BY <2>5 DEF Closed
    <3>2. ~Shut(src).open BY ONLY <2>1, ShutSame
    <3> QED BY ONLY <2>2, <3>1, <3>2
  <2> QED BY <2>3, <2>4, <2>5
<1>2. IInv /\ [Next]_vars =>
        [Close /\ src'.open =>
           \/ reply.status = 500
           \/ src.kind = "file" /\ it.kind \in {"empty", "page"}
           \/ src.kind = "file" /\ pc = "broken" /\ ~(it.kind = "filerange" /\ src.started)
           \/ src.kind = "object" /\ "range" \in {it.kind, it.over}]_vars
  BY <1>1
<1> QED BY <1>2, Inductive, PTL DEF Spec, Released

\* Whatever answers broke off, whichever ranges the client asked for with
\* If-Range and however the file changed meanwhile, a copy that is complete is
\* one version of the file: always, if only tags vouched for its parts; if a
\* date did, as long as every version was dated later than those before it
\* (conditional_response_app, _make_content_range, etag.py's IfRange).
THEOREM CopiesAreOfOneVersion == Spec => []Assembled
<1>1. IInv => Assembled BY DEF IInv, Versions, Assembled
<1> QED BY <1>1, Inductive, PTL

\* The client that is told "not modified" has the beginning, or all, of what
\* the file is: whatever was done to the file, if it is told so for a tag; if
\* for a date, as long as every version was dated later than those before it
\* (conditional_response_app: If-None-Match before If-Modified-Since).
THEOREM NoStaleCopies == Spec => []NotStale
<1>1. ASSUME IInv PROVE NotStale
  <2> SUFFICES ASSUME reply.status = 304, pc = "sent", still, sharp \/ ~(reply.dated \/ client.dated)
               PROVE  /\ IsPrefix(client.bytes, Data(src.ino, 0, sizes[src.ino]))
                      /\ Whole => Len(client.bytes) = sizes[src.ino]
    BY DEF NotStale
  <2>1. Sending /\ Begun BY DEF Sending, Begun
  <2>2. src.ino # 0 /\ res.date # None BY <1>1, <2>1 DEF IInv, Framing
  <2>3. path # 0 /\ res.date = mtime /\ src.ino = path /\ Fits(sizes[path])
    BY <1>1, <2>1, <2>2 DEF IInv, Undisturbed
  <2>4. PICK i \in Nat, n \in Nat : i = src.ino /\ n = sizes[path]
    <3>1. src.ino \in Nat /\ sizes[path] \in Nat BY <1>1, <2>3, Fields DEF IInv
    <3> QED BY <3>1
  <2>5. OfVersion(i, n)
    <3>1. CASE ~reply.dated /\ client.etag # NoETag /\ res.etag # NoETag /\ SameTag(client.etag, res.etag)
      <4>1. OfVersion(client.etag.ino, client.etag.size)
        <5>1. sharp \/ ~client.dated BY <3>1
        <5> QED BY <1>1, <3>1, <5>1 DEF IInv, Versions
      <4>2. res.etag.ino = src.ino /\ OwnPage(src) /\ LastEnd(src) = res.etag.size
        BY <1>1, <2>1, <3>1 DEF IInv, Tagged, Fits
      <4>3. LastEnd(src) = sizes[path] BY <2>3, <4>2 DEF Fits
      <4> QED BY <2>4, <3>1, <4>1, <4>2, <4>3 DEF SameTag
    <3>2. CASE reply.dated /\ res.date <= client.date
      <4>1. sharp BY <3>2
      <4>2. client.date <= mtime BY <1>1, <4>1, DateTypes DEF IInv
      <4>3. mtime <= client.date BY <2>3, <3>2
      <4>4. client.date = mtime
        <5>1. client.date \in Int /\ mtime \in Int BY <1>1, <2>2, <2>3, DateTypes DEF IInv
        <5> QED BY ONLY <4>2, <4>3, <5>1
      <4> QED BY <1>1, <2>3, <2>4, <4>1, <4>4 DEF IInv, Versions
    <3> QED BY <1>1, <2>1, <3>1, <3>2 DEF IInv, Confirmed
  <2>6. PICK k \in Nat : k = Len(client.bytes) BY <1>1, Fields DEF IInv
  <2>7. client.bytes = Data(i, 0, k) /\ k <= n /\ client.total \in {None, n}
    <3>1. n # None BY <2>4 DEF None
    <3> QED BY <2>5, <2>6, <3>1 DEF OfVersion
  <2>8. IsPrefix(Data(i, 0, k), Data(i, 0, n))
    <3>1. i \in Nat /\ k \in Nat /\ n \in Nat BY <2>4, <2>6
    <3>2. k <= n BY <2>7
    <3> QED BY ONLY <3>1, <3>2, DataPrefix
  <2> QED BY <2>3, <2>4, <2>6, <2>7, <2>8 DEF Whole
<1> QED BY <1>1, Inductive, PTL

\* An iterator that has nothing more to give is at the end of what it should
\* give, if the file is what it was at os.stat.
LEMMA EndReached ==
  ASSUME IInv, Iterate, pc' = "sent", still, src.ino # 0,
         it.kind \in {"plain", "range", "fileiter", "filerange"}
  PROVE  Upto = IF reply.length = None THEN sizes[src.ino] ELSE reply.start + reply.length
<1>1. pc = "sending" /\ Begun /\ Sending BY DEF Iterate, Begun, Sending
<1>2. /\ src \in Source /\ InOrder(src) /\ sizes \in Seq(Nat) /\ src.ino \in 1..Len(sizes)
      /\ src.pos \in Nat /\ sizes[src.ino] \in Nat /\ Upto \in Nat
      /\ it.start \in Nat /\ it.pos \in Nat /\ reply.start \in Nat /\ Block \in Nat \ {0}
  BY <1>1, UnderWay, Fields, ServingAssumption DEF IInv
<1>3. res.date # None BY <1>1 DEF IInv, Framing
<1>4. PICK n \in Nat : n = sizes[src.ino] BY <1>2
<1>5. Fits(n) BY <1>1, <1>3, <1>4 DEF IInv, Undisturbed
<1>6. res.length \in {None, n} /\ src.pos <= n /\ Upto <= n /\ (OwnPage(src) => LastEnd(src) = n)
  BY <1>1, <1>5 DEF Fits
\* The pieces of a wrapped iterable reach the end of the file.
<1>7. ASSUME src.kind # "file"
      PROVE  /\ Left(src) \in Nat
             /\ Left(src) = 0 => src.pos = n
             /\ Reached(src, Left(src)) = n
  <2>1. Left(src) \in Nat BY <1>2, Places
  <2>2. Reached(src, 0) = src.pos BY DEF Reached
  <2>3. CASE OwnPage(src)
    <3>1. Reached(src, Left(src)) = n BY <1>2, <1>6, <2>3, Places
    <3> QED BY <2>1, <2>2, <3>1
  <2>4. CASE ~OwnPage(src)
    <3>1. src.kind = "wrap"
      <4>1. src.kind # "none" BY DEF IInv, Ordered
      <4> QED BY <1>2, <1>7, <2>4, <4>1 DEF OwnPage, Source
    <3>2. Left(src) # 0 => Reached(src, Left(src)) = n BY <1>2, <1>4, <3>1, Places
    <3>3. Left(src) = 0 => n <= src.pos BY <1>2, <1>4, <3>1, Places
    <3>4. Left(src) = 0 => src.pos = n BY <1>2, <1>6, <3>3
    <3> QED BY <2>1, <2>2, <3>2, <3>4
  <2> QED BY <2>3, <2>4
<1>8. CASE it.kind = "plain"
  <2>1. src.kind # "file" /\ reply.start = 0 /\ reply.length = res.length BY <1>1, <1>8 DEF IInv, Framing
  <2>2. Left(src) = 0 BY <1>1, <1>8 DEF Iterate, Deliver
  <2>3. Upto = src.pos BY <1>8 DEF Upto
  <2> QED BY <1>4, <1>6, <1>7, <2>1, <2>2, <2>3
<1>9. CASE it.kind = "range"
  <2>1. /\ src.kind # "file" /\ reply.start = it.start /\ reply.length = it.stop - it.start
        /\ it.stop \in Nat /\ it.start < it.stop /\ it.pos = src.pos
        /\ res.length # None /\ reply.start + reply.length <= res.length
    <3>1. /\ src.kind # "file" /\ reply.start = it.start /\ reply.length = it.stop - it.start
          /\ it.stop # None /\ it.start < it.stop /\ it.pos = src.pos
          /\ res.length # None /\ reply.start + reply.length <= res.length
      BY <1>1, <1>9 DEF IInv, Framing
    <3>2. it.stop \in Length BY Fields DEF IInv
    <3> QED BY <3>1, <3>2 DEF Length
  <2>2. reply.length # None /\ reply.start + reply.length = it.stop /\ it.stop <= n
    BY <1>2, <1>6, <2>1 DEF None
  <2>3. NextOfRange BY <1>9 DEF Iterate
  <2>4. CASE it.pos < it.start
    <3>1. Left(src) # 0 BY <1>2, <1>7, <2>1, <2>2, <2>4
    <3>2. Left(src) \in 1..Left(src) /\ Left(src) \in 0..Left(src) BY <1>7, <2>1, <3>1
    <3>3. it.pos + Len(Ahead(src, Left(src))) >= it.start
      <4>1. Len(Ahead(src, Left(src))) = Reached(src, Left(src)) - src.pos BY <1>1, <2>1, <3>2, PiecesOf
      <4>2. Len(Ahead(src, Left(src))) = n - src.pos BY <1>7, <2>1, <4>1
      <4> QED BY <1>2, <2>1, <2>2, <4>2
    <3>4. Left(src) \in {m \in 1..Left(src) : it.pos + Len(Ahead(src, m)) >= it.start} BY <3>2, <3>3
    <3>5. {m \in 1..Left(src) : it.pos + Len(Ahead(src, m)) >= it.start} # {} BY <3>4
    <3>6. pc' = pc BY <2>3, <2>4, <3>5 DEF NextOfRange, Deliver
    <3> QED BY <1>1, <3>6
  <2>5. CASE ~(it.pos < it.start)
    <3>1. it.pos >= it.stop \/ Left(src) = 0 BY <1>1, <2>3, <2>5 DEF NextOfRange, Deliver
    <3>2. it.pos >= it.stop BY <1>2, <1>7, <2>1, <2>2, <3>1
    <3>3. Upto = it.stop BY <1>2, <1>9, <2>1, <3>2 DEF Upto, Least
    <3> QED BY <2>2, <3>3
  <2> QED BY <2>4, <2>5
<1>10. CASE it.kind \in {"fileiter", "filerange"}
  <2> DEFINE from == it.start + it.pos
             want == IF it.stop = None THEN Block ELSE Least(Block, it.stop - from)
             upto == Least(from + want, sizes[src.ino])
  <2>1. NextOfFile BY <1>10 DEF Iterate
  <2>2. Data(src.ino, from, upto) = <<>> BY <1>1, <2>1 DEF NextOfFile, Deliver
  <2>3. PICK f \in Nat : f = from BY <1>2
  <2>4. Upto = f /\ f <= n
    <3>1. Upto = f BY <1>10, <2>3 DEF Upto
    <3> QED BY <1>6, <3>1
  <2>5. CASE it.kind = "fileiter"
    <3>1. reply.start = 0 /\ reply.length = res.length /\ it.stop = None BY <1>1, <2>5 DEF IInv, Framing
    <3>2. upto = Least(f + Block, n) BY <1>4, <2>3, <3>1
    <3>3. PICK u \in Nat : u = IF f + Block <= n THEN f + Block ELSE n BY <1>2
    <3>4. u = upto BY <3>2, <3>3 DEF Least
    <3>5. Data(src.ino, f, u) = <<>> BY <2>2, <2>3, <3>4
    <3>6. u <= f
      <4>1. src.ino \in Nat /\ f \in Nat /\ u \in Nat BY <1>2, <2>3, <3>3
      <4> QED BY ONLY <3>5, <4>1, DataEmpty
    <3> HIDE DEF upto, want, from
    <3>7. f = n BY <1>2, <2>4, <3>3, <3>6
    <3> QED BY <1>4, <1>6, <2>4, <3>1, <3>7
  <2>6. CASE it.kind = "filerange"
    <3>1. /\ reply.start = it.start /\ reply.length = it.stop - it.start
          /\ it.stop # None /\ it.start < it.stop /\ from <= it.stop
          /\ res.length # None /\ reply.start + reply.length <= res.length
      BY <1>1, <2>6 DEF IInv, Framing
    <3>2. PICK e \in Nat : e = it.stop
      <4>1. it.stop \in Length BY Fields DEF IInv
      <4> QED BY <3>1, <4>1 DEF Length
    <3>3. upto = Least(f + Least(Block, e - f), n) BY <1>4, <2>3, <3>1, <3>2
    <3>4. f <= e /\ e <= n /\ reply.length # None /\ reply.start + reply.length = e
      <4> HIDE DEF upto, want
      <4>1. PICK b \in Nat : b = it.start BY <1>2
      <4>2. reply.start = b /\ reply.length = e - b /\ b < e BY ONLY <3>1, <3>2, <4>1
      <4>3. reply.length # None /\ reply.start + reply.length = e BY ONLY <4>1, <4>2, <3>2 DEF None
      <4>4. f <= e /\ e <= n BY <1>6, <2>3, <3>1, <3>2, <4>3
      <4> QED BY ONLY <4>3, <4>4
    <3>5. PICK u \in Nat : u = IF f + Block <= e THEN f + Block ELSE e BY <1>2
    <3>6. upto = u
      <4>1. Least(Block, e - f) = IF f + Block <= e THEN Block ELSE e - f BY <1>2 DEF Least
      <4>2. f + Least(Block, e - f) = u BY <1>2, <3>5, <4>1
      <4>3. u <= n BY <3>4, <3>5
      <4> HIDE DEF upto
      <4> QED BY <3>3, <4>2, <4>3 DEF Least
    <3>7. Data(src.ino, f, u) = <<>> BY <2>2, <2>3, <3>6
    <3>8. u <= f
      <4>1. src.ino \in Nat /\ f \in Nat /\ u \in Nat BY <1>2, <2>3, <3>5
      <4> QED BY ONLY <3>7, <4>1, DataEmpty
    <3> HIDE DEF upto, want, from
    <3>9. f = e BY <1>2, <3>4, <3>5, <3>8
    <3> QED BY <2>4, <3>4, <3>9
  <2> QED BY <1>10, <2>5, <2>6
<1> QED BY <1>8, <1>9, <1>10

\* An answer that is sent to its end, of a file that stayed as it was, has all
\* the bytes that Content-Length and Content-Range announce, whatever the
\* block size, the pieces, the range and the iterator (FileIter,
\* wsgi.file_wrapper, AppIterRange), and has none for HEAD and 304.
THEOREM AnswersAreFramed == Spec => Framed
<1>1. ASSUME IInv, Iterate, pc' = "sent", still, src.ino # 0, it.kind # "page"
      PROVE  sent = IF req.method = "HEAD" \/ reply.status = 304 THEN <<>>
                    ELSE Data(src.ino, reply.start,
                              IF reply.length = None THEN sizes[src.ino] ELSE reply.start + reply.length)
  <2>1. pc = "sending" /\ Sending BY <1>1 DEF Iterate, Sending
  <2>2. sent = Data(src.ino, reply.start, Upto) BY <1>1, <2>1 DEF IInv, Framing
  <2>3. /\ it.kind # "none" /\ (it.kind = "empty" => req.method = "HEAD" \/ reply.status = 304)
        /\ req.method = "HEAD" => it.kind = "empty"
        /\ reply.status = 304 => it.kind = "empty"
    BY <1>1, <2>1 DEF IInv, Framing
  <2>4. CASE it.kind = "empty"
    <3>1. Upto = reply.start BY <2>4 DEF Upto
    <3>2. src.ino \in Nat /\ reply.start \in Nat BY <1>1, Fields DEF IInv
    <3>3. reply.start <= reply.start BY <3>2
    <3>4. Data(src.ino, reply.start, reply.start) = <<>> BY ONLY <3>2, <3>3, DataEmpty
    <3> QED BY <2>2, <2>3, <2>4, <3>1, <3>4
  <2>5. CASE it.kind # "empty"
    <3>1. it.kind \in {"plain", "range", "fileiter", "filerange"}
      <4>1. it \in Iter BY <1>1 DEF IInv, Typed
      <4> QED BY <1>1, <2>3, <2>5, <4>1 DEF Iter, Kinds
    <3>2. Upto = IF reply.length = None THEN sizes[src.ino] ELSE reply.start + reply.length
      BY <1>1, <3>1, EndReached
    <3> QED BY <2>2, <2>3, <2>5, <3>2
  <2> QED BY <2>4, <2>5
<1>2. IInv /\ [Next]_vars =>
        [Iterate /\ pc' = "sent" /\ still /\ src.ino # 0 /\ it.kind # "page" =>
           sent = IF req.method = "HEAD" \/ reply.status = 304 THEN <<>>
                  ELSE Data(src.ino, reply.start,
                            IF reply.length = None THEN sizes[src.ino] ELSE reply.start + reply.length)]_vars
  BY <1>1
<1> QED BY <1>2, Inductive, PTL DEF Spec, Framed
===============================================================================
