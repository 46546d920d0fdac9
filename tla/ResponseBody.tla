--------------------------- MODULE ResponseBody ---------------------------
(***************************************************************************)
(* The body of a webob response (src/webob/response.py 380-393, 525-755,    *)
(* 1282-1355, 1700-1726): the iterable _app_iter, which is a list or an     *)
(* iterator that can be consumed once and may raise, and the headers        *)
(* Content-Length, Content-Encoding and Content-MD5 that describe it.       *)
(*                                                                         *)
(* A piece of text that an application writes is a number, each used once,  *)
(* and one byte long; `text' remembers what each response was given.        *)
(*                                                                         *)
(* The definitions called Wrong... are slips one could make in the code; no *)
(* specification uses them.                                                *)
(***************************************************************************)
EXTENDS Naturals, Sequences

CONSTANTS
  Resps,      \* Response objects
  First,      \* the one that is there at the start
  None,       \* an absent header
  ZipHead,    \* what gzip adds to a body, in bytes
  MaxPieces,  \* bound on the pieces of text
  MaxIters    \* bound on the iterables created

ASSUME ResponseAssumption ==
  /\ First \in Resps
  /\ None \notin Nat
  /\ ZipHead \in Nat \ {0}
  /\ MaxPieces \in Nat
  /\ MaxIters \in Nat \ {0}

VARIABLES
  its,    \* the iterables, in order of creation
  live,   \* the responses that exist and are not yet sent
  resp,   \* resp[r]: the attributes of response r
  text,   \* text[r]: what the application put into its body
  harmed, \* the responses one of whose iterators raised
  pieces, \* pieces used so far
  last    \* the last operation, and the iterable that it began with

vars == <<its, live, resp, text, harmed, pieces, last>>

---------------------------------------------------------------------------
(* Data.                                                                   *)

\* A body is the gzip coding of some pieces, if it has one, and the pieces
\* that are there, or follow it, as they are.
Body     == [zip : BOOLEAN, of : Seq(Nat), rest : Seq(Nat)]
Plain(s) == [zip |-> FALSE, of |-> <<>>, rest |-> s]
Gzip(s)  == [zip |-> TRUE, of |-> s, rest |-> <<>>]
Behind(body, p) == [body EXCEPT !.rest = Append(@, p)]

Pieces(body) == body.of \o body.rest
Length(body) == Len(Pieces(body)) + IF body.zip THEN ZipHead ELSE 0

\* A list of n chunks (2: two or more), a generator, or the generator that
\* gzip_app_iter makes of iterable `inner'.  `fails': raises when it is read.
Iter == [kind : {"list", "gen", "zip"}, body : Body, n : 0..2, inner : Nat,
         fails : BOOLEAN, closed : BOOLEAN]

List(body, n)    == [kind |-> "list", body |-> body, n |-> n, inner |-> 0,
                     fails |-> FALSE, closed |-> FALSE]
Gen(body, fails) == [kind |-> "gen", body |-> body, n |-> 0, inner |-> 0,
                     fails |-> fails, closed |-> FALSE]
ZipGen(i)        == [kind |-> "zip", body |-> Plain(<<>>), n |-> 0, inner |-> i,
                     fails |-> FALSE, closed |-> FALSE]

Response == [it : Nat \ {0}, clen : Nat \cup {None}, enc : {"identity", "gzip"},
             md5 : [present : BOOLEAN, of : Body]]
NoMd5 == [present |-> FALSE, of |-> Plain(<<>>)]

\* What iterable i would still yield if nothing raised.
Content(i) ==
  IF its[i].kind = "zip" /\ its[i].inner # 0 THEN Gzip(Pieces(its[its[i].inner].body))
  ELSE its[i].body

\* The chunks that iterable i yields, 2 for more.
Chunks(i) ==
  IF its[i].kind = "list" THEN its[i].n
  ELSE IF its[i].inner # 0 THEN 2
  ELSE IF Len(its[i].body.rest) < 2 THEN Len(its[i].body.rest) ELSE 2

\* An iterator that was read to its end, or that raised, yields no more.
Spent(x) == IF x.kind = "list" THEN x
            ELSE [x EXCEPT !.body = Plain(<<>>), !.inner = 0, !.fails = FALSE]

Raises(i) == its[i].fails \/ (its[i].inner # 0 /\ its[its[i].inner].fails)

\* The iterables after iterable i, and what it wraps, was read to its end.
Read(i) == [j \in 1..Len(its) |->
              IF j = i \/ j = its[i].inner THEN Spent(its[j]) ELSE its[j]]

\* iter_close: a list has no close().
Close(xs, i) == [xs EXCEPT ![i].closed = (xs[i].kind # "list")]

Room == Len(its) < MaxIters
New  == Len(its) + 1
Current(r) == Content(resp[r].it)

\* The operation on r raises; r keeps the iterator that is spent now.
Broken(r, xs, op) ==
  /\ its' = xs
  /\ harmed' = harmed \cup {r}
  /\ last' = [op |-> op, it |-> resp[r].it]
  /\ UNCHANGED <<live, resp, text, pieces>>

\* r gets the new iterable x instead of the one it has; the others are xs.
Replace(r, xs, x, attrs, t, op) ==
  /\ its' = Append(xs, x)
  /\ resp' = [resp EXCEPT ![r] = [attrs EXCEPT !.it = New]]
  /\ text' = [text EXCEPT ![r] = t]
  /\ last' = [op |-> op, it |-> resp[r].it]
  /\ UNCHANGED live

---------------------------------------------------------------------------
(* Operations.                                                             *)

\* Content-Length as the body getter leaves it: set if it was absent.  A body
\* that is empty is taken for that of a HEAD response.
LengthAfterRead(r, body) ==
  IF Length(body) # 0 /\ resp[r].clen = None THEN Length(body) ELSE resp[r].clen

\* Slip: the joined body is not kept.
WrongJoin(r, body) == Gen(Plain(<<>>), FALSE)

Join(r, body) == List(body, 1)

\* resp.body, in md5_etag with the digest stored.  A list of one chunk is
\* returned as it is.  A wrong length is reported after the body was stored,
\* which `harmed' responses only can meet.
GetBody(r, md5) ==
  LET body == Current(r)
      i    == resp[r].it
      a    == [resp[r] EXCEPT !.clen = LengthAfterRead(r, body),
                              !.md5 = IF md5 THEN [present |-> TRUE, of |-> body] ELSE @]
  IN  IF its[i].kind = "list" /\ its[i].n = 1
      THEN /\ resp' = [resp EXCEPT ![r].md5 = a.md5]
           /\ last' = [op |-> "body", it |-> i]
           /\ UNCHANGED <<its, live, text, harmed, pieces>>
      ELSE IF Raises(i) THEN Broken(r, Close(Read(i), i), "body")
      ELSE /\ Room
           /\ Replace(r, Close(Read(i), i), Join(r, body),
                IF a.clen # None /\ Length(body) # 0 /\ a.clen # Length(body)
                THEN resp[r] ELSE a,
                text[r], "body")
           /\ UNCHANGED <<harmed, pieces>>

\* resp.body = a new piece, or nothing (del resp.body).
SetBody(r, empty) ==
  LET t == IF empty THEN <<>> ELSE <<pieces + 1>>
  IN  /\ Room /\ pieces + Len(t) <= MaxPieces
      /\ Replace(r, its, List(Plain(t), 1),
           [resp[r] EXCEPT !.clen = Len(t), !.md5 = NoMd5], t, "set")
      /\ harmed' = harmed \ {r}
      /\ pieces' = pieces + Len(t)

\* Slip: Content-Length is counted before the iterator was read.
WrongWriteLength(r, body, listed) ==
  IF ~listed THEN 1
  ELSE IF resp[r].clen = None THEN None ELSE resp[r].clen + 1

\* Content-Length after a piece was written behind `body': an iterator has
\* been counted first, a list keeps an unknown length unknown.
WriteLength(r, body, listed) ==
  IF ~listed THEN Length(body) + 1
  ELSE IF resp[r].clen = None THEN None ELSE resp[r].clen + 1

\* Slip: the iterator is closed only when it could be read.
WrongWriteFails(i) == Read(i)
WriteFails(i)      == Close(Read(i), i)

\* resp.write(a new piece), resp.body_file.write(...).  A list is appended to
\* in place; an iterator is read into a new list first, and closed.
Write(r) ==
  LET i      == resp[r].it
      listed == its[i].kind = "list"
      body   == Current(r)
      p      == pieces + 1
      x      == List(Behind(body, p), IF Chunks(i) = 0 THEN 1 ELSE 2)
      a      == [resp[r] EXCEPT !.clen = WriteLength(r, body, listed)]
  IN  /\ pieces < MaxPieces
      /\ IF listed
         THEN /\ its' = [its EXCEPT ![i] = x]
              /\ resp' = [resp EXCEPT ![r] = a]
              /\ text' = [text EXCEPT ![r] = Append(@, p)]
              /\ last' = [op |-> "write", it |-> i]
              /\ pieces' = p
              /\ UNCHANGED <<live, harmed>>
         ELSE IF Raises(i) THEN Broken(r, WriteFails(i), "write")
         ELSE /\ Room
              /\ Replace(r, Close(Read(i), i), x, a, Append(text[r], p), "write")
              /\ pieces' = p
              /\ UNCHANGED harmed

\* resp.app_iter = a generator of one piece, or a list of two; body_file = f.
SetAppIter(r) ==
  \E x \in {Gen(Plain(<<pieces + 1>>), FALSE), Gen(Plain(<<pieces + 1>>), TRUE),
            List(Plain(<<pieces + 1, pieces + 2>>), 2)} :
    /\ Room /\ pieces + Len(Pieces(x.body)) <= MaxPieces
    /\ Replace(r, its, x, [resp[r] EXCEPT !.clen = None], Pieces(x.body), "app_iter")
    /\ harmed' = harmed \ {r}
    /\ pieces' = pieces + Len(Pieces(x.body))

\* del resp.app_iter
DeleteAppIter(r) ==
  /\ Room
  /\ Replace(r, its, List(Plain(<<>>), 0), [resp[r] EXCEPT !.clen = None], <<>>, "app_iter")
  /\ harmed' = harmed \ {r}
  /\ UNCHANGED pieces

EncodedLength(r, body)      == Length(Gzip(Pieces(body)))

\* resp.encode_content("gzip"): the iterable is read, and not closed.
Encode(r) ==
  LET i    == resp[r].it
      body == Current(r)
  IN  /\ resp[r].enc # "gzip"
      /\ IF Raises(i) THEN Broken(r, Read(i), "encode")
         ELSE /\ Room
              /\ Replace(r, Read(i), List(Gzip(Pieces(body)), 2),
                   [resp[r] EXCEPT !.clen = EncodedLength(r, body), !.enc = "gzip"],
                   text[r], "encode")
              /\ UNCHANGED <<harmed, pieces>>

\* resp.encode_content("gzip", lazy=True)
EncodeLazily(r) ==
  /\ resp[r].enc # "gzip" /\ Room
  /\ Replace(r, its, ZipGen(resp[r].it), [resp[r] EXCEPT !.clen = None, !.enc = "gzip"],
       text[r], "encode")
  /\ UNCHANGED <<harmed, pieces>>

\* What GzipFile.read can make sense of: the coding, or nothing at all.
\* Anything else, also behind the coding, is no gzip and raises.
Decodable(body) == body.rest = <<>>

\* resp.decode_content(): the body getter, then the body setter.  When the
\* body is no gzip it has been read by then.
Decode(r) ==
  LET i    == resp[r].it
      body == Current(r)
      one  == its[i].kind = "list" /\ its[i].n = 1
      xs   == IF one THEN its ELSE Close(Read(i), i)
  IN  /\ resp[r].enc = "gzip"
      /\ IF ~one /\ Raises(i) THEN Broken(r, xs, "decode")
         ELSE /\ Room
              /\ Replace(r, xs,
                   List(IF Decodable(body) THEN Plain(Pieces(body)) ELSE body, 1),
                   IF Decodable(body)
                   THEN [resp[r] EXCEPT !.clen = Len(Pieces(body)), !.enc = "identity",
                                        !.md5 = NoMd5]
                   ELSE IF one THEN resp[r]
                   ELSE [resp[r] EXCEPT !.clen = LengthAfterRead(r, body)],
                   text[r], "decode")
              /\ UNCHANGED <<harmed, pieces>>

\* The places, among the new lists, of the list of the original and the copy's.
CopyIters(r) == <<1, 2>>

\* q = resp.copy(): the iterable is read into a list for each, and closed.
Copy(r, q) ==
  LET i == resp[r].it
      x == List(Current(r), Chunks(i))
  IN  /\ q \notin live
      /\ IF Raises(i) THEN Broken(r, Read(i), "copy")
         ELSE /\ Len(its) + 1 < MaxIters
              /\ its' = Close(Read(i), i) \o <<x, x>>
              /\ resp' = [resp EXCEPT ![r].it = Len(its) + CopyIters(r)[1],
                                      ![q] = [resp[r] EXCEPT !.it = Len(its) + CopyIters(r)[2]]]
              /\ text' = [text EXCEPT ![q] = text[r]]
              /\ harmed' = IF r \in harmed THEN harmed \cup {q} ELSE harmed
              /\ live' = live \cup {q}
              /\ last' = [op |-> "copy", it |-> i]
              /\ UNCHANGED pieces

---------------------------------------------------------------------------

\* Response(), Response(app_iter=a list), and Response(app_iter=a generator)
\* with the Content-Length its application states, or none.
Init ==
  /\ live = {First}
  /\ \E k \in 0..MaxPieces, kind \in {"body", "list", "gen", "fails"}, known \in BOOLEAN :
       LET t == [i \in 1..k |-> i]
       IN  /\ kind = "body" => known /\ k = 0
           /\ its = <<CASE kind = "body" -> List(Plain(<<>>), 1)
                        [] kind = "list" -> List(Plain(t), IF k > 2 THEN 2 ELSE k)
                        [] OTHER         -> Gen(Plain(t), kind = "fails")>>
           /\ resp = [r \in Resps |-> [it |-> 1, clen |-> IF known THEN k ELSE None,
                                       enc |-> "identity", md5 |-> NoMd5]]
           /\ text = [r \in Resps |-> IF r = First THEN t ELSE <<>>]
           /\ pieces = k
  /\ harmed = {}
  /\ last = [op |-> "start", it |-> 1]

Next ==
  \E r \in live :
    \/ \E md5 \in BOOLEAN : GetBody(r, md5)
    \/ \E empty \in BOOLEAN : SetBody(r, empty)
    \/ Write(r)
    \/ SetAppIter(r)
    \/ DeleteAppIter(r)
    \/ Encode(r)
    \/ EncodeLazily(r)
    \/ Decode(r)
    \/ \E q \in Resps : Copy(r, q)

Spec == Init /\ [][Next]_vars

---------------------------------------------------------------------------
(* Properties.                                                             *)

Whole == live \ harmed

\* No operation loses, repeats or reorders what the application put into the
\* body, though an iterator can be read once only: whoever reads it stores
\* what it read, in each of the responses that have it from then on.
NothingLost == \A r \in Whole : Pieces(Current(r)) = text[r]

\* Content-Length is that of the body, coded or not, or absent, in every order
\* of writing, reading, encoding, decoding and replacing.
LengthTrue ==
  \A r \in Whole : resp[r].clen # None => resp[r].clen = Length(Current(r))

\* An iterator that the body getter or write() reads is closed, also when it
\* raises (the finally clauses at 542-545 and 714-717).
ReadersClose ==
  (last.op \in {"body", "write"} /\ its[last.it].kind # "list") => its[last.it].closed

============================================================================
