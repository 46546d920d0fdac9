------------------------------ MODULE Serving ------------------------------
(***************************************************************************)
(* A file, or a page that an application makes, is served: FileApp          *)
(* (src/webob/static.py 19-104), the conditional and range handling of      *)
(* Response (src/webob/response.py 1392-1512, 1568-1650) and the server     *)
(* that iterates over the answer and closes it, while the file is replaced, *)
(* grows or goes away, and a client keeps what it got, asks whether it is   *)
(* still good and resumes what was cut off.                                 *)
(*                                                                         *)
(* External: the server calls close() if the iterable has it, once, after   *)
(* the last next() it makes; wsgi.file_wrapper is its own iterator and its  *)
(* close() closes the file.  Garbage collection, which closes files too, is *)
(* not modelled: a file counts as closed when the code closed it.           *)
(*                                                                         *)
(* Operators called Wrong... are slips one could make in the code; no       *)
(* specification uses them.                                                 *)
(***************************************************************************)
EXTENDS Integers, Sequences, SequencesExt

CONSTANTS
  MaxSize,     \* bytes of a version of the file, at most
  Block,       \* BLOCK_SIZE
  MaxChanges,  \* changes of the file
  MaxRequests, \* requests of the client
  Unrelated,   \* FALSE: after its first request the client sends only such as
               \* have something of what it keeps
  Pages,       \* the kinds of page that the application makes
  Sources      \* what is served: "file" (by a FileIter), "wrap" (by the
               \* server's file_wrapper), "page" (an application's own)

\* What a page of the application's own may be: a generator, or an iterable
\* with close() that makes a new iterator; and what it says of itself.
Page == [kind : {"gen", "object"}, status : {200, 404}, known : BOOLEAN, tag : {"none", "weak", "strong"}]

ASSUME ServingAssumption ==
  /\ MaxSize \in Nat \ {0} /\ Block \in Nat \ {0}
  /\ MaxChanges \in Nat /\ MaxRequests \in Nat /\ Unrelated \in BOOLEAN
  /\ Pages \subseteq Page /\ Sources \subseteq {"file", "wrap", "page"}

None    == -1  \* an absent header or attribute
Garbled == -2  \* an If-Range that ends in " GMT" and is no date

VARIABLES
  source,  \* the kind of what is served
  sizes,   \* of all the files there were: its size; see Data
  path,    \* the file that the name stands for; 0: none
  mtime,   \* its date, in seconds
  changes, requests,
  pc,      \* "idle", "stat", "open", "respond", "sending", "sent"
  req, res, src, it, reply, sent,
  client,  \* what the client keeps
  still,   \* no change since the answer was begun
  sharp    \* every version is dated later than those before it, and none came
           \* between stat and open

disk == <<sizes, path, mtime, changes>>
app  == <<res, src, it, reply>>
vars == <<source, disk, requests, pc, req, app, sent, client, still, sharp>>

\* Dates of the file; the first version is of the date 1, so that there are
\* earlier ones.
Dates == 0..(MaxChanges + 1)
Least(a, b) == IF a <= b THEN a ELSE b

\* A byte is its file and its place there, which it has as long as the file
\* exists: the bytes a+1..b of the file i.
Byte == (1..(MaxChanges + 1)) \X (1..MaxSize)
Data(i, a, b) == [k \in 1..(IF a < b THEN b - a ELSE 0) |-> <<i, a + k>>]

\* An entity tag names a version; the client quotes the tags it got.
ETag == [ino : Nat, size : Nat, weak : BOOLEAN]
NoETag == [ino |-> 0, size |-> 0, weak |-> FALSE]

---------------------------------------------------------------------------
(* The request, the response and the source of its bytes.                   *)

\* inm: If-None-Match, a set of tags, or {NoETag} for "*"; range: the numbers
\* of "bytes=first-last"; ifdate, iftag: If-Range, at most one of them.
\* resume: the client will put the answer behind what it has.
Request == [method : {"GET", "HEAD", "POST"}, inm : SUBSET (ETag \cup {NoETag}), ims : Dates \cup {None},
            ranged : BOOLEAN, first : Nat \cup {None}, last : Nat \cup {None},
            ifdate : Dates \cup {None, Garbled}, iftag : ETag \cup {NoETag}, resume : BOOLEAN]

Get == [method |-> "GET", inm |-> {}, ims |-> None, ranged |-> FALSE, first |-> None, last |-> None,
        ifdate |-> None, iftag |-> NoETag, resume |-> FALSE]

\* pos: the bytes taken from it; ends: of a page, where its next pieces end.
NoSource == [kind |-> "none", ino |-> 0, pos |-> 0, ends |-> <<>>, open |-> FALSE, started |-> FALSE]
Blank    == [status |-> 0, length |-> None, date |-> None, etag |-> NoETag]
\* dated: it rests on a comparison of dates.
NoReply  == [status |-> 0, length |-> None, start |-> 0, total |-> None, dated |-> FALSE]
\* over: of an EmptyResponse, the kind of what it replaces.
NoIter   == [kind |-> "none", over |-> "none", start |-> 0, stop |-> None, pos |-> 0]

\* dated: a part of it was added on a comparison of dates.
Nothing == [bytes |-> <<>>, total |-> None, date |-> None, etag |-> NoETag, dated |-> FALSE]
Whole   == client.total # None /\ Len(client.bytes) = client.total

Size == sizes[path]

---------------------------------------------------------------------------
(* byterange.py, etag.py.                                                   *)

\* Range.parse fails on "bytes=-".
Unreadable(r) == r.ranged /\ r.first = None /\ r.last = None
Satisfies(r)  == r.ranged /\ (r.first = None \/ r.last = None \/ r.first <= r.last)

\* Range.range_for_length(n): the first byte served.
Start(r, n) == IF r.first = None
               THEN IF r.last = 0 THEN 0 ELSE n - r.last
               ELSE r.first
\* ... and the first that is not.
Stop(r, n) == IF r.first = None \/ r.last = None THEN n ELSE Least(r.last + 1, n)
Satisfiable(r, n) == 0 <= Start(r, n) /\ Start(r, n) < n /\ Start(r, n) < Stop(r, n)

\* `req.if_none_match' is false for "*" and for an absent header.
Quoted(r) == r.inm # {} /\ NoETag \notin r.inm
SameTag(a, b) == a.ino = b.ino /\ a.size = b.size

\* Slip: the dates are compared the wrong way round.
WrongNotModified(r, s) ==
  IF Quoted(r) /\ s.etag # NoETag
  THEN \E t \in r.inm : SameTag(t, s.etag)
  ELSE r.ims # None /\ s.date # None /\ r.ims <= s.date

NotModified(r, s) ==
  IF Quoted(r) /\ s.etag # NoETag
  THEN \E t \in r.inm : SameTag(t, s.etag)
  ELSE r.ims # None /\ s.date # None /\ s.date <= r.ims

\* Slip: the header If-Range is not looked at.
WrongInIfRange(r, s) == TRUE
\* `self in req.if_range'; both tags have to be strong.
InIfRange(r, s) ==
  /\ r.iftag # NoETag => s.etag # NoETag /\ ~s.etag.weak /\ ~r.iftag.weak /\ s.etag = r.iftag
  /\ r.ifdate # None => s.date # None /\ s.date <= r.ifdate

\* IfRangeDate compares the date with None.
Uncomparable(r, s) == Satisfies(r) /\ r.ifdate = Garbled /\ s.date # None

---------------------------------------------------------------------------
(* Python's slices from the end: c[-k:] is all of c for k = 0.              *)

LastOf(c, k)  == IF k = 0 THEN c ELSE SubSeq(c, Len(c) - k + 1, Len(c))
ButLast(c, k) == SubSeq(c, 1, Len(c) - k)

\* The pieces that next() of the wrapped iterable still gives.
Left(s) == IF s.kind = "wrap"
           THEN IF s.pos < sizes[s.ino] THEN (sizes[s.ino] - s.pos + Block - 1) \div Block ELSE 0
           ELSE Len(s.ends)
\* The place that it has reached after the next n of them, the bytes of these,
\* of the last of them, and the source then.
Reached(s, n) == IF n = 0 THEN s.pos
                 ELSE IF s.kind = "wrap" THEN Least(s.pos + n * Block, sizes[s.ino])
                 ELSE s.ends[n]
Ahead(s, n) == Data(s.ino, s.pos, Reached(s, n))
Piece(s, n) == Data(s.ino, Reached(s, n - 1), Reached(s, n))
After(s, n) == [s EXCEPT !.pos = Reached(s, n), !.ends = SubSeq(@, n + 1, Len(@)), !.started = TRUE]

\* The ways to cut n bytes into pieces that are told apart, each by the places
\* where its pieces end: all in one, and one each behind an empty piece.
Cuts(n) == {<<n>>, [i \in 1..(n + 1) |-> i - 1]}

Shut(s) == [s EXCEPT !.open = FALSE]

---------------------------------------------------------------------------
Init ==
  /\ source \in Sources
  /\ \E n \in 1..MaxSize : sizes = <<n>>
  /\ path = 1 /\ mtime = 1 /\ changes = 0 /\ requests = 0
  /\ pc = "idle" /\ req = Get /\ res = Blank /\ src = NoSource /\ it = NoIter /\ reply = NoReply
  /\ sent = <<>> /\ client = Nothing /\ still = TRUE /\ sharp = TRUE

(* The client.                                                              *)

Send(r) ==
  /\ pc = "idle" /\ requests < MaxRequests
  /\ requests' = requests + 1
  /\ req' = r
  /\ pc' = "stat"
  /\ res' = Blank /\ src' = NoSource /\ it' = NoIter /\ reply' = NoReply /\ sent' = <<>>
  /\ still' = TRUE
  /\ UNCHANGED <<source, disk, client, sharp>>

Fetch ==
  /\ Unrelated \/ requests = 0
  /\ \E m \in {"GET", "HEAD", "POST"} : Send([Get EXCEPT !.method = m])

\* Is what the client has still good?
Revalidate ==
  /\ client.date # None \/ client.etag # NoETag
  /\ \E m \in {"GET", "HEAD"}, star \in BOOLEAN :
       Send([Get EXCEPT !.method = m, !.ims = client.date,
             !.inm = IF star THEN {NoETag} ELSE {client.etag} \ {NoETag}])

\* The rest of what was cut off, if it is still the same.
Resume ==
  /\ client.bytes # <<>> /\ ~Whole
  /\ \/ /\ client.date # None
        /\ Send([Get EXCEPT !.ranged = TRUE, !.first = Len(client.bytes), !.ifdate = client.date, !.resume = TRUE])
     \/ /\ client.etag # NoETag
        /\ Send([Get EXCEPT !.ranged = TRUE, !.first = Len(client.bytes), !.iftag = client.etag, !.resume = TRUE])

\* A part, without a condition or with one that cannot be read.
Probe ==
  \E a, b \in 0..MaxSize \cup {None}, d \in {None, Garbled}, m \in {"GET", "HEAD"} :
    /\ Unrelated \/ requests = 0
    /\ d = Garbled \/ m = "HEAD" => b = None
    /\ Send([Get EXCEPT !.ranged = TRUE, !.first = a, !.last = b, !.ifdate = d, !.method = m])

(* The file.                                                                *)

Change ==
  /\ changes < MaxChanges /\ requests > 0
  /\ changes' = changes + 1
  /\ still' = (pc \in {"idle", "stat"})

\* Another file gets the name, with any date: written now, or restored,
\* copied or moved with the date it had.
Replace ==
  \E n \in 1..MaxSize, d \in Dates :
    /\ Change
    /\ sizes' = Append(sizes, n)
    /\ path' = Len(sizes) + 1
    /\ mtime' = d
    /\ sharp' = (sharp /\ d > mtime /\ ~(pc = "open" /\ source \in {"file", "wrap"}))
    /\ UNCHANGED <<source, requests, pc, req, app, sent, client>>

\* The file grows, or is cut, where it is; its date may be set, too.
Resize ==
  /\ Change /\ path # 0
  /\ \E n \in (0..MaxSize) \ {Size}, d \in Dates :
       /\ sizes' = [sizes EXCEPT ![path] = n]
       /\ mtime' = d
       /\ sharp' = (sharp /\ d > mtime)
  /\ UNCHANGED <<source, path, requests, pc, req, app, sent, client>>

Delete ==
  /\ Change /\ path # 0
  /\ path' = 0
  /\ UNCHANGED <<source, sizes, mtime, requests, pc, req, app, sent, client, sharp>>

(* The application.                                                         *)

Answer(status, length, iter) ==
  /\ reply' = [NoReply EXCEPT !.status = status, !.length = length]
  /\ it' = iter
  /\ pc' = "sending"

\* The methods other than GET and HEAD, and os.stat.
Stat ==
  /\ pc = "stat" /\ source \in {"file", "wrap"}
  /\ still' = TRUE
  /\ IF req.method = "POST" \/ path = 0
     THEN Answer(IF req.method = "POST" THEN 405 ELSE 404, 0, [NoIter EXCEPT !.kind = "page"]) /\ UNCHANGED <<res, src>>
     ELSE /\ res' = [status |-> 200, length |-> Size, date |-> mtime, etag |-> NoETag]
          /\ pc' = "open"
          /\ UNCHANGED <<src, it, reply>>
  /\ UNCHANGED <<source, disk, requests, req, sent, client, sharp>>

Open ==
  /\ pc = "open"
  /\ IF path = 0
     THEN Answer(403, 0, [NoIter EXCEPT !.kind = "page"]) /\ UNCHANGED <<res, src>>
     ELSE /\ src' = [NoSource EXCEPT !.kind = source, !.ino = path, !.open = TRUE]
          /\ pc' = "respond"
          /\ UNCHANGED <<res, it, reply>>
  /\ UNCHANGED <<source, disk, requests, req, sent, client, still, sharp>>

\* An application of its own: a Response with conditional_response set.
Make ==
  /\ pc = "stat" /\ source = "page"
  /\ IF path = 0
     THEN Answer(404, 0, [NoIter EXCEPT !.kind = "page"]) /\ UNCHANGED <<res, src>>
     ELSE /\ pc' = "respond"
          /\ UNCHANGED <<it, reply>>
          /\ \E cut \in Cuts(Size), p \in Pages :
               /\ res' = [status |-> p.status, length |-> IF p.known THEN Size ELSE None, date |-> mtime,
                          etag |-> IF p.tag = "none" THEN NoETag
                                   ELSE [ino |-> path, size |-> Size, weak |-> p.tag = "weak"]]
               /\ src' = [NoSource EXCEPT !.kind = p.kind, !.ino = path, !.ends = cut, !.open = TRUE]
  /\ UNCHANGED <<source, disk, requests, req, sent, client, still, sharp>>

\* `hasattr(app_iter, "close")': FileIter has none.
Closable(s) == s.kind # "file"

\* What the server gets to iterate over: FileIter and the generator of its
\* range (which has close()), an AppIterRange, or the iterable as it is.
WholeIter       == [NoIter EXCEPT !.kind = IF src.kind = "file" THEN "fileiter" ELSE "plain"]
RangeIter(a, b) == [NoIter EXCEPT !.kind = IF src.kind = "file" THEN "filerange" ELSE "range",
                                  !.start = a, !.stop = b]
\* EmptyResponse, which takes over the close() of what it replaces.
Empty(iter)     == [NoIter EXCEPT !.kind = "empty", !.over = iter.kind]

\* Slip: the answer to HEAD has its body.
WrongBody(iter) == iter
Body(iter) == IF req.method = "HEAD" THEN Empty(iter) ELSE iter

\* iter_close(self._app_iter).
Unsatisfied(s) == IF Closable(s) THEN Shut(s) ELSE s

\* conditional_response_app; afterwards the headers of the request are not
\* looked at again.
Respond ==
  /\ pc = "respond"
  /\ LET safe  == req.method \in {"GET", "HEAD"}
         n     == res.length
         same  == safe /\ NotModified(req, res)
         raises == Unreadable(req) \/ Uncomparable(req, res)
         ranged == /\ safe /\ ~raises /\ Satisfies(req) /\ InIfRange(req, res)
                   /\ res.status = 200 /\ n # None
         a == Start(req, n)
         b == Stop(req, n)
     IN \/ /\ same
           /\ reply' = [NoReply EXCEPT !.status = 304, !.dated = ~(Quoted(req) /\ res.etag # NoETag)]
           /\ it' = Empty(WholeIter)
           /\ pc' = "sending" /\ UNCHANGED src
        \/ /\ ~same /\ raises
           /\ Answer(500, 0, [NoIter EXCEPT !.kind = "page"]) /\ UNCHANGED src
        \/ /\ ~same /\ ranged /\ ~Satisfiable(req, n)
           /\ Answer(416, 0, [NoIter EXCEPT !.kind = "page"]) /\ src' = Unsatisfied(src)
        \/ /\ ~same /\ ranged /\ Satisfiable(req, n)
           /\ reply' = [status |-> 206, length |-> b - a, start |-> a, total |-> n, dated |-> req.ifdate # None]
           /\ it' = Body(RangeIter(a, b))
           /\ pc' = "sending" /\ UNCHANGED src
        \/ /\ ~same /\ ~raises /\ ~ranged
           /\ Answer(res.status, n, Body(WholeIter)) /\ UNCHANGED src
  /\ req' = [Get EXCEPT !.method = req.method, !.resume = req.resume]
  /\ UNCHANGED <<source, disk, requests, res, sent, client, still, sharp>>

---------------------------------------------------------------------------
(* The server.                                                              *)

Deliver(bytes, s, i) ==
  /\ sent' = sent \o bytes
  /\ src' = s /\ it' = i
  /\ UNCHANGED <<pc>>

End(s) ==
  /\ pc' = "sent"
  /\ src' = s
  /\ UNCHANGED <<sent, it>>

\* Slip: app_iter_range without its finally.
WrongSpent(s) == [s EXCEPT !.started = TRUE]
\* A FileIter's generator that has come to its end.
Spent(s) == [Shut(s) EXCEPT !.started = TRUE]

\* FileIter.app_iter_range(seek, limit): it.pos bytes were read after seek.
\* Slip: an empty read does not end the loop.
WrongNextOfFile ==
  LET from  == it.start + it.pos
      want  == IF it.stop = None THEN Block ELSE Least(Block, it.stop - from)
      bytes == Data(src.ino, from, Least(from + want, sizes[src.ino]))
  IN IF it.stop # None /\ from >= it.stop
     THEN End(Spent(src))
     ELSE Deliver(bytes, [src EXCEPT !.started = TRUE], [it EXCEPT !.pos = @ + Len(bytes)])

NextOfFile ==
  LET from  == it.start + it.pos
      want  == IF it.stop = None THEN Block ELSE Least(Block, it.stop - from)
      bytes == Data(src.ino, from, Least(from + want, sizes[src.ino]))
  IN IF bytes = <<>>
     THEN End(Spent(src))
     ELSE Deliver(bytes, [src EXCEPT !.started = TRUE], [it EXCEPT !.pos = @ + Len(bytes)])

\* What _skip_start keeps of the piece that reaches the start of the range.
Skipped(piece, pos) ==
  IF pos = it.start THEN <<>>
  ELSE LET tail == LastOf(piece, pos - it.start)
       IN IF pos > it.stop THEN ButLast(tail, pos - it.stop) ELSE tail

\* AppIterRange.next: the pieces before the range are dropped at one go.
NextOfRange ==
  IF it.pos < it.start
  THEN LET reach == {n \in 1..Left(src) : it.pos + Len(Ahead(src, n)) >= it.start}
           n     == CHOOSE m \in reach : \A k \in reach : m <= k
           pos   == it.pos + Len(Ahead(src, n))
       IN IF reach = {}
          THEN End(After(src, Left(src)))
          ELSE Deliver(Skipped(Piece(src, n), pos), After(src, n), [it EXCEPT !.pos = pos])
  ELSE IF it.pos >= it.stop \/ Left(src) = 0
       THEN End(src)
       ELSE LET pos == it.pos + Len(Ahead(src, 1))
            IN Deliver(IF pos <= it.stop THEN Ahead(src, 1) ELSE ButLast(Ahead(src, 1), pos - it.stop),
                       After(src, 1), [it EXCEPT !.pos = pos])

Iterate ==
  /\ pc = "sending"
  /\ CASE it.kind \in {"empty", "page"}         -> End(src)
       [] it.kind \in {"fileiter", "filerange"} -> NextOfFile
       [] it.kind = "range"                     -> NextOfRange
       [] OTHER -> IF Left(src) = 0 THEN End(src) ELSE Deliver(Ahead(src, 1), After(src, 1), it)
  /\ UNCHANGED <<source, disk, requests, req, res, reply, client, still, sharp>>

\* The connection breaks; nothing more is asked of the iterable.
Disconnect ==
  /\ pc = "sending" /\ it.kind \notin {"empty", "page"}
  /\ pc' = "broken"
  /\ UNCHANGED <<source, disk, requests, req, app, sent, client, still, sharp>>

\* close() of the iterable, or of what an EmptyResponse took it from: FileIter
\* has none; a generator's does nothing before it started; AppIterRange closes
\* the iterator it made, which is not the iterable for an "object".
Closed(s) ==
  LET kind == IF it.kind = "empty" THEN it.over ELSE it.kind
  IN CASE kind \in {"page", "fileiter"}       -> s
       [] kind = "filerange" /\ ~s.started    -> s
       [] kind = "range" /\ s.kind = "object" -> s
       [] OTHER                               -> Shut(s)

\* What the client makes of an answer.  It reads as far as Content-Length.
Kept ==
  LET body == IF reply.length # None /\ Len(sent) > reply.length THEN SubSeq(sent, 1, reply.length) ELSE sent
  IN CASE req.method = "GET" /\ reply.status = 200 ->
            [bytes |-> body, total |-> reply.length, date |-> res.date, etag |-> res.etag, dated |-> FALSE]
       [] reply.status = 206 /\ req.resume ->
            [client EXCEPT !.bytes = SubSeq(@, 1, reply.start) \o body, !.total = reply.total,
                           !.dated = @ \/ reply.dated]
       [] OTHER -> client

\* What matters of an answer that is over is whether its source is open.
Close ==
  /\ pc \in {"sent", "broken"}
  /\ src' = [NoSource EXCEPT !.open = Closed(src).open]
  /\ client' = Kept
  /\ pc' = "idle"
  /\ it' = NoIter /\ reply' = NoReply /\ req' = Get /\ res' = Blank /\ sent' = <<>>
  /\ UNCHANGED <<source, disk, requests, still, sharp>>

---------------------------------------------------------------------------
Server == Stat \/ Open \/ Make \/ Respond \/ Iterate \/ Close
World  == Replace \/ Resize \/ Delete
Client == Fetch \/ Revalidate \/ Resume \/ Probe
Next   == Server \/ World \/ Client \/ Disconnect

\* The server answers each request; it does not stop between two steps.
Spec == Init /\ [][Next]_vars /\ WF_vars(Server)

---------------------------------------------------------------------------
(* Properties.                                                              *)

\* An answer that is sent to its end, of a file that stayed as it was, has
\* all the bytes its headers announce, and none for HEAD and 304.
Framed ==
  [][Iterate /\ pc' = "sent" /\ still /\ src.ino # 0 /\ it.kind # "page" =>
       sent = IF req.method = "HEAD" \/ reply.status = 304 THEN <<>>
              ELSE Data(src.ino, reply.start,
                        IF reply.length = None THEN sizes[src.ino] ELSE reply.start + reply.length)]_vars

\* What a client put together from a broken answer and the ranges that it
\* asked for with If-Range is one version of the file.  For parts that a tag
\* vouched for that holds whatever is done to the file; for parts that a date
\* vouched for, if every version is dated later than those before it and none
\* came between stat and open (`last_modified <= date' tells no more).
Assembled ==
  Whole /\ (sharp \/ ~client.dated) => \E i \in 1..Len(sizes) : client.bytes = Data(i, 0, Len(client.bytes))

\* 304 is the answer only if what the client has is what it would be sent: if
\* it goes by a tag, whatever was done to the file; if by a date, under the
\* same condition.
NotStale ==
  reply.status = 304 /\ pc = "sent" /\ still /\ (sharp \/ ~(reply.dated \/ client.dated)) =>
    /\ IsPrefix(client.bytes, Data(src.ino, 0, sizes[src.ino]))
    /\ Whole => Len(client.bytes) = sizes[src.ino]

\* After the server's close() nothing is left open, whatever the status, the
\* method and the place of the break, but for what only the garbage collector
\* closes: the source of a request that raised; a FileIter that was never
\* begun (HEAD, 304, 416) or not sent to its end, other than a range that was
\* begun; and an iterable that is not its own iterator behind an AppIterRange,
\* for HEAD, too.
Released ==
  [][Close /\ src'.open =>
       \/ reply.status = 500
       \/ src.kind = "file" /\ it.kind \in {"empty", "page"}
       \/ src.kind = "file" /\ pc = "broken" /\ ~(it.kind = "filerange" /\ src.started)
       \/ src.kind = "object" /\ "range" \in {it.kind, it.over}]_vars

\* Every request is answered to its end or to the break of the connection,
\* though the file may become shorter than what was announced.
Served == pc = "stat" ~> pc = "idle"
=============================================================================
