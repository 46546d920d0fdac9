---------------------------- MODULE RequestBody ----------------------------
(***************************************************************************)
(* The body of a webob request: the file in environ["wsgi.input"], the     *)
(* keys CONTENT_LENGTH, webob.is_body_seekable and wsgi.input_terminated   *)
(* that say how it may be read, and the two caches kept beside it,         *)
(* webob._body_file and webob._parsed_post_vars (src/webob/request.py).    *)
(*                                                                         *)
(* Bytes are abstracted to positions.  Every byte string is a contiguous   *)
(* slice [src, lo, hi] of what one source supplied: the wire the server    *)
(* hands over, or one of the values an application assigns.  A lost, a     *)
(* repeated or a truncated byte shows as a wrong lo or hi.                 *)
(*                                                                         *)
(* One action is one complete access by the application; an access that    *)
(* raises is the same action with ok = FALSE in `ret'.                     *)
(*                                                                         *)
(* The definitions called Wrong... are slips one could make in the code;   *)
(* no specification uses them (see the README on mutants).                 *)
(***************************************************************************)
EXTENDS Naturals, Sequences

CONSTANTS
  Reqs,           \* environments; a Request object is a view of one of them
  First,          \* the environment the server (or Request.blank) built
  Values,         \* byte strings an application may assign as a body
  Size,           \* their lengths, [Values -> Nat]
  Wire,           \* the source of the bytes that the server hands over
  None,           \* Python's None
  BufSize,        \* io.DEFAULT_BUFFER_SIZE, what a BufferedReader reads ahead
  TempfileLimit,  \* BaseRequest.request_body_tempfile_limit
  MaxBody,        \* bound on Content-Length and on the bytes on the wire
  MaxFiles        \* bound on the file objects created

ASSUME ConstantsAssumption ==
  /\ First \in Reqs
  /\ Size \in [Values -> Nat]
  /\ Wire \notin Values
  /\ None \notin Nat
  /\ BufSize \in Nat \ {0}
  /\ TempfileLimit \in Nat
  /\ MaxBody \in Nat
  /\ MaxFiles \in Nat

VARIABLES
  files,     \* the file objects, in order of creation; files[1] is the first input
  live,      \* the environments that exist
  env,       \* env[r]: the keys of the environ dict that concern the body
  promised,  \* the Content-Length the server announced (never changes)
  ret        \* what the last access returned

vars == <<files, live, env, promised, ret>>

---------------------------------------------------------------------------
(* Data.                                                                   *)

Sources == Values \cup {Wire}
Slice   == [src : Sources, lo : Nat, hi : Nat]
Empty   == [src |-> Wire, lo |-> 0, hi |-> 0]
Width(c) == c.hi - c.lo

\* A file object: the bytes it holds and its position among them.  A "wire"
\* or a "stream" cannot seek; "memory" is a BytesIO, "temp" a TemporaryFile.
Kinds == {"wire", "stream", "memory", "temp"}
File  == [kind : Kinds, data : Slice, pos : Nat]

\* The wrapper cached as webob._body_file: the raw file it was made for (0
\* when there is none), LimitedLengthFile.remaining, and the slice of bytes
\* the BufferedReader has read ahead.
Wrapper   == [raw : Nat, remaining : Nat, ahead : Slice]
NoWrapper == [raw |-> 0, remaining |-> 0, ahead |-> Empty]

\* The cache webob._parsed_post_vars: the bytes that were parsed and the file.
Parsed    == [raw : Nat, vars : Slice]
NoParsed  == [raw |-> 0, vars |-> Empty]

Environ == [input      : Nat \ {0},     \* wsgi.input, an index into files
            clen       : Nat \cup {None},
            seekable   : BOOLEAN,       \* webob.is_body_seekable
            terminated : BOOLEAN,       \* wsgi.input_terminated
            form       : BOOLEAN,       \* content type is that of an HTML form
            wrap       : Wrapper,
            post       : Parsed]

Least(a, b) == IF a <= b THEN a ELSE b

\* The bytes that are left in file f.
Left(f) == Width(f.data) - f.pos

\* The next k bytes of file f, which are there.
NextBytes(f, k) ==
  [src |-> f.data.src, lo |-> f.data.lo + f.pos, hi |-> f.data.lo + f.pos + k]

---------------------------------------------------------------------------
(* The accesses, as operators on a pair s = [f |-> files, e |-> environ].  *)
(* Each returns such a pair with `ok' (FALSE: DisconnectionError) and the  *)
(* bytes read.                                                             *)

At(f, e)         == [f |-> f, e |-> e]
Done(f, e, data) == [f |-> f, e |-> e, ok |-> TRUE, data |-> data]
Fail(f, e)       == [f |-> f, e |-> e, ok |-> FALSE, data |-> Empty]

\* is_body_readable
Readable(e) == IF e.clen = None THEN e.terminated ELSE e.clen # 0

\* Seek file i to position p.
Seek(f, i, p) == [f EXCEPT ![i].pos = p]
Rewind(f, i)  == Seek(f, i, 0)

\* wsgi.input.read(k)
ReadRaw(s, k) ==
  LET f == s.f[s.e.input]
      n == Least(k, Left(f))
  IN  Done(Seek(s.f, s.e.input, f.pos + n), s.e, NextBytes(f, n))

\* Slip: the wrapper is not cached, `remaining' starts over at every access.
WrongWrapperAfresh(e) == [raw |-> e.input, remaining |-> e.clen, ahead |-> Empty]

\* The wrapper that the body_file getter uses: the cached one when it was
\* made for the present wsgi.input, else a new one limited to CONTENT_LENGTH.
WrapperOf(e) ==
  IF e.wrap.raw = e.input THEN e.wrap
  ELSE [raw |-> e.input, remaining |-> e.clen, ahead |-> Empty]

\* The bytes a BufferedReader asks of LimitedLengthFile to have k more:
\* whole buffers, never more than `remaining'.
Wanted(k, remaining) ==
  Least(((k + BufSize - 1) \div BufSize) * BufSize, remaining)

\* Slip: the bytes read ahead are dropped, the next ones come off the raw file.
WrongReadWrapped(s, k) ==
  LET f   == s.f[s.e.input]
      w   == WrapperOf(s.e)
      ask == Wanted(k, w.remaining)
      got == Least(ask, Left(f))
      moved == Seek(s.f, s.e.input, f.pos + got)
  IN  IF got < ask THEN Fail(moved, s.e)
      ELSE Done(moved, [s.e EXCEPT !.wrap = [w EXCEPT !.remaining = @ - got]],
                NextBytes(f, Least(k, got)))

\* BufferedReader.read(k) over LimitedLengthFile.readinto.  The bytes read
\* ahead are served first.  When the raw file falls short of what was asked
\* while `remaining' is positive, readinto raises and the bytes are lost.
ReadWrapped(s, k) ==
  LET w    == WrapperOf(s.e)
      f    == s.f[s.e.input]
      have == Width(w.ahead)
      ask  == IF k <= have THEN 0 ELSE Wanted(k - have, w.remaining)
      got  == Least(ask, Left(f))
      n    == Least(k, have + got)
      lo   == IF have = 0 THEN f.data.lo + f.pos ELSE w.ahead.lo
      moved == Seek(s.f, s.e.input, f.pos + got)
      Held(l, h) == [w EXCEPT !.remaining = @ - got,
                              !.ahead = [src |-> f.data.src, lo |-> l, hi |-> h]]
  IN  IF got < ask
      THEN Fail(moved, [s.e EXCEPT !.wrap = Held(0, 0)])
      ELSE Done(moved, [s.e EXCEPT !.wrap = Held(lo + n, lo + have + got)],
                [src |-> f.data.src, lo |-> lo, hi |-> lo + n])

\* req.body_file.read(k): the getter picks an empty file, the wrapper or the
\* raw input.
ReadBodyFile(s, k) ==
  IF ~Readable(s.e) THEN Done(s.f, s.e, Empty)
  ELSE IF ~s.e.seekable /\ s.e.clen # None THEN ReadWrapped(s, k)
  ELSE ReadRaw(s, k)

\* The body setter: a BytesIO over `data'.
SetBodyIn(s, data) ==
  Done(Append(s.f, [kind |-> "memory", data |-> data, pos |-> 0]),
       [s.e EXCEPT !.clen = Width(data), !.input = Len(s.f) + 1, !.seekable = TRUE],
       Empty)

\* Slip: Content-Length is taken with tell() after the seek(0).
WrongStoreTellLate(s, data) ==
  IF Width(data) > TempfileLimit
  THEN Done(Append(s.f, [kind |-> "temp", data |-> data, pos |-> 0]),
            [s.e EXCEPT !.clen = 0, !.input = Len(s.f) + 1,
                        !.seekable = TRUE, !.terminated = TRUE],
            Empty)
  ELSE SetBodyIn(s, data)

\* What copy_body stores: over the limit a temporary file, else the setter.
StoreCopy(s, data) ==
  IF Width(data) > TempfileLimit
  THEN Done(Append(s.f, [kind |-> "temp", data |-> data, pos |-> 0]),
            [s.e EXCEPT !.clen = Width(data), !.input = Len(s.f) + 1,
                        !.seekable = TRUE, !.terminated = TRUE],
            Empty)
  ELSE SetBodyIn(s, data)

\* Slip: a short read ends the loop, like the end of a body of unknown length.
WrongCopyShort(s) ==
  IF ~Readable(s.e) THEN SetBodyIn(s, Empty)
  ELSE LET start == IF s.e.seekable THEN At(Rewind(s.f, s.e.input), s.e) ELSE s
           todo  == IF s.e.clen = None THEN Left(start.f[s.e.input]) ELSE s.e.clen
           read  == ReadBodyFile(start, todo)
       IN  IF ~read.ok THEN Fail(read.f, read.e) ELSE StoreCopy(read, read.data)

\* copy_body: rewind if possible, read CONTENT_LENGTH bytes (to the end when
\* there is none), raise if they are not there, and store the copy.
CopyBodyIn(s) ==
  IF ~Readable(s.e) THEN SetBodyIn(s, Empty)
  ELSE LET start == IF s.e.seekable THEN At(Rewind(s.f, s.e.input), s.e) ELSE s
           todo  == IF s.e.clen = None THEN Left(start.f[s.e.input]) ELSE s.e.clen
           read  == ReadBodyFile(start, todo)
       IN  IF ~read.ok \/ Width(read.data) < todo THEN Fail(read.f, read.e)
           ELSE StoreCopy(read, read.data)

\* Slip: what can seek already is left where it stands.
WrongSeekableUnmoved(s) == IF s.e.seekable THEN Done(s.f, s.e, Empty) ELSE CopyBodyIn(s)

\* make_body_seekable
SeekableIn(s) ==
  IF s.e.seekable THEN Done(Rewind(s.f, s.e.input), s.e, Empty) ELSE CopyBodyIn(s)

\* The body getter: make seekable, read CONTENT_LENGTH bytes, rewind.
GetBodyIn(s) ==
  IF ~Readable(s.e) THEN Done(s.f, s.e, Empty)
  ELSE LET m    == SeekableIn(s)
           size == IF m.e.clen = None THEN Left(m.f[m.e.input]) ELSE m.e.clen
           read == ReadBodyFile(m, size)
       IN  IF ~m.ok THEN m
           ELSE Done(Rewind(read.f, read.e.input), read.e, read.data)

\* The POST getter: the cached vars if they were parsed from the present
\* input; nothing (NoVars) if this is no form; else parse the whole body.
\* FieldStorage reads CONTENT_LENGTH bytes, 0 when the key is missing.
GetPostIn(s) ==
  IF s.e.post.raw = s.e.input THEN Done(s.f, s.e, s.e.post.vars)
  ELSE IF ~s.e.form THEN Done(s.f, s.e, Empty)
  ELSE LET m    == SeekableIn(s)
           size == IF m.e.clen = None THEN 0 ELSE m.e.clen
           read == ReadBodyFile(m, size)
       IN  IF ~m.ok THEN m
           ELSE Done(Rewind(read.f, read.e.input),
                     [read.e EXCEPT !.post = [raw |-> read.e.input, vars |-> read.data]],
                     read.data)

---------------------------------------------------------------------------
(* Initial states: the environs that a server or Request.blank builds.     *)

Begin(n, clen, seekable, terminated, kind) ==
  /\ files = <<[kind |-> kind, data |-> [src |-> Wire, lo |-> 0, hi |-> n], pos |-> 0]>>
  /\ promised = clen
  /\ \E form \in BOOLEAN :
       env = [r \in Reqs |-> [input |-> 1, clen |-> clen, seekable |-> seekable,
                              terminated |-> terminated, form |-> form,
                              wrap |-> NoWrapper, post |-> NoParsed]]

\* A server that announces a Content-Length.  Fewer bytes may arrive (the
\* client disconnects), or more (the next request on the connection).
InitLength == \E c, n \in 0..MaxBody, t \in BOOLEAN : Begin(n, c, FALSE, t, "wire")

\* No Content-Length: a chunked body that the server terminates, or no body
\* (what is on the wire is then not this request's).
InitNoLength == \E n \in 0..MaxBody, t \in BOOLEAN : Begin(n, None, FALSE, t, "wire")

\* environ_from_url, and environ_add_POST: a BytesIO flagged seekable.
InitBlank     == Begin(0, None, TRUE, FALSE, "memory")
InitBlankPost == \E n \in 0..MaxBody : Begin(n, n, TRUE, FALSE, "memory")

Init ==
  /\ live = {First}
  /\ ret = [op |-> "start", req |-> First, ok |-> TRUE, data |-> Empty]
  /\ InitLength \/ InitNoLength \/ InitBlank \/ InitBlankPost

---------------------------------------------------------------------------
(* Actions.                                                                *)

State(r) == At(files, env[r])

Room == Len(files) < MaxFiles

\* The kinds of access that `ret' tells apart.
Ops == {"start", "stream", "body", "post", "seekable", "copy_body", "set", "call",
        "copy", "copy_get"}

\* The access `op' on r ends in the state and with the outcome of x.
Access(r, op, x) ==
  /\ files' = x.f
  /\ env' = [env EXCEPT ![r] = x.e]
  /\ ret' = [op |-> op, req |-> r, ok |-> x.ok, data |-> x.data]
  /\ UNCHANGED <<live, promised>>

Stream(r)       == \E k \in 1..(MaxBody + 1) : Access(r, "stream", ReadBodyFile(State(r), k))
GetBody(r)      == Room /\ Access(r, "body", GetBodyIn(State(r)))
GetPost(r)      == Room /\ Access(r, "post", GetPostIn(State(r)))
MakeSeekable(r) == Room /\ Access(r, "seekable", SeekableIn(State(r)))
CopyBody(r)     == Room /\ Access(r, "copy_body", CopyBodyIn(State(r)))

SetBody(r) ==
  \E v \in Values :
    /\ Room
    /\ Access(r, "set", SetBodyIn(State(r), [src |-> v, lo |-> 0, hi |-> Size[v]]))

\* del req.body, del req.body_file
DeleteBody(r) == Room /\ Access(r, "set", SetBodyIn(State(r), Empty))

\* req.body_file = a file the application opened
SetBodyFile(r) ==
  \E v \in Values :
    /\ Room
    /\ Access(r, "set",
         Done(Append(files, [kind |-> "stream", pos |-> 0,
                             data |-> [src |-> v, lo |-> 0, hi |-> Size[v]]]),
              [env[r] EXCEPT !.clen = None, !.input = Len(files) + 1,
                             !.seekable = FALSE, !.terminated = TRUE],
              Empty))

\* req.content_type = ...
SetContentType(r) ==
  \E form \in BOOLEAN : Access(r, "set", Done(files, [env[r] EXCEPT !.form = form], Empty))

\* req.call_application(app) rewinds a seekable input; app is any WSGI
\* application and reads CONTENT_LENGTH bytes of environ["wsgi.input"].  With
\* an input that cannot seek nothing happens here, and an application built
\* on webob reads by the other actions.
CallApplication(r) ==
  /\ env[r].seekable
  /\ LET size == IF env[r].clen = None THEN 0 ELSE env[r].clen
     IN  Access(r, "call", ReadRaw(At(Rewind(files, env[r].input), env[r]), size))

\* Slip: the new environ is not given a body of its own.
WrongCopyShared(r, q) ==
  LET m == SeekableIn(State(r))
  IN  /\ q \notin live
      /\ Room
      /\ promised' = promised
      /\ files' = m.f
      /\ IF m.ok
         THEN /\ live' = live \cup {q}
              /\ env' = [env EXCEPT ![r] = m.e, ![q] = m.e]
              /\ ret' = [op |-> "copy", req |-> r, ok |-> TRUE, data |-> m.f[m.e.input].data]
         ELSE /\ live' = live
              /\ env' = [env EXCEPT ![r] = m.e]
              /\ ret' = [op |-> "copy", req |-> r, ok |-> FALSE, data |-> Empty]

\* Slip: only the copy is made seekable, and takes the bytes off the shared wire.
WrongCopyTakesAll(r, q) ==
  LET c == CopyBodyIn(State(r))
  IN  /\ q \notin live
      /\ Room
      /\ promised' = promised
      /\ files' = c.f
      /\ live' = IF c.ok THEN live \cup {q} ELSE live
      /\ env' = IF c.ok THEN [env EXCEPT ![q] = c.e] ELSE [env EXCEPT ![r] = c.e]
      /\ ret' = [op |-> "copy", req |-> r, ok |-> c.ok,
                 data |-> IF c.ok THEN c.f[c.e.input].data ELSE Empty]

\* q = r.copy(): make r seekable, copy its environ, then copy_body in q.  The
\* bytes are read through the file that r keeps.
Copy(r, q) ==
  LET m == SeekableIn(State(r))
      c == CopyBodyIn(m)
  IN  /\ q \notin live
      /\ Len(files) + 1 < MaxFiles
      /\ promised' = promised
      /\ IF m.ok /\ c.ok
         THEN /\ files' = c.f
              /\ live' = live \cup {q}
              /\ env' = [env EXCEPT ![r] = m.e, ![q] = c.e]
              /\ ret' = [op |-> "copy", req |-> r, ok |-> TRUE, data |-> c.f[c.e.input].data]
         ELSE /\ files' = IF m.ok THEN c.f ELSE m.f
              /\ live' = live
              /\ env' = [env EXCEPT ![r] = m.e]
              /\ ret' = [op |-> "copy", req |-> r, ok |-> FALSE, data |-> Empty]

\* q = r.copy_get(): the environ copied, then content_type = None, body = b"".
CopyGet(r, q) ==
  LET c == SetBodyIn(At(files, [env[r] EXCEPT !.form = FALSE]), Empty)
  IN  /\ q \notin live
      /\ Room
      /\ files' = c.f
      /\ live' = live \cup {q}
      /\ env' = [env EXCEPT ![q] = c.e]
      /\ ret' = [op |-> "copy_get", req |-> r, ok |-> TRUE, data |-> Empty]
      /\ promised' = promised

Next ==
  \E r \in live :
    \/ Stream(r)
    \/ GetBody(r)
    \/ GetPost(r)
    \/ MakeSeekable(r)
    \/ CopyBody(r)
    \/ SetBody(r)
    \/ DeleteBody(r)
    \/ SetBodyFile(r)
    \/ SetContentType(r)
    \/ CallApplication(r)
    \/ \E q \in Reqs : Copy(r, q) \/ CopyGet(r, q)

Spec == Init /\ [][Next]_vars

---------------------------------------------------------------------------
(* Properties.                                                             *)

\* Every variable has its type.
TypeOK ==
  /\ files \in Seq(File)
  /\ live \in SUBSET Reqs
  /\ env \in [Reqs -> Environ]
  /\ promised \in Nat \cup {None}
  /\ ret \in [op : Ops, req : Reqs, ok : BOOLEAN, data : Slice]

InputOf(r) == files[env[r].input]
SameBytes(a, b) == a = b \/ (Width(a) = 0 /\ Width(b) = 0)

\* However the accesses are ordered and repeated, no more than Content-Length
\* bytes are ever taken from the server's input, and none at all while the
\* request announces no body: what follows belongs to the next request of the
\* connection (LimitedLengthFile and its cached instance, request.py 210-224).
NeverReadPastLength ==
  files[1].kind = "wire" =>
    /\ promised # None => files[1].pos <= promised
    /\ \A r \in live :
         (env[r].input = 1 /\ env[r].clen = None /\ ~Readable(env[r])) => files[1].pos = 0

\* webob.is_body_seekable is only ever set on an input that can seek: the
\* flag is what make_body_seekable and call_application trust (954, 1336).
SeekableTruthful ==
  \A r \in live : env[r].seekable => InputOf(r).kind \in {"memory", "temp"}

\* The CONTENT_LENGTH beside a seekable input is the number of its bytes,
\* whichever of the setters and copies stored it.
LengthMatches ==
  \A r \in live :
    (env[r].seekable /\ env[r].clen # None) => env[r].clen = Width(InputOf(r).data)

\* No truncated body is ever stored: what webob copies off the wire into
\* memory or a temporary file is either the whole announced body or nothing,
\* even when the application had begun to stream it or the client left.
NoTruncation ==
  promised # None =>
    \A i \in 1..Len(files) :
      (files[i].kind \in {"memory", "temp"} /\ files[i].data.src = Wire)
        => (Width(files[i].data) = 0 \/ files[i].data = [src |-> Wire, lo |-> 0, hi |-> promised])

\* req.body, and an application called with a seekable request, get the whole
\* of the present input from its first byte, wherever earlier reads left the
\* position; req.POST is never served from an input that has been replaced.
FreshReads ==
  /\ (ret.op \in {"body", "call"} /\ ret.ok) => SameBytes(ret.data,
         IF Readable(env[ret.req]) THEN InputOf(ret.req).data ELSE Empty)
  /\ (ret.op = "post" /\ ret.ok /\ Width(ret.data) > 0) => ret.data = InputOf(ret.req).data

\* Two reads of req.body_file in a row deliver consecutive bytes, although
\* each access of the property may build a new reader (comment at 211-216).
StreamInOrder ==
  [][ ( /\ ret.op = "stream" /\ ret'.op = "stream" /\ ret.req = ret'.req
        /\ Width(ret.data) > 0 /\ Width(ret'.data) > 0 )
      => ret'.data.lo = ret.data.hi ]_vars

\* A copy has the bytes of the original, which keeps a seekable body of its
\* own (HISTORY.txt 976).
CopyFaithful ==
  [][ \A q \in live' \ live : ret'.op = "copy" =>
        /\ SameBytes(files'[env'[q].input].data, files'[env'[ret'.req].input].data)
        /\ env'[ret'.req].seekable /\ env'[q].seekable
        /\ env'[q].input # env'[ret'.req].input ]_vars

\* What is done with one request moves neither the input, nor the position
\* in it, nor the keys of any other: copies share no file.
Independent ==
  [][ \A q \in live : q # ret'.req =>
        env'[q] = env[q] /\ files'[env[q].input] = files[env[q].input] ]_vars

============================================================================
