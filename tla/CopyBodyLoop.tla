---------------------------- MODULE CopyBodyLoop ----------------------------
(***************************************************************************)
(* copy_body as the loop it is (src/webob/request.py 959-1044): it reads    *)
(* the body piece by piece, keeps the pieces in memory until they exceed    *)
(* the limit and in a temporary file from then on, counts down only when    *)
(* there is a Content-Length, and touches the environ only at the end.      *)
(*                                                                         *)
(* RequestBody takes copy_body as one step, CopyBodyIn.  The refinement     *)
(* below justifies it: with the loop in place of that step, and the reads   *)
(* of an application's own stream returning as little as they like, every   *)
(* behaviour is one of RequestBody's.                                      *)
(***************************************************************************)
EXTENDS RequestBody

CONSTANT Chunk  \* 65535, the most that one iteration reads

\* Python's None is no byte string: that is how the loop tells whether there
\* is a temporary file yet.
ASSUME ChunkAssumption == Chunk \in Nat \ {0} /\ None \notin Slice

VARIABLES
  busy,   \* TRUE while copy_body runs
  begun,  \* files and env when it was called
  todo,   \* the bytes to read, or Chunk for ever without a Content-Length
  newbody,  \* the pieces kept in memory
  fileobj   \* the pieces in the temporary file, None before there is one

loopVars == <<busy, begun, todo, newbody, fileobj>>
allVars  == <<vars, loopVars>>

r0 == First

NotBegun == [files |-> <<>>, env |-> <<>>]

LoopInit ==
  /\ Init
  /\ busy = FALSE
  /\ begun = NotBegun
  /\ todo = 0 /\ newbody = Empty /\ fileobj = None

---------------------------------------------------------------------------

Join(a, b) == IF Width(a) = 0 THEN b ELSE [a EXCEPT !.hi = b.hi]

\* One input.read(k): as in RequestBody, but a file that the application
\* opened may return fewer bytes than it has, though never none.
Reads(s, k) ==
  IF s.f[s.e.input].kind = "stream"
  THEN IF Left(s.f[s.e.input]) = 0 THEN {ReadBodyFile(s, 0)}
       ELSE {ReadBodyFile(s, n) : n \in 1..k}
  ELSE {ReadBodyFile(s, k)}

\* The call, up to the loop.  What is not readable gets an empty body at once.
Call ==
  /\ ~busy /\ Room /\ Readable(env[r0])
  /\ busy' = TRUE
  /\ begun' = [files |-> files, env |-> env]
  /\ files' = IF env[r0].seekable THEN Rewind(files, env[r0].input) ELSE files
  /\ todo' = IF env[r0].clen = None THEN Chunk ELSE env[r0].clen
  /\ newbody' = Empty
  /\ fileobj' = None
  /\ UNCHANGED <<live, env, promised, ret>>

\* Slip: counted down without a Content-Length too.
WrongCountDown(n, got) == n - got

\* todo after `got' more bytes came.
CountDown(n, got) == IF env[r0].clen = None THEN n ELSE n - got

\* A piece goes to the temporary file if there is one, else to memory, and
\* from there to a new temporary file as soon as it is over the limit.
Keep(data) ==
  LET sofar == Join(newbody, data)
  IN  IF fileobj # None THEN /\ fileobj' = Join(fileobj, data)
                             /\ UNCHANGED newbody
      ELSE IF Width(sofar) > TempfileLimit THEN fileobj' = sofar /\ newbody' = Empty
      ELSE newbody' = sofar /\ UNCHANGED fileobj

\* The loop is left with the outcome x.
Return(x) ==
  /\ Access(r0, "copy_body", x)
  /\ busy' = FALSE
  /\ begun' = NotBegun
  /\ todo' = 0 /\ newbody' = Empty /\ fileobj' = None

\* The end of copy_body, from the state s after the last read.
Stored(s) ==
  IF fileobj # None
  THEN Done(Append(s.f, [kind |-> "temp", data |-> fileobj, pos |-> 0]),
            [s.e EXCEPT !.clen = Width(fileobj), !.input = Len(s.f) + 1,
                        !.seekable = TRUE, !.terminated = TRUE],
            Empty)
  ELSE SetBodyIn(s, newbody)

\* Slip: only a failing read ends the loop.
WrongTurn ==
  /\ busy /\ todo > 0
  /\ \E x \in Reads(State(r0), Least(todo, Chunk)) :
       \/ /\ x.ok
          /\ Keep(x.data)
          /\ todo' = CountDown(todo, Width(x.data))
          /\ files' = x.f
          /\ env' = [env EXCEPT ![r0] = x.e]
          /\ UNCHANGED <<live, promised, ret, busy, begun>>
       \/ /\ ~x.ok
          /\ Return(Fail(x.f, x.e))

\* One turn of the loop.
Turn ==
  /\ busy /\ todo > 0
  /\ \E x \in Reads(State(r0), Least(todo, Chunk)) :
       \/ /\ x.ok /\ Width(x.data) > 0
          /\ Keep(x.data)
          /\ todo' = CountDown(todo, Width(x.data))
          /\ files' = x.f
          /\ env' = [env EXCEPT ![r0] = x.e]
          /\ UNCHANGED <<live, promised, ret, busy, begun>>
       \/ /\ x.ok /\ Width(x.data) = 0 /\ env[r0].clen = None
          /\ Return(IF fileobj # None THEN Stored(x) ELSE SetBodyIn(x, Join(newbody, x.data)))
       \/ /\ ~x.ok \/ (Width(x.data) = 0 /\ env[r0].clen # None)
          /\ Return(Fail(x.f, x.e))

\* The bytes are all there.
Finish ==
  /\ busy /\ todo = 0
  /\ Return(Stored(State(r0)))

Loop == Call \/ Turn \/ Finish

\* The accesses of RequestBody that change what copy_body finds.
Between ==
  /\ ~busy
  /\ \/ Stream(r0) \/ GetBody(r0) \/ SetBody(r0) \/ DeleteBody(r0) \/ SetBodyFile(r0)
     \/ ~Readable(env[r0]) /\ CopyBody(r0)
  /\ UNCHANGED loopVars

LoopNext == Loop \/ Between

\* The loop goes on by itself: the code is sequential, and a read returns
\* what the server has or the end of the input.
LoopSpec == LoopInit /\ [][LoopNext]_allVars /\ WF_allVars(Turn \/ Finish)

---------------------------------------------------------------------------
(* Properties.                                                             *)

\* The loop is an implementation of the one step: while it runs, RequestBody
\* is still in the state the loop began in.
Atomic == INSTANCE RequestBody WITH
            files <- IF busy THEN begun.files ELSE files,
            env   <- IF busy THEN begun.env ELSE env

RefinesCopyBody == Atomic!Spec

\* The loop ends, with or without a Content-Length, whatever the client does
\* and however little an application's stream returns at a time.
Terminates == busy ~> ~busy
============================================================================
