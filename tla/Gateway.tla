------------------------------- MODULE Gateway -------------------------------
(***************************************************************************)
(* A request that is sent to a WSGI application and becomes an answer:      *)
(* Request.call_application and send (src/webob/request.py 1322-1408), the  *)
(* application being any program that keeps to WSGI, the client that asks   *)
(* a server (src/webob/client.py), or an exception that is a response       *)
(* (src/webob/exc.py 223-388, 523-584), which HTTPExceptionMiddleware       *)
(* (1289-1315) may be there to catch.                                       *)
(*                                                                         *)
(* A piece of an answer is a number, each used once.  An exception is what  *)
(* it is ("http" the HTTPException of this application, "plain", "fussy"    *)
(* one whose class needs more than one argument) and whether it is the one  *)
(* that was raised or a copy.                                               *)
(*                                                                         *)
(* Operators called Wrong... are slips one could make in the code; no       *)
(* specification uses them.                                                 *)
(***************************************************************************)
EXTENDS Naturals, Sequences, FiniteSets, SequencesExt, FiniteSetsExt

CONSTANTS
  Programs,   \* of "wsgi", "client", "error" (an exception as application), "raises"
  Announced,  \* Content-Length of the request
  MaxPieces,  \* bound on the pieces of one answer
  MaxStarts,  \* bound on the calls of start_response in one answer
  MaxSends    \* bound on how often the request is sent

ASSUME GatewayAssumption ==
  /\ Programs \subseteq {"wsgi", "client", "error", "raises"}
  /\ Announced \in Nat /\ MaxPieces \in Nat /\ MaxStarts \in Nat /\ MaxSends \in Nat

VARIABLES
  setup,    \* [program, wrapped, catch, seekable, relative, slash]
  pos,      \* how far wsgi.input was read
  stage,    \* "idle", "call", "client", "drain", "handed", "over"
  captured, \* of call_application: <<>> or <<[status, exc]>>
  output,   \* of call_application: what was written
  gen,      \* the generator that the program returned: [made, ended, closed]
  given,    \* the list that the caller was given
  starts,   \* calls of start_response in this answer
  emitted,  \* the pieces of this answer in the order the program made them
  late,     \* those that were written when the answer was already handed over
  received, \* the pieces the caller has
  result,   \* NoExc, Answer, or the exception the caller got
  conn,     \* the client's connection: "none", "open", "closed"
  carried,  \* bytes of body that the program, or the connection, was given
  paths,    \* the paths it was sent to
  home,     \* self.location of the exception: the path it is relative to, or "any"
  location  \* the Location of the answer: as home, or "none"

vars == <<setup, pos, stage, captured, output, gen, given, starts, emitted, late, received,
          result, conn, carried, paths, home, location>>

---------------------------------------------------------------------------
Exc(w, same) == [what |-> w, same |-> same]
NoExc  == Exc("none", TRUE)
Answer == Exc("none", FALSE) \* an answer and no exception

\* etype(exc): start_response raises a new exception of the class.
Copy(e) == Exc(IF e.what = "fussy" THEN "TypeError" ELSE e.what, FALSE)

Piece == Len(emitted) + 1
Fresh(k) == [i \in 1..k |-> Len(emitted) + i]
NoGen == [made |-> FALSE, ended |-> FALSE, closed |-> 0]

\* Slip: start_response was called, so the iterable can be handed on.
WrongMustDrain(out, capt) == capt = <<>>
\* "output or not captured"
MustDrain(out, capt) == out # <<>> \/ capt = <<>>

---------------------------------------------------------------------------
(* call_application.                                                        *)

\* Slip: the body is where the last application left it.
WrongRewound(p) == p
\* "if self.is_body_seekable: self.body_file_raw.seek(0)"
Rewound(p) == IF setup.seekable THEN 0 ELSE p

Send(p) ==
  /\ stage \in {"idle", "over"} /\ Len(paths) < MaxSends
  /\ paths' = Append(paths, p) /\ pos' = Rewound(pos)
  /\ stage' = "call" /\ captured' = <<>> /\ output' = <<>> /\ gen' = NoGen /\ given' = <<>>
  /\ starts' = 0 /\ emitted' = <<>> /\ late' = {} /\ received' = <<>> /\ result' = NoExc
  /\ conn' = "none" /\ carried' = 0 /\ location' = "none"
  /\ UNCHANGED <<setup, home>>

Environ   == UNCHANGED <<setup, pos, paths, home, location>>
NoConn    == UNCHANGED <<conn, carried>>

\* The caller has its answer: the program's own list or generator, or output.
Hand(list) ==
  /\ stage' = "handed" /\ given' = list /\ result' = Answer

\* Slip: closes what it has read to the end.
WrongDrained(failed) == [gen EXCEPT !.ended = TRUE, !.closed = @ + (IF failed THEN 0 ELSE 1)]
\* "finally: app_iter.close()", after the end or an exception.
Drained(failed) == [gen EXCEPT !.ended = TRUE, !.closed = @ + 1]

\* The iterable is read to the end: out is all there is.
Complete(out) ==
  /\ output' = out
  /\ IF captured = <<>>
     THEN stage' = "over" /\ result' = Exc("IndexError", TRUE) /\ UNCHANGED given
     ELSE Hand(out)

\* The application returns list, or a generator when made.
Returned(out, capt, list, made) ==
  /\ gen' = [NoGen EXCEPT !.made = made]
  /\ IF ~MustDrain(out, capt) THEN Hand(list) /\ output' = out
     ELSE IF made THEN stage' = "drain" /\ output' = out /\ UNCHANGED <<given, result>>
     ELSE /\ output' = out \o list
          /\ IF capt = <<>> THEN stage' = "over" /\ result' = Exc("IndexError", TRUE) /\ UNCHANGED given
             ELSE Hand(out \o list)

\* An exception reaches the caller.
Escape(e) ==
  /\ stage' = "over" /\ result' = e
  /\ gen' = (IF stage = "drain" THEN Drained(TRUE)
             ELSE IF stage = "handed" THEN [gen EXCEPT !.ended = TRUE, !.closed = @ + 1] ELSE gen)
  /\ UNCHANGED <<output, given>>

---------------------------------------------------------------------------
(* Exceptions as responses.                                                 *)

\* Slip: nothing is relative.
WrongMoved(h, p) == h
\* _HTTPMove.__call__ sets its own location: urljoin, or the path and a slash.
Moved(h, p) == IF setup.slash \/ h = "any" THEN p ELSE h

\* WSGIHTTPException.__call__ with its own start_response, or the one of the
\* middleware, which adds the exception.
Respond(k, reported) ==
  /\ home' = (IF setup.relative \/ setup.slash THEN Moved(home, Last(paths)) ELSE home)
  /\ starts' = starts + 1
  /\ IF reported # NoExc /\ ~setup.catch
     THEN /\ Escape(Copy(reported)) /\ location' = location
          /\ UNCHANGED <<captured, emitted>>
     ELSE LET capt == <<[status |-> "error", exc |-> reported]>> IN
          /\ captured' = capt /\ location' = home'
          /\ emitted' = emitted \o Fresh(k)
          /\ Returned(output, capt, Fresh(k), FALSE)

\* An exception leaves the application.  The middleware catches those that
\* leave its call.
Raise(e) ==
  IF stage = "call" /\ setup.wrapped /\ e.what = "http"
  THEN \E k \in 0..1 : Respond(k, e)
  ELSE Escape(e) /\ UNCHANGED <<starts, captured, emitted, home, location>>

Rest == UNCHANGED <<setup, pos, paths, late, received>> /\ NoConn

\* The exception is the application: with a body, or for HEAD and the classes
\* without one with none.
CallError(k) ==
  /\ stage = "call" /\ setup.program = "error" /\ starts = 0
  /\ Respond(k, NoExc) /\ Rest

RaiseError ==
  /\ stage = "call" /\ setup.program = "raises"
  /\ Raise(Exc("http", TRUE)) /\ Rest

---------------------------------------------------------------------------
(* A program.                                                               *)

Running ==
  /\ setup.program = "wsgi" /\ ~gen.ended
  /\ stage \in {"call", "drain"} \/ (stage = "handed" /\ gen.made)

Start ==
  /\ Running /\ starts < MaxStarts /\ starts' = starts + 1
  /\ captured' = <<[status |-> "200", exc |-> NoExc]>>
  /\ UNCHANGED <<stage, output, gen, given, emitted, late, received, result>>
  /\ Environ /\ NoConn

\* start_response with exc_info.
StartOver(w) ==
  /\ Running /\ starts < MaxStarts
  /\ IF setup.catch
     THEN /\ starts' = starts + 1
          /\ captured' = <<[status |-> "500", exc |-> Exc(w, TRUE)]>>
          /\ UNCHANGED <<stage, output, gen, given, emitted, late, received, result>>
          /\ Environ /\ NoConn
     ELSE Raise(Copy(Exc(w, TRUE))) /\ Rest

\* What start_response returned appends to output.
Write ==
  /\ Running /\ captured # <<>> /\ Piece <= MaxPieces
  /\ output' = Append(output, Piece) /\ emitted' = Append(emitted, Piece)
  /\ late' = (IF stage = "handed" THEN late \cup {Piece} ELSE late)
  /\ UNCHANGED <<stage, captured, gen, given, starts, received, result>>
  /\ Environ /\ NoConn

ReturnList(k) ==
  /\ Running /\ stage = "call" /\ Len(emitted) + k <= MaxPieces
  /\ emitted' = emitted \o Fresh(k)
  /\ Returned(output, captured, Fresh(k), FALSE)
  /\ UNCHANGED <<captured, starts, late, received>> /\ Environ /\ NoConn

ReturnGenerator ==
  /\ Running /\ stage = "call"
  /\ Returned(output, captured, <<>>, TRUE)
  /\ UNCHANGED <<captured, starts, emitted, late, received>> /\ Environ /\ NoConn

Yield ==
  /\ Running /\ gen.made /\ Piece <= MaxPieces
  /\ emitted' = Append(emitted, Piece)
  /\ IF stage = "drain"
     THEN output' = Append(output, Piece) /\ UNCHANGED received
     ELSE received' = Append(received, Piece) /\ UNCHANGED output
  /\ UNCHANGED <<stage, captured, gen, given, starts, late, result>> /\ Environ /\ NoConn

End ==
  /\ Running /\ gen.made
  /\ IF stage = "drain"
     THEN gen' = Drained(FALSE) /\ Complete(output)
     ELSE gen' = [gen EXCEPT !.ended = TRUE] /\ UNCHANGED <<stage, output, given, result>>
  /\ UNCHANGED <<captured, starts, emitted, late, received>> /\ Environ /\ NoConn

ReadInput ==
  /\ Running /\ stage = "call" /\ pos < Announced
  /\ carried' = Announced - pos /\ pos' = Announced
  /\ UNCHANGED <<setup, stage, captured, output, gen, given, starts, emitted, late, received,
                 result, conn, paths, home, location>>

Fail(w) == Running /\ Raise(Exc(w, TRUE)) /\ Rest

---------------------------------------------------------------------------
(* SendRequest.__call__.                                                    *)

\* The body is read and the request sent.
Request ==
  /\ stage = "call" /\ setup.program = "client"
  /\ carried' = Announced - pos /\ pos' = Announced /\ conn' = "open"
  /\ UNCHANGED <<setup, late, received, paths, home, location>>

Answered ==
  /\ Request
  /\ captured' = <<[status |-> "200", exc |-> NoExc]>> /\ starts' = 1 /\ stage' = "client"
  /\ UNCHANGED <<output, gen, given, emitted, result>>

\* A timeout is answered with 504, a server that is unknown or refuses with 502.
Refused(status) ==
  LET capt == <<[status |-> status, exc |-> NoExc]>> IN
  /\ Request
  /\ captured' = capt /\ starts' = 1 /\ emitted' = Fresh(1)
  /\ Returned(output, capt, Fresh(1), FALSE)

\* Any other OSError is raised.
Broken == Request /\ Escape(Exc("plain", TRUE)) /\ UNCHANGED <<captured, starts, emitted>>

\* The answer is read in one piece, or its reading fails.
ReadAnswer(ok) ==
  /\ stage = "client"
  /\ IF ok THEN /\ conn' = "closed" /\ emitted' = Fresh(1)
                /\ Returned(output, captured, Fresh(1), FALSE)
     ELSE Escape(Exc("plain", TRUE)) /\ UNCHANGED <<conn, emitted>>
  /\ UNCHANGED <<captured, starts, late, received, carried>> /\ Environ

---------------------------------------------------------------------------
(* The caller.                                                              *)

HandedGenerator == stage = "handed" /\ gen.made /\ gen.closed = 0

Take ==
  /\ stage = "handed" /\ ~HandedGenerator
  /\ received' = given /\ stage' = "over"
  /\ UNCHANGED <<captured, output, gen, given, starts, emitted, late, result>> /\ Environ /\ NoConn

\* At the end of the generator or before it.
CloseAnswer ==
  /\ HandedGenerator
  /\ gen' = [gen EXCEPT !.closed = 1] /\ stage' = "over"
  /\ UNCHANGED <<captured, output, given, starts, emitted, late, received, result>>
  /\ Environ /\ NoConn

---------------------------------------------------------------------------
\* An exception with a Location is the one application, or raised by it.
Setups ==
  {s \in [program : Programs, wrapped : BOOLEAN, catch : BOOLEAN, seekable : BOOLEAN,
          relative : BOOLEAN, slash : BOOLEAN] :
     /\ s.relative \/ s.slash => s.program \in {"error", "raises"} /\ ~s.seekable
     /\ ~(s.relative /\ s.slash)}

Init ==
  /\ setup \in Setups /\ pos = 0 /\ stage = "idle" /\ captured = <<>> /\ output = <<>>
  /\ gen = NoGen /\ given = <<>> /\ starts = 0 /\ emitted = <<>> /\ late = {} /\ received = <<>>
  /\ result = NoExc /\ conn = "none" /\ carried = 0 /\ paths = <<>>
  /\ home = "any" /\ location = "none"

Next ==
  \/ \E p \in {"/a", "/b"} : Send(p)
  \/ \E k \in 0..1 : CallError(k)
  \/ RaiseError \/ ReadInput \/ Start \/ Write \/ ReturnGenerator \/ Yield \/ End
  \/ \E w \in {"plain", "fussy", "http"} : StartOver(w) \/ Fail(w)
  \/ \E k \in 0..MaxPieces : ReturnList(k)
  \/ Answered \/ Broken \/ \E status \in {"502", "504"} : Refused(status)
  \/ \E ok \in BOOLEAN : ReadAnswer(ok)
  \/ Take \/ CloseAnswer

Spec == Init /\ [][Next]_vars

---------------------------------------------------------------------------
(* The caller of an answer that was not broken off has every piece that the *)
(* application wrote, yielded or returned, in the order it made them (the   *)
(* order of their numbers), but for what it writes when its own generator   *)
(* is already being read.                                                   *)
NothingLost ==
  stage = "over" /\ result = Answer =>
    /\ Range(received) = Range(emitted) \ late
    /\ \A i, j \in DOMAIN received : i < j => received[i] < received[j]

(* A generator is closed once, when it was read or failed, by               *)
(* call_application or by the caller who has it; a connection is closed     *)
(* when its answer is handed over.                                          *)
Released ==
  /\ gen.closed <= 1
  /\ (stage = "over" /\ gen.made => gen.closed = 1)
  /\ (stage = "handed" /\ gen.ended /\ given # <<>> => gen.closed = 1)
  /\ (conn = "open" /\ result = Answer => captured[1].status \in {"502", "504"})

(* Whoever reads the body of a request that is sent for the first time, or  *)
(* that is sent again and can be sought, gets all that was announced.       *)
SentWhole == (setup.seekable \/ Len(paths) = 1) /\ pos > 0 => carried = Announced

(* The redirection that adds a slash goes to the path of the request at     *)
(* hand, even when the exception answers many; one with a relative location *)
(* stays with the path of the first.                                        *)
LocationFits ==
  location # "none" /\ (setup.relative \/ setup.slash) =>
    location = IF setup.slash THEN Last(paths) ELSE paths[1]

===============================================================================
