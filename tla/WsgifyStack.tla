---------------------------- MODULE WsgifyStack ----------------------------
(***************************************************************************)
(* One request through a stack of applications made with wsgify             *)
(* (src/webob/dec.py 91-151), the outermost at the bottom of the stack.     *)
(* Each layer gives its function a pre-instantiated req.response, which is  *)
(* kept in the environ (environ["webob.adhoc_attrs"], request.py            *)
(* 1474-1497), and the layers share the environ.  A function sets cookies   *)
(* on req.response or writes to it, calls the next application with         *)
(* req.get_response any number of times, and ends in one of the ways that   *)
(* wsgify knows.                                                            *)
(*                                                                         *)
(* Below the last layer is a plain WSGI application, any one.               *)
(*                                                                         *)
(* The definitions called Wrong... are slips one could make in the code; no *)
(* specification uses them.                                                *)
(***************************************************************************)
EXTENDS Naturals, Sequences

CONSTANTS
  Depth,      \* the number of wsgify layers
  MaxCookies, \* bound on the cookies set while the request is served
  MaxCalls    \* bound on the calls of get_response

ASSUME StackAssumption == Depth \in Nat \ {0} /\ MaxCookies \in Nat /\ MaxCalls \in Nat

VARIABLES
  resps,   \* the Response objects, in order of creation
  slot,    \* environ["webob.adhoc_attrs"]["response"], an index into resps
  stack,   \* the running activations of wsgify.__call__
  out,     \* <<>>, or <<m>> with the message m on its way to the caller
  cookies, \* cookies set so far; each has its own number
  calls,   \* calls of get_response so far
  nested,  \* TRUE once a function called another wsgify layer by get_response
  used     \* the response that the last None or string was answered with

stackVars == <<resps, slot, stack, out, cookies, calls, nested, used>>

---------------------------------------------------------------------------
(* Data.  A piece of a body is the layer whose function wrote it, 0 for the *)
(* plain application.                                                      *)

Message == [cookies : Seq(Nat), body : Seq(0..Depth)]
Blank   == [cookies |-> <<>>, body |-> <<>>]

\* mine: the response made for the activation; got: what get_response gave
\* last (0: nothing yet); pc: "running" its function, "waiting" in
\* get_response, or "passing" the answer of the application it returned;
\* add: the Set-Cookie headers that repl_start_response adds to that answer.
Frame == [mine : Nat, got : Nat, pc : {"running", "waiting", "passing"}, add : Seq(Nat)]

NewFrame(i) == [mine |-> i, got |-> 0, pc |-> "running", add |-> <<>>]

Top    == stack[Len(stack)]
Below  == SubSeq(stack, 1, Len(stack) - 1)
Level  == Len(stack)
FunctionRuns == stack # <<>> /\ out = <<>> /\ Top.pc = "running"

WithTop(f) == [stack EXCEPT ![Level] = f]

---------------------------------------------------------------------------

\* The next application is called with the environ, from the stack st.  A
\* wsgify layer starts with a response of its own in the environ; the plain
\* application answers, and `add' is added to what it sends.
Invoke(st, add) ==
  IF Len(st) < Depth
  THEN /\ resps' = Append(resps, Blank)
       /\ slot' = Len(resps) + 1
       /\ stack' = Append(st, NewFrame(Len(resps) + 1))
       /\ UNCHANGED out
  ELSE /\ stack' = st
       /\ out' = <<[cookies |-> add, body |-> <<0>>]>>
       /\ UNCHANGED <<resps, slot>>

\* req.response.set_cookie(...) in the function.
SetCookie ==
  /\ FunctionRuns /\ cookies < MaxCookies
  /\ cookies' = cookies + 1
  /\ resps' = [resps EXCEPT ![slot].cookies = Append(@, cookies + 1)]
  /\ UNCHANGED <<slot, stack, out, calls, nested, used>>

\* req.response.write(...) in the function; once is enough.
WriteBody ==
  /\ FunctionRuns
  /\ \A i \in 1..Len(resps[slot].body) : resps[slot].body[i] # Level
  /\ resps' = [resps EXCEPT ![slot].body = Append(@, Level)]
  /\ UNCHANGED <<slot, stack, out, cookies, calls, nested, used>>

\* req.get_response(app) for the next application.
GetResponse ==
  /\ FunctionRuns /\ calls < MaxCalls
  /\ calls' = calls + 1
  /\ nested' = (nested \/ Level < Depth)
  /\ Invoke(WithTop([Top EXCEPT !.pc = "waiting"]), <<>>)
  /\ UNCHANGED <<cookies, used>>

\* get_response makes a Response of the answer, and returns it.
Receive ==
  /\ stack # <<>> /\ out # <<>> /\ Top.pc = "waiting"
  /\ resps' = Append(resps, out[1])
  /\ stack' = WithTop([Top EXCEPT !.pc = "running", !.got = Len(resps) + 1])
  /\ out' = <<>>
  /\ UNCHANGED <<slot, cookies, calls, nested, used>>

\* The activation ends and sends m.
Finish(m) ==
  /\ stack' = Below
  /\ out' = <<m>>

\* The function returns None, or req.response.
ReturnNone ==
  /\ FunctionRuns
  /\ Finish(resps[slot])
  /\ used' = <<Top.mine, slot>>
  /\ UNCHANGED <<resps, slot, cookies, calls, nested>>

\* The function returns text: it is written to req.response.
ReturnText ==
  /\ FunctionRuns
  /\ LET m == [resps[slot] EXCEPT !.body = Append(@, Level)]
     IN  /\ resps' = [resps EXCEPT ![slot] = m]
         /\ Finish(m)
  /\ used' = <<Top.mine, slot>>
  /\ UNCHANGED <<slot, cookies, calls, nested>>

\* Slip: headers.get instead of headers.getall, one cookie is merged.
WrongMerge(m) ==
  IF resps[slot].cookies = <<>> THEN m
  ELSE [m EXCEPT !.cookies = Append(@, Head(resps[slot].cookies))]

\* req.response.merge_cookies(resp) for a Response.
Merge(m) == [m EXCEPT !.cookies = @ \o resps[slot].cookies]

\* The function returns a Response it made, or raises an HTTPException, which
\* is a Response too.
ReturnResponse ==
  /\ FunctionRuns
  /\ LET m == Merge([Blank EXCEPT !.body = <<Level>>])
     IN  resps' = Append(resps, m) /\ Finish(m)
  /\ UNCHANGED <<slot, cookies, calls, nested, used>>

\* The function returns what it got from get_response: modified in place.
ReturnGot ==
  /\ FunctionRuns /\ Top.got # 0
  /\ LET m == Merge(resps[Top.got])
     IN  resps' = [resps EXCEPT ![Top.got] = m] /\ Finish(m)
  /\ UNCHANGED <<slot, cookies, calls, nested, used>>

\* The function returns the next application: merge_cookies wraps it, and the
\* wrapper is called in its turn.
ReturnApp ==
  /\ FunctionRuns
  /\ LET add == resps[slot].cookies
     IN  IF Level < Depth
         THEN Invoke(WithTop([Top EXCEPT !.pc = "passing", !.add = add]), <<>>)
         ELSE /\ Finish([cookies |-> add, body |-> <<0>>])
              /\ UNCHANGED <<resps, slot>>
  /\ UNCHANGED <<cookies, calls, nested, used>>

\* The answer of the application that a function returned goes on, with the
\* cookies that repl_start_response adds.
PassOn ==
  /\ stack # <<>> /\ out # <<>> /\ Top.pc = "passing"
  /\ Finish([out[1] EXCEPT !.cookies = @ \o Top.add])
  /\ UNCHANGED <<resps, slot, cookies, calls, nested, used>>

\* The function raises something that is no HTTPException.  It goes through
\* the layers that pass on, up to a function that is waiting, which catches
\* it or raises in its turn, or to the server.
RaiseThrough ==
  /\ FunctionRuns
  /\ LET waiting == {i \in 1..(Level - 1) : stack[i].pc = "waiting"}
         catcher == IF waiting = {} THEN 0 ELSE CHOOSE i \in waiting : \A j \in waiting : j <= i
     IN  stack' = IF catcher = 0 THEN <<>>
                  ELSE [SubSeq(stack, 1, catcher) EXCEPT ![catcher].pc = "running"]
  /\ UNCHANGED <<resps, slot, out, cookies, calls, nested, used>>

\* The server calls the outermost application.
StackInit ==
  /\ resps = <<Blank>> /\ slot = 1 /\ stack = <<NewFrame(1)>>
  /\ out = <<>> /\ cookies = 0 /\ calls = 0 /\ nested = FALSE
  /\ used = <<1, 1>>

StackNext ==
  \/ SetCookie \/ WriteBody \/ GetResponse \/ Receive
  \/ ReturnNone \/ ReturnText \/ ReturnResponse \/ ReturnGot \/ ReturnApp
  \/ PassOn \/ RaiseThrough

StackSpec == StackInit /\ [][StackNext]_stackVars

---------------------------------------------------------------------------
(* Properties.                                                             *)

Delivered == stack = <<>> /\ out # <<>>

\* Whatever each of the layers returns -- None, text, a response, an
\* exception, the answer of a plain application or the next layer itself --
\* every cookie that any of them set on its req.response is sent, and sent
\* once, as long as no layer calls another by get_response (dec.py 134-151,
\* response.py 1135-1162).
CookiesSentOnce ==
  (Delivered /\ ~nested) =>
    /\ Len(out[1].cookies) = cookies
    /\ \A c \in 1..cookies : \E i \in 1..cookies : out[1].cookies[i] = c

\* A body has one author: what a function wrote to its req.response before it
\* handed the request on is never joined to what the next one wrote, if no
\* layer calls another by get_response.
OneAuthor ==
  (Delivered /\ ~nested) =>
    \A i, j \in 1..Len(out[1].body) : out[1].body[i] = out[1].body[j]

\* A function that returns None or a string is answered with the req.response
\* instantiated for it (dec.py 66-69), if no layer calls another by get_response.
OwnResponse == ~nested => used[1] = used[2]

\* What reaches the client is whole and of the layer that answered.
AnsweredWhole == CookiesSentOnce /\ OneAuthor /\ OwnResponse
============================================================================
