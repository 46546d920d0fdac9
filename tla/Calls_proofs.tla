---------------------------- MODULE Calls_proofs ----------------------------
(***************************************************************************)
(* Proofs about the calls of applications: Gateway, for every set of        *)
(* programs, every announced length and every bound, and WsgifyStack, for   *)
(* any number of layers, cookies and calls.                                 *)
(***************************************************************************)
EXTENDS Gateway, WsgifyStack, SequenceTheorems, TLAPS
---------------------------------------------------------------------------
(***************************************************************************)
(* Gateway.  An answer reaches its caller whole and in order, what it holds *)
(* is closed once, a request that is sent has its body, and a redirection   *)
(* goes where it should (src/webob/request.py 1322-1408,                    *)
(* src/webob/client.py, src/webob/exc.py).  The inductive invariant says    *)
(* for each stage of an answer where its pieces are and who has to close    *)
(* the generator.                                                           *)
(***************************************************************************)

---------------------------------------------------------------------------
(* The inductive invariant.                                                 *)

Numbered(s) == s \in Seq(Nat) /\ \A i \in 1..Len(s) : s[i] = i

\* The caller has what it should: all that is not late, in order.
Got ==
  /\ received \in Seq(Nat)
  /\ Range(received) = (1..Len(emitted)) \ late
  /\ \A i, j \in 1..Len(received) : i < j => received[i] < received[j]

\* The program's own generator, which nobody has closed.
Live == gen.made /\ gen.closed = 0

Generators == [made : BOOLEAN, ended : BOOLEAN, closed : 0..1]

\* Until an answer is handed over all its pieces are in output, for want of
\* anything else that could keep them.
PiecesPlaced ==
  /\ Numbered(emitted)
  /\ late \subseteq 1..Len(emitted)
  /\ stage \in {"call", "drain", "client"} => output = emitted /\ late = {} /\ received = <<>>
  /\ stage = "client" \/ (stage = "call" /\ setup.program = "client") => emitted = <<>>
  /\ stage = "handed" /\ ~Live => given = emitted /\ late = {}
  /\ stage = "handed" /\ Live => Got
  /\ stage = "over" /\ result = Answer => Got

GeneratorHeld ==
  /\ gen \in Generators
  /\ gen.ended \/ gen.closed = 1 => gen.made
  /\ stage \in {"idle", "call", "client"} => gen = NoGen
  /\ stage = "drain" => Live /\ ~gen.ended
  /\ stage = "handed" /\ gen.made /\ ~gen.ended => gen.closed = 0
  /\ stage = "handed" /\ Live => given = <<>>
  /\ stage = "over" /\ gen.made => gen.closed = 1

Outcome ==
  /\ stage \in {"idle", "call", "client", "drain", "handed", "over"}
  /\ stage \in {"idle", "call", "client", "drain"} => result = NoExc
  /\ stage = "handed" => result = Answer
  /\ conn # "none" \/ stage = "client" => setup.program = "client"
  /\ stage = "call" => conn = "none"
  /\ conn = "open" /\ result = Answer => captured[1].status \in {"502", "504"}

\* The input is where the request found it or was read to its end by this answer.
Fresher == setup.seekable \/ Len(paths) = 1
InputRead ==
  /\ setup \in Setups
  /\ pos \in Nat
  /\ paths \in Seq({"/a", "/b"})
  /\ stage = "idle" <=> paths = <<>>
  /\ paths = <<>> => pos = 0
  /\ Fresher => pos = 0 \/ (pos = Announced /\ carried = Announced)
  /\ Fresher /\ stage = "call" /\ setup.program = "client" => pos = 0

\* The first answer of an exception with a relative location fixes its home.
Answers == setup.relative /\ (setup.program = "error" \/ setup.wrapped)
HomeFixed ==
  /\ stage \in {"idle", "call"} => location = "none"
  /\ setup.relative /\ home # "any" => paths # <<>> /\ home = paths[1]
  /\ Answers /\ stage = "call" /\ home = "any" => Len(paths) = 1
  /\ Answers /\ stage \notin {"idle", "call"} => home # "any"
  /\ LocationFits

GatewayInv == PiecesPlaced /\ GeneratorHeld /\ Outcome /\ InputRead /\ HomeFixed

---------------------------------------------------------------------------
(* Sequences of numbered pieces.                                            *)

LEMMA NumberedRange == ASSUME NEW s, Numbered(s) PROVE Range(s) = 1..Len(s)
<1>1. Range(s) = {s[i] : i \in 1..Len(s)} BY RangeEquality DEF Numbered
<1> QED BY <1>1 DEF Numbered

LEMMA NumberedAppend ==
  ASSUME NEW s, Numbered(s)
  PROVE  Numbered(Append(s, Len(s) + 1)) /\ Len(Append(s, Len(s) + 1)) = Len(s) + 1
  BY AppendProperties DEF Numbered

\* The pieces that are made next are numbered on.
LEMMA NumberedFresh ==
  ASSUME NEW k \in Nat, Numbered(emitted)
  PROVE  /\ Numbered(emitted \o Fresh(k)) /\ Len(emitted \o Fresh(k)) = Len(emitted) + k
         /\ emitted = <<>> => emitted \o Fresh(k) = Fresh(k)
<1>1. Len(emitted) \in Nat BY DEF Numbered
<1>2. Fresh(k) \in Seq(Nat) /\ Len(Fresh(k)) = k /\ \A i \in 1..k : Fresh(k)[i] = Len(emitted) + i
  BY <1>1 DEF Fresh
<1>3. emitted \in Seq(Nat) BY DEF Numbered
<1>4. emitted \o Fresh(k) \in Seq(Nat) /\ Len(emitted \o Fresh(k)) = Len(emitted) + k
  <2>1. PICK f \in Seq(Nat) : f = Fresh(k) /\ Len(f) = k
    BY <1>2
  <2>2. emitted \o f \in Seq(Nat) /\ Len(emitted \o f) = Len(emitted) + Len(f)
    BY ONLY <1>3, f \in Seq(Nat), ConcatProperties
  <2> QED
    BY <2>1, <2>2
<1>5. ASSUME NEW i \in 1..(Len(emitted) + k) PROVE (emitted \o Fresh(k))[i] = i
  <2>1. (emitted \o Fresh(k))[i] = IF i <= Len(emitted) THEN emitted[i] ELSE Fresh(k)[i - Len(emitted)]
    BY ONLY <1>2, <1>3, <1>5, ConcatProperties
  <2>2. CASE i <= Len(emitted) BY <1>1, <2>1, <2>2 DEF Numbered
  <2>3. CASE ~(i <= Len(emitted))
    <3>1. i - Len(emitted) \in 1..k BY <1>1, <2>3
    <3>2. Fresh(k)[i - Len(emitted)] = Len(emitted) + (i - Len(emitted)) BY <1>2, <3>1
    <3>3. (emitted \o Fresh(k))[i] = Len(emitted) + (i - Len(emitted)) BY <1>1, <2>1, <2>3, <3>2
    <3> QED BY <1>1, <1>5, <3>3
  <2> QED BY <2>2, <2>3
<1>6. emitted = <<>> => emitted \o Fresh(k) = Fresh(k) BY <1>2, ConcatEmptySeq
<1> QED BY <1>4, <1>5, <1>6 DEF Numbered

\* Who has all the numbered pieces has them in order.
LEMMA WholeGot ==
  ASSUME Numbered(emitted'), late' = {}, received' = emitted' PROVE Got'
<1>1. Range(emitted') = 1..Len(emitted') BY NumberedRange
<1> QED BY <1>1 DEF Got, Numbered

---------------------------------------------------------------------------
(* What the operators of the model do to a state.                           *)

LEMMA GenSet ==
  ASSUME NEW g \in Generators
  PROVE  /\ [g EXCEPT !.ended = TRUE] \in Generators
         /\ [g EXCEPT !.closed = 1] \in Generators
         /\ [g EXCEPT !.ended = TRUE, !.closed = 1] \in Generators
<1>1. ASSUME NEW e \in BOOLEAN, NEW c \in 0..1
      PROVE  /\ [g EXCEPT !.ended = e] \in Generators
             /\ [g EXCEPT !.closed = c] \in Generators
             /\ [g EXCEPT !.ended = e, !.closed = c] \in Generators
  BY DEF Generators
<1>2. TRUE \in BOOLEAN /\ 1 \in 0..1 OBVIOUS
<1> QED BY <1>1, <1>2, Zenon

\* A generator that nobody has to close, or none.
Settled(g) ==
  /\ g \in Generators
  /\ g.made <=> g.ended
  /\ g.made <=> g.closed = 1

LEMMA NoneSettled == Settled(NoGen)
  BY DEF Settled, NoGen, Generators

\* The answer is handed over as a list with all its pieces, or it is broken off.
Ends ==
  /\ Settled(gen') /\ Numbered(emitted') /\ late' \subseteq 1..Len(emitted')
  /\ \/ stage' = "handed" /\ result' = Answer /\ given' = emitted' /\ late' = {}
     \/ stage' = "over" /\ result' # Answer

LEMMA EndsPlaced == ASSUME Ends PROVE PiecesPlaced' /\ GeneratorHeld'
  BY DEF Ends, Settled, PiecesPlaced, GeneratorHeld, Live

LEMMA ListReturned ==
  ASSUME NEW before \in Seq(Nat), NEW list \in Seq(Nat), NEW capt, Returned(before, capt, list, FALSE)
  PROVE  /\ gen' = NoGen
         /\ \/ stage' = "handed" /\ result' = Answer /\ given' = before \o list
            \/ stage' = "over" /\ result' = Exc("IndexError", TRUE)
<1>1. before = <<>> => before \o list = list BY ConcatEmptySeq
<1>2. gen' = NoGen BY DEF Returned, NoGen
<1> QED BY <1>1, <1>2 DEF Returned, MustDrain, Hand

LEMMA GeneratorReturned ==
  ASSUME NEW before, NEW capt, Returned(before, capt, <<>>, TRUE)
  PROVE  /\ gen' = [made |-> TRUE, ended |-> FALSE, closed |-> 0]
         /\ \/ stage' = "handed" /\ result' = Answer /\ given' = <<>> /\ before = <<>>
            \/ stage' = "drain" /\ UNCHANGED result /\ output' = before
  BY DEF Returned, MustDrain, Hand, NoGen

\* An exception is no answer.
LEMMA NotAnswer ==
  /\ NoExc # Answer
  /\ \A w, b : w # "none" => Exc(w, b) # Answer /\ Copy(Exc(w, b)) # Answer
                            /\ Exc(w, b) # NoExc
  BY DEF Exc, Answer, NoExc, Copy

\* The end of a generator, by itself or with an exception.
LEMMA DrainedSettled ==
  ASSUME gen \in Generators, gen.made, gen.closed = 0, NEW failed
  PROVE  Settled(Drained(failed))
<1>1. Drained(failed) = [gen EXCEPT !.ended = TRUE, !.closed = 1] BY DEF Drained, Generators
<1>2. Drained(failed) \in Generators BY <1>1, GenSet
<1>3. Drained(failed).made /\ Drained(failed).ended /\ Drained(failed).closed = 1
  BY <1>1 DEF Generators
<1> QED BY <1>2, <1>3 DEF Settled

LEMMA Escaped ==
  ASSUME GatewayInv, NEW e, e # Answer, Escape(e), emitted' = emitted, late' = late,
         stage \in {"call", "client"} \/ (stage \in {"drain", "handed"} /\ gen.made /\ ~gen.ended)
  PROVE  Ends
<1>1. stage' = "over" /\ result' # Answer BY DEF Escape
<1>2. Settled(gen')
  <2>1. CASE stage \in {"call", "client"}
    BY <2>1, NoneSettled DEF Escape, GatewayInv, GeneratorHeld
  <2>2. CASE stage \in {"drain", "handed"} /\ gen.made /\ ~gen.ended
    <3>1. gen \in Generators /\ gen.closed = 0 BY <2>2 DEF GatewayInv, GeneratorHeld, Live
    <3>2. gen' = Drained(TRUE) BY <2>2 DEF Escape, Drained
    <3> QED BY <2>2, <3>1, <3>2, DrainedSettled
  <2> QED BY <2>1, <2>2
<1> QED BY <1>1, <1>2 DEF Ends, GatewayInv, PiecesPlaced

\* An answer whose last pieces are returned in a list.
LEMMA ListEnds ==
  ASSUME GatewayInv, stage \in {"call", "client"}, NEW k \in Nat, NEW capt,
         Returned(output, capt, Fresh(k), FALSE), emitted' = emitted \o Fresh(k), late' = late
  PROVE  Ends
<1>1. output = emitted /\ Numbered(emitted) /\ late = {} BY DEF GatewayInv, PiecesPlaced
<1>2. Numbered(emitted') BY <1>1, NumberedFresh
<1>3. output \in Seq(Nat) /\ Fresh(k) \in Seq(Nat) BY <1>1 DEF Numbered, Fresh
<1>4. gen' = NoGen /\ \/ stage' = "handed" /\ result' = Answer /\ given' = emitted'
                      \/ stage' = "over" /\ result' = Exc("IndexError", TRUE)
  BY <1>1, <1>3, ListReturned
<1>5. Exc("IndexError", TRUE) # Answer BY NotAnswer
<1> QED BY <1>1, <1>2, <1>4, <1>5, NoneSettled DEF Ends

LEMMA Responded ==
  ASSUME GatewayInv, stage = "call", NEW k \in Nat, NEW e, e # NoExc => Copy(e) # Answer, Respond(k, e), late' = late
  PROVE  Ends
<1>1. CASE e # NoExc /\ ~setup.catch
  <2>1. Escape(Copy(e)) /\ emitted' = emitted /\ Copy(e) # Answer BY <1>1 DEF Respond
  <2> QED BY <2>1, Escaped
<1>2. CASE ~(e # NoExc /\ ~setup.catch)
  <2>1. PICK capt : Returned(output, capt, Fresh(k), FALSE) /\ emitted' = emitted \o Fresh(k)
    BY <1>2 DEF Respond
  <2> QED BY <2>1, ListEnds
<1> QED BY <1>1, <1>2

LEMMA Raised ==
  ASSUME GatewayInv, NEW e, e # Answer, Copy(e) # Answer, Raise(e), late' = late,
         stage = "call" \/ (stage \in {"drain", "handed"} /\ gen.made /\ ~gen.ended)
  PROVE  Ends
<1>1. CASE stage = "call" /\ setup.wrapped /\ e.what = "http"
  BY <1>1, Responded DEF Raise
<1>2. CASE ~(stage = "call" /\ setup.wrapped /\ e.what = "http")
  BY <1>2, Escaped DEF Raise
<1> QED BY <1>1, <1>2

---------------------------------------------------------------------------
(* Init and every step keep the pieces and the generator.                   *)

LEMMA GatewayInitially == Init => GatewayInv
<1> SUFFICES ASSUME Init PROVE GatewayInv OBVIOUS
<1>1. PiecesPlaced BY DEF Init, PiecesPlaced, Numbered
<1>2. GeneratorHeld BY NoneSettled DEF Init, GeneratorHeld, Settled, NoGen
<1>3. Outcome BY NotAnswer DEF Init, Outcome
<1>4. InputRead BY DEF Init, InputRead
<1>5. HomeFixed BY DEF Init, HomeFixed, LocationFits
<1> QED BY <1>1, <1>2, <1>3, <1>4, <1>5 DEF GatewayInv

\* A program that runs has a generator that is live, or none yet.
LEMMA RunningLive ==
  ASSUME GatewayInv, Running
  PROVE  /\ setup.program = "wsgi"
         /\ stage = "call" \/ (stage \in {"drain", "handed"} /\ gen.made /\ ~gen.ended)
         /\ stage = "call" => gen = NoGen
         /\ stage # "call" => Live
  BY DEF Running, GatewayInv, GeneratorHeld, Live

LEMMA SendPlaced == ASSUME GatewayInv, NEW p, Send(p) PROVE PiecesPlaced' /\ GeneratorHeld'
<1>1. stage' = "call" /\ gen' = NoGen /\ emitted' = <<>> /\ late' = {} /\ received' = <<>> /\ output' = <<>>
  BY DEF Send
<1>2. Settled(gen') BY <1>1, NoneSettled
<1>3. Numbered(emitted') BY <1>1 DEF Numbered
<1> QED BY <1>1, <1>2, <1>3 DEF PiecesPlaced, GeneratorHeld, Settled

LEMMA WritePlaced == ASSUME GatewayInv, Write PROVE PiecesPlaced' /\ GeneratorHeld'
<1>1. emitted' = Append(emitted, Len(emitted) + 1) /\ output' = Append(output, Len(emitted) + 1)
      /\ UNCHANGED <<setup, stage, gen, given, received, result>>
  BY DEF Write, Piece, Environ
<1>2. Numbered(emitted') /\ Len(emitted') = Len(emitted) + 1 /\ Len(emitted) \in Nat
  BY <1>1, NumberedAppend DEF GatewayInv, PiecesPlaced, Numbered
<1>3. GeneratorHeld' BY <1>1 DEF GatewayInv, GeneratorHeld, Live
<1>4. CASE stage # "handed"
  <2>1. stage \in {"call", "drain"} /\ late' = late /\ setup.program = "wsgi"
    BY <1>4, RunningLive DEF Write
  <2> QED BY <1>1, <1>2, <1>3, <2>1 DEF GatewayInv, PiecesPlaced
<1>5. CASE stage = "handed"
  <2>1. late' = late \cup {Len(emitted) + 1} BY <1>5 DEF Write, Piece
  <2>2. Live /\ Live' BY <1>1, <1>5, RunningLive DEF Write, Live
  <2>3. Got'
    <3>1. (1..Len(emitted')) \ late' = (1..Len(emitted)) \ late BY <1>2, <2>1
    <3> QED BY <1>1, <1>5, <2>2, <3>1 DEF GatewayInv, PiecesPlaced, Got
  <2>4. late' \subseteq 1..Len(emitted')
    <3>1. late \subseteq 1..Len(emitted) BY DEF GatewayInv, PiecesPlaced
    <3>2. 1..Len(emitted') = (1..Len(emitted)) \cup {Len(emitted) + 1} BY <1>2
    <3> QED BY <2>1, <3>1, <3>2
  <2> QED BY <1>1, <1>2, <1>3, <1>5, <2>2, <2>3, <2>4 DEF PiecesPlaced
<1> QED BY <1>4, <1>5

LEMMA ReturnGeneratorPlaced ==
  ASSUME GatewayInv, ReturnGenerator PROVE PiecesPlaced' /\ GeneratorHeld'
<1>1. stage = "call" /\ Returned(output, captured, <<>>, TRUE) /\ UNCHANGED <<emitted, late, received>>
  BY DEF ReturnGenerator
<1>2. gen' = [made |-> TRUE, ended |-> FALSE, closed |-> 0]
      /\ \/ stage' = "handed" /\ result' = Answer /\ given' = <<>> /\ output = <<>>
         \/ stage' = "drain" /\ UNCHANGED result /\ output' = output
  BY <1>1, GeneratorReturned
<1>3. output = emitted /\ late = {} /\ received = <<>> /\ Numbered(emitted) BY <1>1 DEF GatewayInv, PiecesPlaced
<1>4. gen' \in Generators /\ gen'.made /\ ~gen'.ended /\ gen'.closed = 0 BY <1>2 DEF Generators
<1>5. GeneratorHeld' BY <1>2, <1>4 DEF GeneratorHeld, Live
<1>6. emitted = <<>> => Got' BY <1>1, <1>3, WholeGot
<1> QED BY <1>1, <1>2, <1>3, <1>4, <1>5, <1>6 DEF PiecesPlaced, Live

\* What the caller gets of a live generator comes after all it has.
LEMMA YieldPlaced == ASSUME GatewayInv, Yield PROVE PiecesPlaced' /\ GeneratorHeld'
<1>1. emitted' = Append(emitted, Len(emitted) + 1) /\ UNCHANGED <<stage, gen, given, late, result>>
  BY DEF Yield, Piece
<1>2. Numbered(emitted') /\ Len(emitted') = Len(emitted) + 1 /\ Len(emitted) \in Nat
  BY <1>1, NumberedAppend DEF GatewayInv, PiecesPlaced, Numbered
<1>3. GeneratorHeld' BY <1>1 DEF GatewayInv, GeneratorHeld, Live
<1>4. stage \in {"drain", "handed"} /\ Live
  BY RunningLive DEF Yield, NoGen
<1>5. CASE stage = "drain"
  <2>1. output' = Append(output, Len(emitted) + 1) /\ received' = received BY <1>5 DEF Yield, Piece
  <2> QED BY <1>1, <1>2, <1>3, <1>5, <2>1 DEF GatewayInv, PiecesPlaced
<1>6. CASE stage = "handed"
  <2>1. received' = Append(received, Len(emitted) + 1) BY <1>6 DEF Yield, Piece
  <2>2. Got /\ late \subseteq 1..Len(emitted) BY <1>4, <1>6 DEF GatewayInv, PiecesPlaced
  <2>3. \A i \in 1..Len(received) : received[i] \in 1..Len(emitted)
    <3>1. Range(received) = {received[i] : i \in 1..Len(received)} BY <2>2, RangeEquality DEF Got
    <3> QED BY <2>2, <3>1 DEF Got
  <2>4. /\ received' \in Seq(Nat) /\ Len(received') = Len(received) + 1 /\ Len(received) \in Nat
        /\ \A i \in 1..Len(received) : received'[i] = received[i]
        /\ received'[Len(received) + 1] = Len(emitted) + 1
    BY <1>2, <2>1, <2>2, AppendProperties DEF Got
  <2>5. \A i, j \in 1..Len(received') : i < j => received'[i] < received'[j]
    <3> SUFFICES ASSUME NEW i \in 1..Len(received'), NEW j \in 1..Len(received'), i < j
                 PROVE  received'[i] < received'[j]
      OBVIOUS
    <3>1. i \in 1..Len(received) BY <2>4
    <3>2. CASE j \in 1..Len(received) BY <2>2, <2>4, <3>1, <3>2 DEF Got
    <3>3. CASE j = Len(received) + 1
      <4>1. received[i] < Len(emitted) + 1 BY <1>2, <2>3, <3>1
      <4> QED BY <2>4, <3>1, <3>3, <4>1
    <3> QED BY <2>4, <3>2, <3>3
  <2>6. Range(received') = Range(received) \cup {Len(emitted) + 1}
    <3>1. Range(received) = {received[i] : i \in 1..Len(received)} BY <2>2, RangeEquality DEF Got
    <3>2. Range(received') = {received'[i] : i \in 1..Len(received')} BY <2>4, RangeEquality
    <3> QED BY <2>4, <3>1, <3>2
  <2>7. Range(received') = (1..Len(emitted')) \ late'
    BY <1>1, <1>2, <2>2, <2>6 DEF Got
  <2>8. Got' BY <2>4, <2>5, <2>7 DEF Got
  <2>9. Live' /\ late' \subseteq 1..Len(emitted') BY <1>1, <1>2, <1>4, <2>2 DEF Live
  <2> QED BY <1>1, <1>2, <1>3, <1>6, <2>8, <2>9 DEF PiecesPlaced
<1> QED BY <1>4, <1>5, <1>6

LEMMA EndPlaced == ASSUME GatewayInv, End PROVE PiecesPlaced' /\ GeneratorHeld'
<1>1. stage \in {"drain", "handed"} /\ Live /\ gen \in Generators /\ UNCHANGED <<emitted, late, received>>
  BY RunningLive DEF End, NoGen, GatewayInv, GeneratorHeld
<1>2. CASE stage = "drain"
  <2>1. gen' = Drained(FALSE) /\ Complete(output) BY <1>2 DEF End
  <2>2. output = emitted /\ late = {} /\ Numbered(emitted) BY <1>2 DEF GatewayInv, PiecesPlaced
  <2>3. Settled(gen') BY <1>1, <2>1, DrainedSettled DEF Live
  <2>4. Exc("IndexError", TRUE) # Answer BY NotAnswer
  <2>5. Ends BY <1>1, <2>1, <2>2, <2>3, <2>4 DEF Ends, Complete, Hand
  <2> QED BY <2>5, EndsPlaced
<1>3. CASE stage = "handed"
  <2>1. gen' = [gen EXCEPT !.ended = TRUE] /\ UNCHANGED <<stage, output, given, result>> BY <1>3 DEF End
  <2>2. gen' \in Generators /\ gen'.made /\ gen'.ended /\ gen'.closed = 0
    BY <1>1, <2>1, GenSet DEF Live, Generators
  <2>3. GeneratorHeld' BY <1>1, <1>3, <2>1, <2>2 DEF GatewayInv, GeneratorHeld, Live
  <2> QED BY <1>1, <1>3, <2>1, <2>2, <2>3 DEF GatewayInv, PiecesPlaced, Live, Got
<1> QED BY <1>1, <1>2, <1>3

LEMMA TakePlaced == ASSUME GatewayInv, Take PROVE PiecesPlaced' /\ GeneratorHeld'
<1>1. stage = "handed" /\ ~Live /\ received' = given /\ stage' = "over"
      /\ UNCHANGED <<gen, emitted, late, result>>
  BY DEF Take, HandedGenerator, Live
<1>2. received' = emitted' /\ late' = {} /\ Numbered(emitted') BY <1>1 DEF GatewayInv, PiecesPlaced
<1>3. Got' BY <1>2, WholeGot
<1>4. gen.made => gen.closed = 1 BY <1>1 DEF GatewayInv, GeneratorHeld, Generators, Live
<1> QED BY <1>1, <1>2, <1>3, <1>4 DEF GatewayInv, PiecesPlaced, GeneratorHeld, Live

LEMMA ClosePlaced == ASSUME GatewayInv, CloseAnswer PROVE PiecesPlaced' /\ GeneratorHeld'
<1>1. stage = "handed" /\ Live /\ gen' = [gen EXCEPT !.closed = 1] /\ stage' = "over"
      /\ UNCHANGED <<emitted, late, received, result>> /\ gen \in Generators
  BY DEF CloseAnswer, HandedGenerator, Live, GatewayInv, GeneratorHeld
<1>2. gen' \in Generators /\ gen'.made /\ gen'.closed = 1 BY <1>1, GenSet DEF Live, Generators
<1>3. Got' BY <1>1 DEF GatewayInv, PiecesPlaced, Got
<1> QED BY <1>1, <1>2, <1>3 DEF GatewayInv, PiecesPlaced, GeneratorHeld

\* The steps that break an answer off or hand it over as a list.
Ending ==
  \/ \E k \in 0..1 : CallError(k)
  \/ RaiseError \/ Broken
  \/ \E w \in {"plain", "fussy", "http"} : (StartOver(w) /\ ~setup.catch) \/ Fail(w)
  \/ \E k \in 0..MaxPieces : ReturnList(k)
  \/ \E status \in {"502", "504"} : Refused(status)
  \/ \E ok \in BOOLEAN : ReadAnswer(ok)

LEMMA EndingEnds == ASSUME GatewayInv, Ending PROVE Ends
<1>1. ASSUME NEW k \in 0..1, CallError(k) PROVE Ends
  BY <1>1, Responded DEF CallError, Rest
<1>2. CASE RaiseError
  <2>1. Exc("http", TRUE) # Answer /\ Copy(Exc("http", TRUE)) # Answer BY NotAnswer
  <2> QED BY <1>2, <2>1, Raised DEF RaiseError, Rest
<1>3. ASSUME NEW w \in {"plain", "fussy", "http"}, StartOver(w), ~setup.catch PROVE Ends
  <2>1. Copy(Exc(w, TRUE)) # Answer /\ Copy(Copy(Exc(w, TRUE))) # Answer
    BY NotAnswer DEF Copy, Exc, Answer
  <2>2. Running /\ Raise(Copy(Exc(w, TRUE))) /\ late' = late BY <1>3 DEF StartOver, Rest
  <2> QED BY <2>1, <2>2, Raised, RunningLive
<1>4. ASSUME NEW w \in {"plain", "fussy", "http"}, Fail(w) PROVE Ends
  <2>1. Exc(w, TRUE) # Answer /\ Copy(Exc(w, TRUE)) # Answer BY NotAnswer
  <2>2. Running /\ Raise(Exc(w, TRUE)) /\ late' = late BY <1>4 DEF Fail, Rest
  <2> QED BY <2>1, <2>2, Raised, RunningLive
<1>5. ASSUME NEW k \in 0..MaxPieces, ReturnList(k) PROVE Ends
  <2>1. k \in Nat BY GatewayAssumption
  <2> QED BY <1>5, <2>1, ListEnds DEF ReturnList
<1>6. CASE Broken
  <2>1. Exc("plain", TRUE) # Answer BY NotAnswer
  <2> QED BY <1>6, <2>1, Escaped DEF Broken, Request
<1>7. ASSUME NEW status \in {"502", "504"}, Refused(status) PROVE Ends
  <2>1. stage = "call" /\ setup.program = "client" /\ late' = late /\ emitted' = Fresh(1)
    BY <1>7 DEF Refused, Request
  <2>2. emitted' = emitted \o Fresh(1) BY <2>1, NumberedFresh DEF GatewayInv, PiecesPlaced
  <2>3. PICK capt : Returned(output, capt, Fresh(1), FALSE) BY <1>7 DEF Refused
  <2> QED BY <2>1, <2>2, <2>3, ListEnds
<1>8. ASSUME NEW ok \in BOOLEAN, ReadAnswer(ok) PROVE Ends
  <2>1. stage = "client" /\ late' = late BY <1>8 DEF ReadAnswer
  <2>2. CASE ok
    <3>1. emitted' = Fresh(1) /\ Returned(output, captured, Fresh(1), FALSE) BY <1>8, <2>2 DEF ReadAnswer
    <3>2. emitted' = emitted \o Fresh(1) BY <2>1, <3>1, NumberedFresh DEF GatewayInv, PiecesPlaced
    <3> QED BY <2>1, <3>1, <3>2, ListEnds
  <2>3. CASE ~ok
    <3>1. Exc("plain", TRUE) # Answer BY NotAnswer
    <3> QED BY <1>8, <2>1, <2>3, <3>1, Escaped DEF ReadAnswer
  <2> QED BY <2>2, <2>3
<1> QED BY <1>1, <1>2, <1>3, <1>4, <1>5, <1>6, <1>7, <1>8 DEF Ending

LEMMA StepKinds ==
  ASSUME [Next]_vars
  PROVE  \/ Ending \/ Answered \/ Write \/ ReturnGenerator \/ Yield \/ End \/ Take \/ CloseAnswer
         \/ ReadInput \/ Start \/ UNCHANGED vars
         \/ \E p \in {"/a", "/b"} : Send(p)
         \/ \E w \in {"plain", "fussy", "http"} : StartOver(w) /\ setup.catch
  BY DEF Next, Ending

LEMMA StepPlaced == ASSUME GatewayInv, [Next]_vars PROVE PiecesPlaced' /\ GeneratorHeld'
<1>1. ASSUME NEW w, StartOver(w), setup.catch
      PROVE  PiecesPlaced' /\ GeneratorHeld'
  <2>1. UNCHANGED <<setup, stage, output, gen, given, emitted, late, received, result>>
    BY <1>1 DEF StartOver, Environ
  <2> QED BY <2>1 DEF GatewayInv, PiecesPlaced, GeneratorHeld, Live, Got
<1>2. CASE ReadInput \/ Start \/ UNCHANGED vars
  <2>1. UNCHANGED <<setup, stage, output, gen, given, emitted, late, received, result>>
    BY <1>2 DEF ReadInput, Start, Environ, vars
  <2> QED BY <2>1 DEF GatewayInv, PiecesPlaced, GeneratorHeld, Live, Got
<1>3. CASE Answered
  <2>1. /\ stage = "call" /\ setup.program = "client" /\ stage' = "client"
        /\ UNCHANGED <<setup, output, gen, given, emitted, late, received, result>>
    BY <1>3 DEF Answered, Request
  <2> QED BY <2>1 DEF GatewayInv, PiecesPlaced, GeneratorHeld
<1> QED
  BY <1>1, <1>2, <1>3, StepKinds, EndingEnds, EndsPlaced, SendPlaced, WritePlaced,
     ReturnGeneratorPlaced, YieldPlaced, EndPlaced, TakePlaced, ClosePlaced

---------------------------------------------------------------------------
(* The outcome, the input and the home of a redirection.                    *)

\* Only the client has a connection; what it answers itself has its status.
LEMMA StepOutcome == ASSUME GatewayInv, [Next]_vars PROVE Outcome'
<1>1. Outcome /\ NoExc # Answer BY NotAnswer DEF GatewayInv
<1>2. ASSUME setup.program # "client", UNCHANGED <<setup, conn>>,
             \/ Ends
             \/ UNCHANGED <<stage, result>>
             \/ stage = "call" /\ stage' = "drain" /\ UNCHANGED result
             \/ stage' = "handed" /\ result' = Answer
             \/ stage' = "over"
      PROVE  Outcome'
  BY <1>1, <1>2 DEF Outcome, Ends
<1>3. ASSUME NEW p, Send(p) PROVE Outcome' BY <1>1, <1>3 DEF Send, Outcome
<1>4. CASE Answered BY <1>1, <1>4 DEF Answered, Request, Outcome
<1>5. CASE Ending
  <2>1. Ends BY <1>5, EndingEnds
  <2>2. CASE Broken
    <3>1. conn' = "open" /\ setup' = setup /\ setup.program = "client" /\ stage' = "over"
          /\ result' = Exc("plain", TRUE)
      BY <2>2 DEF Broken, Request, Escape
    <3>2. Exc("plain", TRUE) # Answer BY NotAnswer
    <3> QED BY <3>1, <3>2 DEF Outcome
  <2>3. ASSUME NEW status \in {"502", "504"}, Refused(status) PROVE Outcome'
    <3>1. conn' = "open" /\ setup' = setup /\ setup.program = "client"
          /\ captured' = <<[status |-> status, exc |-> NoExc]>>
      BY <2>3 DEF Refused, Request
    <3> QED BY <2>1, <3>1 DEF Outcome, Ends
  <2>4. ASSUME NEW ok \in BOOLEAN, ReadAnswer(ok) PROVE Outcome'
    <3>1. stage = "client" /\ setup' = setup /\ setup.program = "client"
      BY <1>1, <2>4 DEF ReadAnswer, Environ, Outcome
    <3>2. CASE ok BY <2>1, <2>4, <3>1, <3>2 DEF ReadAnswer, Outcome, Ends
    <3>3. CASE ~ok
      <4>1. stage' = "over" /\ result' = Exc("plain", TRUE) BY <2>4, <3>3 DEF ReadAnswer, Escape
      <4>2. Exc("plain", TRUE) # Answer BY NotAnswer
      <4> QED BY <3>1, <4>1, <4>2 DEF Outcome
    <3> QED BY <3>2, <3>3
  <2>5. CASE (\E k \in 0..1 : CallError(k)) \/ RaiseError
    BY <1>2, <2>1, <2>5 DEF CallError, RaiseError, Rest, NoConn
  <2>6. ASSUME NEW w, (StartOver(w) /\ ~setup.catch) \/ Fail(w) PROVE Outcome'
    BY <1>2, <2>1, <2>6 DEF StartOver, Fail, Rest, NoConn, Running
  <2>7. ASSUME NEW k, ReturnList(k) PROVE Outcome'
    BY <1>2, <2>1, <2>7 DEF ReturnList, Environ, NoConn, Running
  <2> QED BY <1>5, <2>2, <2>3, <2>4, <2>5, <2>6, <2>7 DEF Ending
<1>6. CASE Write \/ Yield \/ Start \/ ReadInput \/ \E w \in {"plain", "fussy", "http"} : StartOver(w) /\ setup.catch
  <2>1. setup.program # "client" /\ UNCHANGED <<setup, conn>> /\ UNCHANGED <<stage, result>>
    BY <1>6 DEF Write, Yield, Start, ReadInput, StartOver, Running, Environ, NoConn
  <2> QED BY <1>2, <2>1
<1>7. CASE ReturnGenerator
  <2>1. stage = "call" /\ setup.program # "client" /\ UNCHANGED <<setup, conn>>
        /\ Returned(output, captured, <<>>, TRUE)
    BY <1>7 DEF ReturnGenerator, Running, Environ, NoConn
  <2> QED BY <1>2, <2>1, GeneratorReturned
<1>8. CASE End
  <2>1. setup.program # "client" /\ UNCHANGED <<setup, conn>>
    BY <1>8 DEF End, Running, Environ, NoConn
  <2> QED BY <1>2, <1>8, <2>1 DEF End, Complete, Hand
<1>9. CASE Take \/ CloseAnswer
  <2>1. stage = "handed" /\ stage' = "over" /\ UNCHANGED <<setup, conn, captured, result>>
    BY <1>9 DEF Take, CloseAnswer, HandedGenerator, Environ, NoConn
  <2> QED BY <1>1, <2>1 DEF Outcome
<1>10. CASE UNCHANGED vars BY <1>1, <1>10 DEF vars, Outcome
<1> QED BY <1>3, <1>4, <1>5, <1>6, <1>7, <1>8, <1>9, <1>10, StepKinds

\* Of all steps only sending, asking the server and reading the input touch
\* what was read of it; an answer that is under way is not begun again.
LEMMA StepReads ==
  ASSUME GatewayInv, [Next]_vars
  PROVE  \/ UNCHANGED vars
         \/ \E p \in {"/a", "/b"} : Send(p)
         \/ Request /\ stage' \in {"client", "handed", "over"}
         \/ ReadInput
         \/ /\ UNCHANGED <<setup, pos, paths, carried>>
            /\ stage # "idle" /\ stage' # "idle"
            /\ stage' = "call" => stage = "call" /\ UNCHANGED <<home, location>>
<1>1. Ending => stage' \in {"handed", "over"} BY EndingEnds DEF Ends
<1>2. CASE Ending
  <2>1. CASE (\E k \in 0..1 : CallError(k)) \/ RaiseError
             \/ (\E w \in {"plain", "fussy", "http"} : (StartOver(w) /\ ~setup.catch) \/ Fail(w))
    BY <1>1, <1>2, <2>1, RunningLive DEF CallError, RaiseError, StartOver, Fail, Rest, NoConn
  <2>2. CASE \E k \in 0..MaxPieces : ReturnList(k)
    BY <1>1, <1>2, <2>2 DEF ReturnList, Environ, NoConn
  <2>3. CASE Broken \/ \E status \in {"502", "504"} : Refused(status)
    BY <1>1, <1>2, <2>3 DEF Broken, Refused, Request
  <2>4. CASE \E ok \in BOOLEAN : ReadAnswer(ok)
    BY <1>1, <1>2, <2>4 DEF ReadAnswer, Environ
  <2> QED BY <1>2, <2>1, <2>2, <2>3, <2>4 DEF Ending
<1>3. CASE Answered BY <1>3 DEF Answered
<1>4. CASE Write \/ Yield \/ Start \/ \E w \in {"plain", "fussy", "http"} : StartOver(w) /\ setup.catch
  <2>1. stage # "idle" BY <1>4, RunningLive DEF Write, Yield, Start, StartOver
  <2> QED BY <1>4, <2>1 DEF Write, Yield, Start, StartOver, Environ, NoConn
<1>5. CASE ReturnGenerator
  <2>1. stage = "call" /\ Returned(output, captured, <<>>, TRUE) /\ Environ /\ NoConn
    BY <1>5 DEF ReturnGenerator
  <2>2. stage' \in {"handed", "drain"} BY <2>1, GeneratorReturned
  <2> QED BY <2>1, <2>2 DEF Environ, NoConn
<1>6. CASE End
  <2>1. stage \in {"drain", "handed"} BY <1>6, RunningLive DEF End, NoGen
  <2>2. stage' \in {"handed", "over"} BY <1>6, <2>1 DEF End, Complete, Hand
  <2> QED BY <1>6, <2>1, <2>2 DEF End, Environ, NoConn
<1>7. CASE Take \/ CloseAnswer
  BY <1>7 DEF Take, CloseAnswer, HandedGenerator, Environ, NoConn
<1> QED BY <1>2, <1>3, <1>4, <1>5, <1>6, <1>7, StepKinds

LEMMA StepRead == ASSUME GatewayInv, [Next]_vars PROVE InputRead'
<1>1. InputRead /\ Announced \in Nat BY GatewayAssumption DEF GatewayInv
<1>2. ASSUME NEW p \in {"/a", "/b"}, Send(p) PROVE InputRead'
  <2>1. paths' \in Seq({"/a", "/b"}) /\ paths' # <<>> /\ Len(paths') = Len(paths) + 1
    BY <1>1, <1>2, AppendProperties DEF Send, InputRead
  <2>2. Len(paths') = 1 => paths = <<>> BY <1>1, <2>1, EmptySeq DEF InputRead
  <2>3. setup.seekable \/ Len(paths') = 1 => pos' = 0
    BY <1>1, <1>2, <2>2 DEF Send, Rewound, InputRead
  <2>4. pos' \in Nat BY <1>1, <1>2 DEF Send, Rewound, InputRead
  <2> QED BY <1>1, <1>2, <2>1, <2>3, <2>4 DEF Send, InputRead, Fresher
<1>3. CASE Request /\ stage' \in {"client", "handed", "over"}
  BY <1>1, <1>3 DEF Request, InputRead, Fresher
<1>4. CASE ReadInput BY <1>1, <1>4 DEF ReadInput, InputRead, Fresher, Running
<1>5. CASE /\ UNCHANGED <<setup, pos, paths, carried>>
           /\ stage # "idle" /\ stage' # "idle"
           /\ stage' = "call" => stage = "call" /\ UNCHANGED <<home, location>>
  BY <1>1, <1>5 DEF InputRead, Fresher
<1>6. CASE UNCHANGED vars BY <1>1, <1>6 DEF vars, InputRead, Fresher
<1> QED BY <1>2, <1>3, <1>4, <1>5, <1>6, StepReads

\* An exception that answers.
LEMMA RespondedHome ==
  ASSUME GatewayInv, stage = "call", NEW k, NEW e, Respond(k, e), UNCHANGED <<setup, paths>>,
         stage' \in {"handed", "over"}, setup.relative => Answers
  PROVE  HomeFixed'
<1>1. /\ setup \in Setups /\ paths \in Seq({"/a", "/b"}) /\ paths # <<>> /\ HomeFixed
  BY DEF GatewayInv, InputRead
<1>2. Len(paths) \in Nat \ {0} /\ Last(paths) \in {"/a", "/b"} /\ (Len(paths) = 1 => Last(paths) = paths[1])
  BY <1>1, EmptySeq, ElementOfSeq DEF Last
<1>3. location' \in {home', "none"} BY <1>1 DEF Respond, HomeFixed
<1>4. CASE ~(setup.relative \/ setup.slash) BY <1>4 DEF HomeFixed, LocationFits, Answers
<1>5. CASE setup.slash
  <2>1. home' = Last(paths) /\ ~setup.relative BY <1>1, <1>5 DEF Respond, Moved, Setups
  <2> QED BY <1>3, <1>5, <2>1 DEF HomeFixed, LocationFits, Answers
<1>6. CASE setup.relative /\ ~setup.slash
  <2>1. home' = IF home = "any" THEN Last(paths) ELSE home BY <1>6 DEF Respond, Moved
  <2>2. home' = paths[1] /\ home' # "any" BY <1>1, <1>2, <1>6, <2>1 DEF HomeFixed
  <2> QED BY <1>1, <1>3, <1>6, <2>2 DEF HomeFixed, LocationFits, Answers
<1> QED BY <1>4, <1>5, <1>6

LEMMA StepHome == ASSUME GatewayInv, [Next]_vars PROVE HomeFixed'
<1>1. HomeFixed /\ InputRead /\ setup \in Setups BY DEF GatewayInv, InputRead
<1>2. ASSUME NEW p \in {"/a", "/b"}, Send(p) PROVE HomeFixed'
  <2>1. paths \in Seq({"/a", "/b"}) /\ paths' = Append(paths, p) /\ stage \in {"idle", "over"}
    BY <1>1, <1>2 DEF Send, InputRead
  <2>2. paths' # <<>> /\ Len(paths') = Len(paths) + 1 /\ (paths # <<>> => paths'[1] = paths[1])
    BY <2>1, AppendProperties, EmptySeq
  <2>3. location' = "none" /\ stage' = "call" /\ UNCHANGED <<setup, home>> BY <1>2 DEF Send
  <2>4. stage = "idle" => Len(paths') = 1 BY <1>1, <2>2 DEF InputRead
  <2> QED BY <1>1, <2>1, <2>2, <2>3, <2>4 DEF HomeFixed, LocationFits, Answers
<1>3. CASE ~(setup.relative \/ setup.slash) /\ ~\E p \in {"/a", "/b"} : Send(p)
  <2>1. stage' \in {"idle", "call"} => location' = "none"
    <3>1. ReadInput => UNCHANGED <<stage, location>> BY DEF ReadInput
    <3> QED BY <1>1, <1>3, <3>1, StepReads DEF HomeFixed, vars
  <2>2. setup' = setup BY <1>3, StepReads DEF Request, ReadInput, vars
  <2> QED BY <1>3, <2>1, <2>2 DEF HomeFixed, LocationFits, Answers
<1>4. CASE setup.relative \/ setup.slash
  <2>1. setup.program \in {"error", "raises"} BY <1>1, <1>4 DEF Setups
  <2>2. ASSUME NEW k \in 0..1, CallError(k) PROVE HomeFixed'
    <3>1. Ending BY <2>2 DEF Ending
    <3>2. stage' \in {"handed", "over"} BY <3>1, EndingEnds DEF Ends
    <3>3. setup.relative => Answers BY <2>2 DEF CallError, Answers
    <3> QED BY <2>2, <3>2, <3>3, RespondedHome DEF CallError, Rest
  <2>3. CASE RaiseError
    <3>1. Ending BY <2>3 DEF Ending
    <3>2. stage' \in {"handed", "over"} BY <3>1, EndingEnds DEF Ends
    <3>3. CASE setup.wrapped
      <4>1. PICK k \in 0..1 : Respond(k, Exc("http", TRUE))
        BY <2>3, <3>3 DEF RaiseError, Raise, Exc
      <4> QED BY <2>3, <3>2, <3>3, <4>1, RespondedHome DEF RaiseError, Rest, Answers
    <3>4. CASE ~setup.wrapped
      <4>1. UNCHANGED <<setup, paths, home, location>> /\ stage = "call" /\ setup.program = "raises"
        BY <2>3, <3>4 DEF RaiseError, Raise, Rest
      <4> QED BY <1>1, <3>2, <3>4, <4>1 DEF HomeFixed, LocationFits, Answers
    <3> QED BY <3>3, <3>4
  <2>4. CASE Take \/ CloseAnswer
    BY <1>1, <2>4 DEF Take, CloseAnswer, HandedGenerator, Environ, HomeFixed, LocationFits, Answers
  <2>5. CASE UNCHANGED vars BY <1>1, <2>5 DEF vars, HomeFixed, LocationFits, Answers
  <2>6. stage = "client" => FALSE BY <2>1 DEF GatewayInv, Outcome
  <2>7. ~Running /\ ~Request BY <2>1 DEF Running, Request
  <2> QED BY <1>2, <2>2, <2>3, <2>4, <2>5, <2>6, <2>7
         DEF Next, ReadInput, Start, Write, ReturnGenerator, Yield, End, StartOver, Fail, ReturnList,
             Answered, Broken, Refused, ReadAnswer
<1> QED BY <1>2, <1>3, <1>4

---------------------------------------------------------------------------
LEMMA StepInv == ASSUME GatewayInv, [Next]_vars PROVE GatewayInv'
  BY StepPlaced, StepOutcome, StepRead, StepHome DEF GatewayInv

(* For each stage it is known where the pieces are, who closes the          *)
(* generator, what was read of the input and where a redirection leads.     *)
THEOREM GatewayInvariant == Spec => []GatewayInv
<1>1. Init => GatewayInv BY GatewayInitially
<1>2. GatewayInv /\ [Next]_vars => GatewayInv' BY StepInv
<1> QED BY <1>1, <1>2, PTL DEF Spec

(* No piece of an answer is lost or out of order, however the application   *)
(* mixes write, yield, start_response and lists.                            *)
THEOREM PiecesArrive == Spec => []NothingLost
<1>1. ASSUME GatewayInv PROVE NothingLost
  <2>1. Range(emitted) = 1..Len(emitted) BY <1>1, NumberedRange DEF GatewayInv, PiecesPlaced
  <2>2. Got => DOMAIN received = 1..Len(received) BY LenProperties DEF Got
  <2> QED BY <1>1, <2>1, <2>2 DEF GatewayInv, PiecesPlaced, NothingLost, Got
<1> QED BY <1>1, GatewayInvariant, PTL

(* A generator is closed exactly once, and a connection with its answer.    *)
THEOREM AllReleased == Spec => []Released
<1>1. ASSUME GatewayInv PROVE Released
  <2>1. gen.closed \in 0..1 BY <1>1 DEF GatewayInv, GeneratorHeld, Generators
  <2> QED BY <1>1, <2>1 DEF GatewayInv, GeneratorHeld, Outcome, Released, Live
<1> QED BY <1>1, GatewayInvariant, PTL

(* A request that is sent once, or can be sought, is sent with its body.    *)
THEOREM WholeBodySent == Spec => []SentWhole
<1>1. GatewayInv => SentWhole BY DEF GatewayInv, InputRead, SentWhole, Fresher
<1> QED BY <1>1, GatewayInvariant, PTL

(* An exception with a location leads each request where it should.         *)
THEOREM LocationsFit == Spec => []LocationFits
<1>1. GatewayInv => LocationFits BY DEF GatewayInv, HomeFixed
<1> QED BY <1>1, GatewayInvariant, PTL
---------------------------------------------------------------------------
(***************************************************************************)
(* WsgifyStack.  What the layers of wsgify set on their responses reaches   *)
(* the client once, in an answer of one layer (src/webob/dec.py 91-151).    *)
(* The layers of a stack set their cookies one after the other, so each     *)
(* holds an interval of them.  The inductive invariant is that the marks    *)
(* between the intervals exist, and that the message on its way up has all  *)
(* that lies above the mark of the layer it comes to.                       *)
(***************************************************************************)

---------------------------------------------------------------------------
(* The inductive invariant.                                                 *)

\* The cookies lo+1 .. hi, in this order, and in any order.
Interval(s, lo, hi) ==
  s \in Seq(Nat) /\ lo <= hi /\ Len(s) = hi - lo /\ \A i \in 1..Len(s) : s[i] = lo + i
Spread(s, lo, hi) ==
  /\ s \in Seq(Nat) /\ lo <= hi /\ Len(s) = hi - lo
  /\ \A c \in (lo + 1)..hi : \E i \in 1..Len(s) : s[i] = c

By(layer, body) == \A i \in 1..Len(body) : body[i] = layer
Plain == [cookies |-> <<>>, body |-> <<0>>]

\* The message m is on its way to a layer, or the client, with the mark lo.
Arriving(m, lo) ==
  /\ m \in Message /\ Spread(m.cookies, lo, cookies)
  /\ \E layer \in 0..Depth : By(layer, m.body)

\* The top of the stack runs its function, or waits for the plain application.
Serving(lo) ==
  /\ slot = Top.mine /\ slot \in 1..Len(resps)
  /\ Interval(resps[slot].cookies, lo, cookies) /\ By(Level, resps[slot].body)
  /\ Top.pc = "waiting" <=> out # <<>>
  /\ out # <<>> => out = <<Plain>>
  /\ Top.got # 0 => Top.got \in 1..Len(resps) /\ Top.got # slot /\ resps[Top.got] = Plain

Marked(marks) ==
  /\ marks \in [0..Depth -> 0..cookies] /\ marks[0] = 0
  /\ \A i \in 1..Len(stack) :
       stack[i].pc = "passing" => Interval(stack[i].add, marks[i - 1], marks[i])
  /\ \A i \in 1..(Len(stack) - 1) : stack[i].pc = "passing"
  /\ stack # <<>> /\ Top.pc # "passing" => Serving(marks[Level - 1])
  /\ stack # <<>> /\ Top.pc = "passing" => out # <<>>
  /\ out # <<>> /\ (stack = <<>> \/ Top.pc = "passing") => Arriving(out[1], marks[Level])

Typed ==
  /\ cookies \in Nat
  /\ resps \in Seq(Message)
  /\ stack \in Seq(Frame) /\ Len(stack) <= Depth
  /\ out \in Seq(Message) /\ Len(out) <= 1

Whole == Typed /\ \E marks : Marked(marks)
StackInv == nested \in BOOLEAN /\ OwnResponse /\ (~nested => Whole)

---------------------------------------------------------------------------
(* Intervals of cookies.                                                    *)

LEMMA IntervalEmpty == ASSUME NEW n \in Nat PROVE Interval(<<>>, n, n)
  BY DEF Interval

LEMMA IntervalAppend ==
  ASSUME NEW s, NEW lo \in Nat, NEW hi \in Nat, Interval(s, lo, hi)
  PROVE  Interval(Append(s, hi + 1), lo, hi + 1)
<1>1. s \in Seq(Nat) /\ hi + 1 \in Nat BY DEF Interval
<1>2. /\ Append(s, hi + 1) \in Seq(Nat) /\ Len(Append(s, hi + 1)) = Len(s) + 1 /\ Len(s) \in Nat
      /\ \A i \in 1..Len(s) : Append(s, hi + 1)[i] = s[i]
      /\ Append(s, hi + 1)[Len(s) + 1] = hi + 1
  BY <1>1, AppendProperties
<1> QED BY <1>2 DEF Interval

LEMMA IntervalSpread ==
  ASSUME NEW s, NEW lo \in Nat, NEW hi \in Nat, Interval(s, lo, hi)
  PROVE  Spread(s, lo, hi)
<1>1. ASSUME NEW c \in (lo + 1)..hi PROVE \E i \in 1..Len(s) : s[i] = c
  <2>1. c - lo \in 1..Len(s) BY DEF Interval
  <2>2. s[c - lo] = lo + (c - lo) BY <2>1 DEF Interval
  <2> QED BY <2>1, <2>2
<1> QED BY <1>1 DEF Interval, Spread

\* The cookies of a layer come after those of the layers above it.
LEMMA SpreadConcat ==
  ASSUME NEW s, NEW t, NEW lo \in Nat, NEW mid \in Nat, NEW hi \in Nat,
         Spread(s, mid, hi), Spread(t, lo, mid)
  PROVE  Spread(s \o t, lo, hi)
<1>1. s \in Seq(Nat) /\ t \in Seq(Nat) BY DEF Spread
<1>2. /\ s \o t \in Seq(Nat) /\ Len(s \o t) = Len(s) + Len(t) /\ Len(s) \in Nat /\ Len(t) \in Nat
      /\ \A i \in 1..(Len(s) + Len(t)) : (s \o t)[i] = IF i <= Len(s) THEN s[i] ELSE t[i - Len(s)]
  BY <1>1, ConcatProperties
<1>3. ASSUME NEW c \in (lo + 1)..hi PROVE \E i \in 1..Len(s \o t) : (s \o t)[i] = c
  <2>1. CASE c > mid
    <3>1. c \in (mid + 1)..hi BY <1>3, <2>1
    <3>2. PICK i \in 1..Len(s) : s[i] = c BY <3>1 DEF Spread
    <3> QED BY <1>2, <3>2
  <2>2. CASE c <= mid
    <3>1. c \in (lo + 1)..mid BY <1>3, <2>2
    <3>2. PICK i \in 1..Len(t) : t[i] = c BY <3>1 DEF Spread
    <3>3. Len(s) + i \in 1..Len(s \o t) /\ (s \o t)[Len(s) + i] = t[i] BY <1>2, <3>2
    <3> QED BY <3>2, <3>3
  <2> QED BY <2>1, <2>2
<1>4. Len(s \o t) = hi - lo /\ lo <= hi BY <1>2 DEF Spread
<1> QED BY <1>2, <1>3, <1>4 DEF Spread

LEMMA MessageMade ==
  ASSUME NEW c \in Seq(Nat), NEW body \in Seq(0..Depth)
  PROVE  [cookies |-> c, body |-> body] \in Message
  BY DEF Message

LEMMA ByAppend ==
  ASSUME NEW layer \in 0..Depth, NEW body \in Seq(0..Depth), By(layer, body)
  PROVE  Append(body, layer) \in Seq(0..Depth) /\ By(layer, Append(body, layer))
  BY AppendProperties DEF By

---------------------------------------------------------------------------
(* What a step does to the stack.                                           *)

LEMMA StackBelow ==
  ASSUME stack \in Seq(Frame), stack # <<>>
  PROVE  /\ Level \in Nat \ {0} /\ Top \in Frame
         /\ Below \in Seq(Frame) /\ Len(Below) = Level - 1
         /\ \A i \in 1..(Level - 1) : Below[i] = stack[i]
<1>1. Level \in Nat \ {0} BY EmptySeq DEF Level
<1>2. Top \in Frame BY <1>1 DEF Top, Level
<1>3. \A i \in 1..(Level - 1) : stack[i] \in Frame BY <1>1 DEF Level
<1>4. /\ Below \in Seq(Frame) /\ Len(Below) = (IF 1 <= Level - 1 THEN Level - 1 - 1 + 1 ELSE 0)
      /\ \A i \in 1..(Level - 1 - 1 + 1) : Below[i] = stack[1 + i - 1]
  <2>1. 1 \in Int /\ Level - 1 \in Int BY <1>1
  <2> QED BY <1>3, <2>1, SubSeqProperties DEF Below, Level
<1> QED BY <1>1, <1>2, <1>4

\* An activation ends with an answer for the layer below.
LEMMA Finished ==
  ASSUME Typed, NEW marks, Marked(marks), stack # <<>>, NEW m, Arriving(m, marks[Level - 1]),
         Finish(m), cookies' = cookies, resps' \in Seq(Message)
  PROVE  Whole'
<1>1. /\ stack' = Below /\ out' = <<m>> /\ m \in Message
      /\ Level \in Nat \ {0} /\ Level <= Depth /\ Level' = Level - 1 /\ Depth \in Nat
      /\ Below \in Seq(Frame) /\ \A i \in 1..(Level - 1) : Below[i] = stack[i]
  BY StackBelow, StackAssumption DEF Typed, Finish, Arriving, Level
<1>2. Typed' BY <1>1 DEF Typed, Level
<1>3. out' # <<>> /\ out'[1] = m BY <1>1
<1>4. stack' # <<>> => Level' \in 1..(Level - 1) /\ Top' = stack[Level - 1] /\ Top'.pc = "passing"
  BY <1>1, EmptySeq DEF Marked, Level, Top
<1>5. \A lo : Arriving(m, lo) => Arriving(m, lo)' BY DEF Arriving
<1>6. Marked(marks)'
  <2>1. marks \in [0..Depth -> 0..cookies'] /\ marks[0] = 0 BY DEF Marked
  <2>2. \A i \in 1..Len(stack') : stack'[i].pc = "passing" /\ Interval(stack'[i].add, marks[i - 1], marks[i])
    <3> SUFFICES ASSUME NEW i \in 1..Len(stack')
                 PROVE  stack'[i].pc = "passing" /\ Interval(stack'[i].add, marks[i - 1], marks[i])
      OBVIOUS
    <3>1. i \in 1..(Len(stack) - 1) /\ i \in 1..Len(stack) BY <1>1 DEF Level
    <3>2. stack'[i] = stack[i] BY <1>1, <3>1 DEF Level
    <3> QED BY <3>1, <3>2 DEF Marked
  <2>3. Arriving(out[1], marks[Level])' BY <1>1, <1>3, <1>5
  <2>4. Len(stack') \in Nat BY <1>1 DEF Level
  <2> QED BY <1>3, <1>4, <2>1, <2>2, <2>3, <2>4 DEF Marked
<1> QED BY <1>2, <1>6 DEF Whole

LEMMA Serves ==
  ASSUME StackInv, ~nested, FunctionRuns
  PROVE  /\ Typed /\ stack # <<>> /\ Level \in 1..Depth /\ out = <<>> /\ Depth \in Nat
         /\ Top \in Frame /\ Top.pc = "running"
         /\ \E marks : Marked(marks) /\ Serving(marks[Level - 1])
         /\ resps[slot] \in Message
<1>1. Typed /\ stack # <<>> /\ out = <<>> /\ Top.pc = "running" BY DEF StackInv, Whole, FunctionRuns
<1>2. PICK marks : Marked(marks) BY DEF StackInv, Whole
<1>3. Serving(marks[Level - 1]) BY <1>1, <1>2 DEF Marked
<1>4. Level \in 1..Depth /\ Depth \in Nat /\ Top \in Frame
  BY <1>1, StackBelow, StackAssumption DEF Typed, Level
<1>5. resps[slot] \in Message BY <1>1, <1>3 DEF Serving, Typed
<1> QED BY <1>1, <1>2, <1>3, <1>4, <1>5

\* The function ends with the answer m, which has all cookies from its mark on.
LEMMA FrameEnding ==
  ASSUME StackInv, ~nested, FunctionRuns, NEW m \in Message, Finish(m), cookies' = cookies,
         resps' \in Seq(Message),
         m.cookies = resps[slot].cookies,
         \E layer \in 0..Depth : By(layer, m.body)
  PROVE  Whole'
<1>1. PICK marks : Marked(marks) /\ Serving(marks[Level - 1]) BY Serves
<1>2. Typed /\ stack # <<>> /\ Level - 1 \in 0..Depth /\ cookies \in Nat BY Serves DEF Typed
<1>3. marks[Level - 1] \in Nat BY <1>1, <1>2 DEF Marked
<1>4. Spread(m.cookies, marks[Level - 1], cookies)
  BY <1>1, <1>2, <1>3, IntervalSpread DEF Serving
<1> QED BY <1>1, <1>2, <1>4, Finished DEF Arriving

LEMMA StackInitially == StackInit => StackInv
<1> SUFFICES ASSUME StackInit PROVE StackInv OBVIOUS
<1> DEFINE marks == [i \in 0..Depth |-> 0]
<1>1. Depth \in Nat \ {0} BY StackAssumption
<1>2. Blank \in Message BY DEF Blank, Message
<1>3. NewFrame(1) \in Frame BY DEF NewFrame, Frame
<1>4. /\ resps = <<Blank>> /\ slot = 1 /\ stack = <<NewFrame(1)>> /\ out = <<>> /\ cookies = 0
      /\ nested = FALSE /\ used = <<1, 1>>
  BY DEF StackInit
<1>5. Typed BY <1>1, <1>2, <1>3, <1>4 DEF Typed
<1>6. Level = 1 /\ Top.mine = 1 /\ Top.got = 0 /\ Top.pc = "running" BY <1>4 DEF Level, Top, NewFrame
<1>7. marks \in [0..Depth -> 0..cookies] /\ marks[0] = 0 BY <1>1, <1>4
<1>8. Serving(marks[Level - 1])
  BY <1>4, <1>6, <1>7, IntervalEmpty DEF Serving, Blank, By
<1>9. Marked(marks) BY <1>4, <1>6, <1>7, <1>8 DEF Marked, Level, NewFrame
<1> QED BY <1>4, <1>5, <1>9 DEF StackInv, Whole, OwnResponse

---------------------------------------------------------------------------
(* The steps, until a layer calls another by get_response.                  *)

\* The function changes its own response, and sets no more cookies than one.
LEMMA OwnChanged ==
  ASSUME StackInv, ~nested, FunctionRuns, NEW m \in Message, resps' = [resps EXCEPT ![slot] = m],
         By(Level, m.body), UNCHANGED <<slot, stack, out>>,
         \/ m.cookies = resps[slot].cookies /\ cookies' = cookies
         \/ m.cookies = Append(resps[slot].cookies, cookies + 1) /\ cookies' = cookies + 1
  PROVE  Whole'
<1>1. PICK marks : Marked(marks) /\ Serving(marks[Level - 1]) BY Serves
<1>2. /\ Typed /\ stack # <<>> /\ Level \in 1..Depth /\ Depth \in Nat /\ cookies \in Nat /\ out = <<>>
      /\ Top.pc = "running" /\ Level' = Level /\ Top' = Top /\ Len(stack) = Level
  BY Serves DEF Typed, Level, Top
<1>3. /\ slot \in 1..Len(resps) /\ resps' \in Seq(Message) /\ Len(resps') = Len(resps)
      /\ resps'[slot] = m /\ \A i \in 1..Len(resps) : i # slot => resps'[i] = resps[i]
  BY <1>1, <1>2, ExceptSeq DEF Serving, Typed
<1>4. marks[Level - 1] \in Nat /\ cookies' \in Nat /\ cookies <= cookies' BY <1>1, <1>2 DEF Marked
<1>5. Interval(m.cookies, marks[Level - 1], cookies')
  BY <1>1, <1>2, <1>4, IntervalAppend DEF Serving
<1>6. Typed' BY <1>2, <1>3, <1>4 DEF Typed
<1>7. Serving(marks[Level - 1])' BY <1>1, <1>2, <1>3, <1>5 DEF Serving
<1>8. marks \in [0..Depth -> 0..cookies'] BY <1>1, <1>2, <1>4 DEF Marked
<1>9. Marked(marks)' BY <1>1, <1>2, <1>7, <1>8 DEF Marked
<1> QED BY <1>6, <1>9 DEF Whole

LEMMA TopChanged ==
  ASSUME stack \in Seq(Frame), stack # <<>>, NEW f \in Frame
  PROVE  /\ WithTop(f) \in Seq(Frame) /\ Len(WithTop(f)) = Level /\ WithTop(f)[Level] = f
         /\ WithTop(f) # <<>> /\ Level \in Nat \ {0}
         /\ \A i \in 1..(Level - 1) : WithTop(f)[i] = stack[i]
<1>1. Level \in 1..Len(stack) /\ Level \in Nat \ {0} BY EmptySeq DEF Level
<1>2. /\ WithTop(f) \in Seq(Frame) /\ Len(WithTop(f)) = Len(stack)
      /\ \A i \in 1..Len(stack) : WithTop(f)[i] = IF i = Level THEN f ELSE stack[i]
  BY <1>1, ExceptSeq DEF WithTop
<1> QED BY <1>1, <1>2, EmptySeq DEF Level

\* The top of the stack changes its state, and the response it has got.
LEMMA TopServes ==
  ASSUME Typed, NEW marks, Marked(marks), Serving(marks[Level - 1]), stack # <<>>, Top.pc # "passing",
         NEW f \in Frame, f.mine = Top.mine, f.pc # "passing", stack' = WithTop(f),
         UNCHANGED <<slot, cookies>>, out' \in Seq(Message), Len(out') <= 1,
         f.pc = "waiting" <=> out' # <<>>, out' # <<>> => out' = <<Plain>>,
         \/ resps' = resps /\ f.got = Top.got
         \/ resps' = Append(resps, Plain) /\ f.got = Len(resps) + 1
  PROVE  Whole'
<1>1. /\ stack' \in Seq(Frame) /\ Len(stack') = Level /\ stack'[Level] = f /\ stack' # <<>>
      /\ Level \in Nat \ {0} /\ Level <= Depth /\ \A i \in 1..(Level - 1) : stack'[i] = stack[i]
  BY TopChanged DEF Typed, Level
<1>2. Level' = Level /\ Top' = f BY <1>1 DEF Level, Top
<1>3. Plain \in Message
  <2>1. 0 \in 0..Depth BY StackAssumption
  <2> QED BY <2>1 DEF Plain, Message
<1>4. /\ resps' \in Seq(Message) /\ Len(resps) \in Nat /\ Len(resps) <= Len(resps')
      /\ \A i \in 1..Len(resps) : resps'[i] = resps[i]
  <2>1. resps \in Seq(Message) /\ Len(resps) \in Nat BY DEF Typed
  <2>2. CASE resps' = resps BY <2>1, <2>2
  <2>3. CASE resps' = Append(resps, Plain)
    <3>1. Len(resps') = Len(resps) + 1 BY <1>3, <2>1, <2>3, AppendProperties
    <3> QED BY <1>3, <2>1, <2>3, <3>1, AppendProperties
  <2> QED BY <2>2, <2>3
<1>5. Typed' BY <1>1, <1>2, <1>4 DEF Typed, Level
<1>6. slot \in 1..Len(resps) /\ resps'[slot] = resps[slot] BY <1>4 DEF Serving
<1>7. f.got # 0 => f.got \in 1..Len(resps') /\ f.got # slot /\ resps'[f.got] = Plain
  <2>1. CASE resps' = resps /\ f.got = Top.got BY <2>1 DEF Serving
  <2>2. CASE resps' = Append(resps, Plain) /\ f.got = Len(resps) + 1
    <3>1. Len(resps') = Len(resps) + 1 /\ resps'[Len(resps) + 1] = Plain
      BY <1>3, <2>2, AppendProperties DEF Typed
    <3> QED BY <1>4, <1>6, <2>2, <3>1
  <2> QED BY <2>1, <2>2
<1>8. Serving(marks[Level - 1])' BY <1>2, <1>4, <1>6, <1>7 DEF Serving
<1>9. \A i \in 1..(Len(stack') - 1) : stack'[i].pc = "passing" /\ Interval(stack'[i].add, marks[i - 1], marks[i])
  <2> SUFFICES ASSUME NEW i \in 1..(Len(stack') - 1)
               PROVE  stack'[i].pc = "passing" /\ Interval(stack'[i].add, marks[i - 1], marks[i])
    OBVIOUS
  <2>1. i \in 1..(Len(stack) - 1) /\ i \in 1..Len(stack) BY <1>1 DEF Level
  <2> QED BY <1>1, <2>1 DEF Marked, Level
<1>10. \A i \in 1..Len(stack') : stack'[i].pc = "passing" => Interval(stack'[i].add, marks[i - 1], marks[i])
  BY <1>1, <1>9
<1>11. Marked(marks)' BY <1>1, <1>2, <1>8, <1>9, <1>10 DEF Marked
<1> QED BY <1>5, <1>11 DEF Whole

LEMMA GetResponseWhole == ASSUME StackInv, ~nested', GetResponse PROVE Whole'
<1>1. FunctionRuns /\ ~nested /\ Level = Depth
  <2>1. FunctionRuns /\ ~nested /\ ~(Level < Depth) BY DEF GetResponse
  <2> QED BY <2>1, Serves
<1> DEFINE f == [Top EXCEPT !.pc = "waiting"]
<1>2. PICK marks : Marked(marks) /\ Serving(marks[Level - 1]) BY <1>1, Serves
<1>3. Typed /\ stack # <<>> /\ Top \in Frame /\ Top.pc = "running" /\ Level \in 1..Depth BY <1>1, Serves
<1>4. f \in Frame /\ f.mine = Top.mine /\ f.pc = "waiting" /\ f.got = Top.got BY <1>3 DEF Frame
<1>5. Len(WithTop(f)) = Level BY <1>3, <1>4, TopChanged DEF Typed
<1>6. stack' = WithTop(f) /\ out' = <<Plain>> /\ UNCHANGED <<resps, slot, cookies>>
  BY <1>1, <1>3, <1>5 DEF GetResponse, Invoke, Plain
<1>7. Plain \in Message
  <2>1. 0 \in 0..Depth BY StackAssumption
  <2> QED BY <2>1 DEF Plain, Message
<1>8. out' \in Seq(Message) /\ Len(out') <= 1 /\ out' # <<>> BY <1>6, <1>7
<1> HIDE DEF f
<1> QED BY <1>2, <1>3, <1>4, <1>6, <1>8, TopServes

LEMMA ReceiveWhole == ASSUME StackInv, ~nested, Receive PROVE Whole'
<1>1. PICK marks : Marked(marks) BY DEF StackInv, Whole
<1>2. Typed /\ stack # <<>> /\ out # <<>> /\ Top.pc = "waiting" BY DEF StackInv, Whole, Receive
<1>3. Serving(marks[Level - 1]) /\ out = <<Plain>> BY <1>1, <1>2 DEF Marked, Serving
<1> DEFINE f == [Top EXCEPT !.pc = "running", !.got = Len(resps) + 1]
<1>4. Top \in Frame /\ Len(resps) + 1 \in Nat BY <1>2, StackBelow DEF Typed
<1>5. f \in Frame /\ f.mine = Top.mine /\ f.pc = "running" /\ f.got = Len(resps) + 1 BY <1>4 DEF Frame
<1>6. stack' = WithTop(f) /\ out' = <<>> /\ resps' = Append(resps, Plain) /\ UNCHANGED <<slot, cookies>>
  BY <1>3 DEF Receive
<1>7. out' \in Seq(Message) /\ Len(out') <= 1 BY <1>6
<1> HIDE DEF f
<1> QED BY <1>1, <1>2, <1>3, <1>5, <1>6, <1>7, TopServes

\* The next layer starts with a response of its own; the mark of the layer
\* that returned it is set.
LEMMA ReturnAppWhole == ASSUME StackInv, ~nested, ReturnApp PROVE Whole'
<1>1. FunctionRuns /\ cookies' = cookies BY DEF ReturnApp
<1>2. PICK marks : Marked(marks) /\ Serving(marks[Level - 1]) BY <1>1, Serves
<1>3. /\ Typed /\ stack # <<>> /\ Top \in Frame /\ Level \in 1..Depth /\ Depth \in Nat /\ cookies \in Nat
      /\ resps[slot] \in Message /\ out = <<>>
  BY <1>1, Serves DEF Typed
<1> DEFINE add == resps[slot].cookies
           f == [Top EXCEPT !.pc = "passing", !.add = add]
<1>4. add \in Seq(Nat) BY <1>3 DEF Message
<1>5. CASE ~(Level < Depth)
  <2>1. stack' = Below /\ out' = <<[cookies |-> add, body |-> <<0>>]>> /\ resps' = resps
    BY <1>1, <1>5 DEF ReturnApp, Finish
  <2>2. [cookies |-> add, body |-> <<0>>] \in Message
    <3>1. 0 \in 0..Depth BY <1>3
    <3> QED BY <1>4, <3>1 DEF Message
  <2>3. By(0, <<0>>) /\ 0 \in 0..Depth BY <1>3 DEF By
  <2> QED BY <1>1, <1>3, <2>1, <2>2, <2>3, FrameEnding DEF Typed, Finish
<1>6. CASE Level < Depth
  <2>1. f \in Frame /\ f.pc = "passing" /\ f.add = add BY <1>3, <1>4 DEF Frame
  <2>2. /\ WithTop(f) \in Seq(Frame) /\ Len(WithTop(f)) = Level /\ WithTop(f)[Level] = f
        /\ \A i \in 1..(Level - 1) : WithTop(f)[i] = stack[i]
    BY <1>3, <2>1, TopChanged DEF Typed
  <2>3. Len(resps) \in Nat /\ Blank \in Message /\ NewFrame(Len(resps) + 1) \in Frame
    BY <1>3, SMTT(30) DEF Typed, Blank, Message, NewFrame, Frame
  <2>4. /\ resps' = Append(resps, Blank) /\ slot' = Len(resps) + 1 /\ out' = <<>>
        /\ stack' = Append(WithTop(f), NewFrame(Len(resps) + 1))
    BY <1>3, <1>6, <2>2 DEF ReturnApp, Invoke
  <2> HIDE DEF f, add
  <2>5. /\ resps' \in Seq(Message) /\ slot' \in 1..Len(resps') /\ resps'[slot'] = Blank
    BY <1>3, <2>3, <2>4, AppendProperties DEF Typed
  <2>6. /\ stack' \in Seq(Frame) /\ Len(stack') = Level + 1 /\ stack'[Level + 1] = NewFrame(Len(resps) + 1)
        /\ stack'[Level] = f /\ \A i \in 1..(Level - 1) : stack'[i] = stack[i]
    BY <1>3, <2>2, <2>3, <2>4, AppendProperties
  <2>7. Level' = Level + 1 /\ Top' = NewFrame(Len(resps) + 1) /\ stack' # <<>>
    BY <1>3, <2>6 DEF Level, Top
  <2>8. Typed' BY <1>1, <1>3, <1>6, <2>4, <2>5, <2>6, <2>7 DEF Typed, Level
  <2>9. PICK now :
          /\ now \in [0..Depth -> 0..cookies'] /\ now[0] = 0 /\ now[Level] = cookies
          /\ \A i \in 0..(Level - 1) : now[i] = marks[i]
    <3> DEFINE n == [marks EXCEPT ![Level] = cookies]
    <3>1. /\ n \in [0..Depth -> 0..cookies'] /\ n[0] = 0 /\ n[Level] = cookies
          /\ \A i \in 0..(Level - 1) : n[i] = marks[i]
      BY <1>1, <1>2, <1>3 DEF Marked
    <3> QED BY <3>1
  <2>10. (Level - 1)' = Level BY <1>3, <2>7
  <2>11. Serving(now[Level - 1])'
    <3>1. Interval(<<>>, cookies, cookies) BY <1>3, IntervalEmpty
    <3> QED BY <1>1, <2>4, <2>5, <2>7, <2>9, <2>10, <3>1 DEF Serving, NewFrame, Blank, By
  <2>12. \A i \in 1..Level : stack'[i].pc = "passing" /\ Interval(stack'[i].add, now[i - 1], now[i])
    <3> SUFFICES ASSUME NEW i \in 1..Level
                 PROVE  stack'[i].pc = "passing" /\ Interval(stack'[i].add, now[i - 1], now[i])
      OBVIOUS
    <3>1. CASE i = Level
      <4>1. Interval(add, now[Level - 1], now[Level]) BY <1>2, <1>3, <2>9 DEF Serving, add
      <4> QED BY <2>1, <2>6, <3>1, <4>1
    <3>2. CASE i # Level
      <4>1. i \in 1..(Level - 1) /\ i \in 1..Len(stack) /\ i \in 1..(Len(stack) - 1)
        BY <1>3, <3>2 DEF Level
      <4>2. now[i] = marks[i] /\ now[i - 1] = marks[i - 1] BY <1>3, <2>9, <4>1
      <4> QED BY <1>2, <2>6, <4>1, <4>2 DEF Marked
    <3> QED BY <3>1, <3>2
  <2>13. NewFrame(Len(resps) + 1).pc = "running" BY DEF NewFrame
  <2>14. Marked(now)'
    <3>1. \A i \in 1..Len(stack') : stack'[i].pc = "passing" => Interval(stack'[i].add, now[i - 1], now[i])
      BY <1>3, <2>6, <2>12, <2>13
    <3>2. \A i \in 1..(Len(stack') - 1) : stack'[i].pc = "passing" BY <1>3, <2>6, <2>12
    <3> QED BY <2>4, <2>7, <2>9, <2>11, <2>13, <3>1, <3>2 DEF Marked
  <2> QED BY <2>8, <2>14 DEF Whole
<1> QED BY <1>5, <1>6

\* The cookies of the layer that passes on come after those of the answer.
LEMMA PassOnWhole == ASSUME StackInv, ~nested, PassOn PROVE Whole'
<1>1. PICK marks : Marked(marks) BY DEF StackInv, Whole
<1>2. /\ Typed /\ stack # <<>> /\ out # <<>> /\ Top.pc = "passing" /\ UNCHANGED <<resps, cookies>>
      /\ Finish([out[1] EXCEPT !.cookies = @ \o Top.add])
  BY DEF StackInv, Whole, PassOn
<1>3. /\ Level \in 1..Depth /\ Depth \in Nat /\ cookies \in Nat /\ Top \in Frame
  BY <1>2, StackBelow, StackAssumption DEF Typed, Level
<1>4. Arriving(out[1], marks[Level]) /\ Interval(Top.add, marks[Level - 1], marks[Level])
  <2>1. Level \in 1..Len(stack) /\ Top = stack[Level] BY <1>2, <1>3 DEF Level, Top
  <2> QED BY <1>1, <1>2, <2>1 DEF Marked
<1>5. marks[Level] \in Nat /\ marks[Level - 1] \in Nat BY <1>1, <1>3 DEF Marked
<1> DEFINE m == [out[1] EXCEPT !.cookies = @ \o Top.add]
<1>6. out[1] \in Message BY <1>4 DEF Arriving
<1>7. m.cookies = out[1].cookies \o Top.add /\ m.body = out[1].body BY <1>6 DEF Message
<1>8. Spread(m.cookies, marks[Level - 1], cookies)
  BY <1>3, <1>4, <1>5, <1>7, IntervalSpread, SpreadConcat DEF Arriving
<1>9. m \in Message BY <1>6, <1>7, <1>8 DEF Message, Spread
<1>10. Arriving(m, marks[Level - 1]) BY <1>4, <1>7, <1>8, <1>9 DEF Arriving
<1> HIDE DEF m
<1> QED BY <1>1, <1>2, <1>10, Finished DEF Typed, m

\* The other ways to end answer with the cookies of the function's response.
LEMMA EndingWhole ==
  ASSUME StackInv, ~nested, ReturnNone \/ ReturnText \/ ReturnResponse \/ ReturnGot
  PROVE  Whole'
<1>1. FunctionRuns /\ cookies' = cookies BY DEF ReturnNone, ReturnText, ReturnResponse, ReturnGot
<1>2. PICK marks : Marked(marks) /\ Serving(marks[Level - 1]) BY <1>1, Serves
<1>3. /\ Typed /\ Level \in 1..Depth /\ Depth \in Nat /\ resps[slot] \in Message /\ Level \in 0..Depth
  BY <1>1, Serves
<1>4. By(Level, resps[slot].body) /\ slot \in 1..Len(resps) BY <1>2 DEF Serving
<1>5. resps[slot].cookies \in Seq(Nat) /\ resps[slot].body \in Seq(0..Depth) BY <1>3 DEF Message
<1>6. CASE ReturnNone
  BY <1>1, <1>3, <1>4, <1>6, FrameEnding DEF ReturnNone, Typed
<1>7. CASE ReturnText
  <2> DEFINE m == [resps[slot] EXCEPT !.body = Append(@, Level)]
  <2>1. Append(resps[slot].body, Level) \in Seq(0..Depth) /\ By(Level, Append(resps[slot].body, Level))
    BY <1>3, <1>4, <1>5, ByAppend
  <2>2. m \in Message /\ m.cookies = resps[slot].cookies /\ By(Level, m.body)
    BY <1>3, <2>1 DEF Message
  <2>3. resps' = [resps EXCEPT ![slot] = m] /\ Finish(m) BY <1>7 DEF ReturnText
  <2> HIDE DEF m
  <2>4. resps' \in Seq(Message) BY <1>3, <1>4, <2>2, <2>3, ExceptSeq DEF Typed
  <2> QED BY <1>1, <1>3, <2>2, <2>3, <2>4, FrameEnding
<1>8. CASE ReturnResponse
  <2> DEFINE m == Merge([Blank EXCEPT !.body = <<Level>>])
  <2>1. <<Level>> \in Seq(0..Depth) /\ By(Level, <<Level>>) BY <1>3 DEF By
  <2>2. <<>> \o resps[slot].cookies = resps[slot].cookies BY <1>5, ConcatEmptySeq
  <2>3. m = [cookies |-> resps[slot].cookies, body |-> <<Level>>]
    <3>1. [Blank EXCEPT !.body = <<Level>>] = [cookies |-> <<>>, body |-> <<Level>>] BY DEF Blank
    <3>2. Merge([cookies |-> <<>>, body |-> <<Level>>])
            = [cookies |-> <<>> \o resps[slot].cookies, body |-> <<Level>>] BY DEF Merge
    <3> QED BY <2>2, <3>1, <3>2
  <2>4. m \in Message BY <1>5, <2>1, <2>3, MessageMade
  <2>5. resps' = Append(resps, m) /\ Finish(m) BY <1>8 DEF ReturnResponse
  <2> HIDE DEF m
  <2>6. resps' \in Seq(Message) BY <1>3, <2>4, <2>5, AppendProperties DEF Typed
  <2> QED BY <1>1, <1>3, <2>1, <2>3, <2>4, <2>5, <2>6, FrameEnding
<1>9. CASE ReturnGot
  <2>1. Top.got \in 1..Len(resps) /\ resps[Top.got] = Plain BY <1>2, <1>9 DEF ReturnGot, Serving
  <2> DEFINE m == Merge(resps[Top.got])
  <2>2. <<>> \o resps[slot].cookies = resps[slot].cookies BY <1>5, ConcatEmptySeq
  <2>3. m = [cookies |-> resps[slot].cookies, body |-> <<0>>] BY <2>1, <2>2 DEF Merge, Plain
  <2>4. 0 \in 0..Depth /\ <<0>> \in Seq(0..Depth) /\ By(0, <<0>>) BY <1>3 DEF By
  <2>5. m \in Message BY <1>5, <2>3, <2>4 DEF Message
  <2>6. resps' = [resps EXCEPT ![Top.got] = m] /\ Finish(m) BY <1>9 DEF ReturnGot
  <2> HIDE DEF m
  <2>7. resps' \in Seq(Message) BY <1>3, <2>1, <2>5, <2>6, ExceptSeq DEF Typed
  <2> QED BY <1>1, <1>3, <2>3, <2>4, <2>5, <2>6, <2>7, FrameEnding
<1> QED BY <1>6, <1>7, <1>8, <1>9

\* Below a function that runs nobody waits: the exception reaches the server.
LEMMA RaiseWhole == ASSUME StackInv, ~nested, RaiseThrough PROVE Whole'
<1>1. FunctionRuns /\ UNCHANGED <<resps, slot, out, cookies>> BY DEF RaiseThrough
<1>2. PICK marks : Marked(marks) BY DEF StackInv, Whole
<1>3. Typed /\ out = <<>> BY <1>1, Serves
<1>4. {i \in 1..(Level - 1) : stack[i].pc = "waiting"} = {} BY <1>2 DEF Marked, Level
<1>5. stack' = <<>> BY <1>4 DEF RaiseThrough
<1>6. Typed' BY <1>1, <1>3, <1>5, StackAssumption DEF Typed
<1>7. Marked(marks)' BY <1>1, <1>2, <1>3, <1>5 DEF Marked
<1> QED BY <1>6, <1>7 DEF Whole

LEMMA StepWhole == ASSUME StackInv, [StackNext]_stackVars, ~nested' PROVE Whole'
<1>1. ~nested BY DEF StackNext, SetCookie, WriteBody, GetResponse, Receive, ReturnNone, ReturnText,
                    ReturnResponse, ReturnGot, ReturnApp, PassOn, RaiseThrough, stackVars, StackInv
<1>2. ASSUME FunctionRuns PROVE /\ resps[slot] \in Message /\ slot \in 1..Len(resps) /\ By(Level, resps[slot].body)
                           /\ Level \in 0..Depth /\ cookies \in Nat
  <2>1. PICK marks : Marked(marks) /\ Serving(marks[Level - 1]) BY <1>1, <1>2, Serves
  <2> QED BY <1>1, <1>2, <2>1, Serves DEF Serving, Typed
<1>3. CASE SetCookie
  <2>1. resps[slot] \in Message /\ By(Level, resps[slot].body) /\ cookies + 1 \in Nat
    BY <1>2, <1>3 DEF SetCookie
  <2> DEFINE m == [resps[slot] EXCEPT !.cookies = Append(@, cookies + 1)]
  <2>2. Append(resps[slot].cookies, cookies + 1) \in Seq(Nat) BY <2>1, AppendProperties DEF Message
  <2>3. m \in Message /\ m.cookies = Append(resps[slot].cookies, cookies + 1) /\ m.body = resps[slot].body
    BY <2>1, <2>2 DEF Message
  <2>4. FunctionRuns /\ resps' = [resps EXCEPT ![slot] = m] /\ cookies' = cookies + 1
        /\ UNCHANGED <<slot, stack, out>>
    BY <1>3 DEF SetCookie
  <2> HIDE DEF m
  <2> QED BY <1>1, <2>1, <2>3, <2>4, OwnChanged
<1>4. CASE WriteBody
  <2>1. resps[slot] \in Message /\ By(Level, resps[slot].body) /\ Level \in 0..Depth BY <1>2, <1>4 DEF WriteBody
  <2> DEFINE m == [resps[slot] EXCEPT !.body = Append(@, Level)]
  <2>2. Append(resps[slot].body, Level) \in Seq(0..Depth) /\ By(Level, Append(resps[slot].body, Level))
    BY <2>1, ByAppend DEF Message
  <2>3. m \in Message /\ m.cookies = resps[slot].cookies /\ By(Level, m.body) BY <2>1, <2>2 DEF Message
  <2>4. FunctionRuns /\ resps' = [resps EXCEPT ![slot] = m] /\ cookies' = cookies
        /\ UNCHANGED <<slot, stack, out>>
    BY <1>4 DEF WriteBody
  <2> HIDE DEF m
  <2> QED BY <1>1, <2>3, <2>4, OwnChanged
<1>5. CASE UNCHANGED stackVars
  <2>1. Whole BY <1>1 DEF StackInv
  <2> QED BY <1>5, <2>1 DEF stackVars, Whole, Typed, Marked, Serving, Arriving, Level, Top
<1> QED BY <1>1, <1>3, <1>4, <1>5, GetResponseWhole, ReceiveWhole, ReturnAppWhole, PassOnWhole,
           EndingWhole, RaiseWhole DEF StackNext

---------------------------------------------------------------------------
LEMMA StepOwn == ASSUME StackInv, [StackNext]_stackVars PROVE OwnResponse' /\ nested' \in BOOLEAN
<1>1. ASSUME FunctionRuns, ~nested PROVE Top.mine = slot
  <2>1. PICK marks : Serving(marks[Level - 1]) BY <1>1, Serves
  <2> QED BY <2>1 DEF Serving
<1>2. CASE ReturnNone \/ ReturnText BY <1>1, <1>2 DEF ReturnNone, ReturnText, OwnResponse, StackInv
<1>3. CASE UNCHANGED used /\ (nested' = nested \/ GetResponse)
  BY <1>3 DEF GetResponse, OwnResponse, StackInv
<1> QED BY <1>2, <1>3 DEF StackNext, SetCookie, WriteBody, GetResponse, Receive, ReturnResponse, ReturnGot, ReturnApp,
                          PassOn, RaiseThrough, stackVars

(* The marks between the layers' cookies exist in every state.              *)
THEOREM StackInvariant == StackSpec => []StackInv
<1>1. StackInit => StackInv BY StackInitially
<1>2. StackInv /\ [StackNext]_stackVars => StackInv' BY StepWhole, StepOwn DEF StackInv
<1> QED BY <1>1, <1>2, PTL DEF StackSpec

(* What reaches the client is of one layer and has every cookie once, for   *)
(* any number of layers, cookies and calls.                                 *)
THEOREM AnswersAreWhole == StackSpec => []AnsweredWhole
<1>1. ASSUME StackInv PROVE AnsweredWhole
  <2>1. OwnResponse BY <1>1 DEF StackInv
  <2>2. ASSUME Delivered, ~nested PROVE Spread(out[1].cookies, 0, cookies) /\ \E layer \in 0..Depth : By(layer, out[1].body)
    <3>1. PICK marks : Marked(marks) BY <1>1, <2>2 DEF StackInv, Whole
    <3>2. Level = 0 /\ marks[0] = 0 BY <2>2, <3>1 DEF Delivered, Level, Marked
    <3> QED BY <2>2, <3>1, <3>2 DEF Delivered, Marked, Arriving
  <2>3. CookiesSentOnce
    <3> SUFFICES ASSUME Delivered, ~nested
                 PROVE  /\ Len(out[1].cookies) = cookies
                        /\ \A c \in 1..cookies : \E i \in 1..cookies : out[1].cookies[i] = c
      BY DEF CookiesSentOnce
    <3>1. Spread(out[1].cookies, 0, cookies) /\ cookies \in Nat BY <1>1, <2>2 DEF StackInv, Whole, Typed
    <3> QED BY <3>1 DEF Spread
  <2>4. OneAuthor BY <2>2 DEF OneAuthor, By
  <2> QED BY <2>1, <2>3, <2>4 DEF AnsweredWhole
<1> QED BY <1>1, StackInvariant, PTL
=============================================================================
