---------------------------- MODULE MCHeaderList ----------------------------
(***************************************************************************)
(* What tells two states of HeaderList apart for TLC.  op and ret only show *)
(* the last call: no guard reads them and no invariant either, and the      *)
(* action properties, which TLC checks on every step it generates, read     *)
(* them after the step alone.                                               *)
(***************************************************************************)
EXTENDS HeaderList

WithoutLastCall == <<part, items, view, held, cc, byhand>>
=============================================================================
