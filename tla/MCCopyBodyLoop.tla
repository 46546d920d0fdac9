-------------------------- MODULE MCCopyBodyLoop --------------------------
(* CopyBodyLoop with pieces of two bytes, a read-ahead of three and a        *)
(* temporary file over three, so that a body of five bytes takes three       *)
(* turns, crosses the limit in the second and is read ahead across turns.    *)
EXTENDS CopyBodyLoop

MCSize == [v \in Values |-> 5]
============================================================================
