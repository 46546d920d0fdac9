--------------------------- MODULE MCRequestBody ---------------------------
(* RequestBody on a small instance: an original and one copy of it, bodies  *)
(* of up to three bytes, a read-ahead of two, a tempfile over one byte.     *)
EXTENDS RequestBody

MCSize == [v \in Values |-> 2]
============================================================================
