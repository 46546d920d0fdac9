----------------------------- MODULE MCServing -----------------------------
(* Serving with four kinds of page: of a length that is known, with a strong *)
(* tag and with a weak one (that only dates tell versions apart is so of     *)
(* files); of an unknown length; and one that is itself the page of an error.*)
EXTENDS Serving

MCPages ==
  {[kind |-> "gen", status |-> 200, known |-> TRUE, tag |-> "strong"],
   [kind |-> "object", status |-> 200, known |-> TRUE, tag |-> "weak"],
   [kind |-> "gen", status |-> 200, known |-> FALSE, tag |-> "none"],
   [kind |-> "gen", status |-> 404, known |-> TRUE, tag |-> "none"]}
=============================================================================
