------------------------------ MODULE Multimap ------------------------------
(***************************************************************************)
(* What an ordered dictionary with several values per name promises         *)
(* (src/webob/multidict.py, src/webob/headers.py), without a list: a table  *)
(* from names to sequences of values.  Three methods tell the values of a   *)
(* name apart by their order: reading and popitem take the last, pop and    *)
(* setdefault the first.  The call that made a step is visible.             *)
(***************************************************************************)
EXTENDS Naturals, Sequences, SequencesExt, Selection

CONSTANT Names

VARIABLES
  table, \* name |-> the values, in the order they were added
  op,    \* the last call: its name and the pairs it was given, among others
  ret    \* <<v>>: it returned v; <<>>: nothing, or KeyError

\* The values that pairs have for the name n.
For(pairs, n) ==
  LET named == Chosen(pairs, {i \in 1..Len(pairs) : pairs[i][1] = n}) IN [i \in 1..Len(named) |-> named[i][2]]

Step(o) ==
  LET n == o.pairs[1][1] v == o.pairs[1][2] old == table
      Only(new) == table' = [old EXCEPT ![n] = new]
  IN CASE o.name = "set"        -> Only(<<v>>) /\ ret' = <<>>
       [] o.name = "add"        -> Only(Append(old[n], v)) /\ ret' = <<>>
       [] o.name = "del"        -> Only(<<>>) /\ ret' = <<>>
       [] o.name = "setdefault" -> IF old[n] = <<>> THEN Only(<<v>>) /\ ret' = <<v>>
                                   ELSE UNCHANGED table /\ ret' = <<old[n][1]>>
       [] o.name = "pop"        -> IF old[n] = <<>> THEN UNCHANGED table /\ ret' = <<>>
                                   ELSE Only(Tail(old[n])) /\ ret' = <<old[n][1]>>
       [] o.name = "popitem"    -> \/ /\ \A m \in Names : old[m] = <<>>
                                      /\ UNCHANGED table /\ ret' = <<>>
                                   \/ \E m \in Names :
                                        /\ old[m] # <<>>
                                        /\ table' = [old EXCEPT ![m] = Front(@)]
                                        /\ ret' = <<Last(old[m])>>
       [] o.name = "clear"      -> table' = [m \in Names |-> <<>>] /\ ret' = <<>>
       [] o.name = "update"     -> /\ table' = [m \in Names |-> IF For(o.pairs, m) = <<>> THEN old[m]
                                                                ELSE <<Last(For(o.pairs, m))>>]
                                   /\ ret' = <<>>
       [] o.name = "extend"     -> table' = [m \in Names |-> old[m] \o For(o.pairs, m)] /\ ret' = <<>>
       \* the dictionary is of a list that is not the response's any more, or raised
       [] o.name \in {"stale", "failed"} -> UNCHANGED table
       \* an attribute of the response: only the headers it is about
       [] o.name = "attribute"  -> LET new == table' about == {o.pairs[i][1] : i \in 1..Len(o.pairs)}
                                   IN \A m \in Names \ about : new[m] = old[m]
       [] OTHER                 -> o.name = "assign"

Init == op.name = "none" /\ ret = <<>>
Next == Step(op')
Spec == Init /\ [][Next]_<<table, op, ret>>
=============================================================================
