----------------------------- MODULE RoutingPair -----------------------------
(***************************************************************************)
(* What req.urlargs and req.urlvars promise: two values of the request,     *)
(* each set, deleted and, for the dictionary, filled on its own             *)
(* (src/webob/request.py 549-641).                                          *)
(***************************************************************************)
CONSTANTS Args, \* values of urlargs
          Keys  \* keys of the dictionary

VARIABLES args, dict

Init == args \in Args \cup {"()"} /\ dict \in SUBSET Keys

SetArgs(a) == args' = a /\ UNCHANGED dict
DelArgs    == args' = "()" /\ UNCHANGED dict
SetVars(d) == dict' = d /\ UNCHANGED args
DelVars    == dict' = {} /\ UNCHANGED args
Fill(k)    == dict' = dict \cup {k} /\ UNCHANGED args

Next ==
  \/ DelArgs \/ DelVars
  \/ \E a \in Args : SetArgs(a)
  \/ \E d \in SUBSET Keys : SetVars(d)
  \/ \E k \in Keys : Fill(k)

Spec == Init /\ [][Next]_<<args, dict>>
===============================================================================
