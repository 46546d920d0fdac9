------------------------------ MODULE MCCookies ------------------------------
(* Three names, one of them that of an attribute; two profiles for one name. *)
EXTENDS Cookies

MCNames == <<"a", "b", "path">>
MCCut == "x[a=y" :> [head |-> "x", rest |-> <<[name |-> "a", what |-> "y"]>>]
MCValues == {Plain("y"), Plain("x;y"), Plain("x[a=y")}
MCWanted ==
  { Simple("a", Plain("y"), "/", "none"),
    Simple("a", Plain("x;y"), "/p", "none"),
    [Simple("b", Plain("x[a=y"), "/", "none") EXCEPT !.age = "live", !.samesite = "lax"],
    [Simple("b", Plain("y"), "/", "none") EXCEPT !.secure = TRUE, !.samesite = "none", !.httponly = TRUE],
    [Simple("a", Plain("y"), "/", "none") EXCEPT !.samesite = "bad"] }
MCWhats == {"y", "nothing", "long"}
MCProfiles ==
  { [name |-> "a", mark |-> "salt", domains |-> <<>>, path |-> "/"],
    [name |-> "b", mark |-> "encoded", domains |-> <<"d1", "d2">>, path |-> "/"] }
MCStrays ==
  { [name |-> "a", value |-> [by |-> "altered", what |-> "y"]],
    [name |-> "path", value |-> Plain("y")] }
===============================================================================
