-------------------------- MODULE MCAcceptHeaders --------------------------
(* AcceptHeaders with headers of up to three items of four ranges and three *)
(* weights each, and questions of up to three offers, two for best_match.   *)
EXTENDS AcceptHeaders

MCRanges ==
  [accept   |-> {<<"text", "html", "p">>, <<"text", "html">>, <<"text", "*">>, <<"*", "*">>},
   charset  |-> {<<"utf-8">>, <<"latin-1">>, Star},
   encoding |-> {<<"gzip">>, Identity, Star},
   language |-> {<<"en">>, <<"en", "gb">>, <<"en", "x", "gb">>, Star}]

MCOffers ==
  [accept   |-> {<<"text", "html", "p">>, <<"text", "html">>, <<"text", "plain">>},
   charset  |-> {<<"utf-8">>, <<"latin-1">>, <<"ascii">>},
   encoding |-> {<<"gzip">>, <<"br">>, Identity},
   language |-> {<<"en">>, <<"en", "x", "gb">>}]

MCIdentity == <<"identity">>

\* "", ",", "-;", "a", "b;q=0", ",a", "a," and "a, b;q=0"
MCAddends ==
  LET nothing == Other("nothing")
      a(k) == [is |-> "element", range |-> CHOOSE r \in MCOffers[k] \cap MCRanges[k] : TRUE, q |-> MaxQ]
      b(k) == [is |-> "element", range |-> CHOOSE r \in MCRanges[k] : r # a(k).range, q |-> 0]
  IN  [k \in Kinds |-> {<<nothing>>, <<nothing, nothing>>, <<Other("bad")>>, <<a(k)>>, <<b(k)>>,
                        <<nothing, a(k)>>, <<a(k), nothing>>, <<a(k), b(k)>>}]
============================================================================
