--------------------------- MODULE AcceptHeaders ---------------------------
(***************************************************************************)
(* One of the four Accept headers of a request, from the text in the        *)
(* environ to the answers about it (src/webob/acceptparse.py): the property *)
(* of the request that reads, sets and deletes it, the three classes of     *)
(* header object (valid, invalid, no header) and their addition.            *)
(*                                                                         *)
(* A text is what stands between its commas, in order: an element with its  *)
(* range and weight, nothing, blanks only, or something that is no element. *)
(* The texts "" and "," are one and two times nothing.  <<>> is no header.  *)
(*                                                                         *)
(* The objects are immutable and are their text: an object's class is that  *)
(* which create_accept_header and its three likes give to the text.         *)
(***************************************************************************)
EXTENDS Negotiation

CONSTANTS
  Ranges,     \* Ranges[k]: the ranges that a header of kind k may have
  Offers,     \* Offers[k]: the offers, or language tags
  Addends,    \* texts an application sets or adds
  MaxItems,   \* bound on the items of a text
  MaxOffers,  \* bound on the offers of one question
  MaxRated    \* and on those of one to best_match

Kinds == {"accept", "charset", "encoding", "language"}

VARIABLES
  kind,     \* which of the headers this is; never changes
  environ,  \* the text in the environ
  ok        \* FALSE: the last operation raised ValueError

acceptVars == <<kind, environ, ok>>

---------------------------------------------------------------------------
(* Texts.                                                                  *)

Item(k)       == [is : {"element"}, range : Ranges[k], q : 0..MaxQ]
                   \cup [is : {"nothing", "blank", "bad"}, range : {Star}, q : {0}]
Other(is)     == [is |-> is, range |-> Star, q |-> 0]
NoHeader      == <<>>
EmptyText     == <<Other("nothing")>>

\* Ranges and offers name something.  A media range has a type and a subtype,
\* and no offer is a wildcard: parse_offer raises for those.
ASSUME HeadersAssumption ==
  /\ DOMAIN Ranges = Kinds /\ DOMAIN Offers = Kinds /\ DOMAIN Addends = Kinds
  /\ \A k \in Kinds : /\ Ranges[k] \cup Offers[k] \subseteq Seq(STRING) \ {<<>>}
                      /\ Addends[k] \subseteq Seq(Item(k))
                      /\ \A o \in Offers[k] : \A i \in 1..Len(o) : o[i] # "*"
  /\ \A r \in Ranges["accept"] \cup Offers["accept"] : Len(r) >= 2
  /\ MaxItems \in Nat /\ MaxOffers \in Nat /\ MaxRated \in Nat

\* The header values for which the header is valid although they hold no
\* element: the two rules for lists of RFC 7230.
ZeroOrMore == {"accept", "encoding"}

IsElement(t, i) == t[i].is = "element"

\* accept_compiled_re and its three likes.  A list of zero or more elements
\* cannot begin with one comma and then an element; no list begins or ends
\* with blanks.
Valid(k, t) ==
  /\ t # NoHeader
  /\ \A i \in 1..Len(t) : t[i].is # "bad"
  /\ t[1].is # "blank" /\ t[Len(t)].is # "blank"
  /\ IF k \in ZeroOrMore
     THEN Len(t) = 1 \/ IsElement(t, 1) \/ ~IsElement(t, 2)
     ELSE \E i \in 1..Len(t) : IsElement(t, i)

\* The attribute `parsed', <<>> for what is not valid.
Parsed(k, t) ==
  IF Valid(k, t)
  THEN LET es == Chosen(t, {i \in 1..Len(t) : IsElement(t, i)})
       IN  [i \in 1..Len(es) |-> [range |-> es[i].range, q |-> es[i].q]]
  ELSE <<>>

\* Slip: the texts the other way round.
WrongJoin(a, b) == b \o a

\* a + ", " + b
Join(a, b) ==
  a \o [b EXCEPT ![1] = IF @.is = "nothing" THEN Other("blank") ELSE @]

---------------------------------------------------------------------------
(* Addition.                                                               *)

\* valid + object, as create_... makes it, which does not raise.
ValidPlusObject(k, a, b) ==
  [ok |-> TRUE, text |-> IF b = EmptyText \/ ~Valid(k, b) THEN a ELSE Join(a, b)]

\* valid a + text b, or b + a, `joined' in their order.  The constructor raises
\* when that is no header, and there is no new object.
ValidPlusText(k, a, b, joined) ==
  IF b = EmptyText \/ ~Valid(k, b) THEN [ok |-> TRUE, text |-> a]
  ELSE IF Valid(k, joined) THEN [ok |-> TRUE, text |-> joined]
  ELSE [ok |-> FALSE, text |-> a]

\* no header, or invalid, + object or text: b if it is valid, else no header.
OtherPlus(k, b) == [ok |-> TRUE, text |-> IF Valid(k, b) THEN b ELSE NoHeader]

\* object a + object b (form "object"), object a + text b ("left"), and text
\* b + object a ("right").
Sum(k, form, a, b) ==
  IF ~Valid(k, a) THEN OtherPlus(k, b)
  ELSE CASE form = "object" -> ValidPlusObject(k, a, b)
         [] form = "left"   -> ValidPlusText(k, a, b, Join(a, b))
         [] form = "right"  -> IF b = NoHeader THEN [ok |-> TRUE, text |-> a]
                               ELSE ValidPlusText(k, a, b, Join(b, a))

Forms == {"object", "left", "right"}

---------------------------------------------------------------------------
(* The answers.                                                            *)

\* acceptable_offers, and basic_filtering for Accept-Language.
Acceptable(k, t, offers) ==
  LET parsed == Parsed(k, t)
  IN  CASE k = "accept" /\ Valid(k, t)   -> MediaOffers(parsed, offers)
        [] k = "charset" /\ Valid(k, t)  -> CodingOffers(parsed, offers, FALSE)
        [] k = "encoding" /\ Valid(k, t) -> CodingOffers(parsed, offers, TRUE)
        [] k = "language"                -> BasicFiltering(parsed, offers)
        [] OTHER                         -> AllOffers(offers)

\* lookup; without a valid header it is default_tag.
LookedUp(t, tags, default_range, default_tag) ==
  IF Valid("language", t) THEN Lookup(Parsed("language", t), tags, default_range, default_tag)
  ELSE default_tag

\* The deprecated `offer in req.accept', quality and best_match.
Offered(k, t, offer) == ~Valid(k, t) \/ OldContains(k, Parsed(k, t), offer)
Quality(k, t, offer)  == IF Valid(k, t) THEN OldQuality(k, Parsed(k, t), offer) ELSE MaxQ
BestOffer(k, t, offers) ==
  IF Valid(k, t) THEN OldBestMatch(k, Parsed(k, t), offers) ELSE OldBestOffer(offers)

---------------------------------------------------------------------------
(* The property of the request.                                            *)

\* What the client sent.
AcceptInit ==
  /\ kind \in Kinds
  /\ environ \in UNION {[1..n -> Item(kind)] : n \in 0..MaxItems}
  /\ ok = TRUE

\* req.accept = a text, or an object; None deletes it.
Assign ==
  \E t \in Addends[kind] :
    /\ environ' = t
    /\ ok' = TRUE
    /\ UNCHANGED kind

Delete ==
  /\ environ' = NoHeader
  /\ ok' = TRUE
  /\ UNCHANGED kind

\* req.accept = req.accept + b, or b + req.accept
Augment ==
  \E b \in Addends[kind], form \in Forms :
    LET s == Sum(kind, form, environ, b)
    IN  /\ Len(environ) + Len(b) <= MaxItems
        /\ environ' = s.text
        /\ ok' = s.ok
        /\ UNCHANGED kind

AcceptNext == Assign \/ Delete \/ Augment

AcceptSpec == AcceptInit /\ [][AcceptNext]_acceptVars

---------------------------------------------------------------------------
(* Reference definitions: what decides an offer, without loops or dicts.    *)

\* The ranges that match an offer, from the most specific to the least.  The
\* parameters of a wildcard do not count.
Patterns(o) == IF kind = "accept" THEN <<o, SubSeq(o, 1, 2), <<o[1], "*">>, StarStar>>
               ELSE <<o, Star>>
Pattern(p, i)  == IF kind = "accept" /\ p[i].range[2] = "*" THEN SubSeq(p[i].range, 1, 2)
               ELSE p[i].range

\* Range i is of the most specific pattern in the header that matches offer o,
\* and the first of it.
Decides(p, i, o) ==
  \E k \in 1..Len(Patterns(o)) :
    /\ Pattern(p, i) = Patterns(o)[k]
    /\ \A j \in 1..(i - 1) : Pattern(p, j) # Pattern(p, i)
    /\ \A j \in 1..Len(p), m \in 1..(k - 1) : Pattern(p, j) # Patterns(o)[m]

\* The weight that the header gives to offer o.
Weight(p, o) ==
  LET deciding == {i \in 1..Len(p) : Decides(p, i, o)}
  IN  IF ~Valid(kind, environ) THEN MaxQ
      ELSE IF deciding # {} THEN p[CHOOSE i \in deciding : TRUE].q
      ELSE IF kind = "encoding" /\ o = Identity THEN MaxQ ELSE 0

\* Language ranges: those that refuse tag o, and those that accept it.
Heads(o) == Prefixes(o) \ {<<>>}
FirstMentions(p) == {i \in 1..Len(p) : \A j \in 1..(i - 1) : p[j].range # p[i].range}
Refusing(p, o)  == {i \in FirstMentions(p) : p[i].range \in Heads(o) /\ p[i].q = 0}
Accepting(p, o) ==
  IF \E i \in 1..Len(p) : p[i].range \in Heads(o)
  THEN {i \in FirstMentions(p) : p[i].range \in Heads(o) /\ p[i].q # 0}
  ELSE {i \in FirstMentions(p) : p[i].range = Star /\ p[i].q # 0}

\* i has more weight than j, or as much and stands before it.
Better(p, i, j) == p[i].q > p[j].q \/ (p[i].q = p[j].q /\ i <= j)
Best(p, S)      == CHOOSE i \in S : \A j \in S : Better(p, i, j)

OfferLists == UNION {[1..n -> Offers[kind]] : n \in 0..MaxOffers}
Members(s) == {s[i] : i \in DOMAIN s}

\* What the deprecated methods may be asked with: wildcards too, and the weight
\* that the server gives to each offer.
OldOffers  == Offers[kind] \cup (IF kind = "accept" THEN {<<"text", "*">>, <<"text">>} ELSE {})
RatedLists == UNION {[1..n -> [offer : OldOffers, sq : {1, 2}]] : n \in 0..MaxRated}

---------------------------------------------------------------------------
(* Properties.                                                             *)

\* The answer is offers[at[1]], offers[at[2]], ..., the offers at the places
\* `served', each with its weight, in descending order of weight and, within
\* one weight, of what the places rank.
Arranged(answer, offers, served, weight(_), before(_, _)) ==
  \E at \in [DOMAIN answer -> served] :
    /\ {at[i] : i \in DOMAIN answer} = served
    /\ \A i \in DOMAIN answer : answer[i] = [offer |-> offers[at[i]], q |-> weight(at[i])]
    /\ \A i, j \in DOMAIN answer : i < j => before(at[i], at[j])

\* acceptable_offers returns the offers to which the header gives a weight,
\* each with the weight of the most specific range that matches it and of the
\* first mention of that range, in descending order of weight and, within one
\* weight, in the order offered: however the header repeats, contradicts or
\* overrides itself (docstrings at 901, 2094 and 3107).  What is offered twice
\* is returned twice, but by a valid Accept header once.
OffersAsSpecified ==
  kind # "language" =>
    \A offers \in OfferLists :
      LET p         == Parsed(kind, environ)
          weight(n) == Weight(p, offers[n])
          first(n)  == \A m \in 1..(n - 1) : offers[m] # offers[n]
          served    == {n \in DOMAIN offers :
                          weight(n) # 0 /\ (kind = "accept" /\ Valid(kind, environ) => first(n))}
          before(m, n) == weight(m) > weight(n) \/ (weight(m) = weight(n) /\ m < n)
      IN  Arranged(Acceptable(kind, environ, offers), offers, served, weight, before)

\* basic_filtering keeps the tags that no range refuses and one accepts, with
\* the weight of the best such range, in the order of those ranges and then in
\* the order offered; * stands for what no other range matches (docstring at
\* 4197).
FilteringAsSpecified ==
  kind = "language" =>
    \A tags \in OfferLists :
      LET p         == Parsed(kind, environ)
          best(n)   == Best(p, Accepting(p, tags[n]))
          weight(n) == p[best(n)].q
          served    == {n \in DOMAIN tags : Refusing(p, tags[n]) = {} /\ Accepting(p, tags[n]) # {}}
          before(m, n) == IF best(m) = best(n) THEN m < n ELSE Better(p, best(m), best(n))
      IN  Arranged(Acceptable(kind, environ, tags), tags, served, weight, before)

\* What lookup may be asked with.
Defaults == Offers["language"] \cup {<<>>}

\* No singleton introduces another: "en-x-y-gb" would be cut to "en-x".
Separate(tag) == \A n \in 1..(Len(tag) - 1) : tag[n] \notin Singletons \/ tag[n + 1] \notin Singletons

Refused(p) == {p[i].range : i \in {j \in 1..Len(p) : p[j].q = 0}} \ {Star}

\* lookup answers with the longest truncation of the best range that has one
\* among the tags, and never cuts between a singleton and what it introduces;
\* the defaults are asked only if no range has any (docstring at 4498).
LookupAsSpecified ==
  kind = "language" =>
    LET p == Parsed(kind, environ)
        cuts(x) == {x} \cup {t \in Heads(x) : t[Len(t)] \notin Singletons}
    IN  \A tags \in OfferLists :
          LET reach(i) == (cuts(p[i].range) \cap Members(tags)) \ Refused(p)
              hits     == {i \in 1..Len(p) : p[i].range # Star /\ p[i].q # 0 /\ reach(i) # {}}
              reached  == reach(Best(p, hits))
          IN  hits # {} /\ (\A i \in 1..Len(p) : Separate(p[i].range)) =>
                \A r \in Defaults, d \in Defaults :
                  LET answer == LookedUp(environ, tags, r, d)
                  IN  answer \in reached /\ \A t \in reached : Len(t) <= Len(answer)

\* What the three kinds of question are answered with is what the loop-free
\* definitions above say, for every header and every list of offers.
AnswersAsSpecified == OffersAsSpecified /\ FilteringAsSpecified /\ LookupAsSpecified

\* No tag that the header refuses by name is ever the answer of lookup, be it
\* offered, found by truncation or given as a default, and none that it does
\* not name is if the header has *;q=0 (notes in the docstring, 4616-4630).
NeverServesRefused ==
  (kind = "language" /\ Valid(kind, environ)) =>
    LET p       == Parsed(kind, environ)
        refused == Refused(p)
        named   == UNION {Heads(p[i].range) : i \in 1..Len(p)}
        noOther == \E i \in 1..Len(p) : p[i].range = Star /\ p[i].q = 0
    IN  \A tags \in OfferLists, r \in Defaults, d \in Defaults :
          LET answer == LookedUp(environ, tags, r, d)
          IN  answer \notin refused /\ (noOther => answer \in named \cup {<<>>})

\* best_match goes through offers and ranges once, and yet answers with an
\* offer of the highest product of the two weights.  Of several Accept and
\* Accept-Language have that of the range with the fewest wildcards, and only
\* then the first (docstrings at 1035 and 4383); Accept-Charset and
\* Accept-Encoding the first (2181 and 3210), which is claimed here only where
\* the ranges have as many wildcards: their loop prefers the fewest, too.
\* `in', quality and best_match of the offer alone agree on whether there is
\* any.
OldMethodsAgree ==
  LET p == Parsed(kind, environ)
      valid == Valid(kind, environ)
      matches(os) == {x \in (DOMAIN os) \X (IF valid THEN DOMAIN p ELSE {0}) :
                        valid => p[x[2]].q # 0 /\ OldMatch(kind, p[x[2]].range, os[x[1]].offer)}
      weight(os, x) == os[x[1]].sq * (IF valid THEN p[x[2]].q ELSE MaxQ)
      stars(x)      == IF valid THEN Stars(p[x[2]].range) ELSE 2
      disputed(x, ties) == kind \in {"charset", "encoding"} /\ \E y \in ties : stars(y) # stars(x)
      preferred(x, y)   == IF kind \in {"accept", "language"}
                           THEN stars(x) < stars(y) \/ (stars(x) = stars(y) /\ x[1] <= y[1])
                           ELSE x[1] <= y[1]
  IN  /\ \A os \in RatedLists :
           LET answer   == BestOffer(kind, environ, os)
               matching == matches(os)
           IN  IF matching = {} THEN answer = <<>>
               ELSE \E x \in matching :
                      LET ties == {y \in matching : weight(os, y) = weight(os, x)}
                      IN  /\ answer = os[x[1]].offer
                          /\ \A y \in matching : weight(os, y) <= weight(os, x)
                          /\ disputed(x, ties) \/ \A y \in ties : preferred(x, y)
      /\ \A o \in OldOffers :
           LET some == BestOffer(kind, environ, <<[offer |-> o, sq |-> 1]>>) = o
           IN  /\ Offered(kind, environ, o) <=> some
               /\ Quality(kind, environ, o) # 0 <=> some

\* A sum has the elements of both operands, in their order, and those of the
\* valid one if the other is not; what is valid stays so.  This holds for all
\* but the text "" as the object's, whose sum with a text, ", x", is invalid.
SumKeepsElements ==
  environ # EmptyText =>
    \A b \in Addends[kind], form \in Forms :
      LET s == Sum(kind, form, environ, b)
          A == Parsed(kind, environ)
          B == Parsed(kind, b)
      IN  /\ s.ok
          /\ Parsed(kind, s.text) = IF form = "right" /\ A # <<>> THEN B \o A ELSE A \o B
          /\ (Valid(kind, environ) \/ Valid(kind, b)) => Valid(kind, s.text)

============================================================================
