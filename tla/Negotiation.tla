---------------------------- MODULE Negotiation ----------------------------
(***************************************************************************)
(* How a parsed Accept, Accept-Charset, Accept-Encoding or Accept-Language  *)
(* header chooses among what a server offers (src/webob/acceptparse.py):    *)
(* acceptable_offers, basic_filtering and lookup, and the deprecated         *)
(* best_match, quality and `in', as the loops they are.                     *)
(*                                                                         *)
(* A parsed header is a sequence of [range, q].  Ranges, offers and tags    *)
(* are sequences of lower-case words: <<"gzip">>, <<"en", "gb">>,           *)
(* <<"text", "*">>, <<"text", "html", "p">> with the parameters as one      *)
(* word.  The weight q counts thousandths or any other unit up to MaxQ.     *)
(*                                                                         *)
(* The definitions called Wrong... are slips one could make in the code.    *)
(***************************************************************************)
EXTENDS Integers, Selection, SequencesExt

CONSTANTS
  MaxQ,       \* the weight 1.0
  Identity,   \* the coding "identity"
  Singletons  \* the subtags of one letter or digit

ASSUME NegotiationAssumption == MaxQ \in Nat \ {0}

Star     == <<"*">>
StarStar == <<"*", "*">>

\* The entries of es, [offer, q, at], by descending weight, then by ascending
\* `at', then in the order they have: Python's sort is stable.
ByWeight(es) ==
  LET before(i, j) ==
        \/ es[i].q > es[j].q
        \/ es[i].q = es[j].q /\ es[i].at < es[j].at
        \/ es[i].q = es[j].q /\ es[i].at = es[j].at /\ i < j
      order == InOrder(1..Len(es), [j \in 1..Len(es) |-> {i \in 1..Len(es) : before(i, j)}])
  IN  [k \in 1..Len(es) |-> [offer |-> es[order[k]].offer, q |-> es[order[k]].q]]

\* d[key] = value
With(d, key, value) == [x \in DOMAIN d \cup {key} |-> IF x = key THEN value ELSE d[x]]

\* All offers with weight 1.0, when there is no header or an invalid one.
AllOffers(offers) == [i \in 1..Len(offers) |-> [offer |-> offers[i], q |-> MaxQ]]

---------------------------------------------------------------------------
(* Accept                                                                  *)

\* How specific the match of a media range with an offer is, 0 for no match.
\* A wildcard matches whatever its parameters are.
Specificity(range, offer) ==
  LET type == SubSeq(range, 1, 2)
  IN  IF type = SubSeq(offer, 1, 2)
      THEN (IF Len(range) = 2 THEN 3 ELSE IF range = offer THEN 4 ELSE 0)
      ELSE IF type = <<offer[1], "*">> THEN 2
      ELSE IF type = StarStar THEN 1 ELSE 0

\* The loop over the offers and the ranges: `found' maps an offer to the range
\* that decides it so far.
Consider(found, offer, i, item) ==
  LET s == Specificity(item.range, offer)
  IN  IF s = 0 \/ (offer \in DOMAIN found /\ s <= found[offer].specificity) THEN found
      ELSE With(found, offer, [q |-> item.q, at |-> i, specificity |-> s])

ConsiderAll(found, offer, i, parsed) ==
  LET f[n \in 0..Len(parsed)] == IF n = 0 THEN found ELSE Consider(f[n - 1], offer, i, parsed[n])
  IN  f[Len(parsed)]

Found(parsed, offers) ==
  LET f[n \in 0..Len(offers)] == IF n = 0 THEN <<>> ELSE ConsiderAll(f[n - 1], offers[n], n, parsed)
  IN  f[Len(offers)]

\* AcceptValidHeader.acceptable_offers
MediaOffers(parsed, offers) ==
  LET found == Found(parsed, offers)
      kept  == Chosen([i \in 1..Len(offers) |-> [offer |-> offers[i], at |-> i]],
                      {found[o].at : o \in {x \in DOMAIN found : found[x].q # 0}})
  IN  ByWeight([k \in 1..Len(kept) |-> [offer |-> kept[k].offer, q |-> found[kept[k].offer].q,
                                        at |-> kept[k].at]])

---------------------------------------------------------------------------
(* Accept-Charset and Accept-Encoding                                      *)

\* Slip: a dict comprehension, where the last of the mentions decides.
WrongNoted(d, x) == With(d, x.range, x.q)
\* The range has the weight with which it is mentioned first.
Noted(d, x) == IF x.range \in DOMAIN d THEN d ELSE With(d, x.range, x.q)

\* The loop over the header: each range, * too, with its weight.
FirstWeights(parsed) ==
  LET d[n \in 0..Len(parsed)] == IF n = 0 THEN <<>> ELSE Noted(d[n - 1], parsed[n])
  IN  d[Len(parsed)]

\* The weight of an offer, 0 when it is filtered out.  Only an Accept-Encoding
\* header accepts what it does not mention, "identity", unless *;q=0.
CodingWeight(parsed, offer, encoding) ==
  LET d == FirstWeights(parsed)
  IN  IF offer \in DOMAIN d THEN d[offer]
      ELSE IF Star \in DOMAIN d THEN d[Star]
      ELSE IF encoding /\ offer = Identity THEN MaxQ
      ELSE 0

\* acceptable_offers of both headers
CodingOffers(parsed, offers, encoding) ==
  LET weight(o) == CodingWeight(parsed, o, encoding)
  IN  ByWeight(Chosen([i \in 1..Len(offers) |-> [offer |-> offers[i], q |-> weight(offers[i]), at |-> i]],
                      {i \in 1..Len(offers) : weight(offers[i]) # 0}))

---------------------------------------------------------------------------
(* Accept-Language                                                         *)

\* Those of the positions `among' in `parsed' whose range is not * and has a
\* weight, by descending weight, then from left to right.
Ranked(parsed, among) ==
  LET S == {i \in among : parsed[i].range # Star /\ parsed[i].q # 0}
      before(i, j) == parsed[i].q > parsed[j].q \/ (parsed[i].q = parsed[j].q /\ i < j)
  IN  InOrder(S, [j \in S |-> {i \in S : before(i, j)}])

\* The position of the first mention of a range.
FirstAt(parsed, range) == SelectInSeq(parsed, LAMBDA x : x.range = range)

\* The tag is the range, or begins with it and "-".
Matches(range, tag) == IsPrefix(range, tag)

\* basic_filtering
BasicFiltering(parsed, tags) ==
  LET d       == FirstWeights(parsed)
      refused == {r \in DOMAIN d \ {Star} : d[r] = 0}
      ranked  == Ranked(parsed, {i \in 1..Len(parsed) : FirstAt(parsed, parsed[i].range) = i})
      \* the position in the header of what decides a tag, 0 for nothing
      decider(tag) ==
        LET k == SelectInSeq(ranked, LAMBDA i : Matches(parsed[i].range, tag))
        IN  IF \E r \in refused : Matches(r, tag) THEN 0
            ELSE IF k # 0 THEN ranked[k]
            ELSE IF Star \in DOMAIN d /\ d[Star] # 0 THEN FirstAt(parsed, Star) ELSE 0
      kept == Chosen([i \in 1..Len(tags) |-> [offer |-> tags[i], at |-> decider(tags[i])]],
                     {i \in 1..Len(tags) : decider(tags[i]) # 0})
  IN  ByWeight([i \in 1..Len(kept) |-> [offer |-> kept[i].offer, at |-> kept[i].at,
                                        q |-> parsed[kept[i].at].q]])

\* One truncation: the last subtag, and a singleton before it.
Cut(range) ==
  LET n == Len(range)
  IN  IF range[n - 1] \in Singletons THEN SubSeq(range, 1, n - 2) ELSE SubSeq(range, 1, n - 1)

\* The range and its truncations, until one subtag is left.
Truncations(range) ==
  LET cut[k \in 0..Len(range)] ==
        IF k = 0 THEN range
        ELSE IF Len(cut[k - 1]) < 2 THEN cut[k - 1] ELSE Cut(cut[k - 1])
  IN  [k \in 1..(Len(range) + 1) |-> cut[k - 1]]

\* best_match(range_) in lookup: the tag that the longest truncation equals, of
\* those that are not refused; <<>> for none.
BestMatch(range, tags, refused) ==
  LET ts == Truncations(range)
      k  == SelectInSeq(ts, LAMBDA t : t \notin refused /\ \E i \in 1..Len(tags) : tags[i] = t)
  IN  IF k = 0 THEN <<>> ELSE ts[k]

\* Slip: default_tag is not held against the ranges with q=0.
WrongDefaultTag(tag, refused) == tag

\* The default_tag argument, unless the header refuses it.
DefaultTag(tag, refused) == IF tag \in refused THEN <<>> ELSE tag

\* lookup, of a valid header.  An argument that is not given is <<>>, and so is
\* the answer when it is left to the `default' argument.
Lookup(parsed, tags, default_range, default_tag) ==
  LET refused == {parsed[i].range : i \in {j \in 1..Len(parsed) : parsed[j].q = 0}} \ {Star}
      noOther == \E i \in 1..Len(parsed) : parsed[i].range = Star /\ parsed[i].q = 0
      ranked  == Ranked(parsed, 1..Len(parsed))
      matches == [k \in 1..Len(ranked) |-> BestMatch(parsed[ranked[k]].range, tags, refused)]
      hit     == SelectInSeq(matches, LAMBDA m : m # <<>>)
      byRange == IF default_range = <<>> THEN <<>> ELSE BestMatch(default_range, tags, refused)
  IN  IF hit # 0 THEN matches[hit]
      ELSE IF noOther THEN <<>>
      ELSE IF byRange # <<>> THEN byRange
      ELSE DefaultTag(default_tag, refused)

---------------------------------------------------------------------------
(* The deprecated methods.  They ask for one match, and know no overriding. *)

\* AcceptValidHeader._old_match: a wildcard on either side matches, and what
\* has no "/" is a type with any subtype.
OldMatchMedia(mask, offer) ==
  LET subtype(m) == IF Len(m) = 1 THEN Star ELSE Tail(m)
      sameType    == mask[1] = offer[1]
      sameSubtype == subtype(mask) = subtype(offer)
  IN  IF mask = offer \/ StarStar \in {mask, offer} \/ offer = Star THEN TRUE
      ELSE IF subtype(mask) = Star THEN offer[1] = "*" \/ sameType
      ELSE IF mask[1] = "*" THEN subtype(offer) = Star \/ sameSubtype
      ELSE IF subtype(offer) = Star THEN sameType
      ELSE offer[1] = "*" /\ sameSubtype

\* Its likes of Accept-Charset and Accept-Encoding, and of Accept-Language,
\* where the mask may also be more specific than the offer.
OldMatchCoding(mask, offer) == mask \in {Star, offer}

OldMatchLanguage(mask, item) ==
  mask \in {Star, item, <<item[1]>>} \/ item = <<mask[1]>>

OldMatch(kind, mask, offer) ==
  CASE kind = "accept"   -> OldMatchMedia(mask, offer)
    [] kind = "language" -> OldMatchLanguage(mask, offer)
    [] OTHER             -> OldMatchCoding(mask, offer)

\* `offer in header'
OldContains(kind, parsed, offer) ==
  \E i \in 1..Len(parsed) : parsed[i].q # 0 /\ OldMatch(kind, parsed[i].range, offer)

\* quality(offer), 0 for None.
OldQuality(kind, parsed, offer) ==
  LET best[n \in 0..Len(parsed)] ==
        IF n = 0 THEN 0
        ELSE IF OldMatch(kind, parsed[n].range, offer) /\ parsed[n].q > best[n - 1] THEN parsed[n].q
        ELSE best[n - 1]
  IN  best[Len(parsed)]

Stars(mask) == Cardinality({i \in DOMAIN mask : mask[i] = "*"})

\* Slip: a match as good and as specific replaces the one found before.
WrongSurpasses(quality, stars, best) ==
  quality > best.quality \/ (quality = best.quality /\ best.stars >= stars)

\* The two `continue' of the loop of best_match.
Surpasses(quality, stars, best) ==
  quality > best.quality \/ (quality = best.quality /\ best.stars > stars)

\* best_match(offers) of a valid header, <<>> for default_match.  An offer is
\* [offer, sq] with the weight sq that the server gives it.
Tried(kind, best, o, x) ==
  IF Surpasses(o.sq * x.q, Stars(x.range), best) /\ OldMatch(kind, x.range, o.offer)
  THEN [offer |-> o.offer, quality |-> o.sq * x.q, stars |-> Stars(x.range)]
  ELSE best

TriedAll(kind, best, o, masks) ==
  LET b[n \in 0..Len(masks)] == IF n = 0 THEN best ELSE Tried(kind, b[n - 1], o, masks[n])
  IN  b[Len(masks)]

OldBestMatch(kind, parsed, offers) ==
  LET masks == Chosen(parsed, {i \in 1..Len(parsed) : parsed[i].q # 0})
      b[n \in 0..Len(offers)] == IF n = 0 THEN [offer |-> <<>>, quality |-> -1, stars |-> 2]
                                ELSE TriedAll(kind, b[n - 1], offers[n], masks)
  IN  b[Len(offers)].offer

\* best_match(offers) where there is no valid header.
OldBestOffer(offers) ==
  LET b[n \in 0..Len(offers)] == IF n = 0 THEN [offer |-> <<>>, sq |-> -1]
                                ELSE IF offers[n].sq > b[n - 1].sq THEN offers[n] ELSE b[n - 1]
  IN  b[Len(offers)].offer
============================================================================
