------------------------------- MODULE Cookies -------------------------------
(***************************************************************************)
(* Cookies between a browser and an application: the Cookie header and      *)
(* req.cookies over it (src/webob/cookies.py 32-155), Set-Cookie headers    *)
(* and the methods of Response that make, drop and merge them               *)
(* (src/webob/response.py 1001-1162, src/webob/cookies.py 158-612), and     *)
(* cookie profiles with their serializers (615-1102).                       *)
(*                                                                         *)
(* A value is who wrote it and what it says: "plain" text, the "encoded"    *)
(* of Base64Serializer, or the salt of the SignedSerializer that signed it; *)
(* "altered" is signed by nobody.  The text of a value is the value and     *)
(* whether it stands in quotes.  "x;y" stands for the values that must be   *)
(* quoted, "long" for those beyond 4093 bytes.  In some values, those of    *)
(* Cut, the reader stops at a character that the writer lets through, and   *)
(* goes on behind it: "x[b=y" is read as "x", and as a cookie b more.  So   *)
(* the Cookie header is the sequence of what _rx_cookie matches in it.      *)
(*                                                                         *)
(* Operators called Wrong... are slips one could make in the code; no       *)
(* specification uses them.                                                 *)
(***************************************************************************)
EXTENDS Selection, SequencesExt, Functions

CONSTANTS
  SortedNames, \* cookie names in the order of the alphabet
  Cut,         \* how values are read that the reader stops in: [head, rest]
  Values,      \* what the application stores in request cookies
  Wanted,      \* the arguments set_cookie is called with
  Profiles,    \* cookie profiles: [name, mark, domains, path]
  Strays,      \* what a client may add to its cookies: [name, value]
  Whats,       \* what a profile is asked to store
  PageKinds,   \* what the application answers through: "response", "app"
  MaxPairs,    \* bound on the cookies sent, and on those in a header to which one is added
  MaxSet,      \* bound on the Set-Cookie headers of one response
  MaxCalls,    \* bound on the calls that change something
  MaxRequests  \* bound on requests

Plain(w)    == [by |-> "plain", what |-> w]
NoValue     == [by |-> "none", what |-> ""]
CookieNames == ToSet(SortedNames)

\* "path" is one of the attributes of a cookie and no name for one.
Attributes   == {"path"}
ValidName(n) == n \notin Attributes

\* Nobody but the profile itself writes what its serializer signs.
Signing == {p.mark : p \in {q \in Profiles : q.mark # "encoded"}}

\* An application writes plain text, and makes profiles with names that are
\* valid: others raise in make_cookie.
ASSUME CookiesAssumption ==
  /\ MaxPairs \in Nat /\ MaxSet \in Nat /\ MaxCalls \in Nat /\ MaxRequests \in Nat
  /\ PageKinds \subseteq {"response", "app"}
  /\ SortedNames \in Seq(STRING)
  /\ \A i, j \in DOMAIN SortedNames : SortedNames[i] = SortedNames[j] => i = j
  /\ DOMAIN Cut \subseteq STRING \ {"", "x;y"}
  /\ Cut \in [DOMAIN Cut -> [head : STRING, rest : Seq([name : CookieNames \ Attributes, what : STRING])]]
  /\ Values \subseteq [by : {"plain"}, what : STRING]
  /\ Wanted \subseteq [name : CookieNames, value : [by : {"plain"}, what : STRING] \cup {NoValue},
                       path : STRING, domain : STRING, age : STRING, secure : BOOLEAN,
                       httponly : BOOLEAN, samesite : STRING]
  /\ Profiles \subseteq [name : CookieNames \ Attributes, mark : STRING \ {"plain"},
                         domains : Seq(STRING), path : STRING]
  /\ Strays \subseteq [name : STRING, value : [by : STRING \ Signing, what : STRING]]
  /\ Whats \subseteq STRING

VARIABLES
  jar,      \* the cookies of the browser
  told,     \* what the application last told it: <<place, value>>
  header,   \* HTTP_COOKIE: a sequence of [name, value]
  cache,    \* environ["webob._parsed_cookies"]: <<>> or <<[of, dict]>>
  cookies,  \* the Set-Cookie headers of the response
  intended, \* the same, as if no call had ever touched another cookie
  spoiled,  \* an unset had to give up something, see Harmless
  page,     \* a response or application that lives on: [kind, cookies]
  sent,     \* the Set-Cookie headers of the last answer
  issued,   \* what profiles stored so far: <<mark, what>>
  at,       \* the path of the request
  phase, calls, requests

cookiesVars == <<jar, told, header, cache, cookies, intended, spoiled, page, sent, issued, at,
                 phase, calls, requests>>

---------------------------------------------------------------------------
(* Texts of values.                                                         *)

\* Slip: leaves every value as it is.
WrongQuote(v) == [value |-> v, quoted |-> FALSE]
Quote(v) == [value |-> v, quoted |-> v = Plain("x;y")]

\* The values that the reader stops in, and the pairs it finds in the rest.
Stops(v)      == v.by = "plain" /\ v.what \in DOMAIN Cut
Rest(v)       == IF Stops(v) THEN Cut[v.what].rest ELSE <<>>
Carries(v, n) == \E i \in DOMAIN Rest(v) : Rest(v)[i].name = n

\* What the regular expression takes of a text for its value.
Unquote(t) ==
  IF t.quoted THEN t.value
  ELSE CASE t.value = Plain("x;y") -> Plain("x")
         [] Stops(t.value)         -> Plain(Cut[t.value.what].head)
         [] OTHER                  -> t.value

\* What it matches in name=text, one after the other.
Matches(n, t) ==
  LET rest == IF t.quoted THEN <<>> ELSE Rest(t.value) IN
  <<[name |-> n, value |-> Unquote(t)]>> \o
    [i \in 1..Len(rest) |-> [name |-> rest[i].name, value |-> Plain(rest[i].what)]]

---------------------------------------------------------------------------
(* RequestCookies.                                                          *)

At(h, n)     == SelectInSeq(h, LAMBDA p : p.name = n)
LastAt(h, n) == SelectLastInSeq(h, LAMBDA p : p.name = n)
Of(h, n)     == Chosen(h, {i \in 1..Len(h) : h[i].name = n})
Times(h, n)  == Cardinality({i \in 1..Len(h) : h[i].name = n})

\* parse_cookie and the dictionary of it: the last of a name stays.
Parse(h) == [n \in {m \in CookieNames : ValidName(m) /\ Times(h, m) > 0} |->
               h[LastAt(h, n)].value]

\* Slip: parses once per environ.
WrongCached == IF cache # <<>> THEN cache[1].dict ELSE Parse(header)
\* What self._cache returns.
Cached == IF cache # <<>> /\ cache[1].of = header THEN cache[1].dict ELSE Parse(header)

Written(n, v) == IF v = NoValue THEN <<>> ELSE Matches(n, Quote(v))

\* Slip: what follows the cookie is cut off with it.
WrongMutated(h, n, v) ==
  LET i == At(h, n) IN
  IF i = 0 THEN h \o Written(n, v) ELSE SubSeq(h, 1, i - 1) \o Written(n, v)
\* The first match with the name makes room for the new text, wherever it is.
Mutated(h, n, v) ==
  LET i == At(h, n) IN
  IF i = 0 THEN h \o Written(n, v)
  ELSE SubSeq(h, 1, i - 1) \o Written(n, v) \o SubSeq(h, i + 1, Len(h))

---------------------------------------------------------------------------
(* make_cookie, Morsel and Cookie.                                          *)

\* What make_cookie and Morsel.serialize raise for.
Unsendable(m) == m.samesite = "none" /\ ~m.secure
Rejected(a) ==
  \/ ~ValidName(a.name)
  \/ a.age = "bad" /\ a.value # NoValue
  \/ a.samesite = "bad"
  \/ Unsendable(a)

Morsel(a) ==
  [name |-> a.name, path |-> a.path, domain |-> a.domain, secure |-> a.secure,
   httponly |-> a.httponly, samesite |-> a.samesite,
   age  |-> IF a.value = NoValue THEN "dead" ELSE a.age,
   text |-> Quote(IF a.value = NoValue THEN Plain("") ELSE a.value)]

\* The arguments of make_cookie but for the defaults.
Simple(n, v, p, d) ==
  [name |-> n, value |-> v, path |-> p, domain |-> d, age |-> "none",
   secure |-> FALSE, httponly |-> FALSE, samesite |-> ""]

\* Without attributes: a browser then takes the directory of the page, "/".
Alone(p) == Morsel(Simple(p.name, p.value, "/", "none"))

\* Slip: attributes belong to no cookie.
WrongReread(m) == LET ps == Matches(m.name, m.text) IN [i \in 1..Len(ps) |-> Alone(ps[i])]
\* What Cookie.load makes of one Set-Cookie header: attributes without "="
\* are not matched, the others belong to the cookie before them.
Reread(m) ==
  LET ps == Matches(m.name, m.text) IN
  [i \in 1..Len(ps) |->
     IF i < Len(ps) THEN Alone(ps[i])
     ELSE [m EXCEPT !.name = ps[i].name, !.text = Quote(ps[i].value), !.secure = FALSE, !.httponly = FALSE]]

\* Cookie.load of every header, and values(), sorted by name.
Loaded(s) ==
  LET all   == FlattenSeq([i \in 1..Len(s) |-> Reread(s[i])])
      names == Chosen(SortedNames, {i \in 1..Len(SortedNames) : Times(all, SortedNames[i]) > 0})
  IN  [i \in 1..Len(names) |-> all[LastAt(all, names[i])]]

\* The headers that are back before the first that cannot be serialized.
Sendable(s) ==
  LET bad == SelectInSeq(s, Unsendable) IN IF bad = 0 THEN s ELSE SubSeq(s, 1, bad - 1)

Drop(s, n) == Chosen(s, {i \in 1..Len(s) : s[i].name # n})

\* unset_cookie: the headers after it, and whether it returned.
Unset(s, n) ==
  IF Times(Loaded(s), n) = 0 THEN [s |-> s, ok |-> TRUE]
  ELSE LET rest == Drop(Loaded(s), n) IN
       [s |-> Sendable(rest), ok |-> Sendable(rest) = rest]

\* unset_cookie of n takes nothing from other names but secure and HttpOnly,
\* and brings none along.
Harmless(s, n) ==
  \/ Times(Loaded(s), n) = 0
  \/ \A m \in ToSet(s) :
       IF m.name = n THEN Rest(m.text.value) = <<>>
       ELSE Times(s, m.name) = 1 /\ m.samesite # "none" /\ ~Stops(m.text.value)

---------------------------------------------------------------------------
(* Profiles.                                                                *)

\* serializer.loads, which returns nothing where it raises ValueError.
Loads(p, v) == IF v.by = p.mark THEN {v.what} ELSE {}

Dumps(p, w) == IF w = "nothing" THEN NoValue ELSE [by |-> p.mark, what |-> w]

\* get_value of the profile bound to this request.
ProfileValue(p) == IF p.name \in DOMAIN Cached THEN Loads(p, Cached[p.name]) ELSE {}

\* get_headers: one cookie for every domain.
ProfileCookies(p, w) ==
  LET for(d) == Morsel(Simple(p.name, Dumps(p, w), p.path, d))
  IN IF p.domains = <<>> THEN <<for("none")>>
     ELSE [i \in 1..Len(p.domains) |-> for(p.domains[i])]

---------------------------------------------------------------------------
(* merge_cookies and the browser.                                           *)

\* Slip: the headers of the application are extended where they are.
WrongMerged(pg, s) == [page |-> [pg EXCEPT !.cookies = @ \o s], sent |-> pg.cookies \o s]
\* merge_cookies: the page after it and what it sends.
Merged(pg, s) ==
  [page |-> IF pg.kind = "response" THEN [pg EXCEPT !.cookies = @ \o s] ELSE pg,
   sent |-> pg.cookies \o s]

Place(m) == <<m.name, m.path, m.domain>>
Places(s) == {Place(s[i]) : i \in 1..Len(s)}

\* What a browser that is told s, in this order, has of it afterwards.
Remaining(s) ==
  {s[i] : i \in {k \in 1..Len(s) : /\ s[k].age # "dead"
                                   /\ \A l \in (k + 1)..Len(s) : Place(s[l]) # Place(s[k])}}
Stored(j, s) == {m \in j : Place(m) \notin Places(s)} \cup Remaining(s)

\* Longer paths come first, the rest is the browser's choice.
Presented(p) ==
  LET here == {m \in jar : m.path = "/" \/ m.path = p} IN
  {s \in SetToSeqs(here) : \A i, j \in DOMAIN s : s[i].path # "/" /\ s[j].path = "/" => i < j}

\* What is matched in the Cookie header that a browser makes of s.
PairsOf(s) == FlattenSeq([i \in 1..Len(s) |-> Matches(s[i].name, s[i].text)])

---------------------------------------------------------------------------
CookiesInit ==
  /\ jar = {} /\ told = {} /\ header = <<>> /\ cache = <<>>
  /\ cookies = <<>> /\ intended = <<>> /\ spoiled = "no"
  /\ page \in {[kind |-> k, cookies |-> <<>>] : k \in PageKinds}
  /\ sent = <<>> /\ issued = {} /\ at = "/"
  /\ phase = "idle" /\ calls = 0 /\ requests = 0

\* The browser sends what it has, or a client one pair more.
Arrive(p) ==
  /\ phase = "idle" /\ requests < MaxRequests
  /\ \E s \in Presented(p) :
       /\ Len(s) < MaxPairs
       /\ \/ header' = PairsOf(s)
          \/ \E e \in Strays : header' \in {<<e>> \o PairsOf(s), PairsOf(s) \o <<e>>}
  /\ phase' = "busy" /\ at' = p /\ requests' = requests + 1
  /\ cache' = <<>>
  /\ cookies' = <<>> /\ intended' = <<>> /\ spoiled' = "no" /\ sent' = <<>>
  /\ UNCHANGED <<jar, told, page, issued, calls>>

Busy   == phase = "busy"
\* The two sides touch different variables: a request's own cookies are
\* changed first.
Called == Busy /\ calls < MaxCalls /\ calls' = calls + 1

OnRequest  == cookies = <<>> /\ UNCHANGED <<jar, told, cookies, intended, spoiled, page, sent, issued, at,
                          phase, requests>>
OnResponse == UNCHANGED <<jar, told, header, cache, page, sent, at, phase, requests>>

Looked == cache' = <<[of |-> header, dict |-> Cached]>>

\* Any method that reads.
Look == Busy /\ Looked /\ UNCHANGED <<header, calls>> /\ OnRequest

Fits(n) == Len(header) < MaxPairs \/ Times(header, n) > 0

\* An invalid name raises TypeError before anything changes.
Put(n, v) ==
  /\ Called /\ ValidName(n) /\ Fits(n)
  /\ header' = Mutated(header, n, v) /\ UNCHANGED cache /\ OnRequest

Del(n) ==
  /\ Called /\ ValidName(n) /\ Times(header, n) > 0
  /\ header' = Mutated(header, n, NoValue) /\ UNCHANGED cache /\ OnRequest

\* pop, popitem and setdefault of MutableMapping: a read, then a change.
Pop(n) ==
  /\ Called /\ n \in DOMAIN Cached
  /\ Looked /\ header' = Mutated(header, n, NoValue) /\ OnRequest

PopItem ==
  LET i == SelectInSeq(header, LAMBDA p : p.name \in DOMAIN Cached) IN i > 0 /\ Pop(header[i].name)

SetDefault(n, v) ==
  /\ Called /\ n \notin DOMAIN Cached /\ ValidName(n) /\ Fits(n)
  /\ Looked /\ header' = Mutated(header, n, v) /\ OnRequest

Clear == Called /\ header' = <<>> /\ UNCHANGED cache /\ OnRequest

\* Something else that has the environ writes HTTP_COOKIE.
Reorder == Called /\ header' = Reverse(header) /\ UNCHANGED cache /\ OnRequest

Worse(a, b) == IF "yes" \in {a, b} THEN "yes" ELSE IF "flags" \in {a, b} THEN "flags" ELSE "no"

\* How much an unset that returned, or was part of a call that raised, spoils.
Spoils(n, raised) ==
  IF Times(Loaded(cookies), n) = 0 THEN "no"
  ELSE IF raised \/ ~Harmless(cookies, n) THEN "yes" ELSE "flags"

SetCookie(a, overwrite) ==
  LET u == IF overwrite THEN Unset(cookies, a.name) ELSE [s |-> cookies, ok |-> TRUE]
      raised == ~u.ok \/ Rejected(a)
  IN
  /\ Called /\ Len(cookies) < MaxSet
  /\ cookies' = (IF raised THEN u.s ELSE Append(u.s, Morsel(a)))
  /\ intended' = (IF raised THEN intended
                  ELSE Append(IF overwrite THEN Drop(intended, a.name) ELSE intended, Morsel(a)))
  /\ spoiled' = (IF overwrite THEN Worse(spoiled, Spoils(a.name, raised)) ELSE spoiled)
  /\ UNCHANGED issued /\ OnResponse

DeleteCookie(n, p) == SetCookie(Simple(n, NoValue, p, "none"), FALSE)

\* Without the name: KeyError when strict, else nothing.
UnsetCookie(n) ==
  /\ Called /\ Times(Loaded(cookies), n) > 0
  /\ LET u == Unset(cookies, n) IN
     /\ cookies' = u.s /\ intended' = Drop(intended, n)
     /\ spoiled' = Worse(spoiled, Spoils(n, ~u.ok))
  /\ UNCHANGED issued /\ OnResponse

\* set_cookies of a profile; what is too long raises ValueError.
StoreProfile(p, w) ==
  LET new == ProfileCookies(p, w) IN
  /\ Called /\ w # "long" /\ Len(cookies) + Len(new) <= MaxSet
  /\ cookies' = cookies \o new /\ intended' = intended \o new
  /\ issued' = (IF w = "nothing" THEN issued ELSE issued \cup {<<p.mark, w>>})
  /\ UNCHANGED spoiled /\ OnResponse

Entry(m)   == <<Place(m), m.text.value>>
Told(t, s) == {e \in t : e[1] \notin Places(s)} \cup {Entry(m) : m \in Remaining(s)}

\* The response, or what merge_cookies made of the page, goes out.
Answer(merge) ==
  LET with == IF merge THEN Merged(page, cookies) ELSE [page |-> page, sent |-> cookies] IN
  /\ Busy /\ Len(with.page.cookies) <= MaxSet
  /\ page' = with.page /\ sent' = with.sent
  /\ jar' = Stored(jar, sent')
  /\ told' = (IF spoiled = "yes" \/ (merge /\ page.kind = "response")
              THEN {Entry(m) : m \in jar'}
              ELSE Told(told, intended))
  /\ phase' = "idle"
  \* environ and response are gone; cookies is what NothingLeft compares.
  /\ header' = <<>> /\ cache' = <<>> /\ intended' = <<>> /\ spoiled' = "no"
  /\ UNCHANGED <<cookies, issued, at, calls, requests>>

CookiesNext ==
  \/ \E p \in {"/", "/p"} : Arrive(p)
  \/ Look \/ PopItem \/ Clear \/ Reorder
  \/ \E n \in CookieNames : Del(n) \/ Pop(n) \/ UnsetCookie(n)
  \/ \E n \in CookieNames, v \in Values : Put(n, v) \/ SetDefault(n, v)
  \/ \E a \in Wanted, overwrite \in BOOLEAN : SetCookie(a, overwrite)
  \/ \E n \in CookieNames, p \in {"/", "/p"} : DeleteCookie(n, p)
  \/ \E p \in Profiles, w \in Whats : StoreProfile(p, w)
  \/ \E merge \in BOOLEAN : Answer(merge)

CookiesSpec == CookiesInit /\ [][CookiesNext]_cookiesVars

---------------------------------------------------------------------------
(* A signed profile reads nothing that it did not store before, whatever    *)
(* the client sends back.                                                   *)
OnlyIssued ==
  \A p \in Profiles : p.mark # "encoded" => \A w \in ProfileValue(p) : <<p.mark, w>> \in issued

(* req.cookies answers from the Cookie header as it is now, whoever wrote   *)
(* it and whatever was parsed before: the last cookie of a valid name; and  *)
(* of the signed ones among them only what was issued.                      *)
ReadsHeader ==
  /\ \A n \in DOMAIN Cached : Cached[n] = Last(Of(header, n)).value
  /\ DOMAIN Cached = {n \in CookieNames \ Attributes : \E i \in DOMAIN header : header[i].name = n}
  /\ OnlyIssued

\* What a name reads, or that it is not there, stays.
SameRead(m) ==
  /\ m \in DOMAIN Parse(header) <=> m \in DOMAIN Parse(header')
  /\ m \in DOMAIN Parse(header) => Parse(header')[m] = Parse(header)[m]

(* Setting or deleting one cookie of a request leaves what every other name *)
(* reads as it was, but for the names that the reader finds in the value    *)
(* that is set.  The name itself then reads the new value, if the reader    *)
(* does not stop in it, or is gone; when the header has the name twice the  *)
(* first is replaced and the last goes on being read.                       *)
EditsOne ==
  [][\A n \in CookieNames :
       /\ \A v \in Values : Put(n, v) =>
            /\ \A m \in CookieNames \ {n} : Carries(v, m) \/ SameRead(m)
            /\ Times(header, n) > 1 => SameRead(n)
            /\ Times(header, n) <= 1 /\ ~Stops(v) => n \in DOMAIN Parse(header') /\ Parse(header')[n] = v
       /\ Del(n) =>
            /\ \A m \in CookieNames \ {n} : SameRead(m)
            /\ IF Times(header, n) > 1 THEN SameRead(n) ELSE n \notin DOMAIN Parse(header')]_cookiesVars

Bare(s) == [i \in 1..Len(s) |-> [s[i] EXCEPT !.secure = FALSE, !.httponly = FALSE]]

(* Unsetting or overwriting one cookie of a response does not change the    *)
(* others: exactly, as long as no unset found its cookie; but for secure    *)
(* and HttpOnly, as long as every other name was set once, without          *)
(* SameSite=None and with a value that is read as it is written, and the    *)
(* value that goes is not read as other cookies too.                        *)
OthersSurvive ==
  phase = "busy" => \A n \in CookieNames :
    LET have == Of(cookies, n)
        want == Of(intended, n)
    IN (spoiled = "no" => have = want) /\ (spoiled = "flags" => Bare(have) = Bare(want))

(* What the application told the browser about a name in one place only is  *)
(* what the next request under that path reads, and what it deleted or      *)
(* never set is not read: unless the reader finds the name in another value *)
(* that is sent, or stops in its own.                                       *)
Remembered ==
  phase = "busy" /\ (\E s \in Presented(at) : header = PairsOf(s)) =>
    \A n \in CookieNames :
      LET known == {e \in told : e[1][2] \in {"/", at}}
          here  == {e \in known : e[1][1] = n}
      IN ~(\E e \in known : Carries(e[2], n)) =>
           /\ here = {} => n \notin DOMAIN Cached
           /\ \A e \in here : here = {e} /\ ~Stops(e[2]) => n \in DOMAIN Cached /\ Cached[n] = e[2]

(* Merging into an application leaves no cookie behind for the answers to   *)
(* later requests.  (A Response that is merged into keeps them.)            *)
NothingLeft == phase = "idle" /\ page.kind = "app" => sent \in {<<>>, cookies}

==================================================
