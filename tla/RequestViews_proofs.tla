------------------------ MODULE RequestViews_proofs ------------------------
(***************************************************************************)
(* Proofs about what a request shows of its environ: the query dict and the*)
(* Cache-Control object (EnvironViews), the routing arguments and the path *)
(* (Routing) and the cookies (Cookies), for any number of requests, any    *)
(* keys and paths and any cookies.                                         *)
(***************************************************************************)
EXTENDS EnvironViews, Routing, Cookies, Selection_proofs

---------------------------------------------------------------------------
(***************************************************************************)
(* EnvironViews.  For any number of requests, copies and view objects, the *)
(* objects in the caches are of the right kind (TypeOK) and a request's own*)
(* query dict shows its QUERY_STRING (OwnQueryCoherent).                   *)
(*                                                                         *)
(* OwnQueryCoherent is not inductive: it says nothing of a cached dict     *)
(* while its string is another one, and query_string = ... may bring the   *)
(* old string back.  Coherent says of every own dict that it agrees with   *)
(* the string it is cached with, used or not.  OfKind is needed beside it: *)
(* a change of a Cache-Control object must not be one of a cached query    *)
(* dict.  Makers says that an object was made by an environ that exists, so*)
(* that a new copy owns none.  Good states all three of any environs and   *)
(* any sequence of views, so that the helper operators, which are applied  *)
(* one after the other, can each be shown to preserve it.                  *)
(***************************************************************************)

OfKind(es, vs) ==
  \A r \in Reqs :
    /\ es[r].query.view # 0 => /\ es[r].query.view \in 1..Len(vs)
                               /\ vs[es[r].query.view].kind = "query"
    /\ es[r].cache.view # 0 => /\ es[r].cache.view \in 1..Len(vs)
                               /\ vs[es[r].cache.view].kind = "cc"

Coherent(es, vs) ==
  \A r \in Reqs :
    (es[r].query.view # 0 /\ vs[es[r].query.view].of = r)
      => vs[es[r].query.view].content = es[r].query.of.content

\* Every object was made by a request that is in L, so that a request that
\* comes to life with a copy finds no object of its own there.
Makers(vs, L) == \A i \in 1..Len(vs) : vs[i].of \in L

Good(es, vs, L) ==
  /\ es \in [Reqs -> Environ]
  /\ vs \in Seq(View)
  /\ OfKind(es, vs)
  /\ Coherent(es, vs)
  /\ Makers(vs, L)

ViewsInv ==
  /\ live \in SUBSET Reqs
  /\ last \in [req : Reqs, view : Nat]
  /\ Good(env, views, live)

\* The invariant contains the two properties.
LEMMA Inside == ViewsInv => TypeOK /\ OwnQueryCoherent
  BY DEF ViewsInv, Good, OfKind, Coherent, TypeOK, CacheKinds, OwnQueryCoherent, Fresh

\* A view appended to the views leaves the others where they were.
LEMMA Appended ==
  ASSUME NEW vs \in Seq(View), NEW x \in View
  PROVE  /\ Append(vs, x) \in Seq(View)
         /\ Len(Append(vs, x)) = Len(vs) + 1
         /\ \A i \in 1..Len(vs) : Append(vs, x)[i] = vs[i]
         /\ Append(vs, x)[Len(vs) + 1] = x
  OBVIOUS

\* A new environ that caches a new view of the right kind, and a coherent
\* query dict if that is what the view is, is as good as the old one.
LEMMA NewView ==
  ASSUME NEW es, NEW vs, NEW L, Good(es, vs, L), NEW r \in Reqs, NEW e \in Environ,
         NEW x \in View, x.of \in L,
         \/ /\ x.kind = "query"
            /\ e.query.view = Len(vs) + 1
            /\ x.content = e.query.of.content
            /\ e.cache = es[r].cache
         \/ /\ x.kind = "cc"
            /\ e.cache.view = Len(vs) + 1
            /\ e.query = es[r].query
  PROVE  Good([es EXCEPT ![r] = e], Append(vs, x), L)
<1> DEFINE ns == [es EXCEPT ![r] = e]
           nv == Append(vs, x)
<1>1. /\ es \in [Reqs -> Environ] /\ vs \in Seq(View)
      /\ OfKind(es, vs) /\ Coherent(es, vs) /\ Makers(vs, L)
  BY DEF Good
<1>2. /\ nv \in Seq(View) /\ Len(nv) = Len(vs) + 1 /\ Len(vs) \in Nat
      /\ \A i \in 1..Len(vs) : nv[i] = vs[i]
      /\ nv[Len(vs) + 1] = x
  BY <1>1, Appended
<1>3. /\ ns \in [Reqs -> Environ] /\ ns[r] = e
      /\ \A q \in Reqs : q # r => ns[q] = es[q]
  BY <1>1
<1> HIDE DEF ns, nv
<1>4. OfKind(ns, nv)
  <2> SUFFICES ASSUME NEW q \in Reqs
               PROVE  /\ ns[q].query.view # 0 => /\ ns[q].query.view \in 1..Len(nv)
                                                /\ nv[ns[q].query.view].kind = "query"
                      /\ ns[q].cache.view # 0 => /\ ns[q].cache.view \in 1..Len(nv)
                                                /\ nv[ns[q].cache.view].kind = "cc"
    BY DEF OfKind
  <2>1. /\ es[q].query.view # 0 => /\ es[q].query.view \in 1..Len(vs)
                                   /\ vs[es[q].query.view].kind = "query"
        /\ es[q].cache.view # 0 => /\ es[q].cache.view \in 1..Len(vs)
                                   /\ vs[es[q].cache.view].kind = "cc"
    BY <1>1 DEF OfKind
  <2>2. CASE q # r
    BY <1>2, <1>3, <2>1, <2>2
  <2>3. CASE q = r /\ x.kind = "query" 
    BY <1>2, <1>3, <2>1, <2>3
  <2>4. CASE q = r /\ x.kind = "cc"
    BY <1>2, <1>3, <2>1, <2>4
  <2> QED BY <2>2, <2>3, <2>4
<1>5. Coherent(ns, nv)
  <2> SUFFICES ASSUME NEW q \in Reqs, ns[q].query.view # 0, nv[ns[q].query.view].of = q
               PROVE  nv[ns[q].query.view].content = ns[q].query.of.content
    BY DEF Coherent
  <2>1. CASE q # r \/ x.kind = "cc"
    <3>1. ns[q].query = es[q].query
      BY <1>3, <2>1
    <3>2. es[q].query.view \in 1..Len(vs)
      BY <1>1, <3>1 DEF OfKind
    <3> QED BY <1>1, <1>2, <3>1, <3>2 DEF Coherent
  <2>2. CASE q = r /\ x.kind = "query"
    BY <1>2, <1>3, <2>2
  <2> QED BY <2>1, <2>2
<1>6. Makers(nv, L)
  BY <1>1, <1>2 DEF Makers
<1> QED BY <1>2, <1>3, <1>4, <1>5, <1>6 DEF Good, ns, nv

\* The present environ instead of itself changes nothing.
LEMMA SameEnviron ==
  ASSUME NEW es, NEW vs, NEW L, Good(es, vs, L), NEW r \in Reqs
  PROVE  [es EXCEPT ![r] = es[r]] = es /\ es[r] \in Environ
  BY DEF Good

\* The getter of GET returns a query dict, and good caches.
LEMMA GetQueryGood ==
  ASSUME NEW r \in live, live \subseteq Reqs, Good(env, views, live)
  PROVE  LET g == GetQuery(r)
         IN  /\ Good([env EXCEPT ![r] = g.e], g.views, live)
             /\ g.view \in 1..Len(g.views)
             /\ g.views[g.view].kind = "query"
<1> DEFINE e == env[r]
           x == [kind |-> "query", of |-> r, bound |-> TRUE, content |-> e.qs.content]
           n == [e EXCEPT !.query = [view |-> New, of |-> e.qs]]
<1>1. e \in Environ /\ views \in Seq(View) /\ Len(views) \in Nat /\ r \in Reqs
  BY DEF Good
<1>2. CASE Fresh(e.query, e.qs)
  <2>1. e.query.view \in 1..Len(views) /\ views[e.query.view].kind = "query"
    BY <1>2 DEF Good, OfKind, Fresh
  <2> QED BY <1>1, <1>2, <2>1, SameEnviron DEF GetQuery
<1>3. CASE ~Fresh(e.query, e.qs)
  <2>1. x \in View
    BY <1>1 DEF View, Environ, Spellings
  <2>2. n \in Environ /\ n.query.view = Len(views) + 1 /\ n.query.of = e.qs
        /\ n.cache = e.cache
    BY <1>1 DEF Environ, CacheEntry, New
  <2>3. x.kind = "query" /\ x.content = e.qs.content /\ x.of = r
    OBVIOUS
  <2>4. GetQuery(r) = [e |-> n, views |-> Append(views, x), view |-> New]
    BY <1>3 DEF GetQuery
  <2>5. Len(Append(views, x)) = Len(views) + 1 /\ Append(views, x)[Len(views) + 1] = x
    BY <1>1, <2>1, Appended
  <2> HIDE DEF x, n
  <2>6. Good([env EXCEPT ![r] = n], Append(views, x), live)
    BY <1>1, <2>1, <2>2, <2>3, NewView DEF e
  <2> QED BY <1>1, <2>3, <2>4, <2>5, <2>6 DEF New
<1> QED BY <1>2, <1>3

\* The getter of cache_control returns a Cache-Control object, and good caches.
LEMMA GetCacheControlGood ==
  ASSUME NEW r \in live, live \subseteq Reqs, Good(env, views, live)
  PROVE  LET g == GetCacheControl(r)
         IN  /\ Good([env EXCEPT ![r] = g.e], g.views, live)
             /\ g.view \in 1..Len(g.views)
             /\ g.views[g.view].kind = "cc"
<1> DEFINE e == env[r]
           x == [kind |-> "cc", of |-> r, bound |-> TRUE, content |-> e.cc.content]
           n == [e EXCEPT !.cache = [view |-> New, of |-> e.cc],
                          !.cc = IF @.content = Nothing THEN @ ELSE Spell(@.content)]
<1>1. e \in Environ /\ views \in Seq(View) /\ Len(views) \in Nat /\ r \in Reqs
  BY DEF Good
<1>2. CASE Fresh(e.cache, e.cc)
  <2>1. e.cache.view \in 1..Len(views) /\ views[e.cache.view].kind = "cc"
    BY <1>2 DEF Good, OfKind, Fresh
  <2> QED BY <1>1, <1>2, <2>1, SameEnviron DEF GetCacheControl
<1>3. CASE ~Fresh(e.cache, e.cc)
  <2>1. x \in View
    BY <1>1 DEF View, Environ, Spellings
  <2>2. n \in Environ /\ n.cache.view = Len(views) + 1 /\ n.query = e.query
    <3>1. [view |-> New, of |-> e.cc] \in CacheEntry
      BY <1>1 DEF Environ, CacheEntry, New
    <3>2. (IF e.cc.content = Nothing THEN e.cc ELSE Spell(e.cc.content)) \in Spellings
      BY <1>1 DEF Environ, Spellings, Spell
    <3> QED BY <1>1, <3>1, <3>2 DEF Environ, New
  <2>3. x.kind = "cc" /\ x.of = r
    OBVIOUS
  <2>4. GetCacheControl(r) = [e |-> n, views |-> Append(views, x), view |-> New]
    BY <1>3 DEF GetCacheControl
  <2>5. Len(Append(views, x)) = Len(views) + 1 /\ Append(views, x)[Len(views) + 1] = x
    BY <1>1, <2>1, Appended
  <2> HIDE DEF x, n
  <2>6. Good([env EXCEPT ![r] = n], Append(views, x), live)
    BY <1>1, <2>1, <2>2, <2>3, NewView DEF e
  <2> QED BY <1>1, <2>3, <2>4, <2>5, <2>6 DEF New
<1> QED BY <1>2, <1>3

\* A dict that changes writes the string and the cache of its own environ, so
\* that no environ is left with an own dict that differs from its string.
LEMMA OnChangeGood ==
  ASSUME NEW es, NEW vs, NEW L, Good(es, vs, L), NEW v \in 1..Len(vs), vs[v].kind = "query",
         NEW c \in Contents
  PROVE  Good(OnChange(es, vs, v, c).env, OnChange(es, vs, v, c).views, L)
<1> DEFINE o  == vs[v].of
           ns == [es EXCEPT ![o].qs = Spell(c), ![o].query = [view |-> v, of |-> Spell(c)]]
           nv == [vs EXCEPT ![v].content = c]
<1>1. /\ es \in [Reqs -> Environ] /\ vs \in Seq(View) /\ Len(vs) \in Nat /\ vs[v] \in View
      /\ OfKind(es, vs) /\ Coherent(es, vs) /\ Makers(vs, L)
  BY DEF Good
<1>2. o \in Reqs
  BY <1>1 DEF View
<1>3. /\ nv \in Seq(View) /\ Len(nv) = Len(vs)
      /\ \A i \in 1..Len(vs) : nv[i].kind = vs[i].kind /\ nv[i].of = vs[i].of
      /\ \A i \in 1..Len(vs) : i # v => nv[i] = vs[i]
      /\ nv[v].content = c
  BY <1>1 DEF View
<1>4. Spell(c) \in Spellings /\ Spell(c).content = c
  BY DEF Spell, Spellings
<1>5. /\ ns \in [Reqs -> Environ]
      /\ \A q \in Reqs : q # o => ns[q] = es[q]
      /\ ns[o].query = [view |-> v, of |-> Spell(c)] /\ ns[o].cache = es[o].cache
  <2>1. [view |-> v, of |-> Spell(c)] \in CacheEntry
    BY <1>1, <1>4 DEF CacheEntry
  <2> QED BY <1>1, <1>2, <1>4, <2>1 DEF Environ
<1>6. OnChange(es, vs, v, c) = [env |-> ns, views |-> nv]
  BY DEF OnChange
<1> HIDE DEF ns, nv
<1>7. OfKind(ns, nv)
  <2> SUFFICES ASSUME NEW q \in Reqs
               PROVE  /\ ns[q].query.view # 0 => /\ ns[q].query.view \in 1..Len(nv)
                                                /\ nv[ns[q].query.view].kind = "query"
                      /\ ns[q].cache.view # 0 => /\ ns[q].cache.view \in 1..Len(nv)
                                                /\ nv[ns[q].cache.view].kind = "cc"
    BY DEF OfKind
  <2>1. /\ es[q].query.view # 0 => /\ es[q].query.view \in 1..Len(vs)
                                   /\ vs[es[q].query.view].kind = "query"
        /\ es[q].cache.view # 0 => /\ es[q].cache.view \in 1..Len(vs)
                                   /\ vs[es[q].cache.view].kind = "cc"
    BY <1>1 DEF OfKind
  <2>2. CASE q = o
    <3>1. ns[q].query.view = v /\ ns[q].cache.view = es[q].cache.view
      BY <1>5, <2>2
    <3>2. nv[v].kind = "query" /\ v \in 1..Len(nv)
      BY <1>3
    <3>3. es[q].cache.view # 0 => /\ es[q].cache.view \in 1..Len(nv)
                                  /\ nv[es[q].cache.view].kind = "cc"
      BY <1>3, <2>1
    <3> QED
      BY <3>1, <3>2, <3>3
  <2>3. CASE q # o
    BY <1>1, <1>3, <1>5, <2>1, <2>3
  <2> QED BY <2>2, <2>3
<1>8. Coherent(ns, nv)
  <2> SUFFICES ASSUME NEW q \in Reqs, ns[q].query.view # 0, nv[ns[q].query.view].of = q
               PROVE  nv[ns[q].query.view].content = ns[q].query.of.content
    BY DEF Coherent
  <2>1. CASE q = o
    BY <1>3, <1>4, <1>5, <2>1
  <2>2. CASE q # o
    <3>1. ns[q] = es[q] /\ es[q].query.view \in 1..Len(vs)
      BY <1>1, <1>5, <2>2 DEF OfKind
    <3>2. es[q].query.view # v
      BY <1>3, <2>2, <3>1
    <3> QED BY <1>1, <1>3, <3>1, <3>2 DEF Coherent
  <2> QED BY <2>1, <2>2
<1>9. Makers(nv, L)
  BY <1>1, <1>3 DEF Makers
<1> QED BY <1>3, <1>5, <1>6, <1>7, <1>8, <1>9 DEF Good

\* A Cache-Control object that changes leaves the query strings and dicts alone.
LEMMA UpdateGood ==
  ASSUME NEW es, NEW vs, NEW L, Good(es, vs, L), NEW v \in 1..Len(vs), vs[v].kind = "cc",
         NEW c \in Contents
  PROVE  Good(Update(es, vs, v, c).env, Update(es, vs, v, c).views, L)
<1> DEFINE o  == vs[v].of
           ns == IF vs[v].bound THEN [es EXCEPT ![o].cc = Spell(c)] ELSE es
           nv == [vs EXCEPT ![v].content = c]
<1>1. /\ es \in [Reqs -> Environ] /\ vs \in Seq(View) /\ Len(vs) \in Nat /\ vs[v] \in View
      /\ OfKind(es, vs) /\ Coherent(es, vs) /\ Makers(vs, L)
  BY DEF Good
<1>2. o \in Reqs
  BY <1>1 DEF View
<1>3. /\ nv \in Seq(View) /\ Len(nv) = Len(vs)
      /\ \A i \in 1..Len(vs) : nv[i].kind = vs[i].kind /\ nv[i].of = vs[i].of
      /\ \A i \in 1..Len(vs) : i # v => nv[i] = vs[i]
  BY <1>1 DEF View
<1>4. Spell(c) \in Spellings
  BY DEF Spell, Spellings
<1>5. /\ ns \in [Reqs -> Environ]
      /\ \A q \in Reqs : /\ ns[q].query = es[q].query /\ ns[q].cache = es[q].cache
  BY <1>1, <1>2, <1>4 DEF Environ
<1>6. Update(es, vs, v, c) = [env |-> ns, views |-> nv]
  BY DEF Update
<1> HIDE DEF ns, nv
<1>7. OfKind(ns, nv)
  <2> SUFFICES ASSUME NEW q \in Reqs
               PROVE  /\ ns[q].query.view # 0 => /\ ns[q].query.view \in 1..Len(nv)
                                                /\ nv[ns[q].query.view].kind = "query"
                      /\ ns[q].cache.view # 0 => /\ ns[q].cache.view \in 1..Len(nv)
                                                /\ nv[ns[q].cache.view].kind = "cc"
    BY DEF OfKind
  <2>1. /\ es[q].query.view # 0 => /\ es[q].query.view \in 1..Len(vs)
                                   /\ vs[es[q].query.view].kind = "query"
        /\ es[q].cache.view # 0 => /\ es[q].cache.view \in 1..Len(vs)
                                   /\ vs[es[q].cache.view].kind = "cc"
    BY <1>1 DEF OfKind
  <2> QED BY <1>1, <1>3, <1>5, <2>1
<1>8. Coherent(ns, nv)
  <2> SUFFICES ASSUME NEW q \in Reqs, ns[q].query.view # 0, nv[ns[q].query.view].of = q
               PROVE  nv[ns[q].query.view].content = ns[q].query.of.content
    BY DEF Coherent
  <2>1. /\ es[q].query.view \in 1..Len(vs) /\ es[q].query.view # v
    BY <1>1, <1>5 DEF OfKind
  <2> QED BY <1>1, <1>3, <1>5, <2>1 DEF Coherent
<1>9. Makers(nv, L)
  BY <1>1, <1>3 DEF Makers
<1> QED BY <1>3, <1>5, <1>6, <1>7, <1>8, <1>9 DEF Good

\* Setting a string of one environ, or dropping its Cache-Control cache, is good:
\* what is said of the query dict is said whatever the string is.
LEMMA TextGood ==
  ASSUME NEW r \in Reqs, NEW s \in Texts, Good(env, views, live)
  PROVE  /\ Good([env EXCEPT ![r].cc = s], views, live)
         /\ Good([env EXCEPT ![r].cc = s, ![r].cache = NoCache], views, live)
         /\ Good([env EXCEPT ![r].qs = s], views, live)
<1>1. /\ env \in [Reqs -> Environ] /\ views \in Seq(View)
      /\ OfKind(env, views) /\ Coherent(env, views) /\ Makers(views, live)
      /\ s \in Spellings /\ NoCache \in CacheEntry /\ NoCache.view = 0
  BY ViewsAssumption DEF Good, Texts, NoCache, CacheEntry, Spell, Spellings
<1> DEFINE e1 == [env EXCEPT ![r].cc = s]
           e2 == [env EXCEPT ![r].cc = s, ![r].cache = NoCache]
           e3 == [env EXCEPT ![r].qs = s]
<1>2. /\ e1 \in [Reqs -> Environ]
      /\ \A q \in Reqs : /\ e1[q].query = env[q].query
                         /\ e1[q].cache = env[q].cache
  BY <1>1 DEF Environ
<1>3. /\ e2 \in [Reqs -> Environ]
      /\ \A q \in Reqs : /\ e2[q].query = env[q].query
                         /\ e2[q].cache = env[q].cache \/ e2[q].cache.view = 0
  BY <1>1 DEF Environ
<1>4. /\ e3 \in [Reqs -> Environ]
      /\ \A q \in Reqs : e3[q].query = env[q].query /\ e3[q].cache = env[q].cache
  BY <1>1 DEF Environ
<1> HIDE DEF e1, e2, e3
<1>5. OfKind(e1, views) /\ OfKind(e2, views) /\ OfKind(e3, views)
  BY <1>1, <1>2, <1>3, <1>4, SMTT(30) DEF OfKind
<1>6. Coherent(e1, views) /\ Coherent(e2, views) /\ Coherent(e3, views)
  BY <1>1, <1>2, <1>3, <1>4 DEF Coherent
<1>7. Good(e1, views, live) /\ Good(e2, views, live) /\ Good(e3, views, live)
  BY <1>1, <1>2, <1>3, <1>4, <1>5, <1>6 DEF Good
<1> QED BY <1>7 DEF e1, e2, e3

\* The initial environs cache nothing.
LEMMA Initially == ViewsInit => ViewsInv
<1> SUFFICES ASSUME ViewsInit PROVE ViewsInv
  OBVIOUS
<1>1. PICK q \in Texts, c \in Texts :
        env = [r \in Reqs |-> [qs |-> q, query |-> NoCache, cc |-> c, cache |-> NoCache]]
  BY DEF ViewsInit
<1>2. q \in Spellings /\ c \in Spellings /\ NoCache \in CacheEntry /\ NoCache.view = 0
  BY ViewsAssumption DEF Texts, NoCache, CacheEntry, Spell, Spellings
<1>3. /\ env \in [Reqs -> Environ]
      /\ \A r \in Reqs : env[r].query.view = 0 /\ env[r].cache.view = 0
  BY <1>1, <1>2 DEF Environ
<1>4. views = <<>> /\ views \in Seq(View)
  BY DEF ViewsInit
<1>5. live \in SUBSET Reqs /\ last \in [req : Reqs, view : Nat]
  BY ViewsAssumption DEF ViewsInit
<1> QED BY <1>3, <1>4, <1>5 DEF ViewsInv, Good, OfKind, Coherent, Makers

\* Every step preserves the invariant.
LEMMA Preserved == ViewsInv /\ [ViewsNext]_viewsVars => ViewsInv'
<1> SUFFICES ASSUME ViewsInv, [ViewsNext]_viewsVars
             PROVE  ViewsInv'
  OBVIOUS
<1>1. /\ live \in SUBSET Reqs /\ last \in [req : Reqs, view : Nat]
      /\ Good(env, views, live) /\ env \in [Reqs -> Environ] /\ views \in Seq(View)
      /\ Len(views) \in Nat
  BY DEF ViewsInv, Good
<1>a. ASSUME live' \in SUBSET Reqs, last'.req \in Reqs, last'.view \in Nat,
             last' = [req |-> last'.req, view |-> last'.view], Good(env', views', live')
      PROVE  ViewsInv'
  BY <1>a DEF ViewsInv, Good, OfKind, Coherent, Makers
<1>2. ASSUME NEW r \in live, ReadGET(r) PROVE ViewsInv'
  <2> DEFINE g == GetQuery(r)
  <2>1. Good([env EXCEPT ![r] = g.e], g.views, live) /\ g.view \in 1..Len(g.views)
    BY <1>1, GetQueryGood
  <2>2. /\ env' = [env EXCEPT ![r] = g.e] /\ views' = g.views
        /\ last' = [req |-> r, view |-> g.view] /\ live' = live
    BY <1>2 DEF ReadGET
  <2>3. Len(g.views) \in Nat
    BY <2>1 DEF Good
  <2> HIDE DEF g
  <2> QED BY <1>1, <1>a, <2>1, <2>2, <2>3
<1>3. ASSUME NEW r \in live, ChangeGET(r) PROVE ViewsInv'
  <2> DEFINE g == GetQuery(r)
             E == [env EXCEPT ![r] = g.e]
  <2>1. PICK c \in Contents : LET x == OnChange(E, g.views, g.view, c)
                              IN  /\ env' = x.env /\ views' = x.views
                                  /\ last' = [req |-> r, view |-> g.view]
                                  /\ UNCHANGED live
    BY <1>3 DEF ChangeGET
  <2>2. Good(E, g.views, live) /\ g.view \in 1..Len(g.views) /\ g.views[g.view].kind = "query"
    BY <1>1, GetQueryGood
  <2>3. Len(g.views) \in Nat
    BY <2>2 DEF Good
  <2> HIDE DEF g, E
  <2>4. Good(env', views', live')
    BY <2>1, <2>2, OnChangeGood
  <2> QED BY <1>1, <2>1, <2>2, <2>3, <2>4, <1>a
<1>4. ASSUME NEW r \in live, SetQueryString(r) PROVE ViewsInv'
  <2>1. PICK s \in Texts : env' = [env EXCEPT ![r].qs = s]
    BY <1>4 DEF SetQueryString
  <2>2. views' = views /\ live' = live /\ last' = [req |-> r, view |-> 0]
    BY <1>4 DEF SetQueryString
  <2>3. Good(env', views', live')
    BY <1>1, <2>1, <2>2, TextGood
  <2> QED BY <1>1, <1>a, <2>2, <2>3
<1>5. ASSUME NEW r \in live, ReadCacheControl(r) PROVE ViewsInv'
  <2> DEFINE g == GetCacheControl(r)
  <2>1. Good([env EXCEPT ![r] = g.e], g.views, live) /\ g.view \in 1..Len(g.views)
    BY <1>1, GetCacheControlGood
  <2>2. /\ env' = [env EXCEPT ![r] = g.e] /\ views' = g.views
        /\ last' = [req |-> r, view |-> g.view] /\ live' = live
    BY <1>5 DEF ReadCacheControl
  <2>3. Len(g.views) \in Nat
    BY <2>1 DEF Good
  <2> HIDE DEF g
  <2> QED BY <1>1, <1>a, <2>1, <2>2, <2>3
<1>6. ASSUME NEW r \in live, ChangeCacheControl(r) PROVE ViewsInv'
  <2> DEFINE g == GetCacheControl(r)
             E == [env EXCEPT ![r] = g.e]
  <2>1. PICK c \in Contents : LET x == Update(E, g.views, g.view, c)
                              IN  /\ env' = x.env /\ views' = x.views
                                  /\ last' = [req |-> r, view |-> g.view]
                                  /\ UNCHANGED live
    BY <1>6 DEF ChangeCacheControl
  <2>2. Good(E, g.views, live) /\ g.view \in 1..Len(g.views) /\ g.views[g.view].kind = "cc"
    BY <1>1, GetCacheControlGood
  <2>3. Len(g.views) \in Nat
    BY <2>2 DEF Good
  <2> HIDE DEF g, E
  <2>4. Good(env', views', live')
    BY <2>1, <2>2, UpdateGood
  <2> QED BY <1>1, <2>1, <2>2, <2>3, <2>4, <1>a
<1>7. ASSUME NEW r \in live, AssignCacheControl(r) PROVE ViewsInv'
  <2>1. PICK c \in Contents :
          /\ views' = Append(views, [kind |-> "cc", of |-> r, bound |-> FALSE, content |-> c])
          /\ env' = [env EXCEPT ![r].cc = Spell(c),
                                ![r].cache = [view |-> New, of |-> Spell(c)]]
          /\ last' = [req |-> r, view |-> New]
          /\ UNCHANGED live
    BY <1>7 DEF AssignCacheControl
  <2> DEFINE x == [kind |-> "cc", of |-> r, bound |-> FALSE, content |-> c]
             n == [env[r] EXCEPT !.cc = Spell(c), !.cache = [view |-> New, of |-> Spell(c)]]
  <2>2. r \in Reqs /\ x \in View /\ x.kind = "cc" /\ x.of = r
    BY <1>1 DEF View
  <2>3. Spell(c) \in Spellings /\ New \in Nat
    BY <1>1 DEF Spell, Spellings, New
  <2>4. n \in Environ /\ n.cache.view = Len(views) + 1 /\ n.query = env[r].query
    BY <1>1, <2>2, <2>3 DEF Environ, CacheEntry, New
  <2>5. env' = [env EXCEPT ![r] = n] /\ views' = Append(views, x)
    BY <1>1, <2>1
  <2> HIDE DEF x, n
  <2>6. Good(env', views', live')
    <3>1. Good([env EXCEPT ![r] = n], Append(views, x), live)
      BY <1>1, <2>2, <2>4, NewView
    <3> QED BY <2>1, <2>5, <3>1
  <2> QED BY <1>1, <2>1, <2>2, <2>3, <2>6, <1>a
<1>8. ASSUME NEW r \in live, AssignCacheControlText(r) PROVE ViewsInv'
  <2>1. PICK s \in Texts : env' = [env EXCEPT ![r].cc = s, ![r].cache = NoCache]
    BY <1>8 DEF AssignCacheControlText
  <2>2. views' = views /\ live' = live /\ last' = [req |-> r, view |-> 0]
    BY <1>8 DEF AssignCacheControlText
  <2>3. Good(env', views', live')
    BY <1>1, <2>1, <2>2, TextGood
  <2> QED BY <1>1, <1>a, <2>2, <2>3
<1>9. ASSUME NEW r \in live, SetCacheControlHeader(r) PROVE ViewsInv'
  <2>1. PICK s \in Texts : env' = [env EXCEPT ![r].cc = s]
    BY <1>9 DEF SetCacheControlHeader
  <2>2. views' = views /\ live' = live /\ last' = [req |-> r, view |-> 0]
    BY <1>9 DEF SetCacheControlHeader
  <2>3. Good(env', views', live')
    BY <1>1, <2>1, <2>2, TextGood
  <2> QED BY <1>1, <1>a, <2>2, <2>3
<1>10. ASSUME NEW r \in live, NEW q \in Reqs, Copy(r, q) PROVE ViewsInv'
  <2>1. /\ env' = [env EXCEPT ![q] = env[r]] /\ views' = views
        /\ live' = live \cup {q} /\ last' = [req |-> r, view |-> 0]
    BY <1>10 DEF Copy
  <2>2. env' \in [Reqs -> Environ] /\ OfKind(env', views')
    BY <1>1, <2>1 DEF Good, OfKind
  <2>3. Coherent(env', views')
    <3>1. q \notin live
      BY <1>10 DEF Copy
    <3> QED BY <1>1, <2>1, <3>1 DEF Good, OfKind, Coherent, Makers
  <2>4. Makers(views', live')
    BY <1>1, <2>1 DEF Good, Makers
  <2> QED BY <1>1, <1>a, <2>1, <2>2, <2>3, <2>4 DEF Good
<1>11. ASSUME NEW v \in 1..Len(views), ChangeHeldGET(v) PROVE ViewsInv'
  <2>1. PICK c \in Contents : LET x == OnChange(env, views, v, c)
                              IN  /\ views[v].kind = "query"
                                  /\ env' = x.env /\ views' = x.views
                                  /\ last' = [req |-> views[v].of, view |-> v]
                                  /\ UNCHANGED live
    BY <1>11 DEF ChangeHeldGET
  <2>2. Good(env', views', live')
    BY <1>1, <2>1, OnChangeGood
  <2>3. views[v].of \in Reqs /\ v \in Nat
    <3>1. views[v] \in View
      BY <1>1
    <3> QED BY <1>1, <3>1 DEF View
  <2> QED BY <1>1, <2>1, <2>2, <2>3, <1>a
<1>12. ASSUME NEW v \in 1..Len(views), ChangeHeldCacheControl(v) PROVE ViewsInv'
  <2>1. PICK c \in Contents : LET x == Update(env, views, v, c)
                              IN  /\ views[v].kind = "cc"
                                  /\ env' = x.env /\ views' = x.views
                                  /\ last' = [req |-> views[v].of, view |-> v]
                                  /\ UNCHANGED live
    BY <1>12 DEF ChangeHeldCacheControl
  <2>2. Good(env', views', live')
    BY <1>1, <2>1, UpdateGood
  <2>3. views[v].of \in Reqs /\ v \in Nat
    <3>1. views[v] \in View
      BY <1>1
    <3> QED BY <1>1, <3>1 DEF View
  <2> QED BY <1>1, <2>1, <2>2, <2>3, <1>a
<1>13. CASE UNCHANGED viewsVars
  BY <1>1, <1>13 DEF viewsVars, ViewsInv, Good, OfKind, Coherent, Makers
<1> QED
  BY <1>2, <1>3, <1>4, <1>5, <1>6, <1>7, <1>8, <1>9, <1>10, <1>11, <1>12, <1>13 DEF ViewsNext

\* The inductive invariant holds of every behaviour.
THEOREM Invariance == ViewsSpec => []ViewsInv
  BY Initially, Preserved, PTL DEF ViewsSpec

\* The caches of every request hold objects that exist, of the right kind,
\* however the environs are copied and the objects shared.
THEOREM CachesTyped == ViewsSpec => []TypeOK
  BY Invariance, Inside, PTL

\* req.GET shows what QUERY_STRING says as long as the cached dict is the
\* request's own, for any number of copies and of dicts still held.
THEOREM OwnQueryIsCoherent == ViewsSpec => []OwnQueryCoherent
  BY Invariance, Inside, PTL

---------------------------------------------------------------------------
(***************************************************************************)
(* Routing.  req.urlargs and req.urlvars are two independent values,       *)
(* whatever keys the environ has and in whatever order they are set,       *)
(* deleted and filled (src/webob/request.py 549-641), and the dictionary   *)
(* that the application holds stays the live one; SCRIPT_NAME and PATH_INFO*)
(* together name what was asked for, however the path was moved and set,   *)
(* and path_info_peek and path_info_pop agree (src/webob/request.py        *)
(* 643-708): for any keys, arguments, dictionaries and names.              *)
(***************************************************************************)

(* Every name for a dictionary is one that was made, and a dictionary only  *)
(* has keys: what reading and converting them rests on.                     *)
Made == 1..Len(heap)
DictsExist ==
  /\ heap \in Seq(SUBSET Keys)
  /\ paste \in Made \cup {0}
  /\ routing = <<>> \/ \E a \in Args \cup {"()"}, d \in Made : routing = Pair(a, d)
  /\ held \in Made \cup {0}

---------------------------------------------------------------------------
(* What the two getters make of the keys.                                   *)

LEMMA OfPair ==
  ASSUME NEW a, NEW d
  PROVE  Pair(a, d) # <<>> /\ Pair(a, d)[1].args = a /\ Pair(a, d)[1].dict = d
  BY DEF Pair

(* The getter of urlvars returns a dictionary that exists, or there is      *)
(* neither key, and no arguments then.                                      *)
LEMMA VarsExist ==
  ASSUME DictsExist
  PROVE  /\ VarsDict \in Made \cup {0}
         /\ VarsDict = 0 <=> paste = 0 /\ routing = <<>>
         /\ VarsDict # 0 => heap[VarsDict] \in SUBSET Keys
         /\ Urlvars \in SUBSET Keys
         /\ Urlargs \in Args \cup {"()"}
<1>1. Len(heap) \in Nat BY DEF DictsExist
<1>2. CASE routing = <<>> BY <1>1, <1>2 DEF DictsExist, Made, VarsDict, Urlvars, Urlargs
<1>3. CASE routing # <<>>
  <2>1. PICK a \in Args \cup {"()"}, d \in Made : routing = Pair(a, d) BY <1>3 DEF DictsExist
  <2>2. routing[1].args = a /\ routing[1].dict = d BY <2>1, OfPair
  <2> QED BY <1>1, <1>3, <2>2 DEF DictsExist, Made, VarsDict, Urlvars, Urlargs
<1> QED BY <1>2, <1>3

(* A dictionary that is made is new and leaves the others as they are.      *)
LEMMA Making ==
  ASSUME DictsExist, NEW c \in SUBSET Keys, heap' = Append(heap, c)
  PROVE  /\ heap' \in Seq(SUBSET Keys) /\ Len(heap') = NewDict /\ NewDict \in Made' /\ NewDict # 0
         /\ NewDict \notin Made
         /\ heap'[NewDict] = c
         /\ \A d \in Made : d \in Made' /\ heap'[d] = heap[d]
  BY DEF DictsExist, Made, NewDict

---------------------------------------------------------------------------
LEMMA InitExist == RoutingInit => DictsExist
<1> SUFFICES ASSUME RoutingInit PROVE DictsExist OBVIOUS
<1>1. CASE part = "vars"
  <2>1. PICK c \in SUBSET Keys, d \in SUBSET Keys : heap = <<c, d>> BY <1>1 DEF RoutingInit
  <2>2. heap \in Seq(SUBSET Keys) /\ Len(heap) = 2 /\ Made = 1..2 BY <2>1 DEF Made
  <2> QED BY <1>1, <2>2 DEF RoutingInit, DictsExist
<1>2. CASE part = "path" BY <1>2 DEF RoutingInit, DictsExist, Made
<1> QED BY <1>1, <1>2 DEF RoutingInit

LEMMA OfPath == ASSUME OnPath PROVE UNCHANGED onvars
  BY DEF OnPath, Ask, Route, Serve, Follow

(* What exists stays when dictionaries are added, and a new one exists.     *)
LEMMA ExistNow ==
  ASSUME DictsExist
  PROVE  \E n \in Nat : /\ n = Len(heap) /\ heap \in Seq(SUBSET Keys) /\ NewDict = n + 1 /\ Made = 1..n
                        /\ paste \in 0..n /\ held \in 0..n
                        /\ routing = <<>> \/ \E a \in Args \cup {"()"}, d \in 1..n : routing = Pair(a, d)
<1>1. PICK n \in Nat : n = Len(heap)
  BY DEF DictsExist
<1>2. heap \in Seq(SUBSET Keys) /\ NewDict = n + 1 /\ Made = 1..n
  BY <1>1 DEF DictsExist, Made, NewDict
<1>3. paste \in Made \cup {0} /\ held \in Made \cup {0}
  BY DEF DictsExist
<1>4. paste \in 0..n /\ held \in 0..n
  BY <1>2, <1>3
<1>5. routing = <<>> \/ \E a \in Args \cup {"()"}, d \in 1..n : routing = Pair(a, d)
  BY <1>2 DEF DictsExist
<1> QED
  BY <1>1, <1>2, <1>4, <1>5

LEMMA ExistWith ==
  ASSUME NEW n \in Nat, heap' \in Seq(SUBSET Keys), Len(heap') = n, paste' \in 0..n, held' \in 0..n,
         routing' = <<>> \/ \E a \in Args \cup {"()"}, d \in 1..n : routing' = Pair(a, d)
  PROVE  DictsExist'
<1>1. \A x \in 0..n : x \in 1..n \cup {0}
  OBVIOUS
<1>2. Made' = 1..n
  BY DEF Made
<1> QED
  BY <1>1, <1>2 DEF DictsExist

LEMMA ExistMade ==
  ASSUME DictsExist, NEW c \in SUBSET Keys, heap' = Append(heap, c),
         paste' \in {0, NewDict, paste}, held' \in {NewDict, held},
         routing' = routing \/ \E a \in Args \cup {"()"} : routing' = Pair(a, NewDict)
  PROVE  DictsExist'
<1>1. PICK n \in Nat : /\ n = Len(heap) /\ heap \in Seq(SUBSET Keys) /\ NewDict = n + 1 /\ Made = 1..n
                       /\ paste \in 0..n /\ held \in 0..n
                       /\ routing = <<>> \/ \E a \in Args \cup {"()"}, d \in 1..n : routing = Pair(a, d)
  BY ExistNow
<1>2. heap' \in Seq(SUBSET Keys) /\ Len(heap') = n + 1
  BY <1>1, Making
<1>3. \A x : x \in 0..n => x \in 0..(n + 1)
  BY <1>1
<1>4. \A d : d \in 1..n => d \in 1..(n + 1)
  BY <1>1
<1>5. 0 \in 0..(n + 1) /\ n + 1 \in 0..(n + 1) /\ n + 1 \in 1..(n + 1) /\ n + 1 \in Nat
  BY <1>1
<1>6. paste' \in 0..(n + 1) /\ held' \in 0..(n + 1)
  BY <1>1, <1>3, <1>5
<1>7. routing' = <<>> \/ \E a \in Args \cup {"()"}, d \in 1..(n + 1) : routing' = Pair(a, d)
  <2>1. CASE routing' = routing
    BY <2>1, <1>1, <1>4
  <2>2. CASE \E a \in Args \cup {"()"} : routing' = Pair(a, NewDict)
    BY <2>2, <1>1, <1>5
  <2> QED
    BY <2>1, <2>2
<1> QED
  BY ONLY <1>2, <1>5, <1>6, <1>7, ExistWith

LEMMA ExistEmpty ==
  ASSUME DictsExist, heap' = Append(heap, {}), paste' \in {0, paste}, held' \in {NewDict, held},
         NEW a \in Args \cup {"()"}, routing' = Pair(a, NewDict)
  PROVE  DictsExist'
<1>1. {} \in SUBSET Keys
  OBVIOUS
<1>2. paste' \in {0, NewDict, paste}
  OBVIOUS
<1>3. routing' = routing \/ \E x \in Args \cup {"()"} : routing' = Pair(x, NewDict)
  OBVIOUS
<1> QED
  BY ONLY DictsExist, heap' = Append(heap, {}), held' \in {NewDict, held}, <1>1, <1>2, <1>3, ExistMade

LEMMA ExistKept ==
  ASSUME DictsExist, heap' \in Seq(SUBSET Keys), Len(heap') = Len(heap),
         paste' \in Made \cup {0, paste}, held' \in Made \cup {0, held},
         routing' = <<>> \/ routing' = routing \/ \E a \in Args \cup {"()"}, d \in Made : routing' = Pair(a, d)
  PROVE  DictsExist'
<1>1. PICK n \in Nat : /\ n = Len(heap) /\ heap \in Seq(SUBSET Keys) /\ NewDict = n + 1 /\ Made = 1..n
                       /\ paste \in 0..n /\ held \in 0..n
                       /\ routing = <<>> \/ \E a \in Args \cup {"()"}, d \in 1..n : routing = Pair(a, d)
  BY ExistNow
<1>2. \A d : d \in 1..n => d \in 0..n
  OBVIOUS
<1>3. paste' \in 0..n /\ held' \in 0..n
  BY <1>1, <1>2
<1>4. routing' = <<>> \/ \E a \in Args \cup {"()"}, d \in 1..n : routing' = Pair(a, d)
  BY <1>1
<1>5. heap' \in Seq(SUBSET Keys) /\ Len(heap') = n
  BY <1>1
<1> QED
  BY ONLY <1>3, <1>4, <1>5, n \in Nat, ExistWith

LEMMA StepExist == ASSUME DictsExist, [RoutingNext]_routingVars PROVE DictsExist'
<1>1. heap \in Seq(SUBSET Keys)
  BY DEF DictsExist
<1>2. CASE GetVars
  <2>1. CASE VarsDict # 0
    <3>1. VarsDict \in Made
      BY <2>1, VarsExist
    <3>2. heap' = heap /\ paste' = paste /\ routing' = routing /\ held' = VarsDict
      BY <1>2, <2>1 DEF GetVars
    <3> QED
      BY <1>1, <3>1, <3>2, ExistKept
  <2>2. CASE VarsDict = 0
    <3>1. heap' = Append(heap, {}) /\ paste' = paste /\ held' = NewDict /\ routing' = Pair("()", NewDict)
      BY <1>2, <2>2 DEF GetVars
    <3>2. "()" \in Args \cup {"()"} /\ paste' \in {0, paste} /\ held' \in {NewDict, held}
      BY <3>1
    <3> QED
      BY ONLY DictsExist, <3>1, <3>2, ExistEmpty
  <2> QED
    BY <2>1, <2>2
<1>3. CASE DelVars
  <2>1. CASE routing = <<>> \/ routing[1].args = "()"
    <3>1. heap' = heap /\ paste' = 0 /\ routing' = <<>> /\ held' = held
      BY <1>3, <2>1 DEF DelVars
    <3> QED
      BY <1>1, <3>1, ExistKept
  <2>2. CASE ~(routing = <<>> \/ routing[1].args = "()")
    <3>1. routing[1].args \in Args \cup {"()"}
      BY <2>2, VarsExist DEF Urlargs
    <3>2. heap' = Append(heap, {}) /\ paste' = 0 /\ routing' = Pair(routing[1].args, NewDict) /\ held' = held
      BY <1>3, <2>2 DEF DelVars
    <3>3. paste' \in {0, paste} /\ held' \in {NewDict, held}
      BY <3>2
    <3> QED
      BY ONLY DictsExist, <3>1, <3>2, <3>3, ExistEmpty
  <2> QED
    BY <2>1, <2>2
<1>4. CASE DelArgs
  <2>1. PICK a \in Args \cup {"()"}, d \in Made : routing = Pair(a, d)
    BY <1>4 DEF DelArgs, DictsExist
  <2>2. routing[1].dict = d
    BY <2>1, OfPair
  <2>3. /\ heap' = heap /\ held' = held /\ paste' \in {0, paste, d}
        /\ routing' \in {<<>>, routing, Pair("()", d)}
    BY <1>4, <2>2 DEF DelArgs
  <2> QED
    BY <1>1, <2>3, ExistKept
<1>5. ASSUME NEW c \in SUBSET Keys, SetVars(c) PROVE DictsExist'
  <2>1. heap' = Append(heap, c) /\ held' = NewDict
    BY <1>5 DEF SetVars
  <2>2. paste' \in {0, NewDict, paste}
    BY <1>5 DEF SetVars
  <2>3. routing' = routing \/ \E a \in Args \cup {"()"} : routing' = Pair(a, NewDict)
    BY <1>5, VarsExist DEF SetVars, Urlargs
  <2> QED
    BY <2>1, <2>2, <2>3, ExistMade
<1>6. ASSUME NEW a \in Args, SetArgs(a) PROVE DictsExist'
  <2>1. CASE Taken = 0
    <3>1. Kept(Taken) = NewDict
      BY <2>1 DEF Kept
    <3>2. heap' = Append(heap, {}) /\ paste' = 0 /\ routing' = Pair(a, NewDict) /\ held' = held
      BY <1>6, <2>1, <3>1 DEF SetArgs
    <3>3. paste' \in {0, paste} /\ held' \in {NewDict, held} /\ a \in Args \cup {"()"}
      BY <3>2
    <3> QED
      BY ONLY DictsExist, <3>2, <3>3, ExistEmpty
  <2>2. CASE Taken # 0
    <3>1. Taken \in Made
      BY <2>2, VarsExist DEF Taken
    <3>2. Kept(Taken) = Taken /\ Taken # NewDict
      BY <2>2, <3>1, ExistNow DEF Kept
    <3>3. heap' = heap /\ paste' = 0 /\ routing' = Pair(a, Taken) /\ held' = held
      BY <1>6, <3>2 DEF SetArgs
    <3> QED
      BY <1>1, <3>1, <3>3, ExistKept
  <2> QED
    BY <2>1, <2>2
<1>7. ASSUME NEW k \in Keys, Fill(k) PROVE DictsExist'
  <2>1. held \in Made /\ heap[held] \cup {k} \in SUBSET Keys
    BY <1>7 DEF Fill, DictsExist, Made
  <2>2. heap' \in Seq(SUBSET Keys) /\ Len(heap') = Len(heap)
    BY <1>1, <1>7, <2>1 DEF Fill, Made
  <2>3. paste' = paste /\ held' = held /\ routing' = routing
    BY <1>7 DEF Fill
  <2> QED
    BY <2>2, <2>3, ExistKept
<1>8. CASE UNCHANGED onvars
  BY <1>1, <1>8, ExistKept DEF onvars
<1>9. CASE OnPath
  BY <1>8, <1>9, OfPath
<1>10. CASE UNCHANGED routingVars
  BY <1>8, <1>10 DEF routingVars
<1> QED
  BY <1>2, <1>3, <1>4, <1>5, <1>6, <1>7, <1>9, <1>10 DEF RoutingNext

(* The keys of the environ name dictionaries that exist.                    *)
THEOREM DictionariesExist == RoutingSpec => []DictsExist
<1>1. RoutingInit => DictsExist BY InitExist
<1>2. DictsExist /\ [RoutingNext]_routingVars => DictsExist' BY StepExist
<1> QED BY <1>1, <1>2, PTL DEF RoutingSpec

---------------------------------------------------------------------------
(* A step is one of the pair, or leaves the pair as it is.                  *)

LEMMA InitPair == RoutingInit => RP!Init
<1> SUFFICES ASSUME RoutingInit PROVE RP!Init OBVIOUS
<1>1. DictsExist BY InitExist
<1> QED BY <1>1, VarsExist DEF RP!Init

LEMMA StepPair ==
  ASSUME DictsExist, [RoutingNext]_routingVars PROVE [RP!Next]_<<Urlargs, Urlvars>>
<1>1. DictsExist' BY StepExist
<1>2. CASE GetVars
  <2>1. CASE VarsDict # 0
    <3>1. UNCHANGED <<paste, routing, heap>> BY <1>2, <2>1 DEF GetVars
    <3> QED BY <3>1 DEF Urlargs, Urlvars, VarsDict
  <2>2. CASE VarsDict = 0
    <3>1. paste = 0 /\ routing = <<>> /\ paste' = 0 /\ heap' = Append(heap, {}) /\ routing' = Pair("()", NewDict)
      BY <1>2, <2>2, VarsExist DEF GetVars
    <3>2. Urlargs' = "()" /\ VarsDict' = NewDict BY <3>1, OfPair DEF Urlargs, VarsDict
    <3>3. Urlvars' = {} BY <3>1, <3>2, Making DEF Urlvars
    <3> QED BY <2>2, <3>1, <3>2, <3>3 DEF Urlargs, Urlvars
  <2> QED BY <2>1, <2>2
<1>3. CASE DelVars
  <2>1. CASE routing = <<>> \/ routing[1].args = "()"
    BY <1>3, <2>1 DEF DelVars, Urlargs, Urlvars, VarsDict, RP!Next, RP!DelVars
  <2>2. CASE ~(routing = <<>> \/ routing[1].args = "()")
    <3>1. paste' = 0 /\ heap' = Append(heap, {}) /\ routing' = Pair(routing[1].args, NewDict)
      BY <1>3, <2>2 DEF DelVars
    <3>2. Urlargs' = Urlargs /\ VarsDict' = NewDict BY <2>2, <3>1, OfPair DEF Urlargs, VarsDict
    <3>3. Urlvars' = {} BY <3>1, <3>2, Making DEF Urlvars
    <3> QED BY <3>2, <3>3 DEF RP!Next, RP!DelVars
  <2> QED BY <2>1, <2>2
<1>4. CASE DelArgs
  <2>1. PICK a \in Args \cup {"()"}, d \in Made : routing = Pair(a, d)
    BY <1>4 DEF DelArgs, DictsExist
  <2>2. routing # <<>> /\ routing[1].dict = d BY <2>1, OfPair
  <2>3. paste' = paste /\ heap' = heap BY <1>4 DEF DelArgs
  <2>4. d # 0 BY DEF Made, DictsExist
  <2>5. CASE heap[d] = {}
    <3>1. routing' = <<>> BY <1>4, <2>2, <2>5 DEF DelArgs
    <3> QED BY <2>2, <2>3, <2>4, <2>5, <3>1 DEF Urlargs, Urlvars, VarsDict, RP!Next, RP!DelArgs
  <2>6. CASE heap[d] # {}
    <3>1. routing' = Pair("()", d) BY <1>4, <2>2, <2>6 DEF DelArgs
    <3>2. routing' # <<>> /\ routing'[1].args = "()" /\ routing'[1].dict = d BY <3>1, OfPair
    <3> QED BY <2>2, <2>3, <3>2 DEF Urlargs, Urlvars, VarsDict, RP!Next, RP!DelArgs
  <2> QED BY <2>5, <2>6
<1>5. ASSUME NEW c \in SUBSET Keys, SetVars(c) PROVE RP!SetVars(c)
  <2>1. heap' = Append(heap, c) /\ NewDict # 0 BY <1>5, Making DEF SetVars
  <2>2. Urlargs' = Urlargs /\ VarsDict' = NewDict BY <1>5, <2>1, OfPair DEF SetVars, Urlargs, VarsDict
  <2>3. Urlvars' = c BY <2>1, <2>2, Making DEF Urlvars
  <2> QED BY <2>2, <2>3 DEF RP!SetVars
<1>6. ASSUME NEW a \in Args, SetArgs(a) PROVE RP!SetArgs(a)
  <2>1. paste' = 0 /\ routing' = Pair(a, Kept(Taken)) BY <1>6 DEF SetArgs
  <2>2. Urlargs' = a /\ VarsDict' = Kept(Taken) BY <2>1, OfPair DEF Urlargs, VarsDict
  <2>3. CASE Taken = 0
    <3>1. Kept(Taken) = NewDict BY <2>3 DEF Kept
    <3>2. heap' = Append(heap, {}) BY <1>6, <2>3, <3>1 DEF SetArgs
    <3>3. Urlvars' = {} BY <2>2, <3>1, <3>2, Making DEF Urlvars
    <3> QED BY <2>2, <2>3, <3>3 DEF RP!SetArgs, Taken, Urlvars
  <2>4. CASE Taken # 0
    <3>1. Taken \in Made BY <2>4, VarsExist DEF Taken
    <3>2. Kept(Taken) = Taken /\ Taken # NewDict BY <2>4, <3>1 DEF Kept, Made, NewDict, DictsExist
    <3>3. heap' = heap BY <1>6, <3>2 DEF SetArgs
    <3> QED BY <2>2, <2>4, <3>2, <3>3 DEF RP!SetArgs, Taken, Urlvars
  <2> QED BY <2>3, <2>4
<1>7. ASSUME NEW k \in Keys, Fill(k) PROVE [RP!Fill(k)]_<<Urlargs, Urlvars>>
  <2>1. held # 0 /\ held \in Made /\ heap' = [heap EXCEPT ![held] = @ \cup {k}]
        /\ UNCHANGED <<paste, routing>>
    BY <1>7 DEF Fill, DictsExist
  <2>2. Urlargs' = Urlargs /\ VarsDict' = VarsDict BY <2>1 DEF Urlargs, VarsDict
  <2>3. CASE held = VarsDict
    <3>1. heap'[held] = heap[held] \cup {k} BY <2>1 DEF DictsExist, Made
    <3> QED BY <2>1, <2>2, <2>3, <3>1 DEF Urlvars, RP!Fill
  <2>4. CASE held # VarsDict
    <3>1. VarsDict # 0 => heap'[VarsDict] = heap[VarsDict] BY <2>1, <2>4, VarsExist DEF DictsExist, Made
    <3> QED BY <2>2, <3>1 DEF Urlvars
  <2> QED BY <2>3, <2>4
<1>8. CASE UNCHANGED onvars BY <1>8 DEF onvars, Urlargs, Urlvars, VarsDict
<1>9. CASE UNCHANGED routingVars BY <1>8, <1>9 DEF routingVars
<1> QED BY <1>2, <1>3, <1>4, <1>5, <1>6, <1>7, <1>8, <1>9, OfPath DEF RoutingNext, RP!Next

(* urlargs and urlvars over the two keys of the environ implement a pair of *)
(* values that are set, deleted and filled on their own.                    *)
THEOREM ImplementsPair == RoutingSpec => RefinesPair
<1>1. RoutingInit => RP!Init BY InitPair
<1>2. DictsExist /\ [RoutingNext]_routingVars => [RP!Next]_<<Urlargs, Urlvars>> BY StepPair
<1> QED BY <1>1, <1>2, DictionariesExist, PTL DEF RoutingSpec, RefinesPair, RP!Spec

---------------------------------------------------------------------------
(* A step that makes req.urlvars another dictionary than the one held.      *)
Parts ==
  held # 0 /\ held = VarsDict /\ VarsDict' # held =>
    \/ DelVars \/ \E c \in SUBSET Keys : SetVars(c)
    \/ DelArgs /\ heap[held] = {}

LEMMA StepHeld == ASSUME DictsExist, [RoutingNext]_routingVars PROVE [Parts]_routingVars
<1> SUFFICES ASSUME held # 0, held = VarsDict, ~DelVars, ~\E c \in SUBSET Keys : SetVars(c),
                    ~(DelArgs /\ heap[held] = {})
             PROVE  VarsDict' = VarsDict
  BY DEF Parts
<1>1. CASE GetVars BY <1>1 DEF GetVars, VarsDict
<1>2. CASE DelArgs
  <2>1. PICK a \in Args \cup {"()"}, d \in Made : routing = Pair(a, d)
    BY <1>2 DEF DelArgs, DictsExist
  <2>2. routing # <<>> /\ routing[1].dict = d BY <2>1, OfPair
  <2>3. CASE paste # 0 BY <1>2, <2>3 DEF DelArgs, VarsDict
  <2>4. CASE paste = 0
    <3>1. held = d /\ heap[d] # {} BY <1>2, <2>2, <2>4 DEF VarsDict
    <3>2. routing' = Pair("()", d) /\ paste' = 0 BY <1>2, <2>2, <2>4, <3>1 DEF DelArgs
    <3> QED BY <2>2, <2>4, <3>2, OfPair DEF VarsDict
  <2> QED BY <2>3, <2>4
<1>3. ASSUME NEW a \in Args, SetArgs(a) PROVE VarsDict' = VarsDict
  <2>1. Kept(Taken) = VarsDict BY DEF Taken, Kept
  <2>2. paste' = 0 /\ routing' = Pair(a, VarsDict) BY <1>3, <2>1 DEF SetArgs
  <2> QED BY <2>2, OfPair DEF VarsDict
<1>4. ASSUME NEW k \in Keys, Fill(k) PROVE VarsDict' = VarsDict BY <1>4 DEF Fill, VarsDict
<1>5. CASE UNCHANGED onvars BY <1>5 DEF onvars, VarsDict
<1>6. CASE UNCHANGED routingVars BY <1>5, <1>6 DEF routingVars
<1> QED BY <1>1, <1>2, <1>3, <1>4, <1>5, <1>6, OfPath DEF RoutingNext

(* The dictionary that the application holds is the one that req.urlvars    *)
(* returns until urlvars is set or deleted, or urlargs is deleted while it  *)
(* is empty.                                                                *)
THEOREM HeldStaysLive == RoutingSpec => HeldIsLive
<1>1. DictsExist /\ [RoutingNext]_routingVars => [Parts]_routingVars BY StepHeld
<1> QED BY <1>1, DictionariesExist, PTL DEF RoutingSpec, HeldIsLive, Parts

---------------------------------------------------------------------------
(* Paths: their names, and where their slashes are.                         *)

Tokens == Names \cup {"/"}

LEMMA SegmentsIs ==
  ASSUME NEW p \in Seq(Tokens)
  PROVE  /\ Segments(p) = Only(p, Names) /\ Segments(p) \in Seq(Names)
<1>1. \A i \in 1..Len(p) : p[i] \in Tokens
  BY ElementOfSeq
<1>2. \A i \in 1..Len(p) : p[i] # "/" <=> p[i] \in Names
  BY <1>1, RoutingAssumption DEF Tokens
<1>3. {i \in 1..Len(p) : p[i] # "/"} = PlacesIn(p, Names)
  BY <1>2 DEF PlacesIn
<1>4. Segments(p) = Only(p, Names)
  BY <1>3 DEF Segments, Only
<1>5. PICK o \in Seq(Tokens) : o = Only(p, Names)
  BY OnlyHas
<1>6. \A k \in 1..Len(o) : o[k] \in Names
  <2>1. \A k \in 1..Len(Only(p, Names)) : Only(p, Names)[k] \in Names
    BY ONLY p \in Seq(Tokens), OnlyHas
  <2> QED
    BY <2>1, <1>5
<1>7. o \in Seq(Names)
  BY <1>6
<1> QED
  BY <1>4, <1>5, <1>7

SegmentsApart(s, t) == Segments(s \o t) = Segments(s) \o Segments(t)

LEMMA SegmentsConcat ==
  ASSUME NEW s \in Seq(Tokens), NEW t \in Seq(Tokens)
  PROVE  SegmentsApart(s, t)
<1>1. PICK st \in Seq(Tokens) : st = s \o t
  BY ConcatProperties
<1>2. OnlyApart(s, t, Names)
  BY ONLY s \in Seq(Tokens), t \in Seq(Tokens), OnlyConcat
<1>3. Segments(s) = Only(s, Names) /\ Segments(t) = Only(t, Names) /\ Segments(st) = Only(st, Names)
  BY SegmentsIs
<1> QED
  BY <1>1, <1>2, <1>3 DEF OnlyApart, SegmentsApart

LEMMA SegmentsOne ==
  ASSUME NEW x \in Tokens
  PROVE  Segments(<<x>>) = IF x = "/" THEN <<>> ELSE <<x>>
<1>1. PICK s \in Seq(Tokens) : s = <<x>>
  <2>1. <<x>> \in Seq(Tokens)
    OBVIOUS
  <2> QED
    BY <2>1
<1>2. Segments(s) = Only(s, Names)
  BY SegmentsIs
<1>3. x = "/" <=> x \notin Names
  BY RoutingAssumption DEF Tokens
<1> QED
  BY <1>1, <1>2, <1>3, OnlyOne

LEMMA SlashAdded ==
  ASSUME NEW p \in Seq(Tokens)
  PROVE  /\ Append(p, "/") \in Seq(Tokens) /\ Segments(Append(p, "/")) = Segments(p)
         /\ Slashed(Append(p, "/")) /\ (Sound(p) => Sound(Append(p, "/")))
<1>1. PICK q \in Seq(Tokens) : q = Append(p, "/")
  <2>1. "/" \in Tokens
    BY DEF Tokens
  <2>2. Append(p, "/") \in Seq(Tokens)
    BY <2>1
  <2> QED
    BY <2>2
<1>2. PICK t \in Seq(Tokens) : t = <<"/">>
  <2>1. "/" \in Tokens
    BY DEF Tokens
  <2>2. <<"/">> \in Seq(Tokens)
    BY <2>1
  <2> QED
    BY <2>2
<1>3. q = p \o t
  BY <1>1, <1>2
<1>4. Segments(t) = <<>>
  BY <1>2, SegmentsOne DEF Tokens
<1>5. SegmentsApart(p, t)
  BY SegmentsConcat
<1>6. Segments(q) = Segments(p) \o <<>>
  BY <1>3, <1>4, <1>5 DEF SegmentsApart
<1>7. Segments(p) \o <<>> = Segments(p)
  BY SegmentsIs
<1>8. PICK c \in Nat : c = Len(p)
  OBVIOUS
<1>9. Len(q) = c + 1 /\ q[c + 1] = "/" /\ \A i \in 1..c : q[i] = p[i]
  BY <1>1, <1>8
<1>10. Slashed(q)
  BY <1>9 DEF Slashed, Last
<1>11. ASSUME Sound(p) PROVE Sound(q)
  <2> SUFFICES ASSUME NEW i \in 1..Len(q) PROVE q[i] = "/" \/ (i > 1 /\ q[i - 1] = "/")
    BY DEF Sound
  <2>1. CASE i = c + 1
    BY <2>1, <1>9
  <2>2. CASE i \in 1..c
    <3>1. p[i] = "/" \/ (i > 1 /\ p[i - 1] = "/")
      BY <2>2, <1>8, <1>11 DEF Sound
    <3>2. i > 1 => i - 1 \in 1..c
      BY <2>2
    <3> QED
      BY <3>1, <3>2, <2>2, <1>9
  <2> QED
    BY <2>1, <2>2, <1>9
<1> QED
  BY <1>1, <1>6, <1>7, <1>10, <1>11

(* Only slashes lead the first name.                                        *)
LEMMA LeadingIs ==
  ASSUME NEW p \in Seq(Tokens), Segments(p) # <<>>
  PROVE  /\ Leading(p) \in 0..(Len(p) - 1) /\ p[Leading(p) + 1] \in Names
         /\ \A j \in 1..Leading(p) : p[j] = "/"
<1>1. PICK I \in SUBSET (1..Len(p)) : I = {i \in 1..Len(p) : p[i] # "/"}
  <2>1. \E I \in SUBSET (1..Len(p)) : I = {i \in 1..Len(p) : p[i] # "/"}
    OBVIOUS
  <2> QED
    BY <2>1
<1>2. I # {}
  <2>1. Only(p, Names) # <<>>
    BY SegmentsIs
  <2>2. PICK i \in 1..Len(p) : p[i] \in Names
    BY <2>1, OnlyNone
  <2>3. p[i] # "/"
    BY <2>2, RoutingAssumption
  <2> QED
    BY <2>3, <1>1
<1>3. I \in SUBSET Nat
  OBVIOUS
<1>4. \E x \in I : \A y \in I : x <= y
  BY <1>2, <1>3, Least
<1>5. PICK i : i = Min(I) /\ i \in I /\ \A y \in I : i <= y
  BY <1>4 DEF Min
<1>6. Leading(p) = i - 1
  <2>1. SelectInSeq(p, LAMBDA t : t # "/") = i
    BY <1>1, <1>2, <1>5 DEF SelectInSeq
  <2>2. i # 0
    BY <1>5
  <2> QED
    BY <2>1, <2>2 DEF Leading
<1>7. i \in 1..Len(p) /\ p[i] # "/" /\ p[i] \in Tokens /\ Len(p) \in Nat
  BY <1>1, <1>5, ElementOfSeq
<1>8. \A j \in 1..(i - 1) : j \in 1..Len(p) /\ j \notin I
  BY <1>5, <1>7
<1>9. (i - 1) + 1 = i
  BY <1>7
<1> QED
  BY <1>1, <1>6, <1>7, <1>8, <1>9 DEF Tokens

LEMMA PoppedIs ==
  ASSUME NEW p \in Seq(Tokens), Segments(p) # <<>>,
         NEW a, a = Popped(p), NEW b, b = SubSeq(p, Leading(p) + 2, Len(p))
  PROVE  /\ a \in Seq(Tokens) /\ b \in Seq(Tokens) /\ p = a \o b
         /\ p # <<>> /\ Peek(p) \in Names /\ Segments(a) = <<Peek(p)>>
         /\ Segments(p) = <<Peek(p)>> \o Segments(b)
<1>1. PICK n \in 1..Len(p) : /\ n = Leading(p) + 1 /\ p[n] \in Names /\ Leading(p) < Len(p)
                             /\ \A j \in 1..(n - 1) : p[j] = "/"
  <2>1. Leading(p) + 1 \in 1..Len(p) /\ (Leading(p) + 1) - 1 = Leading(p) /\ Leading(p) < Len(p)
    BY LeadingIs
  <2> QED
    BY <2>1, LeadingIs
<1>2. Leading(p) + 2 = n + 1 /\ n \in 0..Len(p) /\ n - 1 \in 0..Len(p)
  BY <1>1, LeadingIs
<1>3. a = SubSeq(p, 1, n) /\ b = SubSeq(p, n + 1, Len(p))
  BY <1>1, <1>2 DEF Popped
<1>4. a \in Seq(Tokens) /\ b \in Seq(Tokens) /\ p = a \o b /\ Len(a) = n /\ \A j \in 1..n : a[j] = p[j]
  <2>1. n \in 0..Len(p)
    BY <1>2
  <2>2. /\ SubSeq(p, 1, n) \in Seq(Tokens) /\ SubSeq(p, n + 1, Len(p)) \in Seq(Tokens)
        /\ p = SubSeq(p, 1, n) \o SubSeq(p, n + 1, Len(p))
        /\ Len(SubSeq(p, 1, n)) = n /\ \A j \in 1..n : SubSeq(p, 1, n)[j] = p[j]
    BY ONLY p \in Seq(Tokens), <2>1, CutIn
  <2> QED
    BY <1>3, <2>2
<1>5. p # <<>> /\ Leading(p) # Len(p)
  BY <1>1, LeadingIs
<1>6. Peek(p) = p[n]
  BY <1>1, <1>5 DEF Peek
<1>7. PICK x \in Names : x = p[n]
  BY <1>1
<1>8. Segments(a) = <<x>>
  <2>1. PICK aa \in Seq(Tokens) : aa = a /\ Len(aa) = n /\ n \in 1..Len(aa) /\ n \in Nat
    BY <1>1, <1>4
  <2>2. PICK l \in Seq(Tokens) : l = SubSeq(aa, 1, n - 1) /\ Len(l) = n - 1 /\ \A j \in 1..(n - 1) : l[j] = aa[j]
    <3>1. /\ SubSeq(aa, 1, n - 1) \in Seq(Tokens) /\ Len(SubSeq(aa, 1, n - 1)) = n - 1
          /\ \A j \in 1..(n - 1) : SubSeq(aa, 1, n - 1)[j] = aa[j]
      BY ONLY <2>1, AroundIn
    <3> QED
      BY <3>1
  <2>3. PICK e \in Seq(Tokens) : e = SubSeq(aa, n + 1, Len(aa))
    BY <2>1, AroundIn
  <2>4. e = <<>>
    BY <2>1, <2>3
  <2>5. a = l \o (<<x>> \o e) /\ x \in Tokens
    <3>1. aa = SubSeq(aa, 1, n - 1) \o (<<aa[n]>> \o SubSeq(aa, n + 1, Len(aa)))
      BY ONLY <2>1, AroundIn
    <3>2. aa[n] = x
      BY <1>4, <1>7, <2>1
    <3> QED
      BY <3>1, <3>2, <1>7, <2>1, <2>2, <2>3 DEF Tokens
  <2>6. PICK q \in Seq(Tokens) : q = <<x>>
    <3>1. <<x>> \in Seq(Tokens)
      BY <2>5
    <3> QED
      BY <3>1
  <2>7. q \o e = q
    BY <2>4
  <2>8. a = l \o q
    BY <2>5, <2>6, <2>7
  <2>9. Segments(l) = <<>>
    <3>1. \A j \in 1..Len(l) : l[j] \notin Names
      <4> SUFFICES ASSUME NEW j \in 1..(n - 1) PROVE l[j] \notin Names
        BY <2>2
      <4>1. j \in 1..n
        BY <2>1
      <4>2. l[j] = "/"
        BY <4>1, <1>1, <1>4, <2>1, <2>2
      <4> QED
        BY <4>2, RoutingAssumption
    <3> QED
      BY <3>1, SegmentsIs, OnlyNone
  <2>10. Segments(q) = <<x>>
    BY <1>7, <2>5, <2>6, SegmentsOne, RoutingAssumption
  <2>11. SegmentsApart(l, q)
    BY SegmentsConcat
  <2>12. <<>> \o Segments(q) = Segments(q)
    BY SegmentsIs
  <2> QED
    BY <2>8, <2>9, <2>10, <2>11, <2>12 DEF SegmentsApart
<1>9. SegmentsApart(a, b)
  BY <1>4, SegmentsConcat
<1>10. Segments(p) = Segments(a) \o Segments(b)
  BY <1>4, <1>9 DEF SegmentsApart
<1> QED
  BY <1>4, <1>5, <1>6, <1>7, <1>8, <1>10

(* What the last slash cuts off: nothing, or the last name.                 *)
LEMMA ParentIs ==
  ASSUME NEW p \in Seq(Tokens), Sound(p), Segments(p) # <<>>
  PROVE  /\ Slashed(p) => Parent(p) = p
         /\ ~Slashed(p) =>
              /\ Parent(p) \in Seq(Tokens) /\ Sound(Parent(p)) /\ Slashed(Parent(p))
              /\ p[Len(p)] \in Names /\ Segments(p) = Append(Segments(Parent(p)), p[Len(p)])
<1>1. PICK c \in Nat : c = Len(p)
  OBVIOUS
<1>2. c # 0 /\ p # <<>> /\ c \in 1..c /\ c - 1 \in 0..c
  <2>1. Leading(p) \in 0..(Len(p) - 1)
    BY LeadingIs
  <2> QED
    BY <2>1, <1>1
<1>3. Slashed(p) <=> p[c] = "/"
  BY <1>1, <1>2 DEF Slashed, Last
<1>4. PICK I \in SUBSET (1..c) : I = {i \in 1..c : p[i] = "/"}
  <2>1. \E I \in SUBSET (1..c) : I = {i \in 1..c : p[i] = "/"}
    OBVIOUS
  <2> QED
    BY <2>1
<1>5. Parent(p) = SubSeq(p, 1, IF I # {} THEN Max(I) ELSE 0)
  BY <1>1, <1>4 DEF Parent, SelectLastInSeq, IsSlash
<1>6. ASSUME NEW k \in I, \A i \in I : i <= k PROVE Parent(p) = SubSeq(p, 1, k)
  <2>1. \E x \in I : \A y \in I : y <= x
    BY <1>6
  <2>2. Max(I) \in I /\ \A y \in I : y <= Max(I)
    BY <2>1 DEF Max
  <2>3. PICK z \in I : z = Max(I) /\ \A y \in I : y <= z
    BY <2>2
  <2>4. z \in Nat /\ k \in Nat /\ z <= k /\ k <= z
    BY <2>3, <1>6
  <2>5. Max(I) = k
    BY <2>3, <2>4
  <2> QED
    BY <2>5, <1>5, <1>6
<1>7. CASE Slashed(p)
  <2>1. c \in I /\ \A i \in I : i <= c
    BY <1>2, <1>3, <1>4, <1>7
  <2>2. Parent(p) = SubSeq(p, 1, c)
    BY <2>1, <1>6
  <2>3. Parent(p) = p
    BY <2>2, <1>1, SubSeqFull
  <2> QED
    BY <2>3, <1>7
<1>8. CASE ~Slashed(p)
  <2>1. p[c] # "/" /\ p[c] \in Tokens
    BY <1>1, <1>2, <1>3, <1>8, ElementOfSeq
  <2>2. c > 1 /\ p[c - 1] = "/"
    BY <2>1, <1>1, <1>2 DEF Sound
  <2>3. PICK k \in Nat : k = c - 1
    BY <1>2
  <2>4. k \in I /\ k \in 0..c /\ k + 1 = c /\ p[k] = "/" /\ k # 0
    BY <2>2, <2>3, <1>2, <1>4
  <2>5. \A i \in I : i <= k
    BY <2>1, <2>3, <1>2, <1>4
  <2>6. Parent(p) = SubSeq(p, 1, k)
    BY <2>4, <2>5, <1>6
  <2>7. PICK q \in Seq(Tokens) : /\ q = Parent(p) /\ Len(q) = k /\ \A j \in 1..k : q[j] = p[j]
                                 /\ p = q \o SubSeq(p, k + 1, Len(p))
    <3>1. k \in 0..Len(p)
      BY <2>4, <1>1
    <3>2. /\ SubSeq(p, 1, k) \in Seq(Tokens) /\ p = SubSeq(p, 1, k) \o SubSeq(p, k + 1, Len(p))
          /\ Len(SubSeq(p, 1, k)) = k /\ \A j \in 1..k : SubSeq(p, 1, k)[j] = p[j]
      BY ONLY p \in Seq(Tokens), <3>1, CutIn
    <3> QED
      BY <3>2, <2>6
  <2>8. PICK x \in Names : x = p[c]
    BY <2>1 DEF Tokens
  <2>9. x \in Tokens /\ x # "/"
    BY <2>1, <2>8
  <2>10. p = Append(q, x)
    <3>1. Append(q, x) \in Seq(Tokens)
      BY <2>9
    <3>2. PICK e \in Seq(Tokens) : e = Append(q, x)
      BY <3>1
    <3>3. Len(e) = Len(q) + 1 /\ e[Len(q) + 1] = x /\ \A j \in 1..Len(q) : e[j] = q[j]
      BY <2>9, <3>2
    <3>4. Len(e) = c /\ e[c] = x /\ \A j \in 1..k : e[j] = p[j]
      BY <3>3, <2>4, <2>7
    <3>5. \A j \in 1..c : j \in 1..k \/ j = c
      BY <2>4
    <3>6. \A j \in 1..Len(e) : e[j] = p[j]
      BY <3>4, <3>5, <2>8
    <3>7. e = p
      BY <3>4, <3>6, <1>1, SeqEqual
    <3> QED
      BY <3>2, <3>7
  <2>11. PICK t \in Seq(Tokens) : t = <<x>>
    <3>1. <<x>> \in Seq(Tokens)
      BY <2>9
    <3> QED
      BY <3>1
  <2>12. p = q \o t
    BY <2>9, <2>10, <2>11
  <2>13. SegmentsApart(q, t)
    BY SegmentsConcat
  <2>14. Segments(t) = <<x>>
    BY <2>9, <2>11, SegmentsOne
  <2>15. Segments(p) = Segments(q) \o <<x>>
    BY <2>12, <2>13, <2>14 DEF SegmentsApart
  <2>16. PICK z \in Seq(Names) : z = Segments(q)
    BY SegmentsIs
  <2>17. z \o <<x>> = Append(z, x)
    BY <2>8
  <2>18. Slashed(q)
    BY <2>4, <2>7 DEF Slashed, Last
  <2>19. Sound(q)
    <3> SUFFICES ASSUME NEW i \in 1..k PROVE q[i] = "/" \/ (i > 1 /\ q[i - 1] = "/")
      BY <2>7 DEF Sound
    <3>1. i \in 1..Len(p)
      BY <2>4, <1>1
    <3>2. p[i] = "/" \/ (i > 1 /\ p[i - 1] = "/")
      BY <3>1 DEF Sound
    <3>3. i > 1 => i - 1 \in 1..k
      OBVIOUS
    <3> QED
      BY <3>2, <3>3, <2>7
  <2> QED
    BY <1>1, <1>8, <2>7, <2>8, <2>15, <2>16, <2>17, <2>18, <2>19
<1> QED
  BY <1>7, <1>8

(* A list that is not empty is its front and its last.                      *)
LEMMA FrontLast ==
  ASSUME NEW X, NEW w \in Seq(X), w # <<>>
  PROVE  Front(w) \in Seq(X) /\ Last(w) \in X /\ w = Append(Front(w), Last(w))
<1>1. PICK k \in Nat : k + 1 = Len(w)
  <2>1. Len(w) \in Nat /\ Len(w) # 0
    OBVIOUS
  <2>2. Len(w) - 1 \in Nat /\ (Len(w) - 1) + 1 = Len(w)
    BY <2>1
  <2> QED
    BY <2>2
<1>2. PICK v \in Seq(X), x \in X : w = Append(v, x)
  BY SequenceEmptyOrAppend
<1>3. PICK d \in Nat : d = Len(v)
  OBVIOUS
<1>4. Len(w) = d + 1 /\ w[d + 1] = x /\ \A j \in 1..d : w[j] = v[j]
  BY <1>2, <1>3
<1>5. Last(w) = x
  BY <1>4 DEF Last
<1>6. d \in 0..Len(w) /\ Len(w) - 1 = d
  BY <1>4
<1>7. /\ SubSeq(w, 1, d) \in Seq(X) /\ Len(SubSeq(w, 1, d)) = d
      /\ \A j \in 1..d : SubSeq(w, 1, d)[j] = w[j]
  BY ONLY w \in Seq(X), <1>6, CutIn
<1>8. PICK f \in Seq(X) : f = Front(w) /\ Len(f) = d /\ \A j \in 1..d : f[j] = w[j]
  BY <1>6, <1>7 DEF Front
<1>9. \A j \in 1..d : f[j] = v[j]
  BY <1>4, <1>8
<1>10. f = v
  BY <1>3, <1>8, <1>9, SeqEqual
<1> QED
  BY <1>2, <1>5, <1>8, <1>10

(* Below the mount the last slash cuts off the last name.                   *)
LEMMA ParentBelow ==
  ASSUME NEW p \in Seq(Tokens), Sound(p), NEW w \in Seq(Names), w # <<>>,
         Segments(p) = <<Mount>> \o w, ~Slashed(p)
  PROVE  /\ Parent(p) \in Seq(Tokens) /\ Sound(Parent(p)) /\ Slashed(Parent(p))
         /\ Segments(Parent(p)) = <<Mount>> \o Front(w)
<1>1. PICK m \in Seq(Names) : m = <<Mount>> /\ Len(m) = 1
  <2>1. <<Mount>> \in Seq(Names) /\ Len(<<Mount>>) = 1
    BY RoutingAssumption
  <2> QED
    BY <2>1
<1>2. PICK z \in Seq(Names) : z = Segments(p) /\ z = m \o w
  BY <1>1, SegmentsIs
<1>3. z # <<>>
  <2>1. Len(z) = Len(m) + Len(w)
    BY <1>2, ConcatProperties
  <2> QED
    BY <2>1, <1>1
<1>4. /\ Parent(p) \in Seq(Tokens) /\ Sound(Parent(p)) /\ Slashed(Parent(p))
      /\ p[Len(p)] \in Names /\ Segments(p) = Append(Segments(Parent(p)), p[Len(p)])
  BY <1>2, <1>3, ParentIs
<1>5. PICK x \in Names : x = p[Len(p)]
  BY <1>4
<1>6. PICK v \in Seq(Names) : v = Segments(Parent(p))
  BY <1>4, SegmentsIs
<1>7. z = Append(v, x)
  BY <1>2, <1>4, <1>5, <1>6
<1>8. PICK f \in Seq(Names), l \in Names : f = Front(w) /\ w = Append(f, l)
  BY FrontLast
<1>9. PICK t \in Seq(Names) : t = <<l>>
  <2>1. <<l>> \in Seq(Names)
    OBVIOUS
  <2> QED
    BY <2>1
<1>10. w = f \o t
  <2>1. Append(f, l) = f \o <<l>>
    BY ONLY f \in Seq(Names), l \in Names, AppendIsConcat
  <2> QED
    BY <2>1, <1>8, <1>9
<1>11. (m \o f) \o t = m \o (f \o t) /\ m \o f \in Seq(Names)
  <2>1. m \in Seq(Names) /\ f \in Seq(Names) /\ t \in Seq(Names)
    BY <1>1
  <2>2. (m \o f) \o t = m \o (f \o t)
    BY ONLY <2>1, ConcatAssociative, SMTT(30)
  <2>3. m \o f \in Seq(Names)
    BY ONLY <2>1, ConcatProperties
  <2> QED
    BY <2>2, <2>3
<1>12. PICK g \in Seq(Names) : g = m \o f
  BY <1>11
<1>13. g \o t = Append(g, l)
  BY <1>9
<1>14. z = Append(g, l)
  BY <1>2, <1>10, <1>11, <1>12, <1>13
<1>15. v = g
  <2>1. Append(v, x) = Append(g, l)
    BY <1>7, <1>14
  <2> QED
    BY ONLY <2>1, v \in Seq(Names), g \in Seq(Names), x \in Names, l \in Names, AppendInjective
<1> QED
  BY <1>1, <1>4, <1>6, <1>8, <1>12, <1>15

LEMMA MountTaken ==
  ASSUME NEW w \in Seq(Names)
  PROVE  <<Mount>> \o w \in Seq(Names) /\ Tail(<<Mount>> \o w) = w /\ <<Mount>> \o w # <<>>
<1>1. PICK m \in Seq(Names) : m = <<Mount>> /\ Len(m) = 1
  <2>1. <<Mount>> \in Seq(Names) /\ Len(<<Mount>>) = 1
    BY RoutingAssumption
  <2> QED
    BY <2>1
<1>2. PICK z \in Seq(Names) : z = m \o w
  BY ConcatProperties
<1>3. /\ Len(z) = Len(m) + Len(w)
      /\ \A i \in 1..Len(m) + Len(w) : z[i] = IF i <= Len(m) THEN m[i] ELSE w[i - Len(m)]
  BY <1>2, ConcatProperties
<1>4. PICK c \in Nat : c = Len(w)
  OBVIOUS
<1>5. Len(z) = 1 + c /\ \A i \in 1..c : z[i + 1] = w[i]
  <2>1. \A i \in 1..c : i + 1 \in 1..(1 + c) /\ ~(i + 1 <= 1) /\ (i + 1) - 1 = i
    OBVIOUS
  <2> QED
    BY <2>1, <1>1, <1>3, <1>4
<1>6. z # <<>>
  BY <1>5
<1>7. Tail(z) \in Seq(Names) /\ Len(Tail(z)) = Len(z) - 1 /\ \A i \in 1..Len(Tail(z)) : Tail(z)[i] = z[i + 1]
  BY <1>6, HeadTailProperties
<1>8. Len(Tail(z)) = c /\ \A i \in 1..c : Tail(z)[i] = w[i]
  <2>1. Len(Tail(z)) = c
    BY ONLY <1>5, <1>7, c \in Nat
  <2> QED
    BY ONLY <2>1, <1>5, <1>7
<1>9. PICK y \in Seq(Names) : y = Tail(z)
  BY <1>7
<1>10. y = w
  BY <1>4, <1>8, <1>9, SeqEqual
<1> QED
  BY <1>1, <1>2, <1>6, <1>9, <1>10

---------------------------------------------------------------------------
(* What a path with "." and ".." in it names.                               *)

LEMMA RootIs == Root \in Seq(Names) /\ Root \in Dirs
<1> QED
  BY RoutingAssumption

LEMMA StepIs ==
  ASSUME NEW d \in Seq(Names), NEW x \in Names
  PROVE  Step(d, x) \in Seq(Names)
<1>1. x = ".." /\ d # <<>> => Front(d) \in Seq(Names)
  BY FrontLast
<1>2. Append(d, x) \in Seq(Names)
  OBVIOUS
<1> QED
  BY <1>1, <1>2 DEF Step

Walk(f, w) == f[0] = Root /\ \A n \in 1..Len(w) : f[n] = Step(f[n - 1], w[n])

LEMMA WalkIs ==
  ASSUME NEW w \in Seq(Names)
  PROVE  \E f \in [0..Len(w) -> Seq(Names)] : Walk(f, w) /\ Abspath(w) = f[Len(w)]
<1>1. PICK N \in Nat : N = Len(w)
  OBVIOUS
<1>2. ASSUME NEW n \in 1..N, NEW d \in Seq(Names) PROVE Step(d, w[n]) \in Seq(Names)
  <2>1. w[n] \in Names
    BY <1>1, ElementOfSeq
  <2> QED
    BY <2>1, StepIs
<1>3. PICK next \in [1..N -> [Seq(Names) -> Seq(Names)]] :
        \A n \in 1..N, d \in Seq(Names) : next[n][d] = Step(d, w[n])
  <2>1. [n \in 1..N |-> [d \in Seq(Names) |-> Step(d, w[n])]] \in [1..N -> [Seq(Names) -> Seq(Names)]]
    BY <1>2
  <2> QED
    BY <2>1
<1>4. PICK h \in [0..N -> Seq(Names)] : Steps(h, N, Root, next)
  BY RootIs, Iterates
<1> DEFINE Is(f) == f = [n \in 0..Len(w) |-> IF n = 0 THEN Root ELSE Step(f[n - 1], w[n])]
<1>5. Is(h)
  <2>1. ASSUME NEW n \in 0..N
        PROVE  h[n] = IF n = 0 THEN Root ELSE Step(h[n - 1], w[n])
    <3>1. CASE n = 0
      BY <3>1, <1>4 DEF Steps
    <3>2. CASE n # 0
      <4>1. n \in 1..N /\ n - 1 \in 0..N
        BY <3>2
      <4>2. PICK d \in Seq(Names) : d = h[n - 1]
        BY <4>1
      <4>3. h[n] = Step(d, w[n])
        BY <4>1, <4>2, <1>3, <1>4 DEF Steps
      <4> QED
        BY <3>2, <4>2, <4>3
    <3> QED
      BY <3>1, <3>2
  <2> QED
    BY <2>1, <1>1
<1>6. Is(CHOOSE f : Is(f))
  BY ONLY <1>5
<1>7. PICK f : f = (CHOOSE g : Is(g)) /\ Is(f)
  BY <1>6
<1>8. Abspath(w) = f[N]
  BY <1>1, <1>7 DEF Abspath
<1>9. f[0] = Root /\ \A n \in 1..N : f[n] = Step(f[n - 1], w[n])
  <2>1. \A n \in 0..N : f[n] = IF n = 0 THEN Root ELSE Step(f[n - 1], w[n])
    BY <1>1, <1>7
  <2>2. 0 \in 0..N /\ \A n \in 1..N : n \in 0..N /\ n # 0
    OBVIOUS
  <2> QED
    BY ONLY <2>1, <2>2
<1>10. PICK T : T = {n \in 0..N : f[n] = h[n]}
  OBVIOUS
<1>11. 0 \in T
  BY <1>4, <1>9, <1>10 DEF Steps
<1>12. ASSUME NEW n \in 1..N, n - 1 \in T PROVE n \in T
  <2>1. n \in 0..N /\ n - 1 \in 0..N /\ f[n - 1] = h[n - 1]
    BY <1>10, <1>12
  <2>2. PICK d \in Seq(Names) : d = h[n - 1]
    BY <2>1
  <2>3. h[n] = Step(d, w[n])
    BY <2>2, <1>3, <1>4 DEF Steps
  <2>4. f[n] = Step(d, w[n])
    BY <2>1, <2>2, <1>9
  <2> QED
    BY <2>1, <2>3, <2>4, <1>10
<1>13. \A n \in 0..N : n \in T
  BY <1>11, <1>12, UpTo
<1>14. f[N] = h[N]
  <2>1. N \in 0..N
    OBVIOUS
  <2> QED
    BY <2>1, <1>10, <1>13
<1>15. Walk(h, w)
  <2>1. ASSUME NEW n \in 1..N PROVE h[n] = Step(h[n - 1], w[n])
    <3>1. n - 1 \in 0..N
      OBVIOUS
    <3>2. PICK d \in Seq(Names) : d = h[n - 1]
      BY <3>1
    <3> QED
      BY <3>2, <1>3, <1>4 DEF Steps
  <2> QED
    BY <2>1, <1>1, <1>4 DEF Walk, Steps
<1> QED
  BY <1>1, <1>8, <1>14, <1>15

LEMMA AbspathIs ==
  ASSUME NEW w \in Seq(Names)
  PROVE  Abspath(w) \in Seq(Names)
<1>1. PICK f \in [0..Len(w) -> Seq(Names)] : Abspath(w) = f[Len(w)]
  BY WalkIs
<1>2. Len(w) \in 0..Len(w)
  OBVIOUS
<1> QED
  BY <1>1, <1>2

LEMMA NoItems ==
  ASSUME NEW X
  PROVE  \E e \in Seq(X) : e = <<>> /\ Len(e) = 0
<1>1. PICK e \in Seq(X) : e = <<>>
  <2>1. <<>> \in Seq(X)
    OBVIOUS
  <2> QED
    BY <2>1
<1>2. Len(e) = 0
  BY <1>1
<1> QED
  BY <1>1, <1>2

LEMMA AbspathEmpty == Abspath(<<>>) = Root
<1>1. PICK e \in Seq(Names) : e = <<>> /\ Len(e) = 0
  BY NoItems
<1>2. PICK f \in [0..Len(e) -> Seq(Names)] : Walk(f, e) /\ Abspath(e) = f[Len(e)]
  BY WalkIs
<1> QED
  BY <1>1, <1>2 DEF Walk

(* One name more is one step more.                                          *)
LEMMA AbspathAppend ==
  ASSUME NEW v \in Seq(Names), NEW x \in Names
  PROVE  Abspath(Append(v, x)) = Step(Abspath(v), x)
<1>1. PICK N \in Nat : N = Len(v)
  OBVIOUS
<1>2. PICK w \in Seq(Names) : w = Append(v, x) /\ Len(w) = N + 1 /\ w[N + 1] = x /\ \A n \in 1..N : w[n] = v[n]
  <2>1. /\ Append(v, x) \in Seq(Names) /\ Len(Append(v, x)) = Len(v) + 1
        /\ \A i \in 1..Len(v) : Append(v, x)[i] = v[i]
        /\ Append(v, x)[Len(v) + 1] = x
    BY AppendProperties
  <2> QED
    BY <2>1, <1>1
<1>3. PICK f \in [0..N -> Seq(Names)] : Walk(f, v) /\ Abspath(v) = f[N]
  BY <1>1, WalkIs
<1>4. PICK g \in [0..(N + 1) -> Seq(Names)] : Walk(g, w) /\ Abspath(w) = g[N + 1]
  BY <1>2, WalkIs
<1>5. f[0] = Root /\ \A n \in 1..N : f[n] = Step(f[n - 1], v[n])
  BY <1>1, <1>3 DEF Walk
<1>6. g[0] = Root /\ \A n \in 1..(N + 1) : g[n] = Step(g[n - 1], w[n])
  BY <1>2, <1>4 DEF Walk
<1>7. PICK T : T = {n \in 0..N : f[n] = g[n]}
  OBVIOUS
<1>8. 0 \in T
  BY <1>5, <1>6, <1>7
<1>9. ASSUME NEW n \in 1..N, n - 1 \in T PROVE n \in T
  <2>1. n \in 0..N /\ n \in 1..(N + 1) /\ f[n - 1] = g[n - 1]
    BY <1>7, <1>9
  <2> QED
    BY <2>1, <1>2, <1>5, <1>6, <1>7
<1>10. N \in T
  <2>1. \A n \in 0..N : n \in T
    BY <1>8, <1>9, UpTo
  <2> QED
    BY <2>1
<1>11. g[N + 1] = Step(g[N], x)
  <2>1. N + 1 \in 1..(N + 1) /\ (N + 1) - 1 = N
    OBVIOUS
  <2> QED
    BY <2>1, <1>2, <1>6
<1> QED
  BY <1>2, <1>3, <1>4, <1>7, <1>10, <1>11

(* A name that is no dots at the end of the path is the last of what the    *)
(* path names.                                                              *)
LEMMA AbspathLast ==
  ASSUME NEW w \in Seq(Names), w # <<>>, Last(w) \notin Dots
  PROVE  Front(Abspath(w)) = Abspath(Front(w))
<1>1. PICK v \in Seq(Names), x \in Names : v = Front(w) /\ x = Last(w) /\ w = Append(v, x)
  BY FrontLast
<1>2. PICK a \in Seq(Names) : a = Abspath(v)
  BY AbspathIs
<1>3. Abspath(w) = Append(a, x)
  BY <1>1, <1>2, AbspathAppend DEF Step, Dots
<1>4. PICK b \in Seq(Names) : b = Append(a, x) /\ b # <<>>
  <2>1. Append(a, x) \in Seq(Names) /\ Len(Append(a, x)) = Len(a) + 1
    BY AppendProperties
  <2>2. PICK c \in Seq(Names) : c = Append(a, x) /\ Len(c) = Len(a) + 1
    BY <2>1
  <2>3. c # <<>>
    BY <2>2
  <2> QED
    BY <2>2, <2>3
<1>5. PICK f \in Seq(Names), l \in Names : f = Front(b) /\ b = Append(f, l)
  BY <1>4, FrontLast
<1>6. f = a
  <2>1. Append(f, l) = Append(a, x)
    BY <1>4, <1>5
  <2> QED
    BY ONLY <2>1, f \in Seq(Names), a \in Seq(Names), l \in Names, x \in Names, AppendInjective
<1> QED
  BY <1>1, <1>2, <1>3, <1>4, <1>5, <1>6

---------------------------------------------------------------------------
(* The invariant: the address is that of the mount with the names asked for *)
(* below it, or with their front when they name a hidden index; and what is *)
(* taken off PATH_INFO stands in SCRIPT_NAME.                               *)

Given    == Tail(Segments(asked))
Aim      == Abspath(Given)
Unclaimed == Hidden(Aim) /\ Dotted(asked)
Below(w) == w = Given \/ Unclaimed \/ (Hidden(Aim) /\ w = Front(Given) /\ Slashed(url))
Want     == IF Hidden(Aim) THEN Front(Aim) ELSE Aim
Page     == Append(Want, Index)
Reply ==
  CASE Want \in Dirs /\ Page \in Files                    -> <<"file", Page>>
    [] Want \in Files /\ IsStrictPrefix(Root, Want)       -> <<"file", Want>>
    [] Want \notin Dirs /\ ~IsStrictPrefix(Root, Want) -> <<"forbidden">>
    [] OTHER                                           -> <<"gone">>

UnderWay(w) ==
  /\ asked \in Seq(Tokens) /\ Given \in Seq(Names) /\ Segments(asked) = <<Mount>> \o Given
  /\ url \in Seq(Tokens) /\ Sound(url) /\ w \in Seq(Names)
  /\ Segments(url) = <<Mount>> \o w /\ Below(w)
  /\ stage \in {"ask", "route", "serve", "moved", "done"}
  /\ stage = "route" => script = <<>> /\ info = url
  /\ stage = "serve" =>
       /\ script \in Seq(Tokens) /\ info \in Seq(Tokens) /\ script \o info = url
       /\ Segments(script) = <<Mount>> /\ Segments(info) = w
Answered ==
  stage = "done" /\ ~Unclaimed =>
    answer = Reply /\ (answer # <<"gone">> /\ Want \in Dirs => Slashed(url))
PathInv == part = "path" => (\E w \in Seq(Names) : UnderWay(w)) /\ Answered

(* Unless its end is left unclaimed the address names what is wanted, or    *)
(* the hidden page.                                                         *)
LEMMA AimIs ==
  ASSUME NEW w \in Seq(Names), Given \in Seq(Names), Segments(asked) = <<Mount>> \o Given, Below(w), ~Unclaimed
  PROVE  Hidden(Abspath(w)) \/ Abspath(w) = Want
<1>1. CASE w = Given
  BY <1>1 DEF Aim, Want
<1>2. CASE Hidden(Aim) /\ w = Front(Given)
  <2>1. Given # <<>>
    BY <1>2, AbspathEmpty, RootIs DEF Aim, Hidden
  <2>2. PICK f \in Seq(Names), x \in Names : x = Last(Given) /\ Given = Append(f, x)
    BY <2>1, FrontLast
  <2>3. PICK m \in Seq(Names) : m = <<Mount>>
    <3>1. <<Mount>> \in Seq(Names)
      BY RoutingAssumption
    <3> QED
      BY <3>1
  <2>4. PICK z \in Seq(Names) : z = Segments(asked) /\ z = m \o Given
    <3>1. m \o Given \in Seq(Names)
      BY ConcatProperties
    <3> QED
      BY <3>1, <2>3
  <2>5. PICK c \in Nat, d \in Nat : c = Len(m) /\ d = Len(Given)
    OBVIOUS
  <2>6. d # 0 /\ c + d \in 1..(c + d) /\ ~(c + d <= c) /\ (c + d) - c = d
    BY <2>1, <2>5
  <2>7. /\ Len(z) = Len(m) + Len(Given)
        /\ \A i \in 1..Len(m) + Len(Given) : z[i] = IF i <= Len(m) THEN m[i] ELSE Given[i - Len(m)]
    BY <2>4, ConcatProperties
  <2>8. Len(z) = c + d /\ z[c + d] = Given[d]
    BY <2>5, <2>6, <2>7
  <2>9. Last(z) = Last(Given)
    BY <2>5, <2>8 DEF Last
  <2>10. Last(Given) \notin Dots
    BY <1>2, <2>4, <2>9 DEF Unclaimed, Dotted
  <2> QED
    BY <1>2, <2>1, <2>10, AbspathLast DEF Aim, Want
<1> QED
  BY <1>1, <1>2 DEF Below

LEMMA ReplyIs ==
  /\ Want \in Dirs => Reply = IF Page \in Files THEN <<"file", Page>> ELSE <<"gone">>
  /\ Want \notin Dirs => Reply = Found(Want)
<1>1. Want \in Files => Want \notin Dirs
  BY RoutingAssumption
<1> QED
  BY <1>1 DEF Reply, Found

LEMMA PathStart == ASSUME RoutingInit PROVE PathInv
<1> SUFFICES ASSUME part = "path" PROVE (\E w \in Seq(Names) : UnderWay(w)) /\ Answered
  BY DEF PathInv
<1>1. /\ url \in {<<"/", Mount>> \o p : p \in {q \in Paths : Sound(q)}} \cup {<<"/", "/", Mount, "/">>}
      /\ asked = url /\ stage = "ask"
  BY DEF RoutingInit
<1>2. "/" \in Tokens /\ Mount \in Tokens /\ Mount # "/" /\ Mount \in Names
  BY RoutingAssumption DEF Tokens
<1>3. ASSUME NEW w \in Seq(Names), url \in Seq(Tokens), Sound(url), Segments(url) = <<Mount>> \o w
      PROVE  (\E z \in Seq(Names) : UnderWay(z)) /\ Answered
  <2>1. Given = w
    BY <1>1, <1>3, MountTaken DEF Given
  <2>2. UnderWay(w)
    BY <2>1, <1>1, <1>3 DEF UnderWay, Below
  <2> QED
    BY <2>2, <1>1 DEF Answered
<1>4. PICK a \in Seq(Tokens) : a = <<"/", Mount>> /\ Len(a) = 2 /\ a[1] = "/" /\ a[2] = Mount /\ Segments(a) = <<Mount>>
  <2>1. <<"/", Mount>> \in Seq(Tokens) /\ Len(<<"/", Mount>>) = 2
        /\ <<"/", Mount>>[1] = "/" /\ <<"/", Mount>>[2] = Mount
    BY <1>2
  <2>2. PICK b \in Seq(Tokens) : b = <<"/">> /\ Segments(b) = <<>>
    <3>1. <<"/">> \in Seq(Tokens)
      BY <1>2
    <3>2. Segments(<<"/">>) = <<>>
      BY <1>2, SegmentsOne
    <3> QED
      BY <3>1, <3>2
  <2>3. PICK c \in Seq(Tokens) : c = <<Mount>> /\ Segments(c) = <<Mount>>
    <3>1. <<Mount>> \in Seq(Tokens)
      BY <1>2
    <3>2. Segments(<<Mount>>) = <<Mount>>
      BY <1>2, SegmentsOne
    <3> QED
      BY <3>1, <3>2
  <2>4. b \o c = <<"/", Mount>>
    <3>1. PICK e \in Seq(Tokens) : e = b \o c
      BY ConcatProperties
    <3>2. /\ Len(e) = Len(b) + Len(c)
          /\ \A i \in 1..Len(b) + Len(c) : e[i] = IF i <= Len(b) THEN b[i] ELSE c[i - Len(b)]
      BY <3>1, ConcatProperties
    <3>3. Len(b) = 1 /\ b[1] = "/" /\ Len(c) = 1 /\ c[1] = Mount
      BY <2>2, <2>3
    <3>4. Len(e) = 2 /\ e[1] = "/" /\ e[2] = Mount
      BY <3>2, <3>3
    <3>5. PICK g \in Seq(Tokens) : g = <<"/", Mount>>
      BY <2>1
    <3>6. e = g
      <4>1. \A i \in 1..Len(e) : e[i] = g[i]
        BY <3>4, <3>5, <2>1
      <4> QED
        BY <4>1, <3>4, <3>5, <2>1, SeqEqual
    <3> QED
      BY <3>1, <3>5, <3>6
  <2>5. SegmentsApart(b, c)
    BY SegmentsConcat
  <2>6. <<>> \o Segments(c) = Segments(c)
    BY SegmentsIs
  <2> QED
    BY <2>1, <2>2, <2>3, <2>4, <2>5, <2>6 DEF SegmentsApart
<1>5. CASE \E p \in Paths : Sound(p) /\ url = <<"/", Mount>> \o p
  <2>1. PICK p \in Paths : Sound(p) /\ url = <<"/", Mount>> \o p
    BY <1>5
  <2>2. p \in Seq(Tokens)
    BY DEF Paths, Tokens
  <2>3. PICK u \in Seq(Tokens) : u = a \o p /\ u = url
    BY <2>1, <2>2, <1>4, ConcatProperties
  <2>4. SegmentsApart(a, p)
    BY <2>2, SegmentsConcat
  <2>5. Segments(u) = <<Mount>> \o Segments(p)
    BY <2>3, <2>4, <1>4 DEF SegmentsApart
  <2>6. Sound(u)
    <3>1. PICK c \in Nat : c = Len(p)
      BY <2>2
    <3>2. /\ Len(u) = Len(a) + Len(p)
          /\ \A i \in 1..Len(a) + Len(p) : u[i] = IF i <= Len(a) THEN a[i] ELSE p[i - Len(a)]
      BY <2>2, <2>3, ConcatProperties
    <3>3. Len(u) = 2 + c /\ \A i \in 1..(2 + c) : u[i] = IF i <= 2 THEN a[i] ELSE p[i - 2]
      BY <3>1, <3>2, <1>4
    <3> SUFFICES ASSUME NEW i \in 1..(2 + c) PROVE u[i] = "/" \/ (i > 1 /\ u[i - 1] = "/")
      BY <3>3 DEF Sound
    <3>4. CASE i = 1 \/ i = 2
      <4>1. 1 \in 1..(2 + c) /\ 1 <= 2
        OBVIOUS
      <4>2. u[1] = "/"
        BY <4>1, <3>3, <1>4
      <4> QED
        BY <3>4, <4>2
    <3>5. CASE i > 2
      <4>1. i - 2 \in 1..c /\ ~(i <= 2)
        BY <3>5
      <4>2. u[i] = p[i - 2]
        BY <4>1, <3>3
      <4>3. p[i - 2] = "/" \/ (i - 2 > 1 /\ p[(i - 2) - 1] = "/")
        BY <4>1, <3>1, <2>1 DEF Sound
      <4>4. CASE p[i - 2] = "/"
        BY <4>2, <4>4
      <4>5. CASE i - 2 > 1 /\ p[(i - 2) - 1] = "/"
        <5>1. i - 1 \in 1..(2 + c) /\ ~(i - 1 <= 2) /\ (i - 1) - 2 = (i - 2) - 1
          BY <4>5
        <5>2. u[i - 1] = "/"
          BY <5>1, <4>5, <3>3
        <5> QED
          BY <5>2, <3>5
      <4> QED
        BY <4>3, <4>4, <4>5
    <3> QED
      BY <3>4, <3>5
  <2>7. Segments(p) \in Seq(Names)
    BY <2>2, SegmentsIs
  <2> QED
    BY <2>3, <2>5, <2>6, <2>7, <1>3
<1>6. CASE url = <<"/", "/", Mount, "/">>
  <2>1. PICK u \in Seq(Tokens) : u = url /\ Len(u) = 4 /\ u[1] = "/" /\ u[2] = "/" /\ u[4] = "/"
    <3>1. <<"/", "/", Mount, "/">> \in Seq(Tokens) /\ Len(<<"/", "/", Mount, "/">>) = 4
      BY <1>2
    <3> QED
      BY <3>1, <1>6
  <2>2. Sound(u)
    BY <2>1 DEF Sound
  <2>3. PICK b \in Seq(Tokens) : b = <<"/">> /\ Segments(b) = <<>>
    <3>1. <<"/">> \in Seq(Tokens)
      BY <1>2
    <3>2. Segments(<<"/">>) = <<>>
      BY <1>2, SegmentsOne
    <3> QED
      BY <3>1, <3>2
  <2>4. PICK e \in Seq(Tokens) : e = a \o b /\ Segments(e) = <<Mount>>
    <3>1. a \o b \in Seq(Tokens)
      BY ConcatProperties
    <3>2. SegmentsApart(a, b)
      BY SegmentsConcat
    <3>3. Segments(a) \o <<>> = Segments(a)
      BY SegmentsIs
    <3> QED
      BY <3>1, <3>2, <3>3, <2>3, <1>4 DEF SegmentsApart
  <2>5. u = b \o e
    BY <2>1, <2>3, <2>4, <1>4, <1>6
  <2>6. SegmentsApart(b, e)
    BY SegmentsConcat
  <2>7. <<>> \o Segments(e) = Segments(e)
    BY SegmentsIs
  <2>8. Segments(u) = <<Mount>> \o <<>> /\ <<>> \in Seq(Names)
    BY <2>3, <2>4, <2>5, <2>6, <2>7, <1>2 DEF SegmentsApart
  <2> QED
    BY <2>1, <2>2, <2>8, <1>3
<1> QED
  BY <1>1, <1>5, <1>6

MountOff(p, w, a, b) ==
  /\ a \in Seq(Tokens) /\ b \in Seq(Tokens) /\ p = a \o b /\ Peek(p) = Mount
  /\ Segments(a) = <<Mount>> /\ Segments(b) = w

LEMMA MountPopped ==
  ASSUME NEW p \in Seq(Tokens), NEW w \in Seq(Names), Segments(p) = <<Mount>> \o w
  PROVE  MountOff(p, w, Popped(p), SubSeq(p, Leading(p) + 2, Len(p)))
<1>1. PICK a : a = Popped(p)
  OBVIOUS
<1>2. PICK b : b = SubSeq(p, Leading(p) + 2, Len(p))
  OBVIOUS
<1>3. Segments(p) # <<>>
  BY MountTaken
<1>4. /\ a \in Seq(Tokens) /\ b \in Seq(Tokens) /\ p = a \o b
      /\ Peek(p) \in Names /\ Segments(a) = <<Peek(p)>>
      /\ Segments(p) = <<Peek(p)>> \o Segments(b)
  BY <1>1, <1>2, <1>3, PoppedIs
<1>5. PICK x \in Names : x = Peek(p)
  BY <1>4
<1>6. PICK v \in Seq(Names) : v = Segments(b)
  BY <1>4, SegmentsIs
<1>7. <<x>> \o v = <<Mount>> \o w
  BY <1>4, <1>5, <1>6
<1>8. PICK d \in Seq(Names) : d = <<x>> /\ Len(d) = 1 /\ d[1] = x
  <2>1. <<x>> \in Seq(Names)
    OBVIOUS
  <2> QED
    BY <2>1
<1>9. PICK m \in Seq(Names) : m = <<Mount>> /\ Len(m) = 1 /\ m[1] = Mount
  <2>1. <<Mount>> \in Seq(Names)
    BY RoutingAssumption
  <2> QED
    BY <2>1
<1>10. PICK z \in Seq(Names) : z = d \o v /\ z = m \o w
  <2>1. d \o v \in Seq(Names)
    BY ConcatProperties
  <2> QED
    BY <2>1, <1>7, <1>8, <1>9
<1>11. z[1] = x
  <2>1. \A i \in 1..Len(d) + Len(v) : z[i] = IF i <= Len(d) THEN d[i] ELSE v[i - Len(d)]
    BY ONLY <1>8, <1>10, d \in Seq(Names), v \in Seq(Names), ConcatProperties
  <2>2. 1 \in 1..Len(d) + Len(v)
    BY <1>8
  <2> QED
    BY <2>1, <2>2, <1>8
<1>12. z[1] = Mount
  <2>1. \A i \in 1..Len(m) + Len(w) : z[i] = IF i <= Len(m) THEN m[i] ELSE w[i - Len(m)]
    BY <1>10, ConcatProperties
  <2>2. 1 \in 1..Len(m) + Len(w)
    BY <1>9
  <2> QED
    BY <2>1, <2>2, <1>9
<1>13. x = Mount
  BY <1>11, <1>12
<1>14. m \o v = m \o w
  BY <1>8, <1>9, <1>10, <1>13
<1>15. v = w
  BY ONLY <1>14, m \in Seq(Names), v \in Seq(Names), w \in Seq(Names), ConcatSimplifications
<1> QED
  BY <1>1, <1>2, <1>4, <1>5, <1>6, <1>13, <1>15 DEF MountOff

LEMMA EndOf ==
  ASSUME NEW s \in Seq(Tokens), NEW t \in Seq(Tokens), Slashed(t)
  PROVE  Slashed(s \o t)
<1>1. PICK st \in Seq(Tokens) : st = s \o t
  BY ConcatProperties
<1>2. /\ Len(st) = Len(s) + Len(t)
      /\ \A i \in 1..Len(s) + Len(t) : st[i] = IF i <= Len(s) THEN s[i] ELSE t[i - Len(s)]
  BY <1>1, ConcatProperties
<1>3. PICK c \in Nat, d \in Nat : c = Len(s) /\ d = Len(t)
  OBVIOUS
<1>4. d # 0 /\ t[d] = "/"
  BY <1>3 DEF Slashed, Last
<1>5. c + d \in 1..(c + d) /\ ~(c + d <= c) /\ (c + d) - c = d
  BY <1>4
<1>6. Len(st) = c + d /\ st[c + d] = "/"
  BY <1>2, <1>3, <1>4, <1>5
<1>7. st # <<>>
  BY <1>4, <1>6
<1> QED
  BY <1>1, <1>6, <1>7 DEF Slashed, Last

(* Each step of the browser, the router and the directory.                  *)
LEMMA PathKept ==
  ASSUME PathInv, [RoutingNext]_routingVars
  PROVE  PathInv'
<1>1. part' = part
  BY DEF RoutingNext, GetVars, DelVars, DelArgs, SetVars, SetArgs, RoomForDict, Fill, OnPath, Ask, Route, Serve,
         Follow, routingVars
<1> SUFFICES ASSUME part = "path" PROVE ((\E w \in Seq(Names) : UnderWay(w)) /\ Answered)'
  BY <1>1 DEF PathInv
<1>2. PICK w \in Seq(Names) : UnderWay(w)
  BY DEF PathInv
<1>3. Answered
  BY DEF PathInv
<1>4. hide' = hide /\ asked' = asked
  BY DEF RoutingNext, GetVars, DelVars, DelArgs, SetVars, SetArgs, RoomForDict, Fill, OnPath, Ask, Route, Serve,
         Follow, routingVars, onpath
<1>5. /\ Given' = Given /\ Hidden(Aim)' = Hidden(Aim) /\ Unclaimed' = Unclaimed /\ Want' = Want
      /\ Reply' = Reply /\ Segments(asked)' = Segments(asked)
  BY <1>4 DEF Given, Aim, Hidden, Unclaimed, Dotted, Want, Page, Reply
<1>6. /\ asked \in Seq(Tokens) /\ Given \in Seq(Names) /\ Segments(asked) = <<Mount>> \o Given
      /\ url \in Seq(Tokens) /\ Sound(url) /\ Segments(url) = <<Mount>> \o w /\ Below(w)
  BY <1>2 DEF UnderWay
<1>7. ASSUME NEW v \in Seq(Names), url' \in Seq(Tokens), Sound(url'), Segments(url') = <<Mount>> \o v,
             v = Given \/ Unclaimed \/ (Hidden(Aim) /\ v = Front(Given) /\ Slashed(url')),
             stage' \in {"ask", "moved"} \/ (stage' = "done" /\ Answered')
      PROVE  ((\E z \in Seq(Names) : UnderWay(z)) /\ Answered)'
  <2>1. Below(v)'
    BY <1>5, <1>7 DEF Below
  <2>2. UnderWay(v)'
    BY <2>1, <1>4, <1>5, <1>6, <1>7 DEF UnderWay
  <2>3. Answered'
    BY <1>7 DEF Answered
  <2> QED
    BY <2>2, <2>3
<1>8. CASE Ask
  <2>1. UnderWay(w)'
    BY <1>2, <1>4, <1>5, <1>6, <1>8 DEF Ask, UnderWay, Below
  <2>2. Answered'
    BY <1>8 DEF Ask, Answered
  <2> QED
    BY <2>1, <2>2
<1>9. CASE Follow
  <2>1. UnderWay(w)'
    BY <1>2, <1>4, <1>5, <1>6, <1>9 DEF Follow, UnderWay, Below
  <2>2. Answered'
    BY <1>9 DEF Follow, Answered
  <2> QED
    BY <2>1, <2>2
<1>10. CASE Route
  <2>1. script = <<>> /\ info = url /\ url' = url
    BY <1>2, <1>10 DEF Route, UnderWay
  <2>2. PICK a \in Seq(Tokens), b \in Seq(Tokens) :
          /\ a = Popped(info) /\ b = SubSeq(info, Leading(info) + 2, Len(info)) /\ url = a \o b
          /\ Peek(info) = Mount /\ Segments(a) = <<Mount>> /\ Segments(b) = w
    <3>1. PICK u \in Seq(Tokens) : u = url /\ Segments(u) = <<Mount>> \o w
      BY <1>6
    <3>2. MountOff(u, w, Popped(u), SubSeq(u, Leading(u) + 2, Len(u)))
      BY ONLY u \in Seq(Tokens), w \in Seq(Names), <3>1, MountPopped
    <3>3. PICK a, b : a = Popped(info) /\ b = SubSeq(info, Leading(info) + 2, Len(info))
      OBVIOUS
    <3>4. MountOff(url, w, a, b)
      BY <2>1, <3>1, <3>2, <3>3
    <3> QED
      BY <2>1, <3>3, <3>4 DEF MountOff
  <2>3. script' = script \o a /\ info' = b /\ stage' = "serve"
    BY <2>2, <1>10 DEF Route
  <2>4. script' = a
    BY <2>1, <2>3
  <2>5. UnderWay(w)'
    BY <2>1, <2>2, <2>3, <2>4, <1>4, <1>5, <1>6 DEF UnderWay, Below
  <2>6. Answered'
    BY <2>3 DEF Answered
  <2> QED
    BY <2>5, <2>6
<1>11. CASE Serve
  <2>1. /\ stage = "serve" /\ script \in Seq(Tokens) /\ info \in Seq(Tokens) /\ PathUrl = url
        /\ Segments(script) = <<Mount>> /\ Segments(info) = w
    BY <1>2, <1>11 DEF Serve, UnderWay, PathUrl
  <2>2. Slashed(info) => Slashed(url)
    BY <2>1, EndOf DEF PathUrl
  <2>3. PICK p \in Seq(Names) : p = Abspath(w)
    BY AbspathIs
  <2>4. Unclaimed \/ Hidden(p) \/ p = Want
    BY <2>3, <1>6, AimIs
  <2>5. CASE p \in Dirs /\ IndexOf(p)
    <3>1. Unclaimed \/ p = Want
      BY <2>4, <2>5 DEF Hidden
    <3>2. CASE Append(p, Index) \notin Files
      <4>1. answer' = <<"gone">> /\ stage' = "done" /\ url' = url
        BY <2>5, <3>2 DEF IndexOf, Say
      <4>2. p = Want => Reply = <<"gone">>
        BY <2>5, <3>2, ReplyIs DEF Page
      <4>3. Answered'
        BY <4>1, <4>2, <3>1, <1>5 DEF Answered
      <4> QED
        BY <4>1, <4>3, <1>6, <1>7 DEF Below
    <3>3. CASE Append(p, Index) \in Files /\ NeedsSlash(info)
      <4>1. url' = Append(url, "/") /\ stage' = "moved"
        BY <2>1, <2>5, <3>3 DEF IndexOf, Move
      <4>2. PICK u \in Seq(Tokens) : u = Append(url, "/") /\ Segments(u) = Segments(url) /\ Slashed(u) /\ Sound(u)
        BY <1>6, SlashAdded
      <4>3. url' = u
        BY <4>1, <4>2
      <4> QED
        BY <4>1, <4>2, <4>3, <1>6, <1>7 DEF Below
    <3>4. CASE Append(p, Index) \in Files /\ ~NeedsSlash(info)
      <4>1. answer' = <<"file", Append(p, Index)>> /\ stage' = "done" /\ url' = url
        BY <2>5, <3>4 DEF IndexOf, Say
      <4>2. Slashed(url')
        BY <4>1, <3>4, <2>2 DEF NeedsSlash
      <4>3. p = Want => Reply = <<"file", Append(p, Index)>>
        BY <2>5, <3>4, ReplyIs DEF Page
      <4>4. Answered'
        BY <4>1, <4>2, <4>3, <3>1, <1>5 DEF Answered
      <4> QED
        BY <4>1, <4>4, <1>6, <1>7 DEF Below
    <3> QED
      BY <3>2, <3>3, <3>4
  <2>6. CASE Hidden(p) /\ Move(Parent(url))
    <3>1. url' = Parent(url) /\ stage' = "moved"
      BY <2>6 DEF Move
    <3>2. w # <<>>
      BY <2>3, <2>6, AbspathEmpty, RootIs DEF Hidden
    <3>3. CASE Slashed(url)
      <4>1. Segments(url) # <<>>
        BY <1>6, MountTaken
      <4>2. url' = url
        BY <4>1, <3>1, <3>3, <1>6, ParentIs
      <4> QED
        BY <4>2, <3>1, <1>6, <1>7 DEF Below
    <3>4. CASE ~Slashed(url)
      <4>1. Unclaimed \/ (w = Given /\ Hidden(Aim))
        BY <2>3, <2>6, <3>4, <1>6 DEF Below, Aim
      <4>2. PICK u \in Seq(Tokens) : u = Parent(url) /\ Sound(u) /\ Slashed(u) /\ Segments(u) = <<Mount>> \o Front(w)
        BY <3>2, <3>4, <1>6, ParentBelow
      <4>3. PICK v \in Seq(Names) : v = Front(w)
        BY <3>2, FrontLast
      <4>4. url' = u
        BY <3>1, <4>2
      <4> QED
        BY <4>1, <4>2, <4>3, <4>4, <3>1, <1>7
    <3> QED
      BY <3>3, <3>4
  <2>7. CASE p \notin Dirs /\ ~Hidden(p) /\ Say(Found(p))
    <3>1. answer' = Found(p) /\ stage' = "done" /\ url' = url
      BY <2>7 DEF Say
    <3>2. Unclaimed \/ (p = Want /\ Reply = Found(p) /\ Want \notin Dirs)
      BY <2>4, <2>7, ReplyIs
    <3>3. Answered'
      BY <3>1, <3>2, <1>5 DEF Answered
    <3> QED
      BY <3>1, <3>3, <1>6, <1>7 DEF Below
  <2>8. \/ p \in Dirs /\ IndexOf(p)
        \/ Hidden(p) /\ Move(Parent(url))
        \/ p \notin Dirs /\ ~Hidden(p) /\ Say(Found(p))
    BY <1>11, <2>1, <2>3 DEF Serve
  <2> QED
    BY <2>5, <2>6, <2>7, <2>8
<1>12. CASE UNCHANGED routingVars
  <2>1. UnderWay(w)'
    BY <1>2, <1>5, <1>12 DEF routingVars, onpath, UnderWay, Below
  <2>2. Answered'
    BY <1>3, <1>5, <1>12 DEF routingVars, onpath, Answered
  <2> QED
    BY <2>1, <2>2
<1>13. Ask \/ Route \/ Serve \/ Follow \/ UNCHANGED routingVars
  BY DEF RoutingNext, GetVars, DelVars, DelArgs, SetVars, SetArgs, RoomForDict, Fill, OnPath
<1> QED
  BY <1>8, <1>9, <1>10, <1>11, <1>12, <1>13

LEMMA PathInvRight == ASSUME PathInv PROVE Right
<1> SUFFICES ASSUME part = "path"
             PROVE  /\ stage = "serve" => PathUrl = url /\ Segments(script) = <<Mount>>
                    /\ stage = "done" /\ ~Unclaimed =>
                         answer = Reply /\ (answer # <<"gone">> /\ Want \in Dirs => Slashed(url))
  BY DEF Right, Unclaimed, Reply, Page, Want, Aim, Given
<1>1. PICK w \in Seq(Names) : UnderWay(w)
  BY DEF PathInv
<1> QED
  BY <1>1 DEF PathInv, UnderWay, Answered, PathUrl

(* A browser gets what it asked for (Right).                                *)
THEOREM RoutingRight == RoutingSpec => []Right
<1>1. RoutingInit => PathInv
  BY PathStart
<1>2. PathInv /\ [RoutingNext]_routingVars => PathInv'
  BY PathKept
<1>3. PathInv => Right
  BY PathInvRight
<1> QED
  BY <1>1, <1>2, <1>3, PTL DEF RoutingSpec

---------------------------------------------------------------------------
(***************************************************************************)
(* Cookies.  What the Cookie header says of a name is what the getter      *)
(* answers, setting and deleting one cookie leaves the others alone, and a *)
(* browser sends back what it was told last (src/webob/cookies.py 54-132,  *)
(* src/webob/response.py 1042-1162), for any names and values, any signing *)
(* profile and any number of answers.                                      *)
(***************************************************************************)

---------------------------------------------------------------------------
(* Cookies.  What may be said in them once I was issued: a value that a     *)
(* profile signs is one that it issued.                                     *)
\* The provers do not know that a string that is written out is one.
Words == STRING \cup {"", "plain", "x", "dead", "none", "/", "/p"}

Saying(I) == {v \in [by : Words, what : Words] : v.by \in Signing => <<v.by, v.what>> \in I}
PairsOver(I) == [name : Words, value : Saying(I)]
Morsels(I) ==
  [name : CookieNames \ Attributes, path : Words, domain : Words, secure : BOOLEAN,
   httponly : BOOLEAN, samesite : Words, age : Words, text : {Quote(v) : v \in Saying(I)}]

CookiesTyped ==
  /\ jar \in SUBSET Morsels(issued) /\ IsFiniteSet(jar)
  /\ header \in Seq(PairsOver(issued))
  /\ cookies \in Seq(Morsels(issued)) /\ intended \in Seq(Morsels(issued))
  /\ page \in [kind : {"response", "app"}, cookies : Seq(Morsels(issued))]
  /\ sent \in Seq(Morsels(issued))
  /\ spoiled \in {"no", "flags", "yes"} /\ at \in {"/", "/p"} /\ phase \in {"idle", "busy"}

\* An application has nothing but what it has itself.
AppBare == page.kind = "app" => page.cookies = <<>>

LEMMA InjectiveSeq ==
  ASSUME NEW S, NEW f \in SetToSeqs(S), IsFiniteSet(S)
  PROVE  /\ f \in Seq(S) /\ Len(f) = Cardinality(S)
         /\ \A i, j \in 1..Len(f) : f[i] = f[j] => i = j
         /\ \A x \in S : \E i \in 1..Len(f) : f[i] = x
<1>1. PICK n \in Nat : n = Cardinality(S)
  BY FS_CardinalityType
<1>2. f \in [1..n -> S] /\ \A i, j \in 1..n : i # j => f[i] # f[j]
  BY <1>1 DEF SetToSeqs
<1>3. f \in Seq(S) /\ Len(f) = n
  BY <1>2
<1>4. IsFiniteSet(1..n) /\ Cardinality(1..n) = n
  BY FS_Interval
<1>5. f \in Injection(1..n, S)
  BY <1>2 DEF Injection, IsInjective
<1>6. f \in Surjection(1..n, S)
  <2>1. PICK T : T = 1..n
    OBVIOUS
  <2>2. f \in Injection(T, S) /\ Cardinality(T) = Cardinality(S)
    BY <1>1, <1>4, <1>5, <2>1
  <2> QED
    BY ONLY <2>1, <2>2, IsFiniteSet(S), FS_Injection
<1> QED
  BY <1>1, <1>2, <1>3, <1>6 DEF Surjection

---------------------------------------------------------------------------
(* The items of one name in a list of pairs or of cookies.                  *)

Named(h, n) == {i \in 1..Len(h) : h[i].name = n}

LEMMA TimesIs ==
  ASSUME NEW X, NEW h \in Seq(X), NEW n
  PROVE  /\ Times(h, n) \in Nat
         /\ Times(h, n) = 0 <=> \A i \in 1..Len(h) : h[i].name # n
         /\ Times(h, n) > 0 <=> \E i \in 1..Len(h) : h[i].name = n
         /\ Times(h, n) = 1 <=> \E i \in 1..Len(h) : Named(h, n) = {i}
         /\ Times(h, n) <= 1 <=> \A i, j \in 1..Len(h) : h[i].name = n /\ h[j].name = n => i = j
<1>1. IsFiniteSet(1..Len(h))
  BY FS_Interval
<1>2. IsFiniteSet(Named(h, n))
  BY <1>1, FS_Subset DEF Named
<1>3. Times(h, n) = Cardinality(Named(h, n)) /\ Times(h, n) \in Nat
  BY <1>2, FS_CardinalityType DEF Times, Named
<1>4. Times(h, n) = 0 <=> Named(h, n) = {}
  BY <1>2, <1>3, FS_EmptySet
<1>5. Times(h, n) = 1 <=> \E i : Named(h, n) = {i}
  BY <1>2, <1>3, FS_Singleton
<1>6. Times(h, n) = 1 <=> \E i \in 1..Len(h) : Named(h, n) = {i}
  BY <1>5 DEF Named
<1>7. Times(h, n) = 0 <=> \A i \in 1..Len(h) : h[i].name # n
  BY <1>4 DEF Named
<1>8. Times(h, n) > 0 <=> \E i \in 1..Len(h) : h[i].name = n
  BY <1>3, <1>7
<1>9. ASSUME Times(h, n) <= 1, NEW i \in 1..Len(h), NEW j \in 1..Len(h), h[i].name = n, h[j].name = n
      PROVE  i = j
  <2>1. Times(h, n) = 1
    BY <1>3, <1>7, <1>9
  <2> QED
    BY <1>6, <1>9, <2>1 DEF Named
<1>10. ASSUME \A i, j \in 1..Len(h) : h[i].name = n /\ h[j].name = n => i = j, Times(h, n) # 0
       PROVE  Times(h, n) = 1
  <2>1. PICK i \in 1..Len(h) : h[i].name = n
    BY <1>7, <1>10
  <2>2. Named(h, n) = {i}
    BY <2>1, <1>10 DEF Named
  <2> QED
    BY <2>2, <1>6
<1>11. Times(h, n) <= 1 <=> Times(h, n) = 0 \/ Times(h, n) = 1
  BY <1>3
<1> QED
  BY <1>3, <1>6, <1>7, <1>8, <1>9, <1>10, <1>11

(* The first and the last of a name.                                        *)
LEMMA AtIs ==
  ASSUME NEW X, NEW h \in Seq(X), NEW n
  PROVE  /\ Times(h, n) = 0 => At(h, n) = 0
         /\ Times(h, n) # 0 =>
              /\ At(h, n) \in 1..Len(h) /\ h[At(h, n)].name = n
              /\ \A j \in 1..Len(h) : h[j].name = n => At(h, n) <= j
<1>1. Named(h, n) = {} <=> Times(h, n) = 0
  BY TimesIs DEF Named
<1>2. At(h, n) = IF Named(h, n) # {} THEN Min(Named(h, n)) ELSE 0
  BY DEF At, SelectInSeq, Named
<1>3. ASSUME Named(h, n) # {}
      PROVE  Min(Named(h, n)) \in Named(h, n) /\ \A j \in Named(h, n) : Min(Named(h, n)) <= j
  <2>1. Named(h, n) \in SUBSET Nat
    BY DEF Named
  <2>2. \E x \in Named(h, n) : \A y \in Named(h, n) : x <= y
    BY <2>1, <1>3, Least
  <2> QED
    BY <2>2 DEF Min
<1> QED
  BY <1>1, <1>2, <1>3 DEF Named

LEMMA LastAtIs ==
  ASSUME NEW X, NEW h \in Seq(X), NEW n, Times(h, n) # 0
  PROVE  /\ LastAt(h, n) \in 1..Len(h) /\ h[LastAt(h, n)].name = n
         /\ \A j \in 1..Len(h) : h[j].name = n => j <= LastAt(h, n)
<1>1. Named(h, n) # {} /\ Named(h, n) \in SUBSET (1..Len(h)) /\ Len(h) \in Nat
  BY TimesIs DEF Named
<1>2. LastAt(h, n) = Max(Named(h, n))
  BY <1>1 DEF LastAt, SelectLastInSeq, Named
<1>3. \E x \in Named(h, n) : \A y \in Named(h, n) : y <= x
  BY <1>1, Greatest
<1>4. Max(Named(h, n)) \in Named(h, n) /\ \A y \in Named(h, n) : y <= Max(Named(h, n))
  BY <1>3 DEF Max
<1> QED
  BY <1>2, <1>4 DEF Named

LEMMA LastAtOf ==
  ASSUME NEW X, NEW h \in Seq(X), NEW n, NEW i \in 1..Len(h), h[i].name = n,
         \A j \in 1..Len(h) : h[j].name = n => j <= i
  PROVE  Times(h, n) # 0 /\ LastAt(h, n) = i
<1>1. Times(h, n) # 0
  BY TimesIs
<1>2. LastAt(h, n) \in 1..Len(h) /\ LastAt(h, n) <= i /\ i <= LastAt(h, n)
  BY <1>1, LastAtIs
<1> QED
  BY <1>1, <1>2

LEMMA Those ==
  ASSUME NEW X, NEW n
  PROVE  /\ \E V \in SUBSET X : \A z \in X : z \in V <=> z.name = n
         /\ \E V \in SUBSET X : \A z \in X : z \in V <=> z.name # n
<1>1. \E V \in SUBSET X : V = {z \in X : z.name = n}
  OBVIOUS
<1>2. \E V \in SUBSET X : V = {z \in X : z.name # n}
  OBVIOUS
<1> QED
  BY <1>1, <1>2

LEMMA OfIs ==
  ASSUME NEW X, NEW s \in Seq(X), NEW n, NEW V, \A x \in X : x \in V <=> x.name = n
  PROVE  Of(s, n) = Only(s, V)
<1>1. \A i \in 1..Len(s) : s[i] \in X
  BY ElementOfSeq
<1>2. {i \in 1..Len(s) : s[i].name = n} = PlacesIn(s, V)
  BY <1>1 DEF PlacesIn
<1> QED
  BY <1>2 DEF Of, Only

LEMMA DropIs ==
  ASSUME NEW X, NEW s \in Seq(X), NEW n, NEW V, \A x \in X : x \in V <=> x.name # n
  PROVE  Drop(s, n) = Only(s, V)
<1>1. \A i \in 1..Len(s) : s[i] \in X
  BY ElementOfSeq
<1>2. {i \in 1..Len(s) : s[i].name # n} = PlacesIn(s, V)
  BY <1>1 DEF PlacesIn
<1> QED
  BY <1>2 DEF Drop, Only

LEMMA OfHas ==
  ASSUME NEW X, NEW s \in Seq(X), NEW n
  PROVE  /\ Of(s, n) \in Seq(X) /\ Len(Of(s, n)) = Times(s, n)
         /\ \A k \in 1..Len(Of(s, n)) : /\ Of(s, n)[k].name = n
                                        /\ \E i \in 1..Len(s) : Of(s, n)[k] = s[i]
         /\ \A i \in 1..Len(s) : s[i].name = n => \E k \in 1..Len(Of(s, n)) : Of(s, n)[k] = s[i]
         /\ Of(s, n) = <<>> <=> Times(s, n) = 0
<1>1. PICK V \in SUBSET X : \A z \in X : z \in V <=> z.name = n
  BY Those
<1>2. Of(s, n) = Only(s, V)
  BY <1>1, OfIs
<1>3. /\ Only(s, V) \in Seq(X)
      /\ \A k \in 1..Len(Only(s, V)) : /\ Only(s, V)[k] \in V
                                       /\ \E i \in 1..Len(s) : Only(s, V)[k] = s[i]
      /\ \A i \in 1..Len(s) : s[i] \in V => \E k \in 1..Len(Only(s, V)) : Only(s, V)[k] = s[i]
  BY ONLY s \in Seq(X), V \in SUBSET X, OnlyHas
<1>4. \A i \in 1..Len(s) : s[i] \in X
  BY ElementOfSeq
<1>5. Times(s, n) \in Nat
  BY TimesIs
<1>6. Len(Of(s, n)) = Times(s, n)
  BY <1>5 DEF Of, Times, Chosen
<1>7. \A i \in 1..Len(s) : s[i].name = n => s[i] \in V
  BY <1>1, <1>4
<1>8. \A x \in V : x.name = n
  BY <1>1
<1>9. Of(s, n) = <<>> <=> Times(s, n) = 0
  BY <1>2, <1>3, <1>6
<1> QED
  BY <1>2, <1>3, <1>6, <1>7, <1>8, <1>9

OfApart(s, t, n) == Of(s \o t, n) = Of(s, n) \o Of(t, n)

LEMMA OfConcat ==
  ASSUME NEW X, NEW s \in Seq(X), NEW t \in Seq(X), NEW n
  PROVE  OfApart(s, t, n)
<1>1. PICK V \in SUBSET X : \A z \in X : z \in V <=> z.name = n
  BY Those
<1>2. PICK st \in Seq(X) : st = s \o t
  BY ConcatProperties
<1>3. Of(s, n) = Only(s, V) /\ Of(t, n) = Only(t, V) /\ Of(st, n) = Only(st, V)
  BY <1>1, OfIs
<1>4. OnlyApart(s, t, V)
  BY ONLY s \in Seq(X), t \in Seq(X), OnlyConcat
<1>5. Only(s \o t, V) = Only(s, V) \o Only(t, V)
  BY ONLY <1>4 DEF OnlyApart
<1> QED
  BY <1>2, <1>3, <1>5 DEF OfApart

LEMMA OfOne ==
  ASSUME NEW x, NEW n
  PROVE  Of(<<x>>, n) = IF x.name = n THEN <<x>> ELSE <<>>
<1>1. PICK X : X = {x}
  OBVIOUS
<1>2. PICK s \in Seq(X) : s = <<x>>
  <2>1. <<x>> \in Seq(X)
    BY <1>1
  <2> QED
    BY <2>1
<1>3. PICK V \in SUBSET X : \A y \in X : y \in V <=> y.name = n
  <2>1. \E V \in SUBSET X : V = {y \in X : y.name = n}
    OBVIOUS
  <2> QED
    BY <2>1
<1>4. Of(s, n) = Only(s, V)
  BY <1>3, OfIs
<1> QED
  BY <1>1, <1>2, <1>3, <1>4, OnlyOne

LEMMA OfAppend ==
  ASSUME NEW X, NEW s \in Seq(X), NEW x \in X, NEW n
  PROVE  Of(Append(s, x), n) = IF x.name = n THEN Append(Of(s, n), x) ELSE Of(s, n)
<1>1. PICK V \in SUBSET X : \A z \in X : z \in V <=> z.name = n
  BY Those
<1>2. PICK a \in Seq(X) : a = Append(s, x)
  <2>1. Append(s, x) \in Seq(X)
    OBVIOUS
  <2> QED
    BY <2>1
<1>3. Of(s, n) = Only(s, V) /\ Of(a, n) = Only(a, V)
  BY <1>1, OfIs
<1>4. Only(Append(s, x), V) = IF x \in V THEN Append(Only(s, V), x) ELSE Only(s, V)
  BY OnlyAppend
<1> QED
  BY <1>1, <1>2, <1>3, <1>4

(* Dropping a name leaves the other names as they are.                      *)
LEMMA OfDrop ==
  ASSUME NEW X, NEW s \in Seq(X), NEW n, NEW m
  PROVE  /\ Drop(s, n) \in Seq(X)
         /\ Of(Drop(s, n), m) = IF m = n THEN <<>> ELSE Of(s, m)
<1>1. PICK V \in SUBSET X : \A z \in X : z \in V <=> z.name # n
  BY Those
<1>2. PICK W \in SUBSET X : \A z \in X : z \in W <=> z.name = m
  BY Those
<1>3. Drop(s, n) = Only(s, V) /\ Of(s, m) = Only(s, W)
  BY <1>1, <1>2, OfIs, DropIs
<1>4. PICK d \in Seq(X) : d = Only(s, V)
  BY OnlyHas
<1>5. Of(d, m) = Only(d, W)
  BY <1>2, OfIs
<1>6. Only(d, W) = Only(s, V \cap W)
  BY <1>4, OnlyTwice
<1>7. CASE m = n
  <2>1. V \cap W = {}
    BY <1>1, <1>2, <1>7
  <2>2. Only(s, V \cap W) = <<>>
    BY <2>1, OnlyNone
  <2> QED
    BY <2>2, <1>3, <1>4, <1>5, <1>6, <1>7
<1>8. CASE m # n
  <2>1. V \cap W = W
    BY <1>1, <1>2, <1>8
  <2> QED
    BY <2>1, <1>3, <1>4, <1>5, <1>6, <1>8
<1> QED
  BY <1>7, <1>8

(* The last of a name in a list is the last of those of that name.          *)
LEMMA OfLast ==
  ASSUME NEW X, NEW s \in Seq(X), NEW n, Times(s, n) # 0
  PROVE  Of(s, n) # <<>> /\ Of(s, n)[Len(Of(s, n))] = s[LastAt(s, n)]
<1>1. PICK V \in SUBSET X : \A z \in X : z \in V <=> z.name = n
  BY Those
<1>2. Of(s, n) = Only(s, V)
  BY <1>1, OfIs
<1>3. \A i \in 1..Len(s) : s[i] \in X
  BY ElementOfSeq
<1>4. PICK i \in 1..Len(s) : i = LastAt(s, n)
  BY LastAtIs
<1>5. s[i] \in V /\ \A j \in 1..Len(s) : s[j] \in V => j <= i
  BY <1>1, <1>3, <1>4, LastAtIs
<1>6. Only(s, V) # <<>> /\ Only(s, V)[Len(Only(s, V))] = s[i]
  BY <1>5, OnlyLast
<1> QED
  BY <1>2, <1>4, <1>6

(* req.cookies has of a name what its last pair says.                       *)
LEMMA ParseIs ==
  ASSUME NEW X, NEW h \in Seq(X), NEW n
  PROVE  /\ n \in DOMAIN Parse(h) <=> n \in CookieNames \ Attributes /\ Of(h, n) # <<>>
         /\ n \in DOMAIN Parse(h) => Parse(h)[n] = Last(Of(h, n)).value
<1>1. DOMAIN Parse(h) = {m \in CookieNames : ValidName(m) /\ Times(h, m) > 0}
  BY DEF Parse
<1>2. Times(h, n) \in Nat
  BY TimesIs
<1>3. n \in DOMAIN Parse(h) <=> n \in CookieNames \ Attributes /\ Of(h, n) # <<>>
  BY <1>1, <1>2, OfHas DEF ValidName
<1>4. ASSUME n \in DOMAIN Parse(h) PROVE Parse(h)[n] = Last(Of(h, n)).value
  <2>1. Parse(h)[n] = h[LastAt(h, n)].value
    BY <1>4 DEF Parse
  <2>2. Times(h, n) # 0
    BY <1>2, <1>3, <1>4, OfHas
  <2>3. Last(Of(h, n)) = h[LastAt(h, n)]
    BY <2>2, OfLast DEF Last
  <2> QED
    BY <2>1, <2>3
<1> QED
  BY <1>3, <1>4

---------------------------------------------------------------------------
(* Setting and deleting in a Cookie header.                                 *)

LEMMA UpToHas ==
  ASSUME NEW X, NEW h \in Seq(X), NEW i \in 1..Len(h)
  PROVE  \E a \in Seq(X) : /\ a = SubSeq(h, 1, i - 1) /\ Len(a) = i - 1
                           /\ \A j \in 1..(i - 1) : a[j] = h[j]
<1>1. PICK n \in 0..Len(h) : n = i - 1
  OBVIOUS
<1>2. /\ SubSeq(h, 1, n) \in Seq(X) /\ Len(SubSeq(h, 1, n)) = n
      /\ \A j \in 1..n : SubSeq(h, 1, n)[j] = h[j]
  BY ONLY h \in Seq(X), n \in 0..Len(h), CutIn
<1> QED
  BY <1>1, <1>2

(* The items of a name in a list around its i-th, and in three lists.       *)
OfAround(a, x, b, m) ==
  Of(a \o (<<x>> \o b), m) = Of(a, m) \o (IF x.name = m THEN <<x>> \o Of(b, m) ELSE Of(b, m))
OfThree(a, w, b, m) == Of((a \o w) \o b, m) = (Of(a, m) \o Of(w, m)) \o Of(b, m)

LEMMA OfMiddle ==
  ASSUME NEW X, NEW a \in Seq(X), NEW x \in X, NEW b \in Seq(X), NEW m
  PROVE  OfAround(a, x, b, m)
<1>1. PICK q \in Seq(X) : q = <<x>>
  <2>1. <<x>> \in Seq(X)
    OBVIOUS
  <2> QED
    BY <2>1
<1>2. PICK w \in Seq(X) : w = q \o b
  BY ConcatProperties
<1>3. OfApart(q, b, m)
  BY ONLY q \in Seq(X), b \in Seq(X), OfConcat
<1>4. OfApart(a, w, m)
  BY ONLY a \in Seq(X), w \in Seq(X), OfConcat
<1>5. Of(w, m) = Of(q, m) \o Of(b, m)
  BY ONLY <1>2, <1>3 DEF OfApart
<1>6. Of(a \o w, m) = Of(a, m) \o Of(w, m)
  BY ONLY <1>4 DEF OfApart
<1>7. Of(q, m) = IF x.name = m THEN <<x>> ELSE <<>>
  BY <1>1, OfOne
<1>8. Of(b, m) \in Seq(X)
  BY OfHas
<1>9. <<>> \o Of(b, m) = Of(b, m)
  BY <1>8
<1> QED
  BY <1>1, <1>2, <1>5, <1>6, <1>7, <1>9 DEF OfAround

LEMMA OfInThree ==
  ASSUME NEW X, NEW a \in Seq(X), NEW w \in Seq(X), NEW b \in Seq(X), NEW m
  PROVE  OfThree(a, w, b, m) /\ (a \o w) \o b \in Seq(X)
<1>1. PICK c \in Seq(X) : c = a \o w
  BY ConcatProperties
<1>2. OfApart(a, w, m)
  BY ONLY a \in Seq(X), w \in Seq(X), OfConcat
<1>3. OfApart(c, b, m)
  BY ONLY c \in Seq(X), b \in Seq(X), OfConcat
<1>4. c \o b \in Seq(X)
  BY ConcatProperties
<1> QED
  BY <1>1, <1>2, <1>3, <1>4 DEF OfApart, OfThree

(* What a change of n leaves of the others, and of n.                       *)
LEMMA MutatedOthers ==
  ASSUME NEW X, NEW h \in Seq(X), NEW n, NEW v, NEW m, NEW w \in Seq(X), w = Written(n, v)
  PROVE  /\ Mutated(h, n, v) \in Seq(X)
         /\ m # n /\ Of(w, m) = <<>> => Of(Mutated(h, n, v), m) = Of(h, m)
<1>1. PICK i : i = At(h, n)
  OBVIOUS
<1>2. CASE Times(h, n) = 0
  <2>1. i = 0
    BY <1>1, <1>2, AtIs
  <2>2. Mutated(h, n, v) = h \o w
    BY <2>1, <1>1 DEF Mutated
  <2>3. OfApart(h, w, m)
    BY ONLY h \in Seq(X), w \in Seq(X), OfConcat
  <2>4. h \o w \in Seq(X)
    BY ConcatProperties
  <2>5. Of(h, m) \in Seq(X)
    BY OfHas
  <2>6. Of(h, m) \o <<>> = Of(h, m)
    BY <2>5
  <2> QED
    BY <2>2, <2>3, <2>4, <2>6 DEF OfApart
<1>3. CASE Times(h, n) # 0
  <2>1. i \in 1..Len(h) /\ h[i].name = n /\ i # 0
    BY <1>1, <1>3, AtIs
  <2>2. PICK a \in Seq(X) : a = SubSeq(h, 1, i - 1)
    BY <2>1, AroundIn
  <2>3. PICK b \in Seq(X) : b = SubSeq(h, i + 1, Len(h))
    BY <2>1, AroundIn
  <2>4. h[i] \in X /\ h = a \o (<<h[i]>> \o b)
    BY <2>1, <2>2, <2>3, AroundIn
  <2>5. OfAround(a, h[i], b, m)
    BY ONLY a \in Seq(X), b \in Seq(X), <2>4, OfMiddle
  <2>6. m # n => Of(h, m) = Of(a, m) \o Of(b, m)
    BY <2>1, <2>4, <2>5 DEF OfAround
  <2>7. Mutated(h, n, v) = (a \o w) \o b
    BY <2>1, <2>2, <2>3, <1>1 DEF Mutated
  <2>8. OfThree(a, w, b, m) /\ (a \o w) \o b \in Seq(X)
    BY ONLY a \in Seq(X), w \in Seq(X), b \in Seq(X), OfInThree
  <2>9. Of(a, m) \in Seq(X)
    BY OfHas
  <2>10. Of(a, m) \o <<>> = Of(a, m)
    BY <2>9
  <2> QED
    BY <2>6, <2>7, <2>8, <2>10 DEF OfThree
<1> QED
  BY <1>2, <1>3

(* The last of two lists behind each other is the last of the second.       *)
LEMMA LastBehind ==
  ASSUME NEW X, NEW q \in Seq(X), NEW t \in Seq(X), t # <<>>
  PROVE  q \o t # <<>> /\ Last(q \o t) = Last(t)
<1>1. PICK d \in Nat : d = Len(q)
  OBVIOUS
<1>2. PICK c \in Nat \ {0} : c = Len(t)
  OBVIOUS
<1>3. PICK w \in Seq(X) : w = q \o t
  BY ConcatProperties
<1>4. /\ Len(w) = Len(q) + Len(t)
      /\ \A j \in 1..(Len(q) + Len(t)) : w[j] = IF j <= Len(q) THEN q[j] ELSE t[j - Len(q)]
  BY <1>3, ConcatProperties
<1>5. Len(w) = d + c /\ \A j \in 1..(d + c) : w[j] = IF j <= d THEN q[j] ELSE t[j - d]
  BY <1>1, <1>2, <1>4
<1>6. w[d + c] = t[c]
  <2>1. d + c \in 1..(d + c) /\ ~(d + c <= d) /\ (d + c) - d = c
    OBVIOUS
  <2> QED
    BY <2>1, <1>5
<1>7. Len(w) # 0
  BY <1>5
<1> QED
  BY <1>2, <1>3, <1>5, <1>6, <1>7 DEF Last

(* The name itself: its first place is replaced, or goes.                   *)
LEMMA MutatedItself ==
  ASSUME NEW X, NEW h \in Seq(X), NEW n, NEW v, NEW w \in Seq(X), w = Written(n, v)
  PROVE  /\ Times(h, n) <= 1 => Of(Mutated(h, n, v), n) = Of(w, n)
         /\ Times(h, n) > 1 =>
              Of(Mutated(h, n, v), n) # <<>> /\ Last(Of(Mutated(h, n, v), n)) = Last(Of(h, n))
<1>1. PICK i : i = At(h, n)
  OBVIOUS
<1>2. Times(h, n) \in Nat /\ Len(Of(h, n)) = Times(h, n) /\ Of(h, n) \in Seq(X)
  BY TimesIs, OfHas
<1>3. PICK u \in Seq(X) : u = Of(w, n)
  BY OfHas
<1>4. <<>> \o u = u /\ u \o <<>> = u
  OBVIOUS
<1>5. CASE Times(h, n) = 0
  <2>1. i = 0 /\ Of(h, n) = <<>>
    BY <1>1, <1>5, AtIs, OfHas
  <2>2. Mutated(h, n, v) = h \o w
    BY <2>1, <1>1 DEF Mutated
  <2>3. OfApart(h, w, n)
    BY ONLY h \in Seq(X), w \in Seq(X), OfConcat
  <2> QED
    BY <2>1, <2>2, <2>3, <1>3, <1>4, <1>5 DEF OfApart
<1>6. CASE Times(h, n) # 0
  <2>1. i \in 1..Len(h) /\ h[i].name = n /\ i # 0 /\ \A j \in 1..Len(h) : h[j].name = n => i <= j
    BY <1>1, <1>6, AtIs
  <2>2. PICK a \in Seq(X) : /\ a = SubSeq(h, 1, i - 1) /\ Len(a) = i - 1
                            /\ \A j \in 1..(i - 1) : a[j] = h[j]
    <3>1. i \in 1..Len(h)
      BY <2>1
    <3>2. /\ SubSeq(h, 1, i - 1) \in Seq(X) /\ Len(SubSeq(h, 1, i - 1)) = i - 1
          /\ \A j \in 1..(i - 1) : SubSeq(h, 1, i - 1)[j] = h[j]
      BY ONLY <3>1, h \in Seq(X), AroundIn
    <3> QED
      BY ONLY <3>2
  <2>3. PICK b \in Seq(X) : b = SubSeq(h, i + 1, Len(h))
    BY ONLY <2>1, h \in Seq(X), AroundIn
  <2>4. h[i] \in X /\ h = a \o (<<h[i]>> \o b)
    BY <2>1, <2>2, <2>3, AroundIn
  <2>5. Of(a, n) = <<>>
    <3>1. \A j \in 1..Len(a) : a[j].name # n
      <4> SUFFICES ASSUME NEW j \in 1..Len(a) PROVE a[j].name # n
        OBVIOUS
      <4>1. a[j] = h[j] /\ j \in 1..Len(h) /\ ~(i <= j)
        BY <2>1, <2>2
      <4> QED
        BY <4>1, <2>1
    <3>2. Times(a, n) = 0
      BY <3>1, TimesIs
    <3> QED
      BY <3>2, OfHas
  <2>6. PICK t \in Seq(X) : t = Of(b, n)
    BY OfHas
  <2>7. OfAround(a, h[i], b, n)
    BY ONLY a \in Seq(X), b \in Seq(X), <2>4, OfMiddle
  <2>8. PICK q \in Seq(X) : q = <<h[i]>> /\ Len(q) = 1
    <3>1. <<h[i]>> \in Seq(X) /\ Len(<<h[i]>>) = 1
      BY <2>4
    <3> QED
      BY <3>1
  <2>9. Of(h, n) = q \o t
    <3>1. q \o t \in Seq(X)
      BY ConcatProperties
    <3>2. <<>> \o (q \o t) = q \o t
      BY <3>1
    <3> QED
      BY <3>2, <2>1, <2>4, <2>5, <2>6, <2>7, <2>8 DEF OfAround
  <2>10. Times(h, n) = 1 + Len(t)
    <3>1. Len(q \o t) = Len(q) + Len(t)
      BY ConcatProperties
    <3> QED
      BY <3>1, <2>8, <2>9, <1>2
  <2>11. Mutated(h, n, v) = (a \o w) \o b
    BY <2>1, <2>2, <2>3, <1>1 DEF Mutated
  <2>12. OfThree(a, w, b, n)
    BY ONLY a \in Seq(X), w \in Seq(X), b \in Seq(X), OfInThree
  <2>13. Of(Mutated(h, n, v), n) = u \o t
    BY <2>5, <2>6, <2>11, <2>12, <1>3, <1>4 DEF OfThree
  <2>14. Times(h, n) <= 1 => t = <<>>
    BY <2>10
  <2>15. ASSUME Times(h, n) > 1 PROVE u \o t # <<>> /\ Last(u \o t) = Last(Of(h, n))
    <3>1. t # <<>>
      BY <2>10, <2>15
    <3>2. u \o t # <<>> /\ Last(u \o t) = Last(t)
      BY ONLY u \in Seq(X), t \in Seq(X), <3>1, LastBehind
    <3>3. Last(q \o t) = Last(t)
      BY ONLY q \in Seq(X), t \in Seq(X), <3>1, LastBehind
    <3> QED
      BY <3>2, <3>3, <2>9
  <2> QED
    BY <2>13, <2>14, <2>15, <1>3, <1>4
<1> QED
  BY <1>5, <1>6

---------------------------------------------------------------------------
(* Types.  What is said stays said as more is issued.                       *)

LEMMA NamesAreWords == CookieNames \subseteq Words
<1>1. PICK N \in Seq(STRING) : N = SortedNames
  BY CookiesAssumption
<1>2. CookieNames = {N[i] : i \in DOMAIN N}
  BY <1>1 DEF CookieNames, ToSet
<1>3. \A i \in DOMAIN N : N[i] \in STRING
  OBVIOUS
<1> QED
  BY <1>2, <1>3 DEF Words

LEMMA MoreIssued ==
  ASSUME NEW I, NEW J, I \subseteq J
  PROVE  /\ Saying(I) \subseteq Saying(J) /\ PairsOver(I) \subseteq PairsOver(J)
         /\ Morsels(I) \subseteq Morsels(J)
<1>1. Saying(I) \subseteq Saying(J)
  BY DEF Saying
<1>2. {Quote(v) : v \in Saying(I)} \subseteq {Quote(v) : v \in Saying(J)}
  BY <1>1
<1>3. PairsOver(I) \subseteq PairsOver(J)
  BY <1>1 DEF PairsOver
<1>4. Morsels(I) \subseteq Morsels(J)
  BY <1>2 DEF Morsels
<1> QED
  BY <1>1, <1>3, <1>4

LEMMA Marks == "plain" \notin Signing /\ "encoded" \notin Signing
<1>1. \A p \in Profiles : p.mark # "plain"
  BY CookiesAssumption
<1> QED
  BY <1>1 DEF Signing

\* Whoever is allowed to say something plain may.
LEMMA PlainSaid ==
  ASSUME NEW I
  PROVE  /\ \A w \in Words : Plain(w) \in Saying(I)
         /\ \A v \in [by : {"plain"}, what : STRING] : v \in Saying(I) /\ v # NoValue
<1>1. ASSUME NEW v \in [by : {"plain"}, what : STRING] PROVE v \in Saying(I) /\ v # NoValue
  <2>1. v.by = "plain" /\ v \in [by : Words, what : Words]
    BY DEF Words
  <2>2. NoValue.by = "none"
    BY DEF NoValue
  <2>3. v # NoValue
    BY <2>1, <2>2
  <2> QED
    BY <2>1, <2>3, Marks DEF Saying
<1>2. ASSUME NEW w \in Words PROVE Plain(w) \in Saying(I)
  <2>1. "plain" \in Words
    BY DEF Words
  <2>2. PICK v \in [by : Words, what : Words] : v = [by |-> "plain", what |-> w]
    BY <2>1
  <2>3. v.by = "plain" /\ v = Plain(w)
    BY <2>2 DEF Plain
  <2> QED
    BY <2>2, <2>3, Marks DEF Saying
<1> QED
  BY <1>1, <1>2

(* What is read of a value that the reader stops in.                        *)
Pieces == [name : CookieNames \ Attributes, what : STRING]

LEMMA RestIs ==
  ASSUME NEW I, NEW v
  PROVE  /\ Rest(v) \in Seq(Pieces)
         /\ ~Stops(v) => Rest(v) = <<>>
         /\ Stops(v) => Plain(Cut[v.what].head) \in Saying(I)
<1>1. ASSUME Stops(v)
      PROVE  Cut[v.what].rest \in Seq(Pieces) /\ Plain(Cut[v.what].head) \in Saying(I)
  <2>1. v.what \in DOMAIN Cut
    BY <1>1 DEF Stops
  <2>2. Cut[v.what] \in [head : STRING, rest : Seq(Pieces)]
    BY <2>1, CookiesAssumption DEF Pieces
  <2>3. Cut[v.what].head \in Words
    BY <2>2 DEF Words
  <2> QED
    BY <2>2, <2>3, PlainSaid
<1>2. <<>> \in Seq(Pieces)
  OBVIOUS
<1> QED
  BY <1>1, <1>2 DEF Rest

LEMMA QuoteIs ==
  ASSUME NEW I, NEW v \in Saying(I)
  PROVE  /\ Quote(v) \in [value : Saying(I), quoted : BOOLEAN]
         /\ Quote(v) \in {Quote(w) : w \in Saying(I)}
         /\ Quote(v).value = v
         /\ ~Stops(v) => Unquote(Quote(v)) = v
<1>1. PICK p : p = Plain("x;y")
  OBVIOUS
<1>2. Quote(v) = [value |-> v, quoted |-> v = p]
  BY <1>1, Zenon DEF Quote
<1>3. (v = p) \in BOOLEAN
  OBVIOUS
<1>4. PICK q \in [value : Saying(I), quoted : BOOLEAN] : q = [value |-> v, quoted |-> v = p]
  BY ONLY <1>3, v \in Saying(I)
<1>5. q.value = v /\ (q.quoted <=> v = p)
  BY ONLY <1>3, <1>4
<1>6. ASSUME ~Stops(v) PROVE Unquote(q) = v
  <2>1. ~Stops(q.value)
    BY <1>6, <1>5
  <2>2. q.value = p => q.quoted
    BY ONLY <1>5
  <2>3. Unquote(q) = q.value
    BY <2>1, <2>2, <1>1, Zenon DEF Unquote
  <2> QED
    BY <2>3, <1>5
<1>7. Quote(v) \in {Quote(w) : w \in Saying(I)}
  OBVIOUS
<1>8. Quote(v) = q
  BY ONLY <1>2, <1>4
<1> QED
  BY ONLY <1>4, <1>5, <1>6, <1>7, <1>8

LEMMA UnquoteIs ==
  ASSUME NEW I, NEW t \in [value : Saying(I), quoted : BOOLEAN]
  PROVE  Unquote(t) \in Saying(I)
<1>1. Plain("x") \in Saying(I)
  BY PlainSaid DEF Words
<1>2. Stops(t.value) => Plain(Cut[t.value.what].head) \in Saying(I)
  BY RestIs
<1> QED
  BY <1>1, <1>2 DEF Unquote

(* The first pair of a text is the cookie itself, the others are found in   *)
(* its value.                                                               *)
LEMMA MatchesIs ==
  ASSUME NEW I, NEW n \in Words, NEW t \in [value : Saying(I), quoted : BOOLEAN]
  PROVE  /\ Matches(n, t) \in Seq(PairsOver(I)) /\ Len(Matches(n, t)) \in Nat \ {0}
         /\ Matches(n, t)[1] = [name |-> n, value |-> Unquote(t)]
         /\ \A i \in 1..Len(Matches(n, t)) : i # 1 =>
              /\ Carries(t.value, Matches(n, t)[i].name)
              /\ Matches(n, t)[i].name \in CookieNames \ Attributes
         /\ Rest(t.value) = <<>> => Matches(n, t) = <<[name |-> n, value |-> Unquote(t)]>>
<1>1. PICK p \in PairsOver(I) : p = [name |-> n, value |-> Unquote(t)]
  BY UnquoteIs DEF PairsOver
<1>2. PICK r \in Seq(Pieces) : r = IF t.quoted THEN <<>> ELSE Rest(t.value)
  <2>1. Rest(t.value) \in Seq(Pieces)
    BY ONLY RestIs
  <2>2. <<>> \in Seq(Pieces)
    OBVIOUS
  <2> QED
    BY <2>1, <2>2
<1>3. PICK c \in Nat : c = Len(r)
  OBVIOUS
<1>4. ASSUME NEW i \in 1..c
      PROVE  /\ [name |-> r[i].name, value |-> Plain(r[i].what)] \in PairsOver(I)
             /\ r[i].name \in CookieNames \ Attributes /\ Carries(t.value, r[i].name)
  <2>1. r[i] \in Pieces
    BY <1>3, ElementOfSeq
  <2>2. PICK m \in CookieNames \ Attributes : m = r[i].name
    BY <2>1 DEF Pieces
  <2>3. PICK w \in Words : w = r[i].what
    BY <2>1 DEF Pieces, Words
  <2>4. m \in Words /\ Plain(w) \in Saying(I)
    BY NamesAreWords, PlainSaid
  <2>5. r = Rest(t.value)
    BY <1>2, <1>3
  <2>6. i \in DOMAIN Rest(t.value)
    BY <2>5, <1>3
  <2>7. Carries(t.value, m)
    BY <2>2, <2>5, <2>6 DEF Carries
  <2> QED
    BY <2>2, <2>3, <2>4, <2>7 DEF PairsOver
<1>5. PICK b \in Seq(PairsOver(I)) : b = [i \in 1..c |-> [name |-> r[i].name, value |-> Plain(r[i].what)]]
  <2>1. [i \in 1..c |-> [name |-> r[i].name, value |-> Plain(r[i].what)]] \in Seq(PairsOver(I))
    BY <1>4, IsASeq
  <2> QED
    BY <2>1
<1>6. Len(b) = c /\ \A i \in 1..c : b[i] = [name |-> r[i].name, value |-> Plain(r[i].what)]
  BY <1>5
<1>7. \A i \in 1..c : b[i].name = r[i].name
  BY <1>6
<1>8. PICK q \in Seq(PairsOver(I)) : q = <<p>> /\ Len(q) = 1 /\ q[1] = p
  <2>1. <<p>> \in Seq(PairsOver(I)) /\ Len(<<p>>) = 1 /\ <<p>>[1] = p
    OBVIOUS
  <2> QED
    BY <2>1
<1>9. Matches(n, t) = q \o b
  BY <1>1, <1>2, <1>3, <1>5, <1>8 DEF Matches
<1>10. PICK z \in Seq(PairsOver(I)) : z = q \o b
  BY ConcatProperties
<1>11. Len(z) = Len(q) + Len(b) /\ \A i \in 1..(Len(q) + Len(b)) : z[i] = IF i <= Len(q) THEN q[i] ELSE b[i - Len(q)]
  BY ONLY q \in Seq(PairsOver(I)), b \in Seq(PairsOver(I)), <1>10, ConcatProperties
<1>12. Len(z) = 1 + c /\ \A i \in 1..(1 + c) : z[i] = IF i <= 1 THEN q[i] ELSE b[i - 1]
  BY <1>6, <1>8, <1>11
<1>13. z[1] = p /\ Len(z) \in Nat \ {0}
  <2>1. 1 \in 1..(1 + c) /\ 1 <= 1
    OBVIOUS
  <2>2. z[1] = q[1]
    BY ONLY <2>1, <1>12
  <2> QED
    BY <2>2, <1>8, <1>12
<1>14. ASSUME NEW i \in 1..Len(z), i # 1
       PROVE  Carries(t.value, z[i].name) /\ z[i].name \in CookieNames \ Attributes
  <2>1. i - 1 \in 1..c /\ i \in 1..(1 + c) /\ ~(i <= 1)
    BY <1>12, <1>14
  <2>2. z[i] = b[i - 1]
    BY <2>1, <1>12
  <2>3. z[i].name = r[i - 1].name
    BY <2>1, <2>2, <1>7
  <2> QED
    BY <2>1, <2>3, <1>4
<1>15. ASSUME Rest(t.value) = <<>> PROVE z = q
  <2>1. r = <<>> /\ c = 0
    BY <1>2, <1>3, <1>15
  <2>2. b = <<>>
    BY <2>1, <1>6
  <2> QED
    BY <2>2, <1>10
<1> QED
  BY <1>1, <1>8, <1>9, <1>10, <1>13, <1>14, <1>15

(* What setting or deleting a cookie of a request writes.                   *)
LEMMA WrittenIs ==
  ASSUME NEW I, NEW n \in CookieNames, NEW v, v = NoValue \/ v \in Values
  PROVE  /\ Written(n, v) \in Seq(PairsOver(I))
         /\ v = NoValue <=> v \notin Values
         /\ v = NoValue => Written(n, v) = <<>> /\ \A m : ~Carries(v, m)
         /\ v # NoValue /\ ~Stops(v) => Written(n, v) = <<[name |-> n, value |-> v]>>
         /\ \A m : m # n /\ ~Carries(v, m) => Of(Written(n, v), m) = <<>>
<1>1. CASE v = NoValue
  <2>1. Written(n, v) = <<>> /\ <<>> \in Seq(PairsOver(I))
    BY <1>1 DEF Written
  <2>2. v \notin Values
    BY <1>1, PlainSaid, CookiesAssumption
  <2>3. ~Stops(v)
    <3>1. v.by = "none"
      BY <1>1 DEF NoValue
    <3> QED
      BY <3>1 DEF Stops
  <2>4. Rest(v) = <<>>
    BY <2>3, RestIs
  <2>5. \A m : ~Carries(v, m)
    BY <2>4 DEF Carries
  <2>6. \A m : Of(Written(n, v), m) = <<>>
    <3> SUFFICES ASSUME NEW m PROVE Of(Written(n, v), m) = <<>>
      OBVIOUS
    <3>1. PICK e \in Seq(PairsOver(I)) : e = <<>> /\ Len(e) = 0
      BY NoItems
    <3>2. \A i \in 1..Len(e) : e[i].name # m
      BY <3>1
    <3>3. Times(e, m) = 0
      BY ONLY e \in Seq(PairsOver(I)), <3>2, TimesIs
    <3>4. Of(e, m) = <<>>
      BY ONLY e \in Seq(PairsOver(I)), <3>3, OfHas
    <3> QED
      BY <3>1, <3>4, <2>1
  <2> QED
    BY <2>1, <2>2, <2>5, <2>6, <1>1
<1>2. CASE v # NoValue
  <2>1. v \in Values /\ v \in [by : {"plain"}, what : STRING]
    BY <1>2, CookiesAssumption
  <2>2. v \in Saying(I) /\ n \in Words
    BY <2>1, PlainSaid, NamesAreWords
  <2>3. PICK t \in [value : Saying(I), quoted : BOOLEAN] : t = Quote(v) /\ t.value = v
    BY <2>2, QuoteIs
  <2>4. PICK w \in Seq(PairsOver(I)) : w = Matches(n, t) /\ w = Written(n, v)
    BY <2>2, <2>3, <1>2, MatchesIs DEF Written
  <2>5. w[1].name = n /\ \A i \in 1..Len(w) : i # 1 => Carries(v, w[i].name)
    <3>1. w[1] = [name |-> n, value |-> Unquote(t)]
      BY <2>2, <2>4, MatchesIs
    <3>2. w[1].name = n
      BY ONLY <3>1
    <3>3. \A i \in 1..Len(w) : i # 1 => Carries(t.value, w[i].name)
      BY <2>2, <2>4, MatchesIs
    <3> QED
      BY <3>2, <3>3, <2>3
  <2>6. ASSUME ~Stops(v) PROVE w = <<[name |-> n, value |-> v]>>
    <3>1. Unquote(t) = v /\ Rest(t.value) = <<>>
      BY <2>2, <2>3, <2>6, QuoteIs, RestIs
    <3> QED
      BY <3>1, <2>2, <2>4, MatchesIs
  <2>7. ASSUME NEW m, m # n, ~Carries(v, m) PROVE Of(w, m) = <<>>
    <3>1. \A i \in 1..Len(w) : w[i].name # m
      BY <2>5, <2>7
    <3>2. Times(w, m) = 0
      BY <3>1, TimesIs
    <3> QED
      BY <3>2, OfHas
  <2> QED
    BY <2>1, <2>4, <2>6, <2>7, <1>2
<1> QED
  BY <1>1, <1>2

\* The text of a cookie is what quoting made of something said.
LEMMA TextIs ==
  ASSUME NEW I, NEW m \in Morsels(I)
  PROVE  /\ m.text.value \in Saying(I) /\ m.text = Quote(m.text.value)
         /\ m.text \in [value : Saying(I), quoted : BOOLEAN]
         /\ m.name \in CookieNames \ Attributes /\ m.name \in Words
<1>1. PICK v \in Saying(I) : m.text = Quote(v)
  BY DEF Morsels
<1>2. m.name \in CookieNames \ Attributes
  BY DEF Morsels
<1>3. CookieNames \subseteq Words
  BY NamesAreWords
<1> QED
  BY <1>1, <1>2, <1>3, QuoteIs

LEMMA MorselIs ==
  ASSUME NEW I,
         NEW a \in [name : CookieNames, value : Saying(I) \cup {NoValue}, path : Words, domain : Words,
                    age : Words, secure : BOOLEAN, httponly : BOOLEAN, samesite : Words],
         ValidName(a.name)
  PROVE  Morsel(a) \in Morsels(I) /\ Morsel(a).name = a.name
<1>1. PICK v \in Saying(I) : v = IF a.value = NoValue THEN Plain("") ELSE a.value
  <2>1. Plain("") \in Saying(I)
    BY PlainSaid DEF Words
  <2>2. a.value = NoValue \/ a.value \in Saying(I)
    OBVIOUS
  <2> QED
    BY <2>1, <2>2
<1>2. PICK t \in {Quote(w) : w \in Saying(I)} : t = Quote(v)
  BY <1>1
<1>3. PICK g \in Words : g = IF a.value = NoValue THEN "dead" ELSE a.age
  <2>1. a.age \in Words /\ "dead" \in Words
    BY DEF Words
  <2> QED
    BY <2>1
<1>4. Morsel(a) = [name |-> a.name, path |-> a.path, domain |-> a.domain, secure |-> a.secure,
                   httponly |-> a.httponly, samesite |-> a.samesite, age |-> g, text |-> t]
  BY <1>1, <1>2, <1>3 DEF Morsel
<1>5. a.name \in CookieNames \ Attributes
  BY DEF ValidName
<1> QED
  BY <1>4, <1>5 DEF Morsels

---------------------------------------------------------------------------
(* What is asked for, and what comes of it, is of these types.              *)

Asking(I) ==
  [name : CookieNames, value : Saying(I) \cup {NoValue}, path : Words, domain : Words,
   age : Words, secure : BOOLEAN, httponly : BOOLEAN, samesite : Words]

LEMMA SimpleIs ==
  ASSUME NEW I, NEW n \in CookieNames, NEW v \in Saying(I) \cup {NoValue}, NEW p \in Words, NEW d \in Words
  PROVE  /\ Simple(n, v, p, d) \in Asking(I)
         /\ Simple(n, v, p, d).name = n
         /\ ValidName(n) => Morsel(Simple(n, v, p, d)) \in Morsels(I) /\ Morsel(Simple(n, v, p, d)).name = n
<1>1. "none" \in Words /\ "" \in Words
  BY DEF Words
<1>2. PICK a \in Asking(I) : a = Simple(n, v, p, d) /\ a.name = n
  <2>1. Simple(n, v, p, d) \in Asking(I)
    BY <1>1 DEF Simple, Asking
  <2>2. Simple(n, v, p, d).name = n
    BY DEF Simple
  <2> QED
    BY <2>1, <2>2
<1>3. ValidName(n) => Morsel(a) \in Morsels(I) /\ Morsel(a).name = n
  BY <1>2, MorselIs DEF Asking
<1> QED
  BY <1>2, <1>3

LEMMA AskingIs ==
  ASSUME NEW I
  PROVE  /\ Wanted \subseteq Asking(I)
         /\ \A n \in CookieNames, p \in {"/", "/p"} : Simple(n, NoValue, p, "none") \in Asking(I)
<1>1. ASSUME NEW a \in Wanted PROVE a \in Asking(I)
  <2>1. a \in [name : CookieNames, value : [by : {"plain"}, what : STRING] \cup {NoValue},
               path : STRING, domain : STRING, age : STRING, secure : BOOLEAN,
               httponly : BOOLEAN, samesite : STRING]
    BY CookiesAssumption
  <2>2. STRING \subseteq Words /\ [by : {"plain"}, what : STRING] \subseteq Saying(I)
    BY PlainSaid DEF Words
  <2> QED
    BY <2>1, <2>2 DEF Asking
<1>2. ASSUME NEW n \in CookieNames, NEW p \in {"/", "/p"} PROVE Simple(n, NoValue, p, "none") \in Asking(I)
  <2>1. PICK q \in Words : q = p
    BY DEF Words
  <2>2. "none" \in Words
    BY DEF Words
  <2> QED
    BY <2>1, <2>2, SimpleIs
<1> QED
  BY <1>1, <1>2

LEMMA StrayIs ==
  ASSUME NEW I, NEW e \in Strays
  PROVE  e \in PairsOver(I)
<1>1. e \in [name : STRING, value : [by : STRING \ Signing, what : STRING]]
  BY CookiesAssumption
<1>2. STRING \subseteq Words
  BY DEF Words
<1>3. e.value \in [by : Words, what : Words] /\ e.value.by \notin Signing
  BY <1>1, <1>2
<1>4. e.value \in Saying(I)
  BY <1>3 DEF Saying
<1> QED
  BY <1>1, <1>2, <1>4 DEF PairsOver

(* Every cookie of a profile says what is issued with it, or nothing.       *)
LEMMA ProfileCookiesIs ==
  ASSUME NEW I, NEW p \in Profiles, NEW w \in Whats, w # "nothing" => <<p.mark, w>> \in I
  PROVE  ProfileCookies(p, w) \in Seq(Morsels(I))
<1>1. /\ p.name \in CookieNames \ Attributes /\ p.mark \in Words /\ p.path \in Words
      /\ p.domains \in Seq(STRING) /\ w \in Words
  BY CookiesAssumption DEF Words
<1>2. PICK v \in Saying(I) \cup {NoValue} : v = Dumps(p, w)
  <2>1. Dumps(p, w) \in Saying(I) \cup {NoValue}
    BY <1>1 DEF Dumps, Saying
  <2> QED
    BY <2>1
<1> DEFINE for(d) == Morsel(Simple(p.name, v, p.path, d))
<1>3. ASSUME NEW d \in Words PROVE for(d) \in Morsels(I)
  BY <1>1, SimpleIs DEF ValidName
<1>4. ProfileCookies(p, w) = IF p.domains = <<>> THEN <<for("none")>>
                             ELSE [i \in 1..Len(p.domains) |-> for(p.domains[i])]
  BY <1>2 DEF ProfileCookies
<1>5. for("none") \in Morsels(I)
  BY <1>3 DEF Words
<1>6. \A i \in 1..Len(p.domains) : for(p.domains[i]) \in Morsels(I)
  <2> SUFFICES ASSUME NEW i \in 1..Len(p.domains) PROVE for(p.domains[i]) \in Morsels(I)
    OBVIOUS
  <2>1. p.domains[i] \in Words
    BY <1>1, ElementOfSeq DEF Words
  <2> HIDE DEF for
  <2> QED
    BY <2>1, <1>3
<1> HIDE DEF for
<1>7. [i \in 1..Len(p.domains) |-> for(p.domains[i])] \in Seq(Morsels(I))
  BY <1>1, <1>6, IsASeq
<1>8. <<for("none")>> \in Seq(Morsels(I))
  BY <1>5
<1> QED
  BY <1>4, <1>7, <1>8

---------------------------------------------------------------------------
(* Lists of lists: what is put together of them is made of their items.     *)

Flat(z, ss, n) ==
  /\ \A i \in 1..Len(z) : \E k \in 1..n : \E j \in 1..Len(ss[k]) : z[i] = ss[k][j]
  /\ \A k \in 1..n : \A j \in 1..Len(ss[k]) : \E i \in 1..Len(z) : z[i] = ss[k][j]
  /\ (\A k \in 1..n : Len(ss[k]) = 1) => Len(z) = n /\ \A k \in 1..n : z[k] = ss[k][1]
FlatWith(y, x, ss, n) == Flat(y \o x, ss, n)

LEMMA FlatStep ==
  ASSUME NEW X, NEW ss \in Seq(Seq(X)), NEW n \in 1..Len(ss), NEW y \in Seq(X), Flat(y, ss, n - 1)
  PROVE  FlatWith(y, ss[n], ss, n)
<1>1. PICK x \in Seq(X) : x = ss[n]
  BY ElementOfSeq
<1>2. PICK z \in Seq(X) : z = y \o x
  BY ConcatProperties
<1>3. PICK c \in Nat : c = Len(y)
  OBVIOUS
<1>4. PICK d \in Nat : d = Len(x)
  OBVIOUS
<1>5. Len(z) = c + d /\ \A i \in 1..(c + d) : z[i] = IF i <= c THEN y[i] ELSE x[i - c]
  BY <1>2, <1>3, <1>4, ConcatProperties
<1>6. PICK m \in Nat : m = n - 1 /\ n = m + 1
  OBVIOUS
<1>7. \A k \in 1..n : k \in 1..m \/ k = n
  BY <1>6
<1>8. \A k \in 1..m : k \in 1..n
  BY <1>6
<1>9. ASSUME NEW i \in 1..Len(z)
      PROVE  \E k \in 1..n : \E j \in 1..Len(ss[k]) : z[i] = ss[k][j]
  <2>1. CASE i <= c
    <3>1. i \in 1..c /\ z[i] = y[i]
      BY <2>1, <1>5
    <3>2. PICK k \in 1..m : \E j \in 1..Len(ss[k]) : y[i] = ss[k][j]
      BY <3>1, <1>3, <1>6 DEF Flat
    <3> QED
      BY <3>1, <3>2, <1>8
  <2>2. CASE ~(i <= c)
    <3>1. i - c \in 1..d /\ z[i] = x[i - c]
      BY <2>2, <1>5
    <3> QED
      BY <3>1, <1>1, <1>4
  <2> QED
    BY <2>1, <2>2
<1>10. ASSUME NEW k \in 1..n, NEW j \in 1..Len(ss[k])
       PROVE  \E i \in 1..Len(z) : z[i] = ss[k][j]
  <2>1. CASE k \in 1..m
    <3>1. PICK i \in 1..c : y[i] = ss[k][j]
      BY <2>1, <1>3, <1>6 DEF Flat
    <3>2. i \in 1..(c + d) /\ i <= c
      OBVIOUS
    <3>3. z[i] = y[i]
      BY <3>2, <1>5
    <3> QED
      BY <3>1, <3>2, <3>3, <1>5
  <2>2. CASE k = n
    <3>1. j \in 1..d /\ ss[k][j] = x[j]
      BY <2>2, <1>1, <1>4
    <3>2. c + j \in 1..(c + d) /\ ~(c + j <= c) /\ (c + j) - c = j
      BY <3>1
    <3>3. z[c + j] = x[j]
      BY <3>2, <1>5
    <3> QED
      BY <3>1, <3>2, <3>3, <1>5
  <2> QED
    BY <2>1, <2>2, <1>7
<1>11. ASSUME \A k \in 1..n : Len(ss[k]) = 1
       PROVE  Len(z) = n /\ \A k \in 1..n : z[k] = ss[k][1]
  <2>1. c = m /\ \A k \in 1..m : y[k] = ss[k][1]
    BY <1>3, <1>6, <1>8, <1>11 DEF Flat
  <2>2. d = 1
    BY <1>1, <1>4, <1>11
  <2>3. Len(z) = n
    BY <2>1, <2>2, <1>5, <1>6
  <2>4. ASSUME NEW k \in 1..n PROVE z[k] = ss[k][1]
    <3>1. CASE k \in 1..m
      <4>1. k \in 1..(c + d) /\ k <= c
        BY <3>1, <2>1
      <4> QED
        BY <4>1, <3>1, <2>1, <1>5
    <3>2. CASE k = n
      <4>1. n \in 1..(c + d) /\ ~(n <= c) /\ n - c = 1
        BY <2>1, <2>2, <1>6
      <4>2. z[n] = x[1]
        BY <4>1, <1>5
      <4> QED
        BY <4>2, <3>2, <1>1
    <3> QED
      BY <3>1, <3>2, <1>7
  <2> QED
    BY <2>3, <2>4
<1>12. Flat(z, ss, n)
  BY <1>9, <1>10, <1>11 DEF Flat
<1> QED
  BY <1>1, <1>2, <1>12 DEF FlatWith

LEMMA FlattenHas ==
  ASSUME NEW X, NEW ss \in Seq(Seq(X))
  PROVE  FlattenSeq(ss) \in Seq(X) /\ Flat(FlattenSeq(ss), ss, Len(ss))
<1>1. PICK N \in Nat : N = Len(ss)
  OBVIOUS
<1>2. CASE N = 0
  <2>1. FlattenSeq(ss) = <<>>
    <3>1. Len(ss) = 0
      BY <1>1, <1>2
    <3>2. ss = <<>>
      BY ONLY ss \in Seq(Seq(X)), <3>1, EmptySeq
    <3> QED
      BY <3>1, <3>2 DEF FlattenSeq
  <2>2. PICK e \in Seq(X) : e = <<>> /\ Len(e) = 0
    BY NoItems
  <2>3. Flat(e, ss, 0)
    BY <2>2 DEF Flat
  <2> QED
    BY <2>1, <2>2, <2>3, <1>1, <1>2
<1>3. CASE N # 0
  <2>1. ASSUME NEW n \in 1..N, NEW d \in Seq(X) PROVE d \o ss[n] \in Seq(X)
    <3>1. PICK x \in Seq(X) : x = ss[n]
      BY <1>1, ElementOfSeq
    <3>2. d \o x \in Seq(X)
      BY ConcatProperties
    <3> QED
      BY <3>1, <3>2
  <2>2. PICK next \in [1..N -> [Seq(X) -> Seq(X)]] :
          \A n \in 1..N, d \in Seq(X) : next[n][d] = d \o ss[n]
    <3>1. [n \in 1..N |-> [d \in Seq(X) |-> d \o ss[n]]] \in [1..N -> [Seq(X) -> Seq(X)]]
      BY <2>1
    <3> QED
      BY <3>1
  <2>3. PICK h \in [0..N -> Seq(X)] : Steps(h, N, <<>>, next)
    <3>1. <<>> \in Seq(X)
      OBVIOUS
    <3> QED
      BY <3>1, Iterates
  <2>4. h[0] = <<>> /\ \A n \in 1..N : h[n] = h[n - 1] \o ss[n]
    <3>1. ASSUME NEW n \in 1..N PROVE h[n] = h[n - 1] \o ss[n]
      <4>1. n - 1 \in 0..N
        OBVIOUS
      <4>2. PICK d \in Seq(X) : d = h[n - 1]
        BY <4>1
      <4> QED
        BY <4>2, <2>2, <2>3 DEF Steps
    <3> QED
      BY <3>1, <2>3 DEF Steps
  <2> DEFINE Is(f) == f = [i \in 1..Len(ss) |-> IF i = 1 THEN ss[i] ELSE f[i - 1] \o ss[i]]
  <2>5. PICK g : g = [i \in 1..N |-> h[i]]
    OBVIOUS
  <2>6. \A i \in 1..N : g[i] = h[i]
    BY <2>5
  <2>7. Is(g)
    <3>1. ASSUME NEW i \in 1..N PROVE g[i] = IF i = 1 THEN ss[i] ELSE g[i - 1] \o ss[i]
      <4>1. CASE i = 1
        <5>1. PICK x \in Seq(X) : x = ss[1]
          BY <4>1, <1>1, ElementOfSeq
        <5>2. <<>> \o x = x
          OBVIOUS
        <5>3. h[1] = h[0] \o ss[1]
          <6>1. 1 \in 1..N /\ 1 - 1 = 0
            BY <1>3
          <6> QED
            BY <6>1, <2>4
        <5> QED
          BY <5>1, <5>2, <5>3, <4>1, <2>4, <2>6
      <4>2. CASE i # 1
        <5>1. i - 1 \in 1..N
          BY <4>2
        <5> QED
          BY <5>1, <4>2, <2>4, <2>6
      <4> QED
        BY <4>1, <4>2
    <3> QED
      BY <3>1, <2>5, <1>1
  <2>8. Is(CHOOSE f : Is(f))
    BY ONLY <2>7
  <2>9. PICK f : f = (CHOOSE q : Is(q)) /\ Is(f)
    BY <2>8
  <2>10. FlattenSeq(ss) = f[N]
    BY <1>1, <1>3, <2>9 DEF FlattenSeq
  <2>11. \A i \in 1..N : f[i] = IF i = 1 THEN ss[i] ELSE f[i - 1] \o ss[i]
    BY <1>1, <2>9
  <2> HIDE DEF Is
  <2>12. PICK T : T = {n \in 0..N : Flat(h[n], ss, n) /\ (n # 0 => f[n] = h[n])}
    OBVIOUS
  <2>13. 0 \in T
    <3>1. PICK e \in Seq(X) : e = h[0] /\ Len(e) = 0
      BY <2>4
    <3>2. Flat(e, ss, 0)
      BY <3>1 DEF Flat
    <3> QED
      BY <3>1, <3>2, <2>12
  <2>14. ASSUME NEW n \in 1..N, n - 1 \in T PROVE n \in T
    <3>1. n \in 0..N /\ n \in 1..Len(ss) /\ n - 1 \in 0..N
      BY <1>1
    <3>2. PICK y \in Seq(X) : y = h[n - 1]
      BY <3>1
    <3>3. Flat(y, ss, n - 1)
      BY <3>2, <2>12, <2>14
    <3>4. FlatWith(y, ss[n], ss, n)
      BY ONLY ss \in Seq(Seq(X)), <3>1, y \in Seq(X), <3>3, FlatStep
    <3>5. Flat(h[n], ss, n)
      BY <3>2, <3>4, <2>4 DEF FlatWith
    <3>6. f[n] = h[n]
      <4>1. CASE n = 1
        BY <4>1, <2>6, <2>7, <2>11, <1>1 DEF Is
      <4>2. CASE n # 1
        <5>1. f[n - 1] = h[n - 1]
          BY <4>2, <2>12, <2>14
        <5> QED
          BY <5>1, <4>2, <2>4, <2>11
      <4> QED
        BY <4>1, <4>2
    <3> QED
      BY <3>1, <3>5, <3>6, <2>12
  <2>15. \A n \in 0..N : n \in T
    BY <2>13, <2>14, UpTo
  <2>16. N \in T /\ N \in 0..N
    BY <2>15
  <2> QED
    BY <2>10, <2>12, <2>16, <1>1, <1>3
<1> QED
  BY <1>2, <1>3

---------------------------------------------------------------------------
(* What is read again of Set-Cookie headers.                                *)

Faded(m) == [m EXCEPT !.secure = FALSE, !.httponly = FALSE]

LEMMA RereadIs ==
  ASSUME NEW I, NEW m \in Morsels(I)
  PROVE  /\ Reread(m) \in Seq(Morsels(I)) /\ Len(Reread(m)) \in Nat \ {0}
         /\ Reread(m)[1].name = m.name
         /\ Rest(m.text.value) = <<>> => Len(Reread(m)) = 1
         /\ ~Stops(m.text.value) => Reread(m)[1] = Faded(m)
<1>1. PICK n \in CookieNames \ Attributes : n = m.name /\ n \in Words
  BY TextIs
<1>2. PICK v \in Saying(I) : v = m.text.value /\ m.text = Quote(v)
  BY TextIs
<1>3. PICK t \in [value : Saying(I), quoted : BOOLEAN] : t = m.text /\ t.value = v
  BY <1>2, TextIs
<1>4. PICK ps \in Seq(PairsOver(I)) :
        /\ ps = Matches(n, t) /\ Len(ps) \in Nat \ {0}
        /\ ps[1] = [name |-> n, value |-> Unquote(t)]
        /\ \A i \in 1..Len(ps) : i # 1 => ps[i].name \in CookieNames \ Attributes
        /\ Rest(v) = <<>> => ps = <<[name |-> n, value |-> Unquote(t)]>>
  BY <1>1, <1>3, MatchesIs
<1>5. PICK c \in Nat \ {0} : c = Len(ps)
  BY <1>4
<1>6. ps[1].name = n /\ ps[1].value = Unquote(t)
  BY ONLY <1>4
<1>7. ASSUME NEW i \in 1..c PROVE ps[i].name \in CookieNames \ Attributes /\ ps[i].value \in Saying(I)
  <2>1. ps[i] \in PairsOver(I)
    BY <1>5, ElementOfSeq
  <2>2. ps[i].value \in Saying(I)
    BY <2>1 DEF PairsOver
  <2>3. ps[i].name \in CookieNames \ Attributes
    BY <1>1, <1>4, <1>5, <1>6
  <2> QED
    BY <2>2, <2>3
<1> DEFINE own(i) == [m EXCEPT !.name = ps[i].name, !.text = Quote(ps[i].value), !.secure = FALSE, !.httponly = FALSE]
           e(i) == IF i < c THEN Alone(ps[i]) ELSE own(i)
<1>8. ASSUME NEW i \in 1..c
      PROVE  /\ Alone(ps[i]) \in Morsels(I) /\ Alone(ps[i]).name = ps[i].name
             /\ own(i) \in Morsels(I) /\ own(i).name = ps[i].name
  <2>1. PICK k \in CookieNames \ Attributes : k = ps[i].name
    BY <1>7
  <2>2. PICK w \in Saying(I) : w = ps[i].value
    BY <1>7
  <2>3. Morsel(Simple(k, w, "/", "none")) \in Morsels(I) /\ Morsel(Simple(k, w, "/", "none")).name = k
    <3>1. ValidName(k) /\ k \in CookieNames /\ w \in Saying(I) \cup {NoValue}
      BY DEF ValidName
    <3>2. "/" \in Words /\ "none" \in Words
      BY DEF Words
    <3> QED
      BY ONLY <3>1, <3>2, SimpleIs
  <2>4. Alone(ps[i]) = Morsel(Simple(k, w, "/", "none"))
    BY <2>1, <2>2 DEF Alone
  <2>5. PICK q \in {Quote(u) : u \in Saying(I)} : q = Quote(w)
    OBVIOUS
  <2>6. own(i) = [m EXCEPT !.name = k, !.text = q, !.secure = FALSE, !.httponly = FALSE]
    BY <2>1, <2>2, <2>5
  <2>7. own(i) \in Morsels(I) /\ own(i).name = k
    BY <2>6 DEF Morsels
  <2> QED
    BY <2>1, <2>3, <2>4, <2>7
<1>9. Reread(m) = [i \in 1..c |-> e(i)]
  BY <1>1, <1>3, <1>4, <1>5 DEF Reread
<1> HIDE DEF own
<1>10. \A i \in 1..c : e(i) \in Morsels(I) /\ e(i).name = ps[i].name
  BY <1>8
<1> HIDE DEF e
<1>11. [i \in 1..c |-> e(i)] \in Seq(Morsels(I))
  BY <1>10, IsASeq
<1>12. PICK r \in Seq(Morsels(I)) : r = Reread(m) /\ Len(r) = c /\ \A i \in 1..c : r[i] = e(i)
  BY <1>9, <1>11
<1>13. r[1].name = m.name
  <2>1. 1 \in 1..c
    OBVIOUS
  <2> QED
    BY <2>1, <1>1, <1>6, <1>10, <1>12
<1>14. Rest(v) = <<>> => c = 1
  BY <1>4, <1>5
<1>15. ASSUME ~Stops(v) PROVE r[1] = Faded(m)
  <2>1. Unquote(t) = v /\ Rest(v) = <<>>
    BY <1>2, <1>3, <1>15, QuoteIs, RestIs
  <2>2. c = 1 /\ ps[1].value = v /\ Quote(v) = m.text
    BY <2>1, <1>2, <1>6, <1>14
  <2>3. r[1] = own(1)
    BY <2>2, <1>12 DEF e
  <2>4. own(1) = Faded(m)
    BY <2>2, <1>1, <1>6 DEF own, Faded, Morsels
  <2> QED
    BY <2>3, <2>4
<1> QED
  BY <1>2, <1>5, <1>12, <1>13, <1>14, <1>15

\* Everything Cookie.load reads of the headers s, in their order.
AllRead(s) == FlattenSeq([i \in 1..Len(s) |-> Reread(s[i])])

LEMMA AllReadIs ==
  ASSUME NEW I, NEW s \in Seq(Morsels(I))
  PROVE  /\ AllRead(s) \in Seq(Morsels(I))
         /\ \A i \in 1..Len(s) : \E k \in 1..Len(AllRead(s)) : AllRead(s)[k].name = s[i].name
         /\ (\A i \in 1..Len(s) : Rest(s[i].text.value) = <<>>) =>
              Len(AllRead(s)) = Len(s) /\ \A i \in 1..Len(s) : AllRead(s)[i] = Reread(s[i])[1]
<1>1. PICK c \in Nat : c = Len(s)
  OBVIOUS
<1>2. ASSUME NEW i \in 1..c
      PROVE  /\ Reread(s[i]) \in Seq(Morsels(I)) /\ Len(Reread(s[i])) \in Nat \ {0}
             /\ Reread(s[i])[1].name = s[i].name
             /\ Rest(s[i].text.value) = <<>> => Len(Reread(s[i])) = 1
  <2>1. s[i] \in Morsels(I)
    BY <1>1, ElementOfSeq
  <2> QED
    BY <2>1, RereadIs
<1>3. PICK ss \in Seq(Seq(Morsels(I))) : ss = [i \in 1..c |-> Reread(s[i])]
  <2>1. [i \in 1..c |-> Reread(s[i])] \in Seq(Seq(Morsels(I)))
    BY <1>2, IsASeq
  <2> QED
    BY <2>1
<1>4. Len(ss) = c /\ \A i \in 1..c : ss[i] = Reread(s[i])
  BY <1>3
<1>5. PICK a \in Seq(Morsels(I)) : a = AllRead(s) /\ Flat(a, ss, c)
  <2>1. FlattenSeq(ss) \in Seq(Morsels(I)) /\ Flat(FlattenSeq(ss), ss, Len(ss))
    BY FlattenHas
  <2>2. AllRead(s) = FlattenSeq(ss)
    BY <1>1, <1>3 DEF AllRead
  <2> QED
    BY <2>1, <2>2, <1>4
<1>6. ASSUME NEW i \in 1..c PROVE \E k \in 1..Len(a) : a[k].name = s[i].name
  <2>1. 1 \in 1..Len(ss[i])
    <3>1. PICK l \in Nat \ {0} : l = Len(ss[i])
      BY <1>2, <1>4
    <3> QED
      BY <3>1
  <2>2. PICK k \in 1..Len(a) : a[k] = ss[i][1]
    BY <2>1, <1>5 DEF Flat
  <2> QED
    BY <2>2, <1>2, <1>4
<1>7. ASSUME \A i \in 1..c : Rest(s[i].text.value) = <<>>
      PROVE  Len(a) = c /\ \A i \in 1..c : a[i] = Reread(s[i])[1]
  <2>1. \A i \in 1..c : Len(ss[i]) = 1
    BY <1>2, <1>4, <1>7
  <2> QED
    BY <2>1, <1>4, <1>5 DEF Flat
<1> QED
  BY <1>1, <1>5, <1>6, <1>7

---------------------------------------------------------------------------
(* What is loaded from Set-Cookie headers: of every name the last.          *)

\* The names of s, in their order.
Loading(s) == Chosen(SortedNames, {i \in 1..Len(SortedNames) : Times(s, SortedNames[i]) > 0})

LEMMA LoadingIs ==
  ASSUME NEW I, NEW s \in Seq(Morsels(I))
  PROVE  /\ Loading(s) \in Seq(STRING)
         /\ \A k \in 1..Len(Loading(s)) : Times(s, Loading(s)[k]) > 0 /\ Loading(s)[k] \in CookieNames
         /\ \A j, k \in 1..Len(Loading(s)) : Loading(s)[j] = Loading(s)[k] => j = k
         /\ \A n \in CookieNames : Times(s, n) > 0 => \E k \in 1..Len(Loading(s)) : Loading(s)[k] = n
<1>1. SortedNames \in Seq(STRING)
  BY CookiesAssumption
<1>2. PICK N \in Seq(STRING) : N = SortedNames
  BY <1>1
<1>3. PICK P \in SUBSET (1..Len(N)) : P = {i \in 1..Len(N) : Times(s, N[i]) > 0}
  <2>1. \E P \in SUBSET (1..Len(N)) : P = {i \in 1..Len(N) : Times(s, N[i]) > 0}
    OBVIOUS
  <2> QED
    BY <2>1
<1>4. Loading(s) = Chosen(N, P)
  BY <1>2, <1>3 DEF Loading
<1>5. PICK n \in Nat : \E r \in [1..n -> P] : Enumerates(r, n, P)
  BY ChosenPlaces
<1>6. PICK r \in [1..n -> P] : Enumerates(r, n, P)
  BY <1>5
<1>7. /\ Chosen(N, P) \in Seq(STRING) /\ Len(Chosen(N, P)) = n
      /\ \A k \in 1..n : r[k] \in P /\ r[k] \in 1..Len(N) /\ Chosen(N, P)[k] = N[r[k]]
  BY ONLY N \in Seq(STRING), P \in SUBSET (1..Len(N)), n \in Nat, <1>6, ChosenAlong
<1>8. \A i \in 1..Len(N) : N[i] \in CookieNames
  BY <1>2 DEF CookieNames, ToSet
<1>9. \A k \in 1..n : Times(s, N[r[k]]) > 0 /\ N[r[k]] \in CookieNames
  BY <1>3, <1>7, <1>8
<1>10. ASSUME NEW j \in 1..n, NEW k \in 1..n, N[r[j]] = N[r[k]] PROVE j = k
  <2>1. r[j] = r[k]
    <3>1. \A i, l \in 1..Len(N) : N[i] = N[l] => i = l
      <4>1. \A i, l \in DOMAIN SortedNames : SortedNames[i] = SortedNames[l] => i = l
        BY CookiesAssumption
      <4>2. DOMAIN N = 1..Len(N)
        OBVIOUS
      <4> QED
        BY <4>1, <4>2, <1>2
    <3>2. r[j] \in 1..Len(N) /\ r[k] \in 1..Len(N)
      BY <1>7
    <3> QED
      BY ONLY <3>1, <3>2, <1>10
  <2>2. r[j] \in Nat /\ r[k] \in Nat
    BY <1>7
  <2>3. ~(j < k) /\ ~(k < j)
    BY <2>1, <2>2, <1>6 DEF Enumerates
  <2> QED
    BY <2>3
<1>11. ASSUME NEW m \in CookieNames, Times(s, m) > 0 PROVE \E k \in 1..n : N[r[k]] = m
  <2>1. PICK i \in 1..Len(N) : N[i] = m
    BY <1>2 DEF CookieNames, ToSet
  <2>2. i \in P
    BY <2>1, <1>3, <1>11
  <2>3. PICK k \in 1..n : r[k] = i
    BY <2>2, <1>6 DEF Enumerates
  <2> QED
    BY <2>1, <2>3
<1>12. PICK c \in Seq(STRING) : c = Chosen(N, P)
  BY <1>7
<1>13. Len(c) = n /\ \A k \in 1..n : c[k] = N[r[k]]
  BY <1>7, <1>12
<1>14. \A k \in 1..Len(c) : Times(s, c[k]) > 0 /\ c[k] \in CookieNames
  BY <1>9, <1>13
<1>15. \A j, k \in 1..Len(c) : c[j] = c[k] => j = k
  BY <1>10, <1>13
<1>16. \A m \in CookieNames : Times(s, m) > 0 => \E k \in 1..Len(c) : c[k] = m
  BY <1>11, <1>13
<1> QED
  BY <1>4, <1>12, <1>14, <1>15, <1>16

LEMMA LoadedIs ==
  ASSUME NEW I, NEW s \in Seq(Morsels(I)), NEW a \in Seq(Morsels(I)), a = AllRead(s)
  PROVE  /\ Loaded(s) \in Seq(Morsels(I)) /\ Len(Loaded(s)) = Len(Loading(a))
         /\ \A k \in 1..Len(Loading(a)) : /\ Loaded(s)[k] = a[LastAt(a, Loading(a)[k])]
                                          /\ Loaded(s)[k].name = Loading(a)[k]
<1>1. PICK N \in Seq(STRING) : N = Loading(a)
  BY LoadingIs
<1>2. Loaded(s) = [k \in 1..Len(N) |-> a[LastAt(a, N[k])]]
  BY <1>1 DEF Loaded, Loading, AllRead
<1>3. ASSUME NEW k \in 1..Len(N)
      PROVE  a[LastAt(a, N[k])] \in Morsels(I) /\ a[LastAt(a, N[k])].name = N[k]
  <2>1. Times(a, N[k]) > 0 /\ Times(a, N[k]) \in Nat
    BY <1>1, LoadingIs, TimesIs
  <2>2. Times(a, N[k]) # 0
    BY <2>1
  <2>3. LastAt(a, N[k]) \in 1..Len(a) /\ a[LastAt(a, N[k])].name = N[k]
    BY <2>2, LastAtIs
  <2> QED
    BY <2>3, ElementOfSeq
<1>4. [k \in 1..Len(N) |-> a[LastAt(a, N[k])]] \in Seq(Morsels(I))
  BY <1>3, IsASeq
<1> QED
  BY <1>1, <1>2, <1>3, <1>4

(* A name that is not loaded is not there.                                  *)
LEMMA LoadedHas ==
  ASSUME NEW I, NEW s \in Seq(Morsels(I))
  PROVE  /\ Loaded(s) \in Seq(Morsels(I))
         /\ \A n : Times(Loaded(s), n) = 0 => Times(s, n) = 0
<1>1. PICK a \in Seq(Morsels(I)) : a = AllRead(s)
  BY AllReadIs
<1>2. PICK ld \in Seq(Morsels(I)) : ld = Loaded(s)
  BY <1>1, LoadedIs
<1>3. ASSUME NEW n, Times(ld, n) = 0, NEW i \in 1..Len(s), s[i].name = n PROVE FALSE
  <2>1. PICK k \in 1..Len(a) : a[k].name = n
    BY <1>1, <1>3, AllReadIs
  <2>2. n \in CookieNames
    <3>1. a[k] \in Morsels(I)
      BY ElementOfSeq
    <3> QED
      BY <3>1, <2>1, TextIs
  <2>3. Times(a, n) > 0
    BY <2>1, TimesIs
  <2>4. PICK j \in 1..Len(Loading(a)) : Loading(a)[j] = n
    BY <2>2, <2>3, LoadingIs
  <2>5. j \in 1..Len(ld) /\ ld[j].name = n
    BY <2>4, <1>1, <1>2, LoadedIs
  <2> QED
    BY <2>5, <1>3, TimesIs
<1>4. ASSUME NEW n, Times(ld, n) = 0 PROVE Times(s, n) = 0
  BY <1>3, <1>4, TimesIs
<1> QED
  BY <1>2, <1>4

LEMMA SendableIs ==
  ASSUME NEW X, NEW s \in Seq(X)
  PROVE  Sendable(s) \in Seq(X)
<1>1. PICK bad : bad = SelectInSeq(s, Unsendable)
  OBVIOUS
<1>2. bad = 0 \/ bad \in 1..Len(s)
  <2> DEFINE U == {i \in 1..Len(s) : Unsendable(s[i])}
  <2>1. bad = IF U # {} THEN Min(U) ELSE 0
    BY <1>1 DEF SelectInSeq
  <2>2. U \in SUBSET Nat /\ U \subseteq 1..Len(s)
    OBVIOUS
  <2> HIDE DEF U
  <2>3. U # {} => Min(U) \in U
    <3>1. U # {} => \E x \in U : \A y \in U : x <= y
      BY <2>2, Least
    <3> QED
      BY <3>1 DEF Min
  <2> QED
    BY <2>1, <2>2, <2>3
<1>3. CASE bad = 0
  BY <1>1, <1>3 DEF Sendable
<1>4. CASE bad # 0
  <2>1. bad \in 1..Len(s)
    BY <1>2, <1>4
  <2>2. SubSeq(s, 1, bad - 1) \in Seq(X)
    BY <2>1, AroundIn
  <2> QED
    BY <2>2, <1>1, <1>4 DEF Sendable
<1> QED
  BY <1>3, <1>4

LEMMA UnsetIs ==
  ASSUME NEW I, NEW s \in Seq(Morsels(I)), NEW n
  PROVE  Unset(s, n).s \in Seq(Morsels(I))
<1>1. Drop(Loaded(s), n) \in Seq(Morsels(I))
  BY LoadedHas, OfDrop
<1>2. Sendable(Drop(Loaded(s), n)) \in Seq(Morsels(I))
  BY <1>1, SendableIs
<1> QED
  BY <1>2 DEF Unset

---------------------------------------------------------------------------
(* What a browser presents: every pair of it is a cookie that it has, or is *)
(* found in the value of one.                                               *)

\* What the name and the text of a cookie are read as.
Read(m) == [name |-> m.name, value |-> Unquote(m.text)]

LEMMA PairsOfIs ==
  ASSUME NEW I, NEW s \in Seq(Morsels(I))
  PROVE  /\ PairsOf(s) \in Seq(PairsOver(I))
         /\ \A k \in 1..Len(PairsOf(s)) : \E i \in 1..Len(s) :
              PairsOf(s)[k] = Read(s[i]) \/ Carries(s[i].text.value, PairsOf(s)[k].name)
         /\ \A i \in 1..Len(s) : \E k \in 1..Len(PairsOf(s)) : PairsOf(s)[k] = Read(s[i])
<1>1. PICK c \in Nat : c = Len(s)
  OBVIOUS
<1>2. ASSUME NEW i \in 1..c
      PROVE  /\ Matches(s[i].name, s[i].text) \in Seq(PairsOver(I))
             /\ Len(Matches(s[i].name, s[i].text)) \in Nat \ {0}
             /\ Matches(s[i].name, s[i].text)[1] = Read(s[i])
             /\ \A j \in 1..Len(Matches(s[i].name, s[i].text)) : j # 1 =>
                  Carries(s[i].text.value, Matches(s[i].name, s[i].text)[j].name)
  <2>1. PICK m \in Morsels(I) : m = s[i]
    BY <1>1, ElementOfSeq
  <2>2. m.name \in Words /\ m.text \in [value : Saying(I), quoted : BOOLEAN]
    BY TextIs
  <2> QED
    BY <2>1, <2>2, MatchesIs DEF Read
<1>3. PICK ss \in Seq(Seq(PairsOver(I))) : ss = [i \in 1..c |-> Matches(s[i].name, s[i].text)]
  <2>1. [i \in 1..c |-> Matches(s[i].name, s[i].text)] \in Seq(Seq(PairsOver(I)))
    BY <1>2, IsASeq
  <2> QED
    BY <2>1
<1>4. Len(ss) = c /\ \A i \in 1..c : ss[i] = Matches(s[i].name, s[i].text)
  BY <1>3
<1>5. PICK a \in Seq(PairsOver(I)) : a = PairsOf(s) /\ Flat(a, ss, c)
  <2>1. FlattenSeq(ss) \in Seq(PairsOver(I)) /\ Flat(FlattenSeq(ss), ss, Len(ss))
    BY FlattenHas
  <2>2. PairsOf(s) = FlattenSeq(ss)
    BY <1>1, <1>3 DEF PairsOf
  <2> QED
    BY <2>1, <2>2, <1>4
<1>6. ASSUME NEW k \in 1..Len(a)
      PROVE  \E i \in 1..c : a[k] = Read(s[i]) \/ Carries(s[i].text.value, a[k].name)
  <2>1. PICK i \in 1..c : \E j \in 1..Len(ss[i]) : a[k] = ss[i][j]
    BY <1>5 DEF Flat
  <2>2. PICK j \in 1..Len(ss[i]) : a[k] = ss[i][j]
    BY <2>1
  <2>3. PICK g : g = Matches(s[i].name, s[i].text) /\ g = ss[i]
    BY <1>4
  <2>4. CASE j = 1
    <3>1. g[1] = Read(s[i])
      BY <2>3, <1>2
    <3> QED
      BY <2>2, <2>3, <2>4, <3>1
  <2>5. CASE j # 1
    <3>1. Carries(s[i].text.value, g[j].name)
      BY <2>2, <2>3, <2>5, <1>2
    <3> QED
      BY <2>2, <2>3, <3>1
  <2> QED
    BY <2>4, <2>5
<1>7. ASSUME NEW i \in 1..c PROVE \E k \in 1..Len(a) : a[k] = Read(s[i])
  <2>1. 1 \in 1..Len(ss[i])
    <3>1. PICK l \in Nat \ {0} : l = Len(ss[i])
      BY <1>2, <1>4
    <3> QED
      BY <3>1
  <2>2. PICK k \in 1..Len(a) : a[k] = ss[i][1]
    BY <2>1, <1>5 DEF Flat
  <2> QED
    BY <2>2, <1>2, <1>4
<1> QED
  BY <1>1, <1>5, <1>6, <1>7

---------------------------------------------------------------------------
(* What a browser keeps and presents.                                       *)

LEMMA RemainingIs ==
  ASSUME NEW X, NEW s \in Seq(X)
  PROVE  Remaining(s) \in SUBSET X /\ IsFiniteSet(Remaining(s))
<1>1. PICK T : T = {s[i] : i \in 1..Len(s)}
  OBVIOUS
<1>2. T \subseteq X
  BY <1>1, ElementOfSeq
<1>3. PICK n \in Nat : n = Len(s)
  OBVIOUS
<1>4. s \in [1..n -> T]
  BY <1>1, <1>3
<1>5. s \in Surjection(1..n, T)
  BY <1>1, <1>3, <1>4 DEF Surjection
<1>6. IsFiniteSet(1..n)
  BY FS_Interval
<1>7. IsFiniteSet(T)
  BY <1>5, <1>6, FS_Surjection
<1>8. Remaining(s) \subseteq T
  BY <1>1 DEF Remaining
<1> QED
  BY <1>2, <1>7, <1>8, FS_Subset

LEMMA StoredIs ==
  ASSUME NEW X, NEW s \in Seq(X), NEW j \in SUBSET X, IsFiniteSet(j)
  PROVE  Stored(j, s) \in SUBSET X /\ IsFiniteSet(Stored(j, s))
<1>1. PICK k \in SUBSET j : k = {m \in j : Place(m) \notin Places(s)}
  <2>1. {m \in j : Place(m) \notin Places(s)} \in SUBSET j
    OBVIOUS
  <2> QED
    BY <2>1
<1>2. IsFiniteSet(k)
  BY FS_Subset
<1>3. Remaining(s) \in SUBSET X /\ IsFiniteSet(Remaining(s))
  BY RemainingIs
<1>4. IsFiniteSet(k \cup Remaining(s))
  BY <1>2, <1>3, FS_Union
<1> QED
  BY <1>1, <1>3, <1>4 DEF Stored

(* A browser presents each cookie of that path once.                        *)
LEMMA PresentedIs ==
  ASSUME NEW p, NEW s \in Presented(p), IsFiniteSet(jar)
  PROVE  /\ s \in Seq(jar)
         /\ \A i \in 1..Len(s) : s[i].path = "/" \/ s[i].path = p
         /\ \A m \in jar : m.path = "/" \/ m.path = p => \E i \in 1..Len(s) : s[i] = m
<1>1. PICK H \in SUBSET jar : H = {m \in jar : m.path = "/" \/ m.path = p}
  <2>1. {m \in jar : m.path = "/" \/ m.path = p} \in SUBSET jar
    OBVIOUS
  <2> QED
    BY <2>1
<1>2. s \in SetToSeqs(H)
  BY <1>1 DEF Presented
<1>3. IsFiniteSet(H)
  BY FS_Subset
<1>4. s \in Seq(H) /\ \A x \in H : \E i \in 1..Len(s) : s[i] = x
  BY <1>2, <1>3, InjectiveSeq
<1>5. \A i \in 1..Len(s) : s[i] \in H
  BY <1>4, ElementOfSeq
<1>6. s \in Seq(jar)
  BY <1>4, <1>5
<1> QED
  BY <1>1, <1>4, <1>5, <1>6

---------------------------------------------------------------------------
(* The steps, for the types.  A request's own cookies:                      *)

RequestSide ==
  /\ header' \in Seq(PairsOver(issued))
  /\ cache' = cache \/ Looked
  /\ phase = "busy" /\ cookies = <<>>
  /\ UNCHANGED <<jar, told, cookies, intended, spoiled, page, sent, issued, at, phase, requests>>

LEMMA OnRequests ==
  ASSUME CookiesTyped,
         \/ Look \/ PopItem \/ Clear \/ Reorder
         \/ \E n \in CookieNames : Del(n) \/ Pop(n)
         \/ \E n \in CookieNames, v \in Values : Put(n, v) \/ SetDefault(n, v)
  PROVE  RequestSide
<1>1. header \in Seq(PairsOver(issued))
  BY DEF CookiesTyped
<1>2. \A n : Mutated(header, n, NoValue) \in Seq(PairsOver(issued))
  <2> SUFFICES ASSUME NEW n PROVE Mutated(header, n, NoValue) \in Seq(PairsOver(issued))
    OBVIOUS
  <2>1. Written(n, NoValue) = <<>> /\ <<>> \in Seq(PairsOver(issued))
    BY DEF Written
  <2>2. PICK w \in Seq(PairsOver(issued)) : w = Written(n, NoValue)
    BY <2>1
  <2> QED
    BY <1>1, <2>2, MutatedOthers
<1>3. ASSUME NEW n \in CookieNames, NEW v \in Values
      PROVE  Mutated(header, n, v) \in Seq(PairsOver(issued))
  <2>1. PICK w \in Seq(PairsOver(issued)) : w = Written(n, v)
    BY WrittenIs
  <2> QED
    BY <1>1, <2>1, MutatedOthers
<1>4. CASE Look
  BY <1>1, <1>4 DEF Look, OnRequest, RequestSide, Busy
<1>5. ASSUME NEW n, Pop(n) PROVE RequestSide
  BY <1>2, <1>5 DEF Pop, OnRequest, RequestSide, Called, Busy
<1>6. CASE PopItem
  BY <1>5, <1>6 DEF PopItem
<1>7. CASE Clear
  <2>1. <<>> \in Seq(PairsOver(issued))
    OBVIOUS
  <2> QED
    BY <1>7, <2>1 DEF Clear, OnRequest, RequestSide, Called, Busy
<1>8. CASE Reorder
  <2>1. \A i \in 1..Len(header) : header[(Len(header) - i) + 1] \in PairsOver(issued)
    <3> SUFFICES ASSUME NEW i \in 1..Len(header)
                 PROVE  header[(Len(header) - i) + 1] \in PairsOver(issued)
      OBVIOUS
    <3>1. (Len(header) - i) + 1 \in 1..Len(header)
      BY <1>1
    <3> QED
      BY <1>1, <3>1, ElementOfSeq
  <2>2. Len(header) \in Nat
    BY <1>1
  <2>3. [i \in 1..Len(header) |-> header[(Len(header) - i) + 1]] \in Seq(PairsOver(issued))
    BY <2>1, <2>2, IsASeq
  <2> QED
    BY <1>8, <2>3 DEF Reorder, Reverse, OnRequest, RequestSide, Called, Busy
<1>9. ASSUME NEW n \in CookieNames, Del(n) PROVE RequestSide
  BY <1>2, <1>9 DEF Del, OnRequest, RequestSide, Called, Busy
<1>10. ASSUME NEW n \in CookieNames, NEW v \in Values, Put(n, v) PROVE RequestSide
  BY <1>3, <1>10 DEF Put, OnRequest, RequestSide, Called, Busy
<1>11. ASSUME NEW n \in CookieNames, NEW v \in Values, SetDefault(n, v) PROVE RequestSide
  BY <1>3, <1>11 DEF SetDefault, OnRequest, RequestSide, Called, Busy
<1> QED
  BY <1>4, <1>5, <1>6, <1>7, <1>8, <1>9, <1>10, <1>11

(* Those of its response:                                                   *)
ResponseSide ==
  /\ cookies' \in Seq(Morsels(issued')) /\ intended' \in Seq(Morsels(issued'))
  /\ issued \subseteq issued' /\ spoiled' \in {"no", "flags", "yes"}
  /\ phase = "busy"
  /\ UNCHANGED <<jar, told, header, cache, page, sent, at, phase, requests>>

LEMMA SpoilsIs ==
  \A n, raised : Spoils(n, raised) \in {"no", "flags", "yes"}
BY DEF Spoils

LEMMA WorseIs ==
  \A a, b : Worse(a, b) \in {"no", "flags", "yes"}
BY DEF Worse

LEMMA SetCookies ==
  ASSUME CookiesTyped, NEW a \in Asking(issued), NEW overwrite \in BOOLEAN, SetCookie(a, overwrite)
  PROVE  ResponseSide
<1> DEFINE u == IF overwrite THEN Unset(cookies, a.name) ELSE [s |-> cookies, ok |-> TRUE]
           raised == ~u.ok \/ Rejected(a)
<1>1. cookies \in Seq(Morsels(issued)) /\ intended \in Seq(Morsels(issued))
  BY DEF CookiesTyped
<1>2. Unset(cookies, a.name).s \in Seq(Morsels(issued))
  BY <1>1, UnsetIs
<1>3. u.s \in Seq(Morsels(issued))
  BY <1>1, <1>2
<1>4. Drop(intended, a.name) \in Seq(Morsels(issued))
  BY <1>1, OfDrop
<1>5. /\ cookies' = (IF raised THEN u.s ELSE Append(u.s, Morsel(a)))
      /\ intended' = (IF raised THEN intended
                      ELSE Append(IF overwrite THEN Drop(intended, a.name) ELSE intended, Morsel(a)))
      /\ spoiled' = (IF overwrite THEN Worse(spoiled, Spoils(a.name, raised)) ELSE spoiled)
      /\ issued' = issued /\ OnResponse /\ Called
  BY DEF SetCookie
<1>6. ~raised => Morsel(a) \in Morsels(issued)
  <2>1. ~raised => ValidName(a.name)
    BY DEF Rejected
  <2> QED
    BY <2>1, MorselIs DEF Asking
<1> HIDE DEF u, raised
<1>7. cookies' \in Seq(Morsels(issued))
  BY <1>3, <1>5, <1>6
<1>8. intended' \in Seq(Morsels(issued))
  BY <1>1, <1>4, <1>5, <1>6
<1>9. spoiled' \in {"no", "flags", "yes"}
  BY <1>5, WorseIs DEF CookiesTyped
<1> QED
  BY <1>5, <1>7, <1>8, <1>9 DEF ResponseSide, OnResponse, Called, Busy

LEMMA OnResponses ==
  ASSUME CookiesTyped,
         \/ \E n \in CookieNames : UnsetCookie(n)
         \/ \E a \in Wanted, overwrite \in BOOLEAN : SetCookie(a, overwrite)
         \/ \E n \in CookieNames, p \in {"/", "/p"} : DeleteCookie(n, p)
         \/ \E p \in Profiles, w \in Whats : StoreProfile(p, w)
  PROVE  ResponseSide
<1>1. cookies \in Seq(Morsels(issued)) /\ intended \in Seq(Morsels(issued))
  BY DEF CookiesTyped
<1>2. ASSUME NEW n \in CookieNames, UnsetCookie(n) PROVE ResponseSide
  <2>1. Unset(cookies, n).s \in Seq(Morsels(issued)) /\ Drop(intended, n) \in Seq(Morsels(issued))
    BY <1>1, UnsetIs, OfDrop
  <2>2. /\ cookies' = Unset(cookies, n).s /\ intended' = Drop(intended, n)
        /\ spoiled' = Worse(spoiled, Spoils(n, ~Unset(cookies, n).ok))
        /\ issued' = issued /\ OnResponse /\ Called
    BY <1>2 DEF UnsetCookie
  <2>3. spoiled' \in {"no", "flags", "yes"}
    BY <2>2, WorseIs
  <2> QED
    BY <2>1, <2>2, <2>3 DEF ResponseSide, OnResponse, Called, Busy
<1>3. ASSUME NEW a \in Wanted, NEW overwrite \in BOOLEAN, SetCookie(a, overwrite) PROVE ResponseSide
  BY <1>3, AskingIs, SetCookies
<1>4. ASSUME NEW n \in CookieNames, NEW p \in {"/", "/p"}, DeleteCookie(n, p) PROVE ResponseSide
  BY <1>4, AskingIs, SetCookies DEF DeleteCookie
<1>5. ASSUME NEW p \in Profiles, NEW w \in Whats, StoreProfile(p, w) PROVE ResponseSide
  <2>1. /\ cookies' = cookies \o ProfileCookies(p, w) /\ intended' = intended \o ProfileCookies(p, w)
        /\ issued' = (IF w = "nothing" THEN issued ELSE issued \cup {<<p.mark, w>>})
        /\ spoiled' = spoiled /\ OnResponse /\ Called
    BY <1>5 DEF StoreProfile
  <2>2. issued \subseteq issued' /\ (w # "nothing" => <<p.mark, w>> \in issued')
    BY <2>1
  <2>3. PICK new \in Seq(Morsels(issued')) : new = ProfileCookies(p, w)
    BY <2>2, ProfileCookiesIs
  <2>4. Morsels(issued) \subseteq Morsels(issued')
    BY <2>2, MoreIssued
  <2>5. cookies \in Seq(Morsels(issued')) /\ intended \in Seq(Morsels(issued'))
    BY <1>1, <2>4
  <2>6. cookies' \in Seq(Morsels(issued')) /\ intended' \in Seq(Morsels(issued'))
    BY <2>1, <2>3, <2>5, ConcatProperties
  <2> QED
    BY <2>1, <2>2, <2>6 DEF ResponseSide, OnResponse, Called, Busy, CookiesTyped
<1> QED
  BY <1>2, <1>3, <1>4, <1>5

(* A request arrives:                                                       *)
LEMMA Arrives ==
  ASSUME CookiesTyped, NEW p \in {"/", "/p"}, Arrive(p)
  PROVE  /\ header' \in Seq(PairsOver(issued)) /\ at' = p /\ phase' = "busy"
         /\ cache' = <<>> /\ cookies' = <<>> /\ intended' = <<>> /\ spoiled' = "no" /\ sent' = <<>>
         /\ UNCHANGED <<jar, told, page, issued, calls>>
<1>1. PICK s \in Presented(p) :
        \/ header' = PairsOf(s)
        \/ \E e \in Strays : header' \in {<<e>> \o PairsOf(s), PairsOf(s) \o <<e>>}
  BY DEF Arrive
<1>2. s \in Seq(jar) /\ jar \subseteq Morsels(issued)
  BY PresentedIs DEF CookiesTyped
<1>3. s \in Seq(Morsels(issued))
  BY <1>2
<1>4. PICK o \in Seq(PairsOver(issued)) : o = PairsOf(s)
  BY <1>3, PairsOfIs
<1>5. ASSUME NEW e \in Strays
      PROVE  <<e>> \o o \in Seq(PairsOver(issued)) /\ o \o <<e>> \in Seq(PairsOver(issued))
  <2>1. e \in PairsOver(issued)
    BY StrayIs
  <2>2. <<e>> \in Seq(PairsOver(issued))
    BY <2>1
  <2> QED
    BY <2>2, ConcatProperties
<1>6. header' \in Seq(PairsOver(issued))
  BY <1>1, <1>4, <1>5
<1> QED
  BY <1>6 DEF Arrive

---------------------------------------------------------------------------
(* What a browser has of a list of cookies: which of them stay is a matter  *)
(* of those of one name.                                                    *)

LastSaid(o, e) ==
  \E k \in 1..Len(o) : /\ Entry(o[k]) = e /\ o[k].age # "dead"
                       /\ \A l \in 1..Len(o) : l > k => Place(o[l]) # Place(o[k])
SomePlace(o, q) == \E k \in 1..Len(o) : Place(o[k]) = q

LEMMA PlaceNames ==
  \A m, n : Place(m) = Place(n) => m.name = n.name
BY DEF Place

LEMMA PlacesByName ==
  ASSUME NEW I, NEW s \in Seq(Morsels(I)), NEW q
  PROVE  q \in Places(s) <=> \E n \in CookieNames : SomePlace(Of(s, n), q)
<1>1. \A i \in 1..Len(s) : s[i].name \in CookieNames
  <2> SUFFICES ASSUME NEW i \in 1..Len(s) PROVE s[i].name \in CookieNames
    OBVIOUS
  <2>1. s[i] \in Morsels(I)
    BY ElementOfSeq
  <2> QED
    BY <2>1, TextIs
<1>2. ASSUME NEW i \in 1..Len(s), Place(s[i]) = q PROVE \E n \in CookieNames : SomePlace(Of(s, n), q)
  <2>1. PICK n \in CookieNames : s[i].name = n
    BY <1>1
  <2>2. \E k \in 1..Len(Of(s, n)) : Of(s, n)[k] = s[i]
    BY <2>1, OfHas
  <2>3. SomePlace(Of(s, n), q)
    BY <2>2, <1>2 DEF SomePlace
  <2> QED
    BY <2>3
<1>3. ASSUME NEW n \in CookieNames, SomePlace(Of(s, n), q) PROVE \E i \in 1..Len(s) : Place(s[i]) = q
  <2>1. PICK k \in 1..Len(Of(s, n)) : Place(Of(s, n)[k]) = q
    BY <1>3 DEF SomePlace
  <2>2. \E i \in 1..Len(s) : Of(s, n)[k] = s[i]
    BY OfHas
  <2> QED
    BY <2>1, <2>2
<1> QED
  BY <1>2, <1>3 DEF Places

LEMMA EntriesByName ==
  ASSUME NEW I, NEW s \in Seq(Morsels(I)), NEW e
  PROVE  (\E m \in Remaining(s) : Entry(m) = e) <=> \E n \in CookieNames : LastSaid(Of(s, n), e)
<1>1. PICK X : X = Morsels(I)
  OBVIOUS
<1>2. \A i \in 1..Len(s) : s[i].name \in CookieNames /\ s[i] \in X
  <2> SUFFICES ASSUME NEW i \in 1..Len(s) PROVE s[i].name \in CookieNames /\ s[i] \in X
    OBVIOUS
  <2>1. s[i] \in Morsels(I)
    BY ElementOfSeq
  <2> QED
    BY <1>1, <2>1, TextIs
<1>3. ASSUME NEW n
      PROVE  \E c \in Nat : \E r \in [1..c -> 1..Len(s)] :
               /\ Len(Of(s, n)) = c
               /\ \A a, b \in 1..c : a < b => r[a] < r[b]
               /\ \A k \in 1..c : s[r[k]].name = n /\ Of(s, n)[k] = s[r[k]]
               /\ \A i \in 1..Len(s) : s[i].name = n => \E k \in 1..c : r[k] = i
  <2>1. PICK V \in SUBSET X : \A z \in X : z \in V <=> z.name = n
    BY Those
  <2>2. s \in Seq(X)
    BY <1>1
  <2>3. Of(s, n) = Only(s, V)
    BY <2>1, <2>2, OfIs
  <2>4. PICK c \in Nat : \E r \in [1..c -> PlacesIn(s, V)] : Reads(r, c, s, V)
    BY <2>2, OnlyIs
  <2>5. PICK r \in [1..c -> PlacesIn(s, V)] : Reads(r, c, s, V)
    BY <2>4
  <2>6. r \in [1..c -> 1..Len(s)]
    BY DEF PlacesIn
  <2>7. \A a, b \in 1..c : a < b => r[a] < r[b]
    BY <2>5 DEF Reads, Enumerates
  <2>8. \A i \in 1..Len(s) : s[i].name = n <=> s[i] \in V
    BY <1>2, <2>1
  <2>9. Len(Of(s, n)) = c /\ \A k \in 1..c : s[r[k]].name = n /\ Of(s, n)[k] = s[r[k]]
    BY <2>3, <2>5, <2>8 DEF Reads
  <2>10. \A i \in 1..Len(s) : s[i].name = n => \E k \in 1..c : r[k] = i
    BY <2>5, <2>8 DEF Reads
  <2> QED
    BY <2>6, <2>7, <2>9, <2>10
<1>4. ASSUME NEW m \in Remaining(s), Entry(m) = e
      PROVE  \E n \in CookieNames : LastSaid(Of(s, n), e)
  <2>1. PICK i \in 1..Len(s) : /\ s[i] = m /\ s[i].age # "dead"
                               /\ \A l \in (i + 1)..Len(s) : Place(s[l]) # Place(s[i])
    BY DEF Remaining
  <2>2. PICK n \in CookieNames : n = s[i].name
    BY <1>2
  <2>3. PICK c \in Nat : \E r \in [1..c -> 1..Len(s)] :
               /\ Len(Of(s, n)) = c
               /\ \A a, b \in 1..c : a < b => r[a] < r[b]
               /\ \A k \in 1..c : s[r[k]].name = n /\ Of(s, n)[k] = s[r[k]]
               /\ \A j \in 1..Len(s) : s[j].name = n => \E k \in 1..c : r[k] = j
    BY <1>3
  <2>4. PICK r \in [1..c -> 1..Len(s)] :
               /\ Len(Of(s, n)) = c
               /\ \A a, b \in 1..c : a < b => r[a] < r[b]
               /\ \A k \in 1..c : s[r[k]].name = n /\ Of(s, n)[k] = s[r[k]]
               /\ \A j \in 1..Len(s) : s[j].name = n => \E k \in 1..c : r[k] = j
    BY <2>3
  <2>5. PICK k \in 1..c : r[k] = i
    BY <2>2, <2>4
  <2>6. ASSUME NEW l \in 1..c, l > k PROVE Place(Of(s, n)[l]) # Place(Of(s, n)[k])
    <3>1. r[k] < r[l]
      BY <2>4, <2>6
    <3>2. r[l] \in (i + 1)..Len(s)
      BY <2>5, <3>1
    <3>3. Place(s[r[l]]) # Place(s[i])
      BY <2>1, <3>2
    <3> QED
      BY <2>4, <2>5, <3>3
  <2>7. Of(s, n)[k] = m /\ m.age # "dead"
    BY <2>1, <2>4, <2>5
  <2>8. LastSaid(Of(s, n), e)
    BY <2>4, <2>6, <2>7, <1>4 DEF LastSaid
  <2> QED
    BY <2>8
<1>5. ASSUME NEW n \in CookieNames, LastSaid(Of(s, n), e) PROVE \E m \in Remaining(s) : Entry(m) = e
  <2>1. PICK c \in Nat : \E r \in [1..c -> 1..Len(s)] :
               /\ Len(Of(s, n)) = c
               /\ \A a, b \in 1..c : a < b => r[a] < r[b]
               /\ \A k \in 1..c : s[r[k]].name = n /\ Of(s, n)[k] = s[r[k]]
               /\ \A j \in 1..Len(s) : s[j].name = n => \E k \in 1..c : r[k] = j
    BY <1>3
  <2>2. PICK r \in [1..c -> 1..Len(s)] :
               /\ Len(Of(s, n)) = c
               /\ \A a, b \in 1..c : a < b => r[a] < r[b]
               /\ \A k \in 1..c : s[r[k]].name = n /\ Of(s, n)[k] = s[r[k]]
               /\ \A j \in 1..Len(s) : s[j].name = n => \E k \in 1..c : r[k] = j
    BY <2>1
  <2>3. PICK k \in 1..c : /\ Entry(Of(s, n)[k]) = e /\ Of(s, n)[k].age # "dead"
                          /\ \A l \in 1..c : l > k => Place(Of(s, n)[l]) # Place(Of(s, n)[k])
    BY <1>5, <2>2 DEF LastSaid
  <2>4. PICK i \in 1..Len(s) : i = r[k]
    BY <2>2
  <2>5. s[i] = Of(s, n)[k] /\ s[i].name = n
    BY <2>2, <2>4
  <2>6. ASSUME NEW l \in (i + 1)..Len(s), Place(s[l]) = Place(s[i]) PROVE FALSE
    <3>1. l \in 1..Len(s) /\ l > i
      OBVIOUS
    <3>2. s[l].name = n
      BY <2>5, <2>6, PlaceNames
    <3>3. PICK b \in 1..c : r[b] = l
      BY <2>2, <3>1, <3>2
    <3>4. b > k
      <4>1. CASE b = k
        BY <4>1, <3>1, <3>3, <2>4
      <4>2. CASE b < k
        <5>1. r[b] < r[k]
          BY <4>2, <2>2
        <5> QED
          BY <5>1, <3>1, <3>3, <2>4
      <4> QED
        BY <4>1, <4>2
    <3>5. Of(s, n)[b] = s[l]
      BY <2>2, <3>3
    <3> QED
      BY <2>3, <2>5, <2>6, <3>4, <3>5
  <2>7. s[i] \in Remaining(s)
    <3>1. i \in {k1 \in 1..Len(s) : /\ s[k1].age # "dead"
                                    /\ \A l \in (k1 + 1)..Len(s) : Place(s[l]) # Place(s[k1])}
      BY <2>3, <2>5, <2>6
    <3> QED
      BY <3>1 DEF Remaining
  <2> QED
    BY <2>3, <2>5, <2>7
<1> QED
  BY <1>4, <1>5

(* And not of what Secure and HttpOnly they have.                           *)
LEMMA BareIs ==
  ASSUME NEW I, NEW o \in Seq(Morsels(I)), NEW p \in Seq(Morsels(I)), Bare(o) = Bare(p)
  PROVE  /\ Len(o) = Len(p)
         /\ \A k \in 1..Len(o) : /\ Place(o[k]) = Place(p[k]) /\ Entry(o[k]) = Entry(p[k])
                                 /\ o[k].age = p[k].age
<1>1. Len(o) \in Nat /\ Len(p) \in Nat
  OBVIOUS
<1>2. DOMAIN Bare(o) = 1..Len(o) /\ DOMAIN Bare(p) = 1..Len(p)
  BY DEF Bare
<1>3. Len(o) = Len(p)
  BY <1>1, <1>2
<1>4. ASSUME NEW k \in 1..Len(o)
      PROVE  Place(o[k]) = Place(p[k]) /\ Entry(o[k]) = Entry(p[k]) /\ o[k].age = p[k].age
  <2>1. k \in 1..Len(p)
    BY <1>3
  <2>2. /\ Bare(o)[k] = [o[k] EXCEPT !.secure = FALSE, !.httponly = FALSE]
        /\ Bare(p)[k] = [p[k] EXCEPT !.secure = FALSE, !.httponly = FALSE]
    BY <2>1 DEF Bare
  <2>3. o[k] \in Morsels(I) /\ p[k] \in Morsels(I)
    BY <2>1, ElementOfSeq
  <2>4. PICK x \in Morsels(I) : x = o[k]
    BY <2>3
  <2>5. PICK y \in Morsels(I) : y = p[k]
    BY <2>3
  <2>6. [x EXCEPT !.secure = FALSE, !.httponly = FALSE] = [y EXCEPT !.secure = FALSE, !.httponly = FALSE]
    BY <2>2, <2>4, <2>5
  <2>7. x.name = y.name /\ x.path = y.path /\ x.domain = y.domain /\ x.age = y.age /\ x.text = y.text
    BY <2>6 DEF Morsels
  <2> QED
    BY <2>4, <2>5, <2>7 DEF Place, Entry
<1> QED
  BY <1>3, <1>4

LEMMA ToldIs ==
  ASSUME NEW I, NEW s \in Seq(Morsels(I)), NEW t \in Seq(Morsels(I)), NEW j,
         \A n \in CookieNames : Bare(Of(s, n)) = Bare(Of(t, n))
  PROVE  Told({Entry(m) : m \in j}, t) = {Entry(m) : m \in Stored(j, s)}
<1>1. ASSUME NEW n \in CookieNames
      PROVE  /\ \A q : SomePlace(Of(s, n), q) <=> SomePlace(Of(t, n), q)
             /\ \A e : LastSaid(Of(s, n), e) <=> LastSaid(Of(t, n), e)
  <2>1. PICK o \in Seq(Morsels(I)) : o = Of(s, n)
    BY OfHas
  <2>2. PICK p \in Seq(Morsels(I)) : p = Of(t, n)
    BY OfHas
  <2>3. Bare(o) = Bare(p)
    BY <2>1, <2>2
  <2>4. PICK c \in Nat : c = Len(o) /\ c = Len(p)
    BY <2>3, BareIs
  <2>5. \A k \in 1..c : Place(o[k]) = Place(p[k]) /\ Entry(o[k]) = Entry(p[k]) /\ o[k].age = p[k].age
    BY <2>3, <2>4, BareIs
  <2>6. \A q : SomePlace(o, q) <=> SomePlace(p, q)
    BY <2>4, <2>5 DEF SomePlace
  <2>7. \A e : LastSaid(o, e) <=> LastSaid(p, e)
    BY <2>4, <2>5 DEF LastSaid
  <2> QED
    BY <2>1, <2>2, <2>6, <2>7
<1>2. \A q : q \in Places(s) <=> q \in Places(t)
  BY <1>1, PlacesByName
<1>3. \A e : (\E m \in Remaining(s) : Entry(m) = e) <=> \E m \in Remaining(t) : Entry(m) = e
  BY <1>1, EntriesByName
<1>4. \A m : Entry(m)[1] = Place(m)
  BY DEF Entry
<1>5. ASSUME NEW e
      PROVE  e \in Told({Entry(m) : m \in j}, t) <=> e \in {Entry(m) : m \in Stored(j, s)}
  <2>1. e \in Told({Entry(m) : m \in j}, t) <=>
          (\E m \in j : e = Entry(m) /\ Place(m) \notin Places(t)) \/ \E m \in Remaining(t) : Entry(m) = e
    BY <1>4 DEF Told
  <2>2. e \in {Entry(m) : m \in Stored(j, s)} <=>
          (\E m \in j : e = Entry(m) /\ Place(m) \notin Places(s)) \/ \E m \in Remaining(s) : Entry(m) = e
    BY DEF Stored
  <2> QED
    BY <2>1, <2>2, <1>2, <1>3
<1> QED
  BY <1>5

---------------------------------------------------------------------------
(* What setting and unsetting leaves of the other cookies of a response.    *)

Same(s, t)         == \A n \in CookieNames : Of(s, n) = Of(t, n)
SameButFlags(s, t) == \A n \in CookieNames : Bare(Of(s, n)) = Bare(Of(t, n))
Related(s, t, w)   == (w = "no" => Same(s, t)) /\ (w = "flags" => SameButFlags(s, t))

LEMMA SameIsMore ==
  ASSUME NEW s, NEW t, Same(s, t)
  PROVE  SameButFlags(s, t)
BY DEF Same, SameButFlags

BareApart(o, p, q) == Bare(o \o q) = Bare(p \o q)

LEMMA BareConcat ==
  ASSUME NEW X, NEW o \in Seq(X), NEW p \in Seq(X), NEW q \in Seq(X), Bare(o) = Bare(p)
  PROVE  BareApart(o, p, q)
<1>1. DOMAIN Bare(o) = 1..Len(o) /\ DOMAIN Bare(p) = 1..Len(p)
  BY DEF Bare
<1>2. Len(o) = Len(p)
  <2>1. Len(o) \in Nat /\ Len(p) \in Nat
    OBVIOUS
  <2> QED
    BY <1>1, <2>1
<1>3. PICK c \in Nat : c = Len(o)
  OBVIOUS
<1>4. PICK d \in Nat : d = Len(q)
  OBVIOUS
<1> DEFINE B(x) == [x EXCEPT !.secure = FALSE, !.httponly = FALSE]
<1>5. \A k \in 1..c : B(o[k]) = B(p[k])
  <2> SUFFICES ASSUME NEW k \in 1..c PROVE B(o[k]) = B(p[k])
    OBVIOUS
  <2>1. k \in 1..Len(o) /\ k \in 1..Len(p)
    BY <1>2, <1>3
  <2>2. Bare(o)[k] = B(o[k]) /\ Bare(p)[k] = B(p[k])
    BY <2>1 DEF Bare
  <2> QED
    BY <2>2
<1>6. PICK y : y = o \o q
  OBVIOUS
<1>7. PICK z : z = p \o q
  OBVIOUS
<1>8. /\ Len(y) = c + d /\ \A k \in 1..(c + d) : y[k] = IF k <= c THEN o[k] ELSE q[k - c]
      /\ Len(z) = c + d /\ \A k \in 1..(c + d) : z[k] = IF k <= c THEN p[k] ELSE q[k - c]
  <2>1. /\ Len(o \o q) = Len(o) + Len(q)
        /\ \A k \in 1..(Len(o) + Len(q)) : (o \o q)[k] = IF k <= Len(o) THEN o[k] ELSE q[k - Len(o)]
    BY ONLY o \in Seq(X), q \in Seq(X), ConcatProperties
  <2>2. /\ Len(p \o q) = Len(p) + Len(q)
        /\ \A k \in 1..(Len(p) + Len(q)) : (p \o q)[k] = IF k <= Len(p) THEN p[k] ELSE q[k - Len(p)]
    BY ONLY p \in Seq(X), q \in Seq(X), ConcatProperties
  <2> QED
    BY <2>1, <2>2, <1>2, <1>3, <1>4, <1>6, <1>7
<1>9. Bare(y) = [k \in 1..(c + d) |-> B(y[k])] /\ Bare(z) = [k \in 1..(c + d) |-> B(z[k])]
  BY <1>8 DEF Bare
<1>10. ASSUME NEW k \in 1..(c + d) PROVE B(y[k]) = B(z[k])
  <2>1. CASE k <= c
    <3>1. k \in 1..c
      BY <2>1
    <3>2. y[k] = o[k] /\ z[k] = p[k]
      BY <2>1, <1>8
    <3> HIDE DEF B
    <3> QED
      BY <3>1, <3>2, <1>5
  <2>2. CASE ~(k <= c)
    <3>1. y[k] = z[k]
      BY <2>2, <1>8
    <3> QED
      BY <3>1
  <2> QED
    BY <2>1, <2>2
<1> HIDE DEF B
<1>11. Bare(y) = Bare(z)
  BY <1>9, <1>10
<1> QED
  BY <1>6, <1>7, <1>11 DEF BareApart

RelatedApart(s, t, q, w) == Related(s \o q, t \o q, w)

LEMMA ConcatRelated ==
  ASSUME NEW X, NEW s \in Seq(X), NEW t \in Seq(X), NEW q \in Seq(X), NEW w, Related(s, t, w)
  PROVE  RelatedApart(s, t, q, w)
<1>1. PICK y : y = s \o q
  OBVIOUS
<1>2. PICK z : z = t \o q
  OBVIOUS
<1>3. ASSUME NEW n
      PROVE  Of(y, n) = Of(s, n) \o Of(q, n) /\ Of(z, n) = Of(t, n) \o Of(q, n)
  <2>1. OfApart(s, q, n) /\ OfApart(t, q, n)
    BY ONLY s \in Seq(X), t \in Seq(X), q \in Seq(X), OfConcat
  <2> QED
    BY <2>1, <1>1, <1>2 DEF OfApart
<1>4. w = "no" => Same(y, z)
  BY <1>3 DEF Related, Same
<1>5. ASSUME w = "flags", NEW n \in CookieNames PROVE Bare(Of(y, n)) = Bare(Of(z, n))
  <2>1. PICK a \in Seq(X) : a = Of(s, n)
    BY OfHas
  <2>2. PICK b \in Seq(X) : b = Of(t, n)
    BY OfHas
  <2>3. PICK c \in Seq(X) : c = Of(q, n)
    BY OfHas
  <2>4. Bare(a) = Bare(b)
    BY <2>1, <2>2, <1>5 DEF Related, SameButFlags
  <2>5. BareApart(a, b, c)
    BY ONLY a \in Seq(X), b \in Seq(X), c \in Seq(X), <2>4, BareConcat
  <2>6. Of(y, n) = a \o c /\ Of(z, n) = b \o c
    BY <1>3, <2>1, <2>2, <2>3
  <2> QED
    BY <2>5, <2>6 DEF BareApart
<1> QED
  BY <1>1, <1>2, <1>4, <1>5 DEF RelatedApart, Related, SameButFlags

LEMMA AppendRelated ==
  ASSUME NEW X, NEW s \in Seq(X), NEW t \in Seq(X), NEW x \in X, NEW w, Related(s, t, w)
  PROVE  Related(Append(s, x), Append(t, x), w)
<1>1. PICK q \in Seq(X) : q = <<x>>
  <2>1. <<x>> \in Seq(X)
    OBVIOUS
  <2> QED
    BY <2>1
<1>2. RelatedApart(s, t, q, w)
  BY ONLY s \in Seq(X), t \in Seq(X), q \in Seq(X), Related(s, t, w), ConcatRelated
<1>3. Append(s, x) = s \o q /\ Append(t, x) = t \o q
  BY <1>1
<1> QED
  BY <1>2, <1>3 DEF RelatedApart

(* Of a name that s has once, what is loaded has it once too, where no      *)
(* value in s is read as other cookies.                                     *)
LEMMA LoadedOf ==
  ASSUME NEW I, NEW s \in Seq(Morsels(I)), NEW k \in CookieNames,
         \A i \in 1..Len(s) : Rest(s[i].text.value) = <<>>,
         \A i \in 1..Len(s) : s[i].name = k => Times(s, k) = 1 /\ ~Stops(s[i].text.value)
  PROVE  Bare(Of(Loaded(s), k)) = Bare(Of(s, k))
<1>1. PICK a \in Seq(Morsels(I)) :
        a = AllRead(s) /\ Len(a) = Len(s) /\ \A i \in 1..Len(s) : a[i] = Reread(s[i])[1]
  BY AllReadIs
<1>2. PICK ld \in Seq(Morsels(I)) : ld = Loaded(s)
  BY LoadedHas
<1>3. PICK N \in Seq(STRING) : N = Loading(a)
  BY LoadingIs
<1>4. /\ Len(ld) = Len(N)
      /\ \A j \in 1..Len(N) : ld[j] = a[LastAt(a, N[j])] /\ ld[j].name = N[j]
  BY <1>1, <1>2, <1>3, LoadedIs
<1>5. /\ \A j \in 1..Len(N) : Times(a, N[j]) > 0
      /\ \A i, j \in 1..Len(N) : N[i] = N[j] => i = j
      /\ Times(a, k) > 0 => \E j \in 1..Len(N) : N[j] = k
  BY <1>3, LoadingIs
<1>6. ASSUME NEW i \in 1..Len(s) PROVE a[i].name = s[i].name
  <2>1. s[i] \in Morsels(I)
    BY ElementOfSeq
  <2> QED
    BY <2>1, <1>1, RereadIs
<1>7. CASE Times(s, k) = 0
  <2>1. \A i \in 1..Len(a) : a[i].name # k
    BY <1>1, <1>6, <1>7, TimesIs
  <2>2. ~(Times(a, k) > 0)
    BY <2>1, TimesIs
  <2>3. \A j \in 1..Len(ld) : ld[j].name # k
    BY <2>2, <1>4, <1>5
  <2>4. Times(ld, k) = 0
    BY <2>3, TimesIs
  <2>5. Of(ld, k) = <<>> /\ Of(s, k) = <<>>
    BY <2>4, <1>7, OfHas
  <2> QED
    BY <2>5, <1>2
<1>8. CASE Times(s, k) # 0
  <2>1. PICK l \in 1..Len(s) : l = LastAt(s, k) /\ s[l].name = k
    BY <1>8, LastAtIs
  <2>2. Times(s, k) = 1 /\ ~Stops(s[l].text.value)
    BY <2>1
  <2>3. PICK m \in Morsels(I) : m = s[l]
    BY ElementOfSeq
  <2>4. \A i \in 1..Len(s) : s[i].name = k => i = l
    BY <2>1, <2>2, TimesIs
  <2>5. l \in 1..Len(a) /\ a[l].name = k /\ \A i \in 1..Len(a) : a[i].name = k => i <= l
    <3>1. ASSUME NEW i \in 1..Len(a), a[i].name = k PROVE i <= l
      <4>1. i \in 1..Len(s) /\ s[i].name = k
        BY <3>1, <1>1, <1>6
      <4> QED
        BY <4>1, <2>4
    <3> QED
      BY <3>1, <2>1, <1>1, <1>6
  <2>6. LastAt(a, k) = l
    BY <2>5, LastAtOf
  <2>7. Times(a, k) > 0
    BY <2>5, TimesIs
  <2>8. PICK j \in 1..Len(N) : N[j] = k
    BY <2>7, <1>5
  <2>9. a[l] = Faded(m)
    <3>1. Reread(m)[1] = Faded(m)
      BY <2>2, <2>3, RereadIs
    <3> QED
      BY <3>1, <2>3, <1>1
  <2>10. ld[j] = Faded(m) /\ ld[j].name = k /\ j \in 1..Len(ld)
    BY <2>6, <2>8, <2>9, <1>4
  <2>11. \A i \in 1..Len(ld) : ld[i].name = k => i = j
    BY <2>8, <1>4, <1>5
  <2>12. Times(ld, k) = 1
    BY <2>10, <2>11, TimesIs DEF Named
  <2>13. PICK o \in Seq(Morsels(I)) : o = Of(s, k)
    BY OfHas
  <2>14. PICK p \in Seq(Morsels(I)) : p = Of(ld, k)
    BY OfHas
  <2>15. Len(o) = 1 /\ Len(p) = 1
    <3>1. Len(Of(s, k)) = Times(s, k)
      BY OfHas
    <3>2. Len(Of(ld, k)) = Times(ld, k)
      BY OfHas
    <3> QED
      BY <3>1, <3>2, <2>2, <2>12, <2>13, <2>14
  <2>16. p[1] = Faded(m)
    <3>1. p[1].name = k /\ \E i \in 1..Len(ld) : p[1] = ld[i]
      <4>1. 1 \in 1..Len(Of(ld, k))
        BY <2>14, <2>15
      <4>2. Of(ld, k)[1].name = k /\ \E i \in 1..Len(ld) : Of(ld, k)[1] = ld[i]
        BY ONLY <4>1, ld \in Seq(Morsels(I)), OfHas
      <4> QED
        BY <4>2, <2>14
    <3> QED
      BY <3>1, <2>10, <2>11
  <2>17. o[1] = m
    <3>1. \E i \in 1..Len(s) : o[1] = s[i] /\ s[i].name = k
      <4>1. 1 \in 1..Len(Of(s, k))
        BY <2>13, <2>15
      <4>2. Of(s, k)[1].name = k /\ \E i \in 1..Len(s) : Of(s, k)[1] = s[i]
        BY ONLY <4>1, s \in Seq(Morsels(I)), OfHas
      <4> QED
        BY <4>2, <2>13
    <3> QED
      BY <3>1, <2>3, <2>4
  <2>18. Faded(Faded(m)) = Faded(m)
    BY DEF Faded, Morsels
  <2>19. Bare(o) = Bare(p)
    <3>1. Bare(o) = [i \in 1..1 |-> Faded(o[i])]
      BY <2>15 DEF Bare, Faded
    <3>2. Bare(p) = [i \in 1..1 |-> Faded(p[i])]
      BY <2>15 DEF Bare, Faded
    <3>3. \A i \in 1..1 : i = 1
      OBVIOUS
    <3>4. \A i \in 1..1 : Faded(o[i]) = Faded(p[i])
      BY <3>3, <2>16, <2>17, <2>18
    <3> QED
      BY <3>1, <3>2, <3>4
  <2> QED
    BY <1>2, <2>13, <2>14, <2>19
<1> QED
  BY <1>7, <1>8

LEMMA UnsetLeaves ==
  ASSUME NEW I, NEW s \in Seq(Morsels(I)), NEW t \in Seq(Morsels(I)), NEW n, NEW w,
         Related(s, t, w), w # "yes",
         Unset(s, n).ok, Harmless(s, n), w \in {"no", "flags"}
  PROVE  /\ Times(Loaded(s), n) = 0 => Related(Unset(s, n).s, Drop(t, n), w)
         /\ SameButFlags(Unset(s, n).s, Drop(t, n))
<1>1. \A k : Of(Drop(t, n), k) = IF k = n THEN <<>> ELSE Of(t, k)
  BY OfDrop
<1>2. SameButFlags(s, t)
  BY SameIsMore DEF Related
<1>3. CASE Times(Loaded(s), n) = 0
  <2>1. Unset(s, n).s = s
    BY <1>3 DEF Unset
  <2>2. Of(s, n) = <<>>
    BY <1>3, LoadedHas, OfHas
  <2>3. SameButFlags(s, Drop(t, n))
    BY <1>1, <1>2, <2>2 DEF SameButFlags
  <2>4. Same(s, t) => Same(s, Drop(t, n))
    BY <1>1, <2>2 DEF Same
  <2> QED
    BY <2>1, <2>3, <2>4 DEF Related
<1>4. CASE Times(Loaded(s), n) # 0
  <2>1. PICK ld \in Seq(Morsels(I)) : ld = Loaded(s)
    BY LoadedHas
  <2>2. Unset(s, n).s = Drop(ld, n)
    BY <1>4, <2>1 DEF Unset
  <2>3. ASSUME NEW i \in 1..Len(s)
        PROVE  /\ Rest(s[i].text.value) = <<>>
               /\ s[i].name # n => Times(s, s[i].name) = 1 /\ ~Stops(s[i].text.value)
    <3>1. s[i] \in ToSet(s)
      BY DEF ToSet
    <3>2. IF s[i].name = n THEN Rest(s[i].text.value) = <<>>
          ELSE Times(s, s[i].name) = 1 /\ ~Stops(s[i].text.value)
      BY <3>1, <1>4 DEF Harmless
    <3> QED
      BY <3>2, RestIs
  <2>4. ASSUME NEW k \in CookieNames PROVE Bare(Of(Drop(ld, n), k)) = Bare(Of(Drop(t, n), k))
    <3>1. Of(Drop(ld, n), k) = IF k = n THEN <<>> ELSE Of(ld, k)
      BY OfDrop
    <3>2. CASE k = n
      BY <1>1, <3>1, <3>2
    <3>3. CASE k # n
      <4>1. \A i \in 1..Len(s) : s[i].name = k => Times(s, k) = 1 /\ ~Stops(s[i].text.value)
        BY <2>3, <3>3
      <4>2. Bare(Of(ld, k)) = Bare(Of(s, k))
        BY <4>1, <2>1, <2>3, LoadedOf
      <4>3. Bare(Of(s, k)) = Bare(Of(t, k))
        BY <1>2 DEF SameButFlags
      <4> QED
        BY <1>1, <3>1, <3>3, <4>2, <4>3
    <3> QED
      BY <3>2, <3>3
  <2> QED
    BY <1>4, <2>2, <2>4 DEF SameButFlags
<1> QED
  BY <1>3, <1>4

---------------------------------------------------------------------------
(* The invariant: a browser has what it was told, a response relates to     *)
(* what was intended as the calls so far allow, and what was parsed was     *)
(* parsed from the header it is kept with.                                  *)

ParsedOf     == cache = <<>> \/ cache[1].dict = Parse(cache[1].of)
AsTold       == told = {Entry(m) : m \in jar}
AsIntended   == phase = "busy" => Related(cookies, intended, spoiled)
CookiesInv   == CookiesTyped /\ AppBare /\ ParsedOf /\ AsTold /\ AsIntended /\ NothingLeft

LEMMA CookiesStart == ASSUME CookiesInit PROVE CookiesInv
<1>1. <<>> \in Seq(Morsels(issued)) /\ <<>> \in Seq(PairsOver(issued))
  OBVIOUS
<1>2. PageKinds \subseteq {"response", "app"}
  BY CookiesAssumption
<1>3. PICK k \in {"response", "app"} : page = [kind |-> k, cookies |-> <<>>]
  BY <1>2 DEF CookiesInit
<1>4. page \in [kind : {"response", "app"}, cookies : Seq(Morsels(issued))] /\ page.cookies = <<>>
  BY <1>1, <1>3
<1>5. IsFiniteSet({})
  BY FS_EmptySet
<1>6. CookiesTyped
  BY <1>1, <1>4, <1>5 DEF CookiesTyped, CookiesInit
<1> QED
  BY <1>4, <1>6 DEF CookiesInit, CookiesInv, AppBare, ParsedOf, AsTold, AsIntended, NothingLeft

LEMMA CachedIs == ASSUME ParsedOf PROVE Cached = Parse(header)
BY DEF ParsedOf, Cached

LEMMA UnsetRelates ==
  ASSUME CookiesTyped, Related(cookies, intended, spoiled), NEW n, NEW raised \in BOOLEAN,
         ~raised => Unset(cookies, n).ok
  PROVE  /\ ~raised => Related(Unset(cookies, n).s, Drop(intended, n), Worse(spoiled, Spoils(n, raised)))
         /\ raised => Related(Unset(cookies, n).s, intended, Worse(spoiled, Spoils(n, raised)))
<1>1. PICK w : w = Worse(spoiled, Spoils(n, raised))
  OBVIOUS
<1>2. /\ cookies \in Seq(Morsels(issued)) /\ intended \in Seq(Morsels(issued))
      /\ spoiled \in {"no", "flags", "yes"}
  BY DEF CookiesTyped
<1>3. CASE w = "yes"
  BY <1>1, <1>3 DEF Related
<1>4. CASE w # "yes"
  <2>1. spoiled # "yes" /\ Spoils(n, raised) # "yes"
    BY <1>1, <1>4 DEF Worse
  <2>2. Times(Loaded(cookies), n) = 0 \/ (~raised /\ Harmless(cookies, n))
    BY <2>1 DEF Spoils
  <2>3. Times(Loaded(cookies), n) = 0 => w = spoiled
    BY <2>1, <1>1, <1>2 DEF Worse, Spoils
  <2>4. Times(Loaded(cookies), n) # 0 => w = "flags"
    BY <2>1, <2>2, <1>1, <1>2 DEF Worse, Spoils
  <2>5. CASE raised
    <3>1. Times(Loaded(cookies), n) = 0
      BY <2>2, <2>5
    <3>2. Unset(cookies, n).s = cookies
      BY <3>1 DEF Unset
    <3> QED
      BY <3>1, <3>2, <2>3, <2>5, <1>1
  <2>6. CASE ~raised
    <3>1. Harmless(cookies, n) /\ Unset(cookies, n).ok
      BY <2>2, <2>6 DEF Harmless
    <3>2. spoiled \in {"no", "flags"}
      BY <1>2, <2>1
    <3>3. /\ Times(Loaded(cookies), n) = 0 => Related(Unset(cookies, n).s, Drop(intended, n), spoiled)
          /\ SameButFlags(Unset(cookies, n).s, Drop(intended, n))
      BY ONLY <1>2, <2>1, <3>1, <3>2, Related(cookies, intended, spoiled), UnsetLeaves
    <3>4. CASE Times(Loaded(cookies), n) = 0
      BY <3>3, <3>4, <2>3, <2>6, <1>1
    <3>5. CASE Times(Loaded(cookies), n) # 0
      <4>1. Related(Unset(cookies, n).s, Drop(intended, n), w)
        BY <3>3, <3>5, <2>4 DEF Related
      <4> QED
        BY <4>1, <2>6, <1>1
    <3> QED
      BY <3>4, <3>5
  <2> QED
    BY <2>5, <2>6
<1> QED
  BY <1>3, <1>4

LEMMA SettingRelates ==
  ASSUME CookiesTyped, Related(cookies, intended, spoiled),
         NEW a \in Asking(issued), NEW overwrite \in BOOLEAN, SetCookie(a, overwrite)
  PROVE  Related(cookies', intended', spoiled')
<1> DEFINE u == IF overwrite THEN Unset(cookies, a.name) ELSE [s |-> cookies, ok |-> TRUE]
           raised == ~u.ok \/ Rejected(a)
           t == IF overwrite /\ ~raised THEN Drop(intended, a.name) ELSE intended
<1>1. cookies \in Seq(Morsels(issued)) /\ intended \in Seq(Morsels(issued))
  BY DEF CookiesTyped
<1>2. /\ cookies' = (IF raised THEN u.s ELSE Append(u.s, Morsel(a)))
      /\ intended' = (IF raised THEN intended
                      ELSE Append(IF overwrite THEN Drop(intended, a.name) ELSE intended, Morsel(a)))
      /\ spoiled' = (IF overwrite THEN Worse(spoiled, Spoils(a.name, raised)) ELSE spoiled)
  BY DEF SetCookie
<1>3. u.s \in Seq(Morsels(issued)) /\ t \in Seq(Morsels(issued))
  BY <1>1, UnsetIs, OfDrop
<1>4. ~raised => Morsel(a) \in Morsels(issued)
  <2>1. ~raised => ValidName(a.name)
    BY DEF Rejected
  <2> QED
    BY <2>1, MorselIs DEF Asking
<1>5. Related(u.s, t, spoiled')
  <2>1. CASE ~overwrite
    <3>1. u.s = cookies /\ t = intended /\ spoiled' = spoiled
      BY <2>1, <1>2
    <3> QED
      BY <3>1
  <2>2. CASE overwrite
    <3>1. u = Unset(cookies, a.name) /\ spoiled' = Worse(spoiled, Spoils(a.name, raised))
      BY <2>2, <1>2
    <3>2. PICK rs \in BOOLEAN : rs = raised
      OBVIOUS
    <3>3. ~rs => Unset(cookies, a.name).ok
      BY <3>1, <3>2
    <3>4. /\ ~rs => Related(Unset(cookies, a.name).s, Drop(intended, a.name), Worse(spoiled, Spoils(a.name, rs)))
          /\ rs => Related(Unset(cookies, a.name).s, intended, Worse(spoiled, Spoils(a.name, rs)))
      BY <3>3, UnsetRelates
    <3>5. t = IF rs THEN intended ELSE Drop(intended, a.name)
      BY <2>2, <3>2
    <3> HIDE DEF u, raised, t
    <3> QED
      BY <3>1, <3>2, <3>4, <3>5
  <2> QED
    BY <2>1, <2>2
<1>6. /\ cookies' = (IF raised THEN u.s ELSE Append(u.s, Morsel(a)))
      /\ intended' = (IF raised THEN t ELSE Append(t, Morsel(a)))
  BY <1>2
<1> HIDE DEF u, raised, t
<1>7. CASE raised
  BY <1>5, <1>6, <1>7
<1>8. CASE ~raised
  <2>1. Related(Append(u.s, Morsel(a)), Append(t, Morsel(a)), spoiled')
    BY <1>3, <1>4, <1>5, <1>8, AppendRelated
  <2> QED
    BY <2>1, <1>6, <1>8
<1> QED
  BY <1>7, <1>8

LEMMA ResponseRelates ==
  ASSUME CookiesTyped, Related(cookies, intended, spoiled),
         \/ \E n \in CookieNames : UnsetCookie(n)
         \/ \E a \in Wanted, overwrite \in BOOLEAN : SetCookie(a, overwrite)
         \/ \E n \in CookieNames, p \in {"/", "/p"} : DeleteCookie(n, p)
         \/ \E p \in Profiles, w \in Whats : StoreProfile(p, w)
  PROVE  Related(cookies', intended', spoiled')
<1>1. cookies \in Seq(Morsels(issued)) /\ intended \in Seq(Morsels(issued))
  BY DEF CookiesTyped
<1>2. ASSUME NEW n \in CookieNames, UnsetCookie(n) PROVE Related(cookies', intended', spoiled')
  <2>1. /\ cookies' = Unset(cookies, n).s /\ intended' = Drop(intended, n)
        /\ spoiled' = Worse(spoiled, Spoils(n, ~Unset(cookies, n).ok)) /\ Times(Loaded(cookies), n) > 0
    BY <1>2 DEF UnsetCookie
  <2>2. PICK rs \in BOOLEAN : rs = ~Unset(cookies, n).ok
    OBVIOUS
  <2>3. ~rs => Related(Unset(cookies, n).s, Drop(intended, n), Worse(spoiled, Spoils(n, rs)))
    BY <2>2, UnsetRelates
  <2>4. rs => spoiled' = "yes"
    <3>1. Times(Loaded(cookies), n) # 0
      BY <2>1
    <3>2. rs => Spoils(n, rs) = "yes"
      BY <3>1 DEF Spoils
    <3>3. spoiled' = Worse(spoiled, Spoils(n, rs))
      BY <2>1, <2>2
    <3> QED
      BY <3>2, <3>3 DEF Worse
  <2>5. CASE rs
    BY <2>4, <2>5 DEF Related
  <2>6. CASE ~rs
    BY <2>1, <2>2, <2>3, <2>6
  <2> QED
    BY <2>5, <2>6
<1>3. ASSUME NEW a \in Wanted, NEW overwrite \in BOOLEAN, SetCookie(a, overwrite)
      PROVE  Related(cookies', intended', spoiled')
  BY <1>3, AskingIs, SettingRelates
<1>4. ASSUME NEW n \in CookieNames, NEW p \in {"/", "/p"}, DeleteCookie(n, p)
      PROVE  Related(cookies', intended', spoiled')
  BY <1>4, AskingIs, SettingRelates DEF DeleteCookie
<1>5. ASSUME NEW p \in Profiles, NEW w \in Whats, StoreProfile(p, w)
      PROVE  Related(cookies', intended', spoiled')
  <2>1. /\ cookies' = cookies \o ProfileCookies(p, w) /\ intended' = intended \o ProfileCookies(p, w)
        /\ issued' = (IF w = "nothing" THEN issued ELSE issued \cup {<<p.mark, w>>})
        /\ spoiled' = spoiled
    BY <1>5 DEF StoreProfile
  <2>2. issued \subseteq issued' /\ (w # "nothing" => <<p.mark, w>> \in issued')
    BY <2>1
  <2>3. PICK new \in Seq(Morsels(issued')) : new = ProfileCookies(p, w)
    BY <2>2, ProfileCookiesIs
  <2>4. cookies \in Seq(Morsels(issued')) /\ intended \in Seq(Morsels(issued'))
    <3>1. Morsels(issued) \subseteq Morsels(issued')
      BY <2>2, MoreIssued
    <3> QED
      BY <1>1, <3>1
  <2>5. RelatedApart(cookies, intended, new, spoiled)
    BY ONLY <2>4, new \in Seq(Morsels(issued')), Related(cookies, intended, spoiled), ConcatRelated
  <2> QED
    BY <2>1, <2>3, <2>5 DEF RelatedApart
<1> QED
  BY <1>2, <1>3, <1>4, <1>5

LEMMA Answers ==
  ASSUME CookiesInv, NEW merge \in BOOLEAN, Answer(merge)
  PROVE  CookiesInv'
<1> DEFINE with == IF merge THEN Merged(page, cookies) ELSE [page |-> page, sent |-> cookies]
<1>1. /\ cookies \in Seq(Morsels(issued)) /\ intended \in Seq(Morsels(issued))
      /\ page \in [kind : {"response", "app"}, cookies : Seq(Morsels(issued))]
      /\ jar \in SUBSET Morsels(issued) /\ IsFiniteSet(jar) /\ at \in {"/", "/p"}
  BY DEF CookiesInv, CookiesTyped
<1>2. /\ phase = "busy" /\ page' = with.page /\ sent' = with.sent /\ jar' = Stored(jar, sent')
      /\ told' = (IF spoiled = "yes" \/ (merge /\ page.kind = "response")
                  THEN {Entry(m) : m \in jar'} ELSE Told(told, intended))
      /\ phase' = "idle" /\ header' = <<>> /\ cache' = <<>> /\ intended' = <<>> /\ spoiled' = "no"
      /\ cookies' = cookies /\ issued' = issued /\ at' = at
  BY DEF Answer, Busy
<1>3. PICK pc \in Seq(Morsels(issued)) : pc = page.cookies \o cookies
  BY <1>1, ConcatProperties
<1>4. ~merge => with.page = page /\ with.sent = cookies
  OBVIOUS
<1>5. merge => /\ with.sent = pc
               /\ with.page = IF page.kind = "response" THEN [page EXCEPT !.cookies = pc] ELSE page
  BY <1>3 DEF Merged
<1>6. page.kind = "app" => with.sent = cookies
  <2>1. page.kind = "app" => page.cookies = <<>>
    BY DEF CookiesInv, AppBare
  <2>2. <<>> \o cookies = cookies
    BY <1>1
  <2> QED
    BY <2>1, <2>2, <1>3, <1>4, <1>5
<1> HIDE DEF with
<1>7. sent' \in Seq(Morsels(issued))
  BY <1>1, <1>2, <1>3, <1>4, <1>5
<1>8. page' \in [kind : {"response", "app"}, cookies : Seq(Morsels(issued))] /\ page'.kind = page.kind
  <2>1. page' = page \/ page' = [page EXCEPT !.cookies = pc]
    BY <1>2, <1>4, <1>5
  <2> QED
    BY <1>1, <1>3, <2>1
<1>9. jar' \in SUBSET Morsels(issued) /\ IsFiniteSet(jar')
  BY <1>1, <1>2, <1>7, StoredIs
<1>10. CookiesTyped'
  <2>1. <<>> \in Seq(Morsels(issued)) /\ <<>> \in Seq(PairsOver(issued))
    OBVIOUS
  <2> QED
    BY <2>1, <1>1, <1>2, <1>7, <1>8, <1>9 DEF CookiesTyped
<1>11. AppBare'
  <2>1. page.kind = "app" => page' = page
    BY <1>2, <1>4, <1>5
  <2> QED
    BY <2>1, <1>8 DEF CookiesInv, AppBare
<1>12. ParsedOf' /\ AsIntended'
  BY <1>2 DEF ParsedOf, AsIntended
<1>13. NothingLeft'
  BY <1>2, <1>6, <1>8 DEF NothingLeft
<1>14. AsTold'
  <2>1. CASE spoiled = "yes" \/ (merge /\ page.kind = "response")
    BY <2>1, <1>2 DEF AsTold
  <2>2. CASE ~(spoiled = "yes" \/ (merge /\ page.kind = "response"))
    <3>1. sent' = cookies
      BY <2>2, <1>1, <1>2, <1>4, <1>6
    <3>2. Related(cookies, intended, spoiled) /\ spoiled \in {"no", "flags"}
      BY <2>2, <1>2 DEF CookiesInv, AsIntended, CookiesTyped
    <3>3. SameButFlags(cookies, intended)
      BY <3>2, SameIsMore DEF Related
    <3>4. Told({Entry(m) : m \in jar}, intended) = {Entry(m) : m \in Stored(jar, cookies)}
      BY <1>1, <3>3, ToldIs DEF SameButFlags
    <3>5. told = {Entry(m) : m \in jar}
      BY DEF CookiesInv, AsTold
    <3>6. told' = Told(told, intended) /\ jar' = Stored(jar, cookies)
      BY <2>2, <3>1, <1>2
    <3> QED
      BY <3>4, <3>5, <3>6 DEF AsTold
  <2> QED
    BY <2>1, <2>2
<1> QED
  BY <1>10, <1>11, <1>12, <1>13, <1>14 DEF CookiesInv

LEMMA CookiesKept == ASSUME CookiesInv, [CookiesNext]_cookiesVars PROVE CookiesInv'
<1>1. CookiesTyped
  BY DEF CookiesInv
<1>2. ASSUME NEW p \in {"/", "/p"}, Arrive(p) PROVE CookiesInv'
  <2>1. /\ header' \in Seq(PairsOver(issued)) /\ at' = p /\ phase' = "busy"
        /\ cache' = <<>> /\ cookies' = <<>> /\ intended' = <<>> /\ spoiled' = "no" /\ sent' = <<>>
        /\ UNCHANGED <<jar, told, page, issued>>
    BY <1>1, <1>2, Arrives
  <2>2. <<>> \in Seq(Morsels(issued))
    OBVIOUS
  <2>3. CookiesTyped'
    BY <1>1, <2>1, <2>2 DEF CookiesTyped
  <2>4. AppBare' /\ AsTold' /\ ParsedOf' /\ NothingLeft'
    BY <2>1 DEF CookiesInv, AppBare, AsTold, ParsedOf, NothingLeft
  <2>5. AsIntended'
    BY <2>1 DEF AsIntended, Related, Same
  <2> QED
    BY <2>3, <2>4, <2>5 DEF CookiesInv
<1>3. ASSUME \/ Look \/ PopItem \/ Clear \/ Reorder
             \/ \E n \in CookieNames : Del(n) \/ Pop(n)
             \/ \E n \in CookieNames, v \in Values : Put(n, v) \/ SetDefault(n, v)
      PROVE  CookiesInv'
  <2>1. RequestSide
    BY <1>1, <1>3, OnRequests
  <2>2. CookiesTyped'
    BY <1>1, <2>1 DEF CookiesTyped, RequestSide
  <2>3. AppBare' /\ AsTold' /\ AsIntended'
    BY <2>1 DEF CookiesInv, AppBare, AsTold, AsIntended, RequestSide
  <2>4. NothingLeft'
    BY <2>1 DEF NothingLeft, RequestSide
  <2>5. ParsedOf'
    <3>1. CASE cache' = cache
      BY <3>1 DEF CookiesInv, ParsedOf
    <3>2. CASE Looked
      <4>1. PICK d : d = Cached /\ d = Parse(header)
        BY CachedIs DEF CookiesInv
      <4>2. cache' = <<[of |-> header, dict |-> d]>>
        BY <3>2, <4>1 DEF Looked
      <4>3. cache'[1].of = header /\ cache'[1].dict = d
        BY <4>2
      <4> QED
        BY <4>1, <4>3 DEF ParsedOf
    <3> QED
      BY <2>1, <3>1, <3>2 DEF RequestSide
  <2> QED
    BY <2>2, <2>3, <2>4, <2>5 DEF CookiesInv
<1>4. ASSUME \/ \E n \in CookieNames : UnsetCookie(n)
             \/ \E a \in Wanted, overwrite \in BOOLEAN : SetCookie(a, overwrite)
             \/ \E n \in CookieNames, p \in {"/", "/p"} : DeleteCookie(n, p)
             \/ \E p \in Profiles, w \in Whats : StoreProfile(p, w)
      PROVE  CookiesInv'
  <2>1. ResponseSide
    BY <1>1, <1>4, OnResponses
  <2>2. Related(cookies, intended, spoiled)
    BY <2>1 DEF CookiesInv, AsIntended, ResponseSide
  <2>3. Related(cookies', intended', spoiled')
    BY <1>1, <1>4, <2>2, ResponseRelates
  <2>4. Morsels(issued) \subseteq Morsels(issued') /\ PairsOver(issued) \subseteq PairsOver(issued')
    BY <2>1, MoreIssued DEF ResponseSide
  <2>5. CookiesTyped'
    <3>1. jar \in SUBSET Morsels(issued') /\ IsFiniteSet(jar) /\ at \in {"/", "/p"}
      BY <1>1, <2>4 DEF CookiesTyped
    <3>2. header \in Seq(PairsOver(issued')) /\ sent \in Seq(Morsels(issued'))
      BY <1>1, <2>4 DEF CookiesTyped
    <3>3. page \in [kind : {"response", "app"}, cookies : Seq(Morsels(issued'))]
      <4>1. Seq(Morsels(issued)) \subseteq Seq(Morsels(issued'))
        BY <2>4
      <4> QED
        BY <1>1, <4>1 DEF CookiesTyped
    <3> QED
      BY <3>1, <3>2, <3>3, <2>1 DEF CookiesTyped, ResponseSide
  <2>6. AppBare' /\ AsTold' /\ ParsedOf' /\ AsIntended'
    BY <2>1, <2>3 DEF CookiesInv, AppBare, AsTold, ParsedOf, AsIntended, ResponseSide
  <2>7. NothingLeft'
    BY <2>1 DEF NothingLeft, ResponseSide
  <2> QED
    BY <2>5, <2>6, <2>7 DEF CookiesInv
<1>5. CASE UNCHANGED cookiesVars
  <2>1. UNCHANGED <<jar, told, header, cache, cookies, intended, spoiled, page, sent, issued, at, phase>>
    BY <1>5 DEF cookiesVars
  <2> QED
    BY <2>1 DEF CookiesInv, CookiesTyped, AppBare, ParsedOf, AsTold, AsIntended, NothingLeft
<1>6. CASE CookiesNext
  <2>1. CASE \E p \in {"/", "/p"} : Arrive(p)
    BY <2>1, <1>2
  <2>2. CASE \/ Look \/ PopItem \/ Clear \/ Reorder
             \/ \E n \in CookieNames : Del(n) \/ Pop(n)
             \/ \E n \in CookieNames, v \in Values : Put(n, v) \/ SetDefault(n, v)
    BY <2>2, <1>3
  <2>3. CASE \/ \E n \in CookieNames : UnsetCookie(n)
             \/ \E a \in Wanted, overwrite \in BOOLEAN : SetCookie(a, overwrite)
             \/ \E n \in CookieNames, p \in {"/", "/p"} : DeleteCookie(n, p)
             \/ \E p \in Profiles, w \in Whats : StoreProfile(p, w)
    BY <2>3, <1>4
  <2>4. CASE \E merge \in BOOLEAN : Answer(merge)
    BY <2>4, Answers
  <2> QED
    BY <1>6, <2>1, <2>2, <2>3, <2>4 DEF CookiesNext
<1> QED
  BY <1>5, <1>6

(* In every state the browser has what it was told, the response what was   *)
(* intended as far as the unsets allow, and the cache what it was parsed of.*)
THEOREM CookiesInvariant == CookiesSpec => []CookiesInv
<1>1. CookiesInit => CookiesInv
  BY CookiesStart
<1>2. CookiesInv /\ [CookiesNext]_cookiesVars => CookiesInv'
  BY CookiesKept
<1> QED
  BY <1>1, <1>2, PTL DEF CookiesSpec

---------------------------------------------------------------------------
(* What follows from it.                                                    *)

LEMMA ReadsHeaderThen == ASSUME CookiesInv PROVE ReadsHeader
<1>1. header \in Seq(PairsOver(issued)) /\ Cached = Parse(header)
  BY CachedIs DEF CookiesInv, CookiesTyped
<1>2. PICK d : d = Parse(header) /\ d = Cached
  BY <1>1
<1>3. ASSUME NEW n
      PROVE  /\ n \in DOMAIN d <=> n \in CookieNames \ Attributes /\ Of(header, n) # <<>>
             /\ n \in DOMAIN d => d[n] = Last(Of(header, n)).value
  BY <1>1, <1>2, ParseIs
<1>4. ASSUME NEW n PROVE Of(header, n) # <<>> <=> \E i \in DOMAIN header : header[i].name = n
  <2>1. Of(header, n) = <<>> <=> Times(header, n) = 0
    BY <1>1, OfHas
  <2>2. Times(header, n) = 0 <=> \A i \in 1..Len(header) : header[i].name # n
    BY <1>1, TimesIs
  <2>3. DOMAIN header = 1..Len(header)
    BY <1>1
  <2> QED
    BY <2>1, <2>2, <2>3
<1>5. DOMAIN d = {n \in CookieNames \ Attributes : \E i \in DOMAIN header : header[i].name = n}
  <2>1. \A n : n \in DOMAIN d <=> n \in CookieNames \ Attributes /\ \E i \in DOMAIN header : header[i].name = n
    BY <1>3, <1>4
  <2> QED
    BY <2>1
<1>6. ASSUME NEW p \in Profiles, p.mark # "encoded", NEW w \in ProfileValue(p)
      PROVE  <<p.mark, w>> \in issued
  <2>1. p.name \in DOMAIN d /\ w \in Loads(p, d[p.name])
    BY <1>2, <1>6 DEF ProfileValue
  <2>2. d[p.name].by = p.mark /\ w = d[p.name].what
    BY <2>1 DEF Loads
  <2>3. p.mark \in Signing
    BY <1>6 DEF Signing
  <2>4. PICK o \in Seq(PairsOver(issued)) : o = Of(header, p.name) /\ o # <<>>
    BY <2>1, <1>1, <1>3, OfHas
  <2>5. PICK x \in PairsOver(issued) : x = Last(o)
    <3>1. Len(o) \in 1..Len(o)
      BY <2>4
    <3>2. o[Len(o)] \in PairsOver(issued)
      BY <3>1, ElementOfSeq
    <3> QED
      BY <3>2 DEF Last
  <2>6. d[p.name] = x.value
    BY <2>1, <2>4, <2>5, <1>3
  <2>7. x.value \in Saying(issued)
    BY DEF PairsOver
  <2> QED
    BY <2>2, <2>3, <2>6, <2>7 DEF Saying
<1> QED
  BY <1>2, <1>3, <1>5, <1>6 DEF ReadsHeader, OnlyIssued

LEMMA OthersSurviveThen == ASSUME CookiesInv PROVE OthersSurvive
BY DEF CookiesInv, AsIntended, Related, Same, SameButFlags, OthersSurvive

(* No value that is sent is read as a cookie n too.                         *)
LEMMA RememberedThen == ASSUME CookiesInv PROVE Remembered
<1> SUFFICES ASSUME phase = "busy", NEW s \in Presented(at), header = PairsOf(s), NEW n \in CookieNames,
                    NEW known, known = {e \in told : e[1][2] \in {"/", at}},
                    NEW here, here = {e \in known : e[1][1] = n},
                    \A e \in known : ~Carries(e[2], n)
             PROVE  /\ here = {} => n \notin DOMAIN Cached
                    /\ \A e \in here : here = {e} /\ ~Stops(e[2]) =>
                         n \in DOMAIN Cached /\ Cached[n] = e[2]
  BY DEF Remembered
<1>1. /\ jar \in SUBSET Morsels(issued) /\ IsFiniteSet(jar) /\ told = {Entry(m) : m \in jar}
      /\ header \in Seq(PairsOver(issued)) /\ Cached = Parse(header)
  BY CachedIs DEF CookiesInv, CookiesTyped, AsTold
<1>2. /\ s \in Seq(jar)
      /\ \A i \in 1..Len(s) : s[i].path = "/" \/ s[i].path = at
      /\ \A m \in jar : m.path = "/" \/ m.path = at => \E i \in 1..Len(s) : s[i] = m
  BY <1>1, PresentedIs
<1>3. s \in Seq(Morsels(issued))
  BY <1>1, <1>2
<1>4. \A m : Entry(m)[1][1] = m.name /\ Entry(m)[1][2] = m.path /\ Entry(m)[2] = m.text.value
  BY DEF Entry, Place
<1>5. ASSUME NEW i \in 1..Len(s)
      PROVE  /\ ~Carries(s[i].text.value, n)
             /\ s[i].name = n => Entry(s[i]) \in here
  <2>1. s[i] \in jar
    BY <1>2, ElementOfSeq
  <2>2. Entry(s[i]) \in known
    BY <2>1, <1>1, <1>2, <1>4
  <2> QED
    BY <2>2, <1>4
<1>6. ASSUME NEW k \in 1..Len(header), header[k].name = n
      PROVE  \E i \in 1..Len(s) : s[i].name = n /\ header[k] = Read(s[i])
  <2>1. PICK i \in 1..Len(s) : header[k] = Read(s[i]) \/ Carries(s[i].text.value, header[k].name)
    BY <1>3, PairsOfIs
  <2>2. header[k] = Read(s[i])
    BY <2>1, <1>5, <1>6
  <2>3. Read(s[i]).name = s[i].name
    BY DEF Read
  <2> QED
    BY <2>2, <2>3, <1>6
<1>7. /\ n \in DOMAIN Cached <=> n \in CookieNames \ Attributes /\ Of(header, n) # <<>>
      /\ n \in DOMAIN Cached => Cached[n] = Last(Of(header, n)).value
  BY <1>1, ParseIs
<1>8. Of(header, n) # <<>> <=> \E i \in 1..Len(header) : header[i].name = n
  <2>1. Of(header, n) = <<>> <=> Times(header, n) = 0
    BY <1>1, OfHas
  <2>2. Times(header, n) = 0 <=> \A i \in 1..Len(header) : header[i].name # n
    BY <1>1, TimesIs
  <2> QED
    BY <2>1, <2>2
<1>9. ASSUME here = {}, n \in DOMAIN Cached PROVE FALSE
  <2>1. PICK k \in 1..Len(header) : header[k].name = n
    BY <1>7, <1>8, <1>9
  <2> QED
    BY <2>1, <1>5, <1>6, <1>9
<1>10. ASSUME NEW e \in here, here = {e}, ~Stops(e[2])
       PROVE  n \in DOMAIN Cached /\ Cached[n] = e[2]
  <2>1. PICK m \in jar : e = Entry(m)
    BY <1>1
  <2>2. m.name = n /\ (m.path = "/" \/ m.path = at)
    BY <2>1, <1>4
  <2>3. PICK i \in 1..Len(s) : s[i] = m
    BY <2>2, <1>2
  <2>4. PICK k \in 1..Len(header) : header[k].name = n
    <3>1. PICK k \in 1..Len(header) : header[k] = Read(s[i])
      BY <1>3, PairsOfIs
    <3>2. Read(s[i]).name = s[i].name
      BY DEF Read
    <3> QED
      BY <3>1, <3>2, <2>2, <2>3
  <2>5. m \in Morsels(issued)
    BY <1>1
  <2>6. n \in DOMAIN Cached
    BY <2>2, <2>4, <2>5, <1>7, <1>8, TextIs
  <2>7. PICK o \in Seq(PairsOver(issued)) : o = Of(header, n)
    BY <1>1, OfHas
  <2>8. PICK j \in 1..Len(o) : Last(o) = o[j]
    <3>1. Len(o) \in 1..Len(o)
      BY <2>6, <2>7, <1>7
    <3> QED
      BY <3>1 DEF Last
  <2>9. PICK q \in 1..Len(header) : o[j] = header[q] /\ header[q].name = n
    <3>1. Of(header, n)[j].name = n /\ \E q \in 1..Len(header) : Of(header, n)[j] = header[q]
      BY <1>1, <2>7, OfHas
    <3> QED
      BY <3>1, <2>7
  <2>10. PICK l \in 1..Len(s) : s[l].name = n /\ header[q] = Read(s[l])
    BY <2>9, <1>6
  <2>11. Entry(s[l]) = e /\ s[l] \in Morsels(issued)
    BY <2>10, <1>3, <1>5, <1>10, ElementOfSeq
  <2>12. PICK v \in Saying(issued) : v = e[2] /\ s[l].text = Quote(v)
    <3>1. s[l].text.value \in Saying(issued) /\ s[l].text = Quote(s[l].text.value)
      BY <2>11, TextIs
    <3> QED
      BY <3>1, <2>11, <1>4
  <2>13. Unquote(Quote(v)) = v
    BY <2>12, <1>10, QuoteIs
  <2>14. Read(s[l]).value = v
    BY <2>12, <2>13 DEF Read
  <2>15. Cached[n] = o[j].value
    BY <2>6, <2>7, <2>8, <1>7
  <2> QED
    BY <2>6, <2>9, <2>10, <2>12, <2>14, <2>15
<1> QED
  BY <1>9, <1>10

(* What setting n to v, or deleting it, does to what is read.               *)
LEMMA EditsOneThen ==
  ASSUME CookiesInv, NEW n \in CookieNames,
         NEW v, header' = Mutated(header, n, v), v = NoValue \/ v \in Values, ValidName(n)
  PROVE  /\ \A m \in CookieNames \ {n} : Carries(v, m) \/ SameRead(m)
         /\ Times(header, n) > 1 => SameRead(n)
         /\ Times(header, n) <= 1 =>
              /\ v # NoValue /\ ~Stops(v) => n \in DOMAIN Parse(header') /\ Parse(header')[n] = v
              /\ v = NoValue => n \notin DOMAIN Parse(header')
<1>1. PICK X : X = PairsOver(issued)
  OBVIOUS
<1>2. header \in Seq(X)
  BY <1>1 DEF CookiesInv, CookiesTyped
<1>3. PICK w \in Seq(X) :
        /\ w = Written(n, v)
        /\ v = NoValue => w = <<>>
        /\ v # NoValue /\ ~Stops(v) => w = <<[name |-> n, value |-> v]>>
        /\ \A m : m # n /\ ~Carries(v, m) => Of(w, m) = <<>>
  BY <1>1, WrittenIs
<1>4. PICK h \in Seq(X) : h = header' /\ h = Mutated(header, n, v)
  BY <1>2, <1>3, MutatedOthers
<1>5. \A m : m # n /\ ~Carries(v, m) => Of(h, m) = Of(header, m)
  BY <1>2, <1>3, <1>4, MutatedOthers
<1>6. \A m : /\ m \in DOMAIN Parse(h) <=> m \in CookieNames \ Attributes /\ Of(h, m) # <<>>
             /\ m \in DOMAIN Parse(h) => Parse(h)[m] = Last(Of(h, m)).value
  BY ParseIs
<1>7. \A m : /\ m \in DOMAIN Parse(header) <=> m \in CookieNames \ Attributes /\ Of(header, m) # <<>>
             /\ m \in DOMAIN Parse(header) => Parse(header)[m] = Last(Of(header, m)).value
  BY <1>2, ParseIs
<1>8. ASSUME NEW m \in CookieNames \ {n}, ~Carries(v, m) PROVE SameRead(m)
  BY <1>4, <1>5, <1>6, <1>7, <1>8 DEF SameRead
<1>9. n \in CookieNames \ Attributes
  BY DEF ValidName
<1>10. /\ Times(header, n) <= 1 => Of(h, n) = Of(w, n)
       /\ Times(header, n) > 1 => Of(h, n) # <<>> /\ Last(Of(h, n)) = Last(Of(header, n))
  BY <1>2, <1>3, <1>4, MutatedItself
<1>11. ASSUME Times(header, n) <= 1, v # NoValue, ~Stops(v)
       PROVE  n \in DOMAIN Parse(h) /\ Parse(h)[n] = v
  <2>1. PICK p : p = [name |-> n, value |-> v] /\ p.name = n /\ p.value = v
    <3>1. PICK p : p = [name |-> n, value |-> v]
      OBVIOUS
    <3>2. p.name = n /\ p.value = v
      BY <3>1
    <3> QED
      BY <3>1, <3>2
  <2>2. Of(h, n) = <<p>>
    <3>1. w = <<p>>
      BY <2>1, <1>3, <1>11
    <3>2. Of(w, n) = <<p>>
      BY <3>1, <2>1, OfOne
    <3> QED
      BY <3>2, <1>10, <1>11
  <2>3. <<p>> # <<>> /\ Last(<<p>>) = p
    BY DEF Last
  <2> QED
    BY <2>1, <2>2, <2>3, <1>6, <1>9
<1>12. ASSUME Times(header, n) <= 1, v = NoValue PROVE n \notin DOMAIN Parse(h)
  <2>1. Of(w, n) = <<>>
    <3>1. Times(w, n) = 0
      <4>1. w = <<>>
        BY <1>3, <1>12
      <4>2. \A i \in 1..Len(w) : w[i].name # n
        BY <4>1
      <4> QED
        BY ONLY <4>2, w \in Seq(X), TimesIs
    <3> QED
      BY <3>1, OfHas
  <2> QED
    BY <2>1, <1>6, <1>10, <1>12
<1>13. ASSUME Times(header, n) > 1 PROVE SameRead(n)
  <2>1. Times(header, n) # 0
    BY <1>13
  <2>2. Of(header, n) # <<>>
    BY <1>2, <2>1, OfHas
  <2>3. Of(h, n) # <<>> /\ Last(Of(h, n)) = Last(Of(header, n))
    BY <1>10, <1>13
  <2> QED
    BY <2>2, <2>3, <1>4, <1>6, <1>7, <1>9 DEF SameRead
<1> QED
  BY <1>4, <1>8, <1>11, <1>12, <1>13

(* req.cookies answers from the Cookie header as it is now, and of the      *)
(* signed ones only what was issued.                                        *)
THEOREM CookiesRead == CookiesSpec => []ReadsHeader
<1>1. CookiesInv => ReadsHeader
  BY ReadsHeaderThen
<1> QED
  BY <1>1, CookiesInvariant, PTL

(* Unsetting or overwriting a cookie of a response does not change others.  *)
THEOREM CookiesSurvive == CookiesSpec => []OthersSurvive
<1>1. CookiesInv => OthersSurvive
  BY OthersSurviveThen
<1> QED
  BY <1>1, CookiesInvariant, PTL

(* What was set in one place is what the next request there reads, unless   *)
(* the reader stops in it or finds the name in another value.               *)
THEOREM CookiesRemembered == CookiesSpec => []Remembered
<1>1. CookiesInv => Remembered
  BY RememberedThen
<1> QED
  BY <1>1, CookiesInvariant, PTL

(* Merging into an application leaves no cookie behind.                     *)
THEOREM CookiesLeaveNothing == CookiesSpec => []NothingLeft
<1>1. CookiesInv => NothingLeft
  BY DEF CookiesInv
<1> QED
  BY <1>1, CookiesInvariant, PTL

\* What setting or deleting cookie n of a request does to what is read of it.
PutReads(n, v) ==
  /\ \A m \in CookieNames \ {n} : Carries(v, m) \/ SameRead(m)
  /\ Times(header, n) > 1 => SameRead(n)
  /\ Times(header, n) <= 1 /\ ~Stops(v) => n \in DOMAIN Parse(header') /\ Parse(header')[n] = v
DelReads(n) ==
  /\ \A m \in CookieNames \ {n} : SameRead(m)
  /\ IF Times(header, n) > 1 THEN SameRead(n) ELSE n \notin DOMAIN Parse(header')
Edits ==
  \A n \in CookieNames :
    /\ \A v \in Values : Put(n, v) => PutReads(n, v)
    /\ Del(n) => DelReads(n)

(* Setting or deleting one cookie of a request leaves what every other name *)
(* reads as it was, but for the names that are read in the value that is    *)
(* set; and the name itself reads what was put, or is gone.                 *)
THEOREM CookiesEditOne == CookiesSpec => EditsOne
<1>1. CookiesInv /\ [CookiesNext]_cookiesVars => [Edits]_cookiesVars
  <2> SUFFICES ASSUME CookiesInv, NEW n \in CookieNames
               PROVE  /\ \A v \in Values : Put(n, v) => PutReads(n, v)
                      /\ Del(n) => DelReads(n)
    BY DEF Edits
  <2>1. ASSUME NEW v \in Values, Put(n, v) PROVE PutReads(n, v)
    <3>1. v # NoValue
      BY WrittenIs
    <3>2. header' = Mutated(header, n, v) /\ ValidName(n)
      BY <2>1 DEF Put
    <3> QED
      BY <3>1, <3>2, EditsOneThen DEF PutReads
  <2>2. ASSUME Del(n) PROVE DelReads(n)
    <3>1. header' = Mutated(header, n, NoValue) /\ ValidName(n)
      BY <2>2 DEF Del
    <3>2. \A m : ~Carries(NoValue, m)
      BY WrittenIs
    <3>3. Times(header, n) > 1 \/ Times(header, n) <= 1
      <4>1. header \in Seq(PairsOver(issued))
        BY DEF CookiesInv, CookiesTyped
      <4>2. Times(header, n) \in Nat
        BY <4>1, TimesIs
      <4> QED
        BY <4>2
    <3>4. /\ \A m \in CookieNames \ {n} : SameRead(m)
          /\ Times(header, n) > 1 => SameRead(n)
          /\ Times(header, n) <= 1 => n \notin DOMAIN Parse(header')
      BY <3>1, <3>2, EditsOneThen
    <3> QED
      BY <3>3, <3>4 DEF DelReads
  <2> QED
    BY <2>1, <2>2
<1>2. CookiesSpec => [][CookiesNext]_cookiesVars
  BY PTL DEF CookiesSpec
<1>3. CookiesSpec => [][Edits]_cookiesVars
  BY <1>1, <1>2, CookiesInvariant, PTL
<1> QED
  BY <1>3 DEF EditsOne, Edits, PutReads, DelReads
=============================================================================
