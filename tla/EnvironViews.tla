--------------------------- MODULE EnvironViews ---------------------------
(***************************************************************************)
(* Two views that a request keeps of keys of its environ, and that write    *)
(* back: req.GET, a GetDict over QUERY_STRING (src/webob/request.py         *)
(* 822-849, src/webob/multidict.py 290-347), and req.cache_control, a       *)
(* CacheControl over HTTP_CACHE_CONTROL (request.py 1097-1140,              *)
(* src/webob/cachecontrol.py).  Each is cached in the environ beside the    *)
(* string it was parsed from, and each outlives the access: an application  *)
(* may hold one, and change it after the key was changed.                  *)
(*                                                                         *)
(* A string is abstracted to what it parses to and whether it is spelled    *)
(* as the serializer would spell it.  An application acts on a request by   *)
(* way of its environ; copies of a request are environs of their own.      *)
(***************************************************************************)
EXTENDS Naturals, Sequences

CONSTANTS
  Reqs,      \* environments
  First,     \* the one the server built
  Contents,  \* what a query string, or a Cache-Control header, can hold
  Nothing,   \* the content of the empty string, one of Contents
  MaxViews   \* bound on the view objects created

ASSUME ViewsAssumption ==
  /\ First \in Reqs
  /\ Nothing \in Contents
  /\ MaxViews \in Nat

VARIABLES
  live,   \* the environments that exist
  env,    \* env[r]: the two keys, and the two caches
  views,  \* the objects, in order of creation
  last    \* the request that the last access went through, and the object

viewsVars == <<live, env, views, last>>

---------------------------------------------------------------------------
(* Data.                                                                   *)

Spellings == [content : Contents, plain : BOOLEAN]
Spell(c)  == [content |-> c, plain |-> TRUE]

\* The empty string has no second spelling.
Texts == Spellings \ {[content |-> Nothing, plain |-> FALSE]}

\* The object (0 for none) and the string that it was cached with.
CacheEntry  == [view : Nat, of : Spellings]
NoCache == [view |-> 0, of |-> Spell(Nothing)]

\* A GetDict, or a CacheControl.  One that an application made itself and
\* assigned is not bound: it has no `updated' callback.
View == [kind : {"query", "cc"}, of : Reqs, bound : BOOLEAN, content : Contents]

Environ == [qs : Spellings, query : CacheEntry, cc : Spellings, cache : CacheEntry]

\* Python's == between the cached string and the present one.
Fresh(c, text) == c.view # 0 /\ c.of = text

Room == Len(views) < MaxViews
New  == Len(views) + 1

---------------------------------------------------------------------------
(* req.GET                                                                 *)

\* The getter of GET: the cached dict if it was parsed from the present
\* string, else a new one bound to this environ.  Returns the environ and the
\* views afterwards, and the dict.
GetQuery(r) ==
  LET e == env[r]
  IN  IF Fresh(e.query, e.qs)
      THEN [e |-> e, views |-> views, view |-> e.query.view]
      ELSE [e |-> [e EXCEPT !.query = [view |-> New, of |-> e.qs]],
            views |-> Append(views, [kind |-> "query", of |-> r, bound |-> TRUE,
                                     content |-> e.qs.content]),
            view |-> New]

\* Slip: the cache keeps the string it was parsed from.
WrongOnChange(es, vs, v, c) ==
  [env   |-> [es EXCEPT ![vs[v].of].qs = Spell(c)],
   views |-> [vs EXCEPT ![v].content = c]]

\* GetDict.on_change after dict v became c: the environ that the dict was
\* made for gets the new string, and the dict itself as its cache.
OnChange(es, vs, v, c) ==
  [env   |-> [es EXCEPT ![vs[v].of].qs = Spell(c),
                        ![vs[v].of].query = [view |-> v, of |-> Spell(c)]],
   views |-> [vs EXCEPT ![v].content = c]]

ReadGET(r) ==
  LET g == GetQuery(r)
  IN  /\ Room
      /\ env' = [env EXCEPT ![r] = g.e]
      /\ views' = g.views
      /\ last' = [req |-> r, view |-> g.view]
      /\ UNCHANGED live

\* req.GET[...] = ..., and the other changing methods of the dict.
ChangeGET(r) ==
  \E c \in Contents :
    LET g == GetQuery(r)
        x == OnChange([env EXCEPT ![r] = g.e], g.views, g.view, c)
    IN  /\ Room
        /\ env' = x.env
        /\ views' = x.views
        /\ last' = [req |-> r, view |-> g.view]
        /\ UNCHANGED live

\* The same through a dict that the application kept.
ChangeHeldGET(v) ==
  \E c \in Contents :
    LET x == OnChange(env, views, v, c)
    IN  /\ views[v].kind = "query"
        /\ env' = x.env
        /\ views' = x.views
        /\ last' = [req |-> views[v].of, view |-> v]
        /\ UNCHANGED live

\* req.query_string = ...
SetQueryString(r) ==
  \E s \in Texts :
    /\ env' = [env EXCEPT ![r].qs = s]
    /\ last' = [req |-> r, view |-> 0]
    /\ UNCHANGED <<live, views>>

---------------------------------------------------------------------------
(* req.cache_control                                                       *)

\* The getter: the cached object, or a new one.  Its `updated' callback is in
\* place while the header is parsed, so every directive found rewrites the
\* header; the cache remembers the header as it was.
GetCacheControl(r) ==
  LET e == env[r]
  IN  IF Fresh(e.cache, e.cc)
      THEN [e |-> e, views |-> views, view |-> e.cache.view]
      ELSE [e |-> [e EXCEPT !.cache = [view |-> New, of |-> e.cc],
                            !.cc = IF @.content = Nothing THEN @ ELSE Spell(@.content)],
            views |-> Append(views, [kind |-> "cc", of |-> r, bound |-> TRUE,
                                     content |-> e.cc.content]),
            view |-> New]

\* A property of CacheControl v is set, so that its directives become c: the
\* header follows if the object is bound; the cache does not.
Update(es, vs, v, c) ==
  [env   |-> IF vs[v].bound THEN [es EXCEPT ![vs[v].of].cc = Spell(c)] ELSE es,
   views |-> [vs EXCEPT ![v].content = c]]

ReadCacheControl(r) ==
  LET g == GetCacheControl(r)
  IN  /\ Room
      /\ env' = [env EXCEPT ![r] = g.e]
      /\ views' = g.views
      /\ last' = [req |-> r, view |-> g.view]
      /\ UNCHANGED live

\* req.cache_control.max_age = ...
ChangeCacheControl(r) ==
  \E c \in Contents :
    LET g == GetCacheControl(r)
        x == Update([env EXCEPT ![r] = g.e], g.views, g.view, c)
    IN  /\ Room
        /\ env' = x.env
        /\ views' = x.views
        /\ last' = [req |-> r, view |-> g.view]
        /\ UNCHANGED live

ChangeHeldCacheControl(v) ==
  \E c \in Contents :
    LET x == Update(env, views, v, c)
    IN  /\ views[v].kind = "cc"
        /\ env' = x.env
        /\ views' = x.views
        /\ last' = [req |-> views[v].of, view |-> v]
        /\ UNCHANGED live

\* req.cache_control = a dict or a CacheControl: kept as it is, unbound.
AssignCacheControl(r) ==
  \E c \in Contents :
    /\ Room
    /\ views' = Append(views, [kind |-> "cc", of |-> r, bound |-> FALSE, content |-> c])
    /\ env' = [env EXCEPT ![r].cc = Spell(c), ![r].cache = [view |-> New, of |-> Spell(c)]]
    /\ last' = [req |-> r, view |-> New]
    /\ UNCHANGED live

\* req.cache_control = a string or None, and del req.cache_control.
AssignCacheControlText(r) ==
  \E s \in Texts :
    /\ env' = [env EXCEPT ![r].cc = s, ![r].cache = NoCache]
    /\ last' = [req |-> r, view |-> 0]
    /\ UNCHANGED <<live, views>>

\* req.headers["Cache-Control"] = ..., or the environ key itself.
SetCacheControlHeader(r) ==
  \E s \in Texts :
    /\ env' = [env EXCEPT ![r].cc = s]
    /\ last' = [req |-> r, view |-> 0]
    /\ UNCHANGED <<live, views>>

---------------------------------------------------------------------------
(* Copies.                                                                 *)

\* req.copy(), req.copy_get(): environ.copy() is shallow, so the copy starts
\* with the original's caches, and the objects in them.
Copy(r, q) ==
  /\ q \notin live
  /\ live' = live \cup {q}
  /\ env' = [env EXCEPT ![q] = env[r]]
  /\ last' = [req |-> r, view |-> 0]
  /\ UNCHANGED views

ViewsInit ==
  /\ live = {First}
  /\ \E q, c \in Texts :
       env = [r \in Reqs |-> [qs |-> q, query |-> NoCache, cc |-> c, cache |-> NoCache]]
  /\ views = <<>>
  /\ last = [req |-> First, view |-> 0]

ViewsNext ==
  \/ \E r \in live :
       \/ ReadGET(r)
       \/ ChangeGET(r)
       \/ SetQueryString(r)
       \/ ReadCacheControl(r)
       \/ ChangeCacheControl(r)
       \/ AssignCacheControl(r)
       \/ AssignCacheControlText(r)
       \/ SetCacheControlHeader(r)
       \/ \E q \in Reqs : Copy(r, q)
  \/ \E v \in 1..Len(views) : ChangeHeldGET(v) \/ ChangeHeldCacheControl(v)

ViewsSpec == ViewsInit /\ [][ViewsNext]_viewsVars

---------------------------------------------------------------------------
(* Properties.                                                             *)

\* What a request has cached is an object that exists, of the right kind.
CacheKinds ==
  \A r \in Reqs :
    /\ env[r].query.view # 0 => /\ env[r].query.view \in 1..Len(views)
                               /\ views[env[r].query.view].kind = "query"
    /\ env[r].cache.view # 0 => /\ env[r].cache.view \in 1..Len(views)
                               /\ views[env[r].cache.view].kind = "cc"

\* Every part of the state is of its type, the objects in the caches too:
\* the two views share one environ, and a copy brings both of its caches.
TypeOK ==
  /\ live \in SUBSET Reqs
  /\ env \in [Reqs -> Environ]
  /\ views \in Seq(View)
  /\ last \in [req : Reqs, view : Nat]
  /\ CacheKinds

\* As long as the dict that a request has cached is its own, req.GET shows
\* what QUERY_STRING says, however many older dicts the application still
\* changes and however the string is set behind their backs (multidict.py
\* 298-305 rewrites the cache for this).
OwnQueryCoherent ==
  \A r \in Reqs :
    LET c == env[r].query
    IN  (Fresh(c, env[r].qs) /\ views[c.view].of = r) => views[c.view].content = env[r].qs.content

============================================================================
