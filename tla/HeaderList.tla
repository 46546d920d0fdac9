----------------------------- MODULE HeaderList -----------------------------
(***************************************************************************)
(* The headers of a response: one list of pairs (res.headerlist), which     *)
(* res.headers (src/webob/headers.py), the header attributes                *)
(* (src/webob/descriptors.py 115-137), the attributes about Content-Type    *)
(* (src/webob/response.py 817-995) and res.cache_control with its object    *)
(* that writes back (1168-1277, src/webob/cachecontrol.py) all read and     *)
(* change.  The same dictionary methods without the folding of case are     *)
(* those of MultiDict (src/webob/multidict.py).                             *)
(*                                                                         *)
(* A text of Cache-Control is the set of its directives and whether it is   *)
(* spelled as the serializer would spell it; a Content-Type its type, its   *)
(* charset and whether it has another parameter.                            *)
(*                                                                         *)
(* Operators called Wrong... are slips one could make in the code; no       *)
(* specification uses them.                                                 *)
(***************************************************************************)
EXTENDS Naturals, Sequences, FiniteSets, SequencesExt, Selection

CONSTANTS
  MaxItems, \* bound on the length of the list; on Cache-Control lines, 2
  Parts     \* the methods used: "multidict", "headers", "cache", "type"

ASSUME HeaderAssumption ==
  MaxItems \in Nat \ {0} /\ Parts \subseteq {"multidict", "headers", "cache", "type"}

VARIABLES
  part,   \* the part of the methods that this behaviour uses
  items,  \* self._headerlist (of a MultiDict: self._items)
  view,   \* self._headers: "none", "current" or of an "old" list
  held,   \* a res.headers that the application kept: as view
  cc,     \* self._cache_control_obj: <<>>, or <<[props, text]>>
  byhand, \* the last to write Cache-Control was not the object of cache_control
  op, ret \* the last call and what it returned, see Multimap

vars == <<part, items, view, held, cc, byhand, op, ret>>

---------------------------------------------------------------------------
(* Keys: "x" and "X" are spellings of one name.                             *)

Keys  == {"x", "X", "y", "cache-control", "content-type", "expires", "last-modified", "pragma"}
Lower == [k \in Keys |-> IF k = "X" THEN "x" ELSE k]
Same  == [k \in Keys |-> k]
norm  == IF part = "multidict" THEN Same ELSE Lower

Pair(k, v) == [k |-> k, v |-> v]
ValuesOf(s) == [i \in 1..Len(s) |-> s[i].v]

(* MultiDict and ResponseHeaders, over the list s and the names of f.       *)

Having(s, k, f)  == {i \in 1..Len(s) : f[s[i].k] = f[k]}
Of(s, k, f)      == Chosen(s, Having(s, k, f))
\* A filter, as where a header is set; deletion by index comes to the same.
Without(s, k, f) == Chosen(s, (1..Len(s)) \ Having(s, k, f))
First(s, k, f)   == CHOOSE i \in Having(s, k, f) : \A j \in Having(s, k, f) : i <= j

HasKey(s, k, f) == Having(s, k, f) # {}
\* __getitem__: from the end.
Get(s, k, f)    == Last(Of(s, k, f)).v
GetAll(s, k, f) == ValuesOf(Of(s, k, f))
\* Slip: the first of several values is as good as one.
WrongGetOne(s, k, f) == IF HasKey(s, k, f) THEN <<Get(s, k, f)>> ELSE <<>>
GetOne(s, k, f) == IF Len(GetAll(s, k, f)) = 1 THEN GetAll(s, k, f) ELSE <<>>
\* mixed: the value of a key, or the list of its values when there are more.
\* r.multi has the lists of those with more.
With(g, k, v) == [j \in DOMAIN g \cup {k} |-> IF j = k THEN v ELSE g[j]]
Put(r, k, v) ==
  IF k \notin DOMAIN r.single THEN [r EXCEPT !.single = With(@, k, v)]
  ELSE [r EXCEPT !.multi = With(@, k, IF k \in DOMAIN @ THEN Append(@[k], v) ELSE <<r.single[k], v>>)]
Mixed(s, f) ==
  LET after[n \in 0..Len(s)] ==
        IF n = 0 THEN [single |-> <<>>, multi |-> <<>>] ELSE Put(after[n - 1], f[s[n].k], s[n].v)
      r == after[Len(s)]
  IN [k \in DOMAIN r.single |-> IF k \in DOMAIN r.multi THEN r.multi[k] ELSE <<r.single[k]>>]

\* NestedMultiDict: the first of the dicts that has the key; all of them.
NestedGet(s, t, k, f)    == IF HasKey(s, k, f) THEN Get(s, k, f) ELSE Get(t, k, f)
NestedGetAll(s, t, k, f) == GetAll(s, k, f) \o GetAll(t, k, f)
NestedItems(s, t)        == s \o t

\* Slip: forwards, over the list that gets shorter.
WrongDeleted(s, k, f) ==
  LET after[n \in 0..Len(s)] ==
        IF n = 0 THEN s
        ELSE IF n <= Len(after[n - 1]) /\ f[after[n - 1][n].k] = f[k] THEN RemoveAt(after[n - 1], n)
        ELSE after[n - 1]
  IN after[Len(s)]
\* __delitem__: by index, backwards.
Deleted(s, k, f) ==
  LET after[n \in 0..Len(s)] ==
        IF n = 0 THEN s
        ELSE LET i == Len(s) + 1 - n
             IN IF f[after[n - 1][i].k] = f[k] THEN RemoveAt(after[n - 1], i) ELSE after[n - 1]
  IN after[Len(s)]

\* Slip: keys are compared as they are spelled.
WrongSetItem(s, k, v, f) == Append(Without(s, k, Same), Pair(k, v))
SetItem(s, k, v, f) == Append(Without(s, k, f), Pair(k, v))
AddItem(s, k, v)    == Append(s, Pair(k, v))
SetDefault(s, k, v, f) == IF HasKey(s, k, f) THEN s ELSE Append(s, Pair(k, v))
\* pop: the first only.
PopFirst(s, k, f) == IF HasKey(s, k, f) THEN RemoveAt(s, First(s, k, f)) ELSE s
Update(s, pairs, f) ==
  LET after[n \in 0..Len(pairs)] == IF n = 0 THEN s ELSE SetItem(after[n - 1], pairs[n].k, pairs[n].v, f)
  IN after[Len(pairs)]
\* extend with a mapping or pairs appends, with keywords it updates.
Extend(s, pairs, keywords, f) == Update(s \o pairs, keywords, f)

(* Header attributes: header_getter reads the first.                        *)

AttrGet(s, k) == s[First(s, k, Lower)].v
AttrSet(s, k, v) == Append(Without(s, k, Lower), Pair(k, v))

---------------------------------------------------------------------------
(* Cache-Control.                                                           *)

CC == "cache-control"
Directives == {"age0", "age1", "private", "no-store"}
Text(props, odd) == [props |-> props, odd |-> odd]
NoText == Text({}, FALSE)
\* The texts that an application writes: empty, unreadable, as the serializer
\* would write them, and otherwise.
Texts == {NoText, Text({}, TRUE), Text({"age1"}, FALSE), Text({"age1"}, TRUE)}

Header(s) == IF HasKey(s, CC, Lower) THEN Get(s, CC, Lower) ELSE NoText
\* max-age has one value.
WithDirective(props, d) == (IF d \in {"age0", "age1"} THEN props \ {"age0", "age1"} ELSE props) \cup {d}

\* _update_cache_control: the callback of the object's dict.
WriteBack(s, props) == IF props = {} THEN Deleted(s, CC, Lower) ELSE SetItem(s, CC, Text(props, FALSE), Lower)

\* Slip: the object is parsed once and not compared with the header again.
WrongReadCC(s, c) ==
  LET text == Header(s)
  IN IF c = <<>>
     THEN [items |-> IF text.props = {} THEN s ELSE WriteBack(s, text.props), cc |-> <<[props |-> text.props, text |-> text]>>]
     ELSE [items |-> s, cc |-> c]
\* The getter.  The first time, each directive that is parsed writes the
\* header; later, another text clears the object and fills it again, which
\* write the header too.
ReadCC(s, c) ==
  LET text == Header(s)
  IN IF c = <<>>
     THEN [items |-> IF text.props = {} THEN s ELSE WriteBack(s, text.props), cc |-> <<[props |-> text.props, text |-> text]>>]
     ELSE IF c[1].text # text
     THEN [items |-> WriteBack(s, text.props), cc |-> <<[props |-> text.props, text |-> text]>>]
     ELSE [items |-> s, cc |-> c]

\* The properties of the object are replaced: clear() and update().
FillCC(s, c, props) ==
  LET r == ReadCC(s, c) IN [items |-> WriteBack(r.items, props), cc |-> <<[r.cc[1] EXCEPT !.props = props]>>]

---------------------------------------------------------------------------
(* Content-Type.                                                            *)

CT == "content-type"
ContentTypes == [type : {"", "text", "image"}, charset : {"none", "default", "other"}, param : BOOLEAN]
Plain(t) == [type |-> t, charset |-> "none", param |-> FALSE]
HasType(s) == HasKey(s, CT, Lower)
TypeHeader(s) == IF HasType(s) THEN Get(s, CT, Lower) ELSE Plain("")
\* headers.pop("Content-Type"): the first.
Popped(s) == s[First(s, CT, Lower)].v

---------------------------------------------------------------------------
Init ==
  /\ part \in Parts
  /\ items = IF part = "type" THEN <<Pair(CT, [type |-> "text", charset |-> "default", param |-> FALSE])>> ELSE <<>>
  /\ view = "none" /\ held = "none" /\ cc = <<>> /\ byhand = FALSE
  /\ op = [name |-> "none", pairs |-> <<>>, attr |-> ""] /\ ret = <<>>

(* Dictionary methods, of res.headers or of one that was kept.              *)

DictKeys == CASE part = "multidict" -> {"x", "X", "y"}
              [] part = "headers"   -> {"x", "X", "y"}
              [] part = "cache"     -> {CC}
              [] OTHER              -> {CT}
DictValues == CASE part = "cache" -> Texts
                [] part = "type"  -> {[type |-> t, charset |-> c, param |-> FALSE] : t \in {"text", "image"}, c \in {"none", "other"}}
                [] OTHER          -> {1, 2}

Room == IF part = "cache" THEN Len(GetAll(items, CC, Lower)) < 2 ELSE Len(items) < MaxItems
Named(k, v) == <<norm[k], v>>
AnyValue == CHOOSE v \in DictValues : TRUE

\* A call: its effect reaches the response if the list is still its own.
Call(name, pairs, new, result) ==
  /\ \E through \in {"response", "kept"} :
       /\ through = "kept" => held # "none"
       /\ LET target == IF through = "kept" THEN held ELSE IF view = "none" THEN "current" ELSE view
          IN IF through = "kept" /\ target = "old"
             THEN op' = [name |-> "stale", pairs |-> <<>>, attr |-> ""] /\ ret' = <<>> /\ UNCHANGED items
             ELSE /\ op' = [name |-> name, pairs |-> pairs, attr |-> ""]
                  /\ ret' = result
                  /\ items' = IF target = "current" THEN new ELSE items
       /\ view' = IF through = "response" /\ view = "none" THEN "current" ELSE view
  /\ UNCHANGED <<part, held, cc>>

Set == \E k \in DictKeys, v \in DictValues :
  /\ part # "cache" => Len(Without(items, k, norm)) < MaxItems
  /\ Call("set", <<Named(k, v)>>, SetItem(items, k, v, norm), <<>>)
  /\ byhand' = TRUE
Add == \E k \in DictKeys, v \in DictValues :
  /\ Room
  /\ Call("add", <<Named(k, v)>>, AddItem(items, k, v), <<>>)
  /\ byhand' = TRUE
Del == \E k \in DictKeys : Call("del", <<Named(k, AnyValue)>>, Deleted(items, k, norm), <<>>) /\ byhand' = TRUE
Default == \E k \in DictKeys, v \in DictValues :
  /\ Room
  /\ Call("setdefault", <<Named(k, v)>>, SetDefault(items, k, v, norm),
          IF HasKey(items, k, norm) THEN <<items[First(items, k, norm)].v>> ELSE <<v>>)
  /\ byhand' = TRUE
Pop == \E k \in DictKeys :
  /\ Call("pop", <<Named(k, AnyValue)>>, PopFirst(items, k, norm),
          IF HasKey(items, k, norm) THEN <<items[First(items, k, norm)].v>> ELSE <<>>)
  /\ byhand' = TRUE
PopItem ==
  /\ Call("popitem", <<>>, IF items = <<>> THEN items ELSE Front(items), IF items = <<>> THEN <<>> ELSE <<Last(items).v>>)
  /\ byhand' = TRUE
Clear == Call("clear", <<>>, <<>>, <<>>) /\ byhand' = TRUE

Many == part \in {"multidict", "headers"} /\ Len(items) + 2 <= MaxItems
Pairs == \E k, l \in DictKeys, v, w \in DictValues :
  LET given == <<Pair(k, v), Pair(l, w)>> names == <<Named(k, v), Named(l, w)>>
  IN /\ Many
     /\ \/ Call("update", names, Update(items, given, norm), <<>>)
        \/ Call("extend", names, Extend(items, given, <<>>, norm), <<>>)
        \/ k # l /\ Call("update", names, Extend(items, <<>>, given, norm), <<>>)
     /\ byhand' = TRUE

\* The application keeps res.headers.
Keep ==
  /\ part \in {"headers", "type"}
  /\ view' = IF view = "none" THEN "current" ELSE view
  /\ held' = view'
  /\ UNCHANGED <<part, items, cc, byhand, op, ret>>

\* res.headerlist = [...], res.headers = ..., del res.headerlist.
AssignList ==
  /\ part # "multidict"
  /\ \/ part # "type" /\ items' = <<>>
     \/ \E k \in DictKeys, v \in DictValues : items' = <<Pair(k, v)>>
  /\ view' = "none"
  /\ held' = IF held = "none" THEN "none" ELSE "old"
  /\ op' = [name |-> "assign", pairs |-> <<>>, attr |-> ""] /\ ret' = <<>> /\ byhand' = TRUE
  /\ UNCHANGED <<part, cc>>

\* A header attribute is set or deleted.
SetAttr == \E k \in {"x", "y"}, v \in {1, 2} :
  /\ part = "headers" /\ Len(items) < MaxItems
  /\ op' = [name |-> "set", pairs |-> <<Named(k, v)>>, attr |-> ""] /\ ret' = <<>>
  /\ items' = AttrSet(items, k, v)
  /\ UNCHANGED <<part, view, held, cc, byhand>>
DelAttr == \E k \in {"x", "y"} :
  /\ part = "headers"
  /\ op' = [name |-> "del", pairs |-> <<Named(k, AnyValue)>>, attr |-> ""] /\ ret' = <<>>
  /\ items' = Without(items, k, Lower)
  /\ UNCHANGED <<part, view, held, cc, byhand>>

(* res.cache_control.                                                       *)

\* An attribute of the response changes the headers with these names only.
Attribute(names, r) ==
  /\ items' = r.items /\ cc' = r.cc
  /\ op' = [name |-> "attribute", pairs |-> names, attr |-> ""] /\ ret' = <<>>
  /\ view' = IF view = "none" THEN "current" ELSE view
  /\ byhand' = (byhand /\ items' = items)
  /\ UNCHANGED <<part, held>>

OnlyCC == <<<<CC, NoText>>>>

Read == part = "cache" /\ Attribute(OnlyCC, ReadCC(items, cc))

\* cache_control.d = True or a value, del cache_control.d; of the object that
\* the response gives now, or of one that was kept (it is the same object).
SetDirective == \E d \in {"age1", "private"}, fresh \in BOOLEAN :
  /\ part = "cache" /\ (cc = <<>> => fresh)
  /\ LET r == IF fresh THEN ReadCC(items, cc) ELSE [items |-> items, cc |-> cc]
         props == WithDirective(r.cc[1].props, d)
     IN Attribute(OnlyCC, [items |-> WriteBack(r.items, props), cc |-> <<[r.cc[1] EXCEPT !.props = props]>>])
DelDirective == \E d \in Directives :
  /\ part = "cache" /\ cc # <<>> /\ d \in cc[1].props
  /\ Attribute(OnlyCC, [items |-> WriteBack(items, cc[1].props \ {d}), cc |-> <<[cc[1] EXCEPT !.props = @ \ {d}]>>])

\* res.cache_control = a text, or None, {} or del (the empty text).  Once there
\* is an object, the text is parsed with "response" in the place of the
\* callback, which fails at the first directive.
Fails(t) == cc # <<>> /\ t.props # {}
AssignText == \E t \in Texts :
  /\ part = "cache" /\ ~Fails(t)
  /\ Attribute(OnlyCC, IF cc = <<>> THEN [items |-> SetItem(items, CC, t, Lower), cc |-> cc] ELSE FillCC(items, cc, {}))
AssignTextFails == \E t \in Texts :
  /\ part = "cache" /\ Fails(t)
  /\ op' = [name |-> "failed", pairs |-> <<<<CC, t>>>>, attr |-> ""] /\ ret' = <<>>
  /\ UNCHANGED <<part, items, view, held, cc, byhand>>
\* res.cache_control = a dict or the object of another response.
AssignObject == \E p \in {{}, {"age1"}, {"private", "no-store"}} :
  part = "cache" /\ Attribute(OnlyCC, FillCC(items, cc, p))
\* res.cache_control = res.cache_control: clear() empties both.
AssignSelf == part = "cache" /\ Attribute(OnlyCC, FillCC(items, cc, {}))

Expiry == <<<<CC, NoText>>, <<"expires", NoText>>, <<"last-modified", NoText>>, <<"pragma", NoText>>>>
\* cache_expires(0), cache_expires(n) and cache_expires(None), with private or
\* not; "no-store" stands for itself, no-cache and must-revalidate.
Expires == \E seconds \in {"none", "zero", "some"}, more \in {{}, {"private"}} :
  /\ part = "cache"
  /\ LET r     == ReadCC(items, cc)
         base  == CASE seconds = "zero" -> WithDirective(r.cc[1].props, "age0") \cup {"no-store"}
                    [] seconds = "some" -> {"age1"}
                    [] OTHER            -> r.cc[1].props
         props == base \cup more
         dated == CASE seconds = "zero" ->
                         AttrSet(IF HasKey(r.items, "last-modified", Lower) THEN AttrSet(r.items, "expires", 1)
                                 ELSE AttrSet(AttrSet(r.items, "expires", 1), "last-modified", 1), "pragma", 1)
                    [] seconds = "some" -> Without(AttrSet(r.items, "expires", 1), "pragma", Lower)
                    [] OTHER            -> r.items
     IN Attribute(Expiry, [items |-> IF seconds = "none" /\ more = {} THEN r.items ELSE WriteBack(dated, props),
                           cc |-> <<[r.cc[1] EXCEPT !.props = props]>>])

(* res.content_type, res.charset, res.content_type_params.                  *)

TypeAttribute(name, s) ==
  /\ part = "type"
  /\ items' = s
  /\ op' = [name |-> "attribute", pairs |-> <<<<CT, Plain("")>>>>, attr |-> name] /\ ret' = <<>>
  /\ view' = IF view = "none" THEN "current" ELSE view
  /\ UNCHANGED <<part, held, cc, byhand>>
PutType(v) == SetItem(items, CT, v, Lower)

SetContentType == \E v \in ContentTypes :
  /\ v.type # ""
  /\ TypeAttribute("content_type", PutType(IF v.charset = "none" /\ v.type = "text"
                                           THEN [v EXCEPT !.charset = "default"] ELSE v))
DelContentType == TypeAttribute("del content_type", PopFirst(items, CT, Lower))
SetCharset == \E c \in {"default", "other"} :
  HasType(items) /\ TypeAttribute("charset", PutType([TypeHeader(items) EXCEPT !.charset = c]))
\* Slip: the header is not put back without its charset.
WrongDelCharset ==
  TypeAttribute("del charset", IF HasType(items) THEN PopFirst(items, CT, Lower) ELSE items)
\* The header is popped, and what is put back takes the place of all.
DelCharset ==
  TypeAttribute("del charset", IF HasType(items) THEN PutType([Popped(items) EXCEPT !.charset = "none"]) ELSE items)
SetParams == \E c \in {"none", "other"} :
  TypeAttribute("params", PutType([type |-> IF HasType(items) THEN Popped(items).type ELSE "", charset |-> c, param |-> TRUE]))
DelParams == TypeAttribute("del params", PutType(Plain(TypeHeader(items).type)))

---------------------------------------------------------------------------
Dictionary == Set \/ Add \/ Del \/ Default \/ Pop \/ PopItem \/ Clear \/ Pairs \/ Keep \/ AssignList
Attributes == SetAttr \/ DelAttr
CacheControl == Read \/ SetDirective \/ DelDirective \/ AssignText \/ AssignTextFails \/ AssignObject \/ AssignSelf \/ Expires
ContentType == SetContentType \/ DelContentType \/ SetCharset \/ DelCharset \/ SetParams \/ DelParams
Next == Dictionary \/ Attributes \/ CacheControl \/ ContentType

Spec == Init /\ [][Next]_vars

---------------------------------------------------------------------------
(* Properties.                                                              *)

\* The methods over the list (with their filters, reversed loops and deletions
\* by index) do what Multimap says, under either comparison of keys; a
\* res.headers that is asked for is never of a replaced list; and an
\* attribute changes no header but those that it is about.
M == INSTANCE Multimap WITH
  Names <- Keys,
  table <- [n \in Keys |-> IF norm[n] = n THEN GetAll(items, n, norm) ELSE <<>>]
RefinesMultimap == M!Spec

\* The readers agree on every list, alone and nested: [], getone, mixed, in,
\* and the attribute (the first of the headers) where there is one header.
ReadersAgree ==
  LET mixed == Mixed(items, norm) IN
  \A k \in DictKeys :
    LET all == GetAll(items, k, norm)
    IN /\ HasKey(items, k, norm) <=> all # <<>>
       /\ all # <<>> => Get(items, k, norm) = all[Len(all)] /\ mixed[norm[k]] = all
       /\ GetOne(items, k, norm) # <<>> <=> Len(all) = 1
       /\ Len(all) = 1 /\ part # "multidict" => AttrGet(items, k) = Get(items, k, norm)
       /\ \A n \in 0..Len(items) :
            LET s == SubSeq(items, 1, n) t == SubSeq(items, n + 1, Len(items))
            IN /\ NestedGetAll(s, t, k, norm) = GetAll(NestedItems(s, t), k, norm)
               /\ all # <<>> => NestedGet(s, t, k, norm) \in {all[i] : i \in 1..Len(all)}

\* res.cache_control shows the directives of the header it is served for,
\* after any changes through the object, through a kept one, by cache_expires
\* or by hand; unless the application put back by hand the very text that the
\* object was parsed from.
CacheControlShown ==
  cc # <<>> =>
    LET r == ReadCC(items, cc)
    IN \/ r.cc[1].props = Header(r.items).props
       \/ byhand /\ Header(items) = cc[1].text

\* Setting or deleting the charset or the parameters keeps the type, and the
\* charset keeps the other parameter, unless there are two Content-Types.
TypeKept ==
  [][part = "type" /\ op'.name = "attribute" /\ Len(GetAll(items, CT, Lower)) <= 1 =>
       LET did == op'.attr before == TypeHeader(items) after == TypeHeader(items')
       IN /\ did \in {"charset", "del charset", "params", "del params"} => after.type = before.type
          /\ did \in {"charset", "del charset"} => after.param = before.param
          /\ did = "del charset" => after.charset = "none"]_vars

\* After res.cache_control = text the header has the directives of the text
\* ("Get/set/modify the Cache-Control header", response.py 1170).
CacheControlAssigned ==
  [][\A t \in Texts : op'.name = "failed" /\ op'.pairs = <<<<CC, t>>>> => Header(items').props = t.props]_vars
=============================================================================
