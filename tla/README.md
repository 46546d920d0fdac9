# A TLA+ development of WebOb

WebOb (`src/src/webob`) gives WSGI applications a `Request` and a `Response`: views of the WSGI environ and of a
response's status, headers and body.  The program has no threads of its own.  What is hard in it is *aliasing and
order*: a request is a view of a dict that other views, copies, middleware and applications change too; the body is a
file that can be read once and belongs to a connection; a response body may be an iterator that can be read once and may
raise; several headers describe one body and are kept in step by many methods.  Almost every bug of its history is
"method A, then method B, then read C".  TLC goes through those orders, which the unit tests (one or two calls each) do
not, and TLAPS proves the most important invariants for every size.

Line numbers below are of files in `src/src/webob`.

## 1. Inventory

| component | state it keeps | operations | interacts with | hard |
|---|---|---|---|---|
| request body (`request.py` 196-242, 697-820, 883-1044, 1322-1362, 1611-1642) | `wsgi.input`, `CONTENT_LENGTH`, `webob.is_body_seekable`, `wsgi.input_terminated`, caches `webob._body_file`, `webob._parsed_post_vars` | `body_file`, `body`, `POST`, `make_body_seekable`, `copy_body`, `copy`, `copy_get`, setters, deleters | the server's socket, the application's files, `cgi.FieldStorage`, called applications | bytes read ahead; disconnects; input that cannot be rewound; copies of one wire |
| environ views (`request.py` 822-849, 1097-1140; `multidict.py` 290-347; `cachecontrol.py`) | `QUERY_STRING`, `HTTP_CACHE_CONTROL`, each with a cached object that writes back | getters, setters, methods of `GetDict` and `CacheControl` | `copy()` shares the objects | objects that outlive the access; caches checked against a string |
| wsgify (`dec.py`) | `req.response` in `environ["webob.adhoc_attrs"]` | `__call__`, `req.get_response`, `merge_cookies` | every layer of a stack shares one environ | nesting, exceptions, answers by six kinds of value |
| response body (`response.py` 380-393, 525-755, 1282-1355) | `_app_iter`, `Content-Length`, `Content-Encoding`, `Content-MD5` | `body`, `app_iter`, `write`, `encode_content`, `decode_content`, `md5_etag`, `copy` | the application's iterators | read-once iterators that raise; lengths kept in step; lists shared |
| accept negotiation (`acceptparse.py`) | one text in the environ per header | parse, `+`, `acceptable_offers`, `basic_filtering`, `lookup`, the request property | -- | repeated, contradictory, overriding ranges; empty list elements |
| conditional and range responses, static files (`response.py` 1414-1690, `static.py`, `byterange.py`, `etag.py`) | an open file, its size and date, the range to send | `conditional_response_app`, `FileApp`, `FileIter`, `AppIterRange` | the server's iteration and `close()` | file changed between stat and open; who closes it; chunk boundaries |
| response headers, cookies (`response.py`, `headers.py`, `cookies.py`) | header list, `HTTP_COOKIE` | `set_cookie`, `unset_cookie`, `merge_cookies`, `RequestCookies`, `CookieProfile` | wsgify | two cookies of one name |
| response cache_control (`response.py` 1165-1280) | header, object | getter that rewrites while it parses, `cache_expires` | `UpdateDict` | callbacks during parsing |
| multidicts (`multidict.py`, `headers.py`) | an ordered list of pairs | dict protocol, nested and read-only views | GET, POST, params, headers | first, last or all of a name; folding of case |
| `call_application`, `send`, client (`request.py` 1322-1397, `client.py`) | captured status, headers, `write()` output; a socket | start_response, write, close | any WSGI application, a server | the order of the WSGI calls, timeouts |
| URL parts (`request.py` 320-660) | `SCRIPT_NAME`, `PATH_INFO`, routing args | `path_info_pop`, `path_info_peek`, `urlvars`, `urlargs` | routers, `DirectoryApp` (`static.py` 107-165) | two keys for one value; redirections that feed each other |
| exceptions (`exc.py`) | an exception is a response and an application; its own `location` | `__call__`, `HTTPExceptionMiddleware` | whoever raises or returns it | one instance answers many requests |
| dates, conversions | -- | formatting | -- | -- |

What makes each of the modelled ones correct is what its properties say (section 3).

## 2. Modules

| module | models | state and actions |
|---|---|---|
| `RequestBody` | every access to a request's body, of an original and any number of copies | the file objects, the environ keys per request, the announced length, the last result; one action per method |
| `CopyBodyLoop` | `copy_body` as the loop it is; extends `RequestBody`, which takes it for one step, and is shown to implement it | the loop's variables `todo`, `newbody`, `fileobj` |
| `EnvironViews` | `req.GET`, `req.cache_control` and shallow copies | the two keys and caches per environ; the view objects, each bound to the environ it was made for |
| `Routing` | `urlvars` and `urlargs`; `path_info_pop` under a router that mounts a `DirectoryApp`, and the browser that follows its redirections | the two environ keys and the dictionaries; `SCRIPT_NAME`, `PATH_INFO`, the URL asked for |
| `RoutingPair` | abstract: what `urlargs` and `urlvars` promise | two values |
| `WsgifyStack` | a request through a stack of wsgify layers | the responses, the one slot `req.response`, the stack of activations, the answer on its way back |
| `Gateway` | `call_application` and `send` over a WSGI program, over the client that asks a server, or over an exception, with or without `HTTPExceptionMiddleware` | `captured`, `output`, the generator, the connection, the exception's own `location`; what the program made and what the caller has, for the properties |
| `ResponseBody` | everything that reads, replaces or describes a response's body | the iterables, the attributes per response, and (as a record for the properties) what the application wrote |
| `Serving` | `FileApp`, `FileIter`, `conditional_response_app`, `AppIterRange`, `EmptyResponse`; the server that iterates and closes, a client that revalidates and resumes, a file that changes | the versions of the file, the request, the response, its source and iterator, what was sent, what the client keeps |
| `HeaderList` | the header list under all its readers and writers: dictionary methods, header attributes, content type, `cache_control` and its object, `cache_expires` | the list, the wrapper of `res.headers` (also one the application kept), the CacheControl object |
| `Multimap` | abstract: what the dictionary methods promise | the values of each name |
| `Selection` | what a filter keeps of a list and what a sort makes of it, for `HeaderList`, `Multimap`, `Cookies`, `Routing` and `Negotiation` | -- |
| `Cookies` | `RequestCookies`, `make_cookie`, `set_cookie`, `unset_cookie`, `merge_cookies`, the cookie profiles, and the browser between response and request | the Cookie header and its cache, the Set-Cookie headers, the browser's jar, a page that lives on |
| `Negotiation` | the loops that choose among offers, of the present methods and of the deprecated ones (`best_match`, `quality`, `in`), as operators without state | -- |
| `AcceptHeaders` | the four Accept properties of a request over `Negotiation` | the text in the environ; assign, delete, add |
| `RequestBody_proofs` (with `CopyBodyLoop`), `RequestViews_proofs` (`EnvironViews`, `Routing`, `Cookies`), `AcceptHeaders_proofs` (with `Negotiation`), `Calls_proofs` (`Gateway`, `WsgifyStack`), `ResponseBody_proofs`, `Serving_proofs`, `HeaderList_proofs` (with `Multimap`) | theorems about these modules, with their inductive invariants and lemmas | -- |
| `Selection_proofs` | what the others share about lists, filters, sorts and loops | -- |
| `MC...` | values of the constants for TLC | -- |

An access is one action with everything it does, an exception included: `ok = FALSE` (or `op.name = "failed"`) in the
record of the last result, and the state as the code leaves it.  Helper operators take and return a whole state (`s.f`,
`s.e` in `RequestBody`, `es`, `vs` in `EnvironViews`, the list and the object in `HeaderList`), so that a method that
calls others is the composition of their operators, as in the code.  `HeaderList` and `Routing` have a `part` that is
chosen at the start and says which methods a behaviour uses, so that methods that cannot meet are not multiplied.

**Abstractions.**  *Bytes* are positions: a byte string is a slice of the wire, of a version of a file or of a value
that an application assigned, so a lost, repeated or truncated byte is a wrong bound.  *Header texts* are their parsed
contents, with what the parser is sensitive to: whether a query string or a Cache-Control is spelled as the serializer
would spell it (the caches compare texts); what stands between the commas of an Accept header; which of type, charset
and parameter a Content-Type has.  *Pieces of a response body* are numbers, each written once; a body is at most one
gzip-coded part, with a fixed overhead, and what was written behind it.  *Cookie values* are who wrote them (plain text,
a profile's salt, nobody) and what they say, with three spellings: values that need no quotes, that need them, and that
the writer leaves without quotes and the reader stops in (`Cut`).  What follows the stop is matched further: `a=x[b=2`
is read as `a=x` and `b=2`, so the Cookie header is the sequence of what `_rx_cookie` matches in it, and an edit
replaces or removes one match (`Matches`, `Mutated`). *Dates* are counted in seconds, and a version of a file may have
any: that of the version before it, an earlier one (restored, copied with its date) or a later one.  *File names* are
sequences of names from `/`; `.` and `..` are followed as `os.path.abspath` does (`Abspath`).

**External code**, modelled by how `src/` uses it: `BufferedReader` asks `readinto` for whole buffers and serves what it
has read ahead first; `cgi.FieldStorage` and a called application read `CONTENT_LENGTH` bytes; an application's own
stream may return fewer bytes than asked, never none before its end (`CopyBodyLoop`); `GzipFile` yields the decoded part
or raises; a WSGI server calls `close()` once, after its last `next()`; a WSGI program calls `start_response` before its
return, from inside its generator, more than once, or never (an IndexError; `Gateway`); a browser keeps cookies by name,
domain and path and sends those whose path fits (`Cookies`).

**`Wrong...` definitions** are mutants: slips that one could make in the definition below them (a dropped guard, a
swapped order, a missing reset).  No specification uses them.  Put in place of that definition they make TLC report the
property they are paired with in `PROJECT.json`, which shows that the property does depend on the code.

## 3. Runs

| run | instance | distinct states | properties |
|---|---|---|---|
| `request_body` | an original and one copy, bodies of up to 3 bytes, announced lengths 0..3 and none (longer and shorter than what arrives), read-ahead of 2, a temporary file over 1 byte, 3 file objects | 335,020 | `NeverReadPastLength`, `LengthMatches`, `NoTruncation`, `FreshReads`, `StreamInOrder`, `CopyFaithful`, `Independent` |
| `copy_body_loop` | bodies of up to 5 bytes, chunks of 2, limit of 3 (inside the second chunk), read-ahead of 3, short reads | 252,910 | `RefinesCopyBody`, `Terminates` |
| `environ_views` | original and copy, two contents with two spellings, 2 view objects | 490,833 | `OwnQueryCoherent` |
| `routing` | a mount, paths of up to 6 names, dots and slashes after it, a root in `/` with a directory that has an index and one that has none, files in each and outside; 4 dictionaries, 2 keys, 2 argument tuples | 14,525 | `Right`, `RefinesPair`, `HeldIsLive`, `Settles` |
| `wsgify_stack` | 3 layers over a plain application, 2 cookies, 1 `get_response` | 198,461 | `AnsweredWhole` |
| `gateway` | every kind of program, 4 pieces, 3 calls of `start_response`, a body of 2 bytes, the request sent twice | 254,840 | `NothingLost`, `Released`, `SentWhole`, `LocationFits` |
| `response_body` | 2 responses, 3 pieces, 5 iterables | 1,547,617 | `NothingLost`, `LengthTrue`, `ReadersClose` |
| `serving` | files of up to 3 bytes in blocks of 2, one change, two requests, over a `FileIter`, a `file_wrapper` and four kinds of page; versions of an earlier, the same or a later date; a client that keeps something revalidates or resumes it | 253,320 | `Framed`, `Assembled`, `NotStale`, `Released`, `Served` |
| `header_list` | lists of up to 3 headers, two spellings of one name and another name, 2 values; 4 directives | 33,930 | `ReadersAgree`, `CacheControlShown`, `RefinesMultimap`, `TypeKept` |
| `cookies` | two names and an attribute's name, three values (`y`, `x;y` and `x[a=y`), two profiles (one signed, one encoded and for two domains), three requests, three calls, 3 cookies in a header | 860,395 | `ReadsHeader`, `OthersSurvive`, `Remembered`, `NothingLeft`, `EditsOne` |
| `accept_headers` | every header of up to 3 items over 3 or 4 ranges and 3 weights, empty, blank and bad items included; every question of up to 3 offers with repetitions (of three kinds; two for languages), of up to 2 rated ones for `best_match` | 11,004 | `AnswersAsSpecified`, `NeverServesRefused`, `SumKeepsElements`, `OldMethodsAgree` |
| `cache_control_assigned` | as `header_list` | -- | `CacheControlAssigned`, violated (section 6) |

`request_body`: no order of accesses reads into the next request of the connection (`NeverReadPastLength`); the length
beside a seekable input is right (`LengthMatches`); a truncated body is never stored for a whole one (`NoTruncation`);
`body`, `POST` and called applications get the body from its first byte and not from a replaced input (`FreshReads`);
successive stream reads are consecutive though each access may build a reader (`StreamInOrder`); a copy has the bytes
(`CopyFaithful`), and after it the two requests touch nothing of each other (`Independent`).

`copy_body_loop`: the loop implements the one step (`RefinesCopyBody`, a refinement mapping that shows the state before
the call until the loop returns; also proved), and ends (`Terminates`).

`environ_views`: a request's own query dict never disagrees with the `QUERY_STRING` it is served for, although older
dicts are changed and strings are set behind the cache.

`routing`: over whichever of `paste.urlvars` and `wsgiorg.routing_args` there is, `urlvars` and `urlargs` behave as two
values (`RefinesPair`), and a dictionary that was got stays the live one (`HeldIsLive`).  A browser that asks for any
path under the mount, with `.` and `..` in it too, ends (`Settles`) with what that path names, and with the mount still
in the URL (`Right`): the file, the directory's index, a 404, or a 403 if it is outside of the root.  Three kinds of path
are different, and `Right` and `Settles` say which (section 6): an index outside of the root is sent, because the
check comes after that for a directory; a hidden index page with a slash behind it redirects to itself; and one with
dots behind it is redirected to what stands before the dots.

`wsgify_stack`: each cookie arrives once, each body has one author, and a function that returns None or text is answered
with its own `req.response` (`AnsweredWhole`), whatever the functions return or raise, as long as no layer calls another
layer by `get_response` (section 6 has what happens then).

`gateway`: the caller has every piece in the order it was made (`NothingLost`), a generator is closed once by whoever
has it (`Released`), a second sending has the whole body where the input seeks (`SentWhole`), and the redirection that
adds a slash is that of the request at hand although the exception answers many (`LocationFits`).

`response_body`: an iterator can be read once, so that whoever reads it has to store what it read, for every response
that has it.  A response one of whose iterators raised has lost what that iterator had; it is left out of the two
invariants until its body is replaced (`harmed`).

`serving`: an answer that is sent to its end has the bytes that its status and headers announce, for every range and
method, cut over every pair of block boundaries (`Framed`).  A client that resumes with `If-Range` puts together one
version (`Assembled`), and 304 is said only to who has the bytes (`NotStale`): for entity tags whatever is done to the
file, for dates as long as each version is dated later than those before it and none comes between `stat` and `open`
(`sharp`).  That condition is the limit of `last_modified <= date` and of one-second dates, and not met by every file
system: section 6 has what happens outside of it.  `Released` names the places where only the garbage collector closes
the source (section 6) and shows that there are no others; a `FileIter` that was sent to its end is not one of them.
`Served`: the loop over a file ends although the file became shorter than what was announced.

`header_list`: under either comparison of keys the list is a multimap to who uses the dictionary methods
(`RefinesMultimap`: filters and the deletion by index that runs backwards over the list it shortens, against one value
per name, and no attribute changes another header), also through a `res.headers` that was kept while the list was
replaced; the readers of a repeated name agree where they should (`ReadersAgree`); `res.cache_control` shows the header
(`CacheControlShown`); the three attributes cut out of one Content-Type do not disturb each other (`TypeKept`).

`cookies`: `req.cookies` answers from the header as it is now, and a signed profile reads nothing that it did not issue
(`ReadsHeader`).  An edit changes what one name reads, and those that the reader finds in the value that is set
(`EditsOne`).  What a response said comes back with the next request under its path, unless the reader stops in that
value or finds the name in another one that is sent, and a name that was not set is not read under the same condition
(`Remembered`).  Unsetting keeps the others as far as it can (`OthersSurvive` has the exact exceptions); a merge leaves
nothing behind in an application (`NothingLeft`).

`accept_headers`: the loops, running maxima, dicts of first mentions and stable sorts agree with definitions that
quantify over the header (`AnswersAsSpecified`; for the deprecated methods, whose rules differ, `OldMethodsAgree`, which
leaves out the ties for which docstring and loop disagree: section 6): an
answer is an arrangement of the offers that the definition serves, each as often as it is offered, by weight and then by
place (`Arranged`).  A valid Accept header serves a repeated offer once, the other headers as often as it is offered.
`lookup` is held to its docstring for ranges in which no singleton introduces a singleton (`Separate`): `en-x-y-gb`
is cut to `en-x`, which ends in one (section 6).  A refused tag is never looked up, by any of the four ways there are
(`NeverServesRefused`); adding keeps the elements of both sides (`SumKeepsElements`).

**Fairness.**  Three properties are liveness.  `Terminates`: weak fairness of `Turn \/ Finish`, since the code is
sequential and a read returns what is there, or the end of the input, and does not block for ever (a server that never
returns from `read` is outside of the model).  `Served`: weak fairness of the server's own steps; the client's requests,
the changes of the file and the breaks of the connection have none.  `Settles`: weak fairness of the router, the
application and the browser that follows a redirection.  No fairness of an application's own calls is assumed.

**Deadlock.**  `CHECK_DEADLOCK FALSE` stands where a behaviour ends: the request is answered (`wsgify_stack`, `routing`),
the requests, calls or sends that are bounded are used up (`serving`, `cookies`, `gateway`, `response_body`).

**Why the bounds are enough.**  Each is over the point where the next larger value repeats a case: three body bytes and
a read-ahead of two have reads that end before, at and after a buffer, and lengths below, at and above what arrives; a
third file object is one that replaces a replacement; three layers have one that is neither first nor last; three header
items have a range repeated, contradicted and overridden at once; three offers have one repeated with another between. 
Three file bytes in blocks of two have a full and a partial block, so that a range may start and end inside, at and
across the boundary; two requests are one that breaks and one that resumes or revalidates, and one change between any
two steps of them makes the two versions that can be mixed up, of an earlier, the same or a later date.  Three headers
are two of one name and one between or after them.  Three cookie requests are one that sets, one that changes what it
got and one that reads the outcome.  Four pieces are one for each way a program has to emit (`write` before and after
its return, a yield, a list).  The proofs below have no bounds on the sizes.

Two runs count fewer states than their specification has, without a loss.  `op` and `ret` of `HeaderList` only show the
last call: no guard and no invariant reads them, and `RefinesMultimap` and `TypeKept` read them after a step only, which
TLC checks on every step it generates, so `VIEW WithoutLastCall` (`MCHeaderList`) leaves them out when it compares
states.  In `serving`, `Unrelated = FALSE` lets a client that keeps something send only requests with something of it: a
request without is answered as if the client kept nothing, and what it keeps afterwards is what it kept or the new
answer alone.  The theorems do not assume that, nor the four kinds of page (`MCServing`): they hold for every set of
pages and for both values.

## 4. Theorems

The theorems hold for every value of the constants that satisfies the module's `ASSUME` (named sets and bounds, the
absent value not among the others), so also without the bounds of section 3.  None of the properties is inductive; what
has to be added to each is the content of the proof.  Every inductive invariant was model-checked on the instance of its
module's run before it was proved.

| module | theorem | states |
|---|---|---|
| `RequestBody_proofs` | `TypeCorrect`, `SeekableIsTruthful`; `NeverReadsPastLength`, `LengthAlwaysMatches`, `NeverTruncates`, `CopiesAreIndependent`, `ReadsAreFresh`, `StreamsInOrder`, `CopiesAreFaithful` | `TypeOK`, `SeekableTruthful`; all seven properties of the run |
| `RequestBody_proofs`, of `CopyBodyLoop` | `LoopInvariant`, `ImplementsOneStep` | `LoopInv`, `RefinesCopyBody` |
| `RequestViews_proofs`, of `EnvironViews` | `CachesTyped`, `OwnQueryIsCoherent` | the parts of the invariant, `OwnQueryCoherent` |
| `RequestViews_proofs`, of `Routing` | `ImplementsPair`, `HeldStaysLive`, `RoutingRight` | `RefinesPair`, `HeldIsLive`, `Right` |
| `RequestViews_proofs`, of `Cookies` | `CookiesInvariant`; `CookiesRead`, `CookiesSurvive`, `CookiesRemembered`, `CookiesLeaveNothing`, `CookiesEditOne` | `CookiesInv`; all five properties of the run |
| `AcceptHeaders_proofs` | `AcceptInvariant`; `AcceptAnswers` (with `AcceptLooksUp`), `AcceptServesNothingRefused`, `AcceptSums`, `AcceptOldMethods` | `AcceptInv`; all four properties of the run |
| `Calls_proofs`, of `WsgifyStack` | `StackInvariant`, `AnswersAreWhole` | `StackInv`, `AnsweredWhole` |
| `Calls_proofs`, of `Gateway` | `GatewayInvariant`; `PiecesArrive`, `AllReleased`, `WholeBodySent`, `LocationsFit` | `GatewayInv`; `NothingLost`, `Released`, `SentWhole`, `LocationFits` |
| `ResponseBody_proofs` | `BodiesAreWhole`, `LengthsAreTrue`, `IteratorsAreClosed` | `NothingLost`, `LengthTrue`, `ReadersClose` |
| `Serving_proofs` | `AnswersAreFramed`, `CopiesAreOfOneVersion`, `NoStaleCopies`, `SourcesAreClosed` | `Framed`, `Assembled`, `NotStale`, `Released` |
| `HeaderList_proofs` | `ReadersDoAgree`, `CacheControlIsShown`, `TypesAreKept`, `Refinement` | all four properties of the run |

`Inductive` in `ResponseBody_proofs` and `Serving_proofs` is the theorem `Spec => []IInv`, as `Invariance` is in
`RequestBody_proofs` and `HeaderList_proofs`.  The proofs have one layout: a lemma per helper
operator (reading, wrapping, closing, storing), stated of any state that satisfies the parts of the invariant, so that
an action that composes helpers is a chain of lemmas; a lemma per action; and the temporal step.

`RequestBody`, assuming `ConstantsAssumption`.  The invariant `IInv` says

- of each file (`GoodFile`), that its position is within its bytes, and of the files together (`GoodFiles`), that only
  the first can be the wire and that what else holds wire bytes holds the whole announced body;
- of each environ (`GoodEnv`), how its keys describe its input, and of the cached reader (`GoodWrapper`), that what it
  has read and what it may still read add up to the announced length;
- that no two environs that exist share an input, which `Independent` needs.

`FreshReads` and `CopyFaithful` are about the result of an access: each follows from the lemma of that access and the
invariant of the state before.  `StreamInOrder` relates two accesses that may be far apart; the invariant that carries it
from the one to the other is `Resumes`: what the next read of the input would return, through the cached reader or a
new one, begins where the last one ended.

`CopyBodyLoop`, assuming in addition that a chunk is not empty and that the absent temporary file is not a slice.  A
refinement mapping that shows the old state until the loop returns needs to know, at the return, what the loop did in
all its turns.  `LoopInv` says it as a prediction: reading all that is left at once, from the state as it is, gives the
outcome that the one step has from the state of the call (`Outcome`).  Each turn keeps the prediction, because a read of
`n` and then of the rest is a read of all (a lemma on each kind of reader, with what it has read ahead), and the last
turn makes it true.

`EnvironViews`, assuming `ViewsAssumption`.  The property says nothing of a dict cached beside another string, and
`query_string = ...` may bring that string back: the inductive invariant says of *every* own dict that it agrees with
the string it was cached with (`Coherent`), that caches hold objects of their kind (`OfKind`), and that an object was
made by an environ that exists (`Makers`), so that a new copy owns none.

`Routing`, for any keys, arguments and number of dictionaries: every behaviour is, through the two getters, one of
`RoutingPair`.  The invariant is `DictsExist`: what the environ and the application name is a dictionary that was made,
so that a new one is no other's.  A step is then a step of the pair or leaves it: `GetVars` makes a dictionary that reads
as the missing one did; `SetArgs` takes over whichever dictionary there is; `DelArgs` may take away the key, but only of
an empty dictionary.

`Routing`'s paths, for any directories, files, names and lengths.  `Segments`, the names of a path without its slashes, is
a filter, so that it is the names of the one part and then of the other wherever a path is cut.  The invariant
(`UnderWay`) is that the URL names the mount and then what was asked for, or its front when that is a hidden index, and
that `SCRIPT_NAME` and `PATH_INFO` are the URL cut behind the mount; `Answered` says what the answer then is.  What a path
names is a walk over its segments, a recursive function: the walk along a list and one segment more is one step from the
walk along the list (`AbspathAppend`), so that taking a hidden index off the URL takes it off the file name, if there are
no dots behind it (`AbspathLast`, `AimIs`).

`Cookies`, for any names, values, profiles, strays and any number of cookies.  `CookiesInv` has five parts beside
`NothingLeft`: the types, with the one fact about who writes what that the signed profiles need, that a value signed
by a profile says what that profile issued (`CookiesTyped`, `Saying`); that the cached dictionary is the parse of the
header kept with it (`ParsedOf`); that `told` is what the jar says, place by place (`AsTold`); that the cookies of the
response and those that were intended are, name by name, the same lists as long as nothing was unset, and the same but
for two flags as long as every unset was `Harmless` (`AsIntended`); and that an application that is merged into has no
cookies of its own (`AppBare`).  `AsIntended` is kept because `unset_cookie`, which parses and writes all headers again,
is a filter of a sort of the last of each name: where every other name stands once it gives each name what it had
(`LoadedOf`).  `AsTold` is kept by an answer because both sides see only the last cookie of each place (`LastSaid`).
`EditsOne` follows from what `Mutated` is around the place it changes (`MutatedOthers`, `MutatedItself`): one match makes
room for the matches of what is written, one or several (`Written`), and each name has what it had before, among and
behind them (`OfInThree`).  What a header or a Set-Cookie line is read as is a concatenation of such sequences: what
it has is what its parts have (`FlattenHas`), and with it what `Cookie.load` makes of a line that carries more than one
(`RereadIs`, `AllReadIs`) and what the browser's cookies are matched as (`PairsOfIs`).

`AcceptHeaders` and `Negotiation`, for headers and lists of offers of any length.  The invariant says only that the
text is of its kind: the answers are functions of it, and the theorems compare two ways to compute them.  Each loop is a
recursive function; a lemma says what it has after `n` rounds, and the least `n` of which that is false gives the
contradiction (`Iterates`, `UpTo`).  After `n` ranges the dict of first mentions has each range with the weight of its
first place (`Weighs`); after `n` ranges an offer has the first of the most specific of them (`Knows`), after `n` offers
each has the entry of its first place (`Finds`); `best_match` has the first of the matches that none is above
(`TriesAll`, `Ideal`), an order of weight and stars in which no tie is broken late; where no tie is disputed that is
what the docstring of its kind says (`OldAgree`).  A sort is `InOrder`: an order
without ties on a finite set of places puts each of them at the place that counts those before it (`InOrderSorts`), so
that its outcome lists exactly what the filter kept (`Lists`, `Serves`, `Filters`).  For `lookup`, the lengths of the
truncations are a sequence of numbers that fall (`Shrinks`); each truncation is a head of the range that ends in no
singleton, and each such head is reached unless two singletons follow each other.

`WsgifyStack`, for any number of layers, cookies and calls.  Layers set their cookies one after the other and return in
the opposite order, so each holds an *interval* of the numbered cookies: the invariant is that marks between the
intervals exist (one per activation), and that the answer on its way up has exactly the cookies above the mark of the
layer it comes to.  It is claimed as long as no layer called another by `get_response` (`nested`), which the code does
not survive (section 6).

`Gateway`.  The invariant says for each stage of an answer where its pieces are (in the program, in `output`, in the
iterable, with the caller: `PiecesPlaced`), whether the generator has still to be closed and by whom (`GeneratorHeld`),
how far the input was read (`InputRead`), and for which request the `location` of an exception was made absolute
(`HomeFixed`).

`ResponseBody`.  The invariant is that no two responses have an iterable in common, directly or inside the generator
that compresses it (`NoneShared`): who reads or writes one changes the body of one response, and the two properties,
which are part of the invariant, are then kept action by action.

`Serving`, the largest: one answer is followed from `os.stat` to `close()`.  As long as the file is what it was at
`os.stat`, it is what the response says of it (`Undisturbed`, `Tagged`, `Framing`); what was sent is one run of bytes
of one file that begins where the answer says, wherever the blocks were cut (`InOrder`, with a lemma per iterator); and
the bytes that the client keeps are of the version that its tag names, as long as no part was added by a date, and of
that which its date names, as long as dates rise (`sharp`); so are those that it gets (`Versions`, `Confirmed`, `Held`).

`HeaderList`, for lists of any length.  A filter, `[x for x in s if ...]`, is `Chosen(s, I)`: the items at the places `I`,
in their order, without recursion.  `Enumerates(r, n, I)` says that `r` runs through `I` upwards; such an `r` exists for
every set of places (by a least set that has none) and is unique, and from it follow the facts that everything else
uses: a filter of two lists behind each other (`ChosenConcat`), and a filter of a filter (`ChosenTwice`).  Then each
deletion by index, backwards, is followed turn by turn and comes to such a filter (`DeletedIs`), and each
method is described by what it does to the values of *every* name (`Setting`, `Removing`, `Adding`, `Popping`,
`TakingLast`, `SetTwo`), which is what `Multimap` says of its table (`Refinement`, one lemma per kind of call).  The
invariant has `Shown`: while the header is the text that the object of `cache_control` was parsed from, the object shows
it, unless the application put that text back by hand; `Stripped`, for `del res.charset` said again; and that the list
holds entries.  The loop of `mixed` is a recursive function: its two tables have a closed form after `n` pairs (`Held`),
and the first `n` at which the loop would differ from it leads to a contradiction (`HeldAlways`).

**What the proofs changed.**  Two statements turned out to be wrong when they were to be proved, beyond the bounds that
TLC had.  `OffersAsSpecified` named the place of an offer by its first occurrence, which is not the order in which a
repeated offer is returned among others of its weight; with three offers TLC shows it.  It is stated by `Arranged` now,
and `FilteringAsSpecified` likewise, and the run has three offers.  `LookupAsSpecified` did not say what a range with
two singletons in a row does.  The assumptions on the constants say what was tacit: ranges and offers are not empty and
no offer is a wildcard, which the parsers guarantee (`HeadersAssumption`); an application writes plain text into
cookies, profiles have valid names, and a stray text is signed by nobody (`CookiesAssumption`); `/` is no name and the
root and `/` are directories (`RoutingAssumption`).

**Model-checked only.**  *Liveness* (`Terminates`, `Served`, `Settles`) is out of the prover's reach, and so it stays
with TLC.  Every invariant, action property and refinement that a passing run checks has a theorem.

## 5. Not modelled, and why

- Inside the modelled parts: `content_length` or `body_file_raw` set by the application, and raw reads mixed with
  `body_file` on one input that cannot seek (both make the caller responsible for the bookkeeping); deflate, `text`,
  `json`, `from_file`; an assigned Content-Length; argument binding and `clone` of wsgify; the parsing of media type
  parameters and quoted strings, the text forms of headers, iteration over the deprecated Accept objects and the
  assembling of `MIMEAccept`; an invalid-header object made by hand from a valid text; `from_fieldstorage` and
  `view_list`; several ranges in one `Range` header (the parser takes the first).
- Attributes of a request that read and write one environ key with a parser between (host, scheme, url and its parts,
  dates, lists), the pages of `exc.py` and the map of its classes, `datetime_utils`, `descriptors`' converters, `util`
  and `compat`: stateless formatting and parsing, which unit tests reach well.
- Symbolic links (`os.path.abspath` does not follow them), `index_page=None`, a file whose bytes are overwritten in place
  without a change of size (`Resize` changes the size, and what a version's bytes are is the file and the place); cookie
  values that carry the name of an attribute behind a stop, as `x[path=/q` does.
- Garbage collection, which closes files and iterators too: a thing counts as closed when the code closed it.

## 6. Where the code and its documentation differ, or surprise

A run shows the first; the others were met while modelling, and the modules follow the code in each.

1. Once `res.cache_control` was read, `res.cache_control = "max-age=3"` raises TypeError: `CacheControl.parse(value,
   "response")` hands the type over as the callback (`response.py` 1209; run `cache_control_assigned`).
2. `make_body_seekable` does not set `content_length` on a blank request, although its docstring says that it is not None
   afterwards (`request.py` 947-954).
3. A change through a copy's `GET` or `cache_control` writes the original: the caches are copied shallowly (`request.py`
   890).
4. `req.cache_control` can be served for a header it does not match: the callback rewrites the header and not the cached
   text beside the object (`request.py` 1139).
5. After `req.get_response` of another wsgify application, `req.response` is the inner one's (`dec.py` 66-69, 129).
6. `write()` leaves the Content-MD5 of the shorter body (`response.py` 720), which the body setter removes.
7. The valid header `""` plus a valid header is an invalid one; plus a text it raises ValueError (`acceptparse.py` 643).
8. `best_match` of AcceptCharset and AcceptEncoding say that the first of `offers` wins a tie (`acceptparse.py` 2181-2182,
   3210); the loop takes the range with fewer stars: `"*, utf-8"` with `["latin-1", "utf-8"]` gives `utf-8`.
   `OldMethodsAgree` says what the docstrings say, but for these ties, of which it says no more than the weight.
9. `call_application` says that an exception given to `start_response` is "raised directly"; `etype(exc)` is a new
   exception of the class, and TypeError where the class wants more arguments (`request.py` 1331, 1344).
10. `Range.parse` may return None by its docstring; `bytes=-` makes it raise ValueError, and a garbled `If-Range` date
    ends in TypeError; the open file is then left to the garbage collector (`byterange.py` 68, `etag.py` 146).
11. `FileIter` has no `close()`: a 304, 416 or HEAD answer, or a connection that breaks, leaves the file to the garbage
    collector.  `AppIterRange` closes the iterator that it made and not the iterable it was made from (`response.py`
    1576, 1626); the `EmptyResponse` that stands for it in the answer to HEAD with a range takes over that `close()`
    (1637-1639), so that an iterable that is not its own iterator stays open there, too.
12. `last_modified <= date` (`etag.py` 152, `response.py` 1436) does not ask whether the file is the one the client has: a
    version with an older date, restored or moved there, is answered with a stale 304 to `If-Modified-Since`, and with
    a 206 that is glued to the old part to `If-Range` with a date.  So is one of the same second.
13. `DirectoryApp`: with `hide_index_with_redirect`, `/dir/index.html/` redirects to itself (`static.py` 144), and
    `/dir/index.html/x/..` to `/dir/index.html/x/`, what stands before its dots.  A path with `..` that leads to a
    directory outside of the root gets the index page of that directory, if it has one, since `isdir` comes before the
    403 (137, 149).
14. `res.cache_control = res.cache_control` loses the directives (both are one object, which is cleared first); `del
    res.cache_control` before it was read leaves an empty header.
15. Unsetting or overwriting a cookie drops `secure` and `HttpOnly` of the response's other cookies, because the parser
    wants a `=` after each attribute; a `SameSite=None` cookie then raises after all Set-Cookie headers were deleted
    (`response.py` 1128).
16. A value with `[` or `]` is written without quotes and read up to there, and the regular expression goes
    on behind it (`cookies.py` 203, 339-345, 442): `x[b=2` set as `a` is read as `a=x` and `b=2`.  So a name that nobody
    set is read; setting or deleting `b` in `req.cookies` reaches into the value of `a` (68-81); and `unset_cookie` writes
    both back as cookies, the attributes with the last (166-170).
17. A redirection made once with a relative location, as at module level, keeps the base of the first request it answers
    (`exc.py` 582).
18. `del req.urlargs` with an empty dictionary parts from the dictionary that the application holds (`request.py` 629).
19. `lookup` cuts `en-x-y-gb` to `en-x`: one singleton is dropped with the subtag behind it, but not a second one before
    it (`acceptparse.py` 4701).
20. The connection of `SendRequest` is left open when the attempt fails (`client.py` 139).

## 7. Plan

Done, in this order: `RequestBody`, `CopyBodyLoop`, `EnvironViews`, `WsgifyStack`, `ResponseBody`, `Negotiation` and
`AcceptHeaders`; then `Serving`, `Multimap` and `HeaderList`, `Cookies`, `Gateway`, `RoutingPair` and `Routing`, and the
deprecated methods of `Negotiation`; the proofs of `RequestBody`, `EnvironViews` and `Routing`'s arguments, then of
`Gateway`, `WsgifyStack`, `ResponseBody`, `Serving`, `CopyBodyLoop` and `HeaderList`, then of `Cookies`, `Routing`'s paths
and `AcceptHeaders`.  Next, most important first:

1. Composition of `ResponseBody` with `Serving`: an encoded body that is answered in ranges.
2. The attributes of a request that span two keys (`host` and `host_url`, `path_info` setters).
3. The assembling of Accept headers (`create_accept_header` from objects, `MIMEAccept`) and iteration over them.
