------------------------------- MODULE Routing -------------------------------
(***************************************************************************)
(* How a request finds its way: path_info_pop and path_info_peek            *)
(* (src/webob/request.py 502-547) under a router that gives the paths below *)
(* one prefix to a DirectoryApp (src/webob/static.py 107-165), with the     *)
(* browser that follows its redirections; and req.urlvars and req.urlargs   *)
(* over two keys of the environ (src/webob/request.py 549-641).             *)
(*                                                                         *)
(* A path is a sequence of names and slashes.  A dictionary is a number,    *)
(* so that two names for one dictionary can be told from two dictionaries.  *)
(*                                                                         *)
(* Operators called Wrong... are slips one could make in the code; no       *)
(* specification uses them.                                                 *)
(***************************************************************************)
EXTENDS Selection, SequencesExt

CONSTANTS
  Mount,    \* the name under which the directory is
  Names,    \* names in paths, "." and ".." among them
  Index,    \* index_page, which is not disabled
  Root,     \* the directory that DirectoryApp serves
  Dirs,     \* the directories of the file system, as sequences of names
  Files,    \* its files
  MaxPath,  \* bound on the length of a path after the mount
  Args,     \* values of urlargs other than ()
  Keys,     \* keys of urlvars
  MaxDicts  \* bound on the dictionaries made

Dots == {".", ".."}

\* DirectoryApp raises for a root that is no directory; a slash is no name.
ASSUME RoutingAssumption ==
  /\ Mount \in Names \ Dots /\ Index \in Names \ Dots /\ MaxPath \in Nat /\ MaxDicts \in Nat \ {0}
  /\ "/" \notin Names
  /\ {<<>>, Root} \subseteq Dirs /\ Dirs \subseteq Seq(Names) /\ Files \subseteq Seq(Names) \ Dirs
  /\ "()" \notin Args

VARIABLES
  part,    \* "vars" or "path": which half this behaviour is about
  paste,   \* environ["paste.urlvars"]: a dictionary, or 0
  routing, \* environ["wsgiorg.routing_args"]: <<>> or <<[args, dict]>>
  heap,    \* heap[d]: the keys of dictionary d
  held,    \* a dictionary that the application got from req.urlvars, or 0
  hide,    \* hide_index_with_redirect
  asked,   \* the path the browser was asked for
  url,     \* the path it asks for now
  script, info, \* SCRIPT_NAME and PATH_INFO
  stage,   \* "ask", "route", "serve", "moved", "done"
  answer   \* <<>>, <<"gone">>, <<"forbidden">> or <<"file", its names>>

onvars == <<paste, routing, heap, held>>
onpath == <<hide, asked, url, script, info, stage, answer>>
routingVars   == <<part, onvars, onpath>>

---------------------------------------------------------------------------
(* urlvars and urlargs.                                                     *)

\* The dictionary that req.urlvars returns, 0 when there is none yet.
VarsDict == IF paste # 0 THEN paste ELSE IF routing # <<>> THEN routing[1].dict ELSE 0
Urlargs  == IF routing # <<>> THEN routing[1].args ELSE "()"
Urlvars  == IF VarsDict = 0 THEN {} ELSE heap[VarsDict]

Pair(a, d) == <<[args |-> a, dict |-> d]>>
NewDict     == Len(heap) + 1
RoomForDict == part = "vars" /\ NewDict <= MaxDicts

GetVars ==
  /\ part = "vars"
  /\ IF VarsDict # 0 THEN held' = VarsDict /\ UNCHANGED <<routing, heap>>
     ELSE /\ NewDict <= MaxDicts /\ heap' = Append(heap, {}) /\ held' = NewDict
          /\ routing' = Pair("()", NewDict)
  /\ UNCHANGED <<paste, part, onpath>>

SetVars(c) ==
  /\ RoomForDict /\ heap' = Append(heap, c) /\ held' = NewDict
  /\ \/ routing # <<>> /\ routing' = Pair(routing[1].args, NewDict) /\ paste' = 0
     \/ routing = <<>> /\ paste # 0 /\ paste' = NewDict /\ UNCHANGED routing
     \/ routing = <<>> /\ paste = 0 /\ routing' = Pair("()", NewDict) /\ UNCHANGED paste
  /\ UNCHANGED <<part, onpath>>

DelVars ==
  /\ part = "vars" /\ paste' = 0
  /\ IF routing = <<>> \/ routing[1].args = "()"
     THEN routing' = <<>> /\ UNCHANGED heap
     ELSE NewDict <= MaxDicts /\ heap' = Append(heap, {}) /\ routing' = Pair(routing[1].args, NewDict)
  /\ UNCHANGED <<held, part, onpath>>

\* Slip: what paste.urlvars had is left out.
WrongTaken == IF routing # <<>> THEN routing[1].dict ELSE 0
\* The dictionary that urlargs takes along, 0 for a new one.
Taken == VarsDict

\* Slip: the dictionary is copied.
WrongKept(d) == NewDict
Kept(d) == IF d = 0 THEN NewDict ELSE d

SetArgs(a) ==
  /\ RoomForDict /\ paste' = 0 /\ routing' = Pair(a, Kept(Taken))
  /\ heap' = (IF Kept(Taken) = NewDict THEN Append(heap, IF Taken = 0 THEN {} ELSE heap[Taken]) ELSE heap)
  /\ UNCHANGED <<held, part, onpath>>

DelArgs ==
  /\ part = "vars" /\ routing # <<>>
  /\ routing' = (IF heap[routing[1].dict] = {} THEN <<>> ELSE Pair("()", routing[1].dict))
  /\ UNCHANGED <<paste, heap, held, part, onpath>>

\* The application puts a key into the dictionary it has.
Fill(k) ==
  /\ part = "vars" /\ held # 0 /\ heap' = [heap EXCEPT ![held] = @ \cup {k}]
  /\ UNCHANGED <<paste, routing, held, part, onpath>>

---------------------------------------------------------------------------
(* Paths.                                                                   *)

IsSlash(t) == t = "/"
Segments(p) == Chosen(p, {i \in 1..Len(p) : p[i] # "/"})
Slashed(p)  == p # <<>> /\ Last(p) = "/"

\* path_info_peek: the first name, "" when there are only slashes; "none" of
\* an empty path.
Leading(p) == LET i == SelectInSeq(p, LAMBDA t : t # "/") IN IF i = 0 THEN Len(p) ELSE i - 1
Peek(p) ==
  IF p = <<>> THEN "none"
  ELSE IF Leading(p) = Len(p) THEN "" ELSE p[Leading(p) + 1]

\* What path_info_pop moves to SCRIPT_NAME: the slashes and the name.
Popped(p) == SubSeq(p, 1, IF Leading(p) < Len(p) THEN Leading(p) + 1 ELSE Len(p))

PathUrl == script \o info

\* Slip: only the query is taken off.
WrongParent(p) == p
\* path_url.rsplit("/", 1)[0] + "/"
Parent(p) == SubSeq(p, 1, SelectLastInSeq(p, IsSlash))

\* The request arrives; the router takes the mount off.
Ask ==
  /\ part = "path" /\ stage = "ask"
  /\ script' = <<>> /\ info' = url /\ stage' = "route"
  /\ UNCHANGED <<hide, asked, url, answer, part, onvars>>

\* path_info_pop(pattern): what does not match stays.
Route ==
  /\ stage = "route"
  /\ IF Peek(info) = Mount
     THEN /\ script' = script \o Popped(info)
          /\ info' = SubSeq(info, Leading(info) + 2, Len(info))
          /\ stage' = "serve" /\ UNCHANGED answer
     ELSE stage' = "done" /\ answer' = <<"gone">> /\ UNCHANGED <<script, info>>
  /\ UNCHANGED <<hide, asked, url, part, onvars>>

Say(a)   == answer' = a /\ stage' = "done" /\ UNCHANGED url
Move(to) == url' = to /\ stage' = "moved" /\ UNCHANGED answer

NeedsSlash(p) == ~Slashed(p)

\* One name of os.path.normpath; the directory above "/" is "/".
Step(d, name) ==
  CASE name = "."  -> d
    [] name = ".." -> IF d = <<>> THEN d ELSE Front(d)
    [] OTHER       -> Append(d, name)

\* os.path.abspath(os.path.join(self.path, ...))
Abspath(names) ==
  LET at[n \in 0..Len(names)] == IF n = 0 THEN Root ELSE Step(at[n - 1], names[n])
  IN  at[Len(names)]

\* DirectoryApp.index of the directory d.
IndexOf(d) ==
  IF Append(d, Index) \notin Files THEN Say(<<"gone">>)
  ELSE IF NeedsSlash(info) THEN Move(Append(PathUrl, "/"))
  ELSE Say(<<"file", Append(d, Index)>>)

\* The name is that of a hidden index page.
Hidden(name) == hide /\ name \notin Dirs /\ Last(name) = Index

\* Slip: whether the file exists is asked first.
WrongFound(name) ==
  IF name \notin Files THEN <<"gone">>
  ELSE IF IsStrictPrefix(Root, name) THEN <<"file", name>> ELSE <<"forbidden">>
\* What is sent for a name that is not a directory.
Found(name) ==
  IF ~IsStrictPrefix(Root, name) THEN <<"forbidden">>
  ELSE IF name \in Files THEN <<"file", name>> ELSE <<"gone">>

Serve ==
  LET p == Abspath(Segments(info)) IN
  /\ stage = "serve"
  /\ \/ p \in Dirs /\ IndexOf(p)
     \/ Hidden(p) /\ Move(Parent(PathUrl))
     \/ p \notin Dirs /\ ~Hidden(p) /\ Say(Found(p))
  /\ UNCHANGED <<hide, asked, script, info, part, onvars>>

\* The browser follows.
Follow ==
  /\ stage = "moved" /\ stage' = "ask"
  /\ UNCHANGED <<hide, asked, url, script, info, answer, part, onvars>>

---------------------------------------------------------------------------
Paths == UNION {[1..n -> Names \cup {"/"}] : n \in 0..MaxPath}
\* A name follows a slash.
Sound(p) == \A i \in 1..Len(p) : p[i] = "/" \/ (i > 1 /\ p[i - 1] = "/")

RoutingInit ==
  \/ /\ part = "vars"
     /\ \E c \in SUBSET Keys, d \in SUBSET Keys : heap = <<c, d>>
     /\ paste \in {0, 1} /\ routing \in {<<>>} \cup {Pair(a, 2) : a \in Args \cup {"()"}}
     /\ held = 0
     /\ hide = FALSE /\ asked = <<>> /\ url = <<>> /\ script = <<>> /\ info = <<>>
     /\ stage = "done" /\ answer = <<>>
  \/ /\ part = "path"
     /\ paste = 0 /\ routing = <<>> /\ heap = <<>> /\ held = 0
     /\ hide \in BOOLEAN
     /\ url \in {<<"/", Mount>> \o p : p \in {q \in Paths : Sound(q)}} \cup {<<"/", "/", Mount, "/">>}
     /\ asked = url /\ script = <<>> /\ info = <<>> /\ stage = "ask" /\ answer = <<>>

OnPath == Ask \/ Route \/ Serve \/ Follow

RoutingNext ==
  \/ GetVars \/ DelVars \/ DelArgs
  \/ \E c \in SUBSET Keys : SetVars(c)
  \/ \E a \in Args : SetArgs(a)
  \/ \E k \in Keys : Fill(k)
  \/ OnPath

\* The server answers and the browser follows redirections.
RoutingSpec == RoutingInit /\ [][RoutingNext]_routingVars /\ WF_routingVars(OnPath)

---------------------------------------------------------------------------
(* urlargs and urlvars are two independent values, whichever of the two     *)
(* keys the routers before and after wrote and whichever the setters        *)
(* convert: see RoutingPair.                                                *)
RP == INSTANCE RoutingPair WITH args <- Urlargs, dict <- Urlvars
RefinesPair == RP!Spec

(* The dictionary that the application holds goes on being the one that     *)
(* req.urlvars returns until urlvars is set or deleted; deleting urlargs    *)
(* parts from it when it is empty.                                          *)
HeldIsLive ==
  [][held # 0 /\ held = VarsDict /\ VarsDict' # held =>
       \/ DelVars \/ \E c \in SUBSET Keys : SetVars(c)
       \/ DelArgs /\ heap[held] = {}]_routingVars

\* The path ends in "." or "..".
Dotted(p) == Last(Segments(p)) \in Dots

(* Whatever path below the mount a client asks for, "." and ".." in it too, *)
(* it ends up with what that path names: a file of the root, the index of a *)
(* directory, a 404, or a 403 outside the root, the mount still in its      *)
(* path; with a hidden index page its name counts for nothing, also below a *)
(* file.  An index is sent only for a path that ends in a slash or names    *)
(* it, so that relative links in it resolve.  Outside the root that leaves  *)
(* the index page of a directory, for which the check comes too late.  A    *)
(* hidden index page that is named by a path with dots at its end is        *)
(* redirected to what stands before the dots, and not claimed here.         *)
Right ==
  part = "path" =>
    LET name == Abspath(Tail(Segments(asked)))
        want == IF Hidden(name) THEN Front(name) ELSE name
        page == Append(want, Index)
    IN
    /\ stage = "serve" => PathUrl = url /\ Segments(script) = <<Mount>>
    /\ stage = "done" /\ ~(Hidden(name) /\ Dotted(asked)) =>
         /\ answer = CASE want \in Dirs /\ page \in Files                    -> <<"file", page>>
                       [] want \in Files /\ IsStrictPrefix(Root, want)       -> <<"file", want>>
                       [] want \notin Dirs /\ ~IsStrictPrefix(Root, want) -> <<"forbidden">>
                       [] OTHER                                           -> <<"gone">>
         /\ answer # <<"gone">> /\ want \in Dirs => Slashed(url)

(* Redirections end, but for a hidden index page with a slash or dots after *)
(* it, which may be sent to itself, and what is below such a page by that   *)
(* name.                                                                    *)
Settles ==
  part = "path" /\ stage = "ask"
    /\ (LET name == Abspath(Tail(Segments(url))) IN
        Hidden(name) => ~Slashed(url) /\ ~Dotted(url) /\ ~Hidden(Front(name)))
    ~> stage = "done"

===============================================================================
