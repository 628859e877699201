----------------------------- MODULE MCService -----------------------------
(***************************************************************************)
(* A small site for TLC: a file that may be read, written and deleted, one *)
(* in a directory that may only be read, yet under another spelling of its *)
(* uri be written, a script, a path to a new file, one that is redirected, *)
(* and a directory that is listed and has a root of its own.               *)
(***************************************************************************)
EXTENDS Service

\* Uris: y is x with a slash too many, g is f through a directory.
f == <<"/", "f">>
g == <<"/", "d", "/", "..", "/", "f">>
x == <<"/", "d", "/", "x">>
y == <<"/", "/", "d", "/", "x">>
s == <<"/", "s">>
n == <<"/", "l", "/", "n">>
r == <<"/", "r">>
d == <<"/", "d">>
l == <<"/", "l", "/">>

\* Files and directories.
F == <<"w", "/", "f">>
X == <<"w", "/", "d", "/", "x">>
S == <<"w", "/", "s">>
N == <<"v", "/", "l", "/", "n">>
R == <<"w", "/", "r">>

Paths       == {F, X, S, N, R}
Directories == {<<"w">>, <<"v">>, <<"w", "/", "d">>, <<"v", "/", "l">>}
Interpreted == {"s"}
Site        == << [name |-> F, contents |-> <<"i", "j">>],
                  [name |-> X, contents |-> <<"k">>], [name |-> S, contents |-> <<"k">>] >>

\* The system's way along a path: one slash is as good as two, ".." is the
\* directory above, and a slash may follow the name of a directory.
Further(path, segment) ==
  IF segment = "/" /\ path # <<>> /\ Last(path) = "/" THEN path
  ELSE IF segment = ".." /\ Len(path) > 2 /\ Front(path) \in Directories
    THEN SubSeq(path, 1, Len(path) - 2)
    ELSE Append(path, segment)

Walk(path) ==
  LET end == FoldLeft(Further, <<>>, path) IN
  IF Len(end) > 1 /\ Last(end) = "/" /\ Front(end) \in Directories THEN Front(end) ELSE end

All   == {"GET", "POST", "DELETE"}
Plain0 == [allow |-> {}, index |-> <<>>, autoindex |-> "", limit |-> -1,
           redirect |-> FALSE, type |-> "", target |-> "", root |-> <<>>]
Block == [allow |-> {"GET"}, index |-> <<"w", "x">>, autoindex |-> "off", limit |-> 3,
          pages |-> {"404"}, root |-> <<"w">>]
Open  == [Plain0 EXCEPT !.allow = All]

Map == f :> Open @@ g :> Open @@ x :> Plain0 @@ y :> [Plain0 EXCEPT !.allow = {"GET", "POST"}]
       @@ s :> [Open EXCEPT !.limit = 1] @@ n :> [Open EXCEPT !.root = <<"v", "/">>]
       @@ r :> [Open EXCEPT !.redirect = TRUE, !.type = "301", !.target = "away"]
       @@ d :> Plain0 @@ d \o <<"/">> :> Plain0
       @@ l :> [Plain0 EXCEPT !.autoindex = "on", !.root = <<"v">>]

Ask(method, uri) == [NoRequest EXCEPT !.method = method, !.uri = uri, !.version = "HTTP/1.1"]
Post(uri, body)  == [Ask("POST", uri) EXCEPT !.body = body]
Later(q)         == [q EXCEPT !.waits = TRUE]
Last0(q)         == [q EXCEPT !.keep = FALSE]

\* Bodies that differ in every place, shorter and longer than the file.
Files == { Ask("GET", f), Post(f, <<"p", "q", "r">>), Last0(Later(Post(g, <<"z">>))),
           Post(f, <<>>), Ask("DELETE", f), Later([Ask("DELETE", f) EXCEPT !.body = <<"z">>]) }
Others == { Last0(Ask("GET", d)), Ask("GET", d \o <<"/">>), Ask("GET", l), Later(Post(y, <<"z">>)),
            Ask("DELETE", x), Post(r, <<"z">>), Post(n, <<"z">>), Later(Ask("DELETE", n)),
            Post(f, <<"p", "q", "r", "z">>), Later(Post(s, <<"z", "z">>)),
            Post(s, <<"z">>), Ask("DELETE", s), Ask("PUT", f),
            [Ask("GET", f) EXCEPT !.version = "HTTP/1.0"] }
Mixed == Files \cup Others

Texts == { [split |-> FALSE, fields |-> <<>>, body |-> <<"z">>],
           [split |-> TRUE, fields |-> <<[name |-> "Status", value |-> "404"]>>, body |-> <<>>],
           [split |-> TRUE, body |-> <<"z">>,
            fields |-> <<[name |-> "Status", value |-> "OK"], [name |-> "Content-Type", value |-> "a"]>>] }

\* Of HttpStatus, the statuses of this instance: 505 is not in the table.
Table   == {"200", "201", "204", "301", "400", "404", "405", "406", "413", "500", "502"}
Classes == "505" :> "500"

Symmetric == Permutations(Clients)

=============================================================================
