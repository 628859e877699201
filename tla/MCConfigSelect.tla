--------------------------- MODULE MCConfigSelect ---------------------------
(***************************************************************************)
(* A small instance of ConfigSelect for TLC, and files for ConfigText.     *)
(***************************************************************************)
EXTENDS Configuration

\* A slash, a location, one nested in it.
Paths == { <<"/">>, <<"/", "a">>, <<"/", "a", "b">> }
\* Also one of a request line without the slash in front.
Asked == { <<"/", "a">>, <<"/", "a", "b", "c">>, <<"a", "b">> }

\* A page that is there under one root, and one that is there under another.
OnDisk == { <<"r", "p">>, <<"../website/html", "q">> }

\* The words that directives take, and words without their first character.
Taken == [d \in {"root", "location"} |-> {"/", "r"}]
           @@ [autoindex |-> {"on"}, client_max_body_size |-> {"1k"}, listen |-> {"80", "8080"}]
Behind(w) == IF Len(w) < 2 THEN "" ELSE SubSeq(w, 2, Len(w))

\* Directives that may be written, in a server block and in a location.
InnerDirectives == {
  Directive("root", <<"r">>), Directive("index", <<"a", "b">>), Directive("index", <<>>),
  Directive("return", <<"301", "x">>), Directive("return", <<"301", "x", "y">>),
  Directive("listen", <<"80">>), Directive("xroot", <<"r">>), Directive("x", <<"r">>) }

OuterDirectives == {
  Directive("root", <<"r">>), Directive("root", <<"bad">>), Directive("autoindex", <<>>),
  Directive("listen", <<"80", "8080">>), Directive("listen", <<"80", "bad">>),
  Directive("index", <<"b", "c", "b">>),
  Directive("index", <<"a">>), Directive("index", <<>>),
  Directive("error_page", <<"404", "500", "p">>), Directive("error_page", <<"500", "q">>),
  Directive("error_page", <<"404">>), Directive("return", <<"x">>) }

Locations == {LocationWith("/", ds) : ds \in BoundedSeq(InnerDirectives, 1)}
               \cup {LocationWith("/", <<Directive("index", <<"a", "b">>),
                                         Directive("index", <<"b", "c">>)>>),
                     LocationWith("bad", <<>>)}

\* Files of one block of up to three directives, and of two blocks of one.
Samples ==
  {<<b>> : b \in BoundedSeq(OuterDirectives \cup Locations, 2)}
    \cup {<<<<d, l, e>>>> : d \in OuterDirectives, l \in {LocationWith("/", <<>>)},
                            e \in OuterDirectives}
    \cup {<<<<d, e, f>>>> : d \in OuterDirectives,
             e \in {x \in OuterDirectives : x.name = "error_page"},
             f \in {x \in OuterDirectives : x.name \in {"root", "error_page"}}}
    \cup {<<<<l>>, <<d>>>> : d \in OuterDirectives, l \in Locations}

=============================================================================
