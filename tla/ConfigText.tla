------------------------------ MODULE ConfigText ------------------------------
(***************************************************************************)
(* The text of a configuration file, as ConfigParser takes it apart: a     *)
(* reader goes over the tokens of the file one by one, and the directives  *)
(* it finds set the fields of a Config and of its Locations.  ConfigSelect *)
(* has the rest of the parser: what listen and location directives lead    *)
(* to, the order of the locations and the checks at the end of a block.    *)
(*                                                                         *)
(* A token is a word, a brace, a semicolon directly behind a word (";") or *)
(* with a blank in front (" ;"), or the end of a line ("eol"); blank lines *)
(* and lines of comment are no tokens, as getNewLine passes over them.     *)
(* Quotes, and words that hold a brace, are left out.                      *)
(***************************************************************************)
EXTENDS Naturals, FiniteSets, Sequences, SequencesExt

CONSTANTS
  Files,     \* the error pages that can be read, each a pair of a root and a name
  Takes,     \* the words that each directive takes that looks at its words: paths,
             \* a switch, a size, or for listen ports and addresses
  Rest(_),   \* a word without its first character, "" if it has no other
  Written    \* files as they are meant: sequences of blocks of directives

ListDirectives      == {"server_name", "index", "allowed_methods"}
SingleDirectives    == {"root", "autoindex", "client_max_body_size"}
InServer ==
  ListDirectives \cup SingleDirectives \cup {"listen", "error_page", "location"}
InLocation == {"index", "allowed_methods", "return"} \cup SingleDirectives
Signs == {"{", "}", ";", " ;"}

\* Directives as they are meant: one that fits on a line, and a location.
Word              == STRING \ (Signs \cup {"eol"})
LineDirective     == [name : Word, words : Seq(Word), inner : {<<>>}]
LocationDirective == [name : {"location"}, words : [{1} -> Word],
                      inner : Seq(LineDirective)]
OuterDirective    == {d \in LineDirective : d.name # "location"} \cup LocationDirective

ASSUME TakesAssumption ==
  Takes \in [SingleDirectives \cup {"listen", "location"} -> SUBSET Word]
ASSUME WrittenAssumption == Written \subseteq Seq(Seq(OuterDirective))

(***************************************************************************)
(* The reader: where it is, the blocks read so far, the directives of the  *)
(* block being read, the path and the directives of the location being     *)
(* read, and the directive being read.  "name" is the place behind a       *)
(* directive's name on its line, "words" any later one before its end.     *)
(***************************************************************************)
Reader == [at |-> "file", blocks |-> <<>>, block |-> <<>>, inside |-> FALSE,
           match |-> "", place |-> <<>>, name |-> "", words |-> <<>>]

Directive(name, words)   == [name |-> name, words |-> words, inner |-> <<>>]
LocationWith(match, ds)  == [name |-> "location", words |-> <<match>>, inner |-> ds]

\* runtime_error, or the out_of_range of at(0): main rejects the file.
Refused(s) == [s EXCEPT !.at = "refused"]

\* parseStream; whatever follows the last block makes parseFromArgs refuse.
AtFile(s, t) ==
  CASE t = "eol"    -> s
    [] t = "server" -> [s EXCEPT !.at = "server", !.block = <<>>]
    [] OTHER        -> Refused(s)

\* skip_to_after_server_block_opening.
AtServer(s, t) ==
  CASE t = "eol" -> s
    [] t = "{"   -> [s EXCEPT !.at = "block"]
    [] OTHER     -> Refused(s)

\* extractDirectiveName and the search in the table of the enclosing block.
Named(s, t) ==
  IF t \in (IF s.inside THEN InLocation ELSE InServer)
    THEN [s EXCEPT !.at = "name", !.name = t, !.words = <<>>]
    ELSE Refused(s)

EndBlock(s)    == [s EXCEPT !.at = "file", !.blocks = Append(@, s.block)]
EndLocation(s) == [s EXCEPT !.inside = FALSE,
                            !.block = Append(@, LocationWith(s.match, s.place))]

\* Faulty: the brace that ends a location ends its server as well
\* (breaks MissingIsRefused).
AtBlockOneBrace(s, t) ==
  CASE t = "eol" -> s
    [] t = "}"   -> EndBlock(IF s.inside THEN EndLocation(s) ELSE s)
    [] OTHER     -> Named(s, t)

\* The loops of extract_server_block_info and processLocationBlock.
AtBlock(s, t) ==
  CASE t = "eol" -> s
    [] t = "}"   -> IF s.inside THEN EndLocation(s) ELSE EndBlock(s)
    [] OTHER     -> Named(s, t)

\* processLocationBlock, up to the path of the location ...
AtMatch(s, t) ==
  CASE t = "eol" -> s
    [] t \in Takes["location"] -> [s EXCEPT !.at = "brace", !.match = t]
    [] OTHER -> Refused(s)

\* ... and the next character, whatever it is.  What a word has behind it is read
\* as the name of the first directive.
AtBrace(s, t) ==
  LET opened == [s EXCEPT !.at = "block", !.inside = TRUE, !.place = <<>>]
  IN CASE t = "eol" -> Refused(s)
       [] t \in Signs \/ (t # "eol" /\ Rest(t) = "") -> opened
       [] OTHER -> Named(opened, Rest(t))

\* processListen: no word is needed, but stringToPort must make a port of each
\* that is not an address alone.
HasPorts(words) == ToSet(words) \subseteq Takes["listen"]

\* Faulty: every list directive needs words of its own (breaks FileIsRead).
CompleteAlone(s) ==
  LET n == Len(s.words) IN
  CASE s.name \in ListDirectives      -> n > 0
    [] s.name \in SingleDirectives    -> n = 1 /\ s.words[1] \in Takes[s.name]
    [] s.name = "listen"     -> HasPorts(s.words)
    [] s.name = "error_page" -> n > 1
    [] s.name = "return"     -> n \in {1, 2}
    [] OTHER                 -> TRUE

\* The checks of the process functions; a list is counted with what earlier
\* directives of that name have put in it.
Complete(s) ==
  LET n       == Len(s.words)
      earlier == IF s.inside THEN s.place ELSE s.block
  IN CASE s.name \in ListDirectives ->
            n > 0 \/ \E d \in ToSet(earlier) : d.name = s.name
       [] s.name \in SingleDirectives -> n = 1 /\ s.words[1] \in Takes[s.name]
       [] s.name = "listen"     -> HasPorts(s.words)
       [] s.name = "error_page" -> n > 1
       [] s.name = "return"     -> n \in {1, 2}
       [] OTHER                 -> TRUE

Done(s) ==
  LET d == Directive(s.name, s.words) IN
  IF s.inside THEN [s EXCEPT !.at = "block", !.place = Append(@, d)]
              ELSE [s EXCEPT !.at = "block", !.block = Append(@, d)]

(***************************************************************************)
(* extractParam and check_and_skip_semicolon.  All words of a directive    *)
(* stand on one line with its semicolon, which follows the word of a       *)
(* single-valued directive without a blank.                                *)
(***************************************************************************)
AtWords(s, t) ==
  CASE s.name = "location" -> AtMatch(s, t)
    [] s.name # "location" /\ t = "eol" -> IF s.words = <<>> THEN s ELSE Refused(s)
    [] s.name # "location" /\ t \in {";", " ;"} ->
         IF Complete(s) /\ (s.name \in SingleDirectives => t = ";") THEN Done(s)
                                                                  ELSE Refused(s)
    [] OTHER ->
         IF s.name \in SingleDirectives /\ s.words # <<>> THEN Refused(s)
         ELSE [s EXCEPT !.words = Append(@, t)]

\* Behind the name: a semicolon there is taken for a part of the name.
AtName(s, t) ==
  IF t = ";" THEN Refused(s) ELSE AtWords([s EXCEPT !.at = "words"], t)

Read(s, t) ==
  CASE s.at = "file"   -> AtFile(s, t)
    [] s.at = "server" -> AtServer(s, t)
    [] s.at = "block"  -> AtBlock(s, t)
    [] s.at = "name"   -> AtName(s, t)
    [] s.at = "words"  -> AtWords(s, t)
    [] s.at = "brace"  -> AtBrace(s, t)
    [] OTHER           -> s

\* The tokens of a text, one by one.
Run(s, text) ==
  LET at[n \in 0 .. Len(text)] == IF n = 0 THEN s ELSE Read(at[n - 1], text[n])
  IN at[Len(text)]

\* parseFromArgs: the file is accepted if it ends between two blocks.
Parsed(text)   == Run(Reader, text)
Accepted(text) == Parsed(text).at = "file"

-----------------------------------------------------------------------------
(***************************************************************************)
(* What the directives set.  A Config and a Location are seen as the words *)
(* of each of their settings, the error pages and the locations.           *)
(***************************************************************************)
NoPages == [status \in {} |-> ""]
Unset   == [d \in ListDirectives \cup SingleDirectives \cup {"return"} |-> <<>>]

\* Config::Config and Location::Location.
NewConfigText   == [set |-> [Unset EXCEPT !["root"] = <<"../website/html">>,
                                          !["autoindex"] = <<"off">>,
                                          !["client_max_body_size"] = <<"1000000">>],
                    pages |-> NoPages, locations |-> <<>>]
NewLocationText == [set |-> Unset, pages |-> NoPages, locations |-> <<>>]

\* processAddParamsToVector: a word that is there already is not added.
Added(list, w) == IF Contains(list, w) THEN list ELSE Append(list, w)
Merged(list, words) ==
  LET at[n \in 0 .. Len(words)] == IF n = 0 THEN list ELSE Added(at[n - 1], words[n])
  IN at[Len(words)]

\* processErrorPages: the last word is the page of all the others.
Paged(pages, words) ==
  [c \in DOMAIN pages \cup ToSet(Front(words)) |->
     IF c \in ToSet(Front(words)) THEN Last(words) ELSE pages[c]]

SetField(conf, d) ==
  IF d.name \in ListDirectives THEN [conf EXCEPT !.set[d.name] = Merged(@, d.words)]
                               ELSE [conf EXCEPT !.set[d.name] = d.words]

LocationOf(ds) ==
  LET at[n \in 0 .. Len(ds)] ==
        IF n = 0 THEN NewLocationText ELSE SetField(at[n - 1], ds[n])
  IN at[Len(ds)]

Set(conf, d) ==
  CASE d.name \in ListDirectives \cup SingleDirectives -> SetField(conf, d)
    [] d.name = "error_page" -> [conf EXCEPT !.pages = Paged(@, d.words)]
    [] d.name = "location" -> [conf EXCEPT !.locations = Append(@, LocationOf(d.inner))]
    [] OTHER -> conf

\* Faulty: the pages of the first root of the file (breaks SettingsAreWritten).
LoadedFromDefault(conf) ==
  LET place(c) == <<NewConfigText.set["root"][1], conf.pages[c]>>
      there    == {c \in DOMAIN conf.pages : place(c) \in Files}
  IN [conf EXCEPT !.pages = [c \in there |-> place(c)]]

\* getErrorPageContent, at the end of the block: the contents, or no page.
Loaded(conf) ==
  LET place(c) == <<conf.set["root"][1], conf.pages[c]>>
      there    == {c \in DOMAIN conf.pages : place(c) \in Files}
  IN [conf EXCEPT !.pages = [c \in there |-> place(c)]]

\* What the directives of a block set, and the Config at its end.
Settings(block) ==
  LET at[n \in 0 .. Len(block)] ==
        IF n = 0 THEN NewConfigText ELSE Set(at[n - 1], block[n])
  IN at[Len(block)]
ConfigOf(block) == Loaded(Settings(block))

-----------------------------------------------------------------------------
(***************************************************************************)
(* Files as they are meant: a sequence of blocks of directives, laid out   *)
(* one directive to a line ("lines"), with line ends behind names too      *)
(* ("tall"), or on a single line ("flat").                                 *)
(***************************************************************************)
Layouts == {"lines", "tall", "flat"}

Hard(layout) == IF layout = "flat" THEN <<>> ELSE <<"eol">>
Soft(layout) == IF layout = "tall" THEN <<"eol">> ELSE <<>>

Braced(text, layout) == <<"{">> \o Hard(layout) \o text \o <<"}">> \o Hard(layout)

PrintedLine(d, layout) ==
  <<d.name>> \o Soft(layout) \o d.words \o <<IF d.words = <<>> THEN " ;" ELSE ";">>
    \o Hard(layout)

PrintedLines(ds, layout) ==
  FlattenSeq([i \in DOMAIN ds |-> PrintedLine(ds[i], layout)])

PrintedDirective(d, layout) ==
  IF d.name # "location" THEN PrintedLine(d, layout)
  ELSE <<d.name>> \o Soft(layout) \o d.words \o Braced(PrintedLines(d.inner, layout), layout)

PrintedDirectives(b, layout) ==
  FlattenSeq([i \in DOMAIN b |-> PrintedDirective(b[i], layout)])

PrintedBlock(b, layout) ==
  <<"server">> \o Soft(layout) \o Braced(PrintedDirectives(b, layout), layout)

Printed(file, layout) == FlattenSeq([i \in DOMAIN file |-> PrintedBlock(file[i], layout)])

\* The i-th of the directives ds may stand there, and has words enough, all of
\* them words it takes.
WellFormed(ds, i, allowed) ==
  LET d == ds[i]
      n == Len(d.words)
  IN /\ d.name \in allowed
     /\ d.name \in SingleDirectives \cup {"location"} => n = 1
     /\ d.name \in DOMAIN Takes => ToSet(d.words) \subseteq Takes[d.name]
     /\ d.name \in ListDirectives =>
          \E j \in 1 .. i : ds[j].name = d.name /\ ds[j].words # <<>>
     /\ d.name = "error_page" => n >= 2
     /\ d.name = "return" => n = 1 \/ n = 2

WellFormedBlock(b) ==
  \A i \in DOMAIN b :
    /\ WellFormed(b, i, InServer)
    /\ \A j \in DOMAIN b[i].inner : WellFormed(b[i].inner, j, InLocation)

\* All the words of the directives called name, in order.
Said(ds, name) ==
  FlattenSeq([i \in DOMAIN ds |-> IF ds[i].name = name THEN ds[i].words ELSE <<>>])

FirstPlace(list, w) == Min({i \in DOMAIN list : list[i] = w})

\* The settings of ds: the last single word, or every list word where it first came.
SaidBy(ds, set, unset) ==
  /\ \A name \in SingleDirectives :
       set[name] = IF Said(ds, name) = <<>> THEN unset[name] ELSE <<Last(Said(ds, name))>>
  /\ \A name \in ListDirectives :
       /\ ToSet(set[name]) = ToSet(Said(ds, name))
       /\ \A i, j \in DOMAIN set[name] :
            i < j => FirstPlace(Said(ds, name), set[name][i])
                       < FirstPlace(Said(ds, name), set[name][j])

\* The places in b of the directives called name.
Places(b, name) == {i \in DOMAIN b : b[i].name = name}

\* The page a block names for a status, "" if none; the last naming counts.
NamesPage(d, c) == d.name = "error_page" /\ c \in ToSet(Front(d.words))
PageOf(b, c) ==
  LET naming == {i \in DOMAIN b : NamesPage(b[i], c)}
  IN IF naming = {} THEN "" ELSE Last(b[Max(naming)].words)

-----------------------------------------------------------------------------
(***************************************************************************)
(* Properties of what is made of the files in Written.                     *)
(***************************************************************************)

(***************************************************************************)
(* Wherever its lines end, a file is accepted exactly when each of its     *)
(* directives is well formed and in its place, and what is read from it is *)
(* what was written (extract_server_block_info, processLocationBlock and   *)
(* the process functions).                                                 *)
(***************************************************************************)
FilesAreRead ==
  \A file \in Written, layout \in Layouts :
    LET text == Printed(file, layout) IN
    /\ Accepted(text) <=> \A i \in DOMAIN file : WellFormedBlock(file[i])
    /\ Accepted(text) => Parsed(text).blocks = file

(***************************************************************************)
(* A file that lacks one brace is refused, and so is one of several lines  *)
(* that lacks one semicolon: no directive lands in a block or a location   *)
(* it was not written in.  The opening brace of a location is not looked   *)
(* for (processLocationBlock skips one character there), so that this is   *)
(* so shows at the end of the file only.  Set apart is a file on a single  *)
(* line with a location whose first name is another one behind its first   *)
(* letter: for "location / xroot r; }" stands for "location / { root r; }" *)
(* there.                                                                  *)
(***************************************************************************)
Needed(layout) == {"{", "}"} \cup (IF layout = "flat" THEN {} ELSE {";"})

Hides(d) == d.inner # <<>> /\ Rest(d.inner[1].name) \in InLocation \cup {""}

Plain(file, layout) ==
  layout = "flat" => \A i \in DOMAIN file : \A j \in DOMAIN file[i] : ~Hides(file[i][j])

LackingAreRefused ==
  \A file \in Written, layout \in Layouts : Plain(file, layout) =>
    LET text == Printed(file, layout) IN
    \A i \in DOMAIN text : text[i] \in Needed(layout) => ~Accepted(RemoveAt(text, i))

(***************************************************************************)
(* What a block and its locations are set to is what was written last, or  *)
(* first for lists, and a location's settings stay its own.  The pages for *)
(* a status are read from the root the block has at its end, wherever in   *)
(* it the root directive stands, and one that cannot be read is none.      *)
(***************************************************************************)
SettingsAreSaid ==
  \A file \in Written : \A b \in ToSet(file) : WellFormedBlock(b) =>
    LET conf      == ConfigOf(b)
        locations == Places(b, "location")
        statuses  == UNION {ToSet(Front(b[i].words)) : i \in Places(b, "error_page")}
        place(c)  == <<Last(conf.set["root"]), PageOf(b, c)>>
    IN /\ SaidBy(b, conf.set, NewConfigText.set)
       /\ DOMAIN conf.pages = {c \in statuses : place(c) \in Files}
       /\ \A c \in DOMAIN conf.pages : conf.pages[c] = place(c)
       /\ Len(conf.locations) = Cardinality(locations)
       /\ \A i \in locations :
            LET l == conf.locations[Cardinality({k \in locations : k <= i})]
            IN SaidBy(b[i].inner, l.set, NewLocationText.set)

=============================================================================
