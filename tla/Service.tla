------------------------------ MODULE Service ------------------------------
(***************************************************************************)
(* What a request does: HttpRequest, CGIRequest and the checks of Request  *)
(* before them, for several connections that work on one directory tree.   *)
(* A connection looks at the file when it has the header (FileStat), acts  *)
(* when it has the body, and reads or writes the file in later steps; the  *)
(* steps of other connections come between.  How a message is received is  *)
(* the subject of ClientMessage, and the table of polled objects that of   *)
(* ServerLoop; requests that expect 100-continue are left to the former.   *)
(***************************************************************************)
EXTENDS Reply, FiniteSets, Integers

CONSTANTS
  Clients,     \* connections
  Names,       \* regular files, each by one path, a sequence of segments and slashes
  Dirs,        \* directories, likewise and without a slash at the end
  Leads(_),    \* the system: the file or directory a path leads to, if any
  Scripts,     \* the names of files whose extension has an interpreter (Executables)
  Present,     \* the files there at the start: a sequence of names and contents
  Bytes,       \* what files, bodies and script outputs are made of
  Hole,        \* what a file reads as where nothing was written
  Requests,    \* the requests peers send
  Outputs,     \* what scripts write, none of it empty
  Locations,   \* the location of each uri as it is spelled (ConfigSelect)
  Server,      \* what the server block says where a location does not
  BufferSize,  \* BUFFER_SIZE
  MaxRequests, \* bound: requests sent in a behaviour
  MaxFiles     \* bound: files ever made

Methods  == {"GET", "POST", "DELETE"}
Inodes   == 1 .. MaxFiles
Settings == [allow : SUBSET Methods, index : Seq(STRING), autoindex : {"", "on", "off"},
             limit : Int, redirect : BOOLEAN, type : STRING, target : STRING,
             root : Seq(STRING)]

NoRequest == [method |-> "", uri |-> <<>>, version |-> "", keep |-> TRUE, waits |-> FALSE,
              body |-> <<>>]

ASSUME ServiceAssumption ==
  /\ Names \cap Dirs = {}
  /\ Hole \notin Bytes
  /\ Present \in Seq([name : Names, contents : Seq(Bytes)])
  /\ \A i, j \in DOMAIN Present : Present[i].name = Present[j].name => i = j
  /\ \A u \in DOMAIN Locations : Locations[u] \in Settings
  /\ Server.root # <<>>
  /\ \A q \in Requests : /\ DOMAIN q = DOMAIN NoRequest
                           /\ q.uri \in DOMAIN Locations /\ q.body \in Seq(Bytes)
  /\ \A o \in Outputs : o.body \in Seq(Bytes) /\ (o.split \/ o.body # <<>>)
  /\ BufferSize \in Nat \ {0} /\ MaxRequests \in Nat
  /\ MaxFiles \in Nat /\ Len(Present) <= MaxFiles

VARIABLES
  entry,     \* the directory tree: the file each name leads to, 0 for none
  store,     \* the contents of files, also of those without a name
  conn,      \* the connections
  sent,      \* requests sent so far
  made,      \* history: how often each name came into being
  confirmed, \* history: how often the removal of each name was confirmed
  posted     \* history: contents each file was given or was to be given

disk == <<entry, store>>
hist == <<made, confirmed, posted>>
vars == <<disk, conn, sent, hist>>

\* A FileFD: its descriptor's file, _total and _data.  first is history: the
\* contents when the file was opened; so is alone: no POST was at work on the
\* file at any time since then, apart from this one.
NoWork == [file |-> 0, total |-> 0, data |-> <<>>, first |-> <<>>, alone |-> FALSE]

(***************************************************************************)
(* phase: waiting for a header or for the rest of a body, at work on a     *)
(* file, waiting for a script, replying, on hold for good, or gone.        *)
(* path, stat: _filestats.  knows: _config is set.  error: _state is       *)
(* ERROR.  scripted: the reply is a script's.  left: the peer has gone,    *)
(* the file is still worked on.                                            *)
(***************************************************************************)
NewConnection ==
  [phase |-> "header", request |-> NoRequest, path |-> <<>>, stat |-> "none",
   work |-> NoWork, response |-> NewResponse, knows |-> TRUE, error |-> FALSE,
   scripted |-> FALSE, left |-> FALSE]

Init ==
  /\ entry = [n \in Names |->
                IF \E i \in DOMAIN Present : Present[i].name = n
                  THEN CHOOSE i \in DOMAIN Present : Present[i].name = n ELSE 0]
  /\ store = [i \in Inodes |-> IF i \in DOMAIN Present THEN Present[i].contents ELSE <<>>]
  /\ conn = [c \in Clients |-> NewConnection]
  /\ sent = 0
  /\ made = [n \in Names |-> IF entry[n] # 0 THEN 1 ELSE 0]
  /\ confirmed = [n \in Names |-> 0]
  /\ posted = [i \in Inodes |-> IF i \in DOMAIN Present THEN {store[i]} ELSE {}]

-----------------------------------------------------------------------------
(***************************************************************************)
(* Configuration: a location's setting or, where it has none, its server's.*)
(***************************************************************************)

\* Faulty: an empty list allows everything (breaks OnlyTheAllowed).
AllowAny(uri) == IF Locations[uri].allow # {} THEN Locations[uri].allow ELSE Methods

Allow(uri) == IF Locations[uri].allow # {} THEN Locations[uri].allow ELSE Server.allow
Index(uri) == IF Locations[uri].index # <<>> THEN Locations[uri].index ELSE Server.index
Limit(uri) == IF Locations[uri].limit > 0 THEN Locations[uri].limit ELSE Server.limit
AutoIndex(uri) ==
  IF Locations[uri].autoindex # "" THEN Locations[uri].autoindex ELSE Server.autoindex

Root(uri) == IF Locations[uri].root # <<>> THEN Locations[uri].root ELSE Server.root

\* FileStat's first loop: no slash is left at the front.
Stripped(uri) ==
  LET others == {i \in DOMAIN uri : uri[i] # "/"} IN
  IF others = {} THEN <<>> ELSE SubSeq(uri, Min(others), Len(uri))

\* FileStat's path: the uri behind the root.  The location is that of the uri
\* as it came, so two uris of one file may have two locations.
FullPath(uri) ==
  LET root == Root(uri) IN
  (IF Last(root) = "/" THEN root ELSE Append(root, "/")) \o Stripped(uri)

Exists(name) == name \in Names /\ entry[name] # 0

\* FileStat: what a path leads to now.
Stat(path) ==
  CASE Leads(path) \in Dirs -> "dir"
    [] Exists(Leads(path))  -> "reg"
    [] OTHER -> "none"

\* Executables::isCgiRequest.
IsScript(path, stat) == stat = "reg" /\ Last(path) \in Scripts

-----------------------------------------------------------------------------
(***************************************************************************)
(* Replies.                                                                *)
(***************************************************************************)
Replies(k, r) == [k EXCEPT !.phase = "reply", !.response = r]

\* generateErrorResponse, for a message (pollin sets ERROR) and for a file.
Custom(k)         == IF k.knows THEN Server.pages ELSE {}
Error(k, code)    == ErrorReply(k.response, k.request, code, Custom(k))
Refused(k, code)  == [Replies(k, Error(k, code)) EXCEPT !.error = TRUE]
Failed(k, code)   == Replies(k, Error(k, code))
Done(k, code)     == Replies(k, Plain(k.response, k.request, code))

Refuse(c, k, code) ==
  /\ conn' = [conn EXCEPT ![c] = Refused(k, code)]
  /\ UNCHANGED <<disk, hist>>

-----------------------------------------------------------------------------
(***************************************************************************)
(* HttpRequest and CGIRequest, called by respond() with the message k of   *)
(* connection c complete.                                                  *)
(***************************************************************************)
Redirects(c, k) ==
  LET l == Locations[k.request.uri] IN
  /\ ~IsScript(k.path, k.stat) /\ l.redirect
  /\ conn' = [conn EXCEPT ![c] = Replies(k, Redirection(k.response, l.type, l.target))]
  /\ UNCHANGED <<disk, hist>>

\* The request is left to the method's handler.
Handled(k, method) ==
  /\ ~IsScript(k.path, k.stat)
  /\ ~Locations[k.request.uri].redirect
  /\ k.request.method = method

\* Whether a POST works on file i, or did until the reply it now sends.
Writes(k, i) == k.phase = "work" /\ k.request.method = "POST" /\ k.work.file = i

Opened(k, i, data, alone) ==
  [k EXCEPT !.phase = "work",
            !.work = [file |-> i, total |-> 0, data |-> data, first |-> store[i],
                      alone |-> alone]]

\* What GETRequest puts behind the path, and behind the uri: nothing for a
\* file, each index in turn for a directory.
Tails(k) ==
  IF k.stat = "dir"
    THEN [i \in DOMAIN Index(k.request.uri) |-> << Index(k.request.uri)[i] >>]
    ELSE << <<>> >>

Candidate(k, i) == Leads(k.path \o Tails(k)[i])

OpensToRead(c, k, i) ==
  LET file == entry[Candidate(k, i)] IN
  /\ conn' = [conn EXCEPT ![c] =
                Opened([k EXCEPT !.request.uri = @ \o Tails(k)[i]], file, <<>>,
                       \A d \in Clients : ~Writes(conn[d], file))]
  /\ UNCHANGED <<disk, hist>>

Lists(k) == k.stat = "dir" /\ AutoIndex(k.request.uri) = "on"

\* Autoindex: what the directory holds now.
Listing(dir) == <<"listing", {n \in Names : Exists(n) /\ Front(n) = Append(dir, "/")}>>

GetListed(c, k) ==
  /\ Handled(k, "GET") /\ Lists(k)
  /\ \/ /\ conn' = [conn EXCEPT ![c] =
              Replies(k, WithBody(Field(k.response, "Content-Type", "text/html"),
                                  k.request, Listing(Leads(k.path)), "200"))]
        /\ UNCHANGED <<disk, hist>>
     \/ \E code \in {"404", "500"} : Refuse(c, k, code)

\* The first candidate that is there ...
GetOpens(c, k) ==
  /\ Handled(k, "GET") /\ ~Lists(k)
  /\ \E i \in DOMAIN Tails(k) :
       /\ Exists(Candidate(k, i))
       /\ \A j \in 1 .. i - 1 : ~Exists(Candidate(k, j))
       /\ OpensToRead(c, k, i)

\* ... but open() may fail on a file that is there, for want of descriptors.
GetMisses(c, k) ==
  /\ Handled(k, "GET") /\ ~Lists(k)
  /\ Refuse(c, k, "404")

\* Faulty: O_TRUNC is missing (breaks ConfirmedIsStored).
TruncatedNot(c, k, i) ==
  /\ conn' = [d \in Clients |->
       IF d = c THEN Opened(k, i, k.request.body, \A x \in Clients : ~Writes(conn[x], i))
                ELSE [conn[d] EXCEPT !.work.alone = @ /\ conn[d].work.file # i]]
  /\ posted' = [posted EXCEPT ![i] = @ \cup {k.request.body}]
  /\ UNCHANGED <<store, confirmed>>

\* open() with O_TRUNC | O_CREAT: the file i is empty, whoever works on it.
Truncated(c, k, i) ==
  /\ store' = [store EXCEPT ![i] = <<>>]
  /\ conn' = [d \in Clients |->
       IF d = c
         THEN [Opened(k, i, k.request.body, \A x \in Clients : ~Writes(conn[x], i))
                 EXCEPT !.work.first = <<>>]
         ELSE [conn[d] EXCEPT !.work.alone = @ /\ conn[d].work.file # i]]
  /\ posted' = [posted EXCEPT ![i] = @ \cup {k.request.body}]
  /\ UNCHANGED confirmed

PostOverwrites(c, k) ==
  LET name == Leads(k.path) IN
  /\ Handled(k, "POST") /\ Exists(name)
  /\ Truncated(c, k, entry[name])
  /\ UNCHANGED <<entry, made>>

Fresh(i) == posted[i] = {} /\ \A j \in 1 .. i - 1 : posted[j] # {}

PostCreates(c, k) ==
  LET name == Leads(k.path) IN
  /\ Handled(k, "POST") /\ name \in Names /\ ~Exists(name)
  /\ \E i \in Inodes :
       /\ Fresh(i)
       /\ Truncated(c, k, i)
       /\ entry' = [entry EXCEPT ![name] = i]
  /\ made' = [made EXCEPT ![name] = @ + 1]

PostMisses(c, k) ==
  /\ Handled(k, "POST")
  /\ Refuse(c, k, "404")

\* Faulty: what FileStat saw is taken for the answer of remove()
\* (breaks OneDeleteEach).
DeletesAsSeen(c, k) ==
  LET name == Leads(k.path) IN
  /\ Handled(k, "DELETE") /\ k.stat = "reg"
  /\ entry' = [entry EXCEPT ![name] = 0]
  /\ confirmed' = [confirmed EXCEPT ![name] = @ + 1]
  /\ conn' = [conn EXCEPT ![c] = Done(k, "204")]
  /\ UNCHANGED <<store, made, posted>>

\* remove() is asked for what FileStat took for a regular file earlier.
Deletes(c, k) ==
  LET name == Leads(k.path) IN
  /\ Handled(k, "DELETE") /\ k.stat = "reg" /\ Exists(name)
  /\ entry' = [entry EXCEPT ![name] = 0]
  /\ confirmed' = [confirmed EXCEPT ![name] = @ + 1]
  /\ conn' = [conn EXCEPT ![c] = Done(k, "204")]
  /\ UNCHANGED <<store, made, posted>>

\* It is gone since (ENOENT), or another listed error.
DeleteFails(c, k) ==
  /\ Handled(k, "DELETE") /\ k.stat = "reg"
  /\ Refuse(c, k, "406")

\* An error that is not listed: nothing is sent.
DeleteHangs(c, k) ==
  /\ Handled(k, "DELETE") /\ k.stat = "reg" /\ Exists(Leads(k.path))
  /\ conn' = [conn EXCEPT ![c] = [k EXCEPT !.phase = "hold"]]
  /\ UNCHANGED <<disk, hist>>

DeleteMisses(c, k) ==
  /\ Handled(k, "DELETE") /\ k.stat # "reg"
  /\ Refuse(c, k, "404")

\* CGIRequest; the script's output is the business of ScriptEnds.
StartsScript(c, k) ==
  /\ IsScript(k.path, k.stat)
  /\ \/ /\ conn' = [conn EXCEPT ![c] = [k EXCEPT !.phase = "script"]]
        /\ UNCHANGED <<disk, hist>>
     \/ Refuse(c, k, "502")

Respond(c, k) ==
  \/ Redirects(c, k) \/ StartsScript(c, k)
  \/ GetListed(c, k) \/ GetOpens(c, k) \/ GetMisses(c, k)
  \/ PostOverwrites(c, k) \/ PostCreates(c, k) \/ PostMisses(c, k)
  \/ Deletes(c, k) \/ DeleteFails(c, k) \/ DeleteHangs(c, k) \/ DeleteMisses(c, k)

-----------------------------------------------------------------------------
(***************************************************************************)
(* ClientFD::pollin: the header, then the body, at once or later.          *)
(***************************************************************************)
TooLong(q) == Len(q.body) > Limit(q.uri)

\* Request::ValidateRequest, in its order.
Valid(q) ==
  /\ q.method \in Methods
  /\ q.method \in Allow(q.uri)
  /\ q.version = "HTTP/1.1"
  /\ ~(IsScript(FullPath(q.uri), Stat(FullPath(q.uri))) /\ q.method = "DELETE")

Refusal(q) ==
  IF q.method \in Methods /\ q.method \in Allow(q.uri) /\ q.version # "HTTP/1.1"
    THEN "505" ELSE "405"

\* findConfig, findLocation and FileStat have been called.
Accepted(k, q) == [k EXCEPT !.request = q, !.path = FullPath(q.uri),
                            !.stat = Stat(FullPath(q.uri)), !.knows = TRUE]

ReceivesHeader(c, q) ==
  LET k == Accepted(conn[c], q) IN
  /\ conn[c].phase = "header" /\ sent < MaxRequests
  /\ sent' = sent + 1
  /\ CASE ~Valid(q) -> Refuse(c, k, Refusal(q))
       [] Valid(q) /\ q.waits -> /\ conn' = [conn EXCEPT ![c] = [k EXCEPT !.phase = "body"]]
                                 /\ UNCHANGED <<disk, hist>>
       [] OTHER -> IF TooLong(q) THEN Refuse(c, k, "413") ELSE Respond(c, k)

\* A header too long, or one ParseRequest refuses once it has the method;
\* findConfig is not reached.
ReceivesJunk(c) ==
  /\ conn[c].phase = "header" /\ sent < MaxRequests
  /\ sent' = sent + 1
  /\ \/ Refuse(c, conn[c], "413")
     \/ \E code \in {"400", "405"}, method \in Methods :
          Refuse(c, [conn[c] EXCEPT !.request.method = method], code)

ReceivesBody(c) ==
  LET k == conn[c] IN
  /\ k.phase = "body"
  /\ IF TooLong(k.request) THEN Refuse(c, k, "413") ELSE Respond(c, k)
  /\ UNCHANGED sent

-----------------------------------------------------------------------------
(***************************************************************************)
(* FileFD::pollin and pollout, CgiFD::pollin.                              *)
(***************************************************************************)

\* The end of the work: a connection whose peer has gone is removed next.
Ends(c, k) == conn' = [conn EXCEPT ![c] = IF k.left THEN NewConnection ELSE k]

At(c, method) == conn[c].phase = "work" /\ conn[c].request.method = method

\* Faulty: the file is found by its name again (breaks QuietReadIsExact).
ReadsByName(c) ==
  LET w == conn[c].work
      file == entry[Leads(conn[c].path)]
  IN
  /\ At(c, "GET") /\ conn[c].stat # "dir" /\ file # 0
  /\ \E n \in 1 .. BufferSize :
       /\ w.total + n <= Len(store[file])
       /\ conn' = [conn EXCEPT
            ![c].work.total = @ + n,
            ![c].work.data = @ \o SubSeq(store[file], w.total + 1, w.total + n)]
  /\ UNCHANGED <<disk, sent, hist>>

Reads(c) ==
  LET w == conn[c].work IN
  /\ At(c, "GET")
  /\ \E n \in 1 .. BufferSize :
       /\ w.total + n <= Len(store[w.file])
       /\ conn' = [conn EXCEPT
            ![c].work.total = @ + n,
            ![c].work.data = @ \o SubSeq(store[w.file], w.total + 1, w.total + n)]
  /\ UNCHANGED <<disk, sent, hist>>

\* read() returns 0 at the end of the file, and beyond it.
ReadEnds(c) ==
  LET k == conn[c] IN
  /\ At(c, "GET") /\ k.work.total >= Len(store[k.work.file])
  /\ Ends(c, Replies(k, WithBody(k.response, k.request, k.work.data, "200")))
  /\ UNCHANGED <<disk, sent, hist>>

\* Faulty: the bytes go to the end of the file (breaks PositionKept).
Appended(s, n, b) == s \o b

\* Contents s with the bytes b put behind the first n places.
Overlaid(s, n, b) ==
  [i \in 1 .. IF Len(s) > n + Len(b) THEN Len(s) ELSE n + Len(b) |->
     IF i \in n + 1 .. n + Len(b) THEN b[i - n]
     ELSE IF i \in DOMAIN s THEN s[i] ELSE Hole]

\* write() at the descriptor's own place in the file; 201 when nothing is left.
WritesSome(c) ==
  LET k == conn[c]
      w == k.work
      left == Len(w.data) - w.total
  IN /\ At(c, "POST")
     /\ \E n \in 0 .. BufferSize :
          /\ n <= left /\ (n = 0 => left = 0)
          /\ store' = [store EXCEPT ![w.file] =
               IF n = 0 THEN @
               ELSE Overlaid(@, w.total, SubSeq(w.data, w.total + 1, w.total + n))]
          /\ LET moved == [k EXCEPT !.work.total = w.total + n] IN
             IF n = left THEN Ends(c, Done(moved, "201"))
                         ELSE conn' = [conn EXCEPT ![c] = moved]
     /\ UNCHANGED <<entry, sent, hist>>

FileFails(c) ==
  /\ conn[c].phase = "work"
  /\ Ends(c, Failed(conn[c], "500"))
  /\ UNCHANGED <<disk, sent, hist>>

ScriptEnds(c) ==
  LET k == conn[c] IN
  /\ k.phase = "script"
  /\ \/ \E o \in Outputs :
          conn' = [conn EXCEPT ![c] =
            [Replies(k, ScriptReply(k.response, k.request, o)) EXCEPT !.scripted = TRUE]]
     \/ conn' = [conn EXCEPT ![c] = Failed(k, "500")]
     \/ conn' = [conn EXCEPT ![c].phase = "hold"]      \* it wrote nothing
  /\ UNCHANGED <<disk, sent, hist>>

-----------------------------------------------------------------------------
(***************************************************************************)
(* ClientFD::pollout with the last byte sent, and the end of a connection. *)
(***************************************************************************)
Clean(k) == [NewConnection EXCEPT !.knows = FALSE, !.response = Cleaned(k.response)]

ReplySent(c) ==
  LET k == conn[c] IN
  /\ k.phase = "reply"
  /\ conn' = [conn EXCEPT ![c] =
       IF ~k.error /\ ~k.request.keep THEN NewConnection ELSE Clean(k)]
  /\ UNCHANGED <<disk, sent, hist>>

\* The peer goes, or time runs out.  A file is worked on to its end all the
\* same; that peers wait for scripts is assumed here (see ServerLoop).
Leaves(c) ==
  /\ conn[c].phase # "script" /\ ~conn[c].left
  /\ conn' = [conn EXCEPT ![c] =
       IF conn[c].phase = "work" THEN [conn[c] EXCEPT !.left = TRUE] ELSE NewConnection]
  /\ UNCHANGED <<disk, sent, hist>>

Next ==
  \E c \in Clients :
    \/ \E q \in Requests : ReceivesHeader(c, q)
    \/ ReceivesJunk(c) \/ ReceivesBody(c)
    \/ Reads(c) \/ ReadEnds(c) \/ WritesSome(c) \/ FileFails(c) \/ ScriptEnds(c)
    \/ ReplySent(c) \/ Leaves(c)

Spec == Init /\ [][Next]_vars

-----------------------------------------------------------------------------
(***************************************************************************)
(* Properties.                                                             *)
(***************************************************************************)

\* The kinds of the variables.
TypeOK ==
  /\ entry \in [Names -> Inodes \cup {0}]
  /\ \A i \in Inodes : store[i] \in Seq(Bytes \cup {Hole})
  /\ \A m, n \in Names : entry[m] = entry[n] /\ m # n => entry[m] = 0
  /\ sent \in 0 .. MaxRequests
  /\ \A c \in Clients :
       /\ conn[c].phase \in {"header", "body", "work", "script", "reply", "hold"}
       /\ conn[c].phase = "work" => conn[c].work.file \in Inodes
       /\ conn[c].work.total <= Len(conn[c].work.data)
       /\ conn[c].phase # "reply" => conn[c].response.out = NoString

Replying(c, code) ==
  conn[c].phase = "reply" /\ ~conn[c].scripted /\ conn[c].response.out.line[1].code = code

(***************************************************************************)
(* A file is read with the contents it had when it was opened, whoever     *)
(* deletes it or makes another of that name meanwhile, if no POST is at    *)
(* work on it (FileFD reads through its descriptor).                       *)
(***************************************************************************)
QuietReadIsExact ==
  \A c \in Clients :
    Replying(c, "200") /\ conn[c].work.alone =>
      conn[c].response.out.body = conn[c].work.first

(***************************************************************************)
(* POSTs to one file truncate it under each other and write by turns, each *)
(* at its own place (FileFD::pollout): what is read from the file, then or *)
(* later, may be a mixture, but every byte is where some body had it, or   *)
(* where the file had it before, or is a hole.                             *)
(***************************************************************************)
InPlace(s, i) ==
  \A p \in DOMAIN s :
    s[p] = Hole \/ \E b \in posted[i] : p \in DOMAIN b /\ s[p] = b[p]

PositionKept ==
  /\ \A i \in Inodes : InPlace(store[i], i)
  /\ \A c \in Clients : conn[c].work.file # 0 => InPlace(conn[c].work.data, conn[c].work.file)

(***************************************************************************)
(* When 201 is on its way the file holds the body and nothing else, if no  *)
(* other POST has been at work on it: no tail of a longer file is left.    *)
(***************************************************************************)
ConfirmedIsStored ==
  \A c \in Clients :
    Replying(c, "201") /\ conn[c].work.alone =>
      store[conn[c].work.file] = conn[c].request.body

(***************************************************************************)
(* A removal is confirmed once for each time the file came into being,     *)
(* however many connections saw it (FileStat) before remove() was called.  *)
(***************************************************************************)
OneDeleteEach ==
  \A n \in Names : confirmed[n] + (IF Exists(n) THEN 1 ELSE 0) = made[n]

\* What goes with a status: what was read or listed, the page of the status, or
\* nothing.  505, which HttpStatus does not list, has the page of 500.
ErrorCodes == {"400", "404", "405", "406", "413", "500", "502", "505"}

BodyFor(k, code) ==
  CASE code = "200" -> IF k.work.file # 0 THEN k.work.data
                                          ELSE <<"listing", k.response.out.body[2]>>
    [] code \in ErrorCodes -> IF code \in Custom(k) THEN <<"custom", code>>
                              ELSE <<"page", IF code = "505" THEN "500" ELSE code>>
    [] OTHER -> <<>>

Fits(k) ==
  LET out  == k.response.out
      code == out.line[1].code
  IN /\ Len(out.line) = 1 /\ (code # "505" => out.line[1].reason = code)
     /\ out.body = BodyFor(k, code)
     /\ "Content-Length" \in DOMAIN out.header =>
          out.header["Content-Length"] = Len(out.body)
     /\ code = "200" /\ k.work.file # 0 /\ out.body # <<>> =>
          out.header["Content-Type"] = MimeType(k.request.uri)

(***************************************************************************)
(* A reply has nothing of an earlier request on the connection or of an    *)
(* earlier stage of this one: one status with its phrase (505 has that of  *)
(* 200), what belongs to that status, and the length of what is sent       *)
(* (Response, ClientFD::clean).  Scripts may say what they like.           *)
(***************************************************************************)
ReplyFits ==
  \A c \in Clients : conn[c].phase = "reply" /\ ~conn[c].scripted => Fits(conn[c])

\* The empty line behind the header is in every reply: createResponseString
\* calls it the mark of the end of the header.
HeadIsEnded == \A c \in Clients : conn[c].phase = "reply" => conn[c].response.out.ended

(***************************************************************************)
(* A file comes, goes or changes only by a request for it with POST or     *)
(* DELETE, in the step of that request's connection, where the location of *)
(* the uri the request came with, or the server for a location that names  *)
(* no methods, allows the method and nothing redirects.  The location is   *)
(* asked with the header, the file is found through the root and the uri   *)
(* without its slashes (FileStat), opened or removed after the body, and   *)
(* written later, whatever its name leads to by then.                      *)
(***************************************************************************)
Permits(uri, method) ==
  /\ ~Locations[uri].redirect
  /\ method \in Locations[uri].allow \/ (Locations[uri].allow = {} /\ method \in Server.allow)

Asks(q, method, n) ==
  /\ q.method = method /\ Permits(q.uri, method)
  /\ Leads(FullPath(q.uri)) = n

ByRequest(method, n) ==
  \E c \in Clients :
    /\ conn'[c] # conn[c]
    /\ Asks(conn[c].request, method, n) \/ Asks(conn'[c].request, method, n)

OnlyTheAllowed ==
  [][\A n \in Names :
       /\ entry'[n] # entry[n] => ByRequest(IF entry'[n] = 0 THEN "DELETE" ELSE "POST", n)
       /\ Exists(n) /\ store'[entry[n]] # store[entry[n]] => ByRequest("POST", n)]_vars

=============================================================================
