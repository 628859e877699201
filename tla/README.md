# A verification project for viroli_webserv

viroli_webserv is an HTTP/1.1 server in C++: one thread, one `poll()` table,
everything non-blocking. This directory holds TLA+ modules that model it, TLC
configurations that check them on small instances, and proofs that the TLA+
proof system checks for every instance. `PROJECT.json` maps each definition to
the lines it models and lists the runs, the faulty variants that the properties
must catch, the hazards of the code and the theorems.

Paths are relative to `src/code/source_files` unless they say otherwise.

## 1. The system

| Component | State | Operations | Modelled in |
|---|---|---|---|
| Server loop (`server/Server.cpp`, `main.cpp`, `ipollable/PollableFactory.cpp`) | the parallel vectors `_pollables` and `_pfds`, the loop variable | `run`, `remove`, `createPollable`, `clear` | PollTable, ServerLoop |
| Listening sockets (`ipollable/ServerFD.cpp`) | a descriptor | `pollin` accepts | ServerLoop |
| Connections (`ipollable/ClientFD.cpp`) | `_state`, `_inbound`, `_body`, `_outbound`, counters, `_tick`, `_closed`, `_file_open`, `_index` | `pollin`, `pollout`, `timeout`, `setClosed`, `respond`, `setupResponse`, `clean` | ServerLoop, ClientMessage, Transfer, Service |
| Files (`ipollable/FileFD.cpp`) | `_data`, counters, `_tick`, `_closed`, `_client` | `pollin` reads, `pollout` writes, `timeout`, `setClosed` | ServerLoop, Transfer, Service |
| CGI output (`ipollable/CgiFD.cpp`, `cgi/Cgi.cpp`) | the same, on the file the script writes | `pollin`, `timeout`, `setClosed`, `execute` | ServerLoop, Transfer |
| Request parsing (`request/Request.cpp`) | the header map and what is derived from it | `ParseRequest`, `ValidateRequest`, `clean` | ClientMessage, Service (partly) |
| Request handlers (`request/HttpRequest.cpp`, `request/CGIRequest.cpp`) | none that lasts | GET, POST, DELETE, redirect, listing, CGI | Service, ServerLoop |
| Responses, status pages (`response/Response.cpp`, `HttpStatus.cpp`) | `_statusLine`, `_responseHeader`, `_messageBody`, `_responseString` of each connection | `generate*Response`, `clean` | Reply, Transfer |
| Directory listing, `FileStat` (`autoindex/Autoindex.cpp`, `utils/FileStat.cpp`) | the path of a request and what it led to when the header came | `FileStat`, `Autoindex` | Service (partly) |
| Configuration (`config/ConfigParser.cpp`, `config/Config.cpp`, `server/Location.cpp`) | blocks, locations, the map from ports to blocks | one function per directive, `findConfig`, `findLocation` | ConfigText, ConfigSelect, Configuration, Service |
| Utilities, MIME types, dates | none | pure helpers | as far as a definition needs them |

How they interact. `main` parses the file, makes one `Server` per port and
enters the loop. A `ServerFD` accepts a connection and the factory appends a
`ClientFD` to both vectors. The `ClientFD` collects a message, asks `Server` for
the block and the location, puts its slot on `POLLHOLD` (an empty event mask) and
creates an `HttpRequest` or `CGIRequest`, which replies at once or appends a
`FileFD` or `CgiFD` that points back at the connection (`_client`). When that
worker is done it installs the response on the connection through the
connection's `_index` and marks itself closed; the loop removes it at its next
visit, by exchanging its slot with the last one.

What is hard here. Nothing runs in parallel inside the process, and yet:

* objects move between slots in the middle of a scan, and `_index` is how a
  worker finds the connection's slot;
* `revents` are read before the scan and used throughout it;
* a worker holds a raw pointer to a connection which may be closed by its peer,
  by an error or by a timeout; the flag `_file_open` and two clocks, renewed by
  different calls, are all that keeps the connection alive;
* `recv`, `send`, `read` and `write` move any number of bytes;
* a CGI script writes a file while the server reads it;
* several connections work on the same files: what `FileStat` saw with the header
  is used after the body has come, and a POST truncates a file others are reading;
* one connection carries many requests, and everything a request leaves behind
  (counters, buffers, unread bytes) is seen by the next one.

What makes each part correct: both vectors agree and nobody is skipped (loop);
a closed connection is removed, and not before the last use of a pointer to it
(life cycle); a connection on hold is answered or dropped (liveness); the body
handed on is the body sent, within the limits, once (messages); one final reply
for each request (exchange); a reply is whole or an error (transfer); a reply
that confirms something is true, only what is allowed is done, and nothing of one
request is in the reply to another (service); the file is read as it was written,
and a request reaches the block and the location it names (configuration).

## 2. Modules

* **PollTable** - the two vectors as operators on sequences: append, exchange with
  the back and pop.
* **ServerLoop** - `Server::run`. One visit to a slot is one step, and between two
  steps the kernel, the peers and the clock move. The actions are the branches of
  a visit: removal (`RetireClient`, `RetireWorker`), a closed connection kept for
  its file (`KeepForFile`), `Idle`, `SocketError`, and each outcome of a handler.
  `_tick` is an age in seconds, cut off one second above the timeout. Descriptors
  are identified with their objects, apart from the -1 of a failed `open()`.
  Two variables are history: `turn`, who is still owed a visit in this scan, and
  `fault`, set when a handler follows a pointer to a deleted `ClientFD`. After a
  fault nothing more happens, as nothing is known of the process.
* **ClientMessage** - one connection and the bytes on it. `ReceiveHeader`,
  `ReceiveLength`, `ReceiveChunked` are functions from a connection to a
  connection, as they run inside one call of `pollin`; `Pollin`, `Complete` and
  `Pollout` are the steps. Bytes come in units the code does not look into (a
  line, a CRLF, the digits of a size, a byte of data). The peer sends whole requests
  one after the other; one that was refused its 100 and leaves the body out sends
  nothing more, as the server would take the next header for the body. What
  `ParseRequest` reads of a header is how the body is sent (`FramingAssumption`): with
  a length, in chunks (`InChunks`) or not at all. A length that is lost because it
  is the last field is not such a message; that loss is what HeaderLast shows, for
  another field.
* **Exchange** - the abstract specification of a connection for a peer that waits
  for its replies: asked, handled at most once, answered once, closed only with a
  reply. ClientMessage refines it; `Promise` gives the mapping.
* **Transfer** - the bytes of one exchange: file to reply, body to file, script
  output to reply, with every partial read, write and send. The head of a reply
  is one unit; `CgiBody` is what `generateCGIResponse` takes for the body.
* **Reply** - the `Response` object as operators: a response goes in with what is
  left of an earlier use, one comes out, and its field `out` is the string sent,
  taken apart into status line, header, end of header and body. No state.
* **Service** - what requests do, for several connections on one directory tree:
  `FileStat` and `ValidateRequest` with the header, `HttpRequest` or `CGIRequest`
  with the body, then reads and writes one call at a time. A request comes with a uri,
  which is looked up in `Locations` as it is spelled. Its path is the root of that location,
  or of the server, with the uri behind it, without the slashes the uri begins with
  (`FullPath`); where the system gets to along a path is `Leads`, an operator constant. So
  the uris `/d/x` and `//d/x` have one file and may have two locations, and the uris of the
  instance are of that kind. A name, the one spelling that stands for a file, leads to it
  (`entry`) and a file has contents (`store`), so a file may go on being read
  after it was deleted, as an open descriptor does. Four things are history: how
  often a name came into being (`made`), how often its removal was confirmed
  (`confirmed`), the bodies given to a file (`posted`), and in each descriptor what
  the file held when it was opened and whether a POST was at work there since
  (`first`, `alone`).
* **ConfigText** - a configuration file as the sequence of tokens the parser goes
  over, and the fields of `Config` and `Location` that the directives set. `Run` feeds
  the reader (`Read`) a text token by token, `Settings` and `LocationOf` go over the
  directives it found. `Layouts` writes the same directives on lines, spread out and
  all on one line. It has no state: `Files` are the error pages there are, `Takes` the words
  that pass the tests of the directives that look at theirs (a path, a switch, a size, a
  port or an address for `listen`), `Rest` a word without its first letter, which is what
  the parser goes on with where it expects the brace of a location, and `Written`
  the files the properties speak of, which may be all there can be.
* **ConfigSelect** - the parser's server blocks directive by directive (`listen`,
  `server_name`, `location`), the end-of-block checks, the start and the choice of
  block and location for a request. A path is a sequence of characters, because
  `starts_with` and the sort weight count characters. Uris are any such sequences: nothing in
  `ParseRequest` asks for a slash in front, and `findLocation` gives a uri that fits no
  location the first one, that of the root.
* **Configuration** - both halves of the parser: what ConfigText says of the files is
  stated where ConfigSelect is about to read one.
* **MCServerLoop, MCClientMessage, MCTransfer, MCService, MCConfigSelect** -
  instances for TLC.
* **ServerLoopProofs** (and PollTable) and, on top of it, **LoopConnectionProofs**;
  **ClientMessageProofs** and, on top of it, **ExchangeProofs**; **TransferProofs**;
  **ServiceProofs**; **ConfigSelectProofs** and **ConfigTextProofs** - theorems and proofs.

ServerLoop, ClientMessage, Transfer and Service show the same objects from four
sides. What the first leaves open (whether a message is complete, which reply it
gets) is nondeterministic there and decided in the second and the fourth; what
the second takes as one step (`Complete`, a whole reply in `Pollout`) is cut up in
the third and the fourth. The third has one exchange with every partial call and
the buffers of both sides; the fourth has many, and the files between them.

## 3. Runs

| Run | Asks | Instance |
|---|---|---|
| LoopFiles | TypeOK, VectorsAgree, NobodySkipped, OpenFileIsServed, ReplyIsArmed, OnlyTheClosedLeave | 2 connections, 1 file, timeout 1, broken connections with unread bytes and socket errors |
| LoopLive | ClientOutlivesUse, OneWorker, ClosedAreRemoved, HoldEnds | 1 connection, 2 files, 1 script, timeout 2, every way to end but unread bytes, peers that wait for scripts |
| LoopCgiLost | CgiHasItsClient, violated | 1 connection, 1 script, resets |
| MessageLimits | TypeOK, BodyIntact, LimitsHold, HandledOnce | an eager peer, 8 kinds of request, too long and malformed ones included |
| MessageExchange | ExchangeKept | a peer that waits, requests without chunks |
| MessageExpect | ReadyForNext, violated | a POST with `Expect: 100-continue` |
| HeaderLast | CloseIsHonoured, violated | a GET that ends in `Connection: close` |
| TransferWhole | TypeOK, WholeOrRefused, OneReply, Ends | GET, POST and CGI, contents of 0, 2 and 5 bytes, buffer of 2 |
| CgiTruncated | OutputIsWhole, violated | CGI with the same contents |
| Service | TypeOK, QuietReadIsExact, PositionKept, ConfirmedIsStored, OneDeleteEach, ReplyFits, OnlyTheAllowed | 3 connections, 3 requests out of 20, 5 files, buffer of 2 |
| ReplyUnended | HeadIsEnded, violated | the same |
| ConfigSelect | TypeOK, PortMapAgrees, HostIsServed, LocationFits; FileIsRead, MissingIsRefused, SettingsAreWritten | 2 blocks, 2 ports, up to 2 listens and 3 locations each; files of up to 3 directives in 3 layouts |

### Bounds

* Two connections and one or two workers are enough for the exchange of `remove`
  to move a connection, a file of another connection, or nothing, before or after
  the slot being visited; a third moves in the same way. LoopLive has one
  connection, with two files so that one can be at work while the other is being
  removed; the same properties also hold with two connections, a file and a
  script (3.9 million states, too long to keep as a run).
* `Timeout` is in units of what the clock can advance in one scan (`ScanTime`, 1).
  With `Timeout` 1 a connection may expire within two scans; with 2 or more the
  loop comes round twice before anything times out, the case of a loop that
  never sleeps and a timeout of five seconds. ClientOutlivesUse needs the latter: if a
  scan took longer than the timeout, `FileFD::timeout` could close a file after
  its connection is gone. LoopFiles makes that happen and checks that the table
  stays right up to that moment.
* Contents of none, exactly one buffer and more than two buffers, with any
  partial call, reach each case of `BUFFER_SIZE > _left`.
* Three connections and three requests let a file be deleted or truncated by a
  second connection while a first is at work on it and a third asks for it by name;
  connections are alike, so they are permuted. One file that may only be read has a
  second uri, with a slash too many, under which it may be written, and one is also asked
  for through `..`. The bodies differ in every place
  and are shorter and longer than the file. Three files to begin with leave two
  that POSTs may make, so a name can come into being twice. A kept connection
  has several of the three requests, so that what one leaves behind would be seen.
* The files of ConfigText (`Written`, for which MCConfigSelect has `Samples`) have up to
  three directives, so that each kind of directive follows and is followed by each other,
  and a location up to two; well-formed and ill-formed ones are among them, a `listen`
  with a word that is no port, and names that are a directive behind their first letter or
  have no other. As ConfigText has no state, its properties are evaluated for all files in
  the initial state of ConfigSelect.
* `MaxSent`, `MaxHeader`, `MaxBody` let requests follow one another (three of them
  in MessageLimits and MessageExchange), a header be too long and a body be too long
  by one.
* In ConfigSelect one request is made per behaviour: it changes only `found`.

### Fairness

`Server::run` polls with a zero timeout and scans for ever, so `Poll` and the
visits are weakly fair, and so is the clock. `FileEnds` is strongly fair: a
regular file is always ready, each visit moves it on and it has an end. `CgiEnds`
is strongly fair only where it is enabled again and again, that is, once the
script has written something; a script that writes nothing is not assumed to
end, and HoldEnds then rests on the timeouts. In ClientMessage and Transfer the
handlers and the worker are weakly fair, the peer sends the rest of a body it has
begun, and a script gets to the end of its output. Nothing is assumed of `send`
or of peers that stop.

`Patient` is not fairness but belongs here: with it, a peer does not end the
connection while a script works for it. The code has nothing that keeps the
connection of a script, as LoopCgiLost shows, so what is said of scripts in
LoopLive is said under that assumption.

### What the runs found

* `LoopCgiLost`: a CGI request never sets `_file_open`. A reset deletes the
  connection under a running script, and the `CgiFD` follows its `_client`.
* `MessageExpect`: after the final reply to a POST that expected 100-continue,
  `pollout` takes the branch of the 100 reply again and waits for a body.
* `HeaderLast`: the last header field is never stored, so a `Connection: close`
  there is ignored (and a `Content-Length` there makes the body unreadable).
* `CgiTruncated`: the present end of the output file is taken for the end of the
  output.
* `ReplyUnended`: the empty line that ends a header is sent only with a body, so a
  201, a 204, a redirection or an empty file is a reply without an end.

Further behaviours met while modelling, without a run of their own:

* the CRLF after the last chunk is taken for a part of the next header, and after
  an error reply the rest of a refused body is read as a header;
* after the 100 reply to a POST that also says `Connection: close`, `pollout` looks at
  `Connection` first and closes the connection before the body has come;
* two scripts whose output file cannot be opened share descriptor -1, and `remove`
  then deletes the last object instead of the one it was asked to remove; one
  such script is never read, so its connection, whose clock is as old, may time out
  and be deleted first in the same scan, and `CgiFD::timeout` follows its pointer
  (with `OpenFails = TRUE` TLC finds both; runs and theorems take it to be `FALSE`);
* 505 is not in the table of statuses: it goes out with the phrase of 200 and the
  page of 500;
* a directive with one value refuses a blank before its semicolon while a list
  accepts it;
* where a location's opening brace belongs, one character is dropped, whatever it is, and
  reading goes on behind it: `location / xroot r; }` and `location / x root r; }` are
  accepted and mean `location / { root r; }`. FileIsRead is about files printed with their
  braces, and MissingIsRefused sets apart the one case in which a file without one is
  accepted (`Hides`: on a single line, as a line end there is refused). Without that
  condition TLC finds the property violated;
* the location of a request is found by the uri as it came, and its file by the uri
  without the slashes in front and with `..` left to the system. A file is therefore as open
  as the most open location of any of its uris: in the instance of MCService `POST //d/x` is
  allowed and truncates a file whose uri `/d/x` may only be read. OnlyTheAllowed holds each
  request to the location of its own uri and says nothing of the others;
* a reset with bytes unread makes `Server::run` call `pollin` on a connection that has a
  reply to send; `respond` puts it on hold with the reply unsent, and the reply goes out
  only if a worker arms the connection once more. ReplyIsArmed says that nothing else can
  take a reply off `POLLOUT`; OneWorker is checked and proved without such resets;
* a size with a suffix is multiplied without a check for overflow;
* a `listen` with an address alone is never served; a `/` location late in a block
  is refused for sorting behind a shorter weight.

## 4. Proofs

TLC checks small instances; the proofs below hold for every value of the constants that
satisfies the named assumptions (`LoopAssumption`, `MessageAssumption`,
`FramingAssumption`, `TransferAssumption`, `ServiceAssumption`, `ConfigAssumption`,
`TakesAssumption`, `WrittenAssumption`), which TLC evaluates in each run of their module;
of the operator constants `Leads` and `Rest` nothing is assumed. Each invariant below was
checked with TLC before it was proved; for `MessageInv`, which says that there are a
sequence and places in it, with the ones that `sent` gives put in their stead.

### The table and the loop

The two modules about ServerLoop build one invariant in layers, each proved with
the help of those before it.

* `TableIsCorrect` (`LoopIsTyped`): `Spec => [](TypeOK /\ VectorsAgree)`, without
  further assumptions. VectorsAgree is not inductive alone: which object a slot
  holds depends on fresh addresses, and `Free` speaks of owners, so type
  correctness and facts about `owner` and `unopened` go with it (`TableInv`).
  The lemmas on `SwapPop`, `PopBack` and `Append` say what they leave in each slot,
  and that nobody occurs twice.
* `ScanIsComplete`: `[]NobodySkipped`, and `RemovalIsRight`: `OnlyTheClosedLeave`,
  both when `open()` of the output files succeeds. Then the descriptors in the
  table differ and the test at the head of `remove` skips the exchange only for
  the last slot (`ScanInv`).
* `FileIsThere` and `ReplyIsPolledFor`: `[]OpenFileIsServed` and `[]ReplyIsArmed`, when
  `open()` of the output files succeeds. `respond` leaves an earlier reply where it is
  (`Held`), so a reply may be on hold, but only on a connection reset with bytes unread.
  `FlowInv` adds that a closed object is in the table and that an address no object lives
  at has no reply and no open file: a new connection is made at such an address and must
  begin clean.
* `WorkIsExclusive`: `[]OneWorker`, if no peer resets a connection with bytes
  unread. A second worker could only come from a second `respond()`, so `WorkInv`
  says when `pollin` of a connection on hold can be called at all: POLLHUP and
  POLLERR are returned whatever is asked for (`BusyIsHeld`), and then `recv()` fails.
* `ConnectionOutlivesUse`: `[]ClientOutlivesUse`, if in addition peers are patient
  and two scans fit in the timeout (`ScanTime + ScanTime <= Timeout`). `LifeInv`
  compares clocks: the age of a worker and of the connection it answers is at most
  what was left of the last scan, if the worker is still to be visited, plus what
  has passed of this one (`Bound`). A file keeps its connection by `_file_open`
  until it is closed, and a closed file is removed at its next visit, before it
  can be old enough to time out and follow the pointer once more. A script keeps
  nothing: its connection stays because `CgiFD::pollin` renews both clocks at every
  visit, and because the connection, once it has the reply, is not given
  another worker before the script's slot has been visited and removed
  (`ScriptLife`). Each assumption is needed: without it TLC finds a fault.

### Messages on one connection

ClientMessageProofs is about any messages, limits and sizes of `recv()`, eager peers
included. One invariant, `MessageInv`, gives `ConnectionIsTyped`, `BodiesAreIntact`,
`LimitsAreKept` and `RequestsComeOnce`, each under `~Reuses`: no request follows one that
expects 100-continue. The hypothesis is needed. After such an exchange `pollout` leaves
the connection waiting for a body (MessageExpect), so with `Reuses = TRUE` the next
header is taken for a body, and TLC finds all four violated in an instance of that kind.

The four are far from inductive: they say nothing of where on the connection the
`ClientFD` is. MessageInv says that there is one sequence `S` of units with message
`i` behind `at[i]` (`Laid`), such that what is not received is what follows the first `e`
units (`Fed`) and `_inbound` is a piece of it (`Holds`); and that each handled request
is a message of its own, in order (`Placed`). `Stage` then gives, for each state of
the connection, the place up to which it has read:

* `Waiting` for a header: nothing of what is handled comes from behind the place
  read. With a chunked message before it that place may be a CRLF short of the
  next header, and the header is refused; it is never a place inside a handled one.
* `Receiving` message `i`, which nobody has handled: `_body` and the counters are
  what `q` units of its body make of them (`InBody`). For chunks that is either
  before a size line (`AtSize`), inside a chunk (`InChunk`) or at the end.
* `Continuing`, `Answering`, `Refusing`, `Spent`: with the 100, the worker, an error
  page, or after the reply to a message that expected 100-continue.

The loop of `receiveChunked` is a recursive function of the number of turns. The
library's induction cannot be used with the provers at hand, but what the loop
preserves can be had without it: were there a number of turns after which the
connection is not within its message, there would be a least one, by the
well-foundedness of the natural numbers, and a turn keeps it there (`TurnsExist`,
`ChunkedKeeps`).

`PromiseIsKept` (ExchangeProofs) is the safety part of the refinement: every step of
ClientMessage is a step of Exchange or leaves its variables alone, for any number of
messages of any length. The inductive invariant, `TurnInv`, says that either all requests are
answered and nothing is on the way (`Idle`), or one is pending and its header, its body, its
100, its worker or its reply is what the connection is at (`Pending`). It holds for
peers that wait (`WaitingPeer`) with messages the server can take (`Manageable`).
MessageExchange is an instance, and TLC shows what the clauses are for: a header longer
than `MaxHeader`, a body in chunks, or a refused header with a body leaves units on the
wire that are taken for another request and answered once more, as does a
body that is much too long; and a POST with both `Connection: close` and
`Expect: 100-continue` is closed without a final reply.

### Transfers

* `TransferIsTyped`, `TransferIsWhole` (`ReplyIsOne`): `[](TypeOK /\ OneReply /\
  WholeOrRefused)`, for every content and every buffer size. The strengthening, `TInv`,
  says what the counters mean: what a file has given so far, what of a body is on the disk
  and what of a reply is sent is the piece of the source that `_total` measures, and
  `_total + _left` is its length. Lemmas join adjacent pieces (`PieceJoins`) and say what
  a new reply looks like (`RespondShape`).

### Requests on shared files

ServiceProofs is about any number of connections, names, requests and
configurations. One invariant, `SiteInv`, gives six theorems: `ServiceIsTyped`,
`ReadsAreExact`, `BytesStayInPlace`, `CreatedIsStored`, `DeletesAreOnce` and
`ChangesAreAllowed`. Its parts:

* `Reading`: what a GET has read is, while it is alone at the file, the beginning
  of what the file held when it was opened, and the file has not changed.
* `Posting`: what a POST has written is, while it is alone, all the file holds; and if the
  file still has a name, it is the one the request's own path leads to and its location
  permits the POST (`Asks`). The last is why a descriptor opened by one request never writes
  to a file that is not the one the request was let through for, whatever was deleted and
  made anew since. `Good` keeps the path a connection with a body to come found with
  its header, and nothing is assumed of `Leads`.
* `Exclusive`: nobody writes to a file another connection counts as alone on. This
  is what joins the connections: a writer's step can be set against what every
  other connection relies on (`OthersKeep`).
* `Placed`: every byte of a file, and of what was read from it, is where one of the
  bodies given to the file had it. Writing at a place of one's own (`WriteMore`) and
  reading on (`ReadMore`) keep it.
* `DiskOK`: a file has at most one name and a file with a name has been given
  contents, so a new file has neither a name nor a worker.
* `Truthful`: what a reply says was true when it was made and stays true while
  nobody else writes.

`RepliesFit` adds ReplyFits: SiteInv says that a `Response` is as new whenever no
reply is being sent, and then each way to make one (`PlainFits`, `WithBodyFits`,
`RedirectionFits`) leaves one status line, the body that goes with it and its length.
It holds for any table of statuses that has those the server sends, but not 505, as
the one of `HttpStatus` does, and if redirections are given a listed status of
their own (`StatusTable`). The parser does not ask for the latter: a redirection may
have no status at all, and then goes out with an empty one and the phrase of 200.

### The configuration

ConfigSelectProofs is about any number of blocks, ports, names and locations. One
invariant, `SelectInv`, gives `SelectIsTyped`, `PortMapIsRight`, `HostFindsItsBlock`
and `UriFindsItsLocation`.

* PortMapAgrees is kept by every directive as it stands: a port is filed only when
  the block does not list it yet, and the block being read is the last of the file,
  so what is appended is new and greater than what is there. An address
  alone lists `DEFAULT_PORT` and files nothing, so that port is set apart (`Exact`).
* `BlocksAreReady` says that a closed block begins with the root's location and that its
  weights do not fall. The first is what `findLocation` falls back to for a uri that fits
  no location, as one without a slash. With the second, the last location that fits has
  the greatest weight of those that fit; a location inside it is longer, so it stood
  earlier in the file. Nothing else is needed of the sort.
* `FoundIsLate`: a request comes once the file is read, so no directive can spoil
  what it was given.
* `FindConfig` and `FindLocation` are the least and the greatest place that passes a
  test; both exist because the order of the natural numbers is well-founded.

### The text of a configuration

ConfigTextProofs is about files of any number of blocks, directives and words, with any
names and words but those that are signs, in each of the three layouts (`Written` may
be all of `Seq(Seq(OuterDirective))`), and about any pages on the disk.

* `FileRead` (`FilesRead`): `Spec => []FileIsRead`. A file is accepted exactly when every
  directive in it is well formed where it stands, which asks of the words of `listen`,
  `root`, `autoindex`, `client_max_body_size` and `location` that the directive takes them
  (`Takes`, any sets of words), and then the reader ends with the very blocks that were
  written.
* `MissingRefused` (`LackingRefused`): `Spec => []MissingIsRefused`. Whatever brace is
  taken out, or whatever semicolon if lines end behind directives, the file is refused, for
  any `Rest`; set apart are files on one line with a location that `Hides` a name.
* `SettingsWritten` (`SettingsSaid`): `Spec => []SettingsAreWritten`. The fields of a
  well-formed block and of its locations are what its directives say.

The module begins with induction. The library's theorems cannot be instantiated, but
for a *set* of numbers or sequences induction follows from the well-foundedness of the
natural numbers (`NatInduct`, `SeqInduct`): a set that has the empty sequence, and with
each sequence the ones longer by one element, has them all. With it, `Run`, `FlattenSeq`,
`Merged`, `LocationOf` and `Settings`, which are recursive functions inside, are shown to
exist (`RunExists`, ...) and to obey the equations the rest needs: `RunConcat`, reading
`a \o b` is reading `b` from where `a` leads to, and `MapFlattens`, a text printed from one
more directive is the text so far and that directive's.

Reading is then followed part by part, from any state of the reader in front of the part:
the words of a line, a line (`LineIsRead`), the lines of a location, a location, the
directives of a block, a block, a file. Each lemma says that the reader takes the part if
it is well formed and is `refused` if not; `refused` is never left (`RunRefused`). What
makes this go through a list of directives is that `WellFormed` looks only at earlier
directives, so that a longer list is well formed exactly if its beginning is and the last
one is enough (`EnoughIsWellFormed`).

A text without one of its tokens is a member of `Lacks(N, text)`, the texts that lack one
token of `N`; a text put together from two lacks it in the first or in the second
(`LacksConcat`), so the cases follow the printing functions. A missing semicolon is
refused at once or at the end of the line (`SemicolonMatters`). A missing brace need not
be: without its opening brace a location still begins, at the cost of the first character
of what stands there instead, which is no directive any more in a `Plain` file, and
without its closing one it goes on and takes in what follows. The two states this leads to
are `Stray`, inside a location that should have ended, and `Lost`, at the directives of a
block that should have ended. The first lasts through the other directives of the block
(`StrayStays`) and becomes the second at its closing brace (`StrayEnds`); the second is
refused at the next block or is where the file ends, and no file may end there
(`LostStays`).

For the settings one invariant of the directives read so far, `BlockIsSet`, is kept by
each kind of directive: single values are the last word said (`FieldIsSaid`); the words of
a list are those said, each once, in the order of their first places (`InOrderAdded`); the
page of a status is the one that the greatest place naming it has (`PageOfAppend`); and
the n-th location directive has made the n-th location (`LocationsAdded`).

### Only model-checked

* Liveness (ClosedAreRemoved, HoldEnds, Ends, the fair half of ExchangeKept): it
  rests on fairness and ENABLED, which the prover does not handle.
* The violations of section 3: a counterexample is a behaviour, and TLC gives it.

## 5. Not modelled

* `Server::clear` runs when `poll()` has failed and the process is about to end
  (it deletes every second object only).
* `CgiFD::pollout`: no `CgiFD` is ever polled for `POLLOUT`.
* Listeners are never closed and the errors of `poll()` itself are left out.
* The shared read buffer (`Buffer`): each call fills or copies what it uses before
  another can run; that `assign` shrinks its size is not looked at.
* The Date and Server fields, the wording of statuses and pages, the table of MIME
  types, the layout of a listing and subdirectories in it, the environment and the
  command line of scripts: data and layout.
* The splitting of the request line, the cutting of paths into segments, symbolic links,
  and directories that come and go; quotes in configuration words, words that hold a
  brace, the digits of numbers.
* The children forked for scripts, which nobody waits for, and a script's status of
  one or two characters, at which `isValidHttpStatus` throws: both end the process
  or the host's patience outside the models.
* Negative or unparsable chunk sizes and messages with both a length and chunks.

## 6. Plan

1. Done: the loop and the table with all their safety properties proved, one
   connection's messages, transfers, requests on shared files, replies, the
   configuration from its text to the location of a request. Every safety property
   that a passing run checks is also a theorem.
2. Done: what a connection makes of its messages proved for all messages, and the safety
   part of the refinement of Exchange.
3. Messages: the CRLF after the last chunk and lengths of zero with Expect in runs
   of their own.
4. A run with `OpenFails = TRUE` in which `remove` compares objects instead of
   descriptors, to see that this is all that is missing there.
5. Done: what the reader of ConfigText makes of a printed file, and what its directives
   set, for files of any length. Left open: the quotes, and words cut into characters.
