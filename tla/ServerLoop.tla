----------------------------- MODULE ServerLoop -----------------------------
(***************************************************************************)
(* Server::run and the life of everything it polls: listening sockets      *)
(* (ServerFD), connections (ClientFD), files being served or written       *)
(* (FileFD) and CGI output files (CgiFD).  One thread scans the table from *)
(* its first slot to its last; a visit to a slot is one step here, and the *)
(* kernel, the peers and the clock move between visits.  What a message    *)
(* says is left out: ClientMessage models that.                            *)
(***************************************************************************)
EXTENDS PollTable, FiniteSets

CONSTANTS
  Listeners,   \* ServerFD objects, one per port
  Clients,     \* addresses a ClientFD may be allocated at
  Files,       \* addresses a FileFD may be allocated at
  Cgis,        \* addresses a CgiFD may be allocated at
  Null,        \* the null pointer
  Timeout,     \* TIMEOUT_SECONDS
  ScanTime,    \* bound: the clock advances at most this much in one scan
  Breaks,      \* the ways a peer may end a connection, see Connection below
  OpenFails,   \* whether Cgi::execute's open() of the output file may fail
  Patient      \* whether peers keep the connection while a script works for them

Workers  == Files \cup Cgis
Sessions == Clients \cup Workers
Objects  == Listeners \cup Sessions

ASSUME LoopAssumption ==
  /\ IsFiniteSet(Listeners)
  /\ Listeners \cap Sessions = {}
  /\ Clients \cap Workers = {}
  /\ Files \cap Cgis = {}
  /\ Null \notin Objects
  /\ NoFd \notin Objects
  /\ Timeout \in Nat
  /\ ScanTime \in Nat
  /\ Breaks \subseteq {"fin", "reset", "residue", "error"}
  /\ OpenFails \in BOOLEAN
  /\ Patient \in BOOLEAN

VARIABLES
  pollables,   \* Server::_pollables
  pfds,        \* Server::_pfds
  index,       \* _index of each object, 0 when it does not exist
  pos,         \* the loop variable of Server::run; past the end between scans
  closed,      \* _closed
  age,         \* seconds since _tick, up to Timeout + 1
  client,      \* _state, _file_open and unsent _outbound of each connection
  owner,       \* _client of each worker
  got,         \* whether a CgiFD has read any output (_data not empty)
  unopened,    \* CgiFD objects whose descriptor is -1
  conn,        \* the kernel's side of each connection
  lapse,       \* seconds the clock has advanced in this scan
  turn,        \* history: objects polled in this scan and not yet visited
  fault        \* history: a handler followed a pointer to a deleted ClientFD

table == <<pollables, pfds, index>>
scan  == <<pos, turn, lapse, fault>>
vars  == <<table, scan, closed, age, client, owner, got, unopened, conn>>

(***************************************************************************)
(* A connection is open until the peer sends a FIN ("fin") or it breaks:   *)
(* "reset", and "residue" when unread bytes are still queued, both         *)
(* reported as POLLHUP whatever events are asked for; "error" is a socket  *)
(* error reported as POLLERR without POLLHUP.                              *)
(***************************************************************************)
Connection == {"open", "fin", "reset", "residue", "error"}

ClientState == [state : {"HEADER", "BODY", "RESPOND", "ERROR"},
                fileOpen : BOOLEAN, reply : BOOLEAN]
Pfd         == [fd : Objects \cup {NoFd}, events : Events, revents : Revents]
NewClient   == [state |-> "HEADER", fileOpen |-> FALSE, reply |-> FALSE]

Live    == Occupants(pollables)
FdOf(o) == IF o \in unopened THEN NoFd ELSE o

\* Memory may be reused once the object is gone and no live worker points at it.
Free(o) == o \notin Live /\ \A w \in Workers : owner[w] # o

\* Faulty: only workers time out (breaks HoldEnds).
ExpiredWorker(o) == o \in Workers /\ age[o] > Timeout

\* difftime(now, _tick) > TIMEOUT_SECONDS; ServerFD::timeout does nothing.
Expired(o) == o \in Sessions /\ age[o] > Timeout

-----------------------------------------------------------------------------
(***************************************************************************)
(* Start, clock, poll.                                                     *)
(***************************************************************************)
Init ==
  /\ pollables \in [1 .. Cardinality(Listeners) -> Listeners]
  /\ NoRepeat(pollables) /\ Live = Listeners
  /\ pfds  = [i \in DOMAIN pollables |-> NewPfd(pollables[i], "in")]
  /\ index = [o \in Objects |->
                IF o \in Listeners THEN CHOOSE i \in DOMAIN pollables : pollables[i] = o
                                   ELSE 0]
  /\ pos = Len(pollables) + 1
  /\ closed   = [o \in Objects |-> FALSE]
  /\ age      = [o \in Sessions |-> 0]
  /\ client   = [c \in Clients |-> NewClient]
  /\ owner    = [w \in Workers |-> Null]
  /\ got      = [g \in Cgis |-> FALSE]
  /\ unopened = {}
  /\ conn     = [c \in Clients |-> "open"]
  /\ lapse = 0
  /\ turn  = {}
  /\ fault = FALSE

Tick ==
  /\ ~fault /\ lapse < ScanTime
  /\ lapse' = lapse + 1
  /\ age' = [o \in Sessions |->
               IF o \in Live /\ age[o] <= Timeout THEN age[o] + 1 ELSE age[o]]
  /\ UNCHANGED <<table, pos, turn, fault, closed, client, owner, got, unopened, conn>>

Broken(c) == conn[c] \in {"reset", "residue"}

\* The event poll() can return for slot i ...
Reported(i) ==
  LET o == pollables[i] IN
  IF o \in Clients /\ Broken(o) THEN "in"
  ELSE IF o \in Clients /\ conn[o] = "error" /\ pfds[i].events # "out" THEN "err"
  ELSE IF pfds[i].fd = NoFd \/ pfds[i].events = "hold" THEN "none"
  ELSE pfds[i].events

\* ... and the slots where it is sure to: broken connections, a FIN somebody
\* is waiting to read, and regular files, which are always ready.
SureReady(i) ==
  LET o == pollables[i] IN
  \/ o \in Workers
  \/ o \in Clients /\ (Broken(o) \/ conn[o] = "error")
  \/ o \in Clients /\ conn[o] = "fin" /\ pfds[i].events = "in"

\* poll() with a zero timeout, then the loop variable starts again.
Poll ==
  /\ ~fault /\ pos > Len(pollables)
  /\ \E ready \in SUBSET DOMAIN pfds :
       /\ \A i \in DOMAIN pfds : SureReady(i) => i \in ready
       /\ pfds' = [i \in DOMAIN pfds |->
                     [pfds[i] EXCEPT !.revents = IF i \in ready THEN Reported(i) ELSE "none"]]
  /\ pos' = 1 /\ lapse' = 0 /\ turn' = Live
  /\ UNCHANGED <<pollables, index, fault, closed, age, client, owner, got, unopened, conn>>

-----------------------------------------------------------------------------
(***************************************************************************)
(* What the handlers share.                                                *)
(***************************************************************************)
At(o)    == ~fault /\ pos \in DOMAIN pollables /\ pollables[pos] = o
Gone(o)  == closed[o] \/ Expired(o)              \* isClosed() after timeout()
Serve(o, event) == At(o) /\ ~Gone(o) /\ pfds[pos].revents = event

Advance ==
  /\ pos' = pos + 1 /\ turn' = turn \ {pollables[pos]}
  /\ UNCHANGED <<lapse, fault>>

\* updateTick of the objects in S, setClosed of o, a change of a client's fields.
Touch(S)     == age' = [o \in Sessions |-> IF o \in S THEN 0 ELSE age[o]]
Close(o)     == closed' = [closed EXCEPT ![o] = TRUE]

\* Faulty: the returned events are written (TypeOK), the slot being visited is
\* written whoever it belongs to (ReplyIsArmed), hold is not set (OneWorker).
SetRevents(o, e) == [pfds EXCEPT ![index[o]].revents = e]
SetEventsHere(o, e) == [pfds EXCEPT ![pos].events = e]
SetEventsNoHold(o, e) == IF e = "hold" THEN pfds ELSE [pfds EXCEPT ![index[o]].events = e]

SetEvents(o, e) == [pfds EXCEPT ![index[o]].events = e]

\* Faulty: _file_open is left set (breaks OpenFileIsServed and ClosedAreRemoved).
ReleasedNever(w) == client

\* FileFD::setClosed and CgiFD::setClosed also clear the client's _file_open.
Released(w) == [client EXCEPT ![owner[w]].fileOpen = FALSE]

\* PollableFactory::createPollable: push_back on both vectors (base: _pfds so far).
Enlist(o, fd, events, base) ==
  /\ pollables' = Append(pollables, o)
  /\ pfds'      = Append(base, NewPfd(fd, events))
  /\ index'     = [index EXCEPT ![o] = Len(pfds) + 1]

\* Response::generate*Response ends in ClientFD::setupResponse.
Answer(c, state) ==
  /\ pfds'   = SetEvents(c, "out")
  /\ client' = [client EXCEPT ![c].state = state, ![c].reply = TRUE]
  /\ UNCHANGED <<pollables, index>>

\* Faulty: no exchange before the pop_back (breaks OnlyTheClosedLeave).
SwapsNever == FALSE

(***************************************************************************)
(* Server::remove(pos): the slot is exchanged with the last one unless     *)
(* both descriptors are equal, then the last object is deleted.            *)
(***************************************************************************)
Swaps ==
  LET back == Last1(pollables) IN
  /\ Len(pfds) > 1
  /\ pfds[pos].fd # Last1(pfds).fd
  /\ FdOf(pollables[pos]) # FdOf(back)

Deleted == IF Swaps THEN pollables[pos] ELSE Last1(pollables)

\* Faulty: the object moved keeps its old _index (breaks VectorsAgree).
ReindexedNot == [o \in Objects |-> IF o = Deleted THEN 0 ELSE index[o]]

\* setIndex(pos) on the object moved into the slot.
Reindexed ==
  [o \in Objects |-> IF o = Deleted THEN 0
                     ELSE IF Swaps /\ o = Last1(pollables) THEN pos
                     ELSE index[o]]

\* Faulty: the loop goes on to the next slot (breaks NobodySkipped).
NextSlot == pos' = pos + 1

\* --i after remove(i) undoes the ++i of the loop.
SameSlotNext == pos' = pos

Remove(freed) ==     \* freed: the client records after the visit's timeout()
  LET o == pollables[pos]
      d == Deleted
  IN /\ pollables' = IF Swaps THEN SwapPop(pollables, pos) ELSE PopBack(pollables)
     /\ pfds'      = IF Swaps THEN SwapPop(pfds, pos) ELSE PopBack(pfds)
     /\ index'    = Reindexed
     /\ closed'   = [closed EXCEPT ![o] = TRUE, ![d] = FALSE]
     /\ age'      = [x \in Sessions |-> IF x = d THEN 0 ELSE age[x]]
     /\ client'   = [x \in Clients |-> IF x = d THEN NewClient ELSE freed[x]]
     /\ owner'    = [x \in Workers |-> IF x = d THEN Null ELSE owner[x]]
     /\ got'      = [x \in Cgis |-> IF x = d THEN FALSE ELSE got[x]]
     /\ conn'     = [x \in Clients |-> IF x = d THEN "open" ELSE conn[x]]
     /\ unopened' = unopened \ {d}
     /\ turn'     = turn \ {o}
     /\ SameSlotNext /\ UNCHANGED <<lapse, fault>>

-----------------------------------------------------------------------------
(***************************************************************************)
(* Visits that end at the timeout and closed checks of Server::run.        *)
(***************************************************************************)

\* Faulty: a closed connection goes although a file works for it
\* (breaks ClientOutlivesUse).
RetireClientAtOnce(c) ==
  /\ At(c) /\ Gone(c)
  /\ Remove(client)

RetireClient(c) ==
  /\ At(c) /\ Gone(c) /\ ~client[c].fileOpen
  /\ Remove(client)

\* A closed connection with a file open stays in the table.
KeepForFile(c) ==
  /\ At(c) /\ Gone(c) /\ client[c].fileOpen
  /\ Close(c) /\ Advance
  /\ UNCHANGED <<table, age, client, owner, got, unopened, conn>>

RetireWorker(w) ==
  /\ At(w) /\ Gone(w)
  /\ Expired(w) => owner[w] \in Live
  /\ Remove(IF Expired(w) THEN Released(w) ELSE client)

Idle(o) ==
  /\ Serve(o, "none")
  /\ Advance
  /\ UNCHANGED <<table, closed, age, client, owner, got, unopened, conn>>

\* POLLERR alone: setClosed.
SocketError(c) ==
  /\ Serve(c, "err")
  /\ Close(c) /\ Advance
  /\ UNCHANGED <<table, age, client, owner, got, unopened, conn>>

-----------------------------------------------------------------------------
(***************************************************************************)
(* ServerFD::pollin.                                                       *)
(***************************************************************************)
Accept(s) ==
  /\ Serve(s, "in")
  /\ \E c \in Clients : Free(c) /\ Enlist(c, c, "in", pfds)
  /\ Advance
  /\ UNCHANGED <<closed, age, client, owner, got, unopened, conn>>

\* SocketAcceptException is caught in Server::run.
AcceptFails(s) ==
  /\ Serve(s, "in")
  /\ Advance
  /\ UNCHANGED <<table, closed, age, client, owner, got, unopened, conn>>

-----------------------------------------------------------------------------
(***************************************************************************)
(* ClientFD::pollin.  recv() fails, returns bytes, or returns 0 after a    *)
(* FIN; in the last case the connection is marked closed and the bytes     *)
(* already there are processed all the same.                               *)
(***************************************************************************)
ReceiveFails(c) ==
  /\ Serve(c, "in") /\ conn[c] \notin {"open", "fin"}
  /\ Close(c) /\ Touch({c}) /\ Advance
  /\ UNCHANGED <<table, client, owner, got, unopened, conn>>

Receives(c, bytes) ==
  /\ Serve(c, "in")
  /\ bytes => conn[c] # "reset"
  /\ ~bytes => conn[c] = "fin"
  /\ closed' = [closed EXCEPT ![c] = ~bytes]
  /\ Touch({c}) /\ Advance
  /\ UNCHANGED conn

\* The header or the body is not complete, or an error reply is being sent.
NeedsMore(c) ==
  \E bytes \in BOOLEAN :
    /\ Receives(c, bytes)
    /\ client[c].state # "RESPOND"
    /\ \E s \in {client[c].state, "BODY"} :
         /\ s # client[c].state => client[c].state = "HEADER" /\ bytes
         /\ client' = [client EXCEPT ![c].state = s]
    /\ UNCHANGED <<table, owner, got, unopened>>

\* ErrorPageException from the header, the body or the request: an error reply.
Refuses(c) ==
  \E bytes \in BOOLEAN :
    /\ Receives(c, bytes)
    /\ client[c].state # "ERROR" /\ (client[c].state = "HEADER" => bytes)
    /\ Answer(c, "ERROR")
    /\ UNCHANGED <<owner, got, unopened>>

\* The message is complete, or the state was RESPOND already: respond() is
\* called, which first puts the slot on hold.
Dispatches(c) ==
  /\ \E bytes \in BOOLEAN :
       Receives(c, bytes) /\ (client[c].state = "HEADER" => bytes)
  /\ client[c].state # "ERROR"

\* What is left of an earlier reply stays in _outbound.
Held(c) == [client EXCEPT ![c].state = "RESPOND"]

\* 100, 204, a redirect or an autoindex page: the reply is ready at once.
RepliesAtOnce(c) ==
  /\ Dispatches(c) /\ Answer(c, "RESPOND")
  /\ UNCHANGED <<owner, got, unopened>>

\* HttpRequest::DELETERequest, when remove() fails with an unlisted errno.
NoReply(c) ==
  /\ Dispatches(c)
  /\ client' = Held(c)
  /\ pfds' = SetEvents(c, "hold")
  /\ UNCHANGED <<pollables, index, owner, got, unopened>>

\* HttpRequest::GETRequest ("in") and POSTRequest ("out") with the file opened.
OpensFile(c) ==
  /\ Dispatches(c)
  /\ \E f \in Files, e \in {"in", "out"} :
       /\ Free(f)
       /\ Enlist(f, f, e, SetEvents(c, "hold"))
       /\ owner' = [owner EXCEPT ![f] = c]
  /\ client' = [Held(c) EXCEPT ![c].fileOpen = TRUE]
  /\ UNCHANGED <<got, unopened>>

\* Cgi::execute in the parent: open() is not checked, _file_open is not set.
Executes(c, g, fails) ==
  /\ Enlist(g, IF fails THEN NoFd ELSE g, "in", SetEvents(c, "hold"))
  /\ owner' = [owner EXCEPT ![g] = c]
  /\ unopened' = IF fails THEN unopened \cup {g} ELSE unopened

\* CGIRequest::GETRequest and POSTRequest; a failed fork() is in Refuses.
StartsCgi(c) ==
  /\ Dispatches(c) /\ (Patient => conn[c] = "open")
  /\ \E g \in Cgis, fails \in {FALSE, OpenFails} : Free(g) /\ Executes(c, g, fails)
  /\ client' = Held(c)
  /\ UNCHANGED got

(***************************************************************************)
(* ClientFD::pollout.                                                      *)
(***************************************************************************)
SendFails(c) ==
  /\ Serve(c, "out") /\ conn[c] \notin {"open", "fin"}
  /\ Close(c) /\ Touch({c}) /\ Advance
  /\ UNCHANGED <<table, client, owner, got, unopened, conn>>

SendsPart(c) ==
  /\ Serve(c, "out") /\ conn[c] \in {"open", "fin"}
  /\ Touch({c}) /\ Advance
  /\ UNCHANGED <<table, closed, client, owner, got, unopened, conn>>

\* The last byte is sent: back to HEADER (clean), closed when the request did
\* not ask to keep the connection, or back to BODY after an Expect: 100-continue.
SendsAll(c) ==
  /\ Serve(c, "out") /\ conn[c] \in {"open", "fin"}
  /\ \/ /\ pfds' = SetEvents(c, "in")
        /\ client' = [client EXCEPT ![c].state = "HEADER", ![c].reply = FALSE]
        /\ UNCHANGED closed
     \/ /\ client[c].state # "ERROR"
        /\ client' = [client EXCEPT ![c].reply = FALSE]
        /\ Close(c) /\ UNCHANGED pfds
     \/ /\ client[c].state # "ERROR"
        /\ pfds' = SetEvents(c, "in")
        /\ client' = [client EXCEPT ![c].state = "BODY", ![c].reply = FALSE]
        /\ UNCHANGED closed
  /\ Touch({c}) /\ Advance
  /\ UNCHANGED <<pollables, index, owner, got, unopened, conn>>

-----------------------------------------------------------------------------
(***************************************************************************)
(* FileFD::pollin and pollout, CgiFD::pollin.  Both follow _client.        *)
(***************************************************************************)
Works(w) ==
  /\ owner[w] \in Live
  /\ \E e \in {"in", "out"} : Serve(w, e)

\* generateResponse or generateErrorResponse on the client, then setClosed.
Finishes(w) ==
  LET c == owner[w] IN
  /\ pfds'   = SetEvents(c, "out")
  /\ client' = [Released(w) EXCEPT ![c].reply = TRUE]
  /\ Close(w) /\ Advance
  /\ UNCHANGED <<pollables, index, owner, unopened, conn>>

FileProgress(f) ==
  /\ Works(f)
  /\ Touch({f, owner[f]}) /\ Advance
  /\ UNCHANGED <<table, closed, client, owner, got, unopened, conn>>

\* read() returned 0, the last byte is written, or the call failed.
FileEnds(f) ==
  /\ Works(f)
  /\ Finishes(f) /\ Touch({f, owner[f]})
  /\ UNCHANGED got

CgiReads(g) ==
  /\ Works(g)
  /\ got' = [got EXCEPT ![g] = TRUE]
  /\ Touch({g, owner[g]}) /\ Advance
  /\ UNCHANGED <<table, closed, client, owner, unopened, conn>>

\* Faulty: the client's tick does not move while the script is waited for
\* (breaks ClientOutlivesUse), or the worker's own does too (breaks HoldEnds).
CgiWaitsAlone(g) ==
  /\ Works(g) /\ ~got[g]
  /\ Touch({}) /\ Advance
  /\ UNCHANGED <<table, closed, client, owner, got, unopened, conn>>

CgiWaitsForEver(g) ==
  /\ Works(g) /\ ~got[g]
  /\ Touch({g, owner[g]}) /\ Advance
  /\ UNCHANGED <<table, closed, client, owner, got, unopened, conn>>

\* read() returned 0 and there is no data yet: only the client's tick moves.
CgiWaits(g) ==
  /\ Works(g) /\ ~got[g]
  /\ Touch({owner[g]}) /\ Advance
  /\ UNCHANGED <<table, closed, client, owner, got, unopened, conn>>

\* read() returned 0 after some data: the CGI response.
CgiEnds(g) ==
  /\ Works(g) /\ got[g]
  /\ Finishes(g) /\ Touch({owner[g]})
  /\ UNCHANGED got

\* read() returned -1: the error response.
CgiFails(g) ==
  /\ Works(g)
  /\ Finishes(g) /\ Touch({owner[g]})
  /\ UNCHANGED got

(***************************************************************************)
(* A worker whose client was deleted follows the pointer, in timeout() or  *)
(* in its handler.  Nothing is known of the process after that.            *)
(***************************************************************************)
UseAfterDelete(w) ==
  /\ At(w) /\ owner[w] \notin Live
  /\ Expired(w) \/ (~closed[w] /\ pfds[pos].revents # "none")
  /\ fault' = TRUE
  /\ UNCHANGED <<table, pos, turn, lapse, closed, age, client, owner, got, unopened, conn>>

Halted == fault /\ UNCHANGED vars

-----------------------------------------------------------------------------
\* The peer, or the network, ends the connection.
PeerEnds(c) ==
  /\ ~fault /\ c \in Live
  /\ Patient => \A g \in Live \cap Cgis : owner[g] # c
  /\ \E k \in Breaks :
       /\ conn[c] = "open" \/ (conn[c] = "fin" /\ k # "fin")
       /\ conn' = [conn EXCEPT ![c] = k]
  /\ UNCHANGED <<table, scan, closed, age, client, owner, got, unopened>>

VisitListener(s) == Idle(s) \/ Accept(s) \/ AcceptFails(s)

ClientPollin(c) ==
  \/ ReceiveFails(c) \/ NeedsMore(c) \/ Refuses(c)
  \/ RepliesAtOnce(c) \/ NoReply(c) \/ OpensFile(c) \/ StartsCgi(c)

ClientPollout(c) == SendFails(c) \/ SendsPart(c) \/ SendsAll(c)

VisitClient(c) ==
  \/ RetireClient(c) \/ KeepForFile(c) \/ Idle(c) \/ SocketError(c)
  \/ ClientPollin(c) \/ ClientPollout(c)

VisitFile(f) ==
  RetireWorker(f) \/ Idle(f) \/ FileProgress(f) \/ FileEnds(f) \/ UseAfterDelete(f)

VisitCgi(g) ==
  \/ RetireWorker(g) \/ Idle(g) \/ CgiReads(g) \/ CgiWaits(g) \/ CgiEnds(g)
  \/ CgiFails(g) \/ UseAfterDelete(g)

Visit ==
  \/ \E s \in Listeners : VisitListener(s)
  \/ \E c \in Clients : VisitClient(c)
  \/ \E f \in Files : VisitFile(f)
  \/ \E g \in Cgis : VisitCgi(g)

Next == Tick \/ Poll \/ Visit \/ (\E c \in Clients : PeerEnds(c)) \/ Halted

Spec == Init /\ [][Next]_vars

(***************************************************************************)
(* The loop never sleeps and time passes; a file has an end, and a script  *)
(* that has written something does not write for ever.  Nothing is assumed *)
(* of a script that writes nothing.                                        *)
(***************************************************************************)
FairSpec ==
  /\ Spec
  /\ WF_vars(Poll \/ Visit) /\ WF_vars(Tick)
  /\ \A f \in Files : SF_vars(FileEnds(f))
  /\ \A g \in Cgis : SF_vars(CgiEnds(g))

-----------------------------------------------------------------------------
(***************************************************************************)
(* Properties.                                                             *)
(***************************************************************************)

\* The kinds of the variables, for every history of the loop.
TypeOK ==
  /\ pollables \in Seq(Objects)
  /\ pfds \in Seq(Pfd)
  /\ index    \in [Objects -> Nat]
  /\ pos      \in Nat \ {0}
  /\ closed   \in [Objects -> BOOLEAN]
  /\ age      \in [Sessions -> 0 .. Timeout + 1]
  /\ client   \in [Clients -> ClientState]
  /\ owner    \in [Workers -> Clients \cup {Null}]
  /\ got      \in [Cgis -> BOOLEAN]
  /\ unopened \in SUBSET Cgis
  /\ conn     \in [Clients -> Connection]
  /\ lapse    \in 0 .. ScanTime
  /\ turn     \in SUBSET Objects
  /\ fault    \in BOOLEAN

(***************************************************************************)
(* The two vectors of Server stay parallel through every push_back and     *)
(* every exchange of Server::remove, whoever is removed in the middle of a *)
(* scan: slot i of both belongs to one object, which occurs once and whose *)
(* _index, used to set its own events, is i.                               *)
(***************************************************************************)
VectorsAgree ==
  /\ Len(pfds) = Len(pollables)
  /\ NoRepeat(pollables)
  /\ \A i \in DOMAIN pollables :
       index[pollables[i]] = i /\ pfds[i].fd = FdOf(pollables[i])

(***************************************************************************)
(* A scan of Server::run skips nobody it polled: what is still owed a      *)
(* visit is ahead of the loop variable, and an event still ahead belongs   *)
(* to an object that was polled.  An object the exchange of Server::remove *)
(* moves from the back into a slot already passed would break it.          *)
(***************************************************************************)
NobodySkipped ==
  /\ \A o \in turn : \E i \in pos .. Len(pollables) : pollables[i] = o
  /\ \A i \in pos .. Len(pollables) : pfds[i].revents # "none" => pollables[i] \in turn

(***************************************************************************)
(* _file_open keeps a closed connection in the table (Server::run), so it  *)
(* may be set only while a file that will clear it is there.               *)
(***************************************************************************)
OpenFileIsServed ==
  \A c \in Live \cap Clients :
    client[c].fileOpen => \E f \in Live \cap Files : owner[f] = c /\ ~closed[f]

(***************************************************************************)
(* POLLOUT is asked for only when there is a reply to send, and a reply is *)
(* taken off POLLOUT before its last byte in one case only: POLLHUP with   *)
(* bytes unread calls respond() again.  The reply may have been installed  *)
(* by a FileFD or a CgiFD through the _index the connection has then.      *)
(***************************************************************************)
ReplyIsArmed ==
  \A c \in Live \cap Clients :
    ~closed[c] =>
      /\ pfds[index[c]].events = "out" => client[c].reply
      /\ client[c].reply /\ conn[c] # "residue" => pfds[index[c]].events = "out"

(***************************************************************************)
(* No FileFD or CgiFD follows its _client after Server::remove deleted the *)
(* ClientFD.  _file_open is there to prevent it; it holds for files when   *)
(* two scans fit in the timeout and no unread bytes precede a reset.       *)
(***************************************************************************)
ClientOutlivesUse == ~fault

(***************************************************************************)
(* When a CgiFD is done reading it sends the response (CgiFD::pollin), so  *)
(* the connection it answers exists as long as the CgiFD is in use.        *)
(***************************************************************************)
CgiHasItsClient ==
  \A g \in Live \cap Cgis : ~closed[g] => owner[g] \in Live

\* A connection has at most one file or CGI output being served at a time,
\* so two workers never write the same _response.
OneWorker ==
  \A v, w \in Live \cap Workers :
    owner[v] = owner[w] /\ ~closed[v] /\ ~closed[w] => v = w

(***************************************************************************)
(* Server::remove deletes the pollable it was asked to remove: an object   *)
(* leaves the table only at its own visit, closed or timed out.            *)
(***************************************************************************)
OnlyTheClosedLeave ==
  [][\A o \in Live \ Occupants(pollables') : Gone(o) /\ pollables[pos] = o]_vars

\* A closed connection is removed in the end, its file notwithstanding.
ClosedAreRemoved ==
  \A c \in Clients : c \in Live /\ closed[c] ~> c \notin Live

\* A connection on POLLHOLD does not stay there: it is answered or dropped.
HoldEnds ==
  \A c \in Clients :
    c \in Live /\ pfds[index[c]].events = "hold"
      ~> c \notin Live \/ pfds[index[c]].events # "hold"

=============================================================================
