---------------------------- MODULE ClientMessage ----------------------------
(***************************************************************************)
(* One connection, seen through the bytes on it: ClientFD receives a       *)
(* header and a body in pieces of any size (receiveHttpMessage,            *)
(* receiveHeader, receiveBody), hands the request on (respond), sends the  *)
(* reply and gets ready for the next request (pollout, clean).  Life and   *)
(* death of the connection and of the workers are in ServerLoop.           *)
(*                                                                         *)
(* Bytes are grouped into units the code cannot tell the inside of: a      *)
(* header line, the blank line that ends a header, the size line's digits, *)
(* a CRLF, one byte of data.  A unit of which only a part has arrived acts *)
(* like one that has not arrived.                                          *)
(***************************************************************************)
EXTENDS Naturals, Sequences, SequencesExt, FiniteSets

CONSTANTS
  Messages,    \* the requests a peer may send, see Message below
  MaxHeader,   \* MAX_HEADER_SIZE, in units
  MaxBody,     \* client_max_body_size
  RecvMax,     \* BUFFER_SIZE: the most one recv() returns
  MaxSent,     \* bound: requests on one connection
  Eager,       \* whether the peer sends on without waiting for replies
  Reuses       \* whether it uses the connection again after an Expect

Line    == [u |-> "line"]
Crlf    == [u |-> "crlf"]
Size(n) == [u |-> "size", n |-> n]
Data(k) == [u |-> "data", k |-> k]
End(m)  == [u |-> "end", m |-> m]

(***************************************************************************)
(* A request on the peer's side: its method, its header fields in order,   *)
(* the value of Content-Length, the units of its body on the wire, the     *)
(* entity they carry, the number of header lines, and whether the checks   *)
(* of ParseRequest and ValidateRequest accept it.                          *)
(***************************************************************************)
DataUnit == [u : {"data"}, k : Nat]
SizeUnit == [u : {"size"}, n : Nat]
Fields  == {"host", "close", "expect", "length", "chunked"}
Message == [method : {"GET", "POST"}, fields : Seq(Fields), length : Nat,
            body : Seq(DataUnit \cup SizeUnit \cup {Crlf}), entity : Seq(DataUnit),
            lines : Nat, valid : BOOLEAN]

\* A body in chunks: each size line tells how many units of the entity follow
\* it; before[p] is how many of them come before the size line at p.
Splits(before, body, entity) ==
  /\ 1 \in DOMAIN before /\ before[1] = 0
  /\ \A p \in DOMAIN before :
       LET n    == body[p].n
           next == p + n + 3
       IN /\ p + 1 <= Len(body) /\ body[p + 1] = Crlf
          /\ n = 0 => /\ before[p] = Len(entity)
                     /\ Len(body) = p + 2 /\ body[p + 2] = Crlf
          /\ n > 0 => /\ next \in DOMAIN before /\ before[next] = before[p] + n
                     /\ body[next - 1] = Crlf
                     /\ \A k \in 1 .. n : body[p + 1 + k] = entity[before[p] + k]

InChunks(body, entity) ==
  \E before \in [{p \in DOMAIN body : body[p].u = "size"} -> 0 .. Len(entity)] :
    Splits(before, body, entity)

ASSUME MessageAssumption ==
  /\ \A m \in Messages : m \in Message
  /\ MaxHeader \in Nat /\ MaxBody \in Nat
  /\ RecvMax \in Nat \ {0} /\ MaxSent \in Nat
  /\ Eager \in BOOLEAN /\ Reuses \in BOOLEAN

Header(m) == [i \in 1 .. m.lines |-> Line] \o <<End(m)>>
Asks100(m) == \E i \in DOMAIN m.fields : m.fields[i] = "expect"

VARIABLES
  c,         \* the ClientFD
  wire,      \* units sent by the peer and not yet received
  rest,      \* body units the peer has not sent yet
  sent,      \* the requests the peer has begun to send
  replies,   \* the replies the peer has received
  handled    \* history: the requests given to an HttpRequest or CGIRequest

vars == <<c, wire, rest, sent, replies, handled>>

NoRequest == [msg |-> <<>>, keep |-> TRUE, expect |-> FALSE, post |-> FALSE,
              lengthKnown |-> FALSE, length |-> 0, chunked |-> FALSE]

(***************************************************************************)
(* Request::ParseRequest.  The header map is built line by line up to a    *)
(* CRLF; the text it is given ends before the CRLF of the last line, so    *)
(* the last field is not put in the map.                                   *)
(***************************************************************************)
Parsed(m) ==
  LET seen == {m.fields[i] : i \in 1 .. Len(m.fields) - 1} IN
  [msg |-> m, keep |-> "close" \notin seen, expect |-> "expect" \in seen,
   post |-> m.method = "POST", lengthKnown |-> "length" \in seen,
   length |-> IF "length" \in seen THEN m.length ELSE 0, chunked |-> "chunked" \in seen]

\* What ParseRequest reads of the fields is how the body is sent.
Framed(m) ==
  LET r == Parsed(m) IN
  /\ ~ (r.lengthKnown /\ r.chunked)
  /\ r.lengthKnown => m.body = m.entity /\ m.length = Len(m.entity)
  /\ r.chunked => InChunks(m.body, m.entity)
  /\ ~ r.lengthKnown /\ ~ r.chunked => m.body = <<>> /\ m.entity = <<>>

ASSUME FramingAssumption == \A m \in Messages : Framed(m)

NewConnection ==
  [state |-> "HEADER", events |-> "in", inbound |-> <<>>, body |-> <<>>, total |-> 0,
   left |-> 0, req |-> NoRequest, reply |-> "none", closed |-> FALSE]

Init ==
  /\ c = NewConnection
  /\ wire = <<>> /\ rest = <<>> /\ sent = <<>> /\ replies = <<>> /\ handled = <<>>

-----------------------------------------------------------------------------
(***************************************************************************)
(* The steps of ClientFD::processHttpMessage, as functions of the          *)
(* connection: s is the ClientFD, bytes the result of recv().              *)
(***************************************************************************)

\* ErrorPageException, caught in pollin: generateErrorResponse.
Fail(s) == [s EXCEPT !.state = "ERROR", !.reply = "error", !.events = "out"]

Least(a, b) == IF a < b THEN a ELSE b
IsEnd(x) == x.u = "end"
IsCrlf(x) == x.u = "crlf"
After(s, i) == SubSeq(s, i + 1, Len(s))

\* CRLF_END: a blank line after the end of a line, be it of a header or left
\* over from a body.
EndOfHeader(inbound) ==
  LET ends == {i \in 2 .. Len(inbound) :
                 /\ inbound[i].u \in {"end", "crlf"}
                 /\ inbound[i - 1].u \in {"line", "end", "crlf"}}
  IN IF ends = {} THEN 0 ELSE Min(ends)

\* The whole header: with anything else before its end, or a line missing, the
\* method is not one of the three (ParseRequest, ValidateRequest).
WellFormed(inbound, e) ==
  /\ IsEnd(inbound[e]) /\ inbound[e].m.valid
  /\ SubSeq(inbound, 1, e) = Header(inbound[e].m)

\* ParseRequest, findConfig and ValidateRequest have accepted the header.
HeaderAccepted(s, e) ==
  LET req  == Parsed(s.inbound[e].m)
      tail == After(s.inbound, e)
      t    == [s EXCEPT !.req = req, !.inbound = tail, !.left = 0,
                        !.total = IF req.chunked THEN 0
                                  ELSE IF req.lengthKnown THEN Len(tail) ELSE s.total,
                        !.state = IF req.expect /\ tail = <<>> THEN "RESPOND" ELSE "BODY"]
  IN IF ~req.chunked /\ req.lengthKnown /\ Len(tail) > MaxBody THEN Fail(t) ELSE t

ReceiveHeader(s) ==
  LET e    == EndOfHeader(s.inbound)
      size == IF e = 0 THEN Len(s.inbound) ELSE e - 1
  IN IF s.state # "HEADER" THEN s
     ELSE IF size > MaxHeader THEN Fail(s)
     ELSE IF e = 0 THEN s
     ELSE IF WellFormed(s.inbound, e) THEN HeaderAccepted(s, e)
     ELSE Fail(s)

ReceiveLength(s, bytes) ==
  LET left  == IF s.left = 0 THEN s.req.length ELSE s.left
      total == s.total + bytes
      t     == [s EXCEPT !.left = left, !.total = total]
  IN IF bytes > 0 /\ total > MaxBody THEN Fail(t)
     ELSE IF total = left THEN [t EXCEPT !.body = s.inbound, !.state = "RESPOND"]
     ELSE t

\* stringstream >> hex: 0 when the text before the CRLF is not a number.
SizeBefore(s, pos) ==
  IF pos > 1 /\ s.inbound[1].u = "size" THEN s.inbound[1].n ELSE 0

\* Faulty: the limit is not applied to the sum of the chunks (breaks LimitsHold).
TakeSizeUnlimited(s, pos) ==
  LET n == SizeBefore(s, pos)
      t == [s EXCEPT !.inbound = After(s.inbound, pos), !.left = n, !.total = s.total + n]
  IN IF n = 0 THEN [t EXCEPT !.state = "RESPOND"] ELSE t

TakeSize(s, pos) ==
  LET n == SizeBefore(s, pos)
      t == [s EXCEPT !.inbound = After(s.inbound, pos), !.left = n, !.total = s.total + n]
  IN IF n = 0 THEN [t EXCEPT !.state = "RESPOND"]
     ELSE IF t.total > MaxBody THEN Fail(t) ELSE t

\* Faulty: a chunk replaces the one before it (breaks BodyIntact).
TakeLastChunk(s) ==
  IF ~IsCrlf(s.inbound[s.left + 1]) THEN Fail(s)
  ELSE [s EXCEPT !.body = SubSeq(s.inbound, 1, s.left),
                 !.inbound = After(s.inbound, s.left + 1), !.left = 0]

\* Faulty: what is buffered, not the chunk, is taken off _left (breaks TypeOK).
TakeChunkBySize(s) ==
  IF ~IsCrlf(s.inbound[s.left + 1]) THEN Fail(s)
  ELSE [s EXCEPT !.body = s.body \o SubSeq(s.inbound, 1, s.left),
                 !.inbound = After(s.inbound, s.left + 1),
                 !.left = 0 - (Len(s.inbound) - s.left)]

TakeChunk(s) ==
  IF ~IsCrlf(s.inbound[s.left + 1]) THEN Fail(s)
  ELSE [s EXCEPT !.body = s.body \o SubSeq(s.inbound, 1, s.left),
                 !.inbound = After(s.inbound, s.left + 1), !.left = 0]

\* One turn of the loop of receiveChunked; the loop stops when it changes nothing.
ChunkTurn(s) ==
  LET pos == SelectInSeq(s.inbound, IsCrlf) IN   \* find(): 0 stands for npos
  IF s.state = "BODY" /\ s.left = 0 /\ pos # 0 THEN TakeSize(s, pos)
  ELSE IF s.state = "BODY" /\ s.left > 0 /\ s.left + 1 <= Len(s.inbound) THEN TakeChunk(s)
  ELSE s

\* Every turn that changes something consumes a unit.
ReceiveChunked(s) ==
  LET turn[n \in 0 .. Len(s.inbound)] == IF n = 0 THEN s ELSE ChunkTurn(turn[n - 1])
  IN turn[Len(s.inbound)]

ReceiveBody(s, bytes) ==
  IF s.state # "BODY" THEN s
  ELSE IF s.req.lengthKnown THEN ReceiveLength(s, bytes)
  ELSE IF s.req.chunked THEN ReceiveChunked(s)
  ELSE [s EXCEPT !.state = "RESPOND"]

\* recv() of k units, then the header and the body; _bytes is cleared by a header.
Received(s, units) ==
  LET t == [s EXCEPT !.inbound = s.inbound \o units]
      h == ReceiveHeader(t)
  IN ReceiveBody(h, IF s.state = "HEADER" THEN 0 ELSE Len(units))

\* Faulty: the buffered body is not looked at (breaks ExchangeKept).
WantsContinueAgain(s) == s.req.post /\ s.req.expect

\* respond(): a POST that expects 100-continue and has nothing buffered gets it.
WantsContinue(s) == s.req.post /\ s.req.expect /\ s.inbound = <<>>

-----------------------------------------------------------------------------
(***************************************************************************)
(* The handlers.                                                           *)
(***************************************************************************)
\* respond(), with s the connection once the message is complete.
NotComplete(s) ==
  /\ s.state # "RESPOND"
  /\ c' = s
  /\ UNCHANGED handled

Continues(s) ==
  /\ s.state = "RESPOND" /\ WantsContinue(s)
  /\ c' = [s EXCEPT !.reply = "100", !.events = "out"]
  /\ UNCHANGED handled

\* A new HttpRequest or CGIRequest; one whose target cannot be opened throws.
Dispatches(s) ==
  /\ s.state = "RESPOND" /\ ~WantsContinue(s)
  /\ c' \in {[s EXCEPT !.events = "hold"], Fail(s)}
  /\ handled' = Append(handled, [msg |-> s.req.msg,
                                body |-> IF s.req.post THEN s.body ELSE <<>>])

Pollin ==
  /\ ~c.closed /\ c.events = "in"
  /\ \E k \in 1 .. Least(RecvMax, Len(wire)) :
       LET s == Received(c, SubSeq(wire, 1, k)) IN
       /\ NotComplete(s) \/ Continues(s) \/ Dispatches(s)
       /\ wire' = After(wire, k)
  /\ UNCHANGED <<rest, sent, replies>>

\* The HttpRequest, the FileFD or the CgiFD has the response.
Complete ==
  /\ ~c.closed /\ c.events = "hold"
  /\ c' = [c EXCEPT !.reply = "final", !.events = "out"]
  /\ UNCHANGED <<wire, rest, sent, replies, handled>>

Clean(s) ==
  [s EXCEPT !.state = "HEADER", !.events = "in", !.inbound = <<>>, !.body = <<>>,
            !.total = 0, !.left = 0, !.req = NoRequest, !.reply = "none"]

\* Faulty: every POST is taken for one that got a 100 (breaks HandledOnce).
AfterAnyPost(s) ==
  IF s.state = "ERROR" THEN Clean(s)
  ELSE IF ~s.req.keep THEN [s EXCEPT !.closed = TRUE, !.reply = "none"]
  ELSE IF s.req.post
       THEN [s EXCEPT !.total = 0, !.left = 0, !.state = "BODY", !.events = "in",
                      !.reply = "none"]
  ELSE Clean(s)

\* The reset of pollout once the last byte of the reply is sent.
AfterReply(s) ==
  IF s.state = "ERROR" THEN Clean(s)
  ELSE IF ~s.req.keep THEN [s EXCEPT !.closed = TRUE, !.reply = "none"]
  ELSE IF s.req.post /\ s.req.expect
       THEN [s EXCEPT !.total = 0, !.left = 0, !.state = "BODY", !.events = "in",
                      !.reply = "none"]
  ELSE Clean(s)

Pollout ==
  /\ ~c.closed /\ c.events = "out"
  /\ replies' = Append(replies, c.reply)
  /\ c' = AfterReply(c)
  /\ UNCHANGED <<wire, rest, sent, handled>>

-----------------------------------------------------------------------------
(***************************************************************************)
(* The peer.  One that is not eager waits for the final reply before the   *)
(* next request, and for the 100-continue it asked for before the body.    *)
(* One that leaves a body out sends nothing more: the server would take    *)
(* the next header for the body.                                           *)
(***************************************************************************)
Finals   == Cardinality({i \in DOMAIN replies : replies[i] # "100"})
Answered == Finals >= Len(sent)
Expects  == \E i \in DOMAIN sent : i = Len(sent) /\ Asks100(sent[i])
GoAhead  == \E i \in DOMAIN replies : i = Len(replies) /\ replies[i] = "100"

SendRequest ==
  /\ ~c.closed /\ Len(sent) < MaxSent /\ rest = <<>>
  /\ Eager \/ Answered
  /\ Reuses \/ ~Expects
  /\ \E m \in Messages :
       /\ sent' = Append(sent, m)
       /\ wire' = wire \o Header(m)
       /\ rest' = m.body
  /\ UNCHANGED <<c, replies, handled>>

SendBody ==
  /\ ~c.closed /\ rest # <<>>
  /\ Eager \/ ~Expects \/ GoAhead
  /\ wire' = wire \o rest /\ rest' = <<>>
  /\ UNCHANGED <<c, sent, replies, handled>>

\* Nothing is left to do: a legal end, or a connection kept for its timeout.
Quiet ==
  /\ c.closed \/ (c.events = "in" /\ wire = <<>>)
  /\ UNCHANGED vars

Next == Pollin \/ Complete \/ Pollout \/ SendRequest \/ SendBody \/ Quiet

Spec == Init /\ [][Next]_vars

\* The loop serves the connection, workers answer and the peer finishes a request.
FairSpec ==
  /\ Spec
  /\ WF_vars(Pollin) /\ WF_vars(Complete) /\ WF_vars(Pollout) /\ WF_vars(SendBody)

-----------------------------------------------------------------------------
(***************************************************************************)
(* Properties.                                                             *)
(***************************************************************************)
Unit == DataUnit \cup SizeUnit \cup {Crlf, Line} \cup {End(m) : m \in Messages}

\* The kinds of the variables, the counters of ClientFD never below zero.
TypeOK ==
  /\ c.state \in {"HEADER", "BODY", "RESPOND", "ERROR"}
  /\ c.events \in {"in", "out", "hold"}
  /\ c.inbound \in Seq(Unit) /\ c.body \in Seq(Unit)
  /\ c.total \in Nat /\ c.left \in Nat
  /\ c.reply \in {"none", "100", "final", "error"} /\ c.closed \in BOOLEAN
  /\ wire \in Seq(Unit) /\ rest \in Seq(Unit)
  /\ sent \in Seq(Messages)
  /\ replies \in Seq({"100", "final", "error"})
  /\ Len(handled) <= MaxSent

(***************************************************************************)
(* However recv() cuts the bytes up, and whether the length is announced   *)
(* or the body is chunked, what a POST request is handed is the entity its *)
(* peer sent (receiveLength, receiveChunked).  The length must not be the  *)
(* last field of the header, which ParseRequest loses.                     *)
(***************************************************************************)
BodyIntact ==
  \A i \in DOMAIN handled :
    handled[i].msg.method = "POST" => handled[i].body = handled[i].msg.entity

(***************************************************************************)
(* No body above client_max_body_size is handed on, and what is buffered   *)
(* of a header stays within MAX_HEADER_SIZE, however slowly it comes.      *)
(***************************************************************************)
LimitsHold ==
  /\ \A i \in DOMAIN handled : Len(handled[i].body) <= MaxBody
  /\ c.state = "HEADER" => Len(c.inbound) <= MaxHeader

(***************************************************************************)
(* A request is handed on at most once, in the order of arrival, although  *)
(* after a 100-continue the same _request is read and dispatched again.    *)
(***************************************************************************)
HandledOnce ==
  \E place \in [DOMAIN handled -> DOMAIN sent] :
    /\ \A i \in DOMAIN handled : sent[place[i]] = handled[i].msg
    /\ \A i, j \in DOMAIN handled : i < j => place[i] < place[j]

(***************************************************************************)
(* After the last byte of a final reply the connection accepts a new       *)
(* request (pollout, "reset to accept new requests").                      *)
(***************************************************************************)
ReadyForNext ==
  ~c.closed /\ c.events = "in" /\ sent # <<>> /\ Answered
    => c.state = "HEADER"

(***************************************************************************)
(* A request that says "Connection: close" is the last one on its          *)
(* connection: no final reply to it leaves the connection open.            *)
(***************************************************************************)
CloseIsHonoured ==
  sent # <<>> /\ Answered /\ (\E i \in DOMAIN Last(sent).fields : Last(sent).fields[i] = "close")
    => c.closed \/ Last(replies) = "error"

\* What a peer that waits for its replies is promised.
Promise == INSTANCE Exchange WITH
  asked  <- Len(sent), answered <- Finals, closed <- c.closed,
  busy   <- c.events = "hold" \/ c.reply = "final",
  Limit  <- MaxSent

\* ClientFD keeps the promise of Exchange: no request is answered twice,
\* dropped or left waiting, and the connection closes only with an answer.
ExchangeKept == Promise!Spec

=============================================================================
