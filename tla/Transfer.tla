------------------------------ MODULE Transfer ------------------------------
(***************************************************************************)
(* The bytes of one exchange, from the disk to the peer: a file read by    *)
(* FileFD::pollin, a POST body written by FileFD::pollout, or the output   *)
(* of a CGI script read by CgiFD::pollin while the script still writes it, *)
(* and the reply sent by ClientFD::pollout.  Every call moves at most      *)
(* BUFFER_SIZE bytes and may move fewer; _total and _left remember how far *)
(* it got.                                                                 *)
(***************************************************************************)
EXTENDS Naturals, Sequences

CONSTANTS
  Bytes,        \* what files, bodies and scripts are made of
  Contents,     \* the files, bodies and script outputs to look at
  Kinds,        \* the exchanges to look at
  Blank,        \* the blank line between the headers and the body of an output
  BufferSize    \* BUFFER_SIZE

\* Heads of the replies, each taken as one unit of the reply.
Heads == {"200", "201", "500"}
Units == Bytes \cup Heads

ASSUME TransferAssumption ==
  /\ \A s \in Contents : s \in Seq(Bytes)
  /\ Kinds \subseteq {"GET", "POST", "CGI"}
  /\ BufferSize \in Nat \ {0}

VARIABLES
  kind,      \* what is being done ...
  content,   \* ... with which file, body or output
  disk,      \* the file served, written, or filled by the script
  unwritten, \* what the script has not written yet
  worker,    \* _data, _total, _left and _closed of the FileFD or CgiFD
  conn,      \* _outbound, _total, _left and _closed of the ClientFD, its events
  received   \* what the peer has received

vars == <<kind, content, disk, unwritten, worker, conn, received>>

\* BUFFER_SIZE > left ? left : BUFFER_SIZE (getSendSize, getWriteSize).
Size(left) == IF BufferSize > left THEN left ELSE BufferSize

\* The k elements of s after the first from ones.
Piece(s, from, k) == SubSeq(s, from + 1, from + k)

Init ==
  /\ kind \in Kinds /\ content \in Contents
  /\ disk = IF kind = "GET" THEN content ELSE <<>>
  /\ unwritten = IF kind = "CGI" THEN content ELSE <<>>
  /\ worker = [data  |-> IF kind = "POST" THEN content ELSE <<>>, total |-> 0,
               left  |-> IF kind = "POST" THEN Len(content) ELSE 0, closed |-> FALSE]
  /\ conn = [outbound |-> <<>>, total |-> 0, left |-> 0, events |-> "hold", closed |-> FALSE]
  /\ received = <<>>

\* generateCGIResponse: an output without a blank line is all body.
CgiBody(output) ==
  LET ends == {i \in DOMAIN output : output[i] = Blank}
      e    == CHOOSE i \in ends : \A j \in ends : i <= j
  IN IF ends = {} THEN output ELSE SubSeq(output, e + 1, Len(output))

\* The message body of a 200 reply.
Body(data) == IF kind = "CGI" THEN CgiBody(data) ELSE data

\* Faulty: the counter of the previous reply is kept (breaks OneReply).
RespondOn(head, body) ==
  conn' = [conn EXCEPT !.outbound = <<head>> \o body, !.total = worker.total,
                       !.left = Len(body) + 1, !.events = "out"]

\* setupResponse, with the head and the message body.
Respond(head, body) ==
  conn' = [conn EXCEPT !.outbound = <<head>> \o body, !.total = 0,
                       !.left = Len(body) + 1, !.events = "out"]

-----------------------------------------------------------------------------
\* Faulty: the buffer is appended whole, with what the read before left in it
\* (breaks WholeOrRefused).
ReadsOver ==
  /\ kind # "POST" /\ ~worker.closed
  /\ \E k \in 1 .. BufferSize :
       /\ k <= Len(disk) - worker.total
       /\ worker' = [worker EXCEPT !.data = worker.data
                        \o Piece(disk, IF worker.total = 0 THEN 0 ELSE worker.total - 1, k),
                                   !.total = worker.total + k]
  /\ UNCHANGED <<kind, content, disk, unwritten, conn, received>>

\* read() returned k bytes (FileFD::pollin, CgiFD::pollin).
Reads ==
  /\ kind # "POST" /\ ~worker.closed
  /\ \E k \in 1 .. BufferSize :
       /\ k <= Len(disk) - worker.total
       /\ worker' = [worker EXCEPT !.data = worker.data \o Piece(disk, worker.total, k),
                                   !.total = worker.total + k]
  /\ UNCHANGED <<kind, content, disk, unwritten, conn, received>>

\* read() returned 0 and a CgiFD has nothing yet: it goes on waiting.
CgiWaits ==
  /\ kind = "CGI" /\ ~worker.closed
  /\ worker.total = Len(disk) /\ worker.data = <<>>
  /\ UNCHANGED vars

\* Faulty: an empty file is waited for like an empty output (breaks Ends).
ReadEndsLater ==
  /\ kind # "POST" /\ ~worker.closed
  /\ worker.total = Len(disk) /\ worker.data # <<>>
  /\ Respond("200", Body(worker.data))
  /\ worker' = [worker EXCEPT !.closed = TRUE]
  /\ UNCHANGED <<kind, content, disk, unwritten, received>>

\* read() returned 0.
ReadEnds ==
  /\ kind # "POST" /\ ~worker.closed
  /\ worker.total = Len(disk)
  /\ kind = "CGI" => worker.data # <<>>
  /\ Respond("200", Body(worker.data))
  /\ worker' = [worker EXCEPT !.closed = TRUE]
  /\ UNCHANGED <<kind, content, disk, unwritten, received>>

\* write() took k bytes; the response follows the last one (FileFD::pollout).
Writes ==
  /\ kind = "POST" /\ ~worker.closed
  /\ \E k \in 0 .. Size(worker.left) :
       /\ k = 0 => worker.left = 0
       /\ disk' = disk \o Piece(worker.data, worker.total, k)
       /\ worker' = [worker EXCEPT !.total = worker.total + k, !.left = worker.left - k,
                                   !.closed = worker.left = k]
       /\ IF worker.left = k THEN Respond("201", <<>>) ELSE UNCHANGED conn
  /\ UNCHANGED <<kind, content, unwritten, received>>

\* read() or write() returned -1.
IoFails ==
  /\ ~worker.closed
  /\ Respond("500", <<>>)
  /\ worker' = [worker EXCEPT !.closed = TRUE]
  /\ UNCHANGED <<kind, content, disk, unwritten, received>>

\* Faulty: what was offered is taken off _left, not what was sent, and a whole
\* buffer is always offered (breaks TypeOK).
SendsOffered ==
  /\ conn.events = "out" /\ ~conn.closed
  /\ \E k \in 1 .. Size(conn.left) :
       /\ received' = received \o Piece(conn.outbound, conn.total, k)
       /\ conn' = [conn EXCEPT !.total = conn.total + k, !.left = conn.left - BufferSize,
                               !.events = IF conn.left = k THEN "in" ELSE "out"]
  /\ UNCHANGED <<kind, content, disk, unwritten, worker>>

\* send() took k bytes; the connection reads again after the last one.
Sends ==
  /\ conn.events = "out" /\ ~conn.closed
  /\ \E k \in 1 .. Size(conn.left) :
       /\ received' = received \o Piece(conn.outbound, conn.total, k)
       /\ conn' = [conn EXCEPT !.total = conn.total + k, !.left = conn.left - k,
                               !.events = IF conn.left = k THEN "in" ELSE "out"]
  /\ UNCHANGED <<kind, content, disk, unwritten, worker>>

SendFails ==
  /\ conn.events = "out" /\ ~conn.closed
  /\ conn' = [conn EXCEPT !.closed = TRUE]
  /\ UNCHANGED <<kind, content, disk, unwritten, worker, received>>

\* The script writes to its output file at its own pace.
ScriptWrites ==
  /\ \E k \in 1 .. Len(unwritten) :
       /\ disk' = disk \o Piece(unwritten, 0, k)
       /\ unwritten' = SubSeq(unwritten, k + 1, Len(unwritten))
  /\ UNCHANGED <<kind, content, worker, conn, received>>

Finished == (conn.events = "in" \/ conn.closed) /\ UNCHANGED vars

Next ==
  \/ Reads \/ CgiWaits \/ ReadEnds \/ Writes \/ IoFails \/ Sends \/ SendFails
  \/ ScriptWrites \/ Finished

Spec == Init /\ [][Next]_vars

\* Files and sockets that are ready are served; the script gets to its end.
FairSpec ==
  /\ Spec
  /\ WF_vars(Reads) /\ WF_vars(ReadEnds) /\ WF_vars(Writes) /\ WF_vars(Sends)
  /\ WF_vars(ScriptWrites)

-----------------------------------------------------------------------------
(***************************************************************************)
(* Properties.                                                             *)
(***************************************************************************)

\* The kinds of the variables.
TypeOK ==
  /\ kind \in Kinds /\ content \in Contents
  /\ disk \in Seq(Bytes) /\ unwritten \in Seq(Bytes)
  /\ worker \in [data : Seq(Bytes), total : Nat, left : Nat, closed : BOOLEAN]
  /\ conn \in [outbound : Seq(Units), total : Nat, left : Nat,
               events : {"hold", "out", "in"}, closed : BOOLEAN]
  /\ received \in Seq(Units)

(***************************************************************************)
(* However the calls of FileFD and ClientFD cut it up, a reply sent to its *)
(* last byte is the whole file, the confirmation of a body that is on the  *)
(* disk to its last byte, or an error.                                     *)
(***************************************************************************)
WholeOrRefused ==
  kind # "CGI" /\ conn.events = "in" =>
    \/ kind = "GET" /\ received = <<"200">> \o content
    \/ kind = "POST" /\ received = <<"201">> /\ disk = content
    \/ received = <<"500">>

(***************************************************************************)
(* What the peer has is at every moment the beginning of one reply, and    *)
(* the beginning of a file is never followed by anything else, an error    *)
(* included: FileFD answers only when the reading is over.                 *)
(***************************************************************************)
OneReply ==
  /\ received = Piece(conn.outbound, 0, conn.total)
  /\ conn.total + conn.left = Len(conn.outbound)
  /\ conn.outbound # <<>> <=> worker.closed

(***************************************************************************)
(* The reply to a CGI request is sent when CgiFD is done reading, and then *)
(* it holds all that the script has to say.                                *)
(***************************************************************************)
OutputIsWhole ==
  kind = "CGI" /\ conn.events = "in" => received \in {<<"200">> \o CgiBody(content), <<"500">>}

\* Every exchange ends: the reply is sent to its end or the connection fails.
\* A script that writes nothing is the one exception.
Ends ==
  kind # "CGI" \/ content # <<>> ~> conn.events = "in" \/ conn.closed

=============================================================================
