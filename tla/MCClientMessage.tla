-------------------------- MODULE MCClientMessage --------------------------
(***************************************************************************)
(* Small instances of ClientMessage for TLC.                               *)
(***************************************************************************)
EXTENDS ClientMessage

Get(fields, lines, valid) ==
  [method |-> "GET", fields |-> fields, length |-> 0, body |-> <<>>, entity |-> <<>>,
   lines |-> lines, valid |-> valid]

Entity(first, n) == [i \in 1 .. n |-> Data(first + i)]

\* A body announced by Content-Length, and one in chunks of one byte and n - 1.
Sized(fields, first, n) ==
  [method |-> "POST", fields |-> fields, length |-> n, body |-> Entity(first, n),
   entity |-> Entity(first, n), lines |-> 1, valid |-> TRUE]

Chunked(fields, first, n) ==
  [method |-> "POST", fields |-> fields, length |-> 0, entity |-> Entity(first, n),
   body |-> <<Size(1), Crlf, Data(first + 1), Crlf, Size(n - 1), Crlf>>
            \o Entity(first + 1, n - 1) \o <<Crlf, Size(0), Crlf, Crlf>>,
   lines |-> 1, valid |-> TRUE]

\* Everything, too long and malformed requests included.
Assorted == {
  Get(<<"host">>, 1, FALSE),
  Get(<<"close", "host">>, 3, TRUE),
  Sized(<<"length", "host">>, 0, 2),
  Sized(<<"length", "expect", "host">>, 10, 3),
  Sized(<<"length", "close", "host">>, 20, 4),
  Chunked(<<"chunked", "host">>, 30, 3),
  Chunked(<<"chunked", "expect", "host">>, 40, 2),
  Chunked(<<"chunked", "host">>, 50, 4) }

\* Requests a careful peer sends, each within the limits, none in chunks: the
\* CRLF after the last chunk would be taken for a part of the next header.
Careful == {
  Get(<<"host">>, 1, TRUE),
  Get(<<"host">>, 1, FALSE),
  Get(<<"close", "host">>, 2, TRUE),
  Sized(<<"length", "host">>, 0, 2),
  Sized(<<"length", "close", "host">>, 10, 1),
  Sized(<<"length", "expect", "host">>, 20, 3) }

\* The 100-continue exchange, and "Connection: close" as the last field.
Continued == { Sized(<<"length", "expect", "host">>, 0, 2) }
ClosesLast == { Get(<<"host", "close">>, 2, TRUE) }

=============================================================================
