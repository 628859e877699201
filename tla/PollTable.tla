----------------------------- MODULE PollTable -----------------------------
(***************************************************************************)
(* The pair of vectors the server polls, Server::_pollables and            *)
(* Server::_pfds (includes/server/Server.hpp), as operators on sequences.  *)
(* Both vectors are edited together: PollableFactory::createXFD appends to *)
(* both, Server::remove exchanges a slot with the last one and drops the   *)
(* last.  Positions start at 1 here and at 0 in the code.                  *)
(***************************************************************************)
EXTENDS Naturals, Sequences

CONSTANT NoFd       \* the descriptor -1 of a failed open()

(***************************************************************************)
(* struct pollfd: the descriptor, the events asked for and the events the  *)
(* last poll() returned.  "hold" is POLLHOLD, an empty event mask; "in"    *)
(* stands for POLLIN or POLLHUP in revents, the two Server::run serves     *)
(* with pollin(), and "err" for POLLERR alone.                             *)
(***************************************************************************)
Events  == {"in", "out", "hold"}
Revents == {"none", "in", "out", "err"}
NewPfd(fd, events) == [fd |-> fd, events |-> events, revents |-> "none"]

Last1(s)    == s[Len(s)]
PopBack(s)  == [j \in 1 .. Len(s) - 1 |-> s[j]]

\* std::swap of slot i with the back, then pop_back.
SwapPop(s, i) == [j \in 1 .. Len(s) - 1 |-> IF j = i THEN Last1(s) ELSE s[j]]

\* The occupants of a vector, and whether it holds each of them once.
Occupants(s)  == {s[i] : i \in DOMAIN s}
NoRepeat(s)   == \A i, j \in DOMAIN s : s[i] = s[j] => i = j

=============================================================================
