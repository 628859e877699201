------------------------------ MODULE Exchange ------------------------------
(***************************************************************************)
(* What a connection promises to a peer that sends one request at a time:  *)
(* every request is handed on at most once, gets one final reply, and the  *)
(* server closes the connection with a reply and at no other moment.       *)
(***************************************************************************)
EXTENDS Naturals

CONSTANT Limit     \* bound: requests on one connection

VARIABLES
  asked,      \* requests the peer has begun
  answered,   \* final replies it has received
  busy,       \* whether the request is with its HttpRequest or CGIRequest
  closed      \* whether the server has closed the connection

vars == <<asked, answered, busy, closed>>

Init == asked = 0 /\ answered = 0 /\ busy = FALSE /\ closed = FALSE

Ask ==
  /\ ~closed /\ asked = answered /\ asked < Limit
  /\ asked' = asked + 1
  /\ UNCHANGED <<answered, busy, closed>>

Handle ==
  /\ ~busy /\ answered < asked
  /\ busy' = TRUE
  /\ UNCHANGED <<asked, answered, closed>>

\* The request may have been refused before anything was done with it.
Reply ==
  /\ answered < asked
  /\ answered' = answered + 1 /\ busy' = FALSE
  /\ closed' \in BOOLEAN
  /\ UNCHANGED asked

Next == Ask \/ Handle \/ Reply

\* Whatever is asked is answered in the end.
Spec == Init /\ [][Next]_vars /\ WF_vars(Reply)

=============================================================================
