--------------------------- MODULE MCServerLoop ---------------------------
(***************************************************************************)
(* Small instances of ServerLoop for TLC.                                  *)
(***************************************************************************)
EXTENDS ServerLoop, TLC

\* Addresses of one kind are interchangeable: only identity matters.
Symmetric == Permutations(Clients) \cup Permutations(Files) \cup Permutations(Cgis)

=============================================================================
