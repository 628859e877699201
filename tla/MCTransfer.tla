----------------------------- MODULE MCTransfer -----------------------------
(***************************************************************************)
(* Small instances of Transfer for TLC.                                    *)
(***************************************************************************)
EXTENDS Transfer

\* Nothing, a full buffer exactly, and a little more than two buffers of 2; the
\* last is also an output with headers, a blank line and a body.
Letters == {<<>>, <<"a", "b">>, <<"a", "b", "c", "d", "e">>, <<"a", "-", "c", "-", "e">>}

=============================================================================
