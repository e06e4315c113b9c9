------------------------------ MODULE MCSnippets ------------------------------
(* Three addresses, two files of which one opens, and lines on both sides of *)
(* the context that the first snippet of a file shows.                       *)
EXTENDS AddressEngine

CONSTANTS f1, f2

MCFiles    == {f1, f2}
MCReadable == {f1}
MCLines    == {Context, Context + 2}
=============================================================================
