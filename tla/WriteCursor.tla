----------------------------- MODULE WriteCursor -----------------------------
(***************************************************************************)
(* The cursor of memfind.c in its writing mode: a block of size bytes of   *)
(* its own, written at cpos.  The end epos may be moved in and out again.  *)
(***************************************************************************)
EXTENDS FindCursor, Sequences, FiniteSetsExt, TLC

Nul == [char |-> "nul"]   \* a byte of 0

fxalloc(size) == [fmalloc(size) EXCEPT !.item = TRUE] @@ [size |-> size, data |-> [k \in 1 .. size |-> Nul]]

fgetsize(c) == c.epos - c.cpos + 1

\* The bytes from the cursor to its end.
Rest(c) == SubSeq(c.data, c.cpos + 1, c.epos + 1)

Write(c, bytes) ==
  LET At(k) == k - c.cpos IN
  [c EXCEPT !.cpos = @ + Len(bytes),
            !.data = [k \in DOMAIN @ |-> IF At(k) \in DOMAIN bytes THEN bytes[At(k)] ELSE @[k]]]

\* fsetu8, fsetu32: byte by byte, as far as they go.
fsetu(c, bytes) == Write(c, SubSeq(bytes, 1, Min({Len(bytes), fgetsize(c)})))

\* Bytes are written whole or not at all, and never the last one of the block.
fsetp(c, bytes) == IF c.cpos + Len(bytes) <= c.epos THEN Write(c, bytes) ELSE c

\* Mutant of freset: the end stays where it is.
fresetShort(c) == [c EXCEPT !.cpos = 0]

freset(c)  == [c EXCEPT !.cpos = 0, !.epos = c.size - 1]
fshrink(c) == [c EXCEPT !.cpos = 0, !.epos = c.cpos - 1]
=============================================================================
