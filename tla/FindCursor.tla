------------------------------ MODULE FindCursor ------------------------------
(***************************************************************************)
(* The read cursor of memfind.c (find_t in its reading mode): a position   *)
(* in a buffer whose last byte is epos, and the buffer pointer.  A cursor  *)
(* that leaves the buffer loses the pointer and every later read fails.    *)
(***************************************************************************)
EXTENDS Integers

Cursor == [item : BOOLEAN, cpos : Nat, epos : Int]

\* fmalloc of size bytes that somebody else owns; NULL when there are none.
fmalloc(size) == [item |-> size > 0, cpos |-> 0, epos |-> size - 1]

fmove(c, cpos) == [c EXCEPT !.cpos = cpos, !.item = @ /\ cpos <= c.epos]

fstep(c, n) == fmove(c, c.cpos + n)

\* Mutant of fgetp: the bytes are looked at and stay.
fgetpStill(c, n) == c

\* Mutant of fgetp: a read past the end leaves the cursor where it is.
fgetpWhole(c, n) == IF c.item /\ c.cpos + n <= c.epos + 1 THEN fmove(c, c.cpos + n) ELSE c

\* fgetp moves a live cursor past n bytes, and answers where they start when
\* all of them are in the buffer: the last read ends one past epos.
fgetp(c, n) == IF c.item THEN fmove(c, c.cpos + n) ELSE c

Gets(c, n) == c.item /\ c.cpos + n <= c.epos + 1
=============================================================================
