------------------------------ MODULE MCDetect ------------------------------
(* Texts of two entries, complete ones and others, with as much room for the *)
(* database as a comment in front makes; programs of one section that hold   *)
(* some of the signatures, at the entry point, elsewhere or at their end.    *)
EXTENDS Detect

Entry(name, n, pairs, eponly) == <<[name |-> name, n |-> n], [pairs |-> pairs], [eponly |-> eponly]>>
Joker == <<"?", "?">>
P1 == <<<<"6", "0">>, Joker, <<"F", "?">>>>
P2 == <<<<"?", "8">>>>
P3 == <<<<"6", "0">>, <<"1", "8">>, <<"F", "F">>, Joker>>
Blocks ==
  {Entry("a", 1, P1, TRUE), Entry("b", 9, P2, FALSE), Entry("a", 1, P3, FALSE),
   <<[name |-> "c", n |-> 2], [eponly |-> FALSE]>>, <<[pairs |-> P2], [eponly |-> TRUE]>>,
   <<[name |-> "d", n |-> 11], [pairs |-> P1]>>}

MCTexts ==
  {[lines |-> <<[other |-> n]>> \o b \o c \o e, sep |-> "lf", last |-> l] :
     n \in {0, 12, 40}, b \in Blocks, c \in Blocks, e \in {<< >>, <<[other |-> 1]>>}, l \in BOOLEAN}
    \union {[lines |-> <<[other |-> n]>> \o b \o c, sep |-> "crlf", last |-> l] :
               n \in {0, 5, 40}, b \in Blocks, c \in Blocks, l \in BOOLEAN}
    \union {[lines |-> b \o <<[other |-> n]>> \o b, sep |-> "cr", last |-> TRUE] : n \in {0, 5}, b \in Blocks}
    \union {[lines |-> <<[name |-> "a", n |-> n]>>, sep |-> "lf", last |-> l] : n \in 1 .. 5, l \in BOOLEAN}

\* Three bytes at an offset; the entry point, an address, is offset 352 or
\* another.
ProgramOf(machine, entry, at) ==
  [size |-> 400, lfanew |-> 64, machine |-> machine, dos |-> [magic |-> "MZ"],
   nt |-> [signature |-> "PE", sections |-> 1, optional |-> 224, directories |-> 16, entry |-> entry],
   dd |-> [k \in Entries |-> [vaddr |-> 0, size |-> 0]],
   shdr |-> <<[name |-> ".text", vaddr |-> 4000, vsize |-> 48, raw |-> 352, size |-> 48]>>,
   body |-> (at :> [byte |-> <<"6", "0">>]) @@ ((at + 1) :> [byte |-> <<"1", "8">>]) @@ ((at + 2) :> [byte |-> <<"F", "F">>])]
MCPrograms ==
  {ProgramOf("i386", 4000, 352), ProgramOf("i386", 4010, 396), ProgramOf("i386", 4020, 397),
   [ProgramOf("other", 9000, 0) EXCEPT !.lfanew = 128]}
MCModes == [noscans : BOOLEAN, matchonce : BOOLEAN]
=============================================================================
