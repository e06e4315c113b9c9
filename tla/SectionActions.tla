--------------------------- MODULE SectionActions ---------------------------
(***************************************************************************)
(* dump.c: the actions [secname, act, value] of an option list.  An action *)
(* shows the section of a name, or has no name and changes bytes; two of   *)
(* the changes, in units of two bytes, stand for all of them.              *)
(***************************************************************************)
EXTENDS Integers, Sequences

U16 == 65535

\* dump_actions0: add16 does not carry out of the unit.
Changed(a, v) ==
  CASE a.act = "not16" -> U16 - v
    [] a.act = "add16" -> IF v + a.value > U16 THEN v + a.value - U16 ELSE v + a.value
    [] OTHER -> v
dump_actions1(actions, v) ==
  LET V[k \in 0 .. Len(actions)] == IF k = 0 THEN v ELSE Changed(actions[k], V[k - 1]) IN V[Len(actions)]

\* Mutant of isnamedone: only the action before this one is looked at.
isnamedoneBefore(actions, k) == k > 1 /\ actions[k - 1].secname = actions[k].secname

\* A section is changed, in place, the first time one of the actions names it.
isnamedone(actions, k) == \E j \in 1 .. k - 1 : actions[j].secname = actions[k].secname
=============================================================================
