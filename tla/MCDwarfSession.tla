---------------------------- MODULE MCDwarfSession ----------------------------
(* Code before debug sections, as linkers lay files out; the debug sections  *)
(* in every order, and files with two sections of one kind.                  *)
EXTENDS DwarfSession

Debugging == {"eh_frame", "info", "line"}

MCLayouts ==
  {<<"text">> \o s : s \in {t \in [1 .. 3 -> Debugging] : {t[1], t[2], t[3]} = Debugging}}
  \cup {<<"text", "info", "info">>, <<"line", "line", "info">>}
=============================================================================
