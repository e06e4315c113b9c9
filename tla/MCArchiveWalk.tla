---------------------------- MODULE MCArchiveWalk ----------------------------
(* Up to three members of every kind, empty, with padding and without; bytes *)
(* between headers that read as nothing, or as a header with or without more *)
(* behind it.                                                                *)
EXTENDS ArchiveWalk

MCMembers  == [kind : Kinds, size : 0 .. 2]
MCArchives == UNION {[1 .. n -> MCMembers] : n \in 0 .. 3}
MCStrays   == {[kind |-> "other", size |-> 0], [kind |-> "short", size |-> 1],
               [kind |-> "names", size |-> 3]}
=============================================================================
