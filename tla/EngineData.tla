------------------------------ MODULE EngineData ------------------------------
(***************************************************************************)
(* The records the address engine of opcode-engine.c keeps for an address, *)
(* and what one DWARF entry does to them.  No state here: the abstract     *)
(* table (AddressMap) and the sorted array (AddressEngine) share it.       *)
(***************************************************************************)
EXTENDS Integers

CONSTANTS
  W,          \* addresses are 0 .. W-1 (2^64 in the code)
  Names,      \* function and symbol names
  Files,      \* source file names
  Readable,   \* those of them that can be opened
  Lens,       \* values of DW_AT_high_pc
  Lines,      \* line numbers
  Absent,     \* the attribute is missing, or has a form the code does not read
  NoDebug, NoSymbol, NoCode   \* NULL pointers

ASSUME WAssumption     == W \in Nat \ {0}
ASSUME LensAssumption  == Lens \subseteq Nat
ASSUME LinesAssumption == Lines \subseteq Nat
ASSUME ReadableAssumption == Readable \subseteq Files
ASSUME NullAssumption  ==
  Absent \notin Names \cup Files \cup Lens \cup Lines

Addr == 0 .. W - 1

\* Mutant of Wrap: an address type too wide to wrap.
WrapNever(n) == n

\* uint64_t addition: operands below W, at most one wrap.
Wrap(n) == IF n >= W THEN n - W ELSE n

\* The lines before a function that the first snippet of a file shows.
Context == 5

Snippet == Int \X Nat

\* The lookups of the engine's callers: oeseebyaddr and oeaskbyaddr by mode.
Questions == {"SeeDebug", "AskDebug", "AskSymbol", "AskGroup"}

\* ocdebug_t: the fields a lookup or a snippet depends on.
Debug == [laddr : Addr, haddr : Addr, name : Names \cup {Absent}, nline : Nat,
          source : Files \cup {Absent}, code : Snippet \cup {NoCode}]

\* ocsymbol_t, made for PLT stubs only.
Symbol == [laddr : Addr, haddr : Addr, name : Names]

ASSUME NullRecordAssumption ==
  NoDebug \notin Debug /\ NoSymbol \notin Symbol /\ NoCode \notin Snippet

\* A DW_TAG_subprogram DIE with a DW_AT_low_pc, and a row of a line table.
Subprogram == [low : Addr, len : {n \in Lens : n < W} \cup {Absent},
               name : Names \cup {Absent}, line : Lines \cup {Absent},
               file : Files \cup {Absent}]
Row == [pc : Addr, line : Lines \cup {Absent}, file : Files \cup {Absent}]

odmalloc(v) == [laddr |-> v, haddr |-> v, name |-> Absent, nline |-> 0,
                source |-> Absent, code |-> NoCode]

osmalloc(v, n) == [laddr |-> v, haddr |-> v, name |-> n]

Given(new, old) == IF new = Absent THEN old ELSE new

\* execute_store_sp: the attributes of a DIE overwrite what they mention.
Describe(d, s) ==
  [d EXCEPT !.haddr  = IF s.len = Absent THEN @ ELSE Wrap(d.laddr + s.len),
            !.name   = Given(s.name, @),
            !.nline  = IF s.line = Absent THEN @ ELSE s.line + 1,
            !.source = Given(s.file, @)]

\* execute_src: a row overwrites what libdwarf knows of it.
Locate(d, r) == [d EXCEPT !.nline = Given(r.line, @), !.source = Given(r.file, @)]

Covers(d, v) == d # NoDebug /\ d.laddr <= v /\ v < d.haddr

HasSource(d) == d # NoDebug /\ d.source # Absent

(***************************************************************************)
(* execute_acc: the snippet of an entry continues after the previous entry *)
(* when both come from one file, and otherwise starts Context lines before *)
(* its own line; xstrgrab answers NULL when a bound is 0 or the file does  *)
(* not open.                                                               *)
(***************************************************************************)
Grab(file, from, to) ==
  IF file \in Readable /\ from # 0 /\ to # 0 THEN <<from, to>> ELSE NoCode

SnippetAfter(prev, d) ==
  IF HasSource(prev) /\ prev.source = d.source
  THEN Grab(d.source, prev.nline + 1, d.nline)
  ELSE Grab(d.source, d.nline - Context, d.nline)

Illustrate(prev, d) ==
  IF HasSource(d) THEN [d EXCEPT !.code = SnippetAfter(prev, d)] ELSE d
=============================================================================
