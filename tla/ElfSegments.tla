----------------------------- MODULE ElfSegments -----------------------------
(***************************************************************************)
(* Which sections a segment holds: the tests of elfcode.c behind the       *)
(* section to segment mapping that readelf -l prints.  A section s and a   *)
(* segment p are headers as the readers of ElfFile give them.  The tests   *)
(* compute with unsigned numbers: one less than 0 is the largest number,   *)
(* and a sum beyond it starts again at 0.                                  *)
(***************************************************************************)
EXTENDS Integers

CONSTANT Word   \* how many numbers a machine word has

ASSUME WordAssumption == Word \in Nat \ {0}

\* elf.h, numbers cut to 16 bits.
SHF_ALLOC    == 2
SHF_TLS      == 1024
SHT_NOBITS   == 8
PT_LOAD      == 1
PT_DYNAMIC   == 2
PT_NOTE      == 4
PT_PHDR      == 6
PT_TLS       == 7
PT_GNU_EH_FRAME == 58704
PT_GNU_STACK    == 58705
PT_GNU_RELRO    == 58706
PT_GNU_SFRAME   == 58708
PT_GNU_MBIND    == 58709 .. 62804

Has(flags, bit) == (flags \div bit) % 2 = 1
Less1(n)        == IF n = 0 THEN Word - 1 ELSE n - 1
Plus(a, b)      == IF a + b < Word THEN a + b ELSE a + b - Word

\* .tbss takes no room outside of the TLS segment.
check_tbss(s, p) == Has(s.flags, SHF_TLS) /\ s.type = SHT_NOBITS /\ p.type # PT_TLS
get_size(s, p)   == IF check_tbss(s, p) THEN 0 ELSE s.size

\* TLS sections live in load, relro and TLS segments; a TLS segment has no
\* others, and the segment of the program headers none at all.
KindFits(s, p) == IF Has(s.flags, SHF_TLS) THEN p.type \in {PT_TLS, PT_GNU_RELRO, PT_LOAD}
                                           ELSE p.type \notin {PT_TLS, PT_PHDR}

\* Segments that are loaded have allocated sections only.
OnlyAllocated(p) ==
  p.type \in {PT_LOAD, PT_DYNAMIC, PT_GNU_EH_FRAME, PT_GNU_STACK, PT_GNU_RELRO, PT_GNU_SFRAME} \union PT_GNU_MBIND

\* Mutant of Within: where the section ends is not looked at.
WithinStart(at, size, start, length) ==
  /\ at >= start
  /\ at - start <= Less1(length)

Within(at, size, start, length) ==
  /\ at >= start
  /\ at - start <= Less1(length)
  /\ Plus(at - start, size) <= length

FileFits(s, p)   == s.type = SHT_NOBITS \/ Within(s.offset, get_size(s, p), p.offset, p.filesz)
MemoryFits(s, p) == Has(s.flags, SHF_ALLOC) => Within(s.addr, get_size(s, p), p.vaddr, p.memsz)

\* No empty section at the start or the end of a dynamic or note segment.
Inner(at, start, length) == at > start /\ at - start < length
NotOnEdge(s, p) ==
  \/ p.type \notin {PT_DYNAMIC, PT_NOTE}
  \/ s.size # 0 \/ p.memsz = 0
  \/ /\ s.type = SHT_NOBITS \/ Inner(s.offset, p.offset, p.filesz)
     /\ Has(s.flags, SHF_ALLOC) => Inner(s.addr, p.vaddr, p.memsz)

isshdrinphdr(s, p) == /\ KindFits(s, p)
                      /\ OnlyAllocated(p) => Has(s.flags, SHF_ALLOC)
                      /\ FileFits(s, p)
                      /\ MemoryFits(s, p)
                      /\ NotOnEdge(s, p)

\* What dump_programheaders lists under a segment.
Listed(s, p) == ~check_tbss(s, p) /\ isshdrinphdr(s, p)
=============================================================================
