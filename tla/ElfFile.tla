------------------------------- MODULE ElfFile -------------------------------
(***************************************************************************)
(* An ELF file as elfcode.c and elfcode-endian.c read it.                  *)
(*                                                                         *)
(* A file is [be, bits, ehdr, shdr, phdr, body]: its byte order and class, *)
(* the file header, the section and the program headers (Null where the    *)
(* file is cut off), and for each file offset with contents the entries    *)
(* stored there.  Numbers have 16 bits and are kept as the file stores     *)
(* them, so one that is not converted in a big endian file is another      *)
(* number.  A string table is the sequence of its names, and the offset of *)
(* a name is its place in it; offset 0 is the empty name.  The 32 and the  *)
(* 64 bit variants of a function differ in nothing but the structures,     *)
(* unless an operator here tests bits.                                     *)
(***************************************************************************)
EXTENDS ElfSegments, Sequences, FiniteSetsExt

CONSTANT Null   \* a pointer that is NULL

ASSUME NullAssumption == Null \notin Int

\* elf.h, numbers folded to 16 bits.
SHT_SYMTAB == 2
SHT_RELA == 4
SHT_HASH == 5
SHT_DYNAMIC == 6
SHT_NOTE == 7
SHT_REL == 9
SHT_DYNSYM == 11
SHT_GROUP == 17
SHT_RELR == 19
SHT_ARM_EXIDX == 28673
SHT_GNU_HASH == 65526
SHT_GNU_verneed == 65534
SHT_GNU_versym == 65535
DT_FLAGS_1 == 65531
DF_1_PIE == 2048
DT_MIPS_LOCAL_GOTNO == 28682
DT_MIPS_SYMTABNO == 28689
DT_MIPS_GOTSYM == 28691
STT_NOTYPE == 0
STT_SECTION == 3
STT_FILE == 4
STB_LOCAL == 0
STB_GLOBAL == 1
STV_HIDDEN == 2
SHN_UNDEF == 0
SHN_ABS == 65521
EM_386 == 3
EM_IAMCU == 6
EM_MIPS == 8
EM_ARM == 40
EM_X86_64 == 62
EM_AARCH64 == 183
ET_CORE == 4
VERSYM_HIDDEN == 32768
VERSIONS == 1024   \* NELEMENTS(vnames)

-----------------------------------------------------------------------------
(* elfcode-endian.c *)

Swapped(v) == (v % 256) * 256 + v \div 256
ecconvert(f, v) == IF f.be THEN Swapped(v) ELSE v
Order(f, r, fields) ==
  IF r = Null THEN Null ELSE [k \in DOMAIN r |-> IF k \in fields THEN ecconvert(f, r[k]) ELSE r[k]]

dyn(f, r)     == Order(f, r, {"tag", "val"})
header(f, r)  == Order(f, r, {"type", "machine", "phnum", "shnum", "shstrndx"})
nhdr(f, r)    == Order(f, r, {"namesz", "descsz", "type"})
phdr(f, r)    == Order(f, r, {"type", "flags", "offset", "vaddr", "filesz", "memsz"})
rel(f, r)     == Order(f, r, {"offset", "info"})
rela(f, r)    == Order(f, r, {"offset", "info", "addend"})
\* Mutant of shdr: one field is left as it is stored.
shdrInfoRaw(f, r) == Order(f, r, {"name", "type", "flags", "addr", "offset", "size", "link", "entsize"})
shdr(f, r)    == Order(f, r, {"name", "type", "flags", "addr", "offset", "size", "link", "info", "entsize"})
\* st_info and st_other are bytes.
sym(f, r)     == Order(f, r, {"name", "value", "size", "shndx"})
vernaux(f, r) == Order(f, r, {"flags", "other", "name", "next"})
verneed(f, r) == Order(f, r, {"version", "cnt", "file", "aux", "next"})

-----------------------------------------------------------------------------
(* The headers *)

ehdr(f)  == header(f, f.ehdr)
At(s, i) == IF i + 1 \in DOMAIN s THEN s[i + 1] ELSE Null

phdrAt(f, i) == phdr(f, At(f.phdr, i))
\* An index of -1 is that of a section that was not found.
shdrAt(f, i) == shdr(f, At(f.shdr, i))

Indices(f)  == 0 .. ehdr(f).shnum - 1
Readable(f) == {i \in Indices(f) : shdrAt(f, i) # Null}
First(S)    == IF S = {} THEN -1 ELSE Min(S)

OfType(f, t)       == {i \in Readable(f) : shdrAt(f, i).type = t}
indexbytype(f, t)  == First(OfType(f, t))
shdrbytype(f, t)   == shdrAt(f, indexbytype(f, t))
shdrbyoffset(f, o) == shdrAt(f, First({i \in Readable(f) : shdrAt(f, i).offset = o}))

\* The entries that a section header points to, and how many it says there are.
Entries(f, s) == IF s.offset \in DOMAIN f.body THEN f.body[s.offset] ELSE << >>
Count(s)      == s.size \div s.entsize

-----------------------------------------------------------------------------
(* Names *)

\* A place beyond the end of a string table names nothing; at the end, the name is
\* what stands behind the table, if anything does.
namebyoffset(f, i, off) ==
  LET s == shdrAt(f, i) IN
  IF s = Null \/ off > s.size THEN Null ELSE At(Entries(f, s), off)
Shown(name) == name # Null /\ name # ""

\* The names of sections are not looked for within the size of their table.
secnamebyoffset(f, off) ==
  LET s == shdrAt(f, ehdr(f).shstrndx) IN IF s = Null THEN Null ELSE At(Entries(f, s), off)
secnamebyshdr(f, s)     == IF s = Null THEN Null ELSE secnamebyoffset(f, s.name)
secname(f, i)           == secnamebyshdr(f, shdrAt(f, i))
indexbyname(f, name)    == IF Shown(name) THEN First({i \in Readable(f) : secname(f, i) = name}) ELSE -1
shdrbyname(f, name)     == shdrAt(f, indexbyname(f, name))
secnamebyaddr(f, vaddr) == secname(f, First({i \in Readable(f) : shdrAt(f, i).addr = vaddr}))

-----------------------------------------------------------------------------
(* Entries *)

Entry(f, s, j) == IF j < Count(s) THEN At(Entries(f, s), j) ELSE Null

symAt(f, i, j) ==
  LET s == shdrAt(f, i) IN
  IF s # Null /\ s.type \in {SHT_SYMTAB, SHT_DYNSYM} THEN sym(f, Entry(f, s, j)) ELSE Null

\* The relocations do not ask how many symbols the section has.
symOf(f, s, j) == sym(f, At(Entries(f, s), j))

dynAt(f, i, j) ==
  LET s == shdrAt(f, i) IN IF s # Null /\ s.type = SHT_DYNAMIC THEN dyn(f, Entry(f, s, j)) ELSE Null

versymAt(f, j) ==
  LET s == shdrbytype(f, SHT_GNU_versym)
      v == IF s = Null THEN Null ELSE Entry(f, s, j)
  IN IF v = Null THEN Null ELSE ecconvert(f, v)

\* The first entry with the tag, in the first dynamic section that has one.  The
\* code does not ask whether an entry is there: a file holds all entries before
\* this one that its dynamic sections say they have.
value(f, tag) ==
  LET Tagged(i) == {j \in 0 .. Count(shdrAt(f, i)) - 1 : dynAt(f, i, j) # Null /\ dynAt(f, i, j).tag = tag}
      i == First({k \in OfType(f, SHT_DYNAMIC) : Tagged(k) # {}})
  IN IF i = -1 THEN 0 ELSE dynAt(f, i, First(Tagged(i))).val

isELFpie(f)  == Has(value(f, DT_FLAGS_1), DF_1_PIE)
isELFcore(f) == ehdr(f).type = ET_CORE

\* Notes of a section: the header, the name and where the description begins.
nhdrAt(f, i) ==
  LET s == shdrAt(f, i) IN IF s # Null /\ s.type = SHT_NOTE THEN nhdr(f, At(Entries(f, s), 0)) ELSE Null
nhdrname(f, i) == LET h == nhdrAt(f, i) IN IF h # Null /\ h.namesz > 0 THEN h.name ELSE Null
HasDesc(h)     == h.namesz > 0 /\ h.descsz > 0

\* The symbol of a group, read without conversion.
symname(f, j) ==
  LET s == shdrbytype(f, SHT_SYMTAB)
      r == IF s = Null THEN Null ELSE At(Entries(f, s), j)
  IN IF r # Null /\ r.info % 16 # STT_SECTION THEN namebyoffset(f, s.link, r.name) ELSE Null
=============================================================================
