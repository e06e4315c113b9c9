------------------------------ MODULE ElfNames ------------------------------
(***************************************************************************)
(* The names that elfcode.c looks up: of versions, of addresses, and those *)
(* that relocations give.                                                  *)
(***************************************************************************)
EXTENDS ElfFile

-----------------------------------------------------------------------------
(* ecmake_versionnames: what a file needs, a chain of chains.  Offsets     *)
(* count records.  A record that cannot be read does not move the walk.    *)

needAt(f, s, o) == verneed(f, At(Entries(f, s), o))
auxAt(f, s, o)  == vernaux(f, At(Entries(f, s), o))
Step(r)         == IF r = Null THEN 0 ELSE r.next

NeedOffsets(f, s) ==
  LET O[j \in 0 .. s.info] == IF j = 0 THEN 0 ELSE O[j - 1] + Step(needAt(f, s, O[j - 1])) IN O
AuxOffsets(f, s, o) ==
  LET vn == needAt(f, s, o)
      O[k \in 0 .. vn.cnt] == IF k = 0 THEN o + vn.aux ELSE O[k - 1] + Step(auxAt(f, s, O[k - 1]))
  IN O

\* The vernaux records in the order of the walk, each with its offset.
Needs(f, s) == SelectSeq([j \in 1 .. s.info |-> NeedOffsets(f, s)[j - 1]], LAMBDA o : needAt(f, s, o) # Null)
AuxesOf(f, s, o) ==
  SelectSeq([k \in 1 .. needAt(f, s, o).cnt |-> AuxOffsets(f, s, o)[k - 1]], LAMBDA a : auxAt(f, s, a) # Null)
Auxes(f, s) ==
  LET A[j \in 0 .. Len(Needs(f, s))] == IF j = 0 THEN << >> ELSE A[j - 1] \o AuxesOf(f, s, Needs(f, s)[j])
  IN A[Len(Needs(f, s))]

\* vnames[k]: the last record of a number counts; vnames[0] is the string table.
vnames(f, k) ==
  LET s == shdrbytype(f, SHT_GNU_verneed)
      Of == IF s = Null THEN << >> ELSE SelectSeq(Auxes(f, s), LAMBDA a : auxAt(f, s, a).other = k)
  IN IF Of # << >> THEN auxAt(f, s, Of[Len(Of)]).name ELSE IF s # Null /\ k = 0 THEN s.link ELSE 0
vername(f, k) == namebyoffset(f, vnames(f, 0), vnames(f, k))

VERSYM(v) == v % VERSYM_HIDDEN   \* VERSYM_VERSION

\* Mutant of symversion: the number is looked up in the entry behind the symbol's.
symversionNext(f, j) ==
  LET s == shdrbytype(f, SHT_GNU_versym)
      v == IF s = Null \/ At(Entries(f, s), j + 1) = Null THEN 0 ELSE VERSYM(ecconvert(f, At(Entries(f, s), j + 1)))
  IN IF v \in 1 .. VERSIONS - 1 THEN vername(f, v) ELSE Null

\* The version that the relocations print beside the symbol with number j.
\* The entry is found without a look at the number of entries.
symversion(f, j) ==
  LET s == shdrbytype(f, SHT_GNU_versym)
      v == IF s = Null \/ At(Entries(f, s), j) = Null THEN 0 ELSE VERSYM(ecconvert(f, At(Entries(f, s), j)))
  IN IF v \in 1 .. VERSIONS - 1 THEN vername(f, v) ELSE Null

-----------------------------------------------------------------------------
(* Symbols *)

Type(e) == e.info % 16
Bind(e) == e.info \div 16

\* The marks that ARM compilers leave where code or data begins.
checksec(f, name) == ehdr(f).machine \in {EM_ARM, EM_AARCH64} /\ name \in {"$a", "$d", "$t", "$x"}

Typed(f, e) == Type(e) \notin {STT_SECTION, STT_NOTYPE, STT_FILE} /\ (f.bits = 64 => e.shndx # SHN_ABS)
Plain(e)    == Type(e) = STT_NOTYPE /\ Bind(e) \in {STB_GLOBAL, STB_LOCAL}

\* ecmake_sectionthumbs, 32 bit ARM files only, reads symbols unconverted and has
\* room for so many.
THUMBS == 1024
thumbs(f) ==
  LET s == shdrbyname(f, ".symtab")
      Raw(j) == At(Entries(f, s), j)
      Marks == {j \in 0 .. Count(s) - 1 :
                  Raw(j) # Null /\ namebyoffset(f, s.link, Raw(j).name) \in {"$a", "$d", "$t", "$x"}}
  IN IF f.bits = 64 \/ ehdr(f).machine # EM_ARM \/ s = Null THEN {}
     ELSE IF s.type # SHT_SYMTAB THEN {}
     ELSE {Raw(j).value : j \in {k \in Marks : Cardinality({i \in Marks : i < k}) < THUMBS}}

Nearer(vaddr, offset, e) == e.value <= vaddr /\ vaddr - e.value < offset

UINT_MAX == Word - 1

\* One symbol of the first pass.  A mark at the address is passed over and noted.
Hit(f, r, name) == IF checksec(f, name) THEN [r EXCEPT !.needed = TRUE]
                                        ELSE [r EXCEPT !.name = name, !.done = TRUE]
Take(f, r, e, name, vaddr, near) ==
  IF ~Typed(f, e) THEN IF Plain(e) /\ e.value = vaddr THEN Hit(f, r, name) ELSE r
  ELSE IF ~near THEN IF e.value = vaddr THEN Hit(f, r, name) ELSE r
  ELSE IF Nearer(vaddr, r.offset, e)
       THEN [r EXCEPT !.name = name, !.offset = (vaddr - e.value) + IF e.value - 1 \in r.thumbs THEN 1 ELSE 0]
       ELSE r
TakeSymbol(f, s, r, e, vaddr, near) ==
  IF r.done \/ e = Null THEN r ELSE Take(f, r, e, namebyoffset(f, s.link, e.name), vaddr, near)

\* name64byaddr0, and the first pass of name32byaddr0: over the first symbol
\* table, for the symbol at the address or, if near, for the last one before it.
NoName(f) == [name |-> Null, offset |-> UINT_MAX, needed |-> FALSE, done |-> FALSE, thumbs |-> thumbs(f)]
name64byaddr0(f, s, vaddr, near) ==
  LET R[j \in 0 .. Count(s)] ==
        IF j = 0 THEN NoName(f) ELSE TakeSymbol(f, s, R[j - 1], sym(f, Entry(f, s, j - 1)), vaddr, near)
  IN R[Count(s)]

\* A mark makes the 32 bit variant look at the next address in a second pass.
IsNext(f, e, name, vaddr) ==
  /\ e.value = vaddr + 1 /\ name # Null
  /\ \/ Typed(f, e) /\ ~checksec(f, name)
     \/ ~Typed(f, e) /\ Plain(e) /\ checksec(f, name)
SecondPass(f, s, r, vaddr) ==
  LET Names == SelectSeq([j \in 1 .. Count(s) |-> sym(f, Entry(f, s, j - 1))],
                         LAMBDA e : e # Null /\ IsNext(f, e, namebyoffset(f, s.link, e.name), vaddr))
  IN IF r.needed /\ Names # << >> THEN [r EXCEPT !.name = namebyoffset(f, s.link, Head(Names).name)] ELSE r
name32byaddr0(f, s, vaddr, near) == SecondPass(f, s, name64byaddr0(f, s, vaddr, near), vaddr)

Answered(r) == [name |-> IF Shown(r.name) THEN r.name ELSE Null, offset |-> r.offset]
byaddr0(f, vaddr, near) ==
  LET s == shdrbytype(f, SHT_SYMTAB) IN
  Answered(IF s = Null THEN NoName(f) ELSE IF f.bits = 32 THEN name32byaddr0(f, s, vaddr, near)
                                                         ELSE name64byaddr0(f, s, vaddr, near))

-----------------------------------------------------------------------------
(* Relocations *)

R_SYM(info)  == info \div 256
R_TYPE(info) == info % 256

\* The tables of static/rel_type.ci for the 386 and x86-64, cut to a few types:
\* those that name a symbol or a section, those that name a symbol and its
\* version, and those with an addend or nothing behind.
RELTYPEDEF  == {1, 2}
RELTYPEVER  == {6, 7}
RELTYPESHEX == {1, 2, 6, 7}
RELTYPEPACK == {8}
RELTYPESAFE(f) == IF f.bits = 32 THEN {0, 8} ELSE {0}

Reloc(f, s, j) == IF s.type = SHT_REL THEN rel(f, At(Entries(f, s), j)) ELSE rela(f, At(Entries(f, s), j))
symOfReloc(f, s, r) ==
  LET d == shdrAt(f, s.link) IN IF d = Null THEN Null ELSE symOf(f, d, R_SYM(r.info))

\* byaddr1: what a relocation of the address names, a pair of a name and a
\* version.  A type of neither table, or a symbol without a name, is passed over.
PairOf(f, type, sym0, sec0, v) ==
  IF type \in RELTYPEDEF
  THEN IF Shown(sym0) THEN <<sym0, "">> ELSE IF Shown(sec0) THEN <<sec0, "">> ELSE Null
  ELSE IF type \in RELTYPEVER /\ Shown(sym0) THEN <<sym0, IF Shown(v) THEN v ELSE "">> ELSE Null
RelocName(f, s, r, e) ==
  IF e = Null THEN Null
  ELSE PairOf(f, R_TYPE(r.info), namebyoffset(f, shdrAt(f, s.link).link, e.name), secname(f, e.shndx),
              symversion(f, R_SYM(r.info)))

NamesIn(f, s, vaddr) ==
  LET rels == SelectSeq([j \in 1 .. Count(s) |-> Reloc(f, s, j - 1)], LAMBDA r : r # Null /\ r.offset = vaddr)
  IN SelectSeq([j \in DOMAIN rels |-> RelocName(f, s, rels[j], symOfReloc(f, s, rels[j]))], LAMBDA n : n # Null)
FirstName(names) == IF names = << >> THEN Null ELSE Head(names)
byaddr1(f, vaddr) ==
  LET A[i \in 0 .. ehdr(f).shnum] ==
        IF i = 0 THEN << >>
        ELSE A[i - 1] \o LET s == shdrAt(f, i - 1) IN
                         IF s # Null /\ s.type \in {SHT_REL, SHT_RELA} THEN NamesIn(f, s, vaddr) ELSE << >>
  IN FirstName(A[ehdr(f).shnum])

-----------------------------------------------------------------------------
\* ecget_namebyaddr: the name and, in offset, how far the address is behind it:
\* a symbol at the address, else one at the next address if a section begins
\* here, else what a relocation names, else the nearest symbol, else the section.
\* Names of relocations are pairs; the others get an empty version.
Pair(name) == IF name = Null THEN Null ELSE <<name, "">>
Behind0(sec, back) == [name |-> Pair(IF back.name # Null THEN back.name ELSE sec), offset |-> back.offset]
Else(name, other)  == IF name # Null THEN name ELSE other
NameOrNear(f, vaddr, sec, name) ==
  IF name # Null THEN [name |-> name, offset |-> 0] ELSE Behind0(sec, byaddr0(f, vaddr, TRUE))
namebyaddr(f, vaddr) ==
  LET sec == secnamebyaddr(f, vaddr) IN
  NameOrNear(f, vaddr, sec,
    Else(Pair(Else(byaddr0(f, vaddr, FALSE).name,
                   IF sec = Null THEN Null ELSE byaddr0(f, vaddr + 1, FALSE).name)),
         byaddr1(f, vaddr)))
=============================================================================
