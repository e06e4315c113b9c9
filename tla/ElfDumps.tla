------------------------------ MODULE ElfDumps ------------------------------
(***************************************************************************)
(* What dumpelf.c shows of an ELF file: for each of its dumps, the rows as *)
(* a function of the file.  Headings, columns and the names of flags are   *)
(* left out; a row keeps the numbers and names that are looked up for it.  *)
(***************************************************************************)
EXTENDS ElfNames

Warned(rows, isNone) == [rows |-> rows, warning |-> isNone]

-----------------------------------------------------------------------------
(* Headers *)

\* A position independent program gets another name for its type.
dump_fileheader(f) == [header |-> ehdr(f), pie |-> isELFpie(f)]

dump_sectionheaders(f) ==
  [rows |-> [i \in Readable(f) |-> [name |-> secname(f, i), header |-> shdrAt(f, i)]],
   corrupt |-> Indices(f) # Readable(f),
   warning |-> ehdr(f).shnum = 0]

\* The words of a section, converted; behind the end they are 0.
Word0(f, s, k) == IF At(Entries(f, s), k) = Null THEN 0 ELSE ecconvert(f, At(Entries(f, s), k))

GroupRow(f, s) ==
  [comdat |-> Word0(f, s, 0) = 1,
   signature |-> symname(f, s.info),
   members |-> [k \in 1 .. Count(s) - 1 |-> <<Word0(f, s, k), secname(f, Word0(f, s, k))>>]]
dump_sectiongroups(f) ==
  Warned([i \in OfType(f, SHT_GROUP) |-> GroupRow(f, shdrAt(f, i))], OfType(f, SHT_GROUP) = {})

\* Segments, and the sections in each.  Section 0 is not looked at.
Segments(f)    == {i \in 0 .. ehdr(f).phnum - 1 : phdrAt(f, i) # Null}
Mapping(f, i)  == {j \in Readable(f) \ {0} : Listed(shdrAt(f, j), phdrAt(f, i))}
dump_programheaders(f) ==
  LET unread == (Indices(f) \ {0}) \ Readable(f) IN
  [rows |-> [i \in Segments(f) |-> phdrAt(f, i)],
   mapping |-> IF Readable(f) \subseteq {0} THEN << >>
               ELSE [i \in Segments(f) |-> [j \in Mapping(f, i) |-> secname(f, j)]],
   corrupt |-> ehdr(f).shnum # 0 /\ (Segments(f) # 0 .. ehdr(f).phnum - 1 \/ (Segments(f) # {} /\ unread # {})),
   warning |-> ehdr(f).phnum = 0]

-----------------------------------------------------------------------------
(* Dynamic section: a tag, and a name or a value. *)

DYNTAGTEXT == {1, 14, 15, 29}      \* DT_NEEDED, DT_SONAME, DT_RPATH, DT_RUNPATH

DynRow(f, s, d) ==
  LET name == namebyoffset(f, s.link, d.val) IN
  IF d.tag \in DYNTAGTEXT /\ Shown(name) THEN <<d.tag, "name", name>> ELSE <<d.tag, "value", d.val>>
dump_dynamic(f) ==
  Warned([i \in OfType(f, SHT_DYNAMIC) |->
            [j \in {k \in 0 .. Count(shdrAt(f, i)) - 1 : dynAt(f, i, k) # Null} |-> DynRow(f, shdrAt(f, i), dynAt(f, i, j))]],
         OfType(f, SHT_DYNAMIC) = {})

-----------------------------------------------------------------------------
(* Relocations *)

NoSymbol == [value |-> 0, name |-> Null, version |-> Null]

relocsdef(f, s, r) ==
  LET e == symOfReloc(f, s, r)
      sym0 == namebyoffset(f, shdrAt(f, s.link).link, e.name)
      sec0 == secname(f, e.shndx)
  IN IF e = Null THEN NoSymbol
     ELSE [value |-> e.value, version |-> Null,
           name |-> IF Shown(sym0) THEN sym0 ELSE IF Shown(sec0) THEN sec0 ELSE Null]
relocsver(f, s, r) ==
  LET e == symOfReloc(f, s, r) IN
  IF e = Null THEN NoSymbol
  ELSE [value |-> e.value, version |-> symversion(f, R_SYM(r.info)),
        name |-> namebyoffset(f, shdrAt(f, s.link).link, e.name)]

\* Of REL in 64 bit files and of RELA in 32 bit files only the numbers are shown.
Detailed(f, s) == s.type = (IF f.bits = 32 THEN SHT_REL ELSE SHT_RELA)
Named(f, s, r) ==
  IF ~Detailed(f, s) THEN NoSymbol
  ELSE IF R_TYPE(r.info) \in RELTYPEDEF THEN relocsdef(f, s, r)
  ELSE IF R_TYPE(r.info) \in RELTYPEVER THEN relocsver(f, s, r)
  ELSE NoSymbol
Tail0(f, s, r) ==
  LET t == R_TYPE(r.info) IN
  IF ~Detailed(f, s) \/ t \in RELTYPESAFE(f) THEN <<"nothing", 0>>
  ELSE IF f.bits = 32 THEN IF t \in RELTYPEDEF \union RELTYPEVER THEN <<"nothing", 0>> ELSE <<"unknown", t>>
  ELSE IF t \in RELTYPESHEX \union RELTYPEPACK THEN <<"addend", r.addend>> ELSE <<"unknown", r.info>>

Relocations(f) == {i \in Readable(f) : shdrAt(f, i).type \in {SHT_REL, SHT_RELA, SHT_RELR}}
RelocRows(f, s) ==
  IF s.type = SHT_RELR THEN << >>
  ELSE [j \in {k \in 0 .. Count(s) - 1 : Reloc(f, s, k) # Null} |->
          LET r == Reloc(f, s, j) IN [r |-> r, symbol |-> Named(f, s, r), tail |-> Tail0(f, s, r)]]
dump_relocs(f) ==
  Warned([i \in Relocations(f) |-> RelocRows(f, shdrAt(f, i))], Relocations(f) = {})

-----------------------------------------------------------------------------
(* Unwind tables of ARM: pairs of words, read as they are stored.          *)

Top == Word \div 2       \* the bit that marks a word as no offset
prel31_decode(word, vaddr) ==
  LET offset == word % Top IN (IF offset >= Top \div 2 THEN vaddr + offset + Word - Top ELSE vaddr + offset) % Word

UnwindRow(f, s, j, w0, w1) ==
  LET vaddr == prel31_decode(w0, s.addr + 8 * j)
      n == namebyaddr(f, vaddr)
  IN [addr |-> vaddr, near |-> n,
      note |-> IF w0 >= Top THEN "corrupt" ELSE IF w1 = 1 THEN "cantunwind" ELSE IF w1 >= Top THEN "table" ELSE "none"]
dump_unwind(f) ==
  LET T == OfType(f, SHT_ARM_EXIDX)
      Pairs(s) == {j \in 0 .. s.size \div 8 - 1 : At(Entries(f, s), 2 * j) # Null}
  IN IF ehdr(f).machine # EM_ARM THEN Warned(<< >>, TRUE)
     ELSE Warned([i \in T |-> [j \in Pairs(shdrAt(f, i)) |->
                    LET s == shdrAt(f, i) IN
                    UnwindRow(f, s, j, At(Entries(f, s), 2 * j), At(Entries(f, s), 2 * j + 1))]], T = {})

-----------------------------------------------------------------------------
(* Symbols.  The number in versym has its hidden bit when it is compared    *)
(* with the size of the table, so a hidden version is not shown.           *)

NoVersion == [mark |-> "", name |-> Null, number |-> 0]
symbols2(f, v, e) ==
  IF ~Shown(vername(f, v)) THEN NoVersion
  ELSE [name |-> vername(f, v),
        mark |-> IF e.shndx = SHN_UNDEF \/ e.other % 4 = STV_HIDDEN THEN "@" ELSE "@@",
        number |-> IF e.shndx = SHN_UNDEF THEN v ELSE 0]
VersionOf(f, j, e) ==
  LET v == versymAt(f, j) IN
  IF v # Null /\ v \in 1 .. VERSIONS - 1 THEN symbols2(f, VERSYM(v), e) ELSE NoVersion

\* Whether symbol j of section i gets a version: with the dynamic table only
\* (option -D) up to the first symbol that is defined, else if it has a name.
Versioned(f, dynamic, i, j) ==
  IF dynamic THEN \A k \in 0 .. j : symAt(f, i, k) # Null => symAt(f, i, k).shndx = SHN_UNDEF
  ELSE /\ shdrAt(f, i).type = SHT_DYNSYM
       /\ Shown(namebyoffset(f, shdrAt(f, i).link, symAt(f, i, j).name))

SymRow(f, dynamic, i, j) ==
  LET e == symAt(f, i, j)
      name == namebyoffset(f, shdrAt(f, i).link, e.name)
  IN [symbol |-> e, name |-> IF Shown(name) THEN name ELSE "",
      version |-> IF Versioned(f, dynamic, i, j) THEN VersionOf(f, j, e) ELSE NoVersion]
dump_symbols(f, dynamic) ==
  LET Tables == OfType(f, SHT_DYNSYM) \union (IF dynamic THEN {} ELSE OfType(f, SHT_SYMTAB)) IN
  Warned([i \in Tables |->
            [j \in {k \in 0 .. Count(shdrAt(f, i)) - 1 : symAt(f, i, k) # Null} |-> SymRow(f, dynamic, i, j)]],
         Tables = {})

-----------------------------------------------------------------------------
(* Histograms of hash tables *)

\* gnuhash0: how many chains have each length, and how many symbols are in
\* the chains up to that length.
gnuhash0(size) ==
  LET K == DOMAIN size
      msize == IF K = {} THEN 0 ELSE Max({size[k] : k \in K})
      Number(i) == Cardinality({k \in K : size[k] = i})
      Covered[i \in 0 .. msize] == IF i = 0 THEN 0 ELSE Covered[i - 1] + i * Number(i)
  IN [i \in 0 .. msize |-> [number |-> Number(i), covered |-> Covered[i]]]

\* The length of each chain of .gnu.hash: it ends at an odd word.
gnuchains(f, s) ==
  LET nbucket == Word0(f, s, 0)
      symbias == Word0(f, s, 1)
      masks   == IF f.bits = 32 THEN Word0(f, s, 2) ELSE 2 * Word0(f, s, 2)
      bucket(k) == Word0(f, s, 4 + masks + k)
      chain(x)  == Word0(f, s, 4 + masks + nbucket + x)
      Last(x)   == Min({y \in x .. Len(Entries(f, s)) : chain(y) % 2 = 1})
      Length(k) == IF bucket(k) = 0 THEN 0 ELSE Last(bucket(k) - symbias) - (bucket(k) - symbias) + 1
  IN [k \in 0 .. nbucket - 1 |-> Length(k)]
gnuhash1(f, s) == IF Word0(f, s, 0) > 1 /\ Word0(f, s, 1) # 0 THEN gnuhash0(gnuchains(f, s)) ELSE << >>

\* Mutant of Linked: the last symbol is left out.
LinkedBelow(x, nchain) == x > 0 /\ x < nchain - 1
Linked(x, nchain) == x > 0 /\ x < nchain

\* A chain of .hash ends at 0 or at a number that is too large.  A chain with
\* a cycle would not end; tables here have none.
hashchains(f, s) ==
  LET nbucket == Word0(f, s, 0)
      nchain  == Word0(f, s, 1)
      At0(k)  ==
        LET P[n \in 0 .. nchain] ==
              IF n = 0 THEN Word0(f, s, 2 + k)
              ELSE IF Linked(P[n - 1], nchain) THEN Word0(f, s, 2 + nbucket + P[n - 1]) ELSE 0
        IN Cardinality({n \in 0 .. nchain : Linked(P[n], nchain)})
  IN [k \in 0 .. nbucket - 1 |-> At0(k)]
hash32(f, s) == IF Word0(f, s, 0) > 1 THEN gnuhash0(hashchains(f, s)) ELSE << >>

dump_histogram(f) ==
  [i \in OfType(f, SHT_GNU_HASH) \union OfType(f, SHT_HASH) |->
     LET s == shdrAt(f, i) IN
     [name |-> secnamebyoffset(f, s.name),
      rows |-> IF s.type = SHT_GNU_HASH THEN gnuhash1(f, s) ELSE hash32(f, s)]]

-----------------------------------------------------------------------------
(* Versions *)

versionsym1(f, v) ==
  IF v = 0 THEN <<"local", Null>>
  ELSE IF v = 1 THEN <<"global", Null>>
  ELSE <<IF v >= VERSYM_HIDDEN THEN "hidden" ELSE "version",
         IF VERSYM(v) < VERSIONS /\ vnames(f, VERSYM(v)) # 0 THEN vername(f, VERSYM(v)) ELSE "???">>
versionsym(f, s) ==
  [j \in {k \in 0 .. Count(s) - 1 : At(Entries(f, s), k) # Null} |-> versionsym1(f, ecconvert(f, At(Entries(f, s), j)))]

versionneed1(f, s, o) ==
  LET vn == needAt(f, s, o) IN [at |-> o, file |-> namebyoffset(f, s.link, vn.file), cnt |-> vn.cnt]
versionneed2(f, s, o) ==
  LET va == auxAt(f, s, o) IN
  [at |-> o, name |-> namebyoffset(f, s.link, va.name), flags |-> va.flags, other |-> va.other]
versionneed(f, s) ==
  LET N == Needs(f, s) IN
  [k \in DOMAIN N |-> [need |-> versionneed1(f, s, N[k]),
                       auxes |-> LET A == AuxesOf(f, s, N[k]) IN [a \in DOMAIN A |-> versionneed2(f, s, A[a])]]]

dump_version(f) ==
  LET Tables == OfType(f, SHT_GNU_versym) \union OfType(f, SHT_GNU_verneed) IN
  Warned([i \in Tables |-> LET s == shdrAt(f, i) IN
            IF s.type = SHT_GNU_versym THEN versionsym(f, s) ELSE versionneed(f, s)], Tables = {})
=============================================================================
