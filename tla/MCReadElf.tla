------------------------------ MODULE MCReadElf ------------------------------
(* Small files of four kinds, each in both byte orders.  Sections are laid   *)
(* out by hand: contents at offsets 100, 200, ...; string tables name all.   *)
EXTENDS ReadElf, TLC

Names == <<"", "f", "g", "$t", "V1", "V2", "libc", ".got", ".symtab", ".text", ".data">>
N(name) == (CHOOSE k \in DOMAIN Names : Names[k] = name) - 1

Sec(name, type, offset, size, link, info, entsize) ==
  [name |-> N(name), type |-> type, flags |-> 0, addr |-> 0, offset |-> offset, size |-> size,
   link |-> link, info |-> info, entsize |-> entsize]
At0(s, addr, flags) == [s EXCEPT !.addr = addr, !.flags = flags]
NoSec   == Sec("", 0, 0, 0, 0, 0, 0)
Strings == Sec("", 3, 100, Len(Names), 0, 0, 0)
File(bits, machine, secs, segs, body) ==
  [be |-> FALSE, bits |-> bits,
   ehdr |-> [type |-> 2, machine |-> machine, phnum |-> Len(segs), shnum |-> Len(secs) + 2, shstrndx |-> 1],
   shdr |-> <<NoSec, Strings>> \o secs, phdr |-> segs,
   body |-> body @@ (0 :> << >>) @@ (100 :> Names)]
Sym(name, val, type, bind, shndx) ==
  [name |-> N(name), value |-> val, size |-> 4, info |-> type + 16 * bind, other |-> 0, shndx |-> shndx]
NoSym == Sym("", 0, 0, 0, 0)

\* A dynamic program: two symbols with versions, relocations, hash tables.
Need(cnt, next) == [version |-> 1, cnt |-> cnt, file |-> N("libc"), aux |-> 1, next |-> next]
Aux(name, other, next) == [flags |-> 0, other |-> other, name |-> N(name), next |-> next]
Relocation(bits, sym0, type) ==
  IF bits = 64 THEN [offset |-> 512, info |-> 256 * sym0 + type, addend |-> 3]
               ELSE [offset |-> 512, info |-> 256 * sym0 + type]
DynFile(bits, v1, v2, g, shndx, type, hash) ==
  LET relType == IF bits = 64 THEN SHT_RELA ELSE SHT_REL IN
  File(bits, 3,
    <<Sec("f", SHT_DYNSYM, 200, 48, 1, 1, 16), Sec("g", SHT_GNU_versym, 300, 6, 2, 0, 2),
      Sec("V1", SHT_GNU_verneed, 400, 64, 1, 2, 0), Sec("V2", relType, 500, 36, 2, 0, 12),
      Sec("$t", SHT_DYNAMIC, 600, 24, 1, 0, 8), Sec("libc", SHT_HASH, 700, 28, 2, 0, 4),
      Sec(".text", SHT_GNU_HASH, 800, 40, 2, 0, 4), Sec("g", SHT_NOTE, 900, 28, 0, 0, 0),
      Sec("", SHT_GROUP, 1000, 8, 2, 1, 4)>>,
    << >>,
    (200 :> <<NoSym, Sym("f", 300, 2, 1, 0), Sym(g, 512, 1, 1, shndx)>>) @@
    (300 :> <<0, v1, v2>>) @@
    (400 :> <<Need(1, 2), Aux("V1", 2, 0), Need(1, 0), Aux("V2", IF v2 = 2 THEN 2 ELSE 3, 0)>>) @@
    (500 :> <<Relocation(bits, 1, type), Relocation(bits, 2, 7), Relocation(bits, 0, 8)>>) @@
    (600 :> <<[tag |-> 1, val |-> N("libc")], [tag |-> 5, val |-> 100], [tag |-> DT_FLAGS_1, val |-> DF_1_PIE]>>) @@
    (700 :> hash) @@
    (800 :> IF bits = 32 THEN <<2, 1, 1, 5, 77, 1, 3, 8, 9, 11>> ELSE <<2, 1, 1, 5, 77, 78, 0, 1, 6, 11>>) @@
    (900 :> <<[namesz |-> 4, descsz |-> 12, type |-> 5, name |-> "f"], FEATURE_1_AND, 4, 3>>) @@
    (1000 :> <<1, 4>>))
\* Both symbols in one chain, one in each, one that is linked behind the other.
Hashes == {<<2, 3, 1, 0, 0, 2, 0>>, <<2, 3, 2, 1, 0, 0, 0>>, <<2, 3, 0, 2, 0, 0, 1>>}
Chained == CHOOSE h \in Hashes : TRUE
DynFiles ==
  {DynFile(b, v1, v2, gx[1], gx[2], 7, Chained) :
     b \in {32, 64}, v1 \in {1, 2, 32770}, v2 \in {0, 2, 3}, gx \in {<<"g", 0>>, <<"g", 4>>, <<"", 4>>}}
    \union {DynFile(b, 1, 2, "g", 4, 2, Chained) : b \in {32, 64}}
    \union {DynFile(b, 2, 3, "g", 4, 7, h) : b \in {32, 64}, h \in Hashes}

\* An ARM program with marks, two symbols, and two addresses to unwind.
SymbolAt(val) == {Sym("f", val, 2, 1, 4), Sym("g", val, 1, 0, 4), Sym("$t", val, 0, 0, 4), Sym("", val, 0, 1, 4)}
ArmFile(a, b, to, vendors) ==
  File(32, EM_ARM,
    <<Sec(".symtab", SHT_SYMTAB, 200, 48, 1, 1, 16), At0(Sec("V1", SHT_ARM_EXIDX, 300, 16, 4, 0, 8), 1000, SHF_ALLOC),
      At0(Sec(".text", 1, 400, 16, 0, 0, 0), 1016, SHF_ALLOC),
      Sec("V2", SHT_ARM_ATTRIBUTES, 500, 1 + VendorStart(vendors, Len(vendors)) + VendorLength(vendors[Len(vendors)]) - 1, 0, 0, 0)>>,
    << >>,
    (200 :> <<NoSym, a, b>>) @@ (300 :> <<to, 1, (65536 + to - 8) % 32768, 40000>>) @@ (400 :> <<1, 2>>) @@ (500 :> vendors))
ArmFiles ==
  {ArmFile(a, b, to, v) : a \in UNION {SymbolAt(x) : x \in {1016, 1017}}, b \in UNION {SymbolAt(x) : x \in {1017, 1020}},
     to \in {16, 22}, v \in {<<[vendor |-> "aeabi", attrs |-> 3]>>}}
    \union {ArmFile(NoSym, Sym("f", 1016, 2, 1, 4), 16, <<[vendor |-> x, attrs |-> 3], [vendor |-> "aeabi", attrs |-> 2]>>) :
              x \in {"gnu", "other"}}

\* MIPS: a table of up to four slots and counts that fit it, or do not.
GotFile(bits, slots, gotno, gotsym, symtabno) ==
  File(bits, EM_MIPS,
    <<At0(Sec(".got", 1, 200, slots * (bits \div 8), 0, 0, bits \div 8), 2000, SHF_ALLOC),
      Sec("f", SHT_DYNSYM, 300, 48, 1, 1, 16), Sec("V1", SHT_DYNAMIC, 400, 24, 1, 0, 8)>>,
    << >>,
    (200 :> [k \in 1 .. slots |-> 3 * k]) @@ (300 :> <<NoSym, Sym("f", 8, 2, 1, 0), Sym("g", 9, 2, 1, 0)>>) @@
    (400 :> <<[tag |-> DT_MIPS_LOCAL_GOTNO, val |-> gotno], [tag |-> DT_MIPS_GOTSYM, val |-> gotsym],
              [tag |-> DT_MIPS_SYMTABNO, val |-> symtabno]>>))
GotFiles == {GotFile(b, s, n, g, y) : b \in {32, 64}, s \in 2 .. 4, n \in 0 .. 3, g \in 1 .. 3, y \in 2 .. 3}

\* Segments: one section, one segment, edges that meet, cross and miss.
Segment(type, offset, vaddr, filesz, memsz) ==
  [type |-> type, flags |-> 5, offset |-> offset, vaddr |-> vaddr, filesz |-> filesz, memsz |-> memsz]
SegFile(bits, type, flags, offset, size, filesz, seg, cut) ==
  File(bits, 3,
    <<At0(Sec(".data", type, offset, size, 0, 0, 0), 800 + offset, flags)>> \o (IF cut THEN <<Null>> ELSE << >>),
    <<Segment(seg, 210, 1010, filesz, 20)>>, offset :> << >>)
SegFiles ==
  {SegFile(32, t, ls[1], o, z, fz, ls[2], FALSE) :
     t \in {1, SHT_NOBITS}, o \in {209, 210, 220, 230}, z \in {0, 10, 11}, fz \in {10, 20},
     ls \in {<<0, PT_LOAD>>, <<SHF_ALLOC, PT_LOAD>>, <<SHF_ALLOC, PT_NOTE>>,
              <<SHF_ALLOC + SHF_TLS, PT_LOAD>>, <<SHF_ALLOC + SHF_TLS, PT_TLS>>}}
    \union {SegFile(64, t, SHF_ALLOC, 210, 10, 20, PT_LOAD, TRUE) : t \in {1, SHT_NOBITS}}

MCFiles == LET S == DynFiles \union ArmFiles \union GotFiles \union SegFiles IN S \union {Twin(f) : f \in S}

Show(name) == [secname |-> name, act |-> "dump", value |-> 0]
Act(a, v)  == [secname |-> "", act |-> a, value |-> v]
All == {"fileheader", "sections", "groups", "segments", "dynamic", "relocs", "unwind", "symbols",
        "histogram", "version", "notes", "arch"}
MCOptions ==
  {[program |-> "readelf", dynamic |-> FALSE, wants |-> All, actions |-> << >>],
   [program |-> "readelf", dynamic |-> FALSE, wants |-> {"arch"},
    actions |-> <<Act("not16", 0), Show(".got"), Act("add16", 1), Show(".data"), Show("libc"), Show(".got")>>],
   [program |-> "dumpelf", dynamic |-> TRUE, wants |-> {"symbols"}, actions |-> <<Show(".got")>>]}
=============================================================================
