------------------------------ MODULE MCReadPe ------------------------------
(* Small files laid out by hand: sections with their contents at offsets     *)
(* from 600 on, each with another distance between address and offset.       *)
EXTENDS ReadPe, TLC

Section(name, vaddr, raw, size) == [name |-> name, vaddr |-> vaddr, vsize |-> size, raw |-> raw, size |-> size]
TextSection  == Section(".text", 4000, 600, 100)
\* A file with one directory entry in use.
FileOf(machine, sections, index, vaddr, size, body) ==
  [size |-> 4000, lfanew |-> 64, machine |-> machine, dos |-> [magic |-> "MZ"],
   nt |-> [signature |-> "PE", sections |-> Len(sections) + 1, optional |-> IF machine = "amd64" THEN 240 ELSE 224,
           directories |-> 16],
   dd |-> [k \in Entries |-> IF k = index THEN [vaddr |-> vaddr, size |-> size] ELSE [vaddr |-> 0, size |-> 0]],
   shdr |-> <<TextSection>> \o sections,
   body |-> body @@ (600 :> [words |-> <<5, 65535>>])]
Known == {"i386", "amd64"}

\* Files that are none, are cut, or are of a machine that is not known.
PlainFile(machine) == FileOf(machine, << >>, 0, 0, 0, << >>)
PlainFiles ==
  {[PlainFile("i386") EXCEPT !.dos.magic = "ZM"], [PlainFile("i386") EXCEPT !.nt.signature = "NE"],
   [PlainFile("i386") EXCEPT !.size = 64], PlainFile("other")}
    \union {[PlainFile(m) EXCEPT !.size = n] : m \in Known, n \in {300, 312, 360, 700}}
    \union {[PlainFile(m) EXCEPT !.nt.directories = 10] : m \in Known}

\* Two descriptors; names in the section of the directory, or in another.
Imports0(machine, thunks, at) ==
  LET w == IF machine = "amd64" THEN 8 ELSE 4 IN
  FileOf(machine, <<Section(".idata", 5000, 1000, 300), Section(".rdata", 5300, 2000, 100)>>, ENTRY_IMPORT, 5000, 60,
    (1000 :> [name |-> 5100, original |-> 5150, first |-> 5150]) @@
    (1020 :> [name |-> 5320, original |-> at, first |-> 5200]) @@
    (1100 :> [text |-> "dll"]) @@ (1110 :> [text |-> "f"]) @@ (2010 :> [text |-> "g"]) @@ (2020 :> [text |-> "lib"]) @@
    [o \in {1150 + w * (k - 1) : k \in DOMAIN thunks} |-> [thunk |-> thunks[(o - 1150) \div w + 1]]])
ThunkTo == {[ordinal |-> FALSE, at |-> 5110], [ordinal |-> FALSE, at |-> 5310], [ordinal |-> TRUE, at |-> 5]}
ImportFiles == {Imports0(m, <<t, u>>, at) : m \in Known, t \in ThunkTo, u \in ThunkTo, at \in {5150, 9000}}

ExportFile(machine, ordinals, name) ==
  FileOf(machine, <<Section(".edata", 5000, 1000, 300)>>, ENTRY_EXPORT, 5000, 60,
    (1000 :> [name |-> name, nfunctions |-> 2, nnames |-> 2, functions |-> 5100, names |-> 5120, ordinals |-> 5140]) @@
    (1100 :> [words |-> <<4010, 4020>>]) @@ (1120 :> [words |-> <<5200, 5210>>]) @@ (1140 :> [words |-> ordinals]) @@
    (1200 :> [text |-> "f"]) @@ (1210 :> [text |-> "g"]))
ExportFiles == {ExportFile(m, o, n) : m \in Known, o \in {<<0, 1>>, <<1, 0>>}, n \in {0, 5200}}

\* Up to three blocks; the directory begins the section or lies behind 8 bytes
\* of it, and another section follows in the file.
Block(n, page) == [page |-> page, block |-> n]
RelocFile(machine, name, gap, blocks, size) ==
  LET P[k \in 1 .. 4] == IF k = 1 THEN 1000 + gap ELSE IF k <= Len(blocks) + 1 THEN P[k - 1] + blocks[k - 1] ELSE P[k - 1] + 1 IN
  FileOf(machine, <<Section(name, 5000, 1000, size), Section(".data", 6000, 1000 + size, 40)>>,
    ENTRY_BASERELOC, 5000 + gap, size - gap,
    [o \in {P[k] : k \in DOMAIN blocks} |-> Block(blocks[CHOOSE k \in DOMAIN blocks : P[k] = o], o)] @@
    ((1000 + size) :> [words |-> <<1>>, block |-> 9]))
RelocFiles ==
  {RelocFile("i386", n, g, b, z) : n \in {".reloc", ".other"}, g \in {0, 8}, z \in {36, 48},
     b \in {<<12>>, <<8, 12>>, <<12, 12>>, <<12, 8, 8>>, <<12, 12, 12>>}}
    \union {RelocFile("amd64", ".reloc", 0, <<12, 8>>, 36)}

\* One function with codes: operations with the slots that they take, whose
\* operands look like this or that operation.
Op(op, info) == [op |-> op, info |-> info]
Operand == {Op(PUSH_NONVOL, 3), Op(SAVE_NONVOL, 1)}
Coded(op, operand) ==
  <<op>> \o (IF TrueSlots(op) > 1 THEN <<operand>> ELSE << >>) \o (IF TrueSlots(op) > 2 THEN <<operand>> ELSE << >>)
SomeOps == {Op(PUSH_NONVOL, 3), Op(ALLOC_SMALL, 2), Op(ALLOC_LARGE, 0), Op(ALLOC_LARGE, 1), Op(SAVE_NONVOL, 2),
            Op(SAVE_NONVOL_FAR, 2), Op(SAVE_XMM128, 2), Op(SAVE_XMM128_FAR, 2)}
RuntimeFile(codes, unwind) ==
  FileOf("amd64", <<Section(".pdata", 5000, 1000, 30), Section(".xdata", 5030, 1500, 100)>>, ENTRY_EXCEPTION, 5000, 12,
    (1000 :> [begin |-> 4000, unwind |-> unwind]) @@ (1012 :> [begin |-> 4050, unwind |-> 9999]) @@ (1510 :> [codes |-> codes]))
RuntimeFiles ==
  {RuntimeFile(Coded(a, x) \o Coded(b, x), 5040) : a \in SomeOps, b \in SomeOps, x \in Operand}
    \union {RuntimeFile(<<Op(PUSH_NONVOL, 1)>>, u) : u \in {5050, 9000}}

ConfigFiles ==
  {FileOf(m, <<Section(".rdata", 5000, 1000, 400)>>, ENTRY_LOAD_CONFIG, 5000, 64, 1000 :> [size |-> n]) :
     m \in Known, n \in {64, 72, 92, 111, 112, 128, 148, 152, 192, 208, 244, 248, 319, 320}}
    \union {FileOf("i386", <<Section(".rdata", 5000, 3900, 100)>>, ENTRY_LOAD_CONFIG, 5000, 64, 3900 :> [size |-> 72])}

DebugFiles ==
  {FileOf("i386", <<Section(".rdata", 5000, at, 4000 - at)>>, ENTRY_DEBUG, 5000, 28,
     (at :> [raw |-> 5030]) @@ ((at + 30) :> [dword |-> s, text |-> "pdb"])) :
     at \in {1000, 3950}, s \in {CV_SIGNATURE_RSDS, CV_SIGNATURE_NB10, 7}}

-----------------------------------------------------------------------------
\* Versions.  A string is <<bytes of the key, bytes of the value>>.
VersionAt(base, value, strings) ==
  LET infos == base + 40 + (IF value THEN FIXEDFILEINFO ELSE 0)
      table == infos + STRING_FILE_INFO_SIZE
      Value(p, s) == p + BOUND32(CHUNK_MINSIZE + s[1])
      P[k \in 1 .. 8] == IF k = 1 THEN table + STRING_TABLE_SIZE
                         ELSE IF k > Len(strings) + 1 THEN P[k - 1]
                         ELSE Value(P[k - 1], strings[k - 1]) + BOUND32(strings[k - 1][2])
      n == Len(strings)
      var == P[n + 1]
      Strs[k \in 0 .. n] ==
        IF k = 0 THEN << >>
        ELSE LET s == strings[k]
                 v == Value(P[k], s)
             IN (P[k] :> [bytes |-> s[1], chars |-> CHUNK_MINSIZE + s[1]]) @@ (v :> [chars |-> s[2]]) @@
                (IF s[2] > 100 THEN (v + 100) :> [bytes |-> s[2] - 106, chars |-> s[2] - 100] ELSE << >>) @@ Strs[k - 1]
  IN (base :> [key |-> "VS_VERSION_INFO", bytes |-> 32, vlength |-> IF value THEN FIXEDFILEINFO ELSE 0,
                 length |-> var + 68 - base]) @@
     (infos :> [key |-> "StringFileInfo", bytes |-> 30]) @@
     (table :> [bytes |-> 18, length |-> Value(P[n], strings[n]) + strings[n][2] - table]) @@
     (var :> [key |-> "VarFileInfo", bytes |-> 24]) @@ ((var + 32) :> [bytes |-> 24]) @@ Strs[n]
Odd == <<4, 4>>
Full == <<6, 4>>
StringLists ==
  {<<s, t>> : s, t \in {Odd, Full, <<6, 6>>, <<4, 6>>}} \union
  {<<Full, Full, Full, Full>>, <<Full, Full, Full, Odd>>, <<Full, Full, Full, Full, Odd>>, <<Odd, <<4, 120>>, Odd>>}

\* A tree: the root, a directory below each of its entries, data below that.
Entry(string, id, dir, to) == [string |-> string, id |-> id, dir |-> dir, to |-> to]
ResourceFile(machine, first, second, leaf, size, data) ==
  FileOf(machine, <<Section(".rsrc", 5000, 1000, 1000)>>, ENTRY_RESOURCE, 5000, 1000,
    (1000 :> [named |-> 0, ids |-> 2]) @@ (1016 :> first) @@ (1024 :> second) @@
    (1040 :> [named |-> 0, ids |-> 1]) @@ (1056 :> leaf) @@
    (1080 :> [named |-> 0, ids |-> 1]) @@ (1096 :> Entry(FALSE, 16, FALSE, 124)) @@
    (1120 :> [vaddr |-> 5200, size |-> size]) @@ (1124 :> [vaddr |-> 5200, size |-> size]) @@ data)
Leaf == Entry(FALSE, 1033, FALSE, 120)
ResourceFiles ==
  {ResourceFile(m, Entry(FALSE, 16, TRUE, 40), Entry(FALSE, 3, FALSE, 120), Leaf, 600, VersionAt(1200, v, l)) :
     m \in {"i386"}, v \in BOOLEAN, l \in StringLists}
    \union {ResourceFile("amd64", e, Entry(FALSE, 16, TRUE, 40), l, z, VersionAt(1200, TRUE, <<Odd>>)) :
              e \in {Entry(TRUE, 16, TRUE, 80), Entry(FALSE, 3, TRUE, 80), Entry(FALSE, 16, FALSE, 120)},
              l \in {Leaf, Entry(TRUE, 1, FALSE, 120), Entry(FALSE, 1, TRUE, 80)}, z \in {600, 92, 3000}}
    \union {ResourceFile("amd64", Entry(FALSE, 16, TRUE, 40), Entry(FALSE, 3, FALSE, 120), Leaf, z, VersionAt(1200, TRUE, <<Odd, Odd>>)) :
              z \in {24, 110, 140, 160, 176, 210, 220}}

MCFiles == PlainFiles \union ImportFiles \union ExportFiles \union RelocFiles \union RuntimeFiles
             \union ConfigFiles \union DebugFiles \union ResourceFiles

Named(name) == [secname |-> name, act |-> "dump", value |-> 0]
Act(a, v)  == [secname |-> "", act |-> a, value |-> v]
All == {Dumps[k] : k \in DOMAIN Dumps} \ {"actions"}
MCOptions ==
  {[verbose |-> TRUE, hash |-> TRUE, wants |-> All, actions |-> << >>],
   [verbose |-> FALSE, hash |-> FALSE, wants |-> {"groups", "sections", "version"},
    actions |-> <<Act("not16", 0), Named(".text"), Act("add16", 1), Named(".none"), Named(".text")>>]}
=============================================================================
