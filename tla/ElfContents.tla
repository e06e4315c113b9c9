---------------------------- MODULE ElfContents ----------------------------
(***************************************************************************)
(* The dumps of dumpelf.c that read the contents of sections: notes,       *)
(* attributes, the global offset table of MIPS, and sections that options  *)
(* name, which other options change first.                                 *)
(***************************************************************************)
EXTENDS ElfDumps, SectionActions

SHT_ARM_ATTRIBUTES == 28675
NT_GNU_PROPERTY_TYPE_0 == 5

-----------------------------------------------------------------------------
(* Notes of a file that is no core: the first one of every note section.   *)
(* The words of its description stand behind the header and the bytes of   *)
(* the name, which are not padded: a name is one word here.                *)

DescWord(f, i, k) == Word0(f, shdrAt(f, i), k + 1)

\* dump_notes1, .note.gnu.property.  A property is two words and its data; only
\* the data of X86_FEATURE_1_AND are read, the others' are not skipped.
FEATURE_1_AND == 49154
LOPROC == 49152
HIPROC == 57343
IsProperty(f, x) == x \in LOPROC .. HIPROC /\ ehdr(f).machine \in {EM_X86_64, EM_IAMCU, EM_386}
Properties(f, i, descsz) ==
  LET P[n \in 0 .. descsz \div 8] ==
        IF n = 0 THEN [k |-> 0, rows |-> << >>, done |-> FALSE]
        ELSE LET p == P[n - 1]
                 left == descsz - 8 * (n - 1)
                 x == DescWord(f, i, p.k)
                 datasz == DescWord(f, i, p.k + 1)
                 value0 == IF x = FEATURE_1_AND THEN DescWord(f, i, p.k + 2) ELSE 0
             IN IF p.done \/ left <= datasz THEN [p EXCEPT !.done = TRUE]
                ELSE IF ~IsProperty(f, x) THEN [p EXCEPT !.k = @ + 2]
                ELSE [k |-> p.k + (IF x = FEATURE_1_AND THEN 3 ELSE 2), done |-> FALSE,
                      rows |-> Append(p.rows, [type |-> x, corrupt |-> datasz # 4, data |-> value0])]
  IN P[descsz \div 8].rows

NoteRow(f, i) ==
  LET h == nhdrAt(f, i) IN
  [section |-> secname(f, i), owner |-> nhdrname(f, i), descsz |-> h.descsz, type |-> h.type,
   desc |-> IF ~HasDesc(h) THEN << >>
            ELSE IF h.type = NT_GNU_PROPERTY_TYPE_0 THEN Properties(f, i, h.descsz)
            ELSE [k \in 1 .. h.descsz \div 4 |-> DescWord(f, i, k - 1)]]
dump_notes(f) == [i \in {k \in Readable(f) : nhdrAt(f, k) # Null} |-> NoteRow(f, i)]

-----------------------------------------------------------------------------
(* Attributes: vendor sections [vendor, attrs], each a length of 4 bytes,  *)
(* the vendor's name, a tag of 1, a size of 4, which counts these two, and *)
(* the attributes.                                                         *)

NameBytes == 6                                \* "aeabi" or "riscv" and the end of the string
SubHeader == 5                                \* tag and size
SubSize(v)  == SubHeader + v.attrs            \* what the size says
VendorLength(v) == 4 + NameBytes + SubSize(v)
VendorStart(s, k) == LET P[n \in 1 .. k] == IF n = 1 THEN 1 ELSE P[n - 1] + VendorLength(s[n - 1]) IN P[k]
AttrStart(s, k)  == VendorStart(s, k) + 4 + NameBytes + SubHeader

\* dump_archspecific0: the spans of bytes shown as attributes, a first byte and
\* the one behind the last.  The cursor that reads them is one byte shorter
\* than the size says, which counts five bytes that have been read.  The next
\* vendor is found only where its section begins.
Spans(s, name) ==
  LET Span(k) == <<AttrStart(s, k), AttrStart(s, k) + SubSize(s[k]) - 1>>
      R[k \in 0 .. Len(s)] ==
        IF k = 0 THEN [spans |-> << >>, next |-> 1]
        ELSE IF R[k - 1].next # VendorStart(s, k) THEN R[k - 1]
        ELSE IF s[k].vendor \in {name, "gnu"}
             THEN [spans |-> Append(R[k - 1].spans, Span(k)), next |-> Span(k)[2]]
        ELSE [R[k - 1] EXCEPT !.next = AttrStart(s, k)]
  IN R[Len(s)].spans

-----------------------------------------------------------------------------
(* MIPS: the global offset table                                           *)

Width(f) == IF f.bits = 32 THEN 4 ELSE 8
Slots(f, s) == s.size \div Width(f)

\* Mutant of LocalSlots: the two reserved entries are counted as local ones.
LocalSlotsAll(f, s, gotno) == {k \in 2 .. Slots(f, s) - 1 : k < gotno + 2}

\* Entries are numbered from 0; the first two are shown whenever there are
\* local entries, the others up to the end of the section.
ReservedSlots(gotno) == IF gotno # 0 THEN {0, 1} ELSE {}
LocalSlots(f, s, gotno) == {k \in 2 .. Slots(f, s) - 1 : k < gotno}
Behind(gotno) == IF gotno >= 2 THEN gotno ELSE IF gotno # 0 THEN 2 ELSE 0
GlobalSlots(f, s, gotno, n) == {k \in 0 .. Slots(f, s) - 1 : k >= Behind(gotno) /\ k < Behind(gotno) + n}

GotRow(f, s, k) == [addr |-> s.addr + Width(f) * k, initial |-> Word0(f, s, k)]
GotSymbol(f, i) ==
  LET d == indexbytype(f, SHT_DYNSYM)
      e == symAt(f, d, i)
  IN IF e = Null THEN << >> ELSE [symbol |-> e, name |-> namebyoffset(f, shdrAt(f, d).link, e.name)]

\* dump_archspecific4
dump_got(f, s) ==
  LET gotno  == value(f, DT_MIPS_LOCAL_GOTNO)
      gotsym == value(f, DT_MIPS_GOTSYM)
      symtabno == value(f, DT_MIPS_SYMTABNO)
      n == IF gotsym < symtabno THEN symtabno - gotsym ELSE 0
  IN [reserved |-> [k \in ReservedSlots(gotno) |-> GotRow(f, s, k)],
      local  |-> [k \in LocalSlots(f, s, gotno) |-> GotRow(f, s, k)],
      global |-> [k \in GlobalSlots(f, s, gotno, n) |->
                    [row |-> GotRow(f, s, k), symbol |-> GotSymbol(f, gotsym + k - Behind(gotno))]]]

dump_archspecific(f) ==
  LET arm == ehdr(f).machine \in {EM_ARM, EM_AARCH64}
      attributes == IF arm THEN shdrbytype(f, SHT_ARM_ATTRIBUTES) ELSE Null
      got == IF ehdr(f).machine = EM_MIPS THEN shdrbyname(f, ".got") ELSE Null
  IN [spans |-> IF attributes = Null THEN << >> ELSE Spans(Entries(f, attributes), "aeabi"),
      got |-> IF got = Null THEN << >> ELSE dump_got(f, got)]

-----------------------------------------------------------------------------
(* Sections that actions name: the bytes of a section, and a file after    *)
(* the actions have changed one.                                           *)

Contents(f, s)  == IF s.type = SHT_NOBITS THEN << >> ELSE Entries(f, s)
ChangedFile(f, actions, s) ==
  [f EXCEPT !.body = [o \in DOMAIN @ |-> IF o = s.offset /\ Contents(f, s) # << >>
                                         THEN [j \in DOMAIN @[o] |-> dump_actions1(actions, @[o][j])] ELSE @[o]]]
=============================================================================
