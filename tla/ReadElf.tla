------------------------------ MODULE ReadElf ------------------------------
(***************************************************************************)
(* readelf.c: the report on one ELF file.  Each dump is made when options  *)
(* ask for it, in a fixed order, from the file as it is at that moment:    *)
(* the actions of readelf change it on the way.  A core file's notes are   *)
(* CoreNotes, the DWARF sections at the end of the report DwarfSession.    *)
(***************************************************************************)
EXTENDS ElfContents

CONSTANTS Files,     \* files that may be opened
          Options    \* [program, dynamic, wants, actions]

VARIABLES file,      \* the file, as it is now
          options,
          pc,        \* the dump that is next
          action,    \* the number of the next action
          report     \* what has been shown, by dump

vars == <<file, options, pc, action, report>>

Dumps == <<"fileheader", "sections", "groups", "segments", "dynamic", "relocs", "unwind",
           "symbols", "histogram", "version", "actions", "notes", "arch">>
DumpNames == {Dumps[k] : k \in DOMAIN Dumps}

\* A file is a record as ElfFile says, and an option asks for a dump that exists.
ASSUME FilesAssumption ==
  \A f \in Files :
    /\ f \in [be : BOOLEAN, bits : {32, 64}, ehdr : {f.ehdr}, shdr : {f.shdr}, phdr : {f.phdr}, body : {f.body}]
    /\ f.shdr \in Seq({f.shdr[i] : i \in DOMAIN f.shdr})
ASSUME OptionsAssumption ==
  \A o \in Options : o.wants \subseteq DumpNames /\ o.actions \in Seq({o.actions[k] : k \in DOMAIN o.actions})

\* Mutant of Following: the last dump is left out.
FollowingShort(d) == LET k == CHOOSE n \in DOMAIN Dumps : Dumps[n] = d IN
                     IF k + 1 >= Len(Dumps) THEN "done" ELSE Dumps[k + 1]

Following(d) == LET k == CHOOSE n \in DOMAIN Dumps : Dumps[n] = d IN
                IF k = Len(Dumps) THEN "done" ELSE Dumps[k + 1]

Init ==
  /\ file \in Files
  /\ options \in Options
  /\ pc = "fileheader"
  /\ action = 1
  /\ report = [actions |-> << >>]

With(d, rows) == [x \in DOMAIN report \union {d} |-> IF x = d THEN rows ELSE report[x]]

Dump(d, rows) ==
  /\ pc = d
  /\ report' = IF d \in options.wants THEN With(d, rows) ELSE report
  /\ pc' = Following(d)
  /\ UNCHANGED <<file, options, action>>

FileHeader     == Dump("fileheader", dump_fileheader(file))
SectionHeaders == Dump("sections", dump_sectionheaders(file))
SectionGroups  == Dump("groups", dump_sectiongroups(file))
ProgramHeaders == Dump("segments", dump_programheaders(file))
Dynamic        == Dump("dynamic", dump_dynamic(file))
Relocs         == Dump("relocs", dump_relocs(file))
Unwind         == Dump("unwind", dump_unwind(file))
Symbols        == Dump("symbols", dump_symbols(file, options.dynamic))
Histogram      == Dump("histogram", dump_histogram(file))
Version        == Dump("version", dump_version(file))
Notes          == Dump("notes", IF isELFcore(file) THEN << >> ELSE dump_notes(file))
ArchSpecific   == Dump("arch", dump_archspecific(file))

\* dumpelf, for members of an archive, has no actions.
AtAction == pc = "actions" /\ options.program = "readelf" /\ action <= Len(options.actions)
Done(a, data) ==
  /\ report' = [report EXCEPT !.actions = Append(@, [secname |-> a.secname, data |-> data])]
  /\ action' = action + 1
  /\ UNCHANGED <<options, pc>>

ShowSection ==
  LET a == options.actions[action]
      s == shdrbyname(file, a.secname)
      f == IF isnamedone(options.actions, action) THEN file ELSE ChangedFile(file, options.actions, s)
  IN /\ AtAction
     /\ a.secname # "" /\ s # Null
     /\ file' = f
     /\ Done(a, Contents(f, s))
NoSuchSection ==
  LET a == options.actions[action] IN
  /\ AtAction
  /\ a.secname # "" /\ shdrbyname(file, a.secname) = Null
  /\ Done(a, Null)
  /\ UNCHANGED file
NoSection ==
  /\ AtAction
  /\ options.actions[action].secname = ""
  /\ action' = action + 1
  /\ UNCHANGED <<file, options, pc, report>>
EndActions ==
  /\ pc = "actions" /\ ~AtAction
  /\ pc' = Following(pc)
  /\ UNCHANGED <<file, options, action, report>>

Next == \/ FileHeader \/ SectionHeaders \/ SectionGroups \/ ProgramHeaders \/ Dynamic \/ Relocs \/ Unwind
        \/ Symbols \/ Histogram \/ Version
        \/ ShowSection \/ NoSuchSection \/ NoSection \/ EndActions
        \/ Notes \/ ArchSpecific
Spec == Init /\ [][Next]_vars

-----------------------------------------------------------------------------
(* Properties *)

\* The report grows in the order of the dumps and holds what was asked for.
TypeOK ==
  /\ pc \in {Dumps[k] : k \in DOMAIN Dumps} \union {"done"}
  /\ action \in 1 .. Len(options.actions) + 1
  /\ DOMAIN report \subseteq options.wants \union {"actions"}
  /\ pc = "done" => options.wants \subseteq DOMAIN report
  /\ Len(report.actions) < action

\* The same file in the other byte order: what an assembler for the other
\* machine would have written.
Records == [t \in {SHT_SYMTAB, SHT_DYNSYM, SHT_REL, SHT_RELA, SHT_DYNAMIC, SHT_GNU_verneed, SHT_NOTE} |->
  CASE t \in {SHT_SYMTAB, SHT_DYNSYM} -> {"name", "value", "size", "shndx"}
    [] t \in {SHT_REL, SHT_RELA} -> {"offset", "info", "addend"}
    [] t = SHT_DYNAMIC -> {"tag", "val"}
    [] t = SHT_GNU_verneed -> {"version", "cnt", "file", "aux", "next", "flags", "other", "name"}
    [] OTHER -> {"namesz", "descsz", "type"}]
Words == {SHT_HASH, SHT_GNU_HASH, SHT_GNU_versym, SHT_GROUP}
Turned(r, fields) == [k \in DOMAIN r |-> IF k \in fields THEN Swapped(r[k]) ELSE r[k]]
TurnedEntries(t, s) ==
  [j \in DOMAIN s |->
     IF t \in Words \/ (t = SHT_NOTE /\ j > 1) THEN Swapped(s[j])
     ELSE IF t \in DOMAIN Records THEN Turned(s[j], Records[t]) ELSE s[j]]
Twin(f) ==
  [f EXCEPT !.be = ~f.be,
            !.ehdr = Turned(@, DOMAIN @),
            !.shdr = [i \in DOMAIN @ |-> IF @[i] = Null THEN Null ELSE Turned(@[i], DOMAIN @[i])],
            !.phdr = [i \in DOMAIN @ |-> IF @[i] = Null THEN Null ELSE Turned(@[i], DOMAIN @[i])],
            !.body = [o \in DOMAIN @ |-> TurnedEntries(shdrbyoffset(f, o).type, @[o])]]

\* The same program shows the same report in both byte orders: every field of
\* every record is converted where it is read.  Unwind tables, marks of ARM and
\* the signatures of groups are read as they are stored.
Alike(f, g, d, dynamic) ==
  CASE d = "fileheader" -> dump_fileheader(f) = dump_fileheader(g)
    [] d = "sections"   -> dump_sectionheaders(f) = dump_sectionheaders(g)
    [] d = "groups"     -> \A i \in OfType(f, SHT_GROUP) :
                             dump_sectiongroups(f).rows[i].members = dump_sectiongroups(g).rows[i].members
    [] d = "segments"   -> dump_programheaders(f) = dump_programheaders(g)
    [] d = "dynamic"    -> dump_dynamic(f) = dump_dynamic(g)
    [] d = "relocs"     -> dump_relocs(f) = dump_relocs(g)
    [] d = "symbols"    -> dump_symbols(f, dynamic) = dump_symbols(g, dynamic)
    [] d = "histogram"  -> dump_histogram(f) = dump_histogram(g)
    [] d = "version"    -> dump_version(f) = dump_version(g)
    [] d = "notes"      -> dump_notes(f) = dump_notes(g)
    [] OTHER -> TRUE
ByteOrderFree == pc \in options.wants => Alike(file, Twin(file), pc, options.dynamic)

\* One symbol has one version: the relocations that name it, the list of
\* symbols and the version table look it up in three ways and show the same.
\* The list of symbols leaves out hidden versions.
VersionsAgree ==
  pc = "done" /\ {"relocs", "symbols", "version"} \subseteq options.wants /\ ~options.dynamic =>
    LET v == indexbytype(file, SHT_GNU_versym)
        d == indexbytype(file, SHT_DYNSYM)
    IN \A i \in DOMAIN report.relocs.rows : \A j \in DOMAIN report.relocs.rows[i] :
         LET row == report.relocs.rows[i][j]
             k == R_SYM(row.r.info)
             inTable == report.version.rows[v][k]
         IN Shown(row.symbol.version) =>
              /\ inTable[1] \in {"version", "hidden"} => inTable[2] = row.symbol.version
              /\ inTable[1] = "version" /\ report.symbols.rows[d][k].name # "" =>
                   report.symbols.rows[d][k].version.name = row.symbol.version

\* A loaded section with contents is listed under a load segment exactly if its
\* bytes in the file and in memory are the segment's; what a section header
\* that is not loaded says does not matter.
Inside(at, size, start, length) == start <= at /\ at + size <= start + length
SegmentsHoldSections ==
  pc = "done" /\ "segments" \in options.wants =>
    \A i \in DOMAIN report.segments.mapping : \A j \in Readable(file) \ {0} :
      LET s == shdrAt(file, j)
          p == phdrAt(file, i)
      IN p.type = PT_LOAD /\ s.size > 0 /\ ~check_tbss(s, p) =>
           (j \in DOMAIN report.segments.mapping[i] <=>
              /\ Has(s.flags, SHF_ALLOC)
              /\ Inside(s.addr, s.size, p.vaddr, p.memsz)
              /\ s.type = SHT_NOBITS \/ Inside(s.offset, s.size, p.offset, p.filesz))

\* A histogram counts every bucket once, and its last line covers every symbol
\* that the table holds.  It is compared with the file that it was made of, before
\* an action changes one.
HashedSymbols(f, s) ==
  IF s.type = SHT_HASH THEN Word0(f, s, 1) - 1
  ELSE Len(Entries(f, s)) - 4 - Word0(f, s, 0) - (IF f.bits = 32 THEN 1 ELSE 2) * Word0(f, s, 2)
Chains(rows) ==
  LET Below[n \in 0 .. Cardinality(DOMAIN rows)] == IF n = 0 THEN 0 ELSE Below[n - 1] + rows[n - 1].number
  IN Below[Cardinality(DOMAIN rows)]
HistogramAddsUp ==
  pc = "version" /\ "histogram" \in options.wants =>
    \A i \in DOMAIN report.histogram :
      LET rows == report.histogram[i].rows
          s == shdrAt(file, i)
      IN rows # << >> =>
           /\ Chains(rows) = Word0(file, s, 0)
           /\ rows[Max(DOMAIN rows)].covered = HashedSymbols(file, s)

\* A table with room for its local entries and for one entry of each global
\* symbol is shown whole, no slot twice, and each symbol beside its slot.
GotWhole ==
  pc = "done" /\ "arch" \in options.wants /\ report.arch.got # << >> =>
    LET got == report.arch.got
        s == shdrbyname(file, ".got")
        gotno == value(file, DT_MIPS_LOCAL_GOTNO)
        gotsym == value(file, DT_MIPS_GOTSYM)
        n == value(file, DT_MIPS_SYMTABNO) - gotsym
    IN n >= 0 /\ Slots(file, s) = gotno + n /\ gotno >= 2 =>
         /\ DOMAIN got.reserved \union DOMAIN got.local \union DOMAIN got.global = 0 .. Slots(file, s) - 1
         /\ DOMAIN got.local \intersect (DOMAIN got.reserved \union DOMAIN got.global) = {}
         /\ \A k \in DOMAIN got.global : got.global[k].symbol = GotSymbol(file, gotsym + k - gotno)

\* A section that several actions show is shown with the same bytes each time:
\* the changes are made once.
ShownAlike ==
  \A j, k \in DOMAIN report.actions :
    report.actions[j].secname = report.actions[k].secname => report.actions[j].data = report.actions[k].data
=============================================================================
