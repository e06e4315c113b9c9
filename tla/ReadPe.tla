------------------------------- MODULE ReadPe -------------------------------
(***************************************************************************)
(* readpe.c: the report on one PE file.  Each dump is made when options    *)
(* ask for it, in a fixed order.  A version resource is shown turn by turn *)
(* of a loop that ends when a turn shows nothing; a turn that reads        *)
(* through NULL ends the program.  The signatures that detect.c looks for  *)
(* are left out.                                                           *)
(***************************************************************************)
EXTENDS PeDumps, PeVersion, SectionActions

CONSTANTS Files,     \* files that may be opened
          Options,   \* [verbose, hash, wants, actions]
          MaxTurns   \* turns of one version that the report remembers

VARIABLES file,      \* the file, as it is now
          options,
          pc,        \* the dump that is next, or "crashed"
          walk,      \* the versions still to be shown, or Null
          action,    \* the number of the next action
          report     \* what has been shown, by dump

vars == <<file, options, pc, walk, action, report>>

AnyMachine == {"dosheader", "dosstub", "debug", "relocs", "runtime"}
Dumps == <<"dosheader", "dosstub", "ntheader", "sections", "groups", "version", "exports", "imports",
           "resource", "config", "debug", "relocs", "runtime", "actions">>
DumpNames == {Dumps[k] : k \in DOMAIN Dumps}

\* A file is a record as PeFile says, with numbers in its section headers and in
\* the tables that are walked; an option asks for dumps that exist.
ASSUME FilesAssumption ==
  \A f \in Files :
    /\ f \in [size : Nat, lfanew : Nat, machine : {f.machine}, dos : {f.dos}, nt : {f.nt}, dd : {f.dd},
              shdr : {f.shdr}, body : {f.body}]
    /\ \A i \in DOMAIN f.shdr : {f.shdr[i].vaddr, f.shdr[i].raw, f.shdr[i].size} \subseteq Nat
    /\ \A p \in DOMAIN f.body : \A x \in {"block", "size", "bytes", "chars"} : Field(f, p, x) \in Nat
    /\ \A p \in DOMAIN f.body : Has(f, p, "codes") => f.body[p].codes \in Seq({f.body[p].codes[k] : k \in DOMAIN f.body[p].codes})
ASSUME OptionsAssumption ==
  \A o \in Options : o.wants \subseteq DumpNames \ {"actions"} /\ o.actions \in Seq({o.actions[k] : k \in DOMAIN o.actions})

\* Mutant of Following: the dumps end at the first that is skipped.
FollowingBreak(d) == LET k == CHOOSE n \in DOMAIN Dumps : Dumps[n] = d IN
                     IF k = Len(Dumps) \/ Dumps[k] \notin options.wants THEN "done" ELSE Dumps[k + 1]

Following(d) == LET k == CHOOSE n \in DOMAIN Dumps : Dumps[n] = d IN
                IF k = Len(Dumps) THEN "done" ELSE Dumps[k + 1]

Init ==
  /\ file \in Files
  /\ options \in Options
  /\ pc = "open"
  /\ walk = Null
  /\ action = 1
  /\ report = [actions |-> << >>]

Open ==
  /\ pc = "open"
  /\ pc' = IF isPE(file) THEN "dosheader" ELSE "done"
  /\ UNCHANGED <<file, options, walk, action, report>>

\* Some dumps need a machine that is known.
Wanted(d) == d \in options.wants /\ (d \in AnyMachine \/ isPE32(file) \/ isPE64(file))
With(d, rows) == [x \in DOMAIN report \union {d} |-> IF x = d THEN rows ELSE report[x]]
Dump(d, rows) ==
  /\ pc = d
  /\ report' = IF Wanted(d) THEN With(d, rows) ELSE report
  /\ pc' = Following(d)
  /\ UNCHANGED <<file, options, walk, action>>

DosHeader0     == Dump("dosheader", dump_dosheader(file, options.verbose))
DosStub        == Dump("dosstub", dump_dosstub(file))
NtHeader       == Dump("ntheader", dump_ntheader(file))
SectionHeaders == Dump("sections", dump_sectionheaders(file, options.hash))
SectionGroups  == Dump("groups", dump_sectiongroups(file, options.verbose))
Exports        == Dump("exports", dump_eat(file))
Imports        == Dump("imports", dump_iat(file))
Config         == Dump("config", dump_config(file))
Debug          == Dump("debug", dump_debug(file))
Relocs         == Dump("relocs", dump_reloc(file))
RuntimeFunctions == Dump("runtime", dump_runtime(file))

\* The dumps that show versions, [tree, versions]; a version is
\* [data, turns], what each turn of the loop showed.
Chunk(data) == chunkbyRVA(file, ENTRY_UNKNOWN, Field(file, data, "vaddr"), Field(file, data, "size"))
Walk(leaves) ==
  IF leaves = << >> THEN [leaves |-> leaves, base |-> Null, c |-> fmalloc(0), xx |-> 0, length |-> 0]
  ELSE [leaves |-> leaves, base |-> Chunk(Head(leaves)), c |-> fmalloc(Field(file, Head(leaves), "size")), xx |-> 0, length |-> 0]
StartOf(leaves) == IF leaves = << >> THEN << >> ELSE <<[data |-> Head(leaves), turns |-> << >>]>>
Begin(d, tree, leaves) ==
  /\ pc = d /\ walk = Null
  /\ IF Wanted(d)
     THEN /\ walk' = Walk(leaves)
          /\ report' = With(d, [tree |-> tree, versions |-> StartOf(leaves)])
          /\ UNCHANGED pc
     ELSE /\ pc' = Following(d)
          /\ UNCHANGED <<walk, report>>
  /\ UNCHANGED <<file, options, action>>
Version  == Begin("version", << >>, VersionData(file))
Resource == LET rows == dump_resource(file) IN Begin("resource", rows, VersionRows(rows))

Running == walk # Null /\ pc # "crashed"
Walking == Running /\ walk.leaves # << >>
InTable == walk.xx < walk.length
TurnNow == dump_versionV(file, walk.base, walk.c)
Show(turns) == report' = [report EXCEPT ![pc].versions[Len(report[pc].versions)].turns = turns]
TurnsNow == report[pc].versions[Len(report[pc].versions)].turns
VersionTurn ==
  /\ Walking /\ ~InTable
  /\ TurnNow.rows # << >> /\ ~TurnNow.null
  /\ walk' = [walk EXCEPT !.c = TurnNow.c, !.xx = STRING_TABLE_SIZE, !.length = TurnNow.length]
  /\ Show(IF Len(TurnsNow) < MaxTurns THEN Append(TurnsNow, TurnNow.rows) ELSE TurnsNow)
  /\ UNCHANGED <<file, options, pc, action>>
StringTurn ==
  /\ Walking /\ InTable
  /\ walk.c.item
  /\ walk' = [walk EXCEPT !.c = NextString(file, walk.base, walk.c),
                          !.xx = (@ + Counted(file, walk.base, walk.c)) % WORD]
  /\ Show([TurnsNow EXCEPT ![Len(TurnsNow)] = Append(@, Here(walk.base, walk.c))])
  /\ UNCHANGED <<file, options, pc, action>>
VersionEnd ==
  /\ Walking /\ ~InTable
  /\ TurnNow.rows = << >>
  /\ walk' = Walk(Tail(walk.leaves))
  /\ report' = [report EXCEPT ![pc].versions = @ \o StartOf(Tail(walk.leaves))]
  /\ UNCHANGED <<file, options, pc, action>>
\* A chunk, or a string of a table, that is looked for behind the data.
Crash ==
  /\ pc' = "crashed"
  /\ UNCHANGED <<file, options, walk, action, report>>
TurnCrash   == Walking /\ ~InTable /\ TurnNow.rows # << >> /\ TurnNow.null /\ Crash
StringCrash == Walking /\ InTable /\ ~walk.c.item /\ Crash
AllVersions ==
  /\ Running /\ ~Walking
  /\ walk' = Null
  /\ pc' = Following(pc)
  /\ UNCHANGED <<file, options, action, report>>

AtAction == pc = "actions" /\ action <= Len(options.actions)
Done(a, data) ==
  /\ report' = [report EXCEPT !.actions = Append(@, [secname |-> a.secname, data |-> data])]
  /\ action' = action + 1
  /\ UNCHANGED <<options, pc, walk>>
\* The bytes of a section in the file, where it begins with words.
Contents(f, s) == IF getp(f, s.raw, s.size) # Null /\ Has(f, s.raw, "words") THEN f.body[s.raw].words ELSE << >>
Turned(e) == [e EXCEPT !.words = [k \in DOMAIN e.words |-> dump_actions1(options.actions, e.words[k])]]
ChangedFile(f, s) ==
  [f EXCEPT !.body = [o \in DOMAIN f.body |->
     IF o = s.raw /\ Contents(f, s) # << >> THEN Turned(f.body[o]) ELSE f.body[o]]]
ShowSection ==
  LET a == options.actions[action]
      s == sectionhdrbyname(file, a.secname)
      f == IF isnamedone(options.actions, action) THEN file ELSE ChangedFile(file, s)
  IN /\ AtAction
     /\ a.secname # "" /\ s # Null
     /\ file' = f
     /\ Done(a, Contents(f, s))
NoSuchSection ==
  LET a == options.actions[action] IN
  /\ AtAction
  /\ a.secname # "" /\ sectionhdrbyname(file, a.secname) = Null
  /\ Done(a, Null)
  /\ UNCHANGED file
NoSection ==
  /\ AtAction
  /\ options.actions[action].secname = ""
  /\ action' = action + 1
  /\ UNCHANGED <<file, options, pc, walk, report>>
EndActions ==
  /\ pc = "actions" /\ ~AtAction
  /\ pc' = Following(pc)
  /\ UNCHANGED <<file, options, walk, action, report>>

\* The loops over a version run on.
Turns == VersionTurn \/ StringTurn \/ TurnCrash \/ StringCrash \/ VersionEnd \/ AllVersions
Next == \/ Open
        \/ DosHeader0 \/ DosStub \/ NtHeader \/ SectionHeaders \/ SectionGroups
        \/ Version \/ Exports \/ Imports \/ Resource \/ Config
        \/ Turns
        \/ Debug \/ Relocs \/ RuntimeFunctions
        \/ ShowSection \/ NoSuchSection \/ NoSection \/ EndActions
Spec == Init /\ [][Next]_vars /\ WF_vars(Turns)

-----------------------------------------------------------------------------
(* Properties *)

\* The report grows in the order of the dumps, holds what was asked for and
\* nothing else, and a version is shown only inside the dumps that show one.
TypeOK ==
  /\ pc \in {Dumps[k] : k \in DOMAIN Dumps} \union {"open", "done", "crashed"}
  /\ action \in 1 .. Len(options.actions) + 1
  /\ walk # Null => pc \in {"version", "resource", "crashed"} /\ walk.c \in Cursor
  /\ DOMAIN report \subseteq options.wants \union {"actions"}
  /\ pc = "done" /\ isPE(file) => {d \in options.wants : Wanted(d)} \subseteq DOMAIN report
  /\ Len(report.actions) < action

\* The blocks of a relocation table that begins its section.
BlocksOf(s) ==
  LET Blocks[n \in 0 .. s.size] ==
        IF n = 0 THEN [rows |-> << >>, next |-> s.raw]
        ELSE LET b == Blocks[n - 1] IN
             IF b.next >= s.raw + s.size \/ Field(file, b.next, "block") = 0 THEN b
             ELSE [rows |-> Append(b.rows, b.next), next |-> b.next + Field(file, b.next, "block")]
  IN Blocks[s.size].rows
RelocsInStep ==
  "relocs" \in DOMAIN report /\ report.relocs # << >> =>
    LET s == sectionhdrbyRVA(file, file.dd[ENTRY_BASERELOC].vaddr) IN
    s # Null /\ s.vaddr = file.dd[ENTRY_BASERELOC].vaddr => report.relocs = BlocksOf(s)

\* The slots an operation takes, and where the operations of a list begin.
TrueSlots(c) ==
  IF c.op \in {SAVE_NONVOL_FAR, SAVE_XMM128_FAR} \/ (c.op = ALLOC_LARGE /\ c.info = 1) THEN 3
  ELSE IF c.op \in {SAVE_NONVOL, SAVE_XMM128, ALLOC_LARGE} THEN 2 ELSE 1
Operations(codes) ==
  LET Start[k \in 1 .. Len(codes)] == IF k = 1 THEN 1 ELSE
        IF Start[k - 1] > Len(codes) THEN Start[k - 1] ELSE Start[k - 1] + TrueSlots(codes[Start[k - 1]])
  IN {Start[k] : k \in 1 .. Len(codes)} \intersect DOMAIN codes
CodesInStep ==
  "runtime" \in DOMAIN report =>
    \A p \in DOMAIN report.runtime : LET r == report.runtime[p] IN
      r.info # Null /\ Has(file, r.info, "codes") =>
        LET codes == file.body[r.info].codes
            ops == Operations(codes)
            far == {i \in ops : TrueSlots(codes[i]) = 3}
        IN {i \in r.codes : \A j \in far : i <= j} = {i \in ops : \A j \in far : i <= j}

\* The fields of the load configuration come in groups, as versions added them.
GroupBytes(wide) == IF wide THEN <<112, 36, 60, 36, 76>> ELSE <<72, 20, 36, 24, 40>>
Covered(g) == LET Sum[k \in 0 .. g] == IF k = 0 THEN 0 ELSE Sum[k - 1] + GroupBytes(isPE64(file))[k] IN Sum[g]
RoundedUp(n) == IF isPE64(file) THEN ((n + 7) \div 8) * 8 ELSE n
ConfigCovered ==
  "config" \in DOMAIN report /\ chunkbyentry(file, ENTRY_LOAD_CONFIG) # Null =>
    report.config = {g \in 1 .. 5 : RoundedUp(Covered(g)) <= Field(file, chunkbyentry(file, ENTRY_LOAD_CONFIG), "size")}

\* What a walk over a table shows is what the table holds, as far as the two
\* can stay in step.  Relocation blocks are shown once each, in order, if the
\* table begins its section and zeros fill the section up.  Unwind codes are
\* shown at their operations, up to the first of three slots: the dump takes
\* such an operand for one or two.  A group of the load configuration is shown
\* if the directory's size covers its fields, rounded up to a pointer's width.
TablesInStep == RelocsInStep /\ CodesInStep /\ ConfigCovered

Among(s, t) == \A k \in DOMAIN s : \E j \in DOMAIN t : s[k] = t[j]
StringsOf(table) ==
  LET Value(p) == p + BOUND32(CHUNK_MINSIZE + Field(file, p, "bytes"))
      length == Field(file, table, "length")
      Strs[n \in 0 .. length \div CHUNK_MINSIZE] ==
        IF n = 0 THEN [rows |-> << >>, next |-> table + STRING_TABLE_SIZE]
        ELSE LET w == Strs[n - 1] IN
             IF w.next >= table + length THEN w
             ELSE [rows |-> Append(w.rows, w.next), next |-> Value(w.next) + BOUND32(Field(file, Value(w.next), "chars"))]
  IN Strs[length \div CHUNK_MINSIZE].rows
KeySize(p)   == Field(file, p, "bytes")
ValueSize(p) == Field(file, p + BOUND32(CHUNK_MINSIZE + KeySize(p)), "chars")
Short(p) == KeySize(p) <= 50 /\ ValueSize(p) <= 100
Filled(p) == (CHUNK_MINSIZE + KeySize(p)) % 4 = 0 /\ ValueSize(p) % 4 = 0
\* The data are shorter than the version in them says it is.
Cut(data) == Field(file, data, "size") < Field(file, Chunk(data), "length")
TableShown(data, turn) ==
  LET all == StringsOf(turn[2])
      shown == SubSeq(turn, 3, Len(turn))
  IN (\A k \in DOMAIN all : Short(all[k])) =>
       /\ IsPrefix(shown, all)
       /\ ~Cut(data) /\ (\A k \in DOMAIN all : ~Filled(all[k])) => shown = all

\* Every version that the version dump shows, the resource dump shows too, and
\* in the same words.  Of a table of strings, whose keys and values are short
\* enough, the first ones are shown, and all if the data hold the version and no
\* string fills whole words with its key and with its value: such a string
\* counts for four bytes more than it has.
VersionsShown ==
  pc = "done" /\ "version" \in DOMAIN report =>
    /\ "resource" \in DOMAIN report => Among(report.version.versions, report.resource.versions)
    /\ \A v \in Range(report.version.versions) : \A turn \in Range(v.turns) :
         Has(file, turn[1], "key") /\ file.body[turn[1]].key = "StringFileInfo" => TableShown(v.data, turn)

Stuck == Walking /\ KeyAt(file, walk.base, walk.c) = "VS_VERSION_INFO" /\ Field(file, Here(walk.base, walk.c), "vlength") = 0

\* The dump of the versions comes to its end, unless it meets a version info
\* without a value, which is shown again for ever, or data that are cut short,
\* behind which it looks for what is missing.
VersionsEnd == walk # Null ~> (walk = Null \/ Stuck \/ (pc = "crashed" /\ Cut(Head(walk.leaves))))
=============================================================================
