---------------------------- MODULE ReadElfProofs ----------------------------
(***************************************************************************)
(* The report of readelf-ng, for every set of files and of options: which  *)
(* dumps it holds, and that what it holds is what the headers of the file  *)
(* say, although the actions change the file on the way.                   *)
(***************************************************************************)
EXTENDS ReadElf, NaturalRecursion, FiniteSetTheorems

-----------------------------------------------------------------------------
(***************************************************************************)
(* What the tests of ElfSegments promise for headers with any numbers.     *)
(***************************************************************************)
Number   == 0 .. Word - 1
IsSection(s) == /\ s.type \in Nat /\ s.flags \in Nat
                /\ s.addr \in Number /\ s.offset \in Number /\ s.size \in Number
IsSegment(p) == /\ p.type \in Nat /\ p.vaddr \in Number /\ p.offset \in Number
                /\ p.memsz \in Number /\ p.filesz \in Number

\* The section takes memory, or room in the file.
InMemory(s, p) == Has(s.flags, SHF_ALLOC) /\ s.size > 0 /\ ~check_tbss(s, p)
InFile(s)      == s.type # SHT_NOBITS /\ s.size > 0

\* The section ends below the last number.
Sane(s) == s.addr + s.size < Word /\ s.offset + s.size < Word

\* A range that passes the tests lies within the other one: the tests of
\* check_x2b and check_x3b, which count from the start of the segment and
\* take one from a length that may be 0, do not let a wrapped sum through.
LEMMA WithinBounds ==
  ASSUME NEW at \in Number, NEW size \in Number, NEW start \in Number, NEW length \in Number,
         at + size < Word, Within(at, size, start, length)
  PROVE  start <= at /\ at + size <= start + length
<1>1. start <= at /\ Plus(at - start, size) <= length
  BY DEF Within, Number
<1>2. Plus(at - start, size) = at - start + size
  BY <1>1, WordAssumption DEF Number, Plus
<1>3. QED
  BY <1>1, <1>2, WordAssumption DEF Number

\* Conversely a range of the other one that is not empty passes the tests.
Covered(at, size, start, length) == start <= at /\ at + size <= start + length

LEMMA WithinExactly ==
  ASSUME NEW at \in Number, NEW size \in Number, NEW start \in Number, NEW length \in Number,
         at + size < Word, size > 0
  PROVE  Within(at, size, start, length) <=> Covered(at, size, start, length)
<1>1. ASSUME Covered(at, size, start, length) PROVE Within(at, size, start, length)
  <2>1. at >= start /\ at - start < length /\ at - start + size <= length /\ length < Word
    BY <1>1, WordAssumption DEF Covered, Number
  <2>2. Less1(length) = length - 1
    BY <2>1, WordAssumption DEF Number, Less1
  <2>3. Plus(at - start, size) = at - start + size
    BY <2>1, WordAssumption DEF Number, Plus
  <2> QED BY <2>1, <2>2, <2>3, WordAssumption DEF Within, Number
<1> QED BY <1>1, WithinBounds DEF Covered

\* Memory of a listed section is memory of its segment: the mapping that
\* dumpelf_programheaders prints names no section outside of the segment.
THEOREM ListedInMemory ==
  ASSUME NEW s, NEW p, IsSection(s), IsSegment(p), Sane(s), InMemory(s, p), Listed(s, p)
  PROVE  p.vaddr <= s.addr /\ s.addr + s.size <= p.vaddr + p.memsz
<1>1. Within(s.addr, s.size, p.vaddr, p.memsz)
  BY DEF Listed, isshdrinphdr, MemoryFits, InMemory, get_size
<1>2. s.addr \in Number /\ s.size \in Number /\ p.vaddr \in Number /\ p.memsz \in Number
  BY DEF IsSection, IsSegment
<1>3. QED
  BY <1>1, <1>2, WithinBounds DEF Sane

\* And bytes of a listed section are bytes of its segment.
THEOREM ListedInFile ==
  ASSUME NEW s, NEW p, IsSection(s), IsSegment(p), Sane(s), InFile(s), Listed(s, p)
  PROVE  p.offset <= s.offset /\ s.offset + s.size <= p.offset + p.filesz
<1>1. Within(s.offset, s.size, p.offset, p.filesz)
  BY DEF Listed, isshdrinphdr, FileFits, InFile, get_size, check_tbss
<1>2. s.offset \in Number /\ s.size \in Number /\ p.offset \in Number /\ p.filesz \in Number
  BY DEF IsSection, IsSegment
<1>3. QED
  BY <1>1, <1>2, WithinBounds DEF Sane

\* A section with memory is listed under one of two segments that lie apart.
THEOREM ListedOnce ==
  ASSUME NEW s, NEW p, NEW q, IsSection(s), IsSegment(p), IsSegment(q), Sane(s),
         InMemory(s, p), InMemory(s, q),
         p.vaddr + p.memsz <= q.vaddr \/ q.vaddr + q.memsz <= p.vaddr
  PROVE  ~(Listed(s, p) /\ Listed(s, q))
<1>1. SUFFICES ASSUME Listed(s, p), Listed(s, q)
               PROVE  FALSE
  OBVIOUS
<1>2. /\ p.vaddr <= s.addr /\ s.addr + s.size <= p.vaddr + p.memsz
      /\ q.vaddr <= s.addr /\ s.addr + s.size <= q.vaddr + q.memsz
  BY <1>1, ListedInMemory
<1>3. /\ s.addr \in Int /\ s.size \in Int /\ s.size > 0
      /\ p.vaddr \in Int /\ p.memsz \in Int /\ q.vaddr \in Int /\ q.memsz \in Int
  BY WordAssumption DEF IsSection, IsSegment, Number, InMemory
<1>4. QED
  BY <1>2, <1>3

\* A section of a load segment that takes memory or room in the file is listed
\* exactly if its bytes are the segment's: the tests before and behind those of
\* the ranges neither drop one nor add one.
THEOREM LoadedExactly ==
  ASSUME NEW s, NEW p, IsSection(s), IsSegment(p), Sane(s),
         p.type = PT_LOAD, s.size > 0, ~check_tbss(s, p)
  PROVE  Listed(s, p) <=>
           /\ Has(s.flags, SHF_ALLOC)
           /\ Covered(s.addr, s.size, p.vaddr, p.memsz)
           /\ s.type = SHT_NOBITS \/ Covered(s.offset, s.size, p.offset, p.filesz)
<1>1. KindFits(s, p) /\ OnlyAllocated(p) /\ NotOnEdge(s, p)
  BY DEF KindFits, OnlyAllocated, NotOnEdge, PT_LOAD, PT_TLS, PT_GNU_RELRO, PT_PHDR, PT_DYNAMIC, PT_NOTE
<1>2. get_size(s, p) = s.size
  BY DEF get_size
<1>3. /\ s.addr \in Number /\ s.offset \in Number /\ s.size \in Number
      /\ p.vaddr \in Number /\ p.offset \in Number /\ p.memsz \in Number /\ p.filesz \in Number
  BY DEF IsSection, IsSegment
<1>4. Within(s.addr, s.size, p.vaddr, p.memsz) <=> Covered(s.addr, s.size, p.vaddr, p.memsz)
  BY <1>3, WithinExactly DEF Sane
<1>5. Within(s.offset, s.size, p.offset, p.filesz) <=> Covered(s.offset, s.size, p.offset, p.filesz)
  BY <1>3, WithinExactly DEF Sane
<1> QED BY <1>1, <1>2, <1>4, <1>5 DEF Listed, isshdrinphdr, FileFits, MemoryFits

-----------------------------------------------------------------------------
(***************************************************************************)
(* The order of the dumps.                                                 *)
(***************************************************************************)
Last == 13

\* There are thirteen dumps, each with a name of its own.
LEMMA DumpsAre ==
  /\ DOMAIN Dumps = 1 .. Last
  /\ \A j, k \in 1 .. Last : Dumps[j] = Dumps[k] => j = k
  /\ Dumps[4] = "segments" /\ Dumps[6] = "relocs" /\ Dumps[8] = "symbols" /\ Dumps[9] = "histogram"
  /\ Dumps[10] = "version" /\ Dumps[11] = "actions" /\ Dumps[13] = "arch"
  /\ \A k \in 1 .. Last : Dumps[k] # "done"
<1>1. DOMAIN Dumps = 1 .. Last
  BY DEF Dumps, Last
<1>2. ASSUME NEW j \in 1 .. Last, NEW k \in 1 .. Last, Dumps[j] = Dumps[k] PROVE j = k
  BY <1>2 DEF Dumps, Last
<1> QED BY <1>1, <1>2 DEF Dumps, Last

\* After a dump comes the one behind it in the list.
LEMMA FollowingIsNext ==
  ASSUME NEW k \in 1 .. Last
  PROVE  Following(Dumps[k]) = IF k = Last THEN "done" ELSE Dumps[k + 1]
<1> DEFINE c == CHOOSE n \in DOMAIN Dumps : Dumps[n] = Dumps[k]
<1>1. c = k
  BY DumpsAre
<1>2. Len(Dumps) = Last
  BY DEF Dumps, Last
<1>3. Following(Dumps[k]) = IF c = Len(Dumps) THEN "done" ELSE Dumps[c + 1]
  BY DEF Following
<1> HIDE DEF c
<1> QED BY <1>1, <1>2, <1>3

-----------------------------------------------------------------------------
(***************************************************************************)
(* The inductive invariant.                                                *)
(***************************************************************************)
IsFile(f) ==
  f \in [be : BOOLEAN, bits : {32, 64}, ehdr : {f.ehdr}, shdr : {f.shdr}, phdr : {f.phdr}, body : {f.body}]

\* An action has shown a section at most.
ActionsCounted ==
  /\ options \in Options /\ IsFile(file)
  /\ action \in 1 .. Len(options.actions) + 1
  /\ \E S : report.actions \in Seq(S)
  /\ Len(report.actions) < action

\* The report holds the dumps before this one that were asked for.
InOrder ==
  \E k \in 1 .. Last + 1 :
    /\ pc = IF k = Last + 1 THEN "done" ELSE Dumps[k]
    /\ DOMAIN report = {"actions"} \union {d \in options.wants : \E j \in 1 .. k - 1 : d = Dumps[j]}

BeforeActions == {Dumps[k] : k \in 1 .. 10}

\* The actions leave the headers alone.
SameHeaders(f, g) == f.be = g.be /\ f.ehdr = g.ehdr /\ f.shdr = g.shdr /\ f.phdr = g.phdr

\* The dumps before the actions are made of the file as it was opened.
Opened(f) ==
  /\ f \in Files /\ SameHeaders(f, file)
  /\ pc \in BeforeActions => f = file
  /\ "segments" \in DOMAIN report => report.segments = dump_programheaders(f)
  /\ "relocs" \in DOMAIN report => report.relocs = dump_relocs(f)
  /\ "symbols" \in DOMAIN report => report.symbols = dump_symbols(f, options.dynamic)
  /\ "histogram" \in DOMAIN report => report.histogram = dump_histogram(f)
  /\ "version" \in DOMAIN report => report.version = dump_version(f)
OpenedShown == \E f : Opened(f)

\* The last dump is made of the file that the actions leave.
ArchShown == "arch" \in DOMAIN report => report.arch = dump_archspecific(file)

IInv == ActionsCounted /\ InOrder /\ OpenedShown /\ ArchShown

\* The report is empty but for what the actions will add.
LEMMA InitIInv == Init => IInv
<1> SUFFICES ASSUME Init PROVE IInv
  OBVIOUS
<1>1. ActionsCounted
  <2>1. report.actions = << >> /\ report.actions \in Seq({}) /\ Len(report.actions) = 0
    BY DEF Init
  <2>2. Len(options.actions) \in Nat
    BY OptionsAssumption DEF Init
  <2>3. IsFile(file)
    BY FilesAssumption DEF Init, IsFile
  <2> QED BY <2>1, <2>2, <2>3 DEF Init, ActionsCounted
<1>2. InOrder
  <2>1. pc = Dumps[1] /\ 1 \in 1 .. Last + 1 /\ 1 # Last + 1
    BY DEF Init, Dumps, Last
  <2>2. DOMAIN report = {"actions"} \union {d \in options.wants : \E j \in 1 .. 1 - 1 : d = Dumps[j]}
    BY DEF Init
  <2> QED BY <2>1, <2>2 DEF InOrder
<1>3. OpenedShown /\ ArchShown
  BY DEF Init, OpenedShown, Opened, SameHeaders, ArchShown
<1> QED BY <1>1, <1>2, <1>3 DEF IInv

\* A dump adds its rows to the report, if they were asked for.
LEMMA DumpAdds ==
  ASSUME IInv, NEW n \in 1 .. Last, n # 11, NEW rows, Dump(Dumps[n], rows)
  PROVE  /\ UNCHANGED <<file, options, action>> /\ pc = Dumps[n] /\ pc' = Following(Dumps[n])
         /\ DOMAIN report' = DOMAIN report \union ({Dumps[n]} \intersect options.wants)
         /\ \A d \in DOMAIN report : report'[d] = report[d]
         /\ Dumps[n] \in DOMAIN report' => report'[Dumps[n]] = rows
         /\ InOrder'
<1>1. UNCHANGED <<file, options, action>> /\ pc = Dumps[n] /\ pc' = Following(Dumps[n])
  BY DEF Dump
<1>2. PICK k \in 1 .. Last + 1 :
        /\ pc = IF k = Last + 1 THEN "done" ELSE Dumps[k]
        /\ DOMAIN report = {"actions"} \union {d \in options.wants : \E j \in 1 .. k - 1 : d = Dumps[j]}
  BY DEF IInv, InOrder
<1>3. k = n
  <2>1. k # Last + 1
    BY <1>1, <1>2, DumpsAre
  <2>2. k \in 1 .. Last /\ pc = Dumps[k]
    BY <1>2, <2>1 DEF Last
  <2> QED BY <1>1, <2>2, DumpsAre
<1>4. Dumps[n] \notin DOMAIN report
  BY <1>2, <1>3, DumpsAre DEF Last
<1>5. /\ DOMAIN report' = DOMAIN report \union ({Dumps[n]} \intersect options.wants)
      /\ \A d \in DOMAIN report : report'[d] = report[d]
      /\ Dumps[n] \in DOMAIN report' => report'[Dumps[n]] = rows
  <2>1. CASE Dumps[n] \in options.wants
    <3>1. report' = With(Dumps[n], rows)
      BY <2>1 DEF Dump
    <3> QED BY <1>4, <2>1, <3>1 DEF With
  <2>2. CASE Dumps[n] \notin options.wants
    BY <1>4, <2>2 DEF Dump
  <2> QED BY <2>1, <2>2
<1>6. InOrder'
  <2>1. pc' = IF n + 1 = Last + 1 THEN "done" ELSE Dumps[n + 1]
    BY <1>1, FollowingIsNext DEF Last
  <2>2. DOMAIN report' = {"actions"} \union {d \in options'.wants : \E j \in 1 .. (n + 1) - 1 : d = Dumps[j]}
    BY <1>1, <1>2, <1>3, <1>5 DEF Last
  <2>3. n + 1 \in 1 .. Last + 1
    BY DEF Last
  <2> QED BY <2>1, <2>2, <2>3 DEF InOrder
<1> QED BY <1>1, <1>5, <1>6

\* A dump keeps the invariant when its rows are those of the file.
LEMMA DumpKeeps ==
  ASSUME IInv, NEW n \in 1 .. Last, n # 11, NEW rows, Dump(Dumps[n], rows),
         n = 4 => rows = dump_programheaders(file), n = 6 => rows = dump_relocs(file),
         n = 8 => rows = dump_symbols(file, options.dynamic), n = 9 => rows = dump_histogram(file),
         n = 10 => rows = dump_version(file), n = Last => rows = dump_archspecific(file)
  PROVE  IInv'
<1>1. /\ UNCHANGED <<file, options, action>>
      /\ DOMAIN report' = DOMAIN report \union ({Dumps[n]} \intersect options.wants)
      /\ \A d \in DOMAIN report : report'[d] = report[d]
      /\ Dumps[n] \in DOMAIN report' => report'[Dumps[n]] = rows
      /\ InOrder'
  BY DumpAdds
<1>2. "actions" \in DOMAIN report
  BY DEF IInv, InOrder
<1>3. ActionsCounted'
  <2>1. report'.actions = report.actions
    BY <1>1, <1>2
  <2> QED BY <1>1, <2>1 DEF IInv, ActionsCounted
<1>4. OpenedShown'
  <2>1. PICK f : Opened(f)
    BY DEF IInv, OpenedShown
  <2>2. pc = Dumps[n] /\ pc' = Following(Dumps[n])
    BY DumpAdds
  <2>3. n <= 10 => f = file
    <3>1. n <= 10 => pc \in BeforeActions
      BY <2>2 DEF BeforeActions, Last
    <3> QED BY <2>1, <3>1 DEF Opened
  <2>4. pc' \in BeforeActions => n <= 10
    <3>1. CASE n = 12
      <4>1. pc' = Dumps[13]
        BY <2>2, <3>1, FollowingIsNext DEF Last
      <4>2. \A k \in 1 .. 10 : Dumps[k] # Dumps[13]
        BY DumpsAre DEF Last
      <4> QED BY <4>1, <4>2 DEF BeforeActions
    <3>2. CASE n = 13
      <4>1. pc' = "done"
        BY <2>2, <3>2, FollowingIsNext DEF Last
      <4>2. \A k \in 1 .. 10 : Dumps[k] # "done"
        BY DumpsAre DEF Last
      <4> QED BY <4>1, <4>2 DEF BeforeActions
    <3> QED BY <3>1, <3>2 DEF Last
  <2>5. /\ "segments" \in DOMAIN report' => report'.segments = dump_programheaders(f)
        /\ "relocs" \in DOMAIN report' => report'.relocs = dump_relocs(f)
        /\ "symbols" \in DOMAIN report' => report'.symbols = dump_symbols(f, options.dynamic)
        /\ "histogram" \in DOMAIN report' => report'.histogram = dump_histogram(f)
        /\ "version" \in DOMAIN report' => report'.version = dump_version(f)
    <3>1. ASSUME NEW d \in DOMAIN report', d \notin DOMAIN report PROVE Dumps[n] = d /\ report'[d] = rows
      BY <1>1, <3>1
    <3>2. ASSUME NEW k \in 1 .. 10, Dumps[k] \in DOMAIN report', Dumps[k] \notin DOMAIN report
          PROVE  n = k /\ f = file /\ report'[Dumps[k]] = rows
      <4>1. Dumps[n] = Dumps[k] /\ report'[Dumps[k]] = rows
        BY <3>1, <3>2
      <4>2. n = k
        BY <4>1, DumpsAre DEF Last
      <4> QED BY <2>3, <4>1, <4>2
    <3>3. "segments" \in DOMAIN report' => report'.segments = dump_programheaders(f)
      BY <1>1, <2>1, <3>2, DumpsAre DEF Opened
    <3>4. "relocs" \in DOMAIN report' => report'.relocs = dump_relocs(f)
      BY <1>1, <2>1, <3>2, DumpsAre DEF Opened
    <3>5. "symbols" \in DOMAIN report' => report'.symbols = dump_symbols(f, options.dynamic)
      BY <1>1, <2>1, <3>2, DumpsAre DEF Opened
    <3>6. "histogram" \in DOMAIN report' => report'.histogram = dump_histogram(f)
      BY <1>1, <2>1, <3>2, DumpsAre DEF Opened
    <3>7. "version" \in DOMAIN report' => report'.version = dump_version(f)
      BY <1>1, <2>1, <3>2, DumpsAre DEF Opened
    <3> QED BY <3>3, <3>4, <3>5, <3>6, <3>7
  <2>6. f \in Files /\ SameHeaders(f, file') /\ (pc' \in BeforeActions => f = file')
    BY <1>1, <2>1, <2>3, <2>4 DEF Opened
  <2>7. Opened(f)'
    BY <1>1, <2>5, <2>6 DEF Opened
  <2> QED BY <2>7 DEF OpenedShown
<1>5. ArchShown'
  <2> SUFFICES ASSUME "arch" \in DOMAIN report'
               PROVE  report'.arch = dump_archspecific(file)
    BY <1>1 DEF ArchShown
  <2>1. CASE "arch" \in DOMAIN report
    BY <1>1, <2>1 DEF IInv, ArchShown
  <2>2. CASE "arch" \notin DOMAIN report
    <3>1. Dumps[n] = "arch"
      BY <1>1, <2>2
    <3>2. n = Last
      BY <3>1, DumpsAre DEF Last
    <3> QED BY <1>1, <3>1, <3>2
  <2> QED BY <2>1, <2>2
<1> QED BY <1>1, <1>3, <1>4, <1>5 DEF IInv

\* While the actions run, the last dump has not been made.
LEMMA ActionsComeFirst ==
  ASSUME InOrder, pc = "actions"
  PROVE  /\ DOMAIN report = {"actions"} \union {d \in options.wants : \E j \in 1 .. 10 : d = Dumps[j]}
         /\ "arch" \notin DOMAIN report
<1>1. PICK k \in 1 .. Last + 1 :
        /\ pc = IF k = Last + 1 THEN "done" ELSE Dumps[k]
        /\ DOMAIN report = {"actions"} \union {d \in options.wants : \E j \in 1 .. k - 1 : d = Dumps[j]}
  BY DEF InOrder
<1>2. k = 11
  <2>1. k # Last + 1
    BY <1>1
  <2>2. k \in 1 .. Last /\ Dumps[k] = Dumps[11]
    BY <1>1, <2>1, DumpsAre DEF Last
  <2> QED BY <2>2, DumpsAre DEF Last
<1>3. \A j \in 1 .. 10 : Dumps[j] # Dumps[13]
  BY DumpsAre DEF Last
<1> QED BY <1>1, <1>2, <1>3, DumpsAre DEF Last

\* What an action makes of a file has the headers of the file.
LEMMA ChangedHeaders ==
  ASSUME NEW f, IsFile(f), NEW actions, NEW s
  PROVE  IsFile(ChangedFile(f, actions, s)) /\ SameHeaders(f, ChangedFile(f, actions, s))
<1> DEFINE b == [o \in DOMAIN f.body |-> IF o = s.offset /\ Contents(f, s) # << >>
                                         THEN [j \in DOMAIN f.body[o] |-> dump_actions1(actions, f.body[o][j])]
                                         ELSE f.body[o]]
<1>1. ChangedFile(f, actions, s) = [f EXCEPT !.body = b]
  BY DEF ChangedFile
<1> HIDE DEF b
<1> QED BY <1>1 DEF IsFile, SameHeaders

\* An action adds one section to the report, or nothing.
LEMMA ActionKeeps ==
  ASSUME IInv, ShowSection \/ NoSuchSection \/ NoSection
  PROVE  IInv'
<1>1. /\ pc = "actions" /\ pc' = pc /\ UNCHANGED options /\ action' = action + 1
      /\ action <= Len(options.actions)
      /\ UNCHANGED report \/ \E e : report' = [report EXCEPT !.actions = Append(@, e)]
  BY DEF ShowSection, NoSuchSection, NoSection, AtAction, Done
<1>2. IsFile(file') /\ SameHeaders(file, file')
  <2>1. IsFile(file)
    BY DEF IInv, ActionsCounted
  <2>2. CASE file' = file
    BY <2>1, <2>2 DEF SameHeaders
  <2>3. CASE file' # file
    <3>1. file' = ChangedFile(file, options.actions, shdrbyname(file, options.actions[action].secname))
      BY <2>3 DEF ShowSection, NoSuchSection, NoSection
    <3> QED BY <2>1, <3>1, ChangedHeaders
  <2> QED BY <2>2, <2>3
<1>3. "actions" \in DOMAIN report
  BY DEF IInv, InOrder
<1>4. /\ DOMAIN report' = DOMAIN report
      /\ \A d \in DOMAIN report : d # "actions" => report'[d] = report[d]
      /\ report'.actions = report.actions \/ \E e : report'.actions = Append(report.actions, e)
  BY <1>1, <1>3
<1>5. ActionsCounted'
  <2>1. options \in Options /\ Len(options.actions) \in Nat /\ action \in Nat
    BY OptionsAssumption DEF IInv, ActionsCounted
  <2>2. action' \in 1 .. Len(options'.actions) + 1
    BY <1>1, <2>1
  <2>3. PICK S : report.actions \in Seq(S)
    BY DEF IInv, ActionsCounted
  <2>4. CASE report'.actions = report.actions
    BY <1>1, <1>2, <2>1, <2>2, <2>3, <2>4 DEF IInv, ActionsCounted
  <2>5. CASE \E e : report'.actions = Append(report.actions, e)
    <3>1. PICK e : report'.actions = Append(report.actions, e)
      BY <2>5
    <3>2. report.actions \in Seq(S \union {e})
      BY <2>3
    <3>3. report'.actions \in Seq(S \union {e}) /\ Len(report'.actions) = Len(report.actions) + 1
          /\ Len(report.actions) \in Nat
      BY <3>1, <3>2
    <3> QED BY <1>1, <1>2, <2>1, <2>2, <3>3 DEF IInv, ActionsCounted
  <2> QED BY <1>4, <2>4, <2>5
<1>6. InOrder'
  BY <1>1, <1>4 DEF IInv, InOrder
<1>7. OpenedShown'
  <2>1. PICK f : Opened(f)
    BY DEF IInv, OpenedShown
  <2>2. f \in Files /\ SameHeaders(f, file')
    BY <1>2, <2>1 DEF Opened, SameHeaders
  <2>3. pc' \notin BeforeActions
    <3>1. \A k \in 1 .. 10 : Dumps[k] # Dumps[11]
      BY DumpsAre DEF Last
    <3> QED BY <1>1, <3>1, DumpsAre DEF BeforeActions
  <2>4. /\ "segments" \in DOMAIN report' => report'.segments = dump_programheaders(f)
        /\ "relocs" \in DOMAIN report' => report'.relocs = dump_relocs(f)
        /\ "symbols" \in DOMAIN report' => report'.symbols = dump_symbols(f, options'.dynamic)
        /\ "histogram" \in DOMAIN report' => report'.histogram = dump_histogram(f)
        /\ "version" \in DOMAIN report' => report'.version = dump_version(f)
    BY <1>1, <1>4, <2>1 DEF Opened
  <2>5. Opened(f)'
    BY <2>2, <2>3, <2>4 DEF Opened
  <2> QED BY <2>5 DEF OpenedShown
<1>8. ArchShown'
  BY <1>1, <1>4, ActionsComeFirst DEF IInv, ArchShown
<1> QED BY <1>5, <1>6, <1>7, <1>8 DEF IInv

\* Behind the last action the notes come.
LEMMA EndActionsKeeps ==
  ASSUME IInv, EndActions
  PROVE  IInv'
<1>1. pc = Dumps[11] /\ pc' = Dumps[12] /\ UNCHANGED <<file, options, action, report>>
  BY DumpsAre, FollowingIsNext DEF EndActions, Last
<1>2. InOrder'
  <2>1. DOMAIN report = {"actions"} \union {d \in options.wants : \E j \in 1 .. 10 : d = Dumps[j]}
    BY <1>1, ActionsComeFirst, DumpsAre DEF IInv
  <2>2. DOMAIN report = {"actions"} \union {d \in options.wants : \E j \in 1 .. 12 - 1 : d = Dumps[j]}
    BY <2>1, DumpsAre DEF Last
  <2>3. 12 \in 1 .. Last + 1 /\ 12 # Last + 1
    BY DEF Last
  <2> QED BY <1>1, <2>2, <2>3 DEF InOrder
<1>3. OpenedShown'
  <2>1. PICK f : Opened(f)
    BY DEF IInv, OpenedShown
  <2>2. pc' \notin BeforeActions
    <3>1. \A k \in 1 .. 10 : Dumps[k] # Dumps[12]
      BY DumpsAre DEF Last
    <3> QED BY <1>1, <3>1 DEF BeforeActions
  <2>3. Opened(f)'
    BY <1>1, <2>1, <2>2 DEF Opened
  <2> QED BY <2>3 DEF OpenedShown
<1> QED BY <1>1, <1>2, <1>3 DEF IInv, ActionsCounted, ArchShown

\* Every step of the report keeps the invariant: a dump for its place in the
\* list, the actions one by one.
LEMMA NextKeepsIInv == IInv /\ [Next]_vars => IInv'
<1> SUFFICES ASSUME IInv, [Next]_vars PROVE IInv'
  OBVIOUS
<1> USE DEF Last
<1>1. CASE FileHeader
  <2>1. Dumps[1] = "fileheader" BY DEF Dumps
  <2>2. Dump(Dumps[1], dump_fileheader(file)) BY <1>1, <2>1 DEF FileHeader
  <2> QED BY <2>2, DumpKeeps
<1>2. CASE SectionHeaders
  <2>1. Dumps[2] = "sections" BY DEF Dumps
  <2>2. Dump(Dumps[2], dump_sectionheaders(file)) BY <1>2, <2>1 DEF SectionHeaders
  <2> QED BY <2>2, DumpKeeps
<1>3. CASE SectionGroups
  <2>1. Dumps[3] = "groups" BY DEF Dumps
  <2>2. Dump(Dumps[3], dump_sectiongroups(file)) BY <1>3, <2>1 DEF SectionGroups
  <2> QED BY <2>2, DumpKeeps
<1>4. CASE ProgramHeaders
  <2>1. Dumps[4] = "segments" BY DEF Dumps
  <2>2. Dump(Dumps[4], dump_programheaders(file)) BY <1>4, <2>1 DEF ProgramHeaders
  <2> QED BY <2>2, DumpKeeps
<1>5. CASE Dynamic
  <2>1. Dumps[5] = "dynamic" BY DEF Dumps
  <2>2. Dump(Dumps[5], dump_dynamic(file)) BY <1>5, <2>1 DEF Dynamic
  <2> QED BY <2>2, DumpKeeps
<1>6. CASE Relocs
  <2>1. Dumps[6] = "relocs" BY DEF Dumps
  <2>2. Dump(Dumps[6], dump_relocs(file)) BY <1>6, <2>1 DEF Relocs
  <2> QED BY <2>2, DumpKeeps
<1>7. CASE Unwind
  <2>1. Dumps[7] = "unwind" BY DEF Dumps
  <2>2. Dump(Dumps[7], dump_unwind(file)) BY <1>7, <2>1 DEF Unwind
  <2> QED BY <2>2, DumpKeeps
<1>8. CASE Symbols
  <2>1. Dumps[8] = "symbols" BY DEF Dumps
  <2>2. Dump(Dumps[8], dump_symbols(file, options.dynamic)) BY <1>8, <2>1 DEF Symbols
  <2> QED BY <2>2, DumpKeeps
<1>9. CASE Histogram
  <2>1. Dumps[9] = "histogram" BY DEF Dumps
  <2>2. Dump(Dumps[9], dump_histogram(file)) BY <1>9, <2>1 DEF Histogram
  <2> QED BY <2>2, DumpKeeps
<1>10. CASE Version
  <2>1. Dumps[10] = "version" BY DEF Dumps
  <2>2. Dump(Dumps[10], dump_version(file)) BY <1>10, <2>1 DEF Version
  <2> QED BY <2>2, DumpKeeps
<1>11. CASE ShowSection \/ NoSuchSection \/ NoSection
  BY <1>11, ActionKeeps
<1>12. CASE EndActions
  BY <1>12, EndActionsKeeps
<1>13. CASE Notes
  <2>1. Dumps[12] = "notes" BY DEF Dumps
  <2>2. Dump(Dumps[12], IF isELFcore(file) THEN << >> ELSE dump_notes(file)) BY <1>13, <2>1 DEF Notes
  <2> QED BY <2>2, DumpKeeps
<1>14. CASE ArchSpecific
  <2>1. Dumps[13] = "arch" BY DEF Dumps
  <2>2. Dump(Dumps[13], dump_archspecific(file)) BY <1>14, <2>1 DEF ArchSpecific
  <2> QED BY <2>2, DumpKeeps
<1>15. CASE UNCHANGED vars
  BY <1>15 DEF vars, IInv, ActionsCounted, InOrder, OpenedShown, Opened, ArchShown
<1> QED BY <1>1, <1>2, <1>3, <1>4, <1>5, <1>6, <1>7, <1>8, <1>9, <1>10, <1>11, <1>12, <1>13, <1>14, <1>15
        DEF Next

\* Every state of every report keeps it.
THEOREM AlwaysIInv == Spec => []IInv
<1>1. Init => IInv
  BY InitIInv
<1>2. IInv /\ [Next]_vars => IInv'
  BY NextKeepsIInv
<1> QED BY <1>1, <1>2, PTL DEF Spec

-----------------------------------------------------------------------------
(***************************************************************************)
(* What follows from it.                                                   *)
(***************************************************************************)

\* The invariant has the report whole at the end, and in order before.
LEMMA IInvIsTyped == IInv => TypeOK
<1> SUFFICES ASSUME IInv PROVE TypeOK
  OBVIOUS
<1>1. PICK k \in 1 .. Last + 1 :
        /\ pc = IF k = Last + 1 THEN "done" ELSE Dumps[k]
        /\ DOMAIN report = {"actions"} \union {d \in options.wants : \E j \in 1 .. k - 1 : d = Dumps[j]}
  BY DEF IInv, InOrder
<1>2. pc \in {Dumps[n] : n \in DOMAIN Dumps} \union {"done"}
  <2>1. CASE k = Last + 1
    BY <1>1, <2>1
  <2>2. CASE k \in 1 .. Last
    <3>1. pc = Dumps[k]
      BY <1>1, <2>2 DEF Last
    <3> QED BY <2>2, <3>1, DumpsAre
  <2> QED BY <2>1, <2>2 DEF Last
<1>3. pc = "done" => options.wants \subseteq DOMAIN report
  <2> SUFFICES ASSUME pc = "done", NEW d \in options.wants PROVE d \in DOMAIN report
    OBVIOUS
  <2>1. k = Last + 1
    <3>1. k \in 1 .. Last => Dumps[k] # "done"
      BY DumpsAre
    <3> QED BY <1>1, <3>1 DEF Last
  <2>2. d \in DumpNames
    BY OptionsAssumption DEF IInv, ActionsCounted
  <2>3. PICK j \in 1 .. Last : d = Dumps[j]
    BY <2>2, DumpsAre DEF DumpNames
  <2> QED BY <1>1, <2>1, <2>3 DEF Last
<1>4. action \in 1 .. Len(options.actions) + 1 /\ Len(report.actions) < action
  BY DEF IInv, ActionsCounted
<1> QED BY <1>1, <1>2, <1>3, <1>4 DEF TypeOK

\* The report holds the dumps asked for at its end, and none before its turn:
\* main of readelf.c calls them in this order.
THEOREM TypeCorrect == Spec => []TypeOK
BY AlwaysIInv, IInvIsTyped, PTL

\* Headers as the linkers write them: the fields are numbers of the width of
\* the file, and no section passes the end of memory.
SaneHeaders(f) ==
  /\ \A j \in Readable(f) : IsSection(shdrAt(f, j)) /\ Sane(shdrAt(f, j))
  /\ \A i \in Segments(f) : IsSegment(phdrAt(f, i))

\* Files with the same headers have the same segments, with the same sections.
LEMMA SameSegments ==
  ASSUME NEW f, NEW g, SameHeaders(f, g)
  PROVE  /\ Readable(f) = Readable(g) /\ Segments(f) = Segments(g)
         /\ \A i : shdrAt(f, i) = shdrAt(g, i) /\ phdrAt(f, i) = phdrAt(g, i)
         /\ \A i : Mapping(f, i) = Mapping(g, i)
<1>1. \A r, fields : Order(f, r, fields) = Order(g, r, fields)
  BY DEF SameHeaders, Order, ecconvert
<1>2. \A i : shdrAt(f, i) = shdrAt(g, i) /\ phdrAt(f, i) = phdrAt(g, i)
  BY <1>1 DEF SameHeaders, shdrAt, phdrAt, shdr, phdr
<1>3. ehdr(f) = ehdr(g)
  BY <1>1 DEF SameHeaders, ehdr, header
<1>4. Readable(f) = Readable(g) /\ Segments(f) = Segments(g)
  BY <1>2, <1>3 DEF Readable, Indices, Segments
<1> QED BY <1>2, <1>4 DEF Mapping

\* A section listed under a segment is one of the mapping of the report.
LEMMA ShownMapping ==
  ASSUME NEW f, NEW i \in DOMAIN dump_programheaders(f).mapping, NEW j \in Readable(f) \ {0}
  PROVE  /\ i \in Segments(f)
         /\ j \in DOMAIN dump_programheaders(f).mapping[i] <=> Listed(shdrAt(f, j), phdrAt(f, i))
<1>1. ~(Readable(f) \subseteq {0})
  OBVIOUS
<1>2. dump_programheaders(f).mapping = [n \in Segments(f) |-> [m \in Mapping(f, n) |-> secname(f, m)]]
  BY <1>1 DEF dump_programheaders
<1>3. i \in Segments(f) /\ DOMAIN dump_programheaders(f).mapping[i] = Mapping(f, i)
  BY <1>2
<1> QED BY <1>3 DEF Mapping

LEMMA SegmentsFollow == IInv => (SaneHeaders(file) => SegmentsHoldSections)
<1> SUFFICES ASSUME IInv, SaneHeaders(file), pc = "done", "segments" \in options.wants,
                    NEW i \in DOMAIN report.segments.mapping, NEW j \in Readable(file) \ {0},
                    phdrAt(file, i).type = PT_LOAD, shdrAt(file, j).size > 0,
                    ~check_tbss(shdrAt(file, j), phdrAt(file, i))
             PROVE  j \in DOMAIN report.segments.mapping[i] <=>
                      /\ Has(shdrAt(file, j).flags, SHF_ALLOC)
                      /\ Inside(shdrAt(file, j).addr, shdrAt(file, j).size,
                                phdrAt(file, i).vaddr, phdrAt(file, i).memsz)
                      /\ \/ shdrAt(file, j).type = SHT_NOBITS
                         \/ Inside(shdrAt(file, j).offset, shdrAt(file, j).size,
                                   phdrAt(file, i).offset, phdrAt(file, i).filesz)
  BY DEF SegmentsHoldSections
<1>1. "segments" \in DOMAIN report
  BY IInvIsTyped DEF TypeOK
<1>2. PICK f : SameHeaders(f, file) /\ report.segments = dump_programheaders(f)
  BY <1>1 DEF IInv, OpenedShown, Opened
<1>3. /\ Readable(f) = Readable(file) /\ Segments(f) = Segments(file)
      /\ shdrAt(f, j) = shdrAt(file, j) /\ phdrAt(f, i) = phdrAt(file, i)
  BY <1>2, SameSegments
<1>4. /\ i \in Segments(file)
      /\ j \in DOMAIN report.segments.mapping[i] <=> Listed(shdrAt(file, j), phdrAt(file, i))
  BY <1>2, <1>3, ShownMapping
<1>5. IsSection(shdrAt(file, j)) /\ Sane(shdrAt(file, j)) /\ IsSegment(phdrAt(file, i))
  BY <1>4 DEF SaneHeaders
<1> QED BY <1>4, <1>5, LoadedExactly DEF Covered, Inside

\* dump_programheaders lists under a load segment exactly the sections whose
\* bytes are the segment's, as long as the headers are sane, however the
\* actions change the contents of sections afterwards.
THEOREM AlwaysSegmentsHoldSections == Spec => [](SaneHeaders(file) => SegmentsHoldSections)
BY AlwaysIInv, SegmentsFollow, PTL

\* The counts of the global offset table are unsigned numbers, as elf.h has them.
GotNumbers(f) ==
  value(f, DT_MIPS_LOCAL_GOTNO) \in Nat /\ value(f, DT_MIPS_GOTSYM) \in Nat /\ value(f, DT_MIPS_SYMTABNO) \in Nat

\* The slots that the three loops of dump_archspecific4 show, for counts that
\* add up to the size of the section.
LEMMA SlotsCover ==
  ASSUME NEW f, NEW s, NEW gotno \in Nat, NEW n \in Nat, Slots(f, s) = gotno + n, gotno >= 2
  PROVE  /\ Behind(gotno) = gotno
         /\ ReservedSlots(gotno) \union LocalSlots(f, s, gotno) \union GlobalSlots(f, s, gotno, n)
              = 0 .. Slots(f, s) - 1
         /\ LocalSlots(f, s, gotno) \intersect (ReservedSlots(gotno) \union GlobalSlots(f, s, gotno, n)) = {}
<1>1. Behind(gotno) = gotno
  BY DEF Behind
<1>2. ReservedSlots(gotno) = {0, 1}
  BY DEF ReservedSlots
<1>3. LocalSlots(f, s, gotno) = 2 .. gotno - 1
  BY DEF LocalSlots
<1>4. GlobalSlots(f, s, gotno, n) = gotno .. gotno + n - 1
  BY <1>1 DEF GlobalSlots
<1> QED BY <1>1, <1>2, <1>3, <1>4

LEMMA GotFollows == IInv => (GotNumbers(file) => GotWhole)
<1> DEFINE got == report.arch.got
           s == shdrbyname(file, ".got")
           gotno == value(file, DT_MIPS_LOCAL_GOTNO)
           gotsym == value(file, DT_MIPS_GOTSYM)
           symtabno == value(file, DT_MIPS_SYMTABNO)
           n == symtabno - gotsym
<1> SUFFICES ASSUME IInv, GotNumbers(file), pc = "done", "arch" \in options.wants, got # << >>,
                    n >= 0, Slots(file, s) = gotno + n, gotno >= 2
             PROVE  /\ DOMAIN got.reserved \union DOMAIN got.local \union DOMAIN got.global = 0 .. Slots(file, s) - 1
                    /\ DOMAIN got.local \intersect (DOMAIN got.reserved \union DOMAIN got.global) = {}
                    /\ \A k \in DOMAIN got.global : got.global[k].symbol = GotSymbol(file, gotsym + k - gotno)
  BY DEF GotWhole
<1>1. report.arch = dump_archspecific(file)
  BY IInvIsTyped DEF TypeOK, IInv, ArchShown
<1>2. got = dump_got(file, s)
  BY <1>1 DEF dump_archspecific
<1>3. gotno \in Nat /\ gotsym \in Nat /\ symtabno \in Nat
  BY DEF GotNumbers
<1>4. n \in Nat /\ n = IF gotsym < symtabno THEN symtabno - gotsym ELSE 0
  BY <1>3
<1>5. got = [reserved |-> [k \in ReservedSlots(gotno) |-> GotRow(file, s, k)],
             local  |-> [k \in LocalSlots(file, s, gotno) |-> GotRow(file, s, k)],
             global |-> [k \in GlobalSlots(file, s, gotno, n) |->
                           [row |-> GotRow(file, s, k), symbol |-> GotSymbol(file, gotsym + k - Behind(gotno))]]]
  BY <1>2, <1>4 DEF dump_got
<1> HIDE DEF got, s, gotno, gotsym, symtabno, n
<1>6. /\ DOMAIN got.reserved = ReservedSlots(gotno)
      /\ DOMAIN got.local = LocalSlots(file, s, gotno)
      /\ DOMAIN got.global = GlobalSlots(file, s, gotno, n)
      /\ \A k \in DOMAIN got.global : got.global[k].symbol = GotSymbol(file, gotsym + k - Behind(gotno))
  BY <1>5
<1>7. /\ Behind(gotno) = gotno
      /\ ReservedSlots(gotno) \union LocalSlots(file, s, gotno) \union GlobalSlots(file, s, gotno, n)
           = 0 .. Slots(file, s) - 1
      /\ LocalSlots(file, s, gotno) \intersect (ReservedSlots(gotno) \union GlobalSlots(file, s, gotno, n)) = {}
  <2>1. gotno \in Nat /\ n \in Nat
    BY <1>3, <1>4
  <2> QED BY ONLY <2>1, Slots(file, s) = gotno + n, gotno >= 2, SlotsCover
<1> QED BY <1>6, <1>7

\* dump_archspecific4 shows every slot of a table whose counts add up, none as
\* a local and as another one, and beside each global slot its symbol.
THEOREM AlwaysGotWhole == Spec => [](GotNumbers(file) => GotWhole)
BY AlwaysIInv, GotFollows, PTL
-----------------------------------------------------------------------------
(***************************************************************************)
(* The versions of symbols, looked up in three ways.                       *)
(***************************************************************************)
\* Tables as a linker writes them: where a relocation shows a version, its symbol
\* is one of the first dynamic table and has a number in the version table, and
\* the string table of the versions begins with the empty name.
SoundVersions(f) ==
  /\ ~Shown(namebyoffset(f, vnames(f, 0), 0))
  /\ \A i \in Relocations(f) : \A j \in DOMAIN RelocRows(f, shdrAt(f, i)) :
       LET row == RelocRows(f, shdrAt(f, i))[j]
           k == R_SYM(row.r.info)
       IN Shown(row.symbol.version) =>
            /\ k \in 0 .. Count(shdrbytype(f, SHT_GNU_versym)) - 1 /\ versymAt(f, k) \in Nat
            /\ k \in 0 .. Count(shdrbytype(f, SHT_DYNSYM)) - 1 /\ symAt(f, indexbytype(f, SHT_DYNSYM), k) # Null

\* The first section of a type is one of them, if there is any.
LEMMA IndexIsFirst ==
  ASSUME NEW f \in Files, NEW t, shdrbytype(f, t) # Null
  PROVE  indexbytype(f, t) \in OfType(f, t)
<1>1. OfType(f, t) \subseteq Nat
  BY DEF OfType, Readable, Indices
<1>2. CASE OfType(f, t) = {}
  <2>1. indexbytype(f, t) = -1
    BY <1>2 DEF indexbytype, First
  <2>2. At(f.shdr, -1) = Null
    <3>1. f.shdr \in Seq({f.shdr[i] : i \in DOMAIN f.shdr})
      BY FilesAssumption
    <3>2. 0 \notin DOMAIN f.shdr
      BY <3>1
    <3> QED BY <3>2 DEF At
  <2>3. shdrAt(f, -1) = Null
    BY <2>2 DEF shdrAt, shdr, Order
  <2> QED BY <2>1, <2>3 DEF shdrbytype
<1>3. CASE OfType(f, t) # {}
  <2>1. \E x \in OfType(f, t) : \A y \in OfType(f, t) : x <= y
    BY <1>1, <1>3, LeastNatural
  <2>2. Min(OfType(f, t)) \in OfType(f, t)
    BY <2>1 DEF Min
  <2> QED BY <1>3, <2>2 DEF indexbytype, First
<1> QED BY <1>2, <1>3

\* A relocation shows a version only as relocsver does: the one that symversion
\* finds for the number of its symbol.
LEMMA RelocVersion ==
  ASSUME NEW f, NEW i \in Relocations(f), NEW j \in DOMAIN RelocRows(f, shdrAt(f, i)),
         Shown(RelocRows(f, shdrAt(f, i))[j].symbol.version)
  PROVE  RelocRows(f, shdrAt(f, i))[j].symbol.version
           = symversion(f, R_SYM(RelocRows(f, shdrAt(f, i))[j].r.info))
<1> DEFINE s == shdrAt(f, i)
           r == Reloc(f, s, j)
<1>1. s.type # SHT_RELR
  <2>1. CASE s.type = SHT_RELR
    <3>1. RelocRows(f, s) = << >>
      BY <2>1 DEF RelocRows
    <3> QED BY <3>1
  <2> QED BY <2>1
<1>2. RelocRows(f, s)[j] = [r |-> r, symbol |-> Named(f, s, r), tail |-> Tail0(f, s, r)]
  BY <1>1 DEF RelocRows
<1>3. Shown(Named(f, s, r).version)
  BY <1>2
<1> HIDE DEF s, r
<1>4. ~Shown(Null)
  BY DEF Shown
<1>5. NoSymbol.version = Null /\ relocsdef(f, s, r).version = Null
  BY DEF NoSymbol, relocsdef
<1>6. Named(f, s, r) = relocsver(f, s, r)
  BY <1>3, <1>4, <1>5 DEF Named
<1>7. relocsver(f, s, r).version = symversion(f, R_SYM(r.info))
  BY <1>3, <1>4, <1>5, <1>6 DEF relocsver
<1>8. RelocRows(f, s)[j].r = r /\ RelocRows(f, s)[j].symbol = Named(f, s, r)
  BY <1>2
<1> QED BY <1>6, <1>7, <1>8 DEF s

\* The version table has for the symbol what the relocation shows.
LEMMA TableVersion ==
  ASSUME NEW f \in Files, ~Shown(namebyoffset(f, vnames(f, 0), 0)), NEW k, Shown(symversion(f, k)),
         k \in 0 .. Count(shdrbytype(f, SHT_GNU_versym)) - 1, versymAt(f, k) \in Nat
  PROVE  LET d == indexbytype(f, SHT_GNU_versym)
             inTable == dump_version(f).rows[d][k]
         IN /\ inTable = versionsym1(f, versymAt(f, k))
            /\ VERSYM(versymAt(f, k)) \in 1 .. VERSIONS - 1
            /\ symversion(f, k) = vername(f, VERSYM(versymAt(f, k)))
            /\ vnames(f, VERSYM(versymAt(f, k))) # 0
<1> DEFINE d == indexbytype(f, SHT_GNU_versym)
           s == shdrbytype(f, SHT_GNU_versym)
           x == versymAt(f, k)
           e == At(Entries(f, s), k)
<1>1. ~Shown(Null)
  BY DEF Shown
<1>2. s # Null /\ e # Null /\ VERSYM(ecconvert(f, e)) \in 1 .. VERSIONS - 1
      /\ symversion(f, k) = vername(f, VERSYM(ecconvert(f, e)))
  <2> DEFINE v == IF s = Null \/ e = Null THEN 0 ELSE VERSYM(ecconvert(f, e))
  <2>1. symversion(f, k) = IF v \in 1 .. VERSIONS - 1 THEN vername(f, v) ELSE Null
    BY DEF symversion
  <2>2. v \in 1 .. VERSIONS - 1 /\ symversion(f, k) = vername(f, v)
    BY <1>1, <2>1
  <2>3. s # Null /\ e # Null
    BY <2>2 DEF VERSIONS
  <2> QED BY <2>2, <2>3
<1>3. x # Null
  BY NullAssumption
<1>4. x = ecconvert(f, e)
  BY <1>3 DEF versymAt, Entry
<1>5. d \in OfType(f, SHT_GNU_versym) /\ s = shdrAt(f, d) /\ s.type = SHT_GNU_versym
  BY <1>2, IndexIsFirst DEF shdrbytype, OfType
<1>6. dump_version(f).rows[d] = versionsym(f, s)
  BY <1>5 DEF dump_version, Warned
<1>7. versionsym(f, s)[k] = versionsym1(f, x)
  BY <1>2, <1>4 DEF versionsym
<1>8. vnames(f, VERSYM(x)) # 0
  BY <1>2, <1>4 DEF vername
<1> QED BY <1>2, <1>4, <1>6, <1>7, <1>8

LEMMA VersionNumbers == \A x \in 1 .. VERSIONS - 1 : x \in Int
BY DEF VERSIONS

\* The list of symbols has the same, if the symbol has a name and is not hidden.
LEMMA ListedVersion ==
  ASSUME NEW f \in Files, NEW k \in 0 .. Count(shdrbytype(f, SHT_DYNSYM)) - 1,
         symAt(f, indexbytype(f, SHT_DYNSYM), k) # Null,
         versymAt(f, k) \in 1 .. VERSIONS - 1, VERSYM(versymAt(f, k)) = versymAt(f, k),
         Shown(vername(f, versymAt(f, k))),
         dump_symbols(f, FALSE).rows[indexbytype(f, SHT_DYNSYM)][k].name # ""
  PROVE  dump_symbols(f, FALSE).rows[indexbytype(f, SHT_DYNSYM)][k].version.name = vername(f, versymAt(f, k))
<1> DEFINE d == indexbytype(f, SHT_DYNSYM)
           s == shdrAt(f, d)
           x == versymAt(f, k)
           e == symAt(f, d, k)
           name == namebyoffset(f, s.link, e.name)
           row == SymRow(f, FALSE, d, k)
<1>1. s # Null
  BY DEF symAt
<1>2. d \in OfType(f, SHT_DYNSYM) /\ s = shdrbytype(f, SHT_DYNSYM) /\ s.type = SHT_DYNSYM
  BY <1>1, IndexIsFirst DEF shdrbytype, OfType
<1>3. dump_symbols(f, FALSE).rows[d][k] = row
  <2>1. dump_symbols(f, FALSE).rows[d]
          = [j \in {m \in 0 .. Count(s) - 1 : symAt(f, d, m) # Null} |-> SymRow(f, FALSE, d, j)]
    BY <1>2 DEF dump_symbols, Warned
  <2> QED BY <1>2, <2>1
<1>4. row.name = (IF Shown(name) THEN name ELSE "")
      /\ row.version = IF Versioned(f, FALSE, d, k) THEN VersionOf(f, k, e) ELSE NoVersion
  BY DEF SymRow
<1>5. Shown(name)
  BY <1>3, <1>4
<1>6. row.version = VersionOf(f, k, e)
  BY <1>2, <1>4, <1>5 DEF Versioned
<1>7. VersionOf(f, k, e) = symbols2(f, x, e)
  <2>1. x \in Int
    BY VersionNumbers
  <2>2. x # Null
    BY <2>1, NullAssumption
  <2> QED BY <2>2 DEF VersionOf
<1>8. symbols2(f, x, e).name = vername(f, x)
  BY DEF symbols2
<1> QED BY <1>3, <1>6, <1>7, <1>8

LEMMA VersionsFollow ==
  ASSUME IInv, \A f \in Files : SoundVersions(f)
  PROVE  VersionsAgree
<1> SUFFICES ASSUME pc = "done", {"relocs", "symbols", "version"} \subseteq options.wants, ~options.dynamic,
                    NEW i \in DOMAIN report.relocs.rows, NEW j \in DOMAIN report.relocs.rows[i],
                    Shown(report.relocs.rows[i][j].symbol.version)
             PROVE  LET v == indexbytype(file, SHT_GNU_versym)
                        d == indexbytype(file, SHT_DYNSYM)
                        row == report.relocs.rows[i][j]
                        k == R_SYM(row.r.info)
                        inTable == report.version.rows[v][k]
                    IN /\ inTable[1] \in {"version", "hidden"} => inTable[2] = row.symbol.version
                       /\ inTable[1] = "version" /\ report.symbols.rows[d][k].name # "" =>
                            report.symbols.rows[d][k].version.name = row.symbol.version
  BY DEF VersionsAgree
<1>1. {"relocs", "symbols", "version"} \subseteq DOMAIN report
  BY IInvIsTyped DEF TypeOK
<1>2. PICK f : /\ f \in Files /\ SameHeaders(f, file) /\ report.relocs = dump_relocs(f)
               /\ report.symbols = dump_symbols(f, options.dynamic) /\ report.version = dump_version(f)
  BY <1>1 DEF IInv, OpenedShown, Opened
<1> DEFINE v == indexbytype(f, SHT_GNU_versym)
           d == indexbytype(f, SHT_DYNSYM)
           row == RelocRows(f, shdrAt(f, i))[j]
           k == R_SYM(row.r.info)
           x == versymAt(f, k)
           table == dump_version(f).rows[v][k]
           list == dump_symbols(f, FALSE).rows[d][k]
<1>3. indexbytype(file, SHT_GNU_versym) = v /\ indexbytype(file, SHT_DYNSYM) = d
  BY <1>2, SameSegments, ZenonT(60) DEF indexbytype, OfType
<1>4. report.relocs.rows = [n \in Relocations(f) |-> RelocRows(f, shdrAt(f, n))]
  BY <1>2 DEF dump_relocs, Warned
<1>5. i \in Relocations(f) /\ j \in DOMAIN RelocRows(f, shdrAt(f, i)) /\ report.relocs.rows[i][j] = row
  BY <1>4
<1>6. report.symbols.rows[d][k] = list /\ report.version.rows[v][k] = table
  <2>1. dump_symbols(f, options.dynamic) = dump_symbols(f, FALSE)
    BY DEF dump_symbols, SymRow, Versioned
  <2> QED BY <1>2, <2>1
<1>7. Shown(row.symbol.version)
  BY <1>5
<1>8. row.symbol.version = symversion(f, k)
  BY <1>5, <1>7, RelocVersion
<1>9. /\ ~Shown(namebyoffset(f, vnames(f, 0), 0))
      /\ k \in 0 .. Count(shdrbytype(f, SHT_GNU_versym)) - 1 /\ x \in Nat
      /\ k \in 0 .. Count(shdrbytype(f, SHT_DYNSYM)) - 1 /\ symAt(f, d, k) # Null
  BY <1>2, <1>5, <1>7 DEF SoundVersions
<1> HIDE DEF v, d, row, k, table, list
<1>10. /\ table = versionsym1(f, x) /\ VERSYM(x) \in 1 .. VERSIONS - 1
       /\ symversion(f, k) = vername(f, VERSYM(x)) /\ vnames(f, VERSYM(x)) # 0
  BY <1>2, <1>7, <1>8, <1>9, TableVersion DEF table, v
<1> HIDE DEF x
<1>11. VERSYM(x) < VERSIONS
  BY <1>10 DEF VERSIONS
<1>12. table[1] \in {"version", "hidden"} => table[2] = vername(f, VERSYM(x))
  BY <1>10, <1>11 DEF versionsym1
<1>13. table[1] = "version" => x \in 1 .. VERSIONS - 1 /\ VERSYM(x) = x
  <2>1. table[1] = "version" => ~(x >= VERSYM_HIDDEN)
    BY <1>10 DEF versionsym1
  <2>2. x < VERSYM_HIDDEN => VERSYM(x) = x
    BY <1>9 DEF VERSYM, VERSYM_HIDDEN
  <2> QED BY <1>9, <1>10, <2>1, <2>2 DEF VERSYM_HIDDEN
<1>14. table[1] = "version" /\ list.name # "" => list.version.name = vername(f, VERSYM(x))
  <2> SUFFICES ASSUME table[1] = "version", list.name # "" PROVE list.version.name = vername(f, VERSYM(x))
    OBVIOUS
  <2>1. x \in 1 .. VERSIONS - 1 /\ VERSYM(x) = x
    BY <1>13
  <2>2. Shown(vername(f, x))
    BY <1>7, <1>8, <1>10, <2>1
  <2> QED BY <1>2, <1>9, <2>1, <2>2, ListedVersion DEF x, list, d
<1> QED BY <1>3, <1>5, <1>6, <1>8, <1>10, <1>12, <1>14 DEF row, k

\* dump_relocs, dump_symbols and dump_version show one version of a symbol
\* (symversion, symbols2, versionsym1), whatever the numbers in the tables are and
\* whatever the actions change afterwards.
THEOREM AlwaysVersionsAgree ==
  ASSUME \A f \in Files : SoundVersions(f)
  PROVE  Spec => []VersionsAgree
<1>1. IInv => VersionsAgree
  BY VersionsFollow
<1> QED BY <1>1, AlwaysIInv, PTL

-----------------------------------------------------------------------------
(***************************************************************************)
(* The histograms.                                                         *)
(***************************************************************************)
\* How many chains have a length, and how many are shorter.
OfLength(size, n, i) == {k \in 0 .. n - 1 : size[k] = i}
Shorter(size, n, i)  == {k \in 0 .. n - 1 : size[k] < i}

LEMMA LengthsAreFinite ==
  ASSUME NEW n \in Nat, NEW size, NEW i
  PROVE  /\ IsFiniteSet(OfLength(size, n, i)) /\ Cardinality(OfLength(size, n, i)) \in Nat
         /\ IsFiniteSet(Shorter(size, n, i)) /\ Cardinality(Shorter(size, n, i)) \in Nat
<1>1. n - 1 \in Int /\ 0 \in Int
  OBVIOUS
<1>2. IsFiniteSet(0 .. n - 1)
  BY <1>1, FS_Interval
<1>3. OfLength(size, n, i) \in SUBSET (0 .. n - 1) /\ Shorter(size, n, i) \in SUBSET (0 .. n - 1)
  BY DEF OfLength, Shorter
<1>4. IsFiniteSet(OfLength(size, n, i)) /\ IsFiniteSet(Shorter(size, n, i))
  BY <1>2, <1>3, FS_Subset
<1> QED BY <1>4, FS_CardinalityType

\* One of the chains is the longest.
LEMMA LongestExists ==
  ASSUME NEW n \in Nat, n > 0, NEW size \in [0 .. n - 1 -> Nat]
  PROVE  \E k \in 0 .. n - 1 : \A j \in 0 .. n - 1 : size[j] <= size[k]
<1> DEFINE T == {m \in 0 .. n - 1 : \E k \in 0 .. m : \A j \in 0 .. m : size[j] <= size[k]}
<1>1. 0 \in T
  OBVIOUS
<1>2. ASSUME NEW m \in 0 .. n - 1 - 1, m \in T PROVE m + 1 \in T
  <2>1. PICK k \in 0 .. m : \A j \in 0 .. m : size[j] <= size[k]
    BY <1>2
  <2>2. \A j \in 0 .. m + 1 : j \in 0 .. m \/ j = m + 1
    OBVIOUS
  <2>3. size[k] \in Nat /\ size[m + 1] \in Nat /\ \A j \in 0 .. m : size[j] \in Nat
    OBVIOUS
  <2>4. CASE size[m + 1] <= size[k]
    <3>1. \A j \in 0 .. m + 1 : size[j] <= size[k]
      BY <2>1, <2>2, <2>4
    <3> QED BY <3>1, SMTT(30)
  <2>5. CASE ~(size[m + 1] <= size[k])
    <3>1. ASSUME NEW j \in 0 .. m + 1 PROVE size[j] <= size[m + 1]
      <4>1. CASE j = m + 1
        BY <2>3, <4>1
      <4>2. CASE j \in 0 .. m
        <5>1. size[j] <= size[k] /\ size[j] \in Nat
          BY <2>1, <2>3, <4>2
        <5> QED BY <2>3, <2>5, <5>1
      <4> QED BY <2>2, <4>1, <4>2
    <3>2. m + 1 \in 0 .. m + 1 /\ m + 1 \in 0 .. n - 1
      OBVIOUS
    <3> QED BY <3>1, <3>2
  <2> QED BY <2>4, <2>5
<1> HIDE DEF T
<1>3. 0 .. n - 1 \subseteq T
  <2>1. 0 \in Int /\ n - 1 \in Int
    OBVIOUS
  <2> QED BY <1>1, <1>2, <2>1, Upwards, ZenonT(60)
<1>4. n - 1 \in T
  BY <1>3
<1> QED BY <1>4 DEF T

\* What gnuhash0 counts: the rows are those of the lengths up to the longest, and
\* the symbols covered are summed up.
LEMMA RowsAre ==
  ASSUME NEW n \in Nat, n > 0, NEW size \in [0 .. n - 1 -> Nat]
  PROVE  \E top \in Nat :
           /\ \A k \in 0 .. n - 1 : size[k] <= top
           /\ DOMAIN gnuhash0(size) = 0 .. top
           /\ \A i \in 0 .. top : gnuhash0(size)[i].number = Cardinality(OfLength(size, n, i))
           /\ gnuhash0(size)[0].covered = 0
           /\ \A i \in 1 .. top : gnuhash0(size)[i].covered
                                    = gnuhash0(size)[i - 1].covered + i * Cardinality(OfLength(size, n, i))
           /\ \A i \in 0 .. top : gnuhash0(size)[i].covered \in Int
<1> DEFINE K == 0 .. n - 1
           S == {size[k] : k \in K}
           top == Max(S)
           Many(i) == Cardinality({k \in K : size[k] = i})
           w == [i \in 0 + 1 .. top |-> i * Many(i)]
           c == CHOOSE f : f = [i \in 0 .. top |-> IF i = 0 THEN 0 ELSE f[i - 1] + i * Many(i)]
<1>1. DOMAIN size = K /\ K # {}
  OBVIOUS
<1>2. top \in Nat /\ \A k \in K : size[k] <= top
  <2>1. PICK k \in K : \A j \in K : size[j] <= size[k]
    BY LongestExists
  <2>2. size[k] \in S /\ \A x \in S : size[k] >= x
    BY <2>1
  <2>3. \E x \in S : \A y \in S : x >= y
    BY <2>2
  <2> HIDE DEF S
  <2>4. top \in S /\ \A y \in S : top >= y
    BY <2>3 DEF Max
  <2> HIDE DEF top
  <2>5. S \subseteq Nat
    BY DEF S
  <2>6. \A j \in K : size[j] \in S
    BY DEF S
  <2>7. \A j \in K : size[j] \in Nat /\ top >= size[j]
    BY <2>4, <2>6
  <2> QED BY <2>4, <2>5, <2>7
<1>3. gnuhash0(size) = [i \in 0 .. top |-> [number |-> Many(i), covered |-> c[i]]]
  BY <1>1 DEF gnuhash0
<1>4. \A i : Many(i) = Cardinality(OfLength(size, n, i))
  BY DEF OfLength
<1> HIDE DEF K, S, top
<1>5. \A i \in 0 + 1 .. top : i * Many(i) \in Int
  <2>1. \A i : Many(i) \in Nat
    BY <1>4, LengthsAreFinite
  <2> HIDE DEF Many
  <2> QED BY <2>1
<1> HIDE DEF Many
<1>6. w \in [0 + 1 .. top -> Int] /\ \A i \in 0 + 1 .. top : w[i] = i * Many(i)
  BY <1>5
<1> HIDE DEF w
<1>z. 0 \in Int /\ top \in Int /\ 0 <= top
  BY <1>2
<1>7. PICK f : IsSum(f, 0, top, w)
  BY <1>2, <1>6, <1>z, SumExists
<1>8. \A g : IsSum(g, 0, top, w) <=> g = [i \in 0 .. top |-> IF i = 0 THEN 0 ELSE g[i - 1] + i * Many(i)]
  <2>1. \A i \in 0 .. top : i # 0 => i \in 0 + 1 .. top
    OBVIOUS
  <2>2. ASSUME NEW g
        PROVE  [i \in 0 .. top |-> IF i = 0 THEN 0 ELSE g[i - 1] + w[i]]
                 = [i \in 0 .. top |-> IF i = 0 THEN 0 ELSE g[i - 1] + i * Many(i)]
    BY <1>6, <2>1
  <2> QED BY <2>2 DEF IsSum
<1>9. f = [i \in 0 .. top |-> IF i = 0 THEN 0 ELSE f[i - 1] + i * Many(i)]
  BY <1>7, <1>8
<1>10. c = [i \in 0 .. top |-> IF i = 0 THEN 0 ELSE c[i - 1] + i * Many(i)]
  BY <1>9
<1> HIDE DEF c
<1>11. IsSum(c, 0, top, w)
  BY <1>8, <1>10
<1>12. Sums(c, 0, top, w)
  BY <1>2, <1>6, <1>11, <1>z, SumIs
<1>13. c[0] = 0 /\ (\A i \in 0 + 1 .. top : c[i] = c[i - 1] + w[i]) /\ \A i \in 0 .. top : c[i] \in Int
  BY <1>12 DEF Sums
<1>14. DOMAIN gnuhash0(size) = 0 .. top
       /\ \A i \in 0 .. top : gnuhash0(size)[i].number = Many(i) /\ gnuhash0(size)[i].covered = c[i]
  BY <1>3
<1>15. 0 \in 0 .. top /\ \A i \in 1 .. top : i \in 0 + 1 .. top /\ i - 1 \in 0 .. top /\ i \in 0 .. top
  BY <1>2
<1>16. \A i \in 1 .. top : gnuhash0(size)[i].covered = gnuhash0(size)[i - 1].covered + i * Many(i)
  BY <1>6, <1>13, <1>14, <1>15
<1> QED BY <1>2, <1>4, <1>13, <1>14, <1>15, <1>16 DEF K


\* The chains that are shorter than a length are those of the lengths below.
LEMMA ShorterGrows ==
  ASSUME NEW n \in Nat, NEW size \in [0 .. n - 1 -> Nat], NEW m \in Nat
  PROVE  /\ Cardinality(Shorter(size, n, 0)) = 0
         /\ Cardinality(Shorter(size, n, m + 1)) = Cardinality(Shorter(size, n, m)) + Cardinality(OfLength(size, n, m))
<1>1. Shorter(size, n, 0) = {}
  BY DEF Shorter
<1>2. Shorter(size, n, m + 1) = Shorter(size, n, m) \union OfLength(size, n, m)
  <2>1. ASSUME NEW k \in 0 .. n - 1 PROVE size[k] < m + 1 <=> size[k] < m \/ size[k] = m
    <3>1. size[k] \in Nat
      OBVIOUS
    <3> QED BY <3>1
  <2> QED BY <2>1 DEF Shorter, OfLength
<1>3. Shorter(size, n, m) \intersect OfLength(size, n, m) = {}
  BY DEF Shorter, OfLength
<1>4. IsFiniteSet(OfLength(size, n, m)) /\ IsFiniteSet(Shorter(size, n, m))
  BY LengthsAreFinite
<1>5. Cardinality(OfLength(size, n, m)) \in Nat /\ Cardinality(Shorter(size, n, m)) \in Nat
  BY LengthsAreFinite
<1>6. Cardinality({}) = 0
  BY FS_EmptySet
<1>7. Cardinality(Shorter(size, n, m + 1))
        = Cardinality(Shorter(size, n, m)) + Cardinality(OfLength(size, n, m)) - Cardinality({})
  BY <1>2, <1>3, <1>4, FS_Union
<1> DEFINE a == Cardinality(Shorter(size, n, m))
           b == Cardinality(OfLength(size, n, m))
<1> HIDE DEF a, b
<1>8. a + b - Cardinality({}) = a + b
  <2>1. a \in Nat /\ b \in Nat
    BY <1>5 DEF a, b
  <2> QED BY <1>6, <2>1
<1> QED BY <1>1, <1>6, <1>7, <1>8 DEF a, b

\* Every chain has one of the lengths: the rows count each once.
LEMMA NumbersAdd ==
  ASSUME NEW n \in Nat, n > 0, NEW size \in [0 .. n - 1 -> Nat]
  PROVE  Chains(gnuhash0(size)) = n
<1> DEFINE rows == gnuhash0(size)
<1>1. PICK top \in Nat : /\ \A k \in 0 .. n - 1 : size[k] <= top
                         /\ DOMAIN rows = 0 .. top
                         /\ \A i \in 0 .. top : rows[i].number = Cardinality(OfLength(size, n, i))
  BY RowsAre
<1> DEFINE N == top + 1
           b == CHOOSE f : f = [m \in 0 .. N |-> IF m = 0 THEN 0 ELSE f[m - 1] + rows[m - 1].number]
           g == [m \in 0 .. N |-> Cardinality(Shorter(size, n, m))]
<1>2. Cardinality(DOMAIN rows) = N
  <2>1. 0 \in Int /\ top \in Int /\ ~(0 > top) /\ top - 0 + 1 = N
    OBVIOUS
  <2> QED BY <1>1, <2>1, FS_Interval
<1>3. Chains(rows) = b[N]
  BY <1>2 DEF Chains
<1> HIDE DEF rows
<1>5. ASSUME NEW m \in 1 .. N PROVE g[m] = g[m - 1] + rows[m - 1].number
  <2>1. m - 1 \in Nat /\ (m - 1) + 1 = m /\ m - 1 \in 0 .. top /\ m - 1 \in 0 .. N /\ m \in 0 .. N
    OBVIOUS
  <2>2. Cardinality(Shorter(size, n, (m - 1) + 1))
          = Cardinality(Shorter(size, n, m - 1)) + Cardinality(OfLength(size, n, m - 1))
    BY <2>1, ShorterGrows
  <2>3. g[m] = Cardinality(Shorter(size, n, m)) /\ g[m - 1] = Cardinality(Shorter(size, n, m - 1))
    BY <2>1
  <2> QED BY <1>1, <2>1, <2>2, <2>3
<1>6. g[0] = 0 /\ 0 \in 0 .. N
  <2>1. 0 \in Nat /\ 0 \in 0 .. N
    OBVIOUS
  <2>2. Cardinality(Shorter(size, n, 0)) = 0
    BY <2>1, ShorterGrows
  <2> QED BY <2>1, <2>2
<1>7. \A m \in 0 .. N : m # 0 => m \in 1 .. N
  OBVIOUS
<1>8. g = [m \in 0 .. N |-> IF m = 0 THEN 0 ELSE g[m - 1] + rows[m - 1].number]
  <2>1. g = [m \in 0 .. N |-> g[m]]
    OBVIOUS
  <2> HIDE DEF g
  <2>2. \A m \in 0 .. N : g[m] = IF m = 0 THEN 0 ELSE g[m - 1] + rows[m - 1].number
    BY <1>5, <1>6, <1>7
  <2> QED BY <2>1, <2>2
<1>9. Shorter(size, n, N) = 0 .. n - 1
  <2>1. \A k \in 0 .. n - 1 : size[k] \in Nat /\ size[k] <= top => size[k] < N
    OBVIOUS
  <2> QED BY <1>1, <2>1 DEF Shorter
<1>10. Cardinality(0 .. n - 1) = n
  <2>1. 0 \in Int /\ n - 1 \in Int /\ ~(0 > n - 1) /\ (n - 1) - 0 + 1 = n
    OBVIOUS
  <2> QED BY <2>1, FS_Interval
<1>11. g[N] = n /\ N \in 0 .. N
  BY <1>9, <1>10
<1> HIDE DEF g
<1>12. b = [m \in 0 .. N |-> IF m = 0 THEN 0 ELSE b[m - 1] + rows[m - 1].number]
  BY <1>8
<1> HIDE DEF b
<1>13. StayAlike(b, g, 0, N)
  <2>1. \A m \in 0 + 1 .. N : m \in 1 .. N /\ m \in 0 .. N /\ m # 0
    OBVIOUS
  <2>2. b[0] = 0
    BY <1>6, <1>12
  <2>3. \A m \in 0 + 1 .. N : b[m] = b[m - 1] + rows[m - 1].number
    BY <1>12, <2>1
  <2>4. \A m \in 0 + 1 .. N : g[m] = g[m - 1] + rows[m - 1].number
    BY <1>5, <2>1
  <2> QED BY <1>6, <2>2, <2>3, <2>4 DEF StayAlike
<1>14. AgreeOn(b, g, 0, N)
  <2>1. 0 \in Int /\ N \in Int
    OBVIOUS
  <2> QED BY <1>13, <2>1, FollowAlike
<1> QED BY <1>3, <1>11, <1>14 DEF AgreeOn, rows


\* Each of h symbols hangs in one chain, and a chain is as long as its symbols are
\* many.
Hangs(chain, h, k) == {x \in 1 .. h : chain[x] = k}
IsChaining(chain, h, size, n) ==
  /\ chain \in [1 .. h -> 0 .. n - 1]
  /\ \A k \in 0 .. n - 1 : Cardinality(Hangs(chain, h, k)) = size[k]

\* The symbols in chains of a length, in chains below m, and in chains up to a length.
InBelow(chain, h, size, m, i) == {x \in 1 .. h : chain[x] < m /\ size[chain[x]] = i}
InUpTo(chain, h, size, i)     == {x \in 1 .. h : size[chain[x]] <= i}

LEMMA SymbolsAreFinite ==
  ASSUME NEW h \in Nat, NEW S \in SUBSET (1 .. h)
  PROVE  IsFiniteSet(S) /\ Cardinality(S) \in Nat
<1>1. 1 \in Int /\ h \in Int
  OBVIOUS
<1>2. IsFiniteSet(1 .. h)
  BY <1>1, FS_Interval
<1> QED BY <1>2, FS_Subset, FS_CardinalityType

\* Two sets of symbols without a common one.
LEMMA SymbolsAdd ==
  ASSUME NEW h \in Nat, NEW S \in SUBSET (1 .. h), NEW T \in SUBSET (1 .. h), S \intersect T = {}
  PROVE  Cardinality(S \union T) = Cardinality(S) + Cardinality(T)
<1>1. IsFiniteSet(S) /\ IsFiniteSet(T) /\ Cardinality(S) \in Nat /\ Cardinality(T) \in Nat
  BY SymbolsAreFinite
<1>2. Cardinality({}) = 0
  BY FS_EmptySet
<1>3. Cardinality(S \union T) = Cardinality(S) + Cardinality(T) - Cardinality({})
  BY <1>1, FS_Union
<1> DEFINE a == Cardinality(S)
           b == Cardinality(T)
<1> HIDE DEF a, b
<1>4. a + b - Cardinality({}) = a + b
  <2>1. a \in Nat /\ b \in Nat
    BY <1>1 DEF a, b
  <2> QED BY <1>2, <2>1
<1> QED BY <1>3, <1>4 DEF a, b

\* One chain more.
LEMMA OneMore == ASSUME NEW i \in Nat, NEW c \in Nat PROVE i * (c + 1) = i * c + i
OBVIOUS

\* The chains of length i hold i symbols each.
LEMMA SymbolsOfLength ==
  ASSUME NEW n \in Nat, NEW size \in [0 .. n - 1 -> Nat], NEW h \in Nat, NEW chain,
         IsChaining(chain, h, size, n), NEW i \in Nat
  PROVE  Cardinality(InBelow(chain, h, size, n, i)) = i * Cardinality(OfLength(size, n, i))
<1> DEFINE A(m) == InBelow(chain, h, size, m, i)
           B(m) == OfLength(size, m, i)
           T == {m \in 0 .. n : Cardinality(A(m)) = i * Cardinality(B(m))}
<1>1. \A x \in 1 .. h : chain[x] \in 0 .. n - 1 /\ size[chain[x]] \in Nat
  BY DEF IsChaining
<1>2. 0 \in T
  <2>1. A(0) = {}
    BY <1>1 DEF InBelow
  <2>2. B(0) = {}
    BY DEF OfLength
  <2>3. Cardinality({}) = 0 /\ i * 0 = 0 /\ 0 \in 0 .. n
    BY FS_EmptySet
  <2> QED BY <2>1, <2>2, <2>3
<1>3. ASSUME NEW m \in 0 .. n - 1, m \in T PROVE m + 1 \in T
  <2>1. m \in Nat /\ m + 1 \in 0 .. n /\ Cardinality(A(m)) = i * Cardinality(B(m)) /\ size[m] \in Nat
    BY <1>3
  <2>2. \A y \in Int : y < m + 1 <=> y < m \/ y = m
    BY <2>1
  <2>3. \A x \in 1 .. h : chain[x] < m + 1 <=> chain[x] < m \/ chain[x] = m
    BY <1>1, <2>2
  <2>4. CASE size[m] = i
    <3>1. A(m + 1) = A(m) \union Hangs(chain, h, m)
      BY <2>3, <2>4 DEF InBelow, Hangs
    <3>2. A(m) \intersect Hangs(chain, h, m) = {}
      BY <1>1, <2>1 DEF InBelow, Hangs
    <3>3. A(m) \in SUBSET (1 .. h) /\ Hangs(chain, h, m) \in SUBSET (1 .. h)
      BY DEF InBelow, Hangs
    <3>4. Cardinality(A(m + 1)) = Cardinality(A(m)) + i
      <4> DEFINE P == A(m)
                 Q == Hangs(chain, h, m)
      <4>1. Cardinality(Q) = i
        BY <2>4 DEF IsChaining
      <4>2. P \intersect Q = {} /\ P \in SUBSET (1 .. h) /\ Q \in SUBSET (1 .. h)
        BY <3>2, <3>3
      <4> HIDE DEF P, Q
      <4>3. Cardinality(P \union Q) = Cardinality(P) + Cardinality(Q)
        BY <4>2, SymbolsAdd, ZenonT(60)
      <4> QED BY <3>1, <4>1, <4>3 DEF P, Q
    <3>5. B(m + 1) = B(m) \union {m} /\ m \notin B(m)
      <4>1. \A k : k \in 0 .. (m + 1) - 1 <=> k \in 0 .. m - 1 \/ k = m
        BY <2>1
      <4>2. m \notin 0 .. m - 1
        BY <2>1
      <4> QED BY <2>4, <4>1, <4>2 DEF OfLength
    <3>6. IsFiniteSet(B(m)) /\ Cardinality(B(m)) \in Nat
      BY <2>1, LengthsAreFinite
    <3>7. Cardinality(B(m + 1)) = Cardinality(B(m)) + 1
      BY <3>5, <3>6, FS_AddElement
    <3>8. i * (Cardinality(B(m)) + 1) = i * Cardinality(B(m)) + i
      BY <3>6, OneMore
    <3> QED BY <2>1, <3>4, <3>7, <3>8
  <2>5. CASE size[m] # i
    <3>1. A(m + 1) = A(m)
      BY <2>3, <2>5 DEF InBelow
    <3>2. B(m + 1) = B(m)
      <4>1. \A k : k \in 0 .. (m + 1) - 1 <=> k \in 0 .. m - 1 \/ k = m
        BY <2>1
      <4> QED BY <2>5, <4>1 DEF OfLength
    <3> QED BY <2>1, <3>1, <3>2
  <2> QED BY <2>4, <2>5
<1> HIDE DEF T
<1>4. 0 .. n \subseteq T
  <2>1. 0 \in Int /\ n \in Int
    OBVIOUS
  <2> QED BY <1>2, <1>3, <2>1, Upwards
<1>5. n \in T
  BY <1>4
<1> QED BY <1>5 DEF T

\* So the last row covers all of them.
LEMMA AllCovered ==
  ASSUME NEW n \in Nat, n > 0, NEW size \in [0 .. n - 1 -> Nat], NEW h \in Nat, NEW chain,
         IsChaining(chain, h, size, n)
  PROVE  gnuhash0(size)[Max(DOMAIN gnuhash0(size))].covered = h
<1> DEFINE rows == gnuhash0(size)
           D(i) == InUpTo(chain, h, size, i)
<1>1. PICK top \in Nat :
        /\ \A k \in 0 .. n - 1 : size[k] <= top
        /\ DOMAIN rows = 0 .. top
        /\ rows[0].covered = 0
        /\ \A i \in 1 .. top : rows[i].covered = rows[i - 1].covered + i * Cardinality(OfLength(size, n, i))
  BY RowsAre
<1>2. Max(0 .. top) = top
  <2>1. \E x \in 0 .. top : \A y \in 0 .. top : x >= y
    OBVIOUS
  <2>2. Max(0 .. top) \in 0 .. top /\ \A y \in 0 .. top : Max(0 .. top) >= y
    BY <2>1 DEF Max
  <2> QED BY <2>2
<1> HIDE DEF rows
<1>3. \A x \in 1 .. h : chain[x] \in 0 .. n - 1 /\ size[chain[x]] \in Nat
  BY DEF IsChaining
<1>4. \A i : D(i) \in SUBSET (1 .. h)
  BY DEF InUpTo
<1> DEFINE T == {i \in 0 .. top : rows[i].covered = Cardinality(D(i))}
<1>5. 0 \in T
  <2>1. ASSUME NEW x \in D(0) PROVE FALSE
    <3>1. x \in 1 .. h /\ size[chain[x]] = 0 /\ chain[x] \in 0 .. n - 1
      BY <1>3 DEF InUpTo
    <3>2. x \in Hangs(chain, h, chain[x]) /\ Hangs(chain, h, chain[x]) \in SUBSET (1 .. h)
      BY <3>1 DEF Hangs
    <3>3. Cardinality(Hangs(chain, h, chain[x])) = 0
      BY <3>1 DEF IsChaining
    <3>4. IsFiniteSet(Hangs(chain, h, chain[x]))
      BY <3>2, SymbolsAreFinite
    <3> QED BY <3>2, <3>3, <3>4, FS_EmptySet
  <2>2. D(0) = {}
    BY <2>1
  <2>3. Cardinality({}) = 0 /\ 0 \in 0 .. top
    BY FS_EmptySet
  <2> QED BY <1>1, <2>2, <2>3
<1>6. ASSUME NEW i \in 0 .. top - 1, i \in T PROVE i + 1 \in T
  <2>1. i \in Nat /\ i + 1 \in Nat /\ i + 1 \in 0 .. top /\ i + 1 \in 1 .. top /\ (i + 1) - 1 = i
        /\ rows[i].covered = Cardinality(D(i))
    BY <1>6
  <2>2. rows[i + 1].covered = rows[i].covered + (i + 1) * Cardinality(OfLength(size, n, i + 1))
    BY <1>1, <2>1
  <2>3. Cardinality(InBelow(chain, h, size, n, i + 1)) = (i + 1) * Cardinality(OfLength(size, n, i + 1))
    BY <2>1, SymbolsOfLength
  <2>4. \A y \in 0 .. n - 1 : y < n
    OBVIOUS
  <2>5. \A z \in Nat : z <= i + 1 <=> z <= i \/ z = i + 1
    BY <2>1
  <2>6. \A z \in Nat : ~(z <= i /\ z = i + 1)
    BY <2>1
  <2>7. D(i + 1) = D(i) \union InBelow(chain, h, size, n, i + 1)
    BY <1>3, <2>4, <2>5 DEF InUpTo, InBelow
  <2>8. D(i) \intersect InBelow(chain, h, size, n, i + 1) = {}
    BY <1>3, <2>6 DEF InUpTo, InBelow
  <2>9. InBelow(chain, h, size, n, i + 1) \in SUBSET (1 .. h)
    BY DEF InBelow
  <2>10. Cardinality(D(i + 1)) = Cardinality(D(i)) + Cardinality(InBelow(chain, h, size, n, i + 1))
    <3> DEFINE P == D(i)
               Q == InBelow(chain, h, size, n, i + 1)
    <3>1. P \intersect Q = {} /\ P \in SUBSET (1 .. h) /\ Q \in SUBSET (1 .. h)
      BY <1>4, <2>8, <2>9
    <3> HIDE DEF P, Q
    <3>2. Cardinality(P \union Q) = Cardinality(P) + Cardinality(Q)
      BY <3>1, SymbolsAdd, ZenonT(60)
    <3> QED BY <2>7, <3>2 DEF P, Q
  <2> QED BY <2>1, <2>2, <2>3, <2>10
<1> HIDE DEF T
<1>7. 0 .. top \subseteq T
  <2>1. 0 \in Int /\ top \in Int
    OBVIOUS
  <2> QED BY <1>5, <1>6, <2>1, Upwards
<1>8. top \in T
  BY <1>7
<1>9. D(top) = 1 .. h
  BY <1>1, <1>3 DEF InUpTo
<1>10. Cardinality(1 .. h) = h
  <2>1. 1 \in Int /\ h \in Int /\ (1 > h => h = 0) /\ h - 1 + 1 = h
    OBVIOUS
  <2> QED BY <2>1, FS_Interval
<1> QED BY <1>1, <1>2, <1>8, <1>9, <1>10 DEF T, rows


\* What the theorem asks of a file: a hash table that is shown is a table, each
\* of whose symbols hangs in exactly one chain.
HashRows(f, s)   == IF s.type = SHT_GNU_HASH THEN gnuhash1(f, s) ELSE hash32(f, s)
HashChains(f, s) == IF s.type = SHT_GNU_HASH THEN gnuchains(f, s) ELSE hashchains(f, s)
SoundHashes(f) ==
  \A i \in OfType(f, SHT_GNU_HASH) \union OfType(f, SHT_HASH) :
    LET s == shdrAt(f, i) IN
    HashRows(f, s) # << >> =>
      /\ Word0(f, s, 0) \in Nat /\ HashedSymbols(f, s) \in Nat
      /\ HashChains(f, s) \in [0 .. Word0(f, s, 0) - 1 -> Nat]
      /\ \E chain : IsChaining(chain, HashedSymbols(f, s), HashChains(f, s), Word0(f, s, 0))

LEMMA RowsOfChains ==
  ASSUME NEW f, NEW s, HashRows(f, s) # << >>
  PROVE  HashRows(f, s) = gnuhash0(HashChains(f, s)) /\ Word0(f, s, 0) > 1
BY DEF HashRows, HashChains, gnuhash1, hash32

LEMMA HistogramFollows ==
  ASSUME IInv, \A f \in Files : SoundHashes(f)
  PROVE  HistogramAddsUp
<1> SUFFICES ASSUME pc = "version", "histogram" \in options.wants, NEW i \in DOMAIN report.histogram,
                    report.histogram[i].rows # << >>
             PROVE  LET rows == report.histogram[i].rows
                        s == shdrAt(file, i)
                    IN Chains(rows) = Word0(file, s, 0) /\ rows[Max(DOMAIN rows)].covered = HashedSymbols(file, s)
  BY DEF HistogramAddsUp
<1>1. PICK f \in Files : Opened(f)
  BY DEF IInv, OpenedShown, Opened
<1>2. f = file /\ report.histogram = dump_histogram(f)
  <2>1. "version" \in BeforeActions /\ "histogram" \in DOMAIN report
    <3>1. PICK k \in 1 .. Last + 1 :
            /\ pc = IF k = Last + 1 THEN "done" ELSE Dumps[k]
            /\ DOMAIN report = {"actions"} \union {d \in options.wants : \E j \in 1 .. k - 1 : d = Dumps[j]}
      BY DEF IInv, InOrder
    <3>2. k = 10
      <4>1. k \in 1 .. Last /\ Dumps[k] = Dumps[10]
        BY <3>1, DumpsAre DEF Last
      <4> QED BY <4>1, DumpsAre DEF Last
    <3>3. "histogram" = Dumps[9] /\ "version" = Dumps[10] /\ 9 \in 1 .. 10 - 1 /\ 10 \in 1 .. 10
      BY DumpsAre
    <3> QED BY <3>1, <3>2, <3>3 DEF BeforeActions
  <2> QED BY <1>1, <2>1 DEF Opened
<1> DEFINE s == shdrAt(f, i)
           n == Word0(f, s, 0)
           h == HashedSymbols(f, s)
           size == HashChains(f, s)
<1>3. i \in OfType(f, SHT_GNU_HASH) \union OfType(f, SHT_HASH) /\ report.histogram[i].rows = HashRows(f, s)
  BY <1>2 DEF dump_histogram, HashRows
<1>4. HashRows(f, s) = gnuhash0(size) /\ n > 1
  BY <1>3, RowsOfChains
<1>5. n \in Nat /\ h \in Nat /\ size \in [0 .. n - 1 -> Nat] /\ \E chain : IsChaining(chain, h, size, n)
  BY <1>1, <1>3 DEF SoundHashes
<1>6. PICK chain : IsChaining(chain, h, size, n)
  BY <1>5
<1> HIDE DEF n, h, size
<1>7. n > 0
  BY <1>4, <1>5
<1>8. Chains(gnuhash0(size)) = n
  BY <1>5, <1>7, NumbersAdd
<1>9. gnuhash0(size)[Max(DOMAIN gnuhash0(size))].covered = h
  BY <1>5, <1>6, <1>7, AllCovered
<1> QED BY <1>2, <1>3, <1>4, <1>8, <1>9 DEF n, h

\* gnuhash0 counts each bucket once and covers each symbol of the table once,
\* for tables of any size with chains of any length, in both formats.
THEOREM AlwaysHistogramAddsUp ==
  ASSUME \A f \in Files : SoundHashes(f)
  PROVE  Spec => []HistogramAddsUp
<1>1. IInv => HistogramAddsUp
  BY HistogramFollows
<1> QED BY <1>1, AlwaysIInv, PTL


-----------------------------------------------------------------------------
(***************************************************************************)
(* The sections that actions show.                                         *)
(***************************************************************************)
\* What the theorem asks of a file: no two sections with contents begin at one
\* place, the names of sections are one of them, and no action changes them.
Apart(f) ==
  \A i, j \in Readable(f) :
    i # j /\ Contents(f, shdrAt(f, i)) # << >> /\ Contents(f, shdrAt(f, j)) # << >> =>
      shdrAt(f, i).offset # shdrAt(f, j).offset
NameTable(f) == ehdr(f).shstrndx
NamesAlone(f, o) ==
  /\ NameTable(f) \in Readable(f) /\ shdrAt(f, NameTable(f)).type # SHT_NOBITS
  /\ \A k \in DOMAIN o.actions : o.actions[k].secname # "" => o.actions[k].secname # secname(f, NameTable(f))
Tidy(f, o) == Apart(f) /\ NamesAlone(f, o)

\* What an action shows of a section by name.
Now(f, name) == LET s == shdrbyname(f, name) IN IF s = Null THEN Null ELSE Contents(f, s)

\* What has been shown is what would be shown now, and the section has been named.
ShownNow ==
  \A k \in DOMAIN report.actions :
    /\ report.actions[k].secname # ""
    /\ \E j \in 1 .. action - 1 : options.actions[j].secname = report.actions[k].secname
    /\ report.actions[k].data = Now(file, report.actions[k].secname)

TidyInv == IInv /\ Tidy(file, options) /\ ShownNow

\* A change stays in the section that is changed.
LEMMA EntriesKept ==
  ASSUME NEW f, IsFile(f), NEW actions, NEW s, NEW t, t.offset # s.offset \/ Contents(f, s) = << >>
  PROVE  Entries(ChangedFile(f, actions, s), t) = Entries(f, t)
<1> DEFINE b == [o \in DOMAIN f.body |-> IF o = s.offset /\ Contents(f, s) # << >>
                                         THEN [j \in DOMAIN f.body[o] |-> dump_actions1(actions, f.body[o][j])]
                                         ELSE f.body[o]]
<1>1. ChangedFile(f, actions, s) = [f EXCEPT !.body = b]
  BY DEF ChangedFile
<1>2. DOMAIN b = DOMAIN f.body /\ (t.offset \in DOMAIN f.body => b[t.offset] = f.body[t.offset])
  OBVIOUS
<1> HIDE DEF b
<1>3. ChangedFile(f, actions, s).body = b
  BY <1>1 DEF IsFile
<1> QED BY <1>2, <1>3 DEF Entries

\* Headers and the names that follow from the same entries are the same.
LEMMA SameNames ==
  ASSUME NEW f, NEW g, SameHeaders(f, g), Entries(g, shdrAt(f, NameTable(f))) = Entries(f, shdrAt(f, NameTable(f)))
  PROVE  /\ ehdr(g) = ehdr(f) /\ Readable(g) = Readable(f)
         /\ \A i : shdrAt(g, i) = shdrAt(f, i) /\ secname(g, i) = secname(f, i)
         /\ \A n : shdrbyname(g, n) = shdrbyname(f, n)
<1>1. ehdr(g) = ehdr(f)
  BY DEF SameHeaders, ehdr, header, Order, ecconvert
<1>2. \A i : shdrAt(g, i) = shdrAt(f, i)
  BY DEF SameHeaders, shdrAt, shdr, Order, ecconvert
<1>3. Readable(g) = Readable(f)
  BY <1>1, <1>2 DEF Readable, Indices
<1>4. \A off : secnamebyoffset(g, off) = secnamebyoffset(f, off)
  BY <1>1, <1>2 DEF secnamebyoffset, namebyoffset, NameTable
<1>5. \A i : secname(g, i) = secname(f, i)
  BY <1>2, <1>4 DEF secname, secnamebyshdr
<1>6. \A n : shdrbyname(g, n) = shdrbyname(f, n)
  <2>1. \A n : indexbyname(g, n) = indexbyname(f, n)
    BY <1>3, <1>5 DEF indexbyname
  <2> QED BY <1>2, <2>1 DEF shdrbyname
<1> QED BY <1>1, <1>2, <1>3, <1>5, <1>6

\* A section that is found has the name.
LEMMA NamedSection ==
  ASSUME NEW f, f.shdr \in Seq({f.shdr[i] : i \in DOMAIN f.shdr}), NEW n, shdrbyname(f, n) # Null
  PROVE  \E i \in Readable(f) : shdrbyname(f, n) = shdrAt(f, i) /\ secname(f, i) = n
<1> DEFINE S == {i \in Readable(f) : secname(f, i) = n}
<1>1. shdrAt(f, -1) = Null
  <2>1. 0 \notin DOMAIN f.shdr
    OBVIOUS
  <2>2. At(f.shdr, -1) = Null
    BY <2>1 DEF At
  <2> QED BY <2>2 DEF shdrAt, shdr, Order
<1>2. indexbyname(f, n) = First(S) /\ S # {}
  BY <1>1 DEF shdrbyname, indexbyname, First
<1>3. S \subseteq Nat
  BY DEF Readable, Indices
<1> HIDE DEF S
<1>4. \E x \in S : \A y \in S : x <= y
  BY <1>2, <1>3, LeastNatural
<1>5. Min(S) \in S
  BY <1>4 DEF Min
<1>6. First(S) \in S
  BY <1>2, <1>5 DEF First
<1> QED BY <1>2, <1>6 DEF shdrbyname, S

\* Another section than the one that is changed keeps its contents.
LEMMA OthersKept ==
  ASSUME NEW f, IsFile(f), Apart(f), NEW actions, NEW i \in Readable(f), NEW j \in Readable(f), i # j
  PROVE  Contents(ChangedFile(f, actions, shdrAt(f, i)), shdrAt(f, j)) = Contents(f, shdrAt(f, j))
<1> DEFINE s == shdrAt(f, i)
           t == shdrAt(f, j)
<1>1. t.offset # s.offset \/ Contents(f, s) = << >> \/ t.type = SHT_NOBITS
  <2> SUFFICES ASSUME t.offset = s.offset, Contents(f, s) # << >>, t.type # SHT_NOBITS PROVE FALSE
    OBVIOUS
  <2>1. Contents(f, s) = Entries(f, s) /\ Contents(f, t) = Entries(f, t) /\ Entries(f, s) = Entries(f, t)
    BY DEF Contents, Entries
  <2> QED BY <2>1 DEF Apart
<1> HIDE DEF s, t
<1>2. CASE t.type = SHT_NOBITS
  BY <1>2 DEF Contents, s, t
<1>3. CASE t.type # SHT_NOBITS
  <2>1. Entries(ChangedFile(f, actions, s), t) = Entries(f, t)
    BY <1>1, <1>3, EntriesKept
  <2> QED BY <1>3, <2>1 DEF Contents, s, t
<1> QED BY <1>2, <1>3

\* A change of a section other than the names keeps the file tidy, and what the
\* other names show.
LEMMA ChangeIsTidy ==
  ASSUME NEW f, IsFile(f), NEW o, Tidy(f, o), NEW actions, NEW i \in Readable(f), i # NameTable(f),
         f.shdr \in Seq({f.shdr[n] : n \in DOMAIN f.shdr})
  PROVE  LET g == ChangedFile(f, actions, shdrAt(f, i)) IN
         /\ Tidy(g, o)
         /\ \A n : shdrbyname(g, n) = shdrbyname(f, n)
         /\ \A n : n # secname(f, i) => Now(g, n) = Now(f, n)
<1> DEFINE g == ChangedFile(f, actions, shdrAt(f, i))
           x == NameTable(f)
<1>1. IsFile(g) /\ SameHeaders(f, g)
  BY ChangedHeaders
<1>2. x \in Readable(f) /\ shdrAt(f, x).type # SHT_NOBITS
  BY DEF Tidy, NamesAlone
<1>3. \A j \in Readable(f) : j # i => Contents(g, shdrAt(f, j)) = Contents(f, shdrAt(f, j))
  BY OthersKept DEF Tidy
<1>4. Entries(g, shdrAt(f, x)) = Entries(f, shdrAt(f, x))
  BY <1>2, <1>3 DEF Contents
<1> HIDE DEF g
<1>5. /\ ehdr(g) = ehdr(f) /\ Readable(g) = Readable(f)
      /\ \A j : shdrAt(g, j) = shdrAt(f, j) /\ secname(g, j) = secname(f, j)
      /\ \A n : shdrbyname(g, n) = shdrbyname(f, n)
  BY <1>1, <1>4, SameNames
<1>6. ASSUME Contents(g, shdrAt(f, i)) # << >> PROVE Contents(f, shdrAt(f, i)) # << >>
  <2> SUFFICES ASSUME Contents(f, shdrAt(f, i)) = << >> PROVE Contents(g, shdrAt(f, i)) = << >>
    BY <1>6
  <2>1. Entries(g, shdrAt(f, i)) = Entries(f, shdrAt(f, i))
    BY EntriesKept DEF g
  <2> QED BY <2>1 DEF Contents
<1>7. \A j \in Readable(f) : Contents(g, shdrAt(f, j)) # << >> => Contents(f, shdrAt(f, j)) # << >>
  BY <1>3, <1>6
<1>8. Apart(g)
  BY <1>5, <1>7 DEF Tidy, Apart
<1>9. NamesAlone(g, o)
  BY <1>5 DEF Tidy, NamesAlone, NameTable
<1>10. ASSUME NEW n, n # secname(f, i) PROVE Now(g, n) = Now(f, n)
  <2>1. CASE shdrbyname(f, n) = Null
    BY <1>5, <2>1 DEF Now
  <2>2. CASE shdrbyname(f, n) # Null
    <3>1. PICK j \in Readable(f) : shdrbyname(f, n) = shdrAt(f, j) /\ secname(f, j) = n
      BY <2>2, NamedSection
    <3>2. Contents(g, shdrAt(f, j)) = Contents(f, shdrAt(f, j))
      BY <1>3, <1>10, <3>1
    <3> QED BY <1>5, <2>2, <3>1, <3>2 DEF Now
  <2> QED BY <2>1, <2>2
<1> QED BY <1>5, <1>8, <1>9, <1>10 DEF Tidy, g


\* The headers of the file are a sequence as those of the file that was opened.
LEMMA HeadersAreSeq == IInv => file.shdr \in Seq({file.shdr[i] : i \in DOMAIN file.shdr})
BY FilesAssumption DEF IInv, OpenedShown, Opened, SameHeaders

\* The next action is one of the options, and behind it is the next one.
LEMMA ActionCounts ==
  ASSUME IInv
  PROVE  action \in Int /\ action >= 1 /\ (action <= Len(options.actions) => action \in DOMAIN options.actions)
<1>1. options.actions \in Seq({options.actions[k] : k \in DOMAIN options.actions})
  BY OptionsAssumption DEF IInv, ActionsCounted
<1>2. Len(options.actions) \in Nat /\ DOMAIN options.actions = 1 .. Len(options.actions)
  BY <1>1
<1>3. action \in 1 .. Len(options.actions) + 1
  BY DEF IInv, ActionsCounted
<1> QED BY <1>2, <1>3

LEMMA CountUp ==
  ASSUME NEW a \in Int, a >= 1
  PROVE  a \in 1 .. (a + 1) - 1 /\ \A j \in 1 .. a - 1 : j \in 1 .. (a + 1) - 1
OBVIOUS

LEMMA AppendHas ==
  ASSUME NEW S, NEW q \in Seq(S), NEW e, NEW k \in DOMAIN Append(q, e)
  PROVE  (k \in DOMAIN q /\ Append(q, e)[k] = q[k]) \/ Append(q, e)[k] = e
<1>1. q \in Seq(S \union {e})
  OBVIOUS
<1>2. k \in 1 .. Len(q) + 1 /\ DOMAIN q = 1 .. Len(q) /\ Len(q) \in Nat
  BY <1>1
<1> QED BY <1>1, <1>2

\* Behind what was shown a section is added as it is shown now.
LEMMA ShownGrows ==
  ASSUME IInv, action' = action + 1, UNCHANGED options,
         NEW e, report'.actions = Append(report.actions, e),
         e.secname # "", options.actions[action].secname = e.secname, e.data = Now(file', e.secname),
         ShownNow,
         \A k \in DOMAIN report.actions : Now(file', report.actions[k].secname) = Now(file, report.actions[k].secname)
  PROVE  ShownNow'
<1>1. PICK S : report.actions \in Seq(S)
  BY DEF IInv, ActionsCounted
<1>2. action \in 1 .. action' - 1 /\ \A j \in 1 .. action - 1 : j \in 1 .. action' - 1
  BY ActionCounts, CountUp
<1>3. ASSUME NEW k \in DOMAIN report'.actions
      PROVE  \/ k \in DOMAIN report.actions /\ report'.actions[k] = report.actions[k]
             \/ report'.actions[k] = e
  <2> DEFINE q == report.actions
  <2>1. report'.actions = Append(q, e) /\ q \in Seq(S)
    BY <1>1
  <2>2. k \in DOMAIN Append(q, e)
    BY <2>1
  <2> HIDE DEF q
  <2>3. (k \in DOMAIN q /\ Append(q, e)[k] = q[k]) \/ Append(q, e)[k] = e
    BY <2>1, <2>2, AppendHas
  <2> QED BY <2>1, <2>3 DEF q
<1>4. ASSUME NEW k \in DOMAIN report'.actions
      PROVE  /\ report'.actions[k].secname # ""
             /\ \E j \in 1 .. action' - 1 : options'.actions[j].secname = report'.actions[k].secname
             /\ report'.actions[k].data = Now(file', report'.actions[k].secname)
  <2>1. CASE k \in DOMAIN report.actions /\ report'.actions[k] = report.actions[k]
    BY <1>2, <2>1 DEF ShownNow
  <2>2. CASE report'.actions[k] = e
    BY <1>2, <2>2
  <2> QED BY <1>3, <2>1, <2>2
<1> QED BY <1>4 DEF ShownNow

LEMMA ShowKeepsTidy ==
  ASSUME TidyInv, ShowSection
  PROVE  Tidy(file, options)' /\ ShownNow'
<1> DEFINE n == options.actions[action].secname
           s == shdrbyname(file, n)
           f == IF isnamedone(options.actions, action) THEN file ELSE ChangedFile(file, options.actions, s)
           e == [secname |-> n, data |-> Contents(f, s)]
<1>1. /\ n # "" /\ s # Null /\ file' = f /\ UNCHANGED options /\ action' = action + 1
      /\ report' = [report EXCEPT !.actions = Append(@, e)]
      /\ action <= Len(options.actions)
  BY DEF ShowSection, Done, AtAction
<1>2. report'.actions = Append(report.actions, e)
  <2>1. "actions" \in DOMAIN report
    BY DEF TidyInv, IInv, InOrder
  <2> QED BY <1>1, <2>1
<1>3. /\ IInv /\ IsFile(file) /\ Tidy(file, options) /\ ShownNow
      /\ file.shdr \in Seq({file.shdr[k] : k \in DOMAIN file.shdr})
  BY HeadersAreSeq DEF TidyInv, IInv, ActionsCounted
<1>4. PICK i \in Readable(file) : s = shdrAt(file, i) /\ secname(file, i) = n
  BY <1>1, <1>3, NamedSection
<1>5. action \in DOMAIN options.actions
  BY <1>1, <1>3, ActionCounts
<1>6. /\ Tidy(f, options) /\ shdrbyname(f, n) = s
      /\ \A k \in DOMAIN report.actions : Now(f, report.actions[k].secname) = Now(file, report.actions[k].secname)
  <2>1. CASE isnamedone(options.actions, action)
    BY <1>3, <2>1
  <2>2. CASE ~isnamedone(options.actions, action)
    <3>1. i # NameTable(file)
      BY <1>1, <1>3, <1>4, <1>5 DEF Tidy, NamesAlone
    <3>2. f = ChangedFile(file, options.actions, shdrAt(file, i))
      BY <1>4, <2>2
    <3>3. ASSUME NEW k \in DOMAIN report.actions PROVE report.actions[k].secname # n
      BY <1>3, <2>2 DEF ShownNow, isnamedone
    <3> HIDE DEF f
    <3>4. /\ Tidy(f, options) /\ shdrbyname(f, n) = shdrbyname(file, n)
          /\ \A m : m # secname(file, i) => Now(f, m) = Now(file, m)
      BY <1>3, <3>1, <3>2, ChangeIsTidy
    <3> QED BY <1>4, <3>3, <3>4
  <2> QED BY <2>1, <2>2
<1> HIDE DEF f
<1>7. e.secname = n /\ e.data = Now(f, n)
  BY <1>1, <1>6 DEF Now
<1> HIDE DEF e, n, s
<1>8. ShownNow'
  BY <1>1, <1>2, <1>3, <1>6, <1>7, ShownGrows DEF n
<1> QED BY <1>1, <1>6, <1>8

LEMMA NoneKeepsTidy ==
  ASSUME TidyInv, NoSuchSection
  PROVE  Tidy(file, options)' /\ ShownNow'
<1> DEFINE n == options.actions[action].secname
           e == [secname |-> n, data |-> Null]
<1>1. /\ n # "" /\ shdrbyname(file, n) = Null /\ file' = file /\ UNCHANGED options /\ action' = action + 1
      /\ report' = [report EXCEPT !.actions = Append(@, e)]
  BY DEF NoSuchSection, Done
<1>2. report'.actions = Append(report.actions, e)
  <2>1. "actions" \in DOMAIN report
    BY DEF TidyInv, IInv, InOrder
  <2> QED BY <1>1, <2>1
<1>3. e.secname = n /\ e.data = Now(file', n)
  BY <1>1 DEF Now
<1> HIDE DEF e, n
<1>4. ShownNow'
  BY <1>1, <1>2, <1>3, ShownGrows DEF TidyInv, n
<1> QED BY <1>1, <1>4 DEF TidyInv

\* The other steps change neither the file nor what the actions have shown.
LEMMA OthersKeepTidy ==
  ASSUME TidyInv, UNCHANGED <<file, options>>, action' = action \/ action' = action + 1,
         report'.actions = report.actions
  PROVE  Tidy(file, options)' /\ ShownNow'
<1>1. action \in Int /\ action >= 1
  BY ActionCounts DEF TidyInv
<1>2. \A j \in 1 .. action - 1 : j \in 1 .. action' - 1
  BY <1>1, CountUp
<1> QED BY <1>2 DEF TidyInv, ShownNow

\* A dump leaves what the actions have shown.
LEMMA DumpLeavesActions ==
  ASSUME IInv, NEW d, NEW rows, Dump(d, rows), d # "actions"
  PROVE  UNCHANGED <<file, options, action>> /\ report'.actions = report.actions
<1>1. "actions" \in DOMAIN report
  BY DEF IInv, InOrder
<1> QED BY <1>1 DEF Dump, With

LEMMA NextKeepsTidy == TidyInv /\ [Next]_vars => TidyInv'
<1> SUFFICES ASSUME TidyInv, [Next]_vars PROVE TidyInv'
  OBVIOUS
<1>1. IInv'
  BY NextKeepsIInv DEF TidyInv
<1>2. CASE ShowSection
  BY <1>1, <1>2, ShowKeepsTidy DEF TidyInv
<1>3. CASE NoSuchSection
  BY <1>1, <1>3, NoneKeepsTidy DEF TidyInv
<1>4. CASE NoSection \/ EndActions \/ UNCHANGED vars
  <2>1. UNCHANGED <<file, options, report>> /\ (action' = action \/ action' = action + 1)
    BY <1>4 DEF NoSection, EndActions, vars
  <2> QED BY <1>1, <2>1, OthersKeepTidy DEF TidyInv
<1>5. CASE \/ FileHeader \/ SectionHeaders \/ SectionGroups \/ ProgramHeaders \/ Dynamic \/ Relocs \/ Unwind
           \/ Symbols \/ Histogram \/ Version \/ Notes \/ ArchSpecific
  <2>1. \E d, rows : Dump(d, rows) /\ d # "actions"
    BY <1>5 DEF FileHeader, SectionHeaders, SectionGroups, ProgramHeaders, Dynamic, Relocs, Unwind,
                Symbols, Histogram, Version, Notes, ArchSpecific
  <2>2. UNCHANGED <<file, options, action>> /\ report'.actions = report.actions
    BY <2>1, DumpLeavesActions DEF TidyInv
  <2> QED BY <1>1, <2>2, OthersKeepTidy DEF TidyInv
<1> QED BY <1>2, <1>3, <1>4, <1>5 DEF Next

\* A section that several actions show is shown with the same bytes each time,
\* for every chain of actions: dump_actions2 changes it once (isnamedone), and
\* a change of another section does not reach it.
THEOREM AlwaysShownAlike ==
  ASSUME \A f \in Files, o \in Options : Tidy(f, o)
  PROVE  Spec => []ShownAlike
<1>1. Init => TidyInv
  BY InitIInv DEF Init, TidyInv, ShownNow
<1>2. TidyInv => ShownAlike
  BY DEF TidyInv, ShownNow, ShownAlike
<1> QED BY <1>1, <1>2, NextKeepsTidy, PTL DEF Spec

=============================================================================
