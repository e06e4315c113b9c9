----------------------------- MODULE ReadPeProofs -----------------------------
(***************************************************************************)
(* The report of readpe-ng, for every set of files and of options: which   *)
(* dumps it holds, and that the walks over tables keep in step with what   *)
(* the tables hold.                                                        *)
(***************************************************************************)
EXTENDS ReadPe, NaturalRecursion, FiniteSetTheorems

-----------------------------------------------------------------------------
(***************************************************************************)
(* The order of the dumps.                                                 *)
(***************************************************************************)
Final == 14

LEMMA DumpsAre ==
  /\ DOMAIN Dumps = 1 .. Final /\ Len(Dumps) = Final
  /\ \A j, k \in 1 .. Final : Dumps[j] = Dumps[k] => j = k
  /\ Dumps[1] = "dosheader" /\ Dumps[2] = "dosstub" /\ Dumps[3] = "ntheader" /\ Dumps[4] = "sections"
  /\ Dumps[5] = "groups" /\ Dumps[6] = "version" /\ Dumps[7] = "exports" /\ Dumps[8] = "imports"
  /\ Dumps[9] = "resource" /\ Dumps[10] = "config" /\ Dumps[11] = "debug" /\ Dumps[12] = "relocs"
  /\ Dumps[13] = "runtime" /\ Dumps[14] = "actions"
  /\ \A k \in 1 .. Final : Dumps[k] \notin {"open", "done", "crashed"}
<1>1. DOMAIN Dumps = 1 .. Final /\ Len(Dumps) = Final
  BY DEF Dumps, Final
<1>2. ASSUME NEW j \in 1 .. Final, NEW k \in 1 .. Final, Dumps[j] = Dumps[k] PROVE j = k
  BY <1>2 DEF Dumps, Final
<1> QED BY <1>1, <1>2 DEF Dumps, Final

\* After a dump comes the one behind it in the list.
LEMMA FollowingIsNext ==
  ASSUME NEW k \in 1 .. Final
  PROVE  Following(Dumps[k]) = IF k = Final THEN "done" ELSE Dumps[k + 1]
<1> DEFINE c == CHOOSE n \in DOMAIN Dumps : Dumps[n] = Dumps[k]
<1>1. c = k
  BY DumpsAre
<1>2. Following(Dumps[k]) = IF c = Len(Dumps) THEN "done" ELSE Dumps[c + 1]
  BY DEF Following
<1> HIDE DEF c
<1> QED BY <1>1, <1>2, DumpsAre

-----------------------------------------------------------------------------
(***************************************************************************)
(* What actions leave alone: all that a file holds but words.              *)
(***************************************************************************)
Shaped(f) ==
  f \in [size : Nat, lfanew : Nat, machine : {f.machine}, dos : {f.dos}, nt : {f.nt}, dd : {f.dd},
         shdr : {f.shdr}, body : {f.body}]
Codes0(f, p) == f.body[p].codes
Numbered(f) ==
  /\ \A i \in DOMAIN f.shdr : {f.shdr[i].vaddr, f.shdr[i].raw, f.shdr[i].size} \subseteq Nat
  /\ \A p \in DOMAIN f.body : \A x \in {"block", "size", "bytes", "chars"} : Field(f, p, x) \in Nat
  /\ \A p \in DOMAIN f.body : Has(f, p, "codes") => Codes0(f, p) \in Seq({Codes0(f, p)[k] : k \in DOMAIN Codes0(f, p)})
IsFile(f) == Shaped(f) /\ Numbered(f)

SameReads(f, g) ==
  /\ g.size = f.size /\ g.lfanew = f.lfanew /\ g.machine = f.machine /\ g.dos = f.dos /\ g.nt = f.nt
  /\ g.dd = f.dd /\ g.shdr = f.shdr /\ DOMAIN g.body = DOMAIN f.body
  /\ \A p, x : Has(g, p, x) <=> Has(f, p, x)
  /\ \A p, x : x # "words" => Field(g, p, x) = Field(f, p, x)

LEMMA ChangedReads ==
  ASSUME NEW f, Shaped(f), NEW s
  PROVE  Shaped(ChangedFile(f, s)) /\ SameReads(f, ChangedFile(f, s))
<1> DEFINE b == [o \in DOMAIN f.body |-> IF o = s.raw /\ Contents(f, s) # << >> THEN Turned(f.body[o]) ELSE f.body[o]]
           g == ChangedFile(f, s)
<1>1. g = [f EXCEPT !.body = b]
  BY DEF ChangedFile
<1>2. DOMAIN b = DOMAIN f.body
  OBVIOUS
<1>3. ASSUME NEW o \in DOMAIN f.body
      PROVE  DOMAIN b[o] = DOMAIN f.body[o] /\ \A x \in DOMAIN f.body[o] : x # "words" => b[o][x] = f.body[o][x]
  BY DEF Turned
<1> HIDE DEF b
<1>4. Shaped(g) /\ g.body = b /\ g.size = f.size /\ g.lfanew = f.lfanew /\ g.machine = f.machine
      /\ g.dos = f.dos /\ g.nt = f.nt /\ g.dd = f.dd /\ g.shdr = f.shdr
  BY <1>1 DEF Shaped
<1> HIDE DEF g
<1>5. \A p, x : Has(g, p, x) <=> Has(f, p, x)
  BY <1>2, <1>3, <1>4 DEF Has
<1>6. \A p, x : x # "words" => Field(g, p, x) = Field(f, p, x)
  BY <1>2, <1>3, <1>4, <1>5 DEF Field, Has
<1>7. SameReads(f, g)
  BY <1>2, <1>4, <1>5, <1>6 DEF SameReads
<1> QED BY <1>4, <1>7 DEF g

\* Headers, sections and chunks are where they were.
LEMMA SamePlaces ==
  ASSUME NEW f, NEW g, SameReads(f, g)
  PROVE  /\ isPE(g) = isPE(f) /\ isPE32(g) = isPE32(f) /\ isPE64(g) = isPE64(f) /\ nthdr(g) = nthdr(f)
         /\ \A i : datadirbyentry(g, i) = datadirbyentry(f, i)
         /\ \A v : sectionhdrbyRVA(g, v) = sectionhdrbyRVA(f, v)
         /\ \A i : sectionhdrbyentry(g, i) = sectionhdrbyentry(f, i)
         /\ \A n : sectionhdrbyname(g, n) = sectionhdrbyname(f, n)
         /\ \A n : chunkbyname(g, n) = chunkbyname(f, n)
         /\ \A i, v, z : chunkbyRVA(g, i, v, z) = chunkbyRVA(f, i, v, z)
         /\ \A i : chunkbyentry(g, i) = chunkbyentry(f, i)
<1>1. /\ g.size = f.size /\ g.lfanew = f.lfanew /\ g.machine = f.machine /\ g.dos = f.dos /\ g.nt = f.nt
      /\ g.dd = f.dd /\ g.shdr = f.shdr
  BY DEF SameReads
<1>2. \A o, z : getp(g, o, z) = getp(f, o, z)
  BY <1>1 DEF getp
<1>3. isPE(g) = isPE(f)
  BY <1>1, <1>2 DEF isPE, doshdr
<1>4. isPE32(g) = isPE32(f) /\ isPE64(g) = isPE64(f)
  BY <1>1, <1>3 DEF isPE32, isPE64
<1>5. nthdr(g) = nthdr(f)
  BY <1>1, <1>2, <1>4 DEF nthdr, Headers
<1>6. sectioncount(g) = sectioncount(f)
  BY <1>1, <1>5 DEF sectioncount
<1>7. \A i : datadirbyentry(g, i) = datadirbyentry(f, i)
  BY <1>1, <1>5 DEF datadirbyentry
<1>8. \A i : sectionhdrbyindex(g, i) = sectionhdrbyindex(f, i)
  BY <1>1, <1>2, <1>5 DEF sectionhdrbyindex
<1>9. SectionsOf(g) = SectionsOf(f)
  BY <1>6, <1>8 DEF SectionsOf
<1>10. \A S : FirstSection(g, S) = FirstSection(f, S)
  BY <1>8 DEF FirstSection
<1>11. \A v : sectionhdrbyRVA(g, v) = sectionhdrbyRVA(f, v)
  BY <1>1, <1>9, <1>10 DEF sectionhdrbyRVA
<1>12. \A i : sectionhdrbyentry(g, i) = sectionhdrbyentry(f, i)
  BY <1>7, <1>11 DEF sectionhdrbyentry
<1>13. \A n : sectionhdrbyname(g, n) = sectionhdrbyname(f, n)
  BY <1>1, <1>9, <1>10 DEF sectionhdrbyname
<1>14. \A n : chunkbyname(g, n) = chunkbyname(f, n)
  BY <1>2, <1>13 DEF chunkbyname, ChunkOf
<1>15. \A i, v, z : chunkbyRVA(g, i, v, z) = chunkbyRVA(f, i, v, z)
  BY <1>2, <1>11, <1>12 DEF chunkbyRVA
<1>16. \A i : EntrySize(g, i) = EntrySize(f, i)
  BY <1>1 DEF EntrySize, LoadConfig
<1>17. \A i : chunkbyentry(g, i) = chunkbyentry(f, i)
  BY <1>7, <1>15, <1>16 DEF chunkbyentry
<1> QED BY <1>3, <1>4, <1>5, <1>7, <1>11, <1>12, <1>13, <1>14, <1>15, <1>17

\* The dumps of tables that hold no words.
LEMMA SameTables ==
  ASSUME NEW f, NEW g, SameReads(f, g)
  PROVE  dump_config(g) = dump_config(f) /\ dump_reloc(g) = dump_reloc(f) /\ dump_runtime(g) = dump_runtime(f)
<1>1. \A p, x : Has(g, p, x) <=> Has(f, p, x)
  BY DEF SameReads
<1>2. \A p, x : x # "words" => Field(g, p, x) = Field(f, p, x)
  BY DEF SameReads
<1>3. /\ isPE32(g) = isPE32(f)
      /\ \A i : sectionhdrbyentry(g, i) = sectionhdrbyentry(f, i)
      /\ \A n : sectionhdrbyname(g, n) = sectionhdrbyname(f, n) /\ chunkbyname(g, n) = chunkbyname(f, n)
      /\ \A i, v, z : chunkbyRVA(g, i, v, z) = chunkbyRVA(f, i, v, z)
      /\ \A i : chunkbyentry(g, i) = chunkbyentry(f, i)
  BY SamePlaces
<1>4. dump_config(g) = dump_config(f)
  BY <1>2, <1>3 DEF dump_config, Thresholds
<1>5. dump_reloc(g) = dump_reloc(f)
  <2>1. \A p : NextBlock(g, p) = NextBlock(f, p)
    BY <1>2 DEF NextBlock
  <2>2. ASSUME NEW s, NEW p PROVE RelocRows(g, s, p) = RelocRows(f, s, p)
    <3> DEFINE F(At) == [n \in 0 .. s.size |-> IF n = 0 THEN p ELSE NextBlock(f, At[n - 1])]
               G(At) == [n \in 0 .. s.size |-> IF n = 0 THEN p ELSE NextBlock(g, At[n - 1])]
    <3>1. \A At : F(At) = G(At)
      BY <2>1
    <3> HIDE DEF F, G
    <3>2. (CHOOSE At : At = F(At)) = (CHOOSE At : At = G(At))
      BY <3>1
    <3> DEFINE a == CHOOSE At : At = F(At)
               b == CHOOSE At : At = G(At)
               A == {n \in DOMAIN a : a[n] - p < s.size /\ Field(f, a[n], "block") # 0}
               B == {n \in DOMAIN b : b[n] - p < s.size /\ Field(g, b[n], "block") # 0}
    <3>3. RelocRows(f, s, p) = [k \in 1 .. Cardinality(A) |-> a[k - 1]]
      BY DEF RelocRows, F
    <3>4. RelocRows(g, s, p) = [k \in 1 .. Cardinality(B) |-> b[k - 1]]
      BY DEF RelocRows, G
    <3>5. a = b
      BY <3>2
    <3> HIDE DEF a, b
    <3>6. A = B
      BY <1>2, <3>5
    <3> QED BY <3>3, <3>4, <3>5, <3>6
  <2> QED BY <1>3, <2>2 DEF dump_reloc
<1>6. dump_runtime(g) = dump_runtime(f)
  <2>1. ASSUME NEW p, Has(f, p, "codes") PROVE g.body[p].codes = f.body[p].codes
    BY <1>1, <1>2, <2>1 DEF Field
  <2>2. \A p : Runtime(g, p) = Runtime(f, p)
    BY <1>1, <1>2, <1>3, <2>1 DEF Runtime
  <2> QED BY <1>2, <1>3, <2>2 DEF dump_runtime
<1> QED BY <1>4, <1>5, <1>6

\* What is left is a file as before.
LEMMA ChangedIsFile ==
  ASSUME NEW f, IsFile(f), NEW s
  PROVE  IsFile(ChangedFile(f, s)) /\ SameReads(f, ChangedFile(f, s))
<1> DEFINE g == ChangedFile(f, s)
<1>1. Shaped(g) /\ SameReads(f, g)
  BY ChangedReads DEF IsFile
<1> HIDE DEF g
<1>2. \A p, x : Has(g, p, x) <=> Has(f, p, x)
  BY <1>1 DEF SameReads
<1>3. \A p, x : x # "words" => Field(g, p, x) = Field(f, p, x)
  BY <1>1 DEF SameReads
<1>4. ASSUME NEW p, Has(f, p, "codes") PROVE Codes0(g, p) = Codes0(f, p)
  BY <1>2, <1>3, <1>4 DEF Field, Codes0
<1>5. Numbered(g)
  BY <1>1, <1>2, <1>3, <1>4 DEF Numbered, IsFile, SameReads
<1> QED BY <1>1, <1>5 DEF IsFile, g
-----------------------------------------------------------------------------
(***************************************************************************)
(* The inductive invariant.                                                *)
(***************************************************************************)
\* An action has shown a section at most.
ActionsCounted ==
  /\ options \in Options /\ IsFile(file)
  /\ action \in 1 .. Len(options.actions) + 1
  /\ \E S : report.actions \in Seq(S)
  /\ Len(report.actions) < action

\* The report holds the dumps before this one that were asked for, of a file that
\* is one.
Behind(k) == \A j \in 1 .. k - 1 : Wanted(Dumps[j]) => Dumps[j] \in DOMAIN report
At(k) == pc = IF k = Final + 1 THEN "done" ELSE Dumps[k]
InOrder ==
  /\ "actions" \in DOMAIN report
  /\ DOMAIN report \subseteq {"actions"} \union options.wants
  /\ \/ pc \in {"open", "crashed"}
     \/ pc = "done" /\ ~isPE(file)
     \/ \E k \in 1 .. Final + 1 : At(k) /\ Behind(k)

\* A version is shown in a dump that has been begun, with a cursor.
Walks ==
  walk # Null => /\ pc = "crashed" \/ (pc \in {"version", "resource"} /\ pc \in DOMAIN report)
                 /\ "c" \in DOMAIN walk /\ walk.c \in Cursor

\* The dumps of tables are those of the file as it is.
TablesShown ==
  /\ "config" \in DOMAIN report => report.config = dump_config(file)
  /\ "relocs" \in DOMAIN report => report.relocs = dump_reloc(file)
  /\ "runtime" \in DOMAIN report => report.runtime = dump_runtime(file)

IInv == ActionsCounted /\ InOrder /\ Walks /\ TablesShown

\* A place in the list is that of one dump.
LEMMA PlaceOf ==
  ASSUME InOrder, NEW n \in 1 .. Final, pc = Dumps[n]
  PROVE  Behind(n)
<1>1. PICK k \in 1 .. Final + 1 : At(k) /\ Behind(k)
  BY DumpsAre DEF InOrder
<1>2. k # Final + 1
  BY <1>1, DumpsAre DEF At
<1>3. k \in 1 .. Final /\ Dumps[k] = Dumps[n]
  BY <1>1, <1>2 DEF At, Final
<1>4. k = n
  BY <1>3, DumpsAre
<1> QED BY <1>1, <1>4

\* Behind a dump that is in the report, if it was wanted, comes the next.
LEMMA OnToNext ==
  ASSUME InOrder, NEW n \in 1 .. Final, pc = Dumps[n], pc' = Following(Dumps[n]), UNCHANGED <<file, options>>,
         DOMAIN report \subseteq DOMAIN report', DOMAIN report' \subseteq {"actions"} \union options.wants,
         Wanted(Dumps[n]) => Dumps[n] \in DOMAIN report'
  PROVE  InOrder'
<1>1. Behind(n)
  BY PlaceOf
<1>2. n + 1 \in 1 .. Final + 1 /\ (n + 1 = Final + 1 <=> n = Final)
  BY DEF Final
<1>3. At(n + 1)'
  BY <1>2, FollowingIsNext DEF At
<1>4. \A d : Wanted(d)' <=> Wanted(d)
  BY DEF Wanted
<1>5. ASSUME NEW j \in 1 .. (n + 1) - 1, Wanted(Dumps[j])' PROVE Dumps[j] \in DOMAIN report'
  <2>1. j \in 1 .. n - 1 \/ j = n
    OBVIOUS
  <2> QED BY <1>1, <1>4, <1>5, <2>1 DEF Behind
<1>6. Behind(n + 1)'
  BY <1>5 DEF Behind
<1> QED BY <1>2, <1>3, <1>6 DEF InOrder

\* A version comes with a cursor over as many bytes as its data say.
LEMMA CursorStarts ==
  ASSUME IsFile(file), NEW leaves
  PROVE  "c" \in DOMAIN Walk(leaves) /\ Walk(leaves).c \in Cursor
<1>1. \A p : Field(file, p, "size") \in Nat
  BY DEF IsFile, Numbered, Field, Has
<1>2. \A n \in Int : fmalloc(n) \in Cursor
  BY DEF fmalloc, Cursor
<1>3. CASE leaves = << >>
  BY <1>2, <1>3 DEF Walk
<1>4. CASE leaves # << >>
  <2>1. fmalloc(Field(file, Head(leaves), "size")) \in Cursor
    BY <1>1, <1>2
  <2> QED BY <1>4, <2>1 DEF Walk
<1> QED BY <1>3, <1>4

\* A cursor moves on to a cursor.
LEMMA CursorMoves ==
  ASSUME IsFile(file), NEW base, NEW c \in Cursor
  PROVE  NextString(file, base, c) \in Cursor /\ dump_versionV(file, base, c).c \in Cursor
<1>1. \A p : Field(file, p, "bytes") \in Nat /\ Field(file, p, "chars") \in Nat
  BY DEF IsFile, Numbered, Field, Has
<1>2. ASSUME NEW a \in Nat, NEW b \in Nat PROVE strsize16(a, b) \in Nat
  <2> DEFINE S == {a, b}
  <2>1. \E x \in S : \A y \in S : x <= y
    OBVIOUS
  <2>2. Min(S) \in S
    BY <2>1 DEF Min
  <2> QED BY <2>2 DEF strsize16
<1>3. \A p : KeyBytes(file, p) \in Nat /\ ValueBytes(file, p) \in Nat
  BY <1>1, <1>2 DEF KeyBytes, ValueBytes
<1>4. \A n \in Nat : BOUND32(n) \in Nat
  BY DEF BOUND32
<1>5. ASSUME NEW d \in Cursor, NEW n \in Nat PROVE fnext_vchunksize(d, n) \in Cursor
  <2>1. d.cpos + BOUND32(n) \in Nat
    BY <1>4 DEF Cursor
  <2>2. fstep(d, BOUND32(n)) \in Cursor
    BY <2>1 DEF fstep, fmove, Cursor
  <2> QED BY <2>2 DEF fnext_vchunksize
<1>6. \A d \in Cursor : fnext_vchunk(file, base, d) \in Cursor
  <2>1. \A p : CHUNK_MINSIZE + KeyBytes(file, p) \in Nat
    BY <1>3 DEF CHUNK_MINSIZE
  <2> QED BY <1>5, <2>1 DEF fnext_vchunk
<1>7. NextString(file, base, c) \in Cursor
  BY <1>3, <1>5, <1>6 DEF NextString
<1>8. FIXEDFILEINFO \in Nat /\ STRING_FILE_INFO_SIZE \in Nat /\ STRING_TABLE_SIZE \in Nat /\ 4 \in Nat
  BY DEF FIXEDFILEINFO, STRING_FILE_INFO_SIZE, STRING_TABLE_SIZE
<1>9. FixedInfo(file, base, c).c \in Cursor
  BY <1>5, <1>6, <1>8 DEF FixedInfo, Turn
<1>10. StringTable(file, base, c).c \in Cursor
  BY <1>5, <1>8 DEF StringTable, Turn
<1>11. Var(file, base, c).c \in Cursor
  BY <1>5, <1>6, <1>8 DEF Var, Turn
<1>12. Turn(c, << >>, 0, c).c \in Cursor
  BY DEF Turn
<1>13. dump_versionV(file, base, c).c \in Cursor
  BY <1>9, <1>10, <1>11, <1>12 DEF dump_versionV
<1> QED BY <1>7, <1>13

-----------------------------------------------------------------------------
(* Steps.                                                                  *)

LEMMA InitIInv == Init => IInv
<1> SUFFICES ASSUME Init PROVE IInv
  OBVIOUS
<1>1. DOMAIN report = {"actions"} /\ report.actions = << >> /\ report.actions \in Seq({}) /\ Len(report.actions) = 0
  BY DEF Init
<1>2. Len(options.actions) \in Nat
  BY OptionsAssumption DEF Init
<1>3. IsFile(file)
  BY FilesAssumption DEF Init, IsFile, Shaped, Numbered, Codes0
<1>4. ActionsCounted
  BY <1>1, <1>2, <1>3 DEF Init, ActionsCounted
<1>5. InOrder
  BY <1>1 DEF Init, InOrder
<1>6. Walks /\ TablesShown
  BY <1>1 DEF Init, Walks, TablesShown
<1> QED BY <1>4, <1>5, <1>6 DEF IInv

LEMMA OpenKeeps == ASSUME IInv, Open PROVE IInv'
<1>1. UNCHANGED <<file, options, walk, action, report>>
  BY DEF Open
<1>2. InOrder'
  <2>1. CASE isPE(file)
    <3>1. pc' = Dumps[1]
      BY <2>1, DumpsAre DEF Open
    <3>2. At(1)' /\ Behind(1)' /\ 1 \in 1 .. Final + 1
      BY <3>1 DEF At, Behind, Final
    <3> QED BY <1>1, <3>2 DEF IInv, InOrder
  <2>2. CASE ~isPE(file)
    BY <1>1, <2>2 DEF Open, IInv, InOrder
  <2> QED BY <2>1, <2>2
<1>3. Walks'
  BY <1>1 DEF IInv, Walks, Open
<1> QED BY <1>1, <1>2, <1>3 DEF IInv, ActionsCounted, TablesShown

\* What is put into the report.
LEMMA WithHas ==
  ASSUME NEW d, NEW rows, report' = With(d, rows)
  PROVE  /\ DOMAIN report' = DOMAIN report \union {d} /\ report'[d] = rows
         /\ \A x \in DOMAIN report : x # d => report'[x] = report[x]
BY DEF With

\* A dump adds its rows to the report, if they were asked for.
LEMMA DumpKeeps ==
  ASSUME IInv, NEW n \in 1 .. Final, n \notin {6, 9, Final}, NEW rows, Dump(Dumps[n], rows),
         n = 10 => rows = dump_config(file), n = 12 => rows = dump_reloc(file), n = 13 => rows = dump_runtime(file)
  PROVE  IInv'
<1>1. UNCHANGED <<file, options, walk, action>> /\ pc = Dumps[n] /\ pc' = Following(Dumps[n])
  BY DEF Dump
<1>2. Dumps[n] # "actions" /\ Dumps[n] # "version" /\ Dumps[n] # "resource" /\ Dumps[n] # "crashed"
  BY DumpsAre DEF Final
<1>3. /\ DOMAIN report' = DOMAIN report \union IF Wanted(Dumps[n]) THEN {Dumps[n]} ELSE {}
      /\ \A x \in DOMAIN report : x # Dumps[n] => report'[x] = report[x]
      /\ Wanted(Dumps[n]) => report'[Dumps[n]] = rows
      /\ ~Wanted(Dumps[n]) => report' = report
  <2>1. CASE Wanted(Dumps[n])
    BY <2>1, WithHas DEF Dump
  <2>2. CASE ~Wanted(Dumps[n])
    BY <2>2 DEF Dump
  <2> QED BY <2>1, <2>2
<1>4. ActionsCounted'
  <2>1. report'.actions = report.actions
    BY <1>2, <1>3 DEF IInv, InOrder
  <2> QED BY <1>1, <2>1 DEF IInv, ActionsCounted
<1>5. InOrder'
  <2>1. Wanted(Dumps[n]) => Dumps[n] \in options.wants
    BY DEF Wanted
  <2>2. DOMAIN report' \subseteq {"actions"} \union options.wants
    BY <1>3, <2>1 DEF IInv, InOrder
  <2> QED BY <1>1, <1>3, <2>2, OnToNext DEF IInv
<1>6. Walks'
  BY <1>1, <1>2 DEF IInv, Walks
<1>7. TablesShown'
  <2>1. ASSUME NEW k \in 1 .. Final, Dumps[k] \in DOMAIN report'
        PROVE  \/ Dumps[k] \in DOMAIN report /\ report'[Dumps[k]] = report[Dumps[k]]
               \/ n = k /\ report'[Dumps[k]] = rows
    BY <1>3, <2>1, DumpsAre
  <2>2. "config" \in DOMAIN report' => report'.config = dump_config(file)
    BY <2>1, DumpsAre DEF IInv, TablesShown, Final
  <2>3. "relocs" \in DOMAIN report' => report'.relocs = dump_reloc(file)
    BY <2>1, DumpsAre DEF IInv, TablesShown, Final
  <2>4. "runtime" \in DOMAIN report' => report'.runtime = dump_runtime(file)
    BY <2>1, DumpsAre DEF IInv, TablesShown, Final
  <2> QED BY <1>1, <2>2, <2>3, <2>4 DEF TablesShown
<1> QED BY <1>4, <1>5, <1>6, <1>7 DEF IInv
\* A dump of versions is put into the report with the first of them, or passed
\* over.
LEMMA BeginKeeps ==
  ASSUME IInv, NEW n \in {6, 9}, NEW tree, NEW leaves, Begin(Dumps[n], tree, leaves)
  PROVE  IInv'
<1>1. UNCHANGED <<file, options, action>> /\ pc = Dumps[n]
  BY DEF Begin
<1>2. n \in 1 .. Final /\ Dumps[n] \in {"version", "resource"}
  BY DumpsAre DEF Final
<1>3. CASE Wanted(Dumps[n])
  <2> DEFINE rows == [tree |-> tree, versions |-> StartOf(leaves)]
  <2>1. report' = With(Dumps[n], rows) /\ walk' = Walk(leaves) /\ pc' = pc
    BY <1>3 DEF Begin
  <2> HIDE DEF rows
  <2>2. /\ DOMAIN report' = DOMAIN report \union {Dumps[n]}
        /\ \A x \in DOMAIN report : x # Dumps[n] => report'[x] = report[x]
    BY <2>1, WithHas
  <2>3. "actions" \in DOMAIN report /\ report'.actions = report.actions
    BY <1>2, <2>2 DEF IInv, InOrder
  <2>4. ActionsCounted'
    BY <1>1, <2>3 DEF IInv, ActionsCounted
  <2>5. InOrder'
    <3>1. Behind(n)
      BY <1>1, <1>2, PlaceOf DEF IInv
    <3>2. \A d : Wanted(d)' <=> Wanted(d)
      BY <1>1 DEF Wanted
    <3>3. Behind(n)'
      BY <2>2, <3>1, <3>2 DEF Behind
    <3>4. n \in 1 .. Final + 1 /\ n # Final + 1
      BY <1>2 DEF Final
    <3>5. At(n)'
      BY <1>1, <2>1, <3>4 DEF At
    <3>6. Dumps[n] \in options.wants
      BY <1>3 DEF Wanted
    <3> QED BY <1>1, <2>2, <2>3, <3>3, <3>4, <3>5, <3>6 DEF IInv, InOrder
  <2>6. Walks'
    <3>1. "c" \in DOMAIN walk' /\ walk'.c \in Cursor
      BY <2>1, CursorStarts DEF IInv, ActionsCounted
    <3> QED BY <1>1, <1>2, <2>1, <2>2, <3>1 DEF Walks
  <2>7. TablesShown'
    BY <1>1, <1>2, <2>2 DEF IInv, TablesShown
  <2> QED BY <2>4, <2>5, <2>6, <2>7 DEF IInv
<1>4. CASE ~Wanted(Dumps[n])
  <2>1. pc' = Following(Dumps[n]) /\ UNCHANGED <<walk, report>> /\ walk = Null
    BY <1>4 DEF Begin
  <2>2. InOrder'
    <3>1. DOMAIN report' \subseteq {"actions"} \union options.wants
      BY <2>1 DEF IInv, InOrder
    <3> QED BY <1>1, <1>2, <1>4, <2>1, <3>1, OnToNext DEF IInv
  <2>3. Walks'
    BY <2>1 DEF Walks
  <2> QED BY <1>1, <2>1, <2>2, <2>3 DEF IInv, ActionsCounted, TablesShown
<1> QED BY <1>3, <1>4

\* A turn of the loop over a version changes nothing but that version's dump.
LEMMA TurnKeeps ==
  ASSUME IInv, Running, UNCHANGED <<file, options, pc, action>>,
         "c" \in DOMAIN walk', walk'.c \in Cursor,
         DOMAIN report' = DOMAIN report, \A x \in DOMAIN report : x # pc => report'[x] = report[x]
  PROVE  IInv'
<1>1. pc \in {"version", "resource"} /\ pc \in DOMAIN report
  BY DEF IInv, Walks, Running
<1>2. "actions" \in DOMAIN report /\ report'.actions = report.actions
  BY <1>1 DEF IInv, InOrder
<1>3. ActionsCounted'
  BY <1>2 DEF IInv, ActionsCounted
<1>4. InOrder'
  <2>1. \A d : Wanted(d)' <=> Wanted(d)
    BY DEF Wanted
  <2>2. \A k : Behind(k) => Behind(k)'
    BY <2>1 DEF Behind
  <2>3. \A k : At(k) => At(k)'
    BY DEF At
  <2> QED BY <2>2, <2>3 DEF IInv, InOrder
<1>5. Walks'
  BY <1>1 DEF Walks
<1>6. TablesShown'
  BY <1>1 DEF IInv, TablesShown
<1> QED BY <1>3, <1>4, <1>5, <1>6 DEF IInv

\* What Show changes.
LEMMA ShowsOne ==
  ASSUME NEW d, NEW e, report' = [report EXCEPT ![d] = e]
  PROVE  DOMAIN report' = DOMAIN report /\ \A x \in DOMAIN report : x # d => report'[x] = report[x]
OBVIOUS

LEMMA TurnsKeep == ASSUME IInv, Turns PROVE IInv'
<1>1. IsFile(file)
  BY DEF IInv, ActionsCounted
<1>2. CASE VersionTurn
  <2>1. Running /\ UNCHANGED <<file, options, pc, action>>
    BY <1>2 DEF VersionTurn, Walking
  <2>2. "c" \in DOMAIN walk /\ walk.c \in Cursor
    BY <2>1 DEF IInv, Walks, Running
  <2>3. walk' = [walk EXCEPT !.c = TurnNow.c, !.xx = STRING_TABLE_SIZE, !.length = TurnNow.length]
    BY <1>2 DEF VersionTurn
  <2>4. TurnNow.c \in Cursor
    BY <1>1, <2>2, CursorMoves DEF TurnNow
  <2> DEFINE t == TurnNow
  <2> HIDE DEF t
  <2>5. "c" \in DOMAIN walk' /\ walk'.c = t.c
    BY <2>2, <2>3 DEF t
  <2>6. \E e : report' = [report EXCEPT ![pc] = e]
    BY <1>2 DEF VersionTurn, Show
  <2> QED BY <2>1, <2>4, <2>5, <2>6, ShowsOne, TurnKeeps DEF t
<1>3. CASE StringTurn
  <2>1. Running /\ UNCHANGED <<file, options, pc, action>>
    BY <1>3 DEF StringTurn, Walking
  <2>2. "c" \in DOMAIN walk /\ walk.c \in Cursor
    BY <2>1 DEF IInv, Walks, Running
  <2> DEFINE c1 == NextString(file, walk.base, walk.c)
  <2>3. walk' = [walk EXCEPT !.c = c1, !.xx = (@ + Counted(file, walk.base, walk.c)) % WORD]
    BY <1>3 DEF StringTurn
  <2>4. c1 \in Cursor
    BY <1>1, <2>2, CursorMoves
  <2> HIDE DEF c1
  <2>5. "c" \in DOMAIN walk' /\ walk'.c = c1
    BY <2>2, <2>3
  <2>6. \E e : report' = [report EXCEPT ![pc] = e]
    BY <1>3 DEF StringTurn, Show
  <2> QED BY <2>1, <2>4, <2>5, <2>6, ShowsOne, TurnKeeps
<1>4. CASE VersionEnd
  <2>1. Running /\ UNCHANGED <<file, options, pc, action>>
    BY <1>4 DEF VersionEnd, Walking
  <2>2. "c" \in DOMAIN walk' /\ walk'.c \in Cursor
    BY <1>1, <1>4, CursorStarts DEF VersionEnd
  <2>3. \E e : report' = [report EXCEPT ![pc] = e]
    BY <1>4 DEF VersionEnd
  <2> QED BY <2>1, <2>2, <2>3, ShowsOne, TurnKeeps
<1>5. CASE AllVersions
  <2>1. Running /\ walk' = Null /\ pc' = Following(pc) /\ UNCHANGED <<file, options, action, report>>
    BY <1>5 DEF AllVersions
  <2>2. PICK n \in {6, 9} : pc = Dumps[n] /\ Dumps[n] \in DOMAIN report
    BY <2>1, DumpsAre DEF IInv, Walks, Running
  <2>3. n \in 1 .. Final
    BY DEF Final
  <2>4. InOrder'
    <3>1. DOMAIN report' \subseteq {"actions"} \union options.wants
      BY <2>1 DEF IInv, InOrder
    <3> QED BY <2>1, <2>2, <2>3, <3>1, OnToNext DEF IInv
  <2>5. Walks'
    BY <2>1 DEF Walks
  <2> QED BY <2>1, <2>4, <2>5 DEF IInv, ActionsCounted, TablesShown
<1>6. CASE TurnCrash \/ StringCrash
  <2>1. pc' = "crashed" /\ UNCHANGED <<file, options, walk, action, report>>
    BY <1>6 DEF TurnCrash, StringCrash, Crash
  <2>2. InOrder' /\ Walks'
    BY <2>1 DEF IInv, InOrder, Walks
  <2> QED BY <2>1, <2>2 DEF IInv, ActionsCounted, TablesShown
<1> QED BY <1>2, <1>3, <1>4, <1>5, <1>6 DEF Turns

\* An action changes words and adds one section to the report, or nothing.
LEMMA ActionKeeps == ASSUME IInv, ShowSection \/ NoSuchSection \/ NoSection PROVE IInv'
<1>1. /\ pc = "actions" /\ UNCHANGED <<pc, options, walk>> /\ action' = action + 1
      /\ action <= Len(options.actions)
      /\ UNCHANGED report \/ \E e : report' = [report EXCEPT !.actions = Append(@, e)]
  BY DEF ShowSection, NoSuchSection, NoSection, AtAction, Done
<1>2. IsFile(file)
  BY DEF IInv, ActionsCounted
<1>3. IsFile(file') /\ (file' = file \/ SameReads(file, file'))
  <2>1. CASE file' = file
    BY <1>2, <2>1
  <2>2. CASE file' # file
    <3>1. file' = ChangedFile(file, sectionhdrbyname(file, options.actions[action].secname))
      BY <2>2 DEF ShowSection, NoSuchSection, NoSection
    <3> QED BY <1>2, <3>1, ChangedIsFile
  <2> QED BY <2>1, <2>2
<1>4. "actions" \in DOMAIN report
  BY DEF IInv, InOrder
<1>5. /\ DOMAIN report' = DOMAIN report
      /\ \A d \in DOMAIN report : d # "actions" => report'[d] = report[d]
      /\ report'.actions = report.actions \/ \E e : report'.actions = Append(report.actions, e)
  BY <1>1, <1>4
<1>6. ActionsCounted'
  <2>1. options \in Options /\ Len(options.actions) \in Nat /\ action \in Nat
    BY OptionsAssumption DEF IInv, ActionsCounted
  <2>2. action' \in 1 .. Len(options'.actions) + 1
    BY <1>1, <2>1
  <2>3. PICK S : report.actions \in Seq(S)
    BY DEF IInv, ActionsCounted
  <2>4. CASE report'.actions = report.actions
    BY <1>1, <1>3, <2>1, <2>2, <2>3, <2>4 DEF IInv, ActionsCounted
  <2>5. CASE \E e : report'.actions = Append(report.actions, e)
    <3>1. PICK e : report'.actions = Append(report.actions, e)
      BY <2>5
    <3>2. report.actions \in Seq(S \union {e})
      BY <2>3
    <3>3. report'.actions \in Seq(S \union {e}) /\ Len(report'.actions) = Len(report.actions) + 1
          /\ Len(report.actions) \in Nat
      BY <3>1, <3>2
    <3> QED BY <1>1, <1>3, <2>1, <2>2, <3>3 DEF IInv, ActionsCounted
  <2> QED BY <1>5, <2>4, <2>5
<1>7. /\ isPE(file') = isPE(file) /\ isPE32(file') = isPE32(file) /\ isPE64(file') = isPE64(file)
      /\ dump_config(file') = dump_config(file) /\ dump_reloc(file') = dump_reloc(file)
      /\ dump_runtime(file') = dump_runtime(file)
  BY <1>3, SamePlaces, SameTables
<1>8. InOrder'
  <2>1. \A d : Wanted(d)' <=> Wanted(d)
    BY <1>1, <1>7 DEF Wanted
  <2>2. \A k : Behind(k) => Behind(k)'
    BY <1>5, <2>1 DEF Behind
  <2>3. \A k : At(k) => At(k)'
    BY <1>1 DEF At
  <2> QED BY <1>1, <1>5, <1>7, <2>2, <2>3 DEF IInv, InOrder
<1>9. Walks'
  BY <1>1, <1>5 DEF IInv, Walks
<1>10. TablesShown'
  BY <1>5, <1>7 DEF IInv, TablesShown
<1> QED BY <1>6, <1>8, <1>9, <1>10 DEF IInv

LEMMA EndActionsKeeps == ASSUME IInv, EndActions PROVE IInv'
<1>1. pc = Dumps[Final] /\ pc' = Following(Dumps[Final]) /\ UNCHANGED <<file, options, walk, action, report>>
  BY DumpsAre DEF EndActions, Final
<1>2. InOrder'
  <2>1. Final \in 1 .. Final /\ Dumps[Final] \in DOMAIN report
    BY DumpsAre DEF IInv, InOrder, Final
  <2>2. DOMAIN report' \subseteq {"actions"} \union options.wants
    BY <1>1 DEF IInv, InOrder
  <2> QED BY <1>1, <2>1, <2>2, OnToNext DEF IInv
<1>3. Walks'
  BY <1>1, DumpsAre DEF IInv, Walks, Final
<1> QED BY <1>1, <1>2, <1>3 DEF IInv, ActionsCounted, TablesShown

\* Every step keeps the invariant: a dump for its place in the list, the versions
\* turn by turn, the actions one by one.
LEMMA NextKeepsIInv == IInv /\ [Next]_vars => IInv'
<1> SUFFICES ASSUME IInv, [Next]_vars PROVE IInv'
  OBVIOUS
<1> USE DumpsAre DEF Final
<1>1. CASE DosHeader0
  <2>1. Dump(Dumps[1], dump_dosheader(file, options.verbose)) BY <1>1 DEF DosHeader0
  <2> QED BY <2>1, DumpKeeps
<1>2. CASE DosStub
  <2>1. Dump(Dumps[2], dump_dosstub(file)) BY <1>2 DEF DosStub
  <2> QED BY <2>1, DumpKeeps
<1>3. CASE NtHeader
  <2>1. Dump(Dumps[3], dump_ntheader(file)) BY <1>3 DEF NtHeader
  <2> QED BY <2>1, DumpKeeps
<1>4. CASE SectionHeaders
  <2>1. Dump(Dumps[4], dump_sectionheaders(file, options.hash)) BY <1>4 DEF SectionHeaders
  <2> QED BY <2>1, DumpKeeps
<1>5. CASE SectionGroups
  <2>1. Dump(Dumps[5], dump_sectiongroups(file, options.verbose)) BY <1>5 DEF SectionGroups
  <2> QED BY <2>1, DumpKeeps
<1>6. CASE Version
  <2>1. Begin(Dumps[6], << >>, VersionData(file)) BY <1>6 DEF Version
  <2> QED BY <2>1, BeginKeeps
<1>7. CASE Exports
  <2>1. Dump(Dumps[7], dump_eat(file)) BY <1>7 DEF Exports
  <2> QED BY <2>1, DumpKeeps
<1>8. CASE Imports
  <2>1. Dump(Dumps[8], dump_iat(file)) BY <1>8 DEF Imports
  <2> QED BY <2>1, DumpKeeps
<1>9. CASE Resource
  <2>1. Begin(Dumps[9], dump_resource(file), VersionRows(dump_resource(file))) BY <1>9 DEF Resource
  <2> QED BY <2>1, BeginKeeps
<1>10. CASE Config
  <2>1. Dump(Dumps[10], dump_config(file)) BY <1>10 DEF Config
  <2> QED BY <2>1, DumpKeeps
<1>11. CASE Debug
  <2>1. Dump(Dumps[11], dump_debug(file)) BY <1>11 DEF Debug
  <2> QED BY <2>1, DumpKeeps
<1>12. CASE Relocs
  <2>1. Dump(Dumps[12], dump_reloc(file)) BY <1>12 DEF Relocs
  <2> QED BY <2>1, DumpKeeps
<1>13. CASE RuntimeFunctions
  <2>1. Dump(Dumps[13], dump_runtime(file)) BY <1>13 DEF RuntimeFunctions
  <2> QED BY <2>1, DumpKeeps
<1>14. CASE UNCHANGED vars
  <2>1. InOrder'
    <3>1. \A k : At(k)' <=> At(k)
      BY <1>14 DEF vars, At
    <3>2. \A k : Behind(k)' <=> Behind(k)
      BY <1>14 DEF vars, Behind, Wanted
    <3> QED BY <1>14, <3>1, <3>2 DEF vars, IInv, InOrder
  <2> QED BY <1>14, <2>1 DEF vars, IInv, ActionsCounted, Walks, TablesShown
<1> QED
  BY <1>1, <1>2, <1>3, <1>4, <1>5, <1>6, <1>7, <1>8, <1>9, <1>10, <1>11, <1>12, <1>13, <1>14,
     OpenKeeps, TurnsKeep, ActionKeeps, EndActionsKeeps DEF Next

\* The invariant holds at every step of the report.
THEOREM AlwaysIInv == Spec => []IInv
BY InitIInv, NextKeepsIInv, PTL DEF Spec

\* The report holds what was asked for and what the machine allows, each once
\* its turn has come, and a version is shown only in the dumps that show one.
THEOREM TypeCorrect == Spec => []TypeOK
<1>1. IInv => TypeOK
  <2> SUFFICES ASSUME IInv PROVE TypeOK
    OBVIOUS
  <2>1. pc \in {Dumps[k] : k \in DOMAIN Dumps} \union {"open", "done", "crashed"}
    <3>1. ASSUME NEW k \in 1 .. Final + 1, At(k) PROVE pc \in {Dumps[j] : j \in DOMAIN Dumps} \union {"done"}
      <4>1. k = Final + 1 \/ k \in 1 .. Final
        BY DEF Final
      <4> QED BY <3>1, <4>1, DumpsAre DEF At
    <3> QED BY <3>1 DEF IInv, InOrder
  <2>2. walk # Null => pc \in {"version", "resource", "crashed"} /\ walk.c \in Cursor
    BY DEF IInv, Walks
  <2>3. ASSUME pc = "done", isPE(file) PROVE {d \in options.wants : Wanted(d)} \subseteq DOMAIN report
    <3>1. PICK k \in 1 .. Final + 1 : At(k) /\ Behind(k)
      BY <2>3 DEF IInv, InOrder
    <3>2. k = Final + 1
      <4>1. k = Final + 1 \/ k \in 1 .. Final
        BY DEF Final
      <4> QED BY <2>3, <3>1, <4>1, DumpsAre DEF At
    <3>3. options.wants \subseteq DumpNames
      BY OptionsAssumption DEF IInv, ActionsCounted
    <3>4. ASSUME NEW d \in options.wants, Wanted(d) PROVE d \in DOMAIN report
      <4>1. PICK j \in 1 .. Final : d = Dumps[j]
        BY <3>3, DumpsAre DEF DumpNames
      <4>2. j \in 1 .. k - 1
        BY <3>2 DEF Final
      <4> QED BY <3>1, <3>4, <4>1, <4>2 DEF Behind
    <3> QED BY <3>4
  <2> QED BY <2>1, <2>2, <2>3 DEF TypeOK, IInv, ActionsCounted, InOrder
<1> QED BY <1>1, AlwaysIInv, PTL
-----------------------------------------------------------------------------
(***************************************************************************)
(* The load configuration.                                                 *)
(***************************************************************************)
\* The sums of the groups are what the dump compares the size with, but for the
\* bytes that round a group up to a pointer.
LEMMA GroupsCover ==
  ASSUME NEW g \in 1 .. 5
  PROVE  Covered(g) = IF isPE64(file) THEN <<112, 148, 208, 244, 320>>[g] ELSE <<72, 92, 128, 152, 192>>[g]
<1> DEFINE v == GroupBytes(isPE64(file))
           w == [k \in 0 + 1 .. g |-> v[k]]
           s == CHOOSE f : f = [k \in 0 .. g |-> IF k = 0 THEN 0 ELSE f[k - 1] + v[k]]
<1>1. Covered(g) = s[g]
  BY DEF Covered
<1>2. /\ v \in [1 .. 5 -> Int]
      /\ isPE64(file) => v[1] = 112 /\ v[2] = 36 /\ v[3] = 60 /\ v[4] = 36 /\ v[5] = 76
      /\ ~isPE64(file) => v[1] = 72 /\ v[2] = 20 /\ v[3] = 36 /\ v[4] = 24 /\ v[5] = 40
  BY DEF GroupBytes
<1> HIDE DEF v
<1>3. 0 \in Int /\ g \in Int /\ 0 <= g /\ w \in [0 + 1 .. g -> Int]
  BY <1>2
<1>4. \A k \in 0 .. g : k # 0 => k \in 0 + 1 .. g
  BY <1>3
<1>5. \A k \in 0 + 1 .. g : w[k] = v[k]
  OBVIOUS
<1> HIDE DEF w
<1>6. \A f : IsSum(f, 0, g, w) <=> f = [k \in 0 .. g |-> IF k = 0 THEN 0 ELSE f[k - 1] + v[k]]
  BY <1>4, <1>5 DEF IsSum
<1>7. \E f : IsSum(f, 0, g, w)
  BY <1>3, SumExists
<1>8. \E f : f = [k \in 0 .. g |-> IF k = 0 THEN 0 ELSE f[k - 1] + v[k]]
  BY <1>6, <1>7
<1>9. s = [k \in 0 .. g |-> IF k = 0 THEN 0 ELSE s[k - 1] + v[k]]
  BY <1>8
<1> HIDE DEF s
<1>10. Sums(s, 0, g, w)
  BY <1>3, <1>6, <1>9, SumIs
<1>11. s[0] = 0 /\ \A k \in 1 .. g : s[k] = s[k - 1] + v[k]
  BY <1>5, <1>10 DEF Sums
<1>12. s[1] = s[0] + v[1]
  BY <1>11
<1>13. g >= 2 => s[2] = s[1] + v[2]
  BY <1>11
<1>14. g >= 3 => s[3] = s[2] + v[3]
  BY <1>11
<1>15. g >= 4 => s[4] = s[3] + v[4]
  BY <1>11
<1>16. g >= 5 => s[5] = s[4] + v[5]
  BY <1>11
<1>17. CASE isPE64(file)
  BY <1>1, <1>2, <1>11, <1>12, <1>13, <1>14, <1>15, <1>16, <1>17
<1>18. CASE ~isPE64(file)
  BY <1>1, <1>2, <1>11, <1>12, <1>13, <1>14, <1>15, <1>16, <1>18
<1> QED BY <1>17, <1>18

\* A directory that is found is one of a machine that is known.
LEMMA FoundOfMachine ==
  ASSUME NEW f, NEW i, chunkbyentry(f, i) # Null
  PROVE  /\ datadirbyentry(f, i) = f.dd[i] /\ (isPE32(f) <=> ~isPE64(f))
         /\ chunkbyentry(f, i) = chunkbyRVA(f, i, f.dd[i].vaddr, EntrySize(f, i))
<1>1. datadirbyentry(f, i) # Null
  BY DEF chunkbyentry
<1>2. datadirbyentry(f, i) = f.dd[i] /\ nthdr(f) # Null
  BY <1>1 DEF datadirbyentry
<1>3. isPE32(f) \/ isPE64(f)
  BY <1>2 DEF nthdr
<1>4. ~(isPE32(f) /\ isPE64(f))
  BY DEF isPE32, isPE64
<1>5. chunkbyentry(f, i) = chunkbyRVA(f, i, f.dd[i].vaddr, EntrySize(f, i))
  BY <1>1, <1>2 DEF chunkbyentry
<1> QED BY <1>2, <1>3, <1>4, <1>5

LEMMA ConfigFollows == ASSUME IInv PROVE ConfigCovered
<1> DEFINE p == chunkbyentry(file, ENTRY_LOAD_CONFIG)
           n == Field(file, p, "size")
<1> SUFFICES ASSUME "config" \in DOMAIN report, p # Null
             PROVE  report.config = {g \in 1 .. 5 : RoundedUp(Covered(g)) <= n}
  BY DEF ConfigCovered
<1>1. report.config = {g \in 1 .. 5 : n >= Thresholds(file)[g]}
  BY DEF IInv, TablesShown, dump_config
<1>2. n \in Nat
  BY DEF IInv, ActionsCounted, IsFile, Numbered, Field, Has
<1>3. isPE32(file) <=> ~isPE64(file)
  BY FoundOfMachine
<1> HIDE DEF n, p
<1>4. ASSUME NEW g \in 1 .. 5 PROVE RoundedUp(Covered(g)) = Thresholds(file)[g] /\ Thresholds(file)[g] \in Nat
  <2>1. CASE isPE64(file)
    <3>1. Covered(g) = <<112, 148, 208, 244, 320>>[g]
      BY <2>1, GroupsCover
    <3>2. RoundedUp(Covered(g)) = ((Covered(g) + 7) \div 8) * 8
      BY <2>1 DEF RoundedUp
    <3>3. Thresholds(file)[g] = <<112, 152, 208, 248, 320>>[g]
      BY <1>3, <2>1 DEF Thresholds
    <3> QED BY <3>1, <3>2, <3>3
  <2>2. CASE ~isPE64(file)
    <3>1. Covered(g) = <<72, 92, 128, 152, 192>>[g]
      BY <2>2, GroupsCover
    <3>2. RoundedUp(Covered(g)) = Covered(g)
      BY <2>2 DEF RoundedUp
    <3>3. Thresholds(file)[g] = <<72, 92, 128, 152, 192>>[g]
      BY <1>3, <2>2 DEF Thresholds
    <3> QED BY <3>1, <3>2, <3>3
  <2> QED BY <2>1, <2>2
<1>5. \A g \in 1 .. 5 : RoundedUp(Covered(g)) <= n <=> n >= Thresholds(file)[g]
  BY <1>2, <1>4
<1> QED BY <1>1, <1>5
-----------------------------------------------------------------------------
(***************************************************************************)
(* Relocation blocks.                                                      *)
(***************************************************************************)
\* Places that follow each other by the sizes of blocks.
IsChain(a, p, z, blk) == a = [n \in 0 .. z |-> IF n = 0 THEN p ELSE a[n - 1] + blk[a[n - 1]]]
Chain(a, p, z, blk) == a \in [0 .. z -> Nat] /\ a[0] = p /\ \A n \in 1 .. z : a[n] = a[n - 1] + blk[a[n - 1]]

LEMMA ChainExists ==
  ASSUME NEW p \in Nat, NEW z \in Nat, NEW blk \in [Nat -> Nat]
  PROVE  /\ \E a : IsChain(a, p, z, blk)
         /\ \A a : IsChain(a, p, z, blk) => Chain(a, p, z, blk)
<1> DEFINE N == Nat
           move == [x \in N |-> x + blk[x]]
           step == [k \in 0 + 1 .. z |-> move]
<1>1. p \in N /\ 0 \in Int /\ z \in Int /\ 0 <= z /\ move \in [N -> N]
  OBVIOUS
<1>2. step \in [0 + 1 .. z -> [N -> N]]
  BY <1>1
<1>3. \A k \in 0 + 1 .. z : \A x \in N : step[k][x] = x + blk[x]
  OBVIOUS
<1> HIDE DEF step, move, N
<1>4. \A n \in 0 .. z : n # 0 => n \in 0 + 1 .. z /\ n - 1 \in 0 .. z
  BY <1>1
<1>5. \A n \in 0 + 1 .. z : n \in 0 .. z /\ n # 0
  BY <1>1
<1>6. 0 \in 0 .. z
  BY <1>1
<1>7. PICK a : Follows(a, 0, z, N, p, step)
  BY <1>1, <1>2, FollowsExists
<1>8. IsChain(a, p, z, blk)
  <2>1. a = [n \in 0 .. z |-> a[n]] /\ a[0] = p /\ \A n \in 0 .. z : a[n] \in N
    BY <1>7 DEF Follows
  <2>2. \A n \in 0 + 1 .. z : a[n] = step[n][a[n - 1]]
    BY <1>7 DEF Follows
  <2>3. \A n \in 0 .. z : n # 0 => a[n] = a[n - 1] + blk[a[n - 1]]
    BY <1>3, <1>4, <2>1, <2>2
  <2>4. \A n \in 0 .. z : a[n] = IF n = 0 THEN p ELSE a[n - 1] + blk[a[n - 1]]
    BY <2>1, <2>3
  <2> QED BY <2>1, <2>4 DEF IsChain
<1>9. ASSUME NEW b, IsChain(b, p, z, blk) PROVE Chain(b, p, z, blk)
  <2>1. \A n \in 0 .. z : b[n] = IF n = 0 THEN p ELSE b[n - 1] + blk[b[n - 1]]
    BY <1>9 DEF IsChain
  <2>2. b = [n \in 0 .. z |-> b[n]] /\ b[0] = p
    BY <1>6, <1>9, <2>1 DEF IsChain
  <2>3. \A n \in 0 + 1 .. z : b[n] = b[n - 1] + blk[b[n - 1]]
    BY <1>5, <2>1
  <2>4. \A n \in 0 + 1 .. z : b[n - 1] \in N => b[n] = step[n][b[n - 1]]
    BY <1>3, <2>3
  <2>5. Follows(b, 0, z, N, p, step)
    BY <1>1, <1>2, <2>2, <2>4, FollowsIf
  <2>6. b \in [0 .. z -> Nat]
    BY <2>5 DEF Follows, N
  <2>7. 0 + 1 .. z = 1 .. z
    OBVIOUS
  <2> QED BY <2>2, <2>3, <2>6, <2>7 DEF Chain
<1> QED BY <1>8, <1>9

\* Which of the places are shown: those before the first that is out of the table
\* or has no size.
ShownPlaces(a, p, z, blk) == {n \in 0 .. z : a[n] - p < z /\ blk[a[n]] # 0}

LEMMA ShownFirst ==
  ASSUME NEW p \in Nat, NEW z \in Nat, NEW blk \in [Nat -> Nat], NEW a, Chain(a, p, z, blk)
  PROVE  \E m \in 0 .. z : /\ \A n \in 0 .. z : n \in ShownPlaces(a, p, z, blk) <=> n < m
                           /\ Cardinality(ShownPlaces(a, p, z, blk)) = m
<1> DEFINE S == ShownPlaces(a, p, z, blk)
           T == {n \in 0 .. z : n \notin S}
<1>1. /\ \A n \in 0 .. z : a[n] \in Nat /\ blk[a[n]] \in Nat
      /\ a[0] = p /\ \A n \in 1 .. z : a[n] = a[n - 1] + blk[a[n - 1]]
  BY DEF Chain
<1>2. \A n \in 0 .. z : n \in S <=> a[n] - p < z /\ blk[a[n]] # 0
  BY DEF ShownPlaces
<1>3. 0 \in Int /\ z \in Int /\ z \in 0 .. z /\ 0 \in 0 .. z
  OBVIOUS
<1>4. S \subseteq 0 .. z
  BY DEF ShownPlaces
<1> HIDE DEF S
<1>5. T # {}
  <2> SUFFICES ASSUME \A n \in 0 .. z : n \in S PROVE FALSE
    OBVIOUS
  <2> DEFINE U == {n \in 0 .. z : a[n] >= p + n}
  <2>1. 0 <= z => 0 \in U
    BY <1>1, <1>3
  <2>2. ASSUME NEW n \in 0 .. z - 1, n \in U PROVE n + 1 \in U
    <3>1. n \in 0 .. z /\ n + 1 \in 0 .. z /\ n + 1 \in 1 .. z /\ (n + 1) - 1 = n
      OBVIOUS
    <3>2. a[n] >= p + n /\ blk[a[n]] # 0 /\ a[n] \in Nat /\ blk[a[n]] \in Nat
      BY <1>1, <1>2, <2>2, <3>1
    <3>3. a[n + 1] = a[n] + blk[a[n]]
      BY <1>1, <3>1
    <3> QED BY <3>1, <3>2, <3>3
  <2> HIDE DEF U
  <2>3. 0 .. z \subseteq U
    BY <1>3, <2>1, <2>2, Upwards
  <2>4. a[z] >= p + z
    BY <1>3, <2>3 DEF U
  <2>5. a[z] - p < z /\ a[z] \in Nat
    BY <1>1, <1>2, <1>3
  <2> QED BY <2>4, <2>5
<1>6. PICK m \in T : \A n \in T : m <= n
  <2>1. T \subseteq Nat
    OBVIOUS
  <2> HIDE DEF T
  <2> QED BY <1>5, <2>1, LeastNatural
<1>7. m \in 0 .. z /\ m \notin S
  OBVIOUS
<1>8. \A n \in 0 .. z : n < m => n \in S
  BY <1>6, <1>7
<1> HIDE DEF T
<1>9. \A n \in 0 .. z : n >= m => n \notin S
  <2> DEFINE U == {n \in 0 .. z : n \notin S}
  <2>1. m \in Int /\ (m <= z => m \in U)
    BY <1>7
  <2>2. ASSUME NEW n \in m .. z - 1, n \in U PROVE n + 1 \in U
    <3>1. n \in 0 .. z /\ n + 1 \in 0 .. z /\ n + 1 \in 1 .. z /\ (n + 1) - 1 = n
      BY <1>7
    <3>2. a[n + 1] = a[n] + blk[a[n]] /\ a[n] \in Nat /\ blk[a[n]] \in Nat /\ a[n + 1] \in Nat
      BY <1>1, <3>1
    <3>3. ~(a[n] - p < z) \/ blk[a[n]] = 0
      BY <1>2, <2>2, <3>1
    <3>4. CASE ~(a[n] - p < z)
      <4>1. ~(a[n + 1] - p < z)
        BY <3>2, <3>4
      <4> QED BY <1>2, <3>1, <4>1
    <3>5. CASE blk[a[n]] = 0
      <4>1. a[n + 1] = a[n]
        BY <3>2, <3>5
      <4> QED BY <1>2, <2>2, <3>1, <4>1
    <3> QED BY <3>3, <3>4, <3>5
  <2> HIDE DEF U
  <2>3. m .. z \subseteq U
    BY <1>3, <2>1, <2>2, Upwards
  <2> QED BY <1>7, <2>3 DEF U
<1>10. S = 0 .. m - 1
  <2>1. ASSUME NEW n \in S PROVE n \in 0 .. m - 1
    <3>1. n \in 0 .. z /\ ~(n >= m)
      BY <1>4, <1>9
    <3> QED BY <1>7, <3>1
  <2>2. ASSUME NEW n \in 0 .. m - 1 PROVE n \in S
    <3>1. n \in 0 .. z /\ n < m
      BY <1>7
    <3> QED BY <1>8, <3>1
  <2> QED BY <2>1, <2>2
<1>11. Cardinality(0 .. m - 1) = m
  <2>1. 0 \in Int /\ m - 1 \in Int /\ (m - 1) - 0 + 1 = m /\ (0 > m - 1 <=> m = 0)
    BY <1>7
  <2> QED BY <2>1, FS_Interval
<1>12. \A n \in 0 .. z : n \in S <=> n < m
  <2>1. \A n \in 0 .. z : n < m \/ n >= m
    BY <1>7
  <2>2. \A n \in 0 .. z : ~(n < m /\ n >= m)
    BY <1>7
  <2> QED BY <1>8, <1>9, <2>1, <2>2
<1> QED BY <1>7, <1>10, <1>11, <1>12 DEF S
\* One more place at the end of those that are shown.
LEMMA OneMorePlace ==
  ASSUME NEW n \in Nat, NEW a
  PROVE  Append([k \in 1 .. n |-> a[k - 1]], a[n]) = [k \in 1 .. n + 1 |-> a[k - 1]]
<1> DEFINE q == [k \in 1 .. n |-> a[k - 1]]
           r == [k \in 1 .. n + 1 |-> a[k - 1]]
           V == {a[k - 1] : k \in 1 .. n + 1}
<1>1. \A k \in 1 .. n : k \in 1 .. n + 1
  OBVIOUS
<1>2. q \in Seq(V) /\ Len(q) = n
  <2>1. q \in [1 .. n -> V]
    BY <1>1
  <2> HIDE DEF q, V
  <2> QED BY <2>1
<1>3. a[n] \in V
  <2>1. n + 1 \in 1 .. n + 1 /\ (n + 1) - 1 = n
    OBVIOUS
  <2> QED BY <2>1
<1>4. r \in Seq(V) /\ Len(r) = n + 1
  <2>1. r \in [1 .. n + 1 -> V]
    OBVIOUS
  <2>2. n + 1 \in Nat
    OBVIOUS
  <2> HIDE DEF r, V
  <2> QED BY <2>1, <2>2
<1>5. (\A k \in 1 .. n : r[k] = q[k]) /\ r[n + 1] = a[n]
  <2>1. n + 1 \in 1 .. n + 1 /\ (n + 1) - 1 = n
    OBVIOUS
  <2> QED BY <1>1, <2>1
<1> HIDE DEF q, r, V
<1>6. Append(q, a[n]) \in Seq(V) /\ Len(Append(q, a[n])) = n + 1
  BY <1>2, <1>3
<1>7. ASSUME NEW k \in 1 .. n + 1 PROVE Append(q, a[n])[k] = r[k]
  <2>1. CASE k = n + 1
    BY <1>2, <1>3, <1>5, <2>1
  <2>2. CASE k # n + 1
    <3>1. k \in 1 .. n
      BY <2>2
    <3> QED BY <1>2, <1>3, <1>5, <3>1
  <2> QED BY <2>1, <2>2
<1>8. Append(q, a[n]) = r
  BY <1>4, <1>6, <1>7
<1> QED BY <1>8 DEF q, r

\* The blocks that the dump shows of a section are those that its table holds.
LEMMA BlocksAre ==
  ASSUME IsFile(file), NEW s, s.raw \in Nat, s.size \in Nat
  PROVE  RelocRows(file, s, s.raw) = BlocksOf(s)
<1> DEFINE p == s.raw
           z == s.size
           N == Nat
           blk == [x \in N |-> Field(file, x, "block")]
           a == CHOOSE At0 : At0 = [n \in 0 .. z |-> IF n = 0 THEN p ELSE NextBlock(file, At0[n - 1])]
           S == {n \in DOMAIN a : a[n] - p < z /\ Field(file, a[n], "block") # 0}
           B == CHOOSE Bl : Bl = [n \in 0 .. z |->
                  IF n = 0 THEN [rows |-> << >>, next |-> p]
                  ELSE LET b == Bl[n - 1] IN
                       IF b.next >= p + z \/ Field(file, b.next, "block") = 0 THEN b
                       ELSE [rows |-> Append(b.rows, b.next), next |-> b.next + Field(file, b.next, "block")]]
<1>1. RelocRows(file, s, s.raw) = [k \in 1 .. Cardinality(S) |-> a[k - 1]]
  BY DEF RelocRows
<1>2. BlocksOf(s) = B[z].rows
  BY DEF BlocksOf
<1>3. \A x : Field(file, x, "block") \in Nat
  BY DEF IsFile, Numbered, Field, Has
<1>4. blk \in [Nat -> Nat] /\ \A x \in Nat : blk[x] = Field(file, x, "block")
  BY <1>3
<1>5. p \in Nat /\ z \in Nat
  OBVIOUS
<1> HIDE DEF blk, p, z, N
\* The places.
<1>6. PICK c : IsChain(c, p, z, blk)
  BY <1>4, <1>5, ChainExists
<1>7. c = [n \in 0 .. z |-> IF n = 0 THEN p ELSE NextBlock(file, c[n - 1])]
  <2>1. Chain(c, p, z, blk)
    BY <1>4, <1>5, <1>6, ChainExists
  <2>2. \A n \in 0 .. z : n # 0 => n - 1 \in 0 .. z
    BY <1>5
  <2>3. \A n \in 0 .. z : n # 0 => c[n - 1] + blk[c[n - 1]] = NextBlock(file, c[n - 1])
    BY <1>4, <2>1, <2>2 DEF Chain, NextBlock
  <2> QED BY <1>6, <2>3 DEF IsChain
<1>8. a = [n \in 0 .. z |-> IF n = 0 THEN p ELSE NextBlock(file, a[n - 1])]
  BY <1>7
<1> HIDE DEF a
<1>9. Chain(a, p, z, blk)
  <2>1. AgreeOn(a, c, 0, z)
    <3>1. 0 \in Int /\ z \in Int /\ 0 \in 0 .. z /\ \A n \in 0 + 1 .. z : n \in 0 .. z /\ n # 0
      BY <1>5
    <3>2. a[0] = c[0]
      BY <1>7, <1>8, <3>1
    <3>3. \A n \in 0 + 1 .. z : a[n] = NextBlock(file, a[n - 1])
      BY <1>8, <3>1
    <3>4. \A n \in 0 + 1 .. z : c[n] = NextBlock(file, c[n - 1])
      BY <1>7, <3>1
    <3>5. StayAlike(a, c, 0, z)
      BY <3>2, <3>3, <3>4 DEF StayAlike
    <3> QED BY <3>1, <3>5, FollowAlike
  <2>2. a = [n \in 0 .. z |-> a[n]] /\ c = [n \in 0 .. z |-> c[n]]
    BY <1>7, <1>8
  <2>3. a = c
    BY <2>1, <2>2 DEF AgreeOn
  <2> QED BY <1>4, <1>5, <1>6, <2>3, ChainExists
<1>10. \A n \in 0 .. z : a[n] \in Nat /\ Field(file, a[n], "block") = blk[a[n]]
  BY <1>4, <1>9 DEF Chain
<1>11. S = ShownPlaces(a, p, z, blk)
  <2>1. DOMAIN a = 0 .. z
    BY <1>8
  <2> QED BY <1>10, <2>1 DEF ShownPlaces
<1> HIDE DEF S
<1>12. PICK m \in 0 .. z : /\ \A n \in 0 .. z : n \in S <=> n < m
                           /\ Cardinality(S) = m
  BY <1>4, <1>5, <1>9, <1>11, ShownFirst
<1>13. \A n \in 0 .. z : n < m <=> a[n] < p + z /\ Field(file, a[n], "block") # 0
  <2>1. \A n \in 0 .. z : n < m <=> a[n] - p < z /\ Field(file, a[n], "block") # 0
    BY <1>10, <1>11, <1>12 DEF ShownPlaces
  <2>2. \A n \in 0 .. z : a[n] - p < z <=> a[n] < p + z
    BY <1>5, <1>10
  <2> QED BY <2>1, <2>2
\* The rows so far, and where the next block would be.
<1> DEFINE upTo(n) == IF n < m THEN n ELSE m
           C == [n \in 0 .. z |-> [rows |-> [k \in 1 .. upTo(n) |-> a[k - 1]], next |-> a[upTo(n)]]]
           G(Bl) == [n \in 0 .. z |->
                  IF n = 0 THEN [rows |-> << >>, next |-> p]
                  ELSE LET b == Bl[n - 1] IN
                       IF b.next >= p + z \/ Field(file, b.next, "block") = 0 THEN b
                       ELSE [rows |-> Append(b.rows, b.next), next |-> b.next + Field(file, b.next, "block")]]
<1>14. ASSUME NEW n \in 0 .. z
       PROVE  C[n] = IF n = 0 THEN [rows |-> << >>, next |-> p]
                     ELSE IF C[n - 1].next >= p + z \/ Field(file, C[n - 1].next, "block") = 0 THEN C[n - 1]
                     ELSE [rows |-> Append(C[n - 1].rows, C[n - 1].next),
                           next |-> C[n - 1].next + Field(file, C[n - 1].next, "block")]
  <2>1. CASE n = 0
    <3>1. upTo(n) = 0
      BY <1>12, <2>1
    <3>2. [k \in 1 .. 0 |-> a[k - 1]] = << >>
      OBVIOUS
    <3>3. a[0] = p
      BY <1>9 DEF Chain
    <3>4. C[n] = [rows |-> [k \in 1 .. upTo(n) |-> a[k - 1]], next |-> a[upTo(n)]]
      OBVIOUS
    <3> HIDE DEF C
    <3> QED BY <2>1, <3>1, <3>2, <3>3, <3>4
  <2>2. CASE n # 0 /\ n <= m
    <3>1. n - 1 \in 0 .. z /\ n - 1 < m /\ (n - 1) + 1 = n /\ n \in 1 .. z /\ n - 1 \in Nat
      BY <1>5, <2>2
    <3>2. upTo(n - 1) = n - 1 /\ upTo(n) = n
      BY <1>5, <2>2, <3>1
    <3>3. C[n - 1] = [rows |-> [k \in 1 .. n - 1 |-> a[k - 1]], next |-> a[n - 1]]
      BY <3>1, <3>2
    <3>4. C[n] = [rows |-> [k \in 1 .. n |-> a[k - 1]], next |-> a[n]]
      BY <3>2
    <3> HIDE DEF C, B, G, upTo
    <3>5. ~(a[n - 1] >= p + z \/ Field(file, a[n - 1], "block") = 0)
      BY <1>5, <1>10, <1>13, <3>1
    <3>6. a[n] = a[n - 1] + Field(file, a[n - 1], "block")
      BY <1>9, <1>10, <3>1 DEF Chain
    <3>7. Append([k \in 1 .. n - 1 |-> a[k - 1]], a[n - 1]) = [k \in 1 .. n |-> a[k - 1]]
      BY <3>1, OneMorePlace
    <3> DEFINE q == [k \in 1 .. n - 1 |-> a[k - 1]]
               r == [k \in 1 .. n |-> a[k - 1]]
    <3>8. Append(q, a[n - 1]) = r /\ C[n - 1] = [rows |-> q, next |-> a[n - 1]] /\ C[n] = [rows |-> r, next |-> a[n]]
      BY <3>3, <3>4, <3>7
    <3> HIDE DEF q, r
    <3>9. C[n - 1].rows = q /\ C[n - 1].next = a[n - 1]
      BY <3>8
    <3>10. C[n] = [rows |-> Append(C[n - 1].rows, C[n - 1].next),
                   next |-> C[n - 1].next + Field(file, C[n - 1].next, "block")]
      BY <3>6, <3>8, <3>9
    <3> QED BY <2>2, <3>5, <3>9, <3>10
  <2>3. CASE n # 0 /\ ~(n <= m)
    <3>1. n - 1 \in 0 .. z /\ upTo(n - 1) = m /\ upTo(n) = m /\ ~(m < m)
      BY <1>5, <2>3
    <3>2. C[n] = C[n - 1] /\ C[n - 1].next = a[m]
      BY <3>1
    <3>3. a[m] >= p + z \/ Field(file, a[m], "block") = 0
      BY <1>5, <1>10, <1>12, <1>13, <3>1
    <3> HIDE DEF C
    <3> QED BY <2>3, <3>2, <3>3
  <2> QED BY <1>12, <2>1, <2>2, <2>3
<1>15. C = [n \in 0 .. z |-> C[n]]
  OBVIOUS
<1>16. z \in 0 .. z /\ upTo(z) = m
  BY <1>5, <1>12
<1>17. C[z].rows = [k \in 1 .. m |-> a[k - 1]]
  BY <1>16
<1> HIDE DEF C
<1>18. C = G(C)
  BY <1>14, <1>15
<1>19. B = G(B)
  BY <1>18
<1>20. AgreeOn(B, C, 0, z)
  <2>1. 0 \in Int /\ z \in Int /\ 0 \in 0 .. z /\ \A n \in 0 + 1 .. z : n \in 0 .. z /\ n # 0
    BY <1>5
  <2> DEFINE step(b) == IF b.next >= p + z \/ Field(file, b.next, "block") = 0 THEN b
                        ELSE [rows |-> Append(b.rows, b.next), next |-> b.next + Field(file, b.next, "block")]
  <2>2. ASSUME NEW Bl, Bl = G(Bl)
        PROVE  Bl[0] = [rows |-> << >>, next |-> p] /\ \A n \in 0 + 1 .. z : Bl[n] = step(Bl[n - 1])
    BY <2>1, <2>2
  <2> HIDE DEF step, B, G
  <2>3. StayAlike(B, C, 0, z)
    BY <1>18, <1>19, <2>2 DEF StayAlike
  <2> QED BY <2>1, <2>3, FollowAlike
<1> HIDE DEF B
<1>21. B[z] = C[z]
  BY <1>16, <1>20 DEF AgreeOn
<1> QED BY <1>1, <1>2, <1>12, <1>17, <1>21
\* What is asked of a file: a section of the name .reloc is the one of the
\* directory.
OneTable(f) == sectionhdrbyname(f, RELOC) \in {Null, sectionhdrbyRVA(f, f.dd[ENTRY_BASERELOC].vaddr)}

\* A section that is found is one of the headers.
LEMMA SectionFound ==
  ASSUME NEW f, NEW v, sectionhdrbyRVA(f, v) # Null
  PROVE  \E i \in DOMAIN f.shdr : sectionhdrbyRVA(f, v) = f.shdr[i]
<1>1. PICK S : sectionhdrbyRVA(f, v) = FirstSection(f, S)
  BY DEF sectionhdrbyRVA
<1>2. PICK k : FirstSection(f, S) = sectionhdrbyindex(f, k)
  BY <1>1 DEF FirstSection
<1>3. k + 1 \in DOMAIN f.shdr /\ sectionhdrbyindex(f, k) = f.shdr[k + 1]
  BY <1>1, <1>2 DEF sectionhdrbyindex
<1> QED BY <1>1, <1>2, <1>3

LEMMA RelocsFollow == ASSUME IInv, OneTable(file) PROVE RelocsInStep
<1> DEFINE v == file.dd[ENTRY_BASERELOC].vaddr
           s == sectionhdrbyRVA(file, v)
           named == chunkbyname(file, RELOC)
           t == IF named # Null THEN sectionhdrbyname(file, RELOC) ELSE sectionhdrbyentry(file, ENTRY_BASERELOC)
           p == IF named # Null THEN named ELSE chunkbyentry(file, ENTRY_BASERELOC)
<1> SUFFICES ASSUME "relocs" \in DOMAIN report, report.relocs # << >>, s # Null, s.vaddr = v
             PROVE  report.relocs = BlocksOf(s)
  BY DEF RelocsInStep
<1>1. report.relocs = IF p = Null THEN << >> ELSE RelocRows(file, t, p)
  BY DEF IInv, TablesShown, dump_reloc
<1>2. p # Null /\ report.relocs = RelocRows(file, t, p)
  BY <1>1
<1>3. IsFile(file) /\ s.vaddr \in Nat /\ s.raw \in Nat /\ s.size \in Nat
  BY SectionFound DEF IInv, ActionsCounted, IsFile, Numbered
<1>4. t = s /\ p = s.raw
  <2>1. CASE named # Null
    <3>1. sectionhdrbyname(file, RELOC) # Null
      BY <2>1 DEF chunkbyname, ChunkOf
    <3>2. t = s
      BY <2>1, <3>1 DEF OneTable
    <3>3. p = s.raw
      BY <2>1, <3>1, <3>2 DEF chunkbyname, ChunkOf, getp
    <3> QED BY <3>2, <3>3
  <2>2. CASE named = Null
    <3>1. /\ datadirbyentry(file, ENTRY_BASERELOC) = file.dd[ENTRY_BASERELOC]
          /\ datadirbyentry(file, ENTRY_BASERELOC) # Null
          /\ p = chunkbyRVA(file, ENTRY_BASERELOC, v, EntrySize(file, ENTRY_BASERELOC))
      BY <1>2, <2>2, FoundOfMachine DEF chunkbyentry
    <3>2. t = s
      BY <2>2, <3>1 DEF sectionhdrbyentry
    <3>3. ENTRY_BASERELOC # ENTRY_UNKNOWN
      BY DEF ENTRY_BASERELOC, ENTRY_UNKNOWN
    <3>4. p = getp(file, convert2va(s, v), EntrySize(file, ENTRY_BASERELOC))
      BY <2>2, <3>1, <3>2, <3>3 DEF chunkbyRVA
    <3>5. p = convert2va(s, v)
      BY <1>2, <3>4 DEF getp
    <3>6. convert2va(s, v) = s.raw
      BY <1>3 DEF convert2va
    <3> QED BY <3>2, <3>5, <3>6
  <2> QED BY <2>1, <2>2
<1> QED BY <1>2, <1>3, <1>4, BlocksAre

-----------------------------------------------------------------------------
(***************************************************************************)
(* Unwind codes.                                                           *)
(***************************************************************************)
\* Places up to a length that follow each other by the slots of what they hold.
Hops(h, n, w) ==
  /\ h \in [1 .. n -> Nat \ {0}] /\ h[1] = 1
  /\ \A k \in 2 .. n : h[k] = IF h[k - 1] > n THEN h[k - 1] ELSE h[k - 1] + w[h[k - 1]]

LEMMA HopsExist ==
  ASSUME NEW n \in Nat, n > 0, NEW w \in [1 .. n -> 1 .. 3]
  PROVE  \E h : Hops(h, n, w)
<1> DEFINE N == Nat \ {0}
           move == [x \in N |-> IF x > n THEN x ELSE x + w[x]]
           step == [k \in 1 + 1 .. n |-> move]
<1>1. 1 \in N /\ 1 \in Int /\ n \in Int /\ 1 <= n
  OBVIOUS
<1>2. move \in [N -> N]
  <2>1. ASSUME NEW x \in N PROVE (IF x > n THEN x ELSE x + w[x]) \in N
    <3>1. ~(x > n) => w[x] \in 1 .. 3
      OBVIOUS
    <3> QED BY <3>1
  <2> QED BY <2>1
<1>3. \A x \in N : move[x] = IF x > n THEN x ELSE x + w[x]
  OBVIOUS
<1> HIDE DEF move, N
<1>4. step \in [1 + 1 .. n -> [N -> N]] /\ \A k \in 1 + 1 .. n : step[k] = move
  BY <1>2
<1> HIDE DEF step
<1>5. PICK h : Follows(h, 1, n, N, 1, step)
  BY <1>1, <1>4, FollowsExists
<1>6. \A k \in 2 .. n : k \in 1 + 1 .. n /\ k - 1 \in 1 .. n
  OBVIOUS
<1>7. Hops(h, n, w)
  BY <1>3, <1>4, <1>5, <1>6 DEF Follows, Hops, N
<1> QED BY <1>7

\* Behind a place within the length are greater ones only.
LEMMA HopsRise ==
  ASSUME NEW n \in Nat, NEW w \in [1 .. n -> 1 .. 3], NEW h, Hops(h, n, w),
         NEW j \in 1 .. n, h[j] <= n, NEW k \in j + 1 .. n
  PROVE  h[k] > h[j]
<1> DEFINE T == {i \in j + 1 .. n : h[i] > h[j]}
<1>1. \A i \in 1 .. n : h[i] \in Nat /\ h[i] > 0
  BY DEF Hops
<1>2. ASSUME NEW i \in j .. n - 1
      PROVE  h[i + 1] = IF h[i] > n THEN h[i] ELSE h[i] + w[h[i]]
  <2>1. i + 1 \in 2 .. n /\ (i + 1) - 1 = i
    OBVIOUS
  <2> QED BY <2>1 DEF Hops
<1>3. ASSUME NEW i \in j .. n - 1 PROVE h[i + 1] >= h[i] /\ (h[i] <= n => h[i + 1] > h[i])
  <2>1. i \in 1 .. n /\ i + 1 \in 1 .. n
    OBVIOUS
  <2>2. h[i] <= n => w[h[i]] \in 1 .. 3
    BY <1>1, <2>1
  <2> QED BY <1>1, <1>2, <2>1, <2>2
<1>4. j + 1 <= n => j + 1 \in T
  <2>1. j + 1 <= n => j \in j .. n - 1 /\ j + 1 \in j + 1 .. n
    OBVIOUS
  <2> QED BY <1>3, <2>1
<1>5. ASSUME NEW i \in j + 1 .. n - 1, i \in T PROVE i + 1 \in T
  <2>1. i \in j .. n - 1 /\ i + 1 \in j + 1 .. n /\ i \in 1 .. n /\ i + 1 \in 1 .. n
    OBVIOUS
  <2> QED BY <1>1, <1>3, <1>5, <2>1
<1> HIDE DEF T
<1>6. j + 1 \in Int /\ n \in Int
  OBVIOUS
<1>7. j + 1 .. n \subseteq T
  BY <1>4, <1>5, <1>6, Upwards
<1> QED BY <1>7 DEF T

\* Two walks that take the same slots but where one takes three meet up to there.
Within(h, n) == {h[k] : k \in 1 .. n} \intersect 1 .. n
LEMMA HopsMeet ==
  ASSUME NEW n \in Nat, n > 0, NEW w \in [1 .. n -> 1 .. 3], NEW u \in [1 .. n -> 1 .. 3],
         NEW h, Hops(h, n, w), NEW g, Hops(g, n, u),
         NEW far, far = {i \in Within(g, n) : u[i] = 3},
         \A i \in Within(g, n) : u[i] # 3 => w[i] = u[i]
  PROVE  {i \in Within(h, n) : \A j \in far : i <= j} = {i \in Within(g, n) : \A j \in far : i <= j}
<1>1. \A i \in 1 .. n : h[i] \in Nat /\ h[i] > 0 /\ g[i] \in Nat /\ g[i] > 0
  BY DEF Hops
<1>2. 1 \in 1 .. n /\ h[1] = g[1]
  BY DEF Hops
\* While nothing of three slots has been met, the walks are at the same place.
<1>3. ASSUME NEW m \in 1 .. n, \A k \in 1 .. m - 1 : g[k] \notin far
      PROVE  \A k \in 1 .. m : h[k] = g[k]
  <2> DEFINE T == {k \in 1 .. m : h[k] = g[k]}
  <2>1. 1 <= m => 1 \in T
    BY <1>2
  <2>2. ASSUME NEW k \in 1 .. m - 1, k \in T PROVE k + 1 \in T
    <3>1. k + 1 \in 1 .. m /\ k + 1 \in 2 .. n /\ (k + 1) - 1 = k /\ k \in 1 .. n
      OBVIOUS
    <3>2. /\ h[k + 1] = IF h[k] > n THEN h[k] ELSE h[k] + w[h[k]]
          /\ g[k + 1] = IF g[k] > n THEN g[k] ELSE g[k] + u[g[k]]
      BY <3>1 DEF Hops
    <3>3. h[k] = g[k]
      BY <2>2
    <3>4. ~(g[k] > n) => w[g[k]] = u[g[k]]
      <4>1. ~(g[k] > n) => g[k] \in Within(g, n)
        BY <1>1, <3>1 DEF Within
      <4>2. g[k] \notin far
        BY <1>3
      <4> QED BY <4>1, <4>2
    <3>5. h[k + 1] = g[k + 1]
      BY <3>2, <3>3, <3>4
    <3> QED BY <3>1, <3>5
  <2> HIDE DEF T
  <2>3. 1 \in Int /\ m \in Int
    OBVIOUS
  <2>4. 1 .. m \subseteq T
    BY <2>1, <2>2, <2>3, Upwards
  <2> QED BY <2>4 DEF T
<1> DEFINE F == {k \in 1 .. n : g[k] \in far}
<1>4. CASE F = {}
  <2>1. n \in 1 .. n /\ \A k \in 1 .. n - 1 : k \in 1 .. n
    OBVIOUS
  <2>2. \A k \in 1 .. n : h[k] = g[k]
    BY <1>3, <1>4, <2>1
  <2>3. Within(h, n) = Within(g, n)
    BY <2>2 DEF Within
  <2> QED BY <2>3
<1>5. CASE F # {}
  <2>1. F \subseteq Nat
    OBVIOUS
  <2>2. PICK m \in F : \A k \in F : m <= k
    BY <1>5, <2>1, LeastNatural
  <2>3. m \in 1 .. n /\ g[m] \in far /\ g[m] \in 1 .. n
    BY DEF Within
  <2>4. \A k \in 1 .. m - 1 : g[k] \notin far
    <3>1. \A k \in 1 .. m - 1 : k \in 1 .. n /\ ~(m <= k)
      BY <2>3
    <3> QED BY <2>2, <3>1
  <2>5. \A k \in 1 .. m : h[k] = g[k]
    BY <1>3, <2>3, <2>4
  <2>6. h[m] = g[m]
    BY <2>3, <2>5
  <2>7. ASSUME NEW k \in 1 .. n PROVE k \in 1 .. m \/ (h[k] > g[m] /\ g[k] > g[m])
    <3>1. k \in 1 .. m \/ k \in m + 1 .. n
      BY <2>3
    <3>2. CASE k \in m + 1 .. n
      <4>1. h[k] > h[m]
        BY <2>3, <2>6, <3>2, HopsRise
      <4>2. g[k] > g[m]
        BY <2>3, <3>2, HopsRise
      <4> QED BY <2>6, <4>1, <4>2
    <3> QED BY <3>1, <3>2
  <2>8. \A j \in far : g[m] <= j
    <3>1. ASSUME NEW j \in far PROVE g[m] <= j
      <4>1. PICK k \in 1 .. n : j = g[k]
        BY DEF Within
      <4>2. m <= k
        BY <2>2, <4>1
      <4>3. CASE m = k
        BY <1>1, <4>1, <4>3
      <4>4. CASE m # k
        <5>1. k \notin 1 .. m
          BY <2>3, <4>2, <4>4
        <5> QED BY <1>1, <2>3, <2>7, <4>1, <5>1
      <4> QED BY <4>3, <4>4
    <3> QED BY <3>1
  <2>9. ASSUME NEW i \in Nat PROVE (\A j \in far : i <= j) <=> i <= g[m]
    <3>1. far \subseteq Nat
      BY DEF Within
    <3> QED BY <2>3, <2>8, <3>1
  <2> HIDE DEF F
  <2>10. ASSUME NEW i \in Nat, i <= g[m] PROVE i \in Within(h, n) <=> i \in Within(g, n)
    <3>1. ASSUME NEW k \in 1 .. n, h[k] = i PROVE g[k] = i
      <4>1. ~(h[k] > g[m])
        BY <1>1, <2>3, <2>10, <3>1
      <4> QED BY <2>5, <2>7, <3>1, <4>1
    <3>2. ASSUME NEW k \in 1 .. n, g[k] = i PROVE h[k] = i
      <4>1. ~(g[k] > g[m])
        BY <1>1, <2>3, <2>10, <3>2
      <4> QED BY <2>5, <2>7, <3>2, <4>1
    <3> QED BY <3>1, <3>2 DEF Within
  <2>11. \A x : x \in Within(h, n) \/ x \in Within(g, n) => x \in Nat
    BY DEF Within
  <2> QED BY <2>9, <2>10, <2>11
<1> QED BY <1>4, <1>5
\* A list of codes, and the walk that the dump and the operations take over it.
Slots(codes)     == [i \in 1 .. Len(codes) |-> SlotsOf(codes[i])]
TrulySlots(codes) == [i \in 1 .. Len(codes) |-> TrueSlots(codes[i])]

LEMMA SlotsAre ==
  ASSUME NEW codes
  PROVE  /\ Slots(codes) \in [1 .. Len(codes) -> 1 .. 3]
         /\ TrulySlots(codes) \in [1 .. Len(codes) -> 1 .. 3]
<1>1. \A c : SlotsOf(c) \in 1 .. 3
  BY DEF SlotsOf
<1>2. \A c : TrueSlots(c) \in 1 .. 3
  BY DEF TrueSlots
<1> QED BY <1>1, <1>2 DEF Slots, TrulySlots

LEMMA CodesHop ==
  ASSUME NEW codes, Len(codes) \in Nat, Len(codes) > 0, DOMAIN codes = 1 .. Len(codes)
  PROVE  \E h : Hops(h, Len(codes), Slots(codes)) /\ Codes(codes) = Within(h, Len(codes))
<1> DEFINE n == Len(codes)
           w == Slots(codes)
           E(f) == [k \in 1 .. n |->
                      IF k = 1 THEN 1 ELSE IF f[k - 1] > n THEN f[k - 1] ELSE f[k - 1] + SlotsOf(codes[f[k - 1]])]
           a == CHOOSE f : f = E(f)
<1>1. Codes(codes) = {a[k] : k \in DOMAIN a} \intersect DOMAIN codes
  BY DEF Codes
<1>2. w \in [1 .. n -> 1 .. 3] /\ \A i \in 1 .. n : w[i] = SlotsOf(codes[i])
  BY SlotsAre DEF Slots
<1> HIDE DEF w
<1>3. PICK h : Hops(h, n, w)
  BY <1>2, HopsExist
<1>4. \A k \in 1 .. n : h[k] = E(h)[k]
  <2>1. ASSUME NEW k \in 1 .. n, k # 1
        PROVE  h[k] = IF h[k - 1] > n THEN h[k - 1] ELSE h[k - 1] + SlotsOf(codes[h[k - 1]])
    <3>1. k \in 2 .. n /\ k - 1 \in 1 .. n
      BY <2>1
    <3>2. h[k - 1] \in Nat \ {0}
      BY <1>3, <3>1 DEF Hops
    <3>3. ~(h[k - 1] > n) => w[h[k - 1]] = SlotsOf(codes[h[k - 1]])
      BY <1>2, <3>2
    <3> QED BY <1>3, <3>1, <3>3 DEF Hops
  <2>2. h[1] = 1
    BY <1>3 DEF Hops
  <2> QED BY <2>1, <2>2
<1>5. h = E(h)
  <2>1. h = [k \in 1 .. n |-> h[k]]
    BY <1>3 DEF Hops
  <2> QED BY <1>4, <2>1
<1>6. a = E(a)
  BY <1>5
<1> HIDE DEF a
<1>7. a = h
  <2>1. 1 \in Int /\ n \in Int /\ 1 \in 1 .. n /\ \A k \in 1 + 1 .. n : k \in 1 .. n /\ k # 1
    OBVIOUS
  <2> DEFINE next(x) == IF x > n THEN x ELSE x + SlotsOf(codes[x])
  <2>2. ASSUME NEW f, f = E(f) PROVE f[1] = 1 /\ \A k \in 1 + 1 .. n : f[k] = next(f[k - 1])
    BY <2>1, <2>2
  <2> HIDE DEF next
  <2>3. StayAlike(a, h, 1, n)
    BY <1>5, <1>6, <2>2 DEF StayAlike
  <2>4. AgreeOn(a, h, 1, n)
    BY <2>1, <2>3, FollowAlike
  <2>5. a = [k \in 1 .. n |-> a[k]] /\ h = [k \in 1 .. n |-> h[k]]
    BY <1>5, <1>6
  <2> QED BY <2>4, <2>5 DEF AgreeOn
<1>8. DOMAIN h = 1 .. n
  BY <1>3 DEF Hops
<1>9. Codes(codes) = Within(h, n)
  BY <1>1, <1>7, <1>8 DEF Within
<1> QED BY <1>3, <1>9 DEF w

LEMMA OperationsHop ==
  ASSUME NEW codes, Len(codes) \in Nat, Len(codes) > 0, DOMAIN codes = 1 .. Len(codes)
  PROVE  \E h : Hops(h, Len(codes), TrulySlots(codes)) /\ Operations(codes) = Within(h, Len(codes))
<1> DEFINE n == Len(codes)
           w == TrulySlots(codes)
           E(f) == [k \in 1 .. n |->
                      IF k = 1 THEN 1 ELSE IF f[k - 1] > n THEN f[k - 1] ELSE f[k - 1] + TrueSlots(codes[f[k - 1]])]
           a == CHOOSE f : f = E(f)
<1>1. Operations(codes) = {a[k] : k \in 1 .. n} \intersect DOMAIN codes
  BY DEF Operations
<1>2. w \in [1 .. n -> 1 .. 3] /\ \A i \in 1 .. n : w[i] = TrueSlots(codes[i])
  BY SlotsAre DEF TrulySlots
<1> HIDE DEF w
<1>3. PICK h : Hops(h, n, w)
  BY <1>2, HopsExist
<1>4. \A k \in 1 .. n : h[k] = E(h)[k]
  <2>1. ASSUME NEW k \in 1 .. n, k # 1
        PROVE  h[k] = IF h[k - 1] > n THEN h[k - 1] ELSE h[k - 1] + TrueSlots(codes[h[k - 1]])
    <3>1. k \in 2 .. n /\ k - 1 \in 1 .. n
      BY <2>1
    <3>2. h[k - 1] \in Nat \ {0}
      BY <1>3, <3>1 DEF Hops
    <3>3. ~(h[k - 1] > n) => w[h[k - 1]] = TrueSlots(codes[h[k - 1]])
      BY <1>2, <3>2
    <3> QED BY <1>3, <3>1, <3>3 DEF Hops
  <2>2. h[1] = 1
    BY <1>3 DEF Hops
  <2> QED BY <2>1, <2>2
<1>5. h = E(h)
  <2>1. h = [k \in 1 .. n |-> h[k]]
    BY <1>3 DEF Hops
  <2> QED BY <1>4, <2>1
<1>6. a = E(a)
  BY <1>5
<1> HIDE DEF a
<1>7. \A k \in 1 .. n : a[k] = h[k]
  <2>1. 1 \in Int /\ n \in Int /\ 1 \in 1 .. n /\ \A k \in 1 + 1 .. n : k \in 1 .. n /\ k # 1
    OBVIOUS
  <2> DEFINE next(x) == IF x > n THEN x ELSE x + TrueSlots(codes[x])
  <2>2. ASSUME NEW f, f = E(f) PROVE f[1] = 1 /\ \A k \in 1 + 1 .. n : f[k] = next(f[k - 1])
    BY <2>1, <2>2
  <2> HIDE DEF next
  <2>3. StayAlike(a, h, 1, n)
    BY <1>5, <1>6, <2>2 DEF StayAlike
  <2>4. AgreeOn(a, h, 1, n)
    BY <2>1, <2>3, FollowAlike
  <2> QED BY <2>4 DEF AgreeOn
<1>8. Operations(codes) = Within(h, n)
  BY <1>1, <1>7 DEF Within
<1> QED BY <1>3, <1>8 DEF w

\* What is asked of unwind codes: an ALLOC_LARGE says one of the two sizes of its
\* operand.
KnownSizes(codes) == \A i \in Operations(codes) : codes[i].op = ALLOC_LARGE => codes[i].info \in {0, 1}
KnownCodes(f) == \A p : Has(f, p, "codes") => KnownSizes(f.body[p].codes)

\* The operations that the dump meets, up to the first of three slots.
LEMMA CodesMeet ==
  ASSUME NEW codes, codes \in Seq({codes[k] : k \in DOMAIN codes}), KnownSizes(codes),
         NEW far, far = {i \in Operations(codes) : TrueSlots(codes[i]) = 3}
  PROVE  {i \in Codes(codes) : \A j \in far : i <= j} = {i \in Operations(codes) : \A j \in far : i <= j}
<1> DEFINE n == Len(codes)
<1>1. n \in Nat /\ DOMAIN codes = 1 .. n
  OBVIOUS
<1>2. CASE n = 0
  <2>1. DOMAIN codes = {}
    BY <1>1, <1>2
  <2>2. Codes(codes) = {} /\ Operations(codes) = {}
    BY <2>1 DEF Codes, Operations
  <2> QED BY <2>2
<1>3. CASE n > 0
  <2>1. PICK h : Hops(h, n, Slots(codes)) /\ Codes(codes) = Within(h, n)
    BY <1>1, <1>3, CodesHop
  <2>2. PICK g : Hops(g, n, TrulySlots(codes)) /\ Operations(codes) = Within(g, n)
    BY <1>1, <1>3, OperationsHop
  <2>3. /\ Slots(codes) \in [1 .. n -> 1 .. 3] /\ TrulySlots(codes) \in [1 .. n -> 1 .. 3]
        /\ \A i \in 1 .. n : Slots(codes)[i] = SlotsOf(codes[i]) /\ TrulySlots(codes)[i] = TrueSlots(codes[i])
    BY SlotsAre DEF Slots, TrulySlots
  <2>4. ASSUME NEW i \in Within(g, n), TrulySlots(codes)[i] # 3 PROVE Slots(codes)[i] = TrulySlots(codes)[i]
    <3>1. i \in 1 .. n /\ (codes[i].op = ALLOC_LARGE => codes[i].info \in {0, 1})
      BY <2>2 DEF Within, KnownSizes
    <3>2. TrueSlots(codes[i]) # 3 => SlotsOf(codes[i]) = TrueSlots(codes[i])
      BY <3>1 DEF SlotsOf, TrueSlots, SAVE_NONVOL_FAR, SAVE_XMM128_FAR, ALLOC_LARGE, SAVE_NONVOL, SAVE_XMM128
    <3> QED BY <2>3, <2>4, <3>1, <3>2
  <2>5. far = {i \in Within(g, n) : TrulySlots(codes)[i] = 3}
    BY <2>2, <2>3 DEF Within
  <2> HIDE DEF n
  <2>6. {i \in Within(h, n) : \A j \in far : i <= j} = {i \in Within(g, n) : \A j \in far : i <= j}
    <3> DEFINE w == Slots(codes)
               u == TrulySlots(codes)
    <3>1. /\ w \in [1 .. n -> 1 .. 3] /\ u \in [1 .. n -> 1 .. 3] /\ Hops(h, n, w) /\ Hops(g, n, u)
          /\ far = {i \in Within(g, n) : u[i] = 3}
      BY <2>1, <2>2, <2>3, <2>5
    <3>2. \A i \in Within(g, n) : u[i] # 3 => w[i] = u[i]
      BY <2>4
    <3> HIDE DEF w, u
    <3> QED BY <1>1, <1>3, <3>1, <3>2, HopsMeet
  <2> QED BY <2>1, <2>2, <2>6
<1> QED BY <1>1, <1>2, <1>3

LEMMA CodesFollow == ASSUME IInv, KnownCodes(file) PROVE CodesInStep
<1> DEFINE Shown(p)  == report.runtime[p]
           Stored(p) == file.body[Shown(p).info].codes
           Ops(p)    == Operations(Stored(p))
           Far(p)    == {i \in Ops(p) : TrueSlots(Stored(p)[i]) = 3}
<1> SUFFICES ASSUME "runtime" \in DOMAIN report, NEW p \in DOMAIN report.runtime,
                    Shown(p).info # Null, Has(file, Shown(p).info, "codes")
             PROVE  {i \in Shown(p).codes : \A j \in Far(p) : i <= j} = {i \in Ops(p) : \A j \in Far(p) : i <= j}
  BY DEF CodesInStep
<1> DEFINE codes == Stored(p)
           far == Far(p)
           q == Shown(p).info
<1>1. Shown(p) = Runtime(file, p)
  BY DEF IInv, TablesShown, dump_runtime
<1>2. q # Null /\ Has(file, q, "codes") /\ Shown(p).codes = Codes(codes)
  BY <1>1 DEF Runtime
<1>3. codes \in Seq({codes[k] : k \in DOMAIN codes})
  BY <1>2 DEF IInv, ActionsCounted, IsFile, Numbered, Codes0, Has
<1>4. KnownSizes(codes)
  BY <1>2 DEF KnownCodes
<1>5. far = {i \in Operations(codes) : TrueSlots(codes[i]) = 3}
  OBVIOUS
<1> HIDE DEF far, codes
<1>6. {i \in Codes(codes) : \A j \in far : i <= j} = {i \in Operations(codes) : \A j \in far : i <= j}
  BY <1>3, <1>4, <1>5, CodesMeet
<1> QED BY <1>2, <1>6 DEF far, codes

-----------------------------------------------------------------------------
\* What is asked of a file stays so through all actions.
Sound(f) == OneTable(f) /\ KnownCodes(f)
LEMMA StaysSound ==
  ASSUME NEW f, NEW g, SameReads(f, g), Sound(f)
  PROVE  Sound(g)
<1>1. OneTable(g)
  <2>1. g.dd = f.dd
    BY DEF SameReads
  <2> QED BY <2>1, SamePlaces DEF Sound, OneTable
<1>2. KnownCodes(g)
  <2>1. ASSUME NEW p, Has(g, p, "codes") PROVE KnownSizes(g.body[p].codes)
    <3>1. Has(f, p, "codes") /\ Field(g, p, "codes") = Field(f, p, "codes")
      BY <2>1 DEF SameReads
    <3>2. g.body[p].codes = f.body[p].codes
      BY <2>1, <3>1 DEF Field
    <3> QED BY <3>1, <3>2 DEF Sound, KnownCodes
  <2> QED BY <2>1 DEF KnownCodes
<1> QED BY <1>1, <1>2 DEF Sound

\* Relocation blocks, unwind codes and the load configuration are shown as the
\* tables hold them, for tables of any length, if .reloc is the directory's
\* section and allocations say a size that exists: the walks of dump_relocNN,
\* dump_runtimeNN and the dumps of the load configuration do not lose their
\* place.
THEOREM AlwaysTablesInStep ==
  ASSUME \A f \in Files : Sound(f)
  PROVE  Spec => []TablesInStep
<1> DEFINE J == IInv /\ Sound(file)
<1>1. Init => J
  BY InitIInv DEF Init
<1>2. J /\ [Next]_vars => J'
  <2> SUFFICES ASSUME J, [Next]_vars PROVE Sound(file)'
    BY NextKeepsIInv
  <2>1. CASE UNCHANGED file
    BY <2>1
  <2>2. CASE ~UNCHANGED file
    <3>1. ShowSection
      BY <2>2 DEF Next, vars, Open, Dump, DosHeader0, DosStub, NtHeader, SectionHeaders, SectionGroups, Exports,
                  Imports, Config, Debug, Relocs, RuntimeFunctions, Version, Resource, Begin, Turns, VersionTurn,
                  StringTurn, TurnCrash, StringCrash, Crash, VersionEnd, AllVersions, NoSuchSection, NoSection, EndActions
    <3>2. file' = ChangedFile(file, sectionhdrbyname(file, options.actions[action].secname))
      BY <2>2, <3>1 DEF ShowSection
    <3>3. SameReads(file, file')
      BY <3>2, ChangedIsFile DEF IInv, ActionsCounted
    <3> QED BY <3>3, StaysSound
  <2> QED BY <2>1, <2>2
<1>3. J => TablesInStep
  BY ConfigFollows, RelocsFollow, CodesFollow DEF TablesInStep, Sound
<1> QED BY <1>1, <1>2, <1>3, PTL DEF Spec
=============================================================================
