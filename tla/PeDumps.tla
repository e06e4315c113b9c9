------------------------------ MODULE PeDumps ------------------------------
(***************************************************************************)
(* The dumps of readpe.c that read headers and tables.                     *)
(***************************************************************************)
EXTENDS PeFile

\* Headers are shown field by field; -v shows more of them.
DosFields == {"magic", "ss", "sp", "csum", "ip", "cs", "lfarlc", "oemid", "oeminfo", "lfanew"}
DosVerbose == {"cblp", "cp", "crlc", "cparhdr", "minalloc", "maxalloc", "ovno", "res", "res2"}
dump_dosheader(f, verbose) == IF doshdr(f) = Null THEN {} ELSE DosFields \union (IF verbose THEN DosVerbose ELSE {})

\* The bytes between the two headers.
dump_dosstub(f) == IF doshdr(f) = Null THEN Null ELSE getp(f, DosHeader, f.lfanew - DosHeader)

\* Only a file of 32 bits has a base of data.
dump_ntheader(f) ==
  IF nthdr(f) = Null THEN << >> ELSE [machine |-> f.machine, header |-> f.nt, baseofdata |-> isPE32(f)]

\* With hash, the bytes of a section are summed up.
dump_sectionheaders(f, hash) ==
  [i \in SectionsOf(f) |-> [header |-> f.shdr[i + 1], bytes |-> IF hash THEN chunkbyindex(f, i) ELSE Null]]

\* Empty entries are shown with -v only.  The file says how many there are.
dump_sectiongroups(f, verbose) ==
  IF nthdr(f) = Null THEN << >>
  ELSE [i \in {k \in 0 .. f.nt.directories - 1 : verbose \/ f.dd[k].vaddr # 0 \/ f.dd[k].size # 0} |-> f.dd[i]]

Used(f, index) ==
  LET d == datadirbyentry(f, index) IN
  d # Null /\ sectionhdrbyentry(f, index) # Null /\ d.vaddr # 0 /\ d.size # 0

-----------------------------------------------------------------------------
(* Imports.  A descriptor is [name, original, first]; a thunk is           *)
(* [ordinal, at], imported by an ordinal or by the name at an address.     *)

\* Bit 31 of a thunk says how it is imported; in 64 bits it is bit 63, which
\* is not looked at, nor left in the address.
ByOrdinal(f, t) == t.ordinal /\ isPE32(f)
Thunk(f, s, t) ==
  IF ByOrdinal(f, t) THEN [ordinal |-> t.at]
  ELSE [name |-> Text(f, getp(f, convert2va(s, t.at), 4))]
Thunks(f, s, original) ==
  LET width == IF isPE32(f) THEN 4 ELSE 8
      p == getp(f, convert2va(s, original), width)
  IN IF p = Null THEN << >>
     ELSE [k \in 1 .. RunAt(f, p, width, "thunk") |-> Thunk(f, s, f.body[p + width * (k - 1)].thunk)]
Import(f, s, d) == [dll |-> Text(f, getp(f, convert2va(s, d.name), 1)), thunks |-> Thunks(f, s, d.original)]
\* dump_iat32, dump_iat64
dump_iat(f) ==
  LET s == sectionhdrbyentry(f, ENTRY_IMPORT)
      p == chunkbyentry(f, ENTRY_IMPORT)
  IN IF ~Used(f, ENTRY_IMPORT) \/ p = Null THEN << >>
     ELSE [k \in 1 .. RunAt(f, p, ImportDescriptor, "first") |-> Import(f, s, f.body[p + ImportDescriptor * (k - 1)])]

-----------------------------------------------------------------------------
(* Exports.  The directory is [name, functions, names, ordinals], a name   *)
(* and the addresses of three arrays.                                      *)

Word(f, p, k) == f.body[p].words[k]
\* The k-th name stands beside the k-th ordinal and the k-th function.
Export(f, s, d, k) ==
  LET At(vaddr, n) == chunkbyRVA(f, ENTRY_EXPORT, vaddr, n) IN
  [ordinal |-> Word(f, At(d.ordinals, 2 * d.nfunctions), k) + 1,
   vaddr |-> Word(f, At(d.functions, 4 * d.nfunctions), k),
   name |-> Text(f, getp(f, convert2va(s, Word(f, At(d.names, 4 * d.nnames), k)), 1))]
dump_eat(f) ==
  LET p == chunkbyentry(f, ENTRY_EXPORT) IN
  IF ~Used(f, ENTRY_EXPORT) \/ p = Null \/ Field(f, p, "name") = 0 THEN << >>
  ELSE [k \in 1 .. f.body[p].nnames |-> Export(f, sectionhdrbyentry(f, ENTRY_EXPORT), f.body[p], k)]

-----------------------------------------------------------------------------
(* The load configuration: a group of fields is shown if the size that the *)
(* directory says is enough.                                               *)

Thresholds(f) == IF isPE32(f) THEN <<72, 92, 128, 152, 192>> ELSE <<112, 152, 208, 248, 320>>
dump_config(f) ==
  LET p == chunkbyentry(f, ENTRY_LOAD_CONFIG) IN
  IF p = Null THEN {} ELSE {g \in 1 .. 5 : Field(f, p, "size") >= Thresholds(f)[g]}

-----------------------------------------------------------------------------
(* Debug: what the data begin with says how they are shown.                *)

CV_SIGNATURE_NB10 == 808534606
CV_SIGNATURE_RSDS == 1396986706
CvInfo(signature) == CASE signature = CV_SIGNATURE_RSDS -> 24 [] signature = CV_SIGNATURE_NB10 -> 16 [] OTHER -> 0
dump_debug(f) ==
  LET p == chunkbyentry(f, ENTRY_DEBUG)
      vaddr == Field(f, p, "raw")
      signature == dwordbyRVA(f, ENTRY_DEBUG, vaddr)
      info == chunkbyRVA(f, ENTRY_DEBUG, vaddr, CvInfo(signature))
  IN IF p = Null THEN << >>
     ELSE <<vaddr>> \o (IF CvInfo(signature) # 0 /\ info # Null THEN <<[signature |-> signature, pdb |-> Text(f, info)]>> ELSE << >>)

-----------------------------------------------------------------------------
(* Relocations: blocks [page, block] behind each other, read as far as the *)
(* section's size goes, from the section's start or from the directory.    *)

RELOC == ".reloc"
\* Mutant of NextBlock: a block is as long as what follows its header.
NextBlockBehind(f, p) == p + Field(f, p, "block") + BaseRelocation

\* A block of size 0 is not shown, and is looked at until the bytes are counted
\* down; any other one counts its own.
NextBlock(f, p) == p + Field(f, p, "block")
RelocRows(f, s, p) ==
  LET At[n \in 0 .. s.size] == IF n = 0 THEN p ELSE NextBlock(f, At[n - 1])
      shown == {n \in DOMAIN At : At[n] - p < s.size /\ Field(f, At[n], "block") # 0}
  IN [k \in 1 .. Cardinality(shown) |-> At[k - 1]]
\* Where the blocks begin, by section name or else by directory entry.
dump_reloc(f) ==
  LET named == chunkbyname(f, RELOC)
      s == IF named # Null THEN sectionhdrbyname(f, RELOC) ELSE sectionhdrbyentry(f, ENTRY_BASERELOC)
      p == IF named # Null THEN named ELSE chunkbyentry(f, ENTRY_BASERELOC)
  IN IF p = Null THEN << >> ELSE RelocRows(f, s, p)

-----------------------------------------------------------------------------
(* Run-time functions [begin, unwind] and their unwind codes, slots of two *)
(* bytes [op, info]: an operation and the slots of its operand.            *)

UnwindInfo == 6
PUSH_NONVOL == 0
ALLOC_LARGE == 1
ALLOC_SMALL == 2
SAVE_NONVOL == 4
SAVE_NONVOL_FAR == 5
SAVE_XMM128 == 8
SAVE_XMM128_FAR == 9

\* The slots that the dump takes an operation for.
SlotsOf(c) ==
  IF c.op \in {SAVE_NONVOL, SAVE_NONVOL_FAR, SAVE_XMM128, SAVE_XMM128_FAR} \/ (c.op = ALLOC_LARGE /\ c.info = 0)
  THEN 2 ELSE 1
\* The slots shown as operations.
Codes(codes) ==
  LET At[n \in 1 .. Len(codes)] ==
        IF n = 1 THEN 1 ELSE IF At[n - 1] > Len(codes) THEN At[n - 1] ELSE At[n - 1] + SlotsOf(codes[At[n - 1]])
  IN {At[n] : n \in DOMAIN At} \intersect DOMAIN codes
Runtime(f, p) ==
  LET q == chunkbyRVA(f, ENTRY_UNKNOWN, Field(f, p, "unwind"), UnwindInfo) IN
  [begin |-> Field(f, p, "begin"), info |-> q,
   codes |-> IF q # Null /\ Has(f, q, "codes") THEN Codes(f.body[q].codes) ELSE {}]
\* Functions are read from the directory on, over as many bytes as its section
\* has.
dump_runtime(f) ==
  LET s == sectionhdrbyentry(f, ENTRY_EXCEPTION)
      p == chunkbyentry(f, ENTRY_EXCEPTION)
      places == IF p = Null THEN {} ELSE {p + RuntimeFunction * k : k \in 0 .. (s.size - 1) \div RuntimeFunction}
  IN [q \in {x \in places : Field(f, x, "begin") # 0} |-> Runtime(f, q)]
=============================================================================
