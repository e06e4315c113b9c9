------------------------------- MODULE PeFile -------------------------------
(***************************************************************************)
(* A PE file as pecode.c reads it.                                         *)
(*                                                                         *)
(* A file is [size, lfanew, machine, dos, nt, dd, shdr, body]: the number  *)
(* of its bytes, where the NT headers begin, the machine, the fields of    *)
(* the headers that are shown, the data directory, the section headers,    *)
(* and for each file offset where something begins the fields stored       *)
(* there.  Bytes that no file writes are zero, so a field of a place where *)
(* nothing begins is 0.  The variants for 32 and 64 bits differ in the     *)
(* structures only, unless an operator here tests the width.               *)
(***************************************************************************)
EXTENDS Integers, Sequences, FiniteSetsExt

CONSTANT Null   \* a pointer that is NULL

ENTRY_EXPORT == 0
ENTRY_IMPORT == 1
ENTRY_RESOURCE == 2
ENTRY_EXCEPTION == 3
ENTRY_BASERELOC == 5
ENTRY_DEBUG == 6
ENTRY_LOAD_CONFIG == 10
ENTRY_UNKNOWN == 16
Entries == 0 .. 15

\* sizeof
DosHeader == 64
FileHeader == 20
Headers(f) == IF f.machine = "amd64" THEN 264 ELSE 248
SectionHeader == 40
ImportDescriptor == 20
ExportDirectory == 40
ResourceDirectory == 16
ResourceEntry == 8
DebugDirectory == 28
RuntimeFunction == 12
BaseRelocation == 8
LoadConfig(f) == IF f.machine = "amd64" THEN 320 ELSE 192

-----------------------------------------------------------------------------
(* Bytes.  An address is an offset in the file.                            *)

\* getp of buffer.c: the address of size bytes, if the last of them is in the
\* file.  The sum is unsigned: bytes that begin before the file are not refused
\* if they end in it.
getp(f, offset, size) ==
  IF size < f.size /\ offset + size - 1 \in 0 .. f.size - 1 THEN offset ELSE Null

Has(f, p, field)   == p \in DOMAIN f.body /\ field \in DOMAIN f.body[p]
Field(f, p, field) == IF Has(f, p, field) THEN f.body[p][field] ELSE 0

\* The string at p.
Text(f, p) == IF p # Null /\ Has(f, p, "text") THEN f.body[p].text ELSE ""

\* How many structures of a size follow each other, up to the first one that
\* lacks the field.
RunAt(f, p, size, field) == CHOOSE n \in 0 .. f.size : /\ ~Has(f, p + size * n, field)
                                                    /\ \A k \in 0 .. n - 1 : Has(f, p + size * k, field)

-----------------------------------------------------------------------------
(* Headers                                                                 *)

doshdr(f) == getp(f, 0, DosHeader)
isPE(f)   == doshdr(f) # Null /\ f.dos.magic = "MZ" /\ f.lfanew + 3 < f.size /\ f.nt.signature = "PE"
\* The tables of machines: anything else is neither.
isPE32(f) == isPE(f) /\ f.machine \in {"arm", "i386"}
isPE64(f) == isPE(f) /\ f.machine = "amd64"

\* The whole of the headers must be in the file.
nthdr(f) == IF isPE32(f) \/ isPE64(f) THEN getp(f, f.lfanew, Headers(f)) ELSE Null

sectioncount(f) == IF nthdr(f) = Null THEN 0 ELSE f.nt.sections

datadirbyentry(f, index) == IF index \in Entries /\ nthdr(f) # Null THEN f.dd[index] ELSE Null

sectionhdrbyindex(f, index) ==
  IF nthdr(f) # Null /\ index + 1 \in DOMAIN f.shdr
     /\ getp(f, f.lfanew + 4 + FileHeader + f.nt.optional + index * SectionHeader, SectionHeader) # Null
  THEN f.shdr[index + 1] ELSE Null

FirstSection(f, S) == IF S = {} THEN Null ELSE sectionhdrbyindex(f, Min(S))
SectionsOf(f) == {i \in 0 .. sectioncount(f) - 1 : sectionhdrbyindex(f, i) # Null}

\* A section holds the addresses that it has bytes for in the file.
Holds(s, vaddr) == s.vaddr <= vaddr /\ s.vaddr + s.size > vaddr

sectionhdrbyRVA(f, vaddr)  == FirstSection(f, {i \in SectionsOf(f) : Holds(f.shdr[i + 1], vaddr)})
sectionhdrbyentry(f, index) ==
  LET d == datadirbyentry(f, index) IN IF d = Null THEN Null ELSE sectionhdrbyRVA(f, d.vaddr)
sectionhdrbyname(f, name)  == FirstSection(f, {i \in SectionsOf(f) : f.shdr[i + 1].name = name})

\* peconvert2va
convert2va(s, vaddr) == vaddr - s.vaddr + s.raw

\* The file offset of the code that runs first.
addressofentrypoint(f) ==
  LET s == sectionhdrbyRVA(f, f.nt.entry) IN
  IF (isPE32(f) \/ isPE64(f)) /\ s # Null THEN convert2va(s, f.nt.entry) ELSE 0

-----------------------------------------------------------------------------
(* Chunks                                                                  *)

\* An address of a directory is taken for one of the section that the directory
\* begins in.
chunkbyRVA(f, index, vaddr, size) ==
  LET s == IF index = ENTRY_UNKNOWN THEN sectionhdrbyRVA(f, vaddr) ELSE sectionhdrbyentry(f, index)
  IN IF s = Null THEN Null ELSE getp(f, convert2va(s, vaddr), size)

EntrySize(f, index) ==
  CASE index = ENTRY_IMPORT      -> ImportDescriptor
    [] index = ENTRY_EXPORT      -> ExportDirectory
    [] index = ENTRY_RESOURCE    -> ResourceDirectory
    [] index = ENTRY_LOAD_CONFIG -> LoadConfig(f)
    [] index = ENTRY_DEBUG       -> DebugDirectory
    [] index = ENTRY_EXCEPTION   -> RuntimeFunction
    [] index = ENTRY_BASERELOC   -> BaseRelocation
chunkbyentry(f, index) ==
  LET d == datadirbyentry(f, index) IN
  IF d = Null THEN Null ELSE chunkbyRVA(f, index, d.vaddr, EntrySize(f, index))

ChunkOf(f, s) == IF s = Null THEN Null ELSE getp(f, s.raw, s.size)
chunkbyname(f, name)   == ChunkOf(f, sectionhdrbyname(f, name))
chunkbyindex(f, index) == ChunkOf(f, sectionhdrbyindex(f, index))

dwordbyRVA(f, index, vaddr) ==
  LET p == chunkbyRVA(f, index, vaddr, 4) IN IF p = Null THEN 0 ELSE Field(f, p, "dword")
=============================================================================
