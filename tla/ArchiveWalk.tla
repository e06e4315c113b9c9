----------------------------- MODULE ArchiveWalk -----------------------------
(***************************************************************************)
(* readar of readar.c over ecget_ahdr and ecget_archive of arcode.c:       *)
(* readelf-ng and objdwarf-ng on an archive.  For each index the program   *)
(* walks the member headers again from the start of the archive, twice for *)
(* a member that it dumps and once more for the table of long names.       *)
(***************************************************************************)
EXTENDS FindCursor, Sequences

CONSTANTS
  H,        \* sizeof(struct ar_hdr), 60 in the code
  Archives, \* the archives examined, sequences of members
  Strays    \* what bytes that are no header may read as

Kinds == {"symtab", "names", "long", "short", "other"}
Member == [kind : Kinds, size : Nat]

ASSUME HAssumption == H \in Nat \ {0} /\ H % 2 = 0
ASSUME ArchivesAssumption == Archives \subseteq Seq(Member) /\ Strays \subseteq Member

VARIABLES
  members, stray, lost,  \* the file: its members, the header that other bytes
                         \* read as, and how many bytes its end has lost
  pc,        \* "index": at the top of readar's loop; "done": returned
  index,     \* readar's i
  symindex,  \* the index of the table of long names, -1 before it is met
  seen,      \* history: where the header of each index was
  dumped     \* output: the ELF files shown, by dump_achive2 and dump_achive3

vars == <<members, stray, lost, pc, index, symindex, seen, dumped>>

-----------------------------------------------------------------------------
(***************************************************************************)
(* The file (external: ar).  A member of odd size is followed by a byte of *)
(* padding.  Positions count from the end of the magic.                    *)
(***************************************************************************)
Padded(size) == size + (size % 2)

Room(k) == H + Padded(members[k].size)

Extent(k) == LET extent[j \in 0 .. k] == IF j = 0 THEN 0 ELSE extent[j - 1] + Room(j) IN extent[k]

Start(k) == Extent(k - 1)

Length == Extent(Len(members)) - lost

HeaderAt(pos) ==
  IF \E k \in DOMAIN members : Start(k) = pos
  THEN members[CHOOSE k \in DOMAIN members : Start(k) = pos]
  ELSE stray

-----------------------------------------------------------------------------
(***************************************************************************)
(* The walk: the header of an index, with the cursor behind it.  Index 0   *)
(* is the header after the magic, and so is index 1.                       *)
(***************************************************************************)
NoHeader == -1

HeaderRead(c) == [at |-> IF Gets(c, H) THEN c.cpos ELSE NoHeader, next |-> fgetp(c, H)]

\* Mutant of Advance: a member is taken to have no content.
AdvanceHeader(w) == HeaderRead(w.next)

\* The loops of ecget_ahdr and ecget_archive: nothing skips the padding.
Advance(w) == HeaderRead(fstep(w.next, HeaderAt(w.at).size))

Walk(i) ==
  LET walk[k \in 1 .. i] ==
        IF k = 1 THEN HeaderRead(fmalloc(Length))
        ELSE LET w == walk[k - 1] IN IF w.at = NoHeader THEN w ELSE Advance(w)
  IN  walk[i]

\* ecget_ahdr
Header(i) ==
  IF i = 0 THEN IF H <= Length THEN 0 ELSE NoHeader ELSE Walk(i).at

\* ecget_archive answers a member that has a header and some content.  Only
\* for index 0 does it compare the size with the file.
HasBody(i) ==
  /\ i >= 0 /\ Header(i) # NoHeader
  /\ LET size == HeaderAt(Header(i)).size
     IN  /\ size > 0
         /\ IF i = 0 THEN H + size <= Length ELSE fmove(Walk(i).next, Header(i)).item

-----------------------------------------------------------------------------
Elf == [at : Nat, len : Nat, table : Nat \cup {NoHeader}]

TypeOK ==
  /\ members \in Archives /\ stray \in Strays /\ lost \in 0 .. 1
  /\ pc \in {"index", "done"}
  /\ index \in Nat /\ symindex \in -1 .. index - 1
  /\ seen \in Seq(Nat)
  /\ dumped \in Seq(Elf)

Init ==
  /\ members \in Archives
  /\ stray \in Strays
  /\ lost \in IF members = <<>> THEN {0} ELSE {0, 1}
  /\ pc = "index"
  /\ index = 0 /\ symindex = -1
  /\ seen = <<>> /\ dumped = <<>>

At == Header(index)

DumpsA(kind) ==
  /\ pc = "index" /\ At # NoHeader /\ HeaderAt(At).kind = kind
  /\ index' = index + 1
  /\ seen' = Append(seen, At)
  /\ UNCHANGED <<members, stray, lost, pc>>

\* dump_achive0 prints an index of symbols, dump_archive a warning
DumpOther(kind) == kind \in {"symtab", "other"} /\ DumpsA(kind) /\ UNCHANGED <<symindex, dumped>>

\* Mutant of DumpNames: the index is counted on first.
DumpNamesLate == DumpsA("names") /\ symindex' = index' /\ UNCHANGED dumped

\* dump_achive1
DumpNames == DumpsA("names") /\ symindex' = index /\ UNCHANGED dumped

\* Mutant of ShowElf: the header is not taken off the body.
ShowElfHeader(table) ==
  dumped' = Append(dumped, [at |-> At, len |-> H + HeaderAt(At).size, table |-> table])

ShowElf(table) ==
  dumped' = Append(dumped, [at |-> At, len |-> HeaderAt(At).size, table |-> table])

\* dump_achive2: an ELF file whose name is in the table
DumpLong ==
  /\ DumpsA("long")
  /\ IF HasBody(index) /\ HasBody(symindex) THEN ShowElf(Header(symindex)) ELSE UNCHANGED dumped
  /\ UNCHANGED symindex

\* dump_achive3: an ELF file whose name is in the header
DumpShort ==
  /\ DumpsA("short")
  /\ IF HasBody(index) THEN ShowElf(NoHeader) ELSE UNCHANGED dumped
  /\ UNCHANGED symindex

Return ==
  /\ pc = "index" /\ At = NoHeader
  /\ pc' = "done"
  /\ UNCHANGED <<members, stray, lost, index, symindex, seen, dumped>>

Stop == pc = "done" /\ UNCHANGED vars

Next ==
  \/ \E kind \in Kinds : DumpOther(kind)
  \/ DumpNames \/ DumpLong \/ DumpShort
  \/ Return
  \/ Stop

Spec == Init /\ [][Next]_vars

-----------------------------------------------------------------------------
\* The archives the walk is right about: complete, and with no padding.
Even == lost = 0 /\ \A k \in DOMAIN members : members[k].size % 2 = 0

MemberOf(j) == IF j = 1 THEN 1 ELSE j - 1

\* readar meets the members in order and misses none, though each index is
\* walked to from the start; the first one it meets twice, as index 0 and 1.
SeenInOrder ==
  Even =>
    /\ \A j \in DOMAIN seen : MemberOf(j) \in DOMAIN members /\ seen[j] = Start(MemberOf(j))
    /\ pc = "done" /\ members # <<>> => Len(seen) = Len(members) + 1

\* ecget_ahdr and ecget_archive agree on what index means: dumpelf gets the
\* content of the member whose header was printed, and gets it whole; a long
\* name is looked up in the closest table before the member, which the walk met
\* several headers ago.
DumpsMembers ==
  Even => \A j \in DOMAIN dumped :
            /\ \E k \in DOMAIN members :
                 /\ members[k].kind \in {"long", "short"}
                 /\ dumped[j].at = Start(k) /\ dumped[j].len = members[k].size
            /\ dumped[j].table # NoHeader =>
                 \E k \in DOMAIN members :
                   /\ members[k].kind = "names" /\ dumped[j].table = Start(k)
                   /\ \A l \in k + 1 .. Len(members) :
                        members[l].kind = "names" => Start(l) > dumped[j].at


\* readar comes to an end on every file, whatever its headers claim: a step is
\* possible until it returns, and there are only so many headers in a file.
Terminates == index <= (Length \div H) + 1

\* "archives containing ELF files" are supported (man/readelf-ng.1:47): each
\* ELF file in a complete archive is shown.
EveryMemberShown ==
  pc = "done" /\ lost = 0 =>
    \A k \in DOMAIN members :
      members[k].kind = "short" /\ members[k].size > 0 =>
        \E j \in DOMAIN dumped : dumped[j].at = Start(k)
=============================================================================
