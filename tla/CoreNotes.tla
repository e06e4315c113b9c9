------------------------------ MODULE CoreNotes ------------------------------
(***************************************************************************)
(* The notes of a core file, as dumpelf_notes32/64 walk a PT_NOTE segment: *)
(* one cursor goes over the segment, and every note's handler moves it     *)
(* past that note's description - by reading fields, whose widths depend   *)
(* on the machine, and by stepping over the rest.  Nothing tells the walk  *)
(* where the next header is but the sum of those moves.                    *)
(*                                                                         *)
(* A segment is laid out as a kernel writes it (name and description are   *)
(* padded to four bytes); bytes between headers that are read as a header  *)
(* say anything, one of Strays.                                            *)
(***************************************************************************)
EXTENDS FindCursor, SequencesExt

CONSTANTS Segments,   \* [machine, bits, notes : Seq([type, namesz, descsz, count])]
          Strays      \* what bytes that are no header may say

Types  == {"FILE", "XSTATE", "PRSTATUS", "PRPSINFO", "SIGINFO", "other"}
Header == [type : Types, namesz : Nat, descsz : Nat, count : Nat]

\* Headers have sizes, and files the two classes.
ASSUME SegmentsAssumption ==
  /\ \A s \in Segments : s \in [machine : STRING, bits : {32, 64}, notes : Seq(Header)]
  /\ Strays \subseteq Header

VARIABLES seg,        \* the segment walked
          detailed,   \* OPRPROGRAM_COREDUMPDETAILED
          cur,        \* the cursor over the segment
          heads,      \* where headers were read, in order
          reads       \* what the last handler read: [type, from, upto, strings]
vars == <<seg, detailed, cur, heads, reads>>

\* sizeof(Elf32_Nhdr) and sizeof(Elf64_Nhdr)
NHDR == 12

Padded(n) == ((n + 3) \div 4) * 4
Length(note) == NHDR + Padded(note.namesz) + Padded(note.descsz)
StartOf(s, i) ==
  LET Start[j \in 1 .. i] == IF j = 1 THEN 0 ELSE Start[j - 1] + Length(s.notes[j - 1])
  IN Start[i]
Starts(s) == {StartOf(s, i) : i \in 1 .. Len(s.notes)}
HeadersAt(s, pos) ==
  IF pos \in Starts(s) THEN {s.notes[i] : i \in {j \in 1 .. Len(s.notes) : StartOf(s, j) = pos}}
                       ELSE Strays

\* Where the description of the header h read at pos really is.
DescAt(h, pos) == pos + NHDR + Padded(h.namesz)

-----------------------------------------------------------------------------
(* The fields of the descriptions, as the widths their readers take. *)

Copies(n, width) == [i \in 1 .. n |-> width]

\* dump_notesNN goes by the machine, whatever the class of the file is.
WidthNN(s) == IF s.machine = "x86_64" THEN 8 ELSE 4

SignalInfo     == Copies(3, 4)
SignalSets(s)  == Copies(2, WidthNN(s))
Times(s)       == Copies(2, WidthNN(s))
RegistersArm   == Copies(18, 4)
RegistersMips  == Copies(45, 4)
\* Mutant of RegistersX32: the segment registers are read as words.
RegistersX32Wide == Copies(7, 4) \o Copies(16, 4)

RegistersX32   == Copies(7, 4) \o Copies(8, 2) \o Copies(2, 4) \o Copies(2, 2) \o Copies(2, 4) \o Copies(2, 2)
RegistersX64   == Copies(27, 8)
Registers(s) == CASE s.machine = "386"                -> RegistersX32
                  [] s.machine = "x86_64"             -> RegistersX64
                  [] s.machine \in {"arm", "aarch64"} -> RegistersArm
                  [] s.machine = "mips"               -> RegistersMips
                  [] OTHER                            -> << >>

ProcessArm  == Copies(4, 1) \o <<4>> \o Copies(2, 2) \o Copies(4, 4) \o <<16, 80>>
ProcessX32  == Copies(4, 1) \o <<4>> \o Copies(2, 2) \o Copies(4, 4) \o <<16, 80>>
ProcessMips == Copies(4, 1) \o Copies(7, 4) \o <<16, 80>>

Signal(s) == Copies(9, 4) \o <<WidthNN(s), 4, WidthNN(s), 4, 4, WidthNN(s), WidthNN(s), 4, 4>>
               \o <<WidthNN(s), WidthNN(s), 4, WidthNN(s), 4, 4>>

\* What the first i of the fields take.
Upto(widths, i) ==
  LET Sum[j \in 0 .. i] == IF j = 0 THEN 0 ELSE Sum[j - 1] + widths[j]
  IN Sum[i]
Total(widths) == Upto(widths, Len(widths))

\* One fgetp after another: the cursor stops at the first that leaves the buffer.
Read(c, widths) ==
  LET out == {i \in 1 .. Len(widths) : c.cpos + Upto(widths, i) > c.epos}
  IN IF ~c.item THEN c
     ELSE IF c.cpos + Total(widths) <= c.epos THEN fmove(c, c.cpos + Total(widths))
     ELSE fmove(c, c.cpos + Upto(widths, Min(out)))

\* dump_notes6Ax64; the step of three before the names is the source's "TO FIX".
ProcessX64(c) ==
  Read(fstep(Read(fstep(Read(c, Copies(4, 1)), 4), <<8>> \o Copies(6, 4)), 3), <<16, 80>>)

-----------------------------------------------------------------------------
(* The handlers: the cursor behind the name, and the cursor they leave. *)

\* Mutant of Behind: the description alone is stepped over.
BehindNoPad(from, c, h) == fstep(c, h.descsz - (c.cpos - from))

\* Mutant of Behind: what was read is counted from the start of the segment.
BehindOrigin(from, c, h) == fstep(c, h.descsz - c.cpos + 3)

\* The handlers step to three bytes behind the description, counted from the
\* end of the name: the padding of a name of five bytes.
Behind(from, c, h) == fstep(c, h.descsz - (c.cpos - from) + 3)

\* dump_notes5
Status(s, c) ==
  Read(fstep(Read(c, SignalInfo \o <<2>>), 2),
       SignalSets(s) \o Copies(4, 4) \o Times(s) \o Times(s) \o Times(s) \o Times(s)
         \o Registers(s) \o <<4>>)

\* dump_notes6
Process(s, c) == CASE s.machine = "x86_64"             -> ProcessX64(c)
                   [] s.machine = "386"                -> Read(c, ProcessX32)
                   [] s.machine \in {"arm", "aarch64"} -> Read(c, ProcessArm)
                   [] s.machine = "mips"               -> Read(c, ProcessMips)
                   [] OTHER                            -> c

\* The cursor on the strings of an NT_FILE note; c stands behind the two words
\* at its head.  The words of its table are counted as eight bytes each, and
\* the place and size are asked of fgalloc, which answers nothing unless a byte
\* of the segment is left behind them.
Nothing == [from |-> -1, size |-> 0]

StringsOf(c, h, room) ==
  IF c.item /\ c.cpos + room + 3 < c.epos
    THEN [from |-> c.cpos + h.count * 3 * 8, size |-> room - h.count * 3 * 8 + 3] ELSE Nothing

-----------------------------------------------------------------------------
Init == /\ seg \in Segments
        /\ detailed \in BOOLEAN
        /\ cur = fmalloc(StartOf(seg, Len(seg.notes) + 1))
        /\ heads = << >>
        /\ reads = [type |-> "none", from |-> 0, upto |-> 0, strings |-> Nothing]

\* while (!fiseof(p1))
Alive == cur.item /\ cur.cpos <= cur.epos

\* The header and the name are read; Handle moves the cursor past the rest.
Headed(h, type, c) == /\ Gets(cur, NHDR)
                      /\ h.type \in type
                      /\ c = fgetp(fgetp(cur, NHDR), h.namesz)
                      /\ heads' = Append(heads, cur.cpos)
                      /\ UNCHANGED <<seg, detailed>>

Note(h, from, upto, strings) ==
  reads' = [type |-> h.type, from |-> from - DescAt(h, cur.cpos),
            upto |-> upto - DescAt(h, cur.cpos), strings |-> strings]

\* A tail of the segment that is too short for a header ends the walk.
ShortHeader == /\ Alive /\ ~Gets(cur, NHDR)
               /\ cur' = fgetp(cur, NHDR)
               /\ UNCHANGED <<seg, detailed, heads, reads>>

\* dump_notes3: the files that are mapped.
Files ==
  /\ Alive
  /\ \E h \in HeadersAt(seg, cur.cpos) :
       LET word == seg.bits \div 8
           c    == fgetp(fgetp(cur, NHDR), h.namesz)
           d    == Read(fstep(c, 3), Copies(2, word))
           e    == Read(d, Copies(h.count * 3, word))
           left == h.descsz - 3 - (d.cpos - (c.cpos + 3))
       IN /\ Headed(h, {"FILE"}, c)
          /\ Note(h, c.cpos + 3, e.cpos, StringsOf(d, h, left))
          /\ cur' = fstep(e, left - (e.cpos - d.cpos) + 3)

\* dump_notes4: the extended state, printed in hex.
XState ==
  /\ Alive
  /\ \E h \in HeadersAt(seg, cur.cpos) :
       LET c == fgetp(fgetp(cur, NHDR), h.namesz)
       IN /\ Headed(h, {"XSTATE"}, c)
          /\ Note(h, c.cpos + 2, c.cpos + 2 + h.descsz, Nothing)
          /\ cur' = fgetp(fstep(c, 2), h.descsz)

Fields(h, c, d) == /\ Note(h, c.cpos, IF detailed THEN d.cpos ELSE c.cpos, Nothing)
                   /\ cur' = IF detailed THEN Behind(c.cpos, d, h) ELSE Behind(c.cpos, c, h)

\* dump_notes5, dump_notes6 and dump_notes7.
PrStatus == /\ Alive
            /\ \E h \in HeadersAt(seg, cur.cpos) :
                 LET c == fgetp(fgetp(cur, NHDR), h.namesz)
                 IN Headed(h, {"PRSTATUS"}, c) /\ Fields(h, c, Status(seg, c))

PrPsInfo == /\ Alive
            /\ \E h \in HeadersAt(seg, cur.cpos) :
                 LET c == fgetp(fgetp(cur, NHDR), h.namesz)
                 IN Headed(h, {"PRPSINFO"}, c) /\ Fields(h, c, Process(seg, c))

SigInfo == /\ Alive
           /\ \E h \in HeadersAt(seg, cur.cpos) :
                LET c == fgetp(fgetp(cur, NHDR), h.namesz)
                IN Headed(h, {"SIGINFO"}, c) /\ Fields(h, c, Read(c, Signal(seg)))

\* Every other note is stepped over.
Other == /\ Alive
         /\ \E h \in HeadersAt(seg, cur.cpos) :
              LET c == fgetp(fgetp(cur, NHDR), h.namesz)
              IN /\ Headed(h, {"other"}, c)
                 /\ Note(h, c.cpos, c.cpos, Nothing)
                 /\ cur' = Behind(c.cpos, c, h)

Next == ShortHeader \/ Files \/ XState \/ PrStatus \/ PrPsInfo \/ SigInfo \/ Other
Spec == Init /\ [][Next]_vars /\ WF_vars(Next)

-----------------------------------------------------------------------------
\* The walk only goes on.
TypeOK == /\ detailed \in BOOLEAN /\ cur \in Cursor
          /\ heads \in Seq(Nat) /\ \A i \in 2 .. Len(heads) : heads[i - 1] < heads[i]
          /\ reads.from \in Int /\ reads.upto \in Int

\* What the kernel's structures take (elf_prstatus, elf_prpsinfo, siginfo_t and
\* the head and table of NT_FILE); of a machine without a reader of its own, what
\* stands before its registers.
StatusSize(machine) ==
  CASE machine = "x86_64" -> 336 [] machine = "386"  -> 144 [] machine = "arm" -> 148
    [] machine = "aarch64" -> 392 [] machine = "mips" -> 256 [] OTHER -> 76
ProcessSize(machine) ==
  CASE machine \in {"x86_64", "aarch64"} -> 136 [] machine \in {"386", "arm"} -> 124
    [] machine = "mips" -> 128 [] OTHER -> 0
KernelSize(s, note) ==
  CASE note.type = "PRSTATUS" -> StatusSize(s.machine)
    [] note.type = "PRPSINFO" -> ProcessSize(s.machine)
    [] note.type = "SIGINFO"  -> 128
    [] note.type = "FILE"     -> (2 + 3 * note.count) * (s.bits \div 8)
    [] OTHER                  -> 0

\* The notes for which the moves were written: the owner is CORE, or LINUX for
\* the extended state, and the description needs no padding and holds what the
\* kernel puts there.
Regular(s, note) == /\ note.namesz = (IF note.type = "XSTATE" THEN 6 ELSE 5)
                    /\ note.descsz % 4 = 0
                    /\ KernelSize(s, note) <= note.descsz
AllRegular(s) == \A i \in 1 .. Len(s.notes) : Regular(s, s.notes[i])

\* NotesInStep: in a segment of regular notes every header is read where a
\* header is, one after the other, whatever handlers ran before and whether
\* the dump is detailed, and when the walk has ended every note was shown:
\* dumpelf_notes64's loop stays in step with the segment.
NotesInStep == AllRegular(seg) => /\ Len(heads) <= Len(seg.notes)
                                  /\ \A i \in 1 .. Len(heads) : heads[i] = StartOf(seg, i)
                                  /\ ~Alive => Len(heads) = Len(seg.notes)

\* ReadsStayInNote: the fields a detailed dump reads end with the description;
\* no handler prints bytes of the note behind it (the field lists match the
\* structures the kernel writes), and the paths of the mapped files are taken
\* from the string table behind the addresses, all of it (64 bit files).
ReadsStayInNote ==
  (AllRegular(seg) /\ heads # << >> /\ reads.type # "none")
    => LET h == seg.notes[Len(heads)]
           d == DescAt(h, heads[Len(heads)])
       IN /\ reads.upto <= h.descsz
          /\ (seg.bits = 64 /\ reads.type = "FILE" /\ reads.strings # Nothing)
               => /\ reads.strings.from = d + 16 + 24 * h.count
                  /\ reads.strings.from + reads.strings.size = d + h.descsz

\* WalkEnds: the walk ends on every segment, whatever the bytes between its
\* notes say: a header that cannot be read loses the cursor.
WalkEnds == <>[](~Alive)
=============================================================================
