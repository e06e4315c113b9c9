----------------------------- MODULE DwarfSession -----------------------------
(***************************************************************************)
(* One object file through objdump-ng (do_object of objdump.c), and with   *)
(* disassembly off through readelf-ng and objdwarf-ng (dumpelf_dwarf).     *)
(*                                                                         *)
(* libdwarf keeps one position in the list of compilation units per        *)
(* Dwarf_Debug, and every call of dwarf_next_cu_header_e moves it.  The    *)
(* .debug_info and .debug_line dumpers move it, and so does the address    *)
(* engine, which the first lookup builds in the middle of whatever runs.   *)
(***************************************************************************)
EXTENDS Naturals, Sequences, SequencesExt

CONSTANTS
  NumCU,      \* compilation units in .debug_info
  Layouts     \* sequences of section kinds: what the options select, in file order

CU == 1 .. NumCU
Kinds == {"text", "eh_frame", "info", "line"}

ASSUME NumCUAssumption   == NumCU \in Nat
ASSUME LayoutsAssumption == Layouts \subseteq Seq(Kinds)

VARIABLES
  \* the file and the options, never changed
  layout,     \* the sections
  withFiles,  \* the CUs for which dwarf_srcfiles answers a file name
  broken,     \* the CUs with a DIE that libdwarf fails to read
  opts,       \* verbose, enhanced, disassemble, debugging: options; pe: the
              \* file is a PE; dwarf: dwarf_init_b succeeds; tool: the
              \* disassembler opens
  \* the opcode handle
  item,       \* items[OPCODE_DWARF] is allocated
  dbg,        \* ws->dbg is not NULL
  position,   \* CUs libdwarf has handed out since it last started over
  engine,     \* NoEngine, or the CUs whose functions and whose rows it holds;
              \* alone: what fresh was when it was built
  \* the program
  pc, ret,    \* where it is, and where the engine's builder returns to
  next,       \* index of the next section of the layout
  building,   \* CUs whose functions execute_inf has stored so far
  shown,      \* output: what each DWARF section dumped so far showed
  fresh       \* history: since ocdwarf_open only .debug_info dumps ran

file == <<layout, withFiles, broken, opts>>
vars == <<layout, withFiles, broken, opts, item, dbg, position, engine,
          pc, ret, next, building, shown, fresh>>

NoEngine == [subs |-> {}, rows |-> {}, built |-> "no", alone |-> FALSE]

Options == [verbose : BOOLEAN, enhanced : BOOLEAN, disassemble : BOOLEAN,
            debugging : BOOLEAN, pe : BOOLEAN, dwarf : BOOLEAN, tool : BOOLEAN]

Output == [kind : {"info", "line"}, cus : Seq(CU), ok : BOOLEAN, alone : BOOLEAN]

TypeOK ==
  /\ layout \in Layouts /\ withFiles \subseteq CU /\ broken \subseteq CU /\ opts \in Options
  /\ item \in BOOLEAN /\ dbg \in BOOLEAN /\ position \in 0 .. NumCU
  /\ engine \in [subs : SUBSET CU, rows : SUBSET CU, built : {"no", "dwarf", "bare"},
                 alone : BOOLEAN]
  /\ pc \in {"start", "disassemble", "closing", "debugging", "dwarf", "inf", "src", "info", "done", "exit"}
  /\ ret \in {"disassemble", "dwarf"}
  /\ next \in 1 .. Len(layout) + 1
  /\ building \subseteq CU
  /\ shown \in Seq(Output)
  /\ fresh \in BOOLEAN

Init ==
  /\ layout \in Layouts
  /\ withFiles \in SUBSET CU
  /\ broken \in SUBSET CU
  /\ opts \in Options
  /\ item = FALSE /\ dbg = FALSE /\ position = 0
  /\ engine = NoEngine
  /\ pc = "start" /\ ret = "dwarf"
  /\ next = 1
  /\ building = {}
  /\ shown = <<>> /\ fresh = FALSE

-----------------------------------------------------------------------------
(***************************************************************************)
(* libdwarf (external).  dwarf_next_cu_header_e fails without a handle;    *)
(* past the last CU it answers DW_DLV_NO_ENTRY, and starts over.           *)
(***************************************************************************)
Exhausted == position = NumCU
NextCU == position + 1

\* Mutant of HandOut: libdwarf does not start over after the last CU.
HandOutOn == position' = IF dbg THEN NextCU ELSE position

HandOut ==
  position' = IF ~dbg THEN position ELSE IF Exhausted THEN 0 ELSE NextCU

\* ocdwarf_open, and ocdwarf_close with ocdwarf_finish.
OpenDwarf == item' = TRUE /\ dbg' = opts.dwarf /\ position' = 0 /\ fresh' = TRUE
CloseDwarf == item' = FALSE /\ dbg' = FALSE /\ UNCHANGED <<position, fresh>>

-----------------------------------------------------------------------------
(***************************************************************************)
(* do_object: disassemble, then dump the DWARF sections, then stop.        *)
(***************************************************************************)
\* ocdisassemble_open does not open the DWARF of a PE file, and gives up
\* when that of another file does not open.
Disassemble ==
  /\ pc = "start" /\ opts.disassemble
  /\ IF opts.pe THEN UNCHANGED <<item, dbg, position, fresh>> ELSE OpenDwarf
  /\ pc' = IF (opts.pe \/ opts.dwarf) /\ opts.tool THEN "disassemble" ELSE "closing"
  /\ UNCHANGED <<file, engine, ret, next, building, shown>>

SkipDisassembly ==
  /\ pc = "start" /\ ~opts.disassemble
  /\ pc' = "debugging"
  /\ UNCHANGED <<file, item, dbg, position, engine, ret, next, building, shown, fresh>>

\* Printing an instruction looks its address up; the first lookup builds.
Lookup(from) ==
  /\ engine = NoEngine
  /\ pc' = "inf" /\ ret' = from /\ building' = {}

DisassembleSection ==
  /\ pc = "disassemble" /\ next <= Len(layout)
  /\ \/ layout[next] # "text" /\ pc' = pc /\ UNCHANGED <<ret, building>>
     \/ layout[next] = "text" /\ engine # NoEngine /\ pc' = pc /\ UNCHANGED <<ret, building>>
     \/ layout[next] = "text" /\ Lookup("disassemble")
  /\ next' = next + 1
  /\ UNCHANGED <<file, item, dbg, position, engine, shown, fresh>>

EndDisassembly ==
  /\ pc = "disassemble" /\ next > Len(layout)
  /\ pc' = "closing"
  /\ UNCHANGED <<file, item, dbg, position, engine, ret, next, building, shown, fresh>>

\* ocdisassemble_close; a PE file's DWARF is left as it is.
CloseDisassembly ==
  /\ pc = "closing"
  /\ IF opts.pe THEN UNCHANGED <<item, dbg, position, fresh>> ELSE CloseDwarf
  /\ pc' = "debugging" /\ next' = 1
  /\ UNCHANGED <<file, engine, ret, building, shown>>

\* dump_dwarf goes on whether or not ocdwarf_open succeeded.
DumpDwarf ==
  /\ pc = "debugging" /\ opts.debugging
  /\ OpenDwarf
  /\ pc' = "dwarf"
  /\ UNCHANGED <<file, engine, ret, next, building, shown>>

SkipDwarf ==
  /\ pc = "debugging" /\ ~opts.debugging
  /\ pc' = "done"
  /\ UNCHANGED <<file, item, dbg, position, engine, ret, next, building, shown, fresh>>

\* Mutant of EndDwarf: the handle is left open.
EndDwarfOpen ==
  /\ pc = "dwarf" /\ next > Len(layout)
  /\ pc' = "done"
  /\ UNCHANGED <<file, item, dbg, position, fresh, engine, ret, next, building, shown>>

EndDwarf ==
  /\ pc = "dwarf" /\ next > Len(layout)
  /\ CloseDwarf
  /\ pc' = "done"
  /\ UNCHANGED <<file, engine, ret, next, building, shown>>

AtSection(kind) == pc = "dwarf" /\ next <= Len(layout) /\ layout[next] = kind

\* A code section has no DWARF dumper.
DumpOther ==
  /\ AtSection("text")
  /\ next' = next + 1
  /\ UNCHANGED <<file, item, dbg, position, engine, pc, ret, building, shown, fresh>>

\* ocdwarf_eh_frame fails without a handle; in enhanced mode it names each
\* FDE with a lookup.
DumpFrames ==
  /\ AtSection("eh_frame")
  /\ next' = next + 1
  /\ IF dbg /\ opts.enhanced /\ engine = NoEngine THEN Lookup("dwarf")
     ELSE UNCHANGED <<pc, ret, building>>
  /\ UNCHANGED <<file, item, dbg, position, engine, shown, fresh>>

\* ocdwarf_debug_line shows the rows of one CU.
DumpLine ==
  /\ AtSection("line")
  /\ HandOut
  /\ shown' = Append(shown, [kind |-> "line", alone |-> fresh, ok |-> dbg,
                             cus |-> IF dbg /\ ~Exhausted THEN <<NextCU>> ELSE <<>>])
  /\ next' = next + 1 /\ fresh' = FALSE
  /\ UNCHANGED <<file, item, dbg, engine, pc, ret, building>>

\* ocdwarf_debug_info shows CUs until libdwarf has no more.
DumpInfo ==
  /\ AtSection("info")
  /\ shown' = Append(shown, [kind |-> "info", alone |-> fresh, ok |-> dbg, cus |-> <<>>])
  /\ pc' = "info"
  /\ UNCHANGED <<file, item, dbg, position, engine, ret, next, building, fresh>>

\* Mutant of DumpUnit: one unit is shown, as for .debug_line.
DumpOneUnit ==
  /\ pc = "info" /\ dbg /\ ~Exhausted
  /\ HandOut
  /\ shown' = [shown EXCEPT ![Len(shown)].cus = Append(@, NextCU)]
  /\ pc' = "dwarf" /\ next' = next + 1
  /\ UNCHANGED <<file, item, dbg, engine, ret, building, fresh>>

\* A DIE that cannot be read ends the program (printf_x).
DumpUnit ==
  /\ pc = "info" /\ dbg /\ ~Exhausted
  /\ HandOut
  /\ IF NextCU \in broken
     THEN pc' = "exit" /\ dbg' = FALSE /\ UNCHANGED shown
     ELSE /\ shown' = [shown EXCEPT ![Len(shown)].cus = Append(@, NextCU)]
          /\ UNCHANGED <<pc, dbg>>
  /\ UNCHANGED <<file, item, engine, ret, next, building, fresh>>

EndInfo ==
  /\ pc = "info" /\ (~dbg \/ Exhausted)
  /\ HandOut
  /\ pc' = "dwarf" /\ next' = next + 1
  /\ UNCHANGED <<file, item, dbg, engine, ret, building, shown, fresh>>

-----------------------------------------------------------------------------
(***************************************************************************)
(* oecreate_engine.  ocdwarf_sfcreate answers the number of characters it  *)
(* printed, which is not DW_DLV_OK when -v made it list the files of the   *)
(* CU: execute_inf then leaves out the CU's DIEs and stops.                *)
(***************************************************************************)
\* Mutant of Listed: the result counts the files that were not printed too.
ListedAlways(c) == c \in withFiles

Listed(c) == opts.verbose /\ c \in withFiles

\* A unit whose DIEs are stored.
StoreUnit ==
  /\ pc = "inf" /\ item /\ dbg /\ ~Exhausted
  /\ ~Listed(NextCU) /\ NextCU \notin broken
  /\ HandOut
  /\ building' = building \cup {NextCU}
  /\ UNCHANGED <<file, item, dbg, engine, pc, ret, next, shown, fresh>>

\* A unit that ends execute_inf; an unreadable DIE also finishes the handle.
LastUnit ==
  /\ pc = "inf" /\ item /\ dbg /\ ~Exhausted
  /\ Listed(NextCU) \/ NextCU \in broken
  /\ HandOut
  /\ dbg' = Listed(NextCU)
  /\ pc' = "src"
  /\ UNCHANGED <<file, item, engine, ret, next, building, shown, fresh>>

\* Mutant of NoMoreUnits: only an error ends the loop.
MoreUnitsForEver ==
  /\ pc = "inf" /\ (~item \/ ~dbg \/ Exhausted)
  /\ HandOut
  /\ pc' = IF dbg THEN "inf" ELSE "src"
  /\ UNCHANGED <<file, item, dbg, engine, ret, next, building, shown, fresh>>

NoMoreUnits ==
  /\ pc = "inf" /\ (~item \/ ~dbg \/ Exhausted)
  /\ HandOut
  /\ pc' = "src"
  /\ UNCHANGED <<file, item, dbg, engine, ret, next, building, shown, fresh>>

\* execute_src asks for one more CU and stores the rows of that one.
StoreRows ==
  /\ pc = "src"
  /\ HandOut
  /\ engine' = [subs  |-> building,
                rows  |-> IF dbg /\ ~Exhausted THEN {NextCU} ELSE {},
                built |-> IF item /\ opts.dwarf THEN "dwarf" ELSE "bare",
                alone |-> fresh]
  /\ pc' = ret /\ fresh' = FALSE
  /\ UNCHANGED <<file, item, dbg, ret, next, building, shown>>

-----------------------------------------------------------------------------
Finished == pc \in {"done", "exit"}

Stop == Finished /\ UNCHANGED vars

Next ==
  \/ Disassemble \/ SkipDisassembly \/ DisassembleSection \/ EndDisassembly
  \/ CloseDisassembly \/ DumpDwarf \/ SkipDwarf \/ EndDwarf
  \/ DumpOther \/ DumpFrames \/ DumpLine \/ DumpInfo \/ DumpUnit \/ EndInfo
  \/ StoreUnit \/ LastUnit \/ NoMoreUnits \/ StoreRows
  \/ Stop

\* The program is one thread that nothing blocks.
Spec == Init /\ [][Next]_vars /\ WF_vars(Next)

-----------------------------------------------------------------------------
Info(i) == shown[i].kind = "info" /\ shown[i].ok

\* The dump that is still running, or was cut off by an unreadable DIE.
Partial(i) == i = Len(shown) /\ pc \in {"info", "exit"}

Whole == [c \in CU |-> c]

\* Whatever moved the position before, a .debug_info dump shows each unit at
\* most once, in order, and goes on to the last one.  It shows them all when
\* neither a line dump nor the building of the engine ran since ocdwarf_open:
\* each walk of ocdwarf_debug_info leaves libdwarf ready to start over.
InfoRunsToEnd ==
  \A i \in DOMAIN shown :
    Info(i) /\ ~Partial(i) =>
      \E k \in 0 .. NumCU : /\ shown[i].cus = SubSeq(Whole, k + 1, NumCU)
                            /\ shown[i].alone => k = 0

\* An engine built while the DWARF was open, and before any line dump, holds
\* the functions of every unit (without -v and unreadable DIEs): the .debug_info
\* dumps that came first, and the disassembly, leave libdwarf at the start.
EngineWhole ==
  engine.built = "dwarf" /\ engine.alone /\ broken = {} /\ ~opts.verbose => engine.subs = CU

\* do_object leaves no DWARF handle open, whatever failed on the way.
ClosedAtEnd == pc = "done" => ~item /\ ~dbg

\* Every file is done with: no walk over the units goes round for ever.
Terminates == <>Finished

\* -v prints "additional information" (man/objdump-ng.1): it does not take the
\* functions away from the disassembly.
VerboseKeepsFunctions ==
  engine.built = "dwarf" /\ engine.alone /\ broken = {} => engine.subs = CU
=============================================================================
