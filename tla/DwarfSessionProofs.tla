-------------------------- MODULE DwarfSessionProofs --------------------------
(***************************************************************************)
(* Type correctness and the safety of a DWARF session, for every number of *)
(* compilation units and every set of layouts: who may move libdwarf's     *)
(* position, and where each walk over the units leaves it.                 *)
(***************************************************************************)
EXTENDS DwarfSession, SequenceTheorems, TLAPS

(***************************************************************************)
(* The inductive invariant.                                                *)
(***************************************************************************)
\* The handle is open only where do_object closes it later: ocdwarf_open has
\* run, and never on the disassembly of a PE file.
OpenPlaces == IF opts.pe THEN {"dwarf", "info", "exit"}
              ELSE {"disassemble", "closing", "dwarf", "info", "exit"}

HandlePlaced ==
  /\ item => pc \in OpenPlaces \/ (pc \in {"inf", "src"} /\ ret \in OpenPlaces)
  /\ dbg => item /\ opts.dwarf
  /\ broken = {} /\ item /\ opts.dwarf => dbg

\* As long as nothing but .debug_info dumps ran, libdwarf is at the start of
\* the list between two walks, as it is before the first.  A dump without a handle does not move it.
StartsOver ==
  fresh => /\ pc \in {"start", "disassemble", "dwarf"} => position = 0
           /\ pc = "info" /\ ~dbg => position = 0

\* What the engine's builder has stored so far is what libdwarf handed out.
StoredSoFar ==
  fresh => /\ pc = "inf" /\ dbg => building = 1 .. position
           /\ pc = "src" /\ item /\ opts.dwarf /\ broken = {} /\ ~opts.verbose => building = CU

\* The dump that runs shows the units up to libdwarf's position, from where
\* it found libdwarf.
ShownSoFar ==
  pc = "info" =>
    /\ next <= Len(layout) /\ shown # <<>>
    /\ shown[Len(shown)].kind = "info" /\ shown[Len(shown)].ok = dbg
    /\ dbg => \E k \in 0 .. position : /\ shown[Len(shown)].cus = SubSeq(Whole, k + 1, position)
                                       /\ shown[Len(shown)].alone => k = 0

IInv ==
  /\ TypeOK
  /\ HandlePlaced
  /\ StartsOver
  /\ StoredSoFar
  /\ ShownSoFar
  /\ InfoRunsToEnd
  /\ EngineWhole

-----------------------------------------------------------------------------
\* Where libdwarf is after a call for the next unit.
LEMMA HandOutMoves ==
  ASSUME TypeOK, HandOut
  PROVE  /\ position' \in 0 .. NumCU
         /\ ~dbg => position' = position
         /\ dbg /\ Exhausted => position' = 0
         /\ ~Exhausted => NextCU \in CU
         /\ dbg /\ ~Exhausted => position' = position + 1
BY NumCUAssumption DEF TypeOK, HandOut, Exhausted, NextCU, CU

\* A layout is a sequence of section kinds.
LEMMA LayoutIsSeq == TypeOK => layout \in Seq(Kinds) /\ Len(layout) \in Nat
BY LayoutsAssumption DEF TypeOK

\* A step that shows nothing and leaves no dump unfinished keeps what the
\* finished dumps showed.
LEMMA ShownKept ==
  ASSUME InfoRunsToEnd, UNCHANGED shown, pc \in {"info", "exit"} => pc' \in {"info", "exit"}
  PROVE  InfoRunsToEnd'
BY DEF InfoRunsToEnd, Info, Partial

\* Before do_object nothing is open, built or shown.
LEMMA InitIInv == Init => IInv
<1> SUFFICES ASSUME Init PROVE IInv
  OBVIOUS
<1>1. TypeOK
  <2>1. layout \in Seq(Kinds) /\ Len(layout) \in Nat
    BY LayoutsAssumption DEF Init
  <2>2. shown \in Seq(Output)
    BY DEF Init
  <2>3. engine \in [subs : SUBSET CU, rows : SUBSET CU, built : {"no", "dwarf", "bare"}, alone : BOOLEAN]
    BY DEF Init, NoEngine
  <2>4. position \in 0 .. NumCU /\ next \in 1 .. Len(layout) + 1
    BY <2>1, NumCUAssumption DEF Init
  <2> QED BY <2>2, <2>3, <2>4 DEF Init, TypeOK
<1>2. HandlePlaced /\ StartsOver /\ StoredSoFar /\ ShownSoFar /\ EngineWhole
  BY DEF Init, HandlePlaced, StartsOver, StoredSoFar, ShownSoFar, EngineWhole, NoEngine
<1>3. InfoRunsToEnd
  BY DEF Init, InfoRunsToEnd
<1> QED BY <1>1, <1>2, <1>3 DEF IInv

-----------------------------------------------------------------------------
(***************************************************************************)
(* Steps that leave libdwarf and the output alone.                         *)
(***************************************************************************)
\* A step that moves the program on, and the section it is at, keeps the
\* invariant when it goes where the handle is closed or will be.
LEMMA QuietKeeps ==
  ASSUME IInv, UNCHANGED <<file, item, dbg, position, engine, ret, building, shown, fresh>>,
         next' \in 1 .. Len(layout) + 1,
         \/ pc' = pc /\ pc # "info"
         \/ pc = "start" /\ pc' \in {"disassemble", "closing", "debugging"}
         \/ pc = "disassemble" /\ pc' = "closing"
         \/ pc = "closing" /\ opts.pe /\ pc' = "debugging"
         \/ pc = "debugging" /\ pc' = "done"
  PROVE  IInv'
<1>1. TypeOK'
  BY DEF IInv, TypeOK, file
<1>2. HandlePlaced'
  BY DEF IInv, TypeOK, HandlePlaced, OpenPlaces, file
<1>3. StartsOver' /\ StoredSoFar' /\ ShownSoFar' /\ EngineWhole'
  BY DEF IInv, StartsOver, StoredSoFar, ShownSoFar, EngineWhole, file
<1>4. InfoRunsToEnd'
  BY ShownKept DEF IInv
<1> QED BY <1>1, <1>2, <1>3, <1>4 DEF IInv

-----------------------------------------------------------------------------
(***************************************************************************)
(* Opening and closing.                                                    *)
(***************************************************************************)
\* ocdwarf_open starts over with a handle that do_object will close.
LEMMA OpeningKeeps ==
  ASSUME IInv, OpenDwarf, UNCHANGED <<file, engine, ret, next, building, shown>>,
         \/ pc = "start" /\ ~opts.pe /\ pc' \in {"disassemble", "closing"}
         \/ pc = "debugging" /\ pc' = "dwarf"
  PROVE  IInv'
<1>1. TypeOK'
  <2>1. position' \in 0 .. NumCU
    BY NumCUAssumption DEF OpenDwarf
  <2>2. item' \in BOOLEAN /\ dbg' \in BOOLEAN /\ fresh' \in BOOLEAN
    BY DEF IInv, TypeOK, OpenDwarf, Options
  <2> QED BY <2>1, <2>2 DEF IInv, TypeOK, file
<1>2. HandlePlaced'
  BY DEF HandlePlaced, OpenDwarf, OpenPlaces, file
<1>3. StartsOver' /\ StoredSoFar' /\ ShownSoFar' /\ EngineWhole'
  BY DEF IInv, OpenDwarf, StartsOver, StoredSoFar, ShownSoFar, EngineWhole, file
<1>4. InfoRunsToEnd'
  BY ShownKept DEF IInv
<1> QED BY <1>1, <1>2, <1>3, <1>4 DEF IInv

\* ocdwarf_close and ocdwarf_finish leave nothing open.
LEMMA ClosingKeeps ==
  ASSUME IInv, CloseDwarf, UNCHANGED <<file, engine, ret, building, shown>>,
         next' \in 1 .. Len(layout) + 1,
         \/ pc = "closing" /\ pc' = "debugging"
         \/ pc = "dwarf" /\ pc' = "done"
  PROVE  IInv'
<1>1. TypeOK'
  BY DEF IInv, TypeOK, CloseDwarf, file
<1>2. HandlePlaced'
  BY DEF HandlePlaced, CloseDwarf
<1>3. StartsOver' /\ StoredSoFar' /\ ShownSoFar' /\ EngineWhole'
  BY DEF IInv, CloseDwarf, StartsOver, StoredSoFar, ShownSoFar, EngineWhole, file
<1>4. InfoRunsToEnd'
  BY ShownKept DEF IInv
<1> QED BY <1>1, <1>2, <1>3, <1>4 DEF IInv

\* The first lookup starts the builder, at the start of the list when only
\* .debug_info dumps ran.
LEMMA LookupKeeps ==
  ASSUME IInv, UNCHANGED <<file, item, dbg, position, engine, shown, fresh>>,
         NEW from \in {"disassemble", "dwarf"}, pc = from, Lookup(from),
         next' \in 1 .. Len(layout) + 1
  PROVE  IInv'
<1>1. TypeOK'
  BY DEF IInv, TypeOK, Lookup, file
<1>2. HandlePlaced'
  BY DEF IInv, HandlePlaced, Lookup, OpenPlaces, file
<1>3. StoredSoFar'
  BY DEF IInv, StartsOver, StoredSoFar, Lookup
<1>4. StartsOver' /\ ShownSoFar' /\ EngineWhole'
  BY DEF IInv, StartsOver, ShownSoFar, EngineWhole, Lookup, file
<1>5. InfoRunsToEnd'
  BY ShownKept DEF IInv
<1> QED BY <1>1, <1>2, <1>3, <1>4, <1>5 DEF IInv

-----------------------------------------------------------------------------
(***************************************************************************)
(* Building the engine.                                                    *)
(***************************************************************************)
\* Every step of the builder stores what libdwarf hands out, and the builder
\* leaves early only over a listed or an unreadable unit.
LEMMA BuildingKeeps ==
  ASSUME IInv, StoreUnit \/ LastUnit \/ NoMoreUnits \/ StoreRows
  PROVE  IInv'
<1>1. HandOut /\ UNCHANGED file
  BY DEF StoreUnit, LastUnit, NoMoreUnits, StoreRows
<1>2. /\ position' \in 0 .. NumCU
      /\ ~dbg => position' = position
      /\ dbg /\ Exhausted => position' = 0
      /\ ~Exhausted => NextCU \in CU
      /\ dbg /\ ~Exhausted => position' = position + 1
  BY <1>1, HandOutMoves DEF IInv
<1>3. InfoRunsToEnd'
  BY ShownKept DEF IInv, StoreUnit, LastUnit, NoMoreUnits, StoreRows, TypeOK
<1>4. CASE StoreUnit
  <2>1. TypeOK'
    BY <1>2, <1>4 DEF IInv, TypeOK, StoreUnit, file
  <2>2. HandlePlaced'
    BY <1>4 DEF IInv, HandlePlaced, OpenPlaces, StoreUnit, file
  <2>3. StoredSoFar'
    <3>1. fresh => building' = 1 .. position'
      BY <1>2, <1>4 DEF IInv, StoredSoFar, StoreUnit, NextCU, TypeOK
    <3> QED BY <1>4, <3>1 DEF StoredSoFar, StoreUnit
  <2>4. StartsOver' /\ ShownSoFar' /\ EngineWhole'
    BY <1>4 DEF IInv, StartsOver, ShownSoFar, EngineWhole, StoreUnit, file
  <2> QED BY <1>3, <2>1, <2>2, <2>3, <2>4 DEF IInv
<1>5. CASE LastUnit
  <2>1. TypeOK'
    <3>1. dbg' \in BOOLEAN
      BY <1>5 DEF LastUnit, Listed, IInv, TypeOK, Options
    <3> QED BY <1>2, <1>5, <3>1 DEF IInv, TypeOK, LastUnit, file
  <2>2. HandlePlaced'
    BY <1>5 DEF IInv, HandlePlaced, OpenPlaces, LastUnit, file
  <2>3. StoredSoFar'
    BY <1>5 DEF StoredSoFar, LastUnit, Listed, file
  <2>4. StartsOver' /\ ShownSoFar' /\ EngineWhole'
    BY <1>5 DEF IInv, StartsOver, ShownSoFar, EngineWhole, LastUnit, file
  <2> QED BY <1>3, <2>1, <2>2, <2>3, <2>4 DEF IInv
<1>6. CASE NoMoreUnits
  <2>1. TypeOK'
    BY <1>2, <1>6 DEF IInv, TypeOK, NoMoreUnits, file
  <2>2. HandlePlaced'
    BY <1>6 DEF IInv, HandlePlaced, OpenPlaces, NoMoreUnits, file
  <2>3. StoredSoFar'
    BY <1>6 DEF IInv, HandlePlaced, StoredSoFar, NoMoreUnits, Exhausted, CU, file
  <2>4. StartsOver' /\ ShownSoFar' /\ EngineWhole'
    BY <1>6 DEF IInv, StartsOver, ShownSoFar, EngineWhole, NoMoreUnits, file
  <2> QED BY <1>3, <2>1, <2>2, <2>3, <2>4 DEF IInv
<1>7. CASE StoreRows
  <2>1. TypeOK'
    <3>1. engine' \in [subs : SUBSET CU, rows : SUBSET CU, built : {"no", "dwarf", "bare"}, alone : BOOLEAN]
      BY <1>2, <1>7 DEF IInv, TypeOK, StoreRows
    <3> QED BY <1>2, <1>7, <3>1 DEF IInv, TypeOK, StoreRows, file
  <2>2. HandlePlaced'
    BY <1>7 DEF IInv, HandlePlaced, OpenPlaces, StoreRows, file, TypeOK
  <2>3. EngineWhole'
    BY <1>7 DEF IInv, StoredSoFar, EngineWhole, StoreRows, file
  <2>4. StartsOver' /\ StoredSoFar' /\ ShownSoFar'
    BY <1>7 DEF IInv, StartsOver, StoredSoFar, ShownSoFar, StoreRows, TypeOK
  <2> QED BY <1>3, <2>1, <2>2, <2>3, <2>4 DEF IInv
<1> QED BY <1>4, <1>5, <1>6, <1>7

-----------------------------------------------------------------------------
(***************************************************************************)
(* Dumping.                                                                *)
(***************************************************************************)
\* The list of units, in order.
LEMMA WholeIsSeq == Whole \in Seq(CU) /\ Len(Whole) = NumCU /\ \A c \in CU : Whole[c] = c
BY NumCUAssumption DEF Whole, CU

\* A dump that has shown nothing has shown the units from where libdwarf is
\* to where libdwarf is.
LEMMA WalkStarts ==
  ASSUME NEW p \in 0 .. NumCU
  PROVE  SubSeq(Whole, p + 1, p) = <<>>
BY NumCUAssumption, SubSeqEmpty

\* A unit more.
LEMMA WalkGrows ==
  ASSUME NEW p \in 0 .. NumCU, p # NumCU, NEW k \in 0 .. p
  PROVE  Append(SubSeq(Whole, k + 1, p), p + 1) = SubSeq(Whole, k + 1, p + 1)
<1> DEFINE short == SubSeq(Whole, k + 1, p)
           long  == SubSeq(Whole, k + 1, p + 1)
<1>1. p + 1 \in CU /\ k + 1 \in 1 .. p + 1 /\ Whole[p + 1] = p + 1
  BY NumCUAssumption, WholeIsSeq DEF CU
<1>2. long = SubSeq(Whole, k + 1, (p + 1) - 1) \o <<Whole[p + 1]>>
  BY <1>1, WholeIsSeq, NumCUAssumption, SubSeqRecursiveSecond DEF CU
<1>3. (p + 1) - 1 = p
  BY NumCUAssumption
<1>4. short \in Seq(CU)
  <2>1. \A i \in k + 1 .. p : Whole[i] \in CU
    BY WholeIsSeq, NumCUAssumption DEF CU
  <2> QED BY <2>1, NumCUAssumption, SubSeqProperties
<1> HIDE DEF short, long
<1>5. Append(short, p + 1) = short \o <<p + 1>>
  BY <1>1, <1>4
<1> QED BY <1>1, <1>2, <1>3, <1>5 DEF short, long

\* A line dump moves libdwarf by one unit, and so ends what fresh says.
LEMMA DumpLineKeeps ==
  ASSUME IInv, DumpLine
  PROVE  IInv'
<1> DEFINE out == [kind |-> "line", alone |-> fresh, ok |-> dbg,
                   cus |-> IF dbg /\ ~Exhausted THEN <<NextCU>> ELSE <<>>]
<1>1. /\ pc = "dwarf" /\ next <= Len(layout) /\ HandOut /\ UNCHANGED file
      /\ shown' = Append(shown, out) /\ next' = next + 1 /\ fresh' = FALSE
      /\ UNCHANGED <<item, dbg, engine, pc, ret, building>>
  BY DEF DumpLine, AtSection
<1>2. position' \in 0 .. NumCU /\ (~Exhausted => NextCU \in CU)
  BY <1>1, HandOutMoves DEF IInv
<1>3. out \in Output /\ out.kind = "line"
  BY <1>2 DEF Output, IInv, TypeOK
<1> HIDE DEF out
<1>4. TypeOK'
  <2>1. shown' \in Seq(Output)
    BY <1>1, <1>3 DEF IInv, TypeOK
  <2>2. next' \in 1 .. Len(layout) + 1
    BY <1>1, LayoutIsSeq DEF IInv, TypeOK
  <2> QED BY <1>1, <1>2, <2>1, <2>2 DEF IInv, TypeOK, file
<1>5. HandlePlaced'
  BY <1>1 DEF IInv, HandlePlaced, OpenPlaces, file
<1>6. StartsOver' /\ StoredSoFar' /\ ShownSoFar' /\ EngineWhole'
  BY <1>1 DEF IInv, StartsOver, StoredSoFar, ShownSoFar, EngineWhole, file
<1>7. InfoRunsToEnd'
  <2>1. shown \in Seq(Output)
    BY DEF IInv, TypeOK
  <2>2. /\ DOMAIN shown' = 1 .. Len(shown) + 1
        /\ \A i \in DOMAIN shown : shown'[i] = shown[i]
        /\ shown'[Len(shown) + 1].kind = "line"
    BY <1>1, <1>3, <2>1
  <2> QED BY <1>1, <2>1, <2>2 DEF IInv, InfoRunsToEnd, Info, Partial
<1> QED BY <1>4, <1>5, <1>6, <1>7 DEF IInv

\* A .debug_info dump starts where libdwarf is.
LEMMA DumpInfoKeeps ==
  ASSUME IInv, DumpInfo
  PROVE  IInv'
<1> DEFINE out == [kind |-> "info", alone |-> fresh, ok |-> dbg, cus |-> <<>>]
<1>1. /\ pc = "dwarf" /\ next <= Len(layout) /\ UNCHANGED file
      /\ shown' = Append(shown, out) /\ pc' = "info"
      /\ UNCHANGED <<item, dbg, position, engine, ret, next, building, fresh>>
  BY DEF DumpInfo, AtSection
<1>2. out \in Output /\ out.kind = "info" /\ out.alone = fresh /\ out.ok = dbg /\ out.cus = <<>>
  BY DEF Output, IInv, TypeOK
<1> HIDE DEF out
<1>3. shown \in Seq(Output) /\ position \in 0 .. NumCU
  BY DEF IInv, TypeOK
<1>4. /\ Len(shown') = Len(shown) + 1 /\ shown' # <<>> /\ shown' \in Seq(Output)
      /\ DOMAIN shown' = 1 .. Len(shown) + 1
      /\ \A i \in DOMAIN shown : shown'[i] = shown[i]
      /\ shown'[Len(shown')] = out
  BY <1>1, <1>2, <1>3
<1>5. TypeOK'
  BY <1>1, <1>4 DEF IInv, TypeOK, file
<1>6. HandlePlaced'
  BY <1>1 DEF IInv, HandlePlaced, OpenPlaces, file
<1>7. StartsOver' /\ StoredSoFar' /\ EngineWhole'
  BY <1>1 DEF IInv, StartsOver, StoredSoFar, EngineWhole, file
<1>8. ShownSoFar'
  <2>1. position \in 0 .. position /\ out.cus = SubSeq(Whole, position + 1, position)
    BY <1>2, <1>3, WalkStarts, NumCUAssumption
  <2>2. out.alone => position = 0
    BY <1>1, <1>2 DEF IInv, StartsOver
  <2> QED BY <1>1, <1>2, <1>4, <2>1, <2>2 DEF ShownSoFar, file
<1>9. InfoRunsToEnd'
  <2> SUFFICES ASSUME NEW i \in DOMAIN shown', Info(i)', ~Partial(i)'
               PROVE  \E k \in 0 .. NumCU : /\ shown'[i].cus = SubSeq(Whole, k + 1, NumCU)
                                            /\ shown'[i].alone => k = 0
    BY DEF InfoRunsToEnd
  <2>1. i \in DOMAIN shown
    BY <1>1, <1>3, <1>4 DEF Partial
  <2>2. shown'[i] = shown[i]
    BY <1>4, <2>1
  <2>3. Info(i) /\ ~Partial(i)
    BY <1>1, <2>2 DEF Info, Partial
  <2> QED BY <2>1, <2>2, <2>3 DEF IInv, InfoRunsToEnd
<1> QED BY <1>5, <1>6, <1>7, <1>8, <1>9 DEF IInv

\* It shows the next unit, or dies over a DIE.
LEMMA DumpUnitKeeps ==
  ASSUME IInv, DumpUnit
  PROVE  IInv'
<1> DEFINE last == Len(shown)
<1>1. pc = "info" /\ dbg /\ ~Exhausted /\ HandOut /\ UNCHANGED file
      /\ UNCHANGED <<item, engine, ret, next, building, fresh>>
  BY DEF DumpUnit
<1>2. position' = position + 1 /\ position' \in 0 .. NumCU /\ NextCU \in CU
  BY <1>1, HandOutMoves DEF IInv
<1>3. shown \in Seq(Output) /\ position \in 0 .. NumCU
  BY DEF IInv, TypeOK
<1>4. CASE NextCU \in broken
  <2>1. pc' = "exit" /\ dbg' = FALSE /\ shown' = shown
    BY <1>4 DEF DumpUnit
  <2>2. TypeOK'
    BY <1>1, <1>2, <2>1 DEF IInv, TypeOK, file
  <2>3. HandlePlaced'
    BY <1>1, <1>4, <2>1 DEF IInv, HandlePlaced, OpenPlaces, file
  <2>4. StartsOver' /\ StoredSoFar' /\ ShownSoFar' /\ EngineWhole'
    BY <1>1, <2>1 DEF IInv, StartsOver, StoredSoFar, ShownSoFar, EngineWhole, file
  <2>5. InfoRunsToEnd'
    BY <2>1, ShownKept DEF IInv
  <2> QED BY <2>2, <2>3, <2>4, <2>5 DEF IInv
<1>5. CASE NextCU \notin broken
  <2> DEFINE grown == Append(shown[last].cus, NextCU)
  <2>1. shown' = [shown EXCEPT ![last].cus = grown] /\ pc' = pc /\ dbg' = dbg
    BY <1>5 DEF DumpUnit
  <2>2. PICK k \in 0 .. position : /\ shown[last].cus = SubSeq(Whole, k + 1, position)
                                   /\ shown[last].alone => k = 0
    BY <1>1 DEF IInv, ShownSoFar
  <2>3. shown # <<>> /\ last \in 1 .. Len(shown) /\ shown[last] \in Output
    BY <1>1, <1>3 DEF IInv, ShownSoFar
  <2>4. grown \in Seq(CU) /\ grown = SubSeq(Whole, k + 1, position + 1)
    <3>1. shown[last].cus \in Seq(CU)
      BY <2>3 DEF Output
    <3>2. position # NumCU
      BY <1>1 DEF Exhausted
    <3>3. Append(SubSeq(Whole, k + 1, position), position + 1) = SubSeq(Whole, k + 1, position + 1)
      BY <1>3, <3>2, WalkGrows
    <3>4. grown = Append(SubSeq(Whole, k + 1, position), position + 1)
      BY <2>2 DEF NextCU
    <3>5. grown \in Seq(CU)
      BY <1>2, <3>1
    <3> HIDE DEF grown
    <3> QED BY <3>3, <3>4, <3>5
  <2> HIDE DEF grown
  <2>5. /\ shown' \in Seq(Output) /\ Len(shown') = Len(shown) /\ shown' # <<>>
        /\ DOMAIN shown' = DOMAIN shown
        /\ shown'[last] = [shown[last] EXCEPT !.cus = grown]
        /\ \A i \in DOMAIN shown : i # last => shown'[i] = shown[i]
    <3>1. [shown[last] EXCEPT !.cus = grown] \in Output
      BY <2>3, <2>4 DEF Output
    <3>2. shown' = [shown EXCEPT ![last] = [shown[last] EXCEPT !.cus = grown]]
      BY <2>1
    <3> HIDE DEF last
    <3> QED BY <1>3, <2>3, <3>1, <3>2
  <2>6. /\ shown'[last].cus = grown /\ shown'[last].kind = shown[last].kind
        /\ shown'[last].ok = shown[last].ok /\ shown'[last].alone = shown[last].alone
    BY <2>3, <2>5 DEF Output
  <2>7. TypeOK'
    BY <1>1, <1>2, <2>1, <2>5 DEF IInv, TypeOK, file
  <2>8. HandlePlaced'
    BY <1>1, <2>1 DEF IInv, HandlePlaced, OpenPlaces, file
  <2>9. StartsOver' /\ StoredSoFar' /\ EngineWhole'
    BY <1>1, <2>1 DEF IInv, StartsOver, StoredSoFar, EngineWhole, file
  <2>10. ShownSoFar'
    <3>1. k \in 0 .. position'
      BY <1>2, <1>3, <2>2
    <3> QED BY <1>1, <1>2, <2>1, <2>2, <2>4, <2>5, <2>6, <3>1 DEF IInv, ShownSoFar, file
  <2>11. InfoRunsToEnd'
    BY <1>1, <2>1, <2>5 DEF IInv, InfoRunsToEnd, Info, Partial
  <2> QED BY <2>7, <2>8, <2>9, <2>10, <2>11 DEF IInv
<1> QED BY <1>4, <1>5

\* It ends past the last unit, with libdwarf at the start again.
LEMMA EndInfoKeeps ==
  ASSUME IInv, EndInfo
  PROVE  IInv'
<1>1. /\ pc = "info" /\ (~dbg \/ Exhausted) /\ HandOut /\ UNCHANGED file
      /\ pc' = "dwarf" /\ next' = next + 1
      /\ UNCHANGED <<item, dbg, engine, ret, building, shown, fresh>>
  BY DEF EndInfo
<1>2. /\ position' \in 0 .. NumCU
      /\ ~dbg => position' = position
      /\ dbg => position' = 0
  BY <1>1, HandOutMoves DEF IInv
<1>3. TypeOK'
  <2>1. next' \in 1 .. Len(layout) + 1
    BY <1>1, LayoutIsSeq DEF IInv, TypeOK, ShownSoFar
  <2> QED BY <1>1, <1>2, <2>1 DEF IInv, TypeOK, file
<1>4. HandlePlaced'
  BY <1>1 DEF IInv, HandlePlaced, OpenPlaces, file
<1>5. StartsOver' /\ StoredSoFar' /\ ShownSoFar' /\ EngineWhole'
  BY <1>1, <1>2 DEF IInv, StartsOver, StoredSoFar, ShownSoFar, EngineWhole, file
<1>6. InfoRunsToEnd'
  <2> SUFFICES ASSUME NEW i \in DOMAIN shown, Info(i)
               PROVE  \E k \in 0 .. NumCU : /\ shown[i].cus = SubSeq(Whole, k + 1, NumCU)
                                            /\ shown[i].alone => k = 0
    BY <1>1 DEF InfoRunsToEnd, Info
  <2>1. CASE i # Len(shown)
    BY <2>1 DEF IInv, InfoRunsToEnd, Partial
  <2>2. CASE i = Len(shown)
    <3>1. dbg /\ position = NumCU
      BY <1>1, <2>2 DEF IInv, ShownSoFar, Info, Exhausted
    <3> QED BY <1>1, <2>2, <3>1 DEF IInv, ShownSoFar
  <2> QED BY <2>1, <2>2
<1> QED BY <1>3, <1>4, <1>5, <1>6 DEF IInv

-----------------------------------------------------------------------------
\* Every step of the program keeps the invariant.
LEMMA NextKeepsIInv == IInv /\ [Next]_vars => IInv'
<1> SUFFICES ASSUME IInv, [Next]_vars PROVE IInv'
  OBVIOUS
<1>1. next \in 1 .. Len(layout) + 1 /\ Len(layout) \in Nat
  BY LayoutIsSeq DEF IInv, TypeOK
<1>2. CASE Disassemble
  <2>1. CASE opts.pe
    <3>1. pc' \in {"disassemble", "closing"}
      BY <1>2 DEF Disassemble
    <3> QED BY <1>1, <1>2, <2>1, <3>1, QuietKeeps DEF Disassemble
  <2>2. CASE ~opts.pe
    BY <1>2, <2>2, OpeningKeeps DEF Disassemble
  <2> QED BY <2>1, <2>2
<1>3. CASE SkipDisassembly
  BY <1>1, <1>3, QuietKeeps DEF SkipDisassembly
<1>4. CASE DisassembleSection
  <2>1. next' \in 1 .. Len(layout) + 1
    BY <1>1, <1>4 DEF DisassembleSection
  <2>2. CASE Lookup("disassemble")
    BY <1>4, <2>1, <2>2, LookupKeeps DEF DisassembleSection
  <2>3. CASE pc' = pc /\ UNCHANGED <<ret, building>>
    BY <1>4, <2>1, <2>3, QuietKeeps DEF DisassembleSection
  <2> QED BY <1>4, <2>2, <2>3 DEF DisassembleSection
<1>5. CASE EndDisassembly
  BY <1>1, <1>5, QuietKeeps DEF EndDisassembly
<1>6. CASE CloseDisassembly
  <2>1. next' \in 1 .. Len(layout) + 1
    BY <1>1, <1>6 DEF CloseDisassembly
  <2>2. CASE opts.pe
    BY <1>6, <2>1, <2>2, QuietKeeps DEF CloseDisassembly
  <2>3. CASE ~opts.pe
    BY <1>6, <2>1, <2>3, ClosingKeeps DEF CloseDisassembly
  <2> QED BY <2>2, <2>3
<1>7. CASE DumpDwarf
  BY <1>7, OpeningKeeps DEF DumpDwarf
<1>8. CASE SkipDwarf
  BY <1>1, <1>8, QuietKeeps DEF SkipDwarf
<1>9. CASE EndDwarf
  BY <1>1, <1>9, ClosingKeeps DEF EndDwarf
<1>10. CASE DumpOther
  <2>1. next' \in 1 .. Len(layout) + 1 /\ pc = "dwarf"
    BY <1>1, <1>10 DEF DumpOther, AtSection
  <2> QED BY <1>10, <2>1, QuietKeeps DEF DumpOther
<1>11. CASE DumpFrames
  <2>1. next' \in 1 .. Len(layout) + 1 /\ pc = "dwarf"
    BY <1>1, <1>11 DEF DumpFrames, AtSection
  <2>2. CASE Lookup("dwarf")
    BY <1>11, <2>1, <2>2, LookupKeeps DEF DumpFrames
  <2>3. CASE UNCHANGED <<pc, ret, building>>
    BY <1>11, <2>1, <2>3, QuietKeeps DEF DumpFrames
  <2> QED BY <1>11, <2>2, <2>3 DEF DumpFrames
<1>12. CASE UNCHANGED vars
  BY <1>12 DEF vars, IInv, TypeOK, HandlePlaced, OpenPlaces, StartsOver, StoredSoFar, ShownSoFar,
               InfoRunsToEnd, Info, Partial, EngineWhole
<1> QED BY <1>2, <1>3, <1>4, <1>5, <1>6, <1>7, <1>8, <1>9, <1>10, <1>11, <1>12,
           DumpLineKeeps, DumpInfoKeeps, DumpUnitKeeps, EndInfoKeeps, BuildingKeeps DEF Next, Stop

\* The invariant holds in every reachable state of the program.
THEOREM AlwaysIInv == Spec => []IInv
BY InitIInv, NextKeepsIInv, PTL DEF Spec

\* Type correctness: libdwarf's position, the handle, the engine and the
\* output stay in their ranges whatever the file and the options are.
THEOREM TypeCorrect == Spec => []TypeOK
<1>1. IInv => TypeOK
  BY DEF IInv
<1> QED BY <1>1, AlwaysIInv, PTL

\* Every .debug_info dump goes on to the last unit, and shows all of them when
\* only .debug_info dumps ran since ocdwarf_open (ocdwarf_debug_info).
THEOREM AlwaysInfoRunsToEnd == Spec => []InfoRunsToEnd
<1>1. IInv => InfoRunsToEnd
  BY DEF IInv
<1> QED BY <1>1, AlwaysIInv, PTL

\* The engine that the first lookup builds misses no unit of a well-formed
\* file, although libdwarf's position is shared with the dumps (execute_inf).
THEOREM AlwaysEngineWhole == Spec => []EngineWhole
<1>1. IInv => EngineWhole
  BY DEF IInv
<1> QED BY <1>1, AlwaysIInv, PTL

\* No handle is left open when do_object is done with a file.
THEOREM AlwaysClosedAtEnd == Spec => []ClosedAtEnd
<1>1. IInv => ClosedAtEnd
  BY DEF IInv, HandlePlaced, OpenPlaces, ClosedAtEnd
<1> QED BY <1>1, AlwaysIInv, PTL
=============================================================================
