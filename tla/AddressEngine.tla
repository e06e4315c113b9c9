---------------------------- MODULE AddressEngine ----------------------------
(***************************************************************************)
(* The address engine (opcode-engine.c): an array of groups sorted by      *)
(* address, grown Step slots at a time, filled by ocdwarf_create           *)
(* (ocdwarf-engine.c) and opcode_create (opcode-engine-got.c), and then    *)
(* asked by the printers.  One thread runs it, so a call is one step.      *)
(***************************************************************************)
EXTENDS EngineData, FiniteSets

CONSTANTS
  Step,       \* OPENGINE_MAXSIZE, 1000 in the code
  MaxGroups   \* bound on the addresses of one file

ASSUME StepAssumption == Step \in Nat \ {0} /\ MaxGroups \in Nat

VARIABLES
  stage,      \* which loop of oecreate_engine runs; "ready" once it returned
  groups,     \* the allocated slots, 0 .. sizemax-1
  size, sizemax,
  cpos,       \* where the last scan stopped
  answer      \* what the last question got

vars == <<stage, groups, size, sizemax, cpos, answer>>

Group == [vaddr : Addr, debug : Debug \cup {NoDebug}, symbol : Symbol \cup {NoSymbol}]

\* A slot as xmalloc leaves it.
Clear == [vaddr |-> 0, debug |-> NoDebug, symbol |-> NoSymbol]

Used == 0 .. size - 1

NoAnswer == [question |-> "none", of |-> 0, got |-> NoDebug]

TypeOK ==
  /\ stage \in {"inf", "src", "acc", "got", "ready"}
  /\ size \in Nat /\ sizemax \in Nat
  /\ groups \in [0 .. sizemax - 1 -> Group]
  /\ cpos \in 0 .. size
  /\ answer \in [question : Questions \cup {"none"}, of : Addr,
                 got : Debug \cup {NoDebug} \cup Symbol \cup {NoSymbol}]

\* emalloc
Init ==
  /\ stage = "inf"
  /\ sizemax = Step
  /\ groups = [i \in 0 .. Step - 1 |-> Clear]
  /\ size = 0
  /\ cpos = 0
  /\ answer = NoAnswer

-----------------------------------------------------------------------------
(***************************************************************************)
(* A scan runs up the array to the first slot that stops it, or to size.   *)
(***************************************************************************)
StopsAt(stops, i) ==
  /\ i \in stops \cup {size}
  /\ \A j \in stops : i <= j

FirstStop(stops) == CHOOSE i \in 0 .. size : StopsAt(stops, i)

\* Mutant of SeeStops: the scan runs past an equal address.
SeeStopsPast(v) == {i \in Used : v < groups[i].vaddr}

\* oeseebyaddr stops at an equal or a larger address.
SeeStops(v) == {i \in Used : v <= groups[i].vaddr}

SeePos(v) == FirstStop(SeeStops(v))

Found(v) == SeePos(v) < size /\ groups[SeePos(v)].vaddr = v

\* oeaskbyaddr stops past the address, or at an object that covers it.
DebugStops(v) == {i \in Used : Covers(groups[i].debug, v)}
SymbolStops(v) == {i \in Used : LET s == groups[i].symbol
                                IN  s # NoSymbol /\ s.laddr <= v /\ v <= s.haddr}
Beyond(v) == {i \in Used : v < groups[i].vaddr}

(***************************************************************************)
(* oegetbyaddr in group mode answers the group of v.  When there is none   *)
(* it grows a full array, moves the slots from cpos up by one and clears   *)
(* the slot at cpos for v.  Put also stores g there, what the callers      *)
(* change in the group they got.                                           *)
(***************************************************************************)
\* Mutant of GroupOf: the freed slot is not cleared.
GroupOfUncleared(v) ==
  IF Found(v) THEN groups[SeePos(v)]
  ELSE [(IF SeePos(v) < size THEN groups[SeePos(v)] ELSE Clear) EXCEPT !.vaddr = v]

GroupOf(v) == IF Found(v) THEN groups[SeePos(v)] ELSE [Clear EXCEPT !.vaddr = v]

\* Mutant of Room: the array grows one insertion too late.
RoomLate(v) == IF ~Found(v) /\ size > sizemax THEN sizemax + Step ELSE sizemax

Room(v) == IF ~Found(v) /\ size = sizemax THEN sizemax + Step ELSE sizemax

Slot(i) == IF i < sizemax THEN groups[i] ELSE Clear

Shifted(v, g) ==
  [i \in 0 .. Room(v) - 1 |->
     IF i = SeePos(v) THEN g
     ELSE IF SeePos(v) < i /\ i <= size THEN Slot(i - 1) ELSE Slot(i)]

\* Mutant of Put: the insertion that grows the array forgets to count itself.
PutUncounted(v, g) ==
  /\ sizemax' = Room(v)
  /\ IF Found(v)
     THEN groups' = [groups EXCEPT ![SeePos(v)] = g] /\ size' = size
     ELSE /\ groups' = Shifted(v, g)
          /\ size' = IF Room(v) = sizemax THEN size + 1 ELSE size
  /\ cpos' = SeePos(v)

Put(v, g) ==
  /\ sizemax' = Room(v)
  /\ IF Found(v)
     THEN groups' = [groups EXCEPT ![SeePos(v)] = g] /\ size' = size
     ELSE groups' = Shifted(v, g) /\ size' = size + 1
  /\ cpos' = SeePos(v)

HasRoom(v) == Found(v) \/ size < MaxGroups

OwnDebug(v) == IF GroupOf(v).debug = NoDebug THEN odmalloc(v) ELSE GroupOf(v).debug

\* execute_store_sp
StoreSubprogram(s) ==
  /\ stage = "inf" /\ HasRoom(s.low)
  /\ Put(s.low, [GroupOf(s.low) EXCEPT !.debug = Describe(OwnDebug(s.low), s)])
  /\ UNCHANGED <<stage, answer>>

\* One row of execute_src's loop.
StoreRow(r) ==
  /\ stage = "src" /\ HasRoom(r.pc)
  /\ Put(r.pc, [GroupOf(r.pc) EXCEPT !.debug = Locate(OwnDebug(r.pc), r)])
  /\ UNCHANGED <<stage, answer>>

\* Mutant of PrevSourced: prev_* hold the last group, with a source or not.
PrevGroup(i) == IF i = 0 THEN NoDebug ELSE groups[i - 1].debug

\* execute_acc walks every group; prev_* hold the last group with a source.
PrevSourced(i) ==
  LET below == {j \in 0 .. i - 1 : HasSource(groups[j].debug)}
  IN  IF below = {} THEN NoDebug
      ELSE groups[CHOOSE j \in below : \A k \in below : k <= j].debug

ExecuteAcc ==
  /\ stage = "acc"
  /\ groups' = [i \in 0 .. sizemax - 1 |->
       IF i < size THEN [groups[i] EXCEPT !.debug = Illustrate(PrevSourced(i), @)]
       ELSE groups[i]]
  /\ cpos' = size
  /\ stage' = "got"
  /\ UNCHANGED <<size, sizemax, answer>>

\* Mutant of ExecuteNew: the stubs come before the snippets.
ExecuteNewEarly(v, n) ==
  /\ stage \in {"acc", "got"} /\ HasRoom(v)
  /\ Put(v, [GroupOf(v) EXCEPT !.symbol = osmalloc(v, n)])
  /\ UNCHANGED <<stage, answer>>

\* execute_new, called for each stub of a PLT section.
ExecuteNew(v, n) ==
  /\ stage = "got" /\ HasRoom(v)
  /\ Put(v, [GroupOf(v) EXCEPT !.symbol =
       IF @ = NoSymbol THEN osmalloc(v, n) ELSE [@ EXCEPT !.name = n]])
  /\ UNCHANGED <<stage, answer>>

\* A loop of oecreate_engine runs out of input.
NextStage ==
  /\ \/ stage = "inf" /\ stage' = "src"
     \/ stage = "src" /\ stage' = "acc"
     \/ stage = "got" /\ stage' = "ready"
  /\ UNCHANGED <<groups, size, sizemax, cpos, answer>>

-----------------------------------------------------------------------------
(***************************************************************************)
(* The questions.  oeaskbyaddr answers the group before the stop when the  *)
(* scan stops past the address, whatever it was asked for; isodebug and    *)
(* isosymbol tell its callers that a group is not what they wanted.  It    *)
(* answers NULL when nothing stops the scan.                               *)
(***************************************************************************)
SeeDebug(v) == IF Found(v) THEN groups[SeePos(v)].debug ELSE NoDebug

\* Mutant of AskDebug: the scan gives up at an equal address.
AskDebugShort(v) ==
  LET i == FirstStop(Beyond(v) \cup DebugStops(v))
  IN  IF i = size \/ v <= groups[i].vaddr THEN NoDebug ELSE groups[i].debug

AskDebug(v) ==
  LET i == FirstStop(Beyond(v) \cup DebugStops(v))
  IN  IF i = size \/ v < groups[i].vaddr THEN NoDebug ELSE groups[i].debug

AskSymbol(v) ==
  LET i == FirstStop(Beyond(v) \cup SymbolStops(v))
  IN  IF i = size \/ v < groups[i].vaddr THEN NoSymbol ELSE groups[i].symbol

\* Mutant of AskGroup: the last group is answered when nothing stops the scan.
AskGroupLast(v) ==
  LET i == FirstStop(Beyond(v))
  IN  IF i = 0 THEN NoSymbol ELSE groups[i - 1].symbol

AskGroup(v) ==
  LET i == FirstStop(Beyond(v))
  IN  IF i = size \/ i = 0 THEN NoSymbol ELSE groups[i - 1].symbol

Asked(q, v, got, pos) ==
  /\ stage = "ready"
  /\ answer' = [question |-> q, of |-> v, got |-> got]
  /\ cpos' = pos
  /\ UNCHANGED <<stage, groups, size, sizemax>>

\* ocget_symbol and the .eh_frame dump: the debug entry at exactly v
SeeDebugAt(v) == Asked("SeeDebug", v, SeeDebug(v), SeePos(v))

\* ocget_symbol and ocget_func: a debug entry that covers v
AskDebugAt(v) ==
  Asked("AskDebug", v, AskDebug(v), FirstStop(Beyond(v) \cup DebugStops(v)))

\* ocget_symbol: the PLT stub that v is
AskSymbolAt(v) ==
  Asked("AskSymbol", v, AskSymbol(v), FirstStop(Beyond(v) \cup SymbolStops(v)))

\* ocget_func: the PLT stub of the group v lies in
AskGroupAt(v) == Asked("AskGroup", v, AskGroup(v), FirstStop(Beyond(v)))

Next ==
  \/ \E s \in Subprogram : StoreSubprogram(s)
  \/ \E r \in Row : StoreRow(r)
  \/ ExecuteAcc
  \/ \E v \in Addr, n \in Names : ExecuteNew(v, n)
  \/ NextStage
  \/ \E v \in Addr : SeeDebugAt(v) \/ AskDebugAt(v) \/ AskSymbolAt(v) \/ AskGroupAt(v)

Spec == Init /\ [][Next]_vars

-----------------------------------------------------------------------------
\* The array never outgrows its allocation: the insertion of oegetbyaddr
\* (opcode-engine.c:161-176) writes slot size after the growth, never past it.
InRoom == size <= sizemax

\* The scans stop early because the groups are sorted by address, and an
\* address has one group however often DIEs, rows and stubs name it.
Sorted == \A i, j \in Used : i < j => groups[i].vaddr < groups[j].vaddr

\* The entries of a group describe its own address.
OwnGroup(g) ==
  /\ g.debug # NoDebug => g.debug.laddr = g.vaddr
  /\ g.symbol # NoSymbol => g.symbol.laddr = g.vaddr /\ g.symbol.haddr = g.vaddr

\* An entry stays with the group of its own address when slots move, which
\* is what makes laddr usable as the key of a lookup.
OwnAddress == \A i \in Used : OwnGroup(groups[i])

\* execute_acc (ocdwarf-engine.c:311-340) dereferences the debug entry of
\* every group unchecked: it must run before opcode_create adds PLT groups,
\* which have none.
AccSafe == stage \in {"inf", "src", "acc"} => \A i \in Used : groups[i].debug # NoDebug

\* oeaskbyaddr finds a function from every address it covers, although it
\* gives up at the first group beyond the address.
CoveredIsFound ==
  \A v \in Addr : (\E i \in Used : Covers(groups[i].debug, v)) => Covers(AskDebug(v), v)

\* A PLT stub is found at its address whatever functions surround it.
StubIsFound ==
  \A i \in Used : groups[i].symbol # NoSymbol =>
                    AskSymbol(groups[i].vaddr) = groups[i].symbol

\* What is covered is found, function or stub, although both scans of the
\* lookups stop early (oeaskbyaddr, opcode-engine.c:120-146).
CoveredAnswers == CoveredIsFound /\ StubIsFound

\* A store disturbs no other address: after a DIE, a row or a stub is put at
\* cpos, whatever was known of another address is still in the array.
Kept(i) == \E j \in Used' : groups'[j] = groups[i]

Stores == stage # "acc" /\ groups' # groups

OthersKept ==
  [][Stores => \A i \in Used : groups[i].vaddr # groups'[cpos'].vaddr => Kept(i)]_vars

(***************************************************************************)
(* The abstract table the array stands for.                                *)
(***************************************************************************)
Recorded == {groups[i].vaddr : i \in Used}

Known ==
  [a \in Recorded |->
     LET g == groups[CHOOSE i \in Used : groups[i].vaddr = a]
     IN  [debug |-> g.debug, symbol |-> g.symbol]]

Map == INSTANCE AddressMap WITH known <- Known

\* The engine answers every question as the abstract table does.
ImplementsMap == Map!Spec
=============================================================================
