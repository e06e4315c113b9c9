------------------------- MODULE AddressEngineProofs -------------------------
(***************************************************************************)
(* Type correctness and the safety of the sorted array of AddressEngine,   *)
(* for every number of addresses, step, and bound on the groups, and that  *)
(* it implements the table of AddressMap.                                  *)
(***************************************************************************)
EXTENDS AddressEngine, NaturalRecursion

(***************************************************************************)
(* A scan stops: a set of slots has a lowest one (LeastNatural).           *)
(***************************************************************************)

\* Every set of slot numbers below a bound has a greatest member, the one met
\* last.
LEMMA GreatestBelow ==
  ASSUME NEW n \in Nat, NEW T, T \subseteq 0 .. n - 1, T # {}
  PROVE  \E x \in T : \A y \in T : y <= x
<1> DEFINE above == {m \in Nat : \E x \in T : m = n - x}
<1>1. above \subseteq Nat /\ above # {}
  <2>1. PICK x \in T : TRUE
    OBVIOUS
  <2>2. n - x \in above
    BY <2>1
  <2> QED BY <2>2
<1>2. PICK m \in above : \A k \in above : m <= k
  BY <1>1, LeastNatural
<1>3. PICK x \in T : m = n - x
  BY <1>2
<1>4. ASSUME NEW y \in T PROVE y <= x
  <2>1. n - y \in above
    OBVIOUS
  <2> QED BY <1>2, <1>3, <2>1
<1> QED BY <1>4

\* A scan of the array stops at one of its stops, or at size when it has none.
LEMMA ScanStops ==
  ASSUME size \in Nat, NEW stops, stops \subseteq Used
  PROVE  /\ FirstStop(stops) \in 0 .. size
         /\ FirstStop(stops) \in stops \cup {size}
         /\ \A j \in stops : FirstStop(stops) <= j
<1>1. \E i \in 0 .. size : StopsAt(stops, i)
  <2>1. CASE stops = {}
    BY <2>1 DEF StopsAt
  <2>2. CASE stops # {}
    <3>1. stops \subseteq Nat
      BY DEF Used
    <3>2. PICK x \in stops : \A y \in stops : x <= y
      BY <2>2, <3>1, LeastNatural
    <3> QED BY <3>2 DEF StopsAt, Used
  <2> QED BY <2>1, <2>2
<1>2. StopsAt(stops, FirstStop(stops)) /\ FirstStop(stops) \in 0 .. size
  BY <1>1 DEF FirstStop
<1> QED BY <1>2 DEF StopsAt

\* The scan of oeseebyaddr: what lies below cpos is below v, what lies at or
\* above it is not.
LEMMA SeeSplits ==
  ASSUME TypeOK, InRoom, Sorted, NEW v \in Addr
  PROVE  /\ SeePos(v) \in 0 .. size
         /\ \A i \in Used : i < SeePos(v) => groups[i].vaddr < v
         /\ \A i \in Used : SeePos(v) <= i => v <= groups[i].vaddr
<1>1. size \in Nat /\ SeeStops(v) \subseteq Used
  BY DEF TypeOK, SeeStops
<1>2. /\ SeePos(v) \in 0 .. size
      /\ SeePos(v) \in SeeStops(v) \cup {size}
      /\ \A j \in SeeStops(v) : SeePos(v) <= j
  BY <1>1, ScanStops DEF SeePos
<1>3. \A i \in Used : groups[i].vaddr \in Nat
  BY DEF TypeOK, InRoom, Used, Group, Addr
<1>4. ASSUME NEW i \in Used, i < SeePos(v) PROVE groups[i].vaddr < v
  <2>1. i \notin SeeStops(v)
    BY <1>2, <1>4 DEF Used, SeeStops
  <2> QED BY <1>3, <2>1 DEF SeeStops, Addr
<1>5. ASSUME NEW i \in Used, SeePos(v) <= i PROVE v <= groups[i].vaddr
  <2>1. SeePos(v) \in SeeStops(v)
    BY <1>2, <1>5 DEF Used
  <2>2. v <= groups[SeePos(v)].vaddr /\ SeePos(v) \in Used
    BY <2>1 DEF SeeStops
  <2>3. groups[SeePos(v)].vaddr <= groups[i].vaddr
    <3>1. CASE SeePos(v) = i
      BY <1>3, <3>1
    <3>2. CASE SeePos(v) < i
      BY <1>3, <2>2, <3>2 DEF Sorted
    <3> QED BY <1>2, <1>5, <3>1, <3>2 DEF Used
  <2> QED BY <1>3, <2>2, <2>3 DEF Addr
<1> QED BY <1>2, <1>4, <1>5
-----------------------------------------------------------------------------
(***************************************************************************)
(* One insertion.  Ordered gathers what every store needs and keeps.       *)
(***************************************************************************)
Ordered == TypeOK /\ InRoom /\ Sorted /\ OwnAddress

\* The slots below size are groups.
LEMMA UsedSlots ==
  ASSUME TypeOK, InRoom
  PROVE  \A i \in Used : groups[i] \in Group /\ groups[i].vaddr \in Addr /\ i \in 0 .. sizemax - 1
BY DEF TypeOK, InRoom, Used, Group

\* What oegetbyaddr answers for v is a group of v.
LEMMA GroupOfOwn ==
  ASSUME Ordered, NEW v \in Addr
  PROVE  GroupOf(v) \in Group /\ GroupOf(v).vaddr = v /\ OwnGroup(GroupOf(v))
<1>1. CASE Found(v)
  <2>1. SeePos(v) \in Used /\ groups[SeePos(v)].vaddr = v
    BY <1>1, SeeSplits DEF Found, Ordered, Used, TypeOK
  <2>2. groups[SeePos(v)] \in Group /\ OwnGroup(groups[SeePos(v)])
    BY <2>1, UsedSlots DEF Ordered, OwnAddress
  <2> QED BY <1>1, <2>1, <2>2 DEF GroupOf
<1>2. CASE ~Found(v)
  <2>1. GroupOf(v) = [vaddr |-> v, debug |-> NoDebug, symbol |-> NoSymbol]
    BY <1>2 DEF GroupOf, Clear
  <2> QED BY <2>1 DEF Group, OwnGroup
<1> QED BY <1>1, <1>2

\* The debug entry a store starts from is one of v.
LEMMA OwnDebugOwn ==
  ASSUME Ordered, NEW v \in Addr
  PROVE  OwnDebug(v) \in Debug /\ OwnDebug(v).laddr = v
<1>1. GroupOf(v) \in Group /\ GroupOf(v).vaddr = v /\ OwnGroup(GroupOf(v))
  BY GroupOfOwn
<1>2. CASE GroupOf(v).debug = NoDebug
  <2>1. OwnDebug(v) = odmalloc(v)
    BY <1>2 DEF OwnDebug
  <2> QED BY <2>1 DEF odmalloc, Debug
<1>3. CASE GroupOf(v).debug # NoDebug
  BY <1>1, <1>3 DEF OwnDebug, OwnGroup, Group
<1> QED BY <1>2, <1>3

\* After a store of a group that was there, slot SeePos holds the new group
\* and the others are as they were.
LEMMA PutFound ==
  ASSUME Ordered, NEW v \in Addr, NEW g, Found(v), Put(v, g)
  PROVE  /\ size' = size /\ sizemax' = sizemax /\ SeePos(v) \in Used
         /\ groups' = [groups EXCEPT ![SeePos(v)] = g]
         /\ cpos' = SeePos(v)
BY SeeSplits DEF Put, Room, Found, Ordered, Used, TypeOK

\* After a store of a new group the array has it at SeePos, the lower groups
\* where they were and the higher ones a slot up.
LEMMA PutNew ==
  ASSUME Ordered, NEW v \in Addr, NEW g \in Group, ~Found(v), Put(v, g)
  PROVE  /\ size' = size + 1 /\ sizemax' \in Nat /\ size' <= sizemax'
         /\ groups' \in [0 .. sizemax' - 1 -> Group]
         /\ SeePos(v) \in 0 .. size /\ cpos' = SeePos(v)
         /\ \A i \in 0 .. size :
              groups'[i] = IF i < SeePos(v) THEN groups[i]
                           ELSE IF i = SeePos(v) THEN g ELSE groups[i - 1]
<1> DEFINE p == SeePos(v)
<1>1. size \in Nat /\ sizemax \in Nat /\ size <= sizemax /\ p \in 0 .. size
  BY SeeSplits DEF Ordered, TypeOK, InRoom
<1>2. size' = size + 1 /\ sizemax' = Room(v) /\ groups' = Shifted(v, g) /\ cpos' = p
  BY DEF Put
<1>3. Room(v) \in Nat /\ size + 1 <= Room(v) /\ sizemax <= Room(v)
  BY <1>1, StepAssumption DEF Room
<1>4. \A i \in 0 .. Room(v) - 1 : Slot(i) \in Group
  <2>1. Clear \in Group
    BY WAssumption DEF Clear, Group, Addr
  <2> QED BY <1>1, <2>1 DEF Slot, Ordered, TypeOK
<1>5. Shifted(v, g) \in [0 .. Room(v) - 1 -> Group]
  <2>1. ASSUME NEW i \in 0 .. Room(v) - 1
        PROVE  (IF i = p THEN g ELSE IF p < i /\ i <= size THEN Slot(i - 1) ELSE Slot(i)) \in Group
    BY <1>1, <1>3, <1>4
  <2> QED BY <2>1 DEF Shifted
<1>6. ASSUME NEW i \in 0 .. size
      PROVE  groups'[i] = IF i < p THEN groups[i] ELSE IF i = p THEN g ELSE groups[i - 1]
  <2>1. i \in 0 .. Room(v) - 1
    BY <1>1, <1>3
  <2>2. groups'[i] = IF i = p THEN g ELSE IF p < i /\ i <= size THEN Slot(i - 1) ELSE Slot(i)
    BY <1>2, <2>1 DEF Shifted
  <2> QED BY <1>1, <2>2 DEF Slot
<1> QED BY <1>1, <1>2, <1>3, <1>5, <1>6

\* A store leaves in every used slot the stored group or one that was there.
LEMMA PutOrigin ==
  ASSUME Ordered, NEW v \in Addr, NEW g \in Group, Put(v, g)
  PROVE  \A i \in Used' : groups'[i] = g \/ \E j \in Used : groups'[i] = groups[j]
<1>1. CASE Found(v)
  BY <1>1, PutFound DEF Used, Ordered, TypeOK, InRoom
<1>2. CASE ~Found(v)
  <2>1. SUFFICES ASSUME NEW i \in Used'
                 PROVE  groups'[i] = g \/ \E j \in Used : groups'[i] = groups[j]
    OBVIOUS
  <2>2. /\ size' = size + 1 /\ size \in Nat /\ i \in 0 .. size /\ SeePos(v) \in 0 .. size
        /\ groups'[i] = IF i < SeePos(v) THEN groups[i]
                        ELSE IF i = SeePos(v) THEN g ELSE groups[i - 1]
    BY <1>2, <2>1, PutNew DEF Used, Ordered, TypeOK
  <2>3. CASE i < SeePos(v)
    BY <2>2, <2>3 DEF Used
  <2>4. CASE i = SeePos(v)
    BY <2>2, <2>4
  <2>5. CASE SeePos(v) < i
    <3>1. i - 1 \in Used /\ groups'[i] = groups[i - 1]
      BY <2>2, <2>5 DEF Used
    <3> QED BY <3>1
  <2> QED BY <2>2, <2>3, <2>4, <2>5
<1> QED BY <1>1, <1>2

\* A store keeps the array in its allocation, sorted, and made of groups that
\* describe their own address: this is where the scan of oegetbyaddr, its
\* growth and its move of the slots have to agree.
LEMMA PutKeepsOrder ==
  ASSUME Ordered, NEW v \in Addr, NEW g \in Group, g.vaddr = v, OwnGroup(g), Put(v, g)
  PROVE  /\ size' \in Nat /\ sizemax' \in Nat /\ cpos' \in 0 .. size'
         /\ groups' \in [0 .. sizemax' - 1 -> Group]
         /\ InRoom' /\ Sorted' /\ OwnAddress'
<1> DEFINE p == SeePos(v)
<1>1. /\ size \in Nat /\ sizemax \in Nat /\ size <= sizemax
      /\ groups \in [0 .. sizemax - 1 -> Group] /\ p \in 0 .. size /\ v \in Nat
  BY SeeSplits DEF Ordered, TypeOK, InRoom, Addr
<1>2. /\ \A i \in Used : i < p => groups[i].vaddr < v
      /\ \A i \in Used : p <= i => v <= groups[i].vaddr
      /\ \A i \in Used : groups[i].vaddr \in Nat
  BY SeeSplits, UsedSlots DEF Ordered, Addr
<1>3. OwnAddress'
  <2>1. \A i \in Used' : groups'[i] = g \/ \E j \in Used : groups'[i] = groups[j]
    BY PutOrigin
  <2> QED BY <2>1 DEF OwnAddress, Ordered, OwnGroup
<1>4. CASE Found(v)
  <2>1. /\ size' = size /\ sizemax' = sizemax /\ p \in Used /\ cpos' = p
        /\ groups' = [groups EXCEPT ![p] = g]
    BY <1>4, PutFound
  <2>2. groups' \in [0 .. sizemax' - 1 -> Group]
    BY <1>1, <2>1
  <2>3. \A i \in Used : groups'[i].vaddr = groups[i].vaddr
    BY <1>1, <1>4, <2>1 DEF Found, Used
  <2>4. Sorted'
    BY <2>1, <2>3 DEF Sorted, Ordered, Used
  <2> QED BY <1>1, <1>3, <2>1, <2>2, <2>4 DEF InRoom
<1>5. CASE ~Found(v)
  <2>1. /\ size' = size + 1 /\ sizemax' \in Nat /\ size' <= sizemax' /\ cpos' = p
        /\ groups' \in [0 .. sizemax' - 1 -> Group]
    BY <1>5, PutNew
  <2>2. \A i \in 0 .. size :
          groups'[i] = IF i < p THEN groups[i] ELSE IF i = p THEN g ELSE groups[i - 1]
    BY <1>5, PutNew
  <2>3. \A i \in Used : p <= i => v < groups[i].vaddr
    <3>1. SUFFICES ASSUME NEW i \in Used, p <= i PROVE v # groups[i].vaddr
      BY <1>1, <1>2
    <3>2. p \in Used /\ groups[p].vaddr # v /\ v <= groups[p].vaddr
      BY <1>1, <1>2, <1>5, <3>1 DEF Found, Used
    <3>3. groups[p].vaddr <= groups[i].vaddr
      BY <1>1, <1>2, <3>1, <3>2 DEF Ordered, Sorted, Used
    <3> QED BY <1>1, <1>2, <3>1, <3>2, <3>3
  <2>4. Sorted'
    <3>0. Used' = 0 .. size
      BY <1>1, <2>1 DEF Used
    <3>1. SUFFICES ASSUME NEW i \in 0 .. size, NEW j \in 0 .. size, i < j
                   PROVE  groups'[i].vaddr < groups'[j].vaddr
      BY <3>0 DEF Sorted
    <3>2. /\ groups'[i] = IF i < p THEN groups[i] ELSE IF i = p THEN g ELSE groups[i - 1]
          /\ groups'[j] = IF j < p THEN groups[j] ELSE IF j = p THEN g ELSE groups[j - 1]
      BY <2>2
    <3>3. CASE j < p
      <4>1. groups'[i] = groups[i] /\ groups'[j] = groups[j] /\ i \in Used /\ j \in Used
        BY <1>1, <3>1, <3>2, <3>3 DEF Used
      <4> QED BY <3>1, <4>1 DEF Ordered, Sorted
    <3>4. CASE j = p
      <4>1. groups'[i] = groups[i] /\ groups'[j] = g /\ i \in Used /\ i < p
        BY <1>1, <3>1, <3>2, <3>4 DEF Used
      <4> QED BY <1>2, <4>1
    <3>5. CASE p < j /\ i < p
      <4>1. /\ groups'[i] = groups[i] /\ groups'[j] = groups[j - 1]
            /\ i \in Used /\ j - 1 \in Used /\ p <= j - 1
        BY <1>1, <3>1, <3>2, <3>5 DEF Used
      <4>2. groups[i].vaddr < v /\ v < groups[j - 1].vaddr
        BY <1>2, <2>3, <3>5, <4>1
      <4> QED BY <1>1, <1>2, <4>1, <4>2
    <3>6. CASE p < j /\ i = p
      <4>1. groups'[i] = g /\ groups'[j] = groups[j - 1] /\ j - 1 \in Used /\ p <= j - 1
        BY <1>1, <3>1, <3>2, <3>6 DEF Used
      <4> QED BY <2>3, <4>1
    <3>7. CASE p < j /\ p < i
      <4>1. /\ groups'[i] = groups[i - 1] /\ groups'[j] = groups[j - 1]
            /\ i - 1 \in Used /\ j - 1 \in Used /\ i - 1 < j - 1
        BY <1>1, <3>1, <3>2, <3>7 DEF Used
      <4> QED BY <4>1 DEF Ordered, Sorted
    <3> QED BY <1>1, <3>1, <3>3, <3>4, <3>5, <3>6, <3>7
  <2>5. size' \in Nat /\ cpos' \in 0 .. size'
    BY <1>1, <2>1
  <2>6. InRoom'
    BY <2>1 DEF InRoom
  <2> QED BY <1>3, <2>1, <2>4, <2>5, <2>6
<1> QED BY <1>4, <1>5

-----------------------------------------------------------------------------
(***************************************************************************)
(* What a store writes: an entry of the DIE's, row's or stub's own address.*)
(***************************************************************************)
\* A DIE turns an entry of its address into another one.
LEMMA DescribeOwn ==
  ASSUME NEW d \in Debug, NEW s \in Subprogram
  PROVE  Describe(d, s) \in Debug /\ Describe(d, s).laddr = d.laddr
<1>1. s.len # Absent => Wrap(d.laddr + s.len) \in Addr
  <2>1. d.laddr \in 0 .. W - 1 /\ W \in Nat
    BY WAssumption DEF Debug, Addr
  <2>2. s.len # Absent => s.len \in Nat /\ s.len < W
    BY LensAssumption DEF Subprogram
  <2> QED BY <2>1, <2>2 DEF Wrap, Addr
<1>2. s.line # Absent => s.line + 1 \in Nat
  <2>1. s.line \in Lines \cup {Absent}
    BY DEF Subprogram
  <2>2. s.line # Absent => s.line \in Nat
    BY <2>1, LinesAssumption
  <2> QED BY <2>2
<1>3. Given(s.name, d.name) \in Names \cup {Absent} /\ Given(s.file, d.source) \in Files \cup {Absent}
  BY DEF Given, Subprogram, Debug
<1> QED BY <1>1, <1>2, <1>3 DEF Describe, Debug

\* So does a row.
LEMMA LocateOwn ==
  ASSUME NEW d \in Debug, NEW r \in Row
  PROVE  Locate(d, r) \in Debug /\ Locate(d, r).laddr = d.laddr
<1>1. Given(r.line, d.nline) \in Nat /\ Given(r.file, d.source) \in Files \cup {Absent}
  BY LinesAssumption DEF Given, Row, Debug
<1> QED BY <1>1 DEF Locate, Debug

\* A snippet changes nothing of an entry but the snippet.
LEMMA IllustrateOwn ==
  ASSUME NEW d \in Debug \cup {NoDebug}, NEW prev \in Debug \cup {NoDebug}
  PROVE  /\ Illustrate(prev, d) \in Debug \cup {NoDebug}
         /\ d = NoDebug => Illustrate(prev, d) = NoDebug
         /\ d # NoDebug => Illustrate(prev, d) # NoDebug /\ Illustrate(prev, d).laddr = d.laddr
<1>1. CASE ~HasSource(d)
  BY <1>1 DEF Illustrate
<1>2. CASE HasSource(d)
  <2>1. d \in Debug
    BY <1>2 DEF HasSource
  <2>2. SnippetAfter(prev, d) \in Snippet \cup {NoCode}
    <3>1. d.nline \in Nat /\ d.nline - Context \in Int
      BY <2>1 DEF Debug, Context
    <3>2. HasSource(prev) => prev.nline + 1 \in Int
      BY DEF HasSource, Debug
    <3> QED BY <3>1, <3>2 DEF SnippetAfter, Grab, Snippet
  <2>3. Illustrate(prev, d) = [d EXCEPT !.code = SnippetAfter(prev, d)]
    BY <1>2 DEF Illustrate
  <2>4. Illustrate(prev, d) \in Debug /\ Illustrate(prev, d).laddr = d.laddr
    BY <2>1, <2>2, <2>3 DEF Debug
  <2> QED BY <2>1, <2>4, NullRecordAssumption
<1> QED BY <1>1, <1>2

-----------------------------------------------------------------------------
(***************************************************************************)
(* The inductive invariant: the array is ordered, and while the line       *)
(* tables are read every group has a debug entry.                          *)
(***************************************************************************)
IInv == Ordered /\ AccSafe

\* An empty array, as emalloc leaves it, is ordered.
LEMMA InitIInv == Init => IInv
<1> SUFFICES ASSUME Init PROVE IInv
  OBVIOUS
<1> USE DEF Init
<1>1. Clear \in Group
  BY WAssumption DEF Clear, Group, Addr
<1>2. TypeOK
  <2>1. groups \in [0 .. sizemax - 1 -> Group] /\ size \in Nat /\ sizemax \in Nat /\ cpos \in 0 .. size
    BY <1>1, StepAssumption
  <2>2. answer \in [question : Questions \cup {"none"}, of : Addr,
                    got : Debug \cup {NoDebug} \cup Symbol \cup {NoSymbol}]
    BY WAssumption DEF NoAnswer, Addr
  <2> QED BY <2>1, <2>2 DEF TypeOK
<1>3. Used = {}
  BY DEF Used
<1> QED BY <1>2, <1>3, StepAssumption DEF IInv, Ordered, InRoom, Sorted, OwnAddress, AccSafe

\* A store of a group of v keeps the invariant when the group has a debug
\* entry or the line tables are done with.
LEMMA StoreKeepsIInv ==
  ASSUME IInv, NEW v \in Addr, NEW g \in Group, g.vaddr = v, OwnGroup(g), Put(v, g),
         UNCHANGED <<stage, answer>>, stage = "got" \/ g.debug # NoDebug
  PROVE  IInv'
<1>1. /\ size' \in Nat /\ sizemax' \in Nat /\ cpos' \in 0 .. size'
      /\ groups' \in [0 .. sizemax' - 1 -> Group]
      /\ InRoom' /\ Sorted' /\ OwnAddress'
  BY PutKeepsOrder DEF IInv
<1>2. TypeOK'
  BY <1>1 DEF TypeOK, IInv, Ordered
<1>3. AccSafe'
  <2>1. \A i \in Used' : groups'[i] = g \/ \E j \in Used : groups'[i] = groups[j]
    BY PutOrigin DEF IInv
  <2> QED BY <2>1 DEF AccSafe, IInv
<1> QED BY <1>1, <1>2, <1>3 DEF IInv, Ordered

\* execute_acc changes the snippets of the entries and nothing else.
LEMMA ExecuteAccKeepsIInv ==
  ASSUME IInv, ExecuteAcc
  PROVE  IInv'
<1>1. /\ size \in Nat /\ sizemax \in Nat /\ size <= sizemax /\ size' = size /\ sizemax' = sizemax
      /\ groups \in [0 .. sizemax - 1 -> Group] /\ stage' = "got" /\ cpos' = size
      /\ answer' = answer
  BY DEF IInv, Ordered, TypeOK, InRoom, ExecuteAcc
<1>2. \A i \in 0 .. sizemax - 1 :
        groups'[i] = IF i < size THEN [groups[i] EXCEPT !.debug = Illustrate(PrevSourced(i), @)]
                     ELSE groups[i]
  BY DEF ExecuteAcc
<1>3. ASSUME NEW i \in Used PROVE PrevSourced(i) \in Debug \cup {NoDebug}
  <2> DEFINE below == {j \in 0 .. i - 1 : HasSource(groups[j].debug)}
  <2>1. \A j \in below : groups[j].debug \in Debug \cup {NoDebug} /\ j \in Nat
    BY <1>1 DEF Used, Group
  <2>2. CASE below = {}
    BY <2>2 DEF PrevSourced
  <2>3. CASE below # {}
    <3>1. \E j \in below : \A k \in below : k <= j
      <4>1. i \in Nat /\ below \subseteq 0 .. i - 1
        BY <1>1 DEF Used
      <4> QED BY <2>3, <4>1, GreatestBelow
    <3>2. PrevSourced(i) = groups[CHOOSE j \in below : \A k \in below : k <= j].debug
      BY <2>3 DEF PrevSourced
    <3>3. (CHOOSE j \in below : \A k \in below : k <= j) \in below
      BY <3>1
    <3> QED BY <2>1, <3>2, <3>3
  <2> QED BY <2>2, <2>3
<1>4. ASSUME NEW i \in Used
      PROVE  groups'[i] \in Group /\ groups'[i].vaddr = groups[i].vaddr /\ OwnGroup(groups'[i])
  <2>1. groups[i] \in Group /\ OwnGroup(groups[i]) /\ i \in 0 .. sizemax - 1 /\ i < size
    BY <1>1 DEF IInv, Ordered, OwnAddress, Used
  <2>2. groups'[i] = [groups[i] EXCEPT !.debug = Illustrate(PrevSourced(i), groups[i].debug)]
    BY <1>2, <2>1
  <2> DEFINE d == Illustrate(PrevSourced(i), groups[i].debug)
  <2>3. groups[i].debug \in Debug \cup {NoDebug}
    BY <2>1 DEF Group
  <2>4. /\ d \in Debug \cup {NoDebug}
        /\ groups[i].debug = NoDebug => d = NoDebug
        /\ groups[i].debug # NoDebug => d.laddr = groups[i].debug.laddr
    BY <1>3, <2>3, IllustrateOwn
  <2>5. /\ groups'[i] \in Group /\ groups'[i].vaddr = groups[i].vaddr
        /\ groups'[i].debug = d /\ groups'[i].symbol = groups[i].symbol
    <3> HIDE DEF d
    <3> QED BY <2>1, <2>2, <2>4 DEF Group, d
  <2> QED BY <2>1, <2>4, <2>5 DEF OwnGroup
<1>5. groups' \in [0 .. sizemax' - 1 -> Group]
  <2>1. ASSUME NEW i \in 0 .. sizemax - 1 PROVE groups'[i] \in Group
    <3>1. CASE i < size
      <4>1. i \in Used
        BY <1>1, <3>1 DEF Used
      <4> QED BY <1>4, <4>1
    <3>2. CASE ~(i < size)
      BY <1>1, <1>2, <3>2
    <3> QED BY <3>1, <3>2
  <2>2. groups' = [i \in 0 .. sizemax - 1 |-> groups'[i]]
    BY DEF ExecuteAcc
  <2> QED BY <1>1, <2>1, <2>2
<1>6. TypeOK'
  BY <1>1, <1>5 DEF TypeOK, IInv, Ordered
<1>7. InRoom' /\ Sorted' /\ OwnAddress'
  BY <1>1, <1>4 DEF InRoom, Sorted, OwnAddress, Used, IInv, Ordered
<1>8. AccSafe'
  BY <1>1 DEF AccSafe
<1> QED BY <1>6, <1>7, <1>8 DEF IInv, Ordered

\* A question reads the array and moves only the cursor.
LEMMA AskKeepsIInv ==
  ASSUME IInv, NEW v \in Addr, SeeDebugAt(v) \/ AskDebugAt(v) \/ AskSymbolAt(v) \/ AskGroupAt(v)
  PROVE  IInv'
<1>1. /\ size \in Nat /\ Beyond(v) \subseteq Used
      /\ DebugStops(v) \subseteq Used /\ SymbolStops(v) \subseteq Used
  BY DEF IInv, Ordered, TypeOK, Beyond, DebugStops, SymbolStops
<1>2. \A i \in Used : /\ groups[i].debug \in Debug \cup {NoDebug}
                      /\ groups[i].symbol \in Symbol \cup {NoSymbol}
  BY UsedSlots DEF IInv, Ordered, Group
<1> DEFINE Replies == Debug \cup {NoDebug} \cup Symbol \cup {NoSymbol}
<1>3. ASSUME NEW q \in Questions, NEW got \in Replies, NEW pos \in 0 .. size, Asked(q, v, got, pos)
      PROVE  IInv'
  <2>1. /\ UNCHANGED <<stage, groups, size, sizemax>> /\ cpos' \in 0 .. size
        /\ answer' = [question |-> q, of |-> v, got |-> got]
    BY <1>3 DEF Asked
  <2>2. TypeOK'
    BY <1>3, <2>1 DEF IInv, Ordered, TypeOK
  <2> QED BY <2>1, <2>2
          DEF IInv, Ordered, InRoom, Sorted, OwnAddress, AccSafe, Used
<1>4. CASE SeeDebugAt(v)
  <2>1. SeePos(v) \in 0 .. size
    BY SeeSplits DEF IInv, Ordered
  <2>2. SeeDebug(v) \in Replies
    BY <1>1, <1>2, <2>1 DEF SeeDebug, Found, Used
  <2> QED BY <1>3, <1>4, <2>1, <2>2 DEF SeeDebugAt, Questions
<1>5. CASE AskDebugAt(v)
  <2> DEFINE i == FirstStop(Beyond(v) \cup DebugStops(v))
  <2>1. i \in 0 .. size
    BY <1>1, ScanStops
  <2>2. AskDebug(v) \in Replies
    BY <1>1, <1>2, <2>1 DEF AskDebug, Used
  <2> QED BY <1>3, <1>5, <2>1, <2>2 DEF AskDebugAt, Questions
<1>6. CASE AskSymbolAt(v)
  <2> DEFINE i == FirstStop(Beyond(v) \cup SymbolStops(v))
  <2>1. i \in 0 .. size
    BY <1>1, ScanStops
  <2>2. AskSymbol(v) \in Replies
    BY <1>1, <1>2, <2>1 DEF AskSymbol, Used
  <2> QED BY <1>3, <1>6, <2>1, <2>2 DEF AskSymbolAt, Questions
<1>7. CASE AskGroupAt(v)
  <2> DEFINE i == FirstStop(Beyond(v))
  <2>1. i \in 0 .. size
    BY <1>1, ScanStops
  <2>2. i # size /\ i # 0 => i - 1 \in Used
    BY <1>1, <2>1 DEF Used
  <2>3. AskGroup(v) \in Replies
    BY <1>2, <2>2 DEF AskGroup
  <2> QED BY <1>3, <1>7, <2>1, <2>3 DEF AskGroupAt, Questions
<1> QED BY <1>4, <1>5, <1>6, <1>7

\* Every step of the engine keeps the invariant.
LEMMA NextKeepsIInv == IInv /\ [Next]_vars => IInv'
<1> SUFFICES ASSUME IInv, [Next]_vars PROVE IInv'
  OBVIOUS
<1>1. ASSUME NEW s \in Subprogram, StoreSubprogram(s) PROVE IInv'
  <2> DEFINE g == [GroupOf(s.low) EXCEPT !.debug = Describe(OwnDebug(s.low), s)]
  <2>1. s.low \in Addr
    BY DEF Subprogram
  <2>2. GroupOf(s.low) \in Group /\ GroupOf(s.low).vaddr = s.low /\ OwnGroup(GroupOf(s.low))
    BY <2>1, GroupOfOwn DEF IInv
  <2>3. Describe(OwnDebug(s.low), s) \in Debug /\ Describe(OwnDebug(s.low), s).laddr = s.low
    BY <2>1, OwnDebugOwn, DescribeOwn DEF IInv
  <2>4. g \in Group /\ g.vaddr = s.low /\ OwnGroup(g) /\ g.debug # NoDebug
    BY <2>2, <2>3, NullRecordAssumption DEF Group, OwnGroup
  <2>5. Put(s.low, g) /\ UNCHANGED <<stage, answer>>
    BY <1>1 DEF StoreSubprogram
  <2> HIDE DEF g
  <2> QED BY <2>1, <2>4, <2>5, StoreKeepsIInv
<1>2. ASSUME NEW r \in Row, StoreRow(r) PROVE IInv'
  <2> DEFINE g == [GroupOf(r.pc) EXCEPT !.debug = Locate(OwnDebug(r.pc), r)]
  <2>1. r.pc \in Addr
    BY DEF Row
  <2>2. GroupOf(r.pc) \in Group /\ GroupOf(r.pc).vaddr = r.pc /\ OwnGroup(GroupOf(r.pc))
    BY <2>1, GroupOfOwn DEF IInv
  <2>3. Locate(OwnDebug(r.pc), r) \in Debug /\ Locate(OwnDebug(r.pc), r).laddr = r.pc
    BY <2>1, OwnDebugOwn, LocateOwn DEF IInv
  <2>4. g \in Group /\ g.vaddr = r.pc /\ OwnGroup(g) /\ g.debug # NoDebug
    BY <2>2, <2>3, NullRecordAssumption DEF Group, OwnGroup
  <2>5. Put(r.pc, g) /\ UNCHANGED <<stage, answer>>
    BY <1>2 DEF StoreRow
  <2> HIDE DEF g
  <2> QED BY <2>1, <2>4, <2>5, StoreKeepsIInv
<1>3. CASE ExecuteAcc
  BY <1>3, ExecuteAccKeepsIInv
<1>4. ASSUME NEW v \in Addr, NEW n \in Names, ExecuteNew(v, n) PROVE IInv'
  <2> DEFINE old == GroupOf(v).symbol
             new == IF old = NoSymbol THEN osmalloc(v, n) ELSE [old EXCEPT !.name = n]
             g   == [GroupOf(v) EXCEPT !.symbol = new]
  <2>1. GroupOf(v) \in Group /\ GroupOf(v).vaddr = v /\ OwnGroup(GroupOf(v))
    BY GroupOfOwn DEF IInv
  <2>2. new \in Symbol /\ new.laddr = v /\ new.haddr = v
    <3>1. CASE old = NoSymbol
      BY <3>1 DEF osmalloc, Symbol
    <3>2. CASE old # NoSymbol
      <4>1. old \in Symbol /\ old.laddr = v /\ old.haddr = v
        BY <2>1, <3>2 DEF Group, OwnGroup
      <4> QED BY <3>2, <4>1 DEF Symbol
    <3> QED BY <3>1, <3>2
  <2>3. g \in Group /\ g.vaddr = v /\ OwnGroup(g)
    <3> HIDE DEF new
    <3> QED BY <2>1, <2>2 DEF Group, OwnGroup
  <2>4. Put(v, g) /\ UNCHANGED <<stage, answer>> /\ stage = "got"
    BY <1>4 DEF ExecuteNew
  <2> HIDE DEF g
  <2> QED BY <2>3, <2>4, StoreKeepsIInv
<1>5. CASE NextStage
  <2>1. /\ UNCHANGED <<groups, size, sizemax, cpos, answer>>
        /\ stage' \in {"src", "acc", "ready"}
        /\ stage' \in {"src", "acc"} => stage \in {"inf", "src"}
    BY <1>5 DEF NextStage
  <2>2. TypeOK'
    BY <2>1 DEF IInv, Ordered, TypeOK
  <2>3. AccSafe'
    BY <2>1 DEF IInv, AccSafe, Used
  <2> QED BY <2>1, <2>2, <2>3 DEF IInv, Ordered, InRoom, Sorted, OwnAddress, Used
<1>6. ASSUME NEW v \in Addr, SeeDebugAt(v) \/ AskDebugAt(v) \/ AskSymbolAt(v) \/ AskGroupAt(v)
      PROVE  IInv'
  BY <1>6, AskKeepsIInv
<1>7. CASE UNCHANGED vars
  BY <1>7 DEF vars, IInv, Ordered, TypeOK, InRoom, Sorted, OwnAddress, AccSafe, Used
<1> QED BY <1>1, <1>2, <1>3, <1>4, <1>5, <1>6, <1>7 DEF Next

\* The invariant holds in every reachable state of the engine.
THEOREM AlwaysIInv == Spec => []IInv
BY InitIInv, NextKeepsIInv, PTL DEF Spec

\* Type correctness: sizes, slots, cursor and answers stay in their ranges
\* whatever DIEs, rows, stubs and questions come (opcode-engine.c).
THEOREM TypeCorrect == Spec => []TypeOK
<1>1. IInv => TypeOK
  BY DEF IInv, Ordered
<1> QED BY <1>1, AlwaysIInv, PTL

\* The array never outgrows its allocation (oegetbyaddr and eresize).
THEOREM AlwaysInRoom == Spec => []InRoom
<1>1. IInv => InRoom
  BY DEF IInv, Ordered
<1> QED BY <1>1, AlwaysIInv, PTL

\* The groups stay sorted by address, one to an address, which the scans of
\* oeseebyaddr and oeaskbyaddr rely on.
THEOREM AlwaysSorted == Spec => []Sorted
<1>1. IInv => Sorted
  BY DEF IInv, Ordered
<1> QED BY <1>1, AlwaysIInv, PTL

\* Every entry stays in the group of its own address.
THEOREM AlwaysOwnAddress == Spec => []OwnAddress
<1>1. IInv => OwnAddress
  BY DEF IInv, Ordered
<1> QED BY <1>1, AlwaysIInv, PTL

\* execute_acc never meets a group without a debug entry.
THEOREM AlwaysAccSafe == Spec => []AccSafe
<1>1. IInv => AccSafe
  BY DEF IInv
<1> QED BY <1>1, AlwaysIInv, PTL
-----------------------------------------------------------------------------
(***************************************************************************)
(* What the questions find, in an ordered array.                           *)
(***************************************************************************)
\* The groups up to a given one lie at or below its address.
LEMMA Ascending ==
  ASSUME Ordered, NEW i \in Used, NEW p \in Used, p <= i
  PROVE  groups[p].vaddr \in Nat /\ groups[i].vaddr \in Nat /\ groups[p].vaddr <= groups[i].vaddr
<1>1. groups[p].vaddr \in Nat /\ groups[i].vaddr \in Nat
  BY UsedSlots DEF Ordered, Addr
<1>2. CASE p = i
  BY <1>1, <1>2
<1>3. CASE p < i
  BY <1>1, <1>3 DEF Ordered, Sorted
<1> QED BY <1>1, <1>2, <1>3 DEF Used

\* A scan for what covers v cannot give up before it meets it.
LEMMA ScanReaches ==
  ASSUME Ordered, NEW v \in Addr, NEW stops, stops \subseteq Used,
         NEW i \in stops, groups[i].vaddr <= v
  PROVE  LET p == FirstStop(Beyond(v) \cup stops)
         IN  p \in stops /\ p <= i /\ ~(v < groups[p].vaddr) /\ p # size
<1> DEFINE p == FirstStop(Beyond(v) \cup stops)
<1>1. size \in Nat /\ Beyond(v) \cup stops \subseteq Used /\ v \in Nat
  BY DEF Ordered, TypeOK, Beyond, Addr
<1>2. p \in Beyond(v) \cup stops \cup {size} /\ p <= i
  BY <1>1, ScanStops
<1>3. p \in Used /\ p # size
  BY <1>1, <1>2 DEF Used
<1>4. groups[p].vaddr \in Nat /\ groups[i].vaddr \in Nat /\ groups[p].vaddr <= groups[i].vaddr
  BY <1>2, <1>3, Ascending
<1>5. ~(v < groups[p].vaddr)
  BY <1>1, <1>4
<1>6. p \in stops
  BY <1>2, <1>3, <1>5 DEF Beyond
<1> QED BY <1>2, <1>3, <1>5, <1>6

\* oeaskbyaddr finds a function from every address some function covers.
LEMMA OrderedFindsCovered == Ordered => CoveredIsFound
<1> SUFFICES ASSUME Ordered, NEW v \in Addr, NEW i \in Used, Covers(groups[i].debug, v)
             PROVE  Covers(AskDebug(v), v)
  BY DEF CoveredIsFound
<1>1. groups[i].debug # NoDebug /\ groups[i].debug.laddr <= v
  BY DEF Covers
<1>2. groups[i].vaddr <= v
  BY <1>1 DEF Ordered, OwnAddress, OwnGroup
<1>3. i \in DebugStops(v) /\ DebugStops(v) \subseteq Used
  BY DEF DebugStops
<1> DEFINE p == FirstStop(Beyond(v) \cup DebugStops(v))
<1>4. p \in DebugStops(v) /\ ~(v < groups[p].vaddr) /\ p # size
  BY <1>2, <1>3, ScanReaches
<1>5. AskDebug(v) = groups[p].debug
  BY <1>4 DEF AskDebug
<1> QED BY <1>4, <1>5 DEF DebugStops

\* oeaskbyaddr finds a PLT stub at its own address.
LEMMA OrderedFindsStub == Ordered => StubIsFound
<1> SUFFICES ASSUME Ordered, NEW i \in Used, groups[i].symbol # NoSymbol
             PROVE  AskSymbol(groups[i].vaddr) = groups[i].symbol
  BY DEF StubIsFound
<1> DEFINE v == groups[i].vaddr
           p == FirstStop(Beyond(v) \cup SymbolStops(v))
<1>1. v \in Addr /\ v \in Nat
  BY UsedSlots DEF Ordered, Addr
<1>2. groups[i].symbol.laddr = v /\ groups[i].symbol.haddr = v
  BY DEF Ordered, OwnAddress, OwnGroup
<1>3. i \in SymbolStops(v) /\ SymbolStops(v) \subseteq Used
  BY <1>1, <1>2 DEF SymbolStops
<1>4. p \in SymbolStops(v) /\ p <= i /\ ~(v < groups[p].vaddr) /\ p # size
  <2>1. groups[i].vaddr <= v
    BY <1>1
  <2> HIDE DEF v
  <2> QED BY <1>1, <1>3, <2>1, ScanReaches
<1>5. p \in Used /\ groups[p].symbol # NoSymbol
      /\ groups[p].symbol.laddr <= v /\ v <= groups[p].symbol.haddr
  BY <1>4 DEF SymbolStops
<1>6. groups[p].symbol.laddr = groups[p].vaddr /\ groups[p].symbol.haddr = groups[p].vaddr
  BY <1>5 DEF Ordered, OwnAddress, OwnGroup
<1>7. groups[p].vaddr \in Nat
  BY <1>5, UsedSlots DEF Ordered, Addr
<1>8. groups[p].vaddr = v
  BY <1>1, <1>5, <1>6, <1>7
<1>9. p = i
  <2>1. ~(p < i)
    BY <1>1, <1>5, <1>8 DEF Ordered, Sorted
  <2> QED BY <1>4, <1>5, <2>1 DEF Used
<1>10. AskSymbol(v) = groups[p].symbol
  BY <1>4 DEF AskSymbol
<1> QED BY <1>9, <1>10

\* Every function is found from every address it covers, for every file.
THEOREM AlwaysCoveredIsFound == Spec => []CoveredIsFound
<1>1. IInv => CoveredIsFound
  BY OrderedFindsCovered DEF IInv
<1> QED BY <1>1, AlwaysIInv, PTL

\* Every PLT stub is found at its address, whatever functions surround it.
THEOREM AlwaysStubIsFound == Spec => []StubIsFound
<1>1. IInv => StubIsFound
  BY OrderedFindsStub DEF IInv
<1> QED BY <1>1, AlwaysIInv, PTL

\* A lookup misses neither a covering function nor a stub, for any addresses and
\* any order of stores.
THEOREM AlwaysCoveredAnswers == Spec => []CoveredAnswers
<1>1. CoveredIsFound /\ StubIsFound => CoveredAnswers
  BY DEF CoveredAnswers
<1> QED BY <1>1, AlwaysCoveredIsFound, AlwaysStubIsFound, PTL

-----------------------------------------------------------------------------
(***************************************************************************)
(* What a store leaves alone.                                              *)
(***************************************************************************)
\* A store at v keeps the group of every other address, moved or not.
LEMMA PutKeepsOthers ==
  ASSUME Ordered, NEW v \in Addr, NEW g \in Group, g.vaddr = v, Put(v, g),
         NEW i \in Used, groups[i].vaddr # groups'[cpos'].vaddr
  PROVE  Kept(i)
<1>1. CASE Found(v)
  <2>1. /\ size' = size /\ SeePos(v) \in Used /\ cpos' = SeePos(v)
        /\ groups' = [groups EXCEPT ![SeePos(v)] = g]
    BY <1>1, PutFound
  <2>2. groups[SeePos(v)].vaddr = v /\ groups'[cpos'].vaddr = v
    BY <1>1, <2>1 DEF Found, Ordered, TypeOK, InRoom, Used
  <2>3. groups'[i] = groups[i] /\ i \in Used'
    BY <2>1, <2>2 DEF Ordered, TypeOK, InRoom, Used
  <2> QED BY <2>3 DEF Kept
<1>2. CASE ~Found(v)
  <2>1. /\ size' = size + 1 /\ size \in Nat /\ i \in 0 .. size - 1 /\ SeePos(v) \in 0 .. size
        /\ Used' = 0 .. size
    BY <1>2, PutNew DEF Ordered, TypeOK, Used
  <2>2. \A k \in 0 .. size :
          groups'[k] = IF k < SeePos(v) THEN groups[k]
                       ELSE IF k = SeePos(v) THEN g ELSE groups[k - 1]
    BY <1>2, PutNew
  <2>3. CASE i < SeePos(v)
    <3>1. groups'[i] = groups[i] /\ i \in Used'
      BY <2>1, <2>2, <2>3
    <3> QED BY <3>1 DEF Kept
  <2>4. CASE SeePos(v) <= i
    <3>1. i + 1 \in 0 .. size /\ SeePos(v) < i + 1 /\ (i + 1) - 1 = i
      BY <2>1, <2>4
    <3>2. groups'[i + 1] = groups[i] /\ i + 1 \in Used'
      BY <2>1, <2>2, <3>1
    <3> QED BY <3>2 DEF Kept
  <2> QED BY <2>1, <2>3, <2>4
<1> QED BY <1>1, <1>2

\* No store loses or alters what the array knows of another address.
THEOREM AlwaysOthersKept == Spec => OthersKept
<1> DEFINE A == Stores => \A i \in Used : groups[i].vaddr # groups'[cpos'].vaddr => Kept(i)
<1>1. IInv /\ [Next]_vars => [A]_vars
  <2> SUFFICES ASSUME IInv, Next, Stores, NEW i \in Used,
                      groups[i].vaddr # groups'[cpos'].vaddr
               PROVE  Kept(i)
    OBVIOUS
  <2>1. ASSUME NEW s \in Subprogram, StoreSubprogram(s) PROVE Kept(i)
    <3> DEFINE g == [GroupOf(s.low) EXCEPT !.debug = Describe(OwnDebug(s.low), s)]
    <3>1. s.low \in Addr /\ Put(s.low, g)
      BY <2>1 DEF Subprogram, StoreSubprogram
    <3>2. GroupOf(s.low) \in Group /\ GroupOf(s.low).vaddr = s.low
      BY <3>1, GroupOfOwn DEF IInv
    <3>3. Describe(OwnDebug(s.low), s) \in Debug
      BY <3>1, OwnDebugOwn, DescribeOwn DEF IInv
    <3>4. g \in Group /\ g.vaddr = s.low
      BY <3>2, <3>3 DEF Group
    <3> HIDE DEF g
    <3> QED BY <3>1, <3>4, PutKeepsOthers DEF IInv
  <2>2. ASSUME NEW r \in Row, StoreRow(r) PROVE Kept(i)
    <3> DEFINE g == [GroupOf(r.pc) EXCEPT !.debug = Locate(OwnDebug(r.pc), r)]
    <3>1. r.pc \in Addr /\ Put(r.pc, g)
      BY <2>2 DEF Row, StoreRow
    <3>2. GroupOf(r.pc) \in Group /\ GroupOf(r.pc).vaddr = r.pc
      BY <3>1, GroupOfOwn DEF IInv
    <3>3. Locate(OwnDebug(r.pc), r) \in Debug
      BY <3>1, OwnDebugOwn, LocateOwn DEF IInv
    <3>4. g \in Group /\ g.vaddr = r.pc
      BY <3>2, <3>3 DEF Group
    <3> HIDE DEF g
    <3> QED BY <3>1, <3>4, PutKeepsOthers DEF IInv
  <2>3. ASSUME NEW v \in Addr, NEW n \in Names, ExecuteNew(v, n) PROVE Kept(i)
    <3> DEFINE old == GroupOf(v).symbol
               new == IF old = NoSymbol THEN osmalloc(v, n) ELSE [old EXCEPT !.name = n]
               g   == [GroupOf(v) EXCEPT !.symbol = new]
    <3>1. GroupOf(v) \in Group /\ GroupOf(v).vaddr = v
      BY GroupOfOwn DEF IInv
    <3>2. new \in Symbol
      BY <3>1 DEF osmalloc, Symbol, Group
    <3>3. g \in Group /\ g.vaddr = v
      <4> HIDE DEF new
      <4> QED BY <3>1, <3>2 DEF Group
    <3>4. Put(v, g)
      BY <2>3 DEF ExecuteNew
    <3> HIDE DEF g
    <3> QED BY <3>3, <3>4, PutKeepsOthers DEF IInv
  <2>4. ~ExecuteAcc /\ ~NextStage
    BY DEF Stores, ExecuteAcc, NextStage
  <2>5. ASSUME NEW v \in Addr, SeeDebugAt(v) \/ AskDebugAt(v) \/ AskSymbolAt(v) \/ AskGroupAt(v)
        PROVE  FALSE
    BY <2>5 DEF Stores, SeeDebugAt, AskDebugAt, AskSymbolAt, AskGroupAt, Asked
  <2> QED BY <2>1, <2>2, <2>3, <2>4, <2>5 DEF Next
<1> QED BY <1>1, AlwaysIInv, PTL DEF Spec, OthersKept

-----------------------------------------------------------------------------
(***************************************************************************)
(* The sorted array of AddressEngine implements the table of AddressMap,   *)
(* for every number of addresses, step, and bound on the groups: the       *)
(* initial states map to the empty table, and every step of the array is a *)
(* step of the table or leaves it alone.                                   *)
(***************************************************************************)
\* What the table says of the address of a group.
Entry(g) == [debug |-> g.debug, symbol |-> g.symbol]

\* What the table does to an entry is what the array does.
LEMMA SameOperators ==
  /\ \A d : Map!HasSource(d) <=> HasSource(d)
  /\ \A d, v : Map!Covers(d, v) <=> Covers(d, v)
  /\ \A prev, d : Map!Illustrate(prev, d) = Illustrate(prev, d)
  /\ \A d, s : Map!Describe(d, s) = Describe(d, s)
  /\ \A d, r : Map!Locate(d, r) = Locate(d, r)
  /\ \A v : Map!odmalloc(v) = odmalloc(v)
  /\ \A v, n : Map!osmalloc(v, n) = osmalloc(v, n)
<1>1. \A d : Map!HasSource(d) <=> HasSource(d)
  BY DEF Map!HasSource, HasSource
<1>2. \A d, v : Map!Covers(d, v) <=> Covers(d, v)
  BY DEF Map!Covers, Covers
<1>3. \A file, from, to : Map!Grab(file, from, to) = Grab(file, from, to)
  BY DEF Map!Grab, Grab
<1>4. \A prev, d : Map!SnippetAfter(prev, d) = SnippetAfter(prev, d)
  BY <1>1, <1>3 DEF Map!SnippetAfter, SnippetAfter, Map!Context, Context
<1>5. \A prev, d : Map!Illustrate(prev, d) = Illustrate(prev, d)
  BY <1>1, <1>4 DEF Map!Illustrate, Illustrate
<1>6. \A new, old : Map!Given(new, old) = Given(new, old)
  BY DEF Map!Given, Given
<1>7. \A n : Map!Wrap(n) = Wrap(n)
  BY DEF Map!Wrap, Wrap
<1>8. \A d, s : Map!Describe(d, s) = Describe(d, s)
  BY <1>6, <1>7 DEF Map!Describe, Describe
<1>9. \A d, r : Map!Locate(d, r) = Locate(d, r)
  BY <1>6 DEF Map!Locate, Locate
<1>10. \A v : Map!odmalloc(v) = odmalloc(v)
  BY DEF Map!odmalloc, odmalloc
<1>11. \A v, n : Map!osmalloc(v, n) = osmalloc(v, n)
  BY DEF Map!osmalloc, osmalloc
<1> QED BY <1>1, <1>2, <1>5, <1>8, <1>9, <1>10, <1>11

-----------------------------------------------------------------------------
(***************************************************************************)
(* Reading the table.                                                      *)
(***************************************************************************)
SlotsKnown == \A i \in Used : groups[i].vaddr \in Recorded /\ Known[groups[i].vaddr] = Entry(groups[i])

\* Sorted groups have different addresses, so a slot is the only one that its
\* address can be looked up in.
LEMMA OrderedKnows == Ordered => SlotsKnown
<1> SUFFICES ASSUME Ordered, NEW i \in Used
             PROVE  groups[i].vaddr \in Recorded /\ Known[groups[i].vaddr] = Entry(groups[i])
  BY DEF SlotsKnown
<1> DEFINE a == groups[i].vaddr
           k == CHOOSE j \in Used : groups[j].vaddr = a
<1>1. a \in Recorded
  BY DEF Recorded
<1>2. k \in Used /\ groups[k].vaddr = a
  OBVIOUS
<1>3. k = i
  <2>1. groups[i].vaddr \in Nat
    BY UsedSlots DEF Ordered, Addr
  <2>2. ~(k < i) /\ ~(i < k)
    BY <1>2, <2>1 DEF Ordered, Sorted
  <2> HIDE DEF k
  <2> QED BY <1>2, <2>2 DEF Used
<1>4. Known[a] = Entry(groups[k])
  BY <1>1 DEF Known, Entry
<1> QED BY <1>1, <1>3, <1>4

\* The table holds no address that no group has.
LEMMA KnownDomain == DOMAIN Known = Recorded /\ \A a \in Recorded : \E i \in Used : groups[i].vaddr = a
BY DEF Known, Recorded

\* A recorded address is found where its slot is, and no other address is found.
LEMMA FoundIsRecorded ==
  ASSUME Ordered, NEW v \in Addr
  PROVE  /\ Found(v) <=> v \in Recorded
         /\ Found(v) => SeePos(v) \in Used /\ groups[SeePos(v)].vaddr = v
<1>1. size \in Nat /\ SeePos(v) \in 0 .. size /\ \A i \in Used : i < SeePos(v) => groups[i].vaddr < v
  BY SeeSplits DEF Ordered, TypeOK
<1>2. \A i \in Used : SeePos(v) <= i => v <= groups[i].vaddr
  BY SeeSplits DEF Ordered
<1>3. Found(v) => SeePos(v) \in Used /\ groups[SeePos(v)].vaddr = v /\ v \in Recorded
  BY <1>1 DEF Found, Used, Recorded
<1>4. ASSUME NEW i \in Used, groups[i].vaddr = v PROVE Found(v)
  <2>1. SeePos(v) <= i
    BY <1>1, <1>4 DEF Used, Addr
  <2>2. SeePos(v) \in Used
    BY <1>1, <2>1 DEF Used
  <2>3. groups[SeePos(v)].vaddr <= v /\ groups[SeePos(v)].vaddr \in Nat
    BY <1>4, <2>1, <2>2, Ascending
  <2>4. v <= groups[SeePos(v)].vaddr
    BY <1>1, <1>2, <2>2
  <2> QED BY <1>1, <2>2, <2>3, <2>4 DEF Found, Used, Addr
<1> QED BY <1>3, <1>4 DEF Recorded

\* The group that a store starts from is the table's entry.
LEMMA AtIsGroup ==
  ASSUME Ordered, NEW v \in Addr
  PROVE  Map!At(v) = Entry(GroupOf(v))
<1>1. CASE Found(v)
  <2>1. SeePos(v) \in Used /\ groups[SeePos(v)].vaddr = v /\ v \in DOMAIN Known
    BY <1>1, FoundIsRecorded, KnownDomain
  <2>2. Known[v] = Entry(groups[SeePos(v)])
    BY <2>1, OrderedKnows DEF SlotsKnown
  <2> QED BY <1>1, <2>1, <2>2 DEF Map!At, GroupOf
<1>2. CASE ~Found(v)
  <2>1. v \notin DOMAIN Known
    BY <1>2, FoundIsRecorded, KnownDomain
  <2> QED BY <1>2, <2>1 DEF Map!At, Map!Nothing, GroupOf, Clear, Entry
<1> QED BY <1>1, <1>2

-----------------------------------------------------------------------------
(***************************************************************************)
(* Stores.                                                                 *)
(***************************************************************************)
\* A store records the address and keeps the others.
LEMMA PutRecords ==
  ASSUME Ordered, NEW v \in Addr, NEW g \in Group, g.vaddr = v, OwnGroup(g), Put(v, g)
  PROVE  /\ \E i \in Used' : groups'[i] = g
         /\ \A i \in Used : groups[i].vaddr # v => \E j \in Used' : groups'[j] = groups[i]
         /\ Recorded' = Recorded \cup {v}
<1>1. \E i \in Used' : groups'[i] = g /\ i = cpos'
  <2>1. CASE Found(v)
    BY <2>1, PutFound DEF Used, Ordered, TypeOK, InRoom
  <2>2. CASE ~Found(v)
    <3>1. /\ size' = size + 1 /\ SeePos(v) \in 0 .. size /\ cpos' = SeePos(v)
          /\ groups'[SeePos(v)] = g /\ size \in Nat
      BY <2>2, PutNew DEF Ordered, TypeOK
    <3> QED BY <3>1 DEF Used
  <2> QED BY <2>1, <2>2
<1>2. ASSUME NEW i \in Used, groups[i].vaddr # v PROVE \E j \in Used' : groups'[j] = groups[i]
  <2>1. groups[i].vaddr # groups'[cpos'].vaddr
    BY <1>1, <1>2
  <2>2. Kept(i)
    BY <2>1, PutKeepsOthers
  <2> QED BY <2>2 DEF Kept
<1>3. \A i \in Used' : groups'[i] = g \/ \E j \in Used : groups'[i] = groups[j]
  BY PutOrigin
<1>4. Recorded' = Recorded \cup {v}
  BY <1>1, <1>2, <1>3 DEF Recorded
<1> QED BY <1>1, <1>2, <1>4

\* A store of g is the table's recording of what g says.
LEMMA PutIsRecord ==
  ASSUME Ordered, Ordered', NEW v \in Addr, NEW g \in Group, g.vaddr = v, OwnGroup(g), Put(v, g)
  PROVE  Map!Record(v, Entry(g))
<1>1. /\ \E i \in Used' : groups'[i] = g
      /\ \A i \in Used : groups[i].vaddr # v => \E j \in Used' : groups'[j] = groups[i]
      /\ Recorded' = Recorded \cup {v}
  BY PutRecords
<1>2. \A i \in Used' : Known'[groups'[i].vaddr] = Entry(groups'[i])
  <2>1. (Ordered => SlotsKnown)'
    BY OrderedKnows, PTL
  <2> QED BY <2>1 DEF SlotsKnown, Entry
<1>3. \A i \in Used : Known[groups[i].vaddr] = Entry(groups[i])
  BY OrderedKnows DEF SlotsKnown
<1>4. DOMAIN Known = Recorded /\ DOMAIN Known' = Recorded'
  BY DEF Known
<1>5. Known'[v] = Entry(g)
  BY <1>1, <1>2
<1>6. ASSUME NEW a \in Recorded, a # v PROVE Known'[a] = Known[a]
  <2>1. PICK i \in Used : groups[i].vaddr = a
    BY DEF Recorded
  <2>2. PICK j \in Used' : groups'[j] = groups[i]
    BY <1>1, <1>6, <2>1
  <2> QED BY <1>2, <1>3, <2>1, <2>2
<1>7. Known' = [a \in Recorded' |-> Known'[a]]
  BY DEF Known
<1>8. Known' = [a \in DOMAIN Known \cup {v} |-> IF a = v THEN Entry(g) ELSE Known[a]]
  BY <1>1, <1>4, <1>5, <1>6, <1>7
<1> QED BY <1>8 DEF Map!Record

-----------------------------------------------------------------------------
(***************************************************************************)
(* Snippets.                                                               *)
(***************************************************************************)
\* Slots and their addresses are in the same order.
LEMMA SameOrder ==
  ASSUME Ordered, NEW i \in Used, NEW j \in Used
  PROVE  /\ groups[i].vaddr \in Nat
         /\ i < j <=> groups[i].vaddr < groups[j].vaddr
         /\ i <= j <=> groups[i].vaddr <= groups[j].vaddr
<1>1. groups[i].vaddr \in Nat /\ groups[j].vaddr \in Nat
  BY UsedSlots DEF Ordered, Addr
<1>2. i < j => groups[i].vaddr < groups[j].vaddr
  BY DEF Ordered, Sorted
<1>3. j < i => groups[j].vaddr < groups[i].vaddr
  BY DEF Ordered, Sorted
<1>4. i = j \/ i < j \/ j < i
  BY DEF Used
<1> QED BY <1>1, <1>2, <1>3, <1>4 DEF Used

\* The last group with a source before a slot is the one at the closest lower
\* address that has a source.
LEMMA PrevIsBefore ==
  ASSUME Ordered, NEW i \in Used
  PROVE  PrevSourced(i) = Map!Before(groups[i].vaddr)
<1> DEFINE v     == groups[i].vaddr
           slots == {j \in 0 .. i - 1 : HasSource(groups[j].debug)}
           below == {a \in Map!Sourced : a < v}
<1>1. SlotsKnown
  BY OrderedKnows
<1>2. size \in Nat /\ slots \subseteq Used
  BY DEF Ordered, TypeOK, Used
<1>3. ASSUME NEW j \in slots PROVE groups[j].vaddr \in below
  <2>1. j \in Used /\ j < i
    BY <1>2 DEF Used
  <2>2. groups[j].vaddr < v
    BY <2>1, SameOrder
  <2>3. groups[j].vaddr \in DOMAIN Known /\ Known[groups[j].vaddr] = Entry(groups[j])
    BY <1>1, <2>1, KnownDomain DEF SlotsKnown
  <2>4. HasSource(groups[j].debug) /\ Map!HasSource(groups[j].debug)
    BY SameOperators
  <2> QED BY <2>2, <2>3, <2>4 DEF Map!Sourced, Entry
<1>4. ASSUME NEW a \in below PROVE \E j \in slots : groups[j].vaddr = a
  <2>1. a \in DOMAIN Known /\ HasSource(Known[a].debug) /\ a < v
    BY SameOperators DEF Map!Sourced
  <2>2. PICK j \in Used : groups[j].vaddr = a
    BY <2>1, KnownDomain
  <2>3. j < i
    BY <2>1, <2>2, SameOrder
  <2>4. HasSource(groups[j].debug)
    <3>1. Known[a] = Entry(groups[j])
      BY <1>1, <2>2 DEF SlotsKnown
    <3>2. Known[a].debug = groups[j].debug
      BY <3>1 DEF Entry
    <3> QED BY <2>1, <3>2
  <2> QED BY <2>2, <2>3, <2>4 DEF Used
<1>5. CASE slots = {}
  <2>1. below = {}
    BY <1>4, <1>5
  <2> QED BY <1>5, <2>1 DEF PrevSourced, Map!Before
<1>6. CASE slots # {}
  <2> DEFINE last    == CHOOSE j \in slots : \A k \in slots : k <= j
             closest == CHOOSE a \in below : \A b \in below : b <= a
  <2>1. last \in slots /\ \A k \in slots : k <= last
    <3>1. i \in Nat /\ slots \subseteq 0 .. i - 1
      BY <1>2 DEF Used
    <3>2. \E j \in slots : \A k \in slots : k <= j
      BY <1>6, <3>1, GreatestBelow
    <3> QED BY <3>2
  <2> HIDE DEF last
  <2>2. groups[last].vaddr \in below /\ last \in Used
    BY <1>2, <1>3, <2>1
  <2>3. \A b \in below : b <= groups[last].vaddr /\ b \in Nat
    <3> SUFFICES ASSUME NEW b \in below PROVE b <= groups[last].vaddr /\ b \in Nat
      OBVIOUS
    <3>1. PICK k \in slots : groups[k].vaddr = b
      BY <1>4
    <3>2. k \in Used /\ k <= last
      BY <1>2, <2>1
    <3> QED BY <2>2, <3>1, <3>2, SameOrder
  <2>4. closest = groups[last].vaddr
    <3>1. closest \in below /\ \A b \in below : b <= closest
      BY <2>2, <2>3
    <3> HIDE DEF closest
    <3> QED BY <2>2, <2>3, <3>1
  <2>5. Known[groups[last].vaddr].debug = groups[last].debug
    <3>1. last \in Used
      BY <2>2
    <3>2. Known[groups[last].vaddr] = Entry(groups[last])
      BY <1>1, <3>1 DEF SlotsKnown
    <3> QED BY <3>2 DEF Entry
  <2>6. PrevSourced(i) = groups[last].debug
    BY <1>6 DEF PrevSourced, last
  <2>7. Map!Before(v) = Known[closest].debug
    BY <2>2 DEF Map!Before
  <2> QED BY <2>4, <2>5, <2>6, <2>7
<1> QED BY <1>5, <1>6

\* The pass over the groups is the table's pass over its entries.
LEMMA AccIsSnippets ==
  ASSUME IInv, IInv', ExecuteAcc
  PROVE  Map!AddSnippets
<1>1. /\ size \in Nat /\ sizemax \in Nat /\ size <= sizemax /\ size' = size /\ Used' = Used
      /\ stage = "acc" /\ stage' = "got" /\ answer' = answer
  BY DEF IInv, Ordered, TypeOK, InRoom, ExecuteAcc, Used
<1>2. ASSUME NEW i \in Used
      PROVE  /\ groups'[i].vaddr = groups[i].vaddr
             /\ Entry(groups'[i]) = [Entry(groups[i]) EXCEPT !.debug = Map!Illustrate(Map!Before(groups[i].vaddr), @)]
  <2> DEFINE d == Illustrate(PrevSourced(i), groups[i].debug)
  <2>1. groups[i] \in Group /\ i \in 0 .. sizemax - 1 /\ i < size
    BY <1>1, UsedSlots DEF IInv, Ordered, Used
  <2>2. groups'[i] = [groups[i] EXCEPT !.debug = d]
    BY <2>1 DEF ExecuteAcc
  <2>3. d = Map!Illustrate(Map!Before(groups[i].vaddr), groups[i].debug)
    BY PrevIsBefore, SameOperators DEF IInv
  <2> HIDE DEF d
  <2>4. groups'[i].vaddr = groups[i].vaddr /\ groups'[i].debug = d /\ groups'[i].symbol = groups[i].symbol
    BY <2>1, <2>2 DEF Group
  <2> QED BY <2>3, <2>4 DEF Entry
<1>3. SlotsKnown
  BY OrderedKnows DEF IInv
<1>4. \A i \in Used : Known'[groups'[i].vaddr] = Entry(groups'[i])
  <2>1. (Ordered => SlotsKnown)'
    BY OrderedKnows, PTL
  <2> QED BY <1>1, <2>1 DEF SlotsKnown, Entry, IInv
<1>5. Recorded' = Recorded
  <2>1. \A i \in Used : groups'[i].vaddr = groups[i].vaddr
    BY <1>2
  <2>2. {groups'[i].vaddr : i \in Used'} = {groups[i].vaddr : i \in Used}
    BY <1>1, <2>1, ZenonT(60)
  <2> QED BY <2>2 DEF Recorded
<1>6. ASSUME NEW a \in Recorded
      PROVE  Known'[a] = [Known[a] EXCEPT !.debug = Map!Illustrate(Map!Before(a), @)]
  <2>1. PICK i \in Used : groups[i].vaddr = a
    BY DEF Recorded
  <2>2. Known[a] = Entry(groups[i])
    BY <1>3, <2>1 DEF SlotsKnown
  <2>3. Known'[a] = Entry(groups'[i])
    BY <1>2, <1>4, <2>1
  <2> QED BY <1>2, <2>1, <2>2, <2>3
<1>7. Known' = [a \in Recorded' |-> Known'[a]]
  BY DEF Known
<1>8. Known' = [a \in DOMAIN Known |-> [Known[a] EXCEPT !.debug = Map!Illustrate(Map!Before(a), @)]]
  BY <1>5, <1>6, <1>7, KnownDomain
<1> QED BY <1>1, <1>8 DEF Map!AddSnippets

-----------------------------------------------------------------------------
(***************************************************************************)
(* Questions.                                                              *)
(***************************************************************************)
\* What a slot says is what the table says of its address, field by field.
LEMMA SlotReads ==
  ASSUME Ordered, NEW i \in Used
  PROVE  /\ groups[i].vaddr \in DOMAIN Known
         /\ Known[groups[i].vaddr].debug = groups[i].debug
         /\ Known[groups[i].vaddr].symbol = groups[i].symbol
<1>1. groups[i].vaddr \in Recorded /\ Known[groups[i].vaddr] = Entry(groups[i])
  BY OrderedKnows DEF SlotsKnown
<1> QED BY <1>1, KnownDomain DEF Entry

\* oeseebyaddr answers the entry at exactly v.
LEMMA SameSeeDebug ==
  ASSUME Ordered, NEW v \in Addr
  PROVE  SeeDebug(v) = Map!SeeDebug(v)
<1>1. CASE Found(v)
  <2>1. SeePos(v) \in Used /\ groups[SeePos(v)].vaddr = v
    BY <1>1, FoundIsRecorded
  <2>2. v \in DOMAIN Known /\ Known[v].debug = groups[SeePos(v)].debug
    BY <2>1, SlotReads
  <2> QED BY <1>1, <2>2 DEF SeeDebug, Map!SeeDebug, Map!At
<1>2. CASE ~Found(v)
  <2>1. v \notin DOMAIN Known
    BY <1>2, FoundIsRecorded, KnownDomain
  <2> QED BY <1>2, <2>1 DEF SeeDebug, Map!SeeDebug, Map!At, Map!Nothing
<1> QED BY <1>1, <1>2

\* A scan that meets no stop answers nothing: it ends past the last group, or
\* at one that lies above v.
LEMMA ScanMisses ==
  ASSUME Ordered, NEW v \in Addr
  PROVE  LET p == FirstStop(Beyond(v))
         IN  p = size \/ (p \in Used /\ v < groups[p].vaddr)
<1>1. size \in Nat /\ Beyond(v) \subseteq Used
  BY DEF Ordered, TypeOK, Beyond
<1>2. FirstStop(Beyond(v)) \in Beyond(v) \cup {size}
  BY <1>1, ScanStops
<1> QED BY <1>2 DEF Beyond

\* oeaskbyaddr for functions answers the lowest entry that covers v.
LEMMA SameAskDebug ==
  ASSUME Ordered, NEW v \in Addr
  PROVE  AskDebug(v) = Map!AskDebug(v)
<1>1. size \in Nat /\ Beyond(v) \cup DebugStops(v) \subseteq Used /\ DebugStops(v) \subseteq Used
  BY DEF Ordered, TypeOK, Beyond, DebugStops
<1>2. ASSUME NEW i \in DebugStops(v) PROVE groups[i].vaddr \in Map!Covering(v) /\ groups[i].vaddr <= v
  <2>1. i \in Used /\ Covers(groups[i].debug, v)
    BY DEF DebugStops
  <2>2. groups[i].vaddr \in DOMAIN Known /\ Known[groups[i].vaddr].debug = groups[i].debug
    BY <2>1, SlotReads
  <2>3. groups[i].debug.laddr = groups[i].vaddr /\ groups[i].debug.laddr <= v
    BY <2>1 DEF Covers, Ordered, OwnAddress, OwnGroup
  <2>4. Map!Covers(Known[groups[i].vaddr].debug, v)
    BY <2>1, <2>2, SameOperators
  <2> QED BY <2>2, <2>3, <2>4 DEF Map!Covering
<1>3. ASSUME NEW a \in Map!Covering(v) PROVE \E i \in DebugStops(v) : groups[i].vaddr = a
  <2>1. a \in DOMAIN Known /\ Covers(Known[a].debug, v)
    BY SameOperators DEF Map!Covering
  <2>2. PICK i \in Used : groups[i].vaddr = a
    BY <2>1, KnownDomain
  <2>3. Known[a].debug = groups[i].debug
    BY <2>2, SlotReads
  <2> QED BY <2>1, <2>2, <2>3 DEF DebugStops
<1>4. CASE DebugStops(v) = {}
  <2>1. Map!Covering(v) = {}
    BY <1>3, <1>4
  <2>2. Beyond(v) \cup DebugStops(v) = Beyond(v)
    BY <1>4
  <2>3. AskDebug(v) = NoDebug
    BY <2>2, ScanMisses DEF AskDebug
  <2> QED BY <2>1, <2>3 DEF Map!AskDebug
<1>5. CASE DebugStops(v) # {}
  <2> DEFINE p     == FirstStop(Beyond(v) \cup DebugStops(v))
             least == CHOOSE a \in Map!Covering(v) : \A b \in Map!Covering(v) : a <= b
  <2>1. ASSUME NEW i \in DebugStops(v) PROVE p \in DebugStops(v) /\ p <= i /\ ~(v < groups[p].vaddr) /\ p # size
    BY <1>1, <1>2, <2>1, ScanReaches
  <2>2. p \in DebugStops(v) /\ ~(v < groups[p].vaddr) /\ p # size
    BY <1>5, <2>1
  <2>3. AskDebug(v) = groups[p].debug
    BY <2>2 DEF AskDebug
  <2> HIDE DEF p
  <2>4. groups[p].vaddr \in Map!Covering(v) /\ p \in Used
    BY <1>1, <1>2, <2>2
  <2>5. \A b \in Map!Covering(v) : groups[p].vaddr <= b /\ b \in Nat
    <3> SUFFICES ASSUME NEW b \in Map!Covering(v) PROVE groups[p].vaddr <= b /\ b \in Nat
      OBVIOUS
    <3>1. PICK k \in DebugStops(v) : groups[k].vaddr = b
      BY <1>3
    <3>2. k \in Used /\ p <= k
      BY <1>1, <2>1
    <3> QED BY <2>4, <3>1, <3>2, SameOrder
  <2>6. least = groups[p].vaddr
    <3>1. least \in Map!Covering(v) /\ \A b \in Map!Covering(v) : least <= b
      BY <2>4, <2>5
    <3> HIDE DEF least
    <3> QED BY <2>4, <2>5, <3>1
  <2>7. Map!AskDebug(v) = Known[least].debug
    BY <2>4 DEF Map!AskDebug
  <2>8. Known[groups[p].vaddr].debug = groups[p].debug
    BY <2>4, SlotReads
  <2> QED BY <2>3, <2>6, <2>7, <2>8
<1> QED BY <1>4, <1>5

\* oeaskbyaddr for stubs answers the stub at exactly v: a stub covers no
\* other address.
LEMMA SameAskSymbol ==
  ASSUME Ordered, NEW v \in Addr
  PROVE  AskSymbol(v) = Map!AskSymbol(v)
<1>1. size \in Nat /\ Beyond(v) \cup SymbolStops(v) \subseteq Used /\ v \in Nat
  BY DEF Ordered, TypeOK, Beyond, SymbolStops, Addr
<1>2. ASSUME NEW i \in SymbolStops(v) PROVE groups[i].vaddr = v /\ groups[i].symbol # NoSymbol /\ i \in Used
  <2>1. i \in Used /\ groups[i].symbol # NoSymbol
        /\ groups[i].symbol.laddr <= v /\ v <= groups[i].symbol.haddr
    BY DEF SymbolStops
  <2>2. groups[i].symbol.laddr = groups[i].vaddr /\ groups[i].symbol.haddr = groups[i].vaddr
    BY <2>1 DEF Ordered, OwnAddress, OwnGroup
  <2>3. groups[i].vaddr \in Nat
    BY <2>1, UsedSlots DEF Ordered, Addr
  <2> QED BY <1>1, <2>1, <2>2, <2>3
<1>3. CASE \E i \in Used : groups[i].vaddr = v /\ groups[i].symbol # NoSymbol
  <2>1. PICK i \in Used : groups[i].vaddr = v /\ groups[i].symbol # NoSymbol
    BY <1>3
  <2>2. AskSymbol(v) = groups[i].symbol
    BY <2>1, OrderedFindsStub DEF StubIsFound
  <2>3. v \in DOMAIN Known /\ Known[v].symbol = groups[i].symbol
    BY <2>1, SlotReads
  <2> QED BY <2>2, <2>3 DEF Map!AskSymbol, Map!At
<1>4. CASE ~\E i \in Used : groups[i].vaddr = v /\ groups[i].symbol # NoSymbol
  <2>1. SymbolStops(v) = {}
    BY <1>2, <1>4
  <2>2. AskSymbol(v) = NoSymbol
    <3>1. Beyond(v) \cup SymbolStops(v) = Beyond(v)
      BY <2>1
    <3> QED BY <3>1, ScanMisses DEF AskSymbol
  <2>3. ASSUME v \in DOMAIN Known PROVE Known[v].symbol = NoSymbol
    <3>1. PICK i \in Used : groups[i].vaddr = v
      BY <2>3, KnownDomain
    <3>2. Known[v].symbol = groups[i].symbol
      BY <3>1, SlotReads
    <3> QED BY <1>4, <3>1, <3>2
  <2> QED BY <2>2, <2>3 DEF Map!AskSymbol, Map!At, Map!Nothing
<1> QED BY <1>3, <1>4

\* oeaskbyaddr for the group of v answers the closest group at or below v,
\* provided that another lies above.
LEMMA SameAskGroup ==
  ASSUME Ordered, NEW v \in Addr
  PROVE  AskGroup(v) = Map!AskGroup(v)
<1> DEFINE p     == FirstStop(Beyond(v))
           below == {a \in DOMAIN Known : a <= v}
<1>1. /\ size \in Nat /\ Beyond(v) \subseteq Used /\ v \in Nat
      /\ p \in 0 .. size /\ p \in Beyond(v) \cup {size} /\ \A j \in Beyond(v) : p <= j
  BY ScanStops DEF Ordered, TypeOK, Beyond, Addr
<1>2. \A i \in Used : groups[i].vaddr \in Nat
  BY UsedSlots DEF Ordered, Addr
<1>3. AskGroup(v) = IF p = size \/ p = 0 THEN NoSymbol ELSE groups[p - 1].symbol
  BY DEF AskGroup
<1> HIDE DEF p
<1>4. CASE p = size
  <2>1. \A i \in Used : groups[i].vaddr <= v
    BY <1>1, <1>2, <1>4 DEF Beyond, Used
  <2>2. \A a \in DOMAIN Known : a <= v
    BY <2>1, KnownDomain
  <2> QED BY <1>3, <1>4, <2>2 DEF Map!AskGroup
<1>5. CASE p # size /\ p = 0
  <2>1. ASSUME NEW a \in below PROVE FALSE
    <3>1. PICK i \in Used : groups[i].vaddr = a
      BY KnownDomain
    <3>2. p \in Used /\ p <= i /\ v < groups[p].vaddr
      BY <1>1, <1>5 DEF Beyond, Used
    <3>3. groups[p].vaddr <= groups[i].vaddr
      BY <3>2, Ascending
    <3> QED BY <1>1, <1>2, <3>1, <3>2, <3>3
  <2> QED BY <1>3, <1>5, <2>1 DEF Map!AskGroup
<1>6. CASE p # size /\ p # 0
  <2> DEFINE q       == p - 1
             closest == CHOOSE a \in below : \A b \in below : b <= a
  <2>1. p \in Used /\ v < groups[p].vaddr /\ q \in Used /\ q < p
    BY <1>1, <1>6 DEF Beyond, Used
  <2>2. \A i \in Used : i < p => groups[i].vaddr <= v
    BY <1>1, <1>2 DEF Beyond, Used
  <2>3. groups[q].vaddr \in below
    BY <2>1, <2>2, SlotReads
  <2>4. ASSUME NEW b \in below PROVE b <= groups[q].vaddr /\ b \in Nat
    <3>1. PICK i \in Used : groups[i].vaddr = b
      BY KnownDomain
    <3>2. i < p
      <4>1. ~(p <= i)
        BY <1>1, <1>2, <2>1, <3>1, Ascending
      <4> QED BY <1>1, <4>1 DEF Used
    <3>3. i <= q
      BY <1>1, <3>2 DEF Used
    <3> QED BY <2>1, <3>1, <3>3, SameOrder
  <2>5. closest = groups[q].vaddr
    <3>1. closest \in below /\ \A b \in below : b <= closest
      BY <2>3, <2>4
    <3> HIDE DEF closest
    <3> QED BY <1>2, <2>1, <2>3, <2>4, <3>1
  <2>6. Map!AskGroup(v) = Known[closest].symbol
    <3>1. groups[p].vaddr \in DOMAIN Known /\ ~(groups[p].vaddr <= v)
      BY <1>1, <1>2, <2>1, SlotReads
    <3> QED BY <2>3, <3>1 DEF Map!AskGroup
  <2>7. Known[groups[q].vaddr].symbol = groups[q].symbol
    BY <2>1, SlotReads
  <2> QED BY <1>3, <1>6, <2>5, <2>6, <2>7
<1> QED BY <1>4, <1>5, <1>6

-----------------------------------------------------------------------------
(***************************************************************************)
(* The refinement.                                                         *)
(***************************************************************************)
\* The table is a function of the groups below size, and of nothing else.
LEMMA KnownKept ==
  ASSUME UNCHANGED <<groups, size>>
  PROVE  Known' = Known
BY DEF Known, Recorded, Used

\* An empty array is the empty table.
LEMMA InitMaps == Init => Map!Init
<1> SUFFICES ASSUME Init PROVE Map!Init
  OBVIOUS
<1>1. Recorded = {}
  BY DEF Init, Recorded, Used
<1>2. Known = [a \in {} |-> Map!Nothing]
  BY <1>1 DEF Known
<1> QED BY <1>2 DEF Init, Map!Init, NoAnswer, Map!NoAnswer

\* A DIE stored in the array is the subprogram recorded in the table.
LEMMA StoreSubprogramMaps ==
  ASSUME IInv, IInv', NEW s \in Subprogram, StoreSubprogram(s)
  PROVE  Map!AddSubprogram(s)
<1> DEFINE d == Describe(OwnDebug(s.low), s)
           g == [GroupOf(s.low) EXCEPT !.debug = d]
<1>1. s.low \in Addr
  BY DEF Subprogram
<1>2. GroupOf(s.low) \in Group /\ GroupOf(s.low).vaddr = s.low /\ OwnGroup(GroupOf(s.low))
  BY <1>1, GroupOfOwn DEF IInv
<1>3. d \in Debug /\ d.laddr = s.low
  BY <1>1, OwnDebugOwn, DescribeOwn DEF IInv
<1>4. Map!At(s.low) = Entry(GroupOf(s.low))
  BY <1>1, AtIsGroup DEF IInv
<1>5. d = Map!Describe(Map!DebugAt(s.low), s)
  <2>1. OwnDebug(s.low) = Map!DebugAt(s.low)
    BY <1>4, SameOperators DEF OwnDebug, Map!DebugAt, Entry
  <2> QED BY <2>1, SameOperators
<1>6. Put(s.low, g) /\ UNCHANGED <<stage, answer>> /\ stage = "inf"
  BY DEF StoreSubprogram
<1> HIDE DEF d
<1>7. g \in Group /\ g.vaddr = s.low /\ OwnGroup(g)
  BY <1>2, <1>3 DEF Group, OwnGroup
<1>8. Entry(g) = [Map!At(s.low) EXCEPT !.debug = d]
  BY <1>2, <1>4 DEF Entry, Group
<1> HIDE DEF g
<1>9. Map!Record(s.low, Entry(g))
  BY <1>1, <1>6, <1>7, PutIsRecord DEF IInv
<1> QED BY <1>5, <1>6, <1>8, <1>9 DEF Map!AddSubprogram

\* A row of a line table likewise.
LEMMA StoreRowMaps ==
  ASSUME IInv, IInv', NEW r \in Row, StoreRow(r)
  PROVE  Map!AddRow(r)
<1> DEFINE d == Locate(OwnDebug(r.pc), r)
           g == [GroupOf(r.pc) EXCEPT !.debug = d]
<1>1. r.pc \in Addr
  BY DEF Row
<1>2. GroupOf(r.pc) \in Group /\ GroupOf(r.pc).vaddr = r.pc /\ OwnGroup(GroupOf(r.pc))
  BY <1>1, GroupOfOwn DEF IInv
<1>3. d \in Debug /\ d.laddr = r.pc
  BY <1>1, OwnDebugOwn, LocateOwn DEF IInv
<1>4. Map!At(r.pc) = Entry(GroupOf(r.pc))
  BY <1>1, AtIsGroup DEF IInv
<1>5. d = Map!Locate(Map!DebugAt(r.pc), r)
  <2>1. OwnDebug(r.pc) = Map!DebugAt(r.pc)
    BY <1>4, SameOperators DEF OwnDebug, Map!DebugAt, Entry
  <2> QED BY <2>1, SameOperators
<1>6. Put(r.pc, g) /\ UNCHANGED <<stage, answer>> /\ stage = "src"
  BY DEF StoreRow
<1> HIDE DEF d
<1>7. g \in Group /\ g.vaddr = r.pc /\ OwnGroup(g)
  BY <1>2, <1>3 DEF Group, OwnGroup
<1>8. Entry(g) = [Map!At(r.pc) EXCEPT !.debug = d]
  BY <1>2, <1>4 DEF Entry, Group
<1> HIDE DEF g
<1>9. Map!Record(r.pc, Entry(g))
  BY <1>1, <1>6, <1>7, PutIsRecord DEF IInv
<1> QED BY <1>5, <1>6, <1>8, <1>9 DEF Map!AddRow

\* A PLT stub likewise.
LEMMA ExecuteNewMaps ==
  ASSUME IInv, IInv', NEW v \in Addr, NEW n \in Names, ExecuteNew(v, n)
  PROVE  Map!AddStub(v, n)
<1> DEFINE old == GroupOf(v).symbol
           new == IF old = NoSymbol THEN osmalloc(v, n) ELSE [old EXCEPT !.name = n]
           g   == [GroupOf(v) EXCEPT !.symbol = new]
<1>1. GroupOf(v) \in Group /\ GroupOf(v).vaddr = v /\ OwnGroup(GroupOf(v))
  BY GroupOfOwn DEF IInv
<1>2. new \in Symbol /\ new.laddr = v /\ new.haddr = v
  <2>1. CASE old = NoSymbol
    BY <2>1 DEF osmalloc, Symbol
  <2>2. CASE old # NoSymbol
    <3>1. old \in Symbol /\ old.laddr = v /\ old.haddr = v
      BY <1>1, <2>2 DEF Group, OwnGroup
    <3> QED BY <2>2, <3>1 DEF Symbol
  <2> QED BY <2>1, <2>2
<1>3. Map!At(v) = Entry(GroupOf(v))
  BY AtIsGroup DEF IInv
<1>4. new = IF Map!At(v).symbol = NoSymbol THEN Map!osmalloc(v, n)
            ELSE [Map!At(v).symbol EXCEPT !.name = n]
  <2>1. old = Map!At(v).symbol
    BY <1>3 DEF Entry
  <2>2. osmalloc(v, n) = Map!osmalloc(v, n)
    BY SameOperators
  <2> QED BY <2>1, <2>2
<1>5. Put(v, g) /\ UNCHANGED <<stage, answer>> /\ stage = "got"
  BY DEF ExecuteNew
<1> HIDE DEF new
<1>6. g \in Group /\ g.vaddr = v /\ OwnGroup(g)
  BY <1>1, <1>2 DEF Group, OwnGroup
<1>7. Entry(g) = [Map!At(v) EXCEPT !.symbol = new]
  BY <1>1, <1>3 DEF Entry, Group
<1> HIDE DEF g
<1>8. Map!Record(v, Entry(g))
  BY <1>5, <1>6, PutIsRecord DEF IInv
<1> QED BY <1>4, <1>5, <1>7, <1>8 DEF Map!AddStub

\* A question put to the array gets the table's answer.
LEMMA AskMaps ==
  ASSUME IInv, NEW v \in Addr, SeeDebugAt(v) \/ AskDebugAt(v) \/ AskSymbolAt(v) \/ AskGroupAt(v)
  PROVE  \E q \in Questions : Map!Ask(q, v)
<1>1. ASSUME NEW q \in Questions, NEW pos, Asked(q, v, Map!Reply(q, v), pos) PROVE Map!Ask(q, v)
  BY <1>1, KnownKept DEF Asked, Map!Ask
<1>2. CASE SeeDebugAt(v)
  <2>1. SeeDebug(v) = Map!Reply("SeeDebug", v)
    BY SameSeeDebug DEF IInv, Map!Reply
  <2> QED BY <1>1, <1>2, <2>1 DEF SeeDebugAt, Questions
<1>3. CASE AskDebugAt(v)
  <2>1. AskDebug(v) = Map!Reply("AskDebug", v)
    BY SameAskDebug DEF IInv, Map!Reply
  <2> QED BY <1>1, <1>3, <2>1 DEF AskDebugAt, Questions
<1>4. CASE AskSymbolAt(v)
  <2>1. AskSymbol(v) = Map!Reply("AskSymbol", v)
    BY SameAskSymbol DEF IInv, Map!Reply
  <2> QED BY <1>1, <1>4, <2>1 DEF AskSymbolAt, Questions
<1>5. CASE AskGroupAt(v)
  <2>1. AskGroup(v) = Map!Reply("AskGroup", v)
    BY SameAskGroup DEF IInv, Map!Reply
  <2> QED BY <1>1, <1>5, <2>1 DEF AskGroupAt, Questions
<1> QED BY <1>2, <1>3, <1>4, <1>5

\* Every step of the array is a step of the table, or leaves the table alone.
LEMMA NextMaps == IInv /\ IInv' /\ [Next]_vars => [Map!Next]_(Map!mapVars)
<1> SUFFICES ASSUME IInv, IInv', [Next]_vars PROVE Map!Next \/ UNCHANGED Map!mapVars
  OBVIOUS
<1>1. ASSUME NEW s \in Subprogram, StoreSubprogram(s) PROVE Map!Next
  <2>1. s \in Map!Subprogram
    BY DEF Subprogram, Map!Subprogram, Addr, Map!Addr
  <2> QED BY <1>1, <2>1, StoreSubprogramMaps DEF Map!Next
<1>2. ASSUME NEW r \in Row, StoreRow(r) PROVE Map!Next
  <2>1. r \in Map!Row
    BY DEF Row, Map!Row, Addr, Map!Addr
  <2> QED BY <1>2, <2>1, StoreRowMaps DEF Map!Next
<1>3. CASE ExecuteAcc
  BY <1>3, AccIsSnippets DEF Map!Next
<1>4. ASSUME NEW v \in Addr, NEW n \in Names, ExecuteNew(v, n) PROVE Map!Next
  BY <1>4, ExecuteNewMaps DEF Map!Next, Addr, Map!Addr
<1>5. CASE NextStage
  <2>1. Known' = Known
    BY <1>5, KnownKept DEF NextStage
  <2>2. Map!NextStage
    BY <1>5, <2>1 DEF NextStage, Map!NextStage
  <2> QED BY <2>2 DEF Map!Next
<1>6. ASSUME NEW v \in Addr, SeeDebugAt(v) \/ AskDebugAt(v) \/ AskSymbolAt(v) \/ AskGroupAt(v)
      PROVE  Map!Next
  <2>1. PICK q \in Questions : Map!Ask(q, v)
    BY <1>6, AskMaps
  <2> QED BY <2>1 DEF Map!Next, Map!Questions, Questions, Addr, Map!Addr
<1>7. CASE UNCHANGED vars
  BY <1>7, KnownKept DEF vars, Map!mapVars
<1> QED BY <1>1, <1>2, <1>3, <1>4, <1>5, <1>6, <1>7 DEF Next

\* The engine answers every question as the abstract table does, whatever
\* DIEs, rows and stubs were stored and in whatever order.
THEOREM ImplementsAddressMap == Spec => ImplementsMap
BY InitMaps, NextMaps, AlwaysIInv, PTL DEF Spec, ImplementsMap, Map!Spec
=============================================================================
