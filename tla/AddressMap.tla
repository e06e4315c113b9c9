------------------------------ MODULE AddressMap ------------------------------
(***************************************************************************)
(* What the address engine promises, with no array and no cursor: a        *)
(* partial function from addresses to what is known of them, filled in     *)
(* four stages and then only asked.                                        *)
(***************************************************************************)
EXTENDS EngineData

VARIABLES
  stage,   \* "inf", "src", "acc", "got": being built; "ready": being asked
  known,   \* the partial function
  answer   \* what the last question got

mapVars == <<stage, known, answer>>

Nothing == [debug |-> NoDebug, symbol |-> NoSymbol]

NoAnswer == [question |-> "none", of |-> 0, got |-> NoDebug]

At(v) == IF v \in DOMAIN known THEN known[v] ELSE Nothing

DebugAt(v) == IF At(v).debug = NoDebug THEN odmalloc(v) ELSE At(v).debug

Record(v, e) ==
  known' = [a \in DOMAIN known \cup {v} |-> IF a = v THEN e ELSE known[a]]

Init == stage = "inf" /\ known = [a \in {} |-> Nothing] /\ answer = NoAnswer

\* A subprogram of .debug_info.
AddSubprogram(s) ==
  /\ stage = "inf"
  /\ Record(s.low, [At(s.low) EXCEPT !.debug = Describe(DebugAt(s.low), s)])
  /\ UNCHANGED <<stage, answer>>

\* A row of a line table.
AddRow(r) ==
  /\ stage = "src"
  /\ Record(r.pc, [At(r.pc) EXCEPT !.debug = Locate(DebugAt(r.pc), r)])
  /\ UNCHANGED <<stage, answer>>

(***************************************************************************)
(* Every entry with a source file gets its snippet, which depends on the   *)
(* entry with a source file at the closest lower address.                  *)
(***************************************************************************)
Sourced == {a \in DOMAIN known : HasSource(known[a].debug)}

Before(v) ==
  LET below == {a \in Sourced : a < v}
  IN  IF below = {} THEN NoDebug
      ELSE known[CHOOSE a \in below : \A b \in below : b <= a].debug

AddSnippets ==
  /\ stage = "acc"
  /\ known' = [a \in DOMAIN known |->
                [known[a] EXCEPT !.debug = Illustrate(Before(a), @)]]
  /\ stage' = "got"
  /\ UNCHANGED answer

\* A PLT stub.
AddStub(v, n) ==
  /\ stage = "got"
  /\ Record(v, [At(v) EXCEPT !.symbol =
       IF @ = NoSymbol THEN osmalloc(v, n) ELSE [@ EXCEPT !.name = n]])
  /\ UNCHANGED <<stage, answer>>

NextStage ==
  /\ <<stage, stage'>> \in {<<"inf", "src">>, <<"src", "acc">>, <<"got", "ready">>}
  /\ UNCHANGED <<known, answer>>

(***************************************************************************)
(* The questions.  A function is found from any address it covers, and of  *)
(* several functions that cover one the lowest is found.  The group of an  *)
(* address is the closest one at or below it, but it is found only when    *)
(* another group lies above the address.                                   *)
(***************************************************************************)
Covering(v) == {a \in DOMAIN known : Covers(known[a].debug, v)}

SeeDebug(v) == At(v).debug

AskDebug(v) ==
  IF Covering(v) = {} THEN NoDebug
  ELSE known[CHOOSE a \in Covering(v) : \A b \in Covering(v) : a <= b].debug

AskSymbol(v) == At(v).symbol

AskGroup(v) ==
  LET below == {a \in DOMAIN known : a <= v}
  IN  IF below = {} \/ \A a \in DOMAIN known : a <= v THEN NoSymbol
      ELSE known[CHOOSE a \in below : \A b \in below : b <= a].symbol

Reply(q, v) ==
  CASE q = "SeeDebug"  -> SeeDebug(v)
    [] q = "AskDebug"  -> AskDebug(v)
    [] q = "AskSymbol" -> AskSymbol(v)
    [] q = "AskGroup"  -> AskGroup(v)

Ask(q, v) ==
  /\ stage = "ready"
  /\ answer' = [question |-> q, of |-> v, got |-> Reply(q, v)]
  /\ UNCHANGED <<stage, known>>

Next ==
  \/ \E s \in Subprogram : AddSubprogram(s)
  \/ \E r \in Row : AddRow(r)
  \/ AddSnippets
  \/ \E v \in Addr, n \in Names : AddStub(v, n)
  \/ NextStage
  \/ \E q \in Questions, v \in Addr : Ask(q, v)

Spec == Init /\ [][Next]_mapVars
=============================================================================
