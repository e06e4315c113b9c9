---------------------------- MODULE MCCoreNotes ----------------------------
(* Up to three notes of every kind on the machines with their own fields, at  *)
(* the sizes the kernel gives them; one owner or size that is not regular.    *)
EXTENDS CoreNotes

Machines == {"x86_64", "386", "arm", "aarch64", "mips", "riscv"}
BitsOf(m) == IF m \in {"x86_64", "aarch64"} THEN 64 ELSE 32
SizeIn(m, type) ==
  CASE type = "FILE"   -> (2 + 3) * (BitsOf(m) \div 8) + 8
    [] type = "XSTATE" -> 8
    [] type = "other"  -> 4
    [] m = "riscv"     -> [PRSTATUS |-> 204, PRPSINFO |-> 128, SIGINFO |-> 128][type]
    [] OTHER           -> KernelSize([machine |-> m, bits |-> BitsOf(m)], [type |-> type])
RegularOf(m) ==
  {[type |-> t, namesz |-> IF t = "XSTATE" THEN 6 ELSE 5, descsz |-> SizeIn(m, t), count |-> 1] : t \in Types}
NotesOf(m) ==
  RegularOf(m)
    \union {[type |-> "other", namesz |-> 6, descsz |-> 8, count |-> 0],
            [type |-> "FILE", namesz |-> 5, descsz |-> SizeIn(m, "FILE") + 1, count |-> 1]}
Segment(m, notes) == [machine |-> m, bits |-> BitsOf(m), notes |-> notes]
MCSegments ==
  UNION {{Segment(m, n) : n \in UNION {[1 .. k -> NotesOf(m)] : k \in 1 .. 2}}
           \union {Segment(m, <<a, b, a>>) : a, b \in RegularOf(m)} : m \in Machines}
MCStrays == {[type |-> "other", namesz |-> 5, descsz |-> 150, count |-> 0],
             [type |-> "PRSTATUS", namesz |-> 5, descsz |-> 90, count |-> 0],
             [type |-> "FILE", namesz |-> 1000, descsz |-> 0, count |-> 2]}
=============================================================================
