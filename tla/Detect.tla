------------------------------- MODULE Detect -------------------------------
(***************************************************************************)
(* detect.c and signatures.c: a text of signatures is turned into a        *)
(* database, and the database is held against PE files.                    *)
(*                                                                         *)
(* A line of the text is [name, n], a name of n characters in brackets;    *)
(* [pairs], a signature, where a digit may be "?"; [eponly]; or [other], a *)
(* number of other characters.  A text is [lines, sep, last]: what ends    *)
(* its lines, and whether the last one is ended too.  What a byte of the   *)
(* database stands for is all that is kept of it.                          *)
(***************************************************************************)
EXTENDS PeFile, WriteCursor, SequencesExt

CONSTANTS Texts,     \* texts that may be made a database of
          Programs,  \* PE files that may be examined
          Modes      \* [noscans, matchonce]

VARIABLES text,
          pc,
          inp,       \* the cursor over the text
          out1,      \* the digits of one signature
          out2,      \* the database while it is built
          db,        \* the database in its file
          program, mode,
          s1,        \* the cursor over the database
          held,      \* [name, signature], the last ones read
          rows       \* what matched

vars == <<text, pc, inp, out1, out2, db, program, mode, s1, held, rows>>
creating == <<inp, out1, out2>>
scanning == <<program, mode, s1, held, rows>>

-----------------------------------------------------------------------------
(* The text                                                                *)

LineSize(l) == CASE "name" \in DOMAIN l   -> l.n + 2
                 [] "pairs" \in DOMAIN l  -> 11 + 3 * Len(l.pairs)
                 [] "eponly" \in DOMAIN l -> IF l.eponly THEN 14 ELSE 15
                 [] OTHER                 -> l.other
SepSize(t) == IF t.sep = "crlf" THEN 2 ELSE 1
Ended(t, i) == i < Len(t.lines) \/ t.last
\* Where each line begins, in bytes, and the text ends.
Starts(t) ==
  LET At[i \in 1 .. Len(t.lines) + 1] ==
        IF i = 1 THEN 0 ELSE At[i - 1] + LineSize(t.lines[i - 1]) + (IF Ended(t, i - 1) THEN SepSize(t) ELSE 0)
  IN At
TextSize(t) == Starts(t)[Len(t.lines) + 1]
LineAt(starts, cpos) == CHOOSE i \in 1 .. Len(starts) - 1 : starts[i] <= cpos /\ cpos < starts[i + 1]

fiseof(c) == ~c.item \/ c.cpos > c.epos

\* fgetline reads up to the end of the line and puts a 0 there, and if it is a
\* carriage return then behind it too.  A read of the last byte of all kills the
\* cursor, and then nothing is put.
fgetline(t, c) ==
  LET starts == Starts(t)
      i == LineAt(starts, c.cpos)
      n == starts[i] + LineSize(t.lines[i]) - c.cpos
      read == fgetp(c, n + 1)
  IN IF ~Ended(t, i) THEN fgetp(c, n)
     ELSE IF ~read.item THEN [read EXCEPT !.cpos = @ - 1]
     ELSE IF t.sep = "lf" THEN read ELSE [read EXCEPT !.cpos = @ + 1]

\* What the patterns are held against: a line that lost its first character is
\* none of the three; one without a 0 runs on into what lies behind the block,
\* where there may be nothing, a name, or two more digits.
Behind(t, i, l) ==
  {l, [name |-> "behind", n |-> 1]} \union
    (IF "pairs" \in DOMAIN l /\ ~Ended(t, i) THEN {[pairs |-> Append(l.pairs, <<"0", "0">>)]} ELSE {})
Lines(t, c) ==
  LET starts == Starts(t)
      i == LineAt(starts, c.cpos)
  IN IF c.cpos > starts[i] THEN {[other |-> 0]}
     ELSE IF fgetline(t, c).item THEN {t.lines[i]} ELSE Behind(t, i, t.lines[i])

-----------------------------------------------------------------------------
(* The database: chunks of a role, a size and a body.                      *)

Role(r) == [k \in 1 .. 4 |-> [role |-> r, k |-> k]]
Num(v)  == [k \in 1 .. 4 |-> [num |-> v, k |-> k]]
NameBytes(l) == Append([k \in 1 .. l.n |-> [name |-> l.name, k |-> k]], Nul)
Digits(l)    == FlattenSeq([k \in DOMAIN l.pairs |-> <<[char |-> l.pairs[k][1]], [char |-> l.pairs[k][2]]>>])

fsetchunk(c, r, size) == fsetu(fsetu(c, Role(r)), Num(size))

Init ==
  /\ text \in Texts
  /\ pc = "create"
  /\ inp = fmalloc(TextSize(text))
  /\ out1 = fxalloc(TextSize(text))
  /\ out2 = fsetchunk(fxalloc(TextSize(text)), "SGN0", 0)
  /\ db = Null
  /\ program \in Programs
  /\ mode = Null /\ s1 = Null /\ rows = << >>
  /\ held = [name |-> Null, signature |-> Null]

\* One turn of detect_create, with the line that is met.  The test whether a name
\* has been met before is true always: the pattern of names, held against a line
\* in vain, keeps the groups that it had, which are 0 at first.
NextLine ==
  /\ inp' = fgetline(text, inp)
  /\ UNCHANGED <<text, pc, db, scanning>>
Met == IF pc = "create" /\ ~fiseof(inp) THEN Lines(text, inp) ELSE {}
Name == \E l \in Met :
  /\ "name" \in DOMAIN l
  /\ out2' = fsetp(fsetchunk(out2, "NAME", l.n + 1), NameBytes(l))
  /\ NextLine /\ UNCHANGED out1
Signature == \E l \in Met :
  /\ "pairs" \in DOMAIN l
  /\ out1' = fshrink(fsetu(fsetu(freset(out1), Digits(l)), <<Nul>>))
  /\ out2' = fsetp(fsetchunk(out2, "SIGN", fgetsize(out1')), Rest(out1'))
  /\ NextLine
Flag == \E l \in Met :
  /\ "eponly" \in DOMAIN l
  /\ out2' = fsetu(fsetchunk(out2, "FLAG", 4), Num(IF l.eponly THEN 1 ELSE 0))
  /\ NextLine /\ UNCHANGED out1
Other == \E l \in Met :
  /\ "other" \in DOMAIN l
  /\ NextLine /\ UNCHANGED <<out1, out2>>
Save ==
  /\ pc = "create" /\ fiseof(inp)
  /\ db' = Rest(fshrink(out2))
  /\ pc' = "saved"
  /\ UNCHANGED <<text, creating, scanning>>

-----------------------------------------------------------------------------
(* The scan                                                                *)

\* The byte at an offset of a file, as its two digits.
Byte(f, at) == IF Has(f, at, "byte") THEN f.body[at].byte ELSE <<"0", "0">>
\* A character that is no digit matches any.
Digit(char) == char.char \notin {"?", "nul"}
Agree(f, at, chars, k) ==
  \A h \in 1 .. 2 : k + h <= Len(chars) /\ Digit(chars[k + h]) => chars[k + h].char = Byte(f, at + k \div 2)[h]

SafeSize(chars) == (Len(chars) + 1) \div 2
\* How many characters match at an offset; bytes must be left behind them.
signature_scan(f, at, chars) ==
  IF SafeSize(chars) >= f.size - at THEN -1
  ELSE LET misses == {k \in 0 .. Len(chars) - 1 : k % 2 = 0 /\ ~Agree(f, at, chars, k)}
       IN IF misses = {} THEN Len(chars) ELSE Min(misses)

\* Mutant of Offsets: room is left for the characters, not for their bytes.
OffsetsShort(f, chars) == 0 .. f.size - Len(chars) - 1

Offsets(f, chars) == 0 .. f.size - SafeSize(chars) - 1
signature_pecode(f, chars, eponly) ==
  IF chars = Null \/ SafeSize(chars) >= f.size THEN -1
  ELSE LET at == addressofentrypoint(f) IN
       IF eponly THEN IF at < f.size THEN signature_scan(f, at, chars) ELSE 0
       ELSE Max({0} \union {signature_scan(f, i, chars) : i \in Offsets(f, chars)})

\* The 32 bits at the cursor: 0 if they cannot be read.
RoleAt(c) == IF Gets(c, 4) /\ "role" \in DOMAIN db[c.cpos + 1] THEN db[c.cpos + 1].role ELSE "none"
NumAt(c)  == IF Gets(c, 4) /\ "num" \in DOMAIN db[c.cpos + 1] THEN db[c.cpos + 1].num ELSE 0
fgetchunk(c) == [role |-> RoleAt(c), size |-> NumAt(fgetp(c, 4)), c |-> fgetp(fgetp(c, 4), 4)]
BytesAt(c, size) == IF Gets(c, size) THEN SubSeq(db, c.cpos + 1, c.cpos + size) ELSE Null

Detect == \E m \in Modes :
  LET chunk == fgetchunk(fmalloc(Len(db))) IN
  /\ pc = "saved"
  /\ mode' = m
  /\ s1' = fstep(chunk.c, chunk.size)
  /\ pc' = IF isPE(program) /\ chunk.role = "SGN0" THEN "scan" ELSE "done"
  /\ UNCHANGED <<text, creating, db, program, held, rows>>

\* One turn of signature_pedump.
Chunk(role) == pc = "scan" /\ ~fiseof(s1) /\ fgetchunk(s1).role = role
NameChunk ==
  LET chunk == fgetchunk(s1) IN
  /\ Chunk("NAME")
  /\ held' = [held EXCEPT !.name = BytesAt(chunk.c, chunk.size)]
  /\ s1' = fgetp(chunk.c, chunk.size)
  /\ UNCHANGED <<text, pc, creating, db, program, mode, rows>>
SignatureChunk ==
  LET chunk == fgetchunk(s1) IN
  /\ Chunk("SIGN")
  /\ held' = [held EXCEPT !.signature = IF BytesAt(chunk.c, chunk.size) = Null THEN Null
                                        ELSE SubSeq(BytesAt(chunk.c, chunk.size), 1, chunk.size - 1)]
  /\ s1' = fgetp(chunk.c, chunk.size)
  /\ UNCHANGED <<text, pc, creating, db, program, mode, rows>>
Matches(eponly) ==
  /\ ~mode.noscans \/ eponly
  /\ held.signature # Null
  /\ signature_pecode(program, held.signature, eponly) = Len(held.signature)
FlagChunk ==
  LET chunk == fgetchunk(s1)
      matches == Matches(NumAt(chunk.c) = 1)
  IN
  /\ Chunk("FLAG")
  /\ s1' = fgetp(chunk.c, 4)
  /\ rows' = IF matches THEN Append(rows, held) ELSE rows
  /\ pc' = IF matches /\ mode.matchonce THEN "done" ELSE pc
  /\ UNCHANGED <<text, creating, db, program, mode, held>>
EndChunks ==
  /\ pc = "scan"
  /\ fiseof(s1) \/ fgetchunk(s1).role \notin {"NAME", "SIGN", "FLAG"}
  /\ pc' = "done"
  /\ UNCHANGED <<text, creating, db, scanning>>

Next == \/ Name \/ Signature \/ Flag \/ Other \/ Save
        \/ Detect \/ NameChunk \/ SignatureChunk \/ FlagChunk \/ EndChunks
Spec == Init /\ [][Next]_vars

-----------------------------------------------------------------------------
(* Properties *)

\* The lines that end in a 0 whatever lies behind the text: the last one does
\* only if two bytes end it.
Certain(t) == IF t.sep = "crlf" /\ t.last THEN t.lines ELSE Front(t.lines)
Encoded(l) == CASE "name" \in DOMAIN l   -> Role("NAME") \o Num(l.n + 1) \o NameBytes(l)
                [] "pairs" \in DOMAIN l  -> Role("SIGN") \o Num(2 * Len(l.pairs) + 1) \o Append(Digits(l), Nul)
                [] "eponly" \in DOMAIN l -> Role("FLAG") \o Num(4) \o Num(IF l.eponly THEN 1 ELSE 0)
                [] OTHER                 -> << >>
Encoding(t) ==
  LET lines == Certain(t) IN Role("SGN0") \o Num(0) \o FlattenSeq([i \in DOMAIN lines |-> Encoded(lines[i])])
\* The block for the database is as large as the text, and its last byte is not
\* used for a name or a signature.
Fits(t) == t.sep # "cr" /\ Len(Encoding(t)) < TextSize(t)

\* The cursors stay in their blocks, and the database of a text holds every name,
\* signature and flag of it in order, if lines end with a line feed and the block
\* is large enough; only the line at the end of the text may be lost.
DatabaseWhole ==
  /\ out2.cpos \in 0 .. out2.size /\ out1.cpos \in 0 .. out1.size
  /\ db # Null => Len(db) <= TextSize(text)
  /\ db # Null /\ Fits(text) => IsPrefix(Encoding(text), db) /\ (Certain(text) = text.lines => db = Encoding(text))

\* What a text says of a program.
Occurs(f, pairs, at) ==
  /\ at + Len(pairs) < f.size
  /\ \A k \in DOMAIN pairs, h \in 1 .. 2 : pairs[k][h] \in {"?", Byte(f, at + k - 1)[h]}
LastWith(lines, i, field) == LET before == {j \in 1 .. i - 1 : field \in DOMAIN lines[j]} IN
                             IF before = {} THEN Null ELSE lines[Max(before)]
Reported(lines, i) ==
  LET l == LastWith(lines, i, "pairs") IN
  /\ "eponly" \in DOMAIN lines[i] /\ l # Null
  /\ mode.noscans => lines[i].eponly
  /\ IF lines[i].eponly THEN Occurs(program, l.pairs, addressofentrypoint(program))
                        ELSE \E at \in 0 .. program.size - 1 : Occurs(program, l.pairs, at)
Row(lines, i) == LET l == LastWith(lines, i, "name") IN
                 [name |-> IF l = Null THEN Null ELSE NameBytes(l), signature |-> Digits(LastWith(lines, i, "pairs"))]
\* What is reported of a program is what the text says of it: at each flag, the
\* name and the signature last read, if the signature is where the flag says,
\* in front of the last byte of the program.
MatchedAsWritten ==
  pc = "done" /\ Fits(text) /\ isPE(program) /\ (Certain(text) = text.lines \/ "other" \in DOMAIN Last(text.lines)) =>
    LET lines == Certain(text)
        hits == SetToSortSeq({i \in DOMAIN lines : Reported(lines, i)}, <)
        found == IF mode.matchonce THEN SubSeq(hits, 1, Min({1, Len(hits)})) ELSE hits
    IN rows = [k \in DOMAIN found |-> Row(lines, found[k])]
=============================================================================
