------------------------------ MODULE Scripts ------------------------------
(***************************************************************************)
(* How scripts.c turns an argument into actions.  A command is what one    *)
(* stretch of text between two semicolons says:                            *)
(*   op, w   its name and width, such as "xor" and 1 for xor8;             *)
(*   braces  whether it is written with a value, as in xor8(5);            *)
(*   key     that value as a number, 0 without one;                        *)
(*   text    that value as characters.                                     *)
(* A script is the sequence of its commands, and closed when the last one  *)
(* is followed by a semicolon.  An action is what the chain of options_t   *)
(* keeps: op, w, key and text.                                             *)
(***************************************************************************)
EXTENDS Naturals, Sequences, SequencesExt

\* zSCRIPTCOMMANDS and zSCRIPTCOMMANDSEX.
zSCRIPTCOMMANDS ==
  {"add", "not", "rol", "ror", "rot5", "rot13", "rot18", "rot47",
   "shl", "shr", "sub", "xor", "inc", "dec"}

Ciphers  == {"vigenered", "vigeneree"}
Decoders == {"bind", "decd", "hexd", "base32d", "base58d", "base64d", "base85d"}
Encoders == {"bine", "dece", "hexe", "base32e", "base58e", "base64e", "base85e"}
Brutes   == {"rolbrute", "rorbrute", "shlbrute", "shrbrute", "xorbrute"}

zSCRIPTCOMMANDSEX == Ciphers \cup Decoders \cup Encoders \cup Brutes

\* The action whose code is ECODE_ARGUMENTS: no branch of the tools knows it.
Nothing == [op |-> "nothing", w |-> 1, key |-> 0, text |-> <<>>]

Known(c) == c.op \in zSCRIPTCOMMANDS \cup zSCRIPTCOMMANDSEX

\* oinsertvalue and oinsertsname keep one of the two forms of the value.  The
\* buffer of the text is not cleared: n is what it holds without a value.
ByValue(c)   == [op |-> c.op, w |-> c.w, key |-> c.key, text |-> <<>>]
ByName(c, n) == [op |-> c.op, w |-> c.w, key |-> 0,
                 text |-> IF c.braces THEN c.text ELSE n]

\* A script of a single command.
Single(c, n) ==
  IF c.op \in zSCRIPTCOMMANDS THEN <<ByValue(c)>>
  ELSE IF c.op \in zSCRIPTCOMMANDSEX THEN <<ByName(c, n)>>
  ELSE <<>>

\* One command of a script with semicolons.  For a command of the second table
\* the code looks at, and inserts, the answer of the search in the first one,
\* which is ECODE_ARGUMENTS: as -9 it has every high bit, ACT_USESTRING too.
Separated(c) ==
  IF c.op \in zSCRIPTCOMMANDS THEN <<ByValue(c)>>
  ELSE IF c.op \in zSCRIPTCOMMANDSEX THEN <<Nothing>>
  ELSE <<>>

\* The loop runs from semicolon to semicolon; what follows the last one is not
\* looked at.
sprocess(script, n) ==
  IF Len(script.commands) = 1 /\ ~script.closed
  THEN Single(script.commands[1], n)
  ELSE LET seen == IF script.closed THEN script.commands ELSE Front(script.commands)
       IN  FlattenSeq([i \in DOMAIN seen |-> Separated(seen[i])])

\* The code of the answer: an unknown single command is the caller's to explain.
Accepted(script) ==
  Len(script.commands) > 1 \/ script.closed \/ Known(script.commands[1])

\* A line read from a file keeps its newline, which a name without a value has at
\* its end and which a closed script has behind the last semicolon.
LineOf(line, n) ==
  IF /\ line.newline
     /\ Len(line.commands) = 1 /\ ~line.closed
     /\ ~line.commands[1].braces
  THEN <<>>
  ELSE sprocess(line, n)

ScriptFile(lines, n) == FlattenSeq([i \in DOMAIN lines |-> LineOf(lines[i], n)])
=============================================================================
