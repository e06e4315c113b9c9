------------------------------ MODULE Convert ------------------------------
(***************************************************************************)
(* convert-ng: the arguments are turned into a chain of actions, the input *)
(* is read, the actions change one buffer in the order of the chain, and   *)
(* the buffer is written or printed.                                       *)
(*                                                                         *)
(* An argument is a record with a kind:                                    *)
(*   "script"  a script (see Scripts); one that is not accepted is taken   *)
(*             for the name of the input;                                  *)
(*   "lines"   @file, with the lines of that file;                         *)
(*   "name"    a name that is no command;                                  *)
(*   "output"  -O and a name.                                              *)
(* The input is one sequence of bytes, empty when it cannot be read.       *)
(***************************************************************************)
EXTENDS Codecs, Scripts

CONSTANTS
  CommandLines, \* the sequences of arguments the tool is started with
  Inputs,       \* the contents of the input file
  Leftovers,    \* what an uninitialised text buffer may hold
  NULL          \* the null pointer

\* What an argument, and a line of a file, may be: the widths are those of the
\* two tables, and a script has a command at least.
Command   == [op : STRING, w : {1, 2, 4}, key : Int, text : Seq(Byte), braces : BOOLEAN]
Commands  == Seq(Command) \ {<<>>}
FileLine  == [commands : Commands, closed : BOOLEAN, newline : BOOLEAN]
Argument  == [kind : {"script"}, commands : Commands, closed : BOOLEAN]
             \cup [kind : {"lines"}, lines : Seq(FileLine)]
             \cup [kind : {"name", "output"}]

ASSUME CommandLinesAssumption == CommandLines \subseteq Seq(Argument)
ASSUME InputsAssumption == Inputs \subseteq Seq(Byte)
ASSUME LeftoversAssumption == Leftovers \subseteq Seq(Byte)
ASSUME NULLAssumption == NULL \notin Seq(Byte)

VARIABLES
  args,     \* the arguments not yet looked at
  inpname,  \* an input was named
  outname,  \* an output was named
  actions,  \* o->actions, the chain
  file,     \* the input
  pc,       \* "options", "run", "output", and how it ended
  at,       \* the index of the action x0 in the chain
  b0,       \* the content of the buffer, or NULL
  step,     \* what is added to the key from word to word
  isok,     \* the result is to be printed
  shown,    \* the solutions that a search has printed
  written   \* what was written to the output, or NULL

vars == <<args, inpname, outname, actions, file, pc, at, b0, step, isok, shown,
          written>>

Init ==
  /\ args \in CommandLines
  /\ file \in Inputs
  /\ inpname = FALSE
  /\ outname = FALSE
  /\ actions = <<>>
  /\ pc = "options"
  /\ at = 1
  /\ b0 = NULL
  /\ step = 0
  /\ isok = TRUE
  /\ shown = {}
  /\ written = NULL

-----------------------------------------------------------------------------
\* get_options_convert: one argument after the other.
NextArgument == pc = "options" /\ args # <<>> /\ args' = Tail(args)

Rest1 == UNCHANGED <<file, at, b0, step, isok, shown, written>>

\* oinsert walks to the end of the chain.
Insert(new) == actions' = actions \o new

ScriptArgument ==
  /\ NextArgument
  /\ Head(args).kind = "script" /\ Accepted(Head(args))
  /\ \E n \in Leftovers : Insert(sprocess(Head(args), n))
  /\ UNCHANGED <<inpname, outname, pc>> /\ Rest1

LinesArgument ==
  /\ NextArgument
  /\ Head(args).kind = "lines"
  /\ \E n \in Leftovers : Insert(ScriptFile(Head(args).lines, n))
  /\ UNCHANGED <<inpname, outname, pc>> /\ Rest1

OutputArgument ==
  /\ NextArgument
  /\ Head(args).kind = "output"
  /\ outname' = TRUE
  /\ UNCHANGED <<inpname, actions, pc>> /\ Rest1

\* The first name is the input, a second one the end.
NameArgument ==
  /\ NextArgument
  /\ \/ Head(args).kind = "name"
     \/ Head(args).kind = "script" /\ ~Accepted(Head(args))
  /\ inpname' = TRUE
  /\ pc' = IF inpname THEN "refused" ELSE pc
  /\ UNCHANGED <<outname, actions>> /\ Rest1

\* main: the input is read and copied.
Open ==
  /\ pc = "options" /\ args = <<>>
  /\ IF inpname /\ file # <<>>
     THEN pc' = "run" /\ b0' = file
     ELSE pc' = "idle" /\ UNCHANGED b0
  /\ UNCHANGED <<args, inpname, outname, actions, file, at, step, isok, shown, written>>

-----------------------------------------------------------------------------
\* main: one turn of the loop over the chain.
Running(ops) ==
  /\ pc = "run" /\ at <= Len(actions)
  /\ actions[at].op \in ops

Same == UNCHANGED <<args, inpname, outname, actions, file, written>>

\* Every branch but inc and dec reads the fields of b0.
Crash ==
  /\ Running((zSCRIPTCOMMANDS \cup zSCRIPTCOMMANDSEX \cup {"nothing"}) \ {"inc", "dec"})
  /\ b0 = NULL
  /\ pc' = "crashed"
  /\ UNCHANGED <<at, b0, step, isok, shown>> /\ Same

Codings == Encoders \cup Decoders \cup Ciphers

\* The codec of an action, and its result.
Coded(x, data) ==
  CASE x.op = "bine" -> bin_encode(data, x.w)
    [] x.op = "bind" -> bin_decode(data)
    [] x.op = "hexe" -> hex_encode(data, x.w)
    [] x.op = "hexd" -> hex_decode(data)
    [] x.op = "dece" -> dec_encode(data, x.w)
    [] x.op = "decd" -> dec_decode(data, x.w)
    [] x.op = "base32e" -> base32_encode(data)
    [] x.op = "base32d" -> base32_decode(data)
    [] x.op = "base58e" -> base58_encode(data)
    [] x.op = "base58d" -> base58_decode(data)
    [] x.op = "base64e" -> base64_encode(data)
    [] x.op = "base64d" -> base64_decode(data)
    [] x.op = "base85e" -> base85_encode(data)
    [] x.op = "base85d" -> base85_decode(data)
    [] x.op = "vigeneree" -> vigenere_encode(data, x.text)
    [] x.op = "vigenered" -> vigenere_decode(data, x.text)

\* These reserve three bytes for four characters: none at all for a single one,
\* and a buffer of size 0 is a null pointer.
Narrow == {"base32d", "base58d", "base64d"}

\* No codec has a result for an empty source, and a cipher none without a key.
HasResult(x, data) ==
  /\ data # <<>>
  /\ x.op \in Ciphers => x.text # <<>>
  /\ x.op \in Narrow => Len(data) > 1

\* fswap answers NULL when there is no result to take over.
Swap ==
  /\ Running(Codings)
  /\ b0 # NULL
  /\ b0' = IF HasResult(actions[at], b0) THEN Coded(actions[at], b0) ELSE NULL
  /\ at' = at + 1
  /\ UNCHANGED <<pc, step, isok, shown>> /\ Same

\* A search tries the keys of its operation, each on a copy of the buffer: as
\* many as a word has bits, and for xor all but 0.
Searched(x) ==
  CASE x.op = "rolbrute" -> "rol"
    [] x.op = "rorbrute" -> "ror"
    [] x.op = "shlbrute" -> "shl"
    [] x.op = "shrbrute" -> "shr"
    [] x.op = "xorbrute" -> "xor"

KeysBelow(x) == IF x.op = "xorbrute" THEN 1 .. 256 ^ x.w - 2 ELSE 1 .. 8 * x.w - 1

Keys(x) == IF x.op = "xorbrute" THEN 1 .. 256 ^ x.w - 1 ELSE 1 .. 8 * x.w

Solutions(x, data) == {InPlace(Searched(x), x.w, key, step, data) : key \in Keys(x)}

\* The results of all keys are printed, and the loop is left.
Brute ==
  /\ Running(Brutes)
  /\ b0 # NULL
  /\ LET x == actions[at]
     IN  /\ Keys(x) \subseteq {key \in Nat : ShiftDefined(Searched(x), x.w, key, step, b0)}
         /\ shown' = IF b0 = <<>> THEN {} ELSE Solutions(x, b0)
  /\ isok' = FALSE
  /\ pc' = "output"
  /\ UNCHANGED <<at, b0, step>> /\ Same

SetStep ==
  /\ Running({"inc", "dec"})
  /\ step' = IF actions[at].op = "inc" THEN actions[at].key ELSE -actions[at].key
  /\ at' = at + 1
  /\ UNCHANGED <<pc, b0, isok, shown>> /\ Same

\* dump_actions0; only commands whose shifts are defined are run.
Change ==
  /\ Running((zSCRIPTCOMMANDS \cup {"nothing"}) \ {"inc", "dec"})
  /\ b0 # NULL
  /\ LET x == actions[at]
     IN  /\ ShiftDefined(x.op, x.w, x.key, step, b0)
         /\ b0' = InPlace(x.op, x.w, x.key, step, b0)
  /\ at' = at + 1
  /\ UNCHANGED <<pc, step, isok, shown>> /\ Same

LoopEnds ==
  /\ pc = "run" /\ at > Len(actions)
  /\ pc' = "output"
  /\ UNCHANGED <<at, b0, step, isok, shown>> /\ Same

\* The output is written, or the buffer printed as text; both read b0.
Output ==
  /\ pc = "output"
  /\ pc' = IF b0 = NULL /\ (outname \/ isok) THEN "crashed" ELSE "done"
  /\ written' = IF outname THEN b0 ELSE NULL
  /\ UNCHANGED <<args, inpname, outname, actions, file, at, b0, step, isok, shown>>

Ended == {"done", "idle", "refused", "crashed"}

\* The process is gone.
Stop == pc \in Ended /\ UNCHANGED vars

Next ==
  \/ ScriptArgument \/ LinesArgument \/ OutputArgument \/ NameArgument \/ Open
  \/ Crash \/ Swap \/ Brute \/ SetStep \/ Change \/ LoopEnds \/ Output \/ Stop

Spec == Init /\ [][Next]_vars

-----------------------------------------------------------------------------
\* Properties.

\* Type invariant of the tool: every byte of the buffer, through any chain, is a
\* byte, and the positions stay inside what they count.
TypeOK ==
  /\ \A i \in DOMAIN args : args[i].kind \in {"script", "lines", "name", "output"}
  /\ inpname \in BOOLEAN /\ outname \in BOOLEAN /\ isok \in BOOLEAN
  /\ \A i \in DOMAIN actions :
       actions[i].op \in zSCRIPTCOMMANDS \cup zSCRIPTCOMMANDSEX \cup {"nothing"}
  /\ pc \in {"options", "run", "output"} \cup Ended
  /\ at \in 1 .. Len(actions) + 1
  /\ step \in Int
  /\ \A data \in {b0, written} : data # NULL => \A i \in DOMAIN data : data[i] \in Byte

Finished == pc = "done"

\* The chain is exactly these operations, in this order.
Chain(ops) == [i \in DOMAIN actions |-> actions[i].op] = ops

\* The operation that takes back another one: with the same key, and the same
\* step, each word is what it was.
Opposite(op) ==
  CASE op = "rol" -> "ror"
    [] op = "ror" -> "rol"
    [] OTHER      -> op

Invertible == {"not", "xor", "rol", "ror", "rot13", "rot18", "rot47"}

\* The second half of the chain, read backwards, takes back the first half.
Mirrored(chain) ==
  /\ Len(chain) % 2 = 0
  /\ \A i \in 1 .. Len(chain) \div 2 :
       LET x == chain[i]
           y == chain[Len(chain) + 1 - i]
       IN  /\ x.op \in Invertible /\ y.op = Opposite(x.op)
           /\ x.w = y.w /\ x.key = y.key

\* A chain that undoes itself gives the input back, whatever the widths, keys and
\* the step that inc or dec has put in front of it, and although a word may have
\* been cut differently by the widths in between (main, dump_actions0).
UndoneInReverse ==
  Finished /\ actions # <<>> =>
    LET early == \A i \in 2 .. Len(actions) : actions[i].op \notin {"inc", "dec"}
        chain == IF actions[1].op \in {"inc", "dec"} THEN Tail(actions) ELSE actions
    IN  early /\ Mirrored(chain) => b0 = file

\* The input comes first, and behind it only NULs, which encoder and decoder have
\* counted.
ReadsBack ==
  /\ b0 # NULL
  /\ IsPrefix(file, b0)
  /\ \A i \in Len(file) + 1 .. Len(b0) : b0[i] = NUL

\* Binary digits of any width, base 64, the cipher of Vigenere under one key, and
\* decimal numbers when no byte is 0: the decoder gives the data back (main and
\* the codecs it calls).
TextReadsBack ==
  /\ Finished /\ b0 # NULL
     /\ \/ Chain(<<"bine", "bind">>)
        \/ Chain(<<"base64e", "base64d">>)
        \/ Chain(<<"vigeneree", "vigenered">>) /\ actions[1].text = actions[2].text
     => ReadsBack
  /\ Finished /\ Chain(<<"dece", "decd">>) /\ actions[1].w = 1 /\ actions[2].w = 1
     /\ (\A i \in DOMAIN file : file[i] # 0)
     => b0 = file

\* The codec at j is the last one before the action at i.
Feeds(j, i) ==
  /\ j \in 1 .. i - 1 /\ actions[j].op \in Codings
  /\ \A k \in j + 1 .. i - 1 : actions[k].op \notin Codings

First(i) == \A k \in 1 .. i - 1 : actions[k].op \notin Codings

\* These count no NUL and may answer no byte; the others of Short may answer a
\* single one: the NUL of a text that stands for nothing, or that writes zeros.
Emptying == {"hexd", "decd", "base32d"}
Short == Emptying \cup {"bind", "dece", "base64d", "base85d"}

\* The null pointer comes from a codec that had no source, no key or no room, and
\* there are three ways to that: the cipher was given no key; the codec before it
\* is one of Emptying; or the codec is one of Narrow, and its single byte is what
\* one of Short has left or the input itself.  No other chain reads through a null
\* pointer, whatever the in-place operations in it (fmalloc, fswap, main).
CrashNeedsEmpty ==
  pc = "crashed" =>
    \E i \in DOMAIN actions :
      /\ actions[i].op \in Codings
      /\ \/ actions[i].op \in Ciphers /\ actions[i].text = <<>>
         \/ \E j \in DOMAIN actions : Feeds(j, i) /\ actions[j].op \in Emptying
         \/ /\ actions[i].op \in Narrow
            /\ \/ \E j \in DOMAIN actions : Feeds(j, i) /\ actions[j].op \in Short
               \/ First(i) /\ Len(file) = 1

\* "Enumerate all possible solutions": a search finds the input of the operation
\* that came before it, with the step that was in force.  A key of 0 is the one
\* that the search for xor leaves out.
SearchFindsInput ==
  \A i \in DOMAIN actions :
    /\ Finished /\ i + 1 = Len(actions) /\ actions[i + 1].op \in Brutes
    /\ \A j \in 1 .. i - 1 : actions[j].op \in {"inc", "dec"}
    /\ actions[i].w = actions[i + 1].w
    /\ actions[i].op \in {"xor", "rol", "ror"}
    /\ Searched(actions[i + 1]) = Opposite(actions[i].op)
    /\ actions[i].op = "xor" => actions[i].key % 256 ^ actions[i].w # 0
    => file \in shown

-----------------------------------------------------------------------------
\* What the manual says, and the code does not do.

\* The commands that the scripts of a command line ask for, in their order.
Asked(line) ==
  FlattenSeq([i \in DOMAIN line |-> IF line[i].kind = "script" THEN line[i].commands ELSE <<>>])

Back(op) ==
  CASE op = "bine" -> "bind"
    [] op = "dece" -> "decd"
    [] op = "hexe" -> "hexd"
    [] op = "base32e" -> "base32d"
    [] op = "base58e" -> "base58d"
    [] op = "base64e" -> "base64d"
    [] op = "base85e" -> "base85d"
    [] op = "vigeneree" -> "vigenered"

\* Nothing but encoders, each with its decoder behind it and written alike.
InPairs(commands) ==
  /\ Len(commands) % 2 = 0
  /\ \A i \in 1 .. Len(commands) \div 2 :
       LET x == commands[2 * i - 1]
           y == commands[2 * i]
       IN  x.op \in Encoders \cup {"vigeneree"} /\ y = [x EXCEPT !.op = Back(x.op)]

\* A decoder converts back into its raw value what its encoder has written: where
\* each is asked for behind its encoder, the input comes back, be the commands
\* arguments or parts of one script (sprocess, main and the codecs it calls).
ConvertsBack ==
  Finished /\ (\A line \in CommandLines : InPairs(Asked(line))) => ReadsBack
=============================================================================
