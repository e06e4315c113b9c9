----------------------------- MODULE MCConvert -----------------------------
(* Command lines and inputs for the runs of Convert. *)
EXTENDS Convert

Cmd(op, w, key) == [op |-> op, w |-> w, key |-> key, text |-> <<>>, braces |-> key # 0]
Cipher(op, text) == [op |-> op, w |-> 1, key |-> 0, text |-> text, braces |-> text # <<>>]

Name   == [kind |-> "name"]
Target == [kind |-> "output"]
Script(commands, closed) == [kind |-> "script", commands |-> commands, closed |-> closed]
Alone(c) == Script(<<c>>, FALSE)
Line(commands, closed, newline) ==
  [commands |-> commands, closed |-> closed, newline |-> newline]
AtFile(lines) == [kind |-> "lines", lines |-> lines]

\* One command per argument, then the input and the output.
Plain(commands) == [i \in DOMAIN commands |-> Alone(commands[i])] \o <<Name, Target>>

Paths(S, n) == UNION {[1 .. k -> S] : k \in 1 .. n}

Data == {<<>>, <<0>>, <<77>>, <<255, 0>>, <<65, 98, 122>>, <<1, 2, 0, 4>>,
         <<255, 254, 253, 252, 251>>, <<0, 0, 0, 0, 7>>}

-----------------------------------------------------------------------------
\* In place: chains that undo themselves, behind a step or none; add with sub;
\* searches.  The keys keep all shifts defined in a buffer of at most 5 bytes; those of
\* 256 and more count as what a word of one byte takes of them.
Reversible ==
  {Cmd("not", 1, 0), Cmd("not", 2, 0), Cmd("not", 4, 0), Cmd("xor", 1, 250),
   Cmd("xor", 2, 515), Cmd("xor", 4, 70000), Cmd("rol", 1, 260), Cmd("ror", 2, 4),
   Cmd("rol", 4, 9), Cmd("rot13", 1, 0), Cmd("rot47", 1, 0)}

Undo(half) ==
  [i \in DOMAIN half |->
    LET c == half[Len(half) + 1 - i] IN [c EXCEPT !.op = Opposite(c.op)]]

Steps == {<<>>, <<Cmd("inc", 1, 1)>>, <<Cmd("dec", 1, 1)>>}

SumLines == {Plain(<<Cmd("add", w, key), Cmd("sub", w, key)>>) : w \in {1, 2, 4}, key \in {1, 3, 300}}

SearchLines ==
  {Plain(before \o <<Cmd("xor", 1, key), Cmd("xorbrute", 1, 0)>>) :
     before \in Steps, key \in {0, 1, 255, 256, 300}}
  \cup {Plain(<<Cmd(ops[1], w, key), Cmd(ops[2], w, 0)>> \o after) :
          after \in {<<>>, <<Cmd("not", 1, 0)>>},
          ops \in {<<"rol", "rorbrute">>, <<"ror", "rolbrute">>, <<"shl", "shrbrute">>,
                   <<"shr", "shlbrute">>}, w \in {1, 2}, key \in {0, 1, 8}}
  \cup {Plain(<<Cmd("ror", 1, key), Cmd("rolbrute", 1, 0)>>) : key \in {256, 259}}

InPlaceLines ==
  {Plain(before \o half \o Undo(half)) : before \in Steps, half \in Paths(Reversible, 2)}
  \cup SumLines \cup SearchLines
  \cup {Plain(<<Cmd("shl", 4, 9), Cmd("shr", 2, 3), Cmd("rot5", 1, 0), Cmd("rot18", 1, 0)>>)}

-----------------------------------------------------------------------------
\* Codecs: every encoder before every decoder, alone and before another encoder.
Widths == {1, 2, 4}

Enc == {Cmd(op, w, 0) : op \in {"bine", "dece", "hexe"}, w \in Widths}
       \cup {Cmd(op, 1, 0) : op \in {"base32e", "base58e", "base64e", "base85e"}}
       \cup {Cipher("vigeneree", <<66, 122>>)}
Dec == {Cmd(op, w, 0) : op \in {"bind", "decd", "hexd"}, w \in Widths}
       \cup {Cmd(op, 1, 0) : op \in {"base32d", "base58d", "base64d", "base85d"}}
       \cup {Cipher("vigenered", <<66, 122>>)}

\* Scripts with semicolons, and from a file.
ScriptLines ==
  {<<Script(commands, closed), Name>> : commands \in Paths({Cmd("not", 1, 0), Cmd("xor", 1, 7)}, 2),
                                        closed \in BOOLEAN}
  \cup {<<AtFile(<<Line(<<c>>, closed, TRUE), Line(<<c>>, FALSE, FALSE)>>), Name, Target>> :
          c \in {Cmd("not", 1, 0), Cmd("xor", 1, 7), Cmd("bine", 1, 0)}, closed \in BOOLEAN}

CodecLines ==
  {Plain(<<e, d>>) : e \in Enc \ {Cipher("vigeneree", <<66, 122>>)}, d \in Dec}
  \cup {Plain(<<e, d, Cmd("base64e", 1, 0)>>) : e \in {Cmd("dece", 1, 0), Cmd("base32e", 1, 0), Cmd("base64e", 1, 0)}, d \in Dec}
  \cup {Plain(<<Cipher("vigeneree", key), Cipher("vigenered", key)>>) : key \in {<<66, 122>>, <<99>>, <<>>}}
  \cup {Plain(before \o back) : before \in {<<>>, <<Cmd("not", 1, 0)>>, <<Cmd("base64e", 1, 0), Cmd("base64d", 1, 0)>>},
                             back \in Paths({Cmd("base64d", 1, 0)}, 2)}
  \cup {Plain(<<Cmd("dece", 1, 0), d, Cmd("base64d", 1, 0)>>) : d \in Dec}
  \cup {<<Name, Name>>, <<Target>>, <<Name, Alone(Cmd("nocommand", 1, 0))>>,
        <<Name, Alone(Cmd("not", 1, 0))>>}
  \cup ScriptLines

ConvertLines == InPlaceLines \cup CodecLines

-----------------------------------------------------------------------------
\* Each notation that is not read back as the manual says, one after the other, with
\* a byte of two different halves and one that is 0; then a decoder with a semicolon.
BackLines ==
  {Plain(<<Cmd("hexe", 1, 0), Cmd("hexd", 1, 0), Cmd("dece", 1, 0), Cmd("decd", 1, 0),
           Cipher("vigeneree", <<>>), Cipher("vigenered", <<>>), Cmd("bine", 1, 0)>>)
     \o <<Script(<<Cmd("bind", 1, 0)>>, TRUE)>>}
BackData == {<<77, 0>>}

\* What an uninitialised text may hold.
Noise == {<<>>, <<68>>}
=============================================================================
