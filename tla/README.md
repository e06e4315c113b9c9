# A verification project for objtools-ng

objtools-ng is a set of single-threaded command line tools (objdump-ng,
readelf-ng, readpe-ng, objdwarf-ng, objcopy-ng, objhash-ng, objtool-ng,
coredump-ng, detect-ng, convert-ng) over one library of C modules in `src/src`
and `src/inc`. There is no unit test in the repository; the documentation is the
man pages in `src/man` and the comments. This directory holds TLA+ models of the
parts that keep state, the TLC runs that check them on small instances, and
machine-checked proofs of what holds for all instances.

## Inventory

Nothing in the program runs concurrently. What makes it hard is *shared
cursors*: a position that several callers move and each takes to be its own
(libdwarf's position in the list of compilation units, the engine's `cpos`, the
cursor of a `find_t`), *laziness* (the address engine is built by whichever
lookup comes first), *partial failure* (a handle finished deep in a recursion
whose callers go on), and *boundaries* (the last byte, the last group, index 0).

| Component | State | Operations | What makes it correct |
|---|---|---|---|
| Address engine: `opcode-engine.c`, `ocdwarf-engine.c`, `opcode-engine-got.c` | `ocengine_t`: array of groups, `size`, `sizemax`, `cpos` | `emalloc`, `eresize`, `oegetbyaddr`, `oeseebyaddr`, `oeaskbyaddr`, `execute_*`, `oecreate_engine` | the array is sorted, keeps what it is given, answers like a table of addresses |
| DWARF session: `ocdwarf*.c`, driven by `objdump.c`, `dumpelf.c` | the handle `ocdwarf_t`, libdwarf's position, the list of source files | `ocdwarf_open/close/finish`, `ocdwarf_sfcreate/sfreset`, one dumper per section | a dump shows its whole section; the handle is closed once |
| Opcode session: `opcode*.c` | `opcode_t.items`: BFD, symbols, engine, disassembler, DWARF | `ocopen`, `ocattach`, `occlose`, `ocget`, `ocdisassemble_*`, `ocget_symbol`, `ocget_func` | items are built once, on demand, and released once |
| Memory cursor: `memfind.c` | `find_t`: buffer, `cpos`, `epos`, `size`, ownership | read, peek, write, append, step, move, swap, free | reads stay inside the buffer, appended bytes come back |
| Archive reader: `arcode.c`, `readar.c` | the loop index, `symindex` | `ecget_ahdr`, `ecget_archive`, `dump_archive` | each member is met once, in order, with its own content and name |
| Buffers: `buffer.c`, `memuse.c`, `bstring.c` | `buffer_t` | allocate, slice, append, bounds-checked `getp` | no access outside the data |
| Lists, scripts: `memlink.c`, `scripts.c`, `options.c` | doubly linked `lnode_t`, `actions_t` chains | attach, detach, destroy, split, insert | items stay in order and reachable |
| Codecs: `encode.c`, `decode.c`, `convert*.c` | a chain of cursors | one encoder and decoder per notation | a decoder undoes its encoder |
| ELF reader: `elfcode*.c`, `dumpelf.c`, `readelf.c` | the file's bytes, which actions change; the dump that is next | lookup of headers, sections, names, versions; one dump per table; changes of a section | every number is converted; the tables that describe one thing agree; nothing is listed where it is not |
| PE reader: `pecode.c`, `readpe.c` | the same; a cursor over a version resource | addresses to file positions; one dump per table; the tree of resources | the walks stay in step with the tables, and end |
| Core notes: `dumpelf.c`, `coredump.c` | a cursor over a note segment | one handler per note, each moves the cursor past it | every header is read where it is |
| Detection: `detect.c`, `signatures.c`, `objregex.c` | a text, a database, the signature last read | text to database, scan | what is reported is what the text says |
| Hash, copy: `hash.c`, `crc.c`, `objhash.c`, `objcopy.c`, `dump.c` | none across sections | per section | ranges |
| Printing: `printf*.c` | none | formatting | layout only |

How they interact: a program parses its options (`options_t`), opens a file as an
`opcode_t` (over BFD, or attached to a buffer) and calls one walker with a
callback per section. A callback disassembles or dumps; printing an instruction
asks the address engine, which the first question builds; building it walks the
same libdwarf handle that the DWARF dumpers walk. The archive reader cuts
members out of a buffer with `find_t` cursors and hands each to the ELF reader,
which hands the note segments of a core file to the walk over notes and the DWARF
sections to the DWARF session. Signatures are read from a text through one cursor,
written through another, and held against a file through the lookups of the PE
reader.

`PROJECT.json` lists every component with what is modelled of it, and under
`hazards` what in this code is hard to test, each at its line.

## The modules

| Module | What it is |
|---|---|
| `EngineData` | The records of the engine (`ocdebug_t`, `ocsymbol_t`) and what a DWARF entry, a line row and a neighbour do to them: `Describe` is `execute_store_sp`, `Locate` is a row in `execute_src`, `Illustrate` is an entry in `execute_acc`. |
| `AddressMap` | The abstract engine: a partial function from addresses to records, filled in four stages and then asked. No array, no cursor. |
| `AddressEngine` | The engine of the code: array, growth, scans that stop early, insertions that move slots. Refines `AddressMap`. |
| `NaturalRecursion` | Induction on naturals and functions by recursion, for the proofs. |
| `AddressEngineProofs` | The inductive invariant of the engine, its theorems, and the proof that it implements `AddressMap`. |
| `DwarfSession` | One object file through `do_object`: disassembly, DWARF dumps, the lazily built engine, and libdwarf's shared position. |
| `DwarfSessionProofs` | Its inductive invariant and its theorems. |
| `FindCursor` | The reading operations of `find_t` as operators. |
| `ArchiveWalk` | `readar` over `ecget_ahdr` and `ecget_archive`, whose walks are built from `FindCursor`. |
| `ArchiveWalkProofs` | The layout of an archive, what a walk returns, and its theorems. |
| `ByteOps` | The operations of `decode.c` that change a buffer in place: rotations of the alphabet, and XOR, NOT, ADD, SUB, shifts and rotations on words of 1, 2 and 4 bytes. |
| `Codecs` | The encoders of `encode.c` and the decoders of `decode.c` as functions on sequences of bytes. |
| `Scripts` | How `scripts.c` and `options.c` turn an argument into actions. |
| `Convert` | `convert-ng`: arguments, chain of actions over one buffer, searches, output. |
| `ConvertProofs` | Bits, words, alphabets and notations for any bytes, each decoder against its encoder; its inductive invariant and its theorems. |
| `CoreNotes` | The walk over the notes of a core file: one cursor and six handlers that move it. |
| `ElfSegments` | Which sections a segment holds, in unsigned arithmetic. |
| `CoreNotesProofs` | The sums of its fields, the layout of a segment, and its theorems. |
| `ElfFile` | An ELF file of either byte order and class as `elfcode.c` reads it: lookups, conversion. |
| `ElfNames` | The names of versions, of addresses and of relocations. |
| `ElfDumps`, `ElfContents` | What each dump of `dumpelf.c` shows, as a function of the file. |
| `SectionActions` | How options change the bytes of a section before it is shown; shared by ELF and PE. |
| `ReadElf` | `readelf.c`: the dumps in their order, over a file that the actions change. |
| `ReadElfProofs` | What the tests of `ElfSegments` promise for headers with any numbers; what the report holds; its segments, versions, histograms, global offset table and the sections that actions show. |
| `PeFile` | A PE file as `pecode.c` reads it: headers, sections, addresses to positions. |
| `PeDumps`, `PeVersion` | What each dump of `readpe.c` shows; the tree of resources and the chunks of a version. |
| `ReadPe` | `readpe.c`: the dumps in their order, and the loop over a version, turn by turn. |
| `ReadPeProofs` | The three walks over tables for tables of any length; what the report holds. |
| `WriteCursor` | `find_t` in its writing mode: a block of its own, an end that moves. |
| `Detect` | `detect.c`, `signatures.c`: the text of signatures, the database, its scan over a PE file. |
| `MC...` | Instances for TLC. |

### AddressEngine

`groups`, `size`, `sizemax` and `cpos` are the fields of `ocengine_t`. `stage`
says which loop of `oecreate_engine` runs: `execute_inf`, `execute_src`,
`execute_acc`, `opcode_create`; after that the engine is only asked. A call is
one step because one thread runs it. `StoreSubprogram`, `StoreRow`,
`ExecuteAcc` and `ExecuteNew` are one DIE, one row, the pass over all groups
and one PLT stub; each uses `Put`, which is `oegetbyaddr` in group mode with
what its caller writes into the group it got. The lookups are `SeeDebug`
(`oeseebyaddr`) and `AskDebug`, `AskSymbol`, `AskGroup` (`oeaskbyaddr` by mode).
Allocation is taken to succeed. Columns, discriminators and the other fields
that no lookup depends on are left out. Source files are compared by CRC32 in
the code and by name here. `oeaskbyaddr` answers the group before the stop,
whatever it was asked for; its callers test the kind of handle they get
(`isodebug`, `isosymbol`), and so do the operators here.

`AddressMap` says the same with sets: a function is found from any address it
covers, the lowest one first; the group of an address is the closest one at or
below it, *but only when another group lies above the address*. That last clause
is what the code does (the scan that runs to the end answers NULL), and it means
that the last PLT stub of a file has no group.

### DwarfSession

The file is fixed in `Init`: the sections in file order, which units have source
files, which have an entry libdwarf cannot read, the options. `position` is
libdwarf's: `dwarf_next_cu_header_e` moves it by one and, past the last unit,
answers "no entry" and starts over (external). The `.debug_info` dump moves it
to the end, the `.debug_line` dump by one, and building the engine by a full
walk of what is left and one more. The engine is built by the first lookup:
printing an instruction, or naming an FDE in the enhanced `.eh_frame` dump.
`ocdwarf_sfcreate` answers the number of characters it printed, and
`execute_inf` takes it for a status (`Listed`). readelf-ng and objdwarf-ng are
the behaviours with disassembly off.

### ArchiveWalk

`index` is `readar`'s loop variable and `symindex` the static of `readar.c`.
Everything else is computed again for each index, as the code does: `Walk(i)` is
the loop of `ecget_ahdr` and of `ecget_archive`. Positions count from the end of
the magic. The layout of the file (member, padding to an even position) is ar's
and external; `stray` is what bytes that are no header read as, and `lost` cuts
the last byte off. The kind of a member is what the tests of `dump_archive` on
its name decide.

### Convert, ByteOps, Codecs, Scripts

`args`, `inpname`, `outname` and `actions` are what `get_options_convert` works
on; `b0`, `step`, `isok` and `at` (the chain element `x0`) are the locals of
`main`; `shown` collects what a search prints. `Swap` is one call of a codec with
`fswap`, whose NULL the loop goes on with; `Crash` is the turn that then reads
through it, and `Output` does so behind the last one. A codec has no result
(`HasResult`) for an empty source, a cipher none without a key, and the decoders of
base 32, 58 and 64 (`Narrow`) none for a single byte: they reserve three quarters of
their source's size, which is then 0 bytes, and a buffer of no size is NULL. `Brute` is a search, `SetStep` is `inc` and `dec`, `Change` is
`dump_actions0`.

A byte is a number and a word the sequence of its bytes, lowest first, so that a
word of four bytes stays inside the integers of TLC; a shift works on its bits.
The arithmetic keeps its width: words of one and two bytes are computed in
`int32_t` and brought back by the largest value, words of four wrap. A shift
that C leaves undefined (`ShiftDefined`: a count outside 0 to 31) is not run. The key of XOR and of
the shifts is moved by the step at each word and kept in the width of a word
(`KeyAt`), so a key that leaves its width wraps, except in four bytes, where the
code has 32 bits and the model the integer, whose low bytes are the same.
`base58_idx` answers -1 for what is no digit of the alphabet, as the table does for
bytes below 128; the code reads behind its table for the others, which no encoder
writes. A decoder is a recursive function over the places of
the text with what its loop keeps as the value, and is run on texts that an
encoder has written, which are the ones that end in the NUL it counts. Of the sizes of
allocations only that 0 is modelled. Without a value in braces `breakup_script` leaves its
caller's buffer alone, and what it then holds is a choice of `Leftovers`. A
command arrives with its name found and its value read: the split of `xor8(5)`
into the two is left out.

### CoreNotes

A segment is laid out as a kernel writes it. `cur` is the cursor of
`dumpelf_notes32/64`, an action is one turn of their loop: the header, the name and
the handler of the type. Every handler moves the cursor by the widths of the fields
it reads, which depend on the machine, and steps over the rest; nothing else
says where the next header is. All handlers step to three bytes behind the description,
which is right for names of five bytes and descriptions that the fields fit into (`Regular`). What is read as a
header where none begins is one of `Strays`. `heads` and `reads` remember where
headers were read and what a handler read last.

### ElfFile, ElfNames, ElfDumps, ElfContents, ElfSegments, ReadElf

A file is a record: headers, and for each offset with contents the entries stored
there. Numbers have 16 bits, kept as the file stores them, and `ecconvert` turns
them in a big endian file, so a field that a reader forgets to convert is another
number. A name is its place in the string table. A dump is a function of the file
that gives the rows it shows, and `ReadElf` makes the dumps in the order of
`readelf.c`; its `file` is a variable because the changes of `dump_actions2` are made in
place and every later dump sees them. The 32 and the 64 bit variant of a function
are one operator unless they differ. What the code takes for granted of a file the
models do, too: the contents of a section, or a missing one's place, lie in the file
(`dump.c:62` changes nothing else; an ELF file has no size here, a PE file has), `ecget_value` finds an
entry for each index that a dynamic section counts (`value`), and the name of a note has the four bytes
of "GNU" (`DescWord`), which the code does not pad.

`ElfSegments` keeps the tests of `isELFshdrinphdr` with their machine arithmetic,
one less than 0 included, and for a word of any size, so that they can be proved about.

### PeFile, PeDumps, PeVersion, ReadPe

A file is again a record of headers and of what stands at each offset; a field
where nothing begins is 0. `PeFile` holds the bounds tests (`getp`, the header of
the machine, the section of an address) and the position of a directory entry.
The dumps are functions; the dump of a version resource is a loop whose every turn
moves a cursor (`FindCursor`) by the sizes that the chunks give, so it is an action,
`Turns`, taken inside the version dump and inside the resource dump. `MaxTurns`
bounds what the report remembers of a version, not the turns. A step that ends at the end of the
data or behind it leaves the cursor without a pointer (`memfind.c:602`), and what is looked for
there is read through NULL: `TurnCrash` is that of the fixed info, of the table of strings and of the
variable (`v1`), `StringCrash` that of a string (`v2`); both end the program ("crashed"). A value
without a pointer is not read, only counted, with `ECODE_NULL` (`Counted`). What a live cursor reads is what
stands in the file there, also where it is behind the data of the version.

### WriteCursor, Detect

A line of the text is what the three patterns of `detect_create` tell apart: a name, a
signature, a flag, or another. `fgetline` puts a 0 behind a line, but not behind the
last one, whose read kills the cursor: what the patterns then see behind the
text is a choice (`Behind`). The test whether a name has been met is always true,
because `regexec` leaves the groups of a pattern that fails as they were, and is not a
guard here. `out1` collects the digits of one signature, `out2` the
database, both in blocks as large as the text. `Detect` opens the database and a
program, and the chunks are read one per step (`NameChunk`, `SignatureChunk`,
`FlagChunk`); a flag is what triggers the comparison with the name and signature
last read. A byte of the database is what it stands for.

## Runs

| Run | Instance | Shows |
|---|---|---|
| `engine` | 4 addresses, room for 2 groups and growth by 2, up to 3 groups, 1 name, functions of length 2 | All engine invariants and the refinement of `AddressMap`. |
| `snippets` | 3 addresses, 2 files of which one opens, lines 5 and 7 | The refinement with source code attached. |
| `session` | 2 units, every order of `.eh_frame`, `.debug_info`, `.debug_line` behind code, repeated sections; all options | What is shown, what the engine holds, what is closed, termination. |
| `verbose_functions` | as `session` | *Violated*: `-v` takes the functions away from the disassembly. |
| `archive` | up to 3 members of 5 kinds and sizes 0 to 2, headers of 2 bytes, 3 kinds of stray bytes, one byte lost or not | Order, content, names, termination. |
| `every_member_shown` | as `archive` | *Violated*: padding is not skipped. |
| `convert` | chains of one or two operations of 11 (4 kinds, widths 1, 2, 4) and their reversal, behind `inc`, `dec` or neither; sums; searches; every encoder before every decoder, some with another encoder behind; scripts with semicolons and files of scripts; 8 inputs of 0 to 5 bytes | A reversed chain undoes, a search finds, a sum loses one value only; what each notation reads back; which chains can read through a null pointer. |
| `converts_back` | one command line: `hex8e hex8d dec8e dec8d vigeneree vigenered bin8e "bin8d;"`; one input, <4D 00> | *Violated*: halves of bytes are swapped, zeros lost, a key taken from the stack, a decoder dropped. |
| `core_notes` | segments of up to 3 notes of 6 types on 6 machines, with one irregular owner and size, in brief and detail; 3 kinds of stray headers | The walk stays in step, reads nothing of the next note, and ends. |
| `readelf` | files of both classes and byte orders: dynamic programs with 2 versions in every arrangement, ARM and MIPS programs, one section on every edge of one segment; actions between two shows of a section | Conversion, versions, segments, histograms, the GOT, changes made once. |
| `pe` | files of both widths: imports, exports, up to 3 relocation blocks, pairs of unwind operations, 14 sizes of the load configuration, 20 lists of version strings, trees of resources, versions in data cut at 7 places, files that are cut or none | Tables are read in step, versions shown alike, their loop ends, or reads through NULL if the data are cut. |
| `detect` | texts of two entries of 6 kinds with room in front or not, line ends of 3 kinds, last line ended or not; 4 programs in 4 modes | The database holds what the text says, the scan reports it. |

Why the bounds are enough. In the engine the third group is the one that makes
the array of two grow, and inserting it in front, in the middle and behind are
all reachable; four addresses give functions of length 2 that overlap, touch,
coincide and wrap around. Two units are enough for a shared position to be at
the start, in the middle and at the end; three sections in every order put each
dumper before and after each other. Three members put a table of names before,
between and behind members, and sizes 0 to 2 are empty, padded and even.
`MaxGroups` in `AddressEngine` bounds the addresses of a file; the array's own
bound is only memory. The inputs of `convert-ng` have every length from 0 to 5,
so that words of 2 and 4 bytes leave 0 to 3 bytes behind and the groups of base
32, 64 and 85 end at every place; they hold zeros in front and behind, the largest
byte, letters of both cases, and a sum that overflows each width. Keys are such
that no shift is undefined for them: 4 to 9 bits, one step up or down per word, or
256 and a few for words of one byte, where they wrap to these.
A search of 16 bits of XOR has 65535 keys and is not run.
In `core_notes` the description sizes are those of the kernel's structures, so that a
field list that is too long or too short for a machine shows; a note at each end
of a pair and a third one behind them put every handler before and after every
other. In `readelf` the edges of a section begin or end one before, at, and behind
the edges of the segment; versions are equal, different, hidden, local, global and
missing; each file has its twin in the other byte order. In `pe` the data of a version end
in its first chunk, at the head of the strings, between strings and in the variable, so that
each pointer that the loop reads through is NULL once; the sizes of the load configuration are the ends of the five groups and their neighbours, an unwind
operand looks like an operation of one or of two slots, and strings fill whole words with
their key, their value, both or none. In `detect` the comment in front makes the
block too small for the database, exactly large enough but for the last byte,
and larger; the signature is at the entry point, away from it, in front of the
last byte and at it.

Each property of a passing run has a mutant in `PROJECT.json`: a plausible slip
in one mapped definition that the run then reports.

Fairness. `DwarfSession` has `WF_vars(Next)`: the program is one thread, blocks
on nothing and is only stopped from outside, so it takes its next step while it
has one. `Terminates` says that it then comes to an end. In `ArchiveWalk` the
same is said without fairness: a step is possible until `readar` returns
(deadlock is checked), and the number of steps is bounded by the headers that fit
into the file. `CoreNotes` has `WF_vars(Next)` for the same reason as the session, and `ReadPe` has
`WF_vars(Turns)`: the loop over a version takes its next turn while its test
lets it. `VersionsEnd` says that it then ends, but for the version info without a
value, which it reads for ever, and for data shorter than the version in them, where the program
may end on the way; the fairness of one action is enough, because
nothing else runs while the loop does.
Runs whose programs return end in an explicit `Stop` or have deadlock unchecked
(`core_notes`, `readelf`, `pe`, `detect`), where a last state is the report complete; the
engine may be asked for ever.

## Proofs

Each module of proofs EXTENDS the module it is about and follows one plan: an
invariant `IInv` that is inductive (checked by TLC on the module's run first), a lemma that
`Init` gives it, one lemma per action (or per family of actions) that keeps it, and
theorems that take what they state from it. Nothing is bounded in them: they hold for every
value of the constants that the named assumptions allow.

| Module | Theorem | States |
|---|---|---|
| `AddressEngineProofs` | `TypeCorrect`, `AlwaysInRoom`, `AlwaysSorted`, `AlwaysOwnAddress`, `AlwaysAccSafe` | the invariants of the array, for every word size, growth step, bound, and set of names, files, lengths and lines |
| | `AlwaysCoveredAnswers` | what the scans find although they stop early: a function from every address it covers, a stub at its own |
| | `AlwaysOthersKept` | a store changes the group of one address only |
| | `ImplementsAddressMap` | `Spec => ImplementsMap`: the array answers every question as the abstract table |
| `DwarfSessionProofs` | `TypeCorrect`, `AlwaysInfoRunsToEnd`, `AlwaysEngineWhole`, `AlwaysClosedAtEnd` | what the dumps show, what the engine holds and what is closed, for every number of units and every layout |
| `ArchiveWalkProofs` | `TypeCorrect`, `AlwaysTerminates`, `AlwaysSeenInOrder`, `AlwaysDumpsMembers` | order, content and names of the members and the end of the loop, for every archive, header size and stray bytes |
| `CoreNotesProofs` | `TypeCorrect`, `AlwaysNotesInStep`, `AlwaysReadsStayInNote` | the walk over notes stays in step and inside of each, for every machine, number of notes and size of description |
| `ConvertProofs` | `TypeCorrect` | through any chain of actions the buffer, and what is written, holds bytes, for every command line, input and content of an uninitialised text |
| | `ChainUndone` | a chain that takes back what it does, in reverse order with the same keys, widths and step, gives the input back |
| | `InputFound` | a search for the key of the operation before it prints the input |
| | `CrashOnlyEmpty` | a null pointer is read only for a cipher without a key, behind a decoder that may answer no byte, or for a decoder that has room for none and a single byte to read, which the input is or a codec has left that may leave one |
| | `TextBack` | binary digits, base 64 and the cipher under one key read back with only NULs behind, decimal numbers of inputs without a zero byte, for inputs and keys of any length |
| | `HexSwaps` | how far `ConvertsBack` is missed: hexadecimal text comes back with the halves of each byte swapped, and with no other change |
| `ReadElfProofs` | `ListedInMemory`, `ListedInFile`, `ListedOnce` | a listed section has its bytes in the segment's memory and file range; two segments that lie apart share none; for machine words of any size and headers with any numbers |
| | `LoadedExactly` | a section with bytes is listed under a load segment exactly if its bytes are the segment's |
| | `TypeCorrect` | the report holds the dumps that are due, for every file and chain of actions |
| | `AlwaysSegmentsHoldSections` | under `SaneHeaders`: the sections shown under a load segment are those whose bytes it has |
| | `AlwaysGotWhole` | under `GotNumbers`: every slot of a global offset table is shown once, each global one with its symbol |
| | `AlwaysVersionsAgree` | under `SoundVersions`: relocations, symbols and version table show one version of a symbol |
| | `AlwaysHistogramAddsUp` | under `SoundHashes`: a histogram counts every bucket once and its last line covers every symbol |
| | `AlwaysShownAlike` | under `Tidy`: a section that several actions show is shown with the same bytes each time |
| `ReadPeProofs` | `TypeCorrect` | the report holds the dumps that are due, and the loop over a version keeps a cursor until it ends or reads through NULL, for every file and chain of actions |
| | `AlwaysTablesInStep` | under `Sound`: relocation blocks, unwind codes and the load configuration are shown as the tables hold them |

`NaturalRecursion` holds what the others share.

### The inductive invariants

*Address engine.* `IInv == Ordered /\ AccSafe` with `Ordered == TypeOK /\
InRoom /\ Sorted /\ OwnAddress`. `Sorted` needs `TypeOK` and `InRoom` for the
shift of an insertion to stay in the array, and `OwnAddress` needs `Sorted` to
know that a found group is the only one of its address; `AccSafe` needs nothing
of them but says of the stages "inf", "src" and "acc" what "acc" needs. The scans
are defined with `CHOOSE` of a least element, so the proofs start from the least
number principle (`LeastNatural`) and
split a scan into what lies before and behind its stop (`SeeSplits`).
`CoveredAnswers` is then a consequence of `Ordered` alone. The refinement needs no more
than `Ordered` either: the table `Known` is read off the array, a sorted array has one
slot per address (`OrderedKnows`), so an insertion, which moves slots, changes the
table at one address; the neighbours that `execute_acc` looks at are those of the
table because the array is sorted.

*Session.* `HandlePlaced` says where in the program the handle may be open, `StartsOver`
that libdwarf is at the start of its list between two walks while only `.debug_info` dumps
ran, `StoredSoFar` and `ShownSoFar` what the builder and a dump have collected when
libdwarf is at `position`. Without the last three a half-built engine or
a half-done dump could be finished with anything: `EngineWhole` and `InfoRunsToEnd` speak of
finished ones only.

*Archive.* `AllSeen`: the headers met are `Header(0)`, `Header(1)`, ... and all of them
exist; `SymIndex`: `symindex` is the place of a table with no other behind it up to
`index` (`TableBefore`); `AllShown`: each dump is that of such an index. These say in terms of the
walk's function `Header`, which the code computes again for each index, what the properties say
in terms of the members; that `Header(j)` is the start of a member (`SeenInOrder`) or makes
progress (`Terminates`) is proved of the function alone.

*Core notes.* `Typed` says that the cursor is behind the header read last and that a live one is
in the buffer (`Held`). `InStep` adds to `NotesInStep` where the cursor is,
the start of the next note, and that it is live exactly while it is in the segment
(`Sound`). `Sound` is why the moves may be summed up: whatever the handlers read, a
cursor that only goes forward stays sound, and `Behind` takes it to the same place wherever
the reads stopped; only a handler that reads behind its note would go back
and have lost the buffer on the way. So the proof is about what the lists of fields
add up to: `StatusTakes`, `ProcessTakes` and `SignalTakes` sum them for every machine,
and the structures of the kernel (`KernelSize`) leave room for them, in `elf_prpsinfo` of
x86-64 to the last of the three bytes of padding.

*convert-ng.* `Inductive` proves `IInv == TypeInv /\ FreshInv /\ ReachInv /\ ShownInv /\
EmptyInv`. `ReachInv` is the heart: `Reached(at, actions, file, b0, step)` says that there is a
trace, a sequence of buffers and of steps, that starts with the input and step 0 and goes
from one action to the next as `Moves` says, and that ends in `b0` and `step`. A property
that compares the end of a chain with its input can only be read off such a history, for the
program keeps the last buffer alone. `FreshInv` gives the trace its first element when
the options are read; `ShownInv` says what a search has printed; `EmptyInv` where a buffer comes from
that holds no byte or one: an empty one from a decoder that may answer no byte (`FedBy`), a single byte from the
input or from a codec that may leave one (`FedShort`), and a missing one from a codec that lacks a source, a key or
room (`Lacks`). The two are why in-place operations in between do not matter: they keep the length. For `UndoneInReverse` the trace is
folded from its middle: `MirrorBack` says that the buffer before an action and the one behind its mirror are
the same, by induction on the distance from the middle, which needs of one action that
its opposite undoes it (`InPlaceBack`). That is a fact about words (`ChangedBack`): NOT and XOR
bit by bit, rotations as an arrangement of the bits (`RolIs`, `RorIs`), the alphabets by cases, and
that a buffer is put together from the same words it was cut into (`JoinedBack`), with the bytes
behind the last whole word left alone. `SearchFindsInput` adds that the search runs through every key
that makes a difference (`SearchFinds`): for XOR each key but 0 within the width,
and a larger key counts as its low bytes also after it was moved (`SameFirst`,
`SameLowBytes`), for rotations each number of bits up to the width. `TypeOK` and
`CrashNeedsEmpty` need that each of the notations gives bytes for bytes and when it gives
none; the decoders carry their accumulators in sets of records (`Block32` and its like) that bound
what they have not yet written. `TextBack` takes the chain's steps from the same trace, whose `Moves` says
that a codec answers `Coded` of the buffer it found. An encoder's text is a concatenation of one
part per byte (per three bytes in base 64, per byte and separator in decimal), and the
lemmas say where each part lies in it. The decoder is then walked over one part, from a state
that says what it has written so far to the same state one byte on, and `Upwards` goes
over all parts, up to the NULs at the end of the text. For hexadecimal one such walk swaps the halves of
each byte (`HexBack`, from which `HexSwaps` follows); in decimal a zero byte has no digits, and what remains
is the concatenation of the other bytes (`DecBack`), the input when none is 0.

*ELF report.* `ActionsCounted` and `InOrder` say which dumps are due; `OpenedShown` and
`ArchShown` that a dump in the report is the function of the file as it was when the dump was
made: the dumps before the actions of the file as it was opened (`Opened`), of which the
actions have since changed the contents of sections, never the
headers (`SameHeaders`), the last one of the file as it is. That three dumps are made of
one file is what `VersionsAgree` needs, which compares them when the actions are done.
The histogram is a count of sets: the buckets below a length are those of each smaller length
(`ShorterGrows`), and the symbols in chains of length i are i for each such chain
(`SymbolsOfLength`), shown bucket by bucket. `ShownAlike` relates two points of the chain of actions, and no single step
breaks it; `TidyInv` relates each to the present: what was shown of a section is what would be
shown now (`ShownNow`), and a section once named is never changed again
(`isnamedone`). That needs the names to mean the same sections throughout, which is what `Tidy` asks. The lemmas about segments are of the
tests of `ElfSegments` alone: `LoadedExactly` needs that a section ends below the largest number
(`Sane`), because the code compares a sum that wraps around, and its lemma
`WithinExactly` is that such a section passes the two-sided test of `check_x2b` and
`check_x3b` exactly if it lies within the segment, although the code takes one from a
length that may be 0.

*PE report.* `ActionsCounted` and `InOrder` are as in the ELF report; `Walks` says that a version
is only walked while a dump that shows versions is under way, with a cursor whose position
is a number (`CursorMoves`: whatever sizes the chunks give). `TablesShown` says that the three tables in
the report are those of the file as it is now: the actions that come last change words alone, which no walk
over a table reads (`SameReads`, `SameTables`). The rest is about the walks, for tables of any length. Each
compares a list that the code makes while it goes on with a set that is said without going:
the blocks shown are the first ones in a chain of places that rises until a size of 0
stops it (`ShownFirst`, `BlocksAre`); the operations of an unwind table and the codes shown are two walks over
the same slots which part at an allocation of three slots and not before (`HopsMeet`); the five groups of
the load configuration are shown by a comparison of sizes in the code and are there by another
(`GroupsCover`).

### Recursion over data

What a walk returns is a function on an interval of numbers, each value following
from the one before, and the prover has no rule for such functions, nor for
induction. `NaturalRecursion` has them without operators as parameters: every set of
naturals has a least member (`LeastNatural`, by well-founded induction); a set
that has the first number and with each the next one has all (`Upwards`); two functions
that start and go on alike are the same (`FollowAlike`); for a step that stays in
a set there is a function that follows it (`FollowsExists`), so a `CHOOSE` of one has its
equations; sums are such functions (`SumExists`, `SumIs`, `SumsAdd`), and so is what a decoder
keeps from one character to the next (`Iterates`): it exists and stays in a set that each step
stays in (`IteratesExist`, `IteratesStay`). `ArchiveWalkProofs`
uses them for the layout of an archive and for `ecget_ahdr`, whose state is a record of
cursor and position; `CoreNotesProofs` for the layout of a segment and the widths of fields;
`ConvertProofs` for the decoders, the carry of a sum, the change of a number's base and the trace of a chain;
`ReadPeProofs` for chains of relocation blocks and hops over unwind slots.

### Assumptions and hypotheses

The assumptions on constants are those of the models, and TLC evaluates each in a passing run:
the width of a word is not 0, lengths and lines are numbers, NULL is no
record (`EngineData`, `AddressEngine`); layouts are sequences of kinds (`DwarfSession`); a header of
ar has an even size and members have sizes (`ArchiveWalk`); headers of notes have sizes
(`CoreNotes`); a file is a record of header, tables and contents of class 32 or 64, its section headers a sequence, what is absent is no number (`ElfFile`), and options ask for
dumps that exist (`ReadElf`); a PE file has numbers in its section headers and in the tables that
are walked, unwind codes are a sequence, and options ask for dumps that exist (`ReadPe`); command lines are sequences of arguments of the kinds that
`get_options_convert` tells apart, inputs and leftovers sequences of bytes, and NULL is none (`Convert`).

Six theorems have a hypothesis on the file in front of their property or on all files. `SaneHeaders`: the
fields of section and program headers are numbers of the word's width and no section
passes the end of memory; `GotNumbers`: the three counts of the dynamic section are
unsigned; `SoundVersions`: a relocation that shows a version names a symbol of the first
dynamic table that has a number in the version table, and the version strings begin with
the empty name; `SoundHashes`: each symbol of a hash table hangs in exactly one chain; `Tidy`: no two
sections with contents begin at one offset, and no action names the table of section names,
whose change would rename the others. Every
file of the run `readelf`, with every list of actions, has all five. `Sound`: the section that is named
`.reloc` is the one of the directory entry, and an allocation of an unwind table says a size that
exists; every file of the run `pe` has it. `Regular`, the
hypothesis inside of `NotesInStep` and `ReadsStayInNote`, asks for the owner's name that the
code takes for granted and for a description that holds the kernel's structure: without it
the fields are read from the next note.

### Only model-checked

- Liveness: `Terminates` of the session, `WalkEnds`, `VersionsEnd`.
- The detection (`DatabaseWhole`, `MatchedAsWritten`): what a database holds follows from an
  induction over the lines of the text and the bytes of each record, which was not carried out.
- Of the ELF report `ByteOrderFree`, which compares the dumps of two files
  record by record.
- Of the PE report `VersionsShown`: that a walk over a version meets the strings that lie in it needs an
  induction over the tree of resources and one over each table of strings.

## Where code and documentation part

Each of these is a run that TLC refutes, and an entry under `findings`.

- `VerboseKeepsFunctions`: `-v` prints "additional information"
  (`man/objdump-ng.1:67`) and loses all functions.
- `ConvertsBack`: a decoder converts back what its encoder has written. The trace goes
  through four pairs, each of which refutes it alone: the encoders of hexadecimal text
  write the low half of a byte first (`encode.c:337`) and the decoder reads the high one
  first (`man/convert-ng.1:178`: "back into its raw value"); the encoder of decimal text has
  no digit for 0, so these bytes are lost (`encode.c:73`, `man/convert-ng.1:160`: "back into its raw form"); the cipher without
  a value in braces takes what the stack holds for its key, which need not be the same for the decoder
  (`scripts.c:71`); and `bin8d;` is to convert (`man/convert-ng.1:142`) and does nothing
  (`scripts.c:58`). Binary digits, base 64 and the cipher with a key are what remains
  (`TextReadsBack`).
- `EveryMemberShown`: archives are supported (`man/readelf-ng.1:47`), but a member of
  odd size hides what is behind it.

Other places where the code does less than a reader expects. The models have
them as the code does, and the passing properties are stated around them.

- Source code (`-S`): the first snippet of a file starts at `nline - 5`, and
  `xstrgrab` takes 0 for "no line". Line rows are those of one unit.
- The `.debug_info` dump begins at the position that others have left
  (`InfoRunsToEnd`).
- Codecs (`TextReadsBack`): base 32 (in the alphabet of base 64, `encode.c:435`) and
  base 85 (whose last block holds the NUL) give back the beginning only; the NUL that most
  encoders count into the size comes back as one. `add8` and `add16` are one too large after an overflow
  (`decode.c:383`, `UndoneInReverse`). Of base 58 nothing is claimed: its decoder reads
  the NUL that ends the text as one digit more (`decode.c:775`). A codec without a
  result crashes the program (`CrashNeedsEmpty`).
- PE tables (`TablesInStep`): in 64 bits an import by ordinal is taken for one by
  name (bit 31 is tested, not 63); the n-th name of an export is shown with the
  n-th function and with its index plus one, not with the base; unwind operations of
  three slots are taken for less; the sizes that open a group of the 64 bit load
  configuration are 152 and 248 where the groups end at 148 and 244; a relocation table
  that does not begin its section is read past its end.
- PE versions (`VersionsShown`, `VersionsEnd`): strings whose key and value fill whole
  words put the walk four bytes off each, values of more than 50 characters break it,
  one table of strings is read, a version info without a value is read for ever, and in data
  that are cut short the next chunk is read through NULL (`readpe.c:622`).
- Detection (`DatabaseWhole`, `MatchedAsWritten`): an entry without its signature is
  compared with the signature before it; the last line may not end in a 0; a
  text of names only can outgrow the block of the database, whose last byte is never
  used; a signature that ends with the last byte of the program is not found; with
  line ends of a carriage return alone each next line loses its first character.

## Not modelled

- Layout: headings, columns, the names of flags and constants (`printf*.c` and
  the tables of the readers).
- DWARF dumpers that read one section and print it (most of `ocdwarf*.c`): they do not
  move the position that `DwarfSession` is about. libdwarf, BFD, libopcodes and
  capstone are external; of libdwarf only the position is modelled.
- The opcode session over BFD and its printers' choice of a name; the decoding of PLT stubs; the
  instruction examiner, which is a table of mnemonics.
- Of the ELF reader the ABI flags of MIPS and the relocations that
  `elfcode-memfind.c` applies before DWARF is read; of the PE reader the tables and threat levels of
  `pefunc.c`; `coredump.c`, which makes the dumps of readelf for one more file.
- Hashes and the copy of sections: no state between them.
- Of the codecs AES and LEB128, and the conversion of a value in a script to a number.
- `fappendp` and the compression through a cursor: no program calls them.
- Failure of `malloc`: the code does not handle it in a way that could be stated.

## Plan

1. `AddressEngine` and `DwarfSession`, the parts where state is shared (done).
2. `FindCursor` and `ArchiveWalk`, `WriteCursor` (done).
3. The codecs, each decoder against its encoder, and the pipeline of `convert-ng` (done).
4. The ELF and the PE report, the walk over core notes, the signature
   database (done).
5. The printers' choice of a name (`ocget_func`, `ocget_symbol`) over
   `AddressEngine` and the symbols; the stubs found in a PLT section.
6. The recursion over DIEs; lists; the life of the opcode session.
7. Proofs: the engine and its refinement, the session, the archive, the core notes, the
   segments, versions, histograms and global offset table of the ELF report, `convert-ng`,
   the tables of the PE report (done); the detection, versions in PE files.
