----------------------------- MODULE PeVersion -----------------------------
(***************************************************************************)
(* Resources of a PE file: the tree of directories, and the chunks of a    *)
(* version resource, which dump_versionV of readpe.c reads with a cursor.  *)
(***************************************************************************)
EXTENDS PeFile, FindCursor, SequencesExt

RT_VERSION == 16

-----------------------------------------------------------------------------
(* The tree.  An entry [string, id, dir, to] points to a directory or to   *)
(* data, [vaddr, size], at an offset from the root.                        *)

Root(f) == chunkbyentry(f, ENTRY_RESOURCE)

\* The entries lie behind their directory.
EntriesOf(f, p) ==
  [k \in 1 .. Field(f, p, "named") + Field(f, p, "ids") |-> f.body[p + ResourceDirectory + ResourceEntry * (k - 1)]]

\* Data below a directory.
dump_versionZ(f, p) ==
  LET Data[q \in Int] == LET e == EntriesOf(f, q) IN
        FlattenSeq([k \in DOMAIN e |-> IF e[k].dir THEN Data[Root(f) + e[k].to] ELSE <<Root(f) + e[k].to>>])
  IN Data[p]

\* dump_versionNN: the data that the version dump shows.
VersionData(f) ==
  LET e == IF Root(f) = Null THEN << >> ELSE EntriesOf(f, Root(f)) IN
  FlattenSeq([k \in DOMAIN e |-> IF e[k].dir /\ ~e[k].string /\ e[k].id = RT_VERSION
                                 THEN dump_versionZ(f, Root(f) + e[k].to) ELSE << >>])

\* Mutant of NameBelow: the last identifier counts.
NameBelowLast(name, e) == IF e.string THEN name ELSE e.id

\* The type of a resource is the first identifier on the way to it.
NameBelow(name, e) == IF name = 0 /\ ~e.string THEN e.id ELSE name

\* dump_resourceZ: what is shown of a directory and what is below it, each with
\* its level; dump_resourceY: data, which is of the type that name says.
dump_resourceZ(f, p) ==
  LET Rows[q \in Int, name \in Nat, z \in Nat] == LET e == EntriesOf(f, q) IN
        <<[dir |-> q, level |-> z]>> \o
        FlattenSeq([k \in DOMAIN e |->
          <<[entry |-> e[k], level |-> z]>> \o
            IF e[k].dir THEN Rows[Root(f) + e[k].to, NameBelow(name, e[k]), z + 1]
                        ELSE <<[data |-> Root(f) + e[k].to, type |-> name]>>])
  IN Rows[p, 0, 1]
dump_resource(f) == IF Root(f) = Null THEN << >> ELSE dump_resourceZ(f, Root(f))
\* The data that the resource dump shows as versions.
IsVersion(row) == "data" \in DOMAIN row /\ row.type = RT_VERSION
VersionRows(rows) == LET v == SelectSeq(rows, IsVersion) IN [k \in DOMAIN v |-> v[k].data]

-----------------------------------------------------------------------------
(* The chunks.  One is [key, bytes, length, vlength]: its key, the bytes of *)
(* the key with its end, and the lengths of the chunk and of its value.  A  *)
(* value has chars: the bytes of the text that begins there, with its end.  *)

CHUNK_MINSIZE == 6
FIXEDFILEINFO == 52
STRING_FILE_INFO_SIZE == 36
STRING_TABLE_SIZE == 24
BOUND32(n) == ((n + 3) \div 4) * 4
WORD == 2 ^ 16
ECODE_NULL == -299   \* the size of a text that no pointer leads to

strsize16(bytes, maxsize) == Min({bytes, maxsize})
KeyBytes(f, p)   == strsize16(Field(f, p, "bytes"), 50)
ValueBytes(f, p) == strsize16(Field(f, p, "chars"), 100)

\* A version is read at cursor c over the bytes that begin at base.
Here(base, c) == base + c.cpos

fnext_vchunksize(c, size) == IF c.item THEN fstep(c, BOUND32(size)) ELSE c
fnext_vchunk(f, base, c) ==
  fnext_vchunksize(c, CHUNK_MINSIZE + KeyBytes(f, Here(base, c)))

\* One String: its key, then its value.  xx counts up to the length of the table,
\* in another way than the cursor moves: a value behind the data counts with the
\* code that strsize16 gives for NULL.
NextString(f, base, c) ==
  LET c1 == fnext_vchunk(f, base, c) IN fnext_vchunksize(c1, ValueBytes(f, Here(base, c1)))
Counted(f, base, c) ==
  LET c1 == fnext_vchunk(f, base, c) IN
  BOUND32(CHUNK_MINSIZE + KeyBytes(f, Here(base, c)) + 2 +
            IF c1.item THEN ValueBytes(f, Here(base, c1)) ELSE ECODE_NULL)

\* dump_versionV: one turn of the loop: the cursor, what is shown, how long the
\* table of strings is that is shown next, and the second cursor whose pointer the
\* turn reads through: NULL, if the first chunk ends at or behind the data.
\* Without anything shown the loop ends.
Turn(c, rows, length, through) == [c |-> c, rows |-> rows, length |-> length, null |-> ~through.item]

\* Mutant of FixedInfo: the value is read with a cursor of its own.
FixedInfoStays(f, base, c) ==
  LET c1 == fnext_vchunk(f, base, c) IN
  IF Field(f, Here(base, c), "vlength") = 0 THEN Turn(c, <<Here(base, c)>>, 0, c)
  ELSE Turn(c, <<Here(base, c), Here(base, c1)>>, 0, c1)

\* The version info moves the cursor only if it has a value.
FixedInfo(f, base, c) ==
  LET c1 == fnext_vchunk(f, base, c) IN
  IF Field(f, Here(base, c), "vlength") = 0 THEN Turn(c, <<Here(base, c)>>, 0, c)
  ELSE Turn(fnext_vchunksize(c1, FIXEDFILEINFO), <<Here(base, c), Here(base, c1)>>, 0, c1)
\* One table of strings.
StringTable(f, base, c) ==
  LET c1 == fnext_vchunksize(c, STRING_FILE_INFO_SIZE)
  IN Turn(fnext_vchunksize(c1, STRING_TABLE_SIZE), <<Here(base, c), Here(base, c1)>>, Field(f, Here(base, c1), "length"), c1)
Var(f, base, c) ==
  LET c1 == fnext_vchunk(f, base, c)
      c2 == fnext_vchunk(f, base, c1)
  IN Turn(fnext_vchunksize(c2, 4), <<Here(base, c), Here(base, c1)>>, 0, c1)
KeyAt(f, base, c) == IF base # Null /\ c.item /\ Has(f, Here(base, c), "key") THEN f.body[Here(base, c)].key ELSE ""
dump_versionV(f, base, c) ==
  CASE KeyAt(f, base, c) = "VS_VERSION_INFO" -> FixedInfo(f, base, c)
    [] KeyAt(f, base, c) = "StringFileInfo"  -> StringTable(f, base, c)
    [] KeyAt(f, base, c) = "VarFileInfo"     -> Var(f, base, c)
    [] OTHER -> Turn(c, << >>, 0, c)
=============================================================================
