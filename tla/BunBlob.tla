------------------------------ MODULE BunBlob ------------------------------
(***************************************************************************)
(* The data blob of a Bun standalone executable (bunfmt.py): its layout    *)
(*                                                                         *)
(*   [strings][module table][extra records][execArgv][OFFSETS][TRAILER]    *)
(*                                                                         *)
(* the parser that follows the pointers of such an image, and the writer   *)
(* that lays a changed graph out again.  Offsets and lengths are those of  *)
(* the bytes; a text is a value with a length, and never its characters.   *)
(* A graph is what parse_blob returns: [entry, flags, argv, modules,       *)
(* structSize, records], with the image it came from kept beside it.       *)
(***************************************************************************)
EXTENDS Integers, Sequences, FiniteSets, SequencesExt, Selections

NoText == [is |-> "nothing", of |-> <<>>, size |-> 0]
(* What a pointer that does not delimit a string yields.                   *)
Torn == [is |-> "torn", of |-> <<>>, size |-> 0]

SizeofOffsets == 32
SizeofTrailer == 16
ModuleSize == [old |-> 36, new |-> 52]
Strings(size) == IF size = ModuleSize.new THEN 6 ELSE 4

(* The strings of a module, in the order of its pointers.                  *)
StringsOf(m, size) ==
  <<m.name, m.contents, m.sourcemap, m.bytecode>>
    \o (IF size = ModuleSize.new THEN <<m.info, m.origin>> ELSE <<>>)

Module(strings, tail) ==
  [name |-> strings[1], contents |-> strings[2], sourcemap |-> strings[3],
   bytecode |-> strings[4],
   info   |-> IF Len(strings) = 6 THEN strings[5] ELSE NoText,
   origin |-> IF Len(strings) = 6 THEN strings[6] ELSE NoText,
   tail |-> tail]

(* A length both sizes divide is the newer table's.                        *)
DetectStructSize(len) ==
  IF len % ModuleSize.old = 0 /\ len % ModuleSize.new # 0
    THEN ModuleSize.old ELSE ModuleSize.new

(* Bits 0 to 3 are the flags of a plain graph; the higher bits announce    *)
(* records between the module table and execArgv.                          *)
Extended(flags) == \E b \in flags : b > 3

StringAt(image, ptr) ==
  IF ptr.len = 0 THEN NoText
  ELSE IF ptr.off \in DOMAIN image.strings /\ image.strings[ptr.off].size = ptr.len
         THEN image.strings[ptr.off] ELSE Torn

ParseBlob(image) ==
  LET o == image.offsets
      size == DetectStructSize(o.modules.len)
      rows == IF o.modules.off = image.table.off /\ size = image.table.rowSize
                THEN image.table.rows ELSE <<>>
  IN [entry |-> o.entry, flags |-> o.flags,
      argv |-> IF o.argv.off = image.argv.off THEN image.argv.text ELSE Torn,
      structSize |-> size,
      modules |-> [i \in DOMAIN rows |->
                     Module([k \in 1..Strings(size) |-> StringAt(image, rows[i].ptrs[k])],
                            rows[i].tail)],
      records |-> IF Extended(o.flags) /\ o.modules.off + o.modules.len = image.records.off
                    THEN image.records.words ELSE <<>>]

-----------------------------------------------------------------------------
(* The words of the records that each flag announces, in the order of the  *)
(* bits; two of the tables carry their own length.  The runtime policy     *)
(* comes last and is the only record that outlives a rebuild.              *)
Bit6(g, pos) == IF 6 \in g.flags THEN 1 + 3 * g.records[pos + 1].n ELSE 0
Bit11(g, pos) == IF 11 \in g.flags THEN 3 + g.records[pos + 3].n ELSE 0

RuntimeAt(g) ==
  LET p5 == IF 5 \in g.flags THEN Len(g.modules) ELSE 0
      p6 == p5 + Bit6(g, p5)
      p9 == p6 + (IF 7 \in g.flags THEN 2 ELSE 0) + (IF 8 \in g.flags THEN 1 ELSE 0)
               + (IF 9 \in g.flags THEN 2 ELSE 0)
  IN p9 + Bit11(g, p9)

-----------------------------------------------------------------------------
(* What a blob is like that Bun wrote, of which the parser checks nothing. *)
(* A text without a length is no text, bytecode is where a module keeps    *)
(* it, and a cache is that of the source beside it.                        *)
IsText(t) == t.size \in Nat /\ (t.size = 0 => t = NoText)

SoundModule(m) ==
  /\ IsText(m.bytecode)
  /\ \A t \in {m.name, m.contents, m.sourcemap, m.info, m.origin} :
       IsText(t) /\ t.is # "bytecode"
  /\ IsSequence(m.contents.of)
  /\ \A c \in {m.bytecode, m.info} : c = NoText \/ c.of = m.contents.of

(* The tables that the flags announce fill the records, the policy last.   *)
Policy(g) == {i \in DOMAIN g.records : g.records[i].kind = "policy"}
SoundRecords(g) ==
  LET last == RuntimeAt(g)
  IN /\ IsSequence(g.records) /\ last \in Nat
     /\ Len(g.records) = IF 12 \in g.flags THEN last + 2 ELSE last
     /\ Policy(g) = IF 12 \in g.flags THEN {last + 1, last + 2} ELSE {}

(* The table's length tells which table it is, and a name whose module.    *)
SoundGraph(g) ==
  /\ DetectStructSize(Len(g.modules) * g.structSize) = g.structSize
  /\ \A i \in DOMAIN g.modules : SoundModule(g.modules[i])
  /\ \A i, j \in DOMAIN g.modules : g.modules[i].name = g.modules[j].name => i = j
  /\ SoundRecords(g) /\ g.argv.size \in Nat

(* Strings lie apart and in front of the table, and bytecode is aligned    *)
(* behind the length that precedes the blob.                               *)
SoundImage(image) ==
  /\ image.size \in Nat /\ image.table.off \in Nat
  /\ \A o \in DOMAIN image.strings :
       /\ o \in Nat /\ image.strings[o].size \in Nat
       /\ o + image.strings[o].size < image.table.off
       /\ image.strings[o].is = "bytecode" => (8 + o) % 128 = 0
       /\ \A q \in DOMAIN image.strings : o < q => o + image.strings[o].size < q
  /\ Len(image.table.rows) \in Nat /\ DOMAIN image.table.rows = 1..Len(image.table.rows)
  /\ SoundGraph(ParseBlob(image))

-----------------------------------------------------------------------------
UnsupportedFlags(g) == \E b \in g.flags : b > 12

SourceOnly(g) ==
  [g EXCEPT !.flags = @ \cap ((0..3) \cup {10, 12}),
            !.modules = [i \in DOMAIN @ |-> [@[i] EXCEPT !.bytecode = NoText,
                                                          !.origin = NoText,
                                                          !.info = NoText]],
            !.records = IF 12 \in g.flags
                          THEN SubSeq(@, RuntimeAt(g) + 1, RuntimeAt(g) + 2) ELSE <<>>]

(* Where the k-th string of the table may start: bytecode so that it is    *)
(* 128-aligned behind the 8-byte length that precedes the blob, contents   *)
(* and module info at multiples of four.                                   *)
PlaceString(k, s, per, cur) ==
  CASE (k - 1) % per = 3 /\ s.size > 0   -> cur + ((120 - cur) % 128)
    [] (k - 1) % per \in {1, 4}          -> cur + ((-cur) % 4)
    [] OTHER                             -> cur

(* The strings of all modules, in their order.                             *)
AllStrings(g) ==
  LET per == Strings(g.structSize)
  IN [k \in 1..per * Len(g.modules) |->
        StringsOf(g.modules[((k - 1) \div per) + 1], g.structSize)[((k - 1) % per) + 1]]

(* Where the bytes of the first k strings and their NULs end.              *)
Ends(strings, per, first) ==
  LET after[k \in 0..Len(strings)] ==
        IF k = 0 THEN first
        ELSE PlaceString(k, strings[k], per, after[k - 1]) + strings[k].size + 1
  IN after

Pointers(strings, per, first) ==
  LET after == Ends(strings, per, first)
  IN [k \in DOMAIN strings |->
        [off |-> PlaceString(k, strings[k], per, after[k - 1]), len |-> strings[k].size]]

(* The bytes at the pointers; an empty string has none.                    *)
Placed(strings, ptr) ==
  LET full == {k \in DOMAIN strings : strings[k].size > 0}
  IN [o \in {ptr[k].off : k \in full} |-> strings[CHOOSE k \in full : ptr[k].off = o]]

(* The blob of a graph, its first string at "first": the table, the        *)
(* records, execArgv and the offsets follow the strings.                   *)
Layout(g, first) ==
  LET per == Strings(g.structSize)
      strings == AllStrings(g)
      ptr == Pointers(strings, per, first)
      table == Ends(strings, per, first)[Len(strings)]
      records == table + Len(g.modules) * g.structSize
      argv == records + 4 * Len(g.records)
      offsets == argv + g.argv.size + 1
  IN [strings |-> Placed(strings, ptr),
      table |-> [off |-> table, rowSize |-> g.structSize,
                 rows |-> [i \in DOMAIN g.modules |->
                             [ptrs |-> SubSeq(ptr, per * (i - 1) + 1, per * i),
                              tail |-> g.modules[i].tail]]],
      records |-> [off |-> records, words |-> g.records],
      argv |-> [off |-> argv, text |-> g.argv],
      offsets |-> [modules |-> [off |-> table, len |-> Len(g.modules) * g.structSize],
                   entry |-> g.entry, argv |-> [off |-> argv, len |-> g.argv.size],
                   flags |-> g.flags],
      size |-> offsets + SizeofOffsets + SizeofTrailer]

Rewritten(g) == IF Extended(g.flags) /\ g.records # <<>> THEN SourceOnly(g) ELSE g

(* A graph that still equals the one its image holds keeps that image.     *)
Unchanged(g, original) == g = ParseBlob(original)
Refused(g, original) ==
  ~Unchanged(g, original) /\ Extended(g.flags) /\ g.records # <<>> /\ UnsupportedFlags(g)
RebuildBlob(g, original) ==
  IF Unchanged(g, original) THEN original ELSE Layout(Rewritten(g), 0)
=============================================================================
