-------------------------- MODULE TranscriptProofs --------------------------
(***************************************************************************)
(* That migrating transcripts loses no row and no match, whatever sessions *)
(* append and wherever the machine stops, for any transcripts, rows, and   *)
(* number of runs, appends and crashes.                                    *)
(***************************************************************************)
EXTENDS TranscriptMigration, SequenceTheorems, FiniteSetTheorems, TLAPS

Before == {"open", "read", "backup", "write backup", "sync backup", "stage", "check", "compare",
           "sync names", "replace"}
Steps == Before \cup {"sync replaced", "ended"}
\* Steps at which the snapshot is kept, and that the backup's contents, its sync, the
\* staged copy and the second comparison have come before.
Copying == {"backup", "write backup", "sync backup", "stage", "check", "compare", "sync names",
            "replace"}
Filled == Copying \ {"backup", "write backup"}
Flushed == Filled \ {"sync backup"}
Ready == Flushed \ {"stage"}
Compared == {"sync names", "replace"}

Entry == [row : Record, to : Inodes, late : BOOLEAN]

TypeInv ==
  /\ pc \in Steps
  /\ run \in 0 .. MaxRuns
  /\ pc # "ended" => job \in DOMAIN Files /\ run # 0
  /\ rows \in [Inodes -> Seq(Record)]
  /\ DOMAIN path = Transcripts /\ DOMAIN stable = Transcripts /\ DOMAIN fd = Transcripts
  /\ written \in [Transcripts -> Seq(Entry)]
  /\ pc \in Copying => source.rows \in Seq(Record)

\* The present run is past the replacement of f.
Done(f) ==
  \/ pc = "ended"
  \/ \E j \in DOMAIN Files : Files[j] = f /\ (j < job \/ (j = job /\ pc = "sync replaced"))

BackupOf(f, p) == <<f, "backup", p[3]>>
StagedOf(f, r) == <<f, "staged", r>>

\* Inodes that may have the name of the transcript f: its own, and those of runs
\* that have replaced it.
Named(f, p) ==
  \/ p = LogInode(f)
  \/ p = StagedOf(f, p[3]) /\ p[3] \in 1 .. run /\ (p[3] = run => Done(f))

\* One sequence begins with the other.
Begins(s, t) == Len(s) <= Len(t) /\ \A k \in 1 .. Len(s) : t[k] = s[k]

Since(f, p) == {i \in DOMAIN written[f] : written[f][i].to = p}

\* An inode made by a run has that run's backup beside it: the rows it was made from,
\* with which another inode begins, and what sessions have written to it since.
Backed(f, p) ==
  LET b == BackupOf(f, p)
  IN p # LogInode(f) =>
       /\ b \in backups /\ b \in synced /\ b \in stable[f].names
       /\ Len(rows[p]) = Len(rows[b]) + Cardinality(Since(f, p))
       /\ \A k \in 1 .. Len(rows[b]) : rows[p][k] = AmendRow(rows[b][k])
       /\ \E q : q # p /\ Named(f, q) /\ q \in synced /\ Begins(rows[b], rows[q])

RankIn(kept, i) == Cardinality({j \in kept : j <= i})

\* The rows are those written to f, in order, but for some written too late.
Faithful(f, content) ==
  \E kept \in SUBSET (DOMAIN written[f]) :
    /\ \A i \in DOMAIN written[f] : ~written[f][i].late => i \in kept
    /\ Len(content) = Cardinality(kept)
    /\ \A i \in kept : AmendRow(content[RankIn(kept, i)]) = AmendRow(written[f][i].row)

Good(f, p) == Named(f, p) /\ p \in synced /\ Backed(f, p) /\ Faithful(f, rows[p])

\* The name of a transcript, now and on the disk, leads to such an inode; so do
\* what sessions have open and what they have written to.
FileInv(f) ==
  /\ \A p \in {path[f], stable[f].path} : Good(f, p)
  /\ fd[f] # None => Named(f, fd[f])
  /\ \A i \in DOMAIN written[f] : Named(f, written[f][i].to)

\* What the command has established of the file it is at.
JobInv ==
  /\ pc \in {"read", "compare"} => seen[1] = path[File]
  /\ pc \in Copying => source.inode = path[File]
  /\ pc \in Copying \ {"backup"} => Backup(File) \in backups
  /\ pc \in Filled => rows[Backup(File)] = source.rows
  /\ pc \in Flushed => Backup(File) \in synced
  /\ pc \in Ready => rows[Staged(File)] = Amend(source.rows) /\ Staged(File) \in synced
  /\ pc \in Compared => /\ Begins(source.rows, rows[path[File]])
                        /\ Faithful(File, Amend(source.rows))
  /\ pc = "replace" => Backup(File) \in stable[File].names

Inv == TypeInv /\ (\A f \in Transcripts : FileInv(f)) /\ JobInv

-----------------------------------------------------------------------------
(* Rows. *)

LEMMA AmendRowIs ==
  ASSUME NEW row \in Record
  PROVE  /\ AmendRow(row) \in Record
         /\ DOMAIN AmendRow(row).fields = DOMAIN row.fields
         /\ \A i \in DOMAIN row.fields : AmendRow(row).fields[i] = AmendField(row.fields[i])
<1> DEFINE Field == [place : STRING, id : Ids]
<1>1. row.fields \in Seq(Field) /\ DOMAIN row.fields = 1 .. Len(row.fields)
      /\ Len(row.fields) \in Nat
  BY DEF Record
<1>2. ASSUME NEW field \in Field PROVE AmendField(field) \in Field
  <2>1. EncodeLegacyId(field.id) \in Ids
    BY <1>2 DEF EncodeLegacyId, Enclose, Ids
  <2>2. QED
    BY <1>2, <2>1 DEF AmendField
<1>3. AmendRow(row) = [row EXCEPT !.fields = [i \in DOMAIN row.fields |-> AmendField(row.fields[i])]]
  BY DEF AmendRow
<1> DEFINE fields == [i \in DOMAIN row.fields |-> AmendField(row.fields[i])]
<1>4. fields \in Seq(Field) /\ DOMAIN fields = DOMAIN row.fields
      /\ \A i \in DOMAIN row.fields : fields[i] = AmendField(row.fields[i])
  <2>1. \A i \in 1 .. Len(row.fields) : row.fields[i] \in Field
    <3> HIDE DEF Field
    <3>1. QED
      BY <1>1, ElementOfSeq
  <2>2. fields \in [1 .. Len(row.fields) -> Field]
    BY <1>1, <1>2, <2>1
  <2>3. QED
    BY <1>1, <2>2
<1>5. AmendRow(row) = [row EXCEPT !.fields = fields]
  BY <1>3
<1> HIDE DEF fields
<1>6. QED
  BY <1>4, <1>5 DEF Record

LEMMA EncodeTwice == ASSUME NEW id PROVE EncodeLegacyId(EncodeLegacyId(id)) = EncodeLegacyId(id)
BY DEF EncodeLegacyId, Enclose

LEMMA AmendTwice == ASSUME NEW row \in Record PROVE AmendRow(AmendRow(row)) = AmendRow(row)
<1> DEFINE Field == [place : STRING, id : Ids]
           once == AmendRow(row)
           twice == AmendRow(once)
<1>1. once \in Record /\ twice \in Record
  BY AmendRowIs
<1>2. DOMAIN twice.fields = DOMAIN once.fields
  BY <1>1, AmendRowIs
<1>3. ASSUME NEW i \in DOMAIN once.fields PROVE twice.fields[i] = once.fields[i]
  <2>1. DOMAIN once.fields = DOMAIN row.fields /\ once.fields[i] = AmendField(row.fields[i])
        /\ twice.fields[i] = AmendField(once.fields[i])
    BY <1>1, <1>3, AmendRowIs
  <2>2. row.fields[i] \in Field
    <3>1. row.fields \in Seq(Field)
      BY DEF Record
    <3> HIDE DEF Field
    <3>2. i \in 1 .. Len(row.fields)
      BY <1>3, <2>1, <3>1
    <3>3. QED
      BY <3>1, <3>2, ElementOfSeq
  <2> DEFINE field == row.fields[i]
  <2>3. AmendField(AmendField(field)) = AmendField(field)
    <3>1. CASE field.place \notin Covered
      BY <3>1 DEF AmendField
    <3>2. CASE field.place \in Covered
      <4>1. AmendField(field) = [field EXCEPT !.id = EncodeLegacyId(field.id)]
        BY <3>2 DEF AmendField
      <4>2. AmendField(field).place = field.place /\ AmendField(field).id = EncodeLegacyId(field.id)
        BY <2>2, <4>1
      <4>3. AmendField(AmendField(field)) = [AmendField(field) EXCEPT !.id = EncodeLegacyId(field.id)]
        BY <3>2, <4>2, EncodeTwice DEF AmendField
      <4>4. QED
        BY <2>2, <4>1, <4>3
    <3>3. QED
      BY <3>1, <3>2
  <2>4. QED
    BY <2>1, <2>3
<1>4. once.fields \in Seq(Field) /\ twice.fields \in Seq(Field)
  BY <1>1 DEF Record
<1>5. twice.fields = once.fields
  <2>1. Len(once.fields) \in Nat /\ DOMAIN once.fields = 1 .. Len(once.fields)
        /\ Len(twice.fields) \in Nat /\ DOMAIN twice.fields = 1 .. Len(twice.fields)
    BY <1>4
  <2>2. Len(once.fields) = Len(twice.fields)
    BY <1>2, <2>1
  <2>3. QED
    BY <1>3, <1>4, <2>1, <2>2, SeqEqual
<1>6. twice.parses = once.parses
  BY <1>1 DEF AmendRow, Record
<1>7. QED
  BY <1>1, <1>5, <1>6 DEF Record

LEMMA AmendIs ==
  ASSUME NEW content \in Seq(Record)
  PROVE  /\ Amend(content) \in Seq(Record)
         /\ Len(Amend(content)) = Len(content) /\ Len(content) \in Nat
         /\ DOMAIN content = 1 .. Len(content)
         /\ \A k \in 1 .. Len(content) : /\ Amend(content)[k] = AmendRow(content[k])
                                         /\ AmendRow(Amend(content)[k]) = AmendRow(content[k])
<1>1. Len(content) \in Nat /\ DOMAIN content = 1 .. Len(content)
      /\ \A k \in 1 .. Len(content) : content[k] \in Record
  OBVIOUS
<1>2. Amend(content) = [k \in 1 .. Len(content) |-> AmendRow(content[k])]
  BY <1>1 DEF Amend
<1>3. \A k \in 1 .. Len(content) : /\ AmendRow(content[k]) \in Record
                                   /\ AmendRow(AmendRow(content[k])) = AmendRow(content[k])
  BY <1>1, AmendRowIs, AmendTwice
<1>4. Amend(content) \in [1 .. Len(content) -> Record]
  BY <1>2, <1>3
<1>5. QED
  BY <1>1, <1>2, <1>3, <1>4

LEMMA PrefixIs ==
  ASSUME NEW s \in Seq(Record), NEW t \in Seq(Record)
  PROVE  IsPrefix(s, t) <=> Begins(s, t)
<1>1. /\ Len(s) \in Nat /\ Len(t) \in Nat
      /\ DOMAIN s = 1 .. Len(s) /\ DOMAIN t = 1 .. Len(t)
  OBVIOUS
<1>2. CASE Len(s) <= Len(t)
  <2>1. /\ SubSeq(s, 1, Len(s)) = s
        /\ SubSeq(t, 1, Len(s)) = [k \in 1 .. Len(s) |-> t[k]]
    BY <1>1, <1>2
  <2>2. s = [k \in 1 .. Len(s) |-> s[k]]
    BY <1>1
  <2>3. SubSeq(s, 1, Len(s)) = SubSeq(t, 1, Len(s)) <=> \A k \in 1 .. Len(s) : t[k] = s[k]
    BY <2>1, <2>2
  <2>4. QED
    BY <1>2, <2>3 DEF IsPrefix, Begins
<1>3. QED
  BY <1>2 DEF IsPrefix, Begins

-----------------------------------------------------------------------------
(* Inodes. *)

LEMMA FilesAre ==
  /\ Len(Files) \in Nat \ {0} /\ DOMAIN Files = 1 .. Len(Files)
  /\ \A i \in DOMAIN Files : i \in Nat /\ Files[i] \in Transcripts
<1>1. Len(Files) \in Nat \ {0} /\ DOMAIN Files = 1 .. Len(Files)
  BY FilesAssumption
<1>2. \A i \in 1 .. Len(Files) : i \in Nat
  BY <1>1
<1>3. QED
  BY <1>1, <1>2 DEF Transcripts

LEMMA InodesAre ==
  ASSUME run \in 0 .. MaxRuns, NEW f \in Transcripts
  PROVE  /\ LogInode(f) \in Inodes /\ Backup(f) \in Inodes /\ Staged(f) \in Inodes
         /\ \A p : Named(f, p) => p \in Inodes /\ BackupOf(f, p) \in Inodes
BY FilesAssumption DEF LogInode, Backup, Staged, BackupOf, StagedOf, Named, Inodes

\* What the present run makes for its file has not been named yet.
LEMMA NotYetNamed ==
  ASSUME TypeInv, pc \in Before
  PROVE  /\ File \in Transcripts /\ ~ Done(File)
         /\ \A f : ~ Named(f, Staged(File)) /\ ~ Named(f, Backup(File))
         /\ \A f, p : Named(f, p) => BackupOf(f, p) # Backup(File)
<1>1. pc # "ended" /\ pc # "sync replaced" /\ job \in DOMAIN Files
  BY DEF TypeInv, Before
<1>a. job \in Nat
  BY <1>1, FilesAre
<1>2. File \in Transcripts
  BY <1>1, FilesAre DEF File
<1>3. ~ Done(File)
  <2>1. \A j \in DOMAIN Files : Files[j] = File => j = job
    BY <1>1, FilesAssumption DEF File
  <2>2. \A j \in DOMAIN Files : Files[j] = File => ~ (j < job)
    BY <1>a, <2>1
  <2>3. QED
    BY <1>1, <2>2 DEF Done
<1>4. \A f : ~ Named(f, Staged(File)) /\ ~ Named(f, Backup(File))
  BY <1>3 DEF Named, Staged, Backup, LogInode, StagedOf
<1>5. \A f, p : Named(f, p) => BackupOf(f, p) # Backup(File)
  <2>1. run # 0
    BY <1>1 DEF TypeInv
  <2>2. QED
    BY <1>3, <2>1 DEF Named, Backup, BackupOf, LogInode, StagedOf
<1>6. QED
  BY <1>2, <1>3, <1>4, <1>5

LEMMA NamedApart ==
  ASSUME NEW f, NEW g, NEW p, Named(f, p)
  PROVE  /\ \A q : p # BackupOf(g, q)
         /\ Named(g, p) => f = g
BY DEF Named, BackupOf, StagedOf, LogInode

LEMMA LessThanNext == ASSUME NEW i \in Nat, NEW j \in Nat, i < j \/ i = j PROVE i < j + 1
OBVIOUS

\* Steps within a run, and its end, leave what is done done.
LEMMA StillDone ==
  ASSUME TypeInv, run' = run, NEW f,
         \/ pc' = "ended"
         \/ pc # "ended" /\ pc' # "ended" /\ job' = job /\ (pc = "sync replaced" => pc' = pc)
         \/ pc # "ended" /\ pc' = "open" /\ job' = job + 1
         \/ UNCHANGED <<pc, job>>
  PROVE  Done(f) => Done(f)'
<1> SUFFICES ASSUME Done(f), pc' # "ended" PROVE Done(f)'
  BY DEF Done
<1>1. CASE UNCHANGED <<pc, job>>
  BY <1>1 DEF Done
<1>2. CASE pc # "ended" /\ pc' # "ended" /\ job' = job /\ (pc = "sync replaced" => pc' = pc)
  BY <1>2 DEF Done
<1>3. CASE pc # "ended" /\ pc' = "open" /\ job' = job + 1
  <2>1. job \in DOMAIN Files
    BY <1>3 DEF TypeInv
  <2>2. PICK j \in DOMAIN Files : Files[j] = f /\ (j < job \/ j = job)
    BY <1>3 DEF Done
  <2>3. j \in Nat /\ job \in Nat
    BY <2>1, FilesAre
  <2>4. j < job + 1
    BY <2>2, <2>3, LessThanNext
  <2>6. j < job'
    BY <1>3, <2>4
  <2>5. QED
    BY <2>2, <2>6 DEF Done
<1>4. QED
  BY <1>1, <1>2, <1>3

LEMMA StillNamed ==
  ASSUME NEW f, NEW p, Named(f, p), run' = run, Done(f) => Done(f)'
  PROVE  Named(f, p)'
BY DEF Named, LogInode, StagedOf

-----------------------------------------------------------------------------
(* What was written and what is there. *)

LEMMA RankMore ==
  ASSUME NEW n \in Nat, NEW kept \in SUBSET (1 .. n)
  PROVE  /\ Cardinality(kept) \in Nat
         /\ Cardinality(kept \cup {n + 1}) = Cardinality(kept) + 1
         /\ RankIn(kept \cup {n + 1}, n + 1) = Cardinality(kept) + 1
         /\ \A i \in kept : /\ RankIn(kept \cup {n + 1}, i) = RankIn(kept, i)
                            /\ RankIn(kept, i) \in 1 .. Cardinality(kept)
<1>1. IsFiniteSet(kept)
  <2>1. IsFiniteSet(1 .. n)
    BY FS_Interval
  <2>2. QED
    BY <2>1, FS_Subset
<1>2. Cardinality(kept) \in Nat /\ n + 1 \notin kept
  BY <1>1, FS_CardinalityType
<1>3. Cardinality(kept \cup {n + 1}) = Cardinality(kept) + 1
  BY <1>1, <1>2, FS_AddElement
<1>4. {j \in kept \cup {n + 1} : j <= n + 1} = kept \cup {n + 1}
  <2>1. \A j \in kept \cup {n + 1} : j <= n + 1
    OBVIOUS
  <2>2. QED
    BY <2>1
<1>5. ASSUME NEW i \in kept
      PROVE  /\ RankIn(kept \cup {n + 1}, i) = RankIn(kept, i)
             /\ RankIn(kept, i) \in 1 .. Cardinality(kept)
  <2>1. {j \in kept \cup {n + 1} : j <= i} = {j \in kept : j <= i}
    BY <1>5
  <2>2. {j \in kept : j <= i} \subseteq kept /\ i \in {j \in kept : j <= i}
    BY <1>5
  <2> DEFINE upto == {j \in kept : j <= i}
  <2> HIDE DEF upto
  <2>3. IsFiniteSet(upto) /\ Cardinality(upto) <= Cardinality(kept)
    BY <1>1, <2>2, FS_Subset DEF upto
  <2>4. Cardinality(upto) \in Nat /\ Cardinality(upto) # 0
    BY <2>2, <2>3, FS_CardinalityType, FS_EmptySet DEF upto
  <2>5. QED
    BY <1>2, <2>1, <2>3, <2>4 DEF RankIn, upto
<1>6. QED
  BY <1>2, <1>3, <1>4, <1>5 DEF RankIn

LEMMA RankAll ==
  ASSUME NEW n \in Nat
  PROVE  /\ Cardinality(1 .. n) = n
         /\ \A i \in 1 .. n : RankIn(1 .. n, i) = i
<1>1. Cardinality(1 .. n) = n
  BY FS_Interval
<1>2. ASSUME NEW i \in 1 .. n PROVE RankIn(1 .. n, i) = i
  <2>1. {j \in 1 .. n : j <= i} = 1 .. i
    BY <1>2
  <2>2. Cardinality(1 .. i) = i
    BY <1>2, FS_Interval
  <2>3. QED
    BY <2>1, <2>2 DEF RankIn
<1>3. QED
  BY <1>1, <1>2

\* The entries of written are numbered.
LEMMA WrittenIs ==
  ASSUME TypeInv, NEW f \in Transcripts
  PROVE  /\ Len(written[f]) \in Nat /\ DOMAIN written[f] = 1 .. Len(written[f])
         /\ \A i \in DOMAIN written[f] : written[f][i] \in Entry
<1>1. written[f] \in Seq(Entry)
  BY DEF TypeInv
<1> DEFINE s == written[f]
<1> HIDE DEF s
<1>2. s \in Seq(Entry)
  BY <1>1 DEF s
<1>3. Len(s) \in Nat /\ DOMAIN s = 1 .. Len(s) /\ \A i \in 1 .. Len(s) : s[i] \in Entry
  BY <1>2, ElementOfSeq, LenProperties
<1>4. QED
  BY <1>3 DEF s

LEMMA SinceIs ==
  ASSUME TypeInv, NEW f \in Transcripts, NEW p
  PROVE  /\ IsFiniteSet(Since(f, p)) /\ Cardinality(Since(f, p)) \in Nat
         /\ Since(f, p) \subseteq 1 .. Len(written[f])
<1>1. Since(f, p) \subseteq 1 .. Len(written[f]) /\ Len(written[f]) \in Nat
  BY WrittenIs DEF Since
<1>2. IsFiniteSet(1 .. Len(written[f]))
  BY <1>1, FS_Interval
<1>3. QED
  BY <1>1, <1>2, FS_Subset, FS_CardinalityType

\* A session's row becomes the last of the rows written.
Written(f, row, p, late) ==
  written' = [written EXCEPT ![f] = Append(@, [row |-> row, to |-> p, late |-> late])]

LEMMA WrittenMore ==
  ASSUME TypeInv, NEW f \in Transcripts, NEW row \in Record, NEW p \in Inodes,
         NEW late \in BOOLEAN, Written(f, row, p, late)
  PROVE  /\ DOMAIN written'[f] = 1 .. Len(written[f]) + 1
         /\ \A i \in 1 .. Len(written[f]) : written'[f][i] = written[f][i]
         /\ written'[f][Len(written[f]) + 1].row = row
         /\ written'[f][Len(written[f]) + 1].to = p
         /\ written'[f][Len(written[f]) + 1].late = late
         /\ written' \in [Transcripts -> Seq(Entry)]
         /\ \A g \in Transcripts : g # f => written'[g] = written[g]
<1> DEFINE s == written[f]
           e == [row |-> row, to |-> p, late |-> late]
<1>1. s \in Seq(Entry) /\ e \in Entry
  BY DEF TypeInv, Entry
<1>2. e.row = row /\ e.to = p /\ e.late = late
  OBVIOUS
<1>3. written' = [written EXCEPT ![f] = Append(s, e)]
  BY DEF Written
<1> HIDE DEF s, e
<1>4. /\ Append(s, e) \in Seq(Entry) /\ Len(Append(s, e)) = Len(s) + 1 /\ Len(s) \in Nat
      /\ \A i \in 1 .. Len(s) : Append(s, e)[i] = s[i]
      /\ Append(s, e)[Len(s) + 1] = e
  BY <1>1, AppendProperties, LenProperties
<1>5. DOMAIN Append(s, e) = 1 .. Len(s) + 1
  BY <1>4, LenProperties
<1>6. /\ written'[f] = Append(s, e)
      /\ \A g \in Transcripts : g # f => written'[g] = written[g]
      /\ written' \in [Transcripts -> Seq(Entry)]
  BY <1>3, <1>4 DEF TypeInv
<1> DEFINE t == Append(s, e)
<1> HIDE DEF t
<1>7. /\ written'[f] = t /\ Len(t) = Len(s) + 1 /\ DOMAIN t = 1 .. Len(s) + 1
      /\ \A i \in 1 .. Len(s) : t[i] = s[i]
      /\ t[Len(s) + 1] = e
  BY <1>4, <1>5, <1>6 DEF t
<1>8. DOMAIN written'[f] = 1 .. Len(s) + 1 /\ \A i \in 1 .. Len(s) : written'[f][i] = s[i]
  BY <1>7
<1>9. /\ written'[f][Len(s) + 1].row = row
      /\ written'[f][Len(s) + 1].to = p
      /\ written'[f][Len(s) + 1].late = late
  BY <1>2, <1>7
<1>10. Len(s) = Len(written[f]) /\ \A i \in 1 .. Len(s) : s[i] = written[f][i]
  BY DEF s
<1>11. \A i \in 1 .. Len(written[f]) : written'[f][i] = written[f][i]
  BY <1>8, <1>10
<1>12. DOMAIN written'[f] = 1 .. Len(written[f]) + 1
  BY <1>8, <1>10
<1>13. /\ written'[f][Len(written[f]) + 1].row = row
       /\ written'[f][Len(written[f]) + 1].to = p
       /\ written'[f][Len(written[f]) + 1].late = late
  BY <1>9, <1>10
<1>14. QED
  BY <1>6, <1>11, <1>12, <1>13

LEMMA SinceMore ==
  ASSUME TypeInv, NEW f \in Transcripts, NEW row \in Record, NEW p \in Inodes,
         NEW late \in BOOLEAN, Written(f, row, p, late), NEW q
  PROVE  Cardinality(Since(f, q)') = Cardinality(Since(f, q)) + (IF q = p THEN 1 ELSE 0)
<1> DEFINE n == Len(written[f])
<1>1. /\ n \in Nat /\ DOMAIN written[f] = 1 .. n /\ DOMAIN written'[f] = 1 .. n + 1
      /\ \A i \in 1 .. n : written'[f][i] = written[f][i]
      /\ written'[f][n + 1].to = p
  BY WrittenMore, WrittenIs
<1>2. Since(f, q) \subseteq 1 .. n /\ IsFiniteSet(Since(f, q)) /\ Cardinality(Since(f, q)) \in Nat
  BY SinceIs
<1> HIDE DEF n
<1>3. CASE q = p
  <2>1. Since(f, q)' = Since(f, q) \cup {n + 1}
    BY <1>1, <1>3 DEF Since
  <2>2. Cardinality(Since(f, q) \cup {n + 1}) = Cardinality(Since(f, q)) + 1
    BY <1>1, <1>2, RankMore
  <2>3. QED
    BY <1>3, <2>1, <2>2
<1>4. CASE q # p
  <2>1. Since(f, q)' = Since(f, q)
    BY <1>1, <1>4 DEF Since
  <2>2. QED
    BY <1>2, <1>4, <2>1
<1>5. QED
  BY <1>3, <1>4

\* A row too late is not missed, and a row appended is there.
LEMMA FaithfulLate ==
  ASSUME TypeInv, NEW f \in Transcripts, NEW row \in Record, NEW p \in Inodes,
         Written(f, row, p, TRUE), NEW content, Faithful(f, content)
  PROVE  Faithful(f, content)'
<1> DEFINE n == Len(written[f])
           yes == TRUE
<1>1. /\ n \in Nat /\ DOMAIN written[f] = 1 .. n /\ DOMAIN written'[f] = 1 .. n + 1
      /\ \A i \in 1 .. n : written'[f][i] = written[f][i]
      /\ written'[f][n + 1].late = yes
  BY WrittenMore, WrittenIs
<1> HIDE DEF n
<1>2. PICK kept \in SUBSET (1 .. n) :
        /\ \A i \in 1 .. n : ~written[f][i].late => i \in kept
        /\ Len(content) = Cardinality(kept)
        /\ \A i \in kept : AmendRow(content[RankIn(kept, i)]) = AmendRow(written[f][i].row)
  BY <1>1 DEF Faithful
<1>3. kept \in SUBSET (1 .. n + 1)
  BY <1>1
<1>4. \A i \in 1 .. n + 1 : ~written'[f][i].late => i \in kept
  <2>1. \A i \in 1 .. n + 1 : i \in 1 .. n \/ i = n + 1
    BY <1>1
  <2>2. QED
    BY <1>1, <1>2, <2>1
<1>5. \A i \in kept : AmendRow(content[RankIn(kept, i)]) = AmendRow(written'[f][i].row)
  BY <1>1, <1>2
<1>6. QED
  BY <1>1, <1>2, <1>3, <1>4, <1>5 DEF Faithful

LEMMA FaithfulMore ==
  ASSUME TypeInv, NEW f \in Transcripts, NEW row \in Record, NEW p \in Inodes,
         NEW late \in BOOLEAN, Written(f, row, p, late),
         NEW content \in Seq(Record), Faithful(f, content)
  PROVE  Faithful(f, Append(content, row))'
<1> DEFINE n == Len(written[f])
<1>1. /\ n \in Nat /\ DOMAIN written[f] = 1 .. n /\ DOMAIN written'[f] = 1 .. n + 1
      /\ \A i \in 1 .. n : written'[f][i] = written[f][i]
      /\ written'[f][n + 1].row = row
  BY WrittenMore, WrittenIs
<1> HIDE DEF n
<1>2. PICK kept \in SUBSET (1 .. n) :
        /\ \A i \in 1 .. n : ~written[f][i].late => i \in kept
        /\ Len(content) = Cardinality(kept)
        /\ \A i \in kept : AmendRow(content[RankIn(kept, i)]) = AmendRow(written[f][i].row)
  BY <1>1 DEF Faithful
<1> DEFINE more == kept \cup {n + 1}
<1>3. /\ Cardinality(kept) \in Nat /\ Cardinality(more) = Cardinality(kept) + 1
      /\ RankIn(more, n + 1) = Cardinality(kept) + 1
      /\ \A i \in kept : /\ RankIn(more, i) = RankIn(kept, i)
                         /\ RankIn(kept, i) \in 1 .. Cardinality(kept)
  BY <1>1, RankMore
<1>4. /\ Len(Append(content, row)) = Len(content) + 1
      /\ Append(content, row)[Len(content) + 1] = row
      /\ \A k \in 1 .. Len(content) : Append(content, row)[k] = content[k]
  BY AppendProperties
<1>5. more \in SUBSET (1 .. n + 1) /\ \A i \in 1 .. n + 1 : ~written'[f][i].late => i \in more
  BY <1>1, <1>2
<1>6. ASSUME NEW i \in more
      PROVE  AmendRow(Append(content, row)[RankIn(more, i)]) = AmendRow(written'[f][i].row)
  <2>1. CASE i \in kept
    <3>1. Append(content, row)[RankIn(more, i)] = content[RankIn(kept, i)]
      BY <1>2, <1>3, <1>4, <2>1
    <3>2. QED
      BY <1>1, <1>2, <2>1, <3>1
  <2>2. CASE i = n + 1
    BY <1>1, <1>2, <1>3, <1>4, <2>2
  <2>3. QED
    BY <1>6, <2>1, <2>2
<1> HIDE DEF more
<1>7. Len(Append(content, row)) = Cardinality(more)
  BY <1>2, <1>3, <1>4
<1>8. QED
  BY <1>1, <1>5, <1>6, <1>7 DEF Faithful

LEMMA FaithfulAmended ==
  ASSUME TypeInv, NEW f \in Transcripts, NEW content \in Seq(Record), Faithful(f, content)
  PROVE  Faithful(f, Amend(content))
<1> DEFINE n == Len(written[f])
<1>1. n \in Nat /\ DOMAIN written[f] = 1 .. n
  BY WrittenIs
<1>2. PICK kept \in SUBSET (1 .. n) :
        /\ \A i \in 1 .. n : ~written[f][i].late => i \in kept
        /\ Len(content) = Cardinality(kept)
        /\ \A i \in kept : AmendRow(content[RankIn(kept, i)]) = AmendRow(written[f][i].row)
  BY <1>1 DEF Faithful
<1>3. \A i \in kept : RankIn(kept, i) \in 1 .. Len(content)
  BY <1>1, <1>2, RankMore
<1>4. \A i \in kept : AmendRow(Amend(content)[RankIn(kept, i)]) = AmendRow(written[f][i].row)
  BY <1>2, <1>3, AmendIs
<1>5. Len(Amend(content)) = Cardinality(kept)
  BY <1>2, AmendIs
<1>6. QED
  BY <1>1, <1>2, <1>4, <1>5 DEF Faithful


-----------------------------------------------------------------------------
(* The steps. *)

\* Inodes that have been named, and their backups, are as they were.
Untouched(f) ==
  /\ written'[f] = written[f]
  /\ \A p : Named(f, p) /\ p \in synced => p \in synced' /\ rows'[p] = rows[p]
  /\ \A p : LET b == BackupOf(f, p)
            IN Named(f, p) /\ b \in backups /\ b \in synced /\ b \in stable[f].names
                 => /\ b \in backups' /\ b \in synced' /\ b \in stable'[f].names
                    /\ rows'[b] = rows[b]

LEMMA GoodKept ==
  ASSUME NEW f \in Transcripts, NEW p, Good(f, p), Untouched(f),
         \A q : Named(f, q) => Named(f, q)'
  PROVE  Good(f, p)'
<1>1. Named(f, p) /\ p \in synced /\ Named(f, p)' /\ p \in synced' /\ rows'[p] = rows[p]
  BY DEF Good, Untouched
<1>2. Since(f, p)' = Since(f, p)
  BY DEF Since, Untouched
<1>3. Faithful(f, rows[p])'
  BY <1>1 DEF Good, Untouched, Faithful
<1>4. ASSUME p # LogInode(f) PROVE Backed(f, p)'
  <2> DEFINE b == BackupOf(f, p)
  <2>1. /\ b \in backups /\ b \in synced /\ b \in stable[f].names
        /\ Len(rows[p]) = Len(rows[b]) + Cardinality(Since(f, p))
        /\ \A k \in 1 .. Len(rows[b]) : rows[p][k] = AmendRow(rows[b][k])
    BY <1>4 DEF Good, Backed
  <2>2. PICK q : q # p /\ Named(f, q) /\ q \in synced /\ Begins(rows[b], rows[q])
    BY <1>4 DEF Good, Backed
  <2>3. b \in backups' /\ b \in synced' /\ b \in stable'[f].names /\ rows'[b] = rows[b]
    BY <1>1, <2>1 DEF Untouched
  <2>4. Named(f, q)' /\ q \in synced' /\ rows'[q] = rows[q]
    BY <2>2 DEF Untouched
  <2>5. b = BackupOf(f, p)'
    BY DEF BackupOf
  <2> HIDE DEF b
  <2>6. Begins(rows[b], rows[q])'
    BY <2>2, <2>3, <2>4 DEF Begins
  <2>7. /\ Len(rows'[p]) = Len(rows'[b]) + Cardinality(Since(f, p)')
        /\ \A k \in 1 .. Len(rows'[b]) : rows'[p][k] = AmendRow(rows'[b][k])
    BY <1>1, <1>2, <2>1, <2>3
  <2>8. QED
    BY <2>2, <2>3, <2>4, <2>5, <2>6, <2>7 DEF Backed
<1>5. Backed(f, p)'
  <2>1. CASE p = LogInode(f)
    BY <2>1 DEF Backed, LogInode
  <2>2. QED
    BY <1>4, <2>1
<1>6. QED
  BY <1>1, <1>3, <1>5 DEF Good

LEMMA FileUntouched ==
  ASSUME NEW f \in Transcripts, FileInv(f), Untouched(f), \A q : Named(f, q) => Named(f, q)',
         path'[f] \in {path[f], stable[f].path}, stable'[f].path \in {path[f], stable[f].path},
         fd'[f] \in {None, fd[f], path[f]}
  PROVE  FileInv(f)'
<1>1. \A p : Good(f, p) => Good(f, p)'
  BY GoodKept
<1>2. ASSUME NEW p, p \in {path[f], stable[f].path}' PROVE Good(f, p)'
  BY <1>1, <1>2 DEF FileInv
<1>3. ASSUME NEW p, p = fd'[f], p # None PROVE Named(f, p)'
  BY <1>3 DEF FileInv, Good
<1>4. written'[f] = written[f] /\ \A i \in DOMAIN written[f] : Named(f, written[f][i].to)
  BY DEF FileInv, Untouched
<1>5. ASSUME NEW i \in DOMAIN written'[f], NEW p, p = written'[f][i].to PROVE Named(f, p)'
  BY <1>4, <1>5
<1>6. QED
  BY <1>2, <1>3, <1>5 DEF FileInv, Named

\* What the command's steps do to pc and job.
LEMMA PcSteps ==
  ASSUME TypeInv, Command \/ Crash
  PROVE  /\ run' = run
         /\ \/ pc' = "ended"
            \/ pc # "ended" /\ pc' # "ended" /\ job' = job /\ (pc = "sync replaced" => pc' = pc)
            \/ pc # "ended" /\ pc' = "open" /\ job' = job + 1
<1>1. ASSUME NEW result, Conclude(result), pc # "ended"
      PROVE  run' = run /\ (pc' = "ended" \/ (pc # "ended" /\ pc' = "open" /\ job' = job + 1))
  BY <1>1 DEF Conclude
<1>2. CASE RefuseFile
  BY <1>1, <1>2 DEF RefuseFile
<1>3. CASE OpenTranscript
  BY <1>3 DEF OpenTranscript
<1>4. CASE ReadTranscript
  BY <1>1, <1>4 DEF ReadTranscript
<1>5. CASE CreateBackup \/ WriteBackup \/ SyncBackup \/ Stage
  BY <1>5 DEF CreateBackup, WriteBackup, SyncBackup, Stage
<1>6. CASE OpenAgain \/ CompareSame \/ SyncNames \/ Replace
  BY <1>6 DEF OpenAgain, CompareSame, SyncNames, Replace
<1>7. CASE CompareChanged \/ SyncReplaced \/ IOError
  BY <1>1, <1>7 DEF CompareChanged, SyncReplaced, IOError
<1>8. CASE Crash
  BY <1>8 DEF Crash
<1>9. QED
  BY <1>2, <1>3, <1>4, <1>5, <1>6, <1>7, <1>8 DEF Command

Session == \E f \in Transcripts :
             OpenLog(f) \/ CloseLog(f) \/ \E row \in NewRows[f] : AppendRow(f, row)

\* What has been named stays so.
LEMMA NamedKept ==
  ASSUME TypeInv, [Next]_vars, NEW f, NEW p, Named(f, p)
  PROVE  Named(f, p)'
<1>1. CASE Command \/ Crash
  <2>1. Done(f) => Done(f)'
    BY <1>1, PcSteps, StillDone
  <2>2. QED
    BY <1>1, <2>1, PcSteps, StillNamed
<1>2. CASE \E apply \in BOOLEAN : StartRun(apply)
  <2>1. run' = run + 1 /\ run \in Nat
    BY <1>2 DEF StartRun, TypeInv
  <2>2. CASE p = LogInode(f)
    BY <2>2 DEF Named, LogInode
  <2>3. CASE p = StagedOf(f, p[3]) /\ p[3] \in 1 .. run
    <3>1. p[3] \in 1 .. run' /\ p[3] # run'
      BY <2>1, <2>3
    <3>2. QED
      BY <2>3, <3>1 DEF Named, StagedOf
  <2>4. QED
    BY <2>2, <2>3 DEF Named
<1>3. CASE Session \/ UNCHANGED vars
  <2>1. run' = run /\ UNCHANGED <<pc, job>>
    BY <1>3 DEF Session, OpenLog, CloseLog, AppendRow, vars, jobVars
  <2>2. Done(f) => Done(f)'
    BY <2>1, StillDone
  <2>3. QED
    BY <2>1, <2>2, StillNamed
<1>4. QED
  BY <1>1, <1>2, <1>3 DEF Next, Session

LEMMA FileIs ==
  ASSUME TypeInv, pc # "ended"
  PROVE  /\ File \in Transcripts /\ LogInode(File) \in Inodes /\ Backup(File) \in Inodes
         /\ Staged(File) \in Inodes
<1>1. File \in Transcripts
  BY FilesAre DEF TypeInv, File
<1>2. QED
  BY <1>1, InodesAre DEF TypeInv

LEMMA SessionRow ==
  ASSUME NEW f \in Transcripts, NEW row \in NewRows[f] PROVE row \in Record
BY FilesAssumption

LEMMA ConcludeType ==
  ASSUME TypeInv, NEW result, Conclude(result), pc # "ended",
         UNCHANGED <<rows, written, fd>>, DOMAIN path' = Transcripts, DOMAIN stable' = Transcripts
  PROVE  TypeInv'
<1>1. pc' \in {"ended", "open"} /\ run' = run
  BY DEF Conclude
<1>2. pc' # "ended" => job' \in DOMAIN Files
  <2>1. CASE job = Len(Files)
    BY <2>1 DEF Conclude
  <2>2. CASE job # Len(Files)
    <3>1. job \in 1 .. Len(Files) /\ job' = job + 1 /\ Len(Files) \in Nat
      BY <2>2, FilesAre DEF Conclude, TypeInv
    <3>2. job' \in 1 .. Len(Files)
      BY <2>2, <3>1
    <3>3. QED
      BY <3>2, FilesAre
  <2>3. QED
    BY <2>1, <2>2
<1>3. pc' \in Steps /\ pc' \notin Copying
  BY <1>1 DEF Steps, Before, Copying
<1>4. QED
  BY <1>1, <1>2, <1>3 DEF TypeInv

LEMMA TypeKept == Inv /\ [Next]_vars => TypeInv'
<1> SUFFICES ASSUME Inv, [Next]_vars PROVE TypeInv'
  OBVIOUS
<1> USE FilesAssumption
<1>0. TypeInv /\ JobInv
  BY DEF Inv
<1>1. CASE \E apply \in BOOLEAN : StartRun(apply)
  <2>1. run' \in 0 .. MaxRuns /\ run' # 0
    BY <1>0, <1>1 DEF StartRun, TypeInv
  <2>2. job' \in DOMAIN Files
    BY <1>1, FilesAre DEF StartRun
  <2>3. pc' \in Steps /\ pc' \notin Copying
    BY <1>1 DEF StartRun, Steps, Before, Copying
  <2>4. QED
    BY <1>0, <1>1, <2>1, <2>2, <2>3 DEF StartRun, TypeInv, fileVars
<1>2. CASE RefuseFile
  BY <1>0, <1>2, ConcludeType DEF RefuseFile, fileVars, TypeInv
<1>3. CASE OpenTranscript
  BY <1>0, <1>3 DEF OpenTranscript, fileVars, TypeInv, Steps, Before, Copying
<1>4. CASE ReadTranscript
  <2>1. pc = "read" /\ UNCHANGED <<rows, path, stable, fd, written>>
    BY <1>4 DEF ReadTranscript, fileVars
  <2>2. CASE \E result : Conclude(result)
    BY <1>0, <2>1, <2>2, ConcludeType DEF TypeInv
  <2>3. CASE /\ source' = [inode |-> seen[1], rows |-> rows[seen[1]]]
             /\ pc' = "backup" /\ UNCHANGED <<run, job>>
    <3>1. Good(File, path[File]) /\ seen[1] = path[File]
      BY <1>0, <2>1, FileIs DEF JobInv, Inv, FileInv
    <3>2. rows[seen[1]] \in Seq(Record)
      BY <1>0, <2>1, <3>1, FileIs, InodesAre DEF Good, TypeInv
    <3>3. source'.rows \in Seq(Record)
      BY <2>3, <3>2
    <3>4. pc' \in Steps /\ pc # "ended"
      BY <2>1, <2>3 DEF Steps, Before
    <3>5. QED
      BY <1>0, <2>1, <2>3, <3>3, <3>4 DEF TypeInv
  <2>4. QED
    BY <1>4, <2>2, <2>3 DEF ReadTranscript
<1>5. CASE CreateBackup \/ SyncBackup \/ OpenAgain \/ CompareSame
  <2>1. pc \in Copying /\ pc' \in Copying /\ UNCHANGED <<rows, path, stable, fd, written, run, job, source>>
    BY <1>5 DEF CreateBackup, SyncBackup, OpenAgain, CompareSame, fileVars, Copying
  <2>2. pc # "ended" /\ pc' \in Steps
    BY <2>1 DEF Copying, Steps, Before
  <2>3. QED
    BY <1>0, <2>1, <2>2 DEF TypeInv
<1>6. CASE WriteBackup \/ Stage
  <2>1. pc \in Copying /\ pc' \in Copying /\ UNCHANGED <<path, stable, fd, written, run, job, source>>
    BY <1>6 DEF WriteBackup, Stage, Copying
  <2>2. pc # "ended" /\ pc' \in Steps
    BY <2>1 DEF Copying, Steps, Before
  <2>3. source.rows \in Seq(Record) /\ Amend(source.rows) \in Seq(Record)
    BY <1>0, <2>1, AmendIs DEF TypeInv
  <2>4. rows' \in [Inodes -> Seq(Record)]
    BY <1>0, <1>6, <2>3 DEF WriteBackup, Stage, TypeInv
  <2>5. QED
    BY <1>0, <2>1, <2>2, <2>4 DEF TypeInv
<1>7. CASE CompareChanged \/ IOError
  BY <1>0, <1>7, ConcludeType DEF CompareChanged, IOError, TypeInv
<1>8. CASE SyncNames
  <2>1. DOMAIN stable' = Transcripts
    BY <1>0, <1>8 DEF SyncNames, DirectorySynced, TypeInv
  <2>2. QED
    BY <1>0, <1>8, <2>1 DEF SyncNames, TypeInv, Steps, Before, Copying
<1>9. CASE Replace
  <2>1. DOMAIN path' = Transcripts
    BY <1>0, <1>9 DEF Replace, TypeInv
  <2>2. QED
    BY <1>0, <1>9, <2>1 DEF Replace, TypeInv, Steps, Copying
<1>10. CASE SyncReplaced
  <2>1. DOMAIN stable' = Transcripts
    BY <1>0, <1>10 DEF SyncReplaced, DirectorySynced, TypeInv
  <2>2. QED
    BY <1>0, <1>10, <2>1, ConcludeType DEF SyncReplaced, TypeInv
<1>11. CASE Session
  <2>1. CASE \E f \in Transcripts : OpenLog(f) \/ CloseLog(f)
    <3>1. UNCHANGED <<rows, path, stable, written, run, pc, job, source>>
      BY <2>1 DEF OpenLog, CloseLog, fileVars, jobVars
    <3>2. DOMAIN fd' = Transcripts
      BY <1>0, <2>1 DEF OpenLog, CloseLog, TypeInv
    <3>3. QED
      BY <1>0, <3>1, <3>2 DEF TypeInv
  <2>2. CASE \E f \in Transcripts : \E row \in NewRows[f] : AppendRow(f, row)
    <3>1. PICK f \in Transcripts : \E row \in NewRows[f] : AppendRow(f, row)
      BY <2>2
    <3>2. PICK row \in NewRows[f] : AppendRow(f, row)
      BY <3>1
    <3>3. row \in Record
      BY SessionRow
    <3>4. PICK p : p = fd[f]
      OBVIOUS
    <3>5. p \in Inodes
      BY <1>0, <3>2, <3>4, InodesAre DEF AppendRow, Inv, FileInv, TypeInv
    <3>6. TooLate(f) \in BOOLEAN
      BY DEF TooLate
    <3>7. Written(f, row, p, TooLate(f))
      BY <3>2, <3>4 DEF AppendRow, Written
    <3>8. written' \in [Transcripts -> Seq(Entry)]
      <4>1. PICK late \in BOOLEAN : late = TooLate(f)
        BY <3>6
      <4>2. Written(f, row, p, late)
        BY <3>7, <4>1 DEF Written
      <4>3. QED
        BY <1>0, <3>3, <3>5, <4>2, WrittenMore
    <3>9. rows' \in [Inodes -> Seq(Record)]
      <4>1. rows' = [rows EXCEPT ![p] = Append(rows[p], row)]
        BY <3>2, <3>4 DEF AppendRow
      <4>2. rows[p] \in Seq(Record)
        BY <1>0, <3>5 DEF TypeInv
      <4>3. Append(rows[p], row) \in Seq(Record)
        BY <3>3, <4>2, AppendProperties
      <4>4. QED
        BY <1>0, <4>1, <4>3 DEF TypeInv
    <3>10. UNCHANGED <<path, stable, fd, run, pc, job, source>>
      BY <3>2 DEF AppendRow, jobVars
    <3>11. QED
      BY <1>0, <3>8, <3>9, <3>10 DEF TypeInv
  <2>3. QED
    BY <1>11, <2>1, <2>2 DEF Session
<1>12. CASE Crash
  <2>1. rows' \in [Inodes -> Seq(Record)]
    <3>1. \A i \in Inodes : rows[i] \in Seq(Record)
      BY <1>0 DEF TypeInv
    <3>2. <<>> \in Seq(Record)
      BY EmptySeq
    <3>a. PICK renamed, kept, lost : DiskLeft(renamed, kept, lost)
      BY <1>12 DEF Crash
    <3>3. rows' = [i \in Inodes |-> IF i \in lost THEN <<>> ELSE rows[i]]
      BY <3>a DEF DiskLeft
    <3>4. QED
      BY <3>1, <3>2, <3>3
  <2>2. /\ DOMAIN path' = Transcripts /\ DOMAIN stable' = Transcripts /\ DOMAIN fd' = Transcripts
        /\ pc' = "ended" /\ UNCHANGED <<run, written>>
    BY <1>12 DEF Crash, DiskLeft
  <2>3. QED
    BY <1>0, <2>1, <2>2 DEF TypeInv, Steps, Copying
<1>13. CASE UNCHANGED vars
  BY <1>0, <1>13 DEF vars, fileVars, jobVars, TypeInv
<1>14. QED
  BY <1>1, <1>2, <1>3, <1>4, <1>5, <1>6, <1>7, <1>8, <1>9, <1>10, <1>11, <1>12, <1>13
     DEF Next, Command, Session

LEMMA FaithfulSame ==
  ASSUME NEW f, NEW content, Faithful(f, content), written'[f] = written[f]
  PROVE  Faithful(f, content)'
BY DEF Faithful

LEMMA JobKept ==
  ASSUME Inv, Command \/ (\E apply \in BOOLEAN : StartRun(apply)) \/ Crash
  PROVE  JobInv'
<1>0. TypeInv /\ JobInv
  BY DEF Inv
<1>1. CASE pc' \in {"ended", "open"}
  BY <1>1 DEF JobInv, Copying, Filled, Flushed, Ready, Compared
<1>2. \A result : Conclude(result) => pc' \in {"ended", "open"}
  BY DEF Conclude
<1>3. CASE \/ Crash \/ (\E apply \in BOOLEAN : StartRun(apply))
           \/ RefuseFile \/ CompareChanged \/ SyncReplaced \/ IOError
  BY <1>1, <1>2, <1>3 DEF Crash, StartRun, RefuseFile, CompareChanged, SyncReplaced, IOError
<1>4. CASE OpenTranscript
  <2>1. pc' = "read" /\ seen' = Identity(File) /\ UNCHANGED <<path, job>>
    BY <1>4 DEF OpenTranscript, fileVars
  <2>2. seen'[1] = path'[File']
    BY <2>1 DEF Identity, File
  <2>3. QED
    BY <2>1, <2>2 DEF JobInv, Copying, Filled, Flushed, Ready, Compared
<1>5. CASE ReadTranscript
  <2>1. CASE /\ source' = [inode |-> seen[1], rows |-> rows[seen[1]]]
             /\ pc = "read" /\ pc' = "backup" /\ UNCHANGED <<path, job>>
    <3>1. seen[1] = path[File]
      BY <1>0, <2>1 DEF JobInv
    <3>2. source'.inode = path'[File']
      BY <2>1, <3>1 DEF File
    <3>3. QED
      BY <2>1, <3>2 DEF JobInv, Copying, Filled, Flushed, Ready, Compared
  <2>2. QED
    BY <1>1, <1>2, <1>5, <2>1 DEF ReadTranscript, fileVars
<1>6. CASE CreateBackup
  <2>1. /\ pc = "backup" /\ pc' = "write backup" /\ UNCHANGED <<path, job, source, run>>
        /\ Backup(File) \in backups'
    BY <1>6 DEF CreateBackup
  <2>2. source'.inode = path'[File'] /\ Backup(File)' \in backups'
    BY <1>0, <2>1 DEF JobInv, Copying, File, Backup
  <2>3. QED
    BY <2>1, <2>2 DEF JobInv, Copying, Filled, Flushed, Ready, Compared
<1>7. CASE WriteBackup
  <2>1. /\ pc = "write backup" /\ pc' = "sync backup" /\ UNCHANGED <<path, backups, job, source, run>>
        /\ rows' = [rows EXCEPT ![Backup(File)] = source.rows]
    BY <1>7 DEF WriteBackup
  <2>2. rows'[Backup(File)] = source.rows
    BY <1>0, <2>1, FileIs DEF TypeInv
  <2>3. /\ source'.inode = path'[File'] /\ Backup(File)' \in backups'
        /\ rows'[Backup(File)'] = source'.rows
    BY <1>0, <2>1, <2>2 DEF JobInv, Copying, File, Backup
  <2>4. QED
    BY <2>1, <2>3 DEF JobInv, Copying, Filled, Flushed, Ready, Compared
<1>8. CASE SyncBackup
  <2>1. /\ pc = "sync backup" /\ pc' = "stage" /\ UNCHANGED <<rows, path, backups, job, source, run>>
        /\ Backup(File) \in synced'
    BY <1>8 DEF SyncBackup
  <2>2. /\ source'.inode = path'[File'] /\ Backup(File)' \in backups'
        /\ rows'[Backup(File)'] = source'.rows /\ Backup(File)' \in synced'
    BY <1>0, <2>1 DEF JobInv, Copying, Filled, File, Backup
  <2>3. QED
    BY <2>1, <2>2 DEF JobInv, Copying, Filled, Flushed, Ready, Compared
<1>9. CASE Stage
  <2>1. /\ pc = "stage" /\ pc' = "check" /\ UNCHANGED <<path, backups, job, source, run>>
        /\ rows' = [rows EXCEPT ![Staged(File)] = Amend(source.rows)]
        /\ synced' = synced \union {Staged(File)}
    BY <1>9 DEF Stage
  <2>2. /\ source.inode = path[File] /\ Backup(File) \in backups
        /\ rows[Backup(File)] = source.rows /\ Backup(File) \in synced
    BY <1>0, <2>1 DEF JobInv, Copying, Filled, Flushed
  <2>3. Backup(File) # Staged(File)
    BY DEF Backup, Staged
  <2>4. rows'[Staged(File)] = Amend(source.rows) /\ rows'[Backup(File)] = source.rows
    BY <1>0, <2>1, <2>2, <2>3, FileIs DEF TypeInv
  <2>5. UNCHANGED <<File, Backup(File), Staged(File)>>
    BY <2>1 DEF File, Backup, Staged
  <2>6. Amend(source.rows)' = Amend(source.rows)
    BY <2>1
  <2>7. QED
    BY <2>1, <2>2, <2>4, <2>5, <2>6 DEF JobInv, Copying, Filled, Flushed, Ready, Compared
<1>10. CASE OpenAgain
  <2>1. /\ pc = "check" /\ pc' = "compare" /\ seen' = Identity(File)
        /\ UNCHANGED <<rows, path, backups, synced, job, source, run>>
    BY <1>10 DEF OpenAgain, fileVars
  <2>2. UNCHANGED <<File, Backup(File), Staged(File)>>
    BY <2>1 DEF File, Backup, Staged
  <2>3. /\ source.inode = path[File] /\ Backup(File) \in backups
        /\ rows[Backup(File)] = source.rows /\ Backup(File) \in synced
        /\ rows[Staged(File)] = Amend(source.rows) /\ Staged(File) \in synced
    BY <1>0, <2>1 DEF JobInv, Copying, Filled, Flushed, Ready
  <2>4. seen'[1] = path'[File']
    BY <2>1, <2>2 DEF Identity
  <2>5. Amend(source.rows)' = Amend(source.rows)
    BY <2>1
  <2>6. QED
    BY <2>1, <2>2, <2>3, <2>4, <2>5 DEF JobInv, Copying, Filled, Flushed, Ready, Compared
<1>11. CASE CompareSame
  <2>1. /\ pc = "compare" /\ pc' = "sync names" /\ ~SourceChanged
        /\ UNCHANGED <<rows, path, backups, synced, stable, job, source, run, written>>
    BY <1>11 DEF CompareSame, fileVars
  <2>2. UNCHANGED <<File, Backup(File), Staged(File)>>
    BY <2>1 DEF File, Backup, Staged
  <2>3. /\ source.inode = path[File] /\ Backup(File) \in backups
        /\ rows[Backup(File)] = source.rows /\ Backup(File) \in synced
        /\ rows[Staged(File)] = Amend(source.rows) /\ Staged(File) \in synced
        /\ seen[1] = path[File]
    BY <1>0, <2>1 DEF JobInv, Copying, Filled, Flushed, Ready
  <2>4. rows[path[File]] = source.rows /\ source.rows \in Seq(Record)
    BY <1>0, <2>1, <2>3 DEF SourceChanged, TypeInv, Copying
  <2>5. Amend(source.rows)' = Amend(source.rows)
    BY <2>1
  <2>6. Faithful(File, Amend(source.rows))
    <3>1. File \in Transcripts /\ Good(File, path[File])
      BY <1>0, <2>1, FileIs DEF Inv, FileInv
    <3>2. PICK c \in Seq(Record) : c = source.rows
      BY <2>4
    <3>3. Faithful(File, c)
      BY <2>4, <3>1, <3>2 DEF Good
    <3>4. Faithful(File, Amend(c))
      BY <1>0, <3>1, <3>3, FaithfulAmended
    <3>5. QED
      BY <3>2, <3>4
  <2>7. Faithful(File, Amend(source.rows))'
    <3>1. PICK f, c : f = File /\ c = Amend(source.rows)
      OBVIOUS
    <3>2. Faithful(f, c)'
      BY <2>1, <2>6, <3>1, FaithfulSame
    <3>3. f = File' /\ c = Amend(source.rows)'
      BY <2>2, <2>5, <3>1
    <3>4. QED
      BY <3>2, <3>3
  <2>8. Begins(source.rows, rows[path[File]])'
    <3>1. PICK s \in Seq(Record) : s = source.rows
      BY <2>4
    <3>2. Begins(s, s)
      BY DEF Begins
    <3>3. source'.rows = s /\ rows'[path'[File']] = s
      BY <2>1, <2>2, <2>4, <3>1
    <3>4. QED
      BY <3>2, <3>3 DEF Begins
  <2>9. QED
    BY <2>1, <2>2, <2>3, <2>5, <2>7, <2>8 DEF JobInv, Copying, Filled, Flushed, Ready, Compared
<1>12. CASE SyncNames
  <2>1. /\ pc = "sync names" /\ pc' = "replace" /\ DirectorySynced(File)
        /\ UNCHANGED <<rows, path, backups, synced, job, source, run, written>>
    BY <1>12 DEF SyncNames
  <2>2. UNCHANGED <<File, Backup(File), Staged(File)>>
    BY <2>1 DEF File, Backup, Staged
  <2>3. /\ source.inode = path[File] /\ Backup(File) \in backups
        /\ rows[Backup(File)] = source.rows /\ Backup(File) \in synced
        /\ rows[Staged(File)] = Amend(source.rows) /\ Staged(File) \in synced
        /\ Begins(source.rows, rows[path[File]]) /\ Faithful(File, Amend(source.rows))
    BY <1>0, <2>1 DEF JobInv, Copying, Filled, Flushed, Ready, Compared
  <2>4. Backup(File) \in stable'[File].names
    BY <1>0, <2>1, <2>3, FileIs DEF DirectorySynced, NamesNow, TypeInv, Backup
  <2>5. Amend(source.rows)' = Amend(source.rows)
    BY <2>1
  <2>6. Faithful(File, Amend(source.rows))'
    <3>1. PICK f, c : f = File /\ c = Amend(source.rows)
      OBVIOUS
    <3>2. Faithful(f, c)'
      BY <2>1, <2>3, <3>1, FaithfulSame
    <3>3. f = File' /\ c = Amend(source.rows)'
      BY <2>2, <2>5, <3>1
    <3>4. QED
      BY <3>2, <3>3
  <2>7. Begins(source.rows, rows[path[File]])'
    BY <2>1, <2>2, <2>3 DEF Begins
  <2>8. QED
    BY <2>1, <2>2, <2>3, <2>4, <2>5, <2>6, <2>7
       DEF JobInv, Copying, Filled, Flushed, Ready, Compared
<1>13. CASE Replace
  <2>1. pc' = "sync replaced"
    BY <1>13 DEF Replace
  <2>2. QED
    BY <2>1 DEF JobInv, Copying, Filled, Flushed, Ready, Compared
<1>14. QED
  BY <1>3, <1>4, <1>5, <1>6, <1>7, <1>8, <1>9, <1>10, <1>11, <1>12, <1>13 DEF Command

\* A session's row goes to the end of an inode that has been named.
LEMMA Appended ==
  ASSUME Inv, NEW f \in Transcripts, NEW row \in NewRows[f], AppendRow(f, row)
  PROVE  \E p \in Inodes, late \in BOOLEAN :
           /\ p = fd[f] /\ Named(f, p) /\ late = TooLate(f) /\ row \in Record
           /\ Written(f, row, p, late)
           /\ rows[p] \in Seq(Record)
           /\ rows' = [rows EXCEPT ![p] = Append(rows[p], row)]
<1>1. fd[f] # None /\ Named(f, fd[f]) /\ fd[f] \in Inodes
  BY InodesAre DEF AppendRow, Inv, FileInv, TypeInv
<1>2. TooLate(f) \in BOOLEAN
  BY DEF TooLate
<1>3. PICK p \in Inodes, late \in BOOLEAN : p = fd[f] /\ late = TooLate(f)
  BY <1>1, <1>2
<1>4. Written(f, row, p, late) /\ rows' = [rows EXCEPT ![p] = Append(rows[p], row)]
  BY <1>3 DEF AppendRow, Written
<1>5. rows[p] \in Seq(Record)
  BY DEF Inv, TypeInv
<1>6. QED
  BY <1>1, <1>3, <1>4, <1>5, SessionRow

LEMMA BeginsMore ==
  ASSUME NEW s \in Seq(Record), NEW t \in Seq(Record), NEW row, Begins(s, t)
  PROVE  Begins(s, Append(t, row))
<1>1. /\ Len(Append(t, row)) = Len(t) + 1 /\ Len(s) \in Nat /\ Len(t) \in Nat
      /\ \A k \in 1 .. Len(t) : Append(t, row)[k] = t[k]
  OBVIOUS
<1>2. \A k \in 1 .. Len(s) : k \in 1 .. Len(t)
  BY <1>1 DEF Begins
<1>3. Len(s) <= Len(t) + 1
  BY <1>1 DEF Begins
<1>4. QED
  BY <1>1, <1>2, <1>3 DEF Begins

LEMMA JobAppended ==
  ASSUME Inv, NEW f \in Transcripts, NEW row \in NewRows[f], AppendRow(f, row)
  PROVE  JobInv'
<1>0. TypeInv /\ JobInv
  BY DEF Inv
<1>1. PICK p \in Inodes, late \in BOOLEAN :
        /\ p = fd[f] /\ Named(f, p) /\ late = TooLate(f) /\ row \in Record
        /\ Written(f, row, p, late)
        /\ rows[p] \in Seq(Record)
        /\ rows' = [rows EXCEPT ![p] = Append(rows[p], row)]
  BY Appended
<1>2. UNCHANGED <<path, backups, staged, synced, stable, pc, job, run, seen, source>>
  BY DEF AppendRow, jobVars
<1>3. UNCHANGED <<File, Backup(File), Staged(File)>>
  BY <1>2 DEF File, Backup, Staged
<1>4. Amend(source.rows)' = Amend(source.rows)
  BY <1>2
<1>5. /\ pc \in {"read", "compare"} => seen[1] = path[File]
      /\ pc \in Copying => source.inode = path[File]
      /\ pc \in Copying \ {"backup"} => Backup(File) \in backups
      /\ pc \in Flushed => Backup(File) \in synced
      /\ pc = "replace" => Backup(File) \in stable[File].names
  BY <1>0 DEF JobInv
<1>6. ASSUME pc \in Before
      PROVE  rows'[Backup(File)] = rows[Backup(File)] /\ rows'[Staged(File)] = rows[Staged(File)]
  <2>1. p # Backup(File) /\ p # Staged(File)
    BY <1>0, <1>1, <1>6, NotYetNamed
  <2>2. pc # "ended"
    BY <1>6 DEF Before
  <2>3. QED
    BY <1>0, <1>1, <2>1, <2>2, FileIs DEF TypeInv
<1>7. pc \in Filled => rows'[Backup(File)] = source.rows
  BY <1>0, <1>6 DEF JobInv, Filled, Copying, Before
<1>8. pc \in Ready => rows'[Staged(File)] = Amend(source.rows) /\ Staged(File) \in synced
  BY <1>0, <1>6 DEF JobInv, Ready, Flushed, Filled, Copying, Before
<1>9. ASSUME pc \in Compared
      PROVE  Begins(source.rows, rows[path[File]])' /\ Faithful(File, Amend(source.rows))'
  <2>1. Begins(source.rows, rows[path[File]]) /\ Faithful(File, Amend(source.rows))
    BY <1>0, <1>9 DEF JobInv
  <2>2. File \in Transcripts /\ source.rows \in Seq(Record)
    BY <1>0, <1>9, FileIs DEF TypeInv, Compared, Copying
  <2>a. PICK g \in Transcripts, s \in Seq(Record) : g = File /\ s = source.rows
    BY <2>2
  <2>b. PICK c, q : c = Amend(source.rows) /\ q = path[File]
    OBVIOUS
  <2>3. g = File /\ s = source.rows /\ c = Amend(source.rows) /\ q = path[File]
    BY <2>a, <2>b
  <2>4. Begins(s, rows'[q])
    <3>1. q \in Inodes
      BY <1>0, <2>3, InodesAre DEF Inv, FileInv, Good, TypeInv
    <3>2. rows[q] \in Seq(Record)
      BY <1>0, <3>1 DEF TypeInv
    <3>3. rows'[q] = IF q = p THEN Append(rows[q], row) ELSE rows[q]
      BY <1>0, <1>1, <3>1 DEF TypeInv
    <3>4. PICK t \in Seq(Record) : t = rows[q]
      BY <3>2
    <3>5. Begins(s, t)
      BY <2>1, <2>3, <3>4
    <3>6. Begins(s, Append(t, row))
      BY <3>5, BeginsMore
    <3>7. QED
      BY <3>3, <3>4, <3>5, <3>6
  <2>5. Faithful(g, c)'
    <3>1. Faithful(g, c)
      BY <2>1, <2>3
    <3>2. CASE g = f
      <4>1. late = TRUE
        BY <1>1, <1>9, <2>3, <3>2 DEF TooLate, Compared
      <4>2. QED
        BY <1>0, <1>1, <3>1, <3>2, <4>1, FaithfulLate
    <3>3. CASE g # f
      <4>1. written'[g] = written[g]
        BY <1>0, <1>1, <3>3, WrittenMore
      <4>2. QED
        BY <3>1, <4>1, FaithfulSame
    <3>4. QED
      BY <3>2, <3>3
  <2>6. s = source'.rows /\ q = path'[File'] /\ g = File' /\ c = Amend(source.rows)'
    BY <1>2, <1>3, <1>4, <2>3
  <2>7. Begins(source.rows, rows[path[File]])'
    BY <2>4, <2>6
  <2>8. QED
    BY <2>5, <2>6, <2>7
<1>10. QED
  BY <1>2, <1>3, <1>4, <1>5, <1>7, <1>8, <1>9 DEF JobInv

\* Steps that rename and write nothing.
LEMMA FilesQuiet ==
  ASSUME Inv, [Next]_vars, UNCHANGED <<rows, path, written>>,
         backups \subseteq backups', synced \subseteq synced',
         \A f \in Transcripts : /\ stable'[f].path \in {path[f], stable[f].path}
                                /\ \A b \in backups : b[1] = f /\ b \in stable[f].names
                                                        => b \in stable'[f].names
                                /\ fd'[f] \in {None, fd[f], path[f]}
  PROVE  \A f \in Transcripts : FileInv(f)'
<1>1. ASSUME NEW f \in Transcripts PROVE FileInv(f)'
  <2>1. TypeInv /\ FileInv(f)
    BY DEF Inv
  <2>2. Untouched(f)
    BY DEF Untouched, BackupOf
  <2>3. \A q : Named(f, q) => Named(f, q)'
    BY <2>1, NamedKept
  <2>4. path'[f] \in {path[f], stable[f].path}
    OBVIOUS
  <2>5. QED
    BY <2>1, <2>2, <2>3, <2>4, FileUntouched
<1>2. QED
  BY <1>1

\* Steps that write an inode no transcript has been named for, or sync a file.
LEMMA FilesMade ==
  ASSUME Inv, [Next]_vars, pc \in Before, UNCHANGED <<path, stable, written, fd, backups>>,
         synced \subseteq synced',
         \/ \E made : rows' = [rows EXCEPT ![Backup(File)] = made]
         \/ \E made : rows' = [rows EXCEPT ![Staged(File)] = made]
  PROVE  \A f \in Transcripts : FileInv(f)'
<1>1. ASSUME NEW f \in Transcripts PROVE FileInv(f)'
  <2>1. TypeInv /\ FileInv(f)
    BY DEF Inv
  <2>2. ASSUME NEW p, Named(f, p)
        PROVE  rows'[p] = rows[p] /\ rows'[BackupOf(f, p)] = rows[BackupOf(f, p)]
    <3>1. p \in Inodes /\ BackupOf(f, p) \in Inodes
      BY <2>1, <2>2, InodesAre DEF TypeInv
    <3>2. p # Backup(File) /\ p # Staged(File) /\ BackupOf(f, p) # Backup(File)
      BY <2>1, <2>2, NotYetNamed
    <3>3. BackupOf(f, p) # Staged(File)
      BY DEF BackupOf, Staged
    <3>4. QED
      BY <2>1, <3>1, <3>2, <3>3 DEF TypeInv
  <2>3. Untouched(f)
    BY <2>2 DEF Untouched
  <2>4. \A q : Named(f, q) => Named(f, q)'
    BY <2>1, NamedKept
  <2>5. QED
    BY <2>1, <2>3, <2>4, FileUntouched
<1>2. QED
  BY <1>1

\* The new name: an inode with the amended snapshot, its backup on the disk.
LEMMA FilesReplaced ==
  ASSUME Inv, Replace
  PROVE  \A f \in Transcripts : FileInv(f)'
<1>0. TypeInv /\ JobInv /\ \A f \in Transcripts : FileInv(f)
  BY DEF Inv
<1>1. /\ pc = "replace" /\ pc' = "sync replaced"
      /\ UNCHANGED <<rows, backups, synced, stable, fd, job, source, run, written>>
      /\ path' = [path EXCEPT ![File] = Staged(File)]
  BY DEF Replace
<1>2. /\ File \in Transcripts /\ Staged(File) \in Inodes /\ Backup(File) \in Inodes
      /\ pc \in Before /\ pc # "ended"
  BY <1>0, <1>1, FileIs DEF Before
<1>3. \A f, q : Named(f, q) => Named(f, q)'
  BY <1>0, NamedKept DEF Next, Command
<1>4. \A f : Untouched(f)
  BY <1>1 DEF Untouched
<1>5. ASSUME NEW f \in Transcripts, f # File PROVE FileInv(f)'
  <2>1. path'[f] = path[f]
    BY <1>0, <1>1, <1>5 DEF TypeInv
  <2>2. QED
    BY <1>0, <1>1, <1>3, <1>4, <1>5, <2>1, FileUntouched
<1>6. PICK f \in Transcripts : f = File
  BY <1>2
<1>7. PICK p \in Inodes, b \in Inodes : p = Staged(f) /\ b = Backup(f)
  BY <1>2, <1>6
<1>8. /\ source.inode = path[f] /\ b \in backups /\ rows[b] = source.rows /\ b \in synced
      /\ rows[p] = Amend(source.rows) /\ p \in synced
      /\ Begins(source.rows, rows[path[f]]) /\ Faithful(f, Amend(source.rows))
      /\ b \in stable[f].names /\ source.rows \in Seq(Record)
  BY <1>0, <1>1, <1>6, <1>7 DEF JobInv, TypeInv, Copying, Filled, Flushed, Ready, Compared
<1>9. Named(f, p)'
  <2>1. p = StagedOf(f, p[3]) /\ p[3] = run /\ run' = run
    BY <1>1, <1>7 DEF Staged, StagedOf
  <2>2. run \in 1 .. run
    BY <1>0, <1>2 DEF TypeInv
  <2>3. Done(f)'
    <3>1. job' \in DOMAIN Files /\ Files[job'] = f /\ pc' = "sync replaced"
      BY <1>0, <1>1, <1>2, <1>6 DEF TypeInv, File
    <3>2. QED
      BY <3>1 DEF Done
  <2>4. QED
    BY <2>1, <2>2, <2>3 DEF Named, StagedOf
<1>10. Faithful(f, rows[p])'
  BY <1>1, <1>8 DEF Faithful
<1>11. Backed(f, p)'
  <2>1. b = BackupOf(f, p)'
    BY <1>7 DEF Backup, BackupOf, Staged
  <2>2. Since(f, p)' = {}
    <3>1. \A i \in DOMAIN written[f] : written[f][i].to # p
      BY <1>0, <1>2, <1>6, <1>7, NotYetNamed DEF FileInv
    <3>2. QED
      BY <1>1, <3>1 DEF Since
  <2>3. /\ Len(rows[p]) = Len(rows[b])
        /\ Len(rows[b]) \in Nat
        /\ \A k \in 1 .. Len(rows[b]) : rows[p][k] = AmendRow(rows[b][k])
    BY <1>8, AmendIs
  <2>4. Len(rows'[p]) = Len(rows'[b]) + Cardinality(Since(f, p)')
    <3>1. Cardinality(Since(f, p)') = 0
      BY <2>2, FS_EmptySet
    <3>2. rows'[p] = rows[p] /\ rows'[b] = rows[b]
      BY <1>1
    <3>3. Len(rows'[p]) = Len(rows'[b]) /\ Len(rows'[b]) \in Nat
      BY <2>3, <3>2
    <3>4. QED
      BY <3>1, <3>3
  <2>5. PICK q : q = path[f]
    OBVIOUS
  <2>6. q # p /\ Named(f, q)' /\ q \in synced' /\ Begins(rows'[b], rows'[q])
    <3>1. Good(f, q)
      BY <1>0, <2>5 DEF FileInv
    <3>2. Named(f, q) /\ q \in synced
      BY <3>1 DEF Good
    <3>3. q # p
      BY <1>0, <1>2, <1>6, <1>7, <3>2, NotYetNamed
    <3>4. QED
      BY <1>1, <1>3, <1>8, <2>5, <3>2, <3>3
  <2>7. QED
    BY <1>1, <1>8, <2>1, <2>3, <2>4, <2>6 DEF Backed, Begins
<1>12. Good(f, p)'
  BY <1>1, <1>8, <1>9, <1>10, <1>11 DEF Good
<1>13. path'[f] = p
  BY <1>0, <1>1, <1>6, <1>7 DEF TypeInv
<1>14. ASSUME NEW q, q = stable'[f].path PROVE Good(f, q)'
  <2>1. Good(f, q)
    BY <1>0, <1>1, <1>14 DEF FileInv
  <2>2. QED
    BY <1>3, <1>4, <2>1, GoodKept
<1>15. ASSUME NEW q, q = fd'[f], q # None PROVE Named(f, q)'
  BY <1>0, <1>1, <1>3, <1>15 DEF FileInv
<1>16. ASSUME NEW i \in DOMAIN written'[f], NEW q, q = written'[f][i].to PROVE Named(f, q)'
  BY <1>0, <1>1, <1>3, <1>16 DEF FileInv
<1>17. FileInv(f)'
  <2>1. ASSUME NEW q, q \in {path[f], stable[f].path}' PROVE Good(f, q)'
    BY <1>12, <1>13, <1>14, <2>1
  <2>2. QED
    BY <2>1, <1>15, <1>16 DEF FileInv, Named
<1>18. \A g \in Transcripts : g # f => FileInv(g)'
  BY <1>5, <1>6
<1>19. QED
  <2>1. ASSUME NEW g \in Transcripts PROVE FileInv(g)'
    BY <1>17, <1>18
  <2>2. QED
    BY <2>1

\* The disk after a crash: what was named and synced, and the backups, are there.
LEMMA FilesCrashed ==
  ASSUME Inv, Crash
  PROVE  \A f \in Transcripts : FileInv(f)'
<1>0. TypeInv /\ \A f \in Transcripts : FileInv(f)
  BY DEF Inv
<1>1. PICK renamed \in SUBSET {f \in Transcripts : path[f] # stable[f].path},
           kept \in SUBSET ((backups \union staged) \ Settled),
           lost \in SUBSET ((backups \union staged) \ synced) : DiskLeft(renamed, kept, lost)
  BY DEF Crash
<1> DEFINE found == [f \in Transcripts |-> IF f \in renamed THEN path[f] ELSE stable[f].path]
           names == (Settled \union kept) \ {found[f] : f \in Transcripts}
<1>2. /\ path' = found
      /\ backups' = {i \in names : i[2] = "backup"}
      /\ stable' = [f \in Transcripts |->
                     [path |-> found[f], names |-> {i \in names : i[1] = f}]]
      /\ rows' = [i \in Inodes |-> IF i \in lost THEN <<>> ELSE rows[i]]
  BY <1>1 DEF DiskLeft
<1>3. synced' = Inodes /\ fd' = [f \in Transcripts |-> None] /\ UNCHANGED <<written, run>>
  BY DEF Crash
<1>4. \A f \in Transcripts : found[f] \in {path[f], stable[f].path}
  OBVIOUS
<1> HIDE DEF found
<1>5. \A f \in Transcripts : /\ path'[f] = found[f] /\ stable'[f].path = found[f]
                             /\ stable'[f].names = {i \in names : i[1] = f}
                             /\ fd'[f] = None
  BY <1>2, <1>3
<1>6. ASSUME NEW f \in Transcripts PROVE FileInv(f)'
  <2>1. \A p \in synced \cap Inodes : rows'[p] = rows[p]
    BY <1>2
  <2>2. \A p : Named(f, p) => p \in Inodes /\ BackupOf(f, p) \in Inodes
    BY <1>0, InodesAre DEF TypeInv
  <2>3. ASSUME NEW p, BackupOf(f, p) \in stable[f].names PROVE BackupOf(f, p) \in names
    <3>1. BackupOf(f, p) \in Settled
      BY <2>3 DEF Settled
    <3>2. ASSUME NEW g \in Transcripts PROVE found[g] # BackupOf(f, p)
      <4>1. PICK q : q = found[g]
        OBVIOUS
      <4>2. Named(g, q)
        BY <1>0, <1>4, <4>1 DEF FileInv, Good
      <4>3. QED
        BY <4>1, <4>2, NamedApart
    <3>3. QED
      BY <3>1, <3>2
  <2> HIDE DEF names
  <2>4. ASSUME NEW p, Named(f, p), BackupOf(f, p) \in synced, BackupOf(f, p) \in stable[f].names
        PROVE  LET b == BackupOf(f, p)
               IN b \in backups' /\ b \in synced' /\ b \in stable'[f].names /\ rows'[b] = rows[b]
    <3>1. BackupOf(f, p)[1] = f /\ BackupOf(f, p)[2] = "backup"
      BY DEF BackupOf
    <3>2. BackupOf(f, p) \in names /\ BackupOf(f, p) \in Inodes
      BY <2>2, <2>3, <2>4
    <3>3. QED
      BY <1>2, <1>3, <1>5, <2>1, <2>4, <3>1, <3>2
  <2>5. \A p : Named(f, p) /\ p \in synced => p \in synced' /\ rows'[p] = rows[p]
    BY <1>3, <2>1, <2>2
  <2>6. Untouched(f)
    BY <1>3, <2>4, <2>5 DEF Untouched
  <2>7. \A q : Named(f, q) => Named(f, q)'
    BY <1>0, NamedKept DEF Next
  <2>8. QED
    BY <1>0, <1>4, <1>5, <2>6, <2>7, FileUntouched
<1>7. QED
  BY <1>6

LEMMA FilesAppended ==
  ASSUME Inv, NEW f \in Transcripts, NEW row \in NewRows[f], AppendRow(f, row)
  PROVE  \A g \in Transcripts : FileInv(g)'
<1>0. TypeInv /\ \A g \in Transcripts : FileInv(g)
  BY DEF Inv
<1>1. PICK p \in Inodes, late \in BOOLEAN :
        /\ p = fd[f] /\ Named(f, p) /\ late = TooLate(f) /\ row \in Record
        /\ Written(f, row, p, late)
        /\ rows[p] \in Seq(Record)
        /\ rows' = [rows EXCEPT ![p] = Append(rows[p], row)]
  BY Appended
<1>2. UNCHANGED <<path, backups, staged, synced, stable, fd, pc, job, run>>
  BY DEF AppendRow, jobVars
<1>3. \A g, q : Named(g, q) => Named(g, q)'
  <2>1. Next
    BY DEF Next
  <2>2. QED
    BY <1>0, <2>1, NamedKept
<1>4. \A q \in Inodes : /\ rows[q] \in Seq(Record)
                        /\ q # p => rows'[q] = rows[q]
                        /\ q = p => rows'[q] = Append(rows[q], row)
  BY <1>0, <1>1 DEF TypeInv
<1>5. ASSUME NEW g \in Transcripts, g # f PROVE FileInv(g)'
  <2>1. ASSUME NEW q, Named(g, q)
        PROVE  rows'[q] = rows[q] /\ rows'[BackupOf(g, q)] = rows[BackupOf(g, q)]
    <3>1. q \in Inodes /\ BackupOf(g, q) \in Inodes
      BY <1>0, <2>1, InodesAre DEF TypeInv
    <3>2. q # p /\ p # BackupOf(g, q)
      BY <1>1, <1>5, <2>1, NamedApart
    <3>3. QED
      BY <1>4, <3>1, <3>2
  <2>2. written'[g] = written[g]
    BY <1>0, <1>1, <1>5, WrittenMore
  <2>3. Untouched(g)
    BY <1>2, <2>1, <2>2 DEF Untouched
  <2>4. QED
    BY <1>0, <1>2, <1>3, <2>3, FileUntouched
<1>6. ASSUME NEW q, Good(f, q), q \in {path[f], stable[f].path} PROVE Good(f, q)'
  <2>1. q \in Inodes /\ BackupOf(f, q) \in Inodes
    BY <1>0, <1>6, InodesAre DEF Good, TypeInv
  <2>2. Named(f, q)' /\ q \in synced'
    BY <1>2, <1>3, <1>6 DEF Good
  <2>3. Faithful(f, rows[q])'
    <3>1. PICK c \in Seq(Record) : c = rows[q]
      BY <1>4, <2>1
    <3>2. Faithful(f, c)
      BY <1>6, <3>1 DEF Good
    <3>3. CASE q = p
      <4>1. Faithful(f, Append(c, row))'
        BY <1>0, <1>1, <3>2, FaithfulMore
      <4>2. rows'[q] = Append(c, row)
        BY <1>4, <2>1, <3>1, <3>3
      <4>3. QED
        BY <4>1, <4>2
    <3>4. CASE q # p
      <4>1. late = TRUE
        BY <1>1, <1>6, <3>4 DEF TooLate
      <4>2. Faithful(f, c)'
        BY <1>0, <1>1, <3>2, <4>1, FaithfulLate
      <4>3. rows'[q] = c
        BY <1>4, <2>1, <3>1, <3>4
      <4>4. QED
        BY <4>2, <4>3
    <3>5. QED
      BY <3>3, <3>4
  <2>4. ASSUME q # LogInode(f) PROVE Backed(f, q)'
    <3> DEFINE b == BackupOf(f, q)
    <3>1. /\ b \in backups /\ b \in synced /\ b \in stable[f].names
          /\ Len(rows[q]) = Len(rows[b]) + Cardinality(Since(f, q))
          /\ \A k \in 1 .. Len(rows[b]) : rows[q][k] = AmendRow(rows[b][k])
      BY <1>6, <2>4 DEF Good, Backed
    <3>2. PICK o : o # q /\ Named(f, o) /\ o \in synced /\ Begins(rows[b], rows[o])
      BY <1>6, <2>4 DEF Good, Backed
    <3>3. b # p
      BY <1>1, NamedApart
    <3>4. b = BackupOf(f, q)' /\ b \in Inodes
      BY <2>1 DEF BackupOf
    <3> HIDE DEF b
    <3>5. rows'[b] = rows[b] /\ rows[b] \in Seq(Record)
      BY <1>4, <3>3, <3>4
    <3>6. PICK s \in Seq(Record) : s = rows[b]
      BY <3>5
    <3>7. o \in Inodes
      BY <1>0, <3>2, InodesAre DEF TypeInv
    <3>8. Begins(s, rows'[o])
      <4>1. PICK t \in Seq(Record) : t = rows[o]
        BY <1>4, <3>7
      <4>2. Begins(s, t)
        BY <3>2, <3>6, <4>1
      <4>3. Begins(s, Append(t, row))
        BY <4>2, BeginsMore
      <4>4. QED
        BY <1>4, <3>7, <4>1, <4>2, <4>3
    <3>9. PICK t \in Seq(Record) : t = rows[q]
      BY <1>4, <2>1
    <3>10. /\ Len(s) \in Nat /\ Len(t) \in Nat
           /\ Len(t) = Len(s) + Cardinality(Since(f, q)) /\ Cardinality(Since(f, q)) \in Nat
           /\ \A k \in 1 .. Len(s) : t[k] = AmendRow(s[k])
      BY <1>0, <3>1, <3>6, <3>9, SinceIs
    <3>11. Cardinality(Since(f, q)') = Cardinality(Since(f, q)) + (IF q = p THEN 1 ELSE 0)
      BY <1>0, <1>1, SinceMore
    <3>12. /\ Len(rows'[q]) = Len(s) + Cardinality(Since(f, q)')
           /\ \A k \in 1 .. Len(s) : rows'[q][k] = AmendRow(s[k])
      <4>1. CASE q # p
        <5>1. rows'[q] = t
          BY <1>4, <2>1, <3>9, <4>1
        <5>2. Cardinality(Since(f, q)') = Cardinality(Since(f, q))
          BY <3>10, <3>11, <4>1
        <5>3. QED
          BY <3>10, <5>1, <5>2
      <4>2. CASE q = p
        <5>1. rows'[q] = Append(t, row)
          BY <1>4, <2>1, <3>9, <4>2
        <5>2. /\ Len(Append(t, row)) = Len(t) + 1
              /\ \A k \in 1 .. Len(t) : Append(t, row)[k] = t[k]
          BY <3>9, AppendProperties
        <5>3. Cardinality(Since(f, q)') = Cardinality(Since(f, q)) + 1
          BY <3>11, <4>2
        <5>4. \A k \in 1 .. Len(s) : k \in 1 .. Len(t)
          BY <3>10
        <5>5. Len(Append(t, row)) = Len(s) + Cardinality(Since(f, q)')
          BY <3>10, <5>2, <5>3
        <5>6. QED
          BY <3>10, <5>1, <5>2, <5>4, <5>5
      <4>3. QED
        BY <4>1, <4>2
    <3>13. b \in backups' /\ b \in synced' /\ b \in stable'[f].names /\ rows'[b] = s
      BY <1>2, <3>1, <3>5, <3>6
    <3>14. Named(f, o)' /\ o \in synced'
      BY <1>2, <1>3, <3>2
    <3>15. QED
      BY <3>2, <3>4, <3>8, <3>12, <3>13, <3>14 DEF Backed, Begins
  <2>5. Backed(f, q)'
    BY <2>4 DEF Backed, LogInode
  <2>6. QED
    BY <2>2, <2>3, <2>5 DEF Good
<1>7. ASSUME NEW q, q \in {path[f], stable[f].path}' PROVE Good(f, q)'
  BY <1>0, <1>2, <1>6, <1>7 DEF FileInv
<1>8. ASSUME NEW q, q = fd'[f], q # None PROVE Named(f, q)'
  BY <1>0, <1>2, <1>3, <1>8 DEF FileInv
<1>9. ASSUME NEW i \in DOMAIN written'[f], NEW q, q = written'[f][i].to PROVE Named(f, q)'
  <2> DEFINE n == Len(written[f])
  <2>1. /\ n \in Nat /\ DOMAIN written[f] = 1 .. n /\ DOMAIN written'[f] = 1 .. n + 1
        /\ \A k \in 1 .. n : written'[f][k] = written[f][k]
        /\ written'[f][n + 1].to = p
    BY <1>0, <1>1, WrittenMore, WrittenIs
  <2> HIDE DEF n
  <2>2. i \in 1 .. n \/ i = n + 1
    BY <1>9, <2>1
  <2>3. CASE i \in 1 .. n
    BY <1>0, <1>3, <1>9, <2>1, <2>3 DEF FileInv
  <2>4. CASE i = n + 1
    BY <1>1, <1>3, <1>9, <2>1, <2>4
  <2>5. QED
    BY <2>2, <2>3, <2>4
<1>10. FileInv(f)'
  BY <1>7, <1>8, <1>9 DEF FileInv, Named
<1>11. QED
  <2>1. ASSUME NEW g \in Transcripts PROVE FileInv(g)'
    BY <1>5, <1>10
  <2>2. QED
    BY <2>1

-----------------------------------------------------------------------------
(* The invariant. *)

LEMMA InitInv == Init => Inv
<1> SUFFICES ASSUME Init PROVE Inv
  OBVIOUS
<1>1. PICK c \in [Transcripts -> UNION {Contents[f] : f \in Transcripts}] :
        /\ \A f \in Transcripts : c[f] \in Contents[f]
        /\ rows = [i \in Inodes |-> IF i = LogInode(i[1]) THEN c[i[1]] ELSE <<>>]
        /\ written = [f \in Transcripts |-> [i \in DOMAIN c[f] |->
                                               [row |-> c[f][i], to |-> LogInode(f), late |-> FALSE]]]
  BY DEF Init
<1>2. /\ path = [f \in Transcripts |-> LogInode(f)]
      /\ synced = {LogInode(f) : f \in Transcripts}
      /\ stable = [f \in Transcripts |-> [path |-> LogInode(f), names |-> {}]]
      /\ fd = [f \in Transcripts |-> None]
      /\ run = 0 /\ pc = "ended"
  BY DEF Init
<1>3. \A f \in Transcripts : c[f] \in Seq(Record)
  BY <1>1, FilesAssumption
<1>4. \A f \in Transcripts : LogInode(f) \in Inodes
  BY FilesAssumption DEF LogInode, Inodes
<1>5. \A i \in Inodes : i[1] \in Transcripts
  BY DEF Inodes
<1>6. \A i \in Inodes : (IF i = LogInode(i[1]) THEN c[i[1]] ELSE <<>>) \in Seq(Record)
  BY <1>3, <1>5, EmptySeq
<1>7. rows \in [Inodes -> Seq(Record)]
  BY <1>1, <1>6
<1>8. \A f \in Transcripts : rows[LogInode(f)] = c[f]
  BY <1>1, <1>4 DEF LogInode
<1>9. ASSUME NEW f \in Transcripts
      PROVE  /\ written[f] \in Seq(Entry)
             /\ DOMAIN written[f] = 1 .. Len(c[f]) /\ Len(c[f]) \in Nat
             /\ \A i \in 1 .. Len(c[f]) : /\ written[f][i].row = c[f][i]
                                          /\ written[f][i].to = LogInode(f)
  <2>1. Len(c[f]) \in Nat /\ DOMAIN c[f] = 1 .. Len(c[f])
        /\ \A i \in 1 .. Len(c[f]) : c[f][i] \in Record
    BY <1>3
  <2> DEFINE entry(i) == [row |-> c[f][i], to |-> LogInode(f), late |-> FALSE]
  <2>2. written[f] = [i \in 1 .. Len(c[f]) |-> entry(i)]
    BY <1>1, <2>1
  <2>3. \A i \in 1 .. Len(c[f]) : entry(i) \in Entry
    BY <1>4, <2>1 DEF Entry
  <2>4. \A i : entry(i).row = c[f][i] /\ entry(i).to = LogInode(f)
    OBVIOUS
  <2> HIDE DEF entry
  <2>5. written[f] \in [1 .. Len(c[f]) -> Entry]
    BY <2>2, <2>3
  <2>6. QED
    BY <2>1, <2>2, <2>4, <2>5
<1>10. DOMAIN written = Transcripts /\ written = [f \in Transcripts |-> written[f]]
  BY <1>1
<1>11. TypeInv
  <2>1. written \in [Transcripts -> Seq(Entry)]
    BY <1>9, <1>10
  <2>2. run \in 0 .. MaxRuns
    BY <1>2, FilesAssumption
  <2>3. QED
    BY <1>2, <1>7, <2>1, <2>2 DEF TypeInv, Steps, Copying
<1>12. JobInv
  BY <1>2 DEF JobInv, Copying, Filled, Flushed, Ready, Compared
<1>13. ASSUME NEW f \in Transcripts PROVE FileInv(f)
  <2>1. path[f] = LogInode(f) /\ stable[f].path = LogInode(f) /\ fd[f] = None
        /\ LogInode(f) \in synced
    BY <1>2
  <2>2. Named(f, LogInode(f))
    BY DEF Named
  <2>3. Backed(f, LogInode(f))
    BY DEF Backed
  <2>4. Faithful(f, rows[LogInode(f)])
    <3> DEFINE n == Len(c[f])
    <3>1. /\ n \in Nat /\ DOMAIN written[f] = 1 .. n /\ rows[LogInode(f)] = c[f]
          /\ \A i \in 1 .. n : written[f][i].row = c[f][i]
      BY <1>8, <1>9
    <3>2. Cardinality(1 .. n) = n /\ \A i \in 1 .. n : RankIn(1 .. n, i) = i
      BY <3>1, RankAll
    <3>3. QED
      BY <3>1, <3>2 DEF Faithful
  <2>5. \A i \in DOMAIN written[f] : written[f][i].to = LogInode(f)
    BY <1>9
  <2>6. QED
    BY <2>1, <2>2, <2>3, <2>4, <2>5 DEF FileInv, Good
<1>14. QED
  BY <1>11, <1>12, <1>13 DEF Inv

LEMMA FilesKept == Inv /\ [Next]_vars => \A f \in Transcripts : FileInv(f)'
<1> SUFFICES ASSUME Inv, [Next]_vars PROVE \A f \in Transcripts : FileInv(f)'
  OBVIOUS
<1>0. TypeInv /\ DOMAIN stable = Transcripts /\ DOMAIN fd = Transcripts
  BY DEF Inv, TypeInv
<1>1. CASE /\ UNCHANGED <<rows, path, written, stable, fd>>
           /\ backups \subseteq backups' /\ synced \subseteq synced'
  BY <1>1, FilesQuiet
<1>2. CASE \/ \E apply \in BOOLEAN : StartRun(apply)
           \/ RefuseFile \/ OpenTranscript \/ ReadTranscript \/ OpenAgain \/ CompareSame
  BY <1>1, <1>2 DEF StartRun, RefuseFile, OpenTranscript, ReadTranscript, OpenAgain, CompareSame,
                    fileVars
<1>3. CASE CreateBackup \/ SyncBackup \/ CompareChanged \/ IOError
  BY <1>1, <1>3 DEF CreateBackup, SyncBackup, CompareChanged, IOError
<1>4. CASE WriteBackup \/ Stage
  <2>1. pc \in Before /\ UNCHANGED <<path, stable, written, fd, backups>> /\ synced \subseteq synced'
    BY <1>4 DEF WriteBackup, Stage, Before
  <2>2. \/ \E made : rows' = [rows EXCEPT ![Backup(File)] = made]
        \/ \E made : rows' = [rows EXCEPT ![Staged(File)] = made]
    BY <1>4 DEF WriteBackup, Stage
  <2>3. QED
    BY <2>1, <2>2, FilesMade
<1>5. CASE SyncNames \/ SyncReplaced
  <2>1. UNCHANGED <<rows, path, written, fd, backups, synced>> /\ DirectorySynced(File)
    BY <1>5 DEF SyncNames, SyncReplaced
  <2>2. ASSUME NEW f \in Transcripts
        PROVE  /\ stable'[f].path \in {path[f], stable[f].path}
               /\ \A b \in backups : b[1] = f /\ b \in stable[f].names => b \in stable'[f].names
    <3>1. CASE f = File
      <4>1. stable'[f] = [path |-> path[f], names |-> NamesNow(f)]
        BY <1>0, <2>1, <3>1 DEF DirectorySynced
      <4>2. QED
        BY <4>1 DEF NamesNow
    <3>2. CASE f # File
      BY <1>0, <2>1, <3>2 DEF DirectorySynced
    <3>3. QED
      BY <3>1, <3>2
  <2>3. QED
    BY <2>1, <2>2, FilesQuiet
<1>6. CASE Replace
  BY <1>6, FilesReplaced
<1>7. CASE \E f \in Transcripts : OpenLog(f) \/ CloseLog(f)
  <2>1. UNCHANGED <<rows, path, written, stable, backups, synced>>
    BY <1>7 DEF OpenLog, CloseLog, fileVars
  <2>2. \A f \in Transcripts : fd'[f] \in {None, fd[f], path[f]}
    BY <1>0, <1>7 DEF OpenLog, CloseLog
  <2>3. QED
    BY <2>1, <2>2, FilesQuiet
<1>8. CASE \E f \in Transcripts : \E row \in NewRows[f] : AppendRow(f, row)
  BY <1>8, FilesAppended
<1>9. CASE Crash
  BY <1>9, FilesCrashed
<1>10. CASE UNCHANGED vars
  BY <1>1, <1>10 DEF vars, fileVars
<1>11. QED
  BY <1>2, <1>3, <1>4, <1>5, <1>6, <1>7, <1>8, <1>9, <1>10 DEF Next, Command

LEMMA JobUntouched ==
  ASSUME JobInv, UNCHANGED <<rows, path, backups, synced, stable, run, pc, job, seen, source, written>>
  PROVE  JobInv'
<1>1. UNCHANGED <<File, Backup(File), Staged(File)>>
  BY DEF File, Backup, Staged
<1>2. Amend(source.rows)' = Amend(source.rows)
  OBVIOUS
<1>3. pc \in Compared => Faithful(File, Amend(source.rows))'
  <2>1. PICK f, c : f = File /\ c = Amend(source.rows)
    OBVIOUS
  <2>2. pc \in Compared => Faithful(f, c)'
    BY <2>1, FaithfulSame DEF JobInv
  <2>3. f = File' /\ c = Amend(source.rows)'
    BY <1>1, <1>2, <2>1
  <2>4. QED
    BY <2>2, <2>3
<1>4. pc \in Compared => Begins(source.rows, rows[path[File]])'
  BY <1>1 DEF JobInv, Begins
<1>5. QED
  BY <1>1, <1>2, <1>3, <1>4 DEF JobInv

LEMMA InvKept == Inv /\ [Next]_vars => Inv'
<1> SUFFICES ASSUME Inv, [Next]_vars PROVE Inv'
  OBVIOUS
<1>1. TypeInv' /\ \A f \in Transcripts : FileInv(f)'
  BY TypeKept, FilesKept
<1>2. JobInv'
  <2>1. CASE (\E f \in Transcripts : OpenLog(f) \/ CloseLog(f)) \/ UNCHANGED vars
    BY <2>1, JobUntouched DEF OpenLog, CloseLog, vars, fileVars, jobVars, Inv
  <2>2. CASE \E f \in Transcripts : \E row \in NewRows[f] : AppendRow(f, row)
    BY <2>2, JobAppended
  <2>3. CASE Command \/ (\E apply \in BOOLEAN : StartRun(apply)) \/ Crash
    BY <2>3, JobKept
  <2>4. QED
    BY <2>1, <2>2, <2>3 DEF Next
<1>3. QED
  BY <1>1, <1>2 DEF Inv

LEMMA Invariant == Spec => []Inv
<1>1. QED
  BY InitInv, InvKept, PTL DEF Spec

\* A transcript that a run replaced has that run's backup beside it, whole and unamended, and
\* another inode begins with its rows, whatever a crash did in between: migrate_file syncs the
\* backup and its name before it renames the staged copy.
THEOREM BackupFirstHolds == Spec => []BackupFirst
<1>1. Inv => BackupFirst
  <2> SUFFICES ASSUME Inv, NEW f \in Transcripts, path[f] # LogInode(f)
               PROVE  LET backup == <<f, "backup", path[f][3]>>
                          since == Cardinality({i \in DOMAIN written[f] : written[f][i].to = path[f]})
                      IN /\ backup \in backups
                         /\ Amend(rows[backup])
                              = SubSeq(rows[path[f]], 1, Len(rows[path[f]]) - since)
                         /\ \E i \in Inodes : /\ i[1] = f
                                              /\ i # path[f] /\ i # backup
                                              /\ IsPrefix(rows[backup], rows[i])
    BY DEF BackupFirst
  <2>1. PICK p : p = path[f]
    OBVIOUS
  <2>2. TypeInv /\ Good(f, p) /\ p # LogInode(f)
    BY <2>1 DEF Inv, FileInv
  <2>3. PICK b : b = BackupOf(f, p)
    OBVIOUS
  <2>4. /\ b \in backups
        /\ Len(rows[p]) = Len(rows[b]) + Cardinality(Since(f, p))
        /\ \A k \in 1 .. Len(rows[b]) : rows[p][k] = AmendRow(rows[b][k])
    BY <2>2, <2>3 DEF Good, Backed
  <2>5. PICK q : q # p /\ Named(f, q) /\ q \in synced /\ Begins(rows[b], rows[q])
    BY <2>2, <2>3 DEF Good, Backed
  <2>6. p \in Inodes /\ b \in Inodes /\ q \in Inodes
    BY <2>2, <2>3, <2>5, InodesAre DEF Good, TypeInv
  <2>7. PICK s \in Seq(Record), t \in Seq(Record), u \in Seq(Record) :
          s = rows[b] /\ t = rows[p] /\ u = rows[q]
    BY <2>2, <2>6 DEF TypeInv
  <2>8. PICK n \in Nat : n = Cardinality(Since(f, p))
    BY <2>2, SinceIs
  <2>9. /\ Len(t) = Len(s) + n /\ Len(s) \in Nat /\ Len(t) \in Nat
        /\ \A k \in 1 .. Len(s) : t[k] = AmendRow(s[k])
    BY <2>4, <2>7, <2>8
  <2>10. Amend(s) = SubSeq(t, 1, Len(t) - n)
    <3>1. Len(t) - n = Len(s) /\ Len(s) <= Len(t)
      BY <2>9
    <3>2. SubSeq(t, 1, Len(s)) = [k \in 1 .. Len(s) |-> t[k]]
      BY <3>1, <2>9
    <3>3. Amend(s) = [k \in 1 .. Len(s) |-> AmendRow(s[k])]
      BY DEF Amend
    <3>4. QED
      BY <2>9, <3>1, <3>2, <3>3
  <2>11. q[1] = f /\ q # b
    BY <2>3, <2>5 DEF Named, BackupOf, LogInode, StagedOf
  <2>12. IsPrefix(s, u)
    BY <2>5, <2>7, PrefixIs
  <2>13. b = <<f, "backup", path[f][3]>>
    BY <2>1, <2>3 DEF BackupOf
  <2>14. n = Cardinality({i \in DOMAIN written[f] : written[f][i].to = path[f]})
    BY <2>1, <2>8 DEF Since
  <2>15. QED
    BY <2>1, <2>4, <2>5, <2>6, <2>7, <2>10, <2>11, <2>12, <2>13, <2>14
<1>2. QED
  BY <1>1, Invariant, PTL

\* Up to the spelling of tool ids a transcript is what was written to it, in order, but for
\* rows a session wrote after _assert_unchanged looked last: no run, crash or retry drops another.
THEOREM RowsKeptHolds == Spec => []RowsKept
<1>1. Inv => RowsKept
  <2> SUFFICES ASSUME Inv, NEW f \in Transcripts
               PROVE  \E kept \in SUBSET (DOMAIN written[f]) :
                        /\ \A i \in DOMAIN written[f] : ~written[f][i].late => i \in kept
                        /\ Len(rows[path[f]]) = Cardinality(kept)
                        /\ \A i \in kept :
                             AmendRow(rows[path[f]][Cardinality({j \in kept : j <= i})])
                               = AmendRow(written[f][i].row)
    BY DEF RowsKept
  <2>1. Faithful(f, rows[path[f]])
    BY DEF Inv, FileInv, Good
  <2>2. QED
    BY <2>1 DEF Faithful, RankIn
<1>2. QED
  BY <1>1, Invariant, PTL

Matched(before, after) ==
  \A i, k \in DOMAIN before :
    \A j \in DOMAIN before[i].fields, l \in DOMAIN before[k].fields :
      (/\ before[i].fields[j].place \in Pairing
       /\ before[k].fields[l].place \in Pairing
       /\ before[i].fields[j].id = before[k].fields[l].id)
        => after[i].fields[j].id = after[k].fields[l].id

\* Two places Claude Code pairs that had the same id in the backup have the same id in the
\* transcript: _record and _message rewrite every such place the same way.
THEOREM MatchKeptHolds == Spec => []MatchKept
<1>1. Inv => MatchKept
  <2> SUFFICES ASSUME Inv, NEW f \in Transcripts, path[f] # LogInode(f)
               PROVE  Matched(rows[<<f, "backup", path[f][3]>>], rows[path[f]])
    BY DEF MatchKept, Matched
  <2>1. PICK p : p = path[f]
    OBVIOUS
  <2>2. TypeInv /\ Good(f, p) /\ p # LogInode(f)
    BY <2>1 DEF Inv, FileInv
  <2>3. PICK b : b = BackupOf(f, p)
    OBVIOUS
  <2>4. p \in Inodes /\ b \in Inodes
    BY <2>2, <2>3, InodesAre DEF Good, TypeInv
  <2>5. PICK s \in Seq(Record), t \in Seq(Record) : s = rows[b] /\ t = rows[p]
    BY <2>2, <2>4 DEF TypeInv
  <2>6. \A k \in 1 .. Len(s) : t[k] = AmendRow(s[k])
    BY <2>2, <2>3, <2>5 DEF Good, Backed
  <2>7. ASSUME NEW i \in DOMAIN s, NEW j \in DOMAIN s[i].fields, s[i].fields[j].place \in Pairing
        PROVE  t[i].fields[j].id = EncodeLegacyId(s[i].fields[j].id)
    <3>1. DOMAIN s = 1 .. Len(s) /\ s[i] \in Record /\ t[i] = AmendRow(s[i])
      BY <2>6, <2>7
    <3>2. t[i].fields[j] = AmendField(s[i].fields[j])
      BY <2>7, <3>1, AmendRowIs
    <3>3. s[i].fields[j] \in [place : STRING, id : Ids]
      <4> DEFINE Field == [place : STRING, id : Ids]
      <4>1. s[i].fields \in Seq(Field)
        BY <3>1 DEF Record
      <4> HIDE DEF Field
      <4>2. s[i].fields[j] \in Field
        BY <2>7, <4>1, ElementOfSeq
      <4>3. QED
        BY <4>2 DEF Field
    <3>4. s[i].fields[j].place \in Covered
      BY <2>7 DEF Pairing, Covered
    <3>5. QED
      BY <3>2, <3>3, <3>4 DEF AmendField
  <2>8. b = <<f, "backup", path[f][3]>>
    BY <2>1, <2>3 DEF BackupOf
  <2>9. s = rows[<<f, "backup", path[f][3]>>] /\ t = rows[path[f]]
    BY <2>1, <2>5, <2>8
  <2>10. ASSUME NEW i \in DOMAIN s, NEW k \in DOMAIN s,
                NEW j \in DOMAIN s[i].fields, NEW l \in DOMAIN s[k].fields,
                s[i].fields[j].place \in Pairing, s[k].fields[l].place \in Pairing,
                s[i].fields[j].id = s[k].fields[l].id
         PROVE  t[i].fields[j].id = t[k].fields[l].id
    BY <2>7, <2>10
  <2>11. Matched(s, t)
    BY <2>10 DEF Matched
  <2>12. QED
    BY <2>9, <2>11
<1>2. QED
  BY <1>1, Invariant, PTL
=============================================================================
