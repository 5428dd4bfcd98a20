------------------------ MODULE TranscriptMigration ------------------------
(***************************************************************************)
(* ccpatch migrate-tool-ids (transcripts.py, cli.py): rewriting the legacy *)
(* tool ids of session transcripts in place, while sessions may be writing *)
(* them and the machine may lose power between any two file operations.    *)
(*                                                                         *)
(* A row of a transcript is whether it parses and the ids it mentions,     *)
(* each with the place it stands in.  The file system keeps contents by    *)
(* inode; what has not been synced may be lost in a crash.  Rows a session *)
(* writes count as durable at once: they are not this program's to sync.   *)
(*                                                                         *)
(* CoveredButAttachments, SourceChangedByInode and SyncBackupLazily are    *)
(* faulty variants.                                                        *)
(***************************************************************************)
EXTENDS ToolIds, Sequences, FiniteSets, SequencesExt

CONSTANTS
  Files,        \* the transcripts, in the order transcript_paths lists them
  Contents,     \* the rows each may hold at first: a set of sequences per file
  Natures,      \* what each file may be, out of "own", "foreign", "linked"
  NewRows,      \* the rows a session may append to each file
  MaxRuns,      \* bound: runs of the command
  MaxAppends,   \* bound: rows appended
  MaxCrashes,   \* bound: crashes
  None

Transcripts == {Files[i] : i \in DOMAIN Files}

VARIABLES
  rows,      \* the contents of each inode
  path,      \* the inode each transcript's name leads to
  backups,   \* inodes that have a backup's name
  staged,    \* inodes that have a temporary name
  synced,    \* inodes whose contents are on the disk
  stable,    \* path, backups and staged as the disk has them, per transcript
  nature,
  fd,        \* the inode a session has open, per transcript
  run,       \* runs begun
  applying,  \* --apply
  pc, job,   \* what the command does, and to which file
  seen,      \* the identity a snapshot began with
  source,    \* the snapshot of migrate_file: inode and rows
  outcome,   \* what the run found or did, per transcript
  written,   \* every row written to a transcript: to which inode, and whether too late
  appends, crashes

fileVars == <<rows, path, backups, staged, synced, stable>>
jobVars == <<run, applying, pc, job, seen, source, outcome>>
counters == <<appends, crashes>>
vars == <<fileVars, nature, fd, jobVars, written, counters>>

-----------------------------------------------------------------------------
(* Rewriting rows. *)

Record == [parses : BOOLEAN, fields : Seq([place : STRING, id : Ids])]

CoveredButAttachments == {"tool_use", "tool_result", "toolUseID", "parentToolUseID"}

\* The places _record and _message look at, here and in the messages a progress
\* record carries.
Covered == {"tool_use", "tool_result", "toolUseID", "parentToolUseID", "attachment"}

AmendField(field) ==
  IF field.place \in Covered THEN [field EXCEPT !.id = EncodeLegacyId(@)] ELSE field

AmendRow(row) ==
  [row EXCEPT !.fields = [i \in DOMAIN @ |-> AmendField(@[i])]]

Amend(content) == [i \in DOMAIN content |-> AmendRow(content[i])]

\* migrate_bytes: every row is validated before anything is replaced.
Valid(content) == \A i \in DOMAIN content : content[i].parses

-----------------------------------------------------------------------------
(* The command. *)

LogInode(f) == <<f, "log", 0>>
Backup(f) == <<f, "backup", run>>
Staged(f) == <<f, "staged", run>>
Inodes == Transcripts \X {"log", "backup", "staged"} \X (0 .. MaxRuns)

\* os.walk meets each transcript once.
ASSUME FilesAssumption ==
  /\ Files \in Seq(Transcripts) \ {<<>>}
  /\ \A i, j \in DOMAIN Files : Files[i] = Files[j] => i = j
  /\ \A f \in Transcripts : Contents[f] \subseteq Seq(Record) /\ NewRows[f] \subseteq Record
  /\ MaxRuns \in Nat
  /\ None \notin Inodes

File == Files[job]

\* _identity: device and inode, size and times.  Rows are only ever appended to
\* an inode, so its length stands for size and times.
Identity(f) == <<path[f], Len(rows[path[f]])>>

Init ==
  /\ \E c \in [Transcripts -> UNION {Contents[f] : f \in Transcripts}] :
       /\ \A f \in Transcripts : c[f] \in Contents[f]
       /\ rows = [i \in Inodes |-> IF i = LogInode(i[1]) THEN c[i[1]] ELSE <<>>]
       /\ written = [f \in Transcripts |-> [i \in DOMAIN c[f] |->
                                              [row |-> c[f][i], to |-> LogInode(f), late |-> FALSE]]]
  /\ path = [f \in Transcripts |-> LogInode(f)]
  /\ backups = {} /\ staged = {}
  /\ synced = {LogInode(f) : f \in Transcripts}
  /\ stable = [f \in Transcripts |-> [path |-> LogInode(f), names |-> {}]]
  /\ nature \in [Transcripts -> UNION {Natures[f] : f \in Transcripts}]
  /\ \A f \in Transcripts : nature[f] \in Natures[f]
  /\ fd = [f \in Transcripts |-> None]
  /\ run = 0 /\ applying = FALSE /\ pc = "ended" /\ job = 0
  /\ seen = None /\ source = None
  /\ outcome = [f \in Transcripts |-> "none"]
  /\ appends = 0 /\ crashes = 0

StartRun(apply) ==
  /\ pc = "ended"
  /\ run < MaxRuns
  /\ run' = run + 1
  /\ applying' = apply
  /\ pc' = "open" /\ job' = 1
  /\ outcome' = [f \in Transcripts |-> "none"]
  /\ UNCHANGED <<fileVars, nature, fd, seen, source, written, counters>>

\* The next transcript, or the summary: an error is counted and the loop goes on.
Conclude(result) ==
  /\ outcome' = [outcome EXCEPT ![File] = result]
  /\ seen' = None /\ source' = None
  /\ IF job = Len(Files) THEN pc' = "ended" /\ UNCHANGED job
                         ELSE pc' = "open" /\ job' = job + 1
  /\ UNCHANGED <<run, applying>>

\* _snapshot refuses what is not a regular file with one link.
RefuseFile ==
  /\ pc = "open"
  /\ nature[File] = "linked"
  /\ Conclude("error")
  /\ UNCHANGED <<fileVars, nature, fd, written, counters>>

OpenTranscript ==
  /\ pc = "open"
  /\ nature[File] # "linked"
  /\ seen' = Identity(File)
  /\ pc' = "read"
  /\ UNCHANGED <<fileVars, nature, fd, run, applying, job, source, outcome, written, counters>>

\* The file is read; it must not have changed meanwhile.  Then migrate_bytes,
\* and the early returns of migrate_file.
ReadTranscript ==
  /\ pc = "read"
  /\ LET content == rows[seen[1]]
     IN \/ /\ Len(content) # seen[2] \/ ~Valid(content)
           /\ Conclude("error")
        \/ /\ Len(content) = seen[2] /\ Valid(content)
           /\ IF Amend(content) = content \/ ~applying
                THEN Conclude(IF Amend(content) = content THEN "unaffected" ELSE "preview")
              ELSE IF nature[File] = "foreign" THEN Conclude("error")
              ELSE /\ source' = [inode |-> seen[1], rows |-> content]
                   /\ seen' = None
                   /\ pc' = "backup"
                   /\ UNCHANGED <<run, applying, job, outcome>>
  /\ UNCHANGED <<fileVars, nature, fd, written, counters>>

\* A private file with a name of its own, then the snapshot in it, then fsync.
CreateBackup ==
  /\ pc = "backup"
  /\ backups' = backups \union {Backup(File)}
  /\ pc' = "write backup"
  /\ UNCHANGED <<rows, path, staged, synced, stable, nature, fd, run, applying, job, seen, source,
                 outcome, written, counters>>

WriteBackup ==
  /\ pc = "write backup"
  /\ rows' = [rows EXCEPT ![Backup(File)] = source.rows]
  /\ pc' = "sync backup"
  /\ UNCHANGED <<path, backups, staged, synced, stable, nature, fd, run, applying, job, seen,
                 source, outcome, written, counters>>

SyncBackupLazily ==
  /\ pc = "sync backup"
  /\ pc' = "stage"
  /\ UNCHANGED <<fileVars, nature, fd, run, applying, job, seen, source, outcome,
                 written, counters>>

SyncBackup ==
  /\ pc = "sync backup"
  /\ synced' = synced \union {Backup(File)}
  /\ pc' = "stage"
  /\ UNCHANGED <<rows, path, backups, staged, stable, nature, fd, run, applying, job, seen,
                 source, outcome, written, counters>>

\* mkstemp, the amended rows, mode and fsync.
Stage ==
  /\ pc = "stage"
  /\ staged' = staged \union {Staged(File)}
  /\ rows' = [rows EXCEPT ![Staged(File)] = Amend(source.rows)]
  /\ synced' = synced \union {Staged(File)}
  /\ pc' = "check"
  /\ UNCHANGED <<path, backups, stable, nature, fd, run, applying, job, seen, source, outcome,
                 written, counters>>

\* _assert_unchanged: a second snapshot, which must show what the first one did.
OpenAgain ==
  /\ pc = "check"
  /\ seen' = Identity(File)
  /\ pc' = "compare"
  /\ UNCHANGED <<fileVars, nature, fd, run, applying, job, source, outcome, written, counters>>

SourceChangedByInode == seen[1] # source.inode

SourceChanged ==
  \/ Len(rows[seen[1]]) # seen[2]
  \/ seen[1] # source.inode
  \/ rows[seen[1]] # source.rows

Unstage == staged' = staged \ {Staged(File)}

CompareChanged ==
  /\ pc = "compare"
  /\ SourceChanged
  /\ Unstage
  /\ Conclude("error")
  /\ UNCHANGED <<rows, path, backups, synced, stable, nature, fd, written, counters>>

CompareSame ==
  /\ pc = "compare"
  /\ ~SourceChanged
  /\ pc' = "sync names"
  /\ UNCHANGED <<fileVars, nature, fd, run, applying, job, seen, source, outcome,
                 written, counters>>

\* fsync of the directory: its names are on the disk.
NamesNow(f) == {i \in backups \union staged : i[1] = f}
DirectorySynced(f) ==
  stable' = [stable EXCEPT ![f] = [path |-> path[f], names |-> NamesNow(f)]]

SyncNames ==
  /\ pc = "sync names"
  /\ DirectorySynced(File)
  /\ pc' = "replace"
  /\ UNCHANGED <<rows, path, backups, staged, synced, nature, fd, run, applying, job, seen,
                 source, outcome, written, counters>>

Replace ==
  /\ pc = "replace"
  /\ path' = [path EXCEPT ![File] = Staged(File)]
  /\ Unstage
  /\ pc' = "sync replaced"
  /\ UNCHANGED <<rows, backups, synced, stable, nature, fd, run, applying, job, seen, source,
                 outcome, written, counters>>

SyncReplaced ==
  /\ pc = "sync replaced"
  /\ DirectorySynced(File)
  /\ Conclude("updated")
  /\ UNCHANGED <<rows, path, backups, staged, synced, nature, fd, written, counters>>

\* Any of these calls may fail (no space, no permission): the temporary name
\* goes, the backup and whatever was done stay, and the next file is tried.
IOError ==
  /\ pc \in {"open", "read", "backup", "write backup", "sync backup", "stage", "check", "compare",
             "sync names", "replace", "sync replaced"}
  /\ Unstage
  /\ Conclude("error")
  /\ UNCHANGED <<rows, path, backups, synced, stable, nature, fd, written, counters>>

-----------------------------------------------------------------------------
(* Sessions and the machine. *)

OpenLog(f) ==
  /\ fd[f] = None
  /\ NewRows[f] # {}
  /\ fd' = [fd EXCEPT ![f] = path[f]]
  /\ UNCHANGED <<fileVars, nature, jobVars, written, counters>>

CloseLog(f) ==
  /\ fd[f] # None
  /\ fd' = [fd EXCEPT ![f] = None]
  /\ UNCHANGED <<fileVars, nature, jobVars, written, counters>>

\* The command has made its last comparison, or its replacement is not the file
\* the session has open, or not yet the one the disk knows.
TooLate(f) ==
  \/ fd[f] # path[f]
  \/ stable[f].path # path[f]
  \/ pc \in {"sync names", "replace"} /\ File = f

AppendRow(f, row) ==
  /\ fd[f] # None
  /\ appends < MaxAppends
  /\ appends' = appends + 1
  /\ rows' = [rows EXCEPT ![fd[f]] = Append(@, row)]
  /\ written' = [written EXCEPT ![f] = Append(@, [row |-> row, to |-> fd[f],
                                               late |-> TooLate(f)])]
  /\ UNCHANGED <<path, backups, staged, synced, stable, nature, fd, jobVars, crashes>>

\* Names the disk knows.
Settled == UNION {stable[f].names : f \in Transcripts}

\* What is found on the disk: the name of some transcripts, other names and
\* some contents as they were before their directory or they were synced.
DiskLeft(renamed, kept, lost) ==
  LET found == [f \in Transcripts |-> IF f \in renamed THEN path[f] ELSE stable[f].path]
      names == (Settled \union kept) \ {found[f] : f \in Transcripts}
  IN /\ path' = found
     /\ backups' = {i \in names : i[2] = "backup"}
     /\ staged' = {i \in names : i[2] = "staged"}
     /\ stable' = [f \in Transcripts |->
                    [path |-> found[f], names |-> {i \in names : i[1] = f}]]
     /\ rows' = [i \in Inodes |-> IF i \in lost THEN <<>> ELSE rows[i]]

\* Power is lost while the command runs.  Of the names changed since the last
\* fsync of their directory any may be found changed, and contents that were not
\* synced may be missing.
Crash ==
  /\ pc # "ended"
  /\ crashes < MaxCrashes
  /\ crashes' = crashes + 1
  /\ \E renamed \in SUBSET {f \in Transcripts : path[f] # stable[f].path},
        kept \in SUBSET ((backups \union staged) \ Settled),
        lost \in SUBSET ((backups \union staged) \ synced) :
       DiskLeft(renamed, kept, lost)
  /\ synced' = Inodes
  /\ fd' = [f \in Transcripts |-> None]
  /\ pc' = "ended" /\ job' = 0
  /\ seen' = None /\ source' = None
  /\ UNCHANGED <<nature, run, applying, outcome, written, appends>>

Command ==
  \/ RefuseFile \/ OpenTranscript \/ ReadTranscript \/ CreateBackup \/ WriteBackup \/ SyncBackup
  \/ Stage \/ OpenAgain \/ CompareChanged \/ CompareSame \/ SyncNames \/ Replace \/ SyncReplaced
  \/ IOError

Next ==
  \/ \E apply \in BOOLEAN : StartRun(apply)
  \/ Command
  \/ \E f \in Transcripts :
       OpenLog(f) \/ CloseLog(f) \/ \E row \in NewRows[f] : AppendRow(f, row)
  \/ Crash

Spec == Init /\ [][Next]_vars

-----------------------------------------------------------------------------
(* Properties. *)

\* A transcript that a run replaced has that run's backup beside it, whatever a
\* crash did in between, and the backup holds, unamended and whole, the rows the
\* replacement was made from.
BackupFirst ==
  \A f \in Transcripts :
    path[f] # LogInode(f) =>
      LET backup == <<f, "backup", path[f][3]>>
          since == Cardinality({i \in DOMAIN written[f] : written[f][i].to = path[f]})
      IN /\ backup \in backups
         /\ Amend(rows[backup]) = SubSeq(rows[path[f]], 1, Len(rows[path[f]]) - since)
         /\ \E i \in Inodes : /\ i[1] = f
                              /\ i # path[f] /\ i # backup
                              /\ IsPrefix(rows[backup], rows[i])

\* Up to the spelling of tool ids, a transcript is what was written to it in the
\* order it was written: only rows a session wrote between the last comparison of
\* a run and the sync of its replacement, or to a file already replaced, can be
\* missing.
RowsKept ==
  \A f \in Transcripts :
    \E kept \in SUBSET (DOMAIN written[f]) :
      /\ \A i \in DOMAIN written[f] : ~written[f][i].late => i \in kept
      /\ Len(rows[path[f]]) = Cardinality(kept)
      /\ \A i \in kept :
           AmendRow(rows[path[f]][Cardinality({j \in kept : j <= i})])
             = AmendRow(written[f][i].row)

\* Places Claude Code pairs with the id of a tool call.
Pairing == {"tool_use", "tool_result", "toolUseID", "parentToolUseID", "attachment"}

\* A result or a reference that named a tool call before the migration names it
\* after: two ids that were equal in the backup are equal in the transcript.
MatchKept ==
  \A f \in Transcripts :
    LET before == rows[<<f, "backup", path[f][3]>>]
        after == rows[path[f]]
    IN path[f] # LogInode(f) =>
         \A i, k \in DOMAIN before :
           \A j \in DOMAIN before[i].fields, l \in DOMAIN before[k].fields :
             (/\ before[i].fields[j].place \in Pairing
              /\ before[k].fields[l].place \in Pairing
              /\ before[i].fields[j].id = before[k].fields[l].id)
               => after[i].fields[j].id = after[k].fields[l].id
=============================================================================
