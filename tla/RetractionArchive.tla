-------------------------- MODULE RetractionArchive --------------------------
(***************************************************************************)
(* Retracted messages of a patched Claude Code session: capture in memory  *)
(* (retraction_runtime.js), the archive row that takes the message's place *)
(* in the transcript (retraction_storage.js), and the guards which         *)
(* retractions.py puts into the host's transcript writer.                  *)
(*                                                                         *)
(* The host is external, modelled from the code the patches meet: until    *)
(* the session file exists entries wait in pendingEntries; appendEntry     *)
(* awaits twice before it enqueues; one queue does appends and removals in *)
(* order, each write in one piece; metadata rows are appended              *)
(* synchronously, past the queue; the native purge deletes a row.          *)
(*                                                                         *)
(* A row is its kind and whom it is about.  `changed` stands for the       *)
(* comparison of the two stat results: the transcript was written or made  *)
(* since the first.  Reading it is one step: what a longer read mixes is   *)
(* refused by the same comparison.  Other processes do not write.          *)
(*                                                                         *)
(* PersistUnguarded, DraftOutOfPlace, SwapUnchecked and GiveUpLate are     *)
(* faulty variants.                                                        *)
(***************************************************************************)
EXTENDS Integers, Sequences, FiniteSets, SequencesExt, Selections

CONSTANTS
  Messages,      \* messages of the session, by uuid
  Metas,         \* metadata rows
  MaxAttempts,   \* replaceLocal's attempts: 3
  MaxRequests,   \* bound: retractions
  MaxCrashes     \* bound: ends of the process

ASSUME BoundsAssumption ==
  MaxAttempts \in Nat \ {0} /\ MaxRequests \in Nat /\ MaxCrashes \in Nat

\* The writer of metadata has uuids of its own.
ASSUME MetasAssumption == Messages \cap Metas = {}

VARIABLES
  remote,         \* the session has a V5 backend instead of a local file
  unfit,          \* messages that capture cannot take from the conversation
  transcript,     \* the rows of the file (or of the backend)
  sessionFile,    \* it exists
  pendingEntries, \* rows that wait for it
  queue,          \* the host's writes: [op, row]
  appending,      \* where the message's appendEntry is suspended
  entries,        \* the messages the archive in memory holds
  place,          \* where replaceLocal is suspended
  attempt, draft, changed,   \* its locals
  mirrored,       \* kinds of rows given to the mirrors
  requests,       \* retractions so far
  crashes,
  removed         \* history: captured messages a removal of which has ended

session == <<remote, unfit>>
writer == <<transcript, sessionFile, pendingEntries, queue, appending, mirrored>>
rewrite == <<place, attempt, draft, changed>>
archiveVars == <<session, writer, entries, rewrite, requests, crashes, removed>>

Row(kind, id) == [kind |-> kind, id |-> id]
Op(op, row) == [op |-> op, row |-> row]
Message(u) == Row("message", u)
Archive(u) == Row("archive", u)
Rows(s) == {s[k] : k \in DOMAIN s}
Ids(s) == [k \in DOMAIN s |-> s[k].id]
Without(s, rows) == Kept(s, {k \in DOMAIN s : s[k] \notin rows})

ArchiveInit ==
  /\ remote \in BOOLEAN /\ unfit \in SUBSET Messages
  /\ transcript = <<>> /\ sessionFile = FALSE /\ pendingEntries = <<>> /\ queue = <<>>
  /\ appending = [u \in Messages |-> "new"]
  /\ mirrored = {}
  /\ entries = {}
  /\ place = "idle" /\ attempt = 0 /\ draft = <<>> /\ changed = FALSE
  /\ requests = 0 /\ crashes = 0
  /\ removed = {}

-----------------------------------------------------------------------------
(* Writing. *)

Write(row) == transcript' = Append(transcript, row) /\ changed' = (place # "idle")

\* fireMirror, called for what is enqueued.
Mirror(rows) == mirrored' = mirrored \cup ({row.kind : row \in Rows(rows)} \ {"archive"})

Enqueue(rows) ==
  /\ queue' = queue \o [k \in DOMAIN rows |-> Op("append", rows[k])]
  /\ Mirror(rows)

AppendTo(u, where) == appending' = [appending EXCEPT ![u] = where]

\* appendEntry begins; a captured message is dropped.
BeginAppend(u) ==
  /\ appending[u] = "new"
  /\ IF u \in entries THEN AppendTo(u, "over") /\ UNCHANGED pendingEntries
     ELSE IF sessionFile THEN AppendTo(u, "rows") /\ UNCHANGED pendingEntries
     ELSE AppendTo(u, "over") /\ pendingEntries' = Append(pendingEntries, Message(u))
  /\ UNCHANGED <<session, transcript, sessionFile, queue, mirrored, entries, rewrite, requests,
                 crashes, removed>>

\* After `await sessionMessages`.
KnowsRows(u) ==
  /\ appending[u] = "rows"
  /\ AppendTo(u, IF u \in entries THEN "over" ELSE "session")
  /\ UNCHANGED <<session, transcript, sessionFile, pendingEntries, queue, mirrored, entries, rewrite,
                 requests, crashes, removed>>

PersistUnguarded(u) ==
  /\ appending[u] = "session"
  /\ AppendTo(u, "over")
  /\ Enqueue(<<Message(u)>>)
  /\ UNCHANGED <<session, transcript, sessionFile, pendingEntries, entries, rewrite, requests,
                 crashes, removed>>

\* After the session is resolved: the last guard, and the write is queued.
Persist(u) ==
  /\ appending[u] = "session"
  /\ AppendTo(u, "over")
  /\ IF u \in entries THEN UNCHANGED <<queue, mirrored>> ELSE Enqueue(<<Message(u)>>)
  /\ UNCHANGED <<session, transcript, sessionFile, pendingEntries, entries, rewrite, requests,
                 crashes, removed>>

\* The session file is made and the waiting entries appended; an archive
\* row is not sent to a backend.
Materialize ==
  /\ ~ sessionFile
  /\ sessionFile' = TRUE /\ pendingEntries' = <<>>
  /\ Enqueue(Without(pendingEntries, {row \in Rows(pendingEntries) : remote /\ row.kind = "archive"}))
  /\ UNCHANGED <<session, transcript, appending, entries, rewrite, requests, crashes, removed>>

WriteNext ==
  /\ queue # <<>> /\ Head(queue).op = "append"
  /\ Write(Head(queue).row)
  /\ queue' = Tail(queue)
  /\ UNCHANGED <<session, sessionFile, pendingEntries, appending, mirrored, entries, place, attempt,
                 draft, requests, crashes, removed>>

\* A synchronous append of the same process, whatever the queue is doing.
AppendMetadata(m) ==
  /\ sessionFile /\ Row("meta", m) \notin Rows(transcript)
  /\ Write(Row("meta", m))
  /\ UNCHANGED <<session, sessionFile, pendingEntries, queue, appending, mirrored, entries, place,
                 attempt, draft, requests, crashes, removed>>

-----------------------------------------------------------------------------
(* Retraction. *)

\* The conversation gives a message up: capture, then removeMessageByUuid,
\* which does nothing without a session file and a captured message.
Retract(u) ==
  /\ appending[u] # "lost" /\ requests < MaxRequests
  /\ requests' = requests + 1
  /\ entries' = entries \cup ({u} \ unfit)
  /\ \/ /\ sessionFile
        /\ queue' = Append(queue, Op("remove", Message(u)))
        /\ UNCHANGED <<pendingEntries, removed>>
     \/ /\ ~ sessionFile /\ u \in entries'
        /\ LET others == Without(pendingEntries, {Message(u), Archive(u)})
           IN  pendingEntries' = IF remote THEN others ELSE Append(others, Archive(u))
        /\ removed' = removed \cup {u}
        /\ UNCHANGED queue
     \/ /\ ~ sessionFile /\ u \notin entries'
        /\ UNCHANGED <<queue, pendingEntries, removed>>
  /\ UNCHANGED <<session, transcript, sessionFile, appending, mirrored, rewrite, crashes>>

Removing == queue # <<>> /\ Head(queue).op = "remove"
Target == Head(queue).row.id

EndRemoval ==
  /\ queue' = Tail(queue) /\ removed' = removed \cup ({Target} \cap entries')
  /\ place' = "idle" /\ attempt' = 0 /\ draft' = <<>> /\ changed' = FALSE

\* performRemoveByUuid: the archive is for local files.
Stat ==
  /\ Removing /\ ~ remote /\ place = "idle"
  /\ place' = "copy" /\ changed' = FALSE
  /\ UNCHANGED <<session, writer, entries, attempt, draft, requests, crashes, removed>>

DraftOutOfPlace(u, captured) ==
  IF Message(u) \in Rows(transcript) THEN Append(Without(transcript, {Message(u)}), Archive(u))
  ELSE IF Archive(u) \notin Rows(transcript) /\ captured THEN Append(transcript, Archive(u))
  ELSE <<>>

\* The new file: an archive row in the place of the message, or at the end if
\* the message never got there; <<>> if there is nothing to do.
Draft(u, captured) ==
  IF Message(u) \in Rows(transcript)
  THEN [k \in DOMAIN transcript |-> IF transcript[k] = Message(u) THEN Archive(u) ELSE transcript[k]]
  ELSE IF Archive(u) \notin Rows(transcript) /\ captured THEN Append(transcript, Archive(u))
  ELSE <<>>

\* The rows are read and copied; archives met are restored to memory.
CopyRows ==
  /\ Removing /\ place = "copy"
  /\ LET u == Target
         next == Draft(u, u \in entries)
     IN  /\ entries' = IF {Message(u), Archive(u)} \cap Rows(transcript) # {}
                       THEN entries \cup {u} ELSE entries
         /\ IF next # <<>>
            THEN place' = "swap" /\ draft' = next /\ UNCHANGED <<attempt, changed, queue, removed>>
            ELSE EndRemoval
  /\ UNCHANGED <<session, transcript, sessionFile, pendingEntries, appending, mirrored, requests,
                 crashes>>

SwapUnchecked ==
  /\ Removing /\ place = "swap"
  /\ UNCHANGED <<session, sessionFile, pendingEntries, appending, mirrored, entries, requests, crashes>>
  /\ transcript' = draft /\ EndRemoval

\* statSync and renameSync with no await between them.
Swap ==
  /\ Removing /\ place = "swap" /\ ~ changed
  /\ UNCHANGED <<session, sessionFile, pendingEntries, appending, mirrored, entries, requests, crashes>>
  /\ transcript' = draft /\ EndRemoval

\* The transcript has changed: another attempt.
Retry ==
  /\ Removing /\ place = "swap" /\ changed /\ attempt + 1 < MaxAttempts
  /\ place' = "idle" /\ attempt' = attempt + 1 /\ draft' = <<>> /\ changed' = FALSE
  /\ UNCHANGED <<session, writer, entries, requests, crashes, removed>>

\* External: the native deletion.
NativePurge ==
  /\ UNCHANGED <<session, sessionFile, pendingEntries, appending, mirrored, entries, requests, crashes>>
  /\ transcript' = Without(transcript, {Message(Target)}) /\ EndRemoval

GiveUpLate == Removing /\ place = "swap" /\ changed /\ attempt >= MaxAttempts /\ NativePurge

\* All attempts are used up.
GiveUp == Removing /\ place = "swap" /\ changed /\ attempt + 1 >= MaxAttempts /\ NativePurge

\* A file operation of replaceLocal fails.
Fail == Removing /\ ~ remote /\ NativePurge

PurgeRemote == Removing /\ remote /\ NativePurge

-----------------------------------------------------------------------------
(* The process ends and the session is resumed: the transcript is loaded, and *)
(* its archive rows restored unless reading them fails, which is only logged. *)
Restored == {u \in Messages : Archive(u) \in Rows(transcript)}

Resume ==
  /\ crashes < MaxCrashes /\ sessionFile
  /\ crashes' = crashes + 1
  /\ \E ok \in BOOLEAN : entries' = IF ok /\ ~ remote THEN Restored ELSE {}
  /\ queue' = <<>>
  /\ appending' = [u \in Messages |->
       IF Message(u) \in Rows(transcript) THEN "over"
       ELSE IF appending[u] = "new" /\ u \notin entries THEN "new" ELSE "lost"]
  /\ place' = "idle" /\ attempt' = 0 /\ draft' = <<>> /\ changed' = FALSE
  /\ UNCHANGED <<session, transcript, sessionFile, pendingEntries, mirrored, requests, removed>>

-----------------------------------------------------------------------------
Conversation == \E u \in Messages : BeginAppend(u) \/ KnowsRows(u) \/ Persist(u) \/ Retract(u)
Queue ==
  WriteNext \/ Stat \/ CopyRows \/ Swap \/ Retry \/ GiveUp \/ PurgeRemote
ArchiveNext == Conversation \/ Materialize \/ Queue \/ Fail \/ (\E m \in Metas : AppendMetadata(m)) \/ Resume

ArchiveSpec == ArchiveInit /\ [][ArchiveNext]_archiveVars
\* The queue is worked off while the process runs; that a file operation fails
\* is never needed for it.
FairArchive == ArchiveSpec /\ WF_archiveVars(Queue)

-----------------------------------------------------------------------------
(* Properties. *)

\* The state is well formed; an archive row in the queue or the file is local.
TypeOK ==
  /\ remote \in BOOLEAN /\ unfit \subseteq Messages /\ sessionFile \in BOOLEAN /\ changed \in BOOLEAN
  /\ \A row \in Rows(transcript) \cup Rows(pendingEntries) \cup Rows(draft) :
       row.kind \in {"message", "archive", "meta"} /\ row.id \in Messages \cup Metas
  /\ \A op \in Rows(queue) : op.op \in {"append", "remove"}
  /\ appending \in [Messages -> {"new", "rows", "session", "over", "lost"}]
  /\ entries \subseteq Messages /\ removed \subseteq Messages
  /\ place \in {"idle", "copy", "swap"} /\ attempt \in 0 .. MaxAttempts - 1
  /\ place # "idle" => Removing

\* Retracting twice, retrying and restoring leave one row per message, itself or
\* its archive; and a message that was captured and whose removal has ended does
\* not come back: neither a suspended appendEntry nor a waiting entry, a stale
\* copy, the fallback or a restart puts its row into the transcript again
\* (retractions.py:138-153, retraction_storage.js:94-132).
StaysRemoved ==
  /\ \A j, k \in DOMAIN transcript : transcript[j].id = transcript[k].id => j = k
  /\ \A u \in removed :
       /\ Message(u) \notin Rows(transcript) \cup Rows(pendingEntries)
       /\ Op("append", Message(u)) \notin Rows(queue)

\* A step appends one row, or it is the removal at the head of the queue and
\* leaves every other row, in its order: no append that ran into the copying
\* is lost (retraction_storage.js:115-131).
OthersUntouched ==
  [][LET own == {Message(Target), Archive(Target)}
     IN  \/ IsPrefix(transcript, transcript') /\ Len(transcript') <= Len(transcript) + 1
         \/ Removing /\ Without(transcript', own) = Without(transcript, own)]_transcript

\* A message turns into its archive where it stands
\* (retraction_storage.js:92-103).
ArchivedInPlace ==
  [][\A u \in Messages :
       Message(u) \in Rows(transcript) /\ Archive(u) \in Rows(transcript') =>
         Ids(transcript') = Ids(transcript)]_transcript

\* However often others write to the transcript meanwhile, the writes behind a
\* removal are done (retraction_storage.js:143-147, retractions.py:125-127).
Drained == queue # <<>> ~> queue = <<>>
=============================================================================
