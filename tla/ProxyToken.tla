----------------------------- MODULE ProxyToken -----------------------------
(***************************************************************************)
(* loadOrCreateProxyToken (proxy/bin/proxy-auth.js), run at the same time  *)
(* by the proxy service and by the launchers' cc-openai-proxy-auth         *)
(* helpers, on a file system with a cache: a process may be killed between *)
(* two system calls, any of which may fail, and the machine may lose power.*)
(*                                                                         *)
(* A run draws its token at random, so a token is named by the run that    *)
(* drew it, and so is the file that run writes.  A restart is another run. *)
(* The token file is only ever made by this code: nobody deletes or edits  *)
(* it.  SyncNothing, PublishByRename and SyncDirectoryNot are faulty       *)
(* variants, used by no specification: the properties notice them.         *)
(***************************************************************************)
EXTENDS Naturals

CONSTANTS
  Runs,      \* runs of the proxy and of the helper
  NoRun,     \* no file, no token
  MaxLosses  \* bound, for TLC: losses of power

ASSUME RunsAssumption == NoRun \notin Runs /\ MaxLosses \in Nat

VARIABLES
  pc,
  file,        \* contents of the file each run writes, as a reader sees them
  flushed,     \* files whose contents are on the disk
  temporary,   \* runs whose temporary name exists
  entry,       \* the file `path` names
  committed,   \* the file `path` names on the disk
  handle,      \* the file a run has opened for reading
  token,       \* what loadOrCreateProxyToken is about to return
  created,     \* history: tokens their creators have returned
  losses

tokenVars == <<pc, file, flushed, temporary, entry, committed, handle, token, created, losses>>

Looking == {"look", "read"}
Creating == {"create", "write", "sync", "link", "syncdir", "relook", "reread"}
Running == {"parent"} \cup Looking \cup Creating \cup {"unlink"}
Ended == {"done", "failed", "dead"}

TokenInit ==
  /\ pc = [r \in Runs |-> "parent"]
  /\ file = [r \in Runs |-> "absent"]
  /\ flushed = {} /\ temporary = {} /\ created = {}
  /\ entry = NoRun /\ committed = NoRun
  /\ handle = [r \in Runs |-> NoRun]
  /\ token = [r \in Runs |-> NoRun]
  /\ losses = 0

Goto(r, place) == pc' = [pc EXCEPT ![r] = place]

\* The run starts: ensureSecureParent.
SecureParent(r) ==
  /\ pc[r] = "parent"
  /\ Goto(r, "look")
  /\ UNCHANGED <<file, flushed, temporary, entry, committed, handle, token, created, losses>>

\* readSecureToken opens the file.  Without one, the first call leads to
\* createSecureToken and a call made there fails.
OpenToken(r) ==
  /\ pc[r] \in {"look", "relook"}
  /\ handle' = [handle EXCEPT ![r] = entry]
  /\ Goto(r, CASE pc[r] = "look" /\ entry # NoRun -> "read"
               [] pc[r] = "look" /\ entry = NoRun -> "create"
               [] pc[r] = "relook" /\ entry # NoRun -> "reread"
               [] OTHER -> "unlink")
  /\ UNCHANGED <<file, flushed, temporary, entry, committed, token, created, losses>>

\* readSecureToken reads it: a torn file is malformed.
ReadToken(r) ==
  /\ pc[r] \in {"read", "reread"}
  /\ LET complete == file[handle[r]] = "token" IN
     /\ token' = [token EXCEPT ![r] = IF complete THEN handle[r] ELSE NoRun]
     /\ Goto(r, IF pc[r] = "reread" THEN "unlink" ELSE IF complete THEN "done" ELSE "failed")
  /\ UNCHANGED <<file, flushed, temporary, entry, committed, handle, created, losses>>

\* createSecureToken, one system call after the other.
OpenTemporary(r) ==
  /\ pc[r] = "create"
  /\ Goto(r, "write")
  /\ file' = [file EXCEPT ![r] = "torn"]
  /\ temporary' = temporary \cup {r}
  /\ UNCHANGED <<flushed, entry, committed, handle, token, created, losses>>

WriteTemporary(r) ==
  /\ pc[r] = "write"
  /\ Goto(r, "sync")
  /\ file' = [file EXCEPT ![r] = "token"]
  /\ UNCHANGED <<flushed, temporary, entry, committed, handle, token, created, losses>>

SyncNothing(r) ==
  /\ pc[r] = "sync"
  /\ Goto(r, "link")
  /\ UNCHANGED <<file, flushed, temporary, entry, committed, handle, token, created, losses>>

SyncTemporary(r) ==
  /\ pc[r] = "sync"
  /\ Goto(r, "link")
  /\ flushed' = flushed \cup {r}
  /\ UNCHANGED <<file, temporary, entry, committed, handle, token, created, losses>>

PublishByRename(r) ==
  /\ pc[r] = "link"
  /\ entry' = r
  /\ Goto(r, "syncdir")
  /\ UNCHANGED <<file, flushed, temporary, committed, handle, token, created, losses>>

\* link never replaces a file: the second to come reads the first one's.
Publish(r) ==
  /\ pc[r] = "link"
  /\ IF entry = NoRun THEN entry' = r /\ Goto(r, "syncdir")
                      ELSE UNCHANGED entry /\ Goto(r, "relook")
  /\ UNCHANGED <<file, flushed, temporary, committed, handle, token, created, losses>>

SyncDirectoryNot(r) ==
  /\ pc[r] = "syncdir"
  /\ Goto(r, "unlink")
  /\ token' = [token EXCEPT ![r] = r]
  /\ UNCHANGED <<file, flushed, temporary, entry, committed, handle, created, losses>>

SyncDirectory(r) ==
  /\ pc[r] = "syncdir"
  /\ Goto(r, "unlink")
  /\ committed' = entry
  /\ token' = [token EXCEPT ![r] = r]
  /\ UNCHANGED <<file, flushed, temporary, entry, handle, created, losses>>

\* The finally block; then the call returns or throws.
Unlink(r) ==
  /\ pc[r] = "unlink"
  /\ temporary' = temporary \ {r}
  /\ Goto(r, IF token[r] # NoRun THEN "done" ELSE "failed")
  /\ created' = created \cup {q \in {r} : token[r] = q}
  /\ UNCHANGED <<file, flushed, entry, committed, handle, token, losses>>

\* A system call fails: inside createSecureToken the finally block still runs;
\* when it is the unlink that fails, the token is not returned.
Fail(r) ==
  /\ pc[r] \in Running
  /\ Goto(r, IF pc[r] \in Creating THEN "unlink" ELSE "failed")
  /\ token' = [token EXCEPT ![r] = NoRun]
  /\ UNCHANGED <<file, flushed, temporary, entry, committed, handle, created, losses>>

\* The process is killed.
KillRun(r) ==
  /\ pc[r] \in Running
  /\ Goto(r, "dead")
  /\ UNCHANGED <<file, flushed, temporary, entry, committed, handle, token, created, losses>>

\* Power is lost: every run that has begun ends, cached data and names may be on
\* the disk or not.
LosePower ==
  /\ losses < MaxLosses
  /\ losses' = losses + 1
  /\ pc' = [r \in Runs |-> IF pc[r] = "parent" THEN "parent" ELSE "dead"]
  /\ \E lost \in SUBSET (Runs \ flushed) :
       file' = [r \in Runs |-> IF r \in lost /\ file[r] = "token" THEN "torn" ELSE file[r]]
  /\ entry' \in {entry, committed}
  /\ committed' = entry'
  /\ flushed' = {r \in Runs : file[r] # "absent"}
  /\ UNCHANGED <<temporary, handle, token, created>>

RunStep(r) ==
  \/ SecureParent(r) \/ OpenToken(r) \/ ReadToken(r) \/ OpenTemporary(r)
  \/ WriteTemporary(r) \/ SyncTemporary(r) \/ Publish(r) \/ SyncDirectory(r)
  \/ Unlink(r) \/ Fail(r) \/ KillRun(r)
TokenNext == LosePower \/ \E r \in Runs : RunStep(r)
TokenSpec == TokenInit /\ [][TokenNext]_tokenVars

-----------------------------------------------------------------------------
(***************************************************************************)
(* Properties.                                                             *)
(***************************************************************************)
TypeOK ==
  /\ pc \in [Runs -> Running \cup Ended]
  /\ file \in [Runs -> {"absent", "torn", "token"}]
  /\ flushed \in SUBSET Runs /\ temporary \in SUBSET Runs /\ created \in SUBSET Runs
  /\ entry \in Runs \cup {NoRun} /\ committed \in Runs \cup {NoRun}
  /\ handle \in [Runs -> Runs \cup {NoRun}]
  /\ token \in [Runs -> Runs \cup {NoRun}]
  /\ losses \in Nat
  \* A run that reads has a file open.
  /\ \A r \in Runs : pc[r] \in {"read", "reread"} => handle[r] \in Runs

\* The proxy and every launcher that got a token got the same one, however their
\* first runs interleave, fail or are killed.
Agreement ==
  \A r, q \in Runs : pc[r] = "done" /\ pc[q] = "done" => token[r] = token[q]

\* No run ever finds an empty or torn token file, even after a loss of power
\* between the writing and the naming of a file.
PublishedComplete == entry # NoRun => file[entry] = "token"

\* A token its creator has returned is the token for good, whatever power losses
\* and later creators come.
CreatedSurvives == \A r \in created : entry = r

-----------------------------------------------------------------------------
\* The file behaves like a store that is set once.
Store == INSTANCE TokenStore WITH
  Tokens <- Runs, NoToken <- NoRun, value <- entry,
  answer <- [r \in Runs |-> IF pc[r] = "done" THEN token[r] ELSE NoRun]
ImplementsStore == Store!Spec
=============================================================================
