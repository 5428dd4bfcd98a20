----------------------------- MODULE FileProofs -----------------------------
(***************************************************************************)
(* What two programs promise of a file they write for others.  The token   *)
(* of ProxyToken, for any number of runs and of power losses.  The output  *)
(* of ApplyCommand, for any executables, --version texts and number of     *)
(* runs: that it is replaced whole or left alone, and, of an executable    *)
(* that was verified, that the loader finds what it goes by, that the      *)
(* graph of its blob is the one that was read, and that its source carries *)
(* every admitted set whole and nothing of another; and that a run refuses *)
(* only for a cause.  These rest on lemmas about the blob (the parser      *)
(* takes back what the writer lays out), about the two containers, about   *)
(* sources that are cut and put together, and on those of PatchProofs      *)
(* about the patch engine.                                                 *)
(***************************************************************************)
EXTENDS ProxyToken, PatchProofs


\* The file a run writes has no name but its temporary one before the link.
Unpublished == {"parent", "look", "read", "create", "write", "sync", "link", "relook", "reread"}

\* What a run has established when it is at `place`.
RunInv(r) ==
  /\ pc[r] \in Unpublished => entry # r /\ token[r] = NoRun
  /\ pc[r] \in {"sync", "link"} => file[r] = "token"
  /\ pc[r] = "link" => r \in flushed
  /\ pc[r] = "syncdir" => entry = r /\ token[r] = NoRun
  /\ pc[r] \in {"read", "reread"} => handle[r] = entry
  /\ pc[r] \in {"unlink", "done"} /\ token[r] # NoRun => token[r] = entry
  /\ pc[r] = "done" => token[r] # NoRun
  /\ pc[r] = "unlink" /\ token[r] = r => committed = r

\* The named file is complete on the disk, the disk names it or nothing, and a
\* returned token of a creator is named by the disk.
DiskInv ==
  /\ entry # NoRun => file[entry] = "token" /\ entry \in flushed
  /\ committed \in {NoRun, entry}
  /\ \A r \in created : committed = r

Inv == TypeOK /\ DiskInv /\ \A r \in Runs : RunInv(r)

LEMMA InitInv == TokenInit => Inv
BY RunsAssumption DEF TokenInit, Inv, TypeOK, DiskInv, RunInv, Unpublished, Running, Looking,
   Creating, Ended

\* A system call of one run.
LEMMA RunStepInv ==
  ASSUME Inv, NEW r \in Runs, RunStep(r)
  PROVE  Inv'
<1> USE RunsAssumption DEF Goto
<1>0. TypeOK /\ DiskInv /\ RunInv(r) /\ \A q \in Runs : RunInv(q)
  BY DEF Inv
<1>1. TypeOK'
  BY <1>0 DEF TypeOK, RunStep, SecureParent, OpenToken, ReadToken, OpenTemporary, WriteTemporary,
     SyncTemporary, Publish, SyncDirectory, Unlink, Fail, KillRun, Running, Looking, Creating, Ended
<1>2. CASE SecureParent(r) \/ OpenToken(r) \/ ReadToken(r)
  BY <1>0, <1>1, <1>2 DEF SecureParent, OpenToken, ReadToken, TypeOK, Inv, DiskInv, RunInv,
     Unpublished
<1>3. CASE OpenTemporary(r) \/ WriteTemporary(r) \/ SyncTemporary(r)
  BY <1>0, <1>1, <1>3 DEF OpenTemporary, WriteTemporary, SyncTemporary, TypeOK, Inv, DiskInv,
     RunInv, Unpublished
<1>4. CASE Publish(r) \/ SyncDirectory(r)
  BY <1>0, <1>1, <1>4 DEF Publish, SyncDirectory, TypeOK, Inv, DiskInv, RunInv, Unpublished
<1>5. CASE Unlink(r) \/ Fail(r) \/ KillRun(r)
  BY <1>0, <1>1, <1>5 DEF Unlink, Fail, KillRun, TypeOK, Inv, DiskInv, RunInv, Unpublished, Running,
     Looking, Creating
<1>6. QED
  BY <1>2, <1>3, <1>4, <1>5 DEF RunStep

\* A loss of power.
LEMMA LosePowerInv ==
  ASSUME Inv, LosePower
  PROVE  Inv'
<1>1. TypeOK /\ DiskInv /\ \A q \in Runs : RunInv(q)
  BY DEF Inv
<1>2. TypeOK'
  BY <1>1, RunsAssumption DEF TypeOK, LosePower, Running, Looking, Creating, Ended
<1>3. DiskInv'
  BY <1>1, RunsAssumption DEF TypeOK, DiskInv, LosePower
<1>4. \A q \in Runs : RunInv(q)'
  BY <1>1, RunsAssumption DEF TypeOK, DiskInv, RunInv, Unpublished, LosePower
<1>5. QED
  BY <1>2, <1>3, <1>4 DEF Inv

LEMMA Invariant == TokenSpec => []Inv
<1>1. Inv /\ UNCHANGED tokenVars => Inv'
  BY DEF Inv, TypeOK, DiskInv, RunInv, tokenVars
<1>2. Inv /\ [TokenNext]_tokenVars => Inv'
  BY <1>1, RunStepInv, LosePowerInv DEF TokenNext
<1>3. QED
  BY <1>2, InitInv, PTL DEF TokenSpec

\* However many processes create the token at once, and whatever fails, all that
\* return one return the same.
THEOREM AgreementHolds == TokenSpec => []Agreement
<1>1. Inv => Agreement
  BY DEF Inv, RunInv, Agreement
<1>2. QED
  BY <1>1, Invariant, PTL

\* The token file is complete from the moment it has its name.
THEOREM PublishedCompleteHolds == TokenSpec => []PublishedComplete
<1>1. Inv => PublishedComplete
  BY DEF Inv, DiskInv, PublishedComplete
<1>2. QED
  BY <1>1, Invariant, PTL

\* The token a creator has returned is never lost nor replaced.
THEOREM CreatedSurvivesHolds == TokenSpec => []CreatedSurvives
<1>1. ASSUME Inv, NEW r \in created PROVE entry = r
  <2>1. r \in Runs /\ r # NoRun
    BY <1>1, RunsAssumption DEF Inv, TypeOK
  <2>2. committed = r /\ committed \in {NoRun, entry}
    BY <1>1 DEF Inv, DiskInv
  <2>3. QED
    BY <2>1, <2>2
<1>2. Inv => CreatedSurvives
  BY <1>1 DEF CreatedSurvives
<1>3. QED
  BY <1>2, Invariant, PTL

\* Every step of proxy-auth.js is a step of the store that is set once.
THEOREM StoreImplemented == TokenSpec => ImplementsStore
<1> DEFINE answers == [r \in Runs |-> IF pc[r] = "done" THEN token[r] ELSE NoRun]
<1>1. TokenInit => Store!Init
  BY DEF TokenInit, Store!Init
<1>2. ASSUME Inv, Inv', [TokenNext]_tokenVars
      PROVE  [Store!Next]_<<entry, answers>>
  <2>0. TypeOK /\ DiskInv /\ \A q \in Runs : RunInv(q)
    BY <1>2 DEF Inv
  <2>1. CASE LosePower
    <3>1. entry' \in {entry, NoRun}
      BY <2>0, <2>1 DEF LosePower, DiskInv
    <3>2. answers' = [r \in Runs |-> NoRun]
      BY <2>1 DEF LosePower
    <3>3. QED
      BY <3>1, <3>2 DEF Store!Next, Store!LosePower
  <2>2. ASSUME NEW r \in Runs, RunStep(r)
        PROVE  [Store!Next]_<<entry, answers>>
    <3>1. CASE pc'[r] = "done" /\ pc[r] # "done"
      <4>1. /\ UNCHANGED entry /\ pc[r] \in {"read", "reread", "unlink"}
            /\ pc' = [pc EXCEPT ![r] = "done"]
            /\ \A q \in Runs \ {r} : token'[q] = token[q]
        BY <2>0, <2>2, <3>1 DEF TypeOK, RunStep, Goto, SecureParent, OpenToken, ReadToken,
           OpenTemporary, WriteTemporary, SyncTemporary, Publish, SyncDirectory, Unlink, Fail, KillRun
      <4>2. token'[r] = entry /\ entry # NoRun
        <5>1. RunInv(r)'
          BY <1>2 DEF Inv
        <5>2. token'[r] # NoRun /\ token'[r] = entry'
          BY <5>1, <3>1 DEF RunInv
        <5>3. QED
          BY <5>2, <4>1
      <4>3. answers[r] = NoRun /\ answers' = [answers EXCEPT ![r] = entry]
        BY <2>0, <4>1, <4>2 DEF TypeOK
      <4>4. QED
        BY <4>1, <4>2, <4>3 DEF Store!Next, Store!Give
    <3>2. CASE ~(pc'[r] = "done" /\ pc[r] # "done")
      <4>1. answers' = answers
        BY <2>0, <2>2, <3>2 DEF TypeOK, RunStep, Goto, SecureParent, OpenToken, ReadToken,
           OpenTemporary, WriteTemporary, SyncTemporary, Publish, SyncDirectory, Unlink, Fail,
           KillRun, Running, Looking, Creating
      <4>2. UNCHANGED entry \/ (entry = NoRun /\ entry' \in Runs)
        BY <2>2 DEF RunStep, SecureParent, OpenToken, ReadToken, OpenTemporary, WriteTemporary,
           SyncTemporary, Publish, SyncDirectory, Unlink, Fail, KillRun
      <4>3. QED
        BY <4>1, <4>2 DEF Store!Next, Store!Establish
    <3>3. QED
      BY <3>1, <3>2
  <2>3. CASE UNCHANGED tokenVars
    BY <2>3 DEF tokenVars
  <2>4. QED
    BY <1>2, <2>1, <2>2, <2>3 DEF TokenNext
<1>3. QED
  BY <1>1, <1>2, Invariant, PTL DEF TokenSpec, ImplementsStore, Store!Spec

-----------------------------------------------------------------------------
(* ccpatch apply.                                                          *)

Paths == {"in", "out"}
\* Steps at which the output has not been touched.
Preparing == {"patching", "verifying", "staging", "version", "help", "publishing"}
\* Steps that a requested smoke test has come before.
Publishing == {"publishing", "writing", "chmod"}
Steps == Preparing \cup Publishing \cup {"idle", "ended"}

CommandInv ==
  /\ step \in Steps
  /\ DOMAIN disk = Paths
  /\ DOMAIN cmd = DOMAIN NoCommand
  /\ cmd.out \in Paths

\* The output at each step of a run.
OutputInv ==
  /\ step \in Preparing => disk[cmd.out] = cmd.before
  /\ step \in Publishing => (cmd.smoke => tested)
  /\ step = "writing" => disk[cmd.out] = Partial(cmd.before.exec)
  /\ step = "chmod" => disk[cmd.out] = Whole(built, cmd.before.exec)

ApplyInv == CommandInv /\ OutputInv /\ OutputKept

LEMMA CommandFields ==
  DOMAIN NoCommand = {"version", "release", "sound", "zero", "smoke", "out", "before"}
BY DEF NoCommand

LEMMA SetExec ==
  ASSUME NEW whole, NEW image, NEW exec, NEW to
  PROVE  [[whole |-> whole, file |-> image, exec |-> exec] EXCEPT !.exec = to]
           = [whole |-> whole, file |-> image, exec |-> to]
OBVIOUS

LEMMA MadeExecutable ==
  ASSUME NEW image, NEW exec
  PROVE  [Whole(image, exec) EXCEPT !.exec = TRUE] = Whole(image, TRUE)
<1> DEFINE yes == TRUE
<1>1. [[whole |-> yes, file |-> image, exec |-> exec] EXCEPT !.exec = yes]
        = [whole |-> yes, file |-> image, exec |-> yes]
  <2> HIDE DEF yes
  <2>1. QED
    BY SetExec
<1>2. QED
  BY <1>1 DEF Whole

LEMMA ApplyInitInv == Init => ApplyInv
<1> SUFFICES ASSUME Init PROVE ApplyInv
  OBVIOUS
<1>1. step = "idle" /\ DOMAIN disk = Paths
  BY DEF Init, Paths
<1>2. PICK b \in Binaries : cmd = [NoCommand EXCEPT !.release = b.version, !.sound = b.sound]
  BY DEF Init
<1>3. DOMAIN cmd = DOMAIN NoCommand /\ cmd.out = "out"
  BY <1>2 DEF NoCommand
<1>4. QED
  BY <1>1, <1>3 DEF ApplyInv, CommandInv, OutputInv, OutputKept, Steps, Preparing, Publishing, Paths

\* A run that ends before it publishes leaves the output as it was.
LEMMA EndsEarly ==
  ASSUME ApplyInv, NEW how \in {"error", "traceback", "killed"}, End(how),
         UNCHANGED <<disk, cmd>>, disk[cmd.out] = cmd.before
  PROVE  ApplyInv'
BY DEF ApplyInv, CommandInv, OutputInv, OutputKept, End, Steps, Preparing, Publishing

\* A run that dies while it publishes.
LEMMA EndsLate ==
  ASSUME ApplyInv, step \in Publishing, NEW how \in {"traceback", "killed"}, End(how),
         UNCHANGED <<disk, cmd, built, tested>>
  PROVE  ApplyInv'
BY DEF ApplyInv, CommandInv, OutputInv, OutputKept, End, Steps, Preparing, Publishing

LEMMA StartInv ==
  ASSUME ApplyInv, NEW v, NEW zero, NEW smoke, NEW out \in Paths, Start(v, zero, smoke, out)
  PROVE  ApplyInv'
<1>1. DOMAIN cmd' = DOMAIN NoCommand /\ cmd'.out = out /\ cmd'.before = disk[out]
  BY CommandFields DEF ApplyInv, CommandInv, Start
<1>2. disk' = disk /\ DOMAIN disk = Paths
  BY DEF Start, ApplyInv, CommandInv
<1>3. \/ step' = "ended" /\ exit' \in {"traceback", "error"}
      \/ step' = "patching"
  BY DEF Start, End
<1>4. QED
  BY <1>1, <1>2, <1>3 DEF ApplyInv, CommandInv, OutputInv, OutputKept, Steps, Preparing, Publishing

\* The steps before the output is touched.
LEMMA PrepareInv ==
  ASSUME ApplyInv, ApplyNext \/ Rebuild \/ SignFails \/ Verify \/ Stage \/ Smoke \/ SmokeFails
  PROVE  ApplyInv'
<1>1. UNCHANGED <<disk, cmd>> /\ step \in Preparing \ {"publishing"}
  BY DEF ApplyNext, Rebuild, SignFails, Verify, Stage, Smoke, SmokeFails, Preparing
<1>2. disk[cmd.out] = cmd.before
  BY <1>1 DEF ApplyInv, OutputInv
<1>3. CASE \E how \in {"error", "traceback"} : End(how)
  BY <1>1, <1>2, <1>3, EndsEarly
<1>4. CASE step' \in Preparing \ {"publishing"}
  BY <1>1, <1>2, <1>4 DEF ApplyInv, CommandInv, OutputInv, OutputKept, Steps, Preparing, Publishing
<1>5. CASE Stage
  BY <1>1, <1>2, <1>5 DEF Stage, ApplyInv, CommandInv, OutputInv, OutputKept, Steps, Preparing, Publishing
<1>6. CASE Smoke
  BY <1>1, <1>2, <1>6 DEF Smoke, ApplyInv, CommandInv, OutputInv, OutputKept, Steps, Preparing, Publishing
<1>7. QED
  <2>1. CASE ApplyNext
    BY <2>1, <1>1, <1>3, <1>4 DEF ApplyNext, Preparing
  <2>2. CASE Rebuild
    BY <2>2, <1>3, <1>4 DEF Rebuild, Preparing
  <2>3. CASE SignFails \/ SmokeFails
    BY <2>3, <1>3 DEF SignFails, SmokeFails
  <2>4. CASE Verify
    BY <2>4, <1>3, <1>4 DEF Verify, Preparing
  <2>5. QED
    BY <1>5, <1>6, <2>1, <2>2, <2>3, <2>4

\* The steps that write the output.
LEMMA PublishInv ==
  ASSUME ApplyInv, Truncate \/ Write \/ Chmod
  PROVE  ApplyInv'
<1>1. cmd' = cmd /\ built' = built /\ tested' = tested
      /\ step \in Publishing /\ cmd.out \in DOMAIN disk
  BY DEF Truncate, Write, Chmod, Publishing, ApplyInv, CommandInv
<1>2. cmd.smoke => tested
  BY <1>1 DEF ApplyInv, OutputInv
<1>3. CASE Truncate
  <2>1. disk[cmd.out].exec = cmd.before.exec
    BY <1>3 DEF Truncate, ApplyInv, OutputInv, Preparing
  <2>2. disk'[cmd.out] = Partial(cmd.before.exec) /\ DOMAIN disk' = DOMAIN disk
    BY <1>1, <1>3, <2>1 DEF Truncate
  <2>3. QED
    BY <1>1, <1>2, <1>3, <2>2 DEF Truncate, ApplyInv, CommandInv, OutputInv, OutputKept, Steps, Preparing,
       Publishing
<1>4. CASE Write
  <2>1. disk[cmd.out].exec = cmd.before.exec
    BY <1>4 DEF Write, ApplyInv, OutputInv, Partial
  <2>2. disk'[cmd.out] = Whole(built, cmd.before.exec) /\ DOMAIN disk' = DOMAIN disk
    BY <1>1, <1>4, <2>1 DEF Write
  <2>3. QED
    BY <1>1, <1>2, <1>4, <2>2 DEF Write, ApplyInv, CommandInv, OutputInv, OutputKept, Steps, Preparing,
       Publishing
<1>5. CASE Chmod
  <2>1. disk'[cmd.out] = [disk[cmd.out] EXCEPT !.exec = TRUE] /\ DOMAIN disk' = DOMAIN disk
    BY <1>1, <1>5 DEF Chmod
  <2>2. disk'[cmd.out] = Whole(built, TRUE)
    <3>1. disk[cmd.out] = Whole(built, cmd.before.exec)
      BY <1>5 DEF Chmod, ApplyInv, OutputInv
    <3>2. QED
      BY <2>1, <3>1, MadeExecutable, Zenon
  <2>3. step' = "ended" /\ exit' = "ok"
    BY <1>5 DEF Chmod, End
  <2>4. QED
    BY <1>1, <2>1, <2>2, <2>3 DEF ApplyInv, CommandInv, OutputInv, OutputKept, Steps, Preparing, Publishing
<1>6. QED
  BY <1>3, <1>4, <1>5

\* Failures and kills.
LEMMA DieInv ==
  ASSUME ApplyInv, WriteFails \/ Kill
  PROVE  ApplyInv'
<1>1. UNCHANGED <<disk, cmd, built, tested>>
  BY DEF WriteFails, Kill
<1>2. \E how \in {"traceback", "killed"} : End(how)
  BY DEF WriteFails, Kill
<1>3. step \in Preparing \/ step \in Publishing
  BY DEF WriteFails, Kill, ApplyInv, CommandInv, Steps, Preparing, Publishing
<1>4. CASE step \in Preparing
  <2>1. disk[cmd.out] = cmd.before
    BY <1>4 DEF ApplyInv, OutputInv
  <2>2. QED
    BY <1>1, <1>2, <2>1, EndsEarly
<1>5. CASE step \in Publishing
  BY <1>1, <1>2, <1>5, EndsLate
<1>6. QED
  BY <1>3, <1>4, <1>5

LEMMA ApplyNextInv == ApplyInv /\ [Next]_vars => ApplyInv'
<1> SUFFICES ASSUME ApplyInv, [Next]_vars PROVE ApplyInv'
  OBVIOUS
<1>1. CASE \E v \in VersionTexts \cup {cmd.release}, zero, smoke \in BOOLEAN, out \in Paths :
             Start(v, zero, smoke, out)
  BY <1>1, StartInv
<1>2. CASE ApplyNext \/ Rebuild \/ SignFails \/ Verify \/ Stage \/ Smoke \/ SmokeFails
  BY <1>2, PrepareInv
<1>3. CASE Truncate \/ Write \/ Chmod
  BY <1>3, PublishInv
<1>4. CASE WriteFails \/ Kill
  BY <1>4, DieInv
<1>5. CASE Again
  BY <1>5 DEF Again, ApplyInv, CommandInv, OutputInv, OutputKept, Steps, Preparing, Publishing
<1>6. CASE UNCHANGED vars
  BY <1>6 DEF vars, ApplyInv, CommandInv, OutputInv, OutputKept
<1>7. QED
  BY <1>1, <1>2, <1>3, <1>4, <1>5, <1>6 DEF Next, Paths

\* ccpatch apply replaces its output by the executable it verified (and tested,
\* if asked), or leaves it alone; only a run that dies while it writes leaves a
\* part (run_apply and _cmd_apply).
THEOREM OutputKeptHolds == Spec => []OutputKept
<1>1. ApplyInv => OutputKept
  BY DEF ApplyInv
<1>2. QED
  BY <1>1, ApplyInitInv, ApplyNextInv, PTL DEF Spec
-----------------------------------------------------------------------------
(* Where strings lie. *)

Per == {4, 6}

\* A string is placed no earlier than the cursor.
LEMMA PlaceIs ==
  ASSUME NEW k \in Nat \ {0}, NEW s, NEW per \in Per, NEW cur \in Nat
  PROVE  PlaceString(k, s, per, cur) \in Nat /\ PlaceString(k, s, per, cur) >= cur
<1>1. (120 - cur) % 128 \in Nat /\ (-cur) % 4 \in Nat
  OBVIOUS
<1>2. \/ PlaceString(k, s, per, cur) = cur + ((120 - cur) % 128)
      \/ PlaceString(k, s, per, cur) = cur + ((-cur) % 4)
      \/ PlaceString(k, s, per, cur) = cur
  BY DEF PlaceString
<1>3. QED
  BY <1>1, <1>2

IsEnds(e, n, strings, per, first) ==
  e = [k \in 0..n |->
         IF k = 0 THEN first
         ELSE PlaceString(k, strings[k], per, e[k - 1]) + strings[k].size + 1]

\* The recursion of Ends has a solution.
LEMMA EndsExist ==
  ASSUME NEW strings, NEW per, NEW first, NEW n \in Nat
  PROVE  \E e : IsEnds(e, n, strings, per, first)
<1> DEFINE T == {m \in 0..n : \E e : IsEnds(e, m, strings, per, first)}
           Value(e, k) == PlaceString(k, strings[k], per, e[k - 1]) + strings[k].size + 1
<1>1. 0 \in T
  <2> DEFINE e == [k \in 0..0 |-> first]
  <2>1. IsEnds(e, 0, strings, per, first)
    BY DEF IsEnds
  <2>2. QED
    BY <2>1
<1>2. ASSUME NEW m \in 1..n, m - 1 \in T PROVE m \in T
  <2>1. PICK e : IsEnds(e, m - 1, strings, per, first)
    BY <1>2
  <2> DEFINE f == [k \in 0..m |-> IF k = m THEN Value(e, m) ELSE e[k]]
  <2>2. \A k \in 0..m - 1 : f[k] = e[k]
    OBVIOUS
  <2>3. \A k \in 0..m - 1 : k # 0 => k - 1 \in 0..m - 1
    OBVIOUS
  <2>4. \A k \in 0..m - 1 : f[k] = IF k = 0 THEN first ELSE Value(e, k)
    BY <2>1, <2>2 DEF IsEnds
  <2>5. f[m] = Value(e, m) /\ m # 0 /\ f[m - 1] = e[m - 1]
    BY <2>2
  <2>6. ASSUME NEW k \in 0..m PROVE f[k] = IF k = 0 THEN first ELSE Value(f, k)
    <3> HIDE DEF f
    <3>1. CASE k = m
      BY <2>5, <3>1
    <3>2. CASE k # m
      <4>1. k \in 0..m - 1
        BY <3>2
      <4>2. CASE k = 0
        BY <2>4, <4>1, <4>2
      <4>3. CASE k # 0
        <5>1. f[k - 1] = e[k - 1]
          BY <2>2, <2>3, <4>1, <4>3
        <5>2. QED
          BY <2>4, <4>1, <4>3, <5>1
      <4>4. QED
        BY <4>2, <4>3
    <3>3. QED
      BY <3>1, <3>2
  <2>7. IsEnds(f, m, strings, per, first)
    <3>1. f = [k \in 0..m |-> f[k]]
      OBVIOUS
    <3> HIDE DEF f
    <3>2. QED
      BY <2>6, <3>1 DEF IsEnds
  <2>8. QED
    BY <2>7
<1> HIDE DEF T
<1>3. \A k \in 0..n : k \in T
  BY <1>1, <1>2, Stepwise
<1>4. QED
  BY <1>3 DEF T

\* How the ends of the strings follow from each other.
LEMMA EndsAre ==
  ASSUME NEW strings, Len(strings) \in Nat, NEW per, NEW first
  PROVE  /\ DOMAIN Ends(strings, per, first) = 0..Len(strings)
         /\ Ends(strings, per, first)[0] = first
         /\ \A k \in 1..Len(strings) :
              Ends(strings, per, first)[k] =
                PlaceString(k, strings[k], per, Ends(strings, per, first)[k - 1])
                  + strings[k].size + 1
<1> DEFINE after == Ends(strings, per, first)
           n == Len(strings)
<1>1. after = CHOOSE e : IsEnds(e, n, strings, per, first)
  BY Zenon DEF Ends, IsEnds
<1>2. \E e : IsEnds(e, n, strings, per, first)
  BY EndsExist
<1> HIDE DEF after, n
<1>3. IsEnds(after, n, strings, per, first)
  BY <1>1, <1>2
<1>4. /\ DOMAIN after = 0..n
      /\ \A k \in 0..n : after[k] =
           IF k = 0 THEN first
           ELSE PlaceString(k, strings[k], per, after[k - 1]) + strings[k].size + 1
  BY <1>3 DEF IsEnds
<1>5. n \in Nat
  BY DEF n
<1>6. 0 \in 0..n /\ \A k \in 1..n : k \in 0..n /\ k # 0
  BY <1>5
<1>7. after[0] = first
  BY <1>4, <1>6
<1>8. \A k \in 1..n : after[k] = PlaceString(k, strings[k], per, after[k - 1]) + strings[k].size + 1
  BY <1>4, <1>6
<1>9. QED
  BY <1>4, <1>7, <1>8 DEF after, n

Sized(strings) ==
  /\ Len(strings) \in Nat /\ DOMAIN strings = 1..Len(strings)
  /\ \A k \in DOMAIN strings : strings[k].size \in Nat

\* Every string ends at a natural number.
LEMMA EndsNat ==
  ASSUME NEW strings, Sized(strings), NEW per \in Per, NEW first \in Nat
  PROVE  \A k \in 0..Len(strings) : Ends(strings, per, first)[k] \in Nat
<1> DEFINE after == Ends(strings, per, first)
           n == Len(strings)
           T == {k \in 0..n : after[k] \in Nat}
<1>1. n \in Nat /\ \A k \in 1..n : strings[k].size \in Nat
  BY DEF Sized
<1>2. /\ after[0] = first
      /\ \A k \in 1..n :
           after[k] = PlaceString(k, strings[k], per, after[k - 1]) + strings[k].size + 1
  BY <1>1, EndsAre
<1> HIDE DEF after, n
<1>3. 0 \in T
  BY <1>1, <1>2
<1>4. ASSUME NEW k \in 1..n, k - 1 \in T PROVE k \in T
  <2>1. PlaceString(k, strings[k], per, after[k - 1]) \in Nat
    BY <1>4, PlaceIs
  <2>2. k \in 0..n
    BY <1>1
  <2>3. QED
    BY <1>1, <1>2, <2>1, <2>2
<1> HIDE DEF T
<1>5. \A k \in 0..n : k \in T
  BY <1>1, <1>3, <1>4, Stepwise
<1>6. QED
  BY <1>5 DEF T, after, n

\* A string starts where the one before it has ended, or later.
LEMMA EndsStep ==
  ASSUME NEW strings, Sized(strings), NEW per \in Per, NEW first \in Nat,
         NEW k \in 1..Len(strings)
  PROVE  LET after == Ends(strings, per, first)
             start == PlaceString(k, strings[k], per, after[k - 1])
         IN /\ start \in Nat /\ after[k - 1] \in Nat /\ after[k - 1] <= start
            /\ after[k] = start + strings[k].size + 1
<1> DEFINE after == Ends(strings, per, first)
           start == PlaceString(k, strings[k], per, after[k - 1])
<1>1. Len(strings) \in Nat
  BY DEF Sized
<1>2. k - 1 \in 0..Len(strings) /\ k \in Nat \ {0}
  BY <1>1
<1>3. after[k - 1] \in Nat
  BY <1>2, EndsNat
<1>4. start \in Nat /\ start >= after[k - 1]
  BY <1>2, <1>3, PlaceIs
<1>5. after[k] = start + strings[k].size + 1
  BY <1>1, EndsAre
<1> HIDE DEF after, start
<1>6. QED
  BY <1>3, <1>4, <1>5 DEF after, start

\* The ends of the strings grow.
LEMMA EndsGrow ==
  ASSUME NEW strings, Sized(strings), NEW per \in Per, NEW first \in Nat,
         NEW j \in 0..Len(strings)
  PROVE  \A k \in 0..Len(strings) :
           j <= k => Ends(strings, per, first)[j] <= Ends(strings, per, first)[k]
<1> DEFINE after == Ends(strings, per, first)
           n == Len(strings)
           T == {k \in 0..n : j <= k => after[j] <= after[k]}
<1>1. n \in Nat /\ \A k \in 1..n : strings[k].size \in Nat
  BY DEF Sized
<1>2. \A k \in 0..n : after[k] \in Nat
  BY EndsNat
<1>3. ASSUME NEW k \in 1..n PROVE after[k - 1] <= after[k]
  <2> DEFINE start == PlaceString(k, strings[k], per, after[k - 1])
  <2>1. /\ start \in Nat /\ after[k - 1] \in Nat /\ after[k - 1] <= start
        /\ after[k] = start + strings[k].size + 1
    BY EndsStep
  <2> HIDE DEF start, after
  <2>2. QED
    BY <1>1, <2>1
<1> HIDE DEF after, n
<1>4. 0 \in T
  <2>1. 0 \in 0..n /\ j \in 0..n
    BY <1>1 DEF n
  <2>2. j <= 0 => j = 0
    BY <2>1
  <2>3. after[0] <= after[0]
    BY <1>2, <2>1
  <2>4. QED
    BY <2>1, <2>2, <2>3
<1>5. ASSUME NEW k \in 1..n, k - 1 \in T PROVE k \in T
  <2>1. k \in 0..n /\ k - 1 \in 0..n /\ j \in 0..n /\ j \in Nat
    BY <1>1 DEF n
  <2>2. after[k] \in Nat /\ after[k - 1] \in Nat /\ after[j] \in Nat /\ after[k - 1] <= after[k]
    BY <1>2, <1>3, <2>1
  <2>3. j <= k => j = k \/ j <= k - 1
    BY <2>1
  <2>4. j <= k - 1 => after[j] <= after[k - 1]
    BY <1>5
  <2>5. QED
    BY <2>1, <2>2, <2>3, <2>4
<1> HIDE DEF T
<1>6. \A k \in 0..n : k \in T
  BY <1>1, <1>4, <1>5, Stepwise
<1>7. QED
  BY <1>6 DEF T, after, n

\* Bytecode is placed so that it is aligned behind the length of the blob.
LEMMA PlaceAligned ==
  ASSUME NEW k \in Nat \ {0}, NEW s, s.size \in Nat \ {0}, NEW per \in Per, NEW cur \in Nat,
         (k - 1) % per = 3
  PROVE  (8 + PlaceString(k, s, per, cur)) % 128 = 0
<1>1. s.size > 0
  OBVIOUS
<1>2. PlaceString(k, s, per, cur) = cur + ((120 - cur) % 128)
  BY <1>1 DEF PlaceString
<1>3. (8 + (cur + ((120 - cur) % 128))) % 128 = 0
  OBVIOUS
<1>4. QED
  BY <1>2, <1>3

\* The pointers of the strings: no two meet, and none reaches the table.
LEMMA PointersAre ==
  ASSUME NEW strings, Sized(strings), NEW per \in Per, NEW first \in Nat
  PROVE  LET ptr == Pointers(strings, per, first)
             n == Len(strings)
         IN /\ DOMAIN ptr = 1..n
            /\ \A k \in 1..n :
                 /\ ptr[k].len = strings[k].size /\ ptr[k].off \in Nat
                 /\ ptr[k].off + strings[k].size < Ends(strings, per, first)[n]
                 /\ (k - 1) % per = 3 /\ strings[k].size > 0 => (8 + ptr[k].off) % 128 = 0
            /\ \A j, k \in 1..n : j < k => ptr[j].off + strings[j].size < ptr[k].off
<1> DEFINE after == Ends(strings, per, first)
           ptr == Pointers(strings, per, first)
           n == Len(strings)
           start(k) == PlaceString(k, strings[k], per, after[k - 1])
<1>1. n \in Nat /\ DOMAIN strings = 1..n /\ \A k \in 1..n : strings[k].size \in Nat
  BY DEF Sized
<1>2. ptr = [k \in 1..n |-> [off |-> start(k), len |-> strings[k].size]]
  BY <1>1 DEF Pointers
<1>3. DOMAIN ptr = 1..n /\ \A k \in 1..n : ptr[k].off = start(k) /\ ptr[k].len = strings[k].size
  BY <1>2
<1>4. \A k \in 1..n : /\ start(k) \in Nat /\ after[k - 1] \in Nat /\ after[k - 1] <= start(k)
                      /\ after[k] = start(k) + strings[k].size + 1
  BY EndsStep
<1>5. \A j, k \in 0..n : j <= k => after[j] <= after[k]
  BY EndsGrow
<1>6. \A k \in 0..n : after[k] \in Nat
  BY EndsNat
<1>7. ASSUME NEW k \in 1..n, (k - 1) % per = 3, strings[k].size > 0
      PROVE  (8 + start(k)) % 128 = 0
  <2>1. k \in Nat \ {0} /\ strings[k].size \in Nat \ {0} /\ after[k - 1] \in Nat
    BY <1>1, <1>4, <1>7
  <2> HIDE DEF after
  <2>2. QED
    BY <1>7, <2>1, PlaceAligned
<1> HIDE DEF after, start, n, ptr
<1>8. ASSUME NEW k \in 1..n PROVE start(k) + strings[k].size < after[n]
  <2>1. k \in 0..n /\ n \in 0..n /\ k <= n
    BY <1>1
  <2>2. after[k] <= after[n] /\ after[n] \in Nat
    BY <1>5, <1>6, <2>1
  <2>3. start(k) \in Nat /\ after[k] = start(k) + strings[k].size + 1 /\ strings[k].size \in Nat
    BY <1>1, <1>4
  <2>4. QED
    BY <2>2, <2>3
<1>9. ASSUME NEW j \in 1..n, NEW k \in 1..n, j < k PROVE start(j) + strings[j].size < start(k)
  <2>1. j \in 0..n /\ k - 1 \in 0..n /\ j <= k - 1
    BY <1>1, <1>9
  <2>2. after[j] <= after[k - 1]
    BY <1>5, <2>1
  <2>3. /\ start(j) \in Nat /\ after[j] = start(j) + strings[j].size + 1 /\ strings[j].size \in Nat
        /\ start(k) \in Nat /\ after[k - 1] \in Nat /\ after[k - 1] <= start(k)
    BY <1>1, <1>4
  <2>4. QED
    BY <2>2, <2>3
<1>10. \A k \in 1..n : /\ ptr[k].len = strings[k].size /\ ptr[k].off \in Nat
                       /\ ptr[k].off + strings[k].size < after[n]
                       /\ (k - 1) % per = 3 /\ strings[k].size > 0 => (8 + ptr[k].off) % 128 = 0
  BY <1>3, <1>4, <1>7, <1>8
<1>11. \A j, k \in 1..n : j < k => ptr[j].off + strings[j].size < ptr[k].off
  BY <1>3, <1>9
<1>12. QED
  BY <1>3, <1>10, <1>11 DEF after, n, ptr

\* What lies at the pointers.
LEMMA PlacedAre ==
  ASSUME NEW strings, Sized(strings), NEW per \in Per, NEW first \in Nat
  PROVE  LET ptr == Pointers(strings, per, first)
             bytes == Placed(strings, ptr)
         IN /\ \A k \in DOMAIN strings : strings[k].size > 0 =>
                 ptr[k].off \in DOMAIN bytes /\ bytes[ptr[k].off] = strings[k]
            /\ \A o \in DOMAIN bytes : \E k \in DOMAIN strings :
                 strings[k].size > 0 /\ o = ptr[k].off /\ bytes[o] = strings[k]
<1> DEFINE ptr == Pointers(strings, per, first)
           n == Len(strings)
           full == {k \in DOMAIN strings : strings[k].size > 0}
           bytes == Placed(strings, ptr)
           at(o) == CHOOSE k \in full : ptr[k].off = o
<1>1. n \in Nat /\ DOMAIN strings = 1..n /\ \A k \in 1..n : strings[k].size \in Nat
  BY DEF Sized
<1>2. /\ \A k \in 1..n : ptr[k].off \in Nat
      /\ \A j, k \in 1..n : j < k => ptr[j].off + strings[j].size < ptr[k].off
  BY PointersAre
<1>3. bytes = [o \in {ptr[k].off : k \in full} |-> strings[at(o)]]
  BY DEF Placed
<1>4. full \subseteq 1..n
  BY <1>1
<1> HIDE DEF ptr, bytes, n
<1>5. ASSUME NEW j \in 1..n, NEW k \in 1..n, ptr[j].off = ptr[k].off PROVE j = k
  <2>1. \A i, l \in 1..n : i < l => ptr[i].off < ptr[l].off
    BY <1>1, <1>2
  <2>2. ~ (j < k) /\ ~ (k < j)
    BY <1>2, <1>5, <2>1
  <2>3. QED
    BY <1>1, <2>2
<1>6. ASSUME NEW k \in full PROVE at(ptr[k].off) = k
  BY <1>4, <1>5
<1> HIDE DEF full, at
<1>7. \A k \in full : ptr[k].off \in DOMAIN bytes /\ bytes[ptr[k].off] = strings[k]
  BY <1>3, <1>6
<1>8. \A o \in DOMAIN bytes : \E k \in full : o = ptr[k].off /\ bytes[o] = strings[k]
  BY <1>3, <1>7
<1>9. QED
  BY <1>7, <1>8 DEF full, ptr, bytes

-----------------------------------------------------------------------------
(* The strings of a graph. *)

IsModule(m) ==
  m = [name |-> m.name, contents |-> m.contents, sourcemap |-> m.sourcemap,
       bytecode |-> m.bytecode, info |-> m.info, origin |-> m.origin, tail |-> m.tail]

\* What the parser returns.
IsGraph(g) ==
  /\ g = [entry |-> g.entry, flags |-> g.flags, argv |-> g.argv, structSize |-> g.structSize,
          modules |-> g.modules, records |-> g.records]
  /\ g.structSize \in {36, 52}
  /\ IsSequence(g.modules)
  /\ \A i \in 1..Len(g.modules) :
       /\ IsModule(g.modules[i])
       /\ g.structSize = 36 => g.modules[i].info = NoText /\ g.modules[i].origin = NoText
  /\ ~Extended(g.flags) => g.records = <<>>

\* How many strings a module has by the size of its row.
LEMMA StringsIs ==
  ASSUME NEW size \in {36, 52}
  PROVE  Strings(size) \in Per /\ (size = 36 <=> Strings(size) = 4) /\ (size = 52 <=> Strings(size) = 6)
BY DEF Strings, ModuleSize, Per

\* The j-th string of the i-th module.
LEMMA PlaceOf ==
  ASSUME NEW n \in Nat, NEW per \in Per
  PROVE  /\ per * n \in Nat
         /\ \A i \in 1..n, j \in 1..per :
              /\ per * (i - 1) + j \in 1..per * n
              /\ (((per * (i - 1) + j) - 1) \div per) + 1 = i
              /\ (((per * (i - 1) + j) - 1) % per) + 1 = j
         /\ \A k \in 1..per * n : \E i \in 1..n, j \in 1..per :
              k = per * (i - 1) + j /\ (k - 1) % per = j - 1
<1>1. CASE per = 4
  <2>1. \A i \in 1..n, j \in 1..4 :
              /\ 4 * (i - 1) + j \in 1..4 * n
              /\ (((4 * (i - 1) + j) - 1) \div 4) + 1 = i
              /\ (((4 * (i - 1) + j) - 1) % 4) + 1 = j
    OBVIOUS
  <2>2. ASSUME NEW k \in 1..4 * n
        PROVE  \E i \in 1..n, j \in 1..4 : k = 4 * (i - 1) + j /\ (k - 1) % 4 = j - 1
    <3> DEFINE i == ((k - 1) \div 4) + 1
               j == ((k - 1) % 4) + 1
    <3>1. i \in 1..n /\ j \in 1..4 /\ k = 4 * (i - 1) + j /\ (k - 1) % 4 = j - 1
      OBVIOUS
    <3> HIDE DEF i, j
    <3>2. QED
      BY <3>1
  <2>3. QED
    BY <1>1, <2>1, <2>2
<1>2. CASE per = 6
  <2>1. \A i \in 1..n, j \in 1..6 :
              /\ 6 * (i - 1) + j \in 1..6 * n
              /\ (((6 * (i - 1) + j) - 1) \div 6) + 1 = i
              /\ (((6 * (i - 1) + j) - 1) % 6) + 1 = j
    OBVIOUS
  <2>2. ASSUME NEW k \in 1..6 * n
        PROVE  \E i \in 1..n, j \in 1..6 : k = 6 * (i - 1) + j /\ (k - 1) % 6 = j - 1
    <3> DEFINE i == ((k - 1) \div 6) + 1
               j == ((k - 1) % 6) + 1
    <3>1. i \in 1..n /\ j \in 1..6 /\ k = 6 * (i - 1) + j /\ (k - 1) % 6 = j - 1
      OBVIOUS
    <3> HIDE DEF i, j
    <3>2. QED
      BY <3>1
  <2>3. QED
    BY <1>2, <2>1, <2>2
<1>3. QED
  BY <1>1, <1>2 DEF Per

\* The strings of a module by their place, and back.
LEMMA StringsOfIs ==
  ASSUME NEW m, NEW size \in {36, 52}
  PROVE  /\ StringsOf(m, size)[1] = m.name /\ StringsOf(m, size)[2] = m.contents
         /\ StringsOf(m, size)[3] = m.sourcemap /\ StringsOf(m, size)[4] = m.bytecode
         /\ size = 52 => StringsOf(m, size)[5] = m.info /\ StringsOf(m, size)[6] = m.origin
<1>1. CASE size = 36
  BY <1>1 DEF StringsOf, ModuleSize
<1>2. CASE size = 52
  BY <1>2 DEF StringsOf, ModuleSize
<1>3. QED
  BY <1>1, <1>2

\* The strings of a module are texts, and only the fourth is bytecode.
LEMMA StringsSound ==
  ASSUME NEW m, NEW size \in {36, 52}, SoundModule(m), NEW j \in 1..Strings(size)
  PROVE  /\ IsText(StringsOf(m, size)[j])
         /\ StringsOf(m, size)[j].is = "bytecode" => j = 4
<1> DEFINE text == StringsOf(m, size)[j]
<1>1. /\ size = 36 => j \in {1, 2, 3, 4}
      /\ size = 52 => j \in {1, 2, 3, 4, 5, 6}
  BY StringsIs
<1>2. j # 4 => text \in {m.name, m.contents, m.sourcemap, m.info, m.origin}
  <2>1. /\ StringsOf(m, size)[1] = m.name /\ StringsOf(m, size)[2] = m.contents
        /\ StringsOf(m, size)[3] = m.sourcemap
        /\ size = 52 => StringsOf(m, size)[5] = m.info /\ StringsOf(m, size)[6] = m.origin
    BY StringsOfIs
  <2>2. j # 4 => j \in {1, 2, 3} \/ (size = 52 /\ j \in {5, 6})
    BY <1>1
  <2>3. QED
    BY <2>1, <2>2
<1>3. j = 4 => text = m.bytecode
  BY StringsOfIs
<1> HIDE DEF text
<1>4. \A t \in {m.name, m.contents, m.sourcemap, m.info, m.origin} : IsText(t) /\ t.is # "bytecode"
  BY DEF SoundModule
<1>5. IsText(m.bytecode)
  BY DEF SoundModule
<1>6. IsText(text) /\ (text.is = "bytecode" => j = 4)
  BY <1>2, <1>3, <1>4, <1>5
<1>7. QED
  BY <1>6 DEF text

\* The strings of all modules by module and place.
LEMMA AllStringsAre ==
  ASSUME NEW g, IsGraph(g), SoundGraph(g)
  PROVE  LET strings == AllStrings(g)
             per == Strings(g.structSize)
         IN /\ Sized(strings) /\ Len(strings) = per * Len(g.modules)
            /\ \A i \in 1..Len(g.modules), j \in 1..per :
                 /\ per * (i - 1) + j \in 1..Len(strings)
                 /\ strings[per * (i - 1) + j] = StringsOf(g.modules[i], g.structSize)[j]
            /\ \A k \in 1..Len(strings) :
                 /\ IsText(strings[k])
                 /\ strings[k].is = "bytecode" => (k - 1) % per = 3
<1> DEFINE strings == AllStrings(g)
           per == Strings(g.structSize)
           n == Len(g.modules)
           Text(i, j) == StringsOf(g.modules[i], g.structSize)[j]
<1>1. per \in Per /\ n \in Nat /\ g.structSize \in {36, 52}
  BY StringsIs DEF IsGraph, IsSequence
<1>2. DOMAIN g.modules = 1..n
  BY DEF IsGraph, IsSequence
<1>3. strings = [k \in 1..per * n |-> Text(((k - 1) \div per) + 1, ((k - 1) % per) + 1)]
  BY DEF AllStrings
<1>4. \A i \in 1..n, j \in 1..per : IsText(Text(i, j)) /\ (Text(i, j).is = "bytecode" => j = 4)
  BY <1>1, <1>2, StringsSound DEF SoundGraph
<1> HIDE DEF strings, per, n, Text
<1>5. /\ per * n \in Nat
      /\ \A i \in 1..n, j \in 1..per :
           /\ per * (i - 1) + j \in 1..per * n
           /\ (((per * (i - 1) + j) - 1) \div per) + 1 = i
           /\ (((per * (i - 1) + j) - 1) % per) + 1 = j
      /\ \A k \in 1..per * n : \E i \in 1..n, j \in 1..per :
           k = per * (i - 1) + j /\ (k - 1) % per = j - 1
  BY Zenon, <1>1, PlaceOf
<1>6. Len(strings) = per * n /\ DOMAIN strings = 1..per * n
  BY <1>3, <1>5
<1>7. \A k \in 1..per * n : strings[k] = Text(((k - 1) \div per) + 1, ((k - 1) % per) + 1)
  BY <1>3
<1>8. ASSUME NEW i \in 1..n, NEW j \in 1..per
       PROVE  per * (i - 1) + j \in 1..per * n /\ strings[per * (i - 1) + j] = Text(i, j)
  <2>1. /\ per * (i - 1) + j \in 1..per * n
        /\ (((per * (i - 1) + j) - 1) \div per) + 1 = i
        /\ (((per * (i - 1) + j) - 1) % per) + 1 = j
    BY Zenon, <1>5
  <2>2. strings[per * (i - 1) + j]
          = Text((((per * (i - 1) + j) - 1) \div per) + 1, (((per * (i - 1) + j) - 1) % per) + 1)
    BY Zenon, <1>7, <2>1
  <2>3. QED
    BY Zenon, <2>1, <2>2
<1>9. ASSUME NEW k \in 1..per * n
      PROVE  \E i \in 1..n, j \in 1..per : strings[k] = Text(i, j) /\ (k - 1) % per = j - 1
  <2>1. PICK i \in 1..n, j \in 1..per : k = per * (i - 1) + j /\ (k - 1) % per = j - 1
    BY Zenon, <1>5
  <2>2. strings[k] = Text(i, j)
    BY Zenon, <1>8, <2>1
  <2>3. QED
    BY Zenon, <2>1, <2>2
<1>10. /\ Len(strings) = per * n /\ DOMAIN strings = 1..per * n /\ per * n \in Nat
       /\ \A i \in 1..n, j \in 1..per :
            per * (i - 1) + j \in 1..per * n /\ strings[per * (i - 1) + j] = Text(i, j)
       /\ \A k \in 1..per * n : \E i \in 1..n, j \in 1..per :
            strings[k] = Text(i, j) /\ (k - 1) % per = j - 1
  BY Zenon, <1>5, <1>6, <1>8, <1>9
<1>11. ASSUME NEW k \in 1..per * n
      PROVE  /\ IsText(strings[k])
             /\ strings[k].is = "bytecode" => (k - 1) % per = 3
  <2>1. PICK i \in 1..n, j \in 1..per : strings[k] = Text(i, j) /\ (k - 1) % per = j - 1
    BY Zenon, <1>9
  <2>2. j = 4 => j - 1 = 3
    OBVIOUS
  <2>3. QED
    BY <1>4, <2>1, <2>2
<1>12. Sized(strings)
  BY <1>10, <1>11 DEF Sized, IsText
<1>13. QED
  BY <1>10, <1>11, <1>12 DEF strings, per, n, Text

-----------------------------------------------------------------------------
(* A graph laid out and read again. *)

\* What a layout consists of.
LEMMA LayoutIs ==
  ASSUME NEW g, NEW first
  PROVE  LET image == Layout(g, first)
             per == Strings(g.structSize)
             strings == AllStrings(g)
             ptr == Pointers(strings, per, first)
             table == Ends(strings, per, first)[Len(strings)]
             records == table + Len(g.modules) * g.structSize
             argv == records + 4 * Len(g.records)
         IN /\ image.strings = Placed(strings, ptr)
            /\ image.table.off = table /\ image.table.rowSize = g.structSize
            /\ image.table.rows = [i \in DOMAIN g.modules |->
                                     [ptrs |-> SubSeq(ptr, per * (i - 1) + 1, per * i),
                                      tail |-> g.modules[i].tail]]
            /\ image.records.off = records /\ image.records.words = g.records
            /\ image.argv.off = argv /\ image.argv.text = g.argv
            /\ image.offsets.modules.off = table
            /\ image.offsets.modules.len = Len(g.modules) * g.structSize
            /\ image.offsets.entry = g.entry /\ image.offsets.flags = g.flags
            /\ image.offsets.argv.off = argv
            /\ image.size = argv + g.argv.size + 1 + SizeofOffsets + SizeofTrailer
BY DEF Layout

\* What the parser makes of an image.
LEMMA ParseIs ==
  ASSUME NEW image
  PROVE  LET g == ParseBlob(image)
             o == image.offsets
             size == DetectStructSize(o.modules.len)
         IN /\ g = [entry |-> g.entry, flags |-> g.flags, argv |-> g.argv,
                    structSize |-> g.structSize, modules |-> g.modules, records |-> g.records]
            /\ g.entry = o.entry /\ g.flags = o.flags /\ g.structSize = size
            /\ o.argv.off = image.argv.off => g.argv = image.argv.text
            /\ o.modules.off = image.table.off /\ size = image.table.rowSize =>
                 g.modules = [i \in DOMAIN image.table.rows |->
                                Module([k \in 1..Strings(size) |->
                                          StringAt(image, image.table.rows[i].ptrs[k])],
                                       image.table.rows[i].tail)]
            /\ ~Extended(o.flags) => g.records = <<>>
            /\ Extended(o.flags) /\ o.modules.off + o.modules.len = image.records.off =>
                 g.records = image.records.words
BY DEF ParseBlob

\* Each pointer leads back to its string.
LEMMA StringBack ==
  ASSUME NEW strings, Sized(strings), \A k \in 1..Len(strings) : IsText(strings[k]),
         NEW per \in Per, NEW first \in Nat,
         NEW image, image.strings = Placed(strings, Pointers(strings, per, first)),
         NEW k \in 1..Len(strings)
  PROVE  StringAt(image, Pointers(strings, per, first)[k]) = strings[k]
<1> DEFINE ptr == Pointers(strings, per, first)
           bytes == Placed(strings, ptr)
<1>1. ptr[k].len = strings[k].size /\ strings[k].size \in Nat
  BY PointersAre DEF Sized
<1>2. k \in DOMAIN strings
  BY DEF Sized
<1>3. strings[k].size > 0 => ptr[k].off \in DOMAIN bytes /\ bytes[ptr[k].off] = strings[k]
  BY <1>2, PlacedAre
<1>4. strings[k].size = 0 => strings[k] = NoText
  BY DEF IsText
<1>5. image.strings = bytes
  OBVIOUS
<1> HIDE DEF ptr, bytes
<1>6. StringAt(image, ptr[k]) = strings[k]
  <2>1. CASE strings[k].size = 0
    BY <1>1, <1>4, <2>1 DEF StringAt
  <2>2. CASE strings[k].size > 0
    BY <1>1, <1>3, <1>5, <2>2 DEF StringAt
  <2>3. QED
    BY <1>1, <2>1, <2>2
<1>7. QED
  BY <1>6 DEF ptr

\* The pointers of a row are those of the strings of its module.
LEMMA RowIs ==
  ASSUME NEW ptr, NEW per \in Per, NEW i \in Nat
  PROVE  \A k \in 1..per : SubSeq(ptr, per * (i - 1) + 1, per * i)[k] = ptr[per * (i - 1) + k]
<1> DEFINE a == per * (i - 1) + 1
           b == per * i
<1>1. a \in Int /\ b \in Int /\ b - a + 1 = per
  <2>1. CASE per = 4
    BY <2>1
  <2>2. CASE per = 6
    BY <2>2
  <2>3. QED
    BY <2>1, <2>2 DEF Per
<1>2. \A k \in 1..per : a + k - 1 = per * (i - 1) + k
  BY DEF Per
<1> HIDE DEF a, b
<1>3. \A k \in a..b : ptr[k] \in {ptr[l] : l \in a..b}
  OBVIOUS
<1>4. \A k \in 1..b - a + 1 : SubSeq(ptr, a, b)[k] = ptr[a + k - 1]
  BY <1>1, <1>3, SubSeqProperties
<1>5. \A k \in 1..per : SubSeq(ptr, a, b)[k] = ptr[per * (i - 1) + k]
  BY <1>1, <1>2, <1>4
<1>6. QED
  BY <1>5 DEF a, b

IsTexts(texts, size) == texts = [k \in 1..Strings(size) |-> texts[k]]

\* A module put together from its strings.
LEMMA ModuleIs ==
  ASSUME NEW m, IsModule(m), NEW size \in {36, 52},
         size = 36 => m.info = NoText /\ m.origin = NoText,
         NEW texts, IsTexts(texts, size),
         \A k \in 1..Strings(size) : texts[k] = StringsOf(m, size)[k]
  PROVE  Module(texts, m.tail) = m
<1>1. CASE size = 36
  <2>1. Strings(size) = 4 /\ Len(texts) = 4
    BY <1>1, StringsIs DEF IsTexts
  <2>2. /\ StringsOf(m, size)[1] = m.name /\ StringsOf(m, size)[2] = m.contents
        /\ StringsOf(m, size)[3] = m.sourcemap /\ StringsOf(m, size)[4] = m.bytecode
    BY StringsOfIs
  <2>4. \A k \in {1, 2, 3, 4} : texts[k] = StringsOf(m, size)[k]
    BY <2>1
  <2>5. texts[1] = m.name /\ texts[2] = m.contents /\ texts[3] = m.sourcemap /\ texts[4] = m.bytecode
    BY <2>2, <2>4
  <2>3. QED
    BY <1>1, <2>1, <2>5 DEF Module, IsModule
<1>2. CASE size = 52
  <2>1. Strings(size) = 6 /\ Len(texts) = 6
    BY <1>2, StringsIs DEF IsTexts
  <2>2. /\ StringsOf(m, size)[1] = m.name /\ StringsOf(m, size)[2] = m.contents
        /\ StringsOf(m, size)[3] = m.sourcemap /\ StringsOf(m, size)[4] = m.bytecode
        /\ StringsOf(m, size)[5] = m.info /\ StringsOf(m, size)[6] = m.origin
    BY <1>2, StringsOfIs
  <2>4. \A k \in {1, 2, 3, 4, 5, 6} : texts[k] = StringsOf(m, size)[k]
    BY <2>1
  <2>5. /\ texts[1] = m.name /\ texts[2] = m.contents /\ texts[3] = m.sourcemap
        /\ texts[4] = m.bytecode /\ texts[5] = m.info /\ texts[6] = m.origin
    BY <2>2, <2>4
  <2>3. QED
    BY <1>2, <2>1, <2>5 DEF Module, IsModule
<1>3. QED
  BY <1>1, <1>2

\* What is laid out is read back as it was: parse_blob returns the graph that
\* rebuild_blob was given, for every number of modules and sizes of their texts,
\* wherever the first string may start.
THEOREM RoundTrip ==
  ASSUME NEW g, IsGraph(g), SoundGraph(g), NEW first \in Nat
  PROVE  ParseBlob(Layout(g, first)) = g
<1> DEFINE image == Layout(g, first)
           back == ParseBlob(image)
           per == Strings(g.structSize)
           n == Len(g.modules)
           strings == AllStrings(g)
           ptr == Pointers(strings, per, first)
           size == DetectStructSize(image.offsets.modules.len)
           rows == image.table.rows
           texts(i) == [k \in 1..per |-> StringAt(image, rows[i].ptrs[k])]
<1>1. /\ image.strings = Placed(strings, ptr)
      /\ image.table.rowSize = g.structSize
      /\ rows = [i \in DOMAIN g.modules |->
                   [ptrs |-> SubSeq(ptr, per * (i - 1) + 1, per * i), tail |-> g.modules[i].tail]]
      /\ image.records.words = g.records
      /\ image.argv.text = g.argv
      /\ image.offsets.modules.off = image.table.off
      /\ image.offsets.modules.len = n * g.structSize
      /\ image.offsets.modules.off + image.offsets.modules.len = image.records.off
      /\ image.offsets.entry = g.entry /\ image.offsets.flags = g.flags
      /\ image.offsets.argv.off = image.argv.off
  BY LayoutIs
<1>2. /\ back = [entry |-> back.entry, flags |-> back.flags, argv |-> back.argv,
                 structSize |-> back.structSize, modules |-> back.modules,
                 records |-> back.records]
      /\ back.entry = image.offsets.entry /\ back.flags = image.offsets.flags
      /\ back.structSize = size
      /\ image.offsets.argv.off = image.argv.off => back.argv = image.argv.text
      /\ image.offsets.modules.off = image.table.off /\ size = image.table.rowSize =>
           back.modules = [i \in DOMAIN rows |->
                             Module([k \in 1..Strings(size) |-> StringAt(image, rows[i].ptrs[k])],
                                    rows[i].tail)]
      /\ ~Extended(image.offsets.flags) => back.records = <<>>
      /\ Extended(image.offsets.flags)
           /\ image.offsets.modules.off + image.offsets.modules.len = image.records.off =>
           back.records = image.records.words
  BY ParseIs
<1>3. /\ Sized(strings) /\ Len(strings) = per * n
      /\ \A i \in 1..n, j \in 1..per :
           /\ per * (i - 1) + j \in 1..Len(strings)
           /\ strings[per * (i - 1) + j] = StringsOf(g.modules[i], g.structSize)[j]
      /\ \A k \in 1..Len(strings) : IsText(strings[k])
  BY AllStringsAre
<1>4. per \in Per /\ n \in Nat /\ g.structSize \in {36, 52} /\ DOMAIN g.modules = 1..n
  BY StringsIs DEF IsGraph, IsSequence
<1>5. size = g.structSize
  BY <1>1 DEF SoundGraph
<1>6. g.records = <<>> \/ Extended(g.flags)
  BY DEF IsGraph
<1>7. \A k \in 1..Len(strings) : StringAt(image, ptr[k]) = strings[k]
  <2> HIDE DEF image, per, strings, n
  <2>1. /\ image.strings = Placed(strings, Pointers(strings, per, first))
        /\ Sized(strings) /\ \A k \in 1..Len(strings) : IsText(strings[k])
    BY <1>1, <1>3
  <2>2. \A k \in 1..Len(strings) : StringAt(image, Pointers(strings, per, first)[k]) = strings[k]
    BY <1>4, <2>1, StringBack
  <2>3. QED
    BY <2>2
<1>8. ASSUME NEW i \in 1..n
      PROVE  \A k \in 1..per : SubSeq(ptr, per * (i - 1) + 1, per * i)[k] = ptr[per * (i - 1) + k]
  <2> HIDE DEF per, n, ptr
  <2>1. i \in Nat
    BY <1>4
  <2>2. per \in Per
    BY <1>4
  <2>3. QED
    BY Zenon, <2>1, <2>2, RowIs
<1>9. \A i \in 1..n : /\ IsModule(g.modules[i])
                      /\ g.structSize = 36 => g.modules[i].info = NoText /\ g.modules[i].origin = NoText
  BY DEF IsGraph
<1>10. per = Strings(g.structSize)
  OBVIOUS
<1> HIDE DEF image, back, per, n, strings, ptr, size, rows
<1>11. ASSUME NEW i \in 1..n PROVE Module(texts(i), g.modules[i].tail) = g.modules[i]
  <2>1. rows[i].ptrs = SubSeq(ptr, per * (i - 1) + 1, per * i)
    BY <1>1, <1>4
  <2>2. ASSUME NEW k \in 1..per
        PROVE  texts(i)[k] = StringsOf(g.modules[i], g.structSize)[k]
    <3>1. texts(i)[k] = StringAt(image, ptr[per * (i - 1) + k])
      BY <1>8, <2>1
    <3>2. /\ per * (i - 1) + k \in 1..Len(strings)
          /\ strings[per * (i - 1) + k] = StringsOf(g.modules[i], g.structSize)[k]
      BY <1>3
    <3>3. QED
      BY <1>7, <3>1, <3>2
  <2>3. texts(i) = [k \in 1..per |-> texts(i)[k]]
    OBVIOUS
  <2> DEFINE some == texts(i)
  <2> HIDE DEF texts, some
  <2> DEFINE m == g.modules[i]
             struct == g.structSize
  <2>4. /\ IsModule(m) /\ struct \in {36, 52}
        /\ struct = 36 => m.info = NoText /\ m.origin = NoText
        /\ some = [k \in 1..Strings(struct) |-> some[k]]
        /\ \A k \in 1..Strings(struct) : some[k] = StringsOf(m, struct)[k]
    BY <1>4, <1>9, <1>10, <2>2, <2>3 DEF some
  <2> HIDE DEF m, struct
  <2>7. IsModule(m)
    BY <2>4
  <2>8. struct \in {36, 52}
    BY <2>4
  <2>9. struct = 36 => m.info = NoText /\ m.origin = NoText
    BY <2>4
  <2>10. \A k \in 1..Strings(struct) : some[k] = StringsOf(m, struct)[k]
    BY <2>4
  <2>11. IsTexts(some, struct)
    BY <2>4 DEF IsTexts
  <2>6. Module(some, m.tail) = m
    BY <2>7, <2>8, <2>9, <2>10, <2>11, ModuleIs
  <2>5. QED
    BY <2>6 DEF some, m
<1>12. back.modules = g.modules
  <2>1. back.modules = [i \in DOMAIN rows |-> Module(texts(i), rows[i].tail)]
    BY <1>1, <1>2, <1>5, <1>10
  <2>2. DOMAIN rows = 1..n /\ \A i \in 1..n : rows[i].tail = g.modules[i].tail
    BY <1>1, <1>4
  <2>3. g.modules = [i \in 1..n |-> g.modules[i]]
    BY DEF IsGraph, IsSequence, n
  <2> HIDE DEF texts
  <2>4. QED
    BY <1>11, <2>1, <2>2, <2>3
<1>13. back.records = g.records
  BY <1>1, <1>2, <1>6
<1>14. back.argv = g.argv /\ back.entry = g.entry /\ back.flags = g.flags /\ back.structSize = g.structSize
  BY <1>1, <1>2, <1>5
<1>15. back = g
  BY <1>2, <1>12, <1>13, <1>14 DEF IsGraph
<1>16. QED
  BY <1>15 DEF back, image

\* A layout keeps what the loader needs of a blob.
LEMMA LayoutSound ==
  ASSUME NEW g, IsGraph(g), SoundGraph(g), NEW first \in Nat
  PROVE  SoundImage(Layout(g, first))
<1> DEFINE image == Layout(g, first)
           per == Strings(g.structSize)
           n == Len(g.modules)
           strings == AllStrings(g)
           ptr == Pointers(strings, per, first)
           table == Ends(strings, per, first)[Len(strings)]
           bytes == Placed(strings, ptr)
<1>1. image.strings = bytes
  BY DEF Layout
<1>2. image.table.off = table
  BY Zenon, LayoutIs
<1>3. image.table.rows = [i \in DOMAIN g.modules |->
                                [ptrs |-> SubSeq(ptr, per * (i - 1) + 1, per * i),
                                 tail |-> g.modules[i].tail]]
  BY LayoutIs
<1>4. image.size = (table + n * g.structSize) + 4 * Len(g.records) + g.argv.size + 1
                         + SizeofOffsets + SizeofTrailer
  BY Zenon, LayoutIs
<1>5. /\ image.strings = bytes
      /\ image.table.off = table
      /\ DOMAIN image.table.rows = DOMAIN g.modules
      /\ image.size = (table + n * g.structSize) + 4 * Len(g.records) + g.argv.size + 1
                        + SizeofOffsets + SizeofTrailer
  <2> HIDE DEF image, per, ptr, table, bytes, n
  <2>1. QED
    BY <1>1, <1>2, <1>3, <1>4
<1>6. /\ Sized(strings) /\ Len(strings) = per * n
      /\ \A k \in 1..Len(strings) :
           /\ IsText(strings[k])
           /\ strings[k].is = "bytecode" => (k - 1) % per = 3
  BY AllStringsAre
<1>7. per \in Per /\ n \in Nat /\ g.structSize \in {36, 52} /\ DOMAIN g.modules = 1..n
  BY StringsIs DEF IsGraph, IsSequence
<1>8. Len(strings) \in Nat /\ DOMAIN strings = 1..Len(strings)
  BY <1>6 DEF Sized
<1>9. table \in Nat
  BY <1>6, <1>7, <1>8, EndsNat
<1>10. /\ \A k \in 1..Len(strings) :
            /\ ptr[k].off \in Nat /\ ptr[k].off + strings[k].size < table
            /\ (k - 1) % per = 3 /\ strings[k].size > 0 => (8 + ptr[k].off) % 128 = 0
       /\ \A j, k \in 1..Len(strings) : j < k => ptr[j].off + strings[j].size < ptr[k].off
  <2>1. LET p == Pointers(strings, per, first)
            m == Len(strings)
        IN /\ DOMAIN p = 1..m
           /\ \A k \in 1..m :
                /\ p[k].len = strings[k].size /\ p[k].off \in Nat
                /\ p[k].off + strings[k].size < Ends(strings, per, first)[m]
                /\ (k - 1) % per = 3 /\ strings[k].size > 0 => (8 + p[k].off) % 128 = 0
           /\ \A j, k \in 1..m : j < k => p[j].off + strings[j].size < p[k].off
    <3> HIDE DEF strings, per
    <3>1. QED
      BY <1>6, <1>7, PointersAre, Zenon
  <2> HIDE DEF strings, per, n, image, bytes
  <2>2. QED
    BY <2>1, Zenon
<1>11. \A o \in DOMAIN bytes : \E k \in 1..Len(strings) :
        strings[k].size > 0 /\ o = ptr[k].off /\ bytes[o] = strings[k]
  <2>1. \A o \in DOMAIN bytes : \E k \in DOMAIN strings :
          strings[k].size > 0 /\ o = ptr[k].off /\ bytes[o] = strings[k]
    <3> HIDE DEF strings, per, n, image, table
    <3>1. Sized(strings) /\ per \in Per
      BY <1>6, <1>7
    <3>2. QED
      BY Zenon, <3>1, PlacedAre
  <2> HIDE DEF strings, ptr, bytes, per, n, image, table
  <2>2. QED
    BY <1>8, <2>1
<1>12. \A k \in 1..Len(strings) : strings[k].size \in Nat
  BY <1>6 DEF IsText
<1>13. n * g.structSize \in Nat
  <2>1. CASE g.structSize = 36
    BY <1>7, <2>1
  <2>2. CASE g.structSize = 52
    BY <1>7, <2>2
  <2>3. QED
    BY <1>7, <2>1, <2>2
<1>14. image.size \in Nat
  <2>1. Len(g.records) \in Nat /\ g.argv.size \in Nat
    BY DEF SoundGraph, SoundRecords, IsSequence
  <2> DEFINE rows == n * g.structSize
             words == Len(g.records)
             arg == g.argv.size
  <2>2. image.size = (table + rows) + 4 * words + arg + 1 + SizeofOffsets + SizeofTrailer
    BY Zenon, <1>5
  <2>3. rows \in Nat /\ words \in Nat /\ arg \in Nat
    BY Zenon, <1>13, <2>1
  <2> HIDE DEF image, table, rows, words, arg
  <2>4. QED
    BY <1>9, <2>2, <2>3 DEF SizeofOffsets, SizeofTrailer
<1>15. ParseBlob(image) = g
  BY RoundTrip
<1> HIDE DEF image, per, n, strings, ptr, table, bytes
<1>16. ASSUME NEW o \in DOMAIN bytes
       PROVE  /\ o \in Nat /\ bytes[o].size \in Nat
              /\ o + bytes[o].size < table
              /\ bytes[o].is = "bytecode" => (8 + o) % 128 = 0
              /\ \A q \in DOMAIN bytes : o < q => o + bytes[o].size < q
  <2>1. PICK k \in 1..Len(strings) :
          strings[k].size > 0 /\ o = ptr[k].off /\ bytes[o] = strings[k]
    BY <1>11
  <2>2. /\ o \in Nat /\ o + bytes[o].size < table /\ bytes[o].size \in Nat
        /\ bytes[o].is = "bytecode" => (8 + o) % 128 = 0
    BY <1>6, <1>10, <1>12, <2>1
  <2>3. ASSUME NEW q \in DOMAIN bytes, o < q PROVE o + bytes[o].size < q
    <3>1. PICK l \in 1..Len(strings) :
            strings[l].size > 0 /\ q = ptr[l].off /\ bytes[q] = strings[l]
      BY <1>11
    <3>2. CASE k < l
      BY <1>10, <2>1, <3>1, <3>2
    <3>3. CASE l < k
      <4>1. ptr[l].off + strings[l].size < ptr[k].off /\ ptr[l].off \in Nat /\ strings[l].size \in Nat
            /\ ptr[k].off \in Nat
        BY <1>10, <1>12, <3>3
      <4>2. q < o
        BY <2>1, <3>1, <4>1
      <4>3. QED
        BY <2>1, <2>3, <3>1, <4>1, <4>2
    <3>4. CASE k = l
      BY <2>1, <2>3, <3>1, <3>4, <1>10
    <3>5. QED
      BY <1>8, <3>2, <3>3, <3>4
  <2>4. QED
    BY <2>2, <2>3
<1>17. Len(image.table.rows) \in Nat /\ DOMAIN image.table.rows = 1..Len(image.table.rows)
  BY <1>5, <1>7
<1>18. SoundImage(image)
  BY <1>5, <1>9, <1>14, <1>15, <1>16, <1>17 DEF SoundImage
<1>19. QED
  BY <1>18 DEF image

-----------------------------------------------------------------------------
(* What a graph is made into. *)

\* The parser returns graphs.
LEMMA ParsedIs ==
  ASSUME NEW image, SoundImage(image)
  PROVE  IsGraph(ParseBlob(image)) /\ SoundGraph(ParseBlob(image))
<1> DEFINE g == ParseBlob(image)
           o == image.offsets
           size == DetectStructSize(o.modules.len)
           rows == IF o.modules.off = image.table.off /\ size = image.table.rowSize
                     THEN image.table.rows ELSE <<>>
           texts(i) == [k \in 1..Strings(size) |-> StringAt(image, rows[i].ptrs[k])]
<1>1. /\ g = [entry |-> g.entry, flags |-> g.flags, argv |-> g.argv, structSize |-> g.structSize,
              modules |-> g.modules, records |-> g.records]
      /\ g.flags = o.flags /\ g.structSize = size
      /\ ~Extended(o.flags) => g.records = <<>>
  BY ParseIs
<1>2. size \in {36, 52}
  BY DEF DetectStructSize, ModuleSize
<1>3. g.modules = [i \in DOMAIN rows |-> Module(texts(i), rows[i].tail)]
  BY DEF ParseBlob
<1>4. Len(rows) \in Nat /\ DOMAIN rows = 1..Len(rows)
  BY DEF SoundImage
<1> HIDE DEF g, o, size, rows
<1>5. ASSUME NEW i \in 1..Len(rows)
      PROVE  /\ IsModule(g.modules[i])
             /\ g.structSize = 36 => g.modules[i].info = NoText /\ g.modules[i].origin = NoText
  <2> DEFINE some == texts(i)
             tail == rows[i].tail
  <2>1. g.modules[i] = Module(some, tail)
    BY <1>3, <1>4
  <2>2. size = 36 => Len(some) = 4
    BY StringsIs, <1>2
  <2> HIDE DEF some, tail, texts
  <2>3. QED
    BY <1>1, <2>1, <2>2 DEF Module, IsModule
<1>6. IsSequence(g.modules) /\ Len(g.modules) = Len(rows)
  <2>1. g.modules = [i \in 1..Len(rows) |-> g.modules[i]]
    BY <1>3, <1>4
  <2>2. QED
    BY <1>4, <2>1, MadeSequence
<1>7. IsGraph(g)
  BY <1>1, <1>2, <1>5, <1>6 DEF IsGraph
<1>8. SoundGraph(g)
  BY DEF SoundImage, g
<1>9. QED
  BY <1>7, <1>8 DEF g

\* The first entry of a name.
Place(seq, name) == SelectInSeq(seq, LAMBDA s : s.name = name)

\* SelectInSeq finds the first of a name, or nothing.
LEMMA FirstNamed ==
  ASSUME NEW seq, IsSequence(seq), NEW name
  PROVE  /\ Place(seq, name) \in 0..Len(seq)
         /\ Place(seq, name) = 0 => \A i \in 1..Len(seq) : seq[i].name # name
         /\ Place(seq, name) # 0 => seq[Place(seq, name)].name = name
         /\ Place(seq, name) # 0 => \A i \in 1..Len(seq) : i < Place(seq, name) => seq[i].name # name
<1> DEFINE found == {i \in 1..Len(seq) : seq[i].name = name}
<1>1. Len(seq) \in Nat
  BY AsSeq
<1>2. Place(seq, name) = IF found # {} THEN Min(found) ELSE 0
  BY DEF Place, SelectInSeq
<1>3. found # {} => Min(found) \in found /\ \A i \in found : Min(found) <= i
  <2> SUFFICES ASSUME found # {} PROVE Min(found) \in found /\ \A i \in found : Min(found) <= i
    OBVIOUS
  <2>1. found \subseteq Nat
    BY <1>1
  <2> HIDE DEF found
  <2>2. \E x \in found : \A y \in found : ~ (y < x)
    BY <2>1, Least
  <2>3. \E x \in found : \A y \in found : x <= y
    BY <2>1, <2>2
  <2>4. QED
    BY <2>3 DEF Min
<1>4. CASE found = {}
  BY <1>1, <1>2, <1>4
<1>5. CASE found # {}
  <2> DEFINE k == Min(found)
  <2>1. k \in found /\ \A i \in found : k <= i
    BY <1>3, <1>5
  <2>2. Place(seq, name) = k
    BY <1>2, <1>5
  <2> HIDE DEF k
  <2>3. k \in 1..Len(seq) /\ seq[k].name = name
    BY <2>1
  <2>4. \A i \in 1..Len(seq) : i < k => seq[i].name # name
    BY <1>1, <2>1, <2>3
  <2>5. k # 0 /\ k \in 0..Len(seq)
    BY <1>1, <2>3
  <2>6. QED
    BY <2>2, <2>3, <2>4, <2>5
<1>6. QED
  BY <1>4, <1>5

\* The modules whose source is patched.
LEMMA SourcesAre ==
  ASSUME NEW g, IsGraph(g), SoundGraph(g), ~InvalidEntry(g)
  PROVE  /\ IsSequence(SourceModules(g))
         /\ \A i \in 1..Len(SourceModules(g)) :
              \E j \in 1..Len(g.modules) : SourceModules(g)[i] = g.modules[j]
<1>1. g.entry \in 1..Len(g.modules)
  BY DEF InvalidEntry
<1>2. IsSequence(g.modules) /\ DOMAIN g.modules = 1..Len(g.modules)
  BY AsSeq DEF IsGraph
<1>3. CASE g.modules[g.entry].tail.format # 1
  <2>1. SourceModules(g) = <<g.modules[g.entry]>>
    BY <1>3 DEF SourceModules
  <2>2. IsSequence(SourceModules(g)) /\ Len(SourceModules(g)) = 1
        /\ SourceModules(g)[1] = g.modules[g.entry]
    BY <2>1, OneEntry
  <2>3. QED
    BY <1>1, <2>2
<1>4. CASE g.modules[g.entry].tail.format = 1
  <2> DEFINE positions == {i \in DOMAIN g.modules : EcmaSource(g.modules[i])}
  <2>1. SourceModules(g) = Kept(g.modules, positions)
    BY <1>4 DEF SourceModules
  <2>2. /\ IsSequence(Kept(g.modules, positions))
        /\ Len(Kept(g.modules, positions)) = Cardinality(positions)
        /\ \A n \in 1..Cardinality(positions) :
             /\ At(positions, n) \in positions
             /\ Kept(g.modules, positions)[n] = g.modules[At(positions, n)]
    BY <1>2, KeptIs
  <2>3. positions \subseteq 1..Len(g.modules)
    BY <1>2
  <2> HIDE DEF positions
  <2>4. QED
    BY <2>1, <2>2, <2>3
<1>5. QED
  BY <1>3, <1>4

-----------------------------------------------------------------------------
(* The source of a graph, taken out and cut again. *)

\* The extracted source is a sequence.
LEMMA SourceSequence ==
  ASSUME NEW modules, IsSequence(modules),
         \A i \in 1..Len(modules) : IsSequence(modules[i].contents.of)
  PROVE  IsSequence(GraphSource(modules))
<1> DEFINE parts == [i \in DOMAIN modules |-> <<modules[i].name.is>> \o modules[i].contents.of]
<1>1. DOMAIN modules = 1..Len(modules) /\ Len(modules) \in Nat
  BY AsSeq
<1>2. \A i \in 1..Len(modules) : IsSequence(parts[i])
  BY <1>1, OneEntry, Joined
<1>3. parts = [i \in 1..Len(modules) |-> parts[i]] /\ DOMAIN parts = 1..Len(modules)
  BY <1>1
<1>4. GraphSource(modules) = IF Len(modules) = 1 THEN modules[1].contents.of ELSE FlattenSeq(parts)
  BY DEF GraphSource
<1> HIDE DEF parts
<1>5. IsSequence(parts)
  BY <1>1, <1>3, MadeSequence
<1>6. IsSequence(FlattenSeq(parts))
  BY <1>2, <1>3, <1>5, Flattened
<1>7. CASE Len(modules) = 1
  <2>1. 1 \in 1..Len(modules)
    BY <1>7
  <2>2. QED
    BY <1>4, <1>7, <2>1
<1>8. QED
  BY <1>4, <1>6, <1>7

\* Each module's part of the source is a source.
LEMMA SplitSequences ==
  ASSUME NEW src, IsSequence(src), NEW modules, IsSequence(modules),
         ~BoundaryChanged(src, modules)
  PROVE  \A i \in 1..Len(modules) : IsSequence(SplitGraphSource(src, modules)[i])
<1>1. DOMAIN modules = 1..Len(modules) /\ Len(modules) \in Nat /\ Len(src) \in Nat
  BY AsSeq
<1>2. CASE Len(modules) = 1
  <2>1. SplitGraphSource(src, modules) = <<src>>
    BY <1>2 DEF SplitGraphSource
  <2>2. QED
    BY <1>2, <2>1
<1>3. CASE Len(modules) > 1
  <2> DEFINE cuts == Cuts(src) \o <<Len(src) + 1>>
             n == Len(modules)
  <2>1. SplitGraphSource(src, modules) =
          [i \in DOMAIN modules |-> SubSeq(src, cuts[i] + 1, cuts[i + 1] - 1)]
    <3>1. Len(modules) # 1
      BY <1>1, <1>3
    <3>2. QED
      BY <3>1 DEF SplitGraphSource
  <2>2. Len(Cuts(src)) = n
    BY <1>3 DEF BoundaryChanged
  <2>3. IsSequence(Cuts(src)) /\ \A i \in 1..n : Cuts(src)[i] \in Int
    BY <2>2, CutsAre
  <2>4. (\A i \in 1..n : cuts[i] = Cuts(src)[i]) /\ cuts[n + 1] = Len(src) + 1
    BY <2>2, <2>3, OneEntry, Joined
  <2> HIDE DEF cuts
  <2>5. \A i \in 1..n : cuts[i] \in Int /\ cuts[i + 1] \in Int
    <3>1. ASSUME NEW i \in 1..n PROVE i + 1 \in 1..n \/ i + 1 = n + 1
      BY <1>1
    <3>2. QED
      BY <1>1, <2>3, <2>4, <3>1
  <2>6. \A i \in 1..n : IsSequence(SubSeq(src, cuts[i] + 1, cuts[i + 1] - 1))
    BY <2>5, Part
  <2>7. QED
    BY <1>1, <2>1, <2>6
<1>4. CASE Len(modules) = 0
  BY <1>4
<1>5. QED
  BY <1>1, <1>2, <1>3, <1>4

-----------------------------------------------------------------------------
(* What becomes of a module, and of the graph. *)

\* A module without its caches, and one with another source.
Stripped(m) == [m EXCEPT !.bytecode = NoText, !.origin = NoText, !.info = NoText]
Given(m, fragments) == [m EXCEPT !.contents = Contents(fragments)]

\* What stripping a module, and giving it a source, leave alone.
LEMMA StrippedIs ==
  ASSUME NEW m, IsModule(m)
  PROVE  /\ IsModule(Stripped(m))
         /\ Stripped(m).name = m.name /\ Stripped(m).contents = m.contents
         /\ Stripped(m).sourcemap = m.sourcemap /\ Stripped(m).tail = m.tail
         /\ Stripped(m).bytecode = NoText /\ Stripped(m).info = NoText
         /\ Stripped(m).origin = NoText
<1> DEFINE new == Stripped(m)
           fields == {"name", "contents", "sourcemap", "bytecode", "info", "origin", "tail"}
<1>1. DOMAIN m = fields
  BY DEF IsModule
<1>2. DOMAIN new = fields /\ new = [k \in DOMAIN new |-> new[k]]
  BY <1>1 DEF Stripped
<1>3. /\ new.name = m.name /\ new.contents = m.contents /\ new.sourcemap = m.sourcemap
      /\ new.tail = m.tail
      /\ new.bytecode = NoText /\ new.info = NoText /\ new.origin = NoText
  BY <1>1 DEF Stripped
<1> HIDE DEF new
<1>4. IsModule(new)
  BY <1>2 DEF IsModule
<1>5. QED
  BY <1>3, <1>4 DEF new

LEMMA GivenIs ==
  ASSUME NEW m, IsModule(m), NEW fragments
  PROVE  /\ IsModule(Given(m, fragments))
         /\ Given(m, fragments).name = m.name /\ Given(m, fragments).contents = Contents(fragments)
         /\ Given(m, fragments).sourcemap = m.sourcemap /\ Given(m, fragments).tail = m.tail
         /\ Given(m, fragments).bytecode = m.bytecode /\ Given(m, fragments).info = m.info
         /\ Given(m, fragments).origin = m.origin
BY DEF IsModule, Given

\* A new source is a text.
LEMMA ContentsText ==
  ASSUME NEW fragments, IsSequence(fragments)
  PROVE  /\ IsText(Contents(fragments)) /\ Contents(fragments).is # "bytecode"
         /\ Contents(fragments).of = fragments
<1>1. Len(fragments) \in Nat
  BY AsSeq
<1>2. TextSize(fragments) \in Nat /\ TextSize(fragments) # 0
  BY <1>1 DEF TextSize
<1>3. QED
  BY <1>2 DEF Contents, IsText

\* So is no text.
LEMMA NothingIs == IsText(NoText) /\ NoText.is # "bytecode" /\ NoText.of = <<>>
BY DEF IsText, NoText

\* A module without caches is sound.
LEMMA StrippedSound ==
  ASSUME NEW m, IsModule(m), SoundModule(m)
  PROVE  SoundModule(Stripped(m))
<1> DEFINE new == Stripped(m)
<1>1. /\ new.name = m.name /\ new.contents = m.contents /\ new.sourcemap = m.sourcemap
      /\ new.bytecode = NoText /\ new.info = NoText /\ new.origin = NoText
  BY StrippedIs
<1> HIDE DEF new
<1>2. /\ IsText(m.name) /\ m.name.is # "bytecode"
      /\ IsText(m.contents) /\ m.contents.is # "bytecode" /\ IsSequence(m.contents.of)
      /\ IsText(m.sourcemap) /\ m.sourcemap.is # "bytecode"
  BY DEF SoundModule
<1>3. SoundModule(new)
  BY <1>1, <1>2, NothingIs DEF SoundModule
<1>4. QED
  BY <1>3 DEF new

\* A module whose name is among the patched ones has the source cut for it,
\* and its caches only if that is the source it had.
LEMMA TransformIs ==
  ASSUME NEW m, IsModule(m), SoundModule(m), NEW modules, IsSequence(modules),
         NEW sources, \A i \in 1..Len(modules) : IsSequence(sources[i]), NEW zero
  PROVE  LET new == Transform(m, modules, sources, zero)
             at == Place(modules, m.name)
         IN /\ IsModule(new) /\ SoundModule(new)
            /\ new.name = m.name /\ new.sourcemap = m.sourcemap /\ new.tail = m.tail
            /\ new.info \in {m.info, NoText} /\ new.origin \in {m.origin, NoText}
            /\ at = 0 => new = m
            /\ at # 0 => at \in 1..Len(modules) /\ new.contents = Contents(sources[at])
<1> DEFINE new == Transform(m, modules, sources, zero)
           at == Place(modules, m.name)
           given == Given(m, sources[at])
<1>1. new = IF at = 0 THEN m
            ELSE IF Drops(given.contents, m, zero) THEN Stripped(given) ELSE given
  BY DEF Transform, Place, Given, Stripped
<1>2. at \in 0..Len(modules) /\ Len(modules) \in Nat
  BY FirstNamed, AsSeq
<1>3. CASE at = 0
  <2>1. new = m
    BY <1>1, <1>3
  <2> HIDE DEF new, at
  <2>2. QED
    BY <1>3, <2>1 DEF new, at
<1>4. CASE at # 0
  <2>1. at \in 1..Len(modules) /\ IsSequence(sources[at])
    BY <1>2, <1>4
  <2>2. /\ IsModule(given)
        /\ given.name = m.name /\ given.contents = Contents(sources[at])
        /\ given.sourcemap = m.sourcemap /\ given.tail = m.tail
        /\ given.bytecode = m.bytecode /\ given.info = m.info /\ given.origin = m.origin
    BY GivenIs
  <2>3. /\ IsText(Contents(sources[at])) /\ Contents(sources[at]).is # "bytecode"
        /\ Contents(sources[at]).of = sources[at]
    BY <2>1, ContentsText
  <2>4. \/ new = Stripped(given)
        \/ new = given /\ ~Drops(given.contents, m, zero)
    BY <1>1, <1>4
  <2> HIDE DEF new, at, given
  <2>5. /\ IsText(m.name) /\ m.name.is # "bytecode" /\ IsText(m.bytecode)
        /\ IsText(m.sourcemap) /\ m.sourcemap.is # "bytecode"
        /\ IsText(m.info) /\ m.info.is # "bytecode"
        /\ IsText(m.origin) /\ m.origin.is # "bytecode"
        /\ m.bytecode = NoText \/ m.bytecode.of = m.contents.of
        /\ m.info = NoText \/ m.info.of = m.contents.of
    BY DEF SoundModule
  <2>6. CASE new = Stripped(given)
    <3> DEFINE bare == Stripped(given)
    <3>1. /\ IsModule(bare)
          /\ bare.name = m.name /\ bare.contents = Contents(sources[at])
          /\ bare.sourcemap = m.sourcemap /\ bare.tail = m.tail
          /\ bare.bytecode = NoText /\ bare.info = NoText /\ bare.origin = NoText
      BY <2>2, StrippedIs
    <3> HIDE DEF bare
    <3>2. SoundModule(bare)
      BY <2>1, <2>3, <2>5, <3>1, NothingIs DEF SoundModule
    <3>3. new = bare
      BY <2>6 DEF bare
    <3>4. QED
      BY <1>4, <2>1, <3>1, <3>2, <3>3 DEF new, at
  <2>7. CASE new = given /\ ~Drops(given.contents, m, zero)
    <3>1. given.contents = m.contents
      BY <2>7 DEF Drops
    <3>2. SoundModule(given)
      BY <2>1, <2>2, <2>3, <2>5, <3>1 DEF SoundModule
    <3>3. QED
      BY <1>4, <2>1, <2>2, <2>7, <3>2 DEF new, at
  <2>8. QED
    BY <2>4, <2>6, <2>7
<1>5. QED
  BY <1>3, <1>4

\* A graph whose modules keep their names, and whose records are whole.
LEMMA GraphKept ==
  ASSUME NEW g, IsGraph(g), SoundGraph(g), NEW h,
         h = [entry |-> h.entry, flags |-> h.flags, argv |-> h.argv, structSize |-> h.structSize,
              modules |-> h.modules, records |-> h.records],
         h.argv = g.argv, h.structSize = g.structSize,
         IsSequence(h.modules), Len(h.modules) = Len(g.modules),
         \A i \in 1..Len(g.modules) :
           /\ IsModule(h.modules[i]) /\ SoundModule(h.modules[i])
           /\ h.modules[i].name = g.modules[i].name
           /\ h.modules[i].info \in {g.modules[i].info, NoText}
           /\ h.modules[i].origin \in {g.modules[i].origin, NoText},
         SoundRecords(h), ~Extended(h.flags) => h.records = <<>>
  PROVE  IsGraph(h) /\ SoundGraph(h)
<1>1. /\ g.structSize \in {36, 52} /\ IsSequence(g.modules)
      /\ \A i \in 1..Len(g.modules) :
           g.structSize = 36 => g.modules[i].info = NoText /\ g.modules[i].origin = NoText
  BY DEF IsGraph
<1>2. \A i \in 1..Len(h.modules) :
        h.structSize = 36 => h.modules[i].info = NoText /\ h.modules[i].origin = NoText
  BY <1>1
<1>3. IsGraph(h)
  BY <1>1, <1>2 DEF IsGraph
<1>4. DOMAIN h.modules = 1..Len(g.modules) /\ DOMAIN g.modules = 1..Len(g.modules)
  BY <1>1, AsSeq
<1>5. /\ DetectStructSize(Len(g.modules) * g.structSize) = g.structSize
      /\ \A i, j \in DOMAIN g.modules : g.modules[i].name = g.modules[j].name => i = j
      /\ g.argv.size \in Nat
  BY DEF SoundGraph
<1>6. \A i, j \in DOMAIN h.modules : h.modules[i].name = h.modules[j].name => i = j
  BY <1>4, <1>5
<1>7. SoundGraph(h)
  BY <1>4, <1>5, <1>6 DEF SoundGraph
<1>8. QED
  BY <1>3, <1>7

\* The records of a graph are read by its flags and the number of its modules.
LEMMA SameRecords ==
  ASSUME NEW g, NEW h, h.flags = g.flags, h.records = g.records, Len(h.modules) = Len(g.modules)
  PROVE  RuntimeAt(h) = RuntimeAt(g) /\ (SoundRecords(g) => SoundRecords(h))
<1>1. RuntimeAt(h) = RuntimeAt(g)
  BY DEF RuntimeAt, Bit6, Bit11
<1>2. Policy(h) = Policy(g)
  BY DEF Policy
<1>3. QED
  BY <1>1, <1>2 DEF SoundRecords

\* The graph with the rewritten source.
LEMMA TransformedIs ==
  ASSUME NEW g, IsGraph(g), SoundGraph(g), ~InvalidEntry(g),
         NEW src, IsSequence(src), ~BoundaryChanged(src, SourceModules(g)), NEW zero
  PROVE  LET h == Transformed(g, src, zero)
             patched == SourceModules(g)
             sources == SplitGraphSource(src, patched)
         IN /\ IsGraph(h) /\ SoundGraph(h)
            /\ h.entry = g.entry /\ h.flags = g.flags /\ h.argv = g.argv
            /\ h.structSize = g.structSize /\ h.records = g.records
            /\ IsSequence(h.modules) /\ Len(h.modules) = Len(g.modules)
            /\ \A i \in 1..Len(g.modules) :
                 h.modules[i] = Transform(g.modules[i], patched, sources, zero)
<1> DEFINE patched == SourceModules(g)
           sources == SplitGraphSource(src, patched)
           new == [i \in DOMAIN g.modules |-> Transform(g.modules[i], patched, sources, zero)]
           h == Transformed(g, src, zero)
<1>1. /\ g = [entry |-> g.entry, flags |-> g.flags, argv |-> g.argv, structSize |-> g.structSize,
              modules |-> g.modules, records |-> g.records]
      /\ IsSequence(g.modules) /\ DOMAIN g.modules = 1..Len(g.modules) /\ Len(g.modules) \in Nat
      /\ \A i \in 1..Len(g.modules) : IsModule(g.modules[i])
      /\ ~Extended(g.flags) => g.records = <<>>
  BY AsSeq DEF IsGraph
<1>2. h = [g EXCEPT !.modules = new]
  BY DEF Transformed
<1>3. IsSequence(patched) /\ \A i \in 1..Len(patched) : IsSequence(sources[i])
  <2>1. IsSequence(patched)
    BY SourcesAre
  <2>2. QED
    BY <2>1, SplitSequences
<1>4. ASSUME NEW i \in 1..Len(g.modules)
      PROVE  /\ new[i] = Transform(g.modules[i], patched, sources, zero)
             /\ IsModule(new[i]) /\ SoundModule(new[i])
             /\ new[i].name = g.modules[i].name
             /\ new[i].info \in {g.modules[i].info, NoText}
             /\ new[i].origin \in {g.modules[i].origin, NoText}
  <2> DEFINE m == g.modules[i]
  <2>1. new[i] = Transform(m, patched, sources, zero)
    BY <1>1
  <2>2. IsModule(m) /\ SoundModule(m)
    BY <1>1 DEF SoundGraph
  <2> HIDE DEF m, new, patched, sources
  <2>3. QED
    BY <1>3, <2>1, <2>2, TransformIs DEF m
<1>5. IsSequence(new) /\ Len(new) = Len(g.modules)
  <2>1. new = [i \in 1..Len(g.modules) |-> new[i]]
    BY <1>1
  <2> HIDE DEF new
  <2>2. QED
    BY <1>1, <2>1, MadeSequence
<1> HIDE DEF new, patched, sources, h
<1>6. /\ DOMAIN h = DOMAIN g /\ h = [k \in DOMAIN h |-> h[k]]
      /\ h.entry = g.entry /\ h.flags = g.flags /\ h.argv = g.argv
      /\ h.structSize = g.structSize /\ h.records = g.records /\ h.modules = new
  BY <1>1, <1>2
<1>7. h = [entry |-> h.entry, flags |-> h.flags, argv |-> h.argv, structSize |-> h.structSize,
           modules |-> h.modules, records |-> h.records]
  BY <1>1, <1>6
<1>8. SoundRecords(h)
  <2>1. SoundRecords(g)
    BY DEF SoundGraph
  <2>2. QED
    BY <1>5, <1>6, <2>1, SameRecords
<1>9. IsGraph(h) /\ SoundGraph(h)
  BY <1>1, <1>4, <1>5, <1>6, <1>7, <1>8, GraphKept
<1>10. QED
  BY <1>4, <1>5, <1>6, <1>9 DEF h, patched, sources

\* A graph whose caches and shared records are gone, but for the policy.
LEMMA SourceOnlyIs ==
  ASSUME NEW g, IsGraph(g), SoundGraph(g)
  PROVE  LET h == SourceOnly(g)
         IN /\ IsGraph(h) /\ SoundGraph(h)
            /\ h.entry = g.entry /\ h.argv = g.argv /\ h.structSize = g.structSize
            /\ h.flags = g.flags \cap ((0..3) \cup {10, 12})
            /\ Len(h.modules) = Len(g.modules) /\ IsSequence(h.modules)
            /\ \A i \in 1..Len(g.modules) : h.modules[i] = Stripped(g.modules[i])
            /\ 12 \notin g.flags => h.records = <<>>
            /\ 12 \in g.flags =>
                 /\ IsSequence(h.records) /\ Len(h.records) = 2
                 /\ h.records[1] = g.records[RuntimeAt(g) + 1]
                 /\ h.records[2] = g.records[RuntimeAt(g) + 2]
<1> DEFINE new == [i \in DOMAIN g.modules |-> Stripped(g.modules[i])]
           flags == g.flags \cap ((0..3) \cup {10, 12})
           last == RuntimeAt(g)
           words == IF 12 \in g.flags THEN SubSeq(g.records, last + 1, last + 2) ELSE <<>>
           h == SourceOnly(g)
<1>1. /\ g = [entry |-> g.entry, flags |-> g.flags, argv |-> g.argv, structSize |-> g.structSize,
              modules |-> g.modules, records |-> g.records]
      /\ IsSequence(g.modules) /\ DOMAIN g.modules = 1..Len(g.modules) /\ Len(g.modules) \in Nat
      /\ \A i \in 1..Len(g.modules) : IsModule(g.modules[i])
  BY AsSeq DEF IsGraph
<1>2. h = [g EXCEPT !.flags = flags, !.modules = new, !.records = words]
  BY DEF SourceOnly, Stripped
<1>3. ASSUME NEW i \in 1..Len(g.modules)
      PROVE  /\ new[i] = Stripped(g.modules[i])
             /\ IsModule(new[i]) /\ SoundModule(new[i])
             /\ new[i].name = g.modules[i].name
             /\ new[i].info \in {g.modules[i].info, NoText}
             /\ new[i].origin \in {g.modules[i].origin, NoText}
  <2> DEFINE m == g.modules[i]
  <2>1. new[i] = Stripped(m)
    BY <1>1
  <2>2. IsModule(m) /\ SoundModule(m)
    BY <1>1 DEF SoundGraph
  <2> HIDE DEF m, new
  <2>3. QED
    BY <2>1, <2>2, StrippedIs, StrippedSound DEF m
<1>4. IsSequence(new) /\ Len(new) = Len(g.modules)
  <2>1. new = [i \in 1..Len(g.modules) |-> new[i]]
    BY <1>1
  <2> HIDE DEF new
  <2>2. QED
    BY <1>1, <2>1, MadeSequence
<1>5. /\ last \in Nat
      /\ Policy(g) = IF 12 \in g.flags THEN {last + 1, last + 2} ELSE {}
  BY DEF SoundGraph, SoundRecords
<1>6. /\ 12 \notin g.flags => words = <<>>
      /\ 12 \in g.flags =>
           /\ IsSequence(words) /\ Len(words) = 2
           /\ words[1] = g.records[last + 1] /\ words[2] = g.records[last + 2]
  <2>1. CASE 12 \in g.flags
    <3> DEFINE two == SubSeq(g.records, last + 1, last + 2)
    <3>1. /\ IsSequence(two)
          /\ Len(two) = IF last + 1 <= last + 2 THEN (last + 2) - (last + 1) + 1 ELSE 0
          /\ \A i \in 1..(last + 2) - (last + 1) + 1 : two[i] = g.records[(last + 1) + i - 1]
      BY <1>5, Part
    <3> HIDE DEF two, last
    <3>2. Len(two) = 2 /\ 1 \in 1..(last + 2) - (last + 1) + 1 /\ 2 \in 1..(last + 2) - (last + 1) + 1
      BY <1>5, <3>1
    <3>3. (last + 1) + 1 - 1 = last + 1 /\ (last + 1) + 2 - 1 = last + 2
      BY <1>5
    <3>4. two[1] = g.records[last + 1] /\ two[2] = g.records[last + 2]
      BY <3>1, <3>2, <3>3
    <3>5. words = two
      BY <2>1 DEF two, last
    <3> HIDE DEF words
    <3>6. QED
      BY <2>1, <3>1, <3>2, <3>4, <3>5
  <2>2. CASE 12 \notin g.flags
    BY <2>2
  <2>3. QED
    BY <2>1, <2>2
<1> HIDE DEF new, last, words, h
<1>7. /\ DOMAIN h = DOMAIN g /\ h = [k \in DOMAIN h |-> h[k]]
      /\ h.entry = g.entry /\ h.flags = flags /\ h.argv = g.argv
      /\ h.structSize = g.structSize /\ h.records = words /\ h.modules = new
  BY <1>1, <1>2
<1>8. h = [entry |-> h.entry, flags |-> h.flags, argv |-> h.argv, structSize |-> h.structSize,
           modules |-> h.modules, records |-> h.records]
  BY <1>1, <1>7
<1>9. ~Extended(h.flags) => h.records = <<>>
  <2>1. 12 \in h.flags <=> 12 \in g.flags
    BY <1>7
  <2>2. ~Extended(h.flags) => 12 \notin h.flags
    BY DEF Extended
  <2>3. QED
    BY <1>6, <1>7, <2>1, <2>2
<1>10. SoundRecords(h)
  <2>1. RuntimeAt(h) = 0
    <3>1. \A b \in {5, 6, 7, 8, 9, 11} : b \notin h.flags
      BY <1>7
    <3>2. QED
      BY <3>1 DEF RuntimeAt, Bit6, Bit11
  <2>2. CASE 12 \in g.flags
    <3>1. 12 \in h.flags
      BY <1>7, <2>2
    <3>2. \A i \in {last + 1, last + 2} : g.records[i].kind = "policy"
      BY <1>5, <2>2 DEF Policy
    <3>3. h.records[1].kind = "policy" /\ h.records[2].kind = "policy"
      BY <1>6, <1>7, <2>2, <3>2
    <3>4. IsSequence(h.records) /\ Len(h.records) = 2 /\ DOMAIN h.records = {1, 2}
      <4>1. IsSequence(h.records) /\ Len(h.records) = 2
        BY <1>6, <1>7, <2>2
      <4>2. DOMAIN h.records = 1..2
        BY <4>1, AsSeq
      <4>3. QED
        BY <4>1, <4>2
    <3>5. Policy(h) = {1, 2}
      BY <3>3, <3>4 DEF Policy
    <3>6. QED
      BY <2>1, <3>1, <3>4, <3>5 DEF SoundRecords
  <2>3. CASE 12 \notin g.flags
    <3>1. 12 \notin h.flags /\ h.records = <<>>
      BY <1>6, <1>7, <2>3
    <3>2. Policy(h) = {}
      BY <3>1 DEF Policy
    <3>3. QED
      BY <2>1, <3>1, <3>2, NoEntry DEF SoundRecords
  <2>4. QED
    BY <2>2, <2>3
<1>11. IsGraph(h) /\ SoundGraph(h)
  BY <1>3, <1>4, <1>7, <1>8, <1>9, <1>10, GraphKept
<1>12. QED
  BY <1>3, <1>4, <1>6, <1>7, <1>11 DEF h, last

\* The image a run writes: the one it read, or the layout of the changed graph.
LEMMA RebuiltSound ==
  ASSUME NEW g, IsGraph(g), SoundGraph(g), NEW original, SoundImage(original)
  PROVE  SoundImage(RebuildBlob(g, original))
<1>1. IsGraph(Rewritten(g)) /\ SoundGraph(Rewritten(g))
  BY SourceOnlyIs DEF Rewritten
<1>2. 0 \in Nat
  OBVIOUS
<1>3. QED
  BY <1>1, <1>2, LayoutSound DEF RebuildBlob

-----------------------------------------------------------------------------
(* The executable around the blob. *)

\* A place depends on the names alone.
LEMMA PlaceSame ==
  ASSUME NEW s, NEW t, IsSequence(s), IsSequence(t), Len(s) = Len(t),
         \A i \in 1..Len(s) : s[i].name = t[i].name, NEW name
  PROVE  Place(s, name) = Place(t, name)
<1> DEFINE k == Place(s, name)
           l == Place(t, name)
           n == Len(s)
<1>1. /\ k \in 0..n /\ n \in Nat
      /\ k = 0 => \A i \in 1..n : s[i].name # name
      /\ k # 0 => s[k].name = name
      /\ k # 0 => \A i \in 1..n : i < k => s[i].name # name
  BY FirstNamed, AsSeq
<1>2. /\ l \in 0..n
      /\ l = 0 => \A i \in 1..n : t[i].name # name
      /\ l # 0 => t[l].name = name
      /\ l # 0 => \A i \in 1..n : i < l => t[i].name # name
  BY FirstNamed
<1>3. \A i \in 1..n : s[i].name = t[i].name
  OBVIOUS
<1> HIDE DEF k, l, n
<1>4. k = 0 <=> l = 0
  BY <1>1, <1>2, <1>3
<1>5. k # 0 => ~(k < l) /\ ~(l < k)
  BY <1>1, <1>2, <1>3, <1>4
<1>6. QED
  BY <1>1, <1>2, <1>4, <1>5 DEF k, l

\* The section named .bun.
LEMMA BunIs ==
  ASSUME NEW exe, IsSequence(exe.sections), Bun(exe) # 0
  PROVE  /\ Bun(exe) = Place(exe.sections, ".bun") /\ Bun(exe) \in 1..Len(exe.sections)
         /\ BunSection(exe) = exe.sections[Bun(exe)] /\ BunSection(exe).name = ".bun"
<1>1. Bun(exe) = Place(exe.sections, ".bun")
  BY DEF Bun, Place
<1>2. QED
  BY <1>1, FirstNamed DEF BunSection

\* The header of a section and of a segment, as rewritten.
SectionOf(exe, image, i) ==
  LET bun == BunSection(exe)
  IN IF i = Bun(exe) THEN [bun EXCEPT !.size = 8 + image.size]
     ELSE Shifted(exe.sections[i], bun, 8 + image.size - bun.size)
LoadOf(exe, image, i) ==
  LET bun == BunSection(exe)
      delta == 8 + image.size - bun.size
  IN IF Maps(exe.loads[i], bun.addr) THEN Grown(exe.loads[i], delta)
     ELSE Shifted(exe.loads[i], bun, delta)

\* The fields of an ELF file that was written.
LEMMA ElfWritten ==
  ASSUME NEW exe, SoundElf(exe), NEW image
  PROVE  LET bun == BunSection(exe)
             delta == 8 + image.size - bun.size
             new == WriteElf(exe, image)
         IN /\ DOMAIN new = DOMAIN exe /\ new.magic = exe.magic
            /\ new.shoff = exe.shoff + delta
            /\ new.table = Moved(exe.table, bun, delta)
            /\ new.header.len = image.size
            /\ new.image = image
<1> DEFINE new == WriteElf(exe, image)
<1>1. DOMAIN exe = {"magic", "sections", "loads", "shoff", "table", "bodies", "header", "image"}
  BY DEF SoundElf
<1>2. DOMAIN new = DOMAIN exe /\ new.magic = exe.magic
  BY <1>1 DEF WriteElf
<1>3. new.image = image /\ new.header.len = image.size
  BY <1>1 DEF WriteElf
<1>4. QED
  BY <1>1, <1>2, <1>3 DEF WriteElf

\* A section, or a segment, that moves changes nothing else.
LEMMA SectionMoved ==
  ASSUME NEW s, DOMAIN s = {"name", "alloc", "addr", "off", "size"}, NEW bun, NEW delta
  PROVE  /\ DOMAIN Shifted(s, bun, delta) = {"name", "alloc", "addr", "off", "size"}
         /\ Shifted(s, bun, delta).name = s.name
         /\ Shifted(s, bun, delta).off = Moved(s.off, bun, delta)
BY DEF Shifted

LEMMA LoadMoved ==
  ASSUME NEW l, DOMAIN l = {"vaddr", "off", "filesz", "memsz"}, NEW bun, NEW delta
  PROVE  /\ DOMAIN Shifted(l, bun, delta) = DOMAIN l
         /\ Shifted(l, bun, delta).vaddr = l.vaddr
         /\ Shifted(l, bun, delta).filesz = l.filesz /\ Shifted(l, bun, delta).memsz = l.memsz
         /\ Shifted(l, bun, delta).off = Moved(l.off, bun, delta)
         /\ DOMAIN Grown(l, delta) = DOMAIN l
         /\ Grown(l, delta).vaddr = l.vaddr /\ Grown(l, delta).off = l.off
         /\ Grown(l, delta).filesz = l.filesz + delta /\ Grown(l, delta).memsz = l.memsz + delta
BY DEF Shifted, Grown

\* Offsets keep their distances but for that across .bun.
LEMMA OffsetsMoved ==
  ASSUME NEW bun, bun.off \in Nat, bun.size \in Nat, NEW size \in Nat,
         NEW o \in Nat, o > bun.off => o >= bun.off + bun.size
  PROVE  LET delta == 8 + size - bun.size
             to == Moved(o, bun, delta)
         IN /\ to \in Nat /\ (to > bun.off => to >= bun.off + (8 + size))
            /\ to > bun.off <=> o > bun.off
            /\ o > bun.off => to = o + delta
            /\ ~(o > bun.off) => to = o
BY DEF Moved

\* What ElfWritten says of one section and of one segment header.
LEMMA SectionsWritten ==
  ASSUME NEW exe, SoundElf(exe), NEW image, image.size \in Nat
  PROVE  LET bun == BunSection(exe)
             delta == 8 + image.size - bun.size
             new == WriteElf(exe, image)
         IN /\ IsSequence(new.sections) /\ Len(new.sections) = Len(exe.sections)
            /\ \A i \in 1..Len(exe.sections) :
                 /\ DOMAIN new.sections[i] = {"name", "alloc", "addr", "off", "size"}
                 /\ new.sections[i].name = exe.sections[i].name
                 /\ new.sections[i].off = Moved(exe.sections[i].off, bun, delta)
            /\ Bun(new) = Bun(exe)
            /\ BunSection(new).addr = bun.addr /\ BunSection(new).off = bun.off
            /\ BunSection(new).size = 8 + image.size
<1> DEFINE bun == BunSection(exe)
           delta == 8 + image.size - bun.size
           new == WriteElf(exe, image)
           at == Bun(exe)
           n == Len(exe.sections)
<1>1. /\ IsSequence(exe.sections) /\ DOMAIN exe.sections = 1..n /\ n \in Nat /\ at # 0
      /\ \A i \in 1..n : DOMAIN exe.sections[i] = {"name", "alloc", "addr", "off", "size"}
      /\ bun.off \in Nat
  BY AsSeq DEF SoundElf
<1>2. at \in 1..n /\ bun = exe.sections[at] /\ at = Place(exe.sections, ".bun")
  BY <1>1, BunIs
<1>3. new.sections = [i \in 1..n |-> SectionOf(exe, image, i)]
  <2>1. "sections" \in DOMAIN exe
    BY DEF SoundElf
  <2>2. new.sections = [i \in DOMAIN exe.sections |-> SectionOf(exe, image, i)]
    BY <2>1 DEF WriteElf, SectionOf
  <2>3. QED
    BY <1>1, <2>2
<1>4. new.sections = [i \in 1..n |-> new.sections[i]]
      /\ \A i \in 1..n : new.sections[i] = SectionOf(exe, image, i)
  BY <1>3
<1>5. new.sections[at] = [bun EXCEPT !.size = 8 + image.size]
      /\ \A i \in 1..n : i # at => new.sections[i] = Shifted(exe.sections[i], bun, delta)
  BY <1>2, <1>4 DEF SectionOf
<1> HIDE DEF new, bun, delta, at
<1>6. IsSequence(new.sections) /\ Len(new.sections) = n
  BY <1>1, <1>4, MadeSequence
<1>7. /\ DOMAIN new.sections[at] = {"name", "alloc", "addr", "off", "size"}
      /\ new.sections[at].name = bun.name /\ new.sections[at].addr = bun.addr
      /\ new.sections[at].off = bun.off /\ new.sections[at].size = 8 + image.size
  BY <1>1, <1>2, <1>5
<1>8. ASSUME NEW i \in 1..n
      PROVE  /\ DOMAIN new.sections[i] = {"name", "alloc", "addr", "off", "size"}
             /\ new.sections[i].name = exe.sections[i].name
             /\ new.sections[i].off = Moved(exe.sections[i].off, bun, delta)
  <2>1. CASE i = at
    <3>1. Moved(bun.off, bun, delta) = bun.off
      BY <1>1 DEF Moved, bun
    <3>2. QED
      BY <1>2, <1>7, <2>1, <3>1
  <2>2. CASE i # at
    <3> DEFINE s == exe.sections[i]
               t == new.sections[i]
    <3>1. DOMAIN s = {"name", "alloc", "addr", "off", "size"} /\ t = Shifted(s, bun, delta)
      BY <1>1, <1>5, <2>2
    <3> HIDE DEF s, t
    <3>2. /\ DOMAIN t = {"name", "alloc", "addr", "off", "size"}
          /\ t.name = s.name /\ t.off = Moved(s.off, bun, delta)
      BY <3>1, SectionMoved
    <3>3. QED
      BY <3>2 DEF s, t
  <2>3. QED
    BY <2>1, <2>2
<1>9. Bun(new) = at
  <2>1. Place(new.sections, ".bun") = Place(exe.sections, ".bun")
    BY <1>1, <1>6, <1>8, PlaceSame
  <2>2. Bun(new) = Place(new.sections, ".bun")
    BY DEF Bun, Place
  <2>3. QED
    BY <1>2, <2>1, <2>2
<1>10. BunSection(new) = new.sections[at]
  BY <1>9 DEF BunSection
<1>11. QED
  BY <1>6, <1>7, <1>8, <1>9, <1>10 DEF new, bun, delta, at

\* The segment that maps .bun grows around it.
LEMMA LoadsWritten ==
  ASSUME NEW exe, SoundElf(exe), NEW image, image.size \in Nat
  PROVE  LET bun == BunSection(exe)
             delta == 8 + image.size - bun.size
             new == WriteElf(exe, image)
         IN /\ IsSequence(new.loads) /\ Len(new.loads) = Len(exe.loads)
            /\ \A i \in 1..Len(exe.loads) :
                 LET l == exe.loads[i]  m == new.loads[i]
                 IN /\ DOMAIN m = {"vaddr", "off", "filesz", "memsz"}
                    /\ m.vaddr = l.vaddr /\ m.filesz \in Nat /\ m.memsz \in Nat
                    /\ m.off = Moved(l.off, bun, delta)
                    /\ Maps(m, bun.addr) <=> Maps(l, bun.addr)
                    /\ Maps(l, bun.addr) =>
                         /\ m.filesz <= m.memsz
                         /\ bun.addr + 8 + image.size <= m.vaddr + m.filesz
                         /\ bun.off - m.off = bun.addr - m.vaddr
                         /\ m.memsz - m.filesz = l.memsz - l.filesz
<1> DEFINE bun == BunSection(exe)
           delta == 8 + image.size - bun.size
           new == WriteElf(exe, image)
           n == Len(exe.loads)
<1>1. /\ IsSequence(exe.loads) /\ DOMAIN exe.loads = 1..n /\ n \in Nat
      /\ bun.off \in Nat /\ bun.size \in Nat /\ bun.addr \in Nat
  BY AsSeq DEF SoundElf
<1>2. ASSUME NEW i \in 1..n
      PROVE  LET l == exe.loads[i]
             IN /\ DOMAIN l = {"vaddr", "off", "filesz", "memsz"}
                /\ l.vaddr \in Nat /\ l.filesz \in Nat /\ l.memsz \in Nat
                /\ l.off \in Nat
                /\ Maps(l, bun.addr) =>
                     /\ l.filesz <= l.memsz /\ bun.addr + bun.size <= l.vaddr + l.filesz
                     /\ bun.off - l.off = bun.addr - l.vaddr
  <2>1. exe.loads[i].off \in {exe.loads[j].off : j \in DOMAIN exe.loads}
    BY <1>1
  <2>2. exe.loads[i].off \in Nat
    BY <2>1 DEF SoundElf
  <2>3. QED
    BY <1>1, <2>2 DEF SoundElf
<1>3. new.loads = [i \in 1..n |-> LoadOf(exe, image, i)]
  <2>1. "loads" \in DOMAIN exe
    BY DEF SoundElf
  <2>2. new.loads = [i \in DOMAIN exe.loads |-> LoadOf(exe, image, i)]
    BY <2>1 DEF WriteElf, LoadOf
  <2>3. QED
    BY <1>1, <2>2
<1>4. new.loads = [i \in 1..n |-> new.loads[i]]
      /\ \A i \in 1..n : new.loads[i] = LoadOf(exe, image, i)
  BY <1>3
<1>5. \A i \in 1..n :
        new.loads[i] = IF Maps(exe.loads[i], bun.addr) THEN Grown(exe.loads[i], delta)
                       ELSE Shifted(exe.loads[i], bun, delta)
  BY <1>4 DEF LoadOf
<1>6. delta = 8 + image.size - bun.size
  OBVIOUS
<1> HIDE DEF new, bun, delta
<1>7. IsSequence(new.loads) /\ Len(new.loads) = n
  BY <1>1, <1>4, MadeSequence
<1>8. ASSUME NEW i \in 1..n
      PROVE  LET l == exe.loads[i]  m == new.loads[i]
             IN /\ DOMAIN m = {"vaddr", "off", "filesz", "memsz"}
                /\ m.vaddr = l.vaddr /\ m.filesz \in Nat /\ m.memsz \in Nat
                /\ m.off = Moved(l.off, bun, delta)
                /\ Maps(m, bun.addr) <=> Maps(l, bun.addr)
                /\ Maps(l, bun.addr) =>
                     /\ m.filesz <= m.memsz
                     /\ bun.addr + 8 + image.size <= m.vaddr + m.filesz
                     /\ bun.off - m.off = bun.addr - m.vaddr
                     /\ m.memsz - m.filesz = l.memsz - l.filesz
  <2> DEFINE l == exe.loads[i]
             m == new.loads[i]
  <2>1. /\ DOMAIN l = {"vaddr", "off", "filesz", "memsz"}
        /\ l.vaddr \in Nat /\ l.filesz \in Nat /\ l.memsz \in Nat /\ l.off \in Nat
        /\ Maps(l, bun.addr) =>
             /\ l.filesz <= l.memsz /\ bun.addr + bun.size <= l.vaddr + l.filesz
             /\ bun.off - l.off = bun.addr - l.vaddr
    BY <1>2
  <2>2. m = IF Maps(l, bun.addr) THEN Grown(l, delta) ELSE Shifted(l, bun, delta)
    BY <1>5
  <2> HIDE DEF l, m
  <2>3. CASE Maps(l, bun.addr)
    <3>1. /\ DOMAIN m = {"vaddr", "off", "filesz", "memsz"}
          /\ m.vaddr = l.vaddr /\ m.off = l.off
          /\ m.filesz = l.filesz + delta /\ m.memsz = l.memsz + delta
      BY <2>1, <2>2, <2>3, LoadMoved
    <3>2. l.vaddr <= bun.addr /\ bun.addr < l.vaddr + l.memsz
      BY <2>3 DEF Maps
    <3>3. Moved(l.off, bun, delta) = l.off
      <4>1. ~(l.off > bun.off)
        BY <1>1, <2>1, <2>3, <3>2
      <4>2. QED
        BY <4>1 DEF Moved
    <3>4. /\ l.filesz + delta \in Nat /\ l.memsz + delta \in Nat
          /\ l.filesz + delta <= l.memsz + delta
          /\ bun.addr + 8 + image.size <= l.vaddr + (l.filesz + delta)
          /\ bun.addr < l.vaddr + (l.memsz + delta)
          /\ (l.memsz + delta) - (l.filesz + delta) = l.memsz - l.filesz
      <4> DEFINE a == bun.addr
                 held == bun.size
                 size == image.size
                 v == l.vaddr
                 f == l.filesz
                 z == l.memsz
      <4>1. /\ a \in Nat /\ held \in Nat /\ size \in Nat /\ v \in Nat /\ f \in Nat /\ z \in Nat
            /\ delta = 8 + size - held /\ f <= z /\ a + held <= v + f /\ v <= a
        BY <1>1, <1>6, <2>1, <2>3, <3>2
      <4> HIDE DEF a, held, size, v, f, z
      <4>2. /\ f + delta \in Nat /\ z + delta \in Nat /\ f + delta <= z + delta
            /\ a + 8 + size <= v + (f + delta) /\ a < v + (z + delta)
            /\ (z + delta) - (f + delta) = z - f
        BY <4>1
      <4>3. QED
        BY <4>2 DEF a, held, size, v, f, z
    <3>5. Maps(m, bun.addr)
      BY <3>1, <3>2, <3>4 DEF Maps
    <3>6. QED
      BY <2>1, <2>3, <3>1, <3>3, <3>4, <3>5 DEF l, m
  <2>4. CASE ~Maps(l, bun.addr)
    <3>1. /\ DOMAIN m = {"vaddr", "off", "filesz", "memsz"}
          /\ m.vaddr = l.vaddr /\ m.off = Moved(l.off, bun, delta)
          /\ m.filesz = l.filesz /\ m.memsz = l.memsz
      BY <2>1, <2>2, <2>4, LoadMoved
    <3>2. ~Maps(m, bun.addr)
      BY <2>4, <3>1 DEF Maps
    <3>3. QED
      BY <2>1, <2>4, <3>1, <3>2 DEF l, m
  <2>5. QED
    BY <2>3, <2>4
<1>9. QED
  BY <1>7, <1>8 DEF new, bun, delta

\* Every body lies where its section's header says.
LEMMA BodiesWritten ==
  ASSUME NEW exe, SoundElf(exe), NEW image, image.size \in Nat
  PROVE  LET bun == BunSection(exe)
             delta == 8 + image.size - bun.size
             new == WriteElf(exe, image)
         IN /\ \A o \in DOMAIN exe.bodies :
                 /\ Moved(o, bun, delta) \in DOMAIN new.bodies
                 /\ new.bodies[Moved(o, bun, delta)] = exe.bodies[o]
            /\ \A o \in DOMAIN new.bodies \cup {new.table} \cup {Moved(exe.loads[i].off, bun, delta) :
                                                                  i \in DOMAIN exe.loads} :
                 o \in Nat /\ (o > bun.off => o >= bun.off + (8 + image.size))
            /\ new.shoff = new.table /\ new.table > bun.off
<1> DEFINE bun == BunSection(exe)
           size == image.size
           delta == 8 + size - bun.size
           new == WriteElf(exe, image)
           bodies == exe.bodies
           to(o) == Moved(o, bun, delta)
           from(o) == CHOOSE b \in DOMAIN bodies : to(b) = o
           all == DOMAIN bodies \cup {exe.table} \cup {exe.loads[i].off : i \in DOMAIN exe.loads}
<1>1. /\ bun.off \in Nat /\ bun.size \in Nat /\ size \in Nat
      /\ exe.shoff = exe.table /\ exe.table > bun.off
      /\ \A o \in all : o \in Nat /\ (o > bun.off => o >= bun.off + bun.size)
  BY DEF SoundElf
<1>2. new.bodies = [o \in {to(o) : o \in DOMAIN bodies} |-> bodies[from(o)]]
  <2>1. "bodies" \in DOMAIN exe
    BY DEF SoundElf
  <2>2. QED
    BY <2>1 DEF WriteElf
<1>3. new.shoff = exe.shoff + delta /\ new.table = to(exe.table)
  BY ElfWritten
<1>4. \A o \in all :
        /\ to(o) \in Nat /\ (to(o) > bun.off => to(o) >= bun.off + (8 + size))
        /\ to(o) > bun.off <=> o > bun.off
        /\ o > bun.off => to(o) = o + delta
        /\ ~(o > bun.off) => to(o) = o
  <2> SUFFICES ASSUME NEW o \in all
               PROVE  /\ to(o) \in Nat /\ (to(o) > bun.off => to(o) >= bun.off + (8 + size))
                      /\ to(o) > bun.off <=> o > bun.off
                      /\ o > bun.off => to(o) = o + delta
                      /\ ~(o > bun.off) => to(o) = o
    OBVIOUS
  <2>1. o \in Nat /\ (o > bun.off => o >= bun.off + bun.size)
    BY <1>1
  <2> HIDE DEF bun, size, all
  <2>2. QED
    BY <1>1, <2>1, OffsetsMoved
<1>5. \A o \in DOMAIN bodies : o \in all
  OBVIOUS
<1>6. exe.table \in all /\ \A i \in DOMAIN exe.loads : exe.loads[i].off \in all
  OBVIOUS
<1>7. delta = 8 + size - bun.size /\ delta \in Int
  BY <1>1
<1> HIDE DEF bun, size, new, bodies, all, delta, to
<1>8. \A o, q \in DOMAIN bodies : to(o) = to(q) => o = q
  <2> SUFFICES ASSUME NEW o \in DOMAIN bodies, NEW q \in DOMAIN bodies, to(o) = to(q) PROVE o = q
    OBVIOUS
  <2>1. o \in Nat /\ q \in Nat
    BY <1>1, <1>5
  <2>2. o > bun.off <=> q > bun.off
    BY <1>4, <1>5
  <2>3. CASE o > bun.off
    BY <1>4, <1>5, <1>7, <2>1, <2>2, <2>3
  <2>4. CASE ~(o > bun.off)
    BY <1>4, <1>5, <2>2, <2>4
  <2>5. QED
    BY <2>3, <2>4
<1>9. \A o \in DOMAIN bodies : to(o) \in DOMAIN new.bodies /\ new.bodies[to(o)] = bodies[o]
  <2> SUFFICES ASSUME NEW o \in DOMAIN bodies
               PROVE  to(o) \in DOMAIN new.bodies /\ new.bodies[to(o)] = bodies[o]
    OBVIOUS
  <2>1. to(o) \in DOMAIN new.bodies /\ new.bodies[to(o)] = bodies[from(to(o))]
    BY <1>2
  <2>2. from(to(o)) \in DOMAIN bodies /\ to(from(to(o))) = to(o)
    OBVIOUS
  <2>3. from(to(o)) = o
    BY <1>8, <2>2
  <2>4. QED
    BY <2>1, <2>3
<1>10. \A o \in DOMAIN new.bodies \cup {new.table} \cup {to(exe.loads[i].off) : i \in DOMAIN exe.loads} :
         \E q \in all : o = to(q)
  BY <1>2, <1>3, <1>5, <1>6
<1>11. new.shoff = new.table /\ new.table > bun.off
  BY <1>1, <1>3, <1>4, <1>6
<1>12. QED
  BY <1>4, <1>9, <1>10, <1>11 DEF bun, size, new, bodies, delta, to

\* A written ELF file is sound.
LEMMA ElfSound ==
  ASSUME NEW exe, SoundElf(exe), NEW image, image.size \in Nat
  PROVE  SoundElf(WriteElf(exe, image))
<1> DEFINE bun == BunSection(exe)
           size == image.size
           delta == 8 + size - bun.size
           new == WriteElf(exe, image)
           to(o) == Moved(o, bun, delta)
           n == Len(exe.sections)
           m == Len(exe.loads)
<1>1. /\ bun.addr \in Nat /\ bun.addr % 128 = 0 /\ bun.off \in Nat /\ size \in Nat
      /\ IsSequence(exe.sections) /\ Bun(exe) # 0 /\ IsSequence(exe.loads)
      /\ DOMAIN exe = {"magic", "sections", "loads", "shoff", "table", "bodies", "header", "image"}
      /\ \A i \in DOMAIN exe.sections :
           exe.sections[i].off \in DOMAIN exe.bodies
           /\ exe.bodies[exe.sections[i].off] = exe.sections[i].name
      /\ \A i \in DOMAIN exe.loads : exe.loads[i].vaddr \in Nat
  BY DEF SoundElf
<1>2. DOMAIN exe.sections = 1..n /\ DOMAIN exe.loads = 1..m
  BY <1>1, AsSeq
<1>3. DOMAIN new = DOMAIN exe /\ new.image = image
  BY ElfWritten
<1>4. /\ IsSequence(new.sections) /\ Len(new.sections) = n
      /\ \A i \in 1..n :
           /\ DOMAIN new.sections[i] = {"name", "alloc", "addr", "off", "size"}
           /\ new.sections[i].name = exe.sections[i].name
           /\ new.sections[i].off = to(exe.sections[i].off)
      /\ Bun(new) = Bun(exe)
      /\ BunSection(new).addr = bun.addr /\ BunSection(new).off = bun.off
      /\ BunSection(new).size = 8 + size
  BY SectionsWritten
<1>5. /\ IsSequence(new.loads) /\ Len(new.loads) = m
      /\ \A i \in 1..m :
           /\ DOMAIN new.loads[i] = {"vaddr", "off", "filesz", "memsz"}
           /\ new.loads[i].vaddr = exe.loads[i].vaddr
           /\ new.loads[i].filesz \in Nat /\ new.loads[i].memsz \in Nat
           /\ new.loads[i].off = to(exe.loads[i].off)
           /\ Maps(new.loads[i], bun.addr) =>
                /\ new.loads[i].filesz <= new.loads[i].memsz
                /\ bun.addr + 8 + size <= new.loads[i].vaddr + new.loads[i].filesz
                /\ bun.off - new.loads[i].off = bun.addr - new.loads[i].vaddr
  BY LoadsWritten
<1>6. /\ \A o \in DOMAIN exe.bodies :
           to(o) \in DOMAIN new.bodies /\ new.bodies[to(o)] = exe.bodies[o]
      /\ \A o \in DOMAIN new.bodies \cup {new.table} \cup {to(exe.loads[i].off) : i \in DOMAIN exe.loads} :
           o \in Nat /\ (o > bun.off => o >= bun.off + (8 + size))
      /\ new.shoff = new.table /\ new.table > bun.off
  BY BodiesWritten
<1> HIDE DEF new, to, bun, size, delta
<1>7. DOMAIN new.sections = 1..n /\ DOMAIN new.loads = 1..m
  BY <1>4, <1>5, AsSeq
<1>8. \A i \in DOMAIN new.sections :
        /\ DOMAIN new.sections[i] = {"name", "alloc", "addr", "off", "size"}
        /\ new.sections[i].off \in DOMAIN new.bodies
        /\ new.bodies[new.sections[i].off] = new.sections[i].name
  BY <1>1, <1>2, <1>4, <1>6, <1>7
<1>9. \A o \in DOMAIN new.bodies \cup {new.table} \cup {new.loads[i].off : i \in DOMAIN new.loads} :
        o \in Nat /\ (o > bun.off => o >= bun.off + (8 + size))
  BY <1>2, <1>5, <1>6, <1>7
<1>10. \A i \in DOMAIN new.loads :
         /\ DOMAIN new.loads[i] = {"vaddr", "off", "filesz", "memsz"}
         /\ new.loads[i].vaddr \in Nat
         /\ new.loads[i].filesz \in Nat /\ new.loads[i].memsz \in Nat
         /\ Maps(new.loads[i], bun.addr) =>
              /\ new.loads[i].filesz <= new.loads[i].memsz
              /\ bun.addr + (8 + size) <= new.loads[i].vaddr + new.loads[i].filesz
              /\ bun.off - new.loads[i].off = bun.addr - new.loads[i].vaddr
  <2> SUFFICES ASSUME NEW i \in 1..m
               PROVE  /\ DOMAIN new.loads[i] = {"vaddr", "off", "filesz", "memsz"}
                      /\ new.loads[i].vaddr \in Nat
                      /\ new.loads[i].filesz \in Nat /\ new.loads[i].memsz \in Nat
                      /\ Maps(new.loads[i], bun.addr) =>
                           /\ new.loads[i].filesz <= new.loads[i].memsz
                           /\ bun.addr + (8 + size) <= new.loads[i].vaddr + new.loads[i].filesz
                           /\ bun.off - new.loads[i].off = bun.addr - new.loads[i].vaddr
    BY <1>7
  <2>1. exe.loads[i].vaddr \in Nat
    BY <1>1, <1>2
  <2>2. bun.addr + 8 + size = bun.addr + (8 + size)
    BY <1>1
  <2>3. QED
    BY <1>5, <2>1, <2>2
<1>11. SoundElf(new)
  <2> DEFINE b == BunSection(new)
  <2>1. b.addr = bun.addr /\ b.off = bun.off /\ b.size = 8 + size
    BY <1>4
  <2>2. b.addr \in Nat /\ b.addr % 128 = 0 /\ b.off \in Nat /\ b.size \in Nat
        /\ 8 + new.image.size <= b.size
    BY <1>1, <1>3, <2>1 DEF size
  <2>3. IsSequence(new.sections) /\ Bun(new) # 0 /\ IsSequence(new.loads)
    BY <1>1, <1>4, <1>5
  <2>4. DOMAIN new = {"magic", "sections", "loads", "shoff", "table", "bodies", "header", "image"}
    BY <1>1, <1>3
  <2>5. new.shoff = new.table /\ new.table > b.off
    BY <1>6, <2>1
  <2>6. \A o \in DOMAIN new.bodies \cup {new.table} \cup {new.loads[i].off : i \in DOMAIN new.loads} :
          o \in Nat /\ (o > b.off => o >= b.off + b.size)
    BY <1>9, <2>1
  <2>7. \A i \in DOMAIN new.loads :
         /\ DOMAIN new.loads[i] = {"vaddr", "off", "filesz", "memsz"}
         /\ new.loads[i].vaddr \in Nat
         /\ new.loads[i].filesz \in Nat /\ new.loads[i].memsz \in Nat
         /\ Maps(new.loads[i], b.addr) =>
              /\ new.loads[i].filesz <= new.loads[i].memsz
              /\ b.addr + b.size <= new.loads[i].vaddr + new.loads[i].filesz
              /\ b.off - new.loads[i].off = b.addr - new.loads[i].vaddr
    BY <1>10, <2>1
  <2> HIDE DEF b
  <2>8. QED
    BY <1>8, <2>2, <2>3, <2>4, <2>5, <2>6, <2>7 DEF SoundElf, b
<1>12. QED
  BY <1>11 DEF new

\* What rounding up returns.
LEMMA RoundedUp ==
  ASSUME NEW n \in Nat, NEW page \in {4096, 16384}
  PROVE  RoundUp(n, page) \in Nat /\ RoundUp(n, page) >= n
<1>1. CASE page = 4096
  BY <1>1 DEF RoundUp
<1>2. CASE page = 16384
  BY <1>2 DEF RoundUp
<1>3. QED
  BY <1>1, <1>2

\* A written Mach-O section fits its segment.
LEMMA MachoWritten ==
  ASSUME NEW exe, SoundMacho(exe), exe.header.len = exe.image.size,
         exe.image.size \in Nat, NEW image, image.size \in Nat
  PROVE  LET new == WriteMacho(exe, image)
         IN /\ SoundMacho(new) /\ new.magic = exe.magic
            /\ new.header.len = image.size /\ new.image = image /\ new.signs = image
            /\ new.header.bytes = exe.header.bytes
            /\ new.section = new.header.bytes + image.size /\ new.section <= new.segment
<1> DEFINE new == WriteMacho(exe, image)
           bytes == DetectHeaderSize(exe)
           content == bytes + image.size
           diff == content - exe.section
           segment == IF diff > 0 THEN exe.segment + RoundUp(diff, PageOf(exe)) ELSE exe.segment
<1>1. /\ DOMAIN exe = {"magic", "hasBun", "arm64", "section", "segment", "header", "signs", "image"}
      /\ exe.header.bytes \in {4, 8} /\ exe.section \in Nat /\ exe.segment \in Nat
      /\ exe.header.bytes + exe.image.size <= exe.section /\ exe.section <= exe.segment
  BY DEF SoundMacho
<1>2. bytes = exe.header.bytes
  <2>1. exe.header.bytes = 8 => 8 + exe.header.len <= exe.section
    BY <1>1
  <2>2. QED
    BY <1>1, <2>1 DEF DetectHeaderSize
<1>3. /\ DOMAIN new = DOMAIN exe /\ new.magic = exe.magic
      /\ new.segment = segment /\ new.section = content
      /\ new.signs = image /\ new.image = image
      /\ new.header.bytes = bytes /\ new.header.len = image.size
  BY <1>1 DEF WriteMacho
<1>4. content \in Nat
  BY <1>1, <1>2
<1>5. PageOf(exe) \in {4096, 16384}
  BY DEF PageOf, PageArm64, PageX86
<1>6. segment \in Nat /\ content <= segment
  <2>1. CASE diff > 0
    <3>1. diff \in Nat
      BY <1>1, <1>4, <2>1
    <3>2. RoundUp(diff, PageOf(exe)) \in Nat /\ RoundUp(diff, PageOf(exe)) >= diff
      BY <1>5, <3>1, RoundedUp
    <3>3. QED
      BY <1>1, <1>4, <2>1, <3>2
  <2>2. CASE ~(diff > 0)
    BY <1>1, <1>4, <2>2
  <2>3. QED
    BY <2>1, <2>2
<1> HIDE DEF new, bytes, content, segment
<1>7. content = new.header.bytes + image.size
  BY <1>3 DEF content
<1>8. SoundMacho(new)
  BY <1>1, <1>2, <1>3, <1>4, <1>6, <1>7 DEF SoundMacho
<1>9. QED
  BY <1>2, <1>3, <1>6, <1>7, <1>8 DEF new

\* A rewritten executable is one that can be read again.
LEMMA WrittenSound ==
  ASSUME NEW exe, SoundFile(exe), NEW image, SoundImage(image)
  PROVE  LET new == WriteBlob(exe, image)
         IN /\ SoundFile(new) /\ (Elf(new) <=> Elf(exe))
            /\ new.header.len = image.size /\ new.image = image
<1>1. image.size \in Nat /\ exe.image.size \in Nat /\ exe.header.len = exe.image.size
  BY DEF SoundImage, SoundFile
<1>2. CASE Elf(exe)
  <2> DEFINE new == WriteElf(exe, image)
  <2>1. WriteBlob(exe, image) = new /\ SoundElf(exe)
    BY <1>2 DEF WriteBlob, SoundFile
  <2>2. new.magic = exe.magic /\ new.header.len = image.size /\ new.image = image
    BY <2>1, ElfWritten
  <2>3. SoundElf(new)
    BY <1>1, <2>1, ElfSound
  <2> HIDE DEF new
  <2>4. Elf(new)
    BY <1>2, <2>2 DEF Elf
  <2>5. QED
    BY <1>2, <2>1, <2>2, <2>3, <2>4 DEF SoundFile
<1>3. CASE ~Elf(exe)
  <2> DEFINE new == WriteMacho(exe, image)
  <2>1. WriteBlob(exe, image) = new /\ SoundMacho(exe)
    BY <1>3 DEF WriteBlob, SoundFile
  <2>2. /\ SoundMacho(new) /\ new.magic = exe.magic
        /\ new.header.len = image.size /\ new.image = image
    BY <1>1, <2>1, MachoWritten
  <2> HIDE DEF new
  <2>3. ~Elf(new)
    BY <1>3, <2>2 DEF Elf
  <2>4. QED
    BY <1>3, <2>1, <2>2, <2>3 DEF SoundFile
<1>4. QED
  BY <1>2, <1>3

-----------------------------------------------------------------------------
(* The run. *)

\* What is on disk and in memory are executables that can be read.
FilesInv ==
  /\ Unreadable \/ SoundFile(Data)
  /\ step \in {"verifying", "staging", "version", "help", "publishing", "writing", "chmod"} =>
       SoundFile(built)

\* The source as taken out, and rewritten so far.
SourceInv == ~Unreadable /\ ~InvalidEntry(Graph(Data)) /\ IsSequence(source)

\* The graph a run writes.
Changed == Transformed(Graph(Data), Finalized(source), cmd.zero)

\* What the rewritten executable was made of, until it is staged.
BuiltInv ==
  /\ ~BoundaryChanged(Finalized(source), SourceModules(Graph(Data)))
  /\ built = WriteBlob(Data, RebuildBlob(Changed, ReadBlob(Data)))

RewriteInv ==
  /\ FilesInv
  /\ step = "patching" => next \in Nat /\ SourceInv
  /\ step \in {"verifying", "staging"} => SourceInv /\ BuiltInv
  /\ step = "staging" => Count(EntrySource(built), "expanded-render") # 0

\* An executable that can be read holds a graph whose source is a sequence.
LEMMA TakenIs ==
  ASSUME NEW exe, SoundFile(exe)
  PROVE  /\ ReadBlob(exe) = exe.image /\ SoundImage(ReadBlob(exe))
         /\ IsGraph(Graph(exe)) /\ SoundGraph(Graph(exe))
         /\ ~InvalidEntry(Graph(exe)) => IsSequence(EntrySource(exe))
<1>1. ReadBlob(exe) = exe.image /\ SoundImage(ReadBlob(exe))
  BY DEF ReadBlob, SoundFile
<1> DEFINE g == Graph(exe)
<1>2. IsGraph(g) /\ SoundGraph(g)
  BY <1>1, ParsedIs DEF Graph
<1>3. ASSUME ~InvalidEntry(g) PROVE IsSequence(EntrySource(exe))
  <2> DEFINE modules == SourceModules(g)
  <2>1. /\ IsSequence(modules)
        /\ \A i \in 1..Len(modules) : \E j \in 1..Len(g.modules) : modules[i] = g.modules[j]
    BY <1>2, <1>3, SourcesAre
  <2>2. DOMAIN g.modules = 1..Len(g.modules)
    BY <1>2, AsSeq DEF IsGraph
  <2>3. \A j \in DOMAIN g.modules : IsSequence(g.modules[j].contents.of)
    BY <1>2 DEF SoundGraph, SoundModule
  <2> HIDE DEF modules, g
  <2>4. \A i \in 1..Len(modules) : IsSequence(modules[i].contents.of)
    BY <2>1, <2>2, <2>3
  <2>5. IsSequence(GraphSource(modules))
    BY <2>1, <2>4, SourceSequence
  <2>6. QED
    BY <2>5 DEF EntrySource, modules, g
<1>4. QED
  BY <1>1, <1>2, <1>3

\* What a run makes of an executable can be read.
LEMMA MadeIs ==
  ASSUME NEW exe, SoundFile(exe), ~InvalidEntry(Graph(exe)), NEW src, IsSequence(src),
         ~BoundaryChanged(src, SourceModules(Graph(exe))), NEW zero
  PROVE  LET g == Transformed(Graph(exe), src, zero)
             image == RebuildBlob(g, ReadBlob(exe))
             new == WriteBlob(exe, image)
         IN /\ SoundImage(image) /\ SoundFile(new) /\ (Elf(new) <=> Elf(exe))
            /\ ReadBlob(new) = image /\ new.image = image
<1> DEFINE old == Graph(exe)
           g == Transformed(old, src, zero)
           image == RebuildBlob(g, ReadBlob(exe))
           new == WriteBlob(exe, image)
<1>1. IsGraph(old) /\ SoundGraph(old) /\ SoundImage(ReadBlob(exe))
  BY TakenIs
<1>2. IsGraph(g) /\ SoundGraph(g)
  <2> HIDE DEF old
  <2>1. ~InvalidEntry(old) /\ ~BoundaryChanged(src, SourceModules(old))
    BY DEF old
  <2>2. QED
    BY <1>1, <2>1, TransformedIs
<1> HIDE DEF g
<1>3. SoundImage(image)
  BY <1>1, <1>2, RebuiltSound
<1> HIDE DEF image
<1>4. SoundFile(new) /\ (Elf(new) <=> Elf(exe)) /\ new.header.len = image.size /\ new.image = image
  BY <1>3, WrittenSound
<1>5. ReadBlob(new) = image
  BY <1>4 DEF ReadBlob
<1>6. QED
  BY <1>3, <1>4, <1>5 DEF new, image, g

\* The invariant holds at first,
LEMMA RewriteInit == Init => RewriteInv
<1> SUFFICES ASSUME Init PROVE RewriteInv
  OBVIOUS
<1>1. step = "idle"
  BY DEF Init
<1>2. PICK b \in Binaries : disk = [p \in {"in", "out"} |-> IF p = "in" THEN Whole(b.file, TRUE) ELSE Absent]
  BY DEF Init
<1>3. Data = b.file
  BY <1>2 DEF Data, Whole
<1>4. Unreadable \/ SoundFile(Data)
  BY <1>2, <1>3, BinariesAssumption DEF Unreadable
<1>5. QED
  BY <1>1, <1>4 DEF RewriteInv, FilesInv

\* Steps that leave the disk alone and end the run, or wait for the next.
LEMMA RewriteEnds ==
  ASSUME RewriteInv, disk' = disk, step' \in {"ended", "idle"}
  PROVE  RewriteInv'
BY DEF RewriteInv, FilesInv, Unreadable, Data

\* when a run starts,
LEMMA RewriteStart ==
  ASSUME RewriteInv, NEW v, NEW zero, NEW smoke, NEW out, Start(v, zero, smoke, out)
  PROVE  RewriteInv'
<1>1. disk' = disk
  BY DEF Start
<1>2. CASE step' = "ended"
  BY <1>1, <1>2, RewriteEnds
<1>3. CASE step' # "ended"
  <2>1. /\ ~Unreadable /\ ~InvalidEntry(Graph(Data)) /\ next' = 0
        /\ step' = "patching" /\ source' = EntrySource(Data)
    BY <1>3 DEF Start, End
  <2>2. SoundFile(Data)
    BY <2>1 DEF RewriteInv, FilesInv
  <2>3. IsSequence(source')
    BY <2>1, <2>2, TakenIs
  <2>4. FilesInv'
    BY <1>1, <2>1, <2>2 DEF FilesInv, Data
  <2>5. SourceInv'
    BY <1>1, <2>1, <2>3 DEF SourceInv, Unreadable, Data
  <2>6. QED
    BY <2>1, <2>4, <2>5 DEF RewriteInv
<1>4. QED
  BY <1>2, <1>3

\* when a set is applied,
LEMMA RewriteApply ==
  ASSUME RewriteInv, ApplyNext
  PROVE  RewriteInv'
<1> DEFINE set == Sets[next + 1]
<1>1. /\ disk' = disk /\ step = "patching" /\ next < Len(Sets)
      /\ IF ApplySet(set, source).ok
           THEN next' = next + 1 /\ source' = ApplySet(set, source).source /\ step' = step
           ELSE step' = "ended"
  BY DEF ApplyNext, End
<1>2. next \in Nat /\ SourceInv
  BY <1>1 DEF RewriteInv
<1>3. CASE step' = "ended"
  BY <1>1, <1>3, RewriteEnds
<1>4. CASE step' # "ended"
  <2>1. next' = next + 1 /\ source' = ApplySet(set, source).source /\ step' = "patching"
        /\ ApplySet(set, source).ok
    BY <1>1, <1>4
  <2>2. AreSets(Sets)
    BY AdmittedSets DEF Sets
  <2>3. next + 1 \in DOMAIN Sets
    <3>1. DOMAIN Sets = 1..Len(Sets) /\ Len(Sets) \in Nat
      BY <2>2, AsSeq DEF AreSets
    <3>2. QED
      BY <1>1, <1>2, <3>1
  <2>4. IsPatchSet(set)
    BY <2>2, <2>3 DEF AreSets
  <2> HIDE DEF set
  <2>5. IsSequence(source')
    BY <1>2, <2>1, <2>4, SetApplied DEF SourceInv
  <2>6. SourceInv'
    BY <1>1, <1>2, <2>5 DEF SourceInv, Unreadable, Data
  <2>7. FilesInv'
    BY <1>1, <2>1 DEF RewriteInv, FilesInv, Unreadable, Data
  <2>8. next' \in Nat
    BY <1>2, <2>1
  <2>9. QED
    BY <2>1, <2>6, <2>7, <2>8 DEF RewriteInv
<1>5. QED
  BY <1>3, <1>4

\* when the executable is laid out,
LEMMA RewriteBuilds ==
  ASSUME RewriteInv, Rebuild
  PROVE  RewriteInv'
<1> DEFINE g == Graph(Data)
           src == Finalized(source)
           changed == Transformed(g, src, cmd.zero)
           image == RebuildBlob(changed, ReadBlob(Data))
<1>1. disk' = disk /\ step = "patching" /\ cmd' = cmd
  BY DEF Rebuild
<1>2. SourceInv /\ SoundFile(Data)
  BY <1>1 DEF RewriteInv, SourceInv, FilesInv
<1>3. CASE step' = "ended"
  BY <1>1, <1>3, RewriteEnds
<1>4. CASE step' # "ended"
  <2>1. /\ ~BoundaryChanged(src, SourceModules(g)) /\ built' = WriteBlob(Data, image)
        /\ step' = "verifying" /\ source' = source
    BY <1>4 DEF Rebuild, End
  <2>2. IsSequence(src)
    BY <1>2, FinalSequence DEF SourceInv
  <2>3. SoundFile(built')
    <3>1. ~InvalidEntry(g)
      BY <1>2 DEF SourceInv
    <3>2. QED
      BY <1>2, <2>1, <2>2, <3>1, MadeIs
  <2>4. FilesInv'
    BY <1>1, <1>2, <2>3 DEF FilesInv, Data
  <2>5. SourceInv'
    BY <1>1, <1>2, <2>1 DEF SourceInv, Unreadable, Data
  <2>6. BuiltInv'
    BY <1>1, <2>1 DEF BuiltInv, Changed, Data
  <2>7. QED
    BY <2>1, <2>4, <2>5, <2>6 DEF RewriteInv
<1>5. QED
  BY <1>3, <1>4

\* when it is read back, staged and started,
LEMMA RewriteChecks ==
  ASSUME RewriteInv, Verify \/ Stage \/ Smoke
  PROVE  RewriteInv'
<1>1. disk' = disk /\ cmd' = cmd /\ built' = built
  BY DEF Verify, Stage, Smoke
<1>2. CASE step' = "ended"
  BY <1>1, <1>2, RewriteEnds
<1>3. CASE step' # "ended"
  <2>1. \/ step = "verifying" /\ step' = "staging" /\ source' = source
        \/ step \in {"staging", "version", "help"} /\ step' \in {"version", "help", "publishing"}
    BY <1>3 DEF Verify, Stage, Smoke, End
  <2>2. FilesInv'
    BY <1>1, <2>1 DEF RewriteInv, FilesInv, Unreadable, Data
  <2>3. step' = "staging" => SourceInv' /\ BuiltInv'
    BY <1>1, <2>1 DEF RewriteInv, SourceInv, BuiltInv, Changed, Unreadable, Data
  <2>4. step' = "staging" => Count(EntrySource(built), "expanded-render") # 0
    BY <2>1 DEF Verify, Stage, Smoke, End
  <2>5. QED
    BY <1>1, <2>1, <2>2, <2>3, <2>4 DEF RewriteInv
<1>4. QED
  BY <1>2, <1>3

\* and when it is written over the output, which may be the next run's input:
LEMMA Published ==
  ASSUME ApplyInv, Truncate \/ Write \/ Chmod
  PROVE  \/ ~disk'["in"].whole
         \/ disk'["in"].file = built
         \/ disk'["in"].whole = disk["in"].whole /\ disk'["in"].file = disk["in"].file
<1>1. DOMAIN disk = {"in", "out"} /\ cmd.out \in {"in", "out"}
  BY DEF ApplyInv, CommandInv, Paths
<1>2. CASE cmd.out = "in"
  <2>1. CASE Truncate
    BY <1>1, <1>2, <2>1 DEF Truncate, Partial
  <2>2. CASE Write
    BY <1>1, <1>2, <2>2 DEF Write, Whole
  <2>3. CASE Chmod
    <3>1. disk' = [disk EXCEPT ![cmd.out] = [disk[cmd.out] EXCEPT !.exec = TRUE]]
      BY <2>3 DEF Chmod
    <3>2. disk[cmd.out] = Whole(built, cmd.before.exec)
      BY <2>3 DEF Chmod, ApplyInv, OutputInv
    <3>3. QED
      BY <1>1, <1>2, <3>1, <3>2 DEF Whole
  <2>4. QED
    BY <2>1, <2>2, <2>3
<1>3. CASE cmd.out # "in"
  BY <1>1, <1>3 DEF Truncate, Write, Chmod
<1>4. QED
  BY <1>2, <1>3

LEMMA RewritePublishes ==
  ASSUME RewriteInv, ApplyInv, Truncate \/ Write \/ Chmod
  PROVE  RewriteInv'
<1>1. /\ built' = built
      /\ step \in {"publishing", "writing", "chmod"} /\ step' \in {"writing", "chmod", "ended"}
  BY DEF Truncate, Write, Chmod, End
<1>2. SoundFile(built) /\ (Unreadable \/ SoundFile(Data))
  BY <1>1 DEF RewriteInv, FilesInv
<1>3. (Unreadable \/ SoundFile(Data))'
  BY <1>2, Published DEF Unreadable, Data
<1>4. QED
  BY <1>1, <1>2, <1>3 DEF RewriteInv, FilesInv

\* Every step keeps it.
LEMMA RewriteNext == RewriteInv /\ ApplyInv /\ [Next]_vars => RewriteInv'
<1> SUFFICES ASSUME RewriteInv, ApplyInv, [Next]_vars PROVE RewriteInv'
  OBVIOUS
<1>1. CASE \E v \in VersionTexts \cup {cmd.release}, zero, smoke \in BOOLEAN, out \in {"in", "out"} :
             Start(v, zero, smoke, out)
  BY <1>1, RewriteStart
<1>2. CASE ApplyNext
  BY <1>2, RewriteApply
<1>3. CASE Rebuild
  BY <1>3, RewriteBuilds
<1>4. CASE Verify \/ Stage \/ Smoke
  BY <1>4, RewriteChecks
<1>5. CASE Truncate \/ Write \/ Chmod
  BY <1>5, RewritePublishes
<1>6. CASE SignFails \/ SmokeFails \/ WriteFails \/ Kill \/ Again
  BY <1>6, RewriteEnds DEF SignFails, SmokeFails, WriteFails, Kill, Again, End
<1>7. CASE UNCHANGED vars
  BY <1>7 DEF vars, RewriteInv, FilesInv, SourceInv, BuiltInv, Changed, Unreadable, Data
<1>8. QED
  BY <1>1, <1>2, <1>3, <1>4, <1>5, <1>6, <1>7 DEF Next

\* What the loader goes by, of an ELF file.
ElfFound(old, new, image) ==
  LET bun == BunSection(new)
  IN /\ \A i \in DOMAIN new.sections :
          /\ new.sections[i].off \in DOMAIN new.bodies
          /\ new.bodies[new.sections[i].off] = new.sections[i].name
     /\ new.shoff = new.table
     /\ <<bun.addr, bun.off>> = <<BunSection(old).addr, BunSection(old).off>>
     /\ \E i \in DOMAIN new.loads :
          LET l == new.loads[i]
          IN /\ Maps(l, bun.addr)
             /\ bun.addr + 8 + image.size <= l.vaddr + l.filesz
             /\ bun.off - l.off = bun.addr - l.vaddr
             /\ l.memsz - l.filesz = old.loads[i].memsz - old.loads[i].filesz
     /\ \A o \in DOMAIN image.strings :
          image.strings[o].is = "bytecode" => (bun.addr + 8 + o) % 128 = 0

\* A written ELF file has what the loader goes by.
LEMMA ElfLoads ==
  ASSUME NEW exe, SoundElf(exe), ~ElfLayoutError(exe), NEW image, SoundImage(image)
  PROVE  ElfFound(exe, WriteElf(exe, image), image)
<1> DEFINE bun == BunSection(exe)
           new == WriteElf(exe, image)
           at == BunSection(new)
           n == Len(exe.loads)
<1>1. image.size \in Nat /\ \A o \in DOMAIN image.strings :
        o \in Nat /\ (image.strings[o].is = "bytecode" => (8 + o) % 128 = 0)
  BY DEF SoundImage
<1>2. /\ at.addr = bun.addr /\ at.off = bun.off
  BY <1>1, SectionsWritten
<1>3. /\ bun.addr \in Nat /\ bun.addr % 128 = 0
      /\ DOMAIN exe.loads = 1..n
  BY AsSeq DEF SoundElf
<1>4. SoundElf(new)
  BY <1>1, ElfSound
<1>5. /\ IsSequence(new.loads) /\ Len(new.loads) = n
      /\ \A i \in 1..n :
           /\ Maps(new.loads[i], bun.addr) <=> Maps(exe.loads[i], bun.addr)
           /\ Maps(exe.loads[i], bun.addr) =>
                /\ bun.addr + 8 + image.size <= new.loads[i].vaddr + new.loads[i].filesz
                /\ bun.off - new.loads[i].off = bun.addr - new.loads[i].vaddr
                /\ new.loads[i].memsz - new.loads[i].filesz = exe.loads[i].memsz - exe.loads[i].filesz
  BY <1>1, LoadsWritten
<1>6. PICK i \in 1..n : Maps(exe.loads[i], bun.addr)
  BY <1>3 DEF ElfLayoutError
<1> HIDE DEF new, bun, at
<1>7. DOMAIN new.loads = 1..n
  BY <1>5, AsSeq
<1>8. /\ Maps(new.loads[i], at.addr)
      /\ at.addr + 8 + image.size <= new.loads[i].vaddr + new.loads[i].filesz
      /\ at.off - new.loads[i].off = at.addr - new.loads[i].vaddr
      /\ new.loads[i].memsz - new.loads[i].filesz = exe.loads[i].memsz - exe.loads[i].filesz
  BY <1>2, <1>5, <1>6
<1>9. \A o \in DOMAIN image.strings :
        image.strings[o].is = "bytecode" => (at.addr + 8 + o) % 128 = 0
  <2> SUFFICES ASSUME NEW o \in DOMAIN image.strings, image.strings[o].is = "bytecode"
               PROVE  (at.addr + 8 + o) % 128 = 0
    OBVIOUS
  <2> DEFINE a == at.addr
  <2>1. a \in Nat /\ a % 128 = 0 /\ o \in Nat /\ (8 + o) % 128 = 0
    BY <1>1, <1>2, <1>3
  <2> HIDE DEF a
  <2>2. (a + 8 + o) % 128 = 0
    BY <2>1
  <2>3. QED
    BY <2>2 DEF a
<1>10. /\ \A j \in DOMAIN new.sections :
            /\ new.sections[j].off \in DOMAIN new.bodies
            /\ new.bodies[new.sections[j].off] = new.sections[j].name
       /\ new.shoff = new.table
  BY <1>4 DEF SoundElf
<1>11. ElfFound(exe, new, image)
  BY <1>2, <1>7, <1>8, <1>9, <1>10 DEF ElfFound, at, bun
<1>12. QED
  BY <1>11 DEF new

\* So has every verified executable.
LEMMA LoaderInv == RewriteInv => LoaderFinds
<1> SUFFICES ASSUME RewriteInv, Verified PROVE LoaderFinds
  BY DEF LoaderFinds
<1> DEFINE src == Finalized(source)
           image == RebuildBlob(Changed, ReadBlob(Data))
<1>1. /\ ~Unreadable /\ SoundFile(Data) /\ ~InvalidEntry(Graph(Data)) /\ IsSequence(source)
      /\ ~BoundaryChanged(src, SourceModules(Graph(Data)))
      /\ built = WriteBlob(Data, image)
  BY DEF RewriteInv, SourceInv, BuiltInv, FilesInv, Verified
<1>2. IsSequence(src)
  BY <1>1, FinalSequence
<1>3. SoundImage(image) /\ ReadBlob(built) = image /\ built.image = image /\ (Elf(built) <=> Elf(Data))
  <2> HIDE DEF src
  <2>1. LET g == Transformed(Graph(Data), src, cmd.zero)
            made == RebuildBlob(g, ReadBlob(Data))
            new == WriteBlob(Data, made)
        IN /\ SoundImage(made) /\ ReadBlob(new) = made /\ new.image = made
           /\ (Elf(new) <=> Elf(Data))
    BY <1>1, <1>2, MadeIs
  <2>2. QED
    BY <1>1, <2>1 DEF Changed, src
<1> HIDE DEF image, src
<1>4. ~CannotLoad(Data)
  BY <1>1 DEF Unreadable, Readable
<1>5. /\ \A o, q \in DOMAIN image.strings : o < q => o + image.strings[o].size < q
      /\ \A o \in DOMAIN image.strings : o + image.strings[o].size < image.table.off
      /\ image.size \in Nat
  BY <1>3 DEF SoundImage
<1>6. CASE Elf(Data)
  <2>1. SoundElf(Data) /\ ~ElfLayoutError(Data) /\ built = WriteElf(Data, image)
    BY <1>1, <1>4, <1>6 DEF SoundFile, CannotLoad, WriteBlob
  <2>2. ElfFound(Data, built, image)
    BY <1>3, <2>1, ElfLoads
  <2>3. QED
    BY <1>3, <1>5, <1>6, <2>2 DEF LoaderFinds, ElfFound
<1>7. CASE ~Elf(Data)
  <2>1. SoundMacho(Data) /\ built = WriteMacho(Data, image)
        /\ Data.header.len = Data.image.size /\ Data.image.size \in Nat
    BY <1>1, <1>7 DEF SoundFile, SoundImage, WriteBlob
  <2>2. /\ built.header.bytes = Data.header.bytes /\ built.signs = image
        /\ built.section = built.header.bytes + image.size /\ built.section <= built.segment
    BY <1>5, <2>1, MachoWritten
  <2>3. QED
    BY <1>3, <1>5, <1>7, <2>2 DEF LoaderFinds
<1>8. QED
  BY <1>6, <1>7

\* A verified executable can be loaded: the strings of its blob do not meet, an
\* ELF file has .bun where it was and inside the segment that maps it, every other
\* section where its header says, retained bytecode aligned in memory; a Mach-O
\* section fits its segment and the signature covers the new blob
\* (rebuild_blob, write_blob of elf.py and macho.py).
THEOREM LoaderFindsHolds == Spec => []LoaderFinds
<1>1. ApplyInv /\ RewriteInv => LoaderFinds
  BY LoaderInv
<1>2. Init => ApplyInv /\ RewriteInv
  BY ApplyInitInv, RewriteInit
<1>3. ApplyInv /\ RewriteInv /\ [Next]_vars => (ApplyInv /\ RewriteInv)'
  BY ApplyNextInv, RewriteNext
<1>4. QED
  BY <1>1, <1>2, <1>3, PTL DEF Spec

-----------------------------------------------------------------------------
(* The source that is read back is the one that was written. *)

\* A fragment and the part behind it are one part.
LEMMA PartBehind ==
  ASSUME NEW src, NEW a \in Int, NEW b \in Int, a < b
  PROVE  <<src[a]>> \o SubSeq(src, a + 1, b - 1) = SubSeq(src, a, b - 1)
<1> DEFINE one == <<src[a]>>
           rest == SubSeq(src, a + 1, b - 1)
           whole == SubSeq(src, a, b - 1)
<1>1. Len(one) = 1 /\ one[1] = src[a]
  BY OneEntry
<1>2. /\ a + 1 \in Int /\ b - 1 \in Int
      /\ (b - 1) - (a + 1) + 1 = b - a - 1 /\ (b - 1) - a + 1 = b - a
  OBVIOUS
<1>3. IsSequence(rest) /\ Len(rest) = b - a - 1
      /\ \A i \in 1..b - a - 1 : rest[i] = src[(a + 1) + i - 1]
  <2>1. /\ IsSequence(rest)
        /\ Len(rest) = IF a + 1 <= b - 1 THEN (b - 1) - (a + 1) + 1 ELSE 0
        /\ \A i \in 1..(b - 1) - (a + 1) + 1 : rest[i] = src[(a + 1) + i - 1]
    BY <1>2, Part
  <2> HIDE DEF rest
  <2>2. (IF a + 1 <= b - 1 THEN (b - 1) - (a + 1) + 1 ELSE 0) = b - a - 1
    OBVIOUS
  <2>3. 1..(b - 1) - (a + 1) + 1 = 1..b - a - 1
    BY <1>2
  <2>4. QED
    BY <2>1, <2>2, <2>3
<1>4. IsSequence(whole) /\ Len(whole) = b - a
      /\ \A i \in 1..b - a : whole[i] = src[a + i - 1]
  <2>1. /\ IsSequence(whole)
        /\ Len(whole) = IF a <= b - 1 THEN (b - 1) - a + 1 ELSE 0
        /\ \A i \in 1..(b - 1) - a + 1 : whole[i] = src[a + i - 1]
    BY <1>2, Part
  <2> HIDE DEF whole
  <2>2. QED
    BY <1>2, <2>1
<1>X. IsSequence(one)
  BY OneEntry
<1>Y. IsSequence(rest)
  BY <1>3
<1> HIDE DEF one, rest, whole
<1>5. /\ IsSequence(one \o rest) /\ Len(one \o rest) = 1 + (b - a - 1)
      /\ (one \o rest)[1] = one[1]
      /\ \A i \in 1..b - a - 1 : (one \o rest)[1 + i] = rest[i]
  <2>1. /\ IsSequence(one \o rest) /\ Len(one \o rest) = Len(one) + Len(rest)
        /\ \A i \in 1..Len(one) : (one \o rest)[i] = one[i]
        /\ \A i \in 1..Len(rest) : (one \o rest)[Len(one) + i] = rest[i]
    BY <1>X, <1>Y, Joined
  <2>2. 1 \in 1..1
    OBVIOUS
  <2>3. QED
    BY <1>1, <1>3, <2>1, <2>2
<1>6. ASSUME NEW i \in 1..b - a PROVE (one \o rest)[i] = whole[i]
  <2>1. CASE i = 1
    BY <1>1, <1>4, <1>5, <2>1
  <2>2. CASE i # 1
    <3>1. i - 1 \in 1..b - a - 1 /\ 1 + (i - 1) = i /\ (a + 1) + (i - 1) - 1 = a + i - 1
      BY <2>2
    <3>2. (one \o rest)[i] = rest[i - 1]
      BY <1>5, <3>1
    <3>3. rest[i - 1] = src[(a + 1) + (i - 1) - 1]
      BY <1>3, <3>1
    <3>4. QED
      BY <1>4, <3>1, <3>2, <3>3
  <2>3. QED
    BY <2>1, <2>2
<1>7. one \o rest = whole
  <2>1. Len(one \o rest) = b - a
    BY <1>5
  <2>2. QED
    BY <1>4, <1>5, <1>6, <2>1, SameSequence
<1>8. QED
  BY <1>7 DEF one, rest, whole

\* Two parts that meet are one part.
LEMMA PartsMeet ==
  ASSUME NEW src, NEW a \in Nat, NEW b \in Nat, 1 <= a, a <= b
  PROVE  SubSeq(src, 1, a - 1) \o SubSeq(src, a, b - 1) = SubSeq(src, 1, b - 1)
<1> DEFINE s == SubSeq(src, 1, a - 1)
           t == SubSeq(src, a, b - 1)
           u == SubSeq(src, 1, b - 1)
<1>1. a - 1 \in Int /\ b - 1 \in Int /\ 1 \in Int /\ a \in Int
  OBVIOUS
<1>2. IsSequence(s) /\ Len(s) = a - 1 /\ \A i \in 1..a - 1 : s[i] = src[i]
  <2>1. /\ IsSequence(s) /\ Len(s) = IF 1 <= a - 1 THEN (a - 1) - 1 + 1 ELSE 0
        /\ \A i \in 1..(a - 1) - 1 + 1 : s[i] = src[1 + i - 1]
    BY <1>1, Part
  <2> HIDE DEF s
  <2>2. \A i \in 1..a - 1 : 1 + i - 1 = i
    OBVIOUS
  <2>3. QED
    BY <2>1, <2>2
<1>3. IsSequence(t) /\ Len(t) = b - a /\ \A i \in 1..b - a : t[i] = src[a + i - 1]
  <2>1. /\ IsSequence(t) /\ Len(t) = IF a <= b - 1 THEN (b - 1) - a + 1 ELSE 0
        /\ \A i \in 1..(b - 1) - a + 1 : t[i] = src[a + i - 1]
    BY <1>1, Part
  <2> HIDE DEF t
  <2>2. QED
    BY <2>1
<1>4. IsSequence(u) /\ Len(u) = b - 1 /\ \A i \in 1..b - 1 : u[i] = src[i]
  <2>1. /\ IsSequence(u) /\ Len(u) = IF 1 <= b - 1 THEN (b - 1) - 1 + 1 ELSE 0
        /\ \A i \in 1..(b - 1) - 1 + 1 : u[i] = src[1 + i - 1]
    BY <1>1, Part
  <2> HIDE DEF u
  <2>2. \A i \in 1..b - 1 : 1 + i - 1 = i
    OBVIOUS
  <2>3. QED
    BY <2>1, <2>2
<1> HIDE DEF s, t, u
<1>5. /\ IsSequence(s \o t) /\ Len(s \o t) = (a - 1) + (b - a)
      /\ \A i \in 1..a - 1 : (s \o t)[i] = s[i]
      /\ \A i \in 1..b - a : (s \o t)[(a - 1) + i] = t[i]
  BY <1>2, <1>3, Joined
<1>6. ASSUME NEW i \in 1..b - 1 PROVE (s \o t)[i] = u[i]
  <2>1. CASE i <= a - 1
    BY <1>2, <1>4, <1>5, <2>1
  <2>2. CASE i > a - 1
    <3> DEFINE j == i - (a - 1)
    <3>1. j \in 1..b - a /\ (a - 1) + j = i /\ a + j - 1 = i
      BY <2>2
    <3> HIDE DEF j
    <3>2. (s \o t)[i] = t[j] /\ t[j] = src[i]
      BY <1>3, <1>5, <3>1
    <3>3. QED
      BY <1>4, <3>2
  <2>3. i \in Int /\ a - 1 \in Int
    OBVIOUS
  <2>4. i <= a - 1 \/ i > a - 1
    BY <2>3
  <2>5. QED
    BY <2>1, <2>2, <2>4
<1>7. s \o t = u
  <2>1. Len(s \o t) = b - 1
    BY <1>5
  <2>2. QED
    BY <1>4, <1>5, <1>6, <2>1, SameSequence
<1>8. QED
  BY <1>7 DEF s, t, u

\* A source cut at places in their order.
IsCutting(src, n, c, parts) ==
  /\ IsSequence(src) /\ n \in Nat \ {0}
  /\ \A i \in 1..n + 1 : c[i] \in Nat
  /\ c[1] = 1 /\ c[n + 1] = Len(src) + 1
  /\ \A i \in 1..n : c[i] < c[i + 1]
  /\ IsSequence(parts) /\ Len(parts) = n
  /\ \A i \in 1..n : parts[i] = SubSeq(src, c[i], c[i + 1] - 1)

\* Put together again, the parts are the source.
LEMMA PutTogether ==
  ASSUME NEW src, NEW n, NEW c, NEW parts, IsCutting(src, n, c, parts)
  PROVE  FlattenSeq(parts) = src
<1>0. /\ IsSequence(src) /\ n \in Nat \ {0}
      /\ \A i \in 1..n + 1 : c[i] \in Nat
      /\ c[1] = 1 /\ c[n + 1] = Len(src) + 1
      /\ \A i \in 1..n : c[i] < c[i + 1]
      /\ IsSequence(parts) /\ Len(parts) = n
      /\ \A i \in 1..n : parts[i] = SubSeq(src, c[i], c[i + 1] - 1)
  BY DEF IsCutting
<1> USE <1>0
<1>1. PICK f : /\ FlattenSeq(parts) = f[n] /\ f[1] = parts[1]
               /\ \A i \in 2..n : f[i] = f[i - 1] \o parts[i]
  <2>1. Len(parts) # 0
    OBVIOUS
  <2>2. \E f : /\ FlattenSeq(parts) = f[Len(parts)] /\ f[1] = parts[1]
               /\ \A i \in 2..Len(parts) : f[i] = f[i - 1] \o parts[i]
    BY <2>1, FlattenIs
  <2>3. QED
    BY <2>2
<1> DEFINE upto(i) == SubSeq(src, 1, c[i + 1] - 1)
           T == {k \in 0..n : k # 0 => f[k] = upto(k)}
<1>2. 0 \in T
  OBVIOUS
<1>3. \A i \in 1..n : /\ i + 1 \in 1..n + 1 /\ i \in 1..n + 1 /\ i - 1 \in 0..n
                      /\ (i - 1) + 1 = i /\ (i # 1 => i - 1 # 0 /\ i \in 2..n)
  OBVIOUS
<1>4. Len(src) \in Nat /\ 1 \in 1..n /\ n \in 1..n
  BY AsSeq
<1>5. ASSUME NEW k \in 1..n, k - 1 \in T PROVE k \in T
  <2>1. CASE k = 1
    <3>1. f[1] = SubSeq(src, c[1], c[1 + 1] - 1)
      BY <1>1, <1>4
    <3>2. QED
      BY <2>1, <3>1
  <2>2. CASE k # 1
    <3>1. f[k] = f[k - 1] \o parts[k] /\ k - 1 # 0
      BY <1>1, <1>3, <2>2
    <3>2. f[k - 1] = SubSeq(src, 1, c[k] - 1)
      <4>1. f[k - 1] = upto(k - 1)
        BY <1>5, <3>1
      <4>2. (k - 1) + 1 = k
        OBVIOUS
      <4>3. QED
        BY <4>1, <4>2
    <3>3. parts[k] = SubSeq(src, c[k], c[k + 1] - 1)
      OBVIOUS
    <3>4. c[k] \in Nat /\ c[k + 1] \in Nat /\ c[k] <= c[k + 1]
      BY <1>3
    <3>5. 1 <= c[k]
      <4>1. c[k] # 0
        <5> SUFFICES ASSUME c[k] = 0 PROVE FALSE
          OBVIOUS
        <5> DEFINE S == {j \in 0..n : j # 0 => c[j] >= 1}
        <5>1. 0 \in S
          OBVIOUS
        <5>2. ASSUME NEW j \in 1..n, j - 1 \in S PROVE j \in S
          <6>1. CASE j = 1
            BY <6>1
          <6>2. CASE j # 1
            <7>1. j - 1 \in 1..n /\ (j - 1) + 1 = j
              BY <6>2
            <7>2. c[j - 1] < c[j] /\ c[j - 1] >= 1 /\ c[j - 1] \in Nat /\ c[j] \in Nat
              BY <1>3, <5>2, <7>1
            <7>3. c[j] >= 1
              BY <7>2
            <7>4. QED
              BY <7>3
          <6>3. QED
            BY <6>1, <6>2
        <5> HIDE DEF S
        <5>3. \A j \in 0..n : j \in S
          BY <5>1, <5>2, Stepwise
        <5>4. k \in S /\ k # 0
          BY <5>3
        <5>5. QED
          BY <5>4 DEF S
      <4>2. QED
        BY <3>4, <4>1
    <3>6. SubSeq(src, 1, c[k] - 1) \o SubSeq(src, c[k], c[k + 1] - 1) = upto(k)
      BY <3>4, <3>5, PartsMeet
    <3>7. f[k] = upto(k)
      BY <3>1, <3>2, <3>3, <3>6
    <3> HIDE DEF upto
    <3>8. k \in 0..n
      OBVIOUS
    <3>9. QED
      BY <3>7, <3>8
  <2>3. QED
    BY <2>1, <2>2
<1> HIDE DEF T
<1>6. n \in T
  <2>1. \A k \in 0..n : k \in T
    BY <1>2, <1>5, Stepwise
  <2>2. QED
    BY <2>1
<1>7. FlattenSeq(parts) = SubSeq(src, 1, Len(src))
  <2>1. f[n] = SubSeq(src, 1, c[n + 1] - 1)
    BY <1>6 DEF T
  <2>2. c[n + 1] - 1 = Len(src)
    BY <1>4
  <2>3. QED
    BY <1>1, <2>1, <2>2
<1>8. SubSeq(src, 1, Len(src)) = src
  <2> DEFINE u == SubSeq(src, 1, Len(src))
             m == Len(src)
  <2>1. 1 \in Int /\ m \in Int
    BY <1>4
  <2>2. /\ IsSequence(u) /\ Len(u) = IF 1 <= m THEN m - 1 + 1 ELSE 0
        /\ \A i \in 1..m - 1 + 1 : u[i] = src[1 + i - 1]
    BY <2>1, Part
  <2> HIDE DEF u
  <2>3. m - 1 + 1 = m /\ \A i \in 1..m : 1 + i - 1 = i
    BY <1>4
  <2>4. Len(u) = Len(src) /\ \A i \in 1..Len(u) : u[i] = src[i]
    BY <1>4, <2>2, <2>3
  <2>5. u = src
    BY <2>2, <2>4, SameSequence
  <2>6. QED
    BY <2>5 DEF u
<1>9. QED
  BY <1>7, <1>8

\* The patched modules of two graphs of one shape are at the same places.
LEMMA SourcesMatch ==
  ASSUME NEW g, IsGraph(g), SoundGraph(g), ~InvalidEntry(g),
         NEW h, IsSequence(h.modules), Len(h.modules) = Len(g.modules), h.entry = g.entry,
         \A i \in 1..Len(g.modules) : h.modules[i].tail = g.modules[i].tail
  PROVE  LET old == SourceModules(g)
             new == SourceModules(h)
         IN /\ IsSequence(old) /\ IsSequence(new) /\ Len(new) = Len(old)
            /\ \A k \in 1..Len(old) : \E i \in 1..Len(g.modules) :
                 old[k] = g.modules[i] /\ new[k] = h.modules[i]
            /\ \A j, k \in 1..Len(old) : old[j].name = old[k].name => j = k
<1> DEFINE n == Len(g.modules)
           a == g.modules
           b == h.modules
           e == g.entry
<1>1. /\ IsSequence(a) /\ IsSequence(b) /\ DOMAIN a = 1..n /\ DOMAIN b = 1..n /\ n \in Nat
      /\ e \in 1..n
  BY AsSeq DEF IsGraph, InvalidEntry
<1>2. \A i, j \in 1..n : a[i].name = a[j].name => i = j
  BY <1>1 DEF SoundGraph
<1>3. \A i \in 1..n : b[i].tail = a[i].tail
  OBVIOUS
<1>4. CASE a[e].tail.format # 1
  <2>1. SourceModules(g) = <<a[e]>> /\ SourceModules(h) = <<b[e]>>
    BY <1>1, <1>3, <1>4 DEF SourceModules
  <2> HIDE DEF a, b, e, n
  <2>2. /\ IsSequence(<<a[e]>>) /\ Len(<<a[e]>>) = 1 /\ <<a[e]>>[1] = a[e]
        /\ IsSequence(<<b[e]>>) /\ Len(<<b[e]>>) = 1 /\ <<b[e]>>[1] = b[e]
    BY OneEntry
  <2>3. \A k \in 1..1 : k = 1
    OBVIOUS
  <2>4. QED
    BY <1>1, <2>1, <2>2, <2>3 DEF a, b, n
<1>5. CASE a[e].tail.format = 1
  <2> DEFINE P == {i \in 1..n : EcmaSource(a[i])}
             m == Cardinality(P)
  <2>1. P = {i \in 1..n : EcmaSource(b[i])}
    BY <1>3 DEF EcmaSource
  <2>2. SourceModules(g) = Kept(a, P) /\ SourceModules(h) = Kept(b, P)
    BY <1>1, <1>3, <1>5, <2>1 DEF SourceModules
  <2>3. P \in SUBSET DOMAIN a /\ P \in SUBSET DOMAIN b /\ P \subseteq 1..n
    BY <1>1
  <2> HIDE DEF P, a, b, e, n
  <2>4. /\ IsSequence(Kept(a, P)) /\ Len(Kept(a, P)) = m /\ m \in Nat
        /\ \A k \in 1..m : At(P, k) \in P /\ Kept(a, P)[k] = a[At(P, k)]
        /\ \A j, k \in 1..m : j < k => At(P, j) < At(P, k)
    BY <1>1, <2>3, KeptIs
  <2>5. /\ IsSequence(Kept(b, P)) /\ Len(Kept(b, P)) = m
        /\ \A k \in 1..m : Kept(b, P)[k] = b[At(P, k)]
    BY <1>1, <2>3, KeptIs
  <2>6. \A k \in 1..m : At(P, k) \in 1..n
    BY <2>3, <2>4
  <2>7. ASSUME NEW j \in 1..m, NEW k \in 1..m, Kept(a, P)[j].name = Kept(a, P)[k].name
        PROVE  j = k
    <3>1. At(P, j) = At(P, k) /\ At(P, j) \in Nat
      BY <1>2, <2>4, <2>6, <2>7
    <3>2. ~(j < k) /\ ~(k < j)
      BY <2>4, <3>1
    <3>3. QED
      BY <3>2
  <2> HIDE DEF m
  <2>8. \A j, k \in 1..m : SourceModules(g)[j].name = SourceModules(g)[k].name => j = k
    BY <2>2, <2>7
  <2>9. /\ IsSequence(SourceModules(g)) /\ IsSequence(SourceModules(h))
        /\ Len(SourceModules(g)) = m /\ Len(SourceModules(h)) = m
        /\ \A k \in 1..m : /\ At(P, k) \in 1..n
                          /\ SourceModules(g)[k] = a[At(P, k)]
                          /\ SourceModules(h)[k] = b[At(P, k)]
    BY <2>2, <2>4, <2>5, <2>6
  <2>10. QED
    BY <2>8, <2>9 DEF a, b, n
<1>6. QED
  BY <1>4, <1>5

\* The source of a graph whose modules were given their parts of a source.
LEMMA SourceCarried ==
  ASSUME NEW old, NEW new, IsSequence(old), IsSequence(new), Len(new) = Len(old), Len(old) # 0,
         NEW src, IsSequence(src), ~BoundaryChanged(src, old),
         \A k \in 1..Len(old) : /\ new[k].name = old[k].name
                                /\ new[k].contents.of = SplitGraphSource(src, old)[k]
  PROVE  GraphSource(new) = src
<1> DEFINE n == Len(old)
<1>1. n \in Nat \ {0} /\ DOMAIN old = 1..n /\ DOMAIN new = 1..n
  BY AsSeq
<1>2. CASE n = 1
  <2>1. SplitGraphSource(src, old) = <<src>>
    BY <1>2 DEF SplitGraphSource
  <2>2. new[1].contents.of = src
    BY <1>2, <2>1
  <2>3. QED
    BY <1>2, <2>2 DEF GraphSource
<1>3. CASE n # 1
  <2> DEFINE cut == Cuts(src)
             last == Len(src) + 1
             c == cut \o <<last>>
             parts == [i \in 1..n |-> <<new[i].name.is>> \o new[i].contents.of]
  <2>1. /\ Len(cut) = n /\ cut[1] = 1 /\ \A i \in 1..n : src[cut[i]] = old[i].name.is
    <3>1. n > 1
      BY <1>1, <1>3
    <3>2. QED
      BY <1>1, <3>1 DEF BoundaryChanged
  <2>2. /\ IsSequence(cut) /\ Len(src) \in Nat
        /\ \A i \in 1..n : cut[i] \in 1..Len(src)
        /\ \A i, j \in 1..n : i < j => cut[i] < cut[j]
    BY <2>1, AsSeq, CutsAre
  <2>3. \A i \in 1..n : SplitGraphSource(src, old)[i] = SubSeq(src, c[i] + 1, c[i + 1] - 1)
    BY <1>1, <1>3 DEF SplitGraphSource
  <2>4. GraphSource(new) = FlattenSeq(parts)
    BY <1>1, <1>3 DEF GraphSource
  <2> HIDE DEF cut, last
  <2>5. (\A i \in 1..n : c[i] = cut[i]) /\ c[n + 1] = last
    <3>1. IsSequence(<<last>>) /\ Len(<<last>>) = 1 /\ <<last>>[1] = last
      BY OneEntry
    <3>2. /\ \A i \in 1..Len(cut) : c[i] = cut[i]
          /\ \A i \in 1..Len(<<last>>) : c[Len(cut) + i] = <<last>>[i]
      BY <2>2, <3>1, Joined
    <3>3. 1 \in 1..1
      OBVIOUS
    <3>4. QED
      BY <2>1, <3>1, <3>2, <3>3
  <2> HIDE DEF c
  <2>6. /\ \A i \in 1..n + 1 : c[i] \in Nat
        /\ c[1] = 1 /\ c[n + 1] = Len(src) + 1
        /\ \A i \in 1..n : c[i] < c[i + 1]
    <3>1. \A i \in 1..n + 1 : i \in 1..n \/ i = n + 1
      BY <1>1
    <3>2. c[n + 1] = Len(src) + 1 /\ c[n + 1] \in Nat /\ 1 \in 1..n
      BY <1>1, <2>2, <2>5 DEF last
    <3>3. \A i \in 1..n : c[i] \in Nat /\ c[i] <= Len(src)
      BY <2>2, <2>5
    <3>4. ASSUME NEW i \in 1..n PROVE c[i] < c[i + 1]
      <4>1. CASE i = n
        BY <2>2, <3>2, <3>3, <4>1
      <4>2. CASE i # n
        <5> DEFINE k == n
        <5>1. k \in Nat /\ i \in 1..k /\ i # k
          BY <1>1, <4>2
        <5> HIDE DEF k
        <5>2. i + 1 \in 1..k /\ i < i + 1
          BY <5>1
        <5>3. QED
          BY <2>2, <2>5, <5>2 DEF k
      <4>3. QED
        BY <4>1, <4>2
    <3>5. QED
      BY <2>1, <2>5, <3>1, <3>2, <3>3, <3>4
  <2>7. IsSequence(parts) /\ Len(parts) = n
    <3>1. parts = [i \in 1..n |-> parts[i]]
      OBVIOUS
    <3> HIDE DEF parts
    <3>2. QED
      BY <1>1, <3>1, MadeSequence
  <2>8. ASSUME NEW i \in 1..n PROVE parts[i] = SubSeq(src, c[i], c[i + 1] - 1)
    <3>1. /\ new[i].name.is = src[c[i]]
          /\ new[i].contents.of = SubSeq(src, c[i] + 1, c[i + 1] - 1)
      BY <2>1, <2>3, <2>5
    <3>2. parts[i] = <<src[c[i]]>> \o SubSeq(src, c[i] + 1, c[i + 1] - 1)
      BY <3>1
    <3>3. c[i] \in Int /\ c[i + 1] \in Int /\ c[i] < c[i + 1]
      BY <1>1, <2>6
    <3> HIDE DEF parts
    <3>4. QED
      BY <3>2, <3>3, PartBehind
  <2> HIDE DEF parts, n
  <2>9. FlattenSeq(parts) = src
    <3>1. n \in Nat \ {0} /\ IsSequence(src)
      BY <1>1
    <3>2. /\ \A i \in 1..n + 1 : c[i] \in Nat
          /\ c[1] = 1
          /\ c[n + 1] = Len(src) + 1
          /\ \A i \in 1..n : c[i] < c[i + 1]
      BY <2>6
    <3>3. IsSequence(parts) /\ Len(parts) = n
          /\ \A i \in 1..n : parts[i] = SubSeq(src, c[i], c[i + 1] - 1)
      BY <2>7, <2>8
    <3>4. IsCutting(src, n, c, parts)
      BY <3>1, <3>2, <3>3 DEF IsCutting
    <3>5. QED
      BY <3>4, PutTogether
  <2>10. QED
    BY <2>4, <2>9
<1>4. QED
  BY <1>2, <1>3

\* The graph of an executable that was written is the one it was made for.
LEMMA GraphMade ==
  ASSUME NEW exe, SoundFile(exe), NEW h, IsGraph(h), SoundGraph(h),
         NEW new, ReadBlob(new) = RebuildBlob(h, ReadBlob(exe))
  PROVE  /\ h = Graph(exe) => Graph(new) = h
         /\ h # Graph(exe) => Graph(new) = Rewritten(h)
<1>1. CASE h = Graph(exe)
  BY <1>1 DEF Graph, RebuildBlob, Unchanged
<1>2. CASE h # Graph(exe)
  <2>1. ReadBlob(new) = Layout(Rewritten(h), 0)
    BY <1>2 DEF Graph, RebuildBlob, Unchanged
  <2>2. IsGraph(Rewritten(h)) /\ SoundGraph(Rewritten(h))
    BY SourceOnlyIs DEF Rewritten
  <2>3. 0 \in Nat
    OBVIOUS
  <2> HIDE DEF Rewritten
  <2>4. ParseBlob(Layout(Rewritten(h), 0)) = Rewritten(h)
    BY <2>2, <2>3, RoundTrip
  <2>5. QED
    BY <1>2, <2>1, <2>4 DEF Graph
<1>3. QED
  BY <1>1, <1>2

\* What a graph keeps when its sources are replaced: everything but the caches,
\* the shared records and the contents of its patched modules.
Carries(old, new, sources) ==
  /\ IsSequence(new.modules) /\ Len(new.modules) = Len(old.modules)
  /\ \A i \in 1..Len(old.modules) :
       LET o == old.modules[i]
           n == new.modules[i]
           at == Place(SourceModules(old), o.name)
       IN /\ SoundModule(n) /\ n.name = o.name /\ n.sourcemap = o.sourcemap /\ n.tail = o.tail
          /\ at = 0 => n.contents = o.contents
          /\ at # 0 => /\ at \in 1..Len(SourceModules(old))
                       /\ n.contents = Contents(sources[at])
  /\ new.entry = old.entry /\ new.argv = old.argv /\ new.structSize = old.structSize
  /\ new.flags \cap (0..3) = old.flags \cap (0..3)

\* Both graphs a run may write carry the one it read.
LEMMA ChangedCarries ==
  ASSUME NEW g, IsGraph(g), SoundGraph(g), ~InvalidEntry(g),
         NEW src, IsSequence(src), ~BoundaryChanged(src, SourceModules(g)), NEW zero
  PROVE  /\ Carries(g, Transformed(g, src, zero), SplitGraphSource(src, SourceModules(g)))
         /\ Carries(g, SourceOnly(Transformed(g, src, zero)),
                    SplitGraphSource(src, SourceModules(g)))
<1> DEFINE h == Transformed(g, src, zero)
           patched == SourceModules(g)
           sources == SplitGraphSource(src, patched)
           bare == SourceOnly(h)
           n == Len(g.modules)
<1>1. /\ IsGraph(h) /\ SoundGraph(h)
      /\ h.entry = g.entry /\ h.flags = g.flags /\ h.argv = g.argv /\ h.structSize = g.structSize
      /\ IsSequence(h.modules) /\ Len(h.modules) = n
      /\ \A i \in 1..n : h.modules[i] = Transform(g.modules[i], patched, sources, zero)
  BY TransformedIs
<1>2. IsSequence(patched) /\ \A i \in 1..Len(patched) : IsSequence(sources[i])
  <2>1. IsSequence(patched)
    BY SourcesAre
  <2>2. QED
    BY <2>1, SplitSequences
<1>3. \A i \in 1..n : IsModule(g.modules[i]) /\ SoundModule(g.modules[i])
  <2>1. DOMAIN g.modules = 1..n
    BY AsSeq DEF IsGraph
  <2>2. QED
    BY <2>1 DEF IsGraph, SoundGraph
<1> HIDE DEF h, patched, sources
<1>4. ASSUME NEW i \in 1..n
      PROVE  LET o == g.modules[i]
                 m == h.modules[i]
                 at == Place(patched, o.name)
             IN /\ IsModule(m) /\ SoundModule(m)
                /\ m.name = o.name /\ m.sourcemap = o.sourcemap /\ m.tail = o.tail
                /\ at = 0 => m.contents = o.contents
                /\ at # 0 => at \in 1..Len(patched) /\ m.contents = Contents(sources[at])
  <2> DEFINE o == g.modules[i]
             m == h.modules[i]
             made == Transform(o, patched, sources, zero)
             at == Place(patched, o.name)
  <2>1. m = made
    BY <1>1
  <2>2. IsModule(o) /\ SoundModule(o)
    BY <1>3
  <2> HIDE DEF o, m
  <2>3. /\ IsModule(made) /\ SoundModule(made)
        /\ made.name = o.name /\ made.sourcemap = o.sourcemap /\ made.tail = o.tail
        /\ at = 0 => made = o
        /\ at # 0 => at \in 1..Len(patched) /\ made.contents = Contents(sources[at])
    <3>1. LET new == Transform(o, patched, sources, zero)
              p == Place(patched, o.name)
          IN /\ IsModule(new) /\ SoundModule(new)
             /\ new.name = o.name /\ new.sourcemap = o.sourcemap /\ new.tail = o.tail
             /\ new.info \in {o.info, NoText} /\ new.origin \in {o.origin, NoText}
             /\ p = 0 => new = o
             /\ p # 0 => p \in 1..Len(patched) /\ new.contents = Contents(sources[p])
      BY <1>2, <2>2, TransformIs, Zenon
    <3>2. QED
      BY <3>1
  <2> HIDE DEF made, at
  <2>4. /\ IsModule(m) /\ SoundModule(m)
        /\ m.name = o.name /\ m.sourcemap = o.sourcemap /\ m.tail = o.tail
        /\ at = 0 => m.contents = o.contents
        /\ at # 0 => at \in 1..Len(patched) /\ m.contents = Contents(sources[at])
    BY <2>1, <2>3
  <2>5. QED
    BY <2>4 DEF at, o, m
<1>5. Carries(g, h, sources)
  BY <1>1, <1>4 DEF Carries, patched
<1>6. /\ IsGraph(bare) /\ SoundGraph(bare)
      /\ bare.entry = h.entry /\ bare.argv = h.argv /\ bare.structSize = h.structSize
      /\ bare.flags = h.flags \cap ((0..3) \cup {10, 12})
      /\ Len(bare.modules) = Len(h.modules) /\ IsSequence(bare.modules)
      /\ \A i \in 1..Len(h.modules) : bare.modules[i] = Stripped(h.modules[i])
  BY <1>1, SourceOnlyIs
<1> HIDE DEF bare
<1>7. ASSUME NEW i \in 1..n
      PROVE  LET m == h.modules[i]
                 b == bare.modules[i]
             IN /\ SoundModule(b) /\ b.name = m.name /\ b.sourcemap = m.sourcemap
                /\ b.tail = m.tail /\ b.contents = m.contents
  <2> DEFINE m == h.modules[i]
  <2>1. IsModule(m) /\ SoundModule(m)
    BY <1>4
  <2>2. bare.modules[i] = Stripped(m)
    BY <1>1, <1>6
  <2> HIDE DEF m
  <2>3. /\ SoundModule(Stripped(m))
        /\ Stripped(m).name = m.name /\ Stripped(m).contents = m.contents
        /\ Stripped(m).sourcemap = m.sourcemap /\ Stripped(m).tail = m.tail
    BY <2>1, StrippedIs, StrippedSound
  <2>4. QED
    BY <2>2, <2>3 DEF m
<1>8. bare.flags \cap (0..3) = g.flags \cap (0..3)
  BY <1>1, <1>6
<1>9. Carries(g, bare, sources)
  BY <1>1, <1>4, <1>6, <1>7, <1>8 DEF Carries, patched
<1>10. QED
  BY <1>5, <1>9 DEF bare, h, sources, patched

\* A graph that carries another has the source its modules were given.
LEMMA CarriedSource ==
  ASSUME NEW g, IsGraph(g), SoundGraph(g), ~InvalidEntry(g),
         NEW src, IsSequence(src), ~BoundaryChanged(src, SourceModules(g)),
         NEW h, Carries(g, h, SplitGraphSource(src, SourceModules(g))),
         GraphSource(SourceModules(h)) # <<>>
  PROVE  GraphSource(SourceModules(h)) = src
<1> DEFINE old == SourceModules(g)
           new == SourceModules(h)
           n == Len(g.modules)
           sources == SplitGraphSource(src, old)
<1>1. /\ IsSequence(h.modules) /\ Len(h.modules) = n /\ h.entry = g.entry
      /\ \A i \in 1..n : h.modules[i].tail = g.modules[i].tail
  BY DEF Carries
<1>2. /\ IsSequence(old) /\ IsSequence(new) /\ Len(new) = Len(old)
      /\ \A k \in 1..Len(old) : \E i \in 1..n : old[k] = g.modules[i] /\ new[k] = h.modules[i]
      /\ \A j, k \in 1..Len(old) : old[j].name = old[k].name => j = k
  BY <1>1, SourcesMatch
<1>3. ASSUME NEW i \in 1..n, NEW at, at = Place(old, g.modules[i].name), at # 0
      PROVE  /\ at \in 1..Len(old) /\ h.modules[i].name = g.modules[i].name
             /\ h.modules[i].contents = Contents(sources[at])
  BY <1>3 DEF Carries
<1> HIDE DEF new, old, sources
<1>4. ASSUME NEW k \in 1..Len(old)
      PROVE  new[k].name = old[k].name /\ new[k].contents.of = sources[k]
  <2>1. PICK i \in 1..n : old[k] = g.modules[i] /\ new[k] = h.modules[i]
    BY <1>2
  <2> DEFINE name == old[k].name
             at == Place(old, name)
  <2>2. at # 0 /\ old[at].name = name
    BY <1>2, FirstNamed
  <2>3. at = Place(old, g.modules[i].name)
    BY <2>1
  <2> HIDE DEF at
  <2>4. /\ at \in 1..Len(old) /\ h.modules[i].name = g.modules[i].name
        /\ h.modules[i].contents = Contents(sources[at])
    BY <1>3, <2>2, <2>3
  <2>5. at = k
    BY <1>2, <2>2, <2>4
  <2>6. QED
    BY <2>1, <2>4, <2>5 DEF Contents
<1>5. Len(old) # 0
  <2> SUFFICES ASSUME Len(old) = 0 PROVE FALSE
    OBVIOUS
  <2>1. Len(new) = 0 /\ DOMAIN new = {}
    <3>1. DOMAIN new = 1..0
      BY <1>2, AsSeq
    <3>2. QED
      BY <1>2, <3>1
  <2> DEFINE parts == [i \in DOMAIN new |-> <<new[i].name.is>> \o new[i].contents.of]
  <2>2. GraphSource(new) = FlattenSeq(parts)
    BY <2>1 DEF GraphSource
  <2>3. parts = <<>>
    BY <2>1
  <2> HIDE DEF parts
  <2>4. FlattenSeq(parts) = <<>>
    BY <2>3, NoEntry, FlattenIs
  <2>5. QED
    BY <2>2, <2>4 DEF new
<1>6. GraphSource(new) = src
  BY <1>2, <1>4, <1>5, SourceCarried DEF sources, old
<1>7. QED
  BY <1>6 DEF new

\* The last two of a sequence, kept.
LEMMA LastTwo ==
  ASSUME NEW s, IsSequence(s), NEW m \in Nat, Len(s) = m + 2
  PROVE  /\ IsSequence(Kept(s, {m + 1, m + 2})) /\ Len(Kept(s, {m + 1, m + 2})) = 2
         /\ Kept(s, {m + 1, m + 2})[1] = s[m + 1] /\ Kept(s, {m + 1, m + 2})[2] = s[m + 2]
<1> DEFINE P == {m + 1, m + 2}
<1>1. Cardinality(P) = 2
  <2>1. IsFiniteSet({m + 1}) /\ Cardinality({m + 1}) = 1
    BY FS_Singleton
  <2>2. m + 2 \notin {m + 1} /\ P = {m + 1} \cup {m + 2}
    OBVIOUS
  <2>3. Cardinality({m + 1} \cup {m + 2}) = Cardinality({m + 1}) + 1
    BY <2>1, <2>2, FS_AddElement
  <2>4. QED
    BY <2>1, <2>2, <2>3
<1>2. P \in SUBSET DOMAIN s
  <2>1. DOMAIN s = 1..m + 2
    BY AsSeq
  <2>2. QED
    BY <2>1
<1> HIDE DEF P
<1>3. /\ IsSequence(Kept(s, P)) /\ Len(Kept(s, P)) = 2
      /\ \A n \in 1..2 : At(P, n) \in P /\ Kept(s, P)[n] = s[At(P, n)]
      /\ \A i, n \in 1..2 : i < n => At(P, i) < At(P, n)
  <2> DEFINE k == Cardinality(P)
  <2>1. /\ IsSequence(Kept(s, P)) /\ Len(Kept(s, P)) = k
        /\ \A n \in 1..k : At(P, n) \in P /\ Kept(s, P)[n] = s[At(P, n)]
        /\ \A i, n \in 1..k : i < n => At(P, i) < At(P, n)
    BY <1>2, KeptIs
  <2>2. k = 2
    BY <1>1
  <2> HIDE DEF k
  <2>3. QED
    BY <2>1, <2>2
<1>4. At(P, 1) = m + 1 /\ At(P, 2) = m + 2
  <2>1. 1 \in 1..2 /\ 2 \in 1..2
    OBVIOUS
  <2>2. At(P, 1) \in {m + 1, m + 2} /\ At(P, 2) \in {m + 1, m + 2} /\ At(P, 1) < At(P, 2)
    BY <1>3, <2>1 DEF P
  <2>3. QED
    BY <2>2
<1>5. 1 \in 1..2 /\ 2 \in 1..2
  OBVIOUS
<1>6. QED
  BY <1>3, <1>4, <1>5 DEF P

\* What is left of the records of a graph is its policy.
LEMMA PolicyLeft ==
  ASSUME NEW g, IsGraph(g), SoundGraph(g), NEW h, IsGraph(h), SoundGraph(h),
         h.flags = g.flags, h.records = g.records, Len(h.modules) = Len(g.modules)
  PROVE  /\ SourceOnly(h).records = Kept(g.records, Policy(g))
         /\ (12 \in g.flags) = (Kept(g.records, Policy(g)) # <<>>)
<1> DEFINE last == RuntimeAt(g)
           bare == SourceOnly(h)
           policy == Kept(g.records, Policy(g))
<1>1. /\ IsSequence(g.records) /\ last \in Nat
      /\ Len(g.records) = IF 12 \in g.flags THEN last + 2 ELSE last
      /\ Policy(g) = IF 12 \in g.flags THEN {last + 1, last + 2} ELSE {}
  BY DEF SoundGraph, SoundRecords
<1>2. RuntimeAt(h) = last
  BY SameRecords
<1>3. /\ 12 \notin h.flags => bare.records = <<>>
      /\ 12 \in h.flags => /\ IsSequence(bare.records) /\ Len(bare.records) = 2
                           /\ bare.records[1] = h.records[RuntimeAt(h) + 1]
                           /\ bare.records[2] = h.records[RuntimeAt(h) + 2]
  BY SourceOnlyIs
<1> HIDE DEF last, bare
<1>4. CASE 12 \in g.flags
  <2>1. /\ IsSequence(policy) /\ Len(policy) = 2
        /\ policy[1] = g.records[last + 1] /\ policy[2] = g.records[last + 2]
    <3>1. policy = Kept(g.records, {last + 1, last + 2}) /\ Len(g.records) = last + 2
      BY <1>1, <1>4
    <3> HIDE DEF policy
    <3>2. QED
      BY <1>1, <3>1, LastTwo
  <2>2. /\ IsSequence(bare.records) /\ Len(bare.records) = 2
        /\ bare.records[1] = g.records[last + 1] /\ bare.records[2] = g.records[last + 2]
    BY <1>2, <1>3, <1>4
  <2> HIDE DEF policy
  <2>3. bare.records = policy
    <3>1. \A i \in 1..2 : i = 1 \/ i = 2
      OBVIOUS
    <3>2. \A i \in 1..Len(policy) : bare.records[i] = policy[i]
      BY <2>1, <2>2, <3>1
    <3>3. QED
      BY <2>1, <2>2, <3>2, SameSequence
  <2>4. policy # <<>>
    <3>1. Len(<<>>) = 0
      BY NoEntry
    <3>2. policy = <<>> => Len(policy) = 0
      BY <3>1, Zenon
    <3>3. QED
      BY <2>1, <3>2
  <2>5. QED
    BY <1>4, <2>3, <2>4 DEF policy, bare
<1>5. CASE 12 \notin g.flags
  <2>1. Policy(g) = {} /\ Cardinality({}) = 0
    BY <1>1, <1>5, FS_EmptySet
  <2>2. policy = [n \in 1..0 |-> g.records[At({}, n)]]
    BY <2>1 DEF Kept
  <2>3. policy = <<>>
    <3>1. 1..0 = {}
      OBVIOUS
    <3>2. QED
      BY <2>2, <3>1
  <2>4. bare.records = <<>>
    BY <1>3, <1>5
  <2>5. QED
    BY <1>5, <2>3, <2>4 DEF bare
<1>6. QED
  BY <1>4, <1>5

\* The graph that was read and the graph that was written.
LEMMA CachesFollow ==
  ASSUME NEW g, IsGraph(g), SoundGraph(g), NEW h, IsGraph(h), SoundGraph(h),
         h.flags = g.flags, h.records = g.records, Len(h.modules) = Len(g.modules),
         NEW new, h = g => new = h, h # g => new = Rewritten(h),
         IsSequence(new.modules), Len(new.modules) = Len(g.modules),
         \A i \in 1..Len(g.modules) : SoundModule(new.modules[i])
  PROVE  CachesFresh(g, new)
<1>1. DOMAIN new.modules = 1..Len(g.modules)
  BY AsSeq
<1>2. \A i \in DOMAIN new.modules : \A c \in {new.modules[i].bytecode, new.modules[i].info} :
        c = NoText \/ c.of = new.modules[i].contents.of
  BY <1>1 DEF SoundModule
<1>3. ASSUME g.records # <<>>, new # g
      PROVE  /\ new.records = Kept(g.records, Policy(g))
             /\ new.flags \cap (4..12) \subseteq {10, 12}
             /\ (12 \in new.flags) = (Kept(g.records, Policy(g)) # <<>>)
  <2>1. new = SourceOnly(h)
    BY <1>3 DEF IsGraph, Rewritten
  <2>2. new.flags = h.flags \cap ((0..3) \cup {10, 12})
    BY <2>1, SourceOnlyIs
  <2>3. /\ new.flags \cap (4..12) \subseteq {10, 12}
        /\ 12 \in new.flags <=> 12 \in g.flags
    BY <2>2
  <2>4. /\ new.records = Kept(g.records, Policy(g))
        /\ (12 \in g.flags) = (Kept(g.records, Policy(g)) # <<>>)
    BY <2>1, PolicyLeft
  <2>5. QED
    BY <2>3, <2>4
<1>4. QED
  BY <1>2, <1>3 DEF CachesFresh

\* A graph that carries another has its modules and the rewritten source.
LEMMA SameFollow ==
  ASSUME NEW g, IsGraph(g), SoundGraph(g), ~InvalidEntry(g),
         ~BoundaryChanged(Finalized(source), SourceModules(g)), IsSequence(source),
         NEW new, Carries(g, new, SplitGraphSource(Finalized(source), SourceModules(g))),
         new = Graph(built), EntrySource(built) # <<>>
  PROVE  SameModules(g, new)
<1> DEFINE patched == SourceModules(g)
           n == Len(g.modules)
<1>1. IsSequence(g.modules) /\ DOMAIN g.modules = 1..n
  BY AsSeq DEF IsGraph
<1>2. /\ IsSequence(patched) /\ DOMAIN patched = 1..Len(patched)
      /\ \A k \in 1..Len(patched) : \E i \in 1..n : patched[k] = g.modules[i]
  BY SourcesAre, AsSeq
<1>3. \A i, j \in 1..n : g.modules[i].name = g.modules[j].name => i = j
  BY <1>1 DEF SoundGraph
<1>4. EntrySource(built) = Finalized(source)
  <2>1. IsSequence(Finalized(source))
    BY FinalSequence
  <2>2. EntrySource(built) = GraphSource(SourceModules(new))
    BY DEF EntrySource
  <2>3. QED
    BY <2>1, <2>2, CarriedSource
<1>5. ASSUME NEW i \in 1..n
      PROVE  LET o == g.modules[i]  m == new.modules[i]
             IN /\ m.name = o.name /\ m.sourcemap = o.sourcemap /\ m.tail = o.tail
                /\ o \in ToSet(patched) \/ m.contents = o.contents
  <2> DEFINE o == g.modules[i]
             m == new.modules[i]
             at == Place(patched, o.name)
  <2>1. /\ m.name = o.name /\ m.sourcemap = o.sourcemap /\ m.tail = o.tail
        /\ at = 0 => m.contents = o.contents
        /\ at # 0 => at \in 1..Len(patched)
    BY DEF Carries
  <2>2. at # 0 => patched[at].name = o.name
    BY <1>2, FirstNamed
  <2> HIDE DEF at, patched
  <2>3. at # 0 => o \in ToSet(patched)
    <3> SUFFICES ASSUME at # 0 PROVE o \in ToSet(patched)
      OBVIOUS
    <3>1. PICK j \in 1..n : patched[at] = g.modules[j]
      BY <1>2, <2>1
    <3>2. j = i
      BY <1>3, <2>2, <3>1
    <3>3. QED
      BY <1>2, <2>1, <3>1, <3>2 DEF ToSet
  <2>4. QED
    BY <2>1, <2>3
<1> HIDE DEF patched
<1>6. /\ Len(new.modules) = n
      /\ new.entry = g.entry /\ new.argv = g.argv /\ new.structSize = g.structSize
      /\ new.flags \cap (0..3) = g.flags \cap (0..3)
  BY DEF Carries
<1>7. QED
  BY <1>1, <1>4, <1>5, <1>6 DEF SameModules, patched

\* A verified executable carries the graph.
LEMMA GraphInv == RewriteInv => GraphCarried
<1> SUFFICES ASSUME RewriteInv, Verified PROVE GraphCarried
  BY DEF GraphCarried
<1> DEFINE src == Finalized(source)
           g == Graph(Data)
           h == Changed
           sources == SplitGraphSource(src, SourceModules(g))
<1>1. /\ SoundFile(Data) /\ ~InvalidEntry(g) /\ IsSequence(source)
      /\ ~BoundaryChanged(src, SourceModules(g))
      /\ built = WriteBlob(Data, RebuildBlob(h, ReadBlob(Data)))
      /\ Count(EntrySource(built), "expanded-render") # 0
  BY DEF RewriteInv, SourceInv, BuiltInv, FilesInv, Verified
<1>2. IsSequence(src)
  BY <1>1, FinalSequence
<1>3. IsGraph(g) /\ SoundGraph(g)
  BY <1>1, TakenIs
<1>4. h = Transformed(g, src, cmd.zero)
  BY DEF Changed
<1>5. ReadBlob(built) = RebuildBlob(h, ReadBlob(Data))
  <2> HIDE DEF src
  <2>1. LET made == RebuildBlob(Transformed(Graph(Data), src, cmd.zero), ReadBlob(Data))
        IN ReadBlob(WriteBlob(Data, made)) = made
    BY <1>1, <1>2, MadeIs
  <2>2. QED
    BY <1>1, <1>4, <2>1
<1> HIDE DEF src, g, h
<1>6. /\ IsGraph(h) /\ SoundGraph(h) /\ h.flags = g.flags /\ h.records = g.records
      /\ Len(h.modules) = Len(g.modules)
  BY <1>1, <1>2, <1>3, <1>4, TransformedIs
<1>7. /\ Carries(g, h, sources)
      /\ Carries(g, SourceOnly(h), sources)
  BY <1>1, <1>2, <1>3, <1>4, ChangedCarries
<1> DEFINE new == Graph(built)
<1>8. (h = g => new = h) /\ (h # g => new = Rewritten(h))
  BY <1>1, <1>5, <1>6, GraphMade DEF g
<1>9. Carries(g, new, sources)
  BY <1>7, <1>8 DEF Rewritten
<1>10. EntrySource(built) # <<>>
  <2> SUFFICES ASSUME EntrySource(built) = <<>> PROVE FALSE
    OBVIOUS
  <2>1. {i \in DOMAIN EntrySource(built) : EntrySource(built)[i] = "expanded-render"} = {}
    OBVIOUS
  <2>2. QED
    BY <1>1, <2>1, FS_EmptySet DEF Count
<1> HIDE DEF new
<1>11. SameModules(g, new)
  BY <1>1, <1>3, <1>9, <1>10, SameFollow DEF src, new
<1>12. CachesFresh(g, new)
  <2>1. /\ IsSequence(new.modules) /\ Len(new.modules) = Len(g.modules)
        /\ \A i \in 1..Len(g.modules) : SoundModule(new.modules[i])
    BY <1>9 DEF Carries
  <2>2. QED
    BY <1>3, <1>6, <1>8, <2>1, CachesFollow
<1>13. QED
  BY <1>11, <1>12 DEF GraphCarried, g, new

\* The modules of a verified executable, read back out of it, are those that were
\* taken out of the original, with the rewritten source cut at the right places;
\* what was compiled from a source is kept only beside that source, and of the
\* shared records of a changed graph only the policy is left (apply_patches,
\* rebuild_blob, parse_blob).
THEOREM GraphCarriedHolds == Spec => []GraphCarried
<1>1. ApplyInv /\ RewriteInv => GraphCarried
  BY GraphInv
<1>2. Init => ApplyInv /\ RewriteInv
  BY ApplyInitInv, RewriteInit
<1>3. ApplyInv /\ RewriteInv /\ [Next]_vars => (ApplyInv /\ RewriteInv)'
  BY ApplyNextInv, RewriteNext
<1>4. QED
  BY <1>1, <1>2, <1>3, PTL DEF Spec

-----------------------------------------------------------------------------
(* What a run makes of the source. *)

\* An executable whose source has lost the first site of the first set.
Spent(exe) == Count(EntrySource(exe), "thinking-guard") = 0

\* The input was made by Bun, or it is spent.
InputInv ==
  \/ Unreadable \/ InvalidEntry(Graph(Data))
  \/ Original(Data) \/ Spent(Data)

\* What the run has made of its source so far, and what of a whole one.
Halfway ==
  /\ next \in 0..Len(Sets)
  /\ IF Original(Data) THEN Reached(Sets, next, EntrySource(Data), source)
     ELSE next = 0 /\ source = EntrySource(Data)
Entire ==
  Original(Data) /\ Reached(Sets, Len(Sets), EntrySource(Data), source)

EngineInv ==
  /\ {cmd.version, cmd.release} \subseteq NoVersion..NoMax - 1
  /\ InputInv
  /\ step = "patching" => Halfway
  /\ step \in {"verifying", "staging"} => Entire
  /\ step \in {"version", "help", "publishing", "writing", "chmod"} => Spent(built)

\* At first nothing of ccpatch's is in the input.
LEMMA EngineInit == Init => EngineInv
<1> SUFFICES ASSUME Init PROVE EngineInv
  OBVIOUS
<1>1. PICK b \in Binaries :
        /\ disk = [p \in {"in", "out"} |-> IF p = "in" THEN Whole(b.file, TRUE) ELSE Absent]
        /\ cmd = [NoCommand EXCEPT !.release = b.version, !.sound = b.sound]
  BY DEF Init
<1>2. Data = b.file /\ disk["in"].whole
  BY <1>1 DEF Data, Whole
<1>3. cmd.version = NoVersion /\ cmd.release = b.version
  BY <1>1 DEF NoCommand
<1>4. {cmd.version, cmd.release} \subseteq NoVersion..NoMax - 1
  <2>1. b.version \in {c.version : c \in Binaries}
    OBVIOUS
  <2>2. b.version \in NoVersion..NoMax - 1
    BY <2>1, VersionsAssumption
  <2>3. NoVersion \in NoVersion..NoMax - 1
    BY DEF NoVersion, NoMax
  <2>4. QED
    BY <1>3, <2>2, <2>3
<1>5. InputInv
  BY <1>2, OriginalAssumption DEF InputInv, Unreadable
<1>6. step = "idle"
  BY DEF Init
<1>7. QED
  BY <1>4, <1>5, <1>6 DEF EngineInv

LEMMA EngineEnds ==
  ASSUME EngineInv, disk' = disk, cmd' = cmd, step' \in {"ended", "idle"}
  PROVE  EngineInv'
BY DEF EngineInv, InputInv, Unreadable, Data

\* A run begins with no set applied,
LEMMA EngineStart ==
  ASSUME RewriteInv, EngineInv, ApplyInv, NEW v \in VersionTexts \cup {cmd.release},
         NEW zero, NEW smoke, NEW out, Start(v, zero, smoke, out)
  PROVE  EngineInv'
<1>1. disk' = disk /\ next' = 0
  BY DEF Start
<1>2. {cmd'.version, cmd'.release} \subseteq NoVersion..NoMax - 1
  <2>1. "version" \in DOMAIN cmd
    BY CommandFields DEF ApplyInv, CommandInv
  <2>2. cmd'.version = v /\ cmd'.release = cmd.release
    BY <2>1 DEF Start
  <2>3. v \in NoVersion..NoMax - 1 /\ cmd.release \in NoVersion..NoMax - 1
    BY VersionsAssumption DEF EngineInv
  <2>4. QED
    BY <2>2, <2>3
<1>3. InputInv'
  BY <1>1 DEF EngineInv, InputInv, Unreadable, Data
<1>4. CASE step' = "ended"
  BY <1>2, <1>3, <1>4 DEF EngineInv
<1>5. CASE step' # "ended"
  <2>1. /\ ~Unreadable /\ ~InvalidEntry(Graph(Data))
        /\ step' = "patching" /\ source' = EntrySource(Data)
    BY <1>5 DEF Start, End
  <2>2. IsSequence(EntrySource(Data))
    BY <2>1, TakenIs DEF RewriteInv, FilesInv
  <2>3. Original(Data) => Reached(Sets', 0, EntrySource(Data), EntrySource(Data))
    BY <2>2, NoSetYet DEF Original
  <2>4. Len(Sets') \in Nat
    BY AdmittedSets, AsSeq DEF Sets, AreSets
  <2>5. 0 \in 0..Len(Sets')
    BY <2>4
  <2>6. Data' = Data
    BY <1>1 DEF Data
  <2>7. Halfway'
    BY <1>1, <2>1, <2>3, <2>5, <2>6 DEF Halfway
  <2>8. QED
    BY <1>2, <1>3, <2>1, <2>7 DEF EngineInv
<1>6. QED
  BY <1>4, <1>5

\* applies one after the other to a whole source, and none to a spent one,
LEMMA EngineApply ==
  ASSUME RewriteInv, EngineInv, ApplyNext
  PROVE  EngineInv'
<1> DEFINE result == ApplySet(Sets[next + 1], source)
           v == cmd.version
<1>1. /\ step = "patching" /\ disk' = disk /\ cmd' = cmd /\ next < Len(Sets)
      /\ IF result.ok THEN next' = next + 1 /\ source' = result.source /\ step' = step
                      ELSE step' = "ended"
  BY DEF ApplyNext, End
<1>2. CASE ~result.ok
  BY <1>1, <1>2, EngineEnds
<1>3. CASE result.ok
  <2>1. /\ next \in Nat /\ ~Unreadable /\ ~InvalidEntry(Graph(Data))
        /\ Halfway /\ InputInv /\ v \in NoVersion..NoMax - 1 /\ SoundFile(Data)
    BY <1>1 DEF RewriteInv, SourceInv, FilesInv, EngineInv
  <2>2. Original(Data)
    <3> SUFFICES ASSUME ~Original(Data) PROVE FALSE
      OBVIOUS
    <3>1. next = 0 /\ source = EntrySource(Data) /\ Spent(Data)
      BY <2>1 DEF Halfway, InputInv
    <3>2. Count(source, "thinking-guard") = 0
      BY <3>1 DEF Spent
    <3>3. Sets[1] = ThinkingExpanded(v)
      BY <2>1, AdmittedOrder DEF Sets
    <3>4. result = ApplySet(ThinkingExpanded(v), source)
      BY <3>1, <3>3
    <3> HIDE DEF result, v
    <3>5. QED
      BY <1>3, <3>2, <3>4, SpentFails
  <2>3. Reached(Sets, next, EntrySource(Data), source)
    BY <2>1, <2>2 DEF Halfway
  <2>4. IsSequence(EntrySource(Data))
    BY <2>1, TakenIs
  <2>5. Reached(Sets, next + 1, EntrySource(Data), result.source)
    BY <1>1, <1>3, <2>1, <2>3, <2>4, NextSet DEF Sets
  <2>6. next + 1 \in 0..Len(Sets)
    <3>1. Len(Sets) \in Nat
      BY AdmittedSets, AsSeq DEF Sets, AreSets
    <3>2. QED
      BY <1>1, <2>1, <3>1
  <2>7. Data' = Data /\ Sets' = Sets /\ next' = next + 1 /\ source' = result.source
        /\ step' = "patching"
    BY <1>1, <1>3 DEF Data, Sets
  <2> HIDE DEF result
  <2>8. Halfway'
    BY <2>2, <2>5, <2>6, <2>7 DEF Halfway
  <2>9. InputInv'
    BY <1>1, <2>1 DEF InputInv, Unreadable, Data
  <2>10. QED
    BY <1>1, <2>7, <2>8, <2>9 DEF EngineInv
<1>4. QED
  BY <1>2, <1>3

\* so what is laid out has been through all of them,
LEMMA EngineBuilds ==
  ASSUME RewriteInv, EngineInv, Rebuild
  PROVE  EngineInv'
<1>1. step = "patching" /\ disk' = disk /\ cmd' = cmd /\ next = Len(Sets)
  BY DEF Rebuild
<1>2. CASE step' = "ended"
  BY <1>1, <1>2, EngineEnds
<1>3. CASE step' # "ended"
  <2>1. step' = "verifying" /\ source' = source
    BY <1>3 DEF Rebuild, End
  <2>2. Len(Sets) # 0
    BY <1>1, AdmittedOrder DEF EngineInv, Sets
  <2>3. Entire
    BY <1>1, <2>2 DEF EngineInv, Halfway, Entire
  <2>4. Data' = Data /\ Sets' = Sets
    BY <1>1 DEF Data, Sets
  <2>5. Entire'
    BY <2>1, <2>3, <2>4 DEF Entire
  <2>6. InputInv'
    BY <1>1 DEF EngineInv, InputInv, Unreadable, Data
  <2>7. QED
    BY <1>1, <2>1, <2>5, <2>6 DEF EngineInv
<1>4. QED
  BY <1>2, <1>3

\* and so has what is verified.
LEMMA EngineWhole ==
  ASSUME RewriteInv, EngineInv, step = "staging"
  PROVE  /\ EntrySource(built) = Finalized(source)
         /\ IsSequence(EntrySource(Data)) /\ Original(Data)
         /\ cmd.version \in NoVersion..NoMax - 1
         /\ Reached(Sets, Len(Sets), EntrySource(Data), source)
         /\ Spent(built)
<1>1. GraphCarried
  BY GraphInv
<1>2. EntrySource(built) = Finalized(source)
  BY <1>1 DEF GraphCarried, Verified, SameModules
<1>3. SoundFile(Data) /\ ~InvalidEntry(Graph(Data))
  BY DEF RewriteInv, FilesInv, SourceInv
<1>4. IsSequence(EntrySource(Data))
  BY <1>3, TakenIs
<1>5. /\ Original(Data) /\ cmd.version \in NoVersion..NoMax - 1
      /\ Reached(Sets, Len(Sets), EntrySource(Data), source)
  BY DEF EngineInv, Entire
<1>6. Count(Finalized(source), "thinking-guard") = 0
  BY <1>4, <1>5, Completed DEF Sets
<1>7. QED
  BY <1>2, <1>4, <1>5, <1>6 DEF Spent

LEMMA EngineChecks ==
  ASSUME RewriteInv, EngineInv, Verify \/ Stage \/ Smoke
  PROVE  EngineInv'
<1>1. disk' = disk /\ cmd' = cmd /\ built' = built
  BY DEF Verify, Stage, Smoke
<1>2. CASE step' = "ended"
  BY <1>1, <1>2, EngineEnds
<1>3. CASE step' # "ended"
  <2>1. InputInv'
    BY <1>1 DEF EngineInv, InputInv, Unreadable, Data
  <2>2. CASE Verify
    <3>1. step = "verifying" /\ step' = "staging" /\ source' = source
      BY <1>3, <2>2 DEF Verify, End
    <3>2. Entire'
      BY <1>1, <3>1 DEF EngineInv, Entire, Data, Sets
    <3>3. QED
      BY <1>1, <2>1, <3>1, <3>2 DEF EngineInv
  <2>3. CASE Stage \/ Smoke
    <3>1. step \in {"staging", "version", "help"} /\ step' \in {"version", "help", "publishing"}
      BY <2>3 DEF Stage, Smoke
    <3>2. Spent(built)
      BY <3>1, EngineWhole DEF EngineInv
    <3>3. Spent(built)'
      BY <1>1, <3>2 DEF Spent
    <3>4. QED
      BY <1>1, <2>1, <3>1, <3>3 DEF EngineInv
  <2>4. QED
    BY <2>2, <2>3
<1>4. QED
  BY <1>2, <1>3

\* What is written over the output is spent.
LEMMA EnginePublishes ==
  ASSUME EngineInv, ApplyInv, Truncate \/ Write \/ Chmod
  PROVE  EngineInv'
<1>1. /\ cmd' = cmd /\ built' = built
      /\ step \in {"publishing", "writing", "chmod"} /\ step' \in {"writing", "chmod", "ended"}
  BY DEF Truncate, Write, Chmod, End
<1>2. InputInv /\ Spent(built)
  BY <1>1 DEF EngineInv
<1>3. InputInv'
  <2>1. \/ ~disk'["in"].whole
        \/ disk'["in"].file = built
        \/ disk'["in"].whole = disk["in"].whole /\ disk'["in"].file = disk["in"].file
    BY Published
  <2>2. QED
    BY <1>2, <2>1 DEF InputInv, Unreadable, Data, Spent
<1>4. Spent(built)'
  BY <1>1, <1>2 DEF Spent
<1>5. QED
  BY <1>1, <1>3, <1>4 DEF EngineInv

LEMMA EngineNext == RewriteInv /\ EngineInv /\ ApplyInv /\ [Next]_vars => EngineInv'
<1> SUFFICES ASSUME RewriteInv, EngineInv, ApplyInv, [Next]_vars PROVE EngineInv'
  OBVIOUS
<1>1. CASE \E v \in VersionTexts \cup {cmd.release}, zero, smoke \in BOOLEAN, out \in {"in", "out"} :
             Start(v, zero, smoke, out)
  BY <1>1, EngineStart
<1>2. CASE ApplyNext
  BY <1>2, EngineApply
<1>3. CASE Rebuild
  BY <1>3, EngineBuilds
<1>4. CASE Verify \/ Stage \/ Smoke
  BY <1>4, EngineChecks
<1>5. CASE Truncate \/ Write \/ Chmod
  BY <1>5, EnginePublishes
<1>6. CASE SignFails \/ SmokeFails \/ WriteFails \/ Kill \/ Again
  BY <1>6, EngineEnds DEF SignFails, SmokeFails, WriteFails, Kill, Again, End
<1>7. CASE UNCHANGED vars
  BY <1>7 DEF vars, EngineInv, InputInv, Halfway, Entire, Sets, Unreadable, Data
<1>8. QED
  BY <1>1, <1>2, <1>3, <1>4, <1>5, <1>6, <1>7 DEF Next

\* The boundaries of an unsplit source are none, those of a split one its modules'.
LEMMA AsManyModules ==
  ASSUME RewriteInv, EngineInv, step = "staging"
  PROVE  LET all == Amount(EntrySource(Data), Boundaries)
         IN Len(SourceModules(Graph(built))) = IF all = 0 THEN 1 ELSE all
<1> DEFINE g == Graph(Data)
           h == Graph(built)
           old == SourceModules(g)
           new == SourceModules(h)
           taken == EntrySource(Data)
           code == Finalized(source)
           all == Amount(taken, Boundaries)
<1>1. /\ EntrySource(built) = code /\ IsSequence(taken) /\ Original(Data)
      /\ Reached(Sets, Len(Sets), taken, source) /\ cmd.version \in NoVersion..NoMax - 1
  BY EngineWhole
<1>2. /\ SoundFile(Data) /\ ~InvalidEntry(g) /\ ~BoundaryChanged(code, old)
      /\ Count(EntrySource(built), "expanded-render") # 0
      /\ SoundFile(built)
  BY DEF RewriteInv, FilesInv, SourceInv, BuiltInv
<1>3. IsGraph(g) /\ SoundGraph(g) /\ IsGraph(h) /\ SoundGraph(h)
  BY <1>2, TakenIs
<1>4. SameModules(g, h)
  BY GraphInv DEF GraphCarried, Verified
<1>5. IsSequence(code) /\ Amount(code, Boundaries) = all
  BY <1>1, Completed DEF Sets
<1> HIDE DEF g, h, code, taken
<1>6. /\ IsSequence(old) /\ IsSequence(new) /\ Len(new) = Len(old)
  <2>1. Len(h.modules) = Len(g.modules) /\ h.entry = g.entry
    BY <1>4 DEF SameModules
  <2>2. \A i \in 1..Len(g.modules) : h.modules[i].tail = g.modules[i].tail
    <3>1. DOMAIN g.modules = 1..Len(g.modules)
      BY <1>3, AsSeq DEF IsGraph
    <3>2. QED
      BY <1>4, <3>1 DEF SameModules
  <2>3. IsSequence(h.modules)
    BY <1>3 DEF IsGraph
  <2>4. QED
    BY <1>2, <1>3, <2>1, <2>2, <2>3, SourcesMatch
<1>7. Len(old) \in Nat
  BY <1>6, AsSeq
<1> HIDE DEF old, new
<1>8. Len(old) # 0
  <2> SUFFICES ASSUME Len(old) = 0 PROVE FALSE
    OBVIOUS
  <2>1. Len(new) = 0 /\ DOMAIN new = {}
    <3>1. DOMAIN new = 1..0
      BY <1>6, AsSeq
    <3>2. QED
      BY <1>6, <3>1
  <2> DEFINE parts == [i \in DOMAIN new |-> <<new[i].name.is>> \o new[i].contents.of]
  <2>2. EntrySource(built) = FlattenSeq(parts)
    BY <2>1 DEF EntrySource, GraphSource, new, h
  <2>3. parts = <<>>
    BY <2>1
  <2> HIDE DEF parts
  <2>4. EntrySource(built) = <<>>
    BY <2>2, <2>3, NoEntry, FlattenIs
  <2>5. Count(<<>>, "expanded-render") = 0
    BY CountIs, AmountFew
  <2>6. QED
    BY <1>2, <2>4, <2>5
<1> DEFINE more == IF all = 0 THEN 1 ELSE all
<1>9. ASSUME Len(old) = 1 PROVE Len(new) = more
  <2>1. ~Split(taken)
    BY <1>1, <1>9 DEF Original, taken, old, g
  <2>2. all = 0
    BY <1>1, <2>1, SplitIs
  <2>3. QED
    BY <1>6, <1>9, <2>2
<1>10. ASSUME Len(old) > 1 PROVE Len(new) = more
  <2>1. Len(Cuts(code)) = Len(old)
    BY <1>2, <1>10 DEF BoundaryChanged
  <2>2. Cuts(code) = [n \in 1..all |-> At({i \in DOMAIN code : code[i] \in Boundaries}, n)]
    <3>1. Cardinality({i \in DOMAIN code : code[i] \in Boundaries}) = all
      BY <1>5 DEF Amount, Places
    <3>2. QED
      BY <3>1 DEF Cuts
  <2>3. all \in Nat
    BY <1>1, AmountIs
  <2> HIDE DEF all
  <2>4. Len(Cuts(code)) = all
    <3>1. Cuts(code) = [n \in 1..all |-> Cuts(code)[n]]
      BY <2>2
    <3>2. QED
      BY <2>3, <3>1, MadeSequence
  <2>5. Len(new) = all /\ all # 0
    BY <1>6, <1>10, <2>1, <2>4
  <2>6. QED
    BY <2>5 DEF all
<1> HIDE DEF more
<1>11. Len(new) = more
  <2>1. Len(old) = 1 \/ Len(old) > 1
    <3>1. \A n \in Nat : n # 0 => n = 1 \/ n > 1
      OBVIOUS
    <3>2. QED
      BY <1>7, <1>8, <3>1, Zenon
  <2>2. QED
    BY <1>9, <1>10, <2>1
<1>12. QED
  BY <1>11 DEF more, all, taken, new, h

LEMMA WholeInv == RewriteInv /\ EngineInv => WholePatch
<1> SUFFICES ASSUME RewriteInv, EngineInv, Verified PROVE WholePatch
  BY DEF WholePatch
<1> DEFINE code == EntrySource(built)
           sets == ToSet(Sets)
           marks == UNION {MarksOf(s) : s \in sets}
           all == Amount(EntrySource(Data), Boundaries)
<1>1. step = "staging"
  BY DEF Verified
<1>2. /\ code = Finalized(source) /\ IsSequence(EntrySource(Data))
      /\ Reached(Sets, Len(Sets), EntrySource(Data), source) /\ cmd.version \in NoVersion..NoMax - 1
  BY <1>1, EngineWhole
<1>3. /\ \A s \in sets : \A i \in DOMAIN s.patches :
           LET p == s.patches[i]
           IN /\ \A f \in Sites(p) \ (ToSet(p.to) \cup marks) : Count(code, f) = 0
              /\ \A m \in Marks(p) :
                   \/ Count(code, m) \in p.counts
                   \/ (~p.required /\ Count(code, m) = 0)
      /\ \A s \in EverySet : \A m \in MarksOf(s) \ marks : Count(code, m) = 0
      /\ \A f \in BootFragments : Count(code, f) = 0
      /\ Count(code, Prelude) =
           IF \E s \in sets : Registers(s, code) THEN IF all = 0 THEN 1 ELSE all ELSE 0
  BY <1>2, Completed DEF Sets
<1>4. Len(SourceModules(Graph(built))) = IF all = 0 THEN 1 ELSE all
  BY <1>1, AsManyModules
<1>5. (\E s \in sets : Registers(s, code)) <=>
        \E s \in sets : s.boot = "always" \/ (s.boot = "split" /\ Split(code))
  BY DEF Registers
<1> HIDE DEF code, all, sets, marks
<1>6. Count(code, Prelude) =
        IF \E s \in sets : s.boot = "always" \/ (s.boot = "split" /\ Split(code))
          THEN Len(SourceModules(Graph(built))) ELSE 0
  BY <1>3, <1>4, <1>5
<1>7. QED
  BY <1>3, <1>6 DEF WholePatch, code, sets, marks

\* The source of a verified executable carries every admitted set whole and once, and
\* nothing of any other: no site is left to a required patch, each mark is there as
\* often as its patch expects, and the runtime opens every module of the graph once if
\* a set needs it (PatchSet.apply, default_patch_sets, finalize_module_runtime).
THEOREM WholePatchHolds == Spec => []WholePatch
<1>1. ApplyInv /\ RewriteInv /\ EngineInv => WholePatch
  BY WholeInv
<1>2. Init => ApplyInv /\ RewriteInv /\ EngineInv
  BY ApplyInitInv, RewriteInit, EngineInit
<1>3. ApplyInv /\ RewriteInv /\ EngineInv /\ [Next]_vars => (ApplyInv /\ RewriteInv /\ EngineInv)'
  BY ApplyNextInv, RewriteNext, EngineNext
<1>4. QED
  BY <1>1, <1>2, <1>3, PTL DEF Spec

-----------------------------------------------------------------------------
(* Why a run refuses. *)

\* An executable that the first set has been through.
Rendering(exe) == Count(EntrySource(exe), "expanded-render") > 0

\* A run that has nothing to refuse for.
Granted == cmd.sound /\ cmd.version = cmd.release /\ ~Rendering(Data)

\* A sound executable is as its release was, until it is patched.
ReleaseInv ==
  cmd.sound =>
    \/ Unreadable \/ Rendering(Data)
    \/ ~InvalidEntry(Graph(Data)) /\ Known(Data, cmd.release) /\ Original(Data)

RefuseInv ==
  /\ ReleaseInv
  /\ step = "patching" /\ Granted => Awaits(Sets, next, EntrySource(Data), source)
  /\ step \in {"version", "help", "publishing", "writing", "chmod"} => Rendering(built)
  /\ RefusedWithCause

\* What was written is a file.
LEMMA WrittenFile == ASSUME NEW exe, SoundFile(exe) PROVE exe # NoFile
<1> SUFFICES ASSUME SoundFile(NoFile) PROVE FALSE
  OBVIOUS
<1>1. NoFile.magic = "none" /\ DOMAIN NoFile = {"magic"}
  BY DEF NoFile
<1> DEFINE none == NoFile
<1> HIDE DEF none
<1>2. none.magic = "none" /\ DOMAIN none = {"magic"}
  BY <1>1 DEF none
<1>3. SoundFile(none)
  BY DEF none
<1>4. SoundMacho(none)
  <2>1. ~Elf(none)
    BY <1>2 DEF Elf
  <2>2. QED
    BY <1>3, <2>1 DEF SoundFile
<1>5. "image" \in DOMAIN none
  BY <1>4 DEF SoundMacho
<1>6. QED
  BY <1>2, <1>5

\* A refusal is what an error or a traceback without a file is.
LEMMA Caused ==
  ASSUME \/ step' # "ended" \/ built' # NoFile
         \/ exit' = "error" /\ ~Granted'
         \/ exit' = "traceback" /\ (Unreadable' \/ ~Elf(Data') \/ UnsupportedFlags(Graph(Data')))
         \/ exit' \in {"ok", "killed"}
  PROVE  RefusedWithCause'
<1>1. CASE step' # "ended" \/ built' # NoFile
  BY <1>1 DEF RefusedWithCause
<1>2. CASE exit' = "error" /\ ~Granted'
  BY <1>2 DEF RefusedWithCause, Granted, Rendering
<1>3. CASE exit' = "traceback" /\ (Unreadable' \/ ~Elf(Data') \/ UnsupportedFlags(Graph(Data')))
  BY <1>3 DEF RefusedWithCause
<1>4. CASE exit' \in {"ok", "killed"}
  BY <1>4 DEF RefusedWithCause
<1>5. QED
  BY <1>1, <1>2, <1>3, <1>4

\* At first the executable is as its release was.
LEMMA RefuseInit == Init => RefuseInv
<1> SUFFICES ASSUME Init PROVE RefuseInv
  OBVIOUS
<1>1. PICK b \in Binaries :
        /\ disk = [p \in {"in", "out"} |-> IF p = "in" THEN Whole(b.file, TRUE) ELSE Absent]
        /\ cmd = [NoCommand EXCEPT !.release = b.version, !.sound = b.sound]
  BY DEF Init
<1>2. Data = b.file /\ disk["in"].whole
  BY <1>1 DEF Data, Whole
<1>3. cmd.release = b.version /\ cmd.sound = b.sound
  BY <1>1 DEF NoCommand
<1>4. ReleaseInv
  <2> SUFFICES ASSUME cmd.sound, ~Unreadable
               PROVE  ~InvalidEntry(Graph(Data)) /\ Known(Data, cmd.release) /\ Original(Data)
    BY DEF ReleaseInv
  <2>1. b.sound
    BY <1>3
  <2>2. Readable(b.file)
    BY <1>2 DEF Unreadable
  <2>3. ~InvalidEntry(Graph(b.file)) /\ Known(b.file, b.version)
    BY <2>1, <2>2, SoundAssumption
  <2>4. Original(b.file)
    BY <2>2, <2>3, OriginalAssumption
  <2>5. QED
    BY <1>2, <1>3, <2>3, <2>4
<1>5. step = "idle"
  BY DEF Init
<1>6. QED
  BY <1>4, <1>5 DEF RefuseInv, RefusedWithCause

\* No step but those that write the output changes what the input is.
LEMMA ReleaseKept ==
  ASSUME ReleaseInv, disk' = disk, cmd'.sound = cmd.sound, cmd'.release = cmd.release
  PROVE  ReleaseInv'
BY DEF ReleaseInv, Unreadable, Data, Rendering

LEMMA RefuseEnds ==
  ASSUME RefuseInv, disk' = disk, cmd' = cmd, step' \in {"ended", "idle"}, RefusedWithCause'
  PROVE  RefuseInv'
<1>1. ReleaseInv'
  BY ReleaseKept DEF RefuseInv
<1>2. QED
  BY <1>1 DEF RefuseInv

\* A run begins on an executable its sets know, or has a cause to refuse,
LEMMA RefuseStart ==
  ASSUME RefuseInv, RewriteInv, EngineInv, ApplyInv, NEW v \in VersionTexts \cup {cmd.release},
         NEW zero, NEW smoke, NEW out, Start(v, zero, smoke, out)
  PROVE  RefuseInv'
<1>1. disk' = disk /\ next' = 0
  BY DEF Start
<1>2. cmd'.sound = cmd.sound /\ cmd'.release = cmd.release
  <2>1. DOMAIN cmd = {"version", "release", "sound", "zero", "smoke", "out", "before"}
    BY CommandFields DEF ApplyInv, CommandInv
  <2>2. cmd' = [cmd EXCEPT !.version = v, !.zero = zero, !.smoke = smoke, !.out = out,
                           !.before = disk[out]]
    BY DEF Start
  <2>3. QED
    BY <2>1, <2>2
<1>3. ReleaseInv'
  BY <1>1, <1>2, ReleaseKept DEF RefuseInv
<1>4. (Unreadable' <=> Unreadable) /\ Data' = Data
  BY <1>1 DEF Unreadable, Data
<1>5. CASE Unreadable
  <2>1. step' = "ended" /\ exit' = "traceback"
    BY <1>5 DEF Start, End
  <2>2. RefusedWithCause'
    BY <1>4, <1>5, <2>1, Caused
  <2>3. QED
    BY <1>3, <2>1, <2>2 DEF RefuseInv
<1>6. CASE ~Unreadable /\ InvalidEntry(Graph(Data))
  <2>1. step' = "ended" /\ exit' = "error"
    BY <1>6 DEF Start, End
  <2>2. ~Granted'
    BY <1>3, <1>4, <1>6 DEF Granted, ReleaseInv
  <2>3. RefusedWithCause'
    BY <2>1, <2>2, Caused
  <2>4. QED
    BY <1>3, <2>1, <2>3 DEF RefuseInv
<1>7. CASE ~Unreadable /\ ~InvalidEntry(Graph(Data))
  <2>1. step' = "patching" /\ source' = EntrySource(Data)
    BY <1>7 DEF Start
  <2>2. ASSUME Granted' PROVE Awaits(Sets', 0, EntrySource(Data), EntrySource(Data))
    <3>1. Original(Data)
      BY <1>3, <1>4, <1>7, <2>2 DEF Granted, ReleaseInv
    <3>2. \A f \in Left : Count(EntrySource(Data), f) = 0
      BY <3>1 DEF Original
    <3>3. IsSequence(EntrySource(Data))
      BY <1>4, <1>7, TakenIs DEF RewriteInv, FilesInv
    <3>4. QED
      BY <3>2, <3>3, AwaitsFirst
  <2>3. Granted' => Awaits(Sets', next', EntrySource(Data'), source')
    BY <1>1, <1>4, <2>1, <2>2
  <2>4. RefusedWithCause'
    BY <2>1, Caused
  <2>5. QED
    BY <1>3, <2>1, <2>3, <2>4 DEF RefuseInv
<1>8. QED
  BY <1>5, <1>6, <1>7

\* which no set then does:
LEMMA GrantedIs ==
  ASSUME RefuseInv, RewriteInv, EngineInv, step = "patching", Granted
  PROVE  /\ ~InvalidEntry(Graph(Data)) /\ Known(Data, cmd.version) /\ SoundFile(Data)
         /\ IsSequence(EntrySource(Data))
         /\ Reached(Sets, next, EntrySource(Data), source)
         /\ Awaits(Sets, next, EntrySource(Data), source)
         /\ IsSequence(source) /\ next \in Nat /\ cmd.version \in NoVersion..NoMax - 1
<1>1. ~Unreadable /\ ~InvalidEntry(Graph(Data)) /\ IsSequence(source) /\ next \in Nat /\ SoundFile(Data)
  BY DEF RewriteInv, SourceInv, FilesInv
<1>2. Known(Data, cmd.release) /\ Original(Data) /\ cmd.version = cmd.release
  BY <1>1 DEF RefuseInv, ReleaseInv, Granted
<1>3. IsSequence(EntrySource(Data))
  BY <1>1, TakenIs
<1>4. Reached(Sets, next, EntrySource(Data), source)
  BY <1>2 DEF EngineInv, Halfway
<1>5. Awaits(Sets, next, EntrySource(Data), source)
  BY DEF RefuseInv
<1>6. cmd.version \in NoVersion..NoMax - 1
  BY DEF EngineInv
<1>7. QED
  BY <1>1, <1>2, <1>3, <1>4, <1>5, <1>6

LEMMA RefuseApply ==
  ASSUME RefuseInv, RewriteInv, EngineInv, ApplyNext
  PROVE  RefuseInv'
<1> DEFINE result == ApplySet(Sets[next + 1], source)
<1>1. /\ step = "patching" /\ disk' = disk /\ cmd' = cmd /\ next < Len(Sets)
      /\ IF result.ok THEN next' = next + 1 /\ source' = result.source /\ step' = step
                      ELSE step' = "ended" /\ exit' = "error"
  BY DEF ApplyNext, End
<1>2. (Granted' <=> Granted) /\ Sets' = Sets /\ Data' = Data
  BY <1>1 DEF Granted, Sets, Data, Rendering
<1>3. ASSUME Granted PROVE result.ok /\ Awaits(Sets, next + 1, EntrySource(Data), result.source)
  <2> DEFINE v == cmd.version
             taken == EntrySource(Data)
  <2>1. /\ Known(Data, v) /\ Reached(Sets, next, taken, source) /\ Awaits(Sets, next, taken, source)
        /\ next \in Nat /\ v \in NoVersion..NoMax - 1
    BY <1>1, <1>3, GrantedIs
  <2>2. Sets = Admitted(v)
    BY DEF Sets
  <2>3. next + 1 \in DOMAIN Admitted(v)
    <3>1. IsSequence(Admitted(v))
      BY AdmittedSets DEF AreSets
    <3>2. DOMAIN Admitted(v) = 1..Len(Admitted(v)) /\ Len(Admitted(v)) \in Nat
      BY <3>1, AsSeq
    <3>3. QED
      BY <1>1, <2>1, <2>2, <3>2
  <2>4. KnownTo(Admitted(v)[next + 1], taken)
    BY <2>1, <2>3 DEF Known
  <2> HIDE DEF v, taken
  <2>5. LET made == ApplySet(Admitted(v)[next + 1], source)
        IN made.ok /\ Awaits(Admitted(v), next + 1, taken, made.source)
    BY <1>1, <2>1, <2>2, <2>4, AwaitsNext
  <2>6. QED
    BY <2>2, <2>5 DEF taken
<1> HIDE DEF result
<1>4. ReleaseInv'
  BY <1>1, ReleaseKept DEF RefuseInv
<1>5. CASE result.ok
  <2>1. step' = "patching" /\ next' = next + 1 /\ source' = result.source
    BY <1>1, <1>5
  <2>2. Granted' => Awaits(Sets', next', EntrySource(Data'), source')
    BY <1>2, <1>3, <2>1
  <2>3. RefusedWithCause'
    BY <2>1, Caused
  <2>4. QED
    BY <1>4, <2>1, <2>2, <2>3 DEF RefuseInv
<1>6. CASE ~result.ok
  <2>1. step' = "ended" /\ exit' = "error" /\ ~Granted'
    BY <1>1, <1>2, <1>3, <1>6
  <2>2. RefusedWithCause'
    BY <2>1, Caused
  <2>3. QED
    BY <1>1, <2>1, <2>2, RefuseEnds
<1>7. QED
  BY <1>5, <1>6

\* nor does the layout, but for flags that it does not know;
LEMMA RefuseBuilds ==
  ASSUME RefuseInv, RewriteInv, EngineInv, Rebuild
  PROVE  RefuseInv'
<1> DEFINE g == Graph(Data)
           src == Finalized(source)
           changed == Transformed(g, src, cmd.zero)
           image == ReadBlob(Data)
<1>1. step = "patching" /\ disk' = disk /\ cmd' = cmd /\ next = Len(Sets)
  BY DEF Rebuild
<1>2. Data' = Data /\ (Granted' <=> Granted)
  BY <1>1 DEF Data, Granted, Rendering
<1>3. SourceInv /\ SoundFile(Data) /\ ~InvalidEntry(g) /\ IsSequence(source)
  BY <1>1 DEF RewriteInv, SourceInv, FilesInv
<1>4. IsGraph(g) /\ SoundGraph(g) /\ IsSequence(EntrySource(Data))
  BY <1>3, TakenIs
<1>5. IsSequence(src)
  BY <1>3, FinalSequence
<1>6. CASE BoundaryChanged(src, SourceModules(g))
  <2>1. step' = "ended" /\ exit' = "error"
    BY <1>6 DEF Rebuild, End
  <2>2. ~Granted
    <3> SUFFICES ASSUME Granted PROVE FALSE
      OBVIOUS
    <3>1. Awaits(Sets, next, EntrySource(Data), source) /\ Known(Data, cmd.version)
      BY <1>1, GrantedIs
    <3>2. ~BoundaryChanged(EntrySource(Data), SourceModules(g))
      BY <3>1 DEF Known
    <3>3. SameSeams(EntrySource(Data), source) /\ SameSeams(source, src)
      BY <1>3, <3>1, FinalSeams DEF Awaits
    <3>4. SameSeams(EntrySource(Data), src)
      BY <3>3 DEF SameSeams
    <3>5. IsSequence(SourceModules(g))
      BY <1>3, <1>4, SourcesAre
    <3> HIDE DEF g, src
    <3>6. ~BoundaryChanged(src, SourceModules(g))
      BY <1>4, <1>5, <3>2, <3>4, <3>5, BoundaryKept
    <3>7. QED
      BY <1>6, <3>6
  <2>3. RefusedWithCause'
    BY <1>2, <2>1, <2>2, Caused
  <2>4. QED
    BY <1>1, <2>1, <2>3, RefuseEnds
<1>7. CASE ~BoundaryChanged(src, SourceModules(g)) /\ Refused(changed, image)
  <2>1. step' = "ended" /\ exit' = "traceback"
    BY <1>7 DEF Rebuild, End
  <2>2. UnsupportedFlags(g)
    <3>1. UnsupportedFlags(changed)
      BY <1>7 DEF Refused
    <3> HIDE DEF g, src
    <3>2. changed.flags = g.flags
      BY <1>3, <1>4, <1>5, <1>7, TransformedIs
    <3>3. QED
      BY <3>1, <3>2 DEF UnsupportedFlags
  <2>3. RefusedWithCause'
    BY <1>2, <2>1, <2>2, Caused
  <2>4. QED
    BY <1>1, <2>1, <2>3, RefuseEnds
<1>8. CASE ~BoundaryChanged(src, SourceModules(g)) /\ ~Refused(changed, image)
  <2>1. step' = "verifying"
    BY <1>8 DEF Rebuild
  <2>2. RefusedWithCause'
    BY <2>1, Caused
  <2>3. ReleaseInv'
    <3>1. cmd'.sound = cmd.sound /\ cmd'.release = cmd.release /\ ReleaseInv
      BY <1>1 DEF RefuseInv
    <3>2. QED
      BY <1>1, <3>1, ReleaseKept
  <2>4. QED
    BY <2>1, <2>2, <2>3 DEF RefuseInv
<1>9. QED
  BY <1>6, <1>7, <1>8

\* what is built is a file from then on, and shows that it was patched;
LEMMA RefuseChecks ==
  ASSUME RefuseInv, RewriteInv, EngineInv, Verify \/ Stage \/ Smoke
  PROVE  RefuseInv'
<1>1. disk' = disk /\ cmd' = cmd /\ built' = built
  BY DEF Verify, Stage, Smoke
<1>2. step \in {"verifying", "staging", "version", "help"}
  BY DEF Verify, Stage, Smoke
<1>3. built' # NoFile
  BY <1>1, <1>2, WrittenFile DEF RewriteInv, FilesInv
<1>4. RefusedWithCause'
  BY <1>3, Caused
<1>5. ReleaseInv'
  <2>1. cmd'.sound = cmd.sound /\ cmd'.release = cmd.release /\ ReleaseInv
    BY <1>1 DEF RefuseInv
  <2>2. QED
    BY <1>1, <2>1, ReleaseKept
<1>6. step' \in {"ended", "staging"} \/ step \in {"staging", "version", "help"}
  BY DEF Verify, Stage, Smoke, End
<1>7. step' # "patching"
  BY DEF Verify, Stage, Smoke, End
<1>8. ASSUME step \in {"staging", "version", "help"} PROVE Rendering(built)
  <2>1. CASE step = "staging"
    <3>1. EntrySource(built) = Finalized(source) /\ IsSequence(source)
      BY <2>1, EngineWhole DEF RewriteInv, SourceInv
    <3>2. IsSequence(EntrySource(built)) /\ Count(EntrySource(built), "expanded-render") # 0
      BY <2>1, <3>1, FinalSequence DEF RewriteInv
    <3>3. Count(EntrySource(built), "expanded-render") \in Nat
      BY <3>2, CountIs, AmountIs
    <3>4. QED
      BY <3>2, <3>3 DEF Rendering
  <2>2. CASE step \in {"version", "help"}
    BY <2>2 DEF RefuseInv
  <2>3. QED
    BY <1>8, <2>1, <2>2
<1>9. step \in {"staging", "version", "help"} => Rendering(built)'
  BY <1>1, <1>8 DEF Rendering
<1>10. QED
  BY <1>4, <1>5, <1>6, <1>7, <1>9 DEF RefuseInv

\* written over the input, it is a cause to refuse.
LEMMA RefusePublishes ==
  ASSUME RefuseInv, RewriteInv, ApplyInv, Truncate \/ Write \/ Chmod
  PROVE  RefuseInv'
<1>1. /\ cmd' = cmd /\ built' = built
      /\ step \in {"publishing", "writing", "chmod"} /\ step' \in {"writing", "chmod", "ended"}
  BY DEF Truncate, Write, Chmod, End
<1>2. ReleaseInv /\ Rendering(built)
  BY <1>1 DEF RefuseInv
<1>3. ReleaseInv'
  <2>1. \/ ~disk'["in"].whole
        \/ disk'["in"].file = built
        \/ disk'["in"].whole = disk["in"].whole /\ disk'["in"].file = disk["in"].file
    BY Published
  <2>2. CASE ~disk'["in"].whole
    BY <2>2 DEF ReleaseInv, Unreadable
  <2>3. CASE disk'["in"].file = built
    BY <1>2, <2>3 DEF ReleaseInv, Data, Rendering
  <2>4. CASE disk'["in"].whole = disk["in"].whole /\ disk'["in"].file = disk["in"].file
    BY <1>1, <1>2, <2>4 DEF ReleaseInv, Unreadable, Data, Rendering
  <2>5. QED
    BY <2>1, <2>2, <2>3, <2>4
<1>4. built' # NoFile
  BY <1>1, WrittenFile DEF RewriteInv, FilesInv
<1>5. RefusedWithCause'
  BY <1>4, Caused
<1>6. Rendering(built)'
  BY <1>1, <1>2 DEF Rendering
<1>7. QED
  BY <1>1, <1>3, <1>5, <1>6 DEF RefuseInv

\* What another program refuses is an executable that is not ELF, or one that was built.
LEMMA RefuseFails ==
  ASSUME RefuseInv, RewriteInv, SignFails \/ SmokeFails \/ WriteFails \/ Kill \/ Again
  PROVE  RefuseInv'
<1>1. disk' = disk /\ cmd' = cmd /\ built' = built /\ step' \in {"ended", "idle"}
  BY DEF SignFails, SmokeFails, WriteFails, Kill, Again, End
<1>2. RefusedWithCause'
  <2>1. CASE SignFails
    <3>1. exit' = "traceback" /\ ~Elf(Data) /\ Data' = Data
      BY <1>1, <2>1 DEF SignFails, End, Data
    <3>2. QED
      BY <3>1, Caused
  <2>2. CASE SmokeFails \/ WriteFails
    <3>1. step \in {"version", "help", "staging", "publishing", "writing", "chmod"}
      BY <2>2 DEF SmokeFails, WriteFails
    <3>2. built' # NoFile
      BY <1>1, <3>1, WrittenFile DEF RewriteInv, FilesInv
    <3>3. QED
      BY <3>2, Caused
  <2>3. CASE Kill
    BY <2>3, Caused DEF Kill, End
  <2>4. CASE Again
    <3>1. step' # "ended"
      BY <2>4 DEF Again
    <3>2. QED
      BY <3>1, Caused
  <2>5. QED
    BY <2>1, <2>2, <2>3, <2>4
<1>3. QED
  BY <1>1, <1>2, RefuseEnds

LEMMA RefuseNext ==
  RefuseInv /\ RewriteInv /\ EngineInv /\ ApplyInv /\ [Next]_vars => RefuseInv'
<1> SUFFICES ASSUME RefuseInv, RewriteInv, EngineInv, ApplyInv, [Next]_vars PROVE RefuseInv'
  OBVIOUS
<1>1. CASE \E v \in VersionTexts \cup {cmd.release}, zero, smoke \in BOOLEAN, out \in {"in", "out"} :
             Start(v, zero, smoke, out)
  BY <1>1, RefuseStart
<1>2. CASE ApplyNext
  BY <1>2, RefuseApply
<1>3. CASE Rebuild
  BY <1>3, RefuseBuilds
<1>4. CASE Verify \/ Stage \/ Smoke
  BY <1>4, RefuseChecks
<1>5. CASE Truncate \/ Write \/ Chmod
  BY <1>5, RefusePublishes
<1>6. CASE SignFails \/ SmokeFails \/ WriteFails \/ Kill \/ Again
  BY <1>6, RefuseFails
<1>7. CASE UNCHANGED vars
  BY <1>7 DEF vars, RefuseInv, ReleaseInv, RefusedWithCause, Granted, Rendering, Sets, Unreadable, Data
<1>8. QED
  BY <1>1, <1>2, <1>3, <1>4, <1>5, <1>6, <1>7 DEF Next

\* A run refuses only for a cause: an executable of a release the sets know, given its own
\* version and not patched before, is rewritten, so the sets meet each other's replacements
\* in an order that works (PatchSet.apply, default_patch_sets, split_graph_source).
THEOREM RefusedWithCauseHolds == Spec => []RefusedWithCause
<1>1. RefuseInv => RefusedWithCause
  BY DEF RefuseInv
<1>2. Init => ApplyInv /\ RewriteInv /\ EngineInv /\ RefuseInv
  BY ApplyInitInv, RewriteInit, EngineInit, RefuseInit
<1>3. ApplyInv /\ RewriteInv /\ EngineInv /\ RefuseInv /\ [Next]_vars
        => (ApplyInv /\ RewriteInv /\ EngineInv /\ RefuseInv)'
  BY ApplyNextInv, RewriteNext, EngineNext, RefuseNext
<1>4. QED
  BY <1>1, <1>2, <1>3, PTL DEF Spec
=============================================================================
