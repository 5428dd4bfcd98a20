---------------------------- MODULE ApplyCommand ----------------------------
(***************************************************************************)
(* ccpatch apply (cli.py): read the executable, take the graph out of its  *)
(* blob, rewrite the source of its modules set by set, lay the blob and    *)
(* the executable out again, read the result back, stage it, start it      *)
(* twice, and only then write it over the output.  BunBlob, Containers and *)
(* PatchEngine are the parts it drives.  A run may be killed at any step,  *)
(* any write may fail, and a later run may be given what an earlier one    *)
(* wrote.                                                                  *)
(***************************************************************************)
EXTENDS Containers, PatchEngine

CONSTANTS Binaries,     \* executables that may be the input: [version, sound, file]
          VersionTexts, \* the numbers --version may be read as, besides the release's own
          MaxRuns

(* The parsers check little of what they read.  An executable they take    *)
(* was made by Bun, or by an earlier run out of one.                       *)
Readable(file) == ~CannotLoad(file) /\ ~BunFormatError(ReadBlob(file))
ASSUME BinariesAssumption == \A b \in Binaries : Readable(b.file) => SoundFile(b.file)
ASSUME VersionsAssumption ==
  VersionTexts \cup {b.version : b \in Binaries} \subseteq NoVersion..NoMax - 1

VARIABLES disk,    \* path -> what is there: [whole, file, exec, touched]
          cmd,     \* the arguments of the run, and the release it was given
          step,    \* what the run does next
          source,  \* the extracted source, as far as it is rewritten
          next,    \* how many of the admitted sets have been applied
          built,   \* the executable as rewritten in memory
          staged,  \* whether the copy in the temporary directory is complete
          exit,    \* how the run ended: "ok", "error", "traceback", "killed"
          tested,  \* whether both smoke commands answered
          runs
vars == <<disk, cmd, step, source, next, built, staged, exit, tested, runs>>

NoFile == [magic |-> "none"]
Absent == [whole |-> FALSE, file |-> NoFile, exec |-> FALSE]
Whole(file, exec) == [whole |-> TRUE, file |-> file, exec |-> exec]
Partial(exec) == [whole |-> FALSE, file |-> NoFile, exec |-> exec]

NoCommand == [version |-> NoVersion, release |-> NoVersion, sound |-> FALSE, zero |-> FALSE,
              smoke |-> FALSE, out |-> "out", before |-> Absent]

-----------------------------------------------------------------------------
(* The modules whose source is patched: the entry of a CommonJS bundle, or *)
(* the ES modules of a graph.                                              *)
InvalidEntry(g) == g.entry \notin 1..Len(g.modules)
EcmaSource(m) == m.tail = [loader |-> 1, format |-> 1, side |-> 0]
SourceModules(g) ==
  IF g.modules[g.entry].tail.format # 1 THEN <<g.modules[g.entry]>>
  ELSE Kept(g.modules, {i \in DOMAIN g.modules : EcmaSource(g.modules[i])})

GraphSource(modules) ==
  IF Len(modules) = 1 THEN modules[1].contents.of
  ELSE FlattenSeq([i \in DOMAIN modules |->
         <<modules[i].name.is>> \o modules[i].contents.of])

Graph(file) == ParseBlob(ReadBlob(file))
EntrySource(file) == GraphSource(SourceModules(Graph(file)))

(* Every boundary must be where the extraction put it, in its order.       *)
Cuts(src) ==
  LET cuts == {i \in DOMAIN src : src[i] \in Boundaries}
  IN [n \in 1..Cardinality(cuts) |-> At(cuts, n)]
BoundaryChanged(src, modules) ==
  /\ Len(modules) > 1
  /\ \/ Len(Cuts(src)) # Len(modules)
     \/ Cuts(src)[1] # 1
     \/ \E i \in DOMAIN modules : src[Cuts(src)[i]] # modules[i].name.is

(* Faulty: a module keeps the boundary in front of it.                     *)
SplitWithBoundary(src, modules) ==
  IF Len(modules) = 1 THEN <<src>>
  ELSE LET cuts == Cuts(src) \o <<Len(src) + 1>>
       IN [i \in DOMAIN modules |-> SubSeq(src, cuts[i], cuts[i + 1] - 1)]

SplitGraphSource(src, modules) ==
  IF Len(modules) = 1 THEN <<src>>
  ELSE LET cuts == Cuts(src) \o <<Len(src) + 1>>
       IN [i \in DOMAIN modules |-> SubSeq(src, cuts[i] + 1, cuts[i + 1] - 1)]

(* A text that ccpatch did not write has nothing in it of what it writes.  *)
Original(file) ==
  /\ \A f \in Left : Count(EntrySource(file), f) = 0
  /\ Len(SourceModules(Graph(file))) = 1 => ~Split(EntrySource(file))
ASSUME OriginalAssumption ==
  \A b \in Binaries : Readable(b.file) /\ ~InvalidEntry(Graph(b.file)) => Original(b.file)

(* What the releases have that the sets were written for: the sites of     *)
(* each patch that are the release's own as often as the patch expects,    *)
(* what it depends on, and nothing of what a set takes for a rest.         *)
KnownTo(set, src) ==
  /\ \A i \in DOMAIN set.patches :
       LET p == set.patches[i]
           own == Sites(p) \ Left
           n == Matches(src, own)
       IN own # {} =>
            /\ n \in p.counts \/ (~p.required /\ n = 0)
            /\ n > 0 => \A id \in p.needs \ Left : Count(src, id) = 1
  /\ \A f \in set.absent \ Left :
       Count(src, f) = 0 \/ \E i \in DOMAIN set.patches : f \in Sites(set.patches[i])
Known(file, v) ==
  LET src == EntrySource(file)
  IN /\ ~BoundaryChanged(src, SourceModules(Graph(file)))
     /\ \A i \in DOMAIN Admitted(v) : KnownTo(Admitted(v)[i], src)
ASSUME SoundAssumption ==
  \A b \in Binaries : b.sound /\ Readable(b.file) =>
    ~InvalidEntry(Graph(b.file)) /\ Known(b.file, b.version)

TextSize(fragments) == 9 + 7 * Len(fragments)
Contents(fragments) == [is |-> "source", of |-> fragments, size |-> TextSize(fragments)]

(* Faulty: caches go only on request.                                      *)
DropsWhenAsked(contents, m, zero) == zero

Drops(contents, m, zero) == zero \/ contents # m.contents

(* A module keeps its caches only with the source they were compiled from. *)
Transform(m, modules, sources, zero) ==
  LET at == SelectInSeq(modules, LAMBDA s : s.name = m.name)
  IN IF at = 0 THEN m
     ELSE LET new == [m EXCEPT !.contents = Contents(sources[at])]
          IN IF Drops(new.contents, m, zero)
               THEN [new EXCEPT !.bytecode = NoText, !.origin = NoText, !.info = NoText]
               ELSE new

Transformed(g, src, zero) ==
  LET modules == SourceModules(g)
      sources == SplitGraphSource(src, modules)
  IN [g EXCEPT !.modules = [i \in DOMAIN @ |-> Transform(@[i], modules, sources, zero)]]

-----------------------------------------------------------------------------
Init ==
  /\ \E b \in Binaries :
       /\ disk = [p \in {"in", "out"} |-> IF p = "in" THEN Whole(b.file, TRUE) ELSE Absent]
       /\ cmd = [NoCommand EXCEPT !.release = b.version, !.sound = b.sound]
  /\ step = "idle" /\ source = <<>> /\ next = 0 /\ built = NoFile
  /\ staged = FALSE /\ exit = "none" /\ tested = FALSE /\ runs = 0

Data == disk["in"].file

End(how) ==
  /\ step' = "ended" /\ exit' = how /\ staged' = FALSE
  /\ source' = <<>>

(* Only the errors of the pipeline itself are reported; the others leave   *)
(* the command with a traceback.  Both are a non-zero exit.                *)
Unreadable ==
  ~disk["in"].whole \/ ~Readable(Data)

Start(v, zero, smoke, out) ==
  /\ step = "idle" /\ runs < MaxRuns
  /\ runs' = runs + 1
  /\ cmd' = [cmd EXCEPT !.version = v, !.zero = zero, !.smoke = smoke, !.out = out,
                        !.before = disk[out]]
  /\ next' = 0 /\ built' = NoFile /\ tested' = FALSE
  /\ IF Unreadable THEN End("traceback")
     ELSE IF InvalidEntry(Graph(Data)) THEN End("error")
     ELSE /\ step' = "patching" /\ source' = EntrySource(Data)
          /\ exit' = "none" /\ staged' = FALSE
  /\ UNCHANGED disk

Sets == Admitted(cmd.version)

(* _patch_source: the next admitted set, all of it or the run ends.        *)
ApplyNext ==
  /\ step = "patching"
  /\ LET sets == Sets
         result == ApplySet(sets[next + 1], source)
     IN /\ next < Len(sets)
        /\ IF result.ok
             THEN next' = next + 1 /\ source' = result.source /\ UNCHANGED <<step, exit, staged>>
             ELSE End("error") /\ UNCHANGED next
  /\ UNCHANGED <<disk, cmd, built, tested, runs>>

(* The tail of apply_patches: the runtime, the boundaries, the blob and    *)
(* the executable around it.                                               *)
Rebuild ==
  /\ step = "patching" /\ next = Len(Sets)
  /\ LET g == Graph(Data)
         src == Finalized(source)
         changed == Transformed(g, src, cmd.zero)
         image == ReadBlob(Data)
     IN IF BoundaryChanged(src, SourceModules(g)) THEN End("error") /\ UNCHANGED built
        ELSE IF Refused(changed, image) THEN End("traceback") /\ UNCHANGED built
        ELSE /\ built' = WriteBlob(Data, RebuildBlob(changed, image))
             /\ step' = "verifying" /\ UNCHANGED <<source, exit, staged>>
  /\ UNCHANGED <<disk, cmd, next, tested, runs>>

(* codesign is another program, and may refuse what lief wrote.            *)
SignFails ==
  /\ step = "patching" /\ next = Len(Sets) /\ ~Elf(Data)
  /\ End("traceback")
  /\ UNCHANGED <<disk, cmd, next, built, tested, runs>>

Verify ==
  /\ step = "verifying"
  /\ IF CannotLoad(built) THEN End("traceback")
     ELSE IF Count(EntrySource(built), "expanded-render") = 0 THEN End("error")
     ELSE step' = "staging" /\ UNCHANGED <<source, exit, staged>>
  /\ UNCHANGED <<disk, cmd, next, built, tested, runs>>

(* Faulty: the output serves as the staged copy.                           *)
StageOverOutput ==
  /\ step = "staging"
  /\ disk' = [disk EXCEPT ![cmd.out] = Whole(built, TRUE)]
  /\ staged' = TRUE /\ step' = IF cmd.smoke THEN "version" ELSE "publishing"
  /\ UNCHANGED <<cmd, source, next, built, exit, tested, runs>>

Stage ==
  /\ step = "staging"
  /\ staged' = TRUE /\ step' = IF cmd.smoke THEN "version" ELSE "publishing"
  /\ UNCHANGED <<disk, cmd, source, next, built, exit, tested, runs>>

(* --version, then --help, of the staged copy.  Bun falls back to its own  *)
(* command line when it cannot use the blob, and the copy may time out.    *)
Smoke ==
  /\ step \in {"version", "help"}
  /\ step' = IF step = "version" THEN "help" ELSE "publishing"
  /\ tested' = (step = "help")
  /\ UNCHANGED <<disk, cmd, source, next, built, staged, exit, runs>>

SmokeFails ==
  /\ step \in {"version", "help"}
  /\ End("error")
  /\ UNCHANGED <<disk, cmd, next, built, tested, runs>>

(* The write of the output is not atomic: opening it empties it, and its   *)
(* mode is set last.                                                       *)
Truncate ==
  /\ step = "publishing"
  /\ disk' = [disk EXCEPT ![cmd.out] = Partial(@.exec)]
  /\ step' = "writing"
  /\ UNCHANGED <<cmd, source, next, built, staged, exit, tested, runs>>

Write ==
  /\ step = "writing"
  /\ disk' = [disk EXCEPT ![cmd.out] = Whole(built, @.exec)]
  /\ step' = "chmod"
  /\ UNCHANGED <<cmd, source, next, built, staged, exit, tested, runs>>

Chmod ==
  /\ step = "chmod"
  /\ disk' = [disk EXCEPT ![cmd.out].exec = TRUE]
  /\ End("ok")
  /\ UNCHANGED <<cmd, next, built, tested, runs>>

(* A full disk, an output that is being executed, a lost permission.       *)
WriteFails ==
  /\ step \in {"staging", "publishing", "writing", "chmod"}
  /\ End("traceback")
  /\ UNCHANGED <<disk, cmd, next, built, tested, runs>>

Kill ==
  /\ step \notin {"idle", "ended"}
  /\ End("killed")
  /\ UNCHANGED <<disk, cmd, next, built, tested, runs>>

Again ==
  /\ step = "ended" /\ runs < MaxRuns
  /\ step' = "idle"
  /\ UNCHANGED <<disk, cmd, source, next, built, staged, exit, tested, runs>>

Next ==
  \/ \E v \in VersionTexts \cup {cmd.release}, zero, smoke \in BOOLEAN, out \in {"in", "out"} :
       Start(v, zero, smoke, out)
  \/ ApplyNext \/ Rebuild \/ SignFails \/ Verify \/ Stage \/ Smoke \/ SmokeFails
  \/ Truncate \/ Write \/ Chmod \/ WriteFails \/ Kill \/ Again

Spec == Init /\ [][Next]_vars

-----------------------------------------------------------------------------
(* The executable the later steps use, once it has been read back.         *)
Verified == step = "staging"

(* The source of a verified executable carries every admitted set whole    *)
(* and once, and nothing of any other set: no site is left to a required   *)
(* patch, each mark is there as often as its patch expects, and the        *)
(* runtime of the registered singletons opens every module of the graph.   *)
WholePatch ==
  Verified =>
    LET code == EntrySource(built)
        sets == ToSet(Sets)
        marks == UNION {MarksOf(s) : s \in sets}
        registers == \E s \in sets :
          s.boot = "always" \/ (s.boot = "split" /\ Split(code))
    IN /\ \A s \in sets : \A i \in DOMAIN s.patches :
            LET p == s.patches[i]
            IN /\ \A f \in Sites(p) \ (ToSet(p.to) \cup marks) : Count(code, f) = 0
               /\ \A m \in Marks(p) :
                    \/ Count(code, m) \in p.counts
                    \/ (~p.required /\ Count(code, m) = 0)
       /\ \A s \in EverySet : \A m \in MarksOf(s) \ marks : Count(code, m) = 0
       /\ \A f \in BootFragments : Count(code, f) = 0
       /\ Count(code, Prelude) =
            IF registers THEN Len(SourceModules(Graph(built))) ELSE 0

(* The modules of the rewritten executable, read back, are those that were *)
(* taken out, in the same order with the same names, maps and kinds, the   *)
(* rewritten source cut at the right places and every other module's       *)
(* source as it was; so are the entry, the arguments and the plain flags.  *)
SameModules(old, new) ==
  LET patched == SourceModules(old)
  IN /\ Len(new.modules) = Len(old.modules)
     /\ \A i \in DOMAIN old.modules :
          LET o == old.modules[i]  n == new.modules[i]
          IN /\ <<n.name, n.sourcemap, n.tail>> = <<o.name, o.sourcemap, o.tail>>
             /\ o \in ToSet(patched) \/ n.contents = o.contents
     /\ EntrySource(built) = Finalized(source)
     /\ <<new.entry, new.argv, new.structSize>> = <<old.entry, old.argv, old.structSize>>
     /\ new.flags \cap (0..3) = old.flags \cap (0..3)

(* No cache is older than what it was made of: bytecode and module info    *)
(* are those of the source beside them, and once any source of an extended *)
(* graph has changed, of its shared records only the runtime policy is     *)
(* left, announced by the flags that are left.                             *)
CachesFresh(old, new) ==
  LET policy == Kept(old.records, Policy(old))
  IN /\ \A i \in DOMAIN new.modules :
          LET m == new.modules[i]
          IN \A c \in {m.bytecode, m.info} : c = NoText \/ c.of = m.contents.of
     /\ (old.records # <<>> /\ new # old) =>
          /\ new.records = policy
          /\ new.flags \cap (4..12) \subseteq {10, 12}
          /\ (12 \in new.flags) = (policy # <<>>)

(* A verified executable carries the module graph it was made from, and    *)
(* what was compiled from its sources only where the source is unchanged.  *)
GraphCarried ==
  Verified => LET old == Graph(Data)  new == Graph(built)
              IN SameModules(old, new) /\ CachesFresh(old, new)

(* What the loader goes by is true of a verified executable: the strings   *)
(* of its blob do not overlap, each section of an ELF file lies where its  *)
(* header says, .bun where it always was and inside its segment, so that   *)
(* retained bytecode is 128-aligned in memory; a Mach-O section fits its   *)
(* segment and the signature covers the new blob.                          *)
LoaderFinds ==
  Verified =>
    LET image == ReadBlob(built)
        strings == image.strings
        End_(o) == o + strings[o].size
    IN /\ \A o, q \in DOMAIN strings : o < q => End_(o) < q
       /\ \A o \in DOMAIN strings : End_(o) < image.table.off
       /\ image.size = built.image.size
       /\ IF Elf(built)
            THEN LET bun == BunSection(built)
                 IN /\ \A i \in DOMAIN built.sections :
                         /\ built.sections[i].off \in DOMAIN built.bodies
                         /\ built.bodies[built.sections[i].off] = built.sections[i].name
                    /\ built.shoff = built.table
                    /\ <<bun.addr, bun.off>> = <<BunSection(Data).addr, BunSection(Data).off>>
                    /\ \E i \in DOMAIN built.loads :
                         LET l == built.loads[i]
                         IN /\ Maps(l, bun.addr)
                            /\ bun.addr + 8 + image.size <= l.vaddr + l.filesz
                            /\ bun.off - l.off = bun.addr - l.vaddr
                            /\ l.memsz - l.filesz = Data.loads[i].memsz - Data.loads[i].filesz
                    /\ \A o \in DOMAIN strings :
                         strings[o].is = "bytecode" => (bun.addr + 8 + o) % 128 = 0
            ELSE /\ built.header.bytes = Data.header.bytes
                 /\ built.section = built.header.bytes + image.size
                 /\ built.section <= built.segment
                 /\ built.signs = image

(* A run refuses only for a cause: an executable of a release the sets     *)
(* know, given its own version and not patched before, is rewritten, so    *)
(* the sets meet each other's replacements in an order that works.  What   *)
(* is not reported but leaves a traceback is a layout the parsers do not   *)
(* take, or another program's refusal.                                     *)
RefusedWithCause ==
  (step = "ended" /\ built = NoFile) =>
    /\ exit = "error" =>
         \/ ~cmd.sound \/ cmd.version # cmd.release
         \/ Count(EntrySource(Data), "expanded-render") > 0
    /\ exit = "traceback" =>
         \/ Unreadable \/ ~Elf(Data)
         \/ UnsupportedFlags(Graph(Data))

(* The output is replaced by an executable that was verified, and tested   *)
(* if that was asked for, or not at all: a run that reports an error left  *)
(* it as it was, a run that succeeded left all of it and executable.  Only *)
(* a run that dies while it writes leaves a part.                          *)
OutputKept ==
  step = "ended" =>
    LET there == disk[cmd.out]
    IN CASE exit = "ok"    -> there = Whole(built, TRUE)
         [] exit = "error" -> there = cmd.before
         [] OTHER -> \/ there = cmd.before
                     \/ /\ cmd.smoke => tested
                        /\ there \in {Partial(cmd.before.exec), Whole(built, cmd.before.exec)}
=============================================================================
