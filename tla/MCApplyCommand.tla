-------------------------- MODULE MCApplyCommand ---------------------------
(***************************************************************************)
(* Releases whose windows differ, as single CommonJS bundles of the old    *)
(* and the new table and as split graphs with and without shared records,  *)
(* in both kinds of executable; and the executables that must be refused.  *)
(***************************************************************************)
EXTENDS ApplyCommand

If(cond, fragments) == IF cond THEN fragments ELSE <<>>

(* What the code of release n has for the patterns to match.               *)
Upstream(n) ==
  <<"thinking-guard", "thinking-render">>
    \o If(n >= 151, <<"thinking-group", "channels-gate", "harbor-flag", "respawn-flags",
                      "dispatch-array", "worker-parse", "syntax-map">>)
    \o If(n >= 301, <<"harbor-flag">>)
    \o If(n >= 151 /\ n < 198, <<"summary-gate">>)
    \o If(n >= 198, <<"display-helper", "subagent-filter", "show-summaries">>)
    \o If(n >= 170, <<"todo-tool", "tool-registry", "compact-guard">>)
    \o If(n >= 174, <<"provider-snapshot", "provider-groups", "persisted-env",
                      "provider-socket", "provider-ack", "provider-socket", "provider-ack",
                      "provider-control", "worker-class", "worker-env", "claimed-entry",
                      "model-costs", "sdk-tail", "requests", "agent-model", "agent-names",
                      "account-storage", "message-threads">>)
    \o If(n >= 174 /\ n < 198, <<"respawn-guard">>)
    \o If(n >= 198, <<"host-provider">>)
    \o If(n >= 174 /\ n < 207, <<"settings-restores">>)
    \o If(n >= 182 /\ n < 288, <<"agents-launch", "agents-config", "agents-parser",
                                 "agents-serializer">>)
    \o If(n >= 187 /\ n < 288, <<"channels-serialized">>)
    \o If(n >= 182 /\ n < 195, <<"legacy-mount">>)
    \o If(n >= 195 /\ n < 207, <<"agents-settings", "agents-settings">>)
    \o If(n >= 207, <<"native-settings", "native-settings", "settings-filter">>)
    \o If(n >= 274, <<"message-removal", "arbiter", "low-memory">>)
    \o If(n >= 280, <<"stream-events", "stream-view", "is-loading", "deferred", "turn-reset",
                      "turn-reset", "stream-provider", "model-save", "picker-default">>)
    \o If(n >= 288, <<"native-launch", "native-forward">>)

(* A site of the release gone, and one there twice.                        *)
Without(fragments, f) == SelectSeq(fragments, LAMBDA g : g # f)

Named(n, size) == [is |-> n, of |-> <<>>, size |-> size]
Cached(kind, fragments, size) == [is |-> kind, of |-> fragments, size |-> size]
Script == [loader |-> 1, format |-> 0, side |-> 0]
Esm == [loader |-> 1, format |-> 1, side |-> 0]
Asset == [loader |-> 5, format |-> 0, side |-> 0]

Mod(n, size, fragments, tail, new) ==
  [name |-> Named(n, size), contents |-> Contents(fragments), sourcemap |-> Named("map", 6),
   bytecode |-> Cached("bytecode", fragments, 31 + TextSize(fragments)),
   info |-> IF new THEN Cached("info", fragments, 10) ELSE NoText,
   origin |-> IF new THEN Named("origin", 5) ELSE NoText, tail |-> tail]
Data_(n, size) ==
  [name |-> Named(n, size), contents |-> Contents(<<"binary">>), sourcemap |-> NoText,
   bytecode |-> NoText, info |-> NoText, origin |-> NoText, tail |-> Asset]

(* The chunk has every third fragment; the vendor module has no site.      *)
Third(fragments) == SelectSeq([i \in DOMAIN fragments |->
                      IF i % 3 = 0 THEN fragments[i] ELSE "none"], LAMBDA f : f # "none")
TwoThirds(fragments) == SelectSeq([i \in DOMAIN fragments |->
                      IF i % 3 # 0 THEN fragments[i] ELSE "none"], LAMBDA f : f # "none")

GraphOf(modules, entry, flags, records, size) ==
  [entry |-> entry, flags |-> flags, argv |-> Named("argv", 12), structSize |-> size,
   modules |-> modules, records |-> records]

OldBundle(fragments) ==
  GraphOf(<<Data_("asset", 7), Mod("cli", 21, fragments, Script, FALSE)>>, 2, {0}, <<>>, 36)
NewBundle(fragments) ==
  GraphOf(<<Mod("cli", 21, fragments, Script, TRUE), Data_("asset", 7)>>, 1, {0, 3}, <<>>, 52)
(* Nine entries of the new table are as long as thirteen of the old.       *)
NineModules(fragments) ==
  GraphOf(<<Mod("cli", 21, fragments, Script, TRUE)>> \o [i \in 1..8 |-> Data_("asset", 5 + i)],
          1, {0}, <<>>, 52)
SplitModules(fragments) ==
  <<Mod("@entry", 19, TwoThirds(fragments), Esm, TRUE), Data_("asset", 7),
    Mod("@chunk", 23, Third(fragments), Esm, TRUE),
    Mod("@vendor", 22, <<"library">>, Esm, TRUE)>>
PlainSplit(fragments) == GraphOf(SplitModules(fragments), 1, {0, 10}, <<>>, 52)

Word(kind, n) == [kind |-> kind, n |-> n]
(* A hash for each module, a table of one entry, the prelinked metadata    *)
(* and a list of two, and the runtime policy.                              *)
Records ==
  <<Word("hash", 0), Word("hash", 0), Word("hash", 0), Word("hash", 0),
    Word("count", 1), Word("entry", 0), Word("entry", 0), Word("entry", 0),
    Word("link", 0), Word("link", 0), Word("link", 0), Word("link", 0), Word("link", 0),
    Word("list", 0), Word("list", 0), Word("count", 2), Word("item", 0), Word("item", 0),
    Word("policy", 1), Word("policy", 2)>>
ExtendedSplit(fragments, flags) ==
  GraphOf(SplitModules(fragments), 1, {0, 5, 6, 7, 8, 9, 10, 11, 12} \cup flags, Records, 52)

(* Bun's own layout differs from the canonical one.                        *)
Image(graph) == Layout(graph, 136)

Section(n, alloc, addr, off, size) ==
  [name |-> n, alloc |-> alloc, addr |-> addr, off |-> off, size |-> size]
ElfFile(graph) ==
  LET image == Image(graph)
      size == 8 + image.size
      end == 8192 + size
  IN [magic |-> "elf64",
      sections |-> <<Section(".text", TRUE, 4096, 4096, 900),
                     Section(".bun", TRUE, 65536, 8192, size),
                     Section(".comment", FALSE, 0, end, 40),
                     Section(".shstrtab", FALSE, 0, end + 40, 30)>>,
      loads |-> <<[vaddr |-> 4096, off |-> 4096, filesz |-> 900, memsz |-> 900],
                  [vaddr |-> 65536, off |-> 8192, filesz |-> size, memsz |-> size]>>,
      shoff |-> end + 72, table |-> end + 72,
      bodies |-> (4096 :> ".text") @@ (8192 :> ".bun") @@ (end :> ".comment")
                   @@ ((end + 40) :> ".shstrtab"),
      header |-> [bytes |-> 8, len |-> image.size], image |-> image]

MachoFile(graph, arm64, bytes, slack) ==
  LET image == Image(graph)
  IN [magic |-> "macho", hasBun |-> TRUE, arm64 |-> arm64,
      section |-> bytes + image.size + slack, segment |-> RoundUp(bytes + image.size + slack, 4096),
      header |-> [bytes |-> bytes, len |-> image.size], signs |-> image, image |-> image]

(* Executables that cannot be taken apart.                                 *)
LaterSection(file) ==
  [file EXCEPT !.sections = Append(@, Section(".late", TRUE, 90000, 8192 + 9000, 8))]
NoSection(file) == [file EXCEPT !.sections = <<@[1], @[3], @[4]>>]
LowerLoad(file) ==
  [file EXCEPT !.loads = Append(@, [vaddr |-> 99999, off |-> 1, filesz |-> 1, memsz |-> 1])]
Fat(file) == [file EXCEPT !.magic = "fat"]
Unknown(file) == [file EXCEPT !.magic = "zip"]

Binary(version, sound, file) == [version |-> version, sound |-> sound, file |-> file]

Sound ==
  {Binary(150, TRUE, ElfFile(OldBundle(Upstream(150)))),
   Binary(170, TRUE, MachoFile(OldBundle(Upstream(170)), FALSE, 4, 0)),
   Binary(174, TRUE, MachoFile(OldBundle(Upstream(174)), FALSE, 4, 600))}
  \cup {Binary(n, TRUE, ElfFile(NewBundle(Upstream(n)))) : n \in {186, 190, 196, 198, 207}}
  \cup {Binary(207, TRUE, ElfFile(NineModules(Upstream(207)))),
        Binary(274, TRUE, MachoFile(NewBundle(Upstream(274)), TRUE, 8, 0)),
        Binary(280, TRUE, ElfFile(PlainSplit(Upstream(280)))),
        Binary(288, TRUE, ElfFile(ExtendedSplit(Upstream(288), {}))),
        Binary(301, TRUE, MachoFile(ExtendedSplit(Upstream(301), {}), TRUE, 8, 70))}

Broken ==
  LET good == ElfFile(NewBundle(Upstream(207)))
  IN {Binary(207, FALSE, Broke) : Broke \in {LaterSection(good), NoSection(good),
                                             LowerLoad(good), Unknown(good),
                                             Fat(MachoFile(NewBundle(Upstream(207)), TRUE, 8, 0))}}
     \cup {Binary(280, FALSE, ElfFile(PlainSplit(Without(Upstream(280), f)))) :
             f \in {"thinking-guard", "deferred", "agents-parser", "low-memory"}}
     \cup {Binary(207, FALSE, ElfFile(NewBundle(Upstream(207) \o <<f>>))) :
             f \in {"agent-names", "harbor-flag", "tool-registry"}}
     \cup {Binary(288, FALSE, ElfFile(ExtendedSplit(Upstream(288), {13}))),
           Binary(288, FALSE, ElfFile([NewBundle(Upstream(288)) EXCEPT !.entry = 3]))}

Shipped == Sound \cup Broken

(* A text that does not start with a number, and no --version at all.      *)
Texts == {Unparsed, NoVersion}
=============================================================================
