---------------------------- MODULE PatchEngine ----------------------------
(***************************************************************************)
(* The engine that rewrites the extracted source (patches.py): patches     *)
(* with the number of matches they expect, the identifiers they depend on, *)
(* the sets they form and the releases a set is for.                       *)
(*                                                                         *)
(* A source is a sequence of fragments: the sites that patterns match, the *)
(* marks replacements leave, and the boundary of each module of a graph.   *)
(* A text that one patch writes and a later one matches is a fragment of   *)
(* its own.  Patches of a set that meet nothing, or the same patch in the  *)
(* same way, are one patch here: the set fails as a whole whichever fails. *)
(* Versions are 2.1.N, written N; 0 is the empty tuple parse_version       *)
(* returns for a text that does not start with a number.                   *)
(***************************************************************************)
EXTENDS Integers, Sequences, FiniteSets, SequencesExt, Selections

NoVersion == -1
Unparsed == 0
AtLeast(v, n) == v # NoVersion /\ v >= n
Below(v, n) == v # NoVersion /\ v < n
NoMax == 1000

(* also: other texts that the pattern takes for the site.                  *)
Patch(at, to) ==
  [at |-> at, also |-> {}, to |-> to, counts |-> {1}, required |-> TRUE, needs |-> {}]
Sites(p) == {p.at} \cup p.also

PatchSet(name, patches, min) ==
  [name |-> name, patches |-> patches, min |-> min, max |-> NoMax, requires |-> FALSE,
   present |-> {}, absent |-> {}, boot |-> "never", key |-> "none", moves |-> {}]

AppliesTo(set, v) ==
  IF v = NoVersion THEN ~set.requires ELSE set.min <= v /\ v < set.max

-----------------------------------------------------------------------------
(* Boundaries of the modules of a graph, and what registers a singleton of *)
(* the module runtime.                                                     *)
Boundaries == {"@entry", "@chunk", "@vendor"}
Boots == [sdk |-> "boot-sdk", provider |-> "boot-provider", agents |-> "boot-agents"]
BootFragments == {Boots[k] : k \in DOMAIN Boots}
Prelude == "prelude"

Count(source, f) == Cardinality({i \in DOMAIN source : source[i] = f})
Matches(source, sites) == Cardinality({i \in DOMAIN source : source[i] \in sites})
Split(source) == \E i \in DOMAIN source : source[i] \in Boundaries

(* Faulty: only the first of the sites is replaced.                        *)
ReplaceFirst(source, sites, by) ==
  LET first == SelectInSeq(source, LAMBDA g : g \in sites)
  IN IF first = 0 THEN source
     ELSE SubSeq(source, 1, first - 1) \o by \o SubSeq(source, first + 1, Len(source))

(* The sites are replaced in one pass over the matches.                    *)
ReplaceFragment(source, sites, by) ==
  FlattenSeq([i \in DOMAIN source |-> IF source[i] \in sites THEN by ELSE <<source[i]>>])

Fails(patch, source) ==
  LET n == Matches(source, Sites(patch))
  IN \/ n \notin (patch.counts \cup (IF patch.required THEN {} ELSE {0}))
     \/ (n > 0 /\ \E id \in patch.needs : Count(source, id) # 1)

Outcome(ok, source) == [ok |-> ok, source |-> source]

ApplyPatch(patch, before) ==
  IF ~before.ok \/ Fails(patch, before.source) THEN Outcome(FALSE, <<>>)
  ELSE Outcome(TRUE, ReplaceFragment(before.source, Sites(patch), patch.to))

Dropping(source, fragments) ==
  Kept(source, {i \in DOMAIN source : source[i] \notin fragments})

(* A registration goes in front of the first module.                       *)
Register(source, set) ==
  IF set.boot = "always" \/ (set.boot = "split" /\ Split(source))
    THEN LET kept == Dropping(source, set.moves)
             at == IF Split(kept) THEN 2 ELSE 1
         IN InsertAt(kept, at, Boots[set.key])
    ELSE source

(* PatchSet.apply and what its subclasses do after it: the patches in      *)
(* turn, then the markers that must be there and those that must not.      *)
ApplySet(set, source) ==
  LET n == Len(set.patches)
      after[i \in 0..n] ==
        IF i = 0 THEN Outcome(TRUE, source) ELSE ApplyPatch(set.patches[i], after[i - 1])
      result == after[n]
  IN IF result.ok /\ (\A f \in set.present : Count(result.source, f) > 0)
                  /\ (\A f \in set.absent : Count(result.source, f) = 0)
       THEN Outcome(TRUE, Register(result.source, set))
       ELSE Outcome(FALSE, <<>>)

(* finalize_module_runtime: the registrations go, and one prelude that     *)
(* installs all of them opens each module.                                 *)
Finalized(source) ==
  LET native == Dropping(source, BootFragments)
      registered == \E i \in DOMAIN source : source[i] \in BootFragments
  IN IF ~registered THEN source
     ELSE IF Split(native)
       THEN FlattenSeq([i \in DOMAIN native |->
              IF native[i] \in Boundaries THEN <<native[i], Prelude>> ELSE <<native[i]>>])
       ELSE <<Prelude>> \o native

-----------------------------------------------------------------------------
(* The sets, in the order default_patch_sets applies them.                 *)
ThinkingExpanded(v) ==
  [PatchSet("thinking-expanded",
            <<Patch("thinking-guard", <<"thinking-always">>),
              Patch("thinking-render", <<"expanded-render">>)>>
              \o (IF v = NoVersion \/ v >= 151
                    THEN <<Patch("thinking-group", <<"thinking-alone">>)>> ELSE <<>>),
            0)
     EXCEPT !.present = {"expanded-render"}, !.absent = {"thinking-guard"}]

(* Since 2.1.301 a second read of the flag is there.                       *)
ChannelsEnabled ==
  [PatchSet("channels-enabled",
            <<Patch("channels-gate", <<"channels-on">>),
              [Patch("harbor-flag", <<"harbor-on">>) EXCEPT !.counts = {1, 2}]>>, 151)
     EXCEPT !.absent = {"channels-gate", "harbor-flag"}]

DevChannelInheritance ==
  [PatchSet("dev-channel-inheritance",
            <<Patch("respawn-flags", <<"respawn-dev-flags">>),
              Patch("dispatch-array", <<"dispatch-dev-array">>),
              Patch("worker-parse", <<"worker-dev-parse">>)>>, 151)
     EXCEPT !.present = {"respawn-dev-flags", "dispatch-dev-array", "worker-dev-parse"},
            !.absent = {"dev-channel-env"}]

NativeAgents ==
  [PatchSet("agents-view-handoff",
            <<[Patch("native-launch", <<"native-launch">>) EXCEPT !.needs = {"native-forward"}]>>,
            288)
     EXCEPT !.requires = TRUE]

(* The launch names the helper that the config patch defines, in place or  *)
(* as a singleton of the runtime.  Rewritten, it is one of the texts that  *)
(* the provider environment's fallback matches.                            *)
PatchedAgents(v) ==
  [PatchSet("agents-view-handoff",
            <<[Patch("channels-serialized", <<>>)
                 EXCEPT !.required = (v = NoVersion \/ v >= 187)],
              Patch("agents-launch", <<"dispatch-args", "dispatch-launch">>),
              [Patch("agents-config", <<"agents-config", "agents-helper">>)
                 EXCEPT !.needs = {"agents-parser", "agents-serializer"}]>>
              \o (IF Below(v, 195) THEN <<Patch("legacy-mount", <<"legacy-options">>)>>
                  ELSE <<>>),
            182)
     EXCEPT !.requires = TRUE, !.present = {"dispatch-args"}, !.boot = "split",
            !.key = "agents", !.moves = {"agents-helper"}]

AgentsViewHandoff(v) == IF AtLeast(v, 288) THEN NativeAgents ELSE PatchedAgents(v)

-----------------------------------------------------------------------------
(* The provider environment: one set up to 2.1.197, with the respawn guard *)
(* overridden since 2.1.198, the agents fallback added from 2.1.195 and    *)
(* the restores given up from 2.1.207, where the settings boundary is      *)
(* native.  Its patches meet each other: the request that is sent calls    *)
(* the snapshot as it was rewritten, the worker's class is matched again   *)
(* by the field it was given, the worker's environment by the payload it   *)
(* was given; and what the control check and the lifecycle write looks     *)
(* like the respawn guard, which goes before they are there.               *)
RespawnGuard == [Patch("respawn-guard", <<"respawn-unguarded">>)
                   EXCEPT !.also = {"control-checked", "provider-lifecycle"}]
HostGuard == Patch("host-provider", <<"live-host-required">>)
Restores == <<Patch("settings-restores", <<"settings-restored">>)>>

Dispatching(guard) ==
  <<[Patch("provider-snapshot", <<"patched-snapshot", "provider-capture">>)
       EXCEPT !.needs = {"provider-groups"}],
    Patch("persisted-env", <<"state-without-env">>),
    guard,
    [Patch("provider-socket", <<"socket-provider-env">>)
       EXCEPT !.counts = {2}, !.needs = {"patched-snapshot"}],
    [Patch("provider-ack", <<"versioned-ack">>) EXCEPT !.counts = {2}],
    Patch("provider-control", <<"control-checked">>)>>
Working ==
  <<Patch("worker-class", <<"provider-field", "class-with-field">>),
    Patch("worker-env", <<"worker-scrubbed", "worker-tail">>),
    Patch("worker-tail", <<"worker-restored">>),
    Patch("claimed-entry", <<"claimed-provider", "claimed-apply-final">>)>>
Lifecycle == <<Patch("class-with-field", <<"provider-lifecycle">>)>>

Background(guard, restores, more, min, max) ==
  [PatchSet("background-provider-environment",
            Dispatching(guard) \o Working \o restores \o Lifecycle \o more, min)
     EXCEPT !.max = max, !.requires = TRUE,
            !.present = {"patched-snapshot", "provider-capture", "state-without-env",
                         "socket-provider-env", "versioned-ack", "control-checked",
                         "provider-lifecycle"},
            !.absent = {"persisted-env"}]

(* _override_patches: the replacement takes the place of its namesake.     *)
BackgroundBase(v, restores, more) ==
  IF AtLeast(v, 198)
    THEN [Background(HostGuard, restores, more, 198, NoMax)
            EXCEPT !.absent = @ \cup {"host-provider"}]
  ELSE Background(RespawnGuard, restores, more, 174, 198)

(* Faulty: the rewritten launch is not among the texts.                    *)
FallbackOfUntouched ==
  [Patch("agents-launch", <<"agents-provider-env">>)
     EXCEPT !.also = {"native-launch"}, !.needs = {"patched-snapshot"}]

(* The launch as the agents view left it, or as no set touched it.         *)
AgentsFallback ==
  [Patch("dispatch-launch", <<"agents-provider-env">>)
     EXCEPT !.also = {"agents-launch", "native-launch"}, !.needs = {"patched-snapshot"}]

AgentsAuthority ==
  <<Patch("provider-capture", <<"provider-capture", "agents-capture">>),
    [Patch("agents-settings", <<"agents-restored">>) EXCEPT !.counts = {2}],
    AgentsFallback>>
NativePolicy ==
  <<[Patch("native-settings", <<"settings-initialize">>) EXCEPT !.counts = {2}],
    Patch("settings-filter", <<"provider-filter">>),
    Patch("provider-capture", <<"provider-capture", "policy-boundary">>),
    Patch("claimed-apply-final", <<"claim-reset">>),
    AgentsFallback>>

BackgroundProviderEnvironment(v) ==
  IF AtLeast(v, 207)
    THEN [BackgroundBase(v, <<>>, NativePolicy) EXCEPT !.boot = "always",
            !.key = "provider", !.moves = {"provider-capture", "policy-boundary"}]
  ELSE BackgroundBase(v, Restores, IF Below(v, 195) THEN <<>> ELSE AgentsAuthority)

-----------------------------------------------------------------------------
MultiProviderSDK ==
  [PatchSet("multi-provider-sdk",
            <<Patch("model-costs", <<"provider-costs">>),
              Patch("sdk-tail", <<"sdk-captured", "sdk-helper">>),
              Patch("requests", <<"requests-routed">>),
              [Patch("agent-model", <<"agent-catalogue">>) EXCEPT !.needs = {"agent-names"}],
              Patch("account-storage", <<"accounts-installed">>),
              Patch("message-threads", <<"threads-native-only">>)>>, 174)
     EXCEPT !.requires = TRUE, !.present = {"sdk-captured", "agent-catalogue"},
            !.boot = "split", !.key = "sdk", !.moves = {"sdk-helper"}]

CatppuccinSyntax ==
  [PatchSet("catppuccin-syntax-scopes", <<Patch("syntax-map", <<"syntax-macchiato">>)>>, 151)
     EXCEPT !.present = {"syntax-macchiato"}]

Summaries ==
  [PatchSet("thinking-summaries-noninteractive",
            <<Patch("summary-gate", <<"summary-ungated">>)>>, 151)
     EXCEPT !.present = {"summary-ungated"}, !.absent = {"summary-gate"}]
Summaries198 ==
  [PatchSet("thinking-summaries-noninteractive",
            <<Patch("display-helper", <<"setting-first">>),
              [Patch("subagent-filter", <<"subagent-kept">>) EXCEPT !.needs = {"show-summaries"}]>>,
            198)
     EXCEPT !.requires = TRUE, !.present = {"setting-first"}]

CompactSession ==
  [PatchSet("compact-session-tool",
            <<Patch("todo-tool", <<"compact-tool">>), Patch("tool-registry", <<"compact-listed">>),
              Patch("compact-guard", <<"compact-flag">>)>>, 170)
     EXCEPT !.present = {"compact-tool", "compact-listed", "compact-flag"},
            !.absent = {"todo-tool", "tool-registry"}]

(* The preview's renderer is found at the site thinking-expanded rewrote.  *)
StreamingThinking ==
  [PatchSet("streaming-thinking",
            <<Patch("stream-events", <<"thinking-accumulated">>),
              [Patch("stream-view", <<"thinking-preview">>)
                 EXCEPT !.needs = {"expanded-render", "is-loading", "deferred"}],
              [Patch("turn-reset", <<"preview-reset">>) EXCEPT !.counts = {2}],
              Patch("stream-provider", <<"preview-mounted">>)>>, 280)
     EXCEPT !.present = {"thinking-preview"}]

ModelSessionOnly ==
  [PatchSet("model-session-only",
            <<Patch("model-save", <<"model-not-saved">>),
              Patch("picker-default", <<"picker-session">>)>>, 280)
     EXCEPT !.requires = TRUE, !.present = {"picker-session"}]

RetractionArchive ==
  [PatchSet("retraction-archive", <<Patch("message-removal", <<"removal-archived">>)>>, 274)
     EXCEPT !.requires = TRUE]

AutoModeLocalFallback ==
  [PatchSet("auto-mode-local-fallback", <<Patch("arbiter", <<"arbiter-fallback">>)>>, 274)
     EXCEPT !.requires = TRUE, !.present = {"arbiter-fallback"}]

LowMemoryThreshold ==
  [PatchSet("background-low-memory-threshold", <<Patch("low-memory", <<"low-memory-env">>)>>, 274)
     EXCEPT !.requires = TRUE, !.present = {"low-memory-env"}, !.absent = {"low-memory"}]

SelectPatchVariant(v, base, variant) ==
  IF v # NoVersion /\ AppliesTo(variant, v) THEN variant ELSE base

ForVersion(sets, v) == Kept(sets, {i \in DOMAIN sets : AppliesTo(sets[i], v)})

DefaultPatchSets(v) ==
  <<ThinkingExpanded(v), ChannelsEnabled, DevChannelInheritance, AgentsViewHandoff(v),
    BackgroundProviderEnvironment(v), MultiProviderSDK, CatppuccinSyntax,
    SelectPatchVariant(v, Summaries, Summaries198), CompactSession>>
    \o ForVersion(<<StreamingThinking, ModelSessionOnly, RetractionArchive,
                    AutoModeLocalFallback, LowMemoryThreshold>>, v)

(* The sets the run goes through, in order.                                *)
Admitted(v) == ForVersion(DefaultPatchSets(v), v)

-----------------------------------------------------------------------------
(* What the patches leave: all that a replacement has besides its site,    *)
(* the first fragment of it as its mark; and what the runtime leaves.      *)
Written(p) == ToSet(p.to) \ {p.at}
Marks(p) == IF p.to = <<>> \/ Head(p.to) = p.at THEN {} ELSE {Head(p.to)}
MarksOf(set) == UNION {Marks(set.patches[i]) : i \in DOMAIN set.patches}
WrittenBy(set) == UNION {Written(set.patches[i]) : i \in DOMAIN set.patches}
EverySet == UNION {ToSet(DefaultPatchSets(v)) : v \in NoVersion..NoMax - 1}
Left == (UNION {WrittenBy(s) : s \in EverySet}) \cup BootFragments \cup {Prelude}
=============================================================================
