# Formal models of ccpatch and cc-openai-proxy

The repository holds two programs. **cc-openai-proxy** (`src/proxy`, JavaScript)
answers Claude Code's Messages API from OpenAI Codex accounts. **ccpatch**
(`src/src/ccpatch`, Python with injected JavaScript) rewrites the Claude Code
executable. This directory models the parts whose correctness depends on order,
time, failure or concurrency, checks them with TLC and proves the central
properties with TLAPS. Paths below are relative to the repository as `PROJECT.json`
names it (`src/...`).

## 1. Inventory

| Component | State it keeps | Operations | Hard behaviour | Correct when |
|---|---|---|---|---|
| Codex account pool (`proxy/bin/codex-accounts.js`) | per account: limits, cooldowns, usage snapshot, a refresh promise; sticky session bindings | `select`, `refreshUsage`, `observeHeaders`, `markLimited`, `markTransient`, `exhaustedState` | every operation is spread over awaits and shares the tables with all requests; cooldowns and resets expire meanwhile | no account is offered while blocked, nobody is refused while one is usable, sessions stay put, waits end |
| Message routing (`cc-openai-proxy.js`, `handleMessages`) | accounts tried by the request | retry on another account, answer, translate the upstream's errors | failures between two attempts; client gone; first event decides | each account at most once, exactly one answer |
| Stream translation (`cc-openai-proxy.js`) | open blocks, tool calls seen, what has been written | one handler per upstream event, end of stream | blocks that never end, errors after the 200, clients that leave | one well-formed Messages stream, and the client is told how it ended |
| Request conversion, tool ids (`anthropicToContext`, `pairToolResults`, `encodeToolId`) | none beyond the call: names, batches, pending ids | two passes over the transcript; encode, decode, migrate an id | interrupted turns, late and repeated results, ids of several vintages | each result right behind its call under the provider's id, nothing lost |
| Credential store (`cc-openai-proxy.js`) | `auth.json`, a write chain | read, refresh, write back | the pi CLI writes the same file | no lost login |
| Managed bearer (`proxy-auth.js`) | one file | read or create | concurrent creators, kills, loss of power | all processes use one token |
| Launcher, service (`nix/*.nix`) | the running proxy | start, wait, probe, restart | several launchers at once | a session starts with a proxy that accepts its token |
| Transcript migration (`transcripts.py`) | a transcript file | check, back up, replace | a session appends meanwhile | no row lost |
| Retraction archive (`retraction_*.js`, `retractions.py`) | archived rows in memory, timeline; rows in the transcript | capture, guard the writer, replace a row in three attempts, restore | appends past the queue, waiting entries, restarts | no row lost, no message back, order kept |
| Background provider handoff (`patches.py`) | the provider retained by dispatch, worker object and worker; nonce, timer | dispatch, claim or spawn, apply, replace, adopt, ask, answer, time out | stale daemons, prewarmed processes, disconnects, late answers | a worker works with its client's provider or not at all |
| Multi-provider helper (`patches.py`, `anthropic_accounts.js`) | one cached client per provider, cached tool descriptions, the recorded models of a conversation | read a model name, describe tools, route, retry, count, resume | clients and descriptions cached while environment, settings and native client change; six functions that read the same names | a request goes where its name says with what is in force, and says one thing about itself |
| Agents handoff (`agents_handoff.py`) | none | rewrite the launch of the agents view | releases differ | part of the patch engine |
| Module runtime (`module_runtime.py`) | the module graph of the bundle, registrations | find or make a name for a binding, register, finalize | re-exports, cycles, one patch editing what the next one searches, any order of evaluation | names denote what was asked, no new dependency, the runtime comes first |
| Patch engine (`patches.py`) | the bundle's source | some twenty sets with version gates, in a fixed order | sets match what other sets wrote; each release has its own shape | whole sets or none |
| Containers (`bunfmt.py`, `elf.py`, `macho.py`) | the executable's layout | parse, resize, relocate | alignment, lengths in several places, two table formats | the loader finds everything |
| Apply command (`cli.py`) | input, output, staged copy | the pipeline from read to publish | stale caches, a failed test, a kill while writing | the output is a verified executable or untouched |

Components interact as follows: the launcher asks the bearer helper for the token,
starts and probes the proxy with it; `handleMessages` asks the pool for an account
and its credentials (credential store), sends the converted request, feeds response
headers and errors back to the pool, and hands the event stream to the translation;
patched Claude Code talks to the proxy, archives retractions into its transcripts,
which the migration rewrites offline.

## 2. Plan

Most important behaviour first. Done:

1. `AccountPool` + `RequestRouting` (abstract), `AccountPoolProofs`.
2. `ProxyToken` + `TokenStore` (abstract), `FileProofs`.
3. `ToolIds`, `ToolTurns`, `RequestProofs`; `MessageStream`, `MessageStreamProofs`.
4. `RetractionArchive`, `RuntimeProofs`; `ProviderHandoff`, `ProviderHandoffProofs`.
5. `ModelCatalog`, `ModelRouting`, `RequestProofs`.
6. `TranscriptMigration` (composes `ToolIds`), `TranscriptProofs`.
7. `ModuleRuntime`, `RuntimeProofs`; `Selections`, which it shares with `RetractionArchive`.
8. `BunBlob`, `Containers`, `PatchEngine` and `ApplyCommand`, which composes them;
   `PatchProofs`, what the engine makes of a source; `FileProofs`, which extends it, with the
   round trip of the blob and what the run does with it.

Left, in order of what it would add:

9. The order of restored rows between neighbours that may be archived themselves
    (`retraction_runtime.js:84`), as a pure function over bounded timelines.
10. Job files and the agents view's fallback in `ProviderHandoff`.
11. Lemmas on sequences and ranks that `RuntimeProofs` and `PatchProofs` both prove, in one place.

One run per component is the rule; the pool has five because its questions need
different inputs.

## 3. AccountPool

One JavaScript event loop runs all requests; a request is a coroutine. An action is
the code between two `await`s, `pc[r]` says where request `r` is suspended:

| `pc` | suspended at | next action |
|---|---|---|
| `idle` | not running | `Arrive` |
| `scan` | about to enter `select` | `Scan` |
| `usage` / `weigh` | `await refreshUsage(account)`, pending / settled | refresh / `Weigh` |
| `auth` | `await resolveAuth(account)` | `AuthResolved`, `AuthFailed` |
| `stream` | the upstream call up to its first event | `ObserveHeaders`, `Stream*` |
| `limiting` / `limited` | `markLimited`'s forced refresh, pending / settled | refresh / `MarkLimited` |
| `exhausted` | `AccountsExhaustedError` thrown | `AnswerExhausted` |

Settled continuations (`Ready`) are microtasks: they run before any I/O callback, which
the guard `Quiet` expresses. `ScanFrom` is the `for` loop of `select` from an account to
the first one that has no snapshot (and must be awaited) or to the end; refreshes of
stale snapshots are started in passing. `refreshing` is the set of accounts with an
`account.refresh` promise. The weighted random draw is any account of positive weight.
`down[r]` and `up[r]` are history: the accounts request `r` could have seen blocked or
usable since its present selection began. `Blocked` is written from the state and not
from `candidateWeight`, so that the properties do not restate the code.

Abstractions: time is in whole units, capacity is positive, a window is its use and its
reset. `StreamFails` stands for every answer that is neither served nor retried; a client
that leaves does so while streaming only. Usage reports, headers and error bodies are
arbitrary members of small sets (arbitrary sets in the proofs).

`RequestRouting` is what a client may rely on: one attempt per account, a refusal only
with every account tried or blocked, one answer. `ImplementsRouting` maps `pc` to four
phases, `tried` to the attempts, `down` to the blocked accounts.

### Runs

There are two accounts unless said otherwise, and each client calls as often as `MaxCalls`
says. The clock stops at `MaxTime`; deadlock is not checked because the server is idle once
its clients stop calling.

| Run | Question | Bounds |
|---|---|---|
| `pool_usage` | does interleaving of usage reports, limits, broken credentials and two clients' requests ever refuse or misroute a request, or break what a client may rely on? What can move their session off an account that is available? | one session of two clients, a used-up report that ends at 1, error resets, account 1 may have no credentials, clock to 1: the report, a cooldown, its freshness and the binding expire within a request. An account with room is one that no report has come for, its refresh failed or empty, or whose report has ended |
| `pool_answered` | is every request answered? | two clients with a session each and room for one binding, a used-up report, headers with one window nearly and one fully used, the clock stands |
| `pool_limit_shortened` | is a limit in force never cut short? *(it is)* | one account |

Two accounts and two requests are enough for each hazard: one account to be read early
and one late, one request to wait and one to change the table under it. The proofs lift
the bounds for the properties they cover.

Fairness (`FairSpec`): ready continuations are weakly fair, since the microtask queue is
drained before the loop polls. Completions of I/O are strongly fair: the guard `Quiet`
may disable one again and again, and the loop delivers each in the end; that an answer or
an error arrives at all is the 10 s timeout of the usage call, and an assumption about
the token endpoint and the upstream. Nothing is assumed about which outcome arrives,
nor that time advances.

### Divergences

Where the code and its own documents disagree:

* `pool_limit_shortened` (the violation run, `findings` in `PROJECT.json`): `markLimited`
  assigns where `mergeSnapshot` takes the maximum, so a known reset gives way to the shorter
  fallback.
* The sticky binding is read and written on two sides of an await
  (`codex-accounts.js:488-504`), so two overlapping first requests of one session are bound
  to two accounts one after the other, where `src/README.md:156-157` has a session stay on
  the one it first used "while that account is available". `SessionMovesForCause` is what the
  code keeps of that sentence: a live binding moves only by a request that found its account
  blocked, has failed on it (`LeavesForCause`), or awaited credentials together with another
  request of the session (`LeavesAcross`, by the history variable `crossed`). Every other
  overlap - in the scan, in usage refreshes, in the stream, in `markLimited` - leaves the
  session where it is. Without the `LeavesAcross` disjunct the property is the README's
  sentence, and TLC violates it in the instance of `pool_usage`: both requests await
  credentials, and the second to resume binds the session to another available account.
* The exhausted reply prefers any account's reset over another's sooner cooldown
  (`cc-openai-proxy.js:1306`), which the comment at `codex-accounts.js:567-568` rules out ("a
  transient limit is reported separately so the client retries instead of waiting"). It
  follows from the model's actions and has no run.

### Proofs (`AccountPoolProofs`)

For any number of accounts, requests and sessions and any cooldowns (the credential
cooldown must be positive, as in the code):

* `TypeCorrect`: `Spec => []TypeOK`.
* `NoFalseExhaustionHolds`, `OfferedWasUsableHolds`, `NoRepeatedAttemptHolds`,
  `NoLostWakeupHolds`: the four safety properties of a selection.
* `RoutingImplemented`: every step is one of `RequestRouting` or a stutter.
* `SessionMovesForCauseHolds`: `Spec => SessionMovesForCause`. Beside `SelectionInv` it needs
  that a binding which is still live is the one that a request awaiting credentials has
  read (`PreferredInv`), for the requests outside `crossed`.

None of the four is inductive: they speak of the end of a selection, and what makes them
true is what a half-finished scan has established. `SelectionInv` says it: the accounts
before the cursor are candidates, tried or seen blocked (`Covered`); candidates are
untried and were seen usable (`Offerable`); the history covers the present (`Observed`);
an awaited refresh is under way (`Awaited`). The argument per step: other requests leave a
request's locals alone and only add refreshes (`SelectionKept`, `RequestStepOthers`); a
scan accounts for every account it passes (`ScanFromSelects`, with `WeighsUnlessBlocked`:
a weight is positive exactly when nothing blocks the account); a settled refresh wakes
exactly its waiters (`RefreshStepSelects`).

`TypeOK`, `NoRepeatedAttempt` and `NoLostWakeup` are proved and not checked by a run again.
Only model-checked: the liveness property `Answered` (liveness is outside the prover's reach).

## 4. ProxyToken

Runs of `loadOrCreateProxyToken`, by the proxy and by the launchers' helper, one action per
system call. A token is named by the run that drew it. `file`, `entry` are what processes
see, `flushed`, `committed` what is on the disk. Any call may fail (`Fail`, with the finally
block's `unlink`), any process may be killed (`Kill`); a loss of power ends all runs that
have begun and keeps unsynced contents and names or not. A restart is another run.
Assumed of the file system: a synced directory keeps its names (the directory itself, made
by `mkdir`, is taken to be reachable), `link` is atomic and refuses an existing name. Nobody
edits or deletes the file. The external, read-only mode changes no state.

`proxy_token` checks, with three runs and one loss of power (a winner, a loser and a
late-comer after the loss): `PublishedComplete`, `CreatedSurvives`, and that the file
implements `TokenStore`, a store that is set once. These three and `Agreement` are proved for any
number of runs and of losses (`FileProofs`, of `TokenSpec`), from the invariant `Inv`: a run's file has no public name
before its `link`, has its contents before the sync and is flushed before it; a public name
is complete on the disk; the disk names the same file or none.

A run that lost the race returns the winner's token before the winner has synced the
directory; after a loss of power that token may be gone. This is harmless because a loss
of power ends the run, and `CreatedSurvives` claims nothing of it.

## 5. ToolIds and ToolTurns

`ToolIds` has the encoding of tool ids (`encodeToolId`, `decodeToolId`) and the one the
transcript migration applies (`encode_legacy_id`). A string is written in a normal form:
what it is inside its envelopes, and their number, where an envelope is the reserved prefix
before a canonical base64url payload. `Stored(x)` is every form a transcript may hold of the
id `x` of the provider: encoded by this proxy, bare from an earlier one, migrated or not.

`ToolTurns` is `anthropicToContext`. The first pass draws the transcript message by message
(`ReadAssistant`, `UserText`, `UserResult`, `EndUser`), so that the initial state is one and
every transcript is reached; the second is `pairToolResults`, one action per kind of message
(`PairAssistant`, `PairResult`, `SetAside`, `PairUser`) and `Finish`. A converted message
carries the places its content has in the transcript instead of the content. Dropped blocks,
wording and timestamps are left out.

`tool_turns` checks all transcripts of four items over five ids in all their stored forms:
four is a call, another turn's call, a result and something between, and the ids have every
relation two ids can have (equal once decoded, alike only when bare, an envelope of the
other). `ResultsFollowCalls` is stated on the upstream context alone, `MatchedAsIssued` on
the provider's ids alone, neither mentions the encoding.

Proved for any ids, names, contents and lengths (`RequestProofs`, of `TurnsSpec`): `DecodeUndoesEncode`,
`EncodeInjective` and `StoredDecodes` about the ids; `TypeCorrect`; `ResultsFollowCallsHolds`.
The last needs what the second pass has in hand: `pendingIds` are the calls of the last
assistant message that have no result yet, `results` answer distinct ones of the others under
the name of the call, and every call in the first pass' output has its name in `toolNames`.
`EverythingOnceHolds` (everything once, and in order but for the results pulled ahead) adds
`FirstInv`: the first pass' output and its batch hold what has been read and is not empty, each
place once and in order; and `SecondInv`: what the second pass has put, with the texts it holds
back, is what it has passed over, each place once. `MatchedAsIssuedHolds` adds `Sourced`, that a
converted message is what stands in the transcript at its place, and `AwaitInv`: an id is pending
exactly when a result under it is still awaited in the first pass' output, and a result was put
exactly when it was awaited. Every property of the run is proved.

## 6. MessageStream

One `POST /v1/messages`: body, account, first event, then the streamed translation or the
collected message. `phase` is where the handler is suspended; `event` is what the iterator
has delivered and the loop has not yet handled, so that a client may leave between the two.
One action per upstream event (`OnStart`, `OnBlockStart`, `OnDelta`, `OnBlockEnd`, `OnDone`,
`OnError`, `OnThrow`, `OnEnd`, with counterparts before the first event and in the
collector); `sent` is what has been written. The upstream (pi-ai) is external: it opens each
block once and sends deltas and ends for open blocks only, because its own parser assembles
them so; it may leave blocks open, fail at any time, end without a result, and ignore the
abort signal. The pool is reduced to having another account or not; its own model is §3.

`message_stream` has two blocks (which may overlap), two deltas each and two accounts: a
delta is then the first or a later one, and a request can be moved on after the abort.
`Told` has an exception that is the code's: a stream whose upstream ends without a result is
ended as if nothing were missing, where the collected form answers 502. Fairness: the event
loop runs what is ready and the upstream, which has timeouts, answers or fails; the
departure of a client is never fair.

Proved for any number of blocks, deltas and accounts (`MessageStreamProofs`): `TypeCorrect`,
`FramedHolds`, `ToldHolds`, `AbandonedSoonHolds`. `ReplyInv` relates `phase`, `head` and what
has been written: nothing before the head, no ending while the request goes on, and
`message_start` first exactly when `messageStarted`. `AbandonedSoon` is proved and not
checked by the run again. `BlocksWholeHolds` (which includes that a tool's input is sent once)
adds `BlocksInv`: of each block, what has been written has the shape of its state - not begun,
running, stopped - the handler's `openBlocks` says which, and the counts of its parts are the
upstream's so far less the event that is delivered and not yet handled; a stopped message has
no open block. Only model-checked: the liveness property `Ends`.

## 7. RetractionArchive

What happens to a message that is retracted: captured into the archive in memory, its
pending write dropped, its row in the transcript replaced by an archive row, or removed when
that fails. The patched guards sit inside the host's transcript writer, which is external and
modelled from the code the patches match: entries wait until the session file exists,
`appendEntry` suspends twice before it enqueues, one queue does appends and removals in
order, metadata rows are written past it. `replaceLocal` is `Stat`, `CopyRows`, `Swap` with
`Retry` and `GiveUp`; `changed` stands for its comparison of two stat results, so it assumes
that a write shows in them. Other processes do not write to the transcript of a live session.

`retraction_archive` has two messages, two metadata rows, two attempts (in the code three: the
second is already both a retry and the last), two retractions, which may be of one message,
and one end of the process at any step. It checks that a removed message stays
removed, with one row at most (`StaysRemoved`), that a step disturbs no row but the retracted one, that archives stand where the message
stood, and that the queue drains. For the latter the steps of the queue are fair; failures
of file operations are allowed and never needed.

Proved for any messages, metadata rows, retractions, attempts and ends of the process
(`RuntimeProofs`, of `ArchiveSpec`): `StaysRemovedHolds`, `OthersUntouchedHolds`,
`ArchivedInPlaceHolds`. Assumed is only that a metadata row is not named like a message
(`MetasAssumption`; the uuids are drawn at random). That a message has one row cannot be seen
from the transcript alone, hence `ArchiveInv`:

* `OneInv`: a row of the transcript does not wait in the queue too, a row waits once, and
  no row of a captured message waits behind its removal (`Waits`): else the removal would
  pass first, and the row come back.
* `BeforeInv`: the row of a message whose `appendEntry` is still under way is nowhere yet, and if its
  archive row is, the message is captured, so that the last guard of `appendEntry` will drop it.
* `RemovedInv`: a message whose removal has ended has no row anywhere, and an `appendEntry` of
  it that is under way will be dropped.
* `DraftInv`: what replaces the transcript is the transcript with the archive row in place of the message's,
  or at the end if neither is there, unless it was written to meanwhile: then `Swap` refuses.
* `PhaseInv`: entries wait only until the session file exists, rows are in it or in the queue only afterwards,
  and a replacement is under way only for the removal at the head of the queue.

The rows left by a filter are taken by `Kept` of `Selections`, which picks entries by their rank among the
positions kept: the prover has no facts about `SelectSeq`, which is recursive. `RuntimeProofs` proves of
`Kept` that it has every entry once and in order, and that filtering twice is filtering once.
Only model-checked: `Drained` (liveness).

## 8. ProviderHandoff

A background job must run with the provider of the session that dispatched it, not with the
daemon's. The module follows one job through the three programs that `patches.py` patches
(for Claude Code 2.1.207; earlier versions differ in where the worker applies its values):

| Actor | State | Actions |
|---|---|---|
| clients | `client`, `socket`, `latest` | `Ask` (again after five seconds), `GiveUp`, `Read` |
| daemon | `daemon`, `held`, `phase`, `owner`, `known` | `Control`, `Manage`, `Acknowledge`, `Claim`, `Spawn`, `Replace`, `Retire`, `WarnBlocked`, `Exit`, `Stop`, `Start` |
| daemon's RV end | `link`, `nonce`, `auth`, `warned` | `Connect`, `Disconnect`, `Learn`, `UnusableReply`, `TimeOut` |
| worker | `stage`, `patched`, `payload`, `env`, `conn` | `ApplySettings`, `Answer` |

`known` is the worker object's `providerEnv`, `payload` the worker's `_ccProviderWorkerEnv`,
`env` its `process.env`. The host is external: when daemons stop, what a roster holds, when
workers are replaced. An environment gives values to the provider keys only. The first daemon
may be a stale unpatched one, whose acknowledgements and starts are modelled as well; its
successors are patched. A worker's socket may be served before its settings are applied.

`provider_handoff` has two clients with different keys set, one of which may be unpatched, two
dispatches (of two clients, or repeated by one), one restart and two connections (so that an
answer can be late for the next one), and a managed policy that agrees with one client or is
absent. `OwnProvider` is end to end: the environment of a working patched worker is its
client's, key by key, through claim, respawn, recovery by a successor and repeated settings;
that a conflict with managed settings ends the worker is part of it. Fairness: the five-second
timer fires; without `UnusableReply`'s warning `Resolved` would fail.

Proved for any clients, keys, values, policies and bounds (`ProviderHandoffProofs`):
`TypeCorrect`, `OwnProviderHolds`, `SessionRetainedHolds`, `AckTruthfulHolds`. `ProviderInv`
says that the daemon's copy, the worker's and those in the replies are the owner's provider or
none, and that an owner is replaced only when the worker and its socket have gone; a working
worker's environment is its payload, because applying a full environment gives that
environment and managed settings that agree change nothing. `AckInv` says that an owner
which a client still waits for was started by the present, patched daemon: sockets end with a
daemon, and a later dispatch is a new one. Assumed: `Null` is neither an environment nor a
dispatch. Only model-checked: `Resolved` (liveness).

## 9. ModelCatalog and ModelRouting

The multi-provider patch at run time. `ModelCatalog` holds the catalogue of external models
and every function that reads a model name (`_ccMultiProviderModelInfo`,
`_ccMultiProviderModelProvider`, `_ccMultiProviderCatalogInfo`, the price table, the picker,
the agents' model argument). A name is the part in front of its first colon and the rest;
`Routes(id)` is the one place a name leads to, or none, `Rejected` the errors.

`ModelRouting` has agents that share one process:

| State | Code |
|---|---|
| `env`, `native`, `policy` | the environment, the current native client, the attribution setting; `Reconfigure` changes one of them |
| `clients` | `_ccMultiProviderClients`, one client per provider with the token, address and native client it was built with |
| `schemas` | the cache of tool descriptions, shared by all agents |
| `agents[a]` | where a request is suspended, its model, the awaited snapshot of the attribution, its description, what was sent, what is recorded of the conversation |

A request is `Prepare` (a model is chosen), `Snapshot` (the attribution is there; the
description comes from the cache or is awaited), `Describe`, `Send` or `Retry` (one run of
`_ccMultiProviderRoute`), then `Answer` or `GiveUp`. `Count` and `CountReply` are the count of
tokens with its preflight, `Resume` the restoring of a session's model. Modelled is the
attribution by request of 2.1.301; older releases compute it synchronously and cannot be
interleaved. A descriptive text is the model it credits.

`model_routing` has two agents, names of every kind (native, account, external, a former
prefix), three requests or counts, and one change of the surroundings, which suffices because
a cached thing is stale after one. It checks `OneVoice` (description and system block of a
request name one attribution), `ServedAsNamed`, `FitsReceiver` (thinking and tools suit the
provider that gets them) and `LookupsAgree` (the functions that read a name agree, for every
word of the catalogue as prefix and as wire name). The setting `off` is left to the proofs: it
is one more constant text. Left out is a `Kimi:` in another case with a model
nobody knows.

Proved for any agents, names, settings and changes (`RequestProofs`): `OneVoiceHolds` and
`ServedAsNamedHolds`. `AgentInv` says that what an agent is told is the snapshot of its own
model, known or off; `SchemaInv`, that a cached description says what its key says, so that
whoever takes it from the cache takes its own text; `ClientInv`, that a cached client carries
what it was built with, so that `ClientFor` is the client in force (`ClientInForce`). Assumed
beyond the types: `None` is not a result of counting.

`LookupsAgreeHolds` follows the readings of a name apart (`RoutedAgree`: prefix, bare wire name
and the client's own aliases; `OfferedRouted`: nothing is offered that leads nowhere). It needs
`WordsAssumption`: the prefixes are lower-case and none is an account's; no two wire names of the
catalogue differ in case only; the client's own models have no wire name of it. All three are
facts of the tables in `patches.py`, and TLC evaluates them on the instance's. `FitsReceiverHolds`
needs that whoever gave a message is found again under the name it is recorded with (`Recorded`,
the strengthening `AllFit`): the thinking filter goes by names, the property by who answered.
That holds of `Usable` names: one the catalogue does not know is the native client's, and then
one of its own aliases and ids, which have no prefix (`RoutingAssumption`). The last conjunct
speaks of every added tool but `WebSearch`: one of those is filtered again after it was moved to
the list. Every property of the run is proved.

## 10. TranscriptMigration

`ccpatch migrate-tool-ids`: per transcript a snapshot, the rewriting, a backup, a staged copy,
a second snapshot that must equal the first, and the replacement, with the syncs between
them, one action per group of system calls. Contents are kept by inode, so that a session
that still has the replaced file open writes to the old one; `synced` are inodes whose
contents are on the disk and `stable` the names the disk knows. Any call may fail (`IOError`:
the temporary name goes, the file counts as an error and the loop goes on), and `Crash` keeps
any of the names not yet synced and loses contents not yet synced. A failing `fsync` after the
replacement reports an error although the transcript was replaced. The ids and their rewriting
are those of `ToolIds`.

`transcript_migration` has two transcripts, one with a call, its result and its attachment, and
one that may be torn, another user's or a link, two runs (the second sees what the first or a
crash left), one appended row and one crash. `BackupFirst`: what is replaced has its backup,
whatever a crash did. `RowsKept`: only rows a session wrote after the last comparison, or to a
file already replaced, can be missing. `src/README.md:289-292` warns of just these two; the property
says that there is no third.
`MatchKept`: ids that were equal still are.

Proved for any transcripts, rows, ids, runs, appends and crashes (`TranscriptProofs`): `BackupFirstHolds`,
`RowsKeptHolds`, `MatchKeptHolds`. Assumed is that the walk meets each transcript once and that contents are rows
(`FilesAssumption`). The properties speak of the name of a transcript, the invariant of every inode that may
have it, now, after a crash, or in a session that keeps it open (`Named`):

* `Backed`: an inode that a run made has that run's backup beside it, complete, synced and with its
  name on the disk; it holds the backup's rows, amended, and then what sessions wrote to it; and another such inode begins with
  the rows of the backup. That a crash may lead the name back to an older inode is why this is said of all of them.
* `Faithful`: the rows are a selection of those written, in order, that leaves out only late ones. The
  selection exists at each step; which one it is changes when a late row is lost with a replaced file.
* `JobInv`: what the command has established about the file it is at, step by step; the comparison
  gives that the snapshot still begins the transcript (`Begins`), so that the staged copy is `Faithful` too.

Amending twice is amending once (`AmendTwice`), so that the second run changes nothing of what the first wrote.

## 11. ModuleRuntime

A split bundle is a graph of ES modules. `module_reference` finds a name under which one
module can reach a declaration of another; `ensure_module_reference` makes one along imports
that exist; `register_module_bootstrap` and `finalize_module_runtime` put shared code in front
of every module. A module's text is the names it declares, its named imports and its exports.
`Ask` is a patch's call; `SameModule`, `Direct`, `StartSearch`, `Visit` (one module of one
pass), `NextPass` and `EndSearch` are the search, `BindEdge`, `TakeRoute` and `NoRoute` the
binding, hop by hop from the far end; `Register`, `Finalize`, and `Evaluate` for Bun running
the modules in any order. Finding the declarations is the lexer's work and not modelled
(`module_runtime.py:62-170`), relative specifiers neither.

`module_runtime` takes every graph of three modules that links, within the choices of
`MCModuleRuntime`: cycles, one declaration under two names, chains of re-exports, edges that
name nothing. Two calls: the second works on what the first has edited. Four aliases are
enough, as a route has two hops. Fairness: a call is plain computation and runs on, so `Serve`
is weakly fair. `StillLinks`, `GivenDenote`, `BootstrapFirst`, `DependenciesKept`, and
`CallEnds`: every call is answered, or refused for cause, and never half way along a route.

Proved for any graph that links, number of calls and aliases (`RuntimeProofs`):

* `GivenDenoteHolds`, `DependenciesKeptHolds`. The first is stated for *every* linkage that agrees
  with the graph (`Agrees`): each known export, each found name and each hop denotes the
  declaration asked for, and so does each name handed out. `RouteInv` says that a route leads
  along imports. Later calls only add to the graph (`Grows`), and a linkage that agrees with the
  larger graph agreed with the smaller.
* `StillLinksHolds`: the graph still links, which is what makes the linkage of ES modules one
  that agrees. Assumed is that the bundle that is patched links (`ModulesAssumption`): it runs.
  "No circle of re-exports" is said without following them: every non-empty set of imported names
  has one that comes from outside the set (`Links`). A fresh alias is the origin of no import that
  was there before, so that a set which is closed with it was closed without it. `LinkedInv`
  adds that the binding of a call is in the scope of its owner, and the names a search has found
  in that of the consumer.
* `BootstrapFirstHolds`. `MarksInv`: each key has a first registration; the first
  registrations have every rank once (`AlwaysRanked`, of any set of positions); `InstalledInv`: the first module to be
  evaluated installs all of them, the others nothing. `Kept` picks entries of a sequence by their
  rank among the positions kept, not with `SelectSeq`, so that it can be reasoned about.

Only model-checked: `CallEnds` (liveness).

## 12. BunBlob, Containers, PatchEngine, ApplyCommand

`ApplyCommand` is `ccpatch apply` from the executable read to the output written, and composes
three modules of pure definitions:

* `BunBlob`: parsing and laying out the data blob, with the two sizes of a module entry, the
  alignment of bytecode, the records of extended graphs. Offsets and lengths are those of the
  bytes; a text is a value with a length.
* `Containers`: the ELF file and the Mach-O segment around the blob, what `load_container`
  refuses, and the rewriting of headers. A file says where things are (headers) and, apart from
  it, where they lie (bodies), so that moving one without the other shows.
* `PatchEngine`: patches with their numbers of matches, required identifiers and markers, every
  set of `default_patch_sets` with its gates and overrides for releases, and their order. A
  source is a sequence of fragments: sites, marks and module boundaries. A text that one patch
  writes and a later one matches is a fragment of its own, and a pattern that takes several
  texts for its site has all of them (`also`). Patches of one set that meet nothing, or meet the
  same patch in the same way, are one patch: the set fails as a whole whichever of them fails.
  Where patches meet: the agents view rewrites the launch that the provider set's fallback matches
  afterwards, in releases 195 to 287 (`dispatch-launch`; `agents_handoff.py:102-108` and
  `patches.py:633`); the socket and the fallback call the snapshot as it was rewritten
  (`patches.py:1083`, `1096`); the lifecycle is matched by the field that the worker's class was
  given (`1857`), the worker's last restore by the payload its environment was given (`679`), the
  settings boundary and the claim by what capture and claimed entry left (`2255`, `2285`); and the
  respawn guard, any `||x.providerEnv`, would take what the control check and the lifecycle write,
  were they there before it (`821`). The preview looks for the renderer of the first set. The
  converse optional of `agents_handoff.py:28`, a launch the fallback has already rewritten, is for
  an order of the sets that no run has.

The run's actions are `Start`, `ApplyNext` (one set), `Rebuild`, `SignFails`, `Verify`, `Stage`,
`Smoke`, `SmokeFails`, `Truncate`, `Write`, `Chmod`, `WriteFails` and `Kill`. Input and output
may be one file, and a second run may get what the first wrote.

`apply_command` takes releases whose gates differ, as bundles of either table and as split graphs
with and without shared records, in ELF and Mach-O files of both header sizes, and executables
that must be refused: a later mapped section, no `.bun`, an unknown container, a site missing or
doubled, an unknown flag, a bad entry. `WholePatch`: a verified source carries every admitted set
whole and nothing of another. `GraphCarried`: the module graph is carried over, and no cache is
older than its source. `LoaderFinds`: what the loader goes by is true of the layout.
`RefusedWithCause`: a sound executable of a known release is not refused, so each set can still
work on what the earlier ones left; its mutant is the fallback without the rewritten launch, and
refuses releases 195 to 287. `OutputKept`: the output
is replaced by an executable that was verified, and tested if asked, or left as it was.

All five are proved for any executables, any --version texts and any number of runs (`FileProofs`,
on the lemmas of `PatchProofs` about the engine). The constants carry four assumptions.
`BinariesAssumption`: an executable that the parsers take is `SoundFile`. The parsers check little
(`_slice` follows any pointer, sections are believed), so this is what Bun's own writer guarantees:
strings that do not overlap, bytecode aligned behind the blob's length, unique module names, records
as long as the flags say, a cache beside the source it was made of, sections where their headers say
and nothing but `.bun` inside `.bun`. TLC evaluates it on every executable of the instances. That a
run keeps it is proved, not assumed, which is what a second run over the first one's output needs.
`VersionsAssumption`: releases and version texts are numbers the gates compare.
`OriginalAssumption`: an executable given to the first run contains nothing of what only ccpatch
writes (`Left`, collected from the patches themselves), and no module boundary if it has one module.
`SoundAssumption` says what the mark `sound` of an executable means: it is `Known` to the sets its
own release admits. Of what upstream wrote, each required site is there as often as its patch
expects (of the texts a pattern takes for its site, those that are upstream's, together), an
identifier that a patch needs is declared once, nothing that a set checks for afterwards
is there but at its own sites, and the boundaries are where the extraction puts them. It is silent
on what one patch leaves for another, in its set or a later one, so that patches do not get in each
other's way, and that some find what earlier ones wrote, has to be proved.

* `OutputKeptHolds`: while a run prepares, the output is what it was (`Preparing`); once it
  publishes, the test has passed if it was asked for; only while it writes is the output a part.
* `RoundTrip`: `parse_blob` takes back the graph that `rebuild_blob` laid out, for any number of
  modules, either table and any lengths. The ends of the strings grow (`EndsGrow`), so pointers
  are distinct and each reads its own string (`StringBack`); the table's length tells its row
  size, and the records begin where the table ends. Induction over the strings is by the least
  string that fails (`Stepwise`), since an induction rule with a predicate cannot be instantiated.
* `LoaderFindsHolds`, from `RewriteInv`: input and built executable are sound; while sets are
  applied the source is a sequence (each set, by name, has sequences as replacements:
  `AdmittedSets`); and from layout to staging the built executable is the rewriting of the
  transformed graph of the input. `LayoutSound`, `ElfSound` and `MachoWritten` say that rewriting
  keeps soundness, whatever the difference of the sizes, its sign included.
* `GraphCarriedHolds`, from the same invariant with `RoundTrip`: what is read back is the
  transformed graph, or its source-only form. The cuts of the source are where the markers of
  the modules are, in the modules' order, so that cutting and joining again gives the source
  (`PutTogether`), and a module is found by its unique name (`CarriedSource`). Without source
  modules nothing would be cut; `Verify` refuses that, as the render mark cannot be there.

* `WholePatchHolds`, from `EngineInv`. While a run is patching, `Reached(sets, n, taken, source)`
  says what the first `n` admitted sets have made of the text taken out: of `Left` only what they
  wrote is there, and each mark as often as its patch expects; their sites are gone; module
  boundaries are as many as before; a registration is there for each set that registers. One set
  keeps this (`NextSet`): no patch takes what an earlier one left as its mark, except where the
  later one is made for it, and nothing it writes looks like an earlier site or mark.
  That is shown in two parts. Each set, by name, is `GoodSet`: its patches and boot fragments lie
  between two seats of one long order of fragments (`InTurn`, `Seat`), and what it takes and leaves
  is counted there. And the list of `default_patch_sets`, whatever its gates admit, is in the order
  of the seats (`AdmittedOrder`). `Completed` adds `finalize_module_runtime`. A run over the first
  one's output needs no assumption: the output is `Spent`, it has lost the site of the first set,
  which is admitted by every version, so the run is refused before anything else (`SpentFails`).
  That every executable verified was made by this way, and no cut of the source was lost, comes
  from `RewriteInv` (`AsManyModules`).

* `RefusedWithCauseHolds`, from `RefuseInv`, which adds to the invariants above that a sound
  executable is as its release was until it is patched (`ReleaseInv`), and that a run which has
  nothing to refuse for (`Granted`) `Awaits` its next set. `Awaits` is the other half of `Reached`:
  what later patches match is as it was taken out (`Untouched`), none of what they write is there
  yet (`Fresh`), and the boundaries are the same ones in the same order, the first still in front
  (`SameSeams`). Launches are counted together: however many the release has, as many are left for
  the fallback, rewritten by the agents view or not (`LaunchesKept`). From that every set, by name,
  succeeds (`Serves`, `EverySetServes`): most find only upstream's sites;
  `background-provider-environment` finds the launch, and what its own earlier patches wrote where
  and as often as its later ones expect it (`Fits`, `FitsBackground`), with none of the marks its
  respawn guard would take (`GuardedLeft`); and `streaming-thinking` needs the renderer that
  `thinking-expanded`, every version's first set, wrote (`Rendered`).
  `AwaitsNext` is the step from one set to the next, `FinalSeams` and `BoundaryKept` say that the
  runtime's preludes leave every boundary in its place, so `Rebuild` does not refuse either. What is
  left is what the property names: another release's number, an output given again, flags the
  layout does not know, and the failures of other programs.

The proof of `WholePatch` found a bound that was too small: it used to look at the first eight
patches of a set, and some sets have more. It now looks at all of them, and at the sets of every
version.

What the model shows of the code and no property forbids: a version text with a leading `v`
parses as the empty version, below every gate, and all gated sets are silently left out; without
`--version` alternative sets of different releases are all admitted, and every release is refused; the output is
written in place, so a kill or a full disk leaves a part; only the errors of the pipeline
itself are reported, others leave a traceback. Two assumptions of the layout code are in the
model as they are in the code and never fail in the instances: the ELF section headers follow
`.bun` (`elf.py:190`), and a retained bytecode is aligned for a length of eight bytes. A table of
468 bytes is nine new entries, never thirteen old ones (`bunfmt.py:99`).

## 13. What is checked and proved

| Run | Distinct states | Time (2 workers) |
|---|---|---|
| `pool_usage` | 1 801 000 | 110 s |
| `pool_answered` | 108 000 | 80 s |
| `pool_limit_shortened` | violation | 2 s |
| `proxy_token` | 17 000 | 2 s |
| `tool_turns` | 941 000 | 20 s |
| `message_stream` | 348 000 | 35 s |
| `retraction_archive` | 225 000 | 40 s |
| `provider_handoff` | 687 000 | 55 s |
| `model_routing` | 564 000 | 95 s |
| `transcript_migration` | 246 000 | 45 s |
| `module_runtime` | 252 000 | 70 s |
| `apply_command` | 63 000 | 55 s |

`theorems` in `PROJECT.json` lists the results proved; each `*Proofs` module states its
inductive invariant first, then what each action does to it. Where a recursion over data had to
be followed (the layout of a blob, flattening a sequence), the proof takes the least index at
which the claim fails. Left to TLC:

* liveness, which needs fairness and ENABLED: `Answered`, `Ends`, `Drained`, `Resolved`,
  `CallEnds`;
* `LimitNeverShortened`, which the code violates.

## 14. Not modelled

* Credential store (`auth.json`): what can be lost depends on how the pi CLI writes the file,
  and that program is not in this repository.
* Launcher and service: shell around systemd; the states are systemd's and other processes'.
* In modelled components: the synchronous attribution of older releases and the OAuth headers
  of numbered accounts; the lexer of the module runtime; the wording of contents, the token
  estimate and `buildOptions`; the order of the retraction timeline and a backend's rows; jobs
  that run a command and the agents view's fallback; the texts of patterns and of the injected
  JavaScript; `extract` and `generate-multi-provider-helper`, which write one file; endpoints of
  the proxy that only read.
* Packaging, documents and tests execute nothing.
