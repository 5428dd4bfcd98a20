---------------------------- MODULE AccountPool ----------------------------
(***************************************************************************)
(* The Codex account pool of cc-openai-proxy (proxy/bin/codex-accounts.js) *)
(* and the request loop that drives it (handleMessages in                  *)
(* proxy/bin/cc-openai-proxy.js).                                          *)
(*                                                                         *)
(* The proxy is one JavaScript event loop.  A request is a coroutine: an   *)
(* action below is the code it runs from one `await` to the next.  pc says *)
(* where it is suspended, or, when it is in Ready, that its continuation   *)
(* is in the microtask queue.  Microtasks run before the next I/O          *)
(* callback, so an action that starts at an I/O callback is guarded by     *)
(* Quiet.  The clock may advance between any two actions.                  *)
(*                                                                         *)
(* Abstracted: times are whole units, a plan's capacity is positive, and a *)
(* window's use is a percentage.  Definitions whose name extends another's *)
(* (WeighDroppingAwaited of Weigh) are faulty variants: no specification   *)
(* uses them, they show that a property notices the fault.                 *)
(***************************************************************************)
EXTENDS Integers, Sequences, FiniteSets

CONSTANTS
  N,                 \* accounts, scanned in the order 1..N
  Requests,          \* concurrent POST /v1/messages calls
  Sessions,          \* Claude Code session ids
  NoSession,         \* a request without a session id
  SessionOf,         \* the session of each request
  UsageTtl, StickyTtl, LimitFallback,                      \* options of the pool
  AuthCooldown, UsageCooldown, TransientCooldown,          \* its fixed cooldowns
  MaxSessions,       \* MAX_STICKY_SESSIONS
  UsageReplies,      \* what the usage endpoint may answer
  HeaderReplies,     \* the windows x-codex-* headers may carry (<<>>: plan only)
  ErrorResets,       \* resets_at values of usage-limit error bodies
  RetryAfters,       \* retry-after values of transient failures
  AuthMayFail,       \* accounts whose credentials may be unusable
  MaxCalls, MaxTime  \* bounds, for TLC: calls of each client, the clock

Accounts == 1..N
Window == [used: 0..100, resetAt: Nat]

\* resetAt and limitedUntil are undefined or 0 in the code until known; no
\* time of interest is 0.
NoReset == 0
NoAccount == 0

ASSUME ConstantsAssumption ==
  /\ N \in Nat \ {0}
  /\ NoSession \notin Sessions
  /\ SessionOf \in [Requests -> Sessions \cup {NoSession}]
  /\ UsageTtl \in Nat /\ StickyTtl \in Nat /\ LimitFallback \in Nat
  /\ AuthCooldown \in Nat \ {0} /\ UsageCooldown \in Nat /\ TransientCooldown \in Nat
  /\ MaxSessions \in Nat /\ MaxCalls \in Nat /\ MaxTime \in Nat
  /\ UsageReplies \subseteq [limitReached: BOOLEAN, windows: Seq(Window)]
  /\ HeaderReplies \subseteq Seq(Window)
  /\ ErrorResets \subseteq Nat /\ RetryAfters \subseteq Nat
  /\ AuthMayFail \subseteq Accounts

VARIABLES
  now,
  \* per account
  limitedUntil, transientUntil, authFailedUntil, usageFailedUntil,
  snapshot, refreshing,
  sessions,          \* the sticky bindings
  \* per request
  pc, tried, cursor, eligible, sticky, chosen, limit,
  calls,             \* how many times each client has called
  \* history: accounts seen blocked, seen usable, since the selection began, and
  \* the requests that await credentials and did so together with another of
  \* their session
  down, up, crossed

accountVars == <<limitedUntil, transientUntil, authFailedUntil, usageFailedUntil,
                 snapshot, refreshing>>
requestVars == <<pc, tried, cursor, eligible, sticky, chosen, limit>>
codeVars == <<now, accountVars, sessions, requestVars>>
vars == <<codeVars, calls, down, up, crossed>>

Snapshot == [source: {"none", "usage", "headers"}, observedAt: Nat,
             limitReached: BOOLEAN, windows: Seq(Window)]

\* Where a request is suspended.
Ready == {"scan", "weigh", "limited", "exhausted"}
Suspended == {"idle", "usage", "auth", "stream", "limiting"}
Quiet == \A r \in Requests : pc[r] \notin Ready

(***************************************************************************)
(* What the pool reads off a snapshot.                                     *)
(***************************************************************************)
ActiveWindows(s, at) == {i \in DOMAIN s.windows : s.windows[i].resetAt > at}

Least(S) == CHOOSE m \in S : \A n \in S : m <= n

\* The first of the most used windows in `among`.
MostUsed(s, among) ==
  Least({i \in among : \A j \in among : s.windows[j].used <= s.windows[i].used})

\* The reset a client is told when the snapshot says the account is exhausted:
\* the earliest full window's, or the most used window's.
ExhaustedResetAt(s, at) ==
  LET active == ActiveWindows(s, at)
      full == {i \in active : s.windows[i].used = 100}
  IN IF ~s.limitReached \/ active = {} THEN NoReset
     ELSE IF full # {} THEN Least({s.windows[i].resetAt : i \in full})
     ELSE s.windows[MostUsed(s, active)].resetAt

\* accountWeight is positive: every active window has something left.
SnapshotAllows(s) == \A i \in ActiveWindows(s, now) : s.windows[i].used < 100

WeighsIgnoringCooldown(a) ==
  /\ limitedUntil[a] <= now
  /\ authFailedUntil[a] <= now
  /\ SnapshotAllows(snapshot[a])

\* candidateWeight(account) > 0
Weighs(a) ==
  /\ limitedUntil[a] <= now
  /\ transientUntil[a] <= now
  /\ authFailedUntil[a] <= now
  /\ SnapshotAllows(snapshot[a])

Fresh(a) == snapshot[a].source = "usage" /\ now - snapshot[a].observedAt < UsageTtl

\* refreshUsage without force goes to the endpoint (or joins a call under way).
RefreshDue(a) == ~Fresh(a) /\ usageFailedUntil[a] <= now

\* Known time at which an account comes back, NoReset when there is none.
AvailabilityAt(a) ==
  LET known == {t \in {limitedUntil[a]} : t > now}
               \cup ({ExhaustedResetAt(snapshot[a], now)} \ {NoReset})
  IN IF known = {} THEN NoReset ELSE Least(known)

(***************************************************************************)
(* select: the scan over the accounts, then the pick.                      *)
(***************************************************************************)
SkippedForgettingTried(r, a) == authFailedUntil[a] > now
Skipped(r, a) == a \in tried[r] \/ authFailedUntil[a] > now

StickyIndex(r) ==
  LET key == SessionOf[r]
  IN IF key # NoSession /\ sessions[key].index # NoAccount
        /\ sessions[key].lastUsed + StickyTtl > now
     THEN sessions[key].index ELSE NoAccount

PicksForgettingSession(candidates, preferred) == candidates

\* The sticky account when it is a candidate, a weighted draw otherwise: the
\* draw returns any account of positive weight.
Picks(candidates, preferred) ==
  IF preferred \in candidates THEN {preferred} ELSE candidates

Init ==
  /\ now = 0
  /\ limitedUntil = [a \in Accounts |-> 0]
  /\ transientUntil = [a \in Accounts |-> 0]
  /\ authFailedUntil = [a \in Accounts |-> 0]
  /\ usageFailedUntil = [a \in Accounts |-> 0]
  /\ snapshot = [a \in Accounts |-> [source |-> "none", observedAt |-> 0,
                                     limitReached |-> FALSE, windows |-> <<>>]]
  /\ refreshing = {}
  /\ sessions = [k \in Sessions |-> [index |-> NoAccount, lastUsed |-> 0]]
  /\ pc = [r \in Requests |-> "idle"]
  /\ tried = [r \in Requests |-> {}]
  /\ cursor = [r \in Requests |-> 1]
  /\ eligible = [r \in Requests |-> {}]
  /\ sticky = [r \in Requests |-> NoAccount]
  /\ chosen = [r \in Requests |-> NoAccount]
  /\ limit = [r \in Requests |-> [at |-> 0, reset |-> NoReset]]
  /\ calls = [r \in Requests |-> 0]
  /\ down = [r \in Requests |-> {}]
  /\ up = [r \in Requests |-> {}]
  /\ crossed = {}

-----------------------------------------------------------------------------
\* The request is answered: its locals are gone.
Answer(r) ==
  /\ pc' = [pc EXCEPT ![r] = "idle"]
  /\ tried' = [tried EXCEPT ![r] = {}]
  /\ eligible' = [eligible EXCEPT ![r] = {}]
  /\ cursor' = [cursor EXCEPT ![r] = 1]
  /\ sticky' = [sticky EXCEPT ![r] = NoAccount]
  /\ chosen' = [chosen EXCEPT ![r] = NoAccount]
  /\ limit' = [limit EXCEPT ![r] = [at |-> 0, reset |-> NoReset]]

\* POST /v1/messages: the body is read and the first selection starts.
Arrive(r) ==
  /\ Quiet
  /\ pc[r] = "idle"
  /\ calls[r] < MaxCalls
  /\ pc' = [pc EXCEPT ![r] = "scan"]
  /\ UNCHANGED <<now, accountVars, sessions, tried, cursor, eligible, sticky,
                 chosen, limit>>

\* select has no candidate left: every login is broken, or nothing to offer.
NothingToOffer(r, authUntil) ==
  IF \A a \in Accounts : authUntil[a] > now
  THEN Answer(r)
  ELSE /\ pc' = [pc EXCEPT ![r] = "exhausted"]
       /\ eligible' = [eligible EXCEPT ![r] = {}]
       /\ chosen' = [chosen EXCEPT ![r] = NoAccount]
       /\ UNCHANGED <<tried, cursor, sticky, limit>>

\* The loop of select over its candidates: the sticky account first, then a
\* weighted draw; credentials are awaited next.
TryCandidates(r, candidates, preferred, authUntil) ==
  IF candidates = {} THEN NothingToOffer(r, authUntil)
  ELSE /\ pc' = [pc EXCEPT ![r] = "auth"]
       /\ eligible' = [eligible EXCEPT ![r] = candidates]
       /\ sticky' = [sticky EXCEPT ![r] = preferred]
       /\ \E a \in Picks(candidates, preferred) : chosen' = [chosen EXCEPT ![r] = a]
       /\ UNCHANGED <<tried, cursor, limit>>

AwaitUsageAlways(r, found, stop) ==
  /\ pc' = [pc EXCEPT ![r] = "usage"]
  /\ cursor' = [cursor EXCEPT ![r] = stop]
  /\ eligible' = [eligible EXCEPT ![r] = found]
  /\ UNCHANGED <<tried, sticky, chosen, limit>>

\* The scan awaits refreshUsage(stop), which may return at once.
AwaitUsage(r, found, stop) ==
  /\ pc' = [pc EXCEPT ![r] = IF RefreshDue(stop) THEN "usage" ELSE "weigh"]
  /\ cursor' = [cursor EXCEPT ![r] = stop]
  /\ eligible' = [eligible EXCEPT ![r] = found]
  /\ UNCHANGED <<tried, sticky, chosen, limit>>

\* The for loop of select from account `first`, up to the first account
\* without a snapshot or past the last one.  A stale snapshot is refreshed in
\* the background.
ScanFrom(r, first, found) ==
  \E stop \in first..(N + 1) :
    LET seen == {a \in first..(stop - 1) : ~Skipped(r, a)}
        candidates == found \cup {a \in seen : Weighs(a)}
        asked == {a \in seen \cup ({stop} \cap Accounts) : RefreshDue(a)}
    IN /\ \A a \in seen : snapshot[a].source # "none"
       /\ stop <= N => ~Skipped(r, stop) /\ snapshot[stop].source = "none"
       /\ refreshing' = refreshing \cup asked
       /\ IF stop <= N THEN AwaitUsage(r, candidates, stop)
                       ELSE TryCandidates(r, candidates, StickyIndex(r), authFailedUntil)
       /\ UNCHANGED <<now, limitedUntil, transientUntil, authFailedUntil,
                      usageFailedUntil, snapshot, sessions>>

\* select is entered.
Scan(r) == pc[r] = "scan" /\ ScanFrom(r, 1, {})

WeighDroppingAwaited(r) == pc[r] = "weigh" /\ ScanFrom(r, cursor[r] + 1, eligible[r])

\* select resumes after `await refreshUsage(account)` and weighs that account.
Weigh(r) ==
  /\ pc[r] = "weigh"
  /\ ScanFrom(r, cursor[r] + 1,
              eligible[r] \cup {a \in {cursor[r]} : Weighs(a)})

\* bind, with pruneSessions: past MaxSessions a least recently used binding
\* goes.
Bind(r) ==
  LET key == SessionOf[r]
      bound == [sessions EXCEPT ![key] = [index |-> chosen[r], lastUsed |-> now]]
      keys == {k \in Sessions : bound[k].index # NoAccount}
  IN IF key = NoSession THEN UNCHANGED sessions
     ELSE IF Cardinality(keys) <= MaxSessions THEN sessions' = bound
     ELSE \E k \in keys :
            /\ \A other \in keys : bound[k].lastUsed <= bound[other].lastUsed
            /\ sessions' = [bound EXCEPT ![k] = [index |-> NoAccount, lastUsed |-> 0]]

\* resolveAuth(chosen) gave a token: select returns, the request goes upstream.
AuthResolved(r) ==
  /\ Quiet
  /\ pc[r] = "auth"
  /\ Bind(r)
  /\ pc' = [pc EXCEPT ![r] = "stream"]
  /\ tried' = [tried EXCEPT ![r] = @ \cup {chosen[r]}]
  /\ eligible' = [eligible EXCEPT ![r] = {}]
  /\ cursor' = [cursor EXCEPT ![r] = 1]
  /\ sticky' = [sticky EXCEPT ![r] = NoAccount]
  /\ UNCHANGED <<now, accountVars, chosen, limit>>

\* resolveAuth(chosen) failed: cool the account down and try the others.
AuthFailed(r) ==
  /\ Quiet
  /\ pc[r] = "auth"
  /\ chosen[r] \in AuthMayFail
  /\ authFailedUntil' = [authFailedUntil EXCEPT ![chosen[r]] = now + AuthCooldown]
  /\ TryCandidates(r, eligible[r] \ {chosen[r]}, sticky[r], authFailedUntil')
  /\ UNCHANGED <<now, limitedUntil, transientUntil, usageFailedUntil, snapshot,
                 refreshing, sessions>>

-----------------------------------------------------------------------------
\* mergeSnapshot: an exhausted snapshot raises limitedUntil.
Merge(a, source, limitReached, windows) ==
  LET merged == [source |-> source, observedAt |-> now, limitReached |-> limitReached,
                 windows |-> IF windows = <<>> THEN snapshot[a].windows ELSE windows]
      reset == ExhaustedResetAt(merged, now)
  IN /\ snapshot' = [snapshot EXCEPT ![a] = merged]
     /\ limitedUntil' = [limitedUntil EXCEPT ![a] = IF reset > @ THEN reset ELSE @]

\* The refresh promise of account a settles: every request awaiting it resumes.
RefreshSettles(a) ==
  /\ Quiet
  /\ a \in refreshing
  /\ refreshing' = refreshing \ {a}
  /\ pc' = [r \in Requests |->
              IF pc[r] = "usage" /\ cursor[r] = a THEN "weigh"
              ELSE IF pc[r] = "limiting" /\ chosen[r] = a THEN "limited"
              ELSE pc[r]]
  /\ UNCHANGED <<now, transientUntil, authFailedUntil, sessions, tried, cursor,
                 eligible, sticky, chosen, limit>>

\* The usage endpoint answers with a report.
RefreshAnswered(a) ==
  /\ RefreshSettles(a)
  /\ \E answer \in UsageReplies : Merge(a, "usage", answer.limitReached, answer.windows)
  /\ UNCHANGED usageFailedUntil

\* Credentials, the call or its 10 s timeout, or the status failed.
RefreshFailed(a) ==
  /\ RefreshSettles(a)
  /\ usageFailedUntil' = [usageFailedUntil EXCEPT ![a] = now + UsageCooldown]
  /\ UNCHANGED <<limitedUntil, snapshot>>

\* No token, no account id to ask for, or an answer that is not an object: no
\* report and no cooldown either.
RefreshEmpty(a) ==
  /\ RefreshSettles(a)
  /\ UNCHANGED <<limitedUntil, snapshot, usageFailedUntil>>

-----------------------------------------------------------------------------
\* Headers with windows tell whether one is used up; a plan type alone says
\* nothing and keeps the previous word.
HeaderLimit(a, windows) ==
  IF windows = <<>> THEN snapshot[a].limitReached
  ELSE \E i \in DOMAIN windows : windows[i].used = 100

\* onResponse: the x-codex-* headers of the upstream response.  A fresh usage
\* report is not overwritten.
ObserveHeaders(r) ==
  /\ Quiet
  /\ pc[r] = "stream"
  /\ ~Fresh(chosen[r])
  /\ \E windows \in HeaderReplies :
       Merge(chosen[r], "headers", HeaderLimit(chosen[r], windows), windows)
  /\ UNCHANGED <<now, transientUntil, authFailedUntil, usageFailedUntil, refreshing,
                 sessions, requestVars>>

\* The first event is not an error: the reply is the upstream's.
StreamServes(r) ==
  /\ Quiet
  /\ pc[r] = "stream"
  /\ Answer(r)
  /\ UNCHANGED <<now, accountVars, sessions>>

\* Another upstream failure or an empty stream (502), or the client left (499).
StreamFails(r) ==
  /\ Quiet
  /\ pc[r] = "stream"
  /\ Answer(r)
  /\ UNCHANGED <<now, accountVars, sessions>>

\* A per-minute rate limit: markTransient, and select again.
StreamTransient(r) ==
  /\ Quiet
  /\ pc[r] = "stream"
  /\ \E wait \in RetryAfters \cup {TransientCooldown} :
       transientUntil' = [transientUntil EXCEPT ![chosen[r]] =
                            IF now + wait > @ THEN now + wait ELSE @]
  /\ pc' = [pc EXCEPT ![r] = "scan"]
  /\ chosen' = [chosen EXCEPT ![r] = NoAccount]
  /\ UNCHANGED <<now, limitedUntil, authFailedUntil, usageFailedUntil, snapshot,
                 refreshing, sessions, tried, cursor, eligible, sticky, limit>>

\* A usage limit: markLimited up to its forced refreshUsage.  The reset of the
\* error body counts when it lies ahead; a WebSocket error carries none.
StreamLimited(r) ==
  /\ Quiet
  /\ pc[r] = "stream"
  /\ pc' = [pc EXCEPT ![r] = "limiting"]
  /\ \E reset \in {t \in ErrorResets : t > now} \cup {NoReset} :
       limit' = [limit EXCEPT ![r] = [at |-> now, reset |-> reset]]
  /\ refreshing' = refreshing \cup {chosen[r]}
  /\ UNCHANGED <<now, limitedUntil, transientUntil, authFailedUntil, usageFailedUntil,
                 snapshot, sessions, tried, cursor, eligible, sticky, chosen>>

\* The time markLimited settles on: the error body's reset, else the snapshot's
\* as of the time the error came in, else a fixed cooldown.
LimitReset(r) ==
  LET s == snapshot[chosen[r]]
      known == IF limit[r].reset # NoReset THEN limit[r].reset
               ELSE ExhaustedResetAt(s, limit[r].at)
      until == IF known # NoReset THEN known ELSE limit[r].at + LimitFallback
  IN IF until > limit[r].at + 1 THEN until ELSE limit[r].at + 1

\* markLimited resumes: set the limit, flag the snapshot, drop the bindings to
\* the account; select is next.
MarkLimited(r) ==
  LET a == chosen[r] IN
  /\ pc[r] = "limited"
  /\ limitedUntil' = [limitedUntil EXCEPT ![a] = LimitReset(r)]
  /\ snapshot' = [snapshot EXCEPT ![a].limitReached = @ \/ snapshot[a].source # "none"]
  /\ sessions' = [k \in Sessions |->
                    IF sessions[k].index = a THEN [index |-> NoAccount, lastUsed |-> 0]
                    ELSE sessions[k]]
  /\ pc' = [pc EXCEPT ![r] = "scan"]
  /\ chosen' = [chosen EXCEPT ![r] = NoAccount]
  /\ limit' = [limit EXCEPT ![r] = [at |-> 0, reset |-> NoReset]]
  /\ UNCHANGED <<now, transientUntil, authFailedUntil, usageFailedUntil, refreshing,
                 tried, cursor, eligible, sticky>>

\* usageLimitError on exhaustedState: the earliest known reset; a plain 429
\* when there is none but an account is cooling down.
ExhaustedReply ==
  LET resets == {AvailabilityAt(a) : a \in Accounts} \ {NoReset}
      cooling == {transientUntil[a] : a \in {b \in Accounts : transientUntil[b] > now}}
  IN IF resets # {} THEN [kind |-> "limit", reset |-> Least(resets)]
     ELSE IF cooling # {} THEN [kind |-> "retry", reset |-> Least(cooling)]
     ELSE [kind |-> "limit", reset |-> now + LimitFallback]

\* The 429 carrying ExhaustedReply.
AnswerExhausted(r) ==
  /\ pc[r] = "exhausted"
  /\ Answer(r)
  /\ UNCHANGED <<now, accountVars, sessions>>

Tick ==
  /\ now < MaxTime
  /\ now' = now + 1
  /\ UNCHANGED <<accountVars, sessions, requestVars>>

-----------------------------------------------------------------------------
\* An account that cannot be offered: the specification's words, read off the
\* state and not off candidateWeight.
Blocked(a) ==
  \/ limitedUntil[a] > now \/ transientUntil[a] > now \/ authFailedUntil[a] > now
  \/ \E i \in DOMAIN snapshot[a].windows :
       snapshot[a].windows[i].used = 100 /\ snapshot[a].windows[i].resetAt > now

Selecting == {"scan", "usage", "weigh", "auth", "exhausted"}

\* Two requests of one session await credentials.
BothAwait(r, q) ==
  /\ r # q /\ SessionOf[r] = SessionOf[q] /\ SessionOf[r] # NoSession
  /\ pc[r] = "auth" /\ pc[q] = "auth"

\* History: a selection begins when pc becomes "scan".
Begins(r) == pc'[r] = "scan" /\ pc[r] # "scan"
Watched(r) == pc'[r] \in Selecting
History ==
  /\ calls' = [r \in Requests |-> calls[r] + (IF pc[r] = "idle" /\ Begins(r) THEN 1 ELSE 0)]
  /\ down' = [r \in Requests |->
       IF ~Watched(r) THEN {}
       ELSE (IF Begins(r) THEN {} ELSE down[r]) \cup {a \in Accounts : Blocked(a)'}]
  /\ up' = [r \in Requests |->
       IF ~Watched(r) THEN {}
       ELSE (IF Begins(r) THEN {} ELSE up[r]) \cup {a \in Accounts : ~Blocked(a)'}]
  /\ crossed' = {r \in Requests :
       pc'[r] = "auth" /\ (r \in crossed \/ \E q \in Requests : BothAwait(r, q)')}

RequestStep(r) ==
  \/ Arrive(r) \/ Scan(r) \/ Weigh(r) \/ AuthResolved(r) \/ AuthFailed(r)
  \/ ObserveHeaders(r) \/ StreamServes(r) \/ StreamFails(r) \/ StreamTransient(r)
  \/ StreamLimited(r) \/ MarkLimited(r) \/ AnswerExhausted(r)
RefreshStep(a) == RefreshAnswered(a) \/ RefreshFailed(a) \/ RefreshEmpty(a)
Step == Tick \/ (\E r \in Requests : RequestStep(r)) \/ (\E a \in Accounts : RefreshStep(a))

Next == Step /\ History
Spec == Init /\ [][Next]_vars

\* Scheduling: a microtask runs before the event loop polls again, and the loop
\* delivers every completed I/O however often others are served first.
Progress(r) ==
  \/ Scan(r) \/ Weigh(r) \/ MarkLimited(r) \/ AnswerExhausted(r)
Completion(r) ==
  \/ AuthResolved(r) \/ AuthFailed(r)
  \/ StreamServes(r) \/ StreamFails(r) \/ StreamTransient(r) \/ StreamLimited(r)
Fairness ==
  /\ \A r \in Requests : WF_vars(Progress(r) /\ History) /\ SF_vars(Completion(r) /\ History)
  /\ \A a \in Accounts : SF_vars(RefreshStep(a) /\ History)
FairSpec == Spec /\ Fairness

-----------------------------------------------------------------------------
(***************************************************************************)
(* Properties.                                                             *)
(***************************************************************************)
PoolTypeOK ==
  /\ now \in Nat
  /\ limitedUntil \in [Accounts -> Nat] /\ transientUntil \in [Accounts -> Nat]
  /\ authFailedUntil \in [Accounts -> Nat] /\ usageFailedUntil \in [Accounts -> Nat]
  /\ snapshot \in [Accounts -> Snapshot]
  /\ refreshing \in SUBSET Accounts
  /\ sessions \in [Sessions -> [index: 0..N, lastUsed: Nat]]
RequestTypeOK ==
  /\ pc \in [Requests -> Ready \cup Suspended]
  /\ tried \in [Requests -> SUBSET Accounts] /\ eligible \in [Requests -> SUBSET Accounts]
  /\ cursor \in [Requests -> Accounts]
  /\ sticky \in [Requests -> 0..N] /\ chosen \in [Requests -> 0..N]
  /\ limit \in [Requests -> [at: Nat, reset: Nat]]
  \* A request that has picked an account holds one.
  /\ \A r \in Requests : pc[r] \in {"auth", "stream", "limiting", "limited"} =>
       chosen[r] \in Accounts
HistoryTypeOK ==
  /\ calls \in [Requests -> Nat]
  /\ down \in [Requests -> SUBSET Accounts] /\ up \in [Requests -> SUBSET Accounts]
  /\ crossed \in SUBSET Requests

\* Type correctness.
TypeOK == PoolTypeOK /\ RequestTypeOK /\ HistoryTypeOK

\* A client is only told "no account" when every account was tried by this
\* request or was blocked at some moment of the selection that gave up.  Weights
\* are read one account at a time, across awaits of the usage endpoint.
NoFalseExhaustion ==
  \A r \in Requests : pc[r] = "exhausted" => Accounts \subseteq tried[r] \cup down[r]

\* A request is only sent to an account that was usable at some moment of that
\* selection, although weights are read before other accounts' usage reports
\* and the credentials are awaited.
OfferedWasUsable ==
  \A r \in Requests : pc[r] = "auth" => eligible[r] \subseteq up[r]

\* handleMessages never sends one request to the same account twice, so its
\* retry loop ends.
NoRepeatedAttempt ==
  \A r \in Requests :
    /\ eligible[r] \cap tried[r] = {}
    /\ pc[r] = "auth" => chosen[r] \in eligible[r]

\* Nobody waits on a refresh that is not under way: `account.refresh` is cleared
\* in a finally block while several selects and markLimiteds may await it.
NoLostWakeup ==
  \A r \in Requests :
    /\ pc[r] = "usage" => cursor[r] \in refreshing
    /\ pc[r] = "limiting" => chosen[r] \in refreshing

\* A step that takes a session from an account to which a live binding holds it,
\* to another one.
Moves(k) ==
  /\ sessions[k].index # NoAccount
  /\ sessions[k].lastUsed + StickyTtl > now
  /\ sessions'[k].index \notin {sessions[k].index, NoAccount}
\* Request r binds session k, whose account it has failed on or found blocked.
LeavesForCause(r, k) ==
  /\ SessionOf[r] = k /\ pc[r] = "auth" /\ pc'[r] = "stream"
  /\ sessions[k].index \in tried[r] \cup down[r]
\* Request r binds session k, and has awaited credentials together with another
\* request of the session.
LeavesAcross(r, k) ==
  /\ SessionOf[r] = k /\ pc[r] = "auth" /\ pc'[r] = "stream"
  /\ r \in crossed

\* README: a session stays on its account while that account is available.  A
\* live binding moves only by a request that found the account blocked or has
\* already failed on it -- or that awaited credentials together with another
\* request of the session: each reads the binding before its await and writes it
\* after, so the later one moves the session, which the README does not say.
\* Nothing else does: neither requests that overlap elsewhere, nor usage reports,
\* limits and bindings that lapse in between.
SessionMovesForCause ==
  [][\A k \in Sessions :
       Moves(k) => \E r \in Requests : LeavesForCause(r, k) \/ LeavesAcross(r, k)]_vars

\* README: an account that reported a usage limit is unavailable until the reset
\* time.  A limit in force is never cut short.
LimitNeverShortened ==
  [][\A a \in Accounts : limitedUntil[a] > now => limitedUntil'[a] >= limitedUntil[a]]_vars

\* Every request that starts a selection is answered.
Answered == \A r \in Requests : (pc[r] = "scan") ~> (pc[r] = "idle")

-----------------------------------------------------------------------------
\* The pool and its loop implement the routing the proxy promises.
Phase(r) ==
  CASE pc[r] = "idle" -> "idle"
    [] pc[r] \in {"scan", "usage", "weigh", "auth"} -> "choosing"
    [] pc[r] \in {"stream", "limiting", "limited"} -> "upstream"
    [] pc[r] = "exhausted" -> "refused"
Routing == INSTANCE RequestRouting WITH
  phase <- [r \in Requests |-> Phase(r)], attempts <- tried, blocked <- down
ImplementsRouting == Routing!Spec
=============================================================================
