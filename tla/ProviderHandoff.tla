---------------------------- MODULE ProviderHandoff ----------------------------
(***************************************************************************)
(* One background job of patched Claude Code and the provider it runs      *)
(* with: the JavaScript that ccpatch/patches.py puts into the client that  *)
(* dispatches the job, into the daemon that starts and replaces its worker *)
(* process, and into that process (the 2.1.207 patch set).                 *)
(*                                                                         *)
(* The host is external, modelled from the places the patches meet.  A     *)
(* daemon outlives clients, and workers outlive daemons: a successor       *)
(* adopts the worker from a roster that holds no provider, and asks the    *)
(* worker for it over the rendezvous (RV) socket.  The first daemon may be *)
(* an unpatched one still running; its successors are patched.  What it    *)
(* starts is an unpatched process, or a patched one if the program on disk *)
(* was replaced since.                                                     *)
(*                                                                         *)
(* A provider environment maps the provider keys to values; other          *)
(* variables do not matter, nor does it when a variable is empty.  Null is *)
(* the code's null for a whole environment.  A nonce is named by the       *)
(* connection it was drawn for, so MACs and session ids match when nonces  *)
(* do.  Jobs that run a command (launch.mode "exec") have no provider to   *)
(* lose and are left out.                                                  *)
(*                                                                         *)
(* ReadAnyOk, AnswerFromProcess, AdoptForUpgrade and UnusableReplySilent   *)
(* are faulty variants.                                                    *)
(***************************************************************************)
EXTENDS Integers, FiniteSets

CONSTANTS
  Clients,      \* sessions that dispatch the job
  Keys,         \* the provider keys, _ccProviderKeys()
  Values, Unset,
  ClientEnv,    \* each client's environment
  Ambient,      \* the daemons' environment
  Settings,     \* provider keys in user or project settings
  Policies,     \* managed settings, one of which is in force
  Null,
  Versions,     \* the clients' protocol versions: 3, or 0 if unpatched
  MaxDispatches,  \* bound: dispatches
  MaxRestarts,  \* bound: daemons after the first
  MaxConnects   \* bound: RV connections

Envs == [Keys -> Values \cup {Unset}]
Partial == UNION {[K -> Values] : K \in SUBSET Keys}

ASSUME EnvAssumption ==
  /\ Unset \notin Values /\ Null \notin Envs /\ Null \notin Clients \X Nat
  /\ ClientEnv \in [Clients -> Envs] /\ Ambient \in Envs
  /\ Settings \in Partial /\ Policies \subseteq Partial
  /\ Versions \subseteq [Clients -> {0, 3}]
ASSUME BoundsAssumption == {MaxDispatches, MaxRestarts, MaxConnects} \subseteq Nat

VARIABLES
  policy, version,         \* managed settings; each client's protocol version
  client, socket, latest,  \* each client, its connection, its latest dispatch
  asked,                   \* dispatches so far
  daemon,                  \* "old", "new", "down"
  restarts,
  held,                    \* dispatches retained by the manager
  phase, owner, known,     \* the worker object: dispatch and providerEnv
  warned, auth, link, nonce,
  spare,                   \* environment of the prewarmed process
  stage, patched,          \* the worker process
  payload,                 \* its _ccProviderWorkerEnv
  env,                     \* its process.env
  conn,                    \* its current RV connection
  frames,                  \* on the RV socket
  served                   \* history: dispatches a patched daemon has started

asking == <<client, socket, latest, asked>>
manager == <<held, phase, owner, known, served>>
recovery == <<warned, auth, link, nonce>>
worker == <<stage, patched, payload, env>>
rv == <<conn, frames>>
machine == <<policy, version, daemon, restarts>>
vars == <<asking, manager, recovery, spare, worker, rv, machine>>

-----------------------------------------------------------------------------
(* Environments. *)

\* Object.assign for the keys that have a value.
Assign(e, values) ==
  [k \in Keys |->
     IF k \in DOMAIN values /\ values[k] # Unset THEN values[k] ELSE e[k]]

\* Every provider key deleted, then the retained values set: the worker's
\* environment as the daemon builds it, and as the worker applies it.
ApplyFinal(values) == Assign([k \in Keys |-> Unset], values)

\* _ccProviderValidateManaged throws.
Conflicts(values) == \E k \in DOMAIN policy : values[k] # policy[k]

\* What native settings put over environment e of a process with these
\* values: provider keys are filtered out unless they are managed.
WithSettings(e, values) ==
  IF values = Null THEN Assign(Assign(e, Settings), policy) ELSE Assign(e, policy)

-----------------------------------------------------------------------------
Init ==
  /\ policy \in Policies /\ version \in Versions
  /\ client = [c \in Clients |-> "idle"] /\ socket = [c \in Clients |-> "none"]
  /\ latest = [c \in Clients |-> 0] /\ asked = 0
  /\ daemon \in {"old", "new"} /\ restarts = 0
  /\ held = {} /\ phase = "none" /\ owner = Null /\ known = Null /\ served = {}
  /\ warned = FALSE /\ auth = "ok" /\ link = "down" /\ nonce = 0
  /\ spare = Null
  /\ stage = "none" /\ patched = TRUE /\ payload = Null /\ env = Ambient
  /\ conn = 0 /\ frames = {}

-----------------------------------------------------------------------------
(* The client. *)

\* A client's dispatches are told apart by their nonces.
Dispatches == Clients \X (1..MaxDispatches)
Current(c) == <<c, latest[c]>>

SocketTo(c, place) == socket' = [socket EXCEPT ![c] = place]
ClientTo(c, state) == client' = [client EXCEPT ![c] = state]

\* A dispatch, or another one after five seconds without an answer.
Ask(c) ==
  /\ client[c] \in {"idle", "asking"} /\ asked < MaxDispatches
  /\ asked' = asked + 1 /\ latest' = [latest EXCEPT ![c] = asked + 1]
  /\ ClientTo(c, "asking") /\ SocketTo(c, "sent")
  /\ UNCHANGED <<manager, recovery, spare, worker, rv, machine>>

GiveUp(c) ==
  /\ client[c] = "asking"
  /\ ClientTo(c, "failed") /\ SocketTo(c, "none")
  /\ UNCHANGED <<latest, asked, manager, recovery, spare, worker, rv, machine>>

ReadAnyOk(c) ==
  /\ client[c] = "asking" /\ socket[c] \in {"refused", "acked", "acked 3"}
  /\ ClientTo(c, IF socket[c] # "refused" THEN "ok" ELSE "failed")
  /\ SocketTo(c, "none")
  /\ UNCHANGED <<latest, asked, manager, recovery, spare, worker, rv, machine>>

\* A patched client takes an acknowledgement without its version for the
\* answer of a stale daemon.
Read(c) ==
  /\ client[c] = "asking" /\ socket[c] \in {"refused", "acked", "acked 3"}
  /\ ClientTo(c, IF socket[c] = "acked 3" \/ (socket[c] = "acked" /\ version[c] = 0)
                 THEN "ok" ELSE "failed")
  /\ SocketTo(c, "none")
  /\ UNCHANGED <<latest, asked, manager, recovery, spare, worker, rv, machine>>

-----------------------------------------------------------------------------
(* The daemon: dispatch. *)

\* case "dispatch".  The check looks at the request only, so it is as good
\* after the yield, at which the request of a client that has left is dropped.
Control(c) ==
  /\ daemon # "down" /\ socket[c] = "sent"
  /\ IF daemon = "new" /\ version[c] # 3
     THEN SocketTo(c, "refused") /\ UNCHANGED held
     ELSE SocketTo(c, "waiting") /\ held' = held \cup {Current(c)}
  /\ UNCHANGED <<client, latest, asked, phase, owner, known, served, recovery, spare, worker, rv, machine>>

\* The manager makes a worker object, which is to claim the prewarmed process
\* or to spawn one.  While an earlier worker settles the dispatch waits, and
\* keeps its environment.
Manage(d) ==
  /\ d \in held /\ phase = "none"
  /\ held' = held \ {d} /\ owner' = d
  /\ known' = IF daemon = "new" THEN ClientEnv[d[1]] ELSE Null
  /\ served' = IF daemon = "new" THEN served \cup {d} ELSE served
  /\ phase' = IF spare # Null THEN "claiming" ELSE "spawning"
  /\ warned' = FALSE /\ auth' = "ok" /\ link' = "down" /\ nonce' = 0
  /\ UNCHANGED <<asking, spare, worker, rv, machine>>

\* External: the job runs, or has not settled after the last retry.
Drop(d) ==
  /\ d \in held /\ phase # "none"
  /\ held' = held \ {d}
  /\ UNCHANGED <<asking, phase, owner, known, served, recovery, spare, worker, rv, machine>>

Acknowledge(c) ==
  /\ daemon # "down" /\ socket[c] = "waiting"
  /\ phase = "running" /\ owner = Current(c)
  /\ SocketTo(c, IF daemon = "new" THEN "acked 3" ELSE "acked")
  /\ UNCHANGED <<client, latest, asked, manager, recovery, spare, worker, rv, machine>>

-----------------------------------------------------------------------------
(* The daemon: the worker's process. *)

\* _ccProviderBlocked.
Blocked == daemon = "new" /\ known = Null

\* The programs a daemon may start.
Builds == IF daemon = "new" THEN {TRUE} ELSE BOOLEAN
\* The environment a daemon builds for its worker.
Built == IF known = Null THEN Ambient ELSE ApplyFinal(known)

StartSpare ==
  /\ daemon # "down" /\ spare = Null
  /\ spare' = Ambient
  /\ UNCHANGED <<asking, manager, recovery, worker, rv, machine>>

\* Until it is claimed, a prewarmed process applies settings unfiltered.
SpareSettings ==
  /\ spare # Null
  /\ spare' = WithSettings(spare, Null)
  /\ UNCHANGED <<asking, manager, recovery, worker, rv, machine>>

\* The claim frame reaches the prewarmed process.
Claim ==
  /\ phase = "claiming"
  /\ phase' = "running" /\ stage' = "loading" /\ patched' \in Builds
  /\ payload' = known /\ env' = Assign(spare, Built) /\ spare' = Null
  /\ UNCHANGED <<asking, held, owner, known, served, recovery, rv, machine>>

\* doSpawn; the PTY host between daemon and worker leaves the transport alone.
Spawn ==
  /\ phase = "spawning" /\ ~ Blocked
  /\ phase' = "running" /\ stage' = "loading" /\ patched' \in Builds
  /\ payload' = known /\ env' = Built
  /\ UNCHANGED <<asking, held, owner, known, served, recovery, spare, rv, machine>>

\* Replaced while it lives: idle and stale, rejected credentials, or a stalled
\* attachment.
Replace ==
  /\ daemon = "new" /\ phase = "running" /\ ~ Blocked
  /\ phase' = "upgrading"
  /\ UNCHANGED <<asking, held, owner, known, served, recovery, spare, worker, rv, machine>>

Retire ==
  /\ daemon = "new" /\ phase = "running" /\ ~ Blocked
  /\ phase' = "retiring"
  /\ UNCHANGED <<asking, held, owner, known, served, recovery, spare, worker, rv, machine>>

\* _ccProviderBlocked warns where it forbids one of these.
WarnBlocked ==
  /\ phase = "running" /\ Blocked
  /\ warned' = TRUE
  /\ UNCHANGED <<asking, manager, auth, link, nonce, spare, worker, rv, machine>>

\* onExit, settle, clearLiveness.
Exit ==
  /\ stage # "none"
  /\ stage' = "none"
  /\ phase' \in IF daemon = "down" \/ phase = "retiring" \/ Blocked THEN {"none"}
                ELSE IF phase = "upgrading" THEN {"spawning"}
                ELSE {"spawning", "none"}
  /\ warned' = (warned \/ (Blocked /\ phase # "retiring"))
  /\ link' = "down" /\ nonce' = 0
  /\ patched' = TRUE /\ payload' = Null /\ env' = Ambient /\ conn' = 0 /\ frames' = {}
  /\ UNCHANGED <<asking, held, owner, known, served, auth, spare, machine>>

-----------------------------------------------------------------------------
(* The worker process. *)

\* Native settings are applied, at first before anything uses the provider:
\* _ccProviderInitialize, and the filtered settings.  A conflict with the
\* managed settings or a missing payload ends the process.
ApplySettings ==
  /\ stage # "none" /\ patched
  /\ payload # Null /\ ~ Conflicts(payload)
  /\ stage' = "up"
  /\ env' = WithSettings(IF stage = "loading" THEN ApplyFinal(payload) ELSE env, payload)
  /\ UNCHANGED <<asking, manager, recovery, spare, patched, payload, rv, machine>>

ApplyUnpatched ==
  /\ stage = "loading" /\ ~ patched
  /\ stage' = "up" /\ env' = WithSettings(env, Null)
  /\ UNCHANGED <<asking, manager, recovery, spare, patched, payload, rv, machine>>

-----------------------------------------------------------------------------
(* Daemons come and go. *)

Stop ==
  /\ daemon # "down" /\ restarts < MaxRestarts
  /\ daemon' = "down" /\ held' = {} /\ phase' = "none" /\ known' = Null /\ spare' = Null
  /\ socket' = [c \in Clients |-> "none"]
  /\ warned' = FALSE /\ link' = "down" /\ nonce' = 0
  /\ frames' = {f \in frames : f.type = "request"}
  /\ UNCHANGED <<client, latest, asked, owner, served, auth, worker, conn, policy, version, restarts>>

AdoptForUpgrade(pending) == IF pending THEN "upgrading" ELSE "running"
\* adopt: an upgrade the last daemon began is not resumed.
Adopt(pending) == IF pending /\ known # Null THEN "upgrading" ELSE "running"

\* A live worker is adopted from the roster, with the socket secret there.
Start ==
  /\ daemon = "down"
  /\ daemon' = "new" /\ restarts' = restarts + 1
  /\ auth' \in {"ok", "none", "wrong"}
  /\ \E pending \in BOOLEAN :
       IF stage = "none" THEN phase' = "none" /\ UNCHANGED warned
       ELSE phase' = Adopt(pending) /\ warned' = pending
  /\ UNCHANGED <<asking, held, owner, known, served, link, nonce, spare, worker, rv, policy, version>>

-----------------------------------------------------------------------------
(* The provider is recovered over the RV socket. *)

Request(n) == [type |-> "request", nonce |-> n]
Reply(n, values) == [type |-> "reply", nonce |-> n, payload |-> values]

\* connectRv, and the microtask that asks.
Connect ==
  /\ daemon = "new" /\ phase = "running" /\ stage # "none"
  /\ link = "down" /\ conn < MaxConnects
  /\ link' = "up" /\ conn' = conn + 1
  /\ IF Blocked /\ auth # "none"
     THEN nonce' = conn + 1 /\ frames' = frames \cup {Request(conn + 1)}
     ELSE nonce' = 0 /\ UNCHANGED frames
  /\ warned' = (warned \/ (Blocked /\ auth = "none"))
  /\ UNCHANGED <<asking, manager, auth, spare, worker, machine>>

\* What is under way is lost or arrives late.
Disconnect ==
  /\ link = "up"
  /\ link' = "down" /\ nonce' = 0
  /\ frames' \in SUBSET frames
  /\ UNCHANGED <<asking, manager, warned, auth, spare, worker, conn, machine>>

AnswerFromProcess(n) ==
  /\ Request(n) \in frames /\ stage # "none"
  /\ frames' = (frames \ {Request(n)})
       \cup IF patched /\ n = conn /\ auth = "ok" /\ daemon = "new" THEN {Reply(n, env)} ELSE {}
  /\ UNCHANGED <<asking, manager, recovery, spare, worker, conn, machine>>

\* The worker answers on its present socket what came from there with the
\* right secret.
Answer(n) ==
  /\ Request(n) \in frames /\ stage # "none"
  /\ frames' = (frames \ {Request(n)})
       \cup IF patched /\ n = conn /\ auth = "ok" /\ daemon = "new" THEN {Reply(n, payload)} ELSE {}
  /\ UNCHANGED <<asking, manager, recovery, spare, worker, conn, machine>>

UnusableReplySilent(n) ==
  /\ Reply(n, Null) \in frames
  /\ frames' = frames \ {Reply(n, Null)}
  /\ nonce' = IF n = nonce THEN 0 ELSE nonce
  /\ UNCHANGED <<asking, manager, warned, auth, link, spare, worker, conn, machine>>

\* A worker without a payload: retaining it throws.
UnusableReply(n) ==
  /\ Reply(n, Null) \in frames
  /\ frames' = frames \ {Reply(n, Null)}
  /\ nonce' = IF n = nonce THEN 0 ELSE nonce
  /\ warned' = (warned \/ n = nonce)
  /\ UNCHANGED <<asking, manager, auth, link, spare, worker, conn, machine>>

\* A reply to another nonce is ignored.
Learn(n, values) ==
  /\ Reply(n, values) \in frames /\ values # Null
  /\ frames' = frames \ {Reply(n, values)}
  /\ nonce' = IF n = nonce THEN 0 ELSE nonce
  /\ known' = IF n = nonce THEN values ELSE known
  /\ UNCHANGED <<asking, held, phase, owner, served, warned, auth, link, spare, worker, conn, machine>>

\* Five seconds.
TimeOut ==
  /\ nonce # 0
  /\ nonce' = 0 /\ warned' = TRUE
  /\ UNCHANGED <<asking, manager, auth, link, spare, worker, rv, machine>>

-----------------------------------------------------------------------------
Dispatch ==
  \/ \E c \in Clients : Ask(c) \/ GiveUp(c) \/ Read(c) \/ Control(c) \/ Acknowledge(c)
  \/ \E d \in Dispatches : Manage(d) \/ Drop(d)
Process == StartSpare \/ SpareSettings \/ Claim \/ Spawn \/ ApplySettings \/ ApplyUnpatched \/ Exit
Supervise == Replace \/ Retire \/ WarnBlocked \/ Stop \/ Start
Recover ==
  \/ Connect \/ Disconnect \/ TimeOut
  \/ \E n \in 1..MaxConnects : Answer(n) \/ UnusableReply(n)
  \/ \E f \in frames : f.type = "reply" /\ Learn(f.nonce, f.payload)
Next == Dispatch \/ Process \/ Supervise \/ Recover

Spec == Init /\ [][Next]_vars
\* The timer fires.
FairSpec == Spec /\ WF_vars(TimeOut)

-----------------------------------------------------------------------------
(* Properties. *)

DispatchTypes ==
  /\ policy \in Policies /\ version \in Versions
  /\ client \in [Clients -> {"idle", "asking", "ok", "failed"}]
  /\ socket \in [Clients -> {"none", "sent", "waiting", "refused", "acked", "acked 3"}]
  /\ latest \in [Clients -> 0..MaxDispatches] /\ asked \in 0..MaxDispatches
  /\ daemon \in {"old", "new", "down"} /\ restarts \in 0..MaxRestarts
  /\ held \subseteq Dispatches /\ served \subseteq Dispatches
  /\ phase \in {"none", "claiming", "spawning", "running", "upgrading", "retiring"}
  /\ owner \in Dispatches \cup {Null} /\ known \in Envs \cup {Null}
WorkerTypes ==
  /\ spare \in Envs \cup {Null}
  /\ stage \in {"none", "loading", "up"} /\ patched \in BOOLEAN
  /\ payload \in Envs \cup {Null} /\ env \in Envs
Frames ==
  [type : {"request"}, nonce : 1..MaxConnects]
    \cup [type : {"reply"}, nonce : 1..MaxConnects, payload : Envs \cup {Null}]
RecoveryTypes ==
  /\ warned \in BOOLEAN /\ auth \in {"ok", "none", "wrong"} /\ link \in {"down", "up"}
  /\ conn \in 0..MaxConnects /\ frames \subseteq Frames
  /\ nonce \in {0, conn} /\ (nonce # 0 => link = "up")

\* Type invariant.  A nonce is that of the connection the daemon has: none
\* outlives a disconnection, an exit or the daemon.
TypeOK == DispatchTypes /\ WorkerTypes /\ RecoveryTypes

\* A patched worker that works uses the provider of the client that dispatched
\* the job, all of it and nothing else: whether it was prewarmed under another
\* environment, respawned, replaced by a later daemon from what the worker
\* handed over, or had settings applied again.  Where that provider conflicts
\* with managed settings, the worker does not work.
OwnProvider ==
  stage = "up" /\ patched => env = ClientEnv[owner[1]]

\* A patched client is told that its job was started only if a patched daemon
\* started it with the client's provider, although an unpatched daemon starts
\* the job too, with its own, and answers.
AckTruthful ==
  \A c \in Clients : client[c] = "ok" /\ version[c] = 3 => Current(c) \in served

\* A daemon ends a live session only when it could start it again with its
\* provider; an adopted one whose provider is unknown is retained.
SessionRetained ==
  daemon = "new" /\ phase \in {"upgrading", "retiring"} => known # Null

\* While a daemon stays connected to an adopted worker it learns the provider
\* or says that it cannot: no wrong, missing or late reply leaves it waiting.
Resolved ==
  (link = "up" /\ known = Null) ~> (known # Null \/ warned \/ link = "down")
=============================================================================
