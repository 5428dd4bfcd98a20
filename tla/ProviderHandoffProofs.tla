------------------------- MODULE ProviderHandoffProofs -------------------------
(***************************************************************************)
(* Theorems about ProviderHandoff, for any clients, keys, values, managed  *)
(* settings and bounds.                                                    *)
(***************************************************************************)
EXTENDS ProviderHandoff, TLAPS

-----------------------------------------------------------------------------
(* Environments. *)

LEMMA AssignType ==
  ASSUME NEW e \in Envs, NEW values \in Envs \cup Partial
  PROVE  Assign(e, values) \in Envs
<1>1. ASSUME NEW k \in Keys
      PROVE  (IF k \in DOMAIN values /\ values[k] # Unset THEN values[k] ELSE e[k])
               \in Values \cup {Unset}
  <2>1. e[k] \in Values \cup {Unset}  BY DEF Envs
  <2>2. CASE values \in Envs  BY <2>1, <2>2 DEF Envs
  <2>3. CASE values \in Partial
    <3>1. PICK K \in SUBSET Keys : values \in [K -> Values]  BY <2>3 DEF Partial
    <3> QED  BY <2>1, <3>1
  <2> QED  BY <2>2, <2>3
<1> QED  BY <1>1 DEF Assign, Envs

LEMMA ApplyFinalType ==
  ASSUME NEW values \in Envs
  PROVE  ApplyFinal(values) \in Envs
<1>1. [k \in Keys |-> Unset] \in Envs  BY DEF Envs
<1> QED  BY <1>1, AssignType DEF ApplyFinal

\* An environment applied in full is that environment.
LEMMA ApplyFinalIs ==
  ASSUME NEW values \in Envs
  PROVE  ApplyFinal(values) = values
<1>1. values = [k \in Keys |-> values[k]] /\ DOMAIN values = Keys  BY DEF Envs
<1>2. ASSUME NEW k \in Keys
      PROVE  (IF k \in DOMAIN values /\ values[k] # Unset THEN values[k]
              ELSE [i \in Keys |-> Unset][k]) = values[k]
  BY <1>1
<1> QED  BY <1>1, <1>2 DEF ApplyFinal, Assign

\* Managed settings that agree with an environment leave it alone.
LEMMA PolicyLeavesAlone ==
  ASSUME NEW values \in Envs, ~ Conflicts(values)
  PROVE  Assign(values, policy) = values
<1>1. values = [k \in Keys |-> values[k]]  BY DEF Envs
<1>2. ASSUME NEW k \in Keys
      PROVE  (IF k \in DOMAIN policy /\ policy[k] # Unset THEN policy[k] ELSE values[k]) = values[k]
  BY DEF Conflicts
<1> QED  BY <1>1, <1>2 DEF Assign

LEMMA WithSettingsType ==
  ASSUME NEW e \in Envs, NEW values \in Envs \cup {Null}, policy \in Policies
  PROVE  WithSettings(e, values) \in Envs
<1>1. policy \in Partial /\ Settings \in Partial  BY EnvAssumption
<1>2. Assign(e, Settings) \in Envs  BY <1>1, AssignType
<1> QED  BY <1>1, <1>2, AssignType DEF WithSettings

LEMMA BuiltType ==
  ASSUME known \in Envs \cup {Null}
  PROVE  Built \in Envs
BY EnvAssumption, ApplyFinalType DEF Built

-----------------------------------------------------------------------------
(* Types.  What a client awaits it has asked for, so it has a nonce; a worker *)
(* object that is to claim a prewarmed process has one; a daemon is succeeded. *)

Asked ==
  \A c \in Clients : latest[c] <= asked /\ (socket[c] = "sent" => latest[c] >= 1)

Underway ==
  /\ phase = "claiming" => spare # Null
  /\ daemon = "down" => restarts < MaxRestarts

Typed == TypeOK /\ Asked /\ Underway

LEMMA BoundsNat == MaxDispatches \in Nat /\ MaxRestarts \in Nat /\ MaxConnects \in Nat
BY BoundsAssumption

LEMMA InitTyped == Init => Typed
<1> SUFFICES ASSUME Init PROVE Typed  OBVIOUS
<1> USE EnvAssumption, BoundsNat
<1>1. DispatchTypes  BY DEF Init, DispatchTypes
<1>2. WorkerTypes  BY DEF Init, WorkerTypes
<1>3. RecoveryTypes
  <2>1. conn = 0 /\ nonce = 0 /\ frames = {}  BY DEF Init
  <2>2. warned = FALSE /\ auth = "ok" /\ link = "down"  BY DEF Init
  <2>3. conn \in 0..MaxConnects  BY <2>1, BoundsNat
  <2>4. frames \subseteq Frames  BY <2>1
  <2> HIDE EnvAssumption, BoundsNat
  <2> QED  BY <2>1, <2>2, <2>3, <2>4 DEF RecoveryTypes
<1>4. Asked  BY DEF Init, Asked
<1>5. Underway  BY DEF Init, Underway
<1> QED  BY <1>1, <1>2, <1>3, <1>4, <1>5 DEF Typed, TypeOK

LEMMA AskedFacts ==
  ASSUME Typed, NEW c \in Clients
  PROVE  /\ asked \in 0..MaxDispatches /\ latest[c] \in 0..MaxDispatches
         /\ latest[c] <= asked /\ (socket[c] = "sent" => latest[c] >= 1)
BY DEF Typed, TypeOK, DispatchTypes, Asked

LEMMA AskTyped ==
  ASSUME Typed, NEW c \in Clients, Ask(c)
  PROVE  (DispatchTypes /\ Asked)'
<1>1. /\ asked < MaxDispatches /\ asked' = asked + 1
      /\ client' = [client EXCEPT ![c] = "asking"]
      /\ socket' = [socket EXCEPT ![c] = "sent"]
      /\ latest' = [latest EXCEPT ![c] = asked + 1]
  BY DEF Ask, ClientTo, SocketTo
<1>2. asked + 1 \in 0..MaxDispatches  BY <1>1, AskedFacts, BoundsNat
<1>3. /\ latest \in [Clients -> 0..MaxDispatches]
      /\ socket \in [Clients -> {"none", "sent", "waiting", "refused", "acked", "acked 3"}]
  BY DEF Typed, TypeOK, DispatchTypes
<1>4. latest' \in [Clients -> 0..MaxDispatches] /\ asked' \in 0..MaxDispatches
  BY <1>1, <1>2, <1>3
<1>5. DispatchTypes'  BY <1>1, <1>4 DEF Ask, Typed, TypeOK, DispatchTypes, manager, machine
<1>6. ASSUME NEW i \in Clients
      PROVE  latest'[i] <= asked' /\ (socket'[i] = "sent" => latest'[i] >= 1)
  <2>1. CASE i = c
    <3>1. latest'[i] = asked + 1  BY <1>1, <1>3, <2>1
    <3> QED  BY <1>1, <1>2, <3>1, AskedFacts, BoundsNat
  <2>2. CASE i # c
    <3>1. latest'[i] = latest[i] /\ socket'[i] = socket[i]  BY <1>1, <1>3, <2>2
    <3> QED  BY <1>1, <3>1, AskedFacts, BoundsNat
  <2> QED  BY <2>1, <2>2
<1> QED  BY <1>5, <1>6 DEF Asked

LEMMA DispatchTyped ==
  ASSUME Typed, Dispatch
  PROVE  Typed'
<1> USE EnvAssumption, BoundsNat DEF Typed, TypeOK, DispatchTypes, Asked, asking, manager, machine
<1>1. WorkerTypes'
  BY DEF Dispatch, Ask, GiveUp, Read, Control, Acknowledge, Manage, Drop, WorkerTypes, worker
<1>2. RecoveryTypes'
  <2>1. rv' = rv /\ (recovery' = recovery \/ recovery' = <<FALSE, "ok", "down", 0>>)
    BY DEF Dispatch, Ask, GiveUp, Read, Control, Acknowledge, Manage, Drop, recovery
  <2>2. RecoveryTypes  OBVIOUS
  <2> QED  BY <2>1, <2>2 DEF RecoveryTypes, recovery, rv
<1>3. ASSUME NEW c \in Clients, Ask(c) PROVE (DispatchTypes /\ Asked)'
  BY <1>3, AskTyped
<1>4. ASSUME NEW c \in Clients, GiveUp(c) PROVE (DispatchTypes /\ Asked)'
  BY <1>4 DEF GiveUp, ClientTo, SocketTo
<1>5. ASSUME NEW c \in Clients, Read(c) PROVE (DispatchTypes /\ Asked)'
  BY <1>5 DEF Read, ClientTo, SocketTo
<1>6. ASSUME NEW c \in Clients, Control(c) PROVE (DispatchTypes /\ Asked)'
  <2>1. latest[c] \in 1..MaxDispatches
    <3>1. socket[c] = "sent"  BY <1>6 DEF Control
    <3> HIDE DEF Typed, TypeOK, DispatchTypes, Asked
    <3> QED  BY <3>1, AskedFacts, BoundsNat
  <2>2. Current(c) \in Dispatches  BY <2>1 DEF Current, Dispatches
  <2> QED  BY <1>6, <2>2 DEF Control, SocketTo
<1>7. ASSUME NEW c \in Clients, Acknowledge(c) PROVE (DispatchTypes /\ Asked)'
  BY <1>7 DEF Acknowledge, SocketTo
<1>8. ASSUME NEW d \in Dispatches, Manage(d) PROVE (DispatchTypes /\ Asked)'
  <2>1. ClientEnv[d[1]] \in Envs  BY DEF Dispatches
  <2> QED  BY <1>8, <2>1 DEF Manage
<1>9. ASSUME NEW d \in Dispatches, Drop(d) PROVE (DispatchTypes /\ Asked)'
  BY <1>9 DEF Drop
<1>10. Underway'
  BY DEF Underway, Dispatch, Ask, GiveUp, Read, Control, Acknowledge, Manage, Drop
<1> QED  BY <1>1, <1>2, <1>3, <1>4, <1>5, <1>6, <1>7, <1>8, <1>9, <1>10 DEF Dispatch

LEMMA ProcessTyped ==
  ASSUME Typed, Process
  PROVE  Typed'
<1>1. Asked'
  BY DEF Typed, Asked, Process, StartSpare, SpareSettings, Claim, Spawn, ApplySettings,
         ApplyUnpatched, Exit, asking
<1>2. DispatchTypes'
  BY DEF Typed, TypeOK, DispatchTypes, Process, StartSpare, SpareSettings, Claim, Spawn,
         ApplySettings, ApplyUnpatched, Exit, asking, manager, machine
<1>3. RecoveryTypes'
  <2>1. CASE Exit
    BY <2>1, BoundsNat DEF Typed, TypeOK, RecoveryTypes, Exit
  <2>2. CASE ~ Exit
    BY <2>2 DEF Typed, TypeOK, RecoveryTypes, Process, StartSpare, SpareSettings, Claim,
         Spawn, ApplySettings, ApplyUnpatched, recovery, rv
  <2> QED  BY <2>1, <2>2
<1>4. WorkerTypes'
  <2> USE DEF WorkerTypes
  <2>1. /\ WorkerTypes /\ known \in Envs \cup {Null} /\ policy \in Policies /\ Ambient \in Envs
        /\ Builds \subseteq BOOLEAN /\ Built \in Envs
    BY BuiltType, EnvAssumption DEF Typed, TypeOK, DispatchTypes, Builds
  <2>2. CASE StartSpare  BY <2>1, <2>2 DEF StartSpare, worker
  <2>3. CASE SpareSettings
    <3>1. WithSettings(spare, Null) \in Envs  BY <2>1, <2>3, WithSettingsType DEF SpareSettings
    <3> QED  BY <2>1, <2>3, <3>1 DEF SpareSettings, worker
  <2>4. CASE Claim
    <3>1. Assign(Ambient, Built) \in Envs  BY <2>1, AssignType
    <3>2. spare \in Envs => Assign(spare, Built) \in Envs  BY <2>1, AssignType
    <3>3. spare # Null  BY <2>4 DEF Claim, Typed, Underway
    <3> QED  BY <2>1, <2>4, <3>2, <3>3 DEF Claim
  <2>5. CASE Spawn  BY <2>1, <2>5 DEF Spawn
  <2>6. CASE ApplySettings
    <3>1. payload \in Envs  BY <2>1, <2>6 DEF ApplySettings
    <3>2. (IF stage = "loading" THEN ApplyFinal(payload) ELSE env) \in Envs
      BY <2>1, <3>1, ApplyFinalType
    <3>3. env' \in Envs  BY <2>1, <2>6, <3>1, <3>2, WithSettingsType DEF ApplySettings
    <3> QED  BY <2>1, <2>6, <3>3 DEF ApplySettings
  <2>7. CASE ApplyUnpatched
    <3>1. env' \in Envs  BY <2>1, <2>7, WithSettingsType DEF ApplyUnpatched
    <3> QED  BY <2>1, <2>7, <3>1 DEF ApplyUnpatched
  <2>8. CASE Exit  BY <2>1, <2>8 DEF Exit
  <2> QED  BY <2>2, <2>3, <2>4, <2>5, <2>6, <2>7, <2>8 DEF Process
<1>5. Underway'
  <2>1. spare' # spare => phase' # "claiming" \/ spare' \in Envs
    <3>1. SpareSettings => spare' \in Envs
      <4>1. spare # Null => WithSettings(spare, Null) \in Envs
        BY WithSettingsType DEF Typed, TypeOK, WorkerTypes, DispatchTypes
      <4> QED  BY <4>1 DEF SpareSettings
    <3>2. StartSpare => spare' \in Envs  BY EnvAssumption DEF StartSpare
    <3> QED  BY <3>1, <3>2 DEF Process, Claim, Spawn, ApplySettings, ApplyUnpatched, Exit
  <2>2. phase' = "claiming" => phase = "claiming"
    BY DEF Process, StartSpare, SpareSettings, Claim, Spawn, ApplySettings, ApplyUnpatched, Exit, manager
  <2>3. UNCHANGED <<daemon, restarts>>
    BY DEF Process, StartSpare, SpareSettings, Claim, Spawn, ApplySettings, ApplyUnpatched, Exit, machine
  <2> QED  BY <2>1, <2>2, <2>3, EnvAssumption DEF Typed, Underway
<1> QED  BY <1>1, <1>2, <1>3, <1>4, <1>5 DEF Typed, TypeOK

LEMMA StartTyped ==
  ASSUME Typed, Start
  PROVE  restarts' \in 0..MaxRestarts
<1>1. restarts < MaxRestarts /\ restarts' = restarts + 1  BY DEF Start, Typed, Underway
<1>2. restarts \in 0..MaxRestarts  BY DEF Typed, TypeOK, DispatchTypes
<1> QED  BY <1>1, <1>2, BoundsNat

LEMMA SuperviseTyped ==
  ASSUME Typed, Supervise
  PROVE  Typed'
<1>1. WorkerTypes'
  BY DEF Typed, TypeOK, WorkerTypes, Supervise, Replace, Retire, WarnBlocked, Stop, Start, worker
<1>2. Asked'
  BY DEF Typed, TypeOK, DispatchTypes, Asked, Supervise, Replace, Retire, WarnBlocked, Stop, Start, asking
<1>3. DispatchTypes'
  <2> USE DEF Typed, TypeOK, DispatchTypes, asking, manager, machine
  <2>1. CASE Replace  BY <2>1 DEF Replace
  <2>2. CASE Retire  BY <2>2 DEF Retire
  <2>3. CASE WarnBlocked  BY <2>3 DEF WarnBlocked
  <2>4. CASE Stop  BY <2>4 DEF Stop
  <2>5. CASE Start
    <3>1. \A pending \in BOOLEAN : Adopt(pending) \in {"running", "upgrading"}  BY DEF Adopt
    <3>2. phase' \in {"none", "running", "upgrading"}  BY <2>5, <3>1 DEF Start
    <3>3. restarts' \in 0..MaxRestarts  BY <2>5, StartTyped
    <3> QED  BY <2>5, <3>2, <3>3 DEF Start
  <2> QED  BY <2>1, <2>2, <2>3, <2>4, <2>5 DEF Supervise
<1>4. RecoveryTypes'
  BY DEF Typed, TypeOK, RecoveryTypes, Supervise, Replace, Retire, WarnBlocked, Stop, Start, recovery, rv
<1>5. Underway'
  BY DEF Typed, Underway, Supervise, Replace, Retire, WarnBlocked, Stop, Start, Adopt, manager, machine
<1> QED  BY <1>1, <1>2, <1>3, <1>4, <1>5 DEF Typed, TypeOK

LEMMA RecoverTyped ==
  ASSUME Typed, Recover
  PROVE  Typed'
<1>0. /\ WorkerTypes /\ RecoveryTypes /\ DispatchTypes /\ Asked /\ Underway  BY DEF Typed, TypeOK
<1>1. WorkerTypes'
  BY <1>0 DEF WorkerTypes, Recover, Connect, Disconnect, TimeOut, Answer, UnusableReply, Learn, worker
<1>2. Asked'
  BY <1>0 DEF Asked, Recover, Connect, Disconnect, TimeOut, Answer, UnusableReply, Learn, asking
<1>3. DispatchTypes'
  <2>1. CASE \E f \in frames : f.type = "reply" /\ Learn(f.nonce, f.payload)
    <3>1. PICK f \in frames : f.type = "reply" /\ Learn(f.nonce, f.payload)  BY <2>1
    <3>2. f.payload \in Envs  BY <1>0, <3>1 DEF RecoveryTypes, Frames, Learn
    <3>3. known' \in Envs \cup {Null}  BY <1>0, <3>1, <3>2 DEF Learn, DispatchTypes
    <3> QED  BY <1>0, <3>1, <3>3 DEF Learn, DispatchTypes, asking, machine
  <2>2. CASE Connect \/ Disconnect \/ TimeOut
             \/ \E n \in 1..MaxConnects : Answer(n) \/ UnusableReply(n)
    BY <1>0, <2>2 DEF DispatchTypes, Connect, Disconnect, TimeOut, Answer, UnusableReply,
         asking, manager, machine
  <2> QED  BY <2>1, <2>2 DEF Recover
<1>4. RecoveryTypes'
  <2> USE <1>0 DEF RecoveryTypes
  <2>1. CASE Connect
    <3>1. conn + 1 \in 1..MaxConnects /\ conn' = conn + 1 /\ link' = "up"  BY <2>1, BoundsNat DEF Connect
    <3>2. Request(conn + 1) \in Frames  BY <3>1 DEF Request, Frames
    <3>3. frames' \subseteq Frames /\ nonce' \in {0, conn'}  BY <2>1, <3>1, <3>2 DEF Connect
    <3> QED  BY <2>1, <3>1, <3>3 DEF Connect
  <2>2. CASE Disconnect  BY <2>2 DEF Disconnect
  <2>3. CASE TimeOut  BY <2>3 DEF TimeOut, rv
  <2>4. ASSUME NEW n \in 1..MaxConnects, Answer(n) PROVE RecoveryTypes'
    <3>1. Reply(n, payload) \in Frames  BY DEF Reply, Frames, WorkerTypes
    <3> QED  BY <2>4, <3>1 DEF Answer, recovery
  <2>5. ASSUME NEW n \in 1..MaxConnects, UnusableReply(n) PROVE RecoveryTypes'
    BY <2>5 DEF UnusableReply
  <2>6. ASSUME NEW f \in frames, Learn(f.nonce, f.payload) PROVE RecoveryTypes'
    BY <2>6 DEF Learn
  <2> QED  BY <2>1, <2>2, <2>3, <2>4, <2>5, <2>6 DEF Recover
<1>5. Underway'
  BY DEF Typed, Underway, Recover, Connect, Disconnect, TimeOut, Answer, UnusableReply, Learn, manager, machine
<1> QED  BY <1>1, <1>2, <1>3, <1>4, <1>5 DEF Typed, TypeOK

LEMMA NextTyped == Typed /\ [Next]_vars => Typed'
<1> SUFFICES ASSUME Typed, [Next]_vars PROVE Typed'  OBVIOUS
<1>1. CASE Next  BY <1>1, DispatchTyped, ProcessTyped, SuperviseTyped, RecoverTyped DEF Next
<1>2. CASE UNCHANGED vars
  <2>1. TypeOK'
    <3>1. DispatchTypes'
      BY <1>2 DEF vars, asking, manager, machine, Typed, TypeOK, DispatchTypes
    <3>2. WorkerTypes'  BY <1>2 DEF vars, worker, Typed, TypeOK, WorkerTypes
    <3>3. RecoveryTypes'  BY <1>2 DEF vars, recovery, rv, Typed, TypeOK, RecoveryTypes
    <3> QED  BY <3>1, <3>2, <3>3 DEF TypeOK
  <2>3. Underway'  BY <1>2 DEF vars, manager, machine, Typed, Underway
  <2>2. Asked'  BY <1>2 DEF vars, asking, Typed, Asked
  <2> QED  BY <2>1, <2>2, <2>3 DEF Typed
<1> QED  BY <1>1, <1>2

LEMMA TypedAlways == Spec => []Typed
BY InitTyped, NextTyped, PTL DEF Spec

\* Every state is well formed, and the nonce a daemon waits for is that of the
\* connection it has.
THEOREM TypeCorrect == Spec => []TypeOK
<1>1. Typed => TypeOK  BY DEF Typed
<1> QED  BY <1>1, TypedAlways, PTL

-----------------------------------------------------------------------------
(* The provider on its way.  Whatever the daemon, the worker and the replies *)
(* between them hold is the provider of the client that owns the job; and an *)
(* owner is replaced only when the worker and its socket have gone.          *)

Own == ClientEnv[owner[1]]

Carried ==
  /\ known \in {Null, Own} /\ payload \in {Null, Own}
  /\ \A f \in frames : f.type = "reply" => f.payload \in {Null, Own}
  /\ stage = "up" /\ patched => payload # Null /\ env = payload

Settled ==
  /\ phase = "none" => daemon = "down" \/ stage = "none"
  /\ daemon = "down" => held = {}
  /\ stage = "none" => frames = {} /\ payload = Null

ProviderInv == Carried /\ Settled

LEMMA InitProvider == Init => ProviderInv
BY DEF Init, ProviderInv, Carried, Settled

LEMMA DispatchCarries ==
  ASSUME Typed, ProviderInv, Dispatch
  PROVE  ProviderInv'
<1> USE DEF ProviderInv, Carried, Settled, Own
<1>1. ASSUME NEW c \in Clients, Ask(c) \/ GiveUp(c) \/ Read(c) \/ Control(c) \/ Acknowledge(c)
      PROVE  ProviderInv'
  <2>1. CASE Control(c)
    <3>1. daemon # "down" /\ UNCHANGED <<daemon, phase, owner, known, worker, rv>>
      BY <2>1 DEF Control, machine
    <3> QED  BY <3>1 DEF worker, rv
  <2>2. CASE Ask(c) \/ GiveUp(c) \/ Read(c) \/ Acknowledge(c)
    <3>1. UNCHANGED <<manager, worker, rv, machine>>
      BY <2>2 DEF Ask, GiveUp, Read, Acknowledge
    <3> QED  BY <3>1 DEF manager, worker, rv, machine
  <2> QED  BY <1>1, <2>1, <2>2
<1>2. ASSUME NEW d \in Dispatches, Manage(d) PROVE ProviderInv'
  <2>1. stage = "none" /\ frames = {} /\ payload = Null  BY <1>2 DEF Manage
  <2>2. owner' = d /\ known' \in {Null, ClientEnv[d[1]]}  BY <1>2 DEF Manage
  <2>3. phase' # "none" /\ daemon' = daemon /\ daemon # "down"  BY <1>2 DEF Manage, machine
  <2>4. UNCHANGED <<worker, rv>>  BY <1>2 DEF Manage
  <2> QED  BY <2>1, <2>2, <2>3, <2>4 DEF worker, rv
<1>3. ASSUME NEW d \in Dispatches, Drop(d) PROVE ProviderInv'
  BY <1>3 DEF Drop, worker, rv, machine
<1> QED  BY <1>1, <1>2, <1>3 DEF Dispatch

LEMMA ProcessCarries ==
  ASSUME Typed, ProviderInv, Process
  PROVE  ProviderInv'
<1> USE DEF ProviderInv, Carried, Settled, Own
<1>1. CASE StartSpare \/ SpareSettings
  BY <1>1 DEF StartSpare, SpareSettings, manager, worker, rv, machine
<1>2. CASE Claim  BY <1>2 DEF Claim, rv, machine
<1>3. CASE Spawn  BY <1>3 DEF Spawn, rv, machine
<1>4. CASE ApplySettings
  <2>1. payload \in Envs /\ ~ Conflicts(payload)
    BY <1>4 DEF ApplySettings, Typed, TypeOK, WorkerTypes
  <2>2. (IF stage = "loading" THEN ApplyFinal(payload) ELSE env) = payload
    <3>1. ApplyFinal(payload) = payload  BY <2>1, ApplyFinalIs
    <3>2. stage \in {"loading", "up"}
      BY <1>4 DEF ApplySettings, Typed, TypeOK, WorkerTypes
    <3> QED  BY <1>4, <3>1, <3>2 DEF ApplySettings
  <2>3. WithSettings(payload, payload) = payload
    BY <1>4, <2>1, PolicyLeavesAlone DEF WithSettings, ApplySettings
  <2>4. env' = payload  BY <1>4, <2>2, <2>3 DEF ApplySettings
  <2> QED  BY <1>4, <2>4 DEF ApplySettings, manager, rv, machine
<1>5. CASE ApplyUnpatched  BY <1>5 DEF ApplyUnpatched, manager, rv, machine
<1>6. CASE Exit  BY <1>6 DEF Exit, machine
<1> QED  BY <1>1, <1>2, <1>3, <1>4, <1>5, <1>6 DEF Process

LEMMA SuperviseCarries ==
  ASSUME Typed, ProviderInv, Supervise
  PROVE  ProviderInv'
<1> USE DEF ProviderInv, Carried, Settled, Own
<1>1. CASE Replace \/ Retire \/ WarnBlocked
  BY <1>1 DEF Replace, Retire, WarnBlocked, manager, worker, rv, machine
<1>2. CASE Stop  BY <1>2 DEF Stop, worker
<1>3. CASE Start
  <2>1. phase' = "none" => stage = "none"  BY <1>3 DEF Start, Adopt
  <2>2. daemon' = "new"  BY <1>3 DEF Start
  <2> QED  BY <1>3, <2>1, <2>2 DEF Start, worker, rv
<1> QED  BY <1>1, <1>2, <1>3 DEF Supervise

LEMMA RecoverCarries ==
  ASSUME Typed, ProviderInv, Recover
  PROVE  ProviderInv'
<1> USE DEF ProviderInv, Carried, Settled, Own
<1>1. CASE Connect
  BY <1>1 DEF Connect, Request, manager, worker, machine
<1>2. CASE Disconnect  BY <1>2 DEF Disconnect, manager, worker, machine
<1>3. CASE TimeOut  BY <1>3 DEF TimeOut, manager, worker, rv, machine
<1>4. ASSUME NEW n \in 1..MaxConnects, Answer(n) PROVE ProviderInv'
  BY <1>4 DEF Answer, Reply, manager, worker, machine
<1>5. ASSUME NEW n \in 1..MaxConnects, UnusableReply(n) PROVE ProviderInv'
  BY <1>5 DEF UnusableReply, manager, worker, machine
<1>6. ASSUME NEW f \in frames, f.type = "reply", Learn(f.nonce, f.payload) PROVE ProviderInv'
  BY <1>6 DEF Learn, worker, machine
<1> QED  BY <1>1, <1>2, <1>3, <1>4, <1>5, <1>6 DEF Recover

LEMMA ProviderAlways == Spec => []ProviderInv
<1>1. Typed /\ ProviderInv /\ [Next]_vars => ProviderInv'
  <2> SUFFICES ASSUME Typed, ProviderInv, [Next]_vars PROVE ProviderInv'  OBVIOUS
  <2>1. CASE Next
    BY <2>1, DispatchCarries, ProcessCarries, SuperviseCarries, RecoverCarries DEF Next
  <2>2. CASE UNCHANGED vars
    BY <2>2 DEF vars, manager, worker, rv, machine, ProviderInv, Carried, Settled, Own
  <2> QED  BY <2>1, <2>2
<1> QED  BY <1>1, InitProvider, TypedAlways, PTL DEF Spec

\* A patched worker that works has the environment of the client that
\* dispatched its job, through any number of respawns, restarts and repeated
\* settings, and whatever frames are lost or late.
THEOREM OwnProviderHolds == Spec => []OwnProvider
<1>1. ProviderInv => OwnProvider  BY DEF ProviderInv, Carried, Own, OwnProvider
<1> QED  BY <1>1, ProviderAlways, PTL

-----------------------------------------------------------------------------
(* An adopted session.  Only a daemon that knows the provider replaces the *)
(* worker, and it does not forget it while it runs.                        *)

LEMMA RetainedStep == SessionRetained /\ [Next]_vars => SessionRetained'
<1> SUFFICES ASSUME SessionRetained, [Next]_vars PROVE SessionRetained'  OBVIOUS
<1> USE DEF SessionRetained
<1>1. CASE Dispatch
  BY <1>1 DEF Dispatch, Ask, GiveUp, Read, Control, Acknowledge, Manage, Drop, manager, machine
<1>2. CASE Process
  BY <1>2 DEF Process, StartSpare, SpareSettings, Claim, Spawn, ApplySettings, ApplyUnpatched,
       Exit, manager, machine
<1>3. CASE Supervise
  BY <1>3 DEF Supervise, Replace, Retire, WarnBlocked, Stop, Start, Adopt, Blocked, manager, machine
<1>4. CASE Recover
  BY <1>4 DEF Recover, Connect, Disconnect, TimeOut, Answer, UnusableReply, Learn, manager, machine
<1>5. CASE UNCHANGED vars  BY <1>5 DEF vars, manager, machine
<1> QED  BY <1>1, <1>2, <1>3, <1>4, <1>5 DEF Next

\* No daemon ends a live session whose provider it could not restore.
THEOREM SessionRetainedHolds == Spec => []SessionRetained
<1>1. Init => SessionRetained  BY DEF Init, SessionRetained
<1> QED  BY <1>1, RetainedStep, PTL DEF Spec

-----------------------------------------------------------------------------
(* Acknowledgements.  A dispatch that a patched daemon has received, and that *)
(* owns the job, was started by that daemon: an owner from before its time is *)
(* not what a client still waits for, because sockets end with the daemon and *)
(* a later dispatch is a new one.                                             *)

Told(c) == socket[c] = "acked 3" \/ (client[c] = "ok" /\ version[c] = 3)

AckInv ==
  /\ owner \in Dispatches => owner[2] <= asked
  /\ \A d \in held : d[2] <= asked
  /\ \A c \in Clients : Told(c) => Current(c) \in served
  /\ \A c \in Clients :
       daemon # "old" /\ socket[c] \in {"sent", "waiting"} /\ owner = Current(c)
         => owner \in served

LEMMA InitAck == Init => AckInv
<1> SUFFICES ASSUME Init PROVE AckInv  OBVIOUS
<1>1. owner = Null /\ held = {} /\ asked = 0  BY DEF Init
<1>2. \A c \in Clients : socket[c] = "none" /\ client[c] = "idle"  BY DEF Init
<1>3. Null \notin Dispatches  BY EnvAssumption DEF Dispatches
<1> QED  BY <1>1, <1>2, <1>3 DEF AckInv, Told

LEMMA AskAcks ==
  ASSUME Typed, AckInv, NEW c \in Clients, Ask(c)
  PROVE  AckInv'
<1>1. /\ asked' = asked + 1 /\ latest' = [latest EXCEPT ![c] = asked + 1]
      /\ client' = [client EXCEPT ![c] = "asking"] /\ socket' = [socket EXCEPT ![c] = "sent"]
      /\ UNCHANGED <<held, owner, served, daemon, version>>
  BY DEF Ask, ClientTo, SocketTo, manager, machine
<1>2. /\ latest \in [Clients -> 0..MaxDispatches] /\ asked \in 0..MaxDispatches
      /\ held \subseteq Dispatches /\ DOMAIN client = Clients /\ DOMAIN socket = Clients
  BY DEF Typed, TypeOK, DispatchTypes
<1>3. asked + 1 \in 1..MaxDispatches  BY <1>1, <1>2, BoundsNat DEF Ask
<1>4. owner \in Dispatches => owner[2] <= asked'
  BY <1>1, <1>2, BoundsNat DEF AckInv, Dispatches
<1>5. \A d \in held : d[2] <= asked'  BY <1>1, <1>2, BoundsNat DEF AckInv, Dispatches
<1>6. Current(c)' = <<c, asked + 1>>  BY <1>1, <1>2 DEF Current
<1>7. Current(c)' # owner
  <2>1. Current(c)' \in Dispatches /\ Current(c)'[2] = asked + 1  BY <1>3, <1>6 DEF Dispatches
  <2>2. owner \in Dispatches => owner[2] <= asked  BY DEF AckInv
  <2>3. ~ (asked + 1 <= asked)  BY <1>2, BoundsNat
  <2> QED  BY <2>1, <2>2, <2>3
<1>8. ASSUME NEW i \in Clients
      PROVE  /\ Told(i)' => Current(i)' \in served'
             /\ (daemon' # "old" /\ socket'[i] \in {"sent", "waiting"} /\ owner' = Current(i)'
                  => owner' \in served')
  <2>1. CASE i = c  BY <1>1, <1>2, <1>7, <2>1 DEF Told
  <2>2. CASE i # c
    <3>1. /\ Current(i)' = Current(i) /\ socket'[i] = socket[i] /\ client'[i] = client[i]
          /\ version'[i] = version[i]
      BY <1>1, <1>2, <2>2 DEF Current
    <3> QED  BY <1>1, <3>1 DEF AckInv, Told
  <2> QED  BY <2>1, <2>2
<1> QED  BY <1>1, <1>4, <1>5, <1>8 DEF AckInv

\* A step of a client's that is not a new dispatch, and its daemon's answers.
LEMMA ConversationAcks ==
  ASSUME Typed, AckInv, NEW c \in Clients,
         GiveUp(c) \/ Read(c) \/ Control(c) \/ Acknowledge(c)
  PROVE  AckInv'
<1>1. /\ DOMAIN client = Clients /\ DOMAIN socket = Clients
      /\ latest \in [Clients -> 0..MaxDispatches] /\ asked \in 0..MaxDispatches
  BY DEF Typed, TypeOK, DispatchTypes
<1>2. UNCHANGED <<latest, asked, owner, served, daemon, version>>
  BY DEF GiveUp, Read, Control, Acknowledge, manager, machine
<1>3. \A i \in Clients : Current(i)' = Current(i)  BY <1>2 DEF Current
<1>4. \A i \in Clients \ {c} : socket'[i] = socket[i] /\ client'[i] = client[i]
  BY <1>1 DEF GiveUp, Read, Control, Acknowledge, SocketTo, ClientTo
<1>5. \A d \in held' : d[2] <= asked
  <2>1. held' \subseteq held \cup {Current(c)}
    <3>1. CASE Control(c)  BY <3>1 DEF Control
    <3>2. CASE GiveUp(c) \/ Read(c) \/ Acknowledge(c)
      BY <3>2 DEF GiveUp, Read, Acknowledge, manager
    <3> QED  BY <3>1, <3>2
  <2>2. Current(c)[2] <= asked
    <3>1. Current(c)[2] = latest[c]  BY DEF Current
    <3> QED  BY <3>1, AskedFacts
  <2> QED  BY <2>1, <2>2 DEF AckInv
<1>6. Told(c)' => Current(c) \in served
  <2>1. CASE GiveUp(c)  BY <1>1, <2>1 DEF GiveUp, ClientTo, SocketTo, Told
  <2>2. CASE Read(c)
    <3>1. socket'[c] = "none" /\ version' = version
      BY <1>1, <1>2, <2>2 DEF Read, SocketTo
    <3>2. client'[c] = "ok" => socket[c] = "acked 3" \/ version[c] = 0
      BY <1>1, <2>2 DEF Read, ClientTo
    <3>3. socket[c] = "acked 3" => Current(c) \in served  BY DEF Told, AckInv
    <3>4. version[c] = 0 => ~ Told(c)'  BY <3>1 DEF Told
    <3>5. Told(c)' => client'[c] = "ok"  BY <3>1 DEF Told
    <3> QED  BY <3>2, <3>3, <3>4, <3>5
  <2>3. CASE Control(c)  BY <1>1, <1>2, <2>3 DEF Control, SocketTo, Told, AckInv
  <2>4. CASE Acknowledge(c)
    BY <1>1, <1>2, <2>4 DEF Acknowledge, SocketTo, Told, AckInv
  <2> QED  BY <2>1, <2>2, <2>3, <2>4
<1>7. socket'[c] \in {"sent", "waiting"} => socket[c] \in {"sent", "waiting"}
  BY <1>1 DEF GiveUp, Read, Control, Acknowledge, SocketTo
<1>8. ASSUME NEW i \in Clients
      PROVE  /\ Told(i)' => Current(i) \in served
             /\ (daemon # "old" /\ socket'[i] \in {"sent", "waiting"} /\ owner = Current(i)
                  => owner \in served)
  <2>1. CASE i = c  BY <1>6, <1>7, <2>1 DEF AckInv
  <2>2. CASE i # c
    <3>1. Told(i)' = Told(i) /\ socket'[i] = socket[i]  BY <1>2, <1>4, <2>2 DEF Told
    <3> QED  BY <3>1 DEF AckInv
  <2> QED  BY <2>1, <2>2
<1> QED  BY <1>2, <1>3, <1>5, <1>8 DEF AckInv

LEMMA ManagerAcks ==
  ASSUME Typed, AckInv, Settled, NEW d \in Dispatches, Manage(d) \/ Drop(d)
  PROVE  AckInv'
<1>1. UNCHANGED <<client, socket, latest, asked, daemon, version>>
  BY DEF Manage, Drop, asking, machine
<1>2. \A i \in Clients : Current(i)' = Current(i) /\ Told(i)' = Told(i)
  BY <1>1 DEF Current, Told
<1>3. held' \subseteq held /\ served \subseteq served' /\ d \in held  BY DEF Manage, Drop
<1>4. owner' = owner \/ owner' = d  BY DEF Manage, Drop
<1>5. owner' = owner \/ (daemon # "old" => owner' \in served')
  <2>1. CASE Drop(d)  BY <2>1 DEF Drop
  <2>2. CASE Manage(d)
    <3>1. daemon # "down"  BY <1>3 DEF Settled
    <3>2. daemon # "old" => daemon = "new"
      BY <3>1 DEF Typed, TypeOK, DispatchTypes
    <3> QED  BY <2>2, <3>2 DEF Manage
  <2> QED  BY <2>1, <2>2
<1> QED  BY <1>1, <1>2, <1>3, <1>4, <1>5 DEF AckInv

LEMMA MachineAcks ==
  ASSUME Typed, AckInv, Process \/ Supervise \/ Recover
  PROVE  AckInv'
<1>1. CASE Stop
  <2>1. /\ socket' = [c \in Clients |-> "none"] /\ held' = {}
        /\ UNCHANGED <<client, latest, asked, owner, served, version>>
    BY <1>1 DEF Stop
  <2>2. \A c \in Clients :
          Current(c)' = Current(c) /\ (Told(c)' => Told(c)) /\ socket'[c] = "none"
    BY <2>1 DEF Current, Told
  <2> QED  BY <2>1, <2>2 DEF AckInv
<1>2. CASE Start
  <2>1. UNCHANGED <<client, socket, latest, asked, held, owner, served, version>> /\ daemon = "down"
    BY <1>2 DEF Start, asking
  <2>2. \A c \in Clients : Current(c)' = Current(c) /\ Told(c)' = Told(c)
    BY <2>1 DEF Current, Told
  <2> QED  BY <2>1, <2>2 DEF AckInv
<1>3. CASE Process \/ Recover \/ Replace \/ Retire \/ WarnBlocked
  <2>1. UNCHANGED <<client, socket, latest, asked, held, owner, served, version, daemon>>
    <3>1. CASE Process
      BY <3>1 DEF Process, StartSpare, SpareSettings, Claim, Spawn, ApplySettings,
           ApplyUnpatched, Exit, asking, manager, machine
    <3>2. CASE Recover
      BY <3>2 DEF Recover, Connect, Disconnect, TimeOut, Answer, UnusableReply, Learn,
           asking, manager, machine
    <3>3. CASE Replace \/ Retire \/ WarnBlocked
      BY <3>3 DEF Replace, Retire, WarnBlocked, asking, manager, machine
    <3> QED  BY <1>3, <3>1, <3>2, <3>3
  <2>2. \A c \in Clients : Current(c)' = Current(c) /\ Told(c)' = Told(c)
    BY <2>1 DEF Current, Told
  <2> QED  BY <2>1, <2>2 DEF AckInv
<1> QED  BY <1>1, <1>2, <1>3 DEF Supervise

LEMMA AckAlways == Spec => []AckInv
<1>1. Typed /\ Settled /\ AckInv /\ [Next]_vars => AckInv'
  <2> SUFFICES ASSUME Typed, Settled, AckInv, [Next]_vars PROVE AckInv'  OBVIOUS
  <2>1. CASE Dispatch
    BY <2>1, AskAcks, ConversationAcks, ManagerAcks DEF Dispatch
  <2>2. CASE Process \/ Supervise \/ Recover  BY <2>2, MachineAcks
  <2>3. CASE UNCHANGED vars
    <3>1. UNCHANGED <<client, socket, latest, asked, held, owner, served, version, daemon>>
      BY <2>3 DEF vars, asking, manager, machine
    <3>2. \A c \in Clients : Current(c)' = Current(c) /\ Told(c)' = Told(c)
      BY <3>1 DEF Current, Told
    <3> QED  BY <3>1, <3>2 DEF AckInv
  <2> QED  BY <2>1, <2>2, <2>3 DEF Next
<1>2. ProviderInv => Settled  BY DEF ProviderInv
<1> QED  BY <1>1, <1>2, InitAck, TypedAlways, ProviderAlways, PTL DEF Spec

\* A patched client is told that its job was started only if a patched daemon
\* started it with the client's provider.
THEOREM AckTruthfulHolds == Spec => []AckTruthful
<1>1. AckInv => AckTruthful  BY DEF AckInv, Told, AckTruthful
<1> QED  BY <1>1, AckAlways, PTL
=============================================================================
