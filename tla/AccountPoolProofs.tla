-------------------------- MODULE AccountPoolProofs --------------------------
(***************************************************************************)
(* Proofs about AccountPool for any number of accounts, requests and       *)
(* sessions and any cooldowns: type correctness, and the invariants of a   *)
(* selection that is spread over awaits of the usage endpoint.             *)
(***************************************************************************)
EXTENDS AccountPool, WellFoundedInduction, TLAPS

-----------------------------------------------------------------------------
(***************************************************************************)
(* Operators.                                                              *)
(***************************************************************************)
\* Least returns a member of any non-empty set of naturals.
LEMMA LeastIn ==
  ASSUME NEW S \in SUBSET Nat, S # {}
  PROVE  Least(S) \in S
<1>1. \E x \in S : \A y \in S : ~ (<<y, x>> \in OpToRel(<, Nat))
  BY NatLessThanWellFounded, WFMin
<1>2. \E x \in S : \A y \in S : x <= y
  <2>1. PICK x \in S : \A y \in S : ~ (<<y, x>> \in OpToRel(<, Nat))
    BY <1>1
  <2>2. ASSUME NEW y \in S PROVE x <= y
    <3>1. x \in Nat /\ y \in Nat
      OBVIOUS
    <3>2. ~ (y < x)
      BY <2>1, <3>1 DEF OpToRel
    <3>3. QED
      BY <3>1, <3>2
  <2>3. QED
    BY <2>2
<1>3. QED
  BY <1>2 DEF Least

\* A snapshot's exhausted reset is a time.
LEMMA ExhaustedResetType ==
  ASSUME NEW s \in Snapshot, NEW at \in Nat
  PROVE  ExhaustedResetAt(s, at) \in Nat
<1> DEFINE active == ActiveWindows(s, at)
           full == {i \in active : s.windows[i].used = 100}
           resets == {s.windows[i].resetAt : i \in full}
           last == s.windows[MostUsed(s, active)].resetAt
<1>0. ExhaustedResetAt(s, at) =
        IF ~s.limitReached \/ active = {} THEN 0
        ELSE IF full # {} THEN Least(resets) ELSE last
  BY Zenon DEF ExhaustedResetAt, NoReset
<1>1. s.windows \in Seq(Window) /\ s.limitReached \in BOOLEAN
  BY DEF Snapshot
<1>2. /\ active \subseteq DOMAIN s.windows
      /\ DOMAIN s.windows \subseteq Nat
      /\ \A i \in DOMAIN s.windows : s.windows[i] \in Window
  BY <1>1 DEF ActiveWindows
<1>3. \A i \in DOMAIN s.windows : s.windows[i].resetAt \in Nat /\ s.windows[i].used \in 0..100
  BY <1>2 DEF Window
<1>4. CASE full # {}
  <2>1. resets \in SUBSET Nat /\ resets # {}
    BY <1>2, <1>3, <1>4
  <2>2. Least(resets) \in Nat
    BY <2>1, LeastIn
  <2> HIDE DEF active, full, resets, last
  <2>3. QED
    BY <2>2, <1>4, <1>0
<1>5. CASE active # {}
  <2> DEFINE left == {100 - s.windows[i].used : i \in active}
             most == {i \in active : \A j \in active : s.windows[j].used <= s.windows[i].used}
  <2>1. PICK least \in left : \A n \in left : least <= n
    <3>1. left \in SUBSET Nat /\ left # {}
      BY <1>2, <1>3, <1>5
    <3>2. \E x \in left : \A y \in left : ~ (<<y, x>> \in OpToRel(<, Nat))
      BY <3>1, NatLessThanWellFounded, WFMin
    <3>3. PICK x \in left : \A y \in left : ~ (<<y, x>> \in OpToRel(<, Nat))
      BY <3>2
    <3>4. \A y \in left : ~ (y < x)
      BY <3>1, <3>3 DEF OpToRel
    <3>5. \A y \in left : x <= y
      <4>1. ASSUME NEW y \in left PROVE x <= y
        <5>1. x \in Nat /\ y \in Nat
          BY <3>1
        <5> HIDE DEF left
        <5>2. QED
          BY <5>1, <3>4
      <4>2. QED
        BY <4>1
    <3>6. QED
      BY <3>5
  <2>2. PICK i \in active : least = 100 - s.windows[i].used
    BY <2>1
  <2>3. \A j \in active : s.windows[j].used <= s.windows[i].used
    <3>1. ASSUME NEW j \in active PROVE s.windows[j].used <= s.windows[i].used
      <4>1. least <= 100 - s.windows[j].used
        BY <2>1
      <4>2. s.windows[j].used \in Nat /\ s.windows[i].used \in Nat
        BY <1>2, <1>3
      <4>3. QED
        BY <4>1, <4>2, <2>2
    <3>2. QED
      BY <3>1
  <2>4. most \in SUBSET Nat /\ most # {}
    BY <2>2, <2>3, <1>2
  <2>5. Least(most) \in active
    BY <2>4, LeastIn
  <2>6. last \in Nat
    BY <2>5, <1>2, <1>3 DEF MostUsed
  <2> HIDE DEF active, full, resets, last
  <2>7. QED
    BY <2>6, <1>4, <1>0
<1> HIDE DEF active, full, resets, last
<1>6. QED
  BY <1>4, <1>5, <1>0

\* candidateWeight is positive exactly when no limit, cooldown or used-up window
\* is in force.
LEMMA WeighsUnlessBlocked ==
  ASSUME PoolTypeOK, NEW a \in Accounts
  PROVE  Weighs(a) <=> ~Blocked(a)
<1>1. /\ now \in Nat /\ limitedUntil[a] \in Nat /\ transientUntil[a] \in Nat
      /\ authFailedUntil[a] \in Nat
      /\ snapshot[a] \in Snapshot
  BY DEF PoolTypeOK
<1>2. \A i \in DOMAIN snapshot[a].windows :
        snapshot[a].windows[i].used \in 0..100 /\ snapshot[a].windows[i].resetAt \in Nat
  <2>1. snapshot[a].windows \in Seq(Window)
    BY <1>1 DEF Snapshot
  <2>2. \A i \in DOMAIN snapshot[a].windows : snapshot[a].windows[i] \in Window
    BY <2>1
  <2>3. QED
    BY <2>2 DEF Window
<1>3. SnapshotAllows(snapshot[a]) <=>
        ~ \E i \in DOMAIN snapshot[a].windows :
            snapshot[a].windows[i].used = 100 /\ snapshot[a].windows[i].resetAt > now
  BY <1>2 DEF SnapshotAllows, ActiveWindows
<1>4. QED
  BY <1>1, <1>3 DEF Weighs, Blocked

-----------------------------------------------------------------------------
(***************************************************************************)
(* Type correctness.                                                       *)
(***************************************************************************)
\* A request that is answered leaves the locals of all requests typed.
LEMMA AnswerType ==
  ASSUME RequestTypeOK, NEW r \in Requests, Answer(r)
  PROVE  RequestTypeOK'
<1>1. /\ pc' \in [Requests -> Ready \cup Suspended]
      /\ tried' \in [Requests -> SUBSET Accounts] /\ eligible' \in [Requests -> SUBSET Accounts]
      /\ cursor' \in [Requests -> Accounts]
      /\ sticky' \in [Requests -> 0..N] /\ chosen' \in [Requests -> 0..N]
  BY ConstantsAssumption
  DEF Answer, RequestTypeOK, Accounts, Ready, Suspended, NoAccount
<1>2. limit' \in [Requests -> [at: Nat, reset: Nat]]
  BY DEF Answer, RequestTypeOK, NoReset
<1>3. ASSUME NEW q \in Requests, pc'[q] \in {"auth", "stream", "limiting", "limited"}
      PROVE  chosen'[q] \in Accounts
  BY <1>3 DEF Answer, RequestTypeOK
<1>4. QED
  BY <1>1, <1>2, <1>3 DEF RequestTypeOK

\* So does the loop of select over its candidates.
LEMMA TryCandidatesType ==
  ASSUME RequestTypeOK, NEW r \in Requests, NEW candidates \in SUBSET Accounts,
         NEW preferred \in 0..N, NEW authUntil,
         TryCandidates(r, candidates, preferred, authUntil)
  PROVE  RequestTypeOK'
<1>1. CASE candidates = {} /\ Answer(r)
  BY <1>1, AnswerType
<1>2. CASE candidates = {} /\ ~Answer(r)
  <2>1. /\ pc' = [pc EXCEPT ![r] = "exhausted"]
        /\ eligible' = [eligible EXCEPT ![r] = {}]
        /\ chosen' = [chosen EXCEPT ![r] = NoAccount]
        /\ UNCHANGED <<tried, cursor, sticky, limit>>
    BY <1>2, Zenon DEF TryCandidates, NothingToOffer
  <2>2. /\ pc' \in [Requests -> Ready \cup Suspended]
        /\ tried' \in [Requests -> SUBSET Accounts] /\ eligible' \in [Requests -> SUBSET Accounts]
        /\ cursor' \in [Requests -> Accounts]
        /\ sticky' \in [Requests -> 0..N] /\ chosen' \in [Requests -> 0..N]
        /\ limit' \in [Requests -> [at: Nat, reset: Nat]]
    BY <2>1, ConstantsAssumption DEF RequestTypeOK, Ready, Suspended, NoAccount
  <2>3. ASSUME NEW q \in Requests, pc'[q] \in {"auth", "stream", "limiting", "limited"}
        PROVE  chosen'[q] \in Accounts
    BY <2>1, <2>3 DEF RequestTypeOK
  <2>4. QED
    BY <2>2, <2>3 DEF RequestTypeOK
<1>3. CASE candidates # {}
  <2>1. /\ pc' = [pc EXCEPT ![r] = "auth"]
        /\ eligible' = [eligible EXCEPT ![r] = candidates]
        /\ sticky' = [sticky EXCEPT ![r] = preferred]
        /\ UNCHANGED <<tried, cursor, limit>>
    BY <1>3 DEF TryCandidates
  <2>2. PICK a \in candidates : chosen' = [chosen EXCEPT ![r] = a]
    BY <1>3 DEF TryCandidates, Picks
  <2>3. a \in Accounts /\ a \in 0..N
    BY ConstantsAssumption DEF Accounts
  <2>4. /\ pc' \in [Requests -> Ready \cup Suspended]
        /\ tried' \in [Requests -> SUBSET Accounts] /\ eligible' \in [Requests -> SUBSET Accounts]
        /\ cursor' \in [Requests -> Accounts]
        /\ sticky' \in [Requests -> 0..N] /\ chosen' \in [Requests -> 0..N]
        /\ limit' \in [Requests -> [at: Nat, reset: Nat]]
    BY <2>1, <2>2, <2>3 DEF RequestTypeOK, Ready, Suspended
  <2>5. ASSUME NEW q \in Requests, pc'[q] \in {"auth", "stream", "limiting", "limited"}
        PROVE  chosen'[q] \in Accounts
    <3>1. CASE q = r
      BY <3>1, <2>2, <2>3 DEF RequestTypeOK
    <3>2. CASE q # r
      <4>1. pc'[q] = pc[q] /\ chosen'[q] = chosen[q]
        BY <3>2, <2>1, <2>2 DEF RequestTypeOK
      <4>2. QED
        BY <4>1, <2>5 DEF RequestTypeOK
    <3>3. QED
      BY <3>1, <3>2
  <2>6. QED
    BY <2>4, <2>5 DEF RequestTypeOK
<1>4. QED
  BY <1>1, <1>2, <1>3

\* And the scan as a whole, which may also start refreshes.
LEMMA ScanFromType ==
  ASSUME PoolTypeOK, RequestTypeOK, NEW r \in Requests, NEW first \in 1..(N + 1),
         NEW found \in SUBSET Accounts, ScanFrom(r, first, found)
  PROVE  PoolTypeOK' /\ RequestTypeOK'
<1> USE ConstantsAssumption
<1>1. PICK stop \in first..(N + 1) :
        LET seen == {a \in first..(stop - 1) : ~Skipped(r, a)}
            candidates == found \cup {a \in seen : Weighs(a)}
            asked == {a \in seen \cup ({stop} \cap Accounts) : RefreshDue(a)}
        IN /\ refreshing' = refreshing \cup asked
           /\ IF stop <= N THEN AwaitUsage(r, candidates, stop)
                           ELSE TryCandidates(r, candidates, StickyIndex(r), authFailedUntil)
           /\ UNCHANGED <<now, limitedUntil, transientUntil, authFailedUntil,
                          usageFailedUntil, snapshot, sessions>>
  BY DEF ScanFrom
<1> DEFINE seen == {a \in first..(stop - 1) : ~Skipped(r, a)}
           candidates == found \cup {a \in seen : Weighs(a)}
<1>2. first..(stop - 1) \subseteq Accounts
  BY DEF Accounts
<1>3. seen \subseteq Accounts /\ candidates \in SUBSET Accounts
  BY <1>2
<1>4. refreshing' \in SUBSET Accounts
  BY <1>1, <1>3 DEF PoolTypeOK
<1>5. StickyIndex(r) \in 0..N
  BY DEF StickyIndex, PoolTypeOK, NoAccount
<1>6. PoolTypeOK'
  BY <1>1, <1>4 DEF PoolTypeOK
<1>7. CASE stop <= N
  <2>1. AwaitUsage(r, candidates, stop) /\ stop \in Accounts
    BY <1>1, <1>7 DEF Accounts
  <2> HIDE DEF candidates, seen
  <2>2. RequestTypeOK'
    BY <1>3, <2>1 DEF AwaitUsage, RequestTypeOK, Ready, Suspended
  <2>3. QED
    BY <1>6, <2>2
<1>8. CASE ~(stop <= N)
  <2>1. TryCandidates(r, candidates, StickyIndex(r), authFailedUntil)
    BY <1>1, <1>8
  <2> HIDE DEF candidates, seen
  <2>2. RequestTypeOK'
    BY <1>3, <1>5, <2>1, TryCandidatesType
  <2>3. QED
    BY <1>6, <2>2
<1>9. QED
  BY <1>7, <1>8

\* An observation leaves a snapshot a snapshot.
LEMMA MergeType ==
  ASSUME PoolTypeOK, NEW a \in Accounts, NEW source \in {"none", "usage", "headers"},
         NEW limitReached \in BOOLEAN, NEW windows \in Seq(Window),
         Merge(a, source, limitReached, windows)
  PROVE  snapshot' \in [Accounts -> Snapshot] /\ limitedUntil' \in [Accounts -> Nat]
<1> DEFINE merged == [source |-> source, observedAt |-> now, limitReached |-> limitReached,
                      windows |-> IF windows = <<>> THEN snapshot[a].windows ELSE windows]
           reset == ExhaustedResetAt(merged, now)
<1>1. merged \in Snapshot
  BY DEF PoolTypeOK, Snapshot
<1>2. reset \in Nat
  BY <1>1, ExhaustedResetType DEF PoolTypeOK
<1>3. /\ snapshot' = [snapshot EXCEPT ![a] = merged]
      /\ limitedUntil' = [limitedUntil EXCEPT ![a] = IF reset > @ THEN reset ELSE @]
  BY DEF Merge
<1> HIDE DEF merged, reset
<1>4. QED
  BY <1>1, <1>2, <1>3 DEF PoolTypeOK

\* The end of a refresh only wakes requests up.
LEMMA RefreshType ==
  ASSUME PoolTypeOK, RequestTypeOK, NEW a \in Accounts, RefreshStep(a)
  PROVE  PoolTypeOK' /\ RequestTypeOK'
<1>1. RefreshSettles(a)
  BY DEF RefreshStep, RefreshAnswered, RefreshFailed, RefreshEmpty
<1>2. RequestTypeOK'
  <2>1. pc' \in [Requests -> Ready \cup Suspended]
    BY <1>1 DEF RefreshSettles, RequestTypeOK, Ready, Suspended
  <2>2. UNCHANGED <<tried, cursor, eligible, sticky, chosen, limit>>
    BY <1>1 DEF RefreshSettles
  <2>3. ASSUME NEW q \in Requests, pc'[q] \in {"auth", "stream", "limiting", "limited"}
        PROVE  chosen'[q] \in Accounts
    <3>1. pc'[q] = pc[q] \/ pc[q] = "limiting" \/ pc'[q] = "weigh"
      BY <1>1 DEF RefreshSettles
    <3>2. QED
      BY <3>1, <2>2, <2>3 DEF RequestTypeOK
  <2>4. QED
    BY <2>1, <2>2, <2>3 DEF RequestTypeOK
<1>3. /\ UNCHANGED <<now, transientUntil, authFailedUntil, sessions>>
      /\ refreshing' \in SUBSET Accounts
  BY <1>1 DEF RefreshSettles, PoolTypeOK
<1>4. CASE RefreshAnswered(a)
  <2>1. PICK answer \in UsageReplies :
          Merge(a, "usage", answer.limitReached, answer.windows)
    BY <1>4 DEF RefreshAnswered
  <2>2. answer.limitReached \in BOOLEAN /\ answer.windows \in Seq(Window)
    BY ConstantsAssumption
  <2>3. snapshot' \in [Accounts -> Snapshot] /\ limitedUntil' \in [Accounts -> Nat]
    BY <2>1, <2>2, MergeType
  <2>4. QED
    BY <1>2, <1>3, <1>4, <2>3 DEF RefreshAnswered, PoolTypeOK
<1>5. CASE RefreshFailed(a)
  BY <1>2, <1>3, <1>5, ConstantsAssumption DEF RefreshFailed, PoolTypeOK
<1>6. CASE RefreshEmpty(a)
  BY <1>2, <1>3, <1>6 DEF RefreshEmpty, PoolTypeOK
<1>7. QED
  BY <1>4, <1>5, <1>6 DEF RefreshStep

\* bind writes a binding and may drop another.
LEMMA BindType ==
  ASSUME PoolTypeOK, NEW r \in Requests, chosen[r] \in Accounts, Bind(r)
  PROVE  sessions' \in [Sessions -> [index: 0..N, lastUsed: Nat]]
<1> DEFINE key == SessionOf[r]
           bound == [sessions EXCEPT ![key] = [index |-> chosen[r], lastUsed |-> now]]
           keys == {k \in Sessions : bound[k].index # NoAccount}
<1>1. chosen[r] \in 0..N /\ NoAccount \in 0..N
  BY ConstantsAssumption DEF Accounts, NoAccount
<1>2. bound \in [Sessions -> [index: 0..N, lastUsed: Nat]]
  BY <1>1 DEF PoolTypeOK
<1>3. \/ UNCHANGED sessions
      \/ sessions' = bound
      \/ \E k \in keys : sessions' = [bound EXCEPT ![k] = [index |-> NoAccount, lastUsed |-> 0]]
  BY DEF Bind
<1>4. keys \subseteq Sessions
  OBVIOUS
<1> HIDE DEF bound, keys
<1>5. QED
  BY <1>1, <1>2, <1>3, <1>4 DEF PoolTypeOK

\* Every other step of a request keeps the types.
LEMMA RequestType ==
  ASSUME PoolTypeOK, RequestTypeOK, NEW r \in Requests, RequestStep(r)
  PROVE  PoolTypeOK' /\ RequestTypeOK'
<1> USE ConstantsAssumption
<1>1. CASE Arrive(r)
  BY <1>1 DEF Arrive, accountVars, PoolTypeOK, RequestTypeOK, Ready, Suspended
<1>2. CASE Scan(r)
  <2>1. 1 \in 1..(N + 1) /\ {} \in SUBSET Accounts
    OBVIOUS
  <2>2. QED
    BY <1>2, <2>1, ScanFromType DEF Scan
<1>3. CASE Weigh(r)
  <2>1. cursor[r] + 1 \in 1..(N + 1)
    BY DEF RequestTypeOK, Accounts
  <2>2. eligible[r] \cup {a \in {cursor[r]} : Weighs(a)} \in SUBSET Accounts
    BY DEF RequestTypeOK
  <2>3. QED
    BY <1>3, <2>1, <2>2, ScanFromType DEF Weigh
<1>4. CASE AuthResolved(r)
  <2>1. chosen[r] \in Accounts
    BY <1>4 DEF AuthResolved, RequestTypeOK
  <2>2. PoolTypeOK'
    BY <1>4, <2>1, BindType DEF AuthResolved, accountVars, PoolTypeOK
  <2>3. /\ pc' \in [Requests -> Ready \cup Suspended]
        /\ tried' \in [Requests -> SUBSET Accounts] /\ eligible' \in [Requests -> SUBSET Accounts]
        /\ cursor' \in [Requests -> Accounts] /\ sticky' \in [Requests -> 0..N]
    BY <1>4, <2>1 DEF AuthResolved, RequestTypeOK, Ready, Suspended, Accounts, NoAccount
  <2>4. ASSUME NEW q \in Requests, pc'[q] \in {"auth", "stream", "limiting", "limited"}
        PROVE  chosen'[q] \in Accounts
    BY <1>4, <2>1, <2>4 DEF AuthResolved, RequestTypeOK
  <2>5. QED
    BY <1>4, <2>2, <2>3, <2>4 DEF AuthResolved, RequestTypeOK
<1>5. CASE AuthFailed(r)
  <2>1. chosen[r] \in Accounts
    BY <1>5 DEF AuthFailed, RequestTypeOK
  <2>2. PoolTypeOK'
    BY <1>5, <2>1 DEF AuthFailed, PoolTypeOK
  <2>3. /\ eligible[r] \ {chosen[r]} \in SUBSET Accounts /\ sticky[r] \in 0..N
    BY DEF RequestTypeOK
  <2>4. QED
    BY <1>5, <2>2, <2>3, TryCandidatesType DEF AuthFailed
<1>6. CASE ObserveHeaders(r)
  <2>1. chosen[r] \in Accounts
    BY <1>6 DEF ObserveHeaders, RequestTypeOK
  <2>2. PICK windows \in HeaderReplies :
          Merge(chosen[r], "headers", HeaderLimit(chosen[r], windows), windows)
    BY <1>6 DEF ObserveHeaders
  <2>3. HeaderLimit(chosen[r], windows) \in BOOLEAN /\ windows \in Seq(Window)
    BY <2>1 DEF HeaderLimit, PoolTypeOK, Snapshot
  <2>4. snapshot' \in [Accounts -> Snapshot] /\ limitedUntil' \in [Accounts -> Nat]
    BY <2>1, <2>2, <2>3, MergeType
  <2>5. QED
    BY <1>6, <2>4 DEF ObserveHeaders, requestVars, PoolTypeOK, RequestTypeOK
<1>7. CASE StreamServes(r) \/ StreamFails(r) \/ AnswerExhausted(r)
  <2>1. Answer(r) /\ UNCHANGED <<now, accountVars, sessions>>
    BY <1>7 DEF StreamServes, StreamFails, AnswerExhausted
  <2>2. QED
    BY <2>1, AnswerType DEF accountVars, PoolTypeOK
<1>8. CASE StreamTransient(r)
  <2>1. chosen[r] \in Accounts
    BY <1>8 DEF StreamTransient, RequestTypeOK
  <2>2. transientUntil' \in [Accounts -> Nat]
    <3>1. PICK wait \in RetryAfters \cup {TransientCooldown} :
            transientUntil' = [transientUntil EXCEPT ![chosen[r]] =
                                 IF now + wait > @ THEN now + wait ELSE @]
      BY <1>8 DEF StreamTransient
    <3>2. now + wait \in Nat
      BY DEF PoolTypeOK
    <3>3. QED
      BY <2>1, <3>1, <3>2 DEF PoolTypeOK
  <2>3. PoolTypeOK'
    BY <1>8, <2>2 DEF StreamTransient, PoolTypeOK
  <2>4. RequestTypeOK'
    BY <1>8 DEF StreamTransient, RequestTypeOK, Ready, Suspended, NoAccount
  <2>5. QED
    BY <2>3, <2>4
<1>9. CASE StreamLimited(r)
  <2>1. chosen[r] \in Accounts
    BY <1>9 DEF StreamLimited, RequestTypeOK
  <2>2. PoolTypeOK'
    BY <1>9, <2>1 DEF StreamLimited, PoolTypeOK
  <2>3. limit' \in [Requests -> [at: Nat, reset: Nat]]
    <3>1. PICK reset \in {t \in ErrorResets : t > now} \cup {NoReset} :
            limit' = [limit EXCEPT ![r] = [at |-> now, reset |-> reset]]
      BY <1>9 DEF StreamLimited
    <3>2. reset \in Nat
      BY DEF NoReset
    <3>3. QED
      BY <3>1, <3>2 DEF RequestTypeOK, PoolTypeOK
  <2>4. pc' = [pc EXCEPT ![r] = "limiting"] /\ UNCHANGED <<tried, cursor, eligible, sticky, chosen>>
    BY <1>9 DEF StreamLimited
  <2>5. pc' \in [Requests -> Ready \cup Suspended]
    BY <2>4 DEF RequestTypeOK, Ready, Suspended
  <2>6. ASSUME NEW q \in Requests, pc'[q] \in {"auth", "stream", "limiting", "limited"}
        PROVE  chosen'[q] \in Accounts
    BY <2>1, <2>4, <2>6 DEF RequestTypeOK
  <2>7. QED
    BY <2>2, <2>3, <2>4, <2>5, <2>6 DEF RequestTypeOK
<1>10. CASE MarkLimited(r)
  <2>1. chosen[r] \in Accounts
    BY <1>10 DEF MarkLimited, RequestTypeOK
  <2>2. LimitReset(r) \in Nat
    <3>1. limit[r].at \in Nat /\ limit[r].reset \in Nat
      BY DEF RequestTypeOK
    <3>2. snapshot[chosen[r]] \in Snapshot
      BY <2>1 DEF PoolTypeOK
    <3>3. ExhaustedResetAt(snapshot[chosen[r]], limit[r].at) \in Nat
      BY <3>1, <3>2, ExhaustedResetType
    <3>4. QED
      BY <3>1, <3>3 DEF LimitReset
  <2>3. /\ limitedUntil' = [limitedUntil EXCEPT ![chosen[r]] = LimitReset(r)]
        /\ snapshot' = [snapshot EXCEPT ![chosen[r]].limitReached =
                          @ \/ snapshot[chosen[r]].source # "none"]
        /\ sessions' = [k \in Sessions |->
                          IF sessions[k].index = chosen[r] THEN [index |-> NoAccount, lastUsed |-> 0]
                          ELSE sessions[k]]
        /\ UNCHANGED <<now, transientUntil, authFailedUntil, usageFailedUntil, refreshing>>
    BY <1>10 DEF MarkLimited
  <2>4. limitedUntil' \in [Accounts -> Nat]
    BY <2>1, <2>2, <2>3 DEF PoolTypeOK
  <2>5. snapshot' \in [Accounts -> Snapshot]
    <3> DEFINE marked == snapshot[chosen[r]].limitReached \/ snapshot[chosen[r]].source # "none"
    <3>1. snapshot' = [snapshot EXCEPT ![chosen[r]] =
                         [snapshot[chosen[r]] EXCEPT !.limitReached = marked]]
      BY <2>1, <2>3 DEF PoolTypeOK
    <3>2. [snapshot[chosen[r]] EXCEPT !.limitReached = marked] \in Snapshot
      <4>1. marked \in BOOLEAN
        OBVIOUS
      <4>2. snapshot[chosen[r]] \in Snapshot
        BY <2>1 DEF PoolTypeOK
      <4> HIDE DEF marked
      <4>3. QED
        BY <4>1, <4>2 DEF Snapshot
    <3> HIDE DEF marked
    <3>3. QED
      BY <3>1, <3>2 DEF PoolTypeOK
  <2>6. sessions' \in [Sessions -> [index: 0..N, lastUsed: Nat]]
    BY <2>3 DEF PoolTypeOK, NoAccount
  <2>7. PoolTypeOK'
    BY <2>3, <2>4, <2>5, <2>6 DEF PoolTypeOK
  <2>8. RequestTypeOK'
    <3>1. /\ pc' = [pc EXCEPT ![r] = "scan"]
          /\ chosen' = [chosen EXCEPT ![r] = NoAccount]
          /\ limit' = [limit EXCEPT ![r] = [at |-> 0, reset |-> NoReset]]
          /\ UNCHANGED <<tried, cursor, eligible, sticky>>
      BY <1>10 DEF MarkLimited
    <3>2. /\ pc' \in [Requests -> Ready \cup Suspended]
          /\ chosen' \in [Requests -> 0..N]
      BY <3>1 DEF RequestTypeOK, Ready, Suspended, NoAccount
    <3>3. limit' \in [Requests -> [at: Nat, reset: Nat]]
      BY <3>1 DEF RequestTypeOK, NoReset
    <3>4. ASSUME NEW q \in Requests, pc'[q] \in {"auth", "stream", "limiting", "limited"}
          PROVE  chosen'[q] \in Accounts
      BY <3>1, <3>4 DEF RequestTypeOK
    <3>5. QED
      BY <3>1, <3>2, <3>3, <3>4 DEF RequestTypeOK
  <2>9. QED
    BY <2>7, <2>8
<1>11. QED
  BY <1>1, <1>2, <1>3, <1>4, <1>5, <1>6, <1>7, <1>8, <1>9, <1>10 DEF RequestStep

LEMMA InitType == Init => TypeOK
<1> USE ConstantsAssumption
<1>1. SUFFICES ASSUME Init PROVE TypeOK
  OBVIOUS
<1>2. PoolTypeOK
  <2>1. <<>> \in Seq(Window)
    OBVIOUS
  <2>2. snapshot \in [Accounts -> Snapshot]
    BY <1>1, <2>1 DEF Init, Snapshot
  <2>3. QED
    BY <1>1, <2>2 DEF Init, PoolTypeOK, NoAccount
<1>3. RequestTypeOK
  BY <1>1 DEF Init, RequestTypeOK, Ready, Suspended, Accounts, NoAccount, NoReset
<1>4. HistoryTypeOK
  BY <1>1 DEF Init, HistoryTypeOK
<1>5. QED
  BY <1>2, <1>3, <1>4 DEF TypeOK

LEMMA StepType == TypeOK /\ [Next]_vars => TypeOK'
<1>1. SUFFICES ASSUME TypeOK, [Next]_vars PROVE TypeOK'
  OBVIOUS
<1>2. CASE Next
  <2>1. HistoryTypeOK'
    <3>1. \A r \in Requests : calls[r] + (IF pc[r] = "idle" /\ Begins(r) THEN 1 ELSE 0) \in Nat
      BY <1>1 DEF TypeOK, HistoryTypeOK
    <3>2. QED
      BY <1>1, <1>2, <3>1 DEF Next, History, HistoryTypeOK, TypeOK
  <2>2. CASE Tick
    BY <1>1, <2>1, <2>2
    DEF Tick, TypeOK, accountVars, requestVars, PoolTypeOK, RequestTypeOK
  <2>3. CASE \E r \in Requests : RequestStep(r)
    BY <1>1, <2>1, <2>3, RequestType DEF TypeOK
  <2>4. CASE \E a \in Accounts : RefreshStep(a)
    BY <1>1, <2>1, <2>4, RefreshType DEF TypeOK
  <2>5. QED
    BY <1>2, <2>2, <2>3, <2>4 DEF Next, Step
<1>3. CASE UNCHANGED vars
  BY <1>1, <1>3 DEF vars, codeVars, accountVars, requestVars, TypeOK, PoolTypeOK,
                    RequestTypeOK, HistoryTypeOK
<1>4. QED
  BY <1>1, <1>2, <1>3

\* The pool's tables, the bindings and every request's locals stay well formed,
\* and a request that goes upstream holds an account: no step of codex-accounts.js
\* or of handleMessages indexes an account that is not there.
THEOREM TypeCorrect == Spec => []TypeOK
<1>1. QED
  BY InitType, StepType, PTL DEF Spec

-----------------------------------------------------------------------------
(***************************************************************************)
(* The invariant of a selection.  The properties only speak of requests    *)
(* that are given a candidate or refused; what makes them hold is what a   *)
(* half-finished scan has established about the accounts before its        *)
(* cursor, while other requests and reports change the very same tables.   *)
(***************************************************************************)
\* The history of the selection covers the present state.
Observed(r) ==
  pc[r] \in Selecting =>
    \A a \in Accounts : (Blocked(a) => a \in down[r]) /\ (~Blocked(a) => a \in up[r])

\* Every account up to `last` is a candidate, was tried, or was seen blocked.
Considered(r, last) == \A a \in 1..last : a \in eligible[r] \cup tried[r] \cup down[r]

Covered(r) ==
  /\ pc[r] \in {"usage", "weigh"} =>
       cursor[r] \notin tried[r] /\ Considered(r, cursor[r] - 1)
  /\ pc[r] = "auth" => chosen[r] \in eligible[r] /\ Considered(r, N)
  /\ pc[r] = "exhausted" => Considered(r, N)

\* Candidates are untried accounts the selection has seen usable.
Offerable(r) ==
  /\ eligible[r] \cap tried[r] = {}
  /\ pc[r] \in {"usage", "weigh", "auth"} => eligible[r] \subseteq up[r]
  /\ pc[r] \notin {"usage", "weigh", "auth"} => eligible[r] = {}

Awaited(r) ==
  /\ pc[r] = "usage" => cursor[r] \in refreshing
  /\ pc[r] = "limiting" => chosen[r] \in refreshing

Selection(r) == Observed(r) /\ Covered(r) /\ Offerable(r) /\ Awaited(r)
SelectionInv == TypeOK /\ \A r \in Requests : Selection(r)

\* What History records of a request.
LEMMA HistoryCovers ==
  ASSUME TypeOK, TypeOK', History, NEW r \in Requests
  PROVE  /\ Observed(r)'
         /\ pc'[r] \in Selecting /\ (pc'[r] # "scan" \/ pc[r] = "scan") =>
              down[r] \subseteq down'[r] /\ up[r] \subseteq up'[r]
<1>1. /\ pc'[r] \in Selecting =>
           /\ {a \in Accounts : Blocked(a)'} \subseteq down'[r]
           /\ {a \in Accounts : ~Blocked(a)'} \subseteq up'[r]
      /\ pc'[r] \in Selecting /\ ~Begins(r) => down[r] \subseteq down'[r] /\ up[r] \subseteq up'[r]
  BY DEF History, Watched
<1>2. Observed(r)'
  BY <1>1 DEF Observed
<1>3. QED
  BY <1>1, <1>2 DEF Begins

\* A step of others leaves the invariant of a request alone.
LEMMA SelectionKept ==
  ASSUME TypeOK, TypeOK', History, NEW r \in Requests, Selection(r),
         pc'[r] = pc[r], tried'[r] = tried[r], eligible'[r] = eligible[r],
         cursor'[r] = cursor[r], chosen'[r] = chosen[r],
         pc[r] \in {"usage", "limiting"} => refreshing \subseteq refreshing'
  PROVE  Selection(r)'
<1>1. Observed(r)'
  BY HistoryCovers
<1>2. pc'[r] \in Selecting => down[r] \subseteq down'[r] /\ up[r] \subseteq up'[r]
  BY HistoryCovers
<1>3. Covered(r)'
  BY <1>2 DEF Selection, Covered, Considered, Selecting
<1>4. Offerable(r)'
  BY <1>2 DEF Selection, Offerable, Selecting
<1>5. Awaited(r)'
  BY DEF Selection, Awaited
<1>6. QED
  BY <1>1, <1>3, <1>4, <1>5 DEF Selection

\* A request outside a selection has no obligation but an empty scan.
LEMMA SelectionOver ==
  ASSUME TypeOK, TypeOK', History, NEW r \in Requests,
         pc'[r] \in {"idle", "stream", "limited", "scan"}, eligible'[r] = {}
  PROVE  Selection(r)'
BY HistoryCovers DEF Selection, Covered, Offerable, Awaited, Selecting

\* The loop over the candidates: it may only give up when they are all accounted
\* for.
LEMMA TryCandidatesSelects ==
  ASSUME TypeOK, TypeOK', History, NEW r \in Requests,
         NEW candidates \in SUBSET Accounts, NEW preferred, NEW authUntil,
         TryCandidates(r, candidates, preferred, authUntil),
         candidates \cap tried[r] = {},
         pc'[r] \in Selecting => /\ candidates \subseteq up'[r]
                                 /\ Accounts \subseteq candidates \cup tried[r] \cup down'[r]
  PROVE  Selection(r)'
<1>1. CASE candidates = {} /\ Answer(r)
  <2>1. pc'[r] = "idle" /\ eligible'[r] = {}
    BY <1>1 DEF Answer, TypeOK, RequestTypeOK
  <2>2. QED
    BY <2>1, SelectionOver
<1>2. CASE candidates = {} /\ ~Answer(r)
  <2>1. /\ pc' = [pc EXCEPT ![r] = "exhausted"]
        /\ eligible' = [eligible EXCEPT ![r] = {}]
        /\ UNCHANGED tried
    BY <1>2, Zenon DEF TryCandidates, NothingToOffer
  <2>2. pc'[r] = "exhausted" /\ eligible'[r] = {} /\ tried'[r] = tried[r]
    BY <2>1 DEF TypeOK, RequestTypeOK
  <2>3. Covered(r)'
    BY <1>2, <2>2 DEF Covered, Considered, Accounts, Selecting
  <2>4. Offerable(r)' /\ Awaited(r)'
    BY <2>2 DEF Offerable, Awaited
  <2>5. QED
    BY <2>3, <2>4, HistoryCovers DEF Selection
<1>3. CASE candidates # {}
  <2>1. /\ pc' = [pc EXCEPT ![r] = "auth"]
        /\ eligible' = [eligible EXCEPT ![r] = candidates]
        /\ UNCHANGED tried
    BY <1>3 DEF TryCandidates
  <2>2. PICK a \in candidates : chosen' = [chosen EXCEPT ![r] = a]
    BY <1>3 DEF TryCandidates, Picks
  <2>3. /\ pc'[r] = "auth" /\ eligible'[r] = candidates /\ tried'[r] = tried[r]
        /\ chosen'[r] \in candidates
    BY <2>1, <2>2 DEF TypeOK, RequestTypeOK
  <2>4. Covered(r)'
    BY <2>3 DEF Covered, Considered, Accounts, Selecting
  <2>5. Offerable(r)' /\ Awaited(r)'
    BY <2>3 DEF Offerable, Awaited, Selecting
  <2>6. QED
    BY <2>4, <2>5, HistoryCovers DEF Selection
<1>4. QED
  BY <1>1, <1>2, <1>3

\* The scan from account `first`: whatever it skips or leaves out, it has a
\* reason for in the tried or the blocked accounts.
LEMMA ScanFromSelects ==
  ASSUME TypeOK, TypeOK', History, NEW r \in Requests, Observed(r),
         NEW first \in 1..(N + 1), NEW found \in SUBSET Accounts, ScanFrom(r, first, found),
         pc[r] \in {"scan", "weigh"},
         found \cap tried[r] = {}, found \subseteq up[r],
         \A a \in 1..(first - 1) : a \in found \cup tried[r] \cup down[r]
  PROVE  Selection(r)'
<1> USE ConstantsAssumption
<1> DEFINE Seen(stop) == {a \in first..(stop - 1) : ~Skipped(r, a)}
           Candidates(stop) == found \cup {a \in Seen(stop) : Weighs(a)}
           Asked(stop) == {a \in Seen(stop) \cup ({stop} \cap Accounts) : RefreshDue(a)}
<1>1. PICK stop \in first..(N + 1) :
        /\ stop <= N => ~Skipped(r, stop)
        /\ refreshing' = refreshing \cup Asked(stop)
        /\ IF stop <= N THEN AwaitUsage(r, Candidates(stop), stop)
           ELSE TryCandidates(r, Candidates(stop), StickyIndex(r), authFailedUntil)
  BY Zenon DEF ScanFrom
<1>2. PoolTypeOK /\ pc[r] \in Selecting
  BY DEF TypeOK, Selecting
<1>3. first..(stop - 1) \subseteq Accounts
  BY DEF Accounts
<1>4. \A a \in Accounts : Skipped(r, a) => a \in tried[r] \cup down[r]
  BY <1>2 DEF Skipped, Blocked, Observed
<1>5. \A a \in Accounts : (Weighs(a) => a \in up[r]) /\ (~Weighs(a) => a \in down[r])
  BY <1>2, WeighsUnlessBlocked DEF Observed
<1>6. \A a \in 1..(stop - 1) : a \in Candidates(stop) \cup tried[r] \cup down[r]
  <2>1. ASSUME NEW a \in 1..(stop - 1) PROVE a \in Candidates(stop) \cup tried[r] \cup down[r]
    <3>1. CASE a < first
      BY <3>1
    <3>2. CASE ~(a < first)
      <4>1. a \in first..(stop - 1) /\ a \in Accounts
        BY <3>2, <1>3
      <4>2. QED
        BY <4>1, <1>4, <1>5
    <3>3. QED
      BY <3>1, <3>2
  <2>2. QED
    BY <2>1
<1>7. /\ Candidates(stop) \in SUBSET Accounts
      /\ Candidates(stop) \cap tried[r] = {}
      /\ Candidates(stop) \subseteq up[r]
  BY <1>3, <1>5 DEF Skipped
<1>8. pc'[r] \in Selecting /\ pc'[r] # "scan" => down[r] \subseteq down'[r] /\ up[r] \subseteq up'[r]
  BY HistoryCovers
<1>9. CASE stop <= N
  <2>1. AwaitUsage(r, Candidates(stop), stop) /\ stop \in Accounts /\ stop \notin tried[r]
    BY <1>1, <1>9 DEF Accounts, Skipped
  <2>2. /\ pc'[r] = IF RefreshDue(stop) THEN "usage" ELSE "weigh"
        /\ cursor'[r] = stop /\ eligible'[r] = Candidates(stop) /\ tried'[r] = tried[r]
    BY <2>1 DEF AwaitUsage, TypeOK, RequestTypeOK
  <2>3. RefreshDue(stop) => stop \in refreshing'
    BY <1>1, <2>1
  <2> HIDE DEF Candidates, Asked, Seen
  <2>4. Covered(r)'
    BY <1>6, <1>8, <2>1, <2>2 DEF Covered, Considered, Selecting
  <2>5. Offerable(r)'
    BY <1>7, <1>8, <2>2 DEF Offerable, Selecting
  <2>6. Awaited(r)'
    BY <2>2, <2>3 DEF Awaited
  <2>7. QED
    BY <2>4, <2>5, <2>6, HistoryCovers DEF Selection
<1>10. CASE ~(stop <= N)
  <2>1. TryCandidates(r, Candidates(stop), StickyIndex(r), authFailedUntil)
    BY <1>1, <1>10
  <2>2. stop - 1 = N
    BY <1>10
  <2> HIDE DEF Candidates, Asked, Seen
  <2>3. pc'[r] # "scan"
    <3>1. pc'[r] \in {"idle", "exhausted", "auth"}
      BY <2>1 DEF TryCandidates, NothingToOffer, Answer, TypeOK, RequestTypeOK
    <3>2. QED
      BY <3>1
  <2>4. pc'[r] \in Selecting =>
          /\ Candidates(stop) \subseteq up'[r]
          /\ Accounts \subseteq Candidates(stop) \cup tried[r] \cup down'[r]
    BY <1>6, <1>7, <1>8, <2>2, <2>3 DEF Accounts
  <2>5. QED
    BY <1>7, <2>1, <2>4, TryCandidatesSelects
<1>11. QED
  BY <1>9, <1>10

\* A request's step leaves the other requests' locals alone, and ends no refresh.
Undisturbed(q) ==
  /\ pc'[q] = pc[q] /\ tried'[q] = tried[q] /\ eligible'[q] = eligible[q]
  /\ cursor'[q] = cursor[q] /\ chosen'[q] = chosen[q]

LEMMA AnswerOthers ==
  ASSUME RequestTypeOK, NEW r \in Requests, Answer(r), NEW q \in Requests, q # r
  PROVE  Undisturbed(q)
BY DEF Answer, Undisturbed, RequestTypeOK

LEMMA TryCandidatesOthers ==
  ASSUME RequestTypeOK, NEW r \in Requests, NEW candidates, NEW preferred, NEW authUntil,
         TryCandidates(r, candidates, preferred, authUntil), NEW q \in Requests, q # r
  PROVE  Undisturbed(q)
<1>1. CASE Answer(r)
  BY <1>1, AnswerOthers
<1>2. CASE ~Answer(r)
  <2>1. \/ /\ pc' = [pc EXCEPT ![r] = "exhausted"]
           /\ eligible' = [eligible EXCEPT ![r] = {}]
           /\ chosen' = [chosen EXCEPT ![r] = NoAccount]
           /\ UNCHANGED <<tried, cursor>>
        \/ /\ pc' = [pc EXCEPT ![r] = "auth"]
           /\ eligible' = [eligible EXCEPT ![r] = candidates]
           /\ \E a \in Picks(candidates, preferred) : chosen' = [chosen EXCEPT ![r] = a]
           /\ UNCHANGED <<tried, cursor>>
    BY <1>2, Zenon DEF TryCandidates, NothingToOffer
  <2>2. QED
    BY <2>1 DEF Undisturbed, RequestTypeOK
<1>3. QED
  BY <1>1, <1>2

LEMMA ScanFromOthers ==
  ASSUME RequestTypeOK, NEW r \in Requests, NEW first, NEW found,
         ScanFrom(r, first, found), NEW q \in Requests, q # r
  PROVE  Undisturbed(q) /\ refreshing \subseteq refreshing'
<1>1. /\ \E asked : refreshing' = refreshing \cup asked
      /\ \E candidates, stop : \/ AwaitUsage(r, candidates, stop)
                               \/ TryCandidates(r, candidates, StickyIndex(r), authFailedUntil)
  BY Zenon DEF ScanFrom
<1>2. PICK candidates, stop : \/ AwaitUsage(r, candidates, stop)
                              \/ TryCandidates(r, candidates, StickyIndex(r), authFailedUntil)
  BY <1>1
<1>3. CASE AwaitUsage(r, candidates, stop)
  BY <1>1, <1>3 DEF AwaitUsage, Undisturbed, RequestTypeOK
<1>4. CASE TryCandidates(r, candidates, StickyIndex(r), authFailedUntil)
  BY <1>1, <1>4, TryCandidatesOthers
<1>5. QED
  BY <1>2, <1>3, <1>4

LEMMA RequestStepOthers ==
  ASSUME RequestTypeOK, NEW r \in Requests, RequestStep(r), NEW q \in Requests, q # r
  PROVE  Undisturbed(q) /\ refreshing \subseteq refreshing'
<1>1. CASE Scan(r) \/ Weigh(r)
  BY <1>1, ScanFromOthers DEF Scan, Weigh
<1>2. CASE AuthFailed(r)
  BY <1>2, TryCandidatesOthers DEF AuthFailed
<1>3. CASE StreamServes(r) \/ StreamFails(r) \/ AnswerExhausted(r)
  BY <1>3, AnswerOthers DEF StreamServes, StreamFails, AnswerExhausted, accountVars
<1>4. CASE Arrive(r) \/ AuthResolved(r) \/ ObserveHeaders(r)
  BY <1>4 DEF Arrive, AuthResolved, ObserveHeaders, accountVars, requestVars, Undisturbed,
              RequestTypeOK
<1>5. CASE StreamTransient(r) \/ StreamLimited(r) \/ MarkLimited(r)
  BY <1>5 DEF StreamTransient, StreamLimited, MarkLimited, Undisturbed, RequestTypeOK
<1>6. QED
  BY <1>1, <1>2, <1>3, <1>4, <1>5 DEF RequestStep

\* The step of a request keeps its own selection.
LEMMA RequestStepSelects ==
  ASSUME TypeOK, TypeOK', History, NEW r \in Requests, Selection(r), RequestStep(r)
  PROVE  Selection(r)'
<1> USE ConstantsAssumption
<1>0. PoolTypeOK /\ RequestTypeOK
  BY DEF TypeOK
<1>1. CASE Arrive(r)
  <2>1. pc[r] = "idle" /\ pc'[r] = "scan" /\ eligible'[r] = eligible[r]
    BY <1>0, <1>1 DEF Arrive, RequestTypeOK
  <2>2. eligible[r] = {}
    BY <2>1 DEF Selection, Offerable
  <2>3. QED
    BY <2>1, <2>2, SelectionOver
<1>2. CASE Scan(r)
  <2>1. 1 \in 1..(N + 1) /\ {} \in SUBSET Accounts /\ 1..(1 - 1) = {}
    OBVIOUS
  <2>2. ScanFrom(r, 1, {}) /\ pc[r] = "scan" /\ Observed(r)
    BY <1>2 DEF Scan, Selection
  <2>3. QED
    BY <2>1, <2>2, ScanFromSelects
<1>3. CASE Weigh(r)
  <2> DEFINE found == eligible[r] \cup {a \in {cursor[r]} : Weighs(a)}
  <2>1. /\ ScanFrom(r, cursor[r] + 1, found) /\ pc[r] = "weigh" /\ Observed(r)
        /\ cursor[r] \in Accounts /\ cursor[r] \notin tried[r]
        /\ Considered(r, cursor[r] - 1)
        /\ eligible[r] \cap tried[r] = {} /\ eligible[r] \subseteq up[r]
        /\ eligible[r] \in SUBSET Accounts
    BY <1>0, <1>3 DEF Weigh, Selection, Covered, Offerable, RequestTypeOK
  <2>2. cursor[r] + 1 \in 1..(N + 1) /\ found \in SUBSET Accounts
    BY <2>1 DEF Accounts
  <2>3. \/ Weighs(cursor[r]) /\ cursor[r] \in up[r]
        \/ ~Weighs(cursor[r]) /\ cursor[r] \in down[r]
    BY <1>0, <2>1, WeighsUnlessBlocked DEF Observed, Selecting
  <2>4. found \cap tried[r] = {} /\ found \subseteq up[r]
    BY <2>1, <2>3
  <2>5. \A a \in 1..((cursor[r] + 1) - 1) : a \in found \cup tried[r] \cup down[r]
    <3>1. ASSUME NEW a \in 1..((cursor[r] + 1) - 1) PROVE a \in found \cup tried[r] \cup down[r]
      <4>1. a = cursor[r] \/ a \in 1..(cursor[r] - 1)
        BY <2>1 DEF Accounts
      <4>2. QED
        BY <4>1, <2>1, <2>3 DEF Considered
    <3>2. QED
      BY <3>1
  <2> HIDE DEF found
  <2>6. QED
    BY <2>1, <2>2, <2>4, <2>5, ScanFromSelects
<1>4. CASE AuthResolved(r)
  <2>1. pc'[r] = "stream" /\ eligible'[r] = {}
    BY <1>0, <1>4 DEF AuthResolved, RequestTypeOK
  <2>2. QED
    BY <2>1, SelectionOver
<1>5. CASE AuthFailed(r)
  <2> DEFINE left == eligible[r] \ {chosen[r]}
  <2>1. /\ TryCandidates(r, left, sticky[r], authFailedUntil') /\ pc[r] = "auth"
        /\ chosen[r] \in Accounts
        /\ authFailedUntil' = [authFailedUntil EXCEPT ![chosen[r]] = now + AuthCooldown]
        /\ now' = now
    BY <1>0, <1>5 DEF AuthFailed, RequestTypeOK
  <2>2. /\ eligible[r] \in SUBSET Accounts /\ eligible[r] \cap tried[r] = {}
        /\ eligible[r] \subseteq up[r] /\ Considered(r, N)
    BY <1>0, <2>1 DEF Selection, Covered, Offerable, RequestTypeOK
  <2>3. PICK gone \in Accounts : gone = chosen[r]
    BY <2>1
  <2>4. Blocked(gone)'
    <3>1. authFailedUntil'[gone] > now'
      BY <1>0, <2>1, <2>3 DEF PoolTypeOK
    <3>2. QED
      BY <3>1 DEF Blocked
  <2>5. pc'[r] # "scan"
    <3>1. pc'[r] \in {"idle", "exhausted", "auth"}
      BY <1>0, <2>1 DEF TryCandidates, NothingToOffer, Answer, RequestTypeOK
    <3>2. QED
      BY <3>1
  <2>6. pc'[r] \in Selecting =>
          gone \in down'[r] /\ down[r] \subseteq down'[r] /\ up[r] \subseteq up'[r]
    BY <2>4, <2>5, HistoryCovers DEF Observed
  <2>7. pc'[r] \in Selecting =>
          left \subseteq up'[r] /\ Accounts \subseteq left \cup tried[r] \cup down'[r]
    BY <2>2, <2>3, <2>6 DEF Considered, Accounts
  <2>8. left \in SUBSET Accounts /\ left \cap tried[r] = {}
    BY <2>2
  <2> HIDE DEF left
  <2>9. QED
    BY <2>1, <2>7, <2>8, TryCandidatesSelects
<1>6. CASE ObserveHeaders(r)
  BY <1>6, SelectionKept DEF ObserveHeaders, requestVars
<1>7. CASE StreamServes(r) \/ StreamFails(r) \/ AnswerExhausted(r)
  <2>1. pc'[r] = "idle" /\ eligible'[r] = {}
    BY <1>0, <1>7 DEF StreamServes, StreamFails, AnswerExhausted, Answer, RequestTypeOK
  <2>2. QED
    BY <2>1, SelectionOver
<1>8. CASE StreamTransient(r) \/ MarkLimited(r)
  <2>1. pc[r] \in {"stream", "limited"} /\ pc'[r] = "scan" /\ eligible'[r] = eligible[r]
    BY <1>0, <1>8 DEF StreamTransient, MarkLimited, RequestTypeOK
  <2>2. eligible[r] = {}
    BY <2>1 DEF Selection, Offerable
  <2>3. QED
    BY <2>1, <2>2, SelectionOver
<1>9. CASE StreamLimited(r)
  <2>1. /\ pc[r] = "stream" /\ pc'[r] = "limiting" /\ UNCHANGED <<eligible, tried, chosen>>
        /\ chosen[r] \in refreshing'
    BY <1>0, <1>9 DEF StreamLimited, RequestTypeOK
  <2>2. Covered(r)' /\ Offerable(r)' /\ Awaited(r)'
    BY <2>1 DEF Selection, Covered, Offerable, Awaited
  <2>3. QED
    BY <2>2, HistoryCovers DEF Selection
<1>10. QED
  BY <1>1, <1>2, <1>3, <1>4, <1>5, <1>6, <1>7, <1>8, <1>9 DEF RequestStep

\* The end of a refresh wakes exactly the requests that await it.
LEMMA RefreshStepSelects ==
  ASSUME TypeOK, TypeOK', History, NEW a \in Accounts, RefreshStep(a),
         NEW r \in Requests, Selection(r)
  PROVE  Selection(r)'
<1>1. RefreshSettles(a)
  BY DEF RefreshStep, RefreshAnswered, RefreshFailed, RefreshEmpty
<1>2. /\ tried'[r] = tried[r] /\ eligible'[r] = eligible[r]
      /\ cursor'[r] = cursor[r] /\ chosen'[r] = chosen[r]
      /\ refreshing' = refreshing \ {a}
      /\ pc'[r] = IF pc[r] = "usage" /\ cursor[r] = a THEN "weigh"
                  ELSE IF pc[r] = "limiting" /\ chosen[r] = a THEN "limited" ELSE pc[r]
  BY <1>1 DEF RefreshSettles
<1>3. CASE pc[r] = "usage" /\ cursor[r] = a
  <2>1. pc'[r] = "weigh"
    BY <1>2, <1>3
  <2>2. down[r] \subseteq down'[r] /\ up[r] \subseteq up'[r]
    BY <2>1, HistoryCovers DEF Selecting
  <2>3. Covered(r)' /\ Offerable(r)' /\ Awaited(r)'
    BY <1>2, <1>3, <2>1, <2>2 DEF Selection, Covered, Considered, Offerable, Awaited
  <2>4. QED
    BY <2>3, HistoryCovers DEF Selection
<1>4. CASE pc[r] = "limiting" /\ chosen[r] = a
  <2>1. pc'[r] = "limited" /\ eligible'[r] = {}
    BY <1>2, <1>4 DEF Selection, Offerable
  <2>2. QED
    BY <2>1, SelectionOver
<1>5. CASE ~(pc[r] = "usage" /\ cursor[r] = a) /\ ~(pc[r] = "limiting" /\ chosen[r] = a)
  <2>1. pc'[r] = pc[r]
    BY <1>2, <1>5
  <2>2. Covered(r)' /\ Offerable(r)'
    <3>1. pc'[r] \in Selecting => down[r] \subseteq down'[r] /\ up[r] \subseteq up'[r]
      BY <2>1, HistoryCovers
    <3>2. QED
      BY <1>2, <2>1, <3>1 DEF Selection, Covered, Considered, Offerable, Selecting
  <2>3. Awaited(r)'
    BY <1>2, <1>5, <2>1 DEF Selection, Awaited
  <2>4. QED
    BY <2>2, <2>3, HistoryCovers DEF Selection
<1>6. QED
  BY <1>3, <1>4, <1>5

LEMMA SelectionInit == Init => SelectionInv
<1>1. SUFFICES ASSUME Init PROVE SelectionInv
  OBVIOUS
<1>2. \A r \in Requests : pc[r] = "idle" /\ eligible[r] = {}
  BY <1>1 DEF Init
<1>3. \A r \in Requests : Selection(r)
  BY <1>2 DEF Selection, Observed, Covered, Offerable, Awaited, Selecting
<1>4. QED
  BY <1>1, <1>3, InitType DEF SelectionInv

LEMMA SelectionStep == SelectionInv /\ [Next]_vars => SelectionInv'
<1>1. SUFFICES ASSUME SelectionInv, [Next]_vars PROVE SelectionInv'
  OBVIOUS
<1>2. TypeOK /\ TypeOK' /\ PoolTypeOK /\ RequestTypeOK
  BY <1>1, StepType DEF SelectionInv, TypeOK
<1>3. CASE Next
  <2>1. History
    BY <1>3 DEF Next
  <2>2. SUFFICES ASSUME NEW q \in Requests PROVE Selection(q)'
    BY <1>2 DEF SelectionInv
  <2>3. Selection(q)
    BY <1>1 DEF SelectionInv
  <2>4. CASE Tick
    BY <1>2, <2>1, <2>3, <2>4, SelectionKept DEF Tick, accountVars, requestVars
  <2>5. CASE \E r \in Requests : RequestStep(r)
    <3>1. PICK r \in Requests : RequestStep(r)
      BY <2>5
    <3>2. CASE q = r
      BY <1>2, <2>1, <2>3, <3>1, <3>2, RequestStepSelects
    <3>3. CASE q # r
      <4>1. Undisturbed(q) /\ refreshing \subseteq refreshing'
        BY <1>2, <3>1, <3>3, RequestStepOthers
      <4>2. QED
        BY <1>2, <2>1, <2>3, <4>1, SelectionKept DEF Undisturbed
    <3>4. QED
      BY <3>2, <3>3
  <2>6. CASE \E a \in Accounts : RefreshStep(a)
    BY <1>2, <2>1, <2>3, <2>6, RefreshStepSelects
  <2>7. QED
    BY <1>3, <2>4, <2>5, <2>6 DEF Next, Step
<1>4. CASE UNCHANGED vars
  <2>1. \A a \in Accounts : Blocked(a)' <=> Blocked(a)
    BY <1>4 DEF vars, codeVars, accountVars, Blocked
  <2>2. SUFFICES ASSUME NEW q \in Requests PROVE Selection(q)'
    BY <1>2 DEF SelectionInv
  <2>3. Selection(q)
    BY <1>1 DEF SelectionInv
  <2>4. Observed(q)'
    BY <1>4, <2>1, <2>3 DEF vars, codeVars, requestVars, Selection, Observed
  <2>5. Covered(q)' /\ Offerable(q)' /\ Awaited(q)'
    BY <1>4, <2>3
    DEF vars, codeVars, accountVars, requestVars, Selection, Covered, Considered, Offerable, Awaited
  <2>6. QED
    BY <2>4, <2>5 DEF Selection
<1>5. QED
  BY <1>1, <1>3, <1>4

LEMMA SelectionInvariant == Spec => []SelectionInv
<1>1. QED
  BY SelectionInit, SelectionStep, PTL DEF Spec

\* select throws "every account is used up" only when the request has tried every
\* account or seen it blocked during that very selection, for any number of
\* accounts, requests and interleaved usage reports.
THEOREM NoFalseExhaustionHolds == Spec => []NoFalseExhaustion
<1>1. SelectionInv => NoFalseExhaustion
  BY DEF SelectionInv, Selection, Covered, Offerable, Considered, NoFalseExhaustion, Accounts
<1>2. QED
  BY <1>1, SelectionInvariant, PTL

\* select only returns accounts that were usable at some moment of the selection.
THEOREM OfferedWasUsableHolds == Spec => []OfferedWasUsable
<1>1. SelectionInv => OfferedWasUsable
  BY DEF SelectionInv, Selection, Offerable, OfferedWasUsable
<1>2. QED
  BY <1>1, SelectionInvariant, PTL

\* handleMessages never sends a request to the same account twice.
THEOREM NoRepeatedAttemptHolds == Spec => []NoRepeatedAttempt
<1>1. SelectionInv => NoRepeatedAttempt
  BY DEF SelectionInv, Selection, Covered, Offerable, NoRepeatedAttempt
<1>2. QED
  BY <1>1, SelectionInvariant, PTL

\* Whoever awaits `account.refresh` awaits a refresh that is under way.
THEOREM NoLostWakeupHolds == Spec => []NoLostWakeup
<1>1. SelectionInv => NoLostWakeup
  BY DEF SelectionInv, Selection, Awaited, NoLostWakeup
<1>2. QED
  BY <1>1, SelectionInvariant, PTL

-----------------------------------------------------------------------------
(***************************************************************************)
(* The pool and the retry loop implement RequestRouting: each step of a    *)
(* request is a step of the routing or lets others observe.                *)
(***************************************************************************)
\* Where a request's step can lead, and what becomes of its attempts.
Route(r) ==
  \/ pc[r] = "idle" /\ pc'[r] = "scan" /\ tried'[r] = tried[r]
  \/ pc[r] = "auth" /\ pc'[r] = "stream" /\ tried'[r] = tried[r] \cup {chosen[r]}
  \/ pc[r] \in {"stream", "limited"} /\ pc'[r] = "scan" /\ tried'[r] = tried[r]
  \/ pc[r] \in {"scan", "weigh", "auth"} /\ pc'[r] = "exhausted" /\ tried'[r] = tried[r]
  \/ pc[r] # "idle" /\ pc'[r] = "idle" /\ tried'[r] = {}
  \/ pc[r] \in {"scan", "weigh", "auth"} /\ pc'[r] \in {"usage", "weigh", "auth"}
       /\ tried'[r] = tried[r]
  \/ pc[r] = "stream" /\ pc'[r] \in {"stream", "limiting"} /\ tried'[r] = tried[r]

LEMMA AnswerRoute ==
  ASSUME RequestTypeOK, NEW r \in Requests, Answer(r)
  PROVE  pc'[r] = "idle" /\ tried'[r] = {}
BY DEF Answer, RequestTypeOK

LEMMA TryCandidatesRoute ==
  ASSUME RequestTypeOK, NEW r \in Requests, NEW candidates, NEW preferred, NEW authUntil,
         TryCandidates(r, candidates, preferred, authUntil)
  PROVE  \/ pc'[r] \in {"exhausted", "auth"} /\ tried'[r] = tried[r]
         \/ pc'[r] = "idle" /\ tried'[r] = {}
<1>1. CASE Answer(r)
  BY <1>1, AnswerRoute
<1>2. CASE ~Answer(r)
  <2>1. \/ pc' = [pc EXCEPT ![r] = "exhausted"] /\ UNCHANGED tried
        \/ pc' = [pc EXCEPT ![r] = "auth"] /\ UNCHANGED tried
    BY <1>2, Zenon DEF TryCandidates, NothingToOffer
  <2>2. QED
    BY <2>1 DEF RequestTypeOK
<1>3. QED
  BY <1>1, <1>2

LEMMA ScanFromRoute ==
  ASSUME RequestTypeOK, NEW r \in Requests, NEW first, NEW found, ScanFrom(r, first, found)
  PROVE  \/ pc'[r] \in {"usage", "weigh", "exhausted", "auth"} /\ tried'[r] = tried[r]
         \/ pc'[r] = "idle" /\ tried'[r] = {}
<1>1. \E candidates, stop : \/ AwaitUsage(r, candidates, stop)
                            \/ TryCandidates(r, candidates, StickyIndex(r), authFailedUntil)
  BY Zenon DEF ScanFrom
<1>2. PICK candidates, stop : \/ AwaitUsage(r, candidates, stop)
                              \/ TryCandidates(r, candidates, StickyIndex(r), authFailedUntil)
  BY <1>1
<1>3. CASE AwaitUsage(r, candidates, stop)
  BY <1>3 DEF AwaitUsage, RequestTypeOK
<1>4. CASE TryCandidates(r, candidates, StickyIndex(r), authFailedUntil)
  BY <1>4, TryCandidatesRoute
<1>5. QED
  BY <1>2, <1>3, <1>4

LEMMA RequestRoute ==
  ASSUME RequestTypeOK, NEW r \in Requests, RequestStep(r)
  PROVE  Route(r)
<1>1. CASE Scan(r) \/ Weigh(r)
  BY <1>1, ScanFromRoute DEF Scan, Weigh, Route
<1>2. CASE AuthFailed(r)
  BY <1>2, TryCandidatesRoute DEF AuthFailed, Route
<1>3. CASE StreamServes(r) \/ StreamFails(r) \/ AnswerExhausted(r)
  BY <1>3, AnswerRoute DEF StreamServes, StreamFails, AnswerExhausted, Route
<1>4. CASE Arrive(r) \/ AuthResolved(r) \/ ObserveHeaders(r)
  BY <1>4 DEF Arrive, AuthResolved, ObserveHeaders, requestVars, RequestTypeOK, Route
<1>5. CASE StreamTransient(r) \/ StreamLimited(r) \/ MarkLimited(r)
  BY <1>5 DEF StreamTransient, StreamLimited, MarkLimited, RequestTypeOK, Route
<1>6. QED
  BY <1>1, <1>2, <1>3, <1>4, <1>5 DEF RequestStep

\* The phase of a request that is suspended at pc[r].
LEMMA PhaseOf ==
  ASSUME NEW r \in Requests, RequestTypeOK
  PROVE  /\ Phase(r) = "idle" <=> pc[r] = "idle"
         /\ Phase(r) = "choosing" <=> pc[r] \in {"scan", "usage", "weigh", "auth"}
         /\ Phase(r) = "upstream" <=> pc[r] \in {"stream", "limiting", "limited"}
         /\ Phase(r) = "refused" <=> pc[r] = "exhausted"
<1>1. pc[r] \in Ready \cup Suspended
  BY DEF RequestTypeOK
<1>2. CASE pc[r] = "idle"
  BY <1>2 DEF Phase
<1>3. CASE pc[r] \in {"scan", "usage", "weigh", "auth"}
  BY <1>3 DEF Phase
<1>4. CASE pc[r] \in {"stream", "limiting", "limited"}
  BY <1>4 DEF Phase
<1>5. CASE pc[r] = "exhausted"
  BY <1>5 DEF Phase
<1>6. QED
  BY <1>1, <1>2, <1>3, <1>4, <1>5 DEF Ready, Suspended

\* What a request is known to have seen only grows while it chooses, and is
\* forgotten when it does not.
LEMMA SeesDown ==
  ASSUME TypeOK, TypeOK', History, NEW r \in Requests
  PROVE  /\ Routing!Sees(r, {})
         /\ pc'[r] # "scan" \/ pc[r] = "scan" => Routing!Sees(r, down[r])
<1>1. (Phase(r) \in {"choosing", "refused"})' <=> pc'[r] \in Selecting
  <2>1. RequestTypeOK'
    BY DEF TypeOK
  <2>2. (RequestTypeOK => /\ Phase(r) = "choosing" <=> pc[r] \in {"scan", "usage", "weigh", "auth"}
                          /\ Phase(r) = "refused" <=> pc[r] = "exhausted")'
    BY PhaseOf, PTL
  <2>3. QED
    BY <2>1, <2>2 DEF Selecting
<1>2. pc'[r] \notin Selecting => down'[r] = {}
  BY DEF History, Watched
<1>3. pc'[r] \in Selecting /\ (pc'[r] # "scan" \/ pc[r] = "scan") => down[r] \subseteq down'[r]
  BY HistoryCovers
<1>4. QED
  BY <1>1, <1>2, <1>3 DEF Routing!Sees

\* Nothing happens to the others than that they may see more.
LEMMA OthersSee ==
  ASSUME TypeOK, TypeOK', History, NEW r \in Requests,
         \A q \in Requests \ {r} : Undisturbed(q)
  PROVE  Routing!Others(r)
<1>1. SUFFICES ASSUME NEW q \in Requests \ {r}
               PROVE  /\ Phase(q)' = Phase(q) /\ tried'[q] = tried[q]
                      /\ Routing!Sees(q, down[q])
  BY DEF Routing!Others
<1>2. pc'[q] = pc[q] /\ tried'[q] = tried[q]
  BY DEF Undisturbed
<1>3. Phase(q)' = Phase(q)
  BY <1>2 DEF Phase
<1>4. QED
  BY <1>2, <1>3, SeesDown

\* A step that moves no request from one phase to another is an observation.
LEMMA OnlyObserves ==
  ASSUME TypeOK, TypeOK', History, tried' = tried,
         \A q \in Requests : Phase(q)' = Phase(q) /\ (pc'[q] # "scan" \/ pc[q] = "scan")
  PROVE  Routing!Observe
BY SeesDown DEF Routing!Observe

\* Every step of the pool and of handleMessages is a step of the routing: sent to
\* an account it was not sent to before, refused only when all are accounted for.
THEOREM RoutingImplemented == Spec => ImplementsRouting
<1> DEFINE phases == [r \in Requests |-> Phase(r)]
<1>1. Init => Routing!Init
  BY DEF Init, Routing!Init, Phase
<1>2. ASSUME SelectionInv, SelectionInv', [Next]_vars
      PROVE  [Routing!Next]_<<phases, tried, down>>
  <2>0. TypeOK /\ TypeOK' /\ RequestTypeOK /\ RequestTypeOK'
    BY <1>2 DEF SelectionInv, TypeOK
  <2>1. ASSUME NEW r \in Requests, RequestStep(r), History
        PROVE  Routing!Next
    <3>1. \A q \in Requests \ {r} : Undisturbed(q)
      BY <2>0, <2>1, RequestStepOthers
    <3>2. Routing!Others(r)
      BY <2>0, <2>1, <3>1, OthersSee
    <3>3. Routing!Sees(r, {}) /\ (pc'[r] # "scan" \/ pc[r] = "scan" => Routing!Sees(r, down[r]))
      BY <2>0, <2>1, SeesDown
    <3>4. /\ Phase(r) = "idle" <=> pc[r] = "idle"
          /\ Phase(r) = "choosing" <=> pc[r] \in {"scan", "usage", "weigh", "auth"}
          /\ Phase(r) = "upstream" <=> pc[r] \in {"stream", "limiting", "limited"}
          /\ Phase(r) = "refused" <=> pc[r] = "exhausted"
      BY <2>0, PhaseOf
    <3>5. /\ Phase(r)' = "idle" <=> pc'[r] = "idle"
          /\ Phase(r)' = "choosing" <=> pc'[r] \in {"scan", "usage", "weigh", "auth"}
          /\ Phase(r)' = "upstream" <=> pc'[r] \in {"stream", "limiting", "limited"}
          /\ Phase(r)' = "refused" <=> pc'[r] = "exhausted"
      <4>1. (RequestTypeOK =>
               /\ Phase(r) = "idle" <=> pc[r] = "idle"
               /\ Phase(r) = "choosing" <=> pc[r] \in {"scan", "usage", "weigh", "auth"}
               /\ Phase(r) = "upstream" <=> pc[r] \in {"stream", "limiting", "limited"}
               /\ Phase(r) = "refused" <=> pc[r] = "exhausted")'
        BY PhaseOf, PTL
      <4>2. QED
        BY <2>0, <4>1
    <3>6. phases[r] = Phase(r) /\ phases'[r] = Phase(r)'
      OBVIOUS
    <3>7. CASE pc[r] = "idle" /\ pc'[r] = "scan" /\ tried'[r] = tried[r]
      <4>1. Routing!Start(r)
        BY <3>2, <3>3, <3>4, <3>5, <3>7 DEF Routing!Start
      <4>2. QED
        BY <4>1 DEF Routing!Next
    <3>8. CASE pc[r] = "auth" /\ pc'[r] = "stream" /\ tried'[r] = tried[r] \cup {chosen[r]}
      <4>1. chosen[r] \in Accounts \ tried[r]
        <5>1. Selection(r) /\ chosen[r] \in Accounts
          BY <1>2, <2>0, <3>8 DEF SelectionInv, RequestTypeOK
        <5>2. QED
          BY <5>1, <3>8 DEF Selection, Covered, Offerable
      <4>2. Routing!Send(r)
        BY <3>2, <3>3, <3>4, <3>5, <3>8, <4>1 DEF Routing!Send
      <4>3. QED
        BY <4>2 DEF Routing!Next
    <3>9. CASE pc[r] \in {"stream", "limited"} /\ pc'[r] = "scan" /\ tried'[r] = tried[r]
      <4>1. Routing!Retry(r)
        BY <3>2, <3>3, <3>4, <3>5, <3>9 DEF Routing!Retry
      <4>2. QED
        BY <4>1 DEF Routing!Next
    <3>10. CASE pc[r] \in {"scan", "weigh", "auth"} /\ pc'[r] = "exhausted" /\ tried'[r] = tried[r]
      <4>1. Accounts \subseteq tried[r] \cup down'[r]
        <5>1. Selection(r)'
          BY <1>2 DEF SelectionInv
        <5>2. QED
          BY <5>1, <3>10 DEF Selection, Covered, Considered, Offerable, Accounts
      <4>2. Routing!Refuse(r)
        BY <3>2, <3>3, <3>4, <3>5, <3>10, <4>1 DEF Routing!Refuse
      <4>3. QED
        BY <4>2 DEF Routing!Next
    <3>11. CASE pc[r] # "idle" /\ pc'[r] = "idle" /\ tried'[r] = {}
      <4>1. pc[r] \in Ready \cup Suspended
        BY <2>0 DEF RequestTypeOK
      <4>2. Routing!Reply(r)
        BY <3>2, <3>3, <3>4, <3>5, <3>11, <4>1 DEF Routing!Reply, Ready, Suspended
      <4>3. QED
        BY <4>2 DEF Routing!Next
    <3>12. CASE /\ \/ /\ pc[r] \in {"scan", "weigh", "auth"}
                      /\ pc'[r] \in {"usage", "weigh", "auth"}
                   \/ pc[r] = "stream" /\ pc'[r] \in {"stream", "limiting"}
                /\ tried'[r] = tried[r]
      <4>1. tried' = tried
        BY <2>0, <3>1, <3>12 DEF Undisturbed, RequestTypeOK
      <4>2. Phase(r)' = Phase(r)
        BY <3>4, <3>5, <3>12
      <4>3. ASSUME NEW q \in Requests \ {r}
            PROVE  Phase(q)' = Phase(q) /\ pc'[q] = pc[q]
        <5>1. pc'[q] = pc[q]
          BY <3>1 DEF Undisturbed
        <5>2. QED
          BY <5>1 DEF Phase
      <4>4. \A q \in Requests : Phase(q)' = Phase(q) /\ (pc'[q] # "scan" \/ pc[q] = "scan")
        BY <3>12, <4>2, <4>3
      <4>5. Routing!Observe
        BY <2>0, <2>1, <4>1, <4>4, OnlyObserves
      <4>6. QED
        BY <4>5 DEF Routing!Next
    <3>13. Route(r)
      BY <2>0, <2>1, RequestRoute
    <3>14. QED
      BY <3>7, <3>8, <3>9, <3>10, <3>11, <3>12, <3>13 DEF Route
  <2>2. ASSUME History, tried' = tried,
               \A q \in Requests : \/ pc'[q] = pc[q]
                                   \/ pc[q] = "usage" /\ pc'[q] = "weigh"
                                   \/ pc[q] = "limiting" /\ pc'[q] = "limited"
        PROVE  Routing!Next
    <3>1. ASSUME NEW q \in Requests
          PROVE  Phase(q)' = Phase(q) /\ (pc'[q] # "scan" \/ pc[q] = "scan")
      <4>1. CASE pc'[q] = pc[q]
        BY <4>1 DEF Phase
      <4>2. CASE pc[q] = "usage" /\ pc'[q] = "weigh"
        BY <4>2 DEF Phase
      <4>3. CASE pc[q] = "limiting" /\ pc'[q] = "limited"
        BY <4>3 DEF Phase
      <4>4. QED
        BY <2>2, <4>1, <4>2, <4>3
    <3>2. Routing!Observe
      BY <2>0, <2>2, <3>1, OnlyObserves
    <3>3. QED
      BY <3>2 DEF Routing!Next
  <2>3. CASE Tick /\ History
    BY <2>2, <2>3 DEF Tick, requestVars
  <2>4. CASE (\E a \in Accounts : RefreshStep(a)) /\ History
    <3>1. PICK a \in Accounts : RefreshSettles(a)
      BY <2>4 DEF RefreshStep, RefreshAnswered, RefreshFailed, RefreshEmpty
    <3>2. tried' = tried /\ \A q \in Requests : \/ pc'[q] = pc[q]
                                                \/ pc[q] = "usage" /\ pc'[q] = "weigh"
                                                \/ pc[q] = "limiting" /\ pc'[q] = "limited"
      BY <3>1 DEF RefreshSettles
    <3>3. QED
      BY <2>2, <2>4, <3>2
  <2>5. CASE UNCHANGED vars
    <3>1. UNCHANGED <<pc, tried, down>>
      BY <2>5 DEF vars, codeVars, requestVars
    <3>2. phases' = phases
      BY <3>1 DEF Phase
    <3>3. QED
      BY <3>1, <3>2
  <2>6. QED
    BY <1>2, <2>1, <2>3, <2>4, <2>5 DEF Next, Step
<1>3. QED
  BY <1>1, <1>2, SelectionInvariant, PTL
  DEF Spec, ImplementsRouting, Routing!Spec, Routing!vars

-----------------------------------------------------------------------------
(***************************************************************************)
(* Sessions.  A request reads its session's binding when its scan ends and *)
(* rebinds the session when its credentials have come, so what it read     *)
(* must still be what is bound, unless another request of the session      *)
(* awaited credentials too: then it is in crossed.                         *)
(***************************************************************************)
\* The account chosen is the sticky one if that is a candidate, and a binding that
\* is still live is the one the request has read.
Preferred(r) ==
  pc[r] = "auth" => /\ chosen[r] \in Picks(eligible[r], sticky[r])
                    /\ StickyIndex(r) \in {NoAccount, sticky[r]}
PreferredInv == \A r \in Requests : r \in crossed \/ Preferred(r)

\* The loop over the candidates keeps to the account it prefers.
LEMMA TryCandidatesPrefers ==
  ASSUME RequestTypeOK, NEW r \in Requests, NEW candidates, NEW preferred, NEW authUntil,
         TryCandidates(r, candidates, preferred, authUntil), pc'[r] = "auth"
  PROVE  sticky'[r] = preferred /\ chosen'[r] \in Picks(eligible'[r], sticky'[r])
<1>1. candidates # {}
  <2>1. SUFFICES ASSUME candidates = {} PROVE FALSE
    OBVIOUS
  <2>2. pc' = [pc EXCEPT ![r] = "exhausted"] \/ pc' = [pc EXCEPT ![r] = "idle"]
    BY <2>1, Zenon DEF TryCandidates, NothingToOffer, Answer
  <2>3. QED
    BY <2>2 DEF RequestTypeOK
<1>2. /\ eligible' = [eligible EXCEPT ![r] = candidates]
      /\ sticky' = [sticky EXCEPT ![r] = preferred]
      /\ \E a \in Picks(candidates, preferred) : chosen' = [chosen EXCEPT ![r] = a]
  BY <1>1, Zenon DEF TryCandidates
<1>3. QED
  BY <1>2 DEF RequestTypeOK

\* A step of another request leaves what r prefers alone.
LEMMA StickyOthers ==
  ASSUME RequestTypeOK, NEW r \in Requests, RequestStep(r), NEW q \in Requests, q # r
  PROVE  sticky'[q] = sticky[q]
<1>1. CASE Scan(r) \/ Weigh(r)
  <2>1. \E candidates, stop : \/ AwaitUsage(r, candidates, stop)
                              \/ TryCandidates(r, candidates, StickyIndex(r), authFailedUntil)
    BY <1>1, Zenon DEF Scan, Weigh, ScanFrom
  <2>2. QED
    BY <2>1 DEF AwaitUsage, TryCandidates, NothingToOffer, Answer, RequestTypeOK
<1>2. CASE AuthFailed(r)
  BY <1>2 DEF AuthFailed, TryCandidates, NothingToOffer, Answer, RequestTypeOK
<1>3. CASE StreamServes(r) \/ StreamFails(r) \/ AnswerExhausted(r)
  BY <1>3 DEF StreamServes, StreamFails, AnswerExhausted, Answer, RequestTypeOK
<1>4. CASE Arrive(r) \/ AuthResolved(r) \/ ObserveHeaders(r)
  BY <1>4 DEF Arrive, AuthResolved, ObserveHeaders, requestVars, RequestTypeOK
<1>5. CASE StreamTransient(r) \/ StreamLimited(r) \/ MarkLimited(r)
  BY <1>5 DEF StreamTransient, StreamLimited, MarkLimited
<1>6. QED
  BY <1>1, <1>2, <1>3, <1>4, <1>5 DEF RequestStep

\* The clock stands still while a request runs.
LEMMA ClockStands == ASSUME NEW r \in Requests, RequestStep(r) PROVE now' = now
BY DEF RequestStep, Arrive, Scan, Weigh, ScanFrom, AuthResolved, AuthFailed, ObserveHeaders,
       StreamServes, StreamFails, StreamTransient, StreamLimited, MarkLimited, AnswerExhausted

\* What a step of a request does to a binding: only AuthResolved binds, only its
\* own session and to the account chosen; any other change unbinds.
LEMMA BindingChanges ==
  ASSUME TypeOK, NEW r \in Requests, RequestStep(r), NEW k \in Sessions
  PROVE  \/ sessions'[k] = sessions[k]
         \/ sessions'[k].index = NoAccount
         \/ AuthResolved(r) /\ SessionOf[r] = k /\ sessions'[k].index = chosen[r]
<1>1. CASE AuthResolved(r)
  <2> DEFINE key == SessionOf[r]
             bound == [sessions EXCEPT ![key] = [index |-> chosen[r], lastUsed |-> now]]
             keys == {j \in Sessions : bound[j].index # NoAccount}
  <2>1. \/ UNCHANGED sessions
        \/ sessions' = bound
        \/ \E j \in keys : sessions' = [bound EXCEPT ![j] = [index |-> NoAccount, lastUsed |-> 0]]
    BY <1>1 DEF AuthResolved, Bind
  <2>2. /\ sessions \in [Sessions -> [index: 0..N, lastUsed: Nat]]
        /\ bound[k] = IF k = key THEN [index |-> chosen[r], lastUsed |-> now] ELSE sessions[k]
        /\ DOMAIN bound = Sessions
    BY DEF TypeOK, PoolTypeOK
  <2> HIDE DEF keys, bound
  <2>3. \/ sessions'[k] = sessions[k]
        \/ sessions'[k] = bound[k]
        \/ sessions'[k].index = NoAccount
    BY <2>1, <2>2
  <2>4. QED
    BY <1>1, <2>2, <2>3 DEF AuthResolved
<1>2. CASE Scan(r) \/ Weigh(r)
  BY <1>2, Zenon DEF Scan, Weigh, ScanFrom
<1>3. CASE MarkLimited(r)
  BY <1>3 DEF MarkLimited
<1>4. CASE Arrive(r) \/ AuthFailed(r) \/ ObserveHeaders(r) \/ StreamServes(r) \/ StreamFails(r)
             \/ StreamTransient(r) \/ StreamLimited(r) \/ AnswerExhausted(r)
  BY <1>4 DEF Arrive, AuthFailed, ObserveHeaders, StreamServes, StreamFails, StreamTransient,
              StreamLimited, AnswerExhausted
<1>5. QED
  BY <1>1, <1>2, <1>3, <1>4 DEF RequestStep

\* The live binding of a request's session can only lapse, as long as no request
\* of that session binds it.
LEMMA StickyLapses ==
  ASSUME TypeOK, TypeOK', NEW r \in Requests, now' >= now,
         SessionOf[r] # NoSession =>
           \/ sessions'[SessionOf[r]] = sessions[SessionOf[r]]
           \/ sessions'[SessionOf[r]].index = NoAccount
  PROVE  StickyIndex(r)' \in {NoAccount, StickyIndex(r)}
<1>1. CASE SessionOf[r] = NoSession
  BY <1>1 DEF StickyIndex
<1>2. CASE SessionOf[r] # NoSession
  <2> DEFINE k == SessionOf[r]
  <2>1. k \in Sessions
    BY <1>2, ConstantsAssumption
  <2>2. /\ now \in Nat /\ now' \in Nat /\ StickyTtl \in Nat /\ sessions[k].lastUsed \in Nat
        /\ sessions'[k] = sessions[k] \/ sessions'[k].index = NoAccount
    BY <1>2, <2>1, ConstantsAssumption DEF TypeOK, PoolTypeOK
  <2>3. StickyIndex(r) = IF sessions[k].index # NoAccount /\ sessions[k].lastUsed + StickyTtl > now
                         THEN sessions[k].index ELSE NoAccount
    BY <1>2 DEF StickyIndex
  <2>4. StickyIndex(r)' = IF sessions'[k].index # NoAccount /\ sessions'[k].lastUsed + StickyTtl > now'
                          THEN sessions'[k].index ELSE NoAccount
    BY <1>2 DEF StickyIndex
  <2>5. QED
    BY <2>2, <2>3, <2>4
<1>3. QED
  BY <1>1, <1>2

\* A step of r keeps Preferred(r).
LEMMA OwnStepPrefers ==
  ASSUME SelectionInv, SelectionInv', NEW r \in Requests, RequestStep(r), Preferred(r)
  PROVE  Preferred(r)'
<1>0. TypeOK /\ TypeOK' /\ RequestTypeOK
  BY DEF SelectionInv, TypeOK
<1>1. SUFFICES ASSUME pc'[r] = "auth" PROVE Preferred(r)'
  BY DEF Preferred
<1>2. ~AuthResolved(r)
  BY <1>0, <1>1 DEF AuthResolved, RequestTypeOK
<1>3. SessionOf[r] # NoSession =>
        \/ sessions'[SessionOf[r]] = sessions[SessionOf[r]]
        \/ sessions'[SessionOf[r]].index = NoAccount
  <2>1. SUFFICES ASSUME SessionOf[r] \in Sessions
                 PROVE  \/ sessions'[SessionOf[r]] = sessions[SessionOf[r]]
                        \/ sessions'[SessionOf[r]].index = NoAccount
    BY ConstantsAssumption
  <2>2. QED
    BY <1>0, <1>2, <2>1, BindingChanges
<1>4. StickyIndex(r)' \in {NoAccount, StickyIndex(r)}
  <2>1. now' >= now
    BY <1>0, ClockStands DEF TypeOK, PoolTypeOK
  <2>2. QED
    BY <1>0, <1>3, <2>1, StickyLapses
<1>5. CASE Scan(r) \/ Weigh(r)
  <2>1. PICK candidates, stop : \/ AwaitUsage(r, candidates, stop)
                                \/ TryCandidates(r, candidates, StickyIndex(r), authFailedUntil)
    BY <1>5, Zenon DEF Scan, Weigh, ScanFrom
  <2>2. ~AwaitUsage(r, candidates, stop)
    BY <1>0, <1>1 DEF AwaitUsage, RequestTypeOK
  <2>3. sticky'[r] = StickyIndex(r) /\ chosen'[r] \in Picks(eligible'[r], sticky'[r])
    BY <1>0, <1>1, <2>1, <2>2, TryCandidatesPrefers
  <2>4. QED
    BY <1>4, <2>3 DEF Preferred, Picks
<1>6. CASE AuthFailed(r)
  <2>1. sticky'[r] = sticky[r] /\ chosen'[r] \in Picks(eligible'[r], sticky'[r])
    BY <1>0, <1>1, <1>6, TryCandidatesPrefers DEF AuthFailed
  <2>2. StickyIndex(r) \in {NoAccount, sticky[r]}
    BY <1>6 DEF Preferred, AuthFailed
  <2>3. QED
    BY <1>4, <2>1, <2>2 DEF Preferred, Picks
<1>7. CASE StreamServes(r) \/ StreamFails(r) \/ AnswerExhausted(r)
  BY <1>0, <1>1, <1>7 DEF StreamServes, StreamFails, AnswerExhausted, Answer, RequestTypeOK
<1>8. CASE Arrive(r) \/ AuthResolved(r) \/ ObserveHeaders(r)
  BY <1>0, <1>1, <1>8 DEF Arrive, AuthResolved, ObserveHeaders, requestVars, RequestTypeOK
<1>9. CASE StreamTransient(r) \/ StreamLimited(r) \/ MarkLimited(r)
  BY <1>0, <1>1, <1>9 DEF StreamTransient, StreamLimited, MarkLimited, RequestTypeOK
<1>10. QED
  BY <1>5, <1>6, <1>7, <1>8, <1>9 DEF RequestStep

\* A step that leaves r's locals alone keeps Preferred(r) when it only lets
\* bindings lapse.
LEMMA OthersPrefer ==
  ASSUME TypeOK, TypeOK', NEW r \in Requests, Preferred(r), now' >= now,
         pc'[r] = "auth" => /\ pc[r] = "auth" /\ eligible'[r] = eligible[r]
                            /\ chosen'[r] = chosen[r] /\ sticky'[r] = sticky[r],
         SessionOf[r] # NoSession /\ pc[r] = "auth" =>
           \/ sessions'[SessionOf[r]] = sessions[SessionOf[r]]
           \/ sessions'[SessionOf[r]].index = NoAccount
  PROVE  Preferred(r)'
<1>1. SUFFICES ASSUME pc'[r] = "auth" PROVE Preferred(r)'
  BY DEF Preferred
<1>2. StickyIndex(r)' \in {NoAccount, StickyIndex(r)}
  BY <1>1, StickyLapses
<1>3. QED
  BY <1>1, <1>2 DEF Preferred, Picks

\* The history names every request that awaits credentials together with another.
CrossInv == \A r, q \in Requests : BothAwait(r, q) => r \in crossed

LEMMA CrossStep == CrossInv /\ [Next]_vars => CrossInv'
<1>1. ASSUME CrossInv, Next PROVE CrossInv'
  BY <1>1 DEF CrossInv, BothAwait, Next, History
<1>2. ASSUME CrossInv, UNCHANGED vars PROVE CrossInv'
  BY <1>2 DEF CrossInv, BothAwait, vars, codeVars, requestVars
<1>3. QED
  BY <1>1, <1>2

\* A request in that history stays there as long as it awaits.
LEMMA CrossedStays ==
  ASSUME [Next]_vars, NEW q \in Requests, q \in crossed, pc'[q] = "auth"
  PROVE  q \in crossed'
BY DEF Next, History, vars

LEMMA PreferredStep ==
  SelectionInv /\ SelectionInv' /\ CrossInv /\ PreferredInv /\ [Next]_vars => PreferredInv'
<1>1. SUFFICES ASSUME SelectionInv, SelectionInv', CrossInv, PreferredInv, [Next]_vars,
                      NEW q \in Requests, q \notin crossed', pc'[q] = "auth"
               PROVE  Preferred(q)'
  BY DEF PreferredInv, Preferred
<1>2. TypeOK /\ TypeOK' /\ RequestTypeOK /\ Preferred(q) /\ now \in Nat
  <2>1. q \notin crossed
    BY <1>1, CrossedStays
  <2>2. QED
    BY <1>1, <2>1 DEF SelectionInv, TypeOK, PoolTypeOK, PreferredInv
<1>3. CASE \E r \in Requests : RequestStep(r)
  <2>1. PICK r \in Requests : RequestStep(r)
    BY <1>3
  <2>2. CASE q = r
    BY <1>1, <1>2, <2>1, <2>2, OwnStepPrefers
  <2>3. CASE q # r
    <3>1. Undisturbed(q) /\ sticky'[q] = sticky[q]
      BY <1>2, <2>1, <2>3, RequestStepOthers, StickyOthers
    <3>2. ASSUME SessionOf[q] # NoSession, pc[q] = "auth"
          PROVE  \/ sessions'[SessionOf[q]] = sessions[SessionOf[q]]
                 \/ sessions'[SessionOf[q]].index = NoAccount
      <4>1. SessionOf[q] \in Sessions
        BY <3>2, ConstantsAssumption
      <4>2. ~(AuthResolved(r) /\ SessionOf[r] = SessionOf[q])
        BY <1>1, <2>3, <3>2, CrossedStays DEF AuthResolved, CrossInv, BothAwait
      <4>3. QED
        BY <1>2, <2>1, <4>1, <4>2, BindingChanges
    <3>3. now' >= now
      BY <1>2, <2>1, ClockStands
    <3>4. QED
      BY <1>2, <3>1, <3>2, <3>3, OthersPrefer DEF Undisturbed
  <2>4. QED
    BY <2>2, <2>3
<1>4. CASE Tick
  BY <1>2, <1>4, OthersPrefer DEF Tick, requestVars
<1>5. CASE \E a \in Accounts : RefreshStep(a)
  <2>1. PICK a \in Accounts : RefreshSettles(a)
    BY <1>5 DEF RefreshStep, RefreshAnswered, RefreshFailed, RefreshEmpty
  <2>2. /\ UNCHANGED <<now, sessions, eligible, sticky, chosen>>
        /\ pc'[q] = "auth" => pc[q] = "auth"
    BY <2>1 DEF RefreshSettles
  <2>3. QED
    BY <1>2, <2>2, OthersPrefer
<1>6. CASE UNCHANGED vars
  BY <1>2, <1>6, OthersPrefer DEF vars, codeVars, requestVars
<1>7. QED
  BY <1>1, <1>3, <1>4, <1>5, <1>6 DEF Next, Step

\* A live binding only moves away from an account that is tried or was blocked, or
\* across two awaits of its session.
LEMMA MoveHasCause ==
  ASSUME SelectionInv, PreferredInv, [Next]_vars, NEW k \in Sessions, Moves(k)
  PROVE  \E r \in Requests : LeavesForCause(r, k) \/ LeavesAcross(r, k)
<1>0. TypeOK /\ RequestTypeOK /\ PoolTypeOK
  BY DEF SelectionInv, TypeOK
<1>1. sessions' # sessions
  BY DEF Moves
<1>2. PICK r \in Requests : RequestStep(r)
  BY <1>1 DEF Next, Step, Tick, RefreshStep, RefreshAnswered, RefreshFailed, RefreshEmpty,
              RefreshSettles, vars, codeVars
<1>3. AuthResolved(r) /\ SessionOf[r] = k /\ sessions'[k].index = chosen[r]
  BY <1>0, <1>2, BindingChanges DEF Moves
<1>4. pc[r] = "auth" /\ pc'[r] = "stream"
  BY <1>0, <1>3 DEF AuthResolved, RequestTypeOK
<1>5. CASE r \in crossed
  BY <1>3, <1>4, <1>5 DEF LeavesAcross
<1>6. CASE r \notin crossed
  <2>1. sticky[r] = sessions[k].index
    <3>1. StickyIndex(r) = sessions[k].index
      BY <1>3, ConstantsAssumption DEF StickyIndex, Moves
    <3>2. StickyIndex(r) \in {NoAccount, sticky[r]}
      BY <1>4, <1>6 DEF PreferredInv, Preferred
    <3>3. QED
      BY <3>1, <3>2 DEF Moves
  <2>2. sessions[k].index \notin eligible[r]
    BY <1>3, <1>4, <1>6, <2>1 DEF PreferredInv, Preferred, Picks, Moves
  <2>3. sessions[k].index \in 1..N
    BY <1>0, ConstantsAssumption DEF PoolTypeOK, Moves, NoAccount
  <2>4. Considered(r, N)
    BY <1>4 DEF SelectionInv, Selection, Covered
  <2>5. QED
    BY <1>3, <1>4, <2>2, <2>3, <2>4 DEF Considered, LeavesForCause
<1>7. QED
  BY <1>5, <1>6

\* A session stays on its account while that account is available, except across
\* the awaits of two of its requests: for any number of accounts, requests and
\* sessions, whatever the usage endpoint and the upstream answer.
THEOREM SessionMovesForCauseHolds == Spec => SessionMovesForCause
<1>1. Init => PreferredInv /\ CrossInv
  BY DEF Init, PreferredInv, Preferred, CrossInv, BothAwait
<1>2. SelectionInv /\ PreferredInv /\ [Next]_vars =>
        [\A k \in Sessions : Moves(k) =>
           \E r \in Requests : LeavesForCause(r, k) \/ LeavesAcross(r, k)]_vars
  BY MoveHasCause
<1>3. QED
  BY <1>1, <1>2, SelectionInvariant, CrossStep, PreferredStep, PTL DEF Spec, SessionMovesForCause
=============================================================================
