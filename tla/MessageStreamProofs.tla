------------------------- MODULE MessageStreamProofs -------------------------
(***************************************************************************)
(* Proofs about MessageStream for messages of any number of blocks and     *)
(* deltas and any number of accounts.                                      *)
(***************************************************************************)
EXTENDS MessageStream, FiniteSetTheorems, SequenceTheorems, TLAPS

-----------------------------------------------------------------------------
(* Well-formed events and replies. *)

LEMMA EventFields ==
  ASSUME NEW e \in Events
  PROVE  /\ e.type \in {"open", "delta", "close"} => e.index \in Blocks
         /\ e.type \in {"nothing", "start", "open", "delta", "close", "done", "error", "throw", "end"}
BY DEF Events, Nothing

LEMMA WrittenMembers ==
  /\ \A type \in {"message_start", "message_delta"} \cup Ending : Message(type) \in Written
  /\ \A type \in {"start", "delta", "input", "stop"}, i \in Blocks : Block(type, i) \in Written
BY DEF Written, Message, Block

LEMMA BlocksFinite ==
  ASSUME NEW S, S \subseteq Blocks
  PROVE  IsFiniteSet(S)
<1>1. MaxBlocks \in Nat
  BY BoundsAssumption
<1>2. IsFiniteSet(1..MaxBlocks)
  BY <1>1, FS_Interval
<1>3. QED
  BY <1>2, FS_Subset DEF Blocks

\* What closes the open blocks at the end of a message is block stops.
LEMMA CloseAllType ==
  ASSUME openBlocks \subseteq Blocks
  PROVE  /\ CloseAll \in Seq(Written)
         /\ \A k \in DOMAIN CloseAll : CloseAll[k].type = "stop"
<1> DEFINE n == Cardinality(openBlocks)
           Distinct(f) == \A j, k \in 1..n : f[j] = f[k] => j = k
           order == CHOOSE f \in [1..n -> openBlocks] : Distinct(f)
<1>1. n \in Nat /\ ExistsBijection(1..n, openBlocks)
  BY BlocksFinite, FS_CardinalityType
<1>2. \E f \in [1..n -> openBlocks] : Distinct(f)
  <2>1. PICK f \in Bijection(1..n, openBlocks) : TRUE
    BY <1>1 DEF ExistsBijection
  <2>2. f \in [1..n -> openBlocks] /\ Distinct(f)
    BY <2>1 DEF Bijection, Injection, IsInjective
  <2>3. QED
    BY <2>2
<1>3. order \in [1..n -> openBlocks]
  <2> HIDE DEF Distinct
  <2>1. QED
    BY <1>2
<1>4. CloseAll = [k \in 1..n |-> Block("stop", order[k])]
  BY DEF CloseAll
<1>5. \A k \in 1..n : Block("stop", order[k]) \in Written
  <2> HIDE DEF order
  <2>1. QED
    BY <1>3, WrittenMembers
<1> HIDE DEF n, order
<1>6. CloseAll \in Seq(Written) /\ DOMAIN CloseAll = 1..n
  BY <1>1, <1>4, <1>5
<1>7. \A k \in 1..n : CloseAll[k].type = "stop"
  BY <1>4 DEF Block
<1>8. QED
  BY <1>6, <1>7

-----------------------------------------------------------------------------
(* Types. *)

LEMMA BoundsNat == MaxBlocks \in Nat /\ MaxDeltas \in Nat /\ MaxAttempts \in Nat
BY BoundsAssumption

LEMMA SendType ==
  ASSUME sent \in Seq(Written), NEW events \in Seq(Written), Send(events)
  PROVE  sent' \in Seq(Written)
BY DEF Send

LEMMA InitTypes == Init => TypeOK
<1> SUFFICES ASSUME Init PROVE TypeOK
  OBVIOUS
<1>1. RequestTypes
  <2>1. attempts \in 0..MaxAttempts /\ wasted \in Nat
    BY BoundsNat DEF Init
  <2>2. QED
    BY <2>1, Zenon DEF Init, RequestTypes
<1>2. UpstreamTypes
  <2>1. upstream = Unopened /\ event = Nothing /\ source = "going"
    BY DEF Init
  <2>2. upstream \in [Blocks -> UpstreamBlocks]
    BY <2>1, BoundsNat DEF Unopened, UpstreamBlock, UpstreamBlocks
  <2>3. event \in Events
    BY <2>1 DEF Events
  <2>4. QED
    BY <2>1, <2>2, <2>3 DEF UpstreamTypes
<1>3. ReplyTypes
  <2>1. sent \in Seq(Written)
    BY DEF Init
  <2>2. QED
    BY <2>1 DEF Init, ReplyTypes, Heads
<1>4. QED
  BY <1>1, <1>2, <1>3 DEF TypeOK

LEMMA AnswerTypes ==
  ASSUME TypeOK, NEW status \in {200, 400, 401, 413, 429, 499, 500, 502},
         Answer(status) \/ Throw(status)
  PROVE  TypeOK'
<1>1. Answer(status) \/ Send(<<Message("error")>>)
  BY DEF Throw
<1>2. sent' \in Seq(Written)
  <2>1. PICK type \in Ending : Send(<<Message(type)>>)
    BY <1>1 DEF Answer, Ending
  <2>2. Message(type) \in Written
    BY WrittenMembers
  <2>3. sent \in Seq(Written)
    BY DEF TypeOK, ReplyTypes
  <2>4. QED
    BY <2>1, <2>2, <2>3 DEF Send
<1>3. RequestTypes'
  BY DEF TypeOK, RequestTypes, Answer, Throw, Goto
<1>4. UpstreamTypes'
  BY DEF TypeOK, UpstreamTypes, Answer, Throw, Events
<1>5. ReplyTypes'
  BY <1>2 DEF TypeOK, ReplyTypes, Heads, Answer, Throw, translation
<1>6. QED
  BY <1>3, <1>4, <1>5 DEF TypeOK

LEMMA UpstreamStepTypes ==
  ASSUME TypeOK, Upstream
  PROVE  TypeOK'
<1>1. UNCHANGED <<phase, streaming, attempts, client, aborted, translation, reply, wasted>>
  BY DEF Upstream, UpstreamStarts, UpstreamOpens, UpstreamContinues, UpstreamCloses,
     UpstreamFinishes, UpstreamFails, UpstreamThrows, UpstreamEnds, Deliver, handler
<1>2. RequestTypes' /\ ReplyTypes'
  BY <1>1 DEF TypeOK, RequestTypes, ReplyTypes, translation, reply
<1>3. CASE UpstreamStarts \/ UpstreamFinishes \/ UpstreamFails \/ UpstreamThrows \/ UpstreamEnds
  <2>1. UpstreamTypes'
    BY <1>3 DEF UpstreamStarts, UpstreamFinishes, UpstreamFails, UpstreamThrows, UpstreamEnds,
       Deliver, TypeOK, UpstreamTypes, Events
  <2>2. QED
    BY <1>2, <2>1 DEF TypeOK
<1>4. ASSUME NEW i \in Blocks, NEW kind \in {"text", "thinking", "tool"},
             NEW deltas \in 0..MaxDeltas, NEW ended \in BOOLEAN,
             upstream' = [upstream EXCEPT ![i] = UpstreamBlock(kind, deltas, ended)],
             event' \in Events, UNCHANGED source
      PROVE  TypeOK'
  <2>1. UpstreamBlock(kind, deltas, ended) \in UpstreamBlocks
    BY DEF UpstreamBlock, UpstreamBlocks
  <2> HIDE DEF UpstreamBlock
  <2>2. upstream' \in [Blocks -> UpstreamBlocks]
    <3>1. upstream \in [Blocks -> UpstreamBlocks]
      BY DEF TypeOK, UpstreamTypes
    <3>2. QED
      BY <1>4, <2>1, <3>1, Zenon
  <2>3. QED
    BY <1>2, <1>4, <2>2 DEF TypeOK, UpstreamTypes
<1>5. ASSUME NEW i \in Blocks, Open(i)
      PROVE  /\ upstream[i].kind \in {"text", "thinking", "tool"}
             /\ upstream[i].deltas \in 0..MaxDeltas
  BY <1>5 DEF TypeOK, UpstreamTypes, UpstreamBlocks, Open
<1>6. CASE UpstreamOpens
  <2>1. PICK i \in Blocks, kind \in {"text", "thinking", "tool"} :
          /\ upstream' = [upstream EXCEPT ![i] = UpstreamBlock(kind, 0, FALSE)]
          /\ Deliver([type |-> "open", index |-> i, kind |-> kind])
    BY <1>6, Zenon DEF UpstreamOpens
  <2>2. event' \in Events
    BY <2>1 DEF Deliver, Events
  <2>3. 0 \in 0..MaxDeltas
    BY BoundsNat
  <2>4. QED
    BY <1>4, <1>6, <2>1, <2>2, <2>3, Zenon DEF UpstreamOpens
<1>7. CASE UpstreamContinues
  <2>1. PICK i \in Blocks :
          /\ Open(i) /\ upstream[i].deltas < MaxDeltas
          /\ upstream' = [upstream EXCEPT
               ![i] = UpstreamBlock(upstream[i].kind, upstream[i].deltas + 1, FALSE)]
          /\ Deliver([type |-> "delta", index |-> i, kind |-> upstream[i].kind])
    BY <1>7, Zenon DEF UpstreamContinues
  <2>2. event' \in Events
    BY <1>5, <2>1 DEF Deliver, Events
  <2>3. upstream[i].deltas + 1 \in 0..MaxDeltas
    BY <1>5, <2>1, BoundsNat
  <2>4. QED
    BY <1>4, <1>5, <1>7, <2>1, <2>2, <2>3, Zenon DEF UpstreamContinues
<1>8. CASE UpstreamCloses
  <2>1. PICK i \in Blocks, signed \in BOOLEAN :
          /\ Open(i)
          /\ upstream' = [upstream EXCEPT
               ![i] = UpstreamBlock(upstream[i].kind, upstream[i].deltas, TRUE)]
          /\ Deliver([type |-> "close", index |-> i, kind |-> upstream[i].kind,
                      signed |-> signed /\ upstream[i].kind = "thinking"])
    BY <1>8, Zenon DEF UpstreamCloses
  <2>2. event' \in Events
    <3>1. (signed /\ upstream[i].kind = "thinking") \in BOOLEAN
      OBVIOUS
    <3>2. QED
      BY <1>5, <2>1, <3>1 DEF Deliver, Events
  <2>3. QED
    BY <1>4, <1>5, <1>8, <2>1, <2>2, Zenon DEF UpstreamCloses
<1>9. QED
  BY <1>3, <1>6, <1>7, <1>8 DEF Upstream

\* The end of the request, whichever way.
LEMMA AnsweringTypes ==
  ASSUME TypeOK,
         Refuse \/ NoAccount \/ FirstThrows \/ FirstEnds \/ FirstFails
           \/ CollectDone \/ CollectFails \/ CollectThrows \/ CollectEnds \/ OnThrow
  PROVE  TypeOK'
<1>1. \E status \in {200, 400, 401, 413, 429, 499, 500, 502} : Answer(status) \/ Throw(status)
  BY DEF Refuse, NoAccount, FirstThrows, FirstEnds, FirstFails, CollectDone, CollectFails,
     CollectThrows, CollectEnds, OnThrow
<1>2. QED
  BY <1>1, AnswerTypes

LEMMA MovingTypes ==
  ASSUME TypeOK,
         ReadBody \/ Select \/ ClientLeaves \/ FirstLimited \/ FirstServes \/ CollectMore \/ OnEnd
  PROVE  TypeOK'
<1>1. RequestTypes'
  <2>1. CASE Select
    <3>1. wasted + 1 \in Nat
      BY <2>1, BoundsNat DEF Select, TypeOK, RequestTypes
    <3>2. QED
      BY <2>1, <3>1, BoundsNat DEF Select, Goto, TypeOK, RequestTypes
  <2>2. CASE ReadBody \/ ClientLeaves \/ FirstLimited \/ FirstServes \/ CollectMore \/ OnEnd
    BY <2>2 DEF ReadBody, ClientLeaves, FirstLimited, FirstServes, CollectMore, OnEnd, Goto,
       handler, TypeOK, RequestTypes
  <2>3. QED
    BY <2>1, <2>2
<1>2. UpstreamTypes'
  <2>1. CASE Select
    <3>1. Unopened \in [Blocks -> UpstreamBlocks]
      BY BoundsNat DEF Unopened, UpstreamBlock, UpstreamBlocks
    <3>2. QED
      BY <2>1, <3>1, Zenon DEF Select, TypeOK, UpstreamTypes
  <2>2. Nothing \in Events
    BY DEF Events
  <2>3. CASE ReadBody \/ ClientLeaves \/ FirstLimited \/ FirstServes \/ CollectMore \/ OnEnd
    BY <2>2, <2>3 DEF ReadBody, ClientLeaves, FirstLimited, FirstServes, CollectMore, OnEnd,
       TypeOK, UpstreamTypes
  <2>4. QED
    BY <2>1, <2>3
<1>3. ReplyTypes'
  <2>1. UNCHANGED <<messageStarted, openBlocks, toolDeltaSeen, sent>>
    BY DEF ReadBody, Select, ClientLeaves, FirstLimited, FirstServes, CollectMore, OnEnd,
       translation, reply
  <2>2. head' \in {NoHead, 200, head}
    BY DEF ReadBody, Select, ClientLeaves, FirstLimited, FirstServes, CollectMore, OnEnd, reply
  <2>3. QED
    BY <2>1, <2>2 DEF TypeOK, ReplyTypes, Heads
<1>4. QED
  BY <1>1, <1>2, <1>3 DEF TypeOK

\* What streamAnthropicResponse writes for one event, and keeps.
LEMMA StreamingTypes ==
  ASSUME TypeOK, OnStart \/ OnBlockStart \/ OnDelta \/ OnBlockEnd \/ OnDone \/ OnError
  PROVE  TypeOK'
<1>1. event \in Events /\ sent \in Seq(Written) /\ openBlocks \subseteq Blocks
  BY DEF TypeOK, UpstreamTypes, ReplyTypes
<1>2. Announced \in Seq(Written)
  <2>1. Message("message_start") \in Written
    BY WrittenMembers
  <2>2. QED
    BY <2>1 DEF Announced
<1>3. ASSUME event.type \in {"open", "delta", "close"},
             NEW type \in {"start", "delta", "input", "stop"}
      PROVE  event.index \in Blocks /\ <<Block(type, event.index)>> \in Seq(Written)
  <2>1. event.index \in Blocks
    BY <1>1, <1>3, EventFields
  <2>2. Block(type, event.index) \in Written
    BY <2>1, WrittenMembers
  <2>3. QED
    BY <2>1, <2>2
<1>4. sent' \in Seq(Written)
  <2>1. CASE OnStart
    BY <1>1, <1>2, <2>1 DEF OnStart, Send
  <2>2. CASE OnBlockStart
    BY <1>1, <1>2, <1>3, <2>2 DEF OnBlockStart, Send, Streamed
  <2>3. CASE OnDelta
    BY <1>1, <1>2, <1>3, <2>3 DEF OnDelta, Send, Streamed
  <2>4. CASE OnBlockEnd
    <3>1. event.type = "close"
      BY <2>4 DEF OnBlockEnd, Streamed
    <3>2. Closing \in Seq(Written)
      BY <1>3, <3>1 DEF Closing, ToolInput
    <3>3. CloseBlock(event.index) \in Seq(Written)
      BY <1>3, <3>1 DEF CloseBlock
    <3>4. QED
      BY <1>1, <2>4, <3>2, <3>3 DEF OnBlockEnd, Send
  <2>5. CASE OnDone
    <3>1. CloseAll \in Seq(Written)
      BY <1>1, CloseAllType
    <3>2. Message("message_delta") \in Written /\ Message("message_stop") \in Written
      BY WrittenMembers DEF Ending
    <3>3. <<Message("message_delta"), Message("message_stop")>> \in Seq(Written)
      BY <3>2
    <3>4. QED
      BY <1>1, <1>2, <2>5, <3>1, <3>3 DEF OnDone, Send
  <2>6. CASE OnError
    <3>1. Message("error") \in Written
      BY WrittenMembers DEF Ending
    <3>2. QED
      BY <1>1, <2>6, <3>1 DEF OnError, Send
  <2>7. QED
    BY <2>1, <2>2, <2>3, <2>4, <2>5, <2>6
<1>5. Handled
  BY DEF OnStart, OnBlockStart, OnDelta, OnBlockEnd, OnDone, OnError
<1>6. RequestTypes'
  BY <1>5 DEF Handled, handler, TypeOK, RequestTypes
<1>7. UpstreamTypes'
  BY <1>5 DEF Handled, Events, TypeOK, UpstreamTypes
<1>8. /\ messageStarted' \in {messageStarted, TRUE}
      /\ openBlocks' \subseteq openBlocks \cup {event.index}
      /\ toolDeltaSeen' \subseteq toolDeltaSeen \cup {event.index}
      /\ openBlocks' \subseteq openBlocks \/ event.type = "open"
      /\ toolDeltaSeen' \subseteq toolDeltaSeen \/ event.type = "delta"
  BY DEF OnStart, OnBlockStart, OnDelta, OnBlockEnd, OnDone, OnError, Streamed, translation
<1>9. ReplyTypes'
  <2>1. openBlocks' \subseteq Blocks /\ toolDeltaSeen' \subseteq Blocks
    BY <1>3, <1>8 DEF TypeOK, ReplyTypes
  <2>2. messageStarted' \in BOOLEAN
    BY <1>8 DEF TypeOK, ReplyTypes
  <2>3. head' \in Heads
    BY <1>5 DEF Handled, TypeOK, ReplyTypes
  <2>4. QED
    BY <1>4, <2>1, <2>2, <2>3, Zenon DEF TypeOK, ReplyTypes
<1>10. QED
  BY <1>6, <1>7, <1>9 DEF TypeOK

\* Theorem: the request, the upstream and the reply are well typed for any
\* bounds.
THEOREM TypeCorrect == Spec => []TypeOK
<1>1. Init => TypeOK
  BY InitTypes
<1>2. TypeOK /\ [Next]_vars => TypeOK'
  <2>1. ASSUME TypeOK, Next PROVE TypeOK'
    BY <2>1, AnsweringTypes, MovingTypes, UpstreamStepTypes, StreamingTypes
       DEF Next, Request, FirstEvent, Collect, Stream
  <2>2. ASSUME TypeOK, UNCHANGED vars PROVE TypeOK'
    BY <2>2 DEF vars, handler, translation, reply, TypeOK, RequestTypes, UpstreamTypes, ReplyTypes
  <2>3. QED
    BY <2>1, <2>2
<1>3. QED
  BY <1>1, <1>2, PTL DEF Spec

-----------------------------------------------------------------------------
(* The shape of a reply. *)

BlockEvents == {"start", "delta", "input", "stop"}
BlocksOnly(s) == \A k \in DOMAIN s : s[k].type \in BlockEvents
\* Nothing of the end of a reply.
Unfinished(s) == \A k \in DOMAIN s : s[k].type \notin Ending \cup {"message_delta"}
\* message_start first and only there.
Started(s) == Len(s) >= 1 /\ \A k \in DOMAIN s : s[k].type = "message_start" <=> k = 1
\* One end, the last event, and message_delta with message_stop.
Finished(s) ==
  /\ Len(s) >= 1 /\ s[Len(s)].type \in Ending
  /\ \A k \in DOMAIN s : s[k].type \in Ending => k = Len(s)
  /\ s[Len(s)].type = "message_stop" =>
       Len(s) > 1 /\ s[Len(s) - 1].type = "message_delta"
  /\ \A k \in DOMAIN s : s[k].type = "message_delta" =>
       k = Len(s) - 1 /\ s[Len(s)].type = "message_stop"

LEMMA Associative ==
  \A s, t, u \in Seq(Written) : (s \o t) \o u = s \o (t \o u)
BY ConcatAssociative

LEMMA ShapeOfConcat ==
  ASSUME NEW S, NEW s \in Seq(S), NEW t \in Seq(S), BlocksOnly(t)
  PROVE  /\ Unfinished(s) => Unfinished(s \o t)
         /\ Started(s) => Started(s \o t)
<1>1. /\ s \o t \in Seq(S)
      /\ Len(s \o t) = Len(s) + Len(t)
      /\ \A i \in 1 .. Len(s) + Len(t) :
           (s \o t)[i] = IF i <= Len(s) THEN s[i] ELSE t[i - Len(s)]
  BY ConcatProperties
<1>2. Len(s) \in Nat /\ Len(t) \in Nat /\ DOMAIN s = 1..Len(s) /\ DOMAIN t = 1..Len(t)
      /\ DOMAIN (s \o t) = 1..Len(s) + Len(t)
  BY <1>1, LenProperties
<1>3. \A i \in DOMAIN (s \o t) :
        \/ i \in DOMAIN s /\ (s \o t)[i] = s[i]
        \/ i > Len(s) /\ (s \o t)[i].type \in BlockEvents
  BY <1>1, <1>2 DEF BlocksOnly
<1>4. Unfinished(s) => Unfinished(s \o t)
  BY <1>3 DEF Unfinished, BlockEvents, Ending
<1>5. Started(s) => Started(s \o t)
  BY <1>1, <1>2, <1>3 DEF Started, BlockEvents
<1>6. QED
  BY <1>4, <1>5

LEMMA FinishedByError ==
  ASSUME NEW s \in Seq(Written), Unfinished(s)
  PROVE  /\ Finished(s \o <<Message("error")>>)
         /\ Started(s) => Started(s \o <<Message("error")>>)
<1>1. Len(s) \in Nat /\ DOMAIN s = 1..Len(s)
  BY LenProperties
<1>2. <<Message("error")>> \in Seq(Written)
  <2>1. Message("error") \in Written
    BY WrittenMembers DEF Ending
  <2>2. QED
    BY <2>1
<1> DEFINE r == s \o <<Message("error")>>
<1>3. /\ Len(r) = Len(s) + 1 /\ DOMAIN r = 1..Len(s) + 1
      /\ \A i \in 1..Len(s) : r[i] = s[i]
      /\ r[Len(s) + 1] = Message("error")
  BY <1>1, <1>2
<1>4. Message("error").type = "error"
  BY DEF Message
<1> HIDE DEF r
<1>5. Finished(r)
  BY <1>1, <1>3, <1>4 DEF Finished, Unfinished, Ending
<1>6. Started(s) => Started(r)
  BY <1>1, <1>3, <1>4 DEF Started
<1>7. QED
  BY <1>5, <1>6 DEF r

LEMMA FinishedByStop ==
  ASSUME NEW s \in Seq(Written), Unfinished(s)
  PROVE  /\ Finished(s \o <<Message("message_delta"), Message("message_stop")>>)
         /\ Started(s) => Started(s \o <<Message("message_delta"), Message("message_stop")>>)
<1>1. Len(s) \in Nat /\ DOMAIN s = 1..Len(s)
  BY LenProperties
<1>2. <<Message("message_delta"), Message("message_stop")>> \in Seq(Written)
  <2>1. Message("message_delta") \in Written /\ Message("message_stop") \in Written
    BY WrittenMembers DEF Ending
  <2>2. QED
    BY <2>1
<1> DEFINE r == s \o <<Message("message_delta"), Message("message_stop")>>
<1>3. /\ Len(r) = Len(s) + 2 /\ DOMAIN r = 1..Len(s) + 2
      /\ \A i \in 1..Len(s) : r[i] = s[i]
      /\ r[Len(s) + 1] = Message("message_delta")
      /\ r[Len(s) + 2] = Message("message_stop")
  BY <1>1, <1>2
<1>4. r[Len(s) + 1].type = "message_delta" /\ r[Len(s) + 2].type = "message_stop"
  BY <1>3 DEF Message
<1> HIDE DEF r
<1>5. Finished(r)
  BY <1>1, <1>3, <1>4 DEF Finished, Unfinished, Ending
<1>6. Started(s) => Started(r)
  BY <1>1, <1>3, <1>4 DEF Started
<1>7. QED
  BY <1>5, <1>6 DEF r

-----------------------------------------------------------------------------
(* The invariant of a reply. *)

\* Nothing is written before the first event of the account that serves, and
\* that event is not one of a block that is already open.
BeforeReply ==
  /\ phase \in {"body", "select", "first", "collect"} =>
       head = NoHead /\ sent = <<>> /\ ~ messageStarted
  /\ phase \in {"body", "select"} => event = Nothing
  /\ phase = "first" =>
       /\ event = Nothing => upstream = Unopened /\ source = "going"
       /\ event.type \notin {"close", "delta"}
  /\ phase = "collect" => ~ streaming

\* While it streams, the reply is announced once the first event is handled,
\* and finished once the upstream's result or error is.
WhileStreaming ==
  phase = "stream" =>
    /\ streaming /\ head = 200
    /\ messageStarted => Started(sent)
    /\ ~ messageStarted => sent = <<>> /\ event.type \in {"start", "open", "done"}
    /\ IF source = "settled" /\ event.type \in {"nothing", "end"}
       THEN Finished(sent) ELSE Unfinished(sent)

AfterReply ==
  phase = "over" =>
    IF streaming /\ head = 200
    THEN /\ Started(sent)
         /\ IF source = "cut" THEN Unfinished(sent) ELSE Finished(sent)
    ELSE Len(sent) = 1 /\ sent[1].type \in {"json", "failure"}

\* What the upstream has delivered tells what it can still do.
SourceTold ==
  /\ event.type \in {"start", "open", "delta", "close", "throw"} => source = "going"
  /\ event.type \in {"done", "error"} => source = "settled"
  /\ event.type = "end" => source # "going"

ReplyInv == TypeOK /\ BeforeReply /\ WhileStreaming /\ AfterReply /\ SourceTold

LEMMA InitReply == Init => ReplyInv
<1>1. Nothing.type = "nothing"
  BY DEF Nothing
<1>2. QED
  BY <1>1, InitTypes DEF Init, ReplyInv, BeforeReply, WhileStreaming, AfterReply, SourceTold

LEMMA FramedAlways ==
  ASSUME ReplyInv
  PROVE  Framed
<1>1. sent \in Seq(Written)
  BY DEF ReplyInv, TypeOK, ReplyTypes
<1>2. Len(sent) \in Nat /\ DOMAIN sent = 1..Len(sent)
  BY <1>1, LenProperties
<1>3. CASE head = 200 /\ streaming
  <2>1. sent = <<>> \/ Started(sent)
    BY <1>3 DEF ReplyInv, BeforeReply, WhileStreaming, AfterReply, TypeOK, RequestTypes, NoHead
  <2>2. Finished(sent) \/ Unfinished(sent)
    BY <1>3 DEF ReplyInv, BeforeReply, WhileStreaming, AfterReply, TypeOK, RequestTypes, NoHead
  <2>3. \A k \in DOMAIN sent : sent[k].type = "message_start" <=> k = 1
    BY <1>2, <2>1 DEF Started
  <2>4. \A k \in DOMAIN sent : sent[k].type \in Ending => k = Len(sent)
    BY <1>2, <2>2 DEF Finished, Unfinished
  <2>5. \A k \in At("message_stop") : k > 1 /\ sent[k - 1].type = "message_delta"
    BY <1>2, <2>2 DEF Finished, Unfinished, At, Ending
  <2>6. \A k \in At("message_delta") : k < Len(sent) /\ sent[k + 1].type = "message_stop"
    BY <1>2, <2>2 DEF Finished, Unfinished, At, Ending
  <2>7. QED
    BY <1>3, <2>3, <2>4, <2>5, <2>6 DEF Framed
<1>4. CASE ~ (head = 200 /\ streaming)
  <2>1. Len(sent) <= 1
    BY <1>2, <1>4 DEF ReplyInv, BeforeReply, WhileStreaming, AfterReply, TypeOK, RequestTypes
  <2>2. QED
    BY <1>2, <1>4, <2>1 DEF Framed
<1>5. QED
  BY <1>3, <1>4

LEMMA ToldAlways ==
  ASSUME ReplyInv
  PROVE  Told
<1> SUFFICES ASSUME phase = "over"
             PROVE  Cardinality({k \in DOMAIN sent : sent[k].type \in Ending})
                      = IF streaming /\ head = 200 /\ source = "cut" THEN 0 ELSE 1
  BY DEF Told
<1>1. sent \in Seq(Written)
  BY DEF ReplyInv, TypeOK, ReplyTypes
<1>2. Len(sent) \in Nat /\ DOMAIN sent = 1..Len(sent)
  BY <1>1, LenProperties
<1>3. CASE streaming /\ head = 200 /\ source = "cut"
  <2>1. {k \in DOMAIN sent : sent[k].type \in Ending} = {}
    BY <1>3 DEF ReplyInv, AfterReply, Unfinished
  <2>2. QED
    BY <1>3, <2>1, FS_EmptySet
<1>4. CASE ~ (streaming /\ head = 200 /\ source = "cut")
  <2>1. {k \in DOMAIN sent : sent[k].type \in Ending} = {Len(sent)}
    <3>1. CASE streaming /\ head = 200
      BY <1>2, <1>4, <3>1 DEF ReplyInv, AfterReply, Finished
    <3>2. CASE ~ (streaming /\ head = 200)
      BY <1>2, <3>2 DEF ReplyInv, AfterReply, Ending
    <3>3. QED
      BY <3>1, <3>2
  <2>2. QED
    BY <1>4, <2>1, FS_Singleton
<1>5. QED
  BY <1>3, <1>4

\* A status, or one more event of a stream.
LEMMA AnswerReply ==
  ASSUME ReplyInv, NEW status \in {200, 400, 401, 413, 429, 499, 500, 502},
         \/ Answer(status) /\ head = NoHead /\ sent = <<>> /\ (status = 200 => ~ streaming)
         \/ Throw(status) /\ status # 200 /\ event.type = "throw" /\ phase = "stream"
         \/ Throw(status) /\ status # 200 /\ head = NoHead /\ sent = <<>>
  PROVE  ReplyInv'
<1>1. TypeOK'
  BY AnswerTypes DEF ReplyInv
<1>2. event' = Nothing /\ Nothing.type = "nothing" /\ phase' = "over"
      /\ UNCHANGED <<streaming, source>>
  BY DEF Answer, Throw, Goto, Nothing
<1>3. AfterReply'
  <2>1. CASE Answer(status) /\ head = NoHead /\ sent = <<>> /\ (status = 200 => ~ streaming)
    <3>1. sent' = <<Message(IF status = 200 THEN "json" ELSE "failure")>>
      BY <2>1 DEF Answer, Send
    <3>2. Len(sent') = 1 /\ sent'[1].type \in {"json", "failure"}
      BY <3>1 DEF Message
    <3>3. ~ (streaming' /\ head' = 200)
      BY <2>1, <1>2 DEF Answer
    <3>4. QED
      BY <3>2, <3>3 DEF AfterReply
  <2>2. CASE Throw(status) /\ status # 200 /\ event.type = "throw" /\ phase = "stream"
    <3>1. streaming /\ head = 200 /\ source = "going" /\ Started(sent) /\ Unfinished(sent)
      BY <2>2 DEF ReplyInv, WhileStreaming, SourceTold
    <3>2. sent' = sent \o <<Message("error")>> /\ head' = head
      BY <2>2, <3>1 DEF Throw, Send, NoHead
    <3>3. sent \in Seq(Written)
      BY DEF ReplyInv, TypeOK, ReplyTypes
    <3>4. Started(sent') /\ Finished(sent')
      BY <3>1, <3>2, <3>3, FinishedByError
    <3>5. QED
      BY <1>2, <3>1, <3>2, <3>4 DEF AfterReply
  <2>3. CASE Throw(status) /\ status # 200 /\ head = NoHead /\ sent = <<>>
    <3>1. sent' = <<Message("failure")>> /\ head' # 200
      BY <2>3 DEF Throw, Answer, Send
    <3>2. Len(sent') = 1 /\ sent'[1].type \in {"json", "failure"}
      BY <3>1 DEF Message
    <3>3. QED
      BY <3>1, <3>2 DEF AfterReply
  <2>4. QED
    BY <2>1, <2>2, <2>3
<1>4. BeforeReply' /\ WhileStreaming' /\ SourceTold'
  BY <1>2 DEF BeforeReply, WhileStreaming, SourceTold
<1>5. QED
  BY <1>1, <1>3, <1>4 DEF ReplyInv

LEMMA AnsweringReply ==
  ASSUME ReplyInv,
         Refuse \/ NoAccount \/ FirstThrows \/ FirstEnds \/ FirstFails
           \/ CollectDone \/ CollectFails \/ CollectThrows \/ CollectEnds \/ OnThrow
  PROVE  ReplyInv'
<1>1. phase # "stream" => head = NoHead /\ sent = <<>>
  BY DEF ReplyInv, BeforeReply, Refuse, NoAccount, FirstThrows, FirstEnds, FirstFails, CollectDone,
     CollectFails, CollectThrows, CollectEnds, OnThrow, First, Collected, Streamed
<1>2. CASE Refuse \/ NoAccount
  <2>1. \E status \in {400, 401, 413, 429, 500} : Answer(status)
    BY <1>2 DEF Refuse, NoAccount
  <2>2. phase # "stream"
    BY <1>2 DEF Refuse, NoAccount
  <2>3. QED
    BY <1>1, <2>1, <2>2, AnswerReply
<1>3. CASE FirstThrows \/ FirstEnds \/ FirstFails \/ CollectFails \/ CollectThrows \/ CollectEnds
  <2>1. \E status \in {499, 500, 502} : Throw(status)
    BY <1>3 DEF FirstThrows, FirstEnds, FirstFails, CollectFails, CollectThrows, CollectEnds
  <2>2. phase # "stream"
    BY <1>3 DEF FirstThrows, FirstEnds, FirstFails, CollectFails, CollectThrows, CollectEnds, First,
       Collected
  <2>3. QED
    BY <1>1, <2>1, <2>2, AnswerReply
<1>4. CASE CollectDone
  <2>1. Answer(200) /\ phase = "collect" /\ ~ streaming
    BY <1>4 DEF CollectDone, Collected, ReplyInv, BeforeReply
  <2>2. QED
    BY <1>1, <2>1, AnswerReply
<1>5. CASE OnThrow
  <2>1. Throw(500) /\ event.type = "throw" /\ phase = "stream"
    BY <1>5 DEF OnThrow, Streamed
  <2>2. QED
    BY <2>1, AnswerReply
<1>6. QED
  BY <1>2, <1>3, <1>4, <1>5

LEMMA MovingReply ==
  ASSUME ReplyInv,
         ReadBody \/ Select \/ ClientLeaves \/ FirstLimited \/ FirstServes \/ CollectMore \/ OnEnd
  PROVE  ReplyInv'
<1>1. TypeOK'
  BY MovingTypes DEF ReplyInv
<1>2. Nothing.type = "nothing"
  BY DEF Nothing
<1>3. UNCHANGED <<streaming, messageStarted, sent>>
  BY DEF ReadBody, Select, ClientLeaves, FirstLimited, FirstServes, CollectMore, OnEnd, handler,
     translation, reply
<1>4. CASE ReadBody \/ Select \/ ClientLeaves \/ FirstLimited
  <2>1. UNCHANGED head
    BY <1>4 DEF ReadBody, Select, ClientLeaves, FirstLimited, reply
  <2>2. QED
    BY <1>1, <1>2, <1>3, <1>4, <2>1 DEF ReadBody, Select, ClientLeaves, FirstLimited, First, Goto,
       handler, ReplyInv, BeforeReply, WhileStreaming, AfterReply, SourceTold
<1>5. CASE FirstServes
  <2>1. Unfinished(sent')
    BY <1>3, <1>5 DEF FirstServes, ReplyInv, BeforeReply, Unfinished
  <2>2. QED
    BY <1>1, <1>3, <1>5, <2>1 DEF FirstServes, Goto, ReplyInv, BeforeReply, WhileStreaming,
       AfterReply, SourceTold
<1>6. CASE CollectMore
  BY <1>1, <1>2, <1>3, <1>6 DEF CollectMore, Collected, handler, reply, ReplyInv, BeforeReply,
     WhileStreaming, AfterReply, SourceTold
<1>7. CASE OnEnd
  <2>1. phase = "stream" /\ event.type = "end" /\ phase' = "over" /\ event' = Nothing
        /\ UNCHANGED <<head, source>>
    BY <1>7 DEF OnEnd, Streamed, Goto, reply
  <2>2. streaming /\ head = 200 /\ Started(sent)
        /\ IF source = "settled" THEN Finished(sent) ELSE Unfinished(sent)
    BY <2>1 DEF ReplyInv, WhileStreaming
  <2>3. source \in {"settled", "cut"}
    BY <2>1 DEF ReplyInv, SourceTold, TypeOK, UpstreamTypes
  <2>4. QED
    BY <1>1, <1>2, <1>3, <2>1, <2>2, <2>3 DEF ReplyInv, BeforeReply, WhileStreaming, AfterReply,
       SourceTold
<1>8. QED
  BY <1>4, <1>5, <1>6, <1>7

LEMMA UpstreamReply ==
  ASSUME ReplyInv, Upstream
  PROVE  ReplyInv'
<1>1. TypeOK'
  BY UpstreamStepTypes DEF ReplyInv
<1>2. UNCHANGED <<phase, streaming, messageStarted, head, sent>>
  BY DEF Upstream, UpstreamStarts, UpstreamOpens, UpstreamContinues, UpstreamCloses,
     UpstreamFinishes, UpstreamFails, UpstreamThrows, UpstreamEnds, Deliver, handler, translation,
     reply
<1>3. phase \in {"first", "stream", "collect"} /\ event = Nothing /\ Nothing.type = "nothing"
  BY DEF Upstream, UpstreamStarts, UpstreamOpens, UpstreamContinues, UpstreamCloses,
     UpstreamFinishes, UpstreamFails, UpstreamThrows, UpstreamEnds, MayStream, Awaiting, Nothing
<1>4. /\ event'.type \in {"start", "open", "delta", "close", "throw"} => source' = "going"
      /\ event'.type \in {"done", "error"} => source' = "settled" /\ source = "going"
      /\ event'.type = "end" =>
           source' # "going" /\ (source' = "settled" <=> source = "settled")
      /\ event'.type # "end" => source = "going"
      /\ event'.type # "nothing"
      /\ event'.type \in {"close", "delta"} => \E i \in Blocks : Open(i)
  <2> USE DEF Awaiting, MayStream, Deliver
  <2>1. CASE UpstreamStarts
    BY <2>1 DEF UpstreamStarts
  <2>2. CASE UpstreamOpens
    <3>1. source = "going" /\ source' = source /\ event'.type = "open"
      BY <2>2 DEF UpstreamOpens
    <3>2. QED
      BY <3>1
  <2>3. CASE UpstreamContinues
    <3>1. source = "going" /\ source' = source /\ event'.type = "delta" /\ \E i \in Blocks : Open(i)
      BY <2>3 DEF UpstreamContinues
    <3>2. QED
      BY <3>1
  <2>4. CASE UpstreamCloses
    <3>1. source = "going" /\ source' = source /\ event'.type = "close" /\ \E i \in Blocks : Open(i)
      BY <2>4 DEF UpstreamCloses
    <3>2. QED
      BY <3>1
  <2>5. CASE UpstreamFinishes
    BY <2>5 DEF UpstreamFinishes
  <2>6. CASE UpstreamFails
    BY <2>6 DEF UpstreamFails
  <2>7. CASE UpstreamThrows
    BY <2>7 DEF UpstreamThrows
  <2>8. CASE UpstreamEnds
    BY <2>8 DEF UpstreamEnds
  <2>9. QED
    BY <2>1, <2>2, <2>3, <2>4, <2>5, <2>6, <2>7, <2>8 DEF Upstream
<1>5. phase = "first" => event'.type \notin {"close", "delta"}
  <2>1. phase = "first" => \A i \in Blocks : ~ Open(i)
    BY <1>3 DEF ReplyInv, BeforeReply, Open, Unopened, UpstreamBlock
  <2>2. QED
    BY <1>4, <2>1
<1>6. phase = "stream" => messageStarted
  BY <1>3 DEF ReplyInv, WhileStreaming
<1>7. BeforeReply' /\ AfterReply' /\ SourceTold'
  BY <1>2, <1>3, <1>4, <1>5 DEF ReplyInv, BeforeReply, AfterReply, SourceTold, Nothing
<1>8. WhileStreaming'
  BY <1>2, <1>3, <1>4, <1>6 DEF ReplyInv, WhileStreaming
<1>9. QED
  BY <1>1, <1>7, <1>8 DEF ReplyInv

\* One event of a stream that is not its end.
LEMMA StreamingReply ==
  ASSUME ReplyInv, OnStart \/ OnBlockStart \/ OnDelta \/ OnBlockEnd \/ OnDone \/ OnError
  PROVE  ReplyInv'
<1>1. TypeOK'
  BY StreamingTypes DEF ReplyInv
<1>2. Handled /\ phase = "stream"
  BY DEF OnStart, OnBlockStart, OnDelta, OnBlockEnd, OnDone, OnError, Streamed
<1>3. UNCHANGED <<phase, streaming, head, source>> /\ event' = Nothing /\ Nothing.type = "nothing"
  BY <1>2 DEF Handled, handler, Nothing
<1>4. event.type \in {"start", "open", "delta", "close", "done", "error"}
  BY DEF OnStart, OnBlockStart, OnDelta, OnBlockEnd, OnDone, OnError, Streamed
<1>5. /\ streaming /\ head = 200 /\ Unfinished(sent)
      /\ messageStarted => Started(sent)
      /\ ~ messageStarted => sent = <<>> /\ event.type \in {"start", "open", "done"}
      /\ source = "settled" <=> event.type \in {"done", "error"}
  BY <1>2, <1>4 DEF ReplyInv, WhileStreaming, SourceTold
<1>6. sent \in Seq(Written) /\ event \in Events /\ openBlocks \subseteq Blocks
  BY DEF ReplyInv, TypeOK, UpstreamTypes, ReplyTypes
<1> DEFINE begun == sent \o Announced
<1>7. Announced \in Seq(Written) /\ begun \in Seq(Written) /\ Started(begun) /\ Unfinished(begun)
  <2>1. CASE messageStarted
    <3>1. Announced = <<>> /\ begun = sent
      BY <1>6, <2>1 DEF Announced
    <3>2. QED
      BY <1>5, <1>6, <2>1, <3>1
  <2>2. CASE ~ messageStarted
    <3>1. Announced = <<Message("message_start")>> /\ Message("message_start") \in Written
      BY <2>2, WrittenMembers DEF Announced
    <3>2. begun = <<Message("message_start")>>
      BY <1>5, <2>2, <3>1
    <3>3. Message("message_start").type = "message_start"
      BY DEF Message
    <3>4. <<Message("message_start")>> \in Seq(Written)
      BY <3>1
    <3>5. Started(begun) /\ Unfinished(begun)
      BY <3>2, <3>3 DEF Started, Unfinished, Ending
    <3>6. QED
      BY <3>1, <3>2, <3>4, <3>5
  <2>3. QED
    BY <2>1, <2>2
<1> HIDE DEF begun
\* What is sent ends the reply if the event is the end of the message.
<1>8. Started(sent') /\ IF source = "settled" THEN Finished(sent') ELSE Unfinished(sent')
  <2>1. ASSUME NEW type \in BlockEvents, event.type \in {"open", "delta", "close"}
        PROVE  <<Block(type, event.index)>> \in Seq(Written) /\ BlocksOnly(<<Block(type, event.index)>>)
    <3>1. Block(type, event.index) \in Written
      BY <1>6, <2>1, EventFields, WrittenMembers DEF BlockEvents
    <3>2. Block(type, event.index).type = type
      BY DEF Block
    <3>3. QED
      BY <3>1, <3>2 DEF BlocksOnly
  <2>2. BlocksOnly(<<>>) /\ <<>> \in Seq(Written)
    BY DEF BlocksOnly
  <2>3. CASE OnStart
    <3>1. sent' = begun /\ source # "settled"
      BY <1>5, <2>3 DEF OnStart, Send, Streamed, begun
    <3>2. QED
      BY <1>7, <3>1
  <2>4. CASE OnBlockStart \/ OnDelta
    <3>1. PICK type \in BlockEvents : Send(Announced \o <<Block(type, event.index)>>)
      BY <2>4 DEF OnBlockStart, OnDelta, BlockEvents
    <3>2. <<Block(type, event.index)>> \in Seq(Written) /\ BlocksOnly(<<Block(type, event.index)>>)
      BY <2>1, <2>4 DEF OnBlockStart, OnDelta, Streamed
    <3>3. sent' = begun \o <<Block(type, event.index)>>
      BY <1>6, <1>7, <3>1, <3>2, ConcatAssociative DEF Send, begun
    <3>4. source # "settled"
      BY <1>5, <2>4 DEF OnBlockStart, OnDelta, Streamed
    <3>5. QED
      BY <1>7, <3>2, <3>3, <3>4, ShapeOfConcat
  <2>5. CASE OnBlockEnd
    <3>1. event.type = "close" /\ messageStarted /\ source # "settled"
      BY <1>5, <2>5 DEF OnBlockEnd, Streamed
    <3>2. Closing \in Seq(Written) /\ BlocksOnly(Closing)
      BY <2>1, <2>2, <3>1 DEF Closing, ToolInput, BlockEvents
    <3>3. CloseBlock(event.index) \in Seq(Written) /\ BlocksOnly(CloseBlock(event.index))
      BY <2>1, <2>2, <3>1 DEF CloseBlock, BlockEvents
    <3>4. sent' = (sent \o Closing) \o CloseBlock(event.index)
      <4>1. sent' = sent \o (Closing \o CloseBlock(event.index))
        BY <2>5 DEF OnBlockEnd, Send
      <4>2. QED
        BY <1>6, <3>2, <3>3, <4>1, Associative, Zenon
    <3>5. sent \o Closing \in Seq(Written) /\ Started(sent \o Closing) /\ Unfinished(sent \o Closing)
      BY <1>5, <1>6, <3>1, <3>2, ShapeOfConcat, ConcatProperties
    <3>6. QED
      BY <3>1, <3>3, <3>4, <3>5, ShapeOfConcat
  <2>6. CASE OnDone
    <3>1. CloseAll \in Seq(Written) /\ BlocksOnly(CloseAll)
      BY <1>6, CloseAllType DEF BlocksOnly, BlockEvents
    <3> DEFINE end == <<Message("message_delta"), Message("message_stop")>>
    <3>2. end \in Seq(Written)
      <4>1. Message("message_delta") \in Written /\ Message("message_stop") \in Written
        BY WrittenMembers DEF Ending
      <4>2. QED
        BY <4>1
    <3>3. sent' = sent \o ((Announced \o CloseAll) \o end)
      BY <2>6 DEF OnDone, Send
    <3> HIDE DEF end
    <3>4. Announced \o CloseAll \in Seq(Written)
      BY <1>7, <3>1, ConcatProperties
    <3>5. sent' = (sent \o (Announced \o CloseAll)) \o end
      BY <1>6, <3>2, <3>3, <3>4, Associative, Zenon
    <3>6. sent \o (Announced \o CloseAll) = begun \o CloseAll
      BY <1>6, <1>7, <3>1, ConcatAssociative DEF begun
    <3>7. /\ begun \o CloseAll \in Seq(Written)
          /\ Started(begun \o CloseAll) /\ Unfinished(begun \o CloseAll)
      BY <1>7, <3>1, ShapeOfConcat, ConcatProperties
    <3>8. Started(sent') /\ Finished(sent')
      BY <3>5, <3>6, <3>7, FinishedByStop DEF end
    <3>9. QED
      BY <1>5, <2>6, <3>8 DEF OnDone, Streamed
  <2>7. CASE OnError
    <3>1. sent' = sent \o <<Message("error")>> /\ messageStarted /\ source = "settled"
      BY <1>5, <2>7 DEF OnError, Send, Streamed
    <3>2. QED
      BY <1>5, <1>6, <3>1, FinishedByError
  <2>8. QED
    BY <2>3, <2>4, <2>5, <2>6, <2>7
<1>9. messageStarted'
  BY <1>5 DEF OnStart, OnBlockStart, OnDelta, OnBlockEnd, OnDone, OnError, Streamed, translation
<1>10. WhileStreaming'
  BY <1>3, <1>5, <1>8, <1>9 DEF WhileStreaming
<1>11. BeforeReply' /\ AfterReply' /\ SourceTold'
  BY <1>2, <1>3 DEF BeforeReply, AfterReply, SourceTold
<1>12. QED
  BY <1>1, <1>10, <1>11 DEF ReplyInv

LEMMA ReplyInvariant == Spec => []ReplyInv
<1>1. ReplyInv /\ [Next]_vars => ReplyInv'
  <2>1. ASSUME ReplyInv, Next PROVE ReplyInv'
    BY <2>1, AnsweringReply, MovingReply, UpstreamReply, StreamingReply
       DEF Next, Request, FirstEvent, Collect, Stream
  <2>2. ASSUME ReplyInv, UNCHANGED vars PROVE ReplyInv'
    BY <2>2 DEF vars, handler, translation, reply, ReplyInv, TypeOK, RequestTypes, UpstreamTypes,
       ReplyTypes, BeforeReply, WhileStreaming, AfterReply, SourceTold
  <2>3. QED
    BY <2>1, <2>2
<1>2. QED
  BY <1>1, InitReply, PTL DEF Spec

\* Theorem: for messages of any number of blocks and deltas, what
\* streamAnthropicResponse and route's catch write is one well-framed stream.
THEOREM FramedHolds == Spec => []Framed
<1>1. ReplyInv => Framed
  BY FramedAlways
<1>2. QED
  BY <1>1, ReplyInvariant, PTL

\* Theorem: a request that is over has told its client exactly once how it
\* ended, but for a stream whose upstream ended without a result.
THEOREM ToldHolds == Spec => []Told
<1>1. ReplyInv => Told
  BY ToldAlways
<1>2. QED
  BY <1>1, ReplyInvariant, PTL

-----------------------------------------------------------------------------
(* Abandoned requests. *)

\* An abort seen while an account is asked is the last thing that account does.
WastedInv ==
  /\ wasted \in Nat /\ wasted <= 1
  /\ ~ aborted => wasted = 0
  /\ phase \in {"body", "select"} => wasted = 0

\* Theorem: with any number of accounts, a request whose client has left
\* reaches at most one more of them.
THEOREM AbandonedSoonHolds == Spec => []AbandonedSoon
<1>1. Init => WastedInv
  BY DEF Init, WastedInv
<1>2. WastedInv /\ [Next]_vars => WastedInv'
  <2> SUFFICES ASSUME WastedInv, [Next]_vars PROVE WastedInv'
    OBVIOUS
  <2>1. CASE Select
    BY <2>1 DEF Select, Goto, WastedInv
  <2>2. CASE FirstLimited
    BY <2>2 DEF FirstLimited, Goto, WastedInv
  <2>3. CASE ReadBody
    BY <2>3 DEF ReadBody, Goto, WastedInv
  <2>4. CASE ClientLeaves
    BY <2>4 DEF ClientLeaves, handler, WastedInv
  <2>5. ASSUME UNCHANGED <<aborted, wasted>>, phase' \notin {"body", "select"} \/ phase' = phase
        PROVE  WastedInv'
    BY <2>5 DEF WastedInv
  <2>6. CASE Refuse \/ NoAccount \/ FirstThrows \/ FirstEnds \/ FirstFails
               \/ CollectDone \/ CollectFails \/ CollectThrows \/ CollectEnds \/ OnThrow
    <3>1. \E status \in {200, 400, 401, 413, 429, 499, 500, 502} : Answer(status) \/ Throw(status)
      BY <2>6 DEF Refuse, NoAccount, FirstThrows, FirstEnds, FirstFails, CollectDone, CollectFails,
         CollectThrows, CollectEnds, OnThrow
    <3>2. UNCHANGED <<aborted, wasted>> /\ phase' = "over"
      BY <3>1 DEF Answer, Throw, Goto
    <3>3. QED
      BY <2>5, <3>2
  <2>7. CASE Upstream
    <3>1. UNCHANGED <<aborted, wasted, phase>>
      BY <2>7 DEF Upstream, UpstreamStarts, UpstreamOpens, UpstreamContinues, UpstreamCloses,
         UpstreamFinishes, UpstreamFails, UpstreamThrows, UpstreamEnds, Deliver, handler
    <3>2. QED
      BY <2>5, <3>1
  <2>8. CASE FirstServes \/ OnEnd
    <3>1. UNCHANGED <<aborted, wasted>> /\ phase' \in {"stream", "collect", "over"}
      BY <2>8 DEF FirstServes, OnEnd, Goto
    <3>2. QED
      BY <2>5, <3>1
  <2>9. CASE CollectMore \/ OnStart \/ OnBlockStart \/ OnDelta \/ OnBlockEnd \/ OnDone \/ OnError
    <3>1. UNCHANGED <<aborted, wasted, phase>>
      BY <2>9 DEF CollectMore, OnStart, OnBlockStart, OnDelta, OnBlockEnd, OnDone, OnError, Handled,
         handler
    <3>2. QED
      BY <2>5, <3>1
  <2>10. CASE UNCHANGED vars
    BY <2>5, <2>10 DEF vars, handler
  <2>11. QED
    BY <2>1, <2>2, <2>3, <2>4, <2>6, <2>7, <2>8, <2>9, <2>10
       DEF Next, Request, FirstEvent, Collect, Stream
<1>3. WastedInv => AbandonedSoon
  BY DEF WastedInv, AbandonedSoon
<1>4. QED
  BY <1>1, <1>2, <1>3, PTL DEF Spec

-----------------------------------------------------------------------------
(***************************************************************************)
(* Blocks.  What has been written about a block is none of it, an open     *)
(* block or a closed one; the invariant relates that to openBlocks, to     *)
(* what the upstream has opened and ended, and to the one event that is    *)
(* delivered but not handled.                                              *)
(***************************************************************************)
Pos(s, type, i) == {k \in DOMAIN s : s[k].type = type /\ s[k].index = i}
Inner(s, i) == Pos(s, "delta", i) \cup Pos(s, "input", i)
Fresh(s, i) == \A type \in BlockEvents : Pos(s, type, i) = {}
Running(s, i) ==
  \E a \in DOMAIN s : /\ Pos(s, "start", i) = {a} /\ Pos(s, "stop", i) = {}
                      /\ \A k \in Inner(s, i) : a < k
Stopped(s, i) ==
  \E a, e \in DOMAIN s : /\ Pos(s, "start", i) = {a} /\ Pos(s, "stop", i) = {e} /\ a < e
                         /\ \A k \in Inner(s, i) : a < k /\ k < e

Shifted(n, S) == {n + k : k \in S}

\* Nothing in t is about block i.
Silent(t, i) == \A k \in DOMAIN t : t[k].type \in BlockEvents => t[k].index # i

\* Where the events of a block are in what is written in two parts.
LEMMA PosOfConcat ==
  ASSUME NEW s \in Seq(Written), NEW t \in Seq(Written), NEW type, NEW i
  PROVE  /\ Pos(s, type, i) \subseteq 1..Len(s)
         /\ Pos(t, type, i) = {} => Pos(s \o t, type, i) = Pos(s, type, i)
         /\ Pos(s \o t, type, i) = Pos(s, type, i) \cup Shifted(Len(s), Pos(t, type, i))
         /\ Len(s) \in Nat /\ DOMAIN s = 1..Len(s) /\ DOMAIN t = 1..Len(t)
         /\ DOMAIN s \subseteq DOMAIN (s \o t)
<1>1. /\ s \o t \in Seq(Written)
      /\ Len(s \o t) = Len(s) + Len(t)
      /\ \A k \in 1 .. Len(s) + Len(t) :
           (s \o t)[k] = IF k <= Len(s) THEN s[k] ELSE t[k - Len(s)]
  BY ConcatProperties
<1>2. Len(s) \in Nat /\ Len(t) \in Nat /\ DOMAIN s = 1..Len(s) /\ DOMAIN t = 1..Len(t)
      /\ DOMAIN (s \o t) = 1..Len(s) + Len(t)
  BY <1>1, LenProperties
<1>3. Pos(s, type, i) \cup {Len(s) + k : k \in Pos(t, type, i)} \subseteq Pos(s \o t, type, i)
  <2>1. ASSUME NEW k \in Pos(s, type, i) PROVE k \in Pos(s \o t, type, i)
    BY <1>1, <1>2 DEF Pos
  <2>2. ASSUME NEW k \in Pos(t, type, i) PROVE Len(s) + k \in Pos(s \o t, type, i)
    <3>1. k \in 1..Len(t) /\ t[k].type = type /\ t[k].index = i
      BY <1>2 DEF Pos
    <3>2. Len(s) + k \in 1..Len(s) + Len(t) /\ (s \o t)[Len(s) + k] = t[k]
      BY <1>1, <1>2, <3>1
    <3>3. QED
      BY <1>2, <3>1, <3>2 DEF Pos
  <2>3. QED
    BY <2>1, <2>2
<1>4. ASSUME NEW k \in Pos(s \o t, type, i), k \notin Pos(s, type, i)
      PROVE  k \in {Len(s) + j : j \in Pos(t, type, i)}
  <2>1. k \in 1..Len(s) + Len(t) /\ (s \o t)[k].type = type /\ (s \o t)[k].index = i
    BY <1>2, <1>4 DEF Pos
  <2>2. k > Len(s)
    BY <1>1, <1>2, <1>4, <2>1 DEF Pos
  <2>3. k - Len(s) \in 1..Len(t) /\ (s \o t)[k] = t[k - Len(s)]
    BY <1>1, <1>2, <2>1, <2>2
  <2>4. k - Len(s) \in Pos(t, type, i)
    BY <1>2, <2>1, <2>3 DEF Pos
  <2>5. k = Len(s) + (k - Len(s))
    BY <1>2, <2>1
  <2>6. QED
    BY <2>4, <2>5
<1>5. Pos(s \o t, type, i) = Pos(s, type, i) \cup {Len(s) + k : k \in Pos(t, type, i)}
  BY <1>3, <1>4
<1>6. Pos(t, type, i) = {} => Pos(s \o t, type, i) = Pos(s, type, i)
  BY <1>5
<1>7. Pos(s \o t, type, i) = Pos(s, type, i) \cup Shifted(Len(s), Pos(t, type, i))
  BY <1>5 DEF Shifted
<1>8. Pos(s, type, i) \subseteq 1..Len(s) /\ DOMAIN s \subseteq DOMAIN (s \o t)
  BY <1>2 DEF Pos
<1>9. QED
  BY <1>2, <1>6, <1>7, <1>8

LEMMA ShiftedOne ==
  ASSUME NEW n, NEW p
  PROVE  Shifted(n, {p}) = {n + p}
BY DEF Shifted

LEMMA PosOfOne ==
  ASSUME NEW x, NEW type, NEW i
  PROVE  Pos(<<x>>, type, i) = IF x.type = type /\ x.index = i THEN {1} ELSE {}
<1>1. DOMAIN <<x>> = {1} /\ <<x>>[1] = x
  OBVIOUS
<1>2. QED
  BY <1>1 DEF Pos

\* Events of other blocks, and of the message, change nothing for a block.
LEMMA SilentConcat ==
  ASSUME NEW s \in Seq(Written), NEW t \in Seq(Written), NEW i, Silent(t, i)
  PROVE  /\ \A type \in BlockEvents : Pos(s \o t, type, i) = Pos(s, type, i)
         /\ Fresh(s, i) => Fresh(s \o t, i)
         /\ Running(s, i) => Running(s \o t, i)
         /\ Stopped(s, i) => Stopped(s \o t, i)
<1>1. \A type \in BlockEvents : Pos(t, type, i) = {}
  BY DEF Silent, Pos
<1>2. ASSUME NEW type \in BlockEvents PROVE Pos(s \o t, type, i) = Pos(s, type, i)
  BY <1>1, PosOfConcat
<1>3. Inner(s \o t, i) = Inner(s, i) /\ DOMAIN s \subseteq DOMAIN (s \o t)
  BY <1>2, PosOfConcat DEF Inner, BlockEvents
<1>4. Fresh(s, i) => Fresh(s \o t, i)
  BY <1>2 DEF Fresh
<1>5. /\ Pos(s \o t, "start", i) = Pos(s, "start", i)
      /\ Pos(s \o t, "stop", i) = Pos(s, "stop", i)
  BY <1>2 DEF BlockEvents
<1>6. Running(s, i) => Running(s \o t, i)
  BY <1>3, <1>5 DEF Running
<1>7. Stopped(s, i) => Stopped(s \o t, i)
  BY <1>3, <1>5 DEF Stopped
<1>8. QED
  BY <1>2, <1>4, <1>6, <1>7

\* What is silent about every block, and about every block but one.
LEMMA SilentEvents ==
  ASSUME NEW i
  PROVE  /\ Silent(<<>>, i)
         /\ \A type : type \notin BlockEvents => Silent(<<Message(type)>>, i)
         /\ \A type, j : j # i => Silent(<<Block(type, j)>>, i)
         /\ Silent(Announced, i)
         /\ Silent(<<Message("message_delta"), Message("message_stop")>>, i)
BY DEF Silent, Message, Block, Announced, BlockEvents

LEMMA SilentBoth ==
  ASSUME NEW s \in Seq(Written), NEW t \in Seq(Written), NEW i, Silent(s, i), Silent(t, i)
  PROVE  Silent(s \o t, i)
<1>1. \A type \in BlockEvents : Pos(s \o t, type, i) = Pos(s, type, i) /\ Pos(s, type, i) = {}
  BY SilentConcat DEF Silent, Pos
<1>2. QED
  BY <1>1 DEF Silent, Pos

LEMMA StartRuns ==
  ASSUME NEW s \in Seq(Written), NEW i \in Blocks, Fresh(s, i)
  PROVE  /\ Running(s \o <<Block("start", i)>>, i)
         /\ \A type \in {"delta", "input"} :
              Pos(s \o <<Block("start", i)>>, type, i) = Pos(s, type, i)
<1> DEFINE t == <<Block("start", i)>>
<1>1. Block("start", i) \in Written /\ t \in Seq(Written)
  <2>1. Block("start", i) \in Written
    BY WrittenMembers
  <2>2. QED
    BY <2>1
<1>2. \A type : Pos(t, type, i) = IF type = "start" THEN {1} ELSE {}
  BY PosOfOne DEF Block
<1> HIDE DEF t
<1>3. /\ Pos(s \o t, "start", i) = Pos(s, "start", i) \cup {Len(s) + 1}
      /\ \A type \in {"delta", "input", "stop"} : Pos(s \o t, type, i) = Pos(s, type, i)
  <2>1. Pos(t, "start", i) = {1} /\ \A type \in {"delta", "input", "stop"} : Pos(t, type, i) = {}
    BY <1>2
  <2>2. Pos(s \o t, "start", i) = Pos(s, "start", i) \cup {Len(s) + 1}
    <3>1. Pos(s \o t, "start", i) = Pos(s, "start", i) \cup Shifted(Len(s), Pos(t, "start", i))
      BY <1>1, PosOfConcat
    <3>2. QED
      BY <2>1, <3>1, ShiftedOne
  <2>3. ASSUME NEW type \in {"delta", "input", "stop"} PROVE Pos(s \o t, type, i) = Pos(s, type, i)
    BY <1>1, <2>1, PosOfConcat
  <2>4. QED
    BY <2>2, <2>3
<1>4. \A type \in BlockEvents : Pos(s, type, i) = {}
  BY DEF Fresh
<1>5. Pos(s \o t, "start", i) = {Len(s) + 1} /\ Pos(s \o t, "stop", i) = {} /\ Inner(s \o t, i) = {}
  BY <1>3, <1>4 DEF Inner, BlockEvents
<1>6. Len(s) + 1 \in DOMAIN (s \o t)
  BY <1>5 DEF Pos
<1>7. Running(s \o t, i)
  BY <1>5, <1>6 DEF Running
<1>8. QED
  BY <1>3, <1>7 DEF t

\* One event of block i written after s.
With(s, type, i) == s \o <<Block(type, i)>>

LEMMA InnerRuns ==
  ASSUME NEW s \in Seq(Written), NEW i \in Blocks, Running(s, i), NEW type \in {"delta", "input"}
  PROVE  /\ Running(With(s, type, i), i)
         /\ Pos(With(s, type, i), type, i) = Pos(s, type, i) \cup {Len(s) + 1}
         /\ Len(s) + 1 \notin Pos(s, type, i)
         /\ type # "delta" => Pos(With(s, type, i), "delta", i) = Pos(s, "delta", i)
         /\ type # "input" => Pos(With(s, type, i), "input", i) = Pos(s, "input", i)
<1> DEFINE t == <<Block(type, i)>>
           r == s \o t
<1>1. t \in Seq(Written)
  <2>1. Block(type, i) \in Written
    BY WrittenMembers
  <2>2. QED
    BY <2>1
<1>2. \A other : Pos(t, other, i) = IF other = type THEN {1} ELSE {}
  BY PosOfOne DEF Block
<1>3. With(s, type, i) = r
  BY DEF With
<1> HIDE DEF t
<1>4. /\ Len(s) \in Nat /\ DOMAIN s = 1..Len(s) /\ DOMAIN s \subseteq DOMAIN r
      /\ Pos(s, type, i) \subseteq 1..Len(s)
      /\ Pos(r, type, i) = Pos(s, type, i) \cup {Len(s) + 1}
      /\ \A other \in BlockEvents \ {type} : Pos(r, other, i) = Pos(s, other, i)
  <2>1. Pos(t, type, i) = {1} /\ \A other \in BlockEvents \ {type} : Pos(t, other, i) = {}
    BY <1>2
  <2>2. ASSUME NEW other \in BlockEvents \ {type} PROVE Pos(r, other, i) = Pos(s, other, i)
    BY <1>1, <2>1, PosOfConcat
  <2>3. Pos(r, type, i) = Pos(s, type, i) \cup {Len(s) + 1}
    <3>1. Pos(s \o t, type, i) = Pos(s, type, i) \cup Shifted(Len(s), Pos(t, type, i))
      BY <1>1, PosOfConcat
    <3>2. QED
      BY <2>1, <3>1, ShiftedOne
  <2>4. QED
    BY <1>1, <2>2, <2>3, PosOfConcat
<1> HIDE DEF r
<1>5. /\ Pos(r, "start", i) = Pos(s, "start", i) /\ Pos(r, "stop", i) = Pos(s, "stop", i)
      /\ type # "delta" => Pos(r, "delta", i) = Pos(s, "delta", i)
      /\ type # "input" => Pos(r, "input", i) = Pos(s, "input", i)
  BY <1>4 DEF BlockEvents
<1>6. Inner(r, i) = Inner(s, i) \cup {Len(s) + 1}
  <2>1. CASE type = "delta"
    BY <1>4, <1>5, <2>1 DEF Inner
  <2>2. CASE type = "input"
    BY <1>4, <1>5, <2>2 DEF Inner
  <2>3. QED
    BY <2>1, <2>2
<1>7. PICK a \in DOMAIN s : /\ Pos(s, "start", i) = {a} /\ Pos(s, "stop", i) = {}
                            /\ \A k \in Inner(s, i) : a < k
  BY DEF Running
<1>8. a < Len(s) + 1
  BY <1>4, <1>7
<1>9. Running(r, i)
  BY <1>4, <1>5, <1>6, <1>7, <1>8 DEF Running
<1>10. Len(s) + 1 \notin Pos(s, type, i)
  BY <1>4
<1>11. QED
  BY <1>3, <1>4, <1>5, <1>9, <1>10

LEMMA StopStops ==
  ASSUME NEW s \in Seq(Written), NEW t \in Seq(Written), NEW i \in Blocks, Running(s, i),
         \E p \in DOMAIN t : Pos(t, "stop", i) = {p},
         \A type \in {"start", "delta", "input"} : Pos(t, type, i) = {}
  PROVE  /\ Stopped(s \o t, i)
         /\ \A type \in {"delta", "input"} : Pos(s \o t, type, i) = Pos(s, type, i)
<1>1. PICK p \in DOMAIN t : Pos(t, "stop", i) = {p}
  OBVIOUS
<1>2. /\ Len(s) \in Nat /\ DOMAIN s = 1..Len(s) /\ DOMAIN s \subseteq DOMAIN (s \o t)
      /\ DOMAIN t = 1..Len(t)
      /\ \A type : Pos(s, type, i) \subseteq 1..Len(s)
  BY PosOfConcat
<1>3. ASSUME NEW type \in {"start", "delta", "input"}
      PROVE  Pos(s \o t, type, i) = Pos(s, type, i)
  BY PosOfConcat
<1>4. PICK a \in DOMAIN s : /\ Pos(s, "start", i) = {a} /\ Pos(s, "stop", i) = {}
                            /\ \A k \in Inner(s, i) : a < k
  BY DEF Running
<1>5. Pos(s \o t, "stop", i) = {Len(s) + p}
  <2>1. Pos(s \o t, "stop", i) = Pos(s, "stop", i) \cup {Len(s) + p}
    <3>1. Pos(s \o t, "stop", i) = Pos(s, "stop", i) \cup Shifted(Len(s), Pos(t, "stop", i))
      BY PosOfConcat
    <3>2. QED
      BY <1>1, <3>1, ShiftedOne
  <2>2. QED
    BY <1>4, <2>1
<1>6. Len(s) + p \in DOMAIN (s \o t)
  BY <1>5 DEF Pos
<1>7. Inner(s \o t, i) = Inner(s, i) /\ Inner(s, i) \subseteq 1..Len(s)
  BY <1>2, <1>3 DEF Inner
<1>8. p \in Nat /\ p >= 1
  <2>1. Len(t) \in Nat
    BY LenProperties
  <2>2. QED
    BY <1>1, <1>2, <2>1
<1>9. a < Len(s) + p /\ \A k \in Inner(s, i) : k < Len(s) + p
  BY <1>2, <1>4, <1>7, <1>8
<1>10. Pos(s \o t, "start", i) = {a} /\ a \in DOMAIN (s \o t)
  BY <1>2, <1>3, <1>4
<1>11. Stopped(s \o t, i)
  BY <1>4, <1>5, <1>6, <1>7, <1>9, <1>10 DEF Stopped
<1>12. QED
  BY <1>3, <1>11

\* CloseAll stops every open block, once, and does nothing else to any block.
LEMMA CloseAllStops ==
  ASSUME openBlocks \subseteq Blocks, NEW i \in Blocks
  PROVE  /\ \A type \in {"start", "delta", "input"} : Pos(CloseAll, type, i) = {}
         /\ i \in openBlocks => \E p \in DOMAIN CloseAll : Pos(CloseAll, "stop", i) = {p}
         /\ i \notin openBlocks => Silent(CloseAll, i)
<1> DEFINE n == Cardinality(openBlocks)
           Distinct(f) == \A j, k \in 1..n : f[j] = f[k] => j = k
           order == CHOOSE f \in [1..n -> openBlocks] : Distinct(f)
<1>1. n \in Nat /\ ExistsBijection(1..n, openBlocks) /\ IsFiniteSet(openBlocks)
  BY BlocksFinite, FS_CardinalityType
<1>2. \E f \in [1..n -> openBlocks] : Distinct(f)
  <2>1. PICK f \in Bijection(1..n, openBlocks) : TRUE
    BY <1>1 DEF ExistsBijection
  <2>2. f \in [1..n -> openBlocks] /\ Distinct(f)
    BY <2>1 DEF Bijection, Injection, IsInjective
  <2>3. QED
    BY <2>2
<1>3. order \in [1..n -> openBlocks] /\ Distinct(order)
  <2> HIDE DEF Distinct
  <2>1. QED
    BY <1>2
<1>4. CloseAll = [k \in 1..n |-> Block("stop", order[k])]
  BY DEF CloseAll
<1> HIDE DEF order
<1>5. DOMAIN CloseAll = 1..n /\ \A k \in 1..n : CloseAll[k].type = "stop" /\ CloseAll[k].index = order[k]
  BY <1>4 DEF Block
<1>6. \A b \in openBlocks : \E k \in 1..n : order[k] = b
  <2>1. order \in Injection(1..n, openBlocks)
    BY <1>3 DEF Injection, IsInjective
  <2>2. Cardinality(1..n) = n
    BY <1>1, FS_Interval
  <2>3. order \in Surjection(1..n, openBlocks)
    BY <1>1, <2>1, <2>2, FS_Injection
  <2>4. QED
    BY <2>3 DEF Surjection
<1> HIDE DEF n
<1>7. \A type \in {"start", "delta", "input"} : Pos(CloseAll, type, i) = {}
  BY <1>5 DEF Pos
<1>8. ASSUME i \in openBlocks PROVE \E p \in DOMAIN CloseAll : Pos(CloseAll, "stop", i) = {p}
  <2>1. PICK p \in 1..n : order[p] = i
    BY <1>6, <1>8
  <2>2. \A k \in 1..n : order[k] = i => k = p
    BY <1>3, <2>1
  <2>3. Pos(CloseAll, "stop", i) = {p}
    BY <1>5, <2>1, <2>2 DEF Pos
  <2>4. QED
    BY <1>5, <2>3
<1>9. ASSUME i \notin openBlocks PROVE Silent(CloseAll, i)
  <2>1. \A k \in 1..n : order[k] # i
    BY <1>3, <1>9
  <2>2. QED
    BY <1>5, <2>1 DEF Silent
<1>10. QED
  BY <1>7, <1>8, <1>9

-----------------------------------------------------------------------------
(* The invariant of the blocks of a stream. *)

Pending(type, i) == event.type = type /\ event.index = i

\* The stream has been told of the block.
Reached(i) == upstream[i].kind # "none" /\ ~ Pending("open", i)

ShapeInv(i) ==
  /\ i \in openBlocks => Reached(i) /\ Running(sent, i)
  /\ i \notin openBlocks => IF Reached(i) THEN Stopped(sent, i) ELSE Fresh(sent, i)

\* A block is open until its end is handled, or the end of the message is.
OpenInv(i) ==
  /\ Reached(i) /\ ~ upstream[i].ended /\ source = "going" => i \in openBlocks
  /\ Pending("close", i) => i \in openBlocks

\* The deltas and the input written for a tool call are the upstream's, less
\* the delta or the end that is not handled yet.
Delivered(i) == IF Pending("delta", i) THEN upstream[i].deltas - 1 ELSE upstream[i].deltas
InputDue(i) == upstream[i].ended /\ upstream[i].deltas = 0 /\ ~ Pending("close", i)
CountInv(i) ==
  /\ i \in toolDeltaSeen => Pos(sent, "delta", i) # {}
  /\ upstream[i].kind = "none" => upstream[i].deltas = 0 /\ ~ upstream[i].ended
  /\ upstream[i].kind = "tool" =>
       /\ Pos(sent, "delta", i) # {} => i \in toolDeltaSeen
       /\ Cardinality(Pos(sent, "delta", i)) = Delivered(i)
       /\ Cardinality(Pos(sent, "input", i)) = IF InputDue(i) THEN 1 ELSE 0
BlockInv(i) == ShapeInv(i) /\ OpenInv(i) /\ CountInv(i)

\* An event about a block tells its kind, and comes while the block is open.
DeliveryInv ==
  /\ event.type \in {"open", "delta", "close"} =>
       event.kind = upstream[event.index].kind /\ event.kind # "none"
  /\ event.type \in {"open", "delta"} => ~ upstream[event.index].ended
  /\ event.type = "open" => upstream[event.index].deltas = 0
  /\ event.type = "delta" => upstream[event.index].deltas > 0
  /\ event.type = "close" => upstream[event.index].ended

\* The message is stopped after its blocks.
StopInv == At("message_stop") # {} => openBlocks = {}

BlocksInv == streaming => DeliveryInv /\ StopInv /\ \A i \in Blocks : BlockInv(i)

LEMMA PosFinite ==
  ASSUME NEW s \in Seq(Written), NEW type, NEW i
  PROVE  /\ IsFiniteSet(Pos(s, type, i))
         /\ Cardinality(Pos(s, type, i)) \in Nat
         /\ Cardinality(Pos(s, type, i)) = 0 <=> Pos(s, type, i) = {}
<1>1. Pos(s, type, i) \subseteq 1..Len(s) /\ Len(s) \in Nat
  BY LenProperties DEF Pos
<1>2. IsFiniteSet(Pos(s, type, i))
  <2>1. IsFiniteSet(1..Len(s))
    BY <1>1, FS_Interval
  <2>2. QED
    BY <1>1, <2>1, FS_Subset
<1>3. QED
  BY <1>2, FS_CardinalityType, FS_EmptySet

\* A step that writes nothing about a block and leaves what is known of it.
LEMMA QuietBlock ==
  ASSUME sent \in Seq(Written), NEW i \in Blocks, BlockInv(i),
         NEW t \in Seq(Written), Silent(t, i), sent' = sent \o t,
         i \in openBlocks' <=> i \in openBlocks,
         i \in toolDeltaSeen' <=> i \in toolDeltaSeen,
         upstream'[i] = upstream[i],
         Pending("open", i)' <=> Pending("open", i),
         Pending("delta", i)' <=> Pending("delta", i),
         Pending("close", i)' <=> Pending("close", i),
         source' = "going" => source = "going"
  PROVE  BlockInv(i)'
<1>1. /\ Fresh(sent, i) => Fresh(sent', i)
      /\ Running(sent, i) => Running(sent', i)
      /\ Stopped(sent, i) => Stopped(sent', i)
      /\ Pos(sent', "delta", i) = Pos(sent, "delta", i)
      /\ Pos(sent', "input", i) = Pos(sent, "input", i)
  BY SilentConcat DEF BlockEvents
<1>2. Reached(i)' <=> Reached(i)
  BY DEF Reached
<1>3. ShapeInv(i)'
  BY <1>1, <1>2 DEF BlockInv, ShapeInv
<1>4. OpenInv(i)'
  BY <1>2 DEF BlockInv, OpenInv
<1>5. Delivered(i)' = Delivered(i) /\ (InputDue(i)' <=> InputDue(i))
  BY DEF Delivered, InputDue
<1>6. CountInv(i)'
  BY <1>1, <1>5 DEF BlockInv, CountInv
<1>7. QED
  BY <1>3, <1>4, <1>6 DEF BlockInv

\* No end of the message is written by what does not hold one.
LEMMA StopNotWritten ==
  ASSUME sent \in Seq(Written), NEW t \in Seq(Written), sent' = sent \o t,
         \A k \in DOMAIN t : t[k].type # "message_stop"
  PROVE  At("message_stop")' # {} => At("message_stop") # {}
<1>1. /\ sent' \in Seq(Written) /\ Len(sent') = Len(sent) + Len(t)
      /\ \A k \in 1 .. Len(sent) + Len(t) :
           sent'[k] = IF k <= Len(sent) THEN sent[k] ELSE t[k - Len(sent)]
  BY ConcatProperties
<1>2. /\ Len(sent) \in Nat /\ Len(t) \in Nat /\ DOMAIN sent = 1..Len(sent) /\ DOMAIN t = 1..Len(t)
      /\ DOMAIN sent' = 1..Len(sent) + Len(t)
  BY <1>1, LenProperties
<1>3. ASSUME NEW k \in DOMAIN sent', sent'[k].type = "message_stop"
      PROVE  k \in DOMAIN sent /\ sent[k].type = "message_stop"
  <2>1. k <= Len(sent)
    BY <1>1, <1>2, <1>3
  <2>2. QED
    BY <1>1, <1>2, <1>3, <2>1
<1>4. QED
  BY <1>3 DEF At

\* A step of the stream that is about no block.
LEMMA QuietStep ==
  ASSUME TypeOK, BlocksInv, streaming' = streaming,
         NEW t \in Seq(Written), sent' = sent \o t, \A i \in Blocks : Silent(t, i),
         \A k \in DOMAIN t : t[k].type # "message_stop",
         UNCHANGED <<openBlocks, toolDeltaSeen, upstream>>,
         \/ event' = event
         \/ /\ event.type \notin {"open", "delta", "close"}
            /\ event'.type \notin {"open", "delta", "close"},
         source' = "going" => source = "going"
  PROVE  BlocksInv'
<1> SUFFICES ASSUME streaming PROVE DeliveryInv' /\ StopInv' /\ \A i \in Blocks : BlockInv(i)'
  BY DEF BlocksInv
<1>1. DeliveryInv /\ StopInv /\ \A i \in Blocks : BlockInv(i)
  BY DEF BlocksInv
<1>2. sent \in Seq(Written)
  BY DEF TypeOK, ReplyTypes
<1>3. DeliveryInv'
  BY <1>1 DEF DeliveryInv
<1>4. StopInv'
  BY <1>1, <1>2, StopNotWritten DEF StopInv
<1>5. ASSUME NEW i \in Blocks PROVE BlockInv(i)'
  <2>1. /\ Pending("open", i)' <=> Pending("open", i)
        /\ Pending("delta", i)' <=> Pending("delta", i)
        /\ Pending("close", i)' <=> Pending("close", i)
    BY DEF Pending
  <2>2. QED
    BY <1>1, <1>2, <2>1, QuietBlock
<1>6. QED
  BY <1>3, <1>4, <1>5

LEMMA InitBlocks == Init => BlocksInv
<1> SUFFICES ASSUME Init PROVE DeliveryInv /\ StopInv /\ \A i \in Blocks : BlockInv(i)
  BY DEF BlocksInv
<1>1. /\ event.type = "nothing" /\ sent = <<>> /\ openBlocks = {} /\ toolDeltaSeen = {}
      /\ \A i \in Blocks : /\ upstream[i].kind = "none" /\ upstream[i].deltas = 0
                           /\ ~ upstream[i].ended
  BY DEF Init, Nothing, Unopened, UpstreamBlock
<1>2. DeliveryInv /\ StopInv
  BY <1>1 DEF DeliveryInv, StopInv, At
<1>3. ASSUME NEW i \in Blocks PROVE BlockInv(i)
  <2>1. \A type : Pos(sent, type, i) = {}
    BY <1>1 DEF Pos
  <2>2. ~ Reached(i) /\ Fresh(sent, i) /\ ~ Pending("close", i)
    BY <1>1, <2>1 DEF Reached, Fresh, Pending
  <2>3. QED
    BY <1>1, <2>2 DEF BlockInv, ShapeInv, OpenInv, CountInv
<1>4. QED
  BY <1>2, <1>3

\* The end of the request writes one event, about no block.
LEMMA AnsweringBlocks ==
  ASSUME ReplyInv, BlocksInv,
         Refuse \/ NoAccount \/ FirstThrows \/ FirstEnds \/ FirstFails
           \/ CollectDone \/ CollectFails \/ CollectThrows \/ CollectEnds \/ OnThrow
  PROVE  BlocksInv'
<1>1. TypeOK /\ sent \in Seq(Written)
  BY DEF ReplyInv, TypeOK, ReplyTypes
<1>2. \E status \in {200, 400, 401, 413, 429, 499, 500, 502} : Answer(status) \/ Throw(status)
  BY DEF Refuse, NoAccount, FirstThrows, FirstEnds, FirstFails, CollectDone, CollectFails,
     CollectThrows, CollectEnds, OnThrow
<1>3. /\ event' = Nothing /\ UNCHANGED <<streaming, openBlocks, toolDeltaSeen, upstream, source>>
      /\ \E type \in {"json", "failure", "error"} : sent' = sent \o <<Message(type)>>
  BY <1>2 DEF Answer, Throw, Send, translation
<1>4. event.type \notin {"open", "delta", "close"} /\ Nothing.type = "nothing"
  BY DEF Refuse, NoAccount, FirstThrows, FirstEnds, FirstFails, CollectDone, CollectFails,
     CollectThrows, CollectEnds, OnThrow, First, Collected, Streamed, ReplyInv, BeforeReply, Nothing
<1>5. PICK type \in {"json", "failure", "error"} : sent' = sent \o <<Message(type)>>
  BY <1>3
<1> DEFINE t == <<Message(type)>>
<1>6. t \in Seq(Written) /\ DOMAIN t = {1} /\ t[1].type = type
  <2>1. Message(type) \in Written
    BY WrittenMembers DEF Ending
  <2>2. QED
    BY <2>1 DEF Message
<1>7. \A i \in Blocks : Silent(t, i)
  BY <1>6 DEF Silent, BlockEvents
<1>8. sent' = sent \o t
  BY <1>5
<1> HIDE DEF t
<1>9. QED
  BY <1>1, <1>3, <1>4, <1>6, <1>7, <1>8, QuietStep

\* The next account is asked before anything is written.
LEMMA SelectBlocks ==
  ASSUME ReplyInv, BlocksInv, Select
  PROVE  BlocksInv'
<1> SUFFICES ASSUME streaming PROVE DeliveryInv' /\ StopInv' /\ \A i \in Blocks : BlockInv(i)'
  BY DEF BlocksInv, Select
<1>1. /\ sent = <<>> /\ event = Nothing /\ Nothing.type = "nothing"
      /\ sent' = sent /\ event' = event /\ upstream' = Unopened
      /\ UNCHANGED <<openBlocks, toolDeltaSeen>>
  BY DEF Select, ReplyInv, BeforeReply, Nothing, translation, reply
<1>2. DeliveryInv' /\ StopInv'
  BY <1>1 DEF DeliveryInv, StopInv, At
<1>3. ASSUME NEW i \in Blocks PROVE BlockInv(i)'
  <2>1. ShapeInv(i) /\ CountInv(i)
    BY DEF BlocksInv, BlockInv
  <2>2. \A type : Pos(sent, type, i) = {}
    BY <1>1 DEF Pos
  <2>3. i \notin openBlocks /\ i \notin toolDeltaSeen
    BY <2>1, <2>2 DEF ShapeInv, Running, CountInv
  <2>4. upstream'[i].kind = "none" /\ upstream'[i].deltas = 0 /\ ~ upstream'[i].ended
    BY <1>1 DEF Unopened, UpstreamBlock
  <2>5. Fresh(sent', i) /\ ~ Reached(i)' /\ ~ Pending("close", i)'
    BY <1>1, <2>2, <2>4 DEF Fresh, Reached, Pending
  <2>6. QED
    BY <1>1, <2>3, <2>4, <2>5 DEF BlockInv, ShapeInv, OpenInv, CountInv
<1>4. QED
  BY <1>2, <1>3

LEMMA MovingBlocks ==
  ASSUME ReplyInv, BlocksInv,
         ReadBody \/ Select \/ ClientLeaves \/ FirstLimited \/ FirstServes \/ CollectMore \/ OnEnd
  PROVE  BlocksInv'
<1>1. CASE Select
  BY <1>1, SelectBlocks
<1>2. CASE CollectMore
  BY <1>2 DEF CollectMore, Collected, ReplyInv, BeforeReply, BlocksInv, handler
<1>3. CASE ReadBody \/ ClientLeaves \/ FirstLimited \/ FirstServes \/ OnEnd
  <2>1. UNCHANGED <<streaming, openBlocks, toolDeltaSeen, upstream, source, sent>>
    BY <1>3 DEF ReadBody, ClientLeaves, FirstLimited, FirstServes, OnEnd, handler, translation, reply
  <2>2. \/ event' = event
        \/ /\ event.type \notin {"open", "delta", "close"}
           /\ event'.type \notin {"open", "delta", "close"}
    <3>1. Nothing.type = "nothing"
      BY DEF Nothing
    <3>2. QED
      BY <1>3, <3>1 DEF ReadBody, ClientLeaves, FirstLimited, FirstServes, OnEnd, First, Streamed
  <2>3. TypeOK /\ sent \in Seq(Written)
    BY DEF ReplyInv, TypeOK, ReplyTypes
  <2>4. <<>> \in Seq(Written) /\ sent' = sent \o <<>>
    BY <2>1, <2>3
  <2>5. \A i \in Blocks : Silent(<<>>, i)
    BY SilentEvents
  <2>6. \A k \in DOMAIN <<>> : <<>>[k].type # "message_stop"
    OBVIOUS
  <2>7. QED
    BY <2>1, <2>2, <2>3, <2>4, <2>5, <2>6, QuietStep
<1>4. QED
  BY <1>1, <1>2, <1>3

\* The upstream opens a block, sends a delta of it or ends it.
LEMMA UpstreamBlockStep ==
  ASSUME ReplyInv, BlocksInv, streaming, event = Nothing, source = "going",
         NEW j \in Blocks, NEW type \in {"open", "delta", "close"},
         NEW kind, NEW deltas, NEW ended,
         upstream' = [upstream EXCEPT ![j] = UpstreamBlock(kind, deltas, ended)],
         event'.type = type, event'.index = j, event'.kind = kind, kind # "none",
         UNCHANGED <<streaming, translation, reply, source>>,
         \/ /\ type = "open" /\ upstream[j].kind = "none" /\ deltas = 0 /\ ended = FALSE
         \/ /\ type = "delta" /\ Open(j) /\ kind = upstream[j].kind
            /\ deltas = upstream[j].deltas + 1 /\ ended = FALSE
         \/ /\ type = "close" /\ Open(j) /\ kind = upstream[j].kind
            /\ deltas = upstream[j].deltas /\ ended = TRUE
  PROVE  BlocksInv'
<1>1. /\ DeliveryInv /\ StopInv /\ \A i \in Blocks : BlockInv(i)
      /\ sent \in Seq(Written) /\ upstream \in [Blocks -> UpstreamBlocks]
  BY DEF BlocksInv, ReplyInv, TypeOK, ReplyTypes, UpstreamTypes
<1>2. /\ event.type = "nothing"
      /\ UNCHANGED <<openBlocks, toolDeltaSeen, sent>>
  BY DEF Nothing, translation, reply
<1>3. /\ upstream'[j].kind = kind /\ upstream'[j].deltas = deltas /\ upstream'[j].ended = ended
      /\ \A i \in Blocks : i # j => upstream'[i] = upstream[i]
  <2>1. upstream'[j] = UpstreamBlock(kind, deltas, ended)
        /\ \A i \in Blocks : i # j => upstream'[i] = upstream[i]
    BY <1>1
  <2>2. QED
    BY <2>1 DEF UpstreamBlock
<1>4. upstream[j].deltas \in Nat /\ upstream[j].ended \in BOOLEAN
  BY <1>1, BoundsNat DEF UpstreamBlocks
<1>5. DeliveryInv'
  BY <1>3, <1>4 DEF DeliveryInv
<1>6. StopInv'
  BY <1>1, <1>2 DEF StopInv, At
<1>7. ASSUME NEW i \in Blocks, i # j PROVE BlockInv(i)'
  <2>1. /\ Pending("open", i)' <=> Pending("open", i)
        /\ Pending("delta", i)' <=> Pending("delta", i)
        /\ Pending("close", i)' <=> Pending("close", i)
    BY <1>2, <1>7 DEF Pending
  <2>2. <<>> \in Seq(Written) /\ sent' = sent \o <<>> /\ Silent(<<>>, i)
    BY <1>1, <1>2, SilentEvents
  <2>3. QED
    BY <1>1, <1>2, <1>3, <1>7, <2>1, <2>2, QuietBlock
<1>8. BlockInv(j)'
  <2>1. ShapeInv(j) /\ OpenInv(j) /\ CountInv(j)
    BY <1>1 DEF BlockInv
  <2>2. \A x : ~ Pending(x, j) \/ x = "nothing"
    BY <1>2 DEF Pending
  <2>3. \A x : Pending(x, j)' <=> x = type
    BY DEF Pending
  <2>4. Reached(j) <=> upstream[j].kind # "none"
    BY <2>2 DEF Reached
  <2>5. Reached(j)' <=> type # "open"
    BY <1>3, <2>3 DEF Reached
  <2>6. CASE type = "open"
    <3>1. Fresh(sent, j) /\ j \notin openBlocks
      BY <2>1, <2>4, <2>6 DEF ShapeInv, Open
    <3>2. Pos(sent, "delta", j) = {} /\ Pos(sent, "input", j) = {} /\ j \notin toolDeltaSeen
      BY <2>1, <3>1 DEF Fresh, BlockEvents, CountInv
    <3>3. ShapeInv(j)' /\ OpenInv(j)'
      BY <1>2, <2>3, <2>5, <2>6, <3>1 DEF ShapeInv, OpenInv
    <3>4. Delivered(j)' = 0 /\ ~ InputDue(j)' /\ ended = FALSE /\ deltas = 0
      BY <1>3, <2>3, <2>6, <1>4 DEF Delivered, InputDue, Open
    <3>5. CountInv(j)'
      BY <1>2, <1>3, <3>2, <3>4, FS_EmptySet DEF CountInv
    <3>6. QED
      BY <3>3, <3>5 DEF BlockInv
  <2>7. CASE type # "open"
    <3>1. Open(j) /\ upstream[j].kind = kind
      BY <2>7
    <3>2. j \in openBlocks /\ Running(sent, j)
      BY <2>1, <2>4, <3>1 DEF OpenInv, ShapeInv, Open
    <3>3. ShapeInv(j)' /\ OpenInv(j)'
      BY <1>2, <2>5, <2>7, <3>2 DEF ShapeInv, OpenInv
    <3>4. Delivered(j)' = Delivered(j)
      BY <1>3, <1>4, <2>2, <2>3, <2>7 DEF Delivered
    <3>5. ~ InputDue(j)' /\ ~ InputDue(j)
      BY <1>3, <2>3, <2>7, <3>1 DEF InputDue, Open
    <3>6. CountInv(j)'
      BY <1>2, <1>3, <2>1, <3>1, <3>4, <3>5 DEF CountInv
    <3>7. QED
      BY <3>3, <3>6 DEF BlockInv
  <2>8. QED
    BY <2>6, <2>7
<1>9. QED
  BY <1>5, <1>6, <1>7, <1>8 DEF BlocksInv

LEMMA UpstreamStepBlocks ==
  ASSUME ReplyInv, BlocksInv, Upstream
  PROVE  BlocksInv'
<1> SUFFICES ASSUME streaming PROVE BlocksInv'
  <2>1. streaming' = streaming
    BY DEF Upstream, UpstreamStarts, UpstreamOpens, UpstreamContinues, UpstreamCloses,
       UpstreamFinishes, UpstreamFails, UpstreamThrows, UpstreamEnds, Deliver, handler
  <2>2. QED
    BY <2>1 DEF BlocksInv
<1>1. event = Nothing /\ Nothing.type = "nothing" /\ UNCHANGED <<streaming, translation, reply>>
  BY DEF Upstream, UpstreamStarts, UpstreamOpens, UpstreamContinues, UpstreamCloses,
     UpstreamFinishes, UpstreamFails, UpstreamThrows, UpstreamEnds, Deliver, MayStream, Awaiting,
     handler, Nothing
<1>2. TypeOK /\ sent \in Seq(Written) /\ upstream \in [Blocks -> UpstreamBlocks]
  BY DEF ReplyInv, TypeOK, ReplyTypes, UpstreamTypes
<1>3. CASE UpstreamStarts \/ UpstreamFinishes \/ UpstreamFails \/ UpstreamThrows \/ UpstreamEnds
  <2>1. event'.type \notin {"open", "delta", "close"} /\ UNCHANGED upstream
        /\ (source' = "going" => source = "going")
    BY <1>3 DEF UpstreamStarts, UpstreamFinishes, UpstreamFails, UpstreamThrows, UpstreamEnds,
       Deliver, MayStream, Awaiting
  <2>2. <<>> \in Seq(Written) /\ sent' = sent \o <<>> /\ UNCHANGED <<openBlocks, toolDeltaSeen>>
    BY <1>1, <1>2 DEF translation, reply
  <2>3. \A i \in Blocks : Silent(<<>>, i)
    BY SilentEvents
  <2>4. \A k \in DOMAIN <<>> : <<>>[k].type # "message_stop"
    OBVIOUS
  <2>5. QED
    BY <1>1, <1>2, <2>1, <2>2, <2>3, <2>4, QuietStep
<1>4. CASE UpstreamOpens
  <2>1. PICK i \in Blocks, kind \in {"text", "thinking", "tool"} :
          /\ upstream[i].kind = "none"
          /\ upstream' = [upstream EXCEPT ![i] = UpstreamBlock(kind, 0, FALSE)]
          /\ Deliver([type |-> "open", index |-> i, kind |-> kind])
    BY <1>4, Zenon DEF UpstreamOpens
  <2>2. event'.type = "open" /\ event'.index = i /\ event'.kind = kind /\ kind # "none"
    BY <2>1 DEF Deliver
  <2>3. source = "going" /\ UNCHANGED source
    BY <1>4 DEF UpstreamOpens, MayStream
  <2>4. QED
    BY <1>1, <2>1, <2>2, <2>3, UpstreamBlockStep
<1>5. CASE UpstreamContinues
  <2>1. PICK i \in Blocks :
          /\ Open(i)
          /\ upstream' = [upstream EXCEPT
               ![i] = UpstreamBlock(upstream[i].kind, upstream[i].deltas + 1, FALSE)]
          /\ Deliver([type |-> "delta", index |-> i, kind |-> upstream[i].kind])
    BY <1>5, Zenon DEF UpstreamContinues
  <2>2. event'.type = "delta" /\ event'.index = i /\ event'.kind = upstream[i].kind
        /\ upstream[i].kind # "none"
    BY <2>1 DEF Deliver, Open
  <2>3. source = "going" /\ UNCHANGED source
    BY <1>5 DEF UpstreamContinues, MayStream
  <2>4. QED
    BY <1>1, <2>1, <2>2, <2>3, UpstreamBlockStep
<1>6. CASE UpstreamCloses
  <2>1. PICK i \in Blocks, signed \in BOOLEAN :
          /\ Open(i)
          /\ upstream' = [upstream EXCEPT
               ![i] = UpstreamBlock(upstream[i].kind, upstream[i].deltas, TRUE)]
          /\ Deliver([type |-> "close", index |-> i, kind |-> upstream[i].kind,
                      signed |-> signed /\ upstream[i].kind = "thinking"])
    BY <1>6, Zenon DEF UpstreamCloses
  <2>2. event'.type = "close" /\ event'.index = i /\ event'.kind = upstream[i].kind
        /\ upstream[i].kind # "none"
    BY <2>1 DEF Deliver, Open
  <2>3. source = "going" /\ UNCHANGED source
    BY <1>6 DEF UpstreamCloses, MayStream
  <2>4. QED
    BY <1>1, <2>1, <2>2, <2>3, UpstreamBlockStep
<1>7. QED
  BY <1>3, <1>4, <1>5, <1>6 DEF Upstream

-----------------------------------------------------------------------------
(* The blocks while the stream is written. *)

\* What ensureMessageStart writes is about no block.
LEMMA AnnouncedSilent ==
  /\ Announced \in Seq(Written)
  /\ \A i \in Blocks : Silent(Announced, i)
  /\ \A k \in DOMAIN Announced : Announced[k].type # "message_stop"
<1>1. Message("message_start") \in Written /\ Message("message_start").type = "message_start"
  BY WrittenMembers DEF Message
<1>2. Announced \in Seq(Written)
      /\ \A k \in DOMAIN Announced : Announced[k].type # "message_stop"
  BY <1>1 DEF Announced
<1>3. QED
  BY <1>2, SilentEvents

\* The handler of an event of block j leaves every other block alone.
LEMMA OtherBlocks ==
  ASSUME ReplyInv, ReplyInv', BlocksInv, streaming, Handled, phase = "stream",
         NEW j \in Blocks, event.type \in {"open", "delta", "close"}, event.index = j,
         NEW t \in Seq(Written), sent' = sent \o t,
         \A i \in Blocks : i # j => Silent(t, i),
         \A i \in Blocks : i # j => (i \in openBlocks' <=> i \in openBlocks),
         \A i \in Blocks : i # j => (i \in toolDeltaSeen' <=> i \in toolDeltaSeen),
         BlockInv(j)'
  PROVE  BlocksInv'
<1>1. /\ sent \in Seq(Written) /\ \A i \in Blocks : BlockInv(i)
      /\ source = "going"
  BY DEF BlocksInv, ReplyInv, TypeOK, ReplyTypes, SourceTold
<1>2. /\ event' = Nothing /\ Nothing.type = "nothing" /\ event'.type = "nothing"
      /\ UNCHANGED <<streaming, phase, upstream, source>>
  BY DEF Handled, handler, Nothing
<1>3. DeliveryInv'
  BY <1>2 DEF DeliveryInv
<1>4. StopInv'
  <2>1. Unfinished(sent')
    BY <1>1, <1>2 DEF ReplyInv, WhileStreaming
  <2>2. QED
    BY <2>1 DEF StopInv, At, Unfinished, Ending
<1>5. ASSUME NEW i \in Blocks, i # j PROVE BlockInv(i)'
  <2>1. /\ Pending("open", i)' <=> Pending("open", i)
        /\ Pending("delta", i)' <=> Pending("delta", i)
        /\ Pending("close", i)' <=> Pending("close", i)
    BY <1>2, <1>5 DEF Pending
  <2>2. QED
    BY <1>1, <1>2, <1>5, <2>1, QuietBlock
<1>6. QED
  BY <1>3, <1>4, <1>5 DEF BlocksInv

LEMMA BlockStartBlocks ==
  ASSUME ReplyInv, ReplyInv', BlocksInv, OnBlockStart
  PROVE  BlocksInv'
<1>1. streaming /\ Handled /\ phase = "stream" /\ event.type = "open"
  BY DEF OnBlockStart, Streamed, ReplyInv, WhileStreaming
<1>2. sent \in Seq(Written) /\ event \in Events
  BY DEF ReplyInv, TypeOK, ReplyTypes, UpstreamTypes
<1>3. PICK j \in Blocks : j = event.index
  BY <1>1, <1>2, EventFields
<1> DEFINE t == Announced \o <<Block("start", j)>>
<1>4. DeliveryInv /\ BlockInv(j)
  BY <1>1 DEF BlocksInv
<1>5. Block("start", j) \in Written /\ <<Block("start", j)>> \in Seq(Written)
  <2>1. Block("start", j) \in Written
    BY WrittenMembers
  <2>2. QED
    BY <2>1
<1>6. t \in Seq(Written) /\ sent' = sent \o t
      /\ sent' = (sent \o Announced) \o <<Block("start", j)>>
  <2>1. t \in Seq(Written)
    BY <1>5, AnnouncedSilent, ConcatProperties
  <2>2. sent' = sent \o t
    BY <1>3 DEF OnBlockStart, Send
  <2>3. sent \o t = (sent \o Announced) \o <<Block("start", j)>>
    BY <1>2, <1>5, AnnouncedSilent, Associative
  <2>4. QED
    BY <2>1, <2>2, <2>3
<1>7. ASSUME NEW i \in Blocks, i # j PROVE Silent(t, i)
  <2>1. Silent(<<Block("start", j)>>, i) /\ Silent(Announced, i)
    BY <1>7, SilentEvents
  <2>2. QED
    BY <1>5, <2>1, AnnouncedSilent, SilentBoth
<1>8. /\ openBlocks' = openBlocks \cup {j} /\ toolDeltaSeen' = toolDeltaSeen
      /\ upstream' = upstream /\ event'.type = "nothing"
  BY <1>3 DEF OnBlockStart, Handled, Nothing
<1>9. BlockInv(j)'
  <2>1. Pending("open", j) /\ ~ Reached(j)
    BY <1>1, <1>3 DEF Pending, Reached
  <2>2. Fresh(sent, j)
    BY <1>4, <2>1 DEF BlockInv, ShapeInv
  <2>3. Fresh(sent \o Announced, j) /\ sent \o Announced \in Seq(Written)
    BY <1>2, <2>2, AnnouncedSilent, SilentConcat, ConcatProperties
  <2>4. /\ Running(sent', j)
        /\ \A type \in {"delta", "input"} :
             Pos(sent', type, j) = Pos(sent \o Announced, type, j)
    BY <1>6, <2>3, StartRuns
  <2>5. /\ Pos(sent', "delta", j) = {} /\ Pos(sent', "input", j) = {}
        /\ Pos(sent, "delta", j) = {} /\ Pos(sent, "input", j) = {}
    BY <2>2, <2>3, <2>4 DEF Fresh, BlockEvents
  <2>6. /\ upstream[j].kind # "none" /\ ~ upstream[j].ended
        /\ ~ Pending("close", j) /\ ~ Pending("delta", j)
        /\ \A x : Pending(x, j)' => x = "nothing"
    BY <1>1, <1>3, <1>4, <1>8 DEF DeliveryInv, Pending
  <2>7. Reached(j)' /\ j \in openBlocks'
    BY <1>8, <2>6 DEF Reached
  <2>8. ShapeInv(j)' /\ OpenInv(j)'
    BY <2>4, <2>7 DEF ShapeInv, OpenInv
  <2>9. Delivered(j)' = Delivered(j) /\ ~ InputDue(j)' /\ ~ InputDue(j)
    BY <1>8, <2>6 DEF Delivered, InputDue
  <2>10. CountInv(j)'
    BY <1>4, <1>8, <2>5, <2>9 DEF BlockInv, CountInv
  <2>11. QED
    BY <2>8, <2>10 DEF BlockInv
<1> HIDE DEF t
<1>10. \A i \in Blocks : i # j => Silent(t, i)
  BY <1>7
<1>11. QED
  BY <1>1, <1>3, <1>6, <1>8, <1>9, <1>10, OtherBlocks

LEMMA DeltaBlocks ==
  ASSUME ReplyInv, ReplyInv', BlocksInv, OnDelta
  PROVE  BlocksInv'
<1>1. streaming /\ Handled /\ phase = "stream" /\ event.type = "delta" /\ source = "going"
  BY DEF OnDelta, Streamed, ReplyInv, WhileStreaming, SourceTold
<1>2. sent \in Seq(Written) /\ event \in Events /\ upstream \in [Blocks -> UpstreamBlocks]
  BY DEF ReplyInv, TypeOK, ReplyTypes, UpstreamTypes
<1>3. PICK j \in Blocks : j = event.index
  BY <1>1, <1>2, EventFields
<1> DEFINE t == Announced \o <<Block("delta", j)>>
<1>4. DeliveryInv /\ BlockInv(j)
  BY <1>1 DEF BlocksInv
<1>5. Block("delta", j) \in Written /\ <<Block("delta", j)>> \in Seq(Written)
  <2>1. Block("delta", j) \in Written
    BY WrittenMembers
  <2>2. QED
    BY <2>1
<1>6. t \in Seq(Written) /\ sent' = sent \o t
      /\ sent' = (sent \o Announced) \o <<Block("delta", j)>>
  <2>1. t \in Seq(Written)
    BY <1>5, AnnouncedSilent, ConcatProperties
  <2>2. sent' = sent \o t
    BY <1>3 DEF OnDelta, Send
  <2>3. sent \o t = (sent \o Announced) \o <<Block("delta", j)>>
    BY <1>2, <1>5, AnnouncedSilent, Associative
  <2>4. QED
    BY <2>1, <2>2, <2>3
<1>7. ASSUME NEW i \in Blocks, i # j PROVE Silent(t, i)
  <2>1. Silent(<<Block("delta", j)>>, i) /\ Silent(Announced, i)
    BY <1>7, SilentEvents
  <2>2. QED
    BY <1>5, <2>1, AnnouncedSilent, SilentBoth
<1>8. /\ toolDeltaSeen' = IF event.kind = "tool" THEN toolDeltaSeen \cup {j} ELSE toolDeltaSeen
      /\ openBlocks' = openBlocks /\ upstream' = upstream /\ event'.type = "nothing"
      /\ event.kind = upstream[j].kind /\ upstream[j].kind # "none"
      /\ ~ upstream[j].ended /\ upstream[j].deltas > 0 /\ upstream[j].deltas \in Nat
  <2>1. upstream[j].deltas \in Nat
    BY <1>2, BoundsNat DEF UpstreamBlocks
  <2>2. QED
    BY <1>1, <1>3, <1>4, <2>1 DEF OnDelta, Handled, Nothing, DeliveryInv
<1>9. BlockInv(j)'
  <2>1. /\ Pending("delta", j) /\ ~ Pending("open", j) /\ ~ Pending("close", j)
        /\ \A x : Pending(x, j)' => x = "nothing"
    BY <1>1, <1>3, <1>8 DEF Pending
  <2>2. Reached(j) /\ Reached(j)'
    BY <1>8, <2>1 DEF Reached
  <2>3. j \in openBlocks /\ Running(sent, j)
    BY <1>1, <1>4, <1>8, <2>2 DEF BlockInv, OpenInv, ShapeInv
  <2>4. /\ Running(sent \o Announced, j) /\ sent \o Announced \in Seq(Written)
        /\ Pos(sent \o Announced, "delta", j) = Pos(sent, "delta", j)
        /\ Pos(sent \o Announced, "input", j) = Pos(sent, "input", j)
    BY <1>2, <2>3, AnnouncedSilent, SilentConcat, ConcatProperties DEF BlockEvents
  <2>5. PICK k : /\ Running(sent', j)
                 /\ Pos(sent', "delta", j) = Pos(sent, "delta", j) \cup {k}
                 /\ k \notin Pos(sent, "delta", j)
                 /\ Pos(sent', "input", j) = Pos(sent, "input", j)
    <3> DEFINE r == sent \o Announced
    <3>1. sent' = With(r, "delta", j) /\ r \in Seq(Written) /\ Running(r, j)
      BY <1>6, <2>4 DEF With
    <3> HIDE DEF r
    <3>2. /\ Running(sent', j)
          /\ Pos(sent', "delta", j) = Pos(r, "delta", j) \cup {Len(r) + 1}
          /\ Len(r) + 1 \notin Pos(r, "delta", j)
          /\ Pos(sent', "input", j) = Pos(r, "input", j)
      BY <3>1, InnerRuns
    <3>3. QED
      BY <2>4, <3>2 DEF r
  <2>6. ShapeInv(j)' /\ OpenInv(j)'
    BY <1>8, <2>1, <2>2, <2>3, <2>5 DEF ShapeInv, OpenInv
  <2>7. /\ Delivered(j) = upstream[j].deltas - 1 /\ Delivered(j)' = upstream[j].deltas
        /\ ~ InputDue(j)' /\ ~ InputDue(j)
    BY <1>8, <2>1 DEF Delivered, InputDue
  <2>8. Cardinality(Pos(sent', "delta", j)) = Cardinality(Pos(sent, "delta", j)) + 1
    BY <1>2, <2>5, PosFinite, FS_AddElement
  <2>9. CASE upstream[j].kind = "tool"
    <3>1. j \in toolDeltaSeen' /\ Pos(sent', "delta", j) # {}
      BY <1>8, <2>5, <2>9
    <3>2. Cardinality(Pos(sent', "delta", j)) = Delivered(j)'
      BY <1>4, <1>8, <2>7, <2>8, <2>9 DEF BlockInv, CountInv
    <3>3. Cardinality(Pos(sent', "input", j)) = IF InputDue(j)' THEN 1 ELSE 0
      BY <1>4, <2>5, <2>7, <2>9 DEF BlockInv, CountInv
    <3>4. CountInv(j)'
      BY <1>8, <2>9, <3>1, <3>2, <3>3 DEF CountInv
    <3>5. QED
      BY <2>6, <3>4 DEF BlockInv
  <2>10. CASE upstream[j].kind # "tool"
    <3>1. CountInv(j)'
      BY <1>8, <2>5, <2>10 DEF CountInv
    <3>2. QED
      BY <2>6, <3>1 DEF BlockInv
  <2>11. QED
    BY <2>9, <2>10
<1> HIDE DEF t
<1>10. \A i \in Blocks : i # j => Silent(t, i)
  BY <1>7
<1>11. \A i \in Blocks : i # j => (i \in toolDeltaSeen' <=> i \in toolDeltaSeen)
  BY <1>8
<1>12. QED
  BY <1>1, <1>3, <1>6, <1>8, <1>9, <1>10, <1>11, OtherBlocks

\* The last words of block j are one delta or input of its own, or nothing.
LEMMA ClosingWords ==
  ASSUME NEW j \in Blocks, event.index = j
  PROVE  /\ Closing \in Seq(Written)
         /\ \A i \in Blocks : i # j => Silent(Closing, i)
         /\ \/ Closing = <<>>
            \/ Closing = <<Block("delta", j)>> /\ event.kind # "tool"
            \/ Closing = <<Block("input", j)>> /\ event.kind = "tool" /\ j \notin toolDeltaSeen
         /\ event.kind = "tool" /\ j \notin toolDeltaSeen => Closing = <<Block("input", j)>>
<1>1. /\ \/ Closing = <<>>
         \/ Closing = <<Block("delta", j)>> /\ event.kind # "tool"
         \/ Closing = <<Block("input", j)>> /\ event.kind = "tool" /\ j \notin toolDeltaSeen
      /\ event.kind = "tool" /\ j \notin toolDeltaSeen => Closing = <<Block("input", j)>>
  BY DEF Closing, ToolInput
<1>2. Block("delta", j) \in Written /\ Block("input", j) \in Written
  BY WrittenMembers
<1>3. <<Block("delta", j)>> \in Seq(Written) /\ <<Block("input", j)>> \in Seq(Written)
      /\ <<>> \in Seq(Written)
  BY <1>2
<1>4. ASSUME NEW i \in Blocks, i # j PROVE Silent(Closing, i)
  <2>1. /\ Silent(<<>>, i) /\ Silent(<<Block("delta", j)>>, i) /\ Silent(<<Block("input", j)>>, i)
    BY <1>4, SilentEvents
  <2>2. QED
    BY <1>1, <2>1
<1>5. QED
  BY <1>1, <1>3, <1>4

LEMMA BlockEndBlocks ==
  ASSUME ReplyInv, ReplyInv', BlocksInv, OnBlockEnd
  PROVE  BlocksInv'
<1>1. streaming /\ Handled /\ phase = "stream" /\ event.type = "close"
  BY DEF OnBlockEnd, Streamed, ReplyInv, WhileStreaming
<1>2. sent \in Seq(Written) /\ event \in Events /\ upstream \in [Blocks -> UpstreamBlocks]
  BY DEF ReplyInv, TypeOK, ReplyTypes, UpstreamTypes
<1>3. PICK j \in Blocks : j = event.index
  BY <1>1, <1>2, EventFields
<1>4. DeliveryInv /\ BlockInv(j)
  BY <1>1 DEF BlocksInv
<1>5. /\ openBlocks' = openBlocks \ {j} /\ toolDeltaSeen' = toolDeltaSeen
      /\ upstream' = upstream /\ event'.type = "nothing"
      /\ event.kind = upstream[j].kind /\ upstream[j].kind # "none"
      /\ upstream[j].ended /\ upstream[j].deltas \in Nat
  <2>1. upstream[j].deltas \in Nat
    BY <1>2, BoundsNat DEF UpstreamBlocks
  <2>2. QED
    BY <1>1, <1>3, <1>4, <2>1 DEF OnBlockEnd, Handled, Nothing, DeliveryInv
<1>6. /\ Pending("close", j) /\ ~ Pending("open", j) /\ ~ Pending("delta", j)
      /\ \A x : Pending(x, j)' => x = "nothing"
  BY <1>1, <1>3, <1>5 DEF Pending
<1>7. j \in openBlocks /\ Running(sent, j) /\ Reached(j)'
  BY <1>4, <1>5, <1>6 DEF BlockInv, OpenInv, ShapeInv, Reached
<1> DEFINE stop == <<Block("stop", j)>>
           t == Closing \o stop
<1>8. Block("stop", j) \in Written /\ stop \in Seq(Written)
  <2>1. Block("stop", j) \in Written
    BY WrittenMembers
  <2>2. QED
    BY <2>1
<1>9. /\ Closing \in Seq(Written)
      /\ \A i \in Blocks : i # j => Silent(Closing, i)
      /\ \/ Closing = <<>>
         \/ Closing = <<Block("delta", j)>> /\ event.kind # "tool"
         \/ Closing = <<Block("input", j)>> /\ event.kind = "tool" /\ j \notin toolDeltaSeen
      /\ event.kind = "tool" /\ j \notin toolDeltaSeen => Closing = <<Block("input", j)>>
  BY <1>3, ClosingWords
<1>10. t \in Seq(Written) /\ sent' = sent \o t /\ sent' = (sent \o Closing) \o stop
       /\ sent \o Closing \in Seq(Written)
  <2>1. t \in Seq(Written) /\ sent \o Closing \in Seq(Written)
    BY <1>2, <1>8, <1>9, ConcatProperties
  <2>2. sent' = sent \o t
    BY <1>3, <1>7 DEF OnBlockEnd, Send, CloseBlock
  <2>3. sent \o t = (sent \o Closing) \o stop
    BY <1>2, <1>8, <1>9, Associative
  <2>4. QED
    BY <2>1, <2>2, <2>3
<1>11. /\ \E p \in DOMAIN stop : Pos(stop, "stop", j) = {p}
       /\ \A type \in {"start", "delta", "input"} : Pos(stop, type, j) = {}
  <2>1. 1 \in DOMAIN stop
    OBVIOUS
  <2>2. Pos(stop, "stop", j) = {1}
    BY PosOfOne DEF Block
  <2>3. ASSUME NEW type \in {"start", "delta", "input"} PROVE Pos(stop, type, j) = {}
    BY PosOfOne DEF Block
  <2>4. QED
    BY <2>1, <2>2, <2>3
<1>12. \A i \in Blocks : i # j => Silent(t, i)
  <2>1. ASSUME NEW i \in Blocks, i # j PROVE Silent(t, i)
    <3>1. Silent(stop, i)
      BY <2>1, SilentEvents
    <3> HIDE DEF stop
    <3>2. QED
      BY <1>8, <1>9, <2>1, <3>1, SilentBoth
  <2>2. QED
    BY <2>1
<1> HIDE DEF stop, t
<1>13. /\ Running(sent \o Closing, j)
       /\ Pos(sent, "delta", j) \subseteq Pos(sent \o Closing, "delta", j)
       /\ event.kind = "tool" => Pos(sent \o Closing, "delta", j) = Pos(sent, "delta", j)
       /\ event.kind = "tool" /\ j \in toolDeltaSeen =>
            Pos(sent \o Closing, "input", j) = Pos(sent, "input", j)
       /\ event.kind = "tool" /\ j \notin toolDeltaSeen =>
            \E k : k \notin Pos(sent, "input", j)
                   /\ Pos(sent \o Closing, "input", j) = Pos(sent, "input", j) \cup {k}
  <2>1. CASE Closing = <<>>
    <3>1. sent \o Closing = sent
      BY <1>2, <2>1
    <3>2. Block("input", j) # Closing[1] \/ <<Block("input", j)>> # <<>>
      OBVIOUS
    <3>3. ~ (event.kind = "tool" /\ j \notin toolDeltaSeen)
      BY <1>9, <2>1
    <3>4. QED
      BY <1>7, <3>1, <3>3
  <2>2. CASE Closing = <<Block("delta", j)>> /\ event.kind # "tool"
    <3>1. sent \o Closing = With(sent, "delta", j)
      BY <2>2 DEF With
    <3>2. /\ Running(sent \o Closing, j)
          /\ Pos(sent \o Closing, "delta", j) = Pos(sent, "delta", j) \cup {Len(sent) + 1}
      BY <1>2, <1>7, <3>1, InnerRuns
    <3>3. QED
      BY <2>2, <3>2
  <2>3. CASE Closing = <<Block("input", j)>> /\ event.kind = "tool" /\ j \notin toolDeltaSeen
    <3> DEFINE r == With(sent, "input", j)
    <3>1. sent \o Closing = r
      BY <2>3 DEF With
    <3>2. /\ Running(r, j)
          /\ Pos(r, "input", j) = Pos(sent, "input", j) \cup {Len(sent) + 1}
          /\ Len(sent) + 1 \notin Pos(sent, "input", j)
          /\ Pos(r, "delta", j) = Pos(sent, "delta", j)
      BY <1>2, <1>7, InnerRuns
    <3>3. QED
      BY <2>3, <3>1, <3>2
  <2>4. QED
    BY <1>9, <2>1, <2>2, <2>3
<1>14. /\ Stopped(sent', j)
       /\ Pos(sent', "delta", j) = Pos(sent \o Closing, "delta", j)
       /\ Pos(sent', "input", j) = Pos(sent \o Closing, "input", j)
  <2>1. /\ Stopped((sent \o Closing) \o stop, j)
        /\ \A type \in {"delta", "input"} :
             Pos((sent \o Closing) \o stop, type, j) = Pos(sent \o Closing, type, j)
    BY <1>8, <1>10, <1>11, <1>13, StopStops, Zenon
  <2>2. QED
    BY <1>10, <2>1
<1>15. BlockInv(j)'
  <2>1. ShapeInv(j)' /\ OpenInv(j)'
    BY <1>5, <1>6, <1>7, <1>14 DEF ShapeInv, OpenInv
  <2>2. CASE upstream[j].kind # "tool"
    <3>1. CountInv(j)'
      BY <1>4, <1>5, <1>13, <1>14, <2>2 DEF BlockInv, CountInv
    <3>2. QED
      BY <2>1, <3>1 DEF BlockInv
  <2>3. CASE upstream[j].kind = "tool"
    <3>1. /\ Delivered(j) = upstream[j].deltas /\ Delivered(j)' = upstream[j].deltas
          /\ ~ InputDue(j) /\ (InputDue(j)' <=> upstream[j].deltas = 0)
      BY <1>5, <1>6 DEF Delivered, InputDue
    <3>2. /\ j \in toolDeltaSeen <=> Pos(sent, "delta", j) # {}
          /\ Cardinality(Pos(sent, "delta", j)) = upstream[j].deltas
          /\ Cardinality(Pos(sent, "input", j)) = 0
      BY <1>4, <2>3, <3>1 DEF BlockInv, CountInv
    <3>3. j \in toolDeltaSeen <=> upstream[j].deltas # 0
      BY <1>2, <3>2, PosFinite
    <3>4. Pos(sent', "delta", j) = Pos(sent, "delta", j)
      BY <1>5, <1>13, <1>14, <2>3
    <3>5. Cardinality(Pos(sent', "input", j)) = IF upstream[j].deltas = 0 THEN 1 ELSE 0
      <4>1. CASE upstream[j].deltas = 0
        <5>1. PICK k : k \notin Pos(sent, "input", j)
                       /\ Pos(sent', "input", j) = Pos(sent, "input", j) \cup {k}
          BY <1>5, <1>13, <1>14, <2>3, <3>3, <4>1
        <5>2. QED
          BY <1>2, <3>2, <4>1, <5>1, PosFinite, FS_AddElement
      <4>2. CASE upstream[j].deltas # 0
        BY <1>5, <1>13, <1>14, <2>3, <3>2, <3>3, <4>2
      <4>3. QED
        BY <4>1, <4>2
    <3>6. CountInv(j)'
      BY <1>5, <2>3, <3>1, <3>2, <3>4, <3>5 DEF CountInv
    <3>7. QED
      BY <2>1, <3>6 DEF BlockInv
  <2>4. QED
    BY <2>2, <2>3
<1>16. QED
  BY <1>1, <1>3, <1>5, <1>10, <1>12, <1>15, OtherBlocks

\* message_start and an error event are about no block.
LEMMA StartErrorBlocks ==
  ASSUME ReplyInv, BlocksInv, OnStart \/ OnError
  PROVE  BlocksInv'
<1>1. /\ TypeOK /\ sent \in Seq(Written) /\ Handled
      /\ event.type \notin {"open", "delta", "close"}
  BY DEF OnStart, OnError, Streamed, ReplyInv, TypeOK, ReplyTypes
<1>2. /\ UNCHANGED <<streaming, openBlocks, toolDeltaSeen, upstream, source>>
      /\ event'.type \notin {"open", "delta", "close"}
  BY DEF OnStart, OnError, Handled, handler, translation, Nothing
<1>3. CASE OnStart
  <2>1. sent' = sent \o Announced
    BY <1>3 DEF OnStart, Send
  <2>2. QED
    BY <1>1, <1>2, <2>1, AnnouncedSilent, QuietStep
<1>4. CASE OnError
  <2> DEFINE t == <<Message("error")>>
  <2>1. t \in Seq(Written) /\ \A k \in DOMAIN t : t[k].type = "error"
    <3>1. Message("error") \in Written
      BY WrittenMembers DEF Ending
    <3>2. QED
      BY <3>1 DEF Message
  <2>2. \A i \in Blocks : Silent(t, i)
    BY <2>1 DEF Silent, BlockEvents
  <2>3. sent' = sent \o t
    BY <1>4 DEF OnError, Send
  <2> HIDE DEF t
  <2>4. QED
    BY <1>1, <1>2, <2>1, <2>2, <2>3, QuietStep
<1>5. QED
  BY <1>3, <1>4

\* The end of the message stops the blocks the upstream has left open.
LEMMA DoneBlocks ==
  ASSUME ReplyInv, BlocksInv, OnDone
  PROVE  BlocksInv'
<1>1. streaming /\ Handled /\ event.type = "done" /\ source = "settled"
  BY DEF OnDone, Streamed, ReplyInv, WhileStreaming, SourceTold
<1>2. sent \in Seq(Written) /\ openBlocks \subseteq Blocks
  BY DEF ReplyInv, TypeOK, ReplyTypes
<1>3. /\ openBlocks' = {} /\ toolDeltaSeen' = toolDeltaSeen /\ upstream' = upstream
      /\ event'.type = "nothing" /\ source' = "settled" /\ streaming' = streaming
  BY <1>1 DEF OnDone, Handled, handler, Nothing
<1> DEFINE end == <<Message("message_delta"), Message("message_stop")>>
<1>4. end \in Seq(Written) /\ \A i \in Blocks : Silent(end, i)
  <2>1. Message("message_delta") \in Written /\ Message("message_stop") \in Written
    BY WrittenMembers DEF Ending
  <2>2. \A i \in Blocks : Silent(end, i)
    BY SilentEvents
  <2>3. QED
    BY <2>1, <2>2
<1>5. CloseAll \in Seq(Written)
  BY <1>2, CloseAllType
<1>6. sent' = sent \o ((Announced \o CloseAll) \o end)
  BY DEF OnDone, Send
<1> HIDE DEF end
<1> DEFINE begun == sent \o Announced
           closed == begun \o CloseAll
<1>7. sent' = closed \o end /\ begun \in Seq(Written) /\ closed \in Seq(Written)
  <2>1. Announced \o CloseAll \in Seq(Written)
    BY <1>5, AnnouncedSilent, ConcatProperties
  <2>2. begun \in Seq(Written) /\ closed \in Seq(Written)
    BY <1>2, <1>5, AnnouncedSilent, ConcatProperties
  <2>3. sent \in Seq(Written)
    BY <1>2
  <2>4. end \in Seq(Written)
    BY <1>4
  <2>5. sent' = (sent \o (Announced \o CloseAll)) \o end
    BY <1>6, <2>1, <2>3, <2>4, Associative, Zenon
  <2>6. sent \o (Announced \o CloseAll) = closed
    BY <1>2, <1>5, AnnouncedSilent, Associative
  <2>7. QED
    BY <2>2, <2>5, <2>6
<1>8. DeliveryInv' /\ StopInv'
  BY <1>3 DEF DeliveryInv, StopInv
<1>9. ASSUME NEW i \in Blocks PROVE BlockInv(i)'
  <2>1. ShapeInv(i) /\ OpenInv(i) /\ CountInv(i)
    BY <1>1 DEF BlocksInv, BlockInv
  <2>2. \A x : Pending(x, i)' => x = "nothing"
    BY <1>3 DEF Pending
  <2>3. ~ Pending("open", i) /\ ~ Pending("close", i) /\ ~ Pending("delta", i)
    BY <1>1 DEF Pending
  <2>4. (Reached(i)' <=> Reached(i)) /\ Delivered(i)' = Delivered(i) /\ (InputDue(i)' <=> InputDue(i))
    BY <1>3, <2>2, <2>3 DEF Reached, Delivered, InputDue
  <2>5. /\ \A type \in BlockEvents : Pos(begun, type, i) = Pos(sent, type, i)
        /\ Running(sent, i) => Running(begun, i)
        /\ Stopped(sent, i) => Stopped(begun, i)
        /\ Fresh(sent, i) => Fresh(begun, i)
    BY <1>2, AnnouncedSilent, SilentConcat
  <2> HIDE DEF begun
  <2>6. /\ \A type \in {"delta", "input"} : Pos(closed, type, i) = Pos(begun, type, i)
        /\ i \in openBlocks => Stopped(closed, i)
        /\ i \notin openBlocks => IF Reached(i) THEN Stopped(closed, i) ELSE Fresh(closed, i)
    <3>1. CASE i \in openBlocks
      <4>1. Running(begun, i)
        BY <2>1, <2>5, <3>1 DEF ShapeInv
      <4>2. /\ \E p \in DOMAIN CloseAll : Pos(CloseAll, "stop", i) = {p}
            /\ \A type \in {"start", "delta", "input"} : Pos(CloseAll, type, i) = {}
        BY <1>2, <3>1, CloseAllStops
      <4>3. /\ Stopped(begun \o CloseAll, i)
            /\ \A type \in {"delta", "input"} : Pos(begun \o CloseAll, type, i) = Pos(begun, type, i)
        BY <1>5, <1>7, <4>1, <4>2, StopStops, Zenon
      <4>4. QED
        BY <3>1, <4>3
    <3>2. CASE i \notin openBlocks
      <4>1. Silent(CloseAll, i)
        BY <1>2, <3>2, CloseAllStops
      <4>2. IF Reached(i) THEN Stopped(begun, i) ELSE Fresh(begun, i)
        BY <2>1, <2>5, <3>2 DEF ShapeInv
      <4>3. QED
        BY <1>5, <1>7, <3>2, <4>1, <4>2, SilentConcat DEF BlockEvents
    <3>3. QED
      BY <3>1, <3>2
  <2> HIDE DEF closed
  <2>7. /\ \A type \in BlockEvents : Pos(sent', type, i) = Pos(closed, type, i)
        /\ Stopped(closed, i) => Stopped(sent', i)
        /\ Fresh(closed, i) => Fresh(sent', i)
    BY <1>4, <1>7, SilentConcat
  <2>8. IF Reached(i) THEN Stopped(sent', i) ELSE Fresh(sent', i)
    BY <2>1, <2>6, <2>7 DEF ShapeInv
  <2>9. ShapeInv(i)' /\ OpenInv(i)'
    BY <1>3, <2>2, <2>4, <2>8 DEF ShapeInv, OpenInv
  <2>10. Pos(sent', "delta", i) = Pos(sent, "delta", i) /\ Pos(sent', "input", i) = Pos(sent, "input", i)
    BY <2>5, <2>6, <2>7 DEF BlockEvents
  <2>11. CountInv(i)'
    BY <1>3, <2>1, <2>4, <2>10 DEF CountInv
  <2>12. QED
    BY <2>9, <2>11 DEF BlockInv
<1>10. QED
  BY <1>8, <1>9 DEF BlocksInv

LEMMA BlocksInvariant == Spec => [](ReplyInv /\ BlocksInv)
<1>1. Init => ReplyInv /\ BlocksInv
  BY InitReply, InitBlocks
<1>2. ReplyInv /\ ReplyInv' /\ BlocksInv /\ [Next]_vars => BlocksInv'
  <2>1. ASSUME ReplyInv, ReplyInv', BlocksInv, Next PROVE BlocksInv'
    BY <2>1, AnsweringBlocks, MovingBlocks, UpstreamStepBlocks, StartErrorBlocks, BlockStartBlocks,
       DeltaBlocks, BlockEndBlocks, DoneBlocks DEF Next, Request, FirstEvent, Collect, Stream
  <2>2. ASSUME BlocksInv, UNCHANGED vars PROVE BlocksInv'
    <3>1. UNCHANGED <<streaming, event, upstream, openBlocks, toolDeltaSeen, sent, source>>
      BY <2>2 DEF vars, handler, translation, reply
    <3>2. DeliveryInv' = DeliveryInv /\ StopInv' = StopInv
      BY <3>1 DEF DeliveryInv, StopInv, At
    <3>3. ASSUME NEW i \in Blocks PROVE BlockInv(i)' = BlockInv(i)
      BY <3>1 DEF BlockInv, ShapeInv, OpenInv, CountInv, Reached, Pending, Delivered, InputDue
    <3>4. QED
      BY <2>2, <3>1, <3>2, <3>3 DEF BlocksInv
  <2>3. QED
    BY <2>1, <2>2
<1>3. QED
  BY <1>1, <1>2, ReplyInvariant, PTL DEF Spec

\* Outside a stream nothing about a block is written.
LEMMA NoBlocks ==
  ASSUME ReplyInv, ~ streaming, NEW i \in Blocks, NEW type \in BlockEvents
  PROVE  AtBlock(type, i) = {} /\ At("message_stop") = {}
<1>1. sent = <<>> \/ (Len(sent) = 1 /\ sent[1].type \in {"json", "failure"})
  BY DEF ReplyInv, BeforeReply, WhileStreaming, AfterReply, TypeOK, RequestTypes
<1>2. DOMAIN sent = 1..Len(sent) /\ sent \in Seq(Written)
  BY LenProperties DEF ReplyInv, TypeOK, ReplyTypes
<1>3. \A k \in DOMAIN sent : sent[k].type \in {"json", "failure"}
  BY <1>1, <1>2
<1>4. QED
  BY <1>3 DEF At, AtBlock, BlockEvents

LEMMA BlocksAlways ==
  ASSUME ReplyInv, BlocksInv
  PROVE  BlocksWhole
<1>1. sent \in Seq(Written)
  BY DEF ReplyInv, TypeOK, ReplyTypes
<1> DEFINE Counted(i) ==
             /\ upstream[i].kind = "tool" /\ streaming /\ phase \in {"stream", "over"}
             /\ event.type \notin {"delta", "close"}
             => /\ Cardinality(AtBlock("delta", i)) = upstream[i].deltas
                /\ Cardinality(AtBlock("input", i)) =
                     IF upstream[i].ended /\ upstream[i].deltas = 0 THEN 1 ELSE 0
           Ordered(i) ==
             /\ Cardinality(AtBlock("start", i)) <= 1 /\ Cardinality(AtBlock("stop", i)) <= 1
             /\ \A k \in AtBlock("delta", i) \cup AtBlock("input", i) :
                  \E s \in AtBlock("start", i) : s < k
             /\ \A e \in AtBlock("stop", i) :
                  /\ \E s \in AtBlock("start", i) : s < e
                  /\ \A k \in AtBlock("delta", i) \cup AtBlock("input", i) : k < e
             /\ At("message_stop") # {} =>
                  Cardinality(AtBlock("start", i)) = Cardinality(AtBlock("stop", i))
<1>2. SUFFICES ASSUME NEW i \in Blocks PROVE Ordered(i) /\ Counted(i)
  BY DEF BlocksWhole
<1>3. CASE ~ streaming
  <2>1. /\ AtBlock("start", i) = {} /\ AtBlock("delta", i) = {} /\ AtBlock("input", i) = {}
        /\ AtBlock("stop", i) = {}
    BY <1>3, NoBlocks DEF BlockEvents
  <2>2. QED
    BY <1>3, <2>1, FS_EmptySet
<1>4. CASE streaming
  <2>1. ShapeInv(i) /\ CountInv(i) /\ StopInv
    BY <1>4 DEF BlocksInv, BlockInv
  <2>2. \A type : AtBlock(type, i) = Pos(sent, type, i)
    BY DEF AtBlock, At, Pos
  <2>3. Ordered(i)
    <3>1. CASE Fresh(sent, i)
      <4>1. \A type \in BlockEvents : AtBlock(type, i) = {}
        BY <2>2, <3>1 DEF Fresh
      <4>2. QED
        BY <4>1, FS_EmptySet DEF BlockEvents
    <3>2. CASE Running(sent, i) /\ i \in openBlocks
      <4>1. PICK a : /\ AtBlock("start", i) = {a} /\ AtBlock("stop", i) = {}
                     /\ \A k \in AtBlock("delta", i) \cup AtBlock("input", i) : a < k
        BY <2>2, <3>2 DEF Running, Inner
      <4>2. At("message_stop") = {}
        BY <2>1, <3>2 DEF StopInv
      <4>3. QED
        <5>1. Cardinality(AtBlock("start", i)) = 1 /\ Cardinality(AtBlock("stop", i)) = 0
          BY <4>1, FS_EmptySet, FS_Singleton
        <5>2. QED
          BY <4>1, <4>2, <5>1
    <3>3. CASE Stopped(sent, i)
      <4>1. PICK a, e : /\ AtBlock("start", i) = {a} /\ AtBlock("stop", i) = {e} /\ a < e
                        /\ \A k \in AtBlock("delta", i) \cup AtBlock("input", i) : a < k /\ k < e
        BY <2>2, <3>3 DEF Stopped, Inner
      <4>2. QED
        <5>1. Cardinality(AtBlock("start", i)) = 1 /\ Cardinality(AtBlock("stop", i)) = 1
          BY <4>1, FS_Singleton
        <5>2. QED
          BY <4>1, <5>1
    <3>4. QED
      BY <2>1, <3>1, <3>2, <3>3 DEF ShapeInv
  <2>4. Counted(i)
    BY <2>1, <2>2 DEF CountInv, Delivered, InputDue, Pending
  <2>5. QED
    BY <2>3, <2>4
<1>5. QED
  BY <1>3, <1>4

\* Theorem: for messages of any number of blocks and deltas, every content
\* block of a stream is started once, before its deltas, and stopped after
\* them, all of them by the end of the message, and the input of a tool call
\* is written exactly once.
THEOREM BlocksWholeHolds == Spec => []BlocksWhole
<1>1. ReplyInv /\ BlocksInv => BlocksWhole
  BY BlocksAlways
<1>2. QED
  BY <1>1, BlocksInvariant, PTL
=============================================================================
