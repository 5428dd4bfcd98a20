---------------------------- MODULE MessageStream ----------------------------
(***************************************************************************)
(* One POST /v1/messages of the proxy (proxy/bin/cc-openai-proxy.js), from *)
(* the body to the last byte of the reply: route, handleMessages, and the  *)
(* translation of the upstream's events into a Messages stream             *)
(* (streamAnthropicResponse) or into one message (collectMessage).         *)
(*                                                                         *)
(* `event` is what iterator.next() has delivered and the loop has not yet  *)
(* handled; between the two the client may leave.  The upstream (pi-ai) is *)
(* external.  It opens each block once, sends deltas and the end for open  *)
(* blocks only, and nothing after a result or an error, but it may finish  *)
(* a message without ending its blocks, throw, or end without a result.    *)
(* The abort signal may or may not stop it.                                *)
(* The account pool is AccountPool's subject: here it has or has not       *)
(* another account.  A block's index is counted from 1; index 0 stands for *)
(* the message.  What is written to a closed connection is still `sent`.   *)
(*                                                                         *)
(* SelectAgain, BlockStartsUnannounced, CloseNone and OnErrorSilent are    *)
(* faulty variants.                                                        *)
(***************************************************************************)
EXTENDS Integers, Sequences, FiniteSets

CONSTANTS
  MaxBlocks,    \* bound: content blocks of a message
  MaxDeltas,    \* bound: deltas of a block
  MaxAttempts   \* the pool's accounts

ASSUME BoundsAssumption == {MaxBlocks, MaxDeltas, MaxAttempts} \subseteq Nat

VARIABLES
  phase,           \* where the handler is suspended
  streaming,       \* the request asks for a stream
  attempts,        \* accounts tried
  client,          \* "here", "gone"
  aborted,         \* controller.signal.aborted
  event,           \* delivered, not yet handled
  upstream,        \* external: the blocks of the current upstream message
  messageStarted, openBlocks, toolDeltaSeen,
  head,            \* the status written, NoHead before
  sent,            \* what has been written after the head
  wasted,          \* history: attempts begun after the abort
  source           \* external: "going", "settled" (a result or an error
                   \* is out) or "cut" (it ended without either)

handler == <<phase, streaming, attempts>>
translation == <<messageStarted, openBlocks, toolDeltaSeen>>
reply == <<head, sent>>
vars == <<handler, client, aborted, event, upstream, translation, reply, wasted, source>>

NoHead == 0
Nothing == [type |-> "nothing"]
Blocks == 1..MaxBlocks
UpstreamBlock(kind, deltas, ended) == [kind |-> kind, deltas |-> deltas, ended |-> ended]
Unopened == [i \in Blocks |-> UpstreamBlock("none", 0, FALSE)]

Init ==
  /\ phase = "body" /\ streaming \in BOOLEAN /\ attempts = 0
  /\ client = "here" /\ aborted = FALSE
  /\ event = Nothing /\ upstream = Unopened
  /\ messageStarted = FALSE /\ openBlocks = {} /\ toolDeltaSeen = {}
  /\ head = NoHead /\ sent = <<>>
  /\ wasted = 0 /\ source = "going"

Goto(place) == phase' = place

-----------------------------------------------------------------------------
(* Replies. *)

Send(events) == sent' = sent \o events
Message(type) == [type |-> type, index |-> 0]
Block(type, i) == [type |-> type, index |-> i]

\* sendJson and sendError.
Answer(status) ==
  /\ head' = status
  /\ Send(<<Message(IF status = 200 THEN "json" ELSE "failure")>>)
  /\ Goto("over")
  /\ event' = Nothing
  /\ UNCHANGED <<streaming, attempts, client, aborted, upstream, translation, wasted, source>>

\* route's catch: a status while there is no head, else one more event.
Throw(status) ==
  \/ head = NoHead /\ Answer(status)
  \/ /\ head # NoHead
     /\ Send(<<Message("error")>>)
     /\ Goto("over")
     /\ event' = Nothing
     /\ UNCHANGED <<streaming, attempts, client, aborted, upstream, translation, head, wasted, source>>

-----------------------------------------------------------------------------
(* The request. *)

\* The connection closes.  handleMessages listens once it has the body;
\* before, reading the body fails.
ClientLeaves ==
  /\ client = "here" /\ phase \notin {"body", "over"}
  /\ client' = "gone" /\ aborted' = TRUE
  /\ UNCHANGED <<handler, event, upstream, translation, reply, wasted, source>>

\* An unreadable body, bad JSON, too long, an unknown model or no bearer.
Refuse ==
  /\ phase = "body"
  /\ \E status \in {400, 401, 413, 500} : Answer(status)

ReadBody ==
  /\ phase = "body"
  /\ Goto("select")
  /\ UNCHANGED <<streaming, attempts, client, aborted, event, upstream, translation, reply, wasted, source>>

SelectAgain ==
  /\ phase = "select" /\ attempts < MaxAttempts
  /\ wasted' = IF aborted THEN wasted + 1 ELSE wasted
  /\ upstream' = Unopened /\ source' = "going"
  /\ Goto("first")
  /\ UNCHANGED <<streaming, attempts, client, aborted, event, translation, reply>>

\* pool.select: an account not tried yet, and the upstream call on it.
Select ==
  /\ phase = "select" /\ attempts < MaxAttempts
  /\ attempts' = attempts + 1
  /\ wasted' = IF aborted THEN wasted + 1 ELSE wasted
  /\ upstream' = Unopened /\ source' = "going"
  /\ Goto("first")
  /\ UNCHANGED <<streaming, client, aborted, event, translation, reply>>

\* usageLimitError (or missing credentials).
NoAccount ==
  /\ phase = "select"
  /\ \E status \in {401, 429} : Answer(status)

-----------------------------------------------------------------------------
(* External: the upstream's next event. *)

Awaiting == phase \in {"first", "stream", "collect"} /\ event = Nothing /\ source # "cut"
Deliver(e) ==
  /\ event' = e
  /\ UNCHANGED <<handler, client, aborted, translation, reply, wasted>>
MayStream == Awaiting /\ source = "going"

UpstreamStarts ==
  /\ MayStream /\ phase = "first"
  /\ Deliver([type |-> "start"])
  /\ UNCHANGED <<upstream, source>>

UpstreamOpens ==
  /\ MayStream
  /\ \E i \in Blocks, kind \in {"text", "thinking", "tool"} :
       /\ upstream[i].kind = "none"
       /\ \A j \in 1..(i - 1) : upstream[j].kind # "none"
       /\ upstream' = [upstream EXCEPT ![i] = UpstreamBlock(kind, 0, FALSE)]
       /\ Deliver([type |-> "open", index |-> i, kind |-> kind])
  /\ UNCHANGED source

Open(i) == upstream[i].kind # "none" /\ ~ upstream[i].ended

UpstreamContinues ==
  /\ MayStream
  /\ \E i \in Blocks :
       /\ Open(i) /\ upstream[i].deltas < MaxDeltas
       /\ upstream' = [upstream EXCEPT
            ![i] = UpstreamBlock(upstream[i].kind, upstream[i].deltas + 1, FALSE)]
       /\ Deliver([type |-> "delta", index |-> i, kind |-> upstream[i].kind])
  /\ UNCHANGED source

UpstreamCloses ==
  /\ MayStream
  /\ \E i \in Blocks, signed \in BOOLEAN :
       /\ Open(i)
       /\ upstream' = [upstream EXCEPT
            ![i] = UpstreamBlock(upstream[i].kind, upstream[i].deltas, TRUE)]
       /\ Deliver([type |-> "close", index |-> i, kind |-> upstream[i].kind,
                   signed |-> signed /\ upstream[i].kind = "thinking"])
  /\ UNCHANGED source

UpstreamFinishes ==
  /\ MayStream
  /\ Deliver([type |-> "done"])
  /\ source' = "settled"
  /\ UNCHANGED upstream

UpstreamFails ==
  /\ Awaiting /\ source = "going"
  /\ \E reason \in {"aborted", "limit", "other"} : Deliver([type |-> "error", reason |-> reason])
  /\ source' = "settled"
  /\ UNCHANGED upstream

UpstreamThrows ==
  /\ Awaiting /\ source = "going"
  /\ Deliver([type |-> "throw"])
  /\ UNCHANGED <<upstream, source>>

UpstreamEnds ==
  /\ Awaiting
  /\ Deliver([type |-> "end"])
  /\ source' = IF source = "going" THEN "cut" ELSE source
  /\ UNCHANGED upstream

-----------------------------------------------------------------------------
(* handleMessages: the first event decides. *)

First(type) == phase = "first" /\ event.type = type

FirstThrows == First("throw") /\ Throw(500)
FirstEnds == First("end") /\ Throw(502)

\* An error no other account can help with.
FirstFails ==
  /\ First("error")
  /\ IF aborted \/ event.reason = "aborted" THEN Throw(499)
     ELSE event.reason # "limit" /\ Throw(502)

\* A usage limit or a transient limit moves the request on.
FirstLimited ==
  /\ First("error") /\ event.reason = "limit" /\ ~ aborted
  /\ event' = Nothing
  /\ Goto("select")
  /\ UNCHANGED <<streaming, attempts, client, aborted, upstream, translation, reply, wasted, source>>

\* Anything else commits the reply to this account.
FirstServes ==
  /\ phase = "first" /\ event.type \in {"start", "open", "delta", "close", "done"}
  /\ head' = IF streaming THEN 200 ELSE NoHead
  /\ Goto(IF streaming THEN "stream" ELSE "collect")
  /\ UNCHANGED <<streaming, attempts, client, aborted, event, upstream, translation, sent, wasted, source>>

-----------------------------------------------------------------------------
(* collectMessage. *)

Collected(types) == phase = "collect" /\ event.type \in types

CollectMore ==
  /\ Collected({"start", "open", "delta", "close"})
  /\ event' = Nothing
  /\ UNCHANGED <<handler, client, aborted, upstream, translation, reply, wasted, source>>

CollectDone == Collected({"done"}) /\ Answer(200)
CollectFails ==
  /\ Collected({"error"})
  /\ Throw(IF event.reason = "aborted" THEN 499 ELSE 502)
CollectThrows == Collected({"throw"}) /\ Throw(500)
CollectEnds == Collected({"end"}) /\ Throw(502)

-----------------------------------------------------------------------------
(* streamAnthropicResponse. *)

Streamed(type) == phase = "stream" /\ event.type = type
Handled ==
  /\ event' = Nothing
  /\ UNCHANGED <<handler, client, aborted, upstream, head, wasted, source>>

\* ensureMessageStart.
Announced == IF messageStarted THEN <<>> ELSE <<Message("message_start")>>

OnStart ==
  /\ Streamed("start")
  /\ Send(Announced) /\ messageStarted' = TRUE
  /\ Handled /\ UNCHANGED <<openBlocks, toolDeltaSeen>>

BlockStartsUnannounced ==
  /\ Streamed("open")
  /\ Send(<<Block("start", event.index)>>)
  /\ openBlocks' = openBlocks \cup {event.index}
  /\ Handled /\ UNCHANGED <<messageStarted, toolDeltaSeen>>

OnBlockStart ==
  /\ Streamed("open")
  /\ Send(Announced \o <<Block("start", event.index)>>) /\ messageStarted' = TRUE
  /\ openBlocks' = openBlocks \cup {event.index}
  /\ Handled /\ UNCHANGED toolDeltaSeen

OnDelta ==
  /\ Streamed("delta")
  /\ Send(Announced \o <<Block("delta", event.index)>>) /\ messageStarted' = TRUE
  /\ toolDeltaSeen' = IF event.kind = "tool" THEN toolDeltaSeen \cup {event.index} ELSE toolDeltaSeen
  /\ Handled /\ UNCHANGED openBlocks

\* closeBlock.
CloseBlock(i) == IF i \in openBlocks THEN <<Block("stop", i)>> ELSE <<>>

\* The whole input of a tool call that came without deltas.
ToolInput ==
  IF event.index \in toolDeltaSeen THEN <<>> ELSE <<Block("input", event.index)>>

\* The last words of a block: a thinking block's signature, a tool's input.
Closing ==
  IF event.kind = "tool" THEN ToolInput
  ELSE IF event.signed THEN <<Block("delta", event.index)>> ELSE <<>>

OnBlockEnd ==
  /\ Streamed("close")
  /\ Send(Closing \o CloseBlock(event.index))
  /\ openBlocks' = openBlocks \ {event.index}
  /\ Handled /\ UNCHANGED <<messageStarted, toolDeltaSeen>>

CloseNone == <<>>
\* The blocks still open.  (The code sorts them; nothing hangs on it.)
CloseAll ==
  LET n == Cardinality(openBlocks)
      order == CHOOSE f \in [1..n -> openBlocks] : \A j, k \in 1..n : f[j] = f[k] => j = k
  IN  [k \in 1..n |-> Block("stop", order[k])]

OnDone ==
  /\ Streamed("done")
  /\ Send(Announced \o CloseAll \o <<Message("message_delta"), Message("message_stop")>>)
  /\ messageStarted' = TRUE /\ openBlocks' = {}
  /\ Handled /\ UNCHANGED toolDeltaSeen

OnErrorSilent ==
  /\ Streamed("error")
  /\ Handled /\ UNCHANGED <<translation, sent>>

\* "request_aborted" or "api_error": the status is only logged.
OnError ==
  /\ Streamed("error")
  /\ Send(<<Message("error")>>)
  /\ Handled /\ UNCHANGED translation

OnThrow == Streamed("throw") /\ Throw(500)

\* res.end(), whatever came last.
OnEnd ==
  /\ Streamed("end")
  /\ Goto("over") /\ event' = Nothing
  /\ UNCHANGED <<streaming, attempts, client, aborted, upstream, translation, reply, wasted, source>>

-----------------------------------------------------------------------------
Request == Refuse \/ ReadBody \/ Select \/ NoAccount
Upstream ==
  \/ UpstreamStarts \/ UpstreamOpens \/ UpstreamContinues \/ UpstreamCloses
  \/ UpstreamFinishes \/ UpstreamFails \/ UpstreamThrows \/ UpstreamEnds
FirstEvent == FirstThrows \/ FirstEnds \/ FirstFails \/ FirstLimited \/ FirstServes
Collect == CollectMore \/ CollectDone \/ CollectFails \/ CollectThrows \/ CollectEnds
Stream ==
  OnStart \/ OnBlockStart \/ OnDelta \/ OnBlockEnd \/ OnDone \/ OnError \/ OnThrow \/ OnEnd

Next == Request \/ ClientLeaves \/ Upstream \/ FirstEvent \/ Collect \/ Stream
Spec == Init /\ [][Next]_vars

\* The event loop runs what is ready, and the upstream, which has timeouts of
\* its own, answers or fails.  Nothing makes the client leave.
FairSpec == Spec /\ WF_vars(Request \/ Upstream \/ FirstEvent \/ Collect \/ Stream)

-----------------------------------------------------------------------------
(* Properties. *)

Events ==
  {Nothing} \cup [type : {"start", "done", "throw", "end"}]
  \cup [type : {"error"}, reason : {"aborted", "limit", "other"}]
  \cup [type : {"open", "delta"}, index : Blocks, kind : {"text", "thinking", "tool"}]
  \cup [type : {"close"}, index : Blocks, kind : {"text", "thinking", "tool"}, signed : BOOLEAN]

Ending == {"message_stop", "error", "json", "failure"}
Written ==
  [type : {"message_start", "message_delta"} \cup Ending, index : {0}]
  \cup [type : {"start", "delta", "input", "stop"}, index : Blocks]

UpstreamBlocks ==
  [kind : {"none", "text", "thinking", "tool"}, deltas : 0..MaxDeltas, ended : BOOLEAN]

RequestTypes ==
  /\ phase \in {"body", "select", "first", "stream", "collect", "over"}
  /\ streaming \in BOOLEAN /\ aborted \in BOOLEAN
  /\ client \in {"here", "gone"}
  /\ attempts \in 0..MaxAttempts /\ wasted \in Nat
UpstreamTypes ==
  /\ event \in Events
  /\ upstream \in [Blocks -> UpstreamBlocks]
  /\ source \in {"going", "settled", "cut"}
Heads == {NoHead, 200, 400, 401, 413, 429, 499, 500, 502}
ReplyTypes ==
  /\ messageStarted \in BOOLEAN
  /\ openBlocks \subseteq Blocks /\ toolDeltaSeen \subseteq Blocks
  /\ head \in Heads
  /\ sent \in Seq(Written)

\* Type invariant of the request, of the upstream and of the reply.
TypeOK == RequestTypes /\ UpstreamTypes /\ ReplyTypes

At(type) == {k \in DOMAIN sent : sent[k].type = type}
AtBlock(type, i) == {k \in At(type) : sent[k].index = i}

\* What streamAnthropicResponse and route's catch write between them is one
\* Messages stream: message_start once and before everything else,
\* message_delta right before message_stop, nothing after the end of the
\* reply, and a status line is never followed by a second answer.
Framed ==
  /\ \A k \in DOMAIN sent : sent[k].type \in Ending => k = Len(sent)
  /\ head = 200 /\ streaming =>
       /\ \A k \in DOMAIN sent : sent[k].type = "message_start" <=> k = 1
       /\ \A k \in At("message_stop") : k > 1 /\ sent[k - 1].type = "message_delta"
       /\ \A k \in At("message_delta") : k < Len(sent) /\ sent[k + 1].type = "message_stop"
  /\ ~ (head = 200 /\ streaming) => Len(sent) <= 1

\* A client can rebuild each content block: it is started once, before its
\* deltas, stopped at most once, after them, and when the message stops every
\* started block has been stopped, whether the upstream ended it or not.  The
\* input of a tool call comes once: the upstream's deltas, or the whole input at
\* the end when there were none.
BlocksWhole ==
  \A i \in Blocks :
    LET starts == AtBlock("start", i)
        deltas == AtBlock("delta", i)
        inputs == AtBlock("input", i)
        stops == AtBlock("stop", i)
    IN  /\ Cardinality(starts) <= 1 /\ Cardinality(stops) <= 1
        /\ \A k \in deltas \cup inputs : \E s \in starts : s < k
        /\ \A e \in stops : (\E s \in starts : s < e) /\ \A k \in deltas \cup inputs : k < e
        /\ At("message_stop") # {} => Cardinality(starts) = Cardinality(stops)
        /\ /\ upstream[i].kind = "tool" /\ streaming /\ phase \in {"stream", "over"}
           /\ event.type \notin {"delta", "close"}
           => /\ Cardinality(deltas) = upstream[i].deltas
              /\ Cardinality(inputs) =
                   IF upstream[i].ended /\ upstream[i].deltas = 0 THEN 1 ELSE 0

\* A client that is still there when the request is over has been told how it
\* ended, once: message_stop, an error event, a message or an error status.
\* The exception is a stream whose upstream ended without a result: the code
\* ends that reply as if nothing were missing.
Told ==
  phase = "over" /\ client = "here" =>
    Cardinality({k \in DOMAIN sent : sent[k].type \in Ending})
      = IF streaming /\ head = 200 /\ source = "cut" THEN 0 ELSE 1

\* A request whose client has left reaches at most one more account: a limit
\* met after the abort does not move it on.
AbandonedSoon == wasted <= 1

\* Every request is over at some time, however often it is moved on.
Ends == <>(phase = "over")
=============================================================================
