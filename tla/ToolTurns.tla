------------------------------ MODULE ToolTurns ------------------------------
(***************************************************************************)
(* anthropicToContext (proxy/bin/cc-openai-proxy.js): the messages of a    *)
(* request, as Claude Code's transcript has them, become the context of    *)
(* the upstream call.  A first pass converts message by message, a second  *)
(* (pairToolResults) puts tool results behind the turn that made the call  *)
(* and turns the others into text.                                         *)
(*                                                                         *)
(* A transcript is arbitrary: Claude Code interrupts turns, repeats and    *)
(* drops results, and stores ids of several vintages (ToolIds!Stored).  It *)
(* is drawn block by block as the first pass reads it.  A converted        *)
(* message carries in `at` the places its content has in the transcript;   *)
(* the texts themselves do not matter, and thinking counts as text.        *)
(* Blocks the conversion drops (null) and timestamps are left out.         *)
(* FlushDroppingTexts and PairResultAgain are faulty variants.             *)
(***************************************************************************)
EXTENDS ToolIds, Sequences, FiniteSets

CONSTANTS
  Names,              \* names of tools; DefaultName is "tool"
  DefaultName,
  AssistantContents,  \* contents of assistant messages
  UserResults,        \* the ids user messages have results for
  MaxItems            \* bound, for TLC: length of the transcript

\* An id as the provider knows it (x) and as the transcript has it (wire).
StoredIds == {s \in [x : Ids, wire : Ids] : s.wire \in Stored(s.x)}
AssistantBlocks ==
  [type : {"text"}] \cup [type : {"tool_use"}, id : StoredIds, name : Names]

ASSUME InputsAssumption ==
  /\ AssistantContents \subseteq Seq(AssistantBlocks)
  /\ UserResults \subseteq StoredIds
  /\ MaxItems \in Nat

VARIABLES
  transcript,    \* history: what has been read
  phase,         \* "read", "pair", "done"
  toolNames,
  batch,         \* places of the text blocks not yet pushed
  messages,      \* the first pass' result
  cursor,        \* the second pass' position in it
  paired, pendingIds, results, userMessages

firstPass == <<transcript, toolNames, batch, messages>>
secondPass == <<cursor, paired, pendingIds, results, userMessages>>
turnsVars == <<firstPass, phase, secondPass>>

TurnsInit ==
  /\ transcript = <<>> /\ phase = "read"
  /\ toolNames = <<>> /\ batch = <<>> /\ messages = <<>>
  /\ cursor = 1 /\ paired = <<>> /\ pendingIds = {}
  /\ results = <<>> /\ userMessages = <<>>

-----------------------------------------------------------------------------
(* The first pass. *)

Calls(content) == {i \in DOMAIN content : content[i].type = "tool_use"}
CallId(block) == DecodeToolId(block.id.wire)

\* toolNames.set for each call in turn: the last one of an id stays.
Named(content) ==
  LET ids == {CallId(content[i]) : i \in Calls(content)}
      Last(id) == CHOOSE i \in Calls(content) :
                    /\ CallId(content[i]) = id
                    /\ \A j \in Calls(content) : CallId(content[j]) = id => j <= i
  IN  [id \in ids \cup DOMAIN toolNames |->
         IF id \in ids THEN content[Last(id)].name ELSE toolNames[id]]

Here == Len(transcript) + 1
Reading == phase = "read" /\ Len(transcript) < MaxItems

User(places) == [role |-> "user", at |-> places]
Flushed == IF batch = <<>> THEN messages ELSE Append(messages, User(batch))

\* anthropicAssistantToPi; a message without content is not sent.
ReadAssistant ==
  /\ Reading /\ batch = <<>>
  /\ \E content \in AssistantContents :
       /\ transcript' = Append(transcript, [kind |-> "assistant", content |-> content])
       /\ toolNames' = Named(content)
       /\ messages' =
            IF content = <<>> THEN messages
            ELSE Append(messages,
                   [role |-> "assistant", at |-> <<Here>>,
                    calls |-> {[id |-> CallId(content[i]), name |-> content[i].name] :
                                 i \in Calls(content)}])
  /\ UNCHANGED <<batch, phase, secondPass>>

UserText ==
  /\ Reading
  /\ transcript' = Append(transcript, [kind |-> "text"])
  /\ batch' = Append(batch, Here)
  /\ UNCHANGED <<toolNames, messages, phase, secondPass>>

ResultMessage(id) ==
  [role |-> "toolResult", at |-> <<Here>>, id |-> id,
   name |-> IF id \in DOMAIN toolNames THEN toolNames[id] ELSE DefaultName]

UserResult ==
  /\ Reading
  /\ \E s \in UserResults :
       /\ transcript' = Append(transcript, [kind |-> "result", id |-> s.x])
       /\ messages' = Append(Flushed, ResultMessage(DecodeToolId(s.wire)))
  /\ batch' = <<>>
  /\ UNCHANGED <<toolNames, phase, secondPass>>

\* The end of a user message that ends in text.
EndUser ==
  /\ phase = "read" /\ batch # <<>>
  /\ messages' = Flushed /\ batch' = <<>>
  /\ UNCHANGED <<transcript, toolNames, phase, secondPass>>

EndOfInput ==
  /\ phase = "read" /\ batch = <<>>
  /\ phase' = "pair"
  /\ UNCHANGED <<firstPass, secondPass>>

-----------------------------------------------------------------------------
(* The second pass, pairToolResults. *)

FlushDroppingTexts == paired \o results
Flush == paired \o results \o userMessages

Take(role) ==
  /\ phase = "pair" /\ cursor \in DOMAIN messages
  /\ messages[cursor].role = role
  /\ cursor' = cursor + 1
  /\ UNCHANGED <<firstPass, phase>>

PairAssistant ==
  /\ Take("assistant")
  /\ paired' = Append(Flush, messages[cursor])
  /\ pendingIds' = {c.id : c \in messages[cursor].calls}
  /\ results' = <<>> /\ userMessages' = <<>>

PairResultAgain ==
  /\ Take("toolResult") /\ messages[cursor].id \in pendingIds
  /\ results' = Append(results, messages[cursor])
  /\ UNCHANGED <<paired, pendingIds, userMessages>>

PairResult ==
  /\ Take("toolResult") /\ messages[cursor].id \in pendingIds
  /\ pendingIds' = pendingIds \ {messages[cursor].id}
  /\ results' = Append(results, messages[cursor])
  /\ UNCHANGED <<paired, userMessages>>

\* "[Unmatched tool result: ...]", then its content.
SetAside ==
  /\ Take("toolResult") /\ messages[cursor].id \notin pendingIds
  /\ userMessages' = Append(userMessages, User(messages[cursor].at))
  /\ UNCHANGED <<paired, pendingIds, results>>

PairUser ==
  /\ Take("user")
  /\ userMessages' = Append(userMessages, messages[cursor])
  /\ UNCHANGED <<paired, pendingIds, results>>

Finish ==
  /\ phase = "pair" /\ cursor = Len(messages) + 1
  /\ phase' = "done"
  /\ paired' = Flush /\ results' = <<>> /\ userMessages' = <<>>
  /\ UNCHANGED <<firstPass, cursor, pendingIds>>

TurnsNext ==
  \/ ReadAssistant \/ UserText \/ UserResult \/ EndUser \/ EndOfInput
  \/ PairAssistant \/ PairResult \/ SetAside \/ PairUser \/ Finish

TurnsSpec == TurnsInit /\ [][TurnsNext]_turnsVars

-----------------------------------------------------------------------------
(* Properties. *)

Messages ==
  [role : {"user"}, at : Seq(Nat)]
    \cup [role : {"toolResult"}, at : Seq(Nat), id : Ids, name : Names \cup {DefaultName}]
    \cup [role : {"assistant"}, at : Seq(Nat), calls : SUBSET [id : Ids, name : Names]]

Items ==
  [kind : {"assistant"}, content : Seq(AssistantBlocks)]
    \cup [kind : {"text"}] \cup [kind : {"result"}, id : Ids]

\* Type invariant.  No text is left in the batch when the first pass ends,
\* and the second pass stays within its input.
TypeOK ==
  /\ transcript \in Seq(Items)
  /\ phase \in {"read", "pair", "done"}
  /\ phase # "read" => batch = <<>>
  /\ DOMAIN toolNames \subseteq Ids
  /\ \A id \in DOMAIN toolNames : toolNames[id] \in Names
  /\ batch \in Seq(Nat)
  /\ messages \in Seq(Messages)
  /\ cursor \in 1..(Len(messages) + 1)
  /\ paired \in Seq(Messages)
  /\ pendingIds \subseteq Ids
  /\ results \in Seq(Messages) /\ userMessages \in Seq(Messages)

\* Message p of s is a result that nothing but other results separates from
\* the turn that made the call, whose tool it names and which it is the
\* first to answer.
FollowsCall(s, p) ==
  \E t \in 1..(p - 1) :
    /\ s[t].role = "assistant"
    /\ [id |-> s[p].id, name |-> s[p].name] \in s[t].calls
    /\ \A q \in (t + 1)..(p - 1) : s[q].role = "toolResult" /\ s[q].id # s[p].id

\* Every tool result in the context follows its call at once and answers it
\* alone, under the tool's name, whatever the transcript looks like: the
\* provider refuses a request in which one does not (pairToolResults).
ResultsFollowCalls ==
  \A p \in DOMAIN paired : paired[p].role = "toolResult" => FollowsCall(paired, p)

\* The turn a transcript item belongs to: the last assistant message with
\* content before it.
TurnOf(s) ==
  {t \in 1..(s - 1) :
     /\ transcript[t].kind = "assistant" /\ transcript[t].content # <<>>
     /\ \A u \in (t + 1)..(s - 1) :
          transcript[u].kind = "assistant" => transcript[u].content = <<>>}

\* Result s is the first that answers a call of its turn, in the provider's
\* own ids.
Due(s) ==
  \E t \in TurnOf(s) :
    /\ \E i \in Calls(transcript[t].content) :
         transcript[t].content[i].id.x = transcript[s].id
    /\ \A u \in (t + 1)..(s - 1) :
         transcript[u].kind = "result" => transcript[u].id # transcript[s].id

\* Exactly the due results reach the provider as results, under the ids it
\* issued itself, although the transcript mixes ids of this proxy, bare ids
\* of earlier ones and migrated ids, call and result not always alike
\* (encodeToolId, decodeToolId, encode_legacy_id).
MatchedAsIssued ==
  phase = "done" =>
    \A s \in DOMAIN transcript : transcript[s].kind = "result" =>
      (Due(s) <=> \E p \in DOMAIN paired :
                     /\ paired[p].role = "toolResult"
                     /\ paired[p].at = <<s>> /\ paired[p].id = transcript[s].id)

Occurrences(s) ==
  UNION {{<<p, i>> : i \in {j \in DOMAIN paired[p].at : paired[p].at[j] = s}} :
           p \in DOMAIN paired}

\* The provider is told everything in the transcript, once: nothing is lost
\* in a batch, between the passes or behind an unmatched id.  (Assistant
\* messages without content are left out.)  Pairing moves results ahead of the
\* turn's texts, changes the order of nothing else, and nothing crosses a turn.
EverythingOnce ==
  /\ phase = "done" =>
       \A s \in DOMAIN transcript :
         Cardinality(Occurrences(s)) =
           IF transcript[s].kind = "assistant" /\ transcript[s].content = <<>> THEN 0 ELSE 1
  /\ \A p, q \in DOMAIN paired :
       /\ p < q
       /\ \/ paired[p].role = paired[q].role
          \/ "assistant" \in {paired[p].role, paired[q].role}
       => \A i \in DOMAIN paired[p].at, j \in DOMAIN paired[q].at :
            paired[p].at[i] < paired[q].at[j]
=============================================================================
