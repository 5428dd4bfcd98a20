---------------------------- MODULE RequestProofs ----------------------------
(***************************************************************************)
(* What the proxy and the patched client make of a request.  Of ToolIds    *)
(* and ToolTurns, for any ids and any transcript: the encoding loses       *)
(* nothing, the conversion is well typed, every result it leaves in the    *)
(* context follows its call, everything in the transcript is in the        *)
(* context once, and exactly the due results are matched.  Of ModelRouting *)
(* and ModelCatalog, for any agents, names, accounts, settings and number  *)
(* of changes: where requests go, what they contain and what they say of   *)
(* themselves, and how names are read.                                     *)
(***************************************************************************)
EXTENDS ToolTurns, ModelRouting, SequenceTheorems, FiniteSetTheorems, WellFoundedInduction, TLAPS

-----------------------------------------------------------------------------
(* Ids. *)

\* decodeToolId undoes encodeToolId, whatever the provider calls a call.
THEOREM DecodeUndoesEncode ==
  ASSUME NEW x \in Ids
  PROVE  /\ EncodeToolId(x) \in Ids
         /\ DecodeToolId(EncodeToolId(x)) = x
<1>1. PICK b \in Plain \cup Composite \cup Odd \cup Marked, n \in Nat : x = <<b, n>>
  BY DEF Ids
<1>2. CASE n = 0 /\ b \in Plain
  BY <1>1, <1>2 DEF EncodeToolId, DecodeToolId, Enclose, Ids
<1>3. CASE ~ (n = 0 /\ b \in Plain)
  <2>1. EncodeToolId(x) = <<b, n + 1>>
    BY <1>1, <1>3 DEF EncodeToolId, Enclose
  <2>2. <<b, n + 1 - 1>> = x
    BY <1>1
  <2>3. QED
    BY <2>1, <2>2 DEF DecodeToolId, Ids
<1>4. QED
  BY <1>2, <1>3

\* Distinct calls of the provider have distinct ids in Claude Code.
THEOREM EncodeInjective ==
  ASSUME NEW x \in Ids, NEW y \in Ids, EncodeToolId(x) = EncodeToolId(y)
  PROVE  x = y
BY DecodeUndoesEncode

\* Every stored form of an id is decoded to what the provider issued: the
\* migration of transcripts cannot be noticed upstream.
THEOREM StoredDecodes ==
  ASSUME NEW x \in Ids, NEW wire \in Stored(x)
  PROVE  DecodeToolId(wire) = x
<1>1. CASE wire = EncodeToolId(x)
  BY <1>1, DecodeUndoesEncode
<1>2. CASE Bare(x) /\ wire \in {x, EncodeLegacyId(x)}
  <2>1. PICK b \in Plain \cup Composite \cup Odd \cup Marked, n \in Nat : x = <<b, n>>
    BY DEF Ids
  <2>2. CASE wire = x
    <3>1. CASE n = 0
      BY <2>1, <2>2, <3>1 DEF DecodeToolId
    <3>2. CASE n = 1 /\ b \in Plain
      BY <2>1, <2>2, <3>2 DEF DecodeToolId, EncodeToolId
    <3>3. QED
      BY <1>2, <2>1, <3>1, <3>2 DEF Bare
  <2>3. CASE n = 0 /\ b \in Composite /\ wire = <<b, 1>>
    <3>1. EncodeToolId(x) = <<b, 1>>
      BY <2>1, <2>3, BasesDisjoint DEF EncodeToolId, Enclose
    <3>2. QED
      BY <2>3, <3>1, DecodeUndoesEncode
  <2>4. QED
    BY <1>2, <2>1, <2>2, <2>3 DEF EncodeLegacyId, Enclose
<1>3. QED
  BY <1>1, <1>2 DEF Stored

LEMMA StoredIdsDecode ==
  ASSUME NEW s \in StoredIds
  PROVE  s.x \in Ids /\ s.wire \in Stored(s.x) /\ DecodeToolId(s.wire) = s.x
BY StoredDecodes DEF StoredIds

LEMMA CallIdIs ==
  ASSUME NEW content \in Seq(AssistantBlocks), NEW i \in Calls(content)
  PROVE  /\ content[i].id \in StoredIds /\ content[i].name \in Names
         /\ CallId(content[i]) = content[i].id.x
         /\ CallId(content[i]) \in Ids
<1>1. content[i] \in AssistantBlocks /\ content[i].type = "tool_use"
  BY DEF Calls
<1>2. content[i] \in [type : {"tool_use"}, id : StoredIds, name : Names]
  BY <1>1 DEF AssistantBlocks
<1>3. QED
  BY <1>2, StoredIdsDecode DEF CallId

-----------------------------------------------------------------------------
(* The names of tools. *)

\* A non-empty set of positions in a sequence has a last one.
LEMMA LastPosition ==
  ASSUME NEW n \in Nat, NEW S \in SUBSET (1..n), S # {}
  PROVE  \E i \in S : \A j \in S : j <= i
<1> DEFINE T == {n - i : i \in S}
<1>1. T # {} /\ T \in SUBSET Nat
  <2>1. \A i \in S : n - i \in Nat
    OBVIOUS
  <2>2. QED
    BY <2>1, Zenon
<1>2. PICK t \in T : \A u \in T : ~ (<<u, t>> \in OpToRel(<, Nat))
  BY <1>1, NatLessThanWellFounded, WFMin, Zenon
<1>3. PICK i \in S : t = n - i
  OBVIOUS
<1>4. ASSUME NEW j \in S PROVE j <= i
  <2>1. n - j \in T /\ n - j \in Nat /\ t \in Nat
    BY <1>1
  <2>2. ~ (n - j < t)
    BY <1>2, <2>1 DEF OpToRel
  <2>3. QED
    BY <1>3, <2>1, <2>2
<1>5. QED
  BY <1>4

\* After an assistant message toolNames has its calls, each under a name it
\* was called by.
LEMMA NamedIs ==
  ASSUME NEW content \in Seq(AssistantBlocks)
  PROVE  LET ids == {CallId(content[i]) : i \in Calls(content)}
         IN  /\ DOMAIN Named(content) = ids \cup DOMAIN toolNames
             /\ \A id \in DOMAIN toolNames \ ids : Named(content)[id] = toolNames[id]
             /\ \A id \in ids : \E i \in Calls(content) :
                  CallId(content[i]) = id /\ content[i].name = Named(content)[id]
<1> DEFINE ids == {CallId(content[i]) : i \in Calls(content)}
           Is(id, i) == /\ CallId(content[i]) = id
                        /\ \A j \in Calls(content) : CallId(content[j]) = id => j <= i
           Latest(id) == CHOOSE i \in Calls(content) : Is(id, i)
<1>1. Named(content) =
        [id \in ids \cup DOMAIN toolNames |->
           IF id \in ids THEN content[Latest(id)].name ELSE toolNames[id]]
  BY Zenon DEF Named
<1>2. ASSUME NEW id \in ids PROVE Latest(id) \in Calls(content) /\ CallId(content[Latest(id)]) = id
  <2> DEFINE S == {i \in Calls(content) : CallId(content[i]) = id}
  <2>1. S # {} /\ S \in SUBSET (1..Len(content)) /\ Len(content) \in Nat
    BY DEF Calls
  <2>2. \E i \in S : \A j \in S : j <= i
    BY <2>1, LastPosition
  <2>3. \E i \in Calls(content) : Is(id, i)
    BY <2>2
  <2>4. QED
    BY <2>3, Zenon
<1> HIDE DEF Latest
<1>3. QED
  BY <1>1, <1>2

-----------------------------------------------------------------------------
(* Types. *)

\* What an assistant message becomes.
Turn(content) ==
  [role |-> "assistant", at |-> <<Here>>,
   calls |-> {[id |-> CallId(content[i]), name |-> content[i].name] : i \in Calls(content)}]

LEMMA NewMessages ==
  ASSUME TypeOK
  PROVE  /\ Here \in Nat
         /\ Flushed \in Seq(Messages)
         /\ \A content \in Seq(AssistantBlocks) : Turn(content) \in Messages
         /\ \A id \in Ids : ResultMessage(id) \in Messages
         /\ \A places \in Seq(Nat) : User(places) \in Messages
<1>1. Here \in Nat /\ <<Here>> \in Seq(Nat)
  BY DEF TypeOK, Here
<1>2. \A places \in Seq(Nat) : User(places) \in Messages
  BY DEF User, Messages
<1>3. Flushed \in Seq(Messages)
  BY <1>2 DEF TypeOK, Flushed
<1>4. ASSUME NEW content \in Seq(AssistantBlocks) PROVE Turn(content) \in Messages
  <2>1. {[id |-> CallId(content[i]), name |-> content[i].name] : i \in Calls(content)}
          \in SUBSET [id : Ids, name : Names]
    BY CallIdIs
  <2> HIDE DEF Calls
  <2>2. QED
    BY <1>1, <2>1, Zenon DEF Turn, Messages
<1>5. ASSUME NEW id \in Ids PROVE ResultMessage(id) \in Messages
  <2>1. (IF id \in DOMAIN toolNames THEN toolNames[id] ELSE DefaultName) \in Names \cup {DefaultName}
    BY DEF TypeOK
  <2>2. QED
    BY <1>1, <2>1, Zenon DEF ResultMessage, Messages
<1>6. QED
  BY <1>1, <1>2, <1>3, <1>4, <1>5

LEMMA ReadAssistantTypes ==
  ASSUME TypeOK, ReadAssistant
  PROVE  TypeOK'
<1>1. PICK content \in AssistantContents :
        /\ transcript' = Append(transcript, [kind |-> "assistant", content |-> content])
        /\ toolNames' = Named(content)
        /\ messages' = IF content = <<>> THEN messages ELSE Append(messages, Turn(content))
  BY Zenon DEF ReadAssistant, Turn
<1>2. content \in Seq(AssistantBlocks)
  BY InputsAssumption
<1>3. transcript' \in Seq(Items)
  <2>1. [kind |-> "assistant", content |-> content] \in Items
    BY <1>2 DEF Items
  <2>2. QED
    BY <1>1, <2>1 DEF TypeOK
<1>4. DOMAIN toolNames' \subseteq Ids /\ \A id \in DOMAIN toolNames' : toolNames'[id] \in Names
  <2> DEFINE ids == {CallId(content[i]) : i \in Calls(content)}
  <2>1. /\ DOMAIN Named(content) = ids \cup DOMAIN toolNames
        /\ \A id \in DOMAIN toolNames \ ids : Named(content)[id] = toolNames[id]
        /\ \A id \in ids : \E i \in Calls(content) :
             CallId(content[i]) = id /\ content[i].name = Named(content)[id]
    BY <1>2, NamedIs
  <2>2. ids \subseteq Ids
    BY <1>2, CallIdIs
  <2>3. ASSUME NEW id \in DOMAIN Named(content) PROVE Named(content)[id] \in Names
    <3>1. CASE id \in ids
      BY <1>2, <2>1, <3>1, CallIdIs, Zenon
    <3>2. CASE id \in DOMAIN toolNames \ ids
      BY <2>1, <3>2 DEF TypeOK
    <3>3. QED
      BY <2>1, <3>1, <3>2
  <2>4. QED
    BY <1>1, <2>1, <2>2, <2>3, Zenon DEF TypeOK
<1>5. messages' \in Seq(Messages) /\ Len(messages') >= Len(messages)
  BY <1>1, <1>2, NewMessages DEF TypeOK
<1>6. QED
  BY <1>3, <1>4, <1>5 DEF TypeOK, ReadAssistant, secondPass

LEMMA ReadUserTypes ==
  ASSUME TypeOK, UserText \/ UserResult \/ EndUser \/ EndOfInput
  PROVE  TypeOK'
<1>1. CASE UserText
  <2>1. [kind |-> "text"] \in Items
    BY DEF Items
  <2>2. transcript' \in Seq(Items) /\ batch' \in Seq(Nat)
    BY <1>1, <2>1, NewMessages DEF TypeOK, UserText
  <2>3. QED
    BY <1>1, <2>2 DEF TypeOK, UserText, secondPass, Reading
<1>2. CASE UserResult
  <2>1. PICK s \in UserResults :
          /\ transcript' = Append(transcript, [kind |-> "result", id |-> s.x])
          /\ messages' = Append(Flushed, ResultMessage(DecodeToolId(s.wire)))
    BY <1>2 DEF UserResult
  <2>2. s.x \in Ids /\ DecodeToolId(s.wire) \in Ids
    BY InputsAssumption, StoredIdsDecode
  <2>3. transcript' \in Seq(Items)
    BY <2>1, <2>2 DEF TypeOK, Items
  <2>4. messages' \in Seq(Messages) /\ Len(messages') >= Len(messages)
    BY <2>1, <2>2, NewMessages DEF TypeOK, Flushed
  <2>5. QED
    BY <1>2, <2>3, <2>4 DEF TypeOK, UserResult, secondPass
<1>3. CASE EndUser
  <2>1. messages' \in Seq(Messages) /\ Len(messages') >= Len(messages)
    BY <1>3, NewMessages DEF TypeOK, EndUser, Flushed
  <2>2. QED
    BY <1>3, <2>1 DEF TypeOK, EndUser, secondPass
<1>4. CASE EndOfInput
  BY <1>4 DEF TypeOK, EndOfInput, firstPass, secondPass
<1>5. QED
  BY <1>1, <1>2, <1>3, <1>4

LEMMA PairTypes ==
  ASSUME TypeOK, PairAssistant \/ PairResult \/ SetAside \/ PairUser \/ Finish
  PROVE  TypeOK'
<1>1. Flush \in Seq(Messages)
  BY DEF TypeOK, Flush
<1>2. ASSUME NEW role, Take(role)
      PROVE  /\ messages[cursor] \in Messages /\ messages[cursor].role = role
             /\ cursor' \in 1..(Len(messages) + 1)
             /\ messages[cursor].at \in Seq(Nat)
  BY <1>2 DEF Take, TypeOK, Messages
<1>3. CASE PairAssistant
  <2>1. messages[cursor] \in Messages /\ messages[cursor].role = "assistant"
    BY <1>2, <1>3 DEF PairAssistant
  <2>2. messages[cursor].calls \in SUBSET [id : Ids, name : Names]
    BY <2>1 DEF Messages
  <2>3. pendingIds' \subseteq Ids
    BY <1>3, <2>2 DEF PairAssistant
  <2>4. paired' \in Seq(Messages)
    BY <1>1, <1>3, <2>1 DEF PairAssistant
  <2>5. QED
    BY <1>2, <1>3, <2>3, <2>4 DEF PairAssistant, Take, TypeOK, firstPass
<1>4. CASE PairResult
  BY <1>2, <1>4 DEF PairResult, Take, TypeOK, firstPass
<1>5. CASE SetAside
  <2>1. User(messages[cursor].at) \in Messages
    BY <1>2, <1>5, NewMessages DEF SetAside
  <2>2. QED
    BY <1>2, <1>5, <2>1 DEF SetAside, Take, TypeOK, firstPass
<1>6. CASE PairUser
  BY <1>2, <1>6 DEF PairUser, Take, TypeOK, firstPass
<1>7. CASE Finish
  BY <1>1, <1>7 DEF Finish, TypeOK, firstPass
<1>8. QED
  BY <1>3, <1>4, <1>5, <1>6, <1>7

LEMMA NextTypes ==
  ASSUME TypeOK, [TurnsNext]_turnsVars
  PROVE  TypeOK'
<1>1. CASE UNCHANGED turnsVars
  BY <1>1 DEF TypeOK, turnsVars, firstPass, secondPass
<1>2. QED
  BY <1>1, ReadAssistantTypes, ReadUserTypes, PairTypes DEF TurnsNext

\* The conversion is well typed, for any ids, names and transcripts.
THEOREM TypeCorrect == TurnsSpec => []TypeOK
<1>1. TurnsInit => TypeOK
  BY DEF TurnsInit, TypeOK
<1>2. QED
  BY <1>1, NextTypes, PTL DEF TurnsSpec

-----------------------------------------------------------------------------
(* Results follow their calls. *)

\* Message t of s is the turn that position p of s belongs to.
LatestTurn(s, t, p) ==
  /\ s[t].role = "assistant"
  /\ \A u \in (t + 1)..(p - 1) : s[u].role # "assistant"

\* toolNames has a name for each call of the latest turn, one it was
\* called by in that turn.
NamesCurrent(s) ==
  \A t \in DOMAIN s : LatestTurn(s, t, Len(s) + 1) =>
    \A c \in s[t].calls :
      c.id \in DOMAIN toolNames /\ [id |-> c.id, name |-> toolNames[c.id]] \in s[t].calls

\* A result for a call of its turn has the name of such a call.
ResultsNamed(s) ==
  \A p \in DOMAIN s : \A t \in 1..(p - 1) :
    s[p].role = "toolResult" /\ LatestTurn(s, t, p) =>
      \A c \in s[t].calls :
        c.id = s[p].id => [id |-> s[p].id, name |-> s[p].name] \in s[t].calls

\* What the second pass has gathered since the turn that ends `paired`.
Gathered ==
  /\ \A i \in DOMAIN userMessages : userMessages[i].role = "user"
  /\ \/ pendingIds = {} /\ results = <<>>
     \/ \E t \in 1..(cursor - 1) :
          /\ LatestTurn(messages, t, cursor)
          /\ paired # <<>> /\ paired[Len(paired)] = messages[t]
          /\ \A id \in pendingIds : \E c \in messages[t].calls : c.id = id
          /\ \A i \in DOMAIN results :
               /\ results[i].role = "toolResult" /\ results[i].id \notin pendingIds
               /\ [id |-> results[i].id, name |-> results[i].name] \in messages[t].calls
               /\ \A j \in 1..(i - 1) : results[j].id # results[i].id

Untouched ==
  cursor = 1 /\ paired = <<>> /\ pendingIds = {} /\ results = <<>> /\ userMessages = <<>>

PairingInv ==
  /\ TypeOK
  /\ phase = "read" => NamesCurrent(messages) /\ Untouched
  /\ ResultsNamed(messages)
  /\ phase = "pair" => Gathered
  /\ ResultsFollowCalls

\* A user message in the list disturbs no name.
LEMMA UserKeepsNames ==
  ASSUME NEW s \in Seq(Messages), NEW m \in Messages, m.role = "user",
         NamesCurrent(s), ResultsNamed(s)
  PROVE  NamesCurrent(Append(s, m)) /\ ResultsNamed(Append(s, m))
<1> DEFINE a == Append(s, m)
<1>1. /\ Len(a) = Len(s) + 1 /\ a \in Seq(Messages) /\ Len(s) \in Nat
      /\ \A i \in 1..Len(s) : a[i] = s[i]
      /\ a[Len(s) + 1] = m
      /\ DOMAIN a = 1..(Len(s) + 1) /\ DOMAIN s = 1..Len(s)
  OBVIOUS
<1> HIDE DEF a
<1>2. ASSUME NEW t \in DOMAIN a, NEW p \in DOMAIN s, t < p, LatestTurn(a, t, p)
      PROVE  t \in DOMAIN s /\ LatestTurn(s, t, p) /\ a[t] = s[t] /\ a[p] = s[p]
  BY <1>1, <1>2 DEF LatestTurn
<1>3. ASSUME NEW t \in DOMAIN a, LatestTurn(a, t, Len(a) + 1)
      PROVE  t \in DOMAIN s /\ LatestTurn(s, t, Len(s) + 1) /\ a[t] = s[t]
  BY <1>1, <1>3 DEF LatestTurn
<1>4. NamesCurrent(a)
  BY <1>3 DEF NamesCurrent
<1>5. ResultsNamed(a)
  <2> SUFFICES ASSUME NEW p \in DOMAIN a, NEW t \in 1..(p - 1),
                      a[p].role = "toolResult", LatestTurn(a, t, p),
                      NEW c \in a[t].calls, c.id = a[p].id
               PROVE  [id |-> a[p].id, name |-> a[p].name] \in a[t].calls
    BY DEF ResultsNamed
  <2>1. p \in DOMAIN s /\ t \in DOMAIN a /\ t < p
    BY <1>1
  <2>2. LatestTurn(s, t, p) /\ a[t] = s[t] /\ a[p] = s[p]
    BY <1>2, <2>1
  <2>3. t \in 1..(p - 1) /\ s[p].role = "toolResult" /\ c \in s[t].calls /\ c.id = s[p].id
    BY <2>2
  <2>4. QED
    BY <2>1, <2>2, <2>3 DEF ResultsNamed
<1>6. QED
  BY <1>4, <1>5 DEF a

LEMMA FlushedKeepsNames ==
  ASSUME TypeOK, NamesCurrent(messages), ResultsNamed(messages)
  PROVE  NamesCurrent(Flushed) /\ ResultsNamed(Flushed)
<1>1. User(batch) \in Messages /\ User(batch).role = "user" /\ messages \in Seq(Messages)
  BY NewMessages DEF TypeOK, User
<1>2. QED
  BY <1>1, UserKeepsNames DEF Flushed

LEMMA ReadAssistantNames ==
  ASSUME TypeOK, NamesCurrent(messages), ResultsNamed(messages), ReadAssistant
  PROVE  NamesCurrent(messages)' /\ ResultsNamed(messages)'
<1>1. PICK content \in AssistantContents :
        /\ toolNames' = Named(content)
        /\ messages' = IF content = <<>> THEN messages ELSE Append(messages, Turn(content))
  BY Zenon DEF ReadAssistant, Turn
<1> DEFINE ids == {CallId(content[i]) : i \in Calls(content)}
<1>2. content \in Seq(AssistantBlocks)
  BY InputsAssumption
<1>3. /\ DOMAIN Named(content) = ids \cup DOMAIN toolNames
      /\ \A id \in DOMAIN toolNames \ ids : Named(content)[id] = toolNames[id]
      /\ \A id \in ids : \E i \in Calls(content) :
           CallId(content[i]) = id /\ content[i].name = Named(content)[id]
  BY <1>2, NamedIs
<1>4. CASE content = <<>>
  <2>1. ids = {}
    BY <1>4 DEF Calls
  <2>2. messages' = messages /\ DOMAIN toolNames' = DOMAIN toolNames
        /\ \A id \in DOMAIN toolNames : toolNames'[id] = toolNames[id]
    BY <1>1, <1>3, <1>4, <2>1
  <2>3. NamesCurrent(messages)'
    BY <2>2 DEF NamesCurrent, LatestTurn
  <2>4. ResultsNamed(messages)'
    BY <2>2 DEF ResultsNamed, LatestTurn
  <2>5. QED
    BY <2>3, <2>4
<1>5. CASE content # <<>>
  <2> DEFINE m == Turn(content)
  <2>1. /\ messages' = Append(messages, m) /\ m \in Messages /\ m.role = "assistant"
        /\ m.calls = {[id |-> CallId(content[i]), name |-> content[i].name] : i \in Calls(content)}
    BY <1>1, <1>2, <1>5, NewMessages, Zenon DEF Turn
  <2>2. ASSUME NEW c \in m.calls
        PROVE  /\ c.id \in DOMAIN Named(content)
               /\ [id |-> c.id, name |-> Named(content)[c.id]] \in m.calls
    <3>1. c.id \in ids
      BY <2>1
    <3>2. PICK i \in Calls(content) : CallId(content[i]) = c.id /\ content[i].name = Named(content)[c.id]
      BY <1>3, <3>1
    <3>3. [id |-> CallId(content[i]), name |-> content[i].name] \in m.calls
      BY <2>1
    <3>4. QED
      BY <1>3, <3>1, <3>2, <3>3
  <2> HIDE DEF m
  <2>3. /\ messages \in Seq(Messages) /\ Len(messages) \in Nat
        /\ Len(messages') = Len(messages) + 1
        /\ \A i \in 1..Len(messages) : messages'[i] = messages[i]
        /\ messages'[Len(messages) + 1] = m
        /\ DOMAIN messages' = 1..(Len(messages) + 1) /\ DOMAIN messages = 1..Len(messages)
    BY <2>1 DEF TypeOK
  <2>4. NamesCurrent(messages)'
    <3> SUFFICES ASSUME NEW t \in DOMAIN messages', LatestTurn(messages', t, Len(messages') + 1),
                        NEW c \in messages'[t].calls
                 PROVE  /\ c.id \in DOMAIN toolNames'
                        /\ [id |-> c.id, name |-> toolNames'[c.id]] \in messages'[t].calls
      BY DEF NamesCurrent, LatestTurn
    <3>1. t = Len(messages) + 1
      BY <2>1, <2>3 DEF LatestTurn
    <3>2. QED
      BY <1>1, <2>2, <2>3, <3>1
  <2>5. ResultsNamed(messages)'
    <3> SUFFICES ASSUME NEW p \in DOMAIN messages', NEW t \in 1..(p - 1),
                        messages'[p].role = "toolResult", LatestTurn(messages', t, p),
                        NEW c \in messages'[t].calls, c.id = messages'[p].id
                 PROVE  [id |-> messages'[p].id, name |-> messages'[p].name] \in messages'[t].calls
      BY DEF ResultsNamed, LatestTurn
    <3>1. p \in DOMAIN messages /\ messages'[p] = messages[p] /\ messages'[t] = messages[t]
          /\ t \in 1..(p - 1)
      BY <2>1, <2>3
    <3>2. LatestTurn(messages, t, p)
      BY <2>3, <3>1 DEF LatestTurn
    <3>3. messages[p].role = "toolResult" /\ c \in messages[t].calls /\ c.id = messages[p].id
      BY <3>1
    <3>4. QED
      BY <3>1, <3>2, <3>3 DEF ResultsNamed
  <2>6. QED
    BY <2>4, <2>5
<1>6. QED
  BY <1>4, <1>5

LEMMA ReadUserNames ==
  ASSUME TypeOK, NamesCurrent(messages), ResultsNamed(messages),
         UserText \/ UserResult \/ EndUser
  PROVE  NamesCurrent(messages)' /\ ResultsNamed(messages)'
<1>1. CASE UserText
  BY <1>1 DEF UserText, NamesCurrent, ResultsNamed, LatestTurn
<1>2. CASE EndUser
  <2>1. messages' = Flushed /\ toolNames' = toolNames
    BY <1>2 DEF EndUser
  <2>2. NamesCurrent(Flushed) /\ ResultsNamed(Flushed)
    BY FlushedKeepsNames
  <2>3. NamesCurrent(messages)'
    BY <2>1, <2>2 DEF NamesCurrent, LatestTurn
  <2>4. ResultsNamed(messages)'
    BY <2>1, <2>2 DEF ResultsNamed, LatestTurn
  <2>5. QED
    BY <2>3, <2>4
<1>3. CASE UserResult
  <2>1. PICK s \in UserResults : messages' = Append(Flushed, ResultMessage(DecodeToolId(s.wire)))
    BY <1>3 DEF UserResult
  <2> DEFINE id == DecodeToolId(s.wire)
             m == ResultMessage(id)
             f == Flushed
  <2>2. /\ id \in Ids /\ m.role = "toolResult" /\ m.id = id
        /\ id \in DOMAIN toolNames => m.name = toolNames[id]
        /\ m \in Messages /\ toolNames' = toolNames
    BY <1>3, NewMessages, InputsAssumption, StoredIdsDecode DEF UserResult, ResultMessage
  <2>3. f \in Seq(Messages) /\ NamesCurrent(f) /\ ResultsNamed(f)
    BY FlushedKeepsNames, NewMessages
  <2>4. messages' = Append(f, m)
    BY <2>1
  <2> HIDE DEF id, m, f
  <2>5. /\ Len(f) \in Nat /\ Len(messages') = Len(f) + 1
        /\ \A i \in 1..Len(f) : messages'[i] = f[i]
        /\ messages'[Len(f) + 1] = m
        /\ DOMAIN messages' = 1..(Len(f) + 1) /\ DOMAIN f = 1..Len(f)
    BY <2>2, <2>3, <2>4
  <2>6. ASSUME NEW t \in 1..Len(f), LatestTurn(messages', t, Len(f) + 1)
        PROVE  /\ messages'[t] = f[t]
               /\ \A c \in f[t].calls :
                    c.id \in DOMAIN toolNames /\ [id |-> c.id, name |-> toolNames[c.id]] \in f[t].calls
    <3>1. LatestTurn(f, t, Len(f) + 1)
      BY <2>5, <2>6 DEF LatestTurn
    <3>2. QED
      BY <2>3, <2>5, <3>1 DEF NamesCurrent
  <2>7. NamesCurrent(messages)'
    <3> SUFFICES ASSUME NEW t \in DOMAIN messages', LatestTurn(messages', t, Len(messages') + 1),
                        NEW c \in messages'[t].calls
                 PROVE  /\ c.id \in DOMAIN toolNames'
                        /\ [id |-> c.id, name |-> toolNames'[c.id]] \in messages'[t].calls
      BY DEF NamesCurrent, LatestTurn
    <3>1. t \in 1..Len(f)
      BY <2>2, <2>5 DEF LatestTurn
    <3>2. LatestTurn(messages', t, Len(f) + 1)
      BY <2>5 DEF LatestTurn
    <3>3. QED
      BY <2>2, <2>6, <3>1, <3>2
  <2>8. ResultsNamed(messages)'
    <3> SUFFICES ASSUME NEW p \in DOMAIN messages', NEW t \in 1..(p - 1),
                        messages'[p].role = "toolResult", LatestTurn(messages', t, p),
                        NEW c \in messages'[t].calls, c.id = messages'[p].id
                 PROVE  [id |-> messages'[p].id, name |-> messages'[p].name] \in messages'[t].calls
      BY DEF ResultsNamed, LatestTurn
    <3>1. CASE p = Len(f) + 1
      <4>1. t \in 1..Len(f) /\ messages'[p] = m
        BY <2>5, <3>1
      <4>2. messages'[t] = f[t] /\ c.id \in DOMAIN toolNames
            /\ [id |-> c.id, name |-> toolNames[c.id]] \in f[t].calls
        BY <2>6, <3>1, <4>1
      <4>3. QED
        BY <2>2, <4>1, <4>2
    <3>2. CASE p \in DOMAIN f
      <4>1. messages'[p] = f[p] /\ messages'[t] = f[t] /\ t \in 1..(p - 1)
        BY <2>5, <3>2
      <4>2. LatestTurn(f, t, p)
        BY <2>5, <3>2, <4>1 DEF LatestTurn
      <4>3. f[p].role = "toolResult" /\ c \in f[t].calls /\ c.id = f[p].id
        BY <4>1
      <4>4. QED
        BY <2>3, <3>2, <4>1, <4>2, <4>3 DEF ResultsNamed
    <3>3. QED
      BY <2>5, <3>1, <3>2
  <2>9. QED
    BY <2>7, <2>8
<1>4. QED
  BY <1>1, <1>2, <1>3

-----------------------------------------------------------------------------
\* Flushing behind a turn keeps every result behind its call.
LEMMA FlushFollows ==
  ASSUME TypeOK, Gathered, ResultsFollowCalls
  PROVE  \A p \in DOMAIN Flush : Flush[p].role = "toolResult" => FollowsCall(Flush, p)
<1> DEFINE n == Len(paired)
           k == Len(results)
           f == Flush
<1>1. /\ paired \in Seq(Messages) /\ results \in Seq(Messages) /\ userMessages \in Seq(Messages)
      /\ n \in Nat /\ k \in Nat
  BY DEF TypeOK
<1>2. /\ f \in Seq(Messages) /\ DOMAIN f = 1..(n + k + Len(userMessages))
      /\ \A p \in 1..n : f[p] = paired[p]
      /\ \A i \in 1..k : f[n + i] = results[i]
      /\ \A i \in 1..Len(userMessages) : f[n + k + i] = userMessages[i]
  BY <1>1 DEF Flush
<1> HIDE DEF f
<1> SUFFICES ASSUME NEW p \in DOMAIN f, f[p].role = "toolResult"
             PROVE  FollowsCall(f, p)
  BY DEF f
<1>3. CASE p \in 1..n
  <2>1. FollowsCall(paired, p)
    BY <1>1, <1>2, <1>3 DEF ResultsFollowCalls
  <2>2. PICK t \in 1..(p - 1) :
          /\ paired[t].role = "assistant"
          /\ [id |-> paired[p].id, name |-> paired[p].name] \in paired[t].calls
          /\ \A q \in (t + 1)..(p - 1) :
               paired[q].role = "toolResult" /\ paired[q].id # paired[p].id
    BY <2>1 DEF FollowsCall
  <2>3. /\ f[p] = paired[p] /\ f[t] = paired[t]
        /\ \A q \in (t + 1)..(p - 1) : f[q] = paired[q]
    <3>1. t \in 1..n /\ \A q \in (t + 1)..(p - 1) : q \in 1..n
      BY <1>1, <1>3
    <3>2. QED
      BY <1>2, <1>3, <3>1, Zenon
  <2>4. QED
    BY <2>2, <2>3 DEF FollowsCall
<1>4. CASE p \in (n + 1)..(n + k)
  <2>1. PICK i \in 1..k : p = n + i
    <3>1. p - n \in 1..k /\ p = n + (p - n)
      BY <1>1, <1>4
    <3>2. QED
      BY <3>1
  <2>2. PICK t \in 1..(cursor - 1) :
          /\ LatestTurn(messages, t, cursor)
          /\ paired # <<>> /\ paired[Len(paired)] = messages[t]
          /\ \A j \in DOMAIN results :
               /\ results[j].role = "toolResult"
               /\ [id |-> results[j].id, name |-> results[j].name] \in messages[t].calls
               /\ \A l \in 1..(j - 1) : results[l].id # results[j].id
    <3>1. results # <<>>
      BY <1>1, <2>1
    <3>2. QED
      BY <3>1, Zenon DEF Gathered
  <2>3. n \in 1..(p - 1) /\ f[n] = messages[t] /\ f[n].role = "assistant" /\ f[p] = results[i]
    BY <1>1, <1>2, <2>1, <2>2 DEF LatestTurn
  <2>4. [id |-> f[p].id, name |-> f[p].name] \in f[n].calls
    BY <1>1, <2>1, <2>2, <2>3
  <2>5. ASSUME NEW q \in (n + 1)..(p - 1) PROVE f[q].role = "toolResult" /\ f[q].id # f[p].id
    <3>1. q - n \in 1..(i - 1) /\ q - n \in 1..k /\ q = n + (q - n)
      BY <1>1, <2>1
    <3>2. f[q] = results[q - n]
      BY <1>2, <3>1
    <3>3. q - n \in DOMAIN results /\ i \in DOMAIN results
      BY <1>1, <3>1
    <3>4. results[q - n].role = "toolResult" /\ results[q - n].id # results[i].id
      BY <2>2, <3>1, <3>3
    <3>5. QED
      BY <2>3, <3>2, <3>4
  <2>6. QED
    BY <2>3, <2>4, <2>5 DEF FollowsCall
<1>5. CASE p \in (n + k + 1)..(n + k + Len(userMessages))
  <2> DEFINE i == p - (n + k)
  <2>1. i \in 1..Len(userMessages) /\ p = n + k + i
    BY <1>1, <1>5
  <2> HIDE DEF i
  <2>2. f[p] = userMessages[i]
    BY <1>2, <2>1
  <2>3. userMessages[i].role = "user"
    BY <1>1, <2>1 DEF Gathered
  <2>4. QED
    BY <2>2, <2>3
<1>6. QED
  BY <1>1, <1>2, <1>3, <1>4, <1>5

LEMMA PairAssistantFollows ==
  ASSUME PairingInv, PairAssistant
  PROVE  Gathered' /\ ResultsFollowCalls'
<1> DEFINE m == messages[cursor]
           f == Flush
<1>1. /\ TypeOK /\ Gathered /\ cursor \in DOMAIN messages /\ cursor' = cursor + 1
      /\ messages' = messages /\ m.role = "assistant" /\ cursor \in Nat
  BY DEF PairingInv, PairAssistant, Take, firstPass, TypeOK
<1>2. f \in Seq(Messages) /\ \A p \in DOMAIN f : f[p].role = "toolResult" => FollowsCall(f, p)
  <2>1. f \in Seq(Messages)
    BY <1>1 DEF TypeOK, Flush
  <2>2. QED
    BY <1>1, <2>1, FlushFollows DEF PairingInv
<1>3. /\ paired' = Append(f, m) /\ pendingIds' = {c.id : c \in m.calls}
      /\ results' = <<>> /\ userMessages' = <<>>
  BY DEF PairAssistant
<1> HIDE DEF f
<1>4. /\ Len(f) \in Nat /\ Len(paired') = Len(f) + 1 /\ paired' # <<>>
      /\ \A i \in 1..Len(f) : paired'[i] = f[i]
      /\ paired'[Len(f) + 1] = m
      /\ DOMAIN paired' = 1..(Len(f) + 1) /\ DOMAIN f = 1..Len(f)
  BY <1>2, <1>3
<1>5. Gathered'
  <2>1. LatestTurn(messages', cursor, cursor') /\ cursor \in 1..(cursor' - 1)
    <3>1. cursor \in 1..(cursor' - 1) /\ (cursor + 1)..(cursor' - 1) = {}
      BY <1>1 DEF TypeOK
    <3>2. QED
      BY <1>1, <3>1, Zenon DEF LatestTurn
  <2>2. paired'[Len(paired')] = messages'[cursor]
    BY <1>1, <1>4
  <2>3. \A id \in pendingIds' : \E c \in messages'[cursor].calls : c.id = id
    BY <1>1, <1>3
  <2>4. QED
    BY <1>3, <1>4, <2>1, <2>2, <2>3 DEF Gathered
<1>6. ResultsFollowCalls'
  <2> SUFFICES ASSUME NEW p \in DOMAIN paired', paired'[p].role = "toolResult"
               PROVE  FollowsCall(paired', p)
    BY DEF ResultsFollowCalls, FollowsCall
  <2>1. p \in DOMAIN f /\ f[p] = paired'[p]
    BY <1>1, <1>4
  <2>2. FollowsCall(f, p)
    BY <1>2, <2>1
  <2>3. QED
    BY <1>4, <2>1, <2>2 DEF FollowsCall
<1>7. QED
  BY <1>5, <1>6

\* The other steps of the second pass only add to what it has gathered.
LEMMA PairResultGathers ==
  ASSUME PairingInv, PairResult
  PROVE  Gathered' /\ ResultsFollowCalls'
<1> DEFINE m == messages[cursor]
<1>1. /\ Gathered /\ ResultsNamed(messages) /\ cursor \in DOMAIN messages /\ cursor \in Nat
      /\ cursor' = cursor + 1 /\ messages' = messages /\ m.role = "toolResult"
      /\ m.id \in pendingIds /\ results \in Seq(Messages) /\ m \in Messages
  BY DEF PairingInv, PairResult, Take, firstPass, TypeOK
<1>2. /\ pendingIds' = pendingIds \ {m.id} /\ results' = Append(results, m)
      /\ paired' = paired /\ userMessages' = userMessages
  BY DEF PairResult
<1>3. pendingIds # {}
  BY <1>1
<1>4. PICK t \in 1..(cursor - 1) :
        /\ LatestTurn(messages, t, cursor)
        /\ paired # <<>> /\ paired[Len(paired)] = messages[t]
        /\ \A id \in pendingIds : \E c \in messages[t].calls : c.id = id
        /\ \A i \in DOMAIN results :
             /\ results[i].role = "toolResult" /\ results[i].id \notin pendingIds
             /\ [id |-> results[i].id, name |-> results[i].name] \in messages[t].calls
             /\ \A j \in 1..(i - 1) : results[j].id # results[i].id
  BY <1>1, <1>3, Zenon DEF Gathered
<1>5. [id |-> m.id, name |-> m.name] \in messages[t].calls
  <2>1. PICK c \in messages[t].calls : c.id = m.id
    BY <1>1, <1>4
  <2>2. QED
    BY <1>1, <1>4, <2>1 DEF ResultsNamed
<1>6. LatestTurn(messages', t, cursor') /\ t \in 1..(cursor' - 1)
  <2>1. t \in 1..(cursor' - 1) /\ \A u \in (t + 1)..(cursor' - 1) :
          u \in (t + 1)..(cursor - 1) \/ u = cursor
    BY <1>1
  <2>2. QED
    BY <1>1, <1>4, <2>1 DEF LatestTurn
<1> HIDE DEF m
<1>7. ASSUME NEW i \in DOMAIN results'
      PROVE  /\ results'[i].role = "toolResult" /\ results'[i].id \notin pendingIds'
             /\ [id |-> results'[i].id, name |-> results'[i].name] \in messages[t].calls
             /\ \A j \in 1..(i - 1) : results'[j].id # results'[i].id
  <2>1. /\ Len(results) \in Nat /\ DOMAIN results' = 1..(Len(results) + 1)
        /\ DOMAIN results = 1..Len(results)
        /\ results'[Len(results) + 1] = m
        /\ \A l \in DOMAIN results : results'[l] = results[l]
    BY <1>1, <1>2
  <2>2. CASE i \in DOMAIN results
    <3>1. \A j \in 1..(i - 1) : j \in DOMAIN results
      BY <2>1, <2>2
    <3>2. QED
      BY <1>2, <1>4, <2>1, <2>2, <3>1
  <2>3. CASE i = Len(results) + 1
    <3>1. \A j \in 1..(i - 1) : j \in DOMAIN results
      BY <2>1, <2>3
    <3>2. \A j \in 1..(i - 1) : results'[j].id # m.id
      BY <1>1, <1>4, <2>1, <3>1
    <3>3. QED
      BY <1>1, <1>2, <1>5, <2>1, <2>3, <3>2
  <2>4. QED
    BY <2>1, <2>2, <2>3
<1>8. Gathered'
  <2>1. \A id \in pendingIds' : \E c \in messages[t].calls : c.id = id
    BY <1>2, <1>4
  <2>2. \A i \in DOMAIN userMessages' : userMessages'[i].role = "user"
    BY <1>1, <1>2 DEF Gathered
  <2>3. QED
    BY <1>1, <1>2, <1>4, <1>6, <1>7, <2>1, <2>2 DEF Gathered
<1>9. ResultsFollowCalls'
  BY <1>2 DEF PairingInv, ResultsFollowCalls, FollowsCall
<1>10. QED
  BY <1>8, <1>9

LEMMA PairTextGathers ==
  ASSUME PairingInv, SetAside \/ PairUser
  PROVE  Gathered' /\ ResultsFollowCalls'
<1> DEFINE m == messages[cursor]
<1>1. /\ Gathered /\ cursor \in Nat /\ cursor' = cursor + 1 /\ messages' = messages
      /\ m.role # "assistant" /\ userMessages \in Seq(Messages) /\ TypeOK
      /\ pendingIds' = pendingIds /\ results' = results /\ paired' = paired
  BY DEF PairingInv, SetAside, PairUser, Take, firstPass, TypeOK
<1>2. PICK x : x \in Messages /\ x.role = "user" /\ userMessages' = Append(userMessages, x)
  <2>1. CASE SetAside
    <3>1. m.at \in Seq(Nat) /\ userMessages' = Append(userMessages, User(m.at))
      BY <1>1, <2>1 DEF SetAside, Take, TypeOK, Messages
    <3>2. QED
      BY <1>1, <3>1, NewMessages DEF User
  <2>2. CASE PairUser
    BY <2>2, <1>1 DEF PairUser, Take, TypeOK
  <2>3. QED
    BY <2>1, <2>2
<1>3. \A i \in DOMAIN userMessages' : userMessages'[i].role = "user"
  <2>1. \A i \in DOMAIN userMessages : userMessages[i].role = "user"
    BY <1>1 DEF Gathered
  <2>2. /\ DOMAIN userMessages' = 1..(Len(userMessages) + 1) /\ DOMAIN userMessages = 1..Len(userMessages)
        /\ userMessages'[Len(userMessages) + 1] = x /\ Len(userMessages) \in Nat
        /\ \A l \in DOMAIN userMessages : userMessages'[l] = userMessages[l]
    BY <1>1, <1>2
  <2>3. QED
    BY <1>2, <2>1, <2>2
<1>4. ASSUME NEW t \in 1..(cursor - 1), LatestTurn(messages, t, cursor)
      PROVE  LatestTurn(messages', t, cursor') /\ t \in 1..(cursor' - 1)
  <2>1. t \in 1..(cursor' - 1) /\ \A u \in (t + 1)..(cursor' - 1) :
          u \in (t + 1)..(cursor - 1) \/ u = cursor
    BY <1>1
  <2>2. QED
    BY <1>1, <1>4, <2>1 DEF LatestTurn
<1> HIDE DEF m
<1>5. Gathered'
  <2>1. CASE pendingIds = {} /\ results = <<>>
    BY <1>1, <1>3, <2>1 DEF Gathered
  <2>2. CASE ~ (pendingIds = {} /\ results = <<>>)
    <3>1. PICK t \in 1..(cursor - 1) :
        /\ LatestTurn(messages, t, cursor)
        /\ paired # <<>> /\ paired[Len(paired)] = messages[t]
        /\ \A id \in pendingIds : \E c \in messages[t].calls : c.id = id
        /\ \A i \in DOMAIN results :
             /\ results[i].role = "toolResult" /\ results[i].id \notin pendingIds
             /\ [id |-> results[i].id, name |-> results[i].name] \in messages[t].calls
             /\ \A j \in 1..(i - 1) : results[j].id # results[i].id
      BY <1>1, <2>2, Zenon DEF Gathered
    <3>2. LatestTurn(messages', t, cursor') /\ t \in 1..(cursor' - 1)
      BY <1>4, <3>1
    <3>3. QED
      BY <1>1, <1>3, <3>1, <3>2 DEF Gathered
  <2>3. QED
    BY <2>1, <2>2
<1>6. ResultsFollowCalls'
  BY <1>1 DEF PairingInv, ResultsFollowCalls, FollowsCall
<1>7. QED
  BY <1>5, <1>6

LEMMA PairingInvStep ==
  ASSUME PairingInv, [TurnsNext]_turnsVars
  PROVE  PairingInv'
<1>1. TypeOK /\ TypeOK'
  BY NextTypes DEF PairingInv
<1>2. CASE ReadAssistant \/ UserText \/ UserResult \/ EndUser
  <2>1. phase = "read" /\ phase' = "read" /\ UNCHANGED secondPass
    BY <1>2 DEF ReadAssistant, UserText, UserResult, EndUser, Reading
  <2>2. NamesCurrent(messages)' /\ ResultsNamed(messages)'
    BY <1>2, <2>1, ReadAssistantNames, ReadUserNames DEF PairingInv
  <2>3. Untouched' /\ ResultsFollowCalls'
    BY <2>1 DEF PairingInv, Untouched, secondPass, ResultsFollowCalls, FollowsCall
  <2>4. QED
    BY <1>1, <2>1, <2>2, <2>3 DEF PairingInv
<1>3. CASE EndOfInput
  <2>1. phase' = "pair" /\ UNCHANGED <<messages, secondPass>> /\ Untouched
    BY <1>3 DEF EndOfInput, firstPass, PairingInv
  <2>2. Gathered'
    BY <2>1 DEF Gathered, Untouched, secondPass
  <2>3. ResultsNamed(messages)' /\ ResultsFollowCalls'
    BY <2>1 DEF PairingInv, secondPass, ResultsNamed, LatestTurn, ResultsFollowCalls, FollowsCall
  <2>4. QED
    BY <1>1, <2>1, <2>2, <2>3 DEF PairingInv
<1>4. CASE PairAssistant \/ PairResult \/ SetAside \/ PairUser
  <2>1. phase' = "pair" /\ UNCHANGED messages
    BY <1>4 DEF PairAssistant, PairResult, SetAside, PairUser, Take, firstPass
  <2>2. Gathered' /\ ResultsFollowCalls'
    BY <1>4, PairAssistantFollows, PairResultGathers, PairTextGathers
  <2>3. ResultsNamed(messages)'
    BY <2>1 DEF PairingInv, ResultsNamed, LatestTurn
  <2>4. QED
    BY <1>1, <2>1, <2>2, <2>3 DEF PairingInv
<1>5. CASE Finish
  <2>1. /\ phase' = "done" /\ UNCHANGED messages /\ paired' = Flush
        /\ Gathered /\ ResultsFollowCalls
    BY <1>5 DEF Finish, firstPass, PairingInv
  <2>2. \A p \in DOMAIN Flush : Flush[p].role = "toolResult" => FollowsCall(Flush, p)
    BY <1>1, <2>1, FlushFollows
  <2>3. ResultsFollowCalls'
    BY <2>1, <2>2 DEF ResultsFollowCalls, FollowsCall
  <2>4. ResultsNamed(messages)'
    BY <2>1 DEF PairingInv, ResultsNamed, LatestTurn
  <2>5. QED
    BY <1>1, <2>1, <2>3, <2>4 DEF PairingInv
<1>6. CASE UNCHANGED turnsVars
  <2>1. UNCHANGED <<phase, messages, toolNames, cursor, paired, pendingIds, results, userMessages>>
    BY <1>6 DEF turnsVars, firstPass, secondPass
  <2>2. QED
    BY <1>1, <2>1 DEF PairingInv, NamesCurrent, ResultsNamed, LatestTurn, Untouched, Gathered,
                      ResultsFollowCalls, FollowsCall
<1>7. QED
  BY <1>2, <1>3, <1>4, <1>5, <1>6 DEF TurnsNext

\* Whatever the transcript, every result in the context follows its call,
\* alone and under the right name.
THEOREM ResultsFollowCallsHolds == TurnsSpec => []ResultsFollowCalls
<1>1. TurnsInit => PairingInv
  <2> SUFFICES ASSUME TurnsInit PROVE PairingInv
    OBVIOUS
  <2>1. TypeOK
    BY DEF TurnsInit, TypeOK
  <2>2. QED
    BY <2>1 DEF TurnsInit, PairingInv, NamesCurrent, ResultsNamed, Untouched, ResultsFollowCalls
<1>2. PairingInv => ResultsFollowCalls
  BY DEF PairingInv
<1>3. QED
  BY <1>1, <1>2, PairingInvStep, PTL DEF TurnsSpec

-----------------------------------------------------------------------------
(***************************************************************************)
(* Everything once.  `at` gives each message its places in the transcript; *)
(* the first pass keeps the places in order, the second takes the messages *)
(* one by one and only ever puts one behind what it comes after.           *)
(***************************************************************************)
Holds(m, s) == \E i \in DOMAIN m.at : m.at[i] = s
Has(f, s) == \E p \in DOMAIN f : Holds(f[p], s)
HasBefore(f, n, s) == \E p \in DOMAIN f : p < n /\ Holds(f[p], s)
Rising(a) == \A i, j \in DOMAIN a : i < j => a[i] < a[j]
Above(m, s) == \A j \in DOMAIN m.at : s < m.at[j]
Below(m, n) == \A i \in DOMAIN m.at, j \in DOMAIN n.at : m.at[i] < n.at[j]
Sequenced(f) ==
  /\ \A p \in DOMAIN f : Rising(f[p].at)
  /\ \A p, q \in DOMAIN f : p < q => Below(f[p], f[q])

\* What pairing keeps in order: messages of one role, and turns.
Comparable(m, n) == m.role = n.role \/ "assistant" \in {m.role, n.role}
InOrder(f) == \A p, q \in DOMAIN f : p < q /\ Comparable(f[p], f[q]) => Below(f[p], f[q])
Distinct(f) ==
  \A p, q \in DOMAIN f : \A i \in DOMAIN f[p].at, j \in DOMAIN f[q].at :
    f[p].at[i] = f[q].at[j] => p = q /\ i = j
Before(f, g) == \A p \in DOMAIN f, q \in DOMAIN g : Comparable(f[p], g[q]) => Below(f[p], g[q])
Apart(f, g) == \A s : ~ (Has(f, s) /\ Has(g, s))

\* a is f with m behind it; c is f with g behind it.
Longer(a, f, m) ==
  /\ a \in Seq(Messages) /\ f \in Seq(Messages) /\ m \in Messages
  /\ Len(f) \in Nat /\ DOMAIN f = 1..Len(f) /\ DOMAIN a = 1..(Len(f) + 1)
  /\ \A p \in 1..Len(f) : a[p] = f[p]
  /\ a[Len(f) + 1] = m
Joined(c, f, g) ==
  /\ c \in Seq(Messages) /\ f \in Seq(Messages) /\ g \in Seq(Messages)
  /\ Len(f) \in Nat /\ Len(g) \in Nat /\ DOMAIN f = 1..Len(f) /\ DOMAIN g = 1..Len(g)
  /\ DOMAIN c = 1..(Len(f) + Len(g))
  /\ \A p \in 1..Len(f) : c[p] = f[p]
  /\ \A q \in 1..Len(g) : c[Len(f) + q] = g[q]

LEMMA AppendLonger ==
  ASSUME NEW f \in Seq(Messages), NEW m \in Messages
  PROVE  Longer(Append(f, m), f, m) /\ Len(Append(f, m)) = Len(f) + 1
<1>1. /\ Append(f, m) \in Seq(Messages) /\ Len(Append(f, m)) = Len(f) + 1
      /\ \A p \in 1..Len(f) : Append(f, m)[p] = f[p]
      /\ Append(f, m)[Len(f) + 1] = m
  BY AppendProperties
<1>2. Len(f) \in Nat /\ DOMAIN f = 1..Len(f) /\ DOMAIN Append(f, m) = 1..(Len(f) + 1)
  BY <1>1, LenProperties
<1>3. QED
  BY <1>1, <1>2 DEF Longer

LEMMA ConcatJoined ==
  ASSUME NEW f \in Seq(Messages), NEW g \in Seq(Messages)
  PROVE  Joined(f \o g, f, g)
<1>1. /\ f \o g \in Seq(Messages) /\ Len(f \o g) = Len(f) + Len(g)
      /\ \A i \in 1..Len(f) + Len(g) :
           (f \o g)[i] = IF i <= Len(f) THEN f[i] ELSE g[i - Len(f)]
  BY ConcatProperties
<1> DEFINE c == f \o g
<1>2. /\ Len(f) \in Nat /\ Len(g) \in Nat /\ DOMAIN f = 1..Len(f) /\ DOMAIN g = 1..Len(g)
      /\ DOMAIN c = 1..(Len(f) + Len(g))
  BY <1>1, LenProperties
<1>3. c \in Seq(Messages)
      /\ \A i \in 1..Len(f) + Len(g) : c[i] = IF i <= Len(f) THEN f[i] ELSE g[i - Len(f)]
  BY <1>1
<1> HIDE DEF c
<1>4. \A p \in 1..Len(f) : c[p] = f[p]
  BY <1>2, <1>3
<1>5. ASSUME NEW q \in 1..Len(g) PROVE c[Len(f) + q] = g[q]
  <2>1. Len(f) + q \in 1..Len(f) + Len(g) /\ ~ (Len(f) + q <= Len(f)) /\ Len(f) + q - Len(f) = q
    BY <1>2
  <2>2. QED
    BY <1>3, <2>1
<1>6. Joined(c, f, g)
  BY <1>2, <1>3, <1>4, <1>5 DEF Joined
<1>7. QED
  BY <1>6 DEF c

LEMMA MessageAt ==
  ASSUME NEW m \in Messages
  PROVE  m.at \in Seq(Nat) /\ DOMAIN m.at \subseteq Nat /\ \A i \in DOMAIN m.at : m.at[i] \in Nat
<1>1. m.at \in Seq(Nat)
  BY DEF Messages
<1>2. Len(m.at) \in Nat /\ DOMAIN m.at = 1..Len(m.at)
  BY <1>1, LenProperties
<1>3. QED
  BY <1>1, <1>2

LEMMA PlacesNat ==
  ASSUME NEW f \in Seq(Messages)
  PROVE  /\ \A p \in DOMAIN f : f[p] \in Messages
         /\ \A s : Has(f, s) => s \in Nat
<1>1. \A p \in DOMAIN f : f[p] \in Messages
  OBVIOUS
<1>2. QED
  BY <1>1, MessageAt DEF Has, Holds

LEMMA LongerHas ==
  ASSUME NEW a, NEW f, NEW m, Longer(a, f, m)
  PROVE  \A s : Has(a, s) <=> Has(f, s) \/ Holds(m, s)
BY DEF Longer, Has

\* A message whose places come after all others keeps a list in order.
LEMMA LongerInOrder ==
  ASSUME NEW a, NEW f, NEW m, Longer(a, f, m), Rising(m.at),
         \A s : Has(f, s) => Above(m, s)
  PROVE  /\ Sequenced(f) => Sequenced(a)
         /\ InOrder(f) => InOrder(a)
         /\ Distinct(f) => Distinct(a)
<1>1. /\ Len(f) \in Nat /\ DOMAIN f = 1..Len(f) /\ DOMAIN a = 1..(Len(f) + 1)
      /\ \A p \in DOMAIN f : a[p] = f[p]
      /\ a[Len(f) + 1] = m
      /\ m \in Messages /\ f \in Seq(Messages)
  BY DEF Longer
<1>2. ASSUME NEW p \in DOMAIN f PROVE Below(f[p], m)
  <2>1. \A i \in DOMAIN f[p].at : Has(f, f[p].at[i])
    BY DEF Has, Holds
  <2>2. QED
    BY <2>1 DEF Below, Above
<1>3. ASSUME NEW p \in DOMAIN a, NEW q \in DOMAIN a, p < q
      PROVE  p \in DOMAIN f /\ (q \in DOMAIN f \/ q = Len(f) + 1)
  BY <1>1, <1>3
<1>4. Sequenced(f) => Sequenced(a)
  BY <1>1, <1>2, <1>3 DEF Sequenced
<1>5. InOrder(f) => InOrder(a)
  BY <1>1, <1>2, <1>3 DEF InOrder
<1>6. ASSUME Distinct(f), NEW p \in DOMAIN a, NEW q \in DOMAIN a,
             NEW i \in DOMAIN a[p].at, NEW j \in DOMAIN a[q].at, a[p].at[i] = a[q].at[j]
      PROVE  p = q /\ i = j
  <2>1. \A r \in DOMAIN f : f[r] \in Messages
    BY <1>1
  <2>2. CASE p \in DOMAIN f /\ q \in DOMAIN f
    BY <1>1, <1>6, <2>2 DEF Distinct
  <2>3. CASE p \in DOMAIN f /\ q = Len(f) + 1
    <3>1. f[p].at[i] < m.at[j] /\ f[p].at[i] = m.at[j] /\ m.at[j] \in Nat
      BY <1>1, <1>2, <1>6, <2>3, MessageAt DEF Below
    <3>2. QED
      BY <3>1
  <2>4. CASE p = Len(f) + 1 /\ q \in DOMAIN f
    <3>1. f[q].at[j] < m.at[i] /\ f[q].at[j] = m.at[i] /\ m.at[i] \in Nat
      BY <1>1, <1>2, <1>6, <2>4, MessageAt DEF Below
    <3>2. QED
      BY <3>1
  <2>5. CASE p = Len(f) + 1 /\ q = Len(f) + 1
    <3>1. i \in Nat /\ j \in Nat /\ m.at[i] = m.at[j] /\ m.at[i] \in Nat
          /\ i \in DOMAIN m.at /\ j \in DOMAIN m.at
      BY <1>1, <1>6, <2>5, MessageAt
    <3>2. ~ (i < j) /\ ~ (j < i)
      BY <3>1 DEF Rising
    <3>3. QED
      BY <2>5, <3>1, <3>2
  <2>6. QED
    BY <1>1, <2>2, <2>3, <2>4, <2>5
<1>7. Distinct(f) => Distinct(a)
  BY <1>6 DEF Distinct
<1>8. QED
  BY <1>4, <1>5, <1>7

LEMMA JoinedInOrder ==
  ASSUME NEW c, NEW f, NEW g, Joined(c, f, g)
  PROVE  /\ \A s : Has(c, s) <=> Has(f, s) \/ Has(g, s)
         /\ InOrder(f) /\ InOrder(g) /\ Before(f, g) => InOrder(c)
         /\ Distinct(f) /\ Distinct(g) /\ Apart(f, g) => Distinct(c)
         /\ InOrder(c) => InOrder(f)
<1>1. /\ Len(f) \in Nat /\ Len(g) \in Nat /\ DOMAIN f = 1..Len(f) /\ DOMAIN g = 1..Len(g)
      /\ DOMAIN c = 1..(Len(f) + Len(g))
      /\ \A p \in DOMAIN f : p \in DOMAIN c /\ c[p] = f[p]
      /\ \A q \in DOMAIN g : Len(f) + q \in DOMAIN c /\ c[Len(f) + q] = g[q]
  BY DEF Joined
<1>2. ASSUME NEW p \in DOMAIN c
      PROVE  p \in DOMAIN f \/ \E q \in DOMAIN g : p = Len(f) + q
  <2>1. p \notin DOMAIN f => p - Len(f) \in DOMAIN g /\ p = Len(f) + (p - Len(f))
    BY <1>1
  <2>2. QED
    BY <2>1
<1>3. ASSUME NEW s PROVE Has(c, s) <=> Has(f, s) \/ Has(g, s)
  BY <1>1, <1>2 DEF Has
<1>4. ASSUME InOrder(f), InOrder(g), Before(f, g),
             NEW p \in DOMAIN c, NEW q \in DOMAIN c, p < q, Comparable(c[p], c[q])
      PROVE  Below(c[p], c[q])
  <2>1. CASE p \in DOMAIN f /\ q \in DOMAIN f
    BY <1>1, <1>4, <2>1 DEF InOrder
  <2>2. ASSUME p \in DOMAIN f, NEW r \in DOMAIN g, q = Len(f) + r PROVE Below(c[p], c[q])
    BY <1>1, <1>4, <2>2 DEF Before
  <2>3. ASSUME NEW l \in DOMAIN g, NEW r \in DOMAIN g, p = Len(f) + l, q = Len(f) + r
        PROVE  Below(c[p], c[q])
    <3>1. l < r
      BY <1>1, <1>4, <2>3
    <3>2. QED
      BY <1>1, <1>4, <2>3, <3>1 DEF InOrder
  <2>4. ASSUME NEW l \in DOMAIN g, p = Len(f) + l, q \in DOMAIN f PROVE FALSE
    BY <1>1, <1>4, <2>4
  <2>5. QED
    BY <1>2, <2>1, <2>2, <2>3, <2>4
<1>5. ASSUME Distinct(f), Distinct(g), Apart(f, g),
             NEW p \in DOMAIN c, NEW q \in DOMAIN c,
             NEW i \in DOMAIN c[p].at, NEW j \in DOMAIN c[q].at, c[p].at[i] = c[q].at[j]
      PROVE  p = q /\ i = j
  <2>1. CASE p \in DOMAIN f /\ q \in DOMAIN f
    BY <1>1, <1>5, <2>1 DEF Distinct
  <2>2. ASSUME p \in DOMAIN f, NEW r \in DOMAIN g, q = Len(f) + r PROVE FALSE
    <3>1. Has(f, c[p].at[i]) /\ Has(g, c[p].at[i])
      BY <1>1, <1>5, <2>2 DEF Has, Holds
    <3>2. QED
      BY <1>5, <3>1 DEF Apart
  <2>3. ASSUME NEW l \in DOMAIN g, NEW r \in DOMAIN g, p = Len(f) + l, q = Len(f) + r
        PROVE  p = q /\ i = j
    BY <1>1, <1>5, <2>3 DEF Distinct
  <2>4. ASSUME NEW l \in DOMAIN g, p = Len(f) + l, q \in DOMAIN f PROVE FALSE
    <3>1. Has(f, c[p].at[i]) /\ Has(g, c[p].at[i])
      BY <1>1, <1>5, <2>4 DEF Has, Holds
    <3>2. QED
      BY <1>5, <3>1 DEF Apart
  <2>5. QED
    BY <1>2, <2>1, <2>2, <2>3, <2>4
<1>6. InOrder(c) => InOrder(f)
  BY <1>1 DEF InOrder
<1>7. QED
  BY <1>3, <1>4, <1>5, <1>6 DEF InOrder, Distinct

-----------------------------------------------------------------------------
(* The first pass keeps everything in order. *)

\* The places whose content is for the provider.
Kept(s) ==
  /\ s \in DOMAIN transcript
  /\ transcript[s].kind = "assistant" => transcript[s].content # <<>>
Batched(s) == \E i \in DOMAIN batch : batch[i] = s

FirstInv ==
  /\ Sequenced(messages) /\ Rising(batch)
  /\ \A s : Has(messages, s) => \A i \in DOMAIN batch : s < batch[i]
  /\ \A s : Kept(s) <=> Has(messages, s) \/ Batched(s)

LEMMA TranscriptGrows ==
  ASSUME TypeOK, NEW item \in Items, transcript' = Append(transcript, item)
  PROVE  /\ \A s : Kept(s)' <=>
              Kept(s) \/ (s = Here /\ (item.kind = "assistant" => item.content # <<>>))
         /\ \A s : Kept(s) => s \in Nat /\ s < Here
         /\ DOMAIN transcript' = DOMAIN transcript \cup {Here} /\ transcript'[Here] = item
         /\ Here \notin DOMAIN transcript
         /\ \A s \in DOMAIN transcript : transcript'[s] = transcript[s]
<1>1. transcript \in Seq(Items)
  BY DEF TypeOK
<1>2. /\ Len(transcript) \in Nat /\ DOMAIN transcript = 1..Len(transcript)
      /\ Append(transcript, item) \in Seq(Items)
      /\ Len(Append(transcript, item)) = Len(transcript) + 1
      /\ \A s \in 1..Len(transcript) : Append(transcript, item)[s] = transcript[s]
      /\ Append(transcript, item)[Len(transcript) + 1] = item
  BY <1>1, AppendProperties, LenProperties
<1>3. DOMAIN transcript' = 1..(Len(transcript) + 1)
  BY <1>2, LenProperties
<1>4. /\ DOMAIN transcript' = DOMAIN transcript \cup {Here} /\ transcript'[Here] = item
      /\ Here \notin DOMAIN transcript
      /\ \A s \in DOMAIN transcript : transcript'[s] = transcript[s] /\ s \in Nat /\ s < Here
  BY <1>2, <1>3 DEF Here
<1>5. QED
  BY <1>4 DEF Kept

LEMMA OnePlace ==
  ASSUME NEW m, NEW s, m.at = <<s>>
  PROVE  /\ Rising(m.at)
         /\ \A u : Holds(m, u) <=> u = s
         /\ \A u : Above(m, u) <=> u < s
<1>1. DOMAIN m.at = {1} /\ m.at[1] = s
  OBVIOUS
<1>2. QED
  BY <1>1 DEF Rising, Holds, Above

LEMMA FlushedInOrder ==
  ASSUME TypeOK, FirstInv
  PROVE  Sequenced(Flushed) /\ \A s : Has(Flushed, s) <=> Kept(s)
<1>1. CASE batch = <<>>
  <2>1. Flushed = messages /\ \A s : ~ Batched(s)
    BY <1>1 DEF Flushed, Batched
  <2>2. QED
    BY <2>1 DEF FirstInv
<1>2. CASE batch # <<>>
  <2> DEFINE m == User(batch)
  <2>1. Flushed = Append(messages, m) /\ m \in Messages /\ m.at = batch
        /\ messages \in Seq(Messages)
    BY <1>2, NewMessages DEF Flushed, User, TypeOK
  <2>2. Longer(Flushed, messages, m)
    BY <2>1, AppendLonger
  <2>3. \A s : Has(messages, s) => Above(m, s)
    BY <2>1 DEF FirstInv, Above
  <2>4. \A s : Holds(m, s) <=> Batched(s)
    BY <2>1 DEF Holds, Batched
  <2> HIDE DEF m
  <2>5. Sequenced(Flushed)
    BY <2>1, <2>2, <2>3, LongerInOrder DEF FirstInv
  <2>6. QED
    BY <2>2, <2>4, <2>5, LongerHas DEF FirstInv
<1>3. QED
  BY <1>1, <1>2

LEMMA AssistantInOrder ==
  ASSUME TypeOK, FirstInv, ReadAssistant
  PROVE  FirstInv'
<1>1. PICK content \in AssistantContents :
        /\ transcript' = Append(transcript, [kind |-> "assistant", content |-> content])
        /\ messages' = IF content = <<>> THEN messages ELSE Append(messages, Turn(content))
  BY Zenon DEF ReadAssistant, Turn
<1> DEFINE item == [kind |-> "assistant", content |-> content]
<1>2. /\ item \in Items /\ Turn(content) \in Messages /\ messages \in Seq(Messages)
      /\ Turn(content).at = <<Here>> /\ batch = <<>> /\ batch' = <<>>
      /\ item.kind = "assistant" /\ item.content = content
  BY InputsAssumption, NewMessages DEF Items, TypeOK, Turn, ReadAssistant
<1>3. /\ \A s : Kept(s)' <=> Kept(s) \/ (s = Here /\ content # <<>>)
      /\ \A s : Kept(s) => s \in Nat /\ s < Here
  BY <1>1, <1>2, TranscriptGrows
<1>4. \A s : ~ Batched(s) /\ ~ Batched(s)'
  BY <1>2 DEF Batched
<1>5. Rising(batch') /\ \A s : \A i \in DOMAIN batch' : s < batch'[i]
  BY <1>2 DEF Rising
<1>6. CASE content = <<>>
  BY <1>1, <1>3, <1>4, <1>5, <1>6 DEF FirstInv
<1>7. CASE content # <<>>
  <2>1. Longer(messages', messages, Turn(content))
    BY <1>1, <1>2, <1>7, AppendLonger
  <2>2. /\ Rising(Turn(content).at)
        /\ \A u : Holds(Turn(content), u) <=> u = Here
        /\ \A u : Above(Turn(content), u) <=> u < Here
    BY <1>2, OnePlace
  <2>3. \A s : Has(messages, s) => Above(Turn(content), s)
    BY <1>3, <2>2 DEF FirstInv
  <2>4. Sequenced(messages')
    BY <2>1, <2>2, <2>3, LongerInOrder DEF FirstInv
  <2>5. \A s : Has(messages', s) <=> Has(messages, s) \/ s = Here
    BY <2>1, <2>2, LongerHas
  <2>6. QED
    BY <1>3, <1>4, <1>5, <1>7, <2>4, <2>5 DEF FirstInv
<1>8. QED
  BY <1>6, <1>7

LEMMA UserInOrder ==
  ASSUME TypeOK, FirstInv, UserText \/ UserResult \/ EndUser
  PROVE  FirstInv'
<1>1. CASE UserText
  <2> DEFINE item == [kind |-> "text"]
  <2>1. /\ transcript' = Append(transcript, item) /\ item \in Items
        /\ item.kind # "assistant" /\ batch \in Seq(Nat) /\ Here \in Nat
        /\ batch' = Append(batch, Here) /\ messages' = messages
    BY <1>1, NewMessages DEF UserText, Items, TypeOK
  <2>2. /\ \A s : Kept(s)' <=> Kept(s) \/ s = Here
        /\ \A s : Kept(s) => s \in Nat /\ s < Here
    BY <2>1, TranscriptGrows
  <2>3. /\ Len(batch) \in Nat /\ DOMAIN batch = 1..Len(batch)
        /\ DOMAIN Append(batch, Here) = 1..(Len(batch) + 1)
        /\ \A i \in 1..Len(batch) : Append(batch, Here)[i] = batch[i]
        /\ Append(batch, Here)[Len(batch) + 1] = Here
    BY <2>1, AppendProperties, LenProperties
  <2>4. /\ DOMAIN batch \subseteq Nat
        /\ \A i \in DOMAIN batch' :
             (i \in DOMAIN batch /\ batch'[i] = batch[i]) \/ (i = Len(batch) + 1 /\ batch'[i] = Here)
        /\ \A i \in DOMAIN batch : i \in DOMAIN batch' /\ batch'[i] = batch[i] /\ i < Len(batch) + 1
        /\ Len(batch) + 1 \in DOMAIN batch' /\ batch'[Len(batch) + 1] = Here
    BY <2>1, <2>3
  <2>5. \A s : Batched(s)' <=> Batched(s) \/ s = Here
    BY <2>4 DEF Batched
  <2>6. \A i \in DOMAIN batch : batch[i] < Here
    BY <2>2 DEF FirstInv, Batched
  <2>7. Rising(batch)'
    BY <2>3, <2>4, <2>6 DEF FirstInv, Rising
  <2>8. \A s : Has(messages, s) => \A i \in DOMAIN batch' : s < batch'[i]
    BY <2>2, <2>4 DEF FirstInv
  <2>9. QED
    BY <2>1, <2>2, <2>5, <2>7, <2>8 DEF FirstInv
<1>2. CASE UserResult
  <2>1. PICK s \in UserResults :
          /\ transcript' = Append(transcript, [kind |-> "result", id |-> s.x])
          /\ messages' = Append(Flushed, ResultMessage(DecodeToolId(s.wire)))
    BY <1>2 DEF UserResult
  <2> DEFINE item == [kind |-> "result", id |-> s.x]
             m == ResultMessage(DecodeToolId(s.wire))
  <2>2. /\ item \in Items /\ item.kind # "assistant" /\ m \in Messages /\ m.at = <<Here>>
        /\ Flushed \in Seq(Messages) /\ batch' = <<>>
    BY <1>2, InputsAssumption, StoredIdsDecode, NewMessages DEF Items, ResultMessage, UserResult
  <2>3. /\ \A u : Kept(u)' <=> Kept(u) \/ u = Here
        /\ \A u : Kept(u) => u \in Nat /\ u < Here
    BY <2>1, <2>2, TranscriptGrows
  <2>4. Longer(messages', Flushed, m)
    BY <2>1, <2>2, AppendLonger
  <2>5. /\ Rising(m.at)
        /\ \A u : Holds(m, u) <=> u = Here
        /\ \A u : Above(m, u) <=> u < Here
    BY <2>2, OnePlace
  <2> HIDE DEF m
  <2>6. Sequenced(Flushed) /\ \A u : Has(Flushed, u) <=> Kept(u)
    BY FlushedInOrder
  <2>7. Sequenced(messages')
    BY <2>3, <2>4, <2>5, <2>6, LongerInOrder
  <2>8. \A u : Has(messages', u) <=> Kept(u)'
    BY <2>3, <2>4, <2>5, <2>6, LongerHas
  <2>9. Rising(batch') /\ DOMAIN batch' = {} /\ \A u : ~ Batched(u)'
    BY <2>2 DEF Rising, Batched
  <2>10. QED
    BY <2>7, <2>8, <2>9 DEF FirstInv
<1>3. CASE EndUser
  <2>1. messages' = Flushed /\ batch' = <<>> /\ transcript' = transcript
    BY <1>3 DEF EndUser
  <2>2. Sequenced(Flushed) /\ \A u : Has(Flushed, u) <=> Kept(u)
    BY FlushedInOrder
  <2>3. Rising(batch') /\ DOMAIN batch' = {} /\ \A u : ~ Batched(u)'
    BY <2>1 DEF Rising, Batched
  <2>4. \A u : Kept(u)' <=> Kept(u)
    BY <2>1 DEF Kept
  <2>5. QED
    BY <2>1, <2>2, <2>3, <2>4 DEF FirstInv
<1>4. QED
  BY <1>1, <1>2, <1>3

LEMMA FirstUntouched ==
  ASSUME FirstInv, UNCHANGED firstPass
  PROVE  FirstInv'
BY DEF FirstInv, firstPass, Kept, Batched

-----------------------------------------------------------------------------
(* The second pass loses and repeats nothing. *)

\* What the second pass has put where it stays, calls and their results.
Settled == paired \o results

SecondInv ==
  /\ InOrder(Settled) /\ Distinct(Settled) /\ InOrder(userMessages) /\ Distinct(userMessages)
  /\ Apart(Settled, userMessages) /\ Before(Settled, userMessages)
  /\ \A s : Has(Settled, s) \/ Has(userMessages, s) <=> HasBefore(messages, cursor, s)
  /\ phase = "done" => results = <<>> /\ userMessages = <<>> /\ cursor = Len(messages) + 1

LEMMA SettledIs ==
  ASSUME TypeOK
  PROVE  /\ Settled \in Seq(Messages) /\ Flush \in Seq(Messages)
         /\ Joined(Settled, paired, results) /\ Joined(Flush, Settled, userMessages)
<1>1. Settled \in Seq(Messages) /\ Joined(Settled, paired, results)
  BY ConcatJoined, ConcatProperties DEF TypeOK, Settled
<1>2. Flush = Settled \o userMessages /\ userMessages \in Seq(Messages)
  BY DEF Flush, Settled, TypeOK
<1>3. QED
  BY <1>1, <1>2, ConcatJoined, ConcatProperties

\* Where the places of a list are, another message's are not.
LEMMA AboveIsApart ==
  ASSUME NEW f \in Seq(Messages), NEW m, \A s : Has(f, s) => Above(m, s)
  PROVE  /\ \A s : Has(f, s) => ~ Holds(m, s)
         /\ \A p \in DOMAIN f : Below(f[p], m)
<1>1. \A s : Has(f, s) => s \in Nat
  BY PlacesNat
<1>2. \A s \in Nat : Above(m, s) => ~ Holds(m, s)
  BY DEF Above, Holds
<1>3. \A p \in DOMAIN f : \A i \in DOMAIN f[p].at : Has(f, f[p].at[i])
  BY DEF Has, Holds
<1>4. QED
  BY <1>1, <1>2, <1>3 DEF Below, Above

LEMMA Taken ==
  ASSUME TypeOK, NEW role, Take(role)
  PROVE  /\ messages \in Seq(Messages) /\ cursor \in DOMAIN messages /\ cursor \in Nat
         /\ DOMAIN messages = 1..Len(messages) /\ Len(messages) \in Nat /\ cursor >= 1
         /\ messages[cursor] \in Messages /\ messages[cursor].role = role
         /\ messages' = messages /\ cursor' = cursor + 1 /\ phase = "pair" /\ phase' = "pair"
<1>1. messages \in Seq(Messages) /\ cursor \in DOMAIN messages /\ messages[cursor].role = role
  BY DEF Take, TypeOK
<1>2. Len(messages) \in Nat /\ DOMAIN messages = 1..Len(messages)
  BY <1>1, LenProperties
<1>3. messages' = messages /\ cursor' = cursor + 1 /\ phase = "pair" /\ phase' = "pair"
  BY DEF Take, firstPass
<1>4. QED
  BY <1>1, <1>2, <1>3

\* The message taken comes after everything taken before it.
LEMMA TakenComesNext ==
  ASSUME TypeOK, FirstInv, NEW role, Take(role)
  PROVE  /\ messages[cursor] \in Messages /\ messages[cursor].role = role
         /\ Rising(messages[cursor].at)
         /\ \A s : HasBefore(messages, cursor, s) => Above(messages[cursor], s)
         /\ \A s : HasBefore(messages, cursor, s)' <=>
              HasBefore(messages, cursor, s) \/ Holds(messages[cursor], s)
         /\ phase = "pair" /\ phase' = "pair"
<1>1. /\ messages \in Seq(Messages) /\ cursor \in DOMAIN messages /\ cursor \in Nat
      /\ DOMAIN messages \subseteq Nat /\ messages' = messages /\ cursor' = cursor + 1
      /\ phase = "pair" /\ phase' = "pair" /\ messages[cursor].role = role
  BY Taken
<1>2. \A p \in DOMAIN messages : p < cursor + 1 <=> p < cursor \/ p = cursor
  BY <1>1
<1>3. \A s : HasBefore(messages, cursor, s)' <=>
        HasBefore(messages, cursor, s) \/ Holds(messages[cursor], s)
  BY <1>1, <1>2 DEF HasBefore
<1>4. ASSUME NEW s, HasBefore(messages, cursor, s) PROVE Above(messages[cursor], s)
  <2>1. PICK p \in DOMAIN messages : p < cursor /\ Holds(messages[p], s)
    BY <1>4 DEF HasBefore
  <2>2. Below(messages[p], messages[cursor])
    BY <1>1, <2>1 DEF FirstInv, Sequenced
  <2>3. QED
    BY <2>1, <2>2 DEF Below, Holds, Above
<1>5. QED
  BY <1>1, <1>3, <1>4 DEF FirstInv, Sequenced

LEMMA NothingYet == TypeOK /\ Untouched /\ phase # "done" => SecondInv
<1> SUFFICES ASSUME TypeOK, Untouched, phase # "done" PROVE SecondInv
  OBVIOUS
<1>1. Settled = <<>> /\ userMessages = <<>> /\ cursor = 1
  BY ConcatEmptySeq DEF Settled, Untouched, TypeOK
<1>2. messages \in Seq(Messages) /\ \A p \in DOMAIN messages : ~ (p < 1)
  BY DEF TypeOK
<1>3. QED
  BY <1>1, <1>2 DEF SecondInv, InOrder, Distinct, Apart, Before, Has, HasBefore

LEMMA TurnInOrder ==
  ASSUME TypeOK, FirstInv, SecondInv, PairAssistant
  PROVE  SecondInv'
<1> DEFINE m == messages[cursor]
<1>1. /\ m \in Messages /\ Rising(m.at)
      /\ \A s : HasBefore(messages, cursor, s) => Above(m, s)
      /\ \A s : HasBefore(messages, cursor, s)' <=> HasBefore(messages, cursor, s) \/ Holds(m, s)
      /\ phase' = "pair"
  BY TakenComesNext DEF PairAssistant
<1>2. /\ Settled \in Seq(Messages) /\ Flush \in Seq(Messages) /\ Joined(Flush, Settled, userMessages)
  BY SettledIs
<1>3. paired' = Append(Flush, m) /\ results' = <<>> /\ userMessages' = <<>>
  BY DEF PairAssistant
<1>4. Settled' = Append(Flush, m)
  <2>1. Append(Flush, m) \in Seq(Messages)
    BY <1>1, <1>2, AppendProperties
  <2>2. QED
    BY <1>3, <2>1, ConcatEmptySeq DEF Settled
<1> HIDE DEF m
<1>5. Longer(Settled', Flush, m)
  BY <1>1, <1>2, <1>4, AppendLonger
<1>6. /\ \A s : Has(Flush, s) <=> Has(Settled, s) \/ Has(userMessages, s)
      /\ InOrder(Flush) /\ Distinct(Flush)
  BY <1>2, JoinedInOrder DEF SecondInv
<1>7. \A s : Has(Flush, s) <=> HasBefore(messages, cursor, s)
  BY <1>6 DEF SecondInv
<1>8. InOrder(Settled') /\ Distinct(Settled')
  BY <1>1, <1>5, <1>6, <1>7, LongerInOrder
<1>9. \A s : Has(Settled', s) <=> HasBefore(messages, cursor, s)'
  BY <1>1, <1>5, <1>7, LongerHas
<1>10. /\ InOrder(userMessages') /\ Distinct(userMessages') /\ \A s : ~ Has(userMessages', s)
       /\ Before(Settled', userMessages')
  BY <1>3 DEF InOrder, Distinct, Has, Before
<1>11. QED
  BY <1>1, <1>8, <1>9, <1>10 DEF SecondInv, Apart

LEMMA ResultInOrder ==
  ASSUME PairingInv, FirstInv, SecondInv, PairResult
  PROVE  SecondInv'
<1> DEFINE m == messages[cursor]
<1>0. TypeOK /\ phase = "pair" /\ Gathered
  BY DEF PairingInv, PairResult, Take
<1>1. /\ m \in Messages /\ Rising(m.at) /\ m.role = "toolResult"
      /\ \A s : HasBefore(messages, cursor, s) => Above(m, s)
      /\ \A s : HasBefore(messages, cursor, s)' <=> HasBefore(messages, cursor, s) \/ Holds(m, s)
      /\ phase' = "pair"
  BY <1>0, TakenComesNext DEF PairResult
<1>2. /\ Settled \in Seq(Messages) /\ paired \in Seq(Messages) /\ results \in Seq(Messages)
      /\ userMessages \in Seq(Messages)
  BY <1>0, SettledIs DEF TypeOK
<1>3. results' = Append(results, m) /\ paired' = paired /\ userMessages' = userMessages
  BY DEF PairResult
<1>4. Settled' = Append(Settled, m)
  <2>1. <<m>> \in Seq(Messages) /\ results' = results \o <<m>>
    BY <1>1, <1>2, <1>3, AppendIsConcat
  <2>2. Settled' = (paired \o results) \o <<m>>
    BY <1>2, <1>3, <2>1, ConcatAssociative DEF Settled
  <2>3. Append(Settled, m) = Settled \o <<m>>
    BY <1>1, <1>2, AppendIsConcat
  <2>4. QED
    BY <2>2, <2>3 DEF Settled
<1> HIDE DEF m
<1>5. Longer(Settled', Settled, m)
  BY <1>1, <1>2, <1>4, AppendLonger
<1>6. \A s : Has(Settled, s) \/ Has(userMessages, s) => Above(m, s)
  BY <1>1 DEF SecondInv
<1>7. InOrder(Settled') /\ Distinct(Settled')
  BY <1>1, <1>5, <1>6, LongerInOrder DEF SecondInv
<1>8. \A s : Has(Settled', s) <=> Has(Settled, s) \/ Holds(m, s)
  BY <1>5, LongerHas
<1>9. Apart(Settled', userMessages')
  <2>1. \A s : Has(userMessages, s) => ~ Holds(m, s)
    BY <1>2, <1>6, AboveIsApart
  <2>2. QED
    BY <1>3, <1>8, <2>1 DEF SecondInv, Apart
<1>10. Before(Settled', userMessages')
  <2>1. \A q \in DOMAIN userMessages : ~ Comparable(m, userMessages[q])
    BY <1>0, <1>1 DEF Gathered, Comparable
  <2>2. QED
    BY <1>3, <1>5, <2>1 DEF Longer, SecondInv, Before
<1>11. QED
  BY <1>1, <1>3, <1>7, <1>8, <1>9, <1>10 DEF SecondInv

\* Text, a user's or what an unmatched result becomes, at the end of the turn.
LEMMA TextInOrder ==
  ASSUME TypeOK, FirstInv, SecondInv, SetAside \/ PairUser
  PROVE  SecondInv'
<1>1. PICK role : Take(role) /\ UNCHANGED <<paired, results>>
  BY DEF SetAside, PairUser
<1>2. /\ messages[cursor] \in Messages /\ Rising(messages[cursor].at)
      /\ \A s : HasBefore(messages, cursor, s) => Above(messages[cursor], s)
      /\ \A s : HasBefore(messages, cursor, s)' <=>
           HasBefore(messages, cursor, s) \/ Holds(messages[cursor], s)
      /\ phase' = "pair"
  BY <1>1, TakenComesNext
<1>3. PICK m \in Messages :
        m.at = messages[cursor].at /\ userMessages' = Append(userMessages, m)
  <2>1. CASE SetAside
    <3>1. messages[cursor].at \in Seq(Nat)
      BY <1>2, MessageAt
    <3>2. User(messages[cursor].at) \in Messages
          /\ User(messages[cursor].at).at = messages[cursor].at
      BY <3>1, NewMessages DEF User
    <3>3. QED
      BY <2>1, <3>2 DEF SetAside
  <2>2. CASE PairUser
    BY <1>2, <2>2 DEF PairUser
  <2>3. QED
    BY <2>1, <2>2
<1>4. /\ Rising(m.at)
      /\ \A s : HasBefore(messages, cursor, s) => Above(m, s)
      /\ \A s : HasBefore(messages, cursor, s)' <=> HasBefore(messages, cursor, s) \/ Holds(m, s)
  BY <1>2, <1>3 DEF Above, Holds
<1>5. Settled \in Seq(Messages) /\ userMessages \in Seq(Messages) /\ Settled' = Settled
  BY <1>1, SettledIs DEF TypeOK, Settled
<1>6. Longer(userMessages', userMessages, m)
  BY <1>3, <1>5, AppendLonger
<1>7. \A s : Has(Settled, s) \/ Has(userMessages, s) => Above(m, s)
  BY <1>4 DEF SecondInv
<1>8. InOrder(userMessages') /\ Distinct(userMessages')
  BY <1>4, <1>6, <1>7, LongerInOrder DEF SecondInv
<1>9. \A s : Has(userMessages', s) <=> Has(userMessages, s) \/ Holds(m, s)
  BY <1>6, LongerHas
<1>10. (\A s : Has(Settled, s) => ~ Holds(m, s)) /\ \A p \in DOMAIN Settled : Below(Settled[p], m)
  BY <1>5, <1>7, AboveIsApart
<1>11. Apart(Settled, userMessages')
  BY <1>9, <1>10 DEF SecondInv, Apart
<1>12. Before(Settled, userMessages')
  BY <1>6, <1>10 DEF Longer, SecondInv, Before
<1>13. \A s : Has(Settled, s) \/ Has(userMessages', s) <=> HasBefore(messages, cursor, s)'
  BY <1>4, <1>9 DEF SecondInv
<1>14. QED
  BY <1>2, <1>5, <1>8, <1>11, <1>12, <1>13 DEF SecondInv

LEMMA FinishInOrder ==
  ASSUME TypeOK, SecondInv, Finish
  PROVE  SecondInv'
<1>1. /\ Settled \in Seq(Messages) /\ Flush \in Seq(Messages) /\ Joined(Flush, Settled, userMessages)
  BY SettledIs
<1>2. /\ InOrder(Flush) /\ Distinct(Flush)
      /\ \A s : Has(Flush, s) <=> Has(Settled, s) \/ Has(userMessages, s)
  BY <1>1, JoinedInOrder DEF SecondInv
<1>3. /\ paired' = Flush /\ results' = <<>> /\ userMessages' = <<>> /\ messages' = messages
      /\ cursor' = cursor /\ cursor = Len(messages) + 1
  BY DEF Finish, firstPass
<1>4. Settled' = Flush
  BY <1>1, <1>3, ConcatEmptySeq DEF Settled
<1>5. /\ InOrder(userMessages') /\ Distinct(userMessages') /\ \A s : ~ Has(userMessages', s)
      /\ Before(Settled', userMessages')
  BY <1>3 DEF InOrder, Distinct, Has, Before
<1>6. \A s : HasBefore(messages, cursor, s)' <=> HasBefore(messages, cursor, s)
  BY <1>3
<1>7. QED
  BY <1>2, <1>3, <1>4, <1>5, <1>6 DEF SecondInv, Apart

LEMMA OrderStep ==
  ASSUME PairingInv, FirstInv, SecondInv, PairingInv', [TurnsNext]_turnsVars
  PROVE  FirstInv' /\ SecondInv'
<1>0. TypeOK /\ TypeOK'
  BY DEF PairingInv
<1>1. CASE ReadAssistant \/ UserText \/ UserResult \/ EndUser
  <2>1. phase' = "read"
    BY <1>1 DEF ReadAssistant, UserText, UserResult, EndUser, Reading
  <2>2. (TypeOK /\ Untouched /\ phase # "done" => SecondInv)'
    BY NothingYet, PTL
  <2>3. Untouched'
    BY <2>1 DEF PairingInv
  <2>4. FirstInv'
    BY <1>0, <1>1, AssistantInOrder, UserInOrder
  <2>5. QED
    BY <1>0, <2>1, <2>2, <2>3, <2>4
<1>2. CASE EndOfInput
  <2>1. phase' = "pair" /\ UNCHANGED <<firstPass, secondPass>>
    BY <1>2 DEF EndOfInput
  <2>2. QED
    BY <2>1, FirstUntouched DEF SecondInv, Settled, firstPass, secondPass
<1>3. CASE PairAssistant \/ PairResult \/ SetAside \/ PairUser \/ Finish
  <2>1. UNCHANGED firstPass
    BY <1>3 DEF PairAssistant, PairResult, SetAside, PairUser, Take, Finish
  <2>2. QED
    BY <1>0, <1>3, <2>1, FirstUntouched, TurnInOrder, ResultInOrder, TextInOrder, FinishInOrder
<1>4. CASE UNCHANGED turnsVars
  <2>1. UNCHANGED <<firstPass, phase, secondPass>>
    BY <1>4 DEF turnsVars
  <2>2. QED
    BY <2>1, FirstUntouched DEF SecondInv, Settled, firstPass, secondPass
<1>5. QED
  BY <1>1, <1>2, <1>3, <1>4 DEF TurnsNext

OrderInv == PairingInv /\ FirstInv /\ SecondInv

LEMMA OrderInvHolds == TurnsSpec => []OrderInv
<1>1. TurnsInit => OrderInv
  <2> SUFFICES ASSUME TurnsInit PROVE OrderInv
    OBVIOUS
  <2>1. PairingInv
    <3>1. TypeOK
      BY DEF TurnsInit, TypeOK
    <3>2. QED
      BY <3>1 DEF TurnsInit, PairingInv, NamesCurrent, ResultsNamed, Untouched, ResultsFollowCalls
  <2>2. FirstInv
    BY DEF TurnsInit, FirstInv, Sequenced, Rising, Has, Kept, Batched
  <2>3. TypeOK /\ Untouched /\ phase # "done"
    BY <2>1 DEF PairingInv, TurnsInit
  <2>4. QED
    BY <2>1, <2>2, <2>3, NothingYet DEF OrderInv
<1>2. OrderInv /\ [TurnsNext]_turnsVars => OrderInv'
  BY PairingInvStep, OrderStep DEF OrderInv
<1>3. QED
  BY <1>1, <1>2, PTL DEF TurnsSpec

\* When the conversion ends the context has what is kept, and it alone.
LEMMA DoneHas ==
  ASSUME OrderInv, phase = "done"
  PROVE  /\ \A s : Kept(s) <=> Has(paired, s)
         /\ Distinct(paired) /\ paired = Settled
<1>1. TypeOK /\ FirstInv /\ SecondInv /\ batch = <<>>
  BY DEF OrderInv, PairingInv, TypeOK
<1>2. /\ results = <<>> /\ userMessages = <<>> /\ cursor = Len(messages) + 1
      /\ paired \in Seq(Messages) /\ messages \in Seq(Messages)
  BY <1>1 DEF SecondInv, TypeOK
<1>3. paired = Settled
  BY <1>2, ConcatEmptySeq DEF Settled
<1>4. \A s : ~ Has(userMessages, s) /\ ~ Batched(s)
  BY <1>1, <1>2 DEF Has, Batched
<1>5. \A p \in DOMAIN messages : p < cursor
  BY <1>2, LenProperties
<1>6. \A s : HasBefore(messages, cursor, s) <=> Has(messages, s)
  BY <1>5 DEF Has, HasBefore
<1>7. QED
  BY <1>1, <1>3, <1>4, <1>6 DEF FirstInv, SecondInv

LEMMA OneOccurrence ==
  ASSUME Distinct(paired), NEW s
  PROVE  /\ ~ Has(paired, s) => Cardinality(Occurrences(s)) = 0
         /\ Has(paired, s) => Cardinality(Occurrences(s)) = 1
<1>1. CASE ~ Has(paired, s)
  <2>1. \A p \in DOMAIN paired : {j \in DOMAIN paired[p].at : paired[p].at[j] = s} = {}
    BY <1>1 DEF Has, Holds
  <2>2. Occurrences(s) = {}
    BY <2>1 DEF Occurrences
  <2>3. QED
    BY <1>1, <2>2, FS_EmptySet
<1>2. CASE Has(paired, s)
  <2>1. PICK p \in DOMAIN paired : Holds(paired[p], s)
    BY <1>2 DEF Has
  <2>2. PICK i \in DOMAIN paired[p].at : paired[p].at[i] = s
    BY <2>1 DEF Holds
  <2>3. \A q \in DOMAIN paired : \A j \in DOMAIN paired[q].at :
          paired[q].at[j] = s => q = p /\ j = i
    BY <2>2 DEF Distinct
  <2>4. Occurrences(s) \subseteq {<<p, i>>}
    <3> SUFFICES ASSUME NEW o \in Occurrences(s) PROVE o = <<p, i>>
      OBVIOUS
    <3>1. PICK q \in DOMAIN paired :
            o \in {<<q, j>> : j \in {k \in DOMAIN paired[q].at : paired[q].at[k] = s}}
      BY Zenon DEF Occurrences
    <3>2. PICK j \in DOMAIN paired[q].at : paired[q].at[j] = s /\ o = <<q, j>>
      BY <3>1
    <3>3. QED
      BY <2>3, <3>2
  <2>5. <<p, i>> \in Occurrences(s)
    <3>1. <<p, i>> \in {<<p, j>> : j \in {k \in DOMAIN paired[p].at : paired[p].at[k] = s}}
      BY <2>2
    <3>2. QED
      BY <3>1, Zenon DEF Occurrences
  <2>6. Occurrences(s) = {<<p, i>>}
    BY <2>4, <2>5, Zenon
  <2>7. QED
    BY <1>2, <2>6, FS_Singleton
<1>3. QED
  BY <1>1, <1>2

\* Everything in the transcript is in the context, once, and in order up to
\* the results that are moved to their calls, for any transcript.
THEOREM EverythingOnceHolds == TurnsSpec => []EverythingOnce
<1>1. OrderInv => EverythingOnce
  <2> SUFFICES ASSUME OrderInv PROVE EverythingOnce
    OBVIOUS
  <2>1. ASSUME phase = "done", NEW s \in DOMAIN transcript
        PROVE  Cardinality(Occurrences(s)) =
                 IF transcript[s].kind = "assistant" /\ transcript[s].content = <<>> THEN 0 ELSE 1
    <3>1. (Kept(s) <=> Has(paired, s)) /\ Distinct(paired)
      BY <2>1, DoneHas
    <3>2. Kept(s) <=> ~ (transcript[s].kind = "assistant" /\ transcript[s].content = <<>>)
      BY DEF Kept
    <3>3. QED
      BY <3>1, <3>2, OneOccurrence
  <2>2. InOrder(paired)
    <3>1. TypeOK /\ InOrder(Settled)
      BY DEF OrderInv, PairingInv, SecondInv
    <3>2. QED
      BY <3>1, SettledIs, JoinedInOrder
  <2>3. ASSUME NEW p \in DOMAIN paired, NEW q \in DOMAIN paired, p < q,
               \/ paired[p].role = paired[q].role
               \/ "assistant" \in {paired[p].role, paired[q].role}
        PROVE  \A i \in DOMAIN paired[p].at, j \in DOMAIN paired[q].at :
                 paired[p].at[i] < paired[q].at[j]
    BY <2>2, <2>3 DEF InOrder, Comparable, Below
  <2>4. QED
    BY <2>1, <2>3 DEF EverythingOnce
<1>2. QED
  BY <1>1, OrderInvHolds, PTL

-----------------------------------------------------------------------------
(* Exactly the due results are matched. *)

\* m is what the first pass makes of the transcript's content at its places.
CallsOf(content, id) == \E i \in Calls(content) : content[i].id.x = id
FromTranscript(tr, m) ==
  /\ m.role = "assistant" =>
       \E t \in DOMAIN tr :
         /\ m.at = <<t>> /\ tr[t].kind = "assistant" /\ tr[t].content # <<>>
         /\ \A id : (\E c \in m.calls : c.id = id) <=> CallsOf(tr[t].content, id)
  /\ m.role = "toolResult" =>
       \E s \in DOMAIN tr :
         m.at = <<s>> /\ tr[s].kind = "result" /\ m.id = tr[s].id
  /\ m.role = "user" =>
       \A s : Holds(m, s) => s \in DOMAIN tr /\ tr[s].kind = "text"
Sourced ==
  /\ \A p \in DOMAIN messages : FromTranscript(transcript, messages[p])
  /\ \A s : Batched(s) => s \in DOMAIN transcript /\ transcript[s].kind = "text"

Among(f, x) == \E p \in DOMAIN f : f[p] = x

LEMMA LongerAmong ==
  ASSUME NEW a, NEW f, NEW m, Longer(a, f, m)
  PROVE  \A x : Among(a, x) <=> Among(f, x) \/ x = m
BY DEF Longer, Among

LEMMA JoinedAmong ==
  ASSUME NEW c, NEW f, NEW g, Joined(c, f, g)
  PROVE  \A x : Among(c, x) <=> Among(f, x) \/ Among(g, x)
<1>1. /\ Len(f) \in Nat /\ Len(g) \in Nat /\ DOMAIN f = 1..Len(f) /\ DOMAIN g = 1..Len(g)
      /\ DOMAIN c = 1..(Len(f) + Len(g))
      /\ \A p \in DOMAIN f : p \in DOMAIN c /\ c[p] = f[p]
      /\ \A q \in DOMAIN g : Len(f) + q \in DOMAIN c /\ c[Len(f) + q] = g[q]
  BY DEF Joined
<1>2. ASSUME NEW p \in DOMAIN c
      PROVE  p \in DOMAIN f \/ \E q \in DOMAIN g : p = Len(f) + q
  <2>1. p \notin DOMAIN f => p - Len(f) \in DOMAIN g /\ p = Len(f) + (p - Len(f))
    BY <1>1
  <2>2. QED
    BY <2>1
<1>3. QED
  BY <1>1, <1>2 DEF Among

\* What the transcript gains later changes the source of no message.
LEMMA SourceKept ==
  ASSUME TypeOK, NEW item \in Items, transcript' = Append(transcript, item), NEW m
  PROVE  FromTranscript(transcript, m) => FromTranscript(transcript', m)
<1>1. /\ \A s \in DOMAIN transcript : s \in DOMAIN transcript' /\ transcript'[s] = transcript[s]
  BY TranscriptGrows
<1>2. QED
  BY <1>1 DEF FromTranscript

LEMMA FlushedSourced ==
  ASSUME TypeOK, Sourced
  PROVE  \A p \in DOMAIN Flushed : FromTranscript(transcript, Flushed[p])
<1>1. CASE batch = <<>>
  BY <1>1 DEF Flushed, Sourced
<1>2. CASE batch # <<>>
  <2> DEFINE m == User(batch)
  <2>1. Flushed = Append(messages, m) /\ m \in Messages /\ m.at = batch /\ m.role = "user"
        /\ messages \in Seq(Messages)
    BY <1>2, NewMessages DEF Flushed, User, TypeOK
  <2>2. Longer(Flushed, messages, m)
    BY <2>1, AppendLonger
  <2>3. \A s : Holds(m, s) <=> Batched(s)
    BY <2>1 DEF Holds, Batched
  <2> HIDE DEF m
  <2>4. FromTranscript(transcript, m)
    BY <2>1, <2>3 DEF FromTranscript, Sourced
  <2>5. QED
    BY <2>2, <2>4 DEF Longer, Sourced
<1>3. QED
  BY <1>1, <1>2

LEMMA AssistantSourced ==
  ASSUME TypeOK, Sourced, ReadAssistant
  PROVE  Sourced'
<1>1. PICK content \in AssistantContents :
        /\ transcript' = Append(transcript, [kind |-> "assistant", content |-> content])
        /\ messages' = IF content = <<>> THEN messages ELSE Append(messages, Turn(content))
  BY Zenon DEF ReadAssistant, Turn
<1> DEFINE item == [kind |-> "assistant", content |-> content]
           m == Turn(content)
<1>2. /\ item \in Items /\ m \in Messages /\ messages \in Seq(Messages)
      /\ m.at = <<Here>> /\ m.role = "assistant" /\ batch' = <<>>
      /\ item.kind = "assistant" /\ item.content = content
      /\ content \in Seq(AssistantBlocks)
  BY InputsAssumption, NewMessages DEF Items, TypeOK, Turn, ReadAssistant
<1>3. Here \in DOMAIN transcript' /\ transcript'[Here] = item
  BY <1>1, <1>2, TranscriptGrows
<1>4. \A p \in DOMAIN messages : FromTranscript(transcript', messages[p])
  <2>1. ASSUME NEW x, FromTranscript(transcript, x) PROVE FromTranscript(transcript', x)
    BY <1>1, <1>2, <2>1, SourceKept
  <2>2. QED
    BY <2>1 DEF Sourced, FromTranscript
<1>5. \A id : (\E c \in m.calls : c.id = id) <=> CallsOf(content, id)
  <2>1. m.calls = {[id |-> CallId(content[i]), name |-> content[i].name] : i \in Calls(content)}
    BY DEF Turn
  <2>2. \A i \in Calls(content) : CallId(content[i]) = content[i].id.x
    BY <1>2, CallIdIs
  <2> DEFINE call(i) == [id |-> CallId(content[i]), name |-> content[i].name]
  <2>3. m.calls = {call(i) : i \in Calls(content)} /\ \A i \in Calls(content) : call(i).id = content[i].id.x
    BY <2>1, <2>2
  <2> HIDE DEF m, call
  <2>4. QED
    BY <2>3 DEF CallsOf
<1> HIDE DEF m
<1>6. content # <<>> => FromTranscript(transcript', m)
  BY <1>2, <1>3, <1>5 DEF FromTranscript
<1>7. \A p \in DOMAIN messages' : FromTranscript(transcript', messages'[p])
  <2>1. CASE content = <<>>
    BY <1>1, <1>4, <2>1
  <2>2. CASE content # <<>>
    <3>1. Longer(messages', messages, m)
      BY <1>1, <1>2, <2>2, AppendLonger DEF m
    <3>2. QED
      BY <1>4, <1>6, <2>2, <3>1 DEF Longer
  <2>3. QED
    BY <2>1, <2>2
<1>8. \A s : ~ Batched(s)'
  BY <1>2 DEF Batched
<1>9. QED
  BY <1>7, <1>8 DEF Sourced

LEMMA UserSourced ==
  ASSUME TypeOK, Sourced, UserText \/ UserResult \/ EndUser
  PROVE  Sourced'
<1>1. CASE UserText
  <2> DEFINE item == [kind |-> "text"]
  <2>1. /\ transcript' = Append(transcript, item) /\ item \in Items /\ item.kind = "text"
        /\ batch \in Seq(Nat) /\ Here \in Nat /\ batch' = Append(batch, Here) /\ messages' = messages
    BY <1>1, NewMessages DEF UserText, Items, TypeOK
  <2>2. /\ DOMAIN transcript' = DOMAIN transcript \cup {Here} /\ transcript'[Here].kind = "text"
        /\ \A s \in DOMAIN transcript : transcript'[s] = transcript[s]
    BY <2>1, TranscriptGrows
  <2>3. /\ Len(batch) \in Nat /\ DOMAIN batch = 1..Len(batch)
        /\ DOMAIN Append(batch, Here) = 1..(Len(batch) + 1)
        /\ \A i \in 1..Len(batch) : Append(batch, Here)[i] = batch[i]
        /\ Append(batch, Here)[Len(batch) + 1] = Here
    BY <2>1, AppendProperties, LenProperties
  <2>4. \A i \in DOMAIN batch' : (i \in DOMAIN batch /\ batch'[i] = batch[i]) \/ batch'[i] = Here
    BY <2>1, <2>3
  <2>5. \A s : Batched(s)' => Batched(s) \/ s = Here
    BY <2>4 DEF Batched
  <2>6. \A s : Batched(s)' => s \in DOMAIN transcript' /\ transcript'[s].kind = "text"
    BY <2>2, <2>5 DEF Sourced
  <2>7. \A p \in DOMAIN messages : FromTranscript(transcript', messages[p])
    BY <2>1, SourceKept DEF Sourced
  <2>8. QED
    BY <2>1, <2>6, <2>7 DEF Sourced
<1>2. CASE UserResult
  <2>1. PICK s \in UserResults :
          /\ transcript' = Append(transcript, [kind |-> "result", id |-> s.x])
          /\ messages' = Append(Flushed, ResultMessage(DecodeToolId(s.wire)))
    BY <1>2 DEF UserResult
  <2> DEFINE item == [kind |-> "result", id |-> s.x]
             m == ResultMessage(DecodeToolId(s.wire))
  <2>2. /\ item \in Items /\ item.kind = "result" /\ item.id = s.x /\ DecodeToolId(s.wire) = s.x
        /\ m \in Messages /\ m.at = <<Here>> /\ m.role = "toolResult" /\ m.id = s.x
        /\ Flushed \in Seq(Messages) /\ batch' = <<>>
    BY <1>2, InputsAssumption, StoredIdsDecode, NewMessages DEF Items, ResultMessage, UserResult
  <2>3. Here \in DOMAIN transcript' /\ transcript'[Here] = item
    BY <2>1, <2>2, TranscriptGrows
  <2>4. Longer(messages', Flushed, m)
    BY <2>1, <2>2, AppendLonger
  <2> HIDE DEF m
  <2>5. FromTranscript(transcript', m)
    BY <2>2, <2>3 DEF FromTranscript
  <2>6. \A p \in DOMAIN Flushed : FromTranscript(transcript', Flushed[p])
    BY <2>1, <2>2, FlushedSourced, SourceKept
  <2>7. \A p \in DOMAIN messages' : FromTranscript(transcript', messages'[p])
    BY <2>4, <2>5, <2>6 DEF Longer
  <2>8. \A u : ~ Batched(u)'
    BY <2>2 DEF Batched
  <2>9. QED
    BY <2>7, <2>8 DEF Sourced
<1>3. CASE EndUser
  <2>1. messages' = Flushed /\ batch' = <<>> /\ transcript' = transcript
    BY <1>3 DEF EndUser
  <2>2. \A u : ~ Batched(u)'
    BY <2>1 DEF Batched
  <2>3. QED
    BY <2>1, <2>2, FlushedSourced DEF Sourced
<1>4. QED
  BY <1>1, <1>2, <1>3

LEMMA SourcedStep ==
  ASSUME TypeOK, Sourced, [TurnsNext]_turnsVars
  PROVE  Sourced'
<1>1. CASE ReadAssistant \/ UserText \/ UserResult \/ EndUser
  BY <1>1, AssistantSourced, UserSourced
<1>2. CASE UNCHANGED firstPass
  BY <1>2 DEF Sourced, firstPass, Batched
<1>3. EndOfInput \/ PairAssistant \/ PairResult \/ SetAside \/ PairUser \/ Finish \/ UNCHANGED turnsVars
        => UNCHANGED firstPass
  BY DEF EndOfInput, PairAssistant, PairResult, SetAside, PairUser, Finish, Take, turnsVars
<1>4. QED
  BY <1>1, <1>2, <1>3 DEF TurnsNext

\* At message n of f a result under this id is still expected.
Awaited(f, id, n) ==
  \E t \in 1..(n - 1) :
    /\ LatestTurn(f, t, n) /\ \E c \in f[t].calls : c.id = id
    /\ \A u \in (t + 1)..(n - 1) : f[u].role = "toolResult" => f[u].id # id

AwaitInv ==
  /\ \A id : id \in pendingIds <=> Awaited(messages, id, cursor)
  /\ \A u \in 1..(cursor - 1) : messages[u].role = "toolResult" =>
       (Awaited(messages, messages[u].id, u) <=> Among(Settled, messages[u]))
  /\ \A x : Among(Settled, x) /\ x.role = "toolResult" =>
       \E u \in 1..(cursor - 1) : x = messages[u]

\* No place is in two messages.
LEMMA OneHolder ==
  ASSUME TypeOK, FirstInv, NEW u \in DOMAIN messages, NEW v \in DOMAIN messages,
         NEW s, NEW r, Holds(messages[u], s), Holds(messages[v], r)
  PROVE  /\ u \in Nat /\ v \in Nat /\ s \in Nat /\ r \in Nat
         /\ u < v => s < r
         /\ s = r => u = v
<1>1. messages \in Seq(Messages)
  BY DEF TypeOK
<1>2. u \in Nat /\ v \in Nat
  BY <1>1, LenProperties
<1>3. s \in Nat /\ r \in Nat
  BY <1>1, PlacesNat DEF Has
<1>4. (u < v => s < r) /\ (v < u => r < s)
  BY DEF FirstInv, Sequenced, Below, Holds
<1>5. QED
  BY <1>2, <1>3, <1>4

LEMMA ResultHolds ==
  ASSUME Sourced, NEW u \in DOMAIN messages, messages[u].role # "user", messages[u] \in Messages
  PROVE  \E s \in DOMAIN transcript : Holds(messages[u], s) /\ messages[u].at = <<s>>
<1>1. messages[u].role \in {"assistant", "toolResult"}
  BY DEF Messages
<1>2. \E s \in DOMAIN transcript : messages[u].at = <<s>>
  BY <1>1 DEF Sourced, FromTranscript
<1>3. QED
  BY <1>2, OnePlace

LEMMA AwaitedNext ==
  ASSUME TypeOK, NEW role, Take(role), NEW id
  PROVE  Awaited(messages', id, cursor') <=>
           IF role = "assistant" THEN \E c \in messages[cursor].calls : c.id = id
           ELSE Awaited(messages, id, cursor) /\ ~ (role = "toolResult" /\ messages[cursor].id = id)
<1>1. /\ cursor \in Nat /\ cursor \in DOMAIN messages /\ cursor >= 1
      /\ messages' = messages /\ cursor' = cursor + 1 /\ messages[cursor].role = role
  BY Taken
<1> DEFINE n == cursor
           Open(t, k) == /\ LatestTurn(messages, t, k) /\ \E c \in messages[t].calls : c.id = id
                         /\ \A u \in (t + 1)..(k - 1) :
                              messages[u].role = "toolResult" => messages[u].id # id
<1>2. /\ Awaited(messages', id, cursor') <=> \E t \in 1..n : Open(t, n + 1)
      /\ Awaited(messages, id, cursor) <=> \E t \in 1..(n - 1) : Open(t, n)
  BY <1>1 DEF Awaited, LatestTurn
<1>3. \A t \in 1..(n - 1) :
        Open(t, n + 1) <=>
          Open(t, n) /\ role # "assistant" /\ ~ (role = "toolResult" /\ messages[n].id = id)
  <2> TAKE t \in 1..(n - 1)
  <2>1. /\ t \in Nat /\ t < n
        /\ \A u : u \in (t + 1)..(n + 1 - 1) <=> u \in (t + 1)..(n - 1) \/ u = n
    BY <1>1
  <2>2. LatestTurn(messages, t, n + 1) <=> LatestTurn(messages, t, n) /\ role # "assistant"
    BY <1>1, <2>1 DEF LatestTurn
  <2>3. QED
    BY <1>1, <2>1, <2>2
<1>4. Open(n, n + 1) <=> role = "assistant" /\ \E c \in messages[n].calls : c.id = id
  BY <1>1 DEF LatestTurn
<1>5. \A t : t \in 1..n <=> t \in 1..(n - 1) \/ t = n
  BY <1>1
<1>6. role = "assistant" => \A t \in 1..(n - 1) : ~ Open(t, n + 1)
  BY <1>3
<1> HIDE DEF Open, n
<1>7. QED
  BY <1>2, <1>3, <1>4, <1>5, <1>6 DEF n

LEMMA NothingAwaited == TypeOK /\ Untouched => AwaitInv
<1> SUFFICES ASSUME TypeOK, Untouched PROVE AwaitInv
  OBVIOUS
<1>1. Settled = <<>> /\ pendingIds = {} /\ cursor = 1
  BY ConcatEmptySeq DEF Settled, Untouched, TypeOK
<1>2. 1..(cursor - 1) = {}
  BY <1>1
<1>3. \A id : ~ Awaited(messages, id, cursor)
  BY <1>2 DEF Awaited
<1>4. QED
  BY <1>1, <1>2, <1>3 DEF AwaitInv, Among

\* What a step of the second pass settles.
LEMMA ResultsSettle ==
  ASSUME PairingInv, PairAssistant \/ PairResult \/ SetAside \/ PairUser, NEW x, x.role = "toolResult"
  PROVE  Among(Settled', x) <=> Among(Settled, x) \/ (x = messages[cursor] /\ x.id \in pendingIds)
<1>0. TypeOK /\ Gathered
  BY DEF PairingInv, PairAssistant, PairResult, SetAside, PairUser, Take
<1>1. CASE PairAssistant
  <2> DEFINE m == messages[cursor]
  <2>1. m \in Messages /\ m.role = "assistant"
    BY <1>0, <1>1, Taken DEF PairAssistant
  <2>2. Settled' = Append(Flush, m) /\ Flush \in Seq(Messages) /\ Joined(Flush, Settled, userMessages)
    <3>1. paired' = Append(Flush, m) /\ results' = <<>> /\ Append(Flush, m) \in Seq(Messages)
      BY <1>0, <1>1, <2>1, SettledIs, AppendProperties DEF PairAssistant
    <3>2. QED
      BY <1>0, <3>1, ConcatEmptySeq, SettledIs DEF Settled
  <2> HIDE DEF m
  <2>3. Longer(Settled', Flush, m)
    BY <2>1, <2>2, AppendLonger
  <2>4. ~ Among(userMessages, x)
    BY <1>0 DEF Gathered, Among
  <2>5. Among(Settled', x) <=> Among(Settled, x)
    BY <2>1, <2>2, <2>3, <2>4, LongerAmong, JoinedAmong
  <2>6. QED
    BY <2>1, <2>5 DEF m
<1>2. CASE PairResult
  <2> DEFINE m == messages[cursor]
  <2>1. m \in Messages /\ m.id \in pendingIds /\ Settled \in Seq(Messages)
    BY <1>0, <1>2, SettledIs, Taken DEF PairResult
  <2>2. Settled' = Append(Settled, m)
    <3>0. /\ paired \in Seq(Messages) /\ results \in Seq(Messages)
          /\ paired' = paired /\ results' = Append(results, m)
      BY <1>0, <1>2 DEF TypeOK, PairResult
    <3>1. <<m>> \in Seq(Messages) /\ results' = results \o <<m>>
      BY <2>1, <3>0, AppendIsConcat
    <3>2. Settled' = (paired \o results) \o <<m>>
      BY <3>0, <3>1, ConcatAssociative DEF Settled
    <3>3. Append(Settled, m) = Settled \o <<m>>
      BY <2>1, AppendIsConcat
    <3>4. QED
      BY <3>2, <3>3 DEF Settled
  <2> HIDE DEF m
  <2>3. Longer(Settled', Settled, m)
    BY <2>1, <2>2, AppendLonger
  <2>4. QED
    BY <2>1, <2>3, LongerAmong DEF m
<1>3. CASE SetAside \/ PairUser
  BY <1>3 DEF SetAside, PairUser, Take, Settled
<1>4. QED
  BY <1>1, <1>2, <1>3

LEMMA PairAwaits ==
  ASSUME OrderInv, Sourced, AwaitInv, PairAssistant \/ PairResult \/ SetAside \/ PairUser
  PROVE  AwaitInv'
<1> DEFINE m == messages[cursor]
<1>1. TypeOK /\ FirstInv /\ PairingInv
  BY DEF OrderInv, PairingInv
<1>2. PICK role : Take(role) /\ role \in {"assistant", "toolResult", "user"}
  BY DEF PairAssistant, PairResult, SetAside, PairUser
<1>3. /\ cursor \in DOMAIN messages /\ cursor \in Nat /\ cursor >= 1 /\ m.role = role
      /\ messages \in Seq(Messages) /\ m \in Messages
      /\ messages' = messages /\ cursor' = cursor + 1
      /\ \A u : u \in 1..(cursor' - 1) <=> u \in 1..(cursor - 1) \/ u = cursor
      /\ \A u \in 1..(cursor - 1) : u \in DOMAIN messages /\ u # cursor
  <2>1. /\ messages \in Seq(Messages) /\ cursor \in DOMAIN messages /\ cursor \in Nat
        /\ DOMAIN messages = 1..Len(messages) /\ Len(messages) \in Nat /\ cursor >= 1
        /\ messages[cursor] \in Messages /\ messages[cursor].role = role
        /\ messages' = messages /\ cursor' = cursor + 1
    BY <1>1, <1>2, Taken
  <2>2. QED
    BY <2>1
<1>4. ASSUME NEW id PROVE id \in pendingIds' <=> Awaited(messages', id, cursor')
  <2>1. /\ id \in pendingIds <=> Awaited(messages, id, cursor)
        /\ Awaited(messages', id, cursor') <=>
             IF role = "assistant" THEN \E c \in m.calls : c.id = id
             ELSE Awaited(messages, id, cursor) /\ ~ (role = "toolResult" /\ m.id = id)
    BY <1>1, <1>2, AwaitedNext DEF AwaitInv
  <2>2. CASE PairAssistant
    BY <1>3, <2>1, <2>2 DEF PairAssistant, Take
  <2>3. CASE PairResult \/ SetAside \/ PairUser
    BY <1>3, <2>1, <2>3 DEF PairResult, SetAside, PairUser, Take
  <2>4. QED
    BY <2>2, <2>3
<1>5. \A x : x.role = "toolResult" =>
        (Among(Settled', x) <=> Among(Settled, x) \/ (x = m /\ x.id \in pendingIds))
  BY <1>1, ResultsSettle
<1>6. \A u \in 1..(cursor - 1) : messages[u].role = "toolResult" => messages[u] # m
  <2> SUFFICES ASSUME NEW u \in 1..(cursor - 1), messages[u].role = "toolResult", messages[u] = m
               PROVE  FALSE
    OBVIOUS
  <2>1. PICK s \in DOMAIN transcript : Holds(messages[u], s)
    BY <1>3, ResultHolds
  <2>2. QED
    BY <1>1, <1>3, <2>1, OneHolder
<1>7. ASSUME NEW u \in 1..(cursor' - 1), messages'[u].role = "toolResult"
      PROVE  Awaited(messages', messages'[u].id, u) <=> Among(Settled', messages'[u])
  <2>1. CASE u = cursor
    <3>1. ~ Among(Settled, m)
      BY <1>3, <1>6, <1>7, <2>1 DEF AwaitInv
    <3>2. Awaited(messages, m.id, cursor) <=> m.id \in pendingIds
      BY DEF AwaitInv
    <3>3. Among(Settled', m) <=> Awaited(messages, m.id, u)
      BY <1>3, <1>5, <1>7, <2>1, <3>1, <3>2
    <3>4. messages'[u] = m
      BY <1>3, <2>1
    <3>5. QED
      BY <1>3, <3>3, <3>4
  <2>2. CASE u \in 1..(cursor - 1)
    <3>1. messages[u].role = "toolResult" /\ messages[u] # m
      BY <1>3, <1>6, <1>7, <2>2
    <3>2. Awaited(messages, messages[u].id, u) <=> Among(Settled', messages[u])
      BY <1>5, <2>2, <3>1 DEF AwaitInv
    <3>3. QED
      BY <1>3, <3>2
  <2>3. QED
    BY <1>3, <2>1, <2>2
<1>8. ASSUME NEW x, Among(Settled', x), x.role = "toolResult"
      PROVE  \E u \in 1..(cursor' - 1) : x = messages'[u]
  BY <1>3, <1>5, <1>8 DEF AwaitInv
<1>9. QED
  BY <1>4, <1>7, <1>8 DEF AwaitInv

LEMMA FinishAwaits ==
  ASSUME PairingInv, AwaitInv, Finish
  PROVE  AwaitInv'
<1>1. TypeOK /\ Gathered
  BY DEF PairingInv, Finish
<1>2. /\ paired' = Flush /\ results' = <<>> /\ messages' = messages /\ cursor' = cursor
      /\ pendingIds' = pendingIds
  BY DEF Finish, firstPass
<1>3. Settled' = Flush /\ Joined(Flush, Settled, userMessages)
  BY <1>1, <1>2, SettledIs, ConcatEmptySeq DEF Settled
<1>4. \A x : Among(userMessages, x) => x.role = "user"
  BY <1>1 DEF Gathered, Among
<1>5. \A x : x.role = "toolResult" => (Among(Settled', x) <=> Among(Settled, x))
  BY <1>3, <1>4, JoinedAmong
<1>6. \A id : Awaited(messages', id, cursor') <=> Awaited(messages, id, cursor)
  BY <1>2
<1>7. ASSUME NEW u \in 1..(cursor - 1), messages[u].role = "toolResult"
      PROVE  Awaited(messages', messages'[u].id, u) <=> Among(Settled', messages[u])
  <2>1. Awaited(messages, messages[u].id, u) <=> Among(Settled', messages[u])
    BY <1>5, <1>7 DEF AwaitInv
  <2>2. QED
    BY <1>2, <2>1
<1>8. QED
  BY <1>2, <1>5, <1>6, <1>7 DEF AwaitInv

MatchInv == OrderInv /\ Sourced /\ AwaitInv

LEMMA MatchInvHolds == TurnsSpec => []MatchInv
<1>1. TurnsInit => Sourced /\ AwaitInv
  <2> SUFFICES ASSUME TurnsInit PROVE Sourced /\ AwaitInv
    OBVIOUS
  <2>1. TypeOK /\ Untouched
    BY DEF TurnsInit, TypeOK, Untouched
  <2>2. Sourced
    BY DEF TurnsInit, Sourced, Batched
  <2>3. QED
    BY <2>1, <2>2, NothingAwaited
<1>2. ASSUME OrderInv, OrderInv', Sourced, AwaitInv, [TurnsNext]_turnsVars PROVE Sourced' /\ AwaitInv'
  <2>1. TypeOK /\ TypeOK' /\ PairingInv /\ PairingInv'
    BY <1>2 DEF OrderInv, PairingInv
  <2>2. Sourced'
    BY <1>2, <2>1, SourcedStep
  <2>3. CASE ReadAssistant \/ UserText \/ UserResult \/ EndUser
    <3>1. phase' = "read"
      BY <2>3 DEF ReadAssistant, UserText, UserResult, EndUser, Reading
    <3>2. (TypeOK /\ Untouched => AwaitInv)'
      BY NothingAwaited, PTL
    <3>3. QED
      BY <2>1, <2>2, <3>1, <3>2 DEF PairingInv
  <2>4. CASE EndOfInput \/ UNCHANGED turnsVars
    <3>1. UNCHANGED <<firstPass, secondPass>>
      BY <2>4 DEF EndOfInput, turnsVars
    <3>2. messages' = messages /\ cursor' = cursor /\ pendingIds' = pendingIds /\ Settled' = Settled
      BY <3>1 DEF firstPass, secondPass, Settled
    <3>3. QED
      BY <1>2, <2>2, <3>2 DEF AwaitInv
  <2>5. CASE PairAssistant \/ PairResult \/ SetAside \/ PairUser \/ Finish
    BY <1>2, <2>1, <2>2, <2>5, PairAwaits, FinishAwaits
  <2>6. QED
    BY <1>2, <2>2, <2>3, <2>4, <2>5 DEF TurnsNext
<1>3. QED
  BY <1>1, <1>2, OrderInvHolds, PTL DEF TurnsSpec, MatchInv

LEMMA Between ==
  ASSUME NEW v \in Nat, NEW w \in Nat, NEW u \in Nat, ~ (w < v), w # v, ~ (u < w), w # u
  PROVE  w \in (v + 1)..(u - 1)
OBVIOUS

LEMMA Within ==
  ASSUME NEW t \in Nat, NEW s \in Nat, NEW n \in Nat, s <= n
  PROVE  (t + 1)..(s - 1) \subseteq 1..n
OBVIOUS

\* The item a place has, seen through the message that carries it.
LEMMA AtPlace ==
  ASSUME TypeOK, Sourced, NEW u \in DOMAIN messages, NEW s, Holds(messages[u], s)
  PROVE  /\ s \in DOMAIN transcript /\ s \in Nat
         /\ messages[u].role = "assistant" =>
              /\ transcript[s].kind = "assistant" /\ transcript[s].content # <<>>
              /\ \A id : (\E c \in messages[u].calls : c.id = id) <=> CallsOf(transcript[s].content, id)
         /\ messages[u].role = "toolResult" =>
              transcript[s].kind = "result" /\ messages[u].id = transcript[s].id
              /\ messages[u].at = <<s>>
         /\ messages[u].role = "user" => transcript[s].kind = "text"
         /\ messages[u].role \in {"assistant", "toolResult", "user"}
<1>1. messages \in Seq(Messages) /\ transcript \in Seq(Items)
  BY DEF TypeOK
<1>2. messages[u] \in Messages
  BY <1>1
<1>3. messages[u].role \in {"assistant", "toolResult", "user"}
  BY <1>2 DEF Messages
<1>4. DOMAIN transcript \subseteq Nat
  BY <1>1, LenProperties
<1>5. FromTranscript(transcript, messages[u])
  BY DEF Sourced
<1>6. \A r : messages[u].at = <<r>> => r = s
  BY OnePlace
<1>7. QED
  BY <1>3, <1>4, <1>5, <1>6 DEF FromTranscript

\* When all is read every kept place is in a message.
LEMMA Carried ==
  ASSUME FirstInv, batch = <<>>, NEW s, Kept(s)
  PROVE  \E u \in DOMAIN messages : Holds(messages[u], s)
BY DEF FirstInv, Batched, Has

\* A result is due where it stands in the transcript if it is awaited where
\* its message stands in the list.
LEMMA DueIsAwaited ==
  ASSUME TypeOK, FirstInv, Sourced, batch = <<>>, NEW u \in DOMAIN messages,
         messages[u].role = "toolResult", NEW s, Holds(messages[u], s)
  PROVE  Due(s) <=> Awaited(messages, messages[u].id, u)
<1> DEFINE id == messages[u].id
<1>1. s \in DOMAIN transcript /\ s \in Nat /\ transcript[s].kind = "result" /\ id = transcript[s].id
  BY AtPlace
<1>2. DOMAIN transcript = 1..Len(transcript) /\ Len(transcript) \in Nat
  BY LenProperties DEF TypeOK
<1>3. DOMAIN messages = 1..Len(messages) /\ Len(messages) \in Nat
  BY LenProperties DEF TypeOK
<1>4. s <= Len(transcript) /\ u <= Len(messages) /\ u \in Nat /\ u >= 1 /\ s >= 1
  BY <1>1, <1>2, <1>3
<1>5. \A v, w \in DOMAIN messages : \A t, r :
        Holds(messages[v], t) /\ Holds(messages[w], r) =>
          /\ v \in Nat /\ w \in Nat /\ t \in Nat /\ r \in Nat
          /\ v < w => t < r
          /\ t = r => v = w
  BY OneHolder
<1>6. ASSUME Due(s) PROVE Awaited(messages, id, u)
  <2>1. PICK t \in TurnOf(s) :
          /\ CallsOf(transcript[t].content, id)
          /\ \A r \in (t + 1)..(s - 1) :
               transcript[r].kind = "result" => transcript[r].id # id
    BY <1>1, <1>6 DEF Due, CallsOf
  <2>2. /\ t \in Nat /\ t < s /\ t \in DOMAIN transcript
        /\ transcript[t].kind = "assistant" /\ transcript[t].content # <<>>
        /\ \A r \in (t + 1)..(s - 1) :
             transcript[r].kind = "assistant" => transcript[r].content = <<>>
    BY <1>1, <1>2, <1>4, <2>1 DEF TurnOf
  <2>3. PICK v \in DOMAIN messages : Holds(messages[v], t)
    BY <2>2, Carried DEF Kept
  <2>4. messages[v].role = "assistant" /\ (\E c \in messages[v].calls : c.id = id)
    <3>1. messages[v].role = "assistant"
      BY <2>2, <2>3, AtPlace
    <3>2. \A x : (\E c \in messages[v].calls : c.id = x) <=> CallsOf(transcript[t].content, x)
      BY <2>3, <3>1, AtPlace
    <3>3. QED
      BY <2>1, <3>1, <3>2
  <2>5. v \in 1..(u - 1)
    <3>1. u < v => s < t
      BY <1>5, <2>3
    <3>2. u = v => transcript[t].kind = "result"
      BY <2>3, AtPlace
    <3>3. ~ (u < v) /\ u # v
      BY <1>1, <2>2, <3>1, <3>2
    <3>4. QED
      BY <1>3, <1>4, <3>3
  <2>6. ASSUME NEW w \in (v + 1)..(u - 1)
        PROVE  messages[w].role # "assistant"
               /\ (messages[w].role = "toolResult" => messages[w].id # id)
    <3>1. w \in DOMAIN messages /\ v < w /\ w < u
      BY <1>3, <1>4, <2>3, <2>5
    <3>2. ASSUME messages[w].role # "user"
          PROVE  \E r \in (t + 1)..(s - 1) : Holds(messages[w], r)
      <4>1. messages[w] \in Messages
        BY <3>1 DEF TypeOK
      <4>2. PICK r \in DOMAIN transcript : Holds(messages[w], r)
        BY <3>1, <3>2, <4>1, ResultHolds
      <4>3. t < r /\ r < s /\ r \in Nat
        BY <1>5, <2>3, <3>1, <4>2
      <4>4. QED
        BY <1>1, <2>2, <4>2, <4>3
    <3>3. QED
      BY <2>1, <2>2, <3>1, <3>2, AtPlace
  <2>7. LatestTurn(messages, v, u)
    BY <2>4, <2>6 DEF LatestTurn
  <2>8. QED
    BY <2>4, <2>5, <2>6, <2>7 DEF Awaited
<1>7. ASSUME Awaited(messages, id, u) PROVE Due(s)
  <2>1. PICK v \in 1..(u - 1) :
          /\ LatestTurn(messages, v, u) /\ \E c \in messages[v].calls : c.id = id
          /\ \A w \in (v + 1)..(u - 1) : messages[w].role = "toolResult" => messages[w].id # id
    BY <1>7 DEF Awaited
  <2>2. v \in DOMAIN messages /\ v < u /\ messages[v].role = "assistant" /\ messages[v] \in Messages
        /\ \A w \in (v + 1)..(u - 1) : messages[w].role # "assistant"
    <3>1. v \in DOMAIN messages /\ v < u
      BY <1>3, <1>4
    <3>2. QED
      BY <2>1, <3>1 DEF LatestTurn, TypeOK
  <2>3. PICK t \in DOMAIN transcript : Holds(messages[v], t)
    BY <2>2, ResultHolds
  <2>4. /\ transcript[t].kind = "assistant" /\ transcript[t].content # <<>>
        /\ CallsOf(transcript[t].content, id)
    BY <2>1, <2>2, <2>3, AtPlace
  <2>5. t \in Nat /\ t \in 1..(s - 1)
    <3>1. t < s
      BY <1>5, <2>2, <2>3
    <3>2. QED
      BY <1>1, <1>2, <3>1
  <2>6. ASSUME NEW r \in (t + 1)..(s - 1), Kept(r)
        PROVE  \E w \in (v + 1)..(u - 1) : w \in DOMAIN messages /\ Holds(messages[w], r)
    <3>1. PICK w \in DOMAIN messages : Holds(messages[w], r)
      BY <2>6, Carried
    <3>2. r \in Nat /\ t < r /\ r < s
      BY <1>1, <2>5
    <3>3. w \in (v + 1)..(u - 1)
      <4>1. ~ (w < v) /\ w # v
        <5>1. w < v => r < t
          BY <1>5, <2>2, <2>3, <3>1
        <5>2. w = v => r = t
          <6>1. messages[v].role = "assistant" /\ messages[v] \in Messages /\ messages[v].role # "user"
            BY <2>2
          <6>2. \E p \in DOMAIN transcript : messages[v].at = <<p>>
            BY <2>2, <6>1, ResultHolds
          <6>3. QED
            BY <2>3, <3>1, <6>2, OnePlace
        <5>3. QED
          BY <2>5, <3>2, <5>1, <5>2
      <4>2. ~ (u < w) /\ w # u
        <5>1. u < w => s < r
          BY <1>5, <3>1
        <5>2. w = u => r = s
          BY <3>1, AtPlace, OnePlace
        <5>3. QED
          BY <1>1, <3>2, <5>1, <5>2
      <4>3. w \in Nat /\ v \in Nat
        BY <1>3, <2>2, <3>1
      <4>4. QED
        BY <1>4, <4>1, <4>2, <4>3, Between
    <3>4. QED
      BY <3>1, <3>3
  <2>7. \A r \in (t + 1)..(s - 1) : r \in DOMAIN transcript
    BY <1>1, <1>2, <1>4, <2>5, Within
  <2>8. ASSUME NEW r \in (t + 1)..(s - 1)
        PROVE  /\ transcript[r].kind = "assistant" => transcript[r].content = <<>>
               /\ transcript[r].kind = "result" => transcript[r].id # id
    <3>1. CASE Kept(r)
      <4>1. PICK w \in (v + 1)..(u - 1) : w \in DOMAIN messages /\ Holds(messages[w], r)
        BY <2>6, <3>1
      <4>2. messages[w].role # "assistant" /\ (messages[w].role = "toolResult" => messages[w].id # id)
        BY <2>1, <2>2
      <4>3. QED
        BY <4>1, <4>2, AtPlace
    <3>2. CASE ~ Kept(r)
      BY <2>7, <3>2 DEF Kept
    <3>3. QED
      BY <3>1, <3>2
  <2>9. t \in TurnOf(s)
    BY <2>4, <2>5, <2>8 DEF TurnOf
  <2>10. QED
    BY <1>1, <2>4, <2>8, <2>9 DEF Due, CallsOf
<1>8. QED
  BY <1>6, <1>7

\* Exactly the due results reach the provider as results, for any transcript
\* and any mixture of the ids' vintages.
THEOREM MatchedAsIssuedHolds == TurnsSpec => []MatchedAsIssued
<1>1. MatchInv => MatchedAsIssued
  <2> SUFFICES ASSUME MatchInv, phase = "done", NEW s \in DOMAIN transcript,
                      transcript[s].kind = "result"
               PROVE  Due(s) <=> \E p \in DOMAIN paired :
                        /\ paired[p].role = "toolResult"
                        /\ paired[p].at = <<s>> /\ paired[p].id = transcript[s].id
    BY DEF MatchedAsIssued
  <2>1. TypeOK /\ FirstInv /\ SecondInv /\ Sourced /\ AwaitInv /\ batch = <<>> /\ OrderInv
    BY DEF MatchInv, OrderInv, PairingInv, TypeOK
  <2>2. PICK u \in DOMAIN messages : Holds(messages[u], s)
    BY <2>1, Carried DEF Kept
  <2>3. messages[u].role = "toolResult" /\ messages[u].id = transcript[s].id /\ messages[u].at = <<s>>
    BY <2>1, <2>2, AtPlace
  <2>4. paired = Settled
    BY <2>1, DoneHas
  <2>5. cursor = Len(messages) + 1 /\ \A v : v \in 1..(cursor - 1) <=> v \in DOMAIN messages
    <3>1. messages \in Seq(Messages) /\ cursor = Len(messages) + 1
      BY <2>1 DEF TypeOK, SecondInv
    <3>2. Len(messages) \in Nat /\ DOMAIN messages = 1..Len(messages)
      BY <3>1, LenProperties
    <3>3. QED
      BY <3>1, <3>2
  <2>6. Due(s) <=> Among(paired, messages[u])
    BY <2>1, <2>2, <2>3, <2>4, <2>5, DueIsAwaited DEF AwaitInv
  <2>7. ASSUME NEW p \in DOMAIN paired, paired[p].role = "toolResult", paired[p].at = <<s>>
        PROVE  Among(paired, messages[u])
    <3>1. Among(Settled, paired[p])
      BY <2>4 DEF Among
    <3>2. PICK v \in DOMAIN messages : paired[p] = messages[v]
      BY <2>1, <2>5, <2>7, <3>1 DEF AwaitInv
    <3>3. Holds(messages[v], s)
      BY <2>7, <3>2, OnePlace
    <3>4. v = u
      BY <2>1, <2>2, <3>3, OneHolder
    <3>5. QED
      BY <3>2, <3>4 DEF Among
  <2>8. QED
    BY <2>3, <2>6, <2>7 DEF Among
<1>2. QED
  BY <1>1, MatchInvHolds, PTL

-----------------------------------------------------------------------------
(* The routing of names. *)

Fields == {"at", "model", "history", "snapshot", "text", "sent", "counted"}

\* What a request for id may say about who is credited.
Texts(id) == {Credit(id), Custom, None}

\* A prepared request has a text of its own model, and the text it was given is
\* the snapshot it carries to the system block.
AgentInv(s) ==
  /\ DOMAIN s = Fields
  /\ s.at \in {"describing", "ready", "waiting"} => s.snapshot \in Texts(s.model)
  /\ s.at \in {"ready", "waiting"} => s.text = s.snapshot
  /\ s.sent # None =>
       /\ s.sent.text \in Texts(s.model)
       /\ s.sent.to = "zai" => s.sent.block = s.sent.text

ClientInv(p) ==
  clients[p] # None =>
    clients[p] = [token |-> clients[p].token, base |-> clients[p].base,
                  native |-> clients[p].native]

\* A cached description says what its key says.
SchemaInv == \A s \in schemas : s.key[2] = s.text

Inv ==
  /\ DOMAIN agents = Agents
  /\ DOMAIN clients = Providers
  /\ \A a \in Agents : AgentInv(agents[a])
  /\ \A p \in Providers : ClientInv(p)
  /\ SchemaInv
  /\ policy \in Policies

-----------------------------------------------------------------------------
(* Facts. *)

LEMMA AtRest ==
  ASSUME NEW model, NEW history, NEW at
  PROVE  /\ AgentInv(Idle(model, history))
         /\ Idle(model, history).sent = None
         /\ Idle(model, history).counted = None
         /\ at \notin {"describing", "ready", "waiting"} =>
              AgentInv([Idle(model, history) EXCEPT !.at = at])
         /\ [Idle(model, history) EXCEPT !.at = at].sent = None
         /\ [Idle(model, history) EXCEPT !.at = at].counted = None
BY DEF Idle, AgentInv, Fields

LEMMA RoutesAreServed ==
  ASSUME NEW id, NEW r \in Routes(id)
  PROVE  r.provider \in Providers
BY DEF Routes, Providers, ProviderPrefixes, Entries, Name, Account

LEMMA ClientInForce ==
  ASSUME NEW p \in Providers, ClientInv(p)
  PROVE  ClientFor(p) = [token |-> env[p].token, base |-> env[p].base, native |-> native]
BY DEF ClientFor, TransportChanged, ClientInv

LEMMA RequestFields ==
  ASSUME NEW a, NEW to, NEW wire, NEW client, NEW added
  PROVE  LET q == Request(a, to, wire, client, added)
         IN /\ q.to = to /\ q.wire = wire /\ q.client = client /\ q.text = agents[a].text
            /\ to = "zai" => q.block = agents[a].snapshot
BY DEF Request, Block

LEMMA AttributionKnown ==
  ASSUME RoutingAssumption, NEW id, policy \in Policies
  PROVE  Attribution(id) \in Texts(id)
BY DEF Attribution, Texts, RoutingAssumption

-----------------------------------------------------------------------------
(* What the steps do to one agent. *)

\* Nothing but the record of agent a changes, and it changes well.
Steps(a) ==
  /\ DOMAIN agents' = Agents
  /\ \A b \in Agents \ {a} : agents'[b] = agents[b]
  /\ AgentInv(agents'[a])

LEMMA Rests ==
  ASSUME Inv, NEW a \in Agents, NEW s, AgentInv(s), agents' = [agents EXCEPT ![a] = s]
  PROVE  Steps(a) /\ agents'[a] = s
BY DEF Inv, Steps

LEMMA SentFields ==
  ASSUME Inv, NEW a \in Agents, NEW q, Sent(a, q)
  PROVE  /\ DOMAIN agents' = Agents
         /\ \A b \in Agents \ {a} : agents'[b] = agents[b]
         /\ DOMAIN agents'[a] = Fields
         /\ agents'[a].sent = q
         /\ agents'[a].model = agents[a].model
         /\ agents'[a].snapshot = agents[a].snapshot
         /\ agents'[a].text = agents[a].text
         /\ agents'[a].counted = agents[a].counted
BY DEF Inv, AgentInv, Sent, Fields

LEMMA DescribedFields ==
  ASSUME Inv, NEW a \in Agents, NEW text,
         agents' = [agents EXCEPT ![a].at = "describing", ![a].snapshot = text]
  PROVE  /\ DOMAIN agents' = Agents
         /\ \A b \in Agents \ {a} : agents'[b] = agents[b]
         /\ DOMAIN agents'[a] = Fields
         /\ agents'[a].at = "describing"
         /\ agents'[a].sent = agents[a].sent
         /\ agents'[a].model = agents[a].model
         /\ agents'[a].snapshot = text
         /\ agents'[a].counted = agents[a].counted
BY DEF Inv, AgentInv, Fields

LEMMA ReadyFields ==
  ASSUME Inv, NEW a \in Agents, NEW text,
         agents' = [agents EXCEPT ![a].at = "ready", ![a].text = text]
  PROVE  /\ DOMAIN agents' = Agents
         /\ \A b \in Agents \ {a} : agents'[b] = agents[b]
         /\ DOMAIN agents'[a] = Fields
         /\ agents'[a].at = "ready"
         /\ agents'[a].sent = agents[a].sent
         /\ agents'[a].model = agents[a].model
         /\ agents'[a].snapshot = agents[a].snapshot
         /\ agents'[a].text = text
         /\ agents'[a].counted = agents[a].counted
BY DEF Inv, AgentInv, Fields

-----------------------------------------------------------------------------
(* One attempt. *)

\* What ServedAsNamed says of a step of agent a.
Served(a) ==
  LET id == agents[a].model
      sent == agents'[a].sent
  IN /\ sent # None /\ sent # agents[a].sent =>
          \/ Native(id) /\ sent.to = "anthropic" /\ sent.client.native = native
          \/ \E r \in Routes(id) :
               /\ sent.to = r.provider /\ sent.wire = r.wire
               /\ sent.client = [token |-> env[r.provider].token,
                                 base |-> env[r.provider].base, native |-> native]
     /\ agents'[a].counted = "estimate" /\ agents[a].counted # "estimate" => Native(id)

LEMMA FailServes ==
  ASSUME Inv, NEW a \in Agents, Fail(a)
  PROVE  Steps(a) /\ Served(a)
<1>1. AgentInv(Rest(a)) /\ Rest(a).sent = None /\ Rest(a).counted = None
  BY AtRest DEF Rest
<1>2. Steps(a) /\ agents'[a] = Rest(a)
  BY <1>1, Rests DEF Fail
<1>3. QED
  BY <1>1, <1>2, RoutingAssumption DEF Served, RoutingAssumption

\* A request that is sent as it was prepared.
LEMMA SentSteps ==
  ASSUME Inv, NEW a \in Agents, agents[a].at \in {"ready", "waiting"},
         NEW to, NEW wire, NEW client, NEW added,
         Sent(a, Request(a, to, wire, client, added))
  PROVE  /\ Steps(a)
         /\ agents'[a].sent.to = to /\ agents'[a].sent.wire = wire
         /\ agents'[a].sent.client = client
         /\ agents'[a].counted = agents[a].counted
<1> DEFINE q == Request(a, to, wire, client, added)
<1>1. /\ q.to = to /\ q.wire = wire /\ q.client = client /\ q.text = agents[a].text
      /\ to = "zai" => q.block = agents[a].snapshot
  BY RequestFields
<1>2. /\ agents[a].snapshot \in Texts(agents[a].model)
      /\ agents[a].text = agents[a].snapshot
  BY DEF Inv, AgentInv
<1> HIDE DEF q
<1>3. Sent(a, q)
  BY DEF q
<1>4. AgentInv(agents'[a])
  BY <1>1, <1>2, <1>3, SentFields DEF AgentInv
<1>5. QED
  BY <1>1, <1>3, <1>4, SentFields DEF Steps

LEMMA ClientsKept ==
  ASSUME Inv, NEW p \in Providers, NEW client,
         client = None \/ client = [token |-> env[p].token, base |-> env[p].base, native |-> native],
         clients' = [clients EXCEPT ![p] = client]
  PROVE  DOMAIN clients' = Providers /\ \A x \in Providers : ClientInv(x)'
<1>1. DOMAIN clients' = Providers /\ clients'[p] = client
  BY DEF Inv
<1>2. ASSUME NEW x \in Providers \ {p} PROVE ClientInv(x)'
  BY DEF Inv, ClientInv
<1>3. ClientInv(p)'
  BY <1>1 DEF ClientInv
<1>4. QED
  BY <1>1, <1>2, <1>3

LEMMA RouteServes ==
  ASSUME Inv, NEW a \in Agents, agents[a].at \in {"ready", "waiting"}, NEW added,
         Route(a, added)
  PROVE  /\ DOMAIN clients' = Providers /\ \A p \in Providers : ClientInv(p)'
         /\ Steps(a) /\ Served(a)
<1> DEFINE id == agents[a].model
<1>1. CASE /\ Native(id)
           /\ Sent(a, Request(a, "anthropic", NativeModel[id.wire], [native |-> native], added))
           /\ UNCHANGED clients
  <2>1. Steps(a) /\ agents'[a].sent.to = "anthropic"
        /\ agents'[a].sent.client = [native |-> native]
        /\ agents'[a].counted = agents[a].counted
    BY <1>1, SentSteps
  <2>2. QED
    BY <1>1, <2>1 DEF Served, Inv, ClientInv
<1>2. CASE Fail(a) /\ UNCHANGED clients
  BY <1>2, FailServes DEF Inv, ClientInv
<1>3. ASSUME NEW r \in Routes(id), Fail(a), clients' = [clients EXCEPT ![r.provider] = None]
      PROVE  /\ DOMAIN clients' = Providers /\ \A p \in Providers : ClientInv(p)'
             /\ Steps(a) /\ Served(a)
  BY <1>3, FailServes, ClientsKept, RoutesAreServed
<1>4. ASSUME NEW r \in Routes(id),
             clients' = [clients EXCEPT ![r.provider] = ClientFor(r.provider)],
             \/ Fail(a)
             \/ Sent(a, Request(a, r.provider, r.wire, ClientFor(r.provider), added))
      PROVE  /\ DOMAIN clients' = Providers /\ \A p \in Providers : ClientInv(p)'
             /\ Steps(a) /\ Served(a)
  <2>1. r.provider \in Providers
    BY RoutesAreServed
  <2>2. ClientFor(r.provider) = [token |-> env[r.provider].token, base |-> env[r.provider].base,
                                 native |-> native]
    BY <2>1, ClientInForce DEF Inv
  <2>3. DOMAIN clients' = Providers /\ \A p \in Providers : ClientInv(p)'
    BY <1>4, <2>1, <2>2, ClientsKept
  <2>4. CASE Fail(a)
    BY <2>3, <2>4, FailServes
  <2>5. CASE Sent(a, Request(a, r.provider, r.wire, ClientFor(r.provider), added))
    <3>1. /\ Steps(a)
          /\ agents'[a].sent.to = r.provider /\ agents'[a].sent.wire = r.wire
          /\ agents'[a].sent.client = ClientFor(r.provider)
          /\ agents'[a].counted = agents[a].counted
      BY <2>5, SentSteps
    <3>2. Served(a)
      BY <2>2, <3>1 DEF Served
    <3>3. QED
      BY <2>3, <3>1, <3>2
  <2>6. QED
    BY <1>4, <2>4, <2>5
<1>5. QED
  <2>1. CASE \E r \in Routes(id) :
               ~Configured(r.provider) /\ Fail(a) /\ clients' = [clients EXCEPT ![r.provider] = None]
    BY <2>1, <1>3
  <2>2. CASE \E r \in Routes(id) :
          /\ clients' = [clients EXCEPT ![r.provider] = ClientFor(r.provider)]
          /\ \/ Fail(a)
             \/ Sent(a, Request(a, r.provider, r.wire, ClientFor(r.provider), added))
    BY <2>2, <1>4
  <2>3. QED
    BY <1>1, <1>2, <2>1, <2>2 DEF Route

-----------------------------------------------------------------------------
(* The steps. *)

\* Nothing but agent a, and what it may have cached, changes.
OneAgent(a) ==
  /\ Steps(a) /\ Served(a)
  /\ DOMAIN clients' = Providers /\ \A p \in Providers : ClientInv(p)'
  /\ SchemaInv' /\ policy' = policy

LEMMA OneAgentInv ==
  ASSUME Inv, NEW a \in Agents, OneAgent(a)
  PROVE  Inv' /\ \A b \in Agents : Served(b)
<1>1. Inv'
  BY DEF Inv, OneAgent, Steps
<1>2. ASSUME NEW b \in Agents \ {a} PROVE Served(b)
  BY <1>2 DEF OneAgent, Steps, Served
<1>3. QED
  BY <1>1, <1>2 DEF OneAgent

LEMMA ClientsUnchanged ==
  ASSUME Inv, UNCHANGED clients
  PROVE  DOMAIN clients' = Providers /\ \A p \in Providers : ClientInv(p)'
BY DEF Inv, ClientInv

LEMMA CachesUnchanged ==
  ASSUME Inv, UNCHANGED <<clients, schemas, policy>>
  PROVE  /\ DOMAIN clients' = Providers /\ \A p \in Providers : ClientInv(p)'
         /\ SchemaInv' /\ policy' = policy
BY ClientsUnchanged DEF Inv, SchemaInv

\* An agent whose new record has no request and no estimate.
LEMMA Quiet ==
  ASSUME Inv, NEW a \in Agents, NEW s, AgentInv(s), s.sent = None, s.counted # "estimate",
         agents' = [agents EXCEPT ![a] = s]
  PROVE  Steps(a) /\ Served(a)
<1>1. Steps(a) /\ agents'[a] = s
  BY Rests
<1>2. QED
  BY <1>1 DEF Served

LEMMA PrepareSteps ==
  ASSUME Inv, NEW a \in Agents, Prepare(a)
  PROVE  OneAgent(a)
<1>1. PICK id \in Models(a) : agents' = [agents EXCEPT ![a] = Busy(a, id, "policy")]
  BY DEF Prepare
<1>2. /\ AgentInv(Busy(a, id, "policy")) /\ Busy(a, id, "policy").sent = None
      /\ Busy(a, id, "policy").counted = None
  BY AtRest DEF Busy
<1>3. Steps(a) /\ Served(a)
  BY <1>1, <1>2, Quiet, RoutingAssumption DEF RoutingAssumption
<1>4. QED
  BY <1>3, CachesUnchanged DEF OneAgent, Prepare, outside

LEMMA SnapshotSteps ==
  ASSUME Inv, NEW a \in Agents, Snapshot(a)
  PROVE  OneAgent(a)
<1> DEFINE text == RequestAttribution(a)
           hits == {s \in schemas : s.key = SchemaKey(agents[a].model, text)}
<1>1. text \in Texts(agents[a].model)
  BY AttributionKnown, RoutingAssumption DEF RequestAttribution, Inv
<1> HIDE DEF text, hits
<1>2. CASE agents' = [agents EXCEPT ![a] = Rest(a)]
  <2>1. AgentInv(Rest(a)) /\ Rest(a).sent = None /\ Rest(a).counted = None
    BY AtRest DEF Rest
  <2>2. QED
    BY <1>2, <2>1, Quiet, CachesUnchanged, RoutingAssumption
    DEF OneAgent, RoutingAssumption, Snapshot, rest, outside
<1>3. ASSUME NEW s \in hits,
             agents' = [agents EXCEPT ![a].at = "ready", ![a].snapshot = text, ![a].text = s.text]
      PROVE  OneAgent(a)
  <2>1. s.text = text
    BY DEF Inv, SchemaInv, SchemaKey, hits
  <2>2. AgentInv(agents[a])
    BY DEF Inv
  <2>3. /\ DOMAIN agents' = Agents
        /\ \A b \in Agents \ {a} : agents'[b] = agents[b]
        /\ DOMAIN agents'[a] = Fields
        /\ agents'[a].sent = agents[a].sent
        /\ agents'[a].model = agents[a].model
        /\ agents'[a].counted = agents[a].counted
        /\ agents'[a].snapshot = text /\ agents'[a].text = s.text
    BY <1>3 DEF Inv, AgentInv, Fields
  <2>4. AgentInv(agents'[a])
    BY <1>1, <2>1, <2>2, <2>3 DEF AgentInv
  <2>5. Steps(a) /\ Served(a)
    BY <2>3, <2>4 DEF Steps, Served
  <2>6. QED
    BY <2>5, CachesUnchanged DEF OneAgent, Snapshot, rest, outside
<1>4. CASE agents' = [agents EXCEPT ![a].at = "describing", ![a].snapshot = text]
  <2>1. AgentInv(agents[a])
    BY DEF Inv
  <2>2. AgentInv(agents'[a])
    <3>1. /\ DOMAIN agents'[a] = Fields
          /\ agents'[a].at = "describing"
          /\ agents'[a].sent = agents[a].sent
          /\ agents'[a].model = agents[a].model
          /\ agents'[a].snapshot = text
      BY <1>4, DescribedFields
    <3>2. QED
      BY <1>1, <2>1, <3>1 DEF AgentInv
  <2>3. Steps(a) /\ Served(a)
    BY <1>4, <2>2, DescribedFields DEF Steps, Served
  <2>4. QED
    BY <2>3, CachesUnchanged DEF OneAgent, Snapshot, rest, outside
<1>5. QED
  BY <1>2, <1>3, <1>4 DEF Snapshot, text, hits

LEMMA DescribeSteps ==
  ASSUME Inv, NEW a \in Agents, Describe(a)
  PROVE  OneAgent(a)
<1>1. agents[a].snapshot \in Texts(agents[a].model) /\ AgentInv(agents[a])
  BY DEF Inv, AgentInv, Describe
<1>2. agents' = [agents EXCEPT ![a].at = "ready", ![a].text = agents[a].snapshot]
  BY DEF Describe, Description
<1>3. AgentInv(agents'[a])
  BY <1>1, <1>2, ReadyFields DEF AgentInv
<1>4. Steps(a) /\ Served(a)
  BY <1>2, <1>3, ReadyFields DEF Steps, Served
<1>5. SchemaInv'
  BY DEF Inv, SchemaInv, Describe, Description, SchemaKey
<1>6. QED
  BY <1>4, <1>5, ClientsUnchanged DEF OneAgent, Describe, rest, outside

LEMMA SendSteps ==
  ASSUME Inv, NEW a \in Agents, Send(a) \/ Retry(a)
  PROVE  OneAgent(a)
<1>1. agents[a].at \in {"ready", "waiting"} /\ \E added : Route(a, added)
  BY DEF Send, Retry
<1>2. UNCHANGED <<schemas, policy>>
  BY DEF Send, Retry, rest, outside
<1>3. QED
  BY <1>1, <1>2, RouteServes DEF OneAgent, Inv, SchemaInv

LEMMA AnswerSteps ==
  ASSUME Inv, NEW a \in Agents, Answer(a) \/ GiveUp(a) \/ Resume(a)
  PROVE  OneAgent(a)
<1>1. \E model, history : agents' = [agents EXCEPT ![a] = Idle(model, history)]
  <2>1. CASE Answer(a)
    BY <2>1 DEF Answer
  <2>2. CASE GiveUp(a)
    BY <2>2 DEF GiveUp, Fail, Rest
  <2>3. CASE Resume(a)
    BY <2>3 DEF Resume
  <2>4. QED
    BY <2>1, <2>2, <2>3
<1>2. Steps(a) /\ Served(a)
  BY <1>1, AtRest, Quiet, RoutingAssumption DEF RoutingAssumption
<1>3. QED
  BY <1>2, CachesUnchanged DEF OneAgent, Answer, GiveUp, Resume, rest, outside

\* A count that ends with a result.
LEMMA CountedSteps ==
  ASSUME Inv, NEW a \in Agents, NEW result, Counted(a, result),
         result = "estimate" => Native(agents[a].model)
  PROVE  Steps(a) /\ Served(a)
<1> DEFINE s == [Rest(a) EXCEPT !.counted = result]
<1>1. AgentInv(s) /\ s.sent = None /\ s.counted = result
  BY DEF Rest, Idle, AgentInv, Fields
<1> HIDE DEF s
<1>2. Steps(a) /\ agents'[a] = s
  BY <1>1, Rests DEF Counted, s
<1>3. QED
  BY <1>1, <1>2 DEF Served

LEMMA CountSteps ==
  ASSUME Inv, NEW a \in Agents, Count(a)
  PROVE  OneAgent(a)
<1>1. SchemaInv' /\ policy' = policy
  BY DEF Count, outside, Inv, SchemaInv
<1>2. PICK id \in Models(a) :
        \/ Rejected(id) /\ Counted(a, "error") /\ UNCHANGED clients
        \/ \E r \in Routes(id) :
             /\ ~Configured(r.provider)
             /\ Counted(a, "error")
             /\ clients' = [clients EXCEPT ![r.provider] = None]
        \/ /\ Native(id) \/ \E r \in Routes(id) : Configured(r.provider)
           /\ agents' = [agents EXCEPT ![a] = Busy(a, id, "counting")]
           /\ UNCHANGED clients
  BY DEF Count
<1>3. CASE Counted(a, "error") /\ UNCHANGED clients
  BY <1>1, <1>3, CountedSteps, ClientsUnchanged DEF OneAgent
<1>4. ASSUME NEW r \in Routes(id), Counted(a, "error"),
             clients' = [clients EXCEPT ![r.provider] = None]
      PROVE  OneAgent(a)
  BY <1>1, <1>4, CountedSteps, ClientsKept, RoutesAreServed DEF OneAgent
<1>5. CASE agents' = [agents EXCEPT ![a] = Busy(a, id, "counting")] /\ UNCHANGED clients
  <2>1. /\ AgentInv(Busy(a, id, "counting")) /\ Busy(a, id, "counting").sent = None
        /\ Busy(a, id, "counting").counted = None
    BY AtRest DEF Busy
  <2>2. QED
    BY <1>1, <1>5, <2>1, Quiet, ClientsUnchanged, RoutingAssumption
    DEF OneAgent, RoutingAssumption
<1>6. QED
  BY <1>2, <1>3, <1>4, <1>5

LEMMA CountReplySteps ==
  ASSUME Inv, NEW a \in Agents, CountReply(a)
  PROVE  OneAgent(a)
<1> DEFINE id == agents[a].model
<1>1. SchemaInv' /\ policy' = policy
  BY DEF CountReply, rest, outside, Inv, SchemaInv
<1>2. CASE Native(id) /\ UNCHANGED clients /\ (Counted(a, "number") \/ CountFailed(a))
  <2>1. Counted(a, "number") \/ Counted(a, "error") \/ Counted(a, "estimate")
    BY <1>2 DEF CountFailed
  <2>2. QED
    BY <1>1, <1>2, <2>1, CountedSteps, ClientsUnchanged DEF OneAgent
<1>3. ASSUME NEW r \in Routes(id), Counted(a, "number") \/ CountFailed(a),
             NEW client,
             client = None \/ client = ClientFor(r.provider),
             clients' = [clients EXCEPT ![r.provider] = client]
      PROVE  OneAgent(a)
  <2>1. r.provider \in Providers
    BY RoutesAreServed
  <2>2. ClientFor(r.provider) = [token |-> env[r.provider].token, base |-> env[r.provider].base,
                                 native |-> native]
    BY <2>1, ClientInForce DEF Inv
  <2>3. DOMAIN clients' = Providers /\ \A p \in Providers : ClientInv(p)'
    BY <1>3, <2>1, <2>2, ClientsKept
  <2>4. Counted(a, "number") \/ Counted(a, "error")
    BY <1>3 DEF CountFailed
  <2>5. QED
    BY <1>1, <2>3, <2>4, CountedSteps DEF OneAgent
<1>4. QED
  BY <1>2, <1>3 DEF CountReply

-----------------------------------------------------------------------------
(* Theorems. *)

LEMMA InitInv == Init => Inv
<1> SUFFICES ASSUME Init PROVE Inv
  OBVIOUS
<1>1. \A a \in Agents : agents[a] = Idle(None, <<>>)
  BY DEF Init
<1>2. AgentInv(Idle(None, <<>>))
  BY AtRest
<1>3. QED
  BY <1>1, <1>2 DEF Init, Inv, ClientInv, SchemaInv

LEMMA NextInv ==
  ASSUME Inv, [Next]_vars
  PROVE  Inv' /\ \A a \in Agents : Served(a)
<1>1. CASE Reconfigure
  <2>1. UNCHANGED <<clients, schemas, agents>> /\ policy' \in Policies
    BY <1>1 DEF Reconfigure, Inv
  <2>2. QED
    BY <2>1 DEF Inv, ClientInv, SchemaInv, Served
<1>2. CASE UNCHANGED vars
  BY <1>2 DEF vars, Inv, ClientInv, SchemaInv, Served
<1>3. ASSUME NEW a \in Agents,
             \/ Prepare(a) \/ Snapshot(a) \/ Describe(a)
             \/ Send(a) \/ Retry(a) \/ Answer(a) \/ GiveUp(a)
             \/ Count(a) \/ CountReply(a) \/ Resume(a)
      PROVE  OneAgent(a)
  BY <1>3, PrepareSteps, SnapshotSteps, DescribeSteps, SendSteps, AnswerSteps, CountSteps,
     CountReplySteps
<1>4. QED
  BY <1>1, <1>2, <1>3, OneAgentInv DEF Next

\* The tool description and the system block of every request name the same
\* attribution, the one of the request's own model (_thread_modern_attribution).
THEOREM OneVoiceHolds == Spec => []OneVoice
<1>1. Inv => OneVoice
  BY DEF Inv, AgentInv, OneVoice, Texts
<1>2. Inv /\ [Next]_vars => Inv'
  BY NextInv
<1>3. QED
  BY <1>1, <1>2, InitInv, PTL DEF Spec

\* Every attempt goes where its model's name says, with the token, address and
\* native client in force when it is made, and a count is estimated for the
\* native client only (_ccMultiProviderRoute).
THEOREM ServedAsNamedHolds == Spec => ServedAsNamed
<1>1. Inv /\ [Next]_vars => Inv'
  BY NextInv
<1>2. Inv /\ [Next]_vars => [\A a \in Agents : Served(a)]_vars
  BY NextInv
<1>3. QED
  BY <1>1, <1>2, InitInv, PTL DEF Spec, ServedAsNamed, Served

-----------------------------------------------------------------------------
(* Reading names. *)

CatalogPrefixes == {"openai", "moonshot", "zai", "minimax"}

LEMMA CatalogWords ==
  /\ \A w \in ProviderPrefixes \union {"", "kimi"} : w \in DOMAIN Lower /\ Lower[w] = w
  /\ \A e \in Entries : e.value.wire \in DOMAIN Lower
  /\ \A p \in AccountPrefixes :
       p # "" /\ p # "kimi" /\ p # "anthropic" /\ p \notin ProviderPrefixes
BY WordsAssumption DEF WordsAssumption

LEMMA EntryNames ==
  /\ ProviderPrefixes = CatalogPrefixes
  /\ \A e \in Entries : /\ e.value.prefix \in ProviderPrefixes
                        /\ e.value = Name(e.value.prefix, e.value.wire)
                        /\ Lower[e.value.prefix] = e.value.prefix
                        /\ e.value.prefix \in DOMAIN Lower /\ e.value.wire \in DOMAIN Lower
<1>1. ProviderPrefixes = CatalogPrefixes
  BY DEF ProviderPrefixes, Definitions, CatalogPrefixes
<1>2. ASSUME NEW e \in Entries
      PROVE  e.value.prefix \in ProviderPrefixes /\ e.value = Name(e.value.prefix, e.value.wire)
  <2>1. PICK d \in Definitions : \E m \in d.models : e.value = Name(d.provider, m.wire)
    BY DEF Entries
  <2>2. QED
    BY <2>1 DEF Name, ProviderPrefixes
<1>3. QED
  BY <1>1, <1>2, CatalogWords

LEMMA CatalogRoute ==
  ASSUME NEW id, NEW e \in Entries, e.value = Canonical(id),
         id \in [prefix : DOMAIN Lower, wire : DOMAIN Lower]
  PROVE  /\ id.wire = e.value.wire /\ ~ Account(id)
         /\ Lower[id.prefix] = id.prefix
         /\ id.prefix = e.value.prefix \/ (id.prefix = "kimi" /\ e.value.prefix = "moonshot")
         /\ ModelProvider(id) = e.value.prefix
<1>1. /\ e.value.prefix \in ProviderPrefixes /\ e.value = Name(e.value.prefix, e.value.wire)
      /\ Lower[e.value.prefix] = e.value.prefix
      /\ ProviderPrefixes = CatalogPrefixes
  BY EntryNames
<1>2. /\ id.wire = e.value.wire
      /\ id.prefix = e.value.prefix \/ (id.prefix = "kimi" /\ e.value.prefix = "moonshot")
  BY <1>1 DEF Canonical, Name
<1>3. ~ Account(id) /\ Lower[id.prefix] = id.prefix
  BY <1>1, <1>2, CatalogWords DEF Account
<1>4. Canonical(Lowered(id)).prefix = e.value.prefix
  BY <1>1, <1>2, <1>3 DEF Canonical, Lowered, Name, CatalogPrefixes
<1>5. QED
  BY <1>1, <1>2, <1>3, <1>4 DEF ModelProvider

LEMMA AccountRoute ==
  ASSUME NEW id, Account(id)
  PROVE  /\ ModelProvider(id) = id.prefix
         /\ \A e \in Entries : e.value # Canonical(id)
         /\ \A r \in Routes(id) : r.provider = id.prefix
<1>1. ModelProvider(id) = id.prefix
  BY DEF ModelProvider
<1>2. ASSUME NEW e \in Entries PROVE e.value # Canonical(id)
  <2>1. e.value.prefix \in ProviderPrefixes
    BY EntryNames
  <2>2. Canonical(id) = id /\ id.prefix \notin ProviderPrefixes
    BY CatalogWords DEF Account, Canonical
  <2>3. QED
    BY <2>1, <2>2
<1>3. QED
  BY <1>1, <1>2 DEF Routes

LEMMA OtherRoute ==
  ASSUME NEW id, ~ Account(id), NEW r \in Routes(id)
  PROVE  \E e \in Entries : /\ e.value = Canonical(id)
                            /\ r.provider = e.value.prefix /\ r.wire = e.value.wire
BY DEF Routes

\* A routed name has the provider it is routed to.
LEMMA RoutedProvider ==
  ASSUME NEW id \in [prefix : DOMAIN Lower, wire : DOMAIN Lower], NEW r \in Routes(id)
  PROVE  /\ ModelProvider(id) = r.provider
         /\ Account(id) <=> r.provider \in AccountPrefixes
         /\ r.provider # "anthropic"
<1>1. CASE Account(id)
  BY <1>1, AccountRoute, CatalogWords DEF Account
<1>2. CASE ~ Account(id)
  <2>1. PICK e \in Entries : e.value = Canonical(id) /\ r.provider = e.value.prefix
    BY <1>2, OtherRoute
  <2>2. /\ ModelProvider(id) = e.value.prefix
        /\ e.value.prefix \in ProviderPrefixes /\ ProviderPrefixes = CatalogPrefixes
    BY <2>1, CatalogRoute, EntryNames
  <2>3. QED
    BY <1>2, <2>1, <2>2, CatalogWords DEF CatalogPrefixes
<1>3. QED
  BY <1>1, <1>2

LEMMA OfNoAccount ==
  ASSUME NEW id, ~ Account(id), "" \notin ProviderPrefixes,
         NEW word, Canonical(Lowered(id)) = Name("", word)
  PROVE  ModelProvider(id) =
           IF Known(word) # {} THEN AnyOf(Known(word)).value.prefix
           ELSE "anthropic"
<1>1. Name("", word).prefix = "" /\ Name("", word).wire = word
  BY DEF Name
<1> HIDE DEF Name
<1>2. QED
  BY <1>1 DEF ModelProvider

\* So has a name without a prefix that the catalogue does not know.
LEMMA PlainProvider ==
  ASSUME NEW wire \in DOMAIN Lower
  PROVE  /\ Known(wire) = {} => ModelProvider(Name("", wire)) = "anthropic"
         /\ \A e \in Entries : wire = e.value.wire =>
              ModelProvider(Name("", wire)) = e.value.prefix
<1> DEFINE id == Name("", wire)
<1>1. Lower[""] = "" /\ "" \notin AccountPrefixes /\ "" \notin ProviderPrefixes
  BY EntryNames, CatalogWords DEF CatalogPrefixes
<1>2. ~ Account(id) /\ id.prefix = "" /\ id.wire = wire
  BY <1>1 DEF Account, Name
<1>3. Canonical(Lowered(id)) = Name("", Lower[wire])
  BY <1>1, <1>2 DEF Canonical, Lowered, Name
<1> HIDE DEF id
<1>4. Known(Lower[wire]) = Known(wire)
  BY CatalogAssumption DEF CatalogAssumption, Known
<1>5. ModelProvider(id) =
        IF Known(wire) # {} THEN AnyOf(Known(wire)).value.prefix ELSE "anthropic"
  BY <1>1, <1>2, <1>3, <1>4, OfNoAccount
<1>6. ASSUME NEW e \in Entries, wire = e.value.wire PROVE ModelProvider(id) = e.value.prefix
  <2>1. e \in Known(wire)
    BY <1>6 DEF Known
  <2>2. \A f \in Known(wire) : f.value = e.value
    BY <1>6, WordsAssumption DEF WordsAssumption, Known
  <2>3. AnyOf(Known(wire)) \in Known(wire)
    BY <2>1 DEF AnyOf
  <2>4. QED
    BY <1>5, <2>1, <2>2, <2>3
<1>7. QED
  BY <1>5, <1>6 DEF id

-----------------------------------------------------------------------------
(* The lookups agree. *)

LEMMA RoutedAgree ==
  ASSUME NEW id \in [prefix : DOMAIN Lower, wire : DOMAIN Lower], NEW r \in Routes(id)
  PROVE  Agreed(id, r)
<1>1. ModelProvider(id) = r.provider /\ r.provider # "anthropic"
  BY RoutedProvider
<1>2. ToolAllowed(id, "WebSearch") <=> Account(id)
  BY <1>1 DEF ToolAllowed
<1>3. ASSUME ~ Account(id)
      PROVE  \E e \in CatalogInfo(id), c \in Costs :
               e.value = Name(r.provider, r.wire) /\ c.key = Lowered(id) /\ c.long = e.long
  <2>1. PICK e \in Entries :
          e.value = Canonical(id) /\ r.provider = e.value.prefix /\ r.wire = e.value.wire
    BY <1>3, OtherRoute
  <2>2. e \in CatalogInfo(id) /\ e.value = Name(r.provider, r.wire)
    BY <2>1, EntryNames DEF CatalogInfo
  <2>3. /\ id.wire = e.value.wire
        /\ Lower[id.prefix] = id.prefix /\ Lower[e.value.prefix] = e.value.prefix
        /\ id.prefix = e.value.prefix \/ (id.prefix = "kimi" /\ e.value.prefix = "moonshot")
    BY <2>1, CatalogRoute, EntryNames
  <2>4. CASE id.prefix = e.value.prefix
    <3>1. Lowered(id) = Lowered(e.value)
      BY <2>3, <2>4 DEF Lowered
    <3>2. [key |-> Lowered(id), long |-> e.long] \in Costs
      BY <3>1 DEF Costs
    <3>3. QED
      BY <2>2, <3>2
  <2>5. CASE id.prefix = "kimi" /\ e.value.prefix = "moonshot"
    <3>1. Lowered(id) = Name("kimi", Lower[e.value.wire])
      BY <2>3, <2>5 DEF Lowered
    <3>2. [key |-> Lowered(id), long |-> e.long] \in Costs
      BY <2>5, <3>1 DEF Costs
    <3>3. QED
      BY <2>2, <3>2
  <2>6. QED
    BY <2>3, <2>4, <2>5
<1>4. QED
  BY <1>1, <1>2, <1>3 DEF Agreed

\* What the picker and the agents' model argument offer is routed.
LEMMA OfferedRouted == Picker \union AgentNames \subseteq RoutedNames
<1>1. ASSUME NEW e \in Entries PROVE e.value \in RoutedNames
  <2>1. e.value.prefix \in CatalogPrefixes /\ e.value = Name(e.value.prefix, e.value.wire)
        /\ e.value.prefix \in DOMAIN Lower /\ e.value.wire \in DOMAIN Lower
    BY EntryNames
  <2>2. Canonical(e.value) = e.value
    BY <2>1 DEF Canonical, CatalogPrefixes
  <2>3. Routes(e.value) # {}
    BY <2>2 DEF Routes
  <2>4. e.value \in [prefix : DOMAIN Lower, wire : DOMAIN Lower]
    BY <2>1 DEF Name
  <2>5. QED
    BY <2>3, <2>4 DEF RoutedNames
<1>2. ASSUME NEW e \in Entries, e.value.prefix = "moonshot"
      PROVE  Name("kimi", e.value.wire) \in RoutedNames
  <2>1. e.value = Name("moonshot", e.value.wire) /\ e.value.wire \in DOMAIN Lower
        /\ "kimi" \in DOMAIN Lower
    BY <1>2, EntryNames, CatalogWords
  <2>2. Canonical(Name("kimi", e.value.wire)) = e.value
    BY <2>1 DEF Canonical, Name
  <2>3. Routes(Name("kimi", e.value.wire)) # {}
    BY <2>2 DEF Routes
  <2>4. Name("kimi", e.value.wire) \in [prefix : DOMAIN Lower, wire : DOMAIN Lower]
    BY <2>1 DEF Name
  <2>5. QED
    BY <2>3, <2>4 DEF RoutedNames
<1>3. ASSUME NEW p \in AccountPrefixes, NEW alias \in DOMAIN NativeModel
      PROVE  Name(p, alias) \in RoutedNames
  <2>1. Name(p, alias).prefix = p /\ Name(p, alias).wire = alias
        /\ p \in DOMAIN Lower /\ alias \in DOMAIN Lower
    BY CatalogAssumption DEF Name, CatalogAssumption
  <2>2. Routes(Name(p, alias)) # {}
    BY <2>1 DEF Routes, Account
  <2>3. Name(p, alias) \in [prefix : DOMAIN Lower, wire : DOMAIN Lower]
    BY <2>1 DEF Name
  <2>4. QED
    BY <2>2, <2>3 DEF RoutedNames
<1>4. Picker \subseteq RoutedNames
  BY <1>1, <1>3 DEF Picker
<1>5. AgentNames \subseteq RoutedNames
  BY <1>1, <1>2 DEF AgentNames
<1>6. QED
  BY <1>4, <1>5

\* Every function that reads the name of a model agrees with the one that routes
\* it, for any account and any spelling of the words.
THEOREM LookupsAgreeHolds == Spec => []LookupsAgree
<1>1. RoutedNames \subseteq AgreedNames
  BY RoutedAgree DEF AgreedNames, RoutedNames
<1>2. LookupsAgree
  BY <1>1, OfferedRouted DEF LookupsAgree
<1>3. QED
  BY <1>2, PTL

-----------------------------------------------------------------------------
(* What a request contains fits who receives it. *)

Words == [prefix : DOMAIN Lower, wire : DOMAIN Lower]

\* Messages under whose name the one who gave them is found again.
Recorded ==
  {m \in [name : Words, by : Providers \union {"anthropic"}] : ModelProvider(m.name) = m.by}

\* The message an answer to the request will be recorded as.
Reply(sent) ==
  [name |-> Name(IF sent.to \in AccountPrefixes THEN sent.to ELSE "", sent.wire),
   by |-> sent.to]

\* What FitsReceiver says of one agent.
Fits(s) ==
  /\ s.sent.thinking = {m \in Range(s.history) : m.by = s.sent.to}
  /\ "WebSearch" \in s.sent.tools <=> s.sent.to \in {"anthropic"} \union AccountPrefixes
  /\ s.sent.to = "moonshot" =>
       /\ s.sent.inline = {}
       /\ {x.tool : x \in s.sent.added} \ {"WebSearch"} \subseteq s.sent.tools

FitInv(s) ==
  /\ s.history \in Seq(Recorded)
  /\ s.model = None \/ Usable(s.model)
  /\ s.at # "idle" => Usable(s.model)
  /\ s.at = "waiting" => Reply(s.sent) \in Recorded
  /\ s.sent # None => Fits(s)

AllFit == \A a \in Agents : FitInv(agents[a])

-----------------------------------------------------------------------------
(* Whom a request is for. *)

\* The one a request for the model id goes to, under the name wire.
ServedBy(id, to, wire) ==
  \/ Native(id) /\ to = "anthropic" /\ wire = NativeModel[id.wire]
  \/ \E r \in Routes(id) : to = r.provider /\ wire = r.wire

\* It is the provider that the model's name has, and an answer recorded from it
\* has the same one.
LEMMA Receiver ==
  ASSUME NEW id, Usable(id), NEW to, NEW wire, ServedBy(id, to, wire)
  PROVE  /\ ModelProvider(id) = to
         /\ Account(id) <=> to \in AccountPrefixes
         /\ Reply([to |-> to, wire |-> wire]) \in Recorded
<1> DEFINE name == Name(IF to \in AccountPrefixes THEN to ELSE "", wire)
<1> USE DEF Usable
<1>1. "anthropic" \notin AccountPrefixes /\ "" \in DOMAIN Lower
  BY CatalogWords
<1>2. ASSUME name \in Words, ModelProvider(name) = to, to \in Providers \union {"anthropic"}
      PROVE  Reply([to |-> to, wire |-> wire]) \in Recorded
  BY <1>2 DEF Reply, Recorded
<1> HIDE DEF name
<1>3. CASE Native(id) /\ to = "anthropic" /\ wire = NativeModel[id.wire]
  <2>1. id.prefix = "" /\ id.wire \in DOMAIN NativeModel /\ id \in Words
    BY <1>3 DEF Words
  <2>2. wire \in DOMAIN Lower /\ Known(wire) = {}
    BY <1>3, <2>1, WordsAssumption DEF WordsAssumption
  <2>3. name = Name("", wire)
    BY <1>1, <1>3 DEF name
  <2>4. ModelProvider(name) = to /\ name \in Words
    BY <1>1, <1>3, <2>2, <2>3, PlainProvider DEF Words, Name
  <2>5. ~ Account(id) /\ Routes(id) = {} /\ ~ Rejected(id)
    BY <1>3, <2>1, CatalogWords DEF Account, Native
  <2>6. ModelProvider(id) = "anthropic"
    <3>1. id = Name("", id.wire) /\ id.wire \in DOMAIN Lower
      BY <2>1 DEF Words, Name
    <3>2. Known(id.wire) = {}
      BY <2>5 DEF Rejected
    <3>3. QED
      BY <3>1, <3>2, PlainProvider
  <2>7. QED
    BY <1>1, <1>2, <1>3, <2>4, <2>5, <2>6
<1>4. ASSUME NEW r \in Routes(id), to = r.provider, wire = r.wire, Account(id)
      PROVE  /\ ModelProvider(id) = to
             /\ Account(id) <=> to \in AccountPrefixes
             /\ Reply([to |-> to, wire |-> wire]) \in Recorded
  <2>1. /\ ModelProvider(id) = id.prefix /\ to = id.prefix /\ to \in AccountPrefixes
        /\ \A e \in Entries : e.value # Canonical(id)
    BY <1>4, AccountRoute DEF Account
  <2>2. id.wire \in DOMAIN NativeModel /\ wire = NativeModel[id.wire]
    <3>1. \A e \in {x \in Entries : x.value = Canonical(id)} : FALSE
      BY <2>1
    <3>2. r \in {[provider |-> id.prefix, wire |-> NativeModel[w]] :
                   w \in {id.wire} \intersect DOMAIN NativeModel}
      BY <1>4, <3>1 DEF Routes
    <3>3. PICK w \in {id.wire} \intersect DOMAIN NativeModel :
            r = [provider |-> id.prefix, wire |-> NativeModel[w]]
      BY <3>2
    <3>4. r.wire = NativeModel[w] /\ w = id.wire /\ w \in DOMAIN NativeModel
      BY <3>3
    <3>5. QED
      BY <1>4, <3>4
  <2>3. wire \in DOMAIN Lower /\ to \in DOMAIN Lower
    BY <2>1, <2>2, WordsAssumption, CatalogAssumption DEF WordsAssumption, CatalogAssumption
  <2>4. name = Name(to, wire)
    BY <2>1 DEF name
  <2>5. Account(name) /\ name.prefix = to /\ name \in Words
    BY <2>1, <2>3, <2>4 DEF Account, Name, Words
  <2>6. ModelProvider(name) = to
    BY <2>5, AccountRoute
  <2>7. QED
    BY <1>2, <1>4, <2>1, <2>5, <2>6 DEF Providers
<1>5. ASSUME NEW r \in Routes(id), to = r.provider, wire = r.wire, ~ Account(id)
      PROVE  /\ ModelProvider(id) = to
             /\ Account(id) <=> to \in AccountPrefixes
             /\ Reply([to |-> to, wire |-> wire]) \in Recorded
  <2>1. PICK e \in Entries : to = e.value.prefix /\ wire = e.value.wire
    BY <1>5, OtherRoute
  <2>2. ModelProvider(id) = to /\ to \notin AccountPrefixes
    BY <1>5, RoutedProvider
  <2>3. name = Name("", wire)
    BY <2>2 DEF name
  <2>4. wire \in DOMAIN Lower /\ to \in ProviderPrefixes
    BY <2>1, EntryNames
  <2>5. name \in Words
    BY <1>1, <2>3, <2>4 DEF Name, Words
  <2>6. ModelProvider(name) = to
    BY <2>1, <2>3, <2>4, PlainProvider
  <2>7. QED
    BY <1>2, <1>5, <2>2, <2>4, <2>5, <2>6 DEF Providers
<1>6. QED
  BY <1>3, <1>4, <1>5 DEF ServedBy

\* A request made for an agent's model is one that fits.
LEMMA RequestFits ==
  ASSUME NEW a \in Agents, FitInv(agents[a]), Usable(agents[a].model),
         NEW to, NEW wire, ServedBy(agents[a].model, to, wire), NEW client, NEW added
  PROVE  LET q == Request(a, to, wire, client, added)
         IN /\ q.thinking = {m \in Range(agents[a].history) : m.by = to}
            /\ "WebSearch" \in q.tools <=> to \in {"anthropic"} \union AccountPrefixes
            /\ to = "moonshot" =>
                 /\ q.inline = {}
                 /\ {x.tool : x \in added} \ {"WebSearch"} \subseteq q.tools
            /\ q.to = to /\ q.wire = wire /\ q.added = added
            /\ Reply(q) \in Recorded
<1> DEFINE id == agents[a].model
           q == Request(a, to, wire, client, added)
           offered == Own \union AdditionsFor(to, added).tools
<1>1. /\ ModelProvider(id) = to
      /\ Account(id) <=> to \in AccountPrefixes
      /\ Reply([to |-> to, wire |-> wire]) \in Recorded
  BY Receiver
<1>2. /\ q.to = to /\ q.wire = wire /\ q.added = added
      /\ q.thinking = Thinking(a) /\ q.tools = Tools(a, offered)
      /\ q.inline = AdditionsFor(to, added).inline
  BY DEF Request
<1>3. Thinking(a) = {m \in Range(agents[a].history) : m.by = to}
  <2>1. \A m \in Range(agents[a].history) : m \in Recorded
    BY DEF FitInv, Range
  <2>2. QED
    BY <1>1, <2>1 DEF Thinking, Recorded
<1>4. \A t : t \in Tools(a, offered) <=> t \in offered /\ ToolAllowed(id, t)
  BY DEF Tools
<1>5. "WebSearch" \in Tools(a, offered) <=> to \in {"anthropic"} \union AccountPrefixes
  BY <1>1, <1>4 DEF ToolAllowed, Own
<1>6. ASSUME to = "moonshot"
      PROVE  /\ AdditionsFor(to, added).inline = {}
             /\ {x.tool : x \in added} \ {"WebSearch"} \subseteq Tools(a, offered)
  BY <1>4, <1>6 DEF AdditionsFor, ToolAllowed
<1>7. Reply(q) = Reply([to |-> to, wire |-> wire])
  BY <1>2 DEF Reply
<1> HIDE DEF q, offered
<1>8. /\ q.thinking = {m \in Range(agents[a].history) : m.by = to}
      /\ "WebSearch" \in q.tools <=> to \in {"anthropic"} \union AccountPrefixes
      /\ to = "moonshot" =>
           q.inline = {} /\ {x.tool : x \in added} \ {"WebSearch"} \subseteq q.tools
      /\ q.to = to /\ q.wire = wire /\ q.added = added
      /\ Reply(q) \in Recorded
  BY <1>1, <1>2, <1>3, <1>5, <1>6, <1>7
<1>9. QED
  BY <1>8 DEF q

-----------------------------------------------------------------------------
(* The steps. *)

\* Nothing but agent a changes, and what it sends fits.
FitStep(a) ==
  /\ DOMAIN agents' = Agents
  /\ \A b \in Agents \ {a} : agents'[b] = agents[b]
  /\ FitInv(agents'[a])

LEMMA QuietFits ==
  ASSUME NEW s, s.history \in Seq(Recorded), s.model = None \/ Usable(s.model),
         s.at # "waiting", s.at # "idle" => Usable(s.model), s.sent = None
  PROVE  FitInv(s)
BY DEF FitInv

LEMMA IdleFits ==
  ASSUME NEW model, NEW history \in Seq(Recorded), model = None \/ Usable(model)
  PROVE  FitInv(Idle(model, history))
<1> DEFINE s == Idle(model, history)
<1>1. s.at = "idle" /\ s.sent = None /\ s.model = model /\ s.history = history
  BY DEF Idle
<1> HIDE DEF s
<1>2. FitInv(s)
  BY <1>1, QuietFits
<1>3. QED
  BY <1>2 DEF s

LEMMA Becomes ==
  ASSUME Inv, NEW a \in Agents, NEW s, FitInv(s), agents' = [agents EXCEPT ![a] = s]
  PROVE  FitStep(a)
BY DEF Inv, FitStep

\* A step that leaves what is sent, and for whom, as it is.
LEMMA KeepsFit ==
  ASSUME Inv, AllFit, NEW a \in Agents, agents[a].at # "idle",
         DOMAIN agents' = Agents, \A b \in Agents \ {a} : agents'[b] = agents[b],
         agents'[a].at # "waiting",
         agents'[a].sent = agents[a].sent, agents'[a].model = agents[a].model,
         agents'[a].history = agents[a].history
  PROVE  FitStep(a)
<1>1. FitInv(agents[a])
  BY DEF AllFit
<1>2. Fits(agents[a]) => Fits(agents'[a])
  BY DEF Fits
<1>3. FitInv(agents'[a])
  BY <1>1, <1>2 DEF FitInv
<1>4. QED
  BY <1>3 DEF FitStep

LEMMA RestFits ==
  ASSUME AllFit, NEW a \in Agents
  PROVE  FitInv(Rest(a)) /\ agents[a].history \in Seq(Recorded)
BY IdleFits DEF Rest, AllFit, FitInv

LEMMA FailFits ==
  ASSUME Inv, AllFit, NEW a \in Agents, Fail(a)
  PROVE  FitStep(a)
BY RestFits, Becomes DEF Fail

LEMMA GivenUsable ==
  ASSUME AllFit, NEW a \in Agents, NEW id \in Models(a)
  PROVE  Usable(id)
<1>1. CASE id \in AgentIds[a]
  BY <1>1, RoutingAssumption DEF RoutingAssumption, Range
<1>2. CASE id = agents[a].model /\ id # None
  BY <1>2 DEF AllFit, FitInv
<1>3. QED
  BY <1>1, <1>2 DEF Models

LEMMA BusyFits ==
  ASSUME AllFit, NEW a \in Agents, NEW id \in Models(a), NEW at, at # "waiting"
  PROVE  FitInv(Busy(a, id, at))
<1> DEFINE s == Busy(a, id, at)
<1>1. s.at = at /\ s.sent = None /\ s.model = id /\ s.history = agents[a].history
  BY DEF Busy, Idle
<1> HIDE DEF s
<1>2. FitInv(s)
  BY <1>1, QuietFits, GivenUsable, RestFits
<1>3. QED
  BY <1>2 DEF s

LEMMA PrepareFits ==
  ASSUME Inv, AllFit, NEW a \in Agents, Prepare(a)
  PROVE  FitStep(a)
BY BusyFits, Becomes DEF Prepare

LEMMA SnapshotFits ==
  ASSUME Inv, AllFit, NEW a \in Agents, Snapshot(a)
  PROVE  FitStep(a)
<1> DEFINE text == RequestAttribution(a)
           hits == {s \in schemas : s.key = SchemaKey(agents[a].model, text)}
<1> HIDE DEF text, hits
<1>1. CASE agents' = [agents EXCEPT ![a] = Rest(a)]
  BY <1>1, RestFits, Becomes
<1>2. ASSUME NEW s \in hits,
             agents' = [agents EXCEPT ![a].at = "ready", ![a].snapshot = text, ![a].text = s.text]
      PROVE  FitStep(a)
  <2>1. /\ DOMAIN agents' = Agents /\ \A b \in Agents \ {a} : agents'[b] = agents[b]
        /\ agents'[a].at = "ready"
        /\ agents'[a].sent = agents[a].sent /\ agents'[a].model = agents[a].model
        /\ agents'[a].history = agents[a].history
    BY <1>2 DEF Inv, AgentInv, Fields
  <2>2. QED
    BY <2>1, KeepsFit DEF Snapshot
<1>3. CASE agents' = [agents EXCEPT ![a].at = "describing", ![a].snapshot = text]
  <2>1. /\ DOMAIN agents' = Agents /\ \A b \in Agents \ {a} : agents'[b] = agents[b]
        /\ agents'[a].at = "describing"
        /\ agents'[a].sent = agents[a].sent /\ agents'[a].model = agents[a].model
        /\ agents'[a].history = agents[a].history
    BY <1>3 DEF Inv, AgentInv, Fields
  <2>2. QED
    BY <2>1, KeepsFit DEF Snapshot
<1>4. QED
  BY <1>1, <1>2, <1>3 DEF Snapshot, text, hits

LEMMA DescribeFits ==
  ASSUME Inv, AllFit, NEW a \in Agents, Describe(a)
  PROVE  FitStep(a)
<1>1. /\ agents[a].at = "describing"
      /\ agents' = [agents EXCEPT ![a].at = "ready", ![a].text = Description(a)]
  BY DEF Describe
<1>2. /\ DOMAIN agents' = Agents /\ \A b \in Agents \ {a} : agents'[b] = agents[b]
      /\ agents'[a].at = "ready"
      /\ agents'[a].sent = agents[a].sent /\ agents'[a].model = agents[a].model
      /\ agents'[a].history = agents[a].history
  BY <1>1 DEF Inv, AgentInv, Fields
<1>3. QED
  BY <1>1, <1>2, KeepsFit

LEMMA SentFits ==
  ASSUME Inv, AllFit, NEW a \in Agents, agents[a].at \in {"ready", "waiting"},
         NEW to, NEW wire, ServedBy(agents[a].model, to, wire), NEW client, NEW added,
         Sent(a, Request(a, to, wire, client, added))
  PROVE  FitStep(a)
<1> DEFINE q == Request(a, to, wire, client, added)
<1>1. FitInv(agents[a]) /\ Usable(agents[a].model)
  BY DEF AllFit, FitInv
<1>2. /\ q.thinking = {m \in Range(agents[a].history) : m.by = to}
      /\ "WebSearch" \in q.tools <=> to \in {"anthropic"} \union AccountPrefixes
      /\ to = "moonshot" =>
           q.inline = {} /\ {x.tool : x \in added} \ {"WebSearch"} \subseteq q.tools
      /\ q.to = to /\ q.wire = wire /\ q.added = added
      /\ Reply(q) \in Recorded
  BY <1>1, RequestFits
<1> HIDE DEF q
<1>3. agents' = [agents EXCEPT ![a].at = "waiting", ![a].sent = q]
  BY DEF Sent, q
<1>4. /\ DOMAIN agents' = Agents /\ \A b \in Agents \ {a} : agents'[b] = agents[b]
      /\ agents'[a].at = "waiting" /\ agents'[a].sent = q
      /\ agents'[a].model = agents[a].model /\ agents'[a].history = agents[a].history
  BY <1>3 DEF Inv, AgentInv, Fields
<1>5. Fits(agents'[a])
  BY <1>2, <1>4 DEF Fits
<1>6. FitInv(agents'[a])
  BY <1>1, <1>2, <1>4, <1>5 DEF FitInv
<1>7. QED
  BY <1>4, <1>6 DEF FitStep

LEMMA RouteFits ==
  ASSUME Inv, AllFit, NEW a \in Agents, agents[a].at \in {"ready", "waiting"}, NEW added,
         Route(a, added)
  PROVE  FitStep(a)
<1> DEFINE id == agents[a].model
<1>1. CASE Fail(a)
  BY <1>1, FailFits
<1>2. CASE /\ Native(id)
           /\ Sent(a, Request(a, "anthropic", NativeModel[id.wire], [native |-> native], added))
  <2>1. ServedBy(id, "anthropic", NativeModel[id.wire])
    BY <1>2 DEF ServedBy
  <2>2. QED
    BY <1>2, <2>1, SentFits
<1>3. ASSUME NEW r \in Routes(id),
             Sent(a, Request(a, r.provider, r.wire, ClientFor(r.provider), added))
      PROVE  FitStep(a)
  <2>1. ServedBy(id, r.provider, r.wire)
    BY DEF ServedBy
  <2>2. QED
    BY <1>3, <2>1, SentFits
<1>4. QED
  BY <1>1, <1>2, <1>3 DEF Route

LEMMA SendFits ==
  ASSUME Inv, AllFit, NEW a \in Agents, Send(a) \/ Retry(a)
  PROVE  FitStep(a)
<1>1. agents[a].at \in {"ready", "waiting"} /\ \E added : Route(a, added)
  BY DEF Send, Retry
<1>2. QED
  BY <1>1, RouteFits

LEMMA AnswerFits ==
  ASSUME Inv, AllFit, NEW a \in Agents, Answer(a)
  PROVE  FitStep(a)
<1> DEFINE reply == Reply(agents[a].sent)
           s == Idle(None, Append(agents[a].history, reply))
<1>1. reply \in Recorded /\ agents[a].history \in Seq(Recorded)
  BY DEF Answer, AllFit, FitInv
<1>2. agents' = [agents EXCEPT ![a] = Idle(None, Append(@.history, reply))]
  BY DEF Answer, Reply
<1> HIDE DEF reply
<1>3. Append(agents[a].history, reply) \in Seq(Recorded)
  BY <1>1
<1>4. FitInv(s)
  BY <1>3, IdleFits
<1>5. agents' = [agents EXCEPT ![a] = s]
  BY <1>2
<1> HIDE DEF s
<1>6. QED
  BY <1>4, <1>5, Becomes

LEMMA ResumeFits ==
  ASSUME Inv, AllFit, NEW a \in Agents, Resume(a)
  PROVE  FitStep(a)
<1> DEFINE id == Restored(Last(agents[a].history).name)
           model == IF id \in Allowed THEN id ELSE NativeDefault
<1>1. agents' = [agents EXCEPT ![a] = Idle(model, agents[a].history)]
  BY DEF Resume
<1>2. Usable(model)
  <2>1. model \in Allowed \union {NativeDefault}
    OBVIOUS
  <2>2. QED
    BY <2>1, RoutingAssumption DEF RoutingAssumption
<1> HIDE DEF model
<1>3. FitInv(Idle(model, agents[a].history))
  BY <1>2, RestFits, IdleFits
<1>4. QED
  BY <1>1, <1>3, Becomes

LEMMA CountedFits ==
  ASSUME Inv, AllFit, NEW a \in Agents, NEW result, Counted(a, result)
  PROVE  FitStep(a)
<1> DEFINE s == [Rest(a) EXCEPT !.counted = result]
<1>1. s.at = "idle" /\ s.sent = None /\ s.model = None /\ s.history = agents[a].history
  BY DEF Rest, Idle
<1> HIDE DEF s
<1>2. FitInv(s)
  BY <1>1, RestFits DEF FitInv
<1>3. QED
  BY <1>2, Becomes DEF Counted, s

LEMMA CountFits ==
  ASSUME Inv, AllFit, NEW a \in Agents, Count(a)
  PROVE  FitStep(a)
<1>1. PICK id \in Models(a) :
        Counted(a, "error") \/ agents' = [agents EXCEPT ![a] = Busy(a, id, "counting")]
  BY DEF Count
<1>2. QED
  BY <1>1, CountedFits, BusyFits, Becomes

LEMMA CountReplyFits ==
  ASSUME Inv, AllFit, NEW a \in Agents, CountReply(a)
  PROVE  FitStep(a)
<1>1. Counted(a, "number") \/ CountFailed(a)
  BY DEF CountReply
<1>2. QED
  BY <1>1, CountedFits DEF CountFailed

LEMMA InitFits == Init => AllFit
<1> SUFFICES ASSUME Init PROVE AllFit
  OBVIOUS
<1>1. \A a \in Agents : agents[a] = Idle(None, <<>>)
  BY DEF Init
<1>2. FitInv(Idle(None, <<>>))
  <2>1. <<>> \in Seq(Recorded)
    OBVIOUS
  <2>2. QED
    BY <2>1, IdleFits
<1>3. QED
  BY <1>1, <1>2 DEF AllFit

LEMMA NextFits ==
  ASSUME Inv, AllFit, [Next]_vars
  PROVE  AllFit'
<1>1. CASE UNCHANGED agents
  BY <1>1 DEF AllFit, FitInv, Fits
<1>2. ASSUME NEW a \in Agents,
             \/ Prepare(a) \/ Snapshot(a) \/ Describe(a)
             \/ Send(a) \/ Retry(a) \/ Answer(a) \/ GiveUp(a)
             \/ Count(a) \/ CountReply(a) \/ Resume(a)
      PROVE  AllFit'
  <2>1. FitStep(a)
    BY <1>2, PrepareFits, SnapshotFits, DescribeFits, SendFits, AnswerFits, FailFits,
       CountFits, CountReplyFits, ResumeFits DEF GiveUp
  <2>2. QED
    BY <2>1 DEF FitStep, AllFit
<1>3. QED
  BY <1>1, <1>2 DEF Next, Reconfigure, vars

\* A request keeps the thinking of its receiver's messages and no other's, offers
\* WebSearch to Anthropic and its accounts alone, and lists for Moonshot what was
\* added in a message, for any names, histories and additions (the thinking filter,
\* _ccMultiProviderToolAllowed, _ccMultiProviderMoonshotRequest).
THEOREM FitsReceiverHolds == Spec => []FitsReceiver
<1>1. AllFit => FitsReceiver
  BY DEF AllFit, FitInv, Fits, FitsReceiver
<1>2. Inv /\ AllFit /\ [Next]_vars => Inv' /\ AllFit'
  BY NextInv, NextFits
<1>3. Init => Inv /\ AllFit
  BY InitInv, InitFits
<1>4. QED
  BY <1>1, <1>2, <1>3, PTL DEF Spec
=============================================================================
