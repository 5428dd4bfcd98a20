---------------------------- MODULE ModelRouting ----------------------------
(***************************************************************************)
(* The multi-provider patch at run time (patches.py, "in-process           *)
(* multi-provider Anthropic SDK routing").  Agents of one process choose   *)
(* models by name, describe their tools for the chosen model, and send     *)
(* their requests through _ccMultiProviderRoute, which picks or builds the *)
(* client of the provider from what the environment holds at that moment.  *)
(*                                                                         *)
(* Describing the Bash tool is asynchronous, its descriptions are cached   *)
(* for all agents, and the commit attribution they contain depends on the  *)
(* model of the request and on settings that may change meanwhile.         *)
(***************************************************************************)
EXTENDS ModelCatalog, Sequences, SequencesExt

CONSTANTS
  Agents,
  AgentIds,      \* [Agents -> the names the agent may be given]
  NativeDefault, \* the model of a session that restores none
  PickerAliases, \* haiku, sonnet, opus, fable
  Allowed,       \* the names the administrator's settings admit
  Settings,      \* [provider -> values of its environment variables]
  StartSettings, \* those the process starts with
  NativeClients, \* identities of the native client objects
  Policies,      \* commit attribution settings: "default", "custom", "off"
  Additions,     \* sets of tool additions in the middle of a conversation
  MaxRequests,   \* bound: requests and counts of all agents
  MaxChanges     \* bound: changes of environment, client and settings

Providers == ProviderPrefixes \union AccountPrefixes

\* A name the catalogue does not know is the native client's, and then it is one of
\* the client's own: aliases and ids have no prefix.
Usable(id) ==
  /\ id \in [prefix : DOMAIN Lower, wire : DOMAIN Lower]
  /\ Native(id) => id.prefix = "" /\ id.wire \in DOMAIN NativeModel

ASSUME RoutingAssumption ==
  /\ DOMAIN AgentIds = Agents
  /\ Policies \subseteq {"default", "custom", "off"}
  /\ None \notin {"number", "estimate", "error"}
  /\ DOMAIN Settings = Providers
  /\ DOMAIN StartSettings = Providers
  /\ \A id \in (UNION Range(AgentIds)) \union Allowed \union {NativeDefault} : Usable(id)

VARIABLES
  env,      \* [Providers -> what the environment says]
  native,   \* the current native client
  policy,   \* the attribution setting
  changes,  \* how often one of the three has changed
  asked,    \* requests and counts begun
  clients,  \* [Providers -> cached client or None] (_ccMultiProviderClients)
  schemas,  \* cached descriptions of the Bash tool
  agents    \* [Agents -> state of the agent]

outside == <<env, native, policy, changes>>
rest == <<outside, asked>>
vars == <<env, native, policy, changes, asked, clients, schemas, agents>>

\* Between requests: an agent's next request may be for any of its models, so
\* none is kept but the one a resumed session was given.
Idle(model, history) ==
  [at |-> "idle", model |-> model, history |-> history,
   snapshot |-> None, text |-> None, sent |-> None, counted |-> None]

Rest(a) == Idle(None, agents[a].history)
Busy(a, id, at) == [Idle(id, agents[a].history) EXCEPT !.at = at]
Models(a) == AgentIds[a] \union ({agents[a].model} \ {None})

Init ==
  /\ env = StartSettings
  /\ native \in NativeClients
  /\ policy \in Policies
  /\ changes = 0
  /\ asked = 0
  /\ clients = [p \in Providers |-> None]
  /\ schemas = {}
  /\ agents = [a \in Agents |-> Idle(None, <<>>)]

-----------------------------------------------------------------------------
(* The world outside the patched functions. *)

Reconfigure ==
  /\ changes < MaxChanges
  /\ changes' = changes + 1
  /\ \/ /\ \E p \in Providers : \E s \in Settings[p] \ {env[p]} : env' = [env EXCEPT ![p] = s]
        /\ UNCHANGED <<native, policy>>
     \/ native' \in NativeClients \ {native} /\ UNCHANGED <<env, policy>>
     \/ policy' \in Policies \ {policy} /\ UNCHANGED <<env, native>>
  /\ UNCHANGED <<asked, clients, schemas, agents>>

-----------------------------------------------------------------------------
(* Attribution: which text an agent is told to put under its commits. *)

\* _ccMultiProviderAttribution: the catalogue's label and domain, else the
\* native client's; an account is credited as its native model.
Credit(id) ==
  IF Routes(id) # {} /\ ~Account(id) THEN Canonical(id) ELSE Name("", id.wire)

\* The text the settings give, for every model.
Custom == Name("custom", "")

Attribution(id) ==
  CASE policy = "default" -> Credit(id)
    [] policy = "custom"  -> Custom
    [] policy = "off"     -> None

\* The text for the model of the request that is being prepared, not for the
\* model that is current in the session.
RequestAttribution(a) == Attribution(agents[a].model)

\* Faulty variant: native dimensions only.
SchemaKeyNative(model, snapshot) == model

\* What the key gains: the model and the snapshot.
SchemaKey(model, snapshot) == <<model, snapshot>>

Prepare(a) ==
  /\ agents[a].at = "idle"
  /\ asked < MaxRequests
  /\ asked' = asked + 1
  /\ \E id \in Models(a) : agents' = [agents EXCEPT ![a] = Busy(a, id, "policy")]
  /\ UNCHANGED <<outside, clients, schemas>>

\* The awaited snapshot is there; a description is taken from the cache, or the
\* prompt is awaited.
Snapshot(a) ==
  LET text == RequestAttribution(a)
      hits == {s \in schemas : s.key = SchemaKey(agents[a].model, text)}
  IN /\ agents[a].at = "policy"
     /\ \/ /\ Account(agents[a].model) /\ Routes(agents[a].model) = {}   \* it throws
           /\ agents' = [agents EXCEPT ![a] = Rest(a)]
        \/ /\ ~(Account(agents[a].model) /\ Routes(agents[a].model) = {})
           /\ \/ \E s \in hits :
                   agents' = [agents EXCEPT ![a].at = "ready", ![a].snapshot = text,
                                            ![a].text = s.text]
              \/ /\ hits = {}
                 /\ agents' = [agents EXCEPT ![a].at = "describing", ![a].snapshot = text]
     /\ UNCHANGED <<rest, clients, schemas>>

\* The prompt uses the snapshot its context carries.
Description(a) == agents[a].snapshot

Describe(a) ==
  /\ agents[a].at = "describing"
  /\ agents' = [agents EXCEPT ![a].at = "ready", ![a].text = Description(a)]
  /\ schemas' = schemas \union
       {[key |-> SchemaKey(agents[a].model, agents[a].snapshot), text |-> Description(a)]}
  /\ UNCHANGED <<rest, clients>>

-----------------------------------------------------------------------------
(* Sending. *)

\* Faulty variant: a key is compared, an address is not.
TransportChangedByToken(p) ==
  clients[p] = None \/ clients[p].token # env[p].token \/ clients[p].native # native

\* The cached client was built for another token, address or native client.
TransportChanged(p) ==
  \/ clients[p] = None
  \/ clients[p].token # env[p].token
  \/ clients[p].base # env[p].base
  \/ clients[p].native # native

\* _ccMultiProviderCredential.
Configured(p) == env[p].token # None /\ env[p].base # None /\ env[p].gate

ClientFor(p) ==
  IF TransportChanged(p)
    THEN [token |-> env[p].token, base |-> env[p].base, native |-> native]
    ELSE clients[p]

\* Messages whose thinking the request keeps.
Thinking(a) ==
  {m \in Range(agents[a].history) :
     ModelProvider(m.name) = ModelProvider(agents[a].model)}

\* The tools the model may have: they are filtered where their schemas are built
\* and again where the request is routed, with what was moved to the list by then.
Tools(a, tools) == {t \in tools : ToolAllowed(agents[a].model, t)}

\* Those of the request before anything is added to it.
Own == {"Bash", "WebSearch"}

\* Tool additions, Moonshot's moved to the tool list: a reference needs a
\* definition of what it names, in the list or among the additions.
Incompatible(p, listed, added) ==
  /\ p = "moonshot"
  /\ \E x \in added :
       x.reference /\ x.tool \notin listed \union {y.tool : y \in {z \in added : ~z.reference}}

AdditionsFor(p, added) ==
  IF p = "moonshot" THEN [tools |-> {x.tool : x \in added}, inline |-> {}]
  ELSE [tools |-> {}, inline |-> added]

\* Z.ai takes the attribution of the tool's schema from the system prompt too.
Block(a, to) == IF to = "zai" THEN agents[a].snapshot ELSE None

Request(a, to, wire, client, added) ==
  [to |-> to, wire |-> wire, client |-> client, thinking |-> Thinking(a),
   tools |-> Tools(a, Own \union AdditionsFor(to, added).tools),
   added |-> added,
   inline |-> AdditionsFor(to, added).inline,
   text |-> agents[a].text,
   block |-> Block(a, to)]

Sent(a, request) == agents' = [agents EXCEPT ![a].at = "waiting", ![a].sent = request]

Fail(a) == agents' = [agents EXCEPT ![a] = Rest(a)]

\* _ccMultiProviderRoute, then messages.create on the client it returns.
Route(a, added) ==
  LET id == agents[a].model
  IN \/ /\ Native(id)
        /\ Sent(a, Request(a, "anthropic", NativeModel[id.wire], [native |-> native], added))
        /\ UNCHANGED clients
     \/ Rejected(id) /\ Fail(a) /\ UNCHANGED clients
     \/ \E r \in Routes(id) :
          \/ ~Configured(r.provider) /\ Fail(a) /\ clients' = [clients EXCEPT ![r.provider] = None]
          \/ /\ Configured(r.provider)
             /\ clients' = [clients EXCEPT ![r.provider] = ClientFor(r.provider)]
             /\ \/ Incompatible(r.provider, Tools(a, Own), added) /\ Fail(a)
                \/ /\ ~Incompatible(r.provider, Tools(a, Own), added)
                   /\ Sent(a, Request(a, r.provider, r.wire, ClientFor(r.provider), added))

Send(a) ==
  /\ agents[a].at = "ready"
  /\ \E added \in Additions : Route(a, added)
  /\ UNCHANGED <<rest, schemas>>

\* The native client tries again: the attempt is routed anew.
Retry(a) ==
  /\ agents[a].at = "waiting"
  /\ Route(a, agents[a].sent.added)
  /\ UNCHANGED <<rest, schemas>>

\* The answer is recorded with the model that gave it: an account's name
\* carries the account, the other providers' do not.
Answer(a) ==
  LET sent == agents[a].sent
      name == Name(IF sent.to \in AccountPrefixes THEN sent.to ELSE "", sent.wire)
  IN /\ agents[a].at = "waiting"
     /\ agents' = [agents EXCEPT ![a] =
          Idle(None, Append(@.history, [name |-> name, by |-> sent.to]))]
     /\ UNCHANGED <<rest, clients, schemas>>

GiveUp(a) ==
  /\ agents[a].at = "waiting"
  /\ Fail(a)
  /\ UNCHANGED <<rest, clients, schemas>>

\* _ccMultiProviderPickerCatalog: what the environment makes available.
Picker ==
  {e.value : e \in {x \in Entries : ~x.hidden /\ Configured(x.value.prefix)}}
  \union {Name(p, alias) : p \in {x \in AccountPrefixes : Configured(x)},
                           alias \in PickerAliases \intersect DOMAIN NativeModel}

-----------------------------------------------------------------------------
(* Counting tokens. *)

Counted(a, result) == agents' = [agents EXCEPT ![a] = [Rest(a) EXCEPT !.counted = result]]

\* _ccMultiProviderPreflight comes first, then the client is awaited.
Count(a) ==
  /\ agents[a].at = "idle"
  /\ asked < MaxRequests
  /\ asked' = asked + 1
  /\ \E id \in Models(a) :
       \/ Rejected(id) /\ Counted(a, "error") /\ UNCHANGED clients
       \/ \E r \in Routes(id) :
            /\ ~Configured(r.provider)
            /\ Counted(a, "error")
            /\ clients' = [clients EXCEPT ![r.provider] = None]
       \/ /\ Native(id) \/ \E r \in Routes(id) : Configured(r.provider)
          /\ agents' = [agents EXCEPT ![a] = Busy(a, id, "counting")]
          /\ UNCHANGED clients
  /\ UNCHANGED <<outside, schemas>>

\* Only the native client's failures fall back to an estimate.
CountFailed(a) == Counted(a, IF Routes(agents[a].model) # {} THEN "error" ELSE "estimate")

\* The environment may have changed meanwhile; the answer may have no number.
CountReply(a) ==
  /\ agents[a].at = "counting"
  /\ \/ Native(agents[a].model) /\ UNCHANGED clients /\ (Counted(a, "number") \/ CountFailed(a))
     \/ \E r \in Routes(agents[a].model) :
          \/ /\ ~Configured(r.provider)
             /\ CountFailed(a)
             /\ clients' = [clients EXCEPT ![r.provider] = None]
          \/ /\ Configured(r.provider)
             /\ Counted(a, "number") \/ CountFailed(a)
             /\ clients' = [clients EXCEPT ![r.provider] = ClientFor(r.provider)]
  /\ UNCHANGED <<rest, schemas>>

-----------------------------------------------------------------------------
(* Resuming a session restores the model of its last message. *)

\* An account, or the one model of the catalogue the name can mean; otherwise
\* the native client restores the name itself.
Restored(name) ==
  IF ~Account(name) /\ Cardinality(Candidates(name)) = 1
    THEN AnyOf(Candidates(name))
    ELSE name

Resume(a) ==
  /\ agents[a].at = "idle"
  /\ agents[a].history # <<>>
  /\ LET id == Restored(Last(agents[a].history).name)
     IN agents' = [agents EXCEPT ![a] =
          Idle(IF id \in Allowed THEN id ELSE NativeDefault, @.history)]
  /\ UNCHANGED <<rest, clients, schemas>>

Next ==
  \/ Reconfigure
  \/ \E a \in Agents :
       \/ Prepare(a) \/ Snapshot(a) \/ Describe(a)
       \/ Send(a) \/ Retry(a) \/ Answer(a) \/ GiveUp(a)
       \/ Count(a) \/ CountReply(a) \/ Resume(a)

Spec == Init /\ [][Next]_vars

-----------------------------------------------------------------------------
(* Properties. *)

\* Every attempt goes where the model's name says, with the token, address and
\* native client in force when it is made; missing configuration is an error and
\* never a fallback to another account, nor a count to an estimate
\* (_ccMultiProviderRoute, and the countTokens error handler).
ServedAsNamed == [][\A a \in Agents :
  LET id == agents[a].model
      sent == agents'[a].sent
  IN /\ sent # None /\ sent # agents[a].sent =>
          \/ Native(id) /\ sent.to = "anthropic" /\ sent.client.native = native
          \/ \E r \in Routes(id) :
               /\ sent.to = r.provider /\ sent.wire = r.wire
               /\ sent.client = [token |-> env[r.provider].token,
                                 base |-> env[r.provider].base, native |-> native]
     /\ agents'[a].counted = "estimate" /\ agents[a].counted # "estimate" => Native(id)]_vars

\* The Bash description and Z.ai's system block of one request name the same
\* attribution, the one of the request's own model, whatever the other agents
\* and the settings did while it was prepared or retried
\* (_thread_modern_attribution, _transform_attribution_route).
OneVoice == \A a \in Agents :
  LET sent == agents[a].sent
  IN sent # None =>
       /\ sent.text \in {Credit(agents[a].model), Custom, None}
       /\ sent.to = "zai" => sent.block = sent.text

\* A request keeps the thinking its receiver produced and no other's, offers
\* WebSearch to Anthropic alone, and lists for Moonshot every other tool that was
\* added in a message (the thinking filter, _ccMultiProviderToolAllowed,
\* _ccMultiProviderMoonshotRequest).
FitsReceiver == \A a \in Agents :
  LET sent == agents[a].sent
  IN sent # None =>
       /\ sent.thinking = {m \in Range(agents[a].history) : m.by = sent.to}
       /\ "WebSearch" \in sent.tools <=> sent.to \in {"anthropic"} \union AccountPrefixes
       /\ sent.to = "moonshot" =>
            /\ sent.inline = {}
            /\ {x.tool : x \in sent.added} \ {"WebSearch"} \subseteq sent.tools

\* The functions that read a name agree, for every name that is routed, and the
\* picker and the agents' model argument offer no other: the name has that
\* provider for the thinking filter and the tools, and an external one a
\* catalogue entry and a price with the same long-prompt limit.  Requests change
\* none of this: it is enough to look before the first one
\* (_ccMultiProviderModelInfo, _ccMultiProviderModelProvider,
\* _ccMultiProviderCatalogInfo, _model_costs_patch).
Agreed(id, r) ==
  /\ ModelProvider(id) = r.provider
  /\ ToolAllowed(id, "WebSearch") <=> Account(id)
  /\ Account(id) \/ \E e \in CatalogInfo(id), c \in Costs :
       e.value = Name(r.provider, r.wire) /\ c.key = Lowered(id) /\ c.long = e.long

RoutedNames == {id \in [prefix : DOMAIN Lower, wire : DOMAIN Lower] : Routes(id) # {}}
AgreedNames == {id \in RoutedNames : \A r \in Routes(id) : Agreed(id, r)}

LookupsAgree == asked = 0 => RoutedNames \union Picker \union AgentNames \subseteq AgreedNames
=============================================================================
