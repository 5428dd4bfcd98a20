---------------------------- MODULE ModelCatalog ----------------------------
(***************************************************************************)
(* The models the patched client knows besides its own (patches.py): the   *)
(* catalogue, and the functions that read a model name.  A name is what is *)
(* in front of its first colon, "" if it has none, and the rest.           *)
(***************************************************************************)
EXTENDS Naturals, FiniteSets

CONSTANTS
  Lower,            \* toLowerCase on the words of the instance
  AccountPrefixes,  \* anthropic1, anthropic2, ...
  AccountLike,      \* what /^anthropic[0-9]*:/i takes for an account
  NativeModel,      \* the client's own catalogue: aliases and ids to model ids
  None

ASSUME CatalogAssumption ==
  /\ \A w \in DOMAIN Lower : Lower[w] \in DOMAIN Lower /\ Lower[Lower[w]] = Lower[w]
  /\ AccountPrefixes \subseteq AccountLike
  /\ AccountLike \union DOMAIN NativeModel \subseteq DOMAIN Lower

AnyOf(S) == CHOOSE x \in S : TRUE

Name(prefix, wire) == [prefix |-> prefix, wire |-> wire]

-----------------------------------------------------------------------------
(* The catalogue: wire name, hidden from the picker, context window, output *)
(* limit, and the prompt length above which the long-prompt price applies.  *)

Model(wire, hidden, window, output, long) ==
  [wire |-> wire, hidden |-> hidden, window |-> window, output |-> output, long |-> long]

OpenAI == {
  Model("gpt-6-astra",   FALSE, 272000, 128000, 272000),
  Model("gpt-6.1-sol",   FALSE, 272000, 128000, 272000),
  Model("gpt-6-sol",     TRUE,  272000, 128000, 272000),
  Model("gpt-6-luna",    FALSE, 272000, 128000, 272000),
  Model("gpt-5.6-sol",   TRUE,  272000, 128000, 272000),
  Model("gpt-5.6-terra", FALSE, 272000, 128000, 272000),
  Model("gpt-5.6-luna",  TRUE,  272000, 128000, 272000)}

Moonshot == {
  Model("kimi-k3",        FALSE, 1048576, 131072, None),
  Model("kimi-k2.7-code", TRUE,  262144,  32768,  None)}

ZAI == {
  Model("glm-5.3",       FALSE, 1000000, 131072, None),
  Model("glm-5.3-flash", FALSE, 1000000, 131072, None),
  Model("glm-5.2",       TRUE,  1000000, 131072, None),
  Model("glm-5-turbo",   TRUE,  200000,  131072, None),
  Model("glm-4.7",       TRUE,  204800,  131072, None),
  Model("glm-4.5-air",   TRUE,  131072,  98304,  None)}

MiniMax == {
  Model("MiniMax-M3",   FALSE, 1048576, 512000, 512000),
  Model("MiniMax-M2.7", TRUE,  204800,  131072, None)}

\* base: whether the base URL is read from the environment; gate: whether an
\* availability variable must be set.
Definitions == {
  [provider |-> "openai",   base |-> TRUE,  gate |-> TRUE,  models |-> OpenAI],
  [provider |-> "moonshot", base |-> FALSE, gate |-> FALSE, models |-> Moonshot],
  [provider |-> "zai",      base |-> FALSE, gate |-> FALSE, models |-> ZAI],
  [provider |-> "minimax",  base |-> FALSE, gate |-> FALSE, models |-> MiniMax]}

ProviderPrefixes == {d.provider : d \in Definitions}

Entries ==
  UNION {{[value |-> Name(d.provider, m.wire), hidden |-> m.hidden,
           window |-> m.window, output |-> m.output, long |-> m.long]
          : m \in d.models} : d \in Definitions}

Lowered(id) == Name(Lower[id.prefix], Lower[id.wire])

\* Faulty variant: ids saved under the former prefix have no price.
CostsWithoutSaved == {[key |-> Lowered(e.value), long |-> e.long] : e \in Entries}

\* The price table, under lower-case names, and under the former prefix too.
Costs ==
  {[key |-> Lowered(e.value), long |-> e.long] : e \in Entries}
  \union {[key |-> Name("kimi", Lower[e.value.wire]), long |-> e.long]
          : e \in {x \in Entries : x.value.prefix = "moonshot"}}

-----------------------------------------------------------------------------
(* Reading a name. *)

\* kimi: is the former name of moonshot:.
Canonical(id) == IF id.prefix = "kimi" THEN Name("moonshot", id.wire) ELSE id

Account(id) == id.prefix \in AccountPrefixes

Known(wire) == {e \in Entries : Lower[e.value.wire] = Lower[wire]}

\* The words of the catalogue are lower-case but for those of wire names, which
\* differ in more than case; the accounts' are none of them, and the client's own
\* models have no name of the catalogue.
ASSUME WordsAssumption ==
  /\ \A w \in {"", "kimi"} \union ProviderPrefixes : w \in DOMAIN Lower /\ Lower[w] = w
  /\ \A e \in Entries : e.value.wire \in DOMAIN Lower
  /\ \A e, f \in Entries : Lower[e.value.wire] = Lower[f.value.wire] => e.value = f.value
  /\ AccountPrefixes \intersect ({"", "kimi", "anthropic"} \union ProviderPrefixes) = {}
  /\ \A w \in DOMAIN NativeModel :
       NativeModel[w] \in DOMAIN Lower /\ Known(NativeModel[w]) = {}

\* _ccMultiProviderModelInfo: where a name is routed to, at most one place.
Routes(id) ==
  {[provider |-> id.prefix, wire |-> NativeModel[w]] :
     w \in IF Account(id) THEN {id.wire} \intersect DOMAIN NativeModel ELSE {}}
  \union {[provider |-> e.value.prefix, wire |-> e.value.wire] :
            e \in {x \in Entries : x.value = Canonical(id)}}

\* Its errors: no such account or model, a known prefix with an unknown model or
\* in the wrong case, a known model without its prefix.
Rejected(id) ==
  /\ Routes(id) = {}
  /\ \/ id.prefix \in AccountLike
     \/ Lower[Canonical(id).prefix] \in ProviderPrefixes
     \/ Known(id.wire) # {}

\* What the native client serves itself.
Native(id) == Routes(id) = {} /\ ~Rejected(id)

\* _ccMultiProviderCatalogInfo, for names that are not accounts.
CatalogInfo(id) == {e \in Entries : e.value = Canonical(id)}

\* Faulty variant: the former prefix is not translated.
ProviderAsWritten(id) ==
  IF Account(id) \/ Lower[id.prefix] \in ProviderPrefixes THEN Lower[id.prefix]
  ELSE "anthropic"

\* _ccMultiProviderModelProvider.
ModelProvider(id) ==
  LET low == Canonical(Lowered(id))
  IN IF Account(id) THEN id.prefix
     ELSE IF low.prefix \in ProviderPrefixes THEN low.prefix
     ELSE IF low.prefix = "" /\ Known(low.wire) # {}
       THEN AnyOf(Known(low.wire)).value.prefix
     ELSE "anthropic"

ToolAllowed(id, tool) ==
  tool # "WebSearch" \/ ModelProvider(id) = "anthropic" \/ Account(id)

\* The catalogue names a resumed session may mean by the name its last message
\* recorded: a qualified one, or a bare wire name.
Candidates(id) ==
  {e.value : e \in {x \in Entries : \/ x.value = Canonical(id)
                                     \/ id = Name("", x.value.wire)}}

\* The names an agent's model argument may take, besides the native ones.
AgentNames ==
  {e.value : e \in Entries}
  \union {Name("kimi", e.value.wire) : e \in {x \in Entries : x.value.prefix = "moonshot"}}
=============================================================================
