--------------------------- MODULE MCModelRouting ---------------------------
(* Two agents, three names of each kind, and an environment that changes. *)
EXTENDS ModelRouting

CONSTANTS main, sub

MCProviders == {"openai", "moonshot", "zai", "minimax", "anthropic1", "anthropic2"}

Upper == [w \in {"MiniMax-M3", "MiniMax-M2.7"} |->
            IF w = "MiniMax-M3" THEN "minimax-m3" ELSE "minimax-m2.7"]

Words ==
  MCProviders \union {"", "kimi", "anthropic0", "opus", "claude-opus",
    "gpt-6-astra", "gpt-6.1-sol", "gpt-6-sol", "gpt-6-luna", "gpt-5.6-sol", "gpt-5.6-terra",
    "gpt-5.6-luna", "kimi-k3", "kimi-k2.7-code", "glm-5.3", "glm-5.3-flash", "glm-5.2",
    "glm-5-turbo", "glm-4.7", "glm-4.5-air", "minimax-m3", "minimax-m2.7"}

MCLower == [w \in Words |-> w] @@ Upper @@ ("ZAI" :> "zai")

MCNative == "opus" :> "claude-opus" @@ "claude-opus" :> "claude-opus"

MCIds ==
  main :> {Name("", "opus"), Name("kimi", "kimi-k3"), Name("anthropic1", "opus")}
  @@ sub :> {Name("zai", "glm-5.3"), Name("openai", "gpt-6-astra")}

MCDefault == Name("", "opus")

MCAllowed ==
  {Name("", "claude-opus"), Name("moonshot", "kimi-k3"), Name("zai", "glm-5.3"),
   Name("anthropic1", "claude-opus")}

Unset(p) == [token |-> None, base |-> "base", gate |-> TRUE]
Set(p, token, base) == [token |-> token, base |-> base, gate |-> TRUE]

MCSettings == [p \in MCProviders |->
  CASE p = "openai" -> {Set(p, "t1", "base"), Set(p, "t1", "other"),
                        [token |-> "t1", base |-> "base", gate |-> FALSE]}
    [] p = "anthropic1" -> {Set(p, "t1", "base"), Unset(p)}
    [] p = "zai" -> {Set(p, "t1", "base"), Set(p, "t2", "base")}
    [] OTHER -> {Set(p, "t1", "base")}]

MCStart == [p \in MCProviders |-> Set(p, "t1", "base")]

Definition == [tool |-> "Lookup", reference |-> FALSE]
Reference == [tool |-> "Lookup", reference |-> TRUE]
Search == [tool |-> "WebSearch", reference |-> FALSE]
ListedReference == [tool |-> "Bash", reference |-> TRUE]
MCAdditions == {{Reference}, {Definition, Reference, ListedReference, Search}}
=============================================================================
