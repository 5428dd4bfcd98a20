-------------------------- MODULE MCProviderHandoff --------------------------
(* Two clients, one with a key and a URL and one with a URL alone, under a  *)
(* daemon with a key alone.  Settings name a third URL, and the policy, if  *)
(* there is one, allows the first client's only.                            *)
EXTENDS ProviderHandoff, TLC

MCClientEnv == ("a" :> ("key" :> "a" @@ "url" :> "a")) @@ ("b" :> ("key" :> Unset @@ "url" :> "b"))
MCAmbient == "key" :> "daemon" @@ "url" :> Unset
MCSettings == "url" :> "settings"
MCVersions == {"a" :> 3 @@ "b" :> n : n \in {0, 3}}
MCPolicies == {<<>>, "url" :> "a"}
=============================================================================
