-------------------------- MODULE MCModuleRuntime --------------------------
(* Three modules and every graph of them that links, within the choices    *)
(* below: cyclic imports, one declaration imported under two names, chains   *)
(* of re-exports, edges that name nothing and modules nobody imports.        *)
EXTENDS ModuleRuntime, TLC

CONSTANTS a, b, c

ThreeModules == {a, b, c}
InOrder == <<b, a, c>>
AllNames == {"n", "x", "y", "p", "_0", "_1", "_2", "_3"}
FreshNames == <<"_0", "_1", "_2", "_3">>
Native == [m \in ThreeModules |-> {"n"}]

Locals(m) == IF m = c THEN {"x", "y"} ELSE {"x"}

\* From whom a module may import "p": b and c from before them, a from c (an
\* import against the order, which makes the graph cyclic).
Sources(m) == IF m = a THEN {c} ELSE IF m = b THEN {a} ELSE {a, b}

\* The edges of the ring a, b, c, which a graph may have without naming anything.
Ring(m) == IF m = a THEN {b} ELSE IF m = b THEN {c} ELSE {a}

ImportsOf(m, bare) ==
  {[t \in ({f[l] : l \in Locals(m)} \union bare[m]) \ {None} |->
      {[public |-> "p", local |-> l] : l \in {k \in Locals(m) : f[k] = t}}] :
     f \in {h \in [Locals(m) -> Sources(m) \union {None}] : m = c => h["x"] # None}}

ExportsOf(m) ==
  {{}} \union {{[local |-> l, public |-> "p"]} :
                 l \in IF m = a THEN {"n"} ELSE IF m = b THEN {"n", "x"} ELSE {"x"}}

AllGraphs ==
  {g \in {[natives |-> Native,
           imports |-> (a :> i[1] @@ b :> i[2] @@ c :> i[3]),
           exports |-> (a :> e[1] @@ b :> e[2] @@ c :> e[3])] :
            i \in UNION {ImportsOf(a, ring) \X ImportsOf(b, ring) \X ImportsOf(c, ring) :
                          ring \in {[m \in ThreeModules |-> {}],
                                   [m \in ThreeModules |-> Ring(m)]}},
            e \in ExportsOf(a) \X ExportsOf(b) \X ExportsOf(c)} :
     Links(g)}
=============================================================================
