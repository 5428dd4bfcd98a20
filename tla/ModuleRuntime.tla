---------------------------- MODULE ModuleRuntime ----------------------------
(***************************************************************************)
(* The module runtime of the patcher (module_runtime.py).                  *)
(*                                                                         *)
(* A split Claude Code bundle is a graph of ES modules.  A patch that      *)
(* needs a function of another module asks for a name under which its own  *)
(* module can reach it: module_reference finds one through the imports     *)
(* and exports that exist, ensure_module_reference adds a fresh alias      *)
(* along edges that exist.  Patches also register bootstrap code, and      *)
(* finalize_module_runtime puts all of it in front of every module.        *)
(*                                                                         *)
(* Names stand for identifiers; the text of a module is its natives (what  *)
(* it declares itself), its named imports and its export list.             *)
(***************************************************************************)
EXTENDS Naturals, Sequences, FiniteSets, Selections

CONSTANTS
  Modules,    \* the modules of the bundle
  Order,      \* the modules in the order of their boundaries in the source
  Names,      \* identifiers
  Aliases,    \* __ccpatchNativeBinding0, __ccpatchNativeBinding1, ...
  Graphs,     \* the module graphs a bundle may have
  Keys,       \* keys of __ccpatchRuntime
  Codes,      \* bootstrap components
  MaxCalls,   \* bound: calls of the patches on one source
  None

Specifier == [public : Names, local : Names]

\* imports[m][t]: what m imports from t, for the modules t it imports from.
IsGraph(g) ==
  /\ g = [natives |-> g.natives, imports |-> g.imports, exports |-> g.exports]
  /\ g.natives \in [Modules -> SUBSET Names]
  /\ g.exports \in [Modules -> SUBSET Specifier]
  /\ DOMAIN g.imports = Modules
  /\ \A m \in Modules : /\ DOMAIN g.imports[m] \subseteq Modules
                        /\ g.imports[m] \in [DOMAIN g.imports[m] -> SUBSET Specifier]

SpecsOf(g, m, target) ==
  IF target \in DOMAIN g.imports[m] THEN g.imports[m][target] ELSE {}

ImportedBy(g, m) == {s.local : s \in UNION {SpecsOf(g, m, t) : t \in Modules}}
Scope(g, m) == g.natives[m] \union ImportedBy(g, m)

\* The declarations of a module that bind a name: itself, or modules it imports.
Binders(g, m, l) ==
  {t \in Modules : \/ t = m /\ l \in g.natives[m]
                   \/ \E s \in SpecsOf(g, m, t) : s.local = l}

\* What the name b[2], which module b[1] imports, is called where it comes from.
Origins(g, b) ==
  UNION {{<<t, e.local>> : e \in {x \in g.exports[t] :
            \E s \in SpecsOf(g, b[1], t) : s.local = b[2] /\ s.public = x.public}} :
         t \in Modules}

\* A program that links: in every module each name is bound once, each public
\* name is exported once and stands for a name the module has, every import finds
\* its export, and re-exports never chase each other in a circle.
Links(g) ==
  /\ \A m \in Modules :
       /\ \A l \in Scope(g, m) : \E t \in Modules : Binders(g, m, l) = {t}
       /\ \A t \in Modules : \A s, z \in SpecsOf(g, m, t) : s.local = z.local => s = z
       /\ \A e \in g.exports[m] : e.local \in Scope(g, m)
       /\ \A e, f \in g.exports[m] : e.public = f.public => e = f
       /\ \A t \in Modules : \A s \in SpecsOf(g, m, t) :
            \E e \in g.exports[t] : e.public = s.public
  /\ \A circle \in SUBSET UNION {{m} \X ImportedBy(g, m) : m \in Modules} :
       circle # {} => \E b \in circle : Origins(g, b) \intersect circle = {}

\* The bundle is one that runs: it links.
ASSUME ModulesAssumption ==
  /\ Order \in Seq(Modules)
  /\ Modules = {Order[i] : i \in DOMAIN Order}
  /\ Aliases \in Seq(Names)
  /\ \A g \in Graphs : IsGraph(g) /\ Links(g)
  /\ MaxCalls \in Nat
  /\ None \notin Modules

Call == [ensure : BOOLEAN, owner : Modules, native : Names, consumer : Modules]
Search == [known : SUBSET (Modules \X Names), next : Nat, grew : BOOLEAN,
           found : SUBSET Names]

VARIABLES
  natives,    \* the names each module declares
  imports,    \* for each module, the modules it imports from, and what
  exports,    \* for each module, local names and the public names they get
  pc,         \* "patching", "resolve", "search", "bind", "refused", "running"
  asked,      \* the call a patch made
  call,       \* the call being served: asked, or one hop of its route
  route,      \* what is left of the route from the consumer to the owner
  search,     \* the locals of module_reference's search
  calls,      \* calls made so far
  given,      \* the names handed to patches, with what they must denote
  marks,      \* bootstrap markers, the latest in front
  prelude,    \* what finalize_module_runtime puts in front of each module
  installed,  \* the components of globalThis.__ccpatchRuntime, as they came
  entered     \* modules whose own statements have begun

graphVars == <<natives, imports, exports>>
callVars == <<asked, call, route, search>>
bootVars == <<prelude, installed, entered>>
vars == <<graphVars, pc, callVars, calls, given, marks, bootVars>>

NoSearch == [known |-> {}, next |-> 1, grew |-> FALSE, found |-> {}]

Init ==
  /\ \E g \in Graphs : /\ natives = g.natives
                       /\ imports = g.imports
                       /\ exports = g.exports
  /\ pc = "patching"
  /\ asked = None /\ call = None /\ route = <<>> /\ search = NoSearch
  /\ calls = 0 /\ given = {} /\ marks = <<>>
  /\ prelude = [m \in Modules |-> <<>>] /\ installed = <<>> /\ entered = {}

-----------------------------------------------------------------------------
(* Reading the graph. *)

Graph == [natives |-> natives, imports |-> imports, exports |-> exports]

Specs(m, target) == SpecsOf(Graph, m, target)

Exported(owner, native) ==
  {e.public : e \in {x \in exports[owner] : x.local = native}}

\* The local names under which the consumer imports the binding from its owner.
DirectNames ==
  {s.local : s \in {x \in Specs(call.consumer, call.owner) :
                      x.public \in Exported(call.owner, call.native)}}

\* Faulty variant: the exporting module is not compared.
ImportedKnownByName(m) ==
  {s.local : s \in UNION {{x \in Specs(m, t) :
                            \E u \in Modules : <<u, x.public>> \in search.known} :
                            t \in Modules}}

\* The names of module m that are bound to one of the known exports.
ImportedKnown(m) ==
  {s.local : s \in UNION {{x \in Specs(m, t) : <<t, x.public>> \in search.known} :
                            t \in Modules}}

\* Faulty variant: re-exports are not followed.
ReExportedNever(m) == {}

ReExported(m) ==
  {<<m, e.public>> : e \in {x \in exports[m] : x.local \in ImportedKnown(m)}}

\* Every identifier of the source.
Specifiers ==
  (UNION {exports[m] : m \in Modules}) \union (UNION {Specs(m, t) : m, t \in Modules})

Used ==
  (UNION {natives[m] : m \in Modules})
  \union {s.local : s \in Specifiers} \union {s.public : s \in Specifiers}

\* Faulty variant: the index starts at 0 for every call.
FreshAlways == {1}

Fresh == {i \in DOMAIN Aliases : Aliases[i] \notin Used}

Paths(length) ==
  {p \in [1 .. length -> Modules] :
     \A i \in 1 .. length - 1 : p[i + 1] \in DOMAIN imports[p[i]]}

\* The routes of a given length from the consumer to the owner.
Routes(c, length) ==
  {p \in Paths(length) : p[1] = c.consumer /\ p[length] = c.owner}

RouteLengths(c) == {n \in 2 .. Cardinality(Modules) : Routes(c, n) # {}}

-----------------------------------------------------------------------------
(* module_reference and ensure_module_reference. *)

\* A patch asks: module_reference refuses where ensure_module_reference binds.
Ask(ensure, owner, native, consumer) ==
  /\ pc = "patching"
  /\ calls < MaxCalls
  /\ native \in natives[owner]
  /\ pc' = "resolve"
  /\ asked' = [ensure |-> ensure, owner |-> owner, native |-> native,
               consumer |-> consumer]
  /\ call' = asked'
  /\ calls' = calls + 1
  /\ UNCHANGED <<graphVars, route, search, given, marks, bootVars>>

\* The name is the answer of this hop; the next hop binds it one module closer
\* to the consumer, and the last one answers the patch.
Return(name) ==
  /\ search' = NoSearch
  /\ IF Len(route) > 2
       THEN /\ pc' = "resolve"
            /\ route' = SubSeq(route, 1, Len(route) - 1)
            /\ call' = [ensure |-> TRUE, native |-> name,
                        owner |-> route[Len(route) - 1],
                        consumer |-> route[Len(route) - 2]]
            /\ UNCHANGED <<asked, given>>
       ELSE /\ pc' = "patching"
            /\ given' = given \union
                 {[consumer |-> asked.consumer, name |-> name,
                   owner |-> asked.owner, native |-> asked.native]}
            /\ asked' = None /\ call' = None /\ route' = <<>>

NotUnique ==
  /\ pc' = IF call.ensure THEN "bind" ELSE "refused"
  /\ search' = NoSearch
  /\ UNCHANGED <<asked, call, route, given>>

Settle(names) ==
  IF Cardinality(names) = 1
    THEN \E name \in names : Return(name)
    ELSE NotUnique

SameModule ==
  /\ pc = "resolve"
  /\ call.owner = call.consumer
  /\ Return(call.native)
  /\ UNCHANGED <<graphVars, calls, marks, bootVars>>

Direct ==
  /\ pc = "resolve"
  /\ call.owner # call.consumer
  /\ DirectNames # {}
  /\ Settle(DirectNames)
  /\ UNCHANGED <<graphVars, calls, marks, bootVars>>

StartSearch ==
  /\ pc = "resolve"
  /\ call.owner # call.consumer
  /\ DirectNames = {}
  /\ pc' = "search"
  /\ search' = [NoSearch EXCEPT !.known =
                  {<<call.owner, p>> : p \in Exported(call.owner, call.native)}]
  /\ UNCHANGED <<graphVars, asked, call, route, calls, given, marks, bootVars>>

\* One module of one pass over the graph.
Visit ==
  /\ pc = "search"
  /\ search.next <= Len(Order)
  /\ LET m == Order[search.next]
     IN search' = [known |-> search.known \union ReExported(m),
                   next  |-> search.next + 1,
                   grew  |-> search.grew \/ ~(ReExported(m) \subseteq search.known),
                   found |-> IF m = call.consumer
                               THEN search.found \union ImportedKnown(m)
                               ELSE search.found]
  /\ UNCHANGED <<graphVars, pc, asked, call, route, calls, given, marks, bootVars>>

\* Faulty variant: the flag of the pass is never cleared.
NextPassForever ==
  /\ pc = "search"
  /\ search.next > Len(Order)
  /\ search.grew
  /\ search' = [search EXCEPT !.next = 1]
  /\ UNCHANGED <<graphVars, pc, asked, call, route, calls, given, marks, bootVars>>

NextPass ==
  /\ pc = "search"
  /\ search.next > Len(Order)
  /\ search.grew
  /\ search' = [search EXCEPT !.next = 1, !.grew = FALSE]
  /\ UNCHANGED <<graphVars, pc, asked, call, route, calls, given, marks, bootVars>>

EndSearch ==
  /\ pc = "search"
  /\ search.next > Len(Order)
  /\ ~search.grew
  /\ Settle(search.found)
  /\ UNCHANGED <<graphVars, calls, marks, bootVars>>

\* Faulty variant: the consumer imports the owner whether or not it did before.
BindAnyway ==
  /\ pc = "bind"
  /\ \E i \in Fresh :
       /\ \A j \in Fresh : i <= j
       /\ imports' = [imports EXCEPT ![call.consumer] =
                        [t \in DOMAIN @ \union {call.owner} |->
                           Specs(call.consumer, t) \union
                           IF t = call.owner
                             THEN {[public |-> Aliases[i], local |-> Aliases[i]]}
                             ELSE {}]]
       /\ exports' = [exports EXCEPT ![call.owner] =
                        @ \union {[local |-> call.native, public |-> Aliases[i]]}]
       /\ Return(Aliases[i])
  /\ UNCHANGED <<natives, calls, marks, bootVars>>

\* A fresh alias on an import declaration that exists, exported by the owner.
BindEdge ==
  /\ pc = "bind"
  /\ call.owner \in DOMAIN imports[call.consumer]
  /\ \E i \in Fresh :
       /\ \A j \in Fresh : i <= j
       /\ imports' = [imports EXCEPT ![call.consumer][call.owner] =
                        @ \union {[public |-> Aliases[i], local |-> Aliases[i]]}]
       /\ exports' = [exports EXCEPT ![call.owner] =
                        @ \union {[local |-> call.native, public |-> Aliases[i]]}]
       /\ Return(Aliases[i])
  /\ UNCHANGED <<natives, calls, marks, bootVars>>

\* The owner is not imported directly: the breadth-first route to it, bound
\* from its far end.
TakeRoute ==
  /\ pc = "bind"
  /\ call.owner \notin DOMAIN imports[call.consumer]
  /\ \E n \in RouteLengths(call) :
       /\ \A k \in RouteLengths(call) : n <= k
       /\ \E p \in Routes(call, n) :
            /\ route' = p
            /\ call' = [call EXCEPT !.consumer = p[n - 1]]
  /\ pc' = "resolve"
  /\ UNCHANGED <<graphVars, asked, search, calls, given, marks, bootVars>>

NoRoute ==
  /\ pc = "bind"
  /\ call.owner \notin DOMAIN imports[call.consumer]
  /\ RouteLengths(call) = {}
  /\ pc' = "refused"
  /\ UNCHANGED <<graphVars, callVars, calls, given, marks, bootVars>>

-----------------------------------------------------------------------------
(* Bootstrap registrations. *)

\* register_module_bootstrap: a marker in front of the first module's text.
Register(key, code) ==
  /\ pc = "patching"
  /\ calls < MaxCalls
  /\ marks' = <<[key |-> key, code |-> code]>> \o marks
  /\ calls' = calls + 1
  /\ UNCHANGED <<graphVars, pc, callVars, given, bootVars>>

\* The markers in registration order, and where each key was first registered.
Registered == [i \in DOMAIN marks |-> marks[Len(marks) + 1 - i]]
FirstOfKey ==
  {i \in DOMAIN marks : \A j \in 1 .. i - 1 : Registered[j].key # Registered[i].key}

Registrations == Kept(Registered, FirstOfKey)

Conflict ==
  \E i, j \in DOMAIN marks : /\ marks[i].key = marks[j].key
                             /\ marks[i].code # marks[j].code

\* Faulty variant: the prelude goes into the first module only.
FinalizeEntry ==
  /\ pc = "patching"
  /\ IF Conflict
       THEN pc' = "refused" /\ UNCHANGED prelude
       ELSE /\ pc' = "running"
            /\ prelude' = [m \in Modules |->
                            IF m = Order[1] THEN Registrations ELSE <<>>]
  /\ UNCHANGED <<graphVars, callVars, calls, given, marks, installed, entered>>

Finalize ==
  /\ pc = "patching"
  /\ IF Conflict
       THEN pc' = "refused" /\ UNCHANGED prelude
       ELSE /\ pc' = "running"
            /\ prelude' = [m \in Modules |-> Registrations]
  /\ UNCHANGED <<graphVars, callVars, calls, given, marks, installed, entered>>

\* The guarded assignments of a prelude that find their key missing.
Missing(m) ==
  Kept(prelude[m], {i \in DOMAIN prelude[m] :
                      \A j \in DOMAIN installed : installed[j].key # prelude[m][i].key})

\* Bun evaluates the modules in an order that follows the imports and breaks
\* their cycles somewhere: any order.  The prelude runs, then the module's own
\* statements.
Evaluate(m) ==
  /\ pc = "running"
  /\ m \notin entered
  /\ installed' = installed \o Missing(m)
  /\ entered' = entered \union {m}
  /\ UNCHANGED <<graphVars, pc, callVars, calls, given, marks, prelude>>

Next ==
  \/ \E e \in BOOLEAN, o, c \in Modules, n \in Names : Ask(e, o, n, c)
  \/ SameModule \/ Direct \/ StartSearch \/ Visit \/ NextPass \/ EndSearch
  \/ BindEdge \/ TakeRoute \/ NoRoute
  \/ \E k \in Keys, code \in Codes : Register(k, code)
  \/ Finalize
  \/ \E m \in Modules : Evaluate(m)

Spec == Init /\ [][Next]_vars

\* A call is plain computation: once begun it runs on.
Serve == \/ SameModule \/ Direct \/ StartSearch \/ Visit \/ NextPass \/ EndSearch
         \/ BindEdge \/ TakeRoute \/ NoRoute

FairSpec == Spec /\ WF_vars(Serve)
-----------------------------------------------------------------------------
(* Properties. *)

\* A linkage says which declaration each name of each module denotes: its own
\* for a name the module declares, the exporter's for a name it imports.
Agrees(linkage) ==
  /\ \A m \in Modules : \A n \in natives[m] : linkage[<<m, n>>] = <<m, n>>
  /\ \A m, t \in Modules : \A s \in Specs(m, t) : \A e \in exports[t] :
       e.public = s.public => linkage[<<m, s.local>>] = linkage[<<t, e.local>>]

\* The linkage ES modules give the graph, found by following each name as often
\* as there are modules.
Linkage ==
  LET From(b) ==
        UNION {{<<t, e.local>> : e \in {x \in exports[t] :
                  [public |-> x.public, local |-> b[2]] \in imports[b[1]][t]}} :
               t \in DOMAIN imports[b[1]]}
      Follow[k \in Nat, b \in Modules \X Names] ==
        LET from == From(b)
        IN IF k = 0 \/ from = {} THEN b ELSE Follow[k - 1, CHOOSE x \in from : TRUE]
  IN [b \in Modules \X Names |-> Follow[Cardinality(Modules), b]]

\* The rewritten bundle is still a program that links, whatever names, imports
\* and exports the calls have added to it (ensure_module_reference).
StillLinks == Links(Graph)

\* The names handed to patches denote, under the linkage, what was asked for.
Denote(linkage) ==
  \A g \in given : linkage[<<g.consumer, g.name>>] = <<g.owner, g.native>>

\* A name a patch was given denotes the declaration it asked for, and goes on
\* denoting it through everything later calls add to the graph.
GivenDenote == LET linkage == Linkage IN Agrees(linkage) => Denote(linkage)

\* "Do not add dependency edges" (module_runtime.py:213), "without changing
\* evaluation order" (:281): a call never makes a module import from a module
\* it did not import from before, directly or along a route.
DependenciesKept ==
  [][\A m \in Modules : DOMAIN imports'[m] = DOMAIN imports[m]]_vars

\* The imported names of a module that denote the declaration asked for.
Denoting(c) ==
  LET linkage == Linkage
  IN {l \in Scope(Graph, c.consumer) : linkage[<<c.consumer, l>>] = <<c.owner, c.native>>}

\* module_reference may fail when no name, or more than one, would do;
\* ensure_module_reference when no chain of imports leads from the consumer to
\* the owner.  No hop of a route may fail half way.
ForCause ==
  IF asked.ensure THEN RouteLengths(asked) = {} ELSE Cardinality(Denoting(asked)) # 1

\* The first marker of a key: the one furthest behind.
Earliest(key) == CHOOSE i \in DOMAIN marks :
                   /\ marks[i].key = key
                   /\ \A j \in DOMAIN marks : marks[j].key = key => j <= i

\* Whatever order the modules are evaluated in, by the time a module's own
\* statements run every registered component is installed, once, and after the
\* components registered before it.
BootstrapFirst == entered # {} =>
  /\ \A i \in DOMAIN marks : \E j \in DOMAIN installed : installed[j] = marks[i]
  /\ \A i, j \in DOMAIN installed :
       i < j => Earliest(installed[i].key) > Earliest(installed[j].key)

\* The search for a name comes to an end: every call is answered, or refused
\* for cause.
CallEnds == (asked # None) ~> (asked = None \/ (pc = "refused" /\ ForCause))
=============================================================================
