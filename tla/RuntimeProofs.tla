---------------------------- MODULE RuntimeProofs ---------------------------
(***************************************************************************)
(* What ccpatch puts into the executable, for any modules, graphs,         *)
(* messages, order and number of calls.  The module runtime: what the      *)
(* names handed to patches denote, that the bundle still links, and that   *)
(* the runtime comes first.  The retraction archive: what was removed      *)
(* stays so, nothing else is touched, and an archive row is in place.      *)
(***************************************************************************)
EXTENDS ModuleRuntime, RetractionArchive, FiniteSetTheorems, TLAPS

Serving == {"resolve", "search", "bind"}

IsCall(c) ==
  /\ DOMAIN c = {"ensure", "owner", "native", "consumer"}
  /\ c.owner \in Modules
  /\ c.consumer \in Modules

TypeInv ==
  /\ DOMAIN natives = Modules
  /\ DOMAIN imports = Modules
  /\ DOMAIN exports = Modules
  /\ pc \in Serving \union {"patching", "refused", "running"}
  /\ pc \in Serving => IsCall(call) /\ IsCall(asked)
  /\ DOMAIN search = {"known", "next", "grew", "found"}
  /\ search.next \in Nat \ {0}

\* A route leads from the consumer of the patch's call, along imports, to the
\* owner of the hop that is being bound; its last edge is that hop.
RouteInv ==
  /\ route \in Seq(Modules)
  /\ pc = "patching" => route = <<>>
  /\ pc \in Serving =>
       \/ route = <<>> /\ call = asked
       \/ /\ Len(route) >= 2
          /\ call.owner = route[Len(route)]
          /\ call.consumer = route[Len(route) - 1]
          /\ asked.consumer = route[1]
          /\ \A i \in 1 .. Len(route) - 1 : route[i + 1] \in DOMAIN imports[route[i]]

Wanted == <<asked.owner, asked.native>>

\* The exports found so far, and the consumer's names for them, are the target's.
SearchInv(linkage) ==
  /\ \A k \in search.known : \E e \in exports[k[1]] :
       e.public = k[2] /\ linkage[<<k[1], e.local>>] = Wanted
  /\ \A n \in search.found : linkage[<<call.consumer, n>>] = Wanted

\* Every hop is about the declaration the patch asked for.
LinkInv(linkage) ==
  /\ Denote(linkage)
  /\ pc \in Serving => linkage[<<call.owner, call.native>>] = Wanted
  /\ pc = "search" => SearchInv(linkage)

Inv == TypeInv /\ RouteInv /\ \A linkage : Agrees(linkage) => LinkInv(linkage)

-----------------------------------------------------------------------------
(* Facts about a linkage. *)

LEMMA ImportDenotes ==
  ASSUME NEW linkage, Agrees(linkage), NEW m \in Modules, NEW t \in Modules,
         NEW s \in Specs(m, t), NEW e \in exports[t], e.public = s.public
  PROVE  linkage[<<m, s.local>>] = linkage[<<t, e.local>>]
BY DEF Agrees

LEMMA DirectDenote ==
  ASSUME TypeInv, pc \in Serving, NEW linkage, Agrees(linkage), NEW name \in DirectNames
  PROVE  linkage[<<call.consumer, name>>] = linkage[<<call.owner, call.native>>]
<1>1. PICK s \in Specs(call.consumer, call.owner) :
        s.local = name /\ s.public \in Exported(call.owner, call.native)
  BY DEF DirectNames
<1>2. PICK e \in exports[call.owner] : e.local = call.native /\ e.public = s.public
  BY <1>1 DEF Exported
<1>3. call.consumer \in Modules /\ call.owner \in Modules
  BY DEF TypeInv, IsCall
<1>4. QED
  BY <1>1, <1>2, <1>3, ImportDenotes

LEMMA KnownDenote ==
  ASSUME NEW linkage, Agrees(linkage), SearchInv(linkage), NEW m \in Modules,
         NEW name \in ImportedKnown(m)
  PROVE  linkage[<<m, name>>] = Wanted
<1>1. PICK t \in Modules : \E s \in Specs(m, t) : s.local = name /\ <<t, s.public>> \in search.known
  BY DEF ImportedKnown
<1>2. PICK s \in Specs(m, t) : s.local = name /\ <<t, s.public>> \in search.known
  BY <1>1
<1>3. PICK e \in exports[t] : e.public = s.public /\ linkage[<<t, e.local>>] = Wanted
  BY <1>2 DEF SearchInv
<1>4. QED
  BY <1>2, <1>3, ImportDenotes

LEMMA ReExportsDenote ==
  ASSUME NEW linkage, Agrees(linkage), SearchInv(linkage), NEW m \in Modules,
         NEW k \in ReExported(m)
  PROVE  \E e \in exports[k[1]] : e.public = k[2] /\ linkage[<<k[1], e.local>>] = Wanted
<1>1. PICK e \in exports[m] : e.local \in ImportedKnown(m) /\ k = <<m, e.public>>
  BY DEF ReExported
<1>2. QED
  BY <1>1, KnownDenote

-----------------------------------------------------------------------------
(* The end of a hop. *)

\* The graph keeps its names, its dependencies and what each name denotes.
Grows ==
  /\ DOMAIN natives' = Modules
  /\ DOMAIN imports' = Modules
  /\ DOMAIN exports' = Modules
  /\ \A m \in Modules : DOMAIN imports'[m] = DOMAIN imports[m]
  /\ \A linkage : Agrees(linkage)' => Agrees(linkage)

LEMMA Unchanged == TypeInv /\ UNCHANGED graphVars => Grows
BY DEF graphVars, TypeInv, Grows, Agrees, Specs, SpecsOf, Graph

LEMMA ReturnNext ==
  ASSUME Inv, pc \in Serving, Grows, NEW name, Return(name), Len(route) > 2,
         \A linkage : Agrees(linkage)' => linkage[<<call.consumer, name>>] = Wanted
  PROVE  Inv'
<1> DEFINE n == Len(route)
<1>1. /\ route \in Seq(Modules) /\ n \in Nat /\ n > 2
      /\ call.consumer = route[n - 1] /\ asked.consumer = route[1]
      /\ \A i \in 1 .. n - 1 : route[i + 1] \in DOMAIN imports[route[i]]
  BY DEF Inv, RouteInv
<1>2. /\ pc' = "resolve" /\ asked' = asked /\ given' = given /\ search' = NoSearch
      /\ route' = SubSeq(route, 1, n - 1)
      /\ call' = [ensure |-> TRUE, native |-> name, owner |-> route[n - 1],
                  consumer |-> route[n - 2]]
  BY DEF Return
<1>3. /\ route' \in Seq(Modules) /\ Len(route') = n - 1
      /\ \A i \in 1 .. n - 1 : route'[i] = route[i] /\ route[i] \in Modules
  BY <1>1, <1>2
<1> HIDE DEF n
<1>4. TypeInv'
  BY <1>1, <1>2, <1>3 DEF Inv, TypeInv, Grows, IsCall, NoSearch, Serving
<1>5. RouteInv'
  <2>1. Len(route') >= 2
    BY <1>1, <1>3
  <2>2. call'.owner = route'[Len(route')] /\ call'.consumer = route'[Len(route') - 1]
    BY <1>1, <1>2, <1>3
  <2>3. asked'.consumer = route'[1]
    BY <1>1, <1>2, <1>3
  <2>4. ASSUME NEW i \in 1 .. Len(route') - 1
        PROVE  route'[i + 1] \in DOMAIN imports'[route'[i]]
    <3>1. i \in 1 .. n - 1 /\ i + 1 \in 1 .. n - 1
      BY <1>1, <1>3
    <3>2. route[i + 1] \in DOMAIN imports[route[i]] /\ route[i] \in Modules
      BY <1>1, <1>3, <3>1
    <3>3. QED
      BY <1>3, <3>1, <3>2 DEF Grows
  <2>5. QED
    BY <1>2, <1>3, <2>1, <2>2, <2>3, <2>4 DEF RouteInv, Serving
<1>6. ASSUME NEW linkage, Agrees(linkage)' PROVE LinkInv(linkage)'
  <2>1. linkage[<<call.consumer, name>>] = Wanted /\ Denote(linkage)
    BY <1>6 DEF Inv, LinkInv, Grows
  <2>2. Denote(linkage)'
    BY <1>2, <2>1 DEF Denote
  <2>3. linkage[<<call'.owner, call'.native>>] = Wanted'
    BY <1>1, <1>2, <2>1 DEF Wanted
  <2>4. QED
    BY <1>2, <2>2, <2>3 DEF LinkInv
<1>7. QED
  BY <1>4, <1>5, <1>6 DEF Inv

LEMMA ReturnLast ==
  ASSUME Inv, pc \in Serving, Grows, NEW name, Return(name), ~(Len(route) > 2),
         \A linkage : Agrees(linkage)' => linkage[<<call.consumer, name>>] = Wanted
  PROVE  Inv'
<1>1. call.consumer = asked.consumer
  BY DEF Inv, RouteInv
<1>2. /\ pc' = "patching" /\ route' = <<>> /\ search' = NoSearch
      /\ given' = given \union {[consumer |-> asked.consumer, name |-> name,
                                 owner |-> asked.owner, native |-> asked.native]}
  BY DEF Return
<1>3. TypeInv' /\ RouteInv'
  BY <1>2 DEF Inv, TypeInv, RouteInv, Grows, NoSearch, Serving
<1>4. ASSUME NEW linkage, Agrees(linkage)' PROVE LinkInv(linkage)'
  <2>1. linkage[<<asked.consumer, name>>] = <<asked.owner, asked.native>> /\ Denote(linkage)
    BY <1>1, <1>4 DEF Inv, LinkInv, Grows, Wanted
  <2>2. ASSUME NEW g \in given' PROVE linkage[<<g.consumer, g.name>>] = <<g.owner, g.native>>
    <3>1. CASE g \in given
      BY <2>1, <3>1 DEF Denote
    <3>2. CASE g = [consumer |-> asked.consumer, name |-> name,
                    owner |-> asked.owner, native |-> asked.native]
      BY <2>1, <3>2
    <3>3. QED
      BY <1>2, <3>1, <3>2
  <2>3. QED
    BY <1>2, <2>2 DEF LinkInv, Denote, Serving
<1>5. QED
  BY <1>3, <1>4 DEF Inv

LEMMA ReturnInv ==
  ASSUME Inv, pc \in Serving, Grows, NEW name, Return(name),
         \A linkage : Agrees(linkage)' => linkage[<<call.consumer, name>>] = Wanted
  PROVE  Inv'
BY ReturnNext, ReturnLast

-----------------------------------------------------------------------------
(* The steps of a call. *)

LEMMA AskInv ==
  ASSUME Inv, NEW ensure, NEW owner \in Modules, NEW native, NEW consumer \in Modules,
         Ask(ensure, owner, native, consumer)
  PROVE  Inv'
<1>1. /\ pc = "patching" /\ pc' = "resolve" /\ native \in natives[owner]
      /\ asked' = [ensure |-> ensure, owner |-> owner, native |-> native, consumer |-> consumer]
      /\ call' = asked' /\ UNCHANGED <<natives, imports, exports, route, search, given>>
  BY DEF Ask, graphVars
<1>2. TypeInv'
  BY <1>1 DEF Inv, TypeInv, IsCall, Serving
<1>3. RouteInv'
  BY <1>1 DEF Inv, RouteInv, Serving
<1>4. ASSUME NEW linkage, Agrees(linkage)' PROVE LinkInv(linkage)'
  <2>1. Agrees(linkage)
    BY <1>1, <1>4 DEF Agrees, Specs, SpecsOf, Graph
  <2>2. linkage[<<owner, native>>] = <<owner, native>>
    BY <1>1, <2>1 DEF Agrees
  <2>3. Denote(linkage)
    BY <2>1 DEF Inv, LinkInv
  <2>4. QED
    BY <1>1, <2>2, <2>3 DEF LinkInv, Denote, Wanted
<1>5. QED
  BY <1>2, <1>3, <1>4 DEF Inv

\* No name, or more than one.
LEMMA NotUniqueInv ==
  ASSUME Inv, pc \in Serving, NotUnique, UNCHANGED graphVars
  PROVE  Inv'
<1>1. /\ pc' \in {"bind", "refused"} /\ search' = NoSearch
      /\ UNCHANGED <<natives, imports, exports, asked, call, route, given>>
  BY DEF NotUnique, graphVars
<1>2. TypeInv' /\ RouteInv'
  BY <1>1 DEF Inv, TypeInv, RouteInv, IsCall, NoSearch, Serving
<1>3. ASSUME NEW linkage, Agrees(linkage)' PROVE LinkInv(linkage)'
  <2>1. Agrees(linkage)
    BY <1>1, <1>3 DEF Agrees, Specs, SpecsOf, Graph
  <2>2. LinkInv(linkage)
    BY <2>1 DEF Inv
  <2>3. QED
    BY <1>1, <2>2 DEF LinkInv, Denote, Wanted, Serving
<1>4. QED
  BY <1>2, <1>3 DEF Inv

LEMMA SettleInv ==
  ASSUME Inv, pc \in Serving, UNCHANGED graphVars, NEW names, Settle(names),
         \A linkage : Agrees(linkage) =>
           \A name \in names : linkage[<<call.consumer, name>>] = Wanted
  PROVE  Inv'
<1>1. Grows
  BY Unchanged DEF Inv
<1>2. CASE \E name \in names : Return(name)
  BY <1>1, <1>2, ReturnInv DEF Grows
<1>3. CASE NotUnique
  BY <1>3, NotUniqueInv
<1>4. QED
  BY <1>2, <1>3 DEF Settle

LEMMA SameModuleInv == ASSUME Inv, SameModule PROVE Inv'
<1>1. pc \in Serving /\ Return(call.native) /\ call.owner = call.consumer
  BY DEF SameModule, Serving
<1>2. Grows
  BY Unchanged DEF Inv, SameModule
<1>3. \A linkage : Agrees(linkage)' => linkage[<<call.consumer, call.native>>] = Wanted
  BY <1>1, <1>2 DEF Inv, LinkInv, Grows
<1>4. QED
  BY <1>1, <1>2, <1>3, ReturnInv

LEMMA DirectInv == ASSUME Inv, Direct PROVE Inv'
<1>1. pc \in Serving /\ Settle(DirectNames) /\ UNCHANGED graphVars
  BY DEF Direct, Serving
<1>2. ASSUME NEW linkage, Agrees(linkage), NEW name \in DirectNames
      PROVE  linkage[<<call.consumer, name>>] = Wanted
  <2>1. linkage[<<call.owner, call.native>>] = Wanted
    BY <1>1, <1>2 DEF Inv, LinkInv
  <2>2. QED
    BY <1>1, <1>2, <2>1, DirectDenote DEF Inv
<1>3. QED
  BY <1>1, <1>2, SettleInv

LEMMA EndSearchInv == ASSUME Inv, EndSearch PROVE Inv'
<1>1. pc \in Serving /\ Settle(search.found) /\ UNCHANGED graphVars /\ pc = "search"
  BY DEF EndSearch, Serving
<1>2. ASSUME NEW linkage, Agrees(linkage), NEW name \in search.found
      PROVE  linkage[<<call.consumer, name>>] = Wanted
  BY <1>1, <1>2 DEF Inv, LinkInv, SearchInv
<1>3. QED
  BY <1>1, <1>2, SettleInv

\* Steps of the search that change nothing but the search.
LEMMA SearchStepInv ==
  ASSUME Inv, pc \in Serving, pc' = "search",
         UNCHANGED <<graphVars, asked, call, route, given>>,
         DOMAIN search' = {"known", "next", "grew", "found"}, search'.next \in Nat \ {0},
         \A linkage : Agrees(linkage) => SearchInv(linkage)'
  PROVE  Inv'
<1>1. TypeInv' /\ RouteInv'
  BY DEF Inv, TypeInv, RouteInv, graphVars, Serving
<1>2. ASSUME NEW linkage, Agrees(linkage)' PROVE LinkInv(linkage)'
  <2>1. Agrees(linkage)
    BY <1>2 DEF Agrees, Specs, SpecsOf, Graph, graphVars
  <2>2. LinkInv(linkage) /\ SearchInv(linkage)'
    BY <2>1 DEF Inv
  <2>3. QED
    BY <2>2 DEF LinkInv, Denote, Wanted, Serving
<1>3. QED
  BY <1>1, <1>2 DEF Inv

LEMMA StartSearchInv == ASSUME Inv, StartSearch PROVE Inv'
<1> DEFINE first == {<<call.owner, p>> : p \in Exported(call.owner, call.native)}
<1>1. /\ pc \in Serving /\ pc' = "search"
      /\ UNCHANGED <<graphVars, asked, call, route, given>>
      /\ DOMAIN search' = {"known", "next", "grew", "found"} /\ search'.next \in Nat \ {0}
      /\ search'.known = first /\ search'.found = {}
  BY DEF StartSearch, NoSearch, Serving
<1>2. ASSUME NEW linkage, Agrees(linkage) PROVE SearchInv(linkage)'
  <2>1. linkage[<<call.owner, call.native>>] = Wanted
    BY <1>1, <1>2 DEF Inv, LinkInv
  <2>2. \A k \in first : \E e \in exports[k[1]] :
          e.public = k[2] /\ linkage[<<k[1], e.local>>] = Wanted
    <3>1. ASSUME NEW k \in first
          PROVE  \E e \in exports[k[1]] : e.public = k[2] /\ linkage[<<k[1], e.local>>] = Wanted
      <4>1. PICK p \in Exported(call.owner, call.native) : k = <<call.owner, p>>
        BY <3>1
      <4>2. PICK e \in exports[call.owner] : e.local = call.native /\ e.public = p
        BY <4>1 DEF Exported
      <4>3. QED
        BY <2>1, <4>1, <4>2
    <3>2. QED
      BY <3>1
  <2>3. QED
    BY <1>1, <2>2 DEF SearchInv, Wanted, graphVars
<1>3. QED
  BY <1>1, <1>2, SearchStepInv

LEMMA VisitInv == ASSUME Inv, Visit PROVE Inv'
<1> DEFINE m == Order[search.next]
<1>1. /\ pc = "search" /\ pc \in Serving /\ pc' = "search"
      /\ UNCHANGED <<graphVars, asked, call, route, given>>
      /\ DOMAIN search' = {"known", "next", "grew", "found"} /\ search'.next \in Nat \ {0}
      /\ search'.known = search.known \union ReExported(m)
      /\ search'.found = IF m = call.consumer THEN search.found \union ImportedKnown(m)
                                              ELSE search.found
  BY DEF Visit, Serving, Inv, TypeInv
<1>2. m \in Modules
  <2>1. search.next \in Nat \ {0} /\ search.next <= Len(Order) /\ Order \in Seq(Modules)
    BY ModulesAssumption DEF Visit, Inv, TypeInv, ModulesAssumption
  <2>2. QED
    BY <2>1
<1> HIDE DEF m
<1>3. ASSUME NEW linkage, Agrees(linkage) PROVE SearchInv(linkage)'
  <2>1. SearchInv(linkage) /\ m \in Modules
    BY <1>1, <1>2, <1>3 DEF Inv, LinkInv
  <2>2. \A k \in search'.known : \E e \in exports[k[1]] :
          e.public = k[2] /\ linkage[<<k[1], e.local>>] = Wanted
    <3>1. ASSUME NEW k \in ReExported(m)
          PROVE  \E e \in exports[k[1]] : e.public = k[2] /\ linkage[<<k[1], e.local>>] = Wanted
      BY <1>3, <2>1, <3>1, ReExportsDenote
    <3>2. QED
      BY <1>1, <2>1, <3>1 DEF SearchInv
  <2>3. \A name \in search'.found : linkage[<<call.consumer, name>>] = Wanted
    <3>1. ASSUME NEW name \in ImportedKnown(m) PROVE linkage[<<m, name>>] = Wanted
      BY <1>3, <2>1, <3>1, KnownDenote
    <3>2. QED
      BY <1>1, <2>1, <3>1 DEF SearchInv
  <2>4. QED
    BY <1>1, <2>2, <2>3 DEF SearchInv, Wanted, graphVars
<1>4. QED
  BY <1>1, <1>3, SearchStepInv

LEMMA NextPassInv == ASSUME Inv, NextPass PROVE Inv'
<1>1. /\ pc = "search" /\ pc \in Serving /\ pc' = "search"
      /\ UNCHANGED <<graphVars, asked, call, route, given>>
      /\ DOMAIN search' = {"known", "next", "grew", "found"} /\ search'.next \in Nat \ {0}
      /\ search'.known = search.known /\ search'.found = search.found
  BY DEF NextPass, Serving, Inv, TypeInv
<1>2. ASSUME NEW linkage, Agrees(linkage) PROVE SearchInv(linkage)'
  <2>1. SearchInv(linkage)
    BY <1>1, <1>2 DEF Inv, LinkInv
  <2>2. QED
    BY <1>1, <2>1 DEF SearchInv, Wanted, graphVars
<1>3. QED
  BY <1>1, <1>2, SearchStepInv

\* A fresh alias on an edge that exists.
LEMMA BindEdgeInv == ASSUME Inv, BindEdge PROVE Inv'
<1>1. /\ pc \in Serving /\ natives' = natives /\ call.owner \in DOMAIN imports[call.consumer]
      /\ call.owner \in Modules /\ call.consumer \in Modules
  BY DEF BindEdge, Serving, Inv, TypeInv, IsCall
<1>2. PICK c \in Modules, o \in Modules : c = call.consumer /\ o = call.owner
  BY <1>1
<1>3. PICK i \in Fresh :
        /\ imports' = [imports EXCEPT ![c][o] =
                         @ \union {[public |-> Aliases[i], local |-> Aliases[i]]}]
        /\ exports' = [exports EXCEPT ![o] =
                         @ \union {[local |-> call.native, public |-> Aliases[i]]}]
        /\ Return(Aliases[i])
  BY <1>2 DEF BindEdge
<1>4. PICK alias, spec, export :
        /\ alias = Aliases[i] /\ spec = [public |-> alias, local |-> alias]
        /\ export = [local |-> call.native, public |-> alias]
  OBVIOUS
<1>5. /\ spec.public = alias /\ spec.local = alias
      /\ export.public = alias /\ export.local = call.native
  BY <1>4
<1>6. /\ DOMAIN imports' = Modules /\ DOMAIN exports' = Modules /\ DOMAIN natives' = Modules
      /\ \A m \in Modules : DOMAIN imports'[m] = DOMAIN imports[m]
  BY <1>1, <1>2, <1>3 DEF Inv, TypeInv
<1>7. /\ \A m, t \in Modules : Specs(m, t) \subseteq Specs(m, t)'
      /\ spec \in Specs(c, o)'
  <2>1. ASSUME NEW m \in Modules, NEW t \in DOMAIN imports[m], m # c \/ t # o
        PROVE  imports'[m][t] = imports[m][t]
    BY <1>3, <2>1 DEF Inv, TypeInv
  <2>2. imports'[c][o] = imports[c][o] \union {spec} /\ o \in DOMAIN imports[c]
    BY <1>1, <1>2, <1>3, <1>4 DEF Inv, TypeInv
  <2>3. QED
    BY <1>6, <2>1, <2>2 DEF Specs, SpecsOf, Graph
<1>8. (\A t \in Modules : exports[t] \subseteq exports'[t]) /\ export \in exports'[o]
  BY <1>3, <1>4 DEF Inv, TypeInv
<1>9. ASSUME NEW linkage, Agrees(linkage)'
      PROVE  Agrees(linkage) /\ linkage[<<c, alias>>] = linkage[<<o, call.native>>]
  <2>1. Agrees(linkage)
    BY <1>1, <1>7, <1>8, <1>9 DEF Agrees
  <2>2. linkage[<<c, spec.local>>] = linkage[<<o, export.local>>]
    BY <1>5, <1>7, <1>8, <1>9 DEF Agrees
  <2>3. QED
    BY <1>5, <2>1, <2>2
<1>10. Grows
  BY <1>6, <1>9 DEF Grows
<1>11. \A linkage : Agrees(linkage)' => linkage[<<call.consumer, alias>>] = Wanted
  BY <1>1, <1>2, <1>9 DEF Inv, LinkInv
<1>12. QED
  BY <1>1, <1>3, <1>4, <1>10, <1>11, ReturnInv

\* A call that has no edge is no hop of a route, and gets a route of its own.
LEMMA TakeRouteInv == ASSUME Inv, TakeRoute PROVE Inv'
<1>0. PICK n \in RouteLengths(call) : \E p \in Routes(call, n) :
        route' = p /\ call' = [call EXCEPT !.consumer = p[n - 1]]
  BY DEF TakeRoute
<1>1. PICK p \in Routes(call, n) : route' = p /\ call' = [call EXCEPT !.consumer = p[n - 1]]
  BY <1>0
<1>2. /\ n \in Nat /\ n >= 2 /\ p \in [1 .. n -> Modules]
      /\ p[1] = call.consumer /\ p[n] = call.owner
      /\ \A i \in 1 .. n - 1 : p[i + 1] \in DOMAIN imports[p[i]]
  <2>1. n \in 2 .. Cardinality(Modules) /\ p \in Paths(n) /\ p[1] = call.consumer
        /\ p[n] = call.owner
    BY <1>1 DEF RouteLengths, Routes
  <2>2. n \in Nat /\ n >= 2
    BY <2>1
  <2>3. QED
    BY <2>1, <2>2 DEF Paths
<1>3. p \in Seq(Modules) /\ Len(p) = n
  BY <1>2
<1>4. /\ pc = "bind" /\ pc \in Serving /\ pc' = "resolve"
      /\ call.owner \notin DOMAIN imports[call.consumer]
      /\ UNCHANGED <<natives, imports, exports, asked, search, given>>
  BY DEF TakeRoute, Serving, graphVars
<1>5. route = <<>> /\ call = asked
  <2>1. CASE /\ Len(route) >= 2 /\ route \in Seq(Modules)
             /\ call.owner = route[Len(route)] /\ call.consumer = route[Len(route) - 1]
             /\ \A i \in 1 .. Len(route) - 1 : route[i + 1] \in DOMAIN imports[route[i]]
    <3>1. Len(route) - 1 \in 1 .. Len(route) - 1 /\ Len(route) - 1 + 1 = Len(route)
      BY <2>1
    <3>2. call.owner \in DOMAIN imports[call.consumer]
      BY <2>1, <3>1
    <3>3. QED
      BY <1>4, <3>2
  <2>2. QED
    BY <1>4, <2>1 DEF Inv, RouteInv
<1>6. /\ IsCall(call') /\ call'.owner = call.owner /\ call'.native = call.native
      /\ call'.consumer = p[n - 1]
  BY <1>1, <1>2, <1>4 DEF Inv, TypeInv, IsCall
<1>7. TypeInv'
  BY <1>4, <1>6 DEF Inv, TypeInv, IsCall, Serving
<1>8. RouteInv'
  BY <1>1, <1>2, <1>3, <1>4, <1>5, <1>6 DEF RouteInv, Serving
<1>9. ASSUME NEW linkage, Agrees(linkage)' PROVE LinkInv(linkage)'
  <2>1. Agrees(linkage)
    BY <1>4, <1>9 DEF Agrees, Specs, SpecsOf, Graph
  <2>2. LinkInv(linkage)
    BY <2>1 DEF Inv
  <2>3. QED
    BY <1>4, <1>6, <2>2 DEF LinkInv, Denote, Wanted, Serving
<1>10. QED
  BY <1>7, <1>8, <1>9 DEF Inv

LEMMA ServeInv == ASSUME Inv, Serve PROVE Inv'
<1>1. CASE NoRoute
  <2>1. pc' = "refused" /\ UNCHANGED <<natives, imports, exports, callVars, given>>
    BY <1>1 DEF NoRoute, graphVars
  <2>2. TypeInv' /\ RouteInv'
    BY <2>1 DEF Inv, TypeInv, RouteInv, callVars, Serving
  <2>3. ASSUME NEW linkage, Agrees(linkage)' PROVE LinkInv(linkage)'
    <3>1. Agrees(linkage)
      BY <2>1, <2>3 DEF Agrees, Specs, SpecsOf, Graph
    <3>2. QED
      BY <2>1, <3>1 DEF Inv, LinkInv, Denote, Serving
  <2>4. QED
    BY <2>2, <2>3 DEF Inv
<1>2. QED
  BY <1>1, SameModuleInv, DirectInv, StartSearchInv, VisitInv, NextPassInv, EndSearchInv,
     BindEdgeInv, TakeRouteInv DEF Serve

\* Registering, finalizing and evaluating leave the graph and the calls alone.
LEMMA BootInv ==
  ASSUME Inv, UNCHANGED <<graphVars, callVars, given>>,
         pc = pc' \/ (pc = "patching" /\ pc' \in {"refused", "running"})
  PROVE  Inv'
<1>1. UNCHANGED <<natives, imports, exports, asked, call, route, search, given>>
  BY DEF graphVars, callVars
<1>2. TypeInv' /\ RouteInv'
  BY <1>1 DEF Inv, TypeInv, RouteInv, IsCall, Serving
<1>3. ASSUME NEW linkage, Agrees(linkage)' PROVE LinkInv(linkage)'
  <2>1. Agrees(linkage)
    BY <1>1, <1>3 DEF Agrees, Specs, SpecsOf, Graph
  <2>2. LinkInv(linkage)
    BY <2>1 DEF Inv
  <2>3. QED
    BY <1>1, <2>2 DEF LinkInv, SearchInv, Denote, Wanted, Serving
<1>4. QED
  BY <1>2, <1>3 DEF Inv

LEMMA InitInv == Init => Inv
<1> SUFFICES ASSUME Init PROVE Inv
  OBVIOUS
<1>1. PICK g \in Graphs : natives = g.natives /\ imports = g.imports /\ exports = g.exports
  BY DEF Init
<1>2. DOMAIN natives = Modules /\ DOMAIN imports = Modules /\ DOMAIN exports = Modules
  BY <1>1, ModulesAssumption DEF ModulesAssumption, IsGraph
<1>3. TypeInv /\ RouteInv
  BY <1>2 DEF Init, TypeInv, RouteInv, NoSearch, Serving
<1>4. \A linkage : LinkInv(linkage)
  BY DEF Init, LinkInv, Denote, Serving
<1>5. QED
  BY <1>3, <1>4 DEF Inv

LEMMA NextInv == ASSUME Inv, [Next]_vars PROVE Inv'
<1>1. CASE \E e \in BOOLEAN, o, c \in Modules, n \in Names : Ask(e, o, n, c)
  BY <1>1, AskInv
<1>2. CASE Serve
  BY <1>2, ServeInv
<1>3. CASE \E k \in Keys, code \in Codes : Register(k, code)
  BY <1>3, BootInv DEF Register
<1>4. CASE Finalize
  BY <1>4, BootInv DEF Finalize
<1>5. CASE \E m \in Modules : Evaluate(m)
  BY <1>5, BootInv DEF Evaluate
<1>6. CASE UNCHANGED vars
  BY <1>6, BootInv DEF vars
<1>7. QED
  BY <1>1, <1>2, <1>3, <1>4, <1>5, <1>6 DEF Next, Serve

-----------------------------------------------------------------------------
(* Theorems. *)

\* A name a patch was given denotes the declaration it asked for, under every
\* linkage of the graph as later calls have changed it, by way of any imports,
\* re-exports and hops (module_reference, ensure_module_reference).
THEOREM GivenDenoteHolds == Spec => []GivenDenote
<1>1. Inv => GivenDenote
  <2>1. SUFFICES ASSUME Inv, NEW linkage, Agrees(linkage) PROVE Denote(linkage)
    BY DEF GivenDenote
  <2>2. QED
    BY <2>1 DEF Inv, LinkInv
<1>2. Inv /\ [Next]_vars => Inv'
  BY NextInv
<1>3. QED
  BY <1>1, <1>2, InitInv, PTL DEF Spec

\* No call gives a module a dependency it did not have
\* (ensure_module_reference: "without changing evaluation order").
THEOREM DependenciesKeptHolds == Spec => DependenciesKept
<1>1. Inv /\ [Next]_vars => Inv'
  BY NextInv
<1>2. Inv /\ [Next]_vars => [\A m \in Modules : DOMAIN imports'[m] = DOMAIN imports[m]]_vars
  <2> SUFFICES ASSUME Inv, [Next]_vars
               PROVE  \A m \in Modules : DOMAIN imports'[m] = DOMAIN imports[m]
    OBVIOUS
  <2>1. CASE UNCHANGED imports
    BY <2>1
  <2>2. CASE BindEdge
    <3>1. /\ DOMAIN imports = Modules
          /\ call.owner \in DOMAIN imports[call.consumer]
      BY <2>2 DEF BindEdge, Inv, TypeInv
    <3>2. \E entry : imports' = [imports EXCEPT ![call.consumer][call.owner] = entry]
      BY <2>2 DEF BindEdge
    <3>3. QED
      BY <3>1, <3>2
  <2>3. QED
    BY <2>1, <2>2 DEF Next, Ask, SameModule, Direct, StartSearch, Visit, NextPass, EndSearch,
       TakeRoute, NoRoute, Register, Finalize, Evaluate, graphVars, vars
<1>3. QED
  BY <1>1, <1>2, InitInv, PTL DEF Spec, DependenciesKept

-----------------------------------------------------------------------------
(* A graph that gets a fresh alias along an edge still links. *)

\* An identifier the graph does not mention.
Unmentioned(g, alias) ==
  \A m \in Modules :
    /\ alias \notin g.natives[m]
    /\ \A e \in g.exports[m] : e.local # alias /\ e.public # alias
    /\ \A t \in Modules : \A s \in SpecsOf(g, m, t) : s.local # alias /\ s.public # alias

AliasSpec(alias) == [public |-> alias, local |-> alias]
AliasExport(native, alias) == [local |-> native, public |-> alias]

LEMMA AliasFields ==
  ASSUME NEW native, NEW alias
  PROVE  /\ AliasSpec(alias).public = alias /\ AliasSpec(alias).local = alias
         /\ AliasExport(native, alias).public = alias
         /\ AliasExport(native, alias).local = native
BY DEF AliasSpec, AliasExport

\* Graph h is g with native, of module o, imported by c under alias.
Aliased(g, h, c, o, native, alias) ==
  /\ h.natives = g.natives
  /\ \A m, t \in Modules : \A s : s \in SpecsOf(h, m, t) <=>
       s \in SpecsOf(g, m, t) \/ (m = c /\ t = o /\ s = AliasSpec(alias))
  /\ \A m \in Modules : \A e : e \in h.exports[m] <=>
       e \in g.exports[m] \/ (m = o /\ e = AliasExport(native, alias))

LEMMA InScope ==
  ASSUME NEW g, NEW m, NEW l
  PROVE  l \in Scope(g, m) <=>
           l \in g.natives[m] \/ \E t \in Modules : \E s \in SpecsOf(g, m, t) : s.local = l
BY DEF Scope, ImportedBy

LEMMA InOrigins ==
  ASSUME NEW g, NEW b, NEW x
  PROVE  x \in Origins(g, b) <=>
           \E t \in Modules : \E e \in g.exports[t] :
             (\E s \in SpecsOf(g, b[1], t) : s.local = b[2] /\ s.public = e.public) /\ x = <<t, e.local>>
<1> DEFINE From(t) == {e \in g.exports[t] :
                         \E s \in SpecsOf(g, b[1], t) : s.local = b[2] /\ s.public = e.public}
<1>1. x \in Origins(g, b) <=> \E t \in Modules : x \in {<<t, e.local>> : e \in From(t)}
  BY DEF Origins
<1>2. \A t : x \in {<<t, e.local>> : e \in From(t)} <=> \E e \in From(t) : x = <<t, e.local>>
  OBVIOUS
<1>3. \A t, e : e \in From(t) <=>
        /\ e \in g.exports[t]
        /\ \E s \in SpecsOf(g, b[1], t) : s.local = b[2] /\ s.public = e.public
  OBVIOUS
<1> HIDE DEF From
<1>4. QED
  BY <1>1, <1>2, <1>3

Imported(g) == UNION {{m} \X ImportedBy(g, m) : m \in Modules}

\* The two halves of Links.
Bound(g) ==
  \A m \in Modules :
    /\ \A l \in Scope(g, m) : \E t \in Modules : Binders(g, m, l) = {t}
    /\ \A t \in Modules : \A s, z \in SpecsOf(g, m, t) : s.local = z.local => s = z
    /\ \A e \in g.exports[m] : e.local \in Scope(g, m)
    /\ \A e, f \in g.exports[m] : e.public = f.public => e = f
    /\ \A t \in Modules : \A s \in SpecsOf(g, m, t) :
         \E e \in g.exports[t] : e.public = s.public

Founded(g) ==
  \A circle \in SUBSET Imported(g) :
    circle # {} => \E b \in circle : Origins(g, b) \intersect circle = {}

LEMMA LinksHalves == ASSUME NEW g PROVE Links(g) <=> Bound(g) /\ Founded(g)
BY DEF Links, Bound, Founded, Imported

LEMMA AliasedScope ==
  ASSUME NEW g, NEW h, NEW c \in Modules, NEW o \in Modules, NEW native, NEW alias,
         Aliased(g, h, c, o, native, alias), NEW m \in Modules, NEW l
  PROVE  l \in Scope(h, m) <=> l \in Scope(g, m) \/ (m = c /\ l = alias)
<1>1. h.natives[m] = g.natives[m]
  BY DEF Aliased
<1>2. (\E t \in Modules : \E s \in SpecsOf(h, m, t) : s.local = l) <=>
      (\E t \in Modules : \E s \in SpecsOf(g, m, t) : s.local = l) \/ (m = c /\ l = alias)
  <2> DEFINE spec == AliasSpec(alias)
  <2>1. spec.local = alias
    BY AliasFields
  <2>2. \A t \in Modules : \A s : s \in SpecsOf(h, m, t) <=>
          s \in SpecsOf(g, m, t) \/ (m = c /\ t = o /\ s = spec)
    BY DEF Aliased
  <2> HIDE DEF spec
  <2>3. QED
    BY <2>1, <2>2
<1>3. QED
  BY <1>1, <1>2, InScope

LEMMA AliasedBound ==
  ASSUME NEW g, NEW h, NEW c \in Modules, NEW o \in Modules, NEW native, NEW alias,
         Bound(g), native \in Scope(g, o), Unmentioned(g, alias),
         Aliased(g, h, c, o, native, alias)
  PROVE  Bound(h)
<1> SUFFICES ASSUME NEW m \in Modules
             PROVE  /\ \A l \in Scope(h, m) : \E t \in Modules : Binders(h, m, l) = {t}
                    /\ \A t \in Modules : \A s, z \in SpecsOf(h, m, t) : s.local = z.local => s = z
                    /\ \A e \in h.exports[m] : e.local \in Scope(h, m)
                    /\ \A e, f \in h.exports[m] : e.public = f.public => e = f
                    /\ \A t \in Modules : \A s \in SpecsOf(h, m, t) :
                         \E e \in h.exports[t] : e.public = s.public
  BY DEF Bound
<1>1. ASSUME NEW l \in Scope(h, m) PROVE \E t \in Modules : Binders(h, m, l) = {t}
  <2>1. CASE m = c /\ l = alias
    <3>1. \A t \in Modules : (\E s \in SpecsOf(h, m, t) : s.local = l) <=> t = o
      <4> DEFINE spec == AliasSpec(alias)
      <4>1. spec.local = alias
        BY AliasFields
      <4>2. \A t \in Modules : \A s : s \in SpecsOf(h, m, t) <=>
              s \in SpecsOf(g, m, t) \/ (m = c /\ t = o /\ s = spec)
        BY DEF Aliased
      <4>3. \A t \in Modules : \A s \in SpecsOf(g, m, t) : s.local # alias
        BY DEF Unmentioned
      <4> HIDE DEF spec
      <4>4. QED
        BY <2>1, <4>1, <4>2, <4>3
    <3>2. l \notin h.natives[m]
      BY <2>1 DEF Aliased, Unmentioned
    <3>3. Binders(h, m, l) = {o}
      BY <3>1, <3>2 DEF Binders
    <3>4. QED
      BY <3>3
  <2>2. CASE ~ (m = c /\ l = alias)
    <3>1. l \in Scope(g, m)
      BY <2>2, AliasedScope
    <3>2. \A t \in Modules : (\E s \in SpecsOf(h, m, t) : s.local = l)
                         <=> (\E s \in SpecsOf(g, m, t) : s.local = l)
      BY <2>2, AliasFields DEF Aliased
    <3>3. h.natives[m] = g.natives[m]
      BY DEF Aliased
    <3>4. Binders(h, m, l) = Binders(g, m, l)
      BY <3>2, <3>3 DEF Binders
    <3>5. QED
      BY <3>1, <3>4 DEF Bound
  <2>3. QED
    BY <2>1, <2>2
<1>2. ASSUME NEW t \in Modules, NEW s \in SpecsOf(h, m, t), NEW z \in SpecsOf(h, m, t),
             s.local = z.local
      PROVE  s = z
  <2>1. \A x \in SpecsOf(h, m, t) :
          x \in SpecsOf(g, m, t) \/ x = AliasSpec(alias)
    BY DEF Aliased
  <2>2. \A x \in SpecsOf(g, m, t) : x.local # alias
    BY DEF Unmentioned
  <2>3. QED
    BY <1>2, <2>1, <2>2, AliasFields DEF Bound
<1>3. ASSUME NEW e \in h.exports[m] PROVE e.local \in Scope(h, m)
  <2>1. e.local \in Scope(g, m)
    <3>1. CASE e \in g.exports[m]
      BY <3>1 DEF Bound
    <3>2. CASE m = o /\ e = AliasExport(native, alias)
      BY <3>2, AliasFields
    <3>3. QED
      BY <3>1, <3>2 DEF Aliased
  <2>2. QED
    BY <2>1, AliasedScope
<1>4. ASSUME NEW e \in h.exports[m], NEW f \in h.exports[m], e.public = f.public
      PROVE  e = f
  <2>1. \A x \in h.exports[m] :
          x \in g.exports[m] \/ x = AliasExport(native, alias)
    BY DEF Aliased
  <2>2. \A x \in g.exports[m] : x.public # alias
    BY DEF Unmentioned
  <2>3. QED
    BY <1>4, <2>1, <2>2, AliasFields DEF Bound
<1>5. ASSUME NEW t \in Modules, NEW s \in SpecsOf(h, m, t)
      PROVE  \E e \in h.exports[t] : e.public = s.public
  <2>1. CASE s \in SpecsOf(g, m, t)
    <3>1. PICK e \in g.exports[t] : e.public = s.public
      BY <2>1 DEF Bound
    <3>2. e \in h.exports[t]
      BY DEF Aliased
    <3>3. QED
      BY <3>1, <3>2
  <2>2. CASE t = o /\ s = AliasSpec(alias)
    <3>1. AliasExport(native, alias) \in h.exports[t]
      BY <2>2 DEF Aliased
    <3>2. QED
      BY <2>2, <3>1, AliasFields
  <2>3. QED
    BY <2>1, <2>2 DEF Aliased
<1>6. QED
  BY <1>1, <1>2, <1>3, <1>4, <1>5

LEMMA AliasedFounded ==
  ASSUME NEW g, NEW h, NEW c \in Modules, NEW o \in Modules, NEW native, NEW alias,
         Founded(g), native \in Scope(g, o), Unmentioned(g, alias),
         Aliased(g, h, c, o, native, alias)
  PROVE  Founded(h)
<1> SUFFICES ASSUME NEW circle \in SUBSET Imported(h), circle # {}
             PROVE  \E b \in circle : Origins(h, b) \intersect circle = {}
  BY DEF Founded
<1> DEFINE new == <<c, alias>>
           old == circle \ {new}
<1>1. \A b \in circle : b = <<b[1], b[2]>> /\ b[1] \in Modules /\ b[2] \in ImportedBy(h, b[1])
  BY DEF Imported
<1>2. \A b \in old : b[1] \in Modules /\ b \in Imported(g)
  <2>1. ASSUME NEW b \in old PROVE b \in Imported(g)
    <3>1. b = <<b[1], b[2]>> /\ b[1] \in Modules /\ ~ (b[1] = c /\ b[2] = alias)
      BY <1>1
    <3>2. PICK t \in Modules : \E s \in SpecsOf(h, b[1], t) : s.local = b[2]
      BY <1>1 DEF ImportedBy
    <3>3. \E s \in SpecsOf(g, b[1], t) : s.local = b[2]
      BY <3>1, <3>2, AliasFields DEF Aliased
    <3>4. b[2] \in ImportedBy(g, b[1])
      BY <3>3 DEF ImportedBy
    <3>5. QED
      BY <3>1, <3>4 DEF Imported
  <2>2. QED
    BY <1>1, <2>1
<1>3. native # alias
  BY InScope DEF Unmentioned
<1>4. ASSUME NEW b \in old, NEW x \in Origins(h, b)
      PROVE  x \in Origins(g, b) /\ x # new
  <2>1. PICK t \in Modules : \E e \in h.exports[t] :
          (\E s \in SpecsOf(h, b[1], t) : s.local = b[2] /\ s.public = e.public) /\ x = <<t, e.local>>
    BY <1>4, InOrigins
  <2>2. PICK e \in h.exports[t] :
          (\E s \in SpecsOf(h, b[1], t) : s.local = b[2] /\ s.public = e.public) /\ x = <<t, e.local>>
    BY <2>1
  <2>3. PICK s \in SpecsOf(h, b[1], t) : s.local = b[2] /\ s.public = e.public
    BY <2>2
  <2>4. b[1] \in Modules /\ ~ (b[1] = c /\ b[2] = alias)
    BY <1>1, <1>4
  <2>5. s \in SpecsOf(g, b[1], t)
    BY <2>3, <2>4, AliasFields DEF Aliased
  <2>6. e \in g.exports[t]
    <3>1. e.public # alias
      BY <2>3, <2>4, <2>5 DEF Unmentioned
    <3>2. e \in g.exports[t] \/ e = AliasExport(native, alias)
      BY DEF Aliased
    <3>3. QED
      BY <3>1, <3>2, AliasFields
  <2>7. x \in Origins(g, b)
    BY <2>2, <2>3, <2>5, <2>6, InOrigins
  <2>8. e.local # alias
    BY <2>6 DEF Unmentioned
  <2>9. QED
    BY <2>2, <2>7, <2>8
<1>5. CASE old # {}
  <2>1. PICK b \in old : Origins(g, b) \intersect old = {}
    BY <1>2, <1>5 DEF Founded
  <2>2. Origins(h, b) \intersect circle = {}
    BY <1>4, <2>1
  <2>3. QED
    BY <2>2
<1>6. CASE old = {}
  <2>1. circle = {new}
    BY <1>6
  <2>2. ASSUME NEW x \in Origins(h, new) PROVE x # new
    <3>1. PICK t \in Modules : \E e \in h.exports[t] :
            (\E s \in SpecsOf(h, c, t) : s.local = alias /\ s.public = e.public) /\ x = <<t, e.local>>
      BY InOrigins
    <3>2. PICK e \in h.exports[t] :
            (\E s \in SpecsOf(h, c, t) : s.local = alias /\ s.public = e.public) /\ x = <<t, e.local>>
      BY <3>1
    <3>3. e.local # alias
      <4>1. e \in g.exports[t] \/ e = AliasExport(native, alias)
        BY DEF Aliased
      <4>2. \A f \in g.exports[t] : f.local # alias
        BY DEF Unmentioned
      <4>3. QED
        BY <1>3, <4>1, <4>2, AliasFields
    <3>4. QED
      BY <3>2, <3>3
  <2>3. QED
    BY <2>1, <2>2
<1>7. QED
  BY <1>5, <1>6

LEMMA AliasedLinks ==
  ASSUME NEW g, NEW h, NEW c \in Modules, NEW o \in Modules, NEW native, NEW alias,
         Links(g), native \in Scope(g, o), Unmentioned(g, alias),
         Aliased(g, h, c, o, native, alias)
  PROVE  Links(h)
BY LinksHalves, AliasedBound, AliasedFounded

-----------------------------------------------------------------------------
(* The names calls are about are in scope. *)

LinkedInv ==
  /\ Links(Graph)
  /\ pc \in Serving => call.native \in Scope(Graph, call.owner)
  /\ pc = "search" => search.found \subseteq Scope(Graph, call.consumer)

LEMMA GraphKept == UNCHANGED graphVars => Graph' = Graph
BY DEF graphVars, Graph

LEMMA GraphParts ==
  /\ Graph.natives = natives /\ Graph.imports = imports /\ Graph.exports = exports
BY DEF Graph

LEMMA DirectInScope ==
  ASSUME call.owner \in Modules
  PROVE  DirectNames \subseteq Scope(Graph, call.consumer)
<1> SUFFICES ASSUME NEW name \in DirectNames PROVE name \in Scope(Graph, call.consumer)
  OBVIOUS
<1>1. \E s \in SpecsOf(Graph, call.consumer, call.owner) : s.local = name
  BY DEF DirectNames, Specs
<1>2. QED
  BY <1>1, InScope

LEMMA KnownInScope ==
  ASSUME NEW m
  PROVE  ImportedKnown(m) \subseteq Scope(Graph, m)
<1> SUFFICES ASSUME NEW name \in ImportedKnown(m) PROVE name \in Scope(Graph, m)
  OBVIOUS
<1>1. \E t \in Modules : \E s \in SpecsOf(Graph, m, t) : s.local = name
  BY DEF ImportedKnown, Specs
<1>2. QED
  BY <1>1, InScope

\* An alias that is fresh is nowhere in the graph.
LEMMA FreshUnmentioned ==
  ASSUME NEW i \in Fresh
  PROVE  Unmentioned(Graph, Aliases[i])
<1> DEFINE alias == Aliases[i]
<1>1. alias \notin Used
  BY DEF Fresh
<1> HIDE DEF alias
<1>2. ASSUME NEW m \in Modules PROVE alias \notin natives[m]
  BY <1>1 DEF Used
<1>3. \A s \in Specifiers : s.local # alias /\ s.public # alias
  BY <1>1 DEF Used
<1>4. \A m, t \in Modules : exports[m] \subseteq Specifiers /\ Specs(m, t) \subseteq Specifiers
  BY DEF Specifiers
<1>5. QED
  BY <1>2, <1>3, <1>4, GraphParts DEF Unmentioned, Specs, alias

LEMMA ReturnLinked ==
  ASSUME Inv, pc \in Serving, NEW name, Return(name), Links(Graph'),
         name \in Scope(Graph', call.consumer)
  PROVE  LinkedInv'
<1>1. CASE Len(route) > 2
  <2>1. pc' = "resolve" /\ call'.native = name /\ call'.owner = route[Len(route) - 1]
    BY <1>1 DEF Return
  <2>2. call'.owner = call.consumer
    BY <1>1, <2>1 DEF Inv, RouteInv
  <2>3. QED
    BY <2>1, <2>2 DEF LinkedInv
<1>2. CASE ~ (Len(route) > 2)
  <2>1. pc' = "patching"
    BY <1>2 DEF Return
  <2>2. QED
    BY <2>1 DEF LinkedInv, Serving
<1>3. QED
  BY <1>1, <1>2

LEMMA SettleLinked ==
  ASSUME Inv, LinkedInv, pc \in Serving, UNCHANGED graphVars, NEW names, Settle(names),
         names \subseteq Scope(Graph, call.consumer)
  PROVE  LinkedInv'
<1>1. Graph' = Graph
  BY GraphKept
<1>2. CASE \E name \in names : Return(name)
  BY <1>1, <1>2, ReturnLinked DEF LinkedInv
<1>3. CASE NotUnique
  BY <1>1, <1>3 DEF LinkedInv, NotUnique, Serving
<1>4. QED
  BY <1>2, <1>3 DEF Settle

LEMMA VisitLinked == ASSUME Inv, LinkedInv, Visit PROVE LinkedInv'
<1> DEFINE m == Order[search.next]
<1>1. /\ pc = "search" /\ pc' = "search" /\ call' = call /\ Graph' = Graph
      /\ search'.found = IF m = call.consumer THEN search.found \union ImportedKnown(m)
                                              ELSE search.found
  BY GraphKept DEF Visit
<1>2. search'.found \subseteq Scope(Graph, call.consumer)
  BY <1>1, KnownInScope DEF LinkedInv
<1> HIDE DEF m
<1>3. QED
  BY <1>1, <1>2 DEF LinkedInv, Serving

\* What BindEdge adds is an alias along an edge.
LEMMA BindEdgeLinked == ASSUME Inv, LinkedInv, BindEdge PROVE LinkedInv'
<1>1. PICK c \in Modules, o \in Modules : c = call.consumer /\ o = call.owner
  BY DEF BindEdge, Serving, Inv, TypeInv, IsCall
<1>2. PICK i \in Fresh :
        /\ imports' = [imports EXCEPT ![c][o] =
                         @ \union {[public |-> Aliases[i], local |-> Aliases[i]]}]
        /\ exports' = [exports EXCEPT ![o] =
                         @ \union {[local |-> call.native, public |-> Aliases[i]]}]
        /\ Return(Aliases[i])
  BY <1>1 DEF BindEdge
<1> DEFINE alias == Aliases[i]
           spec == AliasSpec(alias)
           export == AliasExport(call.native, alias)
<1>3. /\ imports' = [imports EXCEPT ![c][o] = @ \union {spec}]
      /\ exports' = [exports EXCEPT ![o] = @ \union {export}]
  BY <1>2 DEF AliasSpec, AliasExport
<1>4. /\ o \in DOMAIN imports[c] /\ natives' = natives /\ pc \in Serving
      /\ DOMAIN imports = Modules /\ DOMAIN exports = Modules
  BY <1>1 DEF BindEdge, Inv, TypeInv, Serving
<1>5. call.native \in Scope(Graph, o) /\ Links(Graph)
  BY <1>1, <1>4 DEF LinkedInv
<1>6. Unmentioned(Graph, alias)
  BY FreshUnmentioned
<1> HIDE DEF alias, spec, export
<1>7. \A m, t \in Modules : \A s : s \in SpecsOf(Graph', m, t) <=>
        s \in SpecsOf(Graph, m, t) \/ (m = c /\ t = o /\ s = spec)
  <2>1. ASSUME NEW m \in Modules, NEW t \in DOMAIN imports[m], m # c \/ t # o
        PROVE  imports'[m][t] = imports[m][t]
    BY <1>3, <1>4, <2>1
  <2>2. imports'[c][o] = imports[c][o] \union {spec}
    BY <1>3, <1>4
  <2>3. \A m \in Modules : DOMAIN imports'[m] = DOMAIN imports[m]
    BY <1>3, <1>4
  <2>4. Graph'.imports = imports' /\ Graph.imports = imports
    BY DEF Graph
  <2>5. ASSUME NEW m \in Modules, NEW t \in Modules, NEW s
        PROVE  s \in SpecsOf(Graph', m, t) <=>
                 s \in SpecsOf(Graph, m, t) \/ (m = c /\ t = o /\ s = spec)
    <3>1. CASE m = c /\ t = o
      BY <1>4, <2>2, <2>3, <2>4, <3>1 DEF SpecsOf
    <3>2. CASE ~ (m = c /\ t = o)
      BY <2>1, <2>3, <2>4, <3>2 DEF SpecsOf
    <3>3. QED
      BY <3>1, <3>2
  <2>6. QED
    BY <2>5
<1>8. \A m \in Modules : \A e : e \in Graph'.exports[m] <=>
        e \in Graph.exports[m] \/ (m = o /\ e = export)
  <2>1. Graph'.exports = exports' /\ Graph.exports = exports
    BY DEF Graph
  <2>2. QED
    BY <1>3, <1>4, <2>1
<1>9. Aliased(Graph, Graph', c, o, call.native, alias)
  <2>1. Graph'.natives = Graph.natives
    BY <1>4 DEF Graph
  <2>2. QED
    BY <1>7, <1>8, <2>1 DEF Aliased, spec, export
<1>10. Links(Graph')
  BY <1>5, <1>6, <1>9, AliasedLinks
<1>11. alias \in Scope(Graph', c)
  BY <1>9, AliasedScope
<1>12. QED
  BY <1>1, <1>2, <1>4, <1>10, <1>11, ReturnLinked DEF alias

LEMMA ServeLinked == ASSUME Inv, LinkedInv, Serve PROVE LinkedInv'
<1>1. CASE SameModule
  <2>1. /\ pc \in Serving /\ Return(call.native) /\ call.owner = call.consumer
        /\ Graph' = Graph
    BY <1>1, GraphKept DEF SameModule, Serving
  <2>2. QED
    BY <2>1, ReturnLinked DEF LinkedInv
<1>2. CASE Direct
  <2>1. pc \in Serving /\ Settle(DirectNames) /\ UNCHANGED graphVars /\ call.owner \in Modules
    BY <1>2 DEF Direct, Serving, Inv, TypeInv, IsCall
  <2>2. QED
    BY <2>1, DirectInScope, SettleLinked
<1>3. CASE StartSearch
  <2>1. /\ pc \in Serving /\ call' = call /\ search'.found = {} /\ Graph' = Graph
    BY <1>3, GraphKept DEF StartSearch, Serving, NoSearch
  <2>2. QED
    BY <2>1 DEF LinkedInv
<1>4. CASE NextPass
  <2>1. /\ pc \in Serving /\ pc = "search" /\ call' = call /\ search'.found = search.found
        /\ Graph' = Graph
    BY <1>4, GraphKept DEF NextPass, Serving, Inv, TypeInv
  <2>2. QED
    BY <2>1 DEF LinkedInv
<1>5. CASE EndSearch
  <2>1. pc \in Serving /\ pc = "search" /\ Settle(search.found) /\ UNCHANGED graphVars
    BY <1>5 DEF EndSearch, Serving
  <2>2. QED
    BY <2>1, SettleLinked DEF LinkedInv
<1>6. CASE TakeRoute
  <2>1. /\ pc \in Serving /\ pc' = "resolve" /\ Graph' = Graph
        /\ \E p : call' = [call EXCEPT !.consumer = p]
    BY <1>6, GraphKept DEF TakeRoute, Serving
  <2>2. call'.native = call.native /\ call'.owner = call.owner
    BY <2>1 DEF Inv, TypeInv, IsCall
  <2>3. QED
    BY <2>1, <2>2 DEF LinkedInv
<1>7. CASE NoRoute
  BY <1>7, GraphKept DEF NoRoute, LinkedInv, Serving
<1>8. QED
  BY <1>1, <1>2, <1>3, <1>4, <1>5, <1>6, <1>7, VisitLinked, BindEdgeLinked DEF Serve

LEMMA InitLinked == Init => LinkedInv
<1> SUFFICES ASSUME Init PROVE LinkedInv
  OBVIOUS
<1>1. PICK g \in Graphs : natives = g.natives /\ imports = g.imports /\ exports = g.exports
  BY DEF Init
<1>2. Links(g) /\ g = [natives |-> g.natives, imports |-> g.imports, exports |-> g.exports]
  BY ModulesAssumption DEF ModulesAssumption, IsGraph
<1>3. Links(Graph)
  BY <1>1, <1>2 DEF Graph
<1>4. QED
  BY <1>3 DEF Init, LinkedInv, Serving

LEMMA NextLinked == ASSUME Inv, LinkedInv, [Next]_vars PROVE LinkedInv'
<1>1. ASSUME NEW e, NEW owner \in Modules, NEW c, NEW native, Ask(e, owner, native, c)
      PROVE  LinkedInv'
  <2>1. /\ pc' = "resolve" /\ native \in natives[owner] /\ Graph' = Graph
        /\ call'.owner = owner /\ call'.native = native
    BY <1>1, GraphKept DEF Ask
  <2>2. native \in Scope(Graph, owner)
    BY <2>1, InScope, GraphParts
  <2>3. QED
    BY <2>1, <2>2 DEF LinkedInv
<1>2. ASSUME UNCHANGED <<graphVars, callVars>>,
             pc' = pc \/ pc' \in {"refused", "running"}
      PROVE  LinkedInv'
  BY <1>2, GraphKept DEF LinkedInv, callVars, Serving
<1>3. CASE Serve
  BY <1>3, ServeLinked
<1>4. CASE \/ \E k \in Keys, code \in Codes : Register(k, code)
           \/ Finalize \/ \E m \in Modules : Evaluate(m)
           \/ UNCHANGED vars
  BY <1>2, <1>4 DEF Register, Finalize, Evaluate, vars
<1>5. QED
  BY <1>1, <1>3, <1>4 DEF Next, Serve

\* The bundle still links after any number of calls, on any graph that linked: no
\* name is bound twice, no import or export hangs in the air and no re-exports run
\* in a circle (ensure_module_reference).
THEOREM StillLinksHolds == Spec => []StillLinks
<1>1. LinkedInv => StillLinks
  BY DEF LinkedInv, StillLinks
<1>2. Inv /\ LinkedInv /\ [Next]_vars => Inv' /\ LinkedInv'
  BY NextInv, NextLinked
<1>3. Init => Inv /\ LinkedInv
  BY InitInv, InitLinked
<1>4. QED
  BY <1>1, <1>2, <1>3, PTL DEF Spec

-----------------------------------------------------------------------------
(* Ranks: the places of a set of positions, counted from the front. *)

\* A finite set of positions that has one of every rank.
Ranked(positions, length) ==
  /\ positions \subseteq 1 .. length
  /\ \A n \in 1 .. Cardinality(positions) : \E i \in positions : Rank(positions, i) = n

LEMMA FinitePositions ==
  ASSUME NEW length \in Nat, NEW positions \in SUBSET (1 .. length)
  PROVE  IsFiniteSet(positions) /\ Cardinality(positions) \in Nat
<1>1. IsFiniteSet(1 .. length)
  <2>1. 1 \in Int /\ length \in Int
    OBVIOUS
  <2>2. QED
    BY <2>1, FS_Interval
<1>2. IsFiniteSet(positions)
  BY <1>1, FS_Subset
<1>3. QED
  BY <1>2, FS_CardinalityType

LEMMA RankBounds ==
  ASSUME NEW length \in Nat, NEW positions \in SUBSET (1 .. length), NEW i \in positions
  PROVE  /\ IsFiniteSet(positions) /\ Cardinality(positions) \in Nat
         /\ Rank(positions, i) \in 1 .. Cardinality(positions)
<1> DEFINE upto == {j \in positions : j <= i}
<1>1. IsFiniteSet(positions) /\ Cardinality(positions) \in Nat
  BY FinitePositions
<1>2. upto \in SUBSET positions /\ i \in upto
  OBVIOUS
<1>3. /\ IsFiniteSet(upto) /\ Cardinality(upto) \in Nat
      /\ Cardinality(upto) <= Cardinality(positions)
  BY <1>1, <1>2, FS_Subset, FS_CardinalityType
<1>4. Cardinality(upto) # 0
  BY <1>2, <1>3, FS_EmptySet
<1>5. Rank(positions, i) = Cardinality(upto)
  BY DEF Rank
<1> HIDE DEF upto
<1>6. QED
  BY <1>1, <1>3, <1>4, <1>5

\* A later position has a higher rank.
LEMMA RankGrows ==
  ASSUME NEW length \in Nat, NEW positions \in SUBSET (1 .. length),
         NEW i \in positions, NEW k \in positions, i < k
  PROVE  Rank(positions, i) < Rank(positions, k)
<1> DEFINE low == {j \in positions : j <= i}
           high == {j \in positions : j <= k}
<1>1. IsFiniteSet(positions)
  BY RankBounds
<1>2. high \in SUBSET positions /\ low \in SUBSET high /\ k \in high /\ k \notin low
  <2>1. i \in Int /\ k \in Int /\ \A j \in positions : j \in Int
    OBVIOUS
  <2>2. k <= k /\ ~ (k <= i) /\ \A j \in positions : j <= i => j <= k
    BY <2>1
  <2>3. QED
    BY <2>2
<1>3. IsFiniteSet(high) /\ IsFiniteSet(low)
  BY <1>1, <1>2, FS_Subset
<1>4. /\ Cardinality(high) \in Nat /\ Cardinality(low) \in Nat
      /\ Cardinality(low) <= Cardinality(high) /\ Cardinality(low) # Cardinality(high)
  BY <1>2, <1>3, FS_Subset, FS_CardinalityType
<1>5. Rank(positions, i) = Cardinality(low) /\ Rank(positions, k) = Cardinality(high)
  BY DEF Rank
<1> HIDE DEF low, high
<1>6. QED
  BY <1>4, <1>5

\* Each rank has one position, and they are in the same order.
LEMMA AtRank ==
  ASSUME NEW length \in Nat, NEW positions, Ranked(positions, length)
  PROVE  /\ \A n \in 1 .. Cardinality(positions) :
              At(positions, n) \in positions /\ Rank(positions, At(positions, n)) = n
         /\ \A i \in positions : At(positions, Rank(positions, i)) = i
         /\ \A m, n \in 1 .. Cardinality(positions) : m < n =>
              At(positions, m) < At(positions, n)
<1> USE DEF Ranked
<1>1. ASSUME NEW n \in 1 .. Cardinality(positions)
      PROVE  At(positions, n) \in positions /\ Rank(positions, At(positions, n)) = n
  BY DEF At
<1>2. ASSUME NEW i \in positions PROVE At(positions, Rank(positions, i)) = i
  <2> DEFINE k == At(positions, Rank(positions, i))
  <2>1. Rank(positions, i) \in 1 .. Cardinality(positions)
    BY RankBounds
  <2>2. k \in positions /\ Rank(positions, k) = Rank(positions, i)
    BY <1>1, <2>1
  <2> HIDE DEF k
  <2>3. Rank(positions, i) \in Int
    BY <2>1, RankBounds
  <2>4. k \in Int /\ i \in Int /\ positions \in SUBSET (1 .. length)
    BY <2>2
  <2>5. ~ (k < i) /\ ~ (i < k)
    <3>1. k < i => Rank(positions, k) < Rank(positions, i)
      BY <2>2, <2>4, RankGrows
    <3>2. i < k => Rank(positions, i) < Rank(positions, k)
      BY <2>2, <2>4, RankGrows
    <3>3. QED
      BY <2>2, <2>3, <3>1, <3>2
  <2>6. QED
    BY <2>4, <2>5 DEF k
<1>3. ASSUME NEW m \in 1 .. Cardinality(positions), NEW n \in 1 .. Cardinality(positions), m < n
      PROVE  At(positions, m) < At(positions, n)
  <2> DEFINE i == At(positions, m)
             k == At(positions, n)
  <2>1. i \in positions /\ k \in positions /\ Rank(positions, i) = m /\ Rank(positions, k) = n
    BY <1>1
  <2> HIDE DEF i, k
  <2>2. k \in Int /\ i \in Int /\ positions \in SUBSET (1 .. length) /\ m \in Int /\ n \in Int
    BY <2>1, FinitePositions
  <2>3. ~ (k < i) /\ i # k
    <3>1. k < i => n < m
      BY <2>1, <2>2, RankGrows
    <3>2. QED
      BY <1>3, <2>1, <2>2, <3>1
  <2>4. QED
    BY <2>2, <2>3 DEF i, k
<1>4. QED
  BY <1>1, <1>2, <1>3

\* A set of positions has one of every rank.
LEMMA AlwaysRanked ==
  ASSUME NEW length \in Nat, NEW positions \in SUBSET (1 .. length)
  PROVE  Ranked(positions, length)
<1> DEFINE ranks == 1 .. Cardinality(positions)
           rank == [i \in positions |-> Rank(positions, i)]
<1>1. IsFiniteSet(positions) /\ Cardinality(positions) \in Nat
  BY FinitePositions
<1>2. IsFiniteSet(ranks) /\ Cardinality(ranks) = Cardinality(positions)
  <2>1. 1 \in Int /\ Cardinality(positions) \in Int
    BY <1>1
  <2>2. QED
    BY <1>1, <2>1, FS_Interval
<1>3. rank \in [positions -> ranks]
  BY RankBounds
<1>4. ASSUME NEW i \in positions, NEW k \in positions, rank[i] = rank[k] PROVE i = k
  <2>1. Rank(positions, i) = Rank(positions, k) /\ Rank(positions, i) \in Int
    <3>1. Rank(positions, i) \in 1 .. Cardinality(positions)
      BY RankBounds
    <3>2. Rank(positions, i) = Rank(positions, k)
      BY <1>4
    <3>3. QED
      BY <1>1, <3>1, <3>2
  <2>2. ~ (i < k) /\ ~ (k < i)
    <3>1. i < k => Rank(positions, i) < Rank(positions, k)
      BY RankGrows
    <3>2. k < i => Rank(positions, k) < Rank(positions, i)
      BY RankGrows
    <3>3. QED
      BY <2>1, <3>1, <3>2
  <2>3. i \in Int /\ k \in Int
    OBVIOUS
  <2>4. QED
    BY <2>2, <2>3
<1>5. rank \in Injection(positions, ranks)
  BY <1>3, <1>4 DEF Injection, IsInjective
<1>6. rank \in Surjection(positions, ranks)
  <2> HIDE DEF ranks, rank
  <2>1. QED
    BY <1>2, <1>5, FS_Injection
<1>7. ASSUME NEW n \in ranks PROVE \E i \in positions : Rank(positions, i) = n
  BY <1>6 DEF Surjection
<1>8. QED
  BY <1>7 DEF Ranked

\* What is kept are the entries at the positions, in their order.
LEMMA KeptEntries ==
  ASSUME NEW S, NEW s \in Seq(S), NEW positions \in SUBSET DOMAIN s
  PROVE  /\ Kept(s, positions) \in Seq(S)
         /\ Len(Kept(s, positions)) = Cardinality(positions) /\ Cardinality(positions) \in Nat
         /\ \A n \in 1 .. Cardinality(positions) :
              At(positions, n) \in positions /\ Kept(s, positions)[n] = s[At(positions, n)]
         /\ \A i \in positions : \E n \in 1 .. Cardinality(positions) : At(positions, n) = i
         /\ \A m, n \in 1 .. Cardinality(positions) :
              At(positions, m) = At(positions, n) => m = n
<1> DEFINE size == Cardinality(positions)
<1>1. Len(s) \in Nat /\ positions \in SUBSET (1 .. Len(s))
  OBVIOUS
<1>2. size \in Nat /\ Ranked(positions, Len(s))
  BY <1>1, FinitePositions, AlwaysRanked
<1>3. /\ \A n \in 1 .. size : At(positions, n) \in positions /\ Rank(positions, At(positions, n)) = n
      /\ \A i \in positions : At(positions, Rank(positions, i)) = i
  BY <1>1, <1>2, AtRank
<1>4. \A i \in positions : Rank(positions, i) \in 1 .. size
  BY <1>1, RankBounds
<1> HIDE DEF size
<1>5. Kept(s, positions) = [n \in 1 .. size |-> s[At(positions, n)]]
  BY DEF Kept, size
<1>6. \A n \in 1 .. size : s[At(positions, n)] \in S
  BY <1>3
<1>7. Kept(s, positions) \in Seq(S) /\ Len(Kept(s, positions)) = size
  BY <1>2, <1>5, <1>6
<1>8. \A i \in positions : \E n \in 1 .. size : At(positions, n) = i
  BY <1>3, <1>4
<1>9. \A m, n \in 1 .. size : At(positions, m) = At(positions, n) => m = n
  BY <1>3
<1>10. QED
  BY <1>2, <1>3, <1>5, <1>7, <1>8, <1>9 DEF size

\* As many positions as ranks they are looked up by.
LEMMA CountedByRank ==
  ASSUME NEW length \in Nat, NEW positions \in SUBSET (1 .. length),
         NEW ranks \in SUBSET (1 .. Cardinality(positions))
  PROVE  /\ IsFiniteSet({At(positions, n) : n \in ranks})
         /\ Cardinality({At(positions, n) : n \in ranks}) = Cardinality(ranks)
<1> DEFINE images == {At(positions, n) : n \in ranks}
           at == [n \in ranks |-> At(positions, n)]
<1>1. Cardinality(positions) \in Nat /\ Ranked(positions, length)
  BY FinitePositions, AlwaysRanked
<1>2. IsFiniteSet(ranks)
  BY <1>1, FinitePositions
<1>3. \A m, n \in ranks : At(positions, m) = At(positions, n) => m = n
  BY <1>1, AtRank
<1>4. at \in [ranks -> images] /\ \A i \in images : \E n \in ranks : at[n] = i
  OBVIOUS
<1>5. \A m, n \in ranks : at[m] = at[n] => m = n
  BY <1>3
<1>6. at \in Bijection(ranks, images)
  BY <1>4, <1>5 DEF Bijection, Injection, Surjection, IsInjective
<1> HIDE DEF at, images
<1>7. ExistsBijection(ranks, images)
  BY <1>6 DEF ExistsBijection
<1>8. IsFiniteSet(images) /\ Cardinality(images) = Cardinality(ranks)
  BY <1>2, <1>7, FS_Bijection
<1>9. QED
  BY <1>8 DEF images

\* Selecting from a selection is one selection.
LEMMA KeptKept ==
  ASSUME NEW S, NEW s \in Seq(S), NEW positions \in SUBSET DOMAIN s,
         NEW ranks \in SUBSET DOMAIN Kept(s, positions)
  PROVE  Kept(Kept(s, positions), ranks) = Kept(s, {At(positions, n) : n \in ranks})
<1> DEFINE images == {At(positions, n) : n \in ranks}
           size == Cardinality(ranks)
<1>1. Len(s) \in Nat /\ positions \in SUBSET (1 .. Len(s))
  OBVIOUS
<1>2. /\ Kept(s, positions) \in Seq(S) /\ Cardinality(positions) \in Nat
      /\ Len(Kept(s, positions)) = Cardinality(positions)
      /\ \A n \in 1 .. Cardinality(positions) :
           At(positions, n) \in positions /\ Kept(s, positions)[n] = s[At(positions, n)]
  BY KeptEntries
<1>3. ranks \in SUBSET (1 .. Cardinality(positions))
  BY <1>2
<1>4. images \in SUBSET (1 .. Len(s)) /\ Cardinality(images) = size
  <2>1. \A n \in ranks : At(positions, n) \in 1 .. Len(s)
    BY <1>1, <1>2, <1>3
  <2>2. Cardinality(images) = size
    BY <1>1, <1>3, CountedByRank
  <2>3. QED
    BY <2>1, <2>2
<1>5. size \in Nat /\ Ranked(ranks, Cardinality(positions)) /\ Ranked(images, Len(s))
  BY <1>1, <1>2, <1>3, <1>4, FinitePositions, AlwaysRanked
<1>6. Ranked(positions, Len(s))
  BY <1>1, AlwaysRanked
<1>7. ASSUME NEW m \in ranks PROVE Rank(images, At(positions, m)) = Rank(ranks, m)
  <2> DEFINE low == {n \in ranks : n <= m}
  <2>1. ASSUME NEW n \in ranks PROVE At(positions, n) <= At(positions, m) <=> n <= m
    <3>1. n \in 1 .. Cardinality(positions) /\ m \in 1 .. Cardinality(positions)
      BY <1>3
    <3>2. n < m => At(positions, n) < At(positions, m)
      BY <1>1, <1>6, <3>1, AtRank
    <3>3. m < n => At(positions, m) < At(positions, n)
      BY <1>1, <1>6, <3>1, AtRank
    <3>4. At(positions, n) \in Int /\ At(positions, m) \in Int /\ n \in Int /\ m \in Int
      BY <1>1, <1>2, <3>1
    <3>5. QED
      BY <3>2, <3>3, <3>4
  <2>2. {i \in images : i <= At(positions, m)} = {At(positions, n) : n \in low}
    BY <2>1
  <2>3. low \in SUBSET (1 .. Cardinality(positions))
    BY <1>3
  <2> HIDE DEF low
  <2>4. Cardinality({At(positions, n) : n \in low}) = Cardinality(low)
    BY <1>1, <2>3, CountedByRank
  <2>5. QED
    BY <2>2, <2>4 DEF Rank, low
<1>8. ASSUME NEW k \in 1 .. size PROVE At(images, k) = At(positions, At(ranks, k))
  <2>1. At(ranks, k) \in ranks /\ Rank(ranks, At(ranks, k)) = k
    BY <1>2, <1>5, AtRank
  <2>2. At(positions, At(ranks, k)) \in images
    BY <2>1
  <2>3. Rank(images, At(positions, At(ranks, k))) = k
    BY <1>7, <2>1
  <2>4. \A i \in images : At(images, Rank(images, i)) = i
    BY <1>1, <1>5, AtRank
  <2>5. QED
    BY <2>2, <2>3, <2>4
<1>9. ASSUME NEW k \in 1 .. size PROVE At(ranks, k) \in ranks
  BY <1>2, <1>5, AtRank
<1> HIDE DEF size
<1>10. Kept(Kept(s, positions), ranks) = [k \in 1 .. size |-> Kept(s, positions)[At(ranks, k)]]
  BY DEF Kept, size
<1>11. \A k \in 1 .. size : Kept(s, positions)[At(ranks, k)] = s[At(images, k)]
  BY <1>2, <1>3, <1>8, <1>9
<1>12. Kept(s, images) = [k \in 1 .. size |-> s[At(images, k)]]
  BY <1>4 DEF Kept
<1>13. QED
  BY <1>10, <1>11, <1>12

\* A sequence keeps all its entries, or none.
LEMMA KeptAll ==
  ASSUME NEW S, NEW s \in Seq(S)
  PROVE  Kept(s, DOMAIN s) = s
<1> DEFINE length == Len(s)
<1>1. length \in Nat /\ DOMAIN s = 1 .. length /\ Cardinality(1 .. length) = length
  <2>1. length \in Nat /\ DOMAIN s = 1 .. length
    OBVIOUS
  <2>2. QED
    BY <2>1, FS_Interval
<1> HIDE DEF length
<1>2. ASSUME NEW i \in 1 .. length PROVE Rank(1 .. length, i) = i
  <2>1. {j \in 1 .. length : j <= i} = 1 .. i
    BY <1>1
  <2>2. i \in Int /\ i >= 1
    BY <1>1
  <2>3. Cardinality(1 .. i) = i
    BY <2>2, FS_Interval
  <2>4. QED
    BY <2>1, <2>3 DEF Rank
<1>3. ASSUME NEW n \in 1 .. length PROVE At(1 .. length, n) = n
  BY <1>2 DEF At
<1>4. Kept(s, DOMAIN s) = [n \in 1 .. length |-> s[n]]
  BY <1>1, <1>3 DEF Kept
<1>5. QED
  BY <1>1, <1>4

LEMMA KeptNone ==
  ASSUME NEW s
  PROVE  Kept(s, {}) = <<>>
<1>1. Cardinality({}) = 0
  BY FS_EmptySet
<1>2. QED
  BY <1>1 DEF Kept

-----------------------------------------------------------------------------
(* What has been registered, and what is installed of it. *)

Mark == [key : Keys, code : Codes]

\* Every key has a first registration, and these can be counted.
MarksInv ==
  /\ marks \in Seq(Mark)
  /\ \A i \in DOMAIN marks : \E f \in FirstOfKey : Registered[f].key = Registered[i].key

\* The first module to be evaluated installs everything, the others nothing.
InstalledInv ==
  /\ pc # "running" => entered = {} /\ installed = <<>>
  /\ pc = "running" =>
       /\ ~ Conflict
       /\ \A m \in Modules : prelude[m] = Registrations
       /\ installed = IF entered = {} THEN <<>> ELSE Registrations

LEMMA Mirrored ==
  ASSUME MarksInv
  PROVE  /\ Len(marks) \in Nat /\ DOMAIN marks = 1 .. Len(marks)
         /\ DOMAIN Registered = 1 .. Len(marks)
         /\ \A i \in 1 .. Len(marks) : /\ Len(marks) + 1 - i \in 1 .. Len(marks)
                                       /\ Registered[i] = marks[Len(marks) + 1 - i]
                                       /\ marks[i] = Registered[Len(marks) + 1 - i]
                                       /\ Registered[i] \in Mark
<1> DEFINE n == Len(marks)
<1>1. n \in Nat /\ DOMAIN marks = 1 .. n /\ \A i \in 1 .. n : marks[i] \in Mark
  BY DEF MarksInv
<1> HIDE DEF n
<1>2. \A i \in 1 .. n : n + 1 - i \in 1 .. n /\ n + 1 - (n + 1 - i) = i
  BY <1>1
<1>3. DOMAIN Registered = 1 .. n /\ \A i \in 1 .. n : Registered[i] = marks[n + 1 - i]
  BY <1>1 DEF Registered, n
<1>4. QED
  BY <1>1, <1>2, <1>3 DEF n

LEMMA Firsts ==
  ASSUME MarksInv
  PROVE  \A i : i \in FirstOfKey <=>
           /\ i \in 1 .. Len(marks)
           /\ \A j \in 1 .. i - 1 : Registered[j].key # Registered[i].key
BY Mirrored DEF FirstOfKey

\* Registering puts a marker in front; it is the last in order of registration.
LEMMA RegisterMarks ==
  ASSUME MarksInv, NEW k \in Keys, NEW code \in Codes, Register(k, code)
  PROVE  MarksInv'
<1> DEFINE n == Len(marks)
           new == [key |-> k, code |-> code]
<1>1. marks' = <<new>> \o marks /\ new \in Mark
  BY DEF Register, Mark
<1>2. /\ n \in Nat /\ DOMAIN marks = 1 .. n /\ DOMAIN Registered = 1 .. n
      /\ FirstOfKey \subseteq 1 .. n
      /\ \A i \in 1 .. n : n + 1 - i \in 1 .. n /\ Registered[i] = marks[n + 1 - i]
  BY Mirrored, Firsts
<1> HIDE DEF new
<1>3. /\ marks' \in Seq(Mark) /\ Len(marks') = n + 1 /\ DOMAIN marks' = 1 .. n + 1
      /\ marks'[1] = new /\ \A i \in 1 .. n : marks'[i + 1] = marks[i]
  BY <1>1 DEF MarksInv
<1> HIDE DEF n
<1>4. /\ Registered'[n + 1] = new
      /\ \A i \in 1 .. n : Registered'[i] = Registered[i]
  <2>1. \A i \in 1 .. n + 1 : Registered'[i] = marks'[n + 2 - i]
    BY <1>2, <1>3 DEF Registered
  <2>2. Registered'[n + 1] = marks'[1]
    <3>1. n + 1 \in 1 .. n + 1 /\ n + 2 - (n + 1) = 1
      BY <1>2
    <3>2. QED
      BY <2>1, <3>1
  <2>3. ASSUME NEW i \in 1 .. n PROVE Registered'[i] = Registered[i]
    <3>1. i \in 1 .. n + 1 /\ n + 1 - i \in 1 .. n /\ n + 2 - i = (n + 1 - i) + 1
      BY <1>2
    <3>2. Registered'[i] = marks[n + 1 - i]
      BY <1>3, <2>1, <3>1
    <3>3. QED
      BY <1>2, <3>2
  <2>4. QED
    BY <1>3, <2>2, <2>3
<1>5. \A i \in 1 .. n : i \in FirstOfKey' <=> i \in FirstOfKey
  <2>1. \A i \in 1 .. n : \A j \in 1 .. i - 1 : j \in 1 .. n
    BY <1>2
  <2>2. \A i \in 1 .. n : i \in FirstOfKey' <=>
          \A j \in 1 .. i - 1 : Registered'[j].key # Registered'[i].key
    BY <1>2, <1>3 DEF FirstOfKey
  <2>3. \A i \in 1 .. n : i \in FirstOfKey <=>
          \A j \in 1 .. i - 1 : Registered[j].key # Registered[i].key
    BY <1>2 DEF FirstOfKey
  <2>4. QED
    BY <1>4, <2>1, <2>2, <2>3
<1>6. n + 1 \in FirstOfKey' <=> \A j \in 1 .. n : Registered[j].key # k
  <2>1. n + 1 \in FirstOfKey' <=> \A j \in 1 .. n : Registered'[j].key # Registered'[n + 1].key
    <3>1. \A i : i \in FirstOfKey' <=>
            i \in 1 .. n + 1 /\ \A j \in 1 .. i - 1 : Registered'[j].key # Registered'[i].key
      BY <1>3 DEF FirstOfKey
    <3>2. n + 1 \in 1 .. n + 1 /\ (n + 1) - 1 = n
      BY <1>2
    <3>3. 1 .. (n + 1) - 1 = 1 .. n
      BY <3>2
    <3>4. n + 1 \in FirstOfKey' <=>
            \A j \in 1 .. (n + 1) - 1 : Registered'[j].key # Registered'[n + 1].key
      BY <3>1, <3>2
    <3>5. QED
      BY <3>3, <3>4
  <2>2. new.key = k
    BY DEF new
  <2>3. QED
    BY <1>4, <2>1, <2>2
<1>7. ASSUME NEW i \in 1 .. n + 1
      PROVE  \E f \in FirstOfKey' : Registered'[f].key = Registered'[i].key
  <2>1. ASSUME NEW x \in 1 .. n
        PROVE  \E f \in FirstOfKey' : Registered'[f].key = Registered'[x].key
    <3>1. PICK f \in FirstOfKey : Registered[f].key = Registered[x].key
      BY <1>2, <2>1 DEF MarksInv
    <3>2. f \in 1 .. n
      BY <1>2
    <3>3. QED
      BY <1>4, <1>5, <2>1, <3>1, <3>2
  <2>2. CASE i \in 1 .. n
    BY <2>1, <2>2
  <2>3. CASE i = n + 1 /\ \A j \in 1 .. n : Registered[j].key # k
    BY <1>6, <2>3
  <2>4. CASE i = n + 1 /\ \E j \in 1 .. n : Registered[j].key = k
    <3>1. PICK j \in 1 .. n : Registered[j].key = k
      BY <2>4
    <3>2. Registered'[j].key = Registered'[i].key
      BY <1>4, <2>4, <3>1 DEF new
    <3>3. QED
      BY <2>1, <3>2
  <2>5. i \in 1 .. n \/ i = n + 1
    BY <1>2
  <2>6. QED
    BY <2>2, <2>3, <2>4, <2>5
<1>8. QED
  BY <1>3, <1>7 DEF MarksInv

LEMMA MarksKept == ASSUME MarksInv, UNCHANGED marks PROVE MarksInv'
<1>1. Registered' = Registered
  BY DEF Registered
<1>2. FirstOfKey' = FirstOfKey
  BY <1>1 DEF FirstOfKey
<1>3. QED
  BY <1>1, <1>2 DEF MarksInv

LEMMA RegistrationsKept ==
  ASSUME UNCHANGED marks
  PROVE  Registrations' = Registrations /\ (Conflict' <=> Conflict)
<1>1. Registered' = Registered
  BY DEF Registered
<1>2. FirstOfKey' = FirstOfKey
  BY <1>1 DEF FirstOfKey
<1>3. QED
  BY <1>1, <1>2 DEF Registrations, Conflict

\* The registrations that are installed: each key once, where it was first.
LEMMA RegistrationsAre ==
  ASSUME MarksInv
  PROVE  /\ Registrations \in Seq(Mark)
         /\ DOMAIN Registrations = 1 .. Cardinality(FirstOfKey)
         /\ \A n \in 1 .. Cardinality(FirstOfKey) :
              /\ At(FirstOfKey, n) \in FirstOfKey
              /\ Registrations[n] = Registered[At(FirstOfKey, n)]
         /\ \A f \in FirstOfKey : \E n \in 1 .. Cardinality(FirstOfKey) :
              Registrations[n] = Registered[f]
         /\ \A m, n \in 1 .. Cardinality(FirstOfKey) : m < n =>
              At(FirstOfKey, m) < At(FirstOfKey, n)
<1> DEFINE count == Cardinality(FirstOfKey)
<1>1. /\ Len(marks) \in Nat /\ FirstOfKey \in SUBSET (1 .. Len(marks))
      /\ Ranked(FirstOfKey, Len(marks))
  <2>1. Len(marks) \in Nat /\ FirstOfKey \in SUBSET (1 .. Len(marks))
    BY Mirrored, Firsts DEF MarksInv
  <2>2. QED
    BY <2>1, AlwaysRanked
<1>2. count \in Nat
  BY <1>1, FinitePositions
<1>3. /\ \A n \in 1 .. count : At(FirstOfKey, n) \in FirstOfKey
      /\ \A i \in FirstOfKey : At(FirstOfKey, Rank(FirstOfKey, i)) = i
      /\ \A m, n \in 1 .. count : m < n => At(FirstOfKey, m) < At(FirstOfKey, n)
  BY <1>1, AtRank
<1>4. /\ DOMAIN Registrations = 1 .. count
      /\ Registrations = [n \in 1 .. count |-> Registered[At(FirstOfKey, n)]]
  BY DEF Registrations, Kept
<1>5. \A f \in FirstOfKey : Rank(FirstOfKey, f) \in 1 .. count
  BY <1>1, RankBounds
<1>6. \A f \in FirstOfKey : Registered[f] \in Mark
  BY <1>1, Mirrored
<1> HIDE DEF count
<1>7. Registrations \in Seq(Mark)
  BY <1>2, <1>3, <1>4, <1>6
<1>8. \A f \in FirstOfKey : \E n \in 1 .. count : Registrations[n] = Registered[f]
  BY <1>3, <1>4, <1>5
<1>9. QED
  BY <1>3, <1>4, <1>7, <1>8 DEF count

LEMMA EvaluateInstalled ==
  ASSUME MarksInv, InstalledInv, NEW m \in Modules, Evaluate(m)
  PROVE  InstalledInv'
<1>1. /\ pc = "running" /\ pc' = pc /\ marks' = marks /\ prelude' = prelude
      /\ installed' = installed \o Missing(m) /\ entered' # {}
  BY DEF Evaluate
<1>2. /\ ~ Conflict /\ prelude[m] = Registrations
      /\ installed = IF entered = {} THEN <<>> ELSE Registrations
  BY <1>1 DEF InstalledInv
<1> DEFINE missing == {i \in DOMAIN Registrations :
                         \A j \in DOMAIN installed : installed[j].key # Registrations[i].key}
<1>3. Missing(m) = Kept(Registrations, missing)
  BY <1>2 DEF Missing
<1>4. Registrations \in Seq(Mark)
  BY RegistrationsAre
<1>5. installed' = Registrations
  <2>1. CASE entered = {}
    <3>1. installed = <<>>
      BY <1>2, <2>1
    <3>2. missing = DOMAIN Registrations
      <4>1. DOMAIN installed = {}
        BY <3>1
      <4>2. QED
        BY <4>1
    <3>3. Missing(m) = Registrations
      BY <1>3, <1>4, <3>2, KeptAll
    <3>4. QED
      BY <1>1, <1>4, <3>1, <3>3
  <2>2. CASE entered # {}
    <3>1. installed = Registrations
      BY <1>2, <2>2
    <3>2. missing = {}
      BY <3>1
    <3>3. Missing(m) = <<>>
      BY <1>3, <3>2, KeptNone
    <3>4. QED
      BY <1>1, <1>4, <3>1, <3>3
  <2>3. QED
    BY <2>1, <2>2
<1>6. Registrations' = Registrations /\ (Conflict' <=> Conflict)
  BY <1>1, RegistrationsKept
<1> HIDE DEF missing
<1>7. QED
  BY <1>1, <1>2, <1>5, <1>6 DEF InstalledInv

LEMMA InstalledStep ==
  ASSUME MarksInv, InstalledInv, [Next]_vars
  PROVE  MarksInv' /\ InstalledInv'
<1>1. ASSUME UNCHANGED <<marks, bootVars>>, pc # "running", pc' # "running"
      PROVE  MarksInv' /\ InstalledInv'
  BY <1>1, MarksKept DEF InstalledInv, bootVars
<1>2. CASE Serve \/ \E e \in BOOLEAN, o, c \in Modules, n \in Names : Ask(e, o, n, c)
  BY <1>1, <1>2 DEF Serve, Ask, SameModule, Direct, StartSearch, Visit, NextPass, EndSearch,
     BindEdge, TakeRoute, NoRoute, Settle, NotUnique, Return
<1>3. CASE \E k \in Keys, code \in Codes : Register(k, code)
  <2>1. MarksInv'
    BY <1>3, RegisterMarks
  <2>2. InstalledInv'
    BY <1>3 DEF Register, InstalledInv, bootVars
  <2>3. QED
    BY <2>1, <2>2
<1>4. CASE Finalize
  <2>1. /\ pc = "patching" /\ marks' = marks /\ installed' = installed /\ entered' = entered
        /\ \/ pc' = "refused"
           \/ ~ Conflict /\ pc' = "running" /\ prelude' = [m \in Modules |-> Registrations]
    BY <1>4 DEF Finalize
  <2>2. Registrations' = Registrations /\ (Conflict' <=> Conflict)
    BY <2>1, RegistrationsKept
  <2>3. QED
    BY <2>1, <2>2, MarksKept DEF InstalledInv
<1>5. CASE \E m \in Modules : Evaluate(m)
  BY <1>5, EvaluateInstalled, MarksKept DEF Evaluate
<1>6. CASE UNCHANGED vars
  <2>1. UNCHANGED <<pc, marks, prelude, installed, entered>>
    BY <1>6 DEF vars, bootVars
  <2>2. Registrations' = Registrations /\ (Conflict' <=> Conflict)
    BY <2>1, RegistrationsKept
  <2>3. QED
    BY <2>1, <2>2, MarksKept DEF InstalledInv
<1>7. QED
  BY <1>2, <1>3, <1>4, <1>5, <1>6 DEF Next, Serve

LEMMA InitInstalled == Init => MarksInv /\ InstalledInv
<1> SUFFICES ASSUME Init PROVE MarksInv /\ InstalledInv
  OBVIOUS
<1>1. marks = <<>> /\ pc = "patching" /\ entered = {} /\ installed = <<>>
  BY DEF Init
<1>2. FirstOfKey = {} /\ DOMAIN marks = {} /\ marks \in Seq(Mark) /\ Len(marks) = 0
  BY <1>1 DEF FirstOfKey
<1>3. QED
  BY <1>1, <1>2 DEF MarksInv, InstalledInv

\* The first registration of a key is the marker furthest behind.
LEMMA EarliestIs ==
  ASSUME MarksInv, NEW f \in FirstOfKey
  PROVE  Earliest(Registered[f].key) = Len(marks) + 1 - f
<1> DEFINE n == Len(marks)
           key == Registered[f].key
<1>1. /\ n \in Nat /\ DOMAIN marks = 1 .. n
      /\ \A i \in 1 .. n : n + 1 - i \in 1 .. n /\ marks[i] = Registered[n + 1 - i]
                           /\ Registered[i] = marks[n + 1 - i]
  BY Mirrored
<1>2. f \in 1 .. n /\ \A j \in 1 .. f - 1 : Registered[j].key # key
  BY Firsts
<1> HIDE DEF n, key
<1>3. n + 1 - f \in 1 .. n /\ marks[n + 1 - f].key = key
  BY <1>1, <1>2 DEF key
<1>4. ASSUME NEW j \in 1 .. n, marks[j].key = key PROVE j <= n + 1 - f
  <2>1. n + 1 - j \in 1 .. n /\ Registered[n + 1 - j].key = key
    BY <1>1, <1>4
  <2>2. n + 1 - j \notin 1 .. f - 1
    BY <1>2, <2>1
  <2>3. QED
    BY <1>1, <1>2, <2>1, <2>2
<1> DEFINE P(i) == marks[i].key = key /\ \A j \in 1 .. n : marks[j].key = key => j <= i
<1>5. P(n + 1 - f) /\ n + 1 - f \in 1 .. n
  BY <1>3, <1>4
<1>6. \A i \in 1 .. n : P(i) => i = n + 1 - f
  BY <1>1, <1>3, <1>5
<1>7. Earliest(key) = CHOOSE i \in 1 .. n : P(i)
  BY <1>1 DEF Earliest
<1> HIDE DEF P
<1>8. Earliest(key) = n + 1 - f
  BY <1>5, <1>6, <1>7
<1>9. QED
  BY <1>8 DEF n, key

LEMMA AllInstalled ==
  ASSUME MarksInv, InstalledInv
  PROVE  BootstrapFirst
<1> SUFFICES ASSUME entered # {}
             PROVE  /\ \A i \in DOMAIN marks : \E j \in DOMAIN installed : installed[j] = marks[i]
                    /\ \A i, j \in DOMAIN installed : i < j =>
                         Earliest(installed[i].key) > Earliest(installed[j].key)
  BY DEF BootstrapFirst
<1> DEFINE n == Len(marks)
           count == Cardinality(FirstOfKey)
<1>1. installed = Registrations /\ ~ Conflict
  BY DEF InstalledInv
<1>2. /\ n \in Nat /\ DOMAIN marks = 1 .. n /\ FirstOfKey \subseteq 1 .. n
      /\ \A i \in 1 .. n : /\ n + 1 - i \in 1 .. n /\ marks[i] = Registered[n + 1 - i]
                           /\ Registered[i] = marks[n + 1 - i] /\ Registered[i] \in Mark
  BY Mirrored, Firsts
<1>3. /\ DOMAIN Registrations = 1 .. count
      /\ \A k \in 1 .. count : /\ At(FirstOfKey, k) \in FirstOfKey
                               /\ Registrations[k] = Registered[At(FirstOfKey, k)]
      /\ \A f \in FirstOfKey : \E k \in 1 .. count : Registrations[k] = Registered[f]
      /\ \A i, k \in 1 .. count : i < k => At(FirstOfKey, i) < At(FirstOfKey, k)
  BY RegistrationsAre
<1> HIDE DEF n, count
<1>4. ASSUME NEW i \in DOMAIN marks PROVE \E j \in DOMAIN installed : installed[j] = marks[i]
  <2>1. PICK f \in FirstOfKey : Registered[f].key = Registered[n + 1 - i].key
    BY <1>2, <1>4 DEF MarksInv
  <2>2. f \in 1 .. n /\ n + 1 - f \in 1 .. n /\ Registered[f] = marks[n + 1 - f]
    BY <1>2
  <2>3. marks[n + 1 - f].key = marks[i].key
    BY <1>2, <1>4, <2>1, <2>2
  <2>4. marks[n + 1 - f].code = marks[i].code
    BY <1>1, <1>2, <1>4, <2>2, <2>3 DEF Conflict
  <2>5. marks[n + 1 - f] \in Mark /\ marks[i] \in Mark
    BY <1>2, <1>4, <2>2
  <2>6. marks[n + 1 - f] = marks[i]
    BY <2>3, <2>4, <2>5 DEF Mark
  <2>7. PICK k \in 1 .. count : Registrations[k] = Registered[f]
    BY <1>3
  <2>8. QED
    BY <1>1, <1>3, <2>2, <2>6, <2>7
<1>5. ASSUME NEW i \in DOMAIN installed, NEW j \in DOMAIN installed, i < j
      PROVE  Earliest(installed[i].key) > Earliest(installed[j].key)
  <2> DEFINE f == At(FirstOfKey, i)
             g == At(FirstOfKey, j)
  <2>1. i \in 1 .. count /\ j \in 1 .. count
    BY <1>1, <1>3, <1>5
  <2>2. /\ f \in FirstOfKey /\ g \in FirstOfKey /\ f < g
        /\ installed[i] = Registered[f] /\ installed[j] = Registered[g]
    BY <1>1, <1>3, <1>5, <2>1
  <2> HIDE DEF f, g
  <2>3. Earliest(installed[i].key) = n + 1 - f /\ Earliest(installed[j].key) = n + 1 - g
    BY <2>2, EarliestIs DEF n
  <2>4. f \in Int /\ g \in Int /\ n \in Int
    <3>1. f \in 1 .. n /\ g \in 1 .. n /\ n \in Nat
      BY <1>2, <2>2
    <3>2. QED
      BY <3>1
  <2>5. n + 1 - f > n + 1 - g
    BY <2>2, <2>4
  <2>6. QED
    BY <2>3, <2>5
<1>6. QED
  BY <1>4, <1>5

\* Every registered component is installed before any module's own statements run,
\* once, and in the order of registration, for any number of registrations and any
\* order of evaluation (finalize_module_runtime).
THEOREM BootstrapFirstHolds == Spec => []BootstrapFirst
<1>1. MarksInv /\ InstalledInv => BootstrapFirst
  BY AllInstalled
<1>2. MarksInv /\ InstalledInv /\ [Next]_vars => MarksInv' /\ InstalledInv'
  BY InstalledStep
<1>3. QED
  BY <1>1, <1>2, InitInstalled, PTL DEF Spec

-----------------------------------------------------------------------------
(* The retraction archive. *)

OwnRow == {Message(u) : u \in Messages} \cup {Archive(u) : u \in Messages}
AnyRow == OwnRow \cup {Row("meta", m) : m \in Metas}
AnyOp ==
  {Op("append", row) : row \in OwnRow} \cup {Op("remove", Message(u)) : u \in Messages}

\* The rows that wait in a queue, and all there are.
Queued(q) == {q[k].row : k \in {i \in DOMAIN q : q[i].op = "append"}}
Held == Rows(transcript) \cup Rows(pendingEntries) \cup Queued(queue)

\* A message whose appendEntry has not passed its last guard.
Before == {"new", "rows", "session"}

ArchiveTypes ==
  /\ transcript \in Seq(AnyRow) /\ pendingEntries \in Seq(OwnRow) /\ queue \in Seq(AnyOp)
  /\ appending \in [Messages -> Before \cup {"over", "lost"}]
  /\ entries \subseteq Messages /\ removed \subseteq Messages

PhaseInv ==
  /\ sessionFile => pendingEntries = <<>>
  /\ ~ sessionFile => /\ transcript = <<>> /\ queue = <<>>
                      /\ \A u \in Messages : appending[u] \notin {"rows", "session"}
  /\ place # "idle" => Removing

OneRow(s) == \A j, k \in DOMAIN s : s[j].id = s[k].id => j = k

\* A row waits once.  None waits behind the removal of a message that the archive
\* has, and a removal waits for a message it has or cannot capture.
Waits(q, captured) ==
  /\ \A j, k \in DOMAIN q :
       q[j].op = "append" /\ q[k].op = "append" /\ q[j].row.id = q[k].row.id => j = k
  /\ \A j, k \in DOMAIN q :
       j < k /\ q[j].op = "remove" /\ q[k].op = "append" /\ q[j].row.id = q[k].row.id =>
         q[k].row.id \notin captured
  /\ \A k \in DOMAIN q : q[k].op = "remove" => q[k].row.id \in captured \cup unfit

OneInv ==
  /\ OneRow(transcript) /\ OneRow(pendingEntries) /\ Waits(queue, entries)
  /\ \A a \in Queued(queue), b \in Rows(transcript) : a.id # b.id

BeforeInv ==
  \A u \in Messages : appending[u] \in Before =>
    /\ Message(u) \notin Held
    /\ Archive(u) \in Held => u \in entries

RemovedInv ==
  \A u \in removed :
    /\ Message(u) \notin Held
    /\ appending[u] \in Before => u \in entries

\* What is about to replace the transcript, as long as nothing was written to it.
InPlace(u) ==
  [k \in DOMAIN transcript |-> IF transcript[k] = Message(u) THEN Archive(u) ELSE transcript[k]]
DraftInv ==
  place = "swap" /\ ~ changed =>
    /\ Target \in entries
    /\ \/ Message(Target) \in Rows(transcript) /\ draft = InPlace(Target)
       \/ /\ {Message(Target), Archive(Target)} \cap Rows(transcript) = {}
          /\ draft = Append(transcript, Archive(Target))

ArchiveInv ==
  ArchiveTypes /\ PhaseInv /\ OneInv /\ BeforeInv /\ RemovedInv /\ DraftInv

-----------------------------------------------------------------------------
(* Rows and operations. *)

LEMMA RowFields ==
  ASSUME NEW kind, NEW id
  PROVE  Row(kind, id).kind = kind /\ Row(kind, id).id = id
BY DEF Row

LEMMA OpFields ==
  ASSUME NEW op, NEW row
  PROVE  Op(op, row).op = op /\ Op(op, row).row = row
BY DEF Op

LEMMA RowsApart ==
  ASSUME NEW u, NEW w
  PROVE  /\ Message(u).id = u /\ Archive(u).id = u /\ Row("meta", u).id = u
         /\ Message(u) # Archive(w) /\ Message(u) # Row("meta", w) /\ Archive(u) # Row("meta", w)
<1>1. /\ Message(u).kind = "message" /\ Message(u).id = u
      /\ Archive(u).kind = "archive" /\ Archive(u).id = u
      /\ Archive(w).kind = "archive" /\ Row("meta", w).kind = "meta" /\ Row("meta", u).id = u
  BY RowFields DEF Message, Archive
<1>2. QED
  BY <1>1

LEMMA RowIs ==
  ASSUME NEW row \in AnyRow
  PROVE  \/ row.id \in Messages /\ row \in {Message(row.id), Archive(row.id)}
         \/ row.id \in Metas /\ row.id \notin Messages /\ row = Row("meta", row.id)
<1>1. CASE \E u \in Messages : row = Message(u)
  BY <1>1, RowsApart
<1>2. CASE \E u \in Messages : row = Archive(u)
  BY <1>2, RowsApart
<1>3. CASE \E m \in Metas : row = Row("meta", m)
  BY <1>3, RowsApart, MetasAssumption
<1>4. QED
  BY <1>1, <1>2, <1>3 DEF AnyRow, OwnRow

LEMMA OpIs ==
  ASSUME NEW op \in AnyOp
  PROVE  \/ op.op = "append" /\ op.row \in OwnRow /\ op.row.id \in Messages
         \/ op.op = "remove" /\ op.row.id \in Messages /\ op.row = Message(op.row.id)
<1>1. CASE \E row \in OwnRow : op = Op("append", row)
  BY <1>1, OpFields, RowsApart DEF OwnRow
<1>2. CASE \E u \in Messages : op = Op("remove", Message(u))
  BY <1>2, OpFields, RowsApart
<1>3. QED
  BY <1>1, <1>2 DEF AnyOp

LEMMA AreRows ==
  ASSUME NEW u \in Messages
  PROVE  /\ Message(u) \in OwnRow /\ Archive(u) \in OwnRow /\ OwnRow \subseteq AnyRow
         /\ Op("append", Message(u)) \in AnyOp /\ Op("append", Archive(u)) \in AnyOp
         /\ Op("remove", Message(u)) \in AnyOp
BY DEF OwnRow, AnyRow, AnyOp

\* What stands at the head of the queue while a removal is under way.
LEMMA TargetIs ==
  ASSUME ArchiveTypes, Removing
  PROVE  /\ Target \in Messages /\ Head(queue) = queue[1] /\ 1 \in DOMAIN queue
         /\ queue[1].op = "remove" /\ queue[1].row.id = Target
<1>1. queue \in Seq(AnyOp) /\ queue # <<>>
  BY DEF ArchiveTypes, Removing
<1>2. Head(queue) = queue[1] /\ 1 \in DOMAIN queue /\ queue[1] \in AnyOp
  BY <1>1
<1>3. QED
  BY <1>2, OpIs DEF Removing, Target

-----------------------------------------------------------------------------
(* The rows of sequences. *)

LEMMA RowsAppend ==
  ASSUME NEW S, NEW s \in Seq(S), NEW x \in S
  PROVE  /\ Append(s, x) \in Seq(S) /\ Rows(Append(s, x)) = Rows(s) \cup {x}
         /\ DOMAIN Append(s, x) = DOMAIN s \cup {Len(s) + 1}
         /\ Append(s, x)[Len(s) + 1] = x
         /\ \A k \in DOMAIN s : Append(s, x)[k] = s[k] /\ k < Len(s) + 1
<1>1. /\ Append(s, x) \in Seq(S) /\ DOMAIN s = 1 .. Len(s) /\ Len(s) \in Nat
      /\ DOMAIN Append(s, x) = 1 .. Len(s) + 1
      /\ Append(s, x)[Len(s) + 1] = x
      /\ \A k \in 1 .. Len(s) : Append(s, x)[k] = s[k]
  OBVIOUS
<1>2. DOMAIN Append(s, x) = DOMAIN s \cup {Len(s) + 1} /\ \A k \in DOMAIN s : k < Len(s) + 1
  BY <1>1
<1>3. QED
  BY <1>1, <1>2 DEF Rows

LEMMA RowsTail ==
  ASSUME NEW S, NEW s \in Seq(S), s # <<>>
  PROVE  /\ Tail(s) \in Seq(S) /\ Rows(s) = {s[1]} \cup Rows(Tail(s)) /\ Head(s) = s[1]
         /\ 1 \in DOMAIN s
         /\ \A k \in DOMAIN Tail(s) :
              Tail(s)[k] = s[k + 1] /\ k + 1 \in DOMAIN s /\ 1 < k + 1
         /\ \A j, k \in DOMAIN Tail(s) : j + 1 = k + 1 => j = k
         /\ \A j, k \in DOMAIN Tail(s) : j < k => j + 1 < k + 1
<1> DEFINE t == Tail(s)
           n == Len(s)
<1>1. /\ t \in Seq(S) /\ n \in Nat /\ n >= 1 /\ DOMAIN s = 1 .. n /\ DOMAIN t = 1 .. n - 1
      /\ Head(s) = s[1] /\ \A k \in 1 .. n - 1 : t[k] = s[k + 1]
  OBVIOUS
<1> HIDE DEF t, n
<1>2. \A i \in DOMAIN s : i = 1 \/ (i - 1 \in DOMAIN t /\ t[i - 1] = s[i])
  <2> SUFFICES ASSUME NEW i \in 1 .. n, i # 1 PROVE i - 1 \in 1 .. n - 1 /\ t[i - 1] = s[i]
    BY <1>1
  <2>1. i - 1 \in 1 .. n - 1 /\ (i - 1) + 1 = i
    BY <1>1
  <2>2. QED
    BY <1>1, <2>1
<1>3. \A k \in DOMAIN t : t[k] = s[k + 1] /\ k + 1 \in DOMAIN s /\ 1 < k + 1
  BY <1>1
<1>4. Rows(s) = {s[1]} \cup Rows(t)
  <2>1. Rows(s) \subseteq {s[1]} \cup Rows(t)
    BY <1>2 DEF Rows
  <2>2. 1 \in DOMAIN s
    BY <1>1
  <2>3. {s[1]} \cup Rows(t) \subseteq Rows(s)
    BY <1>3, <2>2 DEF Rows
  <2>4. QED
    BY <2>1, <2>3
<1>5. \A j, k \in DOMAIN t : (j + 1 = k + 1 => j = k) /\ (j < k => j + 1 < k + 1)
  BY <1>1
<1>6. QED
  BY <1>1, <1>3, <1>4, <1>5 DEF t

\* What is left of a sequence of rows.
LEMMA WithoutRows ==
  ASSUME NEW S, NEW s \in Seq(S), NEW rows
  PROVE  /\ Without(s, rows) \in Seq(S) /\ Rows(Without(s, rows)) = Rows(s) \ rows
         /\ OneRow(s) => OneRow(Without(s, rows))
<1> DEFINE positions == {k \in DOMAIN s : s[k] \notin rows}
           size == Cardinality(positions)
           kept == Kept(s, positions)
<1>1. positions \in SUBSET DOMAIN s
  OBVIOUS
<1>2. /\ kept \in Seq(S) /\ Len(kept) = size /\ size \in Nat
      /\ \A n \in 1 .. size : At(positions, n) \in positions /\ kept[n] = s[At(positions, n)]
      /\ \A i \in positions : \E n \in 1 .. size : At(positions, n) = i
      /\ \A m, n \in 1 .. size : At(positions, m) = At(positions, n) => m = n
  <2> HIDE DEF positions
  <2>1. kept \in Seq(S) /\ Len(kept) = size /\ size \in Nat
    BY <1>1, KeptEntries
  <2>2. /\ \A n \in 1 .. size : At(positions, n) \in positions /\ kept[n] = s[At(positions, n)]
        /\ \A i \in positions : \E n \in 1 .. size : At(positions, n) = i
    BY <1>1, KeptEntries
  <2>3. \A m, n \in 1 .. size : At(positions, m) = At(positions, n) => m = n
    BY <1>1, KeptEntries
  <2>4. QED
    BY <2>1, <2>2, <2>3
<1>3. Without(s, rows) = kept
  BY DEF Without
<1> HIDE DEF size, kept
<1>4. DOMAIN kept = 1 .. size
  BY <1>2
<1>5. Rows(kept) = Rows(s) \ rows
  <2>1. \A n \in DOMAIN kept : kept[n] \in Rows(s) \ rows
    <3>1. \A i \in positions : s[i] \in Rows(s) \ rows
      BY DEF Rows
    <3> HIDE DEF positions
    <3>2. QED
      BY <1>2, <1>4, <3>1
  <2>2. ASSUME NEW i \in positions PROVE \E n \in DOMAIN kept : kept[n] = s[i]
    <3> HIDE DEF positions
    <3>1. PICK n \in 1 .. size : At(positions, n) = i
      BY <1>2
    <3>2. kept[n] = s[i] /\ n \in DOMAIN kept
      BY <1>2, <1>4, <3>1
    <3>3. QED
      BY <3>2
  <2>3. Rows(s) \ rows \subseteq Rows(kept)
    BY <2>2 DEF Rows
  <2>4. Rows(kept) \subseteq Rows(s) \ rows
    BY <2>1 DEF Rows
  <2>5. QED
    BY <2>3, <2>4
<1>6. ASSUME OneRow(s) PROVE OneRow(kept)
  <2>1. \A i, j \in positions : s[i].id = s[j].id => i = j
    BY <1>6 DEF OneRow
  <2> HIDE DEF positions
  <2>2. ASSUME NEW m \in 1 .. size, NEW n \in 1 .. size, kept[m].id = kept[n].id PROVE m = n
    <3>1. At(positions, m) = At(positions, n)
      BY <1>2, <2>1, <2>2
    <3>2. QED
      BY <1>2, <3>1
  <2>3. QED
    BY <1>4, <2>2 DEF OneRow
<1>7. QED
  BY <1>2, <1>3, <1>5, <1>6

\* Sequences that agree on what is left.
LEMMA WithoutSame ==
  ASSUME NEW S, NEW s \in Seq(S), NEW t, NEW rows,
         {k \in DOMAIN s : s[k] \notin rows} = {k \in DOMAIN t : t[k] \notin rows},
         \A k \in DOMAIN s : s[k] \notin rows => s[k] = t[k]
  PROVE  Without(s, rows) = Without(t, rows)
<1> DEFINE positions == {k \in DOMAIN s : s[k] \notin rows}
           size == Cardinality(positions)
<1>1. positions \in SUBSET DOMAIN s
  OBVIOUS
<1>2. \A n \in 1 .. size : At(positions, n) \in positions
  <2> HIDE DEF positions
  <2>1. QED
    BY <1>1, KeptEntries
<1>3. Without(s, rows) = Kept(s, positions) /\ Without(t, rows) = Kept(t, positions)
  BY DEF Without
<1>4. \A i \in positions : s[i] = t[i]
  OBVIOUS
<1> HIDE DEF positions
<1>5. \A n \in 1 .. size : s[At(positions, n)] = t[At(positions, n)]
  BY <1>2, <1>4
<1> HIDE DEF size
<1>6. Kept(s, positions) = [n \in 1 .. size |-> s[At(positions, n)]]
  BY DEF Kept, size
<1>7. Kept(t, positions) = [n \in 1 .. size |-> t[At(positions, n)]]
  BY DEF Kept, size
<1>8. QED
  BY <1>3, <1>5, <1>6, <1>7

LEMMA WithoutTwice ==
  ASSUME NEW S, NEW s \in Seq(S), NEW rows, NEW more, rows \subseteq more
  PROVE  Without(Without(s, rows), more) = Without(s, more)
<1> DEFINE positions == {k \in DOMAIN s : s[k] \notin rows}
           size == Cardinality(positions)
           kept == Kept(s, positions)
           ranks == {n \in DOMAIN kept : kept[n] \notin more}
           left == {k \in DOMAIN s : s[k] \notin more}
<1>1. positions \in SUBSET DOMAIN s
  OBVIOUS
<1>2. /\ kept \in Seq(S) /\ Len(kept) = size /\ size \in Nat
      /\ \A n \in 1 .. size : At(positions, n) \in positions /\ kept[n] = s[At(positions, n)]
      /\ \A i \in positions : \E n \in 1 .. size : At(positions, n) = i
  <2> HIDE DEF positions
  <2>1. QED
    BY <1>1, KeptEntries
<1>3. ranks \in SUBSET DOMAIN kept
  OBVIOUS
<1>4. Kept(kept, ranks) = Kept(s, {At(positions, n) : n \in ranks})
  <2> HIDE DEF positions, ranks
  <2>1. QED
    BY <1>1, <1>3, KeptKept
<1>5. Without(Without(s, rows), more) = Kept(kept, ranks) /\ Without(s, more) = Kept(s, left)
  BY DEF Without
<1> HIDE DEF kept, size
<1>6. DOMAIN kept = 1 .. size
  BY <1>2
<1>7. \A n \in ranks : At(positions, n) \in left
  BY <1>2, <1>6
<1>8. \A i \in left : \E n \in ranks : At(positions, n) = i
  <2> SUFFICES ASSUME NEW i \in left PROVE \E n \in ranks : At(positions, n) = i
    OBVIOUS
  <2>1. i \in positions /\ s[i] \notin more
    OBVIOUS
  <2>2. PICK n \in 1 .. size : At(positions, n) = i
    BY <1>2, <2>1
  <2>3. n \in DOMAIN kept /\ kept[n] = s[i]
    BY <1>2, <1>6, <2>2
  <2>4. QED
    BY <2>1, <2>2, <2>3
<1> HIDE DEF ranks, left
<1>9. {At(positions, n) : n \in ranks} = left
  BY <1>7, <1>8
<1>10. QED
  BY <1>4, <1>5, <1>9

-----------------------------------------------------------------------------
(* The queue. *)

LEMMA QueuedRows ==
  ASSUME NEW q \in Seq(AnyOp)
  PROVE  /\ Queued(q) \subseteq OwnRow
         /\ \A row \in Queued(q) : row.id \in Messages
         /\ \A k \in DOMAIN q : q[k].op = "append" => q[k].row \in Queued(q)
         /\ \A row \in Queued(q) : \E k \in DOMAIN q : q[k].op = "append" /\ q[k].row = row
<1>1. \A k \in DOMAIN q : q[k] \in AnyOp
  OBVIOUS
<1>2. QED
  BY <1>1, OpIs DEF Queued

LEMMA QueuedTail ==
  ASSUME NEW q \in Seq(AnyOp), q # <<>>, NEW captured, Waits(q, captured)
  PROVE  /\ Tail(q) \in Seq(AnyOp) /\ Waits(Tail(q), captured)
         /\ q[1].op = "append" => /\ Queued(q) = {q[1].row} \cup Queued(Tail(q))
                                  /\ \A row \in Queued(Tail(q)) : row.id # q[1].row.id
         /\ q[1].op = "remove" => /\ Queued(q) = Queued(Tail(q))
                                  /\ q[1].row.id \in captured \cup unfit
                                  /\ \A row \in Queued(Tail(q)) :
                                       row.id = q[1].row.id => row.id \notin captured
<1> DEFINE t == Tail(q)
<1>1. /\ t \in Seq(AnyOp) /\ 1 \in DOMAIN q /\ Rows(q) = {q[1]} \cup Rows(t)
      /\ \A k \in DOMAIN t : t[k] = q[k + 1] /\ k + 1 \in DOMAIN q /\ 1 < k + 1
      /\ \A j, k \in DOMAIN t : j + 1 = k + 1 => j = k
      /\ \A j, k \in DOMAIN t : j < k => j + 1 < k + 1
  BY RowsTail
<1> HIDE DEF t
<1>2. Waits(t, captured)
  BY <1>1 DEF Waits
<1>3. \A s : Queued(s) = {op.row : op \in {x \in Rows(s) : x.op = "append"}}
  BY DEF Queued, Rows
<1>4. q[1].op = "append" => Queued(q) = {q[1].row} \cup Queued(t)
  BY <1>1, <1>3
<1>5. q[1].op = "remove" => Queued(q) = Queued(t)
  BY <1>1, <1>3
<1>6. \A row \in Queued(t) : \E k \in DOMAIN q : 1 < k /\ q[k].op = "append" /\ q[k].row = row
  <2>1. \A row \in Queued(t) : \E k \in DOMAIN t : t[k].op = "append" /\ t[k].row = row
    BY <1>1, QueuedRows
  <2>2. QED
    BY <1>1, <2>1
<1>7. ASSUME NEW row \in Queued(t), q[1].op = "append" PROVE row.id # q[1].row.id
  <2>1. PICK k \in DOMAIN q : 1 < k /\ q[k].op = "append" /\ q[k].row = row
    BY <1>6
  <2>2. 1 # k
    BY <2>1
  <2>3. QED
    BY <1>1, <1>7, <2>1, <2>2 DEF Waits
<1>8. ASSUME NEW row \in Queued(t), q[1].op = "remove", row.id = q[1].row.id
      PROVE  row.id \notin captured
  <2>1. PICK k \in DOMAIN q : 1 < k /\ q[k].op = "append" /\ q[k].row = row
    BY <1>6
  <2>2. QED
    BY <1>1, <1>8, <2>1 DEF Waits
<1>9. q[1].op = "remove" => q[1].row.id \in captured \cup unfit
  BY <1>1 DEF Waits
<1>10. QED
  BY <1>1, <1>2, <1>4, <1>5, <1>7, <1>8, <1>9 DEF t

\* One more write.
LEMMA QueuedAppend ==
  ASSUME NEW q \in Seq(AnyOp), NEW captured, Waits(q, captured), NEW row \in OwnRow,
         row.id \notin captured, \A a \in Queued(q) : a.id # row.id
  PROVE  /\ Append(q, Op("append", row)) \in Seq(AnyOp)
         /\ Waits(Append(q, Op("append", row)), captured)
         /\ Queued(Append(q, Op("append", row))) = Queued(q) \cup {row}
<1> DEFINE last == Len(q) + 1
           op == Op("append", row)
           more == Append(q, op)
<1>1. op \in AnyOp /\ op.op = "append" /\ op.row = row
  BY OpFields DEF AnyOp
<1> HIDE DEF op
<1>2. /\ more \in Seq(AnyOp) /\ Rows(more) = Rows(q) \cup {op} /\ DOMAIN more = DOMAIN q \cup {last}
      /\ more[last] = op /\ \A k \in DOMAIN q : more[k] = q[k] /\ k < last
  BY <1>1, RowsAppend
<1>3. \A k \in DOMAIN q : k \in Int /\ last \in Int
  OBVIOUS
<1> HIDE DEF more, last
<1>4. \A k \in DOMAIN q : q[k].op = "append" => q[k].row.id # row.id
  BY QueuedRows
<1>5. \A k \in DOMAIN q : ~ (last < k)
  BY <1>2, <1>3
<1>6. ~ (last < last) \/ DOMAIN q = {}
  BY <1>3
<1>7. \A k \in DOMAIN more : more[k].op = "append" => k = last \/ (k \in DOMAIN q /\ more[k].row.id # row.id)
  BY <1>2, <1>4
<1>8. Waits(more, captured)
  <2>1. ASSUME NEW j \in DOMAIN more, NEW k \in DOMAIN more,
               more[j].op = "append", more[k].op = "append", more[j].row.id = more[k].row.id
        PROVE  j = k
    <3>1. CASE j \in DOMAIN q /\ k \in DOMAIN q
      BY <1>2, <2>1, <3>1 DEF Waits
    <3>2. CASE j = last \/ k = last
      BY <1>1, <1>2, <1>7, <2>1, <3>2
    <3>3. QED
      BY <1>2, <3>1, <3>2
  <2>2. ASSUME NEW j \in DOMAIN more, NEW k \in DOMAIN more, j < k,
               more[j].op = "remove", more[k].op = "append", more[j].row.id = more[k].row.id
        PROVE  more[k].row.id \notin captured
    <3>1. CASE k = last
      BY <1>1, <1>2, <3>1
    <3>2. CASE j = last
      BY <1>1, <1>2, <2>2, <3>2
    <3>3. CASE j \in DOMAIN q /\ k \in DOMAIN q
      BY <1>2, <2>2, <3>3 DEF Waits
    <3>4. QED
      BY <1>2, <3>1, <3>2, <3>3
  <2>3. ASSUME NEW k \in DOMAIN more, more[k].op = "remove"
        PROVE  more[k].row.id \in captured \cup unfit
    <3>1. k \in DOMAIN q
      BY <1>1, <1>2, <2>3
    <3>2. QED
      BY <1>2, <2>3, <3>1 DEF Waits
  <2>4. QED
    BY <2>1, <2>2, <2>3 DEF Waits
<1>9. Queued(more) = Queued(q) \cup {row}
  <2>1. \A s : Queued(s) = {x.row : x \in {y \in Rows(s) : y.op = "append"}}
    BY DEF Queued, Rows
  <2>2. QED
    BY <1>1, <1>2, <2>1
<1>10. QED
  BY <1>2, <1>8, <1>9 DEF more, op

\* One more removal: of a message the archive has from now on, or cannot capture.
LEMMA QueuedRemoval ==
  ASSUME NEW q \in Seq(AnyOp), NEW captured, Waits(q, captured), NEW u \in Messages
  PROVE  /\ Append(q, Op("remove", Message(u))) \in Seq(AnyOp)
         /\ Waits(Append(q, Op("remove", Message(u))), captured \cup ({u} \ unfit))
         /\ Queued(Append(q, Op("remove", Message(u)))) = Queued(q)
<1> DEFINE last == Len(q) + 1
           op == Op("remove", Message(u))
           more == Append(q, op)
           grown == captured \cup ({u} \ unfit)
<1>1. op \in AnyOp /\ op.op = "remove" /\ op.row.id = u
  BY AreRows, OpFields, RowsApart
<1> HIDE DEF op
<1>2. /\ more \in Seq(AnyOp) /\ Rows(more) = Rows(q) \cup {op} /\ DOMAIN more = DOMAIN q \cup {last}
      /\ more[last] = op /\ \A k \in DOMAIN q : more[k] = q[k] /\ k < last
  BY <1>1, RowsAppend
<1> HIDE DEF more, last
<1>3. \A k \in DOMAIN more : more[k].op = "append" => k \in DOMAIN q /\ more[k] = q[k]
  BY <1>1, <1>2
<1>4. ASSUME NEW j \in DOMAIN q, NEW k \in DOMAIN q, j < k,
             q[j].op = "remove", q[k].op = "append", q[j].row.id = q[k].row.id
      PROVE  q[k].row.id \notin grown
  BY <1>4 DEF Waits
<1>5. ASSUME NEW j \in DOMAIN more, NEW k \in DOMAIN q, j < k, more[j].op = "remove"
      PROVE  j \in DOMAIN q /\ q[j] = more[j]
  <2>1. j # last
    <3>1. k < last /\ k \in Int /\ last \in Int
      BY <1>2 DEF last
    <3>2. QED
      BY <1>5, <3>1
  <2>2. QED
    BY <1>2, <2>1
<1>6. Waits(more, grown)
  <2>1. ASSUME NEW j \in DOMAIN more, NEW k \in DOMAIN more,
               more[j].op = "append", more[k].op = "append", more[j].row.id = more[k].row.id
        PROVE  j = k
    BY <1>3, <2>1 DEF Waits
  <2>2. ASSUME NEW j \in DOMAIN more, NEW k \in DOMAIN more, j < k,
               more[j].op = "remove", more[k].op = "append", more[j].row.id = more[k].row.id
        PROVE  more[k].row.id \notin grown
    BY <1>3, <1>4, <1>5, <2>2
  <2>3. ASSUME NEW k \in DOMAIN more, more[k].op = "remove"
        PROVE  more[k].row.id \in grown \cup unfit
    <3>1. CASE k = last
      BY <1>1, <1>2, <3>1
    <3>2. CASE k \in DOMAIN q
      BY <1>2, <2>3, <3>2 DEF Waits
    <3>3. QED
      BY <1>2, <3>1, <3>2
  <2>4. QED
    BY <2>1, <2>2, <2>3 DEF Waits
<1>7. Queued(more) = Queued(q)
  <2>1. \A s : Queued(s) = {x.row : x \in {y \in Rows(s) : y.op = "append"}}
    BY DEF Queued, Rows
  <2>2. QED
    BY <1>1, <1>2, <2>1
<1>8. QED
  BY <1>2, <1>6, <1>7 DEF more, op

\* A message that has no row in the queue is captured.
LEMMA QueuedRestore ==
  ASSUME NEW q \in Seq(AnyOp), NEW captured, Waits(q, captured), NEW u,
         \A a \in Queued(q) : a.id # u
  PROVE  Waits(q, captured \cup {u})
<1>1. \A k \in DOMAIN q : q[k].op = "append" => q[k].row.id # u
  BY QueuedRows
<1>2. QED
  BY <1>1 DEF Waits

\* The waiting entries are written.
LEMMA QueuedAll ==
  ASSUME NEW s \in Seq(OwnRow), OneRow(s), NEW captured
  PROVE  LET q == [k \in DOMAIN s |-> Op("append", s[k])]
         IN  q \in Seq(AnyOp) /\ Waits(q, captured) /\ Queued(q) = Rows(s) /\ <<>> \o q = q
<1> DEFINE q == [k \in DOMAIN s |-> Op("append", s[k])]
<1>1. /\ DOMAIN s = 1 .. Len(s) /\ Len(s) \in Nat
      /\ \A k \in DOMAIN s : s[k] \in OwnRow
  OBVIOUS
<1>2. \A k \in DOMAIN s : q[k] \in AnyOp /\ q[k].op = "append" /\ q[k].row = s[k]
  BY <1>1, OpFields DEF AnyOp
<1>3. DOMAIN q = DOMAIN s
  OBVIOUS
<1> HIDE DEF q
<1>4. q \in Seq(AnyOp)
  <2>1. q \in [1 .. Len(s) -> AnyOp]
    BY <1>1, <1>2 DEF q
  <2>2. QED
    BY <1>1, <2>1
<1>5. <<>> \o q = q
  BY <1>4
<1>6. Waits(q, captured)
  BY <1>2, <1>3 DEF Waits, OneRow
<1>7. Queued(q) = Rows(s)
  <2>1. {k \in DOMAIN q : q[k].op = "append"} = DOMAIN s
    BY <1>2, <1>3
  <2>2. Queued(q) = {q[k].row : k \in DOMAIN s}
    BY <2>1 DEF Queued
  <2>3. QED
    BY <1>2, <2>2 DEF Rows
<1>8. QED
  BY <1>4, <1>5, <1>6, <1>7 DEF q

-----------------------------------------------------------------------------
(* Steps. *)

\* Rows come up only of messages past their last guard, or of captured ones.
LEMMA HeldStep ==
  ASSUME ArchiveInv, entries \subseteq entries', removed' \subseteq Messages,
         \A u \in Messages : appending'[u] \in Before => appending[u] \in Before,
         \A u \in Messages : Message(u) \in Held' =>
           Message(u) \in Held \/ (appending'[u] \notin Before /\ u \notin removed),
         \A u \in Messages : Archive(u) \in Held' => Archive(u) \in Held \/ u \in entries',
         \A u \in removed' : u \in removed \/ (u \in entries' /\ Message(u) \notin Held')
  PROVE  BeforeInv' /\ RemovedInv'
<1>0. BeforeInv /\ RemovedInv /\ removed \subseteq Messages
  BY DEF ArchiveInv, ArchiveTypes
<1>1. ASSUME NEW u \in Messages, appending'[u] \in Before
      PROVE  Message(u) \notin Held' /\ (Archive(u) \in Held' => u \in entries')
  <2>1. Message(u) \notin Held /\ (Archive(u) \in Held => u \in entries)
    BY <1>0, <1>1 DEF BeforeInv
  <2>2. QED
    BY <1>1, <2>1
<1>2. ASSUME NEW u \in removed'
      PROVE  Message(u) \notin Held' /\ (appending'[u] \in Before => u \in entries')
  <2>1. CASE u \in removed
    <3>1. Message(u) \notin Held /\ (appending[u] \in Before => u \in entries)
      BY <1>0, <2>1 DEF RemovedInv
    <3>2. u \in Messages
      BY <1>0, <2>1
    <3>3. QED
      BY <2>1, <3>1, <3>2
  <2>2. CASE u \in entries' /\ Message(u) \notin Held'
    BY <2>2
  <2>3. QED
    BY <1>2, <2>1, <2>2
<1>3. BeforeInv'
  BY <1>1 DEF BeforeInv, Before
<1>4. RemovedInv'
  BY <1>2 DEF RemovedInv, Before
<1>5. QED
  BY <1>3, <1>4

\* A step that leaves all rows where they are.
LEMMA CalmStep ==
  ASSUME ArchiveInv, UNCHANGED <<transcript, pendingEntries, queue, entries, removed>>,
         \A u \in Messages : appending'[u] \in Before => appending[u] \in Before
  PROVE  BeforeInv' /\ RemovedInv'
<1>1. Held' = Held
  BY DEF Held, Rows, Queued
<1>2. QED
  BY <1>1, HeldStep DEF ArchiveInv, ArchiveTypes

\* A draft stays the draft while nothing is written and the queue keeps its head.
LEMMA DraftStep ==
  ASSUME DraftInv, UNCHANGED <<transcript, place, draft, changed>>, entries \subseteq entries',
         place = "swap" => Target' = Target
  PROVE  DraftInv'
BY DEF DraftInv, InPlace, Rows, Archive, Message, Row

\* The queue keeps its head when a write is put into it.
LEMMA HeadStays ==
  ASSUME NEW q \in Seq(AnyOp), NEW op \in AnyOp, q # <<>>
  PROVE  Append(q, op) # <<>> /\ Head(Append(q, op)) = Head(q)
OBVIOUS

LEMMA EmptyQueue ==
  ASSUME NEW captured
  PROVE  Waits(<<>>, captured) /\ Queued(<<>>) = {} /\ Rows(<<>>) = {} /\ OneRow(<<>>)
BY DEF Waits, Queued, Rows, OneRow

LEMMA WaitsNext ==
  ASSUME UNCHANGED unfit, NEW q, NEW captured, Waits(q, captured), queue' = q, entries' = captured
  PROVE  Waits(queue, entries)'
BY DEF Waits

LEMMA HeldRows ==
  ASSUME ArchiveTypes
  PROVE  Held \subseteq AnyRow
BY QueuedRows DEF ArchiveTypes, Held, Rows, AnyRow

\* A message that is still to be appended, and is not captured, has no row.
LEMMA NoRowYet ==
  ASSUME ArchiveInv, NEW u \in Messages, appending[u] \in Before, u \notin entries
  PROVE  (\A row \in Held : row.id # u) /\ u \notin removed
<1>1. Message(u) \notin Held /\ Archive(u) \notin Held /\ u \notin removed
  BY DEF ArchiveInv, BeforeInv, RemovedInv
<1>2. \A row \in Held : row.id = u => row \in {Message(u), Archive(u)}
  BY HeldRows, RowIs DEF ArchiveInv
<1>3. QED
  BY <1>1, <1>2

LEMMA AnotherMessage ==
  ASSUME NEW u, NEW w
  PROVE  /\ Message(u) = Message(w) => u = w
         /\ Archive(u) = Archive(w) => u = w
BY RowsApart

LEMMA BeginAppendInv ==
  ASSUME ArchiveInv, NEW u \in Messages, BeginAppend(u)
  PROVE  ArchiveInv'
<1>1. /\ UNCHANGED <<remote, unfit, transcript, sessionFile, queue, entries, place, attempt, draft,
                     changed, removed>>
      /\ appending[u] = "new"
  BY DEF BeginAppend, session, rewrite
<1>2. ArchiveTypes /\ PhaseInv /\ OneInv /\ DraftInv
  BY DEF ArchiveInv
<1>3. appending[u] \in Before
  BY <1>1 DEF Before
<1>4. DraftInv'
  BY <1>1, <1>2, DraftStep DEF Target
<1>5. CASE /\ pendingEntries' = pendingEntries
           /\ \/ appending' = [appending EXCEPT ![u] = "over"]
              \/ appending' = [appending EXCEPT ![u] = "rows"] /\ sessionFile
  <2>2. ArchiveTypes' /\ PhaseInv'
    BY <1>1, <1>2, <1>5 DEF ArchiveTypes, PhaseInv, Removing, Before
  <2>3. OneInv'
    BY <1>1, <1>2, <1>5 DEF OneInv, OneRow, Waits, Queued, Rows
  <2>4. \A w \in Messages : appending'[w] \in Before => appending[w] \in Before
    BY <1>2, <1>3, <1>5 DEF ArchiveTypes
  <2>5. BeforeInv' /\ RemovedInv'
    BY <1>1, <1>5, <2>4, CalmStep
  <2>6. QED
    BY <1>4, <2>2, <2>3, <2>5 DEF ArchiveInv
<1>6. CASE pendingEntries' = Append(pendingEntries, Message(u)) /\ u \notin entries
           /\ ~ sessionFile /\ appending' = [appending EXCEPT ![u] = "over"]
  <2>1. /\ pendingEntries' \in Seq(OwnRow)
        /\ Rows(pendingEntries') = Rows(pendingEntries) \cup {Message(u)}
        /\ DOMAIN pendingEntries' = DOMAIN pendingEntries \cup {Len(pendingEntries) + 1}
        /\ pendingEntries'[Len(pendingEntries) + 1] = Message(u)
        /\ \A k \in DOMAIN pendingEntries : pendingEntries'[k] = pendingEntries[k]
    BY <1>2, <1>6, RowsAppend, AreRows DEF ArchiveTypes
  <2>2. (\A row \in Held : row.id # u) /\ u \notin removed /\ Message(u).id = u
    BY <1>3, <1>6, NoRowYet, RowsApart
  <2>3. \A row \in Rows(pendingEntries) : row.id # u
    BY <2>2 DEF Held
  <2>4. ArchiveTypes' /\ PhaseInv'
    BY <1>1, <1>2, <1>6, <2>1 DEF ArchiveTypes, PhaseInv, Removing
  <2>5. OneRow(pendingEntries)'
    BY <1>2, <2>1, <2>2, <2>3 DEF OneInv, OneRow, Rows
  <2>6. OneInv'
    BY <1>1, <1>2, <2>5 DEF OneInv, OneRow, Waits, Queued, Rows
  <2>7. Held' = Held \cup {Message(u)}
    BY <1>1, <2>1 DEF Held, Rows, Queued
  <2>8. \A w \in Messages : appending'[w] \in Before => appending[w] \in Before /\ w # u
    BY <1>2, <1>6 DEF ArchiveTypes, Before
  <2>9. BeforeInv' /\ RemovedInv'
    <3>1. \A w \in Messages : Message(w) \in Held' =>
            Message(w) \in Held \/ (appending'[w] \notin Before /\ w \notin removed)
      BY <2>2, <2>7, <2>8, AnotherMessage
    <3>2. \A w \in Messages : Archive(w) \in Held' => Archive(w) \in Held
      BY <2>7, RowsApart
    <3>3. QED
      BY <1>1, <1>2, <2>8, <3>1, <3>2, HeldStep DEF ArchiveTypes
  <2>10. QED
    BY <1>4, <2>4, <2>6, <2>9 DEF ArchiveInv
<1>7. QED
  BY <1>5, <1>6 DEF BeginAppend, AppendTo

LEMMA KnowsRowsInv ==
  ASSUME ArchiveInv, NEW u \in Messages, KnowsRows(u)
  PROVE  ArchiveInv'
<1>1. /\ UNCHANGED <<remote, unfit, transcript, sessionFile, pendingEntries, queue, entries, place,
                     draft, changed, removed>>
      /\ appending[u] = "rows"
      /\ \/ appending' = [appending EXCEPT ![u] = "over"]
         \/ appending' = [appending EXCEPT ![u] = "session"]
  BY DEF KnowsRows, AppendTo, session, rewrite
<1>2. ArchiveTypes /\ PhaseInv /\ OneInv /\ DraftInv
  BY DEF ArchiveInv
<1>3. ArchiveTypes' /\ PhaseInv'
  BY <1>1, <1>2 DEF ArchiveTypes, PhaseInv, Removing, Before
<1>4. OneInv' /\ DraftInv'
  <2>1. OneInv'
    BY <1>1, <1>2 DEF OneInv, OneRow, Waits, Queued, Rows
  <2>2. DraftInv'
    BY <1>1, <1>2, DraftStep DEF Target
  <2>3. QED
    BY <2>1, <2>2
<1>5. BeforeInv' /\ RemovedInv'
  <2>1. \A w \in Messages : appending'[w] \in Before => appending[w] \in Before
    BY <1>1, <1>2 DEF ArchiveTypes, Before
  <2>2. QED
    BY <1>1, <2>1, CalmStep
<1>6. QED
  BY <1>3, <1>4, <1>5 DEF ArchiveInv

LEMMA PersistInv ==
  ASSUME ArchiveInv, NEW u \in Messages, Persist(u)
  PROVE  ArchiveInv'
<1>1. /\ UNCHANGED <<remote, unfit, transcript, sessionFile, pendingEntries, entries, place, draft,
                     changed, removed>>
      /\ appending[u] = "session" /\ appending' = [appending EXCEPT ![u] = "over"]
  BY DEF Persist, AppendTo, session, rewrite
<1>2. ArchiveTypes /\ PhaseInv /\ OneInv /\ DraftInv
  BY DEF ArchiveInv
<1>3. \A w \in Messages : appending'[w] \in Before => appending[w] \in Before /\ w # u
  BY <1>1, <1>2 DEF ArchiveTypes, Before
<1>4. CASE queue' = queue
  <2>1. ArchiveTypes' /\ PhaseInv'
    BY <1>1, <1>2, <1>4 DEF ArchiveTypes, PhaseInv, Removing
  <2>2. OneInv'
    BY <1>1, <1>2, <1>4 DEF OneInv, OneRow, Waits, Queued, Rows
  <2>3. DraftInv'
    BY <1>1, <1>2, <1>4, DraftStep DEF Target
  <2>4. BeforeInv' /\ RemovedInv'
    BY <1>1, <1>3, <1>4, CalmStep
  <2>5. QED
    BY <2>1, <2>2, <2>3, <2>4 DEF ArchiveInv
<1>5. CASE u \notin entries /\ queue' = Append(queue, Op("append", Message(u)))
  <2>1. appending[u] \in Before
    BY <1>1 DEF Before
  <2>2. (\A row \in Held : row.id # u) /\ u \notin removed /\ Message(u).id = u
    BY <1>5, <2>1, NoRowYet, RowsApart
  <2>3. /\ queue \in Seq(AnyOp) /\ Waits(queue, entries) /\ Message(u) \in OwnRow
        /\ Op("append", Message(u)) \in AnyOp
    BY <1>2, AreRows DEF ArchiveTypes, OneInv
  <2>4. \A a \in Queued(queue) : a.id # Message(u).id
    BY <2>2 DEF Held
  <2>5. /\ queue' \in Seq(AnyOp) /\ Waits(queue', entries)
        /\ Queued(queue') = Queued(queue) \cup {Message(u)}
    BY <1>5, <2>2, <2>3, <2>4, QueuedAppend
  <2>6. ArchiveTypes'
    BY <1>1, <1>2, <2>5 DEF ArchiveTypes
  <2>7. queue # <<>> => queue' # <<>> /\ Head(queue') = Head(queue)
    BY <1>5, <2>3, HeadStays
  <2>8. sessionFile
    BY <1>1, <1>2 DEF PhaseInv
  <2>9. PhaseInv'
    BY <1>1, <1>2, <2>7, <2>8 DEF PhaseInv, Removing
  <2>10. DraftInv'
    <3>1. place = "swap" => Target' = Target
      BY <1>2, <2>7 DEF PhaseInv, Removing, Target
    <3>2. QED
      BY <1>1, <1>2, <3>1, DraftStep
  <2>11. OneInv'
    <3>1. Waits(queue, entries)'
      BY <1>1, <2>5, WaitsNext
    <3>2. \A a \in Queued(queue'), b \in Rows(transcript) : a.id # b.id
      BY <1>2, <2>2, <2>5 DEF OneInv, Held
    <3>3. OneRow(transcript)' /\ OneRow(pendingEntries)'
      BY <1>1, <1>2 DEF OneInv, OneRow
    <3>4. QED
      BY <1>1, <3>1, <3>2, <3>3 DEF OneInv
  <2>12. Held' = Held \cup {Message(u)}
    BY <1>1, <2>5 DEF Held
  <2>13. BeforeInv' /\ RemovedInv'
    <3>1. \A w \in Messages : Message(w) \in Held' =>
            Message(w) \in Held \/ (appending'[w] \notin Before /\ w \notin removed)
      BY <1>3, <2>2, <2>12, AnotherMessage
    <3>2. \A w \in Messages : Archive(w) \in Held' => Archive(w) \in Held
      BY <2>12, RowsApart
    <3>3. QED
      BY <1>1, <1>2, <1>3, <3>1, <3>2, HeldStep DEF ArchiveTypes
  <2>14. QED
    BY <2>6, <2>9, <2>10, <2>11, <2>13 DEF ArchiveInv
<1>6. u \notin entries => queue' = queue \o [k \in DOMAIN <<Message(u)>> |-> Op("append", <<Message(u)>>[k])]
  BY DEF Persist, Enqueue
<1>7. [k \in DOMAIN <<Message(u)>> |-> Op("append", <<Message(u)>>[k])] = <<Op("append", Message(u))>>
  OBVIOUS
<1>8. queue \o <<Op("append", Message(u))>> = Append(queue, Op("append", Message(u)))
  BY <1>2, AreRows DEF ArchiveTypes
<1>9. u \in entries => queue' = queue
  BY DEF Persist
<1>10. QED
  BY <1>4, <1>5, <1>6, <1>7, <1>8, <1>9

LEMMA MaterializeInv ==
  ASSUME ArchiveInv, Materialize
  PROVE  ArchiveInv'
<1> DEFINE left == Without(pendingEntries,
                     {row \in Rows(pendingEntries) : remote /\ row.kind = "archive"})
<1>1. /\ UNCHANGED <<remote, unfit, transcript, appending, entries, place, draft, changed, removed>>
      /\ ~ sessionFile /\ sessionFile' = TRUE /\ pendingEntries' = <<>>
      /\ queue' = queue \o [k \in DOMAIN left |-> Op("append", left[k])]
  BY DEF Materialize, Enqueue, session, rewrite
<1>2. ArchiveTypes /\ PhaseInv /\ OneInv
  BY DEF ArchiveInv
<1>3. transcript = <<>> /\ queue = <<>> /\ place = "idle"
  BY <1>1, <1>2 DEF PhaseInv, Removing
<1>4. left \in Seq(OwnRow) /\ Rows(left) \subseteq Rows(pendingEntries) /\ OneRow(left)
  BY <1>2, WithoutRows DEF ArchiveTypes, OneInv
<1> HIDE DEF left
<1>5. queue' \in Seq(AnyOp) /\ Waits(queue', entries) /\ Queued(queue') = Rows(left)
  BY <1>1, <1>3, <1>4, QueuedAll
<1>6. ArchiveTypes'
  BY <1>1, <1>2, <1>5 DEF ArchiveTypes
<1>7. PhaseInv' /\ DraftInv'
  BY <1>1, <1>3 DEF PhaseInv, DraftInv
<1>8. OneInv'
  <2>1. Waits(queue, entries)'
    BY <1>1, <1>5, WaitsNext
  <2>2. OneRow(transcript') /\ OneRow(pendingEntries') /\ Rows(transcript') = {}
    BY <1>1, <1>3 DEF OneRow, Rows
  <2>3. QED
    BY <2>1, <2>2 DEF OneInv, OneRow, Rows
<1>9. Held' \subseteq Held
  <2>1. Rows(pendingEntries') = {}
    BY <1>1 DEF Rows
  <2>2. Held' = Rows(transcript') \cup Rows(pendingEntries') \cup Queued(queue')
    BY DEF Held, Rows, Queued
  <2>3. QED
    BY <1>1, <1>4, <1>5, <2>1, <2>2 DEF Held
<1>10. BeforeInv' /\ RemovedInv'
  BY <1>1, <1>2, <1>9, HeldStep DEF ArchiveTypes
<1>11. QED
  BY <1>6, <1>7, <1>8, <1>10 DEF ArchiveInv

\* A row is added to the transcript.
LEMMA WrittenInv ==
  ASSUME ArchiveInv, NEW row \in AnyRow, Write(row), sessionFile,
         UNCHANGED <<remote, unfit, sessionFile, pendingEntries, appending, entries, place, removed>>,
         \A b \in Rows(transcript) : b.id # row.id,
         queue' \in Seq(AnyOp), Waits(queue', entries), Queued(queue') \subseteq Queued(queue),
         \A a \in Queued(queue') : a.id # row.id,
         row \in Held \/ row.id \notin Messages,
         place # "idle" => Removing'
  PROVE  ArchiveInv'
<1>1. ArchiveTypes /\ PhaseInv /\ OneInv
  BY DEF ArchiveInv
<1>2. /\ transcript' \in Seq(AnyRow) /\ Rows(transcript') = Rows(transcript) \cup {row}
      /\ DOMAIN transcript' = DOMAIN transcript \cup {Len(transcript) + 1}
      /\ transcript'[Len(transcript) + 1] = row
      /\ \A k \in DOMAIN transcript : transcript'[k] = transcript[k]
  BY <1>1, RowsAppend DEF Write, ArchiveTypes
<1>3. ArchiveTypes'
  BY <1>1, <1>2 DEF ArchiveTypes
<1>4. PhaseInv' /\ DraftInv'
  BY <1>1 DEF PhaseInv, DraftInv, Write
<1>5. OneInv'
  <2>1. Waits(queue, entries)'
    BY WaitsNext
  <2>2. \A k \in DOMAIN transcript : transcript[k].id # row.id
    BY DEF Rows
  <2>3. OneRow(transcript)'
    BY <1>1, <1>2, <2>2 DEF OneInv, OneRow
  <2>4. \A a \in Queued(queue'), b \in Rows(transcript') : a.id # b.id
    BY <1>1, <1>2 DEF OneInv
  <2>5. OneRow(pendingEntries)'
    BY <1>1 DEF OneInv, OneRow
  <2>6. QED
    BY <2>1, <2>3, <2>4, <2>5 DEF OneInv
<1>6. Held' \subseteq Held \cup {row}
  BY <1>2 DEF Held
<1>7. \A u \in Messages : /\ Message(u) \in Held' => Message(u) \in Held
                          /\ Archive(u) \in Held' => Archive(u) \in Held
  BY <1>6, RowsApart
<1>8. BeforeInv' /\ RemovedInv'
  BY <1>1, <1>7, HeldStep DEF ArchiveTypes
<1>9. QED
  BY <1>3, <1>4, <1>5, <1>8 DEF ArchiveInv

LEMMA WriteNextInv ==
  ASSUME ArchiveInv, WriteNext
  PROVE  ArchiveInv'
<1>1. /\ UNCHANGED <<remote, unfit, sessionFile, pendingEntries, appending, entries, place, removed>>
      /\ queue # <<>> /\ Head(queue).op = "append" /\ Write(Head(queue).row) /\ queue' = Tail(queue)
  BY DEF WriteNext, session
<1>2. ArchiveTypes /\ PhaseInv /\ OneInv
  BY DEF ArchiveInv
<1>3. queue \in Seq(AnyOp) /\ Waits(queue, entries)
  BY <1>2 DEF ArchiveTypes, OneInv
<1>4. Head(queue) = queue[1] /\ 1 \in DOMAIN queue /\ queue[1] \in AnyOp
  BY <1>1, <1>3
<1>5. /\ queue' \in Seq(AnyOp) /\ Waits(queue', entries)
      /\ Queued(queue) = {queue[1].row} \cup Queued(queue')
      /\ \A a \in Queued(queue') : a.id # queue[1].row.id
  BY <1>1, <1>3, <1>4, QueuedTail
<1>6. queue[1].row \in AnyRow
  BY <1>1, <1>4, OpIs DEF AnyRow
<1>7. \A b \in Rows(transcript) : b.id # queue[1].row.id
  BY <1>2, <1>5 DEF OneInv
<1>8. queue[1].row \in Held
  BY <1>5 DEF Held
<1>9. sessionFile /\ place = "idle"
  BY <1>1, <1>2 DEF PhaseInv, Removing
<1>10. QED
  BY <1>1, <1>4, <1>5, <1>6, <1>7, <1>8, <1>9, WrittenInv

LEMMA AppendMetadataInv ==
  ASSUME ArchiveInv, NEW m \in Metas, AppendMetadata(m)
  PROVE  ArchiveInv'
<1> DEFINE row == Row("meta", m)
<1>1. /\ UNCHANGED <<remote, unfit, sessionFile, pendingEntries, queue, appending, entries, place,
                     removed>>
      /\ sessionFile /\ row \notin Rows(transcript) /\ Write(row)
  BY DEF AppendMetadata, session
<1>2. ArchiveTypes /\ PhaseInv /\ OneInv
  BY DEF ArchiveInv
<1>3. row \in AnyRow /\ row.id = m /\ m \notin Messages
  BY RowsApart, MetasAssumption DEF AnyRow
<1> HIDE DEF row
<1>4. \A b \in AnyRow : b.id = m => b = row
  BY <1>3, RowIs DEF row
<1>5. \A b \in Rows(transcript) : b.id # row.id
  BY <1>1, <1>2, <1>3, <1>4 DEF ArchiveTypes, Rows
<1>6. QED
  <2>1. queue' \in Seq(AnyOp) /\ Waits(queue', entries) /\ Queued(queue') \subseteq Queued(queue)
    BY <1>1, <1>2 DEF ArchiveTypes, OneInv
  <2>2. place # "idle" => Removing'
    BY <1>1, <1>2 DEF PhaseInv, Removing
  <2>3. \A a \in Queued(queue') : a.id # row.id
    BY <1>1, <1>2, <1>3, QueuedRows DEF ArchiveTypes
  <2>4. QED
    BY <1>1, <1>3, <1>5, <2>1, <2>2, <2>3, WrittenInv

\* Steps that move no row.
LEMMA PlaceStep ==
  ASSUME ArchiveInv, DraftInv', place' # "idle" => Removing,
         UNCHANGED <<unfit, transcript, sessionFile, pendingEntries, queue, appending, entries, removed>>
  PROVE  ArchiveInv'
<1>1. ArchiveTypes /\ PhaseInv /\ OneInv
  BY DEF ArchiveInv
<1>2. ArchiveTypes' /\ PhaseInv'
  BY <1>1 DEF ArchiveTypes, PhaseInv, Removing
<1>3. OneInv'
  BY <1>1 DEF OneInv, OneRow, Waits, Queued, Rows
<1>4. BeforeInv' /\ RemovedInv'
  BY CalmStep
<1>5. QED
  BY <1>2, <1>3, <1>4 DEF ArchiveInv

LEMMA RetractInv ==
  ASSUME ArchiveInv, NEW u \in Messages, Retract(u)
  PROVE  ArchiveInv'
<1>1. /\ UNCHANGED <<remote, unfit, transcript, sessionFile, appending, place, draft, changed>>
      /\ entries' = entries \cup ({u} \ unfit)
  BY DEF Retract, session, rewrite
<1>2. ArchiveTypes /\ PhaseInv /\ OneInv /\ DraftInv
  BY DEF ArchiveInv
<1>3. CASE /\ sessionFile
           /\ queue' = Append(queue, Op("remove", Message(u)))
           /\ UNCHANGED <<pendingEntries, removed>>
  <2>1. queue \in Seq(AnyOp) /\ Waits(queue, entries) /\ Op("remove", Message(u)) \in AnyOp
    BY <1>2, AreRows DEF ArchiveTypes, OneInv
  <2>2. queue' \in Seq(AnyOp) /\ Waits(queue', entries') /\ Queued(queue') = Queued(queue)
    BY <1>1, <1>3, <2>1, QueuedRemoval
  <2>3. queue # <<>> => queue' # <<>> /\ Head(queue') = Head(queue)
    BY <1>3, <2>1, HeadStays
  <2>4. ArchiveTypes'
    BY <1>1, <1>2, <1>3, <2>2 DEF ArchiveTypes
  <2>5. PhaseInv'
    BY <1>1, <1>2, <1>3, <2>3 DEF PhaseInv, Removing
  <2>6. DraftInv'
    <3>1. place = "swap" => Target' = Target
      BY <1>2, <2>3 DEF PhaseInv, Removing, Target
    <3>2. QED
      BY <1>1, <1>2, <3>1, DraftStep
  <2>7. OneInv'
    <3>1. Waits(queue, entries)'
      BY <1>1, <2>2, WaitsNext
    <3>2. \A a \in Queued(queue'), b \in Rows(transcript) : a.id # b.id
      BY <1>2, <2>2 DEF OneInv
    <3>3. OneRow(transcript)' /\ OneRow(pendingEntries)'
      BY <1>1, <1>2, <1>3 DEF OneInv, OneRow
    <3>4. QED
      BY <1>1, <3>1, <3>2, <3>3 DEF OneInv
  <2>8. Held' = Held
    BY <1>1, <1>3, <2>2 DEF Held
  <2>9. BeforeInv' /\ RemovedInv'
    BY <1>1, <1>2, <1>3, <2>8, HeldStep DEF ArchiveTypes
  <2>10. QED
    BY <2>4, <2>5, <2>6, <2>7, <2>9 DEF ArchiveInv
<1>4. CASE /\ ~ sessionFile /\ u \in entries'
           /\ LET others == Without(pendingEntries, {Message(u), Archive(u)})
              IN  pendingEntries' = IF remote THEN others ELSE Append(others, Archive(u))
           /\ removed' = removed \cup {u}
           /\ UNCHANGED queue
  <2> DEFINE others == Without(pendingEntries, {Message(u), Archive(u)})
  <2>1. /\ others \in Seq(OwnRow) /\ Rows(others) = Rows(pendingEntries) \ {Message(u), Archive(u)}
        /\ OneRow(others)
    BY <1>2, WithoutRows DEF ArchiveTypes, OneInv
  <2>2. pendingEntries' \in {others, Append(others, Archive(u))}
    BY <1>4
  <2> HIDE DEF others
  <2>3. \A row \in Rows(others) : row.id # u
    <3>1. \A row \in Rows(others) : row \in AnyRow
      BY <2>1 DEF Rows, AnyRow
    <3>2. QED
      BY <2>1, <3>1, RowIs
  <2>4. /\ Append(others, Archive(u)) \in Seq(OwnRow)
        /\ Rows(Append(others, Archive(u))) = Rows(others) \cup {Archive(u)}
        /\ OneRow(Append(others, Archive(u)))
    <3>1. Archive(u) \in OwnRow /\ Archive(u).id = u
      BY AreRows, RowsApart
    <3>2. /\ Append(others, Archive(u)) \in Seq(OwnRow)
          /\ Rows(Append(others, Archive(u))) = Rows(others) \cup {Archive(u)}
          /\ DOMAIN Append(others, Archive(u)) = DOMAIN others \cup {Len(others) + 1}
          /\ Append(others, Archive(u))[Len(others) + 1] = Archive(u)
          /\ \A k \in DOMAIN others : Append(others, Archive(u))[k] = others[k]
      BY <2>1, <3>1, RowsAppend
    <3>3. \A k \in DOMAIN others : others[k].id # u
      BY <2>3 DEF Rows
    <3>4. OneRow(Append(others, Archive(u)))
      BY <2>1, <3>1, <3>2, <3>3 DEF OneRow
    <3>5. QED
      BY <3>2, <3>4
  <2>5. /\ pendingEntries' \in Seq(OwnRow) /\ OneRow(pendingEntries')
        /\ Rows(pendingEntries') \subseteq (Rows(pendingEntries) \ {Message(u)}) \cup {Archive(u)}
    BY <2>1, <2>2, <2>4
  <2>6. transcript = <<>> /\ queue = <<>> /\ place = "idle"
    BY <1>2, <1>4 DEF PhaseInv, Removing
  <2>7. ArchiveTypes' /\ PhaseInv'
    BY <1>1, <1>2, <1>4, <2>5, <2>6 DEF ArchiveTypes, PhaseInv, Removing
  <2>8. OneInv'
    <3>1. Waits(queue, entries)'
      BY <1>1, <1>4, <2>6, EmptyQueue, WaitsNext
    <3>2. OneRow(transcript') /\ Rows(transcript') = {}
      BY <1>1, <2>6, EmptyQueue
    <3>3. QED
      BY <2>5, <3>1, <3>2 DEF OneInv
  <2>9. Held' \subseteq (Held \ {Message(u)}) \cup {Archive(u)}
    <3>1. Rows(transcript') = {} /\ Queued(queue') = {}
      BY <1>1, <1>4, <2>6 DEF Rows, Queued
    <3>2. QED
      BY <2>5, <3>1, RowsApart DEF Held
  <2>10. BeforeInv' /\ RemovedInv'
    <3>1. \A w \in Messages : Message(w) \in Held' => Message(w) \in Held
      BY <2>9, RowsApart
    <3>2. \A w \in Messages : Archive(w) \in Held' => Archive(w) \in Held \/ w \in entries'
      BY <1>4, <2>9, AnotherMessage
    <3>3. Message(u) \notin Held'
      BY <2>9, RowsApart
    <3>4. QED
      BY <1>1, <1>2, <1>4, <3>1, <3>2, <3>3, HeldStep DEF ArchiveTypes
  <2>11. DraftInv'
    BY <1>1, <2>6 DEF DraftInv
  <2>12. QED
    BY <2>7, <2>8, <2>10, <2>11 DEF ArchiveInv
<1>5. CASE ~ sessionFile /\ u \notin entries' /\ UNCHANGED <<queue, pendingEntries, removed>>
  <2>1. entries' = entries
    BY <1>1, <1>5
  <2>2. DraftInv'
    BY <1>1, <1>2, <1>5, <2>1, DraftStep DEF Target
  <2>3. place' # "idle" => Removing
    BY <1>1, <1>2 DEF PhaseInv
  <2>4. QED
    BY <1>1, <1>5, <2>1, <2>2, <2>3, PlaceStep
<1>6. QED
  BY <1>3, <1>4, <1>5 DEF Retract

LEMMA StatInv == ASSUME ArchiveInv, Stat \/ Retry PROVE ArchiveInv'
<1>1. /\ UNCHANGED <<unfit, transcript, sessionFile, pendingEntries, queue, appending, entries, removed>>
      /\ Removing /\ place' # "swap"
  BY DEF Stat, Retry, session, writer
<1>2. DraftInv'
  BY <1>1 DEF DraftInv
<1>3. QED
  BY <1>1, <1>2, PlaceStep

\* A removal ends: its target has no message row any more.
LEMMA EndInv ==
  ASSUME ArchiveInv, Removing, EndRemoval,
         UNCHANGED <<remote, unfit, sessionFile, pendingEntries, appending>>,
         entries \subseteq entries', entries' \subseteq Messages, Waits(queue, entries'),
         transcript' \in Seq(AnyRow), OneRow(transcript'),
         Message(Target) \notin Rows(transcript'),
         Rows(transcript') \subseteq Rows(transcript) \cup {Archive(Target)},
         Archive(Target) \in Rows(transcript') =>
           Archive(Target) \in Rows(transcript) \/ Target \in entries',
         \A a \in Queued(Tail(queue)), b \in Rows(transcript') : a.id # b.id
  PROVE  ArchiveInv'
<1>1. ArchiveTypes /\ PhaseInv /\ OneInv
  BY DEF ArchiveInv
<1>2. /\ Target \in Messages /\ Head(queue) = queue[1] /\ 1 \in DOMAIN queue
      /\ queue[1].op = "remove" /\ queue[1].row.id = Target
  BY <1>1, TargetIs
<1>3. /\ queue' = Tail(queue) /\ removed' = removed \cup ({Target} \cap entries') /\ place' = "idle"
  BY DEF EndRemoval
<1>4. queue \in Seq(AnyOp) /\ queue # <<>>
  BY <1>1 DEF ArchiveTypes, Removing
<1>5. /\ queue' \in Seq(AnyOp) /\ Waits(queue', entries') /\ Queued(queue') = Queued(queue)
      /\ \A row \in Queued(queue') : row.id = Target => row.id \notin entries'
  BY <1>2, <1>3, <1>4, QueuedTail
<1>6. sessionFile /\ pendingEntries = <<>>
  BY <1>1, <1>4 DEF PhaseInv
<1>7. ArchiveTypes'
  BY <1>1, <1>2, <1>3, <1>5 DEF ArchiveTypes
<1>8. PhaseInv' /\ DraftInv'
  BY <1>3, <1>6 DEF PhaseInv, DraftInv
<1>9. OneInv'
  <2>1. Waits(queue, entries)'
    BY <1>5, WaitsNext
  <2>2. OneRow(pendingEntries')
    BY <1>6, EmptyQueue
  <2>3. QED
    BY <1>3, <2>1, <2>2 DEF OneInv
<1>10. Held' \subseteq Held \cup {Archive(Target)}
  BY <1>5, <1>6 DEF Held
<1>11. Target \in entries' => Message(Target) \notin Held'
  <2>1. SUFFICES ASSUME Target \in entries' PROVE Message(Target) \notin Held'
    OBVIOUS
  <2>2. Message(Target) \notin Queued(queue')
    BY <1>5, <2>1, RowsApart
  <2>3. Rows(pendingEntries') = {}
    BY <1>6, EmptyQueue
  <2>4. QED
    BY <2>2, <2>3 DEF Held
<1>12. BeforeInv' /\ RemovedInv'
  <2>1. \A w \in Messages : Message(w) \in Held' => Message(w) \in Held
    BY <1>10, RowsApart
  <2>2. \A w \in Messages : Archive(w) \in Held' => Archive(w) \in Held \/ w \in entries'
    <3>1. SUFFICES ASSUME NEW w \in Messages, Archive(w) \in Held', Archive(w) \notin Held
                   PROVE  w \in entries'
      OBVIOUS
    <3>2. w = Target
      BY <1>10, <3>1, AnotherMessage
    <3>3. Archive(Target) \in Rows(transcript')
      <4>1. Archive(Target) \notin Queued(queue') /\ Rows(pendingEntries') = {}
        BY <1>5, <1>6, <3>1, <3>2, EmptyQueue DEF Held
      <4>2. QED
        BY <3>1, <3>2, <4>1 DEF Held
    <3>4. QED
      BY <3>1, <3>2, <3>3 DEF Held
  <2>3. removed' \subseteq Messages /\ \A w \in removed' : w \in removed \/ (w \in entries' /\ Message(w) \notin Held')
    BY <1>1, <1>2, <1>3, <1>11 DEF ArchiveTypes
  <2>4. QED
    BY <2>1, <2>2, <2>3, HeldStep
<1>13. QED
  BY <1>7, <1>8, <1>9, <1>12 DEF ArchiveInv

LEMMA CopyRowsInv == ASSUME ArchiveInv, CopyRows PROVE ArchiveInv'
<1> DEFINE u == Target
           next == Draft(u, u \in entries)
           met == {Message(u), Archive(u)} \cap Rows(transcript) # {}
<1>1. /\ UNCHANGED <<remote, unfit, transcript, sessionFile, pendingEntries, appending>>
      /\ Removing /\ place = "copy"
      /\ entries' = IF met THEN entries \cup {u} ELSE entries
  BY DEF CopyRows, session
<1>2. \/ next # <<>> /\ place' = "swap" /\ draft' = next /\ UNCHANGED <<attempt, changed, queue, removed>>
      \/ next = <<>> /\ EndRemoval
  BY DEF CopyRows
<1>3. ArchiveTypes /\ PhaseInv /\ OneInv
  BY DEF ArchiveInv
<1>4. u \in Messages /\ queue \in Seq(AnyOp) /\ Waits(queue, entries)
  BY <1>1, <1>3, TargetIs DEF ArchiveTypes, OneInv
<1>5. Waits(queue, entries')
  <2>1. CASE met
    <3>1. \E b \in Rows(transcript) : b.id = u
      BY <2>1, RowsApart
    <3>2. \A a \in Queued(queue) : a.id # u
      BY <1>3, <3>1 DEF OneInv
    <3>3. entries' = entries \cup {u}
      BY <1>1, <2>1
    <3> HIDE DEF u, met
    <3>4. QED
      BY <1>4, <3>2, <3>3, QueuedRestore
  <2>2. CASE ~ met
    BY <1>1, <1>4, <2>2
  <2>3. QED
    BY <2>1, <2>2
<1>6. entries \subseteq entries' /\ entries' \subseteq Messages
  BY <1>1, <1>3, <1>4 DEF ArchiveTypes
<1>7. CASE next # <<>> /\ place' = "swap" /\ draft' = next /\ UNCHANGED <<attempt, changed, queue, removed>>
  <2>1. ArchiveTypes' /\ PhaseInv'
    BY <1>1, <1>3, <1>6, <1>7 DEF ArchiveTypes, PhaseInv, Removing
  <2>2. OneInv'
    <3>1. Waits(queue, entries)'
      BY <1>1, <1>5, <1>7, WaitsNext
    <3>2. QED
      BY <1>1, <1>3, <1>7, <3>1 DEF OneInv, OneRow, Queued, Rows
  <2>3. DraftInv'
    <3>1. Target' = u /\ InPlace(u)' = InPlace(u) /\ transcript' = transcript
      BY <1>1, <1>7 DEF Target, InPlace
    <3>2. CASE Message(u) \in Rows(transcript)
      <4>1. draft' = InPlace(u) /\ u \in entries'
        BY <1>1, <1>7, <3>2 DEF Draft, InPlace
      <4>2. QED
        BY <3>1, <3>2, <4>1 DEF DraftInv, InPlace
    <3>3. CASE Message(u) \notin Rows(transcript)
      <4>1. Archive(u) \notin Rows(transcript) /\ u \in entries /\ draft' = Append(transcript, Archive(u))
        BY <1>7, <3>3 DEF Draft
      <4>2. QED
        BY <1>6, <3>1, <3>3, <4>1 DEF DraftInv
    <3>4. QED
      BY <3>2, <3>3
  <2>4. Held' = Held
    BY <1>1, <1>7 DEF Held, Rows, Queued
  <2>5. BeforeInv' /\ RemovedInv'
    BY <1>1, <1>3, <1>6, <1>7, <2>4, HeldStep DEF ArchiveTypes
  <2>6. QED
    BY <2>1, <2>2, <2>3, <2>5 DEF ArchiveInv
<1>8. CASE next = <<>> /\ EndRemoval
  <2>1. Message(u) \notin Rows(transcript)
    <3>1. SUFFICES ASSUME Message(u) \in Rows(transcript) PROVE FALSE
      OBVIOUS
    <3>2. DOMAIN next = DOMAIN transcript
      BY <3>1 DEF Draft
    <3>3. DOMAIN transcript # {}
      BY <3>1 DEF Rows
    <3>4. DOMAIN next = {}
      BY <1>8
    <3>5. QED
      BY <3>2, <3>3, <3>4
  <2>2. Queued(Tail(queue)) \subseteq Queued(queue)
    BY <1>1, <1>3, <1>4, TargetIs, QueuedTail DEF Removing
  <2>3. \A a \in Queued(Tail(queue)), b \in Rows(transcript') : a.id # b.id
    BY <1>1, <1>3, <2>2 DEF OneInv
  <2>4. transcript' \in Seq(AnyRow) /\ OneRow(transcript')
    BY <1>1, <1>3 DEF ArchiveTypes, OneInv
  <2>5. QED
    BY <1>1, <1>5, <1>6, <1>8, <2>1, <2>3, <2>4, EndInv
<1>9. QED
  BY <1>2, <1>7, <1>8

\* The transcript with the archive row in place.
LEMMA InPlaceRows ==
  ASSUME ArchiveTypes, NEW u \in Messages
  PROVE  /\ InPlace(u) \in Seq(AnyRow)
         /\ DOMAIN InPlace(u) = DOMAIN transcript
         /\ \A k \in DOMAIN transcript :
              /\ InPlace(u)[k].id = transcript[k].id /\ InPlace(u)[k] # Message(u)
              /\ \/ InPlace(u)[k] = transcript[k]
                 \/ transcript[k] = Message(u) /\ InPlace(u)[k] = Archive(u)
<1> DEFINE image == InPlace(u)
<1>1. transcript \in Seq(AnyRow)
  BY DEF ArchiveTypes
<1>2. DOMAIN transcript = 1 .. Len(transcript) /\ \A k \in DOMAIN transcript : transcript[k] \in AnyRow
  BY <1>1
<1>3. /\ DOMAIN image = DOMAIN transcript
      /\ \A k \in DOMAIN transcript :
           image[k] = IF transcript[k] = Message(u) THEN Archive(u) ELSE transcript[k]
  BY DEF InPlace
<1>4. Archive(u) \in AnyRow /\ Archive(u).id = u /\ Message(u).id = u /\ Archive(u) # Message(u)
  BY AreRows, RowsApart
<1>5. \A k \in DOMAIN transcript : image[k] \in AnyRow
  BY <1>2, <1>3, <1>4
<1>6. image \in Seq(AnyRow)
  <2>1. image = [k \in 1 .. Len(transcript) |-> image[k]]
    BY <1>2 DEF InPlace
  <2>2. Len(transcript) \in Nat
    BY <1>1
  <2>3. image \in [1 .. Len(transcript) -> AnyRow]
    BY <1>2, <1>5, <2>1
  <2> HIDE DEF image
  <2>4. QED
    BY <2>2, <2>3
<1>7. \A k \in DOMAIN transcript :
        /\ image[k].id = transcript[k].id /\ image[k] # Message(u)
        /\ \/ image[k] = transcript[k]
           \/ transcript[k] = Message(u) /\ image[k] = Archive(u)
  BY <1>3, <1>4
<1>8. QED
  BY <1>3, <1>6, <1>7

LEMMA SwapInv == ASSUME ArchiveInv, Swap PROVE ArchiveInv'
<1>1. /\ UNCHANGED <<remote, unfit, sessionFile, pendingEntries, appending, entries>>
      /\ Removing /\ place = "swap" /\ ~ changed /\ transcript' = draft /\ EndRemoval
  BY DEF Swap, session
<1>2. ArchiveTypes /\ PhaseInv /\ OneInv /\ DraftInv
  BY DEF ArchiveInv
<1>3. /\ Target \in Messages /\ 1 \in DOMAIN queue
      /\ queue[1].op = "remove" /\ queue[1].row.id = Target
  BY <1>1, <1>2, TargetIs
<1>4. /\ transcript \in Seq(AnyRow) /\ queue \in Seq(AnyOp) /\ queue # <<>>
      /\ OneRow(transcript) /\ Waits(queue, entries) /\ entries \subseteq Messages
      /\ \A a \in Queued(queue), b \in Rows(transcript) : a.id # b.id
  BY <1>1, <1>2 DEF ArchiveTypes, OneInv, Removing
<1>5. Target \in entries
  BY <1>1, <1>2 DEF DraftInv
<1>6. /\ Queued(Tail(queue)) = Queued(queue)
      /\ \A a \in Queued(Tail(queue)) : a.id # Target
  BY <1>3, <1>4, <1>5, QueuedTail
<1>7. CASE Message(Target) \in Rows(transcript) /\ draft = InPlace(Target)
  <2>1. /\ draft \in Seq(AnyRow) /\ DOMAIN draft = DOMAIN transcript
        /\ \A k \in DOMAIN transcript :
             /\ draft[k].id = transcript[k].id /\ draft[k] # Message(Target)
             /\ draft[k] = transcript[k] \/ draft[k] = Archive(Target)
    BY <1>2, <1>3, <1>7, InPlaceRows
  <2>2. OneRow(draft)
    BY <1>4, <2>1 DEF OneRow
  <2>3. /\ Message(Target) \notin Rows(draft)
        /\ Rows(draft) \subseteq Rows(transcript) \cup {Archive(Target)}
        /\ \A b \in Rows(draft) : \E c \in Rows(transcript) : b.id = c.id
    BY <2>1 DEF Rows
  <2>4. \A a \in Queued(Tail(queue)), b \in Rows(draft) : a.id # b.id
    BY <1>4, <1>6, <2>3
  <2>5. QED
    BY <1>1, <1>4, <1>5, <2>1, <2>2, <2>3, <2>4, EndInv
<1>8. CASE /\ {Message(Target), Archive(Target)} \cap Rows(transcript) = {}
           /\ draft = Append(transcript, Archive(Target))
  <2>1. Archive(Target) \in AnyRow /\ Archive(Target).id = Target /\ Message(Target) # Archive(Target)
    BY <1>3, AreRows, RowsApart
  <2>2. /\ draft \in Seq(AnyRow) /\ Rows(draft) = Rows(transcript) \cup {Archive(Target)}
        /\ DOMAIN draft = DOMAIN transcript \cup {Len(transcript) + 1}
        /\ draft[Len(transcript) + 1] = Archive(Target)
        /\ \A k \in DOMAIN transcript : draft[k] = transcript[k]
    BY <1>4, <1>8, <2>1, RowsAppend
  <2>3. \A b \in Rows(transcript) : b.id # Target
    <3>1. \A b \in Rows(transcript) : b \in AnyRow
      BY <1>4 DEF Rows
    <3>2. QED
      BY <1>3, <1>8, <3>1, RowIs
  <2>4. OneRow(draft)
    <3>1. \A k \in DOMAIN transcript : transcript[k].id # Target
      BY <2>3 DEF Rows
    <3>2. QED
      BY <1>4, <2>1, <2>2, <3>1 DEF OneRow
  <2>5. Message(Target) \notin Rows(draft)
    BY <1>8, <2>1, <2>2
  <2>6. \A a \in Queued(Tail(queue)), b \in Rows(draft) : a.id # b.id
    BY <1>4, <1>6, <2>1, <2>2
  <2>7. QED
    BY <1>1, <1>4, <1>5, <2>2, <2>4, <2>5, <2>6, EndInv
<1>9. QED
  BY <1>1, <1>2, <1>7, <1>8 DEF DraftInv

LEMMA NativePurgeInv == ASSUME ArchiveInv, Removing, NativePurge PROVE ArchiveInv'
<1>1. /\ UNCHANGED <<remote, unfit, sessionFile, pendingEntries, appending, entries>>
      /\ transcript' = Without(transcript, {Message(Target)}) /\ EndRemoval
  BY DEF NativePurge, session
<1>2. ArchiveTypes /\ PhaseInv /\ OneInv
  BY DEF ArchiveInv
<1>3. /\ 1 \in DOMAIN queue /\ queue[1].op = "remove"
  BY <1>2, TargetIs
<1>4. /\ transcript \in Seq(AnyRow) /\ queue \in Seq(AnyOp) /\ queue # <<>>
      /\ OneRow(transcript) /\ Waits(queue, entries) /\ entries \subseteq Messages
      /\ \A a \in Queued(queue), b \in Rows(transcript) : a.id # b.id
  BY <1>2 DEF ArchiveTypes, OneInv, Removing
<1>5. /\ transcript' \in Seq(AnyRow) /\ OneRow(transcript')
      /\ Rows(transcript') = Rows(transcript) \ {Message(Target)}
  BY <1>1, <1>4, WithoutRows
<1>6. Queued(Tail(queue)) = Queued(queue)
  BY <1>3, <1>4, QueuedTail
<1>7. \A a \in Queued(Tail(queue)), b \in Rows(transcript') : a.id # b.id
  BY <1>4, <1>5, <1>6
<1>8. QED
  BY <1>1, <1>4, <1>5, <1>7, EndInv

LEMMA ResumeInv == ASSUME ArchiveInv, Resume PROVE ArchiveInv'
<1>1. /\ UNCHANGED <<remote, unfit, transcript, sessionFile, pendingEntries, removed>>
      /\ sessionFile /\ queue' = <<>> /\ place' = "idle"
      /\ entries' \in {Restored, {}}
      /\ appending' = [u \in Messages |->
           IF Message(u) \in Rows(transcript) THEN "over"
           ELSE IF appending[u] = "new" /\ u \notin entries THEN "new" ELSE "lost"]
  BY DEF Resume, session
<1>2. ArchiveTypes /\ PhaseInv /\ OneInv /\ BeforeInv /\ RemovedInv
  BY DEF ArchiveInv
<1>3. ArchiveTypes'
  <2>1. entries' \subseteq Messages
    BY <1>1 DEF Restored
  <2>2. queue' \in Seq(AnyOp)
    BY <1>1
  <2>3. appending' \in [Messages -> Before \cup {"over", "lost"}]
    BY <1>1 DEF Before
  <2>4. QED
    BY <1>1, <1>2, <2>1, <2>2, <2>3 DEF ArchiveTypes
<1>4. PhaseInv' /\ DraftInv'
  BY <1>1, <1>2 DEF PhaseInv, DraftInv
<1>5. OneInv'
  <2>1. Waits(queue, entries)'
    BY <1>1, EmptyQueue, WaitsNext
  <2>2. Queued(queue') = {} /\ OneRow(transcript') /\ OneRow(pendingEntries')
    BY <1>1, <1>2, EmptyQueue DEF OneInv
  <2>3. QED
    BY <2>1, <2>2 DEF OneInv
<1>6. Held' \subseteq Held
  <2>1. Queued(queue') = {}
    BY <1>1, EmptyQueue
  <2>2. QED
    BY <1>1, <2>1 DEF Held
<1>7. \A u \in Messages : appending'[u] \in Before => appending[u] = "new" /\ u \notin entries
  BY <1>1 DEF Before
<1>8. BeforeInv'
  <2>1. SUFFICES ASSUME NEW u \in Messages, appending'[u] \in Before
                 PROVE  Message(u) \notin Held' /\ Archive(u) \notin Held'
    BY DEF BeforeInv, Before
  <2>2. Message(u) \notin Held /\ Archive(u) \notin Held
    BY <1>2, <1>7, <2>1 DEF BeforeInv, Before
  <2>3. QED
    BY <1>6, <2>2
<1>9. RemovedInv'
  <2>1. SUFFICES ASSUME NEW u \in removed
                 PROVE  Message(u) \notin Held' /\ appending'[u] \notin Before
    BY <1>1 DEF RemovedInv, Before
  <2>2. u \in Messages /\ Message(u) \notin Held /\ (appending[u] = "new" => u \in entries)
    BY <1>2 DEF RemovedInv, Before, ArchiveTypes
  <2>3. QED
    BY <1>6, <1>7, <2>2
<1>10. QED
  BY <1>3, <1>4, <1>5, <1>8, <1>9 DEF ArchiveInv

LEMMA ArchiveInitInv == ArchiveInit => ArchiveInv
<1> SUFFICES ASSUME ArchiveInit PROVE ArchiveInv
  OBVIOUS
<1>1. /\ transcript = <<>> /\ pendingEntries = <<>> /\ queue = <<>> /\ sessionFile = FALSE
      /\ appending = [u \in Messages |-> "new"] /\ entries = {} /\ removed = {} /\ place = "idle"
  BY DEF ArchiveInit
<1>2. ArchiveTypes /\ PhaseInv /\ DraftInv
  BY <1>1 DEF ArchiveTypes, PhaseInv, DraftInv, Before
<1>3. OneInv
  BY <1>1, EmptyQueue DEF OneInv
<1>4. Held = {}
  BY <1>1, EmptyQueue DEF Held
<1>5. BeforeInv /\ RemovedInv
  BY <1>1, <1>4 DEF BeforeInv, RemovedInv
<1>6. QED
  BY <1>2, <1>3, <1>5 DEF ArchiveInv

LEMMA ArchiveNextInv == ArchiveInv /\ [ArchiveNext]_archiveVars => ArchiveInv'
<1> SUFFICES ASSUME ArchiveInv, [ArchiveNext]_archiveVars PROVE ArchiveInv'
  OBVIOUS
<1>1. CASE Conversation
  BY <1>1, BeginAppendInv, KnowsRowsInv, PersistInv, RetractInv DEF Conversation
<1>2. CASE Queue
  <2>1. CASE WriteNext
    BY <2>1, WriteNextInv
  <2>2. CASE Stat \/ Retry
    BY <2>2, StatInv
  <2>3. CASE CopyRows
    BY <2>3, CopyRowsInv
  <2>4. CASE Swap
    BY <2>4, SwapInv
  <2>5. CASE GiveUp \/ PurgeRemote
    BY <2>5, NativePurgeInv DEF GiveUp, PurgeRemote
  <2>6. QED
    BY <1>2, <2>1, <2>2, <2>3, <2>4, <2>5 DEF Queue
<1>3. CASE Fail
  BY <1>3, NativePurgeInv DEF Fail
<1>4. CASE Materialize
  BY <1>4, MaterializeInv
<1>5. CASE \E m \in Metas : AppendMetadata(m)
  BY <1>5, AppendMetadataInv
<1>6. CASE Resume
  BY <1>6, ResumeInv
<1>7. CASE UNCHANGED archiveVars
  <2>1. UNCHANGED <<unfit, transcript, sessionFile, pendingEntries, queue, appending, entries, removed,
                    place, draft, changed>>
    BY <1>7 DEF archiveVars, session, writer, rewrite
  <2>2. DraftInv /\ PhaseInv
    BY DEF ArchiveInv
  <2>3. DraftInv'
    BY <2>1, <2>2, DraftStep DEF Target
  <2>4. place' # "idle" => Removing
    BY <2>1, <2>2 DEF PhaseInv
  <2>5. QED
    BY <2>1, <2>3, <2>4, PlaceStep
<1>8. QED
  BY <1>1, <1>2, <1>3, <1>4, <1>5, <1>6, <1>7 DEF ArchiveNext

LEMMA ArchiveInvariant == ArchiveSpec => []ArchiveInv
BY ArchiveInitInv, ArchiveNextInv, PTL DEF ArchiveSpec

\* However often a message is retracted and its removal retried, given up or
\* restored, it has one row, itself or its archive; and once its removal has ended
\* its own row does not come back (appendEntry's guards in retractions.py, replace
\* and restore in retraction_storage.js).
THEOREM StaysRemovedHolds == ArchiveSpec => []StaysRemoved
<1>1. ASSUME ArchiveInv PROVE StaysRemoved
  <2>1. OneRow(transcript) /\ queue \in Seq(AnyOp)
    BY <1>1 DEF ArchiveInv, OneInv, ArchiveTypes
  <2>2. ASSUME NEW u \in removed
        PROVE  /\ Message(u) \notin Rows(transcript) \cup Rows(pendingEntries)
               /\ Op("append", Message(u)) \notin Rows(queue)
    <3>1. Message(u) \notin Held
      BY <1>1 DEF ArchiveInv, RemovedInv
    <3>2. \A k \in DOMAIN queue : queue[k] # Op("append", Message(u))
      <4>1. SUFFICES ASSUME NEW k \in DOMAIN queue, queue[k] = Op("append", Message(u))
                     PROVE  FALSE
        OBVIOUS
      <4>2. queue[k].op = "append" /\ queue[k].row = Message(u)
        BY <4>1, OpFields
      <4>3. QED
        BY <2>1, <3>1, <4>2, QueuedRows DEF Held
    <3>3. QED
      BY <3>1, <3>2 DEF Held, Rows
  <2>3. QED
    BY <2>1, <2>2 DEF StaysRemoved, OneRow
<1>2. QED
  BY <1>1, ArchiveInvariant, PTL

-----------------------------------------------------------------------------
(* What a step does to the transcript. *)

Grown(row) ==
  /\ row \in AnyRow /\ transcript' = Append(transcript, row)
  /\ \A b \in Rows(transcript) : b.id # row.id
Replaced == Removing /\ Target \in Messages /\ transcript' = InPlace(Target)
Purged == Removing /\ transcript' = Without(transcript, {Message(Target)})

LEMMA TranscriptSteps ==
  ASSUME ArchiveInv, [ArchiveNext]_archiveVars
  PROVE  UNCHANGED transcript \/ (\E row : Grown(row)) \/ Replaced \/ Purged
<1>1. ArchiveTypes /\ PhaseInv /\ OneInv /\ DraftInv
  BY DEF ArchiveInv
<1>2. CASE WriteNext
  <2>1. queue # <<>> /\ queue \in Seq(AnyOp) /\ Waits(queue, entries)
        /\ Head(queue).op = "append" /\ transcript' = Append(transcript, Head(queue).row)
    BY <1>1, <1>2 DEF WriteNext, Write, ArchiveTypes, OneInv
  <2>2. Head(queue) = queue[1] /\ 1 \in DOMAIN queue
    BY <2>1
  <2>3. Head(queue).row \in Queued(queue)
    BY <2>1, <2>2, QueuedRows
  <2>4. Head(queue).row \in AnyRow
    BY <2>1, <2>3, QueuedRows DEF AnyRow
  <2>5. Grown(Head(queue).row)
    BY <1>1, <2>1, <2>3, <2>4 DEF Grown, OneInv
  <2>6. QED
    BY <2>5
<1>3. CASE \E m \in Metas : AppendMetadata(m)
  <2>1. PICK m \in Metas : AppendMetadata(m)
    BY <1>3
  <2>2. Row("meta", m) \notin Rows(transcript) /\ transcript' = Append(transcript, Row("meta", m))
    BY <2>1 DEF AppendMetadata, Write
  <2>3. Row("meta", m) \in AnyRow /\ Row("meta", m).id = m /\ m \notin Messages
    BY RowsApart, MetasAssumption DEF AnyRow
  <2>4. \A b \in Rows(transcript) : b \in AnyRow
    BY <1>1 DEF ArchiveTypes, Rows
  <2>5. \A b \in Rows(transcript) : b.id # m
    BY <2>2, <2>3, <2>4, RowIs
  <2>6. Grown(Row("meta", m))
    BY <2>2, <2>3, <2>5 DEF Grown
  <2>7. QED
    BY <2>6
<1>4. CASE Swap
  <2>1. Removing /\ place = "swap" /\ ~ changed /\ transcript' = draft
    BY <1>4 DEF Swap
  <2>2. Target \in Messages
    BY <1>1, <2>1, TargetIs
  <2>3. CASE draft = InPlace(Target)
    BY <2>1, <2>2, <2>3 DEF Replaced
  <2>4. CASE /\ {Message(Target), Archive(Target)} \cap Rows(transcript) = {}
             /\ draft = Append(transcript, Archive(Target))
    <3>1. Archive(Target) \in AnyRow /\ Archive(Target).id = Target
      BY <2>2, AreRows, RowsApart
    <3>2. \A b \in Rows(transcript) : b \in AnyRow
      BY <1>1 DEF ArchiveTypes, Rows
    <3>3. \A b \in Rows(transcript) : b.id # Target
      BY <2>2, <2>4, <3>2, RowIs
    <3>4. Grown(Archive(Target))
      BY <2>1, <2>4, <3>1, <3>3 DEF Grown
    <3>5. QED
      BY <3>4
  <2>5. QED
    BY <1>1, <2>1, <2>3, <2>4 DEF DraftInv
<1>5. CASE GiveUp \/ Fail \/ PurgeRemote
  BY <1>5 DEF GiveUp, Fail, PurgeRemote, NativePurge, Purged
<1>6. CASE Conversation
  BY <1>6 DEF Conversation, BeginAppend, KnowsRows, Persist, Retract
<1>7. CASE Stat \/ CopyRows \/ Retry \/ Materialize \/ Resume
  BY <1>7 DEF Stat, CopyRows, Retry, Materialize, Resume, writer
<1>8. CASE UNCHANGED archiveVars
  BY <1>8 DEF archiveVars, writer
<1>9. QED
  BY <1>2, <1>3, <1>4, <1>5, <1>6, <1>7, <1>8 DEF ArchiveNext, Queue

LEMMA GrownPrefix ==
  ASSUME ArchiveTypes, NEW row, Grown(row)
  PROVE  IsPrefix(transcript, transcript') /\ Len(transcript') <= Len(transcript) + 1
<1> DEFINE n == Len(transcript)
<1>1. /\ transcript \in Seq(AnyRow) /\ n \in Nat /\ row \in AnyRow
      /\ transcript' = Append(transcript, row)
  BY DEF ArchiveTypes, Grown
<1>2. /\ transcript' \in Seq(AnyRow) /\ Len(transcript') = n + 1
      /\ \A k \in 1 .. n : transcript'[k] = transcript[k]
  BY <1>1
<1>3. SubSeq(transcript, 1, n) = SubSeq(transcript', 1, n)
  BY <1>1, <1>2
<1>4. QED
  BY <1>1, <1>2, <1>3 DEF IsPrefix

\* A step appends one row, or is the removal under way and leaves every other row,
\* in its order: nothing that was written while rows were copied is lost
\* (replaceLocal in retraction_storage.js).
THEOREM OthersUntouchedHolds == ArchiveSpec => OthersUntouched
<1> DEFINE own == {Message(Target), Archive(Target)}
           Step == \/ IsPrefix(transcript, transcript') /\ Len(transcript') <= Len(transcript) + 1
                   \/ Removing /\ Without(transcript', own) = Without(transcript, own)
<1>1. ASSUME ArchiveInv, [ArchiveNext]_archiveVars PROVE [Step]_transcript
  <2>0. ArchiveTypes /\ transcript \in Seq(AnyRow)
    BY <1>1 DEF ArchiveInv, ArchiveTypes
  <2>1. CASE \E row : Grown(row)
    BY <2>0, <2>1, GrownPrefix
  <2>2. CASE Replaced
    <3>1. /\ Removing /\ Target \in Messages /\ transcript' = InPlace(Target)
          /\ DOMAIN transcript' = DOMAIN transcript
          /\ \A k \in DOMAIN transcript :
               \/ transcript'[k] = transcript[k]
               \/ transcript[k] \in own /\ transcript'[k] \in own
      BY <2>0, <2>2, InPlaceRows DEF Replaced
    <3> HIDE DEF own
    <3>2. /\ {k \in DOMAIN transcript : transcript[k] \notin own}
               = {k \in DOMAIN transcript' : transcript'[k] \notin own}
          /\ \A k \in DOMAIN transcript : transcript[k] \notin own => transcript[k] = transcript'[k]
      BY <3>1
    <3>3. Without(transcript, own) = Without(transcript', own)
      BY <2>0, <3>2, WithoutSame
    <3>4. QED
      BY <3>1, <3>3
  <2>3. CASE Purged
    <3>1. {Message(Target)} \subseteq own
      OBVIOUS
    <3> HIDE DEF own
    <3>2. Without(Without(transcript, {Message(Target)}), own) = Without(transcript, own)
      BY <2>0, <3>1, WithoutTwice
    <3>3. QED
      BY <2>3, <3>2 DEF Purged
  <2>4. QED
    BY <1>1, <2>1, <2>2, <2>3, TranscriptSteps
<1>2. QED
  BY <1>1, ArchiveInvariant, PTL DEF ArchiveSpec, OthersUntouched

\* A message that turns into its archive does so where it stands (replaceLocal).
THEOREM ArchivedInPlaceHolds == ArchiveSpec => ArchivedInPlace
<1> DEFINE Step == \A u \in Messages :
                     Message(u) \in Rows(transcript) /\ Archive(u) \in Rows(transcript') =>
                       Ids(transcript') = Ids(transcript)
<1>1. ASSUME ArchiveInv, [ArchiveNext]_archiveVars PROVE [Step]_transcript
  <2>0. ArchiveTypes /\ transcript \in Seq(AnyRow) /\ OneRow(transcript)
    BY <1>1 DEF ArchiveInv, ArchiveTypes, OneInv
  <2>1. ASSUME NEW u \in Messages, Message(u) \in Rows(transcript) PROVE Archive(u) \notin Rows(transcript)
    <3>1. SUFFICES ASSUME Archive(u) \in Rows(transcript) PROVE FALSE
      OBVIOUS
    <3>2. PICK j \in DOMAIN transcript : transcript[j] = Message(u)
      BY <2>1 DEF Rows
    <3>3. PICK k \in DOMAIN transcript : transcript[k] = Archive(u)
      BY <3>1 DEF Rows
    <3>4. j = k
      BY <2>0, <3>2, <3>3, RowsApart DEF OneRow
    <3>5. QED
      BY <3>2, <3>3, <3>4, RowsApart
  <2>2. CASE \E row : Grown(row)
    <3>1. PICK row : Grown(row)
      BY <2>2
    <3>2. Rows(transcript') = Rows(transcript) \cup {row}
      BY <2>0, <3>1, RowsAppend DEF Grown
    <3>3. ASSUME NEW u \in Messages, Message(u) \in Rows(transcript) PROVE Archive(u) # row
      BY <3>1, <3>3, RowsApart DEF Grown
    <3>4. QED
      BY <2>1, <3>2, <3>3
  <2>3. CASE Replaced
    <3>1. /\ DOMAIN transcript' = DOMAIN transcript
          /\ \A k \in DOMAIN transcript : transcript'[k].id = transcript[k].id
      BY <2>0, <2>3, InPlaceRows DEF Replaced
    <3>2. Ids(transcript') = Ids(transcript)
      BY <3>1 DEF Ids
    <3>3. QED
      BY <3>2
  <2>4. CASE Purged
    <3>1. Rows(transcript') \subseteq Rows(transcript)
      BY <2>0, <2>4, WithoutRows DEF Purged
    <3>2. QED
      BY <2>1, <3>1
  <2>5. QED
    BY <1>1, <2>2, <2>3, <2>4, TranscriptSteps
<1>2. QED
  BY <1>1, ArchiveInvariant, PTL DEF ArchiveSpec, ArchivedInPlace
=============================================================================
