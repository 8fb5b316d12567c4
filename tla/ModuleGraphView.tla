----------------------------- MODULE ModuleGraphView -----------------------------
(***************************************************************************)
(* The drawing of the module graph by `cosmonauts serve`: a request reads  *)
(* the index of the architecture map, takes the modules and dependencies it*)
(* lists, gives each module a depth by a search that remembers what it has *)
(* found and does not descend twice, and places the modules in columns     *)
(* (src/lib/artifact-viewer/server.ts).  Modules of a program may depend on*)
(* each other in circles.                                                  *)
(*                                                                         *)
(* A module is a number, in the order of names.  Left out: the other pages,*)
(* which only render what they read, paths of requests, HTML.              *)
(***************************************************************************)
EXTENDS Integers, Sequences, FiniteSets, FiniteSetsExt

CONSTANT Module

ViewAssumption == Module \subseteq Nat /\ IsFiniteSet(Module)

VARIABLES
  index,   \* index.md
  page,    \* "asked", "searching", "placing", "drawn" or "empty"
  modules, \* the modules it lists, with their dependencies
  stack,   \* of depthFor: the module, its dependencies that are left, the deepest so far
  depths,  \* what is found
  places   \* module -> its column and row
vars == <<index, page, modules, stack, depths, places>>

Nothing == [m \in {} |-> 0]
Known == DOMAIN modules

------------------------------------------------------------------------------
\* parseModuleGraph: the modules of the overview, each with what its line names.
Listed == index.of

\* renderArchitectureIndexRoute: a graph without modules is a page with nothing to place.
Load ==
  /\ page = "asked"
  /\ page' = IF index.kind = "missing" THEN "empty"
             ELSE IF Listed = Nothing THEN "drawn" ELSE "searching"
  /\ modules' = IF index.kind = "missing" THEN Nothing ELSE Listed
  /\ UNCHANGED <<index, stack, depths, places>>

Frame(m) == [module |-> m, left |-> modules[m] \cap Known, deepest |-> 0]
Top == stack[Len(stack)]
Visiting == {stack[k].module : k \in DOMAIN stack}
Found(d) == d \in DOMAIN depths
Pop == SubSeq(stack, 1, Len(stack) - 1)
Larger(a, b) == IF a < b THEN b ELSE a
With(frames, depth) ==
  IF frames = <<>> THEN frames
  ELSE [frames EXCEPT ![Len(frames)].deepest = Larger(@, depth + 1)]

\* The loop of moduleDepths, over the modules in their order.
Begin(m) ==
  /\ page = "searching" /\ stack = <<>>
  /\ m \in Known /\ ~Found(m) /\ \A o \in Known : o < m => Found(o)
  /\ stack' = <<Frame(m)>>
  /\ UNCHANGED <<index, page, modules, depths, places>>

\* depthFor of a dependency, in an order that is not that of the modules; it needs no search
\* where its depth is found, or 0 as it is being visited.
DepthAtOnce(d) == IF Found(d) THEN depths[d] ELSE IF d \in Visiting THEN 0 ELSE -1

Descend(d) ==
  /\ stack # <<>> /\ d \in Top.left
  /\ LET rest == [stack EXCEPT ![Len(stack)].left = @ \ {d}]
     IN stack' = IF DepthAtOnce(d) # -1 THEN With(rest, DepthAtOnce(d)) ELSE Append(rest, Frame(d))
  /\ UNCHANGED <<index, page, modules, depths, places>>

Return ==
  /\ stack # <<>> /\ Top.left = {}
  /\ depths' = [m \in DOMAIN depths \cup {Top.module} |->
                  IF m = Top.module THEN Top.deepest ELSE depths[m]]
  /\ stack' = With(Pop, Top.deepest)
  /\ UNCHANGED <<index, page, modules, places>>

\* groupModulesByDepth
Column(d) == {m \in Known : depths[m] = d}
Columns == {depths[m] : m \in Known}
Group ==
  /\ page = "searching" /\ stack = <<>> /\ \A m \in Known : Found(m)
  /\ page' = "placing"
  /\ UNCHANGED <<index, modules, stack, depths, places>>

\* renderModuleGraph
Place ==
  /\ page = "placing" /\ page' = "drawn"
  /\ places' = [m \in Known |-> [x |-> 20 + depths[m] * 220,
                                 y |-> 20 + 96 * Cardinality({o \in Column(depths[m]) : o < m})]]
  /\ UNCHANGED <<index, modules, stack, depths>>

Edges == UNION {{<<m, d>> : d \in modules[m] \cap Known} : m \in Known}
Width == Larger(Cardinality(Columns) * 220 + 40, 420)
Height == Larger(Max({Cardinality(Column(d)) : d \in Columns}) * 96 + 40, 140)

\* The files: none, or one with an overview of the modules; a module is not its own dependency.
Init ==
  /\ \/ index = [kind |-> "missing", of |-> Nothing]
     \/ \E S \in SUBSET Module : \E o \in [S -> SUBSET Module] :
          (\A m \in S : m \notin o[m]) /\ index = [kind |-> "overview", of |-> o]
  /\ page = "asked" /\ modules = Nothing /\ stack = <<>>
  /\ depths = Nothing /\ places = Nothing

Next == Load \/ Group \/ Place \/ Return \/ \E m \in Module : Begin(m) \/ Descend(m)

Spec == Init /\ [][Next]_vars

------------------------------------------------------------------------------
TypeOK ==
  /\ index.kind \in {"missing", "overview"} /\ DOMAIN index.of \subseteq Module
  /\ page \in {"asked", "searching", "placing", "drawn", "empty"}
  /\ Known \subseteq Module /\ DOMAIN depths \subseteq Known
  /\ \A k \in DOMAIN stack : stack[k].module \in Known /\ stack[k].left \subseteq Known

\* The modules that m depends on, over any number of others.
Reach(m) ==
  LET Step(S) == S \cup UNION {modules[o] \cap Known : o \in S}
      R[n \in 0 .. Cardinality(Known)] == IF n = 0 THEN modules[m] \cap Known ELSE Step(R[n - 1])
  IN R[Cardinality(Known)]
InCircle(m) == m \in Reach(m)

(* The search ends: no module is on the stack twice.                       *)
VisitedOnce == Cardinality(Visiting) = Len(stack)

(* An arrow leads to a column further left, unless it is of a circle.      *)
ArrowsLeadLeft ==
  page = "drawn" => \A e \in Edges : places[e[2]].x < places[e[1]].x \/ e[1] \in Reach(e[2])

(* Where no circle is in reach the depth is the length of the longest      *)
(* chain of dependencies, whichever module the search began with.          *)
DepthIsLongestChain ==
  page = "drawn" => \A m \in Known :
    (\A o \in Reach(m) \cup {m} : ~InCircle(o)) =>
      depths[m] = Max({0} \cup {depths[d] + 1 : d \in modules[m] \cap Known})

(* No two modules are drawn over each other, and without circles all of    *)
(* them are inside of the drawing.                                         *)
DrawnApart ==
  page = "drawn" =>
    /\ \A m, o \in Known : m # o => places[m] # places[o]
    /\ (\A m \in Known : ~InCircle(m)) =>
         \A m \in Known : places[m].x + 170 <= Width /\ places[m].y + 48 <= Height
==============================================================================
