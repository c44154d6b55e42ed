-------------------------- MODULE TopologicalSort --------------------------
(***************************************************************************)
(* Graph.TopologicalSort (pkg/controller/dag/dag.go): a depth-first search *)
(* that lists every step after the steps it depends on.                    *)
(*                                                                         *)
(* The recursion of the closure visit is the sequence stack, innermost     *)
(* call last; each frame has the dependencies its loop has still to go     *)
(* through.  The roots come in any order, as from a Go map, and so do the  *)
(* dependencies of a node, which covers every order of the list.           *)
(***************************************************************************)
EXTENDS Naturals, Sequences

CONSTANT Names        \* the names of steps, "" and unknown ones included

VARIABLES
  graph,      \* graph[name]: the dependencies of the node of that name
  stack,      \* the calls of visit that have not returned
  tempMark,   \* the names with tempMark[name]
  visited,    \* the names with visited[name]
  result,     \* the names in the order in which they were left
  outcome     \* "idle", "sorting", "sorted" or "cycle"

search   == <<stack, tempMark, visited, result>>
sortVars == <<graph, search, outcome>>

Graphs == UNION {[nodes -> SUBSET Names] : nodes \in SUBSET Names}
Frames == [name : Names, todo : SUBSET Names]

(* A name without a node is visited too, and has no dependencies.           *)
Dependencies(name) == IF name \in DOMAIN graph THEN graph[name] ELSE {}

SortInit ==
  /\ graph = <<>> /\ stack = <<>> /\ tempMark = {} /\ visited = {}
  /\ result = <<>> /\ outcome = "idle"

StartSort(g) ==
  /\ graph' = g /\ stack' = <<>> /\ tempMark' = {} /\ visited' = {}
  /\ result' = <<>> /\ outcome' = "sorting"

(* The locals of the call are gone when it has returned.                    *)
Discard ==
  /\ graph' = <<>> /\ stack' = <<>> /\ tempMark' = {} /\ visited' = {}
  /\ result' = <<>> /\ outcome' = "idle"

Top == Len(stack)

Enter(name) ==
  /\ stack' = Append(stack, [name |-> name, todo |-> Dependencies(name)])
  /\ tempMark' = tempMark \cup {name}
  /\ UNCHANGED <<visited, result>>

VisitRoot ==
  /\ outcome = "sorting" /\ stack = <<>>
  /\ \E name \in DOMAIN graph \ visited : Enter(name)
  /\ UNCHANGED <<graph, outcome>>

(* The loop over the dependencies of the innermost call.                    *)
Unmarked(dep) == dep \notin tempMark

FindCycle(dep) ==
  /\ ~Unmarked(dep)
  /\ outcome' = "cycle" /\ UNCHANGED search

SkipVisited(dep) ==
  /\ Unmarked(dep) /\ dep \in visited
  /\ stack' = [stack EXCEPT ![Top].todo = @ \ {dep}]
  /\ UNCHANGED <<tempMark, visited, result, outcome>>

(* The caller's loop goes on after the dependency when the call returns,    *)
(* by when the dependency is visited.                                       *)
Descend(dep) ==
  /\ Unmarked(dep) /\ dep \notin visited
  /\ Enter(dep) /\ UNCHANGED outcome

VisitDependency ==
  /\ outcome = "sorting" /\ stack # <<>>
  /\ \E dep \in stack[Top].todo :
       FindCycle(dep) \/ SkipVisited(dep) \/ Descend(dep)
  /\ UNCHANGED graph

LeaveMarked(name) ==                                                    \* wrong
  /\ UNCHANGED tempMark
  /\ visited' = visited \cup {name} /\ result' = Append(result, name)

MarkVisited(name) ==
  /\ tempMark' = tempMark \ {name}
  /\ visited' = visited \cup {name} /\ result' = Append(result, name)

Leave ==
  /\ outcome = "sorting" /\ stack # <<>> /\ stack[Top].todo = {}
  /\ MarkVisited(stack[Top].name)
  /\ stack' = SubSeq(stack, 1, Top - 1)
  /\ UNCHANGED <<graph, outcome>>

Return ==
  /\ outcome = "sorting" /\ stack = <<>> /\ DOMAIN graph \subseteq visited
  /\ outcome' = "sorted"
  /\ UNCHANGED <<graph, search>>

Sort == VisitRoot \/ VisitDependency \/ Leave \/ Return

SortNext ==
  \/ outcome = "idle" /\ \E g \in Graphs : StartSort(g)
  \/ Sort
  \/ outcome \in {"sorted", "cycle"} /\ Discard
SortSpec == SortInit /\ [][SortNext]_sortVars

----------------------------------------------------------------------------
(* Some names wait for one another.                                         *)
HasCycle ==
  \E S \in (SUBSET Names) \ {{}} : \A name \in S : Dependencies(name) \cap S # {}

(* A name is listed once, and after everything it depends on.               *)
ListedInOrder ==
  /\ \A i, j \in DOMAIN result : result[i] = result[j] => i = j
  /\ \A i \in DOMAIN result : \A dep \in Dependencies(result[i]) :
       \E j \in 1 .. i - 1 : result[j] = dep

(* The sort fails exactly on the graphs with a cycle, and otherwise lists   *)
(* every node.                                                              *)
VerdictIsRight ==
  /\ outcome = "cycle" => HasCycle
  /\ outcome = "sorted" =>
       /\ ~HasCycle
       /\ \A name \in DOMAIN graph : \E i \in DOMAIN result : result[i] = name
=============================================================================
