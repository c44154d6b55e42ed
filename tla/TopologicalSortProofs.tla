----------------------- MODULE TopologicalSortProofs -----------------------
(***************************************************************************)
(* TopologicalSort lists every name once and after its dependencies, and   *)
(* reports a cycle exactly when there is one, for every graph and every    *)
(* order in which the search takes roots and dependencies.                 *)
(***************************************************************************)
EXTENDS TopologicalSort, SequenceTheorems, WellFoundedInduction, TLAPS

SortType ==
  /\ graph \in Graphs
  /\ stack \in Seq(Frames)
  /\ tempMark \in SUBSET Names /\ visited \in SUBSET Names
  /\ result \in Seq(Names)
  /\ outcome \in {"idle", "sorting", "sorted", "cycle"}

(* The names of the calls under way, each called for a dependency of the    *)
(* one before it, are those with a temporary mark.                          *)
PathInv ==
  /\ \A k \in 1 .. Top - 1 : stack[k + 1].name \in Dependencies(stack[k].name)
  /\ \A j, k \in 1 .. Top : stack[j].name = stack[k].name => j = k
  /\ tempMark = {stack[k].name : k \in 1 .. Top}

(* A dependency of a call is still to come or visited.                      *)
LoopInv ==
  \A k \in 1 .. Top :
    /\ stack[k].todo \subseteq Dependencies(stack[k].name)
    /\ Dependencies(stack[k].name) \subseteq stack[k].todo \cup visited
    /\ stack[k].name \notin visited

ListInv ==
  /\ visited = {result[i] : i \in 1 .. Len(result)}
  /\ ListedInOrder

SortInv ==
  /\ SortType /\ PathInv /\ LoopInv /\ ListInv
  /\ outcome = "cycle" => HasCycle
  /\ outcome = "sorted" => DOMAIN graph \subseteq visited

LEMMA DependenciesType ==
  ASSUME SortType, NEW name
  PROVE  Dependencies(name) \in SUBSET Names
  BY DEF SortType, Graphs, Dependencies

LEMMA StackType ==
  ASSUME SortType
  PROVE  /\ Top \in Nat /\ DOMAIN stack = 1 .. Top
         /\ \A k \in 1 .. Top : stack[k] \in Frames
         /\ Len(result) \in Nat /\ DOMAIN result = 1 .. Len(result)
         /\ stack # <<>> => Top \in 1 .. Top
  BY ElementOfSeq, LenProperties, EmptySeq DEF SortType, Top

(* A cycle is found when a dependency of the innermost call is under way:   *)
(* the calls from that one on wait for one another.                         *)
LEMMA MarkedDependencyIsCycle ==
  ASSUME SortInv, stack # <<>>, NEW dep \in stack[Top].todo, ~Unmarked(dep)
  PROVE  HasCycle
<1>1. PICK k \in 1 .. Top : stack[k].name = dep
  BY DEF Unmarked, SortInv, PathInv
<1> DEFINE S == {stack[j].name : j \in k .. Top}
<1>2. \A j \in k .. Top : j \in 1 .. Top /\ stack[j].name \in S
  BY <1>1, StackType DEF SortInv
<1>3. S \in (SUBSET Names) \ {{}}
  <2>1. \A j \in 1 .. Top : stack[j].name \in Names
    BY StackType DEF SortInv, Frames
  <2>2. k \in k .. Top
    BY <1>1, StackType DEF SortInv
  <2> QED
    BY <1>2, <2>1, <2>2
<1>4. ASSUME NEW j \in k .. Top
      PROVE  \E name \in S : name \in Dependencies(stack[j].name)
  <2>1. CASE j = Top
    <3>1. dep \in S
      BY <1>1, <1>2, <2>1, StackType DEF SortInv
    <3>2. dep \in Dependencies(stack[Top].name)
      BY StackType DEF SortInv, LoopInv
    <3> QED
      BY <2>1, <3>1, <3>2
  <2>2. CASE j # Top
    <3>1. j + 1 \in k .. Top /\ j \in 1 .. Top - 1
      BY <1>1, <2>2, StackType DEF SortInv
    <3>2. stack[j + 1].name \in Dependencies(stack[j].name)
      BY <3>1 DEF SortInv, PathInv
    <3>3. stack[j + 1].name \in S
      BY <1>2, <3>1
    <3> QED
      BY <3>2, <3>3
  <2> QED
    BY <2>1, <2>2
<1>5. \A name \in S : Dependencies(name) \cap S # {}
  BY <1>4
<1> QED
  BY <1>3, <1>5 DEF HasCycle

(* The first name listed among names that wait for one another would come   *)
(* before its dependencies.                                                 *)
LEMMA ListedMeansAcyclic ==
  ASSUME SortInv, DOMAIN graph \subseteq visited
  PROVE  ~HasCycle
<1> SUFFICES ASSUME NEW S \in (SUBSET Names) \ {{}},
                    \A name \in S : Dependencies(name) \cap S # {}
             PROVE  FALSE
  BY DEF HasCycle
<1> DEFINE places == {i \in 1 .. Len(result) : result[i] \in S}
<1>2. S \subseteq visited
  BY DEF Dependencies
<1>3. places \in SUBSET Nat /\ places # {}
  BY <1>2, StackType DEF SortInv, ListInv
<1>4. PICK i \in places : \A j \in places : ~(j < i)
  <2>1. \E i \in places : \A j \in places : ~(<<j, i>> \in OpToRel(<, Nat))
    BY <1>3, WFMin, NatLessThanWellFounded
  <2> QED
    BY <1>3, <2>1 DEF OpToRel
<1>5. PICK dep \in S : dep \in Dependencies(result[i])
  <2>1. result[i] \in S
    OBVIOUS
  <2> QED
    BY <2>1
<1>6. PICK j \in 1 .. i - 1 : result[j] = dep
  BY <1>5, StackType DEF SortInv, ListInv, ListedInOrder
<1>7. j \in places /\ j < i
  BY <1>6, StackType DEF SortInv
<1> QED
  BY <1>4, <1>7, StackType DEF SortInv
----------------------------------------------------------------------------
(* The steps of the search preserve the invariant.                          *)

LEMMA SameGraph ==
  ASSUME UNCHANGED graph
  PROVE  /\ \A name : Dependencies(name)' = Dependencies(name)
         /\ HasCycle' = HasCycle
  BY DEF Dependencies, HasCycle

LEMMA EnterInv ==
  ASSUME SortInv, NEW name \in Names, name \notin tempMark, name \notin visited,
         outcome = "sorting", UNCHANGED <<graph, outcome>>, Enter(name),
         stack # <<>> => name \in Dependencies(stack[Top].name)
  PROVE  SortInv'
<1> DEFINE frame == [name |-> name, todo |-> Dependencies(name)]
<1>1. frame \in Frames /\ frame.name = name /\ frame.todo = Dependencies(name)
  BY DependenciesType DEF SortInv, Frames
<1>2. /\ stack' \in Seq(Frames) /\ Top' = Top + 1
      /\ \A k \in 1 .. Top : stack'[k] = stack[k]
      /\ stack'[Top + 1] = frame
  BY <1>1, AppendProperties DEF Enter, SortInv, SortType, Top
<1>3. Top \in Nat /\ (Top # 0 => stack # <<>>)
  BY StackType, EmptySeq DEF SortInv, Top
<1>4. \A k \in 1 .. Top' : k \in 1 .. Top \/ k = Top + 1
  BY <1>2, <1>3
<1>5. SortType'
  BY <1>2 DEF Enter, SortInv, SortType
<1>6. PathInv'
  <2>1. tempMark' = {stack'[k].name : k \in 1 .. Top'}
    BY <1>1, <1>2, <1>3, <1>4 DEF Enter, SortInv, PathInv
  <2>2. \A j, k \in 1 .. Top' : stack'[j].name = stack'[k].name => j = k
    BY <1>1, <1>2, <1>3, <1>4 DEF SortInv, PathInv
  <2>3. ASSUME NEW k \in 1 .. Top' - 1
        PROVE  stack'[k + 1].name \in Dependencies(stack'[k].name)
    <3>1. k \in 1 .. Top /\ (k = Top \/ k \in 1 .. Top - 1)
      BY <1>2, <1>3
    <3> QED
      BY <1>1, <1>2, <1>3, <3>1 DEF SortInv, PathInv
  <2> QED
    BY <2>1, <2>2, <2>3, SameGraph DEF PathInv
<1>7. LoopInv'
  <2>1. ASSUME NEW k \in 1 .. Top'
        PROVE  /\ stack'[k].todo \subseteq Dependencies(stack'[k].name)
               /\ Dependencies(stack'[k].name) \subseteq stack'[k].todo \cup visited
               /\ stack'[k].name \notin visited
    BY <1>1, <1>2, <1>4 DEF SortInv, LoopInv
  <2> QED
    BY <2>1, SameGraph DEF LoopInv, Enter
<1>8. ListInv'
  BY SameGraph DEF SortInv, ListInv, ListedInOrder, Enter
<1> QED
  BY <1>5, <1>6, <1>7, <1>8 DEF SortInv

LEMMA SkipInv ==
  ASSUME SortInv, stack # <<>>, NEW dep \in stack[Top].todo, SkipVisited(dep),
         outcome = "sorting", UNCHANGED graph
  PROVE  SortInv'
<1> DEFINE frame == [stack[Top] EXCEPT !.todo = @ \ {dep}]
<1>1. Top \in 1 .. Len(stack) /\ Top \in Nat /\ stack[Top] \in Frames
  BY StackType DEF SortInv, Top
<1>2. /\ frame \in Frames /\ frame.name = stack[Top].name
      /\ frame.todo = stack[Top].todo \ {dep}
  BY <1>1 DEF Frames
<1>3. stack' = [stack EXCEPT ![Top] = frame]
  BY <1>1 DEF SkipVisited
<1>4. /\ stack' \in Seq(Frames) /\ Top' = Top
      /\ \A k \in 1 .. Top : stack'[k] = IF k = Top THEN frame ELSE stack[k]
  BY <1>1, <1>2, <1>3, ExceptSeq DEF SortInv, SortType, Top
<1>5. \A k \in 1 .. Top : stack'[k].name = stack[k].name
  BY <1>2, <1>4
<1>6. SortType'
  BY <1>4 DEF SkipVisited, SortInv, SortType
<1>7. PathInv'
  BY <1>1, <1>4, <1>5, SameGraph DEF SkipVisited, SortInv, PathInv
<1>8. LoopInv'
  <2>1. ASSUME NEW k \in 1 .. Top
        PROVE  /\ stack'[k].todo \subseteq Dependencies(stack[k].name)
               /\ Dependencies(stack[k].name) \subseteq stack'[k].todo \cup visited
    BY <1>1, <1>2, <1>4 DEF SkipVisited, SortInv, LoopInv
  <2> QED
    BY <1>4, <1>5, <2>1, SameGraph DEF LoopInv, SkipVisited, SortInv
<1>9. ListInv'
  BY SameGraph DEF SortInv, ListInv, ListedInOrder, SkipVisited
<1> QED
  BY <1>6, <1>7, <1>8, <1>9 DEF SortInv, SkipVisited

LEMMA LeaveInv ==
  ASSUME SortInv, Leave
  PROVE  SortInv'
<1> DEFINE name == stack[Top].name
<1>1. Top \in 1 .. Top /\ Top \in Nat /\ name \in Names /\ Top = Len(stack)
  BY StackType DEF SortInv, Leave, Frames, Top
<1>2. /\ stack' \in Seq(Frames) /\ Top' = Top - 1
      /\ \A k \in 1 .. Top - 1 : stack'[k] = stack[k]
  <2>1. \A k \in 1 .. Top - 1 : stack[k] \in Frames
    BY <1>1, StackType DEF SortInv
  <2>2. stack' = SubSeq(stack, 1, Top - 1)
    BY DEF Leave
  <2>3. /\ SubSeq(stack, 1, Top - 1) \in Seq(Frames)
        /\ Len(SubSeq(stack, 1, Top - 1)) = IF 1 <= Top - 1 THEN Top - 1 - 1 + 1 ELSE 0
        /\ \A k \in 1 .. Top - 1 - 1 + 1 :
             SubSeq(stack, 1, Top - 1)[k] = stack[1 + k - 1]
    BY <1>1, <2>1, SubSeqProperties
  <2>4. Top' = Len(stack')
    BY DEF Top
  <2>5. \A k \in 1 .. Top - 1 : k \in 1 .. Top - 1 - 1 + 1 /\ 1 + k - 1 = k
    BY <1>1
  <2> QED
    BY <1>1, <2>2, <2>3, <2>4, <2>5
<1>3. /\ result' \in Seq(Names) /\ Len(result') = Len(result) + 1
      /\ Len(result) \in Nat
      /\ \A i \in 1 .. Len(result) : result'[i] = result[i]
      /\ result'[Len(result) + 1] = name
  BY <1>1, AppendProperties, LenProperties DEF Leave, MarkVisited, SortInv, SortType
<1>4. SortType'
  BY <1>1, <1>2, <1>3 DEF Leave, MarkVisited, SortInv, SortType
<1>5. \A k \in 1 .. Top - 1 : stack[k].name # name
  BY <1>1 DEF SortInv, PathInv
<1>6. PathInv'
  <2>1. \A k \in 1 .. Top : k \in 1 .. Top - 1 \/ k = Top
    BY <1>1
  <2>2. tempMark' = {stack'[k].name : k \in 1 .. Top'}
    BY <1>1, <1>2, <1>5, <2>1 DEF Leave, MarkVisited, SortInv, PathInv
  <2>3. \A k \in 1 .. Top' - 1 : stack'[k + 1].name \in Dependencies(stack'[k].name)
    BY <1>1, <1>2 DEF SortInv, PathInv
  <2>4. \A j, k \in 1 .. Top' : stack'[j].name = stack'[k].name => j = k
    BY <1>1, <1>2 DEF SortInv, PathInv
  <2>5. UNCHANGED graph
    BY DEF Leave
  <2> QED
    BY <2>2, <2>3, <2>4, <2>5, SameGraph DEF PathInv
<1>7. LoopInv'
  BY <1>1, <1>2, <1>5, SameGraph DEF Leave, MarkVisited, SortInv, LoopInv
<1>8. ListInv'
  <2>1. \A i \in 1 .. Len(result') : i \in 1 .. Len(result) \/ i = Len(result) + 1
    BY <1>3
  <2>2. visited' = {result'[i] : i \in 1 .. Len(result')}
    BY <1>3, <2>1 DEF Leave, MarkVisited, SortInv, ListInv
  <2>3. DOMAIN result = 1 .. Len(result) /\ DOMAIN result' = 1 .. Len(result')
    BY <1>3, LenProperties DEF SortInv, SortType
  <2>4. name \notin visited /\ Dependencies(name) \subseteq visited
    BY <1>1 DEF Leave, SortInv, LoopInv
  <2>5. \A i, j \in DOMAIN result' : result'[i] = result'[j] => i = j
    BY <1>3, <2>1, <2>3, <2>4 DEF SortInv, ListInv, ListedInOrder
  <2>6. ASSUME NEW i \in DOMAIN result', NEW dep \in Dependencies(result'[i])
        PROVE  \E j \in 1 .. i - 1 : result'[j] = dep
    <3>1. CASE i \in 1 .. Len(result)
      <4>1. PICK j \in 1 .. i - 1 : result[j] = dep
        BY <1>3, <2>3, <3>1 DEF SortInv, ListInv, ListedInOrder
      <4> QED
        BY <1>3, <3>1, <4>1
    <3>2. CASE i = Len(result) + 1
      <4>1. PICK j \in 1 .. Len(result) : result[j] = dep
        BY <1>3, <2>4, <3>2 DEF SortInv, ListInv
      <4> QED
        BY <1>3, <3>2, <4>1
    <3> QED
      BY <2>1, <2>3, <3>1, <3>2
  <2> QED
    BY <2>2, <2>5, <2>6, SameGraph DEF ListInv, ListedInOrder, Leave
<1> QED
  BY <1>4, <1>6, <1>7, <1>8 DEF SortInv, Leave

LEMMA EmptySortInv ==
  ASSUME graph \in Graphs, stack = <<>>, tempMark = {}, visited = {}, result = <<>>,
         outcome \in {"idle", "sorting"}
  PROVE  SortInv
<1>1. SortType
  BY EmptySeq DEF SortType
<1>2. Top = 0 /\ Len(result) = 0 /\ DOMAIN result = {}
  BY EmptySeq DEF Top
<1> QED
  BY <1>1, <1>2 DEF SortInv, PathInv, LoopInv, ListInv, ListedInOrder

LEMMA NewSortInv ==
  ASSUME graph' \in Graphs, stack' = <<>>, tempMark' = {}, visited' = {},
         result' = <<>>, outcome' \in {"idle", "sorting"}
  PROVE  SortInv'
<1>1. SortType'
  BY EmptySeq DEF SortType
<1>2. Top' = 0 /\ Len(result') = 0 /\ DOMAIN result' = {}
  BY EmptySeq DEF Top
<1> QED
  BY <1>1, <1>2 DEF SortInv, PathInv, LoopInv, ListInv, ListedInOrder

LEMMA EmptyGraph == <<>> \in Graphs
  BY DEF Graphs

LEMMA VisitRootInv ==
  ASSUME SortInv, VisitRoot
  PROVE  SortInv'
<1>1. PICK name \in DOMAIN graph \ visited : Enter(name)
  BY DEF VisitRoot
<1>2. name \in Names /\ tempMark = {}
  BY EmptySeq DEF VisitRoot, SortInv, SortType, Graphs, PathInv, Top
<1> QED
  BY <1>1, <1>2, EnterInv DEF VisitRoot

LEMMA VisitDependencyInv ==
  ASSUME SortInv, VisitDependency
  PROVE  SortInv'
<1>1. PICK dep \in stack[Top].todo : FindCycle(dep) \/ SkipVisited(dep) \/ Descend(dep)
  BY DEF VisitDependency
<1>2. /\ outcome = "sorting" /\ stack # <<>> /\ UNCHANGED graph
  BY DEF VisitDependency
<1>3. CASE FindCycle(dep)
  <2>1. HasCycle
    BY <1>2, <1>3, MarkedDependencyIsCycle DEF FindCycle
  <2>2. UNCHANGED <<stack, tempMark, visited, result>> /\ outcome' = "cycle"
    BY <1>3 DEF FindCycle, search
  <2>3. SortType' /\ PathInv' /\ LoopInv' /\ ListInv'
    BY <1>2, <2>2, SameGraph
       DEF SortInv, SortType, PathInv, LoopInv, ListInv, ListedInOrder, Top
  <2> QED
    BY <1>2, <2>1, <2>2, <2>3, SameGraph DEF SortInv
<1>4. CASE SkipVisited(dep)
  BY <1>2, <1>4, SkipInv
<1>5. CASE Descend(dep)
  <2>1. dep \in Dependencies(stack[Top].name)
    BY <1>2, StackType DEF SortInv, LoopInv
  <2>2. dep \in Names
    BY <2>1, DependenciesType DEF SortInv
  <2> QED
    BY <1>2, <1>5, <2>1, <2>2, EnterInv DEF Descend, Unmarked
<1> QED
  BY <1>1, <1>3, <1>4, <1>5

LEMMA ReturnInv ==
  ASSUME SortInv, Return
  PROVE  SortInv'
<1>1. UNCHANGED <<graph, stack, tempMark, visited, result>> /\ outcome' = "sorted"
  BY DEF Return, search
<1>2. SortType' /\ PathInv' /\ LoopInv' /\ ListInv'
  BY <1>1, SameGraph
     DEF SortInv, SortType, PathInv, LoopInv, ListInv, ListedInOrder, Top
<1> QED
  BY <1>1, <1>2 DEF SortInv, Return

LEMMA SortStepInv ==
  ASSUME SortInv, [SortNext]_sortVars
  PROVE  SortInv'
<1>1. ASSUME NEW g \in Graphs, StartSort(g)
      PROVE  SortInv'
  BY <1>1, NewSortInv DEF StartSort
<1>2. CASE Discard
  BY <1>2, EmptyGraph, NewSortInv DEF Discard
<1>3. CASE UNCHANGED sortVars
  <2>1. UNCHANGED <<graph, stack, tempMark, visited, result, outcome>>
    BY <1>3 DEF sortVars, search
  <2>2. SortType' /\ PathInv' /\ LoopInv' /\ ListInv'
    BY <2>1, SameGraph
       DEF SortInv, SortType, PathInv, LoopInv, ListInv, ListedInOrder, Top
  <2> QED
    BY <2>1, <2>2, SameGraph DEF SortInv
<1> QED
  BY <1>1, <1>2, <1>3, VisitRootInv, VisitDependencyInv, LeaveInv, ReturnInv
     DEF SortNext, Sort

(* Graph.TopologicalSort lists every step once and after its dependencies,  *)
(* fails exactly when the dependencies are cyclic, and leaves no step out,  *)
(* whatever the graph and in whatever order the map gives its nodes.        *)
THEOREM SortIsCorrect == SortSpec => [](ListedInOrder /\ VerdictIsRight)
<1>1. SortInit => SortInv
  BY EmptyGraph, EmptySortInv DEF SortInit
<1>2. SortInv /\ [SortNext]_sortVars => SortInv'
  BY SortStepInv
<1>3. SortInv => ListedInOrder /\ VerdictIsRight
  <2>1. ASSUME SortInv, outcome = "sorted"
        PROVE  ~HasCycle
    BY <2>1, ListedMeansAcyclic DEF SortInv
  <2>2. ASSUME SortInv, outcome = "sorted", NEW name \in DOMAIN graph
        PROVE  \E i \in DOMAIN result : result[i] = name
    BY <2>2, StackType DEF SortInv, ListInv
  <2> QED
    BY <2>1, <2>2 DEF SortInv, ListInv, VerdictIsRight
<1> QED
  BY <1>1, <1>2, <1>3, PTL DEF SortSpec
=============================================================================
