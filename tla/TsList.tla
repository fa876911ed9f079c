-------------------------------- MODULE TsList --------------------------------
(***************************************************************************)
(* The intrusive stacks of Tier 0 (tslist_t).  Each list has a mutex of    *)
(* its own, so two lists work at the same time on the nodes they share; an *)
(* atomic owner in the node decides which list may link it.  Threads hold  *)
(* a list's mutex from the first step of an operation to the last, and     *)
(* a step is what the other list can see between two of them.              *)
(***************************************************************************)
EXTENDS Naturals, FiniteSets, SequencesExt

CONSTANTS Lists, Nodes, NoList, NoNode

ASSUME TsListAssumption ==
  /\ NoList \notin Lists /\ NoNode \notin Nodes
  /\ IsFiniteSet(Nodes)

VARIABLES
  listOpen, pHead, nNodes,   \* of each list: isInitialized, pHead, nCount
  pNext, pOwner,             \* of each node
  task,                      \* of each list: what the thread that holds its mutex does
  stack                      \* history, of each list: what was pushed and not popped

lvars == <<listOpen, pHead, nNodes, pNext, pOwner, task, stack>>

Engaged(step, node) == [step |-> step, node |-> node]

Unlocked == Engaged("unlocked", NoNode)

Free(l) == task[l] = Unlocked

Cy_TsListInit(l) ==
  /\ Free(l) /\ ~listOpen[l] /\ pHead[l] = NoNode /\ nNodes[l] = 0
  /\ listOpen' = [listOpen EXCEPT ![l] = TRUE]
  /\ UNCHANGED <<pHead, nNodes, pNext, pOwner, task, stack>>

Cy_TsListShutdown(l) ==
  /\ Free(l) /\ listOpen[l] /\ pHead[l] = NoNode /\ nNodes[l] = 0
  /\ listOpen' = [listOpen EXCEPT ![l] = FALSE]
  /\ UNCHANGED <<pHead, nNodes, pNext, pOwner, task, stack>>

\* Push claims the node before it touches a link, and links it under the mutex.
Claims(l, n) == pOwner[n] = NoList

PushClaims(l, n) ==
  /\ Free(l) /\ listOpen[l]
  /\ Claims(l, n)
  /\ pOwner' = [pOwner EXCEPT ![n] = l]
  /\ task' = [task EXCEPT ![l] = Engaged("link", n)]
  /\ UNCHANGED <<listOpen, pHead, nNodes, pNext, stack>>

PushSetsNext(l) ==
  /\ task[l].step = "link"
  /\ pNext' = [pNext EXCEPT ![task[l].node] = pHead[l]]
  /\ task' = [task EXCEPT ![l] = Engaged("publish", task[l].node)]
  /\ UNCHANGED <<listOpen, pHead, nNodes, pOwner, stack>>

PushEnds(l) ==
  /\ task[l].step = "publish"
  /\ pHead' = [pHead EXCEPT ![l] = task[l].node]
  /\ nNodes' = [nNodes EXCEPT ![l] = @ + 1]
  /\ stack' = [stack EXCEPT ![l] = Append(@, task[l].node)]
  /\ task' = [task EXCEPT ![l] = Unlocked]
  /\ UNCHANGED <<listOpen, pNext, pOwner>>

\* Pop takes the head, clears its link, and only then gives the node up.
PopTakes(l) ==
  /\ Free(l) /\ listOpen[l] /\ pHead[l] # NoNode
  /\ task' = [task EXCEPT ![l] = Engaged("clear", pHead[l])]
  /\ pHead' = [pHead EXCEPT ![l] = pNext[@]]
  /\ stack' = [stack EXCEPT ![l] = Front(@)]
  /\ UNCHANGED <<listOpen, nNodes, pNext, pOwner>>

OwnerGivenUp(l, step) == step = "clear"

OwnerGoes(l, step) == step = "release"

PopGoesOn(l) ==
  LET step == task[l].step
      n == task[l].node
  IN  /\ step \in {"clear", "release"}
      /\ IF OwnerGoes(l, step)
         THEN pOwner' = [pOwner EXCEPT ![n] = NoList] /\ UNCHANGED pNext
         ELSE pNext' = [pNext EXCEPT ![n] = NoNode] /\ UNCHANGED pOwner
      /\ IF step = "clear"
         THEN task' = [task EXCEPT ![l] = Engaged("release", n)] /\ UNCHANGED nNodes
         ELSE /\ task' = [task EXCEPT ![l] = Unlocked]
              /\ nNodes' = [nNodes EXCEPT ![l] = @ - 1]
      /\ UNCHANGED <<listOpen, pHead, stack>>

LInit ==
  /\ listOpen = [l \in Lists |-> FALSE]
  /\ pHead = [l \in Lists |-> NoNode]
  /\ nNodes = [l \in Lists |-> 0]
  /\ pNext = [n \in Nodes |-> NoNode]
  /\ pOwner = [n \in Nodes |-> NoList]
  /\ task = [l \in Lists |-> Unlocked]
  /\ stack = [l \in Lists |-> <<>>]

LNext ==
  \E l \in Lists :
    \/ Cy_TsListInit(l) \/ Cy_TsListShutdown(l)
    \/ \E n \in Nodes : PushClaims(l, n)
    \/ PushSetsNext(l) \/ PushEnds(l)
    \/ PopTakes(l) \/ PopGoesOn(l)

LSpec == LInit /\ [][LNext]_lvars
-------------------------------------------------------------------------------
LTypeOK ==
  /\ listOpen \in [Lists -> BOOLEAN] /\ nNodes \in [Lists -> Nat]
  /\ pHead \in [Lists -> Nodes \cup {NoNode}] /\ pNext \in [Nodes -> Nodes \cup {NoNode}]
  /\ pOwner \in [Nodes -> Lists \cup {NoList}]
  /\ task \in [Lists -> [step : {"unlocked", "link", "publish", "clear", "release"},
                        node : Nodes \cup {NoNode}]]
  /\ stack \in [Lists -> Seq(Nodes)]

\* The node below a place of a stack, which the last place does not have.
Below(l, i) == IF i > 1 THEN stack[l][i - 1] ELSE NoNode

\* What is reachable from a list's head is, from the top, what was pushed onto it and
\* not popped, each node once: also while a push or a pop is half done, which is when
\* the other lists look.
ListsAreStacks ==
  \A l \in Lists :
    /\ pHead[l] = Below(l, Len(stack[l]) + 1)
    /\ \A i \in DOMAIN stack[l] : pNext[stack[l][i]] = Below(l, i)
    /\ IsInjective(stack[l])

\* A list whose mutex is free counts its nodes and owns exactly those it links.
ListsAreWhole ==
  \A l \in Lists : Free(l) =>
    /\ ToSet(stack[l]) = {n \in Nodes : pOwner[n] = l}
    /\ nNodes[l] = Len(stack[l])

\* No node is reachable from two lists, even while both are being changed, and a
\* node that nobody owns is reachable from none and keeps no link to an old list.
NodesHaveOneList ==
  /\ \A l1, l2 \in Lists : l1 # l2 => ToSet(stack[l1]) \cap ToSet(stack[l2]) = {}
  /\ \A n \in Nodes : pOwner[n] = NoList =>
       pNext[n] = NoNode /\ \A l \in Lists : n \notin ToSet(stack[l])

\* Lists and nodes agree on who links whom.
NodesAccountedFor == ListsAreStacks /\ ListsAreWhole /\ NodesHaveOneList
===============================================================================
