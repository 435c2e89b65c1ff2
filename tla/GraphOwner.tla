------------------------------ MODULE GraphOwner ------------------------------
(***************************************************************************)
(* One owner of a MindGraph (the graph is "not thread-safe by itself")     *)
(* calls its methods in any order.  The history variables remember what    *)
(* the owner was told, to compare it with what the graph still knows: a    *)
(* fact is the sequence number of the node that add_node made for it.      *)
(* What a node carries here is the set of facts that it stands for and the *)
(* set of facts that it was made to depend on.                             *)
(***************************************************************************)
EXTENDS MindGraph

CONSTANTS
  GivenIds,       \* ids the owner makes up; those of the form "n<k>" are numbers
  Keys,           \* dedup keys
  MaxSeq,         \* bound: nodes made in a behaviour
  MaxLinks        \* bound: calls of link in a behaviour

ASSUME NamesAssumption == Nothing \notin GivenIds \cup Nat \cup Keys
ASSUME BoundAssumption == MaxSeq \in Nat /\ MaxLinks \in Nat

VARIABLES
  graph,
  added,          \* the facts that it was told
  forgotten,      \* the facts that the owner removed
  keyed,          \* the fact registered last under each key
  taken,          \* the ids that the owner ever made up
  links,          \* the calls of link, for the bound
  wellNamed       \* whether it never used one twice, nor one of the graph's form

vars == <<graph, added, forgotten, keyed, taken, links, wellNamed>>

Facts(id) == graph.nodes[id].carried.facts
Needs(id) == graph.nodes[id].carried.needs
FactsOf(ids) == UNION {Facts(id) : id \in ids}

Init ==
  /\ graph = EmptyGraph
  /\ added = {} /\ forgotten = {} /\ keyed = [k \in Keys |-> 0]
  /\ taken = {} /\ links = 0 /\ wellNamed = TRUE

Add(given, edges, key) ==
  /\ graph.seq <= MaxSeq /\ CanAdd(graph, given, edges)
  /\ graph' = AddNode(graph, given, edges, key,
                      [facts |-> {graph.seq}, needs |-> FactsOf(edges)])
  /\ added' = added \cup {graph.seq}
  /\ keyed' = IF key = Nothing THEN keyed ELSE [keyed EXCEPT ![key] = graph.seq]
  /\ taken' = taken \cup ({given} \ {Nothing})
  /\ wellNamed' = (wellNamed /\ given \notin taken \cup Nat)
  /\ UNCHANGED <<forgotten, links>>

LinkTo(id, target) ==
  /\ links < MaxLinks /\ links' = links + 1
  /\ graph' = [Link(graph, id, target) EXCEPT !.nodes[id].carried.needs = @ \cup Facts(target)]
  /\ UNCHANGED <<added, forgotten, keyed, taken, wellNamed>>

Forget(id) ==
  /\ graph' = RemoveNodes(graph, {id})
  /\ forgotten' = forgotten \cup Facts(id)
  /\ UNCHANGED <<added, keyed, taken, links, wellNamed>>

(* The summary of the folded nodes stands for all that they stood for.     *)
Fold(ids) ==
  /\ graph.seq <= MaxSeq
  /\ graph' = Collapse(graph, ids, [facts |-> FactsOf(ids), needs |-> {}])
  /\ UNCHANGED <<added, forgotten, keyed, taken, links, wellNamed>>

(* compact_oldest(n, summarize)                                            *)
CompactOldest(n) == Compacts(graph, n) /\ Fold(Oldest(graph, n))

Next ==
  \/ \E given \in GivenIds \cup {Nothing}, edges \in SUBSET Ids(graph), key \in Keys \cup {Nothing} :
       Add(given, edges, key)
  \/ \E id, target \in Ids(graph) : LinkTo(id, target)
  \/ \E id \in Ids(graph) : Forget(id)
  \/ \E ids \in SUBSET Ids(graph) \ {{}} : Fold(ids)
  \/ \E n \in 0 .. MaxSeq : CompactOldest(n)

Spec == Init /\ [][Next]_vars

-----------------------------------------------------------------------------
(* The graph and the histories have the right types.                       *)
TypeOK ==
  /\ Ids(graph) \subseteq Nat \cup GivenIds
  /\ graph.nodes \in [Ids(graph) -> [seq : 1 .. MaxSeq, edges : SUBSET (Nat \cup GivenIds),
                                     carried : [facts : SUBSET (1 .. MaxSeq), needs : SUBSET (1 .. MaxSeq)]]]
  /\ graph.seq \in 1 .. MaxSeq + 1 /\ graph.auto \in 1 .. graph.seq
  /\ DOMAIN graph.dedup \subseteq Keys
  /\ {added, forgotten} \subseteq SUBSET (1 .. MaxSeq) /\ keyed \in [Keys -> 0 .. MaxSeq]
  /\ taken \in SUBSET GivenIds /\ links \in 0 .. MaxLinks /\ wellNamed \in BOOLEAN

(* "No raw data is ever lost by summarizing it" (mindgraph.py:39-42),      *)
(* "already exists" (:160): whatever ids the owner makes up, the nodes     *)
(* stand for exactly the facts that were added and not removed.            *)
FactsKept == FactsOf(Ids(graph)) = added \ forgotten

(* mindgraph.py:39-42, and README.md "instead of either being kept forever *)
(* or silently dropped": whatever is folded, linked and removed, each fact *)
(* that was added and not removed is kept, by one node, as long as the     *)
(* owner leaves the graph's own ids alone.                                 *)
NothingLost ==
  wellNamed =>
    /\ FactsKept
    /\ \A id, other \in Ids(graph) : Facts(id) \cap Facts(other) # {} => id = other

(* mindgraph.py:204-211 and 241-246: what a node was made or linked to     *)
(* depend on is rendered next to it, however often it was folded since.    *)
DependenciesShown ==
  wellNamed =>
    \A id \in Ids(graph) :
      Needs(id) \subseteq forgotten \cup FactsOf(Neighborhood(graph, id, 1))

(* mindgraph.py:170-179: a key leads to the node last registered under it, *)
(* or to none once that node is removed or folded: never to another.       *)
KeyFindsItsNode ==
  wellNamed =>
    \A key \in Keys :
      LET id == Found(graph, key) IN
      IF id = Nothing
      THEN \A other \in Ids(graph) : graph.nodes[other].seq # keyed[key]
      ELSE graph.nodes[id].seq = keyed[key]
===============================================================================
