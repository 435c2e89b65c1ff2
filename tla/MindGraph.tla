------------------------------ MODULE MindGraph ------------------------------
(***************************************************************************)
(* aircore/mindgraph.py as a data type: what each method makes of a graph. *)
(*                                                                         *)
(* A graph is a record of the object's four attributes:                    *)
(*   nodes   _nodes: the nodes by id, each with its sequence number, the   *)
(*           ids it depends on, and what it carries;                       *)
(*   seq     the next number of the counter _seq;                          *)
(*   auto    the next number of the counter _auto_id;                      *)
(*   dedup   _dedup_index: the id registered under each key.               *)
(*                                                                         *)
(* The id "n<k>" that the graph makes up is the number k; an id that the   *)
(* caller makes up is any value, perhaps a number too.  What a node        *)
(* carries (summary, kind, full_ref, metadata) is opaque to the graph.     *)
(***************************************************************************)
EXTENDS Naturals, FiniteSets, Functions

CONSTANT Nothing        \* Python's None

EmptyGraph == [nodes |-> << >>, seq |-> 1, auto |-> 1, dedup |-> << >>]

(* self[key] = value, in a dict.                                           *)
Put(dict, key, value) ==
  [k \in DOMAIN dict \cup {key} |-> IF k = key THEN value ELSE dict[k]]

Ids(graph) == DOMAIN graph.nodes
Size(graph) == Cardinality(Ids(graph))

(* A bug the checks must notice: the made-up id is the size of the graph,  *)
(* which a fold makes smaller.                                             *)
SizeAsId(graph) == Size(graph) + 1

(* f"n{next(self._auto_id)}"                                               *)
MadeUpId(graph) == graph.auto

(* Whether add_node accepts its arguments; given is Nothing or an id.      *)
CanAdd(graph, given, edges) == edges \subseteq Ids(graph) /\ given \notin Ids(graph)

(* The id of the node that add_node makes.                                 *)
IdFor(graph, given) == IF given = Nothing THEN MadeUpId(graph) ELSE given

(* A bug the checks must notice: the first node of a key keeps it.         *)
KeepFirstKey(graph, key, id) ==
  IF key \in {Nothing} \cup DOMAIN graph.dedup THEN graph.dedup
  ELSE Put(graph.dedup, key, id)

Register(graph, key, id) ==
  IF key = Nothing THEN graph.dedup ELSE Put(graph.dedup, key, id)

(* add_node.  A made-up id is not looked up first: it replaces the node    *)
(* that has it.                                                            *)
AddNode(graph, given, edges, key, carried) ==
  LET id == IdFor(graph, given) IN
  [nodes |-> Put(graph.nodes, id,
                  [seq |-> graph.seq, edges |-> edges, carried |-> carried]),
   seq |-> graph.seq + 1,
   auto |-> IF given = Nothing THEN graph.auto + 1 ELSE graph.auto,
   dedup |-> Register(graph, key, id)]

(* get_by_dedup_key: the id of the node it returns.                        *)
Found(graph, key) ==
  IF key \in DOMAIN graph.dedup /\ graph.dedup[key] \in Ids(graph)
  THEN graph.dedup[key] ELSE Nothing

(* link: nothing changes unless both nodes are there.                      *)
Link(graph, id, target) ==
  IF {id, target} \subseteq Ids(graph)
  THEN [graph EXCEPT !.nodes[id].edges = @ \cup {target}]
  ELSE graph

(* remove: edges and keys that name the node stay as they are.             *)
RemoveNodes(graph, ids) == [graph EXCEPT !.nodes = Restrict(@, DOMAIN @ \ ids)]

(* A bug the checks must notice: dependents keep their edges to the nodes  *)
(* that are gone.                                                          *)
NotRelinked(edges, ids, new) == edges

(* A dependent's edges after the fold of ids into new.                     *)
Relinked(edges, ids, new) ==
  IF edges \cap ids = {} THEN edges ELSE (edges \ ids) \cup {new}

(* Every node but the new one is relinked to it.                           *)
RelinkedNodes(nodes, ids, new) ==
  [id \in DOMAIN nodes |->
     IF id = new THEN nodes[id] ELSE [nodes[id] EXCEPT !.edges = Relinked(@, ids, new)]]

(* collapse, of ids that are all there: the new node is added, the folded  *)
(* ones are removed, and the others are relinked.                          *)
Collapse(graph, ids, carried) ==
  LET big == AddNode(graph, Nothing, {}, Nothing, carried) IN
  [RemoveNodes(big, ids) EXCEPT !.nodes = RelinkedNodes(@, ids, MadeUpId(graph))]

(* all_nodes()[:n]                                                         *)
Oldest(graph, n) ==
  {id \in Ids(graph) :
     Cardinality({other \in Ids(graph) : graph.nodes[other].seq < graph.nodes[id].seq}) < n}

(* Whether compact_oldest does anything.                                   *)
Compacts(graph, n) == Size(graph) > n /\ n > 0

(* neighborhood: the nodes at most `hops` edges away, in either direction. *)
Neighborhood(graph, id, hops) ==
  LET near[h \in 0 .. hops] ==
        IF h = 0 THEN {id}
        ELSE near[h - 1] \cup {n \in Ids(graph) : \E m \in near[h - 1] :
                                 \/ n \in graph.nodes[m].edges
                                 \/ m \in graph.nodes[n].edges}
  IN near[hops]
==============================================================================
