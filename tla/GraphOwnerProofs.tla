--------------------------- MODULE GraphOwnerProofs ---------------------------
(***************************************************************************)
(* Proofs about GraphOwner, for any ids and keys of the owner's and any    *)
(* number of nodes: whatever is added, linked, removed and folded, no fact *)
(* is lost, what a node depends on is shown next to it as long as it is    *)
(* there, and a key leads to its own node.                                 *)
(***************************************************************************)
EXTENDS GraphOwner, TLAPS

(* The graph is a record, its index a function to ids.                     *)
Shape ==
  /\ graph = [nodes |-> graph.nodes, seq |-> graph.seq, auto |-> graph.auto, dedup |-> graph.dedup]
  /\ graph.dedup \in [DOMAIN graph.dedup -> Nat \cup GivenIds]

(* Whatever is known was made before the next node.                        *)
Earlier ==
  /\ \A id \in Ids(graph) : graph.nodes[id].seq < graph.seq /\ \A f \in Facts(id) : f < graph.seq
  /\ \A f \in added \cup forgotten : f < graph.seq
  /\ \A key \in Keys : keyed[key] < graph.seq

(* An id in use is either one the graph made up or one the owner did.      *)
Named(id, auto, made) == IF id \in Nat THEN id < auto ELSE id \in made

NamesKept ==
  wellNamed => /\ \A id \in Ids(graph) : Named(id, graph.auto, taken)
               /\ \A key \in DOMAIN graph.dedup : Named(graph.dedup[key], graph.auto, taken)

(* The index and the last registrations agree, as far as nodes are there.  *)
KeysKept ==
  wellNamed =>
    \A key \in Keys :
      /\ key \in DOMAIN graph.dedup /\ graph.dedup[key] \in Ids(graph)
           => graph.nodes[graph.dedup[key]].seq = keyed[key]
      /\ \A id \in Ids(graph) : graph.nodes[id].seq = keyed[key]
           => key \in DOMAIN graph.dedup /\ graph.dedup[key] = id

(* What a node was made or linked to depend on is not there any more, or   *)
(* in the nodes that its edges lead to.                                    *)
Reached(id) == graph.nodes[id].edges \cap Ids(graph)

NeedsMet ==
  wellNamed => \A id \in Ids(graph) : Needs(id) \subseteq forgotten \cup FactsOf(Reached(id))

IInv == TypeOK /\ Shape /\ Earlier /\ NamesKept /\ NothingLost /\ KeysKept /\ NeedsMet

-----------------------------------------------------------------------------
(* Assigning to one key of a dict gives it that value and keeps the rest.  *)
LEMMA PutGives ==
  ASSUME NEW dict, NEW key, NEW value
  PROVE  /\ DOMAIN Put(dict, key, value) = DOMAIN dict \cup {key}
         /\ Put(dict, key, value)[key] = value
         /\ \A k \in DOMAIN dict \ {key} : Put(dict, key, value)[k] = dict[k]
         /\ \A S : value \in S /\ (\A k \in DOMAIN dict : dict[k] \in S)
              => Put(dict, key, value) \in [DOMAIN dict \cup {key} -> S]
BY DEF Put

(* Facts of a set of ids.                                                  *)
LEMMA FactsOfMember ==
  ASSUME NEW ids, NEW f
  PROVE  f \in FactsOf(ids) <=> \E id \in ids : f \in Facts(id)
BY DEF FactsOf

LEMMA InitIInv == Init => IInv
<1> SUFFICES ASSUME Init PROVE IInv
  OBVIOUS
<1> USE DEF Init, EmptyGraph, Ids
<1>1. graph.nodes = << >> /\ graph.dedup = << >> /\ graph.seq = 1 /\ graph.auto = 1
  OBVIOUS
<1>2. Ids(graph) = {} /\ DOMAIN graph.dedup = {}
  BY <1>1
<1>3. TypeOK
  <2>1. graph.nodes \in [Ids(graph) -> [seq : 1 .. MaxSeq, edges : SUBSET (Nat \cup GivenIds),
                 carried : [facts : SUBSET (1 .. MaxSeq), needs : SUBSET (1 .. MaxSeq)]]]
    BY <1>1, <1>2
  <2> QED
    BY <1>1, <1>2, <2>1, BoundAssumption DEF TypeOK
<1>4. Shape
  BY <1>1, <1>2 DEF Shape
<1>5. Earlier /\ NamesKept /\ KeysKept /\ NeedsMet
  BY <1>1, <1>2 DEF Earlier, NamesKept, KeysKept, NeedsMet
<1>6. NothingLost
  BY <1>2, FactsOfMember DEF NothingLost, FactsKept, FactsOf
<1> QED
  BY <1>3, <1>4, <1>5, <1>6 DEF IInv

(* add_node: the new node has an id that no other node has.                *)
LEMMA AddIInv ==
  ASSUME IInv, NEW given \in GivenIds \cup {Nothing}, NEW edges \in SUBSET Ids(graph),
         NEW key \in Keys \cup {Nothing}, Add(given, edges, key)
  PROVE  IInv'
<1>a. PICK id, node : /\ id = IdFor(graph, given)
                      /\ node = [seq |-> graph.seq, edges |-> edges,
                                 carried |-> [facts |-> {graph.seq}, needs |-> FactsOf(edges)]]
  OBVIOUS
<1> USE BoundAssumption
<1>1. /\ graph.seq \in 1 .. MaxSeq /\ graph.auto \in 1 .. graph.seq
      /\ graph'.nodes = Put(graph.nodes, id, node)
      /\ graph'.seq = graph.seq + 1
      /\ graph'.auto = IF given = Nothing THEN graph.auto + 1 ELSE graph.auto
      /\ graph'.dedup = Register(graph, key, id)
  BY <1>a DEF IInv, TypeOK, Add, AddNode
<1>2. id \in Nat \cup GivenIds
  BY <1>1, <1>a DEF IdFor, MadeUpId
<1>3. /\ Ids(graph)' = Ids(graph) \cup {id}
      /\ graph'.nodes[id] = node
      /\ \A other \in Ids(graph) \ {id} : graph'.nodes[other] = graph.nodes[other]
  BY <1>1 DEF Ids, Put
<1>4. /\ Facts(id)' = {graph.seq}
      /\ \A other \in Ids(graph) \ {id} : Facts(other)' = Facts(other)
  BY <1>3, <1>a DEF Facts
<1>5. /\ added' = added \cup {graph.seq} /\ forgotten' = forgotten /\ links' = links
      /\ keyed' = IF key = Nothing THEN keyed ELSE [keyed EXCEPT ![key] = graph.seq]
      /\ taken' = taken \cup ({given} \ {Nothing})
      /\ wellNamed' = (wellNamed /\ given \notin taken \cup Nat)
  BY DEF Add
<1>6. /\ key = Nothing => graph'.dedup = graph.dedup
      /\ key # Nothing => /\ DOMAIN graph'.dedup = DOMAIN graph.dedup \cup {key}
                          /\ graph'.dedup[key] = id
      /\ \A k \in DOMAIN graph.dedup : k # key =>
           k \in DOMAIN graph'.dedup /\ graph'.dedup[k] = graph.dedup[k]
      /\ graph'.dedup \in [DOMAIN graph'.dedup -> Nat \cup GivenIds]
  <2>1. graph.dedup \in [DOMAIN graph.dedup -> Nat \cup GivenIds]
    BY DEF IInv, Shape
  <2>2. CASE key = Nothing
    BY <1>1, <2>1, <2>2 DEF Register
  <2>3. CASE key # Nothing
    <3>1. graph'.dedup = [k \in DOMAIN graph.dedup \cup {key} |-> IF k = key THEN id ELSE graph.dedup[k]]
      BY <1>1, <2>3 DEF Register, Put
    <3> QED
      BY <3>1, <2>1, <2>3, <1>2
  <2> QED
    BY <2>2, <2>3
<1>7. wellNamed' => id \notin Ids(graph) /\ Named(id, graph'.auto, taken') /\ ~Named(id, graph.auto, taken)
  <2>1. CASE given = Nothing
    <3>1. id = graph.auto /\ id \in Nat /\ graph'.auto = id + 1
      BY <1>1, <1>a, <2>1 DEF IdFor, MadeUpId
    <3>2. Named(id, graph'.auto, taken') /\ ~Named(id, graph.auto, taken)
      BY <3>1 DEF Named
    <3>3. wellNamed' => id \notin Ids(graph)
      BY <1>5, <3>2 DEF IInv, NamesKept
    <3> QED
      BY <3>2, <3>3
  <2>2. CASE given # Nothing
    BY <1>5, <1>a, <2>2 DEF Add, CanAdd, IdFor, Named
  <2> QED
    BY <2>1, <2>2
<1>8. TypeOK'
  <2>1. /\ FactsOf(edges) \subseteq 1 .. MaxSeq
    BY DEF IInv, TypeOK, FactsOf, Facts
  <2>2. Ids(graph) \subseteq Nat \cup GivenIds
    BY DEF IInv, TypeOK
  <2>3. node \in [seq : 1 .. MaxSeq, edges : SUBSET (Nat \cup GivenIds),
                  carried : [facts : SUBSET (1 .. MaxSeq), needs : SUBSET (1 .. MaxSeq)]]
    BY <1>1, <1>a, <2>1, <2>2
  <2>4. graph'.nodes \in [Ids(graph)' -> [seq : 1 .. MaxSeq, edges : SUBSET (Nat \cup GivenIds),
                  carried : [facts : SUBSET (1 .. MaxSeq), needs : SUBSET (1 .. MaxSeq)]]]
    <3> DEFINE NodeType == [seq : 1 .. MaxSeq, edges : SUBSET (Nat \cup GivenIds),
                  carried : [facts : SUBSET (1 .. MaxSeq), needs : SUBSET (1 .. MaxSeq)]]
    <3>1. graph.nodes \in [Ids(graph) -> NodeType] /\ node \in NodeType
      BY <2>3 DEF IInv, TypeOK
    <3> HIDE DEF NodeType
    <3>2. \A other \in DOMAIN graph.nodes : graph.nodes[other] \in NodeType
      BY <3>1
    <3>3. Put(graph.nodes, id, node) \in [DOMAIN graph.nodes \cup {id} -> NodeType]
      BY <3>1, <3>2, PutGives
    <3>4. graph'.nodes \in [Ids(graph)' -> NodeType]
      BY <1>1, <1>3, <3>3 DEF Ids
    <3> QED
      BY <3>4 DEF NodeType
  <2>5. keyed' \in [Keys -> 0 .. MaxSeq] /\ DOMAIN graph'.dedup \subseteq Keys
    BY <1>1, <1>5, <1>6 DEF IInv, TypeOK
  <2>6. taken' \in SUBSET GivenIds /\ wellNamed' \in BOOLEAN /\ links' \in 0 .. MaxLinks
    BY <1>5 DEF IInv, TypeOK
  <2>7. {added', forgotten'} \subseteq SUBSET (1 .. MaxSeq)
    BY <1>1, <1>5 DEF IInv, TypeOK
  <2>8. graph'.seq \in 1 .. MaxSeq + 1 /\ graph'.auto \in 1 .. graph'.seq
    BY <1>1
  <2> QED
    BY <1>2, <1>3, <2>2, <2>4, <2>5, <2>6, <2>7, <2>8 DEF TypeOK
<1>9. Shape'
  BY <1>6 DEF Shape, Add, AddNode
<1>10. Earlier'
  <2>1. /\ \A other \in Ids(graph) : graph.nodes[other].seq \in Nat /\ Facts(other) \subseteq Nat
        /\ keyed \in [Keys -> Nat] /\ added \cup forgotten \subseteq Nat /\ graph.seq \in Nat
    BY DEF IInv, TypeOK, Facts
  <2>2. \A other \in Ids(graph)' : /\ graph'.nodes[other].seq < graph'.seq
                                   /\ \A f \in Facts(other)' : f < graph'.seq
    <3> TAKE other \in Ids(graph)'
    <3>1. CASE other = id
      BY <1>1, <1>3, <1>4, <1>a, <2>1, <3>1
    <3>2. CASE other # id
      BY <1>1, <1>3, <1>4, <2>1, <3>2 DEF IInv, Earlier
    <3> QED
      BY <3>1, <3>2
  <2>3. \A f \in added' \cup forgotten' : f < graph'.seq
    BY <1>1, <1>5, <2>1 DEF IInv, Earlier
  <2>4. \A k \in Keys : keyed'[k] < graph'.seq
    BY <1>1, <1>5, <2>1 DEF IInv, Earlier
  <2> QED
    BY <2>2, <2>3, <2>4 DEF Earlier
<1>11. NamesKept'
  <2> SUFFICES ASSUME wellNamed'
               PROVE  /\ \A other \in Ids(graph)' : Named(other, graph'.auto, taken')
                      /\ \A k \in DOMAIN graph'.dedup : Named(graph'.dedup[k], graph'.auto, taken')
    BY DEF NamesKept
  <2>1. \A other : Named(other, graph.auto, taken) => Named(other, graph'.auto, taken')
    BY <1>1, <1>5 DEF Named
  <2>2. /\ \A other \in Ids(graph) : Named(other, graph.auto, taken)
        /\ \A k \in DOMAIN graph.dedup : Named(graph.dedup[k], graph.auto, taken)
    BY <1>5 DEF IInv, NamesKept
  <2>3. \A k \in DOMAIN graph'.dedup :
          graph'.dedup[k] = id \/ (k \in DOMAIN graph.dedup /\ graph'.dedup[k] = graph.dedup[k])
    BY <1>6
  <2> QED
    BY <1>3, <1>7, <2>1, <2>2, <2>3
<1>12. NothingLost'
  <2> SUFFICES ASSUME wellNamed'
               PROVE  /\ FactsOf(Ids(graph))' = added' \ forgotten'
                      /\ \A one, other \in Ids(graph)' : Facts(one)' \cap Facts(other)' # {} => one = other
    BY DEF NothingLost, FactsKept
  <2>1. id \notin Ids(graph) /\ wellNamed
    BY <1>5, <1>7
  <2>2. /\ \A other \in Ids(graph) : graph.seq \notin Facts(other)
        /\ graph.seq \notin forgotten
    BY <1>1 DEF IInv, Earlier
  <2>3. /\ UNION {Facts(other) : other \in Ids(graph)} = added \ forgotten
        /\ \A one, other \in Ids(graph) : Facts(one) \cap Facts(other) # {} => one = other
    BY <2>1 DEF IInv, NothingLost, FactsKept, FactsOf
  <2>4. UNION {Facts(other)' : other \in Ids(graph)'} = {graph.seq} \cup UNION {Facts(other) : other \in Ids(graph)}
    BY <1>3, <1>4, <2>1
  <2>5. FactsOf(Ids(graph))' = added' \ forgotten'
    BY <1>5, <2>2, <2>3, <2>4 DEF FactsOf
  <2>6. ASSUME NEW one \in Ids(graph)', NEW other \in Ids(graph)', Facts(one)' \cap Facts(other)' # {}
        PROVE  one = other
    <3>1. \A old \in Ids(graph) : old # id /\ Facts(old)' = Facts(old) /\ Facts(old) \cap Facts(id)' = {}
      BY <1>4, <2>1, <2>2
    <3>2. CASE one # id /\ other # id
      BY <1>3, <2>3, <2>6, <3>1, <3>2
    <3>3. CASE one = id \/ other = id
      BY <1>3, <2>6, <3>1, <3>3
    <3> QED
      BY <3>2, <3>3
  <2> QED
    BY <2>5, <2>6
<1>13. KeysKept'
  <2> SUFFICES ASSUME wellNamed', NEW k \in Keys
               PROVE  /\ k \in DOMAIN graph'.dedup /\ graph'.dedup[k] \in Ids(graph)'
                           => graph'.nodes[graph'.dedup[k]].seq = keyed'[k]
                      /\ \A other \in Ids(graph)' : graph'.nodes[other].seq = keyed'[k]
                           => k \in DOMAIN graph'.dedup /\ graph'.dedup[k] = other
    BY DEF KeysKept
  <2>1. id \notin Ids(graph) /\ wellNamed
    BY <1>5, <1>7
  <2>2. graph'.nodes[id].seq = graph.seq
    BY <1>3, <1>a
  <2>3. \A other \in Ids(graph) : graph.nodes[other].seq < graph.seq /\ graph.nodes[other].seq \in Nat
    BY DEF IInv, Earlier, TypeOK
  <2>4. CASE k = key
    <3>1. k # Nothing /\ keyed \in [Keys -> 0 .. MaxSeq]
      BY NamesAssumption DEF IInv, TypeOK
    <3>2. keyed'[k] = graph.seq /\ k \in DOMAIN graph'.dedup /\ graph'.dedup[k] = id
      BY <1>5, <1>6, <2>4, <3>1
    <3> QED
      BY <1>1, <1>3, <2>2, <2>3, <3>2
  <2>5. CASE k # key
    <3>1. /\ keyed'[k] = keyed[k] /\ keyed[k] < graph.seq /\ keyed[k] \in Nat
      BY <1>5, <2>5 DEF IInv, TypeOK, Earlier
    <3>2. /\ k \in DOMAIN graph'.dedup <=> k \in DOMAIN graph.dedup
          /\ k \in DOMAIN graph.dedup => graph'.dedup[k] = graph.dedup[k]
      BY <1>6, <2>5
    <3>3. k \in DOMAIN graph.dedup => graph.dedup[k] # id
      <4>1. k \in DOMAIN graph.dedup => Named(graph.dedup[k], graph.auto, taken)
        BY <2>1 DEF IInv, NamesKept
      <4> QED
        BY <4>1, <1>7
    <3> QED
      BY <1>1, <1>3, <2>1, <2>2, <2>3, <3>1, <3>2, <3>3 DEF IInv, KeysKept
  <2> QED
    BY <2>4, <2>5
<1>14. NeedsMet'
  <2> SUFFICES ASSUME wellNamed', NEW other \in Ids(graph)', NEW f \in Needs(other)'
               PROVE  f \in forgotten' \/ \E m \in Reached(other)' : f \in Facts(m)'
    BY FactsOfMember DEF NeedsMet, FactsOf
  <2>1. id \notin Ids(graph) /\ wellNamed
    BY <1>5, <1>7
  <2>2. CASE other = id
    <3>1. f \in FactsOf(edges) /\ Reached(other)' = edges
      BY <1>3, <1>a, <2>2 DEF Needs, Reached
    <3> QED
      BY <1>4, <2>1, <3>1, FactsOfMember
  <2>3. CASE other # id
    <3>1. other \in Ids(graph) /\ f \in Needs(other) /\ Reached(other) \subseteq Reached(other)'
      BY <1>3, <2>3 DEF Needs, Reached
    <3>2. f \in forgotten \/ \E m \in Reached(other) : f \in Facts(m)
      BY <2>1, <3>1, FactsOfMember DEF IInv, NeedsMet
    <3> QED
      BY <1>4, <1>5, <2>1, <3>1, <3>2 DEF Reached
  <2> QED
    BY <2>2, <2>3
<1> QED
  BY <1>8, <1>9, <1>10, <1>11, <1>12, <1>13, <1>14 DEF IInv

(* link: ids, keys, numbers and facts stay as they are.                    *)
LEMMA LinkToIInv ==
  ASSUME IInv, NEW id \in Ids(graph), NEW target \in Ids(graph), LinkTo(id, target)
  PROVE  IInv'
<1> DEFINE NodeType == [seq : 1 .. MaxSeq, edges : SUBSET (Nat \cup GivenIds),
                        carried : [facts : SUBSET (1 .. MaxSeq), needs : SUBSET (1 .. MaxSeq)]]
<1>1. /\ graph.nodes \in [Ids(graph) -> NodeType]
      /\ graph = [nodes |-> graph.nodes, seq |-> graph.seq, auto |-> graph.auto, dedup |-> graph.dedup]
      /\ Ids(graph) \subseteq Nat \cup GivenIds
  BY DEF IInv, TypeOK, Shape
<1>2. PICK old \in NodeType : old = graph.nodes[id]
  BY <1>1
<1>3. PICK node : node = [seq |-> old.seq, edges |-> old.edges \cup {target},
                          carried |-> [facts |-> old.carried.facts,
                                       needs |-> old.carried.needs \cup Facts(target)]]
  OBVIOUS
<1>4. PICK mid : mid = [seq |-> old.seq, edges |-> old.edges \cup {target}, carried |-> old.carried]
  OBVIOUS
<1>5. graph' = [nodes |-> [graph.nodes EXCEPT ![id] = node],
                seq |-> graph.seq, auto |-> graph.auto, dedup |-> graph.dedup]
  <2>1. PICK nodes : nodes = [graph.nodes EXCEPT ![id] = mid]
    OBVIOUS
  <2>2. mid = [old EXCEPT !.edges = @ \cup {target}]
    BY <1>2, <1>4
  <2>3. PICK linked : linked = Link(graph, id, target)
    OBVIOUS
  <2>4. linked = [graph EXCEPT !.nodes[id].edges = @ \cup {target}]
    BY <2>3 DEF Link
  <2>5. linked = [graph EXCEPT !.nodes = nodes]
    BY <1>2, <2>1, <2>2, <2>4
  <2>6. linked = [nodes |-> nodes, seq |-> graph.seq, auto |-> graph.auto, dedup |-> graph.dedup]
    BY <1>1, <2>5
  <2>7. nodes[id] = mid /\ linked.nodes = nodes
    BY <1>1, <2>1, <2>6 DEF Ids
  <2>8. graph' = [linked EXCEPT !.nodes[id].carried.needs = @ \cup Facts(target)]
    BY <2>3 DEF LinkTo
  <2>9. node = [mid EXCEPT !.carried.needs = @ \cup Facts(target)]
    <3>1. PICK facts, needs : old.carried = [facts |-> facts, needs |-> needs]
      BY <1>2
    <3>2. mid = [seq |-> old.seq, edges |-> old.edges \cup {target}, carried |-> [facts |-> facts, needs |-> needs]]
      BY <1>4, <3>1
    <3>3. PICK more : more = needs \cup Facts(target)
      OBVIOUS
    <3>4. PICK held : held = [facts |-> facts, needs |-> more]
      OBVIOUS
    <3>5. mid.carried = [facts |-> facts, needs |-> needs] /\ mid.carried.needs \cup Facts(target) = more
      BY <3>2, <3>3
    <3>6. [mid.carried EXCEPT !.needs = more] = held
      BY <3>4, <3>5
    <3>7. node = [mid EXCEPT !.carried = held]
      <4>1. PICK edges : edges = old.edges \cup {target}
        OBVIOUS
      <4>2. node = [seq |-> old.seq, edges |-> edges, carried |-> held]
        BY <1>3, <3>1, <3>3, <3>4, <4>1
      <4>3. mid = [seq |-> old.seq, edges |-> edges, carried |-> old.carried]
        BY <1>4, <4>1
      <4> QED
        BY <4>2, <4>3
    <3> QED
      BY <3>5, <3>6, <3>7
  <2>10. graph' = [linked EXCEPT !.nodes = [nodes EXCEPT ![id] = node]]
    BY <2>7, <2>8, <2>9
  <2>11. [nodes EXCEPT ![id] = node] = [graph.nodes EXCEPT ![id] = node]
    BY <1>1, <2>1 DEF Ids
  <2> QED
    BY <2>6, <2>10, <2>11
<1>6. node \in NodeType /\ node.seq = old.seq /\ node.carried.facts = old.carried.facts
  BY <1>1, <1>2, <1>3 DEF Facts
<1> HIDE DEF NodeType
<1>7. /\ graph'.nodes \in [Ids(graph) -> NodeType] /\ Ids(graph)' = Ids(graph)
      /\ graph'.seq = graph.seq /\ graph'.auto = graph.auto /\ graph'.dedup = graph.dedup
      /\ \A other \in Ids(graph) : /\ graph'.nodes[other].seq = graph.nodes[other].seq
                                   /\ Facts(other)' = Facts(other)
  BY <1>1, <1>2, <1>5, <1>6 DEF Ids, Facts
<1>8. UNCHANGED <<added, forgotten, keyed, taken, wellNamed>> /\ links' \in 0 .. MaxLinks
  BY BoundAssumption DEF LinkTo, IInv, TypeOK
<1>9. TypeOK'
  BY <1>7, <1>8 DEF IInv, TypeOK, NodeType
<1>10. Shape'
  BY <1>5, <1>7 DEF IInv, Shape
<1>11. Earlier' /\ NamesKept'
  BY <1>7, <1>8 DEF IInv, Earlier, NamesKept
<1>12. NothingLost'
  BY <1>7, <1>8 DEF IInv, NothingLost, FactsKept, FactsOf
<1>13. KeysKept'
  BY <1>7, <1>8 DEF IInv, KeysKept
<1>14. NeedsMet'
  <2> SUFFICES ASSUME wellNamed', NEW other \in Ids(graph), NEW f \in Needs(other)'
               PROVE  f \in forgotten' \/ \E m \in Reached(other)' : f \in Facts(m)'
    BY <1>7, FactsOfMember DEF NeedsMet, FactsOf
  <2>1. graph'.nodes = [graph.nodes EXCEPT ![id] = node] /\ DOMAIN graph.nodes = Ids(graph)
    BY <1>5 DEF Ids
  <2>2. \/ f \in Needs(other) /\ Reached(other) \subseteq Reached(other)'
        \/ f \in Facts(target) /\ target \in Reached(other)'
    BY <1>2, <1>3, <1>7, <2>1 DEF Needs, Reached
  <2>3. f \in Needs(other) => f \in forgotten \/ \E m \in Reached(other) : f \in Facts(m)
    BY <1>8, FactsOfMember DEF IInv, NeedsMet
  <2> QED
    BY <1>7, <1>8, <2>2, <2>3 DEF Reached
<1> QED
  BY <1>9, <1>10, <1>11, <1>12, <1>13, <1>14 DEF IInv

(* remove: one node and its facts go, and nothing else.                    *)
LEMMA ForgetIInv ==
  ASSUME IInv, NEW id \in Ids(graph), Forget(id)
  PROVE  IInv'
<1> DEFINE NodeType == [seq : 1 .. MaxSeq, edges : SUBSET (Nat \cup GivenIds),
                        carried : [facts : SUBSET (1 .. MaxSeq), needs : SUBSET (1 .. MaxSeq)]]
<1>1. /\ graph.nodes \in [Ids(graph) -> NodeType]
      /\ graph = [nodes |-> graph.nodes, seq |-> graph.seq, auto |-> graph.auto, dedup |-> graph.dedup]
      /\ Ids(graph) \subseteq Nat \cup GivenIds
  BY DEF IInv, TypeOK, Shape
<1>2. Facts(id) \subseteq 1 .. MaxSeq
  BY <1>1 DEF Facts
<1> HIDE DEF NodeType
<1>3. graph' = [nodes |-> [other \in Ids(graph) \ {id} |-> graph.nodes[other]],
                seq |-> graph.seq, auto |-> graph.auto, dedup |-> graph.dedup]
  BY <1>1 DEF Forget, RemoveNodes, Restrict, Ids
<1>4. /\ Ids(graph)' = Ids(graph) \ {id} /\ graph'.nodes \in [Ids(graph)' -> NodeType]
      /\ graph'.seq = graph.seq /\ graph'.auto = graph.auto /\ graph'.dedup = graph.dedup
      /\ \A other \in Ids(graph)' : /\ graph'.nodes[other] = graph.nodes[other]
                                    /\ Facts(other)' = Facts(other)
  BY <1>1, <1>3 DEF Ids, Facts
<1>5. /\ UNCHANGED <<added, keyed, taken, links, wellNamed>>
      /\ forgotten' = forgotten \cup Facts(id)
  BY DEF Forget
<1>6. TypeOK'
  <2>1. {added', forgotten'} \subseteq SUBSET (1 .. MaxSeq)
    BY <1>2, <1>5 DEF IInv, TypeOK
  <2> QED
    BY <1>4, <1>5, <2>1 DEF IInv, TypeOK, NodeType
<1>7. Shape'
  BY <1>3, <1>4 DEF IInv, Shape
<1>8. Earlier' /\ NamesKept'
  BY <1>4, <1>5 DEF IInv, Earlier, NamesKept
<1>9. NothingLost'
  <2> SUFFICES ASSUME wellNamed'
               PROVE  /\ FactsOf(Ids(graph))' = added' \ forgotten'
                      /\ \A one, other \in Ids(graph)' : Facts(one)' \cap Facts(other)' # {} => one = other
    BY DEF NothingLost, FactsKept
  <2>1. /\ UNION {Facts(other) : other \in Ids(graph)} = added \ forgotten
        /\ \A one, other \in Ids(graph) : Facts(one) \cap Facts(other) # {} => one = other
    BY <1>5 DEF IInv, NothingLost, FactsKept, FactsOf
  <2>2. UNION {Facts(other)' : other \in Ids(graph)'} = UNION {Facts(other) : other \in Ids(graph) \ {id}}
    BY <1>4
  <2>3. UNION {Facts(other) : other \in Ids(graph) \ {id}} = (added \ forgotten) \ Facts(id)
    BY <2>1
  <2>4. FactsOf(Ids(graph))' = added' \ forgotten'
    BY <1>5, <2>2, <2>3 DEF FactsOf
  <2> QED
    BY <1>4, <2>1, <2>4
<1>10. KeysKept'
  BY <1>4, <1>5 DEF IInv, KeysKept
<1>11. NeedsMet'
  <2> SUFFICES ASSUME wellNamed', NEW other \in Ids(graph)', NEW f \in Needs(other)'
               PROVE  f \in forgotten' \/ \E m \in Reached(other)' : f \in Facts(m)'
    BY FactsOfMember DEF NeedsMet, FactsOf
  <2>1. other \in Ids(graph) /\ f \in Needs(other) /\ Reached(other)' = Reached(other) \ {id}
    BY <1>4 DEF Needs, Reached
  <2>2. f \in forgotten \/ \E m \in Reached(other) : f \in Facts(m)
    BY <1>5, <2>1, FactsOfMember DEF IInv, NeedsMet
  <2> QED
    BY <1>4, <1>5, <2>1, <2>2 DEF Reached
<1> QED
  BY <1>6, <1>7, <1>8, <1>9, <1>10, <1>11 DEF IInv

(* collapse: the new node stands for what the folded nodes stood for.      *)
LEMMA FoldIInv ==
  ASSUME IInv, NEW ids \in SUBSET Ids(graph), Fold(ids)
  PROVE  IInv'
<1> DEFINE NodeType == [seq : 1 .. MaxSeq, edges : SUBSET (Nat \cup GivenIds),
                        carried : [facts : SUBSET (1 .. MaxSeq), needs : SUBSET (1 .. MaxSeq)]]
<1>1. /\ graph.nodes \in [Ids(graph) -> NodeType]
      /\ graph = [nodes |-> graph.nodes, seq |-> graph.seq, auto |-> graph.auto, dedup |-> graph.dedup]
      /\ Ids(graph) \subseteq Nat \cup GivenIds
      /\ graph.seq \in 1 .. MaxSeq /\ graph.auto \in 1 .. graph.seq /\ MaxSeq \in Nat
  BY BoundAssumption DEF IInv, TypeOK, Shape, Fold
<1>2. PICK new, node : /\ new = graph.auto
                       /\ node = [seq |-> graph.seq, edges |-> {},
                                  carried |-> [facts |-> FactsOf(ids), needs |-> {}]]
  OBVIOUS
<1>3. FactsOf(ids) \subseteq 1 .. MaxSeq /\ node \in NodeType /\ new \in Nat
  <2>1. \A id \in ids : Facts(id) \subseteq 1 .. MaxSeq
    BY <1>1 DEF Facts
  <2>2. FactsOf(ids) \subseteq 1 .. MaxSeq
    BY <2>1 DEF FactsOf
  <2> QED
    BY <1>1, <1>2, <2>2
<1>4. graph' = [nodes |-> [id \in (Ids(graph) \cup {new}) \ ids |->
                             IF id = new THEN node
                             ELSE [graph.nodes[id] EXCEPT !.edges = Relinked(@, ids, new)]],
                seq |-> graph.seq + 1, auto |-> graph.auto + 1, dedup |-> graph.dedup]
  <2>1. PICK big : big = AddNode(graph, Nothing, {}, Nothing, [facts |-> FactsOf(ids), needs |-> {}])
    OBVIOUS
  <2>2. PICK nodes : nodes = [id \in Ids(graph) \cup {new} |-> IF id = new THEN node ELSE graph.nodes[id]]
    OBVIOUS
  <2>3. big = [nodes |-> nodes, seq |-> graph.seq + 1, auto |-> graph.auto + 1, dedup |-> graph.dedup]
    BY <1>2, <2>1, <2>2 DEF AddNode, IdFor, MadeUpId, Register, Put, Ids
  <2>4. PICK rest : rest = RemoveNodes(big, ids)
    OBVIOUS
  <2>5. PICK left : left = [id \in (Ids(graph) \cup {new}) \ ids |-> nodes[id]]
    OBVIOUS
  <2>6. rest = [nodes |-> left, seq |-> graph.seq + 1, auto |-> graph.auto + 1, dedup |-> graph.dedup]
    <3>1. DOMAIN nodes = Ids(graph) \cup {new}
      BY <2>2
    <3>2. Restrict(nodes, DOMAIN nodes \ ids) = left
      BY <2>5, <3>1 DEF Restrict
    <3> QED
      BY <2>3, <2>4, <3>2 DEF RemoveNodes
  <2>7. graph' = [rest EXCEPT !.nodes = RelinkedNodes(@, ids, new)]
    BY <1>2, <2>1, <2>4 DEF Fold, Collapse, MadeUpId
  <2>8. rest.nodes = left /\ DOMAIN left = (Ids(graph) \cup {new}) \ ids
    BY <2>5, <2>6
  <2>9. graph' = [nodes |-> RelinkedNodes(left, ids, new),
                  seq |-> graph.seq + 1, auto |-> graph.auto + 1, dedup |-> graph.dedup]
    BY <2>6, <2>7, <2>8
  <2>10. \A id \in (Ids(graph) \cup {new}) \ ids : left[id] = IF id = new THEN node ELSE graph.nodes[id]
    BY <2>2, <2>5
  <2> QED
    BY <2>8, <2>9, <2>10 DEF RelinkedNodes
<1>5. \A id \in Ids(graph) :
        LET moved == [graph.nodes[id] EXCEPT !.edges = Relinked(@, ids, new)] IN
        moved \in NodeType /\ moved.seq = graph.nodes[id].seq
          /\ moved.carried = graph.nodes[id].carried
  <2> TAKE id \in Ids(graph)
  <2>1. graph.nodes[id] \in NodeType
    BY <1>1
  <2>2. Relinked(graph.nodes[id].edges, ids, new) \subseteq Nat \cup GivenIds
    BY <1>3, <2>1 DEF Relinked
  <2> QED
    BY <2>1, <2>2
<1> HIDE DEF NodeType
<1>6. /\ Ids(graph)' = (Ids(graph) \cup {new}) \ ids /\ graph'.nodes \in [Ids(graph)' -> NodeType]
      /\ graph'.seq = graph.seq + 1 /\ graph'.auto = graph.auto + 1 /\ graph'.dedup = graph.dedup
      /\ new \in Ids(graph)' => graph'.nodes[new].seq = graph.seq /\ Facts(new)' = FactsOf(ids)
      /\ \A id \in Ids(graph)' \ {new} : /\ graph'.nodes[id].seq = graph.nodes[id].seq
                                         /\ Facts(id)' = Facts(id)
  BY <1>2, <1>3, <1>4, <1>5 DEF Ids, Facts
<1>7. UNCHANGED <<added, forgotten, keyed, taken, links, wellNamed>>
  BY DEF Fold
<1>8. wellNamed => new \notin Ids(graph) /\ Named(new, graph'.auto, taken) /\ ~Named(new, graph.auto, taken)
  <2>1. Named(new, graph'.auto, taken) /\ ~Named(new, graph.auto, taken)
    BY <1>1, <1>2, <1>3, <1>6 DEF Named
  <2> QED
    BY <2>1 DEF IInv, NamesKept
<1>9. TypeOK'
  <2>1. Ids(graph)' \subseteq Nat \cup GivenIds /\ graph'.seq \in 1 .. MaxSeq + 1 /\ graph'.auto \in 1 .. graph'.seq
    BY <1>1, <1>3, <1>6
  <2> QED
    BY <1>6, <1>7, <2>1 DEF IInv, TypeOK, NodeType
<1>10. Shape'
  BY <1>4, <1>6 DEF IInv, Shape
<1>11. Earlier'
  <2>1. \A id \in Ids(graph) : graph.nodes[id].seq \in Nat /\ Facts(id) \subseteq Nat
    BY <1>1 DEF Facts, NodeType
  <2>2. \A f \in FactsOf(ids) : f < graph.seq /\ f \in Nat
    BY <2>1 DEF FactsOf, IInv, Earlier
  <2>3. /\ keyed \in [Keys -> Nat] /\ added \cup forgotten \subseteq Nat
    BY DEF IInv, TypeOK
  <2> QED
    BY <1>1, <1>6, <1>7, <2>1, <2>2, <2>3 DEF IInv, Earlier
<1>12. NamesKept'
  <2>1. \A id : Named(id, graph.auto, taken) => Named(id, graph'.auto, taken)
    BY <1>1, <1>6 DEF Named
  <2> QED
    BY <1>6, <1>7, <1>8, <2>1 DEF IInv, NamesKept
<1>13. NothingLost'
  <2> SUFFICES ASSUME wellNamed'
               PROVE  /\ FactsOf(Ids(graph))' = added' \ forgotten'
                      /\ \A one, other \in Ids(graph)' : Facts(one)' \cap Facts(other)' # {} => one = other
    BY DEF NothingLost, FactsKept
  <2>1. wellNamed /\ new \notin Ids(graph) /\ new \notin ids /\ new \in Ids(graph)'
    BY <1>6, <1>7, <1>8
  <2>2. /\ UNION {Facts(id) : id \in Ids(graph)} = added \ forgotten
        /\ \A one, other \in Ids(graph) : Facts(one) \cap Facts(other) # {} => one = other
    BY <2>1 DEF IInv, NothingLost, FactsKept, FactsOf
  <2>3. UNION {Facts(id)' : id \in Ids(graph)'}
          = FactsOf(ids) \cup UNION {Facts(id) : id \in Ids(graph) \ ids}
    BY <1>6, <2>1
  <2>4. FactsOf(ids) \cup UNION {Facts(id) : id \in Ids(graph) \ ids} = UNION {Facts(id) : id \in Ids(graph)}
    BY DEF FactsOf
  <2>5. FactsOf(Ids(graph))' = added' \ forgotten'
    BY <1>7, <2>2, <2>3, <2>4 DEF FactsOf
  <2>6. \A id \in Ids(graph) \ ids : Facts(id) \cap FactsOf(ids) = {}
    BY <2>2 DEF FactsOf
  <2>7. ASSUME NEW one \in Ids(graph)', NEW other \in Ids(graph)', Facts(one)' \cap Facts(other)' # {}
        PROVE  one = other
    <3>1. Facts(new)' = FactsOf(ids) /\ \A id \in Ids(graph)' \ {new} : id \in Ids(graph) \ ids /\ Facts(id)' = Facts(id)
      BY <1>6, <2>1
    <3>2. CASE one # new /\ other # new
      BY <2>2, <2>7, <3>1, <3>2
    <3>3. CASE one = new /\ other # new
      BY <2>6, <2>7, <3>1, <3>3
    <3>4. CASE one # new /\ other = new
      BY <2>6, <2>7, <3>1, <3>4
    <3> QED
      BY <3>2, <3>3, <3>4
  <2> QED
    BY <2>5, <2>7
<1>14. KeysKept'
  <2> SUFFICES ASSUME wellNamed', NEW key \in Keys
               PROVE  /\ key \in DOMAIN graph'.dedup /\ graph'.dedup[key] \in Ids(graph)'
                           => graph'.nodes[graph'.dedup[key]].seq = keyed'[key]
                      /\ \A id \in Ids(graph)' : graph'.nodes[id].seq = keyed'[key]
                           => key \in DOMAIN graph'.dedup /\ graph'.dedup[key] = id
    BY DEF KeysKept
  <2>1. wellNamed /\ new \notin Ids(graph)
    BY <1>7, <1>8
  <2>2. key \in DOMAIN graph.dedup => graph.dedup[key] # new
    BY <1>8, <2>1 DEF IInv, NamesKept
  <2>3. keyed[key] < graph.seq /\ keyed[key] \in Nat
    BY DEF IInv, Earlier, TypeOK
  <2> QED
    BY <1>1, <1>6, <1>7, <2>1, <2>2, <2>3 DEF IInv, KeysKept
<1>15. NeedsMet'
  <2> SUFFICES ASSUME wellNamed', NEW id \in Ids(graph)', NEW f \in Needs(id)'
               PROVE  f \in forgotten' \/ \E m \in Reached(id)' : f \in Facts(m)'
    BY FactsOfMember DEF NeedsMet, FactsOf
  <2>1. wellNamed /\ new \notin Ids(graph) /\ new \notin ids /\ new \in Ids(graph)'
    BY <1>6, <1>7, <1>8
  <2>2. id # new
    BY <1>2, <1>4, <2>1 DEF Needs, Ids
  <2>3. /\ id \in Ids(graph) /\ f \in Needs(id)
        /\ graph'.nodes[id].edges = Relinked(graph.nodes[id].edges, ids, new)
    <3>1. PICK old \in NodeType : old = graph.nodes[id] /\ id \in Ids(graph)
      BY <1>1, <1>6, <2>2
    <3>2. PICK edges : edges = Relinked(old.edges, ids, new)
      OBVIOUS
    <3>3. graph'.nodes[id] = [old EXCEPT !.edges = edges]
      BY <1>4, <1>6, <2>2, <3>1, <3>2 DEF Ids
    <3>4. graph'.nodes[id].edges = edges /\ graph'.nodes[id].carried = old.carried
      BY <3>1, <3>3 DEF NodeType
    <3> QED
      BY <3>1, <3>2, <3>4 DEF Needs
  <2>4. f \in forgotten \/ \E m \in Reached(id) : f \in Facts(m)
    BY <2>1, <2>3, FactsOfMember DEF IInv, NeedsMet
  <2>5. ASSUME NEW m \in Reached(id), f \in Facts(m)
        PROVE  \E n \in Reached(id)' : f \in Facts(n)'
    <3>1. CASE m \in ids
      <4>1. new \in Reached(id)' /\ f \in FactsOf(ids)
        BY <2>1, <2>3, <2>5, <3>1, FactsOfMember DEF Relinked, Reached
      <4> QED
        BY <1>6, <2>1, <4>1
    <3>2. CASE m \notin ids
      <4>1. m \in Reached(id)' /\ m # new
        BY <1>6, <2>1, <2>3, <3>2 DEF Relinked, Reached
      <4> QED
        BY <1>6, <2>5, <4>1 DEF Reached
    <3> QED
      BY <3>1, <3>2
  <2> QED
    BY <1>7, <2>4, <2>5
<1> QED
  BY <1>9, <1>10, <1>11, <1>12, <1>13, <1>14, <1>15 DEF IInv

-----------------------------------------------------------------------------

LEMMA StepIInv == IInv /\ [Next]_vars => IInv'
<1> SUFFICES ASSUME IInv, [Next]_vars PROVE IInv'
  OBVIOUS
<1>1. ASSUME NEW given \in GivenIds \cup {Nothing}, NEW edges \in SUBSET Ids(graph),
             NEW key \in Keys \cup {Nothing}, Add(given, edges, key)
      PROVE  IInv'
  BY <1>1, AddIInv
<1>2. ASSUME NEW id \in Ids(graph), NEW target \in Ids(graph), LinkTo(id, target) PROVE IInv'
  BY <1>2, LinkToIInv
<1>3. ASSUME NEW id \in Ids(graph), Forget(id) PROVE IInv'
  BY <1>3, ForgetIInv
<1>4. ASSUME NEW ids \in SUBSET Ids(graph), Fold(ids) PROVE IInv'
  BY <1>4, FoldIInv
<1>5. ASSUME NEW n \in 0 .. MaxSeq, CompactOldest(n) PROVE IInv'
  <2>1. Oldest(graph, n) \in SUBSET Ids(graph) /\ Fold(Oldest(graph, n))
    BY <1>5 DEF CompactOldest, Oldest
  <2> QED
    BY <2>1, FoldIInv
<1>6. CASE UNCHANGED vars
  BY <1>6 DEF vars, IInv, TypeOK, Shape, Earlier, NamesKept, NothingLost, FactsKept, KeysKept, NeedsMet,
              Reached, Needs, Ids, Facts, FactsOf
<1> QED
  BY <1>1, <1>2, <1>3, <1>4, <1>5, <1>6 DEF Next

LEMMA Invariance == Spec => []IInv
BY InitIInv, StepIInv, PTL DEF Spec

(* The variables keep their types, whatever the owner calls.               *)
THEOREM TypeCorrect == Spec => []TypeOK
<1>1. IInv => TypeOK
  BY DEF IInv
<1> QED
  BY Invariance, <1>1, PTL

(* No fact is lost by folding, linking and removing, for any number of     *)
(* nodes, as long as the owner leaves the graph's own ids alone.           *)
THEOREM FactsAreKept == Spec => []NothingLost
<1>1. IInv => NothingLost
  BY DEF IInv
<1> QED
  BY Invariance, <1>1, PTL

(* A dedup key leads to the node last registered under it or to none.      *)
THEOREM KeysAreTrue == Spec => []KeyFindsItsNode
<1>1. IInv => KeyFindsItsNode
  <2> SUFFICES ASSUME IInv, wellNamed, NEW key \in Keys
               PROVE  IF Found(graph, key) = Nothing
                      THEN \A other \in Ids(graph) : graph.nodes[other].seq # keyed[key]
                      ELSE graph.nodes[Found(graph, key)].seq = keyed[key]
    BY DEF KeyFindsItsNode
  <2>1. Ids(graph) \subseteq Nat \cup GivenIds
    BY DEF IInv, TypeOK
  <2>2. CASE key \in DOMAIN graph.dedup /\ graph.dedup[key] \in Ids(graph)
    <3>1. Found(graph, key) = graph.dedup[key] /\ Found(graph, key) # Nothing
      BY <2>1, <2>2, NamesAssumption DEF Found
    <3> QED
      BY <2>2, <3>1 DEF IInv, KeysKept
  <2>3. CASE ~(key \in DOMAIN graph.dedup /\ graph.dedup[key] \in Ids(graph))
    BY <2>3 DEF Found, IInv, KeysKept
  <2> QED
    BY <2>2, <2>3
<1> QED
  BY Invariance, <1>1, PTL

-----------------------------------------------------------------------------
(* neighborhood() with one hop: the node and those next to it, whichever   *)
(* way the edge goes.                                                      *)
Near(g, id, S) ==
  S \cup {n \in Ids(g) : \E m \in S : n \in g.nodes[m].edges \/ m \in g.nodes[n].edges}

LEMMA OneHop ==
  ASSUME NEW g, NEW id
  PROVE  Neighborhood(g, id, 1) = Near(g, id, {id})
<1> DEFINE R(f) == [h \in 0 .. 1 |-> IF h = 0 THEN {id} ELSE Near(g, id, f[h - 1])]
           near == CHOOSE f : f = R(f)
<1>1. Neighborhood(g, id, 1) = near[1]
  BY DEF Neighborhood, Near
<1>2. \E f : f = R(f)
  <2> DEFINE f == [h \in 0 .. 1 |-> IF h = 0 THEN {id} ELSE Near(g, id, {id})]
  <2>1. f = R(f)
    OBVIOUS
  <2> QED
    BY <2>1
<1>3. near = R(near)
  BY <1>2
<1> HIDE DEF near
<1>4. near[0] = {id}
  BY <1>3
<1>5. near[1] = Near(g, id, near[0])
  BY <1>3
<1> QED
  BY <1>1, <1>4, <1>5

(* What a node was made or linked to depend on is always rendered next to  *)
(* it, for any number of nodes, folds and links.                           *)
THEOREM DependenciesAreShown == Spec => []DependenciesShown
<1>1. IInv => DependenciesShown
  <2> SUFFICES ASSUME IInv, wellNamed, NEW id \in Ids(graph)
               PROVE  Needs(id) \subseteq forgotten \cup FactsOf(Neighborhood(graph, id, 1))
    BY DEF DependenciesShown
  <2>1. Reached(id) \subseteq Neighborhood(graph, id, 1)
    BY OneHop DEF Near, Reached
  <2>2. FactsOf(Reached(id)) \subseteq FactsOf(Neighborhood(graph, id, 1))
    BY <2>1, FactsOfMember
  <2> QED
    BY <2>2 DEF IInv, NeedsMet
<1> QED
  BY Invariance, <1>1, PTL
=============================================================================
