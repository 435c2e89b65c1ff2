---------------------------- MODULE AirLangProofs ----------------------------
(***************************************************************************)
(* Proofs about AirLang, for every set of items an author may write, every *)
(* host, any number of items and of runs.                                  *)
(*                                                                         *)
(* The loop of build_workflow is a recursive function.  That it exists is  *)
(* shown by the least length for which it would not; what its state says   *)
(* of the statements behind it (Faithful), by the least turn after which   *)
(* it would be wrong.  The invariant AirInv then carries what was built    *)
(* through the runs, where each name's value is its last entry's.          *)
(***************************************************************************)
EXTENDS AirLang, FiniteSetTheorems, WellFoundedInduction, SequenceTheorems, TLAPS

-----------------------------------------------------------------------------
(* Sequences of anything.                                                  *)

IsSequence(s) == \E S : s \in Seq(S)

LEMMA SequenceIs ==
  ASSUME NEW s, IsSequence(s)
  PROVE  Len(s) \in Nat /\ DOMAIN s = 1 .. Len(s)
BY DEF IsSequence

LEMMA Appended ==
  ASSUME NEW s, NEW x, IsSequence(s)
  PROVE  /\ IsSequence(Append(s, x)) /\ Len(Append(s, x)) = Len(s) + 1
         /\ Append(s, x)[Len(s) + 1] = x
         /\ \A i \in 1 .. Len(s) : Append(s, x)[i] = s[i]
<1>1. PICK S : s \in Seq(S)
  BY DEF IsSequence
<1> DEFINE T == S \cup {x}
<1>2. s \in Seq(T) /\ x \in T
  BY <1>1
<1>3. Append(s, x) \in Seq(T)
  BY <1>2, AppendProperties
<1>4. QED
  BY <1>2, <1>3, AppendProperties DEF IsSequence

(* Any set of numbers that is not empty has a least one.                   *)
LEMMA LeastNumber ==
  ASSUME NEW T \in SUBSET Nat, T # {}
  PROVE  \E x \in T : \A y \in T : x <= y
<1> DEFINE Less == {p \in Nat \X Nat : p[1] < p[2]}
<1>1. IsWellFoundedOn(Less, Nat)
  BY NatLessThanWellFounded, Zenon DEF OpToRel
<1>2. PICK x \in T : \A y \in T : <<y, x>> \notin Less
  BY <1>1, WFMin
<1>3. \A y \in T : ~(y < x)
  <2> TAKE y \in T
  <2>1. <<y, x>> \in Nat \X Nat /\ <<y, x>>[1] = y /\ <<y, x>>[2] = x
    OBVIOUS
  <2>2. QED
    BY <1>2, <2>1
<1>4. QED
  BY <1>3

-----------------------------------------------------------------------------
(* The loop of build_workflow exists, so Turns is what its definition says.*)
IsLoop(f, body, h, n) ==
  f = [k \in 0 .. n |-> IF k = 0 THEN Begins(body, h) ELSE BuildNode(f[k - 1], k, body, h)]

LEMMA LongerLoop ==
  ASSUME NEW body, NEW h, NEW n \in Nat, NEW f, IsLoop(f, body, h, n)
  PROVE  \E g : IsLoop(g, body, h, n + 1)
<1> DEFINE g == [k \in 0 .. n + 1 |-> IF k = n + 1 THEN BuildNode(f[n], n + 1, body, h) ELSE f[k]]
<1>1. \A k \in 0 .. n + 1 : g[k] = IF k = 0 THEN Begins(body, h)
                                   ELSE BuildNode(g[k - 1], k, body, h)
  <2> SUFFICES ASSUME NEW k \in 0 .. n + 1
               PROVE  g[k] = IF k = 0 THEN Begins(body, h)
                             ELSE BuildNode(g[k - 1], k, body, h)
    OBVIOUS
  <2>1. CASE k = n + 1
    BY <2>1
  <2>2. CASE k # n + 1
    BY <2>2 DEF IsLoop
  <2>3. QED
    BY <2>1, <2>2
<1>2. IsLoop(g, body, h, n + 1)
  BY <1>1 DEF IsLoop
<1>3. QED
  BY <1>2

LEMMA LoopExists ==
  ASSUME NEW body, NEW h, NEW n \in Nat
  PROVE  \E f : IsLoop(f, body, h, n)
<1> DEFINE Missing == {m \in Nat : ~\E f : IsLoop(f, body, h, m)}
<1>1. 0 \notin Missing
  <2>1. IsLoop([k \in 0 .. 0 |-> Begins(body, h)], body, h, 0)
    BY DEF IsLoop
  <2>2. QED
    BY <2>1
<1>2. ASSUME NEW m \in Nat, m \notin Missing PROVE m + 1 \notin Missing
  BY <1>2, LongerLoop
<1>3. Missing = {}
  <2> SUFFICES ASSUME Missing # {} PROVE FALSE
    OBVIOUS
  <2>1. Missing \in SUBSET Nat
    OBVIOUS
  <2> HIDE DEF Missing
  <2>2. PICK m \in Missing : \A l \in Missing : m <= l
    BY <2>1, LeastNumber
  <2>3. m - 1 \in Nat /\ m - 1 \notin Missing
    BY <1>1, <2>1, <2>2
  <2>4. QED
    BY <1>2, <2>1, <2>2, <2>3
<1>4. QED
  BY <1>3

LEMMA TurnsIs ==
  ASSUME NEW body, NEW h, Len(body) \in Nat
  PROVE  /\ Turns(body, h)[0] = Begins(body, h)
         /\ \A k \in 1 .. Len(body) :
              Turns(body, h)[k] = BuildNode(Turns(body, h)[k - 1], k, body, h)
<1>1. PICK f : IsLoop(f, body, h, Len(body))
  BY LoopExists
<1>2. Turns(body, h) = CHOOSE g : IsLoop(g, body, h, Len(body))
  BY DEF Turns, IsLoop
<1>3. IsLoop(Turns(body, h), body, h, Len(body))
  BY <1>1, <1>2
<1>4. QED
  BY <1>3 DEF IsLoop

-----------------------------------------------------------------------------
(* How many of the first statements run something.                         *)

LEMMA RankStep ==
  ASSUME NEW body, NEW k \in Nat
  PROVE  /\ Rank(body, k) \in Nat /\ Rank(body, 0) = 0
         /\ Runs(body, k + 1) => Rank(body, k + 1) = Rank(body, k) + 1
         /\ ~Runs(body, k + 1) => Rank(body, k + 1) = Rank(body, k)
<1> DEFINE Of(n) == {j \in 1 .. n : Runs(body, j)}
<1>1. ASSUME NEW n \in Nat PROVE IsFiniteSet(Of(n)) /\ Cardinality(Of(n)) \in Nat
  <2>1. IsFiniteSet(1 .. n) /\ Of(n) \subseteq 1 .. n
    BY FS_Interval
  <2>2. QED
    BY <2>1, FS_Subset, FS_CardinalityType
<1>2. Of(0) = {} /\ k + 1 \notin Of(k)
  OBVIOUS
<1>3. Runs(body, k + 1) => Of(k + 1) = Of(k) \cup {k + 1}
  OBVIOUS
<1>4. ~Runs(body, k + 1) => Of(k + 1) = Of(k)
  OBVIOUS
<1>5. \A n : Rank(body, n) = Cardinality(Of(n))
  BY DEF Rank
<1> HIDE DEF Of
<1>6. Runs(body, k + 1) => Cardinality(Of(k + 1)) = Cardinality(Of(k)) + 1
  BY <1>1, <1>2, <1>3, FS_AddElement
<1>7. QED
  BY <1>1, <1>2, <1>4, <1>5, <1>6, FS_EmptySet

LEMMA RankGrows ==
  ASSUME NEW body, NEW j \in Nat, NEW k \in Nat, j <= k
  PROVE  Rank(body, j) <= Rank(body, k)
<1> DEFINE Of(n) == {i \in 1 .. n : Runs(body, i)}
<1>1. IsFiniteSet(1 .. k) /\ Of(k) \subseteq 1 .. k /\ Of(j) \subseteq Of(k)
  BY FS_Interval
<1>2. IsFiniteSet(Of(k))
  BY <1>1, FS_Subset
<1>3. QED
  BY <1>1, <1>2, FS_Subset DEF Rank

LEMMA RankOf ==
  ASSUME NEW body, NEW k \in Nat, NEW j \in 1 .. k, Runs(body, j)
  PROVE  Rank(body, j) \in 1 .. Rank(body, k)
<1>1. Rank(body, j) = Rank(body, j - 1) + 1 /\ Rank(body, j - 1) \in Nat
  BY RankStep, j - 1 \in Nat, (j - 1) + 1 = j
<1>2. Rank(body, j) <= Rank(body, k) /\ Rank(body, k) \in Nat
  BY RankGrows, RankStep
<1>3. QED
  BY <1>1, <1>2

-----------------------------------------------------------------------------
(* One turn of the loop.                                                   *)

(* The loop's state as a record, which EXCEPT changes field by field.      *)
Shaped(b) ==
  b = [next |-> b.next, pending |-> b.pending, error |-> b.error,
       built |-> [policy |-> b.built.policy, memory |-> b.built.memory,
                  steps |-> b.built.steps]]

(* The first k statements have their entries.                              *)
BuiltSoFar(body, steps, k) ==
  /\ IsSequence(steps) /\ Len(steps) = Rank(body, k)
  /\ \A j \in 1 .. k : /\ PassedOver(body, j)
                       /\ Runs(body, j) => EntryMeans(steps[Rank(body, j)], body, j)

(* What holds of the loop's state b once it is past the first k statements *)
(* of the body and has raised nothing: the entries are those of the        *)
(* statements that run something, an `if` was folded into the consensus    *)
(* before it, and only a parallel block is waiting to be reduced.          *)
Faithful(body, b, k) ==
  /\ b.next \in {k + 1, k + 2}
  /\ b.next = k + 2 => k \in 1 .. Len(body) - 1 /\ HasFallback(body, k)
  /\ b.pending # 0 => /\ k > 0 /\ body[k].kind = "parallel"
                      /\ b.pending = Rank(body, k) /\ b.next = k + 1
  /\ BuiltSoFar(body, b.built.steps, k)

Errors == {"binding", "unsupported"}

Turned(body, b, k) ==
  Shaped(b) /\ (b.error \in Errors \/ (b.error = "none" /\ Faithful(body, b, k)))

LEMMA NameIs ==
  ASSUME NEW body, IsSequence(body), NEW k \in 1 .. Len(body)
  PROVE  /\ ~HasFallback(body, k) => BindingName(body, k + 1) = Named(body, k)
         /\ HasFallback(body, k) => BindingName(body, k + 2) = Named(body, k)
<1>1. Len(body) \in Nat
  BY SequenceIs
<1>2. \A last \in Nat : (last + 1 > Len(body) \/ body[last + 1].kind # "artifact")
                          <=> ~Follows(body, last, "artifact")
  BY <1>1 DEF Follows
<1>3. \A last \in Nat :
        BindingName(body, last + 1) =
          IF ~Follows(body, last, "artifact") THEN Nothing ELSE Alias(body, body[last + 1].name)
  BY <1>1, <1>2 DEF BindingName
<1>4. (k + 1) + 1 = k + 2 /\ k + 1 \in Nat
  OBVIOUS
<1>5. CASE HasFallback(body, k)
  <2>1. Named(body, k) = IF ~Follows(body, k + 1, "artifact") THEN Nothing
                         ELSE Alias(body, body[(k + 1) + 1].name)
    BY <1>5, Zenon DEF Named, Alias
  <2>2. QED
    BY <1>3, <1>4, <1>5, <2>1
<1>6. CASE ~HasFallback(body, k)
  <2>1. Named(body, k) = IF ~Follows(body, k, "artifact") THEN Nothing
                         ELSE Alias(body, body[k + 1].name)
    BY <1>6, Zenon DEF Named, Alias
  <2>2. QED
    BY <1>3, <1>6, <2>1
<1>7. QED
  BY <1>5, <1>6

LEMMA EntryAdded ==
  ASSUME NEW body, NEW steps, NEW k \in Nat, BuiltSoFar(body, steps, k),
         Runs(body, k + 1), NEW entry, EntryMeans(entry, body, k + 1)
  PROVE  BuiltSoFar(body, Append(steps, entry), k + 1) /\ Rank(body, k + 1) = Len(steps) + 1
<1> DEFINE more == Append(steps, entry)
<1>1. /\ IsSequence(more) /\ Len(more) = Len(steps) + 1 /\ more[Len(steps) + 1] = entry
      /\ \A i \in 1 .. Len(steps) : more[i] = steps[i]
  BY Appended DEF BuiltSoFar
<1>2. Rank(body, k + 1) = Len(steps) + 1
  BY RankStep DEF BuiltSoFar
<1>3. ASSUME NEW j \in 1 .. k, Runs(body, j)
      PROVE  more[Rank(body, j)] = steps[Rank(body, j)]
  BY <1>1, <1>3, RankOf DEF BuiltSoFar
<1>4. PassedOver(body, k + 1)
  BY DEF Runs, PassedOver
<1> HIDE DEF more
<1>5. ASSUME NEW j \in 1 .. k + 1
      PROVE  PassedOver(body, j) /\ (Runs(body, j) => EntryMeans(more[Rank(body, j)], body, j))
  <2>1. CASE j = k + 1
    BY <1>1, <1>2, <1>4, <2>1
  <2>2. CASE j # k + 1
    <3>1. j \in 1 .. k
      BY <2>2
    <3>2. QED
      BY <1>3, <3>1 DEF BuiltSoFar
  <2>3. QED
    BY <2>1, <2>2
<1>6. BuiltSoFar(body, more, k + 1)
  BY <1>1, <1>2, <1>5 DEF BuiltSoFar
<1>7. QED
  BY <1>2, <1>6 DEF more

LEMMA SamePassed ==
  ASSUME NEW body, NEW steps, NEW k \in Nat \ {0}, BuiltSoFar(body, steps, k - 1),
         ~Runs(body, k), PassedOver(body, k)
  PROVE  BuiltSoFar(body, steps, k)
<1>1. PICK i \in Nat : k = i + 1 /\ i = k - 1
  OBVIOUS
<1>2. Rank(body, k) = Rank(body, i)
  BY <1>1, RankStep
<1>3. \A j \in 1 .. k : j = k \/ j \in 1 .. i
  BY <1>1
<1>4. QED
  BY <1>1, <1>2, <1>3 DEF BuiltSoFar

LEMMA TurnAdds ==
  ASSUME NEW body, NEW k \in 1 .. Len(body), Len(body) \in Nat,
         NEW b, Faithful(body, b, k - 1), Runs(body, k),
         NEW entry, EntryMeans(entry, body, k),
         NEW c, c.built.steps = Append(b.built.steps, entry),
         c.next \in {k + 1, k + 2},
         c.next = k + 2 => k < Len(body) /\ HasFallback(body, k),
         c.pending # 0 => /\ body[k].kind = "parallel" /\ c.next = k + 1
                          /\ c.pending = Len(b.built.steps) + 1
  PROVE  Faithful(body, c, k)
<1>1. PICK i \in Nat : k = i + 1 /\ i = k - 1
  OBVIOUS
<1>2. BuiltSoFar(body, b.built.steps, i)
  BY <1>1 DEF Faithful
<1>3. BuiltSoFar(body, c.built.steps, k) /\ Rank(body, k) = Len(b.built.steps) + 1
  BY <1>1, <1>2, EntryAdded
<1>4. c.pending # 0 => /\ k > 0 /\ body[k].kind = "parallel"
                       /\ c.pending = Rank(body, k) /\ c.next = k + 1
  BY <1>3
<1>5. QED
  BY <1>3, <1>4 DEF Faithful

LEMMA RaisedTurns ==
  ASSUME NEW body, NEW b, Shaped(b), NEW error \in Errors, NEW k
  PROVE  Turned(body, Raised(b, error), k)
BY DEF Turned, Shaped, Raised

LEMMA AddedIs ==
  ASSUME NEW w, w = [policy |-> w.policy, memory |-> w.memory, steps |-> w.steps], NEW entry
  PROVE  Added(w, entry) = [policy |-> w.policy, memory |-> w.memory,
                            steps |-> Append(w.steps, entry)]
BY DEF Added

(* What a turn that adds an entry makes of the loop's state.               *)
Turn(b, next, pending, entry) ==
  [b EXCEPT !.next = next, !.pending = pending, !.built = Added(@, entry)]

LEMMA TurnIs ==
  ASSUME NEW b, Shaped(b), NEW next, NEW pending, NEW entry
  PROVE  LET c == Turn(b, next, pending, entry) IN
         /\ Shaped(c) /\ c.next = next /\ c.pending = pending /\ c.error = b.error
         /\ c.built.steps = Append(b.built.steps, entry)
<1>1. PICK p, m, s, e : /\ p = b.built.policy /\ m = b.built.memory
                        /\ s = b.built.steps /\ e = b.error
  OBVIOUS
<1> DEFINE w == [policy |-> p, memory |-> m, steps |-> s]
<1>2. PICK n, q : b = [next |-> n, pending |-> q, error |-> e, built |-> w]
  BY <1>1 DEF Shaped
<1>3. b.built = w
  BY <1>2
<1>4. PICK more : more = Append(s, entry)
  OBVIOUS
<1>5. Added(w, entry) = [policy |-> p, memory |-> m, steps |-> more]
  BY <1>4, AddedIs
<1>6. PICK c : c = Turn(b, next, pending, entry)
  OBVIOUS
<1>7. c = [next |-> next, pending |-> pending, error |-> e,
           built |-> [policy |-> p, memory |-> m, steps |-> more]]
  <2>1. PICK x : x = Added(w, entry)
    OBVIOUS
  <2>2. c = [b EXCEPT !.next = next, !.pending = pending, !.built = x]
    BY <1>3, <1>6, <2>1 DEF Turn
  <2> HIDE DEF w
  <2>3. c = [next |-> next, pending |-> pending, error |-> e, built |-> x]
    BY <1>2, <2>2
  <2>4. QED
    BY <1>5, <2>1, <2>3
<1>8. Shaped(c) /\ c.next = next /\ c.pending = pending /\ c.error = e /\ c.built.steps = more
  BY <1>7 DEF Shaped
<1>9. QED
  BY <1>1, <1>4, <1>6, <1>8

LEMMA StepTurns ==
  ASSUME NEW body, IsSequence(body), NEW k \in 1 .. Len(body), NEW h, NEW name,
         NEW b, Shaped(b), b.error = "none", Faithful(body, b, k - 1),
         body[k].kind \in {"step", "ref"}
  PROVE  Turned(body, BuildStep(b, k, name, body, h), k)
<1>1. CASE ~Resolvable({name}, h)
  BY <1>1, RaisedTurns DEF BuildStep, Errors
<1>2. CASE Resolvable({name}, h)
  <2> DEFINE entry == NewEntry("step", <<Resolve(name, h)>>, BindingName(body, k + 1))
             c == BuildStep(b, k, name, body, h)
  <2>1. c = Turn(b, k + 1, 0, entry)
    BY <1>2 DEF BuildStep, Step, Turn
  <2>2. EntryMeans(entry, body, k)
    <3>1. ~HasFallback(body, k)
      BY DEF HasFallback
    <3>2. entry.kind = "step" /\ entry.as = Named(body, k) /\ entry.fallback = {}
      BY <3>1, NameIs DEF NewEntry
    <3>3. QED
      BY <3>1, <3>2 DEF EntryMeans
  <2> HIDE DEF entry, c
  <2>3. /\ Shaped(c) /\ c.next = k + 1 /\ c.pending = 0 /\ c.error = "none"
        /\ c.built.steps = Append(b.built.steps, entry)
    BY <2>1, TurnIs
  <2>4. Len(body) \in Nat /\ Runs(body, k)
    BY SequenceIs DEF Runs
  <2>5. c.next \in {k + 1, k + 2} /\ c.next # k + 2
    BY <2>3
  <2>6. Faithful(body, c, k)
    BY <2>2, <2>3, <2>4, <2>5, TurnAdds
  <2>7. QED
    BY <2>3, <2>6 DEF Turned, c
<1>3. QED
  BY <1>1, <1>2

LEMMA ParallelTurns ==
  ASSUME NEW body, IsSequence(body), NEW k \in 1 .. Len(body), NEW h, NEW members,
         NEW b, Shaped(b), b.error = "none", Faithful(body, b, k - 1),
         body[k].kind = "parallel"
  PROVE  Turned(body, BuildParallel(b, k, members, h), k)
<1>1. CASE ~Resolvable(Range(members), h)
  BY <1>1, RaisedTurns DEF BuildParallel, Errors
<1>2. CASE Resolvable(Range(members), h)
  <2> DEFINE entry == NewEntry("parallel", [i \in DOMAIN members |-> Resolve(members[i], h)],
                               Nothing)
             c == BuildParallel(b, k, members, h)
             pending == Len(b.built.steps) + 1
  <2>1. c = Turn(b, k + 1, pending, entry)
    BY <1>2 DEF BuildParallel, Parallel, Turn
  <2>2. EntryMeans(entry, body, k)
    BY DEF EntryMeans, HasFallback, NewEntry
  <2> HIDE DEF entry, c
  <2>3. /\ Shaped(c) /\ c.next = k + 1 /\ c.pending = pending /\ c.error = "none"
        /\ c.built.steps = Append(b.built.steps, entry)
    BY <2>1, TurnIs
  <2>4. Len(body) \in Nat /\ Runs(body, k)
    BY SequenceIs DEF Runs
  <2>5. Faithful(body, c, k)
    BY <2>2, <2>3, <2>4, TurnAdds
  <2>6. QED
    BY <2>3, <2>5 DEF Turned, c
<1>3. QED
  BY <1>1, <1>2

LEMMA FallbackErrorType ==
  ASSUME NEW node, NEW consensus, NEW h
  PROVE  /\ FallbackError(node, consensus, h) \in Errors \cup {"none"}
         /\ FallbackError(node, consensus, h) = "none" =>
              (node.field = "confidence" => consensus.strategy = "judge" /\ consensus.confidence)
BY DEF FallbackError, Errors

LEMMA ConsensusTurns ==
  ASSUME NEW body, IsSequence(body), NEW k \in 1 .. Len(body), NEW h,
         NEW b, Shaped(b), b.error = "none", Faithful(body, b, k - 1),
         body[k].kind = "consensus"
  PROVE  Turned(body, BuildConsensus(b, k, body, h), k)
<1> DEFINE node == body[k]
           folded == k < Len(body) /\ body[k + 1].kind = "if"
           error == IF b.pending = 0 \/ ~StrategyKnown(node.strategy, h) THEN "binding"
                    ELSE IF folded THEN FallbackError(body[k + 1], node, h) ELSE "none"
           as == ConsensusName(body, k, folded)
           fallback == IF folded THEN {Resolve(body[k + 1].then[1].name, h)} ELSE {}
           next == IF folded THEN k + 2 ELSE k + 1
           entry == [NewEntry("consensus", b.built.steps[b.pending].executables, as) EXCEPT
                       !.source = b.pending, !.strategy = node.strategy, !.fallback = fallback]
           c == BuildConsensus(b, k, body, h)
<1>1. folded <=> HasFallback(body, k)
  BY DEF HasFallback, Follows
<1>2. c = IF error # "none" THEN Raised(b, error)
          ELSE Turn(b, next, 0, entry)
  BY DEF BuildConsensus, Reuse, Turn
<1>3. CASE error # "none"
  <2>1. error \in Errors
    BY <1>3, FallbackErrorType DEF Errors
  <2>2. QED
    BY <1>2, <1>3, <2>1, RaisedTurns
<1>4. CASE error = "none"
  <2>1. b.pending # 0 /\ (folded => FallbackError(body[k + 1], node, h) = "none")
    BY <1>4
  <2>2. k > 1 /\ body[k - 1].kind = "parallel" /\ b.pending = Rank(body, k - 1)
    BY <2>1 DEF Faithful
  <2>3. Rank(body, k - 1) = Rank(body, k) - 1
    BY RankStep, k - 1 \in Nat, (k - 1) + 1 = k DEF Runs
  <2>4. as = Named(body, k)
    BY <1>1, NameIs DEF ConsensusName
  <2>5. EntryMeans(entry, body, k)
    <3>1. /\ entry.kind = "consensus" /\ entry.as = Named(body, k)
          /\ entry.source = b.pending /\ entry.fallback = fallback
      BY <2>4 DEF NewEntry
    <3>2. fallback # {} <=> HasFallback(body, k)
      BY <1>1
    <3>3. HasFallback(body, k) /\ body[k + 1].field = "confidence"
            => body[k].strategy = "judge" /\ body[k].confidence
      BY <1>1, <2>1, FallbackErrorType
    <3> HIDE DEF entry, fallback
    <3>4. QED
      BY <2>2, <2>3, <3>1, <3>2, <3>3 DEF EntryMeans
  <2>6. next \in {k + 1, k + 2} /\ (next = k + 2 => k < Len(body) /\ HasFallback(body, k))
    BY <1>1
  <2> HIDE DEF entry, c, next
  <2>7. /\ Shaped(c) /\ c.next = next /\ c.pending = 0 /\ c.error = "none"
        /\ c.built.steps = Append(b.built.steps, entry)
    BY <1>2, <1>4, TurnIs
  <2>8. Len(body) \in Nat /\ Runs(body, k)
    BY SequenceIs DEF Runs
  <2>9. Faithful(body, c, k)
    BY <2>5, <2>6, <2>7, <2>8, TurnAdds
  <2>10. QED
    BY <2>7, <2>9 DEF Turned, c
<1>5. QED
  BY <1>3, <1>4

LEMMA PassOverTurns ==
  ASSUME NEW body, Len(body) \in Nat, NEW k \in 1 .. Len(body),
         NEW b, Shaped(b), b.error = "none", Faithful(body, b, k - 1),
         ~Runs(body, k), PassedOver(body, k)
  PROVE  Turned(body, PassOver(b, k), k)
<1>1. PICK c : c = PassOver(b, k)
  OBVIOUS
<1>2. PICK n, q, e, w : b = [next |-> n, pending |-> q, error |-> e, built |-> w]
  BY DEF Shaped
<1>3. c = [next |-> k + 1, pending |-> 0, error |-> e, built |-> w]
  BY <1>1, <1>2 DEF PassOver
<1>4. c.next = k + 1 /\ c.pending = 0 /\ c.error = b.error /\ c.built = b.built
  BY <1>2, <1>3
<1>5. Shaped(c)
  BY <1>2, <1>3 DEF Shaped
<1>6. BuiltSoFar(body, b.built.steps, k)
  BY SamePassed DEF Faithful
<1>7. Faithful(body, c, k)
  BY <1>4, <1>6 DEF Faithful
<1>8. QED
  BY <1>1, <1>4, <1>5, <1>7 DEF Turned

(* An `if` that its consensus has consumed.                                *)
LEMMA FoldedTurns ==
  ASSUME NEW body, Len(body) \in Nat, NEW k \in 1 .. Len(body),
         NEW b, Shaped(b), b.error = "none", Faithful(body, b, k - 1), k < b.next
  PROVE  Turned(body, b, k)
<1>1. b.next = k + 1 /\ k > 1 /\ HasFallback(body, k - 1) /\ b.pending = 0
  BY DEF Faithful
<1>2. body[k].kind = "if"
  BY <1>1 DEF HasFallback, Follows
<1>3. ~Runs(body, k) /\ PassedOver(body, k)
  BY <1>1, <1>2 DEF Runs, PassedOver
<1>4. BuiltSoFar(body, b.built.steps, k)
  BY <1>3, SamePassed DEF Faithful
<1>5. QED
  BY <1>1, <1>4 DEF Faithful, Turned

LEMMA NodeTurns ==
  ASSUME NEW body, IsSequence(body), NEW k \in 1 .. Len(body), NEW h, NEW b,
         Turned(body, b, k - 1)
  PROVE  Turned(body, BuildNode(b, k, body, h), k)
<1>1. CASE b.error # "none"
  BY <1>1 DEF BuildNode, Turned
<1>2. CASE b.error = "none"
  <2>1. Shaped(b) /\ Faithful(body, b, k - 1) /\ Len(body) \in Nat
    BY <1>2, SequenceIs DEF Turned, Errors
  <2>2. CASE k < b.next
    BY <1>2, <2>1, <2>2, FoldedTurns DEF BuildNode
  <2>3. CASE ~(k < b.next)
    <3>1. CASE body[k].kind \in {"step", "ref"}
      BY <1>2, <2>1, <2>3, <3>1, StepTurns DEF BuildNode
    <3>2. CASE body[k].kind = "parallel"
      BY <1>2, <2>1, <2>3, <3>2, ParallelTurns DEF BuildNode
    <3>3. CASE body[k].kind = "consensus"
      BY <1>2, <2>1, <2>3, <3>3, ConsensusTurns DEF BuildNode
    <3>4. CASE body[k].kind \in {"artifact", "let"}
      <4>1. ~Runs(body, k) /\ PassedOver(body, k)
        BY <3>4 DEF Runs, PassedOver
      <4>2. BuildNode(b, k, body, h) = PassOver(b, k)
        BY <1>2, <2>3, <3>4 DEF BuildNode
      <4>3. QED
        BY <1>2, <2>1, <4>1, <4>2, PassOverTurns
    <3>5. CASE body[k].kind \notin {"step", "ref", "parallel", "consensus", "artifact", "let"}
      <4>1. BuildNode(b, k, body, h) = Raised(b, "unsupported")
        BY <1>2, <2>3, <3>5 DEF BuildNode
      <4>2. QED
        BY <2>1, <4>1, RaisedTurns DEF Errors
    <3>6. QED
      BY <3>1, <3>2, <3>3, <3>4, <3>5
  <2>4. QED
    BY <2>2, <2>3
<1>3. QED
  BY <1>1, <1>2

LEMMA BeginsTurned ==
  ASSUME NEW body, NEW h
  PROVE  Turned(body, Begins(body, h), 0)
<1>1. PICK p, m, e : /\ e \in {"none", "binding"}
                     /\ Begins(body, h) = [next |-> 1, pending |-> 0, error |-> e,
                          built |-> [policy |-> p, memory |-> m, steps |-> << >>]]
  <2> DEFINE b == Begins(body, h)
  <2>1. b.error \in {"none", "binding"}
    BY DEF Begins
  <2>2. b = [next |-> 1, pending |-> 0, error |-> b.error,
             built |-> [policy |-> b.built.policy, memory |-> b.built.memory,
                        steps |-> << >>]]
    BY DEF Begins, NewWorkflow
  <2>3. QED
    BY <2>1, <2>2
<1>2. PICK b : b = Begins(body, h)
  OBVIOUS
<1>3. IsSequence(<< >>) /\ Len(<< >>) = 0
  BY EmptySeq DEF IsSequence
<1>4. BuiltSoFar(body, << >>, 0)
  BY <1>3, RankStep DEF BuiltSoFar
<1>5. Shaped(b) /\ b.next = 1 /\ b.pending = 0 /\ b.error \in {"none", "binding"}
      /\ b.built.steps = << >>
  BY <1>1, <1>2 DEF Shaped
<1>6. Faithful(body, b, 0)
  BY <1>4, <1>5 DEF Faithful
<1>7. QED
  BY <1>2, <1>5, <1>6 DEF Turned, Errors

(* By the least turn that would be wrong.                                  *)
LEMMA AllTurned ==
  ASSUME NEW body, IsSequence(body), NEW h
  PROVE  Turned(body, Turns(body, h)[Len(body)], Len(body))
<1>1. Len(body) \in Nat
  BY SequenceIs
<1> DEFINE Wrong == {k \in 0 .. Len(body) : ~Turned(body, Turns(body, h)[k], k)}
<1>2. 0 \notin Wrong
  BY <1>1, BeginsTurned, TurnsIs
<1>3. ASSUME NEW k \in 1 .. Len(body), k - 1 \notin Wrong PROVE k \notin Wrong
  <2>1. Turned(body, Turns(body, h)[k - 1], k - 1)
    BY <1>1, <1>3
  <2>2. Turned(body, BuildNode(Turns(body, h)[k - 1], k, body, h), k)
    BY <2>1, NodeTurns
  <2>3. QED
    BY <1>1, <2>2, TurnsIs
<1>4. Wrong = {}
  <2> SUFFICES ASSUME Wrong # {} PROVE FALSE
    OBVIOUS
  <2>1. Wrong \in SUBSET (0 .. Len(body)) /\ Wrong \in SUBSET Nat
    BY <1>1
  <2> HIDE DEF Wrong
  <2>2. PICK k \in Wrong : \A l \in Wrong : k <= l
    BY <2>1, LeastNumber
  <2>3. k \in 1 .. Len(body) /\ k - 1 \notin Wrong
    BY <1>1, <1>2, <2>1, <2>2
  <2>4. QED
    BY <1>3, <2>2, <2>3
<1>5. QED
  BY <1>1, <1>4

LEMMA BuiltFaithfully ==
  ASSUME NEW h, IsSequence(ir.workflow)
  PROVE  /\ BuildWorkflow(h).error \in Errors \cup {"none"}
         /\ BuildWorkflow(h).error = "none" =>
              BuiltSoFar(ir.workflow, BuildWorkflow(h).built.steps, Len(ir.workflow))
<1>1. PICK body, b : body = ir.workflow /\ b = Turns(body, h)[Len(body)]
  OBVIOUS
<1>2. Turned(body, b, Len(body))
  BY <1>1, AllTurned
<1>3. /\ b.error \in Errors \cup {"none"}
      /\ b.error = "none" => BuiltSoFar(body, b.built.steps, Len(body))
  BY <1>2 DEF Turned, Faithful, Errors
<1>4. QED
  BY <1>1, <1>3 DEF BuildWorkflow

-----------------------------------------------------------------------------
(* The invariant.                                                          *)

(* The IR as a record.                                                     *)
IRShaped(i) == i = [provider |-> i.provider, memory |-> i.memory, agents |-> i.agents,
                    policy |-> i.policy, workflow |-> i.workflow]

(* A stack of blocks whose bodies are sequences.                           *)
IsBlock(x) == x = [head |-> x.head, body |-> x.body] /\ IsSequence(x.body)
Blocks(s) == IsSequence(s) /\ \A i \in 1 .. Len(s) : IsBlock(s[i])

(* What was parsed has a workflow.                                         *)
FileInv ==
  /\ Blocks(open)
  /\ IRShaped(ir) /\ (ir.workflow # Nothing => IsSequence(ir.workflow))
  /\ phase = "parsed" => ir.workflow # Nothing

(* Before anything is built there is nothing to run.                       *)
NotBuilt ==
  phase \in {"text", "parsing", "parsed"} => workflow.steps = << >> /\ at = 0 /\ invoked = {}

(* The entries of this run that have given a name a value, and the last    *)
(* that gave it to the name n.                                             *)
Done == {i \in DOMAIN workflow.steps : i < at /\ workflow.steps[i].as # Nothing}
Gave(i, n) ==
  i \in Done /\ workflow.steps[i].as = n /\ \A j \in Done : workflow.steps[j].as = n => j <= i

BindingsSound ==
  /\ bindings = [n \in DOMAIN bindings |-> bindings[n]]
  /\ DOMAIN bindings = {workflow.steps[i].as : i \in Done}
  /\ \A n \in DOMAIN bindings : \E i \in Done : bindings[n] = <<run, i>> /\ Gave(i, n)

RunInv ==
  /\ IsSequence(workflow.steps) /\ NotBuilt /\ (phase = "running" => at >= 1)
  /\ BuiltAsWritten /\ BindingsSound /\ OnlyAgentsBypassApproval

AirInv == TypeOK /\ FileInv /\ RunInv

-----------------------------------------------------------------------------
(* The parser.                                                             *)

LEMMA EmptyFits == IsSequence(<< >>) /\ Len(<< >>) = 0
BY EmptySeq DEF IsSequence

LEMMA DeclaredIs ==
  ASSUME NEW item, IRShaped(ir)
  PROVE  IRShaped(Declared(item)) /\ Declared(item).workflow = ir.workflow
<1>1. PICK p, m, a, o, w : ir = [provider |-> p, memory |-> m, agents |-> a,
                                 policy |-> o, workflow |-> w]
  BY DEF IRShaped
<1>2. PICK x : x = Declared(item)
  OBVIOUS
<1>3. \E q, n, b, r : x = [provider |-> q, memory |-> n, agents |-> b,
                           policy |-> r, workflow |-> w]
  <2>1. CASE item.kind = "provider"
    BY <1>1, <1>2, <2>1 DEF Declared
  <2>2. CASE item.kind = "memory"
    BY <1>1, <1>2, <2>2 DEF Declared
  <2>3. CASE item.kind = "agent"
    <3>1. PICK b : b = Append(a, AgentOf(item))
      OBVIOUS
    <3>2. x = [ir EXCEPT !.agents = b]
      BY <1>1, <1>2, <2>3, <3>1 DEF Declared
    <3>3. QED
      BY <1>1, <3>2
  <2>4. CASE item.kind = "policy"
    <3>1. PICK b : b = PolicyOf(item.fields)
      OBVIOUS
    <3>2. x = [ir EXCEPT !.policy = b]
      BY <1>1, <1>2, <2>4, <3>1 DEF Declared
    <3>3. QED
      BY <1>1, <3>2
  <2>5. CASE item.kind \notin {"provider", "memory", "agent", "policy"}
    BY <1>1, <1>2, <2>5 DEF Declared
  <2>6. QED
    BY <2>1, <2>2, <2>3, <2>4, <2>5
<1>4. QED
  BY <1>1, <1>2, <1>3 DEF IRShaped

(* A block is put on top, grows, or goes.                                  *)
LEMMA BlockOpened ==
  ASSUME NEW s, Blocks(s), NEW head
  PROVE  Blocks(Append(s, [head |-> head, body |-> << >>]))
<1>1. PICK x : x = [head |-> head, body |-> << >>]
  OBVIOUS
<1>2. IsBlock(x)
  BY <1>1, EmptyFits DEF IsBlock
<1>3. PICK t : t = Append(s, x)
  OBVIOUS
<1>4. /\ IsSequence(t) /\ Len(t) = Len(s) + 1 /\ t[Len(s) + 1] = x /\ Len(s) \in Nat
      /\ \A i \in 1 .. Len(s) : t[i] = s[i]
  BY <1>3, Appended, SequenceIs DEF Blocks
<1>5. \A i \in 1 .. Len(t) : i = Len(s) + 1 \/ i \in 1 .. Len(s)
  BY <1>4
<1>6. QED
  BY <1>1, <1>2, <1>3, <1>4, <1>5 DEF Blocks

LEMMA BlockGrown ==
  ASSUME NEW s, Blocks(s), s # << >>, NEW node
  PROVE  Blocks([s EXCEPT ![Len(s)].body = Append(@, node)])
<1> PICK S : s \in Seq(S)
  BY DEF Blocks, IsSequence
<1>1. PICK n \in Nat : n = Len(s) /\ n > 0
  OBVIOUS
<1>2. PICK y : y = s[n] /\ IsBlock(y)
  BY <1>1 DEF Blocks
<1>3. PICK g, b : y = [head |-> g, body |-> b] /\ IsSequence(b)
  BY <1>2 DEF IsBlock
<1>4. PICK c : c = Append(b, node) /\ IsSequence(c)
  BY <1>3, Appended
<1>5. PICK x : x = [head |-> g, body |-> c]
  OBVIOUS
<1>6. [y EXCEPT !.body = c] = x /\ y.body = b
  BY <1>3, <1>5
<1>7. PICK t : t = [s EXCEPT ![n] = x]
  OBVIOUS
<1>8. [s EXCEPT ![Len(s)].body = Append(@, node)] = t
  BY <1>1, <1>2, <1>4, <1>6, <1>7
<1>9. IsSequence(t) /\ Len(t) = n /\ \A i \in 1 .. n : t[i] = IF i = n THEN x ELSE s[i]
  <2>1. s \in Seq(S \cup {x})
    BY <1>1
  <2>2. t \in Seq(S \cup {x}) /\ Len(t) = n
    BY <1>1, <1>7, <2>1
  <2>3. \A i \in 1 .. n : t[i] = IF i = n THEN x ELSE s[i]
    BY <1>1, <1>7
  <2>4. QED
    BY <2>2, <2>3 DEF IsSequence
<1>10. IsBlock(x)
  BY <1>4, <1>5 DEF IsBlock
<1>11. QED
  BY <1>1, <1>8, <1>9, <1>10 DEF Blocks

LEMMA BlockClosed ==
  ASSUME NEW s, Blocks(s), s # << >>
  PROVE  Blocks(Front(s)) /\ IsSequence(Last(s).body)
<1>1. PICK S : s \in Seq(S)
  BY DEF Blocks, IsSequence
<1>2. Len(s) > 0 /\ Len(s) \in Nat
  BY <1>1
<1>3. /\ Front(s) \in Seq(S) /\ Len(Front(s)) = Len(s) - 1
      /\ \A i \in 1 .. Len(s) - 1 : Front(s)[i] = s[i]
  <2>1. PICK n \in Nat : n = Len(s) - 1 /\ \A i \in 1 .. n : s[i] \in S
    BY <1>1, <1>2
  <2>2. /\ SubSeq(s, 1, n) \in Seq(S)
        /\ Len(SubSeq(s, 1, n)) = IF 1 <= n THEN n - 1 + 1 ELSE 0
        /\ \A i \in 1 .. n - 1 + 1 : SubSeq(s, 1, n)[i] = s[1 + i - 1]
    BY <2>1, SubSeqProperties, 1 \in Int, n \in Int
  <2>3. n - 1 + 1 = n /\ \A i \in 1 .. n : 1 + i - 1 = i
    OBVIOUS
  <2>4. /\ SubSeq(s, 1, n) \in Seq(S) /\ Len(SubSeq(s, 1, n)) = n
        /\ \A i \in 1 .. n : SubSeq(s, 1, n)[i] = s[i]
    BY <2>2, <2>3
  <2>5. QED
    BY <2>1, <2>4 DEF Front
<1>4. Blocks(Front(s))
  BY <1>2, <1>3 DEF Blocks, IsSequence
<1>5. IsBlock(Last(s))
  BY <1>2 DEF Last, Blocks
<1>6. QED
  BY <1>4, <1>5 DEF IsBlock

LEMMA FileQuiet ==
  ASSUME FileInv, UNCHANGED parsing, phase' = "parsed" => ir.workflow # Nothing
  PROVE  FileInv'
<1>1. ir' = ir /\ open' = open
  BY DEF parsing
<1>2. QED
  BY <1>1 DEF FileInv, Blocks, IsBlock, IRShaped, IsSequence

LEMMA DeclareKeeps == ASSUME FileInv, Declare PROVE FileInv'
<1>1. PICK item : ir' = Declared(item)
  BY DEF Declare
<1>2. open' = open /\ phase' = "parsing"
  BY DEF Declare, Parsing
<1>3. PICK i : i = Declared(item) /\ IRShaped(i) /\ i.workflow = ir.workflow
  BY DeclaredIs DEF FileInv
<1>4. QED
  BY <1>1, <1>2, <1>3 DEF FileInv

LEMMA OpenWorkflowKeeps == ASSUME FileInv, OpenWorkflow PROVE FileInv'
<1>1. PICK x : x = [head |-> Nothing, body |-> << >>]
  OBVIOUS
<1>2. IsBlock(x)
  BY <1>1, EmptyFits DEF IsBlock
<1>3. IsSequence(<<x>>) /\ \A i \in 1 .. Len(<<x>>) : IsBlock(<<x>>[i])
  <2>1. <<x>> \in Seq({x}) /\ Len(<<x>>) = 1 /\ <<x>>[1] = x
    OBVIOUS
  <2>2. IsSequence(<<x>>)
    BY <2>1 DEF IsSequence
  <2>3. \A i \in 1 .. Len(<<x>>) : <<x>>[i] = x
    BY <2>1
  <2>4. QED
    BY <1>2, <2>2, <2>3
<1>4. Blocks(<<x>>)
  BY <1>3 DEF Blocks
<1>5. open' = <<x>> /\ ir' = ir /\ phase' = "parsing"
  BY <1>1 DEF OpenWorkflow, Parsing
<1>6. QED
  BY <1>4, <1>5 DEF FileInv

LEMMA StateKeeps == ASSUME FileInv, State PROVE FileInv'
<1>1. PICK item : open' = IF item.kind = "if" THEN Append(open, [head |-> item, body |-> << >>])
                          ELSE Grown(Node(item))
  BY DEF State
<1>2. Blocks(open) /\ open # << >> /\ ir' = ir /\ phase' = "parsing"
  BY DEF State, Parsing, FileInv
<1>3. PICK a, g : /\ a = Append(open, [head |-> item, body |-> << >>]) /\ Blocks(a)
                  /\ g = Grown(Node(item)) /\ Blocks(g)
  BY <1>2, BlockOpened, BlockGrown DEF Grown
<1>4. open' \in {a, g}
  BY <1>1, <1>3
<1>5. QED
  BY <1>2, <1>3, <1>4 DEF FileInv

LEMMA CloseKeeps == ASSUME FileInv, Close PROVE FileInv'
<1>1. Blocks(open) /\ open # << >> /\ phase' = "parsing"
  BY DEF Close, Parsing, FileInv
<1>2. PICK outer, body, head : /\ outer = Front(open) /\ body = Last(open).body
                               /\ head = Last(open).head
  OBVIOUS
<1>3. Blocks(outer) /\ IsSequence(body)
  BY <1>1, <1>2, BlockClosed
<1>4. CASE outer = << >>
  <2>1. open' = << >> /\ ir' = [ir EXCEPT !.workflow = body]
    BY <1>2, <1>4 DEF Close
  <2>2. Blocks(<< >>)
    BY EmptyFits DEF Blocks
  <2>3. PICK p, m, a, o, w : ir = [provider |-> p, memory |-> m, agents |-> a,
                                   policy |-> o, workflow |-> w]
    BY DEF FileInv, IRShaped
  <2>4. PICK i : i = [provider |-> p, memory |-> m, agents |-> a, policy |-> o,
                      workflow |-> body]
    OBVIOUS
  <2>5. ir' = i
    BY <2>1, <2>3, <2>4
  <2>6. IRShaped(i) /\ i.workflow = body
    BY <2>4 DEF IRShaped
  <2>7. QED
    BY <1>1, <1>3, <2>1, <2>2, <2>5, <2>6 DEF FileInv
<1>5. CASE outer # << >>
  <2>1. PICK node : node = [Last(open).head EXCEPT !.then = body]
    OBVIOUS
  <2>2. PICK s : s = [outer EXCEPT ![Len(outer)].body = Append(@, node)] /\ Blocks(s)
    BY <1>3, <1>5, BlockGrown
  <2>3. open' = s /\ ir' = ir
    BY <1>2, <1>5, <2>1, <2>2 DEF Close
  <2>4. QED
    BY <1>1, <2>2, <2>3 DEF FileInv
<1>6. QED
  BY <1>4, <1>5

LEMMA RejectKeeps == ASSUME Reject PROVE FileInv'
<1>1. ir' = EmptyIR /\ open' = << >> /\ phase' = "rejected"
  BY DEF Reject
<1>2. Blocks(<< >>)
  BY EmptyFits DEF Blocks
<1>3. IRShaped(EmptyIR) /\ EmptyIR.workflow = Nothing
  BY DEF IRShaped, EmptyIR
<1>4. PICK i : i = EmptyIR
  OBVIOUS
<1>5. QED
  BY <1>1, <1>2, <1>3, <1>4 DEF FileInv

RunStep == Refused \/ Start \/ RunEntry \/ LimitReached \/ End \/ Report \/ Summarize

LEMMA FileKeeps == ASSUME FileInv, [Next]_vars PROVE FileInv'
<1>1. CASE Tokenize
  BY <1>1, FileQuiet DEF Tokenize
<1>2. CASE EndOfFile
  BY <1>2, FileQuiet DEF EndOfFile
<1>3. CASE Build
  <2>1. UNCHANGED parsing /\ ir.workflow # Nothing
    BY <1>3 DEF Build, FileInv
  <2>2. QED
    BY <2>1, FileQuiet
<1>4. CASE RunStep
  <2>1. UNCHANGED parsing /\ phase' # "parsed"
    BY <1>4 DEF RunStep, Refused, Start, RunEntry, LimitReached, End, Report, Summarize
  <2>2. QED
    BY <2>1, FileQuiet
<1>5. CASE UNCHANGED vars
  BY <1>5, FileQuiet DEF vars, FileInv
<1>6. QED
  BY <1>1, <1>2, <1>3, <1>4, <1>5, DeclareKeeps, OpenWorkflowKeeps, StateKeeps, CloseKeeps,
     RejectKeeps DEF Next, RunStep

-----------------------------------------------------------------------------
(* The workflow and its runs.                                              *)

(* What the entries are does not change while the bindings are not.        *)
LEMMA SoundQuiet ==
  ASSUME BindingsSound, workflow' = workflow, at' = at, run' = run, bindings' = bindings
  PROVE  BindingsSound'
<1>1. Done' = Done
  BY DEF Done
<1>2. \A i, n : Gave(i, n) => Gave(i, n)'
  BY <1>1 DEF Gave
<1>3. QED
  BY <1>1, <1>2 DEF BindingsSound

LEMMA NothingBound ==
  ASSUME Done = {}, bindings = << >> PROVE BindingsSound
<1>1. bindings = [n \in {} |-> n] /\ DOMAIN bindings = {}
  BY SMT
<1>2. QED
  BY <1>1 DEF BindingsSound

LEMMA RunQuiet ==
  ASSUME RunInv, UNCHANGED <<parsing, workflow, run, at, bindings, approved, invoked>>,
         phase' \notin {"text", "parsing", "parsed", "running"} \/ phase' = phase
  PROVE  RunInv'
<1>1. ir' = ir
  BY DEF parsing
<1>2. NotBuilt' /\ (phase' = "running" => at' >= 1)
  BY DEF RunInv, NotBuilt
<1>3. BuiltAsWritten'
  BY <1>1 DEF RunInv, BuiltAsWritten
<1>4. BindingsSound'
  BY SoundQuiet DEF RunInv
<1>5. OnlyAgentsBypassApproval' /\ IsSequence(workflow)' = IsSequence(workflow')
  BY DEF RunInv, OnlyAgentsBypassApproval, LoopTools
<1>6. IsSequence(workflow'.steps)
  BY DEF RunInv
<1>7. QED
  BY <1>2, <1>3, <1>4, <1>5, <1>6 DEF RunInv, IsSequence

(* While the file is read.                                                 *)
LEMMA ParsingKeeps ==
  ASSUME RunInv, phase \in {"text", "parsing"}, UNCHANGED <<workflow, running>>,
         phase' \in {"parsing", "parsed", "rejected"}
  PROVE  RunInv'
<1>1. workflow.steps = << >> /\ at = 0 /\ invoked = {}
  BY DEF RunInv, NotBuilt
<1>2. /\ run' = run /\ at' = at /\ bindings' = bindings /\ approved' = approved
      /\ invoked' = invoked /\ workflow' = workflow
  BY DEF running
<1>3. NotBuilt' /\ (phase' = "running" => at' >= 1) /\ BuiltAsWritten'
  BY <1>1, <1>2 DEF NotBuilt, BuiltAsWritten
<1>4. BindingsSound'
  BY <1>2, SoundQuiet DEF RunInv
<1>5. OnlyAgentsBypassApproval'
  BY <1>1, <1>2 DEF OnlyAgentsBypassApproval
<1>6. QED
  BY <1>2, <1>3, <1>4, <1>5 DEF RunInv, IsSequence

LEMMA BuildKeeps ==
  ASSUME RunInv, FileInv, Build
  PROVE  RunInv' /\ phase' \in {"built", "binding", "unsupported"}
<1>1. PICK h \in BindingsFor :
        IF BuildWorkflow(h).error = "none"
        THEN phase' = "built" /\ workflow' = BuildWorkflow(h).built
        ELSE phase' = BuildWorkflow(h).error /\ workflow' = workflow
  BY DEF Build
<1>2. /\ phase = "parsed" /\ ir' = ir /\ run' = run /\ at' = at /\ bindings' = bindings
      /\ approved' = approved /\ invoked' = invoked
  BY DEF Build, parsing, running
<1>3. workflow.steps = << >> /\ at = 0 /\ invoked = {}
  BY <1>2 DEF RunInv, NotBuilt
<1>4. IsSequence(ir.workflow)
  BY <1>2 DEF FileInv
<1>5. PICK b : b = BuildWorkflow(h)
  OBVIOUS
<1>6. /\ b.error \in Errors \cup {"none"}
      /\ b.error = "none" => BuiltSoFar(ir.workflow, b.built.steps, Len(ir.workflow))
  BY <1>4, <1>5, BuiltFaithfully
<1>7. phase' \in {"built", "binding", "unsupported"}
  BY <1>1, <1>5, <1>6 DEF Errors
<1>8. IsSequence(workflow'.steps) /\ BuiltAsWritten'
  <2>1. CASE b.error = "none"
    <3>1. BuiltSoFar(ir.workflow, workflow'.steps, Len(ir.workflow))
      BY <1>1, <1>5, <1>6, <2>1
    <3>2. DOMAIN ir.workflow = 1 .. Len(ir.workflow)
      BY <1>4, SequenceIs
    <3>3. QED
      BY <1>2, <3>1, <3>2 DEF BuiltSoFar, BuiltAsWritten
  <2>2. CASE b.error # "none"
    BY <1>1, <1>3, <1>5, <2>2 DEF BuiltAsWritten, RunInv
  <2>3. QED
    BY <2>1, <2>2
<1>9. BindingsSound'
  <2>1. DOMAIN workflow.steps \subseteq Nat /\ DOMAIN workflow'.steps \subseteq Nat
    BY <1>8, SequenceIs DEF RunInv
  <2>2. /\ DOMAIN workflow.steps = 1 .. Len(workflow.steps)
        /\ DOMAIN workflow'.steps = 1 .. Len(workflow'.steps)
    BY <1>8, SequenceIs DEF RunInv
  <2>3. Done = {} /\ Done' = {}
    BY <1>2, <1>3, <2>1, <2>2 DEF Done
  <2>4. QED
    BY <1>2, <2>3 DEF RunInv, BindingsSound
<1>10. OnlyAgentsBypassApproval'
  BY <1>2, <1>3 DEF OnlyAgentsBypassApproval
<1>11. NotBuilt' /\ (phase' = "running" => at' >= 1)
  BY <1>7 DEF NotBuilt
<1>12. QED
  BY <1>7, <1>8, <1>9, <1>10, <1>11 DEF RunInv, IsSequence

LEMMA StartKeeps == ASSUME RunInv, Start PROVE RunInv'
<1>1. /\ workflow' = workflow /\ ir' = ir /\ at' = 1 /\ bindings' = << >>
      /\ invoked' = {} /\ phase' = "running"
  BY DEF Start, parsing, Cleared
<1>2. Done' = {}
  <2>1. DOMAIN workflow.steps = 1 .. Len(workflow.steps)
    BY SequenceIs DEF RunInv
  <2>2. QED
    BY <1>1, <2>1 DEF Done
<1>3. BindingsSound'
  <2>1. bindings' = [n \in {} |-> n] /\ DOMAIN bindings' = {}
    BY <1>1, SMT
  <2>2. QED
    BY <1>2, <2>1 DEF BindingsSound
<1>4. BuiltAsWritten' /\ NotBuilt' /\ OnlyAgentsBypassApproval'
  BY <1>1 DEF RunInv, BuiltAsWritten, NotBuilt, OnlyAgentsBypassApproval
<1>5. QED
  BY <1>1, <1>3, <1>4 DEF RunInv, IsSequence

(* The tools that the executables of one entry may call, or are.           *)
LEMMA EntryTools ==
  ASSUME NEW i \in DOMAIN workflow.steps, NEW called \in Called(workflow.steps[i]),
         NEW x \in called
  PROVE  x.tools \subseteq LoopTools
<1>1. x \in Range(workflow.steps[i].executables) \cup workflow.steps[i].fallback
  BY DEF Called
<1>2. QED
  BY <1>1 DEF LoopTools

LEMMA EntryKeepsApproval ==
  ASSUME OnlyAgentsBypassApproval, NEW i \in DOMAIN workflow.steps, workflow' = workflow,
         NEW called \in Called(workflow.steps[i]), NEW granted \in BOOLEAN,
         Executes(called, granted)
  PROVE  OnlyAgentsBypassApproval'
<1> DEFINE named == workflow.policy.approval_for
           gated == {x \in called : x.name \in named}
           ran == IF granted THEN called ELSE called \ gated
<1>1. approved' = IF granted THEN approved \cup {x.name : x \in gated} ELSE approved
  BY DEF Executes
<1>2. PICK calls \in SUBSET UNION {x.tools : x \in {y \in ran : Renders(y)}} :
        invoked' = invoked \cup calls \cup {x.name : x \in {y \in ran : y.tool}}
  BY DEF Executes
<1>3. ran \subseteq called
  OBVIOUS
<1>4. calls \subseteq LoopTools
  BY <1>2, <1>3, EntryTools
<1>5. ASSUME NEW x \in ran, x.name \in named PROVE x.name \in approved'
  <2>1. x \in gated
    BY <1>3, <1>5
  <2>2. granted
    BY <1>5, <2>1
  <2>3. QED
    BY <1>1, <2>1, <2>2
<1>6. approved \subseteq approved' /\ LoopTools' = LoopTools
  BY <1>1 DEF LoopTools
<1>7. \A n \in invoked' : n \in invoked \/ n \in calls \/ \E x \in ran : n = x.name
  BY <1>2
<1> HIDE DEF gated, ran
<1>8. \A n \in invoked' : n \in named => n \in approved' \cup LoopTools
  BY <1>4, <1>5, <1>6, <1>7 DEF OnlyAgentsBypassApproval
<1>9. QED
  BY <1>6, <1>8 DEF OnlyAgentsBypassApproval

(* The next entry has succeeded.                                           *)
LEMMA EntryBinds ==
  ASSUME BindingsSound, at \in Nat, IsSequence(workflow.steps), at \in 1 .. Len(workflow.steps),
         workflow' = workflow, run' = run, at' = at + 1,
         bindings' = Bound(workflow.steps[at].as)
  PROVE  BindingsSound'
<1>1. PICK steps, name, now :
        /\ steps = workflow.steps /\ now = at /\ name = steps[now].as
        /\ now \in 1 .. Len(steps)
  OBVIOUS
<1>2. DOMAIN steps = 1 .. Len(steps) /\ Len(steps) \in Nat
  BY <1>1, SequenceIs
<1>3. /\ Done = {i \in DOMAIN steps : i < now /\ steps[i].as # Nothing}
      /\ Done' = {i \in DOMAIN steps : i < now + 1 /\ steps[i].as # Nothing}
  BY <1>1 DEF Done
<1>4. Done \subseteq Nat /\ (\A i \in Done : i < now)
      /\ \A i \in DOMAIN steps : i < now + 1 <=> i < now \/ i = now
  BY <1>1, <1>2, <1>3
<1>5. CASE name = Nothing
  <2>1. bindings' = bindings
    BY <1>1, <1>5 DEF Bound
  <2>2. Done' = Done
    BY <1>1, <1>3, <1>4, <1>5
  <2>3. \A i, n : Gave(i, n) => Gave(i, n)'
    BY <2>2 DEF Gave
  <2>4. QED
    BY <2>1, <2>2, <2>3 DEF BindingsSound
<1>6. CASE name # Nothing
  <2>1. Done' = Done \cup {now}
    BY <1>1, <1>2, <1>3, <1>4, <1>6
  <2>2. bindings' = [n \in DOMAIN bindings \cup {name} |->
                        IF n = name THEN <<run, now>> ELSE bindings[n]]
    BY <1>1, <1>6 DEF Bound
  <2>3. /\ DOMAIN bindings' = {name} \cup DOMAIN bindings
        /\ bindings' = [n \in DOMAIN bindings' |-> bindings'[n]]
        /\ \A n \in DOMAIN bindings' :
             bindings'[n] = IF n = name THEN <<run, now>> ELSE bindings[n]
    BY <2>2
  <2>4. DOMAIN bindings' = {steps[i].as : i \in Done'}
    BY <1>1, <2>1, <2>3 DEF BindingsSound
  <2>5. Gave(now, name)'
    <3>1. now \in Done' /\ \A j \in Done' : j <= now
      BY <1>1, <1>4, <2>1
    <3>2. steps = workflow'.steps
      BY <1>1
    <3>3. QED
      BY <1>1, <3>1, <3>2 DEF Gave
  <2>6. ASSUME NEW n, n # name, NEW i \in Done, Gave(i, n) PROVE Gave(i, n)'
    BY <1>1, <2>1, <2>6 DEF Gave
  <2>7. ASSUME NEW n \in DOMAIN bindings'
        PROVE  \E i \in Done' : bindings'[n] = <<run, i>> /\ Gave(i, n)'
    <3>1. CASE n = name
      BY <2>1, <2>3, <2>5, <3>1
    <3>2. CASE n # name
      <4>1. n \in DOMAIN bindings /\ bindings'[n] = bindings[n]
        BY <2>3, <2>7, <3>2
      <4>2. PICK i \in Done : bindings[n] = <<run, i>> /\ Gave(i, n)
        BY <4>1 DEF BindingsSound
      <4>3. QED
        BY <2>1, <2>6, <3>2, <4>1, <4>2
    <3>3. QED
      BY <3>1, <3>2
  <2>8. DOMAIN bindings' = {workflow'.steps[i].as : i \in Done'}
    BY <1>1, <2>4
  <2>9. \A n \in DOMAIN bindings' : \E i \in Done' : bindings'[n] = <<run', i>> /\ Gave(i, n)'
    BY <2>7
  <2>10. QED
    BY <2>3, <2>8, <2>9 DEF BindingsSound
<1>7. QED
  BY <1>5, <1>6

LEMMA RunEntryKeeps == ASSUME TypeOK, RunInv, RunEntry PROVE RunInv'
<1>1. /\ workflow' = workflow /\ ir' = ir /\ run' = run
      /\ phase = "running" /\ at <= Len(workflow.steps) /\ at \in Nat /\ at >= 1
      /\ IsSequence(workflow.steps)
  <2>1. Len(workflow.steps) \in Nat
    BY SequenceIs DEF RunInv
  <2>2. QED
    BY <2>1 DEF RunEntry, parsing, TypeOK, RunInv
<1>2. PICK called \in Called(workflow.steps[at]), granted \in BOOLEAN :
        /\ Executes(called, granted)
        /\ \/ phase' = "stopping" /\ UNCHANGED <<at, bindings>>
           \/ at' = at + 1 /\ bindings' = Bound(workflow.steps[at].as) /\ phase' = phase
  BY DEF RunEntry
<1>3. at \in 1 .. Len(workflow.steps) /\ DOMAIN workflow.steps = 1 .. Len(workflow.steps)
  BY <1>1, SequenceIs
<1>4. OnlyAgentsBypassApproval'
  BY <1>1, <1>2, <1>3, EntryKeepsApproval DEF RunInv
<1>5. BuiltAsWritten'
  BY <1>1 DEF RunInv, BuiltAsWritten
<1>6. NotBuilt' /\ (phase' = "running" => at' >= 1)
  BY <1>1, <1>2 DEF NotBuilt
<1>7. BindingsSound'
  <2>1. CASE at' = at /\ bindings' = bindings
    BY <1>1, <2>1, SoundQuiet DEF RunInv
  <2>2. CASE at' = at + 1 /\ bindings' = Bound(workflow.steps[at].as)
    BY <1>1, <1>3, <2>2, EntryBinds DEF RunInv
  <2>3. QED
    BY <1>2, <2>1, <2>2
<1>8. QED
  BY <1>1, <1>4, <1>5, <1>6, <1>7 DEF RunInv, IsSequence

-----------------------------------------------------------------------------
LEMMA RunKeeps == ASSUME AirInv, [Next]_vars PROVE RunInv'
<1>1. CASE Tokenize \/ Declare \/ OpenWorkflow \/ State \/ Close \/ EndOfFile \/ Reject
  <2>1. /\ phase \in {"text", "parsing"} /\ UNCHANGED <<workflow, running>>
        /\ phase' \in {"parsing", "parsed", "rejected"}
    BY <1>1 DEF Tokenize, Parsing, Declare, OpenWorkflow, State, Close, EndOfFile, Reject
  <2>2. QED
    BY <2>1, ParsingKeeps DEF AirInv
<1>2. CASE Build
  BY <1>2, BuildKeeps DEF AirInv
<1>3. CASE Start
  BY <1>3, StartKeeps DEF AirInv
<1>4. CASE RunEntry
  BY <1>4, RunEntryKeeps DEF AirInv
<1>5. CASE Refused \/ LimitReached \/ End \/ Report \/ Summarize
  <2>1. /\ UNCHANGED <<parsing, workflow, run, at, bindings, approved, invoked>>
        /\ phase' \notin {"text", "parsing", "parsed", "running"}
    BY <1>5 DEF Refused, LimitReached, End, Report, Summarize, running
  <2>2. QED
    BY <2>1, RunQuiet DEF AirInv
<1>6. CASE UNCHANGED vars
  BY <1>6, RunQuiet DEF vars, running, AirInv
<1>7. QED
  BY <1>1, <1>2, <1>3, <1>4, <1>5, <1>6 DEF Next

LEMMA TypeKeeps == ASSUME AirInv, [Next]_vars PROVE TypeOK'
<1> DEFINE Phases == {"text", "parsing", "parsed", "rejected", "binding", "unsupported",
                      "built", "running", "stopping", "returned", "refused", "raised",
                      "reported", "summarized"}
<1>1. /\ phase \in Phases /\ host \in Hosts \cup {NoBindings} /\ run \in 0 .. MaxRuns
      /\ journal \in 0 .. run /\ at \in 0 .. Len(workflow.steps) + 1 /\ MaxRuns \in Nat
  BY BoundsAssumption DEF AirInv, TypeOK
<1>2. Len(workflow.steps) \in Nat /\ Len(workflow.steps)' \in Nat
  BY RunKeeps, SequenceIs DEF AirInv, RunInv
<1>3. CASE Tokenize \/ Declare \/ OpenWorkflow \/ State \/ Close \/ EndOfFile \/ Reject
  <2>1. UNCHANGED <<host, workflow, running>> /\ phase' \in Phases
    BY <1>1, <1>3
       DEF Tokenize, Parsing, Declare, OpenWorkflow, State, Close, EndOfFile, Reject
  <2>2. QED
    BY <1>1, <2>1 DEF TypeOK, running
<1>4. CASE Build
  <2>1. /\ host' \in Hosts \cup {NoBindings} /\ UNCHANGED running
        /\ phase' \in {"built", "binding", "unsupported"} /\ at = 0
    BY <1>4, BuildKeeps DEF AirInv, Build, BindingsFor, RunInv, NotBuilt
  <2>2. run' = run /\ at' = 0 /\ journal' = journal
    BY <2>1 DEF running
  <2>3. QED
    BY <1>1, <1>2, <2>1, <2>2 DEF TypeOK
<1>5. CASE Start
  BY <1>1, <1>2, <1>5 DEF Start, Runnable, TypeOK
<1>6. CASE RunEntry
  BY <1>1, <1>2, <1>6 DEF RunEntry, TypeOK
<1>7. CASE Refused \/ LimitReached \/ Report \/ Summarize
  <2>1. UNCHANGED <<host, workflow, running>> /\ phase' \in Phases
    BY <1>1, <1>7 DEF Refused, LimitReached, Report, Summarize
  <2>2. QED
    BY <1>1, <2>1 DEF TypeOK, running
<1>8. CASE End
  <2>1. /\ UNCHANGED <<host, workflow, run, at>> /\ phase' \in Phases
        /\ journal' \in {run, journal}
    BY <1>1, <1>8 DEF End
  <2>2. QED
    BY <1>1, <2>1 DEF TypeOK
<1>9. CASE UNCHANGED vars
  BY <1>1, <1>9 DEF vars, running, TypeOK
<1>10. QED
  BY <1>3, <1>4, <1>5, <1>6, <1>7, <1>8, <1>9 DEF Next

LEMMA Starts == Init => AirInv
<1> SUFFICES ASSUME Init PROVE AirInv
  OBVIOUS
<1>1. PICK w : w = workflow /\ w.steps = << >>
  BY DEF Init, NewWorkflow
<1>2. IsSequence(workflow.steps) /\ Len(workflow.steps) = 0 /\ DOMAIN workflow.steps = {}
  BY <1>1, EmptyFits
<1>3. TypeOK
  BY <1>2, BoundsAssumption DEF Init, TypeOK
<1>4. FileInv
  <2>1. Blocks(open)
    BY EmptyFits DEF Init, Blocks
  <2>2. IRShaped(EmptyIR) /\ EmptyIR.workflow = Nothing
    BY DEF IRShaped, EmptyIR
  <2>3. QED
    BY <2>1, <2>2 DEF Init, FileInv
<1>5. RunInv
  <2>1. Done = {}
    BY <1>2 DEF Done
  <2>2. BindingsSound
    BY <2>1, NothingBound DEF Init
  <2>3. BuiltAsWritten /\ NotBuilt /\ OnlyAgentsBypassApproval
    BY <1>1 DEF Init, BuiltAsWritten, NotBuilt, OnlyAgentsBypassApproval
  <2>4. QED
    BY <1>2, <2>2, <2>3 DEF Init, RunInv
<1>6. QED
  BY <1>3, <1>4, <1>5 DEF AirInv

(* Files, hosts and runs of any number and length: AirInv is inductive.    *)
THEOREM Inductive == Spec => []AirInv
<1>1. AirInv /\ [Next]_vars => AirInv'
  BY TypeKeeps, FileKeeps, RunKeeps DEF AirInv
<1>2. QED
  BY <1>1, Starts, PTL DEF Spec

(* executor.py:22-44, 212-358: for a body of any length, in which the      *)
(* statements come in any order, build_workflow makes one entry of each    *)
(* statement that runs something, at its place, with the name, source and  *)
(* fallback that the text gives it, and passes over nothing else.          *)
THEOREM EveryFileIsBuiltAsWritten == Spec => []BuiltAsWritten
<1>1. AirInv => BuiltAsWritten
  BY DEF AirInv, RunInv
<1>2. QED
  BY <1>1, Inductive, PTL

(* workflow.py:28-59, 288: for any number of runs and entries, what a      *)
(* prompt can read under a name is what the last entry of this run with    *)
(* that name has put out.                                                  *)
THEOREM BindingsStayCurrent == Spec => []BindingsAreCurrent
<1>1. RunInv /\ TypeOK => BindingsAreCurrent
  <2> SUFFICES ASSUME RunInv, TypeOK PROVE BindingsAreCurrent
    OBVIOUS
  <2>1. Done \subseteq Nat
    <3>1. DOMAIN workflow.steps = 1 .. Len(workflow.steps) /\ Len(workflow.steps) \in Nat
      BY SequenceIs DEF RunInv
    <3>2. QED
      BY <3>1 DEF Done
  <2> DEFINE Is(i, n) == /\ workflow.steps[i].as = n
                         /\ \A j \in Done : workflow.steps[j].as = n => j <= i
             last == [n \in {workflow.steps[i].as : i \in Done} |->
                        <<run, CHOOSE i \in Done : Is(i, n)>>]
  <2>2. ASSUME NEW n \in DOMAIN bindings
        PROVE  bindings[n] = <<run, CHOOSE i \in Done : Is(i, n)>>
    <3>1. PICK i \in Done : bindings[n] = <<run, i>> /\ Is(i, n)
      BY <2>2 DEF RunInv, BindingsSound, Gave
    <3>2. ASSUME NEW k \in Done, Is(k, n) PROVE k = i
      BY <2>1, <3>1, <3>2
    <3> HIDE DEF Is
    <3>3. (CHOOSE k \in Done : Is(k, n)) = i
      BY <3>1, <3>2
    <3>4. QED
      BY <3>1, <3>3
  <2>3. bindings = last
    <3>1. /\ bindings = [n \in DOMAIN bindings |-> bindings[n]]
          /\ DOMAIN bindings = {workflow.steps[i].as : i \in Done}
      BY DEF RunInv, BindingsSound
    <3> HIDE DEF Is
    <3>2. QED
      BY <2>2, <3>1
  <2>4. QED
    BY <2>3 DEF BindingsAreCurrent, Done
<1>2. QED
  BY <1>1, Inductive, PTL DEF AirInv

(* scheduler.py:241-260: for any number of runs, of entries and of tools,  *)
(* only the loop of an agent invokes a tool that the policy names without  *)
(* a decision of this run.                                                 *)
THEOREM ApprovalBypassedByAgentsOnly == Spec => []OnlyAgentsBypassApproval
<1>1. AirInv => OnlyAgentsBypassApproval
  BY DEF AirInv, RunInv
<1>2. QED
  BY <1>1, Inductive, PTL
=============================================================================
