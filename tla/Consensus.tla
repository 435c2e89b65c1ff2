------------------------------ MODULE Consensus ------------------------------
(***************************************************************************)
(* The two built-in strategies of aircore/consensus.py, as operators on    *)
(* the sequence of voter outputs the scheduler hands them.  A strategy     *)
(* either agrees on one of the outputs or raises (ConsensusFailed, or the  *)
(* TypeError that Counter and set raise for an unhashable output).         *)
(***************************************************************************)
EXTENDS Naturals, Sequences, FiniteSets

CONSTANT Unhashable          \* outputs that Counter(...) and set(...) reject

Votes(outputs, v) == Cardinality({i \in DOMAIN outputs : outputs[i] = v})

Cast(outputs) == {outputs[i] : i \in DOMAIN outputs}

Hashable(outputs) == Cast(outputs) \cap Unhashable = {}

(* ranked[0] of Counter.most_common(): no other output has more votes.  Of  *)
(* several such outputs the first one cast is ranked first.                *)
RankedFirst(outputs) ==
  outputs[CHOOSE i \in DOMAIN outputs :
             /\ \A v \in Cast(outputs) : Votes(outputs, outputs[i]) >= Votes(outputs, v)
             /\ \A j \in 1 .. i - 1 : Votes(outputs, outputs[j]) < Votes(outputs, outputs[i])]

(* A bug the checks must notice: without the tie test, ranked[0] wins.     *)
TieIgnored(outputs) == FALSE

Tie(outputs) ==
  \E v \in Cast(outputs) : /\ v # RankedFirst(outputs)
                           /\ Votes(outputs, v) = Votes(outputs, RankedFirst(outputs))

MajorityAgrees(outputs) == Hashable(outputs) /\ ~Tie(outputs)

UnanimousAgrees(outputs) == Hashable(outputs) /\ Cardinality(Cast(outputs)) = 1

==============================================================================
