--------------------------- MODULE SchedulerProofs ---------------------------
(***************************************************************************)
(* Proofs about Scheduler and the strategies of Consensus it calls, for    *)
(* all tools, agents, workflows, policies, checkpoints and votes: its type *)
(* invariant, the gate in front of execute(), the accounting of attempts,  *)
(* the fan-in of threads, the honesty of the journal, and consensus.       *)
(*                                                                         *)
(* A step of a thread changes that thread's locals and its record in the   *)
(* journal, nothing else that TaskOK speaks of; a step of the main thread  *)
(* changes neither for the threads there are, and adds threads that have   *)
(* not begun. So the invariant IInv says of each thread what its position  *)
(* implies (TaskOK), and of the main thread what it is waiting for         *)
(* (MainOK). Two more invariants stand on it. Books says how the journal   *)
(* relates to the threads: a group lists the steps that name it, and is    *)
(* closed as they ended. Polls says who was polled and what was made of    *)
(* the votes: members have the latest ids, in tool order, and each agreed  *)
(* value in the journal is what the strategy makes of its group's outputs. *)
(*                                                                         *)
(* What DurableRunProofs proves of whole runs stands on these three.       *)
(***************************************************************************)
EXTENDS Scheduler, FiniteSetTheorems, WellFoundedInduction, TLAPS

-----------------------------------------------------------------------------
(* The strategies, for every sequence of votes (Consensus).                *)

(* Every non-empty set of numbers has a least element.                     *)
LEMMA LeastNumber ==
  ASSUME NEW T \in SUBSET Nat, T # {}
  PROVE  \E x \in T : \A y \in T : x <= y
<1> DEFINE Less == {p \in Nat \X Nat : p[1] < p[2]}
<1>1. IsWellFoundedOn(Less, Nat)
  BY NatLessThanWellFounded, Zenon DEF OpToRel
<1>2. PICK x \in T : \A y \in T : <<y, x>> \notin Less
  BY <1>1, WFMin
<1>3. \A y \in T : ~(y < x)
  <2> TAKE y \in T
  <2>1. <<y, x>> \in Nat \X Nat /\ <<y, x>>[1] = y /\ <<y, x>>[2] = x
    OBVIOUS
  <2>2. QED
    BY <1>2, <2>1
<1>4. QED
  BY <1>3

LEMMA VotesType ==
  ASSUME NEW S, NEW outputs \in Seq(S), NEW v
  PROVE  Votes(outputs, v) \in 0 .. Len(outputs)
<1> DEFINE voters == {i \in DOMAIN outputs : outputs[i] = v}
<1>1. DOMAIN outputs = 1 .. Len(outputs) /\ Len(outputs) \in Nat
  OBVIOUS
<1>2. IsFiniteSet(1 .. Len(outputs)) /\ Cardinality(1 .. Len(outputs)) = Len(outputs)
  BY <1>1, FS_Interval
<1>3. voters \in SUBSET (1 .. Len(outputs))
  BY <1>1
<1>4. IsFiniteSet(voters) /\ Cardinality(voters) <= Len(outputs)
  BY <1>2, <1>3, FS_Subset
<1>5. Cardinality(voters) \in Nat
  BY <1>4, FS_CardinalityType
<1>6. QED
  BY <1>1, <1>4, <1>5 DEF Votes

LEMMA CastVotes ==
  ASSUME NEW S, NEW outputs \in Seq(S), NEW v \in Cast(outputs)
  PROVE  Votes(outputs, v) > 0
<1> DEFINE voters == {i \in DOMAIN outputs : outputs[i] = v}
<1>1. voters # {}
  BY DEF Cast
<1>2. IsFiniteSet(voters)
  <2>1. DOMAIN outputs = 1 .. Len(outputs) /\ Len(outputs) \in Nat
    OBVIOUS
  <2>2. IsFiniteSet(1 .. Len(outputs)) /\ voters \in SUBSET (1 .. Len(outputs))
    BY <2>1, FS_Interval
  <2>3. QED
    BY <2>2, FS_Subset
<1>3. Cardinality(voters) # 0
  BY <1>1, <1>2, FS_EmptySet
<1>4. QED
  <2>1. Cardinality(voters) = Votes(outputs, v)
    BY DEF Votes
  <2>2. Votes(outputs, v) \in 0 .. Len(outputs) /\ Len(outputs) \in Nat
    BY VotesType
  <2>3. QED
    BY <1>3, <2>1, <2>2

(* consensus.py:64-71: ranked[0] exists for every non-empty ballot; it was *)
(* cast, and no other value has more votes.                                *)
THEOREM RankedFirstLeads ==
  ASSUME NEW S, NEW outputs \in Seq(S), outputs # << >>
  PROVE  /\ RankedFirst(outputs) \in Cast(outputs)
         /\ \A v \in Cast(outputs) :
              Votes(outputs, RankedFirst(outputs)) >= Votes(outputs, v)
<1> DEFINE V(i) == Votes(outputs, outputs[i])
           behind == {Len(outputs) - V(i) : i \in DOMAIN outputs}
           leaders == {i \in DOMAIN outputs : \A j \in DOMAIN outputs : V(i) >= V(j)}
           IsFirst(i) == /\ \A v \in Cast(outputs) : V(i) >= Votes(outputs, v)
                         /\ \A j \in 1 .. i - 1 : V(j) < V(i)
<1>1. DOMAIN outputs = 1 .. Len(outputs) /\ Len(outputs) \in Nat /\ Len(outputs) >= 1
  OBVIOUS
<1>2. \A i \in DOMAIN outputs : V(i) \in 0 .. Len(outputs)
  BY VotesType
<1> HIDE DEF V
<1>3. leaders # {}
  <2>1. behind \in SUBSET Nat /\ behind # {}
    BY <1>1, <1>2
  <2>2. PICK b \in behind : \A c \in behind : b <= c
    BY <2>1, LeastNumber
  <2>3. PICK i \in DOMAIN outputs : b = Len(outputs) - V(i)
    OBVIOUS
  <2>4. \A j \in DOMAIN outputs : Len(outputs) - V(i) <= Len(outputs) - V(j)
    BY <2>2, <2>3
  <2>5. \A j \in DOMAIN outputs : V(i) >= V(j)
    BY <1>1, <1>2, <2>4
  <2>6. QED
    BY <2>5
<1>4. PICK i \in leaders : \A j \in leaders : i <= j
  <2>1. leaders \in SUBSET Nat
    BY <1>1
  <2>2. QED
    BY <1>3, <2>1, LeastNumber
<1>5. \A j \in 1 .. i - 1 : V(j) < V(i)
  <2> SUFFICES ASSUME NEW j \in 1 .. i - 1, ~(V(j) < V(i)) PROVE FALSE
    OBVIOUS
  <2>1. j \in DOMAIN outputs /\ i \in DOMAIN outputs /\ j < i
    BY <1>1
  <2>2. \A k \in DOMAIN outputs : V(j) >= V(k)
    BY <1>2, <2>1
  <2>3. QED
    BY <1>1, <1>4, <2>1, <2>2
<1>6. i \in DOMAIN outputs /\ IsFirst(i)
  <2>1. \A v \in Cast(outputs) : V(i) >= Votes(outputs, v)
    <3> TAKE v \in Cast(outputs)
    <3>1. PICK j \in DOMAIN outputs : v = outputs[j]
      BY DEF Cast
    <3>2. QED
      BY <3>1 DEF V
  <2>2. QED
    BY <1>5, <2>1
<1> DEFINE first == CHOOSE k \in DOMAIN outputs : IsFirst(k)
<1>7. first \in DOMAIN outputs /\ IsFirst(first)
  BY <1>6
<1>8. RankedFirst(outputs) = outputs[first]
  BY DEF RankedFirst, V
<1>9. QED
  BY <1>7, <1>8 DEF Cast, V

(* consensus.py:60-71: when majority agrees, the value it settles on has   *)
(* strictly more votes than any other value whatever.                      *)
THEOREM MajorityIsStrict ==
  ASSUME NEW S, NEW outputs \in Seq(S), outputs # << >>, MajorityAgrees(outputs), NEW v,
         v # RankedFirst(outputs)
  PROVE  Votes(outputs, v) < Votes(outputs, RankedFirst(outputs))
<1> DEFINE won == RankedFirst(outputs)
<1>1. Votes(outputs, v) \in Nat /\ Votes(outputs, won) \in Nat
  BY VotesType
<1>2. won \in Cast(outputs) /\ \A w \in Cast(outputs) : Votes(outputs, won) >= Votes(outputs, w)
  BY RankedFirstLeads
<1>3. CASE v \in Cast(outputs)
  BY <1>1, <1>2, <1>3 DEF MajorityAgrees, Tie
<1>4. CASE v \notin Cast(outputs)
  <2>1. {i \in DOMAIN outputs : outputs[i] = v} = {}
    BY <1>4 DEF Cast
  <2>2. Votes(outputs, v) = 0
    BY <2>1, FS_EmptySet DEF Votes
  <2>3. Votes(outputs, won) > 0
    BY <1>2, CastVotes
  <2>4. QED
    BY <2>2, <2>3
<1>5. QED
  BY <1>3, <1>4

(* consensus.py:74-79: when unanimous agrees, every voter gave the value   *)
(* it settles on.                                                          *)
THEOREM UnanimousIsShared ==
  ASSUME NEW S, NEW outputs \in Seq(S), UnanimousAgrees(outputs)
  PROVE  \A i \in DOMAIN outputs : outputs[i] = outputs[1]
<1>1. IsFiniteSet(Cast(outputs))
  <2>1. DOMAIN outputs = 1 .. Len(outputs) /\ Len(outputs) \in Nat
    OBVIOUS
  <2>2. IsFiniteSet(DOMAIN outputs)
    BY <2>1, FS_Interval
  <2>3. outputs \in Surjection(DOMAIN outputs, Cast(outputs))
    BY DEF Surjection, Cast
  <2>4. QED
    BY <2>2, <2>3, FS_Surjection
<1>2. PICK v : Cast(outputs) = {v}
  BY <1>1, FS_Singleton DEF UnanimousAgrees
<1>3. \A i \in DOMAIN outputs : outputs[i] = v
  BY <1>2 DEF Cast
<1>4. outputs # << >>
  BY <1>2 DEF Cast
<1>5. 1 \in DOMAIN outputs
  BY <1>4
<1>6. QED
  BY <1>3, <1>5

-----------------------------------------------------------------------------
(* What the handlers of Journal preserve.                                  *)

LEMMA NothingIsNew ==
  /\ Nothing \notin Nat /\ Nothing \notin Tools /\ Nothing \notin Values
  /\ Nothing \notin Statuses /\ Nothing \notin BOOLEAN /\ Nothing \notin Names
BY NothingAssumption DEF Statuses

LEMMA NewStepType ==
  ASSUME NEW tool \in ToolNames, NEW group \in Maybe(Nat), NEW replayed \in BOOLEAN
  PROVE  NewStep(tool, group, replayed) \in StepRecordType
BY DEF NewStep, StepRecordType, Maybe

(* j becomes k, and of its steps at most s has changed.                    *)
OnlyStep(j, k, s) ==
  /\ JournalTyped(k) /\ k.status = j.status
  /\ \A r \in DOMAIN j.steps \ {s} : r \in DOMAIN k.steps /\ k.steps[r] = j.steps[r]
  /\ s \in DOMAIN k.steps /\ DOMAIN k.steps \subseteq DOMAIN j.steps \cup {s}

LEMMA JournalShape ==
  ASSUME NEW j, JournalTyped(j)
  PROVE  \E a, b, c, d : j = [steps |-> a, order |-> b, groups |-> c, status |-> d]
BY DEF JournalTyped

LEMMA StartedJournal ==
  ASSUME NEW j, JournalTyped(j), NEW s \in Nat \ {0}, NEW tool \in ToolNames,
         NEW group \in Maybe(Nat), NEW replayed \in BOOLEAN
  PROVE  LET k == OnStepStarted(j, s, tool, group, replayed)
         IN OnlyStep(j, k, s) /\ k.steps[s].retries = 0
<1> DEFINE k == OnStepStarted(j, s, tool, group, replayed)
<1>1. PICK a, b, c, d : j = [steps |-> a, order |-> b, groups |-> c, status |-> d]
  BY JournalShape
<1> DEFINE g == IF group = Nothing THEN c ELSE [c EXCEPT ![group].stepIds = Append(@, s)]
           p == Put(a, s, NewStep(tool, group, replayed))
<1>2. k = [steps |-> p, order |-> Append(b, s), groups |-> g, status |-> d]
  BY <1>1 DEF OnStepStarted
<1>3. /\ DOMAIN a \subseteq Nat \ {0} /\ a \in [DOMAIN a -> StepRecordType]
      /\ DOMAIN c \subseteq Nat \ {0} /\ c \in [DOMAIN c -> GroupRecordType]
      /\ b \in Seq(Nat) /\ d \in Maybe(Statuses)
  BY <1>1 DEF JournalTyped
<1>4. /\ DOMAIN p = DOMAIN a \cup {s} /\ p[s] = NewStep(tool, group, replayed)
      /\ \A r \in DOMAIN a \ {s} : p[r] = a[r]
      /\ p \in [DOMAIN p -> StepRecordType]
  BY <1>3, NewStepType DEF Put
<1>5. DOMAIN g = DOMAIN c /\ g \in [DOMAIN g -> GroupRecordType]
  <2>1. CASE group = Nothing
    BY <1>3, <2>1
  <2>2. CASE group # Nothing
    <3> DEFINE ids == Append(c[group].stepIds, s)
               new == [c[group] EXCEPT !.stepIds = ids]
    <3>1. ASSUME group \in DOMAIN c PROVE new \in GroupRecordType
      <4>1. c[group] \in GroupRecordType
        BY <1>3, <3>1
      <4>2. ids \in Seq(Nat)
        BY <4>1 DEF GroupRecordType
      <4> HIDE DEF ids
      <4>3. QED
        BY <4>1, <4>2 DEF GroupRecordType
    <3>2. g = [c EXCEPT ![group] = new]
      BY <2>2
    <3> HIDE DEF new
    <3>3. QED
      BY <1>3, <3>1, <3>2
  <2>3. QED
    BY <2>1, <2>2
<1>6. Append(b, s) \in Seq(Nat)
  BY <1>3
<1> HIDE DEF k, p, g
<1>7. /\ k.steps = p /\ k.order = Append(b, s) /\ k.groups = g /\ k.status = d
      /\ j.steps = a /\ j.status = d
  BY <1>1, <1>2
<1>8. JournalTyped(k)
  BY <1>2, <1>3, <1>4, <1>5, <1>6, <1>7 DEF JournalTyped
<1>9. OnlyStep(j, k, s) /\ k.steps[s].retries = 0
  BY <1>4, <1>7, <1>8 DEF OnlyStep, NewStep
<1>10. QED
  BY <1>9 DEF k

LEMMA UpdatedStep ==
  ASSUME NEW j, JournalTyped(j), NEW s \in DOMAIN j.steps, NEW rec \in StepRecordType,
         NEW k, k = [j EXCEPT !.steps[s] = rec]
  PROVE  OnlyStep(j, k, s) /\ k.steps[s] = rec
<1>1. PICK a, b, c, d : j = [steps |-> a, order |-> b, groups |-> c, status |-> d]
  BY JournalShape
<1> DEFINE p == [a EXCEPT ![s] = rec]
<1>2. k = [steps |-> p, order |-> b, groups |-> c, status |-> d]
  BY <1>1
<1>3. DOMAIN a \subseteq Nat \ {0} /\ a \in [DOMAIN a -> StepRecordType] /\ s \in DOMAIN a
  BY <1>1 DEF JournalTyped
<1>4. /\ DOMAIN p = DOMAIN a /\ p[s] = rec /\ \A r \in DOMAIN a \ {s} : p[r] = a[r]
      /\ p \in [DOMAIN p -> StepRecordType]
  BY <1>3
<1> HIDE DEF p
<1>5. k.steps = p /\ k.order = b /\ k.groups = c /\ k.status = d /\ j.steps = a /\ j.status = d
      /\ j.order = b /\ j.groups = c
  BY <1>1, <1>2
<1>6. JournalTyped(k)
  BY <1>2, <1>3, <1>4, <1>5 DEF JournalTyped
<1>7. QED
  BY <1>3, <1>4, <1>5, <1>6 DEF OnlyStep

(* What a handler other than OnStepStarted does to the record of its step. *)
LEMMA StepHandlers ==
  ASSUME NEW j, JournalTyped(j), NEW s \in DOMAIN j.steps
  PROVE  /\ \A v \in Maybe(Values) :
              LET k == OnToolSucceeded(j, s, v)
              IN OnlyStep(j, k, s) /\ k.steps[s] = [j.steps[s] EXCEPT !.output = v]
         /\ \A e \in Maybe(Errors) :
              LET k == OnToolFailed(j, s, e)
              IN OnlyStep(j, k, s) /\ k.steps[s] = [j.steps[s] EXCEPT !.error = e]
         /\ \A st \in Maybe(Statuses) :
              LET k == OnStepFinished(j, s, st)
              IN OnlyStep(j, k, s) /\ k.steps[s] = [j.steps[s] EXCEPT !.status = st]
         /\ \A n \in Nat :
              LET k == OnRetryAttempted(j, s, n)
              IN OnlyStep(j, k, s) /\ k.steps[s] = [j.steps[s] EXCEPT !.retries = n]
         /\ \A u \in Maybe(Nat) :
              LET k == OnUsageReported(j, s, u)
              IN OnlyStep(j, k, s) /\ k.steps[s] = [j.steps[s] EXCEPT !.usage = u]
         /\ \A m \in Maybe(Nat) :
              LET k == OnStrategyMetadataReported(j, s, m)
              IN OnlyStep(j, k, s) /\ k.steps[s] = [j.steps[s] EXCEPT !.metadata = m]
         /\ \A b \in BOOLEAN :
              LET k == OnApprovalDecided(j, s, b)
              IN OnlyStep(j, k, s) /\ k.steps[s] = [j.steps[s] EXCEPT !.approved = b]
<1>1. j.steps[s] \in StepRecordType
  BY DEF JournalTyped
<1>2. ASSUME NEW v \in Maybe(Values)
      PROVE  LET k == OnToolSucceeded(j, s, v)
             IN OnlyStep(j, k, s) /\ k.steps[s] = [j.steps[s] EXCEPT !.output = v]
  <2> DEFINE rec == [j.steps[s] EXCEPT !.output = v]
  <2>1. rec \in StepRecordType
    BY <1>1 DEF StepRecordType
  <2>2. OnToolSucceeded(j, s, v) = [j EXCEPT !.steps[s] = rec]
    BY DEF OnToolSucceeded
  <2> HIDE DEF rec
  <2>3. QED
    BY <2>1, <2>2, UpdatedStep DEF rec
<1>3. ASSUME NEW e \in Maybe(Errors)
      PROVE  LET k == OnToolFailed(j, s, e)
             IN OnlyStep(j, k, s) /\ k.steps[s] = [j.steps[s] EXCEPT !.error = e]
  <2> DEFINE rec == [j.steps[s] EXCEPT !.error = e]
  <2>1. rec \in StepRecordType
    BY <1>1 DEF StepRecordType
  <2>2. OnToolFailed(j, s, e) = [j EXCEPT !.steps[s] = rec]
    BY DEF OnToolFailed
  <2> HIDE DEF rec
  <2>3. QED
    BY <2>1, <2>2, UpdatedStep DEF rec
<1>4. ASSUME NEW st \in Maybe(Statuses)
      PROVE  LET k == OnStepFinished(j, s, st)
             IN OnlyStep(j, k, s) /\ k.steps[s] = [j.steps[s] EXCEPT !.status = st]
  <2> DEFINE rec == [j.steps[s] EXCEPT !.status = st]
  <2>1. rec \in StepRecordType
    BY <1>1 DEF StepRecordType
  <2>2. OnStepFinished(j, s, st) = [j EXCEPT !.steps[s] = rec]
    BY DEF OnStepFinished
  <2> HIDE DEF rec
  <2>3. QED
    BY <2>1, <2>2, UpdatedStep DEF rec
<1>5. ASSUME NEW n \in Nat
      PROVE  LET k == OnRetryAttempted(j, s, n)
             IN OnlyStep(j, k, s) /\ k.steps[s] = [j.steps[s] EXCEPT !.retries = n]
  <2> DEFINE rec == [j.steps[s] EXCEPT !.retries = n]
  <2>1. rec \in StepRecordType
    BY <1>1 DEF StepRecordType
  <2>2. OnRetryAttempted(j, s, n) = [j EXCEPT !.steps[s] = rec]
    BY DEF OnRetryAttempted
  <2> HIDE DEF rec
  <2>3. QED
    BY <2>1, <2>2, UpdatedStep DEF rec
<1>6. ASSUME NEW u \in Maybe(Nat)
      PROVE  LET k == OnUsageReported(j, s, u)
             IN OnlyStep(j, k, s) /\ k.steps[s] = [j.steps[s] EXCEPT !.usage = u]
  <2> DEFINE rec == [j.steps[s] EXCEPT !.usage = u]
  <2>1. rec \in StepRecordType
    BY <1>1 DEF StepRecordType
  <2>2. OnUsageReported(j, s, u) = [j EXCEPT !.steps[s] = rec]
    BY DEF OnUsageReported
  <2> HIDE DEF rec
  <2>3. QED
    BY <2>1, <2>2, UpdatedStep DEF rec
<1>7. ASSUME NEW m \in Maybe(Nat)
      PROVE  LET k == OnStrategyMetadataReported(j, s, m)
             IN OnlyStep(j, k, s) /\ k.steps[s] = [j.steps[s] EXCEPT !.metadata = m]
  <2> DEFINE rec == [j.steps[s] EXCEPT !.metadata = m]
  <2>1. rec \in StepRecordType
    BY <1>1 DEF StepRecordType
  <2>2. OnStrategyMetadataReported(j, s, m) = [j EXCEPT !.steps[s] = rec]
    BY DEF OnStrategyMetadataReported
  <2> HIDE DEF rec
  <2>3. QED
    BY <2>1, <2>2, UpdatedStep DEF rec
<1>8. ASSUME NEW b \in BOOLEAN
      PROVE  LET k == OnApprovalDecided(j, s, b)
             IN OnlyStep(j, k, s) /\ k.steps[s] = [j.steps[s] EXCEPT !.approved = b]
  <2> DEFINE rec == [j.steps[s] EXCEPT !.approved = b]
  <2>1. rec \in StepRecordType
    BY <1>1, <1>8 DEF StepRecordType, Maybe
  <2>2. OnApprovalDecided(j, s, b) = [j EXCEPT !.steps[s] = rec]
    BY DEF OnApprovalDecided
  <2> HIDE DEF rec
  <2>3. QED
    BY <2>1, <2>2, UpdatedStep DEF rec
<1>9. QED
  BY <1>2, <1>3, <1>4, <1>5, <1>6, <1>7, <1>8

LEMMA OnlyStepTransitive ==
  ASSUME NEW i, NEW j, NEW k, NEW s, OnlyStep(i, j, s), OnlyStep(j, k, s)
  PROVE  OnlyStep(i, k, s)
BY DEF OnlyStep

(* What the handlers of a group's and of the workflow's events preserve.   *)
LEMMA GroupHandlers ==
  ASSUME NEW j, JournalTyped(j), NEW g \in Nat \ {0}
  PROVE  /\ \A kind \in {"parallel", "consensus"} :
              LET k == OnGroupStarted(j, g, kind) IN JournalTyped(k) /\ k.steps = j.steps
         /\ \A st \in Statuses :
              LET k == OnGroupFinished(j, g, st) IN JournalTyped(k) /\ k.steps = j.steps
         /\ \A st \in Statuses :
              LET k == OnWorkflowFinished(j, st) IN JournalTyped(k) /\ k.steps = j.steps
<1>1. PICK a, b, c, d : j = [steps |-> a, order |-> b, groups |-> c, status |-> d]
  BY JournalShape
<1>2. /\ DOMAIN a \subseteq Nat \ {0} /\ a \in [DOMAIN a -> StepRecordType]
      /\ DOMAIN c \subseteq Nat \ {0} /\ c \in [DOMAIN c -> GroupRecordType]
      /\ b \in Seq(Nat) /\ d \in Maybe(Statuses)
  BY <1>1 DEF JournalTyped
<1>3. ASSUME NEW h, DOMAIN h \subseteq Nat \ {0}, h \in [DOMAIN h -> GroupRecordType],
             NEW st \in Maybe(Statuses)
      PROVE  JournalTyped([steps |-> a, order |-> b, groups |-> h, status |-> st])
  BY <1>2, <1>3 DEF JournalTyped
<1>4. ASSUME NEW kind \in {"parallel", "consensus"}
      PROVE  LET k == OnGroupStarted(j, g, kind) IN JournalTyped(k) /\ k.steps = j.steps
  <2> DEFINE new == [kind |-> kind, stepIds |-> << >>, status |-> Nothing]
             h == Put(c, g, new)
  <2>1. new \in GroupRecordType
    BY DEF GroupRecordType, Maybe
  <2> HIDE DEF new
  <2>2. DOMAIN h = DOMAIN c \cup {g} /\ h \in [DOMAIN h -> GroupRecordType]
    BY <1>2, <2>1 DEF Put
  <2>3. OnGroupStarted(j, g, kind) = [steps |-> a, order |-> b, groups |-> h, status |-> d]
    BY <1>1 DEF OnGroupStarted, new
  <2> HIDE DEF h
  <2>4. DOMAIN h \subseteq Nat \ {0}
    BY <1>2, <2>2
  <2>5. QED
    BY <1>1, <1>2, <1>3, <2>2, <2>3, <2>4
<1>5. ASSUME NEW st \in Statuses
      PROVE  LET k == OnGroupFinished(j, g, st) IN JournalTyped(k) /\ k.steps = j.steps
  <2> DEFINE new == [c[g] EXCEPT !.status = st]
             h == [c EXCEPT ![g] = new]
  <2>1. g \in DOMAIN c => new \in GroupRecordType
    BY <1>2 DEF GroupRecordType, Maybe
  <2> HIDE DEF new
  <2>2. DOMAIN h = DOMAIN c /\ h \in [DOMAIN h -> GroupRecordType]
    BY <1>2, <2>1
  <2>3. OnGroupFinished(j, g, st) = [steps |-> a, order |-> b, groups |-> h, status |-> d]
    BY <1>1 DEF OnGroupFinished, new
  <2> HIDE DEF h
  <2>4. QED
    BY <1>1, <1>2, <1>3, <2>2, <2>3
<1>6. ASSUME NEW st \in Statuses
      PROVE  LET k == OnWorkflowFinished(j, st) IN JournalTyped(k) /\ k.steps = j.steps
  <2>1. OnWorkflowFinished(j, st) = [steps |-> a, order |-> b, groups |-> c, status |-> st]
    BY <1>1 DEF OnWorkflowFinished
  <2>2. st \in Maybe(Statuses)
    BY DEF Maybe
  <2>3. QED
    BY <1>1, <1>2, <1>3, <2>1, <2>2
<1>7. QED
  BY <1>4, <1>5, <1>6

(* Recording the synthetic step touches that step only.                    *)
LEMMA SyntheticRecorded ==
  ASSUME NEW j, JournalTyped(j), NEW s \in Nat \ {0}, entry \in Nat \ {0},
         NEW output \in Maybe(Values), NEW error \in Maybe(Errors),
         NEW confidence \in Maybe(Nat)
  PROVE  OnlyStep(j, RecordSynthetic(j, s, output, error, confidence), s)
<1> DEFINE started == OnStepStarted(j, s, Synthetic, entry, FALSE)
           noted == IF confidence = Nothing THEN started
                    ELSE OnStrategyMetadataReported(started, s, confidence)
<1>1. OnlyStep(j, started, s)
  <2>1. Synthetic \in ToolNames /\ entry \in Maybe(Nat) /\ FALSE \in BOOLEAN
    BY ToolAssumption DEF Maybe
  <2>2. QED
    BY <2>1, StartedJournal
<1> HIDE DEF started
<1>2. OnlyStep(j, noted, s)
  <2>1. JournalTyped(started) /\ s \in DOMAIN started.steps
    BY <1>1 DEF OnlyStep
  <2>2. OnlyStep(started, OnStrategyMetadataReported(started, s, confidence), s)
    BY <2>1, StepHandlers
  <2>3. QED
    BY <1>1, <2>2, OnlyStepTransitive
<1> HIDE DEF noted
<1>3. JournalTyped(noted) /\ s \in DOMAIN noted.steps
  BY <1>2 DEF OnlyStep
<1>4. "success" \in Maybe(Statuses) /\ "failed" \in Maybe(Statuses)
  BY DEF Maybe, Statuses
<1>5. CASE error = Nothing
  <2> DEFINE k == OnToolSucceeded(noted, s, output)
             l == OnStepFinished(k, s, "success")
  <2>1. OnlyStep(noted, k, s)
    BY <1>3, StepHandlers
  <2> HIDE DEF k
  <2>2. OnlyStep(k, l, s)
    <3>1. JournalTyped(k) /\ s \in DOMAIN k.steps
      BY <2>1 DEF OnlyStep
    <3>2. QED
      BY <1>4, <3>1, StepHandlers
  <2> HIDE DEF l
  <2>3. OnlyStep(j, l, s)
    BY <1>2, <2>1, <2>2, OnlyStepTransitive
  <2>4. QED
    BY <1>5, <2>3 DEF RecordSynthetic, started, noted, k, l
<1>6. CASE error # Nothing
  <2> DEFINE k == OnToolFailed(noted, s, error)
             l == OnStepFinished(k, s, "failed")
  <2>1. OnlyStep(noted, k, s)
    BY <1>3, StepHandlers
  <2> HIDE DEF k
  <2>2. OnlyStep(k, l, s)
    <3>1. JournalTyped(k) /\ s \in DOMAIN k.steps
      BY <2>1 DEF OnlyStep
    <3>2. QED
      BY <1>4, <3>1, StepHandlers
  <2> HIDE DEF l
  <2>3. OnlyStep(j, l, s)
    BY <1>2, <2>1, <2>2, OnlyStepTransitive
  <2>4. QED
    BY <1>6, <2>3 DEF RecordSynthetic, started, noted, k, l
<1>7. QED
  BY <1>5, <1>6

(* What the counters of Metrics preserve.                                  *)
LEMMA StatsTyped ==
  ASSUME NEW stats \in StatsType, NEW st, NEW n \in Nat
  PROVE  /\ CountCall(stats, st) \in StatsType
         /\ CountAgain(stats) \in StatsType /\ Charge(stats, n) \in StatsType
<1>1. ASSUME NEW x \in Nat, NEW y \in Nat
      PROVE  /\ [stats EXCEPT !.calls = x, !.successes = y] \in StatsType
             /\ [stats EXCEPT !.calls = x, !.failures = y] \in StatsType
             /\ [stats EXCEPT !.retries = x] \in StatsType
             /\ [stats EXCEPT !.usage = x] \in StatsType
  BY DEF StatsType
<1> DEFINE calls == stats.calls + 1
           successes == stats.successes + 1
           failures == stats.failures + 1
           retries == stats.retries + 1
           usage == stats.usage + n
<1>2. calls \in Nat /\ successes \in Nat /\ failures \in Nat /\ retries \in Nat /\ usage \in Nat
  BY DEF StatsType
<1>3. /\ CountCall(stats, st) = IF st = "success"
                                THEN [stats EXCEPT !.calls = calls, !.successes = successes]
                                ELSE [stats EXCEPT !.calls = calls, !.failures = failures]
      /\ CountAgain(stats) = [stats EXCEPT !.retries = retries]
      /\ Charge(stats, n) = [stats EXCEPT !.usage = usage]
  BY DEF CountCall, CountAgain, Charge
<1> HIDE DEF calls, successes, failures, retries, usage
<1>4. /\ [stats EXCEPT !.calls = calls, !.successes = successes] \in StatsType
      /\ [stats EXCEPT !.calls = calls, !.failures = failures] \in StatsType
  BY <1>1, <1>2
<1>5. CountAgain(stats) \in StatsType
  BY <1>1, <1>2, <1>3
<1>6. Charge(stats, n) \in StatsType
  BY <1>1, <1>2, <1>3
<1>7. QED
  BY <1>3, <1>4, <1>5, <1>6

LEMMA CountsTyped ==
  ASSUME NEW m \in MetricsType, NEW tool \in ToolNames
  PROVE  /\ CountGroup(m) \in MetricsType /\ CountRetry(m, tool) \in MetricsType
         /\ \A st \in Statuses : CountStep(m, tool, st) \in MetricsType
         /\ \A n \in Nat : CountUsage(m, tool, n) \in MetricsType
<1>1. ASSUME NEW k \in MetricsType, NEW x \in StatsType, NEW y \in Nat
      PROVE  /\ [k EXCEPT !.stepsTotal = y, !.byTool[tool] = x] \in MetricsType
             /\ [k EXCEPT !.retriesTotal = y, !.byTool[tool] = x] \in MetricsType
             /\ [k EXCEPT !.usageTotal = y, !.byTool[tool] = x] \in MetricsType
             /\ [k EXCEPT !.groupsTotal = y] \in MetricsType
             /\ [k EXCEPT !.stepsSucceeded = y] \in MetricsType
             /\ [k EXCEPT !.stepsFailed = y] \in MetricsType
  BY DEF MetricsType
<1>2. ASSUME NEW k \in MetricsType
      PROVE  /\ k.stepsTotal + 1 \in Nat /\ k.retriesTotal + 1 \in Nat
             /\ k.usageTotal \in Nat /\ k.groupsTotal + 1 \in Nat
             /\ k.stepsSucceeded + 1 \in Nat /\ k.stepsFailed + 1 \in Nat
             /\ k.byTool[tool] \in StatsType
  BY DEF MetricsType
<1>3. CountGroup(m) \in MetricsType
  <2> DEFINE y == m.groupsTotal + 1
  <2>1. y \in Nat /\ CountGroup(m) = [m EXCEPT !.groupsTotal = y]
    BY <1>2 DEF CountGroup
  <2> HIDE DEF y
  <2>2. QED
    BY <1>1, <1>2, <2>1
<1>4. ASSUME NEW st \in Statuses PROVE CountStep(m, tool, st) \in MetricsType
  <2> DEFINE x == CountCall(m.byTool[tool], st)
             y == m.stepsTotal + 1
             counted == [m EXCEPT !.stepsTotal = y, !.byTool[tool] = x]
             succeeded == counted.stepsSucceeded + 1
             failed == counted.stepsFailed + 1
  <2>1. x \in StatsType /\ y \in Nat
    BY <1>2, StatsTyped
  <2>2. CountStep(m, tool, st) = IF st = "success"
                                 THEN [counted EXCEPT !.stepsSucceeded = succeeded]
                                 ELSE [counted EXCEPT !.stepsFailed = failed]
    BY DEF CountStep
  <2> HIDE DEF x, y
  <2>3. counted \in MetricsType
    BY <1>1, <2>1
  <2> HIDE DEF counted
  <2>4. succeeded \in Nat /\ failed \in Nat
    BY <1>2, <2>3
  <2> HIDE DEF succeeded, failed
  <2>5. /\ [counted EXCEPT !.stepsSucceeded = succeeded] \in MetricsType
        /\ [counted EXCEPT !.stepsFailed = failed] \in MetricsType
    BY <1>1, <1>2, <2>3, <2>4
  <2>6. QED
    BY <2>2, <2>5
<1>5. CountRetry(m, tool) \in MetricsType
  <2> DEFINE x == CountAgain(m.byTool[tool])
             y == m.retriesTotal + 1
  <2>1. x \in StatsType /\ y \in Nat
    BY <1>2, StatsTyped
  <2>2. CountRetry(m, tool) = [m EXCEPT !.retriesTotal = y, !.byTool[tool] = x]
    BY DEF CountRetry
  <2> HIDE DEF x, y
  <2>3. [m EXCEPT !.retriesTotal = y, !.byTool[tool] = x] \in MetricsType
    BY <1>1, <2>1
  <2>4. QED
    BY <2>2, <2>3
<1>6. ASSUME NEW n \in Nat PROVE CountUsage(m, tool, n) \in MetricsType
  <2> DEFINE x == Charge(m.byTool[tool], n)
             y == m.usageTotal + n
  <2>1. x \in StatsType /\ y \in Nat
    <3>1. m.byTool[tool] \in StatsType /\ m.usageTotal \in Nat
      BY <1>2
    <3>2. x \in StatsType
      BY <3>1, StatsTyped
    <3>3. y \in Nat
      BY <3>1
    <3>4. QED
      BY <3>2, <3>3
  <2>2. CountUsage(m, tool, n) = [m EXCEPT !.usageTotal = y, !.byTool[tool] = x]
    BY DEF CountUsage
  <2> HIDE DEF x, y
  <2>3. [m EXCEPT !.usageTotal = y, !.byTool[tool] = x] \in MetricsType
    BY <1>1, <2>1
  <2>4. QED
    BY <2>2, <2>3
<1>7. QED
  BY <1>3, <1>4, <1>5, <1>6

-----------------------------------------------------------------------------
(* The inductive invariant.                                                *)

Called == {"running", "returned", "usage", "costing", "finishing"}

Limit(t) == IF t.tool \in Idempotent THEN Retries[t.tool] ELSE 0

(* The capability test and the approval test of _run_tool.                 *)
Able(t) == t.agent # Nothing => Requires[t.tool] \ Grants[t.agent] = {}

Cleared(s, t, j) ==
  /\ Able(t)
  /\ t.tool \in ApprovalFor => j.steps[s].approved = TRUE

(* What the position of a thread says about its locals t and its record in *)
(* the journal j: the gate it has passed ...                               *)
GateFits(s, t, j) ==
  /\ t.pc = "asking" => Able(t)
  /\ t.pc \in Called \cup {"call"} \/ t.calls > 0 => Cleared(s, t, j)

(* ... the attempts it has made ...                                        *)
AttemptsFit(s, t, j) ==
  /\ t.pc # "assigned" => s \in DOMAIN j.steps /\ j.steps[s].retries = t.attempt
  /\ t.attempt <= Limit(t)
  /\ t.pc \in {"assigned", "check", "asking"} => t.calls = 0 /\ t.attempt = 0
  /\ t.pc = "call" => t.calls = t.attempt
  /\ t.pc \in Called => t.calls = t.attempt + 1
  /\ t.pc \in {"failing", "errored", "done"} =>
       t.calls = t.attempt + 1 \/ (t.calls = 0 /\ t.attempt = 0)

(* ... and the values it holds.                                            *)
ValuesFit(t) ==
  /\ t.pc \in {"returned", "usage", "costing", "finishing"} => t.output \in Values
  /\ t.pc = "costing" => t.usage \in Nat
  /\ t.pc = "done" => t.status \in Statuses /\ (t.status = "success" => t.output \in Values)

Fits(s, t, j) == GateFits(s, t, j) /\ AttemptsFit(s, t, j) /\ ValuesFit(t)

TasksOK == \A s \in DOMAIN task : s < nextStepId /\ Fits(s, task[s], journal)

(* The threads the main thread waits for, and the values it holds.         *)
MainOK ==
  /\ pc \in {"step", "fallback"} =>
       /\ nextStepId - 1 \in TasksOf(entry)
       /\ \A s \in DOMAIN task : task[s].pc # "done" => s = nextStepId - 1
  /\ pc = "fanin" =>
       \A i \in DOMAIN Current.tools :
         nextStepId - Len(Current.tools) + i - 1 \in TasksOf(entry)
  /\ pc = "reduce" => ballot # << >>
  /\ pc = "fallback" => agreed \in Values
  /\ \A e \in DOMAIN groupOutputs : groupOutputs[e] # << >>

IInv == TypeOK /\ TasksOK /\ MainOK /\ NoOrphanThread

-----------------------------------------------------------------------------
(* Steps of the threads.                                                   *)

(* A thread's record in the journal is all that Fits reads of it.          *)
LEMMA FitsFrame ==
  ASSUME NEW s, NEW t, NEW j, NEW k, Fits(s, t, j), s \in DOMAIN j.steps =>
           s \in DOMAIN k.steps /\ k.steps[s] = j.steps[s],
         t.pc = "assigned" => t.calls = 0, t.calls \in Nat
  PROVE  Fits(s, t, k)
BY DEF Fits, GateFits, AttemptsFit, ValuesFit, Cleared, Called

(* t is one of the calls of _run_tool that u is.                           *)
SameCall(t, u) ==
  t.tool = u.tool /\ t.agent = u.agent /\ t.entry = u.entry /\ t.group = u.group

(* The locals of thread s become t, and the journal k.                     *)
ThreadStep(s, t, k) ==
  /\ task' = [task EXCEPT ![s] = t] /\ journal' = k
  /\ t \in TaskType /\ task[s].pc # "done"
  /\ SameCall(t, task[s])
  /\ Fits(s, t, k)
  /\ JournalTyped(k)
  /\ \A r \in DOMAIN journal.steps \ {s} : r \in DOMAIN k.steps /\ k.steps[r] = journal.steps[r]
  /\ cost' \in Nat /\ lastCost' \in [Tools -> Maybe(Nat)] /\ metrics' \in MetricsType
  /\ UNCHANGED <<main, pc, durable>>

LEMMA ThreadStepKeeps ==
  ASSUME IInv, NEW s \in DOMAIN task, NEW t, NEW k, ThreadStep(s, t, k)
  PROVE  IInv'
<1> USE DEF IInv, ThreadStep, SameCall
<1>1. /\ steps' = steps /\ pc' = pc /\ entry' = entry /\ nextStepId' = nextStepId
      /\ overall' = overall /\ ballot' = ballot /\ agreed' = agreed
      /\ groupOutputs' = groupOutputs /\ bindings' = bindings
      /\ checkpoint' = checkpoint /\ store' = store
  BY DEF main, durable
<1>2. /\ DOMAIN task' = DOMAIN task /\ task'[s] = t
      /\ \A r \in DOMAIN task \ {s} : task'[r] = task[r]
  BY DEF TypeOK, TasksTyped
<1>3. TypeOK'
  <2>1. MainTyped'
    BY <1>1 DEF TypeOK, MainTyped
  <2>2. TasksTyped'
    BY <1>2 DEF TypeOK, TasksTyped
  <2>3. QED
    BY <1>1, <2>1, <2>2 DEF TypeOK, CheckpointType
<1>4. TasksOK'
  <2> SUFFICES ASSUME NEW r \in DOMAIN task PROVE r < nextStepId /\ Fits(r, task'[r], k)
    BY <1>1, <1>2 DEF TasksOK
  <2>1. CASE r = s
    BY <1>2, <2>1 DEF TasksOK
  <2>2. CASE r # s
    <3>1. task'[r] = task[r] /\ Fits(r, task[r], journal) /\ r < nextStepId
      BY <1>2, <2>2 DEF TasksOK
    <3>2. task[r].calls \in Nat /\ (task[r].pc = "assigned" => task[r].calls = 0)
      BY <3>1 DEF TypeOK, TasksTyped, TaskType, Fits, AttemptsFit
    <3>3. QED
      BY <2>2, <3>1, <3>2, FitsFrame
  <2>3. QED
    BY <2>1, <2>2
<1>5. \A r \in DOMAIN task : task'[r].entry = task[r].entry
                             /\ (task'[r].pc # "done" => task[r].pc # "done")
  BY <1>2
<1>6. MainOK'
  <2>1. \A e : TasksOf(e)' = TasksOf(e)
    BY <1>2, <1>5 DEF TasksOf
  <2>2. Current' = Current
    BY <1>1 DEF Current
  <2>3. QED
    BY <1>1, <1>2, <1>5, <2>1, <2>2 DEF MainOK
<1>7. NoOrphanThread'
  BY <1>1, <1>2, <1>5 DEF NoOrphanThread
<1>8. QED
  BY <1>3, <1>4, <1>6, <1>7

(* What a thread brings to any of its steps.                               *)
LEMMA ThreadFacts ==
  ASSUME IInv, NEW s \in DOMAIN task
  PROVE  /\ task[s] \in TaskType /\ s \in Nat \ {0} /\ Fits(s, task[s], journal)
         /\ JournalTyped(journal) /\ cost \in Nat /\ lastCost \in [Tools -> Maybe(Nat)]
         /\ metrics \in MetricsType
         /\ task[s].pc # "assigned" => s \in DOMAIN journal.steps
BY DEF IInv, TypeOK, TasksTyped, TasksOK, Fits, AttemptsFit

LEMMA StartStepKeeps ==
  ASSUME IInv, NEW s \in DOMAIN task, StartStep(s)
  PROVE  IInv'
<1> DEFINE t == [task[s] EXCEPT !.pc = "check"]
           k == OnStepStarted(journal, s, task[s].tool, task[s].group, FALSE)
<1>1. task' = [task EXCEPT ![s] = t] /\ journal' = k /\ task[s].pc = "assigned"
  BY DEF StartStep, Moves
<1>2. OnlyStep(journal, k, s) /\ k.steps[s].retries = 0
  <2>1. /\ task[s].tool \in ToolNames /\ task[s].group \in Maybe(Nat) /\ FALSE \in BOOLEAN
        /\ s \in Nat \ {0} /\ JournalTyped(journal)
    BY ThreadFacts, ToolAssumption DEF TaskType
  <2>2. QED
    BY <2>1, StartedJournal
<1> HIDE DEF k
<1>3. t \in TaskType /\ SameCall(t, task[s]) /\ t.pc = "check" /\ t.attempt = 0 /\ t.calls = 0
  BY <1>1, ThreadFacts DEF TaskType, TaskPC, Fits, AttemptsFit, SameCall
<1>4. Fits(s, t, k)
  <2>1. s \in DOMAIN k.steps /\ k.steps[s].retries = 0
    BY <1>2 DEF OnlyStep
  <2>2. 0 <= Limit(t)
    BY <1>3, ThreadFacts, ToolAssumption DEF Limit, TaskType
  <2> HIDE DEF t
  <2>3. QED
    BY <1>3, <2>1, <2>2 DEF Fits, GateFits, AttemptsFit, ValuesFit, Called
<1> HIDE DEF t
<1>5. ThreadStep(s, t, k)
  BY <1>1, <1>2, <1>3, <1>4, ThreadFacts DEF ThreadStep, SameCall, OnlyStep, StartStep
<1>6. QED
  BY <1>5, ThreadStepKeeps

LEMMA DenyCapabilityKeeps ==
  ASSUME IInv, NEW s \in DOMAIN task, DenyCapability(s)
  PROVE  IInv'
<1> DEFINE t == [task[s] EXCEPT !.pc = "failing", !.error = "CapabilityDenied"]
<1>1. /\ task' = [task EXCEPT ![s] = t] /\ journal' = journal /\ task[s].pc = "check"
  BY DEF DenyCapability, Moves, Throws
<1>2. /\ t \in TaskType /\ SameCall(t, task[s])
      /\ t.pc = "failing" /\ t.attempt = task[s].attempt /\ t.calls = task[s].calls
  BY <1>1, ThreadFacts DEF TaskType, TaskPC, SameCall, Maybe, Errors
<1> HIDE DEF t
<1>3. Fits(s, t, journal)
  BY <1>1, <1>2, ThreadFacts DEF Fits, GateFits, AttemptsFit, ValuesFit, Able, Cleared, Called,
     Limit, SameCall
<1>4. ThreadStep(s, t, journal)
  BY <1>1, <1>2, <1>3, ThreadFacts DEF ThreadStep, SameCall, DenyCapability
<1>5. QED
  BY <1>4, ThreadStepKeeps

LEMMA RequestApprovalKeeps ==
  ASSUME IInv, NEW s \in DOMAIN task, RequestApproval(s)
  PROVE  IInv'
<1> DEFINE t == [task[s] EXCEPT !.pc = "asking"]
<1>1. /\ task' = [task EXCEPT ![s] = t] /\ journal' = journal /\ task[s].pc = "check"
      /\ Able(task[s])
  BY DEF RequestApproval, Moves, Throws, Missing, Able
<1>2. /\ t \in TaskType /\ SameCall(t, task[s])
      /\ t.pc = "asking" /\ t.attempt = task[s].attempt /\ t.calls = task[s].calls
  BY <1>1, ThreadFacts DEF TaskType, TaskPC, SameCall, Maybe, Errors
<1> HIDE DEF t
<1>3. Fits(s, t, journal)
  BY <1>1, <1>2, ThreadFacts DEF Fits, GateFits, AttemptsFit, ValuesFit, Able, Cleared, Called,
     Limit, SameCall
<1>4. ThreadStep(s, t, journal)
  BY <1>1, <1>2, <1>3, ThreadFacts DEF ThreadStep, SameCall, RequestApproval
<1>5. QED
  BY <1>4, ThreadStepKeeps

LEMMA SkipApprovalKeeps ==
  ASSUME IInv, NEW s \in DOMAIN task, SkipApproval(s)
  PROVE  IInv'
<1> DEFINE t == [task[s] EXCEPT !.pc = "call"]
<1>1. /\ task' = [task EXCEPT ![s] = t] /\ journal' = journal /\ task[s].pc = "check"
      /\ Able(task[s])
      /\ task[s].tool \notin ApprovalFor
  BY DEF SkipApproval, Moves, Throws, Missing, Able, NeedsApproval
<1>2. /\ t \in TaskType /\ SameCall(t, task[s])
      /\ t.pc = "call" /\ t.attempt = task[s].attempt /\ t.calls = task[s].calls
  BY <1>1, ThreadFacts DEF TaskType, TaskPC, SameCall, Maybe, Errors
<1> HIDE DEF t
<1>3. Fits(s, t, journal)
  BY <1>1, <1>2, ThreadFacts DEF Fits, GateFits, AttemptsFit, ValuesFit, Able, Cleared, Called,
     Limit, SameCall
<1>4. ThreadStep(s, t, journal)
  BY <1>1, <1>2, <1>3, ThreadFacts DEF ThreadStep, SameCall, SkipApproval
<1>5. QED
  BY <1>4, ThreadStepKeeps

LEMMA ApprovalRaisesKeeps ==
  ASSUME IInv, NEW s \in DOMAIN task, ApprovalRaises(s)
  PROVE  IInv'
<1> DEFINE t == [task[s] EXCEPT !.pc = "failing", !.error = "raised"]
<1>1. /\ task' = [task EXCEPT ![s] = t] /\ journal' = journal /\ task[s].pc = "asking"
  BY DEF ApprovalRaises, Moves, Throws
<1>2. /\ t \in TaskType /\ SameCall(t, task[s])
      /\ t.pc = "failing" /\ t.attempt = task[s].attempt /\ t.calls = task[s].calls
  BY <1>1, ThreadFacts DEF TaskType, TaskPC, SameCall, Maybe, Errors
<1> HIDE DEF t
<1>3. Fits(s, t, journal)
  BY <1>1, <1>2, ThreadFacts DEF Fits, GateFits, AttemptsFit, ValuesFit, Able, Cleared, Called,
     Limit, SameCall
<1>4. ThreadStep(s, t, journal)
  BY <1>1, <1>2, <1>3, ThreadFacts DEF ThreadStep, SameCall, ApprovalRaises
<1>5. QED
  BY <1>4, ThreadStepKeeps

LEMMA NoUsageKeeps ==
  ASSUME IInv, NEW s \in DOMAIN task, NoUsage(s)
  PROVE  IInv'
<1> DEFINE t == [task[s] EXCEPT !.pc = "finishing"]
<1>1. /\ task' = [task EXCEPT ![s] = t] /\ journal' = journal /\ task[s].pc = "usage"
  BY DEF NoUsage, Moves, Throws
<1>2. /\ t \in TaskType /\ SameCall(t, task[s])
      /\ t.pc = "finishing" /\ t.attempt = task[s].attempt /\ t.calls = task[s].calls
      /\ t.output = task[s].output
  BY <1>1, ThreadFacts DEF TaskType, TaskPC, SameCall, Maybe, Errors
<1> HIDE DEF t
<1>3. Fits(s, t, journal)
  BY <1>1, <1>2, ThreadFacts DEF Fits, GateFits, AttemptsFit, ValuesFit, Able, Cleared, Called,
     Limit, SameCall
<1>4. ThreadStep(s, t, journal)
  BY <1>1, <1>2, <1>3, ThreadFacts DEF ThreadStep, SameCall, NoUsage
<1>5. QED
  BY <1>4, ThreadStepKeeps

LEMMA UsageRaisesKeeps ==
  ASSUME IInv, NEW s \in DOMAIN task, UsageRaises(s)
  PROVE  IInv'
<1> DEFINE t == [task[s] EXCEPT !.pc = "failing", !.error = "raised"]
<1>1. /\ task' = [task EXCEPT ![s] = t] /\ journal' = journal /\ task[s].pc = "usage"
  BY DEF UsageRaises, Moves, Throws
<1>2. /\ t \in TaskType /\ SameCall(t, task[s])
      /\ t.pc = "failing" /\ t.attempt = task[s].attempt /\ t.calls = task[s].calls
  BY <1>1, ThreadFacts DEF TaskType, TaskPC, SameCall, Maybe, Errors
<1> HIDE DEF t
<1>3. Fits(s, t, journal)
  BY <1>1, <1>2, ThreadFacts DEF Fits, GateFits, AttemptsFit, ValuesFit, Able, Cleared, Called,
     Limit, SameCall
<1>4. ThreadStep(s, t, journal)
  BY <1>1, <1>2, <1>3, ThreadFacts DEF ThreadStep, SameCall, UsageRaises
<1>5. QED
  BY <1>4, ThreadStepKeeps

LEMMA CallToolKeeps ==
  ASSUME IInv, NEW s \in DOMAIN task, CallTool(s)
  PROVE  IInv'
<1> DEFINE n == task[s].calls + 1
           t == [task[s] EXCEPT !.pc = "running", !.calls = n]
<1>1. task' = [task EXCEPT ![s] = t] /\ journal' = journal /\ task[s].pc = "call"
  BY DEF CallTool
<1>2. n \in Nat /\ task[s].calls = task[s].attempt /\ task[s].attempt \in Nat
  BY <1>1, ThreadFacts DEF TaskType, Fits, AttemptsFit
<1>3. n = task[s].attempt + 1
  BY <1>2
<1> HIDE DEF n
<1>4. /\ t \in TaskType /\ SameCall(t, task[s])
      /\ t.pc = "running" /\ t.attempt = task[s].attempt /\ t.calls = n
  BY <1>2, ThreadFacts DEF TaskType, TaskPC, SameCall
<1> HIDE DEF t
<1>5. Fits(s, t, journal)
  BY <1>1, <1>3, <1>4, ThreadFacts
     DEF Fits, GateFits, AttemptsFit, ValuesFit, Able, Cleared, Called, Limit, SameCall
<1>6. ThreadStep(s, t, journal)
  BY <1>1, <1>4, <1>5, ThreadFacts DEF ThreadStep, CallTool
<1>7. QED
  BY <1>6, ThreadStepKeeps

LEMMA ToolReturnsKeeps ==
  ASSUME IInv, NEW s \in DOMAIN task, NEW v \in Outcomes[task[s].tool],
         NEW c \in Costs[task[s].tool], ToolReturns(s, v, c)
  PROVE  IInv'
<1> DEFINE t == [task[s] EXCEPT !.pc = "returned", !.output = v]
<1>1. task' = [task EXCEPT ![s] = t] /\ journal' = journal /\ task[s].pc = "running"
  BY DEF ToolReturns
<1>2. v \in Values /\ c \in Maybe(Nat)
  <2>1. task[s].tool \in Tools
    BY ThreadFacts DEF TaskType
  <2>2. QED
    BY <2>1, ToolAssumption DEF Maybe
<1>3. /\ t \in TaskType /\ SameCall(t, task[s]) /\ t.output = v
      /\ t.pc = "returned" /\ t.attempt = task[s].attempt /\ t.calls = task[s].calls
  <2>1. v \in Maybe(Values)
    BY <1>2 DEF Maybe
  <2>2. QED
    BY <2>1, ThreadFacts DEF TaskType, TaskPC, SameCall
<1> HIDE DEF t
<1>4. Fits(s, t, journal)
  BY <1>1, <1>2, <1>3, ThreadFacts
     DEF Fits, GateFits, AttemptsFit, ValuesFit, Able, Cleared, Called, Limit, SameCall
<1>5. lastCost' \in [Tools -> Maybe(Nat)]
  BY <1>2, ThreadFacts DEF ToolReturns
<1>6. ThreadStep(s, t, journal)
  BY <1>1, <1>3, <1>4, <1>5, ThreadFacts DEF ThreadStep, ToolReturns
<1>7. QED
  BY <1>6, ThreadStepKeeps

LEMMA AddCostKeeps ==
  ASSUME IInv, NEW s \in DOMAIN task, AddCost(s)
  PROVE  IInv'
<1> DEFINE t == [task[s] EXCEPT !.pc = "finishing"]
<1>1. task' = [task EXCEPT ![s] = t] /\ journal' = journal /\ task[s].pc = "costing"
  BY DEF AddCost, Moves
<1>2. /\ t \in TaskType /\ SameCall(t, task[s]) /\ t.output = task[s].output
      /\ t.pc = "finishing" /\ t.attempt = task[s].attempt /\ t.calls = task[s].calls
  BY ThreadFacts DEF TaskType, TaskPC, SameCall
<1> HIDE DEF t
<1>3. Fits(s, t, journal)
  BY <1>1, <1>2, ThreadFacts
     DEF Fits, GateFits, AttemptsFit, ValuesFit, Able, Cleared, Called, Limit, SameCall
<1>4. cost' \in Nat
  <2>1. task[s].usage \in Nat /\ cost \in Nat
    BY <1>1, ThreadFacts DEF Fits, ValuesFit
  <2>2. QED
    BY <2>1 DEF AddCost, AddedCost
<1>5. ThreadStep(s, t, journal)
  BY <1>1, <1>2, <1>3, <1>4, ThreadFacts DEF ThreadStep, AddCost
<1>6. QED
  BY <1>5, ThreadStepKeeps

(* The record of a thread's step in the journal.                           *)
LEMMA RecordFacts ==
  ASSUME IInv, NEW s \in DOMAIN task, task[s].pc # "assigned"
  PROVE  /\ s \in DOMAIN journal.steps /\ journal.steps[s] \in StepRecordType
         /\ journal.steps[s].retries = task[s].attempt
         /\ JournalTyped(journal)
<1>1. s \in DOMAIN journal.steps /\ journal.steps[s].retries = task[s].attempt
  BY ThreadFacts DEF Fits, AttemptsFit
<1>2. JournalTyped(journal)
  BY ThreadFacts
<1>3. QED
  BY <1>1, <1>2 DEF JournalTyped

LEMMA DecideApprovalKeeps ==
  ASSUME IInv, NEW s \in DOMAIN task, NEW approved \in BOOLEAN, DecideApproval(s, approved)
  PROVE  IInv'
<1> DEFINE k == OnApprovalDecided(journal, s, approved)
<1>1. journal' = k /\ task[s].pc = "asking" /\ cost' = cost /\ lastCost' = lastCost
      /\ metrics' = metrics /\ UNCHANGED <<main, pc, durable>>
  BY DEF DecideApproval
<1>2. OnlyStep(journal, k, s) /\ k.steps[s] = [journal.steps[s] EXCEPT !.approved = approved]
  BY <1>1, RecordFacts, StepHandlers
<1>3. k.steps[s].retries = task[s].attempt
  BY <1>1, <1>2, RecordFacts DEF StepRecordType
<1>4. ASSUME approved PROVE k.steps[s].approved = TRUE
  BY <1>1, <1>2, <1>4, RecordFacts DEF StepRecordType
<1>5. s \in DOMAIN k.steps
  BY <1>2 DEF OnlyStep
<1>6. task[s].calls = 0 /\ task[s].attempt = 0 /\ 0 <= Limit(task[s]) /\ Able(task[s])
  BY <1>1, ThreadFacts DEF Fits, AttemptsFit, GateFits
<1> HIDE DEF k
<1>7. CASE approved
  <2> DEFINE t == [task[s] EXCEPT !.pc = "call"]
  <2>1. task' = [task EXCEPT ![s] = t]
    BY <1>7 DEF DecideApproval, Moves
  <2>2. /\ t \in TaskType /\ SameCall(t, task[s])
        /\ t.pc = "call" /\ t.attempt = task[s].attempt /\ t.calls = task[s].calls
    BY ThreadFacts DEF TaskType, TaskPC, SameCall
  <2> HIDE DEF t
  <2>3. Fits(s, t, k)
    <3>1. k.steps[s].approved = TRUE
      BY <1>4, <1>7
    <3>2. QED
      BY <1>3, <1>5, <1>6, <2>2, <3>1
         DEF Fits, GateFits, AttemptsFit, ValuesFit, Able, Cleared, Called, Limit, SameCall
  <2>4. ThreadStep(s, t, k)
    BY <1>1, <1>2, <2>1, <2>2, <2>3, ThreadFacts DEF ThreadStep, OnlyStep
  <2>5. QED
    BY <2>4, ThreadStepKeeps
<1>8. CASE ~approved
  <2> DEFINE t == [task[s] EXCEPT !.pc = "failing", !.error = "ApprovalDenied"]
  <2>1. task' = [task EXCEPT ![s] = t]
    BY <1>8 DEF DecideApproval, Throws
  <2>2. /\ t \in TaskType /\ SameCall(t, task[s])
        /\ t.pc = "failing" /\ t.attempt = task[s].attempt /\ t.calls = task[s].calls
    BY ThreadFacts DEF TaskType, TaskPC, SameCall, Maybe, Errors
  <2> HIDE DEF t
  <2>3. Fits(s, t, k)
    BY <1>3, <1>5, <1>6, <2>2
       DEF Fits, GateFits, AttemptsFit, ValuesFit, Called, Limit, SameCall
  <2>4. ThreadStep(s, t, k)
    BY <1>1, <1>2, <2>1, <2>2, <2>3, ThreadFacts DEF ThreadStep, OnlyStep
  <2>5. QED
    BY <2>4, ThreadStepKeeps
<1>9. QED
  BY <1>7, <1>8

LEMMA ToolRaisesKeeps ==
  ASSUME IInv, NEW s \in DOMAIN task, ToolRaises(s)
  PROVE  IInv'
<1>1. task[s].pc = "running" /\ cost' = cost /\ lastCost' = lastCost
      /\ UNCHANGED <<main, pc, durable>>
  BY DEF ToolRaises
<1>2. CASE MayRetry(s)
  <2> DEFINE n == task[s].attempt + 1
             t == [task[s] EXCEPT !.pc = "call", !.attempt = n]
             k == OnRetryAttempted(journal, s, n)
  <2>1. task' = [task EXCEPT ![s] = t] /\ journal' = k
        /\ metrics' = CountRetry(metrics, task[s].tool)
    BY <1>2 DEF ToolRaises
  <2>2. n \in Nat /\ task[s].calls = n /\ n <= Limit(task[s])
    <3>1. /\ task[s].attempt \in Nat /\ task[s].calls = task[s].attempt + 1
          /\ task[s].tool \in Tools
      BY <1>1, ThreadFacts DEF TaskType, Fits, AttemptsFit, Called
    <3>2. Retries[task[s].tool] \in Nat
      BY <3>1, ToolAssumption
    <3>3. QED
      BY <1>2, <3>1, <3>2 DEF MayRetry, Limit
  <2> HIDE DEF n
  <2>3. OnlyStep(journal, k, s) /\ k.steps[s] = [journal.steps[s] EXCEPT !.retries = n]
    BY <1>1, <2>2, RecordFacts, StepHandlers
  <2>4. k.steps[s].retries = n /\ k.steps[s].approved = journal.steps[s].approved
    BY <1>1, <2>3, RecordFacts DEF StepRecordType
  <2> HIDE DEF k
  <2>5. /\ t \in TaskType /\ SameCall(t, task[s])
        /\ t.pc = "call" /\ t.attempt = n /\ t.calls = task[s].calls
    BY <2>2, ThreadFacts DEF TaskType, TaskPC, SameCall
  <2> HIDE DEF t
  <2>6. Fits(s, t, k)
    BY <1>1, <2>2, <2>3, <2>4, <2>5, ThreadFacts
       DEF Fits, GateFits, AttemptsFit, ValuesFit, Able, Cleared, Called, Limit, SameCall, OnlyStep
  <2>7. metrics' \in MetricsType
    <3>1. task[s].tool \in ToolNames /\ metrics \in MetricsType
      BY ThreadFacts, ToolAssumption DEF TaskType
    <3>2. QED
      BY <2>1, <3>1, CountsTyped
  <2>8. ThreadStep(s, t, k)
    BY <1>1, <2>1, <2>3, <2>5, <2>6, <2>7, ThreadFacts DEF ThreadStep, OnlyStep
  <2>9. QED
    BY <2>8, ThreadStepKeeps
<1>3. CASE ~MayRetry(s)
  <2> DEFINE t == [task[s] EXCEPT !.pc = "failing", !.error = "raised"]
  <2>1. task' = [task EXCEPT ![s] = t] /\ journal' = journal /\ metrics' = metrics
    BY <1>3 DEF ToolRaises, Throws
  <2>2. /\ t \in TaskType /\ SameCall(t, task[s])
        /\ t.pc = "failing" /\ t.attempt = task[s].attempt /\ t.calls = task[s].calls
    BY ThreadFacts DEF TaskType, TaskPC, SameCall, Maybe, Errors
  <2> HIDE DEF t
  <2>3. Fits(s, t, journal)
    BY <1>1, <2>2, ThreadFacts
       DEF Fits, GateFits, AttemptsFit, ValuesFit, Able, Cleared, Called, Limit, SameCall
  <2>4. ThreadStep(s, t, journal)
    BY <1>1, <2>1, <2>2, <2>3, ThreadFacts DEF ThreadStep
  <2>5. QED
    BY <2>4, ThreadStepKeeps
<1>4. QED
  BY <1>2, <1>3

LEMMA EmitSucceededKeeps ==
  ASSUME IInv, NEW s \in DOMAIN task, EmitSucceeded(s)
  PROVE  IInv'
<1> DEFINE v == task[s].output
           t == [task[s] EXCEPT !.pc = "usage"]
           k == OnToolSucceeded(journal, s, v)
<1>1. task' = [task EXCEPT ![s] = t] /\ journal' = k /\ task[s].pc = "returned"
  BY DEF EmitSucceeded, Moves
<1>2. /\ t \in TaskType /\ SameCall(t, task[s]) /\ t.output = v /\ v \in Maybe(Values)
      /\ t.pc = "usage" /\ t.attempt = task[s].attempt /\ t.calls = task[s].calls
  BY ThreadFacts DEF TaskType, TaskPC, SameCall
<1> HIDE DEF t
<1>3. OnlyStep(journal, k, s) /\ k.steps[s] = [journal.steps[s] EXCEPT !.output = v]
  BY <1>1, <1>2, RecordFacts, StepHandlers
<1>4. k.steps[s].retries = task[s].attempt /\ k.steps[s].approved = journal.steps[s].approved
  BY <1>1, <1>3, RecordFacts DEF StepRecordType
<1> HIDE DEF k
<1>5. Fits(s, t, k)
  BY <1>1, <1>2, <1>3, <1>4, ThreadFacts
     DEF Fits, GateFits, AttemptsFit, ValuesFit, Able, Cleared, Called, Limit, SameCall, OnlyStep
<1>6. ThreadStep(s, t, k)
  BY <1>1, <1>2, <1>3, <1>5, ThreadFacts DEF ThreadStep, OnlyStep, EmitSucceeded
<1>7. QED
  BY <1>6, ThreadStepKeeps

LEMMA ReportUsageKeeps ==
  ASSUME IInv, NEW s \in DOMAIN task, ReportUsage(s)
  PROVE  IInv'
<1> DEFINE u == lastCost[task[s].tool]
           t == [task[s] EXCEPT !.pc = "costing", !.usage = u]
           k == OnUsageReported(journal, s, u)
<1>1. task' = [task EXCEPT ![s] = t] /\ journal' = k /\ task[s].pc = "usage"
      /\ metrics' = CountUsage(metrics, task[s].tool, u)
  BY DEF ReportUsage
<1>2. u \in Nat /\ u \in Maybe(Nat)
  <2>1. task[s].tool \in Tools /\ lastCost \in [Tools -> Maybe(Nat)]
    BY ThreadFacts DEF TaskType
  <2>2. QED
    BY <2>1 DEF Maybe, ReportUsage
<1> HIDE DEF u
<1>3. /\ t \in TaskType /\ SameCall(t, task[s]) /\ t.output = task[s].output /\ t.usage = u
      /\ t.pc = "costing" /\ t.attempt = task[s].attempt /\ t.calls = task[s].calls
  BY <1>2, ThreadFacts DEF TaskType, TaskPC, SameCall
<1> HIDE DEF t
<1>4. OnlyStep(journal, k, s) /\ k.steps[s] = [journal.steps[s] EXCEPT !.usage = u]
  BY <1>1, <1>2, RecordFacts, StepHandlers
<1>5. k.steps[s].retries = task[s].attempt /\ k.steps[s].approved = journal.steps[s].approved
  BY <1>1, <1>4, RecordFacts DEF StepRecordType
<1> HIDE DEF k
<1>6. Fits(s, t, k)
  BY <1>1, <1>2, <1>3, <1>4, <1>5, ThreadFacts
     DEF Fits, GateFits, AttemptsFit, ValuesFit, Able, Cleared, Called, Limit, SameCall, OnlyStep
<1>7. metrics' \in MetricsType
  <2>1. task[s].tool \in ToolNames /\ metrics \in MetricsType
    BY ThreadFacts, ToolAssumption DEF TaskType
  <2>2. QED
    BY <1>1, <1>2, <2>1, CountsTyped
<1>8. ThreadStep(s, t, k)
  BY <1>1, <1>3, <1>4, <1>6, <1>7, ThreadFacts DEF ThreadStep, OnlyStep, ReportUsage
<1>9. QED
  BY <1>8, ThreadStepKeeps

LEMMA EmitFailedKeeps ==
  ASSUME IInv, NEW s \in DOMAIN task, EmitFailed(s)
  PROVE  IInv'
<1> DEFINE e == task[s].error
           t == [task[s] EXCEPT !.pc = "errored"]
           k == OnToolFailed(journal, s, e)
<1>1. task' = [task EXCEPT ![s] = t] /\ journal' = k /\ task[s].pc = "failing"
  BY DEF EmitFailed, Moves
<1>2. /\ t \in TaskType /\ SameCall(t, task[s]) /\ e \in Maybe(Errors)
      /\ t.pc = "errored" /\ t.attempt = task[s].attempt /\ t.calls = task[s].calls
  BY ThreadFacts DEF TaskType, TaskPC, SameCall
<1> HIDE DEF t
<1>3. OnlyStep(journal, k, s) /\ k.steps[s] = [journal.steps[s] EXCEPT !.error = e]
  BY <1>1, <1>2, RecordFacts, StepHandlers
<1>4. k.steps[s].retries = task[s].attempt /\ k.steps[s].approved = journal.steps[s].approved
  BY <1>1, <1>3, RecordFacts DEF StepRecordType
<1> HIDE DEF k
<1>5. Fits(s, t, k)
  BY <1>1, <1>2, <1>3, <1>4, ThreadFacts
     DEF Fits, GateFits, AttemptsFit, ValuesFit, Able, Cleared, Called, Limit, SameCall, OnlyStep
<1>6. ThreadStep(s, t, k)
  BY <1>1, <1>2, <1>3, <1>5, ThreadFacts DEF ThreadStep, OnlyStep, EmitFailed
<1>7. QED
  BY <1>6, ThreadStepKeeps

LEMMA FinishesKeeps ==
  ASSUME IInv, NEW s \in DOMAIN task, NEW from, NEW status,
         <<from, status>> = <<"finishing", "success">>
           \/ <<from, status>> = <<"errored", "failed">>,
         Finishes(s, from, status)
  PROVE  IInv'
<1> DEFINE t == [task[s] EXCEPT !.pc = "done", !.status = status]
           k == OnStepFinished(journal, s, status)
<1>1. task' = [task EXCEPT ![s] = t] /\ journal' = k /\ task[s].pc = from
      /\ metrics' = CountStep(metrics, task[s].tool, status)
      /\ UNCHANGED <<main, pc, durable>> /\ cost' = cost /\ lastCost' = lastCost
  BY DEF Finishes
<1>2. /\ status \in Statuses /\ status \in Maybe(Statuses)
      /\ from \in {"finishing", "errored"} /\ (status = "success" => from = "finishing")
  BY DEF Statuses, Maybe
<1>3. /\ t \in TaskType /\ SameCall(t, task[s]) /\ t.output = task[s].output /\ t.status = status
      /\ t.pc = "done" /\ t.attempt = task[s].attempt /\ t.calls = task[s].calls
  BY <1>2, ThreadFacts DEF TaskType, TaskPC, SameCall
<1> HIDE DEF t
<1>4. OnlyStep(journal, k, s) /\ k.steps[s] = [journal.steps[s] EXCEPT !.status = status]
  BY <1>1, <1>2, RecordFacts, StepHandlers
<1>5. k.steps[s].retries = task[s].attempt /\ k.steps[s].approved = journal.steps[s].approved
  BY <1>1, <1>2, <1>4, RecordFacts DEF StepRecordType
<1> HIDE DEF k
<1>6. Fits(s, t, k)
  BY <1>1, <1>2, <1>3, <1>4, <1>5, ThreadFacts
     DEF Fits, GateFits, AttemptsFit, ValuesFit, Able, Cleared, Called, Limit, SameCall, OnlyStep
<1>7. metrics' \in MetricsType
  <2>1. task[s].tool \in ToolNames /\ metrics \in MetricsType
    BY ThreadFacts, ToolAssumption DEF TaskType
  <2>2. QED
    BY <1>1, <1>2, <2>1, CountsTyped
<1>8. ThreadStep(s, t, k)
  BY <1>1, <1>2, <1>3, <1>4, <1>6, <1>7, ThreadFacts DEF ThreadStep, OnlyStep
<1>9. QED
  BY <1>8, ThreadStepKeeps

LEMMA RunToolKeeps ==
  ASSUME IInv, NEW s \in DOMAIN task, RunTool(s)
  PROVE  IInv'
<1>1. CASE StartStep(s)
  BY <1>1, StartStepKeeps
<1>2. CASE DenyCapability(s)
  BY <1>2, DenyCapabilityKeeps
<1>3. CASE RequestApproval(s)
  BY <1>3, RequestApprovalKeeps
<1>4. CASE SkipApproval(s)
  BY <1>4, SkipApprovalKeeps
<1>5. CASE \E approved \in BOOLEAN : DecideApproval(s, approved)
  BY <1>5, DecideApprovalKeeps
<1>6. CASE ApprovalRaises(s)
  BY <1>6, ApprovalRaisesKeeps
<1>7. CASE CallTool(s)
  BY <1>7, CallToolKeeps
<1>8. CASE \E v \in Outcomes[task[s].tool], c \in Costs[task[s].tool] : ToolReturns(s, v, c)
  BY <1>8, ToolReturnsKeeps
<1>9. CASE ToolRaises(s)
  BY <1>9, ToolRaisesKeeps
<1>10. CASE EmitSucceeded(s)
  BY <1>10, EmitSucceededKeeps
<1>11. CASE NoUsage(s)
  BY <1>11, NoUsageKeeps
<1>12. CASE UsageRaises(s)
  BY <1>12, UsageRaisesKeeps
<1>13. CASE ReportUsage(s)
  BY <1>13, ReportUsageKeeps
<1>14. CASE AddCost(s)
  BY <1>14, AddCostKeeps
<1>15. CASE FinishSucceeded(s)
  BY <1>15, FinishesKeeps DEF FinishSucceeded
<1>16. CASE EmitFailed(s)
  BY <1>16, EmitFailedKeeps
<1>17. CASE FinishFailed(s)
  BY <1>17, FinishesKeeps DEF FinishFailed
<1>18. QED
  BY <1>1, <1>2, <1>3, <1>4, <1>5, <1>6, <1>7, <1>8, <1>9, <1>10, <1>11, <1>12, <1>13,
     <1>14, <1>15, <1>16, <1>17 DEF RunTool

-----------------------------------------------------------------------------
(* Steps of the main thread.                                               *)

NoThread == \A s \in DOMAIN task : task[s].pc = "done"

(* The journal keeps what it says of the threads there are.                *)
TasksKeepRecords(k) ==
  \A s \in DOMAIN task \cap DOMAIN journal.steps :
    s \in DOMAIN k.steps /\ k.steps[s] = journal.steps[s]

(* A step after which the main thread waits for no thread.                 *)
Settles ==
  /\ UNCHANGED <<steps, task, cost, lastCost, checkpoint>>
  /\ pc' \in {"next", "reduce", "finish", "done", "raised"}
  /\ entry' \in Nat \ {0} /\ (pc' \in {"reduce", "raised"} => entry' \in DOMAIN steps)
  /\ nextStepId' \in {nextStepId, nextStepId + 1} /\ overall' \in Statuses
  /\ ballot' \in Seq(Values) /\ (pc' = "reduce" => ballot' # << >>)
  /\ agreed' \in Maybe(Values)
  /\ groupOutputs' \in [DOMAIN groupOutputs' -> Seq(Values)]
  /\ \A e \in DOMAIN groupOutputs' : groupOutputs'[e] # << >>
  /\ DOMAIN bindings' \subseteq Names /\ bindings' \in [DOMAIN bindings' -> Values]
  /\ CheckpointType(store')
  /\ JournalTyped(journal') /\ TasksKeepRecords(journal') /\ metrics' \in MetricsType

LEMMA SettlesKeeps ==
  ASSUME IInv, NoThread, Settles
  PROVE  IInv'
<1>1. nextStepId \in Nat \ {0} /\ nextStepId' \in Nat \ {0} /\ nextStepId <= nextStepId'
  BY DEF IInv, TypeOK, MainTyped, Settles
<1>2. TypeOK'
  <2>1. MainTyped'
    BY <1>1 DEF IInv, TypeOK, MainTyped, Settles
  <2>2. TasksTyped'
    BY DEF IInv, TypeOK, TasksTyped, Settles
  <2>3. CheckpointType(checkpoint)' /\ CheckpointType(store)'
    BY DEF IInv, TypeOK, CheckpointType, Settles
  <2>4. QED
    BY <2>1, <2>2, <2>3 DEF IInv, TypeOK, Settles
<1>3. TasksOK'
  <2> SUFFICES ASSUME NEW s \in DOMAIN task PROVE s < nextStepId' /\ Fits(s, task[s], journal')
    BY DEF TasksOK, Settles
  <2>1. s \in Nat /\ s < nextStepId /\ Fits(s, task[s], journal)
    BY DEF IInv, TypeOK, TasksTyped, TasksOK
  <2>2. task[s].calls \in Nat /\ task[s].pc = "done"
    BY DEF IInv, TypeOK, TasksTyped, TaskType, NoThread
  <2>3. s \in DOMAIN journal.steps =>
          s \in DOMAIN journal'.steps /\ journal'.steps[s] = journal.steps[s]
    BY DEF Settles, TasksKeepRecords
  <2>4. Fits(s, task[s], journal')
    BY <2>1, <2>2, <2>3, FitsFrame
  <2>5. QED
    BY <1>1, <2>1, <2>4
<1>4. MainOK' /\ NoOrphanThread'
  BY DEF MainOK, NoOrphanThread, NoThread, Settles
<1>5. QED
  BY <1>2, <1>3, <1>4 DEF IInv

(* What the main thread knows where it settles from.                       *)
LEMMA MainFacts ==
  ASSUME IInv
  PROVE  /\ steps \in Workflows /\ entry \in Nat \ {0} /\ nextStepId \in Nat \ {0}
         /\ entry + 1 \in Nat \ {0} /\ nextStepId + 1 \in Nat \ {0}
         /\ overall \in Statuses /\ ballot \in Seq(Values) /\ agreed \in Maybe(Values)
         /\ groupOutputs \in [DOMAIN groupOutputs -> Seq(Values)]
         /\ \A e \in DOMAIN groupOutputs : groupOutputs[e] # << >>
         /\ DOMAIN bindings \subseteq Names /\ bindings \in [DOMAIN bindings -> Values]
         /\ CheckpointType(checkpoint) /\ CheckpointType(store)
         /\ JournalTyped(journal) /\ metrics \in MetricsType
         /\ TasksKeepRecords(journal) /\ nextStepId \notin DOMAIN task
         /\ pc \notin {"next", "finish", "done"} => entry \in DOMAIN steps
<1>1. nextStepId \notin DOMAIN task
  <2>1. \A s \in DOMAIN task : s \in Nat /\ s < nextStepId
    BY DEF IInv, TypeOK, TasksTyped, TasksOK
  <2>2. nextStepId \in Nat
    BY DEF IInv, TypeOK, MainTyped
  <2>3. QED
    BY <2>1, <2>2
<1>2. TasksKeepRecords(journal)
  BY DEF TasksKeepRecords
<1>3. entry + 1 \in Nat \ {0} /\ nextStepId + 1 \in Nat \ {0}
  BY DEF IInv, TypeOK, MainTyped
<1>4. QED
  BY <1>1, <1>2, <1>3 DEF IInv, TypeOK, MainTyped, MainOK

LEMMA CurrentType ==
  ASSUME IInv, entry \in DOMAIN steps
  PROVE  /\ Current \in EntryType /\ Current.tools \in Seq(Tools) /\ Current.tools # << >>
         /\ Current.bind \in Maybe(Names) /\ Current.agent \in Maybe(Agents)
         /\ Current.fallback \in Maybe(Tools)
         /\ Current.kind = "step" => Len(Current.tools) = 1
         /\ Current.kind = "parallel" => Current.bind = Nothing
<1>1. steps \in Seq(EntryType) /\ WellFormed(steps)
  BY MainFacts, WorkflowAssumption
<1>2. Current \in EntryType
  BY <1>1 DEF Current
<1>3. /\ Current.tools \in Seq(Tools) /\ Current.bind \in Maybe(Names)
      /\ Current.agent \in Maybe(Agents) /\ Current.fallback \in Maybe(Tools)
  BY <1>2 DEF EntryType, Maybe
<1>4. /\ Current.kind = "step" => Len(Current.tools) = 1
      /\ Current.kind # "step" => Len(Current.tools) >= 2
      /\ Current.kind = "parallel" => Current.bind = Nothing
  BY <1>1 DEF WellFormed, Current
<1>5. Current.tools # << >>
  <2>1. Len(Current.tools) >= 1
    BY <1>4
  <2>2. Len(<< >>) = 0
    OBVIOUS
  <2>3. QED
    BY <2>1, <2>2
<1>6. QED
  BY <1>2, <1>3, <1>4, <1>5

LEMMA NewIdKeepsRecords ==
  ASSUME IInv, NEW k, OnlyStep(journal, k, nextStepId)
  PROVE  JournalTyped(k) /\ TasksKeepRecords(k)
<1>1. nextStepId \notin DOMAIN task
  BY MainFacts
<1>2. QED
  BY <1>1 DEF OnlyStep, TasksKeepRecords

LEMMA NoThreadBetweenEntries ==
  ASSUME IInv, pc \notin {"step", "fanin", "fallback"}
  PROVE  NoThread
BY DEF IInv, NoOrphanThread, NoThread

LEMMA NoThreadAfterStep ==
  ASSUME IInv, pc \in {"step", "fallback"}, task[nextStepId - 1].pc = "done"
  PROVE  NoThread
BY DEF IInv, MainOK, NoThread

LEMMA NoThreadAfterGroup ==
  ASSUME IInv, pc = "fanin", AllDone
  PROVE  NoThread
BY DEF IInv, NoOrphanThread, AllDone, TasksOf, NoThread

LEMMA StopFacts ==
  ASSUME IInv, Stop
  PROVE  pc' = "finish" /\ entry' = entry /\ overall' \in Statuses /\ bindings' = bindings
BY DEF Stop, Statuses

LEMMA EndEntryFacts ==
  ASSUME IInv, entry \in DOMAIN steps, NEW status, NEW v, EndEntry(status, v),
         status # "failed" => v \in Values \/ Current.bind = Nothing
  PROVE  /\ pc' \in {"next", "finish"} /\ entry' \in {entry, entry + 1}
         /\ overall' \in Statuses
         /\ DOMAIN bindings' \subseteq Names /\ bindings' \in [DOMAIN bindings' -> Values]
<1>1. CASE status = "failed"
  BY <1>1, StopFacts, MainFacts DEF EndEntry
<1>2. CASE status # "failed"
  <2>1. Current.bind \in Maybe(Names) /\ overall \in Statuses /\ DOMAIN bindings \subseteq Names
        /\ bindings \in [DOMAIN bindings -> Values]
    BY MainFacts, CurrentType
  <2>2. DOMAIN bindings' \subseteq Names /\ bindings' \in [DOMAIN bindings' -> Values]
    <3>1. CASE Current.bind = Nothing
      BY <1>2, <2>1, <3>1 DEF EndEntry, Rebind, AsName
    <3>2. CASE Current.bind # Nothing
      <4>1. Current.bind \in Names /\ v \in Values /\ bindings' = Put(bindings, Current.bind, v)
        BY <1>2, <2>1, <3>2 DEF EndEntry, Rebind, AsName, Maybe
      <4>2. DOMAIN bindings' = DOMAIN bindings \cup {Current.bind}
        BY <4>1 DEF Put
      <4>3. QED
        BY <2>1, <4>1, <4>2 DEF Put
    <3>3. QED
      BY <3>1, <3>2
  <2>3. QED
    BY <1>2, <2>1, <2>2 DEF EndEntry
<1>3. QED
  BY <1>1, <1>2

LEMMA StopForRuntimeKeeps ==
  ASSUME IInv, StopForRuntime
  PROVE  IInv'
<1>1. NoThread
  BY NoThreadBetweenEntries DEF StopForRuntime
<1>2. Settles
  BY StopFacts, MainFacts DEF StopForRuntime, Settles, durable
<1>3. QED
  BY <1>1, <1>2, SettlesKeeps

LEMMA StopForCostKeeps ==
  ASSUME IInv, StopForCost
  PROVE  IInv'
<1>1. NoThread
  BY NoThreadBetweenEntries DEF StopForCost
<1>2. Settles
  BY StopFacts, MainFacts DEF StopForCost, Settles, durable
<1>3. QED
  BY <1>1, <1>2, SettlesKeeps

LEMMA ReplayStepKeeps ==
  ASSUME IInv, ReplayStep
  PROVE  IInv'
<1> DEFINE tool == Current.tools[1]
           v == checkpoint[entry].output
           started == OnStepStarted(journal, nextStepId, tool, Nothing, TRUE)
           succeeded == OnToolSucceeded(started, nextStepId, v)
           k == OnStepFinished(succeeded, nextStepId, "success")
<1>1. /\ journal' = k /\ metrics' = CountStep(metrics, tool, "success")
      /\ EndEntry("success", v) /\ entry \in DOMAIN steps /\ pc = "next"
      /\ Current.kind = "step" /\ entry \in DOMAIN checkpoint
      /\ nextStepId' = nextStepId + 1
      /\ UNCHANGED <<steps, task, ballot, agreed, groupOutputs, cost, lastCost, durable>>
  BY DEF ReplayStep, MayEnter, Recorded
<1>2. v \in Values /\ tool \in ToolNames
  <2>1. CheckpointType(checkpoint)
    BY MainFacts
  <2>2. v \in Values
    BY <1>1, <2>1 DEF CheckpointType
  <2>3. Current.tools \in Seq(Tools) /\ Current.tools # << >>
    BY <1>1, CurrentType
  <2>4. QED
    BY <2>2, <2>3, ToolAssumption
<1> HIDE DEF tool, v
<1>3. OnlyStep(journal, started, nextStepId)
  <2>1. JournalTyped(journal) /\ nextStepId \in Nat \ {0} /\ Nothing \in Maybe(Nat)
    BY MainFacts DEF Maybe
  <2>2. TRUE \in BOOLEAN
    OBVIOUS
  <2>3. QED
    BY <1>2, <2>1, <2>2, StartedJournal
<1> HIDE DEF started
<1>4. OnlyStep(journal, succeeded, nextStepId)
  <2>1. JournalTyped(started) /\ nextStepId \in DOMAIN started.steps /\ v \in Maybe(Values)
    BY <1>2, <1>3 DEF OnlyStep, Maybe
  <2>2. OnlyStep(started, succeeded, nextStepId)
    BY <2>1, StepHandlers
  <2>3. QED
    BY <1>3, <2>2, OnlyStepTransitive
<1> HIDE DEF succeeded
<1>5. OnlyStep(journal, k, nextStepId)
  <2>1. /\ JournalTyped(succeeded) /\ nextStepId \in DOMAIN succeeded.steps
        /\ "success" \in Maybe(Statuses)
    BY <1>4 DEF OnlyStep, Maybe, Statuses
  <2>2. OnlyStep(succeeded, k, nextStepId)
    BY <2>1, StepHandlers
  <2>3. QED
    BY <1>4, <2>2, OnlyStepTransitive
<1> HIDE DEF k
<1>6. metrics' \in MetricsType
  <2>1. metrics \in MetricsType /\ "success" \in Statuses
    BY MainFacts DEF Statuses
  <2>2. QED
    BY <1>1, <1>2, <2>1, CountsTyped
<1>7. /\ pc' \in {"next", "finish"} /\ entry' \in {entry, entry + 1} /\ overall' \in Statuses
      /\ DOMAIN bindings' \subseteq Names /\ bindings' \in [DOMAIN bindings' -> Values]
  BY <1>1, <1>2, EndEntryFacts
<1>8. JournalTyped(k) /\ TasksKeepRecords(k)
  BY <1>5, NewIdKeepsRecords
<1>9. NoThread
  BY <1>1, NoThreadBetweenEntries
<1>10. Settles
  BY <1>1, <1>6, <1>7, <1>8, MainFacts DEF Settles, durable
<1>11. QED
  BY <1>9, <1>10, SettlesKeeps

LEMMA RejectCheckpointKeeps ==
  ASSUME IInv, RejectCheckpoint
  PROVE  IInv'
<1>1. NoThread /\ entry \in DOMAIN steps
  BY NoThreadBetweenEntries DEF RejectCheckpoint, MayEnter
<1>2. Settles
  BY <1>1, MainFacts DEF RejectCheckpoint, Settles, main, durable
<1>3. QED
  BY <1>1, <1>2, SettlesKeeps

LEMMA FinishWorkflowKeeps ==
  ASSUME IInv, FinishWorkflow
  PROVE  IInv'
<1>1. NoThread
  BY NoThreadBetweenEntries DEF FinishWorkflow
<1>2. JournalTyped(journal') /\ TasksKeepRecords(journal')
  <2>1. JournalTyped(journal) /\ overall \in Statuses /\ entry \in Nat \ {0}
    BY MainFacts
  <2>2. journal' = OnWorkflowFinished(journal, overall)
    BY DEF FinishWorkflow
  <2>3. JournalTyped(journal') /\ journal'.steps = journal.steps
    BY <2>1, <2>2, GroupHandlers
  <2>4. QED
    BY <2>3 DEF TasksKeepRecords
<1>3. Settles
  BY <1>2, MainFacts DEF FinishWorkflow, Settles, main, durable
<1>4. QED
  BY <1>1, <1>3, SettlesKeeps

(* A thread that has returned has a status, and an output if it succeeded. *)
LEMMA ReturnedFacts ==
  ASSUME IInv, NEW s \in DOMAIN task, task[s].pc = "done"
  PROVE  task[s].status \in Statuses /\ (task[s].status = "success" => task[s].output \in Values)
BY DEF IInv, TasksOK, Fits, ValuesFit

LEMMA EndStepKeeps ==
  ASSUME IInv, EndStep
  PROVE  IInv'
<1> DEFINE done == task[nextStepId - 1]
           recorded == [tool |-> done.tool, output |-> ReadBack[done.output]]
<1>1. /\ pc = "step" /\ done.pc = "done" /\ entry \in DOMAIN steps
      /\ nextStepId - 1 \in DOMAIN task
      /\ UNCHANGED <<steps, nextStepId, task, ballot, agreed, groupOutputs, cost, lastCost,
                     checkpoint, journal, metrics>>
  BY MainFacts DEF EndStep, IInv, MainOK, TasksOf
<1>2. /\ done.tool \in Tools /\ done.status \in Statuses
      /\ (done.status = "success" => done.output \in Values)
  BY <1>1, ReturnedFacts, ThreadFacts DEF TaskType
<1>3. \/ /\ EndEntry(done.status, done.output)
         /\ store' = IF Records(done.status) THEN Put(store, entry, recorded) ELSE store
      \/ /\ Records(done.status) /\ pc' = "raised" /\ bindings' = Rebind(done.output)
         /\ UNCHANGED <<entry, overall, store>>
  BY DEF EndStep
<1>4. Records(done.status) => recorded \in [tool : Tools, output : Values]
  BY <1>2, CheckpointAssumption DEF Records
<1> HIDE DEF done, recorded
<1>5. NoThread
  BY <1>1, NoThreadAfterStep DEF done
<1>6. CheckpointType(store')
  <2>1. CheckpointType(store) /\ entry \in Nat \ {0}
    BY MainFacts
  <2>2. CASE Records(done.status) /\ store' = Put(store, entry, recorded)
    <3>1. DOMAIN store' = DOMAIN store \cup {entry}
      BY <2>2 DEF Put
    <3>2. \A i \in DOMAIN store' : store'[i] = IF i = entry THEN recorded ELSE store[i]
      BY <2>2 DEF Put
    <3>3. QED
      BY <1>4, <2>1, <2>2, <3>1, <3>2 DEF CheckpointType
  <2>3. CASE store' = store
    BY <2>1, <2>3 DEF CheckpointType
  <2>4. QED
    BY <1>3, <2>2, <2>3
<1>7. /\ pc' \in {"next", "finish", "raised"} /\ entry' \in {entry, entry + 1}
      /\ (pc' = "raised" => entry' = entry) /\ overall' \in Statuses
      /\ DOMAIN bindings' \subseteq Names /\ bindings' \in [DOMAIN bindings' -> Values]
  <2>1. CASE EndEntry(done.status, done.output)
    <3>1. done.status # "failed" => done.output \in Values
      BY <1>2 DEF Statuses
    <3>2. QED
      BY <1>1, <2>1, <3>1, EndEntryFacts
  <2>2. CASE Records(done.status) /\ pc' = "raised" /\ bindings' = Rebind(done.output)
             /\ UNCHANGED <<entry, overall, store>>
    <3>1. /\ Current.bind \in Maybe(Names) /\ DOMAIN bindings \subseteq Names
          /\ bindings \in [DOMAIN bindings -> Values] /\ overall \in Statuses
          /\ done.output \in Values
      BY <1>1, <1>2, <2>2, MainFacts, CurrentType DEF Records
    <3>2. CASE Current.bind = Nothing
      BY <2>2, <3>1, <3>2 DEF Rebind, AsName
    <3>3. CASE Current.bind # Nothing
      <4>1. Current.bind \in Names /\ bindings' = Put(bindings, Current.bind, done.output)
        BY <2>2, <3>1, <3>3 DEF Rebind, AsName, Maybe
      <4>2. DOMAIN bindings' = DOMAIN bindings \cup {Current.bind}
        BY <4>1 DEF Put
      <4>3. QED
        BY <2>2, <3>1, <4>1, <4>2 DEF Put
    <3>4. QED
      BY <3>2, <3>3
  <2>3. QED
    BY <1>3, <2>1, <2>2
<1>8. Settles
  BY <1>1, <1>6, <1>7, MainFacts DEF Settles
<1>9. QED
  BY <1>5, <1>8, SettlesKeeps

(* What a group hands on when all of its members have succeeded.           *)
LEMMA GroupResults ==
  ASSUME IInv, pc = "fanin", AllDone
  PROVE  /\ entry \in DOMAIN steps /\ GroupStatus \in Statuses
         /\ GroupStatus = "success" => AssignedOutputs \in Seq(Values) /\ AssignedOutputs # << >>
<1>1. entry \in DOMAIN steps
  BY MainFacts
<1>2. GroupStatus \in Statuses
  BY DEF GroupStatus, Statuses
<1>3. ASSUME GroupStatus = "success"
      PROVE  AssignedOutputs \in Seq(Values) /\ AssignedOutputs # << >>
  <2> DEFINE n == Len(Current.tools)
             id(i) == nextStepId - n + i - 1
  <2>1. Current.tools \in Seq(Tools) /\ Current.tools # << >>
    BY <1>1, CurrentType
  <2>2. n \in Nat /\ n # 0 /\ DOMAIN Current.tools = 1 .. n
    BY <2>1
  <2>3. ASSUME NEW i \in 1 .. n PROVE task[id(i)].output \in Values
    <3>1. id(i) \in TasksOf(entry)
      BY <2>2 DEF IInv, MainOK
    <3>2. id(i) \in DOMAIN task
      BY <3>1 DEF TasksOf
    <3>3. task[id(i)].pc = "done" /\ task[id(i)].status # "failed"
      BY <1>3, <3>1 DEF AllDone, GroupStatus
    <3> HIDE DEF id
    <3>4. QED
      BY <3>2, <3>3, ReturnedFacts DEF Statuses
  <2>4. AssignedOutputs = [i \in 1 .. n |-> task[id(i)].output]
    BY DEF AssignedOutputs
  <2> HIDE DEF id, n
  <2>5. AssignedOutputs \in Seq(Values) /\ Len(AssignedOutputs) = n
    BY <2>2, <2>3, <2>4
  <2>6. QED
    BY <2>2, <2>5
<1>4. QED
  BY <1>1, <1>2, <1>3

LEMMA GroupFinishedKeeps ==
  ASSUME IInv, NEW st \in Statuses
  PROVE  LET k == OnGroupFinished(journal, entry, st)
         IN JournalTyped(k) /\ TasksKeepRecords(k)
<1> DEFINE k == OnGroupFinished(journal, entry, st)
<1>1. JournalTyped(k) /\ k.steps = journal.steps
  BY MainFacts, GroupHandlers
<1> HIDE DEF k
<1>2. JournalTyped(k) /\ TasksKeepRecords(k)
  BY <1>1 DEF TasksKeepRecords
<1>3. QED
  BY <1>2 DEF k

LEMMA EndParallelKeeps ==
  ASSUME IInv, EndParallel
  PROVE  IInv'
<1>1. /\ pc = "fanin" /\ AllDone /\ Current.kind = "parallel"
      /\ groupOutputs' = IF GroupStatus = "success"
                         THEN Put(groupOutputs, entry, AssignedOutputs) ELSE groupOutputs
      /\ journal' = OnGroupFinished(journal, entry, GroupStatus)
      /\ EndEntry(GroupStatus, Nothing)
      /\ UNCHANGED <<steps, nextStepId, task, ballot, agreed, cost, lastCost, durable, metrics>>
  BY DEF EndParallel
<1>2. NoThread
  BY <1>1, NoThreadAfterGroup
<1>3. /\ entry \in DOMAIN steps /\ GroupStatus \in Statuses
      /\ GroupStatus = "success" => AssignedOutputs \in Seq(Values) /\ AssignedOutputs # << >>
  BY <1>1, GroupResults
<1>4. /\ groupOutputs' \in [DOMAIN groupOutputs' -> Seq(Values)]
      /\ \A e \in DOMAIN groupOutputs' : groupOutputs'[e] # << >>
  <2>1. /\ groupOutputs \in [DOMAIN groupOutputs -> Seq(Values)]
        /\ \A e \in DOMAIN groupOutputs : groupOutputs[e] # << >>
    BY MainFacts
  <2>2. CASE GroupStatus = "success"
    <3>1. groupOutputs' = Put(groupOutputs, entry, AssignedOutputs)
      BY <1>1, <2>2
    <3>2. DOMAIN groupOutputs' = DOMAIN groupOutputs \cup {entry}
      BY <3>1 DEF Put
    <3>3. QED
      BY <1>3, <2>1, <2>2, <3>1, <3>2 DEF Put
  <2>3. CASE GroupStatus # "success"
    BY <1>1, <2>1, <2>3
  <2>4. QED
    BY <2>2, <2>3
<1>5. JournalTyped(journal') /\ TasksKeepRecords(journal')
  BY <1>1, <1>3, GroupFinishedKeeps
<1>6. /\ pc' \in {"next", "finish"} /\ entry' \in {entry, entry + 1} /\ overall' \in Statuses
      /\ DOMAIN bindings' \subseteq Names /\ bindings' \in [DOMAIN bindings' -> Values]
  <2>1. Current.bind = Nothing
    BY <1>1, <1>3, CurrentType
  <2>2. QED
    BY <1>1, <1>3, <2>1, EndEntryFacts
<1>7. Settles
  BY <1>1, <1>4, <1>5, <1>6, MainFacts DEF Settles, durable
<1>8. QED
  BY <1>2, <1>7, SettlesKeeps

LEMMA EndVotersFailedKeeps ==
  ASSUME IInv, EndVotersFailed
  PROVE  IInv'
<1>1. NoThread
  BY NoThreadAfterGroup DEF EndVotersFailed
<1>2. JournalTyped(journal') /\ TasksKeepRecords(journal')
  <2>1. "failed" \in Statuses /\ journal' = OnGroupFinished(journal, entry, "failed")
    BY DEF Statuses, EndVotersFailed
  <2>2. QED
    BY <2>1, GroupFinishedKeeps
<1>3. Settles
  BY <1>2, StopFacts, MainFacts DEF EndVotersFailed, Settles, durable
<1>4. QED
  BY <1>1, <1>3, SettlesKeeps

LEMMA EndVotersKeeps ==
  ASSUME IInv, EndVoters
  PROVE  IInv'
<1>1. NoThread
  BY NoThreadAfterGroup DEF EndVoters
<1>2. entry \in DOMAIN steps /\ ballot' \in Seq(Values) /\ ballot' # << >>
  BY GroupResults DEF EndVoters
<1>3. Settles
  BY <1>2, MainFacts DEF EndVoters, Settles, durable
<1>4. QED
  BY <1>1, <1>3, SettlesKeeps

(* Recording the synthetic step and closing the group.                     *)
LEMMA SyntheticKeeps ==
  ASSUME IInv, NEW j, JournalTyped(j), j.steps = journal.steps, NEW output \in Maybe(Values),
         NEW error \in Maybe(Errors), NEW confidence \in Maybe(Nat), NEW st \in Statuses
  PROVE  LET recorded == RecordSynthetic(j, nextStepId, output, error, confidence)
             closed   == OnGroupFinished(recorded, entry, st)
         IN /\ JournalTyped(recorded) /\ TasksKeepRecords(recorded)
            /\ JournalTyped(closed) /\ TasksKeepRecords(closed)
<1> DEFINE recorded == RecordSynthetic(j, nextStepId, output, error, confidence)
           closed == OnGroupFinished(recorded, entry, st)
<1>1. entry \in Nat \ {0} /\ nextStepId \in Nat \ {0} /\ nextStepId \notin DOMAIN task
  BY MainFacts
<1>2. OnlyStep(j, recorded, nextStepId)
  BY <1>1, SyntheticRecorded
<1> HIDE DEF recorded
<1>3. JournalTyped(recorded) /\ TasksKeepRecords(recorded)
  BY <1>1, <1>2 DEF OnlyStep, TasksKeepRecords
<1>4. JournalTyped(closed) /\ closed.steps = recorded.steps
  BY <1>1, <1>3, GroupHandlers
<1> HIDE DEF closed
<1>5. JournalTyped(closed) /\ TasksKeepRecords(closed)
  BY <1>3, <1>4 DEF TasksKeepRecords
<1>6. QED
  BY <1>3, <1>5 DEF recorded, closed

LEMMA VerdictsType ==
  ASSUME IInv, pc = "reduce", NEW verdict \in Verdicts
  PROVE  verdict[1] \in Values /\ verdict[2] \in Maybe(Nat)
<1>1. ballot \in Seq(Values) /\ ballot # << >> /\ Current.strategy \in Strategies
  <2>1. entry \in DOMAIN steps
    BY MainFacts
  <2>2. QED
    BY <2>1, MainFacts, CurrentType DEF IInv, MainOK, EntryType
<1>2. CASE Current.strategy = "majority"
  <2>1. verdict = <<RankedFirst(ballot), Nothing>>
    BY <1>2 DEF Verdicts
  <2>2. RankedFirst(ballot) \in Values
    BY <1>1, RankedFirstLeads DEF Cast
  <2>3. QED
    BY <2>1, <2>2 DEF Maybe
<1>3. CASE Current.strategy = "unanimous"
  <2>1. verdict = <<ballot[1], Nothing>>
    BY <1>3 DEF Verdicts
  <2>2. ballot[1] \in Values
    BY <1>1
  <2>3. QED
    BY <2>1, <2>2 DEF Maybe
<1>4. CASE Current.strategy = "judge"
  <2>1. verdict \in Values \X (Confidences \cup {Nothing})
    BY <1>4 DEF Verdicts
  <2>2. QED
    BY <2>1, WorkflowAssumption DEF Maybe
<1>5. QED
  BY <1>1, <1>2, <1>3, <1>4 DEF Strategies

LEMMA StepCounted ==
  ASSUME NEW m \in MetricsType, NEW st \in Statuses
  PROVE  CountStep(m, Synthetic, st) \in MetricsType /\ CountGroup(m) \in MetricsType
<1>1. Synthetic \in ToolNames
  BY ToolAssumption
<1>2. QED
  BY <1>1, CountsTyped

LEMMA BeginReuseKeeps ==
  ASSUME IInv, BeginReuse
  PROVE  IInv'
<1> DEFINE opened == OnGroupStarted(journal, entry, "consensus")
<1>1. /\ pc = "next" /\ entry \in DOMAIN steps
      /\ UNCHANGED <<steps, task, agreed, groupOutputs, cost, lastCost, durable>>
  BY DEF BeginReuse, MayEnter
<1>2. NoThread
  BY <1>1, NoThreadBetweenEntries
<1>3. JournalTyped(opened) /\ opened.steps = journal.steps
  BY MainFacts, GroupHandlers
<1>4. metrics \in MetricsType /\ CountGroup(metrics) \in MetricsType /\ "failed" \in Statuses
  BY MainFacts, StepCounted DEF Statuses
<1>5. CASE Current.source \in DOMAIN groupOutputs
  <2>1. /\ ballot' = groupOutputs[Current.source] /\ pc' = "reduce" /\ journal' = opened
        /\ metrics' = CountGroup(metrics) /\ UNCHANGED <<entry, overall, bindings, nextStepId>>
    BY <1>5 DEF BeginReuse
  <2>2. ballot' \in Seq(Values) /\ ballot' # << >>
    BY <1>5, <2>1, MainFacts
  <2>3. JournalTyped(journal') /\ TasksKeepRecords(journal')
    BY <1>3, <2>1 DEF TasksKeepRecords
  <2>4. Settles
    BY <1>1, <1>4, <2>1, <2>2, <2>3, MainFacts DEF Settles, durable
  <2>5. QED
    BY <1>2, <2>4, SettlesKeeps
<1>6. CASE Current.source \notin DOMAIN groupOutputs
  <2>1. /\ journal' = OnGroupFinished(
                        RecordSynthetic(opened, nextStepId, Nothing, "raised", Nothing),
                        entry, "failed")
        /\ metrics' = CountStep(CountGroup(metrics), Synthetic, "failed")
        /\ nextStepId' = nextStepId + 1 /\ Stop /\ UNCHANGED ballot
    BY <1>6 DEF BeginReuse, FailedConsensusStep
  <2>2. Nothing \in Maybe(Values) /\ "raised" \in Maybe(Errors) /\ Nothing \in Maybe(Nat)
    BY DEF Maybe, Errors
  <2>3. JournalTyped(journal') /\ TasksKeepRecords(journal')
    <3> HIDE DEF opened
    <3>1. QED
      BY <1>3, <1>4, <2>1, <2>2, SyntheticKeeps
  <2>4. metrics' \in MetricsType
    BY <1>4, <2>1, StepCounted
  <2>5. Settles
    BY <1>1, <2>1, <2>3, <2>4, StopFacts, MainFacts DEF Settles, durable
  <2>6. QED
    BY <1>2, <2>5, SettlesKeeps
<1>7. QED
  BY <1>5, <1>6

LEMMA AgreeKeeps ==
  ASSUME IInv, Agree
  PROVE  IInv'
<1>1. /\ pc = "reduce" /\ metrics' = CountStep(metrics, Synthetic, "success")
      /\ nextStepId' = nextStepId + 1
      /\ UNCHANGED <<steps, task, ballot, groupOutputs, cost, lastCost, durable>>
  BY DEF Agree
<1>2. NoThread /\ entry \in DOMAIN steps
  BY <1>1, NoThreadBetweenEntries, MainFacts
<1>3. PICK verdict \in Verdicts :
        /\ agreed' = verdict[1]
        /\ journal' = OnGroupFinished(
                        RecordSynthetic(journal, nextStepId, verdict[1], Nothing, verdict[2]),
                        entry, "success")
        /\ EndEntry("success", verdict[1])
  BY DEF Agree
<1> DEFINE v == verdict[1]
           confidence == verdict[2]
<1>4. v \in Values /\ confidence \in Maybe(Nat)
  BY <1>1, VerdictsType
<1>5. /\ agreed' = v /\ EndEntry("success", v)
      /\ journal' = OnGroupFinished(RecordSynthetic(journal, nextStepId, v, Nothing, confidence),
                                    entry, "success")
  BY <1>3
<1> HIDE DEF v, confidence
<1>6. v \in Maybe(Values) /\ Nothing \in Maybe(Errors) /\ "success" \in Statuses
  BY <1>4 DEF Maybe, Statuses
<1>7. JournalTyped(journal') /\ TasksKeepRecords(journal')
  BY <1>4, <1>5, <1>6, MainFacts, SyntheticKeeps
<1>8. metrics' \in MetricsType
  BY <1>1, <1>6, MainFacts, StepCounted
<1>9. /\ pc' \in {"next", "finish"} /\ entry' \in {entry, entry + 1} /\ overall' \in Statuses
      /\ DOMAIN bindings' \subseteq Names /\ bindings' \in [DOMAIN bindings' -> Values]
  BY <1>2, <1>4, <1>5, EndEntryFacts
<1>10. Settles
  BY <1>1, <1>5, <1>6, <1>7, <1>8, <1>9, MainFacts DEF Settles, durable
<1>11. QED
  BY <1>2, <1>10, SettlesKeeps

LEMMA StrategyRaisesKeeps ==
  ASSUME IInv, StrategyRaises
  PROVE  IInv'
<1>1. /\ pc = "reduce" /\ metrics' = CountStep(metrics, Synthetic, "failed")
      /\ journal' = OnGroupFinished(
                      RecordSynthetic(journal, nextStepId, Nothing, "raised", Nothing),
                      entry, "failed")
      /\ nextStepId' = nextStepId + 1 /\ Stop
      /\ UNCHANGED <<steps, task, ballot, agreed, groupOutputs, cost, lastCost, durable>>
  BY DEF StrategyRaises
<1>2. NoThread
  BY <1>1, NoThreadBetweenEntries
<1>3. /\ Nothing \in Maybe(Values) /\ "raised" \in Maybe(Errors) /\ Nothing \in Maybe(Nat)
      /\ "failed" \in Statuses
  BY DEF Maybe, Errors, Statuses
<1>4. JournalTyped(journal') /\ TasksKeepRecords(journal')
  BY <1>1, <1>3, MainFacts, SyntheticKeeps
<1>5. metrics' \in MetricsType
  BY <1>1, <1>3, MainFacts, StepCounted
<1>6. Settles
  BY <1>1, <1>4, <1>5, StopFacts, MainFacts DEF Settles, durable
<1>7. QED
  BY <1>2, <1>6, SettlesKeeps

LEMMA EndFallbackKeeps ==
  ASSUME IInv, EndFallback
  PROVE  IInv'
<1>1. /\ pc = "fallback" /\ task[nextStepId - 1].pc = "done"
      /\ journal' = OnGroupFinished(journal, entry, FallbackStatus)
      /\ EndEntry(FallbackStatus, agreed)
      /\ UNCHANGED <<steps, nextStepId, task, ballot, agreed, groupOutputs, cost, lastCost,
                     durable, metrics>>
  BY DEF EndFallback
<1>2. NoThread
  BY <1>1, NoThreadAfterStep
<1>3. nextStepId - 1 \in DOMAIN task /\ agreed \in Values /\ entry \in DOMAIN steps
  BY <1>1, MainFacts DEF IInv, MainOK, TasksOf
<1>4. FallbackStatus \in Statuses
  BY <1>1, <1>3, ReturnedFacts DEF FallbackStatus
<1>5. JournalTyped(journal') /\ TasksKeepRecords(journal')
  BY <1>1, <1>4, GroupFinishedKeeps
<1>6. /\ pc' \in {"next", "finish"} /\ entry' \in {entry, entry + 1} /\ overall' \in Statuses
      /\ DOMAIN bindings' \subseteq Names /\ bindings' \in [DOMAIN bindings' -> Values]
  BY <1>1, <1>3, EndEntryFacts
<1>7. Settles
  BY <1>1, <1>5, <1>6, MainFacts DEF Settles, durable
<1>8. QED
  BY <1>2, <1>7, SettlesKeeps

(* The main thread starts threads for the tools `given`, from id first on. *)
Assigns(first, given, group) ==
  /\ task' = Assign(first, given, group) /\ nextStepId' = first + Len(given)
  /\ UNCHANGED <<steps, entry, overall, ballot, groupOutputs, bindings, cost, lastCost, durable>>
  /\ agreed' \in Maybe(Values)
  /\ JournalTyped(journal') /\ TasksKeepRecords(journal') /\ metrics' \in MetricsType

LEMMA AssignedTasks ==
  ASSUME IInv, entry \in DOMAIN steps, NEW first \in {nextStepId, nextStepId + 1},
         NEW given \in Seq(Tools), NEW group \in Maybe(Nat), Assigns(first, given, group)
  PROVE  /\ TasksTyped' /\ TasksOK'
         /\ \A s \in DOMAIN task : s \in DOMAIN task' /\ task'[s] = task[s]
         /\ \A s \in first .. first + Len(given) - 1 :
              s \in DOMAIN task' /\ task'[s].entry = entry
         /\ \A s \in DOMAIN task' \ DOMAIN task : s \in first .. first + Len(given) - 1
         /\ first \in Nat \ {0} /\ Len(given) \in Nat /\ nextStepId' \in Nat \ {0}
<1> DEFINE new == first .. first + Len(given) - 1
<1>1. /\ first \in Nat \ {0} /\ Len(given) \in Nat /\ nextStepId' \in Nat \ {0}
      /\ nextStepId' = first + Len(given) /\ nextStepId <= first
      /\ nextStepId \in Nat
  BY MainFacts DEF Assigns
<1>2. \A s \in DOMAIN task : s \in Nat \ {0} /\ s < nextStepId
  BY DEF IInv, TypeOK, TasksTyped, TasksOK
<1>3. /\ DOMAIN task' = DOMAIN task \cup new
      /\ \A s \in DOMAIN task' :
           task'[s] = IF s >= first THEN NewTask(given[s - first + 1], Current.agent, entry, group)
                      ELSE task[s]
  BY DEF Assigns, Assign
<1>4. \A s \in DOMAIN task : s \in DOMAIN task' /\ task'[s] = task[s]
  BY <1>1, <1>2, <1>3
<1>5. \A s \in new : /\ task'[s] = NewTask(given[s - first + 1], Current.agent, entry, group)
                     /\ given[s - first + 1] \in Tools /\ s \in Nat \ {0} /\ s < nextStepId'
  <2> TAKE s \in new
  <2>1. s \in Nat \ {0} /\ s >= first /\ s < nextStepId' /\ s - first + 1 \in 1 .. Len(given)
    BY <1>1
  <2>2. given[s - first + 1] \in Tools
    BY <2>1
  <2>3. s \in DOMAIN task'
    BY <1>3
  <2> HIDE DEF new
  <2>4. QED
    BY <1>3, <2>1, <2>2, <2>3
<1>6. Current.agent \in Maybe(Agents) /\ entry \in Nat
  BY CurrentType, MainFacts
<1> HIDE DEF new
<1>7. ASSUME NEW s \in new
      PROVE  /\ task'[s] \in TaskType /\ Fits(s, task'[s], journal')
             /\ task'[s].entry = entry
  <2>1. PICK tool \in Tools : task'[s] = NewTask(tool, Current.agent, entry, group)
    BY <1>5
  <2>2. task'[s] \in TaskType /\ task'[s].entry = entry
    BY <1>6, <2>1 DEF NewTask, TaskType, TaskPC, Maybe
  <2>3. 0 <= Limit(task'[s])
    BY <2>2, ToolAssumption DEF Limit, TaskType
  <2>4. task'[s].pc = "assigned" /\ task'[s].calls = 0 /\ task'[s].attempt = 0
    BY <2>1 DEF NewTask
  <2>5. Fits(s, task'[s], journal')
    BY <2>3, <2>4 DEF Fits, GateFits, AttemptsFit, ValuesFit, Called
  <2>6. QED
    BY <2>2, <2>5
<1>8. TasksTyped'
  <2>1. \A s \in DOMAIN task' : s \in Nat \ {0} /\ task'[s] \in TaskType
    BY <1>2, <1>3, <1>4, <1>5, <1>7, ThreadFacts
  <2>2. task' = [s \in DOMAIN task' |-> task'[s]]
    BY DEF Assigns, Assign
  <2>3. QED
    BY <2>1, <2>2 DEF TasksTyped
<1>9. TasksOK'
  <2> SUFFICES ASSUME NEW s \in DOMAIN task' PROVE s < nextStepId' /\ Fits(s, task'[s], journal')
    BY DEF TasksOK
  <2>1. CASE s \in new
    BY <1>5, <1>7, <2>1
  <2>2. CASE s \in DOMAIN task
    <3>1. /\ s < nextStepId' /\ task'[s] = task[s] /\ Fits(s, task[s], journal)
      BY <1>1, <1>2, <1>4, <2>2, ThreadFacts
    <3>2. task[s].calls \in Nat /\ (task[s].pc = "assigned" => task[s].calls = 0)
      BY <2>2, <3>1, ThreadFacts DEF TaskType, Fits, AttemptsFit
    <3>3. s \in DOMAIN journal.steps =>
            s \in DOMAIN journal'.steps /\ journal'.steps[s] = journal.steps[s]
      BY <2>2 DEF Assigns, TasksKeepRecords
    <3>4. Fits(s, task[s], journal')
      BY <3>1, <3>2, <3>3, FitsFrame
    <3>5. QED
      BY <3>1, <3>4
  <2>3. QED
    BY <1>3, <2>1, <2>2
<1>10. QED
  BY <1>1, <1>3, <1>4, <1>7, <1>8, <1>9 DEF new

LEMMA BeginStepKeeps ==
  ASSUME IInv, BeginStep
  PROVE  IInv'
<1>1. /\ pc = "next" /\ entry \in DOMAIN steps /\ Current.kind = "step"
      /\ task' = Assign(nextStepId, Current.tools, Nothing) /\ nextStepId' = nextStepId + 1
      /\ pc' = "step"
      /\ UNCHANGED <<steps, entry, overall, ballot, agreed, groupOutputs, bindings, cost,
                     lastCost, durable, journal, metrics>>
  BY DEF BeginStep, MayEnter
<1>2. Current.tools \in Seq(Tools) /\ Len(Current.tools) = 1 /\ Nothing \in Maybe(Nat)
  BY <1>1, CurrentType DEF Maybe
<1>3. Assigns(nextStepId, Current.tools, Nothing)
  BY <1>1, <1>2, MainFacts DEF Assigns
<1>4. /\ TasksTyped' /\ TasksOK' /\ nextStepId' \in Nat \ {0} /\ nextStepId \in Nat
      /\ \A s \in DOMAIN task : s \in DOMAIN task' /\ task'[s] = task[s]
      /\ nextStepId \in DOMAIN task' /\ task'[nextStepId].entry = entry
      /\ \A s \in DOMAIN task' \ DOMAIN task : s = nextStepId
  <2> DEFINE given == Current.tools
  <2>1. nextStepId \in Nat /\ nextStepId \in {nextStepId, nextStepId + 1}
    BY MainFacts
  <2>2. nextStepId .. (nextStepId + Len(given) - 1) = {nextStepId}
    BY <1>2, <2>1
  <2>3. given \in Seq(Tools) /\ Assigns(nextStepId, given, Nothing)
    BY <1>2, <1>3
  <2> HIDE DEF given
  <2>4. QED
    BY <1>1, <1>2, <2>1, <2>2, <2>3, AssignedTasks
<1>5. NoThread
  BY <1>1, NoThreadBetweenEntries
<1>6. TypeOK'
  <2>1. MainTyped'
    BY <1>1, <1>4, MainFacts DEF MainTyped
  <2>2. QED
    BY <1>1, <1>4, <2>1 DEF IInv, TypeOK, CheckpointType, durable
<1>7. MainOK' /\ NoOrphanThread'
  <2>1. \A s \in DOMAIN task' : task'[s].pc # "done" => s = nextStepId
    BY <1>4, <1>5 DEF NoThread
  <2>2. nextStepId' - 1 = nextStepId /\ \A e \in DOMAIN groupOutputs : groupOutputs[e] # << >>
    BY <1>1, <1>4, MainFacts
  <2>3. QED
    BY <1>1, <1>4, <2>1, <2>2 DEF MainOK, NoOrphanThread, TasksOf
<1>8. QED
  BY <1>4, <1>6, <1>7 DEF IInv

LEMMA BeginGroupKeeps ==
  ASSUME IInv, BeginGroup
  PROVE  IInv'
<1>1. /\ pc = "next" /\ entry \in DOMAIN steps /\ Current.kind \in {"parallel", "consensus"}
      /\ journal' = OnGroupStarted(journal, entry, Current.kind)
      /\ metrics' = CountGroup(metrics)
      /\ task' = Assign(nextStepId, Current.tools, entry)
      /\ nextStepId' = nextStepId + Len(Current.tools) /\ pc' = "fanin"
      /\ UNCHANGED <<steps, entry, overall, ballot, agreed, groupOutputs, bindings, cost,
                     lastCost, durable>>
  BY DEF BeginGroup, MayEnter
<1> DEFINE n == Len(Current.tools)
<1>2. Current.tools \in Seq(Tools) /\ entry \in Maybe(Nat)
  BY <1>1, CurrentType, MainFacts DEF Maybe
<1>3. Assigns(nextStepId, Current.tools, entry)
  <2>1. JournalTyped(journal') /\ journal'.steps = journal.steps
    BY <1>1, MainFacts, GroupHandlers
  <2>2. metrics' \in MetricsType
    BY <1>1, MainFacts, StepCounted DEF Statuses
  <2>3. QED
    BY <1>1, <2>1, <2>2, MainFacts DEF Assigns, TasksKeepRecords
<1>4. /\ TasksTyped' /\ TasksOK' /\ nextStepId' \in Nat \ {0} /\ nextStepId \in Nat /\ n \in Nat
      /\ \A s \in DOMAIN task : s \in DOMAIN task' /\ task'[s] = task[s]
      /\ \A s \in nextStepId .. nextStepId + n - 1 : s \in DOMAIN task' /\ task'[s].entry = entry
      /\ \A s \in DOMAIN task' \ DOMAIN task : s \in nextStepId .. nextStepId + n - 1
  BY <1>1, <1>2, <1>3, AssignedTasks
<1>5. NoThread
  BY <1>1, NoThreadBetweenEntries
<1>6. TypeOK'
  <2>1. MainTyped'
    BY <1>1, <1>4, MainFacts DEF MainTyped
  <2>2. QED
    BY <1>1, <1>3, <1>4, <2>1 DEF IInv, TypeOK, CheckpointType, durable, Assigns
<1>7. MainOK' /\ NoOrphanThread'
  <2>1. \A s \in DOMAIN task' : task'[s].pc # "done" => task'[s].entry = entry
    BY <1>4, <1>5 DEF NoThread
  <2>2. \A i \in 1 .. n : nextStepId' - n + i - 1 \in TasksOf(entry)'
    <3> TAKE i \in 1 .. n
    <3>1. nextStepId' - n + i - 1 \in nextStepId .. nextStepId + n - 1
      BY <1>1, <1>4
    <3>2. QED
      BY <1>1, <1>4, <3>1 DEF TasksOf
  <2>3. DOMAIN Current.tools = 1 .. n /\ Current' = Current
    BY <1>1, <1>2 DEF Current
  <2>4. \A e \in DOMAIN groupOutputs : groupOutputs[e] # << >>
    BY MainFacts
  <2>5. MainOK'
    BY <1>1, <2>2, <2>3, <2>4 DEF MainOK
  <2>6. NoOrphanThread'
    BY <1>1, <2>1 DEF NoOrphanThread
  <2>7. QED
    BY <2>5, <2>6
<1>8. QED
  BY <1>4, <1>6, <1>7 DEF IInv

LEMMA AgreeThenFallBackKeeps ==
  ASSUME IInv, AgreeThenFallBack
  PROVE  IInv'
<1>1. /\ pc = "reduce" /\ metrics' = CountStep(metrics, Synthetic, "success")
      /\ task' = Assign(nextStepId + 1, <<Current.fallback>>, entry)
      /\ nextStepId' = nextStepId + 1 + 1 /\ pc' = "fallback"
      /\ UNCHANGED <<steps, entry, overall, ballot, groupOutputs, bindings, cost, lastCost,
                     durable>>
  BY DEF AgreeThenFallBack, FallbackId
<1>2. PICK verdict \in Verdicts :
        /\ NeedsFallback(verdict[2]) /\ agreed' = verdict[1]
        /\ journal' = RecordSynthetic(journal, nextStepId, verdict[1], Nothing, verdict[2])
  BY DEF AgreeThenFallBack
<1> DEFINE v == verdict[1]
           confidence == verdict[2]
           given == <<Current.fallback>>
<1>3. v \in Values /\ confidence \in Maybe(Nat)
  BY <1>1, VerdictsType
<1>4. agreed' = v /\ journal' = RecordSynthetic(journal, nextStepId, v, Nothing, confidence)
  BY <1>2
<1>5. entry \in DOMAIN steps /\ given \in Seq(Tools) /\ Len(given) = 1 /\ entry \in Maybe(Nat)
  <2>1. entry \in DOMAIN steps /\ entry \in Nat
    BY <1>1, MainFacts
  <2>2. Current.fallback \in Tools
    BY <1>2, <2>1, CurrentType DEF NeedsFallback, Maybe
  <2>3. QED
    BY <2>1, <2>2 DEF Maybe
<1> HIDE DEF v, confidence
<1>6. JournalTyped(journal') /\ TasksKeepRecords(journal')
  <2>1. v \in Maybe(Values) /\ Nothing \in Maybe(Errors) /\ "success" \in Statuses
    BY <1>3 DEF Maybe, Statuses
  <2>2. QED
    BY <1>3, <1>4, <2>1, MainFacts, SyntheticKeeps
<1>7. Assigns(nextStepId + 1, given, entry)
  <2>1. metrics' \in MetricsType
    BY <1>1, MainFacts, StepCounted DEF Statuses
  <2>2. QED
    BY <1>1, <1>3, <1>4, <1>5, <1>6, <2>1 DEF Assigns, Maybe
<1> HIDE DEF given
<1>8. /\ TasksTyped' /\ TasksOK' /\ nextStepId' \in Nat \ {0} /\ nextStepId \in Nat
      /\ \A s \in DOMAIN task : s \in DOMAIN task' /\ task'[s] = task[s]
      /\ nextStepId + 1 \in DOMAIN task' /\ task'[nextStepId + 1].entry = entry
      /\ \A s \in DOMAIN task' \ DOMAIN task : s = nextStepId + 1
  <2>1. nextStepId \in Nat /\ nextStepId + 1 \in Nat
    BY MainFacts
  <2>2. (nextStepId + 1) .. (nextStepId + 1 + Len(given) - 1) = {nextStepId + 1}
    BY <1>5, <2>1
  <2>3. nextStepId + 1 \in {nextStepId, nextStepId + 1}
    OBVIOUS
  <2>4. QED
    BY <1>5, <1>7, <2>1, <2>2, <2>3, AssignedTasks
<1>9. NoThread
  BY <1>1, NoThreadBetweenEntries
<1>10. TypeOK'
  <2>1. MainTyped'
    BY <1>1, <1>3, <1>4, <1>5, <1>8, MainFacts DEF MainTyped, Maybe
  <2>2. QED
    BY <1>1, <1>6, <1>7, <1>8, <2>1 DEF IInv, TypeOK, CheckpointType, durable, Assigns
<1>11. MainOK' /\ NoOrphanThread'
  <2>1. \A s \in DOMAIN task' : task'[s].pc # "done" => s = nextStepId + 1
    BY <1>8, <1>9 DEF NoThread
  <2>2. /\ nextStepId' - 1 = nextStepId + 1
        /\ \A e \in DOMAIN groupOutputs : groupOutputs[e] # << >>
    BY <1>1, <1>8, MainFacts
  <2>3. QED
    BY <1>1, <1>3, <1>4, <1>8, <2>1, <2>2 DEF MainOK, NoOrphanThread, TasksOf
<1>12. QED
  BY <1>8, <1>10, <1>11 DEF IInv

LEMMA MainThreadKeeps ==
  ASSUME IInv, MainThread
  PROVE  IInv'
<1>1. CASE StopForRuntime \/ StopForCost \/ ReplayStep \/ RejectCheckpoint
  BY <1>1, StopForRuntimeKeeps, StopForCostKeeps, ReplayStepKeeps, RejectCheckpointKeeps
<1>2. CASE BeginStep \/ EndStep \/ BeginGroup \/ EndParallel \/ EndVotersFailed \/ EndVoters
  BY <1>2, BeginStepKeeps, EndStepKeeps, BeginGroupKeeps, EndParallelKeeps,
     EndVotersFailedKeeps, EndVotersKeeps
<1>3. CASE BeginReuse \/ Agree \/ AgreeThenFallBack \/ StrategyRaises \/ EndFallback
  BY <1>3, BeginReuseKeeps, AgreeKeeps, AgreeThenFallBackKeeps, StrategyRaisesKeeps,
     EndFallbackKeeps
<1>4. CASE FinishWorkflow
  BY <1>4, FinishWorkflowKeeps
<1>5. QED
  BY <1>1, <1>2, <1>3, <1>4 DEF MainThread

-----------------------------------------------------------------------------
(* The theorems.                                                           *)

(* A run about to begin, with whatever the store holds.                    *)
Fresh ==
  /\ steps \in Workflows /\ pc = "next" /\ entry = 1 /\ nextStepId = 1 /\ overall = "success"
  /\ task = << >> /\ ballot = << >> /\ agreed = Nothing /\ groupOutputs = << >>
  /\ cost = 0 /\ lastCost = [t \in Tools |-> Nothing] /\ bindings = << >>
  /\ CheckpointType(store) /\ checkpoint = store
  /\ journal = EmptyJournal /\ metrics = EmptyMetrics

LEMMA InitIsFresh == Init => Fresh
<1> SUFFICES ASSUME Init PROVE Fresh
  OBVIOUS
<1>1. CheckpointType(store)
  BY CheckpointAssumption DEF Init, CheckpointType
<1>2. QED
  BY <1>1 DEF Init, Fresh

LEMMA FreshEstablishes == Fresh => IInv
<1> SUFFICES ASSUME Fresh PROVE IInv
  OBVIOUS
<1>1. MainTyped
  BY DEF Fresh, MainTyped, Statuses, Maybe
<1>2. TasksTyped /\ TasksOK /\ MainOK /\ NoOrphanThread
  BY DEF Fresh, TasksTyped, TasksOK, MainOK, NoOrphanThread
<1>3. CheckpointType(checkpoint) /\ CheckpointType(store)
  BY DEF Fresh
<1>4. JournalTyped(journal)
  BY DEF Fresh, EmptyJournal, JournalTyped, Maybe
<1>5. metrics \in MetricsType
  <2>1. NewStats \in StatsType
    BY DEF NewStats, StatsType
  <2>2. QED
    BY <2>1 DEF Fresh, EmptyMetrics, MetricsType
<1>6. cost \in Nat /\ lastCost \in [Tools -> Maybe(Nat)]
  BY DEF Fresh, Maybe
<1>7. QED
  BY <1>1, <1>2, <1>3, <1>4, <1>5, <1>6 DEF IInv, TypeOK

LEMMA InitEstablishes == Init => IInv
BY InitIsFresh, FreshEstablishes

LEMMA StutterKeeps ==
  ASSUME IInv, UNCHANGED vars
  PROVE  IInv'
<1>1. TypeOK'
  BY DEF IInv, TypeOK, MainTyped, TasksTyped, CheckpointType, vars
<1>2. TasksOK' /\ MainOK' /\ NoOrphanThread'
  BY DEF IInv, TasksOK, MainOK, NoOrphanThread, TasksOf, Current, vars
<1>3. QED
  BY <1>1, <1>2 DEF IInv

LEMMA NextPreserves == IInv /\ [Next]_vars => IInv'
<1> SUFFICES ASSUME IInv, [Next]_vars PROVE IInv'
  OBVIOUS
<1>1. CASE MainThread
  BY <1>1, MainThreadKeeps
<1>2. CASE \E s \in DOMAIN task : RunTool(s)
  BY <1>2, RunToolKeeps
<1>3. CASE UNCHANGED vars
  BY <1>3, StutterKeeps
<1>4. QED
  BY <1>1, <1>2, <1>3 DEF Next, Step, Terminating

(* IInv holds throughout every run.                                        *)
THEOREM Inductive == Spec => []IInv
BY InitEstablishes, NextPreserves, PTL DEF Spec

(* scheduler.py:64-173: every variable keeps the type the code gives it,   *)
(* and inside an entry the cursor of the main thread is in range.          *)
THEOREM TypeCorrect == Spec => []TypeOK
<1>1. IInv => TypeOK
  BY DEF IInv
<1>2. QED
  BY <1>1, Inductive, PTL

(* scheduler.py:231-257: no tool is ever called past a missing capability  *)
(* or without the approval the policy asks for, in a step, in a group or   *)
(* as a fallback, whatever the workflow and the answers are.               *)
THEOREM CallsAreGated == Spec => []GatedCallsApproved
<1>1. IInv => GatedCallsApproved
  BY DEF IInv, TasksOK, Fits, GateFits, Cleared, Able, GatedCallsApproved, Missing
<1>2. QED
  BY <1>1, Inductive, PTL

(* scheduler.py:284-304: a non-idempotent tool is called at most once by a *)
(* step, an idempotent one at most 1 + retries times, and the retries the  *)
(* journal shows are the calls after the first.                            *)
THEOREM AttemptsAreAccounted == Spec => []AttemptsAccounted
<1>1. IInv => AttemptsAccounted
  <2> SUFFICES ASSUME IInv, NEW s \in DOMAIN task
               PROVE  /\ task[s].calls <= 1 + Limit(task[s])
                      /\ task[s].pc = "done" /\ task[s].calls > 0
                           => journal.steps[s].retries = task[s].calls - 1
    BY DEF AttemptsAccounted, Limit
  <2>1. /\ task[s].calls \in Nat /\ task[s].attempt \in Nat /\ task[s].tool \in Tools
        /\ task[s].pc \in TaskPC /\ AttemptsFit(s, task[s], journal)
    BY ThreadFacts DEF TaskType, Fits
  <2>2. Limit(task[s]) \in Nat
    BY <2>1, ToolAssumption DEF Limit
  <2>3. task[s].calls <= task[s].attempt + 1 /\ task[s].attempt <= Limit(task[s])
    BY <2>1 DEF AttemptsFit, Called, TaskPC
  <2>4. QED
    BY <2>1, <2>2, <2>3 DEF AttemptsFit
<1>2. QED
  BY <1>1, Inductive, PTL

(* scheduler.py:353-362, 402-411: a thread that has not returned belongs   *)
(* to the entry the main thread is waiting on; none outlives its entry.    *)
THEOREM ThreadsAreJoined == Spec => []NoOrphanThread
<1>1. IInv => NoOrphanThread
  BY DEF IInv
<1>2. QED
  BY <1>1, Inductive, PTL

-----------------------------------------------------------------------------
(* What the journal says of the threads, of the groups and of the run: a   *)
(* second invariant, on top of IInv.                                       *)

(* The steps that the journal j files under group g, and the list of them  *)
(* that each group's own record holds.                                     *)
Members(j, g) == {s \in DOMAIN j.steps : j.steps[s].group = g}

Grouped(j) == \A g \in DOMAIN j.groups : Range(j.groups[g].stepIds) = Members(j, g)

(* Group g is closed in the journal j as its steps ended.                  *)
Summarized(j, g) ==
  /\ \A s \in Members(j, g) : j.steps[s].status \in Statuses
  /\ j.groups[g].status = "success" <=> \A s \in Members(j, g) : j.steps[s].status # "failed"

(* The record of a thread's step appears when the thread starts and has a  *)
(* status when it has returned.                                            *)
RecordFits(s, t, j) ==
  /\ t.pc = "assigned" => s \notin DOMAIN j.steps
  /\ t.pc # "assigned" => s \in DOMAIN j.steps /\ j.steps[s].group = t.group
  /\ t.pc \notin {"assigned", "done"} => j.steps[s].status = Nothing
  /\ t.pc = "done" => j.steps[s].status = t.status

(* No thread and no group belongs to an entry still to come.               *)
Reached(e) == e <= entry /\ (e = entry => pc # "next")

ThreadsBooked ==
  \A s \in DOMAIN task :
    /\ RecordFits(s, task[s], journal)
    /\ Reached(task[s].entry) /\ task[s].group \in {Nothing, task[s].entry}

StepsBooked ==
  \A s \in DOMAIN journal.steps :
    /\ s < nextStepId
    /\ s \notin DOMAIN task => journal.steps[s].status \in Statuses
    /\ journal.steps[s].group \in DOMAIN journal.groups \cup {Nothing}

(* The main thread is inside a group's entry.                              *)
InGroup == {"fanin", "reduce", "fallback"}

GroupsBooked ==
  /\ Grouped(journal)
  /\ \A g \in DOMAIN journal.groups :
       /\ Reached(g)
       /\ journal.groups[g].status = Nothing <=> g = entry /\ pc \in InGroup
       /\ journal.groups[g].status # Nothing => Summarized(journal, g)

(* The steps of the entry under way, which is the last one in the journal. *)
OpenBooked ==
  /\ pc \in InGroup => /\ entry \in DOMAIN journal.groups
                       /\ \A s \in TasksOf(entry) : task[s].group = entry
  /\ pc = "step" => task[nextStepId - 1].group = Nothing
  /\ pc = "fanin" => Members(journal, entry) \subseteq DOMAIN task

(* As long as no step has failed the run is on its way to "success".       *)
Pending(s) ==
  \/ pc \in {"step", "fallback"} /\ s = nextStepId - 1
  \/ pc = "fanin" /\ s \in TasksOf(entry)

AllWell(j) == \A s \in DOMAIN j.steps : j.steps[s].status = "success"

Blamed(j) == (\E s \in DOMAIN j.steps : j.steps[s].status = "failed") \/ MaxRuntime \/ OverBudget

ResultBooked ==
  /\ pc = "next" => entry <= Len(steps) + 1
  /\ journal.status = IF pc = "done" THEN overall ELSE Nothing
  /\ overall = "success" =>
       /\ pc # "finish" /\ (pc = "done" => entry = Len(steps) + 1)
       /\ \A s \in DOMAIN journal.steps :
            journal.steps[s].status = "success" \/ Pending(s) \/ pc = "raised"
  /\ overall = "failed" => pc \in {"finish", "done"} /\ Blamed(journal)

Books == ThreadsBooked /\ StepsBooked /\ GroupsBooked /\ OpenBooked /\ ResultBooked

-----------------------------------------------------------------------------
(* What the handlers of Journal do to the groups.                          *)

(* j becomes k: the record of s is written, its group and the groups stay. *)
Edits(j, k, s) ==
  OnlyStep(j, k, s) /\ k.groups = j.groups /\ k.steps[s].group = j.steps[s].group

LEMMA HandlersEdit ==
  ASSUME NEW j, JournalTyped(j), NEW s \in DOMAIN j.steps
  PROVE  /\ \A v \in Maybe(Values) :
              LET k == OnToolSucceeded(j, s, v)
              IN Edits(j, k, s) /\ k.steps[s].status = j.steps[s].status
         /\ \A e \in Maybe(Errors) :
              LET k == OnToolFailed(j, s, e)
              IN Edits(j, k, s) /\ k.steps[s].status = j.steps[s].status
         /\ \A n \in Nat :
              LET k == OnRetryAttempted(j, s, n)
              IN Edits(j, k, s) /\ k.steps[s].status = j.steps[s].status
         /\ \A u \in Maybe(Nat) :
              LET k == OnUsageReported(j, s, u)
              IN Edits(j, k, s) /\ k.steps[s].status = j.steps[s].status
         /\ \A m \in Maybe(Nat) :
              LET k == OnStrategyMetadataReported(j, s, m)
              IN Edits(j, k, s) /\ k.steps[s].status = j.steps[s].status
         /\ \A b \in BOOLEAN :
              LET k == OnApprovalDecided(j, s, b)
              IN Edits(j, k, s) /\ k.steps[s].status = j.steps[s].status
         /\ \A st \in Statuses :
              LET k == OnStepFinished(j, s, st)
              IN Edits(j, k, s) /\ k.steps[s].status = st
<1>1. j.steps[s] \in StepRecordType
  BY DEF JournalTyped
<1>2. PICK a, b, c, d : j = [steps |-> a, order |-> b, groups |-> c, status |-> d]
  BY JournalShape
<1>3. /\ \A v : OnToolSucceeded(j, s, v).groups = j.groups
      /\ \A v : OnToolFailed(j, s, v).groups = j.groups
      /\ \A v : OnRetryAttempted(j, s, v).groups = j.groups
      /\ \A v : OnUsageReported(j, s, v).groups = j.groups
      /\ \A v : OnStrategyMetadataReported(j, s, v).groups = j.groups
      /\ \A v : OnApprovalDecided(j, s, v).groups = j.groups
      /\ \A v : OnStepFinished(j, s, v).groups = j.groups
  BY <1>2 DEF OnToolSucceeded, OnToolFailed, OnRetryAttempted, OnUsageReported,
              OnStrategyMetadataReported, OnApprovalDecided, OnStepFinished
<1>4. ASSUME NEW v \in Maybe(Values)
      PROVE  LET k == OnToolSucceeded(j, s, v)
             IN Edits(j, k, s) /\ k.steps[s].status = j.steps[s].status
  <2> DEFINE k == OnToolSucceeded(j, s, v)
  <2>1. OnlyStep(j, k, s) /\ k.steps[s] = [j.steps[s] EXCEPT !.output = v]
    BY StepHandlers
  <2>2. k.groups = j.groups
    BY <1>3
  <2> HIDE DEF k
  <2>3. Edits(j, k, s) /\ k.steps[s].status = j.steps[s].status
    BY <1>1, <2>1, <2>2 DEF Edits, StepRecordType
  <2>4. QED
    BY <2>3 DEF k
<1>5. ASSUME NEW e \in Maybe(Errors)
      PROVE  LET k == OnToolFailed(j, s, e)
             IN Edits(j, k, s) /\ k.steps[s].status = j.steps[s].status
  <2> DEFINE k == OnToolFailed(j, s, e)
  <2>1. OnlyStep(j, k, s) /\ k.steps[s] = [j.steps[s] EXCEPT !.error = e]
    BY StepHandlers
  <2>2. k.groups = j.groups
    BY <1>3
  <2> HIDE DEF k
  <2>3. Edits(j, k, s) /\ k.steps[s].status = j.steps[s].status
    BY <1>1, <2>1, <2>2 DEF Edits, StepRecordType
  <2>4. QED
    BY <2>3 DEF k
<1>6. ASSUME NEW n \in Nat
      PROVE  LET k == OnRetryAttempted(j, s, n)
             IN Edits(j, k, s) /\ k.steps[s].status = j.steps[s].status
  <2> DEFINE k == OnRetryAttempted(j, s, n)
  <2>1. OnlyStep(j, k, s) /\ k.steps[s] = [j.steps[s] EXCEPT !.retries = n]
    BY StepHandlers
  <2>2. k.groups = j.groups
    BY <1>3
  <2> HIDE DEF k
  <2>3. Edits(j, k, s) /\ k.steps[s].status = j.steps[s].status
    BY <1>1, <2>1, <2>2 DEF Edits, StepRecordType
  <2>4. QED
    BY <2>3 DEF k
<1>7. ASSUME NEW u \in Maybe(Nat)
      PROVE  LET k == OnUsageReported(j, s, u)
             IN Edits(j, k, s) /\ k.steps[s].status = j.steps[s].status
  <2> DEFINE k == OnUsageReported(j, s, u)
  <2>1. OnlyStep(j, k, s) /\ k.steps[s] = [j.steps[s] EXCEPT !.usage = u]
    BY StepHandlers
  <2>2. k.groups = j.groups
    BY <1>3
  <2> HIDE DEF k
  <2>3. Edits(j, k, s) /\ k.steps[s].status = j.steps[s].status
    BY <1>1, <2>1, <2>2 DEF Edits, StepRecordType
  <2>4. QED
    BY <2>3 DEF k
<1>8. ASSUME NEW m \in Maybe(Nat)
      PROVE  LET k == OnStrategyMetadataReported(j, s, m)
             IN Edits(j, k, s) /\ k.steps[s].status = j.steps[s].status
  <2> DEFINE k == OnStrategyMetadataReported(j, s, m)
  <2>1. OnlyStep(j, k, s) /\ k.steps[s] = [j.steps[s] EXCEPT !.metadata = m]
    BY StepHandlers
  <2>2. k.groups = j.groups
    BY <1>3
  <2> HIDE DEF k
  <2>3. Edits(j, k, s) /\ k.steps[s].status = j.steps[s].status
    BY <1>1, <2>1, <2>2 DEF Edits, StepRecordType
  <2>4. QED
    BY <2>3 DEF k
<1>9. ASSUME NEW x \in BOOLEAN
      PROVE  LET k == OnApprovalDecided(j, s, x)
             IN Edits(j, k, s) /\ k.steps[s].status = j.steps[s].status
  <2> DEFINE k == OnApprovalDecided(j, s, x)
  <2>1. OnlyStep(j, k, s) /\ k.steps[s] = [j.steps[s] EXCEPT !.approved = x]
    BY StepHandlers
  <2>2. k.groups = j.groups
    BY <1>3
  <2> HIDE DEF k
  <2>3. Edits(j, k, s) /\ k.steps[s].status = j.steps[s].status
    BY <1>1, <2>1, <2>2 DEF Edits, StepRecordType
  <2>4. QED
    BY <2>3 DEF k
<1>10. ASSUME NEW st \in Statuses
       PROVE  LET k == OnStepFinished(j, s, st)
              IN Edits(j, k, s) /\ k.steps[s].status = st
  <2> DEFINE k == OnStepFinished(j, s, st)
  <2>1. st \in Maybe(Statuses)
    BY DEF Maybe
  <2>2. OnlyStep(j, k, s) /\ k.steps[s] = [j.steps[s] EXCEPT !.status = st]
    BY <2>1, StepHandlers
  <2>3. k.groups = j.groups
    BY <1>3
  <2> HIDE DEF k
  <2>4. Edits(j, k, s) /\ k.steps[s].status = st
    BY <1>1, <2>2, <2>3 DEF Edits, StepRecordType
  <2>5. QED
    BY <2>4 DEF k
<1>11. QED
  BY <1>4, <1>5, <1>6, <1>7, <1>8, <1>9, <1>10

(* An edit files no step under another group.                              *)
LEMMA EditsKeepGroups ==
  ASSUME NEW j, NEW k, NEW s \in DOMAIN j.steps, Edits(j, k, s), Grouped(j)
  PROVE  Grouped(k) /\ DOMAIN k.steps = DOMAIN j.steps
<1>1. DOMAIN k.steps = DOMAIN j.steps
  BY DEF Edits, OnlyStep
<1>2. \A r \in DOMAIN j.steps : k.steps[r].group = j.steps[r].group
  BY DEF Edits, OnlyStep
<1>3. \A g : Members(k, g) = Members(j, g)
  BY <1>1, <1>2 DEF Members
<1>4. QED
  BY <1>1, <1>3 DEF Edits, Grouped

(* j becomes k: step s is new, in group g or in none, with status st.      *)
Adds(j, k, s, g, st) ==
  /\ OnlyStep(j, k, s) /\ s \notin DOMAIN j.steps
  /\ k.steps[s].group = g /\ k.steps[s].status = st
  /\ DOMAIN k.groups = DOMAIN j.groups
  /\ \A h \in DOMAIN j.groups : k.groups[h].status = j.groups[h].status
  /\ Grouped(k)

LEMMA AppendedRange ==
  ASSUME NEW S, NEW q \in Seq(S), NEW x \in S
  PROVE  Range(Append(q, x)) = Range(q) \cup {x}
<1>1. Len(q) \in Nat /\ DOMAIN q = 1 .. Len(q) /\ DOMAIN Append(q, x) = 1 .. Len(q) + 1
  OBVIOUS
<1>2. /\ \A i \in 1 .. Len(q) : Append(q, x)[i] = q[i]
      /\ Append(q, x)[Len(q) + 1] = x
  OBVIOUS
<1>3. 1 .. Len(q) + 1 = (1 .. Len(q)) \cup {Len(q) + 1}
  BY <1>1
<1> DEFINE p == Append(q, x)
<1> HIDE DEF p
<1>4. Range(p) = Range(q) \cup {x}
  BY <1>1, <1>2, <1>3 DEF Range, p
<1>5. QED
  BY <1>4 DEF p

LEMMA StartedAdds ==
  ASSUME NEW j, JournalTyped(j), Grouped(j), NEW s \in Nat \ {0}, s \notin DOMAIN j.steps,
         NEW tool \in ToolNames, NEW group \in DOMAIN j.groups \cup {Nothing},
         NEW replayed \in BOOLEAN
  PROVE  Adds(j, OnStepStarted(j, s, tool, group, replayed), s, group, Nothing)
<1> DEFINE k == OnStepStarted(j, s, tool, group, replayed)
<1>1. DOMAIN j.groups \subseteq Nat \ {0} /\ j.groups \in [DOMAIN j.groups -> GroupRecordType]
  BY DEF JournalTyped
<1>2. OnlyStep(j, k, s)
  <2>1. group \in Maybe(Nat)
    BY <1>1 DEF Maybe
  <2>2. QED
    BY <2>1, StartedJournal
<1>3. k.steps[s] = NewStep(tool, group, replayed)
  BY DEF OnStepStarted, Put
<1>4. k.groups = IF group = Nothing THEN j.groups
                 ELSE [j.groups EXCEPT ![group].stepIds = Append(@, s)]
  BY DEF OnStepStarted
<1> HIDE DEF k
<1>5. k.steps[s].group = group /\ k.steps[s].status = Nothing
  BY <1>3 DEF NewStep
<1>6. \A g : Members(k, g) = Members(j, g) \cup (IF g = group THEN {s} ELSE {})
  BY <1>2, <1>5 DEF Members, OnlyStep
<1>7. CASE group = Nothing
  <2>1. Nothing \notin DOMAIN j.groups
    BY <1>1, NothingIsNew
  <2>2. k.groups = j.groups /\ \A g \in DOMAIN j.groups : Members(k, g) = Members(j, g)
    BY <1>4, <1>6, <1>7, <2>1
  <2>3. Adds(j, k, s, group, Nothing)
    BY <1>2, <1>5, <1>7, <2>2 DEF Adds, Grouped
  <2>4. QED
    BY <2>3 DEF k
<1>8. CASE group # Nothing
  <2> DEFINE old == j.groups[group]
  <2>1. group \in DOMAIN j.groups /\ old \in GroupRecordType
    BY <1>1, <1>8
  <2>2. old.stepIds \in Seq(Nat)
    BY <2>1 DEF GroupRecordType
  <2>3. /\ DOMAIN k.groups = DOMAIN j.groups
        /\ \A h \in DOMAIN j.groups \ {group} : k.groups[h] = j.groups[h]
        /\ k.groups[group] = [old EXCEPT !.stepIds = Append(@, s)]
    BY <1>4, <1>8, <2>1
  <2>4. /\ k.groups[group].stepIds = Append(old.stepIds, s)
        /\ k.groups[group].status = old.status
    BY <2>1, <2>3 DEF GroupRecordType
  <2>5. Range(k.groups[group].stepIds) = Range(old.stepIds) \cup {s}
    <3>1. PICK ids \in Seq(Nat) : ids = old.stepIds
      BY <2>2
    <3>2. s \in Nat
      OBVIOUS
    <3>3. Range(Append(ids, s)) = Range(ids) \cup {s}
      BY <3>2, AppendedRange
    <3>4. QED
      BY <2>4, <3>1, <3>3
  <2>6. Grouped(k)
    <3> SUFFICES ASSUME NEW g \in DOMAIN j.groups
                 PROVE  Range(k.groups[g].stepIds) = Members(k, g)
      BY <2>3 DEF Grouped
    <3>1. Range(j.groups[g].stepIds) = Members(j, g)
      BY DEF Grouped
    <3>2. CASE g = group
      <4>1. Members(k, g) = Members(j, g) \cup {s}
        BY <1>6, <3>2
      <4>2. QED
        BY <2>5, <3>1, <3>2, <4>1
    <3>3. CASE g # group
      <4>1. Members(k, g) = Members(j, g) /\ k.groups[g] = j.groups[g]
        BY <1>6, <2>3, <3>3
      <4>2. QED
        BY <3>1, <4>1
    <3>4. QED
      BY <3>2, <3>3
  <2>7. \A h \in DOMAIN j.groups : k.groups[h].status = j.groups[h].status
    BY <2>3, <2>4
  <2>8. Adds(j, k, s, group, Nothing)
    BY <1>2, <1>5, <2>3, <2>6, <2>7 DEF Adds
  <2>9. QED
    BY <2>8 DEF k
<1>9. QED
  BY <1>7, <1>8

LEMMA EditedAdds ==
  ASSUME NEW j, NEW k, NEW l, NEW s, NEW g, NEW st, NEW st2,
         Adds(j, k, s, g, st), Edits(k, l, s), l.steps[s].status = st2
  PROVE  Adds(j, l, s, g, st2)
<1>1. OnlyStep(j, k, s) /\ OnlyStep(k, l, s) /\ s \in DOMAIN k.steps /\ Grouped(k)
  BY DEF Adds, Edits, OnlyStep
<1>2. OnlyStep(j, l, s) /\ Grouped(l)
  BY <1>1, OnlyStepTransitive, EditsKeepGroups
<1>3. QED
  BY <1>2 DEF Adds, Edits

(* j becomes k: group g has status st, and no step is touched.             *)
Marks(j, k, g, st) ==
  /\ JournalTyped(k) /\ k.steps = j.steps /\ k.status = j.status
  /\ DOMAIN k.groups = DOMAIN j.groups \cup {g} /\ k.groups[g].status = st
  /\ \A h \in DOMAIN j.groups \ {g} : k.groups[h].status = j.groups[h].status
  /\ Grouped(k)

LEMMA OpenedGroup ==
  ASSUME NEW j, JournalTyped(j), Grouped(j), NEW g \in Nat \ {0}, Members(j, g) = {},
         NEW kind \in {"parallel", "consensus"}
  PROVE  Marks(j, OnGroupStarted(j, g, kind), g, Nothing)
<1> DEFINE k == OnGroupStarted(j, g, kind)
           new == [kind |-> kind, stepIds |-> << >>, status |-> Nothing]
<1>1. PICK a, b, c, d : j = [steps |-> a, order |-> b, groups |-> c, status |-> d]
  BY JournalShape
<1>2. k.steps = j.steps /\ k.status = j.status /\ k.groups = Put(j.groups, g, new)
  BY <1>1 DEF OnGroupStarted
<1>3. JournalTyped(k)
  BY GroupHandlers
<1> HIDE DEF k
<1>4. new.stepIds = << >> /\ new.status = Nothing
  OBVIOUS
<1> HIDE DEF new
<1>5. /\ DOMAIN k.groups = DOMAIN j.groups \cup {g} /\ k.groups[g] = new
      /\ \A h \in DOMAIN j.groups \ {g} : k.groups[h] = j.groups[h]
  BY <1>2 DEF Put
<1>6. Range(<< >>) = {}
  BY DEF Range
<1>7. Grouped(k)
  <2> SUFFICES ASSUME NEW h \in DOMAIN k.groups PROVE Range(k.groups[h].stepIds) = Members(k, h)
    BY DEF Grouped
  <2>1. Members(k, h) = Members(j, h)
    BY <1>2 DEF Members
  <2>2. CASE h = g
    BY <1>4, <1>5, <1>6, <2>1, <2>2
  <2>3. CASE h # g
    BY <1>5, <2>1, <2>3 DEF Grouped
  <2>4. QED
    BY <2>2, <2>3
<1>8. QED
  BY <1>2, <1>3, <1>4, <1>5, <1>7 DEF Marks, k

LEMMA ClosedGroup ==
  ASSUME NEW j, JournalTyped(j), Grouped(j), NEW g \in DOMAIN j.groups, NEW st \in Statuses
  PROVE  Marks(j, OnGroupFinished(j, g, st), g, st)
<1> DEFINE k == OnGroupFinished(j, g, st)
           new == [j.groups[g] EXCEPT !.status = st]
<1>1. PICK a, b, c, d : j = [steps |-> a, order |-> b, groups |-> c, status |-> d]
  BY JournalShape
<1>2. k.steps = j.steps /\ k.status = j.status /\ k.groups = [j.groups EXCEPT ![g] = new]
  BY <1>1 DEF OnGroupFinished
<1>3. g \in Nat \ {0} /\ j.groups[g] \in GroupRecordType
  BY DEF JournalTyped
<1>4. JournalTyped(k)
  BY <1>3, GroupHandlers
<1> HIDE DEF k
<1>5. new.stepIds = j.groups[g].stepIds /\ new.status = st
  BY <1>3 DEF GroupRecordType
<1> HIDE DEF new
<1>6. /\ DOMAIN k.groups = DOMAIN j.groups /\ k.groups[g] = new
      /\ \A h \in DOMAIN j.groups \ {g} : k.groups[h] = j.groups[h]
  BY <1>2
<1>7. Grouped(k)
  <2> SUFFICES ASSUME NEW h \in DOMAIN j.groups PROVE Range(k.groups[h].stepIds) = Members(k, h)
    BY <1>6 DEF Grouped
  <2>1. Members(k, h) = Members(j, h)
    BY <1>2 DEF Members
  <2>2. k.groups[h].stepIds = j.groups[h].stepIds
    BY <1>5, <1>6
  <2>3. QED
    BY <2>1, <2>2 DEF Grouped
<1>8. QED
  BY <1>2, <1>4, <1>5, <1>6, <1>7 DEF Marks, k

(* The one synthetic step of a consensus group is filed under that group.  *)
LEMMA SyntheticAdds ==
  ASSUME NEW j, JournalTyped(j), Grouped(j), NEW s \in Nat \ {0}, s \notin DOMAIN j.steps,
         entry \in DOMAIN j.groups, NEW output \in Maybe(Values), NEW error \in Maybe(Errors),
         NEW confidence \in Maybe(Nat), NEW st,
         st = IF error = Nothing THEN "success" ELSE "failed"
  PROVE  Adds(j, RecordSynthetic(j, s, output, error, confidence), s, entry, st)
<1> DEFINE started == OnStepStarted(j, s, Synthetic, entry, FALSE)
           noted == IF confidence = Nothing THEN started
                    ELSE OnStrategyMetadataReported(started, s, confidence)
           answered == IF error = Nothing THEN OnToolSucceeded(noted, s, output)
                       ELSE OnToolFailed(noted, s, error)
           k == OnStepFinished(answered, s, st)
<1>1. Adds(j, started, s, entry, Nothing)
  <2>1. Synthetic \in ToolNames /\ FALSE \in BOOLEAN
    BY ToolAssumption
  <2>2. QED
    BY <2>1, StartedAdds
<1> HIDE DEF started
<1>2. Adds(j, noted, s, entry, Nothing)
  <2>1. JournalTyped(started) /\ s \in DOMAIN started.steps /\ started.steps[s].status = Nothing
    BY <1>1 DEF Adds, OnlyStep
  <2>2. CASE confidence = Nothing
    BY <1>1, <2>2
  <2>3. CASE confidence # Nothing
    <3>1. Edits(started, noted, s) /\ noted.steps[s].status = Nothing
      BY <2>1, <2>3, HandlersEdit
    <3> HIDE DEF noted
    <3>2. QED
      BY <1>1, <3>1, EditedAdds
  <2>4. QED
    BY <2>2, <2>3
<1> HIDE DEF noted
<1>3. Adds(j, answered, s, entry, Nothing)
  <2>1. JournalTyped(noted) /\ s \in DOMAIN noted.steps /\ noted.steps[s].status = Nothing
    BY <1>2 DEF Adds, OnlyStep
  <2>2. Edits(noted, answered, s) /\ answered.steps[s].status = Nothing
    BY <2>1, HandlersEdit
  <2> HIDE DEF answered
  <2>3. QED
    BY <1>2, <2>2, EditedAdds
<1>4. RecordSynthetic(j, s, output, error, confidence) = k
  BY DEF RecordSynthetic, started, noted
<1> HIDE DEF answered
<1>5. Adds(j, k, s, entry, st)
  <2>1. JournalTyped(answered) /\ s \in DOMAIN answered.steps
    BY <1>3 DEF Adds, OnlyStep
  <2>2. st \in Statuses
    BY DEF Statuses
  <2>3. Edits(answered, k, s) /\ k.steps[s].status = st
    BY <2>1, <2>2, HandlersEdit
  <2> HIDE DEF k
  <2>4. QED
    BY <1>3, <2>3, EditedAdds
<1>6. QED
  BY <1>4, <1>5

-----------------------------------------------------------------------------
(* Steps of the threads keep the books.                                    *)

RecordsStay ==
  \A s \in DOMAIN journal.steps :
    /\ s \in DOMAIN journal'.steps
    /\ journal.steps[s].status # Nothing => journal'.steps[s] = journal.steps[s]

(* A thread that runs is of the entry under way, and its group is open.    *)
LEMMA RunningThread ==
  ASSUME IInv, Books, NEW s \in DOMAIN task, task[s].pc # "done"
  PROVE  /\ task[s].entry = entry /\ pc \in {"step", "fanin", "fallback"} /\ Pending(s)
         /\ overall = "success"
         /\ \/ task[s].group = Nothing
            \/ task[s].group = entry /\ pc \in InGroup /\ entry \in DOMAIN journal.groups
         /\ s \in DOMAIN journal.steps => journal.steps[s].status = Nothing
<1>1. task[s].entry = entry /\ pc \in {"step", "fanin", "fallback"}
  BY DEF IInv, NoOrphanThread
<1>2. s \in TasksOf(entry)
  BY <1>1 DEF TasksOf
<1>3. pc \in {"step", "fallback"} => s = nextStepId - 1
  BY DEF IInv, MainOK
<1>4. overall \in Statuses /\ (overall = "failed" => pc \in {"finish", "done"})
  BY MainFacts DEF Books, ResultBooked
<1>5. s \in DOMAIN journal.steps => journal.steps[s].status = Nothing
  BY DEF Books, ThreadsBooked, RecordFits
<1>6. QED
  BY <1>1, <1>2, <1>3, <1>4, <1>5 DEF Pending, Statuses, Books, ThreadsBooked, OpenBooked, InGroup

(* The locals of thread s become t and its record is written as t says.    *)
Writes(s, t, k) ==
  /\ task' = [task EXCEPT ![s] = t] /\ journal' = k
  /\ SameCall(t, task[s]) /\ task[s].pc # "done" /\ t.pc # "assigned"
  /\ OnlyStep(journal, k, s) /\ k.steps[s].group = t.group
  /\ t.pc # "done" => k.steps[s].status = Nothing
  /\ t.pc = "done" => k.steps[s].status = t.status /\ t.status \in Statuses
  /\ DOMAIN k.groups = DOMAIN journal.groups
  /\ \A g \in DOMAIN journal.groups : k.groups[g].status = journal.groups[g].status
  /\ Grouped(k)
  /\ UNCHANGED <<main, pc>>

LEMMA WritesKeepsBooks ==
  ASSUME IInv, Books, NEW s \in DOMAIN task, NEW t, NEW k, Writes(s, t, k)
  PROVE  Books' /\ RecordsStay
<1>1. /\ steps' = steps /\ pc' = pc /\ entry' = entry /\ nextStepId' = nextStepId
      /\ overall' = overall /\ journal' = k
  BY DEF Writes, main
<1>2. /\ DOMAIN task' = DOMAIN task /\ task'[s] = t
      /\ \A r \in DOMAIN task \ {s} : task'[r] = task[r]
  BY DEF Writes, IInv, TypeOK, TasksTyped
<1>3. /\ \A r \in DOMAIN journal.steps \ {s} : r \in DOMAIN k.steps /\ k.steps[r] = journal.steps[r]
      /\ s \in DOMAIN k.steps /\ DOMAIN k.steps \subseteq DOMAIN journal.steps \cup {s}
      /\ k.status = journal.status
      /\ k.steps[s].group = t.group /\ t.group = task[s].group /\ t.entry = task[s].entry
  BY DEF Writes, OnlyStep, SameCall
<1>4. /\ task[s].entry = entry /\ pc \in {"step", "fanin", "fallback"} /\ Pending(s)
      /\ overall = "success"
      /\ \/ task[s].group = Nothing
         \/ task[s].group = entry /\ pc \in InGroup /\ entry \in DOMAIN journal.groups
      /\ s \in DOMAIN journal.steps => journal.steps[s].status = Nothing
  BY RunningThread DEF Writes
<1>5. \A r \in DOMAIN task : task'[r].entry = task[r].entry /\ task'[r].group = task[r].group
  BY <1>2, <1>3
<1>6. \A e : TasksOf(e)' = TasksOf(e)
  BY <1>2, <1>5 DEF TasksOf
<1>7. \A e : Reached(e)' <=> Reached(e)
  BY <1>1 DEF Reached
<1>8. ThreadsBooked'
  <2> SUFFICES ASSUME NEW r \in DOMAIN task
               PROVE  /\ RecordFits(r, task'[r], k)
                      /\ Reached(task[r].entry) /\ task[r].group \in {Nothing, task[r].entry}
    BY <1>1, <1>2, <1>5, <1>7 DEF ThreadsBooked
  <2>1. /\ RecordFits(r, task[r], journal)
        /\ Reached(task[r].entry) /\ task[r].group \in {Nothing, task[r].entry}
    BY DEF Books, ThreadsBooked
  <2>2. CASE r = s
    BY <1>2, <1>3, <2>1, <2>2 DEF Writes, RecordFits
  <2>3. CASE r # s
    BY <1>2, <1>3, <2>1, <2>3 DEF RecordFits
  <2>4. QED
    BY <2>1, <2>2, <2>3
<1>9. StepsBooked'
  <2> SUFFICES ASSUME NEW r \in DOMAIN k.steps
               PROVE  /\ r < nextStepId
                      /\ r \notin DOMAIN task => k.steps[r].status \in Statuses
                      /\ k.steps[r].group \in DOMAIN k.groups \cup {Nothing}
    BY <1>1, <1>2 DEF StepsBooked
  <2>1. DOMAIN k.groups = DOMAIN journal.groups
    BY DEF Writes
  <2>2. CASE r = s
    BY <1>3, <1>4, <2>1, <2>2 DEF IInv, TasksOK
  <2>3. CASE r # s
    BY <1>3, <2>1, <2>3 DEF Books, StepsBooked
  <2>4. QED
    BY <2>2, <2>3
<1>10. \A g \in DOMAIN journal.groups : g # Nothing
  <2>1. JournalTyped(journal)
    BY MainFacts
  <2>2. QED
    BY <2>1, NothingIsNew DEF JournalTyped
<1>11. \A g \in DOMAIN journal.groups :
         journal.groups[g].status # Nothing =>
           Members(k, g) = Members(journal, g) /\ s \notin Members(k, g)
  <2> TAKE g \in DOMAIN journal.groups
  <2> HAVE journal.groups[g].status # Nothing
  <2>1. ~(g = entry /\ pc \in InGroup) /\ g # Nothing
    BY <1>10 DEF Books, GroupsBooked
  <2>2. k.steps[s].group # g
    BY <1>3, <1>4, <2>1
  <2>3. s \in DOMAIN journal.steps => journal.steps[s].group # g
    <3>1. s \in DOMAIN journal.steps => journal.steps[s].group = task[s].group
      BY DEF Books, ThreadsBooked, RecordFits
    <3>2. QED
      BY <1>3, <2>2, <3>1
  <2>4. QED
    BY <1>3, <2>2, <2>3 DEF Members
<1>12. GroupsBooked'
  <2>1. /\ DOMAIN k.groups = DOMAIN journal.groups /\ Grouped(k)
        /\ \A g \in DOMAIN journal.groups : k.groups[g].status = journal.groups[g].status
    BY DEF Writes
  <2>2. ASSUME NEW g \in DOMAIN journal.groups, journal.groups[g].status # Nothing
        PROVE  Summarized(k, g)
    <3>1. Summarized(journal, g)
      BY <2>2 DEF Books, GroupsBooked
    <3>2. Members(k, g) = Members(journal, g) /\ s \notin Members(k, g)
      BY <1>11, <2>2
    <3>3. \A r \in Members(journal, g) : k.steps[r] = journal.steps[r]
      BY <1>3, <3>2 DEF Members
    <3>4. QED
      BY <2>1, <3>1, <3>2, <3>3 DEF Summarized
  <2>3. QED
    BY <1>1, <1>7, <2>1, <2>2 DEF Books, GroupsBooked
<1>13. OpenBooked'
  <2>1. pc = "fanin" => Members(k, entry) \subseteq DOMAIN task
    BY <1>3 DEF Books, OpenBooked, Members
  <2>2. pc \in InGroup => /\ entry \in DOMAIN k.groups
                          /\ \A r \in TasksOf(entry) : task'[r].group = entry
    BY <1>5 DEF Books, OpenBooked, Writes, TasksOf
  <2>3. pc = "step" => task'[nextStepId - 1].group = Nothing
    <3>1. pc = "step" => nextStepId - 1 \in DOMAIN task
      BY DEF IInv, MainOK, TasksOf
    <3>2. QED
      BY <1>5, <3>1 DEF Books, OpenBooked
  <2>4. QED
    BY <1>1, <1>2, <1>6, <2>1, <2>2, <2>3 DEF OpenBooked
<1>14. ResultBooked'
  <2>1. \A r : Pending(r)' <=> Pending(r)
    BY <1>1, <1>6 DEF Pending
  <2>2. \A r \in DOMAIN k.steps : k.steps[r].status = "success" \/ Pending(r)
    <3> TAKE r \in DOMAIN k.steps
    <3>1. CASE r = s
      BY <1>4, <3>1
    <3>2. CASE r # s
      BY <1>3, <1>4, <3>2 DEF Books, ResultBooked
    <3>3. QED
      BY <3>1, <3>2
  <2>3. pc \notin {"next", "finish", "done"} /\ journal.status = Nothing
    BY <1>4 DEF Books, ResultBooked
  <2>4. QED
    BY <1>1, <1>3, <1>4, <2>1, <2>2, <2>3 DEF ResultBooked
<1>15. RecordsStay
  BY <1>1, <1>3, <1>4 DEF RecordsStay
<1>16. QED
  BY <1>8, <1>9, <1>12, <1>13, <1>14, <1>15 DEF Books

(* A thread that has started and not returned goes on, and its record      *)
(* keeps its status.                                                       *)
GoesOn(s, t) ==
  /\ task' = [task EXCEPT ![s] = t] /\ SameCall(t, task[s])
  /\ task[s].pc \notin {"assigned", "done"} /\ t.pc \notin {"assigned", "done"}
  /\ UNCHANGED <<main, pc>>

LEMMA GoesOnKeepsBooks ==
  ASSUME IInv, Books, NEW s \in DOMAIN task, NEW t, GoesOn(s, t),
         \/ journal' = journal
         \/ Edits(journal, journal', s) /\ journal'.steps[s].status = journal.steps[s].status
  PROVE  Books' /\ RecordsStay
<1>1. /\ s \in DOMAIN journal.steps /\ journal.steps[s].group = task[s].group
      /\ journal.steps[s].status = Nothing /\ JournalTyped(journal)
  BY MainFacts DEF GoesOn, Books, ThreadsBooked, RecordFits
<1>2. Edits(journal, journal', s) /\ journal'.steps[s].status = Nothing
  BY <1>1 DEF Edits, OnlyStep
<1>3. Grouped(journal')
  BY <1>1, <1>2, EditsKeepGroups DEF Books, GroupsBooked
<1> DEFINE k == journal'
<1>4. Edits(journal, k, s) /\ k.steps[s].status = Nothing /\ Grouped(k) /\ journal' = k
  BY <1>2, <1>3
<1> HIDE DEF k
<1>5. Writes(s, t, k)
  BY <1>1, <1>4 DEF GoesOn, Writes, Edits, SameCall
<1>6. QED
  BY <1>5, WritesKeepsBooks

LEMMA StartStepKeepsBooks ==
  ASSUME IInv, Books, NEW s \in DOMAIN task, StartStep(s)
  PROVE  Books' /\ RecordsStay
<1> DEFINE t == [task[s] EXCEPT !.pc = "check"]
           k == OnStepStarted(journal, s, task[s].tool, task[s].group, FALSE)
<1>1. /\ task' = [task EXCEPT ![s] = t] /\ journal' = k /\ task[s].pc = "assigned"
      /\ UNCHANGED <<main, pc>>
  BY DEF StartStep, Moves
<1>2. SameCall(t, task[s]) /\ t.pc = "check"
  BY ThreadFacts DEF TaskType, SameCall
<1> HIDE DEF t
<1>3. Adds(journal, k, s, task[s].group, Nothing)
  <2>1. s \notin DOMAIN journal.steps
    BY <1>1 DEF Books, ThreadsBooked, RecordFits
  <2>2. task[s].group \in DOMAIN journal.groups \cup {Nothing}
    BY <1>1, RunningThread
  <2>3. s \in Nat \ {0} /\ task[s].tool \in ToolNames /\ JournalTyped(journal) /\ FALSE \in BOOLEAN
    BY ThreadFacts, ToolAssumption DEF TaskType
  <2>4. QED
    BY <2>1, <2>2, <2>3, StartedAdds DEF Books, GroupsBooked
<1> HIDE DEF k
<1>4. Writes(s, t, k)
  BY <1>1, <1>2, <1>3 DEF Writes, Adds, SameCall
<1>5. QED
  BY <1>4, WritesKeepsBooks

LEMMA FinishesKeepsBooks ==
  ASSUME IInv, Books, NEW s \in DOMAIN task, NEW from \in {"finishing", "errored"},
         NEW status \in Statuses, Finishes(s, from, status)
  PROVE  Books' /\ RecordsStay
<1> DEFINE t == [task[s] EXCEPT !.pc = "done", !.status = status]
           k == OnStepFinished(journal, s, status)
<1>1. /\ task' = [task EXCEPT ![s] = t] /\ journal' = k
      /\ task[s].pc \notin {"assigned", "done"} /\ UNCHANGED <<main, pc>>
  BY DEF Finishes
<1>2. SameCall(t, task[s]) /\ t.pc = "done" /\ t.status = status
  BY ThreadFacts DEF TaskType, SameCall
<1> HIDE DEF t
<1>3. s \in DOMAIN journal.steps /\ journal.steps[s].group = task[s].group /\ JournalTyped(journal)
  BY <1>1, MainFacts DEF Books, ThreadsBooked, RecordFits
<1>4. Edits(journal, k, s) /\ k.steps[s].status = status
  BY <1>3, HandlersEdit
<1> HIDE DEF k
<1>5. Grouped(k)
  BY <1>3, <1>4, EditsKeepGroups DEF Books, GroupsBooked
<1>6. Writes(s, t, k)
  BY <1>1, <1>2, <1>3, <1>4, <1>5 DEF Writes, Edits, SameCall
<1>7. QED
  BY <1>6, WritesKeepsBooks

(* The steps that write nothing in the journal.                            *)
LEMMA SilentStepsKeepBooks ==
  ASSUME IInv, Books, NEW s \in DOMAIN task,
         \/ DenyCapability(s) \/ RequestApproval(s) \/ SkipApproval(s) \/ ApprovalRaises(s)
         \/ CallTool(s) \/ NoUsage(s) \/ UsageRaises(s) \/ AddCost(s)
         \/ \E v, c : ToolReturns(s, v, c)
  PROVE  Books' /\ RecordsStay
<1>1. /\ journal' = journal /\ UNCHANGED <<main, pc>>
      /\ task[s].pc \in {"check", "asking", "call", "running", "usage", "costing"}
  BY DEF DenyCapability, RequestApproval, SkipApproval, ApprovalRaises, CallTool, NoUsage,
         UsageRaises, AddCost, ToolReturns, Moves
<1>2. task[s] \in TaskType
  BY ThreadFacts
<1>3. \E t : task' = [task EXCEPT ![s] = t] /\ SameCall(t, task[s]) /\ t.pc \notin {"assigned", "done"}
  <2>1. CASE DenyCapability(s) \/ ApprovalRaises(s) \/ UsageRaises(s)
    <3> DEFINE t(e) == [task[s] EXCEPT !.pc = "failing", !.error = e]
    <3>1. PICK e : task' = [task EXCEPT ![s] = t(e)]
      BY <2>1 DEF DenyCapability, ApprovalRaises, UsageRaises, Throws
    <3>2. SameCall(t(e), task[s]) /\ t(e).pc = "failing"
      BY <1>2 DEF TaskType, SameCall
    <3>3. QED
      BY <3>1, <3>2
  <2>2. CASE RequestApproval(s) \/ SkipApproval(s) \/ NoUsage(s) \/ AddCost(s)
    <3> DEFINE t(to) == [task[s] EXCEPT !.pc = to]
    <3>1. PICK to \in {"asking", "call", "finishing"} : task' = [task EXCEPT ![s] = t(to)]
      BY <2>2 DEF RequestApproval, SkipApproval, NoUsage, AddCost, Moves
    <3>2. SameCall(t(to), task[s]) /\ t(to).pc = to
      BY <1>2 DEF TaskType, SameCall
    <3>3. QED
      BY <3>1, <3>2
  <2>3. CASE CallTool(s)
    <3> DEFINE t == [task[s] EXCEPT !.pc = "running", !.calls = @ + 1]
    <3>1. task' = [task EXCEPT ![s] = t]
      BY <2>3 DEF CallTool
    <3>2. SameCall(t, task[s]) /\ t.pc = "running"
      BY <1>2 DEF TaskType, SameCall
    <3>3. QED
      BY <3>1, <3>2
  <2>4. CASE \E v, c : ToolReturns(s, v, c)
    <3> DEFINE t(v) == [task[s] EXCEPT !.pc = "returned", !.output = v]
    <3>1. PICK v : task' = [task EXCEPT ![s] = t(v)]
      BY <2>4 DEF ToolReturns
    <3>2. SameCall(t(v), task[s]) /\ t(v).pc = "returned"
      BY <1>2 DEF TaskType, SameCall
    <3>3. QED
      BY <3>1, <3>2
  <2>5. QED
    BY <2>1, <2>2, <2>3, <2>4
<1>4. PICK t : task' = [task EXCEPT ![s] = t] /\ SameCall(t, task[s]) /\ t.pc \notin {"assigned", "done"}
  BY <1>3
<1>5. GoesOn(s, t)
  BY <1>1, <1>4 DEF GoesOn
<1>6. QED
  BY <1>1, <1>5, GoesOnKeepsBooks

LEMMA DecideApprovalKeepsBooks ==
  ASSUME IInv, Books, NEW s \in DOMAIN task, NEW approved \in BOOLEAN, DecideApproval(s, approved)
  PROVE  Books' /\ RecordsStay
<1> DEFINE t == IF approved THEN [task[s] EXCEPT !.pc = "call"]
                ELSE [task[s] EXCEPT !.pc = "failing", !.error = "ApprovalDenied"]
<1>1. /\ journal' = OnApprovalDecided(journal, s, approved) /\ task[s].pc = "asking"
      /\ UNCHANGED <<main, pc>> /\ task' = [task EXCEPT ![s] = t]
  BY DEF DecideApproval, Moves, Throws
<1>2. SameCall(t, task[s]) /\ t.pc \in {"call", "failing"}
  BY ThreadFacts DEF TaskType, SameCall
<1> HIDE DEF t
<1>3. Edits(journal, journal', s) /\ journal'.steps[s].status = journal.steps[s].status
  <2>1. s \in DOMAIN journal.steps /\ JournalTyped(journal)
    BY <1>1, RecordFacts
  <2>2. QED
    BY <1>1, <2>1, HandlersEdit
<1>4. GoesOn(s, t)
  BY <1>1, <1>2 DEF GoesOn
<1>5. QED
  BY <1>3, <1>4, GoesOnKeepsBooks

LEMMA ToolRaisesKeepsBooks ==
  ASSUME IInv, Books, NEW s \in DOMAIN task, ToolRaises(s)
  PROVE  Books' /\ RecordsStay
<1> DEFINE t == IF MayRetry(s) THEN [task[s] EXCEPT !.pc = "call", !.attempt = @ + 1]
                ELSE [task[s] EXCEPT !.pc = "failing", !.error = "raised"]
<1>1. /\ task[s].pc = "running" /\ UNCHANGED <<main, pc>> /\ task' = [task EXCEPT ![s] = t]
      /\ \/ journal' = journal
         \/ journal' = OnRetryAttempted(journal, s, task[s].attempt + 1)
  BY DEF ToolRaises, Throws
<1>2. SameCall(t, task[s]) /\ t.pc \in {"call", "failing"}
  BY ThreadFacts DEF TaskType, SameCall
<1> HIDE DEF t
<1>3. \/ journal' = journal
      \/ Edits(journal, journal', s) /\ journal'.steps[s].status = journal.steps[s].status
  <2>1. s \in DOMAIN journal.steps /\ JournalTyped(journal)
    BY <1>1, RecordFacts
  <2>2. task[s].attempt + 1 \in Nat
    BY ThreadFacts DEF TaskType
  <2>3. QED
    BY <1>1, <2>1, <2>2, HandlersEdit
<1>4. GoesOn(s, t)
  BY <1>1, <1>2 DEF GoesOn
<1>5. QED
  BY <1>3, <1>4, GoesOnKeepsBooks

LEMMA ReportsKeepBooks ==
  ASSUME IInv, Books, NEW s \in DOMAIN task,
         EmitSucceeded(s) \/ EmitFailed(s) \/ ReportUsage(s)
  PROVE  Books' /\ RecordsStay
<1>1. /\ UNCHANGED <<main, pc>> /\ task[s].pc \in {"returned", "usage", "failing"}
  BY DEF EmitSucceeded, EmitFailed, ReportUsage, Moves
<1>2. s \in DOMAIN journal.steps /\ JournalTyped(journal) /\ task[s] \in TaskType
  BY <1>1, RecordFacts, ThreadFacts
<1>3. Edits(journal, journal', s) /\ journal'.steps[s].status = journal.steps[s].status
  <2>1. CASE EmitSucceeded(s)
    <3>1. journal' = OnToolSucceeded(journal, s, task[s].output) /\ task[s].output \in Maybe(Values)
      BY <1>2, <2>1 DEF EmitSucceeded, TaskType
    <3>2. QED
      BY <1>2, <3>1, HandlersEdit
  <2>2. CASE EmitFailed(s)
    <3>1. journal' = OnToolFailed(journal, s, task[s].error) /\ task[s].error \in Maybe(Errors)
      BY <1>2, <2>2 DEF EmitFailed, TaskType
    <3>2. QED
      BY <1>2, <3>1, HandlersEdit
  <2>3. CASE ReportUsage(s)
    <3> DEFINE u == lastCost[task[s].tool]
    <3>1. journal' = OnUsageReported(journal, s, u)
      BY <2>3 DEF ReportUsage
    <3>2. u \in Maybe(Nat)
      BY <1>2, ThreadFacts DEF TaskType
    <3> HIDE DEF u
    <3>3. QED
      BY <1>2, <3>1, <3>2, HandlersEdit
  <2>4. QED
    BY <2>1, <2>2, <2>3
<1>4. \E t : task' = [task EXCEPT ![s] = t] /\ SameCall(t, task[s]) /\ t.pc \notin {"assigned", "done"}
  <2>1. CASE EmitSucceeded(s) \/ EmitFailed(s)
    <3> DEFINE t(to) == [task[s] EXCEPT !.pc = to]
    <3>1. PICK to \in {"usage", "errored"} : task' = [task EXCEPT ![s] = t(to)]
      BY <2>1 DEF EmitSucceeded, EmitFailed, Moves
    <3>2. SameCall(t(to), task[s]) /\ t(to).pc = to
      BY <1>2 DEF TaskType, SameCall
    <3>3. QED
      BY <3>1, <3>2
  <2>2. CASE ReportUsage(s)
    <3> DEFINE t == [task[s] EXCEPT !.pc = "costing", !.usage = lastCost[task[s].tool]]
    <3>1. task' = [task EXCEPT ![s] = t]
      BY <2>2 DEF ReportUsage
    <3>2. SameCall(t, task[s]) /\ t.pc = "costing"
      BY <1>2 DEF TaskType, SameCall
    <3>3. QED
      BY <3>1, <3>2
  <2>3. QED
    BY <2>1, <2>2
<1>5. PICK t : task' = [task EXCEPT ![s] = t] /\ SameCall(t, task[s]) /\ t.pc \notin {"assigned", "done"}
  BY <1>4
<1>6. GoesOn(s, t)
  BY <1>1, <1>5 DEF GoesOn
<1>7. QED
  BY <1>3, <1>6, GoesOnKeepsBooks

LEMMA RunToolKeepsBooks ==
  ASSUME IInv, Books, NEW s \in DOMAIN task, RunTool(s)
  PROVE  Books' /\ RecordsStay
<1>1. CASE StartStep(s)
  BY <1>1, StartStepKeepsBooks
<1>2. CASE \/ DenyCapability(s) \/ RequestApproval(s) \/ SkipApproval(s) \/ ApprovalRaises(s)
           \/ CallTool(s) \/ NoUsage(s) \/ UsageRaises(s) \/ AddCost(s)
           \/ \E v \in Outcomes[task[s].tool], c \in Costs[task[s].tool] : ToolReturns(s, v, c)
  BY <1>2, SilentStepsKeepBooks
<1>3. CASE \E approved \in BOOLEAN : DecideApproval(s, approved)
  BY <1>3, DecideApprovalKeepsBooks
<1>4. CASE ToolRaises(s)
  BY <1>4, ToolRaisesKeepsBooks
<1>5. CASE EmitSucceeded(s) \/ EmitFailed(s) \/ ReportUsage(s)
  BY <1>5, ReportsKeepBooks
<1>6. CASE FinishSucceeded(s) \/ FinishFailed(s)
  BY <1>6, FinishesKeepsBooks DEF FinishSucceeded, FinishFailed, Statuses
<1>7. QED
  BY <1>1, <1>2, <1>3, <1>4, <1>5, <1>6 DEF RunTool

-----------------------------------------------------------------------------
(* Steps of the main thread keep the books.                                *)

(* Only the group of the entry under way is opened, closed or extended,    *)
(* new steps have ended, and new threads belong to the entry.              *)
NewSteps(k) ==
  /\ \A s \in DOMAIN journal.steps : s \in DOMAIN k.steps /\ k.steps[s] = journal.steps[s]
  /\ \A s \in DOMAIN k.steps \ DOMAIN journal.steps :
       /\ nextStepId <= s /\ s < nextStepId' /\ k.steps[s].status \in Statuses
       /\ k.steps[s].group \in {Nothing, entry} \cap (DOMAIN k.groups \cup {Nothing})

OldGroups(k) ==
  /\ DOMAIN journal.groups \subseteq DOMAIN k.groups
  /\ DOMAIN k.groups \subseteq DOMAIN journal.groups \cup {entry}
  /\ \A g \in DOMAIN journal.groups \ {entry} : k.groups[g].status = journal.groups[g].status
  /\ Grouped(k)

StepsAdded == NewSteps(journal')

GroupAdded ==
  /\ OldGroups(journal')
  /\ entry \in DOMAIN journal'.groups =>
       /\ journal'.groups[entry].status = Nothing <=> pc' \in InGroup
       /\ journal'.groups[entry].status # Nothing => Summarized(journal', entry)

ThreadsAdded ==
  /\ \A s \in DOMAIN task : s \in DOMAIN task' /\ task'[s] = task[s]
  /\ \A s \in DOMAIN task' \ DOMAIN task :
       /\ task'[s].pc = "assigned" /\ task'[s].entry = entry /\ task'[s].group \in {Nothing, entry}
       /\ s \notin DOMAIN journal'.steps /\ entry' = entry

CursorMoved ==
  /\ (entry' = entry /\ pc' # "next") \/ entry' = entry + 1
  /\ pc' \in InGroup => entry' = entry
  /\ nextStepId' \in Nat /\ nextStepId <= nextStepId'

LEMMA MainStepKeepsBooks ==
  ASSUME IInv, Books, StepsAdded, GroupAdded, ThreadsAdded, CursorMoved
  PROVE  ThreadsBooked' /\ StepsBooked' /\ GroupsBooked' /\ RecordsStay
<1>1. /\ entry \in Nat \ {0} /\ nextStepId \in Nat \ {0} /\ JournalTyped(journal)
      /\ DOMAIN task \subseteq Nat /\ \A s \in DOMAIN task : s < nextStepId
  BY MainFacts DEF IInv, TypeOK, TasksTyped, TasksOK
<1>2. /\ DOMAIN journal.groups \subseteq Nat \ {0} /\ DOMAIN journal.steps \subseteq Nat \ {0}
      /\ \A g \in DOMAIN journal.groups : g # Nothing
  BY <1>1, NothingIsNew DEF JournalTyped
<1>3. \A e \in Nat : Reached(e) => e <= entry' /\ (e = entry' => pc' # "next")
  BY <1>1 DEF CursorMoved, Reached
<1>4. entry' = entry => entry <= entry' /\ pc' # "next"
  BY <1>1 DEF CursorMoved
<1>5. ThreadsBooked'
  <2> SUFFICES ASSUME NEW s \in DOMAIN task'
               PROVE  /\ RecordFits(s, task'[s], journal') /\ task'[s].entry <= entry'
                      /\ task'[s].entry = entry' => pc' # "next"
                      /\ task'[s].group \in {Nothing, task'[s].entry}
    BY DEF ThreadsBooked, Reached
  <2>1. CASE s \in DOMAIN task
    <3>1. /\ task'[s] = task[s] /\ RecordFits(s, task[s], journal) /\ Reached(task[s].entry)
          /\ task[s].group \in {Nothing, task[s].entry} /\ task[s].entry \in Nat
          /\ s \in Nat /\ s < nextStepId
      BY <1>1, <2>1, ThreadFacts DEF ThreadsAdded, Books, ThreadsBooked, TaskType
    <3>2. s \notin DOMAIN journal.steps => s \notin DOMAIN journal'.steps
      BY <1>1, <3>1 DEF StepsAdded, NewSteps
    <3>3. s \in DOMAIN journal.steps =>
            s \in DOMAIN journal'.steps /\ journal'.steps[s] = journal.steps[s]
      BY DEF StepsAdded, NewSteps
    <3>4. RecordFits(s, task[s], journal')
      BY <3>1, <3>2, <3>3 DEF RecordFits
    <3>5. QED
      BY <1>3, <3>1, <3>4
  <2>2. CASE s \notin DOMAIN task
    <3>1. /\ task'[s].pc = "assigned" /\ task'[s].entry = entry
          /\ task'[s].group \in {Nothing, entry}
          /\ s \notin DOMAIN journal'.steps /\ entry' = entry
      BY <2>2 DEF ThreadsAdded
    <3>2. QED
      BY <1>4, <3>1 DEF RecordFits
  <2>3. QED
    BY <2>1, <2>2
<1>6. StepsBooked'
  <2> SUFFICES ASSUME NEW s \in DOMAIN journal'.steps
               PROVE  /\ s < nextStepId'
                      /\ s \notin DOMAIN task' => journal'.steps[s].status \in Statuses
                      /\ journal'.steps[s].group \in DOMAIN journal'.groups \cup {Nothing}
    BY DEF StepsBooked
  <2>1. CASE s \in DOMAIN journal.steps
    <3>1. /\ s < nextStepId /\ s \in Nat /\ journal'.steps[s] = journal.steps[s]
          /\ s \notin DOMAIN task => journal.steps[s].status \in Statuses
          /\ journal.steps[s].group \in DOMAIN journal.groups \cup {Nothing}
      BY <1>2, <2>1 DEF Books, StepsBooked, StepsAdded, NewSteps
    <3>2. s < nextStepId'
      BY <1>1, <3>1 DEF CursorMoved
    <3>3. QED
      BY <3>1, <3>2 DEF ThreadsAdded, GroupAdded, OldGroups
  <2>2. CASE s \notin DOMAIN journal.steps
    BY <2>2 DEF StepsAdded, NewSteps
  <2>3. QED
    BY <2>1, <2>2
<1>7. GroupsBooked'
  <2> SUFFICES ASSUME NEW g \in DOMAIN journal'.groups
               PROVE  /\ Reached(g)'
                      /\ journal'.groups[g].status = Nothing <=> g = entry' /\ pc' \in InGroup
                      /\ journal'.groups[g].status # Nothing => Summarized(journal', g)
    BY DEF GroupsBooked, GroupAdded, OldGroups
  <2>1. CASE g = entry
    <3>1. Reached(g)'
      BY <1>1, <2>1 DEF CursorMoved, Reached
    <3>2. journal'.groups[g].status = Nothing <=> g = entry' /\ pc' \in InGroup
      BY <2>1 DEF GroupAdded, OldGroups, CursorMoved
    <3>3. QED
      BY <2>1, <3>1, <3>2 DEF GroupAdded, OldGroups
  <2>2. CASE g # entry
    <3>1. /\ g \in DOMAIN journal.groups /\ journal'.groups[g].status = journal.groups[g].status
          /\ g \in Nat /\ g # Nothing
      BY <1>2, <2>2 DEF GroupAdded, OldGroups
    <3>2. Reached(g) /\ journal.groups[g].status # Nothing /\ Summarized(journal, g)
      BY <2>2, <3>1 DEF Books, GroupsBooked
    <3>3. Members(journal', g) = Members(journal, g)
      BY <2>2, <3>1 DEF StepsAdded, NewSteps, Members
    <3>4. \A s \in Members(journal, g) : journal'.steps[s] = journal.steps[s]
      BY DEF StepsAdded, NewSteps, Members
    <3>5. Summarized(journal', g)
      BY <3>1, <3>2, <3>3, <3>4 DEF Summarized
    <3>6. ~(g = entry' /\ pc' \in InGroup)
      BY <2>2 DEF CursorMoved
    <3>7. Reached(g)'
      BY <1>3, <3>1, <3>2 DEF Reached
    <3>8. QED
      BY <3>1, <3>2, <3>5, <3>6, <3>7
  <2>3. QED
    BY <2>1, <2>2
<1>8. RecordsStay
  BY DEF StepsAdded, NewSteps, RecordsStay
<1>9. QED
  BY <1>5, <1>6, <1>7, <1>8

(* The run is under way: no step has failed and the journal has no status. *)
LEMMA UnderWay ==
  ASSUME IInv, Books, pc \notin {"finish", "done", "raised"}
  PROVE  /\ overall = "success" /\ journal.status = Nothing
         /\ \A s \in DOMAIN journal.steps : journal.steps[s].status = "success" \/ Pending(s)
         /\ pc \in {"next", "reduce"} => AllWell(journal)
<1>1. overall \in Statuses
  BY MainFacts
<1>2. overall = "success"
  BY <1>1 DEF Books, ResultBooked, Statuses
<1>3. \A s \in DOMAIN journal.steps : journal.steps[s].status = "success" \/ Pending(s)
  BY <1>2 DEF Books, ResultBooked
<1>4. journal.status = Nothing
  BY DEF Books, ResultBooked
<1>5. QED
  BY <1>2, <1>3, <1>4 DEF Pending, AllWell

(* The entry under way ends with status st, and the journal says why.      *)
EntryEnds(st, v) ==
  /\ pc \notin {"finish", "done", "raised"} /\ entry \in DOMAIN steps
  /\ UNCHANGED <<steps, task, cost>>
  /\ EndEntry(st, v)
  /\ nextStepId' \in {nextStepId, nextStepId + 1}
  /\ StepsAdded /\ GroupAdded /\ journal'.status = journal.status
  /\ IF st = "failed" THEN Blamed(journal') ELSE AllWell(journal')

LEMMA EntryEndsKeepsBooks ==
  ASSUME IInv, Books, NEW st, NEW v, EntryEnds(st, v)
  PROVE  Books' /\ RecordsStay
<1>1. /\ entry \in Nat \ {0} /\ nextStepId \in Nat \ {0} /\ steps \in Seq(EntryType)
      /\ entry <= Len(steps) /\ Len(steps) \in Nat
  <2>1. steps \in Seq(EntryType) /\ entry \in DOMAIN steps
    BY MainFacts, WorkflowAssumption DEF EntryEnds
  <2>2. QED
    BY <2>1, MainFacts
<1>2. /\ overall = "success" /\ journal.status = Nothing
  BY UnderWay DEF EntryEnds
<1>3. \/ st = "failed" /\ pc' = "finish" /\ entry' = entry /\ overall' = "failed"
      \/ st # "failed" /\ pc' = "next" /\ entry' = entry + 1 /\ overall' = overall
  BY DEF EntryEnds, EndEntry, Stop
<1>4. CursorMoved
  <2>1. nextStepId' \in Nat /\ nextStepId <= nextStepId'
    BY <1>1 DEF EntryEnds
  <2>2. QED
    BY <1>3, <2>1 DEF CursorMoved, InGroup
<1>5. ThreadsAdded
  BY DEF EntryEnds, ThreadsAdded
<1>6. ThreadsBooked' /\ StepsBooked' /\ GroupsBooked' /\ RecordsStay
  BY <1>4, <1>5, MainStepKeepsBooks DEF EntryEnds
<1>7. OpenBooked'
  BY <1>3 DEF OpenBooked, InGroup
<1>8. ResultBooked'
  <2>1. pc' = "next" => entry' <= Len(steps') + 1
    BY <1>1, <1>3 DEF EntryEnds
  <2>2. journal'.status = Nothing
    BY <1>2 DEF EntryEnds
  <2>3. overall' = "success" => AllWell(journal')
    BY <1>3 DEF EntryEnds
  <2>4. overall' = "failed" => pc' = "finish" /\ Blamed(journal)'
    BY <1>2, <1>3 DEF EntryEnds, Blamed, OverBudget
  <2>5. QED
    BY <1>3, <2>1, <2>2, <2>3, <2>4 DEF ResultBooked, AllWell
<1>9. QED
  BY <1>6, <1>7, <1>8 DEF Books

(* Nothing happens in the journal and no step is numbered.                 *)
LEMMA QuietStep ==
  ASSUME IInv, Books, journal' = journal,
         \/ entry \notin DOMAIN journal.groups
         \/ pc' \in InGroup /\ pc \in InGroup
         \/ pc' \notin InGroup /\ pc \notin InGroup
  PROVE  StepsAdded /\ GroupAdded /\ journal'.status = journal.status
<1>1. StepsAdded /\ journal'.status = journal.status
  BY DEF StepsAdded, NewSteps
<1>2. GroupAdded
  BY DEF GroupAdded, OldGroups, Books, GroupsBooked
<1>3. QED
  BY <1>1, <1>2

LEMMA StopsKeepBooks ==
  ASSUME IInv, Books, StopForRuntime \/ StopForCost
  PROVE  Books' /\ RecordsStay
<1>1. /\ pc = "next" /\ entry \in DOMAIN steps /\ Stop /\ journal' = journal
      /\ MaxRuntime \/ OverBudget
      /\ UNCHANGED <<steps, task, cost, nextStepId>>
  BY DEF StopForRuntime, StopForCost
<1>2. pc' = "finish"
  BY <1>1 DEF Stop
<1>3. StepsAdded /\ GroupAdded /\ journal'.status = journal.status
  BY <1>1, <1>2, QuietStep DEF InGroup
<1>4. EntryEnds("failed", Nothing)
  BY <1>1, <1>3 DEF EntryEnds, EndEntry, Blamed
<1>5. QED
  BY <1>4, EntryEndsKeepsBooks

LEMMA RejectCheckpointKeepsBooks ==
  ASSUME IInv, Books, RejectCheckpoint
  PROVE  Books' /\ RecordsStay
<1>1. /\ pc = "next" /\ pc' = "raised" /\ entry \in DOMAIN steps /\ journal' = journal
      /\ UNCHANGED <<steps, entry, nextStepId, overall, task, cost>>
  BY DEF RejectCheckpoint, MayEnter, main
<1>2. StepsAdded /\ GroupAdded /\ journal'.status = journal.status
  BY <1>1, QuietStep DEF InGroup
<1>3. ThreadsAdded /\ CursorMoved
  BY <1>1, MainFacts DEF ThreadsAdded, CursorMoved, InGroup
<1>4. ThreadsBooked' /\ StepsBooked' /\ GroupsBooked' /\ RecordsStay
  BY <1>2, <1>3, MainStepKeepsBooks
<1>5. OpenBooked'
  BY <1>1 DEF OpenBooked, InGroup
<1>6. ResultBooked'
  BY <1>1, UnderWay DEF ResultBooked
<1>7. QED
  BY <1>4, <1>5, <1>6 DEF Books

LEMMA FinishWorkflowKeepsBooks ==
  ASSUME IInv, Books, FinishWorkflow
  PROVE  Books' /\ RecordsStay
<1>1. /\ pc' = "done" /\ journal' = OnWorkflowFinished(journal, overall)
      /\ pc = "finish" \/ (pc = "next" /\ entry \notin DOMAIN steps)
      /\ UNCHANGED <<steps, entry, nextStepId, overall, task, cost>>
  BY DEF FinishWorkflow, main
<1>2. /\ journal'.steps = journal.steps /\ journal'.groups = journal.groups
      /\ journal'.status = overall
  <2>1. PICK a, b, c, d : journal = [steps |-> a, order |-> b, groups |-> c, status |-> d]
    BY MainFacts, JournalShape
  <2>2. QED
    BY <1>1, <2>1 DEF OnWorkflowFinished
<1>3. \A g : Members(journal', g) = Members(journal, g)
  BY <1>2 DEF Members
<1>4. StepsAdded /\ GroupAdded
  <2>1. StepsAdded
    BY <1>2 DEF StepsAdded, NewSteps
  <2>2. Grouped(journal')
    BY <1>2, <1>3 DEF Grouped, Books, GroupsBooked
  <2>3. entry \in DOMAIN journal.groups =>
          journal.groups[entry].status # Nothing /\ Summarized(journal, entry)
    BY <1>1 DEF Books, GroupsBooked, InGroup
  <2>4. Summarized(journal, entry) => Summarized(journal', entry)
    BY <1>2, <1>3 DEF Summarized
  <2>5. QED
    BY <1>1, <1>2, <2>1, <2>2, <2>3, <2>4 DEF GroupAdded, OldGroups, InGroup
<1>5. ThreadsAdded /\ CursorMoved
  BY <1>1, MainFacts DEF ThreadsAdded, CursorMoved, InGroup
<1>6. ThreadsBooked' /\ StepsBooked' /\ GroupsBooked' /\ RecordsStay
  BY <1>4, <1>5, MainStepKeepsBooks
<1>7. OpenBooked'
  BY <1>1 DEF OpenBooked, InGroup
<1>8. ResultBooked'
  <2>1. overall = "success" => entry = Len(steps) + 1 /\ AllWell(journal)
    <3>1. overall = "success" => pc = "next"
      BY <1>1 DEF Books, ResultBooked
    <3>2. steps \in Seq(EntryType) /\ entry \in Nat \ {0}
      BY MainFacts, WorkflowAssumption
    <3>3. overall = "success" => entry <= Len(steps) + 1 /\ entry \notin DOMAIN steps
      BY <1>1, <3>1 DEF Books, ResultBooked
    <3>4. QED
      BY <3>1, <3>2, <3>3, UnderWay
  <2>2. overall = "failed" => Blamed(journal)'
    BY <1>1, <1>2 DEF Books, ResultBooked, Blamed, OverBudget
  <2>3. QED
    BY <1>1, <1>2, <2>1, <2>2 DEF ResultBooked, AllWell
<1>9. QED
  BY <1>6, <1>7, <1>8 DEF Books

(* The next step id and, between entries, the next group id are new.       *)
LEMMA FreshIds ==
  ASSUME IInv, Books
  PROVE  /\ nextStepId \notin DOMAIN journal.steps /\ JournalTyped(journal) /\ Grouped(journal)
         /\ entry # Nothing
         /\ pc = "next" => entry \notin DOMAIN journal.groups /\ Members(journal, entry) = {}
<1>1. JournalTyped(journal) /\ nextStepId \in Nat /\ entry \in Nat \ {0}
  BY MainFacts
<1>2. nextStepId \notin DOMAIN journal.steps
  BY <1>1 DEF Books, StepsBooked
<1>3. entry # Nothing
  BY <1>1, NothingIsNew
<1>4. pc = "next" => entry \notin DOMAIN journal.groups
  BY DEF Books, GroupsBooked, Reached
<1>5. pc = "next" => Members(journal, entry) = {}
  BY <1>3, <1>4 DEF Books, StepsBooked, Members
<1>6. QED
  BY <1>1, <1>2, <1>3, <1>4, <1>5 DEF Books, GroupsBooked

(* Adding one step that has ended.                                         *)
LEMMA AddsOneStep ==
  ASSUME IInv, Books, NEW j, j.steps = journal.steps, OldGroups(j), NEW k, NEW st \in Statuses,
         NEW g \in {Nothing, entry} \cap (DOMAIN j.groups \cup {Nothing}),
         Adds(j, k, nextStepId, g, st), nextStepId' \in Nat, nextStepId < nextStepId'
  PROVE  NewSteps(k) /\ OldGroups(k) /\ JournalTyped(k) /\ k.status = j.status
<1>1. nextStepId \in Nat
  BY MainFacts
<1>2. NewSteps(k)
  BY <1>1 DEF Adds, OnlyStep, NewSteps
<1>3. OldGroups(k)
  BY DEF Adds, OldGroups
<1>4. QED
  BY <1>2, <1>3 DEF Adds, OnlyStep

(* Closing the group of the entry in the journal m, where its steps are.   *)
LEMMA ClosesGroup ==
  ASSUME IInv, Books, NEW m, JournalTyped(m), NewSteps(m), OldGroups(m), entry \in DOMAIN m.groups,
         NEW st \in Statuses, journal' = OnGroupFinished(m, entry, st), pc' \notin InGroup,
         \A s \in Members(m, entry) : m.steps[s].status \in Statuses,
         st = "success" <=> \A s \in Members(m, entry) : m.steps[s].status # "failed"
  PROVE  /\ StepsAdded /\ GroupAdded
         /\ journal'.status = m.status /\ journal'.steps = m.steps
<1> DEFINE k == OnGroupFinished(m, entry, st)
<1>1. Marks(m, k, entry, st)
  BY ClosedGroup DEF OldGroups
<1>2. journal' = k
  OBVIOUS
<1> HIDE DEF k
<1>3. k.steps = m.steps /\ k.status = m.status /\ DOMAIN k.groups = DOMAIN m.groups
  BY <1>1 DEF Marks
<1>4. NewSteps(k) /\ OldGroups(k)
  BY <1>1, <1>3 DEF Marks, NewSteps, OldGroups
<1>5. Members(k, entry) = Members(m, entry)
  BY <1>3 DEF Members
<1>6. Summarized(k, entry) /\ k.groups[entry].status # Nothing
  BY <1>1, <1>3, <1>5, NothingIsNew DEF Summarized, Marks
<1>7. QED
  BY <1>2, <1>3, <1>4, <1>6 DEF StepsAdded, GroupAdded

(* At fan-in the steps of the group are those of its threads.              *)
LEMMA FanInFacts ==
  ASSUME IInv, Books, pc = "fanin", AllDone
  PROVE  /\ Members(journal, entry) = TasksOf(entry) /\ entry \in DOMAIN journal.groups
         /\ \A s \in TasksOf(entry) : /\ journal.steps[s].status = task[s].status
                                      /\ task[s].status \in Statuses
         /\ GroupStatus = "failed" => Blamed(journal)
         /\ GroupStatus = "success" => AllWell(journal)
         /\ GroupStatus = "success" <=>
              \A s \in Members(journal, entry) : journal.steps[s].status # "failed"
<1>1. entry \in DOMAIN journal.groups /\ \A s \in TasksOf(entry) : task[s].group = entry
  BY DEF Books, OpenBooked, InGroup
<1>2. \A s \in TasksOf(entry) :
        /\ s \in DOMAIN task /\ s \in DOMAIN journal.steps /\ journal.steps[s].group = entry
        /\ journal.steps[s].status = task[s].status /\ task[s].status \in Statuses
  BY <1>1, ReturnedFacts DEF AllDone, TasksOf, Books, ThreadsBooked, RecordFits
<1>3. \A s \in Members(journal, entry) : s \in TasksOf(entry)
  <2> TAKE s \in Members(journal, entry)
  <2>1. s \in DOMAIN task /\ s \in DOMAIN journal.steps /\ journal.steps[s].group = entry
    BY DEF Books, OpenBooked, Members
  <2>2. task[s].group = entry /\ entry # Nothing
    BY <2>1, FreshIds DEF Books, ThreadsBooked, RecordFits
  <2>3. QED
    BY <2>1, <2>2 DEF Books, ThreadsBooked, TasksOf
<1>4. Members(journal, entry) = TasksOf(entry)
  BY <1>2, <1>3 DEF Members
<1>5. GroupStatus = "failed" => Blamed(journal)
  BY <1>2 DEF GroupStatus, Blamed
<1>6. GroupStatus = "success" => AllWell(journal)
  <2>1. \A s \in DOMAIN journal.steps : journal.steps[s].status = "success" \/ Pending(s)
    BY UnderWay
  <2>2. \A s : Pending(s) => s \in TasksOf(entry)
    BY DEF Pending
  <2>3. QED
    BY <1>2, <2>1, <2>2 DEF AllWell, GroupStatus, Statuses
<1>7. GroupStatus = "success" <=>
        \A s \in Members(journal, entry) : journal.steps[s].status # "failed"
  BY <1>2, <1>4 DEF GroupStatus
<1>8. QED
  BY <1>1, <1>2, <1>4, <1>5, <1>6, <1>7

LEMMA OldJournal ==
  ASSUME IInv, Books
  PROVE  NewSteps(journal) /\ OldGroups(journal)
BY FreshIds DEF NewSteps, OldGroups

LEMMA ReplayAdds ==
  ASSUME IInv, Books, ReplayStep
  PROVE  Adds(journal, journal', nextStepId, Nothing, "success")
<1> DEFINE tool == Current.tools[1]
           v == checkpoint[entry].output
           started == OnStepStarted(journal, nextStepId, tool, Nothing, TRUE)
           succeeded == OnToolSucceeded(started, nextStepId, v)
           k == OnStepFinished(succeeded, nextStepId, "success")
<1>1. /\ journal' = k /\ entry \in DOMAIN steps /\ entry \in DOMAIN checkpoint
  BY DEF ReplayStep, MayEnter, Recorded
<1>2. v \in Maybe(Values) /\ tool \in ToolNames
  <2>1. CheckpointType(checkpoint)
    BY MainFacts
  <2>2. v \in Values
    BY <1>1, <2>1 DEF CheckpointType
  <2>3. Current.tools \in Seq(Tools) /\ Current.tools # << >>
    BY <1>1, CurrentType
  <2>4. QED
    BY <2>2, <2>3, ToolAssumption DEF Maybe
<1>3. nextStepId \in Nat \ {0} /\ "success" \in Statuses
  BY MainFacts DEF Statuses
<1> HIDE DEF tool, v
<1>4. Adds(journal, started, nextStepId, Nothing, Nothing)
  <2>1. TRUE \in BOOLEAN
    OBVIOUS
  <2>2. QED
    BY <1>2, <1>3, <2>1, FreshIds, StartedAdds
<1> HIDE DEF started
<1>5. Adds(journal, succeeded, nextStepId, Nothing, Nothing)
  <2>1. /\ JournalTyped(started) /\ nextStepId \in DOMAIN started.steps
        /\ started.steps[nextStepId].status = Nothing
    BY <1>4 DEF Adds, OnlyStep
  <2>2. Edits(started, succeeded, nextStepId) /\ succeeded.steps[nextStepId].status = Nothing
    BY <1>2, <2>1, HandlersEdit
  <2> HIDE DEF succeeded
  <2>3. QED
    BY <1>4, <2>2, EditedAdds
<1> HIDE DEF succeeded
<1>6. Adds(journal, k, nextStepId, Nothing, "success")
  <2>1. JournalTyped(succeeded) /\ nextStepId \in DOMAIN succeeded.steps
    BY <1>5 DEF Adds, OnlyStep
  <2>2. Edits(succeeded, k, nextStepId) /\ k.steps[nextStepId].status = "success"
    BY <1>3, <2>1, HandlersEdit
  <2> HIDE DEF k
  <2>3. QED
    BY <1>5, <2>2, EditedAdds
<1> HIDE DEF k
<1>7. QED
  BY <1>1, <1>6

LEMMA ReplayStepKeepsBooks ==
  ASSUME IInv, Books, ReplayStep
  PROVE  Books' /\ RecordsStay
<1> DEFINE v == checkpoint[entry].output
<1>1. /\ EndEntry("success", v) /\ entry \in DOMAIN steps /\ pc = "next"
      /\ nextStepId' = nextStepId + 1 /\ UNCHANGED <<steps, task, cost>>
  BY DEF ReplayStep, MayEnter
<1>2. PICK k : k = journal'
  OBVIOUS
<1>3. nextStepId \in Nat \ {0} /\ "success" \in Statuses
  BY MainFacts DEF Statuses
<1> HIDE DEF v
<1>4. Adds(journal, k, nextStepId, Nothing, "success")
  BY <1>2, ReplayAdds
<1>5. NewSteps(k) /\ OldGroups(k) /\ k.status = journal.status
  <2>1. nextStepId' \in Nat /\ nextStepId < nextStepId'
    BY <1>1, <1>3
  <2>2. QED
    BY <1>3, <1>4, <2>1, AddsOneStep, OldJournal
<1>6. AllWell(k)
  BY <1>1, <1>4, UnderWay DEF AllWell, Adds, OnlyStep
<1>7. pc' = "next"
  BY <1>1 DEF EndEntry
<1>8. GroupAdded
  <2>1. entry \notin DOMAIN k.groups
    BY <1>1, <1>4, FreshIds DEF Adds
  <2>2. QED
    BY <1>1, <1>2, <1>5, <2>1 DEF GroupAdded
<1>9. EntryEnds("success", v)
  BY <1>1, <1>2, <1>5, <1>6, <1>8 DEF EntryEnds, StepsAdded
<1>10. QED
  BY <1>9, EntryEndsKeepsBooks

LEMMA EndStepKeepsBooks ==
  ASSUME IInv, Books, EndStep
  PROVE  Books' /\ RecordsStay
<1> DEFINE s == nextStepId - 1
<1>1. /\ pc = "step" /\ task[s].pc = "done" /\ entry \in DOMAIN steps /\ s \in DOMAIN task
      /\ UNCHANGED <<steps, nextStepId, task, cost, journal>>
  BY MainFacts DEF EndStep, IInv, MainOK, TasksOf
<1>2. /\ s \in DOMAIN journal.steps /\ journal.steps[s].status = task[s].status
      /\ task[s].status \in Statuses
  BY <1>1, ReturnedFacts DEF Books, ThreadsBooked, RecordFits
<1>3. \/ EndEntry(task[s].status, task[s].output)
      \/ pc' = "raised" /\ task[s].status = "success" /\ UNCHANGED <<entry, overall>>
  BY DEF EndStep, Records
<1>4. pc' \in {"next", "finish", "raised"}
  BY <1>3 DEF EndEntry, Stop
<1>5. StepsAdded /\ GroupAdded /\ journal'.status = journal.status
  BY <1>1, <1>4, QuietStep DEF InGroup
<1>6. \A r \in DOMAIN journal.steps : journal.steps[r].status = "success" \/ r = s
  BY <1>1, UnderWay DEF Pending
<1> HIDE DEF s
<1>7. CASE EndEntry(task[s].status, task[s].output)
  <2>1. IF task[s].status = "failed" THEN Blamed(journal) ELSE AllWell(journal)
    BY <1>2, <1>6 DEF Blamed, AllWell, Statuses
  <2>2. EntryEnds(task[s].status, task[s].output)
    BY <1>1, <1>5, <1>7, <2>1 DEF EntryEnds
  <2>3. QED
    BY <2>2, EntryEndsKeepsBooks
<1>8. CASE pc' = "raised" /\ task[s].status = "success" /\ UNCHANGED <<entry, overall>>
  <2>1. ThreadsAdded /\ CursorMoved
    BY <1>1, <1>8, MainFacts DEF ThreadsAdded, CursorMoved, InGroup
  <2>2. ThreadsBooked' /\ StepsBooked' /\ GroupsBooked' /\ RecordsStay
    BY <1>5, <2>1, MainStepKeepsBooks
  <2>3. OpenBooked'
    BY <1>8 DEF OpenBooked, InGroup
  <2>4. ResultBooked'
    BY <1>1, <1>8, UnderWay DEF ResultBooked
  <2>5. QED
    BY <2>2, <2>3, <2>4 DEF Books
<1>9. QED
  BY <1>3, <1>7, <1>8

LEMMA EndParallelKeepsBooks ==
  ASSUME IInv, Books, EndParallel
  PROVE  Books' /\ RecordsStay
<1>1. /\ pc = "fanin" /\ AllDone /\ entry \in DOMAIN steps
      /\ journal' = OnGroupFinished(journal, entry, GroupStatus)
      /\ EndEntry(GroupStatus, Nothing) /\ UNCHANGED <<steps, nextStepId, task, cost>>
  BY MainFacts DEF EndParallel
<1>2. GroupStatus \in Statuses /\ pc' \notin InGroup
  BY <1>1 DEF GroupStatus, Statuses, EndEntry, Stop, InGroup
<1>3. /\ StepsAdded /\ GroupAdded
      /\ journal'.status = journal.status /\ journal'.steps = journal.steps
  BY <1>1, <1>2, OldJournal, FreshIds, FanInFacts, ClosesGroup
<1>4. IF GroupStatus = "failed" THEN Blamed(journal') ELSE AllWell(journal')
  BY <1>1, <1>2, <1>3, FanInFacts DEF Statuses, Blamed, AllWell
<1>5. EntryEnds(GroupStatus, Nothing)
  BY <1>1, <1>3, <1>4 DEF EntryEnds
<1>6. QED
  BY <1>5, EntryEndsKeepsBooks

LEMMA EndVotersFailedKeepsBooks ==
  ASSUME IInv, Books, EndVotersFailed
  PROVE  Books' /\ RecordsStay
<1>1. /\ pc = "fanin" /\ AllDone /\ entry \in DOMAIN steps /\ GroupStatus = "failed"
      /\ journal' = OnGroupFinished(journal, entry, GroupStatus)
      /\ Stop /\ UNCHANGED <<steps, nextStepId, task, cost>>
  BY MainFacts DEF EndVotersFailed
<1>2. GroupStatus \in Statuses /\ pc' \notin InGroup
  BY <1>1 DEF Statuses, Stop, InGroup
<1>3. /\ StepsAdded /\ GroupAdded
      /\ journal'.status = journal.status /\ journal'.steps = journal.steps
  BY <1>1, <1>2, OldJournal, FreshIds, FanInFacts, ClosesGroup
<1>4. Blamed(journal')
  BY <1>1, <1>3, FanInFacts DEF Blamed
<1>5. EntryEnds("failed", Nothing)
  BY <1>1, <1>3, <1>4 DEF EntryEnds, EndEntry
<1>6. QED
  BY <1>5, EntryEndsKeepsBooks

LEMMA EndVotersKeepsBooks ==
  ASSUME IInv, Books, EndVoters
  PROVE  Books' /\ RecordsStay
<1>1. /\ pc = "fanin" /\ AllDone /\ GroupStatus = "success" /\ pc' = "reduce"
      /\ UNCHANGED <<steps, entry, nextStepId, overall, task, cost, journal>>
  BY DEF EndVoters
<1>2. StepsAdded /\ GroupAdded /\ journal'.status = journal.status
  BY <1>1, QuietStep DEF InGroup
<1>3. ThreadsAdded /\ CursorMoved
  BY <1>1, MainFacts DEF ThreadsAdded, CursorMoved
<1>4. ThreadsBooked' /\ StepsBooked' /\ GroupsBooked' /\ RecordsStay
  BY <1>2, <1>3, MainStepKeepsBooks
<1>5. OpenBooked'
  BY <1>1 DEF OpenBooked, Books, InGroup, TasksOf
<1>6. ResultBooked'
  BY <1>1, FanInFacts, UnderWay DEF ResultBooked, AllWell
<1>7. QED
  BY <1>4, <1>5, <1>6 DEF Books

(* The synthetic step decides how the group ends: all else has succeeded.  *)
LEMMA SyntheticDecides ==
  ASSUME IInv, Books, AllWell(journal), NEW j, JournalTyped(j), j.steps = journal.steps,
         OldGroups(j), entry \in DOMAIN j.groups, NEW output \in Maybe(Values),
         NEW error \in Maybe(Errors), NEW confidence \in Maybe(Nat), NEW st \in Statuses,
         st = IF error = Nothing THEN "success" ELSE "failed",
         nextStepId' \in Nat, nextStepId < nextStepId', NEW k,
         k = RecordSynthetic(j, nextStepId, output, error, confidence)
  PROVE  /\ NewSteps(k) /\ OldGroups(k) /\ JournalTyped(k) /\ k.status = j.status
         /\ DOMAIN k.groups = DOMAIN j.groups /\ k.groups[entry].status = j.groups[entry].status
         /\ DOMAIN k.steps = DOMAIN journal.steps \cup {nextStepId}
         /\ IF st = "failed" THEN Blamed(k) ELSE AllWell(k)
         /\ \A s \in Members(k, entry) : k.steps[s].status \in Statuses
         /\ st = "success" <=> \A s \in Members(k, entry) : k.steps[s].status # "failed"
<1>1. nextStepId \in Nat \ {0} /\ nextStepId \notin DOMAIN journal.steps /\ entry # Nothing
  BY MainFacts, FreshIds
<1>2. Adds(j, k, nextStepId, entry, st)
  BY <1>1, SyntheticAdds DEF OldGroups
<1>3. NewSteps(k) /\ OldGroups(k) /\ JournalTyped(k) /\ k.status = j.status
  BY <1>2, AddsOneStep
<1>4. /\ DOMAIN k.steps = DOMAIN journal.steps \cup {nextStepId}
      /\ k.steps[nextStepId].status = st /\ nextStepId \in Members(k, entry)
      /\ \A s \in DOMAIN journal.steps : k.steps[s].status = "success"
  BY <1>1, <1>2 DEF Adds, OnlyStep, AllWell, Members
<1>5. IF st = "failed" THEN Blamed(k) ELSE AllWell(k)
  BY <1>4 DEF Blamed, AllWell, Statuses
<1>6. /\ \A s \in Members(k, entry) : k.steps[s].status \in Statuses
      /\ st = "success" <=> \A s \in Members(k, entry) : k.steps[s].status # "failed"
  BY <1>4 DEF Members, Statuses
<1>7. QED
  BY <1>2, <1>3, <1>4, <1>5, <1>6 DEF Adds

LEMMA SyntheticEnds ==
  ASSUME IInv, Books, pc \in {"next", "reduce"}, entry \in DOMAIN steps,
         NEW j, JournalTyped(j), j.steps = journal.steps, j.status = journal.status,
         OldGroups(j), entry \in DOMAIN j.groups, NEW output \in Maybe(Values),
         NEW error \in Maybe(Errors), NEW confidence \in Maybe(Nat), NEW st \in Statuses,
         st = IF error = Nothing THEN "success" ELSE "failed", NEW v, EndEntry(st, v),
         nextStepId' = nextStepId + 1, UNCHANGED <<steps, task, cost>>,
         journal' = OnGroupFinished(RecordSynthetic(j, nextStepId, output, error, confidence),
                                    entry, st)
  PROVE  Books' /\ RecordsStay
<1> DEFINE k == RecordSynthetic(j, nextStepId, output, error, confidence)
<1>1. AllWell(journal)
  BY UnderWay
<1>2. nextStepId' \in Nat /\ nextStepId < nextStepId'
  BY MainFacts
<1>3. /\ NewSteps(k) /\ OldGroups(k) /\ JournalTyped(k) /\ k.status = j.status
      /\ DOMAIN k.groups = DOMAIN j.groups
      /\ IF st = "failed" THEN Blamed(k) ELSE AllWell(k)
      /\ \A s \in Members(k, entry) : k.steps[s].status \in Statuses
      /\ st = "success" <=> \A s \in Members(k, entry) : k.steps[s].status # "failed"
  <2> HIDE DEF k
  <2>1. k = RecordSynthetic(j, nextStepId, output, error, confidence)
    BY DEF k
  <2>2. QED
    BY <1>1, <1>2, <2>1, SyntheticDecides
<1>4. journal' = OnGroupFinished(k, entry, st)
  OBVIOUS
<1> HIDE DEF k
<1>5. pc' \notin InGroup
  BY DEF EndEntry, Stop, InGroup
<1>6. StepsAdded /\ GroupAdded /\ journal'.status = k.status /\ journal'.steps = k.steps
  BY <1>3, <1>4, <1>5, ClosesGroup
<1>7. IF st = "failed" THEN Blamed(journal') ELSE AllWell(journal')
  BY <1>3, <1>6 DEF Blamed, AllWell
<1>8. EntryEnds(st, v)
  BY <1>3, <1>6, <1>7 DEF EntryEnds
<1>9. QED
  BY <1>8, EntryEndsKeepsBooks

LEMMA AgreeKeepsBooks ==
  ASSUME IInv, Books, Agree
  PROVE  Books' /\ RecordsStay
<1>1. /\ pc = "reduce" /\ nextStepId' = nextStepId + 1 /\ UNCHANGED <<steps, task, cost>>
      /\ entry \in DOMAIN steps
  BY MainFacts DEF Agree
<1>2. PICK verdict \in Verdicts :
        /\ journal' = OnGroupFinished(
                        RecordSynthetic(journal, nextStepId, verdict[1], Nothing, verdict[2]),
                        entry, "success")
        /\ EndEntry("success", verdict[1])
  BY DEF Agree
<1>3. verdict[1] \in Maybe(Values) /\ verdict[2] \in Maybe(Nat)
  BY <1>1, VerdictsType DEF Maybe
<1>4. PICK v \in Maybe(Values), confidence \in Maybe(Nat) :
        v = verdict[1] /\ confidence = verdict[2]
  BY <1>3
<1>5. Nothing \in Maybe(Errors) /\ "success" \in Statuses /\ entry \in DOMAIN journal.groups
  BY <1>1 DEF Maybe, Statuses, Books, OpenBooked, InGroup
<1>6. QED
  BY <1>1, <1>2, <1>4, <1>5, OldJournal, FreshIds, SyntheticEnds

LEMMA StrategyRaisesKeepsBooks ==
  ASSUME IInv, Books, StrategyRaises
  PROVE  Books' /\ RecordsStay
<1>1. /\ pc = "reduce" /\ nextStepId' = nextStepId + 1 /\ UNCHANGED <<steps, task, cost>>
      /\ EndEntry("failed", Nothing) /\ entry \in DOMAIN steps
      /\ journal' = OnGroupFinished(
                      RecordSynthetic(journal, nextStepId, Nothing, "raised", Nothing),
                      entry, "failed")
  BY MainFacts DEF StrategyRaises, EndEntry
<1>2. /\ Nothing \in Maybe(Values) /\ "raised" \in Maybe(Errors) /\ Nothing \in Maybe(Nat)
      /\ "failed" \in Statuses /\ entry \in DOMAIN journal.groups
  BY <1>1 DEF Maybe, Errors, Statuses, Books, OpenBooked, InGroup
<1>3. "raised" # Nothing
  BY NothingAssumption
<1>4. QED
  BY <1>1, <1>2, <1>3, OldJournal, FreshIds, SyntheticEnds

LEMMA EndFallbackKeepsBooks ==
  ASSUME IInv, Books, EndFallback
  PROVE  Books' /\ RecordsStay
<1> DEFINE s == nextStepId - 1
           st == FallbackStatus
<1>1. /\ pc = "fallback" /\ task[s].pc = "done" /\ s \in TasksOf(entry) /\ s \in DOMAIN task
      /\ st = task[s].status /\ journal' = OnGroupFinished(journal, entry, st)
      /\ EndEntry(st, agreed) /\ entry \in DOMAIN steps
      /\ UNCHANGED <<steps, nextStepId, task, cost>>
  BY MainFacts DEF EndFallback, FallbackStatus, IInv, MainOK, TasksOf
<1>2. st \in Statuses
  BY <1>1, ReturnedFacts
<1>3. entry \in DOMAIN journal.groups /\ task[s].group = entry
  BY <1>1 DEF Books, OpenBooked, InGroup
<1>4. s \in Members(journal, entry) /\ s \in DOMAIN journal.steps /\ journal.steps[s].status = st
  BY <1>1, <1>3 DEF Books, ThreadsBooked, RecordFits, Members
<1>5. \A r \in DOMAIN journal.steps : journal.steps[r].status = "success" \/ r = s
  BY <1>1, UnderWay DEF Pending
<1> HIDE DEF s, st
<1>6. /\ \A r \in Members(journal, entry) : journal.steps[r].status \in Statuses
      /\ st = "success" <=> \A r \in Members(journal, entry) : journal.steps[r].status # "failed"
      /\ IF st = "failed" THEN Blamed(journal) ELSE AllWell(journal)
  BY <1>2, <1>4, <1>5 DEF Members, Statuses, Blamed, AllWell
<1>7. pc' \notin InGroup
  BY <1>1 DEF EndEntry, Stop, InGroup
<1>8. /\ StepsAdded /\ GroupAdded
      /\ journal'.status = journal.status /\ journal'.steps = journal.steps
  BY <1>1, <1>2, <1>3, <1>6, <1>7, OldJournal, FreshIds, ClosesGroup
<1>9. EntryEnds(st, agreed)
  BY <1>1, <1>6, <1>8 DEF EntryEnds, Blamed, AllWell
<1>10. QED
  BY <1>9, EntryEndsKeepsBooks

(* The journal in which the group of the entry has just been opened.       *)
LEMMA OpenedEntry ==
  ASSUME IInv, Books, pc = "next", NEW kind \in {"parallel", "consensus"}, NEW k,
         k = OnGroupStarted(journal, entry, kind)
  PROVE  /\ JournalTyped(k) /\ k.steps = journal.steps /\ k.status = journal.status
         /\ NewSteps(k) /\ OldGroups(k) /\ Members(k, entry) = {}
         /\ entry \in DOMAIN k.groups /\ k.groups[entry].status = Nothing
<1>1. entry \in Nat \ {0} /\ JournalTyped(journal)
  BY MainFacts
<1>2. Marks(journal, k, entry, Nothing)
  BY <1>1, FreshIds, OpenedGroup
<1>3. NewSteps(k) /\ OldGroups(k)
  BY <1>2 DEF Marks, NewSteps, OldGroups
<1>4. Members(k, entry) = {}
  BY <1>2, FreshIds DEF Marks, Members
<1>5. QED
  BY <1>2, <1>3, <1>4 DEF Marks

LEMMA BeginReuseKeepsBooks ==
  ASSUME IInv, Books, BeginReuse
  PROVE  Books' /\ RecordsStay
<1> DEFINE opened == OnGroupStarted(journal, entry, "consensus")
<1>1. pc = "next" /\ entry \in DOMAIN steps /\ UNCHANGED <<steps, task, cost>>
  BY DEF BeginReuse, MayEnter
<1>2. /\ JournalTyped(opened) /\ opened.steps = journal.steps /\ opened.status = journal.status
      /\ NewSteps(opened) /\ OldGroups(opened) /\ Members(opened, entry) = {}
      /\ entry \in DOMAIN opened.groups /\ opened.groups[entry].status = Nothing
  BY <1>1, OpenedEntry
<1>3. CASE Current.source \in DOMAIN groupOutputs
  <2>1. /\ pc' = "reduce" /\ journal' = opened /\ UNCHANGED <<entry, overall, nextStepId>>
    BY <1>3 DEF BeginReuse
  <2> HIDE DEF opened
  <2>2. StepsAdded /\ GroupAdded
    BY <1>2, <2>1 DEF StepsAdded, GroupAdded, InGroup
  <2>3. ThreadsAdded /\ CursorMoved
    BY <1>1, <2>1, MainFacts DEF ThreadsAdded, CursorMoved
  <2>4. ThreadsBooked' /\ StepsBooked' /\ GroupsBooked' /\ RecordsStay
    BY <2>2, <2>3, MainStepKeepsBooks
  <2>5. OpenBooked'
    <3>1. \A s \in DOMAIN task : task[s].entry # entry
      BY <1>1 DEF Books, ThreadsBooked, Reached
    <3>2. QED
      BY <1>1, <1>2, <2>1, <3>1 DEF OpenBooked, TasksOf
  <2>6. ResultBooked'
    BY <1>1, <1>2, <2>1, UnderWay DEF ResultBooked, AllWell
  <2>7. QED
    BY <2>4, <2>5, <2>6 DEF Books
<1>4. CASE Current.source \notin DOMAIN groupOutputs
  <2>1. /\ journal' = OnGroupFinished(
                        RecordSynthetic(opened, nextStepId, Nothing, "raised", Nothing),
                        entry, "failed")
        /\ nextStepId' = nextStepId + 1 /\ EndEntry("failed", Nothing)
    BY <1>4 DEF BeginReuse, FailedConsensusStep, EndEntry
  <2> HIDE DEF opened
  <2>2. /\ Nothing \in Maybe(Values) /\ "raised" \in Maybe(Errors) /\ Nothing \in Maybe(Nat)
        /\ "failed" \in Statuses /\ "raised" # Nothing
    BY NothingAssumption DEF Maybe, Errors, Statuses
  <2>3. QED
    BY <1>1, <1>2, <2>1, <2>2, SyntheticEnds
<1>5. QED
  BY <1>3, <1>4

(* The threads that Assign adds.                                           *)
LEMMA AssignedThreads ==
  ASSUME IInv, NEW first, nextStepId <= first, first \in Nat, NEW given, Len(given) \in Nat,
         NEW group, task' = Assign(first, given, group)
  PROVE  /\ \A s \in DOMAIN task : s \in DOMAIN task' /\ task'[s] = task[s]
         /\ \A s \in DOMAIN task' \ DOMAIN task :
              /\ s \in first .. first + Len(given) - 1
              /\ task'[s].pc = "assigned" /\ task'[s].entry = entry /\ task'[s].group = group
<1>1. \A s \in DOMAIN task : s \in Nat /\ s < nextStepId
  BY DEF IInv, TypeOK, TasksTyped, TasksOK
<1>2. nextStepId \in Nat
  BY MainFacts
<1>3. /\ DOMAIN task' = DOMAIN task \cup first .. first + Len(given) - 1
      /\ \A s \in DOMAIN task' :
           task'[s] = IF s >= first THEN NewTask(given[s - first + 1], Current.agent, entry, group)
                      ELSE task[s]
  BY DEF Assign
<1>4. \A s \in DOMAIN task : s \in DOMAIN task' /\ task'[s] = task[s]
  BY <1>1, <1>2, <1>3
<1>5. \A s \in first .. first + Len(given) - 1 : s >= first
  OBVIOUS
<1>6. ASSUME NEW s \in DOMAIN task' \ DOMAIN task
      PROVE  /\ s \in first .. first + Len(given) - 1
             /\ task'[s].pc = "assigned" /\ task'[s].entry = entry /\ task'[s].group = group
  <2>1. s \in first .. first + Len(given) - 1 /\ s >= first
    BY <1>3, <1>5
  <2>2. PICK tool : task'[s] = NewTask(tool, Current.agent, entry, group)
    BY <1>3, <2>1
  <2>3. QED
    BY <2>1, <2>2 DEF NewTask
<1>7. QED
  BY <1>4, <1>6

LEMMA BeginStepKeepsBooks ==
  ASSUME IInv, Books, BeginStep
  PROVE  Books' /\ RecordsStay
<1>1. /\ pc = "next" /\ entry \in DOMAIN steps /\ Current.kind = "step" /\ pc' = "step"
      /\ task' = Assign(nextStepId, Current.tools, Nothing) /\ nextStepId' = nextStepId + 1
      /\ UNCHANGED <<steps, entry, overall, cost, journal>>
  BY DEF BeginStep, MayEnter
<1>2. /\ Len(Current.tools) = 1 /\ nextStepId \in Nat /\ nextStepId <= nextStepId
      /\ nextStepId' \in Nat /\ nextStepId <= nextStepId'
  BY <1>1, CurrentType, MainFacts
<1>3. /\ \A s \in DOMAIN task : s \in DOMAIN task' /\ task'[s] = task[s]
      /\ \A s \in DOMAIN task' \ DOMAIN task :
           /\ s = nextStepId /\ task'[s].pc = "assigned" /\ task'[s].entry = entry
           /\ task'[s].group = Nothing
  <2> DEFINE given == Current.tools
  <2>1. task' = Assign(nextStepId, given, Nothing) /\ Len(given) \in Nat
    BY <1>1, <1>2
  <2>2. nextStepId .. (nextStepId + Len(given) - 1) = {nextStepId}
    BY <1>2
  <2> HIDE DEF given
  <2>3. PICK first \in Nat : first = nextStepId
    BY <1>2
  <2>4. nextStepId <= first /\ task' = Assign(first, given, Nothing)
    BY <1>2, <2>1, <2>3
  <2>5. /\ \A s \in DOMAIN task : s \in DOMAIN task' /\ task'[s] = task[s]
        /\ \A s \in DOMAIN task' \ DOMAIN task :
             /\ s \in first .. first + Len(given) - 1
             /\ task'[s].pc = "assigned" /\ task'[s].entry = entry /\ task'[s].group = Nothing
    BY <2>1, <2>4, AssignedThreads
  <2>6. QED
    BY <2>2, <2>3, <2>5
<1>4. StepsAdded /\ GroupAdded
  BY <1>1, QuietStep, FreshIds DEF InGroup
<1>5. ThreadsAdded /\ CursorMoved
  BY <1>1, <1>2, <1>3, FreshIds DEF ThreadsAdded, CursorMoved, InGroup
<1>6. ThreadsBooked' /\ StepsBooked' /\ GroupsBooked' /\ RecordsStay
  BY <1>4, <1>5, MainStepKeepsBooks
<1>7. OpenBooked'
  <2>1. nextStepId' - 1 = nextStepId
    BY <1>1, <1>2
  <2>2. nextStepId \in DOMAIN task' \ DOMAIN task
    <3>1. nextStepId \notin DOMAIN task
      BY MainFacts
    <3>2. nextStepId \in DOMAIN task'
      BY <1>1, <1>2 DEF Assign
    <3>3. QED
      BY <3>1, <3>2
  <2>3. QED
    BY <1>1, <1>3, <2>1, <2>2 DEF OpenBooked, InGroup
<1>8. ResultBooked'
  BY <1>1, UnderWay DEF ResultBooked, AllWell
<1>9. QED
  BY <1>6, <1>7, <1>8 DEF Books

LEMMA BeginGroupKeepsBooks ==
  ASSUME IInv, Books, BeginGroup
  PROVE  Books' /\ RecordsStay
<1>1. /\ pc = "next" /\ entry \in DOMAIN steps /\ Current.kind \in {"parallel", "consensus"}
      /\ journal' = OnGroupStarted(journal, entry, Current.kind) /\ pc' = "fanin"
      /\ task' = Assign(nextStepId, Current.tools, entry)
      /\ nextStepId' = nextStepId + Len(Current.tools)
      /\ UNCHANGED <<steps, entry, overall, cost>>
  BY DEF BeginGroup, MayEnter
<1>2. /\ Len(Current.tools) \in Nat /\ nextStepId \in Nat /\ nextStepId <= nextStepId
      /\ nextStepId' \in Nat /\ nextStepId <= nextStepId'
  <2>1. Current.tools \in Seq(Tools) /\ nextStepId \in Nat
    BY <1>1, CurrentType, MainFacts
  <2>2. Len(Current.tools) \in Nat
    BY <2>1
  <2>3. QED
    BY <1>1, <2>1, <2>2
<1>3. /\ \A s \in DOMAIN task : s \in DOMAIN task' /\ task'[s] = task[s]
      /\ \A s \in DOMAIN task' \ DOMAIN task :
           /\ s \in nextStepId .. nextStepId + Len(Current.tools) - 1
           /\ task'[s].pc = "assigned" /\ task'[s].entry = entry /\ task'[s].group = entry
  BY <1>1, <1>2, AssignedThreads
<1>4. /\ journal'.steps = journal.steps /\ journal'.status = journal.status
      /\ NewSteps(journal') /\ OldGroups(journal') /\ Members(journal', entry) = {}
      /\ entry \in DOMAIN journal'.groups /\ journal'.groups[entry].status = Nothing
  BY <1>1, OpenedEntry
<1>5. StepsAdded /\ GroupAdded
  BY <1>1, <1>4 DEF StepsAdded, GroupAdded, InGroup
<1>6. \A s \in DOMAIN journal.steps : s < nextStepId /\ s \in Nat
  BY FreshIds DEF Books, StepsBooked, JournalTyped
<1>7. ThreadsAdded /\ CursorMoved
  <2>1. \A s \in nextStepId .. nextStepId + Len(Current.tools) - 1 : s \notin DOMAIN journal.steps
    BY <1>2, <1>6
  <2>2. QED
    BY <1>1, <1>2, <1>3, <1>4, <2>1 DEF ThreadsAdded, CursorMoved, InGroup
<1>8. ThreadsBooked' /\ StepsBooked' /\ GroupsBooked' /\ RecordsStay
  BY <1>5, <1>7, MainStepKeepsBooks
<1>9. OpenBooked'
  <2>1. \A s \in DOMAIN task : task[s].entry # entry
    BY <1>1 DEF Books, ThreadsBooked, Reached
  <2>2. QED
    BY <1>1, <1>3, <1>4, <2>1 DEF OpenBooked, TasksOf
<1>10. ResultBooked'
  BY <1>1, <1>4, UnderWay DEF ResultBooked, AllWell
<1>11. QED
  BY <1>8, <1>9, <1>10 DEF Books

LEMMA AgreeThenFallBackKeepsBooks ==
  ASSUME IInv, Books, AgreeThenFallBack
  PROVE  Books' /\ RecordsStay
<1>1. /\ pc = "reduce" /\ pc' = "fallback" /\ entry \in DOMAIN steps
      /\ task' = Assign(nextStepId + 1, <<Current.fallback>>, entry)
      /\ nextStepId' = nextStepId + 1 + 1
      /\ UNCHANGED <<steps, entry, overall, cost>>
  BY MainFacts DEF AgreeThenFallBack, FallbackId
<1>2. PICK verdict \in Verdicts :
        journal' = RecordSynthetic(journal, nextStepId, verdict[1], Nothing, verdict[2])
  BY DEF AgreeThenFallBack
<1>3. PICK v \in Maybe(Values), confidence \in Maybe(Nat) :
        v = verdict[1] /\ confidence = verdict[2]
  BY <1>1, VerdictsType DEF Maybe
<1>4. /\ nextStepId \in Nat /\ nextStepId + 1 \in Nat /\ nextStepId <= nextStepId + 1
      /\ nextStepId' \in Nat /\ nextStepId < nextStepId' /\ nextStepId <= nextStepId'
      /\ Len(<<Current.fallback>>) = 1
  BY <1>1, MainFacts
<1>5. /\ \A s \in DOMAIN task : s \in DOMAIN task' /\ task'[s] = task[s]
      /\ \A s \in DOMAIN task' \ DOMAIN task :
           /\ s = nextStepId + 1
           /\ task'[s].pc = "assigned" /\ task'[s].entry = entry /\ task'[s].group = entry
  <2> DEFINE given == <<Current.fallback>>
  <2>1. task' = Assign(nextStepId + 1, given, entry) /\ Len(given) = 1 /\ Len(given) \in Nat
    BY <1>1, <1>4
  <2> HIDE DEF given
  <2>2. (nextStepId + 1) .. (nextStepId + 1 + Len(given) - 1) = {nextStepId + 1}
    BY <1>4, <2>1
  <2>3. PICK first \in Nat : first = nextStepId + 1
    BY <1>4
  <2>4. nextStepId <= first /\ task' = Assign(first, given, entry) /\ Len(given) \in Nat
    BY <1>4, <2>1, <2>3
  <2>5. /\ \A s \in DOMAIN task : s \in DOMAIN task' /\ task'[s] = task[s]
        /\ \A s \in DOMAIN task' \ DOMAIN task :
             /\ s \in first .. first + Len(given) - 1
             /\ task'[s].pc = "assigned" /\ task'[s].entry = entry /\ task'[s].group = entry
    BY <2>4, AssignedThreads
  <2>6. QED
    BY <2>2, <2>3, <2>5
<1>6. entry \in DOMAIN journal.groups /\ \A s \in TasksOf(entry) : task[s].group = entry
  BY <1>1 DEF Books, OpenBooked, InGroup
<1>7. AllWell(journal) /\ overall = "success" /\ journal.status = Nothing
  BY <1>1, UnderWay
<1>8. /\ NewSteps(journal') /\ OldGroups(journal') /\ journal'.status = journal.status
      /\ DOMAIN journal'.groups = DOMAIN journal.groups
      /\ journal'.groups[entry].status = journal.groups[entry].status
      /\ DOMAIN journal'.steps = DOMAIN journal.steps \cup {nextStepId}
      /\ AllWell(journal')
  <2>1. /\ Nothing \in Maybe(Errors) /\ "success" \in Statuses /\ "success" # "failed"
    BY DEF Maybe, Statuses
  <2>2. PICK k : k = RecordSynthetic(journal, nextStepId, v, Nothing, confidence)
    OBVIOUS
  <2>3. /\ NewSteps(k) /\ OldGroups(k) /\ k.status = journal.status
        /\ DOMAIN k.groups = DOMAIN journal.groups
        /\ k.groups[entry].status = journal.groups[entry].status
        /\ DOMAIN k.steps = DOMAIN journal.steps \cup {nextStepId}
        /\ IF "success" = "failed" THEN Blamed(k) ELSE AllWell(k)
    BY <1>4, <1>6, <1>7, <2>1, <2>2, OldJournal, FreshIds, SyntheticDecides
  <2>4. journal' = k
    BY <1>2, <1>3, <2>2
  <2>5. QED
    BY <2>3, <2>4
<1>9. StepsAdded /\ GroupAdded
  BY <1>1, <1>6, <1>8 DEF StepsAdded, GroupAdded, Books, GroupsBooked, InGroup
<1>10. ThreadsAdded /\ CursorMoved
  <2>1. nextStepId + 1 \notin DOMAIN journal'.steps
    <3>1. nextStepId + 1 \notin DOMAIN journal.steps
      BY <1>4, FreshIds DEF Books, StepsBooked
    <3>2. QED
      BY <1>4, <1>8, <3>1
  <2>2. QED
    BY <1>1, <1>4, <1>5, <2>1 DEF ThreadsAdded, CursorMoved
<1>11. ThreadsBooked' /\ StepsBooked' /\ GroupsBooked' /\ RecordsStay
  BY <1>9, <1>10, MainStepKeepsBooks
<1>12. OpenBooked'
  BY <1>1, <1>5, <1>6, <1>8 DEF OpenBooked, TasksOf
<1>13. ResultBooked'
  BY <1>1, <1>7, <1>8 DEF ResultBooked, AllWell
<1>14. QED
  BY <1>11, <1>12, <1>13 DEF Books

LEMMA MainThreadKeepsBooks ==
  ASSUME IInv, Books, MainThread
  PROVE  Books' /\ RecordsStay
<1>1. CASE StopForRuntime \/ StopForCost \/ ReplayStep \/ RejectCheckpoint
  BY <1>1, StopsKeepBooks, ReplayStepKeepsBooks, RejectCheckpointKeepsBooks
<1>2. CASE BeginStep \/ EndStep \/ BeginGroup \/ EndParallel \/ EndVotersFailed \/ EndVoters
  BY <1>2, BeginStepKeepsBooks, EndStepKeepsBooks, BeginGroupKeepsBooks, EndParallelKeepsBooks,
     EndVotersFailedKeepsBooks, EndVotersKeepsBooks
<1>3. CASE BeginReuse \/ Agree \/ AgreeThenFallBack \/ StrategyRaises \/ EndFallback
  BY <1>3, BeginReuseKeepsBooks, AgreeKeepsBooks, AgreeThenFallBackKeepsBooks,
     StrategyRaisesKeepsBooks, EndFallbackKeepsBooks
<1>4. CASE FinishWorkflow
  BY <1>4, FinishWorkflowKeepsBooks
<1>5. QED
  BY <1>1, <1>2, <1>3, <1>4 DEF MainThread

LEMMA FreshKeepsBooks == Fresh => Books
<1> SUFFICES ASSUME Fresh PROVE Books
  OBVIOUS
<1>1. /\ journal.steps = << >> /\ journal.groups = << >> /\ journal.status = Nothing
      /\ task = << >> /\ pc = "next" /\ entry = 1 /\ overall = "success"
      /\ DOMAIN << >> = {}
  BY DEF Fresh, EmptyJournal
<1>2. ThreadsBooked /\ StepsBooked /\ GroupsBooked
  BY <1>1 DEF ThreadsBooked, StepsBooked, GroupsBooked, Grouped
<1>3. OpenBooked
  BY <1>1 DEF OpenBooked, InGroup
<1>4. ResultBooked
  <2>1. steps \in Seq(EntryType)
    BY WorkflowAssumption DEF Fresh
  <2>2. 1 <= Len(steps) + 1
    BY <2>1
  <2>3. QED
    BY <1>1, <2>2 DEF ResultBooked
<1>5. QED
  BY <1>2, <1>3, <1>4 DEF Books

LEMMA InitKeepsBooks == Init => Books
BY InitIsFresh, FreshKeepsBooks

LEMMA NextKeepsBooks == IInv /\ Books /\ [Next]_vars => Books' /\ RecordsStay
<1> SUFFICES ASSUME IInv, Books, [Next]_vars PROVE Books' /\ RecordsStay
  OBVIOUS
<1>1. CASE MainThread
  BY <1>1, MainThreadKeepsBooks
<1>2. CASE \E s \in DOMAIN task : RunTool(s)
  BY <1>2, RunToolKeepsBooks
<1>3. CASE UNCHANGED vars
  BY <1>3 DEF vars, Books, ThreadsBooked, StepsBooked, GroupsBooked, OpenBooked, ResultBooked,
              Reached, TasksOf, Pending, Blamed, OverBudget, RecordsStay
<1>4. QED
  BY <1>1, <1>2, <1>3 DEF Next, Step, Terminating

(* The books are kept throughout every run.                                *)
THEOREM BooksAreKept == Spec => []Books
BY InitKeepsBooks, NextKeepsBooks, Inductive, PTL DEF Spec

(* scheduler.py:364-371, 413-442, 521-536: whatever the group, its voters, *)
(* its strategy and its fallback do, a group is closed only when all of    *)
(* its steps have ended, and with "success" exactly when none has failed.  *)
THEOREM GroupsAreHonest == Spec => []GroupsSummarizeSteps
<1>1. Books => GroupsSummarizeSteps
  <2> DEFINE ids(g) == journal.groups[g].stepIds
             statuses(g) == {journal.steps[ids(g)[i]].status : i \in DOMAIN ids(g)}
  <2> SUFFICES ASSUME Books, NEW g \in DOMAIN journal.groups, journal.groups[g].status # Nothing
               PROVE  /\ statuses(g) \subseteq Statuses
                      /\ journal.groups[g].status = "success" <=> "failed" \notin statuses(g)
    BY DEF GroupsSummarizeSteps
  <2>1. Summarized(journal, g) /\ Range(ids(g)) = Members(journal, g)
    BY DEF Books, GroupsBooked, Grouped
  <2>2. \A st : st \in statuses(g) <=> \E s \in Range(ids(g)) : st = journal.steps[s].status
    BY DEF Range
  <2> HIDE DEF ids, statuses
  <2>3. statuses(g) \subseteq Statuses
    BY <2>1, <2>2 DEF Summarized
  <2>4. "failed" \notin statuses(g) <=> \A s \in Members(journal, g) : journal.steps[s].status # "failed"
    BY <2>1, <2>2
  <2>5. QED
    BY <2>1, <2>3, <2>4 DEF Summarized
<1>2. QED
  BY <1>1, BooksAreKept, PTL

(* scheduler.py:167-173: the run ends with "success" only when every entry *)
(* was carried out and no step failed, with "failed" only for a failed     *)
(* step or a limit, and without a status only when CheckpointError escapes.*)
THEOREM ResultIsHonest == Spec => []RunStatusHonest
<1>1. IInv /\ Books => RunStatusHonest
  <2> SUFFICES ASSUME IInv, Books PROVE RunStatusHonest
    OBVIOUS
  <2>1. /\ journal.status = IF pc = "done" THEN overall ELSE Nothing
        /\ overall \in Statuses /\ Nothing \notin Statuses
    BY MainFacts, NothingIsNew DEF Books, ResultBooked
  <2>2. ASSUME journal.status = "success"
        PROVE  entry = Len(steps) + 1 /\ AllWell(journal)
    <3>1. pc = "done" /\ overall = "success"
      BY <2>1, <2>2, NothingIsNew DEF Statuses
    <3>2. QED
      BY <3>1 DEF Books, ResultBooked, Pending, AllWell
  <2>3. ASSUME journal.status = "success", NEW g \in DOMAIN journal.groups
        PROVE  journal.groups[g].status = "success"
    <3>1. pc = "done"
      BY <2>1, <2>3, NothingIsNew DEF Statuses
    <3>2. Summarized(journal, g)
      BY <3>1 DEF Books, GroupsBooked, InGroup
    <3>3. QED
      BY <2>2, <2>3, <3>2 DEF Summarized, AllWell, Members
  <2>4. journal.status = "failed" => Blamed(journal)
    <3>1. journal.status = "failed" => overall = "failed"
      BY <2>1, NothingIsNew DEF Statuses
    <3>2. QED
      BY <3>1 DEF Books, ResultBooked
  <2>5. journal.status # Nothing <=> pc = "done"
    BY <2>1
  <2>6. QED
    BY <2>2, <2>3, <2>4, <2>5 DEF RunStatusHonest, AllWell, Blamed
<1>2. QED
  BY <1>1, Inductive, BooksAreKept, PTL

(* journal.py: the record of a step that has ended is never written again, *)
(* and no step loses its place: step ids are used once, by threads, for    *)
(* synthetic steps and for replays alike.                                  *)
THEOREM RecordsAreFinal == Spec => FinishedRecordsStay
<1>1. RecordsStay => [\A s \in DOMAIN journal.steps :
        /\ s \in DOMAIN journal'.steps
        /\ journal.steps[s].status # Nothing => journal'.steps[s] = journal.steps[s]]_vars
  BY DEF RecordsStay
<1>2. QED
  BY <1>1, Inductive, BooksAreKept, NextKeepsBooks, PTL DEF Spec, FinishedRecordsStay

-----------------------------------------------------------------------------
(* Who was polled, and what was made of the votes: a third invariant, on   *)
(* top of IInv and Books.                                                  *)

(* The record of a thread's step names its tool, and its output from the   *)
(* moment the tool has succeeded.                                          *)
RecordHolds(s, t, j) ==
  /\ t.pc # "assigned" => j.steps[s].tool = t.tool
  /\ t.pc \in {"usage", "costing", "finishing"} \/ (t.pc = "done" /\ t.status = "success") =>
       j.steps[s].output = t.output

OutputsBooked == \A s \in DOMAIN task : RecordHolds(s, task[s], journal)

(* The steps V are those of the threads f that ran the tools `given`, in   *)
(* this order; all of them succeeded, and the ballot b holds their outputs.*)
Polled(given, f, V, b) ==
  \E first \in Nat \ {0} :
    /\ Len(b) = Len(given) /\ V = first .. first + Len(given) - 1
    /\ \A s \in V : /\ s \in DOMAIN f /\ f[s].pc = "done" /\ f[s].status = "success"
                    /\ f[s].tool = given[s - first + 1] /\ f[s].output = b[s - first + 1]

(* The entry whose members are the voters of entry e.                      *)
Origin(e) == IF steps[e].kind = "reuse" THEN steps[e].source ELSE e

(* The main thread is where the kind of the entry takes it.                *)
Placed ==
  /\ pc = "step" => Current.kind = "step"
  /\ pc = "fanin" => Current.kind \in {"parallel", "consensus"}
  /\ pc \in {"reduce", "fallback"} => Current.kind \in {"consensus", "reuse"}

(* While a group runs its members are the latest steps, in tool order.     *)
Seated ==
  pc = "fanin" =>
    LET first == nextStepId - Len(Current.tools)
    IN /\ first \in Nat \ {0} /\ TasksOf(entry) = first .. nextStepId - 1
       /\ \A s \in TasksOf(entry) : task[s].tool = Current.tools[s - first + 1]

(* The outputs of every parallel group passed are at hand, and no others.  *)
GroupsPolled ==
  /\ \A e \in DOMAIN groupOutputs :
       e \in 1 .. entry - 1 /\ Polled(steps[e].tools, task, TasksOf(e), groupOutputs[e])
  /\ \A e \in 1 .. entry - 1 : steps[e].kind = "parallel" => e \in DOMAIN groupOutputs

BallotPolled ==
  pc = "reduce" => Polled(Current.tools, task, TasksOf(Origin(entry)), ballot)

(* v is what a built-in strategy makes of the ballot b.                    *)
Wins(strategy, b, v) ==
  /\ strategy = "majority" => MajorityAgrees(b) /\ v = RankedFirst(b)
  /\ strategy = "unanimous" => UnanimousAgrees(b) /\ v = b[1]

(* Step s of no thread is a replay, or records what its group's strategy   *)
(* made of the ballot.                                                     *)
Justified(s, r) ==
  /\ r.group = Nothing => r.tool \in Tools
  /\ r.group # Nothing /\ r.status = "success" =>
       \E b \in Seq(Values) \ {<< >>} :
         /\ Polled(steps[r.group].tools, task, TasksOf(Origin(r.group)) \cap 1 .. s, b)
         /\ Wins(steps[r.group].strategy, b, r.output)

VerdictsBooked ==
  \A s \in DOMAIN journal.steps \ DOMAIN task : Justified(s, journal.steps[s])

Polls ==
  OutputsBooked /\ Placed /\ Seated /\ GroupsPolled /\ BallotPolled /\ VerdictsBooked

-----------------------------------------------------------------------------
(* A poll stays as it was: its voters have returned.                       *)

LEMMA PolledStays ==
  ASSUME NEW given, NEW f, NEW h, NEW V, NEW b, Polled(given, f, V, b),
         \A s \in V : s \in DOMAIN f /\ f[s].pc = "done" => s \in DOMAIN h /\ h[s] = f[s]
  PROVE  Polled(given, h, V, b)
BY DEF Polled

(* The threads there are keep their entries, and those that have returned  *)
(* are not touched; the others are new.                                    *)
ThreadsStay ==
  /\ \A s \in DOMAIN task : /\ s \in DOMAIN task' /\ task'[s].entry = task[s].entry
                            /\ task[s].pc = "done" => task'[s] = task[s]
  /\ \A s \in DOMAIN task' \ DOMAIN task : nextStepId <= s /\ task'[s].entry = entry

LEMMA ThreadsOfOthers ==
  ASSUME ThreadsStay, NEW e, e # entry
  PROVE  TasksOf(e)' = TasksOf(e)
BY DEF ThreadsStay, TasksOf

LEMMA GroupsStay ==
  ASSUME IInv, Polls, ThreadsStay, steps' = steps, groupOutputs' = groupOutputs,
         entry' = entry \/ (entry' = entry + 1 /\ steps[entry].kind # "parallel")
  PROVE  GroupsPolled'
<1>1. entry \in Nat
  BY MainFacts
<1>2. ASSUME NEW e \in DOMAIN groupOutputs
      PROVE  e \in 1 .. entry' - 1 /\ Polled(steps[e].tools, task', TasksOf(e)', groupOutputs[e])
  <2>1. /\ e \in 1 .. entry - 1
        /\ Polled(steps[e].tools, task, TasksOf(e), groupOutputs[e])
    BY DEF Polls, GroupsPolled
  <2>2. e # entry /\ e \in 1 .. entry' - 1
    BY <1>1, <2>1
  <2>3. TasksOf(e)' = TasksOf(e)
    BY <2>2, ThreadsOfOthers
  <2>4. Polled(steps[e].tools, task', TasksOf(e), groupOutputs[e])
    BY <2>1, PolledStays DEF ThreadsStay
  <2>5. QED
    BY <2>2, <2>3, <2>4
<1>3. ASSUME NEW e \in 1 .. entry' - 1, steps[e].kind = "parallel"
      PROVE  e \in DOMAIN groupOutputs
  <2>1. e \in 1 .. entry - 1
    BY <1>1, <1>3
  <2>2. QED
    BY <1>3, <2>1 DEF Polls, GroupsPolled
<1>4. QED
  BY <1>2, <1>3 DEF GroupsPolled

LEMMA JustifiedStays ==
  ASSUME IInv, ThreadsStay, steps' = steps, NEW s, s \in Nat, s < nextStepId, NEW r, Justified(s, r)
  PROVE  Justified(s, r)'
<1>1. nextStepId \in Nat /\ DOMAIN task \subseteq Nat
  BY MainFacts DEF IInv, TypeOK, TasksTyped
<1>2. \A e : TasksOf(e)' \cap 1 .. s = TasksOf(e) \cap 1 .. s
  BY <1>1 DEF ThreadsStay, TasksOf
<1>3. Origin(r.group)' = Origin(r.group)
  BY DEF Origin
<1>4. TasksOf(Origin(r.group))' \cap 1 .. s = TasksOf(Origin(r.group)) \cap 1 .. s
  <2>1. PICK e : e = Origin(r.group)
    OBVIOUS
  <2>2. TasksOf(e)' = TasksOf(Origin(r.group))'
    BY <1>3, <2>1 DEF TasksOf
  <2>3. QED
    BY <1>2, <2>1, <2>2
<1>5. ASSUME NEW b, Polled(steps[r.group].tools, task, TasksOf(Origin(r.group)) \cap 1 .. s, b)
      PROVE  Polled(steps[r.group].tools, task', TasksOf(Origin(r.group)) \cap 1 .. s, b)
  BY <1>5, PolledStays DEF ThreadsStay
<1>6. QED
  BY <1>4, <1>5 DEF Justified

(* What a step adds to the journal is justified, if it is not a thread's.  *)
LEMMA VerdictsStay ==
  ASSUME IInv, Books, Polls, ThreadsStay, steps' = steps,
         \A s \in DOMAIN journal.steps \ DOMAIN task :
           s \in DOMAIN journal'.steps /\ journal'.steps[s] = journal.steps[s],
         \A s \in DOMAIN journal'.steps \ DOMAIN journal.steps :
           s \in DOMAIN task' \/ Justified(s, journal.steps[s])'
  PROVE  VerdictsBooked'
<1> SUFFICES ASSUME NEW s \in DOMAIN journal'.steps \ DOMAIN task'
             PROVE  Justified(s, journal.steps[s])'
  BY DEF VerdictsBooked
<1>1. CASE s \notin DOMAIN journal.steps
  BY <1>1
<1>2. CASE s \in DOMAIN journal.steps
  <2>1. s \notin DOMAIN task
    BY DEF ThreadsStay
  <2>2. s \in Nat /\ s < nextStepId
    BY <1>2, MainFacts DEF JournalTyped, Books, StepsBooked
  <2>3. PICK r : r = journal.steps[s]
    OBVIOUS
  <2>4. Justified(s, r)
    BY <1>2, <2>1, <2>3 DEF Polls, VerdictsBooked
  <2>5. Justified(s, r)'
    BY <2>2, <2>4, JustifiedStays
  <2>6. journal'.steps[s] = r
    BY <1>2, <2>1, <2>3
  <2>7. QED
    BY <2>5, <2>6 DEF Justified, Origin, TasksOf
<1>3. QED
  BY <1>1, <1>2

-----------------------------------------------------------------------------
(* Steps of the threads keep the polls.                                    *)

(* Thread s goes on as t says, and writes its own record only.             *)
ThreadWrites(s) ==
  /\ task' = [task EXCEPT ![s] = task'[s]] /\ SameCall(task'[s], task[s])
  /\ task[s].pc # "done" /\ RecordHolds(s, task'[s], journal')
  /\ \A r \in DOMAIN journal.steps \ {s} :
       r \in DOMAIN journal'.steps /\ journal'.steps[r] = journal.steps[r]
  /\ DOMAIN journal'.steps \subseteq DOMAIN journal.steps \cup {s}
  /\ UNCHANGED <<main, pc>>

LEMMA ThreadWritesKeepsPolls ==
  ASSUME IInv, Books, Polls, NEW s \in DOMAIN task, ThreadWrites(s)
  PROVE  Polls'
<1>1. /\ steps' = steps /\ pc' = pc /\ entry' = entry /\ nextStepId' = nextStepId
      /\ ballot' = ballot /\ groupOutputs' = groupOutputs
  BY DEF ThreadWrites, main
<1>2. /\ DOMAIN task' = DOMAIN task /\ \A r \in DOMAIN task \ {s} : task'[r] = task[r]
      /\ task'[s].entry = task[s].entry /\ task'[s].tool = task[s].tool
  BY DEF ThreadWrites, SameCall, IInv, TypeOK, TasksTyped
<1>3. ThreadsStay
  BY <1>2 DEF ThreadsStay, ThreadWrites
<1>4. TasksOf(entry)' = TasksOf(entry) /\ TasksOf(Origin(entry))' = TasksOf(Origin(entry))
  BY <1>1, <1>2 DEF TasksOf, Origin
<1>5. OutputsBooked'
  <2> SUFFICES ASSUME NEW r \in DOMAIN task, r # s PROVE RecordHolds(r, task[r], journal')
    BY <1>2 DEF OutputsBooked, ThreadWrites
  <2>1. RecordHolds(r, task[r], journal)
    BY DEF Polls, OutputsBooked
  <2>2. task[r].pc # "assigned" => journal'.steps[r] = journal.steps[r]
    BY ThreadFacts DEF ThreadWrites
  <2>3. QED
    BY <2>1, <2>2 DEF RecordHolds
<1>6. Placed' /\ Seated'
  BY <1>1, <1>2, <1>4 DEF Polls, Placed, Seated, Current, TasksOf
<1>7. GroupsPolled'
  BY <1>1, <1>3, GroupsStay
<1>8. BallotPolled'
  <2> SUFFICES ASSUME pc = "reduce"
               PROVE  Polled(Current.tools, task', TasksOf(Origin(entry)), ballot)
    BY <1>1, <1>4 DEF BallotPolled, Current
  <2>1. Polled(Current.tools, task, TasksOf(Origin(entry)), ballot)
    BY DEF Polls, BallotPolled
  <2>2. QED
    BY <1>3, <2>1, PolledStays DEF ThreadsStay
<1>9. VerdictsBooked'
  BY <1>1, <1>2, <1>3, VerdictsStay DEF ThreadWrites
<1>10. QED
  BY <1>5, <1>6, <1>7, <1>8, <1>9 DEF Polls

(* The steps of a thread that write nothing in the journal.                *)
LEMMA SilentStepsWrite ==
  ASSUME IInv, Polls, NEW s \in DOMAIN task,
         \/ DenyCapability(s) \/ RequestApproval(s) \/ SkipApproval(s) \/ ApprovalRaises(s)
         \/ CallTool(s) \/ NoUsage(s) \/ UsageRaises(s) \/ AddCost(s)
         \/ \E v, c : ToolReturns(s, v, c)
  PROVE  ThreadWrites(s)
<1>1. /\ journal' = journal /\ UNCHANGED <<main, pc>>
      /\ task[s].pc \in {"check", "asking", "call", "running", "usage", "costing"}
  BY DEF DenyCapability, RequestApproval, SkipApproval, ApprovalRaises, CallTool, NoUsage,
         UsageRaises, AddCost, ToolReturns, Moves
<1>2. task[s] \in TaskType /\ RecordHolds(s, task[s], journal)
  BY ThreadFacts DEF Polls, OutputsBooked
<1>3. /\ task' = [task EXCEPT ![s] = task'[s]] /\ SameCall(task'[s], task[s])
      /\ \/ task'[s].pc \in {"failing", "asking", "call", "running", "returned"}
         \/ /\ task'[s].pc = "finishing" /\ task[s].pc \in {"usage", "costing"}
            /\ task'[s].output = task[s].output
  <2>1. CASE DenyCapability(s) \/ ApprovalRaises(s) \/ UsageRaises(s)
    BY <1>2, <2>1 DEF DenyCapability, ApprovalRaises, UsageRaises, Throws, TaskType, SameCall
  <2>2. CASE RequestApproval(s) \/ SkipApproval(s) \/ NoUsage(s) \/ AddCost(s)
    BY <1>2, <2>2 DEF RequestApproval, SkipApproval, NoUsage, AddCost, Moves, TaskType, SameCall
  <2>3. CASE CallTool(s)
    BY <1>2, <2>3 DEF CallTool, TaskType, SameCall
  <2>4. CASE \E v, c : ToolReturns(s, v, c)
    <3>1. PICK v : /\ task' = [task EXCEPT ![s].pc = "returned", ![s].output = v]
                   /\ task[s].pc = "running"
      BY <2>4 DEF ToolReturns
    <3>2. QED
      BY <1>2, <3>1 DEF TaskType, SameCall
  <2>5. QED
    BY <2>1, <2>2, <2>3, <2>4
<1>4. RecordHolds(s, task'[s], journal)
  BY <1>1, <1>2, <1>3 DEF RecordHolds, SameCall
<1>5. QED
  BY <1>1, <1>3, <1>4 DEF ThreadWrites

(* The others write a new record, or one field of the thread's record.     *)
LEMMA StartStepWrites ==
  ASSUME IInv, Polls, NEW s \in DOMAIN task, StartStep(s)
  PROVE  ThreadWrites(s)
<1> DEFINE k == OnStepStarted(journal, s, task[s].tool, task[s].group, FALSE)
<1>1. /\ task' = [task EXCEPT ![s].pc = "check"] /\ journal' = k /\ task[s].pc = "assigned"
      /\ UNCHANGED <<main, pc>> /\ task[s] \in TaskType
  BY ThreadFacts DEF StartStep, Moves
<1>2. /\ task' = [task EXCEPT ![s] = task'[s]] /\ SameCall(task'[s], task[s])
      /\ task'[s].pc = "check"
  BY <1>1 DEF TaskType, SameCall
<1>3. OnlyStep(journal, k, s)
  <2>1. /\ task[s].tool \in ToolNames /\ task[s].group \in Maybe(Nat) /\ FALSE \in BOOLEAN
        /\ s \in Nat \ {0} /\ JournalTyped(journal)
    BY ThreadFacts, ToolAssumption DEF TaskType
  <2>2. QED
    BY <2>1, StartedJournal
<1>4. k.steps[s].tool = task[s].tool
  <2>1. k.steps[s] = NewStep(task[s].tool, task[s].group, FALSE)
    BY DEF OnStepStarted, Put
  <2> HIDE DEF k
  <2>2. QED
    BY <2>1 DEF NewStep
<1> HIDE DEF k
<1>5. QED
  BY <1>1, <1>2, <1>3, <1>4 DEF ThreadWrites, RecordHolds, OnlyStep, SameCall

(* The tool and the output that thread s has written so far.               *)
Kept(s) ==
  /\ OnlyStep(journal, journal', s) /\ journal'.steps[s].tool = journal.steps[s].tool
  /\ journal'.steps[s].output = journal.steps[s].output

LEMMA HandlersKeep ==
  ASSUME IInv, NEW s \in DOMAIN task, task[s].pc # "assigned",
         \/ \E b \in BOOLEAN : journal' = OnApprovalDecided(journal, s, b)
         \/ \E n \in Nat : journal' = OnRetryAttempted(journal, s, n)
         \/ \E u \in Maybe(Nat) : journal' = OnUsageReported(journal, s, u)
         \/ \E e \in Maybe(Errors) : journal' = OnToolFailed(journal, s, e)
         \/ \E st \in Maybe(Statuses) : journal' = OnStepFinished(journal, s, st)
  PROVE  Kept(s)
<1>1. /\ s \in DOMAIN journal.steps /\ JournalTyped(journal)
      /\ journal.steps[s] \in StepRecordType
  BY ThreadFacts DEF JournalTyped
<1>2. ASSUME NEW b \in BOOLEAN, journal' = OnApprovalDecided(journal, s, b) PROVE Kept(s)
  <2>1. PICK k : k = OnApprovalDecided(journal, s, b)
    OBVIOUS
  <2>2. OnlyStep(journal, k, s) /\ k.steps[s] = [journal.steps[s] EXCEPT !.approved = b]
    BY <1>1, <2>1, StepHandlers
  <2>3. QED
    BY <1>1, <1>2, <2>1, <2>2 DEF Kept, StepRecordType
<1>3. ASSUME NEW n \in Nat, journal' = OnRetryAttempted(journal, s, n) PROVE Kept(s)
  <2>1. PICK k : k = OnRetryAttempted(journal, s, n)
    OBVIOUS
  <2>2. OnlyStep(journal, k, s) /\ k.steps[s] = [journal.steps[s] EXCEPT !.retries = n]
    BY <1>1, <2>1, StepHandlers
  <2>3. QED
    BY <1>1, <1>3, <2>1, <2>2 DEF Kept, StepRecordType
<1>4. ASSUME NEW u \in Maybe(Nat), journal' = OnUsageReported(journal, s, u) PROVE Kept(s)
  <2>1. PICK k : k = OnUsageReported(journal, s, u)
    OBVIOUS
  <2>2. OnlyStep(journal, k, s) /\ k.steps[s] = [journal.steps[s] EXCEPT !.usage = u]
    BY <1>1, <2>1, StepHandlers
  <2>3. QED
    BY <1>1, <1>4, <2>1, <2>2 DEF Kept, StepRecordType
<1>5. ASSUME NEW e \in Maybe(Errors), journal' = OnToolFailed(journal, s, e) PROVE Kept(s)
  <2>1. PICK k : k = OnToolFailed(journal, s, e)
    OBVIOUS
  <2>2. OnlyStep(journal, k, s) /\ k.steps[s] = [journal.steps[s] EXCEPT !.error = e]
    BY <1>1, <2>1, StepHandlers
  <2>3. QED
    BY <1>1, <1>5, <2>1, <2>2 DEF Kept, StepRecordType
<1>6. ASSUME NEW st \in Maybe(Statuses), journal' = OnStepFinished(journal, s, st) PROVE Kept(s)
  <2>1. PICK k : k = OnStepFinished(journal, s, st)
    OBVIOUS
  <2>2. OnlyStep(journal, k, s) /\ k.steps[s] = [journal.steps[s] EXCEPT !.status = st]
    BY <1>1, <2>1, StepHandlers
  <2>3. QED
    BY <1>1, <1>6, <2>1, <2>2 DEF Kept, StepRecordType
<1>7. QED
  BY <1>2, <1>3, <1>4, <1>5, <1>6

LEMMA ReportsWrite ==
  ASSUME IInv, Polls, NEW s \in DOMAIN task,
         \/ \E approved \in BOOLEAN : DecideApproval(s, approved)
         \/ ToolRaises(s) \/ ReportUsage(s) \/ EmitFailed(s)
         \/ FinishSucceeded(s) \/ FinishFailed(s)
  PROVE  ThreadWrites(s)
<1>1. /\ task[s] \in TaskType /\ RecordHolds(s, task[s], journal)
      /\ lastCost[task[s].tool] \in Maybe(Nat)
  BY ThreadFacts DEF Polls, OutputsBooked, TaskType
<1>2. /\ UNCHANGED <<main, pc>> /\ task[s].pc \notin {"assigned", "done"}
  BY DEF DecideApproval, ToolRaises, ReportUsage, EmitFailed, FinishSucceeded, FinishFailed,
         Finishes, Moves
<1>3. journal' = journal \/ Kept(s)
  <2>1. CASE \E approved \in BOOLEAN : DecideApproval(s, approved)
    BY <1>2, <2>1, HandlersKeep DEF DecideApproval
  <2>2. CASE ToolRaises(s)
    <3>1. task[s].attempt + 1 \in Nat
      BY <1>1 DEF TaskType
    <3>2. QED
      BY <1>2, <2>2, <3>1, HandlersKeep DEF ToolRaises
  <2>3. CASE ReportUsage(s)
    BY <1>1, <1>2, <2>3, HandlersKeep DEF ReportUsage
  <2>4. CASE EmitFailed(s)
    BY <1>1, <1>2, <2>4, HandlersKeep DEF EmitFailed, TaskType
  <2>5. CASE FinishSucceeded(s) \/ FinishFailed(s)
    BY <1>2, <2>5, HandlersKeep DEF FinishSucceeded, FinishFailed, Finishes, Statuses, Maybe
  <2>6. QED
    BY <2>1, <2>2, <2>3, <2>4, <2>5
<1>4. /\ task' = [task EXCEPT ![s] = task'[s]] /\ SameCall(task'[s], task[s])
      /\ \/ task'[s].pc \in {"call", "failing", "errored"}
         \/ task'[s].pc = "done" /\ task'[s].status = "failed"
         \/ /\ task'[s].pc \in {"costing", "done"} /\ task[s].pc \in {"usage", "finishing"}
            /\ task'[s].output = task[s].output
  <2>1. CASE \E approved \in BOOLEAN : DecideApproval(s, approved)
    BY <1>1, <2>1 DEF DecideApproval, Moves, Throws, TaskType, SameCall
  <2>2. CASE ToolRaises(s)
    BY <1>1, <2>2 DEF ToolRaises, Throws, TaskType, SameCall
  <2>3. CASE ReportUsage(s)
    BY <1>1, <2>3 DEF ReportUsage, TaskType, SameCall
  <2>4. CASE EmitFailed(s)
    BY <1>1, <2>4 DEF EmitFailed, Moves, TaskType, SameCall
  <2>5. CASE FinishSucceeded(s) \/ FinishFailed(s)
    <3>1. PICK status \in Statuses :
            /\ task' = [task EXCEPT ![s].pc = "done", ![s].status = status]
            /\ status = "success" => task[s].pc = "finishing"
      BY <2>5 DEF FinishSucceeded, FinishFailed, Finishes, Statuses
    <3>2. QED
      BY <1>1, <3>1 DEF Statuses, TaskType, SameCall
  <2>6. QED
    BY <2>1, <2>2, <2>3, <2>4, <2>5
<1>5. RecordHolds(s, task'[s], journal')
  BY <1>1, <1>2, <1>3, <1>4 DEF RecordHolds, SameCall, Kept
<1>6. QED
  BY <1>2, <1>3, <1>4, <1>5 DEF ThreadWrites, Kept, OnlyStep

LEMMA EmitSucceededWrites ==
  ASSUME IInv, Polls, NEW s \in DOMAIN task, EmitSucceeded(s)
  PROVE  ThreadWrites(s)
<1>1. /\ task[s] \in TaskType /\ RecordHolds(s, task[s], journal)
      /\ task[s].pc = "returned" /\ task' = [task EXCEPT ![s].pc = "usage"]
      /\ journal' = OnToolSucceeded(journal, s, task[s].output) /\ UNCHANGED <<main, pc>>
  BY ThreadFacts DEF Polls, OutputsBooked, EmitSucceeded, Moves
<1>2. /\ task' = [task EXCEPT ![s] = task'[s]] /\ SameCall(task'[s], task[s])
      /\ task'[s].pc = "usage" /\ task'[s].output = task[s].output
  BY <1>1 DEF TaskType, SameCall
<1>3. /\ s \in DOMAIN journal.steps /\ JournalTyped(journal)
      /\ journal.steps[s] \in StepRecordType /\ task[s].output \in Maybe(Values)
  BY <1>1, ThreadFacts DEF JournalTyped, TaskType
<1>4. /\ OnlyStep(journal, journal', s) /\ journal'.steps[s].tool = journal.steps[s].tool
      /\ journal'.steps[s].output = task[s].output
  <2> DEFINE v == task[s].output
  <2>1. PICK k : k = OnToolSucceeded(journal, s, v)
    OBVIOUS
  <2>2. OnlyStep(journal, k, s) /\ k.steps[s] = [journal.steps[s] EXCEPT !.output = v]
    BY <1>3, <2>1, StepHandlers
  <2> HIDE DEF v
  <2>3. QED
    BY <1>1, <1>3, <2>1, <2>2 DEF StepRecordType, v
<1>5. QED
  BY <1>1, <1>2, <1>4 DEF ThreadWrites, RecordHolds, SameCall, OnlyStep

LEMMA RunToolKeepsPolls ==
  ASSUME IInv, Books, Polls, NEW s \in DOMAIN task, RunTool(s)
  PROVE  Polls'
<1>1. ThreadWrites(s)
  BY SilentStepsWrite, StartStepWrites, ReportsWrite, EmitSucceededWrites DEF RunTool
<1>2. QED
  BY <1>1, ThreadWritesKeepsPolls

-----------------------------------------------------------------------------
(* Steps of the main thread keep the polls.                                *)

(* The threads there are stay, and the new ones begin behind them.         *)
ThreadsJoin ==
  /\ \A s \in DOMAIN task : s \in DOMAIN task' /\ task'[s] = task[s]
  /\ \A s \in DOMAIN task' \ DOMAIN task :
       nextStepId <= s /\ task'[s].entry = entry /\ task'[s].pc = "assigned"

NewJustified ==
  \A s \in DOMAIN journal'.steps \ DOMAIN journal.steps : Justified(s, journal.steps[s])'

LEMMA MainStepKeepsPolls ==
  ASSUME IInv, Books, Polls, RecordsStay, NoThread, ThreadsJoin, NewJustified, steps' = steps
  PROVE  /\ OutputsBooked' /\ VerdictsBooked'
         /\ groupOutputs' = groupOutputs
              /\ (entry' = entry \/ (entry' = entry + 1 /\ steps[entry].kind # "parallel"))
              => GroupsPolled'
<1>1. ThreadsStay
  BY DEF ThreadsStay, ThreadsJoin
<1>2. OutputsBooked'
  <2> SUFFICES ASSUME NEW s \in DOMAIN task, task'[s] = task[s]
               PROVE  RecordHolds(s, task[s], journal')
    BY DEF OutputsBooked, ThreadsJoin, RecordHolds
  <2>1. RecordHolds(s, task[s], journal) /\ task[s].pc = "done"
    BY DEF Polls, OutputsBooked, NoThread
  <2>2. s \in DOMAIN journal.steps /\ journal.steps[s].status # Nothing
    BY <2>1, ReturnedFacts, NothingIsNew DEF Books, ThreadsBooked, RecordFits
  <2>3. QED
    BY <2>1, <2>2 DEF RecordsStay, RecordHolds
<1>3. VerdictsBooked'
  <2>1. \A s \in DOMAIN journal.steps \ DOMAIN task : journal.steps[s].status # Nothing
    BY NothingIsNew DEF Books, StepsBooked
  <2>2. QED
    BY <1>1, <2>1, VerdictsStay DEF RecordsStay, NewJustified
<1>4. QED
  BY <1>1, <1>2, <1>3, GroupsStay

(* The main thread goes on, to an entry or within it, and neither polls    *)
(* nor closes a parallel group.                                            *)
LEMMA QuietStepKeepsPolls ==
  ASSUME IInv, Books, Polls, RecordsStay, NoThread, ThreadsJoin, NewJustified, steps' = steps,
         groupOutputs' = groupOutputs, pc' \notin {"fanin", "reduce"},
         entry' = entry \/ (entry' = entry + 1 /\ steps[entry].kind # "parallel"),
         pc' = "step" => Current.kind = "step" /\ entry' = entry,
         pc' = "fallback" => Current.kind \in {"consensus", "reuse"} /\ entry' = entry
  PROVE  Polls'
<1>1. OutputsBooked' /\ VerdictsBooked' /\ GroupsPolled'
  BY MainStepKeepsPolls
<1>2. Placed' /\ Seated' /\ BallotPolled'
  BY DEF Placed, Seated, BallotPolled, Current
<1>3. QED
  BY <1>1, <1>2 DEF Polls

LEMMA EndEntryMoves ==
  ASSUME NEW st, NEW v, EndEntry(st, v)
  PROVE  /\ pc' \in {"next", "finish"}
         /\ (entry' = entry /\ pc' = "finish") \/ (entry' = entry + 1 /\ st # "failed")
BY DEF EndEntry, Stop

(* The steps that write no record and start no thread.                     *)
LEMMA SilentMainStepsKeepPolls ==
  ASSUME IInv, Books, Polls, RecordsStay,
         \/ StopForRuntime \/ StopForCost \/ RejectCheckpoint \/ EndStep
         \/ EndVotersFailed \/ EndFallback \/ FinishWorkflow
  PROVE  Polls'
<1>1. NoThread
  <2>1. CASE StopForRuntime \/ StopForCost \/ RejectCheckpoint \/ FinishWorkflow
    BY <2>1, NoThreadBetweenEntries
       DEF StopForRuntime, StopForCost, RejectCheckpoint, MayEnter, FinishWorkflow
  <2>2. CASE EndStep \/ EndFallback
    BY <2>2, NoThreadAfterStep DEF EndStep, EndFallback
  <2>3. CASE EndVotersFailed
    BY <2>3, NoThreadAfterGroup DEF EndVotersFailed
  <2>4. QED
    BY <2>1, <2>2, <2>3
<1>2. /\ UNCHANGED <<steps, task, groupOutputs>> /\ pc' \notin {"fanin", "reduce", "step", "fallback"}
      /\ entry' = entry \/ (entry' = entry + 1 /\ steps[entry].kind # "parallel")
  <2>1. CASE StopForRuntime \/ StopForCost \/ EndVotersFailed
    BY <2>1 DEF StopForRuntime, StopForCost, EndVotersFailed, Stop
  <2>2. CASE RejectCheckpoint \/ FinishWorkflow
    BY <2>2 DEF RejectCheckpoint, FinishWorkflow, main
  <2>3. CASE EndStep
    <3>1. pc = "step" /\ Current.kind = "step"
      BY <2>3 DEF EndStep, Polls, Placed
    <3>2. \/ EndEntry(task[nextStepId - 1].status, task[nextStepId - 1].output)
          \/ pc' = "raised" /\ entry' = entry
      BY <2>3 DEF EndStep
    <3>3. QED
      BY <2>3, <3>1, <3>2, EndEntryMoves DEF EndStep, Current
  <2>4. CASE EndFallback
    <3>1. pc = "fallback" /\ Current.kind \in {"consensus", "reuse"}
      BY <2>4 DEF EndFallback, Polls, Placed
    <3>2. EndEntry(FallbackStatus, agreed)
      BY <2>4 DEF EndFallback
    <3>3. QED
      BY <2>4, <3>1, <3>2, EndEntryMoves DEF EndFallback, Current
  <2>5. QED
    BY <2>1, <2>2, <2>3, <2>4
<1>3. DOMAIN journal'.steps = DOMAIN journal.steps
  <2>1. CASE StopForRuntime \/ StopForCost \/ RejectCheckpoint \/ EndStep
    BY <2>1 DEF StopForRuntime, StopForCost, RejectCheckpoint, EndStep
  <2>2. CASE EndVotersFailed
    BY <2>2, MainFacts, GroupHandlers DEF EndVotersFailed, Statuses
  <2>3. CASE EndFallback
    <3>1. FallbackStatus \in Statuses
      BY <2>3, ReturnedFacts DEF EndFallback, FallbackStatus, IInv, MainOK, TasksOf
    <3>2. QED
      BY <2>3, <3>1, MainFacts, GroupHandlers DEF EndFallback
  <2>4. CASE FinishWorkflow
    BY <2>4, MainFacts, GroupHandlers DEF FinishWorkflow
  <2>5. QED
    BY <2>1, <2>2, <2>3, <2>4
<1>4. ThreadsJoin /\ NewJustified
  BY <1>2, <1>3 DEF ThreadsJoin, NewJustified
<1>5. QED
  BY <1>1, <1>2, <1>4, QuietStepKeepsPolls

LEMMA ReplayStepKeepsPolls ==
  ASSUME IInv, Books, Polls, RecordsStay, ReplayStep
  PROVE  Polls'
<1> DEFINE tool == Current.tools[1]
           v == checkpoint[entry].output
           started == OnStepStarted(journal, nextStepId, tool, Nothing, TRUE)
           succeeded == OnToolSucceeded(started, nextStepId, v)
           k == OnStepFinished(succeeded, nextStepId, "success")
<1>1. /\ journal' = k /\ EndEntry("success", v) /\ pc = "next" /\ Current.kind = "step"
      /\ entry \in DOMAIN steps /\ entry \in DOMAIN checkpoint
      /\ UNCHANGED <<steps, task, groupOutputs>>
  BY DEF ReplayStep, MayEnter, Recorded
<1>2. /\ tool \in Tools /\ tool \in ToolNames /\ v \in Maybe(Values)
      /\ nextStepId \in Nat \ {0} /\ Nothing \in Maybe(Nat) /\ "success" \in Maybe(Statuses)
  <2>1. CheckpointType(checkpoint) /\ nextStepId \in Nat \ {0}
    BY MainFacts
  <2>2. Current.tools \in Seq(Tools) /\ Current.tools # << >>
    BY <1>1, CurrentType
  <2>3. QED
    BY <1>1, <2>1, <2>2, ToolAssumption DEF Maybe, Statuses, CheckpointType
<1> HIDE DEF tool, v
<1>3. /\ JournalTyped(started) /\ nextStepId \in DOMAIN started.steps
      /\ DOMAIN started.steps \subseteq DOMAIN journal.steps \cup {nextStepId}
      /\ started.steps[nextStepId].tool = tool /\ started.steps[nextStepId].group = Nothing
  <2>1. OnlyStep(journal, started, nextStepId)
    BY <1>2, MainFacts, StartedJournal
  <2>2. started.steps[nextStepId] = NewStep(tool, Nothing, TRUE)
    BY DEF OnStepStarted, Put
  <2> HIDE DEF started
  <2>3. QED
    BY <2>1, <2>2 DEF OnlyStep, NewStep
<1> HIDE DEF started
<1>4. /\ JournalTyped(succeeded) /\ nextStepId \in DOMAIN succeeded.steps
      /\ DOMAIN succeeded.steps \subseteq DOMAIN journal.steps \cup {nextStepId}
      /\ succeeded.steps[nextStepId].tool = tool /\ succeeded.steps[nextStepId].group = Nothing
  <2>1. /\ OnlyStep(started, succeeded, nextStepId)
        /\ succeeded.steps[nextStepId] = [started.steps[nextStepId] EXCEPT !.output = v]
    BY <1>2, <1>3, StepHandlers
  <2>2. started.steps[nextStepId] \in StepRecordType
    BY <1>3 DEF JournalTyped
  <2> HIDE DEF succeeded
  <2>3. QED
    BY <1>3, <2>1, <2>2 DEF OnlyStep, StepRecordType
<1> HIDE DEF succeeded
<1>5. /\ DOMAIN k.steps \subseteq DOMAIN journal.steps \cup {nextStepId}
      /\ k.steps[nextStepId].tool = tool /\ k.steps[nextStepId].group = Nothing
  <2>1. /\ OnlyStep(succeeded, k, nextStepId)
        /\ k.steps[nextStepId] = [succeeded.steps[nextStepId] EXCEPT !.status = "success"]
    BY <1>2, <1>4, StepHandlers
  <2>2. succeeded.steps[nextStepId] \in StepRecordType
    BY <1>4 DEF JournalTyped
  <2> HIDE DEF k
  <2>3. QED
    BY <1>4, <2>1, <2>2 DEF OnlyStep, StepRecordType
<1> HIDE DEF k
<1>6. NoThread
  BY <1>1, NoThreadBetweenEntries
<1>7. ThreadsJoin /\ NewJustified
  BY <1>1, <1>2, <1>5 DEF ThreadsJoin, NewJustified, Justified
<1>8. QED
  BY <1>1, <1>6, <1>7, EndEntryMoves, QuietStepKeepsPolls DEF Current

(* The threads that Assign adds run the tools given, in their order.       *)
LEMMA AssignedInOrder ==
  ASSUME IInv, NEW first \in Nat, nextStepId <= first, NEW given, Len(given) \in Nat,
         NEW group, task' = Assign(first, given, group)
  PROVE  /\ ThreadsJoin
         /\ DOMAIN task' = DOMAIN task \cup first .. first + Len(given) - 1
         /\ \A s \in first .. first + Len(given) - 1 :
              task'[s].entry = entry /\ task'[s].tool = given[s - first + 1]
<1>1. \A s \in DOMAIN task : s \in Nat /\ s < nextStepId
  BY DEF IInv, TypeOK, TasksTyped, TasksOK
<1>2. nextStepId \in Nat
  BY MainFacts
<1>3. /\ DOMAIN task' = DOMAIN task \cup first .. first + Len(given) - 1
      /\ \A s \in DOMAIN task' :
           task'[s] = IF s >= first THEN NewTask(given[s - first + 1], Current.agent, entry, group)
                      ELSE task[s]
  BY DEF Assign
<1>4. \A s \in first .. first + Len(given) - 1 : s \in DOMAIN task' /\ s >= first /\ nextStepId <= s
  BY <1>2, <1>3
<1>5. ASSUME NEW s \in first .. first + Len(given) - 1
      PROVE  /\ task'[s].entry = entry /\ task'[s].tool = given[s - first + 1]
             /\ task'[s].pc = "assigned"
  <2>1. task'[s] = NewTask(given[s - first + 1], Current.agent, entry, group)
    BY <1>3, <1>4
  <2>2. QED
    BY <2>1 DEF NewTask
<1>6. \A s \in DOMAIN task : s \in DOMAIN task' /\ task'[s] = task[s]
  BY <1>1, <1>2, <1>3
<1>7. QED
  BY <1>3, <1>4, <1>5, <1>6 DEF ThreadsJoin

LEMMA BeginStepKeepsPolls ==
  ASSUME IInv, Books, Polls, RecordsStay, BeginStep
  PROVE  Polls'
<1>1. /\ pc = "next" /\ Current.kind = "step" /\ pc' = "step" /\ entry \in DOMAIN steps
      /\ task' = Assign(nextStepId, Current.tools, Nothing)
      /\ UNCHANGED <<steps, entry, groupOutputs, journal>>
  BY DEF BeginStep, MayEnter
<1>2. nextStepId \in Nat /\ nextStepId <= nextStepId /\ Len(Current.tools) \in Nat
  BY <1>1, MainFacts, CurrentType
<1>3. ThreadsJoin
  BY <1>1, <1>2, AssignedInOrder
<1>4. NoThread /\ NewJustified
  BY <1>1, NoThreadBetweenEntries DEF NewJustified
<1>5. QED
  BY <1>1, <1>3, <1>4, QuietStepKeepsPolls

LEMMA BeginGroupKeepsPolls ==
  ASSUME IInv, Books, Polls, RecordsStay, BeginGroup
  PROVE  Polls'
<1> DEFINE n == Len(Current.tools)
<1>1. /\ pc = "next" /\ Current.kind \in {"parallel", "consensus"} /\ pc' = "fanin"
      /\ entry \in DOMAIN steps /\ journal' = OnGroupStarted(journal, entry, Current.kind)
      /\ task' = Assign(nextStepId, Current.tools, entry) /\ nextStepId' = nextStepId + n
      /\ UNCHANGED <<steps, entry, groupOutputs>>
  BY DEF BeginGroup, MayEnter
<1>2. nextStepId \in Nat \ {0} /\ nextStepId <= nextStepId /\ n \in Nat
  BY <1>1, MainFacts, CurrentType
<1>3. /\ ThreadsJoin /\ DOMAIN task' = DOMAIN task \cup nextStepId .. nextStepId + n - 1
      /\ \A s \in nextStepId .. nextStepId + n - 1 :
           task'[s].entry = entry /\ task'[s].tool = Current.tools[s - nextStepId + 1]
  BY <1>1, <1>2, AssignedInOrder
<1>4. NoThread /\ NewJustified
  <2>1. journal'.steps = journal.steps
    BY <1>1, MainFacts, GroupHandlers
  <2>2. QED
    BY <1>1, <2>1, NoThreadBetweenEntries DEF NewJustified
<1>5. OutputsBooked' /\ VerdictsBooked' /\ GroupsPolled'
  BY <1>1, <1>3, <1>4, MainStepKeepsPolls
<1>6. TasksOf(entry)' = nextStepId .. nextStepId + n - 1
  <2>1. \A s \in DOMAIN task : task[s].entry # entry
    BY <1>1 DEF Books, ThreadsBooked, Reached
  <2>2. QED
    BY <1>1, <1>3, <2>1 DEF ThreadsJoin, TasksOf
<1>7. Current' = Current
  BY <1>1 DEF Current
<1>8. nextStepId' - n = nextStepId /\ nextStepId' - 1 = nextStepId + n - 1
  BY <1>1, <1>2
<1>9. Seated'
  BY <1>1, <1>2, <1>3, <1>6, <1>7, <1>8 DEF Seated
<1>10. Placed' /\ BallotPolled'
  BY <1>1, <1>7 DEF Placed, BallotPolled
<1>11. QED
  BY <1>5, <1>9, <1>10 DEF Polls

(* At fan-in, when all members have succeeded, AssignedOutputs holds what  *)
(* they put out, in tool order.                                            *)
LEMMA FanInPolls ==
  ASSUME IInv, Polls, pc = "fanin", AllDone, GroupStatus = "success"
  PROVE  Polled(Current.tools, task, TasksOf(entry), AssignedOutputs)
<1> DEFINE n == Len(Current.tools)
           first == nextStepId - n
           b == AssignedOutputs
<1>1. nextStepId \in Nat \ {0} /\ n \in Nat
  BY MainFacts, CurrentType
<1>2. /\ first \in Nat \ {0} /\ TasksOf(entry) = first .. nextStepId - 1
      /\ \A s \in TasksOf(entry) : task[s].tool = Current.tools[s - first + 1]
  BY DEF Polls, Seated
<1>3. first + n - 1 = nextStepId - 1 /\ first \in Nat
  BY <1>1, <1>2
<1>4. Len(b) = n /\ \A i \in 1 .. n : b[i] = task[first + i - 1].output
  <2>1. b = [i \in 1 .. n |-> task[nextStepId - n + i - 1].output]
    BY DEF AssignedOutputs
  <2>2. first = nextStepId - n
    OBVIOUS
  <2> HIDE DEF first, n, b
  <2>3. Len(b) = n
    BY <1>1, <2>1
  <2>4. \A i \in 1 .. n : b[i] = task[nextStepId - n + i - 1].output
    BY <2>1
  <2>5. QED
    BY <2>2, <2>3, <2>4
<1> HIDE DEF first, n, b
<1>5. ASSUME NEW s \in TasksOf(entry)
      PROVE  /\ s \in DOMAIN task /\ task[s].pc = "done" /\ task[s].status = "success"
             /\ task[s].tool = Current.tools[s - first + 1] /\ task[s].output = b[s - first + 1]
  <2>1. s \in DOMAIN task /\ task[s].pc = "done" /\ task[s].status # "failed"
    BY DEF AllDone, GroupStatus, TasksOf
  <2>2. task[s].status = "success"
    BY <2>1, ReturnedFacts DEF Statuses
  <2>3. s \in first .. first + n - 1
    BY <1>2, <1>3
  <2>4. s - first + 1 \in 1 .. n /\ first + (s - first + 1) - 1 = s
    BY <1>1, <1>3, <2>3
  <2>5. task[s].output = b[s - first + 1]
    BY <1>4, <2>4
  <2>6. QED
    BY <1>2, <2>1, <2>2, <2>5
<1>6. Polled(Current.tools, task, TasksOf(entry), b)
  <2>1. Len(b) = Len(Current.tools) /\ TasksOf(entry) = first .. first + Len(Current.tools) - 1
    BY <1>2, <1>3, <1>4 DEF n
  <2>2. QED
    BY <1>2, <1>5, <2>1 DEF Polled
<1>7. QED
  BY <1>6 DEF b

LEMMA EndParallelKeepsPolls ==
  ASSUME IInv, Books, Polls, RecordsStay, EndParallel
  PROVE  Polls'
<1>1. /\ pc = "fanin" /\ AllDone /\ Current.kind = "parallel"
      /\ journal' = OnGroupFinished(journal, entry, GroupStatus)
      /\ EndEntry(GroupStatus, Nothing) /\ UNCHANGED <<steps, task>>
      /\ groupOutputs' = IF GroupStatus = "success"
                         THEN Put(groupOutputs, entry, AssignedOutputs) ELSE groupOutputs
  BY DEF EndParallel
<1>2. NoThread
  BY <1>1, NoThreadAfterGroup
<1>3. GroupStatus \in Statuses /\ pc' \in {"next", "finish"}
  BY <1>1, EndEntryMoves DEF GroupStatus, Statuses
<1>4. ThreadsJoin /\ NewJustified
  <2>1. journal'.steps = journal.steps
    BY <1>1, <1>3, MainFacts, GroupHandlers
  <2>2. QED
    BY <1>1, <2>1 DEF ThreadsJoin, NewJustified
<1>5. OutputsBooked' /\ VerdictsBooked'
  BY <1>1, <1>2, <1>4, MainStepKeepsPolls
<1>6. GroupsPolled'
  <2>1. CASE GroupStatus = "failed"
    <3>1. groupOutputs' = groupOutputs /\ entry' = entry
      BY <1>1, <2>1, EndEntryMoves
    <3>2. QED
      BY <1>1, <1>2, <1>4, <3>1, MainStepKeepsPolls
  <2>2. CASE GroupStatus = "success"
    <3>1. /\ entry' = entry + 1 /\ entry \in Nat \ {0}
          /\ groupOutputs' = Put(groupOutputs, entry, AssignedOutputs)
      BY <1>1, <2>2, MainFacts DEF EndEntry
    <3>2. /\ DOMAIN groupOutputs' = DOMAIN groupOutputs \cup {entry}
          /\ groupOutputs'[entry] = AssignedOutputs
          /\ \A e \in DOMAIN groupOutputs \ {entry} : groupOutputs'[e] = groupOutputs[e]
      BY <3>1 DEF Put
    <3>3. \A e : TasksOf(e)' = TasksOf(e)
      BY <1>1 DEF TasksOf
    <3>4. ASSUME NEW e \in DOMAIN groupOutputs'
          PROVE  /\ e \in 1 .. entry' - 1
                 /\ Polled(steps[e].tools, task, TasksOf(e), groupOutputs'[e])
      <4>1. CASE e = entry
        <5>1. Polled(Current.tools, task, TasksOf(entry), AssignedOutputs)
          BY <1>1, <2>2, FanInPolls
        <5>2. QED
          BY <3>1, <3>2, <4>1, <5>1 DEF Current
      <4>2. CASE e # entry
        BY <3>1, <3>2, <4>2 DEF Polls, GroupsPolled
      <4>3. QED
        BY <4>1, <4>2
    <3>5. \A e \in 1 .. entry' - 1 : steps[e].kind = "parallel" => e \in DOMAIN groupOutputs'
      <4>1. 1 .. entry' - 1 = (1 .. entry - 1) \cup {entry}
        BY <3>1
      <4>2. QED
        BY <3>2, <4>1 DEF Polls, GroupsPolled
    <3>6. QED
      BY <1>1, <3>3, <3>4, <3>5 DEF GroupsPolled
  <2>3. QED
    BY <1>3, <2>1, <2>2 DEF Statuses
<1>7. Placed' /\ Seated' /\ BallotPolled'
  BY <1>3 DEF Placed, Seated, BallotPolled
<1>8. QED
  BY <1>5, <1>6, <1>7 DEF Polls

LEMMA EndVotersKeepsPolls ==
  ASSUME IInv, Books, Polls, RecordsStay, EndVoters
  PROVE  Polls'
<1>1. /\ pc = "fanin" /\ AllDone /\ GroupStatus = "success" /\ Current.kind = "consensus"
      /\ ballot' = AssignedOutputs /\ pc' = "reduce"
      /\ UNCHANGED <<steps, entry, task, groupOutputs, journal>>
  BY DEF EndVoters
<1>2. NoThread
  BY <1>1, NoThreadAfterGroup
<1>3. ThreadsJoin /\ NewJustified
  BY <1>1 DEF ThreadsJoin, NewJustified
<1>4. OutputsBooked' /\ VerdictsBooked' /\ GroupsPolled'
  BY <1>1, <1>2, <1>3, MainStepKeepsPolls
<1>5. Origin(entry) = entry
  BY <1>1 DEF Origin, Current
<1>6. Polled(Current.tools, task, TasksOf(Origin(entry)), AssignedOutputs)
  BY <1>1, <1>5, FanInPolls
<1>7. Placed' /\ Seated'
  BY <1>1 DEF Placed, Seated, Current
<1>8. BallotPolled'
  BY <1>1, <1>6 DEF BallotPolled, Current, Origin, TasksOf
<1>9. QED
  BY <1>4, <1>7, <1>8 DEF Polls

(* A reuse group stands behind a parallel group of the same tools, which   *)
(* has been passed: its outputs are always at hand.                        *)
LEMMA SourcePolled ==
  ASSUME IInv, Polls, entry \in DOMAIN steps, Current.kind = "reuse"
  PROVE  /\ Current.source \in DOMAIN groupOutputs
         /\ Current.tools = steps[Current.source].tools
         /\ Polled(Current.tools, task, TasksOf(Current.source), groupOutputs[Current.source])
<1>1. /\ Current.source \in 1 .. entry - 1 /\ steps[Current.source].kind = "parallel"
      /\ Current.tools = steps[Current.source].tools
  BY MainFacts, WorkflowAssumption DEF WellFormed, Current
<1>2. QED
  BY <1>1 DEF Polls, GroupsPolled

LEMMA BeginReuseKeepsPolls ==
  ASSUME IInv, Books, Polls, RecordsStay, BeginReuse
  PROVE  Polls'
<1>1. pc = "next" /\ entry \in DOMAIN steps /\ Current.kind = "reuse"
  BY DEF BeginReuse, MayEnter
<1>2. /\ Current.source \in DOMAIN groupOutputs
      /\ Polled(Current.tools, task, TasksOf(Current.source), groupOutputs[Current.source])
  BY <1>1, SourcePolled
<1>3. /\ ballot' = groupOutputs[Current.source] /\ pc' = "reduce"
      /\ journal' = OnGroupStarted(journal, entry, "consensus")
      /\ UNCHANGED <<steps, entry, task, groupOutputs>>
  BY <1>2 DEF BeginReuse
<1>4. NoThread
  BY <1>1, NoThreadBetweenEntries
<1>5. ThreadsJoin /\ NewJustified
  <2>1. journal'.steps = journal.steps
    BY <1>3, MainFacts, GroupHandlers
  <2>2. QED
    BY <1>3, <2>1 DEF ThreadsJoin, NewJustified
<1>6. OutputsBooked' /\ VerdictsBooked' /\ GroupsPolled'
  BY <1>3, <1>4, <1>5, MainStepKeepsPolls
<1>7. Placed' /\ Seated'
  BY <1>1, <1>3 DEF Placed, Seated, Current
<1>8. Origin(entry) = Current.source
  BY <1>1 DEF Origin, Current
<1>9. BallotPolled'
  BY <1>2, <1>3, <1>8 DEF BallotPolled, Current, Origin, TasksOf
<1>10. QED
  BY <1>6, <1>7, <1>9 DEF Polls

(* A verdict of a built-in strategy is what the ballot makes it.           *)
LEMMA VerdictWins ==
  ASSUME IInv, pc = "reduce", NEW verdict \in Verdicts
  PROVE  Wins(Current.strategy, ballot, verdict[1])
<1>1. CASE Current.strategy = "majority"
  BY <1>1 DEF Verdicts, Wins
<1>2. CASE Current.strategy = "unanimous"
  BY <1>2 DEF Verdicts, Wins
<1>3. CASE Current.strategy \notin {"majority", "unanimous"}
  BY <1>3 DEF Wins
<1>4. QED
  BY <1>1, <1>2, <1>3

(* The record of the synthetic step, if it holds a verdict on the ballot.  *)
LEMMA VerdictJustified ==
  ASSUME IInv, Books, Polls, pc = "reduce", ThreadsJoin, steps' = steps, NEW n, n = nextStepId,
         \A s \in DOMAIN task' \ DOMAIN task : n < s,
         NEW r, r.group = entry, NEW verdict \in Verdicts, r.output = verdict[1]
  PROVE  Justified(n, r)'
<1>1. /\ entry \in DOMAIN steps /\ entry # Nothing /\ n \in Nat \ {0}
      /\ ballot \in Seq(Values) /\ Wins(steps[entry].strategy, ballot, r.output)
  BY MainFacts, FreshIds, VerdictWins DEF Current
<1>2. Polled(steps[entry].tools, task, TasksOf(Origin(entry)), ballot)
  BY DEF Polls, BallotPolled, Current
<1>3. ballot # << >>
  BY DEF IInv, MainOK
<1>4. PICK o : o = Origin(entry)
  OBVIOUS
<1>5. TasksOf(o)' \cap 1 .. n = TasksOf(o)
  <2>1. \A s \in DOMAIN task : s \in Nat \ {0} /\ s < n
    BY DEF IInv, TypeOK, TasksTyped, TasksOK
  <2>2. \A s \in DOMAIN task : s \in 1 .. n /\ s \in DOMAIN task' /\ task'[s] = task[s]
    BY <1>1, <2>1 DEF ThreadsJoin
  <2>3. \A s \in DOMAIN task' \ DOMAIN task : s \notin 1 .. n
    BY <1>1
  <2>4. QED
    BY <2>2, <2>3 DEF TasksOf
<1>6. Polled(steps[entry].tools, task', TasksOf(o), ballot)
  <2>1. \A s \in TasksOf(o) : s \in DOMAIN task' /\ task'[s] = task[s]
    BY DEF TasksOf, ThreadsJoin
  <2>2. QED
    BY <1>2, <1>4, <2>1, PolledStays
<1>7. TasksOf(Origin(r.group))' \cap 1 .. n = TasksOf(o)
  <2>1. Origin(r.group)' = o
    BY <1>4 DEF Origin
  <2>2. TasksOf(Origin(r.group))' = TasksOf(o)'
    BY <2>1 DEF TasksOf
  <2>3. QED
    BY <1>5, <2>2
<1>8. PICK b \in Seq(Values) \ {<< >>} :
        /\ Polled(steps[entry].tools, task', TasksOf(o), b)
        /\ Wins(steps[entry].strategy, b, r.output)
  BY <1>1, <1>3, <1>6
<1>9. QED
  BY <1>1, <1>7, <1>8 DEF Justified

(* k is j with the record of step s added: the group's synthetic step.     *)
Says(j, k, s, output, error) ==
  /\ DOMAIN k.steps \subseteq DOMAIN j.steps \cup {s}
  /\ k.steps[s].group = entry
  /\ error = Nothing => k.steps[s].output = output
  /\ k.steps[s].status = IF error = Nothing THEN "success" ELSE "failed"

LEMMA SyntheticSays ==
  ASSUME NEW j, JournalTyped(j), Grouped(j), NEW s \in Nat \ {0}, s \notin DOMAIN j.steps,
         entry \in DOMAIN j.groups, NEW output \in Maybe(Values), NEW error \in Maybe(Errors),
         NEW confidence \in Maybe(Nat)
  PROVE  Says(j, RecordSynthetic(j, s, output, error, confidence), s, output, error)
<1>0. PICK k : k = RecordSynthetic(j, s, output, error, confidence)
  OBVIOUS
<1>1. PICK st : st = IF error = Nothing THEN "success" ELSE "failed"
  OBVIOUS
<1>2. Adds(j, k, s, entry, st)
  BY <1>0, <1>1, SyntheticAdds
<1>3. ASSUME error = Nothing
      PROVE  k.steps[s].output = output
  <2> DEFINE started == OnStepStarted(j, s, Synthetic, entry, FALSE)
  <2>1. OnlyStep(j, started, s)
    <3>1. Synthetic \in ToolNames /\ entry \in Maybe(Nat) /\ FALSE \in BOOLEAN
      BY ToolAssumption DEF Maybe, JournalTyped
    <3>2. QED
      BY <3>1, StartedJournal
  <2> HIDE DEF started
  <2> DEFINE noted == IF confidence = Nothing THEN started
                      ELSE OnStrategyMetadataReported(started, s, confidence)
             answered == OnToolSucceeded(noted, s, output)
  <2>2. JournalTyped(noted) /\ s \in DOMAIN noted.steps
    <3>1. JournalTyped(started) /\ s \in DOMAIN started.steps
      BY <2>1 DEF OnlyStep
    <3>2. OnlyStep(started, OnStrategyMetadataReported(started, s, confidence), s)
      BY <3>1, StepHandlers
    <3>3. QED
      BY <3>1, <3>2 DEF OnlyStep
  <2>3. k = OnStepFinished(answered, s, "success")
    BY <1>0, <1>3 DEF RecordSynthetic, started
  <2> HIDE DEF noted
  <2>4. PICK l : l = answered
    OBVIOUS
  <2>5. JournalTyped(l) /\ s \in DOMAIN l.steps /\ l.steps[s].output = output
    <3>1. OnlyStep(noted, l, s) /\ l.steps[s] = [noted.steps[s] EXCEPT !.output = output]
      BY <2>2, <2>4, StepHandlers
    <3>2. noted.steps[s] \in StepRecordType
      BY <2>2 DEF JournalTyped
    <3>3. QED
      BY <3>1, <3>2 DEF OnlyStep, StepRecordType
  <2>6. "success" \in Maybe(Statuses)
    BY DEF Maybe, Statuses
  <2>7. k = OnStepFinished(l, s, "success")
    BY <2>3, <2>4
  <2>8. k.steps[s] = [l.steps[s] EXCEPT !.status = "success"]
    BY <2>5, <2>6, <2>7, StepHandlers
  <2>9. l.steps[s] \in StepRecordType
    BY <2>5 DEF JournalTyped
  <2>10. QED
    BY <2>5, <2>8, <2>9 DEF StepRecordType
<1>4. QED
  BY <1>0, <1>1, <1>2, <1>3 DEF Adds, OnlyStep, Says

LEMMA AgreeKeepsPolls ==
  ASSUME IInv, Books, Polls, RecordsStay, Agree
  PROVE  Polls'
<1>1. pc = "reduce" /\ UNCHANGED <<steps, task, groupOutputs>>
  BY DEF Agree
<1>2. PICK verdict \in Verdicts :
        /\ journal' = OnGroupFinished(
                        RecordSynthetic(journal, nextStepId, verdict[1], Nothing, verdict[2]),
                        entry, "success")
        /\ EndEntry("success", verdict[1])
  BY DEF Agree
<1>3. PICK v \in Maybe(Values), confidence \in Maybe(Nat) :
        v = verdict[1] /\ confidence = verdict[2]
  BY <1>1, VerdictsType DEF Maybe
<1>4. PICK n \in Nat \ {0} : n = nextStepId
  BY MainFacts
<1>5. PICK k : k = RecordSynthetic(journal, n, v, Nothing, confidence)
  OBVIOUS
<1>6. /\ n \notin DOMAIN journal.steps /\ JournalTyped(journal) /\ Grouped(journal)
      /\ entry \in DOMAIN journal.groups /\ entry \in Nat \ {0}
  BY <1>1, <1>4, FreshIds, MainFacts DEF Books, OpenBooked, InGroup
<1>7. /\ DOMAIN k.steps \subseteq DOMAIN journal.steps \cup {n}
      /\ k.steps[n].group = entry /\ k.steps[n].output = v
  <2>1. Nothing \in Maybe(Errors)
    BY DEF Maybe
  <2>2. Says(journal, k, n, v, Nothing)
    BY <1>5, <1>6, <2>1, SyntheticSays
  <2>3. QED
    BY <2>2 DEF Says
<1>8. journal'.steps = k.steps
  <2>1. JournalTyped(k)
    <3>1. Nothing \in Maybe(Errors)
      BY DEF Maybe
    <3>2. OnlyStep(journal, k, n)
      BY <1>5, <1>6, <3>1, SyntheticRecorded
    <3>3. QED
      BY <3>2 DEF OnlyStep
  <2>2. journal' = OnGroupFinished(k, entry, "success") /\ "success" \in Statuses
    BY <1>2, <1>3, <1>4, <1>5 DEF Statuses
  <2>3. QED
    BY <1>6, <2>1, <2>2, GroupHandlers
<1>9. ThreadsJoin
  BY <1>1 DEF ThreadsJoin
<1>10. NewJustified
  <2>1. PICK r : r = k.steps[n]
    OBVIOUS
  <2>2. Justified(n, r)'
    BY <1>1, <1>3, <1>4, <1>7, <1>9, <2>1, VerdictJustified
  <2>3. Justified(n, journal.steps[n])'
    BY <1>8, <2>1, <2>2 DEF Justified, Origin, TasksOf
  <2>4. QED
    BY <1>7, <1>8, <2>3 DEF NewJustified
<1>11. NoThread
  BY <1>1, NoThreadBetweenEntries
<1>12. /\ pc' \in {"next", "finish"}
       /\ entry' = entry \/ (entry' = entry + 1 /\ steps[entry].kind # "parallel")
  <2>1. Current.kind \in {"consensus", "reuse"}
    BY <1>1 DEF Polls, Placed
  <2>2. QED
    BY <1>2, <2>1, EndEntryMoves DEF Current
<1>13. QED
  BY <1>1, <1>9, <1>10, <1>11, <1>12, QuietStepKeepsPolls

LEMMA AgreeThenFallBackKeepsPolls ==
  ASSUME IInv, Books, Polls, RecordsStay, AgreeThenFallBack
  PROVE  Polls'
<1>1. /\ pc = "reduce" /\ pc' = "fallback" /\ UNCHANGED <<steps, entry, groupOutputs>>
      /\ task' = Assign(nextStepId + 1, <<Current.fallback>>, entry)
  BY DEF AgreeThenFallBack, FallbackId
<1>2. PICK verdict \in Verdicts :
        journal' = RecordSynthetic(journal, nextStepId, verdict[1], Nothing, verdict[2])
  BY DEF AgreeThenFallBack
<1>3. PICK v \in Maybe(Values), confidence \in Maybe(Nat) :
        v = verdict[1] /\ confidence = verdict[2]
  BY <1>1, VerdictsType DEF Maybe
<1>4. PICK n \in Nat \ {0} : n = nextStepId
  BY MainFacts
<1>5. PICK k : k = RecordSynthetic(journal, n, v, Nothing, confidence)
  OBVIOUS
<1>6. /\ n \notin DOMAIN journal.steps /\ JournalTyped(journal) /\ Grouped(journal)
      /\ entry \in DOMAIN journal.groups
  BY <1>1, <1>4, FreshIds DEF Books, OpenBooked, InGroup
<1>7. /\ DOMAIN k.steps \subseteq DOMAIN journal.steps \cup {n}
      /\ k.steps[n].group = entry /\ k.steps[n].output = v
  <2>1. Nothing \in Maybe(Errors)
    BY DEF Maybe
  <2>2. Says(journal, k, n, v, Nothing)
    BY <1>5, <1>6, <2>1, SyntheticSays
  <2>3. QED
    BY <2>2 DEF Says
<1>8. journal' = k
  BY <1>2, <1>3, <1>4, <1>5
<1>9. ThreadsJoin /\ \A s \in DOMAIN task' \ DOMAIN task : n < s
  <2>1. PICK first \in Nat : first = n + 1
    OBVIOUS
  <2> DEFINE given == <<Current.fallback>>
  <2>2. /\ Len(given) = 1 /\ Len(given) \in Nat /\ nextStepId <= first
        /\ task' = Assign(first, given, entry) /\ n < first
    BY <1>1, <1>4, <2>1
  <2> HIDE DEF given
  <2>3. /\ ThreadsJoin
        /\ DOMAIN task' = DOMAIN task \cup first .. first + Len(given) - 1
    BY <2>2, AssignedInOrder
  <2>4. \A s \in first .. first + Len(given) - 1 : n < s
    BY <2>2
  <2>5. QED
    BY <2>3, <2>4
<1>10. NewJustified
  <2>1. PICK r : r = k.steps[n]
    OBVIOUS
  <2>2. Justified(n, r)'
    BY <1>1, <1>3, <1>4, <1>7, <1>9, <2>1, VerdictJustified
  <2>3. Justified(n, journal.steps[n])'
    BY <1>8, <2>1, <2>2 DEF Justified, Origin, TasksOf
  <2>4. QED
    BY <1>7, <1>8, <2>3 DEF NewJustified
<1>11. NoThread
  BY <1>1, NoThreadBetweenEntries
<1>12. Current.kind \in {"consensus", "reuse"}
  BY <1>1 DEF Polls, Placed
<1>13. QED
  BY <1>1, <1>9, <1>10, <1>11, <1>12, QuietStepKeepsPolls

LEMMA StrategyRaisesKeepsPolls ==
  ASSUME IInv, Books, Polls, RecordsStay, StrategyRaises
  PROVE  Polls'
<1>1. /\ pc = "reduce" /\ UNCHANGED <<steps, entry, task, groupOutputs>> /\ pc' = "finish"
      /\ journal' = OnGroupFinished(
                      RecordSynthetic(journal, nextStepId, Nothing, "raised", Nothing),
                      entry, "failed")
  BY DEF StrategyRaises, Stop
<1>2. PICK n \in Nat \ {0} : n = nextStepId
  BY MainFacts
<1>3. /\ Nothing \in Maybe(Values) /\ "raised" \in Maybe(Errors) /\ Nothing \in Maybe(Nat)
      /\ "failed" \in Statuses /\ "raised" # Nothing
  BY NothingAssumption DEF Maybe, Errors, Statuses
<1>4. PICK k : k = RecordSynthetic(journal, n, Nothing, "raised", Nothing)
  OBVIOUS
<1>5. /\ n \notin DOMAIN journal.steps /\ JournalTyped(journal) /\ Grouped(journal)
      /\ entry \in DOMAIN journal.groups /\ entry \in Nat \ {0} /\ entry # Nothing
  BY <1>1, <1>2, FreshIds, MainFacts DEF Books, OpenBooked, InGroup
<1>6. /\ DOMAIN k.steps \subseteq DOMAIN journal.steps \cup {n}
      /\ k.steps[n].group = entry /\ k.steps[n].status = "failed"
  <2>1. Says(journal, k, n, Nothing, "raised")
    BY <1>3, <1>4, <1>5, SyntheticSays
  <2>2. QED
    BY <1>3, <2>1 DEF Says
<1>7. journal'.steps = k.steps
  <2>1. OnlyStep(journal, k, n)
    BY <1>3, <1>4, <1>5, SyntheticRecorded
  <2>2. JournalTyped(k) /\ journal' = OnGroupFinished(k, entry, "failed")
    BY <1>1, <1>2, <1>4, <2>1 DEF OnlyStep
  <2>3. QED
    BY <1>3, <1>5, <2>2, GroupHandlers
<1>8. ThreadsJoin /\ NewJustified
  BY <1>1, <1>5, <1>6, <1>7 DEF ThreadsJoin, NewJustified, Justified
<1>9. NoThread
  BY <1>1, NoThreadBetweenEntries
<1>10. QED
  BY <1>1, <1>8, <1>9, QuietStepKeepsPolls

LEMMA MainThreadKeepsPolls ==
  ASSUME IInv, Books, Polls, RecordsStay, MainThread
  PROVE  Polls'
<1>1. CASE StopForRuntime \/ StopForCost \/ RejectCheckpoint \/ EndStep
           \/ EndVotersFailed \/ EndFallback \/ FinishWorkflow
  BY <1>1, SilentMainStepsKeepPolls
<1>2. CASE ReplayStep \/ BeginStep \/ BeginGroup \/ EndParallel \/ EndVoters \/ BeginReuse
  BY <1>2, ReplayStepKeepsPolls, BeginStepKeepsPolls, BeginGroupKeepsPolls,
     EndParallelKeepsPolls, EndVotersKeepsPolls, BeginReuseKeepsPolls
<1>3. CASE Agree \/ AgreeThenFallBack \/ StrategyRaises
  BY <1>3, AgreeKeepsPolls, AgreeThenFallBackKeepsPolls, StrategyRaisesKeepsPolls
<1>4. QED
  BY <1>1, <1>2, <1>3 DEF MainThread

LEMMA FreshKeepsPolls == Fresh => Polls
<1> SUFFICES ASSUME Fresh PROVE Polls
  OBVIOUS
<1>1. /\ journal.steps = << >> /\ task = << >> /\ groupOutputs = << >>
      /\ pc = "next" /\ entry = 1 /\ DOMAIN << >> = {} /\ 1 .. entry - 1 = {}
  BY DEF Fresh, EmptyJournal
<1>2. QED
  BY <1>1 DEF Polls, OutputsBooked, Placed, Seated, GroupsPolled, BallotPolled, VerdictsBooked

LEMMA InitKeepsPolls == Init => Polls
BY InitIsFresh, FreshKeepsPolls

LEMMA NextKeepsPolls == IInv /\ Books /\ Polls /\ [Next]_vars => Polls'
<1> SUFFICES ASSUME IInv, Books, Polls, [Next]_vars PROVE Polls'
  OBVIOUS
<1>1. CASE MainThread
  BY <1>1, MainThreadKeepsPolls, MainThreadKeepsBooks
<1>2. CASE \E s \in DOMAIN task : RunTool(s)
  BY <1>2, RunToolKeepsPolls
<1>3. CASE UNCHANGED vars
  <2>1. OutputsBooked' /\ Placed' /\ Seated'
    BY <1>3 DEF vars, Polls, OutputsBooked, RecordHolds, Placed, Seated, TasksOf, Current
  <2>2. GroupsPolled' /\ BallotPolled'
    BY <1>3 DEF vars, Polls, GroupsPolled, BallotPolled, Origin, TasksOf, Current
  <2>3. VerdictsBooked'
    BY <1>3 DEF vars, Polls, VerdictsBooked, Justified, Origin, TasksOf
  <2>4. QED
    BY <2>1, <2>2, <2>3 DEF Polls
<1>4. QED
  BY <1>1, <1>2, <1>3 DEF Next, Step, Terminating

(* The polls are kept throughout every run.                                *)
THEOREM PollsAreKept == Spec => []Polls
BY InitKeepsPolls, NextKeepsPolls, Inductive, BooksAreKept, PTL DEF Spec

-----------------------------------------------------------------------------
(* What follows for the ballots and for the agreed values.                 *)

(* The i-th step of a poll is that of the i-th tool, and its record in the *)
(* journal holds the i-th output of the ballot.                            *)
LEMMA PolledInOrder ==
  ASSUME Polls, NEW e, NEW given, Len(given) \in Nat, NEW b,
         Polled(given, task, TasksOf(e), b), NEW s \in TasksOf(e)
  PROVE  LET i == Cardinality({r \in TasksOf(e) : r <= s})
         IN task[s].tool = given[i] /\ b[i] = journal.steps[s].output
<1> DEFINE i == Cardinality({r \in TasksOf(e) : r <= s})
<1>1. PICK first \in Nat \ {0} :
        /\ TasksOf(e) = first .. first + Len(given) - 1
        /\ \A r \in TasksOf(e) :
             /\ r \in DOMAIN task /\ task[r].pc = "done" /\ task[r].status = "success"
             /\ task[r].tool = given[r - first + 1] /\ task[r].output = b[r - first + 1]
  BY DEF Polled
<1>2. i = s - first + 1
  <2>1. PICK V : V = {r \in TasksOf(e) : r <= s}
    OBVIOUS
  <2>2. first \in Int /\ s \in Int /\ first <= s
    BY <1>1
  <2>3. V = first .. s
    BY <1>1, <2>1, <2>2
  <2>4. Cardinality(V) = s - first + 1
    BY <2>2, <2>3, FS_Interval
  <2>5. QED
    BY <2>1, <2>4, Zenon
<1> HIDE DEF i
<1>3. task[s].output = journal.steps[s].output
  BY <1>1 DEF Polls, OutputsBooked, RecordHolds
<1>4. QED
  BY <1>1, <1>2, <1>3 DEF i

(* scheduler.py:365-366, 419, 463-466: whatever the order in which the     *)
(* threads start and finish, the strategy is given the outputs in the      *)
(* order of the tools, those the journal shows, and a reuse group always   *)
(* finds the outputs of its parallel group.                                *)
THEOREM BallotsAreInToolOrder == Spec => []BallotInToolOrder
<1>1. IInv /\ Polls => BallotInToolOrder
  <2> SUFFICES ASSUME IInv, Polls PROVE BallotInToolOrder
    OBVIOUS
  <2>1. ASSUME pc = "reduce"
        PROVE  LET voted == TasksOf(IF Current.kind = "reuse" THEN Current.source ELSE entry)
               IN /\ Len(ballot) = Len(Current.tools)
                  /\ \A s \in voted :
                       LET i == Cardinality({r \in voted : r <= s})
                       IN /\ task[s].tool = Current.tools[i]
                          /\ ballot[i] = journal.steps[s].output
    <3>1. PICK e : e = IF Current.kind = "reuse" THEN Current.source ELSE entry
      OBVIOUS
    <3>2. Polled(Current.tools, task, TasksOf(e), ballot)
      BY <2>1, <3>1 DEF Polls, BallotPolled, Origin, Current
    <3>3. Len(Current.tools) \in Nat /\ Len(ballot) = Len(Current.tools)
      BY <2>1, <3>2, MainFacts, CurrentType DEF Polled
    <3>4. \A s \in TasksOf(e) :
            LET i == Cardinality({r \in TasksOf(e) : r <= s})
            IN task[s].tool = Current.tools[i] /\ ballot[i] = journal.steps[s].output
      BY <3>2, <3>3, PolledInOrder
    <3>5. QED
      BY <3>1, <3>3, <3>4
  <2>2. (pc = "next" /\ entry \in DOMAIN steps /\ Current.kind = "reuse")
          => Current.source \in DOMAIN groupOutputs
    BY SourcePolled
  <2>3. QED
    BY <2>1, <2>2 DEF BallotInToolOrder
<1>2. QED
  BY <1>1, Inductive, PollsAreKept, PTL

(* The steps of a poll that put out v are the votes for v in its ballot.   *)
LEMMA VotesCounted ==
  ASSUME NEW given, NEW f, NEW V, NEW b \in Seq(Values), Polled(given, f, V, b), NEW v
  PROVE  Cardinality({r \in V : f[r].output = v}) = Votes(b, v)
<1>1. PICK first \in Nat \ {0} :
        /\ V = first .. first + Len(b) - 1
        /\ \A r \in V : f[r].output = b[r - first + 1]
  BY DEF Polled
<1>2. DOMAIN b = 1 .. Len(b) /\ Len(b) \in Nat
  OBVIOUS
<1> DEFINE A == {i \in DOMAIN b : b[i] = v}
           B == {r \in V : f[r].output = v}
           g == [i \in A |-> first + i - 1]
<1>3. IsFiniteSet(A)
  <2>1. IsFiniteSet(1 .. Len(b)) /\ A \in SUBSET (1 .. Len(b))
    BY <1>2, FS_Interval
  <2>2. QED
    BY <2>1, FS_Subset
<1>4. \A i \in A : g[i] \in B
  <2> TAKE i \in A
  <2>1. first + i - 1 \in V /\ (first + i - 1) - first + 1 = i
    BY <1>1, <1>2
  <2>2. QED
    BY <1>1, <2>1
<1>5. \A i \in A, k \in A : g[i] = g[k] => i = k
  BY <1>1, <1>2
<1>6. \A r \in B : \E i \in A : g[i] = r
  <2> TAKE r \in B
  <2>1. PICK i : i = r - first + 1
    OBVIOUS
  <2>2. i \in DOMAIN b /\ first + i - 1 = r
    BY <1>1, <1>2, <2>1
  <2>3. QED
    BY <1>1, <2>1, <2>2
<1>7. ExistsBijection(A, B)
  <2>1. g \in [A -> B]
    BY <1>4
  <2> HIDE DEF A, B, g
  <2>2. g \in Injection(A, B) /\ g \in Surjection(A, B)
    BY <1>5, <1>6, <2>1 DEF Injection, IsInjective, Surjection
  <2>3. QED
    BY <2>2 DEF ExistsBijection, Bijection
<1>8. Cardinality(B) = Cardinality(A)
  <2> HIDE DEF A, B
  <2>1. QED
    BY <1>3, <1>7, FS_Bijection
<1>9. QED
  BY <1>8 DEF Votes

(* consensus.py:60-79: for all votes cast in whatever order, the value a   *)
(* majority group records has strictly more votes than any other, and      *)
(* unanimous voters all gave it.  The step that records it is known by its *)
(* tool name alone, which no tool of the workflow may therefore bear.      *)
THEOREM AgreedValuesWin ==
  ASSUME Synthetic \notin Tools
  PROVE  Spec => []AgreedValueWins
<1>1. IInv /\ Books /\ Polls => AgreedValueWins
  <2> SUFFICES ASSUME IInv, Books, Polls, NEW s \in DOMAIN journal.steps,
                      journal.steps[s].tool = Synthetic, journal.steps[s].status = "success"
               PROVE  LET group == steps[journal.steps[s].group]
                          voted == TasksOf(IF group.kind = "reuse" THEN group.source
                                           ELSE journal.steps[s].group) \cap 1 .. s
                          For(v) == Cardinality({r \in voted : task[r].output = v})
                          won   == journal.steps[s].output
                      IN /\ group.strategy = "majority" =>
                              \A v \in Values \ {won} : For(v) < For(won)
                         /\ group.strategy = "unanimous" => For(won) = Cardinality(voted)
    BY DEF AgreedValueWins
  <2> DEFINE g == journal.steps[s].group
             voted == TasksOf(IF steps[g].kind = "reuse" THEN steps[g].source ELSE g) \cap 1 .. s
             won == journal.steps[s].output
  <2>1. s \notin DOMAIN task
    <3> SUFFICES ASSUME s \in DOMAIN task PROVE FALSE
      OBVIOUS
    <3>1. task[s].pc # "assigned" /\ task[s].tool \in Tools
      BY DEF Books, ThreadsBooked, RecordFits, IInv, TypeOK, TasksTyped, TaskType
    <3>2. QED
      BY <3>1 DEF Polls, OutputsBooked, RecordHolds
  <2>0. g # Nothing
    <3>1. Justified(s, journal.steps[s])
      BY <2>1 DEF Polls, VerdictsBooked
    <3>2. QED
      BY <3>1 DEF Justified
  <2>2. PICK b \in Seq(Values) \ {<< >>} :
          Polled(steps[g].tools, task, voted, b) /\ Wins(steps[g].strategy, b, won)
    <3>1. Justified(s, journal.steps[s])
      BY <2>1 DEF Polls, VerdictsBooked
    <3>2. QED
      BY <2>0, <3>1 DEF Justified, Origin
  <2> HIDE DEF g, voted, won
  <2>3. \A v : Cardinality({r \in voted : task[r].output = v}) = Votes(b, v)
    BY <2>2, VotesCounted
  <2>4. ASSUME steps[g].strategy = "majority", NEW v \in Values \ {won}
        PROVE  Votes(b, v) < Votes(b, won)
    BY <2>2, <2>4, MajorityIsStrict DEF Wins
  <2>5. ASSUME steps[g].strategy = "unanimous"
        PROVE  {r \in voted : task[r].output = won} = voted
    <3>1. \A i \in DOMAIN b : b[i] = won
      BY <2>2, <2>5, UnanimousIsShared DEF Wins
    <3>2. \A r \in voted : task[r].output = won
      <4>1. PICK first \in Nat \ {0} :
              /\ voted = first .. first + Len(b) - 1
              /\ \A r \in voted : task[r].output = b[r - first + 1]
        BY <2>2 DEF Polled
      <4>2. \A r \in voted : r - first + 1 \in DOMAIN b
        BY <4>1
      <4>3. QED
        BY <3>1, <4>1, <4>2
    <3>3. QED
      BY <3>2
  <2>6. QED
    BY <2>3, <2>4, <2>5 DEF g, voted, won
<1>2. QED
  BY <1>1, Inductive, BooksAreKept, PollsAreKept, PTL

==============================================================================
