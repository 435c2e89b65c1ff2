---------------------------- MODULE SessionProofs ----------------------------
(***************************************************************************)
(* Proofs about the two sessions that airpy keeps: a conversation in a     *)
(* memory (Session), and the connection to an MCP server (McpClient, at    *)
(* the end).  Session's are for every set of sessions, every length of a   *)
(* history and any number of turns and restarts.  Two invariants: Sound    *)
(* holds whatever the threads do to the file; Safe holds until an access   *)
(* or a crash falls inside a set(), and says where the turns of each       *)
(* conversation are while another one is being written.                    *)
(***************************************************************************)
EXTENDS Session, McpClient, SequenceTheorems, TLAPS

-----------------------------------------------------------------------------
(* Histories of whole turns.                                               *)

(* h is whole turns in order, the latest of them at most the turn `top`.   *)
Whole(h, top) ==
  /\ h \in Seq(Messages)
  /\ Len(h) % 2 = 0
  /\ \A i \in DOMAIN h : /\ h[i].turn <= top
                         /\ h[i].role = IF i % 2 = 1 THEN "user" ELSE "assistant"
  /\ \A i \in 1 .. Len(h) - 1 : IF i % 2 = 1 THEN h[i + 1].turn = h[i].turn
                                ELSE h[i + 1].turn > h[i].turn

LEMMA NothingIsWhole == ASSUME NEW top PROVE Whole(<< >>, top)
BY DEF Whole

LEMMA WholeHigher ==
  ASSUME NEW h, NEW low \in Int, NEW top \in Int, low <= top, Whole(h, low)
  PROVE  Whole(h, top)
<1>1. \A i \in DOMAIN h : h[i].turn \in Int
  <2>1. h \in Seq(Messages)
    BY DEF Whole
  <2>2. \A i \in DOMAIN h : h[i] \in Messages
    BY <2>1
  <2>3. QED
    BY <2>2, BoundsAssumption DEF Messages
<1>2. QED
  BY <1>1 DEF Whole

(* The messages of a turn, as Turn(s) makes them.                          *)
Pair(turn) == <<[turn |-> turn, role |-> "user"], [turn |-> turn, role |-> "assistant"]>>

LEMMA PairType ==
  ASSUME NEW turn \in 1 .. MaxSends
  PROVE  /\ Pair(turn) \in Seq(Messages) /\ Len(Pair(turn)) = 2
         /\ Pair(turn)[1] = [turn |-> turn, role |-> "user"]
         /\ Pair(turn)[2] = [turn |-> turn, role |-> "assistant"]
BY DEF Pair, Messages

LEMMA Parity ==
  ASSUME NEW d \in Nat, NEW i \in Nat, d % 2 = 0
  PROVE  (d + i) % 2 = i % 2
OBVIOUS

LEMMA WholeExtended ==
  ASSUME NEW turn \in 1 .. MaxSends, NEW h, Whole(h, turn - 1)
  PROVE  Whole(h \o Pair(turn), turn)
<1> DEFINE n == Len(h)
           k == h \o Pair(turn)
<1>1. h \in Seq(Messages) /\ n \in Nat /\ DOMAIN h = 1 .. n /\ n % 2 = 0
  BY DEF Whole
<1>2. /\ k \in Seq(Messages) /\ Len(k) = n + 2 /\ DOMAIN k = 1 .. n + 2
      /\ \A i \in 1 .. n : k[i] = h[i]
      /\ k[n + 1] = [turn |-> turn, role |-> "user"]
      /\ k[n + 2] = [turn |-> turn, role |-> "assistant"]
  <2> DEFINE p == Pair(turn)
  <2>1. /\ p \in Seq(Messages) /\ Len(p) = 2
        /\ p[1] = [turn |-> turn, role |-> "user"]
        /\ p[2] = [turn |-> turn, role |-> "assistant"]
    BY PairType
  <2> HIDE DEF p
  <2>2. /\ h \o p \in Seq(Messages) /\ Len(h \o p) = Len(h) + Len(p)
        /\ \A i \in 1 .. Len(h) + Len(p) :
             (h \o p)[i] = IF i <= Len(h) THEN h[i] ELSE p[i - Len(h)]
    BY <1>1, <2>1, ConcatProperties
  <2>3. k = h \o p /\ n = Len(h)
    BY DEF p
  <2> HIDE DEF k, n
  <2>4. n \in Nat
    BY <1>1
  <2>5. /\ k \in Seq(Messages) /\ Len(k) = n + 2
        /\ \A i \in 1 .. n + 2 : k[i] = IF i <= n THEN h[i] ELSE p[i - n]
    BY <2>1, <2>2, <2>3
  <2>6. k[n + 1] = p[1] /\ k[n + 2] = p[2]
    BY <2>4, <2>5
  <2>7. QED
    BY <2>1, <2>4, <2>5, <2>6
<1>3. \A i \in 1 .. n : /\ h[i].turn \in Nat /\ h[i].turn < turn
                        /\ h[i].role = IF i % 2 = 1 THEN "user" ELSE "assistant"
  <2>1. \A i \in 1 .. n : h[i].turn <= turn - 1
    BY <1>1 DEF Whole
  <2>2. \A i \in 1 .. n : h[i].role = IF i % 2 = 1 THEN "user" ELSE "assistant"
    BY <1>1 DEF Whole
  <2>3. \A i \in 1 .. n : h[i] \in Messages
    BY <1>1
  <2>4. \A i \in 1 .. n : h[i].turn \in 1 .. MaxSends
    BY <2>3 DEF Messages
  <2>5. \A i \in 1 .. n : h[i].turn \in Nat /\ h[i].turn < turn
    <3>1. SUFFICES ASSUME NEW i \in 1 .. n PROVE h[i].turn \in Nat /\ h[i].turn < turn
      OBVIOUS
    <3>2. h[i].turn \in 1 .. MaxSends /\ h[i].turn <= turn - 1
      BY <2>1, <2>4
    <3> DEFINE at == h[i].turn
    <3> HIDE DEF at
    <3>3. at \in 1 .. MaxSends /\ at <= turn - 1
      BY <3>2 DEF at
    <3>4. at \in Nat /\ at < turn
      BY <3>3, BoundsAssumption
    <3>5. QED
      BY <3>4 DEF at
  <2>6. QED
    BY <2>2, <2>5
<1>4. \A i \in 1 .. n - 1 : IF i % 2 = 1 THEN h[i + 1].turn = h[i].turn
                            ELSE h[i + 1].turn > h[i].turn
  BY DEF Whole
<1> HIDE DEF k, n
<1>5. (n + 1) % 2 = 1 /\ (n + 2) % 2 = 0
  BY <1>1
<1>6. ASSUME NEW i \in 1 .. n + 2
      PROVE  k[i].turn <= turn /\ k[i].role = IF i % 2 = 1 THEN "user" ELSE "assistant"
  <2>1. CASE i \in 1 .. n
    BY <1>1, <1>2, <1>3, <2>1
  <2>2. CASE i = n + 1
    BY <1>2, <1>5, <2>2
  <2>3. CASE i = n + 2
    BY <1>2, <1>5, <2>3
  <2>4. QED
    BY <1>1, <2>1, <2>2, <2>3
<1>7. ASSUME NEW i \in 1 .. n + 1
      PROVE  IF i % 2 = 1 THEN k[i + 1].turn = k[i].turn ELSE k[i + 1].turn > k[i].turn
  <2>1. CASE i \in 1 .. n - 1
    BY <1>1, <1>2, <1>4, <2>1
  <2>2. CASE i = n
    BY <1>1, <1>2, <1>3, <2>2
  <2>3. CASE i = n + 1
    BY <1>1, <1>2, <1>5, <2>3
  <2>4. QED
    BY <1>1, <2>1, <2>2, <2>3
<1>8. Len(k) % 2 = 0 /\ Len(k) - 1 = n + 1
  BY <1>1, <1>2, <1>5
<1>9. Whole(k, turn)
  BY <1>2, <1>6, <1>7, <1>8 DEF Whole
<1>10. QED
  BY <1>9 DEF k

LEMMA NewestShape ==
  ASSUME NEW S, NEW h \in Seq(S), Len(h) > MaxMessages
  PROVE  /\ Newest(h) \in Seq(S) /\ Len(Newest(h)) = MaxMessages
         /\ MaxMessages \in Nat /\ MaxMessages % 2 = 0 /\ MaxMessages > 0
         /\ \A i \in 1 .. MaxMessages : Newest(h)[i] = h[Len(h) - MaxMessages + i]
<1>1. MaxMessages \in Nat /\ MaxMessages % 2 = 0 /\ MaxMessages > 0
  BY MaxHistoryAssumption DEF MaxMessages
<1> DEFINE first == Len(h) - MaxMessages + 1
<1>2. Len(h) \in Nat /\ first \in 1 .. Len(h) /\ \A i \in first .. Len(h) : h[i] \in S
  BY <1>1
<1>3. Newest(h) = SubSeq(h, first, Len(h))
  BY DEF Newest
<1> HIDE DEF first
<1>4. /\ Newest(h) \in Seq(S) /\ Len(Newest(h)) = Len(h) - first + 1
      /\ \A i \in 1 .. Len(h) - first + 1 : Newest(h)[i] = h[first + i - 1]
  BY <1>2, <1>3, SubSeqProperties
<1>5. QED
  BY <1>1, <1>2, <1>4 DEF first

LEMMA WholeNewest ==
  ASSUME NEW top \in Int, NEW h, Whole(h, top), Len(h) > MaxMessages
  PROVE  Whole(Newest(h), top)
<1> DEFINE k == Newest(h)
           d == Len(h) - MaxMessages
<1>1. h \in Seq(Messages) /\ Len(h) \in Nat /\ DOMAIN h = 1 .. Len(h) /\ Len(h) % 2 = 0
  BY DEF Whole
<1>2. MaxMessages \in Nat /\ MaxMessages > 0 /\ MaxMessages % 2 = 0
  BY <1>1, NewestShape
<1>3. k \in Seq(Messages) /\ Len(k) = MaxMessages
      /\ \A i \in 1 .. MaxMessages : k[i] = h[Len(h) - MaxMessages + i]
  BY <1>1, NewestShape
<1>4. /\ d \in Nat /\ d + MaxMessages = Len(h) /\ d % 2 = 0
      /\ DOMAIN k = 1 .. MaxMessages /\ \A i \in 1 .. MaxMessages : k[i] = h[d + i]
  BY <1>1, <1>2, <1>3
<1> HIDE DEF k, d
<1>8. ASSUME NEW i \in 1 .. MaxMessages
      PROVE  /\ d + i \in DOMAIN h /\ d + i \in 1 .. Len(h) /\ (d + i) % 2 = i % 2
             /\ k[i] = h[d + i]
  <2>1. d \in Nat /\ i \in Nat /\ d % 2 = 0
    BY <1>4
  <2>2. (d + i) % 2 = i % 2
    BY <2>1, Parity
  <2>3. d \in Nat /\ d + MaxMessages = Len(h) /\ Len(h) \in Nat /\ MaxMessages \in Nat
    BY <1>1, <1>2, <1>4
  <2>4. d + i \in 1 .. Len(h)
    BY <2>3
  <2>5. QED
    BY <1>1, <1>4, <2>2, <2>4
<1>5. \A i \in 1 .. MaxMessages : /\ k[i].turn <= top
                                  /\ k[i].role = IF i % 2 = 1 THEN "user" ELSE "assistant"
  BY <1>8 DEF Whole
<1>6. ASSUME NEW i \in 1 .. MaxMessages - 1
      PROVE  IF i % 2 = 1 THEN k[i + 1].turn = k[i].turn ELSE k[i + 1].turn > k[i].turn
  <2>1. i \in 1 .. MaxMessages /\ i + 1 \in 1 .. MaxMessages
    BY <1>2
  <2>2. d + i \in 1 .. Len(h) - 1 /\ d + (i + 1) = (d + i) + 1
    BY <1>1, <1>2, <1>4
  <2>3. k[i] = h[d + i] /\ k[i + 1] = h[(d + i) + 1] /\ (d + i) % 2 = i % 2
    BY <1>8, <2>1, <2>2
  <2>4. QED
    BY <2>2, <2>3 DEF Whole
<1>7. Whole(k, top)
  BY <1>2, <1>3, <1>4, <1>5, <1>6 DEF Whole
<1>9. QED
  BY <1>7 DEF k

-----------------------------------------------------------------------------
(* The invariant that holds whatever happens to the file.                  *)

Histories == [Sessions -> Seq(Messages)]

(* The positions in a turn that has not been counted.                      *)
Uncounted == {"loading", "asking", "answered", "setting", "changed", "emptied", "filling",
              "remembered", "ran"}
Positions == Uncounted \cup {"idle", "trimming", "cutting", "cut", "emptied again", "filling again"}

Types ==
  /\ file \in [state : {"missing", "empty", "torn", "written"}, content : Histories]
  /\ pc \in [Sessions -> Positions]
  /\ value \in Histories /\ data \in [Sessions -> Histories] /\ remembered \in Histories
  /\ via \in [Sessions -> {"send", "ask", "stream"}] /\ closed \subseteq Sessions
  /\ sent \in [Sessions -> 0 .. MaxSends] /\ turn_count \in [Sessions -> Nat]
  /\ disturbed \in BOOLEAN

Counted ==
  \A s \in Sessions : /\ turn_count[s] <= sent[s]
                      /\ pc[s] \in Uncounted => turn_count[s] < sent[s]

(* The latest turn that a history of s can have.                           *)
Top(s) == IF pc[s] \in {"loading", "asking", "answered"} THEN sent[s] - 1 ELSE sent[s]

(* Every history of s there is: in the file, in what set() is to store, in *)
(* what any thread's set() has read.                                       *)
AllWhole ==
  \A s \in Sessions : /\ Whole(file.content[s], Top(s)) /\ Whole(value[s], Top(s))
                      /\ \A q \in Sessions : Whole(data[q][s], Top(s))

Sound == Types /\ Counted /\ AllWhole

(* What a step does to the histories: nothing but copy them, except that   *)
(* what set() is to store may be new.                                      *)
Grows == \A s \in Sessions : Top(s) <= Top(s)'
Copies ==
  /\ \A s \in Sessions : \/ file'.content[s] \in {<< >>, file.content[s]}
                         \/ \E q \in Sessions : file'.content[s] = data[q][s]
  /\ \A s, q \in Sessions : data'[q][s] \in {<< >>, data[q][s], file.content[s], value[s]}
Renews == \A s \in Sessions : value'[s] = value[s] \/ Whole(value'[s], Top(s)')

LEMMA TopIsNumber == Types => \A s \in Sessions : Top(s) \in Int
BY BoundsAssumption DEF Types, Top

LEMMA CopiesAreWhole ==
  ASSUME Sound, Types', Grows, Copies, Renews
  PROVE  AllWhole'
<1> SUFFICES ASSUME NEW s \in Sessions
             PROVE  /\ Whole(file'.content[s], Top(s)') /\ Whole(value'[s], Top(s)')
                    /\ \A q \in Sessions : Whole(data'[q][s], Top(s)')
  BY DEF AllWhole
<1>1. Top(s) \in Int /\ Top(s)' \in Int /\ Top(s) <= Top(s)'
  BY TopIsNumber DEF Sound, Types, Grows, Top
<1>2. \A h : Whole(h, Top(s)) => Whole(h, Top(s)')
  BY <1>1, WholeHigher
<1>3. Whole(<< >>, Top(s)')
  BY NothingIsWhole
<1>4. /\ Whole(file.content[s], Top(s)) /\ Whole(value[s], Top(s))
      /\ \A q \in Sessions : Whole(data[q][s], Top(s))
  BY DEF Sound, AllWhole
<1>5. QED
  BY <1>2, <1>3, <1>4, Zenon DEF Copies, Renews

LEMMA ReadAllFacts ==
  ASSUME Sound
  PROVE  /\ ReadAll \in Histories
         /\ \A s \in Sessions : ReadAll[s] \in {<< >>, file.content[s]} /\ Whole(ReadAll[s], Top(s))
BY NothingIsWhole DEF Sound, Types, AllWhole, ReadAll, Nobody, Histories

LEMMA InitSound == Init => Sound
<1> SUFFICES ASSUME Init PROVE Sound
  OBVIOUS
<1>1. Nobody \in Histories
  BY DEF Nobody, Histories
<1>2. Types
  <2>1. MaxSends \in Nat
    BY BoundsAssumption
  <2>2. 0 \in 0 .. MaxSends
    BY <2>1
  <2>3. file \in [state : {"missing", "empty", "torn", "written"}, content : Histories]
    BY <1>1 DEF Init
  <2>4. QED
    BY <1>1, <2>2, <2>3 DEF Init, Types, Positions
<1>3. Counted
  BY DEF Init, Counted, Uncounted
<1>4. AllWhole
  BY NothingIsWhole DEF Init, AllWhole, Nobody
<1>5. QED
  BY <1>2, <1>3, <1>4 DEF Sound

(* The positions before the turn is in a history.                          *)
Unsaid == {"loading", "asking", "answered"}

(* What a step of send() that begins and counts no turn keeps.             *)
LEMMA MoveKeepsSound ==
  ASSUME Sound, NEW s \in Sessions, NEW from, NEW to \in Positions, At(s, from, to),
         to \in Uncounted => from \in Uncounted, to \in Unsaid => from \in Unsaid,
         UNCHANGED <<via, sent, turn_count, closed>>, disturbed' \in BOOLEAN,
         file' \in [state : {"missing", "empty", "torn", "written"}, content : Histories],
         value' \in Histories, data' \in [Sessions -> Histories], remembered' \in Histories,
         Copies, Renews
  PROVE  Sound'
<1>1. pc[s] = from /\ pc' = [pc EXCEPT ![s] = to] /\ pc \in [Sessions -> Positions]
  BY DEF At, Sound, Types
<1>2. Types'
  BY <1>1 DEF Sound, Types
<1>3. Counted'
  BY <1>1 DEF Sound, Counted, Types
<1>4. Grows
  <2> SUFFICES ASSUME NEW q \in Sessions PROVE Top(q) <= Top(q)'
    BY DEF Grows
  <2>1. sent[q] \in Int /\ sent' = sent
    BY DEF Sound, Types
  <2>2. pc'[q] \in Unsaid => pc[q] \in Unsaid
    BY <1>1
  <2>3. QED
    BY <2>1, <2>2 DEF Top, Unsaid
<1>5. QED
  BY <1>2, <1>3, <1>4, CopiesAreWhole DEF Sound

LEMMA MoveOnlyKeepsSound ==
  ASSUME Sound, NEW s \in Sessions, NEW from, NEW to \in Positions, At(s, from, to),
         to \in Uncounted => from \in Uncounted, to \in Unsaid => from \in Unsaid,
         UNCHANGED <<file, value, data, via, sent, turn_count, closed, remembered>>,
         disturbed' \in BOOLEAN
  PROVE  Sound'
<1>1. Copies /\ Renews
  BY DEF Copies, Renews
<1>2. QED
  BY <1>1, MoveKeepsSound DEF Sound, Types

LEMMA BeginKeepsSound ==
  ASSUME Sound, NEW s \in Sessions, NEW how \in {"send", "ask", "stream"}, Begin(s, how)
  PROVE  Sound'
<1>1. /\ pc[s] = "idle" /\ pc' = [pc EXCEPT ![s] = "loading"] /\ sent[s] < MaxSends
      /\ sent' = [sent EXCEPT ![s] = @ + 1] /\ via' = [via EXCEPT ![s] = how]
      /\ UNCHANGED <<file, value, data, turn_count, closed, crashes, remembered, disturbed>>
  BY DEF Begin, At
<1>2. MaxSends \in Nat /\ sent[s] + 1 \in 0 .. MaxSends
  BY <1>1, BoundsAssumption DEF Sound, Types
<1>3. Types'
  BY <1>1, <1>2 DEF Sound, Types, Positions, Uncounted
<1>4. Counted'
  <2> SUFFICES ASSUME NEW q \in Sessions
               PROVE  /\ turn_count'[q] <= sent'[q]
                      /\ pc'[q] \in Uncounted => turn_count'[q] < sent'[q]
    BY DEF Counted
  <2>1. turn_count[q] \in Nat /\ sent[q] \in Nat /\ turn_count[q] <= sent[q]
    BY DEF Sound, Types, Counted
  <2>2. CASE q = s
    BY <1>1, <2>1, <2>2 DEF Sound, Types
  <2>3. CASE q # s
    BY <1>1, <2>3 DEF Sound, Types, Counted
  <2>4. QED
    BY <2>2, <2>3
<1>5. Grows
  <2> SUFFICES ASSUME NEW q \in Sessions PROVE Top(q) <= Top(q)'
    BY DEF Grows
  <2>1. sent[q] \in Int
    BY DEF Sound, Types
  <2>2. CASE q = s
    BY <1>1, <2>1, <2>2 DEF Top, Sound, Types
  <2>3. CASE q # s
    BY <1>1, <2>1, <2>3 DEF Top, Sound, Types
  <2>4. QED
    BY <2>2, <2>3
<1>6. Copies /\ Renews
  BY <1>1 DEF Copies, Renews
<1>7. QED
  BY <1>3, <1>4, <1>5, <1>6, CopiesAreWhole DEF Sound

LEMMA StepFailsKeepsSound ==
  ASSUME Sound, NEW s \in Sessions, NEW from \in Uncounted, StepFails(s, from),
         disturbed' \in BOOLEAN
  PROVE  Sound'
<1>1. Over(s) \in {"ran", "idle"}
  BY DEF Over
<1>2. QED
  BY <1>1, MoveOnlyKeepsSound DEF StepFails, Positions, Uncounted, Unsaid

LEMMA LoadKeepsSound == ASSUME Sound, NEW s \in Sessions, Load(s) PROVE Sound'
<1>1. disturbed' \in BOOLEAN
  BY DEF Load, Reads, Sound, Types
<1>2. CASE StepFails(s, "loading")
  BY <1>1, <1>2, StepFailsKeepsSound DEF Uncounted
<1>3. CASE At(s, "loading", "asking")
           /\ UNCHANGED <<file, value, data, via, sent, turn_count, closed, remembered>>
  BY <1>1, <1>3, MoveOnlyKeepsSound DEF Uncounted, Unsaid, Positions
<1>4. QED
  BY <1>2, <1>3 DEF Load

LEMMA GenerateKeepsSound == ASSUME Sound, NEW s \in Sessions, Generate(s) PROVE Sound'
<1>1. disturbed' \in BOOLEAN
  BY DEF Generate, Sound, Types
<1>2. CASE StepFails(s, "asking")
  BY <1>1, <1>2, StepFailsKeepsSound DEF Uncounted
<1>3. CASE At(s, "asking", "answered")
           /\ UNCHANGED <<file, value, data, via, sent, turn_count, closed, remembered>>
  BY <1>1, <1>3, MoveOnlyKeepsSound DEF Uncounted, Unsaid, Positions
<1>4. QED
  BY <1>2, <1>3 DEF Generate

LEMMA AbandonKeepsSound == ASSUME Sound, NEW s \in Sessions, Abandon(s) PROVE Sound'
<1>1. disturbed' \in BOOLEAN
  BY DEF Abandon, Sound, Types
<1>2. QED
  BY <1>1, MoveOnlyKeepsSound DEF Abandon, Uncounted, Unsaid, Positions

LEMMA FinalizeKeepsSound == ASSUME Sound, NEW s \in Sessions, Finalize(s) PROVE Sound'
<1>1. disturbed' \in BOOLEAN
  BY DEF Finalize, Sound, Types
<1>2. CASE StepFails(s, "remembered")
  BY <1>1, <1>2, StepFailsKeepsSound DEF Uncounted
<1>3. CASE At(s, "remembered", Over(s))
           /\ UNCHANGED <<file, value, data, via, sent, turn_count, closed, remembered>>
  <2>1. Over(s) \in {"ran", "idle"}
    BY DEF Over
  <2>2. QED
    BY <1>1, <1>3, <2>1, MoveOnlyKeepsSound DEF Uncounted, Unsaid, Positions
<1>4. QED
  BY <1>2, <1>3 DEF Finalize

(* What Turn(s) is, while s is in a turn that it has not counted.          *)
LEMMA TurnIsPair ==
  ASSUME Sound, NEW s \in Sessions, pc[s] \in Uncounted
  PROVE  Turn(s) = Pair(sent[s]) /\ sent[s] \in 1 .. MaxSends /\ Turn(s) \in Seq(Messages)
<1>1. sent[s] \in 0 .. MaxSends /\ turn_count[s] \in Nat /\ turn_count[s] < sent[s]
  BY DEF Sound, Types, Counted
<1>2. sent[s] \in 1 .. MaxSends
  BY <1>1, BoundsAssumption
<1>3. QED
  BY <1>2, PairType DEF Turn, Pair

LEMMA RecallKeepsSound == ASSUME Sound, NEW s \in Sessions, Recall(s) PROVE Sound'
<1>1. disturbed' \in BOOLEAN
  BY DEF Recall, Reads, Sound, Types
<1>2. CASE StepFails(s, "answered")
  BY <1>1, <1>2, StepFailsKeepsSound DEF Uncounted
<1>3. CASE /\ At(s, "answered", "setting")
           /\ value' = [value EXCEPT ![s] = ReadAll[s] \o Turn(s)]
           /\ UNCHANGED <<file, data, via, sent, turn_count, closed, crashes, remembered>>
  <2> DEFINE h == ReadAll[s] \o Turn(s)
  <2>1. pc[s] = "answered" /\ pc' = [pc EXCEPT ![s] = "setting"]
    BY <1>3 DEF At
  <2>2. Turn(s) = Pair(sent[s]) /\ sent[s] \in 1 .. MaxSends
    BY <2>1, TurnIsPair DEF Uncounted
  <2>3. Whole(ReadAll[s], sent[s] - 1)
    BY <2>1, ReadAllFacts DEF Top
  <2>4. Whole(h, sent[s])
    BY <2>2, <2>3, WholeExtended
  <2>5. Top(s)' = sent[s]
    BY <1>3, <2>1 DEF Top, Sound, Types
  <2> HIDE DEF h
  <2>6. h \in Seq(Messages)
    BY <2>4 DEF Whole
  <2>7. Copies /\ Renews /\ value' \in Histories
    BY <1>3, <2>4, <2>5, <2>6 DEF Copies, Renews, Sound, Types, Histories, h
  <2>8. QED
    BY <1>1, <1>3, <2>7, MoveKeepsSound DEF Uncounted, Unsaid, Positions, Sound, Types
<1>4. QED
  BY <1>2, <1>3 DEF Recall

LEMMA SetReadsKeepsSound ==
  ASSUME Sound, NEW s \in Sessions, NEW from, NEW to \in Positions, SetReads(s, from, to),
         to \in Uncounted => from \in Uncounted, to \notin Unsaid
  PROVE  Sound'
<1>1. disturbed' \in BOOLEAN
  BY DEF SetReads, Sound, Types
<1>2. AllHistories(s) \in Histories
      /\ \A q \in Sessions : AllHistories(s)[q] \in {<< >>, file.content[q], value[q]}
  BY ReadAllFacts DEF AllHistories, Sound, Types, Histories
<1>3. data' = [data EXCEPT ![s] = AllHistories(s)] /\ At(s, from, to)
      /\ UNCHANGED <<file, value, via, sent, turn_count, closed, crashes, remembered>>
  BY DEF SetReads
<1>4. Copies /\ Renews /\ data' \in [Sessions -> Histories]
  BY <1>2, <1>3 DEF Copies, Renews, Sound, Types
<1>5. QED
  BY <1>1, <1>3, <1>4, MoveKeepsSound DEF Sound, Types

(* Opens and Fills: the file has no content.                               *)
LEMMA EmptiesKeepsSound ==
  ASSUME Sound, NEW s \in Sessions, NEW from, NEW to \in Positions, At(s, from, to),
         to \in Uncounted => from \in Uncounted, to \notin Unsaid,
         NEW state \in {"empty", "torn"}, file' = [state |-> state, content |-> Nobody],
         UNCHANGED <<value, data, via, sent, turn_count, closed, remembered, disturbed>>
  PROVE  Sound'
<1>1. /\ file' \in [state : {"missing", "empty", "torn", "written"}, content : Histories]
      /\ \A q \in Sessions : file'.content[q] = << >>
  BY DEF Nobody, Histories
<1>2. Copies /\ Renews
  BY <1>1 DEF Copies, Renews
<1>3. QED
  BY <1>1, <1>2, MoveKeepsSound DEF Sound, Types

LEMMA ClosesKeepsSound ==
  ASSUME Sound, NEW s \in Sessions, NEW from, NEW to \in Positions, Closes(s, from, to),
         to \in Uncounted => from \in Uncounted, to \notin Unsaid, remembered' \in Histories
  PROVE  Sound'
<1>1. file' \in [state : {"missing", "empty", "torn", "written"}, content : Histories]
      /\ \A q \in Sessions : file'.content[q] \in {<< >>, data[s][q]}
  <2>1. CASE file' = [state |-> "written", content |-> data[s]]
    BY <2>1 DEF Sound, Types
  <2>2. CASE file' = [state |-> "torn", content |-> Nobody]
    BY <2>2 DEF Nobody, Histories
  <2>3. QED
    BY <2>1, <2>2 DEF Closes
<1>2. UNCHANGED <<value, data, via, sent, turn_count, closed, crashes, disturbed>>
      /\ At(s, from, to)
  BY DEF Closes
<1>3. Copies /\ Renews
  BY <1>1, <1>2 DEF Copies, Renews
<1>4. QED
  BY <1>1, <1>2, <1>3, MoveKeepsSound DEF Sound, Types

LEMMA RememberTurnKeepsSound == ASSUME Sound, NEW s \in Sessions, RememberTurn(s) PROVE Sound'
<1>1. CASE SetReads(s, "setting", "changed")
  BY <1>1, SetReadsKeepsSound DEF Uncounted, Unsaid, Positions
<1>2. CASE Torn /\ Reads(s) /\ StepFails(s, "setting")
  BY <1>2, StepFailsKeepsSound DEF Reads, Sound, Types, Uncounted
<1>3. CASE Opens(s, "changed", "emptied")
  BY <1>3, EmptiesKeepsSound DEF Opens, Uncounted, Unsaid, Positions
<1>4. CASE Fills(s, "emptied", "filling")
  BY <1>4, EmptiesKeepsSound DEF Fills, Uncounted, Unsaid, Positions
<1>5. CASE /\ Closes(s, "filling", "remembered")
           /\ remembered' = [remembered EXCEPT ![s] = @ \o Turn(s)]
  <2>1. Turn(s) \in Seq(Messages)
    BY <1>5, TurnIsPair DEF Closes, At, Uncounted
  <2>2. remembered[s] \in Seq(Messages)
    BY DEF Sound, Types, Histories
  <2>3. remembered[s] \o Turn(s) \in Seq(Messages)
    BY <2>1, <2>2, ConcatProperties
  <2>4. remembered' \in Histories
    BY <1>5, <2>3 DEF Sound, Types, Histories
  <2>5. QED
    BY <1>5, <2>4, ClosesKeepsSound DEF Uncounted, Unsaid, Positions
<1>6. QED
  BY <1>1, <1>2, <1>3, <1>4, <1>5 DEF RememberTurn

LEMMA CountTurnKeepsSound == ASSUME Sound, NEW s \in Sessions, CountTurn(s) PROVE Sound'
<1>1. /\ pc[s] = "ran" /\ pc' = [pc EXCEPT ![s] = "trimming"]
      /\ turn_count' = [turn_count EXCEPT ![s] = @ + 1]
      /\ UNCHANGED <<file, value, data, via, sent, closed, remembered, disturbed>>
  BY DEF CountTurn, At
<1>2. Types'
  <2>1. pc' \in [Sessions -> Positions]
    BY <1>1 DEF Sound, Types, Positions
  <2>2. turn_count' \in [Sessions -> Nat]
    BY <1>1 DEF Sound, Types
  <2>3. QED
    BY <1>1, <2>1, <2>2 DEF Sound, Types
<1>3. Counted'
  <2> SUFFICES ASSUME NEW q \in Sessions
               PROVE  /\ turn_count'[q] <= sent'[q]
                      /\ pc'[q] \in Uncounted => turn_count'[q] < sent'[q]
    BY DEF Counted
  <2>1. turn_count[q] \in Nat /\ sent[q] \in Nat /\ turn_count[s] < sent[s]
    BY <1>1 DEF Sound, Types, Counted, Uncounted
  <2>2. CASE q = s
    BY <1>1, <2>1, <2>2 DEF Sound, Types, Uncounted
  <2>3. CASE q # s
    BY <1>1, <2>3 DEF Sound, Types, Counted
  <2>4. QED
    BY <2>2, <2>3
<1>4. Grows
  BY <1>1, TopIsNumber DEF Grows, Top, Sound, Types
<1>5. Copies /\ Renews
  BY <1>1 DEF Copies, Renews
<1>6. QED
  BY <1>2, <1>3, <1>4, <1>5, CopiesAreWhole DEF Sound

LEMMA TrimKeepsSound == ASSUME Sound, NEW s \in Sessions, Trim(s) PROVE Sound'
<1>1. disturbed' \in BOOLEAN /\ UNCHANGED <<file, data, via, sent, turn_count, closed, remembered>>
  BY DEF Trim, Reads, Sound, Types
<1>2. CASE ~Torn /\ Len(ReadAll[s]) > MaxMessages
  <2>1. At(s, "trimming", "cutting") /\ value' = [value EXCEPT ![s] = Newest(ReadAll[s])]
    BY <1>2 DEF Trim
  <2>2. Whole(ReadAll[s], sent[s])
    BY <2>1, ReadAllFacts DEF Top, At
  <2>3. Whole(Newest(ReadAll[s]), sent[s])
    BY <1>2, <2>2, WholeNewest DEF Sound, Types
  <2>4. Top(s)' = sent[s]
    BY <1>1, <2>1 DEF Top, At, Sound, Types
  <2>5. Newest(ReadAll[s]) \in Seq(Messages)
    BY <2>3 DEF Whole
  <2>6. Copies /\ Renews /\ value' \in Histories
    BY <1>1, <2>1, <2>3, <2>4, <2>5 DEF Copies, Renews, Sound, Types, Histories
  <2>7. QED
    BY <1>1, <2>1, <2>6, MoveKeepsSound DEF Uncounted, Unsaid, Positions, Sound, Types
<1>3. CASE ~(~Torn /\ Len(ReadAll[s]) > MaxMessages)
  BY <1>1, <1>3, MoveOnlyKeepsSound DEF Trim, Uncounted, Unsaid, Positions
<1>4. QED
  BY <1>2, <1>3

LEMMA StoreTrimmedKeepsSound == ASSUME Sound, NEW s \in Sessions, StoreTrimmed(s) PROVE Sound'
<1>1. CASE SetReads(s, "cutting", "cut")
  BY <1>1, SetReadsKeepsSound DEF Uncounted, Unsaid, Positions
<1>2. CASE /\ Torn /\ Reads(s) /\ At(s, "cutting", "idle")
           /\ UNCHANGED <<file, value, data, via, sent, turn_count, closed, crashes, remembered>>
  <2>1. disturbed' \in BOOLEAN
    BY <1>2 DEF Reads, Sound, Types
  <2>2. QED
    BY <1>2, <2>1, MoveOnlyKeepsSound DEF Uncounted, Unsaid, Positions
<1>3. CASE Opens(s, "cut", "emptied again")
  BY <1>3, EmptiesKeepsSound DEF Opens, Uncounted, Unsaid, Positions
<1>4. CASE Fills(s, "emptied again", "filling again")
  BY <1>4, EmptiesKeepsSound DEF Fills, Uncounted, Unsaid, Positions
<1>5. CASE Closes(s, "filling again", "idle") /\ UNCHANGED remembered
  BY <1>5, ClosesKeepsSound DEF Uncounted, Unsaid, Positions, Sound, Types
<1>6. QED
  BY <1>1, <1>2, <1>3, <1>4, <1>5 DEF StoreTrimmed

LEMMA CloseKeepsSound == ASSUME Sound, NEW s \in Sessions, Close(s) PROVE Sound'
BY DEF Close, Sound, Types, Counted, AllWhole, Top

LEMMA RestartKeepsSound == ASSUME Sound, Restart PROVE Sound'
<1>1. /\ pc' = [s \in Sessions |-> "idle"] /\ value' = Nobody
      /\ data' = [s \in Sessions |-> Nobody] /\ via' = [s \in Sessions |-> "send"]
      /\ turn_count' = [s \in Sessions |-> 0] /\ closed' = {}
      /\ disturbed' \in BOOLEAN /\ UNCHANGED <<file, sent, remembered>>
  BY DEF Restart, Sound, Types
<1>2. Nobody \in Histories /\ \A s \in Sessions : Nobody[s] = << >>
  BY DEF Nobody, Histories
<1>3. Types'
  BY <1>1, <1>2 DEF Sound, Types, Positions
<1>4. Counted'
  BY <1>1 DEF Sound, Types, Counted, Uncounted
<1>5. Grows
  BY <1>1, TopIsNumber DEF Grows, Top, Sound, Types
<1>6. Copies /\ Renews
  BY <1>1, <1>2, NothingIsWhole DEF Copies, Renews
<1>7. QED
  BY <1>3, <1>4, <1>5, <1>6, CopiesAreWhole DEF Sound

LEMMA StepSound == Sound /\ [Next]_vars => Sound'
<1> SUFFICES ASSUME Sound, [Next]_vars PROVE Sound'
  OBVIOUS
<1>1. ASSUME NEW s \in Sessions, Send(s) \/ Ask(s) \/ Stream(s) PROVE Sound'
  BY <1>1, BeginKeepsSound DEF Send, Ask, Stream
<1>2. ASSUME NEW s \in Sessions,
             \/ Load(s) \/ Generate(s) \/ Abandon(s) \/ Recall(s) \/ RememberTurn(s)
             \/ Finalize(s) \/ CountTurn(s) \/ Trim(s) \/ StoreTrimmed(s) \/ Close(s)
      PROVE  Sound'
  BY <1>2, LoadKeepsSound, GenerateKeepsSound, AbandonKeepsSound, RecallKeepsSound,
     RememberTurnKeepsSound, FinalizeKeepsSound, CountTurnKeepsSound, TrimKeepsSound,
     StoreTrimmedKeepsSound, CloseKeepsSound
<1>3. CASE Restart
  BY <1>3, RestartKeepsSound
<1>4. CASE UNCHANGED vars
  BY <1>4 DEF vars, Sound, Types, Counted, AllWhole, Top
<1>5. QED
  BY <1>1, <1>2, <1>3, <1>4 DEF Next

-----------------------------------------------------------------------------

LEMMA SoundInvariant == Spec => []Sound
BY InitSound, StepSound, PTL DEF Spec

(* Whatever the threads and the crashes do to the file: the file, the      *)
(* threads and the counters keep their types, for any number of sessions.  *)
THEOREM TypeCorrect == Spec => []TypeOK
<1>1. Sound => TypeOK
  <2> SUFFICES ASSUME Sound PROVE TypeOK
    OBVIOUS
  <2>1. \A s \in Sessions : \A f \in {file.content, value, data[s], remembered} :
          f[s] \in Seq(Messages)
    BY DEF Sound, Types, Histories
  <2>2. \A s \in Sessions : \A f \in {file.content, value, data[s], remembered} :
          Range(f[s]) \subseteq Messages
    BY <2>1 DEF Range
  <2>3. \A s \in Sessions : turn_count[s] <= sent[s] /\ sent[s] <= MaxSends
    BY BoundsAssumption DEF Sound, Types, Counted
  <2>4. QED
    BY <2>2, <2>3 DEF TypeOK, Sound, Types
<1>2. QED
  BY <1>1, SoundInvariant, PTL

(* model_agent.py:488-498, session.py:164-170: a history that can be read  *)
(* is whole turns in order, for any number of sessions, turns and restarts *)
(* and any interleaving of their accesses to the file.                     *)
THEOREM TurnsAreWhole == Spec => []WholeTurns
<1>1. Sound => WholeTurns
  BY ReadAllFacts DEF WholeTurns, Whole
<1>2. QED
  BY <1>1, SoundInvariant, PTL

-----------------------------------------------------------------------------
(* The invariant that holds until an access or a crash falls inside set(). *)

(* h has all of the last max_history_turns turns of `all`, or all of them. *)
Kept(h, all) == IsSuffix(h, all) /\ (Len(h) >= MaxMessages \/ h = all)

LEMMA ReverseShape ==
  ASSUME NEW S, NEW h \in Seq(S)
  PROVE  /\ Reverse(h) \in Seq(S) /\ Len(Reverse(h)) = Len(h)
         /\ \A i \in 1 .. Len(h) : Reverse(h)[i] = h[Len(h) - i + 1]
<1>1. Len(h) \in Nat /\ \A i \in 1 .. Len(h) : h[Len(h) - i + 1] \in S
  OBVIOUS
<1>2. Reverse(h) = [i \in 1 .. Len(h) |-> h[Len(h) - i + 1]]
  BY DEF Reverse
<1>3. QED
  BY <1>1, <1>2

LEMMA SuffixByIndex ==
  ASSUME NEW S, NEW h \in Seq(S), NEW all \in Seq(S)
  PROVE  IsSuffix(h, all) <=> /\ Len(h) <= Len(all)
                              /\ \A i \in 1 .. Len(h) : h[i] = all[Len(all) - Len(h) + i]
<1> DEFINE n == Len(h)
           m == Len(all)
           rh == Reverse(h)
           ra == Reverse(all)
<1>1. n \in Nat /\ m \in Nat
  OBVIOUS
<1>2. /\ rh \in Seq(S) /\ Len(rh) = n /\ ra \in Seq(S) /\ Len(ra) = m
      /\ \A i \in 1 .. n : rh[i] = h[n - i + 1]
      /\ \A i \in 1 .. m : ra[i] = all[m - i + 1]
  BY ReverseShape
<1>3. IsSuffix(h, all) <=> n <= m /\ SubSeq(rh, 1, n) = SubSeq(ra, 1, n)
  BY <1>2 DEF IsSuffix, IsPrefix
<1> HIDE DEF n, m, rh, ra
<1>4. CASE n <= m
  <2>1. \A i \in 1 .. n : rh[i] \in S /\ ra[i] \in S
    BY <1>1, <1>2, <1>4
  <2>2. /\ SubSeq(rh, 1, n) \in Seq(S) /\ Len(SubSeq(rh, 1, n)) = n
        /\ \A i \in 1 .. n : SubSeq(rh, 1, n)[i] = rh[i]
    BY <1>1, <2>1, SubSeqProperties
  <2>3. /\ SubSeq(ra, 1, n) \in Seq(S) /\ Len(SubSeq(ra, 1, n)) = n
        /\ \A i \in 1 .. n : SubSeq(ra, 1, n)[i] = ra[i]
    BY <1>1, <2>1, SubSeqProperties
  <2>4. SubSeq(rh, 1, n) = SubSeq(ra, 1, n) <=> \A i \in 1 .. n : rh[i] = ra[i]
    BY <2>2, <2>3, SeqEqual
  <2>5. \A i \in 1 .. n : rh[i] = h[n - i + 1] /\ ra[i] = all[m - i + 1]
    BY <1>1, <1>2, <1>4
  <2>6. ASSUME \A i \in 1 .. n : rh[i] = ra[i], NEW i \in 1 .. n
        PROVE  h[i] = all[m - n + i]
    <3> DEFINE k == n - i + 1
    <3>1. k \in 1 .. n /\ n - k + 1 = i /\ m - k + 1 = m - n + i
      BY <1>1
    <3> HIDE DEF k
    <3>2. rh[k] = h[n - k + 1] /\ ra[k] = all[m - k + 1] /\ rh[k] = ra[k]
      BY <2>5, <2>6, <3>1
    <3>3. QED
      BY <3>1, <3>2
  <2>7. ASSUME \A i \in 1 .. n : h[i] = all[m - n + i], NEW i \in 1 .. n
        PROVE  rh[i] = ra[i]
    <3> DEFINE k == n - i + 1
    <3>1. k \in 1 .. n /\ m - n + k = m - i + 1
      BY <1>1
    <3> HIDE DEF k
    <3>2. h[k] = all[m - n + k]
      BY <2>7, <3>1
    <3>3. QED
      BY <2>5, <3>1, <3>2 DEF k
  <2>8. QED
    BY <1>3, <1>4, <2>4, <2>6, <2>7 DEF n, m
<1>5. CASE ~(n <= m)
  BY <1>3, <1>5 DEF n, m
<1>6. QED
  BY <1>4, <1>5

LEMMA NothingIsKept == Kept(<< >>, << >>)
<1> DEFINE none == << >>
<1>1. none \in Seq(Messages) /\ Len(none) = 0
  OBVIOUS
<1> HIDE DEF none
<1>2. Len(none) <= Len(none) /\ \A i \in 1 .. Len(none) : none[i] = none[Len(none) - Len(none) + i]
  BY <1>1
<1>3. IsSuffix(none, none)
  BY <1>1, <1>2, SuffixByIndex
<1>4. QED
  BY <1>3 DEF Kept, none

LEMMA KeptExtended ==
  ASSUME NEW S, NEW h \in Seq(S), NEW all \in Seq(S), NEW t \in Seq(S), Kept(h, all)
  PROVE  Kept(h \o t, all \o t)
<1> DEFINE n == Len(h)
           m == Len(all)
           p == Len(t)
           k == h \o t
           g == all \o t
<1>1. n \in Nat /\ m \in Nat /\ p \in Nat
  OBVIOUS
<1>2. n <= m /\ \A i \in 1 .. n : h[i] = all[m - n + i]
  BY SuffixByIndex DEF Kept
<1>3. /\ k \in Seq(S) /\ Len(k) = n + p
      /\ \A i \in 1 .. n + p : k[i] = IF i <= n THEN h[i] ELSE t[i - n]
  BY ConcatProperties
<1>4. /\ g \in Seq(S) /\ Len(g) = m + p
      /\ \A i \in 1 .. m + p : g[i] = IF i <= m THEN all[i] ELSE t[i - m]
  BY ConcatProperties
<1>5. n >= MaxMessages \/ k = g
  BY DEF Kept
<1>6. MaxMessages \in Nat
  BY MaxHistoryAssumption DEF MaxMessages
<1> HIDE DEF n, m, p, k, g
<1>7. ASSUME NEW i \in 1 .. n + p PROVE k[i] = g[(m + p) - (n + p) + i]
  <2> DEFINE j == (m + p) - (n + p) + i
  <2>1. j = m - n + i /\ j \in 1 .. m + p /\ j - m = i - n
    BY <1>1, <1>2
  <2>2. g[j] = IF i <= n THEN all[m - n + i] ELSE t[i - n]
    BY <1>1, <1>2, <1>4, <2>1
  <2>3. k[i] = IF i <= n THEN h[i] ELSE t[i - n]
    BY <1>3
  <2>4. i <= n => h[i] = all[m - n + i]
    BY <1>1, <1>2
  <2>5. QED
    BY <2>2, <2>3, <2>4
<1>8. Len(k) <= Len(g) /\ \A i \in 1 .. Len(k) : k[i] = g[Len(g) - Len(k) + i]
  BY <1>1, <1>2, <1>3, <1>4, <1>7
<1>9. IsSuffix(k, g)
  BY <1>3, <1>4, <1>8, SuffixByIndex
<1>10. Len(k) >= MaxMessages \/ k = g
  BY <1>1, <1>3, <1>5, <1>6
<1>11. QED
  BY <1>9, <1>10 DEF Kept, k, g

LEMMA KeptNewest ==
  ASSUME NEW S, NEW h \in Seq(S), NEW all \in Seq(S), Kept(h, all), Len(h) > MaxMessages
  PROVE  Kept(Newest(h), all) /\ Len(Newest(h)) <= MaxMessages
<1> DEFINE n == Len(h)
           m == Len(all)
           k == Newest(h)
<1>1. n \in Nat /\ m \in Nat /\ MaxMessages \in Nat
  BY MaxHistoryAssumption DEF MaxMessages
<1>2. n <= m /\ \A i \in 1 .. n : h[i] = all[m - n + i]
  BY SuffixByIndex DEF Kept
<1>3. /\ k \in Seq(S) /\ Len(k) = MaxMessages
      /\ \A i \in 1 .. MaxMessages : k[i] = h[n - MaxMessages + i]
  BY NewestShape
<1>4. n > MaxMessages
  OBVIOUS
<1> HIDE DEF n, k
<1>5. ASSUME NEW i \in 1 .. MaxMessages PROVE k[i] = all[m - MaxMessages + i]
  <2> HIDE DEF m
  <2> DEFINE j == n - MaxMessages + i
  <2>1. j \in 1 .. n /\ m - n + j = m - MaxMessages + i
    BY <1>1, <1>4
  <2>2. k[i] = h[j]
    BY <1>3
  <2> HIDE DEF j
  <2>3. h[j] = all[m - n + j]
    BY <1>2, <2>1
  <2>4. QED
    BY <2>1, <2>2, <2>3
<1>6. Len(k) <= m /\ \A i \in 1 .. Len(k) : k[i] = all[m - Len(k) + i]
  BY <1>1, <1>2, <1>3, <1>4, <1>5
<1>7. IsSuffix(k, all)
  BY <1>3, <1>6, SuffixByIndex
<1>8. QED
  BY <1>1, <1>3, <1>7 DEF Kept, k

(* The latest turn was a send() that has returned.                         *)
Trimmed(s) == pc[s] = "idle" /\ via[s] = "send" /\ turn_count[s] > 0

Fitting(s, h) == Kept(h, remembered[s]) /\ (Trimmed(s) => Len(h) <= MaxMessages)

(* What the set() of s is to store, or stores, for s itself.               *)
OwnFits(s) ==
  /\ pc[s] = "setting" => Kept(value[s], remembered[s] \o Turn(s))
  /\ pc[s] \in {"changed", "emptied", "filling"} => Kept(data[s][s], remembered[s] \o Turn(s))
  /\ pc[s] = "cutting" => Kept(value[s], remembered[s]) /\ Len(value[s]) <= MaxMessages
  /\ pc[s] \in {"cut", "emptied again", "filling again"} =>
        Kept(data[s][s], remembered[s]) /\ Len(data[s][s]) <= MaxMessages

(* One set() changes the file at a time; it has what the file had for the  *)
(* other conversations, and they are in the file when it is not rewritten. *)
Safe ==
  /\ \A q, r \in Sessions : Changing(q) /\ Changing(r) => q = r
  /\ (\A q \in Sessions : ~Rewriting(q)) =>
        /\ file.state \in {"missing", "written"}
        /\ \A s \in Sessions : Fitting(s, ReadAll[s])
  /\ \A q \in Sessions : Changing(q) =>
        \A r \in Sessions \ {q} : /\ Fitting(r, data[q][r])
                                  /\ ~Rewriting(q) => data[q][r] = ReadAll[r]
  /\ \A s \in Sessions : OwnFits(s)

SafeUnlessDisturbed == disturbed \/ Safe

Rewrites == {"emptied", "filling", "emptied again", "filling again"}
Changes == Rewrites \cup {"changed", "cut"}

LEMMA Stages ==
  ASSUME NEW q \in Sessions
  PROVE  (Rewriting(q) <=> pc[q] \in Rewrites) /\ (Changing(q) <=> pc[q] \in Changes)
BY DEF Rewriting, Changing, Rewrites, Changes

(* What a step that leaves the stored histories alone keeps.               *)
LEMMA MoveKeepsSafe ==
  ASSUME Sound, Safe, NEW s \in Sessions, NEW from, NEW to, At(s, from, to),
         from \notin Changes, to \notin Changes \cup {"setting", "cutting"},
         UNCHANGED <<file, value, data, remembered>>,
         \A r \in Sessions \ {s} :
           sent'[r] = sent[r] /\ via'[r] = via[r] /\ turn_count'[r] = turn_count[r],
         Trimmed(s)' => \/ Trimmed(s)
                        \/ (\A q \in Sessions : ~Rewriting(q)) /\ Len(ReadAll[s]) <= MaxMessages
  PROVE  Safe'
<1>1. pc[s] = from /\ pc'[s] = to /\ \A r \in Sessions \ {s} : pc'[r] = pc[r]
  BY DEF At, Sound, Types
<1>2. \A q \in Sessions : (Rewriting(q)' <=> Rewriting(q)) /\ (Changing(q)' <=> Changing(q))
  BY <1>1 DEF Rewriting, Changing, Rewrites, Changes
<1>3. ReadAll' = ReadAll
  BY DEF ReadAll
<1>4. ~Changing(s)
  BY <1>1, Stages
<1>5. \A r \in Sessions \ {s} : (Trimmed(r)' <=> Trimmed(r)) /\ (OwnFits(r) => OwnFits(r)')
  BY <1>1 DEF Trimmed, OwnFits, Turn
<1>6. OwnFits(s)'
  BY <1>1 DEF OwnFits, Changes, Rewrites
<1>7. (\A q \in Sessions : ~Rewriting(q)') => /\ file'.state \in {"missing", "written"}
                                              /\ \A r \in Sessions : Fitting(r, ReadAll[r])'
  <2> SUFFICES ASSUME \A q \in Sessions : ~Rewriting(q)'
               PROVE  /\ file'.state \in {"missing", "written"}
                      /\ \A r \in Sessions : Fitting(r, ReadAll[r])'
    OBVIOUS
  <2>1. file.state \in {"missing", "written"} /\ \A r \in Sessions : Fitting(r, ReadAll[r])
    BY <1>2 DEF Safe
  <2>2. Fitting(s, ReadAll[s])'
    BY <1>3, <2>1 DEF Fitting
  <2>3. \A r \in Sessions \ {s} : Fitting(r, ReadAll[r])'
    BY <1>3, <1>5, <2>1 DEF Fitting
  <2>4. QED
    BY <2>1, <2>2, <2>3
<1>8. ASSUME NEW q \in Sessions, Changing(q)', NEW r \in Sessions \ {q}
      PROVE  Fitting(r, data[q][r])' /\ (~Rewriting(q)' => data'[q][r] = ReadAll'[r])
  <2>1. Fitting(r, data[q][r]) /\ (~Rewriting(q) => data[q][r] = ReadAll[r])
    BY <1>2, <1>8 DEF Safe
  <2>2. CASE r # s
    BY <1>2, <1>3, <1>5, <2>1, <2>2 DEF Fitting
  <2>3. CASE r = s
    BY <1>2, <1>3, <2>1, <2>3 DEF Fitting
  <2>4. QED
    BY <2>2, <2>3
<1>9. \A r \in Sessions : OwnFits(r)'
  BY <1>5, <1>6 DEF Safe
<1>10. \A q, r \in Sessions : Changing(q)' /\ Changing(r)' => q = r
  BY <1>2 DEF Safe
<1>11. QED
  BY <1>7, <1>8, <1>9, <1>10 DEF Safe

(* The new history is made, for set() to store.                            *)
LEMMA ValueKeepsSafe ==
  ASSUME Sound, Safe, NEW s \in Sessions, NEW from, NEW to, At(s, from, to),
         from \notin Changes, to \in {"setting", "cutting"},
         NEW h, value' = [value EXCEPT ![s] = h], OwnFits(s)',
         UNCHANGED <<file, data, via, sent, turn_count, remembered>>
  PROVE  Safe'
<1>1. pc[s] = from /\ pc'[s] = to /\ \A r \in Sessions \ {s} : pc'[r] = pc[r]
  BY DEF At, Sound, Types
<1>2. \A q \in Sessions : (Rewriting(q)' <=> Rewriting(q)) /\ (Changing(q)' <=> Changing(q))
  BY <1>1 DEF Rewriting, Changing, Rewrites, Changes
<1>3. ReadAll' = ReadAll
  BY DEF ReadAll
<1>4. \A r \in Sessions : Trimmed(r)' => Trimmed(r)
  BY <1>1 DEF Trimmed
<1>5. \A r \in Sessions \ {s} : value'[r] = value[r]
  BY DEF Sound, Types, Histories
<1>6. \A r \in Sessions \ {s} : OwnFits(r) => OwnFits(r)'
  BY <1>1, <1>5 DEF OwnFits, Turn
<1>7. (\A q \in Sessions : ~Rewriting(q)') => /\ file'.state \in {"missing", "written"}
                                              /\ \A r \in Sessions : Fitting(r, ReadAll[r])'
  BY <1>2, <1>3, <1>4 DEF Safe, Fitting
<1>8. ASSUME NEW q \in Sessions, Changing(q)', NEW r \in Sessions \ {q}
      PROVE  Fitting(r, data[q][r])' /\ (~Rewriting(q)' => data'[q][r] = ReadAll'[r])
  BY <1>2, <1>3, <1>4, <1>8 DEF Safe, Fitting
<1>9. \A r \in Sessions : OwnFits(r)'
  BY <1>6 DEF Safe
<1>10. \A q, r \in Sessions : Changing(q)' /\ Changing(r)' => q = r
  BY <1>2 DEF Safe
<1>11. QED
  BY <1>7, <1>8, <1>9, <1>10 DEF Safe

LEMMA SetReadsKeepsSafe ==
  ASSUME Sound, Safe, NEW s \in Sessions, NEW from, NEW to, SetReads(s, from, to), ~disturbed',
         <<from, to>> \in {<<"setting", "changed">>, <<"cutting", "cut">>}
  PROVE  Safe'
<1>1. /\ pc[s] = from /\ pc'[s] = to /\ \A r \in Sessions \ {s} : pc'[r] = pc[r]
      /\ data' = [data EXCEPT ![s] = AllHistories(s)]
      /\ UNCHANGED <<file, value, via, sent, turn_count, closed, crashes, remembered>>
      /\ \A q \in Sessions \ {s} : ~Changing(q)
  BY DEF SetReads, At, Sound, Types
<1>2. ~Changing(s) /\ Changing(s)' /\ ~Rewriting(s)'
  BY <1>1 DEF Changing, Rewriting
<1>3. \A q \in Sessions : ~Rewriting(q)
  BY <1>1, <1>2 DEF Changing
<1>4. \A q \in Sessions \ {s} : ~Changing(q)'
  BY <1>1 DEF Changing, Rewriting
<1>5. file.state \in {"missing", "written"} /\ \A r \in Sessions : Fitting(r, ReadAll[r])
  BY <1>3 DEF Safe
<1>6. ReadAll' = ReadAll /\ \A r \in Sessions : Trimmed(r)' => Trimmed(r)
  BY <1>1 DEF ReadAll, Trimmed
<1>7. \A r \in Sessions : Fitting(r, ReadAll[r])'
  BY <1>1, <1>5, <1>6 DEF Fitting
<1>8. data'[s][s] = value[s] /\ \A r \in Sessions \ {s} : data'[s][r] = ReadAll[r]
  <2>1. ReadAll \in Histories
    BY ReadAllFacts
  <2>2. QED
    BY <1>1, <2>1 DEF AllHistories, Sound, Types, Histories
<1>9. OwnFits(s)'
  BY <1>1, <1>8 DEF Safe, OwnFits, Turn
<1>10. \A r \in Sessions \ {s} : OwnFits(r)'
  <2>1. \A r \in Sessions \ {s} : data'[r] = data[r] /\ OwnFits(r)
    BY <1>1 DEF Safe, Sound, Types
  <2>2. QED
    BY <1>1, <2>1 DEF OwnFits, Turn
<1>11. ASSUME NEW r \in Sessions \ {s}
       PROVE  Fitting(r, data[s][r])' /\ data'[s][r] = ReadAll'[r]
  BY <1>6, <1>7, <1>8 DEF Fitting
<1>12. \A q, r \in Sessions : Changing(q)' /\ Changing(r)' => q = r
  BY <1>4
<1>13. \A q \in Sessions : Changing(q)' =>
         \A r \in Sessions \ {q} : Fitting(r, data[q][r])' /\ data'[q][r] = ReadAll'[r]
  BY <1>4, <1>11
<1>14. QED
  BY <1>1, <1>5, <1>7, <1>9, <1>10, <1>12, <1>13 DEF Safe

(* The file is emptied or half filled by the one set() there is.           *)
LEMMA EmptiesKeepsSafe ==
  ASSUME Sound, Safe, NEW s \in Sessions, NEW from, NEW to, At(s, from, to),
         <<from, to>> \in {<<"changed", "emptied">>, <<"emptied", "filling">>,
                           <<"cut", "emptied again">>, <<"emptied again", "filling again">>},
         UNCHANGED <<value, data, via, sent, turn_count, remembered>>
  PROVE  Safe'
<1>1. pc[s] = from /\ pc'[s] = to /\ \A r \in Sessions \ {s} : pc'[r] = pc[r]
  BY DEF At, Sound, Types
<1>2. Changing(s) /\ Changing(s)' /\ Rewriting(s)'
  BY <1>1 DEF Changing, Rewriting
<1>3. \A q \in Sessions \ {s} : ~Changing(q) /\ ~Changing(q)'
  BY <1>1, <1>2 DEF Safe, Changing, Rewriting
<1>4. \A r \in Sessions : Trimmed(r)' => Trimmed(r)
  BY <1>1 DEF Trimmed
<1>5. \A r \in Sessions \ {s} : Fitting(r, data[s][r])'
  BY <1>2, <1>4 DEF Safe, Fitting
<1>6. \A r \in Sessions : OwnFits(r)'
  BY <1>1 DEF Safe, OwnFits, Turn
<1>7. \A q \in Sessions : Changing(q)' => q = s
  BY <1>3
<1>8. QED
  BY <1>2, <1>5, <1>6, <1>7 DEF Safe

(* The one set() there is ends, and the file has what it has stored.       *)
LEMMA ClosesKeepsSafe ==
  ASSUME Sound, Safe, NEW s \in Sessions, NEW from \in Rewrites, NEW to, Closes(s, from, to),
         to \notin Changes \cup {"setting", "cutting"}, Fitting(s, data[s][s])',
         \A r \in Sessions \ {s} : remembered'[r] = remembered[r]
  PROVE  Safe'
<1>1. /\ pc[s] = from /\ pc'[s] = to /\ \A r \in Sessions \ {s} : pc'[r] = pc[r]
      /\ UNCHANGED <<value, data, via, sent, turn_count, closed, crashes, disturbed>>
  BY DEF Closes, At, Sound, Types
<1>2. Rewriting(s) /\ Changing(s)
  BY <1>1, Stages DEF Changes
<1>3. \A q \in Sessions \ {s} : ~Changing(q) /\ ~Rewriting(q)
  BY <1>2 DEF Safe, Changing
<1>4. \A q \in Sessions : ~Changing(q)' /\ ~Rewriting(q)'
  <2>1. ~Changing(s)' /\ ~Rewriting(s)'
    BY <1>1 DEF Changing, Rewriting, Changes, Rewrites
  <2>2. \A q \in Sessions \ {s} : ~Changing(q)' /\ ~Rewriting(q)'
    BY <1>1, <1>3 DEF Changing, Rewriting
  <2>3. QED
    BY <2>1, <2>2
<1>5. file' = [state |-> "written", content |-> data[s]]
  BY <1>3 DEF Closes
<1>6. ReadAll' = data[s] /\ file'.state = "written"
  BY <1>5 DEF ReadAll
<1>7. \A r \in Sessions \ {s} : Fitting(r, data[s][r])'
  <2>1. \A r \in Sessions \ {s} : Fitting(r, data[s][r])
    BY <1>2 DEF Safe
  <2>2. QED
    BY <1>1, <2>1 DEF Fitting, Trimmed
<1>8. \A r \in Sessions : Fitting(r, ReadAll[r])'
  <2>1. \A r \in Sessions : ReadAll'[r] = data'[s][r]
    BY <1>1, <1>6
  <2>2. QED
    BY <1>7, <2>1 DEF Fitting
<1>9. \A r \in Sessions : OwnFits(r)'
  BY <1>1 DEF Safe, OwnFits, Turn, Changes, Rewrites
<1>10. QED
  BY <1>4, <1>6, <1>8, <1>9 DEF Safe

LEMMA StepFailsKeepsSafe ==
  ASSUME Sound, Safe, NEW s \in Sessions, NEW from \in Uncounted \ Changes, StepFails(s, from)
  PROVE  Safe'
<1>1. Over(s) \in {"ran", "idle"} /\ (Over(s) = "idle" => via[s] # "send")
  BY DEF Over
<1>2. pc'[s] = Over(s) /\ via' = via
  BY DEF StepFails, At, Sound, Types
<1>3. ~Trimmed(s)'
  BY <1>1, <1>2 DEF Trimmed
<1>4. QED
  BY <1>1, <1>3, MoveKeepsSafe DEF StepFails, Changes, Rewrites

(* Nobody rewrites the file, unless a set() is disturbed.                  *)
LEMMA QuietRead ==
  ASSUME Sound, Safe, NEW s \in Sessions, Reads(s), ~disturbed', pc[s] \notin Rewrites
  PROVE  /\ \A q \in Sessions : ~Rewriting(q)
         /\ ~Torn /\ \A r \in Sessions : Fitting(r, ReadAll[r])
<1>1. \A q \in Sessions : ~Rewriting(q)
  BY Stages DEF Reads
<1>2. QED
  BY <1>1 DEF Safe, Torn

LEMMA RecallKeepsSafe ==
  ASSUME Sound, Sound', Safe, NEW s \in Sessions, Recall(s), ~disturbed'
  PROVE  Safe'
<1>1. pc[s] = "answered"
  BY DEF Recall, StepFails, At
<1>2. ~Torn /\ Fitting(s, ReadAll[s])
  BY <1>1, QuietRead DEF Recall, Rewrites
<1>3. At(s, "answered", "setting") /\ value' = [value EXCEPT ![s] = ReadAll[s] \o Turn(s)]
      /\ UNCHANGED <<file, data, via, sent, turn_count, closed, crashes, remembered>>
  BY <1>2 DEF Recall
<1>4. /\ ReadAll[s] \in Seq(Messages) /\ remembered[s] \in Seq(Messages)
      /\ Turn(s) \in Seq(Messages)
  BY <1>1, ReadAllFacts, TurnIsPair DEF Sound, Types, Histories, Uncounted
<1>5. Kept(ReadAll[s] \o Turn(s), remembered[s] \o Turn(s))
  BY <1>2, <1>4, KeptExtended DEF Fitting
<1>6. pc'[s] = "setting" /\ value'[s] = ReadAll[s] \o Turn(s) /\ Turn(s)' = Turn(s)
  BY <1>3 DEF At, Sound, Types, Histories, Turn
<1>7. OwnFits(s)'
  BY <1>3, <1>5, <1>6 DEF OwnFits
<1>8. QED
  BY <1>3, <1>7, ValueKeepsSafe DEF Changes, Rewrites

LEMMA TrimKeepsSafe ==
  ASSUME Sound, Sound', Safe, NEW s \in Sessions, Trim(s), ~disturbed'
  PROVE  Safe'
<1>1. pc[s] = "trimming" /\ Reads(s)
      /\ UNCHANGED <<file, data, via, sent, turn_count, closed, crashes, remembered>>
  BY DEF Trim, At
<1>2. ~Torn /\ Fitting(s, ReadAll[s]) /\ \A q \in Sessions : ~Rewriting(q)
  BY <1>1, QuietRead DEF Rewrites
<1>3. CASE Len(ReadAll[s]) > MaxMessages
  <2>1. At(s, "trimming", "cutting") /\ value' = [value EXCEPT ![s] = Newest(ReadAll[s])]
    BY <1>2, <1>3 DEF Trim
  <2>2. ReadAll[s] \in Seq(Messages) /\ remembered[s] \in Seq(Messages)
    BY ReadAllFacts DEF Sound, Types, Histories
  <2>3. Kept(Newest(ReadAll[s]), remembered[s]) /\ Len(Newest(ReadAll[s])) <= MaxMessages
    BY <1>2, <1>3, <2>2, KeptNewest DEF Fitting
  <2>4. pc'[s] = "cutting" /\ value'[s] = Newest(ReadAll[s])
    BY <2>1 DEF At, Sound, Types, Histories
  <2>5. OwnFits(s)'
    BY <1>1, <2>3, <2>4 DEF OwnFits
  <2>6. QED
    BY <1>1, <2>1, <2>5, ValueKeepsSafe DEF Changes, Rewrites
<1>4. CASE ~(Len(ReadAll[s]) > MaxMessages)
  <2>1. At(s, "trimming", "idle") /\ UNCHANGED value
    BY <1>4 DEF Trim
  <2>2. Len(ReadAll[s]) \in Nat /\ MaxMessages \in Nat
    BY ReadAllFacts, MaxHistoryAssumption DEF Histories, MaxMessages
  <2>3. Len(ReadAll[s]) <= MaxMessages
    BY <1>4, <2>2
  <2>4. QED
    BY <1>1, <1>2, <2>1, <2>3, MoveKeepsSafe DEF Changes, Rewrites
<1>5. QED
  BY <1>3, <1>4

LEMMA RememberTurnKeepsSafe ==
  ASSUME Sound, Sound', Safe, NEW s \in Sessions, RememberTurn(s), ~disturbed'
  PROVE  Safe'
<1>1. CASE SetReads(s, "setting", "changed")
  BY <1>1, SetReadsKeepsSafe
<1>2. CASE Torn /\ Reads(s) /\ StepFails(s, "setting")
  BY <1>2, StepFailsKeepsSafe DEF Uncounted, Changes, Rewrites
<1>3. CASE Opens(s, "changed", "emptied")
  BY <1>3, EmptiesKeepsSafe DEF Opens
<1>4. CASE Fills(s, "emptied", "filling")
  BY <1>4, EmptiesKeepsSafe DEF Fills
<1>5. CASE /\ Closes(s, "filling", "remembered")
           /\ remembered' = [remembered EXCEPT ![s] = @ \o Turn(s)]
  <2>1. /\ remembered'[s] = remembered[s] \o Turn(s)
        /\ \A r \in Sessions \ {s} : remembered'[r] = remembered[r]
    BY <1>5 DEF Sound, Types, Histories
  <2>2. pc[s] = "filling" /\ pc'[s] = "remembered" /\ data' = data
    BY <1>5 DEF Closes, At, Sound, Types
  <2>3. Kept(data[s][s], remembered[s] \o Turn(s))
    BY <2>2 DEF Safe, OwnFits
  <2>4. Fitting(s, data[s][s])'
    BY <2>1, <2>2, <2>3 DEF Fitting, Trimmed
  <2>5. QED
    BY <1>5, <2>1, <2>4, ClosesKeepsSafe DEF Changes, Rewrites
<1>6. QED
  BY <1>1, <1>2, <1>3, <1>4, <1>5 DEF RememberTurn

LEMMA StoreTrimmedKeepsSafe ==
  ASSUME Sound, Sound', Safe, NEW s \in Sessions, StoreTrimmed(s), ~disturbed'
  PROVE  Safe'
<1>1. CASE SetReads(s, "cutting", "cut")
  BY <1>1, SetReadsKeepsSafe
<1>2. CASE Torn /\ Reads(s) /\ At(s, "cutting", "idle")
  BY <1>2, QuietRead DEF At, Rewrites
<1>3. CASE Opens(s, "cut", "emptied again")
  BY <1>3, EmptiesKeepsSafe DEF Opens
<1>4. CASE Fills(s, "emptied again", "filling again")
  BY <1>4, EmptiesKeepsSafe DEF Fills
<1>5. CASE Closes(s, "filling again", "idle") /\ UNCHANGED remembered
  <2>1. pc[s] = "filling again" /\ data' = data
    BY <1>5 DEF Closes, At
  <2>2. Kept(data[s][s], remembered[s]) /\ Len(data[s][s]) <= MaxMessages
    BY <2>1 DEF Safe, OwnFits
  <2>3. Fitting(s, data[s][s])'
    BY <1>5, <2>1, <2>2 DEF Fitting
  <2>4. QED
    BY <1>5, <2>3, ClosesKeepsSafe DEF Changes, Rewrites
<1>6. QED
  BY <1>1, <1>2, <1>3, <1>4, <1>5 DEF StoreTrimmed

(* The steps that leave the file and the histories alone.                  *)
LEMMA QuietStepKeepsSafe ==
  ASSUME Sound, Safe, NEW s \in Sessions,
         \/ Send(s) \/ Ask(s) \/ Stream(s) \/ Load(s) \/ Generate(s) \/ Abandon(s)
         \/ Finalize(s) \/ CountTurn(s) \/ Close(s)
  PROVE  Safe'
<1>1. ASSUME NEW how, Begin(s, how) PROVE Safe'
  <2>1. /\ At(s, "idle", "loading") /\ UNCHANGED <<file, value, data, remembered>>
        /\ \A r \in Sessions \ {s} :
             sent'[r] = sent[r] /\ via'[r] = via[r] /\ turn_count'[r] = turn_count[r]
    BY <1>1 DEF Begin, Sound, Types
  <2>2. ~Trimmed(s)'
    BY <2>1 DEF At, Trimmed, Sound, Types
  <2>3. QED
    BY <2>1, <2>2, MoveKeepsSafe DEF Changes, Rewrites
<1>2. CASE Load(s)
  <2>1. CASE StepFails(s, "loading")
    BY <2>1, StepFailsKeepsSafe DEF Uncounted, Changes, Rewrites
  <2>2. CASE At(s, "loading", "asking")
             /\ UNCHANGED <<file, value, data, via, sent, turn_count, closed, crashes, remembered>>
    <3>1. ~Trimmed(s)'
      BY <2>2 DEF At, Trimmed, Sound, Types
    <3>2. QED
      BY <2>2, <3>1, MoveKeepsSafe DEF Changes, Rewrites
  <2>3. QED
    BY <1>2, <2>1, <2>2 DEF Load
<1>3. CASE Generate(s)
  <2>1. CASE StepFails(s, "asking")
    BY <2>1, StepFailsKeepsSafe DEF Uncounted, Changes, Rewrites
  <2>2. CASE At(s, "asking", "answered")
             /\ UNCHANGED <<file, value, data, via, sent, turn_count, closed, crashes, remembered>>
    <3>1. ~Trimmed(s)'
      BY <2>2 DEF At, Trimmed, Sound, Types
    <3>2. QED
      BY <2>2, <3>1, MoveKeepsSafe DEF Changes, Rewrites
  <2>3. QED
    BY <1>3, <2>1, <2>2 DEF Generate
<1>4. CASE Abandon(s)
  <2>1. ~Trimmed(s)'
    BY <1>4 DEF Abandon, Trimmed
  <2>2. QED
    BY <1>4, <2>1, MoveKeepsSafe DEF Abandon, Changes, Rewrites
<1>5. CASE Finalize(s)
  <2>1. CASE StepFails(s, "remembered")
    BY <2>1, StepFailsKeepsSafe DEF Uncounted, Changes, Rewrites
  <2>2. CASE At(s, "remembered", Over(s))
             /\ UNCHANGED <<file, value, data, via, sent, turn_count, closed, crashes, remembered>>
    <3>1. Over(s) \in {"ran", "idle"} /\ (Over(s) = "idle" => via[s] # "send")
      BY DEF Over
    <3>2. ~Trimmed(s)'
      BY <2>2, <3>1 DEF At, Trimmed, Sound, Types
    <3>3. QED
      BY <2>2, <3>1, <3>2, MoveKeepsSafe DEF Changes, Rewrites
  <2>3. QED
    BY <1>5, <2>1, <2>2 DEF Finalize
<1>6. CASE CountTurn(s)
  <2>1. /\ At(s, "ran", "trimming") /\ UNCHANGED <<file, value, data, remembered>>
        /\ \A r \in Sessions \ {s} :
             sent'[r] = sent[r] /\ via'[r] = via[r] /\ turn_count'[r] = turn_count[r]
    BY <1>6 DEF CountTurn, Sound, Types
  <2>2. ~Trimmed(s)'
    BY <2>1 DEF At, Trimmed, Sound, Types
  <2>3. QED
    BY <2>1, <2>2, MoveKeepsSafe DEF Changes, Rewrites
<1>7. CASE Close(s)
  BY <1>7 DEF Close, Safe, Fitting, Trimmed, OwnFits, Turn, Changing, Rewriting, ReadAll
<1>8. QED
  BY <1>1, <1>2, <1>3, <1>4, <1>5, <1>6, <1>7 DEF Send, Ask, Stream

LEMMA RestartKeepsSafe == ASSUME Sound, Safe, Restart, ~disturbed' PROVE Safe'
<1>1. /\ \A s \in Sessions : ~Rewriting(s) /\ pc'[s] = "idle" /\ turn_count'[s] = 0
      /\ UNCHANGED <<file, remembered>>
  BY DEF Restart
<1>2. \A s \in Sessions : ~Changing(s)' /\ ~Trimmed(s)' /\ OwnFits(s)'
  <2> TAKE s \in Sessions
  <2>1. ~Changing(s)'
    BY <1>1 DEF Changing, Rewriting
  <2>2. ~Trimmed(s)'
    BY <1>1 DEF Trimmed
  <2>3. OwnFits(s)'
    BY <1>1 DEF OwnFits
  <2>4. QED
    BY <2>1, <2>2, <2>3
<1>3. file.state \in {"missing", "written"} /\ \A s \in Sessions : Fitting(s, ReadAll[s])
  BY <1>1 DEF Safe
<1>4. \A s \in Sessions : Fitting(s, ReadAll[s])'
  BY <1>1, <1>2, <1>3 DEF Fitting, ReadAll
<1>5. QED
  BY <1>1, <1>2, <1>3, <1>4 DEF Safe

LEMMA DisturbedStays == [Next]_vars /\ disturbed => disturbed'
<1> SUFFICES ASSUME [Next]_vars, disturbed PROVE disturbed'
  OBVIOUS
<1>1. ASSUME NEW s \in Sessions,
             \/ Send(s) \/ Ask(s) \/ Stream(s) \/ Load(s) \/ Generate(s) \/ Abandon(s) \/ Recall(s)
             \/ Finalize(s) \/ CountTurn(s) \/ Trim(s) \/ Close(s)
      PROVE  disturbed'
  BY <1>1 DEF Send, Ask, Stream, Begin, Load, Generate, Abandon, Recall, Finalize, CountTurn,
              Trim, Close, Reads
<1>2. ASSUME NEW s \in Sessions, RememberTurn(s) \/ StoreTrimmed(s) PROVE disturbed'
  BY <1>2 DEF RememberTurn, StoreTrimmed, SetReads, Opens, Fills, Closes, Reads
<1>3. QED
  BY <1>1, <1>2 DEF Next, Restart, vars

LEMMA StepSafe == Sound /\ Sound' /\ SafeUnlessDisturbed /\ [Next]_vars => SafeUnlessDisturbed'
<1> SUFFICES ASSUME Sound, Sound', SafeUnlessDisturbed, [Next]_vars, ~disturbed' PROVE Safe'
  BY DEF SafeUnlessDisturbed
<1>1. Safe
  BY DisturbedStays DEF SafeUnlessDisturbed
<1>2. ASSUME NEW s \in Sessions,
             \/ Send(s) \/ Ask(s) \/ Stream(s) \/ Load(s) \/ Generate(s) \/ Abandon(s)
             \/ Finalize(s) \/ CountTurn(s) \/ Close(s)
      PROVE  Safe'
  BY <1>1, <1>2, QuietStepKeepsSafe
<1>3. ASSUME NEW s \in Sessions, Recall(s) \/ RememberTurn(s) \/ Trim(s) \/ StoreTrimmed(s)
      PROVE  Safe'
  BY <1>1, <1>3, RecallKeepsSafe, RememberTurnKeepsSafe, TrimKeepsSafe, StoreTrimmedKeepsSafe
<1>4. CASE Restart
  BY <1>1, <1>4, RestartKeepsSafe
<1>5. CASE UNCHANGED vars
  BY <1>1, <1>5 DEF vars, Safe, Fitting, Trimmed, OwnFits, Turn, Changing, Rewriting, ReadAll
<1>6. QED
  BY <1>2, <1>3, <1>4, <1>5 DEF Next

LEMMA InitSafe == Init => SafeUnlessDisturbed
<1> SUFFICES ASSUME Init PROVE Safe
  BY DEF SafeUnlessDisturbed
<1>1. \A s \in Sessions : ReadAll[s] = << >> /\ remembered[s] = << >> /\ ~Trimmed(s)
  BY DEF Init, ReadAll, Nobody, Trimmed
<1>2. \A s \in Sessions : Fitting(s, ReadAll[s])
  BY <1>1, NothingIsKept DEF Fitting
<1>3. \A s \in Sessions : ~Changing(s) /\ OwnFits(s)
  BY DEF Init, Changing, Rewriting, OwnFits
<1>4. QED
  BY <1>2, <1>3 DEF Init, Safe

LEMMA SafeInvariant == Spec => []SafeUnlessDisturbed
BY InitSafe, StepSafe, SoundInvariant, PTL DEF Spec

(* persistent_memory.py:16-32, session.py:31-36: for any number of         *)
(* sessions, turns and restarts, as long as no access and no crash falls   *)
(* inside a set(), no conversation loses one of its latest turns, whatever *)
(* the others store in the same file; a send() leaves no more than these.  *)
THEOREM HistoriesAreKept == Spec => []HistoryKept
<1>1. SafeUnlessDisturbed => HistoryKept
  BY DEF SafeUnlessDisturbed, Safe, HistoryKept, Fitting, Kept, Trimmed
<1>2. QED
  BY <1>1, SafeInvariant, PTL

-----------------------------------------------------------------------------
(* The connection to an MCP server (module McpClient), for any number of   *)
(* calls and threads.  The queue is first in, first out, and the None of   *)
(* __exit__ goes in once, behind every call that was made inside the       *)
(* `with` block: an early call that is not answered is the one being       *)
(* served, or stands before any None.                                      *)

Gone == task \in {"broken", "cancelled"}
TaskEnds == Gone \/ task \in {"closing", "closed"}
ServedNow(c) == task \in {"busy", "silent"} /\ serving = c
BeforeStop(c) == \E i \in 1 .. Len(queue) :
                    queue[i] = c /\ \A j \in 1 .. i : queue[j] # Stop

(* Where __exit__ has got to, by the None and the task it ends.            *)
Stopping == main \in {"leaving", "left", "exit raised"}
StopFollowsExit ==
  (task \in {"closing", "closed"} \/ \E i \in 1 .. Len(queue) : queue[i] = Stop) => Stopping

LoopRuns == main \in {"entering", "inside", "leaving"} => loop
NotStarted == main = "outside" => task = "none"
ServesCalls == task \in {"busy", "silent"} => serving \in Calls

InOrder == \A c \in early : Answered(c) \/ Gone \/ ServedNow(c) \/ BeforeStop(c)

ClientInv == /\ McpTypeOK /\ SignalNotLost /\ AnsweredBeforeClosed
             /\ StopFollowsExit /\ LoopRuns /\ NotStarted /\ ServesCalls /\ InOrder

-----------------------------------------------------------------------------
(* The queue: what stays before any None when an item goes in or out.      *)

LEMMA PutBehind ==
  ASSUME ClientInv, NEW item \in Calls \cup {Stop}, NEW c, queue' = Append(queue, item)
  PROVE  BeforeStop(c) => BeforeStop(c)'
<1> SUFFICES ASSUME NEW i \in 1 .. Len(queue), queue[i] = c,
                    \A j \in 1 .. i : queue[j] # Stop
             PROVE  BeforeStop(c)'
  BY DEF BeforeStop
<1>1. queue \in Seq(Calls \cup {Stop})
  BY DEF ClientInv, McpTypeOK
<1>2. /\ Len(queue') = Len(queue) + 1
      /\ \A j \in 1 .. Len(queue) : queue'[j] = queue[j]
  BY <1>1
<1>3. i \in 1 .. Len(queue') /\ queue'[i] = c /\ \A j \in 1 .. i : queue'[j] # Stop
  BY <1>1, <1>2
<1>4. QED
  BY <1>3 DEF BeforeStop

LEMMA CallLast ==
  ASSUME ClientInv, NEW c \in Calls, ~Stopping, queue' = Append(queue, c)
  PROVE  BeforeStop(c)'
<1>1. queue \in Seq(Calls \cup {Stop}) /\ \A j \in 1 .. Len(queue) : queue[j] # Stop
  BY DEF ClientInv, McpTypeOK, StopFollowsExit
<1>2. /\ Len(queue') = Len(queue) + 1 /\ queue'[Len(queue) + 1] = c
      /\ \A j \in 1 .. Len(queue) : queue'[j] = queue[j]
  BY <1>1
<1>3. \A j \in 1 .. Len(queue') : queue'[j] # Stop
  BY <1>1, <1>2, StopAssumption
<1>4. Len(queue') \in 1 .. Len(queue') /\ queue'[Len(queue')] = c
  BY <1>1, <1>2
<1>5. QED
  BY <1>3, <1>4 DEF BeforeStop

LEMMA TakeInOrder ==
  ASSUME ClientInv, Take, NEW c, BeforeStop(c)
  PROVE  ServedNow(c)' \/ BeforeStop(c)'
<1>1. PICK i \in 1 .. Len(queue) : queue[i] = c /\ \A j \in 1 .. i : queue[j] # Stop
  BY DEF BeforeStop
<1>2. queue \in Seq(Calls \cup {Stop}) /\ queue # << >> /\ queue' = Tail(queue)
  BY DEF ClientInv, McpTypeOK, Take
<1>3. Head(queue) = queue[1] /\ queue[1] # Stop
  BY <1>1, <1>2
<1>4. task' = "busy" /\ serving' = queue[1]
  BY <1>3 DEF Take, TaskMoves
<1>5. CASE i = 1
  BY <1>1, <1>4, <1>5 DEF ServedNow
<1>6. CASE i # 1
  <2>1. Len(queue') = Len(queue) - 1 /\ \A j \in 1 .. Len(queue) - 1 : queue'[j] = queue[j + 1]
    BY <1>2
  <2>2. i - 1 \in 1 .. Len(queue') /\ queue'[i - 1] = c
    BY <1>1, <1>2, <1>6, <2>1
  <2>3. \A j \in 1 .. i - 1 : queue'[j] # Stop
    BY <1>1, <1>2, <2>1
  <2>4. QED
    BY <2>2, <2>3 DEF BeforeStop
<1>7. QED
  BY <1>5, <1>6

-----------------------------------------------------------------------------
LEMMA ClientStarts == McpInit => ClientInv
<1> SUFFICES ASSUME McpInit PROVE ClientInv
  OBVIOUS
<1>1. McpTypeOK
  <2>1. queue \in Seq(Calls \cup {Stop})
    BY EmptySeq DEF McpInit
  <2>2. call \in [Calls -> {"none", "waiting"} \cup Outcomes]
    BY DEF McpInit
  <2>3. QED
    BY <2>1, <2>2 DEF McpInit, McpTypeOK
<1>2. QED
  BY <1>1 DEF McpInit, ClientInv, SignalNotLost, AnsweredBeforeClosed, StopFollowsExit, Stopping,
              LoopRuns, NotStarted, ServesCalls, InOrder

LEMMA ClientTypeKeeps ==
  ASSUME McpTypeOK, [McpNext]_mcpVars
  PROVE  McpTypeOK'
<1>1. CASE Enter \/ EnterReturns \/ EnterRaises \/ ExitReturns \/ ExitRaises
  BY <1>1 DEF Enter, EnterReturns, EnterRaises, ExitReturns, ExitRaises, Moves, McpTypeOK
<1>2. CASE Exit
  <2>1. queue' \in Seq(Calls \cup {Stop})
    BY <1>2, AppendProperties DEF Exit, StopLast, McpTypeOK
  <2>2. QED
    BY <1>2, <2>1 DEF Exit, Moves, McpTypeOK
<1>3. CASE Connect \/ ConnectFails \/ Silence \/ Break \/ CloseConnection
  BY <1>3 DEF Connect, ConnectFails, Silence, Break, CloseConnection, TaskMoves, McpTypeOK
<1>4. CASE Take
  <2>1. Head(queue) \in Calls \cup {Stop} /\ Tail(queue) \in Seq(Calls \cup {Stop})
    BY <1>4, HeadTailProperties DEF Take, McpTypeOK
  <2>2. QED
    BY <1>4, <2>1 DEF Take, TaskMoves, McpTypeOK
<1>5. CASE Answer
  BY <1>5 DEF Answer, HandedBack, Outcomes, TaskMoves, McpTypeOK
<1>6. ASSUME NEW c \in Calls, Put(c) PROVE McpTypeOK'
  <2>1. queue' \in Seq(Calls \cup {Stop})
    BY <1>6, AppendProperties DEF Put, McpTypeOK
  <2>2. QED
    BY <1>6, <2>1 DEF Put, McpTypeOK
<1>7. CASE UNCHANGED mcpVars
  BY <1>7 DEF mcpVars, McpTypeOK
<1>8. QED
  BY <1>1, <1>2, <1>3, <1>4, <1>5, <1>6, <1>7 DEF McpNext

(* The steps that leave the queue and the calls alone.                     *)
Quiet == UNCHANGED <<queue, call, early, serving>>

LEMMA QuietKeeps ==
  ASSUME ClientInv, McpTypeOK', Quiet,
         \/ Enter \/ EnterReturns \/ EnterRaises \/ ExitReturns \/ ExitRaises
         \/ Connect \/ ConnectFails \/ Silence \/ Break \/ CloseConnection \/ UNCHANGED mcpVars
  PROVE  ClientInv'
<1> DEFINE Told == /\ task' \in {"closing", "closed"} => task \in {"closing", "closed"}
                   /\ Stopping <=> Stopping'
                   /\ TaskEnds => TaskEnds'
                   /\ task' \in {"busy", "silent"} => task \in {"busy", "silent"}
                   /\ Gone => Gone'
                   /\ task \in {"busy", "silent"} => task' = task \/ task' = "silent" \/ Gone'
                   /\ LoopRuns' /\ NotStarted'
<1>1. Told
  <2> USE DEF ClientInv, McpTypeOK, LoopRuns, NotStarted, Stopping, Gone, TaskEnds, Moves, TaskMoves
  <2>1. CASE Enter \/ EnterReturns \/ EnterRaises
    BY <2>1 DEF Enter, EnterReturns, EnterRaises
  <2>2. CASE ExitReturns \/ ExitRaises
    BY <2>2 DEF ExitReturns, ExitRaises, TaskReturned
  <2>3. CASE Connect \/ ConnectFails
    BY <2>3 DEF Connect, ConnectFails
  <2>4. CASE Silence \/ Break
    BY <2>4 DEF Silence, Break
  <2>5. CASE CloseConnection
    BY <2>5 DEF CloseConnection
  <2>6. CASE UNCHANGED mcpVars
    BY <2>6 DEF mcpVars
  <2>7. QED
    BY <2>1, <2>2, <2>3, <2>4, <2>5, <2>6
<1>2. \A c \in early : Answered(c) => Answered(c)'
  BY DEF Quiet, Answered
<1>3. AnsweredBeforeClosed' /\ SignalNotLost' /\ StopFollowsExit' /\ ServesCalls'
  <2>1. AnsweredBeforeClosed'
    BY <1>1, <1>2 DEF ClientInv, Quiet, AnsweredBeforeClosed
  <2>2. StopFollowsExit' /\ ServesCalls'
    BY <1>1 DEF ClientInv, Quiet, StopFollowsExit, ServesCalls
  <2>3. SignalNotLost'
    BY <1>1 DEF ClientInv, Quiet, SignalNotLost, Stopping, TaskEnds, Gone
  <2>4. QED
    BY <2>1, <2>2, <2>3
<1>4. ASSUME NEW c \in early
      PROVE  (Answered(c) \/ Gone \/ ServedNow(c) \/ BeforeStop(c))'
  <2>1. (Answered(c) => Answered(c)') /\ (BeforeStop(c) => BeforeStop(c)')
    BY DEF Quiet, Answered, BeforeStop
  <2>2. ServedNow(c) => ServedNow(c)' \/ Gone'
    BY <1>1 DEF ServedNow, Quiet
  <2>3. QED
    BY <1>1, <1>4, <2>1, <2>2 DEF ClientInv, InOrder
<1>5. InOrder'
  BY <1>4 DEF InOrder, Quiet
<1>6. QED
  BY <1>1, <1>3, <1>5 DEF ClientInv

LEMMA ExitKeeps ==
  ASSUME ClientInv, McpTypeOK', Exit
  PROVE  ClientInv'
<1>1. /\ main = "inside" /\ main' = "leaving" /\ queue' = Append(queue, Stop)
      /\ UNCHANGED <<ready, task, serving, loop, call, early>>
  BY DEF Exit, Moves, StopLast
<1>2. LoopRuns' /\ NotStarted' /\ StopFollowsExit' /\ ServesCalls'
  BY <1>1 DEF ClientInv, McpTypeOK, LoopRuns, NotStarted, StopFollowsExit, Stopping, ServesCalls
<1>3. AnsweredBeforeClosed'
  BY <1>1 DEF ClientInv, AnsweredBeforeClosed, Answered
<1>4. ASSUME NEW c \in early
      PROVE  (Answered(c) \/ Gone \/ ServedNow(c) \/ BeforeStop(c))'
  <2>1. BeforeStop(c) => BeforeStop(c)'
    BY <1>1, PutBehind
  <2>2. QED
    BY <1>1, <1>4, <2>1 DEF ClientInv, InOrder, Answered, Gone, ServedNow
<1>5. SignalNotLost'
  <2>1. queue \in Seq(Calls \cup {Stop})
    BY DEF ClientInv, McpTypeOK
  <2>2. Len(queue') \in 1 .. Len(queue') /\ queue'[Len(queue')] = Stop
    BY <1>1, <2>1
  <2>3. QED
    BY <2>2 DEF SignalNotLost
<1>6. QED
  BY <1>1, <1>2, <1>3, <1>4, <1>5 DEF ClientInv, InOrder

LEMMA TakeKeeps ==
  ASSUME ClientInv, McpTypeOK', Take
  PROVE  ClientInv'
<1>1. /\ queue # << >> /\ queue \in Seq(Calls \cup {Stop}) /\ task = "idle"
      /\ task' = IF Head(queue) = Stop THEN "closing" ELSE "busy"
      /\ serving' = Head(queue) /\ queue' = Tail(queue)
      /\ UNCHANGED <<main, ready, loop, call, early>>
  BY DEF Take, TaskMoves, ClientInv, McpTypeOK
<1>2. 1 \in 1 .. Len(queue) /\ Head(queue) = queue[1]
  BY <1>1
<1>3. /\ Len(queue') = Len(queue) - 1
      /\ \A j \in 1 .. Len(queue') : j + 1 \in 1 .. Len(queue) /\ queue'[j] = queue[j + 1]
  BY <1>1
<1>4. LoopRuns' /\ NotStarted'
  BY <1>1 DEF ClientInv, LoopRuns, NotStarted
<1>5. StopFollowsExit'
  BY <1>1, <1>2, <1>3 DEF ClientInv, StopFollowsExit, Stopping
<1>6. ServesCalls'
  BY <1>1, <1>2 DEF ServesCalls, ClientInv, McpTypeOK
<1>7. ASSUME NEW c \in early
      PROVE  Answered(c)' \/ (Head(queue) # Stop /\ (ServedNow(c) \/ BeforeStop(c))')
  <2>1. Answered(c) \/ BeforeStop(c)
    BY <1>1, <1>7 DEF ClientInv, InOrder, Gone, ServedNow
  <2>2. CASE Answered(c)
    BY <1>1, <2>2 DEF Answered
  <2>3. CASE BeforeStop(c)
    <3>1. Head(queue) # Stop
      BY <1>2, <2>3 DEF BeforeStop
    <3>2. QED
      BY <2>3, <3>1, TakeInOrder
  <2>4. QED
    BY <2>1, <2>2, <2>3
<1>8. AnsweredBeforeClosed'
  BY <1>1, <1>7 DEF AnsweredBeforeClosed
<1>9. InOrder'
  BY <1>1, <1>7 DEF InOrder
<1>10. SignalNotLost'
  <2> SUFFICES ASSUME Stopping, task' = "busy"
               PROVE  \E i \in 1 .. Len(queue') : queue'[i] = Stop
    BY <1>1 DEF SignalNotLost, Stopping
  <2>1. PICK i \in 1 .. Len(queue) : queue[i] = Stop
    BY <1>1 DEF ClientInv, SignalNotLost, Stopping
  <2>2. i # 1
    BY <1>1, <1>2, <2>1
  <2>3. i - 1 \in 1 .. Len(queue') /\ queue'[i - 1] = queue[i]
    BY <1>1, <1>3, <2>2
  <2>4. QED
    BY <2>1, <2>3
<1>11. QED
  BY <1>4, <1>5, <1>6, <1>8, <1>9, <1>10 DEF ClientInv

LEMMA AnswerKeeps ==
  ASSUME ClientInv, McpTypeOK', Answer
  PROVE  ClientInv'
<1>1. /\ task = "busy" /\ task' = "idle" /\ serving \in Calls
      /\ UNCHANGED <<main, ready, serving, loop, queue, early>>
  BY DEF Answer, TaskMoves, ClientInv, ServesCalls
<1>2. PICK outcome \in Outcomes : call' = [call EXCEPT ![serving] = outcome]
  BY DEF Answer, HandedBack
<1>3. \A c \in early : (Answered(c) \/ ServedNow(c)) => Answered(c)'
  BY <1>1, <1>2 DEF ClientInv, McpTypeOK, Answered, ServedNow
<1>4. /\ SignalNotLost' /\ LoopRuns' /\ NotStarted' /\ StopFollowsExit' /\ ServesCalls'
      /\ AnsweredBeforeClosed'
  BY <1>1 DEF ClientInv, SignalNotLost, LoopRuns, NotStarted, StopFollowsExit, Stopping, ServesCalls,
              AnsweredBeforeClosed
<1>5. InOrder'
  BY <1>1, <1>3 DEF ClientInv, InOrder, Gone, BeforeStop
<1>6. QED
  BY <1>4, <1>5 DEF ClientInv

LEMMA PutKeeps ==
  ASSUME ClientInv, McpTypeOK', NEW d \in Calls, Put(d)
  PROVE  ClientInv'
<1>1. /\ main \in {"inside", "leaving", "left", "exit raised"} /\ call[d] = "none"
      /\ call' = [call EXCEPT ![d] = "waiting"]
      /\ queue' = IF loop THEN Append(queue, d) ELSE queue
      /\ early' = IF main = "inside" THEN early \cup {d} ELSE early
      /\ UNCHANGED <<main, ready, task, serving, loop>>
  BY DEF Put
<1>2. queue \in Seq(Calls \cup {Stop}) /\ (main = "inside" => loop /\ ~Stopping)
  BY DEF ClientInv, McpTypeOK, LoopRuns, Stopping
<1>3. LoopRuns' /\ NotStarted' /\ ServesCalls'
  BY <1>1 DEF ClientInv, LoopRuns, NotStarted, ServesCalls
<1>4. StopFollowsExit'
  <2>1. \A i \in 1 .. Len(queue') :
          queue'[i] = Stop => \E j \in 1 .. Len(queue) : queue[j] = Stop
    <3>1. CASE queue' = queue
      BY <3>1
    <3>2. CASE queue' = Append(queue, d)
      BY <1>2, <3>2, StopAssumption
    <3>3. QED
      BY <1>1, <3>1, <3>2
  <2>2. QED
    BY <1>1, <2>1 DEF ClientInv, StopFollowsExit, Stopping
<1>5. \A c \in early : Answered(c) => Answered(c)'
  BY <1>1 DEF ClientInv, McpTypeOK, Answered, Outcomes
<1>6. ASSUME NEW c \in early
      PROVE  (Answered(c) \/ Gone \/ ServedNow(c) \/ BeforeStop(c))'
  <2>1. BeforeStop(c) => BeforeStop(c)'
    <3>1. CASE queue' = queue
      BY <3>1 DEF BeforeStop
    <3>2. CASE queue' = Append(queue, d)
      BY <3>2, PutBehind
    <3>3. QED
      BY <1>1, <3>1, <3>2
  <2>2. QED
    BY <1>1, <1>5, <1>6, <2>1 DEF ClientInv, InOrder, Gone, ServedNow
<1>7. InOrder'
  <2>1. CASE main = "inside"
    <3>1. BeforeStop(d)'
      BY <1>1, <1>2, <2>1, CallLast
    <3>2. QED
      BY <1>1, <1>6, <2>1, <3>1 DEF InOrder
  <2>2. CASE main # "inside"
    BY <1>1, <1>6, <2>2 DEF InOrder
  <2>3. QED
    BY <2>1, <2>2
<1>8. AnsweredBeforeClosed'
  BY <1>1, <1>2, <1>5 DEF ClientInv, AnsweredBeforeClosed, StopFollowsExit
<1>9. SignalNotLost'
  <2>1. \A i \in 1 .. Len(queue) : i \in 1 .. Len(queue') /\ queue'[i] = queue[i]
    <3>1. CASE queue' = queue
      BY <3>1
    <3>2. CASE queue' = Append(queue, d)
      BY <1>2, <3>2
    <3>3. QED
      BY <1>1, <3>1, <3>2
  <2>2. QED
    BY <1>1, <2>1 DEF ClientInv, SignalNotLost
<1>10. QED
  BY <1>3, <1>4, <1>7, <1>8, <1>9 DEF ClientInv

-----------------------------------------------------------------------------
(* The types, and where each early call stands in the queue, for any       *)
(* number of calls.                                                        *)
THEOREM ClientInductive == McpSpec => []ClientInv
<1>1. ClientInv /\ [McpNext]_mcpVars => ClientInv'
  <2> SUFFICES ASSUME ClientInv, [McpNext]_mcpVars PROVE ClientInv'
    OBVIOUS
  <2>1. McpTypeOK'
    BY ClientTypeKeeps DEF ClientInv
  <2>2. CASE \/ Enter \/ EnterReturns \/ EnterRaises \/ ExitReturns \/ ExitRaises
             \/ Connect \/ ConnectFails \/ Silence \/ Break \/ CloseConnection
             \/ UNCHANGED mcpVars
    <3>1. Quiet
      BY <2>2 DEF Quiet, Enter, EnterReturns, EnterRaises, ExitReturns, ExitRaises, Connect,
                  ConnectFails, Silence, Break, CloseConnection, mcpVars
    <3>2. QED
      BY <2>1, <2>2, <3>1, QuietKeeps
  <2>3. CASE Exit
    BY <2>1, <2>3, ExitKeeps
  <2>4. CASE Take
    BY <2>1, <2>4, TakeKeeps
  <2>5. CASE Answer
    BY <2>1, <2>5, AnswerKeeps
  <2>6. ASSUME NEW c \in Calls, Put(c) PROVE ClientInv'
    BY <2>1, <2>6, PutKeeps
  <2>7. QED
    BY <2>2, <2>3, <2>4, <2>5, <2>6 DEF McpNext
<1>2. QED
  BY <1>1, ClientStarts, PTL DEF McpSpec

(* Whatever the server does and however many threads call, the connection  *)
(* is closed only when every call made inside the `with` block has its     *)
(* answer (mcp_tools.py:186-207, 245-253).                                 *)
THEOREM CallsAreNotCutOff == McpSpec => []AnsweredBeforeClosed
<1>1. ClientInv => AnsweredBeforeClosed
  BY DEF ClientInv
<1>2. QED
  BY <1>1, ClientInductive, PTL

(* Whatever calls wait when __exit__ puts its None in the queue, or come   *)
(* after it, the None stands there until the task takes it or its          *)
(* connection is gone: it cannot be lost, also when __exit__ gives up      *)
(* waiting (mcp_tools.py:190-193, 245-253).                                *)
THEOREM SignalIsNotLost == McpSpec => []SignalNotLost
<1>1. ClientInv => SignalNotLost
  BY DEF ClientInv
<1>2. QED
  BY <1>1, ClientInductive, PTL

==============================================================================
