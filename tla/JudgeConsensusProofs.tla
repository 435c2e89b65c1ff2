------------------------- MODULE JudgeConsensusProofs -------------------------
(***************************************************************************)
(* Any number of runs that share one judge, any responses: what a run has  *)
(* read through describe_last_call() is of its own call, unless another    *)
(* call has fallen in between.                                             *)
(* And what a run has agreed on is what its response says.                 *)
(***************************************************************************)
EXTENDS JudgeConsensus, TLAPS

(* Between the judgment and the question, _last_call_metadata is this      *)
(* run's; from the question to the next call, what was read is.            *)
OwnWhileDescribed(r) == pc[r] = "described" => metadata = Metadata(r)
OwnOnceRead(r) == pc[r] = "idle" /\ calls[r] > 0 => reported[r] = Metadata(r)

Functions ==
  /\ pc \in [Runs -> {"idle", "asking", "judging", "described", "failed"}]
  /\ calls \in [Runs -> Nat]
  /\ DOMAIN response = Runs /\ response = [r \in Runs |-> response[r]]
  /\ DOMAIN reported = Runs /\ reported = [r \in Runs |-> reported[r]]

IInv ==
  /\ Functions
  /\ \A r \in Runs \ disturbed : OwnWhileDescribed(r) /\ OwnOnceRead(r)

-----------------------------------------------------------------------------
LEMMA InitIInv == Init => IInv
BY DEF Init, IInv, Functions, OwnWhileDescribed, OwnOnceRead

(* The details of a call depend on the judge, the run's call and response. *)
LEMMA SameDetails ==
  ASSUME NEW r \in Runs, mode' = mode, calls'[r] = calls[r], response'[r] = response[r]
  PROVE  Metadata(r)' = Metadata(r)
BY DEF Metadata, Field

LEMMA CallIInv == ASSUME IInv, NEW r \in Runs, Call(r) PROVE IInv'
<1>1. Functions'
  <2>1. pc' \in [Runs -> {"idle", "asking", "judging", "described", "failed"}]
        /\ calls' \in [Runs -> Nat]
    BY DEF IInv, Functions, Call, At
  <2>2. DOMAIN response' = Runs /\ response' = [q \in Runs |-> response'[q]]
    BY DEF IInv, Functions, Call
  <2>3. DOMAIN reported' = Runs /\ reported' = [q \in Runs |-> reported'[q]]
    BY DEF IInv, Functions, Call
  <2>4. QED
    BY <2>1, <2>2, <2>3 DEF Functions
<1>2. ASSUME NEW q \in Runs \ disturbed' PROVE (OwnWhileDescribed(q) /\ OwnOnceRead(q))'
  <2>1. CASE q = r
    BY <2>1 DEF IInv, Functions, Call, At, OwnWhileDescribed, OwnOnceRead
  <2>2. CASE q # r
    <3>1. /\ pc'[q] = pc[q] /\ calls'[q] = calls[q] /\ reported'[q] = reported[q]
          /\ response'[q] = response[q] /\ mode' = mode
      BY <2>2 DEF IInv, Functions, Call, At
    <3>2. pc[q] # "described" /\ q \notin disturbed
      BY <1>2, <2>2 DEF Call
    <3>3. Metadata(q)' = Metadata(q)
      BY <3>1, SameDetails
    <3>4. QED
      BY <3>1, <3>2, <3>3 DEF IInv, OwnWhileDescribed, OwnOnceRead
  <2>3. QED
    BY <2>1, <2>2
<1>3. QED
  BY <1>1, <1>2 DEF IInv

LEMMA JudgeIInv == ASSUME IInv, NEW r \in Runs, Judge(r) PROVE IInv'
<1>1. Functions'
  BY DEF IInv, Functions, Judge, At
<1>2. ASSUME NEW q \in Runs \ disturbed' PROVE (OwnWhileDescribed(q) /\ OwnOnceRead(q))'
  <2>1. Metadata(q)' = Metadata(q)
    BY SameDetails DEF Judge
  <2>2. CASE q = r
    <3>1. pc'[r] = "described" /\ metadata' = Metadata(r)
      BY DEF IInv, Functions, Judge, At, Leaves
    <3>2. QED
      BY <2>1, <2>2, <3>1 DEF OwnWhileDescribed, OwnOnceRead
  <2>3. CASE q # r
    <3>1. pc'[q] = pc[q] /\ calls' = calls /\ reported' = reported
      BY <2>3 DEF IInv, Functions, Judge, At
    <3>2. pc[q] # "described" /\ q \notin disturbed
      BY <1>2, <2>3 DEF Judge, Touches
    <3>3. QED
      BY <2>1, <3>1, <3>2 DEF IInv, OwnWhileDescribed, OwnOnceRead
  <2>4. QED
    BY <2>2, <2>3
<1>3. QED
  BY <1>1, <1>2 DEF IInv

LEMMA DescribeIInv == ASSUME IInv, NEW r \in Runs, Describe(r) PROVE IInv'
<1>1. Functions'
  BY DEF IInv, Functions, Describe, At
<1>2. ASSUME NEW q \in Runs \ disturbed PROVE (OwnWhileDescribed(q) /\ OwnOnceRead(q))'
  <2>1. Metadata(q)' = Metadata(q)
    BY SameDetails DEF Describe
  <2>2. CASE q = r
    <3>1. metadata = Metadata(r)
      BY <1>2, <2>2 DEF IInv, OwnWhileDescribed, Describe, At
    <3>2. pc'[r] = "idle" /\ reported'[r] = metadata
      BY DEF IInv, Functions, Describe, At
    <3>3. QED
      BY <2>1, <2>2, <3>1, <3>2 DEF OwnWhileDescribed, OwnOnceRead
  <2>3. CASE q # r
    <3>1. /\ pc'[q] = pc[q] /\ calls' = calls /\ reported'[q] = reported[q]
          /\ metadata' = metadata
      BY <2>3 DEF IInv, Functions, Describe, At
    <3>2. QED
      BY <1>2, <2>1, <3>1 DEF IInv, OwnWhileDescribed, OwnOnceRead
  <2>4. QED
    BY <2>2, <2>3
<1>3. disturbed' = disturbed
  BY DEF Describe
<1>4. QED
  BY <1>1, <1>2, <1>3 DEF IInv

LEMMA OtherIInv == ASSUME IInv, NEW r \in Runs, Generate(r) \/ Fails(r) PROVE IInv'
<1>1. Functions'
  BY DEF IInv, Functions, Generate, Fails, At
<1>2. pc'[r] \notin {"described", "idle"}
  BY DEF IInv, Functions, Generate, Fails, At
<1>3. ASSUME NEW q \in Runs \ disturbed PROVE (OwnWhileDescribed(q) /\ OwnOnceRead(q))'
  <2>1. CASE q = r
    BY <1>2, <2>1 DEF OwnWhileDescribed, OwnOnceRead
  <2>2. CASE q # r
    <3>1. /\ pc'[q] = pc[q] /\ calls' = calls /\ reported' = reported
          /\ response'[q] = response[q] /\ mode' = mode /\ metadata' = metadata
      BY <2>2 DEF IInv, Functions, Generate, Fails, At
    <3>2. Metadata(q)' = Metadata(q)
      BY <3>1, SameDetails
    <3>3. QED
      BY <1>3, <3>1, <3>2 DEF IInv, OwnWhileDescribed, OwnOnceRead
  <2>3. QED
    BY <2>1, <2>2
<1>4. disturbed' = disturbed
  BY DEF Generate, Fails
<1>5. QED
  BY <1>1, <1>3, <1>4 DEF IInv

LEMMA StepIInv == IInv /\ [Next]_vars => IInv'
<1> SUFFICES ASSUME IInv, [Next]_vars PROVE IInv'
  OBVIOUS
<1>1. ASSUME NEW r \in Runs,
             Call(r) \/ Generate(r) \/ Judge(r) \/ Fails(r) \/ Describe(r)
      PROVE  IInv'
  BY <1>1, CallIInv, JudgeIInv, DescribeIInv, OtherIInv
<1>2. CASE UNCHANGED vars
  <2>1. \A r \in Runs : Metadata(r)' = Metadata(r)
    BY <1>2, SameDetails DEF vars
  <2>2. QED
    BY <1>2, <2>1 DEF vars, IInv, Functions, OwnWhileDescribed, OwnOnceRead
<1>3. QED
  BY <1>1, <1>2 DEF Next

-----------------------------------------------------------------------------
(* What the journal says of a judgment, its confidence above all, is said  *)
(* of that very call: not of an earlier one, nor of a failed one, and of   *)
(* another run's only if that run's call fell between the judge's return   *)
(* and describe_last_call() (judge_consensus.py:313-319), for any number   *)
(* of runs and calls.                                                      *)
THEOREM JudgmentsAreTheirOwn == Spec => []MetadataIsOwn
<1>1. IInv => MetadataIsOwn
  BY DEF IInv, OwnOnceRead, MetadataIsOwn
<1>2. QED
  BY <1>1, InitIInv, StepIInv, PTL DEF Spec
-----------------------------------------------------------------------------
(* What a run has agreed on, for any responses.                            *)

(* The value of a call that agreed is the one its response says.           *)
Said(r) ==
  agreed[r] # Nothing =>
    /\ calls[r] > 0 /\ response[r] \in Responses /\ Agrees(r)
    /\ agreed[r] = IF Structured THEN Field(r, "answer") ELSE response[r].value

(* A call in the judge's hands has its response; one that has been judged  *)
(* has agreed to it, and its fallback is decided by what it left.          *)
Decided(r) ==
  /\ pc[r] = "judging" => response[r] \in Responses /\ calls[r] > 0
  /\ pc[r] = "asking" => calls[r] > 0
  /\ pc[r] \in {"asking", "judging"} => agreed[r] = Nothing
  /\ pc[r] = "idle" /\ calls[r] > 0 /\ r \notin disturbed => (fell[r] <=> IsLow(Metadata(r)))

Verdicts ==
  /\ DOMAIN agreed = Runs /\ DOMAIN fell = Runs
  /\ mode \in [confidence : BOOLEAN, schema : {Nothing, "object"}]
  /\ \A r \in Runs : Said(r) /\ Decided(r)

LEMMA InitVerdicts == Init => Verdicts
BY DEF Init, Verdicts, Said, Decided

(* What a run has said and decided depends on its own call only.           *)
LEMMA OtherVerdicts ==
  ASSUME NEW q \in Runs, Said(q), Decided(q), mode' = mode, pc'[q] = pc[q], calls'[q] = calls[q],
         response'[q] = response[q], agreed'[q] = agreed[q], fell'[q] = fell[q],
         q \in disturbed => q \in disturbed'
  PROVE  (Said(q) /\ Decided(q))'
<1>1. Metadata(q)' = Metadata(q)
  BY SameDetails
<1>2. (IsLow(Metadata(q)))' <=> IsLow(Metadata(q))
  BY <1>1 DEF IsLow
<1>3. Agrees(q)' <=> Agrees(q)
  BY DEF Agrees, Structured, Accepted, WrapperSchema, Field
<1>4. Said(q)'
  BY <1>3 DEF Said, Structured, Field
<1>5. Decided(q)'
  BY <1>2 DEF Decided
<1>6. QED
  BY <1>4, <1>5

LEMMA StepVerdicts ==
  ASSUME IInv, Verdicts, NEW r \in Runs,
         Call(r) \/ Generate(r) \/ Judge(r) \/ Fails(r) \/ Describe(r)
  PROVE  Verdicts'
<1>1. Functions /\ r \in DOMAIN agreed /\ Said(r) /\ Decided(r)
  BY DEF IInv, Verdicts
<1>2. mode' = mode /\ DOMAIN agreed' = Runs /\ DOMAIN fell' = Runs
  BY DEF Verdicts, Call, Generate, Judge, Fails, Describe
<1>3. ASSUME NEW q \in Runs \ {r}
      PROVE  (Said(q) /\ Decided(q))'
  <2>1. /\ pc'[q] = pc[q] /\ calls'[q] = calls[q] /\ response'[q] = response[q]
        /\ agreed'[q] = agreed[q] /\ fell'[q] = fell[q]
        /\ q \in disturbed => q \in disturbed'
    BY <1>1, <1>3 DEF Functions, Verdicts, Call, Generate, Judge, Fails, Describe, At, Touches
  <2>2. QED
    BY <1>2, <2>1, OtherVerdicts DEF Verdicts
<1>4. (Said(r) /\ Decided(r))'
  <2>1. CASE Call(r)
    BY <1>1, <2>1 DEF Functions, Verdicts, Call, At, Said, Decided
  <2>2. CASE Generate(r)
    BY <1>1, <2>2 DEF Functions, Verdicts, Generate, At, Said, Decided
  <2>3. CASE Judge(r)
    <3>1. /\ pc'[r] = "described" /\ response' = response /\ calls' = calls
          /\ response[r] \in Responses /\ calls[r] > 0 /\ Agrees(r)
          /\ agreed'[r] = IF Structured THEN Field(r, "answer") ELSE response[r].value
      BY <1>1, <2>3 DEF Functions, Verdicts, Judge, At, Decided
    <3>2. Agrees(r)'
      BY <1>2, <3>1 DEF Agrees, Structured, Accepted, WrapperSchema, Field
    <3>3. QED
      BY <1>2, <3>1, <3>2 DEF Said, Decided, Structured, Field
  <2>4. CASE Fails(r)
    <3>1. /\ pc'[r] = "failed" /\ pc[r] \in {"asking", "judging"}
          /\ agreed' = agreed /\ agreed[r] = Nothing
      BY <1>1, <2>4 DEF Functions, Fails, At, Decided
    <3>2. QED
      BY <3>1 DEF Said, Decided
  <2>5. CASE Describe(r)
    <3>1. /\ pc[r] = "described" /\ pc'[r] = "idle" /\ fell'[r] = IsLow(metadata)
          /\ UNCHANGED <<mode, calls, response, agreed, disturbed>>
      BY <1>1, <2>5 DEF Functions, Verdicts, Describe, At
    <3>2. Metadata(r)' = Metadata(r)
      BY <3>1, SameDetails
    <3>3. r \notin disturbed => metadata = Metadata(r)
      BY <3>1 DEF IInv, OwnWhileDescribed
    <3>4. r \notin disturbed => (fell'[r] <=> IsLow(Metadata(r))')
      BY <3>1, <3>2, <3>3 DEF IsLow
    <3>5. Said(r)'
      BY <1>1, <3>1 DEF Said, Agrees, Structured, Accepted, WrapperSchema, Field
    <3>6. QED
      BY <3>1, <3>4, <3>5 DEF Decided
  <2>6. QED
    BY <2>1, <2>2, <2>3, <2>4, <2>5
<1>5. QED
  BY <1>2, <1>3, <1>4 DEF Verdicts

LEMMA NextVerdicts == IInv /\ Verdicts /\ [Next]_vars => Verdicts'
<1> SUFFICES ASSUME IInv, Verdicts, [Next]_vars PROVE Verdicts'
  OBVIOUS
<1>1. CASE Next
  BY <1>1, StepVerdicts DEF Next
<1>2. CASE UNCHANGED vars
  <2>1. \A r \in Runs : (Said(r) /\ Decided(r))'
    BY <1>2, OtherVerdicts DEF vars, Verdicts
  <2>2. QED
    BY <1>2, <2>1 DEF vars, Verdicts
<1>3. QED
  BY <1>1, <1>2

(* A structured judgment: its fields have their types.                     *)
LEMMA FieldsTyped ==
  ASSUME NEW r \in Runs, Structured, Agrees(r), mode.confidence \in BOOLEAN,
         response[r] \in Responses
  PROVE  /\ Field(r, "consensus") = Scalar("boolean", "true")
         /\ Field(r, "answer").type \in
              {"null", IF mode.schema = Nothing THEN "string" ELSE mode.schema}
         /\ mode.confidence =>
              /\ "confidence" \in DOMAIN Extracted(response[r]).fields
              /\ Field(r, "confidence").type \in {"null", "number"}
<1> DEFINE value == Extracted(response[r])
<1>1. Valid(value, WrapperSchema) /\ Field(r, "consensus") = Scalar("boolean", "true")
  BY DEF Agrees, Accepted, Parses
<1> HIDE DEF value
<1>2. WrapperSchema.type = "object"
  BY DEF WrapperSchema
<1>3. /\ WrapperSchema.required \subseteq DOMAIN value.fields
      /\ \A name \in DOMAIN WrapperSchema.properties \cap DOMAIN value.fields :
           value.fields[name].type \in {"null", WrapperSchema.properties[name]}
  BY <1>1, <1>2 DEF Valid
<1>4. /\ "answer" \in WrapperSchema.required
      /\ mode.confidence => "confidence" \in WrapperSchema.required
  BY DEF WrapperSchema
<1>5. /\ "answer" \in DOMAIN WrapperSchema.properties
      /\ WrapperSchema.properties["answer"]
           = IF mode.schema = Nothing THEN "string" ELSE mode.schema
      /\ mode.confidence => /\ "confidence" \in DOMAIN WrapperSchema.properties
                            /\ WrapperSchema.properties["confidence"] = "number"
  BY DEF WrapperSchema
<1>6. \A name : Field(r, name) = value.fields[name]
  BY DEF Field, value
<1>7. QED
  BY <1>1, <1>3, <1>4, <1>5, <1>6 DEF value

(* judge_consensus.py:259-296, scheduler.py:529-531: for any responses, a  *)
(* value is agreed on only if a response that the wrapper schema admits    *)
(* says so, and then it is that response's answer; the fallback is called  *)
(* just when that response's own confidence was a low number, unless       *)
(* another run's call came between.                                        *)
THEOREM AgreedValuesAreSaid == Spec => []AgreedByResponse
<1>1. IInv /\ Verdicts => AgreedByResponse
  <2> SUFFICES ASSUME IInv, Verdicts, NEW r \in Runs, agreed[r] # Nothing
               PROVE  LET value == Extracted(response[r]) IN
                      /\ IF Structured
                         THEN /\ value.fields["consensus"].is = "true"
                              /\ agreed[r] = value.fields["answer"]
                              /\ agreed[r].type \in
                                   {"null", IF mode.schema = Nothing THEN "string" ELSE mode.schema}
                         ELSE response[r].shape # "marker"
                      /\ pc[r] = "idle" /\ r \notin disturbed =>
                           (fell[r] <=> mode.confidence /\ value.fields["confidence"].is = "low")
    BY DEF AgreedByResponse
  <2>1. /\ calls[r] > 0 /\ response[r] \in Responses /\ Agrees(r)
        /\ agreed[r] = IF Structured THEN Field(r, "answer") ELSE response[r].value
        /\ mode.confidence \in BOOLEAN
    BY DEF Verdicts, Said
  <2>2. ASSUME Structured
        PROVE  /\ Field(r, "consensus").is = "true" /\ agreed[r] = Field(r, "answer")
               /\ agreed[r].type \in
                    {"null", IF mode.schema = Nothing THEN "string" ELSE mode.schema}
    BY <2>1, <2>2, FieldsTyped DEF Scalar
  <2>3. ~Structured => response[r].shape # "marker"
    BY <2>1 DEF Agrees
  <2>4. IsLow(Metadata(r)) <=> mode.confidence /\ Field(r, "confidence").is = "low"
    <3>1. CASE ~mode.confidence
      <4>1. Metadata(r).confidence = Nothing
        BY <3>1 DEF Metadata
      <4>2. QED
        BY <3>1, <4>1, NothingAssumption DEF IsLow
    <3>2. CASE mode.confidence
      <4> DEFINE v == Field(r, "confidence")
      <4>1. Structured
        BY <3>2 DEF Structured
      <4>2. /\ "confidence" \in DOMAIN Extracted(response[r]).fields
            /\ v.type \in {"null", "number"}
        BY <2>1, <3>2, <4>1, FieldsTyped
      <4>3. /\ v = [type |-> v.type, is |-> v.is, fields |-> v.fields]
            /\ v.type = "null" => v.is = "null"
            /\ v.type \notin {"object", "array"} => v.fields = << >>
        BY <2>1, <4>2, ResponsesAssumption DEF Field
      <4>4. Metadata(r) # Nothing /\ Metadata(r).confidence = v
        <5>1. Metadata(r) = [run |-> r, call |-> calls[r], confidence |-> v] /\ calls[r] \in Nat
          BY <3>2 DEF Metadata, IInv, Functions
        <5> DEFINE rated == {text \in Responses : "confidence" \in DOMAIN Extracted(text).fields}
                   found == {Extracted(text).fields["confidence"] : text \in rated}
        <5>2. v \in found
          BY <2>1, <4>2 DEF Field
        <5>3. Nothing \notin [run : Runs, call : Nat, confidence : found \cup {Nothing}]
          BY NothingAssumption
        <5> HIDE DEF found, v
        <5>4. QED
          BY <5>1, <5>2, <5>3
      <4> HIDE DEF v
      <4>5. v = Low <=> v.is = "low"
        BY <4>2, <4>3 DEF Low, Scalar
      <4>6. QED
        BY <3>2, <4>4, <4>5 DEF IsLow, v
    <3>3. QED
      BY <3>1, <3>2
  <2>5. QED
    BY <2>1, <2>2, <2>3, <2>4 DEF Verdicts, Decided, Field
<1>2. QED
  BY <1>1, InitVerdicts, NextVerdicts, InitIInv, StepIInv, PTL DEF Spec
==============================================================================
