---------------------------- MODULE JudgeConsensus ----------------------------
(***************************************************************************)
(* airpy/judge_consensus.py as a strategy of aircore's ConsensusGroup: one *)
(* judge object that several runs, each in its own thread, reduce their    *)
(* groups with.  A call forgets what the last call left, asks the provider,*)
(* judges the response and leaves what it found in _last_call_metadata;    *)
(* the scheduler reads that through describe_last_call() after the call,   *)
(* reports it and decides on the fallback by it.                           *)
(***************************************************************************)
EXTENDS StructuredOutput

CONSTANTS
  Nothing,
  Runs,           \* runs that share the judge
  Responses,      \* texts a provider may give
  MaxCalls        \* bound: groups that each run reduces

ASSUME MaxCallsAssumption == MaxCalls \in Nat

(* A null is only null, and only objects and arrays have fields.           *)
ASSUME ResponsesAssumption ==
  \A text \in Responses : \A name \in DOMAIN Extracted(text).fields :
    LET v == Extracted(text).fields[name]
    IN /\ v = [type |-> v.type, is |-> v.is, fields |-> v.fields]
       /\ v.type = "null" => v.is = "null"
       /\ v.type \notin {"object", "array"} => v.fields = << >>

VARIABLES
  mode,           \* the judge: [confidence, schema], its output_schema's type or Nothing
  metadata,       \* _last_call_metadata
  pc,             \* [Runs -> ...]: where the run's thread is
  calls,          \* [Runs -> Nat]: groups reduced or being reduced
  response,       \* [Runs -> ...]: what the provider gave
  agreed,         \* [Runs -> ...]: the group's value
  reported,       \* [Runs -> ...]: the metadata that the scheduler has read
  fell,           \* [Runs -> BOOLEAN]: the fallback was called
  disturbed       \* runs whose metadata another run has touched (history variable)

vars == <<mode, metadata, pc, calls, response, agreed, reported, fell, disturbed>>

Low == Scalar("number", "low")

ASSUME NothingAssumption ==
  LET rated == {text \in Responses : "confidence" \in DOMAIN Extracted(text).fields}
      found == {Extracted(text).fields["confidence"] : text \in rated}
  IN Nothing # Low
     /\ Nothing \notin [run : Runs, call : Nat, confidence : found \cup {Nothing}]

Structured == mode.confidence \/ mode.schema # Nothing

Init ==
  /\ mode \in [confidence : BOOLEAN, schema : {Nothing, "object"}]
  /\ metadata = Nothing
  /\ pc = [r \in Runs |-> "idle"]
  /\ calls = [r \in Runs |-> 0]
  /\ response = [r \in Runs |-> Nothing]
  /\ agreed = [r \in Runs |-> Nothing]
  /\ reported = [r \in Runs |-> Nothing]
  /\ fell = [r \in Runs |-> FALSE]
  /\ disturbed = {}

At(r, from, to) == pc[r] = from /\ pc' = [pc EXCEPT ![r] = to]

(* _wrapper_schema                                                         *)
WrapperSchema ==
  LET fields == {"consensus", "answer"}
                  \cup (IF mode.confidence THEN {"confidence", "reasoning"} ELSE {})
      Type(name) == CASE name = "consensus"  -> "boolean"
                      [] name = "answer"     -> IF mode.schema = Nothing THEN "string" ELSE mode.schema
                      [] name = "confidence" -> "number"
                      [] name = "reasoning"  -> "string"
  IN [type |-> "object", required |-> fields, properties |-> [name \in fields |-> Type(name)]]

(* Another run's call, between this run's call and describe_last_call().   *)
Touches(r) == disturbed' = disturbed \cup {q \in Runs \ {r} : pc[q] = "described"}

(* A call begins: __call__ resets the metadata.                            *)
Call(r) ==
  /\ At(r, "idle", "asking") /\ calls[r] < MaxCalls
  /\ calls' = [calls EXCEPT ![r] = @ + 1]
  /\ metadata' = Nothing
  /\ disturbed' = (disturbed \ {r}) \cup {q \in Runs \ {r} : pc[q] = "described"}
  /\ response' = [response EXCEPT ![r] = Nothing]
  /\ agreed' = [agreed EXCEPT ![r] = Nothing]
  /\ reported' = [reported EXCEPT ![r] = Nothing]
  /\ fell' = [fell EXCEPT ![r] = FALSE]
  /\ UNCHANGED mode

Generate(r) ==
  /\ At(r, "asking", "judging")
  /\ \E text \in Responses : response' = [response EXCEPT ![r] = text]
  /\ UNCHANGED <<mode, metadata, calls, agreed, reported, fell, disturbed>>

(* A bug the checks must notice: the schema is taken on trust.             *)
TakenOnTrust(text) == Extracted(text).type = "object"

Accepted(text) == Parses(text, WrapperSchema)

Field(r, name) == Extracted(response[r]).fields[name]

(* The judge has agreed: a marker says no in text mode, "consensus" does   *)
(* in structured mode, where null is no.                                   *)
Agrees(r) ==
  IF Structured THEN Accepted(response[r]) /\ Field(r, "consensus") = Scalar("boolean", "true")
  ELSE response[r].shape # "marker"

(* A bug the checks must notice: what an earlier call left is kept.        *)
KeepsFirst(r, new) == IF metadata = Nothing THEN new ELSE metadata

Leaves(r, new) == new

Metadata(r) ==
  [run |-> r, call |-> calls[r],
   confidence |-> IF mode.confidence THEN Field(r, "confidence") ELSE Nothing]

Judge(r) ==
  /\ At(r, "judging", "described") /\ Agrees(r)
  /\ agreed' = [agreed EXCEPT ![r] =
                  IF Structured THEN Field(r, "answer") ELSE response[r].value]
  /\ metadata' = Leaves(r, Metadata(r))
  /\ Touches(r)
  /\ UNCHANGED <<mode, calls, response, reported, fell>>

(* The provider, the parser, the schema, the model class or the judge says *)
(* no: the synthetic step fails and nothing is described.                  *)
Fails(r) ==
  /\ \/ At(r, "asking", "failed")
     \/ At(r, "judging", "failed") /\ ~Agrees(r)
     \/ Structured /\ mode.schema # Nothing /\ At(r, "judging", "failed")
  /\ UNCHANGED <<mode, metadata, calls, response, agreed, reported, fell, disturbed>>

IsLow(found) == found # Nothing /\ found.confidence = Low

(* _apply_consensus_strategy after the strategy has returned.              *)
Describe(r) ==
  /\ At(r, "described", "idle")
  /\ reported' = [reported EXCEPT ![r] = metadata]
  /\ fell' = [fell EXCEPT ![r] = IsLow(metadata)]
  /\ UNCHANGED <<mode, metadata, calls, response, agreed, disturbed>>

Next == \E r \in Runs : Call(r) \/ Generate(r) \/ Judge(r) \/ Fails(r) \/ Describe(r)

Spec == Init /\ [][Next]_vars

-----------------------------------------------------------------------------
(* The threads, the judge and what they hold have the right types.         *)
TypeOK ==
  /\ pc \in [Runs -> {"idle", "asking", "judging", "described", "failed"}]
  /\ calls \in [Runs -> 0 .. MaxCalls] /\ fell \in [Runs -> BOOLEAN]
  /\ \A r \in Runs : response[r] \in Responses \cup {Nothing}
  /\ metadata = Nothing \/ metadata.run \in Runs
  /\ disturbed \subseteq Runs

(* scheduler.py:497-513, judge_consensus.py:313-319: what the journal says *)
(* of a judgment is said of that very call, after earlier calls and failed *)
(* ones, unless another run's call fell between the call and the question. *)
MetadataIsOwn ==
  \A r \in Runs : pc[r] = "idle" /\ calls[r] > 0 /\ r \notin disturbed =>
    reported[r] = Metadata(r)

(* judge_consensus.py:46-48, as it has it: a confidence that is reported   *)
(* is a number.                                                            *)
ConfidenceIsReal ==
  mode.confidence =>
    \A r \in Runs : reported[r] # Nothing => reported[r].confidence.type = "number"

(* judge_consensus.py:259-296, scheduler.py:529-531: the value agreed on is*)
(* one that a valid response has called a consensus, and the fallback is   *)
(* called just when that response's own confidence was low; a null one is  *)
(* not.                                                                    *)
AgreedByResponse ==
  \A r \in Runs : agreed[r] # Nothing =>
    LET value == Extracted(response[r]) IN
    /\ IF Structured
       THEN /\ value.fields["consensus"].is = "true" /\ agreed[r] = value.fields["answer"]
            /\ agreed[r].type \in {"null", IF mode.schema = Nothing THEN "string" ELSE mode.schema}
       ELSE response[r].shape # "marker"
    /\ pc[r] = "idle" /\ r \notin disturbed =>
         (fell[r] <=> mode.confidence /\ value.fields["confidence"].is = "low")
==============================================================================
