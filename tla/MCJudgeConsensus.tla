--------------------------- MODULE MCJudgeConsensus ---------------------------
(***************************************************************************)
(* A small instance of JudgeConsensus: two runs, and responses that differ *)
(* from a good one in one respect each.                                    *)
(***************************************************************************)
EXTENDS JudgeConsensus

Text(shape, value) == [shape |-> shape, value |-> value]
Null == Scalar("null", "null")

Good == [consensus |-> Scalar("boolean", "true"), answer |-> Scalar("string", "yes"),
         confidence |-> Scalar("number", "high"), reasoning |-> Scalar("string", "text")]

MCResponses ==
  {Text(shape, Object(Good)) : shape \in Shapes}
  \cup {Text("bare", Object([Good EXCEPT !.consensus = v])) :
          v \in {Scalar("boolean", "false"), Scalar("string", "true"), Null}}
  \cup {Text("bare", Object([Good EXCEPT !.answer = v])) : v \in {Object(<< >>), Null}}
  \cup {Text("bare", Object([Good EXCEPT !.confidence = v])) : v \in {Low, Scalar("string", "low"), Null}}
  \cup {Text("in prose", Object([consensus |-> Good.consensus, answer |-> Good.answer]))}
  \cup {Text("bare", [type |-> "array", is |-> "array", fields |-> objects]) :
          objects \in {<<Object(Good)>>, <<Object(Good), Object(Good)>>}}
==============================================================================
