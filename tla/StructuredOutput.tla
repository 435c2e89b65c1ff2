--------------------------- MODULE StructuredOutput ---------------------------
(***************************************************************************)
(* airpy/structured_output.py: JSON is looked for in a model's text and    *)
(* checked, on its top level only, against a JSON schema.                  *)
(*                                                                         *)
(* A value is [type, is, fields]: what a scalar is, and what an object has *)
(* by name and an array by index.  A text is [shape, value]: what of it is *)
(* JSON, and how it stands there.  A schema is [type, required,            *)
(* properties], its properties a function from names to types.             *)
(***************************************************************************)
EXTENDS Naturals, FiniteSets

Shapes == {"bare", "fenced", "in prose", "among braces", "marker"}

Scalar(type, is) == [type |-> type, is |-> is, fields |-> << >>]
Object(fields) == [type |-> "object", is |-> "object", fields |-> fields]
NotJson == Scalar("none", "none")

(* extract_json and json.loads.  Without a fence the text is cut from its  *)
(* first "{" to its last "}", where it has these; the objects of an array  *)
(* come out without their array.                                           *)
Extracted(text) ==
  LET value == text.value
      objects == {i \in DOMAIN value.fields : value.fields[i].type = "object"}
  IN CASE text.shape = "fenced" -> value
       [] text.shape \in {"among braces", "marker"} -> NotJson
       [] value.type = "object" -> value
       [] value.type = "array" /\ objects = {} -> value
       [] value.type = "array" /\ Cardinality(objects) = 1 ->
            value.fields[CHOOSE i \in objects : TRUE]
       [] value.type # "array" /\ text.shape = "bare" -> value
       [] OTHER -> NotJson

(* validate_against_schema: a null passes for every type of a field, and a *)
(* field that the schema does not name passes.                             *)
Valid(value, schema) ==
  /\ value.type = schema.type
  /\ value.type = "object" =>
       /\ schema.required \subseteq DOMAIN value.fields
       /\ \A name \in DOMAIN schema.properties \cap DOMAIN value.fields :
            value.fields[name].type \in {"null", schema.properties[name]}

(* parse_structured_output up to the model class, which may refuse.        *)
Parses(text, schema) == Extracted(text) # NotJson /\ Valid(Extracted(text), schema)
==============================================================================
