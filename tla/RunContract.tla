----------------------------- MODULE RunContract -----------------------------
(***************************************************************************)
(* What Workflow.run() promises to its caller, without threads, events or  *)
(* step ids: the entries are carried out one at a time and in order, none  *)
(* twice; nothing begins after a failure; the run is a success exactly     *)
(* when every entry was; and it ends.                                      *)
(***************************************************************************)
EXTENDS Naturals

VARIABLES
  outcome,        \* the status of each entry, by position
  result          \* the status of the run, "raised" if an exception left it

contractVars == <<outcome, result>>

Passed(i) == \A j \in 1 .. i : outcome[j] = "success"

Turn(i) == i \in DOMAIN outcome /\ Passed(i - 1) /\ result = "running"

Init ==
  /\ \A i \in DOMAIN outcome : outcome[i] = "todo"
  /\ result = "running"

Changes(i, from, to) ==
  /\ Turn(i) /\ outcome[i] = from
  /\ outcome' = [outcome EXCEPT ![i] = to]
  /\ UNCHANGED result

Begin(i) == Changes(i, "todo", "running")

Pass(i) == Changes(i, "running", "success")

Fail(i) == Changes(i, "running", "failed")

(* An entry a checkpoint already holds.                                    *)
Skip(i) == Changes(i, "todo", "success")

Conclude ==
  /\ result = "running" /\ \A i \in DOMAIN outcome : outcome[i] # "running"
  /\ result' \in {IF \A i \in DOMAIN outcome : outcome[i] = "success"
                  THEN "success" ELSE "failed", "raised"}
  /\ UNCHANGED outcome

Next == \/ \E i \in DOMAIN outcome : Begin(i) \/ Pass(i) \/ Fail(i) \/ Skip(i)
        \/ Conclude

Spec == Init /\ [][Next]_contractVars /\ WF_contractVars(Next)
==============================================================================
