---------------------------- MODULE MCDurableRun ----------------------------
(***************************************************************************)
(* Small instances of DurableRun: plain steps around a group, one step     *)
(* that may fail, and outputs of which JSON gives one back as another and  *)
(* refuses a third.                                                        *)
(***************************************************************************)
EXTENDS DurableRun

MCNames == {"x", "y"}
MCTools == {"a", "b", "c"}
MCToolNames == MCTools \cup {Synthetic}
MCValues == {"tuple", "list", "object"}
NoRequires == [t \in MCTools |-> {}]
NoGrants == [a \in {} |-> {}]
NoRetries == [t \in MCTools |-> 0]
FreeTools == [t \in MCTools |-> {Nothing}]
Lists == [t \in MCTools |-> {"list"}]
Anything == [t \in MCTools |-> IF t = "a" THEN MCValues ELSE {"list"}]
NoCheckpoints == {<< >>}
RoundTrip == [v \in MCValues |-> IF v = "tuple" THEN "list" ELSE v]

Entry(kind, tools, bind) ==
  [kind |-> kind, tools |-> tools, agent |-> Nothing, bind |-> bind, source |-> 0,
   strategy |-> "majority", fallback |-> Nothing, below |-> 0]

ResumedWorkflows == {
  <<Entry("step", <<"a">>, "x"), Entry("parallel", <<"b", "c">>, Nothing),
    Entry("step", <<"c">>, "y")>>,
  <<Entry("step", <<"a">>, "x"), Entry("step", <<"b">>, Nothing),
    Entry("step", <<"a">>, "y")>> }

==============================================================================
