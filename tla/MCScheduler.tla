----------------------------- MODULE MCScheduler -----------------------------
(***************************************************************************)
(* A small instance of Scheduler for TLC.  The tools carry the attributes  *)
(* that make a case interesting, and a workflow picks the case by its      *)
(* tools.                                                                  *)
(*   Groups: fan-in, ballots, ties, strategies, reuse and fallback over    *)
(*     a, b, c and d; capabilities, approvals and retries over fetch,      *)
(*     write and log.                                                      *)
(*   Policies: usage and max_cost over p, q and r; plain steps over every  *)
(*     checkpoint an earlier run may leave over a, e and f.                *)
(* max_runtime may pass between any two entries of any of them.            *)
(***************************************************************************)
EXTENDS Scheduler

MCNames == {"x", "y"}
MCValues == {"red", "blue", "object"}
MCTools == {"a", "b", "c", "d", "e", "f", "fetch", "write", "log", "p", "q", "r"}
MCToolNames == MCTools \cup {Synthetic}
MCAgents == {"worker", "intern"}
MCCapabilities == {"net"}
MCGrants == [worker |-> {"net"}, intern |-> {}]
MCRequires == [t \in MCTools |-> IF t = "fetch" THEN {"net"} ELSE {}]
MCRetries == [t \in MCTools |-> CASE t = "fetch" -> 2
                                  [] t \in {"write", "log"} -> 1
                                  [] OTHER -> 0]
Same == [v \in MCValues |-> v]

(* Entries; the fields that do not matter to a kind keep a fixed value.    *)
Entry(kind, tools, bind) ==
  [kind |-> kind, tools |-> tools, agent |-> Nothing, bind |-> bind, source |-> 0,
   strategy |-> "majority", fallback |-> Nothing, below |-> 0]

Plain(tool, bind) == Entry("step", <<tool>>, bind)
By(agent, e) == [e EXCEPT !.agent = agent]
Using(strategy, e) == [e EXCEPT !.strategy = strategy]
From(source, e) == [e EXCEPT !.source = source]
OrElse(tool, below, e) == [e EXCEPT !.fallback = tool, !.below = below]

-----------------------------------------------------------------------------
(* Groups.                                                                 *)

GroupWorkflows == {
  <<Entry("parallel", <<"a", "b", "c">>, Nothing),
    From(1, Entry("reuse", <<"a", "b", "c">>, "x"))>>,
  <<Plain("d", "x"), Entry("parallel", <<"a", "b">>, Nothing),
    From(2, Using("unanimous", Entry("reuse", <<"a", "b">>, "y"))),
    From(2, Using("judge", Entry("reuse", <<"a", "b">>, "x")))>>,
  <<Using("judge", OrElse("d", 2, Entry("consensus", <<"a", "b">>, "x"))), Plain("d", "y")>>,
  <<Entry("consensus", <<"b", "b">>, "x"), Plain("d", "x")>>,
  <<By("worker", Plain("fetch", "x")), By("intern", Plain("fetch", "y"))>>,
  <<By("intern", Entry("parallel", <<"fetch", "write">>, Nothing)), Plain("write", Nothing)>>,
  <<By("worker", Entry("consensus", <<"fetch", "write">>, Nothing)), Plain("log", Nothing)>>,
  <<By("intern", Using("judge", OrElse("write", 2, Entry("consensus", <<"log", "d">>, "x"))))>>,
  <<Plain("write", "x"), Plain("log", "y")>> }

-----------------------------------------------------------------------------
(* Policies.                                                               *)

PolicyWorkflows == {
  <<Entry("parallel", <<"p", "q">>, Nothing), Plain("r", "x"), Plain("p", Nothing)>>,
  <<Plain("p", "x"), Entry("parallel", <<"q", "r">>, Nothing), Plain("p", Nothing)>>,
  <<Plain("p", "x"), Plain("q", "y"), Plain("r", "x")>>,
  <<Plain("a", "x"), Plain("e", Nothing), Plain("f", "x"), Plain("a", "y")>>,
  <<Plain("a", "x"), Entry("parallel", <<"e", "f">>, Nothing), Plain("f", "y")>> }

(* What is left behind by runs of the last two workflows, or of one in     *)
(* which e and f have changed places, that got as far as their n-th plain  *)
(* step.                                                                   *)
Left(tools, positions, n) ==
  [i \in {positions[k] : k \in 1 .. n} |->
     [tool |-> tools[CHOOSE k \in 1 .. n : positions[k] = i], output |-> "blue"]]

MCCheckpoints ==
  {Left(<<"a", "e", "f", "a">>, <<1, 2, 3, 4>>, n) : n \in 0 .. 4}
  \cup {Left(<<"a", "f">>, <<1, 3>>, n) : n \in 1 .. 2}
  \cup {Left(<<"a", "f">>, <<1, 2>>, 2)}

-----------------------------------------------------------------------------
MCWorkflows == GroupWorkflows \cup PolicyWorkflows

MCOutcomes == [t \in MCTools |-> CASE t \in {"a", "b", "c"} -> {"red", "blue"}
                                   [] t \in {"e", "f"} -> {"blue", "object"}
                                   [] t = "write" -> {"object"}
                                   [] OTHER -> {"red"}]

MCCosts == [t \in MCTools |-> CASE t \in {"p", "q"} -> {0, 1, 2}
                                [] t = "r" -> {Nothing, 1}
                                [] OTHER -> {Nothing}]

==============================================================================
