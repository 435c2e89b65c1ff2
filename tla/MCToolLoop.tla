----------------------------- MODULE MCToolLoop -----------------------------
(***************************************************************************)
(* A small instance of ToolLoop for TLC: two analysts with tools and one   *)
(* graph, and a writer without tools.  "trend" has a tool for orders but   *)
(* not the capability that it requires; "pattern" has no such tool.        *)
(***************************************************************************)
EXTENDS ToolLoop

MCAgents == {"trend", "pattern", "writer"}
MCOffers == [a \in MCAgents |-> CASE a = "trend" -> {"candles", "orders"}
                                   [] a = "pattern" -> {"candles"}
                                   [] a = "writer" -> {}]
MCPermitted == [a \in MCAgents |-> {"candles"}]
MCMaxTurns == [a \in MCAgents |-> 2]
MCRetries == [a \in MCAgents |-> IF a = "pattern" THEN 0 ELSE 1]
=============================================================================
