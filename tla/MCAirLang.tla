------------------------------ MODULE MCAirLang ------------------------------
(***************************************************************************)
(* A small instance of AirLang: one agent, two tools, one artifact with an *)
(* alias, and items that the parser must refuse.                           *)
(***************************************************************************)
EXTENDS AirLang

Token(kind, value) == [kind |-> kind, value |-> value]
Ident(name) == Token("IDENT", name)
Item(kind, name) == [kind |-> kind, name |-> name]
Block(kind, name, fields) == [kind |-> kind, name |-> name, fields |-> fields]

Writer == Block("agent", "writer",
  <<<<"prompt", Token("STRING", {"y"})>>, <<"tools", Token("LIST", <<"pay">>)>>>>)
Approval == Block("policy", Nothing,
  <<<<"approval", Ident("pay")>>, <<"timeout", Token("DURATION", [number |-> 3000, unit |-> "s"])>>>>)
Limits == Block("policy", Nothing,
  <<<<"max_parallel", Token("NUMBER", 250)>>, <<"max_parallel", Token("NUMBER", 190)>>>>)
Malformed == Block("policy", Nothing, <<<<"max_parallel", Token("DURATION", [number |-> 100, unit |-> "h"])>>>>)

MCDeclarations == {Item("provider", "mock"), Writer, Approval, Limits, Malformed}

JudgeBlock == [kind |-> "consensus", fields |->
  <<<<"strategy", Ident("judge")>>, <<"confidence", Ident("true")>>>>]
IfBelow == [kind |-> "if", field |-> "confidence", op |-> "<", value |-> 85, then |-> << >>]
Pair == [kind |-> "parallel", members |-> <<"pay", "search">>]
Single == [kind |-> "parallel", members |-> <<"pay">>]
LetY == [kind |-> "let", name |-> "y", artifact |-> "x"]
ArtifactX == Block("artifact", "x", << >>)

MCStatements == {Item("step", "pay"), Item("ref", "writer"), Pair, Single, JudgeBlock, IfBelow,
                 ArtifactX, LetY}

MCHosts == {[tools |-> [pay |-> "pay", search |-> "search"], providers |-> {}, capabilities |-> {}]}

-----------------------------------------------------------------------------
(* Files for the two claims that do not hold.                              *)
GatedDeclarations == {Item("provider", "mock"), [Writer EXCEPT !.fields = Tail(@)], Approval}
MemoryDeclarations == {Item("memory", "session"), Approval}
FewStatements == {Item("step", "pay"), Item("ref", "writer"), Pair}
==============================================================================
