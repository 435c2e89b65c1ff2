------------------------------- MODULE AirLang -------------------------------
(***************************************************************************)
(* airlang: a file is tokenized and parsed into IR (lexer.py, parser.py),  *)
(* a Workflow is built from the IR and the host's Bindings (executor.py,   *)
(* bindings.py), and the Workflow is run, perhaps more than once.          *)
(*                                                                         *)
(* The author writes the file item by item, and the parser reads each item *)
(* as it is written; the field lists of a block are one item.  An item is  *)
(* a record, a field is a pair of a name and a token, a token has a kind   *)
(* and a value, and numbers are in hundredths.  A prompt's value is the    *)
(* set of the variables in its text.  Building is one step, and so is each *)
(* entry of a run: Scheduler models what happens inside.                   *)
(***************************************************************************)
EXTENDS Workflow, SequencesExt

CONSTANTS
  Declarations,   \* top-level items the author may write
  Statements,     \* statements the author may write
  Hosts,          \* Bindings that a sibling file may give; tools: key -> name
  Catalog,        \* provider names that airpy knows, "mock" included
  Builtins,       \* capability names that aircore has
  MaxDeclarations, MaxStatements, MaxRuns  \* bounds; no item is written twice

ASSUME BoundsAssumption == {MaxDeclarations, MaxStatements, MaxRuns} \subseteq Nat
ASSUME HostsAssumption ==
  \A h \in Hosts : DOMAIN h = {"tools", "providers", "capabilities"}

VARIABLES
  aircli,         \* whether `ai run` does all this, or a program
  phase,          \* how far the file has come
  ir,             \* the IR
  open,           \* the blocks of statements not yet closed, outermost first
  written,        \* the items so far
  host,           \* the Bindings in use
  workflow,       \* the Workflow built
  run, at,        \* the runs started, and the entry the latest is at
  bindings,       \* Workflow.bindings: name -> the run and entry of its value
  journal,        \* the run whose journal Workflow.journal is, 0 for none
  approved,       \* names approved in this run (history variable)
  invoked         \* names of tools invoked in this run (history variable)

parsing == <<ir, open, written>>
running == <<run, at, bindings, journal, approved, invoked>>
vars == <<aircli, phase, parsing, host, workflow, running>>

NoBindings == [tools |-> << >>, providers |-> {}, capabilities |-> {}]
(* A Policy() in which nothing is set.                                     *)
NoPolicy == [max_cost |-> Nothing, max_parallel |-> Nothing, max_runtime |-> Nothing,
             approval_for |-> {}]
EmptyIR == [provider |-> Nothing, memory |-> Nothing, agents |-> << >>,
            policy |-> NoPolicy, workflow |-> Nothing]

-----------------------------------------------------------------------------
(* Fields and their tokens.                                                *)

AgentFields == [provider |-> "IDENT", model |-> "IDENT", prompt |-> "STRING",
                capabilities |-> "LIST", tools |-> "LIST"]
PolicyFields == [max_cost |-> "DOLLAR", max_parallel |-> "NUMBER", timeout |-> "DURATION",
                 approval |-> "IDENT"]
ConsensusFields == [strategy |-> "IDENT", mode |-> "IDENT", confidence |-> "IDENT"]
ArtifactFields == [type |-> "IDENT", schema |-> "IDENT"]
ApprovalFields == [message |-> "STRING"]

Scopes == {"session", "project", "temporary"}
Strategies == {"judge", "majority", "unanimous"}

(* The words that a field may take, where the parser knows them.           *)
Words == [strategy |-> Strategies, mode |-> {"select", "synthesize"},
          confidence |-> {"true", "false"}]

FieldsRead(fields, table) ==
  \A f \in Range(fields) :
    /\ f[1] \in DOMAIN table /\ f[2].kind = table[f[1]]
    /\ f[1] \in DOMAIN Words => f[2].value \in Words[f[1]]

Settings(fields, name) == SelectSeq(fields, LAMBDA f : f[1] = name)

(* The last setting of a field wins.                                       *)
Setting(fields, name, default) ==
  IF Settings(fields, name) = << >> THEN default ELSE Last(Settings(fields, name))[2].value

Millis == [ms |-> 1, s |-> 1000, m |-> 60000, h |-> 3600000]

Milliseconds(duration) == (duration.number * Millis[duration.unit]) \div 100

(* The policy that a block of fields describes; int() cuts the fraction.   *)
PolicyOf(fields) ==
  LET parallel == Setting(fields, "max_parallel", Nothing)
      timeout == Setting(fields, "timeout", Nothing)
  IN [max_cost |-> Setting(fields, "max_cost", Nothing),
      max_parallel |-> IF parallel = Nothing THEN Nothing ELSE parallel \div 100,
      max_runtime |-> IF timeout = Nothing THEN Nothing ELSE Milliseconds(timeout),
      approval_for |-> {f[2].value : f \in Range(Settings(fields, "approval"))}]

AgentOf(item) ==
  [name |-> item.name, provider |-> Setting(item.fields, "provider", Nothing),
   capabilities |-> Setting(item.fields, "capabilities", << >>),
   tools |-> Setting(item.fields, "tools", << >>),
   reads |-> Setting(item.fields, "prompt", {})]

-----------------------------------------------------------------------------
(* What the parser accepts, and the IR it makes.                           *)

Grammatical(item) ==
  CASE item.kind = "memory" -> item.name \in Scopes
    [] item.kind = "agent" -> FieldsRead(item.fields, AgentFields)
    [] item.kind = "policy" -> FieldsRead(item.fields, PolicyFields)
    [] item.kind = "parallel" -> Len(item.members) >= 2
    [] item.kind = "consensus" -> /\ FieldsRead(item.fields, ConsensusFields)
                                  /\ Settings(item.fields, "strategy") # << >>
    [] item.kind = "artifact" -> FieldsRead(item.fields, ArtifactFields)
    [] item.kind = "approval" -> FieldsRead(item.fields, ApprovalFields)
    [] item.kind = "if" -> item.op \in {"<", ">", "<=", ">=", "==", "!="}
    [] OTHER -> item.kind \in {"import", "tool", "capability", "provider", "step", "ref", "let"}

(* parse_program, one declaration; imports, tools and capabilities are     *)
(* kept in the IR and nothing reads them.                                  *)
Declared(item) ==
  CASE item.kind = "provider" -> [ir EXCEPT !.provider = item.name]
    [] item.kind = "memory" -> [ir EXCEPT !.memory = item.name]
    [] item.kind = "agent" -> [ir EXCEPT !.agents = Append(@, AgentOf(item))]
    [] item.kind = "policy" -> [ir EXCEPT !.policy = PolicyOf(item.fields)]
    [] OTHER -> ir

Node(item) ==
  IF item.kind # "consensus" THEN item
  ELSE [kind |-> "consensus", strategy |-> Setting(item.fields, "strategy", Nothing),
        confidence |-> Setting(item.fields, "confidence", "false") = "true"]

Grown(node) == [open EXCEPT ![Len(open)].body = Append(@, node)]

(* tokenize() reads the whole text before the parser sees any of it, and   *)
(* raises at a character that no pattern takes or a string over two lines. *)
Tokenize ==
  /\ phase = "text" /\ phase' \in {"parsing", "rejected"}
  /\ UNCHANGED <<aircli, parsing, host, workflow, running>>

Parsing == phase = "parsing" /\ UNCHANGED <<aircli, host, workflow, running>>

Declare ==
  /\ Parsing /\ open = << >> /\ Cardinality(written \cap Declarations) < MaxDeclarations
  /\ \E item \in Declarations \ written :
       Grammatical(item) /\ ir' = Declared(item) /\ written' = written \cup {item}
  /\ UNCHANGED <<phase, open>>

OpenWorkflow ==
  /\ Parsing /\ open = << >> /\ ir.workflow = Nothing
  /\ open' = <<[head |-> Nothing, body |-> << >>]>>
  /\ UNCHANGED <<phase, ir, written>>

State ==
  /\ Parsing /\ open # << >> /\ Cardinality(written \cap Statements) < MaxStatements
  /\ \E item \in Statements \ written :
       /\ Grammatical(item) /\ written' = written \cup {item}
       /\ open' = IF item.kind = "if" THEN Append(open, [head |-> item, body |-> << >>])
                  ELSE Grown(Node(item))
  /\ UNCHANGED <<phase, ir>>

(* "}" ends the body of an `if`, or the workflow.                          *)
Close ==
  /\ Parsing /\ open # << >>
  /\ LET block == Last(open)
         outer == Front(open)
     IN IF outer = << >> THEN open' = << >> /\ ir' = [ir EXCEPT !.workflow = block.body]
        ELSE /\ open' = [outer EXCEPT ![Len(outer)].body =
                           Append(@, [block.head EXCEPT !.then = block.body])]
             /\ UNCHANGED ir
  /\ UNCHANGED <<phase, written>>

EndOfFile ==
  /\ Parsing /\ open = << >> /\ ir.workflow # Nothing
  /\ phase' = "parsed"
  /\ UNCHANGED parsing

(* AirLangSyntaxError: nothing of the file is kept.                        *)
Reject ==
  /\ Parsing
  /\ \/ open = << >> /\ \E item \in Declarations : ~Grammatical(item)
     \/ open # << >> /\ \E item \in Statements : ~Grammatical(item)
     \/ open # << >> \/ ir.workflow = Nothing    \* the file ends too early
     \/ open = << >> /\ ir.workflow # Nothing    \* a second workflow
  /\ phase' = "rejected" /\ ir' = EmptyIR /\ open' = << >> /\ written' = {}

-----------------------------------------------------------------------------
(* build_workflow.                                                         *)

(* A Memory() has a scope under each name; a scope has keys, and none of   *)
(* the three names as an attribute.                                        *)
MemoryScope == << >>
NewMemory == [name \in Scopes |-> MemoryScope]

ProviderKnown(name, h) == name \in h.providers \cup Catalog

CapabilityKnown(name, h) == name \in Builtins \cup h.capabilities

(* A judge needs a provider; nothing else does.                            *)
StrategyKnown(strategy, h) ==
  strategy = "judge" => ir.provider # Nothing /\ ProviderKnown(ir.provider, h)

AgentResolves(agent, h) ==
  LET provider == IF agent.provider = Nothing THEN ir.provider ELSE agent.provider
  IN /\ provider # Nothing /\ ProviderKnown(provider, h)
     /\ \A name \in Range(agent.capabilities) : CapabilityKnown(name, h)
     /\ Range(agent.tools) \subseteq DOMAIN h.tools

(* The name of an agent is that of the last agent declared with it, and of *)
(* no tool; the name of a tool object need not be the key it is bound to.  *)
Resolve(name, h) ==
  LET agents == SelectSeq(ir.agents, LAMBDA a : a.name = name)
  IN IF agents # << >>
     THEN [name |-> name, tool |-> FALSE, reads |-> Last(agents).reads,
           tools |-> {h.tools[t] : t \in Range(Last(agents).tools)}]
     ELSE [name |-> h.tools[name], tool |-> TRUE, reads |-> {}, tools |-> {}]

Resolvable(names, h) ==
  names \subseteq {ir.agents[i].name : i \in DOMAIN ir.agents} \cup DOMAIN h.tools

(* The pre-scan: the alias that the last `let` of an artifact gives it.    *)
Alias(body, artifact) ==
  LET lets == {i \in DOMAIN body : body[i].kind = "let" /\ body[i].artifact = artifact}
  IN IF lets = {} THEN artifact ELSE body[Max(lets)].name

(* binding_name_for_following_artifact                                     *)
BindingName(body, next) ==
  IF next > Len(body) \/ body[next].kind # "artifact" THEN Nothing
  ELSE Alias(body, body[next].name)

(* A bug the checks must notice: the name is looked up before the `if` is  *)
(* passed over.                                                            *)
NameTooEarly(body, k, folded) == BindingName(body, k + 1)

ConsensusName(body, k, folded) == BindingName(body, IF folded THEN k + 2 ELSE k + 1)

(* _resolve_fallback                                                       *)
FallbackError(node, consensus, h) ==
  CASE node.op # "<" \/ Len(node.then) # 1 -> "unsupported"
    [] node.then[1].kind # "ref" -> "unsupported"
    [] node.field = "confidence" /\ (consensus.strategy # "judge" \/ ~consensus.confidence) -> "binding"
    [] ~Resolvable({node.then[1].name}, h) -> "binding"
    [] OTHER -> "none"

(* One turn of the loop over the body; b is [next, pending, built, error]: *)
(* the index to come to, the entry of the parallel block just before, the  *)
(* workflow so far, and the exception.                                     *)
Raised(b, error) == [b EXCEPT !.error = error]

BuildStep(b, k, name, body, h) ==
  IF ~Resolvable({name}, h) THEN Raised(b, "binding")
  ELSE [b EXCEPT !.next = k + 1, !.pending = 0,
          !.built = Step(@, Resolve(name, h), BindingName(body, k + 1))]

BuildParallel(b, k, members, h) ==
  IF ~Resolvable(Range(members), h) THEN Raised(b, "binding")
  ELSE [b EXCEPT !.next = k + 1, !.pending = Len(b.built.steps) + 1,
          !.built = Parallel(@, [i \in DOMAIN members |-> Resolve(members[i], h)])]

BuildConsensus(b, k, body, h) ==
  LET node == body[k]
      folded == k < Len(body) /\ body[k + 1].kind = "if"
      error == IF b.pending = 0 \/ ~StrategyKnown(node.strategy, h) THEN "binding"
               ELSE IF folded THEN FallbackError(body[k + 1], node, h) ELSE "none"
  IN IF error # "none" THEN Raised(b, error)
     ELSE [b EXCEPT !.next = IF folded THEN k + 2 ELSE k + 1, !.pending = 0,
             !.built = Reuse(@, b.pending, node.strategy,
                             IF folded THEN {Resolve(body[k + 1].then[1].name, h)} ELSE {},
                             ConsensusName(body, k, folded))]

PassOver(b, k) == [b EXCEPT !.next = k + 1, !.pending = 0]

BuildNode(b, k, body, h) ==
  IF b.error # "none" \/ k < b.next THEN b
  ELSE LET node == body[k] IN
    CASE node.kind \in {"step", "ref"} -> BuildStep(b, k, node.name, body, h)
      [] node.kind = "parallel" -> BuildParallel(b, k, node.members, h)
      [] node.kind = "consensus" -> BuildConsensus(b, k, body, h)
      [] node.kind \in {"artifact", "let"} -> PassOver(b, k)
      [] OTHER -> Raised(b, "unsupported")  \* approval, memory, a standalone if

(* The loop at its start: the pre-scan and the agents are behind it.       *)
Begins(body, h) ==
  LET artifacts == {body[i].name : i \in {j \in DOMAIN body : body[j].kind = "artifact"}}
      linked == \A i \in DOMAIN body : body[i].kind = "let" => body[i].artifact \in artifacts
      resolved == \A i \in DOMAIN ir.agents : AgentResolves(ir.agents[i], h)
      memory == IF ir.memory = Nothing THEN Nothing ELSE NewMemory[ir.memory]
  IN [next |-> 1, pending |-> 0, built |-> NewWorkflow(ir.policy, memory),
      error |-> IF linked /\ resolved THEN "none" ELSE "binding"]

(* The loop after each of its turns.                                       *)
Turns(body, h) ==
  LET after[k \in 0 .. Len(body)] ==
        IF k = 0 THEN Begins(body, h) ELSE BuildNode(after[k - 1], k, body, h)
  IN after

BuildWorkflow(h) == Turns(ir.workflow, h)[Len(ir.workflow)]

(* load_bindings_for finds a sibling file or none.                         *)
BindingsFor == Hosts \cup {NoBindings}

Build ==
  /\ phase = "parsed"
  /\ \E h \in BindingsFor :
       LET b == BuildWorkflow(h) IN
       /\ host' = h
       /\ IF b.error = "none" THEN phase' = "built" /\ workflow' = b.built
          ELSE phase' = b.error /\ UNCHANGED workflow
  /\ UNCHANGED <<aircli, parsing, running>>

-----------------------------------------------------------------------------
(* Workflow.run and the entries of a run.                                  *)

Idle == phase \in {"built", "returned", "refused", "raised"}

(* A program calls run() with or without a callback, and again; the command *)
(* line calls execute_file() once, and its callback asks at the terminal.  *)
Callbacks == IF aircli THEN {TRUE} ELSE BOOLEAN
Runnable == Idle /\ run < MaxRuns /\ (aircli => phase = "built")

Refused ==
  /\ Runnable /\ \E callback \in Callbacks : Refuses(workflow, callback)
  /\ phase' = "refused"
  /\ UNCHANGED <<aircli, parsing, host, workflow, running>>

(* A bug the checks must notice: an earlier run's values stay.             *)
Kept(old) == old

Cleared(old) == << >>

Start ==
  /\ Runnable /\ \E callback \in Callbacks : ~Refuses(workflow, callback)
  /\ phase' = "running" /\ run' = run + 1 /\ at' = 1
  /\ bindings' = Cleared(bindings)
  /\ approved' = {} /\ invoked' = {}
  /\ UNCHANGED <<aircli, parsing, host, workflow, journal>>

(* _resolve_prompt gives the template those of its variables that are      *)
(* bound; render() raises when one is missing.                             *)
Available(x) == x.reads \cap DOMAIN bindings

Renders(x) == x.reads \subseteq Available(x)

(* The scheduler asks for the executables that the policy names; those it  *)
(* may run render their prompts and call what tools they like.             *)
Executes(executables, granted) ==
  LET gated == {x \in executables : x.name \in workflow.policy.approval_for}
      runs == IF granted THEN executables ELSE executables \ gated
  IN /\ approved' = IF granted THEN approved \cup {x.name : x \in gated} ELSE approved
     /\ \E calls \in SUBSET UNION {x.tools : x \in {y \in runs : Renders(y)}} :
          invoked' = invoked \cup calls \cup {x.name : x \in {y \in runs : y.tool}}

(* An entry may fail, and must when it was refused or a name is not bound. *)
MaySucceed(executables, granted) ==
  /\ \A x \in executables : Renders(x)
  /\ granted \/ \A x \in executables : x.name \notin workflow.policy.approval_for

Bound(name) ==
  IF name = Nothing THEN bindings
  ELSE [n \in DOMAIN bindings \cup {name} |-> IF n = name THEN <<run, at>> ELSE bindings[n]]

(* The executables that an entry calls: a consensus calls none but its     *)
(* fallback, when the judge's confidence is below the limit.               *)
Called(entry) ==
  IF entry.kind # "consensus" THEN {Range(entry.executables)}
  ELSE {{}, entry.fallback}

RunEntry ==
  /\ phase = "running" /\ at <= Len(workflow.steps)
  /\ LET entry == workflow.steps[at] IN
     \E called \in Called(entry), granted \in BOOLEAN :
       /\ Executes(called, granted)
       /\ \/ phase' = "stopping" /\ UNCHANGED <<at, bindings>>
          \/ /\ MaySucceed(called, granted)
             /\ at' = at + 1 /\ bindings' = Bound(entry.as) /\ UNCHANGED phase
  /\ UNCHANGED <<aircli, parsing, host, workflow, run, journal>>

(* max_runtime or max_cost, looked at before every entry.                  *)
LimitReached ==
  /\ phase = "running" /\ at <= Len(workflow.steps)
  /\ {workflow.policy.max_runtime, workflow.policy.max_cost} # {Nothing}
  /\ phase' = "stopping"
  /\ UNCHANGED <<aircli, parsing, host, workflow, running>>

(* `finally: self.memory.temporary.clear()`, then the journal is stored.   *)
(* What build_workflow gives as memory is one scope of a Memory: the       *)
(* AttributeError comes before the assignment.                             *)
End ==
  /\ phase = "stopping" \/ (phase = "running" /\ at > Len(workflow.steps))
  /\ IF workflow.memory = Nothing \/ "temporary" \in DOMAIN workflow.memory
     THEN phase' = "returned" /\ journal' = run
     ELSE phase' = "raised" /\ UNCHANGED journal
  /\ UNCHANGED <<aircli, parsing, host, workflow, run, at, bindings, approved, invoked>>

(* aircli: an error that _run_ail knows is one line and exit(1), a run is  *)
(* summarized from its journal.  What it does not know leaves as it came.  *)
Report ==
  /\ aircli /\ phase \in {"rejected", "binding", "unsupported", "refused"}
  /\ phase' = "reported"
  /\ UNCHANGED <<aircli, parsing, host, workflow, running>>

Summarize ==
  /\ aircli /\ phase = "returned" /\ phase' = "summarized"
  /\ UNCHANGED <<aircli, parsing, host, workflow, running>>

Init ==
  /\ aircli \in BOOLEAN
  /\ phase = "text" /\ ir = EmptyIR /\ open = << >>
  /\ written = {}
  /\ host = NoBindings /\ workflow = NewWorkflow(NoPolicy, Nothing)
  /\ run = 0 /\ at = 0 /\ bindings = << >> /\ journal = 0
  /\ approved = {} /\ invoked = {}

Next == \/ Tokenize \/ Declare \/ OpenWorkflow \/ State \/ Close \/ EndOfFile \/ Reject
        \/ Build \/ Refused \/ Start \/ RunEntry \/ LimitReached \/ End
        \/ Report \/ Summarize

Spec == Init /\ [][Next]_vars

-----------------------------------------------------------------------------
(* The file, its IR and what becomes of it have the right types.           *)
TypeOK ==
  /\ phase \in {"text", "parsing", "parsed", "rejected", "binding", "unsupported", "built",
                "running", "stopping", "returned", "refused", "raised", "reported", "summarized"}
  /\ host \in Hosts \cup {NoBindings}
  /\ run \in 0 .. MaxRuns /\ journal \in 0 .. run /\ at \in 0 .. Len(workflow.steps) + 1

(* What a body means, statement by statement, without the loop's state.    *)
Follows(body, k, kind) == k < Len(body) /\ body[k + 1].kind = kind
HasFallback(body, k) == body[k].kind = "consensus" /\ Follows(body, k, "if")
Named(body, k) ==
  LET last == IF HasFallback(body, k) THEN k + 1 ELSE k
      aliases == {j \in DOMAIN body : /\ body[j].kind = "let"
                                      /\ body[j].artifact = body[last + 1].name}
  IN IF ~Follows(body, last, "artifact") THEN Nothing
     ELSE IF aliases = {} THEN body[last + 1].name
     ELSE body[Max(aliases)].name

(* Which statements run something, and the entry that the k-th is built    *)
(* into.                                                                   *)
Runs(body, k) == body[k].kind \in {"step", "ref", "parallel", "consensus"}
Rank(body, k) == Cardinality({j \in 1 .. k : Runs(body, j)})

EntryMeans(entry, body, k) ==
  /\ entry.kind = IF body[k].kind = "ref" THEN "step" ELSE body[k].kind
  /\ entry.as = IF body[k].kind = "parallel" THEN Nothing ELSE Named(body, k)
  /\ entry.fallback # {} <=> HasFallback(body, k)
  /\ HasFallback(body, k) /\ body[k + 1].field = "confidence"
       => body[k].strategy = "judge" /\ body[k].confidence
  /\ body[k].kind = "consensus" =>
       k > 1 /\ body[k - 1].kind = "parallel" /\ entry.source = Rank(body, k) - 1

(* What may stand in a body that was built without running anything.       *)
PassedOver(body, k) ==
  /\ body[k].kind \notin {"approval", "memory"}
  /\ body[k].kind = "if" => k > 1 /\ HasFallback(body, k - 1)

(* executor.py:22-44, 212-358: the loop over the body builds one entry for *)
(* each statement that runs something, in the order written; the value     *)
(* that an `artifact` follows, a folded `if` apart, has its name or alias; *)
(* a consensus reduces the parallel block just before it; nothing that     *)
(* cannot be run is passed over.                                           *)
BuiltAsWritten ==
  workflow.steps # << >> =>
    LET body == ir.workflow IN
    /\ Len(workflow.steps) = Rank(body, Len(body))
    /\ \A k \in DOMAIN body : Runs(body, k) =>
         EntryMeans(workflow.steps[Rank(body, k)], body, k)
    /\ \A k \in DOMAIN body : PassedOver(body, k)

(* workflow.py:28-59, 288: what a prompt can read is what this run has     *)
(* bound: every name of an entry that succeeded, and under each name the   *)
(* value of the last such entry; a refused run leaves the last one's.      *)
BindingsAreCurrent ==
  LET done == {i \in DOMAIN workflow.steps : i < at /\ workflow.steps[i].as # Nothing}
  IN bindings = [n \in {workflow.steps[i].as : i \in done} |->
       <<run, CHOOSE i \in done : /\ workflow.steps[i].as = n
                                 /\ \A j \in done : workflow.steps[j].as = n => j <= i>>]

(* scheduler.py:241-260, 444-479: a tool that approval_for names and that  *)
(* was invoked in this run unapproved is one that an agent's own loop may  *)
(* call: no entry and no fallback gets past the question by itself.        *)
LoopTools ==
  UNION {x.tools : x \in UNION {Range(workflow.steps[i].executables) \cup workflow.steps[i].fallback
                                 : i \in DOMAIN workflow.steps}}

OnlyAgentsBypassApproval ==
  invoked \cap workflow.policy.approval_for \subseteq approved \cup LoopTools

(* README.md:341-342, 803-805: a tool that approval_for names runs only    *)
(* after a human decision, whoever calls it.                               *)
ApprovedBeforeInvoked == invoked \cap workflow.policy.approval_for \subseteq approved

(* executor.py:417-421: what execute_ir ran has its journal.               *)
RunsAreJournaled == phase \in {"returned", "raised", "summarized"} => journal = run
==============================================================================
