----------------------------- MODULE AgentGraph -----------------------------
(***************************************************************************)
(* One turn of the assistant's agent (agent/graph/): the classifier, the   *)
(* loop of model calls and tool runs with its two budgets and its two      *)
(* forced searches, the final answer and its audit, and what the client    *)
(* sees of it (stream_graph).                                              *)
(*                                                                         *)
(* The model is free in what the language model answers: an intent and a   *)
(* set of tools, then calls of the tools bound to it, then a draft of      *)
(* which only matters what the audit looks for.  The list of outcomes is   *)
(* kept as the tools that have one and whether all of them were denied,    *)
(* the evidence cards as the tools whose latest card is resolved, the      *)
(* chunks as the searches they came from.  Prompts and memory are left     *)
(* out.  Lists that grow by their reducers hold every chunk several times, *)
(* as nodes return the whole state; nothing here counts them.              *)
(***************************************************************************)
EXTENDS Integers, FiniteSets

CONSTANTS Structured,     \* the get_project_* tools
          MaxIterations,  \* MAX_ITERATIONS
          MaxLoopTokens,  \* MAX_LOOP_TOKENS
          TokenUse        \* tokens of one model call

SearchProject == "search_project_knowledge"
SearchBase == "search_knowledge_base"

SearchTools == {SearchProject, SearchBase}
ProjectTools == Structured \cup {SearchProject}
Tools == ProjectTools \cup {SearchBase}

ASSUME AgentAssumption ==
  /\ SearchTools \cap Structured = {}
  /\ Structured # {}
  /\ MaxIterations \in Nat \ {0}
  /\ MaxLoopTokens \in Nat
  /\ TokenUse \subseteq Nat

VARIABLES node,       \* the node that runs next, or how the turn ended
          caller,     \* whether the caller's role can view projects
          question,   \* has it the words of a project question, and whose
          intent, selected, \* what classify_intent decided
          pending,    \* calls of the last AIMessage without an answer
          iterations, \* tool_call_count
          tokens,     \* loop_tokens_used
          ran,        \* tools with an entry in project_tool_outcomes
          denied,     \* every entry there is "forbidden"
          evidence,   \* tools whose card in project_evidence is resolved
          globalDone, \* a result of search_knowledge_base is in the messages
          results,    \* the searches whose chunks are in results
          found,      \* ghost: the searches that returned chunks
          draft,      \* the generated answer, as the audit sees it
          shown,      \* the answer on the client's screen
          grounded

turnVars == <<caller, question>>
planVars == <<intent, selected>>
loopVars == <<pending, iterations, tokens>>
toolVars == <<ran, denied, evidence, globalDone, results, found>>
answerVars == <<draft, shown, grounded>>
vars == <<node, turnVars, planVars, loopVars, toolVars, answerVars>>

Node == {"classify_intent", "chitchat_respond", "out_of_scope", "agent",
         "tools", "force_project_search", "force_global_search",
         "generate_final", "check_grounding", "end", "failed"}

(* Who may see some project, and who may see none.                         *)
Callers == {"viewer", "outsider"}

Intent == {"chitchat", "needs_tools", "out_of_scope"}
Question == [signals : BOOLEAN, primary : Structured]
Plan == [intent : Intent, tools : SUBSET Tools]
Draft == [leaks : BOOLEAN, cites : BOOLEAN, unknown : BOOLEAN, names : BOOLEAN]
NoDraft == [leaks |-> FALSE, cites |-> FALSE, unknown |-> FALSE, names |-> FALSE]

TypeOK ==
  /\ node \in Node
  /\ caller \in Callers
  /\ question \in Question
  /\ intent \in Intent \cup {""}
  /\ selected \subseteq Tools
  /\ pending \subseteq Tools
  /\ iterations \in Nat /\ tokens \in Nat
  /\ ran \subseteq ProjectTools /\ evidence \subseteq ran
  /\ denied \in BOOLEAN /\ globalDone \in BOOLEAN
  /\ results \subseteq SearchTools /\ found \subseteq SearchTools
  /\ draft \in Draft
  /\ shown \in {"nothing", "draft", "chitchat", "recovery"}
  /\ grounded \in BOOLEAN

(* make_initial_state.                                                     *)
Init ==
  /\ node = "classify_intent"
  /\ caller \in Callers
  /\ question \in Question
  /\ intent = "" /\ selected = {}
  /\ pending = {} /\ iterations = 0 /\ tokens = 0
  /\ ran = {} /\ denied = TRUE /\ evidence = {} /\ globalDone = FALSE
  /\ results = {} /\ found = {}
  /\ draft = NoDraft /\ shown = "nothing" /\ grounded = FALSE

----------------------------------------------------------------------------
(* What the classifier answered: no JSON and unknown intents are out of    *)
(* scope, and no (known) tool means all of them.                           *)
Answers == [intent : Intent \cup {"garbled"}, tools : SUBSET Tools]

ParseResponse(raw) ==
  [intent |-> IF raw.intent = "garbled" THEN "out_of_scope" ELSE raw.intent,
   tools |-> IF raw.intent # "needs_tools" THEN {}
             ELSE IF raw.tools = {} THEN Tools ELSE raw.tools]

\* Mutant: the knowledge base comes on top of the project tools.
RouteWithoutProjectTools_OnTop(q, plan) ==
  IF plan.intent = "chitchat" /\ ~q.signals THEN plan
  ELSE [intent |-> "needs_tools", tools |-> plan.tools \cup {SearchBase}]

(* Roles that see no project go to the knowledge base at once.             *)
RouteWithoutProjectTools(q, plan) ==
  IF plan.intent = "chitchat" /\ ~q.signals THEN plan
  ELSE [intent |-> "needs_tools",
        tools |-> (plan.tools \ ProjectTools) \cup {SearchBase}]

(* The others get, for a project question, the one structured tool its     *)
(* words stand for and the search in the project's documents.              *)
EnforceProjectSelection(q, plan, c) ==
  IF plan.intent = "out_of_scope" THEN plan
  ELSE IF c = "outsider" THEN RouteWithoutProjectTools(q, plan)
  ELSE IF ~q.signals THEN plan
  ELSE [intent |-> "needs_tools",
        tools |-> (plan.tools \ ProjectTools) \cup {q.primary, SearchProject}]

RouteAfterClassify(plan) ==
  CASE plan.intent = "chitchat" -> "chitchat_respond"
    [] plan.intent = "needs_tools" -> "agent"
    [] plan.intent = "out_of_scope" -> "out_of_scope"

ClassifyIntent ==
  /\ node = "classify_intent"
  /\ \E raw \in Answers :
       LET plan == EnforceProjectSelection(question, ParseResponse(raw), caller)
       IN  /\ intent' = plan.intent
           /\ selected' = plan.tools
           /\ node' = RouteAfterClassify(plan)
  /\ UNCHANGED <<turnVars, loopVars, toolVars, answerVars>>

----------------------------------------------------------------------------
\* Mutant: the search is repeated although it has run.
NeedsProjectSearch_Again == SearchProject \in selected

\* Mutant: without any outcome no search is forced.
NeedsProjectSearch_AfterOutcome ==
  SearchProject \in selected /\ SearchProject \notin ran /\ ran # {}

(* The router after the agent.  Both searches are forced before the        *)
(* budgets are looked at, and only when the model asks for nothing more.   *)
NeedsProjectSearch == SearchProject \in selected /\ SearchProject \notin ran

ProjectAccessDenied == ran # {} /\ denied

NeedsGlobalSearch(n) ==
  ProjectAccessDenied /\ ~globalDone /\ n < MaxIterations

RouteAfterAgent(calls, n, t) ==
  CASE calls = {} /\ NeedsProjectSearch -> "force_project_search"
    [] calls = {} /\ ~NeedsProjectSearch /\ NeedsGlobalSearch(n) ->
         "force_global_search"
    [] calls = {} /\ ~NeedsProjectSearch /\ ~NeedsGlobalSearch(n) ->
         "generate_final"
    [] calls # {} /\ (n >= MaxIterations \/ t >= MaxLoopTokens) ->
         "generate_final"
    [] calls # {} /\ n < MaxIterations /\ t < MaxLoopTokens -> "tools"

\* Mutant: the node forgets to count itself.
AgentNode_Uncounted ==
  /\ node = "agent"
  /\ \E calls \in SUBSET selected, n \in TokenUse :
       /\ pending' = calls
       /\ tokens' = tokens + n
       /\ node' = RouteAfterAgent(calls, iterations, tokens + n)
  /\ UNCHANGED <<turnVars, planVars, iterations, toolVars, answerVars>>

(* One call of the model with the selected tools bound, or all of them.    *)
Bound == IF selected = {} THEN Tools ELSE selected

AgentNode ==
  /\ node = "agent"
  /\ \E calls \in SUBSET Bound, n \in TokenUse :
       /\ pending' = calls
       /\ iterations' = iterations + 1
       /\ tokens' = tokens + n
       /\ node' = RouteAfterAgent(calls, iterations + 1, tokens + n)
  /\ UNCHANGED <<turnVars, planVars, toolVars, answerVars>>

ForceSearch(at, tool) ==
  /\ node = at
  /\ pending' = {tool}
  /\ node' = "tools"
  /\ UNCHANGED <<turnVars, planVars, iterations, tokens, toolVars, answerVars>>

----------------------------------------------------------------------------
(* resolve_project_for_actor: by an id the model may send along, else by   *)
(* the projects of the caller that the reference matches, n of them, of    *)
(* which e carry exactly that name.                                        *)
Hints == {"none", "denied", "unknown", "other", "fits"}

ResolveProject(hint, n, e) ==
  CASE hint = "denied" -> "forbidden"
    [] hint = "unknown" -> "not_found"
    [] hint = "other" -> "validation_error"
    [] hint = "fits" -> "resolved"
    [] hint = "none" /\ (e = 1 \/ n = 1) -> "resolved"
    [] hint = "none" /\ n = 0 -> "not_found"
    [] hint = "none" /\ n > 1 /\ e # 1 -> "ambiguous"

(* Arguments that do not validate give no JSON: the outcome is an error.   *)
Status == {"resolved", "ambiguous", "not_found", "forbidden",
           "validation_error", "tool_error"}

Outcomes ==
  {ResolveProject(h, n, e) : h \in Hints, n \in 0..2, e \in 0..2} \cup {"tool_error"}

(* The tools of a step whose cards show data.                              *)
Resolved(status) == {t \in DOMAIN status : status[t] = "resolved"}

(* The searches that return chunks: the project's only once it is known.   *)
ToolHits(status) ==
  {h \in SUBSET (pending \cap SearchTools) :
     SearchProject \in h => SearchProject \in Resolved(status)}

(* The chunks that reach the state: where the project's documents were     *)
(* searched, what they gave replaces what the knowledge base gave.         *)
KeptChunks(status, hits) ==
  IF SearchProject \in pending /\ status[SearchProject] # "tool_error"
    THEN hits \cap {SearchProject} ELSE hits

(* The reducers of the state: outcomes add up, and a tool's latest card    *)
(* replaces its earlier one.                                               *)
Recorded(status) == ran \cup DOMAIN status

MergeEvidence(status) ==
  (evidence \ DOMAIN status) \cup Resolved(status)

RunTools ==
  /\ node = "tools"
  /\ \E status \in [pending \cap ProjectTools -> Outcomes] :
       \E hits \in ToolHits(status) :
         /\ ran' = Recorded(status)
         /\ denied' = (denied /\ \A t \in DOMAIN status : status[t] = "forbidden")
         /\ evidence' = MergeEvidence(status)
         /\ results' = results \cup KeptChunks(status, hits)
         /\ found' = found \cup hits
  /\ globalDone' = (globalDone \/ SearchBase \in pending)
  /\ pending' = {}
  /\ node' = "agent"
  /\ UNCHANGED <<turnVars, planVars, iterations, tokens, answerVars>>

----------------------------------------------------------------------------
(* The nodes whose tokens reach the client, and what they show.            *)
Streamed == [n \in {"generate_final", "chitchat_respond"} |->
               IF n = "generate_final" THEN "draft" ELSE "chitchat"]

(* The answer streams to the client while it is generated ...              *)
GenerateFinal ==
  /\ node = "generate_final"
  /\ draft' \in Draft
  /\ shown' = Streamed[node]
  /\ node' = "check_grounding"
  /\ UNCHANGED <<turnVars, planVars, loopVars, toolVars, grounded>>

\* Mutant: any search in the knowledge base counts as the fallback.
FallbackEvidence_AnySearch == globalDone /\ results # {}

(* ... and is audited after it.  A citation needs a source to cite.        *)
FallbackEvidence == ProjectAccessDenied /\ globalDone /\ results # {}

AuditPasses ==
  /\ ~draft.leaks
  /\ results # {} \/ evidence # {}
  /\ selected \cap ProjectTools # {} =>
       (evidence # {} /\ draft.names) \/ FallbackEvidence
  /\ results # {} => draft.cites \/ draft.unknown

(* The done event brings the answer that stays, the draft or another one.  *)
CheckGrounding ==
  /\ node = "check_grounding"
  /\ grounded' = AuditPasses
  /\ shown' = IF AuditPasses THEN "draft" ELSE "recovery"
  /\ node' = "end"
  /\ UNCHANGED <<turnVars, planVars, loopVars, toolVars, draft>>

ChitchatRespond ==
  /\ node = "chitchat_respond"
  /\ shown' = Streamed[node]
  /\ node' = "end"
  /\ UNCHANGED <<turnVars, planVars, loopVars, toolVars, draft, grounded>>

OutOfScope ==
  /\ node = "out_of_scope"
  /\ shown' = "recovery"
  /\ grounded' = TRUE
  /\ node' = "end"
  /\ UNCHANGED <<turnVars, planVars, loopVars, toolVars, draft>>

(* A model call that times out or is refused, or a tool that raises, ends  *)
(* the turn with an error; the recovery call has an answer ready instead.  *)
Fails ==
  /\ node \in {"classify_intent", "chitchat_respond", "agent", "tools",
               "generate_final"}
  /\ node' = "failed"
  /\ \/ shown' = shown
     \/ node \in DOMAIN Streamed /\ shown' = Streamed[node]
  /\ UNCHANGED <<turnVars, planVars, loopVars, toolVars, draft, grounded>>

Next ==
  \/ ClassifyIntent \/ ChitchatRespond \/ OutOfScope
  \/ AgentNode \/ RunTools
  \/ ForceSearch("force_project_search", SearchProject)
  \/ ForceSearch("force_global_search", SearchBase)
  \/ GenerateFinal \/ CheckGrounding
  \/ Fails

(* A node that is started returns or fails: every model call and every     *)
(* connection has a timeout.                                               *)
Spec == Init /\ [][Next]_vars /\ WF_vars(Next)

----------------------------------------------------------------------------
(* Whoever sees no project never has a project tool called for him, not by *)
(* the model and not by a forced search (_enforce_project_selection,       *)
(* agent_node, _needs_project_search_fallback).                            *)
OutsidersStayOut ==
  caller = "outsider" => pending \cap ProjectTools = {} /\ ran = {}

(* The forced searches pass by the budget and the loop ends all the same:  *)
(* the model is called once more than MAX_ITERATIONS at most.              *)
LoopIsBounded == iterations <= MaxIterations + 1

(* A project question of someone who may see projects is answered after    *)
(* the project's documents were searched, unless the budget cut the model  *)
(* off in the middle of a call (_needs_project_search_fallback).           *)
ProjectQuestionsAreSearched ==
  node \in {"check_grounding", "end"} /\ caller = "viewer" /\ question.signals
    /\ intent # "out_of_scope" /\ pending = {} => SearchProject \in ran

(* An answer to a denied project question has had the knowledge base       *)
(* searched, unless the turn was cut off or had used up its iterations.    *)
DeniedFallsBack ==
  node \in {"check_grounding", "end"} /\ ProjectAccessDenied
    /\ pending = {} /\ iterations < MaxIterations => globalDone

(* Neither kind of question is answered before its search.                 *)
AnswersFollowSearches == ProjectQuestionsAreSearched /\ DeniedFallsBack

(* An answer that is called grounded rests on something this turn found,   *)
(* and about projects on a project that was resolved for the caller or,    *)
(* where all was denied, on the knowledge base (check_grounding).          *)
GroundedRestsOnFindings ==
  node = "end" /\ grounded /\ intent = "needs_tools" =>
    /\ shown = "draft" /\ ~draft.leaks
    /\ found # {} \/ evidence # {}
    /\ question.signals /\ caller = "viewer" =>
         \/ draft.names /\ evidence # {}
         \/ ProjectAccessDenied /\ SearchBase \in found

(* Every turn ends, with an answer or an error.                            *)
TurnsEnd == <>(node \in {"end", "failed"})
=============================================================================
