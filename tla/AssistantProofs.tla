-------------------------- MODULE AssistantProofs --------------------------
(***************************************************************************)
(* Theorems about the three parts of an assistant turn: the agent graph    *)
(* that answers it, the socket that carries it to the chat, and the index  *)
(* and answer cache that its knowledge comes from.                         *)
(***************************************************************************)
EXTENDS AgentGraph, ChatSession, RagIndex, TLAPS

LoopNodes == {"agent", "tools", "force_project_search", "force_global_search",
              "generate_final", "check_grounding"}

(* What the classifier has decided holds for the rest of the turn.         *)
PlanInv ==
  /\ node \in LoopNodes => intent = "needs_tools" /\ selected # {}
  /\ node = "chitchat_respond" => intent = "chitchat"
  /\ node = "out_of_scope" => intent = "out_of_scope"
  /\ node = "classify_intent" => intent = ""
  /\ node = "end" => intent # ""
  /\ intent # "needs_tools" => ran = {}
  /\ caller = "outsider" => selected \cap ProjectTools = {}
  /\ caller = "viewer" /\ question.signals /\ intent \notin {"", "out_of_scope"} =>
       intent = "needs_tools" /\ SearchProject \in selected

(* A turn that has used up its iterations goes on only for the search in   *)
(* the project's documents, which is forced once.                          *)
LoopInv ==
  /\ LoopIsBounded
  /\ node = "classify_intent" => iterations = 0
  /\ node \in {"agent", "tools", "force_project_search"} => iterations <= MaxIterations
  /\ node = "force_project_search" => SearchProject \in selected
  /\ node = "force_global_search" => iterations < MaxIterations
  /\ node = "tools" /\ iterations = MaxIterations => SearchProject \in pending
  /\ node = "agent" /\ iterations = MaxIterations => SearchProject \in ran

FallbackInv ==
  node \in {"generate_final", "check_grounding", "end"}
    /\ intent = "needs_tools" /\ pending = {} =>
      ~NeedsProjectSearch /\ ~NeedsGlobalSearch(iterations)

FindingsInv ==
  /\ results \subseteq found
  /\ SearchProject \in found => ~denied
  /\ node = "end" /\ intent = "needs_tools" /\ grounded => shown = "draft" /\ AuditPasses

AgentInv ==
  /\ TypeOK
  /\ OutsidersStayOut
  /\ PlanInv /\ LoopInv /\ FallbackInv /\ FindingsInv

----------------------------------------------------------------------------
LEMMA PlanFacts ==
    ASSUME NEW q \in Question, NEW c \in Callers, NEW raw \in Answers
    PROVE  LET plan == EnforceProjectSelection(q, ParseResponse(raw), c) IN
           /\ plan \in Plan
           /\ plan.intent = "needs_tools" => plan.tools # {}
           /\ c = "outsider" => plan.tools \cap ProjectTools = {}
           /\ c = "viewer" /\ q.signals /\ plan.intent # "out_of_scope" =>
                plan.intent = "needs_tools" /\ SearchProject \in plan.tools
<1> DEFINE p == ParseResponse(raw)
<1>1. /\ p \in Plan
      /\ p.intent = "needs_tools" => p.tools # {}
      /\ p.intent # "needs_tools" => p.tools = {}
  BY DEF ParseResponse, Answers, Plan, Intent, Tools
<1> HIDE DEF p
<1>2. SearchBase \notin ProjectTools
  BY AgentAssumption DEF ProjectTools, SearchTools, SearchBase, SearchProject
<1>3. RouteWithoutProjectTools(q, p) \in Plan
  BY <1>1 DEF RouteWithoutProjectTools, Plan, Intent, Tools
<1>4. CASE c = "outsider"
  BY <1>1, <1>2, <1>3, <1>4 DEF EnforceProjectSelection, RouteWithoutProjectTools, Plan, p
<1>5. CASE c = "viewer"
  BY <1>1, <1>5 DEF EnforceProjectSelection, Plan, Intent, Question, Tools, ProjectTools, p
<1> QED
  BY <1>4, <1>5 DEF Callers

LEMMA RouteFacts ==
    ASSUME NEW calls, NEW n \in Nat, NEW t \in Nat
    PROVE  LET r == RouteAfterAgent(calls, n, t) IN
           /\ r \in {"tools", "force_project_search", "force_global_search",
                     "generate_final"}
           /\ r = "tools" => calls # {} /\ n < MaxIterations
           /\ r = "force_project_search" => NeedsProjectSearch
           /\ r = "force_global_search" => NeedsGlobalSearch(n)
           /\ r = "generate_final" /\ calls = {} =>
                ~NeedsProjectSearch /\ ~NeedsGlobalSearch(n)
<1>1. NeedsProjectSearch \in BOOLEAN /\ NeedsGlobalSearch(n) \in BOOLEAN
  BY DEF NeedsProjectSearch, NeedsGlobalSearch
<1>2. n >= MaxIterations \/ n < MaxIterations
  BY AgentAssumption
<1>3. t >= MaxLoopTokens \/ t < MaxLoopTokens
  BY AgentAssumption
<1> QED
  BY <1>1, <1>2, <1>3, AgentAssumption DEF RouteAfterAgent
----------------------------------------------------------------------------
LEMMA AgentInvInit == Init => AgentInv
<1> SUFFICES ASSUME Init PROVE AgentInv
  OBVIOUS
<1>1. TypeOK
  BY DEF Init, TypeOK, Node, NoDraft, Draft
<1>2. OutsidersStayOut /\ PlanInv
  BY DEF Init, OutsidersStayOut, PlanInv, LoopNodes
<1>3. LoopInv
  <2>1. node = "classify_intent" /\ iterations = 0
    BY DEF Init
  <2>2. MaxIterations \in Nat /\ MaxIterations # 0
    BY AgentAssumption
  <2> QED
    BY <2>1, <2>2 DEF LoopInv, LoopIsBounded
<1>4. FallbackInv /\ FindingsInv
  BY DEF Init, FallbackInv, FindingsInv
<1> QED
  BY <1>1, <1>2, <1>3, <1>4 DEF AgentInv

LEMMA ClassifyKeepsInv == AgentInv /\ ClassifyIntent => AgentInv'
<1> SUFFICES ASSUME AgentInv, ClassifyIntent PROVE AgentInv'
  OBVIOUS
<1>1. PICK raw \in Answers :
        LET plan == EnforceProjectSelection(question, ParseResponse(raw), caller)
        IN  /\ intent' = plan.intent
            /\ selected' = plan.tools
            /\ node' = RouteAfterClassify(plan)
  BY DEF ClassifyIntent
<1> DEFINE plan == EnforceProjectSelection(question, ParseResponse(raw), caller)
<1>2. /\ plan \in Plan
      /\ plan.intent = "needs_tools" => plan.tools # {}
      /\ caller = "outsider" => plan.tools \cap ProjectTools = {}
      /\ caller = "viewer" /\ question.signals /\ plan.intent # "out_of_scope" =>
           plan.intent = "needs_tools" /\ SearchProject \in plan.tools
  BY PlanFacts DEF AgentInv, TypeOK
<1>3. intent' = plan.intent /\ selected' = plan.tools /\ node' = RouteAfterClassify(plan)
  BY <1>1
<1> HIDE DEF plan
<1>4. /\ plan.intent \in Intent
      /\ node' = IF plan.intent = "chitchat" THEN "chitchat_respond"
                 ELSE IF plan.intent = "needs_tools" THEN "agent" ELSE "out_of_scope"
  BY <1>2, <1>3 DEF RouteAfterClassify, Plan, Intent
<1>5. TypeOK'
  BY <1>2, <1>3, <1>4 DEF AgentInv, TypeOK, ClassifyIntent, Plan, Node,
        turnVars, loopVars, toolVars, answerVars
<1>6. OutsidersStayOut' /\ PlanInv'
  <2>1. ran = {} /\ pending' = pending /\ ran' = ran /\ UNCHANGED turnVars
    BY DEF AgentInv, PlanInv, ClassifyIntent, loopVars, toolVars
  <2>2. OutsidersStayOut'
    BY <2>1 DEF AgentInv, OutsidersStayOut, turnVars
  <2>3. intent' \in Intent /\ node' \notin {"classify_intent", "end"}
    BY <1>3, <1>4
  <2>4. node' \in LoopNodes => intent' = "needs_tools"
    BY <1>3, <1>4 DEF LoopNodes, Intent
  <2> QED
    BY <1>2, <1>3, <1>4, <2>1, <2>2, <2>3, <2>4 DEF PlanInv, turnVars, Intent
<1>7. LoopInv'
  <2>1. iterations = 0 /\ iterations' = iterations /\ pending' = pending /\ ran' = ran
    BY DEF AgentInv, LoopInv, ClassifyIntent, loopVars, toolVars
  <2>2. MaxIterations \in Nat /\ MaxIterations # 0
    BY AgentAssumption
  <2>3. node' \notin {"classify_intent", "tools", "force_project_search",
                      "force_global_search"}
    BY <1>4
  <2> QED
    BY <2>1, <2>2, <2>3 DEF LoopInv, LoopIsBounded
<1>8. FallbackInv'
  BY <1>4 DEF FallbackInv
<1>9. FindingsInv'
  BY <1>4 DEF AgentInv, FindingsInv, ClassifyIntent, toolVars, answerVars
<1> QED
  BY <1>5, <1>6, <1>7, <1>8, <1>9 DEF AgentInv

LEMMA AgentKeepsInv == AgentInv /\ AgentNode => AgentInv'
<1> SUFFICES ASSUME AgentInv, AgentNode PROVE AgentInv'
  OBVIOUS
<1>1. PICK calls \in SUBSET Bound, n \in TokenUse :
        /\ pending' = calls
        /\ iterations' = iterations + 1
        /\ tokens' = tokens + n
        /\ node' = RouteAfterAgent(calls, iterations + 1, tokens + n)
  BY DEF AgentNode
<1>2. UNCHANGED <<turnVars, planVars, toolVars, answerVars>> /\ node = "agent"
  BY DEF AgentNode
<1>3. iterations + 1 \in Nat /\ tokens + n \in Nat
  <2>1. n \in Nat
    BY AgentAssumption
  <2>2. iterations \in Nat /\ tokens \in Nat
    BY DEF AgentInv, TypeOK
  <2> QED
    BY <2>1, <2>2
<1>4. selected # {} /\ calls \subseteq selected /\ selected \subseteq Tools
  BY <1>2 DEF AgentInv, PlanInv, LoopNodes, Bound, TypeOK
<1>5. /\ node' \in {"tools", "force_project_search", "force_global_search",
                    "generate_final"}
      /\ node' = "tools" => calls # {} /\ iterations + 1 < MaxIterations
      /\ node' = "force_project_search" => NeedsProjectSearch
      /\ node' = "force_global_search" => NeedsGlobalSearch(iterations + 1)
      /\ node' = "generate_final" /\ calls = {} =>
           ~NeedsProjectSearch /\ ~NeedsGlobalSearch(iterations + 1)
  BY <1>1, <1>3, RouteFacts
<1>6. TypeOK'
  BY <1>1, <1>2, <1>3, <1>4, <1>5
     DEF AgentInv, TypeOK, Node, turnVars, planVars, toolVars, answerVars
<1>7. OutsidersStayOut' /\ PlanInv'
  BY <1>1, <1>2, <1>4, <1>5 DEF AgentInv, OutsidersStayOut, PlanInv, LoopNodes,
        turnVars, planVars, toolVars
<1>8. LoopInv'
  <2>1. MaxIterations \in Nat /\ iterations \in Nat /\ iterations <= MaxIterations
    BY <1>2, AgentAssumption DEF AgentInv, TypeOK, LoopInv
  <2>2. iterations = MaxIterations => ~NeedsProjectSearch
    BY <1>2 DEF AgentInv, LoopInv, NeedsProjectSearch
  <2>3. selected' = selected /\ ran' = ran
    BY <1>2 DEF planVars, toolVars
  <2>4. NeedsGlobalSearch(iterations + 1) => iterations + 1 < MaxIterations
    BY DEF NeedsGlobalSearch
  <2> QED
    BY <1>1, <1>5, <2>1, <2>2, <2>3, <2>4
       DEF LoopInv, LoopIsBounded, NeedsProjectSearch
<1>9. FallbackInv'
  BY <1>1, <1>2, <1>5 DEF FallbackInv, NeedsProjectSearch, NeedsGlobalSearch,
        ProjectAccessDenied, planVars, toolVars
<1>10. FindingsInv'
  BY <1>2, <1>5 DEF AgentInv, FindingsInv, toolVars, answerVars
<1> QED
  BY <1>6, <1>7, <1>8, <1>9, <1>10 DEF AgentInv

LEMMA ForceKeepsInv ==
    AgentInv /\ (\/ ForceSearch("force_project_search", SearchProject)
                 \/ ForceSearch("force_global_search", SearchBase)) => AgentInv'
<1> SUFFICES ASSUME AgentInv, NEW at, NEW tool, ForceSearch(at, tool),
                    \/ at = "force_project_search" /\ tool = SearchProject
                    \/ at = "force_global_search" /\ tool = SearchBase
             PROVE  AgentInv'
  OBVIOUS
<1> USE DEF ForceSearch
<1>1. tool \in Tools /\ node \in LoopNodes /\ node' = "tools" /\ pending' = {tool}
  BY DEF Tools, ProjectTools, LoopNodes
<1>2. tool \in ProjectTools => tool \in selected
  BY AgentAssumption DEF AgentInv, LoopInv, ProjectTools, SearchTools, SearchBase,
        SearchProject
<1>3. TypeOK'
  BY <1>1 DEF AgentInv, TypeOK, Node, turnVars, planVars, toolVars, answerVars
<1>4. OutsidersStayOut' /\ PlanInv'
  BY <1>1, <1>2 DEF AgentInv, OutsidersStayOut, PlanInv, LoopNodes, turnVars,
        planVars, toolVars
<1>5. LoopInv'
  <2>1. MaxIterations \in Nat /\ iterations \in Nat
    BY AgentAssumption DEF AgentInv, TypeOK
  <2>2. iterations' = iterations /\ ran' = ran /\ selected' = selected
    BY DEF planVars, toolVars
  <2> QED
    BY <1>1, <2>1, <2>2 DEF AgentInv, LoopInv, LoopIsBounded
<1>6. FallbackInv' /\ FindingsInv'
  BY <1>1 DEF AgentInv, FallbackInv, FindingsInv, toolVars
<1> QED
  BY <1>3, <1>4, <1>5, <1>6 DEF AgentInv

LEMMA ToolsKeepInv == AgentInv /\ RunTools => AgentInv'
<1> SUFFICES ASSUME AgentInv, RunTools PROVE AgentInv'
  OBVIOUS
<1>1. PICK status \in [pending \cap ProjectTools -> Outcomes] :
        \E hits \in ToolHits(status) :
          /\ ran' = Recorded(status)
          /\ denied' = (denied /\ \A t \in DOMAIN status : status[t] = "forbidden")
          /\ evidence' = MergeEvidence(status)
          /\ results' = results \cup KeptChunks(status, hits)
          /\ found' = found \cup hits
  BY DEF RunTools
<1>2. PICK hits \in ToolHits(status) :
          /\ ran' = Recorded(status)
          /\ denied' = (denied /\ \A t \in DOMAIN status : status[t] = "forbidden")
          /\ evidence' = MergeEvidence(status)
          /\ results' = results \cup KeptChunks(status, hits)
          /\ found' = found \cup hits
  BY <1>1
<1>3. /\ node = "tools" /\ node' = "agent" /\ pending' = {}
      /\ globalDone' = (globalDone \/ SearchBase \in pending)
      /\ UNCHANGED <<turnVars, planVars, iterations, tokens, answerVars>>
  BY DEF RunTools
<1>4. DOMAIN status = pending \cap ProjectTools
  OBVIOUS
<1>5. hits \subseteq pending \cap SearchTools /\ KeptChunks(status, hits) \subseteq hits
      /\ (SearchProject \in hits => status[SearchProject] = "resolved")
  BY DEF ToolHits, KeptChunks, Resolved
<1>6. TypeOK'
  <2>1. ran' \subseteq ProjectTools /\ evidence' \subseteq ran'
    BY <1>2, <1>4 DEF AgentInv, TypeOK, Recorded, MergeEvidence, Resolved
  <2>2. denied' \in BOOLEAN /\ globalDone' \in BOOLEAN
    BY <1>2, <1>3 DEF AgentInv, TypeOK
  <2>3. results' \subseteq SearchTools /\ found' \subseteq SearchTools
    BY <1>2, <1>5 DEF AgentInv, TypeOK
  <2> QED
    BY <1>3, <2>1, <2>2, <2>3 DEF AgentInv, TypeOK, Node, turnVars, planVars,
          answerVars
<1>7. OutsidersStayOut' /\ PlanInv'
  BY <1>2, <1>3, <1>4 DEF AgentInv, OutsidersStayOut, PlanInv, LoopNodes, Recorded,
        turnVars, planVars
<1>8. LoopInv'
  <2>1. iterations = MaxIterations => SearchProject \in ran'
    BY <1>2, <1>3, <1>4 DEF AgentInv, LoopInv, Recorded, ProjectTools
  <2>2. iterations' = iterations /\ iterations <= MaxIterations
    BY <1>3 DEF AgentInv, LoopInv
  <2> QED
    BY <1>3, <2>1, <2>2 DEF AgentInv, LoopInv, LoopIsBounded
<1>9. FallbackInv'
  BY <1>3 DEF FallbackInv
<1>10. FindingsInv'
  <2>1. results' \subseteq found'
    BY <1>2, <1>5 DEF AgentInv, FindingsInv
  <2>2. SearchProject \in hits => SearchProject \in DOMAIN status
    BY <1>4, <1>5 DEF ProjectTools
  <2>3. SearchProject \in found' => ~denied'
    BY <1>2, <1>5, <2>2 DEF AgentInv, FindingsInv
  <2> QED
    BY <1>3, <2>1, <2>3 DEF FindingsInv
<1> QED
  BY <1>6, <1>7, <1>8, <1>9, <1>10 DEF AgentInv

(* The steps after the loop, and a failure, change only the answer.        *)
LEMMA AnswerKeepsInv ==
    AgentInv /\ (GenerateFinal \/ CheckGrounding \/ ChitchatRespond \/ OutOfScope \/ Fails)
      => AgentInv'
<1> SUFFICES ASSUME AgentInv,
                    GenerateFinal \/ CheckGrounding \/ ChitchatRespond \/ OutOfScope \/ Fails
             PROVE  AgentInv'
  OBVIOUS
<1>1. UNCHANGED <<turnVars, planVars, loopVars, toolVars>>
  BY DEF GenerateFinal, CheckGrounding, ChitchatRespond, OutOfScope, Fails
<1>2. node' \in {"check_grounding", "end", "failed"}
  BY DEF GenerateFinal, CheckGrounding, ChitchatRespond, OutOfScope, Fails
<1>3. node' = "check_grounding" => node = "generate_final"
  BY DEF GenerateFinal, CheckGrounding, ChitchatRespond, OutOfScope, Fails
<1>4. draft' \in Draft /\ grounded' \in BOOLEAN
      /\ shown' \in {"nothing", "draft", "chitchat", "recovery"}
  BY DEF AgentInv, TypeOK, GenerateFinal, CheckGrounding, ChitchatRespond, OutOfScope,
         Fails, AuditPasses, Streamed
<1>5. TypeOK'
  BY <1>1, <1>2, <1>4 DEF AgentInv, TypeOK, Node, turnVars, planVars, loopVars, toolVars
<1>6. OutsidersStayOut' /\ PlanInv'
  <2>1. /\ caller' = caller /\ question' = question /\ intent' = intent
        /\ selected' = selected /\ pending' = pending /\ ran' = ran
    BY <1>1 DEF turnVars, planVars, loopVars, toolVars
  <2>2. OutsidersStayOut'
    BY <2>1 DEF AgentInv, OutsidersStayOut
  <2>3. node' = "end" => intent # ""
    BY DEF AgentInv, PlanInv, LoopNodes, GenerateFinal, CheckGrounding, ChitchatRespond,
           OutOfScope, Fails
  <2>4. node' \in LoopNodes => node \in LoopNodes
    BY <1>2, <1>3 DEF LoopNodes
  <2> QED
    BY <1>2, <2>1, <2>2, <2>3, <2>4 DEF AgentInv, PlanInv
<1>7. LoopInv'
  BY <1>1, <1>2 DEF AgentInv, LoopInv, LoopIsBounded, loopVars
<1>8. CASE GenerateFinal \/ CheckGrounding
  <2>1. node \in {"generate_final", "check_grounding"}
    BY <1>8 DEF GenerateFinal, CheckGrounding
  <2>2. FallbackInv'
    BY <1>1, <2>1 DEF AgentInv, FallbackInv, NeedsProjectSearch, NeedsGlobalSearch,
          ProjectAccessDenied, planVars, loopVars, toolVars
  <2>3. node' = "end" => shown' = IF AuditPasses THEN "draft" ELSE "recovery"
    BY <1>8 DEF GenerateFinal, CheckGrounding
  <2>4. node' = "end" => grounded' = AuditPasses /\ draft' = draft
    BY <1>8 DEF GenerateFinal, CheckGrounding
  <2>5. node' = "end" => AuditPasses' = AuditPasses
    BY <1>1, <2>4 DEF AuditPasses, FallbackEvidence, ProjectAccessDenied, planVars, toolVars
  <2>6. FindingsInv'
    BY <1>1, <2>3, <2>4, <2>5 DEF AgentInv, FindingsInv, toolVars
  <2> QED
    BY <1>5, <1>6, <1>7, <2>2, <2>6 DEF AgentInv
<1>9. CASE ChitchatRespond \/ OutOfScope \/ Fails
  <2>1. node' = "end" => intent' # "needs_tools"
    BY <1>1, <1>9 DEF AgentInv, PlanInv, planVars, ChitchatRespond, OutOfScope, Fails
  <2>2. node' \in {"end", "failed"}
    BY <1>9 DEF ChitchatRespond, OutOfScope, Fails
  <2>3. FallbackInv' /\ FindingsInv'
    BY <1>1, <2>1, <2>2 DEF AgentInv, FallbackInv, FindingsInv, toolVars
  <2> QED
    BY <1>5, <1>6, <1>7, <2>3 DEF AgentInv
<1> QED
  BY <1>8, <1>9

----------------------------------------------------------------------------
THEOREM AgentInvariant == Spec => []AgentInv
<1>1. AgentInv /\ UNCHANGED vars => AgentInv'
  <2> SUFFICES ASSUME AgentInv, UNCHANGED vars PROVE AgentInv'
    OBVIOUS
  <2> USE DEF AgentInv, vars, turnVars, planVars, loopVars, toolVars, answerVars
  <2>1. TypeOK'
    BY DEF TypeOK
  <2>2. OutsidersStayOut' /\ PlanInv' /\ LoopInv'
    BY DEF OutsidersStayOut, PlanInv, LoopInv, LoopIsBounded
  <2>3. FallbackInv'
    BY DEF FallbackInv, NeedsProjectSearch, NeedsGlobalSearch, ProjectAccessDenied
  <2>4. FindingsInv'
    BY DEF FindingsInv, AuditPasses, FallbackEvidence, ProjectAccessDenied
  <2> QED
    BY <2>1, <2>2, <2>3, <2>4
<1>2. AgentInv /\ [Next]_vars => AgentInv'
  BY <1>1, ClassifyKeepsInv, AgentKeepsInv, ForceKeepsInv, ToolsKeepInv, AnswerKeepsInv
     DEF Next
<1> QED
  BY AgentInvInit, <1>2, PTL DEF Spec

(* Every variable of a turn keeps its type, whatever the model answers.    *)
THEOREM TypeCorrect == Spec => []TypeOK
<1>1. AgentInv => TypeOK
  BY DEF AgentInv
<1> QED
  BY <1>1, AgentInvariant, PTL

(* No project tool is ever called for a caller who sees no project.        *)
THEOREM OutsidersStayOutHolds == Spec => []OutsidersStayOut
<1>1. AgentInv => OutsidersStayOut
  BY DEF AgentInv
<1> QED
  BY <1>1, AgentInvariant, PTL

(* For any budget the model is called once more than it allows at most.    *)
THEOREM LoopIsBoundedHolds == Spec => []LoopIsBounded
<1>1. AgentInv => LoopIsBounded
  BY DEF AgentInv, LoopInv
<1> QED
  BY <1>1, AgentInvariant, PTL

(* An uncut answer to a viewer's project question follows the search in    *)
(* the project's documents, and one to a denied project question the       *)
(* search in the knowledge base.                                           *)
THEOREM AnswersFollowSearchesHolds == Spec => []AnswersFollowSearches
<1>1. AgentInv => ProjectQuestionsAreSearched
  <2> SUFFICES ASSUME AgentInv, node \in {"check_grounding", "end"}, caller = "viewer",
                      question.signals, intent # "out_of_scope", pending = {}
               PROVE  SearchProject \in ran
    BY DEF ProjectQuestionsAreSearched
  <2>1. intent # ""
    BY DEF AgentInv, PlanInv, LoopNodes
  <2>2. intent = "needs_tools" /\ SearchProject \in selected
    BY <2>1 DEF AgentInv, PlanInv
  <2> QED
    BY <2>2 DEF AgentInv, FallbackInv, NeedsProjectSearch
<1>2. AgentInv => DeniedFallsBack
  <2> SUFFICES ASSUME AgentInv, node \in {"check_grounding", "end"}, ProjectAccessDenied,
                      pending = {}, iterations < MaxIterations
               PROVE  globalDone
    BY DEF DeniedFallsBack
  <2>1. intent = "needs_tools"
    BY DEF AgentInv, PlanInv, ProjectAccessDenied
  <2> QED
    BY <2>1 DEF AgentInv, FallbackInv, NeedsGlobalSearch, TypeOK
<1>3. AgentInv => AnswersFollowSearches
  BY <1>1, <1>2 DEF AnswersFollowSearches
<1> QED
  BY <1>3, AgentInvariant, PTL

(* An answer called grounded rests on what the turn found.                 *)
THEOREM GroundedRestsOnFindingsHolds == Spec => []GroundedRestsOnFindings
<1>1. AgentInv => GroundedRestsOnFindings
  <2> SUFFICES ASSUME AgentInv, node = "end", grounded, intent = "needs_tools"
               PROVE  /\ shown = "draft" /\ ~draft.leaks
                      /\ found # {} \/ evidence # {}
                      /\ question.signals /\ caller = "viewer" =>
                           \/ draft.names /\ evidence # {}
                           \/ ProjectAccessDenied /\ SearchBase \in found
    BY DEF GroundedRestsOnFindings
  <2>1. shown = "draft" /\ AuditPasses /\ results \subseteq found
        /\ (SearchProject \in found => ~denied)
    BY DEF AgentInv, FindingsInv
  <2>2. ~draft.leaks /\ (found # {} \/ evidence # {})
    BY <2>1 DEF AuditPasses
  <2>3. ASSUME question.signals, caller = "viewer"
        PROVE  \/ draft.names /\ evidence # {}
               \/ ProjectAccessDenied /\ SearchBase \in found
    <3>1. selected \cap ProjectTools # {}
      BY <2>3 DEF AgentInv, PlanInv, ProjectTools
    <3>2. (evidence # {} /\ draft.names) \/ FallbackEvidence
      BY <2>1, <3>1 DEF AuditPasses
    <3>3. FallbackEvidence => ProjectAccessDenied /\ SearchBase \in found
      BY <2>1 DEF AgentInv, TypeOK, FallbackEvidence, ProjectAccessDenied, SearchTools
    <3> QED
      BY <3>2, <3>3
  <2> QED
    BY <2>1, <2>2, <2>3
<1> QED
  BY <1>1, AgentInvariant, PTL

----------------------------------------------------------------------------
(* ChatSession.                                                            *)
WireEmpty == inbox = <<>> /\ active = NoTask /\ outbox = <<>>

DoneAt(i) == i \in DOMAIN outbox /\ outbox[i].type = "done"

Awaiting == inbox # <<>> \/ active.at = "running" \/ \E i \in DOMAIN outbox : DoneAt(i)

(* What is on the wire goes with its socket; a composer that waits for an  *)
(* answer waits for one that is on the wire, or was.                       *)
WireInv ==
  /\ Len(messages) <= asks + 1
  /\ socket # "open" => WireEmpty
  /\ stranded => busy /\ WireEmpty
  /\ busy => stranded \/ asks \in InFlight
  /\ \A i \in DOMAIN outbox : DoneAt(i) => outbox[i].chat # NoChat

(* Until an ask is sent over another, the wire holds one ask, the last, in *)
(* one place: asked, run or done.  Errors may be of an ask before it.      *)
OneAnswerInv ==
  ~doubled =>
    /\ Len(inbox) <= 1
    /\ inbox # <<>> => active.at # "running"
    /\ inbox # <<>> \/ active.at = "running" => \A i \in DOMAIN outbox : ~DoneAt(i)
    /\ \A i, j \in DOMAIN outbox : DoneAt(i) /\ DoneAt(j) => i = j
    /\ \A i \in DOMAIN inbox : inbox[i].ask = asks
    /\ active.at = "running" => active.ask = asks
    /\ \A i \in DOMAIN outbox : DoneAt(i) => outbox[i].ask = asks

SpinnerInv ==
  \A i \in DOMAIN messages :
    /\ messages[i].streaming /\ ~doubled => busy /\ i = Len(messages) /\ messages[i].ask = asks
    /\ ~messages[i].streaming /\ ~messages[i].failed => messages[i].chat # NoChat

(* As long as the chat is not left, what is asked, run and done is of the  *)
(* conversation on the screen, and its message is the last one there.      *)
ShownInv ==
  ~doubled /\ ~switched =>
    /\ Awaiting => messages # <<>> /\ messages[Len(messages)].ask = asks
    /\ \A i \in DOMAIN inbox : inbox[i].chat = conversation
    /\ active.at = "running" => active.chat = conversation
    /\ \A i \in DOMAIN outbox : DoneAt(i) =>
         outbox[i].chat = IF conversation = NoChat THEN asks ELSE conversation
    /\ ConversationIsShown

ChatInv ==
  ChatTypeOK /\ TokensInPlace /\ WireInv /\ OneAnswerInv /\ SpinnerInv /\ ShownInv

----------------------------------------------------------------------------
LEMMA SetOfAppend ==
    ASSUME NEW S, NEW s \in Seq(S), NEW e \in S
    PROVE  /\ Append(s, e) \in Seq(S) /\ Len(Append(s, e)) = Len(s) + 1
           /\ DOMAIN Append(s, e) = 1 .. Len(s) + 1 /\ DOMAIN s = 1 .. Len(s)
           /\ Len(s) \in Nat
           /\ \A i \in DOMAIN s : Append(s, e)[i] = s[i]
           /\ Append(s, e)[Len(s) + 1] = e
           /\ ToSet(Append(s, e)) = ToSet(s) \cup {e}
<1>1. /\ Append(s, e) \in Seq(S) /\ Len(Append(s, e)) = Len(s) + 1
      /\ DOMAIN Append(s, e) = 1 .. Len(s) + 1 /\ DOMAIN s = 1 .. Len(s)
      /\ Len(s) \in Nat
      /\ \A i \in DOMAIN s : Append(s, e)[i] = s[i]
      /\ Append(s, e)[Len(s) + 1] = e
  OBVIOUS
<1>2. 1 .. Len(s) + 1 = (1 .. Len(s)) \cup {Len(s) + 1}
  BY <1>1
<1> QED
  BY <1>1, <1>2 DEF ToSet

LEMMA SetOfTail ==
    ASSUME NEW S, NEW s \in Seq(S), s # <<>>
    PROVE  /\ Tail(s) \in Seq(S) /\ Len(Tail(s)) = Len(s) - 1 /\ Len(s) \in Nat \ {0}
           /\ Head(s) \in S /\ Head(s) = s[1]
           /\ 1 \in DOMAIN s /\ DOMAIN s = 1 .. Len(s) /\ DOMAIN Tail(s) = 1 .. Len(s) - 1
           /\ \A i \in DOMAIN Tail(s) : i + 1 \in DOMAIN s /\ i + 1 # 1 /\ Tail(s)[i] = s[i + 1]
           /\ ToSet(s) = {Head(s)} \cup ToSet(Tail(s))
<1>1. /\ Tail(s) \in Seq(S) /\ Len(Tail(s)) = Len(s) - 1 /\ Len(s) \in Nat \ {0}
      /\ Head(s) \in S /\ Head(s) = s[1]
      /\ 1 \in DOMAIN s /\ DOMAIN s = 1 .. Len(s) /\ DOMAIN Tail(s) = 1 .. Len(s) - 1
      /\ \A i \in 1 .. Len(s) - 1 : i + 1 \in 1 .. Len(s) /\ i + 1 # 1 /\ Tail(s)[i] = s[i + 1]
  OBVIOUS
<1>2. \A i \in 1 .. Len(s) : i = 1 \/ (i - 1 \in 1 .. Len(s) - 1 /\ Tail(s)[i - 1] = s[i])
  BY <1>1
<1>3. ToSet(s) \subseteq {Head(s)} \cup ToSet(Tail(s))
  <2> SUFFICES ASSUME NEW i \in 1 .. Len(s), i # 1 PROVE s[i] \in ToSet(Tail(s))
    BY <1>1 DEF ToSet
  <2> QED
    BY <1>1, <1>2 DEF ToSet
<1>4. {Head(s)} \cup ToSet(Tail(s)) \subseteq ToSet(s)
  BY <1>1 DEF ToSet
<1> QED
  BY <1>1, <1>3, <1>4

LEMMA NothingInFlight ==
    ASSUME ChatTypeOK, InFlight = {}
    PROVE  /\ inbox = <<>> /\ active.at # "running" /\ ~Awaiting
           /\ \A i \in DOMAIN outbox : ~DoneAt(i)
<1>1. inbox = <<>>
  <2> SUFFICES ASSUME inbox # <<>> PROVE FALSE
    OBVIOUS
  <2>1. inbox[1] \in ToSet(inbox)
    BY SetOfTail DEF ChatTypeOK, ToSet
  <2> QED
    BY <2>1 DEF InFlight
<1>2. active.at # "running"
  BY DEF InFlight
<1>3. \A i \in DOMAIN outbox : ~DoneAt(i)
  <2> SUFFICES ASSUME NEW i \in DOMAIN outbox, DoneAt(i) PROVE FALSE
    OBVIOUS
  <2>1. outbox[i] \in ToSet(outbox) /\ outbox[i].type # "token"
    BY DEF DoneAt, ToSet
  <2> QED
    BY <2>1 DEF InFlight
<1> QED
  BY <1>1, <1>2, <1>3 DEF Awaiting

LEMMA NothingOnTheWire ==
    ASSUME WireEmpty
    PROVE  /\ InFlight = {} /\ ~Awaiting /\ DOMAIN inbox = {} /\ DOMAIN outbox = {}
           /\ \A i \in DOMAIN outbox : ~DoneAt(i)
<1>1. ToSet(inbox) = {} /\ ToSet(outbox) = {} /\ DOMAIN inbox = {} /\ DOMAIN outbox = {}
  BY DEF WireEmpty, ToSet
<1>2. active.at = "none"
  BY DEF WireEmpty, NoTask
<1> QED
  BY <1>1, <1>2 DEF InFlight, Awaiting, DoneAt, WireEmpty
----------------------------------------------------------------------------
LEMMA ChatInvInit == ChatInit => ChatInv
<1> SUFFICES ASSUME ChatInit PROVE ChatInv
  OBVIOUS
<1>1. ChatTypeOK
  <2>1. tickets \in 0 .. MaxTickets /\ asks \in 0 .. MaxAsks /\ sockets \in 0 .. MaxSockets
    BY ChatAssumption DEF ChatInit
  <2>2. /\ messages \in Seq(Message) /\ Len(messages) <= MaxAsks + 1
        /\ inbox \in Seq(Ask) /\ outbox \in Seq(Event)
    BY ChatAssumption DEF ChatInit
  <2>3. active \in Task
    BY DEF ChatInit, Task
  <2> QED
    BY <2>1, <2>2, <2>3 DEF ChatInit, ChatTypeOK
<1>2. WireEmpty /\ DOMAIN messages = {} /\ Len(messages) = 0
  BY DEF ChatInit, WireEmpty
<1>3. ~Awaiting /\ DOMAIN inbox = {} /\ DOMAIN outbox = {} /\ active.at # "running"
  BY <1>2, NothingOnTheWire DEF Awaiting
<1>4. TokensInPlace /\ SpinnerInv
  BY <1>2 DEF TokensInPlace, SpinnerInv
<1>5. WireInv
  BY <1>2, <1>3 DEF WireInv, ChatInit
<1>6. OneAnswerInv
  BY <1>3 DEF OneAnswerInv, ChatInit
<1>7. ShownInv
  BY <1>2, <1>3 DEF ShownInv, ConversationIsShown, ChatInit
<1> QED
  BY <1>1, <1>4, <1>5, <1>6, <1>7 DEF ChatInv

(* A socket that is replaced or lost takes what is on it along.            *)
LEMMA LostKeepsInv ==
    ASSUME ChatInv, Lost, UNCHANGED <<client, asks, doubled, switched>>,
           tickets' \in 0 .. MaxTickets, sockets' \in 0 .. MaxSockets,
           socket' \in {"connecting", "closed"}
    PROVE  ChatInv'
<1>1. WireEmpty'
  BY DEF Lost, WireEmpty
<1>2. /\ InFlight' = {} /\ ~Awaiting' /\ DOMAIN inbox' = {} /\ DOMAIN outbox' = {}
      /\ active'.at # "running" /\ Len(inbox') = 0 /\ inbox' = <<>>
  <2>1. inbox' = <<>> /\ outbox' = <<>> /\ active'.at = "none"
    BY DEF Lost, NoTask
  <2>2. ToSet(inbox') = {} /\ ToSet(outbox') = {} /\ DOMAIN inbox' = {} /\ DOMAIN outbox' = {}
    BY <2>1 DEF ToSet
  <2> QED
    BY <2>1, <2>2 DEF InFlight, Awaiting, DoneAt
<1>3. ChatTypeOK'
  BY <1>1 DEF ChatInv, ChatTypeOK, Lost, client, Task
<1>4. TokensInPlace' /\ SpinnerInv'
  BY DEF ChatInv, TokensInPlace, SpinnerInv, client
<1>5. WireInv'
  BY <1>1, <1>2 DEF ChatInv, WireInv, Lost, client, ChatTypeOK
<1>6. OneAnswerInv'
  BY <1>2 DEF OneAnswerInv
<1>7. ShownInv'
  BY <1>2 DEF ChatInv, ShownInv, ConversationIsShown, client
<1> QED
  BY <1>3, <1>4, <1>5, <1>6, <1>7 DEF ChatInv

(* What happens to the socket, the tickets and the panel alone.            *)
LEMMA AsideKeepsInv ==
    ASSUME ChatInv, UNCHANGED <<messages, conversation, busy, wire, asks, sockets, history>>,
           selecting' \in Chats \cup {NoChat}, tickets' \in 0 .. MaxTickets,
           socket' \in {socket, "open"}
    PROVE  ChatInv'
<1>1. ChatTypeOK'
  BY DEF ChatInv, ChatTypeOK, wire, history
<1>2. InFlight' = InFlight /\ Awaiting' = Awaiting /\ WireEmpty' = WireEmpty
      /\ \A i : DoneAt(i)' = DoneAt(i)
  BY DEF InFlight, Awaiting, WireEmpty, DoneAt, wire
<1>3. TokensInPlace' /\ SpinnerInv'
  BY DEF ChatInv, TokensInPlace, SpinnerInv, history
<1>4. WireInv' /\ OneAnswerInv'
  BY <1>2 DEF ChatInv, WireInv, OneAnswerInv, wire, history
<1>5. ShownInv'
  BY <1>2 DEF ChatInv, ShownInv, ConversationIsShown, wire, history
<1> QED
  BY <1>1, <1>3, <1>4, <1>5 DEF ChatInv

LEMMA SendAskKeepsInv == ChatInv /\ SendAsk => ChatInv'
<1> SUFFICES ASSUME ChatInv, SendAsk PROVE ChatInv'
  OBVIOUS
<1> DEFINE m == NewMessage(asks', FALSE)
           a == [ask |-> asks', chat |-> conversation]
<1>1. /\ ~busy /\ socket = "open" /\ asks' = asks + 1 /\ busy' = TRUE /\ stranded' = FALSE
      /\ messages' = Append(messages, m) /\ inbox' = Append(inbox, a)
      /\ doubled' = (doubled \/ InFlight # {})
      /\ UNCHANGED <<conversation, selecting, tickets, socket, active, outbox, sockets,
                     switched>>
  BY DEF SendAsk
<1>2. /\ asks \in Nat /\ asks' \in Asks /\ asks' \in 0 .. MaxAsks /\ MaxAsks \in Nat
      /\ conversation \in ChatIds \cup {NoChat}
      /\ messages \in Seq(Message) /\ inbox \in Seq(Ask)
  BY ChatAssumption DEF SendAsk, ChatInv, ChatTypeOK, Asks
<1>3. m \in Message /\ m.streaming /\ m.content = {} /\ m.ask = asks' /\ m.chat = conversation
  BY <1>2 DEF NewMessage, Message
<1>4. a \in Ask /\ a.ask = asks' /\ a.chat = conversation
  BY <1>2 DEF Ask
<1> HIDE DEF m, a
<1>5. /\ messages' \in Seq(Message) /\ Len(messages') = Len(messages) + 1
      /\ DOMAIN messages' = 1 .. Len(messages) + 1 /\ DOMAIN messages = 1 .. Len(messages)
      /\ Len(messages) \in Nat
      /\ \A i \in DOMAIN messages : messages'[i] = messages[i]
      /\ messages'[Len(messages) + 1] = m
  BY <1>1, <1>2, <1>3, SetOfAppend
<1>6. /\ inbox' \in Seq(Ask) /\ ToSet(inbox') = ToSet(inbox) \cup {a} /\ inbox' # <<>>
      /\ DOMAIN inbox' = 1 .. Len(inbox) + 1 /\ Len(inbox') = Len(inbox) + 1
      /\ Len(inbox) \in Nat /\ inbox'[Len(inbox) + 1] = a
  BY <1>1, <1>2, <1>4, SetOfAppend
<1>7. ChatTypeOK'
  <2>1. Len(messages') <= MaxAsks + 1
    BY <1>2, <1>1, <1>5 DEF ChatInv, WireInv
  <2> QED
    BY <1>1, <1>2, <1>5, <1>6, <2>1 DEF ChatInv, ChatTypeOK
<1>8. TokensInPlace'
  BY <1>3, <1>5 DEF ChatInv, TokensInPlace
<1>9. WireInv'
  <2>1. asks' \in InFlight'
    BY <1>4, <1>6 DEF InFlight
  <2> QED
    BY <1>1, <1>2, <1>5, <2>1 DEF ChatInv, WireInv, DoneAt
<1>10. ~doubled' =>
        ~doubled /\ inbox' # <<>> /\ Len(inbox') = 1 /\ DOMAIN inbox' = {1} /\ inbox'[1] = a
          /\ active'.at # "running" /\ \A i \in DOMAIN outbox' : ~DoneAt(i)'
  <2> SUFFICES ASSUME ~doubled' PROVE ~doubled /\ inbox' # <<>> /\ Len(inbox') = 1
          /\ DOMAIN inbox' = {1} /\ inbox'[1] = a
          /\ active'.at # "running" /\ \A i \in DOMAIN outbox' : ~DoneAt(i)'
    OBVIOUS
  <2>1. ~doubled /\ InFlight = {}
    BY <1>1 DEF ChatInv, ChatTypeOK
  <2>2. inbox = <<>> /\ active.at # "running" /\ \A i \in DOMAIN outbox : ~DoneAt(i)
    BY <2>1, NothingInFlight DEF ChatInv
  <2> QED
    BY <1>1, <1>6, <2>1, <2>2 DEF DoneAt
<1>11. OneAnswerInv'
  BY <1>4, <1>10 DEF OneAnswerInv
<1>12. SpinnerInv'
  BY <1>1, <1>3, <1>5, <1>10 DEF ChatInv, SpinnerInv
<1>13. ShownInv'
  BY <1>1, <1>3, <1>4, <1>5, <1>10 DEF ChatInv, ShownInv, ConversationIsShown
<1> QED
  BY <1>7, <1>8, <1>9, <1>11, <1>12, <1>13 DEF ChatInv

LEMMA SendOfflineKeepsInv == ChatInv /\ SendOffline => ChatInv'
<1> SUFFICES ASSUME ChatInv, SendOffline PROVE ChatInv'
  OBVIOUS
<1> DEFINE m == NewMessage(asks', TRUE)
<1>1. /\ ~busy /\ socket # "open" /\ asks' = asks + 1 /\ messages' = Append(messages, m)
      /\ UNCHANGED <<conversation, busy, selecting, socket, wire, sockets, history>>
  BY DEF SendOffline
<1>2. /\ asks \in Nat /\ asks' \in Asks /\ asks' \in 0 .. MaxAsks /\ MaxAsks \in Nat
      /\ conversation \in ChatIds \cup {NoChat} /\ messages \in Seq(Message)
      /\ tickets' \in 0 .. MaxTickets
  BY ChatAssumption DEF SendOffline, ChatInv, ChatTypeOK, Asks
<1>3. m \in Message /\ ~m.streaming /\ m.failed /\ m.content = {}
  BY <1>2 DEF NewMessage, Message
<1> HIDE DEF m
<1>4. /\ messages' \in Seq(Message) /\ Len(messages') = Len(messages) + 1
      /\ DOMAIN messages' = 1 .. Len(messages) + 1 /\ DOMAIN messages = 1 .. Len(messages)
      /\ Len(messages) \in Nat
      /\ \A i \in DOMAIN messages : messages'[i] = messages[i]
      /\ messages'[Len(messages) + 1] = m
  BY <1>1, <1>2, <1>3, SetOfAppend
<1>5. /\ WireEmpty' /\ ~Awaiting' /\ DOMAIN inbox' = {} /\ DOMAIN outbox' = {}
      /\ active'.at # "running" /\ inbox' = <<>> /\ Len(inbox') = 0
  <2>1. WireEmpty
    BY <1>1 DEF ChatInv, WireInv
  <2>2. ~Awaiting /\ DOMAIN inbox = {} /\ DOMAIN outbox = {}
    BY <2>1, NothingOnTheWire
  <2> QED
    BY <1>1, <2>1, <2>2 DEF WireEmpty, Awaiting, DoneAt, wire
<1>6. ChatTypeOK'
  <2>1. Len(messages') <= MaxAsks + 1
    BY <1>1, <1>2, <1>4 DEF ChatInv, WireInv
  <2> QED
    BY <1>1, <1>2, <1>4, <2>1 DEF ChatInv, ChatTypeOK, wire, history
<1>7. TokensInPlace'
  BY <1>3, <1>4 DEF ChatInv, TokensInPlace
<1>8. WireInv'
  BY <1>1, <1>2, <1>4, <1>5 DEF ChatInv, WireInv, DoneAt, history
<1>9. OneAnswerInv'
  BY <1>5 DEF OneAnswerInv
<1>10. SpinnerInv'
  BY <1>1, <1>3, <1>4 DEF ChatInv, SpinnerInv, history
<1>11. ShownInv'
  BY <1>1, <1>3, <1>4, <1>5 DEF ChatInv, ShownInv, ConversationIsShown, history
<1> QED
  BY <1>6, <1>7, <1>8, <1>9, <1>10, <1>11 DEF ChatInv

(* A chat that is left with an ask on its way is left for good; with none, *)
(* there is nothing to come that is not of the chat on the screen.         *)
LEMMA LeavingFacts ==
    ASSUME ChatInv, LeavesChat, UNCHANGED <<wire, asks>>
    PROVE  /\ OneAnswerInv'
           /\ ~doubled' /\ ~switched' =>
                ~Awaiting' /\ DOMAIN inbox' = {} /\ active'.at # "running"
                  /\ \A i \in DOMAIN outbox' : ~DoneAt(i)'
           /\ switched' \in BOOLEAN /\ doubled' \in BOOLEAN
<1>1. switched' = (InFlight # {}) /\ doubled' = (doubled /\ InFlight # {})
  BY DEF LeavesChat
<1>2. Awaiting' = Awaiting /\ \A i : DoneAt(i)' = DoneAt(i)
  BY DEF Awaiting, DoneAt, wire
<1>3. InFlight = {} => /\ inbox = <<>> /\ active.at # "running" /\ ~Awaiting
                       /\ \A i \in DOMAIN outbox : ~DoneAt(i)
  BY NothingInFlight DEF ChatInv
<1>4. inbox = <<>> => DOMAIN inbox = {} /\ Len(inbox) = 0
  OBVIOUS
<1>5. OneAnswerInv'
  <2>1. CASE InFlight = {}
    BY <1>2, <1>3, <1>4, <2>1 DEF OneAnswerInv, wire
  <2>2. CASE InFlight # {}
    BY <1>1, <1>2, <2>2 DEF ChatInv, OneAnswerInv, wire, ChatTypeOK
  <2> QED
    BY <2>1, <2>2
<1> QED
  BY <1>1, <1>2, <1>3, <1>4, <1>5 DEF wire, ChatInv, ChatTypeOK

LEMMA ResetChatKeepsInv == ChatInv /\ ResetChat => ChatInv'
<1> SUFFICES ASSUME ChatInv, ResetChat PROVE ChatInv'
  OBVIOUS
<1>1. /\ messages' = <<>> /\ conversation' = NoChat /\ ~busy' /\ ~stranded' /\ busy' = FALSE
      /\ stranded' = FALSE
      /\ LeavesChat
      /\ UNCHANGED <<selecting, tickets, socket, wire, asks, sockets>>
  BY DEF ResetChat
<1>2. /\ OneAnswerInv'
      /\ ~doubled' /\ ~switched' =>
           ~Awaiting' /\ DOMAIN inbox' = {} /\ active'.at # "running"
             /\ \A i \in DOMAIN outbox' : ~DoneAt(i)'
      /\ switched' \in BOOLEAN /\ doubled' \in BOOLEAN
  BY <1>1, LeavingFacts
<1>3. DOMAIN messages' = {} /\ Len(messages') = 0 /\ messages' \in Seq(Message)
  BY <1>1
<1>4. ChatTypeOK'
  <2>1. Len(messages') <= MaxAsks + 1
    BY <1>3, ChatAssumption
  <2> QED
    BY <1>1, <1>2, <1>3, <2>1 DEF ChatInv, ChatTypeOK, wire
<1>5. TokensInPlace' /\ SpinnerInv'
  BY <1>3 DEF TokensInPlace, SpinnerInv
<1>6. WireInv'
  BY <1>1, <1>3 DEF ChatInv, WireInv, WireEmpty, DoneAt, wire, ChatTypeOK
<1>7. ShownInv'
  BY <1>1, <1>2, <1>3 DEF ShownInv, ConversationIsShown
<1> QED
  BY <1>2, <1>4, <1>5, <1>6, <1>7 DEF ChatInv

LEMMA LoadHistoryKeepsInv == ChatInv /\ LoadHistory => ChatInv'
<1> SUFFICES ASSUME ChatInv, LoadHistory PROVE ChatInv'
  OBVIOUS
<1> DEFINE m == [ask |-> 0, chat |-> selecting, content |-> {}, streaming |-> FALSE,
                 failed |-> FALSE]
<1>1. /\ messages' = <<m>> /\ conversation' = selecting /\ selecting' = NoChat
      /\ selecting \in Chats /\ selecting # NoChat /\ LeavesChat
      /\ UNCHANGED <<busy, tickets, socket, wire, asks, sockets, stranded>>
  BY DEF LoadHistory, ChatInv, ChatTypeOK
<1>2. /\ OneAnswerInv'
      /\ ~doubled' /\ ~switched' =>
           ~Awaiting' /\ DOMAIN inbox' = {} /\ active'.at # "running"
             /\ \A i \in DOMAIN outbox' : ~DoneAt(i)'
      /\ switched' \in BOOLEAN /\ doubled' \in BOOLEAN
  BY <1>1, LeavingFacts
<1>3. m \in Message /\ m.chat = selecting /\ m.content = {} /\ ~m.streaming
  BY <1>1 DEF Message, ChatIds
<1> HIDE DEF m
<1>4. /\ DOMAIN messages' = {1} /\ messages'[1] = m /\ Len(messages') = 1
      /\ messages' \in Seq(Message) /\ messages' # <<>>
  BY <1>1, <1>3
<1>5. ChatTypeOK'
  <2>1. Len(messages') <= MaxAsks + 1
    BY <1>4, ChatAssumption
  <2> QED
    BY <1>1, <1>2, <1>4, <2>1 DEF ChatInv, ChatTypeOK, wire, ChatIds
<1>6. TokensInPlace' /\ SpinnerInv'
  BY <1>1, <1>3, <1>4 DEF TokensInPlace, SpinnerInv
<1>7. WireInv'
  <2>1. InFlight' = InFlight /\ WireEmpty' = WireEmpty /\ \A i : DoneAt(i)' = DoneAt(i)
    BY <1>1 DEF InFlight, WireEmpty, DoneAt, wire
  <2> QED
    BY <1>1, <1>4, <2>1 DEF ChatInv, WireInv, wire, ChatTypeOK
<1>8. ShownInv'
  BY <1>1, <1>2, <1>3, <1>4 DEF ShownInv, ConversationIsShown
<1> QED
  BY <1>2, <1>5, <1>6, <1>7, <1>8 DEF ChatInv

----------------------------------------------------------------------------
(* What the next event leaves of the wire.                                 *)
LEMMA ArrivalFacts ==
    ASSUME ChatInv, outbox # <<>>, outbox' = Tail(outbox), UNCHANGED <<inbox, active, asks>>
    PROVE  /\ outbox' \in Seq(Event) /\ Event1 \in Event /\ 1 \in DOMAIN outbox
           /\ Event1 = outbox[1] /\ Event1 \in ToSet(outbox)
           /\ ToSet(outbox) = {Event1} \cup ToSet(outbox')
           /\ \A i \in DOMAIN outbox' : i + 1 \in DOMAIN outbox /\ i + 1 # 1
                                         /\ outbox'[i] = outbox[i + 1] /\ DoneAt(i)' = DoneAt(i + 1)
           /\ Awaiting' => Awaiting
           /\ doubled' = doubled => OneAnswerInv'
           /\ ~WireEmpty /\ ~stranded /\ socket = "open"
<1>1. outbox \in Seq(Event)
  BY DEF ChatInv, ChatTypeOK
<1>2. /\ outbox' \in Seq(Event) /\ Event1 \in Event /\ 1 \in DOMAIN outbox
      /\ Event1 = outbox[1] /\ Event1 \in ToSet(outbox)
      /\ ToSet(outbox) = {Event1} \cup ToSet(outbox')
      /\ \A i \in DOMAIN outbox' :
           i + 1 \in DOMAIN outbox /\ i + 1 # 1 /\ outbox'[i] = outbox[i + 1]
  BY <1>1, SetOfTail DEF Event1
<1>3. \A i \in DOMAIN outbox' : DoneAt(i)' = DoneAt(i + 1)
  BY <1>2 DEF DoneAt
<1>4. Awaiting' => Awaiting
  BY <1>2, <1>3 DEF Awaiting
<1>5. doubled' = doubled => OneAnswerInv'
  <2> SUFFICES ASSUME doubled' = doubled, ~doubled PROVE OneAnswerInv'
    BY DEF OneAnswerInv
  <2>1. /\ Len(inbox) <= 1
        /\ inbox # <<>> => active.at # "running"
        /\ inbox # <<>> \/ active.at = "running" => \A i \in DOMAIN outbox : ~DoneAt(i)
        /\ \A i, j \in DOMAIN outbox : DoneAt(i) /\ DoneAt(j) => i = j
        /\ \A i \in DOMAIN inbox : inbox[i].ask = asks
        /\ active.at = "running" => active.ask = asks
        /\ \A i \in DOMAIN outbox : DoneAt(i) => outbox[i].ask = asks
    BY DEF ChatInv, OneAnswerInv
  <2>2. \A i, j \in DOMAIN outbox' : DoneAt(i)' /\ DoneAt(j)' => i = j
    <3> SUFFICES ASSUME NEW i \in DOMAIN outbox', NEW j \in DOMAIN outbox',
                        DoneAt(i)', DoneAt(j)'
                 PROVE  i = j
      OBVIOUS
    <3>1. i + 1 = j + 1
      BY <1>2, <1>3, <2>1
    <3>2. i \in Int /\ j \in Int
      BY <1>2
    <3> QED
      BY <3>1, <3>2
  <2> QED
    BY <1>2, <1>3, <2>1, <2>2 DEF OneAnswerInv
<1>6. ~WireEmpty
  BY DEF WireEmpty
<1> QED
  BY <1>2, <1>3, <1>4, <1>5, <1>6 DEF ChatInv, WireInv

LEMMA LastFacts ==
    ASSUME messages \in Seq(Message), messages # <<>>, NEW m \in Message, LastBecomes(m)
    PROVE  /\ messages' \in Seq(Message) /\ Len(messages') = Len(messages)
           /\ DOMAIN messages' = DOMAIN messages /\ messages' # <<>>
           /\ Len(messages) \in DOMAIN messages /\ Len(messages) \in Nat
           /\ Last(messages) = messages[Len(messages)] /\ Last(messages) \in Message
           /\ messages'[Len(messages)] = m
           /\ \A i \in DOMAIN messages : i # Len(messages) => messages'[i] = messages[i]
<1>1. /\ Len(messages) \in DOMAIN messages /\ Len(messages) \in Nat
      /\ DOMAIN messages = 1 .. Len(messages)
  OBVIOUS
<1>2. messages' = [messages EXCEPT ![Len(messages)] = m]
  BY DEF LastBecomes
<1>3. Len(messages') = Len(messages) /\ messages' \in Seq(Message)
  BY <1>1, <1>2
<1> QED
  BY <1>1, <1>2, <1>3 DEF Last

LEMMA OnTokenKeepsInv == ChatInv /\ OnToken => ChatInv'
<1> SUFFICES ASSUME ChatInv, OnToken PROVE ChatInv'
  OBVIOUS
<1>1. /\ outbox # <<>> /\ outbox' = Tail(outbox) /\ Event1.type = "token"
      /\ UNCHANGED <<conversation, busy, selecting, tickets, socket, inbox, active, asks,
                     sockets, history>>
  BY DEF OnToken, Arrives
<1>2. /\ outbox' \in Seq(Event) /\ Event1 \in Event
      /\ ToSet(outbox) = {Event1} \cup ToSet(outbox')
      /\ \A i \in DOMAIN outbox' : i + 1 \in DOMAIN outbox
                                    /\ outbox'[i] = outbox[i + 1] /\ DoneAt(i)' = DoneAt(i + 1)
      /\ Awaiting' => Awaiting
      /\ OneAnswerInv'
      /\ ~stranded /\ socket = "open"
  BY <1>1, ArrivalFacts DEF history
<1>3. InFlight' = InFlight
  BY <1>1, <1>2 DEF InFlight
<1>4. /\ messages' \in Seq(Message) /\ Len(messages') = Len(messages)
      /\ DOMAIN messages' = DOMAIN messages /\ (messages' = <<>>) = (messages = <<>>)
      /\ \A i \in DOMAIN messages :
           /\ messages'[i].ask = messages[i].ask /\ messages'[i].chat = messages[i].chat
           /\ messages'[i].streaming = messages[i].streaming
           /\ messages'[i].failed = messages[i].failed
           /\ messages'[i].content \subseteq messages[i].content \cup {messages[i].ask}
  <2>1. CASE IsLast(Event1.ask)
    <3> DEFINE m == [Last(messages) EXCEPT !.content = @ \cup {Event1.ask}]
    <3>1. /\ messages \in Seq(Message) /\ messages # <<>> /\ LastBecomes(m)
          /\ Last(messages).ask = Event1.ask
      BY <2>1 DEF IsLast, OnToken, ChatInv, ChatTypeOK
    <3>2. Last(messages) \in Message /\ Last(messages) = messages[Len(messages)]
      BY <3>1 DEF Last
    <3>3. /\ m \in Message /\ m.ask = Last(messages).ask /\ m.chat = Last(messages).chat
          /\ m.streaming = Last(messages).streaming /\ m.failed = Last(messages).failed
          /\ m.content = Last(messages).content \cup {Last(messages).ask}
      BY <1>2, <3>1, <3>2 DEF Message, Event
    <3> HIDE DEF m
    <3> QED
      BY <3>1, <3>2, <3>3, LastFacts
  <2>2. CASE ~IsLast(Event1.ask)
    BY <2>2 DEF OnToken, ChatInv, ChatTypeOK
  <2> QED
    BY <2>1, <2>2
<1>5. ChatTypeOK'
  BY <1>1, <1>2, <1>4 DEF ChatInv, ChatTypeOK, history
<1>6. TokensInPlace'
  BY <1>4 DEF ChatInv, TokensInPlace
<1>7. WireInv'
  BY <1>1, <1>2, <1>3, <1>4 DEF ChatInv, WireInv, history
<1>8. SpinnerInv'
  BY <1>1, <1>4 DEF ChatInv, SpinnerInv, history
<1>9. ShownInv'
  <2>1. messages # <<>> => Len(messages) \in DOMAIN messages
    BY DEF ChatInv, ChatTypeOK
  <2> QED
    BY <1>1, <1>2, <1>4, <2>1 DEF ChatInv, ShownInv, ConversationIsShown, history
<1> QED
  BY <1>2, <1>5, <1>6, <1>7, <1>8, <1>9 DEF ChatInv

(* The one answer that is awaited ends the one spinner there is.           *)
LEMMA OnDoneKeepsInv == ChatInv /\ OnDone => ChatInv'
<1> SUFFICES ASSUME ChatInv, OnDone PROVE ChatInv'
  OBVIOUS
<1>1. /\ outbox # <<>> /\ outbox' = Tail(outbox) /\ Event1.type = "done" /\ busy' = FALSE
      /\ conversation' = Event1.chat /\ stranded' = FALSE
      /\ UNCHANGED <<selecting, tickets, socket, inbox, active, asks, sockets, doubled,
                     switched>>
  BY DEF OnDone, Arrives
<1>2. /\ outbox' \in Seq(Event) /\ Event1 \in Event /\ 1 \in DOMAIN outbox
      /\ Event1 = outbox[1]
      /\ ToSet(outbox) = {Event1} \cup ToSet(outbox')
      /\ \A i \in DOMAIN outbox' : i + 1 \in DOMAIN outbox /\ i + 1 # 1
                                    /\ outbox'[i] = outbox[i + 1] /\ DoneAt(i)' = DoneAt(i + 1)
      /\ OneAnswerInv'
      /\ ~stranded /\ socket = "open"
  BY <1>1, ArrivalFacts
<1>3. DoneAt(1) /\ Event1.chat # NoChat /\ Event1.chat \in ChatIds
  BY <1>1, <1>2 DEF DoneAt, ChatInv, WireInv, Event
<1>4. ~doubled => /\ inbox = <<>> /\ active.at # "running" /\ Event1.ask = asks
                  /\ \A i \in DOMAIN outbox' : ~DoneAt(i)'
  BY <1>2, <1>3 DEF ChatInv, OneAnswerInv
<1>5. ~doubled => ~Awaiting' /\ DOMAIN inbox' = {} /\ active'.at # "running"
  BY <1>1, <1>4 DEF Awaiting, DoneAt
<1>6. ~doubled /\ ~switched =>
        /\ messages # <<>> /\ IsLast(Event1.ask)
        /\ Event1.chat = IF conversation = NoChat THEN asks ELSE conversation
  <2> SUFFICES ASSUME ~doubled, ~switched
               PROVE  /\ messages # <<>> /\ IsLast(Event1.ask)
                      /\ Event1.chat = IF conversation = NoChat THEN asks ELSE conversation
    OBVIOUS
  <2>1. Awaiting
    BY <1>2, <1>3 DEF Awaiting
  <2> QED
    BY <1>2, <1>3, <1>4, <2>1 DEF ChatInv, ShownInv, IsLast, Last
<1>7. /\ messages' \in Seq(Message) /\ Len(messages') = Len(messages)
      /\ DOMAIN messages' = DOMAIN messages /\ (messages' = <<>>) = (messages = <<>>)
      /\ messages = <<>> \/ Len(messages) \in DOMAIN messages
      /\ \A i \in DOMAIN messages :
           /\ messages'[i].ask = messages[i].ask /\ messages'[i].failed = messages[i].failed
           /\ messages'[i].content \subseteq messages[i].content \cup {messages[i].ask}
      /\ \A i \in DOMAIN messages :
           \/ messages'[i] = messages[i] /\ (i # Len(messages) \/ messages[i].ask # Event1.ask)
           \/ /\ messages'[i].chat = Event1.chat /\ ~messages'[i].streaming
              /\ i = Len(messages)
  <2>1. CASE IsLast(Event1.ask)
    <3> DEFINE m == [Last(messages) EXCEPT !.content = {Event1.ask}, !.streaming = FALSE,
                                           !.chat = Event1.chat]
    <3>1. /\ messages \in Seq(Message) /\ messages # <<>> /\ LastBecomes(m)
          /\ Last(messages).ask = Event1.ask
      BY <2>1 DEF IsLast, OnDone, ChatInv, ChatTypeOK
    <3>2. Last(messages) \in Message /\ Last(messages) = messages[Len(messages)]
      BY <3>1 DEF Last
    <3>3. /\ m \in Message /\ m.ask = Last(messages).ask /\ m.chat = Event1.chat
          /\ ~m.streaming /\ m.failed = Last(messages).failed
          /\ m.content = {Last(messages).ask}
      BY <1>2, <1>3, <3>1, <3>2 DEF Message, Event
    <3> HIDE DEF m
    <3> QED
      BY <3>1, <3>2, <3>3, LastFacts
  <2>2. CASE ~IsLast(Event1.ask)
    BY <2>2 DEF OnDone, ChatInv, ChatTypeOK, IsLast, Last
  <2> QED
    BY <2>1, <2>2
<1>8. ChatTypeOK'
  BY <1>1, <1>2, <1>3, <1>7 DEF ChatInv, ChatTypeOK
<1>9. TokensInPlace'
  BY <1>7 DEF ChatInv, TokensInPlace
<1>10. WireInv'
  BY <1>1, <1>2, <1>7 DEF ChatInv, WireInv
<1>11. \A i \in DOMAIN messages' : messages'[i].streaming => doubled
  BY <1>4, <1>7 DEF ChatInv, SpinnerInv
<1>12. SpinnerInv'
  BY <1>1, <1>3, <1>7, <1>11 DEF ChatInv, SpinnerInv
<1>13. ~doubled /\ ~switched =>
         \A i \in DOMAIN messages : ~messages[i].failed =>
           i = Len(messages) \/ messages[i].chat = Event1.chat
  BY <1>6 DEF ChatInv, ShownInv, ConversationIsShown, SpinnerInv
<1>14. ShownInv'
  BY <1>1, <1>4, <1>5, <1>6, <1>7, <1>13 DEF ShownInv, ConversationIsShown, IsLast, Last
<1> QED
  BY <1>2, <1>8, <1>9, <1>10, <1>12, <1>14 DEF ChatInv

LEMMA OnErrorKeepsInv == ChatInv /\ OnError => ChatInv'
<1> SUFFICES ASSUME ChatInv, OnError PROVE ChatInv'
  OBVIOUS
<1>1. /\ outbox # <<>> /\ outbox' = Tail(outbox) /\ busy' = FALSE /\ stranded' = FALSE
      /\ UNCHANGED <<conversation, selecting, tickets, socket, inbox, active, asks, sockets,
                     doubled, switched>>
  BY DEF OnError, Arrives
<1>2. /\ outbox' \in Seq(Event)
      /\ \A i \in DOMAIN outbox' : i + 1 \in DOMAIN outbox
                                    /\ outbox'[i] = outbox[i + 1] /\ DoneAt(i)' = DoneAt(i + 1)
      /\ Awaiting' => Awaiting
      /\ OneAnswerInv'
      /\ ~stranded /\ socket = "open"
  BY <1>1, ArrivalFacts
<1>3. /\ messages' \in Seq(Message) /\ Len(messages') = Len(messages)
      /\ DOMAIN messages' = DOMAIN messages /\ (messages' = <<>>) = (messages = <<>>)
      /\ messages = <<>> \/ Len(messages) \in DOMAIN messages
      /\ \A i \in DOMAIN messages :
           /\ messages'[i].ask = messages[i].ask /\ messages'[i].chat = messages[i].chat
           /\ messages'[i].content = messages[i].content
           /\ messages'[i].failed \/ messages'[i] = messages[i]
           /\ i = Len(messages) => ~messages'[i].streaming
           /\ messages'[i].streaming => messages[i].streaming
  <2>1. CASE messages # <<>>
    <3> DEFINE m == [Last(messages) EXCEPT !.streaming = FALSE, !.failed = TRUE]
    <3>1. messages \in Seq(Message) /\ messages # <<>> /\ LastBecomes(m)
      BY <2>1 DEF OnError, ChatInv, ChatTypeOK
    <3>2. Last(messages) \in Message /\ Last(messages) = messages[Len(messages)]
      BY <3>1 DEF Last
    <3>3. /\ m \in Message /\ m.ask = Last(messages).ask /\ m.chat = Last(messages).chat
          /\ ~m.streaming /\ m.failed /\ m.content = Last(messages).content
      BY <3>2 DEF Message
    <3> HIDE DEF m
    <3> QED
      BY <3>1, <3>2, <3>3, LastFacts
  <2>2. CASE messages = <<>>
    BY <2>2 DEF OnError, ChatInv, ChatTypeOK
  <2> QED
    BY <2>1, <2>2
<1>4. ChatTypeOK'
  BY <1>1, <1>2, <1>3 DEF ChatInv, ChatTypeOK
<1>5. TokensInPlace'
  BY <1>3 DEF ChatInv, TokensInPlace
<1>6. WireInv'
  BY <1>1, <1>2, <1>3 DEF ChatInv, WireInv
<1>7. SpinnerInv'
  BY <1>1, <1>3 DEF ChatInv, SpinnerInv
<1>8. ShownInv'
  BY <1>1, <1>2, <1>3 DEF ChatInv, ShownInv, ConversationIsShown
<1> QED
  BY <1>2, <1>4, <1>5, <1>6, <1>7, <1>8 DEF ChatInv

----------------------------------------------------------------------------
(* The server touches the wire alone, and moves asks on it.                *)
LEMMA ServerKeepsInv ==
    ASSUME ChatInv, UNCHANGED <<client, tickets, socket, asks, sockets, history>>,
           inbox' \in Seq(Ask), active' \in Task, outbox' \in Seq(Event),
           ~WireEmpty, InFlight \subseteq InFlight', Awaiting' => Awaiting, OneAnswerInv',
           \A i \in DOMAIN outbox' : DoneAt(i)' => outbox'[i].chat # NoChat,
           ~doubled /\ ~switched =>
             /\ \A i \in DOMAIN inbox' : inbox'[i].chat = conversation
             /\ active'.at = "running" => active'.chat = conversation
             /\ \A i \in DOMAIN outbox' : DoneAt(i)' =>
                  outbox'[i].chat = IF conversation = NoChat THEN asks ELSE conversation
    PROVE  ChatInv'
<1>1. ChatTypeOK' /\ TokensInPlace' /\ SpinnerInv'
  BY DEF ChatInv, ChatTypeOK, TokensInPlace, SpinnerInv, client, history
<1>2. WireInv'
  BY DEF ChatInv, WireInv, client, history
<1>3. ShownInv'
  BY DEF ChatInv, ShownInv, ConversationIsShown, client, history
<1> QED
  BY <1>1, <1>2, <1>3 DEF ChatInv

(* An ask that ends with an event sent is in flight until that comes.      *)
LEMMA SentInFlight ==
    ASSUME NEW e, e.type # "token", e.ask = active.ask,
           ToSet(outbox') = ToSet(outbox) \cup {e}, UNCHANGED inbox
    PROVE  InFlight \subseteq InFlight'
<1> DEFINE Sent(S) == {f.ask : f \in {g \in S : g.type # "token"}}
<1>1. Sent(ToSet(outbox)) \cup {active.ask} \subseteq Sent(ToSet(outbox'))
  OBVIOUS
<1> QED
  BY <1>1 DEF InFlight

LEMMA SendFacts ==
    ASSUME ChatInv, NEW type \in {"token", "done", "error"}, NEW a \in Asks,
           NEW chat \in ChatIds \cup {NoChat}, Sends(type, a, chat)
    PROVE  /\ outbox' \in Seq(Event)
           /\ ToSet(outbox') = ToSet(outbox) \cup {[type |-> type, ask |-> a, chat |-> chat]}
           /\ Len(outbox) \in Nat /\ DOMAIN outbox = 1 .. Len(outbox)
           /\ \A i \in DOMAIN outbox' :
                \/ i \in DOMAIN outbox /\ outbox'[i] = outbox[i] /\ DoneAt(i)' = DoneAt(i)
                \/ /\ i = Len(outbox) + 1 /\ outbox'[i].ask = a /\ outbox'[i].chat = chat
                   /\ DoneAt(i)' = (type = "done")
<1> DEFINE e == [type |-> type, ask |-> a, chat |-> chat]
<1>1. e \in Event /\ e.type = type /\ e.ask = a /\ e.chat = chat
  BY DEF Event
<1>2. outbox' = Append(outbox, e) /\ outbox \in Seq(Event)
  BY DEF Sends, ChatInv, ChatTypeOK
<1>3. ToSet(outbox') = ToSet(outbox) \cup {e}
  BY <1>1, <1>2, SetOfAppend
<1>4. /\ outbox' \in Seq(Event)
      /\ Len(outbox) \in Nat /\ DOMAIN outbox = 1 .. Len(outbox)
      /\ DOMAIN outbox' = 1 .. Len(outbox) + 1
      /\ \A i \in DOMAIN outbox : outbox'[i] = outbox[i]
      /\ outbox'[Len(outbox) + 1] = e
  BY <1>1, <1>2, SetOfAppend
<1>5. \A i \in DOMAIN outbox' : i \in DOMAIN outbox \/ i = Len(outbox) + 1
  BY <1>4
<1>6. Len(outbox) + 1 \notin DOMAIN outbox
  BY <1>4
<1>7. \A i \in DOMAIN outbox : DoneAt(i)' = DoneAt(i)
  BY <1>4 DEF DoneAt
<1>8. \A i : i = Len(outbox) + 1 => DoneAt(i)' = (type = "done")
  BY <1>1, <1>4 DEF DoneAt
<1> QED
  BY <1>1, <1>3, <1>4, <1>5, <1>6, <1>7, <1>8

LEMMA ReceiveKeepsInv == ChatInv /\ Receive => ChatInv'
<1> SUFFICES ASSUME ChatInv, Receive PROVE ChatInv'
  OBVIOUS
<1> DEFINE h == Head(inbox)
<1>1. /\ inbox # <<>> /\ inbox' = Tail(inbox) /\ inbox \in Seq(Ask)
      /\ UNCHANGED <<client, tickets, socket, asks, sockets, history>>
  BY DEF Receive, ChatInv, ChatTypeOK
<1>2. /\ inbox' \in Seq(Ask) /\ Len(inbox') = Len(inbox) - 1 /\ Len(inbox) \in Nat \ {0}
      /\ h \in Ask /\ h = inbox[1] /\ 1 \in DOMAIN inbox
      /\ \A i \in DOMAIN inbox' : i + 1 \in DOMAIN inbox /\ inbox'[i] = inbox[i + 1]
      /\ ToSet(inbox) = {h} \cup ToSet(inbox')
      /\ DOMAIN inbox' = 1 .. Len(inbox) - 1
  BY <1>1, SetOfTail
<1>3. h.ask \in Asks /\ h.chat \in ChatIds \cup {NoChat}
  BY <1>2 DEF Ask
<1> HIDE DEF h
<1>4. ~WireEmpty /\ Awaiting
  BY <1>1 DEF WireEmpty, Awaiting
<1>5. ~doubled => /\ DOMAIN inbox' = {} /\ inbox' = <<>> /\ Len(inbox') <= 1
                  /\ active.at # "running" /\ h.ask = asks
                  /\ \A i \in DOMAIN outbox : ~DoneAt(i)
  <2> SUFFICES ASSUME ~doubled
               PROVE  /\ DOMAIN inbox' = {} /\ inbox' = <<>> /\ Len(inbox') <= 1
                      /\ active.at # "running" /\ h.ask = asks
                      /\ \A i \in DOMAIN outbox : ~DoneAt(i)
    OBVIOUS
  <2>1. Len(inbox) <= 1 /\ active.at # "running" /\ \A i \in DOMAIN outbox : ~DoneAt(i)
    BY <1>1 DEF ChatInv, OneAnswerInv
  <2>2. h.ask = asks
    BY <1>2 DEF ChatInv, OneAnswerInv
  <2> QED
    BY <1>2, <2>1, <2>2
<1>6. ~doubled /\ ~switched => h.chat = conversation
  BY <1>2 DEF ChatInv, ShownInv
<1>7. CASE Sends("error", h.ask, h.chat) /\ UNCHANGED active
  <2>1. /\ outbox' \in Seq(Event)
        /\ ToSet(outbox') = ToSet(outbox) \cup
             {[type |-> "error", ask |-> h.ask, chat |-> h.chat]}
        /\ \A i \in DOMAIN outbox' :
             \/ i \in DOMAIN outbox /\ outbox'[i] = outbox[i] /\ DoneAt(i)' = DoneAt(i)
             \/ ~DoneAt(i)'
    BY <1>3, <1>7, SendFacts
  <2>2. InFlight \subseteq InFlight'
    <3> DEFINE e == [type |-> "error", ask |-> h.ask, chat |-> h.chat]
    <3>1. e \in ToSet(outbox') /\ e.type # "token" /\ e.ask = h.ask
      BY <2>1
    <3>2. h.ask \in InFlight'
      BY <3>1 DEF InFlight
    <3>3. InFlight \subseteq InFlight' \cup {h.ask}
      BY <1>2, <1>7, <2>1 DEF InFlight
    <3> QED
      BY <3>2, <3>3
  <2>3. OneAnswerInv'
    BY <1>1, <1>5, <1>7, <2>1 DEF OneAnswerInv, history
  <2>4. \A i \in DOMAIN outbox' : DoneAt(i)' => outbox'[i].chat # NoChat
    BY <2>1 DEF ChatInv, WireInv
  <2>5. ~doubled /\ ~switched =>
             /\ \A i \in DOMAIN inbox' : inbox'[i].chat = conversation
             /\ active'.at = "running" => active'.chat = conversation
             /\ \A i \in DOMAIN outbox' : DoneAt(i)' =>
                  outbox'[i].chat = IF conversation = NoChat THEN asks ELSE conversation
    BY <1>5, <1>7, <2>1
  <2>6. active' \in Task
    BY <1>7 DEF ChatInv, ChatTypeOK
  <2> QED
    BY <1>1, <1>2, <1>4, <2>1, <2>2, <2>3, <2>4, <2>5, <2>6, ServerKeepsInv
<1>8. CASE /\ active = NoTask /\ UNCHANGED outbox
           /\ active' = [at |-> "running", ask |-> h.ask, chat |-> h.chat]
  <2>1. active' \in Task /\ active'.at = "running" /\ active'.ask = h.ask /\ active'.chat = h.chat
    BY <1>3, <1>8 DEF Task
  <2>2. active.at # "running"
    BY <1>8 DEF NoTask
  <2>3. outbox' \in Seq(Event) /\ \A i : DoneAt(i)' = DoneAt(i)
    BY <1>8 DEF ChatInv, ChatTypeOK, DoneAt
  <2>4. InFlight \subseteq InFlight'
    BY <1>2, <1>8, <2>1, <2>2 DEF InFlight
  <2>5. OneAnswerInv'
    BY <1>1, <1>5, <1>8, <2>1, <2>3 DEF OneAnswerInv, history
  <2>6. \A i \in DOMAIN outbox' : DoneAt(i)' => outbox'[i].chat # NoChat
    BY <1>8, <2>3 DEF ChatInv, WireInv
  <2>7. ~doubled /\ ~switched =>
             /\ \A i \in DOMAIN inbox' : inbox'[i].chat = conversation
             /\ active'.at = "running" => active'.chat = conversation
             /\ \A i \in DOMAIN outbox' : DoneAt(i)' =>
                  outbox'[i].chat = IF conversation = NoChat THEN asks ELSE conversation
    BY <1>5, <1>6, <1>8, <2>1, <2>3
  <2> QED
    BY <1>1, <1>2, <1>4, <2>1, <2>3, <2>4, <2>5, <2>6, <2>7, ServerKeepsInv
<1> QED
  BY <1>7, <1>8 DEF Receive, h

LEMMA RunningTask ==
    ASSUME ChatInv, active # NoTask
    PROVE  /\ active.at \in {"running", "closing"} /\ active.ask \in Asks
           /\ active.chat \in ChatIds \cup {NoChat} /\ ~WireEmpty
           /\ active = [at |-> active.at, ask |-> active.ask, chat |-> active.chat]
  BY DEF ChatInv, ChatTypeOK, Task, WireEmpty

LEMMA StreamKeepsInv == ChatInv /\ Stream => ChatInv'
<1> SUFFICES ASSUME ChatInv, Stream PROVE ChatInv'
  OBVIOUS
<1>1. /\ active.at = "running" /\ active # NoTask /\ Sends("token", active.ask, active.chat)
      /\ UNCHANGED <<client, tickets, socket, inbox, active, asks, sockets, history>>
  BY DEF Stream, NoTask
<1>2. active.ask \in Asks /\ active.chat \in ChatIds \cup {NoChat} /\ ~WireEmpty
  BY <1>1, RunningTask
<1>3. /\ outbox' \in Seq(Event)
      /\ ToSet(outbox') = ToSet(outbox) \cup
           {[type |-> "token", ask |-> active.ask, chat |-> active.chat]}
      /\ \A i \in DOMAIN outbox' :
           \/ i \in DOMAIN outbox /\ outbox'[i] = outbox[i] /\ DoneAt(i)' = DoneAt(i)
           \/ ~DoneAt(i)'
  BY <1>1, <1>2, SendFacts
<1>4. InFlight \subseteq InFlight' /\ Awaiting
  BY <1>1, <1>3 DEF InFlight, Awaiting
<1>5. OneAnswerInv'
  BY <1>1, <1>3 DEF ChatInv, OneAnswerInv, history
<1>6. \A i \in DOMAIN outbox' : DoneAt(i)' => outbox'[i].chat # NoChat
  BY <1>3 DEF ChatInv, WireInv
<1>7. ~doubled /\ ~switched =>
             /\ \A i \in DOMAIN inbox' : inbox'[i].chat = conversation
             /\ active'.at = "running" => active'.chat = conversation
             /\ \A i \in DOMAIN outbox' : DoneAt(i)' =>
                  outbox'[i].chat = IF conversation = NoChat THEN asks ELSE conversation
  BY <1>1, <1>3 DEF ChatInv, ShownInv
<1>8. inbox' \in Seq(Ask) /\ active' \in Task
  BY <1>1 DEF ChatInv, ChatTypeOK
<1> QED
  BY <1>1, <1>2, <1>3, <1>4, <1>5, <1>6, <1>7, <1>8, ServerKeepsInv

LEMMA FinishKeepsInv == ChatInv /\ Finish => ChatInv'
<1> SUFFICES ASSUME ChatInv, Finish PROVE ChatInv'
  OBVIOUS
<1> DEFINE chat == IF active.chat = NoChat THEN active.ask ELSE active.chat
<1>1. /\ active.at = "running" /\ active # NoTask /\ Sends("done", active.ask, chat)
      /\ active' = [active EXCEPT !.at = "closing"]
      /\ UNCHANGED <<client, tickets, socket, inbox, asks, sockets, history>>
  BY DEF Finish, NoTask
<1>2. /\ active.ask \in Asks /\ active.chat \in ChatIds \cup {NoChat} /\ ~WireEmpty
      /\ active = [at |-> active.at, ask |-> active.ask, chat |-> active.chat]
  BY <1>1, RunningTask
<1>3. chat \in ChatIds /\ chat # NoChat
  BY <1>2, ChatAssumption DEF ChatIds
<1>4. active' \in Task /\ active'.at = "closing"
  BY <1>1, <1>2 DEF Task
<1>5. ~doubled => /\ inbox = <<>> /\ active.ask = asks
                  /\ \A i \in DOMAIN outbox : ~DoneAt(i)
  BY <1>1 DEF ChatInv, OneAnswerInv
<1>6. ~doubled /\ ~switched => chat = IF conversation = NoChat THEN asks ELSE conversation
  BY <1>1, <1>5 DEF ChatInv, ShownInv
<1> HIDE DEF chat
<1>7. /\ outbox' \in Seq(Event)
      /\ ToSet(outbox') = ToSet(outbox) \cup
           {[type |-> "done", ask |-> active.ask, chat |-> chat]}
      /\ \A i \in DOMAIN outbox' :
           \/ i \in DOMAIN outbox /\ outbox'[i] = outbox[i] /\ DoneAt(i)' = DoneAt(i)
           \/ i = Len(outbox) + 1 /\ outbox'[i].ask = active.ask /\ outbox'[i].chat = chat
  BY <1>1, <1>2, <1>3, SendFacts
<1>8. InFlight \subseteq InFlight' /\ Awaiting
  <2> DEFINE done == [type |-> "done", ask |-> active.ask, chat |-> chat]
  <2>1. done.type # "token" /\ done.ask = active.ask
    OBVIOUS
  <2> HIDE DEF done
  <2>2. ToSet(outbox') = ToSet(outbox) \cup {done}
    BY <1>7 DEF done
  <2> QED
    BY <1>1, <2>1, <2>2, SentInFlight DEF Awaiting
<1>9. OneAnswerInv'
  BY <1>1, <1>4, <1>5, <1>7 DEF OneAnswerInv, history
<1>10. \A i \in DOMAIN outbox' : DoneAt(i)' => outbox'[i].chat # NoChat
  BY <1>3, <1>7 DEF ChatInv, WireInv
<1>11. ~doubled /\ ~switched =>
             /\ \A i \in DOMAIN inbox' : inbox'[i].chat = conversation
             /\ active'.at = "running" => active'.chat = conversation
             /\ \A i \in DOMAIN outbox' : DoneAt(i)' =>
                  outbox'[i].chat = IF conversation = NoChat THEN asks ELSE conversation
  BY <1>1, <1>4, <1>5, <1>6, <1>7 DEF ChatInv, ShownInv
<1>12. inbox' \in Seq(Ask)
  BY <1>1 DEF ChatInv, ChatTypeOK
<1> QED
  BY <1>1, <1>2, <1>4, <1>7, <1>8, <1>9, <1>10, <1>11, <1>12, ServerKeepsInv

LEMMA UnlockKeepsInv == ChatInv /\ Unlock => ChatInv'
<1> SUFFICES ASSUME ChatInv, Unlock PROVE ChatInv'
  OBVIOUS
<1>1. /\ active.at = "closing" /\ active # NoTask /\ active' = NoTask /\ active'.at = "none"
      /\ UNCHANGED <<client, tickets, socket, inbox, outbox, asks, sockets, history>>
  BY DEF Unlock, NoTask
<1>2. ~WireEmpty /\ active' \in Task /\ inbox' \in Seq(Ask) /\ outbox' \in Seq(Event)
  BY <1>1 DEF WireEmpty, Task, ChatInv, ChatTypeOK
<1>3. InFlight \subseteq InFlight' /\ (Awaiting' => Awaiting) /\ \A i : DoneAt(i)' = DoneAt(i)
  BY <1>1 DEF InFlight, Awaiting, DoneAt
<1>4. OneAnswerInv'
  BY <1>1, <1>3 DEF ChatInv, OneAnswerInv, history
<1>5. \A i \in DOMAIN outbox' : DoneAt(i)' => outbox'[i].chat # NoChat
  BY <1>1, <1>3 DEF ChatInv, WireInv
<1>6. ~doubled /\ ~switched =>
             /\ \A i \in DOMAIN inbox' : inbox'[i].chat = conversation
             /\ active'.at = "running" => active'.chat = conversation
             /\ \A i \in DOMAIN outbox' : DoneAt(i)' =>
                  outbox'[i].chat = IF conversation = NoChat THEN asks ELSE conversation
  BY <1>1, <1>3 DEF ChatInv, ShownInv
<1> QED
  BY <1>1, <1>2, <1>3, <1>4, <1>5, <1>6, ServerKeepsInv

LEMMA AskFailsKeepsInv == ChatInv /\ AskFails => ChatInv'
<1> SUFFICES ASSUME ChatInv, AskFails PROVE ChatInv'
  OBVIOUS
<1>1. /\ active # NoTask /\ active' = NoTask /\ active'.at = "none"
      /\ Sends("error", active.ask, active.chat)
      /\ UNCHANGED <<client, tickets, socket, inbox, asks, sockets, history>>
  BY DEF AskFails, NoTask
<1>2. active.ask \in Asks /\ active.chat \in ChatIds \cup {NoChat} /\ ~WireEmpty
  BY <1>1, RunningTask
<1>3. /\ outbox' \in Seq(Event)
      /\ ToSet(outbox') = ToSet(outbox) \cup
           {[type |-> "error", ask |-> active.ask, chat |-> active.chat]}
      /\ \A i \in DOMAIN outbox' :
           \/ i \in DOMAIN outbox /\ outbox'[i] = outbox[i] /\ DoneAt(i)' = DoneAt(i)
           \/ ~DoneAt(i)'
  BY <1>1, <1>2, SendFacts
<1>4. InFlight \subseteq InFlight'
  <2> DEFINE error == [type |-> "error", ask |-> active.ask, chat |-> active.chat]
  <2>1. error.type # "token" /\ error.ask = active.ask
    OBVIOUS
  <2> HIDE DEF error
  <2>2. ToSet(outbox') = ToSet(outbox) \cup {error}
    BY <1>3 DEF error
  <2> QED
    BY <1>1, <2>1, <2>2, SentInFlight
<1>5. Awaiting' => Awaiting
  BY <1>1, <1>3 DEF Awaiting, DoneAt
<1>6. OneAnswerInv'
  BY <1>1, <1>3 DEF ChatInv, OneAnswerInv, history
<1>7. \A i \in DOMAIN outbox' : DoneAt(i)' => outbox'[i].chat # NoChat
  BY <1>3 DEF ChatInv, WireInv
<1>8. ~doubled /\ ~switched =>
             /\ \A i \in DOMAIN inbox' : inbox'[i].chat = conversation
             /\ active'.at = "running" => active'.chat = conversation
             /\ \A i \in DOMAIN outbox' : DoneAt(i)' =>
                  outbox'[i].chat = IF conversation = NoChat THEN asks ELSE conversation
  BY <1>1, <1>3 DEF ChatInv, ShownInv
<1>9. inbox' \in Seq(Ask) /\ active' \in Task
  BY <1>1 DEF ChatInv, ChatTypeOK, Task
<1> QED
  BY <1>1, <1>2, <1>3, <1>4, <1>5, <1>6, <1>7, <1>8, <1>9, ServerKeepsInv
----------------------------------------------------------------------------
LEMMA ChatNextKeepsInv == ChatInv /\ [ChatNext]_chatVars => ChatInv'
<1> SUFFICES ASSUME ChatInv, [ChatNext]_chatVars PROVE ChatInv'
  OBVIOUS
<1>1. CASE SendAsk \/ SendOffline \/ ResetChat
  BY <1>1, SendAskKeepsInv, SendOfflineKeepsInv, ResetChatKeepsInv
<1>2. CASE SelectFails \/ \E c \in Chats : SelectChat(c)
  <2>1. /\ UNCHANGED <<messages, conversation, busy, wire, asks, sockets, history>>
        /\ selecting' \in Chats \cup {NoChat} /\ tickets' = tickets /\ socket' = socket
    BY <1>2 DEF SelectFails, SelectChat
  <2> QED
    BY <2>1, AsideKeepsInv DEF ChatInv, ChatTypeOK
<1>3. CASE LoadHistory \/ OnToken \/ OnDone \/ OnError
  BY <1>3, LoadHistoryKeepsInv, OnTokenKeepsInv, OnDoneKeepsInv, OnErrorKeepsInv
<1>4. CASE TicketArrives \/ SocketCloses
  <2>1. /\ Lost /\ UNCHANGED <<client, asks, doubled, switched>>
        /\ socket' \in {"connecting", "closed"}
    BY <1>4 DEF TicketArrives, SocketCloses
  <2>2. tickets' \in 0 .. MaxTickets /\ sockets' \in 0 .. MaxSockets
    BY <1>4, ChatAssumption DEF TicketArrives, SocketCloses, ChatInv, ChatTypeOK
  <2> QED
    BY <2>1, <2>2, LostKeepsInv
<1>5. CASE TicketFails \/ SocketOpens
  <2>1. /\ UNCHANGED <<messages, conversation, busy, wire, asks, sockets, history>>
        /\ selecting' = selecting /\ socket' \in {socket, "open"}
    BY <1>5 DEF TicketFails, SocketOpens, client
  <2>2. tickets' \in 0 .. MaxTickets
    BY <1>5, ChatAssumption DEF TicketFails, SocketOpens, ChatInv, ChatTypeOK
  <2> QED
    BY <2>1, <2>2, AsideKeepsInv DEF ChatInv, ChatTypeOK
<1>6. CASE Receive \/ Stream \/ Finish \/ Unlock \/ AskFails
  BY <1>6, ReceiveKeepsInv, StreamKeepsInv, FinishKeepsInv, UnlockKeepsInv, AskFailsKeepsInv
<1>7. CASE UNCHANGED chatVars
  <2>1. UNCHANGED <<messages, conversation, busy, selecting, tickets, socket, wire, asks,
                    sockets, history>>
    BY <1>7 DEF chatVars, client
  <2> QED
    BY <2>1, AsideKeepsInv DEF ChatInv, ChatTypeOK
<1> QED
  BY <1>1, <1>2, <1>3, <1>4, <1>5, <1>6, <1>7 DEF ChatNext, User, Browser, Network, Server

(* The strengthened invariant of the chat: what is on the wire, what waits *)
(* for it and what is on the screen (use-assistant-chat.ts, api/chat.py).  *)
THEOREM ChatInvariant == ChatSpec => []ChatInv
<1>1. ChatInit => ChatInv
  BY ChatInvInit
<1>2. ChatInv /\ [ChatNext]_chatVars => ChatInv'
  BY ChatNextKeepsInv
<1> QED
  BY <1>1, <1>2, PTL DEF ChatSpec

(* Every variable of the chat keeps its type, and the screen holds no more *)
(* messages than were asked, with one of history.                          *)
THEOREM ChatTypeCorrect == ChatSpec => []ChatTypeOK
<1>1. ChatInv => ChatTypeOK
  BY DEF ChatInv
<1> QED
  BY <1>1, ChatInvariant, PTL

(* handleStreamEvent: a message is made of tokens of its own ask.          *)
THEOREM TokensInPlaceHolds == ChatSpec => []TokensInPlace
<1>1. ChatInv => TokensInPlace
  BY DEF ChatInv
<1> QED
  BY <1>1, ChatInvariant, PTL

(* What the composer and a spinner wait for is on its way, or its socket   *)
(* is gone, or another ask was sent over it (sendAsk, ask_socket).         *)
THEOREM WaitsForWhatComesHolds == ChatSpec => []WaitsForWhatComes
<1>1. ChatInv => WaitsForWhatComes
  <2> SUFFICES ASSUME ChatInv PROVE WaitsForWhatComes
    OBVIOUS
  <2>1. busy => stranded \/ asks \in InFlight
    BY DEF ChatInv, WireInv
  <2>2. ASSUME NEW i \in DOMAIN messages, messages[i].streaming
        PROVE  stranded \/ doubled \/ messages[i].ask \in InFlight
    BY <2>1, <2>2 DEF ChatInv, SpinnerInv
  <2> QED
    BY <2>1, <2>2 DEF WaitsForWhatComes
<1> QED
  BY <1>1, ChatInvariant, PTL

(* The next question goes to the conversation on the screen, as long as    *)
(* none is left or doubled while an ask is in flight (conversationId).     *)
THEOREM ConversationIsShownHolds == ChatSpec => []ConversationIsShown
<1>1. ChatInv => ConversationIsShown
  BY DEF ChatInv, ShownInv, ConversationIsShown
<1> QED
  BY <1>1, ChatInvariant, PTL

----------------------------------------------------------------------------
(* RagIndex.                                                               *)
FirstChunks(d, n) == {Chunk(d, i) : i \in 1 .. n}

JobInv ==
  \A j \in Jobs : ~At(j, "idle") =>
    /\ job[j].next >= 1
    /\ At(j, "compare") => job[j].next = 1
    /\ At(j, "upsert") => job[j].next <= ChunkCount[job[j].doc.text] + 1
    /\ ~At(j, "done") => ~job[j].skipped

(* A job that has run alone knows what the index holds.                    *)
AloneInv ==
  \A j \in Jobs : ~At(j, "idle") /\ job[j].alone =>
    /\ Running \subseteq {j} /\ Purging = {}
    /\ At(j, "upsert") => points = FirstChunks(job[j].doc, job[j].next - 1)
    /\ At(j, "register") => points = Chunks(job[j].doc)
    /\ At(j, "done") /\ ~job[j].skipped =>
         points = Chunks(job[j].doc) /\ registry = job[j].doc

(* Without a race, what runs runs alone.                                   *)
OrderInv ==
  ~raced =>
    /\ \A j \in Running : job[j].alone
    /\ \A p, q \in Purging : p = q
    /\ Running = {} \/ Purging = {}

Indexed == IF registry = NoDocument THEN {} ELSE Chunks(registry)

RegistryInv ==
  ~raced /\ failures = 0 =>
    /\ Quiet => points = Indexed
    /\ \A j \in Jobs : At(j, "compare") => points = Indexed
    /\ \A p \in Purges : /\ purge[p] = "chunks" => points = Indexed
                         /\ purge[p] = "registry" => points = {}

Reading(s) == search[s].pc \in {"corpus", "lookup", "store"}

(* What an answer can still be made of: the chunks in the index, in cached *)
(* answers, and in what a search has read.                                 *)
Visible(c) ==
  \/ c \in points
  \/ \E e \in cache : c \in e.answer
  \/ \E s \in Searches : Reading(s) /\ c \in search[s].seen

(* Without a race all of it is of one text, that of the job that writes.   *)
TextInv ==
  ~raced =>
    /\ \A b, c \in AllChunks : Visible(b) /\ Visible(c) => b.text = c.text
    /\ \A j \in Jobs : At(j, "upsert") =>
         \A c \in AllChunks : Visible(c) => c.text = job[j].doc.text

SearchInv ==
  \A s \in Searches :
    /\ search[s].pc \in {"lookup", "store"} => search[s].found \subseteq search[s].seen
    /\ search[s].pc = "store" => search[s].answer = search[s].found

IngestInv == JobInv /\ AloneInv /\ OrderInv /\ RegistryInv

AnswerInv == TextInv /\ SearchInv /\ AnswersAreIndexed

RagInv == RagTypeOK /\ IngestInv /\ AnswerInv

----------------------------------------------------------------------------
LEMMA ChunkFacts ==
    ASSUME NEW d \in Documents
    PROVE  /\ d.text \in Texts /\ ChunkCount[d.text] \in Nat /\ Chunks(d) \subseteq AllChunks
           /\ \A i \in 1 .. ChunkCount[d.text] : Chunk(d, i) \in AllChunks
           /\ \A i : Chunk(d, i).text = d.text /\ Chunk(d, i).index = i
           /\ Chunks(d) = FirstChunks(d, ChunkCount[d.text])
           /\ d # NoDocument
<1>1. d.text \in Texts /\ ChunkCount[d.text] \in Nat
  BY ChunkCountAssumption DEF Texts
<1> QED
  BY <1>1, NoDocumentAssumption DEF Chunks, AllChunks, Chunk, FirstChunks

(* One batch makes the first n chunks of the n - 1 before it.              *)
LEMMA NextChunk ==
    ASSUME NEW d \in Documents, NEW n \in Nat \ {0}
    PROVE  LET c == Chunk(d, n) IN
           {b \in FirstChunks(d, n - 1) : b.text # c.text \/ b.index # c.index} \cup {c}
             = FirstChunks(d, n)
<1>1. 1 .. n = (1 .. n - 1) \cup {n} /\ n \notin 1 .. n - 1
  OBVIOUS
<1>2. \A i : Chunk(d, i).index = i
  BY ChunkFacts
<1>3. FirstChunks(d, n) = FirstChunks(d, n - 1) \cup {Chunk(d, n)}
  BY <1>1 DEF FirstChunks
<1>4. \A b \in FirstChunks(d, n - 1) : b.index # n
  BY <1>1, <1>2 DEF FirstChunks
<1> QED
  BY <1>2, <1>3, <1>4

LEMMA NoChunks == ASSUME NEW d PROVE FirstChunks(d, 0) = {}
  BY DEF FirstChunks

LEMMA JobFacts ==
    ASSUME RagTypeOK, NEW j \in Jobs
    PROVE  /\ job[j] \in Job
           /\ At(j, "idle") <=> job[j] = Idle
           /\ ~At(j, "idle") =>
                /\ job[j] \in [pc : {"compare", "upsert", "register", "done"}, doc : Documents,
                               next : Nat, skipped : BOOLEAN, alone : BOOLEAN]
                /\ job[j].pc \in {"compare", "upsert", "register", "done"}
                /\ job[j].doc \in Documents /\ job[j].next \in Nat
                /\ job[j].skipped \in BOOLEAN /\ job[j].alone \in BOOLEAN
  BY DEF RagTypeOK, Job, Idle, At

LEMMA DisturbedFacts ==
    ASSUME RagTypeOK
    PROVE  /\ Disturbed \in [Jobs -> Job]
           /\ \A j \in Jobs :
                /\ Disturbed[j].pc = job[j].pc
                /\ ~At(j, "idle") =>
                     /\ Disturbed[j].alone = FALSE /\ Disturbed[j].doc = job[j].doc
                     /\ Disturbed[j].next = job[j].next
                     /\ Disturbed[j].skipped = job[j].skipped
<1>1. ASSUME NEW j \in Jobs
      PROVE  /\ Disturbed[j] \in Job /\ Disturbed[j].pc = job[j].pc
             /\ ~At(j, "idle") =>
                  /\ Disturbed[j].alone = FALSE /\ Disturbed[j].doc = job[j].doc
                  /\ Disturbed[j].next = job[j].next
                  /\ Disturbed[j].skipped = job[j].skipped
  <2>1. CASE job[j] = Idle
    BY <2>1, JobFacts DEF Disturbed
  <2>2. CASE job[j] # Idle
    <3>1. Disturbed[j] = [job[j] EXCEPT !.alone = FALSE]
      BY <2>2 DEF Disturbed
    <3> QED
      BY <2>2, <3>1, JobFacts DEF Job
  <2> QED
    BY <2>1, <2>2
<1> QED
  BY <1>1 DEF Disturbed

LEMMA RagInvInit == RagInit => RagInv
<1> SUFFICES ASSUME RagInit PROVE RagInv
  OBVIOUS
<1>1. RagTypeOK
  <2>1. job \in [Jobs -> Job] /\ search \in [Searches -> Search]
    BY DEF RagInit, Job, Search
  <2>2. purge \in [Purges -> {"idle", "chunks", "registry"}]
    BY DEF RagInit
  <2>3. started \in 0 .. MaxIngests /\ failures \in 0 .. MaxFailures
    BY RagBounds DEF RagInit
  <2> QED
    BY <2>1, <2>2, <2>3 DEF RagInit, RagTypeOK
<1>2. /\ \A j \in Jobs : At(j, "idle")
      /\ \A s \in Searches : search[s].pc = "idle"
      /\ \A p \in Purges : purge[p] = "idle"
  BY DEF RagInit, At, Idle
<1>3. Running = {} /\ Purging = {}
  BY <1>2 DEF Running, Purging, At
<1>4. JobInv /\ AloneInv
  BY <1>2 DEF JobInv, AloneInv
<1>5. OrderInv /\ RegistryInv
  BY <1>2, <1>3 DEF OrderInv, RegistryInv, Indexed, RagInit, At
<1>6. AnswerInv
  BY <1>2 DEF AnswerInv, TextInv, SearchInv, AnswersAreIndexed, Visible, Reading, RagInit, At
<1> QED
  BY <1>1, <1>4, <1>5, <1>6 DEF RagInv, IngestInv

----------------------------------------------------------------------------
(* Searches leave the ingest side alone.                                   *)
LEMMA IngestStays ==
    ASSUME RagInv, UNCHANGED <<points, registry, job, purge, raced>>,
           failures' \in {failures, failures + 1}
    PROVE  IngestInv'
<1>1. failures' = 0 => failures = 0
  BY DEF RagInv, RagTypeOK
<1>2. Running' = Running /\ Purging' = Purging /\ Indexed' = Indexed /\ Quiet' = Quiet
      /\ \A j, pc : At(j, pc)' = At(j, pc)
  BY DEF Running, Purging, Indexed, Quiet, At
<1>3. JobInv' /\ AloneInv'
  BY <1>2 DEF RagInv, IngestInv, JobInv, AloneInv
<1>4. OrderInv' /\ RegistryInv'
  BY <1>1, <1>2 DEF RagInv, IngestInv, OrderInv, RegistryInv
<1> QED
  BY <1>3, <1>4 DEF IngestInv

(* Jobs and purges leave the searches alone; what they write is of the one *)
(* text there is, or the only text there will be.                          *)
LEMMA AnswersStay ==
    ASSUME RagInv, UNCHANGED search, raced => raced', TextInv'
    PROVE  AnswerInv'
<1>1. raced \in BOOLEAN
  BY DEF RagInv, RagTypeOK
<1> QED
  BY <1>1 DEF RagInv, AnswerInv, SearchInv, AnswersAreIndexed

LEMMA TextShrinks ==
    ASSUME RagInv, raced => raced', \A c \in AllChunks : Visible(c)' => Visible(c),
           \A j \in Jobs : At(j, "upsert")' => At(j, "upsert") /\ job'[j].doc = job[j].doc
    PROVE  TextInv'
  BY DEF RagInv, AnswerInv, TextInv, RagTypeOK

(* The flush: with no search on its way, nothing but the index is left.    *)
OnlyTheIndex == \A c : Visible(c) => c \in points

LEMMA FlushFacts ==
    ASSUME RagInv, FlushCache, UNCHANGED search
    PROVE  /\ cache' = {} /\ raced' \in BOOLEAN /\ (raced => raced')
           /\ ~raced' => OnlyTheIndex'
<1>1. /\ cache' = {}
      /\ raced' = (raced \/ \E s \in Searches : search[s].pc \in {"corpus", "lookup", "store"})
  BY DEF FlushCache
<1> QED
  BY <1>1 DEF OnlyTheIndex, Visible, Reading, RagInv, RagTypeOK

LEMMA IngestKeepsInv ==
    ASSUME RagInv, NEW j \in Jobs, NEW d \in Documents, Ingest(j, d)
    PROVE  RagInv'
<1> DEFINE new == [pc |-> "compare", doc |-> d, next |-> 1, skipped |-> FALSE, alone |-> Quiet]
<1>1. /\ At(j, "idle") /\ started < MaxIngests /\ started' = started + 1
      /\ job' = [Disturbed EXCEPT ![j] = new] /\ raced' = (raced \/ ~Quiet)
      /\ UNCHANGED <<points, registry, cache, purge, search, failures>>
  BY DEF Ingest, Overlaps, stores
<1>2. /\ new \in Job /\ new.pc = "compare" /\ new.doc = d /\ new.next = 1 /\ ~new.skipped
      /\ new.alone = Quiet
  BY DEF Job, Quiet
<1> HIDE DEF new
<1>3. /\ job' \in [Jobs -> Job] /\ job'[j] = new
      /\ \A k \in Jobs : k # j =>
           /\ job'[k].pc = job[k].pc
           /\ ~At(k, "idle") =>
                /\ job'[k].alone = FALSE /\ job'[k].doc = job[k].doc
                /\ job'[k].next = job[k].next /\ job'[k].skipped = job[k].skipped
  BY <1>1, <1>2, DisturbedFacts DEF RagInv
<1>4. RagTypeOK'
  BY <1>1, <1>3, RagBounds DEF RagInv, RagTypeOK
<1>5. Running' = Running \cup {j} /\ Purging' = Purging
  BY <1>1, <1>2, <1>3 DEF Running, Purging
<1>6. JobInv'
  BY <1>2, <1>3 DEF RagInv, IngestInv, JobInv, At
<1>7. AloneInv'
  BY <1>1, <1>2, <1>3, <1>5 DEF RagInv, IngestInv, AloneInv, At, Quiet
<1>8. OrderInv'
  BY <1>1, <1>2, <1>3, <1>5 DEF OrderInv, Quiet
<1>9. RegistryInv'
  <2> SUFFICES ASSUME ~raced', failures' = 0 PROVE RegistryInv'
    BY DEF RegistryInv
  <2>1. ~raced /\ Quiet /\ points = Indexed /\ Indexed' = Indexed /\ points' = points
    BY <1>1 DEF RagInv, RagTypeOK, IngestInv, RegistryInv, Indexed
  <2>2. \A p \in Purges : purge'[p] = "idle"
    BY <1>1, <2>1 DEF Quiet, Purging
  <2> QED
    BY <2>1, <2>2 DEF RegistryInv
<1>10. TextInv'
  <2>1. \A c \in AllChunks : Visible(c)' => Visible(c)
    BY <1>1 DEF Visible, Reading
  <2>2. \A k \in Jobs : At(k, "upsert")' => At(k, "upsert") /\ job'[k].doc = job[k].doc
    BY <1>2, <1>3 DEF At
  <2> QED
    BY <1>1, <2>1, <2>2, TextShrinks
<1> QED
  BY <1>1, <1>4, <1>6, <1>7, <1>8, <1>9, <1>10, AnswersStay DEF RagInv, IngestInv

----------------------------------------------------------------------------
(* A step of a running job j, which becomes r.                             *)
LEMMA JobStepFacts ==
    ASSUME RagInv, NEW j \in Running, NEW r \in Job, job' = [job EXCEPT ![j] = r]
    PROVE  /\ j \in Jobs /\ ~At(j, "idle") /\ ~At(j, "done")
           /\ job[j].doc \in Documents /\ job[j].next \in Nat \ {0} /\ ~job[j].skipped
           /\ job[j].alone \in BOOLEAN
           /\ job[j] \in [pc : {"compare", "upsert", "register", "done"}, doc : Documents,
                          next : Nat, skipped : BOOLEAN, alone : BOOLEAN]
           /\ job' \in [Jobs -> Job] /\ job'[j] = r
           /\ \A k \in Jobs : k # j => job'[k] = job[k]
           /\ \A k \in Jobs : k # j /\ ~At(k, "idle") => ~job[k].alone
           /\ ~raced => job[j].alone /\ Purging = {} /\ \A k \in Jobs : k # j => k \notin Running
<1>1. j \in Jobs /\ ~At(j, "idle") /\ ~At(j, "done") /\ job \in [Jobs -> Job]
  BY DEF Running, At, RagInv, RagTypeOK
<1>2. /\ job' \in [Jobs -> Job] /\ job'[j] = r
      /\ \A k \in Jobs : k # j => job'[k] = job[k]
  BY <1>1
<1>3. \A k \in Jobs : k # j /\ ~At(k, "idle") => ~job[k].alone
  BY <1>1 DEF RagInv, IngestInv, AloneInv
<1>4. /\ job[j] \in [pc : {"compare", "upsert", "register", "done"}, doc : Documents,
                     next : Nat, skipped : BOOLEAN, alone : BOOLEAN]
      /\ job[j].doc \in Documents /\ job[j].next \in Nat \ {0} /\ ~job[j].skipped
      /\ job[j].alone \in BOOLEAN
  <2>1. job[j].next >= 1 /\ ~job[j].skipped
    BY <1>1 DEF RagInv, IngestInv, JobInv
  <2> QED
    BY <1>1, <2>1, JobFacts DEF RagInv
<1>5. ~raced => job[j].alone /\ Purging = {} /\ \A k \in Jobs : k # j => k \notin Running
  BY <1>1, <1>4 DEF RagInv, IngestInv, OrderInv, AloneInv
<1> QED
  BY <1>1, <1>2, <1>3, <1>4, <1>5

(* What the job that becomes r must leave behind it to have run alone.     *)
LeftBehind(r, index, row) ==
  /\ r.pc \in {"upsert", "register", "done"} /\ r.next >= 1
  /\ r.pc = "upsert" => r.next <= ChunkCount[r.doc.text] + 1
  /\ r.pc # "done" => ~r.skipped
  /\ r.alone =>
       /\ r.pc = "upsert" => index = FirstChunks(r.doc, r.next - 1)
       /\ r.pc = "register" => index = Chunks(r.doc)
       /\ r.pc = "done" /\ ~r.skipped => index = Chunks(r.doc) /\ row = r.doc

LEMMA JobMoves ==
    ASSUME RagInv, NEW j \in Running, NEW r \in Job, NEW index, NEW row,
           job' = [job EXCEPT ![j] = r], r.alone = job[j].alone, UNCHANGED purge,
           raced => raced', raced' \in BOOLEAN,
           points' = index, registry' = row, LeftBehind(r, index, row)
    PROVE  JobInv' /\ AloneInv' /\ OrderInv'
<1>1. /\ j \in Jobs /\ job'[j] = r /\ \A k \in Jobs : k # j => job'[k] = job[k]
      /\ \A k \in Jobs : k # j /\ ~At(k, "idle") => ~job[k].alone
  BY JobStepFacts
<1>2. Running' \subseteq Running /\ Purging' = Purging
  BY <1>1 DEF Running, Purging
<1>3. JobInv'
  BY <1>1 DEF RagInv, IngestInv, JobInv, At, LeftBehind
<1>4. AloneInv'
  <2> SUFFICES ASSUME NEW k \in Jobs, ~At(k, "idle")', job'[k].alone
               PROVE  /\ Running' \subseteq {k} /\ Purging' = {}
                      /\ At(k, "upsert")' => points' = FirstChunks(job'[k].doc, job'[k].next - 1)
                      /\ At(k, "register")' => points' = Chunks(job'[k].doc)
                      /\ At(k, "done")' /\ ~job'[k].skipped =>
                           points' = Chunks(job'[k].doc) /\ registry' = job'[k].doc
    BY DEF AloneInv
  <2>1. k = j
    BY <1>1 DEF At
  <2>2. Running \subseteq {j} /\ Purging = {}
    BY <1>1, <2>1, JobStepFacts DEF RagInv, IngestInv, AloneInv
  <2> QED
    BY <1>1, <1>2, <2>1, <2>2 DEF At, LeftBehind
<1>5. OrderInv'
  BY <1>1, <1>2 DEF RagInv, IngestInv, OrderInv, RagTypeOK
<1> QED
  BY <1>3, <1>4, <1>5

(* While a job writes, the registry is not expected to describe the index. *)
LEMMA WritingRegistry ==
    ASSUME OrderInv', NEW j \in Running', ~At(j, "compare")', AloneInv'
    PROVE  RegistryInv'
<1> SUFFICES ASSUME ~raced' PROVE RegistryInv'
  BY DEF RegistryInv
<1>1. j \in Jobs /\ job'[j].alone /\ ~At(j, "idle")'
  BY DEF OrderInv, Running, At
<1>2. Running' \subseteq {j} /\ Purging' = {}
  BY <1>1 DEF AloneInv
<1>3. ~Quiet' /\ \A p \in Purges : purge'[p] = "idle"
  BY <1>2 DEF Quiet, Purging
<1>4. \A k \in Jobs : ~At(k, "compare")'
  BY <1>2 DEF Running, At
<1> QED
  BY <1>3, <1>4 DEF RegistryInv

LEMMA CompareHashKeepsInv ==
    ASSUME RagInv, NEW j \in Jobs, CompareHash(j)
    PROVE  RagInv'
<1>1. j \in Running /\ At(j, "compare")
      /\ UNCHANGED <<registry, purge, search, started, failures>>
  BY DEF CompareHash, Running, At
<1>2. CASE Skips(j)
  <2> DEFINE r == [job[j] EXCEPT !.pc = "done", !.skipped = TRUE]
  <2>1. job' = [job EXCEPT ![j] = r] /\ UNCHANGED <<points, cache, raced>>
    BY <1>2 DEF CompareHash, RagInv, RagTypeOK
  <2>2. job[j] \in [pc : {"compare", "upsert", "register", "done"}, doc : Documents,
                    next : Nat, skipped : BOOLEAN, alone : BOOLEAN]
        /\ job[j].next \in Nat \ {0}
    BY <1>1, JobFacts DEF RagInv, At, IngestInv, JobInv
  <2>3. /\ r \in Job /\ r.pc = "done" /\ r.skipped = TRUE /\ r.alone = job[j].alone
        /\ r.next >= 1 /\ r.doc = job[j].doc
    <3>1. r \in [pc : {"compare", "upsert", "register", "done"}, doc : Documents,
                 next : Nat, skipped : BOOLEAN, alone : BOOLEAN]
      BY <2>2
    <3>2. r.pc = "done" /\ r.skipped = TRUE /\ r.alone = job[j].alone
          /\ r.next = job[j].next /\ r.doc = job[j].doc
      BY <2>2
    <3> QED
      BY <2>2, <3>1, <3>2 DEF Job
  <2> HIDE DEF r
  <2>4. /\ job' \in [Jobs -> Job] /\ job'[j] = r
        /\ \A k \in Jobs : k # j => job'[k] = job[k]
        /\ ~raced => job[j].alone /\ Purging = {} /\ \A k \in Jobs : k # j => k \notin Running
    BY <1>1, <2>1, <2>3, JobStepFacts
  <2>5. RagTypeOK'
    BY <1>1, <2>1, <2>4 DEF RagInv, RagTypeOK
  <2>6. JobInv' /\ AloneInv' /\ OrderInv'
    <3>1. LeftBehind(r, points', registry') /\ raced' \in BOOLEAN
      BY <1>1, <2>1, <2>3 DEF LeftBehind, RagInv, RagTypeOK
    <3> QED
      BY <1>1, <2>1, <2>3, <3>1, JobMoves
  <2>7. RegistryInv'
    <3> SUFFICES ASSUME ~raced', failures' = 0 PROVE RegistryInv'
      BY DEF RegistryInv
    <3>1. points' = Indexed'
      BY <1>1, <2>1 DEF RagInv, IngestInv, RegistryInv, Indexed
    <3>2. \A p \in Purges : purge'[p] = "idle"
      BY <1>1, <2>1, <2>4 DEF Purging
    <3> QED
      BY <3>1, <3>2 DEF RegistryInv
  <2>8. TextInv'
    <3>1. \A c \in AllChunks : Visible(c)' => Visible(c)
      BY <1>1, <2>1 DEF Visible, Reading
    <3>2. \A k \in Jobs : At(k, "upsert")' => At(k, "upsert") /\ job'[k].doc = job[k].doc
      BY <2>3, <2>4 DEF At
    <3> QED
      BY <2>1, <3>1, <3>2, TextShrinks
  <2> QED
    BY <1>1, <2>1, <2>5, <2>6, <2>7, <2>8, AnswersStay DEF RagInv, IngestInv
<1>3. CASE ~Skips(j)
  <2> DEFINE r == [job[j] EXCEPT !.pc = "upsert"]
  <2>1. job' = [job EXCEPT ![j] = r] /\ points' = {} /\ FlushCache
    BY <1>3 DEF CompareHash, RagInv, RagTypeOK
  <2>2. /\ job[j] \in [pc : {"compare", "upsert", "register", "done"}, doc : Documents,
                      next : Nat, skipped : BOOLEAN, alone : BOOLEAN]
        /\ job[j].next = 1 /\ ~job[j].skipped /\ job[j].doc \in Documents
    BY <1>1, JobFacts DEF RagInv, At, IngestInv, JobInv
  <2>3. /\ r \in Job /\ r.pc = "upsert" /\ ~r.skipped /\ r.alone = job[j].alone /\ r.next = 1
        /\ r.doc = job[j].doc
    BY <2>2 DEF Job
  <2> HIDE DEF r
  <2>4. /\ job' \in [Jobs -> Job] /\ job'[j] = r
        /\ \A k \in Jobs : k # j => job'[k] = job[k]
    BY <1>1, <2>1, <2>3, JobStepFacts
  <2>5. /\ cache' = {} /\ raced' \in BOOLEAN /\ (raced => raced')
        /\ ~raced' => OnlyTheIndex'
    BY <1>1, <2>1, FlushFacts
  <2>6. RagTypeOK'
    <3>1. points' = {} /\ cache' = {} /\ job' \in [Jobs -> Job]
      BY <2>1, <2>4, <2>5
    <3>2. raced' \in BOOLEAN
      BY <2>5
    <3> QED
      BY <1>1, <3>1, <3>2 DEF RagInv, RagTypeOK
  <2>7. JobInv' /\ AloneInv' /\ OrderInv'
    <3>1. r.next - 1 = 0 /\ r.next <= ChunkCount[r.doc.text] + 1 /\ r.next >= 1
      BY <2>2, <2>3, ChunkFacts
    <3>2. points' = FirstChunks(r.doc, r.next - 1)
      BY <2>1, <3>1, NoChunks
    <3>3. LeftBehind(r, points', registry')
      BY <2>3, <3>1, <3>2 DEF LeftBehind
    <3> QED
      BY <1>1, <2>1, <2>3, <2>5, <3>3, JobMoves
  <2>8. RegistryInv'
    <3>1. j \in Running' /\ ~At(j, "compare")'
      BY <2>3, <2>4 DEF Running, At
    <3> QED
      BY <2>7, <3>1, WritingRegistry
  <2>9. TextInv'
    BY <2>1, <2>5 DEF TextInv, OnlyTheIndex
  <2> QED
    BY <1>1, <2>5, <2>6, <2>7, <2>8, <2>9, AnswersStay DEF RagInv, IngestInv
<1> QED
  BY <1>2, <1>3

LEMMA UpsertBatchKeepsInv ==
    ASSUME RagInv, NEW j \in Jobs, UpsertBatch(j)
    PROVE  RagInv'
<1> DEFINE d == job[j].doc
           n == job[j].next
<1>1. /\ j \in Running /\ At(j, "upsert")
      /\ UNCHANGED <<registry, cache, purge, search, started, failures, raced>>
  BY DEF UpsertBatch, Running, At
<1>2. /\ job[j] \in [pc : {"compare", "upsert", "register", "done"}, doc : Documents,
                     next : Nat, skipped : BOOLEAN, alone : BOOLEAN]
      /\ n \in Nat \ {0} /\ ~job[j].skipped /\ d \in Documents
      /\ n <= ChunkCount[d.text] + 1 /\ ChunkCount[d.text] \in Nat
  BY <1>1, JobFacts, ChunkFacts DEF RagInv, At, IngestInv, JobInv
<1>3. job[j].alone => points = FirstChunks(d, n - 1)
  BY <1>1 DEF RagInv, IngestInv, AloneInv, At
<1>4. raced' = raced /\ raced \in BOOLEAN
  BY <1>1 DEF RagInv, RagTypeOK
<1>5. CASE n > ChunkCount[d.text]
  <2> DEFINE r == [job[j] EXCEPT !.pc = "register"]
  <2>1. job' = [job EXCEPT ![j] = r] /\ UNCHANGED points
    BY <1>5 DEF UpsertBatch, RagInv, RagTypeOK
  <2>2. /\ r \in Job /\ r.pc = "register" /\ ~r.skipped /\ r.alone = job[j].alone /\ r.next = n
        /\ r.doc = d
    BY <1>2 DEF Job
  <2> HIDE DEF r
  <2>3. /\ job' \in [Jobs -> Job] /\ job'[j] = r
        /\ \A k \in Jobs : k # j => job'[k] = job[k]
    BY <1>1, <2>1, <2>2, JobStepFacts
  <2>4. RagTypeOK'
    BY <1>1, <2>1, <2>3 DEF RagInv, RagTypeOK
  <2>5. JobInv' /\ AloneInv' /\ OrderInv'
    <3>1. n - 1 = ChunkCount[d.text] /\ r.next >= 1
      BY <1>2, <1>5, <2>2
    <3>2. r.alone => points' = Chunks(r.doc)
      BY <1>2, <1>3, <2>1, <2>2, <3>1, ChunkFacts
    <3>3. LeftBehind(r, points', registry')
      BY <2>2, <3>1, <3>2 DEF LeftBehind
    <3>4. /\ r \in Job /\ r.alone = job[j].alone /\ UNCHANGED purge
          /\ job' = [job EXCEPT ![j] = r] /\ raced' \in BOOLEAN /\ (raced => raced')
      BY <1>1, <1>4, <2>1, <2>2
    <3> QED
      BY <1>1, <3>3, <3>4, JobMoves
  <2>6. RegistryInv'
    <3>1. j \in Running' /\ ~At(j, "compare")'
      BY <2>2, <2>3 DEF Running, At
    <3> QED
      BY <2>5, <3>1, WritingRegistry
  <2>7. TextInv'
    <3>1. \A c \in AllChunks : Visible(c)' => Visible(c)
      BY <1>1, <2>1 DEF Visible, Reading
    <3>2. \A k \in Jobs : At(k, "upsert")' => At(k, "upsert") /\ job'[k].doc = job[k].doc
      BY <2>2, <2>3 DEF At
    <3> QED
      BY <1>4, <3>1, <3>2, TextShrinks
  <2> QED
    BY <1>1, <1>4, <2>4, <2>5, <2>6, <2>7, AnswersStay DEF RagInv, IngestInv
<1>6. CASE ~(n > ChunkCount[d.text])
  <2> DEFINE r == [job[j] EXCEPT !.next = n + 1]
             new == Chunk(d, n)
  <2>1. /\ job' = [job EXCEPT ![j] = r]
        /\ points' = {b \in points : b.text # new.text \/ b.index # new.index} \cup {new}
    BY <1>6 DEF UpsertBatch, RagInv, RagTypeOK
  <2>2. /\ r \in Job /\ r.pc = "upsert" /\ ~r.skipped /\ r.alone = job[j].alone
        /\ r.next = n + 1 /\ r.doc = d
    BY <1>1, <1>2 DEF Job, At
  <2>3. n \in 1 .. ChunkCount[d.text] /\ n + 1 <= ChunkCount[d.text] + 1 /\ (n + 1) - 1 = n
    BY <1>2, <1>6
  <2>4. new \in AllChunks /\ new.text = d.text /\ new.index = n
    BY <1>2, <2>3, ChunkFacts
  <2>5. job[j].alone => points' = FirstChunks(d, n)
    BY <1>2, <1>3, <2>1, NextChunk
  <2> HIDE DEF r, new
  <2>6. /\ job' \in [Jobs -> Job] /\ job'[j] = r
        /\ \A k \in Jobs : k # j => job'[k] = job[k]
        /\ ~raced => \A k \in Jobs : k # j => k \notin Running
    BY <1>1, <2>1, <2>2, JobStepFacts
  <2>7. RagTypeOK'
    <3>1. points' \subseteq AllChunks
      BY <2>1, <2>4 DEF RagInv, RagTypeOK
    <3>2. \A b, c \in points' : b.text = c.text /\ b.index = c.index => b = c
      BY <2>1 DEF RagInv, RagTypeOK
    <3> QED
      BY <1>1, <2>6, <3>1, <3>2 DEF RagInv, RagTypeOK
  <2>8. JobInv' /\ AloneInv' /\ OrderInv'
    <3>1. r.next >= 1 /\ r.next - 1 = n /\ r.next <= ChunkCount[r.doc.text] + 1
      BY <1>2, <2>2, <2>3
    <3>2. LeftBehind(r, points', registry')
      BY <2>2, <2>5, <3>1 DEF LeftBehind
    <3>4. /\ r \in Job /\ r.alone = job[j].alone /\ UNCHANGED purge
          /\ job' = [job EXCEPT ![j] = r] /\ raced' \in BOOLEAN /\ (raced => raced')
      BY <1>1, <1>4, <2>1, <2>2
    <3> QED
      BY <1>1, <3>2, <3>4, JobMoves
  <2>9. RegistryInv'
    <3>1. j \in Running' /\ ~At(j, "compare")'
      BY <2>2, <2>6 DEF Running, At
    <3> QED
      BY <2>8, <3>1, WritingRegistry
  <2>10. TextInv'
    <3> SUFFICES ASSUME ~raced PROVE TextInv'
      BY <1>4 DEF TextInv
    <3>1. \A c : Visible(c)' => c = new \/ Visible(c)
      BY <1>1, <2>1 DEF Visible, Reading
    <3>2. \A c \in AllChunks : Visible(c) => c.text = d.text
      BY <1>1 DEF RagInv, AnswerInv, TextInv
    <3>3. \A c \in AllChunks : Visible(c)' => c.text = d.text
      BY <2>4, <3>1, <3>2
    <3>4. \A k \in Jobs : At(k, "upsert")' => k = j
      BY <2>6 DEF At, Running
    <3> QED
      BY <2>2, <2>6, <3>3, <3>4 DEF TextInv
  <2> QED
    BY <1>1, <1>4, <2>7, <2>8, <2>9, <2>10, AnswersStay DEF RagInv, IngestInv
<1> QED
  BY <1>5, <1>6

LEMMA UpsertDocumentKeepsInv ==
    ASSUME RagInv, NEW j \in Jobs, UpsertDocument(j)
    PROVE  RagInv'
<1> DEFINE r == [job[j] EXCEPT !.pc = "done"]
<1>1. /\ j \in Running /\ At(j, "register") /\ job' = [job EXCEPT ![j] = r]
      /\ registry' = job[j].doc
      /\ UNCHANGED <<points, cache, purge, search, started, failures, raced>>
  BY DEF UpsertDocument, Running, At, RagInv, RagTypeOK
<1>2. /\ job[j] \in [pc : {"compare", "upsert", "register", "done"}, doc : Documents,
                     next : Nat, skipped : BOOLEAN, alone : BOOLEAN]
      /\ job[j].next \in Nat \ {0} /\ ~job[j].skipped /\ job[j].doc \in Documents
  BY <1>1, JobFacts DEF RagInv, At, IngestInv, JobInv
<1>3. /\ r \in Job /\ r.pc = "done" /\ ~r.skipped /\ r.alone = job[j].alone /\ r.next >= 1
      /\ r.doc = job[j].doc
  BY <1>2 DEF Job
<1> HIDE DEF r
<1>4. /\ job' \in [Jobs -> Job] /\ job'[j] = r
      /\ \A k \in Jobs : k # j => job'[k] = job[k]
      /\ ~raced => job[j].alone /\ Purging = {} /\ \A k \in Jobs : k # j => k \notin Running
  BY <1>1, <1>3, JobStepFacts
<1>5. job[j].alone => points = Chunks(job[j].doc)
  BY <1>1 DEF RagInv, IngestInv, AloneInv, At
<1>6. RagTypeOK'
  BY <1>1, <1>2, <1>4 DEF RagInv, RagTypeOK
<1>7. JobInv' /\ AloneInv' /\ OrderInv'
  <2>1. LeftBehind(r, points', registry') /\ raced' \in BOOLEAN /\ (raced => raced')
    BY <1>1, <1>3, <1>5 DEF LeftBehind, RagInv, RagTypeOK
  <2>2. r \in Job /\ r.alone = job[j].alone
    BY <1>3
  <2> QED
    BY <1>1, <2>1, <2>2, JobMoves
<1>8. RegistryInv'
  <2> SUFFICES ASSUME ~raced' PROVE RegistryInv'
    BY DEF RegistryInv
  <2>1. points' = Indexed'
    BY <1>1, <1>2, <1>4, <1>5, ChunkFacts DEF Indexed
  <2>2. \A p \in Purges : purge'[p] = "idle"
    BY <1>1, <1>4 DEF Purging
  <2> QED
    BY <2>1, <2>2 DEF RegistryInv
<1>9. TextInv'
  <2>1. \A c \in AllChunks : Visible(c)' => Visible(c)
    BY <1>1 DEF Visible, Reading
  <2>2. \A k \in Jobs : At(k, "upsert")' => At(k, "upsert") /\ job'[k].doc = job[k].doc
    BY <1>3, <1>4 DEF At
  <2> QED
    BY <1>1, <2>1, <2>2, TextShrinks
<1> QED
  BY <1>1, <1>6, <1>7, <1>8, <1>9, AnswersStay DEF RagInv, IngestInv

(* Where no job has run alone, AloneInv asks for nothing.                  *)
LEMMA NoneAlone ==
    ASSUME \A j \in Jobs : ~At(j, "idle")' => job'[j].alone = FALSE
    PROVE  AloneInv'
  BY DEF AloneInv

LEMMA ForgetKeepsInv ==
    ASSUME RagInv, NEW j \in Jobs, Forget(j)
    PROVE  RagInv'
<1>1. /\ At(j, "done") /\ job' = [job EXCEPT ![j] = Idle]
      /\ UNCHANGED <<points, registry, cache, purge, search, started, failures, raced>>
  BY DEF Forget, stores
<1>2. /\ job' \in [Jobs -> Job] /\ job'[j] = Idle
      /\ \A k \in Jobs : k # j => job'[k] = job[k]
  BY <1>1 DEF RagInv, RagTypeOK, Job
<1>3. At(j, "idle")'
  BY <1>2 DEF At, Idle
<1>4. Running' = Running /\ Purging' = Purging /\ Indexed' = Indexed
  BY <1>1, <1>2, <1>3 DEF Running, Purging, Indexed, At
<1>5. RagTypeOK'
  BY <1>1, <1>2 DEF RagInv, RagTypeOK
<1>6. JobInv'
  BY <1>2, <1>3 DEF RagInv, IngestInv, JobInv, At
<1>7. AloneInv'
  BY <1>1, <1>2, <1>3, <1>4 DEF RagInv, IngestInv, AloneInv, At
<1>8. OrderInv'
  BY <1>1, <1>2, <1>3, <1>4 DEF RagInv, IngestInv, OrderInv, Running, At
<1>9. RegistryInv'
  BY <1>1, <1>2, <1>3, <1>4 DEF RagInv, IngestInv, RegistryInv, Quiet, At
<1>10. TextInv'
  <2>1. \A c \in AllChunks : Visible(c)' => Visible(c)
    BY <1>1 DEF Visible, Reading
  <2>2. \A k \in Jobs : At(k, "upsert")' => At(k, "upsert") /\ job'[k].doc = job[k].doc
    BY <1>2, <1>3 DEF At
  <2> QED
    BY <1>1, <2>1, <2>2, TextShrinks
<1> QED
  BY <1>1, <1>5, <1>6, <1>7, <1>8, <1>9, <1>10, AnswersStay DEF RagInv, IngestInv

(* A failure is counted, so the registry need describe nothing any more.   *)
LEMMA FailureFacts ==
    ASSUME RagInv, FailOnce
    PROVE  failures' \in 1 .. MaxFailures /\ RegistryInv'
<1>1. failures' \in 1 .. MaxFailures
  BY RagBounds DEF RagInv, RagTypeOK, FailOnce
<1> QED
  BY <1>1 DEF RegistryInv

LEMMA JobFailsKeepsInv ==
    ASSUME RagInv, NEW j \in Jobs, JobFails(j)
    PROVE  RagInv'
<1>1. /\ j \in Running /\ FailOnce /\ job' = [job EXCEPT ![j] = Idle]
      /\ points' = points \/ points' = {}
      /\ UNCHANGED <<registry, cache, purge, search, started, raced>>
  BY DEF JobFails
<1>2. Idle \in Job
  BY DEF Job
<1>3. /\ job' \in [Jobs -> Job] /\ job'[j] = Idle
      /\ \A k \in Jobs : k # j => job'[k] = job[k]
      /\ \A k \in Jobs : k # j /\ ~At(k, "idle") => ~job[k].alone
  BY <1>1, <1>2, JobStepFacts
<1>4. At(j, "idle")'
  BY <1>3 DEF At, Idle
<1>5. Running' \subseteq Running /\ Purging' = Purging
  BY <1>1, <1>3, <1>4 DEF Running, Purging, At
<1>6. RagTypeOK'
  BY <1>1, <1>3, FailureFacts DEF RagInv, RagTypeOK
<1>7. JobInv'
  BY <1>3, <1>4 DEF RagInv, IngestInv, JobInv, At
<1>8. AloneInv'
  <2>1. \A k \in Jobs : ~At(k, "idle")' => ~job'[k].alone
    BY <1>3, <1>4 DEF At
  <2> QED
    BY <2>1 DEF AloneInv
<1>9. OrderInv'
  <2> SUFFICES ASSUME ~raced' PROVE OrderInv'
    BY DEF OrderInv
  <2>1. /\ \A k \in Running : job[k].alone
        /\ \A p, q \in Purging : p = q
        /\ Running = {} \/ Purging = {}
    BY <1>1 DEF RagInv, IngestInv, OrderInv
  <2>2. \A k \in Running' : job'[k].alone
    BY <1>3, <1>4, <1>5, <2>1 DEF Running, At
  <2> QED
    BY <1>5, <2>1, <2>2 DEF OrderInv
<1>10. TextInv'
  <2>1. \A c \in AllChunks : Visible(c)' => Visible(c)
    BY <1>1 DEF Visible, Reading
  <2>2. \A k \in Jobs : At(k, "upsert")' => At(k, "upsert") /\ job'[k].doc = job[k].doc
    BY <1>3, <1>4 DEF At
  <2> QED
    BY <1>1, <2>1, <2>2, TextShrinks
<1> QED
  BY <1>1, <1>6, <1>7, <1>8, <1>9, <1>10, FailureFacts, AnswersStay DEF RagInv, IngestInv

LEMMA RestartKeepsInv ==
    ASSUME RagInv, Restart
    PROVE  RagInv'
<1>1. /\ FailOnce /\ job' = [j \in Jobs |-> Idle] /\ purge' = [p \in Purges |-> "idle"]
      /\ search' = [s \in Searches |-> Idle]
      /\ UNCHANGED <<points, registry, cache, started, raced>>
  BY DEF Restart, stores
<1>2. /\ \A j \in Jobs : At(j, "idle")'
      /\ \A s \in Searches : search'[s].pc = "idle"
      /\ \A p \in Purges : purge'[p] = "idle"
  BY <1>1 DEF At, Idle
<1>3. Running' = {} /\ Purging' = {}
  BY <1>2 DEF Running, Purging, At
<1>4. RagTypeOK'
  <2>1. job' \in [Jobs -> Job] /\ search' \in [Searches -> Search]
        /\ purge' \in [Purges -> {"idle", "chunks", "registry"}]
    BY <1>1 DEF Job, Search
  <2> QED
    BY <1>1, <2>1, FailureFacts DEF RagInv, RagTypeOK
<1>5. JobInv' /\ AloneInv'
  BY <1>2 DEF JobInv, AloneInv
<1>6. OrderInv'
  BY <1>3 DEF OrderInv
<1>7. TextInv'
  <2>1. \A c \in AllChunks : Visible(c)' => Visible(c)
    BY <1>1, <1>2 DEF Visible, Reading
  <2>2. \A k \in Jobs : At(k, "upsert")' => At(k, "upsert") /\ job'[k].doc = job[k].doc
    BY <1>2 DEF At
  <2> QED
    BY <1>1, <2>1, <2>2, TextShrinks
<1>8. SearchInv' /\ AnswersAreIndexed'
  BY <1>2 DEF SearchInv, AnswersAreIndexed
<1> QED
  BY <1>1, <1>4, <1>5, <1>6, <1>7, <1>8, FailureFacts DEF RagInv, IngestInv, AnswerInv

----------------------------------------------------------------------------
(* While a purge is on its way no job has run alone.                       *)
LEMMA PurgingFacts ==
    ASSUME RagInv, NEW p \in Purging
    PROVE  /\ \A j \in Jobs : ~At(j, "idle") => ~job[j].alone
           /\ ~raced => Running = {} /\ Purging = {p}
<1>1. \A j \in Jobs : ~At(j, "idle") => ~job[j].alone
  BY DEF RagInv, IngestInv, AloneInv
<1>2. ~raced => Running = {} /\ Purging = {p}
  BY DEF RagInv, IngestInv, OrderInv
<1> QED
  BY <1>1, <1>2

LEMMA BeginPurgeKeepsInv ==
    ASSUME RagInv, NEW p \in Purges, BeginPurge(p)
    PROVE  RagInv'
<1>1. /\ purge[p] = "idle" /\ purge' = [purge EXCEPT ![p] = "chunks"] /\ job' = Disturbed
      /\ raced' = (raced \/ ~Quiet)
      /\ UNCHANGED <<points, registry, cache, search, started, failures>>
  BY DEF BeginPurge, Overlaps, stores
<1>2. /\ job' \in [Jobs -> Job]
      /\ \A j \in Jobs :
           /\ job'[j].pc = job[j].pc
           /\ ~At(j, "idle") =>
                /\ job'[j].alone = FALSE /\ job'[j].doc = job[j].doc
                /\ job'[j].next = job[j].next
                /\ job'[j].skipped = job[j].skipped
  BY <1>1, DisturbedFacts DEF RagInv
<1>3. /\ purge' \in [Purges -> {"idle", "chunks", "registry"}] /\ purge'[p] = "chunks"
      /\ \A q \in Purges : q # p => purge'[q] = purge[q]
  BY <1>1 DEF RagInv, RagTypeOK
<1>4. Running' = Running /\ Purging' = Purging \cup {p} /\ Indexed' = Indexed
  BY <1>1, <1>2, <1>3 DEF Running, Purging, At, Indexed
<1>5. RagTypeOK'
  BY <1>1, <1>2, <1>3 DEF RagInv, RagTypeOK
<1>6. JobInv'
  BY <1>2 DEF RagInv, IngestInv, JobInv, At
<1>7. AloneInv'
  BY <1>2, NoneAlone DEF At
<1>8. ~raced' => ~raced /\ Running = {} /\ Purging = {}
  BY <1>1 DEF Quiet
<1>9. OrderInv'
  BY <1>4, <1>8 DEF OrderInv
<1>10. RegistryInv'
  <2> SUFFICES ASSUME ~raced', failures' = 0 PROVE RegistryInv'
    BY DEF RegistryInv
  <2>1. points' = Indexed'
    BY <1>1, <1>4, <1>8 DEF RagInv, IngestInv, RegistryInv, Quiet
  <2>2. \A q \in Purges : purge'[q] \in {"idle", "chunks"}
    BY <1>3, <1>8 DEF Purging
  <2> QED
    BY <2>1, <2>2 DEF RegistryInv
<1>11. TextInv'
  <2>1. \A c \in AllChunks : Visible(c)' => Visible(c)
    BY <1>1 DEF Visible, Reading
  <2>2. \A k \in Jobs : At(k, "upsert")' => At(k, "upsert") /\ job'[k].doc = job[k].doc
    BY <1>2 DEF At
  <2> QED
    BY <1>1, <2>1, <2>2, TextShrinks
<1> QED
  BY <1>1, <1>5, <1>6, <1>7, <1>9, <1>10, <1>11, AnswersStay DEF RagInv, IngestInv

(* What the steps of a purge under way have in common.                     *)
LEMMA PurgeStepFacts ==
    ASSUME RagInv, NEW p \in Purging, NEW pc \in {"idle", "registry"},
           purge' = [purge EXCEPT ![p] = pc], UNCHANGED <<job, search>>,
           points' \subseteq points, cache' \subseteq cache, raced => raced'
    PROVE  /\ purge' \in [Purges -> {"idle", "chunks", "registry"}] /\ purge'[p] = pc
           /\ Running' = Running /\ \A q \in Purges : q # p => purge'[q] = purge[q]
           /\ JobInv' /\ AloneInv' /\ OrderInv' /\ AnswerInv'
<1>1. /\ p \in Purges /\ purge' \in [Purges -> {"idle", "chunks", "registry"}]
      /\ purge'[p] = pc /\ \A q \in Purges : q # p => purge'[q] = purge[q]
  BY DEF Purging, RagInv, RagTypeOK
<1>2. Running' = Running /\ Purging' \subseteq Purging /\ \A j, at : At(j, at)' = At(j, at)
  BY <1>1 DEF Running, Purging, At
<1>3. JobInv'
  BY <1>2 DEF RagInv, IngestInv, JobInv
<1>4. AloneInv'
  BY <1>2, PurgingFacts DEF AloneInv
<1>5. OrderInv'
  BY <1>2 DEF RagInv, RagTypeOK, IngestInv, OrderInv
<1>6. TextInv'
  <2>1. \A c \in AllChunks : Visible(c)' => Visible(c)
    BY DEF Visible, Reading
  <2>2. \A k \in Jobs : At(k, "upsert")' => At(k, "upsert") /\ job'[k].doc = job[k].doc
    BY <1>2
  <2> QED
    BY <2>1, <2>2, TextShrinks
<1> QED
  BY <1>1, <1>2, <1>3, <1>4, <1>5, <1>6, AnswersStay

LEMMA DeleteChunksKeepsInv ==
    ASSUME RagInv, NEW p \in Purges, DeleteChunksBySource(p)
    PROVE  RagInv'
<1>1. /\ p \in Purging /\ points' = {} /\ purge' = [purge EXCEPT ![p] = "registry"]
      /\ UNCHANGED <<registry, cache, job, search, started, failures, raced>>
  BY DEF DeleteChunksBySource, Purging
<1>2. /\ purge' \in [Purges -> {"idle", "chunks", "registry"}] /\ purge'[p] = "registry"
      /\ Running' = Running /\ \A q \in Purges : q # p => purge'[q] = purge[q]
      /\ JobInv' /\ AloneInv' /\ OrderInv' /\ AnswerInv'
  BY <1>1, PurgeStepFacts
<1>3. RagTypeOK'
  BY <1>1, <1>2 DEF RagInv, RagTypeOK
<1>4. RegistryInv'
  <2> SUFFICES ASSUME ~raced' PROVE RegistryInv'
    BY DEF RegistryInv
  <2>1. Running' = {} /\ Purging = {p}
    BY <1>1, <1>2, PurgingFacts
  <2>2. ~Quiet' /\ \A j \in Jobs : ~At(j, "compare")'
    BY <1>1, <1>2, <2>1 DEF Quiet, Purging, Running, At
  <2>3. \A q \in Purges : q # p => purge'[q] = "idle"
    BY <1>2, <2>1 DEF Purging
  <2> QED
    BY <1>1, <1>2, <2>2, <2>3 DEF RegistryInv
<1> QED
  BY <1>2, <1>3, <1>4 DEF RagInv, IngestInv

LEMMA DeleteDocumentKeepsInv ==
    ASSUME RagInv, NEW p \in Purges, DeleteDocument(p)
    PROVE  RagInv'
<1>1. /\ p \in Purging /\ purge[p] = "registry" /\ registry' = NoDocument /\ FlushCache
      /\ purge' = [purge EXCEPT ![p] = "idle"]
      /\ UNCHANGED <<points, job, search, started, failures>>
  BY DEF DeleteDocument, Purging
<1>2. /\ cache' = {} /\ raced' \in BOOLEAN /\ (raced => raced')
  BY <1>1, FlushFacts
<1>3. /\ purge' \in [Purges -> {"idle", "chunks", "registry"}] /\ purge'[p] = "idle"
      /\ Running' = Running /\ \A q \in Purges : q # p => purge'[q] = purge[q]
      /\ JobInv' /\ AloneInv' /\ OrderInv' /\ AnswerInv'
  BY <1>1, <1>2, PurgeStepFacts
<1>4. RagTypeOK'
  BY <1>1, <1>2, <1>3 DEF RagInv, RagTypeOK
<1>5. RegistryInv'
  <2> SUFFICES ASSUME ~raced', failures' = 0 PROVE RegistryInv'
    BY DEF RegistryInv
  <2>1. points' = {} /\ Indexed' = {}
    BY <1>1, <1>2 DEF RagInv, IngestInv, RegistryInv, Indexed
  <2>2. Running' = {} /\ Purging = {p}
    BY <1>1, <1>2, <1>3, PurgingFacts
  <2>3. \A q \in Purges : purge'[q] = "idle"
    BY <1>3, <2>2 DEF Purging
  <2> QED
    BY <2>1, <2>3 DEF RegistryInv
<1> QED
  BY <1>3, <1>4, <1>5 DEF RagInv, IngestInv

LEMMA PurgeFailsKeepsInv ==
    ASSUME RagInv, NEW p \in Purges, PurgeFails(p)
    PROVE  RagInv'
<1>1. /\ p \in Purging /\ FailOnce /\ purge' = [purge EXCEPT ![p] = "idle"]
      /\ UNCHANGED <<points, registry, cache, job, search, started, raced>>
  BY DEF PurgeFails, Purging, stores
<1>2. /\ purge' \in [Purges -> {"idle", "chunks", "registry"}]
      /\ JobInv' /\ AloneInv' /\ OrderInv' /\ AnswerInv'
  BY <1>1, PurgeStepFacts
<1>3. RagTypeOK'
  BY <1>1, <1>2, FailureFacts DEF RagInv, RagTypeOK
<1> QED
  BY <1>1, <1>2, <1>3, FailureFacts DEF RagInv, IngestInv

----------------------------------------------------------------------------
(* A search that becomes r: what it found, it read; what it answers is of  *)
(* a text that it read at the same position.                               *)
WellRead(r) ==
  /\ r.pc \in {"lookup", "store"} => r.found \subseteq r.seen
  /\ r.pc = "store" => r.answer = r.found
  /\ r.pc = "answer" /\ ~raced =>
       \A c \in r.answer : \E b \in r.seen : b.text = c.text /\ b.index = c.index

LEMMA SearchFacts ==
    ASSUME RagTypeOK, NEW s \in Searches, search[s].pc # "idle"
    PROVE  search[s] \in [pc : {"corpus", "lookup", "store", "answer"}, seen : SUBSET AllChunks,
                          found : SUBSET AllChunks, answer : SUBSET AllChunks]
  BY DEF RagTypeOK, Search, Idle

LEMMA SearchMoves ==
    ASSUME RagInv, NEW s \in Searches, NEW r \in Search, search' = [search EXCEPT ![s] = r],
           UNCHANGED <<points, registry, job, purge, started, raced>>,
           failures' \in {failures, failures + 1}, failures' \in 0 .. MaxFailures,
           WellRead(r),
           /\ \A e \in cache' : e.answer \subseteq AllChunks /\ e.context = Context(e.answer)
           /\ \A e, f \in cache' : e.context = f.context => e = f,
           \A e \in cache' : \A c \in e.answer : Visible(c),
           r.pc \in {"corpus", "lookup", "store"} => \A c \in r.seen : Visible(c)
    PROVE  RagInv'
<1>1. /\ search' \in [Searches -> Search] /\ search'[s] = r
      /\ \A t \in Searches : t # s => search'[t] = search[t]
  BY DEF RagInv, RagTypeOK
<1>2. RagTypeOK'
  BY <1>1 DEF RagInv, RagTypeOK
<1>3. IngestInv'
  BY IngestStays
<1>4. TextInv'
  <2>1. \A c \in AllChunks : Visible(c)' => Visible(c)
    BY <1>1 DEF Visible, Reading
  <2>2. \A k \in Jobs : At(k, "upsert")' => At(k, "upsert") /\ job'[k].doc = job[k].doc
    BY DEF At
  <2> QED
    BY <2>1, <2>2, TextShrinks
<1>5. SearchInv'
  BY <1>1 DEF RagInv, AnswerInv, SearchInv, WellRead
<1>6. AnswersAreIndexed'
  BY <1>1 DEF RagInv, AnswerInv, AnswersAreIndexed, WellRead
<1> QED
  BY <1>2, <1>3, <1>4, <1>5, <1>6 DEF RagInv, AnswerInv

LEMMA CacheFacts ==
    ASSUME RagInv
    PROVE  /\ \A e \in cache : e.answer \subseteq AllChunks /\ e.context = Context(e.answer)
           /\ \A e, f \in cache : e.context = f.context => e = f
           /\ \A e \in cache : \A c \in e.answer : Visible(c)
           /\ \A s \in Searches : Reading(s) => \A c \in search[s].seen : Visible(c)
           /\ failures \in 0 .. MaxFailures
  BY DEF RagInv, RagTypeOK, Visible

LEMMA SemanticSearchKeepsInv ==
    ASSUME RagInv, NEW s \in Searches, SemanticSearch(s)
    PROVE  RagInv'
<1> DEFINE r == [pc |-> "corpus", seen |-> points, found |-> {}, answer |-> {}]
<1>1. /\ search' = [search EXCEPT ![s] = r]
      /\ UNCHANGED <<points, registry, cache, job, purge, started, failures, raced>>
  BY DEF SemanticSearch, stores
<1>2. r \in Search /\ r.pc = "corpus" /\ r.seen = points
  BY DEF Search, RagInv, RagTypeOK
<1> HIDE DEF r
<1>3. WellRead(r) /\ \A c \in r.seen : Visible(c)
  BY <1>2 DEF WellRead, Visible
<1> QED
  BY <1>1, <1>2, <1>3, CacheFacts, SearchMoves

LEMMA ScrollCorpusKeepsInv ==
    ASSUME RagInv, NEW s \in Searches, ScrollCorpus(s)
    PROVE  RagInv'
<1>1. PICK kept \in SUBSET (search[s].seen \cup points) :
        /\ search[s].pc = "corpus"
        /\ search' = [search EXCEPT ![s].pc = "lookup",
                                    ![s].seen = search[s].seen \cup points,
                                    ![s].found = kept]
        /\ UNCHANGED <<points, registry, cache, job, purge, started, failures, raced>>
  BY DEF ScrollCorpus, stores
<1> DEFINE r == [search[s] EXCEPT !.pc = "lookup", !.seen = search[s].seen \cup points,
                                  !.found = kept]
<1>2. search[s] \in [pc : {"corpus", "lookup", "store", "answer"}, seen : SUBSET AllChunks,
                     found : SUBSET AllChunks, answer : SUBSET AllChunks]
      /\ points \subseteq AllChunks
  BY <1>1, SearchFacts DEF RagInv, RagTypeOK
<1>3. search' = [search EXCEPT ![s] = r]
  BY <1>1 DEF RagInv, RagTypeOK
<1>4. /\ r \in Search /\ r.pc = "lookup" /\ r.seen = search[s].seen \cup points
      /\ r.found = kept
  BY <1>2 DEF Search
<1> HIDE DEF r
<1>5. WellRead(r)
  BY <1>4 DEF WellRead
<1>6. \A c \in r.seen : Visible(c)
  BY <1>1, <1>4 DEF Visible, Reading
<1> QED
  BY <1>1, <1>3, <1>4, <1>5, <1>6, CacheFacts, SearchMoves

(* A cached answer was found at the positions of the chunks that the       *)
(* search found, and without a race all of these are of the one text.      *)
LEMMA HitIsRead ==
    ASSUME RagInv, ~raced, NEW s \in Searches, search[s].pc = "lookup", NEW e \in Hits(s),
           NEW c \in e.answer
    PROVE  \E b \in search[s].seen : b.text = c.text /\ b.index = c.index
<1>1. e \in cache /\ Context(e.answer) = Context(search[s].found)
  BY CacheFacts DEF Hits
<1>2. /\ DOMAIN Context(e.answer) = {b.index : b \in e.answer}
      /\ DOMAIN Context(search[s].found) = {b.index : b \in search[s].found}
  BY DEF Context
<1>3. PICK b \in search[s].found : b.index = c.index
  BY <1>1, <1>2
<1>4. b \in search[s].seen /\ search[s].seen \subseteq AllChunks
  BY <1>3, SearchFacts DEF RagInv, AnswerInv, SearchInv
<1>5. Visible(b) /\ Visible(c) /\ c \in AllChunks
  BY <1>1, <1>4, CacheFacts DEF Reading
<1>6. b.text = c.text
  BY <1>4, <1>5 DEF RagInv, AnswerInv, TextInv
<1> QED
  BY <1>3, <1>4, <1>6

LEMMA GetCachedAnswerKeepsInv ==
    ASSUME RagInv, NEW s \in Searches, GetCachedAnswer(s)
    PROVE  RagInv'
<1>1. /\ search[s].pc = "lookup"
      /\ UNCHANGED <<points, registry, cache, job, purge, started, failures, raced>>
      /\ \/ \E e \in Hits(s) :
              search' = [search EXCEPT ![s].pc = "answer", ![s].answer = e.answer]
         \/ search' = [search EXCEPT ![s].pc = "store", ![s].answer = search[s].found]
  BY DEF GetCachedAnswer, stores
<1>2. /\ search[s] \in [pc : {"corpus", "lookup", "store", "answer"}, seen : SUBSET AllChunks,
                        found : SUBSET AllChunks, answer : SUBSET AllChunks]
      /\ search[s].found \subseteq search[s].seen
      /\ \A c \in search[s].seen : Visible(c)
  BY <1>1, SearchFacts, CacheFacts DEF RagInv, AnswerInv, SearchInv, Reading
<1>3. ASSUME NEW e \in Hits(s),
             search' = [search EXCEPT ![s].pc = "answer", ![s].answer = e.answer]
      PROVE  RagInv'
  <2> DEFINE r == [search[s] EXCEPT !.pc = "answer", !.answer = e.answer]
  <2>1. search' = [search EXCEPT ![s] = r]
    BY <1>3 DEF RagInv, RagTypeOK
  <2>2. e.answer \subseteq AllChunks
    BY CacheFacts DEF Hits
  <2>3. /\ r \in Search /\ r.pc = "answer" /\ r.seen = search[s].seen
        /\ r.answer = e.answer
    BY <1>2, <2>2 DEF Search
  <2> HIDE DEF r
  <2>4. WellRead(r)
    BY <1>1, <1>3, <2>3, HitIsRead DEF WellRead
  <2> QED
    BY <1>1, <2>1, <2>3, <2>4, CacheFacts, SearchMoves
<1>4. ASSUME search' = [search EXCEPT ![s].pc = "store", ![s].answer = search[s].found]
      PROVE  RagInv'
  <2> DEFINE r == [search[s] EXCEPT !.pc = "store", !.answer = search[s].found]
  <2>1. search' = [search EXCEPT ![s] = r]
    BY <1>4 DEF RagInv, RagTypeOK
  <2>2. /\ r \in Search /\ r.pc = "store" /\ r.seen = search[s].seen
        /\ r.found = search[s].found /\ r.answer = search[s].found
    BY <1>2 DEF Search
  <2> HIDE DEF r
  <2>3. WellRead(r)
    BY <1>2, <2>2 DEF WellRead
  <2> QED
    BY <1>1, <1>2, <2>1, <2>2, <2>3, CacheFacts, SearchMoves
<1> QED
  BY <1>1, <1>3, <1>4

(* The step from "store" to "answer" with the search's own answer.         *)
LEMMA OwnAnswer ==
    ASSUME RagInv, NEW s \in Searches, search[s].pc = "store", NEW r,
           r = [search[s] EXCEPT !.pc = "answer"]
    PROVE  /\ search[s].found \subseteq AllChunks /\ \A c \in search[s].found : Visible(c)
           /\ r \in Search /\ r.pc = "answer" /\ WellRead(r)
<1>1. /\ search[s] \in [pc : {"corpus", "lookup", "store", "answer"}, seen : SUBSET AllChunks,
                        found : SUBSET AllChunks, answer : SUBSET AllChunks]
      /\ search[s].found \subseteq search[s].seen /\ search[s].answer = search[s].found
      /\ \A c \in search[s].seen : Visible(c)
  BY SearchFacts, CacheFacts DEF RagInv, AnswerInv, SearchInv, Reading
<1>2. /\ r \in Search /\ r.pc = "answer" /\ r.seen = search[s].seen
      /\ r.answer = search[s].found
  BY <1>1 DEF Search
<1>3. WellRead(r)
  BY <1>1, <1>2 DEF WellRead
<1> QED
  BY <1>1, <1>2, <1>3

LEMMA StoreCachedAnswerKeepsInv ==
    ASSUME RagInv, NEW s \in Searches, StoreCachedAnswer(s)
    PROVE  RagInv'
<1> DEFINE own == search[s].found
           new == [context |-> Context(own), answer |-> own]
           r == [search[s] EXCEPT !.pc = "answer"]
<1>1. /\ search[s].pc = "store"
      /\ cache' = {e \in cache : e.context # new.context} \cup {new}
      /\ UNCHANGED <<points, registry, job, purge, started, failures, raced>>
  BY DEF StoreCachedAnswer
<1>2. search' = [search EXCEPT ![s] = r]
  BY DEF StoreCachedAnswer, RagInv, RagTypeOK
<1>3. /\ own \subseteq AllChunks /\ \A c \in own : Visible(c)
      /\ r \in Search /\ r.pc = "answer" /\ WellRead(r)
  BY <1>1, OwnAnswer
<1>4. new.context = Context(own) /\ new.answer = own
  OBVIOUS
<1> HIDE DEF new, r
<1>5. /\ \A e \in cache' : e.answer \subseteq AllChunks /\ e.context = Context(e.answer)
      /\ \A e \in cache' : \A c \in e.answer : Visible(c)
  BY <1>1, <1>3, <1>4, CacheFacts
<1>6. \A e, f \in cache' : e.context = f.context => e = f
  BY <1>1, CacheFacts
<1> QED
  BY <1>1, <1>2, <1>3, <1>5, <1>6, CacheFacts, SearchMoves

LEMMA SkipCacheKeepsInv ==
    ASSUME RagInv, NEW s \in Searches, SkipCache(s)
    PROVE  RagInv'
<1>1. /\ failures' = failures + 1 /\ failures' \in 0 .. MaxFailures
      /\ UNCHANGED <<points, registry, cache, job, purge, started, raced>>
  BY FailureFacts DEF SkipCache, FailOnce, stores
<1>2. CASE /\ search[s].pc = "lookup"
           /\ search' = [search EXCEPT ![s].pc = "store", ![s].answer = search[s].found]
  <2> DEFINE r == [search[s] EXCEPT !.pc = "store", !.answer = search[s].found]
  <2>1. search' = [search EXCEPT ![s] = r]
    BY <1>2 DEF RagInv, RagTypeOK
  <2>2. /\ search[s] \in [pc : {"corpus", "lookup", "store", "answer"},
                          seen : SUBSET AllChunks, found : SUBSET AllChunks,
                          answer : SUBSET AllChunks]
        /\ search[s].found \subseteq search[s].seen
        /\ \A c \in search[s].seen : Visible(c)
    BY <1>2, SearchFacts, CacheFacts DEF RagInv, AnswerInv, SearchInv, Reading
  <2>3. /\ r \in Search /\ r.pc = "store" /\ r.seen = search[s].seen
        /\ r.found = search[s].found /\ r.answer = search[s].found
    BY <2>2 DEF Search
  <2> HIDE DEF r
  <2>4. WellRead(r)
    BY <2>2, <2>3 DEF WellRead
  <2> QED
    BY <1>1, <2>1, <2>2, <2>3, <2>4, CacheFacts, SearchMoves
<1>3. CASE search[s].pc = "store" /\ search' = [search EXCEPT ![s].pc = "answer"]
  <2> DEFINE r == [search[s] EXCEPT !.pc = "answer"]
  <2>1. search' = [search EXCEPT ![s] = r]
    BY <1>3 DEF RagInv, RagTypeOK
  <2>2. r \in Search /\ r.pc = "answer" /\ WellRead(r)
    BY <1>3, OwnAnswer
  <2> HIDE DEF r
  <2> QED
    BY <1>1, <2>1, <2>2, CacheFacts, SearchMoves
<1> QED
  BY <1>2, <1>3 DEF SkipCache

LEMMA AnswerKeepsRagInv ==
    ASSUME RagInv, NEW s \in Searches, Answer(s)
    PROVE  RagInv'
<1>1. /\ search' = [search EXCEPT ![s] = Idle]
      /\ UNCHANGED <<points, registry, cache, job, purge, started, failures, raced>>
  BY DEF Answer, stores
<1>2. Idle \in Search /\ Idle.pc = "idle"
  BY DEF Search, Idle
<1>3. WellRead(Idle)
  BY <1>2 DEF WellRead
<1> QED
  BY <1>1, <1>2, <1>3, CacheFacts, SearchMoves

LEMMA ExpireKeepsInv ==
    ASSUME RagInv, Expire
    PROVE  RagInv'
<1>1. /\ cache' \subseteq cache
      /\ UNCHANGED <<points, registry, job, purge, search, started, failures, raced>>
  BY DEF Expire
<1>2. RagTypeOK'
  BY <1>1 DEF RagInv, RagTypeOK
<1>3. IngestInv'
  BY <1>1, IngestStays
<1>4. TextInv'
  <2>1. \A c \in AllChunks : Visible(c)' => Visible(c)
    BY <1>1 DEF Visible, Reading
  <2>2. \A k \in Jobs : At(k, "upsert")' => At(k, "upsert") /\ job'[k].doc = job[k].doc
    BY <1>1 DEF At
  <2> QED
    BY <1>1, <2>1, <2>2, TextShrinks
<1> QED
  BY <1>1, <1>2, <1>3, <1>4, AnswersStay DEF RagInv

LEMMA RagStutterKeepsInv ==
    ASSUME RagInv, UNCHANGED ragVars
    PROVE  RagInv'
<1>1. UNCHANGED <<points, registry, cache, job, purge, search, started, failures, raced>>
  BY DEF ragVars, stores
<1>2. RagTypeOK'
  BY <1>1 DEF RagInv, RagTypeOK
<1>3. IngestInv'
  BY <1>1, IngestStays
<1>4. TextInv'
  <2>1. \A c \in AllChunks : Visible(c)' => Visible(c)
    BY <1>1 DEF Visible, Reading
  <2>2. \A k \in Jobs : At(k, "upsert")' => At(k, "upsert") /\ job'[k].doc = job[k].doc
    BY <1>1 DEF At
  <2> QED
    BY <1>1, <2>1, <2>2, TextShrinks
<1> QED
  BY <1>1, <1>2, <1>3, <1>4, AnswersStay DEF RagInv

LEMMA RagNextKeepsInv == RagInv /\ [RagNext]_ragVars => RagInv'
<1> SUFFICES ASSUME RagInv, [RagNext]_ragVars PROVE RagInv'
  OBVIOUS
<1>1. ASSUME NEW j \in Jobs,
             IndexDocument(j) \/ Forget(j) \/ JobFails(j) \/ \E d \in Documents : Ingest(j, d)
      PROVE  RagInv'
  BY <1>1, CompareHashKeepsInv, UpsertBatchKeepsInv, UpsertDocumentKeepsInv, ForgetKeepsInv,
     JobFailsKeepsInv, IngestKeepsInv
     DEF IndexDocument
<1>2. ASSUME NEW p \in Purges,
             BeginPurge(p) \/ DeleteChunksBySource(p) \/ DeleteDocument(p) \/ PurgeFails(p)
      PROVE  RagInv'
  BY <1>2, BeginPurgeKeepsInv, DeleteChunksKeepsInv, DeleteDocumentKeepsInv, PurgeFailsKeepsInv
<1>3. ASSUME NEW s \in Searches,
             \/ SemanticSearch(s) \/ ScrollCorpus(s) \/ GetCachedAnswer(s)
             \/ StoreCachedAnswer(s) \/ SkipCache(s) \/ Answer(s)
      PROVE  RagInv'
  BY <1>3, SemanticSearchKeepsInv, ScrollCorpusKeepsInv, GetCachedAnswerKeepsInv,
     StoreCachedAnswerKeepsInv, SkipCacheKeepsInv, AnswerKeepsRagInv
<1>4. CASE UNCHANGED ragVars
  BY <1>4, RagStutterKeepsInv
<1> QED
  BY <1>1, <1>2, <1>3, <1>4, RestartKeepsInv, ExpireKeepsInv DEF RagNext

----------------------------------------------------------------------------
(* The inductive invariant of the index: with the one source's chunks, row *)
(* and cached answers in three stores and no transaction over them, a job  *)
(* that has run alone knows the index chunk by chunk, and without a race   *)
(* everything an answer can still quote is of a single text.               *)
THEOREM RagInvariant == RagSpec => []RagInv
<1>1. RagInit => RagInv
  BY RagInvInit
<1>2. RagInv /\ [RagNext]_ragVars => RagInv'
  BY RagNextKeepsInv
<1> QED
  BY <1>1, <1>2, PTL DEF RagSpec

(* No two points have the id of one chunk, no two cache entries one key,   *)
(* and every entry's key is the positions of what it answers.              *)
THEOREM RagTypeCorrect == RagSpec => []RagTypeOK
<1>1. RagInv => RagTypeOK
  BY DEF RagInv
<1> QED
  BY <1>1, RagInvariant, PTL

(* index_document, run with nothing else running, is a clean replace: its  *)
(* chunks and its row and nothing of what failed or purged jobs had left.  *)
THEOREM CleanReplaceHolds == RagSpec => []CleanReplace
<1>1. RagInv => CleanReplace
  BY DEF RagInv, IngestInv, AloneInv, CleanReplace, At
<1> QED
  BY <1>1, RagInvariant, PTL

(* search_rag answers from its cache by positions alone; as long as jobs,  *)
(* purges and flushes do not overlap, what it answers is still of a text   *)
(* that its own queries read.                                              *)
THEOREM AnswersAreIndexedHolds == RagSpec => []AnswersAreIndexed
<1>1. RagInv => AnswersAreIndexed
  BY DEF RagInv, AnswerInv
<1> QED
  BY <1>1, RagInvariant, PTL

(* Without failure and overlap, the documents row says what Qdrant holds.  *)
THEOREM RegistryDescribesIndexHolds == RagSpec => []RegistryDescribesIndex
<1>1. RagInv => RegistryDescribesIndex
  BY DEF RagInv, IngestInv, RegistryInv, RegistryDescribesIndex, Indexed
<1> QED
  BY <1>1, RagInvariant, PTL
============================================================================
