---------------------------- MODULE ProjectState ----------------------------
(***************************************************************************)
(* The delivery state of a project, written by coding agents through the   *)
(* five MCP tools (project_mcp/, service/project_mcp_state.py,             *)
(* models/project_state*.py), while ProjectAccess changes who may write.   *)
(* The middleware authenticates each HTTP request in a transaction of its  *)
(* own; the tool works later, in another one, from the context that gave.  *)
(*                                                                         *)
(* A tool call of the model is one request: authenticate, then the reads   *)
(* that find what a reference means, then the locked read and the writes   *)
(* with their commit.  A reference is the set of features (or blockers)    *)
(* it would match.  Reads that return to the caller change nothing and are *)
(* left out, with summaries, descriptions and severities.                  *)
(***************************************************************************)
EXTENDS ProjectAccess, SequencesExt

CONSTANTS Call,             \* requests made to the MCP server
          Feature, Blocker, \* rows that may be created
          FeatureStatus,
          Reference,        \* what callers write for a feature or blocker
          Matches(_),       \* the rows a reference's words match
          Pct,              \* completion percentages that are reported
          MaxUpdates        \* bound: daily updates that are begun

ASSUME StateAssumption ==
  /\ \A r \in Reference : Matches(r) \subseteq Feature \cup Blocker
  /\ Pct \subseteq 0..100
  /\ MaxUpdates \in Nat

VARIABLES call,       \* the requests
          feature,    \* status and project of each feature, or Absent
          history,    \* assistant_feature_status_history, per feature
          blocker,    \* the blockers' status and project, or Absent
          update,     \* daily updates, in the order their transactions began
          completion, \* assistant_projects.completion_percentage
          lapped      \* ghost: two submissions have overlapped

stateVars == <<call, feature, history, blocker, update, completion, lapped>>
vars == <<accessVars, stateVars>>

Absent == [status |-> "absent", project |-> NoProject]

FeatureRow == {Absent} \cup [status : FeatureStatus, project : Project]
BlockerRow == {Absent} \cup [status : {"OPEN", "RESOLVED"}, project : Project]
HistoryRow == [old : FeatureStatus, new : FeatureStatus, by : User]

(* ProjectMcpContext, and what a call has read.                            *)
Context == [token : Token, project : Project, lead : User]

CallState ==
  [st : {"new", "done"}] \cup [st : {"ready"}, ctx : Context]
  \cup [st : {"found"}, ctx : Context, feature : Feature, to : FeatureStatus]
  \cup [st : {"locked"}, ctx : Context, feature : Feature,
        to : FeatureStatus, old : FeatureStatus]
  \cup [st : {"resolving"}, ctx : Context, blocker : Blocker]
  \cup [st : {"submitting"}, ctx : Context, pct : Pct, slot : Nat]

UpdateRow == [st : {"begun", "stored", "void"}, project : Project, pct : Pct,
              counted : BOOLEAN]

TypeOK ==
  /\ AccessTypeOK
  /\ call \in [Call -> CallState]
  /\ feature \in [Feature -> FeatureRow]
  /\ history \in [Feature -> Seq(HistoryRow)]
  /\ blocker \in [Blocker -> BlockerRow]
  /\ update \in Seq(UpdateRow)
  /\ completion \in [Project -> Pct \cup {0}]
  /\ lapped \in BOOLEAN

Init ==
  /\ AccessInit
  /\ call = [c \in Call |-> [st |-> "new"]]
  /\ feature = [f \in Feature |-> Absent]
  /\ history = [f \in Feature |-> <<>>]
  /\ blocker = [b \in Blocker |-> Absent]
  /\ update = <<>>
  /\ completion = [p \in Project |-> 0]
  /\ lapped = FALSE

Done(c) == call' = [call EXCEPT ![c] = [st |-> "done"]]

UpdateOf(me, st, counted) ==
  [st |-> st, project |-> me.ctx.project, pct |-> me.pct, counted |-> counted]

Ready(c, p) == call[c].st = "ready" /\ call[c].ctx.project = p

(* The middleware: a request without a working token is refused.           *)
McpAuthenticate(c, t) ==
  /\ call[c].st = "new"
  /\ Authenticates(t)
  /\ call' = [call EXCEPT ![c] =
       [st |-> "ready", ctx |-> [token |-> t, project |-> tok[t].project,
                                 lead |-> tok[t].by]]]
  /\ UNCHANGED <<accessVars, feature, history, blocker, update, completion,
                 lapped>>

\* Mutant: the update commits before the completion it counts for.
CallFails_StoredFirst(c) ==
  LET me == call[c] IN
  /\ me.st \notin {"new", "done"}
  /\ Done(c)
  /\ update' = IF me.st = "submitting"
                 THEN [update EXCEPT ![me.slot] = UpdateOf(me, "stored", TRUE)]
                 ELSE update
  /\ UNCHANGED <<accessVars, feature, history, blocker, completion, lapped>>

(* A client that goes away, or a lost session, rolls the transaction back. *)
CallFails(c) ==
  LET me == call[c] IN
  /\ me.st \notin {"new", "done"}
  /\ Done(c)
  /\ update' = IF me.st = "submitting"
                 THEN [update EXCEPT ![me.slot] = UpdateOf(me, "void", FALSE)]
                 ELSE update
  /\ UNCHANGED <<accessVars, feature, history, blocker, completion, lapped>>

----------------------------------------------------------------------------
(* manage_feature, action "create".                                        *)
CreateFeature(c, f, s) ==
  \E p \in Project :
    /\ Ready(c, p)
    /\ feature[f] = Absent
    /\ feature' = [feature EXCEPT ![f] = [status |-> s, project |-> p]]
    /\ Done(c)
    /\ UNCHANGED <<accessVars, history, blocker, update, completion, lapped>>

(* The rows of the project a reference matches: none or several of them    *)
(* end the call with nothing changed.                                      *)
Found(r, rows, p) ==
  {x \in Matches(r) \cap DOMAIN rows : rows[x].project = p}

FindFeature(c, r, s) ==
  \E p \in Project :
    /\ Ready(c, p)
    /\ IF \E f \in Feature : Found(r, feature, p) = {f}
         THEN \E f \in Found(r, feature, p) :
                call' = [call EXCEPT ![c] =
                  [st |-> "found", ctx |-> call[c].ctx, feature |-> f, to |-> s]]
         ELSE Done(c)
    /\ UNCHANGED <<accessVars, feature, history, blocker, update, completion,
                   lapped>>

\* Mutant: the row is read without FOR UPDATE.
Locked_Never(f) == FALSE

(* update_feature_status_async: SELECT ... FOR UPDATE, one call at a time. *)
Locked(f) == \E d \in Call : call[d].st = "locked" /\ call[d].feature = f

LockFeature(c) ==
  LET me == call[c] IN
  /\ me.st = "found"
  /\ ~Locked(me.feature)
  /\ call' = [call EXCEPT ![c] =
       [st |-> "locked", ctx |-> me.ctx, feature |-> me.feature, to |-> me.to,
        old |-> feature[me.feature].status]]
  /\ UNCHANGED <<accessVars, feature, history, blocker, update, completion,
                 lapped>>

(* The new status and its history row, or neither if nothing changes.      *)
UpdateFeatureStatus(c) ==
  LET me == call[c] IN
  /\ me.st = "locked"
  /\ feature' = [feature EXCEPT ![me.feature] =
                   [status |-> me.to, project |-> me.ctx.project]]
  /\ history' = IF me.old = me.to THEN history
                ELSE [history EXCEPT ![me.feature] =
                  Append(@, [old |-> me.old, new |-> me.to, by |-> me.ctx.lead])]
  /\ Done(c)
  /\ UNCHANGED <<accessVars, blocker, update, completion, lapped>>

----------------------------------------------------------------------------
(* manage_blocker.                                                         *)
CreateBlocker(c, b) ==
  \E p \in Project :
    /\ Ready(c, p)
    /\ blocker[b] = Absent
    /\ blocker' = [blocker EXCEPT ![b] = [status |-> "OPEN", project |-> p]]
    /\ Done(c)
    /\ UNCHANGED <<accessVars, feature, history, update, completion, lapped>>

FindBlocker(c, r) ==
  \E p \in Project :
    /\ Ready(c, p)
    /\ IF \E b \in Blocker : Found(r, blocker, p) = {b}
         THEN \E b \in Found(r, blocker, p) :
                call' = [call EXCEPT ![c] =
                  [st |-> "resolving", ctx |-> call[c].ctx, blocker |-> b]]
         ELSE Done(c)
    /\ UNCHANGED <<accessVars, feature, history, blocker, update, completion,
                   lapped>>

ResolveBlocker(c) ==
  /\ call[c].st = "resolving"
  /\ blocker' = [blocker EXCEPT ![call[c].blocker] =
                   [status |-> "RESOLVED", project |-> call[c].ctx.project]]
  /\ Done(c)
  /\ UNCHANGED <<accessVars, feature, history, update, completion, lapped>>

----------------------------------------------------------------------------
(* submit_update: created_at is the time the transaction began, so the     *)
(* updates are ordered by their beginnings.  An unresolved or ambiguous    *)
(* blocker reference ends the call.                                        *)
BeginSubmit(c, pct, refs) ==
  \E p \in Project :
    /\ Ready(c, p)
    /\ Len(update) < MaxUpdates
    /\ IF \A r \in refs : \E b \in Blocker : Found(r, blocker, p) = {b}
         THEN /\ update' = Append(update, [st |-> "begun", project |-> p,
                                           pct |-> pct, counted |-> FALSE])
              /\ call' = [call EXCEPT ![c] =
                   [st |-> "submitting", ctx |-> call[c].ctx, pct |-> pct,
                    slot |-> Len(update) + 1]]
              /\ lapped' = (lapped \/ \E d \in Call : call[d].st = "submitting")
         ELSE Done(c) /\ UNCHANGED <<update, lapped>>
    /\ UNCHANGED <<accessVars, feature, history, blocker, completion>>

(* The update is stored whoever leads the project by now; the project's    *)
(* completion follows it only while the caller still leads it.             *)
CountsFor(ctx) == lead[ctx.project] = ctx.lead

CommitSubmit(c) ==
  LET me == call[c] IN
  /\ me.st = "submitting"
  /\ update' = [update EXCEPT ![me.slot] = UpdateOf(me, "stored", CountsFor(me.ctx))]
  /\ completion' = IF CountsFor(me.ctx)
                     THEN [completion EXCEPT ![me.ctx.project] = me.pct]
                     ELSE completion
  /\ Done(c)
  /\ UNCHANGED <<accessVars, feature, history, blocker, lapped>>

----------------------------------------------------------------------------
FeatureTool(c) ==
  \/ \E f \in Feature, s \in FeatureStatus : CreateFeature(c, f, s)
  \/ \E r \in Reference, s \in FeatureStatus : FindFeature(c, r, s)
  \/ LockFeature(c)
  \/ UpdateFeatureStatus(c)

BlockerTool(c) ==
  \/ \E b \in Blocker : CreateBlocker(c, b)
  \/ \E r \in Reference : FindBlocker(c, r)
  \/ ResolveBlocker(c)

UpdateTool(c) ==
  \/ \E pct \in Pct, refs \in SUBSET Reference : BeginSubmit(c, pct, refs)
  \/ CommitSubmit(c)

ToolStep ==
  \E c \in Call :
    \/ \E t \in Token : McpAuthenticate(c, t)
    \/ CallFails(c)
    \/ FeatureTool(c) \/ BlockerTool(c) \/ UpdateTool(c)

Next == (AccessNext /\ UNCHANGED stateVars) \/ ToolStep

Spec == Init /\ [][Next]_vars

----------------------------------------------------------------------------
(* The history of a feature is one chain from its first status to the one  *)
(* it has: no change is lost, and none starts from a status the feature    *)
(* had already left, whatever calls write at once                          *)
(* (update_feature_status_async).                                          *)
HistoryIsAChain ==
  \A f \in Feature :
    LET h == history[f] IN
    /\ \A i \in DOMAIN h : h[i].old # h[i].new
    /\ \A i \in 2..Len(h) : h[i - 1].new = h[i].old
    /\ h # <<>> => Last(h).new = feature[f].status

(* The completion of a project is what its newest counted daily update     *)
(* says, unless submissions have overlapped (submit_update): an update of  *)
(* a lead who was replaced in the meantime changes nothing.                *)
Counted(p) == {i \in DOMAIN update : update[i].project = p /\ update[i].counted}

CompletionIsNewestCounted ==
  ~lapped =>
    \A p \in Project :
      \/ Counted(p) = {} /\ completion[p] = 0
      \/ \E i \in Counted(p) :
           (\A k \in Counted(p) : k <= i) /\ completion[p] = update[i].pct

(* Only a call of the one who leads the project at that moment moves its   *)
(* completion, also when the lead changes after the call was let in.       *)
OnlyTheLeadMovesCompletion ==
  [][\A p \in Project : completion'[p] # completion[p] =>
       \E c \in Call : call[c].st = "submitting" /\ call[c].ctx.project = p
                       /\ call[c].ctx.lead = lead[p]]_vars
==============================================================================
