---------------------------- MODULE ProjectProofs ----------------------------
(***************************************************************************)
(* Proofs about ProjectAccess and ProjectState, for any users, projects,   *)
(* tokens and calls.                                                       *)
(***************************************************************************)
EXTENDS ProjectState, SequenceTheorems, TLAPS

LEMMA RevokeWhereFacts ==
    ASSUME AccessTypeOK, NEW rows
    PROVE  /\ RevokeWhere(rows) \in [Token -> TokenState]
           /\ \A t \in Token : /\ RevokeWhere(rows)[t] = "open" => tokenState[t] = "open"
                             /\ t \in rows => RevokeWhere(rows)[t] # "open"
  BY DEF RevokeWhere, AccessTypeOK, TokenState

(* The tables of ProjectAccess keep their types.                           *)
LEMMA AccessTypeInit == AccessInit => AccessTypeOK
BY ProjectAssumption DEF AccessInit, AccessTypeOK, Accounts, CreatedProjects,
   NoToken, TokenRow, TokenState, Idle, AdminTxn

LEMMA AccessTypeStep == AccessTypeOK /\ [AccessNext]_accessVars => AccessTypeOK'
<1> SUFFICES ASSUME AccessTypeOK, [AccessNext]_accessVars PROVE AccessTypeOK'
  OBVIOUS
<1> USE DEF AccessTypeOK
<1>1. CASE UNCHANGED accessVars
  BY <1>1 DEF accessVars
<1>2. CASE AccountStep
  BY <1>2 DEF AccountStep, Login, JwtExpires
<1>3. ASSUME NEW u \in User, NEW p \in Project, RequireProjectAccess(u, p)
      PROVE  AccessTypeOK'
  BY <1>3 DEF RequireProjectAccess
<1>4. ASSUME NEW u \in User, NEW t \in Token, InsertToken(u, t)
      PROVE  AccessTypeOK'
  <2>1. issue[u] \in Project
    BY <1>4 DEF InsertToken
  <2>2. tok' \in [Token -> TokenRow] /\ tokenState' \in [Token -> TokenState]
    BY <1>4, <2>1 DEF InsertToken, TokenRow, TokenState
  <2> QED
    BY <1>4, <2>2 DEF InsertToken
<1>5. ASSUME NEW u \in User, IssueFails(u) PROVE AccessTypeOK'
  BY <1>5 DEF IssueFails
<1>6. ASSUME NEW t \in Token, RevokeToken(t) \/ TokenExpires(t)
      PROVE  AccessTypeOK'
  BY <1>6 DEF RevokeToken, TokenExpires, TokenState
<1>7. ASSUME NEW a \in Admin, NEW p \in Project, NEW u \in User \cup {NoUser},
             BeginReplaceLead(a, p, u)
      PROVE  AccessTypeOK'
  BY <1>7 DEF BeginReplaceLead, AdminTxn
<1>8. ASSUME NEW a \in Admin, ReplaceLead(a) PROVE AccessTypeOK'
  <2>1. adm[a] \in [op : {"replace"}, project : Project, to : User \cup {NoUser},
                    before : User \cup {NoUser}]
    BY <1>8 DEF ReplaceLead, AdminTxn, Idle
  <2>2. tokenState' \in [Token -> TokenState]
    BY <1>8, RevokeWhereFacts DEF ReplaceLead, InvalidateOnLeadChange, RevokeForProject
  <2>3. adm' \in [Admin -> AdminTxn]
    BY <1>8 DEF ReplaceLead, AdminTxn
  <2>4. lead' \in [Project -> User \cup {NoUser}] /\ term' \in [Project -> Nat]
    BY <1>8, <2>1 DEF ReplaceLead
  <2> QED
    BY <1>8, <2>2, <2>3, <2>4 DEF ReplaceLead
<1>9. ASSUME NEW a \in Admin, NEW u \in User, NEW r \in Role, BeginSetRole(a, u, r)
      PROVE  AccessTypeOK'
  BY <1>9 DEF BeginSetRole, AdminTxn
<1>10. ASSUME NEW a \in Admin, SetRole(a) PROVE AccessTypeOK'
  <2>1. adm[a] \in [op : {"role"}, user : User, to : Role, existing : Role]
    BY <1>10 DEF SetRole, AdminTxn, Idle
  <2>2. tokenState' \in [Token -> TokenState]
    BY <1>10, RevokeWhereFacts DEF SetRole, InvalidateOnDemotion, RevokeForCreator
  <2>3. adm' \in [Admin -> AdminTxn] /\ role' \in [User -> Role]
    BY <1>10, <2>1 DEF SetRole, AdminTxn
  <2> QED
    BY <1>10, <2>2, <2>3 DEF SetRole
<1>11. ASSUME NEW a \in Admin, AdminFails(a) PROVE AccessTypeOK'
  BY <1>11 DEF AdminFails, AdminTxn
<1> QED
  BY <1>1, <1>2, <1>3, <1>4, <1>5, <1>6, <1>7, <1>8, <1>9, <1>10, <1>11
     DEF AccessNext, TokenStep, AdminStep

(* Every token that works was issued in the present term, and to a user    *)
(* who was a lead only if it still is one; with one admin at a time, what  *)
(* an admin's request has read is still so when it commits.                *)
AdminReadIsCurrent ==
  \A a \in Admin :
    /\ adm[a].op = "replace" => adm[a].before = lead[adm[a].project]
    /\ adm[a].op = "role" => adm[a].existing = role[adm[a].user]

OpenInTerm == \A t \in Token : FindActive(t) => tok[t].term = term[tok[t].project]

OpenByLead == \A t \in Token : FindActive(t) /\ tok[t].byLead => role[tok[t].by] = "lead"

OpenHasRow == \A t \in Token : FindActive(t) => tok[t].project \in Project /\ tok[t].by \in User

AccessInv ==
  /\ AccessTypeOK
  /\ OpenHasRow
  /\ OneAdminAtATime => AdminReadIsCurrent /\ OpenInTerm /\ OpenByLead

LEMMA AccessInvInit == AccessInit => AccessInv
<1> SUFFICES ASSUME AccessInit PROVE AccessInv
  OBVIOUS
<1>1. AccessTypeOK
  BY AccessTypeInit
<1>2. \A t \in Token : ~FindActive(t)
  BY DEF AccessInit, NoToken, FindActive
<1>3. AdminReadIsCurrent
  BY DEF AccessInit, Idle, AdminReadIsCurrent
<1> QED
  BY <1>1, <1>2, <1>3 DEF AccessInv, OpenHasRow, OpenInTerm, OpenByLead

LEMMA AccessInvStep == AccessInv /\ [AccessNext]_accessVars => AccessInv'
<1> SUFFICES ASSUME AccessInv, [AccessNext]_accessVars PROVE AccessInv'
  OBVIOUS
<1>0. AccessTypeOK'
  BY AccessTypeStep DEF AccessInv
<1> SUFFICES /\ OpenHasRow'
             /\ OneAdminAtATime => (AdminReadIsCurrent /\ OpenInTerm /\ OpenByLead)'
  BY <1>0 DEF AccessInv, OneAdminAtATime
<1> USE DEF AccessInv, AccessTypeOK, OpenHasRow, OpenInTerm, OpenByLead, FindActive
<1>1. CASE UNCHANGED accessVars
  BY <1>1 DEF accessVars, AdminReadIsCurrent
<1>2. CASE AccountStep
  BY <1>2 DEF AccountStep, Login, JwtExpires, AdminReadIsCurrent
<1>3. ASSUME NEW u \in User, NEW p \in Project, RequireProjectAccess(u, p)
      PROVE  /\ OpenHasRow'
             /\ OneAdminAtATime => (AdminReadIsCurrent /\ OpenInTerm /\ OpenByLead)'
  BY <1>3 DEF RequireProjectAccess, AdminReadIsCurrent
<1>4. ASSUME NEW u \in User, NEW t \in Token, InsertToken(u, t)
      PROVE  /\ OpenHasRow'
             /\ OneAdminAtATime => (AdminReadIsCurrent /\ OpenInTerm /\ OpenByLead)'
  <2>1. issue[u] \in Project
    BY <1>4 DEF InsertToken
  <2>2. AdminReadIsCurrent => AdminReadIsCurrent'
    BY <1>4 DEF InsertToken, AdminReadIsCurrent
  <2>3. /\ tok' = [tok EXCEPT ![t] = [project |-> issue[u], by |-> u,
                             term |-> term[issue[u]], byLead |-> role[u] = "lead"]]
        /\ tokenState' = [tokenState EXCEPT ![t] = "open"]
        /\ term' = term /\ role' = role
    BY <1>4 DEF InsertToken
  <2>4. \A s \in Token \ {t} : tok'[s] = tok[s] /\ tokenState'[s] = tokenState[s]
    BY <2>3
  <2>5. /\ tok'[t].project = issue[u] /\ tok'[t].by = u
        /\ tok'[t].term = term[issue[u]] /\ tok'[t].byLead = (role[u] = "lead")
    BY <2>3
  <2> QED
    BY <2>1, <2>2, <2>3, <2>4, <2>5
<1>5. ASSUME NEW u \in User, IssueFails(u)
      PROVE  /\ OpenHasRow'
             /\ OneAdminAtATime => (AdminReadIsCurrent /\ OpenInTerm /\ OpenByLead)'
  BY <1>5 DEF IssueFails, AdminReadIsCurrent
<1>6. ASSUME NEW t \in Token, RevokeToken(t) \/ TokenExpires(t)
      PROVE  /\ OpenHasRow'
             /\ OneAdminAtATime => (AdminReadIsCurrent /\ OpenInTerm /\ OpenByLead)'
  <2>1. AdminReadIsCurrent => AdminReadIsCurrent'
    BY <1>6 DEF RevokeToken, TokenExpires, AdminReadIsCurrent
  <2>2. term' = term /\ role' = role /\ tok' = tok /\ tokenState'[t] # "open"
        /\ \A s \in Token \ {t} : tokenState'[s] = tokenState[s]
    BY <1>6 DEF RevokeToken, TokenExpires
  <2> QED
    BY <2>1, <2>2
<1>7. ASSUME NEW a \in Admin, NEW p \in Project, NEW u \in User \cup {NoUser},
             BeginReplaceLead(a, p, u)
      PROVE  /\ OpenHasRow'
             /\ OneAdminAtATime => (AdminReadIsCurrent /\ OpenInTerm /\ OpenByLead)'
  <2>1. AdminReadIsCurrent => AdminReadIsCurrent'
    BY <1>7 DEF BeginReplaceLead, AdminReadIsCurrent
  <2> QED
    BY <1>7, <2>1 DEF BeginReplaceLead
<1>8. ASSUME NEW a \in Admin, ReplaceLead(a)
      PROVE  /\ OpenHasRow'
             /\ OneAdminAtATime => (AdminReadIsCurrent /\ OpenInTerm /\ OpenByLead)'
  <2> DEFINE txn == adm[a]
  <2>1. txn \in [op : {"replace"}, project : Project, to : User \cup {NoUser},
                    before : User \cup {NoUser}]
    BY <1>8 DEF ReplaceLead, AdminTxn, Idle
  <2>2. tok' = tok /\ \A t \in Token : tokenState'[t] = "open" => tokenState[t] = "open"
    BY <1>8 DEF ReplaceLead, InvalidateOnLeadChange, RevokeForProject, RevokeWhere
  <2>3. OneAdminAtATime => AdminReadIsCurrent'
    BY <1>8 DEF ReplaceLead, OneAdminAtATime, AdminReadIsCurrent, Idle
  <2>4. OneAdminAtATime => OpenInTerm'
    <3> SUFFICES ASSUME OneAdminAtATime, NEW t \in Token, tokenState'[t] = "open"
                 PROVE  tok'[t].term = term'[tok'[t].project]
      OBVIOUS
    <3>1. tok'[t] = tok[t] /\ tokenState[t] = "open" /\ tok[t].term = term[tok[t].project]
      BY <2>2
    <3>2. CASE txn.before = txn.to
      <4>1. lead[txn.project] = txn.to
        BY <3>2, <1>8 DEF AdminReadIsCurrent, ReplaceLead
      <4>2. term' = term
        BY <4>1, <1>8, <2>1 DEF ReplaceLead
      <4> QED
        BY <3>1, <4>2
    <3>3. CASE txn.before # txn.to
      <4>1. tokenState' = RevokeForProject(txn.project)
        BY <3>3, <1>8 DEF ReplaceLead, InvalidateOnLeadChange
      <4>2. tok[t].project # txn.project
        BY <4>1, <3>1, RevokeWhereFacts DEF RevokeForProject
      <4>3. term'[tok[t].project] = term[tok[t].project]
        BY <4>2, <1>8, <2>1 DEF ReplaceLead
      <4> QED
        BY <3>1, <4>3
    <3> QED
      BY <3>2, <3>3
  <2>5. OpenHasRow' /\ (OneAdminAtATime => OpenByLead')
    BY <1>8, <2>2 DEF ReplaceLead
  <2> QED
    BY <2>3, <2>4, <2>5
<1>9. ASSUME NEW a \in Admin, NEW u \in User, NEW r \in Role, BeginSetRole(a, u, r)
      PROVE  /\ OpenHasRow'
             /\ OneAdminAtATime => (AdminReadIsCurrent /\ OpenInTerm /\ OpenByLead)'
  <2>1. AdminReadIsCurrent => AdminReadIsCurrent'
    BY <1>9 DEF BeginSetRole, AdminReadIsCurrent
  <2> QED
    BY <1>9, <2>1 DEF BeginSetRole
<1>10. ASSUME NEW a \in Admin, SetRole(a)
       PROVE  /\ OpenHasRow'
              /\ OneAdminAtATime => (AdminReadIsCurrent /\ OpenInTerm /\ OpenByLead)'
  <2> DEFINE txn == adm[a]
  <2>1. txn \in [op : {"role"}, user : User, to : Role, existing : Role]
    BY <1>10 DEF SetRole, AdminTxn, Idle
  <2>2. tok' = tok /\ \A t \in Token : tokenState'[t] = "open" => tokenState[t] = "open"
    BY <1>10 DEF SetRole, InvalidateOnDemotion, RevokeForCreator, RevokeWhere
  <2>3. OneAdminAtATime => AdminReadIsCurrent'
    BY <1>10 DEF SetRole, OneAdminAtATime, AdminReadIsCurrent, Idle
  <2>4. OneAdminAtATime => OpenByLead'
    <3> SUFFICES ASSUME OneAdminAtATime, NEW t \in Token, tokenState'[t] = "open",
                        tok'[t].byLead
                 PROVE  role'[tok'[t].by] = "lead"
      OBVIOUS
    <3>1. tok'[t] = tok[t] /\ role[tok[t].by] = "lead" /\ tok[t].by \in User
      BY <2>2
    <3>2. CASE tok[t].by # txn.user
      BY <3>1, <3>2, <1>10, <2>1 DEF SetRole
    <3>3. CASE tok[t].by = txn.user
      <4>1. txn.existing = "lead"
        BY <3>1, <3>3, <1>10 DEF SetRole, AdminReadIsCurrent
      <4>2. txn.to = "lead"
        BY <4>1, <3>1, <3>3, <1>10
           DEF SetRole, InvalidateOnDemotion, RevokeForCreator, RevokeWhere
      <4> QED
        BY <4>2, <3>1, <3>3, <1>10, <2>1 DEF SetRole
    <3> QED
      BY <3>2, <3>3
  <2>5. OpenHasRow' /\ (OneAdminAtATime => OpenInTerm')
    BY <1>10, <2>2 DEF SetRole
  <2> QED
    BY <2>3, <2>4, <2>5
<1>11. ASSUME NEW a \in Admin, AdminFails(a)
       PROVE  /\ OpenHasRow'
              /\ OneAdminAtATime => (AdminReadIsCurrent /\ OpenInTerm /\ OpenByLead)'
  <2>1. AdminReadIsCurrent => AdminReadIsCurrent'
    BY <1>11 DEF AdminFails, AdminReadIsCurrent, Idle
  <2> QED
    BY <1>11, <2>1 DEF AdminFails
<1> QED
  BY <1>1, <1>2, <1>3, <1>4, <1>5, <1>6, <1>7, <1>8, <1>9, <1>10, <1>11
     DEF AccessNext, TokenStep, AdminStep

----------------------------------------------------------------------------
(* A tool call changes nothing that ProjectAccess owns.                    *)
LEMMA ToolsLeaveAccess == [Next]_vars => [AccessNext]_accessVars
<1> SUFFICES ASSUME [Next]_vars PROVE [AccessNext]_accessVars
  OBVIOUS
<1>1. CASE UNCHANGED vars
  BY <1>1 DEF vars
<1>2. ASSUME NEW c \in Call, NEW t \in Token, McpAuthenticate(c, t)
      PROVE  UNCHANGED accessVars
  BY <1>2 DEF McpAuthenticate
<1>3. ASSUME NEW c \in Call, CallFails(c) PROVE UNCHANGED accessVars
  BY <1>3 DEF CallFails
<1>4. ASSUME NEW c \in Call, FeatureTool(c) PROVE UNCHANGED accessVars
  BY <1>4 DEF FeatureTool, CreateFeature, FindFeature, LockFeature, UpdateFeatureStatus
<1>5. ASSUME NEW c \in Call, BlockerTool(c) PROVE UNCHANGED accessVars
  BY <1>5 DEF BlockerTool, CreateBlocker, FindBlocker, ResolveBlocker
<1>6. ASSUME NEW c \in Call, UpdateTool(c) PROVE UNCHANGED accessVars
  BY <1>6 DEF UpdateTool, BeginSubmit, CommitSubmit
<1> QED
  BY <1>1, <1>2, <1>3, <1>4, <1>5, <1>6 DEF Next, ToolStep

(* The composition implements ProjectAccess.                               *)
THEOREM AccessIsImplemented == Spec => AccessSpec
<1>1. Init => AccessInit
  BY DEF Init
<1> QED
  BY <1>1, ToolsLeaveAccess, PTL DEF Spec, AccessSpec

LEMMA AccessInvariant == Spec => []AccessInv
<1>1. AccessSpec => []AccessInv
  BY AccessInvInit, AccessInvStep, PTL DEF AccessSpec
<1> QED
  BY <1>1, AccessIsImplemented, PTL

(* No token outlives the term of the lead it was issued in, nor the role   *)
(* its creator had then.                                                   *)
THEOREM TokensDieWithTheTermHolds == Spec => []TokensDieWithTheTerm
<1>1. AccessInv => TokensDieWithTheTerm
  BY DEF AccessInv, TokensDieWithTheTerm, TermsCloseTokens, DemotionsCloseTokens,
         OpenInTerm, OpenByLead
<1> QED
  BY <1>1, AccessInvariant, PTL

----------------------------------------------------------------------------
(* A call that holds a feature's row is the only one, and the status it    *)
(* read is still the feature's; a feature that does not exist has no       *)
(* history.  With that the chain is inductive.                             *)
FeatureTypes ==
  /\ call \in [Call -> CallState]
  /\ feature \in [Feature -> FeatureRow]
  /\ history \in [Feature -> Seq(HistoryRow)]

LockIsExclusive ==
  \A c, d \in Call :
    call[c].st = "locked" /\ call[d].st = "locked"
    /\ call[c].feature = call[d].feature => c = d

LockedReadIsCurrent ==
  \A c \in Call :
    /\ call[c].st = "found" => feature[call[c].feature] # Absent
    /\ call[c].st = "locked" => /\ feature[call[c].feature] # Absent
                               /\ feature[call[c].feature].status = call[c].old

UnbornHasNoHistory == \A f \in Feature : feature[f] = Absent => history[f] = <<>>

HistoryInv ==
  /\ FeatureTypes
  /\ LockIsExclusive
  /\ LockedReadIsCurrent
  /\ UnbornHasNoHistory
  /\ HistoryIsAChain

LEMMA CallShapes ==
    ASSUME NEW x \in CallState
    PROVE  /\ x.st = "ready" => x \in [st : {"ready"}, ctx : Context]
           /\ x.st = "found" => x \in [st : {"found"}, ctx : Context,
                                      feature : Feature, to : FeatureStatus]
           /\ x.st = "locked" => x \in [st : {"locked"}, ctx : Context,
                 feature : Feature, to : FeatureStatus, old : FeatureStatus]
  BY DEF CallState

(* What a call does to its own record leaves the others alone.             *)
LEMMA HistoryUntouched ==
    ASSUME HistoryInv, NEW c \in Call,
           call' \in [Call -> CallState],
           \A d \in Call \ {c} : call'[d] = call[d],
           call'[c].st \notin {"found", "locked"},
           UNCHANGED <<feature, history>>
    PROVE  HistoryInv'
<1> USE DEF HistoryInv
<1>1. FeatureTypes'
  BY DEF FeatureTypes
<1>2. LockIsExclusive'
  BY DEF LockIsExclusive
<1>3. LockedReadIsCurrent'
  BY DEF LockedReadIsCurrent
<1>4. UnbornHasNoHistory' /\ HistoryIsAChain'
  BY DEF UnbornHasNoHistory, HistoryIsAChain
<1> QED
  BY <1>1, <1>2, <1>3, <1>4

(* The types of what the other tools write.                                *)
RestTypes ==
  /\ blocker \in [Blocker -> BlockerRow]
  /\ update \in Seq(UpdateRow)
  /\ completion \in [Project -> Pct \cup {0}]
  /\ lapped \in BOOLEAN

LEMMA HistoryInvInit == Init => HistoryInv
<1> SUFFICES ASSUME Init PROVE HistoryInv
  OBVIOUS
<1>1. FeatureTypes
  BY DEF Init, FeatureTypes, CallState, FeatureRow
<1>2. LockIsExclusive /\ LockedReadIsCurrent /\ UnbornHasNoHistory
  BY DEF Init, LockIsExclusive, LockedReadIsCurrent, UnbornHasNoHistory
<1>3. HistoryIsAChain
  BY DEF Init, HistoryIsAChain
<1> QED
  BY <1>1, <1>2, <1>3 DEF HistoryInv

LEMMA HistoryInvStep == HistoryInv /\ AccessInv /\ RestTypes /\ [Next]_vars => HistoryInv'
<1> SUFFICES ASSUME HistoryInv, AccessInv, RestTypes, [Next]_vars
             PROVE  HistoryInv'
  OBVIOUS
<1> USE DEF FeatureTypes
<1>0. FeatureTypes
  BY DEF HistoryInv
<1>1. CASE UNCHANGED <<call, feature, history>>
  BY <1>1 DEF HistoryInv, LockIsExclusive, LockedReadIsCurrent,
              UnbornHasNoHistory, HistoryIsAChain
<1>2. ASSUME NEW c \in Call, NEW t \in Token, McpAuthenticate(c, t)
      PROVE  HistoryInv'
  <2>1. tok[t].project \in Project /\ tok[t].by \in User
    BY <1>2 DEF McpAuthenticate, Authenticates, AccessInv, OpenHasRow
  <2>2. call' \in [Call -> CallState]
    BY <1>0, <1>2, <2>1 DEF McpAuthenticate, CallState, Context
  <2> QED
    BY <1>0, <1>2, <2>2, HistoryUntouched DEF McpAuthenticate
<1>3. ASSUME NEW c \in Call, Done(c), UNCHANGED <<feature, history>>
      PROVE  HistoryInv'
  <2>1. call' \in [Call -> CallState]
    BY <1>0, <1>3 DEF Done, CallState
  <2> QED
    BY <1>0, <1>3, <2>1, HistoryUntouched DEF Done
<1>4. ASSUME NEW c \in Call, NEW f \in Feature, NEW s \in FeatureStatus,
             CreateFeature(c, f, s)
      PROVE  HistoryInv'
  <2>1. PICK p \in Project :
          /\ feature[f] = Absent
          /\ feature' = [feature EXCEPT ![f] = [status |-> s, project |-> p]]
          /\ Done(c) /\ UNCHANGED history /\ Ready(c, p)
    BY <1>4 DEF CreateFeature
  <2>2. FeatureTypes'
    BY <1>0, <2>1 DEF Done, CallState, FeatureRow
  <2>3. feature'[f] # Absent
    BY <1>0, <2>1, ProjectAssumption DEF Absent
  <2>4. LockIsExclusive' /\ LockedReadIsCurrent'
    BY <1>0, <2>1, <2>3, CallShapes DEF HistoryInv, LockIsExclusive, LockedReadIsCurrent, Done
  <2>5. UnbornHasNoHistory' /\ HistoryIsAChain'
    BY <1>0, <2>1, <2>3 DEF HistoryInv, UnbornHasNoHistory, HistoryIsAChain
  <2> QED
    BY <2>2, <2>4, <2>5 DEF HistoryInv
<1>5. ASSUME NEW c \in Call, NEW r \in Reference, NEW s \in FeatureStatus,
             FindFeature(c, r, s), ~Done(c)
      PROVE  HistoryInv'
  <2>0. PICK p \in Project : \E f \in Found(r, feature, p) :
          /\ Ready(c, p)
          /\ call' = [call EXCEPT ![c] =
               [st |-> "found", ctx |-> call[c].ctx, feature |-> f, to |-> s]]
          /\ UNCHANGED <<feature, history>>
    BY <1>5 DEF FindFeature
  <2>1. PICK f \in Found(r, feature, p) :
          /\ Ready(c, p)
          /\ call' = [call EXCEPT ![c] =
               [st |-> "found", ctx |-> call[c].ctx, feature |-> f, to |-> s]]
          /\ UNCHANGED <<feature, history>>
    BY <2>0
  <2>2. f \in Feature /\ feature[f].project = p
    BY <1>0, <2>1 DEF Found
  <2>3. feature[f] # Absent
    BY <2>2, ProjectAssumption DEF Absent
  <2>4. FeatureTypes'
    BY <1>0, <2>1, <2>2, CallShapes DEF Ready, CallState
  <2>5. LockIsExclusive' /\ LockedReadIsCurrent'
    BY <1>0, <2>1, <2>3 DEF HistoryInv, LockIsExclusive, LockedReadIsCurrent
  <2>6. UnbornHasNoHistory' /\ HistoryIsAChain'
    BY <2>1 DEF HistoryInv, UnbornHasNoHistory, HistoryIsAChain
  <2> QED
    BY <2>4, <2>5, <2>6 DEF HistoryInv
<1>6. ASSUME NEW c \in Call, LockFeature(c) PROVE HistoryInv'
  <2> DEFINE me == call[c]
  <2>1. me \in [st : {"found"}, ctx : Context, feature : Feature, to : FeatureStatus]
    BY <1>0, <1>6, CallShapes DEF LockFeature
  <2>2. feature[me.feature] # Absent /\ feature[me.feature].status \in FeatureStatus
    BY <1>0, <2>1 DEF HistoryInv, LockedReadIsCurrent, FeatureRow
  <2>3. call' = [call EXCEPT ![c] =
          [st |-> "locked", ctx |-> me.ctx, feature |-> me.feature,
           to |-> me.to, old |-> feature[me.feature].status]]
        /\ UNCHANGED <<feature, history>> /\ ~Locked(me.feature)
    BY <1>6 DEF LockFeature
  <2>4. FeatureTypes'
    BY <1>0, <2>1, <2>2, <2>3 DEF CallState
  <2>5. LockIsExclusive' /\ LockedReadIsCurrent'
    BY <1>0, <2>2, <2>3 DEF HistoryInv, LockIsExclusive, LockedReadIsCurrent, Locked
  <2>6. UnbornHasNoHistory' /\ HistoryIsAChain'
    BY <2>3 DEF HistoryInv, UnbornHasNoHistory, HistoryIsAChain
  <2> QED
    BY <2>4, <2>5, <2>6 DEF HistoryInv
<1>7. ASSUME NEW c \in Call, UpdateFeatureStatus(c) PROVE HistoryInv'
  <2> DEFINE me == call[c]
             f == me.feature
             row == [old |-> me.old, new |-> me.to, by |-> me.ctx.lead]
  <2>1. me \in [st : {"locked"}, ctx : Context, feature : Feature,
                to : FeatureStatus, old : FeatureStatus]
    BY <1>0, <1>7, CallShapes DEF UpdateFeatureStatus
  <2>2. feature[f] # Absent /\ feature[f].status = me.old
    BY <1>7 DEF HistoryInv, LockedReadIsCurrent, UpdateFeatureStatus
  <2>3. /\ feature' = [feature EXCEPT ![f] =
                        [status |-> me.to, project |-> me.ctx.project]]
        /\ history' = IF me.old = me.to THEN history
                      ELSE [history EXCEPT ![f] = Append(history[f], row)]
        /\ Done(c)
    BY <1>7 DEF UpdateFeatureStatus
  <2>4. row \in HistoryRow /\ f \in Feature
    BY <2>1 DEF HistoryRow, Context
  <2>5. feature'[f].status = me.to /\ feature'[f] # Absent
    BY <1>0, <2>1, <2>3, ProjectAssumption DEF Absent, Context
  <2>6. FeatureTypes'
    <3>1. call' \in [Call -> CallState]
      BY <1>0, <2>3 DEF Done, CallState
    <3>2. feature' \in [Feature -> FeatureRow]
      BY <1>0, <2>1, <2>3 DEF FeatureRow, Context
    <3>3. history' \in [Feature -> Seq(HistoryRow)]
      BY <1>0, <2>3, <2>4
    <3> QED
      BY <3>1, <3>2, <3>3
  <2>7. \A d \in Call \ {c} : call'[d] = call[d]
    BY <1>0, <2>3 DEF Done
  <2>8. call'[c].st = "done"
    BY <1>0, <2>3 DEF Done
  <2>9. LockIsExclusive'
    BY <2>7, <2>8 DEF HistoryInv, LockIsExclusive
  <2>10. LockedReadIsCurrent'
    <3>1. \A d \in Call \ {c} : call[d].st = "locked" => call[d].feature # f
      BY <1>7 DEF HistoryInv, LockIsExclusive, UpdateFeatureStatus
    <3>2. \A g \in Feature \ {f} : feature'[g] = feature[g]
      BY <1>0, <2>3
    <3>3. \A d \in Call : call[d].st \in {"found", "locked"} => call[d].feature \in Feature
      BY <1>0, CallShapes
    <3> QED
      BY <2>5, <2>7, <2>8, <3>1, <3>2, <3>3 DEF HistoryInv, LockedReadIsCurrent
  <2>11. UnbornHasNoHistory'
    BY <1>0, <2>3, <2>5 DEF HistoryInv, UnbornHasNoHistory
  <2>12. HistoryIsAChain'
    <3> SUFFICES ASSUME NEW g \in Feature
                 PROVE  LET h == history'[g] IN
                        /\ \A i \in DOMAIN h : h[i].old # h[i].new
                        /\ \A i \in 2..Len(h) : h[i - 1].new = h[i].old
                        /\ h # <<>> => Last(h).new = feature'[g].status
      BY DEF HistoryIsAChain
    <3>1. CASE g # f \/ me.old = me.to
      BY <3>1, <1>0, <2>2, <2>3, <2>5 DEF HistoryInv, HistoryIsAChain
    <3>2. CASE g = f /\ me.old # me.to
      <4> DEFINE h == history[f]
      <4>1. history'[f] = Append(h, row) /\ h \in Seq(HistoryRow)
        BY <1>0, <2>3, <2>4, <3>2
      <4>2. h # <<>> => h[Len(h)].new = me.old
        BY <2>2, <2>4 DEF HistoryInv, HistoryIsAChain, Last
      <4>3. \A i \in DOMAIN h : h[i].old # h[i].new
        BY <2>4 DEF HistoryInv, HistoryIsAChain
      <4>4. \A i \in 2..Len(h) : h[i - 1].new = h[i].old
        BY <2>4 DEF HistoryInv, HistoryIsAChain
      <4>5. Len(Append(h, row)) = Len(h) + 1 /\ Append(h, row)[Len(h) + 1] = row
            /\ Len(h) \in Nat /\ \A i \in 1..Len(h) : Append(h, row)[i] = h[i]
        BY <4>1, <2>4
      <4>6. \A i \in DOMAIN Append(h, row) :
              Append(h, row)[i].old # Append(h, row)[i].new
        BY <4>1, <4>3, <4>5, <3>2, <2>4
      <4>7. \A i \in 2..Len(Append(h, row)) :
              Append(h, row)[i - 1].new = Append(h, row)[i].old
        <5> SUFFICES ASSUME NEW i \in 2..(Len(h) + 1)
                     PROVE  Append(h, row)[i - 1].new = Append(h, row)[i].old
          BY <4>5
        <5>1. CASE i = Len(h) + 1
          BY <5>1, <4>1, <4>2, <4>5
        <5>2. CASE i # Len(h) + 1
          BY <5>2, <4>4, <4>5
        <5> QED
          BY <5>1, <5>2
      <4>8. Last(Append(h, row)).new = feature'[f].status
        BY <4>5, <2>5 DEF Last
      <4> QED
        BY <4>1, <4>6, <4>7, <4>8, <3>2
    <3> QED
      BY <3>1, <3>2
  <2> QED
    BY <2>6, <2>9, <2>10, <2>11, <2>12 DEF HistoryInv
<1>8. ASSUME NEW c \in Call, BlockerTool(c) PROVE HistoryInv'
  <2>1. ASSUME NEW r \in Reference, FindBlocker(c, r), ~Done(c) PROVE HistoryInv'
    <3>1. PICK p \in Project : \E b \in Blocker :
            /\ Ready(c, p)
            /\ call' = [call EXCEPT ![c] =
                 [st |-> "resolving", ctx |-> call[c].ctx, blocker |-> b]]
            /\ UNCHANGED <<feature, history>>
      BY <2>1 DEF FindBlocker, Found
    <3>2. PICK b \in Blocker :
            call' = [call EXCEPT ![c] =
              [st |-> "resolving", ctx |-> call[c].ctx, blocker |-> b]]
      BY <3>1
    <3>3. call' \in [Call -> CallState]
      BY <1>0, <3>1, <3>2, CallShapes DEF Ready, CallState
    <3> QED
      BY <1>0, <3>1, <3>3, HistoryUntouched
  <2>2. ASSUME Done(c) PROVE HistoryInv'
    BY <2>2, <1>3, <1>8 DEF BlockerTool, CreateBlocker, FindBlocker, ResolveBlocker
  <2>3. CASE \E b \in Blocker : CreateBlocker(c, b)
    BY <2>2, <2>3 DEF CreateBlocker
  <2>4. CASE ResolveBlocker(c)
    BY <2>2, <2>4 DEF ResolveBlocker
  <2> QED
    BY <1>8, <2>1, <2>2, <2>3, <2>4 DEF BlockerTool
<1>9. ASSUME NEW c \in Call, UpdateTool(c) PROVE HistoryInv'
  <2>1. CASE Done(c)
    BY <2>1, <1>3, <1>9 DEF UpdateTool, BeginSubmit, CommitSubmit
  <2>2. CASE ~Done(c)
    <3>1. PICK p \in Project, pct \in Pct :
            /\ Ready(c, p)
            /\ call' = [call EXCEPT ![c] =
                 [st |-> "submitting", ctx |-> call[c].ctx, pct |-> pct,
                  slot |-> Len(update) + 1]]
            /\ UNCHANGED <<feature, history>>
      BY <2>2, <1>9 DEF UpdateTool, BeginSubmit, CommitSubmit
    <3>2. Len(update) + 1 \in Nat
      BY DEF RestTypes
    <3>3. call' \in [Call -> CallState]
      BY <1>0, <3>1, <3>2, CallShapes DEF Ready, CallState
    <3> QED
      BY <1>0, <3>1, <3>3, HistoryUntouched
  <2> QED
    BY <2>1, <2>2
<1>10. ASSUME NEW c \in Call, CallFails(c) PROVE HistoryInv'
  BY <1>3, <1>10 DEF CallFails
<1>11. ASSUME NEW c \in Call, NEW r \in Reference, NEW s \in FeatureStatus,
              FindFeature(c, r, s)
       PROVE  HistoryInv'
  BY <1>3, <1>5, <1>11 DEF FindFeature
<1>12. ASSUME NEW c \in Call, FeatureTool(c) PROVE HistoryInv'
  BY <1>4, <1>6, <1>7, <1>11, <1>12 DEF FeatureTool
<1>13. CASE ToolStep
  BY <1>2, <1>8, <1>9, <1>10, <1>12, <1>13 DEF ToolStep
<1>14. CASE AccessNext /\ UNCHANGED stateVars
  BY <1>1, <1>14 DEF stateVars
<1>15. CASE UNCHANGED vars
  BY <1>1, <1>15 DEF vars, stateVars
<1> QED
  BY <1>13, <1>14, <1>15 DEF Next

(* Overwriting an element leaves a sequence of the same kind.              *)
LEMMA ExceptKeepsSeq ==
    ASSUME NEW S, NEW s \in Seq(S), NEW x \in S, NEW i
    PROVE  [s EXCEPT ![i] = x] \in Seq(S)
<1>1. Len(s) \in Nat /\ s \in [1..Len(s) -> S]
  OBVIOUS
<1>2. [s EXCEPT ![i] = x] \in [1..Len(s) -> S]
  BY <1>1
<1> QED
  BY <1>1, <1>2, SeqDef

LEMMA UpdateTypesStep ==
    ASSUME FeatureTypes, RestTypes, NEW c \in Call, UpdateTool(c)
    PROVE  RestTypes'
<1> USE DEF RestTypes
<1>1. ASSUME NEW pct \in Pct, NEW refs \in SUBSET Reference, BeginSubmit(c, pct, refs)
      PROVE  RestTypes'
  <2>1. PICK p \in Project :
          \/ UNCHANGED <<blocker, update, completion, lapped>>
          \/ /\ update' = Append(update, [st |-> "begun", project |-> p,
                                          pct |-> pct, counted |-> FALSE])
             /\ lapped' = (lapped \/ \E d \in Call : call[d].st = "submitting")
             /\ UNCHANGED <<blocker, completion>>
    BY <1>1 DEF BeginSubmit
  <2>2. [st |-> "begun", project |-> p, pct |-> pct, counted |-> FALSE] \in UpdateRow
    BY DEF UpdateRow
  <2>3. lapped' \in BOOLEAN
    BY <2>1
  <2> QED
    BY <2>1, <2>2, <2>3
<1>2. CASE CommitSubmit(c)
  <2> DEFINE me == call[c]
             row == UpdateOf(me, "stored", CountsFor(me.ctx))
  <2>1. me.ctx.project \in Project /\ me.pct \in Pct
    BY <1>2 DEF CommitSubmit, FeatureTypes, CallState, Context
  <2>2. CountsFor(me.ctx) \in BOOLEAN
    BY DEF CountsFor
  <2>3. row \in UpdateRow
    BY <2>1, <2>2 DEF UpdateOf, UpdateRow
  <2>4. update' \in Seq(UpdateRow)
    <3> HIDE DEF row
    <3>1. update' = [update EXCEPT ![me.slot] = row]
      BY <1>2 DEF CommitSubmit, row
    <3> QED
      BY <2>3, <3>1, ExceptKeepsSeq
  <2>5. completion' \in [Project -> Pct \cup {0}]
    BY <1>2, <2>1 DEF CommitSubmit
  <2> QED
    BY <1>2, <2>4, <2>5 DEF CommitSubmit
<1> QED
  BY <1>1, <1>2 DEF UpdateTool

LEMMA RestTypesStep == FeatureTypes /\ RestTypes /\ [Next]_vars => RestTypes'
<1> SUFFICES ASSUME FeatureTypes, RestTypes, [Next]_vars PROVE RestTypes'
  OBVIOUS
<1>1. CASE UNCHANGED <<blocker, update, completion, lapped>>
  BY <1>1 DEF RestTypes
<1>2. ASSUME NEW c \in Call, CallFails(c) PROVE RestTypes'
  <2> DEFINE me == call[c]
             row == UpdateOf(me, "void", FALSE)
  <2>1. CASE me.st = "submitting"
    <3>1. row \in UpdateRow
      BY <2>1 DEF FeatureTypes, CallState, Context, UpdateOf, UpdateRow
    <3> HIDE DEF row
    <3>2. update' = [update EXCEPT ![me.slot] = row]
      BY <1>2, <2>1 DEF CallFails, row
    <3>3. update' \in Seq(UpdateRow)
      BY <3>1, <3>2, ExceptKeepsSeq DEF RestTypes
    <3> QED
      BY <1>2, <3>3 DEF RestTypes, CallFails
  <2>2. CASE me.st # "submitting"
    BY <1>1, <1>2, <2>2 DEF CallFails
  <2> QED
    BY <2>1, <2>2
<1>3. ASSUME NEW c \in Call, BlockerTool(c) PROVE RestTypes'
  <2>1. ASSUME NEW b \in Blocker, CreateBlocker(c, b) PROVE RestTypes'
    BY <2>1 DEF CreateBlocker, RestTypes, BlockerRow
  <2>2. CASE \E r \in Reference : FindBlocker(c, r)
    BY <1>1, <2>2 DEF FindBlocker
  <2>3. CASE ResolveBlocker(c)
    <3>1. call[c].ctx.project \in Project
      BY <2>3 DEF ResolveBlocker, FeatureTypes, CallState, Context
    <3> QED
      BY <2>3, <3>1 DEF ResolveBlocker, RestTypes, BlockerRow
  <2> QED
    BY <1>3, <2>1, <2>2, <2>3 DEF BlockerTool
<1>4. ASSUME NEW c \in Call, FeatureTool(c) PROVE RestTypes'
  BY <1>1, <1>4 DEF FeatureTool, CreateFeature, FindFeature, LockFeature,
                    UpdateFeatureStatus
<1>5. CASE ToolStep
  BY <1>1, <1>2, <1>3, <1>4, <1>5, UpdateTypesStep DEF ToolStep, McpAuthenticate
<1>6. CASE AccessNext /\ UNCHANGED stateVars
  BY <1>1, <1>6 DEF stateVars
<1>7. CASE UNCHANGED vars
  BY <1>1, <1>7 DEF vars, stateVars
<1> QED
  BY <1>5, <1>6, <1>7 DEF Next

----------------------------------------------------------------------------
(* Without overlap, the one submission under way holds the newest slot,    *)
(* which counts for nothing until it commits.                              *)
NewestSlot ==
  ~lapped =>
    /\ \A c, d \in Call : call[c].st = "submitting" /\ call[d].st = "submitting" => c = d
    /\ \A c \in Call : call[c].st = "submitting" =>
         /\ call[c].slot = Len(update) /\ Len(update) \in DOMAIN update
         /\ ~update[Len(update)].counted

NewestInv == NewestSlot /\ CompletionIsNewestCounted

(* Steps that neither begin nor end a submission.                          *)
LEMMA NewestUntouched ==
    ASSUME NewestInv, UNCHANGED <<update, completion, lapped>>,
           \A c \in Call : call'[c].st = "submitting" => call'[c] = call[c]
    PROVE  NewestInv'
<1>1. NewestSlot'
  BY DEF NewestInv, NewestSlot
<1>2. CompletionIsNewestCounted'
  BY DEF NewestInv, CompletionIsNewestCounted, Counted
<1> QED
  BY <1>1, <1>2 DEF NewestInv

(* What is counted stays so as long as nothing else comes to count.        *)
LEMMA CountedStays ==
    ASSUME NewestInv, UNCHANGED completion, ~lapped, update \in Seq(UpdateRow),
           update' \in Seq(UpdateRow), NEW k \in Nat,
           DOMAIN update \ {k} = DOMAIN update' \ {k},
           \A i \in DOMAIN update \ {k} : update'[i] = update[i],
           k \in DOMAIN update => ~update[k].counted,
           k \in DOMAIN update' => ~update'[k].counted
    PROVE  CompletionIsNewestCounted'
<1>1. \A p \in Project : \A i \in Counted(p) : i \in Counted(p)' /\ update'[i].pct = update[i].pct
  BY DEF Counted
<1>2. \A p \in Project : \A i \in Counted(p)' : i \in Counted(p)
  BY DEF Counted
<1> QED
  BY <1>1, <1>2 DEF NewestInv, CompletionIsNewestCounted

LEMMA BeginKeepsNewest ==
    ASSUME FeatureTypes, RestTypes, NewestInv, NEW c \in Call, NEW pct \in Pct,
           NEW refs \in SUBSET Reference, BeginSubmit(c, pct, refs)
    PROVE  NewestInv'
<1>1. CASE Done(c)
  <2>1. UNCHANGED <<update, completion, lapped>>
    BY <1>1 DEF BeginSubmit, Done, FeatureTypes
  <2> QED
    BY <1>1, <2>1, NewestUntouched DEF Done, FeatureTypes
<1>2. CASE ~Done(c)
  <2>1. PICK p \in Project :
          /\ update' = Append(update, [st |-> "begun", project |-> p,
                                       pct |-> pct, counted |-> FALSE])
          /\ call' = [call EXCEPT ![c] =
               [st |-> "submitting", ctx |-> call[c].ctx, pct |-> pct,
                slot |-> Len(update) + 1]]
          /\ lapped' = (lapped \/ \E d \in Call : call[d].st = "submitting")
          /\ UNCHANGED completion
    BY <1>2 DEF BeginSubmit
  <2> DEFINE row == [st |-> "begun", project |-> p, pct |-> pct, counted |-> FALSE]
             n == Len(update) + 1
  <2>2. row \in UpdateRow /\ ~row.counted
    BY DEF UpdateRow
  <2> HIDE DEF row
  <2>3. update' = Append(update, row)
    BY <2>1 DEF row
  <2>4. /\ update \in Seq(UpdateRow) /\ update' \in Seq(UpdateRow) /\ Len(update) \in Nat
        /\ Len(update') = n /\ DOMAIN update = 1 .. Len(update) /\ DOMAIN update' = 1 .. n
        /\ update'[n] = row /\ \A i \in DOMAIN update : update'[i] = update[i]
    BY <2>2, <2>3 DEF RestTypes
  <2> SUFFICES ASSUME ~lapped' PROVE NewestInv'
    BY DEF NewestInv, NewestSlot, CompletionIsNewestCounted
  <2>5. ~lapped /\ \A d \in Call : call[d].st # "submitting"
    BY <2>1
  <2>6. call'[c].st = "submitting" /\ call'[c].slot = n
        /\ \A d \in Call : d # c => call'[d].st # "submitting"
    BY <2>1, <2>5 DEF FeatureTypes
  <2>7. NewestSlot'
    BY <2>2, <2>4, <2>6 DEF NewestSlot
  <2>8. CompletionIsNewestCounted'
    <3>1. n \in Nat /\ n \notin DOMAIN update /\ DOMAIN update \ {n} = DOMAIN update' \ {n}
      BY <2>4
    <3>2. ~update'[n].counted /\ UNCHANGED completion
      BY <2>1, <2>2, <2>4
    <3> HIDE DEF n
    <3> QED
      BY <2>4, <2>5, <3>1, <3>2, CountedStays
  <2> QED
    BY <2>7, <2>8 DEF NewestInv
<1> QED
  BY <1>1, <1>2

(* Both ways a submission ends: its row is stored, counted or not, or void. *)
LEMMA SlotIsWritten ==
    ASSUME RestTypes, NewestInv, ~lapped, NEW c \in Call, call[c].st = "submitting",
           NEW row \in UpdateRow, update' = [update EXCEPT ![call[c].slot] = row]
    PROVE  /\ update \in Seq(UpdateRow) /\ update' \in Seq(UpdateRow)
           /\ DOMAIN update = 1 .. Len(update) /\ DOMAIN update' = DOMAIN update
           /\ Len(update) \in DOMAIN update /\ ~update[Len(update)].counted
           /\ update'[Len(update)] = row
           /\ \A i \in DOMAIN update \ {Len(update)} : update'[i] = update[i]
<1>1. call[c].slot = Len(update) /\ Len(update) \in DOMAIN update
      /\ ~update[Len(update)].counted
  BY DEF NewestInv, NewestSlot
<1>2. update \in Seq(UpdateRow) /\ DOMAIN update = 1 .. Len(update)
  BY DEF RestTypes
<1>3. update' \in Seq(UpdateRow)
  BY <1>2, ExceptKeepsSeq
<1> QED
  BY <1>1, <1>2, <1>3

LEMMA EndKeepsNewest ==
    ASSUME FeatureTypes, RestTypes, NewestInv, NEW c \in Call,
           CallFails(c) \/ CommitSubmit(c), call[c].st = "submitting"
    PROVE  NewestInv'
<1> DEFINE me == call[c]
           n == Len(update)
<1>1. Done(c) /\ UNCHANGED lapped
  BY DEF CallFails, CommitSubmit
<1> SUFFICES ASSUME ~lapped PROVE NewestInv'
  BY <1>1 DEF NewestInv, NewestSlot, CompletionIsNewestCounted
<1>2. me.ctx.project \in Project /\ me.pct \in Pct
  BY DEF FeatureTypes, CallState, Context
<1>3. \A d \in Call : call'[d].st # "submitting"
  BY <1>1 DEF Done, FeatureTypes, NewestInv, NewestSlot
<1>4. NewestSlot'
  BY <1>3 DEF NewestSlot
<1>5. CASE ~(CommitSubmit(c) /\ CountsFor(me.ctx))
  <2>1. PICK st \in {"void", "stored"} :
          update' = [update EXCEPT ![me.slot] = UpdateOf(me, st, FALSE)]
    BY <1>5 DEF CallFails, CommitSubmit, CountsFor
  <2>2. UNCHANGED completion
    BY <1>5 DEF CallFails, CommitSubmit
  <2>3. UpdateOf(me, st, FALSE) \in UpdateRow /\ ~UpdateOf(me, st, FALSE).counted
    BY <1>2 DEF UpdateOf, UpdateRow
  <2>4. PICK row \in UpdateRow : ~row.counted /\ update' = [update EXCEPT ![me.slot] = row]
    BY <2>1, <2>3
  <2>5. /\ update \in Seq(UpdateRow) /\ update' \in Seq(UpdateRow)
        /\ DOMAIN update = 1 .. n /\ DOMAIN update' = DOMAIN update
        /\ n \in DOMAIN update /\ ~update[n].counted /\ update'[n] = row
        /\ \A i \in DOMAIN update \ {n} : update'[i] = update[i]
    BY <2>4, SlotIsWritten
  <2>6. n \in Nat
    BY <2>5
  <2> HIDE DEF n
  <2>7. CompletionIsNewestCounted'
    BY <2>2, <2>4, <2>5, <2>6, CountedStays
  <2> QED
    BY <1>4, <2>7 DEF NewestInv
<1>6. CASE CommitSubmit(c) /\ CountsFor(me.ctx)
  <2> DEFINE p == me.ctx.project
             row == UpdateOf(me, "stored", TRUE)
  <2>1. update' = [update EXCEPT ![me.slot] = row]
        /\ completion' = [completion EXCEPT ![p] = me.pct]
    BY <1>6 DEF CommitSubmit, CountsFor
  <2>2. row \in UpdateRow /\ row.counted /\ row.project = p /\ row.pct = me.pct
    BY <1>2 DEF UpdateOf, UpdateRow
  <2> HIDE DEF row
  <2>3. /\ update \in Seq(UpdateRow) /\ update' \in Seq(UpdateRow)
        /\ DOMAIN update = 1 .. n /\ DOMAIN update' = DOMAIN update
        /\ n \in DOMAIN update /\ ~update[n].counted /\ update'[n] = row
        /\ \A i \in DOMAIN update \ {n} : update'[i] = update[i]
    BY <2>1, <2>2, SlotIsWritten
  <2>4. completion'[p] = me.pct /\ \A q \in Project : q # p => completion'[q] = completion[q]
    BY <1>2, <2>1 DEF RestTypes
  <2>5. CompletionIsNewestCounted'
    <3> SUFFICES ASSUME NEW q \in Project
                 PROVE  \/ Counted(q)' = {} /\ completion'[q] = 0
                        \/ \E i \in Counted(q)' :
                             (\A k \in Counted(q)' : k <= i) /\ completion'[q] = update'[i].pct
      BY DEF CompletionIsNewestCounted
    <3>1. CASE q = p
      <4>1. n \in Counted(q)'
        BY <2>2, <2>3, <3>1 DEF Counted
      <4>2. \A k \in Counted(q)' : k <= n
        BY <2>3 DEF Counted
      <4> QED
        BY <2>2, <2>3, <2>4, <3>1, <4>1, <4>2
    <3>2. CASE q # p
      <4>1. Counted(q)' = Counted(q) /\ \A i \in Counted(q) : update'[i].pct = update[i].pct
        BY <2>2, <2>3, <3>2 DEF Counted
      <4> QED
        BY <2>4, <3>2, <4>1 DEF NewestInv, CompletionIsNewestCounted
    <3> QED
      BY <3>1, <3>2
  <2> QED
    BY <1>4, <2>5 DEF NewestInv
<1> QED
  BY <1>5, <1>6

LEMMA NewestStep ==
    ASSUME FeatureTypes, RestTypes, NewestInv, [Next]_vars
    PROVE  NewestInv'
<1>0. call \in [Call -> CallState]
  BY DEF FeatureTypes
<1>1. ASSUME NEW c \in Call, call'[c].st # "submitting",
             \A d \in Call : d # c => call'[d] = call[d],
             UNCHANGED <<update, completion, lapped>>
      PROVE  NewestInv'
  BY <1>1, NewestUntouched
<1>2. ASSUME NEW c \in Call, Done(c), UNCHANGED <<update, completion, lapped>>
      PROVE  NewestInv'
  BY <1>0, <1>1, <1>2 DEF Done
<1>3. ASSUME NEW c \in Call, NEW t \in Token, McpAuthenticate(c, t) PROVE NewestInv'
  BY <1>0, <1>1, <1>3 DEF McpAuthenticate
<1>4. ASSUME NEW c \in Call, CallFails(c) PROVE NewestInv'
  <2>1. CASE call[c].st = "submitting"
    BY <1>4, <2>1, EndKeepsNewest
  <2>2. CASE call[c].st # "submitting"
    BY <1>2, <1>4, <2>2 DEF CallFails
  <2> QED
    BY <2>1, <2>2
<1>5. ASSUME NEW c \in Call, FeatureTool(c) PROVE NewestInv'
  <2>1. ASSUME NEW r \in Reference, NEW s \in FeatureStatus, FindFeature(c, r, s)
        PROVE  NewestInv'
    <3>1. CASE Done(c)
      BY <1>2, <2>1, <3>1 DEF FindFeature
    <3>2. CASE ~Done(c)
      <4>1. PICK f \in Feature :
              call' = [call EXCEPT ![c] =
                [st |-> "found", ctx |-> call[c].ctx, feature |-> f, to |-> s]]
        BY <2>1, <3>2 DEF FindFeature, Found, FeatureTypes
      <4> QED
        BY <1>0, <1>1, <2>1, <4>1 DEF FindFeature
    <3> QED
      BY <3>1, <3>2
  <2>2. CASE LockFeature(c)
    BY <1>0, <1>1, <2>2 DEF LockFeature
  <2>3. CASE \E f \in Feature, s \in FeatureStatus : CreateFeature(c, f, s)
    BY <1>2, <2>3 DEF CreateFeature
  <2>4. CASE UpdateFeatureStatus(c)
    BY <1>2, <2>4 DEF UpdateFeatureStatus
  <2> QED
    BY <1>5, <2>1, <2>2, <2>3, <2>4 DEF FeatureTool
<1>6. ASSUME NEW c \in Call, BlockerTool(c) PROVE NewestInv'
  <2>1. ASSUME NEW r \in Reference, FindBlocker(c, r) PROVE NewestInv'
    <3>1. CASE Done(c)
      BY <1>2, <2>1, <3>1 DEF FindBlocker
    <3>2. CASE ~Done(c)
      <4>1. PICK b : call' = [call EXCEPT ![c] =
                [st |-> "resolving", ctx |-> call[c].ctx, blocker |-> b]]
        BY <2>1, <3>2 DEF FindBlocker
      <4> QED
        BY <1>0, <1>1, <2>1, <4>1 DEF FindBlocker
    <3> QED
      BY <3>1, <3>2
  <2>2. CASE \E b \in Blocker : CreateBlocker(c, b)
    BY <1>2, <2>2 DEF CreateBlocker
  <2>3. CASE ResolveBlocker(c)
    BY <1>2, <2>3 DEF ResolveBlocker
  <2> QED
    BY <1>6, <2>1, <2>2, <2>3 DEF BlockerTool
<1>7. ASSUME NEW c \in Call, UpdateTool(c) PROVE NewestInv'
  BY <1>7, BeginKeepsNewest, EndKeepsNewest DEF UpdateTool, CommitSubmit
<1>8. CASE ToolStep
  BY <1>3, <1>4, <1>5, <1>6, <1>7, <1>8 DEF ToolStep
<1>9. CASE UNCHANGED stateVars
  BY <1>9, NewestUntouched DEF stateVars
<1> QED
  BY <1>8, <1>9 DEF Next, vars

----------------------------------------------------------------------------
(* The inductive invariant of the delivery state.                          *)
LEMMA StateInvariant == Spec => [](AccessInv /\ HistoryInv /\ RestTypes)
<1>1. Init => RestTypes
  <2>1. <<>> \in Seq(UpdateRow)
    OBVIOUS
  <2>2. Init => [p \in Project |-> 0] \in [Project -> Pct \cup {0}]
    OBVIOUS
  <2> QED
    BY <2>1, <2>2 DEF Init, RestTypes, BlockerRow
<1>2. Init => HistoryInv /\ RestTypes
  BY <1>1, HistoryInvInit
<1>3. AccessInv /\ HistoryInv /\ RestTypes /\ [Next]_vars => (HistoryInv /\ RestTypes)'
  BY HistoryInvStep, RestTypesStep DEF HistoryInv
<1> QED
  BY <1>2, <1>3, AccessInvariant, PTL DEF Spec

(* Every variable keeps its type.                                          *)
THEOREM TypeCorrect == Spec => []TypeOK
<1>1. AccessInv /\ HistoryInv /\ RestTypes => TypeOK
  BY DEF AccessInv, HistoryInv, FeatureTypes, RestTypes, TypeOK
<1> QED
  BY <1>1, StateInvariant, PTL

(* As long as submissions do not overlap, a project's completion is what   *)
(* its newest counted daily update says, whoever leads it by now and       *)
(* whichever submissions were rolled back (submit_update).                 *)
THEOREM CompletionIsNewestCountedHolds == Spec => []CompletionIsNewestCounted
<1>1. Init => NewestInv
  <2>1. Init => DOMAIN update = {} /\ (\A c \in Call : call[c].st # "submitting")
                /\ \A p \in Project : completion[p] = 0
    BY DEF Init
  <2> QED
    BY <2>1 DEF NewestInv, NewestSlot, CompletionIsNewestCounted, Counted
<1>2. FeatureTypes /\ RestTypes /\ NewestInv /\ [Next]_vars => NewestInv'
  BY NewestStep
<1>3. HistoryInv => FeatureTypes
  BY DEF HistoryInv
<1>4. NewestInv => CompletionIsNewestCounted
  BY DEF NewestInv
<1> QED
  BY <1>1, <1>2, <1>3, <1>4, StateInvariant, PTL DEF Spec

(* However many calls write a feature's status at once, its history is one *)
(* chain that ends at the status it has (update_feature_status_async).     *)
THEOREM HistoryIsAChainHolds == Spec => []HistoryIsAChain
<1>1. HistoryInv => HistoryIsAChain
  BY DEF HistoryInv
<1> QED
  BY <1>1, StateInvariant, PTL

(* A project's completion moves only in a submission of the user who leads *)
(* the project at that moment (submit_update).                             *)
THEOREM OnlyTheLeadMovesCompletionHolds == Spec => OnlyTheLeadMovesCompletion
<1>1. ASSUME FeatureTypes, RestTypes, [Next]_vars, NEW p \in Project,
             completion'[p] # completion[p]
      PROVE  \E c \in Call : call[c].st = "submitting" /\ call[c].ctx.project = p
                             /\ call[c].ctx.lead = lead[p]
  <2>1. PICK c \in Call : CommitSubmit(c)
    BY <1>1 DEF Next, vars, stateVars, ToolStep, McpAuthenticate, CallFails,
                FeatureTool, CreateFeature, FindFeature, LockFeature,
                UpdateFeatureStatus, BlockerTool, CreateBlocker, FindBlocker,
                ResolveBlocker, UpdateTool, BeginSubmit
  <2>2. call[c].ctx.project = p /\ CountsFor(call[c].ctx)
    BY <1>1, <2>1 DEF CommitSubmit, RestTypes
  <2> QED
    BY <2>1, <2>2 DEF CommitSubmit, CountsFor
<1>2. FeatureTypes /\ RestTypes /\ [Next]_vars =>
        [\A p \in Project : completion'[p] # completion[p] =>
           \E c \in Call : call[c].st = "submitting" /\ call[c].ctx.project = p
                           /\ call[c].ctx.lead = lead[p]]_vars
  BY <1>1
<1>3. HistoryInv => FeatureTypes
  BY DEF HistoryInv
<1> QED
  BY <1>2, <1>3, StateInvariant, PTL DEF Spec, OnlyTheLeadMovesCompletion
==============================================================================
