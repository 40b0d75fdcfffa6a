---------------------------- MODULE ProjectAccess ----------------------------
(***************************************************************************)
(* Who may act for a project of the assistant: the users' roles, the JWTs  *)
(* that carry a role for hours, the one lead of a project, and the         *)
(* credentials (tokens) a lead hands to coding agents                      *)
(* (service/project_tokens.py, service/projects.py, models/users.py).      *)
(*                                                                         *)
(* Postgres runs at READ COMMITTED: a transaction is one step from its     *)
(* first lock or write to its commit, and what it read before that is a    *)
(* step of its own, which other transactions may overtake.  That leaves    *)
(* three reads: the project before a token is inserted, the project before *)
(* its row is locked for a new lead, and the user before a role is set.    *)
(* Names, labels, descriptions and audit rows are left out; a term of a    *)
(* project is the time between two changes of its lead.                    *)
(***************************************************************************)
EXTENDS Integers, FiniteSets

CONSTANTS User,     \* accounts that may come to lead a project
          Role,     \* roles of an account
          Project,
          Token,    \* credentials that may be issued
          Admin,    \* admin requests the service handles at a time
          NoUser, NoProject,
          MaxTerm   \* bound: changes of a lead that are begun

ASSUME ProjectAssumption ==
  /\ "lead" \in Role
  /\ NoUser \notin User
  /\ NoProject \notin Project
  /\ MaxTerm \in Nat

VARIABLES role,     \* assistant_users.role
          leadJwt,  \* users who hold an unexpired JWT with role "lead"
          lead,     \* assistant_projects.lead_id
          term,     \* how often the lead of a project has changed
          tokenState, \* whether a token row exists, has expired or is revoked
          tok,      \* assistant_project_mcp_tokens, apart from that
          issue,    \* create_project_token in flight: the project it read
          adm       \* admin requests in flight

accessVars == <<role, leadJwt, lead, term, tokenState, tok, issue, adm>>

TokenState == {"none", "open", "expired", "revoked"}

(* A row, with the term and the role of its creator when it was inserted.  *)
TokenRow == [project : Project \cup {NoProject}, by : User \cup {NoUser},
             term : Nat, byLead : BOOLEAN]

NoToken == [project |-> NoProject, by |-> NoUser, term |-> 0, byLead |-> FALSE]

Idle == [op |-> "idle"]

AdminTxn ==
  {Idle} \cup [op : {"replace"}, project : Project, to : User \cup {NoUser},
               before : User \cup {NoUser}]
         \cup [op : {"role"}, user : User, to : Role, existing : Role]

AccessTypeOK ==
  /\ role \in [User -> Role]
  /\ leadJwt \subseteq User
  /\ lead \in [Project -> User \cup {NoUser}]
  /\ term \in [Project -> Nat]
  /\ tokenState \in [Token -> TokenState]
  /\ tok \in [Token -> TokenRow]
  /\ issue \in [User -> Project \cup {NoProject}]
  /\ adm \in [Admin -> AdminTxn]

----------------------------------------------------------------------------
(* Accounts are created with any role, projects without a lead.            *)
Accounts == [User -> Role]

CreatedProjects == [p \in Project |-> NoUser]

AccessInit ==
  /\ role \in Accounts
  /\ leadJwt = {}
  /\ lead = CreatedProjects
  /\ term = [p \in Project |-> 0]
  /\ tokenState = [t \in Token |-> "none"]
  /\ tok = [t \in Token |-> NoToken]
  /\ issue = [u \in User |-> NoProject]
  /\ adm = [a \in Admin |-> Idle]

(* A token works while it is neither revoked nor expired and its creator   *)
(* is the lead of its project.                                             *)
FindActive(t) == tokenState[t] = "open"

Authenticates(t) ==
  /\ FindActive(t)
  /\ lead[tok[t].project] # NoUser
  /\ tok[t].by = lead[tok[t].project]

(* Revocation leaves revoked_at alone where it is set already.             *)
RevokeWhere(rows) ==
  [t \in Token |-> IF t \in rows /\ tokenState[t] \in {"open", "expired"}
                    THEN "revoked" ELSE tokenState[t]]

RevokeForProject(p) == RevokeWhere({t \in Token : tok[t].project = p})

RevokeForCreator(u) == RevokeWhere({t \in Token : tok[t].by = u})

----------------------------------------------------------------------------
(* authenticate: the password stands for the account, with its role now.   *)
AuthenticatesAs(u, r) == role[u] = r

(* Sign-in: the JWT carries the role of that moment until it expires.      *)
Login(u) ==
  /\ AuthenticatesAs(u, "lead")
  /\ u \notin leadJwt
  /\ leadJwt' = leadJwt \cup {u}
  /\ UNCHANGED <<role, lead, term, tokenState, tok, issue, adm>>

JwtExpires(u) ==
  /\ u \in leadJwt
  /\ leadJwt' = leadJwt \ {u}
  /\ UNCHANGED <<role, lead, term, tokenState, tok, issue, adm>>

(* get_claims: what a request's JWT says, whatever the account is by now.  *)
ClaimsSayLead(u) == u \in leadJwt

(* create_project_token reads the project: only a caller whose JWT says    *)
(* lead and who is the project's lead goes on.                             *)
RequireProjectAccess(u, p) ==
  /\ ClaimsSayLead(u)
  /\ issue[u] = NoProject
  /\ lead[p] = u
  /\ issue' = [issue EXCEPT ![u] = p]
  /\ UNCHANGED <<role, leadJwt, lead, term, tokenState, tok, adm>>

(* ... and inserts the token.  The foreign key makes the insertion wait    *)
(* for a replacement that holds the project's row, never for one that has  *)
(* committed since the read.                                               *)
InsertToken(u, t) ==
  LET p == issue[u] IN
  /\ p # NoProject
  /\ tokenState[t] = "none"
  /\ tokenState' = [tokenState EXCEPT ![t] = "open"]
  /\ tok' = [tok EXCEPT ![t] = [project |-> p, by |-> u, term |-> term[p],
                                byLead |-> role[u] = "lead"]]
  /\ issue' = [issue EXCEPT ![u] = NoProject]
  /\ UNCHANGED <<role, leadJwt, lead, term, adm>>

IssueFails(u) ==
  /\ issue[u] # NoProject
  /\ issue' = [issue EXCEPT ![u] = NoProject]
  /\ UNCHANGED <<role, leadJwt, lead, term, tokenState, tok, adm>>

(* An admin, or the lead with a lead's JWT, revokes one token.             *)
RevokeToken(t) ==
  /\ FindActive(t)
  /\ tokenState' = [tokenState EXCEPT ![t] = "revoked"]
  /\ UNCHANGED <<role, leadJwt, lead, term, tok, issue, adm>>

TokenExpires(t) ==
  /\ FindActive(t)
  /\ tokenState' = [tokenState EXCEPT ![t] = "expired"]
  /\ UNCHANGED <<role, leadJwt, lead, term, tok, issue, adm>>

----------------------------------------------------------------------------
(* replace_project_lead reads the project without a lock ...               *)
BeginReplaceLead(a, p, u) ==
  /\ adm[a] = Idle
  /\ term[p] < MaxTerm
  /\ adm' = [adm EXCEPT ![a] = [op |-> "replace", project |-> p, to |-> u,
                                before |-> lead[p]]]
  /\ UNCHANGED <<role, leadJwt, lead, term, tokenState, tok, issue>>

\* Mutant: a project that is left without a lead keeps its tokens.
InvalidateOnLeadChange_Handover(txn) ==
  IF txn.before # txn.to /\ txn.to # NoUser THEN RevokeForProject(txn.project)
                                            ELSE tokenState

(* ... then locks it, refuses a user who is not a lead, writes lead_id if  *)
(* it differs from the locked row, and revokes the project's tokens if the *)
(* first read differed from the new lead.                                  *)
InvalidateOnLeadChange(txn) ==
  IF txn.before # txn.to THEN RevokeForProject(txn.project) ELSE tokenState

ReplaceLead(a) ==
  LET txn == adm[a] IN
  /\ txn.op = "replace"
  /\ txn.to # NoUser => role[txn.to] = "lead"
  /\ lead' = [lead EXCEPT ![txn.project] = txn.to]
  /\ term' = [term EXCEPT ![txn.project] =
                @ + (IF lead[txn.project] = txn.to THEN 0 ELSE 1)]
  /\ tokenState' = InvalidateOnLeadChange(txn)
  /\ adm' = [adm EXCEPT ![a] = Idle]
  /\ UNCHANGED <<role, leadJwt, tok, issue>>

(* set_role reads the user; an admin never changes its own role.           *)
BeginSetRole(a, u, r) ==
  /\ adm[a] = Idle
  /\ adm' = [adm EXCEPT ![a] = [op |-> "role", user |-> u, to |-> r,
                                existing |-> role[u]]]
  /\ UNCHANGED <<role, leadJwt, lead, term, tokenState, tok, issue>>

(* Losing the role of a lead revokes what the user has issued, and leaves  *)
(* the user the lead of its projects.                                      *)
InvalidateOnDemotion(txn) ==
  IF txn.existing = "lead" /\ txn.to # "lead"
    THEN RevokeForCreator(txn.user) ELSE tokenState

SetRole(a) ==
  LET txn == adm[a] IN
  /\ txn.op = "role"
  /\ role' = [role EXCEPT ![txn.user] = txn.to]
  /\ tokenState' = InvalidateOnDemotion(txn)
  /\ adm' = [adm EXCEPT ![a] = Idle]
  /\ UNCHANGED <<leadJwt, lead, term, tok, issue>>

(* A refusal (no such user, not a lead) or a lost session rolls back.      *)
AdminFails(a) ==
  /\ adm[a] # Idle
  /\ adm' = [adm EXCEPT ![a] = Idle]
  /\ UNCHANGED <<role, leadJwt, lead, term, tokenState, tok, issue>>

----------------------------------------------------------------------------
AccountStep == \E u \in User : Login(u) \/ JwtExpires(u)

TokenStep ==
  \/ \E u \in User, p \in Project : RequireProjectAccess(u, p)
  \/ \E u \in User, t \in Token : InsertToken(u, t)
  \/ \E u \in User : IssueFails(u)
  \/ \E t \in Token : RevokeToken(t) \/ TokenExpires(t)

AdminStep ==
  \E a \in Admin :
    \/ \E p \in Project, u \in User \cup {NoUser} : BeginReplaceLead(a, p, u)
    \/ ReplaceLead(a)
    \/ \E u \in User, r \in Role : BeginSetRole(a, u, r)
    \/ SetRole(a)
    \/ AdminFails(a)

AccessNext == AccountStep \/ TokenStep \/ AdminStep

AccessSpec == AccessInit /\ [][AccessNext]_accessVars

----------------------------------------------------------------------------
(* An admin's request is never overtaken by another admin's.               *)
OneAdminAtATime == \A a, b \in Admin : a = b

(* No token outlives the term it was issued in (replace_project_lead       *)
(* revokes them all): one made for an earlier term of the same lead does   *)
(* not come back to life when that lead is assigned again.                 *)
TermsCloseTokens ==
  \A t \in Token : FindActive(t) => tok[t].term = term[tok[t].project]

(* Losing the role of a lead closes every token issued while the user had  *)
(* it (set_role_async); what a stale JWT can still issue comes later.      *)
DemotionsCloseTokens ==
  \A t \in Token : FindActive(t) /\ tok[t].byLead => role[tok[t].by] = "lead"

(* A token that works belongs to the present term of a lead who has not    *)
(* been demoted since, as long as one admin at a time acts.                *)
TokensDieWithTheTerm ==
  OneAdminAtATime => TermsCloseTokens /\ DemotionsCloseTokens
==============================================================================
