------------------------------ MODULE ApiGate ------------------------------
(***************************************************************************)
(* What a request of the API passes before and in its handler: the         *)
(* identity cache and the role read live (service/auth.py), the admin      *)
(* check, and one of three handlers: a read of the admin console, a role   *)
(* change with its audit entry (service/admin.py), a download with its     *)
(* counter (repo/counter.py).                                              *)
(* A request awaits several answers; between an answer and its use, and    *)
(* between the check and the commit of a role change in the database,      *)
(* other requests run, tokens end and roles change.                        *)
(***************************************************************************)
EXTENDS Integers, SequencesExt, FiniteSets

CONSTANTS
    Users,        \* rows of public.profiles
    Tokens,       \* access tokens
    Owner,        \* Owner[t]: the user a token was issued to
    Requests,     \* requests that can be in progress at a time
    NoUser,       \* the target of a request that names none
    CacheMax,     \* _IDENTITY_CACHE_MAX
    MaxEffects,   \* bound on the role changes and downloads together
    MaxFailures   \* bound on failed calls and restarts

ASSUME GateAssumption ==
    /\ Owner \in [Tokens -> Users] /\ NoUser \notin Users
    /\ CacheMax \in Nat \ {0}
    /\ MaxEffects \in Nat /\ MaxFailures \in Nat
    /\ IsFiniteSet(Requests)

VARIABLES
    roles,        \* public.profiles
    valid,        \* tokens Supabase accepts
    identities,   \* _identity_cache, soonest to expire first
    request,      \* requests in progress
    changed,      \* role changes committed
    audited,      \* rows of admin_audit_events
    count,        \* the download counter
    file,         \* its file
    failures,     \* calls failed and restarts
    overlapped,   \* two role changes were in the database at once
    lagging       \* the last download's save met another one, or failed

database == <<roles, changed, audited>>
counter == <<count, file, lagging>>
vars == <<roles, valid, identities, request, changed, audited,
          count, file, failures, overlapped, lagging>>

Roles == {"user", "admin"}

Kinds == {"console", "role", "download"}

Free == [pc |-> "free"]

\* as is the role it was given, saw the roles its user had since it came, late
\* that its token had ended before it came, degraded that the role call failed.
Request == {Free} \cup
    [pc : {"lookup", "fetch", "store", "role", "rejected", "handle", "commit", "audit", "save"},
     token : Tokens, kind : Kinds, target : Users \cup {NoUser}, new : Roles, as : Roles,
     saw : SUBSET Roles, late : BOOLEAN, degraded : BOOLEAN, snapshot : 0 .. MaxEffects]

Identity == [token : Tokens, fresh : BOOLEAN]

TypeOK ==
    /\ roles \in [Users -> Roles]
    /\ valid \subseteq Tokens
    /\ identities \in Seq(Identity) /\ Len(identities) <= CacheMax
    /\ \A i, j \in DOMAIN identities : identities[i].token = identities[j].token => i = j
    /\ request \in [Requests -> Request]
    /\ changed \in 0 .. MaxEffects /\ audited \in 0 .. MaxEffects
    /\ count \in 0 .. MaxEffects /\ file \in 0 .. MaxEffects
    /\ failures \in 0 .. MaxFailures
    /\ overlapped \in BOOLEAN /\ lagging \in BOOLEAN

Init ==
    /\ roles \in {f \in [Users -> Roles] : \E u \in Users : f[u] = "admin"}
    /\ valid = Tokens
    /\ identities = <<>>
    /\ request = [r \in Requests |-> Free]
    /\ changed = 0 /\ audited = 0 /\ count = 0 /\ file = 0 /\ failures = 0
    /\ overlapped = FALSE /\ lagging = FALSE
----------------------------------------------------------------------------
At(r, pc) == request[r].pc = pc

Goto(r, pc) == request' = [request EXCEPT ![r].pc = pc]

Ends(r) == request' = [request EXCEPT ![r] = Free]

User(r) == Owner[request[r].token]

\* get_current_user finds a bearer token.
Receive(r, token, kind, target, new) ==
    /\ At(r, "free")
    /\ request' = [request EXCEPT ![r] =
            [pc |-> "lookup", token |-> token, kind |-> kind, target |-> target, new |-> new,
             as |-> "user", saw |-> {roles[Owner[token]]}, late |-> token \notin valid,
             degraded |-> FALSE, snapshot |-> 0]]
    /\ UNCHANGED <<database, counter, valid, identities, failures, overlapped>>
----------------------------------------------------------------------------
Cached(token) == \E i \in DOMAIN identities : identities[i].token = token /\ identities[i].fresh

\* _cached_identity: a hit spares the call that validates the token.
Lookup(r) ==
    /\ At(r, "lookup")
    /\ Goto(r, IF Cached(request[r].token) THEN "role" ELSE "fetch")
    /\ UNCHANGED <<database, counter, valid, identities, failures, overlapped>>

\* fetch_user at Supabase; a token that is not accepted gets a 401.
FetchUser(r) ==
    /\ At(r, "fetch")
    /\ IF request[r].token \in valid THEN Goto(r, "store") ELSE Ends(r)
    /\ UNCHANGED <<database, counter, valid, identities, failures, overlapped>>

Places(token) == {i \in DOMAIN identities : identities[i].token = token}

Others(token) ==
    IF Places(token) = {} THEN identities
    ELSE RemoveAt(identities, CHOOSE i \in Places(token) : TRUE)

\* The entries still fresh: all live as long, so that the expired ones come first.
Unexpired(s) == SubSeq(s, 1 + Cardinality({i \in DOMAIN s : ~s[i].fresh}), Len(s))

\* _store_identity: at the cap the expired entries go, then the soonest to expire.
Stored(token) ==
    LET fresh == Unexpired(identities)
        kept  == IF Places(token) # {} \/ Len(identities) < CacheMax THEN Others(token)
                 ELSE IF Len(fresh) < CacheMax THEN fresh ELSE Tail(fresh)
    IN  Append(kept, [token |-> token, fresh |-> TRUE])

\* fetch_user's answer is used; the token may have ended since.
StoreIdentity(r) ==
    /\ At(r, "store")
    /\ identities' = Stored(request[r].token)
    /\ Goto(r, "role")
    /\ UNCHANGED <<database, counter, valid, failures, overlapped>>

\* Mutant: a rejected token is a user without a role.
FetchProfileRole_RejectedIsUser(r) ==
    /\ At(r, "role")
    /\ request' = [request EXCEPT ![r] = [@ EXCEPT !.pc = "handle",
            !.as = IF request[r].token \in valid THEN roles[User(r)] ELSE "user"]]
    /\ UNCHANGED <<database, counter, valid, identities, failures, overlapped>>

\* fetch_profile_role at PostgREST, on every request.
FetchProfileRole(r) ==
    /\ At(r, "role")
    /\ request' = IF request[r].token \in valid
         THEN [request EXCEPT ![r] = [@ EXCEPT !.pc = "handle", !.as = roles[User(r)]]]
         ELSE [request EXCEPT ![r].pc = "rejected"]
    /\ UNCHANGED <<database, counter, valid, identities, failures, overlapped>>

\* TokenRejected: the identity is evicted, the answer 401.
RejectToken(r) ==
    /\ At(r, "rejected")
    /\ identities' = Others(request[r].token)
    /\ Ends(r)
    /\ UNCHANGED <<database, counter, valid, failures, overlapped>>

\* The role call fails without a verdict: the request goes on as a plain user.
RoleUnknown(r) ==
    /\ At(r, "role")
    /\ failures < MaxFailures /\ failures' = failures + 1
    /\ request' = [request EXCEPT ![r] = [@ EXCEPT !.pc = "handle", !.degraded = TRUE]]
    /\ UNCHANGED <<database, counter, valid, identities, overlapped>>
----------------------------------------------------------------------------
\* require_admin and the handlers' own refusals: 403 and 400.
Refuse(r) ==
    /\ At(r, "handle")
    /\ \/ request[r].kind # "download" /\ request[r].as # "admin"
       \/ request[r].kind = "role" /\ request[r].target = User(r)
    /\ Ends(r)
    /\ UNCHANGED <<database, counter, valid, identities, failures, overlapped>>

\* A grid of the admin console is read with the service role and answered.
ReadConsole(r) ==
    /\ At(r, "handle") /\ request[r].kind = "console" /\ request[r].as = "admin"
    /\ Ends(r)
    /\ UNCHANGED <<database, counter, valid, identities, failures, overlapped>>

\* Mutant: an admin may change their own role.
SetUserRole_OwnToo(r) ==
    /\ At(r, "handle") /\ request[r].kind = "role" /\ request[r].as = "admin"
    /\ IF request[r].token \in valid /\ roles[User(r)] = "admin"
       THEN Goto(r, "commit") /\ overlapped' = (overlapped \/ \E q \in Requests : At(q, "commit"))
       ELSE Ends(r) /\ UNCHANGED overlapped
    /\ UNCHANGED <<database, counter, valid, identities, failures>>

\* set_user_role: the PATCH runs with the caller's token.  is_admin, in the
\* policy and in the trigger, reads what other transactions have committed; no
\* row matches for one who is no admin there.
SetUserRole(r) ==
    /\ At(r, "handle") /\ request[r].kind = "role" /\ request[r].as = "admin"
    /\ request[r].target # User(r)
    /\ IF request[r].token \in valid /\ roles[User(r)] = "admin"
       THEN Goto(r, "commit") /\ overlapped' = (overlapped \/ \E q \in Requests : At(q, "commit"))
       ELSE Ends(r) /\ UNCHANGED overlapped
    /\ UNCHANGED <<database, counter, valid, identities, failures>>

\* Every request in progress has now been seen with the roles as they are.
Witnessed(rs) ==
    [q \in Requests |-> IF request[q] = Free THEN Free
                        ELSE [request[q] EXCEPT !.saw = @ \cup {rs[User(q)]}]]

Commit(r) ==
    /\ At(r, "commit")
    /\ changed + count < MaxEffects /\ changed' = changed + 1
    /\ roles' = [roles EXCEPT ![request[r].target] = request[r].new]
    /\ request' = [Witnessed(roles') EXCEPT ![r].pc = "audit"]
    /\ UNCHANGED <<counter, valid, identities, audited, failures, overlapped>>

\* record_audit_event, after the change.
Audit(r) ==
    /\ At(r, "audit")
    /\ audited' = audited + 1
    /\ Ends(r)
    /\ UNCHANGED <<counter, valid, identities, roles, changed, failures, overlapped>>

\* Mutant: the snapshot is taken before the increment.
Increment_SnapshotFirst(r) ==
    /\ At(r, "handle") /\ request[r].kind = "download"
    /\ changed + count < MaxEffects /\ count' = count + 1
    /\ request' = [request EXCEPT ![r] = [@ EXCEPT !.pc = "save", !.snapshot = count]]
    /\ lagging' = \E q \in Requests : At(q, "save")
    /\ UNCHANGED <<database, valid, identities, file, failures, overlapped>>

\* increment_download_count: the counter and its snapshot under the lock.
Increment(r) ==
    /\ At(r, "handle") /\ request[r].kind = "download"
    /\ changed + count < MaxEffects /\ count' = count + 1
    /\ request' = [request EXCEPT ![r] = [@ EXCEPT !.pc = "save", !.snapshot = count + 1]]
    /\ lagging' = \E q \in Requests : At(q, "save")
    /\ UNCHANGED <<database, valid, identities, file, failures, overlapped>>

\* _save, outside the lock.
Save(r) ==
    /\ At(r, "save")
    /\ file' = request[r].snapshot
    /\ Ends(r)
    /\ UNCHANGED <<database, valid, identities, count, lagging, failures, overlapped>>
----------------------------------------------------------------------------
\* A call fails or its answer is lost: the request ends, what was done stays.
CallFails(r) ==
    /\ request[r].pc \in {"fetch", "role", "handle", "commit", "audit", "save"}
    /\ failures < MaxFailures /\ failures' = failures + 1
    /\ Ends(r)
    /\ lagging' = (lagging \/ At(r, "save"))
    /\ UNCHANGED <<database, valid, identities, count, file, overlapped>>

\* The process restarts: caches and counters are its memory.
Restart ==
    /\ failures < MaxFailures /\ failures' = failures + 1
    /\ request' = [r \in Requests |-> Free]
    /\ identities' = <<>>
    /\ count' = file /\ lagging' = FALSE
    /\ UNCHANGED <<database, valid, file, overlapped>>

\* A token expires.
TokenEnds(t) ==
    /\ t \in valid /\ valid' = valid \ {t}
    /\ UNCHANGED <<database, counter, identities, request, failures, overlapped>>

\* The time to live of the soonest entry to expire runs out.
IdentityExpires ==
    \E i \in DOMAIN identities :
        /\ identities[i].fresh
        /\ \A j \in 1 .. i - 1 : ~identities[j].fresh
        /\ identities' = [identities EXCEPT ![i].fresh = FALSE]
        /\ UNCHANGED <<database, counter, valid, request, failures, overlapped>>

Comes(r) ==
    \E t \in Tokens, kind \in Kinds :
        IF kind = "role" THEN \E u \in Users, new \in Roles : Receive(r, t, kind, u, new)
        ELSE Receive(r, t, kind, NoUser, "user")

Passes(r) ==
    \/ Comes(r) \/ Lookup(r) \/ FetchUser(r) \/ StoreIdentity(r)
    \/ FetchProfileRole(r) \/ RejectToken(r) \/ RoleUnknown(r)

Handles(r) ==
    \/ Refuse(r) \/ ReadConsole(r) \/ SetUserRole(r) \/ Commit(r) \/ Audit(r)
    \/ Increment(r) \/ Save(r) \/ CallFails(r)

Next ==
    \/ \E r \in Requests : Passes(r) \/ Handles(r)
    \/ Restart \/ IdentityExpires
    \/ \E t \in Tokens : TokenEnds(t)

Spec == Init /\ [][Next]_vars
----------------------------------------------------------------------------
\* What service/auth.py promises of roles, which it never caches: who is served
\* as an admin was one at some moment since the request came; and a token that
\* had ended before its request came reaches no handler, identity cached or not,
\* except as a plain user while the role call fails.
RolesAreLive ==
    \A r \in Requests :
        /\ request[r] # Free /\ request[r].as = "admin" => "admin" \in request[r].saw
        /\ At(r, "handle") /\ request[r].late => request[r].degraded /\ request[r].as = "user"

\* An admin is left, as long as no two role changes were in the database at
\* once: nobody changes their own role, and a demoted admin changes no other.
AdminRemains == ~overlapped => \E u \in Users : roles[u] = "admin"

\* What is recorded is true: the audit log never tells of a change that was not
\* made, and of all of them when no call failed and none is under way; the file is
\* never ahead of the download counter, and agrees with it when no save is under
\* way and the last one met no other.
RecordsAreTrue ==
    /\ audited <= changed
    /\ failures = 0 /\ (\A r \in Requests : ~At(r, "audit")) => audited = changed
    /\ file <= count
    /\ ~lagging /\ (\A r \in Requests : ~At(r, "save")) => file = count
============================================================================
