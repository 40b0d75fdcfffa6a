----------------------------- MODULE GateProofs -----------------------------
(***************************************************************************)
(* Proofs about ApiGate, for any users, tokens, number of requests at once,*)
(* size of the identity cache and bounds.                                  *)
(***************************************************************************)
EXTENDS ApiGate, TLAPS, FiniteSetTheorems, SequenceTheorems

Passing == {"lookup", "fetch", "store", "role", "rejected"}
Pcs == Passing \cup {"handle", "commit", "audit", "save"}

(* What a request knows of its caller: the role its user has now is one it *)
(* has seen, it is no admin before the role call, and its token, once      *)
(* ended, stays ended.                                                     *)
Knows(q) ==
  q # Free =>
    /\ roles[Owner[q.token]] \in q.saw
    /\ q.as = "admin" => "admin" \in q.saw
    /\ q.late => q.token \notin valid
    /\ q.pc \in Passing => q.as = "user"
    /\ q.pc = "handle" /\ q.late => q.degraded /\ q.as = "user"

CallerInv == \A r \in Requests : Knows(request[r])

(* The one role change in the database is of another user than its admin.  *)
ChangeInv ==
  ~overlapped =>
    /\ \E u \in Users : roles[u] = "admin"
    /\ \A r \in Requests : At(r, "commit") => roles[User(r)] = "admin" /\ request[r].target # User(r)
    /\ \A r, q \in Requests : At(r, "commit") /\ At(q, "commit") => r = q

(* Changes made whose audit entry is still to be written.                  *)
Auditing == {r \in Requests : At(r, "audit")}

AuditInv ==
  /\ audited + Cardinality(Auditing) <= changed
  /\ failures = 0 => audited + Cardinality(Auditing) = changed

(* The snapshots under way, and the file.                                  *)
CounterInv ==
  /\ file <= count
  /\ \A r \in Requests : At(r, "save") => request[r].snapshot <= count
  /\ ~lagging =>
       /\ \A r \in Requests : At(r, "save") => request[r].snapshot = count
       /\ \A r, q \in Requests : At(r, "save") /\ At(q, "save") => r = q
       /\ (\A r \in Requests : ~At(r, "save")) => file = count

GateInv == TypeOK /\ CallerInv /\ ChangeInv /\ AuditInv /\ CounterInv
----------------------------------------------------------------------------
(* A request that gets another value, the others as they were.             *)
Becomes(r, n) == request' = [request EXCEPT ![r] = n]

LEMMA BecomesGoes ==
    ASSUME TypeOK, NEW r \in Requests, NEW n \in Request, Becomes(r, n)
    PROVE  /\ request' \in [Requests -> Request]
           /\ request'[r] = n
           /\ \A q \in Requests \ {r} : request'[q] = request[q]
BY DEF TypeOK, Becomes

LEMMA RequestShape ==
    ASSUME NEW q \in Request
    PROVE  /\ q.pc = "free" <=> q = Free
           /\ q.pc \in Pcs \cup {"free"}
           /\ q # Free =>
                /\ q \in [pc : Pcs, token : Tokens, kind : Kinds, target : Users \cup {NoUser},
                          new : Roles, as : Roles, saw : SUBSET Roles, late : BOOLEAN,
                          degraded : BOOLEAN, snapshot : 0 .. MaxEffects]
                /\ q.token \in Tokens /\ Owner[q.token] \in Users
<1>1. Free.pc = "free"
  BY DEF Free
<1>2. CASE q = Free
  BY <1>1, <1>2
<1>3. CASE q # Free
  <2>1. q \in [pc : Pcs, token : Tokens, kind : Kinds, target : Users \cup {NoUser},
               new : Roles, as : Roles, saw : SUBSET Roles, late : BOOLEAN,
               degraded : BOOLEAN, snapshot : 0 .. MaxEffects]
    BY <1>3 DEF Request, Pcs, Passing
  <2>2. q.pc \in Pcs /\ q.token \in Tokens
    BY <2>1
  <2>3. q.pc # "free" /\ Owner[q.token] \in Users
    BY <2>2, GateAssumption DEF Pcs, Passing
  <2> QED
    BY <1>3, <2>1, <2>2, <2>3
<1> QED
  BY <1>2, <1>3

(* The same request further on.                                            *)
LEMMA Further ==
    ASSUME NEW q \in Request, q # Free, NEW pc \in Pcs
    PROVE  LET n == [q EXCEPT !.pc = pc] IN
             /\ n \in Request /\ n # Free /\ n.pc = pc
             /\ n.token = q.token /\ n.target = q.target /\ n.kind = q.kind
             /\ n.as = q.as /\ n.saw = q.saw /\ n.late = q.late
             /\ n.degraded = q.degraded /\ n.snapshot = q.snapshot
<1> DEFINE n == [q EXCEPT !.pc = pc]
<1>1. q \in [pc : Pcs, token : Tokens, kind : Kinds, target : Users \cup {NoUser},
             new : Roles, as : Roles, saw : SUBSET Roles, late : BOOLEAN,
             degraded : BOOLEAN, snapshot : 0 .. MaxEffects]
  BY RequestShape
<1>2. n \in [pc : Pcs, token : Tokens, kind : Kinds, target : Users \cup {NoUser},
             new : Roles, as : Roles, saw : SUBSET Roles, late : BOOLEAN,
             degraded : BOOLEAN, snapshot : 0 .. MaxEffects]
  BY <1>1
<1>3. n \in Request
  BY <1>2 DEF Request, Pcs, Passing
<1>4. /\ n.pc = pc
      /\ n.token = q.token /\ n.target = q.target /\ n.kind = q.kind
      /\ n.as = q.as /\ n.saw = q.saw /\ n.late = q.late
      /\ n.degraded = q.degraded /\ n.snapshot = q.snapshot
  BY <1>1
<1>5. n # Free
  BY <1>4 DEF Free, Pcs, Passing
<1> QED
  BY <1>3, <1>4, <1>5

LEMMA GotoFurther ==
    ASSUME TypeOK, NEW r \in Requests, request[r] # Free, NEW pc \in Pcs, Goto(r, pc)
    PROVE  Becomes(r, [request[r] EXCEPT !.pc = pc])
BY DEF TypeOK, Goto, Becomes

LEMMA EndsFree ==
    ASSUME NEW r \in Requests, Ends(r)
    PROVE  Becomes(r, Free) /\ Free \in Request
BY DEF Ends, Becomes, Request
----------------------------------------------------------------------------
(* The identity cache: no token twice, at most CacheMax entries.           *)
Distinct(s) == \A i, j \in DOMAIN s : s[i].token = s[j].token => i = j

Cache == {s \in Seq(Identity) : Len(s) <= CacheMax /\ Distinct(s)}

LEMMA CacheIsTyped ==
    TypeOK => identities \in Cache
BY DEF TypeOK, Cache, Distinct

LEMMA RemoveAtProperties ==
    ASSUME NEW S, NEW q \in Seq(S), NEW i \in 1 .. Len(q)
    PROVE  /\ RemoveAt(q, i) \in Seq(S)
           /\ Len(RemoveAt(q, i)) = Len(q) - 1
           /\ \A k \in 1 .. Len(q) - 1 : RemoveAt(q, i)[k] = IF k < i THEN q[k] ELSE q[k + 1]
<1> DEFINE a == SubSeq(q, 1, i - 1)
           b == SubSeq(q, i + 1, Len(q))
<1>1. Len(q) \in Nat /\ i \in Nat /\ i >= 1 /\ i <= Len(q)
  BY LenProperties
<1>2. a \in Seq(S) /\ Len(a) = i - 1 /\ \A k \in 1 .. i - 1 : a[k] = q[k]
  <2>1. 1 \in Int /\ i - 1 \in Int /\ \A k \in 1 .. i - 1 : q[k] \in S
    BY <1>1, ElementOfSeq
  <2> QED
    BY <1>1, <2>1, SubSeqProperties
<1>3. b \in Seq(S) /\ Len(b) = Len(q) - i /\ \A k \in 1 .. Len(q) - i : b[k] = q[i + k]
  <2>1. i + 1 \in Int /\ Len(q) \in Int /\ \A k \in i + 1 .. Len(q) : q[k] \in S
    BY <1>1, ElementOfSeq
  <2> QED
    BY <1>1, <2>1, SubSeqProperties
<1> HIDE DEF a, b
<1>4. RemoveAt(q, i) = a \o b
  BY DEF RemoveAt, a, b
<1>5. /\ a \o b \in Seq(S) /\ Len(a \o b) = Len(a) + Len(b)
      /\ \A k \in 1 .. Len(a) + Len(b) : (a \o b)[k] = IF k <= Len(a) THEN a[k] ELSE b[k - Len(a)]
  BY <1>2, <1>3, ConcatProperties
<1>6. ASSUME NEW k \in 1 .. Len(q) - 1
      PROVE  RemoveAt(q, i)[k] = IF k < i THEN q[k] ELSE q[k + 1]
  <2>1. CASE k < i
    BY <1>1, <1>2, <1>3, <1>4, <1>5, <2>1
  <2>2. CASE ~(k < i)
    <3>1. k - (i - 1) \in 1 .. Len(q) - i /\ i + (k - (i - 1)) = k + 1
      BY <1>1, <2>2
    <3>2. (a \o b)[k] = b[k - (i - 1)]
      BY <1>1, <1>2, <1>3, <1>5, <2>2
    <3> QED
      BY <1>3, <1>4, <2>2, <3>1, <3>2
  <2> QED
    BY <2>1, <2>2
<1> QED
  BY <1>1, <1>2, <1>3, <1>4, <1>5, <1>6

(* Without a token's entry, if it has one.                                 *)
LEMMA OthersProperties ==
    ASSUME TypeOK, NEW token
    PROVE  /\ Others(token) \in Cache
           /\ \A i \in DOMAIN Others(token) : Others(token)[i].token # token
           /\ Places(token) # {} => Len(Others(token)) < CacheMax
           /\ Places(token) = {} => Others(token) = identities
<1>1. /\ identities \in Seq(Identity) /\ Len(identities) \in Nat
      /\ Len(identities) <= CacheMax /\ CacheMax \in Nat
      /\ DOMAIN identities = 1 .. Len(identities) /\ Distinct(identities)
  BY CacheIsTyped, LenProperties, GateAssumption DEF Cache
<1>2. CASE Places(token) = {}
  BY <1>1, <1>2, CacheIsTyped DEF Others, Places
<1>3. CASE Places(token) # {}
  <2> DEFINE p == CHOOSE i \in Places(token) : TRUE
             o == RemoveAt(identities, p)
  <2>1. p \in 1 .. Len(identities) /\ identities[p].token = token
    BY <1>1, <1>3 DEF Places
  <2>2. Others(token) = o
    BY <1>3 DEF Others
  <2> HIDE DEF p
  <2>3. /\ o \in Seq(Identity) /\ Len(o) = Len(identities) - 1
        /\ \A k \in 1 .. Len(identities) - 1 : o[k] = IF k < p THEN identities[k] ELSE identities[k + 1]
    BY <1>1, <2>1, RemoveAtProperties
  <2> HIDE DEF o
  <2>4. DOMAIN o = 1 .. Len(identities) - 1
    BY <2>3, LenProperties
  <2>5. ASSUME NEW i \in DOMAIN o, NEW j \in DOMAIN o, o[i].token = o[j].token
        PROVE  i = j
    <3> DEFINE at(k) == IF k < p THEN k ELSE k + 1
    <3>1. /\ at(i) \in DOMAIN identities /\ o[i] = identities[at(i)]
          /\ at(j) \in DOMAIN identities /\ o[j] = identities[at(j)]
      BY <1>1, <2>1, <2>3, <2>4
    <3>2. at(i) = at(j)
      <4> HIDE DEF at
      <4> QED
        BY <1>1, <2>5, <3>1 DEF Distinct
    <3>3. i \in Int /\ j \in Int /\ p \in Int
      BY <1>1, <2>1, <2>4
    <3> QED
      BY <3>2, <3>3
  <2>6. ASSUME NEW i \in DOMAIN o
        PROVE  o[i].token # token
    BY <1>1, <2>1, <2>3, <2>4 DEF Distinct
  <2>7. Len(o) <= CacheMax /\ Len(o) < CacheMax
    BY <1>1, <2>3
  <2> QED
    BY <1>3, <2>2, <2>3, <2>5, <2>6, <2>7 DEF Cache, Distinct
<1> QED
  BY <1>2, <1>3

(* A suffix of the cache.                                                  *)
LEMMA SuffixProperties ==
    ASSUME NEW s \in Cache, NEW m \in 1 .. Len(s) + 1
    PROVE  /\ SubSeq(s, m, Len(s)) \in Cache
           /\ Len(SubSeq(s, m, Len(s))) = Len(s) - m + 1
           /\ \A i \in DOMAIN SubSeq(s, m, Len(s)) :
                m + i - 1 \in DOMAIN s /\ SubSeq(s, m, Len(s))[i] = s[m + i - 1]
<1> DEFINE t == SubSeq(s, m, Len(s))
<1>1. /\ s \in Seq(Identity) /\ Len(s) \in Nat /\ Len(s) <= CacheMax /\ CacheMax \in Nat
      /\ DOMAIN s = 1 .. Len(s) /\ Distinct(s)
  BY LenProperties, GateAssumption DEF Cache
<1>2. t \in Seq(Identity) /\ Len(t) = Len(s) - m + 1 /\ \A k \in 1 .. Len(s) - m + 1 : t[k] = s[m + k - 1]
  <2>1. m \in Int /\ Len(s) \in Int /\ \A k \in m .. Len(s) : s[k] \in Identity
    BY <1>1, ElementOfSeq
  <2>2. CASE m <= Len(s)
    BY <1>1, <2>1, <2>2, SubSeqProperties
  <2>3. CASE m = Len(s) + 1
    BY <1>1, <2>1, <2>3, SubSeqProperties
  <2> QED
    BY <1>1, <2>2, <2>3
<1> HIDE DEF t
<1>3. DOMAIN t = 1 .. Len(s) - m + 1
  BY <1>2, LenProperties
<1>4. ASSUME NEW i \in DOMAIN t
      PROVE  m + i - 1 \in DOMAIN s /\ t[i] = s[m + i - 1]
  BY <1>1, <1>2, <1>3
<1>5. ASSUME NEW i \in DOMAIN t, NEW j \in DOMAIN t, t[i].token = t[j].token
      PROVE  i = j
  BY <1>1, <1>3, <1>4, <1>5 DEF Distinct
<1>6. Len(t) <= CacheMax
  BY <1>1, <1>2
<1>7. t \in Cache
  BY <1>2, <1>5, <1>6 DEF Cache, Distinct
<1>8. t = SubSeq(s, m, Len(s))
  BY DEF t
<1> QED
  BY <1>2, <1>4, <1>7, <1>8

LEMMA StoredProperties ==
    ASSUME TypeOK, NEW token \in Tokens
    PROVE  Stored(token) \in Cache
<1> DEFINE Kept(k) == k \in Cache /\ Len(k) < CacheMax /\ \A i \in DOMAIN k : k[i].token # token
           e == [token |-> token, fresh |-> TRUE]
           stale == {i \in DOMAIN identities : ~identities[i].fresh}
           rest == Unexpired(identities)
<1>1. /\ identities \in Cache /\ Len(identities) \in Nat /\ Len(identities) <= CacheMax
      /\ CacheMax \in Nat \ {0} /\ DOMAIN identities = 1 .. Len(identities)
  BY CacheIsTyped, LenProperties, GateAssumption DEF Cache
<1>2. e \in Identity
  BY DEF Identity
<1>3. ASSUME NEW k, Kept(k)
      PROVE  Append(k, e) \in Cache
  <2> HIDE DEF e
  <2>1. k \in Seq(Identity) /\ Len(k) \in Nat /\ DOMAIN k = 1 .. Len(k) /\ Distinct(k)
    BY <1>3, LenProperties DEF Cache
  <2>2. /\ Append(k, e) \in Seq(Identity) /\ Len(Append(k, e)) = Len(k) + 1
        /\ Append(k, e)[Len(k) + 1] = e /\ \A i \in 1 .. Len(k) : Append(k, e)[i] = k[i]
    BY <1>2, <2>1, AppendProperties
  <2>3. DOMAIN Append(k, e) = 1 .. Len(k) + 1
    BY <2>2, LenProperties
  <2>4. e.token = token
    BY DEF e
  <2>5. ASSUME NEW i \in DOMAIN Append(k, e), NEW j \in DOMAIN Append(k, e),
               Append(k, e)[i].token = Append(k, e)[j].token
        PROVE  i = j
    <3>1. (i \in 1 .. Len(k) \/ i = Len(k) + 1) /\ (j \in 1 .. Len(k) \/ j = Len(k) + 1)
      BY <2>1, <2>3
    <3> QED
      BY <1>3, <2>1, <2>2, <2>4, <2>5, <3>1 DEF Distinct
  <2>6. Len(Append(k, e)) <= CacheMax
    BY <1>1, <1>3, <2>1, <2>2
  <2> QED
    BY <2>2, <2>5, <2>6 DEF Cache, Distinct
<1>4. CASE Places(token) # {} \/ Len(identities) < CacheMax
  <2>1. Kept(Others(token))
    BY <1>1, <1>4, OthersProperties
  <2>2. Stored(token) = Append(Others(token), e)
    BY <1>4 DEF Stored
  <2> QED
    BY <1>3, <2>1, <2>2
<1>5. CASE ~(Places(token) # {} \/ Len(identities) < CacheMax)
  <2>1. \A i \in DOMAIN identities : identities[i].token # token
    BY <1>5 DEF Places
  <2>2. Cardinality(stale) \in Nat /\ Cardinality(stale) <= Len(identities)
    <3>1. IsFiniteSet(1 .. Len(identities)) /\ Cardinality(1 .. Len(identities)) = Len(identities)
      <4>1. 1 \in Int /\ Len(identities) \in Int
        BY <1>1
      <4>2. /\ IsFiniteSet(1 .. Len(identities))
            /\ Cardinality(1 .. Len(identities)) = IF 1 > Len(identities) THEN 0 ELSE Len(identities) - 1 + 1
        BY <4>1, FS_Interval, Zenon
      <4> QED
        BY <1>1, <4>2
    <3>2. stale \subseteq 1 .. Len(identities)
      BY <1>1
    <3> QED
      BY <3>1, <3>2, FS_Subset, FS_CardinalityType
  <2>3. rest = SubSeq(identities, 1 + Cardinality(stale), Len(identities))
    BY DEF Unexpired
  <2> HIDE DEF stale, rest
  <2>4. 1 + Cardinality(stale) \in 1 .. Len(identities) + 1
    BY <1>1, <2>2
  <2>5. /\ rest \in Cache /\ Len(rest) <= CacheMax /\ Len(rest) \in Nat
        /\ \A i \in DOMAIN rest : rest[i].token # token
    <3>1. rest \in Cache
      BY <1>1, <2>3, <2>4, SuffixProperties
    <3>2. \A i \in DOMAIN rest : \E j \in DOMAIN identities : rest[i] = identities[j]
      BY <1>1, <2>3, <2>4, SuffixProperties
    <3> QED
      BY <2>1, <3>1, <3>2, LenProperties DEF Cache
  <2>6. CASE Len(rest) < CacheMax
    <3>1. Stored(token) = Append(rest, e)
      BY <1>5, <2>6 DEF Stored, rest
    <3> QED
      BY <1>3, <2>5, <2>6, <3>1
  <2>7. CASE ~(Len(rest) < CacheMax)
    <3>1. Stored(token) = Append(Tail(rest), e)
      BY <1>5, <2>7 DEF Stored, rest
    <3>2. Len(rest) = CacheMax /\ 2 \in 1 .. Len(rest) + 1
      BY <1>1, <2>5, <2>7
    <3>3. rest \in Seq(Identity) /\ rest # <<>>
      BY <1>1, <2>5, <3>2, EmptySeq DEF Cache
    <3>4. Tail(rest) = SubSeq(rest, 2, Len(rest))
      BY <3>3, TailIsSubSeq
    <3>5. /\ Tail(rest) \in Cache /\ Len(Tail(rest)) = Len(rest) - 2 + 1
          /\ \A i \in DOMAIN Tail(rest) : \E j \in DOMAIN rest : Tail(rest)[i] = rest[j]
      BY <2>5, <3>2, <3>4, SuffixProperties
    <3>6. Kept(Tail(rest))
      BY <1>1, <2>5, <3>2, <3>5
    <3> QED
      BY <1>3, <3>1, <3>6
  <2> QED
    BY <2>6, <2>7
<1> QED
  BY <1>4, <1>5

LEMMA IdentityExpiresKeepsCache ==
    ASSUME TypeOK, IdentityExpires
    PROVE  identities' \in Cache
<1>1. PICK i \in DOMAIN identities : identities' = [identities EXCEPT ![i].fresh = FALSE]
  BY DEF IdentityExpires
<1>2. /\ identities \in Seq(Identity) /\ Len(identities) <= CacheMax /\ Distinct(identities)
      /\ identities[i] \in Identity /\ i \in 1 .. Len(identities)
  BY <1>1, CacheIsTyped, LenProperties, ElementOfSeq DEF Cache
<1> DEFINE e == [identities[i] EXCEPT !.fresh = FALSE]
<1>3. e \in Identity /\ e.token = identities[i].token
  BY <1>2 DEF Identity
<1> HIDE DEF e
<1>4. identities' = [identities EXCEPT ![i] = e]
  BY <1>1 DEF e
<1>5. /\ identities' \in Seq(Identity) /\ Len(identities') = Len(identities)
      /\ \A j \in 1 .. Len(identities) : identities'[j] = IF j = i THEN e ELSE identities[j]
  BY <1>2, <1>3, <1>4, ExceptSeq
<1>6. DOMAIN identities' = 1 .. Len(identities) /\ DOMAIN identities = 1 .. Len(identities)
  BY <1>2, <1>5, LenProperties
<1>7. \A j \in DOMAIN identities' : identities'[j].token = identities[j].token
  BY <1>3, <1>5, <1>6
<1>8. Distinct(identities')
  BY <1>2, <1>6, <1>7 DEF Distinct
<1> QED
  BY <1>2, <1>5, <1>8 DEF Cache
----------------------------------------------------------------------------
(* A step of request r that leaves it as n.                                *)
Steps(r, n) ==
  /\ n \in Request
  /\ request' \in [Requests -> Request]
  /\ request'[r] = n
  /\ \A q \in Requests \ {r} : request'[q] = request[q]

LEMMA BecomesSteps ==
    ASSUME TypeOK, NEW r \in Requests, NEW n \in Request, Becomes(r, n)
    PROVE  Steps(r, n)
BY BecomesGoes DEF Steps

LEMMA GotoSteps ==
    ASSUME TypeOK, NEW r \in Requests, request[r] # Free, NEW pc \in Pcs, Goto(r, pc)
    PROVE  \E n \in Request :
             /\ Steps(r, n) /\ n # Free /\ n.pc = pc
             /\ n.token = request[r].token /\ n.target = request[r].target
             /\ n.as = request[r].as /\ n.saw = request[r].saw /\ n.late = request[r].late
             /\ n.degraded = request[r].degraded /\ n.snapshot = request[r].snapshot
<1>1. request[r] \in Request
  BY DEF TypeOK
<1> DEFINE n == [request[r] EXCEPT !.pc = pc]
<1>2. n \in Request /\ Becomes(r, n)
  BY <1>1, Further, GotoFurther
<1>3. Steps(r, n)
  BY <1>2, BecomesSteps
<1> QED
  BY <1>1, <1>2, <1>3, Further

LEMMA EndsSteps ==
    ASSUME TypeOK, NEW r \in Requests, Ends(r)
    PROVE  Steps(r, Free)
BY EndsFree, BecomesSteps

(* A request given its role, or kept a plain user.                         *)
LEMMA RoleSteps ==
    ASSUME TypeOK, NEW r \in Requests, At(r, "role"), NEW as \in Roles, NEW degraded \in BOOLEAN,
           Becomes(r, [request[r] EXCEPT !.pc = "handle", !.as = as, !.degraded = degraded])
    PROVE  \E n \in Request :
             /\ Steps(r, n) /\ n # Free /\ n.pc = "handle" /\ n.token = request[r].token
             /\ n.as = as /\ n.saw = request[r].saw /\ n.late = request[r].late /\ n.degraded = degraded
<1> DEFINE n == [request[r] EXCEPT !.pc = "handle", !.as = as, !.degraded = degraded]
<1>1. request[r] \in Request /\ request[r] # Free
  BY DEF TypeOK, At, Free
<1>2. request[r] \in [pc : Pcs, token : Tokens, kind : Kinds, target : Users \cup {NoUser},
                      new : Roles, as : Roles, saw : SUBSET Roles, late : BOOLEAN,
                      degraded : BOOLEAN, snapshot : 0 .. MaxEffects]
  BY <1>1, RequestShape
<1>3. "handle" \in Pcs
  BY DEF Pcs
<1>4. n \in [pc : Pcs, token : Tokens, kind : Kinds, target : Users \cup {NoUser},
             new : Roles, as : Roles, saw : SUBSET Roles, late : BOOLEAN,
             degraded : BOOLEAN, snapshot : 0 .. MaxEffects]
  BY <1>2, <1>3
<1>5. n \in Request
  BY <1>4 DEF Request, Pcs, Passing
<1>6. /\ n.pc = "handle" /\ n.token = request[r].token /\ n.as = as /\ n.saw = request[r].saw
      /\ n.late = request[r].late /\ n.degraded = degraded
  BY <1>2
<1>7. n # Free
  BY <1>6 DEF Free
<1>8. Steps(r, n)
  BY <1>5, BecomesSteps
<1> QED
  BY <1>5, <1>6, <1>7, <1>8

LEMMA FetchRoleSteps ==
    ASSUME TypeOK, NEW r \in Requests, FetchProfileRole(r)
    PROVE  \E n \in Request :
             /\ Steps(r, n) /\ n # Free /\ n.token = request[r].token
             /\ n.saw = request[r].saw /\ n.late = request[r].late
             /\ \/ n.pc = "rejected" /\ n.as = request[r].as
                \/ n.pc = "handle" /\ n.as = roles[User(r)] /\ request[r].token \in valid
<1>1. request[r] \in Request /\ request[r] # Free /\ At(r, "role")
  BY DEF TypeOK, FetchProfileRole, At, Free
<1>2. request[r] \in [pc : Pcs, token : Tokens, kind : Kinds, target : Users \cup {NoUser},
                      new : Roles, as : Roles, saw : SUBSET Roles, late : BOOLEAN,
                      degraded : BOOLEAN, snapshot : 0 .. MaxEffects]
      /\ User(r) \in Users
  BY <1>1, RequestShape DEF User
<1>3. CASE request[r].token \in valid
  <2> DEFINE as == roles[User(r)]
             degraded == request[r].degraded
  <2>1. as \in Roles
    BY <1>2 DEF TypeOK
  <2>2. request' = [request EXCEPT ![r] = [request[r] EXCEPT !.pc = "handle", !.as = as]]
    BY <1>3 DEF FetchProfileRole, TypeOK
  <2>3. degraded \in BOOLEAN
    BY <1>2
  <2>4. [request[r] EXCEPT !.pc = "handle", !.as = as] =
          [request[r] EXCEPT !.pc = "handle", !.as = as, !.degraded = degraded]
    BY <1>2
  <2> HIDE DEF as, degraded
  <2>5. Becomes(r, [request[r] EXCEPT !.pc = "handle", !.as = as, !.degraded = degraded])
    BY <2>2, <2>4 DEF Becomes
  <2>6. PICK n \in Request :
             /\ Steps(r, n) /\ n # Free /\ n.pc = "handle" /\ n.token = request[r].token
             /\ n.as = as /\ n.saw = request[r].saw /\ n.late = request[r].late
             /\ n.degraded = degraded
    BY <1>1, <2>1, <2>3, <2>5, RoleSteps, ZenonT(60)
  <2> QED
    BY <1>3, <2>6 DEF as
<1>4. CASE request[r].token \notin valid
  <2>1. Goto(r, "rejected") /\ "rejected" \in Pcs
    BY <1>4 DEF FetchProfileRole, Goto, Pcs, Passing
  <2>2. PICK n \in Request :
             /\ Steps(r, n) /\ n # Free /\ n.pc = "rejected" /\ n.token = request[r].token
             /\ n.as = request[r].as /\ n.saw = request[r].saw /\ n.late = request[r].late
    BY <1>1, <2>1, GotoSteps
  <2> QED
    BY <2>2
<1> QED
  BY <1>3, <1>4

LEMMA UnknownRoleSteps ==
    ASSUME TypeOK, NEW r \in Requests, RoleUnknown(r)
    PROVE  \E n \in Request :
             /\ Steps(r, n) /\ n # Free /\ n.pc = "handle" /\ n.token = request[r].token
             /\ n.as = request[r].as /\ n.saw = request[r].saw /\ n.late = request[r].late /\ n.degraded
<1>1. request[r] \in Request /\ request[r] # Free /\ At(r, "role")
  BY DEF TypeOK, RoleUnknown, At, Free
<1>2. request[r] \in [pc : Pcs, token : Tokens, kind : Kinds, target : Users \cup {NoUser},
                      new : Roles, as : Roles, saw : SUBSET Roles, late : BOOLEAN,
                      degraded : BOOLEAN, snapshot : 0 .. MaxEffects]
  BY <1>1, RequestShape
<1>3. request' = [request EXCEPT ![r] = [request[r] EXCEPT !.pc = "handle", !.degraded = TRUE]]
  BY DEF RoleUnknown, TypeOK
<1>4. request[r].as \in Roles
  BY <1>2
<1>5. [request[r] EXCEPT !.pc = "handle", !.degraded = TRUE] =
        [request[r] EXCEPT !.pc = "handle", !.as = request[r].as, !.degraded = TRUE]
  BY <1>2
<1>6. Becomes(r, [request[r] EXCEPT !.pc = "handle", !.as = request[r].as, !.degraded = TRUE])
  BY <1>3, <1>5 DEF Becomes
<1>7. PICK n \in Request :
             /\ Steps(r, n) /\ n # Free /\ n.pc = "handle" /\ n.token = request[r].token
             /\ n.as = request[r].as /\ n.saw = request[r].saw /\ n.late = request[r].late /\ n.degraded = TRUE
  BY <1>1, <1>4, <1>6, RoleSteps
<1> QED
  BY <1>7

LEMMA IncrementSteps ==
    ASSUME TypeOK, NEW r \in Requests, Increment(r)
    PROVE  \E n \in Request :
             /\ Steps(r, n) /\ n # Free /\ n.pc = "save" /\ n.snapshot = count + 1
             /\ n.token = request[r].token /\ n.as = request[r].as /\ n.saw = request[r].saw
             /\ n.late = request[r].late
<1>1. request[r] \in Request /\ request[r] # Free
  BY DEF TypeOK, Increment, At, Free
<1>2. request[r] \in [pc : Pcs, token : Tokens, kind : Kinds, target : Users \cup {NoUser},
                      new : Roles, as : Roles, saw : SUBSET Roles, late : BOOLEAN,
                      degraded : BOOLEAN, snapshot : 0 .. MaxEffects]
  BY <1>1, RequestShape
<1> DEFINE n == [request[r] EXCEPT !.pc = "save", !.snapshot = count + 1]
<1>3. request' = [request EXCEPT ![r] = n]
  BY DEF Increment, TypeOK
<1>4. "save" \in Pcs /\ count + 1 \in 0 .. MaxEffects
  BY GateAssumption DEF Pcs, TypeOK, Increment
<1>5. n \in [pc : Pcs, token : Tokens, kind : Kinds, target : Users \cup {NoUser},
             new : Roles, as : Roles, saw : SUBSET Roles, late : BOOLEAN,
             degraded : BOOLEAN, snapshot : 0 .. MaxEffects]
  BY <1>2, <1>4
<1>6. n \in Request
  BY <1>5 DEF Request, Pcs, Passing
<1>7. /\ n.pc = "save" /\ n.snapshot = count + 1 /\ n.token = request[r].token
      /\ n.as = request[r].as /\ n.saw = request[r].saw /\ n.late = request[r].late
  BY <1>2
<1>8. n # Free
  BY <1>7 DEF Free
<1> HIDE DEF n
<1>9. Becomes(r, n)
  BY <1>3 DEF Becomes
<1>10. Steps(r, n)
  BY <1>6, <1>9, BecomesSteps
<1> QED
  BY <1>6, <1>7, <1>8, <1>10

(* Everyone sees the new roles; the one who changed them goes to its audit.*)
LEMMA CommitSteps ==
    ASSUME TypeOK, NEW r \in Requests, Commit(r)
    PROVE  /\ request' \in [Requests -> Request]
           /\ roles' \in [Users -> Roles]
           /\ \A q \in Requests :
                /\ request[q] = Free <=> request'[q] = Free
                /\ request'[q].pc = IF q = r THEN "audit" ELSE request[q].pc
                /\ request[q] # Free =>
                     /\ request'[q].token = request[q].token /\ request'[q].target = request[q].target
                     /\ request'[q].as = request[q].as /\ request'[q].late = request[q].late
                     /\ request'[q].degraded = request[q].degraded
                     /\ request'[q].snapshot = request[q].snapshot
                     /\ request'[q].saw = request[q].saw \cup {roles'[User(q)]}
<1> DEFINE Full == [pc : Pcs, token : Tokens, kind : Kinds, target : Users \cup {NoUser},
                    new : Roles, as : Roles, saw : SUBSET Roles, late : BOOLEAN,
                    degraded : BOOLEAN, snapshot : 0 .. MaxEffects]
           w == Witnessed(roles')
<1>1. request[r] \in Request /\ request[r] # Free
  BY DEF TypeOK, Commit, At, Free
<1>2. roles' \in [Users -> Roles]
  <2>1. request[r].new \in Roles
    BY <1>1, RequestShape
  <2> QED
    BY <2>1 DEF TypeOK, Commit
<1>3. ASSUME NEW q \in Requests
      PROVE  /\ request[q] = Free => w[q] = Free
             /\ request[q] # Free =>
                  /\ request[q] \in Full /\ w[q] \in Full
                  /\ w[q] = [request[q] EXCEPT !.saw = request[q].saw \cup {roles'[User(q)]}]
  <2>1. w[q] = IF request[q] = Free THEN Free
               ELSE [request[q] EXCEPT !.saw = @ \cup {roles'[User(q)]}]
    BY DEF Witnessed
  <2>2. CASE request[q] # Free
    <3>1. request[q] \in Full /\ User(q) \in Users
      BY <2>2, RequestShape DEF TypeOK, User
    <3>2. roles'[User(q)] \in Roles
      BY <1>2, <3>1
    <3>3. request[q].saw \cup {roles'[User(q)]} \in SUBSET Roles
      BY <3>1, <3>2
    <3>4. w[q] = [request[q] EXCEPT !.saw = request[q].saw \cup {roles'[User(q)]}]
      BY <2>1, <2>2
    <3> QED
      BY <2>2, <3>1, <3>3, <3>4
  <2> QED
    BY <2>1, <2>2
<1>4. DOMAIN w = Requests
  BY DEF Witnessed
<1>5. request' = [w EXCEPT ![r] = [w[r] EXCEPT !.pc = "audit"]]
  BY <1>4 DEF Commit
<1>6. "audit" \in Pcs
  BY DEF Pcs
<1> HIDE DEF w
<1>7. request'[r] = [w[r] EXCEPT !.pc = "audit"] /\ \A q \in Requests \ {r} : request'[q] = w[q]
  BY <1>4, <1>5
<1>8. ASSUME NEW q \in Requests
      PROVE  /\ request'[q] \in Full \cup {Free}
             /\ request[q] = Free <=> request'[q] = Free
             /\ request'[q].pc = IF q = r THEN "audit" ELSE request[q].pc
             /\ request[q] # Free =>
                  /\ request'[q].token = request[q].token /\ request'[q].target = request[q].target
                  /\ request'[q].as = request[q].as /\ request'[q].late = request[q].late
                  /\ request'[q].degraded = request[q].degraded
                  /\ request'[q].snapshot = request[q].snapshot
                  /\ request'[q].saw = request[q].saw \cup {roles'[User(q)]}
  <2>1. CASE request[q] = Free
    <3>1. q # r /\ w[q] = Free
      BY <1>1, <1>3, <2>1
    <3> QED
      BY <1>7, <2>1, <3>1
  <2>2. CASE request[q] # Free
    <3>1. request[q] \in Full /\ w[q] \in Full
      BY <1>3, <2>2
    <3>2. /\ w[q].pc = request[q].pc /\ w[q].token = request[q].token /\ w[q].target = request[q].target
          /\ w[q].as = request[q].as /\ w[q].late = request[q].late
          /\ w[q].degraded = request[q].degraded /\ w[q].snapshot = request[q].snapshot
          /\ w[q].saw = request[q].saw \cup {roles'[User(q)]}
      BY <1>3, <2>2, <3>1
    <3>3. CASE q = r
      BY <1>6, <1>7, <2>2, <3>1, <3>2, <3>3 DEF Free
    <3>4. CASE q # r
      <4>1. request'[q] = w[q]
        BY <1>7, <3>4
      <4>2. w[q] # Free
        BY <3>1 DEF Free, Pcs, Passing
      <4> QED
        BY <2>2, <3>1, <3>2, <3>4, <4>1, <4>2
    <3> QED
      BY <3>3, <3>4
  <2> QED
    BY <2>1, <2>2
<1>9. Full \cup {Free} = Request
  BY DEF Request, Pcs, Passing
<1>10. request' \in [Requests -> Request]
  <2>1. request' = [q \in Requests |-> request'[q]]
    BY <1>4, <1>5
  <2> QED
    BY <1>8, <1>9, <2>1
<1> QED
  BY <1>2, <1>8, <1>10
----------------------------------------------------------------------------
(* The steps before a handler has an effect: of one request, whose new     *)
(* value is neither a role change, an audit nor a save, and still knows    *)
(* its caller.                                                             *)
Quiet(r) == Passes(r) \/ Refuse(r) \/ ReadConsole(r)

LEMMA QuietSteps ==
    ASSUME TypeOK, CallerInv, NEW r \in Requests, Quiet(r)
    PROVE  /\ \E n \in Request : Steps(r, n) /\ n.pc \notin {"commit", "audit", "save"} /\ Knows(n)
           /\ request[r].pc \notin {"commit", "audit", "save"}
           /\ roles' = roles /\ changed' = changed /\ audited' = audited
           /\ count' = count /\ file' = file /\ lagging' = lagging
           /\ valid' = valid /\ overlapped' = overlapped
           /\ failures' \in {failures, failures + 1} /\ failures' \in 0 .. MaxFailures
           /\ identities' \in Cache
<1>1. identities \in Cache /\ Knows(request[r]) /\ failures \in 0 .. MaxFailures
  BY CacheIsTyped DEF CallerInv, TypeOK
<1>2. request[r] \in Request
  BY DEF TypeOK
<1>3. Knows(Free)
  BY DEF Knows
<1>4. CASE Comes(r)
  <2>1. PICK t \in Tokens, kind \in Kinds, target \in Users \cup {NoUser}, new \in Roles :
          Receive(r, t, kind, target, new)
    BY <1>4 DEF Comes, Roles
  <2> DEFINE n == [pc |-> "lookup", token |-> t, kind |-> kind, target |-> target, new |-> new,
                   as |-> "user", saw |-> {roles[Owner[t]]}, late |-> t \notin valid,
                   degraded |-> FALSE, snapshot |-> 0]
  <2>2. Becomes(r, n)
    BY <2>1 DEF Receive, Becomes
  <2>3. roles[Owner[t]] \in Roles /\ 0 \in 0 .. MaxEffects
    BY GateAssumption DEF TypeOK
  <2>4. n \in Request
    BY <2>3 DEF Request, Roles
  <2>5. /\ n.pc = "lookup" /\ n.token = t /\ n.as = "user" /\ n.saw = {roles[Owner[t]]}
        /\ n.late = (t \notin valid)
    OBVIOUS
  <2> HIDE DEF n
  <2>6. Knows(n)
    BY <2>5 DEF Knows
  <2>7. Steps(r, n)
    BY <2>2, <2>4, BecomesSteps
  <2> QED
    BY <1>1, <2>1, <2>4, <2>5, <2>6, <2>7 DEF Receive, At, database, counter
<1>5. CASE Lookup(r)
  <2>1. request[r].pc = "lookup" /\ request[r] # Free
    BY <1>5 DEF Lookup, At, Free
  <2>2. PICK pc \in {"role", "fetch"} : Goto(r, pc)
    BY <1>5 DEF Lookup
  <2>3. pc \in Pcs /\ pc \in Passing
    BY DEF Pcs, Passing
  <2>4. PICK n \in Request :
          /\ Steps(r, n) /\ n # Free /\ n.pc = pc /\ n.token = request[r].token
          /\ n.as = request[r].as /\ n.saw = request[r].saw /\ n.late = request[r].late
    BY <2>1, <2>2, <2>3, GotoSteps
  <2>5. Knows(n)
    BY <1>1, <2>1, <2>3, <2>4 DEF Knows, Passing
  <2> QED
    BY <1>1, <1>5, <2>1, <2>4, <2>5 DEF Lookup, database, counter
<1>6. CASE FetchUser(r)
  <2>1. request[r].pc = "fetch" /\ request[r] # Free
    BY <1>6 DEF FetchUser, At, Free
  <2>2. CASE Goto(r, "store")
    <3>1. "store" \in Pcs /\ "store" \in Passing
      BY DEF Pcs, Passing
    <3>2. PICK n \in Request :
            /\ Steps(r, n) /\ n # Free /\ n.pc = "store" /\ n.token = request[r].token
            /\ n.as = request[r].as /\ n.saw = request[r].saw /\ n.late = request[r].late
      BY <2>1, <2>2, <3>1, GotoSteps
    <3>3. Knows(n)
      BY <1>1, <2>1, <3>1, <3>2 DEF Knows, Passing
    <3> QED
      BY <1>1, <1>6, <2>1, <3>2, <3>3 DEF FetchUser, database, counter
  <2>3. CASE Ends(r)
    <3>1. Steps(r, Free) /\ Free \in Request /\ Free.pc = "free"
      BY <2>3, EndsSteps, EndsFree DEF Free
    <3> QED
      BY <1>1, <1>3, <1>6, <2>1, <3>1 DEF FetchUser, database, counter
  <2> QED
    BY <1>6, <2>2, <2>3 DEF FetchUser
<1>7. CASE StoreIdentity(r)
  <2>1. request[r].pc = "store" /\ request[r] # Free /\ Goto(r, "role")
    BY <1>7 DEF StoreIdentity, At, Free
  <2>2. "role" \in Pcs /\ "role" \in Passing
    BY DEF Pcs, Passing
  <2>3. PICK n \in Request :
          /\ Steps(r, n) /\ n # Free /\ n.pc = "role" /\ n.token = request[r].token
          /\ n.as = request[r].as /\ n.saw = request[r].saw /\ n.late = request[r].late
    BY <2>1, <2>2, GotoSteps
  <2>4. Knows(n)
    BY <1>1, <2>1, <2>2, <2>3 DEF Knows, Passing
  <2>5. identities' \in Cache
    BY <1>2, <1>7, <2>1, RequestShape, StoredProperties DEF StoreIdentity
  <2> QED
    BY <1>1, <1>7, <2>1, <2>3, <2>4, <2>5 DEF StoreIdentity, database, counter
<1>8. CASE FetchProfileRole(r)
  <2>1. request[r].pc = "role" /\ request[r] # Free
    BY <1>8 DEF FetchProfileRole, At, Free
  <2>2. PICK n \in Request :
             /\ Steps(r, n) /\ n # Free /\ n.token = request[r].token
             /\ n.saw = request[r].saw /\ n.late = request[r].late
             /\ \/ n.pc = "rejected" /\ n.as = request[r].as
                \/ n.pc = "handle" /\ n.as = roles[User(r)] /\ request[r].token \in valid
    BY <1>8, FetchRoleSteps
  <2>3. Knows(n)
    BY <1>1, <2>1, <2>2 DEF Knows, Passing, User
  <2> QED
    BY <1>1, <1>8, <2>1, <2>2, <2>3 DEF FetchProfileRole, database, counter
<1>9. CASE RejectToken(r)
  <2>1. request[r].pc = "rejected" /\ Ends(r)
    BY <1>9 DEF RejectToken, At
  <2>2. Steps(r, Free) /\ Free \in Request /\ Free.pc = "free"
    BY <2>1, EndsSteps, EndsFree DEF Free
  <2>3. identities' \in Cache
    BY <1>9, OthersProperties DEF RejectToken
  <2> QED
    BY <1>1, <1>3, <1>9, <2>1, <2>2, <2>3 DEF RejectToken, database, counter
<1>10. CASE RoleUnknown(r)
  <2>1. request[r].pc = "role" /\ request[r] # Free
    BY <1>10 DEF RoleUnknown, At, Free
  <2>2. PICK n \in Request :
             /\ Steps(r, n) /\ n # Free /\ n.pc = "handle" /\ n.token = request[r].token
             /\ n.as = request[r].as /\ n.saw = request[r].saw /\ n.late = request[r].late /\ n.degraded
    BY <1>10, UnknownRoleSteps
  <2>3. Knows(n)
    BY <1>1, <2>1, <2>2 DEF Knows, Passing
  <2>4. failures' = failures + 1 /\ failures' \in 0 .. MaxFailures
    BY <1>1, <1>10, GateAssumption DEF RoleUnknown
  <2> QED
    BY <1>1, <1>10, <2>1, <2>2, <2>3, <2>4 DEF RoleUnknown, database, counter
<1>11. CASE Refuse(r)
  <2>1. request[r].pc = "handle" /\ Ends(r)
    BY <1>11 DEF Refuse, At
  <2>2. Steps(r, Free) /\ Free \in Request /\ Free.pc = "free"
    BY <2>1, EndsSteps, EndsFree DEF Free
  <2> QED
    BY <1>1, <1>3, <1>11, <2>1, <2>2 DEF Refuse, database, counter
<1>12. CASE ReadConsole(r)
  <2>1. request[r].pc = "handle" /\ Ends(r)
    BY <1>12 DEF ReadConsole, At
  <2>2. Steps(r, Free) /\ Free \in Request /\ Free.pc = "free"
    BY <2>1, EndsSteps, EndsFree DEF Free
  <2> QED
    BY <1>1, <1>3, <1>12, <2>1, <2>2 DEF ReadConsole, database, counter
<1> QED
  BY <1>4, <1>5, <1>6, <1>7, <1>8, <1>9, <1>10, <1>11, <1>12 DEF Quiet, Passes
----------------------------------------------------------------------------
(* What a step of one request keeps when it does not touch it.             *)
LEMMA CallerKept ==
    ASSUME CallerInv, NEW r \in Requests, NEW n \in Request, Steps(r, n), Knows(n),
           roles' = roles, valid' \subseteq valid
    PROVE  CallerInv'
<1> SUFFICES ASSUME NEW q \in Requests PROVE Knows(request[q])'
  BY DEF CallerInv
<1>1. Knows(request'[q])
  BY DEF Steps, CallerInv
<1> QED
  BY <1>1 DEF Knows

LEMMA ChangeKept ==
    ASSUME ChangeInv, NEW r \in Requests, NEW n \in Request, Steps(r, n), n.pc # "commit",
           roles' = roles, overlapped' = overlapped
    PROVE  ChangeInv'
<1>1. \A q \in Requests : At(q, "commit")' => q # r /\ At(q, "commit") /\ request'[q] = request[q]
  BY DEF Steps, At
<1>2. ASSUME ~overlapped, NEW q \in Requests, At(q, "commit")'
      PROVE  (roles[User(q)] = "admin" /\ request[q].target # User(q))'
  <2>1. roles[User(q)] = "admin" /\ request[q].target # User(q)
    BY <1>1, <1>2 DEF ChangeInv
  <2> QED
    BY <1>1, <1>2, <2>1 DEF User
<1> QED
  BY <1>1, <1>2 DEF ChangeInv

LEMMA AuditingSize ==
    ASSUME NEW S \in SUBSET Requests
    PROVE  IsFiniteSet(S) /\ Cardinality(S) \in Nat
BY GateAssumption, FS_Subset, FS_CardinalityType

LEMMA AuditKept ==
    ASSUME TypeOK, AuditInv, NEW r \in Requests, NEW n \in Request, Steps(r, n), n.pc # "audit",
           request[r].pc # "audit",
           audited' = audited, changed' = changed, failures' \in {failures, failures + 1}
    PROVE  AuditInv'
<1>1. Auditing' = Auditing
  BY DEF Auditing, At, Steps
<1>2. failures \in Nat /\ (failures' = 0 => failures = 0)
  BY GateAssumption DEF TypeOK
<1> QED
  BY <1>1, <1>2 DEF AuditInv

LEMMA CounterKept ==
    ASSUME CounterInv, NEW r \in Requests, NEW n \in Request, Steps(r, n), n.pc # "save",
           request[r].pc # "save",
           count' = count, file' = file, lagging' = lagging
    PROVE  CounterInv'
<1>1. \A q \in Requests :
        /\ At(q, "save")' <=> At(q, "save")
        /\ At(q, "save")' => request'[q].snapshot = request[q].snapshot
  BY DEF At, Steps
<1> QED
  BY <1>1 DEF CounterInv

LEMMA TypesKept ==
    ASSUME TypeOK, request' \in [Requests -> Request], identities' \in Cache,
           roles' \in [Users -> Roles], valid' \subseteq valid,
           changed' \in 0 .. MaxEffects, audited' \in 0 .. MaxEffects,
           count' \in 0 .. MaxEffects, file' \in 0 .. MaxEffects,
           failures' \in 0 .. MaxFailures, overlapped' \in BOOLEAN, lagging' \in BOOLEAN
    PROVE  TypeOK'
BY DEF TypeOK, Cache, Distinct

LEMMA QuietStep ==
    ASSUME GateInv, NEW r \in Requests, Quiet(r)
    PROVE  GateInv'
<1>0. TypeOK /\ CallerInv /\ ChangeInv /\ AuditInv /\ CounterInv
  BY DEF GateInv
<1>1. PICK n \in Request : Steps(r, n) /\ n.pc \notin {"commit", "audit", "save"} /\ Knows(n)
  BY <1>0, QuietSteps
<1>2. /\ request[r].pc \notin {"commit", "audit", "save"}
      /\ roles' = roles /\ changed' = changed /\ audited' = audited
      /\ count' = count /\ file' = file /\ lagging' = lagging
      /\ valid' = valid /\ overlapped' = overlapped
      /\ failures' \in {failures, failures + 1} /\ failures' \in 0 .. MaxFailures
      /\ identities' \in Cache
  BY <1>0, QuietSteps
<1>3. CallerInv'
  BY <1>0, <1>1, <1>2, CallerKept
<1>4. ChangeInv'
  BY <1>0, <1>1, <1>2, ChangeKept
<1>5. AuditInv'
  BY <1>0, <1>1, <1>2, AuditKept
<1>6. CounterInv'
  BY <1>0, <1>1, <1>2, CounterKept
<1>7. TypeOK'
  <2>1. request' \in [Requests -> Request]
    BY <1>1 DEF Steps
  <2>2. /\ roles' \in [Users -> Roles] /\ changed' \in 0 .. MaxEffects /\ audited' \in 0 .. MaxEffects
        /\ count' \in 0 .. MaxEffects /\ file' \in 0 .. MaxEffects
        /\ overlapped' \in BOOLEAN /\ lagging' \in BOOLEAN
    BY <1>0, <1>2 DEF TypeOK
  <2> QED
    BY <1>0, <1>2, <2>1, <2>2, TypesKept
<1> QED
  BY <1>3, <1>4, <1>5, <1>6, <1>7 DEF GateInv

LEMMA GateInvInit == Init => GateInv
<1> SUFFICES ASSUME Init PROVE GateInv
  OBVIOUS
<1>1. \A r \in Requests : request[r] = Free /\ request[r].pc = "free"
  BY DEF Init, Free
<1>2. TypeOK
  <2>1. identities \in Seq(Identity) /\ Len(identities) = 0 /\ DOMAIN identities = {}
    BY DEF Init
  <2>2. request \in [Requests -> Request]
    BY DEF Init, Request
  <2>3. 0 \in 0 .. MaxEffects /\ 0 \in 0 .. MaxFailures /\ Len(identities) <= CacheMax
    BY <2>1, GateAssumption
  <2>4. roles \in [Users -> Roles] /\ valid \subseteq Tokens
    BY DEF Init
  <2>5. \A i, j \in DOMAIN identities : identities[i].token = identities[j].token => i = j
    BY <2>1
  <2>6. /\ changed \in 0 .. MaxEffects /\ audited \in 0 .. MaxEffects
        /\ count \in 0 .. MaxEffects /\ file \in 0 .. MaxEffects
        /\ failures \in 0 .. MaxFailures
        /\ overlapped \in BOOLEAN /\ lagging \in BOOLEAN
    BY <2>3 DEF Init
  <2> QED
    BY <2>1, <2>2, <2>3, <2>4, <2>5, <2>6 DEF TypeOK
<1>3. CallerInv
  BY <1>1 DEF CallerInv, Knows
<1>4. ChangeInv
  BY <1>1 DEF Init, ChangeInv, At
<1>5. AuditInv
  <2>1. Auditing = {}
    BY <1>1 DEF Auditing, At
  <2> QED
    BY <2>1, FS_EmptySet DEF AuditInv, Init
<1>6. CounterInv
  BY <1>1 DEF Init, CounterInv, At
<1> QED
  BY <1>2, <1>3, <1>4, <1>5, <1>6 DEF GateInv
----------------------------------------------------------------------------
LEMMA SetUserRoleStep ==
    ASSUME GateInv, NEW r \in Requests, SetUserRole(r)
    PROVE  GateInv'
<1>0. TypeOK /\ CallerInv /\ ChangeInv /\ AuditInv /\ CounterInv
  BY DEF GateInv
<1>1. /\ request[r].pc = "handle" /\ request[r] # Free /\ request[r] \in Request /\ Knows(request[r])
      /\ request[r].target # User(r)
      /\ roles' = roles /\ changed' = changed /\ audited' = audited
      /\ count' = count /\ file' = file /\ lagging' = lagging
      /\ valid' = valid /\ identities' = identities /\ failures' = failures
  BY <1>0 DEF SetUserRole, At, Free, TypeOK, CallerInv, database, counter
<1>2. CASE request[r].token \in valid /\ roles[User(r)] = "admin"
  <2>1. /\ Goto(r, "commit") /\ overlapped' = (overlapped \/ \E q \in Requests : At(q, "commit"))
        /\ "commit" \in Pcs
    BY <1>2 DEF SetUserRole, Pcs
  <2>2. PICK n \in Request :
          /\ Steps(r, n) /\ n # Free /\ n.pc = "commit"
          /\ n.token = request[r].token /\ n.target = request[r].target
          /\ n.as = request[r].as /\ n.saw = request[r].saw /\ n.late = request[r].late
    BY <1>0, <1>1, <2>1, GotoSteps
  <2>3. Knows(n)
    BY <1>1, <2>2 DEF Knows, Passing
  <2>4. CallerInv'
    BY <1>0, <1>1, <2>2, <2>3, CallerKept
  <2>5. AuditInv' /\ CounterInv'
    BY <1>0, <1>1, <2>2, AuditKept, CounterKept
  <2>6. ChangeInv'
    <3> SUFFICES ASSUME ~overlapped' PROVE ChangeInv'
      BY DEF ChangeInv
    <3>1. ~overlapped /\ \A q \in Requests : ~At(q, "commit")
      BY <2>1
    <3>2. \A q \in Requests : At(q, "commit")' => q = r
      BY <2>2, <3>1 DEF At, Steps
    <3>3. (roles[User(r)] = "admin" /\ request[r].target # User(r))'
      BY <1>1, <1>2, <2>2 DEF User, Steps
    <3>4. (\E u \in Users : roles[u] = "admin")'
      BY <1>0, <1>1, <3>1 DEF ChangeInv
    <3> QED
      BY <3>2, <3>3, <3>4 DEF ChangeInv
  <2>7. TypeOK'
    <3>1. request' \in [Requests -> Request] /\ overlapped' \in BOOLEAN
      BY <2>1, <2>2 DEF Steps
    <3> QED
      BY <1>0, <1>1, <3>1 DEF TypeOK
  <2> QED
    BY <2>4, <2>5, <2>6, <2>7 DEF GateInv
<1>3. CASE ~(request[r].token \in valid /\ roles[User(r)] = "admin")
  <2>1. Ends(r) /\ overlapped' = overlapped
    BY <1>3 DEF SetUserRole
  <2>2. Steps(r, Free) /\ Free \in Request /\ Free.pc = "free" /\ Knows(Free)
    BY <1>0, <2>1, EndsSteps, EndsFree DEF Free, Knows
  <2>3. CallerInv' /\ ChangeInv' /\ AuditInv' /\ CounterInv'
    BY <1>0, <1>1, <2>1, <2>2, CallerKept, ChangeKept, AuditKept, CounterKept
  <2>4. TypeOK'
    <3>1. request' \in [Requests -> Request] /\ overlapped' \in BOOLEAN
      BY <1>0, <2>1, <2>2 DEF Steps, TypeOK
    <3> QED
      BY <1>0, <1>1, <3>1 DEF TypeOK
  <2> QED
    BY <2>3, <2>4 DEF GateInv
<1> QED
  BY <1>2, <1>3

LEMMA CommitStep ==
    ASSUME GateInv, NEW r \in Requests, Commit(r)
    PROVE  GateInv'
<1>0. TypeOK /\ CallerInv /\ ChangeInv /\ AuditInv /\ CounterInv
  BY DEF GateInv
<1>1. /\ request[r].pc = "commit" /\ changed + count < MaxEffects /\ changed' = changed + 1
      /\ roles' = [roles EXCEPT ![request[r].target] = request[r].new]
      /\ audited' = audited /\ count' = count /\ file' = file /\ lagging' = lagging
      /\ valid' = valid /\ identities' = identities /\ failures' = failures /\ overlapped' = overlapped
  BY DEF Commit, At, counter
<1>2. /\ request' \in [Requests -> Request] /\ roles' \in [Users -> Roles]
      /\ \A q \in Requests :
           /\ request[q] = Free <=> request'[q] = Free
           /\ request'[q].pc = IF q = r THEN "audit" ELSE request[q].pc
           /\ request[q] # Free =>
                /\ request'[q].token = request[q].token /\ request'[q].target = request[q].target
                /\ request'[q].as = request[q].as /\ request'[q].late = request[q].late
                /\ request'[q].degraded = request[q].degraded
                /\ request'[q].snapshot = request[q].snapshot
                /\ request'[q].saw = request[q].saw \cup {roles'[User(q)]}
  BY <1>0, CommitSteps
<1>3. ASSUME NEW q \in Requests
      PROVE  Knows(request[q])'
  <2>1. Knows(request[q])
    BY <1>0 DEF CallerInv
  <2> QED
    BY <1>1, <1>2, <2>1 DEF Knows, User, Passing
<1>4. ChangeInv'
  <2> SUFFICES ASSUME ~overlapped PROVE ChangeInv'
    BY <1>1 DEF ChangeInv
  <2>1. /\ roles[User(r)] = "admin" /\ request[r].target # User(r)
        /\ \A q \in Requests : At(q, "commit") => q = r
    BY <1>0, <1>1 DEF ChangeInv, At
  <2>2. \A q \in Requests : ~At(q, "commit")'
    BY <1>2, <2>1 DEF At
  <2>3. User(r) \in Users
    <3>1. request[r] \in Request /\ request[r] # Free
      BY <1>0, <1>1 DEF TypeOK, Free
    <3> QED
      BY <3>1, RequestShape DEF User
  <2>4. roles'[User(r)] = "admin"
    BY <1>0, <1>1, <2>1, <2>3 DEF TypeOK
  <2>5. (\E u \in Users : roles[u] = "admin")'
    BY <2>3, <2>4
  <2> QED
    BY <2>2, <2>5 DEF ChangeInv
<1>5. AuditInv'
  <2>1. Auditing' = Auditing \cup {r} /\ r \notin Auditing
    BY <1>1, <1>2 DEF Auditing, At
  <2>2. IsFiniteSet(Auditing) /\ Cardinality(Auditing) \in Nat
    BY AuditingSize DEF Auditing
  <2>3. Cardinality(Auditing') = Cardinality(Auditing) + 1
    BY <2>1, <2>2, FS_AddElement
  <2>4. changed \in Nat /\ audited \in Nat
    BY <1>0, GateAssumption DEF TypeOK
  <2> QED
    BY <1>0, <1>1, <2>2, <2>3, <2>4 DEF AuditInv
<1>6. CounterInv'
  <2>1. \A q \in Requests :
          /\ At(q, "save")' <=> At(q, "save")
          /\ At(q, "save")' => request'[q].snapshot = request[q].snapshot
    BY <1>1, <1>2 DEF At, Free
  <2> QED
    BY <1>0, <1>1, <2>1 DEF CounterInv
<1>7. TypeOK'
  <2>1. changed' \in 0 .. MaxEffects
    BY <1>0, <1>1, GateAssumption DEF TypeOK
  <2> QED
    BY <1>0, <1>1, <1>2, <2>1 DEF TypeOK
<1> QED
  BY <1>3, <1>4, <1>5, <1>6, <1>7 DEF GateInv, CallerInv

LEMMA AuditStep ==
    ASSUME GateInv, NEW r \in Requests, Audit(r)
    PROVE  GateInv'
<1>0. TypeOK /\ CallerInv /\ ChangeInv /\ AuditInv /\ CounterInv
  BY DEF GateInv
<1>1. /\ request[r].pc = "audit" /\ audited' = audited + 1 /\ Ends(r)
      /\ roles' = roles /\ changed' = changed
      /\ count' = count /\ file' = file /\ lagging' = lagging
      /\ valid' = valid /\ identities' = identities /\ failures' = failures /\ overlapped' = overlapped
  BY DEF Audit, At, counter
<1>2. Steps(r, Free) /\ Free \in Request /\ Free.pc = "free" /\ Knows(Free)
  BY <1>0, <1>1, EndsSteps, EndsFree DEF Free, Knows
<1>3. CallerInv' /\ ChangeInv' /\ CounterInv'
  BY <1>0, <1>1, <1>2, CallerKept, ChangeKept, CounterKept
<1>4. Auditing' = Auditing \ {r} /\ r \in Auditing
  BY <1>1, <1>2 DEF Auditing, At, Steps
<1>5. Cardinality(Auditing') = Cardinality(Auditing) - 1 /\ Cardinality(Auditing) \in Nat
      /\ Cardinality(Auditing') \in Nat
  <2>1. IsFiniteSet(Auditing) /\ Cardinality(Auditing) \in Nat
        /\ Cardinality(Auditing \ {r}) \in Nat
    BY AuditingSize DEF Auditing
  <2> QED
    BY <1>4, <2>1, FS_RemoveElement
<1>6. changed \in Nat /\ audited \in Nat /\ changed <= MaxEffects /\ MaxEffects \in Nat
  BY <1>0, GateAssumption DEF TypeOK
<1>7. AuditInv'
  BY <1>0, <1>1, <1>5, <1>6 DEF AuditInv
<1>8. audited' \in 0 .. MaxEffects
  BY <1>0, <1>1, <1>5, <1>6 DEF AuditInv
<1>9. TypeOK'
  BY <1>0, <1>1, <1>2, <1>8 DEF TypeOK, Steps
<1> QED
  BY <1>3, <1>7, <1>9 DEF GateInv

LEMMA IncrementStep ==
    ASSUME GateInv, NEW r \in Requests, Increment(r)
    PROVE  GateInv'
<1>0. TypeOK /\ CallerInv /\ ChangeInv /\ AuditInv /\ CounterInv
  BY DEF GateInv
<1>1. /\ request[r].pc = "handle" /\ request[r] # Free
      /\ changed + count < MaxEffects /\ count' = count + 1
      /\ lagging' = \E q \in Requests : At(q, "save")
      /\ roles' = roles /\ changed' = changed /\ audited' = audited
      /\ file' = file /\ failures' = failures /\ overlapped' = overlapped
      /\ valid' = valid /\ identities' = identities
  BY DEF Increment, At, Free, database
<1>2. PICK n \in Request :
        /\ Steps(r, n) /\ n # Free /\ n.pc = "save" /\ n.snapshot = count + 1
        /\ n.token = request[r].token /\ n.as = request[r].as /\ n.saw = request[r].saw
        /\ n.late = request[r].late
  BY <1>0, IncrementSteps
<1>3. Knows(n)
  BY <1>0, <1>1, <1>2 DEF Knows, Passing, CallerInv
<1>4. CallerInv' /\ ChangeInv' /\ AuditInv'
  BY <1>0, <1>1, <1>2, <1>3, CallerKept, ChangeKept, AuditKept
<1>5. count \in Nat /\ file \in Nat /\ changed \in Nat /\ MaxEffects \in Nat
  BY <1>0, GateAssumption DEF TypeOK
<1>6. CounterInv'
  <2>1. \A q \in Requests : At(q, "save")' => q = r \/ (At(q, "save") /\ request'[q] = request[q])
    BY <1>2 DEF At, Steps
  <2>2. request'[r].snapshot = count' /\ At(r, "save")'
    BY <1>1, <1>2 DEF Steps, At
  <2>3. ASSUME NEW q \in Requests, At(q, "save")'
        PROVE  request'[q].snapshot <= count'
    <3>1. CASE q = r
      BY <1>1, <1>5, <2>2, <3>1
    <3>2. CASE q # r
      <4>1. request'[q] = request[q] /\ request[q] \in Request /\ request[q].snapshot <= count
        BY <1>0, <2>1, <2>3, <3>2 DEF CounterInv, TypeOK
      <4>2. request[q] # Free
        BY <2>1, <2>3, <3>2 DEF At, Free
      <4>3. request[q].snapshot \in Int
        BY <4>1, <4>2, <1>5, RequestShape
      <4> QED
        BY <1>1, <1>5, <4>1, <4>3
    <3> QED
      BY <3>1, <3>2
  <2>4. file' <= count'
    BY <1>0, <1>1, <1>5 DEF CounterInv
  <2>5. ASSUME ~lagging'
        PROVE  \A q \in Requests : At(q, "save")' => q = r
    BY <1>1, <2>1, <2>5
  <2> QED
    BY <2>2, <2>3, <2>4, <2>5 DEF CounterInv
<1>7. TypeOK'
  <2>1. count' \in 0 .. MaxEffects /\ lagging' \in BOOLEAN
    BY <1>1, <1>5
  <2> QED
    BY <1>0, <1>1, <1>2, <2>1 DEF TypeOK, Steps
<1> QED
  BY <1>4, <1>6, <1>7 DEF GateInv

LEMMA SaveStep ==
    ASSUME GateInv, NEW r \in Requests, Save(r)
    PROVE  GateInv'
<1>0. TypeOK /\ CallerInv /\ ChangeInv /\ AuditInv /\ CounterInv
  BY DEF GateInv
<1>1. /\ request[r].pc = "save" /\ file' = request[r].snapshot /\ Ends(r)
      /\ roles' = roles /\ changed' = changed /\ audited' = audited
      /\ count' = count /\ lagging' = lagging /\ failures' = failures /\ overlapped' = overlapped
      /\ valid' = valid /\ identities' = identities
  BY DEF Save, At, database
<1>2. Steps(r, Free) /\ Free \in Request /\ Free.pc = "free" /\ Knows(Free)
  BY <1>0, <1>1, EndsSteps, EndsFree DEF Free, Knows
<1>3. CallerInv' /\ ChangeInv' /\ AuditInv'
  BY <1>0, <1>1, <1>2, CallerKept, ChangeKept, AuditKept
<1>4. CounterInv'
  <2>1. \A q \in Requests : At(q, "save")' => q # r /\ At(q, "save") /\ request'[q] = request[q]
    BY <1>2 DEF At, Steps
  <2>2. request[r].snapshot <= count /\ (~lagging => request[r].snapshot = count)
    BY <1>0, <1>1 DEF CounterInv, At
  <2>3. ~lagging => \A q \in Requests : ~At(q, "save")'
    BY <1>0, <1>1, <2>1 DEF CounterInv, At
  <2> QED
    BY <1>0, <1>1, <2>1, <2>2, <2>3 DEF CounterInv
<1>5. TypeOK'
  <2>1. file' \in 0 .. MaxEffects
    <3>1. request[r] \in Request /\ request[r] # Free
      BY <1>0, <1>1 DEF TypeOK, Free
    <3> QED
      BY <1>1, <3>1, RequestShape
  <2> QED
    BY <1>0, <1>1, <1>2, <2>1 DEF TypeOK, Steps
<1> QED
  BY <1>3, <1>4, <1>5 DEF GateInv

LEMMA CallFailsStep ==
    ASSUME GateInv, NEW r \in Requests, CallFails(r)
    PROVE  GateInv'
<1>0. TypeOK /\ CallerInv /\ ChangeInv /\ AuditInv /\ CounterInv
  BY DEF GateInv
<1>1. /\ failures < MaxFailures /\ failures' = failures + 1 /\ Ends(r)
      /\ lagging' = (lagging \/ At(r, "save"))
      /\ roles' = roles /\ changed' = changed /\ audited' = audited
      /\ count' = count /\ file' = file /\ overlapped' = overlapped
      /\ valid' = valid /\ identities' = identities
  BY DEF CallFails, database
<1>2. Steps(r, Free) /\ Free \in Request /\ Free.pc = "free" /\ Knows(Free)
  BY <1>0, <1>1, EndsSteps, EndsFree DEF Free, Knows
<1>3. CallerInv' /\ ChangeInv'
  BY <1>0, <1>1, <1>2, CallerKept, ChangeKept
<1>4. failures \in Nat /\ changed \in Nat /\ audited \in Nat
  BY <1>0, GateAssumption DEF TypeOK
<1>5. AuditInv'
  <2>1. Auditing' \subseteq Auditing
    BY <1>2 DEF Auditing, At, Steps
  <2>2. IsFiniteSet(Auditing) /\ Cardinality(Auditing) \in Nat
    BY AuditingSize DEF Auditing
  <2>3. Cardinality(Auditing') <= Cardinality(Auditing) /\ Cardinality(Auditing') \in Nat
    BY <2>1, <2>2, FS_Subset, FS_CardinalityType
  <2>4. audited + Cardinality(Auditing) <= changed
    BY <1>0 DEF AuditInv
  <2>5. failures' # 0
    BY <1>1, <1>4
  <2> QED
    BY <1>1, <1>4, <2>2, <2>3, <2>4, <2>5 DEF AuditInv
<1>6. CounterInv'
  <2>1. \A q \in Requests :
          At(q, "save")' => q # r /\ At(q, "save") /\ request'[q].snapshot = request[q].snapshot
    BY <1>2 DEF At, Steps
  <2>2. ~lagging' => \A q \in Requests : At(q, "save")' <=> At(q, "save")
    BY <1>1, <1>2 DEF At, Steps
  <2> QED
    BY <1>0, <1>1, <2>1, <2>2 DEF CounterInv
<1>7. TypeOK'
  <2>1. failures' \in 0 .. MaxFailures /\ lagging' \in BOOLEAN
    BY <1>0, <1>1, <1>4, GateAssumption DEF TypeOK
  <2> QED
    BY <1>0, <1>1, <1>2, <2>1 DEF TypeOK, Steps
<1> QED
  BY <1>3, <1>5, <1>6, <1>7 DEF GateInv

LEMMA RestartStep ==
    ASSUME GateInv, Restart
    PROVE  GateInv'
<1>0. TypeOK /\ CallerInv /\ ChangeInv /\ AuditInv /\ CounterInv
  BY DEF GateInv
<1>1. /\ failures < MaxFailures /\ failures' = failures + 1
      /\ request' = [r \in Requests |-> Free] /\ identities' = <<>>
      /\ count' = file /\ lagging' = FALSE /\ file' = file
      /\ roles' = roles /\ changed' = changed /\ audited' = audited
      /\ valid' = valid /\ overlapped' = overlapped
  BY DEF Restart, database
<1>2. \A r \in Requests : request'[r] = Free /\ request'[r].pc = "free"
  BY <1>1 DEF Free
<1>3. failures \in Nat /\ changed \in Nat /\ audited \in Nat /\ file \in Nat
  BY <1>0, GateAssumption DEF TypeOK
<1>4. CallerInv'
  BY <1>2 DEF CallerInv, Knows
<1>5. ChangeInv'
  BY <1>0, <1>1, <1>2 DEF ChangeInv, At
<1>6. AuditInv'
  <2>1. Auditing' = {}
    BY <1>2 DEF Auditing, At
  <2>2. Cardinality(Auditing) \in Nat /\ audited + Cardinality(Auditing) <= changed
    BY <1>0, AuditingSize DEF Auditing, AuditInv
  <2>3. Cardinality(Auditing') = 0
    BY <2>1, FS_EmptySet
  <2>4. audited + 0 <= changed /\ failures' # 0
    BY <1>1, <1>3, <2>2
  <2> QED
    BY <1>1, <2>3, <2>4 DEF AuditInv
<1>7. CounterInv'
  BY <1>1, <1>2, <1>3 DEF CounterInv, At
<1>8. TypeOK'
  <2>1. identities' \in Cache
    BY <1>1, GateAssumption DEF Cache, Distinct
  <2>2. request' \in [Requests -> Request]
    BY <1>1 DEF Request
  <2>3. /\ failures' \in 0 .. MaxFailures /\ roles' \in [Users -> Roles] /\ valid' \subseteq valid
        /\ changed' \in 0 .. MaxEffects /\ audited' \in 0 .. MaxEffects
        /\ count' \in 0 .. MaxEffects /\ file' \in 0 .. MaxEffects
        /\ overlapped' \in BOOLEAN /\ lagging' \in BOOLEAN
    <3>1. failures' \in 0 .. MaxFailures
      BY <1>1, <1>3, GateAssumption
    <3>2. /\ roles' \in [Users -> Roles] /\ valid' \subseteq valid
          /\ changed' \in 0 .. MaxEffects /\ audited' \in 0 .. MaxEffects
      BY <1>0, <1>1 DEF TypeOK
    <3>3. count' \in 0 .. MaxEffects /\ file' \in 0 .. MaxEffects
      BY <1>0, <1>1 DEF TypeOK
    <3>4. overlapped' \in BOOLEAN /\ lagging' \in BOOLEAN
      BY <1>0, <1>1 DEF TypeOK
    <3> QED
      BY <3>1, <3>2, <3>3, <3>4
  <2> QED
    BY <1>0, <2>1, <2>2, <2>3, TypesKept
<1> QED
  BY <1>4, <1>5, <1>6, <1>7, <1>8 DEF GateInv

(* Time passing: tokens and cache entries.                                 *)
LEMMA TimeStep ==
    ASSUME GateInv, (\E t \in Tokens : TokenEnds(t)) \/ IdentityExpires \/ UNCHANGED vars
    PROVE  GateInv'
<1>0. TypeOK /\ CallerInv /\ ChangeInv /\ AuditInv /\ CounterInv
  BY DEF GateInv
<1>1. /\ request' = request /\ roles' = roles /\ changed' = changed /\ audited' = audited
      /\ count' = count /\ file' = file /\ lagging' = lagging
      /\ failures' = failures /\ overlapped' = overlapped
      /\ valid' \subseteq valid
  BY DEF TokenEnds, IdentityExpires, vars, database, counter
<1>2. identities' \in Cache
  <2>1. CASE IdentityExpires
    BY <1>0, <2>1, IdentityExpiresKeepsCache
  <2>2. CASE ~IdentityExpires
    <3>1. identities' = identities
      BY <2>2 DEF TokenEnds, vars
    <3> QED
      BY <1>0, <3>1, CacheIsTyped
  <2> QED
    BY <2>1, <2>2
<1>3. CallerInv'
  BY <1>0, <1>1 DEF CallerInv, Knows
<1>4. ChangeInv' /\ CounterInv'
  BY <1>0, <1>1 DEF ChangeInv, CounterInv, At, User
<1>5. AuditInv'
  BY <1>0, <1>1 DEF AuditInv, Auditing, At
<1>6. TypeOK'
  BY <1>0, <1>1, <1>2, TypesKept DEF TypeOK
<1> QED
  BY <1>3, <1>4, <1>5, <1>6 DEF GateInv

LEMMA GateInvStep == GateInv /\ [Next]_vars => GateInv'
<1> SUFFICES ASSUME GateInv, [Next]_vars PROVE GateInv'
  OBVIOUS
<1>1. ASSUME NEW r \in Requests, Passes(r) PROVE GateInv'
  BY <1>1, QuietStep DEF Quiet
<1>2. ASSUME NEW r \in Requests, Handles(r) PROVE GateInv'
  <2>1. CASE Refuse(r) \/ ReadConsole(r)
    BY <2>1, QuietStep DEF Quiet
  <2>2. CASE SetUserRole(r)
    BY <2>2, SetUserRoleStep
  <2>3. CASE Commit(r)
    BY <2>3, CommitStep
  <2>4. CASE Audit(r)
    BY <2>4, AuditStep
  <2>5. CASE Increment(r)
    BY <2>5, IncrementStep
  <2>6. CASE Save(r)
    BY <2>6, SaveStep
  <2>7. CASE CallFails(r)
    BY <2>7, CallFailsStep
  <2> QED
    BY <1>2, <2>1, <2>2, <2>3, <2>4, <2>5, <2>6, <2>7 DEF Handles
<1>3. CASE Restart
  BY <1>3, RestartStep
<1>4. CASE (\E t \in Tokens : TokenEnds(t)) \/ IdentityExpires \/ UNCHANGED vars
  BY <1>4, TimeStep
<1> QED
  BY <1>1, <1>2, <1>3, <1>4 DEF Next
----------------------------------------------------------------------------
(* The inductive invariant of the gate.                                    *)
THEOREM GateInvariant == Spec => []GateInv
BY GateInvInit, GateInvStep, PTL DEF Spec

(* The identity cache stays within its cap with no token in it twice, and  *)
(* the rest of the state is of its type.                                   *)
THEOREM GateTypes == Spec => []TypeOK
<1>1. GateInv => TypeOK
  BY DEF GateInv
<1> QED
  BY <1>1, GateInvariant, PTL

(* Nobody is served as an admin who was none since the request came, and an*)
(* ended token reaches a handler only as a plain user while the role call  *)
(* fails.                                                                  *)
THEOREM RolesStayLive == Spec => []RolesAreLive
<1>1. GateInv => RolesAreLive
  BY DEF GateInv, CallerInv, Knows, RolesAreLive, At, Free
<1> QED
  BY <1>1, GateInvariant, PTL

(* An admin is left while no two role changes were in the database at once.*)
THEOREM AdminsRemain == Spec => []AdminRemains
<1>1. GateInv => AdminRemains
  BY DEF GateInv, ChangeInv, AdminRemains
<1> QED
  BY <1>1, GateInvariant, PTL

(* The audit log and the download counter's file tell the truth.           *)
THEOREM RecordsStayTrue == Spec => []RecordsAreTrue
<1>1. GateInv => RecordsAreTrue
  <2> SUFFICES ASSUME GateInv PROVE RecordsAreTrue
    OBVIOUS
  <2>1. TypeOK /\ AuditInv /\ CounterInv
    BY DEF GateInv
  <2>2. Cardinality(Auditing) \in Nat /\ audited \in Nat /\ changed \in Nat
    BY <2>1, AuditingSize, GateAssumption DEF TypeOK, Auditing
  <2>3. (\A r \in Requests : ~At(r, "audit")) => Cardinality(Auditing) = 0
    BY FS_EmptySet DEF Auditing
  <2> QED
    BY <2>1, <2>2, <2>3 DEF RecordsAreTrue, AuditInv, CounterInv
<1> QED
  BY <1>1, GateInvariant, PTL
=============================================================================
