------------------------- MODULE GenerationProofs -------------------------
(***************************************************************************)
(* Proofs about Generation, for any users, any number of requests at once, *)
(* any pool, quota and bounds.                                             *)
(***************************************************************************)
EXTENDS Generation, TLAPS, FiniteSetTheorems, SequenceTheorems

(* A request that has its job.                                             *)
Owning == {"wait", "complete", "mark", "provider", "files", "usage", "answer"}

(* A row that is not there has nothing, and each job has one request.      *)
OwnerInv ==
  /\ \A j \in Jobs : owner[j] = NoUser => status[j] = "none" /\ j \notin usage
  /\ \A s \in Slots : slot[s].pc \in Owning => slot[s].job \in Jobs /\ owner[slot[s].job] # NoUser
  /\ \A s, t \in Slots :
       slot[s].pc \in Owning /\ slot[t].pc \in Owning /\ slot[s].job = slot[t].job => s = t
  /\ \A j \in today : owner[j] # NoUser
  /\ \A i \in 1 .. Len(queue) : owner[queue[i]] # NoUser

(* What a run returned, a request carries and a row says is in B2.         *)
AssetInv ==
  /\ \A j \in Jobs : task[j] = "asset" => j \in stored
  /\ \A j \in Jobs : status[j] = "succeeded" => j \in stored
  /\ \A s \in Slots : slot[s].pc \in {"complete", "provider", "files", "usage"} =>
       /\ slot[s].result \in {"succeeded", "failed"}
       /\ slot[s].result = "succeeded" => slot[s].job \in stored

(* How far the bookkeeping of a request has come.                          *)
BooksInv ==
  /\ usage \subseteq {j \in files \cap providerRuns : status[j] = "succeeded"}
  /\ \A s \in Slots :
       /\ slot[s].pc \in Owning \ {"answer"} => slot[s].job \notin usage
       /\ slot[s].pc \in {"files", "usage"} => slot[s].job \in providerRuns /\ slot[s].result = "succeeded"
       /\ slot[s].pc = "usage" => slot[s].job \in files
       /\ slot[s].pc \in {"provider", "files", "usage"} => status[slot[s].job] = slot[s].result

(* A running row is waited for by a request that will settle it.           *)
AttendedInv ==
  failures + crashes = 0 =>
    \A j \in Jobs : status[j] = "running" =>
      \E s \in Slots : slot[s].pc \in {"wait", "complete", "mark"} /\ slot[s].job = j

(* Requests that have passed the quota and not yet inserted their job.     *)
Admitted(u) == {s \in Slots : slot[s].pc = "create" /\ slot[s].user = u}

QuotaInv ==
  DailyLimit > 0 =>
    \A u \in Users : CountJobsSince(u) + Cardinality(Admitted(u)) <= DailyLimit - 1 + Cardinality(Slots)

GenerationInv == TypeOK /\ OwnerInv /\ AssetInv /\ BooksInv /\ AttendedInv /\ QuotaInv
----------------------------------------------------------------------------
LEMMA RemoveAtProperties ==
    ASSUME NEW S, NEW q \in Seq(S), NEW i \in 1 .. Len(q)
    PROVE  /\ RemoveAt(q, i) \in Seq(S)
           /\ Len(RemoveAt(q, i)) = Len(q) - 1
           /\ \A k \in 1 .. Len(q) - 1 : RemoveAt(q, i)[k] = IF k < i THEN q[k] ELSE q[k + 1]
<1> DEFINE a == SubSeq(q, 1, i - 1)
           b == SubSeq(q, i + 1, Len(q))
<1>1. Len(q) \in Nat /\ i \in Nat /\ i >= 1 /\ i <= Len(q)
  BY LenProperties
<1>2. a \in Seq(S) /\ Len(a) = i - 1 /\ \A k \in 1 .. i - 1 : a[k] = q[k]
  <2>1. 1 \in Int /\ i - 1 \in Int /\ \A k \in 1 .. i - 1 : q[k] \in S
    BY <1>1, ElementOfSeq
  <2> QED
    BY <1>1, <2>1, SubSeqProperties
<1>3. b \in Seq(S) /\ Len(b) = Len(q) - i /\ \A k \in 1 .. Len(q) - i : b[k] = q[i + k]
  <2>1. i + 1 \in Int /\ Len(q) \in Int /\ \A k \in i + 1 .. Len(q) : q[k] \in S
    BY <1>1, ElementOfSeq
  <2> QED
    BY <1>1, <2>1, SubSeqProperties
<1> HIDE DEF a, b
<1>4. RemoveAt(q, i) = a \o b
  BY DEF RemoveAt, a, b
<1>5. /\ a \o b \in Seq(S) /\ Len(a \o b) = Len(a) + Len(b)
      /\ \A k \in 1 .. Len(a) + Len(b) : (a \o b)[k] = IF k <= Len(a) THEN a[k] ELSE b[k - Len(a)]
  BY <1>2, <1>3, ConcatProperties
<1>6. ASSUME NEW k \in 1 .. Len(q) - 1
      PROVE  RemoveAt(q, i)[k] = IF k < i THEN q[k] ELSE q[k + 1]
  <2>1. CASE k < i
    BY <1>1, <1>2, <1>3, <1>4, <1>5, <2>1
  <2>2. CASE ~(k < i)
    <3>1. k - (i - 1) \in 1 .. Len(q) - i /\ i + (k - (i - 1)) = k + 1
      BY <1>1, <2>2
    <3>2. (a \o b)[k] = b[k - (i - 1)]
      BY <1>1, <1>2, <1>3, <1>5, <2>2
    <3> QED
      BY <1>3, <1>4, <2>2, <3>1, <3>2
  <2> QED
    BY <2>1, <2>2
<1> QED
  BY <1>1, <1>2, <1>3, <1>4, <1>5, <1>6

LEMMA SlotShape ==
    ASSUME TypeOK, NEW s \in Slots
    PROVE  /\ slot[s] \in Slot
           /\ slot[s].pc \in Owning \cup {"idle", "quota", "create"}
           /\ slot[s].pc # "idle" => slot[s].user \in Users /\ slot[s].job \in Jobs \cup {NoJob}
  BY DEF TypeOK, Slot, Idle, Owning

(* Counting: sets of jobs and of requests are finite.                      *)
LEMMA Counts ==
    ASSUME NEW S \in SUBSET Jobs, NEW T \in SUBSET Slots
    PROVE  /\ IsFiniteSet(S) /\ Cardinality(S) \in Nat
           /\ IsFiniteSet(T) /\ Cardinality(T) \in Nat /\ Cardinality(T) <= Cardinality(Slots)
           /\ Cardinality(Slots) \in Nat
<1>1. IsFiniteSet(Jobs)
  BY BoundsAssumption, FS_Interval DEF Jobs
<1> QED
  BY <1>1, SlotsAssumption, FS_Subset, FS_CardinalityType

LEMMA GenerationInvInit == Init => GenerationInv
<1> SUFFICES ASSUME Init PROVE GenerationInv
  OBVIOUS
<1> USE DEF Init
<1>1. \A s \in Slots : slot[s] = Idle /\ slot[s].pc = "idle"
  BY DEF Idle
<1>2. TypeOK
  <2>1. Idle \in Slot
    BY DEF Slot
  <2>2. queue \in Seq(Jobs) /\ IsInjective(queue)
    BY DEF IsInjective
  <2>3. failures \in 0 .. MaxFailures /\ crashes \in 0 .. MaxCrashes
    BY BoundsAssumption
  <2> QED
    BY <2>1, <2>2, <2>3 DEF TypeOK
<1>3. OwnerInv /\ AssetInv /\ BooksInv /\ AttendedInv
  BY <1>1 DEF OwnerInv, AssetInv, BooksInv, AttendedInv, Owning
<1>4. QuotaInv
  <2> SUFFICES ASSUME DailyLimit > 0, NEW u \in Users
               PROVE  CountJobsSince(u) + Cardinality(Admitted(u)) <= DailyLimit - 1 + Cardinality(Slots)
    BY DEF QuotaInv
  <2>1. {j \in today : owner[j] = u} = {} /\ Admitted(u) = {}
    BY <1>1 DEF Admitted
  <2> QED
    BY <2>1, FS_EmptySet, Counts, DailyLimitAssumption DEF CountJobsSince
<1> QED
  BY <1>2, <1>3, <1>4 DEF GenerationInv

(* A request that goes on with another pc.                                 *)
LEMMA Goes ==
    ASSUME TypeOK, NEW s \in Slots, slot[s].pc # "idle",
           NEW pc \in Owning \cup {"quota", "create"}, NEW result \in {"none", "succeeded", "failed"},
           NEW job \in Jobs \cup {NoJob},
           Carry(s, pc, job, result)
    PROVE  /\ slot' \in [Slots -> Slot]
           /\ slot'[s].pc = pc /\ slot'[s].job = job /\ slot'[s].result = result
           /\ slot'[s].user = slot[s].user /\ slot[s].user \in Users
           /\ \A t \in Slots \ {s} : slot'[t] = slot[t]
<1>1. slot[s].user \in Users
  BY SlotShape
<1>2. [pc |-> pc, user |-> slot[s].user, job |-> job, result |-> result] \in Slot
  BY <1>1 DEF Slot, Owning
<1> QED
  BY <1>1, <1>2 DEF TypeOK, Carry

LEMMA GotoGoes ==
    ASSUME TypeOK, NEW s \in Slots, slot[s].pc # "idle",
           NEW pc \in Owning \cup {"quota", "create"}, Goto(s, pc)
    PROVE  /\ slot' \in [Slots -> Slot]
           /\ slot'[s].pc = pc /\ slot'[s].job = slot[s].job /\ slot'[s].result = slot[s].result
           /\ slot'[s].user = slot[s].user /\ slot[s].user \in Users
           /\ \A t \in Slots \ {s} : slot'[t] = slot[t]
<1>1. slot[s] \in [pc : Owning \cup {"quota", "create"}, user : Users, job : Jobs \cup {NoJob},
                   result : {"none", "succeeded", "failed"}]
  BY DEF TypeOK, Slot, Idle, Owning
<1>2. [slot[s] EXCEPT !.pc = pc] =
        [pc |-> pc, user |-> slot[s].user, job |-> slot[s].job, result |-> slot[s].result]
  BY <1>1
<1>3. Carry(s, pc, slot[s].job, slot[s].result)
  BY <1>2 DEF Goto, Carry
<1> QED
  BY <1>1, <1>3, Goes

LEMMA EndGoes ==
    ASSUME TypeOK, NEW s \in Slots, End(s)
    PROVE  /\ slot' \in [Slots -> Slot] /\ slot'[s].pc = "idle"
           /\ \A t \in Slots \ {s} : slot'[t] = slot[t]
<1>1. Idle \in Slot /\ Idle.pc = "idle"
  BY DEF Slot, Idle
<1> QED
  BY <1>1 DEF TypeOK, End

(* No job is added, and nobody passes the quota.                           *)
LEMMA QuotaUntouched ==
    ASSUME TypeOK, QuotaInv, today' \subseteq today, owner' = owner, \A u \in Users : Admitted(u)' \subseteq Admitted(u)
    PROVE  QuotaInv'
<1> SUFFICES ASSUME DailyLimit > 0, NEW u \in Users
             PROVE  CountJobsSince(u)' + Cardinality(Admitted(u)') <= DailyLimit - 1 + Cardinality(Slots)
  BY DEF QuotaInv
<1> DEFINE A == {j \in today : owner[j] = u}
           B == {j \in today' : owner[j] = u}
<1>1. A \subseteq Jobs /\ B \subseteq A /\ Admitted(u) \subseteq Slots
  BY DEF TypeOK, Admitted
<1>2. Cardinality(B) <= Cardinality(A) /\ Cardinality(Admitted(u)') <= Cardinality(Admitted(u))
  BY <1>1, Counts, FS_Subset
<1>3. /\ Cardinality(A) \in Nat /\ Cardinality(Admitted(u)) \in Nat /\ Cardinality(Slots) \in Nat
      /\ Cardinality(B) \in Nat /\ Cardinality(Admitted(u)') \in Nat
  BY <1>1, Counts
<1>4. Cardinality(A) + Cardinality(Admitted(u)) <= DailyLimit - 1 + Cardinality(Slots)
  BY DEF QuotaInv, CountJobsSince
<1>5. CountJobsSince(u)' = Cardinality(B)
  BY DEF CountJobsSince
<1> QED
  BY <1>2, <1>3, <1>4, <1>5, DailyLimitAssumption
----------------------------------------------------------------------------
(* With no failure and no crash after a step there was none before it.     *)
LEMMA NoneBefore == \A f, g, c \in Nat : g >= f /\ g + c = 0 => f + c = 0
  OBVIOUS

(* A request that leaves, or is let in, without touching a row.            *)
LEMMA LeaveKeepsInv ==
    ASSUME GenerationInv, NEW s \in Slots, End(s), slot[s].pc \in {"quota", "create", "answer"},
           UNCHANGED <<db, pool>>, failures' \in 0 .. MaxFailures, failures' >= failures, UNCHANGED crashes
    PROVE  GenerationInv'
<1> USE DEF GenerationInv, db, pool
<1>1. /\ slot' \in [Slots -> Slot] /\ slot'[s].pc = "idle"
      /\ \A t \in Slots \ {s} : slot'[t] = slot[t]
  BY EndGoes
<1>2. TypeOK'
  BY <1>1 DEF TypeOK
<1>3. OwnerInv' /\ AssetInv' /\ BooksInv'
  BY <1>1 DEF OwnerInv, AssetInv, BooksInv, Owning
<1>4. AttendedInv'
  <2>1. failures \in Nat /\ failures' \in Nat /\ crashes \in Nat
    BY BoundsAssumption DEF TypeOK
  <2>2. failures' + crashes' = 0 => failures + crashes = 0
    BY <2>1, NoneBefore
  <2> QED
    BY <1>1, <2>2 DEF AttendedInv
<1>5. QuotaInv'
  BY <1>1, QuotaUntouched DEF Admitted
<1> QED
  BY <1>2, <1>3, <1>4, <1>5

LEMMA BeginKeepsInv ==
    ASSUME GenerationInv, NEW s \in Slots, NEW u \in Users, Begin(s, u) PROVE GenerationInv'
<1> USE DEF GenerationInv, db, pool, faults, Begin, At
<1> DEFINE x == [pc |-> "quota", user |-> u, job |-> NoJob, result |-> "none"]
<1>1. x \in Slot /\ x.pc = "quota"
  BY DEF Slot
<1> HIDE DEF x
<1>2. slot' \in [Slots -> Slot] /\ slot'[s].pc = "quota" /\ \A t \in Slots \ {s} : slot'[t] = slot[t]
  BY <1>1 DEF TypeOK, x
<1>3. TypeOK'
  BY <1>2 DEF TypeOK
<1>4. OwnerInv' /\ AssetInv' /\ BooksInv'
  BY <1>2 DEF OwnerInv, AssetInv, BooksInv, Owning
<1>5. AttendedInv'
  BY <1>2 DEF AttendedInv
<1>6. QuotaInv'
  BY <1>2, QuotaUntouched DEF Admitted
<1> QED
  BY <1>3, <1>4, <1>5, <1>6

LEMMA EnforceKeepsInv ==
    ASSUME GenerationInv, NEW s \in Slots, EnforceDailyQuota(s) PROVE GenerationInv'
<1> USE DEF GenerationInv, db, pool, faults
<1>1. CASE End(s)
  BY <1>1, LeaveKeepsInv DEF EnforceDailyQuota, At, TypeOK
<1>2. CASE Goto(s, "create") /\ (DailyLimit = 0 \/ CountJobsSince(slot[s].user) < DailyLimit)
  <2> USE <1>2 DEF EnforceDailyQuota, At
  <2>1. /\ slot' \in [Slots -> Slot] /\ slot'[s].pc = "create" /\ slot'[s].user = slot[s].user
        /\ slot[s].user \in Users /\ \A t \in Slots \ {s} : slot'[t] = slot[t]
    BY GotoGoes
  <2>2. TypeOK'
    BY <2>1 DEF TypeOK
  <2>3. OwnerInv' /\ AssetInv' /\ BooksInv'
    BY <2>1 DEF OwnerInv, AssetInv, BooksInv, Owning
  <2>4. AttendedInv'
    BY <2>1 DEF AttendedInv
  <2>5. ASSUME DailyLimit > 0, NEW u \in Users
        PROVE  CountJobsSince(u)' + Cardinality(Admitted(u)') <= DailyLimit - 1 + Cardinality(Slots)
    <3>1. CountJobsSince(u)' = CountJobsSince(u) /\ Admitted(u)' \subseteq Slots
      BY DEF CountJobsSince, Admitted
    <3>2. CountJobsSince(u) \in Nat /\ Cardinality(Slots) \in Nat
          /\ Cardinality(Admitted(u)') \in Nat /\ Cardinality(Admitted(u)') <= Cardinality(Slots)
      <4>1. {j \in today : owner[j] = u} \subseteq Jobs
        BY DEF TypeOK
      <4> QED
        BY <3>1, <4>1, Counts DEF CountJobsSince
    <3>3. CASE u = slot[s].user
      BY <2>5, <3>1, <3>2, <3>3, DailyLimitAssumption
    <3>4. CASE u # slot[s].user
      <4>1. Admitted(u)' = Admitted(u)
        BY <2>1, <3>4 DEF Admitted
      <4> QED
        BY <2>5, <3>1, <4>1 DEF QuotaInv
    <3> QED
      BY <3>3, <3>4
  <2> QED
    BY <2>2, <2>3, <2>4, <2>5 DEF QuotaInv
<1> QED
  BY <1>1, <1>2 DEF EnforceDailyQuota

LEMMA Failed ==
    ASSUME TypeOK, FailOnce
    PROVE  failures' \in 0 .. MaxFailures /\ failures' + crashes' # 0 /\ crashes' = crashes /\ failures' >= failures
  BY BoundsAssumption DEF TypeOK, FailOnce

(* The row of a new job, for a request that goes on or has lost the answer *)
(* to its insert.                                                          *)
LEMMA InsertKeepsQuota ==
    ASSUME TypeOK, OwnerInv, QuotaInv, NEW s \in Slots, NEW j \in Jobs, At(s, "create"), InsertJob(s, j),
           slot'[s].pc \notin {"create"}, \A t \in Slots \ {s} : slot'[t] = slot[t]
    PROVE  QuotaInv'
<1> SUFFICES ASSUME DailyLimit > 0, NEW u \in Users
             PROVE  CountJobsSince(u)' + Cardinality(Admitted(u)') <= DailyLimit - 1 + Cardinality(Slots)
  BY DEF QuotaInv
<1> DEFINE A == {k \in today : owner[k] = u}
           B == {k \in today' : owner'[k] = u}
<1> USE DEF InsertJob, At
<1>0. A \subseteq Jobs /\ Admitted(u) \subseteq Slots /\ Admitted(u)' \subseteq Admitted(u) /\ j \notin A
      /\ slot[s].user \in Users /\ slot[s].user # NoUser
  BY SlotShape, NoUserAssumption DEF TypeOK, Admitted
<1>1. CASE u = slot[s].user
  <2>1. B = A \cup {j}
    BY <1>0, <1>1 DEF TypeOK, OwnerInv
  <2>2. Admitted(u)' = Admitted(u) \ {s} /\ s \in Admitted(u)
    BY <1>1 DEF Admitted
  <2>3. Cardinality(B) = Cardinality(A) + 1
    <3>1. IsFiniteSet(A)
      BY <1>0, Counts
    <3> HIDE DEF A, B, InsertJob, At
    <3> QED
      BY <1>0, <2>1, <3>1, FS_AddElement
  <2>4. Cardinality(Admitted(u)') = Cardinality(Admitted(u)) - 1
    <3>1. IsFiniteSet(Admitted(u))
      BY <1>0, Counts
    <3> HIDE DEF A, B, InsertJob, At
    <3> QED
      BY <2>2, <3>1, FS_RemoveElement
  <2>5. Cardinality(A) + Cardinality(Admitted(u)) <= DailyLimit - 1 + Cardinality(Slots)
    BY DEF QuotaInv, CountJobsSince
  <2> QED
    BY <1>0, <2>3, <2>4, <2>5, Counts, DailyLimitAssumption DEF CountJobsSince
<1>2. CASE u # slot[s].user
  <2>1. B = A
    BY <1>0, <1>2, NoUserAssumption DEF TypeOK, OwnerInv
  <2>2. Admitted(u)' = Admitted(u)
    BY <1>2 DEF Admitted
  <2> QED
    BY <2>1, <2>2 DEF QuotaInv, CountJobsSince
<1> QED
  BY <1>1, <1>2

LEMMA CreateJobKeepsInv ==
    ASSUME GenerationInv, NEW s \in Slots, CreateJob(s) PROVE GenerationInv'
<1> USE DEF GenerationInv, pool, faults
<1>1. PICK j \in Jobs :
        /\ At(s, "create") /\ InsertJob(s, j)
        /\ Carry(s, "wait", j, "none")
        /\ queue' = Append(queue, j) /\ task' = [task EXCEPT ![j] = "queued"]
        /\ UNCHANGED <<stored, faults>>
  BY DEF CreateJob
<1>2. /\ slot' \in [Slots -> Slot] /\ slot'[s].pc = "wait" /\ slot'[s].job = j
      /\ slot'[s].user = slot[s].user /\ slot[s].user \in Users
      /\ \A t \in Slots \ {s} : slot'[t] = slot[t]
  BY <1>1, Goes DEF Owning, At
<1>3. /\ owner[j] = NoUser /\ owner' = [owner EXCEPT ![j] = slot[s].user] /\ owner'[j] # NoUser
      /\ status' = [status EXCEPT ![j] = "running"] /\ today' = today \cup {j}
      /\ UNCHANGED <<providerRuns, files, usage>>
  BY <1>1, <1>2, NoUserAssumption DEF InsertJob, TypeOK
<1>4. TypeOK'
  <2>1. queue' \in Seq(Jobs)
    BY <1>1, AppendProperties DEF TypeOK
  <2>2. IsInjective(queue)'
    <3>1. \A i \in 1 .. Len(queue) : queue[i] # j
      BY <1>3 DEF OwnerInv, TypeOK
    <3> QED
      BY <1>1, <3>1, AppendProperties, LenProperties DEF TypeOK, IsInjective
  <2>3. owner' \in [Jobs -> Users \cup {NoUser}] /\ today' \subseteq Jobs
        /\ status' \in [Jobs -> {"none", "running", "succeeded", "failed"}]
        /\ task' \in [Jobs -> {"none", "queued", "running", "asset", "noAsset", "raised", "gone"}]
    BY <1>1, <1>2, <1>3 DEF TypeOK
  <2> QED
    BY <1>1, <1>2, <1>3, <2>1, <2>2, <2>3 DEF TypeOK
<1>5. OwnerInv'
  <2>1. \A i \in 1 .. Len(queue) : queue[i] \in Jobs /\ owner'[queue[i]] # NoUser
    BY <1>3, LenProperties DEF OwnerInv, TypeOK
  <2>2. \A i \in 1 .. Len(queue') : owner'[queue'[i]] # NoUser
    BY <1>1, <1>3, <2>1, AppendProperties, LenProperties DEF TypeOK
  <2> QED
    BY <1>2, <1>3, <2>2 DEF OwnerInv, TypeOK, Owning
<1>6. AssetInv'
  BY <1>1, <1>2, <1>3 DEF AssetInv, TypeOK
<1>7. BooksInv'
  BY <1>2, <1>3 DEF BooksInv, OwnerInv, TypeOK, Owning
<1>8. AttendedInv'
  <2> SUFFICES ASSUME failures + crashes = 0, NEW k \in Jobs, status'[k] = "running"
               PROVE  \E t \in Slots : slot'[t].pc \in {"wait", "complete", "mark"} /\ slot'[t].job = k
    BY <1>1 DEF AttendedInv
  <2>1. CASE k = j
    BY <1>2, <2>1
  <2>2. CASE k # j
    <3>1. PICK t \in Slots : slot[t].pc \in {"wait", "complete", "mark"} /\ slot[t].job = k
      BY <1>3, <2>2 DEF AttendedInv, TypeOK
    <3> QED
      BY <1>1, <1>2, <3>1 DEF At
  <2> QED
    BY <2>1, <2>2
<1>9. QuotaInv'
  BY <1>1, <1>2, InsertKeepsQuota
<1> QED
  BY <1>4, <1>5, <1>6, <1>7, <1>8, <1>9

LEMMA CreateJobLostKeepsInv ==
    ASSUME GenerationInv, NEW s \in Slots, CreateJobLost(s) PROVE GenerationInv'
<1> USE DEF GenerationInv, pool
<1>1. PICK j \in Jobs : At(s, "create") /\ FailOnce /\ InsertJob(s, j) /\ End(s) /\ UNCHANGED pool
  BY DEF CreateJobLost
<1>2. /\ slot' \in [Slots -> Slot] /\ slot'[s].pc = "idle" /\ slot[s].user \in Users
      /\ \A t \in Slots \ {s} : slot'[t] = slot[t]
  BY <1>1, EndGoes, SlotShape DEF At
<1>3. /\ owner[j] = NoUser /\ owner' = [owner EXCEPT ![j] = slot[s].user] /\ owner'[j] # NoUser
      /\ status' = [status EXCEPT ![j] = "running"] /\ today' = today \cup {j}
      /\ UNCHANGED <<providerRuns, files, usage>>
  BY <1>1, <1>2, NoUserAssumption DEF InsertJob, TypeOK
<1>4. failures' \in 0 .. MaxFailures /\ failures' + crashes' # 0 /\ crashes' = crashes
  BY <1>1, Failed
<1>5. TypeOK'
  <2>1. owner' \in [Jobs -> Users \cup {NoUser}] /\ today' \subseteq Jobs
        /\ status' \in [Jobs -> {"none", "running", "succeeded", "failed"}]
    BY <1>2, <1>3 DEF TypeOK
  <2> QED
    BY <1>1, <1>2, <1>3, <1>4, <2>1 DEF TypeOK
<1>6. OwnerInv'
  <2>1. \A i \in 1 .. Len(queue) : owner'[queue[i]] # NoUser
    BY <1>3, LenProperties DEF OwnerInv, TypeOK
  <2> QED
    BY <1>1, <1>2, <1>3, <2>1 DEF OwnerInv, TypeOK, Owning
<1>7. AssetInv'
  BY <1>1, <1>2, <1>3 DEF AssetInv, TypeOK
<1>8. BooksInv'
  BY <1>2, <1>3 DEF BooksInv, OwnerInv, TypeOK, Owning
<1>9. AttendedInv'
  BY <1>4 DEF AttendedInv
<1>10. QuotaInv'
  BY <1>1, <1>2, InsertKeepsQuota
<1> QED
  BY <1>5, <1>6, <1>7, <1>8, <1>9, <1>10
----------------------------------------------------------------------------
(* The pool takes up and finishes runs; the rows do not change.            *)
LEMMA PoolKeepsInv ==
    ASSUME GenerationInv,
           \/ PickTask
           \/ \E j \in Jobs : StoreAsset(j) \/ ReturnTask(j)
    PROVE  GenerationInv'
<1> USE DEF GenerationInv, db, faults
<1>1. UNCHANGED <<db, slot, faults>>
  BY DEF PickTask, StoreAsset, ReturnTask
<1>2. queue' \in Seq(Jobs) /\ IsInjective(queue)' /\ \A i \in 1 .. Len(queue') : owner[queue'[i]] # NoUser
  <2>1. CASE queue' = queue
    BY <2>1 DEF TypeOK, OwnerInv, IsInjective
  <2>2. CASE queue # <<>> /\ queue' = Tail(queue)
    <3>1. /\ queue' \in Seq(Jobs) /\ Len(queue') = Len(queue) - 1 /\ Len(queue) \in Nat
          /\ \A i \in 1 .. Len(queue') : queue'[i] = queue[i + 1]
      BY <2>2, HeadTailProperties, LenProperties DEF TypeOK
    <3>2. DOMAIN queue' = 1 .. Len(queue') /\ DOMAIN queue = 1 .. Len(queue)
      BY <3>1, LenProperties DEF TypeOK
    <3>3. \A i \in 1 .. Len(queue') : i + 1 \in 1 .. Len(queue)
      BY <3>1
    <3>4. \A a, b \in 1 .. Len(queue') : queue'[a] = queue'[b] => a = b
      <4> SUFFICES ASSUME NEW a \in 1 .. Len(queue'), NEW b \in 1 .. Len(queue'), queue'[a] = queue'[b]
                   PROVE  a = b
        OBVIOUS
      <4>1. a + 1 = b + 1
        BY <3>1, <3>2, <3>3 DEF TypeOK, IsInjective
      <4> QED
        BY <3>1, <4>1
    <3> QED
      BY <3>1, <3>2, <3>3, <3>4 DEF IsInjective, OwnerInv
  <2> QED
    BY <2>1, <2>2 DEF PickTask, StoreAsset, ReturnTask
<1>3. task' \in [Jobs -> {"none", "queued", "running", "asset", "noAsset", "raised", "gone"}]
      /\ stored \subseteq stored' /\ stored' \subseteq Jobs
      /\ \A j \in Jobs : task'[j] = "asset" => j \in stored'
  <2>1. CASE PickTask
    BY <2>1 DEF PickTask, TypeOK, AssetInv
  <2>2. ASSUME NEW j \in Jobs, StoreAsset(j) PROVE <1>3!:
    BY <2>2 DEF StoreAsset, TypeOK, AssetInv
  <2>3. ASSUME NEW j \in Jobs, ReturnTask(j) PROVE <1>3!:
    BY <2>3 DEF ReturnTask, TypeOK, AssetInv
  <2> QED
    BY <2>1, <2>2, <2>3
<1>4. TypeOK'
  BY <1>1, <1>2, <1>3 DEF TypeOK
<1>5. OwnerInv'
  BY <1>1, <1>2 DEF OwnerInv
<1>6. AssetInv'
  BY <1>1, <1>3 DEF AssetInv
<1>7. BooksInv' /\ AttendedInv'
  BY <1>1 DEF BooksInv, AttendedInv
<1>8. QuotaInv'
  BY <1>1, QuotaUntouched DEF Admitted
<1> QED
  BY <1>4, <1>5, <1>6, <1>7, <1>8

(* The wait is over: with what the run returned, or without.               *)
LEMMA CollectKeepsInv ==
    ASSUME GenerationInv, NEW s \in Slots, Collect(s) PROVE GenerationInv'
<1> USE DEF GenerationInv, db, pool, faults, Collect, At
<1>1. slot[s].job \in Jobs /\ slot[s].result \in {"none", "succeeded", "failed"}
  BY DEF OwnerInv, Owning, TypeOK, Slot, Idle
<1>2. PICK pc \in {"complete", "mark"}, result \in {"none", "succeeded", "failed"} :
        /\ slot' \in [Slots -> Slot]
        /\ slot'[s].pc = pc /\ slot'[s].job = slot[s].job /\ slot'[s].result = result
        /\ \A t \in Slots \ {s} : slot'[t] = slot[t]
        /\ pc = "complete" => /\ result \in {"succeeded", "failed"}
                              /\ result = "succeeded" => task[slot[s].job] = "asset"
  <2>1. CASE task[slot[s].job] = "asset" /\ Carry(s, "complete", slot[s].job, "succeeded")
    BY <1>1, <2>1, Goes DEF Owning
  <2>2. CASE Carry(s, "complete", slot[s].job, "failed")
    BY <1>1, <2>2, Goes DEF Owning
  <2>3. CASE Goto(s, "mark")
    BY <1>1, <2>3, GotoGoes DEF Owning
  <2> QED
    BY <2>1, <2>2, <2>3
<1>3. TypeOK'
  BY <1>2 DEF TypeOK
<1>4. OwnerInv' /\ AssetInv' /\ BooksInv'
  BY <1>1, <1>2 DEF OwnerInv, AssetInv, BooksInv, Owning
<1>5. AttendedInv'
  BY <1>2 DEF AttendedInv
<1>6. QuotaInv'
  BY <1>2, QuotaUntouched DEF Admitted
<1> QED
  BY <1>3, <1>4, <1>5, <1>6

LEMMA DeadlineKeepsInv ==
    ASSUME GenerationInv, NEW s \in Slots, Deadline(s) PROVE GenerationInv'
<1> USE DEF GenerationInv, db, faults, Deadline, At
<1>1. /\ slot' \in [Slots -> Slot] /\ slot'[s].pc = "mark" /\ slot'[s].job = slot[s].job
      /\ slot'[s].result = slot[s].result /\ \A t \in Slots \ {s} : slot'[t] = slot[t]
  BY GotoGoes DEF Owning
<1>2. queue' \in Seq(Jobs) /\ IsInjective(queue)' /\ \A i \in 1 .. Len(queue') : owner[queue'[i]] # NoUser
  <2>1. CASE queue' = queue
    BY <2>1 DEF TypeOK, OwnerInv, IsInjective
  <2>2. ASSUME NEW i \in DOMAIN queue, queue' = RemoveAt(queue, i)
        PROVE  <1>2!:
    <3>1. DOMAIN queue = 1 .. Len(queue) /\ Len(queue) \in Nat /\ queue \in Seq(Jobs)
      BY LenProperties DEF TypeOK
    <3>a. /\ RemoveAt(queue, i) \in Seq(Jobs)
          /\ Len(RemoveAt(queue, i)) = Len(queue) - 1
          /\ \A k \in 1 .. Len(queue) - 1 :
                RemoveAt(queue, i)[k] = IF k < i THEN queue[k] ELSE queue[k + 1]
      BY <3>1, RemoveAtProperties
    <3>2. /\ queue' \in Seq(Jobs) /\ Len(queue') = Len(queue) - 1
          /\ \A k \in 1 .. Len(queue') : queue'[k] = IF k < i THEN queue[k] ELSE queue[k + 1]
      BY <2>2, <3>a
    <3>3. DOMAIN queue' = 1 .. Len(queue')
      BY <3>2, LenProperties
    <3>4. \A a, b \in 1 .. Len(queue') : queue'[a] = queue'[b] => a = b
      <4> SUFFICES ASSUME NEW a \in 1 .. Len(queue'), NEW b \in 1 .. Len(queue'), queue'[a] = queue'[b]
                   PROVE  a = b
        OBVIOUS
      <4> DEFINE up(k) == IF k < i THEN k ELSE k + 1
      <4>1. up(a) \in 1 .. Len(queue) /\ up(b) \in 1 .. Len(queue)
        BY <3>1, <3>2
      <4>2. queue[up(a)] = queue[up(b)]
        BY <3>2
      <4>3. up(a) = up(b)
        <5> HIDE DEF up
        <5> QED
          BY <3>1, <4>1, <4>2 DEF TypeOK, IsInjective
      <4> QED
        BY <3>1, <3>2, <4>3
    <3>5. \A k \in 1 .. Len(queue') : owner[queue'[k]] # NoUser
      BY <3>1, <3>2 DEF OwnerInv
    <3> QED
      BY <3>2, <3>3, <3>4, <3>5 DEF IsInjective
  <2> QED
    BY <2>1, <2>2
<1>3. task' \in [Jobs -> {"none", "queued", "running", "asset", "noAsset", "raised", "gone"}]
      /\ \A j \in Jobs : task'[j] = "asset" => j \in stored
  BY DEF TypeOK, AssetInv
<1>4. TypeOK'
  BY <1>1, <1>2, <1>3 DEF TypeOK
<1>5. OwnerInv'
  BY <1>1, <1>2 DEF OwnerInv, Owning
<1>6. AssetInv' /\ BooksInv'
  BY <1>1, <1>3 DEF AssetInv, BooksInv, Owning
<1>7. AttendedInv'
  BY <1>1 DEF AttendedInv
<1>8. QuotaInv'
  BY <1>1, QuotaUntouched DEF Admitted
<1> QED
  BY <1>4, <1>5, <1>6, <1>7, <1>8
----------------------------------------------------------------------------
(* The row is settled, or its settling fails; status' is the request's job *)
(* with another value, or the same.                                        *)
LEMMA SettleKeepsTypes ==
    ASSUME TypeOK, NEW s \in Slots, slot[s].pc \in Owning, NEW value \in {"succeeded", "failed"},
           SetStatus(s, value)
    PROVE  /\ status' \in [Jobs -> {"none", "running", "succeeded", "failed"}]
           /\ \A j \in Jobs \ {slot[s].job} : status'[j] = status[j]
           /\ slot[s].job \in Jobs => status'[slot[s].job] = value
           /\ UNCHANGED <<owner, today, providerRuns, files, usage>>
  BY DEF SetStatus, TypeOK

LEMMA CompleteJobKeepsInv ==
    ASSUME GenerationInv, NEW s \in Slots, CompleteJob(s) PROVE GenerationInv'
<1> USE DEF GenerationInv, pool, faults, CompleteJob, At
<1>1. slot[s].job \in Jobs /\ slot[s].result \in {"succeeded", "failed"} /\ owner[slot[s].job] # NoUser
      /\ (slot[s].result = "succeeded" => slot[s].job \in stored) /\ slot[s].job \notin usage
  BY DEF OwnerInv, AssetInv, BooksInv, Owning
<1>2. /\ slot' \in [Slots -> Slot] /\ slot'[s].pc = "provider" /\ slot'[s].job = slot[s].job
      /\ slot'[s].result = slot[s].result /\ \A t \in Slots \ {s} : slot'[t] = slot[t]
  BY GotoGoes DEF Owning
<1>3. /\ status' \in [Jobs -> {"none", "running", "succeeded", "failed"}]
      /\ \A j \in Jobs \ {slot[s].job} : status'[j] = status[j]
      /\ status'[slot[s].job] = slot[s].result
      /\ UNCHANGED <<owner, today, providerRuns, files, usage>>
  BY <1>1, SettleKeepsTypes DEF Owning
<1>4. TypeOK'
  BY <1>2, <1>3 DEF TypeOK
<1>5. OwnerInv' /\ AssetInv'
  BY <1>1, <1>2, <1>3 DEF OwnerInv, AssetInv, Owning
<1>6. BooksInv'
  <2>1. \A t \in Slots \ {s} : slot[t].pc \in Owning => slot[t].job # slot[s].job /\ slot[t].job \in Jobs
    BY DEF OwnerInv, Owning
  <2> QED
    BY <1>1, <1>2, <1>3, <2>1 DEF BooksInv, Owning, TypeOK
<1>7. AttendedInv'
  BY <1>1, <1>2, <1>3 DEF AttendedInv
<1>8. QuotaInv'
  BY <1>2, <1>3, QuotaUntouched DEF Admitted
<1> QED
  BY <1>4, <1>5, <1>6, <1>7, <1>8

LEMMA CompleteJobFailsKeepsInv ==
    ASSUME GenerationInv, NEW s \in Slots, CompleteJobFails(s) PROVE GenerationInv'
<1> USE DEF GenerationInv, pool, CompleteJobFails, At, db
<1>1. slot[s].job \in Jobs /\ slot[s].result \in {"succeeded", "failed"} /\ owner[slot[s].job] # NoUser
      /\ (slot[s].result = "succeeded" => slot[s].job \in stored) /\ slot[s].job \notin usage
  BY DEF OwnerInv, AssetInv, BooksInv, Owning
<1>2. /\ slot' \in [Slots -> Slot] /\ slot'[s].pc = "mark" /\ slot'[s].job = slot[s].job
      /\ slot'[s].result = slot[s].result /\ \A t \in Slots \ {s} : slot'[t] = slot[t]
  BY GotoGoes DEF Owning
<1>3. /\ status' \in [Jobs -> {"none", "running", "succeeded", "failed"}]
      /\ \A j \in Jobs \ {slot[s].job} : status'[j] = status[j]
      /\ status'[slot[s].job] \in {status[slot[s].job], slot[s].result}
      /\ UNCHANGED <<owner, today, providerRuns, files, usage>>
  <2>1. CASE SetStatus(s, slot[s].result)
    BY <1>1, <2>1, SettleKeepsTypes DEF Owning
  <2>2. CASE UNCHANGED db
    BY <2>2 DEF TypeOK
  <2> QED
    BY <2>1, <2>2
<1>4. failures' \in 0 .. MaxFailures /\ failures' + crashes' # 0 /\ crashes' = crashes
  BY Failed
<1>5. TypeOK'
  BY <1>2, <1>3, <1>4 DEF TypeOK
<1>6. OwnerInv' /\ AssetInv'
  BY <1>1, <1>2, <1>3 DEF OwnerInv, AssetInv, Owning
<1>7. BooksInv'
  <2>1. \A t \in Slots \ {s} : slot[t].pc \in Owning => slot[t].job # slot[s].job /\ slot[t].job \in Jobs
    BY DEF OwnerInv, Owning
  <2> QED
    BY <1>1, <1>2, <1>3, <2>1 DEF BooksInv, Owning, TypeOK
<1>8. AttendedInv'
  BY <1>4 DEF AttendedInv
<1>9. QuotaInv'
  BY <1>2, <1>3, QuotaUntouched DEF Admitted
<1> QED
  BY <1>5, <1>6, <1>7, <1>8, <1>9

LEMMA MarkKeepsInv ==
    ASSUME GenerationInv, NEW s \in Slots, SafeMarkFailed(s) \/ SafeMarkFailedFails(s)
    PROVE  GenerationInv'
<1> USE DEF GenerationInv, pool, SafeMarkFailed, SafeMarkFailedFails, At, db, faults
<1>1. slot[s].job \in Jobs /\ owner[slot[s].job] # NoUser /\ slot[s].job \notin usage /\ slot[s].pc = "mark"
  BY DEF OwnerInv, BooksInv, Owning
<1>2. /\ slot' \in [Slots -> Slot] /\ slot'[s].pc = "idle" /\ \A t \in Slots \ {s} : slot'[t] = slot[t]
  BY EndGoes
<1>3. /\ status' \in [Jobs -> {"none", "running", "succeeded", "failed"}]
      /\ \A j \in Jobs \ {slot[s].job} : status'[j] = status[j]
      /\ status'[slot[s].job] \in {status[slot[s].job], "failed"}
      /\ UNCHANGED <<owner, today, providerRuns, files, usage>>
  <2>1. CASE SetStatus(s, "failed")
    BY <1>1, <2>1, SettleKeepsTypes DEF Owning
  <2>2. CASE UNCHANGED db
    BY <2>2 DEF TypeOK
  <2> QED
    BY <2>1, <2>2
<1>4. failures' \in 0 .. MaxFailures /\ crashes' = crashes
      /\ (failures' + crashes' = 0 => failures' = failures /\ status'[slot[s].job] = "failed")
  <2>1. CASE SafeMarkFailed(s)
    BY <1>1, <2>1, SettleKeepsTypes DEF TypeOK, Owning
  <2>2. CASE SafeMarkFailedFails(s)
    BY <2>2, Failed
  <2> QED
    BY <2>1, <2>2
<1>5. TypeOK'
  BY <1>2, <1>3, <1>4 DEF TypeOK
<1>6. OwnerInv' /\ AssetInv'
  BY <1>1, <1>2, <1>3 DEF OwnerInv, AssetInv, Owning
<1>7. BooksInv'
  <2>1. \A t \in Slots \ {s} : slot[t].pc \in Owning => slot[t].job # slot[s].job /\ slot[t].job \in Jobs
    BY <1>1 DEF OwnerInv, Owning
  <2> QED
    BY <1>1, <1>2, <1>3, <2>1 DEF BooksInv, Owning, TypeOK
<1>8. AttendedInv'
  BY <1>1, <1>2, <1>3, <1>4 DEF AttendedInv
<1>9. QuotaInv'
  BY <1>2, <1>3, QuotaUntouched DEF Admitted
<1> QED
  BY <1>5, <1>6, <1>7, <1>8, <1>9

(* A bookkeeping write, done or failed: sets grow by the request's job.    *)
LEMMA BookkeepingKeepsInv ==
    ASSUME GenerationInv, NEW s \in Slots,
           RecordProviderRun(s) \/ InsertFiles(s) \/ RecordUsageEvent(s) \/ BookkeepingFails(s)
    PROVE  GenerationInv'
<1> USE DEF GenerationInv, pool, db, faults, At
<1> DEFINE j == slot[s].job
<1>1. /\ j \in Jobs /\ owner[j] # NoUser /\ j \notin usage /\ status[j] = slot[s].result
      /\ slot[s].pc \in {"provider", "files", "usage"}
  BY DEF RecordProviderRun, InsertFiles, RecordUsageEvent, BookkeepingFails, OwnerInv, BooksInv, Owning
<1>2. PICK pc \in {"files", "usage", "answer"} :
        /\ Goto(s, pc)
        /\ pc = "files" => (providerRuns' = providerRuns \cup {j} /\ slot[s].result = "succeeded")
        /\ pc = "usage" => (slot[s].pc = "files" /\ files' = files \cup {j})
        /\ providerRuns' \in {providerRuns, providerRuns \cup {j}} /\ files' \in {files, files \cup {j}}
        /\ usage' # usage => pc = "answer" /\ slot[s].pc = "usage" /\ usage' = usage \cup {j}
        /\ UNCHANGED <<owner, status, today, pool>>
        /\ failures' \in 0 .. MaxFailures /\ crashes' = crashes
        /\ failures' + crashes' = 0 => failures' = failures
  <2>1. CASE RecordProviderRun(s)
    BY <2>1 DEF RecordProviderRun, TypeOK
  <2>2. CASE InsertFiles(s)
    BY <2>2 DEF InsertFiles, TypeOK
  <2>3. CASE RecordUsageEvent(s)
    BY <2>3 DEF RecordUsageEvent, TypeOK
  <2>4. CASE BookkeepingFails(s)
    BY <2>4, Failed DEF BookkeepingFails
  <2> QED
    BY <2>1, <2>2, <2>3, <2>4
<1>3. /\ slot' \in [Slots -> Slot] /\ slot'[s].pc = pc /\ slot'[s].job = j
      /\ slot'[s].result = slot[s].result /\ \A t \in Slots \ {s} : slot'[t] = slot[t]
  BY <1>1, <1>2, GotoGoes DEF Owning
<1> HIDE DEF j
<1>4. TypeOK'
  BY <1>1, <1>2, <1>3 DEF TypeOK
<1>5. OwnerInv'
  BY <1>1, <1>2, <1>3 DEF OwnerInv, Owning, j
<1>6. AssetInv'
  BY <1>1, <1>2, <1>3 DEF AssetInv, Owning, j
<1>7. BooksInv'
  <2>1. \A t \in Slots \ {s} : slot[t].pc \in Owning => slot[t].job # j /\ slot[t].job \in Jobs
    BY <1>1 DEF OwnerInv, Owning, j
  <2>2. slot[s].pc \in {"files", "usage"} => j \in providerRuns /\ slot[s].result = "succeeded"
    BY DEF BooksInv, j
  <2>3. slot[s].pc = "usage" => j \in files
    BY DEF BooksInv, j
  <2>4. usage' \subseteq {k \in files' \cap providerRuns' : status'[k] = "succeeded"}
    BY <1>1, <1>2, <2>2, <2>3 DEF BooksInv
  <2>5. \A t \in Slots \ {s} : slot[t].pc \in Owning \ {"answer"} => slot[t].job \notin usage'
    BY <1>2, <2>1 DEF BooksInv
  <2>6. /\ pc # "answer" => j \notin usage'
        /\ pc \in {"files", "usage"} => j \in providerRuns' /\ slot[s].result = "succeeded"
        /\ pc = "usage" => j \in files'
    BY <1>1, <1>2, <2>2
  <2> QED
    BY <1>1, <1>2, <1>3, <2>4, <2>5, <2>6 DEF BooksInv, Owning
<1>8. AttendedInv'
  BY <1>1, <1>2, <1>3 DEF AttendedInv
<1>9. QuotaInv'
  BY <1>1, <1>2, <1>3, QuotaUntouched DEF Admitted
<1> QED
  BY <1>4, <1>5, <1>6, <1>7, <1>8, <1>9

LEMMA CrashKeepsInv == ASSUME GenerationInv, Crash PROVE GenerationInv'
<1> USE DEF GenerationInv, db, Crash
<1>1. slot' \in [Slots -> Slot] /\ \A s \in Slots : slot'[s].pc = "idle"
  BY DEF Slot, Idle
<1>2. /\ task' \in [Jobs -> {"none", "queued", "running", "asset", "noAsset", "raised", "gone"}]
      /\ \A j \in Jobs : task'[j] # "asset"
  BY DEF TypeOK
<1>3. crashes' \in 0 .. MaxCrashes /\ failures' + crashes' # 0
  BY BoundsAssumption DEF TypeOK
<1>4. queue' \in Seq(Jobs) /\ IsInjective(queue)' /\ Len(queue') = 0
  BY EmptySeq DEF IsInjective
<1>5. TypeOK'
  BY <1>1, <1>2, <1>3, <1>4 DEF TypeOK
<1>6. OwnerInv' /\ AssetInv' /\ BooksInv' /\ AttendedInv'
  BY <1>1, <1>2, <1>3, <1>4 DEF OwnerInv, AssetInv, BooksInv, AttendedInv, Owning
<1>7. QuotaInv'
  BY <1>1, QuotaUntouched DEF Admitted
<1> QED
  BY <1>5, <1>6, <1>7

LEMMA MidnightKeepsInv == ASSUME GenerationInv, Midnight PROVE GenerationInv'
<1> USE DEF GenerationInv, pool, faults, Midnight
<1>1. TypeOK'
  BY DEF TypeOK
<1>2. OwnerInv' /\ AssetInv' /\ BooksInv' /\ AttendedInv'
  BY DEF OwnerInv, AssetInv, BooksInv, AttendedInv
<1>3. QuotaInv'
  BY QuotaUntouched DEF Admitted
<1> QED
  BY <1>1, <1>2, <1>3
----------------------------------------------------------------------------
LEMMA NextKeepsInv == GenerationInv /\ [Next]_vars => GenerationInv'
<1> SUFFICES ASSUME GenerationInv, [Next]_vars PROVE GenerationInv'
  OBVIOUS
<1>1. CASE UNCHANGED vars
  <2> USE <1>1 DEF vars, db, pool, faults, GenerationInv
  <2>1. TypeOK' /\ OwnerInv' /\ AssetInv' /\ BooksInv' /\ AttendedInv'
    BY DEF TypeOK, IsInjective, OwnerInv, AssetInv, BooksInv, AttendedInv
  <2>2. QuotaInv'
    BY QuotaUntouched DEF Admitted
  <2> QED
    BY <2>1, <2>2
<1>2. ASSUME NEW s \in Slots, Serve(s) PROVE GenerationInv'
  <2>1. CASE EnforceDailyQuota(s) \/ CreateJob(s)
    BY <2>1, EnforceKeepsInv, CreateJobKeepsInv
  <2>2. CASE Collect(s) \/ Deadline(s)
    BY <2>2, CollectKeepsInv, DeadlineKeepsInv
  <2>3. CASE CompleteJob(s) \/ SafeMarkFailed(s)
    BY <2>3, CompleteJobKeepsInv, MarkKeepsInv
  <2>4. CASE RecordProviderRun(s) \/ InsertFiles(s) \/ RecordUsageEvent(s)
    BY <2>4, BookkeepingKeepsInv
  <2>5. CASE Answer(s)
    BY <2>5, LeaveKeepsInv, BoundsAssumption DEF Answer, At, faults, GenerationInv, TypeOK
  <2> QED
    BY <1>2, <2>1, <2>2, <2>3, <2>4, <2>5 DEF Serve
<1>3. ASSUME NEW s \in Slots, CallFails(s) PROVE GenerationInv'
  <2>1. CASE FailEarly(s)
    BY <2>1, Failed, LeaveKeepsInv DEF FailEarly, At, FailOnce, GenerationInv
  <2>2. CASE CreateJobLost(s) \/ CompleteJobFails(s)
    BY <2>2, CreateJobLostKeepsInv, CompleteJobFailsKeepsInv
  <2>3. CASE SafeMarkFailedFails(s) \/ BookkeepingFails(s)
    BY <2>3, MarkKeepsInv, BookkeepingKeepsInv
  <2> QED
    BY <1>3, <2>1, <2>2, <2>3 DEF CallFails
<1>4. ASSUME NEW s \in Slots, NEW u \in Users, Begin(s, u) PROVE GenerationInv'
  BY <1>4, BeginKeepsInv
<1>5. CASE PickTask \/ \E j \in Jobs : StoreAsset(j) \/ ReturnTask(j)
  BY <1>5, PoolKeepsInv
<1>6. CASE Crash \/ Midnight
  BY <1>6, CrashKeepsInv, MidnightKeepsInv
<1> QED
  BY <1>1, <1>2, <1>3, <1>4, <1>5, <1>6 DEF Next

(* The invariant of generate's steps, and with it the types.               *)
THEOREM GenerationInvariant == Spec => []GenerationInv
<1>1. Init => GenerationInv
  BY GenerationInvInit
<1>2. GenerationInv /\ [Next]_vars => GenerationInv'
  BY NextKeepsInv
<1> QED
  BY <1>1, <1>2, PTL DEF Spec

(* Every variable keeps its type; no job waits twice in the pool's queue   *)
(* (generate, _gen_executor).                                              *)
THEOREM GenerationTypes == Spec => []TypeOK
<1>1. GenerationInv => TypeOK
  BY DEF GenerationInv
<1> QED
  BY <1>1, GenerationInvariant, PTL

(* Succeeded means the image is in B2, and metered means succeeded, with   *)
(* run and files recorded, whatever fails (generate, _safe_mark_failed).   *)
THEOREM UsageStaysEarned == Spec => []UsageIsEarned
<1>1. GenerationInv => UsageIsEarned
  BY DEF GenerationInv, AssetInv, BooksInv, UsageIsEarned
<1> QED
  BY <1>1, GenerationInvariant, PTL

(* The quota is passed by less than the requests in progress               *)
(* (_enforce_daily_quota, count_jobs_since).                               *)
THEOREM OvershootIsBounded == Spec => []QuotaOvershoot
<1>1. GenerationInv => QuotaOvershoot
  <2> SUFFICES ASSUME GenerationInv, DailyLimit > 0, NEW u \in Users
               PROVE  CountJobsSince(u) <= DailyLimit - 1 + Cardinality(Slots)
    BY DEF QuotaOvershoot
  <2> DEFINE A == {j \in today : owner[j] = u}
  <2>1. A \subseteq Jobs /\ Admitted(u) \subseteq Slots
    BY DEF GenerationInv, TypeOK, Admitted
  <2>2. Cardinality(A) \in Nat /\ Cardinality(Admitted(u)) \in Nat /\ Cardinality(Slots) \in Nat
    BY <2>1, Counts
  <2>3. Cardinality(A) + Cardinality(Admitted(u)) <= DailyLimit - 1 + Cardinality(Slots)
    BY DEF GenerationInv, QuotaInv, CountJobsSince
  <2> QED
    BY <2>2, <2>3, DailyLimitAssumption DEF CountJobsSince
<1> QED
  BY <1>1, GenerationInvariant, PTL

(* Without failures no row is left running by a request that is over       *)
(* (generate's deadline, its except blocks).                               *)
THEOREM UnattendedStaysSettled == Spec => []UnattendedIsSettled
<1>1. GenerationInv => UnattendedIsSettled
  BY DEF GenerationInv, AttendedInv, UnattendedIsSettled, Stranded, At
<1> QED
  BY <1>1, GenerationInvariant, PTL
----------------------------------------------------------------------------
(* What ties a row to the request and the run it belongs to: a row that is *)
(* there has a status, only such a job is ever run, and a request that     *)
(* waits for its run or is about to complete it finds the row running.     *)
LedgerInv ==
  /\ \A j \in Jobs : owner[j] # NoUser => status[j] # "none"
  /\ \A j \in Jobs : task[j] # "none" => owner[j] # NoUser
  /\ \A s \in Slots : slot[s].pc \in {"wait", "complete"} => status[slot[s].job] = "running"

LedgerStep == Ledger!Next \/ UNCHANGED <<owner, status, stored, usage>>

LEMMA LedgerInvInit == Init => LedgerInv
  BY DEF Init, LedgerInv, Idle

(* A step of one request, of which no other request is told: it touches no *)
(* row but its own, and comes to complete only from waiting.               *)
LEMMA MoveKeepsLedgerInv ==
    ASSUME GenerationInv, LedgerInv, NEW s \in Slots, UNCHANGED owner,
           \A t \in Slots \ {s} : slot'[t] = slot[t],
           slot'[s].pc \in {"wait", "complete"} =>
              (slot[s].pc = "wait" /\ slot'[s].job = slot[s].job /\ UNCHANGED status),
           \A j \in Jobs : \/ status'[j] = status[j]
                           \/ slot[s].pc \in Owning /\ j = slot[s].job /\ status'[j] # "none",
           \A j \in Jobs : task'[j] # "none" => task[j] # "none"
    PROVE  LedgerInv'
<1>1. \A t \in Slots \ {s} : slot[t].pc \in {"wait", "complete"} =>
        slot[t].job \in Jobs /\ status'[slot[t].job] = status[slot[t].job]
  BY DEF GenerationInv, OwnerInv, Owning
<1> QED
  BY <1>1 DEF LedgerInv

(* The row of a request that is not over is given its status.              *)
LEMMA SetStatusMaps ==
    ASSUME GenerationInv, LedgerInv, NEW s \in Slots, slot[s].pc \in Owning \ {"answer"},
           NEW value \in {"succeeded", "failed"}, SetStatus(s, value), UNCHANGED stored,
           value = "succeeded" => (status[slot[s].job] = "running" /\ slot[s].job \in stored)
    PROVE  LedgerStep
<1> DEFINE j == slot[s].job
<1>1. /\ j \in Jobs /\ j \notin usage /\ status[j] \in {"running", "succeeded", "failed"}
      /\ status \in [Jobs -> {"none", "running", "succeeded", "failed"}]
  BY DEF GenerationInv, OwnerInv, BooksInv, LedgerInv, TypeOK
<1>2. status' = [status EXCEPT ![j] = value] /\ UNCHANGED <<owner, usage>>
  BY DEF SetStatus
<1>3. CASE value = "succeeded"
  <2>1. Ledger!Succeed(j)
    BY <1>2, <1>3 DEF Ledger!Succeed, Ledger!SetTo
  <2> QED
    BY <1>1, <2>1 DEF LedgerStep, Ledger!Next
<1>4. CASE value = "failed" /\ status[j] \in {"running", "succeeded"}
  <2>1. Ledger!Fail(j)
    BY <1>1, <1>2, <1>4 DEF Ledger!Fail, Ledger!SetTo
  <2> QED
    BY <1>1, <2>1 DEF LedgerStep, Ledger!Next
<1>5. CASE value = "failed" /\ status[j] = "failed"
  BY <1>1, <1>2, <1>5 DEF LedgerStep
<1> QED
  BY <1>1, <1>3, <1>4, <1>5

(* A request that is let in, passes the quota or leaves.                   *)
LEMMA DoorMaps ==
    ASSUME GenerationInv, LedgerInv, NEW s \in Slots,
           \/ \E u \in Users : Begin(s, u)
           \/ EnforceDailyQuota(s) \/ FailEarly(s) \/ Answer(s)
    PROVE  LedgerInv' /\ LedgerStep
<1>1. UNCHANGED <<db, pool>> /\ TypeOK
  BY DEF Begin, EnforceDailyQuota, FailEarly, Answer, GenerationInv
<1>2. slot'[s].pc \in {"quota", "create", "idle"} /\ \A t \in Slots \ {s} : slot'[t] = slot[t]
  <2>1. ASSUME NEW u \in Users, Begin(s, u) PROVE <1>2!:
    BY <1>1, <2>1 DEF Begin, TypeOK
  <2>2. CASE End(s)
    BY <1>1, <2>2, EndGoes
  <2>3. CASE Goto(s, "create") /\ EnforceDailyQuota(s)
    BY <1>1, <2>3, GotoGoes DEF EnforceDailyQuota, At
  <2> QED
    BY <2>1, <2>2, <2>3 DEF EnforceDailyQuota, FailEarly, Answer
<1>3. LedgerInv'
  BY <1>1, <1>2, MoveKeepsLedgerInv DEF db, pool
<1> QED
  BY <1>1, <1>3 DEF LedgerStep, db, pool

(* A new row is a job opened for the request's user.                       *)
LEMMA CreateMaps ==
    ASSUME GenerationInv, LedgerInv, NEW s \in Slots, CreateJob(s) \/ CreateJobLost(s)
    PROVE  LedgerInv' /\ LedgerStep
<1>1. PICK j \in Jobs :
        /\ At(s, "create") /\ InsertJob(s, j) /\ UNCHANGED stored
        /\ task' = task \/ task' = [task EXCEPT ![j] = "queued"]
        /\ Carry(s, "wait", j, "none") \/ End(s)
  BY DEF CreateJob, CreateJobLost, pool
<1>2. TypeOK /\ OwnerInv
  BY DEF GenerationInv
<1>3. slot[s].user \in Users /\ slot[s].user # NoUser
  BY <1>1, <1>2, SlotShape, NoUserAssumption DEF At
<1>4. /\ owner' = [owner EXCEPT ![j] = slot[s].user] /\ status' = [status EXCEPT ![j] = "running"]
      /\ UNCHANGED usage /\ status[j] = "none" /\ owner[j] = NoUser
  BY <1>1, <1>2 DEF InsertJob, OwnerInv
<1>5. /\ \A t \in Slots \ {s} : slot'[t] = slot[t]
      /\ slot'[s].pc = "idle" \/ slot'[s].job = j
  BY <1>1, <1>2, EndGoes, Goes DEF At, Owning
<1>6. \A t \in Slots \ {s} : slot[t].pc \in {"wait", "complete"} => slot[t].job \in Jobs \ {j}
  BY <1>2, <1>4 DEF OwnerInv, Owning
<1>7. /\ \A k \in Jobs \ {j} : owner'[k] = owner[k] /\ status'[k] = status[k] /\ task'[k] = task[k]
      /\ owner'[j] # NoUser /\ status'[j] = "running"
  BY <1>1, <1>2, <1>3, <1>4 DEF TypeOK
<1>8. LedgerInv'
  BY <1>5, <1>6, <1>7 DEF LedgerInv
<1>9. Ledger!Open(j, slot[s].user)
  BY <1>1, <1>4 DEF Ledger!Open, Ledger!SetTo
<1> QED
  BY <1>3, <1>8, <1>9 DEF LedgerStep, Ledger!Next

(* The pool touches no row; what it stores is the image of a job there is. *)
LEMMA PoolMaps ==
    ASSUME GenerationInv, LedgerInv,
           \/ PickTask
           \/ \E j \in Jobs : StoreAsset(j) \/ ReturnTask(j)
    PROVE  LedgerInv' /\ LedgerStep
<1>1. UNCHANGED <<db, slot>> /\ TypeOK /\ OwnerInv
  BY DEF PickTask, StoreAsset, ReturnTask, GenerationInv
<1>2. \A j \in Jobs : task'[j] # "none" => owner[j] # NoUser
  <2>1. CASE PickTask
    <3>1. Head(queue) = queue[1] /\ 1 \in 1 .. Len(queue)
      BY <1>1, <2>1, HeadTailProperties, LenProperties DEF PickTask, TypeOK
    <3> QED
      BY <1>1, <2>1, <3>1 DEF PickTask, TypeOK, OwnerInv, LedgerInv
  <2>2. ASSUME NEW j \in Jobs, StoreAsset(j) PROVE <1>2!:
    BY <2>2 DEF StoreAsset, LedgerInv
  <2>3. ASSUME NEW j \in Jobs, ReturnTask(j) PROVE <1>2!:
    BY <1>1, <2>3 DEF ReturnTask, TypeOK, LedgerInv
  <2> QED
    BY <2>1, <2>2, <2>3
<1>3. LedgerInv'
  BY <1>1, <1>2 DEF LedgerInv, db
<1>4. ASSUME NEW j \in Jobs, StoreAsset(j) PROVE Ledger!Store(j)
  BY <1>4 DEF StoreAsset, LedgerInv, Ledger!Store, db
<1> QED
  BY <1>1, <1>3, <1>4 DEF LedgerStep, Ledger!Next, PickTask, ReturnTask, db

(* A request that stops waiting has not touched its row.                   *)
LEMMA WaitMaps ==
    ASSUME GenerationInv, LedgerInv, NEW s \in Slots, Collect(s) \/ Deadline(s)
    PROVE  LedgerInv' /\ LedgerStep
<1>1. TypeOK /\ slot[s].pc = "wait" /\ slot[s].job \in Jobs /\ UNCHANGED <<db, stored>>
  BY DEF GenerationInv, OwnerInv, Owning, Collect, Deadline, At, pool
<1>2. slot'[s].job = slot[s].job /\ \A t \in Slots \ {s} : slot'[t] = slot[t]
  <2>1. CASE \E result \in {"succeeded", "failed"} : Carry(s, "complete", slot[s].job, result)
    BY <1>1, <2>1, Goes DEF Owning
  <2>2. CASE Goto(s, "mark")
    BY <1>1, <2>2, GotoGoes DEF Owning
  <2> QED
    BY <2>1, <2>2 DEF Collect, Deadline
<1>3. \A j \in Jobs : task'[j] # "none" => task[j] # "none"
  BY <1>1 DEF Collect, Deadline, TypeOK, pool
<1>4. LedgerInv'
  BY <1>1, <1>2, <1>3, MoveKeepsLedgerInv DEF db
<1> QED
  BY <1>1, <1>4 DEF LedgerStep, db

(* The row is settled or marked failed, or the call that would was lost.   *)
LEMMA SettleMaps ==
    ASSUME GenerationInv, LedgerInv, NEW s \in Slots,
           CompleteJob(s) \/ CompleteJobFails(s) \/ SafeMarkFailed(s) \/ SafeMarkFailedFails(s)
    PROVE  LedgerInv' /\ LedgerStep
<1> USE DEF CompleteJob, CompleteJobFails, SafeMarkFailed, SafeMarkFailedFails, At
<1>1. TypeOK /\ slot[s].pc \in {"complete", "mark"} /\ slot[s].job \in Jobs /\ UNCHANGED pool
  BY DEF GenerationInv, OwnerInv, Owning
<1>2. slot'[s].pc \in {"provider", "mark", "idle"} /\ \A t \in Slots \ {s} : slot'[t] = slot[t]
  BY <1>1, GotoGoes, EndGoes DEF Owning
<1>3. \/ UNCHANGED db
      \/ \E value \in {"succeeded", "failed"} :
            /\ SetStatus(s, value)
            /\ value = "succeeded" => (status[slot[s].job] = "running" /\ slot[s].job \in stored)
  <2>1. CASE slot[s].pc = "complete"
    <3>1. /\ slot[s].result \in {"succeeded", "failed"} /\ status[slot[s].job] = "running"
          /\ slot[s].result = "succeeded" => slot[s].job \in stored
      BY <2>1 DEF GenerationInv, AssetInv, LedgerInv
    <3> QED
      BY <2>1, <3>1
  <2>2. CASE slot[s].pc = "mark"
    BY <2>2
  <2> QED
    BY <1>1, <2>1, <2>2
<1>4. UNCHANGED owner /\ \A j \in Jobs : status'[j] = status[j] \/ (j = slot[s].job /\ status'[j] # "none")
  BY <1>1, <1>3 DEF SetStatus, TypeOK, db
<1>5. LedgerInv'
  BY <1>1, <1>2, <1>4, MoveKeepsLedgerInv DEF Owning, pool
<1>6. LedgerStep
  BY <1>1, <1>3, SetStatusMaps DEF Owning, LedgerStep, db, pool
<1> QED
  BY <1>5, <1>6

(* A bookkeeping write meters a job or changes nothing the ledger shows.   *)
LEMMA BookkeepingMaps ==
    ASSUME GenerationInv, LedgerInv, NEW s \in Slots,
           RecordProviderRun(s) \/ InsertFiles(s) \/ RecordUsageEvent(s) \/ BookkeepingFails(s)
    PROVE  LedgerInv' /\ LedgerStep
<1> USE DEF RecordProviderRun, InsertFiles, RecordUsageEvent, BookkeepingFails, At
<1> DEFINE j == slot[s].job
<1>1. TypeOK /\ slot[s].pc \in {"provider", "files", "usage"} /\ j \in Jobs
  BY DEF GenerationInv, OwnerInv, Owning
<1>2. UNCHANGED <<owner, status, pool>>
  BY DEF db
<1>3. slot'[s].pc \in {"files", "usage", "answer"} /\ \A t \in Slots \ {s} : slot'[t] = slot[t]
  BY <1>1, GotoGoes DEF Owning
<1>4. LedgerInv'
  BY <1>2, <1>3, MoveKeepsLedgerInv DEF pool
<1>5. usage' = usage \/ (slot[s].pc = "usage" /\ usage' = usage \cup {j})
  BY DEF db
<1>6. CASE slot[s].pc = "usage" /\ usage' = usage \cup {j}
  <2>1. status[j] = "succeeded"
    BY <1>6 DEF GenerationInv, BooksInv
  <2>2. Ledger!Meter(j)
    BY <1>2, <1>6, <2>1 DEF Ledger!Meter, pool
  <2> QED
    BY <1>1, <1>4, <2>2 DEF LedgerStep, Ledger!Next
<1>7. CASE usage' = usage
  BY <1>2, <1>4, <1>7 DEF LedgerStep, pool
<1> QED
  BY <1>5, <1>6, <1>7

LEMMA CrashMaps ==
    ASSUME GenerationInv, LedgerInv, Crash \/ Midnight PROVE LedgerInv' /\ LedgerStep
  BY DEF LedgerInv, LedgerStep, Crash, Midnight, Idle, db, pool

(* Every step keeps the invariant and is a step of the ledger or none.     *)
LEMMA NextMaps == GenerationInv /\ LedgerInv /\ [Next]_vars => LedgerInv' /\ LedgerStep
<1> SUFFICES ASSUME GenerationInv, LedgerInv, [Next]_vars PROVE LedgerInv' /\ LedgerStep
  OBVIOUS
<1>1. CASE UNCHANGED vars
  BY <1>1 DEF vars, db, pool, LedgerInv, LedgerStep
<1>2. ASSUME NEW s \in Slots, Serve(s) \/ CallFails(s) PROVE LedgerInv' /\ LedgerStep
  <2>1. CASE EnforceDailyQuota(s) \/ FailEarly(s) \/ Answer(s)
    BY <2>1, DoorMaps
  <2>2. CASE CreateJob(s) \/ CreateJobLost(s)
    BY <2>2, CreateMaps
  <2>3. CASE Collect(s) \/ Deadline(s)
    BY <2>3, WaitMaps
  <2>4. CASE CompleteJob(s) \/ CompleteJobFails(s) \/ SafeMarkFailed(s) \/ SafeMarkFailedFails(s)
    BY <2>4, SettleMaps
  <2>5. CASE RecordProviderRun(s) \/ InsertFiles(s) \/ RecordUsageEvent(s) \/ BookkeepingFails(s)
    BY <2>5, BookkeepingMaps
  <2> QED
    BY <1>2, <2>1, <2>2, <2>3, <2>4, <2>5 DEF Serve, CallFails
<1>3. ASSUME NEW s \in Slots, NEW u \in Users, Begin(s, u) PROVE LedgerInv' /\ LedgerStep
  BY <1>3, DoorMaps
<1>4. CASE PickTask \/ \E j \in Jobs : StoreAsset(j) \/ ReturnTask(j)
  BY <1>4, PoolMaps
<1>5. CASE Crash \/ Midnight
  BY <1>5, CrashMaps
<1> QED
  BY <1>1, <1>2, <1>3, <1>4, <1>5 DEF Next

(* The requests, the pool and their failures implement the ledger of jobs: *)
(* a failed job never becomes another, a metered one never changes         *)
(* (generate, complete_job, _safe_mark_failed, record_usage_event).        *)
THEOREM LedgerIsKept == Spec => KeepsLedger
<1>1. Init => LedgerInv /\ Ledger!Init
  BY LedgerInvInit DEF Init, Ledger!Init
<1>2. GenerationInv /\ LedgerInv /\ [Next]_vars => LedgerInv' /\ [Ledger!Next]_(Ledger!ledger)
  BY NextMaps DEF LedgerStep, Ledger!ledger
<1> QED
  BY <1>1, <1>2, GenerationInvariant, PTL DEF Spec, KeepsLedger, Ledger!Spec
============================================================================
