------------------------------ MODULE JobLedger ------------------------------
(***************************************************************************)
(* What image generation promises about a job, with no quota, no requests, *)
(* no thread pool and no failures: a job is opened for one user, succeeds  *)
(* only once its image is stored, is metered only while it stands as       *)
(* succeeded, and then never changes again.                                *)
(***************************************************************************)
CONSTANTS
    Users,
    Jobs,
    NoUser

VARIABLES
    owner,      \* whose job it is, NoUser before it is opened
    status,
    stored,     \* the jobs whose image is stored
    usage       \* the jobs their user is metered for

ledger == <<owner, status, stored, usage>>

Init ==
    /\ owner = [j \in Jobs |-> NoUser]
    /\ status = [j \in Jobs |-> "none"]
    /\ stored = {}
    /\ usage = {}

SetTo(j, value) == status' = [status EXCEPT ![j] = value]

Open(j, u) ==
    /\ status[j] = "none"
    /\ owner' = [owner EXCEPT ![j] = u]
    /\ SetTo(j, "running")
    /\ UNCHANGED <<stored, usage>>

\* Also of a job that has failed: a run that is given up still stores its image.
Store(j) ==
    /\ status[j] # "none"
    /\ stored' = stored \cup {j}
    /\ UNCHANGED <<owner, status, usage>>

Succeed(j) ==
    /\ status[j] = "running"
    /\ j \in stored
    /\ SetTo(j, "succeeded")
    /\ UNCHANGED <<owner, stored, usage>>

\* Also of a job that has succeeded, as long as it is not metered.
Fail(j) ==
    /\ status[j] \in {"running", "succeeded"}
    /\ j \notin usage
    /\ SetTo(j, "failed")
    /\ UNCHANGED <<owner, stored, usage>>

Meter(j) ==
    /\ status[j] = "succeeded"
    /\ usage' = usage \cup {j}
    /\ UNCHANGED <<owner, status, stored>>

Next ==
    \E j \in Jobs :
        \/ \E u \in Users : Open(j, u)
        \/ Store(j) \/ Succeed(j) \/ Fail(j) \/ Meter(j)

Spec == Init /\ [][Next]_ledger
==============================================================================
