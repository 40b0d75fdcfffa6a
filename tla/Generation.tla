----------------------------- MODULE Generation -----------------------------
(***************************************************************************)
(* POST /generation/generate: a daily quota read, a 'running' job row, the *)
(* image pipeline on a dedicated thread pool with a deadline on the wait,  *)
(* and the writes that settle the job.  Every database call is a separate  *)
(* PostgREST request that can fail before or after it took effect.         *)
(*                                                                         *)
(* A worker thread cannot be killed: on the deadline a queued task is      *)
(* cancelled, a running one is abandoned and may still write its asset to  *)
(* B2, or never return and keep its thread for ever.                       *)
(***************************************************************************)
EXTENDS Integers, FiniteSets, SequencesExt

CONSTANTS
    Users,
    Slots,         \* requests the API has in progress at once
    NoUser,
    Concurrency,   \* generation_max_concurrency
    DailyLimit,    \* generation_daily_limit, 0 for none
    MaxJobs,       \* bound on the job rows ever created
    MaxFailures,   \* bound on failed calls
    MaxCrashes     \* bound on crashes of the API process

ASSUME ConcurrencyAssumption == Concurrency \in Nat \ {0}
ASSUME DailyLimitAssumption == DailyLimit \in Nat
ASSUME BoundsAssumption == MaxJobs \in Nat /\ MaxFailures \in Nat /\ MaxCrashes \in Nat
ASSUME NoUserAssumption == NoUser \notin Users
ASSUME SlotsAssumption == IsFiniteSet(Slots)

Jobs == 1 .. MaxJobs

VARIABLES
    owner,         \* generation_jobs: whose job it is, NoUser before it exists
    status,        \* generation_jobs.status
    today,         \* the jobs created since UTC midnight
    slot,          \* the requests in progress
    queue,         \* jobs waiting for a thread of _gen_executor, in order
    task,          \* what became of each job's pipeline run
    stored,        \* jobs whose asset is in B2
    providerRuns,  \* jobs with a provider_runs row
    files,         \* jobs with their files rows
    usage,         \* jobs with a usage_events row
    failures,
    crashes

db == <<owner, status, today, providerRuns, files, usage>>
pool == <<queue, task, stored>>
faults == <<failures, crashes>>
vars == <<db, slot, pool, faults>>

Idle == [pc |-> "idle"]

NoJob == 0

\* A request is about to: read the quota, insert the job, wait for the run,
\* settle the job, mark it failed, insert the bookkeeping rows, answer.
Slot == {Idle} \cup
    [pc : {"quota", "create", "wait", "complete", "mark", "provider", "files", "usage", "answer"},
     user : Users, job : Jobs \cup {NoJob}, result : {"none", "succeeded", "failed"}]

TypeOK ==
    /\ owner \in [Jobs -> Users \cup {NoUser}]
    /\ status \in [Jobs -> {"none", "running", "succeeded", "failed"}]
    /\ today \subseteq Jobs
    /\ slot \in [Slots -> Slot]
    /\ queue \in Seq(Jobs) /\ IsInjective(queue)
    /\ task \in [Jobs -> {"none", "queued", "running", "asset", "noAsset", "raised", "gone"}]
    /\ stored \subseteq Jobs
    /\ providerRuns \subseteq Jobs /\ files \subseteq Jobs /\ usage \subseteq Jobs
    /\ failures \in 0 .. MaxFailures /\ crashes \in 0 .. MaxCrashes

Init ==
    /\ owner = [j \in Jobs |-> NoUser]
    /\ status = [j \in Jobs |-> "none"]
    /\ today = {}
    /\ slot = [s \in Slots |-> Idle]
    /\ queue = <<>>
    /\ task = [j \in Jobs |-> "none"]
    /\ stored = {}
    /\ providerRuns = {} /\ files = {} /\ usage = {}
    /\ failures = 0 /\ crashes = 0
----------------------------------------------------------------------------
At(s, pc) == slot[s].pc = pc

Goto(s, pc) == slot' = [slot EXCEPT ![s].pc = pc]

\* The request goes on with this job and result.
Carry(s, pc, job, result) ==
    slot' = [slot EXCEPT ![s] = [pc |-> pc, user |-> @.user, job |-> job, result |-> result]]

End(s) == slot' = [slot EXCEPT ![s] = Idle]

FailOnce == failures < MaxFailures /\ failures' = failures + 1 /\ UNCHANGED crashes

CountJobsSince(u) == Cardinality({j \in today : owner[j] = u})

\* MaxJobs bounds the requests let in, so that no request is stuck at it.
Begin(s, u) ==
    /\ At(s, "idle")
    /\ Cardinality({j \in Jobs : owner[j] # NoUser})
         + Cardinality({t \in Slots : slot[t].pc \in {"quota", "create"}}) < MaxJobs
    /\ slot' = [slot EXCEPT ![s] =
            [pc |-> "quota", user |-> u, job |-> NoJob, result |-> "none"]]
    /\ UNCHANGED <<db, pool, faults>>

\* Mutant: the limit is an inclusive bound.
EnforceDailyQuota_OffByOne(s) ==
    /\ At(s, "quota")
    /\ IF DailyLimit = 0 \/ CountJobsSince(slot[s].user) <= DailyLimit
       THEN Goto(s, "create")
       ELSE End(s)
    /\ UNCHANGED <<db, pool, faults>>

\* Over the limit the request is answered 429 and nothing was written.
EnforceDailyQuota(s) ==
    /\ At(s, "quota")
    /\ IF DailyLimit = 0 \/ CountJobsSince(slot[s].user) < DailyLimit
       THEN Goto(s, "create")
       ELSE End(s)
    /\ UNCHANGED <<db, pool, faults>>

InsertJob(s, j) ==
    /\ owner[j] = NoUser
    /\ \A k \in 1 .. j - 1 : owner[k] # NoUser
    /\ owner' = [owner EXCEPT ![j] = slot[s].user]
    /\ status' = [status EXCEPT ![j] = "running"]
    /\ today' = today \cup {j}
    /\ UNCHANGED <<providerRuns, files, usage>>

\* The row is inserted and, with no await in between, its run is submitted.
CreateJob(s) ==
    \E j \in Jobs :
        /\ At(s, "create")
        /\ InsertJob(s, j)
        /\ Carry(s, "wait", j, "none")
        /\ queue' = Append(queue, j)
        /\ task' = [task EXCEPT ![j] = "queued"]
        /\ UNCHANGED <<stored, faults>>

\* The insert took effect but its answer is lost: the exception leaves generate.
CreateJobLost(s) ==
    \E j \in Jobs :
        /\ At(s, "create")
        /\ FailOnce
        /\ InsertJob(s, j)
        /\ End(s)
        /\ UNCHANGED pool

\* The quota read or the insert fails: 500, nothing written.
FailEarly(s) ==
    /\ At(s, "quota") \/ At(s, "create")
    /\ FailOnce
    /\ End(s)
    /\ UNCHANGED <<db, pool>>
----------------------------------------------------------------------------
\* The thread pool.
Busy == {j \in Jobs : task[j] = "running"}

PickTask ==
    /\ queue # <<>>
    /\ Cardinality(Busy) < Concurrency
    /\ task' = [task EXCEPT ![Head(queue)] = "running"]
    /\ queue' = Tail(queue)
    /\ UNCHANGED <<db, slot, stored, faults>>

\* The provider answered and the sink has transferred the image to B2.
StoreAsset(j) ==
    /\ task[j] = "running"
    /\ j \notin stored
    /\ stored' = stored \cup {j}
    /\ UNCHANGED <<db, slot, queue, task, faults>>

\* generate_image returns (with its asset, or without one when the step failed)
\* or raises; the thread is free again.
ReturnTask(j) ==
    /\ task[j] = "running"
    /\ \E end \in {"noAsset", "raised"} \cup IF j \in stored THEN {"asset"} ELSE {} :
            task' = [task EXCEPT ![j] = end]
    /\ UNCHANGED <<db, slot, queue, stored, faults>>
----------------------------------------------------------------------------
\* The wait ends with what the run returned.
Collect(s) ==
    /\ At(s, "wait")
    /\ \/ /\ task[slot[s].job] = "asset"
          /\ Carry(s, "complete", slot[s].job, "succeeded")
       \/ /\ task[slot[s].job] = "noAsset"
          /\ Carry(s, "complete", slot[s].job, "failed")
       \/ /\ task[slot[s].job] = "raised"
          /\ Goto(s, "mark")
    /\ UNCHANGED <<db, pool, faults>>

\* wait_for gives up: a queued task is cancelled, a running one abandoned, and
\* what a finished one returned is dropped.
Deadline(s) ==
    LET j == slot[s].job IN
    /\ At(s, "wait")
    /\ Goto(s, "mark")
    /\ IF task[j] = "queued"
       THEN /\ \E i \in DOMAIN queue : queue[i] = j /\ queue' = RemoveAt(queue, i)
            /\ task' = [task EXCEPT ![j] = "gone"]
       ELSE UNCHANGED <<queue, task>>
    /\ UNCHANGED <<db, stored, faults>>

SetStatus(s, value) ==
    /\ status' = [status EXCEPT ![slot[s].job] = value]
    /\ UNCHANGED <<owner, today, providerRuns, files, usage>>

CompleteJob(s) ==
    /\ At(s, "complete")
    /\ SetStatus(s, slot[s].result)
    /\ Goto(s, "provider")
    /\ UNCHANGED <<pool, faults>>

\* Mutant: a failed completion goes on to the bookkeeping.
CompleteJobFails_GoesOn(s) ==
    /\ At(s, "complete")
    /\ FailOnce
    /\ UNCHANGED db
    /\ Goto(s, "provider")
    /\ UNCHANGED pool

\* Mutant: a failed completion marks the job failed and is tried again.
CompleteJobFails_Retried(s) ==
    /\ At(s, "complete")
    /\ FailOnce
    /\ SetStatus(s, "failed")
    /\ UNCHANGED <<slot, pool>>

\* The PATCH raises, before or after it took effect: the job is marked failed.
CompleteJobFails(s) ==
    /\ At(s, "complete")
    /\ FailOnce
    /\ SetStatus(s, slot[s].result) \/ UNCHANGED db
    /\ Goto(s, "mark")
    /\ UNCHANGED pool

\* Mutant: the failure is raised without touching the row.
SafeMarkFailed_Forgets(s) ==
    /\ At(s, "mark")
    /\ End(s)
    /\ UNCHANGED <<db, pool, faults>>

\* _safe_mark_failed, then the GenerationError the route answers 502 with.
SafeMarkFailed(s) ==
    /\ At(s, "mark")
    /\ SetStatus(s, "failed")
    /\ End(s)
    /\ UNCHANGED <<pool, faults>>

\* ... which swallows its own failure, whether or not the row was patched.
SafeMarkFailedFails(s) ==
    /\ At(s, "mark")
    /\ FailOnce
    /\ SetStatus(s, "failed") \/ UNCHANGED db
    /\ End(s)
    /\ UNCHANGED pool

RecordProviderRun(s) ==
    /\ At(s, "provider")
    /\ providerRuns' = providerRuns \cup {slot[s].job}
    /\ Goto(s, IF slot[s].result = "succeeded" THEN "files" ELSE "answer")
    /\ UNCHANGED <<owner, status, today, files, usage, pool, faults>>

InsertFiles(s) ==
    /\ At(s, "files")
    /\ files' = files \cup {slot[s].job}
    /\ Goto(s, "usage")
    /\ UNCHANGED <<owner, status, today, providerRuns, usage, pool, faults>>

RecordUsageEvent(s) ==
    /\ At(s, "usage")
    /\ usage' = usage \cup {slot[s].job}
    /\ Goto(s, "answer")
    /\ UNCHANGED <<owner, status, today, providerRuns, files, pool, faults>>

\* A bookkeeping write fails, before or after it took effect: the ones after it
\* are skipped, the answer is not.
BookkeepingFails(s) ==
    /\ slot[s].pc \in {"provider", "files", "usage"}
    /\ FailOnce
    /\ \/ UNCHANGED db
       \/ /\ providerRuns' = IF At(s, "provider") THEN providerRuns \cup {slot[s].job} ELSE providerRuns
          /\ files' = IF At(s, "files") THEN files \cup {slot[s].job} ELSE files
          /\ usage' = IF At(s, "usage") THEN usage \cup {slot[s].job} ELSE usage
          /\ UNCHANGED <<owner, status, today>>
    /\ Goto(s, "answer")
    /\ UNCHANGED pool

\* 200 with the job, or 502 after a run without an asset.
Answer(s) ==
    /\ At(s, "answer")
    /\ End(s)
    /\ UNCHANGED <<db, pool, faults>>

\* The API process dies: its requests, queued tasks and threads with it.
Crash ==
    /\ crashes < MaxCrashes
    /\ crashes' = crashes + 1
    /\ slot' = [s \in Slots |-> Idle]
    /\ queue' = <<>>
    /\ task' = [j \in Jobs |-> IF task[j] = "none" THEN "none" ELSE "gone"]
    /\ UNCHANGED <<db, stored, failures>>

\* UTC midnight passes.
Midnight ==
    /\ today # {}
    /\ today' = {}
    /\ UNCHANGED <<owner, status, providerRuns, files, usage, slot, pool, faults>>

Serve(s) ==
    \/ EnforceDailyQuota(s) \/ CreateJob(s) \/ Collect(s) \/ Deadline(s)
    \/ CompleteJob(s) \/ SafeMarkFailed(s) \/ RecordProviderRun(s) \/ InsertFiles(s)
    \/ RecordUsageEvent(s) \/ Answer(s)

CallFails(s) ==
    \/ FailEarly(s) \/ CreateJobLost(s) \/ CompleteJobFails(s) \/ SafeMarkFailedFails(s)
    \/ BookkeepingFails(s)

Next ==
    \/ \E s \in Slots : Serve(s) \/ CallFails(s) \/ \E u \in Users : Begin(s, u)
    \/ PickTask
    \/ \E j \in Jobs : StoreAsset(j) \/ ReturnTask(j)
    \/ Crash
    \/ Midnight

Spec == Init /\ [][Next]_vars

----------------------------------------------------------------------------
\* A job is stored as succeeded only when its image really is in B2; a user is
\* metered for a job only when it stands as succeeded, its run and its files are
\* recorded, and never for one that ends up marked failed.
UsageIsEarned ==
    /\ \A j \in Jobs : status[j] = "succeeded" => j \in stored
    /\ usage \subseteq {j \in files \cap providerRuns : status[j] = "succeeded"}

\* The quota is soft: requests that read the count together can pass it, but by
\* no more than one less than the requests the API had in progress.
QuotaOvershoot ==
    DailyLimit > 0 =>
        \A u \in Users : CountJobsSince(u) <= DailyLimit - 1 + Cardinality(Slots)

\* A job that no request in progress will settle any more.
Stranded(j) ==
    status[j] = "running" /\ \A s \in Slots : At(s, "idle") \/ slot[s].job # j

\* Where no call fails and nothing crashes, a job whose request is over is
\* settled, also when its run timed out in the queue, was abandoned or raised.
UnattendedIsSettled ==
    failures + crashes = 0 => \A j \in Jobs : ~Stranded(j)

\* The table of jobs, B2 and the usage events, with everything between them left
\* out: a job never leaves "failed", and one that is metered for never changes,
\* whatever requests, threads and lost answers do.
Ledger == INSTANCE JobLedger

KeepsLedger == Ledger!Spec
============================================================================
