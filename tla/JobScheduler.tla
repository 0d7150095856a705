---------------------------- MODULE JobScheduler ----------------------------
(***************************************************************************)
(* The scheduled jobs of platform-service: several replicas claim due jobs *)
(* from one table, run each in a goroutine that holds an execution slot,   *)
(* record the outcome, and time out the runs nobody finished.              *)
(*                                                                         *)
(* A run is named by its job and a number.  SKIPPED rows are left out: no  *)
(* code reads them back.  Time is left out too: a cron instant passes, and *)
(* a deadline passes, at any moment the code allows (Expire).              *)
(***************************************************************************)
EXTENDS Integers, FiniteSets, Sequences

CONSTANTS
  Job,                \* job codes
  Replica,            \* platform-service processes
  Nobody,             \* no replica
  Catalogs,           \* job sets of the deployed versions' catalogs
  MaxConcurrentJobs,  \* slots of a replica
  MaxAttempts,        \* max_attempts of every job
  FinalizeTries,      \* len(finalizeBackoff) + 1
  RunsPerJob,         \* bound: runs of a job kept at a time
  MaxManual,          \* bound: manual runs requested
  MaxFaults,          \* bound: errors of the database, crashes and shutdowns
  MaxStalls           \* bound: executions suspended past their deadline

ASSUME CatalogsAssumption == Catalogs \subseteq SUBSET Job /\ Catalogs # {}
ASSUME NobodyAssumption == Nobody \notin Replica
ASSUME JobAssumption == IsFiniteSet(Job)
ASSUME SizesAssumption ==
  /\ MaxConcurrentJobs \in Nat \ {0}
  /\ MaxAttempts \in Nat \ {0}
  /\ FinalizeTries \in Nat \ {0}
  /\ RunsPerJob \in Nat \ {0}
ASSUME BoundsAssumption == MaxManual \in Nat /\ MaxFaults \in Nat /\ MaxStalls \in Nat

Run == Job \X (1 .. RunsPerJob)
JobOf(r) == r[1]

Terminal == {"SUCCEEDED", "FAILED", "TIMED_OUT"}
IsFailure(s) == s \in {"FAILED", "TIMED_OUT"}

VARIABLES
  armed,       \* jobs with enabled and a next_run_at
  due,         \* those whose next_run_at has passed
  ahead,       \* for each of them, those with an earlier next_run_at
  retired,     \* jobs with a retired_at
  lastStatus,  \* last_status of each job, "" for NULL
  status,      \* status of each run, "" when there is no such row
  rows,        \* runs of each job in the order of started_at
  expired,     \* RUNNING runs whose deadline_at has passed
  alerts,      \* failed events less recovered events written for each job
  phase,       \* up, closing, drained (Shutdown has returned nil) or down
  slots,       \* elements in the channel of each replica, also the wg count
  tick,        \* slots reserved by the tick under way
  held,        \* jobs locked by the replica's ClaimDue transaction
  manual,      \* jobs of the replica's RunNow calls that hold a slot
  exec,        \* the goroutine that executes each run
  stale,       \* the reaper's list, read without locks
  manuals, faults, stalls  \* bounded counters

table == <<lastStatus, status, rows, expired, alerts>>
schedule == <<armed, due, ahead, retired>>
process == <<phase, slots, tick, held, manual, exec, stale>>
counters == <<manuals, faults, stalls>>
vars == <<schedule, table, process, counters>>

Started(p) == [at |-> p, attempt |-> 0, outcome |-> "", tries |-> 0]
Idle == Started(Nobody)
Goroutine ==
  [at : Replica \union {Nobody}, attempt : 0 .. MaxAttempts,
   outcome : Terminal \union {""}, tries : 0 .. FinalizeTries]

\* Every variable holds a value of the sort its column or field can hold.
TypeOK ==
  /\ armed \in SUBSET Job
  /\ due \in SUBSET Job
  /\ ahead \in [Job -> SUBSET Job]
  /\ retired \in SUBSET Job
  /\ lastStatus \in [Job -> Terminal \union {""}]
  /\ status \in [Run -> Terminal \union {"", "RUNNING"}]
  /\ rows \in [Job -> Seq(1 .. RunsPerJob)]
  /\ expired \in SUBSET Run
  /\ alerts \in [Job -> Int]
  /\ phase \in [Replica -> {"up", "closing", "drained", "down"}]
  /\ slots \in [Replica -> Int]
  /\ tick \in [Replica -> Int]
  /\ held \in [Replica -> SUBSET Job]
  /\ manual \in [Replica -> SUBSET Job]
  /\ exec \in [Run -> Goroutine]
  /\ stale \in [Replica -> SUBSET Run]
  /\ manuals \in Nat /\ faults \in Nat /\ stalls \in Nat

---------------------------------------------------------------------------
\* State formulae.

Running(j) == {r \in Run : JobOf(r) = j /\ status[r] = "RUNNING"}
Unused(j) == {n \in 1 .. RunsPerJob : status[<<j, n>>] = ""}
Fresh(j) == <<j, CHOOSE n \in Unused(j) : TRUE>>
ExecutedBy(p) == {r \in Run : exec[r].at = p}
Free(p) == MaxConcurrentJobs - slots[p]

\* Job rows locked by an open ClaimDue transaction.
Locked == UNION {held[p] : p \in Replica}

\* Job rows that a StartManual, a Finalize or a reaper may hold for a moment.
Contended ==
  UNION {manual[p] : p \in Replica}
  \union {JobOf(r) : r \in {r \in Run : exec[r].outcome # ""}}
  \union {JobOf(r) : r \in UNION {stale[p] : p \in Replica}}

\* Mutant: no unique index.
IndexAbsent(j) == FALSE

\* The unique index on job_code WHERE status = 'RUNNING' refuses a row.
IndexRefuses(j) == Running(j) # {}

\* The tick and the reaper of a replica share one loop.
LoopIdle(p) == tick[p] = 0 /\ stale[p] = {}

\* Mutant: reserve does not look at closing.
ReserveWhileClosing(p) == phase[p] # "down" /\ Free(p) > 0

\* reserve refuses when Shutdown has started.
MayReserve(p) == phase[p] = "up" /\ Free(p) > 0

Fault == faults < MaxFaults /\ faults' = faults + 1

\* appCancel makes the calls of the loop fail once the shutdown has begun.
LoopCallFails(p) ==
  \/ Fault
  \/ phase[p] # "up" /\ UNCHANGED faults

---------------------------------------------------------------------------
\* What the transactions write.

\* Mutant: every failure is announced.
AnnounceEvery(prev, next) ==
  CASE IsFailure(next) -> 1
    [] next = "SUCCEEDED" /\ IsFailure(prev) -> -1
    [] OTHER -> 0

\* The change of alerts when last_status moves from prev to next.
Transition(prev, next) ==
  CASE IsFailure(next) /\ ~ IsFailure(prev) -> 1
    [] next = "SUCCEEDED" /\ IsFailure(prev) -> -1
    [] OTHER -> 0

\* insertRun with status RUNNING, for every job of a set.
InsertRuns(js) ==
  /\ \A j \in js : Unused(j) # {}
  /\ status' = [r \in Run |-> IF JobOf(r) \in js /\ r = Fresh(JobOf(r))
                              THEN "RUNNING" ELSE status[r]]
  /\ rows' = [j \in Job |-> IF j \in js THEN Append(rows[j], Fresh(j)[2]) ELSE rows[j]]
  /\ UNCHANGED <<lastStatus, expired, alerts>>

\* dispatch of the runs InsertRuns has inserted.
Dispatch(p, js) ==
  exec' = [r \in Run |-> IF JobOf(r) \in js /\ r = Fresh(JobOf(r))
                         THEN Started(p) ELSE exec[r]]

\* The jobs get a next_run_at in the future, or none.
Reschedule(js) ==
  /\ due' = due \ js
  /\ ahead' = [j \in Job |-> IF j \in js THEN {} ELSE ahead[j] \ js]

Release(p, n) == slots' = [slots EXCEPT ![p] = @ - n]

\* Mutant: the UPDATE lacks AND status = 'RUNNING'.
FinalizeAnyRun(r, outcome) ==
  /\ JobOf(r) \notin Locked
  /\ status' = [status EXCEPT ![r] = outcome]
  /\ lastStatus' = [lastStatus EXCEPT ![JobOf(r)] = outcome]
  /\ alerts' = [alerts EXCEPT
                  ![JobOf(r)] = @ + Transition(lastStatus[JobOf(r)], outcome)]
  /\ UNCHANGED <<rows, expired>>

\* finalizeTx: closes a run that is still RUNNING, otherwise does nothing.
FinalizeTx(r, outcome) ==
  /\ JobOf(r) \notin Locked
  /\ IF status[r] = "RUNNING"
     THEN /\ status' = [status EXCEPT ![r] = outcome]
          /\ lastStatus' = [lastStatus EXCEPT ![JobOf(r)] = outcome]
          /\ alerts' = [alerts EXCEPT
                          ![JobOf(r)] = @ + Transition(lastStatus[JobOf(r)], outcome)]
          /\ UNCHANGED <<rows, expired>>
     ELSE UNCHANGED table

---------------------------------------------------------------------------
Init ==
  /\ armed = Job /\ due = {} /\ retired = {}
  /\ ahead = [j \in Job |-> {}]
  /\ lastStatus = [j \in Job |-> ""]
  /\ status = [r \in Run |-> ""]
  /\ rows = [j \in Job |-> <<>>]
  /\ expired = {}
  /\ alerts = [j \in Job |-> 0]
  /\ phase = [p \in Replica |-> "up"]
  /\ slots = [p \in Replica |-> 0]
  /\ tick = [p \in Replica |-> 0]
  /\ held = [p \in Replica |-> {}]
  /\ manual = [p \in Replica |-> {}]
  /\ exec = [r \in Run |-> Idle]
  /\ stale = [p \in Replica |-> {}]
  /\ manuals = 0 /\ faults = 0 /\ stalls = 0

\* The cron instant of a job passes.
CronPasses(j) ==
  /\ j \in armed \ due
  /\ due' = due \union {j}
  /\ ahead' = [ahead EXCEPT ![j] = due]
  /\ UNCHANGED <<armed, retired, table, process, counters>>

\* The operator saves a schedule, or disables the job: next_run_at is recomputed.
UpdateConfig(j, enabled) ==
  /\ j \notin Locked
  /\ armed' = IF enabled /\ j \notin retired THEN armed \union {j} ELSE armed \ {j}
  /\ Reschedule({j})
  /\ UNCHANGED <<retired, table, process, counters>>

---------------------------------------------------------------------------
\* Tick.

\* reserve(cap(slots)): the tick takes every free slot.
TickReserve(p) ==
  /\ LoopIdle(p) /\ MayReserve(p)
  /\ tick' = [tick EXCEPT ![p] = Free(p)]
  /\ slots' = [slots EXCEPT ![p] = MaxConcurrentJobs]
  /\ UNCHANGED <<schedule, table, phase, held, manual, exec, stale, counters>>

\* ClaimDue's SELECT ... ORDER BY next_run_at LIMIT n FOR UPDATE SKIP LOCKED.
\* Bound: a run number is left for every job that will start.
LockDue(p, skipped) ==
  LET candidates == due \ (retired \union Locked \union skipped)
      picked == {j \in candidates : Cardinality(ahead[j] \intersect candidates) < tick[p]}
  IN /\ tick[p] > 0 /\ held[p] = {}
     /\ skipped \subseteq Contended
     /\ \A j \in picked : Running(j) # {} \/ Unused(j) # {}
     /\ held' = [held EXCEPT ![p] = picked]
     /\ IF picked = {}
        THEN Release(p, tick[p]) /\ tick' = [tick EXCEPT ![p] = 0]
        ELSE UNCHANGED <<slots, tick>>
     /\ UNCHANGED <<schedule, table, phase, manual, exec, stale, counters>>

\* claimOne finds no run of the job still active.
Startable(p, broken) == {j \in held[p] \ broken : Running(j) = {}}

\* The writes of ClaimDue; a broken job loses its next_run_at.
ClaimTx(p, broken) ==
  /\ held[p] # {}
  /\ broken \subseteq held[p]
  /\ Reschedule(held[p])
  /\ armed' = armed \ broken
  /\ InsertRuns(Startable(p, broken))
  /\ held' = [held EXCEPT ![p] = {}]
  /\ tick' = [tick EXCEPT ![p] = 0]

\* ClaimDue commits; the tick dispatches its runs and releases the rest.
ClaimDue(p, broken) ==
  /\ ClaimTx(p, broken)
  /\ faults + Cardinality(broken) <= MaxFaults
  /\ faults' = faults + Cardinality(broken)
  /\ Dispatch(p, Startable(p, broken))
  /\ Release(p, tick[p] - Cardinality(Startable(p, broken)))
  /\ UNCHANGED <<retired, phase, manual, stale, manuals, stalls>>

\* ClaimDue commits but its answer is lost: nobody executes the new runs.
ClaimAnswerLost(p) ==
  /\ ClaimTx(p, {})
  /\ LoopCallFails(p)
  /\ Release(p, tick[p])
  /\ UNCHANGED <<retired, phase, manual, exec, stale, manuals, stalls>>

\* Mutant: a failed claim returns without releasing its slots.
ClaimErrorKeepsSlots(p) ==
  /\ tick[p] > 0
  /\ LoopCallFails(p)
  /\ tick' = [tick EXCEPT ![p] = 0]
  /\ held' = [held EXCEPT ![p] = {}]
  /\ UNCHANGED <<schedule, table, phase, slots, manual, exec, stale, manuals, stalls>>

\* ClaimDue fails and rolls back.
ClaimError(p) ==
  /\ tick[p] > 0
  /\ LoopCallFails(p)
  /\ Release(p, tick[p])
  /\ tick' = [tick EXCEPT ![p] = 0]
  /\ held' = [held EXCEPT ![p] = {}]
  /\ UNCHANGED <<schedule, table, phase, manual, exec, stale, manuals, stalls>>

---------------------------------------------------------------------------
\* RunNow.

\* The retired check of ScheduledJobService, then reserve(1).
\* Bound: one request of a job at a time on a replica.
RunNowReserve(p, j) ==
  /\ MayReserve(p)
  /\ j \notin retired \union manual[p]
  /\ manuals < MaxManual /\ manuals' = manuals + 1
  /\ manual' = [manual EXCEPT ![p] = @ \union {j}]
  /\ slots' = [slots EXCEPT ![p] = @ + 1]
  /\ UNCHANGED <<schedule, table, phase, tick, held, exec, stale, faults, stalls>>

AnswerManual(p, j) ==
  /\ j \in manual[p] \ Locked
  /\ manual' = [manual EXCEPT ![p] = @ \ {j}]

StartManual(p, j) ==
  /\ AnswerManual(p, j)
  /\ ~ IndexRefuses(j)
  /\ InsertRuns({j})
  /\ Dispatch(p, {j})
  /\ UNCHANGED <<schedule, phase, slots, tick, held, stale, counters>>

\* ErrJobAlreadyRunning.
RefuseManual(p, j) ==
  /\ AnswerManual(p, j)
  /\ IndexRefuses(j)
  /\ Release(p, 1)
  /\ UNCHANGED <<schedule, table, phase, tick, held, exec, stale, counters>>

\* StartManual fails, before or after its commit.
ManualError(p, j) ==
  /\ AnswerManual(p, j)
  /\ Fault
  /\ \/ UNCHANGED table
     \/ ~ IndexRefuses(j) /\ InsertRuns({j})
  /\ Release(p, 1)
  /\ UNCHANGED <<schedule, phase, tick, held, exec, stale, manuals, stalls>>

---------------------------------------------------------------------------
\* The goroutine of a run.

Attempting(r) == exec[r].at # Nobody /\ exec[r].outcome = ""

\* One call of the job's owner: a result, or a failure that may be retried.
Attempt(r, outcome, retryable) ==
  /\ Attempting(r)
  /\ retryable => IsFailure(outcome)
  /\ outcome = "TIMED_OUT" => retryable
  /\ exec' = [exec EXCEPT ![r].attempt = @ + 1,
                          ![r].outcome = IF retryable /\ exec[r].attempt + 1 < MaxAttempts
                                         THEN "" ELSE outcome]
  /\ UNCHANGED <<schedule, table, phase, slots, tick, held, manual, stale, counters>>

\* The goroutine returns and its deferred release runs.
Return(r) ==
  /\ exec' = [exec EXCEPT ![r] = Idle]
  /\ Release(exec[r].at, 1)

Finalize(r) ==
  /\ exec[r].outcome # ""
  /\ FinalizeTx(r, exec[r].outcome)
  /\ Return(r)
  /\ UNCHANGED <<schedule, phase, tick, held, manual, stale, counters>>

\* Finalize fails, before or after its commit; it is retried, then given up.
FinalizeError(r) ==
  /\ exec[r].outcome # ""
  /\ Fault
  /\ UNCHANGED table \/ FinalizeTx(r, exec[r].outcome)
  /\ IF exec[r].tries + 1 = FinalizeTries
     THEN Return(r)
     ELSE exec' = [exec EXCEPT ![r].tries = @ + 1] /\ UNCHANGED slots
  /\ UNCHANGED <<schedule, phase, tick, held, manual, stale, manuals, stalls>>

---------------------------------------------------------------------------
\* Deadlines, the reaper and retention.

\* deadline's budget, in seconds: the attempts allowed are 1 to 5.
Shifted == <<1, 2, 4, 8, 16>>
Budget(attempts, timeout, backoff) ==
  attempts * timeout + (attempts - 1) * backoff * Shifted[attempts] + 60

\* What Execute can take: every attempt times out, after waits of backoff,
\* 2 * backoff, ... that add up to backoff * (2^(attempts-1) - 1).
LongestExecution(attempts, timeout, backoff) ==
  attempts * timeout + backoff * (Shifted[attempts] - 1)

\* finalize's three calls of finalizeTimeout and the waits between them.
LongestFinalize == 3 * 10 + 1 + 2

\* Mutant: the budget is that of one attempt.
CoveredOnce(r) == exec[r].attempt > 0 \/ ~ Attempting(r)

\* Budget covers every attempt and back-off of the run, so deadline_at passes while
\* the run is still attempted only when its process is suspended meanwhile.
Covered(r) == ~ Attempting(r)

Expire(r) ==
  /\ status[r] = "RUNNING" /\ r \notin expired
  /\ IF Covered(r) THEN UNCHANGED stalls ELSE stalls < MaxStalls /\ stalls' = stalls + 1
  /\ expired' = expired \union {r}
  /\ UNCHANGED <<schedule, lastStatus, status, rows, alerts, process, manuals, faults>>

\* Mutant: a replica reaps only runs it executes.
ReapOwn(p) ==
  /\ phase[p] = "up" /\ LoopIdle(p)
  /\ {r \in expired : status[r] = "RUNNING" /\ exec[r].at = p} # {}
  /\ stale' = [stale EXCEPT ![p] = {r \in expired : status[r] = "RUNNING" /\ exec[r].at = p}]
  /\ UNCHANGED <<schedule, table, phase, slots, tick, held, manual, exec, counters>>

\* ReapAbandoned reads its candidates without locks.
ReapList(p) ==
  /\ phase[p] = "up" /\ LoopIdle(p)
  /\ {r \in expired : status[r] = "RUNNING"} # {}
  /\ stale' = [stale EXCEPT ![p] = {r \in expired : status[r] = "RUNNING"}]
  /\ UNCHANGED <<schedule, table, phase, slots, tick, held, manual, exec, counters>>

ReapOne(p, r) ==
  /\ r \in stale[p]
  /\ FinalizeTx(r, "TIMED_OUT")
  /\ stale' = [stale EXCEPT ![p] = @ \ {r}]
  /\ UNCHANGED <<schedule, phase, slots, tick, held, manual, exec, counters>>

ReapError(p) ==
  /\ stale[p] # {}
  /\ LoopCallFails(p)
  /\ stale' = [stale EXCEPT ![p] = {}]
  /\ UNCHANGED <<schedule, table, phase, slots, tick, held, manual, exec, manuals, stalls>>

\* Cleanup deletes ended runs by age, ninety days after anybody worked on them.
Cleanup(j) ==
  LET oldest == <<j, Head(rows[j])>>
  IN /\ rows[j] # <<>>
     /\ status[oldest] \in Terminal
     /\ exec[oldest] = Idle
     /\ \A p \in Replica : oldest \notin stale[p]
     /\ status' = [status EXCEPT ![oldest] = ""]
     /\ rows' = [rows EXCEPT ![j] = Tail(@)]
     /\ expired' = expired \ {oldest}
     /\ UNCHANGED <<schedule, lastStatus, alerts, process, counters>>

---------------------------------------------------------------------------
\* Processes.

\* appCancel and the first lines of Shutdown.
Shutdown(p) ==
  /\ phase[p] = "up" /\ Fault
  /\ phase' = [phase EXCEPT ![p] = "closing"]
  /\ UNCHANGED <<schedule, table, slots, tick, held, manual, exec, stale, manuals, stalls>>

\* wg.Wait returns; HTTP and gRPC are still to be stopped.
Drain(p) ==
  /\ phase[p] = "closing" /\ slots[p] = 0
  /\ phase' = [phase EXCEPT ![p] = "drained"]
  /\ UNCHANGED <<schedule, table, slots, tick, held, manual, exec, stale, counters>>

\* The process is gone, and with it the transactions and goroutines it had.
Gone(p) ==
  /\ phase' = [phase EXCEPT ![p] = "down"]
  /\ slots' = [slots EXCEPT ![p] = 0]
  /\ tick' = [tick EXCEPT ![p] = 0]
  /\ held' = [held EXCEPT ![p] = {}]
  /\ manual' = [manual EXCEPT ![p] = {}]
  /\ exec' = [r \in Run |-> IF exec[r].at = p THEN Idle ELSE exec[r]]
  /\ stale' = [stale EXCEPT ![p] = {}]
  /\ UNCHANGED <<schedule, table, manuals, stalls>>

\* The process ends after Shutdown, drained or at the end of its grace period.
Exit(p) == phase[p] \in {"closing", "drained"} /\ Gone(p) /\ UNCHANGED faults

Crash(p) == phase[p] # "down" /\ Gone(p) /\ Fault

\* A process starts and seeds its version's catalog, waiting for locked rows.
Start(p, catalog) ==
  /\ phase[p] = "down" /\ Locked = {}
  /\ retired' = Job \ catalog
  /\ phase' = [phase EXCEPT ![p] = "up"]
  /\ UNCHANGED <<armed, due, ahead, table, slots, tick, held, manual, exec, stale, counters>>

---------------------------------------------------------------------------
JobStep(j) ==
  \/ CronPasses(j)
  \/ \E enabled \in BOOLEAN : UpdateConfig(j, enabled)
  \/ Cleanup(j)

RunStep(r) ==
  \/ \E outcome \in Terminal, retryable \in BOOLEAN : Attempt(r, outcome, retryable)
  \/ Finalize(r)
  \/ FinalizeError(r)
  \/ Expire(r)

TickStep(p) ==
  \/ TickReserve(p)
  \/ \E skipped \in SUBSET Job : LockDue(p, skipped)
  \/ \E broken \in SUBSET held[p] : ClaimDue(p, broken)
  \/ ClaimAnswerLost(p)
  \/ ClaimError(p)

ManualStep(p, j) ==
  \/ RunNowReserve(p, j)
  \/ StartManual(p, j)
  \/ RefuseManual(p, j)
  \/ ManualError(p, j)

ReapStep(p) ==
  \/ ReapList(p)
  \/ \E r \in Run : ReapOne(p, r)
  \/ ReapError(p)

ProcessStep(p) ==
  \/ Shutdown(p)
  \/ Drain(p)
  \/ Exit(p)
  \/ Crash(p)
  \/ \E catalog \in Catalogs : Start(p, catalog)

Next ==
  \/ \E j \in Job : JobStep(j)
  \/ \E r \in Run : RunStep(r)
  \/ \E p \in Replica : TickStep(p)
  \/ \E p \in Replica, j \in Job : ManualStep(p, j)
  \/ \E p \in Replica : ReapStep(p)
  \/ \E p \in Replica : ProcessStep(p)

Spec == Init /\ [][Next]_vars

\* Goroutines run on and calls return; row locks are granted in turn; when both
\* tickers of the loop are ready, select picks at random; deadlines pass; old
\* rows are cleaned up; a stopped process is replaced.
Fairness ==
  /\ \A r \in Run :
       /\ WF_vars(\E outcome \in Terminal, retryable \in BOOLEAN :
                    Attempt(r, outcome, retryable))
       /\ SF_vars(Finalize(r))
       /\ WF_vars(Expire(r))
  /\ \A j \in Job : WF_vars(Cleanup(j))
  /\ \A p \in Replica :
       /\ SF_vars(TickReserve(p))
       /\ WF_vars(LockDue(p, {}) \/ ClaimDue(p, {}))
       /\ \A j \in Job : SF_vars(StartManual(p, j) \/ RefuseManual(p, j))
       /\ SF_vars(ReapList(p))
       /\ SF_vars(\E r \in Run : ReapOne(p, r))
       /\ WF_vars(Exit(p))
       /\ SF_vars(\E catalog \in Catalogs : Start(p, catalog))

FairSpec == Spec /\ Fairness

---------------------------------------------------------------------------
\* Correctness.

\* A job has at most one RUNNING run, whichever replica or operator starts it.
OneRunningPerJob ==
  \A r, other \in Run :
    /\ status[r] = "RUNNING" /\ status[other] = "RUNNING" /\ JobOf(r) = JobOf(other)
    => r = other

\* No slot is lost or used twice: those taken are the ones reserved by the tick,
\* by manual requests and by executions, through every error path.
SlotsConserved ==
  \A p \in Replica :
    /\ slots[p] = tick[p] + Cardinality(manual[p]) + Cardinality(ExecutedBy(p))
    /\ slots[p] <= MaxConcurrentJobs

\* last_status is that of the latest run that ended: an answer that arrives after
\* its run was reaped, while a later run of the job went on, never overwrites it.
LastStatusIsLatest ==
  \A j \in Job : \A n \in 1 .. Len(rows[j]) :
    /\ status[<<j, rows[j][n]>>] # "RUNNING"
    /\ \A later \in n + 1 .. Len(rows[j]) : status[<<j, rows[j][later]>>] = "RUNNING"
    => lastStatus[j] = status[<<j, rows[j][n]>>]

\* Failure and recovery events alternate, and the last one written tells whether
\* the job is failing now.
AlertsMatchLastStatus ==
  \A j \in Job : alerts[j] = IF IsFailure(lastStatus[j]) THEN 1 ELSE 0

\* Once Shutdown has returned nil the replica executes nothing and starts nothing.
DrainedIsQuiet ==
  \A p \in Replica :
    phase[p] = "drained" =>
      slots[p] = 0 /\ tick[p] = 0 /\ manual[p] = {} /\ ExecutedBy(p) = {}

\* Unless a process was suspended past a deadline, no two goroutines of the
\* cluster call the owner of one job at the same time.
SingleExecution ==
  stalls = 0 =>
    \A r, other \in Run :
      Attempting(r) /\ Attempting(other) /\ JobOf(r) = JobOf(other) => r = other

\* Every run ends, whatever crashed, was lost or was given up.
RunsEnd == \A r \in Run : status[r] = "RUNNING" ~> status[r] # "RUNNING"

\* A due job is claimed, or skipped because its previous run is active, unless
\* it is retired: a replica full of other work or a lost claim only delays it.
DueJobsAreClaimed ==
  \A j \in Job : j \in due ~> (j \notin due \/ j \in retired)

=============================================================================
