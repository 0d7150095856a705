------------------------------ MODULE EndOfDay ------------------------------
(***************************************************************************)
(* The end-of-day of platform-service: RunSystem takes a session advisory  *)
(* lock for the business date, closes the SYSTEM date, has the owner       *)
(* services execute every tenant's steps in dependency order, each under a *)
(* checkpoint row, and advances the date when no mandatory step failed.    *)
(*                                                                         *)
(* A run is one call of RunSystem.  Business dates are numbered, and so    *)
(* are the tenants in the order IAM lists them.  The owner services are    *)
(* external: a step is executed there at most once per request, maybe      *)
(* after the caller stopped waiting for it.                                *)
(***************************************************************************)
EXTENDS Integers

CONSTANTS
  Run,          \* concurrent calls of RunSystem
  Process,      \* platform-service processes
  ProcessOf,    \* the process of each run
  Session,      \* database sessions
  SessionsOf,   \* those each process's pool may open
  NoSession,    \* no session
  NumTenants,   \* active tenants
  Step,         \* step codes of plt_job_definitions
  StepsOf,      \* the enabled steps of each tenant
  DependsOn,    \* depends_on of each step
  Sequence,     \* sequence of each step
  Mandatory, StopOnFail, Retryable,  \* the steps with each flag
  LastDate,     \* bound: business dates to close
  MaxFaults     \* bound: failures of steps, calls, sessions and processes

Tenant == 1 .. NumTenants
Task == {k \in Tenant \X Step : k[2] \in StepsOf[k[1]]}
Deps(k) == {k[1]} \X DependsOn[k[2]]
Date == 1 .. LastDate + 1

ASSUME ProcessesAssumption ==
  /\ ProcessOf \in [Run -> Process]
  /\ SessionsOf \in [Process -> SUBSET Session]
  /\ \A p, q \in Process : p # q => SessionsOf[p] \cap SessionsOf[q] = {}
  /\ NoSession \notin Session
ASSUME StepsAssumption ==
  /\ NumTenants \in Nat \ {0}
  /\ StepsOf \in [Tenant -> SUBSET Step]
  /\ \A t \in Tenant : StepsOf[t] # {}
  /\ DependsOn \in [Step -> SUBSET Step]
  /\ \A k \in Task : Deps(k) \subseteq Task
  /\ Sequence \in [Step -> Nat]
  /\ \A s, u \in Step : Sequence[s] = Sequence[u] => s = u
ASSUME BoundsAssumption == LastDate \in Nat \ {0} /\ MaxFaults \in Nat

VARIABLES
  date,        \* business_date of the SYSTEM row of plt_business_dates
  gate,        \* its status
  eodRun,      \* status of each date's row of plt_eod_runs, "" for no row
  checkpoint,  \* status of each row of plt_job_runs, "" for no row
  lock,        \* the session that holds each date's advisory lock
  pc,          \* what each run does next
  day,         \* its business date
  conn,        \* its dedicated session
  states,      \* its outcome of each task, "" before it is reached
  answer,      \* outcome reported by the owner of its current task
  executed,    \* <<date, task>> the owners have executed
  loose,       \* <<date, task>> requests nobody waits for any more
  split,       \* a session was lost under a run
  faults

vars == <<date, gate, eodRun, checkpoint, lock, pc, day, conn, states, answer,
          executed, loose, split, faults>>

\* The parts of the state an action leaves alone, by table.
calendar == <<date, gate>>
records == <<eodRun, checkpoint>>
owners == <<executed, loose>>
history == <<split, faults>>

Working == {"check", "begin", "verify", "record", "steps", "start", "call", "mark",
            "release"}
Sent == {"call", "mark"}

TypeOK ==
  /\ date \in Date
  /\ gate \in {"OPEN", "EOD_PROCESSING"}
  /\ eodRun \in [Date -> {"", "RUNNING", "FAILED", "SUCCEEDED"}]
  /\ checkpoint \in [Date \X Task -> {"", "RUNNING", "DONE", "FAILED", "SKIPPED"}]
  /\ lock \in [Date -> Session \cup {NoSession}]
  /\ pc \in [Run -> Working \cup {"idle", "lock"}]
  /\ day \in [Run -> 1 .. LastDate]
  /\ conn \in [Run -> Session \cup {NoSession}]
  /\ states \in [Run -> [Task -> {"", "DONE", "FAILED", "SKIPPED"}]]
  /\ answer \in [Run -> {"DONE", "FAILED"}]
  /\ executed \subseteq Date \X Task
  /\ loose \subseteq Date \X Task
  /\ split \in BOOLEAN
  /\ faults \in 0 .. MaxFaults

Unvisited == [k \in Task |-> ""]

Init ==
  /\ date = 1
  /\ gate = "OPEN"
  /\ eodRun = [d \in Date |-> ""]
  /\ checkpoint = [x \in Date \X Task |-> ""]
  /\ lock = [d \in Date |-> NoSession]
  /\ pc = [r \in Run |-> "idle"]
  /\ day = [r \in Run |-> 1]
  /\ conn = [r \in Run |-> NoSession]
  /\ states = [r \in Run |-> Unvisited]
  /\ answer = [r \in Run |-> "FAILED"]
  /\ executed = {}
  /\ loose = {}
  /\ split = FALSE
  /\ faults = 0

Fault == faults < MaxFaults /\ faults' = faults + 1
Goto(r, label) == pc' = [pc EXCEPT ![r] = label]

(***************************************************************************)
(* The order of the steps and the state of a run.                          *)
(***************************************************************************)
Visited(r) == {k \in Task : states[r][k] # ""}
Ready(r) == {k \in Task \ Visited(r) : Deps(k) \subseteq Visited(r)}
Before(j, k) ==
  \/ j[1] < k[1]
  \/ j[1] = k[1] /\ Sequence[j[2]] < Sequence[k[2]]

\* The task a run handles next: of the first tenant with a task left, the
\* step of least sequence among those whose dependencies were handled.
IsNext(r, k) == k \in Ready(r) /\ \A j \in Ready(r) \ {k} : Before(k, j)

StopTenant(r, t) ==
  \E k \in Task : k[1] = t /\ states[r][k] = "FAILED" /\ k[2] \in StopOnFail

Blocked(r, k) ==
  \/ StopTenant(r, k[1])
  \/ \E j \in Deps(k) : states[r][j] # "DONE"

MandatoryFailure(r) ==
  \E k \in Task : k[2] \in Mandatory /\ states[r][k] \in {"FAILED", "SKIPPED"}

(***************************************************************************)
(* The start of a run: the date, the lock, the gate and the run's row.     *)
(***************************************************************************)
\* A call reads the current date.  One that names another date returns at
\* once, and so does one that names a date already SUCCEEDED.
Call(r) ==
  /\ pc[r] = "idle"
  /\ date <= LastDate
  /\ Goto(r, "lock")
  /\ day' = [day EXCEPT ![r] = date]
  /\ states' = [states EXCEPT ![r] = Unvisited]
  /\ answer' = [answer EXCEPT ![r] = "FAILED"]
  /\ UNCHANGED <<calendar, records, lock, conn, owners, history>>

InUse(s) == \E r \in Run : conn[r] = s
Pooled(r) == {s \in SessionsOf[ProcessOf[r]] : ~ InUse(s)}

\* Mutant: the lock is taken without looking at its holder.
AcquireUnchecked(r) ==
  /\ pc[r] = "lock"
  /\ \E s \in Pooled(r) :
       /\ lock' = [lock EXCEPT ![day[r]] = s]
       /\ conn' = [conn EXCEPT ![r] = s]
  /\ Goto(r, "check")
  /\ UNCHANGED <<calendar, records, day, states, answer, owners, history>>

\* pg_try_advisory_lock on whatever session the pool hands out: a session
\* that holds the lock already gets it again.
Acquire(r) ==
  /\ pc[r] = "lock"
  /\ \E s \in Pooled(r) :
       /\ lock[day[r]] \in {NoSession, s}
       /\ lock' = [lock EXCEPT ![day[r]] = s]
       /\ conn' = [conn EXCEPT ![r] = s]
  /\ Goto(r, "check")
  /\ UNCHANGED <<calendar, records, day, states, answer, owners, history>>

\* ErrEODRunInProgress.
Refuse(r) ==
  /\ pc[r] = "lock"
  /\ \E s \in Pooled(r) : lock[day[r]] \notin {NoSession, s}
  /\ Goto(r, "idle")
  /\ UNCHANGED <<calendar, records, lock, day, conn, states, answer, owners, history>>

\* The end of a call: conn.Close() gives the session back to the pool, and
\* the session keeps its advisory lock.
Return(r) ==
  /\ Goto(r, "idle")
  /\ conn' = [conn EXCEPT ![r] = NoSession]

AlreadySucceeded(r) ==
  /\ pc[r] = "check"
  /\ eodRun[day[r]] = "SUCCEEDED"
  /\ Return(r)
  /\ UNCHANGED <<calendar, records, lock, day, states, answer, owners, history>>

NotSucceeded(r) ==
  /\ pc[r] = "check"
  /\ eodRun[day[r]] # "SUCCEEDED"
  /\ Goto(r, "begin")
  /\ UNCHANGED <<calendar, records, lock, day, conn, states, answer, owners, history>>

\* Mutant: a gate that an earlier run left closed is not taken over.
BeginOpenOnly(r) ==
  /\ pc[r] = "begin"
  /\ IF gate = "OPEN"
     THEN gate' = "EOD_PROCESSING" /\ Goto(r, "verify") /\ UNCHANGED conn
     ELSE Return(r) /\ UNCHANGED gate
  /\ UNCHANGED <<date, records, lock, day, states, answer, owners, history>>

\* ClaimEOD takes an open gate, or one an earlier run left closed, and
\* commits; the date is read after the commit.
BeginEOD(r) ==
  /\ pc[r] = "begin"
  /\ gate' = "EOD_PROCESSING"
  /\ Goto(r, "verify")
  /\ UNCHANGED <<date, records, lock, day, conn, states, answer, owners, history>>

VerifyDate(r) ==
  /\ pc[r] = "verify"
  /\ Goto(r, IF date = day[r] THEN "record" ELSE "release")
  /\ UNCHANGED <<calendar, records, lock, day, conn, states, answer, owners, history>>

RecordRun(r) ==
  /\ pc[r] = "record"
  /\ eodRun' = [eodRun EXCEPT ![day[r]] = IF @ = "SUCCEEDED" THEN @ ELSE "RUNNING"]
  /\ Goto(r, "steps")
  /\ UNCHANGED <<calendar, checkpoint, lock, day, conn, states, answer, owners, history>>

(***************************************************************************)
(* One task.                                                               *)
(***************************************************************************)
Outcome(r, k, status) ==
  /\ states' = [states EXCEPT ![r][k] = status]
  /\ UNCHANGED <<calendar, eodRun, lock, day, conn, answer, owners, history>>

\* A blocked task: its checkpoint is started and marked SKIPPED.  A run that
\* ends between the two leaves it RUNNING, which no later run tells from SKIPPED
\* (checkpoints are asked for DONE and FAILED only).  Here they are one step.
Skip(r) ==
  /\ pc[r] = "steps"
  /\ \E k \in Task :
       /\ IsNext(r, k)
       /\ Blocked(r, k)
       /\ checkpoint' = [checkpoint EXCEPT ![<<day[r], k>>] = "SKIPPED"]
       /\ Outcome(r, k, "SKIPPED")
  /\ UNCHANGED pc

\* Mutant: a task an earlier run has started counts as finished.
AlreadyStarted(r) ==
  /\ pc[r] = "steps"
  /\ \E k \in Task :
       /\ IsNext(r, k)
       /\ ~ Blocked(r, k)
       /\ checkpoint[<<day[r], k>>] \in {"RUNNING", "DONE"}
       /\ Outcome(r, k, "DONE")
  /\ UNCHANGED <<checkpoint, pc>>

\* An earlier run finished the task.
AlreadyDone(r) ==
  /\ pc[r] = "steps"
  /\ \E k \in Task :
       /\ IsNext(r, k)
       /\ ~ Blocked(r, k)
       /\ checkpoint[<<day[r], k>>] = "DONE"
       /\ Outcome(r, k, "DONE")
  /\ UNCHANGED <<checkpoint, pc>>

NotRetryable(r, k) == checkpoint[<<day[r], k>>] = "FAILED" /\ k[2] \notin Retryable

GiveUp(r) ==
  /\ pc[r] = "steps"
  /\ \E k \in Task :
       /\ IsNext(r, k)
       /\ ~ Blocked(r, k)
       /\ NotRetryable(r, k)
       /\ Outcome(r, k, "FAILED")
  /\ UNCHANGED <<checkpoint, pc>>

\* The prior status was read; the checkpoint is written by a later statement.
Choose(r) ==
  /\ pc[r] = "steps"
  /\ \E k \in Task :
       /\ IsNext(r, k)
       /\ ~ Blocked(r, k)
       /\ checkpoint[<<day[r], k>>] # "DONE"
       /\ ~ NotRetryable(r, k)
  /\ Goto(r, "start")
  /\ UNCHANGED <<calendar, records, lock, day, conn, states, answer, owners, history>>

StartJobRun(r) ==
  /\ pc[r] = "start"
  /\ \E k \in Task :
       /\ IsNext(r, k)
       /\ checkpoint' = [checkpoint EXCEPT ![<<day[r], k>>] = "RUNNING"]
  /\ Goto(r, "call")
  /\ UNCHANGED <<calendar, eodRun, lock, day, conn, states, answer, owners, history>>

\* The owner executes the step, and its 2xx body reports no failed item.
Succeed(r) ==
  /\ pc[r] = "call"
  /\ \E k \in Task : IsNext(r, k) /\ executed' = executed \cup {<<day[r], k>>}
  /\ answer' = [answer EXCEPT ![r] = "DONE"]
  /\ Goto(r, "mark")
  /\ UNCHANGED <<calendar, records, lock, day, conn, states, loose, history>>

\* An error status, success=false, failed items or an unreadable body.
ReportFailure(r) ==
  /\ pc[r] = "call"
  /\ Fault
  /\ Goto(r, "mark")
  /\ answer' = [answer EXCEPT ![r] = "FAILED"]
  /\ UNCHANGED <<calendar, records, lock, day, conn, states, owners, split>>

\* The client's timeout or a broken connection: the request may be executed
\* later, now, or never.
CallLost(r) ==
  /\ pc[r] = "call"
  /\ Fault
  /\ \E k \in Task : IsNext(r, k) /\ loose' = loose \cup {<<day[r], k>>}
  /\ Goto(r, "mark")
  /\ answer' = [answer EXCEPT ![r] = "FAILED"]
  /\ UNCHANGED <<calendar, records, lock, day, conn, states, executed, split>>

ExecuteLate(x) ==
  /\ x \in loose
  /\ loose' = loose \ {x}
  /\ executed' = executed \cup {x}
  /\ UNCHANGED <<calendar, records, lock, pc, day, conn, states, answer, history>>

\* Mutant: only failures are written to the checkpoint.
MarkFailuresOnly(r) ==
  /\ pc[r] = "mark"
  /\ \E k \in Task :
       /\ IsNext(r, k)
       /\ checkpoint' = IF answer[r] = "FAILED"
                        THEN [checkpoint EXCEPT ![<<day[r], k>>] = "FAILED"] ELSE checkpoint
       /\ Outcome(r, k, answer[r])
  /\ Goto(r, "steps")

MarkRun(r) ==
  /\ pc[r] = "mark"
  /\ \E k \in Task :
       /\ IsNext(r, k)
       /\ checkpoint' = [checkpoint EXCEPT ![<<day[r], k>>] = answer[r]]
       /\ Outcome(r, k, answer[r])
  /\ Goto(r, "steps")

\* A checkpoint that cannot be written makes the step a failed one.
MarkFails(r) ==
  /\ pc[r] = "mark"
  /\ Fault
  /\ \E k \in Task : IsNext(r, k) /\ states' = [states EXCEPT ![r][k] = "FAILED"]
  /\ Goto(r, "steps")
  /\ UNCHANGED <<calendar, records, lock, day, conn, answer, owners, split>>

(***************************************************************************)
(* The end of a run.                                                       *)
(***************************************************************************)
\* Mutant: the run is marked FAILED whatever its status.
FailAnyRun(d) == eodRun' = [eodRun EXCEPT ![d] = "FAILED"]

FailRun(d) == eodRun' = [eodRun EXCEPT ![d] = IF @ = "RUNNING" THEN "FAILED" ELSE @]

FailEOD(r) ==
  /\ pc[r] = "steps"
  /\ Visited(r) = Task
  /\ MandatoryFailure(r)
  /\ FailRun(day[r])
  /\ Goto(r, "release")
  /\ UNCHANGED <<calendar, checkpoint, lock, day, conn, states, answer, owners, history>>

\* One transaction over the SYSTEM date and the run's row.
Completable(r) ==
  /\ gate = "EOD_PROCESSING"
  /\ date = day[r]
  /\ eodRun[day[r]] = "RUNNING"

Advance(r) ==
  /\ pc[r] = "steps"
  /\ Visited(r) = Task
  /\ ~ MandatoryFailure(r)
  /\ Completable(r)
  /\ date' = date + 1
  /\ gate' = "OPEN"
  /\ eodRun' = [eodRun EXCEPT ![day[r]] = "SUCCEEDED"]

CompleteEOD(r) ==
  /\ Advance(r)
  /\ Return(r)
  /\ UNCHANGED <<checkpoint, lock, day, states, answer, owners, history>>

\* The transaction committed, but the commit's answer or the read of the new
\* date that follows it fails: failEOD, which is for a RUNNING row, finds the
\* row SUCCEEDED, and the deferred release is still to come.
CompleteUnseen(r) ==
  /\ Fault
  /\ Advance(r)
  /\ Goto(r, "release")
  /\ UNCHANGED <<checkpoint, lock, day, conn, states, answer, owners, split>>

CompleteRefused(r) ==
  /\ pc[r] = "steps"
  /\ Visited(r) = Task
  /\ ~ MandatoryFailure(r)
  /\ ~ Completable(r)
  /\ FailRun(day[r])
  /\ Goto(r, "release")
  /\ UNCHANGED <<calendar, checkpoint, lock, day, conn, states, answer, owners, history>>

\* The deferred ReleaseEOD, on a context of its own.
ReleaseEOD(r) ==
  /\ pc[r] = "release"
  /\ gate' = "OPEN"
  /\ Return(r)
  /\ UNCHANGED <<date, records, lock, day, states, answer, owners, history>>

ReleaseFails(r) ==
  /\ pc[r] = "release"
  /\ Fault
  /\ Return(r)
  /\ UNCHANGED <<calendar, records, lock, day, states, answer, owners, split>>

(***************************************************************************)
(* Failures.                                                               *)
(***************************************************************************)
Orphan(R) ==
  loose' = loose \cup {x \in Date \X Task :
                         \E r \in R : pc[r] = "call" /\ x[1] = day[r] /\ IsNext(r, x[2])}

\* A database error or the caller's context ends the run between two steps.
\* With a cancelled context the FAILED mark is not written.  Before VerifyDate
\* has returned no release is deferred.
Abort(r) ==
  /\ Fault
  /\ \/ /\ pc[r] \in {"lock", "check", "begin", "verify"}
        /\ Return(r)
        /\ UNCHANGED <<eodRun, loose>>
     \/ /\ pc[r] \in {"record", "steps", "start", "call", "mark"}
        /\ Goto(r, "release")
        /\ FailRun(day[r]) \/ UNCHANGED eodRun
        /\ Orphan({r})
        /\ UNCHANGED conn
  /\ UNCHANGED <<calendar, checkpoint, lock, day, states, answer, executed, split>>

Unlock(S) == lock' = [d \in Date |-> IF lock[d] \in S THEN NoSession ELSE lock[d]]

\* The server ends a session whose run goes on.
LoseSession(r) ==
  /\ pc[r] \in Working
  /\ Fault
  /\ Unlock({conn[r]})
  /\ split' = TRUE
  /\ UNCHANGED <<calendar, records, pc, day, conn, states, answer, owners>>

\* The pool closes an idle session at its lifetime or idle time.
CloseIdle(s) ==
  /\ ~ InUse(s)
  /\ \E d \in Date : lock[d] = s
  /\ Unlock({s})
  /\ UNCHANGED <<calendar, records, pc, day, conn, states, answer, owners, history>>

Crash(p) ==
  /\ \E r \in Run : ProcessOf[r] = p /\ pc[r] # "idle"
  /\ Fault
  /\ LET mine == {r \in Run : ProcessOf[r] = p}
     IN /\ pc' = [r \in Run |-> IF r \in mine THEN "idle" ELSE pc[r]]
        /\ conn' = [r \in Run |-> IF r \in mine THEN NoSession ELSE conn[r]]
        /\ Orphan(mine)
  /\ Unlock(SessionsOf[p])
  /\ UNCHANGED <<calendar, records, day, states, answer, executed, split>>

(***************************************************************************)
(* The specification.                                                      *)
(***************************************************************************)
RunStep(r) ==
  \/ Acquire(r) \/ Refuse(r)
  \/ AlreadySucceeded(r) \/ NotSucceeded(r) \/ BeginEOD(r) \/ VerifyDate(r) \/ RecordRun(r)
  \/ Skip(r) \/ AlreadyDone(r) \/ GiveUp(r) \/ Choose(r) \/ StartJobRun(r)
  \/ Succeed(r) \/ MarkRun(r)
  \/ FailEOD(r) \/ CompleteEOD(r) \/ CompleteRefused(r) \/ ReleaseEOD(r)

RunFault(r) ==
  \/ ReportFailure(r) \/ CallLost(r) \/ MarkFails(r) \/ CompleteUnseen(r)
  \/ ReleaseFails(r) \/ Abort(r) \/ LoseSession(r)

\* The bound on dates is reached.
Rest == date > LastDate /\ UNCHANGED vars

Next ==
  \/ Rest
  \/ \E r \in Run : Call(r) \/ RunStep(r) \/ RunFault(r)
  \/ \E x \in loose : ExecuteLate(x)
  \/ \E s \in Session : CloseIdle(s)
  \/ \E p \in Process : Crash(p)

Spec == Init /\ [][Next]_vars

\* A process that runs goes on, an unfinished day is called again, and the
\* pool closes a session that stays idle.
Fairness ==
  /\ \A r \in Run : WF_vars(Call(r)) /\ WF_vars(RunStep(r))
  /\ \A s \in Session : WF_vars(CloseIdle(s))

FairSpec == Spec /\ Fairness
(***************************************************************************)
(* Properties.                                                             *)
(***************************************************************************)
Required == {k \in Task : k[2] \in Mandatory}
Days == INSTANCE BusinessDays WITH Prior <- [k \in Task |-> Deps(k)]

\* The SYSTEM date moves one business day at a time, and only when the owners
\* have executed every mandatory step of every tenant for the day it leaves;
\* and no owner executes a step before those it depends on.  That is so
\* whatever crashed, was retried, overlapped or was answered late (RunSystem,
\* orderEODSteps, eodStepBlockReason, CompleteEOD): EndOfDay implements
\* BusinessDays.
ClosesBusinessDays == Days!Spec

Active(r) == pc[r] \in Working

\* Two runs work on one date only when a session was lost under one of them:
\* the advisory lock that outlives its run never lets a second one in.
ExclusiveRun ==
  split \/ \A q, r \in Run : q # r /\ Active(q) /\ Active(r) => day[q] # day[r]

\* The catalog (eodStepCatalog) has every step stop its tenant on failure; all
\* that matters is that what a stopping step depends on stops too.  Rows that
\* the seed does not own can break this, and then the checkpoints no longer
\* hold: a blocked step is marked SKIPPED whatever its status was.
StopsAreClosed == \A s \in StopOnFail : DependsOn[s] \subseteq StopOnFail

\* Unless a session was lost, a step that is DONE for a date stays DONE: no
\* failure, retry, resumed or overlapping run overwrites its checkpoint (the
\* rows of plt_job_runs, by which the end of day is idempotent per business
\* date).  It rests on StopsAreClosed: Skip does not look at the status.
DoneIsKept ==
  [][split \/ \A x \in Date \X Task :
       checkpoint[x] = "DONE" => checkpoint'[x] = "DONE"]_vars

\* Unless a session was lost, no run asks an owner for a step again once a
\* dependent of it was executed (the checkpoints of plt_job_runs): retries
\* and resumed runs never compute a later step on data that is then replaced.
\* It rests on StopsAreClosed too.
NoRepeatUnderDependent ==
  split \/ \A r \in Run, j, k \in Task :
    pc[r] = "call" /\ IsNext(r, k) /\ k \in Deps(j) => <<day[r], j>> \notin executed

\* The run's row and the SYSTEM date agree: the dates that SUCCEEDED are those
\* the calendar has left (the one transaction of CompleteEOD).
SucceededDatesAreLeft ==
  \A d \in Date : eodRun[d] = "SUCCEEDED" <=> d < date

\* A day is closed at last, unless a mandatory step that is not retryable
\* failed (RunSystem called again after failures and crashes, an advisory lock
\* left on a pooled session included).
DayIsClosed ==
  \A d \in 1 .. LastDate :
    date = d ~> \/ date > d
                \/ \E k \in Task : /\ checkpoint[<<d, k>>] = "FAILED"
                                   /\ k[2] \in Mandatory \ Retryable

=============================================================================
