------------------------- MODULE JobSchedulerProofs -------------------------
(***************************************************************************)
(* Theorems about JobScheduler for any number of jobs, replicas, slots and *)
(* faults: its types, one live run per job and one execution at a time,    *)
(* slots that are neither lost nor used twice, a history that late answers *)
(* do not rewrite, alerts that tell the truth, and the arithmetic of       *)
(* deadlines that one execution at a time rests on.                        *)
(***************************************************************************)
EXTENDS JobScheduler, FiniteSetTheorems, SequenceTheorems, TLAPS

\* What keeps the goroutines' counters within their bounds.
TriesLeft ==
  \A r \in Run :
    /\ exec[r].tries < FinalizeTries
    /\ exec[r].outcome = "" => exec[r].attempt < MaxAttempts

Typed == TypeOK /\ TriesLeft

---------------------------------------------------------------------------
\* A deadline leaves time for every attempt of the run and for finalizing it,
\* whatever timeout and back-off the operator configured (deadline, Execute,
\* finalize): only a suspended process is still at work when it passes.
THEOREM DeadlineCoversExecution ==
  ASSUME NEW attempts \in 1 .. 5, NEW timeout \in Nat, NEW backoff \in Nat
  PROVE  LongestExecution(attempts, timeout, backoff) + LongestFinalize
           < Budget(attempts, timeout, backoff)
<1>1. attempts \in {1, 2, 3, 4, 5}
  OBVIOUS
<1>2. CASE attempts = 1
  BY <1>2 DEF LongestExecution, LongestFinalize, Budget, Shifted
<1>3. CASE attempts = 2
  BY <1>3 DEF LongestExecution, LongestFinalize, Budget, Shifted
<1>4. CASE attempts = 3
  BY <1>4 DEF LongestExecution, LongestFinalize, Budget, Shifted
<1>5. CASE attempts = 4
  BY <1>5 DEF LongestExecution, LongestFinalize, Budget, Shifted
<1>6. CASE attempts = 5
  BY <1>6 DEF LongestExecution, LongestFinalize, Budget, Shifted
<1> QED
  BY <1>1, <1>2, <1>3, <1>4, <1>5, <1>6

---------------------------------------------------------------------------
\* Helpers of the actions.

LEMMA TypedCounters ==
  ASSUME Typed
  PROVE  /\ slots \in [Replica -> Int] /\ tick \in [Replica -> Int]
         /\ manuals \in Nat /\ faults \in Nat /\ stalls \in Nat
  BY DEF Typed, TypeOK

LEMMA FaultTyped ==
  ASSUME Typed, Fault
  PROVE  faults' \in Nat
<1>1. faults \in Nat /\ faults' = faults + 1
  BY TypedCounters DEF Fault
<1> QED
  BY <1>1

LEMMA TypedGoroutine ==
  ASSUME Typed, NEW r \in Run
  PROVE  /\ exec \in [Run -> Goroutine]
         /\ exec[r] \in Goroutine
         /\ exec[r].attempt \in Nat /\ exec[r].tries \in Nat
         /\ exec[r].outcome \in Terminal \union {""}
<1>1. exec \in [Run -> Goroutine]
  BY DEF Typed, TypeOK
<1>2. exec[r] \in Goroutine
  BY <1>1
<1>3. /\ exec[r].attempt \in 0 .. MaxAttempts /\ exec[r].tries \in 0 .. FinalizeTries
      /\ exec[r].outcome \in Terminal \union {""}
  BY <1>2 DEF Goroutine
<1>4. exec[r].attempt \in Nat /\ exec[r].tries \in Nat
  <2>1. \A n \in 0 .. MaxAttempts : n \in Nat
    BY SizesAssumption
  <2>2. \A n \in 0 .. FinalizeTries : n \in Nat
    BY SizesAssumption
  <2> QED
    BY <1>3, <2>1, <2>2
<1> QED
  BY <1>1, <1>2, <1>3, <1>4

\* A number that is not in use names a run of the job without a row.
LEMMA FreshIsUnused ==
  ASSUME NEW j \in Job, Unused(j) # {}
  PROVE  /\ Fresh(j) \in Run /\ JobOf(Fresh(j)) = j
         /\ Fresh(j)[2] \in 1 .. RunsPerJob
         /\ status[Fresh(j)] = ""
<1>1. (CHOOSE n \in Unused(j) : TRUE) \in Unused(j)
  OBVIOUS
<1> DEFINE n == CHOOSE n \in Unused(j) : TRUE
<1>2. n \in 1 .. RunsPerJob /\ status[<<j, n>>] = ""
  BY <1>1 DEF Unused
<1>3. Fresh(j) = <<j, n>>
  BY DEF Fresh
<1> HIDE DEF n
<1>4. <<j, n>> \in Run /\ <<j, n>>[1] = j /\ <<j, n>>[2] = n
  BY <1>2 DEF Run
<1>5. JobOf(Fresh(j)) = Fresh(j)[1]
  BY DEF JobOf
<1> QED
  BY <1>2, <1>3, <1>4, <1>5

LEMMA JobOfRun == ASSUME NEW r \in Run PROVE JobOf(r) \in Job
  BY DEF Run, JobOf

LEMMA StartedTyped ==
  ASSUME NEW p \in Replica \union {Nobody}
  PROVE  /\ Started(p) \in Goroutine
         /\ Started(p).tries < FinalizeTries /\ Started(p).attempt < MaxAttempts
<1>1. /\ 0 \in 0 .. MaxAttempts /\ 0 \in 0 .. FinalizeTries
      /\ 0 < MaxAttempts /\ 0 < FinalizeTries
  BY SizesAssumption
<1> QED
  BY <1>1 DEF Started, Goroutine

LEMMA IdleTyped ==
  Idle \in Goroutine /\ Idle.tries < FinalizeTries /\ Idle.attempt < MaxAttempts
  BY StartedTyped DEF Idle

\* The size of a set of jobs is a number.
LEMMA JobsCounted ==
  ASSUME NEW js \in SUBSET Job
  PROVE  Cardinality(js) \in Nat
  BY JobAssumption, FS_Subset, FS_CardinalityType

LEMMA ReleaseTyped ==
  ASSUME slots \in [Replica -> Int], NEW p, NEW n \in Int, Release(p, n)
  PROVE  slots' \in [Replica -> Int]
<1>1. CASE p \in Replica
  <2>1. slots[p] - n \in Int
    BY <1>1
  <2> QED
    BY <2>1 DEF Release
<1>2. CASE p \notin Replica
  BY <1>2 DEF Release
<1> QED
  BY <1>1, <1>2

LEMMA RescheduleTyped ==
  ASSUME TypeOK, NEW js \in SUBSET Job, Reschedule(js)
  PROVE  due' \in SUBSET Job /\ ahead' \in [Job -> SUBSET Job]
  BY DEF TypeOK, Reschedule

LEMMA InsertRunsTyped ==
  ASSUME TypeOK, NEW js \in SUBSET Job, InsertRuns(js)
  PROVE  /\ lastStatus' \in [Job -> Terminal \union {""}]
         /\ status' \in [Run -> Terminal \union {"", "RUNNING"}]
         /\ rows' \in [Job -> Seq(1 .. RunsPerJob)]
         /\ expired' \in SUBSET Run
         /\ alerts' \in [Job -> Int]
<1>1. ASSUME NEW j \in Job
      PROVE  (IF j \in js THEN Append(rows[j], Fresh(j)[2]) ELSE rows[j])
               \in Seq(1 .. RunsPerJob)
  <2>1. rows[j] \in Seq(1 .. RunsPerJob)
    BY DEF TypeOK
  <2>2. j \in js => Fresh(j)[2] \in 1 .. RunsPerJob
    BY FreshIsUnused DEF InsertRuns
  <2>3. CASE j \in js
    <3> DEFINE n == Fresh(j)[2]
    <3>1. n \in 1 .. RunsPerJob
      BY <2>2, <2>3
    <3> HIDE DEF n
    <3>2. Append(rows[j], n) \in Seq(1 .. RunsPerJob)
      BY <2>1, <3>1
    <3> QED
      BY <2>3, <3>2 DEF n
  <2> QED
    BY <2>1, <2>3
<1>2. rows' \in [Job -> Seq(1 .. RunsPerJob)]
  BY <1>1 DEF InsertRuns
<1> QED
  BY <1>2 DEF TypeOK, InsertRuns

LEMMA DispatchTyped ==
  ASSUME Typed, NEW p \in Replica, NEW js, Dispatch(p, js)
  PROVE  exec' \in [Run -> Goroutine] /\ TriesLeft'
<1> DEFINE started == Started(p)
<1>1. /\ started \in Goroutine /\ started.tries < FinalizeTries
      /\ started.attempt < MaxAttempts
  BY StartedTyped
<1>2. \A r \in Run : exec'[r] = started \/ exec'[r] = exec[r]
  BY DEF Dispatch
<1>3. exec' \in [Run -> Goroutine]
  BY <1>1 DEF Dispatch, Typed, TypeOK
<1> QED
  BY <1>1, <1>2, <1>3 DEF Typed, TriesLeft

LEMMA ReturnTyped ==
  ASSUME Typed, NEW r \in Run, Return(r)
  PROVE  exec' \in [Run -> Goroutine] /\ slots' \in [Replica -> Int] /\ TriesLeft'
<1>1. exec' \in [Run -> Goroutine]
  BY IdleTyped DEF Return, Typed, TypeOK
<1>2. slots' \in [Replica -> Int]
  <2>1. Release(exec[r].at, 1) /\ 1 \in Int
    BY DEF Return
  <2> QED
    BY <2>1, ReleaseTyped, TypedCounters
<1>3. \A other \in Run : exec'[other] = Idle \/ exec'[other] = exec[other]
  BY DEF Return, Typed, TypeOK
<1> QED
  BY <1>1, <1>2, <1>3, IdleTyped DEF Typed, TriesLeft

LEMMA FinalizeTxTyped ==
  ASSUME TypeOK, NEW r \in Run, NEW outcome \in Terminal, FinalizeTx(r, outcome)
  PROVE  /\ lastStatus' \in [Job -> Terminal \union {""}]
         /\ status' \in [Run -> Terminal \union {"", "RUNNING"}]
         /\ rows' \in [Job -> Seq(1 .. RunsPerJob)]
         /\ expired' \in SUBSET Run
         /\ alerts' \in [Job -> Int]
<1>1. CASE status[r] = "RUNNING"
  <2>1. alerts[JobOf(r)] + Transition(lastStatus[JobOf(r)], outcome) \in Int
    <3>1. alerts[JobOf(r)] \in Int
      BY JobOfRun DEF TypeOK
    <3>2. Transition(lastStatus[JobOf(r)], outcome) \in {-1, 0, 1}
      BY DEF Transition
    <3> QED
      BY <3>1, <3>2
  <2>2. alerts' \in [Job -> Int]
    <3> DEFINE next == alerts[JobOf(r)] + Transition(lastStatus[JobOf(r)], outcome)
    <3>1. alerts' = [alerts EXCEPT ![JobOf(r)] = next] /\ alerts \in [Job -> Int]
      BY <1>1 DEF FinalizeTx, TypeOK
    <3> HIDE DEF next
    <3> QED
      BY <2>1, <3>1 DEF next
  <2>3. lastStatus' \in [Job -> Terminal \union {""}]
    BY <1>1 DEF FinalizeTx, TypeOK
  <2>4. status' \in [Run -> Terminal \union {"", "RUNNING"}]
    <3>1. status' = [status EXCEPT ![r] = outcome]
      BY <1>1 DEF FinalizeTx
    <3> QED
      BY <3>1 DEF TypeOK
  <2> QED
    BY <1>1, <2>2, <2>3, <2>4 DEF FinalizeTx, TypeOK
<1>2. CASE status[r] # "RUNNING"
  BY <1>2 DEF FinalizeTx, TypeOK, table
<1> QED
  BY <1>1, <1>2

---------------------------------------------------------------------------
LEMMA InitTyped == Init => Typed
<1> SUFFICES ASSUME Init PROVE Typed
  OBVIOUS
<1>1. exec \in [Run -> Goroutine]
  BY IdleTyped DEF Init
<1>2. TriesLeft
  BY IdleTyped DEF Init, TriesLeft
<1>3. rows \in [Job -> Seq(1 .. RunsPerJob)]
  <2>1. <<>> \in Seq(1 .. RunsPerJob)
    OBVIOUS
  <2> QED
    BY <2>1 DEF Init
<1>4. 0 \in Int /\ 0 \in Nat
  OBVIOUS
<1>5. /\ alerts \in [Job -> Int] /\ slots \in [Replica -> Int] /\ tick \in [Replica -> Int]
      /\ manuals \in Nat /\ faults \in Nat /\ stalls \in Nat
  BY <1>4 DEF Init
<1> QED
  BY <1>1, <1>2, <1>3, <1>5 DEF Init, Typed, TypeOK

LEMMA JobStepTyped ==
  ASSUME Typed, NEW j \in Job, JobStep(j)
  PROVE  Typed'
<1> USE DEF Typed
<1>1. CASE CronPasses(j)
  BY <1>1 DEF CronPasses, TypeOK, TriesLeft, table, process, counters
<1>2. ASSUME NEW enabled \in BOOLEAN, UpdateConfig(j, enabled)
      PROVE  Typed'
  <2>1. due' \in SUBSET Job /\ ahead' \in [Job -> SUBSET Job]
    BY <1>2, RescheduleTyped DEF UpdateConfig
  <2> QED
    BY <1>2, <2>1 DEF UpdateConfig, TypeOK, TriesLeft, table, process, counters
<1>3. CASE Cleanup(j)
  <2>1. rows[j] \in Seq(1 .. RunsPerJob) /\ rows[j] # <<>>
    BY <1>3 DEF Cleanup, TypeOK
  <2>2. Tail(rows[j]) \in Seq(1 .. RunsPerJob)
    <3> DEFINE all == rows[j]
    <3> HIDE DEF all
    <3>1. \A s \in Seq(1 .. RunsPerJob) : s # <<>> => Tail(s) \in Seq(1 .. RunsPerJob)
      BY HeadTailProperties
    <3> QED
      BY <2>1, <3>1
  <2>3. rows' \in [Job -> Seq(1 .. RunsPerJob)]
    BY <1>3, <2>2 DEF Cleanup, TypeOK
  <2> QED
    BY <1>3, <2>3 DEF Cleanup, TypeOK, TriesLeft, schedule, process, counters
<1> QED
  BY <1>1, <1>2, <1>3 DEF JobStep

LEMMA RunStepTyped ==
  ASSUME Typed, NEW r \in Run, RunStep(r)
  PROVE  Typed'
<1>0. exec[r] \in Goroutine /\ exec \in [Run -> Goroutine]
  BY DEF Typed, TypeOK
<1>1. ASSUME NEW outcome \in Terminal, NEW retryable \in BOOLEAN,
             Attempt(r, outcome, retryable)
      PROVE  Typed'
  <2> DEFINE last == IF retryable /\ exec[r].attempt + 1 < MaxAttempts THEN "" ELSE outcome
             next == [exec[r] EXCEPT !.attempt = @ + 1, !.outcome = last]
  <2>1. /\ exec[r].attempt \in Nat /\ exec[r].attempt < MaxAttempts
        /\ exec[r].tries < FinalizeTries
    BY <1>1, TypedGoroutine DEF Typed, TriesLeft, Attempt, Attempting
  <2>2. exec' = [exec EXCEPT ![r] = next]
    BY <1>0, <1>1 DEF Attempt
  <2>3. /\ exec[r].attempt + 1 \in 0 .. MaxAttempts
        /\ last \in Terminal \union {""}
    <3>1. exec[r].attempt + 1 \in 0 .. MaxAttempts
      BY <2>1, SizesAssumption
    <3>2. last = "" \/ last = outcome
      OBVIOUS
    <3> QED
      BY <3>1, <3>2
  <2>4. last = "" => exec[r].attempt + 1 < MaxAttempts
    <3>1. outcome # ""
      BY DEF Terminal
    <3> QED
      BY <3>1
  <2>5. /\ next \in Goroutine
        /\ next.tries < FinalizeTries
        /\ next.outcome = "" => next.attempt < MaxAttempts
    <3> HIDE DEF last
    <3> QED
      BY <1>0, <2>1, <2>3, <2>4 DEF Goroutine
  <2>6. exec' \in [Run -> Goroutine] /\ TriesLeft'
    <3> HIDE DEF next
    <3> QED
      BY <1>0, <2>2, <2>5 DEF Typed, TriesLeft
  <2> QED
    BY <1>1, <2>6 DEF Attempt, Typed, TypeOK, schedule, table, counters
<1>2. CASE Finalize(r)
  <2>1. exec[r].outcome \in Terminal
    BY <1>0, <1>2 DEF Finalize, Goroutine
  <2>2. FinalizeTx(r, exec[r].outcome) /\ Return(r)
    BY <1>2 DEF Finalize
  <2> QED
    BY <1>2, <2>1, <2>2, FinalizeTxTyped, ReturnTyped
    DEF Finalize, Typed, TypeOK, schedule, counters
<1>3. CASE FinalizeError(r)
  <2>1. exec[r].outcome \in Terminal
    BY <1>0, <1>3 DEF FinalizeError, Goroutine
  <2>2. /\ lastStatus' \in [Job -> Terminal \union {""}]
        /\ status' \in [Run -> Terminal \union {"", "RUNNING"}]
        /\ rows' \in [Job -> Seq(1 .. RunsPerJob)]
        /\ expired' \in SUBSET Run
        /\ alerts' \in [Job -> Int]
    <3>1. CASE UNCHANGED table
      BY <3>1 DEF table, Typed, TypeOK
    <3>2. CASE FinalizeTx(r, exec[r].outcome)
      BY <3>2, <2>1, FinalizeTxTyped DEF Typed
    <3> QED
      BY <1>3, <3>1, <3>2 DEF FinalizeError
  <2>3. exec' \in [Run -> Goroutine] /\ slots' \in [Replica -> Int] /\ TriesLeft'
    <3>1. CASE exec[r].tries + 1 = FinalizeTries
      BY <1>3, <3>1, ReturnTyped DEF FinalizeError
    <3>2. CASE exec[r].tries + 1 # FinalizeTries
      <4> DEFINE next == [exec[r] EXCEPT !.tries = @ + 1]
      <4>1. exec[r].tries \in Nat /\ exec[r].tries + 1 < FinalizeTries
        <5>1. exec[r].tries \in Nat /\ exec[r].tries < FinalizeTries
          BY TypedGoroutine DEF Typed, TriesLeft
        <5> QED
          BY <3>2, <5>1, SizesAssumption
      <4>2. exec' = [exec EXCEPT ![r] = next] /\ UNCHANGED slots
        BY <1>0, <1>3, <3>2 DEF FinalizeError
      <4>3. next \in Goroutine /\ next.tries < FinalizeTries
            /\ next.outcome = exec[r].outcome
        <5>1. exec[r].tries + 1 \in 0 .. FinalizeTries
          BY <4>1, SizesAssumption
        <5> QED
          BY <1>0, <4>1, <5>1 DEF Goroutine
      <4>4. next.outcome # ""
        BY <4>3, <2>1 DEF Terminal
      <4> QED
        BY <1>0, <4>2, <4>3, <4>4 DEF Typed, TypeOK, TriesLeft
    <3> QED
      BY <3>1, <3>2
  <2>4. faults' \in Nat
    BY <1>3, FaultTyped DEF FinalizeError
  <2> QED
    BY <1>3, <2>2, <2>3, <2>4 DEF FinalizeError, Typed, TypeOK, schedule
<1>4. CASE Expire(r)
  <2>1. stalls' \in Nat
    <3>1. stalls \in Nat /\ (stalls' = stalls \/ stalls' = stalls + 1)
      BY <1>4, TypedCounters DEF Expire
    <3> QED
      BY <3>1
  <2> QED
    BY <1>4, <2>1 DEF Expire, Typed, TypeOK, TriesLeft, schedule, process
<1> QED
  BY <1>1, <1>2, <1>3, <1>4 DEF RunStep

LEMMA LoopCallTyped ==
  ASSUME Typed, NEW p \in Replica, LoopCallFails(p)
  PROVE  faults' \in Nat
  BY FaultTyped, TypedCounters DEF LoopCallFails

\* What ClaimDue's transaction writes.
LEMMA ClaimTxTyped ==
  ASSUME Typed, NEW p \in Replica, NEW broken \in SUBSET held[p], ClaimTx(p, broken)
  PROVE  /\ armed' \in SUBSET Job
         /\ due' \in SUBSET Job
         /\ ahead' \in [Job -> SUBSET Job]
         /\ lastStatus' \in [Job -> Terminal \union {""}]
         /\ status' \in [Run -> Terminal \union {"", "RUNNING"}]
         /\ rows' \in [Job -> Seq(1 .. RunsPerJob)]
         /\ expired' \in SUBSET Run
         /\ alerts' \in [Job -> Int]
         /\ tick' \in [Replica -> Int]
         /\ held' \in [Replica -> SUBSET Job]
         /\ Startable(p, broken) \in SUBSET Job
         /\ broken \in SUBSET Job
<1>1. held[p] \in SUBSET Job
  BY DEF Typed, TypeOK
<1>2. Startable(p, broken) \in SUBSET Job /\ broken \in SUBSET Job
  BY <1>1 DEF Startable
<1>3. due' \in SUBSET Job /\ ahead' \in [Job -> SUBSET Job]
  BY <1>1, RescheduleTyped DEF ClaimTx, Typed
<1>4. InsertRuns(Startable(p, broken))
  BY DEF ClaimTx
<1>5. armed' \in SUBSET Job
  BY DEF ClaimTx, Typed, TypeOK
<1>6. tick' \in [Replica -> Int]
  BY TypedCounters DEF ClaimTx
<1>7. held' \in [Replica -> SUBSET Job]
  BY DEF ClaimTx, Typed, TypeOK
<1> QED
  BY <1>2, <1>3, <1>4, <1>5, <1>6, <1>7, InsertRunsTyped DEF Typed

LEMMA TickStepTyped ==
  ASSUME Typed, NEW p \in Replica, TickStep(p)
  PROVE  Typed'
<1>0. tick[p] \in Int /\ slots[p] \in Int /\ MaxConcurrentJobs \in Int
  BY SizesAssumption, TypedCounters
<1>1. CASE TickReserve(p)
  <2>1. Free(p) \in Int
    BY <1>0 DEF Free
  <2> QED
    BY <1>0, <1>1, <2>1 DEF TickReserve, Typed, TypeOK, TriesLeft, schedule, table, counters
<1>2. ASSUME NEW skipped \in SUBSET Job, LockDue(p, skipped)
      PROVE  Typed'
  <2>1. held' \in [Replica -> SUBSET Job]
    BY <1>2 DEF LockDue, Typed, TypeOK
  <2>2. \/ Release(p, tick[p]) /\ tick' = [tick EXCEPT ![p] = 0]
        \/ UNCHANGED <<slots, tick>>
    BY <1>2 DEF LockDue
  <2>3. slots' \in [Replica -> Int] /\ tick' \in [Replica -> Int]
    <3>1. slots' \in [Replica -> Int]
      BY <1>0, <2>2, ReleaseTyped, TypedCounters
    <3>2. tick' \in [Replica -> Int]
      BY <2>2, TypedCounters
    <3> QED
      BY <3>1, <3>2
  <2> QED
    BY <1>2, <2>1, <2>3 DEF LockDue, Typed, TypeOK, TriesLeft, schedule, table, counters
<1>3. ASSUME NEW broken \in SUBSET held[p], ClaimDue(p, broken)
      PROVE  Typed'
  <2> DEFINE started == Startable(p, broken)
  <2>1. ClaimTx(p, broken)
    BY <1>3 DEF ClaimDue
  <2>2. Cardinality(started) \in Nat /\ Cardinality(broken) \in Nat
    BY <2>1, ClaimTxTyped, JobsCounted
  <2>3. slots' \in [Replica -> Int]
    <3>1. tick[p] - Cardinality(started) \in Int
      BY <1>0, <2>2
    <3>2. Release(p, tick[p] - Cardinality(started))
      BY <1>3 DEF ClaimDue
    <3> QED
      BY <3>1, <3>2, ReleaseTyped DEF Typed, TypeOK
  <2>4. exec' \in [Run -> Goroutine] /\ TriesLeft'
    BY <1>3, DispatchTyped DEF ClaimDue
  <2>5. faults' \in Nat
    <3>1. faults \in Nat /\ faults' = faults + Cardinality(broken)
      BY <1>3, TypedCounters DEF ClaimDue
    <3> QED
      BY <2>2, <3>1
  <2> QED
    BY <1>3, <2>1, <2>3, <2>4, <2>5, ClaimTxTyped DEF ClaimDue, Typed, TypeOK
<1>4. CASE ClaimAnswerLost(p)
  <2>1. ClaimTx(p, {}) /\ {} \in SUBSET held[p]
    BY <1>4 DEF ClaimAnswerLost
  <2>2. slots' \in [Replica -> Int]
    BY <1>0, <1>4, ReleaseTyped, TypedCounters DEF ClaimAnswerLost
  <2>3. faults' \in Nat
    BY <1>4, LoopCallTyped DEF ClaimAnswerLost
  <2> QED
    BY <1>4, <2>1, <2>2, <2>3, ClaimTxTyped DEF ClaimAnswerLost, Typed, TypeOK, TriesLeft
<1>5. CASE ClaimError(p)
  <2>1. slots' \in [Replica -> Int]
    BY <1>0, <1>5, ReleaseTyped, TypedCounters DEF ClaimError
  <2>2. faults' \in Nat
    BY <1>5, LoopCallTyped DEF ClaimError
  <2>3. tick' \in [Replica -> Int] /\ held' \in [Replica -> SUBSET Job]
    <3>1. held \in [Replica -> SUBSET Job]
      BY DEF Typed, TypeOK
    <3> QED
      BY <1>5, <3>1, TypedCounters DEF ClaimError
  <2> QED
    BY <1>5, <2>1, <2>2, <2>3 DEF ClaimError, Typed, TypeOK, TriesLeft, schedule, table
<1> QED
  BY <1>1, <1>2, <1>3, <1>4, <1>5 DEF TickStep

LEMMA ManualStepTyped ==
  ASSUME Typed, NEW p \in Replica, NEW j \in Job, ManualStep(p, j)
  PROVE  Typed'
<1>0. {j} \in SUBSET Job /\ 1 \in Int
  OBVIOUS
<1>1. CASE RunNowReserve(p, j)
  <2>1. slots[p] + 1 \in Int
    <3>1. slots[p] \in Int
      BY TypedCounters
    <3> QED
      BY <3>1
  <2>2. slots' \in [Replica -> Int]
    BY <1>1, <2>1, TypedCounters DEF RunNowReserve
  <2>3. manual' \in [Replica -> SUBSET Job]
    BY <1>1 DEF RunNowReserve, Typed, TypeOK
  <2>4. manuals' \in Nat
    <3>1. manuals \in Nat /\ manuals' = manuals + 1
      BY <1>1, TypedCounters DEF RunNowReserve
    <3> QED
      BY <3>1
  <2> QED
    BY <1>1, <2>2, <2>3, <2>4 DEF RunNowReserve, Typed, TypeOK, TriesLeft, schedule, table
<1>2. AnswerManual(p, j) => manual' \in [Replica -> SUBSET Job]
  <2>1. manual \in [Replica -> SUBSET Job]
    BY DEF Typed, TypeOK
  <2>2. manual[p] \ {j} \in SUBSET Job
    BY <2>1
  <2> QED
    BY <2>1, <2>2 DEF AnswerManual
<1>3. CASE StartManual(p, j)
  <2>1. InsertRuns({j}) /\ Dispatch(p, {j}) /\ AnswerManual(p, j)
    BY <1>3 DEF StartManual
  <2>2. exec' \in [Run -> Goroutine] /\ TriesLeft'
    BY <2>1, DispatchTyped
  <2> QED
    BY <1>0, <1>2, <1>3, <2>1, <2>2, InsertRunsTyped
    DEF StartManual, Typed, TypeOK, schedule, counters
<1>4. CASE RefuseManual(p, j)
  <2>1. slots' \in [Replica -> Int]
    BY <1>0, <1>4, ReleaseTyped DEF RefuseManual, Typed, TypeOK
  <2> QED
    BY <1>2, <1>4, <2>1
    DEF RefuseManual, Typed, TypeOK, TriesLeft, schedule, table, counters
<1>5. CASE ManualError(p, j)
  <2>1. slots' \in [Replica -> Int]
    BY <1>0, <1>5, ReleaseTyped DEF ManualError, Typed, TypeOK
  <2>2. faults' \in Nat
    BY <1>5, FaultTyped DEF ManualError
  <2>3. /\ lastStatus' \in [Job -> Terminal \union {""}]
        /\ status' \in [Run -> Terminal \union {"", "RUNNING"}]
        /\ rows' \in [Job -> Seq(1 .. RunsPerJob)]
        /\ expired' \in SUBSET Run
        /\ alerts' \in [Job -> Int]
    <3>1. CASE UNCHANGED table
      BY <3>1 DEF table, Typed, TypeOK
    <3>2. CASE InsertRuns({j})
      BY <1>0, <3>2, InsertRunsTyped DEF Typed
    <3> QED
      BY <1>5, <3>1, <3>2 DEF ManualError
  <2> QED
    BY <1>2, <1>5, <2>1, <2>2, <2>3 DEF ManualError, Typed, TypeOK, TriesLeft, schedule
<1> QED
  BY <1>1, <1>3, <1>4, <1>5 DEF ManualStep

LEMMA ReapStepTyped ==
  ASSUME Typed, NEW p \in Replica, ReapStep(p)
  PROVE  Typed'
<1>1. CASE ReapList(p)
  <2>1. stale' \in [Replica -> SUBSET Run]
    BY <1>1 DEF ReapList, Typed, TypeOK
  <2> QED
    BY <1>1, <2>1 DEF ReapList, Typed, TypeOK, TriesLeft, schedule, table, counters
<1>2. ASSUME NEW r \in Run, ReapOne(p, r)
      PROVE  Typed'
  <2>1. FinalizeTx(r, "TIMED_OUT") /\ "TIMED_OUT" \in Terminal
    BY <1>2 DEF ReapOne, Terminal
  <2>2. stale' \in [Replica -> SUBSET Run]
    BY <1>2 DEF ReapOne, Typed, TypeOK
  <2> QED
    BY <1>2, <2>1, <2>2, FinalizeTxTyped
    DEF ReapOne, Typed, TypeOK, TriesLeft, schedule, counters
<1>3. CASE ReapError(p)
  <2>1. stale' \in [Replica -> SUBSET Run] /\ faults' \in Nat
    BY <1>3, LoopCallTyped DEF ReapError, Typed, TypeOK
  <2> QED
    BY <1>3, <2>1 DEF ReapError, Typed, TypeOK, TriesLeft, schedule, table
<1> QED
  BY <1>1, <1>2, <1>3 DEF ReapStep

LEMMA GoneTyped ==
  ASSUME Typed, NEW p \in Replica, Gone(p), faults' \in Nat
  PROVE  Typed'
<1>1. \A r \in Run : exec'[r] = Idle \/ exec'[r] = exec[r]
  BY DEF Gone
<1>2. exec' \in [Run -> Goroutine]
  BY IdleTyped DEF Gone, Typed, TypeOK
<1>3. TriesLeft'
  BY <1>1, IdleTyped DEF Typed, TriesLeft
<1>4. slots' \in [Replica -> Int] /\ tick' \in [Replica -> Int]
  BY TypedCounters DEF Gone
<1> QED
  BY <1>2, <1>3, <1>4 DEF Gone, Typed, TypeOK, schedule, table

LEMMA ProcessStepTyped ==
  ASSUME Typed, NEW p \in Replica, ProcessStep(p)
  PROVE  Typed'
<1>1. CASE Shutdown(p)
  <2>1. faults' \in Nat
    BY <1>1, FaultTyped DEF Shutdown
  <2> QED
    BY <1>1, <2>1 DEF Shutdown, Typed, TypeOK, TriesLeft, schedule, table
<1>2. CASE Drain(p)
  BY <1>2 DEF Drain, Typed, TypeOK, TriesLeft, schedule, table, counters
<1>3. CASE Exit(p)
  BY <1>3, GoneTyped DEF Exit, Typed, TypeOK
<1>4. CASE Crash(p)
  <2>1. faults' \in Nat
    BY <1>4, FaultTyped DEF Crash
  <2> QED
    BY <1>4, <2>1, GoneTyped DEF Crash
<1>5. ASSUME NEW catalog \in Catalogs, Start(p, catalog)
      PROVE  Typed'
  BY <1>5 DEF Start, Typed, TypeOK, TriesLeft, table, counters
<1> QED
  BY <1>1, <1>2, <1>3, <1>4, <1>5 DEF ProcessStep

LEMMA NextTyped == Typed /\ [Next]_vars => Typed'
<1> SUFFICES ASSUME Typed, [Next]_vars PROVE Typed'
  OBVIOUS
<1>1. CASE UNCHANGED vars
  BY <1>1 DEF vars, schedule, table, process, counters, Typed, TypeOK, TriesLeft
<1>2. CASE Next
  BY <1>2, JobStepTyped, RunStepTyped, TickStepTyped, ManualStepTyped, ReapStepTyped,
     ProcessStepTyped DEF Next
<1> QED
  BY <1>1, <1>2

\* Every variable of the scheduler keeps its type: in particular the executor
\* counts its attempts and finalize its tries (Execute, finalize).
THEOREM TypeCorrect == Spec => []TypeOK
<1>1. Spec => []Typed
  BY InitTyped, NextTyped, PTL DEF Spec
<1>2. Typed => TypeOK
  BY DEF Typed
<1> QED
  BY <1>1, <1>2, PTL

---------------------------------------------------------------------------
\* Runs are named by their job and a number.
LEMMA OneRunningInsert ==
  ASSUME TypeOK, OneRunningPerJob, NEW js \in SUBSET Job, InsertRuns(js),
         \A j \in js : Running(j) = {}
  PROVE  OneRunningPerJob'
<1> SUFFICES ASSUME NEW r \in Run, NEW other \in Run,
                    status'[r] = "RUNNING", status'[other] = "RUNNING",
                    JobOf(r) = JobOf(other)
             PROVE  r = other
  BY DEF OneRunningPerJob
<1>1. \A run \in Run :
        status'[run] = IF JobOf(run) \in js /\ run = Fresh(JobOf(run))
                       THEN "RUNNING" ELSE status[run]
  BY DEF InsertRuns
<1>2. CASE JobOf(r) \in js
  <2>1. status[r] # "RUNNING" /\ status[other] # "RUNNING"
    BY <1>2 DEF Running
  <2>2. r = Fresh(JobOf(r)) /\ other = Fresh(JobOf(other))
    BY <1>1, <2>1
  <2> QED
    BY <2>2
<1>3. CASE JobOf(r) \notin js
  <2>1. status[r] = "RUNNING" /\ status[other] = "RUNNING"
    BY <1>1, <1>3
  <2> QED
    BY <2>1 DEF OneRunningPerJob
<1> QED
  BY <1>2, <1>3

\* A step after which no run is RUNNING that was not before is harmless.
LEMMA OneRunningFewer ==
  ASSUME OneRunningPerJob, \A r \in Run : status'[r] = "RUNNING" => status[r] = "RUNNING"
  PROVE  OneRunningPerJob'
  BY DEF OneRunningPerJob

LEMMA FinalizeTxFewer ==
  ASSUME TypeOK, NEW r \in Run, NEW outcome \in Terminal, FinalizeTx(r, outcome)
  PROVE  \A other \in Run : status'[other] = "RUNNING" => status[other] = "RUNNING"
<1>1. outcome # "RUNNING"
  BY DEF Terminal
<1>2. CASE status[r] = "RUNNING"
  <2>1. status' = [status EXCEPT ![r] = outcome] /\ status \in [Run -> Terminal \union {"", "RUNNING"}]
    BY <1>2 DEF FinalizeTx, TypeOK
  <2> QED
    BY <1>1, <2>1
<1>3. CASE status[r] # "RUNNING"
  BY <1>3 DEF FinalizeTx, table
<1> QED
  BY <1>2, <1>3

LEMMA OneRunningNext ==
  ASSUME Typed, OneRunningPerJob, [Next]_vars
  PROVE  OneRunningPerJob'
<1> DEFINE Same == UNCHANGED status
<1>0. Same => OneRunningPerJob'
  BY DEF OneRunningPerJob
<1>1. CASE UNCHANGED vars
  BY <1>0, <1>1 DEF vars, table
<1>2. ASSUME NEW j \in Job, JobStep(j)
      PROVE  OneRunningPerJob'
  <2>1. CASE CronPasses(j)
    BY <1>0, <2>1 DEF CronPasses, table
  <2>2. ASSUME NEW enabled \in BOOLEAN, UpdateConfig(j, enabled)
        PROVE  OneRunningPerJob'
    BY <1>0, <2>2 DEF UpdateConfig, table
  <2>3. CASE Cleanup(j)
    <3>1. \A r \in Run : status'[r] = "RUNNING" => status[r] = "RUNNING"
      <4>1. status' = [status EXCEPT ![<<j, Head(rows[j])>>] = ""]
        BY <2>3 DEF Cleanup
      <4>2. status \in [Run -> Terminal \union {"", "RUNNING"}]
        BY DEF Typed, TypeOK
      <4> QED
        BY <4>1, <4>2
    <3> QED
      BY <3>1, OneRunningFewer
  <2> QED
    BY <1>2, <2>1, <2>2, <2>3 DEF JobStep
<1>3. ASSUME NEW r \in Run, RunStep(r)
      PROVE  OneRunningPerJob'
  <2>1. ASSUME NEW outcome \in Terminal, NEW retryable \in BOOLEAN,
               Attempt(r, outcome, retryable)
        PROVE  OneRunningPerJob'
    BY <1>0, <2>1 DEF Attempt, table
  <2>2. exec[r].outcome # "" => exec[r].outcome \in Terminal
    BY TypedGoroutine
  <2>3. CASE Finalize(r)
    BY <2>2, <2>3, FinalizeTxFewer, OneRunningFewer DEF Finalize, Typed
  <2>4. CASE FinalizeError(r)
    <3>1. CASE UNCHANGED table
      BY <1>0, <3>1 DEF table
    <3>2. CASE FinalizeTx(r, exec[r].outcome)
      BY <2>2, <2>4, <3>2, FinalizeTxFewer, OneRunningFewer DEF FinalizeError, Typed
    <3> QED
      BY <2>4, <3>1, <3>2 DEF FinalizeError
  <2>5. CASE Expire(r)
    BY <1>0, <2>5 DEF Expire
  <2> QED
    BY <1>3, <2>1, <2>3, <2>4, <2>5 DEF RunStep
<1>4. ASSUME NEW p \in Replica, TickStep(p)
      PROVE  OneRunningPerJob'
  <2>1. CASE TickReserve(p)
    BY <1>0, <2>1 DEF TickReserve, table
  <2>2. ASSUME NEW skipped \in SUBSET Job, LockDue(p, skipped)
        PROVE  OneRunningPerJob'
    BY <1>0, <2>2 DEF LockDue, table
  <2>3. ASSUME NEW broken \in SUBSET held[p], ClaimTx(p, broken)
        PROVE  OneRunningPerJob'
    <3>1. InsertRuns(Startable(p, broken))
      BY <2>3 DEF ClaimTx
    <3>2. \A j \in Startable(p, broken) : Running(j) = {}
      BY DEF Startable
    <3>3. Startable(p, broken) \in SUBSET Job
      BY <2>3, ClaimTxTyped
    <3> QED
      BY <3>1, <3>2, <3>3, OneRunningInsert DEF Typed
  <2>4. CASE ClaimError(p)
    BY <1>0, <2>4 DEF ClaimError, table
  <2>5. CASE ClaimAnswerLost(p)
    BY <2>3, <2>5 DEF ClaimAnswerLost
  <2>6. ASSUME NEW broken \in SUBSET held[p], ClaimDue(p, broken)
        PROVE  OneRunningPerJob'
    BY <2>3, <2>6 DEF ClaimDue
  <2> QED
    BY <1>4, <2>1, <2>2, <2>4, <2>5, <2>6 DEF TickStep
<1>5. ASSUME NEW p \in Replica, NEW j \in Job, ManualStep(p, j)
      PROVE  OneRunningPerJob'
  <2>1. CASE RunNowReserve(p, j)
    BY <1>0, <2>1 DEF RunNowReserve, table
  <2>2. CASE ~ IndexRefuses(j) /\ InsertRuns({j})
    <3>1. \A other \in {j} : Running(other) = {}
      BY <2>2 DEF IndexRefuses
    <3> QED
      BY <2>2, <3>1, OneRunningInsert DEF Typed
  <2>3. CASE UNCHANGED table
    BY <1>0, <2>3 DEF table
  <2> QED
    BY <1>5, <2>1, <2>2, <2>3 DEF ManualStep, StartManual, RefuseManual, ManualError
<1>6. ASSUME NEW p \in Replica, ReapStep(p)
      PROVE  OneRunningPerJob'
  <2>1. CASE ReapList(p)
    BY <1>0, <2>1 DEF ReapList, table
  <2>2. ASSUME NEW r \in Run, ReapOne(p, r)
        PROVE  OneRunningPerJob'
    <3>1. FinalizeTx(r, "TIMED_OUT") /\ "TIMED_OUT" \in Terminal
      BY <2>2 DEF ReapOne, Terminal
    <3> QED
      BY <3>1, FinalizeTxFewer, OneRunningFewer DEF Typed
  <2>3. CASE ReapError(p)
    BY <1>0, <2>3 DEF ReapError, table
  <2> QED
    BY <1>6, <2>1, <2>2, <2>3 DEF ReapStep
<1>7. ASSUME NEW p \in Replica, ProcessStep(p)
      PROVE  OneRunningPerJob'
  BY <1>0, <1>7 DEF ProcessStep, Shutdown, Drain, Exit, Crash, Gone, Start, table
<1> QED
  BY <1>1, <1>2, <1>3, <1>4, <1>5, <1>6, <1>7 DEF Next

\* However many replicas claim, and operators start, one job at the same time, at
\* most one run of it is RUNNING (ClaimDue, claimOne, StartManual and the index
\* uq_plt_scheduled_job_runs_running).
THEOREM OneLiveRun == Spec => []OneRunningPerJob
<1>1. Init => OneRunningPerJob
  BY DEF Init, OneRunningPerJob
<1>2. Typed /\ OneRunningPerJob /\ [Next]_vars => OneRunningPerJob'
  BY OneRunningNext
<1> QED
  BY InitTyped, NextTyped, <1>1, <1>2, PTL DEF Spec

---------------------------------------------------------------------------
\* A finalization moves last_status and alerts together.
LEMMA AlertsFinalize ==
  ASSUME TypeOK, AlertsMatchLastStatus, NEW r \in Run, NEW outcome \in Terminal,
         FinalizeTx(r, outcome)
  PROVE  AlertsMatchLastStatus'
<1>1. CASE status[r] # "RUNNING"
  BY <1>1 DEF FinalizeTx, table, AlertsMatchLastStatus
<1>2. CASE status[r] = "RUNNING"
  <2> DEFINE j == JobOf(r)
             change == Transition(lastStatus[j], outcome)
  <2>1. j \in Job /\ lastStatus[j] \in Terminal \union {""}
    BY JobOfRun DEF TypeOK
  <2>2. /\ lastStatus' = [lastStatus EXCEPT ![j] = outcome]
        /\ alerts' = [alerts EXCEPT ![j] = alerts[j] + change]
    BY <1>2 DEF FinalizeTx
  <2>3. lastStatus'[j] = outcome /\ alerts'[j] = alerts[j] + change
    BY <2>1, <2>2 DEF TypeOK
  <2>4. \A other \in Job \ {j} :
          lastStatus'[other] = lastStatus[other] /\ alerts'[other] = alerts[other]
    BY <2>2 DEF TypeOK
  <2>5. alerts[j] = IF IsFailure(lastStatus[j]) THEN 1 ELSE 0
    BY <2>1 DEF AlertsMatchLastStatus
  <2>6. change = IF IsFailure(outcome)
                 THEN IF IsFailure(lastStatus[j]) THEN 0 ELSE 1
                 ELSE IF IsFailure(lastStatus[j]) THEN -1 ELSE 0
    BY DEF Transition, IsFailure, Terminal
  <2>7. alerts[j] + change = IF IsFailure(outcome) THEN 1 ELSE 0
    <3> HIDE DEF change, j
    <3>1. CASE IsFailure(outcome) /\ IsFailure(lastStatus[j])
      BY <2>5, <2>6, <3>1
    <3>2. CASE IsFailure(outcome) /\ ~ IsFailure(lastStatus[j])
      BY <2>5, <2>6, <3>2
    <3>3. CASE ~ IsFailure(outcome) /\ IsFailure(lastStatus[j])
      BY <2>5, <2>6, <3>3
    <3>4. CASE ~ IsFailure(outcome) /\ ~ IsFailure(lastStatus[j])
      BY <2>5, <2>6, <3>4
    <3> QED
      BY <3>1, <3>2, <3>3, <3>4
  <2> HIDE DEF j, change
  <2> QED
    BY <2>3, <2>4, <2>7 DEF AlertsMatchLastStatus
<1> QED
  BY <1>1, <1>2

LEMMA AlertsNext ==
  ASSUME Typed, AlertsMatchLastStatus, [Next]_vars
  PROVE  AlertsMatchLastStatus'
<1> DEFINE Same == UNCHANGED <<lastStatus, alerts>>
<1>0. Same => AlertsMatchLastStatus'
  BY DEF AlertsMatchLastStatus
<1>1. CASE UNCHANGED vars
  BY <1>0, <1>1 DEF vars, table
<1>2. ASSUME NEW j \in Job, JobStep(j)
      PROVE  AlertsMatchLastStatus'
  BY <1>0, <1>2 DEF JobStep, CronPasses, UpdateConfig, Cleanup, table
<1>3. ASSUME NEW r \in Run, RunStep(r)
      PROVE  AlertsMatchLastStatus'
  <2>1. exec[r].outcome # "" => exec[r].outcome \in Terminal
    BY TypedGoroutine
  <2>2. CASE exec[r].outcome # "" /\ FinalizeTx(r, exec[r].outcome)
    BY <2>1, <2>2, AlertsFinalize DEF Typed
  <2> QED
    BY <1>0, <1>3, <2>2 DEF RunStep, Attempt, Finalize, FinalizeError, Expire, table
<1>4. ASSUME NEW p \in Replica, TickStep(p)
      PROVE  AlertsMatchLastStatus'
  BY <1>0, <1>4
  DEF TickStep, TickReserve, LockDue, ClaimDue, ClaimAnswerLost, ClaimError, ClaimTx,
      InsertRuns, table
<1>5. ASSUME NEW p \in Replica, NEW j \in Job, ManualStep(p, j)
      PROVE  AlertsMatchLastStatus'
  BY <1>0, <1>5
  DEF ManualStep, RunNowReserve, StartManual, RefuseManual, ManualError, InsertRuns, table
<1>6. ASSUME NEW p \in Replica, ReapStep(p)
      PROVE  AlertsMatchLastStatus'
  <2>1. ASSUME NEW r \in Run, ReapOne(p, r)
        PROVE  AlertsMatchLastStatus'
    <3>1. FinalizeTx(r, "TIMED_OUT") /\ "TIMED_OUT" \in Terminal
      BY <2>1 DEF ReapOne, Terminal
    <3> QED
      BY <3>1, AlertsFinalize DEF Typed
  <2> QED
    BY <1>0, <1>6, <2>1 DEF ReapStep, ReapList, ReapError, table
<1>7. ASSUME NEW p \in Replica, ProcessStep(p)
      PROVE  AlertsMatchLastStatus'
  BY <1>0, <1>7 DEF ProcessStep, Shutdown, Drain, Exit, Crash, Gone, Start, table
<1> QED
  BY <1>1, <1>2, <1>3, <1>4, <1>5, <1>6, <1>7 DEF Next

\* The failure events written for a job exceed its recovery events by one while its
\* last run failed and are as many otherwise: no failure is announced twice, and no
\* recovery without a failure (finalizeTx, Transition).
THEOREM AlertsAreTrue == Spec => []AlertsMatchLastStatus
<1>1. Init => AlertsMatchLastStatus
  BY DEF Init, AlertsMatchLastStatus, IsFailure
<1>2. Typed /\ AlertsMatchLastStatus /\ [Next]_vars => AlertsMatchLastStatus'
  BY AlertsNext
<1> QED
  BY InitTyped, NextTyped, <1>1, <1>2, PTL DEF Spec

---------------------------------------------------------------------------
\* What relates the goroutines, the reapers' lists and the deadlines to the rows.

\* Cleanup leaves alone a run that somebody executes.
WorkHasRow == \A r \in Run : exec[r].at # Nobody => status[r] # ""

\* A deadline is that of a row, and the reapers list runs whose deadline passed.
DeadlinesHaveRows == \A r \in expired : status[r] # ""
ListedAreExpired == \A p \in Replica : stale[p] \subseteq expired

\* Without a stall an attempt is that of a RUNNING run whose deadline lies ahead.
AttemptsOnTime ==
  stalls = 0 => \A r \in Run : Attempting(r) => status[r] = "RUNNING" /\ r \notin expired

LiveInv == WorkHasRow /\ DeadlinesHaveRows /\ ListedAreExpired /\ AttemptsOnTime

\* What relates the slots of a replica to the work that takes them: a tick has
\* reserved one for each job it has locked, and a drained replica has taken none.
SlotsFit(p) ==
  /\ slots[p] = tick[p] + Cardinality(manual[p]) + Cardinality(ExecutedBy(p))
  /\ slots[p] <= MaxConcurrentJobs
  /\ Cardinality(held[p]) <= tick[p]
  /\ phase[p] = "drained" => slots[p] = 0

\* A goroutine with an outcome runs somewhere.
OutcomesAreOfWork == \A r \in Run : exec[r].outcome # "" => exec[r].at # Nobody

\* next_run_at orders the due jobs.
QueueOrdered ==
  /\ \A j \in Job : ahead[j] \subseteq due /\ j \notin ahead[j]
  /\ \A j, k \in due : j = k \/ j \in ahead[k] \/ k \in ahead[j]
  /\ \A j, k \in Job : k \in ahead[j] => ahead[k] \subseteq ahead[j]

SlotsInv == (\A p \in Replica : SlotsFit(p)) /\ OutcomesAreOfWork

\* The rows of a job in their order.
RowsExist == \A j \in Job : \A n \in 1 .. Len(rows[j]) : status[<<j, rows[j][n]>>] # ""
RowsListed ==
  \A j \in Job : \A m \in 1 .. RunsPerJob :
    status[<<j, m>>] # "" => \E n \in 1 .. Len(rows[j]) : rows[j][n] = m
RowsDiffer ==
  \A j \in Job : \A n, other \in 1 .. Len(rows[j]) : rows[j][n] = rows[j][other] => n = other

\* A run starts when no other is RUNNING, so the RUNNING one is the latest.
RunningIsLatest ==
  \A j \in Job : \A n \in 1 .. Len(rows[j]) :
    status[<<j, rows[j][n]>>] = "RUNNING" => n = Len(rows[j])

HistoryInv ==
  RowsExist /\ RowsListed /\ RowsDiffer /\ RunningIsLatest /\ LastStatusIsLatest

---------------------------------------------------------------------------
\* What the writes of the actions do, row by row.

LEMMA InsertRunsEffect ==
  ASSUME TypeOK, NEW js \in SUBSET Job, InsertRuns(js)
  PROVE  /\ \A r \in Run : status'[r] = IF JobOf(r) \in js /\ r = Fresh(JobOf(r))
                                        THEN "RUNNING" ELSE status[r]
         /\ \A j \in js : Fresh(j) \in Run /\ JobOf(Fresh(j)) = j /\ status[Fresh(j)] = ""
         /\ \A r \in Run : status[r] # "" => status'[r] = status[r]
         /\ expired' = expired /\ lastStatus' = lastStatus
<1>1. \A j \in js : Fresh(j) \in Run /\ JobOf(Fresh(j)) = j /\ status[Fresh(j)] = ""
  BY FreshIsUnused DEF InsertRuns
<1>2. \A r \in Run : status'[r] = IF JobOf(r) \in js /\ r = Fresh(JobOf(r))
                                  THEN "RUNNING" ELSE status[r]
  BY DEF InsertRuns
<1>3. \A r \in Run : status[r] # "" => status'[r] = status[r]
  BY <1>1, <1>2
<1> QED
  BY <1>1, <1>2, <1>3 DEF InsertRuns

LEMMA FinalizeTxEffect ==
  ASSUME TypeOK, NEW r \in Run, NEW outcome \in Terminal, FinalizeTx(r, outcome)
  PROVE  /\ \A other \in Run : other # r => status'[other] = status[other]
         /\ status'[r] = IF status[r] = "RUNNING" THEN outcome ELSE status[r]
         /\ \A other \in Run : status'[other] # "" <=> status[other] # ""
         /\ expired' = expired /\ rows' = rows
<1>1. outcome # "" /\ status \in [Run -> Terminal \union {"", "RUNNING"}]
  BY DEF Terminal, TypeOK
<1>2. CASE status[r] = "RUNNING"
  <2>1. status' = [status EXCEPT ![r] = outcome] /\ expired' = expired /\ rows' = rows
    BY <1>2 DEF FinalizeTx
  <2> QED
    BY <1>1, <1>2, <2>1
<1>3. CASE status[r] # "RUNNING"
  BY <1>3 DEF FinalizeTx, table
<1> QED
  BY <1>2, <1>3

LEMMA ReturnEffect ==
  ASSUME Typed, NEW r \in Run, Return(r)
  PROVE  exec'[r] = Idle /\ \A other \in Run : other # r => exec'[other] = exec[other]
  BY DEF Return, Typed, TypeOK

LEMMA StartedIsFresh == \A p : Started(p).at = p /\ Started(p).outcome = ""
  BY DEF Started

LEMMA IdleIsNobodys == Idle.at = Nobody /\ Idle.outcome = ""
  BY DEF Idle, Started

\* The goroutines Dispatch starts execute the rows InsertRuns has inserted.
LEMMA DispatchEffect ==
  ASSUME Typed, NEW p \in Replica, NEW js \in SUBSET Job, InsertRuns(js), Dispatch(p, js)
  PROVE  /\ \A r \in Run : exec'[r] = IF JobOf(r) \in js /\ r = Fresh(JobOf(r))
                                      THEN Started(p) ELSE exec[r]
         /\ \A r \in Run : exec'[r] = exec[r] \/ (status[r] = "" /\ status'[r] = "RUNNING")
<1>1. \A r \in Run : exec'[r] = IF JobOf(r) \in js /\ r = Fresh(JobOf(r))
                                THEN Started(p) ELSE exec[r]
  BY DEF Dispatch
<1> QED
  BY <1>1, InsertRunsEffect DEF Typed

---------------------------------------------------------------------------
\* Preserving LiveInv.  A step that starts no work and writes no row:
LEMMA LiveQuiet ==
  ASSUME LiveInv,
         UNCHANGED <<status, expired, stalls>>,
         \A r \in Run : /\ exec'[r].at # Nobody => exec[r].at # Nobody
                        /\ exec'[r].outcome = "" => exec[r].outcome = ""
                           \/ exec'[r].at = Nobody,
         \A p \in Replica : stale'[p] \subseteq stale[p]
  PROVE  LiveInv'
  BY DEF LiveInv, WorkHasRow, DeadlinesHaveRows, ListedAreExpired, AttemptsOnTime, Attempting

\* A step that inserts rows, and starts work on none but those:
LEMMA LiveInsert ==
  ASSUME Typed, LiveInv, NEW js \in SUBSET Job, InsertRuns(js),
         UNCHANGED <<stalls, stale>>,
         \A r \in Run : exec'[r] = exec[r] \/ (status[r] = "" /\ status'[r] = "RUNNING")
  PROVE  LiveInv'
<1>1. \A r \in Run : status[r] # "" => status'[r] = status[r]
  BY InsertRunsEffect DEF Typed
<1>2. expired' = expired /\ expired \in SUBSET Run
  BY InsertRunsEffect DEF Typed, TypeOK
<1>3. WorkHasRow'
  BY <1>1 DEF LiveInv, WorkHasRow
<1>4. DeadlinesHaveRows'
  BY <1>1, <1>2 DEF LiveInv, DeadlinesHaveRows
<1>5. ListedAreExpired'
  BY <1>2 DEF LiveInv, ListedAreExpired
<1>6. AttemptsOnTime'
  <2> SUFFICES ASSUME stalls = 0, NEW r \in Run, Attempting(r)'
               PROVE  status'[r] = "RUNNING" /\ r \notin expired'
    BY DEF AttemptsOnTime
  <2>1. CASE exec'[r] = exec[r]
    <3>1. Attempting(r)
      BY <2>1 DEF Attempting
    <3> QED
      BY <1>1, <1>2, <3>1 DEF LiveInv, AttemptsOnTime
  <2>2. CASE status[r] = "" /\ status'[r] = "RUNNING"
    BY <1>2, <2>2 DEF LiveInv, DeadlinesHaveRows
  <2> QED
    BY <2>1, <2>2
<1> QED
  BY <1>3, <1>4, <1>5, <1>6 DEF LiveInv

\* A step that ends a run nobody attempts any more:
LEMMA LiveFinalize ==
  ASSUME Typed, LiveInv, NEW r \in Run, NEW outcome \in Terminal, FinalizeTx(r, outcome),
         stalls' = stalls,
         stalls = 0 => exec'[r].at = Nobody \/ exec'[r].outcome # "",
         \A other \in Run : /\ exec'[other].at # Nobody => exec[other].at # Nobody
                            /\ other # r => exec'[other] = exec[other],
         \A p \in Replica : stale'[p] \subseteq stale[p]
  PROVE  LiveInv'
<1>1. /\ \A other \in Run : other # r => status'[other] = status[other]
      /\ \A other \in Run : status'[other] # "" <=> status[other] # ""
      /\ expired' = expired /\ expired \in SUBSET Run
  BY FinalizeTxEffect DEF Typed, TypeOK
<1>2. WorkHasRow'
  BY <1>1 DEF LiveInv, WorkHasRow
<1>3. DeadlinesHaveRows'
  BY <1>1 DEF LiveInv, DeadlinesHaveRows
<1>4. ListedAreExpired'
  BY <1>1 DEF LiveInv, ListedAreExpired
<1>5. AttemptsOnTime'
  BY <1>1 DEF LiveInv, AttemptsOnTime, Attempting
<1> QED
  BY <1>2, <1>3, <1>4, <1>5 DEF LiveInv

LEMMA LiveInit == Init => LiveInv
  BY IdleIsNobodys
  DEF Init, LiveInv, WorkHasRow, DeadlinesHaveRows, ListedAreExpired, AttemptsOnTime, Attempting

LEMMA LiveJobStep ==
  ASSUME Typed, LiveInv, NEW j \in Job, JobStep(j)
  PROVE  LiveInv'
<1>1. CASE CronPasses(j)
  BY <1>1, LiveQuiet DEF CronPasses, table, process, counters
<1>2. ASSUME NEW enabled \in BOOLEAN, UpdateConfig(j, enabled)
      PROVE  LiveInv'
  BY <1>2, LiveQuiet DEF UpdateConfig, table, process, counters
<1>3. CASE Cleanup(j)
  <2> DEFINE oldest == <<j, Head(rows[j])>>
  <2>1. /\ status' = [status EXCEPT ![oldest] = ""] /\ expired' = expired \ {oldest}
        /\ exec[oldest] = Idle /\ UNCHANGED <<exec, stale, stalls>>
        /\ \A p \in Replica : oldest \notin stale[p]
        /\ status[oldest] \in Terminal
    BY <1>3 DEF Cleanup, process, counters
  <2> HIDE DEF oldest
  <2>2. \A r \in Run : r # oldest => status'[r] = status[r]
    BY <2>1 DEF Typed, TypeOK
  <2>3. \A r \in Run : exec[r].at # Nobody => r # oldest
    BY <2>1, IdleIsNobodys
  <2>4. expired \in SUBSET Run
    BY DEF Typed, TypeOK
  <2>5. WorkHasRow'
    BY <2>1, <2>2, <2>3 DEF LiveInv, WorkHasRow
  <2>6. DeadlinesHaveRows'
    BY <2>1, <2>2, <2>4 DEF LiveInv, DeadlinesHaveRows
  <2>7. ListedAreExpired'
    BY <2>1 DEF LiveInv, ListedAreExpired
  <2>8. AttemptsOnTime'
    BY <2>1, <2>2, <2>3 DEF LiveInv, AttemptsOnTime, Attempting
  <2> QED
    BY <2>5, <2>6, <2>7, <2>8 DEF LiveInv
<1> QED
  BY <1>1, <1>2, <1>3 DEF JobStep

LEMMA LiveRunStep ==
  ASSUME Typed, LiveInv, NEW r \in Run, RunStep(r)
  PROVE  LiveInv'
<1>0. exec \in [Run -> Goroutine] /\ exec[r] \in Goroutine /\ stalls \in Nat
  BY TypedGoroutine, TypedCounters
<1>a. exec[r].outcome # "" => exec[r].outcome \in Terminal
  BY TypedGoroutine
<1>1. ASSUME NEW outcome \in Terminal, NEW retryable \in BOOLEAN,
             Attempt(r, outcome, retryable)
      PROVE  LiveInv'
  <2>1. \A other \in Run : other # r => exec'[other] = exec[other]
    BY <1>0, <1>1 DEF Attempt
  <2>2. exec'[r].at = exec[r].at /\ exec[r].outcome = ""
    BY <1>0, <1>1 DEF Attempt, Attempting, Goroutine
  <2> QED
    BY <1>1, <2>1, <2>2, LiveQuiet DEF Attempt, table, counters
<1>2. CASE Finalize(r)
  <2>1. FinalizeTx(r, exec[r].outcome) /\ exec[r].outcome \in Terminal /\ Return(r)
        /\ UNCHANGED <<stale, stalls>>
    BY <1>2, <1>a DEF Finalize, counters
  <2>2. exec'[r] = Idle /\ \A other \in Run : other # r => exec'[other] = exec[other]
    BY <2>1, ReturnEffect
  <2> QED
    BY <2>1, <2>2, IdleIsNobodys, LiveFinalize
<1>3. CASE FinalizeError(r)
  <2>1. /\ \A other \in Run : other # r => exec'[other] = exec[other]
        /\ \/ exec'[r] = Idle
           \/ exec'[r].at = exec[r].at /\ exec'[r].outcome = exec[r].outcome
    <3>1. CASE exec[r].tries + 1 = FinalizeTries
      BY <1>3, <3>1, ReturnEffect DEF FinalizeError
    <3>2. CASE exec[r].tries + 1 # FinalizeTries
      <4> DEFINE next == [exec[r] EXCEPT !.tries = @ + 1]
      <4>1. exec' = [exec EXCEPT ![r] = next]
        BY <1>0, <1>3, <3>2 DEF FinalizeError
      <4>2. next.at = exec[r].at /\ next.outcome = exec[r].outcome
        BY <1>0 DEF Goroutine
      <4> HIDE DEF next
      <4> QED
        BY <1>0, <4>1, <4>2
    <3> QED
      BY <3>1, <3>2
  <2>2. exec[r].outcome # "" /\ UNCHANGED <<stale, stalls>>
    BY <1>3 DEF FinalizeError
  <2>3. CASE UNCHANGED table
    BY <2>1, <2>2, <2>3, IdleIsNobodys, LiveQuiet DEF table
  <2>4. CASE FinalizeTx(r, exec[r].outcome)
    BY <1>a, <2>1, <2>2, <2>4, IdleIsNobodys, LiveFinalize
  <2> QED
    BY <1>3, <2>3, <2>4 DEF FinalizeError
<1>4. CASE Expire(r)
  <2>1. /\ status[r] = "RUNNING" /\ expired' = expired \union {r}
        /\ UNCHANGED <<status, exec, stale>>
    BY <1>4 DEF Expire, process
  <2>2. CASE Covered(r) /\ stalls' = stalls
    BY <2>1, <2>2
    DEF Covered, LiveInv, WorkHasRow, DeadlinesHaveRows, ListedAreExpired, AttemptsOnTime,
        Attempting
  <2>3. CASE stalls' = stalls + 1
    <3>1. stalls' # 0
      BY <1>0, <2>3
    <3> QED
      BY <2>1, <3>1
      DEF LiveInv, WorkHasRow, DeadlinesHaveRows, ListedAreExpired, AttemptsOnTime
  <2> QED
    BY <1>4, <2>2, <2>3 DEF Expire
<1> QED
  BY <1>1, <1>2, <1>3, <1>4 DEF RunStep

LEMMA LiveTickStep ==
  ASSUME Typed, LiveInv, NEW p \in Replica, TickStep(p)
  PROVE  LiveInv'
<1>1. CASE TickReserve(p)
  BY <1>1, LiveQuiet DEF TickReserve, table, counters
<1>2. ASSUME NEW skipped \in SUBSET Job, LockDue(p, skipped)
      PROVE  LiveInv'
  BY <1>2, LiveQuiet DEF LockDue, table, counters
<1>3. ASSUME NEW broken \in SUBSET held[p], ClaimDue(p, broken)
      PROVE  LiveInv'
  <2> DEFINE started == Startable(p, broken)
  <2>1. /\ ClaimTx(p, broken) /\ Dispatch(p, started) /\ UNCHANGED <<stale, stalls>>
    BY <1>3 DEF ClaimDue
  <2>2. started \in SUBSET Job /\ InsertRuns(started)
    BY <2>1, ClaimTxTyped DEF ClaimTx
  <2> HIDE DEF started
  <2> QED
    BY <2>1, <2>2, DispatchEffect, LiveInsert
<1>4. CASE ClaimAnswerLost(p)
  <2> DEFINE started == Startable(p, {})
  <2>1. /\ ClaimTx(p, {}) /\ UNCHANGED <<exec, stale, stalls>>
    BY <1>4 DEF ClaimAnswerLost
  <2>2. started \in SUBSET Job /\ InsertRuns(started)
    BY <2>1, ClaimTxTyped DEF ClaimTx
  <2> HIDE DEF started
  <2> QED
    BY <2>1, <2>2, LiveInsert
<1>5. CASE ClaimError(p)
  BY <1>5, LiveQuiet DEF ClaimError, table
<1> QED
  BY <1>1, <1>2, <1>3, <1>4, <1>5 DEF TickStep

LEMMA LiveManualStep ==
  ASSUME Typed, LiveInv, NEW p \in Replica, NEW j \in Job, ManualStep(p, j)
  PROVE  LiveInv'
<1>0. {j} \in SUBSET Job
  OBVIOUS
<1>1. CASE RunNowReserve(p, j)
  BY <1>1, LiveQuiet DEF RunNowReserve, table
<1>2. CASE StartManual(p, j)
  BY <1>0, <1>2, DispatchEffect, LiveInsert DEF StartManual, counters
<1>3. CASE RefuseManual(p, j)
  BY <1>3, LiveQuiet DEF RefuseManual, table, counters
<1>4. CASE ManualError(p, j)
  <2>1. UNCHANGED <<exec, stale, stalls>>
    BY <1>4 DEF ManualError
  <2>2. CASE UNCHANGED table
    BY <2>1, <2>2, LiveQuiet DEF table
  <2>3. CASE InsertRuns({j})
    BY <1>0, <2>1, <2>3, LiveInsert
  <2> QED
    BY <1>4, <2>2, <2>3 DEF ManualError
<1> QED
  BY <1>1, <1>2, <1>3, <1>4 DEF ManualStep

LEMMA LiveReapStep ==
  ASSUME Typed, LiveInv, NEW p \in Replica, ReapStep(p)
  PROVE  LiveInv'
<1>0. stale \in [Replica -> SUBSET Run]
  BY DEF Typed, TypeOK
<1>1. CASE ReapList(p)
  <2>1. /\ stale' = [stale EXCEPT ![p] = {r \in expired : status[r] = "RUNNING"}]
        /\ UNCHANGED <<status, expired, exec, stalls>>
    BY <1>1 DEF ReapList, table, counters
  <2>2. \A q \in Replica : stale'[q] \subseteq expired
    BY <1>0, <2>1 DEF LiveInv, ListedAreExpired
  <2> QED
    BY <2>1, <2>2
    DEF LiveInv, WorkHasRow, DeadlinesHaveRows, ListedAreExpired, AttemptsOnTime, Attempting
<1>2. ASSUME NEW r \in Run, ReapOne(p, r)
      PROVE  LiveInv'
  <2>1. FinalizeTx(r, "TIMED_OUT") /\ "TIMED_OUT" \in Terminal
    BY <1>2 DEF ReapOne, Terminal
  <2>2. r \in expired
    BY <1>2 DEF ReapOne, LiveInv, ListedAreExpired
  <2>3. stalls = 0 => exec[r].at = Nobody \/ exec[r].outcome # ""
    BY <2>2 DEF LiveInv, AttemptsOnTime, Attempting
  <2>4. UNCHANGED <<exec, stalls>> /\ \A q \in Replica : stale'[q] \subseteq stale[q]
    BY <1>0, <1>2 DEF ReapOne, counters
  <2> QED
    BY <2>1, <2>3, <2>4, LiveFinalize
<1>3. CASE ReapError(p)
  <2>1. \A q \in Replica : stale'[q] \subseteq stale[q]
    BY <1>0, <1>3 DEF ReapError
  <2> QED
    BY <1>3, <2>1, LiveQuiet DEF ReapError, table
<1> QED
  BY <1>1, <1>2, <1>3 DEF ReapStep

LEMMA LiveProcessStep ==
  ASSUME Typed, LiveInv, NEW p \in Replica, ProcessStep(p)
  PROVE  LiveInv'
<1>1. CASE Shutdown(p)
  BY <1>1, LiveQuiet DEF Shutdown, table
<1>2. CASE Drain(p)
  BY <1>2, LiveQuiet DEF Drain, table, counters
<1>3. CASE Gone(p)
  <2>1. \A r \in Run : exec'[r] = Idle \/ exec'[r] = exec[r]
    BY <1>3 DEF Gone
  <2>2. \A q \in Replica : stale'[q] \subseteq stale[q]
    BY <1>3 DEF Gone, Typed, TypeOK
  <2> QED
    BY <1>3, <2>1, <2>2, IdleIsNobodys, LiveQuiet DEF Gone, table
<1>4. ASSUME NEW catalog \in Catalogs, Start(p, catalog)
      PROVE  LiveInv'
  BY <1>4, LiveQuiet DEF Start, table, counters
<1> QED
  BY <1>1, <1>2, <1>3, <1>4 DEF ProcessStep, Exit, Crash

LEMMA LiveNext == Typed /\ LiveInv /\ [Next]_vars => LiveInv'
<1> SUFFICES ASSUME Typed, LiveInv, [Next]_vars PROVE LiveInv'
  OBVIOUS
<1>1. CASE UNCHANGED vars
  BY <1>1, LiveQuiet DEF vars, table, process, counters
<1>2. CASE Next
  BY <1>2, LiveJobStep, LiveRunStep, LiveTickStep, LiveManualStep, LiveReapStep,
     LiveProcessStep DEF Next
<1> QED
  BY <1>1, <1>2

\* Two attempts of one job at the same time need a process that was suspended past
\* a deadline: an attempt is always that of the job's RUNNING run, which only its
\* own goroutine or its deadline can end (Execute, ReapAbandoned, claimOne).
THEOREM OneExecutionAtATime == Spec => []SingleExecution
<1>1. Typed /\ LiveInv /\ OneRunningPerJob => SingleExecution
  BY DEF LiveInv, AttemptsOnTime, OneRunningPerJob, SingleExecution
<1>2. Spec => []Typed
  BY InitTyped, NextTyped, PTL DEF Spec
<1>3. Spec => []LiveInv
  BY InitTyped, NextTyped, LiveInit, LiveNext, PTL DEF Spec
<1> QED
  BY <1>1, <1>2, <1>3, OneLiveRun, PTL

---------------------------------------------------------------------------
\* Sizes.

LEMMA RunsFinite == IsFiniteSet(Run)
<1>1. IsFiniteSet(1 .. RunsPerJob)
  BY SizesAssumption, FS_Interval
<1> QED
  BY <1>1, JobAssumption, FS_Product DEF Run

LEMMA WorkCounted ==
  ASSUME Typed, NEW p \in Replica
  PROVE  /\ IsFiniteSet(manual[p]) /\ IsFiniteSet(ExecutedBy(p)) /\ IsFiniteSet(held[p])
         /\ Cardinality(manual[p]) \in Nat /\ Cardinality(ExecutedBy(p)) \in Nat
         /\ Cardinality(held[p]) \in Nat
         /\ slots[p] \in Int /\ tick[p] \in Int /\ MaxConcurrentJobs \in Nat
<1>1. manual[p] \in SUBSET Job /\ held[p] \in SUBSET Job /\ ExecutedBy(p) \in SUBSET Run
  BY DEF Typed, TypeOK, ExecutedBy
<1>2. IsFiniteSet(manual[p]) /\ IsFiniteSet(ExecutedBy(p)) /\ IsFiniteSet(held[p])
  BY <1>1, RunsFinite, JobAssumption, FS_Subset
<1> QED
  BY <1>2, FS_CardinalityType, TypedCounters, SizesAssumption

\* A job starts one run: as many rows are inserted as jobs are started.
LEMMA FreshCounted ==
  ASSUME NEW js \in SUBSET Job, \A j \in js : Fresh(j) \in Run /\ JobOf(Fresh(j)) = j
  PROVE  Cardinality({Fresh(j) : j \in js}) = Cardinality(js)
<1> DEFINE started == {Fresh(j) : j \in js}
           f == [j \in js |-> Fresh(j)]
<1>1. f \in [js -> started]
  OBVIOUS
<1>2. \A j, k \in js : f[j] = f[k] => j = k
  OBVIOUS
<1>3. \A r \in started : \E j \in js : f[j] = r
  OBVIOUS
<1> HIDE DEF f, started
<1>4. f \in Bijection(js, started)
  BY <1>1, <1>2, <1>3 DEF Bijection, Injection, Surjection, IsInjective
<1>5. IsFiniteSet(js) /\ ExistsBijection(js, started)
  BY <1>4, JobAssumption, FS_Subset DEF ExistsBijection
<1>6. Cardinality(started) = Cardinality(js)
  BY <1>5, FS_Bijection
<1> QED
  BY <1>6 DEF started

---------------------------------------------------------------------------
\* The claim's SELECT ... ORDER BY next_run_at LIMIT n locks at most n rows.

\* Of two candidates the later has more candidates ahead of it.
LEMMA LaterHasMoreAhead ==
  ASSUME TypeOK, QueueOrdered, NEW candidates \in SUBSET due,
         NEW j \in candidates, NEW k \in ahead[j] \intersect candidates
  PROVE  Cardinality(ahead[k] \intersect candidates)
           < Cardinality(ahead[j] \intersect candidates)
<1> DEFINE before == ahead[k] \intersect candidates
           after == ahead[j] \intersect candidates
<1>1. candidates \in SUBSET Job /\ j \in Job /\ k \in Job
  BY DEF TypeOK
<1>2. IsFiniteSet(after) /\ after \in SUBSET Job
  BY <1>1, JobAssumption, FS_Subset
<1>3. before \in SUBSET after /\ k \in after /\ k \notin before
  BY <1>1 DEF QueueOrdered
<1> HIDE DEF before, after
<1>4. /\ IsFiniteSet(before) /\ Cardinality(before) <= Cardinality(after)
      /\ Cardinality(before) # Cardinality(after)
  BY <1>2, <1>3, FS_Subset
<1>5. Cardinality(before) \in Nat /\ Cardinality(after) \in Nat
  BY <1>2, <1>4, FS_CardinalityType
<1>6. Cardinality(before) < Cardinality(after)
  BY <1>4, <1>5
<1> QED
  BY <1>6 DEF before, after

LEMMA FirstInQueue ==
  ASSUME TypeOK, QueueOrdered, NEW candidates \in SUBSET due, NEW n \in Nat
  PROVE  Cardinality({j \in candidates :
                        Cardinality(ahead[j] \intersect candidates) < n}) <= n
<1> DEFINE picked == {j \in candidates : Cardinality(ahead[j] \intersect candidates) < n}
           f == [j \in picked |-> Cardinality(ahead[j] \intersect candidates)]
<1>1. \A j \in picked : Cardinality(ahead[j] \intersect candidates) \in Nat
  <2> TAKE j \in picked
  <2>1. ahead[j] \intersect candidates \in SUBSET Job
    BY DEF TypeOK
  <2> QED
    BY <2>1, JobsCounted
<1>2. f \in [picked -> 0 .. n - 1]
  <2>1. \A j \in picked : f[j] \in Nat /\ f[j] < n
    BY <1>1
  <2>2. \A j \in picked : f[j] \in 0 .. n - 1
    <3> HIDE DEF f, picked
    <3> QED
      BY <2>1
  <2> QED
    BY <2>2
<1>3. \A j, k \in picked : f[j] = f[k] => j = k
  <2> SUFFICES ASSUME NEW j \in picked, NEW k \in picked, f[j] = f[k], j # k
               PROVE  FALSE
    OBVIOUS
  <2>1. j \in due /\ k \in due
    OBVIOUS
  <2>2. k \in ahead[j] \/ j \in ahead[k]
    BY <2>1 DEF QueueOrdered
  <2>3. CASE k \in ahead[j]
    <3>1. k \in ahead[j] \intersect candidates
      BY <2>3
    <3>2. f[k] < f[j]
      BY <3>1, LaterHasMoreAhead
    <3>3. f[j] \in Nat /\ f[k] \in Nat
      BY <1>1
    <3> HIDE DEF f
    <3> QED
      BY <3>2, <3>3
  <2>4. CASE j \in ahead[k]
    <3>1. j \in ahead[k] \intersect candidates
      BY <2>4
    <3>2. f[j] < f[k]
      BY <3>1, LaterHasMoreAhead
    <3>3. f[j] \in Nat /\ f[k] \in Nat
      BY <1>1
    <3> HIDE DEF f
    <3> QED
      BY <3>2, <3>3
  <2> QED
    BY <2>2, <2>3, <2>4
<1> HIDE DEF f, picked
<1>4. f \in Injection(picked, 0 .. n - 1)
  BY <1>2, <1>3 DEF Injection, IsInjective
<1>5. IsFiniteSet(0 .. n - 1) /\ Cardinality(0 .. n - 1) = n
  <2>1. 0 \in Int /\ n - 1 \in Int
    OBVIOUS
  <2>2. /\ IsFiniteSet(0 .. n - 1)
        /\ Cardinality(0 .. n - 1) = IF 0 > n - 1 THEN 0 ELSE (n - 1) - 0 + 1
    BY <2>1, FS_Interval
  <2> QED
    BY <2>2
<1>6. Cardinality(picked) <= Cardinality(0 .. n - 1)
  BY <1>4, <1>5, FS_Injection
<1> QED
  BY <1>5, <1>6 DEF picked

LEMMA RescheduleQueue ==
  ASSUME TypeOK, QueueOrdered, NEW js \in SUBSET Job, Reschedule(js)
  PROVE  QueueOrdered'
<1>1. /\ due' = due \ js
      /\ \A j \in Job : ahead'[j] = IF j \in js THEN {} ELSE ahead[j] \ js
      /\ due \in SUBSET Job
  BY DEF Reschedule, TypeOK
<1>2. \A j \in Job : ahead'[j] \subseteq due' /\ j \notin ahead'[j]
  BY <1>1 DEF QueueOrdered
<1>3. ASSUME NEW j \in due', NEW k \in due'
      PROVE  j = k \/ j \in ahead'[k] \/ k \in ahead'[j]
  <2>1. /\ j \in due /\ j \in Job /\ j \notin js
        /\ k \in due /\ k \in Job /\ k \notin js
    BY <1>1
  <2>2. j = k \/ j \in ahead[k] \/ k \in ahead[j]
    BY <2>1 DEF QueueOrdered
  <2> QED
    BY <1>1, <2>1, <2>2
<1>4. \A j, k \in Job : k \in ahead'[j] => ahead'[k] \subseteq ahead'[j]
  BY <1>1 DEF QueueOrdered
<1> QED
  BY <1>2, <1>3, <1>4 DEF QueueOrdered

LEMMA QueueInit == Init => QueueOrdered
  BY DEF Init, QueueOrdered

LEMMA QueueNext ==
  ASSUME Typed, QueueOrdered, [Next]_vars
  PROVE  QueueOrdered'
<1> DEFINE Same == UNCHANGED <<due, ahead>>
<1>0. Same => QueueOrdered'
  BY DEF QueueOrdered
<1>1. CASE UNCHANGED vars
  BY <1>0, <1>1 DEF vars, schedule
<1>2. ASSUME NEW j \in Job, JobStep(j)
      PROVE  QueueOrdered'
  <2>1. CASE CronPasses(j)
    <3>1. /\ j \notin due /\ due' = due \union {j} /\ due \in SUBSET Job
          /\ \A k \in Job : ahead'[k] = IF k = j THEN due ELSE ahead[k]
      BY <2>1 DEF CronPasses, Typed, TypeOK
    <3>2. \A k \in Job : ahead'[k] \subseteq due' /\ k \notin ahead'[k]
      BY <3>1 DEF QueueOrdered
    <3>3. \A i, k \in due' : i = k \/ i \in ahead'[k] \/ k \in ahead'[i]
      BY <3>1 DEF QueueOrdered
    <3>4. \A i, k \in Job : k \in ahead'[i] => ahead'[k] \subseteq ahead'[i]
      BY <3>1 DEF QueueOrdered
    <3> QED
      BY <3>2, <3>3, <3>4 DEF QueueOrdered
  <2>2. ASSUME NEW enabled \in BOOLEAN, UpdateConfig(j, enabled)
        PROVE  QueueOrdered'
    <3>1. Reschedule({j}) /\ {j} \in SUBSET Job
      BY <2>2 DEF UpdateConfig
    <3> QED
      BY <3>1, RescheduleQueue DEF Typed
  <2>3. CASE Cleanup(j)
    BY <1>0, <2>3 DEF Cleanup, schedule
  <2> QED
    BY <1>2, <2>1, <2>2, <2>3 DEF JobStep
<1>3. ASSUME NEW r \in Run, RunStep(r)
      PROVE  QueueOrdered'
  BY <1>0, <1>3 DEF RunStep, Attempt, Finalize, FinalizeError, Expire, schedule
<1>4. ASSUME NEW p \in Replica, TickStep(p)
      PROVE  QueueOrdered'
  <2>1. ASSUME NEW broken, ClaimTx(p, broken)
        PROVE  QueueOrdered'
    <3>1. Reschedule(held[p]) /\ held[p] \in SUBSET Job
      BY <2>1 DEF ClaimTx, Typed, TypeOK
    <3> QED
      BY <3>1, RescheduleQueue DEF Typed
  <2> QED
    BY <1>0, <1>4, <2>1
    DEF TickStep, TickReserve, LockDue, ClaimDue, ClaimAnswerLost, ClaimError, schedule
<1>5. ASSUME NEW p \in Replica, NEW j \in Job, ManualStep(p, j)
      PROVE  QueueOrdered'
  BY <1>0, <1>5
  DEF ManualStep, RunNowReserve, StartManual, RefuseManual, ManualError, schedule
<1>6. ASSUME NEW p \in Replica, ReapStep(p)
      PROVE  QueueOrdered'
  BY <1>0, <1>6 DEF ReapStep, ReapList, ReapOne, ReapError, schedule
<1>7. ASSUME NEW p \in Replica, ProcessStep(p)
      PROVE  QueueOrdered'
  BY <1>0, <1>7 DEF ProcessStep, Shutdown, Drain, Exit, Crash, Gone, Start, schedule
<1> QED
  BY <1>1, <1>2, <1>3, <1>4, <1>5, <1>6, <1>7 DEF Next

---------------------------------------------------------------------------
\* Preserving SlotsFit.

\* A replica that a step leaves alone:
LEMMA SameFit ==
  ASSUME NEW q \in Replica, SlotsFit(q),
         slots'[q] = slots[q], tick'[q] = tick[q], manual'[q] = manual[q],
         held'[q] = held[q], ExecutedBy(q)' = ExecutedBy(q),
         phase'[q] = "drained" => phase[q] = "drained"
  PROVE  SlotsFit(q)'
  BY DEF SlotsFit

LEMMA ExecutedSame ==
  ASSUME NEW q, \A r \in Run : exec'[r].at = q <=> exec[r].at = q
  PROVE  ExecutedBy(q)' = ExecutedBy(q)
  BY DEF ExecutedBy

\* A replica in which a step releases n slots, keeping the accounts:
LEMMA FewerFit ==
  ASSUME Typed, NEW p \in Replica, SlotsFit(p), NEW n \in Nat,
         slots'[p] = slots[p] - n,
         slots'[p] = tick'[p] + Cardinality(manual'[p]) + Cardinality(ExecutedBy(p)'),
         tick'[p] \in Nat, Cardinality(manual'[p]) \in Nat,
         Cardinality(ExecutedBy(p)') \in Nat,
         Cardinality(held'[p]) <= tick'[p],
         phase'[p] = phase[p]
  PROVE  SlotsFit(p)'
<1>1. slots[p] \in Int /\ MaxConcurrentJobs \in Nat
  BY WorkCounted
<1>2. slots'[p] <= MaxConcurrentJobs
  BY <1>1 DEF SlotsFit
<1>3. phase[p] = "drained" => slots'[p] = 0
  BY <1>1 DEF SlotsFit
<1> QED
  BY <1>2, <1>3 DEF SlotsFit

LEMMA ReleaseEffect ==
  ASSUME Typed, NEW p \in Replica, NEW n \in Int, Release(p, n)
  PROVE  slots'[p] = slots[p] - n /\ \A q \in Replica : q # p => slots'[q] = slots[q]
  BY TypedCounters DEF Release

LEMMA FitTick ==
  ASSUME Typed, NEW p \in Replica, SlotsFit(p)
  PROVE  tick[p] \in Nat
<1>1. Cardinality(held[p]) \in Nat /\ tick[p] \in Int
  BY WorkCounted
<1> QED
  BY <1>1 DEF SlotsFit

\* A goroutine returns and gives its slot back.
LEMMA ReturnFit ==
  ASSUME Typed, SlotsInv, NEW r \in Run, Return(r),
         NEW p \in Replica, exec[r].at = p,
         UNCHANGED <<phase, tick, held, manual>>
  PROVE  SlotsInv'
<1>1. Release(p, 1)
  BY DEF Return
<1>2. exec'[r] = Idle /\ \A other \in Run : other # r => exec'[other] = exec[other]
  BY ReturnEffect
<1>3. r \in ExecutedBy(p)
  BY DEF ExecutedBy
<1>4. Nobody # p
  BY NobodyAssumption
<1>5. ExecutedBy(p)' = ExecutedBy(p) \ {r}
  BY <1>2, <1>3, <1>4, IdleIsNobodys DEF ExecutedBy
<1>6. slots'[p] = slots[p] - 1 /\ \A q \in Replica : q # p => slots'[q] = slots[q]
  <2>1. 1 \in Int
    OBVIOUS
  <2> QED
    BY <1>1, <2>1, ReleaseEffect
<1>7. SlotsFit(p)'
  <2>1. /\ IsFiniteSet(ExecutedBy(p)) /\ Cardinality(ExecutedBy(p)) \in Nat
        /\ slots[p] \in Int /\ tick[p] \in Int
        /\ Cardinality(manual[p]) \in Nat
    BY WorkCounted
  <2>2. /\ IsFiniteSet(ExecutedBy(p)')
        /\ Cardinality(ExecutedBy(p)') = Cardinality(ExecutedBy(p)) - 1
    BY <1>3, <1>5, <2>1, FS_RemoveElement
  <2>3. Cardinality(ExecutedBy(p)') \in Nat
    BY <2>2, FS_CardinalityType
  <2>4. SlotsFit(p) /\ tick[p] \in Nat
    BY FitTick DEF SlotsInv
  <2>5. slots[p] = tick[p] + Cardinality(manual[p]) + Cardinality(ExecutedBy(p))
        /\ Cardinality(held[p]) <= tick[p]
    BY <2>4 DEF SlotsFit
  <2>6. slots'[p] = tick[p] + Cardinality(manual[p]) + Cardinality(ExecutedBy(p)')
    BY <1>6, <2>1, <2>2, <2>5
  <2> QED
    BY <1>6, <2>1, <2>3, <2>4, <2>5, <2>6, FewerFit
<1>8. \A q \in Replica : q # p => SlotsFit(q)'
  <2> TAKE q \in Replica
  <2> HAVE q # p
  <2>1. \A other \in Run : exec'[other].at = q <=> exec[other].at = q
    BY <1>2, <1>3, IdleIsNobodys, NobodyAssumption DEF ExecutedBy
  <2>2. ExecutedBy(q)' = ExecutedBy(q)
    BY <2>1, ExecutedSame
  <2> QED
    BY <1>6, <2>2, SameFit DEF SlotsInv
<1>9. OutcomesAreOfWork'
  BY <1>2, IdleIsNobodys DEF SlotsInv, OutcomesAreOfWork
<1> QED
  BY <1>7, <1>8, <1>9 DEF SlotsInv

\* Dispatch hands a slot to each run it starts.
LEMMA DispatchFit ==
  ASSUME Typed, WorkHasRow, OutcomesAreOfWork, NEW p \in Replica, NEW js \in SUBSET Job,
         InsertRuns(js), Dispatch(p, js)
  PROVE  /\ Cardinality(ExecutedBy(p)') = Cardinality(ExecutedBy(p)) + Cardinality(js)
         /\ \A q \in Replica : q # p => ExecutedBy(q)' = ExecutedBy(q)
         /\ OutcomesAreOfWork'
<1> DEFINE fresh == {Fresh(j) : j \in js}
<1>1. \A j \in js : Fresh(j) \in Run /\ JobOf(Fresh(j)) = j /\ status[Fresh(j)] = ""
  BY InsertRunsEffect DEF Typed
<1>2. fresh \in SUBSET Run /\ \A r \in fresh : exec[r].at = Nobody
  BY <1>1 DEF WorkHasRow
<1>3. \A r \in Run : r \in fresh <=> JobOf(r) \in js /\ r = Fresh(JobOf(r))
  BY <1>1
<1>4. Cardinality(fresh) = Cardinality(js)
  BY <1>1, FreshCounted
<1> HIDE DEF fresh
<1>5. \A r \in Run : exec'[r] = IF r \in fresh THEN Started(p) ELSE exec[r]
  BY <1>3, DispatchEffect
<1>6. p # Nobody
  BY NobodyAssumption
<1>7. ExecutedBy(p)' = ExecutedBy(p) \union fresh
  BY <1>2, <1>5, StartedIsFresh DEF ExecutedBy
<1>8. ExecutedBy(p) \intersect fresh = {}
  BY <1>2, <1>6 DEF ExecutedBy
<1>9. Cardinality(ExecutedBy(p)') = Cardinality(ExecutedBy(p)) + Cardinality(js)
  <2>1. IsFiniteSet(fresh) /\ IsFiniteSet(ExecutedBy(p)) /\ Cardinality(ExecutedBy(p)) \in Nat
    BY <1>2, RunsFinite, FS_Subset, WorkCounted
  <2>2. Cardinality(ExecutedBy(p) \union fresh)
          = Cardinality(ExecutedBy(p)) + Cardinality(fresh) - Cardinality({})
    BY <1>8, <2>1, FS_Union
  <2>3. Cardinality({}) = 0 /\ Cardinality(js) \in Nat
    BY FS_EmptySet, JobsCounted
  <2> QED
    BY <1>4, <1>7, <2>1, <2>2, <2>3
<1>10. ASSUME NEW q \in Replica, q # p
       PROVE  ExecutedBy(q)' = ExecutedBy(q)
  <2>1. \A r \in Run : exec'[r].at = q <=> exec[r].at = q
    BY <1>2, <1>5, <1>10, StartedIsFresh, NobodyAssumption
  <2> QED
    BY <2>1, ExecutedSame
<1>11. OutcomesAreOfWork'
  BY <1>5, StartedIsFresh DEF OutcomesAreOfWork
<1> QED
  BY <1>9, <1>10, <1>11

\* The steps that leave every replica's work and slots alone.
LEMMA QuietFit ==
  ASSUME SlotsInv, UNCHANGED <<slots, tick, manual, held>>,
         \A p \in Replica : phase'[p] = "drained" => phase[p] = "drained",
         \A r \in Run : /\ exec'[r].at = exec[r].at
                        /\ exec'[r].outcome # "" => exec[r].at # Nobody
  PROVE  SlotsInv'
<1>1. \A p \in Replica : SlotsFit(p)'
  <2> TAKE p \in Replica
  <2>1. ExecutedBy(p)' = ExecutedBy(p)
    BY ExecutedSame
  <2> QED
    BY <2>1, SameFit DEF SlotsInv
<1>2. OutcomesAreOfWork'
  BY DEF OutcomesAreOfWork
<1> QED
  BY <1>1, <1>2 DEF SlotsInv

LEMMA SlotsInit == Init => SlotsInv
<1> SUFFICES ASSUME Init PROVE SlotsInv
  OBVIOUS
<1>1. ASSUME NEW p \in Replica PROVE SlotsFit(p)
  <2>1. ExecutedBy(p) = {}
    BY IdleIsNobodys, NobodyAssumption DEF Init, ExecutedBy
  <2>2. Cardinality({}) = 0
    BY FS_EmptySet
  <2>3. slots[p] = 0 /\ tick[p] = 0 /\ manual[p] = {} /\ held[p] = {} /\ phase[p] = "up"
    BY DEF Init
  <2> QED
    BY <2>1, <2>2, <2>3, SizesAssumption DEF SlotsFit
<1>2. OutcomesAreOfWork
  BY IdleIsNobodys DEF Init, OutcomesAreOfWork
<1> QED
  BY <1>1, <1>2 DEF SlotsInv

LEMMA SlotsJobStep ==
  ASSUME Typed, SlotsInv, NEW j \in Job, JobStep(j)
  PROVE  SlotsInv'
<1>1. UNCHANGED process
  BY DEF JobStep, CronPasses, UpdateConfig, Cleanup
<1> QED
  BY <1>1, QuietFit DEF process, SlotsInv, OutcomesAreOfWork

LEMMA SlotsRunStep ==
  ASSUME Typed, SlotsInv, NEW r \in Run, RunStep(r)
  PROVE  SlotsInv'
<1>0. exec \in [Run -> Goroutine] /\ exec[r] \in Goroutine
  BY TypedGoroutine
<1>1. ASSUME NEW outcome \in Terminal, NEW retryable \in BOOLEAN,
             Attempt(r, outcome, retryable)
      PROVE  SlotsInv'
  <2>1. \A other \in Run : other # r => exec'[other] = exec[other]
    BY <1>0, <1>1 DEF Attempt
  <2>2. exec'[r].at = exec[r].at /\ exec[r].at # Nobody
    BY <1>0, <1>1 DEF Attempt, Attempting, Goroutine
  <2> QED
    BY <1>1, <2>1, <2>2, QuietFit DEF Attempt, SlotsInv, OutcomesAreOfWork
<1>a. exec[r].outcome # "" => \E p \in Replica : exec[r].at = p
  BY <1>0 DEF SlotsInv, OutcomesAreOfWork, Goroutine
<1>2. CASE Finalize(r)
  BY <1>a, <1>2, ReturnFit DEF Finalize
<1>3. CASE FinalizeError(r)
  <2>1. CASE exec[r].tries + 1 = FinalizeTries
    BY <1>a, <1>3, <2>1, ReturnFit DEF FinalizeError
  <2>2. CASE exec[r].tries + 1 # FinalizeTries
    <3> DEFINE next == [exec[r] EXCEPT !.tries = @ + 1]
    <3>1. exec' = [exec EXCEPT ![r] = next] /\ UNCHANGED <<slots, phase, tick, held, manual>>
      BY <1>0, <1>3, <2>2 DEF FinalizeError
    <3>2. next.at = exec[r].at /\ next.outcome = exec[r].outcome
      BY <1>0 DEF Goroutine
    <3> HIDE DEF next
    <3>3. \A other \in Run : exec'[other].at = exec[other].at
                             /\ exec'[other].outcome = exec[other].outcome
      BY <1>0, <3>1, <3>2
    <3> QED
      BY <3>1, <3>3, QuietFit DEF SlotsInv, OutcomesAreOfWork
  <2> QED
    BY <2>1, <2>2
<1>4. CASE Expire(r)
  BY <1>4, QuietFit DEF Expire, process, SlotsInv, OutcomesAreOfWork
<1> QED
  BY <1>1, <1>2, <1>3, <1>4 DEF RunStep

\* A tick gives back every slot it has reserved.
LEMMA TickReleaseFit ==
  ASSUME Typed, SlotsInv, NEW p \in Replica, Release(p, tick[p]),
         tick' = [tick EXCEPT ![p] = 0], held' = [held EXCEPT ![p] = {}],
         UNCHANGED <<phase, manual, exec>>
  PROVE  SlotsInv'
<1>1. /\ tick \in [Replica -> Int] /\ held \in [Replica -> SUBSET Job]
      /\ tick[p] \in Nat /\ SlotsFit(p)
  BY FitTick DEF SlotsInv, Typed, TypeOK
<1>2. slots'[p] = slots[p] - tick[p] /\ \A q \in Replica : q # p => slots'[q] = slots[q]
  <2>1. tick[p] \in Int
    BY <1>1
  <2> QED
    BY <2>1, ReleaseEffect
<1>3. \A q \in Replica : ExecutedBy(q)' = ExecutedBy(q)
  BY DEF ExecutedBy
<1>4. ASSUME NEW q \in Replica, q # p
      PROVE  SlotsFit(q)'
  <2>1. tick'[q] = tick[q] /\ held'[q] = held[q]
    BY <1>1, <1>4
  <2> QED
    BY <1>2, <1>3, <1>4, <2>1, SameFit DEF SlotsInv
<1>5. SlotsFit(p)'
  <2>1. tick'[p] = 0 /\ held'[p] = {} /\ Cardinality({}) = 0
    BY <1>1, FS_EmptySet
  <2>2. slots[p] = tick[p] + Cardinality(manual[p]) + Cardinality(ExecutedBy(p))
    BY <1>1 DEF SlotsFit
  <2>3. slots'[p] = tick'[p] + Cardinality(manual'[p]) + Cardinality(ExecutedBy(p)')
    <3>1. /\ slots[p] \in Int /\ Cardinality(manual[p]) \in Nat
          /\ Cardinality(ExecutedBy(p)) \in Nat
      BY WorkCounted
    <3>2. slots'[p] = 0 + Cardinality(manual[p]) + Cardinality(ExecutedBy(p))
      BY <1>1, <1>2, <2>2, <3>1
    <3> QED
      BY <1>3, <2>1, <3>2
  <2>4. /\ tick'[p] \in Nat /\ Cardinality(manual'[p]) \in Nat
        /\ Cardinality(ExecutedBy(p)') \in Nat /\ Cardinality(held'[p]) <= tick'[p]
    <3>1. Cardinality(manual[p]) \in Nat /\ Cardinality(ExecutedBy(p)) \in Nat
      BY WorkCounted
    <3> QED
      BY <1>3, <2>1, <3>1
  <2> QED
    BY <1>1, <1>2, <2>3, <2>4, FewerFit
<1>6. OutcomesAreOfWork'
  BY DEF SlotsInv, OutcomesAreOfWork
<1> QED
  BY <1>4, <1>5, <1>6 DEF SlotsInv

LEMMA TickReserveFit ==
  ASSUME Typed, SlotsInv, NEW p \in Replica, TickReserve(p)
  PROVE  SlotsInv'
<1>1. /\ tick \in [Replica -> Int] /\ slots \in [Replica -> Int] /\ SlotsFit(p)
      /\ MaxConcurrentJobs \in Nat /\ UNCHANGED <<phase, held, manual, exec>>
  BY SizesAssumption DEF SlotsInv, Typed, TypeOK, TickReserve
<1>2. /\ tick' = [tick EXCEPT ![p] = MaxConcurrentJobs - slots[p]]
      /\ slots' = [slots EXCEPT ![p] = MaxConcurrentJobs]
      /\ tick[p] = 0 /\ phase[p] = "up"
      /\ MaxConcurrentJobs - slots[p] > 0
  BY DEF TickReserve, LoopIdle, MayReserve, Free
<1>3. \A q \in Replica : ExecutedBy(q)' = ExecutedBy(q)
  BY <1>1 DEF ExecutedBy
<1>4. ASSUME NEW q \in Replica, q # p
      PROVE  SlotsFit(q)'
  <2>1. tick'[q] = tick[q] /\ slots'[q] = slots[q]
    BY <1>1, <1>2, <1>4
  <2> QED
    BY <1>1, <1>3, <1>4, <2>1, SameFit DEF SlotsInv
<1>5. SlotsFit(p)'
  <2>1. tick'[p] = MaxConcurrentJobs - slots[p] /\ slots'[p] = MaxConcurrentJobs
    BY <1>1, <1>2
  <2>2. /\ slots[p] \in Int /\ Cardinality(manual[p]) \in Nat
        /\ Cardinality(ExecutedBy(p)) \in Nat /\ Cardinality(held[p]) \in Nat
    BY WorkCounted
  <2>3. /\ slots[p] = 0 + Cardinality(manual[p]) + Cardinality(ExecutedBy(p))
        /\ Cardinality(held[p]) <= 0
    BY <1>1, <1>2 DEF SlotsFit
  <2>4. slots'[p] = tick'[p] + Cardinality(manual[p]) + Cardinality(ExecutedBy(p))
    BY <1>1, <2>1, <2>2, <2>3
  <2>5. Cardinality(held[p]) <= tick'[p] /\ slots'[p] <= MaxConcurrentJobs
    BY <1>1, <1>2, <2>1, <2>2, <2>3
  <2> QED
    BY <1>1, <1>2, <1>3, <2>4, <2>5 DEF SlotsFit
<1>6. OutcomesAreOfWork'
  BY <1>1 DEF SlotsInv, OutcomesAreOfWork
<1> QED
  BY <1>4, <1>5, <1>6 DEF SlotsInv

LEMMA LockDueFit ==
  ASSUME Typed, SlotsInv, QueueOrdered, NEW p \in Replica, NEW skipped \in SUBSET Job,
         LockDue(p, skipped)
  PROVE  SlotsInv'
<1> DEFINE candidates == due \ (retired \union Locked \union skipped)
           picked == {j \in candidates :
                        Cardinality(ahead[j] \intersect candidates) < tick[p]}
<1>1. /\ held' = [held EXCEPT ![p] = picked]
      /\ IF picked = {}
         THEN Release(p, tick[p]) /\ tick' = [tick EXCEPT ![p] = 0]
         ELSE UNCHANGED <<slots, tick>>
      /\ UNCHANGED <<phase, manual, exec>>
  BY DEF LockDue
<1>2. Cardinality(picked) <= tick[p]
  <2>1. candidates \in SUBSET due /\ tick[p] \in Nat
    BY FitTick DEF SlotsInv
  <2> HIDE DEF candidates
  <2> QED
    BY <2>1, FirstInQueue DEF Typed
<1> HIDE DEF picked
<1>3. CASE picked = {}
  BY <1>1, <1>3, TickReleaseFit
<1>4. CASE picked # {}
  <2>1. UNCHANGED <<slots, tick, phase, manual, exec>>
    BY <1>1, <1>4
  <2>2. \A q \in Replica : ExecutedBy(q)' = ExecutedBy(q)
    BY <2>1 DEF ExecutedBy
  <2>3. held \in [Replica -> SUBSET Job]
    BY DEF Typed, TypeOK
  <2>4. \A q \in Replica : Cardinality(held'[q]) <= tick[q]
    BY <1>1, <1>2, <2>3 DEF SlotsInv, SlotsFit
  <2>5. \A q \in Replica : SlotsFit(q)'
    BY <2>1, <2>2, <2>4 DEF SlotsInv, SlotsFit
  <2>6. OutcomesAreOfWork'
    BY <2>1 DEF SlotsInv, OutcomesAreOfWork
  <2> QED
    BY <2>5, <2>6 DEF SlotsInv
<1> QED
  BY <1>3, <1>4

LEMMA ClaimDueFit ==
  ASSUME Typed, SlotsInv, WorkHasRow, NEW p \in Replica, NEW broken \in SUBSET held[p],
         ClaimDue(p, broken)
  PROVE  SlotsInv'
<1> DEFINE started == Startable(p, broken)
<1>1. /\ ClaimTx(p, broken) /\ Dispatch(p, started)
      /\ Release(p, tick[p] - Cardinality(started))
      /\ UNCHANGED <<phase, manual>>
  BY DEF ClaimDue
<1>2. /\ InsertRuns(started) /\ started \in SUBSET Job
      /\ held' = [held EXCEPT ![p] = {}] /\ tick' = [tick EXCEPT ![p] = 0]
  BY <1>1, ClaimTxTyped DEF ClaimTx
<1>3. PICK size \in Nat : size = Cardinality(started)
  BY <1>2, JobsCounted
<1>4. size <= tick[p] /\ tick[p] \in Nat
  <2>1. started \in SUBSET held[p]
    BY DEF Startable
  <2>2. /\ IsFiniteSet(held[p]) /\ Cardinality(held[p]) \in Nat
        /\ tick[p] \in Int /\ Cardinality(held[p]) <= tick[p]
    BY WorkCounted DEF SlotsInv, SlotsFit
  <2>3. Cardinality(started) <= Cardinality(held[p])
    BY <2>1, <2>2, FS_Subset
  <2> HIDE DEF started
  <2> QED
    BY <1>3, <2>2, <2>3
<1> HIDE DEF started
<1>5. /\ Cardinality(ExecutedBy(p)') = Cardinality(ExecutedBy(p)) + size
      /\ \A q \in Replica : q # p => ExecutedBy(q)' = ExecutedBy(q)
      /\ OutcomesAreOfWork'
  BY <1>1, <1>2, <1>3, DispatchFit DEF SlotsInv
<1>6. PICK left \in Nat : left = tick[p] - size
  BY <1>4
<1>7. slots'[p] = slots[p] - left /\ \A q \in Replica : q # p => slots'[q] = slots[q]
  <2>1. Release(p, left) /\ left \in Int
    BY <1>1, <1>3, <1>6
  <2> QED
    BY <2>1, ReleaseEffect
<1>8. ASSUME NEW q \in Replica, q # p
      PROVE  SlotsFit(q)'
  <2>1. tick'[q] = tick[q] /\ held'[q] = held[q]
    BY <1>2, <1>8 DEF Typed, TypeOK
  <2> QED
    BY <1>1, <1>5, <1>7, <1>8, <2>1, SameFit DEF SlotsInv
<1>9. SlotsFit(p)'
  <2>1. tick'[p] = 0 /\ held'[p] = {} /\ Cardinality({}) = 0 /\ manual'[p] = manual[p]
    BY <1>1, <1>2, FS_EmptySet DEF Typed, TypeOK
  <2>2. /\ slots[p] \in Int /\ Cardinality(manual[p]) \in Nat
        /\ Cardinality(ExecutedBy(p)) \in Nat
    BY WorkCounted
  <2>3. slots[p] = tick[p] + Cardinality(manual[p]) + Cardinality(ExecutedBy(p))
        /\ SlotsFit(p)
    BY DEF SlotsInv, SlotsFit
  <2>4. slots'[p] = Cardinality(manual[p]) + (Cardinality(ExecutedBy(p)) + size)
    BY <1>4, <1>6, <1>7, <2>2, <2>3
  <2>5. slots'[p] = 0 + Cardinality(manual[p]) + Cardinality(ExecutedBy(p)')
        /\ Cardinality(ExecutedBy(p)') \in Nat
    BY <1>5, <2>2, <2>4
  <2>6. slots'[p] = tick'[p] + Cardinality(manual'[p]) + Cardinality(ExecutedBy(p)')
    BY <2>1, <2>5
  <2>7. /\ tick'[p] \in Nat /\ Cardinality(manual'[p]) \in Nat
        /\ Cardinality(held'[p]) <= tick'[p]
    BY <2>1, <2>2
  <2>8. phase'[p] = phase[p]
    BY <1>1
  <2> QED
    BY <1>7, <2>3, <2>5, <2>6, <2>7, <2>8, FewerFit
<1> QED
  BY <1>5, <1>8, <1>9 DEF SlotsInv

LEMMA SlotsTickStep ==
  ASSUME Typed, LiveInv, QueueOrdered, SlotsInv, NEW p \in Replica, TickStep(p)
  PROVE  SlotsInv'
<1>1. CASE ClaimAnswerLost(p)
  BY <1>1, TickReleaseFit DEF ClaimAnswerLost, ClaimTx
<1>2. CASE ClaimError(p)
  BY <1>2, TickReleaseFit DEF ClaimError
<1> QED
  BY <1>1, <1>2, TickReserveFit, LockDueFit, ClaimDueFit DEF TickStep, LiveInv

\* A request that was answered no longer takes a slot of its own.
LEMMA AnswerEffect ==
  ASSUME Typed, NEW p \in Replica, NEW j \in Job, AnswerManual(p, j)
  PROVE  /\ \A q \in Replica : q # p => manual'[q] = manual[q]
         /\ Cardinality(manual'[p]) = Cardinality(manual[p]) - 1
         /\ Cardinality(manual'[p]) \in Nat
<1>1. j \in manual[p] /\ manual' = [manual EXCEPT ![p] = manual[p] \ {j}]
      /\ manual \in [Replica -> SUBSET Job]
  BY DEF AnswerManual, Typed, TypeOK
<1>2. IsFiniteSet(manual[p])
  BY WorkCounted
<1>3. /\ IsFiniteSet(manual[p] \ {j})
      /\ Cardinality(manual[p] \ {j}) = Cardinality(manual[p]) - 1
  BY <1>1, <1>2, FS_RemoveElement
<1>4. Cardinality(manual[p] \ {j}) \in Nat
  BY <1>3, FS_CardinalityType
<1> QED
  BY <1>1, <1>3, <1>4

LEMMA RunNowFit ==
  ASSUME Typed, SlotsInv, NEW p \in Replica, NEW j \in Job, RunNowReserve(p, j)
  PROVE  SlotsInv'
<1>1. /\ j \notin manual[p] /\ manual' = [manual EXCEPT ![p] = manual[p] \union {j}]
      /\ slots' = [slots EXCEPT ![p] = slots[p] + 1]
      /\ phase[p] = "up" /\ MaxConcurrentJobs - slots[p] > 0
      /\ UNCHANGED <<phase, tick, held, exec>>
  BY DEF RunNowReserve, MayReserve, Free
<1>2. slots \in [Replica -> Int] /\ manual \in [Replica -> SUBSET Job]
  BY DEF Typed, TypeOK
<1>3. \A q \in Replica : ExecutedBy(q)' = ExecutedBy(q)
  BY <1>1 DEF ExecutedBy
<1>4. ASSUME NEW q \in Replica, q # p
      PROVE  SlotsFit(q)'
  <2>1. manual'[q] = manual[q] /\ slots'[q] = slots[q]
    BY <1>1, <1>2, <1>4
  <2> QED
    BY <1>1, <1>3, <1>4, <2>1, SameFit DEF SlotsInv
<1>5. SlotsFit(p)'
  <2>1. manual'[p] = manual[p] \union {j} /\ slots'[p] = slots[p] + 1
    BY <1>1, <1>2
  <2>2. /\ IsFiniteSet(manual[p]) /\ Cardinality(manual[p]) \in Nat
        /\ slots[p] \in Int /\ tick[p] \in Int /\ Cardinality(ExecutedBy(p)) \in Nat
        /\ MaxConcurrentJobs \in Nat
    BY WorkCounted
  <2>3. Cardinality(manual'[p]) = Cardinality(manual[p]) + 1
    BY <1>1, <2>1, <2>2, FS_AddElement
  <2>4. /\ slots[p] = tick[p] + Cardinality(manual[p]) + Cardinality(ExecutedBy(p))
        /\ Cardinality(held[p]) <= tick[p]
    BY DEF SlotsInv, SlotsFit
  <2>5. slots'[p] = tick[p] + Cardinality(manual'[p]) + Cardinality(ExecutedBy(p))
    BY <2>1, <2>2, <2>3, <2>4
  <2>6. slots'[p] <= MaxConcurrentJobs
    BY <1>1, <2>1, <2>2
  <2> QED
    BY <1>1, <1>3, <2>4, <2>5, <2>6 DEF SlotsFit
<1>6. OutcomesAreOfWork'
  BY <1>1 DEF SlotsInv, OutcomesAreOfWork
<1> QED
  BY <1>4, <1>5, <1>6 DEF SlotsInv

\* The slot of a request passes to the run it starts.
LEMMA StartManualFit ==
  ASSUME Typed, SlotsInv, WorkHasRow, NEW p \in Replica, NEW j \in Job, StartManual(p, j)
  PROVE  SlotsInv'
<1>1. /\ AnswerManual(p, j) /\ InsertRuns({j}) /\ Dispatch(p, {j}) /\ {j} \in SUBSET Job
      /\ UNCHANGED <<phase, slots, tick, held>>
  BY DEF StartManual
<1>2. Cardinality({j}) = 1
  BY FS_Singleton
<1>3. /\ Cardinality(ExecutedBy(p)') = Cardinality(ExecutedBy(p)) + 1
      /\ \A q \in Replica : q # p => ExecutedBy(q)' = ExecutedBy(q)
      /\ OutcomesAreOfWork'
  BY <1>1, <1>2, DispatchFit DEF SlotsInv
<1>4. /\ \A q \in Replica : q # p => manual'[q] = manual[q]
      /\ Cardinality(manual'[p]) = Cardinality(manual[p]) - 1
  BY <1>1, AnswerEffect
<1>5. ASSUME NEW q \in Replica, q # p
      PROVE  SlotsFit(q)'
  BY <1>1, <1>3, <1>4, <1>5, SameFit DEF SlotsInv
<1>6. SlotsFit(p)'
  <2>1. /\ Cardinality(manual[p]) \in Nat /\ tick[p] \in Int
        /\ Cardinality(ExecutedBy(p)) \in Nat
    BY WorkCounted
  <2>2. SlotsFit(p)
    BY DEF SlotsInv
  <2>3. slots[p] = tick[p] + Cardinality(manual[p]) + Cardinality(ExecutedBy(p))
    BY <2>2 DEF SlotsFit
  <2>4. slots[p] = tick[p] + Cardinality(manual'[p]) + Cardinality(ExecutedBy(p)')
    BY <1>3, <1>4, <2>1, <2>3
  <2> QED
    BY <1>1, <2>2, <2>4 DEF SlotsFit
<1> QED
  BY <1>3, <1>5, <1>6 DEF SlotsInv

\* A request that fails or is refused gives its slot back.
LEMMA AnswerReleaseFit ==
  ASSUME Typed, SlotsInv, NEW p \in Replica, NEW j \in Job,
         AnswerManual(p, j), Release(p, 1), UNCHANGED <<phase, tick, held, exec>>
  PROVE  SlotsInv'
<1>1. /\ \A q \in Replica : q # p => manual'[q] = manual[q]
      /\ Cardinality(manual'[p]) = Cardinality(manual[p]) - 1
      /\ Cardinality(manual'[p]) \in Nat
  BY AnswerEffect
<1>2. slots'[p] = slots[p] - 1 /\ \A q \in Replica : q # p => slots'[q] = slots[q]
  <2>1. 1 \in Int
    OBVIOUS
  <2> QED
    BY <2>1, ReleaseEffect
<1>3. \A q \in Replica : ExecutedBy(q)' = ExecutedBy(q)
  BY DEF ExecutedBy
<1>4. ASSUME NEW q \in Replica, q # p
      PROVE  SlotsFit(q)'
  BY <1>1, <1>2, <1>3, <1>4, SameFit DEF SlotsInv
<1>5. SlotsFit(p)'
  <2>1. /\ Cardinality(manual[p]) \in Nat /\ tick[p] \in Nat /\ slots[p] \in Int
        /\ Cardinality(ExecutedBy(p)) \in Nat /\ SlotsFit(p)
    BY WorkCounted, FitTick DEF SlotsInv
  <2>2. slots[p] = tick[p] + Cardinality(manual[p]) + Cardinality(ExecutedBy(p))
        /\ Cardinality(held[p]) <= tick[p]
    BY <2>1 DEF SlotsFit
  <2>3. slots'[p] = tick[p] + Cardinality(manual'[p]) + Cardinality(ExecutedBy(p))
    BY <1>1, <1>2, <2>1, <2>2
  <2> QED
    BY <1>1, <1>2, <1>3, <2>1, <2>2, <2>3, FewerFit
<1>6. OutcomesAreOfWork'
  BY DEF SlotsInv, OutcomesAreOfWork
<1> QED
  BY <1>4, <1>5, <1>6 DEF SlotsInv

LEMMA SlotsManualStep ==
  ASSUME Typed, LiveInv, SlotsInv, NEW p \in Replica, NEW j \in Job, ManualStep(p, j)
  PROVE  SlotsInv'
<1>1. CASE RefuseManual(p, j)
  BY <1>1, AnswerReleaseFit DEF RefuseManual
<1>2. CASE ManualError(p, j)
  BY <1>2, AnswerReleaseFit DEF ManualError
<1> QED
  BY <1>1, <1>2, RunNowFit, StartManualFit DEF ManualStep, LiveInv

LEMMA SlotsReapStep ==
  ASSUME Typed, SlotsInv, NEW p \in Replica, ReapStep(p)
  PROVE  SlotsInv'
<1>1. UNCHANGED <<phase, slots, tick, held, manual, exec>>
  BY DEF ReapStep, ReapList, ReapOne, ReapError
<1> QED
  BY <1>1, QuietFit DEF SlotsInv, OutcomesAreOfWork

\* A process that is gone has no slots, and the others keep theirs.
LEMMA GoneFit ==
  ASSUME Typed, SlotsInv, NEW p \in Replica, Gone(p)
  PROVE  SlotsInv'
<1>1. /\ phase'[p] = "down" /\ slots'[p] = 0 /\ tick'[p] = 0 /\ held'[p] = {}
      /\ manual'[p] = {}
      /\ \A q \in Replica : q # p => /\ phase'[q] = phase[q] /\ slots'[q] = slots[q]
                                     /\ tick'[q] = tick[q] /\ held'[q] = held[q]
                                     /\ manual'[q] = manual[q]
  BY DEF Gone, Typed, TypeOK
<1>2. \A r \in Run : exec'[r] = IF exec[r].at = p THEN Idle ELSE exec[r]
  BY DEF Gone
<1>3. ASSUME NEW q \in Replica, q # p
      PROVE  SlotsFit(q)'
  <2>1. \A r \in Run : exec'[r].at = q <=> exec[r].at = q
    BY <1>2, <1>3, IdleIsNobodys, NobodyAssumption
  <2>2. ExecutedBy(q)' = ExecutedBy(q)
    BY <2>1, ExecutedSame
  <2> QED
    BY <1>1, <1>3, <2>2, SameFit DEF SlotsInv
<1>4. SlotsFit(p)'
  <2>1. ExecutedBy(p)' = {}
    BY <1>2, IdleIsNobodys, NobodyAssumption DEF ExecutedBy
  <2>2. Cardinality({}) = 0 /\ MaxConcurrentJobs \in Nat
    BY FS_EmptySet, SizesAssumption
  <2> QED
    BY <1>1, <2>1, <2>2 DEF SlotsFit
<1>5. OutcomesAreOfWork'
  BY <1>2, IdleIsNobodys DEF SlotsInv, OutcomesAreOfWork
<1> QED
  BY <1>3, <1>4, <1>5 DEF SlotsInv

LEMMA SlotsProcessStep ==
  ASSUME Typed, SlotsInv, NEW p \in Replica, ProcessStep(p)
  PROVE  SlotsInv'
<1>0. phase \in [Replica -> {"up", "closing", "drained", "down"}]
  BY DEF Typed, TypeOK
<1>1. CASE Shutdown(p)
  <2>1. \A q \in Replica : phase'[q] = "drained" => phase[q] = "drained"
    BY <1>0, <1>1 DEF Shutdown
  <2> QED
    BY <1>1, <2>1, QuietFit DEF Shutdown, SlotsInv, OutcomesAreOfWork
<1>2. CASE Drain(p)
  <2>1. UNCHANGED <<slots, tick, held, manual, exec>> /\ slots[p] = 0
    BY <1>2 DEF Drain
  <2>2. \A q \in Replica : phase'[q] = "drained" => phase[q] = "drained" \/ slots[q] = 0
    BY <1>0, <1>2 DEF Drain
  <2>3. \A q \in Replica : ExecutedBy(q)' = ExecutedBy(q)
    BY <2>1 DEF ExecutedBy
  <2>4. \A q \in Replica : SlotsFit(q)'
    BY <2>1, <2>2, <2>3 DEF SlotsInv, SlotsFit
  <2>5. OutcomesAreOfWork'
    BY <2>1 DEF SlotsInv, OutcomesAreOfWork
  <2> QED
    BY <2>4, <2>5 DEF SlotsInv
<1>3. CASE Gone(p)
  BY <1>3, GoneFit
<1>4. ASSUME NEW catalog \in Catalogs, Start(p, catalog)
      PROVE  SlotsInv'
  <2>1. \A q \in Replica : phase'[q] = "drained" => phase[q] = "drained"
    BY <1>0, <1>4 DEF Start
  <2> QED
    BY <1>4, <2>1, QuietFit DEF Start, SlotsInv, OutcomesAreOfWork
<1> QED
  BY <1>1, <1>2, <1>3, <1>4 DEF ProcessStep, Exit, Crash

LEMMA SlotsNext == Typed /\ LiveInv /\ QueueOrdered /\ SlotsInv /\ [Next]_vars => SlotsInv'
<1> SUFFICES ASSUME Typed, LiveInv, QueueOrdered, SlotsInv, [Next]_vars PROVE SlotsInv'
  OBVIOUS
<1>1. CASE UNCHANGED vars
  BY <1>1, QuietFit DEF vars, process, SlotsInv, OutcomesAreOfWork
<1>2. CASE Next
  BY <1>2, SlotsJobStep, SlotsRunStep, SlotsTickStep, SlotsManualStep, SlotsReapStep,
     SlotsProcessStep DEF Next
<1> QED
  BY <1>1, <1>2

LEMMA SlotsInvariant == Spec => [](Typed /\ SlotsInv)
<1>1. Typed /\ QueueOrdered /\ [Next]_vars => QueueOrdered'
  BY QueueNext
<1>2. Spec => []Typed
  BY InitTyped, NextTyped, PTL DEF Spec
<1>3. Spec => []LiveInv
  BY <1>2, LiveInit, LiveNext, PTL DEF Spec
<1>4. Spec => []QueueOrdered
  BY <1>1, <1>2, QueueInit, PTL DEF Spec
<1> QED
  BY <1>2, <1>3, <1>4, SlotsInit, SlotsNext, PTL DEF Spec

\* No slot of a replica is lost or used twice, whatever fails between reserving it
\* and releasing it: the claim never locks more jobs than the tick reserved slots
\* for, and every error path gives back what it took (reserve, release, Tick, RunNow).
THEOREM NoSlotIsLost == Spec => []SlotsConserved
<1>1. SlotsInv => SlotsConserved
  BY DEF SlotsInv, SlotsFit, SlotsConserved
<1> QED
  BY <1>1, SlotsInvariant, PTL

\* Once Shutdown has waited for its work, the replica does none and takes no more:
\* reserve refuses after closing, under the lock that Shutdown sets it with.
THEOREM DrainedStaysQuiet == Spec => []DrainedIsQuiet
<1>1. ASSUME Typed, SlotsInv, NEW p \in Replica, phase[p] = "drained"
      PROVE  slots[p] = 0 /\ tick[p] = 0 /\ manual[p] = {} /\ ExecutedBy(p) = {}
  <2>1. /\ IsFiniteSet(manual[p]) /\ IsFiniteSet(ExecutedBy(p))
        /\ Cardinality(manual[p]) \in Nat /\ Cardinality(ExecutedBy(p)) \in Nat
        /\ tick[p] \in Nat
    BY <1>1, WorkCounted, FitTick DEF SlotsInv
  <2>2. /\ slots[p] = tick[p] + Cardinality(manual[p]) + Cardinality(ExecutedBy(p))
        /\ slots[p] = 0
    BY <1>1 DEF SlotsInv, SlotsFit
  <2>3. tick[p] = 0 /\ Cardinality(manual[p]) = 0 /\ Cardinality(ExecutedBy(p)) = 0
    BY <2>1, <2>2
  <2> QED
    BY <2>1, <2>2, <2>3, FS_EmptySet
<1>2. Typed /\ SlotsInv => DrainedIsQuiet
  BY <1>1 DEF DrainedIsQuiet
<1> QED
  BY <1>2, SlotsInvariant, PTL

---------------------------------------------------------------------------
\* The runs of a job in order.

LEMMA Numbers ==
  \A size \in Nat : /\ size + 1 \in 1 .. size + 1
                    /\ \A n \in 1 .. size : /\ n \in 1 .. size + 1 /\ n # size + 1
                                             /\ n + 1 \in 1 .. size + 1 /\ n + 1 # 1
                    /\ \A n \in 1 .. size + 1 : n # 1 => n - 1 \in 1 .. size /\ (n - 1) + 1 = n
  OBVIOUS

LEMMA HeadIsFirst == ASSUME NEW S, NEW s \in Seq(S), s # <<>> PROVE Head(s) = s[1]
  OBVIOUS

LEMMA HistorySame == HistoryInv /\ UNCHANGED <<status, rows, lastStatus>> => HistoryInv'
<1> SUFFICES ASSUME HistoryInv, status' = status, rows' = rows, lastStatus' = lastStatus
             PROVE  HistoryInv'
  OBVIOUS
<1>1. RowsExist'
  BY DEF HistoryInv, RowsExist
<1>2. RowsListed'
  BY DEF HistoryInv, RowsListed
<1>3. RowsDiffer'
  BY DEF HistoryInv, RowsDiffer
<1>4. RunningIsLatest'
  BY DEF HistoryInv, RunningIsLatest
<1>5. LastStatusIsLatest'
  BY DEF HistoryInv, LastStatusIsLatest
<1> QED
  BY <1>1, <1>2, <1>3, <1>4, <1>5 DEF HistoryInv

\* Appending a run the job has no row of, while none of its runs is RUNNING:
LEMMA HistoryInsert ==
  ASSUME Typed, HistoryInv, NEW js \in SUBSET Job, InsertRuns(js),
         \A j \in js : Running(j) = {}
  PROVE  HistoryInv'
<1>1. /\ \A r \in Run : status'[r] = IF JobOf(r) \in js /\ r = Fresh(JobOf(r))
                                     THEN "RUNNING" ELSE status[r]
      /\ \A j \in js : Fresh(j) \in Run /\ JobOf(Fresh(j)) = j /\ status[Fresh(j)] = ""
      /\ \A r \in Run : status[r] # "" => status'[r] = status[r]
      /\ lastStatus' = lastStatus
  BY InsertRunsEffect DEF Typed
<1>2. \A j \in Job : /\ rows[j] \in Seq(1 .. RunsPerJob) /\ Len(rows[j]) \in Nat
                     /\ \A n \in 1 .. Len(rows[j]) : rows[j][n] \in 1 .. RunsPerJob
  BY LenProperties, ElementOfSeq DEF Typed, TypeOK
<1>3. \A j \in Job : j \notin js => rows'[j] = rows[j]
  BY DEF InsertRuns
<1>4. ASSUME NEW j \in js
      PROVE  /\ Len(rows'[j]) = Len(rows[j]) + 1
             /\ \A n \in 1 .. Len(rows[j]) : rows'[j][n] = rows[j][n]
             /\ rows'[j][Len(rows[j]) + 1] = Fresh(j)[2]
             /\ Fresh(j) = <<j, Fresh(j)[2]>> /\ Fresh(j)[2] \in 1 .. RunsPerJob
  <2>1. PICK n \in 1 .. RunsPerJob : n = Fresh(j)[2]
    BY FreshIsUnused DEF InsertRuns
  <2>2. rows'[j] = Append(rows[j], n) /\ rows[j] \in Seq(1 .. RunsPerJob)
    BY <1>2, <2>1 DEF InsertRuns
  <2>3. Fresh(j) = <<j, n>>
    BY <2>1 DEF Fresh
  <2> QED
    BY <2>1, <2>2, <2>3, AppendProperties
<1>5. \A j \in Job : \A n \in 1 .. Len(rows[j]) :
        /\ <<j, rows[j][n]>> \in Run
        /\ status[<<j, rows[j][n]>>] # ""
        /\ status'[<<j, rows[j][n]>>] = status[<<j, rows[j][n]>>]
  <2> TAKE j \in Job
  <2> TAKE n \in 1 .. Len(rows[j])
  <2>1. <<j, rows[j][n]>> \in Run /\ status[<<j, rows[j][n]>>] # ""
    BY <1>2 DEF Run, HistoryInv, RowsExist
  <2> QED
    BY <1>1, <2>1
<1>6. \A j \in js : /\ status'[<<j, Fresh(j)[2]>>] = "RUNNING"
                    /\ status[<<j, Fresh(j)[2]>>] = ""
                    /\ \A n \in 1 .. Len(rows[j]) : status[<<j, rows[j][n]>>] # "RUNNING"
  <2> TAKE j \in js
  <2>1. status'[Fresh(j)] = "RUNNING" /\ status[Fresh(j)] = ""
    BY <1>1
  <2>2. \A n \in 1 .. Len(rows[j]) : status[<<j, rows[j][n]>>] # "RUNNING"
    BY <1>5 DEF Running, JobOf
  <2> QED
    BY <1>4, <2>1, <2>2
<1>7. \A j \in Job : \A n \in 1 .. Len(rows'[j]) :
        \/ n \in 1 .. Len(rows[j]) /\ rows'[j][n] = rows[j][n]
        \/ j \in js /\ n = Len(rows[j]) + 1 /\ rows'[j][n] = Fresh(j)[2]
  <2> TAKE j \in Job
  <2> TAKE n \in 1 .. Len(rows'[j])
  <2>1. CASE j \in js
    <3>1. PICK size \in Nat : size = Len(rows[j])
      BY <1>2
    <3>2. Len(rows'[j]) = size + 1
      BY <1>4, <2>1, <3>1
    <3>3. n \in 1 .. size \/ n = size + 1
      BY <3>2
    <3> QED
      BY <1>4, <2>1, <3>1, <3>3
  <2>2. CASE j \notin js
    BY <1>3, <2>2
  <2> QED
    BY <2>1, <2>2
<1>8. RowsExist'
  <2> SUFFICES ASSUME NEW j \in Job, NEW n \in 1 .. Len(rows'[j])
               PROVE  status'[<<j, rows'[j][n]>>] # ""
    BY DEF RowsExist
  <2>1. CASE n \in 1 .. Len(rows[j]) /\ rows'[j][n] = rows[j][n]
    BY <1>5, <2>1
  <2>2. CASE j \in js /\ rows'[j][n] = Fresh(j)[2]
    BY <1>6, <2>2
  <2> QED
    BY <1>7, <2>1, <2>2
<1>9. RowsListed'
  <2> SUFFICES ASSUME NEW j \in Job, NEW m \in 1 .. RunsPerJob, status'[<<j, m>>] # ""
               PROVE  \E n \in 1 .. Len(rows'[j]) : rows'[j][n] = m
    BY DEF RowsListed
  <2>1. <<j, m>> \in Run /\ JobOf(<<j, m>>) = j
    BY DEF Run, JobOf
  <2>2. PICK size \in Nat : size = Len(rows[j])
    BY <1>2
  <2>3. CASE j \in js /\ <<j, m>> = Fresh(j)
    <3>1. m = Fresh(j)[2]
      <4>1. <<j, m>>[2] = m
        OBVIOUS
      <4> QED
        BY <2>3, <4>1
    <3>2. Len(rows'[j]) = size + 1 /\ rows'[j][size + 1] = Fresh(j)[2]
      BY <1>4, <2>2, <2>3
    <3>3. size + 1 \in 1 .. size + 1
      BY Numbers
    <3> QED
      BY <3>1, <3>2, <3>3
  <2>4. CASE ~ (j \in js /\ <<j, m>> = Fresh(j))
    <3>1. status[<<j, m>>] # ""
      BY <1>1, <2>1, <2>4
    <3>2. PICK n \in 1 .. size : rows[j][n] = m
      BY <2>2, <3>1 DEF HistoryInv, RowsListed
    <3>3. CASE j \in js
      <4>1. n \in 1 .. size + 1 /\ Len(rows'[j]) = size + 1
        BY <1>4, <2>2, <3>3, Numbers
      <4> QED
        BY <1>4, <2>2, <3>2, <3>3, <4>1
    <3>4. CASE j \notin js
      BY <1>3, <2>2, <3>2, <3>4
    <3> QED
      BY <3>3, <3>4
  <2> QED
    BY <2>3, <2>4
<1>10. RowsDiffer'
  <2> SUFFICES ASSUME NEW j \in Job, NEW n \in 1 .. Len(rows'[j]),
                      NEW other \in 1 .. Len(rows'[j]), rows'[j][n] = rows'[j][other]
               PROVE  n = other
    BY DEF RowsDiffer
  <2>1. \A m \in 1 .. Len(rows[j]) : j \in js => rows[j][m] # Fresh(j)[2]
    BY <1>5, <1>6
  <2> QED
    BY <1>7, <2>1 DEF HistoryInv, RowsDiffer
<1>11. RunningIsLatest'
  <2> SUFFICES ASSUME NEW j \in Job, NEW n \in 1 .. Len(rows'[j]),
                      status'[<<j, rows'[j][n]>>] = "RUNNING"
               PROVE  n = Len(rows'[j])
    BY DEF RunningIsLatest
  <2>1. CASE j \in js
    <3>1. ~ (n \in 1 .. Len(rows[j]) /\ rows'[j][n] = rows[j][n])
      <4> SUFFICES ASSUME n \in 1 .. Len(rows[j]), rows'[j][n] = rows[j][n] PROVE FALSE
        OBVIOUS
      <4>1. status[<<j, rows[j][n]>>] = "RUNNING"
        BY <1>5
      <4> QED
        BY <1>6, <2>1, <4>1
    <3> QED
      BY <1>4, <1>7, <2>1, <3>1
  <2>2. CASE j \notin js
    BY <1>3, <1>5, <2>2 DEF HistoryInv, RunningIsLatest
  <2> QED
    BY <2>1, <2>2
<1>12. LastStatusIsLatest'
  <2> SUFFICES ASSUME NEW j \in Job, NEW n \in 1 .. Len(rows'[j]),
                      status'[<<j, rows'[j][n]>>] # "RUNNING",
                      \A later \in n + 1 .. Len(rows'[j]) :
                        status'[<<j, rows'[j][later]>>] = "RUNNING"
               PROVE  lastStatus'[j] = status'[<<j, rows'[j][n]>>]
    BY DEF LastStatusIsLatest
  <2>1. n \in 1 .. Len(rows[j]) /\ rows'[j][n] = rows[j][n]
    BY <1>6, <1>7
  <2>2. ASSUME NEW later \in n + 1 .. Len(rows[j])
        PROVE  status[<<j, rows[j][later]>>] = "RUNNING"
    <3>1. PICK size \in Nat : size = Len(rows[j])
      BY <1>2
    <3>2. later \in 1 .. size /\ later \in n + 1 .. size + 1
      BY <2>1, <3>1
    <3>3. rows'[j][later] = rows[j][later] /\ later \in n + 1 .. Len(rows'[j])
      BY <1>3, <1>4, <3>1, <3>2
    <3> QED
      BY <1>5, <3>1, <3>2, <3>3
  <2>3. lastStatus[j] = status[<<j, rows[j][n]>>]
    BY <1>5, <2>1, <2>2 DEF HistoryInv, LastStatusIsLatest
  <2> QED
    BY <1>1, <1>5, <2>1, <2>3
<1> QED
  BY <1>8, <1>9, <1>10, <1>11, <1>12 DEF HistoryInv

\* Ending a run, which is then the latest of its job:
LEMMA HistoryFinalize ==
  ASSUME Typed, HistoryInv, NEW r \in Run, NEW outcome \in Terminal, FinalizeTx(r, outcome)
  PROVE  HistoryInv'
<1>1. CASE status[r] # "RUNNING"
  BY <1>1, HistorySame DEF FinalizeTx, table
<1>2. CASE status[r] = "RUNNING"
  <2>1. /\ \A other \in Run : other # r => status'[other] = status[other]
        /\ status'[r] = outcome
        /\ \A other \in Run : status'[other] # "" <=> status[other] # ""
        /\ rows' = rows
    BY <1>2, FinalizeTxEffect DEF Typed
  <2>2. PICK k \in Job, m \in 1 .. RunsPerJob : r = <<k, m>>
    BY DEF Run
  <2>a. outcome # "RUNNING"
    BY DEF Terminal
  <2>3. lastStatus'[k] = outcome /\ \A j \in Job : j # k => lastStatus'[j] = lastStatus[j]
    <3>1. lastStatus' = [lastStatus EXCEPT ![k] = outcome]
      BY <1>2, <2>2 DEF FinalizeTx, JobOf
    <3> QED
      BY <3>1 DEF Typed, TypeOK
  <2>4. \A j \in Job : /\ Len(rows[j]) \in Nat
                       /\ \A n \in 1 .. Len(rows[j]) : <<j, rows[j][n]>> \in Run
    BY LenProperties, ElementOfSeq DEF Typed, TypeOK, Run
  <2>5. PICK last \in 1 .. Len(rows[k]) : rows[k][last] = m
    BY <1>2, <2>2 DEF HistoryInv, RowsListed
  <2>6. last = Len(rows[k])
    BY <1>2, <2>2, <2>5 DEF HistoryInv, RunningIsLatest
  <2>7. RowsExist'
    BY <2>1, <2>4 DEF HistoryInv, RowsExist
  <2>8. RowsListed' /\ RowsDiffer'
    <3>1. \A j \in Job : \A i \in 1 .. RunsPerJob :
            status'[<<j, i>>] # "" => status[<<j, i>>] # ""
      BY <2>1 DEF Run
    <3>2. RowsListed'
      BY <2>1, <3>1 DEF HistoryInv, RowsListed
    <3> QED
      BY <2>1, <3>2 DEF HistoryInv, RowsDiffer
  <2>9. RunningIsLatest'
    BY <2>1, <2>a, <2>4 DEF HistoryInv, RunningIsLatest
  <2>10. LastStatusIsLatest'
    <3> SUFFICES ASSUME NEW j \in Job, NEW n \in 1 .. Len(rows[j]),
                        status'[<<j, rows[j][n]>>] # "RUNNING",
                        \A later \in n + 1 .. Len(rows[j]) :
                          status'[<<j, rows[j][later]>>] = "RUNNING"
                 PROVE  lastStatus'[j] = status'[<<j, rows[j][n]>>]
      BY <2>1 DEF LastStatusIsLatest
    <3>1. CASE j = k
      <4>1. status'[<<j, rows[j][last]>>] = outcome
        BY <2>1, <2>2, <2>5, <3>1
      <4>2. n = last
        <5>1. PICK size \in Nat : size = Len(rows[j])
          BY <2>4
        <5>2. last = size /\ n \in 1 .. size
          BY <2>6, <3>1, <5>1
        <5>3. last \notin n + 1 .. size
          BY <2>a, <4>1, <5>1
        <5> QED
          BY <5>2, <5>3
      <4> QED
        BY <2>3, <3>1, <4>1, <4>2
    <3>2. CASE j # k
      <4>1. \A i \in 1 .. Len(rows[j]) : status'[<<j, rows[j][i]>>] = status[<<j, rows[j][i]>>]
        <5> TAKE i \in 1 .. Len(rows[j])
        <5>1. <<j, rows[j][i]>> \in Run /\ <<j, rows[j][i]>> # r
          BY <2>2, <2>4, <3>2
        <5> QED
          BY <2>1, <5>1
      <4>2. \A later \in n + 1 .. Len(rows[j]) : later \in 1 .. Len(rows[j])
        BY <2>4
      <4> QED
        BY <2>3, <3>2, <4>1, <4>2 DEF HistoryInv, LastStatusIsLatest
    <3> QED
      BY <3>1, <3>2
  <2> QED
    BY <2>7, <2>8, <2>9, <2>10 DEF HistoryInv
<1> QED
  BY <1>1, <1>2

\* Deleting the oldest run, once it has ended:
LEMMA HistoryCleanup ==
  ASSUME Typed, HistoryInv, NEW j \in Job, Cleanup(j)
  PROVE  HistoryInv'
<1>1. PICK first \in 1 .. RunsPerJob : first = Head(rows[j])
  <2>1. rows[j] \in Seq(1 .. RunsPerJob) /\ rows[j] # <<>>
    BY DEF Cleanup, Typed, TypeOK
  <2> QED
    BY <2>1, HeadTailProperties
<1>2. /\ rows[j] \in Seq(1 .. RunsPerJob) /\ rows[j] # <<>>
      /\ status' = [status EXCEPT ![<<j, first>>] = ""]
      /\ rows' = [rows EXCEPT ![j] = Tail(rows[j])]
      /\ lastStatus' = lastStatus
      /\ <<j, first>> \in Run
  BY <1>1 DEF Cleanup, Typed, TypeOK, Run
<1>3. PICK size \in Nat : Len(rows[j]) = size + 1
  <2>1. Len(rows[j]) \in Nat /\ Len(rows[j]) # 0
    BY <1>2, EmptySeq, LenProperties
  <2>2. Len(rows[j]) - 1 \in Nat /\ Len(rows[j]) = (Len(rows[j]) - 1) + 1
    BY <2>1
  <2> QED
    BY <2>2
<1>4. /\ rows'[j] = Tail(rows[j]) /\ Len(rows'[j]) = size
      /\ \A n \in 1 .. size : rows'[j][n] = rows[j][n + 1]
      /\ \A other \in Job : other # j => rows'[other] = rows[other]
      /\ first = rows[j][1]
  <2>1. rows'[j] = Tail(rows[j]) /\ \A other \in Job : other # j => rows'[other] = rows[other]
    BY <1>2 DEF Typed, TypeOK
  <2>2. /\ Len(Tail(rows[j])) = Len(rows[j]) - 1
        /\ \A n \in 1 .. Len(Tail(rows[j])) : Tail(rows[j])[n] = rows[j][n + 1]
    BY <1>2, HeadTailProperties
  <2>3. Len(Tail(rows[j])) = size
    BY <1>3, <2>2
  <2>4. first = rows[j][1]
    BY <1>1, <1>2, HeadIsFirst
  <2> QED
    BY <2>1, <2>2, <2>3, <2>4
<1>5. \A k \in Job : /\ Len(rows[k]) \in Nat
                     /\ \A n \in 1 .. Len(rows[k]) : <<k, rows[k][n]>> \in Run
  BY LenProperties, ElementOfSeq DEF Typed, TypeOK, Run
<1>6. \A r \in Run : r # <<j, first>> => status'[r] = status[r]
  BY <1>2 DEF Typed, TypeOK
<1>7. \A n \in 1 .. size : /\ n + 1 \in 1 .. Len(rows[j])
                           /\ rows[j][n + 1] # first
                           /\ status'[<<j, rows'[j][n]>>] = status[<<j, rows[j][n + 1]>>]
  <2> TAKE n \in 1 .. size
  <2>1. n + 1 \in 1 .. Len(rows[j]) /\ 1 \in 1 .. Len(rows[j]) /\ n + 1 # 1
    BY <1>3
  <2>2. rows[j][n + 1] # first
    BY <1>4, <2>1 DEF HistoryInv, RowsDiffer
  <2>3. <<j, rows[j][n + 1]>> # <<j, first>> /\ <<j, rows[j][n + 1]>> \in Run
    BY <1>5, <2>1, <2>2
  <2> QED
    BY <1>4, <1>6, <2>1, <2>2, <2>3
<1>8. \A k \in Job : k # j => \A n \in 1 .. Len(rows[k]) :
        status'[<<k, rows'[k][n]>>] = status[<<k, rows[k][n]>>]
  BY <1>4, <1>5, <1>6
<1>9. RowsExist'
  <2> SUFFICES ASSUME NEW k \in Job, NEW n \in 1 .. Len(rows'[k])
               PROVE  status'[<<k, rows'[k][n]>>] # ""
    BY DEF RowsExist
  <2>1. CASE k = j
    <3>1. n \in 1 .. size
      BY <1>4, <2>1
    <3>2. status[<<j, rows[j][n + 1]>>] # ""
      BY <1>7, <3>1 DEF HistoryInv, RowsExist
    <3> QED
      BY <1>7, <2>1, <3>1, <3>2
  <2>2. CASE k # j
    <3>1. n \in 1 .. Len(rows[k])
      BY <1>4, <2>2
    <3>2. status[<<k, rows[k][n]>>] # ""
      BY <3>1 DEF HistoryInv, RowsExist
    <3> QED
      BY <1>8, <2>2, <3>1, <3>2
  <2> QED
    BY <2>1, <2>2
<1>10. RowsListed'
  <2> SUFFICES ASSUME NEW k \in Job, NEW m \in 1 .. RunsPerJob, status'[<<k, m>>] # ""
               PROVE  \E n \in 1 .. Len(rows'[k]) : rows'[k][n] = m
    BY DEF RowsListed
  <2>1. <<k, m>> # <<j, first>> /\ status[<<k, m>>] # ""
    <3>1. status'[<<j, first>>] = "" /\ <<k, m>> \in Run
      BY <1>2 DEF Typed, TypeOK, Run
    <3> QED
      BY <1>6, <3>1
  <2>2. PICK n \in 1 .. Len(rows[k]) : rows[k][n] = m
    BY <2>1 DEF HistoryInv, RowsListed
  <2>3. CASE k = j
    <3>1. n \in 1 .. size + 1 /\ n # 1
      BY <1>3, <1>4, <2>1, <2>2, <2>3
    <3>2. PICK before \in 1 .. size : before + 1 = n
      <4>1. n - 1 \in 1 .. size /\ (n - 1) + 1 = n
        BY <3>1, Numbers
      <4> QED
        BY <4>1
    <3>3. rows'[j][before] = m /\ before \in 1 .. Len(rows'[j])
      BY <1>4, <2>2, <2>3, <3>2
    <3> QED
      BY <2>3, <3>3
  <2>4. CASE k # j
    BY <1>4, <2>2, <2>4
  <2> QED
    BY <2>3, <2>4
<1>11. RowsDiffer'
  <2> SUFFICES ASSUME NEW k \in Job, NEW n \in 1 .. Len(rows'[k]),
                      NEW other \in 1 .. Len(rows'[k]), rows'[k][n] = rows'[k][other]
               PROVE  n = other
    BY DEF RowsDiffer
  <2>1. CASE k = j
    <3>1. n \in 1 .. size /\ other \in 1 .. size
      BY <1>4, <2>1
    <3>2. rows[j][n + 1] = rows[j][other + 1]
      BY <1>4, <2>1, <3>1
    <3>3. n + 1 = other + 1
      BY <1>7, <3>1, <3>2 DEF HistoryInv, RowsDiffer
    <3> QED
      BY <3>1, <3>3
  <2>2. CASE k # j
    BY <1>4, <2>2 DEF HistoryInv, RowsDiffer
  <2> QED
    BY <2>1, <2>2
<1>12. RunningIsLatest'
  <2> SUFFICES ASSUME NEW k \in Job, NEW n \in 1 .. Len(rows'[k]),
                      status'[<<k, rows'[k][n]>>] = "RUNNING"
               PROVE  n = Len(rows'[k])
    BY DEF RunningIsLatest
  <2>1. CASE k = j
    <3>1. n \in 1 .. size
      BY <1>4, <2>1
    <3>2. n + 1 = size + 1
      BY <1>3, <1>7, <2>1, <3>1 DEF HistoryInv, RunningIsLatest
    <3>3. n = size
      BY <3>1, <3>2
    <3> QED
      BY <1>4, <2>1, <3>3
  <2>2. CASE k # j
    BY <1>4, <1>8, <2>2 DEF HistoryInv, RunningIsLatest
  <2> QED
    BY <2>1, <2>2
<1>13. LastStatusIsLatest'
  <2> SUFFICES ASSUME NEW k \in Job, NEW n \in 1 .. Len(rows'[k]),
                      status'[<<k, rows'[k][n]>>] # "RUNNING",
                      \A later \in n + 1 .. Len(rows'[k]) :
                        status'[<<k, rows'[k][later]>>] = "RUNNING"
               PROVE  lastStatus'[k] = status'[<<k, rows'[k][n]>>]
    BY DEF LastStatusIsLatest
  <2>1. CASE k = j
    <3>1. n \in 1 .. size /\ n + 1 \in 1 .. Len(rows[j])
      BY <1>4, <1>7, <2>1
    <3>2. ASSUME NEW later \in (n + 1) + 1 .. Len(rows[j])
          PROVE  status[<<j, rows[j][later]>>] = "RUNNING"
      <4>1. later - 1 \in n + 1 .. size /\ later - 1 \in 1 .. size /\ (later - 1) + 1 = later
        BY <1>3, <3>1
      <4>2. later - 1 \in n + 1 .. Len(rows'[k])
        BY <1>4, <2>1, <4>1
      <4> QED
        BY <1>7, <2>1, <4>1, <4>2
    <3>3. status[<<j, rows[j][n + 1]>>] # "RUNNING"
      BY <1>7, <2>1, <3>1
    <3>4. lastStatus[j] = status[<<j, rows[j][n + 1]>>]
      BY <3>1, <3>2, <3>3 DEF HistoryInv, LastStatusIsLatest
    <3> QED
      BY <1>2, <1>7, <2>1, <3>1, <3>4
  <2>2. CASE k # j
    <3>1. rows'[k] = rows[k] /\ n \in 1 .. Len(rows[k]) /\ Len(rows[k]) \in Nat
      BY <1>4, <1>5, <2>2
    <3>2. \A later \in n + 1 .. Len(rows[k]) : later \in 1 .. Len(rows[k])
      BY <3>1
    <3>3. \A later \in n + 1 .. Len(rows[k]) : status[<<k, rows[k][later]>>] = "RUNNING"
      BY <1>8, <2>2, <3>1, <3>2
    <3>4. status[<<k, rows[k][n]>>] # "RUNNING"
      BY <1>8, <2>2, <3>1
    <3>5. lastStatus[k] = status[<<k, rows[k][n]>>]
      BY <3>1, <3>3, <3>4 DEF HistoryInv, LastStatusIsLatest
    <3> QED
      BY <1>2, <1>8, <2>2, <3>1, <3>5
  <2> QED
    BY <2>1, <2>2
<1> QED
  BY <1>9, <1>10, <1>11, <1>12, <1>13 DEF HistoryInv

LEMMA HistoryInit == Init => HistoryInv
<1> SUFFICES ASSUME Init PROVE HistoryInv
  OBVIOUS
<1>1. \A j \in Job : \A n \in 1 .. Len(rows[j]) : FALSE
  <2>1. \A j \in Job : rows[j] = <<>>
    BY DEF Init
  <2>2. Len(<<>>) = 0 /\ 1 .. 0 = {}
    OBVIOUS
  <2> QED
    BY <2>1, <2>2
<1>2. \A j \in Job : \A m \in 1 .. RunsPerJob : status[<<j, m>>] = ""
  BY DEF Init, Run
<1>3. RowsExist /\ RowsDiffer /\ RunningIsLatest /\ LastStatusIsLatest
  BY <1>1 DEF RowsExist, RowsDiffer, RunningIsLatest, LastStatusIsLatest
<1>4. RowsListed
  BY <1>2 DEF RowsListed
<1> QED
  BY <1>3, <1>4 DEF HistoryInv

LEMMA HistoryNext == Typed /\ HistoryInv /\ [Next]_vars => HistoryInv'
<1> SUFFICES ASSUME Typed, HistoryInv, [Next]_vars PROVE HistoryInv'
  OBVIOUS
<1>1. CASE UNCHANGED vars
  BY <1>1, HistorySame DEF vars, table
<1>2. ASSUME NEW j \in Job, JobStep(j)
      PROVE  HistoryInv'
  BY <1>2, HistorySame, HistoryCleanup DEF JobStep, CronPasses, UpdateConfig, table
<1>3. ASSUME NEW r \in Run, RunStep(r)
      PROVE  HistoryInv'
  <2>1. exec[r].outcome # "" => exec[r].outcome \in Terminal
    BY TypedGoroutine
  <2>2. CASE exec[r].outcome # "" /\ FinalizeTx(r, exec[r].outcome)
    BY <2>1, <2>2, HistoryFinalize
  <2> QED
    BY <1>3, <2>2, HistorySame DEF RunStep, Attempt, Finalize, FinalizeError, Expire, table
<1>4. ASSUME NEW p \in Replica, TickStep(p)
      PROVE  HistoryInv'
  <2>1. ASSUME NEW broken \in SUBSET held[p], ClaimTx(p, broken)
        PROVE  HistoryInv'
    <3>1. InsertRuns(Startable(p, broken))
      BY <2>1 DEF ClaimTx
    <3>2. \A j \in Startable(p, broken) : Running(j) = {}
      BY DEF Startable
    <3>3. Startable(p, broken) \in SUBSET Job
      BY <2>1, ClaimTxTyped
    <3> QED
      BY <3>1, <3>2, <3>3, HistoryInsert
  <2>2. {} \in SUBSET held[p]
    OBVIOUS
  <2> QED
    BY <1>4, <2>1, <2>2, HistorySame
    DEF TickStep, TickReserve, LockDue, ClaimDue, ClaimAnswerLost, ClaimError, table
<1>5. ASSUME NEW p \in Replica, NEW j \in Job, ManualStep(p, j)
      PROVE  HistoryInv'
  <2>1. CASE ~ IndexRefuses(j) /\ InsertRuns({j})
    BY <2>1, HistoryInsert DEF IndexRefuses
  <2> QED
    BY <1>5, <2>1, HistorySame
    DEF ManualStep, RunNowReserve, StartManual, RefuseManual, ManualError, table
<1>6. ASSUME NEW p \in Replica, ReapStep(p)
      PROVE  HistoryInv'
  <2>1. ASSUME NEW r \in Run, ReapOne(p, r)
        PROVE  HistoryInv'
    <3>1. FinalizeTx(r, "TIMED_OUT") /\ "TIMED_OUT" \in Terminal
      BY <2>1 DEF ReapOne, Terminal
    <3> QED
      BY <3>1, HistoryFinalize
  <2> QED
    BY <1>6, <2>1, HistorySame DEF ReapStep, ReapList, ReapError, table
<1>7. ASSUME NEW p \in Replica, ProcessStep(p)
      PROVE  HistoryInv'
  BY <1>7, HistorySame DEF ProcessStep, Shutdown, Drain, Exit, Crash, Gone, Start, table
<1> QED
  BY <1>1, <1>2, <1>3, <1>4, <1>5, <1>6, <1>7 DEF Next

\* An answer that comes after its run was reaped, however late, never overwrites what
\* a later run of the job has recorded: only a RUNNING run is closed, and the RUNNING
\* run is the latest (finalizeTx, the index uq_plt_scheduled_job_runs_running).
THEOREM LateAnswersAreIgnored == Spec => []LastStatusIsLatest
<1>1. HistoryInv => LastStatusIsLatest
  BY DEF HistoryInv
<1>2. Spec => []Typed
  BY InitTyped, NextTyped, PTL DEF Spec
<1> QED
  BY <1>1, <1>2, HistoryInit, HistoryNext, PTL DEF Spec

=============================================================================
