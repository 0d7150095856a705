--------------------------- MODULE EndOfDayProofs ---------------------------
(***************************************************************************)
(* Theorems about EndOfDay, for any number of replicas, sessions, tenants, *)
(* steps, dates and faults: its types, the exclusion of its runs, the      *)
(* agreement of a run's row with the calendar, that it implements          *)
(* BusinessDays, and that what is DONE stays so and is not asked again.    *)
(***************************************************************************)
EXTENDS EndOfDay, TLAPS

---------------------------------------------------------------------------
\* Types.

LEMMA Dates ==
  /\ 1 \in 1 .. LastDate
  /\ \A d \in 1 .. LastDate : d \in Date /\ d + 1 \in Date
BY BoundsAssumption DEF Date

States == [Task -> {"", "DONE", "FAILED", "SKIPPED"}]

LEMMA UnvisitedType == Unvisited \in States
BY DEF Unvisited, States

LEMMA FaultType ==
  ASSUME faults \in 0 .. MaxFaults, Fault
  PROVE  faults' \in 0 .. MaxFaults
BY BoundsAssumption DEF Fault

LEMMA TypeInit == Init => TypeOK
<1> SUFFICES ASSUME Init PROVE TypeOK
  OBVIOUS
<1>1. states \in [Run -> States]
  BY UnvisitedType DEF Init
<1>2. date \in Date /\ eodRun \in [Date -> {"", "RUNNING", "FAILED", "SUCCEEDED"}]
  BY Dates DEF Init
<1>3. checkpoint \in [Date \X Task -> {"", "RUNNING", "DONE", "FAILED", "SKIPPED"}]
  BY DEF Init
<1>4. lock \in [Date -> Session \cup {NoSession}] /\ conn \in [Run -> Session \cup {NoSession}]
  BY DEF Init
<1>5. pc \in [Run -> Working \cup {"idle", "lock"}] /\ day \in [Run -> 1 .. LastDate]
  BY Dates DEF Init
<1>6. answer \in [Run -> {"DONE", "FAILED"}]
  BY DEF Init
<1>9. faults \in 0 .. MaxFaults
  <2>1. faults = 0
    BY DEF Init
  <2> QED
    BY <2>1, BoundsAssumption
<1>7. split \in BOOLEAN /\ gate \in {"OPEN", "EOD_PROCESSING"}
  BY DEF Init
<1>8. executed \subseteq Date \X Task /\ loose \subseteq Date \X Task
  BY DEF Init
<1> QED
  BY <1>1, <1>2, <1>3, <1>4, <1>5, <1>6, <1>7, <1>8, <1>9 DEF TypeOK, States

\* The calls, the lock and the gate.
LEMMA TypeStart ==
  ASSUME TypeOK, NEW r \in Run,
         \/ Call(r) \/ Acquire(r) \/ Refuse(r) \/ AlreadySucceeded(r) \/ NotSucceeded(r)
         \/ BeginEOD(r) \/ VerifyDate(r) \/ RecordRun(r)
  PROVE  TypeOK'
<1> USE DEF Goto, Working, calendar, records, owners, history
<1>1. CASE Call(r)
  <2>1. date \in 1 .. LastDate
    <3>1. date \in Date /\ date <= LastDate
      BY <1>1 DEF Call, TypeOK
    <3> QED
      BY <3>1, BoundsAssumption DEF Date
  <2>2. day' \in [Run -> 1 .. LastDate]
    BY <1>1, <2>1 DEF Call, TypeOK
  <2>3. states' \in [Run -> States]
    <3>1. states \in [Run -> States]
      BY DEF TypeOK, States
    <3> QED
      BY <1>1, <3>1, UnvisitedType DEF Call
  <2>4. pc' \in [Run -> Working \cup {"idle", "lock"}] /\ answer' \in [Run -> {"DONE", "FAILED"}]
    BY <1>1 DEF Call, TypeOK
  <2> QED
    BY <1>1, <2>2, <2>3, <2>4 DEF Call, TypeOK, States
<1>2. CASE Acquire(r)
  <2>1. PICK s \in Pooled(r) : /\ lock' = [lock EXCEPT ![day[r]] = s]
                               /\ conn' = [conn EXCEPT ![r] = s]
    BY <1>2 DEF Acquire
  <2>2. s \in Session
    BY ProcessesAssumption DEF Pooled
  <2>3. lock' \in [Date -> Session \cup {NoSession}]
    BY <2>1, <2>2, Dates DEF TypeOK
  <2>4. conn' \in [Run -> Session \cup {NoSession}]
    BY <2>1, <2>2 DEF TypeOK
  <2>5. pc' \in [Run -> Working \cup {"idle", "lock"}]
    BY <1>2 DEF Acquire, TypeOK
  <2> QED
    BY <1>2, <2>3, <2>4, <2>5 DEF Acquire, TypeOK
<1>3. CASE Refuse(r)
  BY <1>3 DEF Refuse, TypeOK
<1>4. CASE AlreadySucceeded(r)
  BY <1>4 DEF AlreadySucceeded, Return, TypeOK
<1>5. CASE NotSucceeded(r)
  BY <1>5 DEF NotSucceeded, TypeOK
<1>6. CASE BeginEOD(r)
  BY <1>6 DEF BeginEOD, TypeOK
<1>7. CASE VerifyDate(r)
  BY <1>7 DEF VerifyDate, TypeOK
<1>8. CASE RecordRun(r)
  BY <1>8 DEF RecordRun, TypeOK
<1> QED BY <1>1, <1>2, <1>3, <1>4, <1>5, <1>6, <1>7, <1>8

\* What is stored about a task: its outcome, its checkpoint, its execution.
LEMMA TaskTypes ==
  ASSUME TypeOK, NEW r \in Run, NEW k \in Task
  PROVE  /\ \A status \in {"DONE", "FAILED", "SKIPPED"} :
              [states EXCEPT ![r][k] = status] \in [Run -> States]
         /\ \A status \in {"RUNNING", "DONE", "FAILED", "SKIPPED"} :
              [checkpoint EXCEPT ![<<day[r], k>>] = status]
                \in [Date \X Task -> {"", "RUNNING", "DONE", "FAILED", "SKIPPED"}]
         /\ <<day[r], k>> \in Date \X Task
<1>1. <<day[r], k>> \in Date \X Task
  BY Dates DEF TypeOK
<1>2. ASSUME NEW status \in {"DONE", "FAILED", "SKIPPED"}
      PROVE  [states EXCEPT ![r][k] = status] \in [Run -> States]
  <2>1. [states[r] EXCEPT ![k] = status] \in States
    BY DEF TypeOK, States
  <2> QED
    BY <2>1 DEF TypeOK, States
<1>3. ASSUME NEW status \in {"RUNNING", "DONE", "FAILED", "SKIPPED"}
      PROVE  [checkpoint EXCEPT ![<<day[r], k>>] = status]
                \in [Date \X Task -> {"", "RUNNING", "DONE", "FAILED", "SKIPPED"}]
  BY <1>1 DEF TypeOK
<1> QED BY <1>1, <1>2, <1>3

\* One task, handled or lost.
LEMMA TypeTask ==
  ASSUME TypeOK, NEW r \in Run,
         \/ Skip(r) \/ AlreadyDone(r) \/ GiveUp(r) \/ Choose(r) \/ StartJobRun(r)
         \/ Succeed(r) \/ ReportFailure(r) \/ CallLost(r) \/ MarkRun(r) \/ MarkFails(r)
  PROVE  TypeOK'
<1> USE DEF Goto, Working, calendar, records, owners, history, Outcome
<1>0. ASSUME NEW k \in Task,
             \E status \in {"DONE", "FAILED", "SKIPPED"} :
               states' = [states EXCEPT ![r][k] = status]
      PROVE  states' \in [Run -> States]
  <2>1. PICK status \in {"DONE", "FAILED", "SKIPPED"} : states' = [states EXCEPT ![r][k] = status]
    BY <1>0
  <2>2. [states EXCEPT ![r][k] = status] \in [Run -> States]
    BY TaskTypes
  <2> QED
    BY <2>1, <2>2
<1>1. CASE Skip(r)
  <2>1. PICK k \in Task : /\ checkpoint' = [checkpoint EXCEPT ![<<day[r], k>>] = "SKIPPED"]
                          /\ states' = [states EXCEPT ![r][k] = "SKIPPED"]
                          /\ Outcome(r, k, "SKIPPED")
    BY <1>1 DEF Skip, Outcome
  <2>2. states' \in [Run -> States]
    BY <2>1, <1>0
  <2> QED
    BY <1>1, <2>1, <2>2, TaskTypes DEF Skip, TypeOK, States
<1>2. CASE AlreadyDone(r)
  <2>1. PICK k \in Task : Outcome(r, k, "DONE")
    BY <1>2 DEF AlreadyDone
  <2>2. states' \in [Run -> States]
    BY <2>1, <1>0
  <2> QED
    BY <1>2, <2>1, <2>2 DEF AlreadyDone, TypeOK, States
<1>3. CASE GiveUp(r)
  <2>1. PICK k \in Task : Outcome(r, k, "FAILED")
    BY <1>3 DEF GiveUp
  <2>2. states' \in [Run -> States]
    BY <2>1, <1>0
  <2> QED
    BY <1>3, <2>1, <2>2 DEF GiveUp, TypeOK, States
<1>4. CASE Choose(r)
  BY <1>4 DEF Choose, TypeOK
<1>5. CASE StartJobRun(r)
  <2>1. PICK k \in Task : checkpoint' = [checkpoint EXCEPT ![<<day[r], k>>] = "RUNNING"]
    BY <1>5 DEF StartJobRun
  <2> QED
    BY <1>5, <2>1, TaskTypes DEF StartJobRun, TypeOK
<1>6. CASE Succeed(r)
  <2>1. PICK k \in Task : executed' = executed \cup {<<day[r], k>>}
    BY <1>6 DEF Succeed
  <2> QED
    BY <1>6, <2>1, TaskTypes DEF Succeed, TypeOK
<1>7. CASE ReportFailure(r)
  BY <1>7, FaultType DEF ReportFailure, TypeOK
<1>8. CASE CallLost(r)
  <2>1. PICK k \in Task : loose' = loose \cup {<<day[r], k>>}
    BY <1>8 DEF CallLost
  <2> QED
    BY <1>8, <2>1, TaskTypes, FaultType DEF CallLost, TypeOK
<1>9. CASE MarkRun(r)
  <2>1. PICK k \in Task : /\ checkpoint' = [checkpoint EXCEPT ![<<day[r], k>>] = answer[r]]
                          /\ Outcome(r, k, answer[r])
    BY <1>9 DEF MarkRun
  <2>2. answer[r] \in {"DONE", "FAILED"}
    BY DEF TypeOK
  <2>3. states' \in [Run -> States]
    BY <2>1, <2>2, <1>0
  <2>4. checkpoint' \in [Date \X Task -> {"", "RUNNING", "DONE", "FAILED", "SKIPPED"}]
    BY <2>1, <2>2, TaskTypes
  <2> QED
    BY <1>9, <2>1, <2>3, <2>4 DEF MarkRun, TypeOK, States
<1>10. CASE MarkFails(r)
  <2>1. PICK k \in Task : states' = [states EXCEPT ![r][k] = "FAILED"]
    BY <1>10 DEF MarkFails
  <2>2. states' \in [Run -> States]
    BY <2>1, <1>0
  <2> QED
    BY <1>10, <2>2, FaultType DEF MarkFails, TypeOK, States
<1> QED BY <1>1, <1>2, <1>3, <1>4, <1>5, <1>6, <1>7, <1>8, <1>9, <1>10

LEMMA FailRunType ==
  ASSUME TypeOK, NEW d \in Date, FailRun(d)
  PROVE  eodRun' \in [Date -> {"", "RUNNING", "FAILED", "SUCCEEDED"}]
BY DEF FailRun, TypeOK

\* The end of a run.
LEMMA TypeEnd ==
  ASSUME TypeOK, NEW r \in Run,
         \/ FailEOD(r) \/ CompleteEOD(r) \/ CompleteUnseen(r) \/ CompleteRefused(r)
         \/ ReleaseEOD(r) \/ ReleaseFails(r)
  PROVE  TypeOK'
<1> USE DEF Goto, Working, calendar, records, owners, history
<1>0. day[r] \in 1 .. LastDate /\ day[r] \in Date
  BY Dates DEF TypeOK
<1>1. CASE FailEOD(r)
  BY <1>0, <1>1, FailRunType DEF FailEOD, TypeOK
<1>2. ASSUME Advance(r)
      PROVE  /\ date' \in Date /\ gate' \in {"OPEN", "EOD_PROCESSING"}
             /\ eodRun' \in [Date -> {"", "RUNNING", "FAILED", "SUCCEEDED"}]
  <2>1. date = day[r] /\ date' = date + 1 /\ gate' = "OPEN"
    BY <1>2 DEF Advance, Completable
  <2>2. eodRun' = [eodRun EXCEPT ![day[r]] = "SUCCEEDED"]
    BY <1>2 DEF Advance
  <2> QED
    BY <1>0, <2>1, <2>2, Dates DEF TypeOK
<1>3. CASE CompleteEOD(r)
  <2>1. Advance(r)
    BY <1>3 DEF CompleteEOD
  <2> QED
    BY <1>3, <1>2, <2>1 DEF CompleteEOD, Return, TypeOK
<1>4. CASE CompleteUnseen(r)
  <2>1. Advance(r)
    BY <1>4 DEF CompleteUnseen
  <2> QED
    BY <1>4, <1>2, <2>1, FaultType DEF CompleteUnseen, TypeOK
<1>5. CASE CompleteRefused(r)
  BY <1>0, <1>5, FailRunType DEF CompleteRefused, TypeOK
<1>6. CASE ReleaseEOD(r)
  BY <1>6 DEF ReleaseEOD, Return, TypeOK
<1>7. CASE ReleaseFails(r)
  BY <1>7, FaultType DEF ReleaseFails, Return, TypeOK
<1> QED BY <1>1, <1>3, <1>4, <1>5, <1>6, <1>7

LEMMA UnlockType ==
  ASSUME TypeOK, NEW S, Unlock(S)
  PROVE  lock' \in [Date -> Session \cup {NoSession}]
BY DEF Unlock, TypeOK

LEMMA OrphanType ==
  ASSUME TypeOK, NEW R, Orphan(R)
  PROVE  loose' \subseteq Date \X Task
BY DEF Orphan, TypeOK

\* Failures, and what goes on without a run.
LEMMA TypeFailures ==
  ASSUME TypeOK,
         \/ \E r \in Run : Abort(r) \/ LoseSession(r)
         \/ \E s \in Session : CloseIdle(s)
         \/ \E p \in Process : Crash(p)
         \/ \E x \in loose : ExecuteLate(x)
         \/ UNCHANGED vars
  PROVE  TypeOK'
<1> USE DEF Goto, Working, calendar, records, owners, history
<1>1. ASSUME NEW r \in Run, Abort(r) PROVE TypeOK'
  <2>0. day[r] \in Date /\ faults' \in 0 .. MaxFaults
    BY <1>1, Dates, FaultType DEF Abort, TypeOK
  <2>1. CASE pc[r] \in {"lock", "check", "begin", "verify"}
    BY <1>1, <2>0, <2>1 DEF Abort, Return, TypeOK
  <2>2. CASE pc[r] \in {"record", "steps", "start", "call", "mark"}
    <3>1. eodRun' \in [Date -> {"", "RUNNING", "FAILED", "SUCCEEDED"}]
      BY <1>1, <2>0, <2>2, FailRunType DEF Abort, TypeOK
    <3>2. loose' \subseteq Date \X Task
      BY <1>1, <2>2, OrphanType DEF Abort
    <3>3. pc' = [pc EXCEPT ![r] = "release"] /\ conn' = conn
      BY <1>1, <2>2 DEF Abort
    <3> QED
      BY <1>1, <2>0, <3>1, <3>2, <3>3 DEF Abort, TypeOK
  <2> QED
    BY <1>1, <2>1, <2>2 DEF Abort
<1>2. ASSUME NEW r \in Run, LoseSession(r) PROVE TypeOK'
  BY <1>2, UnlockType, FaultType DEF LoseSession, TypeOK
<1>3. ASSUME NEW s \in Session, CloseIdle(s) PROVE TypeOK'
  BY <1>3, UnlockType DEF CloseIdle, TypeOK
<1>4. ASSUME NEW p \in Process, Crash(p) PROVE TypeOK'
  <2>1. loose' \subseteq Date \X Task
    BY <1>4, OrphanType DEF Crash
  <2>2. lock' \in [Date -> Session \cup {NoSession}]
    BY <1>4, UnlockType DEF Crash
  <2>3. faults' \in 0 .. MaxFaults
    BY <1>4, FaultType DEF Crash, TypeOK
  <2>4. pc' \in [Run -> Working \cup {"idle", "lock"}] /\ conn' \in [Run -> Session \cup {NoSession}]
    BY <1>4 DEF Crash, TypeOK
  <2> QED
    BY <1>4, <2>1, <2>2, <2>3, <2>4 DEF Crash, TypeOK
<1>5. ASSUME NEW x \in loose, ExecuteLate(x) PROVE TypeOK'
  BY <1>5 DEF ExecuteLate, TypeOK
<1>6. CASE UNCHANGED vars
  BY <1>6 DEF vars, TypeOK
<1> QED BY <1>1, <1>2, <1>3, <1>4, <1>5, <1>6

LEMMA TypeNext == TypeOK /\ [Next]_vars => TypeOK'
BY TypeStart, TypeTask, TypeEnd, TypeFailures DEF Next, Rest, RunStep, RunFault

\* Every variable of the end-of-day keeps its type: no run leaves the calendar,
\* a checkpoint or a lock in a state the code does not know.
THEOREM TypeCorrect == Spec => []TypeOK
  BY TypeInit, TypeNext, PTL DEF Spec

---------------------------------------------------------------------------
\* The calendar and the runs' rows.

LEMMA CalendarInit == Init => SucceededDatesAreLeft
<1> SUFFICES ASSUME Init, NEW d \in Date PROVE eodRun[d] = "SUCCEEDED" <=> d < date
  BY DEF SucceededDatesAreLeft
<1>1. eodRun[d] # "SUCCEEDED" /\ date = 1
  BY DEF Init
<1>2. ~ d < 1
  BY BoundsAssumption DEF Date
<1> QED
  BY <1>1, <1>2

LEMMA AdvanceKeepsCalendar ==
  ASSUME TypeOK, SucceededDatesAreLeft, NEW r \in Run, Advance(r)
  PROVE  SucceededDatesAreLeft'
<1>1. day[r] \in Date /\ date = day[r] /\ date' = date + 1
  BY Dates DEF Advance, Completable, TypeOK
<1>2. eodRun' = [eodRun EXCEPT ![date] = "SUCCEEDED"]
  BY <1>1 DEF Advance
<1>3. date \in Int /\ \A d \in Date : d \in Int
  BY <1>1, BoundsAssumption DEF Date
<1>4. ASSUME NEW d \in Date PROVE eodRun'[d] = "SUCCEEDED" <=> d < date'
  <2>1. CASE d = date
    <3>1. eodRun'[d] = "SUCCEEDED"
      BY <1>1, <1>2, <2>1 DEF TypeOK
    <3> QED
      BY <1>1, <1>3, <2>1, <3>1
  <2>2. CASE d # date
    <3>1. eodRun'[d] = eodRun[d]
      BY <1>2, <2>2 DEF TypeOK
    <3> QED
      BY <1>1, <1>3, <2>2, <3>1 DEF SucceededDatesAreLeft
  <2> QED BY <2>1, <2>2
<1> QED BY <1>4 DEF SucceededDatesAreLeft

\* Nothing else makes or unmakes a SUCCEEDED row, or moves the date.
LEMMA RowEffects ==
  ASSUME TypeOK, [Next]_vars
  PROVE  \/ \E r \in Run : Advance(r)
         \/ /\ date' = date
            /\ \A d \in Date : eodRun'[d] = "SUCCEEDED" <=> eodRun[d] = "SUCCEEDED"
<1> USE DEF calendar, records, Outcome
<1>0. \A d \in Date : FailRun(d) =>
        \A c \in Date : eodRun'[c] = "SUCCEEDED" <=> eodRun[c] = "SUCCEEDED"
  BY DEF FailRun, TypeOK
<1>1. ASSUME NEW r \in Run, RecordRun(r)
      PROVE  \A c \in Date : eodRun'[c] = "SUCCEEDED" <=> eodRun[c] = "SUCCEEDED"
  BY <1>1 DEF RecordRun, TypeOK
<1>2. \A r \in Run : day[r] \in Date
  BY Dates DEF TypeOK
<1>3. ASSUME NEW r \in Run, Call(r) \/ RunStep(r)
      PROVE  \/ Advance(r)
             \/ /\ date' = date
                /\ \A d \in Date : eodRun'[d] = "SUCCEEDED" <=> eodRun[d] = "SUCCEEDED"
  BY <1>0, <1>1, <1>2, <1>3 DEF RunStep, Call, Acquire, Refuse, AlreadySucceeded, NotSucceeded,
     BeginEOD, VerifyDate, RecordRun, Skip, AlreadyDone, GiveUp, Choose, StartJobRun, Succeed,
     MarkRun, FailEOD, CompleteEOD, CompleteRefused, ReleaseEOD
<1>4. ASSUME NEW r \in Run, RunFault(r)
      PROVE  \/ Advance(r)
             \/ /\ date' = date
                /\ \A d \in Date : eodRun'[d] = "SUCCEEDED" <=> eodRun[d] = "SUCCEEDED"
  BY <1>0, <1>2, <1>4 DEF RunFault, ReportFailure, CallLost, MarkFails, CompleteUnseen,
     ReleaseFails, Abort, LoseSession
<1> QED
  BY <1>3, <1>4 DEF Next, Rest, vars, ExecuteLate, CloseIdle, Crash

\* The dates whose run SUCCEEDED are those the calendar has left: the run's row
\* and the SYSTEM date move in one transaction (CompleteEOD), and no later run,
\* refusal or crash takes a success back.
THEOREM RowsAgreeWithCalendar == Spec => []SucceededDatesAreLeft
<1>1. TypeOK /\ SucceededDatesAreLeft /\ [Next]_vars => SucceededDatesAreLeft'
  BY RowEffects, AdvanceKeepsCalendar DEF SucceededDatesAreLeft
<1> QED
  BY CalendarInit, <1>1, TypeCorrect, PTL DEF Spec

---------------------------------------------------------------------------
\* Exclusion.

\* A run at work has a session of its own that, unless one was lost, holds the
\* lock of its date.
LockInv ==
  /\ \A r \in Run : Active(r) => conn[r] \in SessionsOf[ProcessOf[r]]
  /\ \A q, r \in Run : q # r /\ Active(q) /\ Active(r) => conn[q] # conn[r]
  /\ ~ split => \A r \in Run : Active(r) => lock[day[r]] = conn[r]

LEMMA LockInit == Init => LockInv
BY DEF Init, LockInv, Active, Working

\* A step that starts no work and leaves the locks alone.
Keeps ==
  /\ UNCHANGED <<lock, split>>
  /\ \A r \in Run : Active(r)' => Active(r) /\ conn'[r] = conn[r] /\ day'[r] = day[r]

LEMMA KeepsExclusion == LockInv /\ Keeps => LockInv'
BY DEF LockInv, Keeps

LEMMA AcquireExcludes ==
  ASSUME TypeOK, LockInv, NEW r \in Run, Acquire(r)
  PROVE  LockInv'
<1>1. PICK s \in Pooled(r) : /\ lock[day[r]] \in {NoSession, s}
                             /\ lock' = [lock EXCEPT ![day[r]] = s]
                             /\ conn' = [conn EXCEPT ![r] = s]
  BY DEF Acquire
<1>2. /\ s \in SessionsOf[ProcessOf[r]] /\ s # NoSession
      /\ \A q \in Run : conn[q] # s
  BY ProcessesAssumption DEF Pooled, InUse
<1>3. day' = day /\ split' = split /\ ~ Active(r)
  BY DEF Acquire, calendar, history, Active, Working
<1>4. \A q \in Run \ {r} : Active(q)' => Active(q) /\ conn'[q] = conn[q]
  BY <1>1 DEF Acquire, Goto, Active, TypeOK
<1>5. conn'[r] = s
  BY <1>1 DEF TypeOK
<1>6. \A q \in Run : day[q] \in Date /\ (Active(q) => conn[q] # NoSession)
  <2>1. \A q \in Run : day[q] \in Date
    BY Dates DEF TypeOK
  <2>2. \A q \in Run : NoSession \notin SessionsOf[ProcessOf[q]]
    BY ProcessesAssumption
  <2> QED
    BY <2>1, <2>2 DEF LockInv
<1>7. ASSUME ~ split, NEW q \in Run \ {r}, Active(q)
      PROVE  day[q] # day[r] /\ lock'[day[q]] = conn[q]
  <2>1. lock[day[q]] = conn[q]
    BY <1>7 DEF LockInv
  <2>2. day[q] # day[r]
    BY <1>1, <1>2, <1>6, <1>7, <2>1
  <2> QED
    BY <1>1, <1>6, <2>1, <2>2 DEF TypeOK
<1>8. lock'[day[r]] = s
  BY <1>1, <1>6 DEF TypeOK
<1>9. \A q \in Run : Active(q)' => conn'[q] \in SessionsOf[ProcessOf[q]]
  BY <1>2, <1>4, <1>5 DEF LockInv
<1>10. \A p, q \in Run : p # q /\ Active(p)' /\ Active(q)' => conn'[p] # conn'[q]
  BY <1>2, <1>4, <1>5 DEF LockInv
<1>11. ~ split' => \A q \in Run : Active(q)' => lock'[day'[q]] = conn'[q]
  BY <1>3, <1>4, <1>5, <1>7, <1>8
<1> QED BY <1>9, <1>10, <1>11 DEF LockInv

LEMMA UnlockExcludes ==
  ASSUME TypeOK, LockInv,
         \/ \E r \in Run : LoseSession(r)
         \/ \E s \in Session : CloseIdle(s)
         \/ \E p \in Process : Crash(p)
  PROVE  LockInv'
<1>0. \A r \in Run : day[r] \in Date
  BY Dates DEF TypeOK
<1>1. ASSUME NEW r \in Run, LoseSession(r) PROVE LockInv'
  BY <1>1 DEF LoseSession, LockInv, Active
<1>2. ASSUME NEW s \in Session, CloseIdle(s) PROVE LockInv'
  <2>1. pc' = pc /\ conn' = conn /\ day' = day /\ split' = split
    BY <1>2 DEF CloseIdle, history
  <2>2. \A r \in Run : conn[r] # s
    BY <1>2 DEF CloseIdle, InUse
  <2>3. \A r \in Run : lock[day[r]] = conn[r] => lock'[day[r]] = conn[r]
    BY <1>0, <1>2, <2>2 DEF CloseIdle, Unlock
  <2> QED
    BY <2>1, <2>3 DEF LockInv, Active
<1>3. ASSUME NEW p \in Process, Crash(p) PROVE LockInv'
  <2>1. day' = day /\ split' = split
    BY <1>3 DEF Crash
  <2>2. \A r \in Run : Active(r)' => Active(r) /\ ProcessOf[r] # p /\ conn'[r] = conn[r]
    BY <1>3 DEF Crash, Active, Working
  <2>3. \A r \in Run : /\ ProcessOf[r] # p /\ conn[r] \in SessionsOf[ProcessOf[r]]
                       => conn[r] \notin SessionsOf[p]
    BY ProcessesAssumption
  <2>4. \A r \in Run : lock[day[r]] \notin SessionsOf[p] => lock'[day[r]] = lock[day[r]]
    BY <1>0, <1>3 DEF Crash, Unlock
  <2> QED
    BY <2>1, <2>2, <2>3, <2>4 DEF LockInv
<1> QED BY <1>1, <1>2, <1>3

LEMMA LockEffects ==
  ASSUME TypeOK, [Next]_vars
  PROVE  \/ Keeps
         \/ \E r \in Run : Acquire(r) \/ LoseSession(r)
         \/ \E s \in Session : CloseIdle(s)
         \/ \E p \in Process : Crash(p)
<1> USE DEF calendar, records, owners, history, Outcome, Goto, Return, Active, Working, Advance
<1>1. ASSUME NEW r \in Run,
             \/ Call(r) \/ Refuse(r) \/ AlreadySucceeded(r) \/ NotSucceeded(r)
             \/ BeginEOD(r) \/ VerifyDate(r) \/ RecordRun(r)
      PROVE  Keeps
  <2>1. CASE Call(r)
    BY <2>1 DEF Keeps, TypeOK, Call
  <2>2. CASE Refuse(r) \/ AlreadySucceeded(r) \/ NotSucceeded(r)
    BY <2>2 DEF Keeps, TypeOK, Refuse, AlreadySucceeded, NotSucceeded
  <2>3. CASE BeginEOD(r) \/ VerifyDate(r) \/ RecordRun(r)
    BY <2>3 DEF Keeps, TypeOK, BeginEOD, VerifyDate, RecordRun
  <2> QED BY <1>1, <2>1, <2>2, <2>3
<1>2. ASSUME NEW r \in Run,
             \/ Skip(r) \/ AlreadyDone(r) \/ GiveUp(r) \/ Choose(r) \/ StartJobRun(r)
             \/ Succeed(r) \/ MarkRun(r) \/ ReportFailure(r) \/ CallLost(r) \/ MarkFails(r)
      PROVE  Keeps
  BY <1>2 DEF Keeps, TypeOK, Skip, AlreadyDone, GiveUp, Choose, StartJobRun, Succeed, MarkRun,
     ReportFailure, CallLost, MarkFails
<1>3. ASSUME NEW r \in Run,
             \/ FailEOD(r) \/ CompleteEOD(r) \/ CompleteUnseen(r) \/ CompleteRefused(r)
             \/ ReleaseEOD(r) \/ ReleaseFails(r)
      PROVE  Keeps
  BY <1>3 DEF Keeps, TypeOK, FailEOD, CompleteEOD, CompleteUnseen, CompleteRefused, ReleaseEOD,
     ReleaseFails
<1>4. ASSUME NEW r \in Run, Abort(r) PROVE Keeps
  BY <1>4 DEF Keeps, TypeOK, Abort
<1>5. ASSUME NEW x \in loose, ExecuteLate(x) PROVE Keeps
  BY <1>5 DEF Keeps, ExecuteLate
<1>6. CASE UNCHANGED vars
  BY <1>6 DEF Keeps, vars
<1> QED
  BY <1>1, <1>2, <1>3, <1>4, <1>5, <1>6 DEF Next, Rest, RunStep, RunFault

LEMMA LockNext == TypeOK /\ LockInv /\ [Next]_vars => LockInv'
BY LockEffects, KeepsExclusion, AcquireExcludes, UnlockExcludes

\* Two runs never work on one date unless a session was lost under one: the
\* lock that stays with a pooled session after its run (acquireLeaderLock) is
\* only ever taken again by a run of that session.
THEOREM RunsExclude == Spec => []ExclusiveRun
<1>1. LockInv => ExclusiveRun
  BY DEF LockInv, ExclusiveRun
<1> QED
  BY LockInit, LockNext, <1>1, TypeCorrect, PTL DEF Spec

---------------------------------------------------------------------------
\* What a run knows of the tasks that were executed.

Handling == {"start", "call", "mark"}

DoneWasExecuted ==
  \A x \in Date \X Task : checkpoint[x] = "DONE" => x \in executed

OutcomesWereExecuted ==
  \A r \in Run, k \in Task : states[r][k] = "DONE" => <<day[r], k>> \in executed

AnswersAreTrue ==
  \A r \in Run, k \in Task :
    pc[r] = "mark" /\ answer[r] = "DONE" /\ IsNext(r, k) => <<day[r], k>> \in executed

\* The task a run has chosen, or asked for, had what it depends on.
ChosenIsReleased ==
  \A r \in Run, k \in Task :
    pc[r] \in Handling /\ IsNext(r, k) => \A j \in Deps(k) : states[r][j] = "DONE"

LooseIsReleased ==
  \A x \in loose :
    /\ x[1] \in 1 .. LastDate /\ x[1] <= date
    /\ \A j \in Deps(x[2]) : <<x[1], j>> \in executed

DaysHaveCome == \A r \in Run : day[r] <= date

TaskInv ==
  /\ DoneWasExecuted
  /\ OutcomesWereExecuted
  /\ AnswersAreTrue
  /\ ChosenIsReleased
  /\ LooseIsReleased
  /\ DaysHaveCome

\* A run has one next task: the order of orderEODSteps is total.
LEMMA NextIsUnique ==
  ASSUME NEW r \in Run, NEW j \in Task, NEW k \in Task, IsNext(r, j), IsNext(r, k)
  PROVE  j = k
<1> SUFFICES ASSUME j # k PROVE FALSE
  OBVIOUS
<1>1. Before(j, k) /\ Before(k, j)
  BY DEF IsNext
<1>2. j[1] \in Int /\ k[1] \in Int /\ Sequence[j[2]] \in Int /\ Sequence[k[2]] \in Int
  BY StepsAssumption DEF Task, Tenant
<1> QED
  BY <1>1, <1>2 DEF Before

LEMMA NextIsTask ==
  ASSUME NEW r \in Run, NEW k, IsNext(r, k)
  PROVE  k \in Task
BY DEF IsNext, Ready

LEMMA DepsAreTasks == \A k \in Task : Deps(k) \subseteq Task
BY StepsAssumption

LEMMA NextIsStable ==
  ASSUME NEW r \in Run, states'[r] = states[r], NEW k
  PROVE  IsNext(r, k)' <=> IsNext(r, k)
<1>1. Ready(r)' = Ready(r)
  BY DEF Ready, Visited
<1> QED
  BY <1>1 DEF IsNext

LEMMA DatesAreNumbers ==
  ASSUME TypeOK
  PROVE  date \in Int /\ \A r \in Run : day[r] \in 1 .. LastDate /\ day[r] \in Int
<1>1. date \in Date /\ \A r \in Run : day[r] \in 1 .. LastDate
  BY DEF TypeOK
<1>2. \A d \in 1 .. LastDate : d \in Int
  BY BoundsAssumption
<1>3. \A d \in Date : d \in Int
  BY BoundsAssumption DEF Date
<1> QED
  BY <1>1, <1>2, <1>3

LEMMA TaskInit == Init => TaskInv
<1> SUFFICES ASSUME Init PROVE TaskInv
  OBVIOUS
<1>1. DoneWasExecuted
  BY DEF Init, DoneWasExecuted
<1>2. OutcomesWereExecuted
  BY DEF Init, OutcomesWereExecuted, Unvisited
<1>3. AnswersAreTrue /\ ChosenIsReleased
  BY DEF Init, AnswersAreTrue, ChosenIsReleased, Handling
<1>4. LooseIsReleased
  BY DEF Init, LooseIsReleased
<1>5. DaysHaveCome
  <2> SUFFICES ASSUME NEW r \in Run PROVE day[r] <= date
    BY DEF DaysHaveCome
  <2>1. day[r] = 1 /\ date = 1
    BY DEF Init
  <2> QED
    BY <2>1
<1> QED
  BY <1>1, <1>2, <1>3, <1>4, <1>5 DEF TaskInv

---------------------------------------------------------------------------
\* The effects of a step on what runs know.

\* A run is called, goes on or ends; its request is left behind; one that was
\* left behind is executed.
Quiet ==
  /\ executed \subseteq executed'
  /\ date <= date'
  /\ \A x \in Date \X Task : checkpoint'[x] = "DONE" => checkpoint[x] = "DONE"
  /\ \A r \in Run :
       \/ states'[r] = states[r] /\ day'[r] = day[r]
       \/ states'[r] = Unvisited /\ day'[r] <= date /\ pc'[r] = "lock"
  /\ \A r \in Run :
       pc'[r] \in Handling => pc[r] \in Handling /\ states'[r] = states[r] /\ day'[r] = day[r]
  /\ \A r \in Run :
       pc'[r] = "mark" /\ answer'[r] = "DONE" => pc[r] = "mark" /\ answer[r] = "DONE"
  /\ \A x \in loose' :
       x \in loose \/ \E r \in Run : pc[r] = "call" /\ x[1] = day[r] /\ IsNext(r, x[2])

Others(r) ==
  /\ UNCHANGED <<date, day, loose>>
  /\ \A q \in Run \ {r} : pc'[q] = pc[q] /\ states'[q] = states[q] /\ answer'[q] = answer[q]

\* Run r chooses task k.
Chooses(r, k) ==
  /\ IsNext(r, k) /\ \A j \in Deps(k) : states[r][j] = "DONE"
  /\ Others(r)
  /\ UNCHANGED <<executed, checkpoint, states>>
  /\ pc'[r] = "start"

\* The owner executes the task that run r asks for.
Executes(r, k) ==
  /\ IsNext(r, k) /\ pc[r] = "call"
  /\ Others(r)
  /\ executed' = executed \cup {<<day[r], k>>}
  /\ UNCHANGED <<checkpoint, states>>

\* Run r is done with task k.
Handles(r, k, status) ==
  /\ status = "DONE" => <<day[r], k>> \in executed
  /\ Others(r)
  /\ UNCHANGED executed
  /\ states' = [states EXCEPT ![r][k] = status]
  /\ \A x \in Date \X Task :
       checkpoint'[x] = "DONE" => \/ checkpoint[x] = "DONE"
                                  \/ x = <<day[r], k>> /\ status = "DONE"
  /\ pc'[r] = "steps"

LEMMA QuietKeeps ==
  ASSUME TypeOK, TypeOK', TaskInv, Quiet
  PROVE  TaskInv'
<1> USE DEF TaskInv
<1>0. \A r \in Run : day[r] \in 1 .. LastDate /\ day[r] \in Int
  BY DatesAreNumbers
<1>7. date \in Int /\ date' \in Int
  <2>1. date' \in Date /\ date \in Date
    BY DEF TypeOK
  <2> QED
    BY <2>1, BoundsAssumption DEF Date
<1>1. DoneWasExecuted'
  BY DEF Quiet, DoneWasExecuted
<1>2. OutcomesWereExecuted'
  <2> SUFFICES ASSUME NEW r \in Run, NEW k \in Task, states'[r][k] = "DONE"
               PROVE  <<day'[r], k>> \in executed'
    BY DEF OutcomesWereExecuted
  <2>1. Unvisited[k] # "DONE"
    BY DEF Unvisited
  <2>2. states'[r] = states[r] /\ day'[r] = day[r]
    BY <2>1 DEF Quiet
  <2> QED
    BY <2>2 DEF Quiet, OutcomesWereExecuted
<1>3. AnswersAreTrue'
  <2> SUFFICES ASSUME NEW r \in Run, NEW k \in Task,
                      pc'[r] = "mark", answer'[r] = "DONE", IsNext(r, k)'
               PROVE  <<day'[r], k>> \in executed'
    BY DEF AnswersAreTrue
  <2>1. /\ pc[r] = "mark" /\ answer[r] = "DONE"
        /\ states'[r] = states[r] /\ day'[r] = day[r]
    BY DEF Quiet, Handling
  <2>2. IsNext(r, k)
    BY <2>1, NextIsStable
  <2> QED
    BY <2>1, <2>2 DEF Quiet, AnswersAreTrue
<1>4. ChosenIsReleased'
  <2> SUFFICES ASSUME NEW r \in Run, NEW k \in Task, pc'[r] \in Handling, IsNext(r, k)',
                      NEW j \in Deps(k)
               PROVE  states'[r][j] = "DONE"
    BY DEF ChosenIsReleased, Handling
  <2>1. pc[r] \in Handling /\ states'[r] = states[r]
    BY DEF Quiet
  <2>2. IsNext(r, k)
    BY <2>1, NextIsStable
  <2> QED
    BY <2>1, <2>2 DEF ChosenIsReleased
<1>5. LooseIsReleased'
  <2> SUFFICES ASSUME NEW x \in loose'
               PROVE  /\ x[1] \in 1 .. LastDate /\ x[1] <= date'
                      /\ \A j \in Deps(x[2]) : <<x[1], j>> \in executed'
    BY DEF LooseIsReleased
  <2>0. date \in Int /\ date' \in Int /\ date <= date' /\ executed \subseteq executed'
    BY <1>7 DEF Quiet
  <2>1. CASE x \in loose
    BY <1>0, <2>0, <2>1 DEF LooseIsReleased
  <2>2. ASSUME NEW r \in Run, pc[r] = "call", x[1] = day[r], IsNext(r, x[2])
        PROVE  /\ x[1] \in 1 .. LastDate /\ x[1] <= date'
               /\ \A j \in Deps(x[2]) : <<x[1], j>> \in executed'
    <3>1. x[2] \in Task
      BY <2>2, NextIsTask
    <3>2. \A j \in Deps(x[2]) : states[r][j] = "DONE"
      BY <2>2, <3>1 DEF ChosenIsReleased, Handling
    <3>3. \A j \in Deps(x[2]) : <<x[1], j>> \in executed
      BY <2>2, <3>1, <3>2, DepsAreTasks DEF OutcomesWereExecuted
    <3>4. x[1] \in 1 .. LastDate /\ x[1] <= date'
      BY <1>0, <2>0, <2>2 DEF DaysHaveCome
    <3> QED
      BY <2>0, <3>3, <3>4
  <2> QED
    BY <2>1, <2>2 DEF Quiet
<1>6. DaysHaveCome'
  <2> SUFFICES ASSUME NEW r \in Run PROVE day'[r] <= date'
    BY DEF DaysHaveCome
  <2>1. day'[r] <= date /\ date <= date' /\ day'[r] \in Int
    <3>1. day'[r] <= date
      BY DEF Quiet, DaysHaveCome
    <3>2. day'[r] \in 1 .. LastDate
      BY DEF TypeOK
    <3> QED
      BY <3>1, <3>2, BoundsAssumption DEF Quiet
  <2> QED
    BY <1>7, <2>1
<1> QED
  BY <1>1, <1>2, <1>3, <1>4, <1>5, <1>6

LEMMA OthersKeep ==
  ASSUME TaskInv, NEW r \in Run, Others(r), executed \subseteq executed', NEW q \in Run \ {r},
         NEW k \in Task
  PROVE  /\ states'[q][k] = "DONE" => <<day'[q], k>> \in executed'
         /\ pc'[q] = "mark" /\ answer'[q] = "DONE" /\ IsNext(q, k)' => <<day'[q], k>> \in executed'
         /\ pc'[q] \in Handling /\ IsNext(q, k)' => \A j \in Deps(k) : states'[q][j] = "DONE"
<1>1. pc'[q] = pc[q] /\ states'[q] = states[q] /\ answer'[q] = answer[q] /\ day'[q] = day[q]
  BY DEF Others
<1>2. IsNext(q, k)' <=> IsNext(q, k)
  BY <1>1, NextIsStable
<1> QED
  BY <1>1, <1>2 DEF TaskInv, OutcomesWereExecuted, AnswersAreTrue, ChosenIsReleased

LEMMA OthersKeepLoose ==
  ASSUME TaskInv, NEW r \in Run, Others(r), executed \subseteq executed'
  PROVE  LooseIsReleased' /\ DaysHaveCome'
BY DEF Others, TaskInv, LooseIsReleased, DaysHaveCome

LEMMA ChoosesKeeps ==
  ASSUME TypeOK, TaskInv, NEW r \in Run, NEW k \in Task, Chooses(r, k)
  PROVE  TaskInv'
<1>0. Others(r) /\ executed' = executed /\ checkpoint' = checkpoint /\ states' = states
      /\ pc'[r] = "start" /\ day' = day
  BY DEF Chooses, Others
<1>1. DoneWasExecuted' /\ OutcomesWereExecuted'
  BY <1>0 DEF TaskInv, DoneWasExecuted, OutcomesWereExecuted
<1>2. AnswersAreTrue'
  BY <1>0, OthersKeep DEF AnswersAreTrue
<1>3. ChosenIsReleased'
  <2> SUFFICES ASSUME NEW q \in Run, NEW i \in Task, pc'[q] \in Handling, IsNext(q, i)',
                      NEW j \in Deps(i)
               PROVE  states'[q][j] = "DONE"
    BY DEF ChosenIsReleased, Handling
  <2>1. CASE q = r
    <3>1. IsNext(r, i)
      BY <1>0, <2>1, NextIsStable
    <3>2. i = k
      BY <3>1, NextIsUnique DEF Chooses
    <3> QED
      BY <1>0, <2>1, <3>2 DEF Chooses
  <2>2. CASE q # r
    BY <1>0, <2>2, OthersKeep
  <2> QED BY <2>1, <2>2
<1>4. LooseIsReleased' /\ DaysHaveCome'
  BY <1>0, OthersKeepLoose
<1> QED
  BY <1>1, <1>2, <1>3, <1>4 DEF TaskInv

LEMMA ExecutesKeeps ==
  ASSUME TypeOK, TaskInv, NEW r \in Run, NEW k \in Task, Executes(r, k)
  PROVE  TaskInv'
<1>0. /\ Others(r) /\ executed \subseteq executed' /\ <<day[r], k>> \in executed'
      /\ checkpoint' = checkpoint /\ states' = states /\ day' = day
  BY DEF Executes, Others
<1>1. DoneWasExecuted' /\ OutcomesWereExecuted'
  BY <1>0 DEF TaskInv, DoneWasExecuted, OutcomesWereExecuted
<1>2. ASSUME NEW i \in Task, IsNext(r, i)'
      PROVE  i = k
  <2>1. IsNext(r, i)
    BY <1>0, <1>2, NextIsStable
  <2> QED
    BY <2>1, NextIsUnique DEF Executes
<1>3. AnswersAreTrue'
  <2> SUFFICES ASSUME NEW q \in Run, NEW i \in Task,
                      pc'[q] = "mark", answer'[q] = "DONE", IsNext(q, i)'
               PROVE  <<day'[q], i>> \in executed'
    BY DEF AnswersAreTrue
  <2>1. CASE q = r
    BY <1>0, <1>2, <2>1
  <2>2. CASE q # r
    BY <1>0, <2>2, OthersKeep
  <2> QED BY <2>1, <2>2
<1>4. ChosenIsReleased'
  <2> SUFFICES ASSUME NEW q \in Run, NEW i \in Task, pc'[q] \in Handling, IsNext(q, i)',
                      NEW j \in Deps(i)
               PROVE  states'[q][j] = "DONE"
    BY DEF ChosenIsReleased, Handling
  <2>1. CASE q = r
    <3>1. i = k /\ IsNext(r, k) /\ pc[r] \in Handling
      BY <1>2, <2>1 DEF Executes, Handling
    <3> QED
      BY <1>0, <2>1, <3>1 DEF TaskInv, ChosenIsReleased
  <2>2. CASE q # r
    BY <1>0, <2>2, OthersKeep
  <2> QED BY <2>1, <2>2
<1>5. LooseIsReleased' /\ DaysHaveCome'
  BY <1>0, OthersKeepLoose
<1> QED
  BY <1>1, <1>3, <1>4, <1>5 DEF TaskInv

LEMMA HandlesKeeps ==
  ASSUME TypeOK, TaskInv, NEW r \in Run, NEW k \in Task, NEW status, Handles(r, k, status)
  PROVE  TaskInv'
<1>0. /\ Others(r) /\ executed' = executed /\ day' = day /\ pc'[r] = "steps"
      /\ states' = [states EXCEPT ![r][k] = status]
      /\ status = "DONE" => <<day[r], k>> \in executed
  BY DEF Handles, Others
<1>1. DoneWasExecuted'
  BY <1>0 DEF Handles, TaskInv, DoneWasExecuted
<1>2. OutcomesWereExecuted'
  <2> SUFFICES ASSUME NEW q \in Run, NEW i \in Task, states'[q][i] = "DONE"
               PROVE  <<day[q], i>> \in executed
    BY <1>0 DEF OutcomesWereExecuted
  <2>1. CASE q = r /\ i = k
    <3>1. states'[r][k] = status
      BY <1>0 DEF TypeOK
    <3> QED
      BY <1>0, <2>1, <3>1
  <2>2. CASE ~ (q = r /\ i = k)
    <3>1. states'[q][i] = states[q][i]
      BY <1>0, <2>2 DEF TypeOK
    <3> QED
      BY <3>1 DEF TaskInv, OutcomesWereExecuted
  <2> QED BY <2>1, <2>2
<1>3. AnswersAreTrue' /\ ChosenIsReleased'
  <2>1. ~ (pc'[r] \in Handling)
    BY <1>0 DEF Handling
  <2> QED
    BY <1>0, <2>1, OthersKeep DEF AnswersAreTrue, ChosenIsReleased, Handling
<1>4. LooseIsReleased' /\ DaysHaveCome'
  BY <1>0, OthersKeepLoose
<1> QED
  BY <1>1, <1>2, <1>3, <1>4 DEF TaskInv

\* Every step of Next has one of these effects.
LEMMA QuietStart ==
  ASSUME TypeOK, NEW r \in Run,
         \/ Call(r) \/ Acquire(r) \/ Refuse(r) \/ AlreadySucceeded(r) \/ NotSucceeded(r)
         \/ BeginEOD(r) \/ VerifyDate(r) \/ RecordRun(r)
  PROVE  Quiet
<1> USE DEF calendar, records, owners, history, Return, Goto, Handling
<1>0. date <= date
  BY DatesAreNumbers
<1>1. CASE Call(r)
  BY <1>0, <1>1 DEF Quiet, TypeOK, Call
<1>2. CASE Acquire(r)
  BY <1>0, <1>2 DEF Quiet, TypeOK, Acquire
<1>3. CASE Refuse(r) \/ AlreadySucceeded(r) \/ NotSucceeded(r)
  BY <1>0, <1>3 DEF Quiet, TypeOK, Refuse, AlreadySucceeded, NotSucceeded
<1>4. CASE BeginEOD(r) \/ VerifyDate(r) \/ RecordRun(r)
  BY <1>0, <1>4 DEF Quiet, TypeOK, BeginEOD, VerifyDate, RecordRun
<1> QED BY <1>1, <1>2, <1>3, <1>4

LEMMA QuietEnd ==
  ASSUME TypeOK, NEW r \in Run,
         \/ FailEOD(r) \/ CompleteEOD(r) \/ CompleteUnseen(r) \/ CompleteRefused(r)
         \/ ReleaseEOD(r) \/ ReleaseFails(r) \/ LoseSession(r)
  PROVE  Quiet
<1> USE DEF calendar, records, owners, history, Return, Goto, Handling
<1>0. date <= date /\ date <= date + 1
  BY DatesAreNumbers
<1>1. CASE FailEOD(r) \/ CompleteRefused(r)
  BY <1>0, <1>1 DEF Quiet, TypeOK, FailEOD, CompleteRefused
<1>2. CASE CompleteEOD(r) \/ CompleteUnseen(r)
  <2>1. date <= date'
    BY <1>0, <1>2 DEF CompleteEOD, CompleteUnseen, Advance
  <2> QED
    BY <1>2, <2>1 DEF Quiet, TypeOK, CompleteEOD, CompleteUnseen
<1>3. CASE ReleaseEOD(r) \/ ReleaseFails(r)
  BY <1>0, <1>3 DEF Quiet, TypeOK, ReleaseEOD, ReleaseFails
<1>4. CASE LoseSession(r)
  BY <1>0, <1>4 DEF Quiet, TypeOK, LoseSession
<1> QED BY <1>1, <1>2, <1>3, <1>4

\* The calls that fail, and the steps outside a run.
LEMMA QuietFailures ==
  ASSUME TypeOK,
         \/ \E r \in Run : StartJobRun(r) \/ ReportFailure(r) \/ CallLost(r) \/ Abort(r)
         \/ \E s \in Session : CloseIdle(s)
         \/ \E p \in Process : Crash(p)
         \/ \E x \in loose : ExecuteLate(x)
         \/ UNCHANGED vars
  PROVE  Quiet
<1> USE DEF calendar, records, owners, history, Return, Goto, Handling
<1>0. date <= date
  BY DatesAreNumbers
<1>1. ASSUME NEW r \in Run, StartJobRun(r) PROVE Quiet
  <2>1. PICK k \in Task : checkpoint' = [checkpoint EXCEPT ![<<day[r], k>>] = "RUNNING"]
    BY <1>1 DEF StartJobRun
  <2>2. \A x \in Date \X Task : checkpoint'[x] = "DONE" => checkpoint[x] = "DONE"
    BY <2>1 DEF TypeOK
  <2> QED
    BY <1>0, <1>1, <2>2 DEF Quiet, TypeOK, StartJobRun
<1>2. ASSUME NEW r \in Run, ReportFailure(r) PROVE Quiet
  BY <1>0, <1>2 DEF Quiet, TypeOK, ReportFailure
<1>3. ASSUME NEW r \in Run, CallLost(r) PROVE Quiet
  <2>1. \A x \in loose' : x \in loose \/ (pc[r] = "call" /\ x[1] = day[r] /\ IsNext(r, x[2]))
    BY <1>3 DEF CallLost
  <2> QED
    BY <1>0, <1>3, <2>1 DEF Quiet, TypeOK, CallLost
<1>4. ASSUME NEW r \in Run, Abort(r) PROVE Quiet
  <2>1. \A x \in loose' : x \in loose \/ (pc[r] = "call" /\ x[1] = day[r] /\ IsNext(r, x[2]))
    BY <1>4 DEF Abort, Orphan
  <2>2. pc' = [pc EXCEPT ![r] = pc'[r]] /\ pc'[r] \in {"idle", "release"}
    BY <1>4 DEF Abort, TypeOK
  <2> QED
    BY <1>0, <1>4, <2>1, <2>2 DEF Quiet, TypeOK, Abort
<1>5. ASSUME NEW s \in Session, CloseIdle(s) PROVE Quiet
  BY <1>0, <1>5 DEF Quiet, CloseIdle
<1>6. ASSUME NEW p \in Process, Crash(p) PROVE Quiet
  <2>1. \A x \in loose' :
          x \in loose \/ \E r \in Run : pc[r] = "call" /\ x[1] = day[r] /\ IsNext(r, x[2])
    BY <1>6 DEF Crash, Orphan
  <2>2. \A r \in Run : pc'[r] = "idle" \/ pc'[r] = pc[r]
    BY <1>6 DEF Crash
  <2> QED
    BY <1>0, <1>6, <2>1, <2>2 DEF Quiet, Crash
<1>7. ASSUME NEW x \in loose, ExecuteLate(x) PROVE Quiet
  BY <1>0, <1>7 DEF Quiet, ExecuteLate
<1>8. CASE UNCHANGED vars
  BY <1>0, <1>8 DEF Quiet, vars
<1> QED BY <1>1, <1>2, <1>3, <1>4, <1>5, <1>6, <1>7, <1>8

LEMMA ChooseEffect ==
  ASSUME TypeOK, NEW r \in Run, Choose(r)
  PROVE  \E k \in Task : Chooses(r, k)
<1>1. PICK k \in Task : IsNext(r, k) /\ ~ Blocked(r, k)
  BY DEF Choose
<1>2. \A j \in Deps(k) : states[r][j] = "DONE"
  BY <1>1 DEF Blocked
<1>3. Others(r) /\ UNCHANGED <<executed, checkpoint, states>> /\ pc'[r] = "start"
  BY DEF Choose, Goto, Others, calendar, records, owners, TypeOK
<1> QED BY <1>1, <1>2, <1>3 DEF Chooses

LEMMA SucceedEffect ==
  ASSUME TypeOK, NEW r \in Run, Succeed(r)
  PROVE  \E k \in Task : Executes(r, k)
<1>1. PICK k \in Task : IsNext(r, k) /\ executed' = executed \cup {<<day[r], k>>}
  BY DEF Succeed
<1>2. Others(r) /\ UNCHANGED <<checkpoint, states>> /\ pc[r] = "call"
  BY DEF Succeed, Goto, Others, calendar, records, TypeOK
<1> QED BY <1>1, <1>2 DEF Executes

LEMMA HandleEffect ==
  ASSUME TypeOK, TaskInv, NEW r \in Run,
         Skip(r) \/ AlreadyDone(r) \/ GiveUp(r) \/ MarkRun(r) \/ MarkFails(r)
  PROVE  \E k \in Task, status \in {"DONE", "FAILED", "SKIPPED"} : Handles(r, k, status)
<1> USE DEF calendar, owners, Goto, Outcome
<1>0. \A k \in Task : <<day[r], k>> \in Date \X Task
  BY Dates DEF TypeOK
<1>1. CASE Skip(r)
  <2>1. PICK k \in Task : /\ checkpoint' = [checkpoint EXCEPT ![<<day[r], k>>] = "SKIPPED"]
                          /\ states' = [states EXCEPT ![r][k] = "SKIPPED"]
    BY <1>1 DEF Skip
  <2>2. \A x \in Date \X Task : checkpoint'[x] = "DONE" => checkpoint[x] = "DONE"
    BY <2>1 DEF TypeOK
  <2>3. Others(r) /\ executed' = executed /\ pc'[r] = "steps"
    BY <1>1, <2>1 DEF Skip, Others, TypeOK
  <2> QED BY <2>1, <2>2, <2>3 DEF Handles
<1>2. CASE AlreadyDone(r)
  <2>1. PICK k \in Task : /\ checkpoint[<<day[r], k>>] = "DONE"
                          /\ states' = [states EXCEPT ![r][k] = "DONE"]
    BY <1>2 DEF AlreadyDone
  <2>2. <<day[r], k>> \in executed
    BY <1>0, <2>1 DEF TaskInv, DoneWasExecuted
  <2>3. Others(r) /\ executed' = executed /\ pc'[r] = "steps" /\ checkpoint' = checkpoint
    BY <1>2, <2>1 DEF AlreadyDone, Others, TypeOK
  <2> QED BY <2>1, <2>2, <2>3 DEF Handles
<1>3. CASE GiveUp(r)
  <2>1. PICK k \in Task : states' = [states EXCEPT ![r][k] = "FAILED"]
    BY <1>3 DEF GiveUp
  <2>2. Others(r) /\ executed' = executed /\ pc'[r] = "steps" /\ checkpoint' = checkpoint
    BY <1>3, <2>1 DEF GiveUp, Others, TypeOK
  <2> QED BY <2>1, <2>2 DEF Handles
<1>4. CASE MarkRun(r)
  <2>1. PICK k \in Task : /\ IsNext(r, k)
                          /\ checkpoint' = [checkpoint EXCEPT ![<<day[r], k>>] = answer[r]]
                          /\ states' = [states EXCEPT ![r][k] = answer[r]]
    BY <1>4 DEF MarkRun
  <2>2. answer[r] \in {"DONE", "FAILED"} /\ pc[r] = "mark"
    BY <1>4 DEF MarkRun, TypeOK
  <2>3. answer[r] = "DONE" => <<day[r], k>> \in executed
    BY <2>1, <2>2 DEF TaskInv, AnswersAreTrue
  <2>4. \A x \in Date \X Task :
          checkpoint'[x] = "DONE" => \/ checkpoint[x] = "DONE"
                                     \/ x = <<day[r], k>> /\ answer[r] = "DONE"
    BY <2>1 DEF TypeOK
  <2>5. Others(r) /\ executed' = executed /\ pc'[r] = "steps"
    BY <1>4, <2>1 DEF MarkRun, Others, TypeOK
  <2> QED BY <2>1, <2>2, <2>3, <2>4, <2>5 DEF Handles
<1>5. CASE MarkFails(r)
  <2>1. PICK k \in Task : states' = [states EXCEPT ![r][k] = "FAILED"]
    BY <1>5 DEF MarkFails
  <2>2. Others(r) /\ executed' = executed /\ pc'[r] = "steps" /\ checkpoint' = checkpoint
    BY <1>5, <2>1 DEF MarkFails, Others, TypeOK, records
  <2> QED BY <2>1, <2>2 DEF Handles
<1> QED BY <1>1, <1>2, <1>3, <1>4, <1>5

LEMMA TaskEffects ==
  ASSUME TypeOK, TaskInv, [Next]_vars
  PROVE  \/ Quiet
         \/ \E r \in Run, k \in Task : Chooses(r, k) \/ Executes(r, k)
         \/ \E r \in Run, k \in Task, status \in {"DONE", "FAILED", "SKIPPED"} :
              Handles(r, k, status)
BY QuietStart, QuietEnd, QuietFailures, ChooseEffect, SucceedEffect, HandleEffect
   DEF Next, Rest, RunStep, RunFault

LEMMA TaskNext == TypeOK /\ TypeOK' /\ TaskInv /\ [Next]_vars => TaskInv'
BY TaskEffects, QuietKeeps, ChoosesKeeps, ExecutesKeeps, HandlesKeeps

---------------------------------------------------------------------------
\* The refinement.

LEMMA AdvanceCloses ==
  ASSUME TypeOK, TaskInv, NEW r \in Run, Advance(r), executed' = executed
  PROVE  Days!Advance
<1>1. date = day[r] /\ date' = date + 1 /\ Visited(r) = Task /\ ~ MandatoryFailure(r)
  BY DEF Advance, Completable
<1>2. date <= LastDate
  BY <1>1, DatesAreNumbers, BoundsAssumption
<1>3. ASSUME NEW k \in Required PROVE <<date, k>> \in executed
  <2>1. k \in Task /\ k[2] \in Mandatory
    BY DEF Required
  <2>2. states[r][k] # "" /\ states[r][k] \notin {"FAILED", "SKIPPED"}
    BY <1>1, <2>1 DEF Visited, MandatoryFailure
  <2>3. states[r][k] = "DONE"
    <3>1. states[r] \in States
      BY DEF TypeOK, States
    <3> QED
      BY <2>1, <2>2, <3>1 DEF States
  <2> QED
    BY <1>1, <2>1, <2>3 DEF TaskInv, OutcomesWereExecuted
<1> QED
  BY <1>1, <1>2, <1>3 DEF Days!Advance

LEMMA SucceedExecutes ==
  ASSUME TypeOK, TaskInv, NEW r \in Run, NEW k \in Task, Executes(r, k)
  PROVE  Days!Execute(day[r], k)
<1>1. \A j \in Deps(k) : states[r][j] = "DONE"
  BY DEF Executes, TaskInv, ChosenIsReleased, Handling
<1>2. \A j \in Deps(k) : <<day[r], j>> \in executed
  BY <1>1, DepsAreTasks DEF TaskInv, OutcomesWereExecuted
<1>3. day[r] <= date
  BY DEF TaskInv, DaysHaveCome
<1>4. executed' = executed \cup {<<day[r], k>>} /\ date' = date
  BY DEF Executes, Others
<1> QED
  BY <1>2, <1>3, <1>4 DEF Days!Execute

LEMMA LateExecutes ==
  ASSUME TypeOK, TaskInv, NEW x \in loose, ExecuteLate(x)
  PROVE  \E d \in 1 .. LastDate, k \in Task : Days!Execute(d, k)
<1>1. x \in Date \X Task
  BY DEF TypeOK
<1>2. x = <<x[1], x[2]>> /\ x[2] \in Task
  BY <1>1
<1>3. /\ x[1] \in 1 .. LastDate /\ x[1] <= date
      /\ \A j \in Deps(x[2]) : <<x[1], j>> \in executed
  BY DEF TaskInv, LooseIsReleased
<1>4. executed' = executed \cup {<<x[1], x[2]>>} /\ date' = date
  BY <1>2 DEF ExecuteLate, calendar
<1> QED
  BY <1>2, <1>3, <1>4 DEF Days!Execute

\* Steps that neither execute a task nor move the date.
LEMMA StepEffects ==
  ASSUME TypeOK, [Next]_vars
  PROVE  \/ date' = date /\ executed' = executed
         \/ \E r \in Run : Advance(r) /\ executed' = executed
         \/ \E r \in Run : Succeed(r)
         \/ \E x \in loose : ExecuteLate(x)
<1> USE DEF calendar, owners, Outcome
<1>1. ASSUME NEW r \in Run, Call(r) \/ RunStep(r)
      PROVE  \/ date' = date /\ executed' = executed
             \/ Advance(r) /\ executed' = executed
             \/ Succeed(r)
  BY <1>1 DEF RunStep, Call, Acquire, Refuse, AlreadySucceeded, NotSucceeded, BeginEOD,
     VerifyDate, RecordRun, Skip, AlreadyDone, GiveUp, Choose, StartJobRun, MarkRun, FailEOD,
     CompleteEOD, CompleteRefused, ReleaseEOD
<1>2. ASSUME NEW r \in Run, RunFault(r)
      PROVE  \/ date' = date /\ executed' = executed
             \/ Advance(r) /\ executed' = executed
  BY <1>2 DEF RunFault, ReportFailure, CallLost, MarkFails, CompleteUnseen, ReleaseFails, Abort,
     LoseSession
<1> QED
  BY <1>1, <1>2 DEF Next, Rest, vars, CloseIdle, Crash

LEMMA DaysStep == TypeOK /\ TaskInv /\ [Next]_vars => [Days!Next]_<<date, executed>>
<1> SUFFICES ASSUME TypeOK, TaskInv, [Next]_vars PROVE [Days!Next]_<<date, executed>>
  OBVIOUS
<1>1. CASE date' = date /\ executed' = executed
  BY <1>1
<1>2. CASE \E r \in Run : Advance(r) /\ executed' = executed
  BY <1>2, AdvanceCloses DEF Days!Next
<1>3. ASSUME NEW r \in Run, Succeed(r) PROVE Days!Next
  <2>1. PICK k \in Task : Executes(r, k)
    BY <1>3, SucceedEffect
  <2> QED
    BY <2>1, SucceedExecutes, DatesAreNumbers DEF Days!Next
<1>4. ASSUME NEW x \in loose, ExecuteLate(x) PROVE Days!Next
  BY <1>4, LateExecutes DEF Days!Next
<1> QED
  BY <1>1, <1>2, <1>3, <1>4, StepEffects

\* EndOfDay implements BusinessDays: the SYSTEM date moves one day at a time,
\* only when every mandatory step of every tenant was executed for the day it
\* leaves, and no step is executed before those it depends on, whatever crashed,
\* was retried, overlapped or was answered late (RunSystem).
THEOREM ImplementsBusinessDays == Spec => ClosesBusinessDays
<1>1. Init => Days!Init
  BY DEF Init, Days!Init
<1> QED
  BY <1>1, TaskInit, TaskNext, DaysStep, TypeCorrect, PTL DEF Spec, ClosesBusinessDays, Days!Spec

---------------------------------------------------------------------------
\* The order of the steps.  Every run handles them in one order, whatever comes
\* of them, so the sets of steps that runs have handled form a chain.

NextIn(V, k) ==
  /\ k \in Task \ V
  /\ Deps(k) \subseteq V
  /\ \A j \in Task \ V : Deps(j) \subseteq V /\ j # k => Before(k, j)

Closed(C) == {} \in C /\ \A V \in C, k \in Task : NextIn(V, k) => V \cup {k} \in C

Prefixes == {V \in SUBSET Task : \A C \in SUBSET SUBSET Task : Closed(C) => V \in C}

LEMMA NextOfVisited ==
  ASSUME NEW r \in Run, NEW k
  PROVE  IsNext(r, k) <=> NextIn(Visited(r), k)
BY DEF IsNext, Ready, NextIn

LEMMA NextInIsUnique ==
  ASSUME NEW V, NEW j \in Task, NEW k \in Task, NextIn(V, j), NextIn(V, k)
  PROVE  j = k
<1> SUFFICES ASSUME j # k PROVE FALSE
  OBVIOUS
<1>1. Before(j, k) /\ Before(k, j)
  BY DEF NextIn
<1>2. j[1] \in Int /\ k[1] \in Int /\ Sequence[j[2]] \in Int /\ Sequence[k[2]] \in Int
  BY StepsAssumption DEF Task, Tenant
<1> QED
  BY <1>1, <1>2 DEF Before

LEMMA PrefixesAreClosed == Closed(Prefixes)
<1>1. {} \in Prefixes
  BY DEF Prefixes, Closed
<1>2. ASSUME NEW V \in Prefixes, NEW k \in Task, NextIn(V, k)
      PROVE  V \cup {k} \in Prefixes
  <2>1. V \cup {k} \in SUBSET Task
    BY DEF Prefixes
  <2>2. ASSUME NEW C \in SUBSET SUBSET Task, Closed(C) PROVE V \cup {k} \in C
    <3>1. V \in C
      BY <2>2 DEF Prefixes
    <3> QED
      BY <1>2, <2>2, <3>1 DEF Closed
  <2> QED
    BY <2>1, <2>2 DEF Prefixes
<1> QED
  BY <1>1, <1>2 DEF Closed

LEMMA PrefixesHoldDeps == \A V \in Prefixes : \A k \in V : Deps(k) \subseteq V
<1> DEFINE C == {V \in SUBSET Task : \A k \in V : Deps(k) \subseteq V}
<1>1. ASSUME NEW V \in C, NEW k \in Task, NextIn(V, k) PROVE V \cup {k} \in C
  BY <1>1 DEF NextIn
<1>2. Closed(C)
  BY <1>1 DEF Closed
<1>3. C \in SUBSET SUBSET Task
  OBVIOUS
<1> QED
  BY <1>2, <1>3 DEF Prefixes

LEMMA AfterPrefix ==
  ASSUME NEW P \in Prefixes, \A Q \in Prefixes : Q \subseteq P \/ P \subseteq Q,
         NEW k \in Task, NextIn(P, k)
  PROVE  \A Q \in Prefixes : Q \subseteq P \/ P \cup {k} \subseteq Q
<1> DEFINE C == {Q \in Prefixes : Q \subseteq P \/ P \cup {k} \subseteq Q}
<1>1. {} \in C
  BY PrefixesAreClosed DEF Closed
<1>2. ASSUME NEW Q \in C, NEW j \in Task, NextIn(Q, j) PROVE Q \cup {j} \in C
  <2>1. Q \cup {j} \in Prefixes
    BY <1>2, PrefixesAreClosed DEF Closed
  <2>2. CASE P \cup {k} \subseteq Q
    BY <2>1, <2>2
  <2>3. CASE Q \subseteq P /\ Q \cup {j} \subseteq P
    BY <2>1, <2>3
  <2>4. CASE Q \subseteq P /\ P \subseteq Q \cup {j} /\ j \notin P
    <3>1. P = Q
      BY <2>4
    <3>2. j = k
      BY <1>2, <3>1, NextInIsUnique
    <3> QED
      BY <2>1, <3>1, <3>2
  <2>5. Q \cup {j} \subseteq P \/ P \subseteq Q \cup {j}
    BY <2>1
  <2> QED
    BY <2>2, <2>3, <2>4, <2>5
<1>3. Closed(C)
  BY <1>1, <1>2 DEF Closed
<1>4. C \in SUBSET SUBSET Task
  BY DEF Prefixes
<1>5. Prefixes \subseteq C
  BY <1>3, <1>4 DEF Prefixes
<1> QED
  BY <1>5

LEMMA PrefixesAreAChain == \A P, Q \in Prefixes : Q \subseteq P \/ P \subseteq Q
<1> DEFINE C == {P \in Prefixes : \A Q \in Prefixes : Q \subseteq P \/ P \subseteq Q}
<1>1. {} \in C
  BY PrefixesAreClosed DEF Closed
<1>2. ASSUME NEW P \in C, NEW k \in Task, NextIn(P, k) PROVE P \cup {k} \in C
  <2>1. P \cup {k} \in Prefixes
    BY <1>2, PrefixesAreClosed DEF Closed
  <2>2. \A Q \in Prefixes : Q \subseteq P \/ P \cup {k} \subseteq Q
    BY <1>2, AfterPrefix
  <2> QED
    BY <2>1, <2>2
<1>3. Closed(C)
  BY <1>1, <1>2 DEF Closed
<1>4. C \in SUBSET SUBSET Task
  BY DEF Prefixes
<1>5. Prefixes \subseteq C
  BY <1>3, <1>4 DEF Prefixes
<1> QED
  BY <1>5

Earlier(j, k) == \A V \in Prefixes : k \in V => j \in V

\* What must be DONE for step k to be executed: what it depends on, and the
\* earlier steps of its tenant that would have stopped it.
Needs(k) ==
  Deps(k) \cup {j \in Task : j[1] = k[1] /\ j[2] \in StopOnFail /\ j # k /\ Earlier(j, k)}

LEMMA NeedsAreVisited ==
  ASSUME NEW r \in Run, Visited(r) \in Prefixes, NEW k \in Task, IsNext(r, k), NEW j \in Needs(k)
  PROVE  j \in Visited(r)
<1>1. NextIn(Visited(r), k)
  BY NextOfVisited
<1>2. CASE j \in Deps(k)
  BY <1>1, <1>2 DEF NextIn
<1>3. CASE j # k /\ Earlier(j, k)
  <2>1. Visited(r) \cup {k} \in Prefixes
    BY <1>1, PrefixesAreClosed DEF Closed
  <2> QED
    BY <1>3, <2>1 DEF Earlier
<1> QED
  BY <1>2, <1>3 DEF Needs

LEMMA VisitedStopsAreNeeded ==
  ASSUME NEW r \in Run, Visited(r) \in Prefixes, NEW k \in Task, k \notin Visited(r),
         NEW j \in Visited(r), j[1] = k[1], j[2] \in StopOnFail
  PROVE  j \in Needs(k)
<1>1. \A V \in Prefixes : k \in V => Visited(r) \subseteq V
  BY PrefixesAreAChain
<1>2. Earlier(j, k)
  BY <1>1 DEF Earlier
<1>3. j \in Task
  BY DEF Visited
<1> QED
  BY <1>2, <1>3 DEF Needs


---------------------------------------------------------------------------
\* What the checkpoints say, while no session was lost.

InOrder(r) == Visited(r) \in Prefixes

LockedIsNew(r) == pc[r] = "lock" => Visited(r) = {}

\* A run at work and the checkpoints agree on what is DONE.
OutcomesAreSaved(r) ==
  Active(r) => \A k \in Visited(r) :
                 states[r][k] = "DONE" <=> checkpoint[<<day[r], k>>] = "DONE"

\* A stopping step is skipped only because another one failed.
SkipsHaveCause(r) ==
  \A k \in Task : k[2] \in StopOnFail /\ states[r][k] = "SKIPPED" => StopTenant(r, k[1])

ChosenIsOpen(r) ==
  \A k \in Task : pc[r] \in Handling /\ IsNext(r, k) =>
    ~ Blocked(r, k) /\ checkpoint[<<day[r], k>>] # "DONE"

RunFits(r) ==
  InOrder(r) /\ LockedIsNew(r) /\ OutcomesAreSaved(r) /\ SkipsHaveCause(r) /\ ChosenIsOpen(r)

\* The steps that request x needs are DONE for its date.
Founded(x) == \A j \in Needs(x[2]) : checkpoint[<<x[1], j>>] = "DONE"

AllFounded == \A x \in executed \cup loose : Founded(x)

KeptInv == ~ split => (\A r \in Run : RunFits(r)) /\ AllFounded

LEMMA NeedsAreTasks == \A k \in Task : Needs(k) \subseteq Task
BY DepsAreTasks DEF Needs

LEMMA KeptInit == Init => KeptInv
<1> SUFFICES ASSUME Init PROVE (\A r \in Run : RunFits(r)) /\ AllFounded
  BY DEF KeptInv
<1>1. ASSUME NEW r \in Run PROVE RunFits(r)
  <2>1. states[r] = Unvisited /\ pc[r] = "idle"
    BY DEF Init
  <2>2. \A k \in Task : states[r][k] = ""
    BY <2>1 DEF Unvisited
  <2>3. Visited(r) = {}
    BY <2>2 DEF Visited
  <2>4. InOrder(r)
    BY <2>3, PrefixesAreClosed DEF InOrder, Closed
  <2> QED
    BY <2>1, <2>2, <2>3, <2>4 DEF RunFits, LockedIsNew, OutcomesAreSaved, SkipsHaveCause,
       ChosenIsOpen, Handling
<1>2. AllFounded
  BY DEF Init, AllFounded
<1> QED
  BY <1>1, <1>2

\* A step that is asked for has what it needs: no stopping step before it
\* failed or was skipped.
LEMMA ChosenIsFounded ==
  ASSUME TypeOK, NEW r \in Run, NEW k \in Task,
         RunFits(r), Active(r), IsNext(r, k), ~ Blocked(r, k)
  PROVE  Founded(<<day[r], k>>)
<1> SUFFICES ASSUME NEW j \in Needs(k) PROVE checkpoint[<<day[r], j>>] = "DONE"
  BY DEF Founded
<1>1. j \in Visited(r) /\ j \in Task
  BY NeedsAreVisited, NeedsAreTasks DEF RunFits, InOrder
<1>2. CASE j \in Deps(k)
  <2>1. states[r][j] = "DONE"
    BY <1>2 DEF Blocked
  <2> QED
    BY <1>1, <2>1 DEF RunFits, OutcomesAreSaved
<1>3. CASE j[1] = k[1] /\ j[2] \in StopOnFail
  <2>1. ~ StopTenant(r, j[1])
    BY <1>3 DEF Blocked
  <2>2. states[r][j] # "FAILED" /\ states[r][j] # "SKIPPED"
    BY <1>1, <1>3, <2>1 DEF StopTenant, RunFits, SkipsHaveCause
  <2>3. states[r][j] = "DONE"
    <3>1. states[r] \in States
      BY DEF TypeOK, States
    <3> QED
      BY <1>1, <2>2, <3>1 DEF States, Visited
  <2> QED
    BY <1>1, <2>3 DEF RunFits, OutcomesAreSaved
<1> QED
  BY <1>2, <1>3 DEF Needs

\* A step that is DONE is not skipped: what blocked it would have kept it from
\* being executed.
LEMMA DoneIsNotBlocked ==
  ASSUME TypeOK, TaskInv, AllFounded, NEW r \in Run, NEW k \in Task,
         RunFits(r), Active(r), IsNext(r, k), checkpoint[<<day[r], k>>] = "DONE"
  PROVE  ~ Blocked(r, k)
<1>1. <<day[r], k>> \in executed
  <2>1. <<day[r], k>> \in Date \X Task
    BY Dates DEF TypeOK
  <2> QED
    BY <2>1 DEF TaskInv, DoneWasExecuted
<1>2. \A j \in Needs(k) : checkpoint[<<day[r], j>>] = "DONE"
  BY <1>1 DEF AllFounded, Founded
<1>3. \A j \in Needs(k) \cap Visited(r) : states[r][j] = "DONE"
  BY <1>2 DEF RunFits, OutcomesAreSaved
<1>4. NextIn(Visited(r), k)
  BY NextOfVisited
<1>5. \A j \in Deps(k) : states[r][j] = "DONE"
  BY <1>3, <1>4 DEF NextIn, Needs
<1>6. ASSUME NEW j \in Task, j[1] = k[1], states[r][j] = "FAILED", j[2] \in StopOnFail
      PROVE  FALSE
  <2>1. j \in Visited(r) /\ k \notin Visited(r)
    BY <1>4, <1>6 DEF Visited, NextIn
  <2>2. j \in Needs(k)
    BY <1>6, <2>1, VisitedStopsAreNeeded DEF RunFits, InOrder
  <2> QED
    BY <1>3, <1>6, <2>1, <2>2
<1>7. ~ StopTenant(r, k[1])
  BY <1>6 DEF StopTenant
<1> QED
  BY <1>5, <1>7 DEF Blocked


---------------------------------------------------------------------------
\* The effects of a step on the checkpoints.

Asks(r, x) == pc[r] = "call" /\ x[1] = day[r] /\ IsNext(r, x[2])

\* No checkpoint is written; a run is called, goes on or ends; a request is
\* executed or left behind.
Rests ==
  /\ checkpoint' = checkpoint
  /\ split => split'
  /\ \A x \in executed' \cup loose' :
       x \in executed \cup loose \/ \E r \in Run : Asks(r, x)
  /\ \A r \in Run :
       \/ states'[r] = Unvisited /\ pc'[r] = "lock"
       \/ /\ states'[r] = states[r] /\ day'[r] = day[r]
          /\ pc'[r] = "lock" => pc[r] = "lock"
          /\ Active(r)' => Active(r) \/ pc[r] = "lock"
          /\ pc'[r] \in Handling => pc[r] \in Handling

\* Only run r takes a step, and it asks for nothing new.
Alone(r) ==
  /\ UNCHANGED <<day, executed, loose, split>>
  /\ \A q \in Run \ {r} : pc'[q] = pc[q] /\ states'[q] = states[q]

Opens(r, k) ==
  /\ Alone(r)
  /\ IsNext(r, k) /\ ~ Blocked(r, k) /\ checkpoint[<<day[r], k>>] # "DONE"
  /\ pc[r] = "steps" /\ pc'[r] = "start"
  /\ UNCHANGED <<checkpoint, states>>

Starts(r, k) ==
  /\ Alone(r)
  /\ IsNext(r, k)
  /\ pc[r] = "start" /\ pc'[r] = "call"
  /\ states' = states
  /\ checkpoint' = [checkpoint EXCEPT ![<<day[r], k>>] = "RUNNING"]

Settles(r, k, status) ==
  /\ Alone(r)
  /\ IsNext(r, k)
  /\ status = "SKIPPED" => Blocked(r, k)
  /\ pc[r] \in {"steps", "mark"} /\ pc'[r] = "steps"
  /\ states' = [states EXCEPT ![r][k] = status]
  /\ \A x \in Date \X Task : x # <<day[r], k>> => checkpoint'[x] = checkpoint[x]
  /\ checkpoint'[<<day[r], k>>] = "DONE" <=> status = "DONE"
  /\ checkpoint[<<day[r], k>>] = "DONE" => status = "DONE"

LEMMA VisitedIsStable ==
  ASSUME NEW r \in Run, states'[r] = states[r]
  PROVE  /\ Visited(r)' = Visited(r)
         /\ \A k : IsNext(r, k)' <=> IsNext(r, k)
         /\ \A k : Blocked(r, k)' <=> Blocked(r, k)
         /\ \A t : StopTenant(r, t)' <=> StopTenant(r, t)
<1>1. Visited(r)' = Visited(r)
  BY DEF Visited
<1>2. \A t : StopTenant(r, t)' <=> StopTenant(r, t)
  BY DEF StopTenant
<1>3. \A k : Blocked(r, k)' <=> Blocked(r, k)
  BY <1>2 DEF Blocked
<1> QED
  BY <1>1, <1>2, <1>3, NextIsStable

LEMMA NewRunFits ==
  ASSUME NEW r \in Run, states'[r] = Unvisited, pc'[r] = "lock"
  PROVE  RunFits(r)'
<1>1. \A k \in Task : states'[r][k] = ""
  BY DEF Unvisited
<1>2. Visited(r)' = {}
  BY <1>1 DEF Visited
<1>3. InOrder(r)'
  BY <1>2, PrefixesAreClosed DEF InOrder, Closed
<1> QED
  BY <1>1, <1>2, <1>3 DEF RunFits, LockedIsNew, OutcomesAreSaved, SkipsHaveCause, ChosenIsOpen,
     Handling

LEMMA RestsKeep ==
  ASSUME TypeOK, KeptInv, Rests
  PROVE  KeptInv'
<1> SUFFICES ASSUME ~ split' PROVE ((\A r \in Run : RunFits(r)) /\ AllFounded)'
  BY DEF KeptInv
<1>1. ~ split /\ AllFounded /\ checkpoint' = checkpoint /\ \A r \in Run : RunFits(r)
  BY DEF KeptInv, Rests
<1>2. ASSUME NEW r \in Run PROVE RunFits(r)'
  <2>1. CASE states'[r] = Unvisited /\ pc'[r] = "lock"
    BY <2>1, NewRunFits
  <2>2. CASE /\ states'[r] = states[r] /\ day'[r] = day[r]
             /\ pc'[r] = "lock" => pc[r] = "lock"
             /\ Active(r)' => Active(r) \/ pc[r] = "lock"
             /\ pc'[r] \in Handling => pc[r] \in Handling
    <3>0. /\ Visited(r)' = Visited(r)
          /\ \A k : IsNext(r, k)' <=> IsNext(r, k)
          /\ \A k : Blocked(r, k)' <=> Blocked(r, k)
          /\ \A t : StopTenant(r, t)' <=> StopTenant(r, t)
      BY <2>2, VisitedIsStable
    <3>1. InOrder(r)' /\ LockedIsNew(r)'
      BY <1>1, <2>2, <3>0 DEF RunFits, InOrder, LockedIsNew
    <3>2. OutcomesAreSaved(r)'
      BY <1>1, <2>2, <3>0 DEF RunFits, OutcomesAreSaved, LockedIsNew
    <3>3. SkipsHaveCause(r)'
      BY <1>1, <2>2, <3>0 DEF RunFits, SkipsHaveCause
    <3>4. ChosenIsOpen(r)'
      <4>1. pc'[r] \in Handling => pc[r] \in Handling
        BY <2>2
      <4> QED
        BY <1>1, <2>2, <3>0, <4>1 DEF RunFits, ChosenIsOpen, Handling
    <3> QED
      BY <3>1, <3>2, <3>3, <3>4 DEF RunFits
  <2> QED
    BY <2>1, <2>2 DEF Rests
<1>3. ASSUME NEW x \in executed' \cup loose' PROVE Founded(x)'
  <2>1. CASE x \in executed \cup loose
    BY <1>1, <2>1 DEF AllFounded, Founded
  <2>2. ASSUME NEW r \in Run, Asks(r, x) PROVE Founded(x)'
    <3>1. pc[r] = "call" /\ x[1] = day[r] /\ IsNext(r, x[2]) /\ x[2] \in Task
      BY <2>2, NextIsTask DEF Asks
    <3>2. Active(r) /\ ~ Blocked(r, x[2])
      BY <1>1, <3>1 DEF RunFits, ChosenIsOpen, Handling, Active, Working
    <3>3. Founded(<<day[r], x[2]>>)
      BY <1>1, <3>1, <3>2, ChosenIsFounded
    <3> QED
      BY <1>1, <3>1, <3>3 DEF Founded
  <2> QED
    BY <2>1, <2>2 DEF Rests
<1> QED
  BY <1>2, <1>3 DEF AllFounded

\* The other runs are at work on other dates.
LEMMA OthersFit ==
  ASSUME TypeOK, LockInv, ~ split, NEW r \in Run, Active(r), Alone(r),
         \A x \in Date \X Task : x[1] # day[r] => checkpoint'[x] = checkpoint[x],
         NEW q \in Run \ {r}, RunFits(q)
  PROVE  RunFits(q)'
<1>1. pc'[q] = pc[q] /\ states'[q] = states[q] /\ day'[q] = day[q]
  BY DEF Alone
<1>2. /\ Visited(q)' = Visited(q)
      /\ \A k : IsNext(q, k)' <=> IsNext(q, k)
      /\ \A k : Blocked(q, k)' <=> Blocked(q, k)
      /\ \A t : StopTenant(q, t)' <=> StopTenant(q, t)
  BY <1>1, VisitedIsStable
<1>3. Active(q) => day[q] # day[r]
  BY DEF LockInv
<1>4. Active(q) => \A k \in Task : checkpoint'[<<day[q], k>>] = checkpoint[<<day[q], k>>]
  <2>1. \A k \in Task : <<day[q], k>> \in Date \X Task
    BY Dates DEF TypeOK
  <2> QED
    BY <1>3, <2>1
<1>5. pc[q] \in Handling => Active(q)
  BY DEF Handling, Active, Working
<1>6. InOrder(q)' /\ LockedIsNew(q)' /\ SkipsHaveCause(q)'
  BY <1>1, <1>2 DEF RunFits, InOrder, LockedIsNew, SkipsHaveCause
<1>7. OutcomesAreSaved(q)'
  BY <1>1, <1>2, <1>4 DEF RunFits, OutcomesAreSaved, Active, Visited
<1>8. ChosenIsOpen(q)'
  <2> SUFFICES ASSUME NEW k \in Task, pc'[q] \in Handling, IsNext(q, k)'
               PROVE  ~ Blocked(q, k)' /\ checkpoint'[<<day'[q], k>>] # "DONE"
    BY DEF ChosenIsOpen, Handling
  <2> QED
    BY <1>1, <1>2, <1>4, <1>5 DEF RunFits, ChosenIsOpen
<1> QED
  BY <1>6, <1>7, <1>8 DEF RunFits


KeepsDone == \A x \in Date \X Task : checkpoint[x] = "DONE" => checkpoint'[x] = "DONE"

LEMMA FoundedKeep ==
  ASSUME TypeOK, AllFounded, NEW r \in Run, Alone(r), KeepsDone
  PROVE  AllFounded'
<1> SUFFICES ASSUME NEW x \in executed \cup loose, NEW j \in Needs(x[2])
             PROVE  checkpoint'[<<x[1], j>>] = "DONE"
  BY DEF AllFounded, Founded, Alone
<1>1. x[1] \in Date /\ x[2] \in Task
  BY DEF TypeOK
<1>2. <<x[1], j>> \in Date \X Task
  BY <1>1, NeedsAreTasks
<1> QED
  BY <1>2 DEF AllFounded, Founded, KeepsDone

LEMMA OpensKeep ==
  ASSUME TypeOK, LockInv, KeptInv, ~ split, NEW r \in Run, NEW k \in Task, Opens(r, k)
  PROVE  KeptInv' /\ KeepsDone
<1>0. AllFounded /\ \A q \in Run : RunFits(q)
  BY DEF KeptInv
<1>1. Active(r) /\ Alone(r) /\ checkpoint' = checkpoint /\ states' = states /\ day' = day
  BY DEF Opens, Alone, Active, Working
<1>2. KeepsDone
  BY <1>1 DEF KeepsDone
<1>3. \A q \in Run \ {r} : RunFits(q)'
  BY <1>0, <1>1, OthersFit
<1>4. RunFits(r)'
  <2>0. /\ Visited(r)' = Visited(r)
        /\ \A j : IsNext(r, j)' <=> IsNext(r, j)
        /\ \A j : Blocked(r, j)' <=> Blocked(r, j)
        /\ \A t : StopTenant(r, t)' <=> StopTenant(r, t)
    BY <1>1, VisitedIsStable
  <2>1. pc'[r] = "start" /\ Active(r)
    BY <1>1 DEF Opens
  <2>2. InOrder(r)' /\ LockedIsNew(r)' /\ SkipsHaveCause(r)' /\ OutcomesAreSaved(r)'
    BY <1>0, <1>1, <2>0, <2>1 DEF RunFits, InOrder, LockedIsNew, SkipsHaveCause, OutcomesAreSaved
  <2>3. ChosenIsOpen(r)'
    <3> SUFFICES ASSUME NEW j \in Task, IsNext(r, j)'
                 PROVE  ~ Blocked(r, j)' /\ checkpoint'[<<day'[r], j>>] # "DONE"
      BY DEF ChosenIsOpen
    <3>1. j = k
      BY <2>0, NextIsUnique DEF Opens
    <3> QED
      BY <1>1, <2>0, <3>1 DEF Opens
  <2> QED
    BY <2>2, <2>3 DEF RunFits
<1>5. AllFounded'
  BY <1>0, <1>1, <1>2, FoundedKeep
<1> QED
  BY <1>2, <1>3, <1>4, <1>5 DEF KeptInv

LEMMA StartsKeep ==
  ASSUME TypeOK, LockInv, KeptInv, ~ split, NEW r \in Run, NEW k \in Task, Starts(r, k)
  PROVE  KeptInv' /\ KeepsDone
<1>0. AllFounded /\ \A q \in Run : RunFits(q)
  BY DEF KeptInv
<1>1. Active(r) /\ Alone(r) /\ states' = states /\ day' = day /\ pc[r] \in Handling
  BY DEF Starts, Alone, Active, Working, Handling
<1>2. <<day[r], k>> \in Date \X Task
  BY Dates DEF TypeOK
<1>3. /\ checkpoint'[<<day[r], k>>] = "RUNNING"
      /\ \A x \in Date \X Task : x # <<day[r], k>> => checkpoint'[x] = checkpoint[x]
  BY <1>2 DEF Starts, TypeOK
<1>4. checkpoint[<<day[r], k>>] # "DONE"
  BY <1>0, <1>1 DEF Starts, RunFits, ChosenIsOpen
<1>5. KeepsDone
  BY <1>3, <1>4 DEF KeepsDone
<1>6. \A q \in Run \ {r} : RunFits(q)'
  BY <1>0, <1>1, <1>3, OthersFit
<1>7. RunFits(r)'
  <2>0. /\ Visited(r)' = Visited(r)
        /\ \A j : IsNext(r, j)' <=> IsNext(r, j)
        /\ \A j : Blocked(r, j)' <=> Blocked(r, j)
        /\ \A t : StopTenant(r, t)' <=> StopTenant(r, t)
    BY <1>1, VisitedIsStable
  <2>1. pc'[r] = "call" /\ k \notin Visited(r) /\ Visited(r) \subseteq Task
    BY DEF Starts, IsNext, Ready, Visited
  <2>2. InOrder(r)' /\ LockedIsNew(r)' /\ SkipsHaveCause(r)'
    BY <1>0, <1>1, <2>0, <2>1 DEF RunFits, InOrder, LockedIsNew, SkipsHaveCause
  <2>3. OutcomesAreSaved(r)'
    <3>1. \A j \in Visited(r) : checkpoint'[<<day[r], j>>] = checkpoint[<<day[r], j>>]
      <4> TAKE j \in Visited(r)
      <4>1. <<day[r], j>> \in Date \X Task /\ <<day[r], j>> # <<day[r], k>>
        BY <2>1, Dates DEF TypeOK
      <4> QED
        BY <1>3, <4>1
    <3> QED
      BY <1>0, <1>1, <2>0, <3>1 DEF RunFits, OutcomesAreSaved
  <2>4. ChosenIsOpen(r)'
    <3> SUFFICES ASSUME NEW j \in Task, IsNext(r, j)'
                 PROVE  ~ Blocked(r, j)' /\ checkpoint'[<<day'[r], j>>] # "DONE"
      BY DEF ChosenIsOpen
    <3>1. j = k
      BY <2>0, NextIsUnique DEF Starts
    <3>2. ~ Blocked(r, k)
      BY <1>0, <1>1 DEF Starts, RunFits, ChosenIsOpen
    <3> QED
      BY <1>1, <1>3, <2>0, <3>1, <3>2
  <2> QED
    BY <2>2, <2>3, <2>4 DEF RunFits
<1>8. AllFounded'
  BY <1>0, <1>1, <1>5, FoundedKeep
<1> QED
  BY <1>5, <1>6, <1>7, <1>8 DEF KeptInv

LEMMA SettlesKeep ==
  ASSUME StopsAreClosed, TypeOK, LockInv, KeptInv, ~ split, NEW r \in Run, NEW k \in Task,
         NEW status \in {"DONE", "FAILED", "SKIPPED"}, Settles(r, k, status)
  PROVE  KeptInv' /\ KeepsDone
<1>0. AllFounded /\ \A q \in Run : RunFits(q)
  BY DEF KeptInv
<1>1. Active(r) /\ Alone(r) /\ day' = day /\ IsNext(r, k)
  BY DEF Settles, Alone, Active, Working
<1>2. /\ \A x \in Date \X Task : x # <<day[r], k>> => checkpoint'[x] = checkpoint[x]
      /\ checkpoint'[<<day[r], k>>] = "DONE" <=> status = "DONE"
      /\ checkpoint[<<day[r], k>>] = "DONE" => status = "DONE"
  BY DEF Settles
<1>3. KeepsDone
  BY <1>2 DEF KeepsDone
<1>4. \A q \in Run \ {r} : RunFits(q)'
  <2>1. \A x \in Date \X Task : x[1] # day[r] => checkpoint'[x] = checkpoint[x]
    BY <1>2
  <2> QED
    BY <1>0, <1>1, <2>1, OthersFit
<1>5. RunFits(r)'
  <2>0. NextIn(Visited(r), k) /\ k \notin Visited(r) /\ Visited(r) \subseteq Task
    BY <1>1, NextOfVisited DEF NextIn, Visited
  <2>1. states'[r][k] = status /\ \A j \in Task : j # k => states'[r][j] = states[r][j]
    BY DEF Settles, TypeOK
  <2>2. Visited(r)' = Visited(r) \cup {k}
    BY <2>1 DEF Visited
  <2>3. pc'[r] = "steps"
    BY DEF Settles
  <2>4. InOrder(r)'
    BY <1>0, <2>0, <2>2, PrefixesAreClosed DEF RunFits, InOrder, Closed
  <2>5. LockedIsNew(r)' /\ ChosenIsOpen(r)'
    BY <2>3 DEF LockedIsNew, ChosenIsOpen, Handling
  <2>6. OutcomesAreSaved(r)'
    <3> SUFFICES ASSUME NEW j \in Visited(r) \cup {k}
                 PROVE  states'[r][j] = "DONE" <=> checkpoint'[<<day[r], j>>] = "DONE"
      BY <1>1, <2>2 DEF OutcomesAreSaved
    <3>1. CASE j = k
      BY <1>2, <2>1, <3>1
    <3>2. CASE j # k
      <4>1. j \in Visited(r) /\ <<day[r], j>> \in Date \X Task /\ <<day[r], j>> # <<day[r], k>>
        BY <2>0, <3>2, Dates DEF TypeOK
      <4>2. states'[r][j] = states[r][j] /\ checkpoint'[<<day[r], j>>] = checkpoint[<<day[r], j>>]
        BY <1>2, <2>0, <2>1, <3>2, <4>1
      <4> QED
        BY <1>0, <1>1, <4>1, <4>2 DEF RunFits, OutcomesAreSaved
    <3> QED
      BY <3>1, <3>2
  <2>7. SkipsHaveCause(r)'
    <3>1. \A t : StopTenant(r, t) => StopTenant(r, t)'
      BY <2>0, <2>1 DEF StopTenant, Visited
    <3>2. \A j \in Task : j[2] \in StopOnFail /\ states[r][j] = "SKIPPED" => StopTenant(r, j[1])
      BY <1>0 DEF RunFits, SkipsHaveCause
    <3>3. ASSUME k[2] \in StopOnFail, Blocked(r, k) PROVE StopTenant(r, k[1])
      <4>1. CASE StopTenant(r, k[1])
        BY <4>1
      <4>2. ASSUME NEW j \in Deps(k), states[r][j] # "DONE" PROVE StopTenant(r, k[1])
        <5>1. j[1] = k[1] /\ j[2] \in StopOnFail
          <6>1. k[2] \in Step
            BY DEF Task
          <6> QED
            BY <3>3, <6>1 DEF StopsAreClosed, Deps
        <5>2. j \in Visited(r) /\ j \in Task
          BY <2>0 DEF NextIn
        <5>3. states[r][j] \in {"FAILED", "SKIPPED"}
          <6>1. states[r] \in States
            BY DEF TypeOK, States
          <6> QED
            BY <4>2, <5>2, <6>1 DEF States, Visited
        <5> QED
          BY <3>2, <5>1, <5>2, <5>3 DEF StopTenant
      <4> QED
        BY <3>3, <4>1, <4>2 DEF Blocked
    <3>4. status = "SKIPPED" => Blocked(r, k)
      BY DEF Settles
    <3> QED
      BY <2>1, <3>1, <3>2, <3>3, <3>4 DEF SkipsHaveCause
  <2> QED
    BY <2>4, <2>5, <2>6, <2>7 DEF RunFits
<1>6. AllFounded'
  BY <1>0, <1>1, <1>3, FoundedKeep
<1> QED
  BY <1>3, <1>4, <1>5, <1>6 DEF KeptInv


\* Every step of Next has one of these effects.
LEMMA RestStart ==
  ASSUME TypeOK, NEW r \in Run,
         \/ Call(r) \/ Acquire(r) \/ Refuse(r) \/ AlreadySucceeded(r) \/ NotSucceeded(r)
         \/ BeginEOD(r) \/ VerifyDate(r) \/ RecordRun(r)
  PROVE  Rests
<1> USE DEF calendar, records, owners, history, Return, Goto, Handling, Active, Working
<1>1. CASE Call(r)
  BY <1>1 DEF Rests, TypeOK, Call
<1>2. CASE Acquire(r)
  BY <1>2 DEF Rests, TypeOK, Acquire
<1>3. CASE Refuse(r) \/ AlreadySucceeded(r) \/ NotSucceeded(r)
  BY <1>3 DEF Rests, TypeOK, Refuse, AlreadySucceeded, NotSucceeded
<1>4. CASE BeginEOD(r) \/ VerifyDate(r) \/ RecordRun(r)
  BY <1>4 DEF Rests, TypeOK, BeginEOD, VerifyDate, RecordRun
<1> QED BY <1>1, <1>2, <1>3, <1>4

LEMMA RestEnd ==
  ASSUME TypeOK, NEW r \in Run,
         \/ FailEOD(r) \/ CompleteEOD(r) \/ CompleteUnseen(r) \/ CompleteRefused(r)
         \/ ReleaseEOD(r) \/ ReleaseFails(r) \/ LoseSession(r)
  PROVE  Rests
<1> USE DEF calendar, records, owners, history, Return, Goto, Handling, Active, Working
<1>1. CASE FailEOD(r) \/ CompleteRefused(r)
  BY <1>1 DEF Rests, TypeOK, FailEOD, CompleteRefused
<1>2. CASE CompleteEOD(r) \/ CompleteUnseen(r)
  <2>1. pc[r] = "steps"
    BY <1>2 DEF CompleteEOD, CompleteUnseen, Advance
  <2> QED
    BY <1>2, <2>1 DEF Rests, TypeOK, CompleteEOD, CompleteUnseen
<1>3. CASE ReleaseEOD(r) \/ ReleaseFails(r)
  BY <1>3 DEF Rests, TypeOK, ReleaseEOD, ReleaseFails
<1>4. CASE LoseSession(r)
  BY <1>4 DEF Rests, TypeOK, LoseSession
<1> QED BY <1>1, <1>2, <1>3, <1>4

LEMMA RestCalls ==
  ASSUME TypeOK, NEW r \in Run, Succeed(r) \/ ReportFailure(r) \/ CallLost(r) \/ Abort(r)
  PROVE  Rests
<1> USE DEF calendar, records, owners, history, Return, Goto, Handling, Active, Working
<1>1. CASE Succeed(r)
  <2>1. PICK k \in Task : IsNext(r, k) /\ executed' = executed \cup {<<day[r], k>>}
    BY <1>1 DEF Succeed
  <2>2. Asks(r, <<day[r], k>>)
    BY <1>1, <2>1 DEF Succeed, Asks
  <2> QED
    BY <1>1, <2>1, <2>2 DEF Rests, TypeOK, Succeed
<1>2. CASE ReportFailure(r)
  BY <1>2 DEF Rests, TypeOK, ReportFailure
<1>3. CASE CallLost(r)
  <2>1. PICK k \in Task : IsNext(r, k) /\ loose' = loose \cup {<<day[r], k>>}
    BY <1>3 DEF CallLost
  <2>2. Asks(r, <<day[r], k>>)
    BY <1>3, <2>1 DEF CallLost, Asks
  <2> QED
    BY <1>3, <2>1, <2>2 DEF Rests, TypeOK, CallLost
<1>4. CASE Abort(r)
  <2>1. \A x \in loose' : x \in loose \/ Asks(r, x)
    BY <1>4 DEF Abort, Orphan, Asks
  <2>2. pc' = [pc EXCEPT ![r] = pc'[r]] /\ pc'[r] \in {"idle", "release"}
    BY <1>4 DEF Abort, TypeOK
  <2>3. pc'[r] = "release" => pc[r] \in {"record", "steps", "start", "call", "mark"}
    BY <1>4 DEF Abort, TypeOK
  <2> QED
    BY <1>4, <2>1, <2>2, <2>3 DEF Rests, TypeOK, Abort
<1> QED BY <1>1, <1>2, <1>3, <1>4

LEMMA RestElse ==
  ASSUME TypeOK,
         \/ \E s \in Session : CloseIdle(s)
         \/ \E p \in Process : Crash(p)
         \/ \E x \in loose : ExecuteLate(x)
         \/ UNCHANGED vars
  PROVE  Rests
<1> USE DEF calendar, records, owners, history, Handling, Active, Working
<1>1. ASSUME NEW s \in Session, CloseIdle(s) PROVE Rests
  BY <1>1 DEF Rests, CloseIdle
<1>2. ASSUME NEW p \in Process, Crash(p) PROVE Rests
  <2>1. \A x \in loose' : x \in loose \/ \E r \in Run : Asks(r, x)
    BY <1>2 DEF Crash, Orphan, Asks
  <2>2. \A r \in Run : pc'[r] = "idle" \/ pc'[r] = pc[r]
    BY <1>2 DEF Crash
  <2> QED
    BY <1>2, <2>1, <2>2 DEF Rests, Crash
<1>3. ASSUME NEW x \in loose, ExecuteLate(x) PROVE Rests
  BY <1>3 DEF Rests, ExecuteLate
<1>4. CASE UNCHANGED vars
  BY <1>4 DEF Rests, vars
<1> QED BY <1>1, <1>2, <1>3, <1>4

LEMMA OpenEffect ==
  ASSUME TypeOK, NEW r \in Run, Choose(r)
  PROVE  \E k \in Task : Opens(r, k)
<1>1. PICK k \in Task : IsNext(r, k) /\ ~ Blocked(r, k) /\ checkpoint[<<day[r], k>>] # "DONE"
  BY DEF Choose
<1>2. Alone(r)
  BY DEF Choose, Goto, Alone, owners, history, TypeOK
<1> QED BY <1>1, <1>2 DEF Opens, Choose, Goto, records, TypeOK

LEMMA StartEffect ==
  ASSUME TypeOK, NEW r \in Run, StartJobRun(r)
  PROVE  \E k \in Task : Starts(r, k)
<1>1. PICK k \in Task : /\ IsNext(r, k)
                        /\ checkpoint' = [checkpoint EXCEPT ![<<day[r], k>>] = "RUNNING"]
  BY DEF StartJobRun
<1>2. Alone(r)
  BY DEF StartJobRun, Goto, Alone, owners, history, TypeOK
<1> QED BY <1>1, <1>2 DEF Starts, StartJobRun, Goto, TypeOK

LEMMA SettleEffect ==
  ASSUME TypeOK, TaskInv, KeptInv, ~ split, NEW r \in Run,
         Skip(r) \/ AlreadyDone(r) \/ GiveUp(r) \/ MarkRun(r) \/ MarkFails(r)
  PROVE  \E k \in Task, status \in {"DONE", "FAILED", "SKIPPED"} : Settles(r, k, status)
<1> USE DEF calendar, records, owners, history, Goto, Outcome
<1>0. /\ AllFounded /\ RunFits(r)
      /\ \A k \in Task : <<day[r], k>> \in Date \X Task
  BY Dates DEF TypeOK, KeptInv
<1>1. CASE Skip(r)
  <2>1. PICK k \in Task : /\ IsNext(r, k) /\ Blocked(r, k)
                          /\ checkpoint' = [checkpoint EXCEPT ![<<day[r], k>>] = "SKIPPED"]
                          /\ states' = [states EXCEPT ![r][k] = "SKIPPED"]
    BY <1>1 DEF Skip
  <2>2. pc[r] = "steps" /\ pc' = pc /\ Alone(r)
    BY <1>1, <2>1 DEF Skip, Alone, TypeOK
  <2>3. checkpoint[<<day[r], k>>] # "DONE"
    <3>1. Active(r)
      BY <2>2 DEF Active, Working
    <3> QED
      BY <1>0, <2>1, <3>1, DoneIsNotBlocked
  <2>4. /\ checkpoint'[<<day[r], k>>] = "SKIPPED"
        /\ \A x \in Date \X Task : x # <<day[r], k>> => checkpoint'[x] = checkpoint[x]
    BY <1>0, <2>1 DEF TypeOK
  <2> QED BY <2>1, <2>2, <2>3, <2>4 DEF Settles
<1>2. CASE AlreadyDone(r)
  <2>1. PICK k \in Task : /\ IsNext(r, k) /\ checkpoint[<<day[r], k>>] = "DONE"
                          /\ states' = [states EXCEPT ![r][k] = "DONE"]
    BY <1>2 DEF AlreadyDone
  <2>2. pc[r] = "steps" /\ pc' = pc /\ checkpoint' = checkpoint /\ Alone(r)
    BY <1>2, <2>1 DEF AlreadyDone, Alone, TypeOK
  <2> QED BY <2>1, <2>2 DEF Settles
<1>3. CASE GiveUp(r)
  <2>1. PICK k \in Task : /\ IsNext(r, k) /\ NotRetryable(r, k)
                          /\ states' = [states EXCEPT ![r][k] = "FAILED"]
    BY <1>3 DEF GiveUp
  <2>2. pc[r] = "steps" /\ pc' = pc /\ checkpoint' = checkpoint /\ Alone(r)
    BY <1>3, <2>1 DEF GiveUp, Alone, TypeOK
  <2> QED BY <2>1, <2>2 DEF Settles, NotRetryable
<1>4. CASE MarkRun(r)
  <2>1. PICK k \in Task : /\ IsNext(r, k)
                          /\ checkpoint' = [checkpoint EXCEPT ![<<day[r], k>>] = answer[r]]
                          /\ states' = [states EXCEPT ![r][k] = answer[r]]
    BY <1>4 DEF MarkRun
  <2>2. answer[r] \in {"DONE", "FAILED"} /\ pc[r] = "mark" /\ pc'[r] = "steps" /\ Alone(r)
    BY <1>4, <2>1 DEF MarkRun, Alone, TypeOK
  <2>3. checkpoint[<<day[r], k>>] # "DONE"
    BY <1>0, <2>1, <2>2 DEF RunFits, ChosenIsOpen, Handling
  <2>4. /\ checkpoint'[<<day[r], k>>] = answer[r]
        /\ \A x \in Date \X Task : x # <<day[r], k>> => checkpoint'[x] = checkpoint[x]
    BY <1>0, <2>1 DEF TypeOK
  <2> QED BY <2>1, <2>2, <2>3, <2>4 DEF Settles
<1>5. CASE MarkFails(r)
  <2>1. PICK k \in Task : IsNext(r, k) /\ states' = [states EXCEPT ![r][k] = "FAILED"]
    BY <1>5 DEF MarkFails
  <2>2. pc[r] = "mark" /\ pc'[r] = "steps" /\ checkpoint' = checkpoint /\ Alone(r)
    BY <1>5, <2>1 DEF MarkFails, Alone, TypeOK
  <2>3. checkpoint[<<day[r], k>>] # "DONE"
    BY <1>0, <2>1, <2>2 DEF RunFits, ChosenIsOpen, Handling
  <2> QED BY <2>1, <2>2, <2>3 DEF Settles
<1> QED BY <1>1, <1>2, <1>3, <1>4, <1>5

LEMMA CheckpointEffects ==
  ASSUME TypeOK, TaskInv, KeptInv, [Next]_vars, ~ split
  PROVE  \/ Rests
         \/ \E r \in Run, k \in Task : Opens(r, k) \/ Starts(r, k)
         \/ \E r \in Run, k \in Task, status \in {"DONE", "FAILED", "SKIPPED"} :
              Settles(r, k, status)
BY RestStart, RestEnd, RestCalls, RestElse, OpenEffect, StartEffect, SettleEffect
   DEF Next, Rest, RunStep, RunFault

LEMMA SplitIsKept ==
  ASSUME TypeOK, [Next]_vars, split
  PROVE  split'
BY LockEffects DEF Keeps, Acquire, LoseSession, CloseIdle, Crash, history

LEMMA KeptNext ==
  ASSUME StopsAreClosed, TypeOK, LockInv, TaskInv, KeptInv, [Next]_vars
  PROVE  KeptInv' /\ (split \/ KeepsDone)
<1>1. CASE split
  BY <1>1, SplitIsKept DEF KeptInv
<1>2. CASE ~ split
  <2>1. CASE Rests
    <3>1. KeepsDone
      BY <2>1 DEF Rests, KeepsDone
    <3> QED
      BY <2>1, <3>1, RestsKeep
  <2>2. ASSUME NEW r \in Run, NEW k \in Task, Opens(r, k) \/ Starts(r, k)
        PROVE  KeptInv' /\ KeepsDone
    BY <1>2, <2>2, OpensKeep, StartsKeep
  <2>3. ASSUME NEW r \in Run, NEW k \in Task, NEW status \in {"DONE", "FAILED", "SKIPPED"},
               Settles(r, k, status)
        PROVE  KeptInv' /\ KeepsDone
    BY <1>2, <2>3, SettlesKeep
  <2> QED
    BY <1>2, <2>1, <2>2, <2>3, CheckpointEffects
<1> QED BY <1>1, <1>2

\* Unless a session was lost, no failure, retry, resumed or overlapping run
\* overwrites the checkpoint of a step that is DONE, when what a stopping step
\* depends on stops too (RunSystem marks a blocked step SKIPPED without a look
\* at its status; eodStepCatalog).
THEOREM DoneStaysDone ==
  ASSUME StopsAreClosed
  PROVE  Spec => DoneIsKept
<1>1. TypeOK /\ LockInv /\ TaskInv /\ KeptInv /\ [Next]_vars => KeptInv'
  BY KeptNext
<1>2. TypeOK /\ LockInv /\ TaskInv /\ KeptInv /\ [Next]_vars
      => [split \/ \A x \in Date \X Task :
            checkpoint[x] = "DONE" => checkpoint'[x] = "DONE"]_vars
  BY KeptNext DEF KeepsDone
<1> QED
  BY <1>1, <1>2, LockInit, LockNext, TaskInit, TaskNext, KeptInit, TypeCorrect,
     PTL DEF Spec, DoneIsKept

\* Unless a session was lost, no step is asked for again once a dependent of it
\* was executed, when what a stopping step depends on stops too: a dependent
\* that was executed had it DONE, and DONE it has stayed.
THEOREM StepsAreNotRepeated ==
  ASSUME StopsAreClosed
  PROVE  Spec => []NoRepeatUnderDependent
<1>1. TypeOK /\ LockInv /\ TaskInv /\ KeptInv /\ [Next]_vars => KeptInv'
  BY KeptNext
<1>2. TypeOK /\ KeptInv => NoRepeatUnderDependent
  <2> SUFFICES ASSUME TypeOK, KeptInv, ~ split, NEW r \in Run, NEW j \in Task, NEW k \in Task,
                      pc[r] = "call", IsNext(r, k), k \in Deps(j), <<day[r], j>> \in executed
               PROVE  FALSE
    BY DEF NoRepeatUnderDependent
  <2>1. checkpoint[<<day[r], k>>] = "DONE"
    BY DEF KeptInv, AllFounded, Founded, Needs
  <2>2. checkpoint[<<day[r], k>>] # "DONE"
    BY DEF KeptInv, RunFits, ChosenIsOpen, Handling
  <2> QED
    BY <2>1, <2>2
<1> QED
  BY <1>1, <1>2, LockInit, LockNext, TaskInit, TaskNext, KeptInit, TypeCorrect, PTL DEF Spec
=============================================================================
