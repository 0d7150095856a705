----------------------------- MODULE CaseInbox -----------------------------
(***************************************************************************)
(* The inbox of one CUSTOMER_ADJUSTMENT case of workflow-service: rows of  *)
(* workflow_tasks that mirror the user tasks of the engine.                *)
(*                                                                         *)
(* The engine (Zeebe, external) has one user task open at a time:          *)
(* revisions, which are odd, and reviews of them, which are even; a review *)
(* asks for changes or ends the process.  The engine's records reach the   *)
(* index (Elasticsearch) in order, late.  The rows are written from the    *)
(* index by UserTaskProjector and closed by the completing request, by     *)
(* WorkflowReconciler or by FinishCase, which the worker of the terminal   *)
(* job calls.                                                              *)
(*                                                                         *)
(* READY and CLAIMED rows are open, COMPLETED and CANCELLED ones are not;  *)
(* an open row without a job is the ROUTING row of SeedEagerUserTask.      *)
(***************************************************************************)
EXTENDS Integers, Sequences, FiniteSets

CONSTANTS
  Request,    \* concurrent completions of tasks
  Projector,  \* what projects at the same time: the UserTaskProjectors
  MaxTasks,   \* bound: user tasks of the engine
  MaxFaults   \* bound: failed calls

Task == 1 .. MaxTasks
Steps == {"UT_CheckerReview", "UT_MakerRevise"}
StepOf(k) == IF k % 2 = 1 THEN "UT_MakerRevise" ELSE "UT_CheckerReview"

ASSUME BoundsAssumption == MaxTasks \in Nat \ {0} /\ MaxFaults \in Nat
ASSUME ProjectorAssumption == IsFiniteSet(Projector) /\ Projector # {}

VARIABLES
  events,    \* records the engine wrote: task k is created by the one numbered
             \* 2k - 1 and completed by the one numbered 2k
  exported,  \* how many of them the index has
  job,       \* the terminal job's handler
  rows,      \* rows of each step, by activation_no
  caseOpen,  \* completed_at of the case is NULL
  doing,     \* what each request does next
  target,    \* the task of each request
  final,     \* requests whose decision ends the case
  listed,    \* projectors that have listed the case
  found,     \* the task each projector found in the index, 0 for none
  seen,      \* the last activation_no its transaction read, or NotRead
  faults

engine == <<events, job>>
requests == <<doing, target, final>>
projectors == <<listed, found, seen>>
vars == <<events, exported, job, rows, caseOpen, doing, target, final, listed, found,
          seen, faults>>

Row == [job : 0 .. MaxTasks, open : BOOLEAN]
Placeholder == [job |-> 0, open |-> TRUE]
NotRead == -1

TypeOK ==
  /\ events \in 1 .. 2 * MaxTasks
  /\ exported \in 0 .. events
  /\ job \in {"none", "finish", "complete", "done"}
  /\ rows \in [Steps -> Seq(Row)]
  /\ caseOpen \in BOOLEAN
  /\ doing \in [Request -> {"idle", "complete", "close"}]
  /\ target \in [Request -> Task]
  /\ final \subseteq Request
  /\ listed \subseteq Projector
  /\ found \in [Projector -> 0 .. MaxTasks]
  /\ seen \in [Projector -> Nat \cup {NotRead}]
  /\ faults \in 0 .. MaxFaults

\* The case was submitted; its eager row was written, or writing it failed.
\* The row is for the step that comes first in the process's file, not the one
\* the engine comes to first.
Init ==
  /\ events = 1
  /\ exported = 0
  /\ job = "none"
  /\ \E R \in {<<>>, <<Placeholder>>} :
       rows = [s \in Steps |-> IF s = "UT_CheckerReview" THEN R ELSE <<>>]
  /\ caseOpen = TRUE
  /\ doing = [q \in Request |-> "idle"]
  /\ target = [q \in Request |-> 1]
  /\ final = {}
  /\ listed = {}
  /\ found = [p \in Projector |-> 0]
  /\ seen = [p \in Projector |-> NotRead]
  /\ faults = 0

Fault == faults < MaxFaults /\ faults' = faults + 1

(***************************************************************************)
(* The engine and the index of its records.                                *)
(***************************************************************************)
Live(k) == events = 2 * k - 1
Completed(k) == events >= 2 * k

\* The engine completes an open task and goes on: to the terminal job after
\* a final decision, to the next task otherwise.
EngineComplete(k, isFinal) ==
  /\ Live(k)
  /\ IF isFinal
     THEN events' = events + 1 /\ job' = "finish"
     ELSE k < MaxTasks /\ events' = events + 2 /\ UNCHANGED job

Export ==
  /\ exported < events
  /\ exported' = exported + 1
  /\ UNCHANGED <<engine, rows, caseOpen, requests, projectors, faults>>

\* userTasksFromES: the state of a task after its latest record.
IndexState(k) ==
  CASE exported >= 2 * k -> "COMPLETED"
    [] exported = 2 * k - 1 -> "CREATED"
    [] OTHER -> ""

(***************************************************************************)
(* The projector.                                                          *)
(***************************************************************************)
RowsOf(k) == {i \in DOMAIN rows[StepOf(k)] : rows[StepOf(k)][i].job = k}
HasOpenRow(k) == \E i \in RowsOf(k) : rows[StepOf(k)][i].open
Shut(R, I) == [i \in DOMAIN R |-> IF i \in I THEN [R[i] EXCEPT !.open = FALSE] ELSE R[i]]

Renewable(row, k) == row.job = k \/ row = Placeholder

\* Mutant: a new activation leaves the earlier rows as they are.
UpsertWithoutCancel(k, n) ==
  LET R == rows[StepOf(k)]
      row == [job |-> k, open |-> TRUE]
  IN rows' = [rows EXCEPT ![StepOf(k)] =
                IF n > 0 /\ Renewable(R[n], k)
                THEN [R EXCEPT ![n] = row]
                ELSE Append(R, row)]

\* UpsertWorkItem with a job, once it has the lock of row n: it renews a row of
\* the same job and binds a placeholder; any other one is history, and so are
\* all rows of the step.
UpsertWorkItem(k, n) ==
  LET R == rows[StepOf(k)]
      row == [job |-> k, open |-> TRUE]
  IN rows' = [rows EXCEPT ![StepOf(k)] =
                IF n > 0 /\ Renewable(R[n], k)
                THEN [R EXCEPT ![n] = row]
                ELSE Append(Shut(R, DOMAIN R), row)]

\* projectOnce: list the cases, search the index, write the row.
ListCases(p) ==
  /\ caseOpen
  /\ p \notin listed
  /\ found[p] = 0
  /\ listed' = listed \cup {p}
  /\ UNCHANGED <<engine, exported, rows, caseOpen, requests, found, seen, faults>>

SearchTasks(p) ==
  /\ p \in listed
  /\ listed' = listed \ {p}
  /\ \/ \E k \in Task : IndexState(k) = "CREATED" /\ found' = [found EXCEPT ![p] = k]
     \/ (\A k \in Task : IndexState(k) # "CREATED") /\ UNCHANGED found
  /\ UNCHANGED <<engine, exported, rows, caseOpen, requests, seen, faults>>

\* ORDER BY activation_no DESC LIMIT 1 FOR UPDATE takes the last row of the
\* statement's snapshot and may wait for its lock: others may have inserted
\* newer rows when it gets it, with the contents the row has by then.
ReadLast(p) ==
  /\ found[p] # 0
  /\ seen[p] = NotRead
  /\ seen' = [seen EXCEPT ![p] = Len(rows[StepOf(found[p])])]
  /\ UNCHANGED <<engine, exported, rows, caseOpen, requests, listed, found, faults>>

HasRead(p) == found[p] # 0 /\ seen[p] # NotRead
Stale(p) == HasRead(p) /\ seen[p] < Len(rows[StepOf(found[p])])
Renews(p) == seen[p] > 0 /\ Renewable(rows[StepOf(found[p])][seen[p]], found[p])

EndProjection(p) ==
  /\ found' = [found EXCEPT ![p] = 0]
  /\ seen' = [seen EXCEPT ![p] = NotRead]

\* The lock, the writes and the commit.
Project(p) ==
  /\ HasRead(p)
  /\ Stale(p) => Renews(p)
  /\ UpsertWorkItem(found[p], seen[p])
  /\ EndProjection(p)
  /\ UNCHANGED <<engine, exported, caseOpen, requests, listed, faults>>

\* An insert is refused by the unique index when its number is taken; or the
\* database ends it in a deadlock, when another one that read an earlier row
\* means to close all rows as well.
ProjectRefused(p) ==
  /\ HasRead(p)
  /\ ~ Renews(p)
  /\ \/ Stale(p)
     \/ \E other \in Projector :
          /\ Stale(other) /\ seen[other] > 0 /\ ~ Renews(other)
          /\ StepOf(found[other]) = StepOf(found[p])
  /\ EndProjection(p)
  /\ UNCHANGED <<engine, exported, rows, caseOpen, requests, listed, faults>>

\* A database error or a restart.
ProjectFails(p) ==
  /\ found[p] # 0
  /\ Fault
  /\ EndProjection(p)
  /\ UNCHANGED <<engine, exported, rows, caseOpen, requests, listed>>

(***************************************************************************)
(* The reconciler.                                                         *)
(***************************************************************************)
\* Mutant: only a task the index does not know is taken to be over.
ReconcileAbsentOnly(k) ==
  IndexState(k) = "" /\ \E j \in Task : IndexState(j) = "CREATED"

\* reconcileAction: close the row of a task the index knows to be over, or
\* does not know while it knows another one as open.
ReconcileClose(k) ==
  \/ IndexState(k) = "COMPLETED"
  \/ IndexState(k) = "" /\ \E j \in Task : IndexState(j) = "CREATED"

Reconcile ==
  /\ caseOpen
  /\ \E k \in Task : \E i \in RowsOf(k) :
       /\ rows[StepOf(k)][i].open
       /\ ReconcileClose(k)
       /\ rows' = [rows EXCEPT ![StepOf(k)] = Shut(@, {i})]
  /\ UNCHANGED <<engine, exported, caseOpen, requests, projectors, faults>>

(***************************************************************************)
(* A completing request.                                                   *)
(***************************************************************************)
\* authorizeUserTaskComplete: the task's row is open (when it has several the
\* one updated last, which may be any), or it has none and the index knows
\* the task as open.  Only a review can end the case.
Authorize(q, k, isFinal) ==
  /\ doing[q] = "idle"
  /\ HasOpenRow(k) \/ (RowsOf(k) = {} /\ IndexState(k) = "CREATED")
  /\ isFinal => StepOf(k) = "UT_CheckerReview"
  /\ doing' = [doing EXCEPT ![q] = "complete"]
  /\ target' = [target EXCEPT ![q] = k]
  /\ final' = IF isFinal THEN final \cup {q} ELSE final \ {q}
  /\ UNCHANGED <<engine, exported, rows, caseOpen, projectors, faults>>

Complete(q) ==
  /\ doing[q] = "complete"
  /\ EngineComplete(target[q], q \in final)
  /\ doing' = [doing EXCEPT ![q] = "close"]
  /\ UNCHANGED <<exported, rows, caseOpen, target, final, projectors, faults>>

CompleteRefused(q) ==
  /\ doing[q] = "complete"
  /\ Completed(target[q])
  /\ doing' = [doing EXCEPT ![q] = "idle"]
  /\ UNCHANGED <<engine, exported, rows, caseOpen, target, final, projectors, faults>>

\* Mutant: the row is closed before the engine is called.
CompleteFailsClosed(q) ==
  LET k == target[q]
  IN /\ doing[q] = "complete"
     /\ Fault
     /\ EngineComplete(k, q \in final) \/ UNCHANGED engine
     /\ rows' = [rows EXCEPT ![StepOf(k)] = Shut(@, RowsOf(k))]
     /\ doing' = [doing EXCEPT ![q] = "idle"]
     /\ UNCHANGED <<exported, caseOpen, target, final, projectors>>

\* The call of the engine fails, before or after it took effect.
CompleteFails(q) ==
  /\ doing[q] = "complete"
  /\ Fault
  /\ EngineComplete(target[q], q \in final) \/ UNCHANGED engine
  /\ doing' = [doing EXCEPT ![q] = "idle"]
  /\ UNCHANGED <<exported, rows, caseOpen, target, final, projectors>>

CompleteWorkItemByJob(q) ==
  LET k == target[q]
  IN /\ doing[q] = "close"
     /\ rows' = [rows EXCEPT ![StepOf(k)] = Shut(@, RowsOf(k))]
     /\ doing' = [doing EXCEPT ![q] = "idle"]
     /\ UNCHANGED <<engine, exported, caseOpen, target, final, projectors, faults>>

\* Its error is logged and the request ends.
CloseFails(q) ==
  /\ doing[q] = "close"
  /\ Fault
  /\ doing' = [doing EXCEPT ![q] = "idle"]
  /\ UNCHANGED <<engine, exported, rows, caseOpen, target, final, projectors>>

(***************************************************************************)
(* The terminal job.                                                       *)
(***************************************************************************)
FinishCase ==
  /\ job = "finish"
  /\ job' = "complete"
  /\ caseOpen' = FALSE
  /\ rows' = IF caseOpen THEN [s \in Steps |-> Shut(rows[s], DOMAIN rows[s])] ELSE rows
  /\ UNCHANGED <<events, exported, requests, projectors, faults>>

\* Its error is logged and the job goes on.
FinishFails ==
  /\ job = "finish"
  /\ Fault
  /\ job' = "complete"
  /\ UNCHANGED <<events, exported, rows, caseOpen, requests, projectors>>

\* The engine hands out the job again when its completion gets lost.
CompleteJob ==
  /\ job = "complete"
  /\ \/ job' = "done" /\ UNCHANGED faults
     \/ job' = "finish" /\ Fault
  /\ UNCHANGED <<events, exported, rows, caseOpen, requests, projectors>>

(***************************************************************************)
(* The specification.                                                      *)
(***************************************************************************)
RequestStep(q) == Complete(q) \/ CompleteRefused(q) \/ CompleteWorkItemByJob(q)
ProjectorStep(p) ==
  \/ ListCases(p) \/ SearchTasks(p) \/ ReadLast(p) \/ Project(p) \/ ProjectRefused(p)
JobStep == FinishCase \/ CompleteJob

\* The case is over.
Rest == ~ caseOpen /\ UNCHANGED vars

Next ==
  \/ Export \/ Reconcile \/ JobStep \/ FinishFails \/ Rest
  \/ \E q \in Request :
       \/ RequestStep(q) \/ CompleteFails(q) \/ CloseFails(q)
       \/ \E k \in Task, isFinal \in BOOLEAN : Authorize(q, k, isFinal)
  \/ \E p \in Projector : ProjectorStep(p) \/ ProjectFails(p)

Spec == Init /\ [][Next]_vars

\* The exporter and the tickers of the workers go on; a request need not.
Fairness ==
  /\ WF_vars(Export) /\ WF_vars(Reconcile)
  /\ \A p \in Projector : WF_vars(ProjectorStep(p))

FairSpec == Spec /\ Fairness

(***************************************************************************)
(* Properties.                                                             *)
(***************************************************************************)
OpenRows(s) == {i \in DOMAIN rows[s] : rows[s][i].open}

\* A step never has more open rows than there are projectors, whatever the
\* order of their reads, waits and writes: each but one of these rows is one
\* that a projector had locked when another inserted a newer activation, and a
\* projector working alone leaves one open row, however late its index
\* (UpsertWorkItem).
OpenRowsAreBounded ==
  \A s \in Steps : Cardinality(OpenRows(s)) <= Cardinality(Projector)

\* The row of the engine's open task is never closed, except by a projector
\* that found an earlier task of the step before (UpsertWorkItem takes it for
\* the newer activation): not by the reconciler, however late the index is,
\* not by a late or failed completion of another task.
LiveRowIsKept ==
  [][\A k \in Task :
       Live(k) /\ HasOpenRow(k) /\ ~ HasOpenRow(k)' =>
         \/ Completed(k)'
         \/ \E p \in Projector : found[p] \in 1 .. k - 1 /\ Project(p)]_vars

\* The inbox of a case that is not finished comes to show the engine's open
\* task and no other: whatever the index's lag, a stale projection, a failed
\* close or a lost answer did to its rows.
InboxSettles ==
  <>[](caseOpen => \A k \in Task : HasOpenRow(k) <=> Live(k))

=============================================================================
