--------------------------- MODULE CaseDecisions ---------------------------
(***************************************************************************)
(* The decisions of one CUSTOMER_REGISTRATION case of workflow-service:    *)
(* recorded before the engine is told, and applied to the customer in      *)
(* crm-service, those of the returning branches by DecisionDispatcher, an  *)
(* approval by the worker of ST_Execute (a rejection is handled alike).    *)
(*                                                                         *)
(* The engine (Zeebe, external) opens one user task at a time: first a     *)
(* revision; once one is submitted ST_Validate leads to a review or, when  *)
(* the customer is a duplicate, to another revision; a request for changes *)
(* leads back to a revision.  Which tasks the inbox shows is CaseInbox's:  *)
(* here a request may be made for any task the engine has created, over or *)
(* not, and a task may have no row yet.                                    *)
(***************************************************************************)
EXTENDS Integers, Sequences

CONSTANTS
  Request,     \* concurrent completions of tasks
  Dispatcher,  \* DecisionDispatchers, one per process
  MaxTasks,    \* bound: user tasks of the engine
  MaxFaults    \* bound: failed calls and crashes

Task == 1 .. MaxTasks
Element == {"UT_CheckerReview", "UT_MakerRevise"}
Actions == {"APPROVE", "REQUEST_CHANGES", "SUBMIT"}
ActionsOf(element) ==
  IF element = "UT_CheckerReview" THEN {"APPROVE", "REQUEST_CHANGES"} ELSE {"SUBMIT"}
Decision == Task \X Actions
Dispatchable == Task \X {"REQUEST_CHANGES", "SUBMIT"}

ASSUME BoundsAssumption == MaxTasks \in Nat \ {0} /\ MaxFaults \in Nat

VARIABLES
  tasks,     \* the element of each user task the engine created
  choice,    \* the decision the engine completed each task with, or ""
  job,       \* what the handler of the engine's job does next
  projected, \* tasks that have a row in workflow_tasks
  decision,  \* status of each recorded decision, "" for none
  log,       \* the dispatchable ones by recorded_at
  customer,  \* status of the customer in crm-service
  doing,     \* what each request does next
  target,    \* the task and decision of each request
  batch,     \* candidates each dispatcher has still to handle
  mark,      \* its outcome for the oldest of them, "" before the call
  newest,    \* ghost: what happened last, a decision or a worker's update
  overtaken, \* ghost: decisions on their way when that reached the customer
  faults

engine == <<tasks, choice>>
requests == <<doing, target>>
dispatchers == <<batch, mark>>
history == <<newest, overtaken>>
vars == <<tasks, choice, job, projected, decision, log, customer, doing,
          target, batch, mark, newest, overtaken, faults>>

TypeOK ==
  /\ tasks \in Seq(Element) /\ Len(tasks) \in Task
  /\ choice \in [Task -> {"", "APPROVE", "REQUEST_CHANGES", "SUBMIT"}]
  /\ job \in {"none", "validate", "throw", "apply", "complete", "finish", "done"}
  /\ projected \subseteq Task
  /\ decision \in [Decision -> {"", "RECORDED", "FAILED", "APPLIED"}]
  /\ log \in Seq(Dispatchable)
  /\ customer \in {"DRAFT", "SUBMITTED", "NEEDS_CHANGES", "ACTIVE"}
  /\ doing \in [Request -> {"idle", "record", "complete"}]
  /\ target \in [Request -> Decision]
  /\ batch \in [Dispatcher -> SUBSET Dispatchable]
  /\ mark \in [Dispatcher -> {"", "APPLIED", "FAILED"}]
  /\ newest \in Task \X (Actions \cup {"", "RETURN"})
  /\ overtaken \subseteq Dispatchable
  /\ faults \in 0 .. MaxFaults

Init ==
  /\ tasks = <<"UT_MakerRevise">>
  /\ choice = [k \in Task |-> ""]
  /\ job = "none"
  /\ projected = {}
  /\ decision = [x \in Decision |-> ""]
  /\ log = <<>>
  /\ customer = "DRAFT"
  /\ doing = [q \in Request |-> "idle"]
  /\ target = [q \in Request |-> <<1, "SUBMIT">>]
  /\ batch = [d \in Dispatcher |-> {}]
  /\ mark = [d \in Dispatcher |-> ""]
  /\ newest = <<1, "">>
  /\ overtaken = {}
  /\ faults = 0

Fault == faults < MaxFaults /\ faults' = faults + 1
Completed(k) == choice[k] # ""
Recorded(x) == decision[x] # ""
Pending == {x \in Dispatchable : decision[x] \in {"RECORDED", "FAILED"}}

\* Decisions that may still be sent to crm-service: the pending ones, and those
\* in a batch, whatever their status has become.
Late(D) == Pending \cup UNION {batch[d] : d \in D}

\* UserTaskProjector writes the row of a task, maybe late.
Project(k) ==
  /\ k \in DOMAIN tasks \ projected
  /\ projected' = projected \cup {k}
  /\ UNCHANGED <<engine, job, decision, log, customer, requests, dispatchers, history,
                 faults>>

(***************************************************************************)
(* A completing request.                                                   *)
(***************************************************************************)
\* authorizeUserTaskComplete, enforceStepActions.  The bound on tasks lets the
\* last one only be approved.
Authorize(q, x) ==
  /\ doing[q] = "idle"
  /\ x[1] \in DOMAIN tasks
  /\ x[2] \in ActionsOf(tasks[x[1]])
  /\ x[1] = MaxTasks => x[2] = "APPROVE"
  /\ doing' = [doing EXCEPT ![q] = "record"]
  /\ target' = [target EXCEPT ![q] = x]
  /\ UNCHANGED <<engine, job, projected, decision, log, customer, dispatchers,
                 history, faults>>

\* recordTaskDecision: under the key of its task and decision, unless the task
\* has no row yet.
RecordDecision(q) ==
  LET x == target[q]
      new == x[1] \in projected /\ ~ Recorded(x)
  IN /\ doing[q] = "record"
     /\ doing' = [doing EXCEPT ![q] = "complete"]
     /\ decision' = IF new THEN [decision EXCEPT ![x] = "RECORDED"] ELSE decision
     /\ log' = IF new /\ x \in Dispatchable THEN Append(log, x) ELSE log
     /\ newest' = IF new /\ x \in Dispatchable THEN x ELSE newest
     /\ UNCHANGED <<engine, job, projected, customer, target, dispatchers, overtaken,
                    faults>>

Created(element) == tasks' = Append(tasks, element)

\* The engine completes an open task and goes on: to ST_Validate, to ST_Execute
\* or to a revision.
EngineComplete(x) ==
  /\ ~ Completed(x[1])
  /\ choice' = [choice EXCEPT ![x[1]] = x[2]]
  /\ \/ x[2] = "SUBMIT" /\ job' = "validate" /\ UNCHANGED tasks
     \/ x[2] = "APPROVE" /\ job' = "apply" /\ UNCHANGED tasks
     \/ x[2] = "REQUEST_CHANGES" /\ Created("UT_MakerRevise") /\ UNCHANGED job

Complete(q) ==
  /\ doing[q] = "complete"
  /\ EngineComplete(target[q])
  /\ doing' = [doing EXCEPT ![q] = "idle"]
  /\ UNCHANGED <<projected, decision, log, customer, target, dispatchers, history,
                 faults>>

\* The task is over, and the request returns an error.
CompleteRefused(q) ==
  /\ doing[q] = "complete"
  /\ Completed(target[q][1])
  /\ doing' = [doing EXCEPT ![q] = "idle"]
  /\ UNCHANGED <<engine, job, projected, decision, log, customer, target,
                 dispatchers, history, faults>>

\* The call of the engine fails without an effect.
CompleteFails(q) ==
  /\ doing[q] = "complete"
  /\ Fault
  /\ doing' = [doing EXCEPT ![q] = "idle"]
  /\ UNCHANGED <<engine, job, projected, decision, log, customer, target,
                 dispatchers, history>>

(***************************************************************************)
(* The engine's jobs.  One whose completion fails or whose process stops   *)
(* is handed out again.                                                    *)
(***************************************************************************)
\* ValidateHandler: no other customer has this one's identity.
ValidateComplete ==
  /\ job = "validate"
  /\ job' = "none"
  /\ Created("UT_CheckerReview")
  /\ UNCHANGED <<choice, projected, decision, log, customer, requests, dispatchers,
                 history, faults>>

ValidateDuplicate ==
  /\ job = "validate"
  /\ job' = "throw"
  /\ customer' = "NEEDS_CHANGES"
  /\ newest' = <<Len(tasks), "RETURN">>
  /\ overtaken' = Late(Dispatcher)
  /\ UNCHANGED <<engine, projected, decision, log, requests, dispatchers, faults>>

ThrowValidationError ==
  /\ job = "throw"
  /\ \/ job' = "none" /\ Created("UT_MakerRevise") /\ UNCHANGED faults
     \/ job' = "validate" /\ Fault /\ UNCHANGED tasks
  /\ UNCHANGED <<choice, projected, decision, log, customer, requests, dispatchers,
                 history>>

\* ExecuteHandler.
UpdateStatus ==
  /\ job = "apply"
  /\ job' = "complete"
  /\ customer' = "ACTIVE"
  /\ newest' = <<Len(tasks), "APPROVE">>
  /\ overtaken' = Late(Dispatcher)
  /\ UNCHANGED <<engine, projected, decision, log, requests, dispatchers, faults>>

\* It returns on an error, also when the engine completed the job.
CompleteJob ==
  /\ job = "complete"
  /\ \/ job' = "finish" /\ UNCHANGED faults
     \/ job' \in {"apply", "done"} /\ Fault
  /\ UNCHANGED <<engine, projected, decision, log, customer, requests, dispatchers, history>>

FinishCase ==
  /\ job = "finish"
  /\ job' = "done"
  /\ decision' = [x \in Decision |->
                    IF x[2] = "APPROVE" /\ decision[x] = "RECORDED"
                    THEN "APPLIED" ELSE decision[x]]
  /\ UNCHANGED <<engine, projected, log, customer, requests, dispatchers, history, faults>>

\* Its error is logged, or the process stops.
FinishFails ==
  /\ job = "finish"
  /\ Fault
  /\ job' = "done"
  /\ UNCHANGED <<engine, projected, decision, log, customer, requests, dispatchers, history>>

(***************************************************************************)
(* The dispatcher.                                                         *)
(***************************************************************************)
\* Mutant: failed decisions are not tried again.
ListRecordedOnly(d) ==
  /\ batch[d] = {}
  /\ batch' = [batch EXCEPT ![d] = {x \in Dispatchable : decision[x] = "RECORDED"}]
  /\ batch'[d] # {}
  /\ UNCHANGED <<engine, job, projected, decision, log, customer, requests,
                 mark, history, faults>>

\* Candidates are all RECORDED decisions and the FAILED ones whose cooldown
\* is over.
ListDispatchCandidates(d) ==
  /\ batch[d] = {}
  /\ \E F \in SUBSET {x \in Dispatchable : decision[x] = "FAILED"} :
       batch' = [batch EXCEPT ![d] = {x \in Dispatchable : decision[x] = "RECORDED"} \cup F]
  /\ batch'[d] # {}
  /\ UNCHANGED <<engine, job, projected, decision, log, customer, requests,
                 mark, history, faults>>

Before(x, y) == \E i, j \in DOMAIN log : i < j /\ log[i] = x /\ log[j] = y

\* Mutant: the decision recorded last is handled first.
IsNewest(x, S) == x \in S /\ \A y \in S \ {x} : Before(y, x)

\* Candidates are handled in the order they were recorded in.
IsOldest(x, S) == x \in S /\ \A y \in S \ {x} : Before(x, y)

StatusFor(x) ==
  CASE x[2] = "APPROVE" -> "ACTIVE"
    [] x[2] = "REQUEST_CHANGES" -> "NEEDS_CHANGES"
    [] x[2] = "SUBMIT" -> "SUBMITTED"

\* The service is told of decision x.
Tell(d, x) ==
  /\ customer' = StatusFor(x)
  /\ overtaken' = IF x = newest THEN Late(Dispatcher \ {d}) \ batch[d] ELSE overtaken

Apply(d) ==
  /\ mark[d] = ""
  /\ \E x \in batch[d] : IsOldest(x, batch[d]) /\ Tell(d, x)
  /\ mark' = [mark EXCEPT ![d] = "APPLIED"]
  /\ UNCHANGED <<engine, job, projected, decision, log, requests, batch, newest,
                 faults>>

\* The call fails, before or after it took effect.
ApplyFails(d) ==
  /\ mark[d] = ""
  /\ Fault
  /\ \E x \in batch[d] :
       IsOldest(x, batch[d]) /\ (Tell(d, x) \/ UNCHANGED <<customer, overtaken>>)
  /\ mark' = [mark EXCEPT ![d] = "FAILED"]
  /\ UNCHANGED <<engine, job, projected, decision, log, requests, batch, newest>>

\* MarkDecisionApplied, MarkDecisionFailed: whatever the status has become.
MarkDecision(d) ==
  /\ mark[d] # ""
  /\ \E x \in batch[d] :
       /\ IsOldest(x, batch[d])
       /\ decision' = [decision EXCEPT ![x] = mark[d]]
       /\ batch' = [batch EXCEPT ![d] = @ \ {x}]
  /\ mark' = [mark EXCEPT ![d] = ""]
  /\ UNCHANGED <<engine, job, projected, log, customer, requests, history, faults>>

\* The mark fails and the batch goes on, or the process stops.
MarkFails(d) ==
  /\ mark[d] # ""
  /\ Fault
  /\ \/ \E x \in batch[d] :
          IsOldest(x, batch[d]) /\ batch' = [batch EXCEPT ![d] = @ \ {x}]
     \/ batch' = [batch EXCEPT ![d] = {}]
  /\ mark' = [mark EXCEPT ![d] = ""]
  /\ UNCHANGED <<engine, job, projected, decision, log, customer, requests, history>>

(***************************************************************************)
(* The specification.                                                      *)
(***************************************************************************)
RequestStep(q) == RecordDecision(q) \/ Complete(q) \/ CompleteRefused(q)
JobStep ==
  \/ ValidateComplete \/ ValidateDuplicate \/ ThrowValidationError
  \/ UpdateStatus \/ CompleteJob \/ FinishCase
DispatcherStep(d) == ListDispatchCandidates(d) \/ Apply(d) \/ MarkDecision(d)

\* The process is over, or the bound on tasks ends it.
Rest == (job = "done" \/ Len(tasks) = MaxTasks) /\ UNCHANGED vars

Next ==
  \/ JobStep \/ FinishFails \/ Rest
  \/ \E k \in Task : Project(k)
  \/ \E q \in Request :
       RequestStep(q) \/ CompleteFails(q) \/ \E x \in Decision : Authorize(q, x)
  \/ \E d \in Dispatcher : DispatcherStep(d) \/ ApplyFails(d) \/ MarkFails(d)

Spec == Init /\ [][Next]_vars

\* The tickers of the dispatchers go on.
FairSpec == Spec /\ \A d \in Dispatcher : WF_vars(DispatcherStep(d))

(***************************************************************************)
(* Properties.                                                             *)
(***************************************************************************)
StatusAfter(x) ==
  CASE x[2] = "" -> "DRAFT"
    [] x[2] = "RETURN" -> "NEEDS_CHANGES"
    [] OTHER -> StatusFor(x)

\* Once the newest decision is applied, or a worker's update came after it, the
\* customer has its status, unless one that was still on its way when the newest
\* reached the customer came after it: no failed or repeated call, lost mark,
\* overlapping batch or refused request brings back the status of any other
\* (DecisionDispatcher, ValidateHandler, ExecuteHandler).
CustomerFollowsDecisions ==
  newest \notin Pending =>
    customer \in {StatusAfter(x) : x \in overtaken \cup {newest}}

\* Every decision recorded for the dispatcher is APPLIED at last, and stays
\* so, whatever failed and however the marks of two dispatchers overlapped.
DecisionsAreApplied == <>[](Pending = {})

=============================================================================
