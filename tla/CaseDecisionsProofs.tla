------------------------ MODULE CaseDecisionsProofs ------------------------
(***************************************************************************)
(* Theorems about CaseDecisions, for any number of requests, dispatchers,  *)
(* tasks and faults: its types, and that the customer has the status of    *)
(* what happened last, or of a decision that was on its way then.          *)
(***************************************************************************)
EXTENDS CaseDecisions, SequenceTheorems, TLAPS

---------------------------------------------------------------------------
(* The inductive invariant: the engine, the requests and the batches.      *)

\* The engine has one open task at most, the last one; what follows it is the
\* job's.  An approval ends the case.
TasksInTurn ==
  /\ \A k \in Task : k < Len(tasks) => choice[k] \in {"SUBMIT", "REQUEST_CHANGES"}
  /\ \A k \in Task : k > Len(tasks) => choice[k] = ""
  /\ job = "none" => choice[Len(tasks)] = ""
  /\ job \in {"validate", "throw"} => choice[Len(tasks)] = "SUBMIT" /\ Len(tasks) < MaxTasks
  /\ job \in {"apply", "complete", "finish", "done"} => choice[Len(tasks)] = "APPROVE"

\* A request is for a task that exists.
TargetsExist ==
  \A q \in Request :
    doing[q] # "idle" =>
      /\ target[q][1] \in DOMAIN tasks
      /\ target[q][1] = MaxTasks => target[q][2] = "APPROVE"

\* log lists the dispatchable decisions, each once.
LogIsComplete ==
  /\ \A x \in Dispatchable : Recorded(x) <=> \E i \in DOMAIN log : log[i] = x
  /\ \A i, j \in DOMAIN log : log[i] = log[j] => i = j

\* A dispatcher handles recorded decisions, and has an outcome for one only.
BatchesAreRecorded ==
  \A d \in Dispatcher :
    /\ \A x \in batch[d] : Recorded(x)
    /\ mark[d] # "" => batch[d] # {}

Basic ==
  /\ TypeOK
  /\ TasksInTurn /\ TargetsExist
  /\ LogIsComplete /\ BatchesAreRecorded

---------------------------------------------------------------------------
(* The inductive invariant: what the customer was told.                    *)

\* A newest decision was recorded after all others.
NewestIsLast ==
  newest \in Dispatchable =>
    /\ Recorded(newest)
    /\ \A y \in Dispatchable \ {newest} : Recorded(y) => Before(y, newest)

\* The customer was told of the newest.
Heard ==
  \/ newest \notin Pending
  \/ \E d \in Dispatcher : mark[d] = "APPLIED" /\ IsOldest(newest, batch[d])

\* Whatever may still be sent was on its way when the customer was told.
HeardInTurn ==
  Heard =>
    /\ Late(Dispatcher) \subseteq overtaken \cup {newest}
    /\ customer \in {StatusAfter(x) : x \in overtaken \cup {newest}}

DecisionsInv == Basic /\ NewestIsLast /\ HeardInTurn

---------------------------------------------------------------------------
(* Data. *)

LEMMA DecisionParts ==
  /\ \A x \in Decision : x[1] \in Task /\ x[2] \in Actions /\ x = <<x[1], x[2]>>
  /\ \A x \in Decision : x \in Dispatchable <=> x[2] # "APPROVE"
  /\ Dispatchable \subseteq Decision
  /\ Task \subseteq Nat
<1>1. \A x \in Decision : x[1] \in Task /\ x[2] \in Actions /\ x = <<x[1], x[2]>>
  BY DEF Decision
<1>2. \A x \in Decision : x \in Dispatchable <=> x[2] # "APPROVE"
  BY DEF Decision, Dispatchable, Actions
<1>3. Dispatchable \subseteq Decision
  BY DEF Decision, Dispatchable, Actions
<1> QED BY <1>1, <1>2, <1>3, BoundsAssumption DEF Task

LEMMA TasksGrow ==
  ASSUME TypeOK, Len(tasks) < MaxTasks, NEW element \in Element, Created(element)
  PROVE  /\ tasks' \in Seq(Element) /\ Len(tasks') \in Task
         /\ Len(tasks') = Len(tasks) + 1
         /\ \A k \in 1 .. Len(tasks) : tasks'[k] = tasks[k]
         /\ tasks'[Len(tasks) + 1] = element
<1>1. tasks \in Seq(Element) /\ Len(tasks) \in 1 .. MaxTasks
  BY DEF TypeOK, Element, Task
<1>2. tasks' = Append(tasks, element)
  BY DEF Created
<1> QED BY <1>1, <1>2, AppendProperties, BoundsAssumption DEF Task

LEMMA TasksDomain ==
  ASSUME TypeOK
  PROVE  DOMAIN tasks = 1 .. Len(tasks) /\ Len(tasks) \in Nat /\ DOMAIN tasks \subseteq Task
         /\ Len(tasks) \in Task
<1>1. tasks \in Seq(Element) /\ Len(tasks) \in 1 .. MaxTasks
  BY DEF TypeOK, Element, Task
<1> QED BY <1>1, LenProperties, BoundsAssumption DEF Task

LEMMA LogDomain ==
  ASSUME TypeOK
  PROVE  DOMAIN log = 1 .. Len(log) /\ Len(log) \in Nat
         /\ \A i \in DOMAIN log : log[i] \in Dispatchable
<1>1. log \in Seq(Dispatchable)
  BY DEF TypeOK
<1> QED BY <1>1, LenProperties, ElementOfSeq

LEMMA LogGrows ==
  ASSUME TypeOK, NEW x \in Dispatchable, log' = Append(log, x)
  PROVE  /\ log' \in Seq(Dispatchable)
         /\ Len(log') = Len(log) + 1 /\ DOMAIN log' = 1 .. Len(log) + 1
         /\ \A i \in 1 .. Len(log) : log'[i] = log[i]
         /\ log'[Len(log) + 1] = x
<1>1. log \in Seq(Dispatchable)
  BY DEF TypeOK
<1>2. log' \in Seq(Dispatchable) /\ Len(log') = Len(log) + 1
  BY <1>1, AppendProperties
<1> QED BY <1>1, <1>2, AppendProperties, LenProperties

---------------------------------------------------------------------------
(* Every action has one of these effects. *)

\* What an action leaves alone that does not touch the decisions.
Resting ==
  UNCHANGED <<tasks, choice, job, decision, log, customer, batch, mark, newest, overtaken>>

\* A new decision is written down.
Writes(x) ==
  /\ x[1] \in projected /\ ~ Recorded(x)
  /\ decision' = [decision EXCEPT ![x] = "RECORDED"]
  /\ log' = IF x \in Dispatchable THEN Append(log, x) ELSE log
  /\ newest' = IF x \in Dispatchable THEN x ELSE newest
  /\ UNCHANGED <<tasks, choice, job, customer, batch, mark, overtaken>>

\* The engine completes the task of x with x.
Accepts(x) ==
  /\ EngineComplete(x)
  /\ UNCHANGED <<decision, log, customer, batch, mark, newest, overtaken>>

JobEffect ==
  \/ ValidateComplete \/ ValidateDuplicate \/ ThrowValidationError
  \/ UpdateStatus \/ CompleteJob \/ FinishCase \/ FinishFails

DispatcherEffect(d) ==
  \/ ListDispatchCandidates(d) \/ Apply(d) \/ ApplyFails(d)
  \/ MarkDecision(d) \/ MarkFails(d)

LEMMA Effects ==
  ASSUME Next \/ UNCHANGED vars
  PROVE  \/ Resting
         \/ \E q \in Request : doing[q] = "record" /\ Writes(target[q])
         \/ \E q \in Request : doing[q] = "complete" /\ Accepts(target[q])
         \/ JobEffect
         \/ \E d \in Dispatcher : DispatcherEffect(d)
<1>1. CASE UNCHANGED vars \/ Rest \/ \E k \in Task : Project(k)
  BY <1>1 DEF vars, Rest, Project, Resting, engine, requests, dispatchers, history
<1>2. CASE JobStep \/ FinishFails
  BY <1>2 DEF JobStep, JobEffect
<1>3. ASSUME NEW q \in Request, RecordDecision(q)
      PROVE  Writes(target[q]) \/ Resting
  <2>1. CASE target[q][1] \in projected /\ ~ Recorded(target[q])
    BY <1>3, <2>1 DEF RecordDecision, Writes, engine, dispatchers
  <2>2. CASE ~ (target[q][1] \in projected /\ ~ Recorded(target[q]))
    <3>1. decision' = decision /\ log' = log
      BY <1>3, <2>2 DEF RecordDecision
    <3>2. newest' = newest
      BY <1>3, <2>2 DEF RecordDecision
    <3> QED BY <1>3, <3>1, <3>2 DEF RecordDecision, Resting, engine, dispatchers
  <2> QED BY <2>1, <2>2
<1>4. ASSUME NEW q \in Request, Complete(q)
      PROVE  doing[q] = "complete" /\ Accepts(target[q])
  BY <1>4 DEF Complete, Accepts, dispatchers, history
<1>5. ASSUME NEW q \in Request,
             CompleteRefused(q) \/ CompleteFails(q) \/ \E x \in Decision : Authorize(q, x)
      PROVE  Resting
  BY <1>5 DEF CompleteRefused, CompleteFails, Authorize, Resting, engine, dispatchers, history
<1>6. ASSUME NEW d \in Dispatcher, DispatcherStep(d) \/ ApplyFails(d) \/ MarkFails(d)
      PROVE  DispatcherEffect(d)
  BY <1>6 DEF DispatcherStep, DispatcherEffect
<1>7. \A q \in Request : RecordDecision(q) => doing[q] = "record"
  BY DEF RecordDecision
<1> QED
  BY <1>1, <1>2, <1>3, <1>4, <1>5, <1>6, <1>7 DEF Next, RequestStep

---------------------------------------------------------------------------
(* The invariant of all behaviours.                                        *)

LEMMA BasicInit == Init => Basic
<1> SUFFICES ASSUME Init PROVE Basic
  OBVIOUS
<1>1. /\ tasks \in Seq(Element) /\ Len(tasks) = 1 /\ 1 \in Task
      /\ log \in Seq(Dispatchable) /\ DOMAIN log = {} /\ DOMAIN tasks = {1}
  <2>1. tasks = <<"UT_MakerRevise">> /\ log = <<>>
    BY DEF Init
  <2>2. tasks \in Seq(Element) /\ Len(tasks) = 1
    BY <2>1 DEF Element
  <2>3. log \in Seq(Dispatchable) /\ Len(log) = 0
    BY <2>1
  <2> QED BY <2>2, <2>3, LenProperties, BoundsAssumption DEF Task
<1>2. <<1, "SUBMIT">> \in Decision
  BY <1>1 DEF Decision, Actions
<1>3. TypeOK
  <2>1. choice \in [Task -> {"", "APPROVE", "REQUEST_CHANGES", "SUBMIT"}]
    BY DEF Init
  <2>2. decision \in [Decision -> {"", "RECORDED", "FAILED", "APPLIED"}]
    BY DEF Init
  <2>3. doing \in [Request -> {"idle", "record", "complete"}] /\ target \in [Request -> Decision]
    BY <1>2 DEF Init
  <2>4. batch \in [Dispatcher -> SUBSET Dispatchable] /\ mark \in [Dispatcher -> {"", "APPLIED", "FAILED"}]
    BY DEF Init
  <2>5. projected \subseteq Task /\ faults \in 0 .. MaxFaults
    <3>1. projected = {} /\ faults = 0
      BY DEF Init
    <3> QED BY <3>1, BoundsAssumption
  <2>7. newest \in Task \X (Actions \cup {"", "RETURN"}) /\ overtaken \subseteq Dispatchable
    BY <1>1 DEF Init
  <2>6. job = "none" /\ customer = "DRAFT"
    BY DEF Init
  <2> QED BY <1>1, <2>1, <2>2, <2>3, <2>4, <2>5, <2>6, <2>7 DEF TypeOK
<1>4. TasksInTurn
  <2>1. job = "none" /\ \A k \in Task : choice[k] = ""
    BY DEF Init
  <2>2. \A k \in Task : ~ (k < 1)
    BY BoundsAssumption DEF Task
  <2> QED BY <1>1, <2>1, <2>2 DEF TasksInTurn
<1>5. TargetsExist /\ BatchesAreRecorded
  BY DEF Init, TargetsExist, BatchesAreRecorded
<1>6. LogIsComplete
  BY <1>1, DecisionParts DEF Init, LogIsComplete, Recorded
<1> QED BY <1>3, <1>4, <1>5, <1>6 DEF Basic

\* The open task is the last one, and the job is at rest meanwhile.
LEMMA OpenIsLast ==
  ASSUME Basic, NEW k \in DOMAIN tasks, ~ Completed(k)
  PROVE  k = Len(tasks) /\ job = "none"
<1>1. k \in Task /\ k \in 1 .. Len(tasks) /\ Len(tasks) \in Nat
  BY TasksDomain DEF Basic
<1>2. ~ (k < Len(tasks))
  BY <1>1 DEF Basic, TasksInTurn, Completed
<1>3. k = Len(tasks)
  BY <1>1, <1>2
<1> QED BY <1>1, <1>3 DEF Basic, TasksInTurn, Completed, TypeOK

\* The bound on tasks lets the engine go on from one that is not approved.
LEMMA TasksAreLeft ==
  ASSUME Basic,
         \/ job \in {"validate", "throw"}
         \/ \E q \in Request : doing[q] = "complete" /\ ~ Completed(target[q][1])
                               /\ target[q][2] # "APPROVE"
  PROVE  Len(tasks) < MaxTasks
<1>1. Len(tasks) \in Task /\ Len(tasks) \in 1 .. MaxTasks /\ MaxTasks \in Nat
  BY TasksDomain, BoundsAssumption DEF Basic, Task
<1>2. CASE job \in {"validate", "throw"}
  BY <1>1, <1>2 DEF Basic, TasksInTurn
<1>3. ASSUME NEW q \in Request, doing[q] = "complete", ~ Completed(target[q][1]),
             target[q][2] # "APPROVE"
      PROVE  Len(tasks) < MaxTasks
  <2>1. target[q][1] \in DOMAIN tasks /\ target[q][1] # MaxTasks
    BY <1>3 DEF Basic, TargetsExist
  <2>2. target[q][1] = Len(tasks)
    BY <1>3, <2>1, OpenIsLast
  <2> QED BY <1>1, <2>1, <2>2
<1> QED BY <1>2, <1>3

LEMMA FaultsAreBounded == TypeOK /\ Fault => faults' \in 0 .. MaxFaults
<1>1. TypeOK => faults \in 0 .. MaxFaults
  BY DEF TypeOK
<1> QED BY <1>1, BoundsAssumption DEF Fault

\* What is on its way is for the dispatchers.
LEMMA LateIsDispatchable ==
  ASSUME TypeOK
  PROVE  \A D \in SUBSET Dispatcher : Late(D) \subseteq Dispatchable
<1> SUFFICES ASSUME NEW D \in SUBSET Dispatcher, NEW x \in Late(D) PROVE x \in Dispatchable
  OBVIOUS
<1>1. \A d \in D : batch[d] \subseteq Dispatchable
  BY DEF TypeOK
<1>2. x \in Pending \/ \E d \in D : x \in batch[d]
  BY DEF Late
<1> QED BY <1>1, <1>2 DEF Pending

LEMMA TypesKept ==
  ASSUME Basic, Next \/ UNCHANGED vars
  PROVE  TypeOK'
<1> USE DEF Basic
<1>0. Len(tasks) \in Task
  BY TasksDomain
<1>1. CASE UNCHANGED vars \/ Rest \/ \E k \in Task : Project(k)
  <2>1. CASE UNCHANGED vars \/ Rest
    BY <2>1 DEF vars, Rest, TypeOK
  <2>2. ASSUME NEW k \in Task, Project(k) PROVE TypeOK'
    BY <2>2 DEF Project, TypeOK, engine, requests, dispatchers, history
  <2> QED BY <1>1, <2>1, <2>2
<1>2. ASSUME NEW q \in Request,
             CompleteRefused(q) \/ CompleteFails(q) \/ \E x \in Decision : Authorize(q, x)
      PROVE  TypeOK'
  BY <1>2, FaultsAreBounded
     DEF CompleteRefused, CompleteFails, Authorize, TypeOK, engine, requests, dispatchers, history
<1>3. ASSUME NEW q \in Request, RecordDecision(q) PROVE TypeOK'
  <2>1. target[q] \in Decision
    BY DEF TypeOK
  <2>2. log' \in Seq(Dispatchable)
    <3>1. CASE log' = log
      BY <3>1 DEF TypeOK
    <3>2. CASE target[q] \in Dispatchable /\ log' = Append(log, target[q])
      BY <3>2, LogGrows
    <3> QED BY <1>3, <3>1, <3>2 DEF RecordDecision
  <2>3. decision' \in [Decision -> {"", "RECORDED", "FAILED", "APPLIED"}]
    BY <1>3, <2>1 DEF RecordDecision, TypeOK
  <2>4. newest' \in Task \X (Actions \cup {"", "RETURN"})
    <3>1. target[q] \in Task \X (Actions \cup {"", "RETURN"})
      BY <2>1 DEF Decision
    <3> QED BY <1>3, <3>1 DEF RecordDecision, TypeOK
  <2> QED BY <1>3, <2>2, <2>3, <2>4 DEF RecordDecision, TypeOK, engine, dispatchers
<1>4. ASSUME NEW q \in Request, Complete(q) PROVE TypeOK'
  <2>1. target[q] \in Decision /\ target[q][1] \in Task /\ target[q][2] \in Actions
    BY DecisionParts DEF TypeOK
  <2>2. EngineComplete(target[q]) /\ doing[q] = "complete"
    BY <1>4 DEF Complete
  <2>3. tasks' \in Seq(Element) /\ Len(tasks') \in Task
    <3>1. CASE tasks' = tasks
      BY <1>0, <3>1 DEF TypeOK, Element
    <3>2. CASE target[q][2] # "APPROVE" /\ Created("UT_MakerRevise")
      BY <2>2, <3>2, TasksAreLeft, TasksGrow DEF EngineComplete, Element
    <3> QED BY <2>2, <3>1, <3>2 DEF EngineComplete
  <2>4. choice' \in [Task -> {"", "APPROVE", "REQUEST_CHANGES", "SUBMIT"}]
    BY <2>1, <2>2 DEF EngineComplete, TypeOK, Actions
  <2>5. job' \in {"none", "validate", "throw", "apply", "complete", "finish", "done"}
    BY <2>2 DEF EngineComplete, TypeOK
  <2> QED BY <1>4, <2>3, <2>4, <2>5 DEF Complete, TypeOK, Element, dispatchers, history
<1>5. CASE JobEffect
  <2>1. ASSUME ValidateComplete \/ ThrowValidationError PROVE tasks' \in Seq(Element) /\ Len(tasks') \in Task
    <3>1. CASE tasks' = tasks
      BY <1>0, <3>1 DEF TypeOK, Element
    <3>2. CASE \E element \in Element : Created(element)
      BY <2>1, <3>2, TasksAreLeft, TasksGrow DEF ValidateComplete, ThrowValidationError
    <3> QED BY <2>1, <3>1, <3>2 DEF ValidateComplete, ThrowValidationError, Element
  <2>2. CASE ValidateComplete
    BY <2>1, <2>2 DEF ValidateComplete, TypeOK, Element, requests, dispatchers, history
  <2>3. CASE ThrowValidationError
    BY <2>1, <2>3, FaultsAreBounded
       DEF ThrowValidationError, TypeOK, Element, requests, dispatchers, history
  <2>4. CASE ValidateDuplicate \/ UpdateStatus
    <3>1. newest' \in Task \X (Actions \cup {"", "RETURN"})
      <4>1. \A a \in Actions \cup {"", "RETURN"} :
              <<Len(tasks), a>> \in Task \X (Actions \cup {"", "RETURN"})
        BY <1>0
      <4>2. newest' \in {<<Len(tasks), "RETURN">>, <<Len(tasks), "APPROVE">>}
        BY <2>4 DEF ValidateDuplicate, UpdateStatus
      <4> QED BY <4>1, <4>2 DEF Actions
    <3>2. overtaken' \subseteq Dispatchable
      BY <2>4, LateIsDispatchable DEF ValidateDuplicate, UpdateStatus
    <3> QED
      BY <2>4, <3>1, <3>2
         DEF ValidateDuplicate, UpdateStatus, TypeOK, engine, requests, dispatchers
  <2>5. CASE CompleteJob \/ FinishFails
    BY <2>5, FaultsAreBounded
       DEF CompleteJob, FinishFails, TypeOK, engine, requests, dispatchers, history
  <2>6. CASE FinishCase
    BY <2>6 DEF FinishCase, TypeOK, engine, requests, dispatchers, history
  <2> QED BY <1>5, <2>2, <2>3, <2>4, <2>5, <2>6 DEF JobEffect
<1>6. ASSUME NEW d \in Dispatcher, DispatcherEffect(d) PROVE TypeOK'
  <2>1. \A x \in Decision : StatusFor(x) \in {"SUBMITTED", "NEEDS_CHANGES", "ACTIVE"}
    BY DecisionParts DEF StatusFor, Actions
  <2>2. batch[d] \subseteq Decision
    BY DecisionParts DEF TypeOK
  <2>3. CASE ListDispatchCandidates(d)
    <3>1. \E S \in SUBSET Dispatchable : batch' = [batch EXCEPT ![d] = S]
      BY <2>3 DEF ListDispatchCandidates
    <3>2. batch' \in [Dispatcher -> SUBSET Dispatchable]
      BY <3>1 DEF TypeOK
    <3> QED BY <2>3, <3>2 DEF ListDispatchCandidates, TypeOK, engine, requests, history
  <2>8. ASSUME NEW x \in batch[d], Tell(d, x)
        PROVE  /\ customer' \in {"DRAFT", "SUBMITTED", "NEEDS_CHANGES", "ACTIVE"}
               /\ overtaken' \subseteq Dispatchable
    BY <2>1, <2>2, <2>8, LateIsDispatchable DEF Tell, TypeOK
  <2>4. CASE Apply(d)
    BY <2>4, <2>8 DEF Apply, TypeOK, engine, requests
  <2>5. CASE ApplyFails(d)
    <3>1. /\ customer' \in {"DRAFT", "SUBMITTED", "NEEDS_CHANGES", "ACTIVE"}
          /\ overtaken' \subseteq Dispatchable
      BY <2>5, <2>8 DEF ApplyFails, TypeOK
    <3> QED BY <2>5, <3>1, FaultsAreBounded DEF ApplyFails, TypeOK, engine, requests
  <2>6. CASE MarkDecision(d)
    <3>1. mark[d] \in {"APPLIED", "FAILED"}
      BY <2>6 DEF MarkDecision, TypeOK
    <3>2. PICK x \in batch[d] : /\ decision' = [decision EXCEPT ![x] = mark[d]]
                               /\ batch' = [batch EXCEPT ![d] = batch[d] \ {x}]
      BY <2>6 DEF MarkDecision, TypeOK
    <3>3. decision' \in [Decision -> {"", "RECORDED", "FAILED", "APPLIED"}]
      BY <2>2, <3>1, <3>2 DEF TypeOK
    <3>4. batch' \in [Dispatcher -> SUBSET Dispatchable]
      BY <3>2 DEF TypeOK
    <3>5. mark' \in [Dispatcher -> {"", "APPLIED", "FAILED"}]
      BY <2>6 DEF MarkDecision, TypeOK
    <3> QED BY <2>6, <3>3, <3>4, <3>5 DEF MarkDecision, TypeOK, engine, requests, history
  <2>7. CASE MarkFails(d)
    BY <2>7, FaultsAreBounded
       DEF MarkFails, TypeOK, engine, requests, dispatchers, history
  <2> QED BY <1>6, <2>3, <2>4, <2>5, <2>6, <2>7 DEF DispatcherEffect
<1> QED
  BY <1>1, <1>2, <1>3, <1>4, <1>5, <1>6
     DEF Next, RequestStep, JobStep, JobEffect, DispatcherStep, DispatcherEffect

\* Tasks are only added.
LEMMA TasksStay ==
  ASSUME Basic, Next \/ UNCHANGED vars
  PROVE  /\ DOMAIN tasks \subseteq DOMAIN tasks'
         /\ \A k \in DOMAIN tasks : tasks'[k] = tasks[k]
         /\ DOMAIN tasks' = 1 .. Len(tasks') /\ Len(tasks') \in Nat
         /\ Len(tasks) <= Len(tasks')
<1>1. TypeOK' /\ TypeOK
  BY TypesKept DEF Basic, TypeOK
<1>2. DOMAIN tasks = 1 .. Len(tasks) /\ Len(tasks) \in Nat
  BY <1>1, TasksDomain
<1>3. DOMAIN tasks' = 1 .. Len(tasks') /\ Len(tasks') \in Nat
  <2>1. tasks' \in Seq(Element)
    BY <1>1 DEF TypeOK
  <2> QED BY <2>1, LenProperties
<1>4. CASE tasks' = tasks
  BY <1>2, <1>4
<1>5. CASE Len(tasks) < MaxTasks /\ \E element \in Element : Created(element)
  <2>1. PICK element \in Element : Created(element)
    BY <1>5
  <2>2. Len(tasks') = Len(tasks) + 1 /\ \A k \in 1 .. Len(tasks) : tasks'[k] = tasks[k]
    BY <1>1, <1>5, <2>1, TasksGrow
  <2> QED BY <1>2, <1>3, <2>2
<1>6. tasks' = tasks \/ (Len(tasks) < MaxTasks /\ \E element \in Element : Created(element))
  <2>1. CASE Resting \/ \E q \in Request : Writes(target[q])
    BY <2>1 DEF Resting, Writes
  <2>2. ASSUME NEW q \in Request, doing[q] = "complete", Accepts(target[q]), tasks' # tasks
        PROVE  Len(tasks) < MaxTasks /\ \E element \in Element : Created(element)
    <3>1. ~ Completed(target[q][1]) /\ target[q][2] # "APPROVE" /\ Created("UT_MakerRevise")
      BY <2>2 DEF Accepts, EngineComplete
    <3> QED BY <2>2, <3>1, TasksAreLeft DEF Element
  <2>3. ASSUME JobEffect, tasks' # tasks
        PROVE  Len(tasks) < MaxTasks /\ \E element \in Element : Created(element)
    <3>1. job \in {"validate", "throw"} /\ \E element \in Element : Created(element)
      BY <2>3 DEF JobEffect, ValidateComplete, ValidateDuplicate, ThrowValidationError,
                  UpdateStatus, CompleteJob, FinishCase, FinishFails, Element, engine
    <3> QED BY <3>1, TasksAreLeft
  <2>4. ASSUME NEW d \in Dispatcher, DispatcherEffect(d) PROVE tasks' = tasks
    BY <2>4 DEF DispatcherEffect, ListDispatchCandidates, Apply, ApplyFails, MarkDecision,
                MarkFails, engine
  <2> QED BY <1>1, <2>1, <2>2, <2>3, <2>4, Effects
<1> QED BY <1>4, <1>5, <1>6

LEMMA EngineLeftByDispatchers ==
  ASSUME NEW d \in Dispatcher, DispatcherEffect(d)
  PROVE  UNCHANGED <<tasks, choice, job, log>>
BY DEF DispatcherEffect, ListDispatchCandidates, Apply, ApplyFails, MarkDecision, MarkFails,
       engine

\* What the engine completes is the last task.
LEMMA AcceptsLast ==
  ASSUME Basic, NEW q \in Request, doing[q] = "complete", Accepts(target[q])
  PROVE  /\ target[q] \in Decision /\ target[q][1] = Len(tasks) /\ job = "none"
         /\ ~ Completed(Len(tasks))
         /\ choice' = [choice EXCEPT ![Len(tasks)] = target[q][2]]
         /\ \/ target[q][2] = "SUBMIT" /\ job' = "validate" /\ Len(tasks) < MaxTasks
               /\ tasks' = tasks
            \/ target[q][2] = "APPROVE" /\ job' = "apply" /\ tasks' = tasks
            \/ target[q][2] = "REQUEST_CHANGES" /\ job' = "none" /\ Len(tasks) < MaxTasks
               /\ Created("UT_MakerRevise")
<1>1. target[q] \in Decision /\ target[q][1] \in DOMAIN tasks
  BY DEF Basic, TypeOK, TargetsExist
<1>2. EngineComplete(target[q]) /\ ~ Completed(target[q][1])
  BY DEF Accepts, EngineComplete
<1>3. target[q][1] = Len(tasks) /\ job = "none"
  BY <1>1, <1>2, OpenIsLast
<1>4. target[q][2] # "APPROVE" => Len(tasks) < MaxTasks
  BY <1>2, TasksAreLeft
<1> QED BY <1>1, <1>2, <1>3, <1>4 DEF EngineComplete

LEMMA TasksInTurnKept ==
  ASSUME Basic, Next \/ UNCHANGED vars
  PROVE  TasksInTurn'
<1>1. TypeOK /\ TasksInTurn
  BY DEF Basic, TypeOK
<1>2. Len(tasks) \in Task /\ Len(tasks) \in Nat /\ Task = 1 .. MaxTasks /\ MaxTasks \in Nat
  BY <1>1, TasksDomain, BoundsAssumption DEF Task
<1>3. choice \in [Task -> {"", "APPROVE", "REQUEST_CHANGES", "SUBMIT"}]
  BY <1>1 DEF TypeOK
<1>4. CASE UNCHANGED <<tasks, choice, job>>
  BY <1>1, <1>4 DEF TasksInTurn
<1>5. ASSUME NEW q \in Request, doing[q] = "complete", Accepts(target[q]) PROVE TasksInTurn'
  <2>1. job = "none" /\ choice' = [choice EXCEPT ![Len(tasks)] = target[q][2]]
    BY <1>5, AcceptsLast
  <2>2. CASE target[q][2] = "SUBMIT" /\ job' = "validate" /\ Len(tasks) < MaxTasks /\ tasks' = tasks
    BY <1>1, <1>2, <1>3, <2>1, <2>2 DEF TasksInTurn
  <2>3. CASE target[q][2] = "APPROVE" /\ job' = "apply" /\ tasks' = tasks
    BY <1>1, <1>2, <1>3, <2>1, <2>3 DEF TasksInTurn
  <2>4. CASE target[q][2] = "REQUEST_CHANGES" /\ job' = "none" /\ Len(tasks) < MaxTasks
             /\ Created("UT_MakerRevise")
    <3>1. Len(tasks') = Len(tasks) + 1
      BY <1>1, <2>4, TasksGrow DEF Element
    <3>2. Len(tasks) + 1 \in Task /\ choice[Len(tasks) + 1] = ""
      <4>1. Len(tasks) + 1 \in Task /\ Len(tasks) + 1 > Len(tasks)
        BY <1>2, <2>4
      <4> QED BY <1>1, <4>1 DEF TasksInTurn
    <3>3. \A k \in Task : k < Len(tasks') => k < Len(tasks) \/ k = Len(tasks)
      BY <1>2, <3>1
    <3>4. \A k \in Task : k > Len(tasks') => k > Len(tasks)
      BY <1>2, <3>1
    <3>5. \A k \in Task : choice'[k] = IF k = Len(tasks) THEN "REQUEST_CHANGES" ELSE choice[k]
      BY <1>2, <1>3, <2>1, <2>4
    <3>6. Len(tasks') # Len(tasks)
      BY <1>2, <3>1
    <3> QED BY <1>1, <1>2, <2>4, <3>1, <3>2, <3>3, <3>4, <3>5, <3>6 DEF TasksInTurn
  <2> QED BY <1>5, <2>2, <2>3, <2>4, AcceptsLast
<1>6. CASE JobEffect
  <2>1. CASE job \in {"validate", "throw"} /\ job' = "none" /\ choice' = choice
             /\ \E element \in Element : Created(element)
    <3>1. Len(tasks) < MaxTasks
      BY <2>1, TasksAreLeft
    <3>2. Len(tasks') = Len(tasks) + 1
      BY <1>1, <2>1, <3>1, TasksGrow
    <3>3. Len(tasks) + 1 \in Task /\ choice[Len(tasks) + 1] = ""
      <4>1. Len(tasks) + 1 \in Task /\ Len(tasks) + 1 > Len(tasks)
        BY <1>2, <3>1
      <4> QED BY <1>1, <4>1 DEF TasksInTurn
    <3>4. \A k \in Task : k < Len(tasks') => k < Len(tasks) \/ k = Len(tasks)
      BY <1>2, <3>2
    <3>5. \A k \in Task : k > Len(tasks') => k > Len(tasks)
      BY <1>2, <3>2
    <3> QED BY <1>1, <1>2, <2>1, <3>2, <3>3, <3>4, <3>5 DEF TasksInTurn
  <2>2. CASE /\ UNCHANGED <<tasks, choice>>
             /\ \/ job \in {"validate", "throw"} /\ job' \in {"validate", "throw"}
                \/ /\ job \in {"apply", "complete", "finish", "done"}
                   /\ job' \in {"apply", "complete", "finish", "done"}
    BY <1>1, <2>2 DEF TasksInTurn
  <2> QED
    BY <1>6, <2>1, <2>2
       DEF JobEffect, ValidateComplete, ValidateDuplicate, ThrowValidationError,
           UpdateStatus, CompleteJob, FinishCase, FinishFails, Element, engine
<1> QED
  BY <1>1, <1>4, <1>5, <1>6, Effects, EngineLeftByDispatchers DEF Resting, Writes

LEMMA TargetsExistKept ==
  ASSUME Basic, Next \/ UNCHANGED vars
  PROVE  TargetsExist'
<1>1. \A k \in DOMAIN tasks : k \in DOMAIN tasks'
  BY TasksStay
<1>2. TargetsExist /\ target \in [Request -> Decision] /\ doing \in [Request -> {"idle", "record", "complete"}]
  BY DEF Basic, TypeOK
<1>3. ASSUME NEW q \in Request, NEW x \in Decision, Authorize(q, x) PROVE TargetsExist'
  <2>1. x[1] \in DOMAIN tasks /\ (x[1] = MaxTasks => x[2] = "APPROVE")
    BY <1>3 DEF Authorize
  <2>2. doing' = [doing EXCEPT ![q] = "record"] /\ target' = [target EXCEPT ![q] = x]
    BY <1>3 DEF Authorize
  <2> QED BY <1>1, <1>2, <2>1, <2>2 DEF TargetsExist
<1>4. CASE target' = target /\ \A q \in Request : doing'[q] # "idle" => doing[q] # "idle"
  BY <1>1, <1>2, <1>4 DEF TargetsExist
<1>5. ASSUME NEW q \in Request, RequestStep(q) \/ CompleteFails(q)
      PROVE  target' = target /\ \A r \in Request : doing'[r] # "idle" => doing[r] # "idle"
  BY <1>2, <1>5 DEF RequestStep, RecordDecision, Complete, CompleteRefused, CompleteFails
<1>6. ASSUME \/ JobStep \/ FinishFails \/ Rest \/ UNCHANGED vars
             \/ \E k \in Task : Project(k)
             \/ \E d \in Dispatcher : DispatcherStep(d) \/ ApplyFails(d) \/ MarkFails(d)
      PROVE  target' = target /\ doing' = doing
  BY <1>6 DEF JobStep, ValidateComplete, ValidateDuplicate, ThrowValidationError,
       UpdateStatus, CompleteJob, FinishCase, FinishFails, Rest, vars, Project, DispatcherStep,
       ListDispatchCandidates, Apply, ApplyFails, MarkDecision, MarkFails, requests
<1> QED BY <1>3, <1>4, <1>5, <1>6 DEF Next

\* Only a request records decisions, one at a time.
LEMMA RecordedAsBefore ==
  ASSUME Basic,
         \/ Resting
         \/ \E q \in Request : Accepts(target[q])
         \/ JobEffect
         \/ \E d \in Dispatcher : DispatcherEffect(d)
  PROVE  log' = log /\ \A x \in Decision : Recorded(x)' <=> Recorded(x)
<1>1. CASE decision' = decision /\ log' = log
  BY <1>1 DEF Recorded
<1>2. CASE FinishCase
  BY <1>2 DEF FinishCase, Recorded
<1>3. ASSUME NEW d \in Dispatcher, MarkDecision(d)
      PROVE  log' = log /\ \A x \in Decision : Recorded(x)' <=> Recorded(x)
  <2>1. PICK x \in batch[d] : decision' = [decision EXCEPT ![x] = mark[d]]
    BY <1>3 DEF MarkDecision
  <2>2. Recorded(x) /\ mark[d] # "" /\ log' = log
    BY <1>3 DEF Basic, BatchesAreRecorded, MarkDecision
  <2>3. x \in Decision /\ decision \in [Decision -> {"", "RECORDED", "FAILED", "APPLIED"}]
    BY DecisionParts DEF Basic, TypeOK
  <2> QED BY <2>1, <2>2, <2>3 DEF Recorded
<1> QED
  BY <1>1, <1>2, <1>3
     DEF Resting, Accepts, JobEffect, ValidateComplete, ValidateDuplicate,
         ThrowValidationError, UpdateStatus, CompleteJob, FinishFails, DispatcherEffect,
         ListDispatchCandidates, Apply, ApplyFails, MarkFails

LEMMA RecordedByRequest ==
  ASSUME Basic, NEW x \in Decision, Writes(x)
  PROVE  /\ \A y \in Decision : decision'[y] = IF y = x THEN "RECORDED" ELSE decision[y]
         /\ \A y \in Decision : Recorded(y)' <=> Recorded(y) \/ y = x
<1>1. decision \in [Decision -> {"", "RECORDED", "FAILED", "APPLIED"}]
  BY DEF Basic, TypeOK
<1>2. decision' = [decision EXCEPT ![x] = "RECORDED"]
  BY DEF Writes
<1> QED BY <1>1, <1>2 DEF Recorded

LEMMA LogIsCompleteKept ==
  ASSUME Basic, Next \/ UNCHANGED vars
  PROVE  LogIsComplete'
<1>1. LogIsComplete /\ TypeOK
  BY DEF Basic, TypeOK
<1>2. ASSUME NEW q \in Request, Writes(target[q]) PROVE LogIsComplete'
  <2> DEFINE x == target[q]
  <2>1. x \in Decision /\ ~ Recorded(x)
    BY <1>1, <1>2 DEF TypeOK, Writes
  <2>2. \A y \in Dispatchable : Recorded(y)' <=> Recorded(y) \/ y = x
    BY <1>2, <2>1, RecordedByRequest, DecisionParts
  <2>3. CASE x \notin Dispatchable
    BY <1>1, <1>2, <2>2, <2>3 DEF LogIsComplete, Writes
  <2>4. CASE x \in Dispatchable
    <3>1. /\ DOMAIN log' = 1 .. Len(log) + 1 /\ log'[Len(log) + 1] = x
          /\ \A i \in 1 .. Len(log) : log'[i] = log[i]
      BY <1>1, <1>2, <2>4, LogGrows DEF Writes
    <3>2. DOMAIN log = 1 .. Len(log) /\ Len(log) \in Nat
      BY <1>1, LogDomain
    <3>3. \A i \in DOMAIN log : log[i] # x
      BY <1>1, <2>1, <2>4 DEF LogIsComplete
    <3>4. \A i \in DOMAIN log' : i \in DOMAIN log \/ i = Len(log) + 1
      BY <3>1, <3>2
    <3>5. \A i \in DOMAIN log : i \in DOMAIN log' /\ log'[i] = log[i]
      BY <3>1, <3>2
    <3>6. Len(log) + 1 \in DOMAIN log'
      BY <3>1, <3>2
    <3>7. \A y \in Dispatchable : Recorded(y)' <=> \E i \in DOMAIN log' : log'[i] = y
      BY <1>1, <2>2, <3>1, <3>4, <3>5, <3>6 DEF LogIsComplete
    <3>8. \A i, j \in DOMAIN log' : log'[i] = log'[j] => i = j
      BY <1>1, <3>1, <3>3, <3>4, <3>5 DEF LogIsComplete
    <3> QED BY <3>7, <3>8 DEF LogIsComplete
  <2> QED BY <2>3, <2>4
<1>3. CASE log' = log /\ \A x \in Decision : Recorded(x)' <=> Recorded(x)
  BY <1>1, <1>3, DecisionParts DEF LogIsComplete
<1> QED BY <1>1, <1>2, <1>3, Effects, RecordedAsBefore

LEMMA BatchesAreRecordedKept ==
  ASSUME Basic, Next \/ UNCHANGED vars
  PROVE  BatchesAreRecorded'
<1>1. /\ BatchesAreRecorded
      /\ batch \in [Dispatcher -> SUBSET Dispatchable]
      /\ mark \in [Dispatcher -> {"", "APPLIED", "FAILED"}]
  BY DEF Basic, TypeOK
<1>2. \A x \in Decision : Recorded(x) => Recorded(x)'
  <2>1. \A q \in Request : target[q] \in Decision
    BY DEF Basic, TypeOK
  <2> QED BY <1>1, <2>1, Effects, RecordedAsBefore, RecordedByRequest
<1>3. \A x \in Dispatchable : x \in Decision
  BY DecisionParts
<1>4. CASE UNCHANGED <<batch, mark>>
  BY <1>1, <1>2, <1>3, <1>4 DEF BatchesAreRecorded
<1>5. ASSUME NEW d \in Dispatcher, DispatcherEffect(d) PROVE BatchesAreRecorded'
  <2>1. CASE ListDispatchCandidates(d)
    <3>1. PICK F \in SUBSET {x \in Dispatchable : decision[x] = "FAILED"} :
            batch' = [batch EXCEPT ![d] = {x \in Dispatchable : decision[x] = "RECORDED"} \cup F]
      BY <2>1 DEF ListDispatchCandidates
    <3>2. \A x \in batch'[d] : x \in Decision /\ Recorded(x)
      BY <1>1, <1>3, <3>1 DEF Recorded
    <3>3. mark' = mark /\ mark[d] = ""
      BY <1>1, <2>1 DEF ListDispatchCandidates, BatchesAreRecorded
    <3> QED BY <1>1, <1>2, <1>3, <3>1, <3>2, <3>3 DEF BatchesAreRecorded
  <2>2. CASE Apply(d) \/ ApplyFails(d)
    BY <1>1, <1>2, <1>3, <2>2 DEF Apply, ApplyFails, BatchesAreRecorded
  <2>3. CASE MarkDecision(d) \/ MarkFails(d)
    <3>1. /\ mark' = [mark EXCEPT ![d] = ""]
          /\ \E S \in SUBSET batch[d] : batch' = [batch EXCEPT ![d] = S]
      BY <2>3 DEF MarkDecision, MarkFails
    <3> QED BY <1>1, <1>2, <1>3, <3>1 DEF BatchesAreRecorded
  <2> QED BY <1>5, <2>1, <2>2, <2>3 DEF DispatcherEffect
<1>6. JobEffect => UNCHANGED <<batch, mark>>
  BY DEF JobEffect, ValidateComplete, ValidateDuplicate, ThrowValidationError, UpdateStatus,
         CompleteJob, FinishCase, FinishFails, dispatchers
<1> QED BY <1>1, <1>4, <1>5, <1>6, Effects DEF Resting, Writes, Accepts

LEMMA BasicKept ==
  ASSUME Basic, Next \/ UNCHANGED vars
  PROVE  Basic'
BY TypesKept, TasksInTurnKept, TargetsExistKept, LogIsCompleteKept,
   BatchesAreRecordedKept DEF Basic

---------------------------------------------------------------------------
(* The order of the log. *)

LEMMA BeforeIsAnOrder ==
  ASSUME Basic
  PROVE  /\ \A x, y \in Dispatchable : Before(x, y) => Recorded(x) /\ Recorded(y) /\ x # y
         /\ \A x, y \in Dispatchable : Before(x, y) => ~ Before(y, x)
         /\ \A x, y \in Dispatchable : Recorded(x) /\ Recorded(y) /\ x # y => Before(x, y) \/ Before(y, x)
<1>1. DOMAIN log = 1 .. Len(log) /\ Len(log) \in Nat
  BY LogDomain DEF Basic
<1>2. LogIsComplete
  BY DEF Basic
<1>3. \A i, j \in DOMAIN log : i < j \/ j < i \/ i = j
  BY <1>1
<1>4. \A i, j \in DOMAIN log : i < j => ~ (j < i) /\ i # j
  BY <1>1
<1>5. ASSUME NEW x \in Dispatchable, NEW y \in Dispatchable, Before(x, y)
      PROVE  Recorded(x) /\ Recorded(y) /\ x # y /\ ~ Before(y, x)
  <2>1. PICK i \in DOMAIN log, j \in DOMAIN log : i < j /\ log[i] = x /\ log[j] = y
    BY <1>5 DEF Before
  <2>2. Recorded(x) /\ Recorded(y)
    BY <1>2, <2>1 DEF LogIsComplete
  <2>3. x # y
    BY <1>2, <1>4, <2>1 DEF LogIsComplete
  <2>4. ASSUME Before(y, x) PROVE FALSE
    <3>1. PICK k \in DOMAIN log, l \in DOMAIN log : k < l /\ log[k] = y /\ log[l] = x
      BY <2>4 DEF Before
    <3>2. k = j /\ l = i
      BY <1>2, <2>1, <3>1 DEF LogIsComplete
    <3> QED BY <1>4, <2>1, <3>1, <3>2
  <2> QED BY <2>2, <2>3, <2>4
<1>6. ASSUME NEW x \in Dispatchable, NEW y \in Dispatchable, Recorded(x), Recorded(y), x # y
      PROVE  Before(x, y) \/ Before(y, x)
  <2>1. PICK i \in DOMAIN log, j \in DOMAIN log : log[i] = x /\ log[j] = y
    BY <1>2, <1>6 DEF LogIsComplete
  <2> QED BY <1>3, <1>6, <2>1 DEF Before
<1> QED BY <1>5, <1>6

LEMMA OldestIsOne ==
  ASSUME Basic, NEW S \in SUBSET Dispatchable, NEW x \in S, NEW y \in S,
         IsOldest(x, S), IsOldest(y, S)
  PROVE  x = y
BY BeforeIsAnOrder DEF IsOldest

LEMMA LogExtends ==
  ASSUME Basic, NEW x \in Decision, Writes(x)
  PROVE  /\ \A y, z \in Dispatchable : Before(y, z) => Before(y, z)'
         /\ \A y, z \in Dispatchable : Before(y, z)' /\ z # x => Before(y, z)
         /\ x \in Dispatchable => \A y \in Dispatchable : Recorded(y) => Before(y, x)'
<1>1. TypeOK /\ LogIsComplete
  BY DEF Basic
<1>2. CASE x \notin Dispatchable
  BY <1>2 DEF Writes, Before
<1>3. CASE x \in Dispatchable
  <2>1. /\ DOMAIN log' = 1 .. Len(log) + 1 /\ log'[Len(log) + 1] = x
        /\ \A i \in 1 .. Len(log) : log'[i] = log[i]
    BY <1>1, <1>3, LogGrows DEF Writes
  <2>2. DOMAIN log = 1 .. Len(log) /\ Len(log) \in Nat
    BY <1>1, LogDomain
  <2>3. \A i \in DOMAIN log : i \in DOMAIN log' /\ log'[i] = log[i] /\ i < Len(log) + 1
    BY <2>1, <2>2
  <2>4. \A i \in DOMAIN log' : i \in DOMAIN log \/ i = Len(log) + 1
    BY <2>1, <2>2
  <2>5. Len(log) + 1 \in DOMAIN log'
    BY <2>1, <2>2
  <2>6. \A i, j \in DOMAIN log' : i < j /\ j \in DOMAIN log => i \in DOMAIN log
    BY <2>1, <2>2
  <2>7. \A y, z \in Dispatchable : Before(y, z) => Before(y, z)'
    BY <2>3 DEF Before
  <2>8. \A y, z \in Dispatchable : Before(y, z)' /\ z # x => Before(y, z)
    BY <2>1, <2>3, <2>4, <2>6 DEF Before
  <2>9. ASSUME NEW y \in Dispatchable, Recorded(y) PROVE Before(y, x)'
    <3>1. PICK i \in DOMAIN log : log[i] = y
      BY <1>1, <2>9 DEF LogIsComplete
    <3> QED BY <2>1, <2>3, <2>5, <3>1 DEF Before
  <2> QED BY <2>7, <2>8, <2>9
<1> QED BY <1>2, <1>3

---------------------------------------------------------------------------
(* What the customer was told.                                             *)

\* A newest decision that is the oldest of a batch is all of it.
LEMMA NewestIsAlone ==
  ASSUME DecisionsInv, NEW d \in Dispatcher, IsOldest(newest, batch[d])
  PROVE  batch[d] = {newest} /\ newest \in Dispatchable
<1>1. batch[d] \subseteq Dispatchable /\ newest \in batch[d]
  BY DEF DecisionsInv, Basic, TypeOK, IsOldest
<1>2. ASSUME NEW y \in batch[d], y # newest PROVE FALSE
  <2>1. Recorded(y)
    BY <1>2 DEF DecisionsInv, Basic, BatchesAreRecorded
  <2>2. Before(newest, y)
    BY <1>2 DEF IsOldest
  <2>3. Before(y, newest)
    BY <1>1, <1>2, <2>1 DEF DecisionsInv, NewestIsLast
  <2> QED BY <1>1, <1>2, <2>2, <2>3, BeforeIsAnOrder DEF DecisionsInv
<1> QED BY <1>1, <1>2

LEMMA NewestIsLastKept ==
  ASSUME DecisionsInv, Next \/ UNCHANGED vars
  PROVE  NewestIsLast'
<1>0. Basic /\ NewestIsLast
  BY DEF DecisionsInv
<1>1. CASE /\ log' = log /\ \A x \in Decision : Recorded(x)' <=> Recorded(x)
           /\ newest' = newest \/ newest' \notin Dispatchable
  BY <1>0, <1>1, DecisionParts DEF NewestIsLast, Before
<1>2. ASSUME NEW q \in Request, Writes(target[q]) PROVE NewestIsLast'
  <2>1. PICK x \in Decision : x = target[q] /\ Writes(x)
    BY <1>0, <1>2 DEF Basic, TypeOK
  <2>2. /\ \A y \in Decision : Recorded(y)' <=> Recorded(y) \/ y = x
        /\ \A y, z \in Dispatchable : Before(y, z) => Before(y, z)'
        /\ x \in Dispatchable => \A y \in Dispatchable : Recorded(y) => Before(y, x)'
    BY <1>0, <2>1, RecordedByRequest, LogExtends
  <2>3. newest' = IF x \in Dispatchable THEN x ELSE newest
    BY <2>1 DEF Writes
  <2>4. CASE x \in Dispatchable
    BY <2>2, <2>3, <2>4, DecisionParts DEF NewestIsLast
  <2>5. CASE x \notin Dispatchable
    <3>1. \A y \in Dispatchable : Recorded(y)' <=> Recorded(y)
      BY <2>2, <2>5, DecisionParts
    <3>2. PICK n : n = newest /\ newest' = n
      BY <2>3, <2>5
    <3>3. n \in Dispatchable =>
            Recorded(n)' /\ \A y \in Dispatchable \ {n} : Recorded(y)' => Before(y, n)'
      BY <1>0, <2>2, <3>1, <3>2 DEF NewestIsLast
    <3> QED BY <3>2, <3>3 DEF NewestIsLast, Recorded, Before
  <2> QED BY <2>4, <2>5
<1>3. ASSUME \/ Resting
             \/ \E q \in Request : Accepts(target[q])
             \/ \E d \in Dispatcher : DispatcherEffect(d)
      PROVE  newest' = newest
  BY <1>3 DEF Resting, Accepts, DispatcherEffect, ListDispatchCandidates, Apply, ApplyFails,
              MarkDecision, MarkFails, history
<1>4. ASSUME JobEffect PROVE newest' = newest \/ newest' \notin Dispatchable
  BY <1>4 DEF JobEffect, ValidateComplete, ValidateDuplicate, ThrowValidationError,
              UpdateStatus, CompleteJob, FinishCase, FinishFails, Dispatchable, history
<1> QED BY <1>0, <1>1, <1>2, <1>3, <1>4, Effects, RecordedAsBefore

\* A step that tells the customer nothing and puts nothing on its way.
LEMMA NothingTold ==
  ASSUME HeardInTurn, Heard' => Heard, Late(Dispatcher)' \subseteq Late(Dispatcher),
         UNCHANGED <<customer, newest, overtaken>>
  PROVE  HeardInTurn'
<1> SUFFICES ASSUME Heard'
             PROVE  /\ Late(Dispatcher)' \subseteq overtaken \cup {newest}
                    /\ customer \in {StatusAfter(x) : x \in overtaken \cup {newest}}
  BY DEF HeardInTurn, StatusAfter, StatusFor
<1> QED BY DEF HeardInTurn

\* Neither the decisions of the dispatcher nor its batches change.
LEMMA SameOnTheWay ==
  ASSUME UNCHANGED <<log, batch, mark>>, \A y \in Dispatchable : decision'[y] = decision[y]
  PROVE  /\ Pending' = Pending /\ Late(Dispatcher)' = Late(Dispatcher)
         /\ newest' = newest => (Heard' <=> Heard)
<1>1. Pending' = Pending
  BY DEF Pending
<1>2. Late(Dispatcher)' = Late(Dispatcher)
  BY <1>1 DEF Late
<1>3. newest' = newest => (Heard' <=> Heard)
  BY <1>1 DEF Heard, IsOldest, Before
<1> QED BY <1>1, <1>2, <1>3

LEMMA JobsKeepTurn ==
  ASSUME DecisionsInv, JobEffect
  PROVE  HeardInTurn'
<1>1. UNCHANGED <<log, batch, mark>> /\ \A y \in Dispatchable : decision'[y] = decision[y]
  <2>1. CASE FinishCase
    <3>1. \A y \in Dispatchable : y \in Decision /\ y[2] # "APPROVE"
      BY DecisionParts
    <3> QED BY <2>1, <3>1 DEF FinishCase, dispatchers
  <2> QED
    BY <2>1 DEF JobEffect, ValidateComplete, ValidateDuplicate, ThrowValidationError,
                UpdateStatus, CompleteJob, FinishFails, dispatchers
<1>2. Late(Dispatcher)' = Late(Dispatcher) /\ (newest' = newest => (Heard' <=> Heard))
  BY <1>1, SameOnTheWay
<1>3. CASE ValidateDuplicate \/ UpdateStatus
  <2>1. overtaken' = Late(Dispatcher) /\ customer' = StatusAfter(newest')
    <3>1. \A k : /\ StatusAfter(<<k, "RETURN">>) = "NEEDS_CHANGES"
                 /\ StatusAfter(<<k, "APPROVE">>) = "ACTIVE"
      BY DEF StatusAfter, StatusFor
    <3>2. PICK k : k = Len(tasks)
      OBVIOUS
    <3>3. CASE ValidateDuplicate
      <4>1. newest' = <<k, "RETURN">> /\ customer' = "NEEDS_CHANGES"
            /\ overtaken' = Late(Dispatcher)
        BY <3>2, <3>3 DEF ValidateDuplicate
      <4> QED BY <3>1, <4>1 DEF StatusAfter, StatusFor
    <3>4. CASE UpdateStatus
      <4>1. newest' = <<k, "APPROVE">> /\ customer' = "ACTIVE"
            /\ overtaken' = Late(Dispatcher)
        BY <3>2, <3>4 DEF UpdateStatus
      <4> QED BY <3>1, <4>1 DEF StatusAfter, StatusFor
    <3> QED BY <1>3, <3>3, <3>4
  <2>2. HeardInTurn' <=>
          (Heard' => /\ Late(Dispatcher)' \subseteq overtaken' \cup {newest'}
                     /\ customer' \in {StatusAfter(x) : x \in overtaken' \cup {newest'}})
    BY DEF HeardInTurn, StatusAfter, StatusFor
  <2> QED BY <1>2, <2>1, <2>2
<1>4. CASE UNCHANGED <<customer, newest, overtaken>>
  BY <1>2, <1>4, NothingTold DEF DecisionsInv
<1> QED
  BY <1>3, <1>4 DEF JobEffect, ValidateComplete, ThrowValidationError, CompleteJob,
                    FinishCase, FinishFails, history

LEMMA WritingKeepsTurn ==
  ASSUME DecisionsInv, NEW q \in Request, Writes(target[q])
  PROVE  HeardInTurn'
<1>1. PICK x \in Decision : x = target[q] /\ Writes(x)
  BY DEF DecisionsInv, Basic, TypeOK
<1>2. /\ \A y \in Decision : decision'[y] = IF y = x THEN "RECORDED" ELSE decision[y]
      /\ ~ Recorded(x) /\ UNCHANGED <<customer, batch, mark, overtaken>>
  BY <1>1, RecordedByRequest DEF DecisionsInv, Writes
<1>3. CASE x \in Dispatchable
  <2>1. newest' = x /\ x \in Pending'
    BY <1>1, <1>2, <1>3 DEF Writes, Pending
  <2>2. \A d \in Dispatcher : x \notin batch'[d]
    BY <1>2 DEF DecisionsInv, Basic, BatchesAreRecorded
  <2>3. ~ Heard'
    BY <2>1, <2>2 DEF Heard, IsOldest
  <2> QED BY <2>3 DEF HeardInTurn
<1>4. CASE x \notin Dispatchable
  <2>1. log' = log /\ newest' = newest
    BY <1>1, <1>4 DEF Writes
  <2>2. \A y \in Dispatchable : decision'[y] = decision[y]
    BY <1>2, <1>4, DecisionParts
  <2>3. Late(Dispatcher)' = Late(Dispatcher) /\ (Heard' <=> Heard)
    BY <1>2, <2>1, <2>2, SameOnTheWay
  <2> QED BY <1>2, <2>1, <2>3, NothingTold DEF DecisionsInv
<1> QED BY <1>3, <1>4

LEMMA TellingKeepsTurn ==
  ASSUME DecisionsInv, NEW d \in Dispatcher, Apply(d) \/ ApplyFails(d)
  PROVE  HeardInTurn'
<1>1. /\ UNCHANGED <<decision, log, batch, newest>> /\ mark[d] = ""
      /\ mark' = [mark EXCEPT ![d] = "APPLIED"] \/ mark' = [mark EXCEPT ![d] = "FAILED"]
      /\ mark \in [Dispatcher -> {"", "APPLIED", "FAILED"}]
      /\ batch \in [Dispatcher -> SUBSET Dispatchable]
  BY DEF Apply, ApplyFails, DecisionsInv, Basic, TypeOK
<1>2. Pending' = Pending /\ Late(Dispatcher)' = Late(Dispatcher)
  <2>1. Pending' = Pending
    BY <1>1 DEF Pending
  <2> QED BY <1>1, <2>1 DEF Late
<1>3. \A y, S : IsOldest(y, S)' <=> IsOldest(y, S)
  BY <1>1 DEF IsOldest, Before
<1>4. \A e \in Dispatcher \ {d} : mark'[e] = mark[e] /\ batch'[e] = batch[e]
  BY <1>1
<1>5. HeardInTurn' <=>
        (Heard' => /\ Late(Dispatcher) \subseteq overtaken' \cup {newest}
                   /\ customer' \in {StatusAfter(x) : x \in overtaken' \cup {newest}})
  BY <1>1, <1>2 DEF HeardInTurn, StatusAfter, StatusFor
<1>6. Heard' /\ ~ Heard => mark'[d] = "APPLIED" /\ IsOldest(newest, batch[d])
  BY <1>1, <1>2, <1>3, <1>4 DEF Heard
<1>7. ASSUME NEW x \in batch[d], IsOldest(x, batch[d]), Tell(d, x) PROVE HeardInTurn'
  <2>1. x \in Dispatchable /\ StatusAfter(x) = StatusFor(x) /\ customer' = StatusAfter(x)
    <3>1. x \in Dispatchable
      BY <1>1, <1>7
    <3>2. x[2] \notin {"", "RETURN"}
      BY <3>1 DEF Dispatchable
    <3> QED BY <1>7, <3>1, <3>2 DEF StatusAfter, Tell
  <2>2. CASE x = newest
    <3>1. batch[d] = {newest}
      BY <1>7, <2>2, NewestIsAlone
    <3>2. overtaken' = Late(Dispatcher \ {d}) \ {newest}
      BY <1>7, <2>2, <3>1 DEF Tell
    <3>3. Late(Dispatcher) \subseteq overtaken' \cup {newest}
      BY <3>1, <3>2 DEF Late
    <3> QED BY <1>5, <2>1, <2>2, <3>3
  <2>3. CASE x # newest
    <3>1. overtaken' = overtaken
      BY <1>7, <2>3 DEF Tell
    <3>2. Heard' => Heard
      <4>1. ASSUME IsOldest(newest, batch[d]) PROVE FALSE
        <5>1. newest \in batch[d] /\ batch[d] \in SUBSET Dispatchable /\ Basic
          BY <1>1, <4>1 DEF DecisionsInv, IsOldest
        <5> QED BY <1>7, <2>3, <4>1, <5>1, OldestIsOne
      <4> QED BY <1>6, <4>1
    <3>3. x \in Late(Dispatcher)
      BY DEF Late
    <3> QED BY <1>5, <2>1, <2>3, <3>1, <3>2, <3>3 DEF DecisionsInv, HeardInTurn
  <2> QED BY <2>2, <2>3
<1>8. CASE ApplyFails(d) /\ UNCHANGED <<customer, overtaken>>
  <2>1. mark'[d] = "FAILED"
    BY <1>1, <1>8 DEF ApplyFails
  <2>2. Heard' => Heard
    BY <1>6, <2>1
  <2> QED BY <1>1, <1>2, <1>8, <2>2, NothingTold DEF DecisionsInv
<1> QED BY <1>7, <1>8 DEF Apply, ApplyFails

LEMMA BatchesKeepTurn ==
  ASSUME DecisionsInv, NEW d \in Dispatcher,
         ListDispatchCandidates(d) \/ MarkDecision(d) \/ MarkFails(d)
  PROVE  HeardInTurn'
<1>0. /\ batch \in [Dispatcher -> SUBSET Dispatchable]
      /\ mark \in [Dispatcher -> {"", "APPLIED", "FAILED"}]
      /\ decision \in [Decision -> {"", "RECORDED", "FAILED", "APPLIED"}]
      /\ BatchesAreRecorded /\ HeardInTurn
  BY DEF DecisionsInv, Basic, TypeOK
<1>1. /\ UNCHANGED <<log, customer, newest, overtaken>>
      /\ \A e \in Dispatcher \ {d} : mark'[e] = mark[e] /\ batch'[e] = batch[e]
  BY <1>0 DEF ListDispatchCandidates, MarkDecision, MarkFails, history
<1>2. mark'[d] = ""
  BY <1>0 DEF ListDispatchCandidates, MarkDecision, MarkFails, BatchesAreRecorded
<1>3. \A y, S : IsOldest(y, S)' <=> IsOldest(y, S)
  BY <1>1 DEF IsOldest, Before
<1>4. Heard' => newest \notin Pending' \/ Heard
  BY <1>1, <1>2, <1>3 DEF Heard
<1>5. CASE ListDispatchCandidates(d)
  <2>1. Pending' = Pending /\ batch'[d] \subseteq Pending
    BY <1>0, <1>5 DEF ListDispatchCandidates, Pending
  <2>2. Late(Dispatcher)' \subseteq Late(Dispatcher)
    BY <1>1, <2>1 DEF Late
  <2>3. Heard' => Heard
    BY <1>4, <2>1 DEF Heard
  <2> QED BY <1>0, <1>1, <2>2, <2>3, NothingTold
<1>6. CASE MarkFails(d)
  <2>1. Pending' = Pending /\ batch'[d] \subseteq batch[d]
    BY <1>0, <1>6 DEF MarkFails, Pending
  <2>2. Late(Dispatcher)' \subseteq Late(Dispatcher)
    BY <1>1, <2>1 DEF Late
  <2>3. Heard' => Heard
    BY <1>4, <2>1 DEF Heard
  <2> QED BY <1>0, <1>1, <2>2, <2>3, NothingTold
<1>7. CASE MarkDecision(d)
  <2>1. PICK x \in batch[d] : /\ IsOldest(x, batch[d])
                             /\ decision' = [decision EXCEPT ![x] = mark[d]]
                             /\ batch' = [batch EXCEPT ![d] = batch[d] \ {x}]
    BY <1>0, <1>7 DEF MarkDecision
  <2>2. mark[d] \in {"APPLIED", "FAILED"} /\ x \in Dispatchable
    BY <1>0, <1>7 DEF MarkDecision
  <2>3. \A y \in Dispatchable : decision'[y] = IF y = x THEN mark[d] ELSE decision[y]
    BY <1>0, <2>1, DecisionParts
  <2>4. Pending' \subseteq Pending \cup {x} /\ batch'[d] \subseteq batch[d]
    BY <1>0, <2>1, <2>3 DEF Pending
  <2>5. Late(Dispatcher)' \subseteq Late(Dispatcher)
    BY <1>1, <2>4 DEF Late
  <2>6. newest \notin Pending' => Heard
    <3>1. CASE newest = x
      <4>1. newest \notin Pending' => mark[d] = "APPLIED"
        BY <2>2, <2>3, <3>1 DEF Pending
      <4> QED BY <2>1, <3>1, <4>1 DEF Heard
    <3>2. CASE newest # x
      BY <2>3, <3>2 DEF Heard, Pending
    <3> QED BY <3>1, <3>2
  <2> QED BY <1>0, <1>1, <1>4, <2>5, <2>6, NothingTold
<1> QED BY <1>5, <1>6, <1>7

---------------------------------------------------------------------------
(* The theorems. *)

LEMMA DecisionsInvInit == Init => DecisionsInv
<1> SUFFICES ASSUME Init PROVE DecisionsInv
  OBVIOUS
<1>1. newest = <<1, "">> /\ overtaken = {} /\ customer = "DRAFT" /\ newest \notin Dispatchable
  BY DEF Init, Dispatchable
<1>2. NewestIsLast
  BY <1>1 DEF NewestIsLast
<1>3. Late(Dispatcher) = {}
  BY DecisionParts DEF Init, Late, Pending
<1>4. customer = StatusAfter(newest)
  BY <1>1 DEF StatusAfter
<1> QED BY <1>2, <1>3, <1>4, BasicInit DEF DecisionsInv, HeardInTurn

LEMMA DecisionsInvKept == DecisionsInv /\ [Next]_vars => DecisionsInv'
<1> SUFFICES ASSUME DecisionsInv, Next \/ UNCHANGED vars PROVE DecisionsInv'
  OBVIOUS
<1>1. Basic' /\ NewestIsLast'
  BY BasicKept, NewestIsLastKept DEF DecisionsInv
<1>2. CASE Resting \/ \E q \in Request : Accepts(target[q])
  <2>1. UNCHANGED <<decision, log, customer, batch, mark, newest, overtaken>>
    BY <1>2 DEF Resting, Accepts
  <2>2. Late(Dispatcher)' = Late(Dispatcher) /\ (Heard' <=> Heard)
    BY <2>1, SameOnTheWay
  <2> QED BY <1>1, <2>1, <2>2, NothingTold DEF DecisionsInv
<1>3. HeardInTurn'
  BY <1>2, Effects, JobsKeepTurn, WritingKeepsTurn, TellingKeepsTurn, BatchesKeepTurn
     DEF DecisionsInv, DispatcherEffect
<1> QED BY <1>1, <1>3 DEF DecisionsInv

LEMMA DecisionsInvHolds == Spec => []DecisionsInv
  BY DecisionsInvInit, DecisionsInvKept, PTL DEF Spec

\* The types of the engine's tasks, the decisions, the requests and the
\* dispatchers.
THEOREM DecisionTypes == Spec => []TypeOK
<1>1. DecisionsInv => TypeOK
  BY DEF DecisionsInv, Basic
<1> QED BY <1>1, DecisionsInvHolds, PTL

\* In every behaviour, failed calls, lost marks, overlapping batches and refused
\* requests included: once the newest decision is applied, or a worker's update
\* came after it, the customer has its status or that of a decision that was
\* still on its way when the newest reached it (DecisionDispatcher).
THEOREM CustomerHasLastDecision == Spec => []CustomerFollowsDecisions
<1>1. DecisionsInv => CustomerFollowsDecisions
  BY DEF DecisionsInv, HeardInTurn, Heard, CustomerFollowsDecisions
<1> QED BY <1>1, DecisionsInvHolds, PTL

=============================================================================
