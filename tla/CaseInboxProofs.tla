-------------------------- MODULE CaseInboxProofs --------------------------
(***************************************************************************)
(* Theorems about CaseInbox, for any number of requests, projectors, tasks *)
(* and faults: its types, that a step never has more open rows than there  *)
(* are projectors, and that the row of the engine's open task is kept.     *)
(***************************************************************************)
EXTENDS CaseInbox, SequenceTheorems, FiniteSetTheorems, TLAPS

---------------------------------------------------------------------------
\* Rows of one step.

LEMMA ShutRows ==
  ASSUME NEW R \in Seq(Row), NEW I
  PROVE  /\ Shut(R, I) \in Seq(Row)
         /\ Len(Shut(R, I)) = Len(R)
         /\ \A i \in 1 .. Len(R) :
              /\ Shut(R, I)[i].job = R[i].job
              /\ Shut(R, I)[i].open = (R[i].open /\ i \notin I)
<1>1. DOMAIN R = 1 .. Len(R) /\ Len(R) \in Nat
  BY LenProperties
<1>2. \A i \in 1 .. Len(R) : R[i] \in Row
  BY ElementOfSeq
<1>3. \A i \in 1 .. Len(R) :
        /\ [R[i] EXCEPT !.open = FALSE] \in Row
        /\ [R[i] EXCEPT !.open = FALSE].job = R[i].job
        /\ [R[i] EXCEPT !.open = FALSE].open = FALSE
  BY <1>2 DEF Row
<1>4. Shut(R, I) \in [1 .. Len(R) -> Row]
  BY <1>1, <1>2, <1>3 DEF Shut
<1>5. Shut(R, I) \in Seq(Row) /\ Len(Shut(R, I)) = Len(R)
  BY <1>1, <1>4, IsASeq, LenProperties
<1>6. ASSUME NEW i \in 1 .. Len(R)
      PROVE  /\ Shut(R, I)[i].job = R[i].job
             /\ Shut(R, I)[i].open = (R[i].open /\ i \notin I)
  <2>1. R[i].open \in BOOLEAN
    BY <1>2 DEF Row
  <2>2. CASE i \in I
    BY <1>1, <1>3, <2>1, <2>2 DEF Shut
  <2>3. CASE i \notin I
    BY <1>1, <2>1, <2>3 DEF Shut
  <2> QED BY <2>2, <2>3
<1> QED BY <1>5, <1>6

\* The rows of a step after UpsertWorkItem with the lock of row n: that row is
\* the task's and the others stay as they are, or a row of the task comes after
\* them and they are closed.
Upserted(R, k, n) ==
  IF n > 0 /\ Renewable(R[n], k)
  THEN [R EXCEPT ![n] = [job |-> k, open |-> TRUE]]
  ELSE Append(Shut(R, DOMAIN R), [job |-> k, open |-> TRUE])

LEMMA RenewedRows ==
  ASSUME NEW R \in Seq(Row), NEW k \in 0 .. MaxTasks, NEW n \in 1 .. Len(R),
         Renewable(R[n], k)
  PROVE  LET U == Upserted(R, k, n)
         IN /\ U \in Seq(Row) /\ Len(U) = Len(R)
            /\ U[n] = [job |-> k, open |-> TRUE]
            /\ \A i \in 1 .. Len(R) : i # n => U[i] = R[i]
<1> DEFINE row == [job |-> k, open |-> TRUE]
           U == Upserted(R, k, n)
<1>1. row \in Row
  BY DEF Row
<1>2. Len(R) \in Nat /\ DOMAIN R = 1 .. Len(R)
  BY LenProperties
<1>3. n > 0
  BY <1>2
<1>4. U = [R EXCEPT ![n] = row]
  BY <1>3 DEF Upserted
<1> HIDE DEF U, row
<1>5. U \in Seq(Row) /\ Len(U) = Len(R)
  BY <1>1, <1>4, ExceptSeq
<1>6. U[n] = row /\ \A i \in 1 .. Len(R) : i # n => U[i] = R[i]
  BY <1>2, <1>4
<1> QED
  BY <1>5, <1>6 DEF U, row

LEMMA AppendedRows ==
  ASSUME NEW R \in Seq(Row), NEW k \in 0 .. MaxTasks, NEW n \in 0 .. Len(R),
         ~ (n > 0 /\ Renewable(R[n], k))
  PROVE  LET U == Upserted(R, k, n)
         IN /\ U \in Seq(Row) /\ Len(U) = Len(R) + 1
            /\ U[Len(R) + 1] = [job |-> k, open |-> TRUE]
            /\ \A i \in 1 .. Len(R) : U[i].job = R[i].job /\ ~ U[i].open
<1> DEFINE row == [job |-> k, open |-> TRUE]
           S == Shut(R, DOMAIN R)
           U == Upserted(R, k, n)
<1>1. row \in Row
  BY DEF Row
<1>2. Len(R) \in Nat /\ DOMAIN R = 1 .. Len(R)
  BY LenProperties
<1>3. U = Append(S, row)
  BY DEF Upserted
<1>4. /\ S \in Seq(Row) /\ Len(S) = Len(R)
      /\ \A i \in 1 .. Len(R) : S[i].job = R[i].job /\ ~ S[i].open
  BY <1>2, ShutRows
<1> HIDE DEF S, row
<1>5. /\ U \in Seq(Row) /\ Len(U) = Len(R) + 1
      /\ U[Len(R) + 1] = row /\ \A i \in 1 .. Len(R) : U[i] = S[i]
  BY <1>1, <1>3, <1>4, AppendProperties
<1> HIDE DEF U
<1> QED
  BY <1>4, <1>5 DEF U, row

---------------------------------------------------------------------------
\* The rows of every step.

LEMMA StepOfTask == \A k : StepOf(k) \in Steps
BY DEF StepOf, Steps

\* Some rows are closed; none is opened or bound to another job.
Closes == \E J \in [Steps -> SUBSET Int] : rows' = [s \in Steps |-> Shut(rows[s], J[s])]

LEMMA ClosesKeeps ==
  ASSUME rows \in [Steps -> Seq(Row)], Closes
  PROVE  /\ rows' \in [Steps -> Seq(Row)]
         /\ \A s \in Steps :
              /\ Len(rows'[s]) = Len(rows[s])
              /\ \A i \in 1 .. Len(rows[s]) :
                   rows'[s][i].job = rows[s][i].job /\ (rows'[s][i].open => rows[s][i].open)
<1>1. PICK J \in [Steps -> SUBSET Int] : rows' = [s \in Steps |-> Shut(rows[s], J[s])]
  BY DEF Closes
<1>2. ASSUME NEW s \in Steps
      PROVE  /\ rows'[s] \in Seq(Row) /\ Len(rows'[s]) = Len(rows[s])
             /\ \A i \in 1 .. Len(rows[s]) :
                  rows'[s][i].job = rows[s][i].job /\ (rows'[s][i].open => rows[s][i].open)
  <2>1. rows[s] \in Seq(Row) /\ rows'[s] = Shut(rows[s], J[s])
    BY <1>1
  <2>2. /\ Shut(rows[s], J[s]) \in Seq(Row) /\ Len(Shut(rows[s], J[s])) = Len(rows[s])
        /\ \A i \in 1 .. Len(rows[s]) :
             /\ Shut(rows[s], J[s])[i].job = rows[s][i].job
             /\ Shut(rows[s], J[s])[i].open => rows[s][i].open
    BY <2>1, ShutRows
  <2> QED
    BY <2>1, <2>2
<1>3. rows' = [s \in Steps |-> rows'[s]]
  BY <1>1
<1> QED
  BY <1>2, <1>3

\* One step's rows are closed: CompleteWorkItemByJob and Reconcile.
LEMMA ShutOneStep ==
  ASSUME rows \in [Steps -> Seq(Row)], NEW t \in Steps, NEW I \in SUBSET Int,
         rows' = [rows EXCEPT ![t] = Shut(@, I)]
  PROVE  Closes
<1> DEFINE J == [s \in Steps |-> IF s = t THEN I ELSE {}]
<1>1. J \in [Steps -> SUBSET Int]
  OBVIOUS
<1>2. ASSUME NEW s \in Steps \ {t} PROVE Shut(rows[s], {}) = rows[s]
  <2>1. DOMAIN rows[s] = 1 .. Len(rows[s]) /\ rows[s] \in [1 .. Len(rows[s]) -> Row]
    BY LenProperties
  <2>2. Shut(rows[s], {}) = [i \in DOMAIN rows[s] |-> rows[s][i]]
    BY DEF Shut
  <2> QED
    BY <2>1, <2>2
<1>3. ASSUME NEW s \in Steps PROVE rows'[s] = Shut(rows[s], J[s])
  BY <1>2
<1>4. rows' = [s \in Steps |-> Shut(rows[s], J[s])]
  BY <1>3
<1> QED
  BY <1>1, <1>4 DEF Closes

LEMMA RowIndices ==
  ASSUME rows \in [Steps -> Seq(Row)], NEW k \in Task
  PROVE  RowsOf(k) \subseteq Int
<1>1. rows[StepOf(k)] \in Seq(Row)
  BY StepOfTask
<1>2. DOMAIN rows[StepOf(k)] = 1 .. Len(rows[StepOf(k)])
  BY <1>1, LenProperties
<1> QED
  BY <1>2 DEF RowsOf

\* A task found in the index gets its row, by a projector that has read row n.
Upserts(k, n) ==
  rows' = [rows EXCEPT ![StepOf(k)] = Upserted(rows[StepOf(k)], k, n)]

LEMMA ProjectUpserts ==
  ASSUME NEW p \in Projector, Project(p)
  PROVE  Upserts(found[p], seen[p])
BY DEF Project, UpsertWorkItem, Upserts, Upserted

LEMMA UpsertsKeeps ==
  ASSUME rows \in [Steps -> Seq(Row)], NEW k \in 0 .. MaxTasks,
         NEW n \in 0 .. Len(rows[StepOf(k)]), Upserts(k, n)
  PROVE  /\ rows' \in [Steps -> Seq(Row)]
         /\ \A s \in Steps \ {StepOf(k)} : rows'[s] = rows[s]
         /\ rows'[StepOf(k)] = Upserted(rows[StepOf(k)], k, n)
<1>1. StepOf(k) \in Steps /\ rows[StepOf(k)] \in Seq(Row)
  BY StepOfTask
<1>2. Len(rows[StepOf(k)]) \in Nat
  BY <1>1, LenProperties
<1>3. Upserted(rows[StepOf(k)], k, n) \in Seq(Row)
  <2>1. CASE n > 0 /\ Renewable(rows[StepOf(k)][n], k)
    <3>1. n \in 1 .. Len(rows[StepOf(k)])
      BY <1>2, <2>1
    <3> QED BY <1>1, <2>1, <3>1, RenewedRows
  <2>2. CASE ~ (n > 0 /\ Renewable(rows[StepOf(k)][n], k))
    BY <1>1, <2>2, AppendedRows
  <2> QED BY <2>1, <2>2
<1> QED
  BY <1>1, <1>3 DEF Upserts

---------------------------------------------------------------------------
\* The inductive invariant.

\* What the rows and the projectors know was in the index.
RowsWereExported ==
  \A s \in Steps : \A i \in 1 .. Len(rows[s]) : 2 * rows[s][i].job - 1 <= exported

FoundWasExported == \A p \in Projector : 2 * found[p] - 1 <= exported

\* A projector reads the last row after it found a task; rows come after it.
ReadsAreOld ==
  \A p \in Projector :
    /\ p \in listed => found[p] = 0
    /\ found[p] = 0 => seen[p] = NotRead
    /\ seen[p] # NotRead => seen[p] <= Len(rows[StepOf(found[p])])

\* An open row that is not the last one was renewed by a projector that had
\* read it before the last one was inserted.  The insertion itself closed all
\* rows, and the projector that made it can be none of these.
Extra(s) == OpenRows(s) \ {Len(rows[s])}
StaleIn(s) == {p \in Projector : Stale(p) /\ StepOf(found[p]) = s}

ExtraRowsWereStale ==
  \A s \in Steps :
    Cardinality(Extra(s)) + Cardinality(StaleIn(s)) <= Cardinality(Projector) - 1

\* A request closes the row of a task the engine has completed.
ClosingIsCompleted == \A q \in Request : doing[q] = "close" => Completed(target[q])

\* Once the terminal job exists the engine has no open task.
JobIsLast == job # "none" => \A k \in Task : ~ Live(k)

InboxInv ==
  /\ TypeOK
  /\ RowsWereExported
  /\ FoundWasExported
  /\ ReadsAreOld
  /\ ExtraRowsWereStale
  /\ ClosingIsCompleted
  /\ JobIsLast

LEMMA Numbers ==
  /\ MaxTasks \in Nat \ {0} /\ MaxFaults \in Nat
  /\ \A k \in Task : k \in Nat /\ k >= 1 /\ k <= MaxTasks
BY BoundsAssumption DEF Task

\* The sets the invariant counts are finite.
LEMMA CountsAreNumbers ==
  ASSUME TypeOK, NEW s \in Steps
  PROVE  /\ IsFiniteSet(OpenRows(s)) /\ IsFiniteSet(Extra(s)) /\ IsFiniteSet(StaleIn(s))
         /\ Cardinality(OpenRows(s)) \in Nat /\ Cardinality(Extra(s)) \in Nat
         /\ Cardinality(StaleIn(s)) \in Nat /\ Cardinality(Projector) \in Nat
<1>1. rows[s] \in Seq(Row)
  BY DEF TypeOK
<1>2. DOMAIN rows[s] = 1 .. Len(rows[s]) /\ Len(rows[s]) \in Int
  BY <1>1, LenProperties
<1>3. IsFiniteSet(DOMAIN rows[s])
  <2>1. IsFiniteSet(1 .. Len(rows[s]))
    BY <1>2, FS_Interval
  <2> QED BY <1>2, <2>1
<1>4. IsFiniteSet(OpenRows(s)) /\ IsFiniteSet(Extra(s))
  BY <1>3, FS_Subset DEF OpenRows, Extra
<1>5. IsFiniteSet(StaleIn(s))
  BY ProjectorAssumption, FS_Subset DEF StaleIn
<1> QED BY <1>4, <1>5, ProjectorAssumption, FS_CardinalityType

LEMMA CountShrinks ==
  ASSUME NEW E, NEW S, IsFiniteSet(E), IsFiniteSet(S), NEW N \in Int,
         Cardinality(E) + Cardinality(S) <= N, NEW F \in SUBSET E, NEW T \in SUBSET S
  PROVE  Cardinality(F) + Cardinality(T) <= N
<1>1. /\ Cardinality(F) <= Cardinality(E) /\ Cardinality(T) <= Cardinality(S)
      /\ IsFiniteSet(F) /\ IsFiniteSet(T)
  BY FS_Subset
<1>2. /\ Cardinality(E) \in Nat /\ Cardinality(S) \in Nat
      /\ Cardinality(F) \in Nat /\ Cardinality(T) \in Nat
  BY <1>1, FS_CardinalityType
<1> QED BY <1>1, <1>2

LEMMA CountMoves ==
  ASSUME NEW E, NEW S, IsFiniteSet(E), IsFiniteSet(S), NEW N \in Int,
         Cardinality(E) + Cardinality(S) <= N, NEW n, NEW p \in S,
         NEW F \in SUBSET (E \cup {n}), NEW T \in SUBSET (S \ {p})
  PROVE  Cardinality(F) + Cardinality(T) <= N
<1>1. IsFiniteSet(E \cup {n}) /\ IsFiniteSet(S \ {p})
  BY FS_AddElement, FS_RemoveElement
<1>2. /\ Cardinality(E) \in Nat /\ Cardinality(S) \in Nat
  BY FS_CardinalityType
<1>3. Cardinality(E \cup {n}) <= Cardinality(E) + 1
  <2>1. Cardinality(E \cup {n}) \in {Cardinality(E), Cardinality(E) + 1}
    BY FS_AddElement
  <2> QED BY <1>2, <2>1
<1>4. Cardinality(S \ {p}) = Cardinality(S) - 1
  BY FS_RemoveElement
<1>5. Cardinality(E \cup {n}) \in Nat /\ Cardinality(S \ {p}) \in Nat
  BY <1>1, FS_CardinalityType
<1>6. Cardinality(E \cup {n}) + Cardinality(S \ {p}) <= N
  BY <1>2, <1>3, <1>4, <1>5
<1> QED BY <1>1, <1>6, CountShrinks

LEMMA RowsInit ==
  ASSUME Init
  PROVE  /\ rows \in [Steps -> Seq(Row)]
         /\ \A s \in Steps : Extra(s) = {}
         /\ \A s \in Steps : \A i \in 1 .. Len(rows[s]) : rows[s][i].job = 0
<1>1. PICK R \in {<<>>, <<Placeholder>>} :
        rows = [s \in Steps |-> IF s = "UT_CheckerReview" THEN R ELSE <<>>]
  BY DEF Init
<1>2. Placeholder \in Row /\ Placeholder.job = 0
  BY Numbers DEF Placeholder, Row
<1>3. \A s \in Steps : rows[s] \in {<<>>, <<Placeholder>>}
  BY <1>1
<1>4. <<>> \in Seq(Row) /\ Len(<<>>) = 0 /\ DOMAIN <<>> = {}
  OBVIOUS
<1>5. /\ <<Placeholder>> \in Seq(Row) /\ Len(<<Placeholder>>) = 1
      /\ <<Placeholder>>[1] = Placeholder /\ DOMAIN <<Placeholder>> = {1}
  BY <1>2
<1>6. rows \in [Steps -> Seq(Row)]
  BY <1>1, <1>4, <1>5
<1>7. ASSUME NEW s \in Steps PROVE Extra(s) = {}
  BY <1>3, <1>4, <1>5 DEF OpenRows, Extra
<1>8. ASSUME NEW s \in Steps, NEW i \in 1 .. Len(rows[s]) PROVE rows[s][i].job = 0
  <2>1. CASE rows[s] = <<>>
    BY <1>4, <1>8, <2>1
  <2>2. CASE rows[s] = <<Placeholder>>
    BY <1>2, <1>5, <1>8, <2>2
  <2> QED BY <1>3, <2>1, <2>2
<1> QED BY <1>6, <1>7, <1>8

LEMMA InboxInit == Init => InboxInv
<1> SUFFICES ASSUME Init PROVE InboxInv
  OBVIOUS
<1>1. events \in 1 .. 2 * MaxTasks /\ exported \in 0 .. events /\ faults \in 0 .. MaxFaults
  <2>1. events = 1 /\ exported = 0 /\ faults = 0
    BY DEF Init
  <2> QED BY <2>1, Numbers
<1>2. /\ job \in {"none", "finish", "complete", "done"} /\ caseOpen \in BOOLEAN
      /\ doing \in [Request -> {"idle", "complete", "close"}]
      /\ final \subseteq Request /\ listed \subseteq Projector
  BY DEF Init
<1>3. /\ target \in [Request -> Task] /\ found \in [Projector -> 0 .. MaxTasks]
      /\ seen \in [Projector -> Nat \cup {NotRead}]
  <2>1. 1 \in Task /\ 0 \in 0 .. MaxTasks
    BY Numbers DEF Task
  <2> QED BY <2>1 DEF Init
<1>4. TypeOK
  BY <1>1, <1>2, <1>3, RowsInit DEF TypeOK
<1>5. RowsWereExported /\ FoundWasExported
  <2>1. exported = 0 /\ \A p \in Projector : found[p] = 0
    BY DEF Init
  <2> QED BY <2>1, RowsInit DEF RowsWereExported, FoundWasExported
<1>6. ClosingIsCompleted /\ JobIsLast
  BY DEF Init, ClosingIsCompleted, JobIsLast
<1>7. \A p \in Projector : found[p] = 0 /\ seen[p] = NotRead /\ p \notin listed
  BY DEF Init
<1>8. ReadsAreOld
  BY <1>7 DEF ReadsAreOld
<1>9. ExtraRowsWereStale
  <2> SUFFICES ASSUME NEW s \in Steps
               PROVE  Cardinality(Extra(s)) + Cardinality(StaleIn(s))
                        <= Cardinality(Projector) - 1
    BY DEF ExtraRowsWereStale
  <2>1. Extra(s) = {} /\ StaleIn(s) = {}
    BY <1>7, RowsInit DEF StaleIn, Stale, HasRead
  <2>2. Cardinality(Projector) \in Nat /\ Cardinality(Projector) # 0
    BY ProjectorAssumption, FS_CardinalityType, FS_EmptySet
  <2>3. Cardinality(Extra(s)) = 0 /\ Cardinality(StaleIn(s)) = 0
    BY <2>1, FS_EmptySet
  <2> QED BY <2>2, <2>3
<1> QED BY <1>4, <1>5, <1>6, <1>8, <1>9 DEF InboxInv

---------------------------------------------------------------------------
\* Every step.

LEMMA RowEffects ==
  ASSUME TypeOK, [Next]_vars
  PROVE  rows' = rows \/ Closes \/ \E p \in Projector : Project(p)
<1> USE DEF engine, requests, projectors
<1>0. rows \in [Steps -> Seq(Row)]
  BY DEF TypeOK
<1>1. ASSUME Reconcile PROVE Closes
  <2>1. PICK k \in Task : \E i \in RowsOf(k) :
          rows' = [rows EXCEPT ![StepOf(k)] = Shut(@, {i})]
    BY <1>1 DEF Reconcile
  <2>2. PICK i \in RowsOf(k) : rows' = [rows EXCEPT ![StepOf(k)] = Shut(@, {i})]
    BY <2>1
  <2>3. {i} \in SUBSET Int
    BY <1>0, RowIndices
  <2> QED BY <1>0, <2>2, <2>3, ShutOneStep, StepOfTask
<1>2. ASSUME NEW q \in Request, CompleteWorkItemByJob(q) PROVE Closes
  <2>1. target[q] \in Task
    BY DEF TypeOK
  <2>2. rows' = [rows EXCEPT ![StepOf(target[q])] = Shut(@, RowsOf(target[q]))]
    BY <1>2 DEF CompleteWorkItemByJob
  <2> QED BY <1>0, <2>1, <2>2, ShutOneStep, StepOfTask, RowIndices
<1>3. ASSUME FinishCase PROVE rows' = rows \/ Closes
  <2>1. CASE caseOpen
    <3> DEFINE J == [s \in Steps |-> DOMAIN rows[s]]
    <3>1. J \in [Steps -> SUBSET Int]
      <4>1. \A s \in Steps : DOMAIN rows[s] = 1 .. Len(rows[s])
        BY <1>0, LenProperties
      <4> QED BY <4>1
    <3>2. rows' = [s \in Steps |-> Shut(rows[s], J[s])]
      BY <1>3, <2>1 DEF FinishCase
    <3> QED BY <3>1, <3>2 DEF Closes
  <2> QED BY <1>3, <2>1 DEF FinishCase
<1>4. ASSUME NEW q \in Request, NEW k \in Task, NEW f \in BOOLEAN, Authorize(q, k, f)
      PROVE  rows' = rows
  BY <1>4 DEF Authorize
<1>5. ASSUME NEW q \in Request,
             Complete(q) \/ CompleteRefused(q) \/ CompleteFails(q) \/ CloseFails(q)
      PROVE  rows' = rows
  BY <1>5 DEF Complete, CompleteRefused, CompleteFails, CloseFails
<1>6. ASSUME NEW p \in Projector,
             ListCases(p) \/ SearchTasks(p) \/ ReadLast(p) \/ ProjectRefused(p) \/ ProjectFails(p)
      PROVE  rows' = rows
  BY <1>6 DEF ListCases, SearchTasks, ReadLast, ProjectRefused, ProjectFails
<1>7. CASE Export \/ CompleteJob \/ FinishFails \/ Rest \/ UNCHANGED vars
  BY <1>7 DEF Export, CompleteJob, FinishFails, Rest, vars
<1> QED
  BY <1>1, <1>2, <1>3, <1>4, <1>5, <1>6, <1>7 DEF Next, JobStep, RequestStep, ProjectorStep

LEMMA ReaderEffects ==
  ASSUME [Next]_vars
  PROVE  \/ UNCHANGED projectors
         \/ \E p \in Projector :
              \/ ListCases(p) \/ SearchTasks(p) \/ ReadLast(p)
              \/ (EndProjection(p) /\ UNCHANGED <<listed, rows>>)
              \/ Project(p)
<1>1. CASE Export \/ Reconcile \/ JobStep \/ FinishFails \/ Rest \/ UNCHANGED vars
  BY <1>1 DEF Export, Reconcile, JobStep, FinishCase, CompleteJob, FinishFails, Rest, vars,
              projectors
<1>2. ASSUME NEW q \in Request,
             \/ RequestStep(q) \/ CompleteFails(q) \/ CloseFails(q)
             \/ \E k \in Task, f \in BOOLEAN : Authorize(q, k, f)
      PROVE  UNCHANGED projectors
  BY <1>2 DEF RequestStep, Complete, CompleteRefused, CompleteWorkItemByJob, CompleteFails,
              CloseFails, Authorize
<1>3. ASSUME NEW p \in Projector, ProjectRefused(p) \/ ProjectFails(p)
      PROVE  EndProjection(p) /\ UNCHANGED <<listed, rows>>
  BY <1>3 DEF ProjectRefused, ProjectFails
<1> QED BY <1>1, <1>2, <1>3 DEF Next, ProjectorStep

\* The part of the state that is not rows.
Control ==
  /\ events' \in 1 .. 2 * MaxTasks
  /\ exported' \in 0 .. events'
  /\ exported <= exported'
  /\ job' \in {"none", "finish", "complete", "done"}
  /\ caseOpen' \in BOOLEAN
  /\ doing' \in [Request -> {"idle", "complete", "close"}]
  /\ target' \in [Request -> Task]
  /\ final' \subseteq Request
  /\ listed' \subseteq Projector
  /\ found' \in [Projector -> 0 .. MaxTasks]
  /\ seen' \in [Projector -> Nat \cup {NotRead}]
  /\ faults' \in 0 .. MaxFaults
  /\ FoundWasExported'
  /\ ClosingIsCompleted'
  /\ JobIsLast'

LEMMA Counters ==
  ASSUME TypeOK
  PROVE  /\ events \in Int /\ exported \in Int
         /\ 1 <= events /\ events <= 2 * MaxTasks /\ 0 <= exported /\ exported <= events
<1>1. events \in 1 .. 2 * MaxTasks /\ exported \in 0 .. events
  BY DEF TypeOK
<1>2. 2 * MaxTasks \in Int
  BY Numbers
<1> QED BY <1>1, <1>2

LEMMA FaultCounts ==
  ASSUME TypeOK, Fault
  PROVE  faults' \in 0 .. MaxFaults
<1>1. faults \in 0 .. MaxFaults
  BY DEF TypeOK
<1> QED BY <1>1, Numbers DEF Fault

LEMMA EngineGoesOn ==
  ASSUME TypeOK, JobIsLast, NEW k \in Task, NEW f, EngineComplete(k, f)
  PROVE  /\ events' \in 1 .. 2 * MaxTasks /\ exported \in 0 .. events'
         /\ job' \in {"none", "finish", "complete", "done"}
         /\ events <= events' /\ events' >= 2 * k
         /\ JobIsLast'
<1>1. events = 2 * k - 1 /\ k \in Int /\ k >= 1 /\ k <= MaxTasks
  BY Numbers DEF EngineComplete, Live
<1>2. CASE f
  <2>1. events' = events + 1 /\ job' = "finish"
    BY <1>2 DEF EngineComplete
  <2>2. events' = 2 * k
    BY <1>1, <2>1
  <2>3. events' \in 1 .. 2 * MaxTasks /\ exported \in 0 .. events' /\ events <= events'
    BY <1>1, <2>1, Counters, Numbers
  <2>4. \A m \in Task : events' # 2 * m - 1
    BY <1>1, <2>2, Numbers
  <2>5. job' \in {"none", "finish", "complete", "done"}
    BY <2>1
  <2>6. events' >= 2 * k
    BY <1>1, <2>2
  <2>7. JobIsLast'
    BY <2>4 DEF JobIsLast, Live
  <2> QED BY <2>3, <2>5, <2>6, <2>7
<1>3. CASE ~ f
  <2>1. k < MaxTasks /\ events' = events + 2 /\ job' = job
    BY <1>3 DEF EngineComplete
  <2>2. events' \in 1 .. 2 * MaxTasks /\ exported \in 0 .. events' /\ events <= events'
    BY <1>1, <2>1, Counters, Numbers
  <2>3. events' >= 2 * k
    BY <1>1, <2>1
  <2>4. job' \in {"none", "finish", "complete", "done"}
    BY <2>1 DEF TypeOK
  <2>5. job = "none"
    BY DEF JobIsLast, EngineComplete
  <2>6. JobIsLast'
    BY <2>1, <2>5 DEF JobIsLast
  <2> QED BY <2>2, <2>3, <2>4, <2>6
<1> QED BY <1>2, <1>3

LEMMA CompletedStays ==
  ASSUME events \in Int, events' \in Int, events <= events', NEW k \in Task, Completed(k)
  PROVE  Completed(k)'
<1>1. 2 * k \in Int
  BY Numbers
<1> QED BY <1>1 DEF Completed

\* A step of the engine, made by request q for its task.
EngineStep(q) == EngineComplete(target[q], q \in final) \/ UNCHANGED <<events, job>>

LEMMA ControlRequest ==
  ASSUME InboxInv, NEW q \in Request, EngineStep(q),
         UNCHANGED <<exported, caseOpen, target, final, listed, found, seen>>,
         NEW label \in {"idle", "complete", "close"}, doing' = [doing EXCEPT ![q] = label],
         label = "close" => EngineComplete(target[q], q \in final),
         faults' = faults \/ Fault
  PROVE  Control
<1>1. TypeOK /\ target[q] \in Task /\ JobIsLast
  BY DEF InboxInv, TypeOK
<1>2. /\ events' \in 1 .. 2 * MaxTasks /\ exported \in 0 .. events' /\ events <= events'
      /\ job' \in {"none", "finish", "complete", "done"} /\ JobIsLast'
  <2>1. CASE EngineComplete(target[q], q \in final)
    BY <1>1, <2>1, EngineGoesOn
  <2>2. CASE UNCHANGED <<events, job>>
    BY <1>1, <2>2, Counters DEF TypeOK, JobIsLast, Live
  <2> QED BY <2>1, <2>2 DEF EngineStep
<1>3. faults' \in 0 .. MaxFaults
  BY <1>1, FaultCounts DEF TypeOK
<1>4. exported <= exported' /\ FoundWasExported'
  BY <1>1, Counters DEF InboxInv, FoundWasExported
<1>5. ClosingIsCompleted'
  <2> SUFFICES ASSUME NEW r \in Request, doing'[r] = "close" PROVE Completed(target[r])'
    BY DEF ClosingIsCompleted
  <2>0. target[r] \in Task /\ target' = target
    BY <1>1 DEF TypeOK
  <2>1. CASE r = q
    <3>1. label = "close"
      BY <1>1, <2>1 DEF TypeOK
    <3>2. events' >= 2 * target[q]
      BY <1>1, <3>1, EngineGoesOn
    <3> QED BY <2>0, <2>1, <3>2 DEF Completed
  <2>2. CASE r # q
    <3>1. Completed(target[r])
      BY <1>1, <2>2 DEF InboxInv, ClosingIsCompleted, TypeOK
    <3>2. events \in Int /\ events' \in Int
      <4>1. events' \in 1 .. 2 * MaxTasks
        BY <1>2
      <4> QED BY <1>1, <4>1, Counters, Numbers
    <3> QED BY <1>2, <2>0, <3>1, <3>2, CompletedStays DEF Completed
  <2> QED BY <2>1, <2>2
<1>6. doing' \in [Request -> {"idle", "complete", "close"}]
  BY <1>1 DEF TypeOK
<1> QED
  BY <1>1, <1>2, <1>3, <1>4, <1>5, <1>6 DEF Control, TypeOK

\* The engine and the requests rest.
LEMMA ControlOther ==
  ASSUME InboxInv, events' = events, exported' \in 0 .. events, exported <= exported',
         UNCHANGED <<doing, target, final>>,
         job' \in {"none", "finish", "complete", "done"}, job' # "none" => job # "none",
         caseOpen' \in BOOLEAN, listed' \subseteq Projector,
         found' \in [Projector -> 0 .. MaxTasks], FoundWasExported',
         seen' \in [Projector -> Nat \cup {NotRead}],
         faults' = faults \/ Fault
  PROVE  Control
<1>1. TypeOK
  BY DEF InboxInv
<1>2. faults' \in 0 .. MaxFaults
  BY <1>1, FaultCounts DEF TypeOK
<1>3. ClosingIsCompleted'
  BY DEF InboxInv, ClosingIsCompleted, Completed
<1>4. JobIsLast'
  BY DEF InboxInv, JobIsLast, Live
<1> QED
  BY <1>1, <1>2, <1>3, <1>4 DEF Control, TypeOK

LEMMA ControlProjector ==
  ASSUME InboxInv, NEW p \in Projector, ProjectorStep(p) \/ ProjectFails(p)
  PROVE  Control
<1> USE DEF engine, requests
<1>0. /\ exported \in 0 .. events /\ exported <= exported /\ TypeOK
      /\ job \in {"none", "finish", "complete", "done"} /\ caseOpen \in BOOLEAN
      /\ listed \subseteq Projector /\ found \in [Projector -> 0 .. MaxTasks]
      /\ seen \in [Projector -> Nat \cup {NotRead}]
      /\ FoundWasExported
  BY Counters DEF InboxInv, TypeOK
<1>1. ASSUME NEW n \in 0 .. MaxTasks, 2 * n - 1 <= exported, found' = [found EXCEPT ![p] = n],
             exported' = exported
      PROVE  found' \in [Projector -> 0 .. MaxTasks] /\ FoundWasExported'
  BY <1>0, <1>1 DEF FoundWasExported
<1>2. 0 \in 0 .. MaxTasks /\ 2 * 0 - 1 <= exported
  BY <1>0, Counters, Numbers
<1>3. CASE ListCases(p)
  <2>1. FoundWasExported'
    BY <1>0, <1>3 DEF ListCases, FoundWasExported
  <2>2. listed' \subseteq Projector
    BY <1>0, <1>3 DEF ListCases
  <2> QED BY <1>0, <1>3, <2>1, <2>2, ControlOther DEF ListCases
<1>4. CASE SearchTasks(p)
  <2>1. found' \in [Projector -> 0 .. MaxTasks] /\ FoundWasExported'
    <3>1. CASE found' = found
      BY <1>0, <1>4, <3>1 DEF SearchTasks, FoundWasExported
    <3>2. ASSUME NEW k \in Task, IndexState(k) = "CREATED", found' = [found EXCEPT ![p] = k]
          PROVE  found' \in [Projector -> 0 .. MaxTasks] /\ FoundWasExported'
      <4>1. exported = 2 * k - 1
        BY <3>2 DEF IndexState
      <4>2. k \in 0 .. MaxTasks /\ 2 * k - 1 <= exported
        BY <4>1, Numbers
      <4>3. exported' = exported
        BY <1>4 DEF SearchTasks
      <4> QED BY <1>1, <3>2, <4>2, <4>3
    <3> QED BY <1>4, <3>1, <3>2 DEF SearchTasks
  <2>2. listed' \subseteq Projector
    BY <1>0, <1>4 DEF SearchTasks
  <2> QED BY <1>0, <1>4, <2>1, <2>2, ControlOther DEF SearchTasks
<1>5. CASE ReadLast(p)
  <2>1. FoundWasExported'
    BY <1>0, <1>5 DEF ReadLast, FoundWasExported
  <2>2. Len(rows[StepOf(found[p])]) \in Nat
    BY <1>0, StepOfTask, LenProperties DEF TypeOK
  <2>3. seen' \in [Projector -> Nat \cup {NotRead}]
    BY <1>0, <1>5, <2>2 DEF ReadLast
  <2> QED BY <1>0, <1>5, <2>1, <2>3, ControlOther DEF ReadLast
<1>6. CASE Project(p) \/ ProjectRefused(p) \/ ProjectFails(p)
  <2>1. /\ found' = [found EXCEPT ![p] = 0] /\ exported' = exported
        /\ seen' = [seen EXCEPT ![p] = NotRead]
    BY <1>6 DEF Project, ProjectRefused, ProjectFails, EndProjection
  <2>2. found' \in [Projector -> 0 .. MaxTasks] /\ FoundWasExported'
    BY <1>1, <1>2, <2>1
  <2>3. seen' \in [Projector -> Nat \cup {NotRead}]
    BY <1>0, <2>1
  <2> QED
    BY <1>0, <1>6, <2>2, <2>3, ControlOther DEF Project, ProjectRefused, ProjectFails
<1> QED BY <1>3, <1>4, <1>5, <1>6 DEF ProjectorStep

LEMMA ControlNext ==
  ASSUME InboxInv, [Next]_vars
  PROVE  Control
<1> USE DEF engine, requests, projectors
<1>0. /\ exported \in 0 .. events /\ exported <= exported /\ TypeOK /\ FoundWasExported
      /\ job \in {"none", "finish", "complete", "done"} /\ caseOpen \in BOOLEAN
      /\ listed \subseteq Projector /\ found \in [Projector -> 0 .. MaxTasks]
      /\ seen \in [Projector -> Nat \cup {NotRead}]
  BY Counters DEF InboxInv, TypeOK
<1>1. CASE Export
  <2>1. exported' \in 0 .. events /\ exported <= exported'
    BY <1>0, <1>1, Counters DEF Export
  <2>2. found' = found
    BY <1>1 DEF Export
  <2>3. \A p \in Projector : found[p] \in Int
    BY <1>0, Numbers
  <2>4. exported \in Int /\ exported' \in Int
    BY <1>0, <1>1, Counters DEF Export
  <2>5. FoundWasExported'
    BY <1>0, <2>1, <2>2, <2>3, <2>4 DEF FoundWasExported
  <2> QED BY <1>0, <1>1, <2>1, <2>5, ControlOther DEF Export
<1>2. CASE Reconcile \/ JobStep \/ FinishFails \/ Rest \/ UNCHANGED vars
  <2>1. UNCHANGED <<events, exported, doing, target, final, listed, found, seen>>
    BY <1>2 DEF Reconcile, JobStep, FinishCase, CompleteJob, FinishFails, Rest, vars
  <2>2. /\ job' \in {"none", "finish", "complete", "done"} /\ (job' # "none" => job # "none")
        /\ caseOpen' \in BOOLEAN /\ (faults' = faults \/ Fault)
    BY <1>0, <1>2 DEF Reconcile, JobStep, FinishCase, CompleteJob, FinishFails, Rest, vars
  <2>3. FoundWasExported'
    BY <1>0, <2>1 DEF FoundWasExported
  <2> QED BY <1>0, <2>1, <2>2, <2>3, ControlOther
<1>3. ASSUME NEW q \in Request, NEW k \in Task, NEW f \in BOOLEAN, Authorize(q, k, f)
      PROVE  Control
  <2>1. /\ UNCHANGED <<events, job, exported, caseOpen, listed, found, seen, faults>>
        /\ doing' = [doing EXCEPT ![q] = "complete"] /\ target' = [target EXCEPT ![q] = k]
        /\ final' \subseteq Request
    BY <1>0, <1>3 DEF Authorize, TypeOK
  <2>2. ClosingIsCompleted'
    <3> SUFFICES ASSUME NEW r \in Request, doing'[r] = "close" PROVE Completed(target[r])'
      BY DEF ClosingIsCompleted
    <3>1. doing[r] = "close" /\ target'[r] = target[r]
      BY <1>0, <2>1 DEF TypeOK
    <3> QED BY <2>1, <3>1 DEF InboxInv, ClosingIsCompleted, Completed
  <2>3. FoundWasExported' /\ JobIsLast'
    BY <2>1 DEF InboxInv, FoundWasExported, JobIsLast, Live
  <2>4. target' \in [Request -> Task] /\ doing' \in [Request -> {"idle", "complete", "close"}]
    BY <1>0, <2>1 DEF TypeOK
  <2> QED BY <1>0, <2>1, <2>2, <2>3, <2>4 DEF Control, TypeOK
<1>4. ASSUME NEW q \in Request,
             RequestStep(q) \/ CompleteFails(q) \/ CloseFails(q)
      PROVE  Control
  <2>1. CASE Complete(q)
    BY <2>1, ControlRequest DEF Complete, EngineStep
  <2>2. CASE CompleteRefused(q)
    BY <2>2, ControlRequest DEF CompleteRefused, EngineStep
  <2>3. CASE CompleteWorkItemByJob(q)
    BY <2>3, ControlRequest DEF CompleteWorkItemByJob, EngineStep
  <2>4. CASE CompleteFails(q)
    BY <2>4, ControlRequest DEF CompleteFails, EngineStep
  <2>5. CASE CloseFails(q)
    BY <2>5, ControlRequest DEF CloseFails, EngineStep
  <2> QED BY <1>4, <2>1, <2>2, <2>3, <2>4, <2>5 DEF RequestStep
<1> QED
  BY <1>1, <1>2, <1>3, <1>4, ControlProjector DEF Next

\* The rows' part of the invariant.
RowsPart ==
  /\ rows' \in [Steps -> Seq(Row)]
  /\ RowsWereExported'
  /\ ReadsAreOld'
  /\ ExtraRowsWereStale'

LEMMA JobsAreNumbers ==
  ASSUME TypeOK, NEW s \in Steps, NEW i \in 1 .. Len(rows[s])
  PROVE  2 * rows[s][i].job - 1 \in Int
<1>1. rows[s] \in Seq(Row)
  BY DEF TypeOK
<1>2. rows[s][i] \in Row
  BY <1>1, ElementOfSeq
<1> QED BY <1>2, Numbers DEF Row

LEMMA ExportedEarlier ==
  ASSUME InboxInv, Control, NEW s \in Steps, NEW i \in 1 .. Len(rows[s])
  PROVE  2 * rows[s][i].job - 1 <= exported'
<1>1. 2 * rows[s][i].job - 1 <= exported /\ exported <= exported'
  BY DEF InboxInv, RowsWereExported, Control
<1>2. 2 * rows[s][i].job - 1 \in Int
  BY JobsAreNumbers DEF InboxInv
<1>3. exported \in Int
  BY Counters DEF InboxInv
<1>4. exported' \in Int
  <2>1. events' \in 1 .. 2 * MaxTasks /\ exported' \in 0 .. events'
    BY DEF Control
  <2> QED BY <2>1, Numbers
<1> QED BY <1>1, <1>2, <1>3, <1>4

\* A projector becomes stale only when another one inserts a row.
LEMMA ReadersStay ==
  ASSUME InboxInv, [Next]_vars, \A p \in Projector : ~ Project(p),
         \A s \in Steps : Len(rows'[s]) = Len(rows[s])
  PROVE  /\ ReadsAreOld'
         /\ \A q \in Projector : Stale(q)' => Stale(q) /\ found'[q] = found[q]
<1>0. TypeOK /\ ReadsAreOld
  BY DEF InboxInv
<1>1. /\ listed \subseteq Projector /\ found \in [Projector -> 0 .. MaxTasks]
      /\ seen \in [Projector -> Nat \cup {NotRead}] /\ rows \in [Steps -> Seq(Row)]
  BY <1>0 DEF TypeOK
<1>2. \A k : Len(rows'[StepOf(k)]) = Len(rows[StepOf(k)])
  BY StepOfTask
<1>3. \A k : Len(rows[StepOf(k)]) \in Nat
  BY <1>1, StepOfTask, LenProperties
<1> SUFFICES ASSUME NEW q \in Projector
             PROVE  /\ q \in listed' => found'[q] = 0
                    /\ found'[q] = 0 => seen'[q] = NotRead
                    /\ seen'[q] # NotRead => seen'[q] <= Len(rows'[StepOf(found'[q])])
                    /\ Stale(q)' => Stale(q) /\ found'[q] = found[q]
  BY DEF ReadsAreOld
<1>4. /\ q \in listed => found[q] = 0
      /\ found[q] = 0 => seen[q] = NotRead
      /\ seen[q] # NotRead => seen[q] <= Len(rows[StepOf(found[q])])
  BY <1>0 DEF ReadsAreOld
<1>5. CASE found'[q] = found[q] /\ seen'[q] = seen[q] /\ (q \in listed' => found[q] = 0)
  BY <1>2, <1>4, <1>5 DEF Stale, HasRead
<1>6. CASE seen'[q] = NotRead /\ (q \in listed' => found'[q] = 0)
  BY <1>6 DEF Stale, HasRead
<1>7. CASE UNCHANGED projectors
  BY <1>4, <1>5, <1>7 DEF projectors
<1>8. ASSUME NEW p \in Projector, ListCases(p)
      PROVE  found'[q] = found[q] /\ seen'[q] = seen[q] /\ (q \in listed' => found[q] = 0)
  BY <1>4, <1>8 DEF ListCases
<1>9. ASSUME NEW p \in Projector, SearchTasks(p), p # q
      PROVE  found'[q] = found[q] /\ seen'[q] = seen[q] /\ (q \in listed' => found[q] = 0)
  BY <1>1, <1>4, <1>9 DEF SearchTasks
<1>10. ASSUME SearchTasks(q)
       PROVE  seen'[q] = NotRead /\ (q \in listed' => found'[q] = 0)
  BY <1>4, <1>10 DEF SearchTasks
<1>11. ASSUME NEW p \in Projector, ReadLast(p), p # q
       PROVE  found'[q] = found[q] /\ seen'[q] = seen[q] /\ (q \in listed' => found[q] = 0)
  BY <1>1, <1>4, <1>11 DEF ReadLast
<1>12. CASE ReadLast(q)
  <2>1. /\ found'[q] = found[q] /\ found[q] # 0 /\ q \notin listed'
        /\ seen'[q] = Len(rows'[StepOf(found'[q])])
    BY <1>1, <1>2, <1>4, <1>12 DEF ReadLast
  <2>2. seen'[q] \in Nat
    BY <1>1, <1>3, <1>12 DEF ReadLast
  <2>3. ~ Stale(q)'
    BY <2>1, <2>2 DEF Stale
  <2> QED BY <2>1, <2>2, <2>3
<1>13. ASSUME NEW p \in Projector, EndProjection(p), UNCHANGED listed, p # q
       PROVE  found'[q] = found[q] /\ seen'[q] = seen[q] /\ (q \in listed' => found[q] = 0)
  BY <1>1, <1>4, <1>13 DEF EndProjection
<1>14. ASSUME EndProjection(q)
       PROVE  seen'[q] = NotRead /\ (q \in listed' => found'[q] = 0)
  BY <1>1, <1>14 DEF EndProjection
<1>15. \/ UNCHANGED projectors
       \/ \E p \in Projector :
            \/ ListCases(p) \/ SearchTasks(p) \/ ReadLast(p)
            \/ (EndProjection(p) /\ UNCHANGED <<listed, rows>>)
  BY ReaderEffects
<1> QED
  BY <1>5, <1>6, <1>7, <1>8, <1>9, <1>10, <1>11, <1>12, <1>13, <1>14, <1>15

\* Steps that insert and open no row.
LEMMA RowsKept ==
  ASSUME InboxInv, Control, [Next]_vars, \A p \in Projector : ~ Project(p)
  PROVE  RowsPart
<1>0. rows \in [Steps -> Seq(Row)] /\ TypeOK
  BY DEF InboxInv, TypeOK
<1>1. /\ rows' \in [Steps -> Seq(Row)]
      /\ \A s \in Steps :
           /\ Len(rows'[s]) = Len(rows[s])
           /\ \A i \in 1 .. Len(rows[s]) :
                rows'[s][i].job = rows[s][i].job /\ (rows'[s][i].open => rows[s][i].open)
  <2>1. CASE rows' = rows
    BY <1>0, <2>1
  <2>2. CASE Closes
    BY <1>0, <2>2, ClosesKeeps
  <2> QED BY <1>0, <2>1, <2>2, RowEffects
<1>2. \A s \in Steps : DOMAIN rows[s] = 1 .. Len(rows[s]) /\ DOMAIN rows'[s] = 1 .. Len(rows'[s])
  BY <1>0, <1>1, LenProperties
<1>3. /\ ReadsAreOld'
      /\ \A q \in Projector : Stale(q)' => Stale(q) /\ found'[q] = found[q]
  BY <1>1, ReadersStay
<1>4. ASSUME NEW s \in Steps
      PROVE  Cardinality(Extra(s)') + Cardinality(StaleIn(s)') <= Cardinality(Projector) - 1
  <2>1. Extra(s)' \in SUBSET Extra(s)
    BY <1>1, <1>2 DEF OpenRows, Extra
  <2>2. StaleIn(s)' \in SUBSET StaleIn(s)
    BY <1>3 DEF StaleIn
  <2>3. /\ IsFiniteSet(Extra(s)) /\ IsFiniteSet(StaleIn(s))
        /\ Cardinality(Projector) - 1 \in Int
    BY <1>0, CountsAreNumbers
  <2>4. Cardinality(Extra(s)) + Cardinality(StaleIn(s)) <= Cardinality(Projector) - 1
    BY DEF InboxInv, ExtraRowsWereStale
  <2> QED BY <2>1, <2>2, <2>3, <2>4, CountShrinks
<1>5. ASSUME NEW s \in Steps, NEW i \in 1 .. Len(rows'[s])
      PROVE  2 * rows'[s][i].job - 1 <= exported'
  <2>1. i \in 1 .. Len(rows[s]) /\ rows'[s][i].job = rows[s][i].job
    BY <1>1
  <2> QED BY <2>1, ExportedEarlier
<1> QED
  BY <1>1, <1>3, <1>4, <1>5 DEF RowsPart, RowsWereExported, ExtraRowsWereStale

\* Where a projector writes.
LEMMA Projected ==
  ASSUME InboxInv, NEW p \in Projector, Project(p)
  PROVE  /\ found[p] \in 1 .. MaxTasks /\ StepOf(found[p]) \in Steps
         /\ rows[StepOf(found[p])] \in Seq(Row) /\ rows' \in [Steps -> Seq(Row)]
         /\ seen[p] \in 0 .. Len(rows[StepOf(found[p])])
         /\ \A s \in Steps \ {StepOf(found[p])} : rows'[s] = rows[s]
         /\ rows'[StepOf(found[p])]
              = Upserted(rows[StepOf(found[p])], found[p], seen[p])
         /\ \A q \in Projector \ {p} : found'[q] = found[q] /\ seen'[q] = seen[q]
         /\ listed' = listed /\ found'[p] = 0 /\ seen'[p] = NotRead
<1>1. /\ found \in [Projector -> 0 .. MaxTasks] /\ rows \in [Steps -> Seq(Row)]
      /\ seen \in [Projector -> Nat \cup {NotRead}]
  BY DEF InboxInv, TypeOK
<1>2. found[p] # 0 /\ seen[p] # NotRead
  BY DEF Project, HasRead
<1>3. found[p] \in 1 .. MaxTasks
  BY <1>1, <1>2, Numbers
<1>4. StepOf(found[p]) \in Steps /\ rows[StepOf(found[p])] \in Seq(Row)
  BY <1>1, StepOfTask
<1>5. seen[p] \in 0 .. Len(rows[StepOf(found[p])])
  <2>1. seen[p] \in Nat /\ Len(rows[StepOf(found[p])]) \in Nat
    BY <1>1, <1>2, <1>4, LenProperties
  <2>2. seen[p] <= Len(rows[StepOf(found[p])])
    BY <1>2 DEF InboxInv, ReadsAreOld
  <2> QED BY <2>1, <2>2
<1>6. found[p] \in 0 .. MaxTasks
  BY <1>1
<1>7. /\ rows' \in [Steps -> Seq(Row)]
      /\ \A s \in Steps \ {StepOf(found[p])} : rows'[s] = rows[s]
      /\ rows'[StepOf(found[p])]
           = Upserted(rows[StepOf(found[p])], found[p], seen[p])
  BY <1>1, <1>5, <1>6, ProjectUpserts, UpsertsKeeps
<1>8. /\ \A q \in Projector \ {p} : found'[q] = found[q] /\ seen'[q] = seen[q]
      /\ listed' = listed /\ found'[p] = 0 /\ seen'[p] = NotRead
  BY <1>1 DEF Project, EndProjection
<1> QED BY <1>3, <1>4, <1>5, <1>7, <1>8

LEMMA RowsProjected ==
  ASSUME InboxInv, Control, NEW p \in Projector, Project(p)
  PROVE  RowsPart
<1> DEFINE N == Cardinality(Projector) - 1
<1>0. PICK k, n, t, R :
        /\ k = found[p] /\ n = seen[p] /\ t = StepOf(k) /\ R = rows[t]
        /\ TypeOK /\ rows \in [Steps -> Seq(Row)]
  BY DEF InboxInv, TypeOK
<1>1. /\ k \in 0 .. MaxTasks /\ t \in Steps /\ R \in Seq(Row) /\ n \in 0 .. Len(R)
      /\ rows' \in [Steps -> Seq(Row)] /\ \A s \in Steps \ {t} : rows'[s] = rows[s]
      /\ \A q \in Projector \ {p} : found'[q] = found[q] /\ seen'[q] = seen[q]
      /\ listed' = listed /\ found'[p] = 0 /\ seen'[p] = NotRead
      /\ rows'[t] = Upserted(R, k, n)
  BY <1>0, Projected, Numbers
<1>2. PICK U : U = rows'[t] /\ U = Upserted(R, k, n) /\ U \in Seq(Row)
  BY <1>1
<1>3. PICK Open, Stales :
        /\ Open = OpenRows(t)' /\ Stales = StaleIn(t)'
        /\ Open = {i \in 1 .. Len(U) : U[i].open}
        /\ Stales \in SUBSET (Projector \ {p})
  <2>1. DOMAIN rows'[t] = 1 .. Len(U)
    BY <1>2, LenProperties
  <2>2. OpenRows(t)' = {i \in 1 .. Len(U) : U[i].open}
    BY <1>2, <2>1 DEF OpenRows
  <2>3. StaleIn(t)' \in SUBSET (Projector \ {p})
    BY <1>1 DEF StaleIn, Stale, HasRead
  <2> QED BY <2>2, <2>3
<1>4. /\ Extra(t)' = Open \ {Len(U)}
      /\ OpenRows(t) = {i \in 1 .. Len(R) : R[i].open} /\ Extra(t) = OpenRows(t) \ {Len(R)}
      /\ Len(R) \in Nat /\ N \in Int /\ IsFiniteSet(Extra(t)) /\ IsFiniteSet(StaleIn(t))
      /\ Cardinality(Extra(t)) + Cardinality(StaleIn(t)) <= N
  <2>1. DOMAIN R = 1 .. Len(R) /\ Len(R) \in Nat
    BY <1>1, LenProperties
  <2>2. Extra(t)' = Open \ {Len(U)}
    BY <1>2, <1>3 DEF Extra
  <2>3. Cardinality(Extra(t)) + Cardinality(StaleIn(t)) <= N
    BY <1>1 DEF InboxInv, ExtraRowsWereStale
  <2>4. OpenRows(t) = {i \in 1 .. Len(R) : R[i].open} /\ Extra(t) = OpenRows(t) \ {Len(R)}
    BY <1>0, <2>1 DEF OpenRows, Extra
  <2>5. /\ IsFiniteSet(Extra(t)) /\ IsFiniteSet(StaleIn(t))
        /\ Cardinality(Projector) \in Nat
    BY <1>0, <1>1, CountsAreNumbers
  <2> QED BY <2>1, <2>2, <2>3, <2>4, <2>5
<1> HIDE DEF N
<1>5. 2 * k - 1 <= exported'
  <2>1. 2 * k - 1 <= exported /\ exported <= exported'
    BY <1>0 DEF InboxInv, FoundWasExported, Control
  <2>2. exported \in Int /\ 2 * k - 1 \in Int
    BY <1>1, Counters, Numbers DEF InboxInv
  <2>3. exported' \in Int
    <3>1. events' \in 1 .. 2 * MaxTasks /\ exported' \in 0 .. events'
      BY DEF Control
    <3> QED BY <3>1, Numbers
  <2> QED BY <2>1, <2>2, <2>3
<1>6. (n > 0 /\ Renewable(R[n], k)) \/ Len(R) <= n
  BY <1>0, <1>1, <1>4 DEF Project, Renews, Stale
<1>7. /\ Len(R) <= Len(U)
      /\ \A i \in 1 .. Len(U) : U[i].job = k \/ (i \in 1 .. Len(R) /\ U[i].job = R[i].job)
      /\ Len(U) = Len(R) => \A q \in Projector : Stale(q)' => Stale(q) /\ found'[q] = found[q]
      /\ Cardinality(Open \ {Len(U)}) + Cardinality(Stales) <= N
  <2>1. CASE n > 0 /\ Renewable(R[n], k)
    <3>1. n \in 1 .. Len(R)
      BY <1>1, <1>4, <2>1
    <3>2. /\ Len(U) = Len(R) /\ U[n] = [job |-> k, open |-> TRUE]
          /\ \A i \in 1 .. Len(R) : i # n => U[i] = R[i]
      BY <1>1, <1>2, <2>1, <3>1, RenewedRows
    <3>3. \A q \in Projector : Stale(q)' => q # p /\ Stale(q) /\ found'[q] = found[q]
      <4> SUFFICES ASSUME NEW q \in Projector, Stale(q)'
                   PROVE  q # p /\ Stale(q) /\ found'[q] = found[q]
        OBVIOUS
      <4>1. q # p
        BY <1>1 DEF Stale, HasRead
      <4>2. found'[q] = found[q] /\ seen'[q] = seen[q]
        BY <1>1, <4>1
      <4>3. Len(rows'[StepOf(found[q])]) = Len(rows[StepOf(found[q])])
        BY <1>0, <1>1, <1>2, <3>2, StepOfTask
      <4> QED BY <4>1, <4>2, <4>3 DEF Stale, HasRead
    <3>4. Stales \in SUBSET (StaleIn(t) \ {p})
      BY <1>3, <3>3 DEF StaleIn
    <3>5. Open \ {Len(U)} \in SUBSET (Extra(t) \cup {n})
      BY <1>3, <1>4, <3>2
    <3>6. Cardinality(Open \ {Len(U)}) + Cardinality(Stales) <= N
      <4>1. CASE p \in StaleIn(t)
        <5>1. /\ IsFiniteSet(Extra(t)) /\ IsFiniteSet(StaleIn(t)) /\ N \in Int
              /\ Cardinality(Extra(t)) + Cardinality(StaleIn(t)) <= N
          BY <1>4
        <5>2. \A F \in SUBSET (Extra(t) \cup {n}), T \in SUBSET (StaleIn(t) \ {p}) :
                Cardinality(F) + Cardinality(T) <= N
          BY <4>1, <5>1, CountMoves
        <5> QED BY <3>4, <3>5, <5>2
      <4>2. CASE p \notin StaleIn(t)
        <5>1. n = Len(R)
          BY <1>0, <1>1, <1>4, <4>2 DEF StaleIn, Stale, Project
        <5>2. Open \ {Len(U)} \in SUBSET Extra(t)
          BY <1>4, <3>2, <3>5, <5>1
        <5>3. Stales \in SUBSET StaleIn(t)
          BY <3>4
        <5> QED BY <1>4, <5>2, <5>3, CountShrinks
      <4> QED BY <4>1, <4>2
    <3>7. \A i \in 1 .. Len(U) : U[i].job = k \/ (i \in 1 .. Len(R) /\ U[i].job = R[i].job)
      <4>1. U[n].job = k
        BY <3>2
      <4> QED BY <3>2, <4>1
    <3> QED BY <1>4, <3>2, <3>3, <3>6, <3>7
  <2>2. CASE ~ (n > 0 /\ Renewable(R[n], k))
    <3>1. /\ Len(U) = Len(R) + 1 /\ U[Len(R) + 1] = [job |-> k, open |-> TRUE]
          /\ \A i \in 1 .. Len(R) : U[i].job = R[i].job /\ ~ U[i].open
      BY <1>1, <1>2, <2>2, AppendedRows
    <3>2. \A i \in 1 .. Len(U) : i = Len(U) \/ i \in 1 .. Len(R)
      BY <1>4, <3>1
    <3>3. Open \ {Len(U)} = {}
      BY <1>3, <3>1, <3>2
    <3>4. Cardinality(Stales) <= N /\ Cardinality(Stales) \in Nat
      <4>1. /\ IsFiniteSet(Projector \ {p}) /\ Cardinality(Projector \ {p}) = N
        BY ProjectorAssumption, FS_RemoveElement DEF N
      <4> QED BY <1>3, <4>1, FS_Subset, FS_CardinalityType
    <3>5. Cardinality(Open \ {Len(U)}) + Cardinality(Stales) <= N
      <4>1. Cardinality(Open \ {Len(U)}) = 0
        BY <3>3, FS_EmptySet
      <4> QED BY <1>4, <3>4, <4>1
    <3>6. \A i \in 1 .. Len(U) : U[i].job = k \/ (i \in 1 .. Len(R) /\ U[i].job = R[i].job)
      <4>1. U[Len(U)].job = k
        BY <3>1
      <4> QED BY <3>1, <3>2, <4>1
    <3> QED BY <1>4, <3>1, <3>5, <3>6
  <2> QED BY <2>1, <2>2
<1>8. ReadsAreOld'
  <2> SUFFICES ASSUME NEW q \in Projector
               PROVE  /\ q \in listed' => found'[q] = 0
                      /\ found'[q] = 0 => seen'[q] = NotRead
                      /\ seen'[q] # NotRead => seen'[q] <= Len(rows'[StepOf(found'[q])])
    BY DEF ReadsAreOld
  <2>1. CASE q = p
    BY <1>1, <2>1
  <2>2. CASE q # p
    <3>1. /\ q \in listed => found[q] = 0
          /\ found[q] = 0 => seen[q] = NotRead
          /\ seen[q] # NotRead => seen[q] <= Len(rows[StepOf(found[q])])
      BY DEF InboxInv, ReadsAreOld
    <3>2. found'[q] = found[q] /\ seen'[q] = seen[q] /\ listed' = listed
      BY <1>1, <2>2
    <3>3. Len(rows[StepOf(found[q])]) <= Len(rows'[StepOf(found[q])])
      <4>1. CASE StepOf(found[q]) = t
        BY <1>0, <1>2, <1>7, <4>1
      <4>2. CASE StepOf(found[q]) # t
        <5>1. rows'[StepOf(found[q])] = rows[StepOf(found[q])]
          BY <1>1, <4>2, StepOfTask
        <5>2. Len(rows[StepOf(found[q])]) \in Nat
          BY <1>0, StepOfTask, LenProperties
        <5> QED BY <5>1, <5>2
      <4> QED BY <4>1, <4>2
    <3>4. /\ Len(rows[StepOf(found[q])]) \in Nat /\ Len(rows'[StepOf(found[q])]) \in Nat
          /\ seen[q] \in Nat \cup {NotRead}
      BY <1>0, <1>1, StepOfTask, LenProperties DEF TypeOK
    <3> QED BY <3>1, <3>2, <3>3, <3>4
  <2> QED BY <2>1, <2>2
<1>9. ASSUME NEW s \in Steps
      PROVE  Cardinality(Extra(s)') + Cardinality(StaleIn(s)') <= N
  <2>1. CASE s = t
    BY <1>3, <1>4, <1>7, <2>1
  <2>2. CASE s # t
    <3>1. rows'[s] = rows[s]
      BY <1>1, <2>2
    <3>2. Extra(s)' \in SUBSET Extra(s)
      BY <3>1 DEF OpenRows, Extra
    <3>3. StaleIn(s)' \in SUBSET StaleIn(s)
      <4> SUFFICES ASSUME NEW q \in StaleIn(s)' PROVE q \in StaleIn(s)
        OBVIOUS
      <4>1. q \in Projector /\ Stale(q)' /\ StepOf(found'[q]) = s
        BY DEF StaleIn
      <4>2. q # p
        BY <1>1, <4>1 DEF Stale, HasRead
      <4>3. found'[q] = found[q] /\ seen'[q] = seen[q]
        BY <1>1, <4>1, <4>2
      <4> QED BY <3>1, <4>1, <4>3 DEF StaleIn, Stale, HasRead
    <3>4. /\ IsFiniteSet(Extra(s)) /\ IsFiniteSet(StaleIn(s))
          /\ Cardinality(Extra(s)) + Cardinality(StaleIn(s)) <= N
      BY <1>0, CountsAreNumbers DEF InboxInv, ExtraRowsWereStale, N
    <3> QED BY <1>4, <3>2, <3>3, <3>4, CountShrinks
  <2> QED BY <2>1, <2>2
<1>10. ASSUME NEW s \in Steps, NEW i \in 1 .. Len(rows'[s])
       PROVE  2 * rows'[s][i].job - 1 <= exported'
  <2>1. CASE s = t /\ U[i].job = k
    BY <1>2, <1>5, <2>1
  <2>2. CASE s = t /\ U[i].job # k
    <3>1. i \in 1 .. Len(rows[s]) /\ rows'[s][i].job = rows[s][i].job
      BY <1>0, <1>2, <1>7, <1>10, <2>2
    <3> QED BY <3>1, ExportedEarlier
  <2>3. CASE s # t
    BY <1>1, <2>3, ExportedEarlier
  <2> QED BY <2>1, <2>2, <2>3
<1> QED
  BY <1>1, <1>8, <1>9, <1>10 DEF RowsPart, RowsWereExported, ExtraRowsWereStale, N

LEMMA InboxNext == InboxInv /\ [Next]_vars => InboxInv'
<1> SUFFICES ASSUME InboxInv, [Next]_vars PROVE InboxInv'
  OBVIOUS
<1>1. Control
  BY ControlNext
<1>2. RowsPart
  BY <1>1, RowsKept, RowsProjected
<1> QED
  BY <1>1, <1>2 DEF Control, RowsPart, InboxInv, TypeOK

LEMMA InboxInvariant == Spec => []InboxInv
  BY InboxInit, InboxNext, PTL DEF Spec

---------------------------------------------------------------------------
\* The row of the engine's open task.

LEMMA OpenRowIndex ==
  ASSUME rows \in [Steps -> Seq(Row)], NEW k \in Task
  PROVE  HasOpenRow(k) <=> \E i \in 1 .. Len(rows[StepOf(k)]) :
                             rows[StepOf(k)][i].job = k /\ rows[StepOf(k)][i].open
<1>1. rows[StepOf(k)] \in Seq(Row)
  BY StepOfTask
<1>2. DOMAIN rows[StepOf(k)] = 1 .. Len(rows[StepOf(k)])
  BY <1>1, LenProperties
<1> QED BY <1>2 DEF HasOpenRow, RowsOf

LEMMA OpenRowIndexNext ==
  ASSUME rows' \in [Steps -> Seq(Row)], NEW k \in Task
  PROVE  HasOpenRow(k)' <=> \E i \in 1 .. Len(rows'[StepOf(k)]) :
                              rows'[StepOf(k)][i].job = k /\ rows'[StepOf(k)][i].open
<1>1. rows'[StepOf(k)] \in Seq(Row)
  BY StepOfTask
<1>2. DOMAIN rows'[StepOf(k)] = 1 .. Len(rows'[StepOf(k)])
  BY <1>1, LenProperties
<1> QED BY <1>2 DEF HasOpenRow, RowsOf

\* Closing rows of another task leaves it open.
LEMMA ShutOthers ==
  ASSUME rows \in [Steps -> Seq(Row)], rows' \in [Steps -> Seq(Row)],
         NEW k \in Task, NEW j \in Task, j # k, HasOpenRow(k),
         NEW I \in SUBSET RowsOf(j), rows' = [rows EXCEPT ![StepOf(j)] = Shut(@, I)]
  PROVE  HasOpenRow(k)'
<1>1. PICK i \in 1 .. Len(rows[StepOf(k)]) :
        rows[StepOf(k)][i].job = k /\ rows[StepOf(k)][i].open
  BY OpenRowIndex
<1>2. CASE StepOf(j) = StepOf(k)
  <2> DEFINE R == rows[StepOf(k)]
  <2>1. R \in Seq(Row) /\ rows'[StepOf(k)] = Shut(R, I)
    BY <1>2, StepOfTask
  <2>2. i \notin I
    BY <1>1, <1>2 DEF RowsOf
  <2>3. /\ Len(Shut(R, I)) = Len(R)
        /\ Shut(R, I)[i].job = R[i].job /\ Shut(R, I)[i].open = (R[i].open /\ i \notin I)
    BY <2>1, ShutRows
  <2>4. Shut(R, I)[i].job = k /\ Shut(R, I)[i].open
    BY <1>1, <2>2, <2>3
  <2> QED BY <2>1, <2>3, <2>4, OpenRowIndexNext
<1>3. CASE StepOf(j) # StepOf(k)
  BY <1>1, <1>3, StepOfTask, OpenRowIndexNext
<1> QED BY <1>2, <1>3

\* The index has created a task that has a row and is not completed.
LEMMA LiveIsIndexed ==
  ASSUME InboxInv, NEW k \in Task, Live(k), HasOpenRow(k)
  PROVE  IndexState(k) = "CREATED"
<1>1. PICK i \in 1 .. Len(rows[StepOf(k)]) : rows[StepOf(k)][i].job = k
  BY OpenRowIndex DEF InboxInv, TypeOK
<1>2. 2 * k - 1 <= exported
  BY <1>1, StepOfTask DEF InboxInv, RowsWereExported
<1>3. events = 2 * k - 1 /\ exported <= events /\ exported \in Int /\ 2 * k \in Int
  BY Counters, Numbers DEF InboxInv, Live
<1>4. exported = 2 * k - 1 /\ ~ exported >= 2 * k
  BY <1>2, <1>3
<1> QED BY <1>4 DEF IndexState

LEMMA LiveIsNotCompleted ==
  ASSUME NEW k \in Task, Live(k)
  PROVE  ~ Completed(k)
<1>1. 2 * k \in Int
  BY Numbers
<1> QED BY <1>1 DEF Live, Completed

LEMMA LiveRowStep ==
  ASSUME InboxInv, InboxInv', [Next]_vars,
         NEW k \in Task, Live(k), HasOpenRow(k), ~ HasOpenRow(k)'
  PROVE  \E p \in Projector : found[p] \in 1 .. k - 1 /\ Project(p)
<1>0. rows \in [Steps -> Seq(Row)] /\ rows' \in [Steps -> Seq(Row)]
  BY DEF InboxInv, TypeOK
<1>1. rows' # rows
  BY DEF HasOpenRow, RowsOf
<1>2. ASSUME Reconcile PROVE FALSE
  <2>1. PICK j \in Task : \E i \in RowsOf(j) :
          ReconcileClose(j) /\ rows' = [rows EXCEPT ![StepOf(j)] = Shut(@, {i})]
    BY <1>2 DEF Reconcile
  <2>2. PICK i \in RowsOf(j) :
          ReconcileClose(j) /\ rows' = [rows EXCEPT ![StepOf(j)] = Shut(@, {i})]
    BY <2>1
  <2>3. j # k
    BY <2>2, LiveIsIndexed DEF ReconcileClose
  <2>4. {i} \in SUBSET RowsOf(j)
    OBVIOUS
  <2> QED BY <1>0, <2>2, <2>3, <2>4, ShutOthers
<1>3. ASSUME NEW q \in Request, CompleteWorkItemByJob(q) PROVE FALSE
  <2>1. /\ target[q] \in Task /\ Completed(target[q])
        /\ rows' = [rows EXCEPT ![StepOf(target[q])] = Shut(@, RowsOf(target[q]))]
    BY <1>3 DEF InboxInv, TypeOK, ClosingIsCompleted, CompleteWorkItemByJob
  <2>2. target[q] # k
    BY <2>1, LiveIsNotCompleted
  <2> QED BY <1>0, <2>1, <2>2, ShutOthers
<1>4. ~ FinishCase
  BY DEF FinishCase, InboxInv, JobIsLast
<1>5. ASSUME NEW p \in Projector, Project(p) PROVE found[p] \in 1 .. k - 1
  <2> DEFINE j == found[p]
  <2>1. j \in 0 .. MaxTasks /\ j # 0
    BY <1>5 DEF InboxInv, TypeOK, Project, HasRead
  <2>2. j \in Int /\ 1 <= j /\ j \in Task
    BY <2>1, Numbers DEF Task
  <2>3. 2 * j - 1 <= 2 * k - 1
    <3>1. 2 * j - 1 <= exported /\ exported <= events /\ events = 2 * k - 1
      BY Counters DEF InboxInv, FoundWasExported, Live
    <3>2. 2 * j - 1 \in Int /\ 2 * k - 1 \in Int /\ exported \in Int
      BY <2>2, Counters, Numbers DEF InboxInv
    <3> QED BY <3>1, <3>2
  <2>4. j # k
    <3> SUFFICES ASSUME j = k PROVE FALSE
      OBVIOUS
    <3> DEFINE R == rows[StepOf(k)]
               n == seen[p]
               row == [job |-> k, open |-> TRUE]
    <3>1. PICK U : /\ U = rows'[StepOf(k)] /\ U = Upserted(R, k, n)
                   /\ R \in Seq(Row) /\ n \in 0 .. Len(R) /\ k \in 0 .. MaxTasks
      BY <1>5, <2>1, Projected
    <3>2. \E i \in 1 .. Len(U) : U[i] = row
      <4>1. Len(R) \in Nat
        BY <3>1, LenProperties
      <4>2. CASE n > 0 /\ Renewable(R[n], k)
        <5>1. n \in 1 .. Len(R)
          BY <3>1, <4>1, <4>2
        <5>2. Len(U) = Len(R) /\ U[n] = row
          BY <3>1, <4>2, <5>1, RenewedRows
        <5> QED BY <5>1, <5>2
      <4>3. CASE ~ (n > 0 /\ Renewable(R[n], k))
        <5>1. Len(U) = Len(R) + 1 /\ U[Len(R) + 1] = row
          BY <3>1, <4>3, AppendedRows
        <5> QED BY <4>1, <5>1
      <4> QED BY <4>2, <4>3
    <3>3. PICK i \in 1 .. Len(U) : U[i].job = k /\ U[i].open
      BY <3>2
    <3> QED BY <1>0, <3>1, <3>3, OpenRowIndexNext
  <2> QED BY <2>2, <2>3, <2>4, Numbers
<1>6. ~ (Export \/ CompleteJob \/ FinishFails \/ Rest \/ UNCHANGED vars)
  BY <1>1 DEF Export, CompleteJob, FinishFails, Rest, vars, requests
<1>7. ASSUME NEW q \in Request PROVE
        /\ ~ (Complete(q) \/ CompleteRefused(q) \/ CompleteFails(q) \/ CloseFails(q))
        /\ \A i \in Task, f \in BOOLEAN : ~ Authorize(q, i, f)
  BY <1>1 DEF Complete, CompleteRefused, CompleteFails, CloseFails, Authorize
<1>8. ASSUME NEW p \in Projector
      PROVE  /\ ~ (ListCases(p) \/ SearchTasks(p) \/ ReadLast(p))
             /\ ~ (ProjectRefused(p) \/ ProjectFails(p))
  BY <1>1 DEF ListCases, SearchTasks, ReadLast, ProjectRefused, ProjectFails
<1>9. \E p \in Projector : Project(p)
  BY <1>2, <1>3, <1>4, <1>6, <1>7, <1>8 DEF Next, JobStep, RequestStep, ProjectorStep
<1> QED BY <1>5, <1>9

---------------------------------------------------------------------------
\* The theorems.

\* Types of the engine, the index, the rows and the workers.
THEOREM InboxTypes == Spec => []TypeOK
  BY InboxInvariant, PTL DEF InboxInv

\* However many projectors and requests work on a case, and however late the
\* index is, a step never has more open rows than there are projectors: one,
\* unless a projector renews the row it had locked when another inserted a newer
\* one (UpsertWorkItem).
THEOREM OpenRowsBounded == Spec => []OpenRowsAreBounded
<1>1. InboxInv => OpenRowsAreBounded
  <2> SUFFICES ASSUME InboxInv, NEW s \in Steps
               PROVE  Cardinality(OpenRows(s)) <= Cardinality(Projector)
    BY DEF OpenRowsAreBounded
  <2>1. /\ IsFiniteSet(OpenRows(s)) /\ Cardinality(OpenRows(s)) \in Nat
        /\ Cardinality(StaleIn(s)) \in Nat /\ Cardinality(Projector) \in Nat
    BY CountsAreNumbers DEF InboxInv
  <2>2. Cardinality(Extra(s)) + Cardinality(StaleIn(s)) <= Cardinality(Projector) - 1
    BY DEF InboxInv, ExtraRowsWereStale
  <2>3. Cardinality(Extra(s)) \in {Cardinality(OpenRows(s)), Cardinality(OpenRows(s)) - 1}
    BY <2>1, FS_RemoveElement DEF Extra
  <2> QED BY <2>1, <2>2, <2>3
<1> QED
  BY <1>1, InboxInvariant, PTL

\* The row of the engine's open task is never closed, except by a projector
\* that found an earlier task: not by the reconciler, however late its index,
\* nor by a completion of another task (ReconcileWorkItem,
\* CompleteWorkItemByJob, UpsertWorkItem).
THEOREM LiveRowsAreKept == Spec => LiveRowIsKept
<1>1. InboxInv /\ InboxInv' /\ [Next]_vars =>
        [\A k \in Task :
           Live(k) /\ HasOpenRow(k) /\ ~ HasOpenRow(k)' =>
             \/ Completed(k)'
             \/ \E p \in Projector : found[p] \in 1 .. k - 1 /\ Project(p)]_vars
  BY LiveRowStep
<1> QED
  BY <1>1, InboxInvariant, PTL DEF Spec, LiveRowIsKept
=============================================================================
