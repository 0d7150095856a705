---------------------- MODULE NotificationInboxProofs ----------------------
(***************************************************************************)
(* Theorems about NotificationInbox, for any events, tasks, users,         *)
(* replicas, deliveries and faults: its types, that nobody is told twice,  *)
(* that a stream's cursor skips nothing, and that a processed event was    *)
(* handled.                                                                *)
(***************************************************************************)
EXTENDS NotificationInbox, TLAPS

---------------------------------------------------------------------------
(* The inductive invariant. *)

\* The advisory lock: one replica works on an event.
WorksAlone ==
  \A r, s \in Replica, e \in Event :
    pc[<<r, e>>] \in InWork /\ pc[<<s, e>>] \in InWork => r = s

\* The rows D of a notification of event e: one for each recipient, numbered
\* next in the user's sequence.
Numbered(D, e, sequence) ==
  \A row \in D :
    /\ row.event = e
    /\ row.user \in Recipients[e]
    /\ row.seq = sequence[row.user] + 1
OnePerRecipient(D, e) ==
  /\ \A u \in Recipients[e] : \E row \in D : row.user = u
  /\ \A a, b \in D : a.user = b.user => a = b

\* An open notification was not inserted before, and its users' sequences have
\* not moved since.
DraftsAreNew ==
  \A r \in Replica, e \in Event :
    LET D == drafts[<<r, e>>]
    IN IF pc[<<r, e>>] = "commitNotify"
       THEN e \notin notified /\ Notifies(e) /\ Numbered(D, e, lastSeq) /\ OnePerRecipient(D, e)
       ELSE D = {}

\* A user's row of noti_user_seq is held by one notification at a time.
Apart(D, E) == \A a \in D : \A b \in E : a.user # b.user

SequencesAreHeld ==
  \A r, s \in Replica, e, f \in Event :
    r # s \/ e # f => Apart(drafts[<<r, e>>], drafts[<<s, f>>])

\* Inserted rows belong to notifications and have had their numbers.
RowsAreNumbered ==
  \A row \in inbox : row.event \in notified /\ row.seq <= lastSeq[row.user]

Resolved(row) == [row EXCEPT !.resolved = TRUE]

\* The rows an open transaction has resolved are in the inbox, as it found
\* them or resolved by another one.
MarkedAreInserted ==
  \A r \in Replica, e \in Event :
    \A row \in marked[<<r, e>>] :
      ~ row.resolved /\ (row \in inbox \/ Resolved(row) \in inbox)

\* A notification and its rows are committed together.
NotifiedHaveRows ==
  \A e \in notified : \A u \in Recipients[e] : \E row \in inbox : row.event = e /\ row.user = u

\* The steps of a transaction are those its event calls for; before the last
\* its notification is committed.
StepsFit ==
  \A r \in Replica, e \in Event :
    /\ pc[<<r, e>>] = "notify" => Notifies(e)
    /\ pc[<<r, e>>] = "commit" /\ Notifies(e) => e \in notified

\* An event marked as processed left what it is about (ProcessEventOnce: "a
\* partial business mutation cannot be committed").
ProcessedAreHandled == \A e \in processed : Handled(e)

ProcessedLeaveTraces ==
  \A e \in processed :
    /\ Notifies(e) => e \in notified
    /\ Resolves(e) => TaskOf[e] \in tombstones

InboxInv ==
  /\ TypeOK
  /\ WorksAlone /\ DraftsAreNew /\ SequencesAreHeld
  /\ RowsAreNumbered /\ MarkedAreInserted /\ NotifiedHaveRows
  /\ StepsFit /\ ProcessedLeaveTraces
  /\ NoDuplicateNotification

---------------------------------------------------------------------------
(* Types. *)

\* A function over replicas and events after an update at one pair.
LEMMA PairUpdate ==
  ASSUME NEW S, NEW f \in [Replica \X Event -> S],
         NEW r \in Replica, NEW e \in Event, NEW v \in S
  PROVE  LET g == [f EXCEPT ![<<r, e>>] = v]
         IN /\ g \in [Replica \X Event -> S]
            /\ g[<<r, e>>] = v
            /\ \A s \in Replica, d \in Event : s # r \/ d # e => g[<<s, d>>] = f[<<s, d>>]
OBVIOUS

LEMMA InitTypes == Init => TypeOK
<1> SUFFICES ASSUME Init PROVE TypeOK
  OBVIOUS
<1>1. /\ delivered \in [Event -> 0 .. MaxDeliver] /\ lastSeq \in [User -> Nat]
      /\ faults \in 0 .. MaxFaults
  BY ConstantsAssumption DEF Init
<1>2. /\ pc \in [Replica \X Event -> Step]
      /\ marked \in [Replica \X Event -> SUBSET Row]
      /\ drafts \in [Replica \X Event -> SUBSET Row]
  BY DEF Init, Step
<1> QED BY <1>1, <1>2 DEF Init, TypeOK

LEMMA GotoType ==
  ASSUME TypeOK, NEW r \in Replica, NEW e \in Event, NEW t \in Step, Goto(r, e, t)
  PROVE  /\ pc' \in [Replica \X Event -> Step]
         /\ pc'[<<r, e>>] = t
         /\ \A s \in Replica, d \in Event : s # r \/ d # e => pc'[<<s, d>>] = pc[<<s, d>>]
BY DEF TypeOK, Goto

LEMMA ClearType ==
  ASSUME TypeOK, NEW P, Clear(P)
  PROVE  /\ pc' \in [Replica \X Event -> Step]
         /\ marked' \in [Replica \X Event -> SUBSET Row]
         /\ drafts' \in [Replica \X Event -> SUBSET Row]
         /\ \A x \in Replica \X Event :
              IF x \in P
              THEN pc'[x] = "idle" /\ marked'[x] = {} /\ drafts'[x] = {}
              ELSE pc'[x] = pc[x] /\ marked'[x] = marked[x] /\ drafts'[x] = drafts[x]
BY DEF TypeOK, Clear, Step

LEMMA FaultType == TypeOK /\ Fault => faults' \in 0 .. MaxFaults
BY ConstantsAssumption DEF TypeOK, Fault

\* The server's and the consumer's steps.
LEMMA ServerTypes ==
  ASSUME TypeOK, NEW e \in Event,
         \E r \in Replica :
           Deliver(r, e) \/ DeliverLate(r, e) \/ DeadLetter(r, e) \/ AckSync(r, e)
  PROVE  TypeOK'
<1>1. ASSUME NEW r \in Replica, NextMsg(r, e), faults' \in 0 .. MaxFaults PROVE TypeOK'
  <2>1. delivered' \in [Event -> 0 .. MaxDeliver]
    BY <1>1, ConstantsAssumption DEF NextMsg, TypeOK
  <2>2. pc' \in [Replica \X Event -> Step]
    BY <1>1, GotoType DEF NextMsg, Step
  <2> QED BY <1>1, <2>1, <2>2 DEF NextMsg, tables, open, TypeOK
<1>2. ASSUME NEW r \in Replica, Deliver(r, e) \/ DeliverLate(r, e) PROVE TypeOK'
  BY <1>1, <1>2, FaultType DEF Deliver, DeliverLate, TypeOK
<1>3. ASSUME NEW r \in Replica, DeadLetter(r, e) PROVE TypeOK'
  <2>1. pc' \in [Replica \X Event -> Step]
    BY <1>3, GotoType DEF DeadLetter, Step
  <2> QED BY <1>3, <2>1 DEF DeadLetter, PublishDLQ, tables, open, TypeOK
<1>4. ASSUME NEW r \in Replica, AckSync(r, e) PROVE TypeOK'
  <2>1. pc' \in [Replica \X Event -> Step]
    BY <1>4, GotoType DEF AckSync, Step
  <2> QED BY <1>4, <2>1 DEF AckSync, tables, open, TypeOK
<1> QED BY <1>1, <1>2, <1>3, <1>4

LEMMA ResolvedRow ==
  ASSUME NEW row \in Row
  PROVE  /\ Resolved(row) \in Row
         /\ Resolved(row).event = row.event
         /\ Resolved(row).user = row.user
         /\ Resolved(row).seq = row.seq
         /\ Resolved(row).resolved = TRUE
BY DEF Resolved, Row

\* The rows of a new notification.
LEMMA DraftRows ==
  ASSUME TypeOK, NEW e \in Event
  PROVE  /\ DraftsOf(e) \in SUBSET Row
         /\ Numbered(DraftsOf(e), e, lastSeq)
         /\ OnePerRecipient(DraftsOf(e), e)
<1> DEFINE new(u) == [event |-> e, user |-> u, seq |-> lastSeq[u] + 1,
                      resolved |-> TaskOf[e] \in tombstones]
<1>1. \A u \in Recipients[e] : u \in User
  BY ConstantsAssumption
<1>2. \A u \in Recipients[e] : lastSeq[u] + 1 \in Nat
  BY <1>1 DEF TypeOK
<1>3. \A u \in Recipients[e] :
        /\ new(u) \in Row
        /\ new(u).event = e /\ new(u).user = u /\ new(u).seq = lastSeq[u] + 1
  BY <1>1, <1>2 DEF Row
<1>4. DraftsOf(e) = {new(u) : u \in Recipients[e]}
  BY DEF DraftsOf
<1> HIDE DEF new
<1> QED BY <1>3, <1>4 DEF Numbered, OnePerRecipient

LEMMA CreateTypes ==
  ASSUME TypeOK, NEW r \in Replica, NEW e \in Event, CreateNotification(r, e)
  PROVE  /\ notified' \subseteq Event /\ inbox' \subseteq Row
         /\ lastSeq' \in [User -> Nat]
         /\ drafts' \in [Replica \X Event -> SUBSET Row]
BY DEF TypeOK, CreateNotification

LEMMA ProcessTypes ==
  ASSUME TypeOK, NEW r \in Replica, NEW e \in Event, ProcessEvent(r, e)
  PROVE  /\ processed' \subseteq Event /\ inbox' \subseteq Row
         /\ tombstones' \subseteq Task
         /\ marked' \in [Replica \X Event -> SUBSET Row]
<1>1. processed' \subseteq Event /\ tombstones' \subseteq Task
  BY ConstantsAssumption DEF TypeOK, ProcessEvent
<1>2. marked[<<r, e>>] \subseteq Row
  BY DEF TypeOK
<1>3. inbox' \subseteq Row
  BY <1>2, ResolvedRow DEF TypeOK, ProcessEvent, Resolved
<1>4. marked' \in [Replica \X Event -> SUBSET Row]
  BY DEF TypeOK, ProcessEvent
<1> QED BY <1>1, <1>3, <1>4

\* The handler's steps.
LEMMA HandlerTypes ==
  ASSUME TypeOK, NEW r \in Replica, NEW e \in Event,
         \/ Handle(r, e) \/ Resolve(r, e) \/ Notify(r, e)
         \/ CommitNotify(r, e) \/ Commit(r, e) \/ RecordRecipientWarning(r, e)
  PROVE  TypeOK'
<1>1. CASE Handle(r, e)
  <2>1. \E t \in Step : Goto(r, e, t)
    BY <1>1 DEF Handle, Last, Step, InWork
  <2>2. pc' \in [Replica \X Event -> Step]
    BY <2>1, GotoType
  <2> QED BY <1>1, <2>2 DEF Handle, stream, tables, open, TypeOK
<1>2. CASE Resolve(r, e)
  <2>1. pc' \in [Replica \X Event -> Step]
    BY <1>2, GotoType DEF Resolve, Step, InWork
  <2>2. marked' \in [Replica \X Event -> SUBSET Row]
    BY <1>2, PairUpdate DEF Resolve, TypeOK
  <2> QED BY <1>2, <2>1, <2>2 DEF Resolve, stream, tables, TypeOK
<1>3. CASE Notify(r, e)
  <2>1. pc' \in [Replica \X Event -> Step]
    BY <1>3, GotoType DEF Notify, Step, InWork
  <2>2. drafts' \in [Replica \X Event -> SUBSET Row]
    <3>1. drafts \in [Replica \X Event -> SUBSET Row]
      BY DEF TypeOK
    <3>2. drafts' = drafts \/ drafts' = [drafts EXCEPT ![<<r, e>>] = DraftsOf(e)]
      BY <1>3 DEF Notify
    <3> QED BY <3>1, <3>2, DraftRows
  <2> QED BY <1>3, <2>1, <2>2 DEF Notify, stream, tables, TypeOK
<1>4. CASE CommitNotify(r, e)
  <2>1. pc' \in [Replica \X Event -> Step]
    BY <1>4, GotoType DEF CommitNotify, Step, InWork
  <2>2. CreateNotification(r, e)
    BY <1>4 DEF CommitNotify
  <2> QED BY <1>4, <2>1, <2>2, CreateTypes
          DEF CommitNotify, CreateNotification, stream, TypeOK
<1>5. CASE Commit(r, e)
  <2>1. pc' \in [Replica \X Event -> Step]
    BY <1>5, GotoType DEF Commit, Last, Step
  <2>2. ProcessEvent(r, e)
    BY <1>5 DEF Commit
  <2> QED BY <1>5, <2>1, <2>2, ProcessTypes DEF Commit, ProcessEvent, stream, TypeOK
<1>6. CASE RecordRecipientWarning(r, e)
  <2>1. pc' \in [Replica \X Event -> Step]
    BY <1>6, GotoType DEF RecordRecipientWarning, Step
  <2> QED BY <1>6, <2>1 DEF RecordRecipientWarning, stream, open, TypeOK
<1> QED BY <1>1, <1>2, <1>3, <1>4, <1>5, <1>6

LEMMA FaultTypes ==
  ASSUME TypeOK,
         \/ \E r \in Replica, e \in Event : Fail(r, e) \/ Unanswered(r, e)
         \/ \E r \in Replica : Crash(r)
  PROVE  TypeOK'
<1>1. ASSUME NEW r \in Replica, NEW e \in Event, Fail(r, e) PROVE TypeOK'
  BY <1>1, ClearType, FaultType DEF Fail, stream, tables, TypeOK
<1>2. ASSUME NEW r \in Replica, Crash(r) PROVE TypeOK'
  BY <1>2, ClearType, FaultType DEF Crash, stream, tables, TypeOK
<1>3. ASSUME NEW r \in Replica, NEW e \in Event, Unanswered(r, e) PROVE TypeOK'
  <2>1. pc' \in [Replica \X Event -> Step] /\ faults' \in 0 .. MaxFaults
    BY <1>3, GotoType, FaultType DEF Unanswered, Step
  <2>2. CASE CreateNotification(r, e) /\ marked' = [marked EXCEPT ![<<r, e>>] = {}]
    <3>1. marked' \in [Replica \X Event -> SUBSET Row]
      BY <2>2, PairUpdate DEF TypeOK
    <3> QED BY <2>1, <2>2, <3>1, CreateTypes DEF CreateNotification, stream, TypeOK
  <2>3. CASE ProcessEvent(r, e)
    BY <2>1, <2>3, ProcessTypes DEF ProcessEvent, stream, TypeOK
  <2>4. CASE PublishDLQ(e)
    BY <2>1, <2>4 DEF PublishDLQ, tables, open, TypeOK
  <2> QED BY <1>3, <2>2, <2>3, <2>4 DEF Unanswered
<1> QED BY <1>1, <1>2, <1>3

LEMMA TypeNext == TypeOK /\ [Next]_vars => TypeOK'
<1> SUFFICES ASSUME TypeOK, [Next]_vars PROVE TypeOK'
  OBVIOUS
<1>1. CASE UNCHANGED vars \/ Rest
  BY <1>1 DEF Rest, vars, stream, tables, open, TypeOK
<1> QED BY <1>1, ServerTypes, HandlerTypes, FaultTypes DEF Next, Progress

---------------------------------------------------------------------------
(* What a step does to the inbox: one of six effects. *)

core == <<processed, notified, tombstones, inbox, lastSeq>>

Still == UNCHANGED <<core, pc, open>>

\* A transaction goes on, and may resolve rows it finds.
Moves(r, e, t) ==
  /\ Goto(r, e, t)
  /\ pc[<<r, e>>] # "commitNotify" /\ t # "commitNotify"
  /\ t \in InWork => \A s \in Replica : pc[<<s, e>>] \in InWork => s = r
  /\ t = "notify" => Notifies(e)
  /\ t = "commit" /\ Notifies(e) => e \in notified
  /\ \A s \in Replica, d \in Event : \A row \in marked'[<<s, d>>] :
       row \in marked[<<s, d>>] \/ (row \in inbox /\ ~ row.resolved)
  /\ UNCHANGED <<core, drafts>>

Drafting(r, e) ==
  /\ pc[<<r, e>>] = "notify"
  /\ Goto(r, e, "commitNotify")
  /\ e \notin notified
  /\ \A u \in Recipients[e] : SeqFree(u)
  /\ drafts' = [drafts EXCEPT ![<<r, e>>] = DraftsOf(e)]
  /\ UNCHANGED <<core, marked>>

Inserting(r, e, t) ==
  /\ pc[<<r, e>>] = "commitNotify"
  /\ Goto(r, e, t) /\ t \in {"commit", "idle"}
  /\ CreateNotification(r, e)
  /\ \A s \in Replica, d \in Event : marked'[<<s, d>>] \subseteq marked[<<s, d>>]

Processing(r, e, t) ==
  /\ pc[<<r, e>>] = "commit"
  /\ Goto(r, e, t) /\ t \in Step \ InWork
  /\ ProcessEvent(r, e)

Clearing(P) == Clear(P) /\ UNCHANGED core

Effect ==
  \/ Still
  \/ \E P : Clearing(P)
  \/ \E r \in Replica, e \in Event :
       \/ Drafting(r, e)
       \/ \E t \in Step : Moves(r, e, t) \/ Inserting(r, e, t) \/ Processing(r, e, t)

\* Reading the marks of a transaction.
LEMMA SameMarks ==
  ASSUME UNCHANGED open
  PROVE  \A s \in Replica, d \in Event : \A row \in marked'[<<s, d>>] : row \in marked[<<s, d>>]
BY DEF open

LEMMA StreamEffects ==
  ASSUME TypeOK, NEW r \in Replica, NEW e \in Event,
         \/ NextMsg(r, e) \/ DeadLetter(r, e) \/ AckSync(r, e)
         \/ RecordRecipientWarning(r, e)
  PROVE  Effect
<1>1. CASE NextMsg(r, e)
  <2>1. pc[<<r, e>>] = "idle"
    BY <1>1 DEF NextMsg
  <2>2. PICK t \in {"deadLetter", "handle"} : Goto(r, e, t)
    BY <1>1 DEF NextMsg
  <2>3. Moves(r, e, t)
    BY <1>1, <2>1, <2>2, SameMarks DEF NextMsg, Moves, InWork, tables, core, open
  <2> QED BY <2>2, <2>3 DEF Effect, Step
<1>2. CASE DeadLetter(r, e)
  <2>1. Moves(r, e, "ack")
    BY <1>2, SameMarks DEF DeadLetter, PublishDLQ, Moves, InWork, tables, core, open
  <2> QED BY <2>1 DEF Effect, Step
<1>3. CASE AckSync(r, e)
  <2>1. Moves(r, e, "idle")
    BY <1>3, SameMarks DEF AckSync, Moves, InWork, tables, core, open
  <2> QED BY <2>1 DEF Effect, Step
<1>4. CASE RecordRecipientWarning(r, e)
  <2>1. Moves(r, e, "ack")
    BY <1>4, SameMarks DEF RecordRecipientWarning, Moves, InWork, core, open
  <2> QED BY <2>1 DEF Effect, Step
<1> QED BY <1>1, <1>2, <1>3, <1>4

\* An assignment reaches the notification only with recipients.
LEMMA AssignedNotifies ==
  ASSUME NEW e \in Event, ~ (Warns(e) /\ ~ Resolves(e)), ~ Resolves(e)
  PROVE  Notifies(e)
BY DEF Warns, Resolves, Notifies

LEMMA HandlerEffects ==
  ASSUME InboxInv, NEW r \in Replica, NEW e \in Event,
         \/ Handle(r, e) \/ Resolve(r, e) \/ Notify(r, e)
         \/ CommitNotify(r, e) \/ Commit(r, e)
  PROVE  Effect
<1>0. TypeOK
  BY DEF InboxInv
<1>1. CASE Handle(r, e)
  <2>1. pc[<<r, e>>] = "handle" /\ UNCHANGED <<core, drafts, open>>
    BY <1>1 DEF Handle, tables, core, open
  <2>2. CASE Warns(e) /\ ~ Resolves(e)
    <3>1. Moves(r, e, "warn")
      BY <1>1, <2>1, <2>2, SameMarks DEF Handle, Moves, InWork
    <3> QED BY <3>1 DEF Effect, Step
  <2>3. CASE ~ (Warns(e) /\ ~ Resolves(e))
    <3>1. \A s \in Replica : pc[<<s, e>>] \notin InWork
      BY <1>1, <2>3 DEF Handle
    <3>2. PICK t \in Step : /\ Goto(r, e, t)
                            /\ t \in {"warn", "ack", "resolve", "notify"}
                            /\ t = "notify" => ~ Resolves(e)
      BY <1>1, <2>3 DEF Handle, Last, Step, InWork
    <3>3. Moves(r, e, t)
      BY <2>1, <2>3, <3>1, <3>2, SameMarks, AssignedNotifies DEF Moves, InWork
    <3> QED BY <3>3 DEF Effect
  <2> QED BY <2>2, <2>3
<1>2. CASE Resolve(r, e)
  <2>1. /\ pc[<<r, e>>] = "resolve" /\ UNCHANGED <<core, drafts>>
        /\ marked' = [marked EXCEPT ![<<r, e>>] =
             {row \in inbox : TaskOf[row.event] = TaskOf[e] /\ ~ row.resolved}]
    BY <1>2 DEF Resolve, tables, core
  <2>2. \A s \in Replica, d \in Event : \A row \in marked'[<<s, d>>] :
          row \in marked[<<s, d>>] \/ (row \in inbox /\ ~ row.resolved)
    BY <1>0, <2>1 DEF TypeOK
  <2>3. \A s \in Replica : pc[<<s, e>>] \in InWork => s = r
    BY <2>1 DEF InboxInv, WorksAlone, InWork
  <2>4. PICK t \in Step : Goto(r, e, t) /\ t = IF Notifies(e) THEN "notify" ELSE "commit"
    BY <1>2 DEF Resolve, Step, InWork
  <2>5. Moves(r, e, t)
    BY <2>1, <2>2, <2>3, <2>4 DEF Moves
  <2> QED BY <2>5 DEF Effect
<1>3. CASE Notify(r, e)
  <2>1. pc[<<r, e>>] = "notify" /\ UNCHANGED <<core, marked>>
    BY <1>3 DEF Notify, tables, core
  <2>2. CASE e \in notified
    <3>1. Goto(r, e, "commit") /\ UNCHANGED drafts
      BY <1>3, <2>2 DEF Notify
    <3>2. \A s \in Replica : pc[<<s, e>>] \in InWork => s = r
      BY <2>1 DEF InboxInv, WorksAlone, InWork
    <3>3. Moves(r, e, "commit")
      BY <2>1, <2>2, <3>1, <3>2 DEF Moves
    <3> QED BY <3>3 DEF Effect, Step, InWork
  <2>3. CASE e \notin notified
    <3>1. Drafting(r, e)
      BY <1>3, <2>1, <2>3 DEF Notify, Drafting
    <3> QED BY <3>1 DEF Effect
  <2> QED BY <2>2, <2>3
<1>4. CASE CommitNotify(r, e)
  <2>1. Inserting(r, e, "commit")
    BY <1>4 DEF CommitNotify, Inserting
  <2> QED BY <2>1 DEF Effect, Step, InWork
<1>5. CASE Commit(r, e)
  <2>1. PICK t \in Step \ InWork : Goto(r, e, t)
    BY <1>5 DEF Commit, Last, Step, InWork
  <2>2. Processing(r, e, t)
    BY <1>5, <2>1 DEF Commit, Processing
  <2> QED BY <2>2 DEF Effect
<1> QED BY <1>1, <1>2, <1>3, <1>4, <1>5

LEMMA FaultEffects ==
  ASSUME TypeOK,
         \/ \E r \in Replica, e \in Event : Fail(r, e) \/ Unanswered(r, e)
         \/ \E r \in Replica : Crash(r)
  PROVE  Effect
<1>1. ASSUME NEW r \in Replica, NEW e \in Event, Fail(r, e) PROVE Effect
  <2>1. Clearing({<<r, e>>})
    BY <1>1 DEF Fail, tables, core, Clearing
  <2> QED BY <2>1 DEF Effect
<1>2. ASSUME NEW r \in Replica, Crash(r) PROVE Effect
  <2>1. Clearing({r} \X Event)
    BY <1>2 DEF Crash, tables, core, Clearing
  <2> QED BY <2>1 DEF Effect
<1>3. ASSUME NEW r \in Replica, NEW e \in Event, Unanswered(r, e) PROVE Effect
  <2>0. "idle" \in Step \ InWork /\ Goto(r, e, "idle")
    BY <1>3 DEF Unanswered, Step, InWork
  <2>1. CASE /\ pc[<<r, e>>] = "commitNotify" /\ CreateNotification(r, e)
             /\ marked' = [marked EXCEPT ![<<r, e>>] = {}]
    <3>1. \A s \in Replica, d \in Event : marked'[<<s, d>>] \subseteq marked[<<s, d>>]
      BY <2>1 DEF TypeOK
    <3>2. Inserting(r, e, "idle")
      BY <2>0, <2>1, <3>1 DEF Inserting
    <3> QED BY <2>0, <3>2 DEF Effect
  <2>2. CASE pc[<<r, e>>] = "commit" /\ ProcessEvent(r, e)
    <3>1. Processing(r, e, "idle")
      BY <2>0, <2>2 DEF Processing
    <3> QED BY <2>0, <3>1 DEF Effect
  <2>3. CASE pc[<<r, e>>] = "deadLetter" /\ PublishDLQ(e)
    <3>1. Moves(r, e, "idle")
      BY <2>0, <2>3, SameMarks DEF PublishDLQ, Moves, InWork, tables, core, open
    <3> QED BY <2>0, <3>1 DEF Effect
  <2> QED BY <1>3, <2>1, <2>2, <2>3 DEF Unanswered
<1> QED BY <1>1, <1>2, <1>3

LEMMA Effects ==
  ASSUME InboxInv, [Next]_vars
  PROVE  Effect
<1>0. TypeOK
  BY DEF InboxInv
<1>1. CASE UNCHANGED vars \/ Rest
  BY <1>1 DEF Rest, vars, tables, core, open, Effect, Still
<1>2. CASE \E r \in Replica, e \in Event : Deliver(r, e) \/ DeliverLate(r, e)
  BY <1>0, <1>2, StreamEffects DEF Deliver, DeliverLate
<1> QED BY <1>0, <1>1, <1>2, StreamEffects, HandlerEffects, FaultEffects DEF Next, Progress

---------------------------------------------------------------------------
(* Each effect keeps the invariant. *)

LEMMA StillKeeps == InboxInv /\ TypeOK' /\ Still => InboxInv'
BY DEF Still, core, open, InboxInv, WorksAlone, DraftsAreNew, SequencesAreHeld,
       RowsAreNumbered, MarkedAreInserted, NotifiedHaveRows, StepsFit, ProcessedLeaveTraces,
       NoDuplicateNotification

LEMMA MovesKeep ==
  ASSUME InboxInv, TypeOK', NEW r \in Replica, NEW e \in Event, NEW t \in Step, Moves(r, e, t)
  PROVE  InboxInv'
<1>1. /\ pc'[<<r, e>>] = t
      /\ \A s \in Replica, d \in Event : s # r \/ d # e => pc'[<<s, d>>] = pc[<<s, d>>]
  BY GotoType DEF InboxInv, Moves
<1>2. UNCHANGED <<processed, notified, tombstones, inbox, lastSeq, drafts>>
  BY DEF Moves, core
<1>3. WorksAlone'
  BY <1>1 DEF InboxInv, WorksAlone, Moves
<1>4. DraftsAreNew'
  BY <1>1, <1>2 DEF InboxInv, DraftsAreNew, Moves
<1>5. SequencesAreHeld'
  BY <1>2 DEF InboxInv, SequencesAreHeld
<1>6. RowsAreNumbered' /\ NotifiedHaveRows' /\ NoDuplicateNotification'
  BY <1>2 DEF InboxInv, RowsAreNumbered, NotifiedHaveRows, NoDuplicateNotification
<1>7. MarkedAreInserted'
  BY <1>2 DEF InboxInv, MarkedAreInserted, Moves
<1>8. StepsFit' /\ ProcessedLeaveTraces'
  BY <1>1, <1>2 DEF InboxInv, StepsFit, ProcessedLeaveTraces, Moves
<1> QED BY <1>3, <1>4, <1>5, <1>6, <1>7, <1>8 DEF InboxInv

LEMMA DraftingKeeps ==
  ASSUME InboxInv, TypeOK', NEW r \in Replica, NEW e \in Event, Drafting(r, e)
  PROVE  InboxInv'
<1>0. TypeOK /\ "commitNotify" \in Step
  BY DEF InboxInv, Step, InWork
<1>1. /\ pc'[<<r, e>>] = "commitNotify"
      /\ \A s \in Replica, d \in Event : s # r \/ d # e => pc'[<<s, d>>] = pc[<<s, d>>]
  BY <1>0, GotoType DEF Drafting
<1>2. UNCHANGED <<processed, notified, tombstones, inbox, lastSeq, marked>>
  BY DEF Drafting, core
<1>3. /\ drafts'[<<r, e>>] = DraftsOf(e)
      /\ \A s \in Replica, d \in Event : s # r \/ d # e => drafts'[<<s, d>>] = drafts[<<s, d>>]
  BY <1>0, DraftRows DEF Drafting, TypeOK
<1>4. WorksAlone'
  BY <1>1 DEF InboxInv, WorksAlone, Drafting, InWork
<1>5. DraftsAreNew'
  <2>1. Notifies(e)
    BY DEF InboxInv, StepsFit, Drafting
  <2>2. e \notin notified
    BY DEF Drafting
  <2>3. e \notin notified' /\ Numbered(drafts'[<<r, e>>], e, lastSeq')
        /\ OnePerRecipient(drafts'[<<r, e>>], e)
    BY <1>0, <1>2, <1>3, <2>2, DraftRows
  <2>4. ASSUME NEW s \in Replica, NEW d \in Event, s # r \/ d # e
        PROVE  IF pc'[<<s, d>>] = "commitNotify"
               THEN /\ d \notin notified' /\ Notifies(d)
                    /\ Numbered(drafts'[<<s, d>>], d, lastSeq')
                    /\ OnePerRecipient(drafts'[<<s, d>>], d)
               ELSE drafts'[<<s, d>>] = {}
    <3>1. pc'[<<s, d>>] = pc[<<s, d>>] /\ drafts'[<<s, d>>] = drafts[<<s, d>>]
      BY <1>1, <1>3, <2>4
    <3> QED BY <1>2, <3>1 DEF InboxInv, DraftsAreNew
  <2> QED BY <1>1, <2>1, <2>3, <2>4 DEF DraftsAreNew
<1>6. SequencesAreHeld'
  <2>1. ASSUME NEW s \in Replica, NEW d \in Event, s # r \/ d # e,
               NEW a \in drafts[<<s, d>>], NEW b \in DraftsOf(e)
        PROVE  a.user # b.user
    BY <1>0, <2>1, DraftRows DEF Drafting, SeqFree, Numbered
  <2>2. ASSUME NEW s \in Replica, NEW d \in Event, s # r \/ d # e
        PROVE  Apart(drafts[<<s, d>>], DraftsOf(e)) /\ Apart(DraftsOf(e), drafts[<<s, d>>])
    BY <2>1, <2>2 DEF Apart
  <2>3. ASSUME NEW s \in Replica, NEW q \in Replica, NEW d \in Event, NEW f \in Event,
               s # q \/ d # f
        PROVE  Apart(drafts'[<<s, d>>], drafts'[<<q, f>>])
    <3>1. CASE s = r /\ d = e
      BY <1>3, <2>2, <2>3, <3>1
    <3>2. CASE q = r /\ f = e
      BY <1>3, <2>2, <2>3, <3>2
    <3>3. CASE (s # r \/ d # e) /\ (q # r \/ f # e)
      BY <1>3, <2>3, <3>3 DEF InboxInv, SequencesAreHeld
    <3> QED BY <3>1, <3>2, <3>3
  <2> QED BY <2>3 DEF SequencesAreHeld
<1>7. RowsAreNumbered' /\ NotifiedHaveRows' /\ NoDuplicateNotification' /\ MarkedAreInserted'
  BY <1>2 DEF InboxInv, RowsAreNumbered, NotifiedHaveRows, NoDuplicateNotification,
              MarkedAreInserted
<1>8. StepsFit' /\ ProcessedLeaveTraces'
  BY <1>1, <1>2 DEF InboxInv, StepsFit, ProcessedLeaveTraces
<1> QED BY <1>4, <1>5, <1>6, <1>7, <1>8 DEF InboxInv

\* The rows of a notification enter the inbox: users who were not told yet get
\* numbers above all they had.
LEMMA InsertedRows ==
  ASSUME InboxInv, NEW r \in Replica, NEW e \in Event, NEW t, Inserting(r, e, t),
         NEW row \in drafts[<<r, e>>]
  PROVE  /\ row.event = e /\ row.user \in Recipients[e] /\ row.user \in User
         /\ row.seq = lastSeq[row.user] + 1
         /\ \A old \in inbox : old.event # e /\ (old.user = row.user => old.seq < row.seq)
<1>1. /\ row.event = e /\ row.user \in Recipients[e] /\ row.seq = lastSeq[row.user] + 1
      /\ e \notin notified
  BY DEF InboxInv, DraftsAreNew, Inserting, Numbered
<1>2. row.user \in User
  BY <1>1, ConstantsAssumption
<1>3. ASSUME NEW old \in inbox PROVE old.event # e /\ (old.user = row.user => old.seq < row.seq)
  <2>1. old.event \in notified /\ old.seq <= lastSeq[old.user] /\ old \in Row
    BY DEF InboxInv, RowsAreNumbered, TypeOK
  <2>2. lastSeq[row.user] \in Nat /\ old.seq \in Nat
    BY <1>2, <2>1 DEF InboxInv, TypeOK, Row
  <2> QED BY <1>1, <2>1, <2>2
<1> QED BY <1>1, <1>2, <1>3

LEMMA InsertingKeeps ==
  ASSUME InboxInv, TypeOK', NEW r \in Replica, NEW e \in Event, NEW t \in Step,
         Inserting(r, e, t)
  PROVE  InboxInv'
<1>0. TypeOK
  BY DEF InboxInv
<1>1. /\ pc'[<<r, e>>] = t
      /\ \A s \in Replica, d \in Event : s # r \/ d # e => pc'[<<s, d>>] = pc[<<s, d>>]
      /\ pc[<<r, e>>] = "commitNotify" /\ t \in {"commit", "idle"}
  BY <1>0, GotoType DEF Inserting
<1>2. /\ notified' = notified \cup {e}
      /\ inbox' = inbox \cup drafts[<<r, e>>]
      /\ \A u \in User : lastSeq'[u] = IF u \in Recipients[e] THEN lastSeq[u] + 1 ELSE lastSeq[u]
      /\ UNCHANGED <<processed, tombstones>>
  BY DEF Inserting, CreateNotification
<1>3. /\ drafts'[<<r, e>>] = {}
      /\ \A s \in Replica, d \in Event : s # r \/ d # e => drafts'[<<s, d>>] = drafts[<<s, d>>]
  BY <1>0 DEF Inserting, CreateNotification, TypeOK
<1>4. \A s \in Replica : s # r => pc[<<s, e>>] \notin InWork
  BY <1>1 DEF InboxInv, WorksAlone, InWork
<1>5. \A u \in Recipients[e] : \E row \in drafts[<<r, e>>] : row.user = u
  BY <1>1 DEF InboxInv, DraftsAreNew, OnePerRecipient
<1>6. WorksAlone'
  BY <1>1, <1>4 DEF InboxInv, WorksAlone, InWork
<1>7. DraftsAreNew'
  <2>1. ASSUME NEW s \in Replica, NEW d \in Event, s # r \/ d # e, pc[<<s, d>>] = "commitNotify"
        PROVE  /\ d \notin notified' /\ Notifies(d)
               /\ Numbered(drafts[<<s, d>>], d, lastSeq')
               /\ OnePerRecipient(drafts[<<s, d>>], d)
    <3>1. d # e
      BY <1>4, <2>1 DEF InWork
    <3>2. /\ d \notin notified /\ Notifies(d)
          /\ Numbered(drafts[<<s, d>>], d, lastSeq) /\ OnePerRecipient(drafts[<<s, d>>], d)
      BY <2>1 DEF InboxInv, DraftsAreNew
    <3>3. Apart(drafts[<<r, e>>], drafts[<<s, d>>])
      BY <3>1 DEF InboxInv, SequencesAreHeld
    <3>4. \A row \in drafts[<<s, d>>] : row.user \in User \ Recipients[e]
      BY <1>5, <3>2, <3>3, ConstantsAssumption DEF Apart, Numbered
    <3>5. Numbered(drafts[<<s, d>>], d, lastSeq')
      BY <1>2, <3>2, <3>4 DEF Numbered
    <3> QED BY <1>2, <3>1, <3>2, <3>5
  <2>2. ASSUME NEW s \in Replica, NEW d \in Event, s # r \/ d # e, pc[<<s, d>>] # "commitNotify"
        PROVE  drafts[<<s, d>>] = {}
    BY <2>2 DEF InboxInv, DraftsAreNew
  <2> QED BY <1>1, <1>3, <2>1, <2>2 DEF DraftsAreNew
<1>8. SequencesAreHeld'
  <2>1. \A D : Apart({}, D) /\ Apart(D, {})
    BY DEF Apart
  <2> QED BY <1>3, <2>1 DEF InboxInv, SequencesAreHeld
<1>9. RowsAreNumbered'
  <2>1. ASSUME NEW row \in inbox PROVE row.event \in notified' /\ row.seq <= lastSeq'[row.user]
    <3>1. row.event \in notified /\ row.seq <= lastSeq[row.user] /\ row \in Row
      BY <1>0 DEF InboxInv, RowsAreNumbered, TypeOK
    <3>2. row.user \in User /\ row.seq \in Nat
      BY <3>1 DEF Row
    <3>3. lastSeq[row.user] \in Nat
      BY <1>0, <3>2 DEF TypeOK
    <3> QED BY <1>2, <3>1, <3>2, <3>3
  <2>2. ASSUME NEW row \in drafts[<<r, e>>]
        PROVE  row.event \in notified' /\ row.seq <= lastSeq'[row.user]
    <3>1. /\ row.event = e /\ row.user \in Recipients[e] /\ row.user \in User
          /\ row.seq = lastSeq[row.user] + 1
      BY InsertedRows
    <3>2. lastSeq[row.user] \in Nat
      BY <1>0, <3>1 DEF TypeOK
    <3> QED BY <1>2, <3>1, <3>2
  <2> QED BY <1>2, <2>1, <2>2 DEF RowsAreNumbered
<1>10. MarkedAreInserted'
  BY <1>2 DEF InboxInv, MarkedAreInserted, Inserting
<1>11. NotifiedHaveRows'
  <2>1. \A row \in drafts[<<r, e>>] : row.event = e
    BY InsertedRows
  <2> QED BY <1>2, <1>5, <2>1 DEF InboxInv, NotifiedHaveRows
<1>12. StepsFit' /\ ProcessedLeaveTraces'
  BY <1>1, <1>2 DEF InboxInv, StepsFit, ProcessedLeaveTraces
<1>13. NoDuplicateNotification'
  <2>1. \A a, b \in drafts[<<r, e>>] : a.user = b.user => a = b
    BY <1>1 DEF InboxInv, DraftsAreNew, OnePerRecipient
  <2>2. \A row \in drafts[<<r, e>>], old \in inbox : row.event # old.event
    BY InsertedRows
  <2> QED BY <1>2, <2>1, <2>2 DEF InboxInv, NoDuplicateNotification
<1> QED BY <1>6, <1>7, <1>8, <1>9, <1>10, <1>11, <1>12, <1>13 DEF InboxInv

\* Resolving rows changes no row's event, user or number, and adds none.
LEMMA ProcessedRows ==
  ASSUME InboxInv, NEW r \in Replica, NEW e \in Event, ProcessEvent(r, e)
  PROVE  /\ \A row \in inbox' : \E old \in inbox :
              old.event = row.event /\ old.user = row.user /\ old.seq = row.seq
         /\ \A old \in inbox : \E row \in inbox' : row.event = old.event /\ row.user = old.user
         /\ \A row \in inbox : row \in inbox' \/ Resolved(row) \in inbox'
         /\ \A row \in inbox : row.resolved => row \in inbox'
<1> DEFINE R == marked[<<r, e>>]
<1>1. R \subseteq Row /\ inbox \subseteq Row
  BY DEF InboxInv, TypeOK
<1>2. inbox' = (inbox \ R) \cup {Resolved(row) : row \in R}
  BY DEF ProcessEvent, Resolved
<1>3. \A row \in R : ~ row.resolved /\ (row \in inbox \/ Resolved(row) \in inbox)
  BY DEF InboxInv, MarkedAreInserted
<1>4. ASSUME NEW row \in R
      PROVE  /\ Resolved(row).event = row.event /\ Resolved(row).user = row.user
             /\ Resolved(row).seq = row.seq /\ Resolved(row).resolved = TRUE
  BY <1>1, ResolvedRow
<1> HIDE DEF R
<1>5. \A row \in inbox' : \E old \in inbox :
        old.event = row.event /\ old.user = row.user /\ old.seq = row.seq
  <2> SUFFICES ASSUME NEW row \in inbox'
               PROVE  \E old \in inbox :
                        old.event = row.event /\ old.user = row.user /\ old.seq = row.seq
    OBVIOUS
  <2>1. CASE row \in inbox
    BY <2>1
  <2>2. CASE row \in {Resolved(m) : m \in R}
    <3>1. PICK m \in R : row = Resolved(m)
      BY <2>2
    <3>2. row.event = m.event /\ row.user = m.user /\ row.seq = m.seq
      BY <1>4, <3>1
    <3>3. CASE m \in inbox
      BY <3>2, <3>3
    <3>4. CASE Resolved(m) \in inbox
      BY <3>1, <3>4
    <3> QED BY <1>3, <3>3, <3>4
  <2> QED BY <1>2, <2>1, <2>2
<1>6. \A old \in inbox : \E row \in inbox' : row.event = old.event /\ row.user = old.user
  BY <1>2, <1>4
<1>7. \A row \in inbox : row \in inbox' \/ Resolved(row) \in inbox'
  BY <1>2
<1>8. \A row \in inbox : row.resolved => row \in inbox'
  BY <1>2, <1>3
<1> QED BY <1>5, <1>6, <1>7, <1>8

LEMMA ProcessingKeeps ==
  ASSUME InboxInv, TypeOK', NEW r \in Replica, NEW e \in Event, NEW t \in Step,
         Processing(r, e, t)
  PROVE  InboxInv'
<1> DEFINE R == marked[<<r, e>>]
<1>0. TypeOK /\ R \subseteq Row /\ inbox \subseteq Row
  BY DEF InboxInv, TypeOK
<1>1. /\ pc'[<<r, e>>] = t
      /\ \A s \in Replica, d \in Event : s # r \/ d # e => pc'[<<s, d>>] = pc[<<s, d>>]
      /\ pc[<<r, e>>] = "commit" /\ t \notin InWork
  BY <1>0, GotoType DEF Processing
<1>2. ProcessEvent(r, e) /\ UNCHANGED <<notified, lastSeq, drafts>>
  BY DEF Processing, ProcessEvent
<1>3. \A s \in Replica, d \in Event : marked'[<<s, d>>] \subseteq marked[<<s, d>>]
  BY <1>0, <1>2 DEF ProcessEvent, TypeOK
<1>4. WorksAlone'
  BY <1>1 DEF InboxInv, WorksAlone
<1>5. DraftsAreNew' /\ SequencesAreHeld'
  BY <1>1, <1>2 DEF InboxInv, DraftsAreNew, SequencesAreHeld, InWork
<1>6. RowsAreNumbered'
  BY <1>2, ProcessedRows DEF InboxInv, RowsAreNumbered
<1>7. MarkedAreInserted'
  <2>1. ASSUME NEW s \in Replica, NEW d \in Event, NEW row \in marked[<<s, d>>]
        PROVE  ~ row.resolved /\ (row \in inbox' \/ Resolved(row) \in inbox')
    <3>1. row \in Row
      BY <1>0, <2>1 DEF TypeOK
    <3>2. Resolved(row).resolved
      BY <3>1, ResolvedRow
    <3>3. ~ row.resolved /\ (row \in inbox \/ Resolved(row) \in inbox)
      BY <2>1 DEF InboxInv, MarkedAreInserted
    <3> QED BY <1>2, <3>2, <3>3, ProcessedRows
  <2> QED BY <1>3, <2>1 DEF MarkedAreInserted
<1>8. NotifiedHaveRows'
  BY <1>2, ProcessedRows DEF InboxInv, NotifiedHaveRows
<1>9. StepsFit'
  BY <1>1, <1>2 DEF InboxInv, StepsFit, InWork
<1>10. ProcessedLeaveTraces'
  <2>1. /\ processed' = processed \cup {e}
        /\ tombstones \subseteq tombstones'
        /\ Resolves(e) => TaskOf[e] \in tombstones'
    BY <1>2 DEF ProcessEvent
  <2>2. Notifies(e) => e \in notified
    BY <1>1 DEF InboxInv, StepsFit
  <2> QED BY <1>2, <2>1, <2>2 DEF InboxInv, ProcessedLeaveTraces
<1>11. NoDuplicateNotification'
  <2>1. inbox' = (inbox \ R) \cup {Resolved(row) : row \in R}
    BY <1>2 DEF ProcessEvent, Resolved
  <2>2. \A row \in R : row \in inbox \/ Resolved(row) \in inbox
    BY DEF InboxInv, MarkedAreInserted
  <2>3. \A row \in R : /\ Resolved(row).event = row.event /\ Resolved(row).user = row.user
                       /\ Resolved(Resolved(row)) = Resolved(row)
    BY <1>0, ResolvedRow DEF Resolved, Row
  <2> HIDE DEF R
  <2>4. \A a, b \in inbox : a.event = b.event /\ a.user = b.user => a = b
    BY DEF InboxInv, NoDuplicateNotification
  <2>5. ASSUME NEW a \in R, NEW b \in inbox \ R, a.event = b.event, a.user = b.user
        PROVE  Resolved(a) = b
    BY <2>2, <2>3, <2>4, <2>5
  <2>6. ASSUME NEW a \in R, NEW b \in R, a.event = b.event, a.user = b.user
        PROVE  Resolved(a) = Resolved(b)
    BY <2>2, <2>3, <2>4, <2>6
  <2>7. ASSUME NEW a \in inbox', NEW b \in inbox', a.event = b.event, a.user = b.user
        PROVE  a = b
    BY <2>1, <2>3, <2>4, <2>5, <2>6, <2>7
  <2> QED BY <2>7 DEF NoDuplicateNotification
<1> QED BY <1>4, <1>5, <1>6, <1>7, <1>8, <1>9, <1>10, <1>11 DEF InboxInv

LEMMA ClearingKeeps ==
  ASSUME InboxInv, TypeOK', NEW P, Clearing(P)
  PROVE  InboxInv'
<1>1. \A s \in Replica, d \in Event :
        IF <<s, d>> \in P
        THEN pc'[<<s, d>>] = "idle" /\ marked'[<<s, d>>] = {} /\ drafts'[<<s, d>>] = {}
        ELSE /\ pc'[<<s, d>>] = pc[<<s, d>>] /\ marked'[<<s, d>>] = marked[<<s, d>>]
             /\ drafts'[<<s, d>>] = drafts[<<s, d>>]
  BY ClearType DEF InboxInv, Clearing
<1>2. UNCHANGED <<processed, notified, tombstones, inbox, lastSeq>>
  BY DEF Clearing, core
<1>3. WorksAlone'
  BY <1>1 DEF InboxInv, WorksAlone, InWork
<1>4. DraftsAreNew'
  BY <1>1, <1>2 DEF InboxInv, DraftsAreNew
<1>5. SequencesAreHeld'
  <2>1. \A D : Apart({}, D) /\ Apart(D, {})
    BY DEF Apart
  <2> QED BY <1>1, <2>1 DEF InboxInv, SequencesAreHeld
<1>6. MarkedAreInserted'
  BY <1>1, <1>2 DEF InboxInv, MarkedAreInserted
<1>7. StepsFit'
  BY <1>1, <1>2 DEF InboxInv, StepsFit
<1>8. /\ RowsAreNumbered' /\ NotifiedHaveRows' /\ ProcessedLeaveTraces'
      /\ NoDuplicateNotification'
  BY <1>2 DEF InboxInv, RowsAreNumbered, NotifiedHaveRows, ProcessedLeaveTraces,
              NoDuplicateNotification
<1> QED BY <1>3, <1>4, <1>5, <1>6, <1>7, <1>8 DEF InboxInv

LEMMA InboxInit == Init => InboxInv
<1> SUFFICES ASSUME Init PROVE InboxInv
  OBVIOUS
<1>1. TypeOK
  BY InitTypes
<1>2. \A r \in Replica, e \in Event :
        pc[<<r, e>>] = "idle" /\ marked[<<r, e>>] = {} /\ drafts[<<r, e>>] = {}
  BY DEF Init
<1>3. processed = {} /\ notified = {} /\ inbox = {}
  BY DEF Init
<1> QED BY <1>1, <1>2, <1>3
        DEF InboxInv, WorksAlone, DraftsAreNew, SequencesAreHeld, Apart,
            RowsAreNumbered, MarkedAreInserted, NotifiedHaveRows, StepsFit,
            ProcessedLeaveTraces, NoDuplicateNotification, InWork

LEMMA InboxInvariant == Spec => []InboxInv
<1>1. Init => InboxInv
  BY InboxInit
<1>2. InboxInv /\ [Next]_vars => InboxInv'
  <2> SUFFICES ASSUME InboxInv, [Next]_vars PROVE InboxInv'
    OBVIOUS
  <2>1. TypeOK'
    BY TypeNext DEF InboxInv
  <2>2. Effect
    BY Effects
  <2> QED BY <2>1, <2>2, StillKeeps, MovesKeep, DraftingKeeps, InsertingKeeps,
             ProcessingKeeps, ClearingKeeps DEF Effect
<1> QED BY <1>1, <1>2, PTL DEF Spec

---------------------------------------------------------------------------
(* The theorems. *)

\* Types of the stream, the tables and the open transactions.
THEOREM TypeCorrect == Spec => []TypeOK
  BY InboxInvariant, PTL DEF InboxInv

\* However often an event is delivered, to whichever replicas, and wherever an
\* attempt stops, a user has one row of it (ProcessEventOnce,
\* CreateNotification).
THEOREM NobodyIsToldTwice == Spec => []NoDuplicateNotification
  BY InboxInvariant, PTL DEF InboxInv

\* An event marked as processed, which no redelivery handles again, has left its
\* rows and its tombstone (ProcessEventOnce, handleDomainNotificationEvent).
THEOREM ProcessedIsHandled == Spec => []ProcessedAreHandled
<1>1. InboxInv => ProcessedAreHandled
  BY DEF InboxInv, TypeOK, ProcessedLeaveTraces, NotifiedHaveRows, ProcessedAreHandled, Handled
<1> QED BY <1>1, InboxInvariant, PTL

LEMMA CursorStep ==
  ASSUME InboxInv, [Next]_vars, NEW row \in inbox'
  PROVE  \/ \E old \in inbox : old.event = row.event /\ old.user = row.user
         \/ \A old \in inbox : old.user = row.user => old.seq < row.seq
<1>1. Effect
  BY Effects
<1>2. CASE inbox' = inbox
  BY <1>2
<1>3. ASSUME NEW r \in Replica, NEW e \in Event, NEW t, Inserting(r, e, t)
      PROVE  \/ \E old \in inbox : old.event = row.event /\ old.user = row.user
             \/ \A old \in inbox : old.user = row.user => old.seq < row.seq
  <2>1. row \in inbox \/ row \in drafts[<<r, e>>]
    BY <1>3 DEF Inserting, CreateNotification
  <2> QED BY <1>3, <2>1, InsertedRows
<1>4. ASSUME NEW r \in Replica, NEW e \in Event, ProcessEvent(r, e)
      PROVE  \E old \in inbox : old.event = row.event /\ old.user = row.user
  BY <1>4, ProcessedRows
<1> QED BY <1>1, <1>2, <1>3, <1>4
        DEF Effect, Still, Clearing, Drafting, Moves, Processing, core

\* A stream that has seen a user's rows up to a number has not missed one, since
\* rows that come later have higher numbers (CreateNotification, ListInboxAfter).
THEOREM CursorsSkipNothing == Spec => CursorMissesNothing
<1>1. InboxInv /\ [Next]_vars =>
        [\A row \in inbox' :
           \/ \E old \in inbox : old.event = row.event /\ old.user = row.user
           \/ \A old \in inbox : old.user = row.user => old.seq < row.seq]_vars
  BY CursorStep
<1> QED BY <1>1, InboxInvariant, PTL DEF Spec, CursorMissesNothing

=============================================================================
