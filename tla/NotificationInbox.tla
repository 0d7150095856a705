-------------------------- MODULE NotificationInbox --------------------------
(***************************************************************************)
(* Events about tasks become rows of users' inboxes in notification-service*)
(* (events.Consumer, handleDomainNotificationEvent, ProcessEventOnce,      *)
(* Accept, CreateNotification, ResolveEntity).                             *)
(*                                                                         *)
(* JetStream (external) redelivers an event until it is acknowledged or    *)
(* MaxDeliver is reached.  A replica handles the events of one subject in  *)
(* turn.  Its transaction holds the event's advisory lock and leaves a     *)
(* tombstone for a completed or reassigned task; the notification is       *)
(* created by a second transaction, which commits before the first.  A     *)
(* transaction's reads see what others have committed, nothing else.       *)
(***************************************************************************)
EXTENDS Integers, FiniteSets

CONSTANTS
  Event, Task, User, Replica,
  Kind,        \* the subject of an event
  TaskOf,      \* the task it is about
  Recipients,  \* the users its selectors resolve to
  MaxDeliver,  \* consumerMaxDeliver
  MaxFaults    \* bound: failed steps, late handlers and crashes

Kinds == {"assigned", "reassigned", "completed"}

ASSUME ConstantsAssumption ==
  /\ Kind \in [Event -> Kinds]
  /\ TaskOf \in [Event -> Task]
  /\ Recipients \in [Event -> SUBSET User]
  /\ MaxDeliver \in Nat \ {0} /\ MaxFaults \in Nat

Resolves(e) == Kind[e] # "assigned"
Notifies(e) == Kind[e] # "completed" /\ Recipients[e] # {}
Warns(e) == Kind[e] # "completed" /\ Recipients[e] = {}

VARIABLES
  delivered,   \* NumDelivered of each event
  acked,       \* acknowledged events
  deadLetters, \* events published under arda.dlq
  processed,   \* noti_event_inbox: events with processed_at
  notified,    \* noti_notifications: events by idempotency_key
  warned,      \* noti_recipient_warnings
  tombstones,  \* noti_entity_resolutions
  inbox,       \* noti_inbox
  lastSeq,     \* noti_user_seq
  pc,          \* what replica r does next for event e
  marked,      \* rows resolved in the transaction of r for e
  drafts,      \* rows inserted in the transaction of its notification
  faults

stream == <<delivered, acked, deadLetters>>
tables == <<processed, notified, warned, tombstones, inbox, lastSeq>>
open == <<marked, drafts>>
vars == <<stream, tables, pc, open, faults>>

Row == [event : Event, user : User, seq : Nat, resolved : BOOLEAN]
InWork == {"resolve", "notify", "commitNotify", "commit"}
Step == InWork \cup {"idle", "handle", "warn", "ack", "deadLetter"}

TypeOK ==
  /\ delivered \in [Event -> 0 .. MaxDeliver]
  /\ acked \subseteq Event /\ deadLetters \subseteq Event
  /\ processed \subseteq Event /\ notified \subseteq Event /\ warned \subseteq Event
  /\ tombstones \subseteq Task
  /\ inbox \subseteq Row
  /\ lastSeq \in [User -> Nat]
  /\ pc \in [Replica \X Event -> Step]
  /\ marked \in [Replica \X Event -> SUBSET Row]
  /\ drafts \in [Replica \X Event -> SUBSET Row]
  /\ faults \in 0 .. MaxFaults

Init ==
  /\ delivered = [e \in Event |-> 0]
  /\ acked = {} /\ deadLetters = {}
  /\ processed = {} /\ notified = {} /\ warned = {} /\ tombstones = {}
  /\ inbox = {}
  /\ lastSeq = [u \in User |-> 0]
  /\ pc = [x \in Replica \X Event |-> "idle"]
  /\ marked = [x \in Replica \X Event |-> {}]
  /\ drafts = [x \in Replica \X Event |-> {}]
  /\ faults = 0

Goto(r, e, step) == pc' = [pc EXCEPT ![<<r, e>>] = step]
Fault == faults < MaxFaults /\ faults' = faults + 1

---------------------------------------------------------------------------
(* JetStream and the consumer's loop. *)

\* QueueSubscribeSync: one replica of the group gets the event.  The last
\* delivery is not handled any more.
NextMsg(r, e) ==
  /\ \A f \in Event : Kind[f] = Kind[e] => pc[<<r, f>>] = "idle"
  /\ e \notin acked
  /\ delivered[e] < MaxDeliver
  /\ delivered' = [delivered EXCEPT ![e] = @ + 1]
  /\ Goto(r, e, IF delivered[e] + 1 = MaxDeliver THEN "deadLetter" ELSE "handle")
  /\ UNCHANGED <<acked, deadLetters, tables, open>>

InHand(e) == \E r \in Replica : pc[<<r, e>>] # "idle"

\* The first delivery, or the next once consumerAckWait has passed: without an
\* answer, or as the delay of a Nak.
Deliver(r, e) ==
  /\ ~ InHand(e)
  /\ NextMsg(r, e)
  /\ UNCHANGED faults

\* consumerAckWait has passed while the event is still being handled.
DeliverLate(r, e) ==
  /\ InHand(e)
  /\ NextMsg(r, e)
  /\ Fault

PublishDLQ(e) ==
  /\ deadLetters' = deadLetters \cup {e}
  /\ UNCHANGED <<delivered, acked, tables, open>>

DeadLetter(r, e) ==
  /\ pc[<<r, e>>] = "deadLetter"
  /\ PublishDLQ(e)
  /\ Goto(r, e, "ack")
  /\ UNCHANGED faults

AckSync(r, e) ==
  /\ pc[<<r, e>>] = "ack"
  /\ acked' = acked \cup {e}
  /\ Goto(r, e, "idle")
  /\ UNCHANGED <<delivered, deadLetters, tables, open, faults>>

---------------------------------------------------------------------------
(* The handler. *)

\* What follows the event's transaction; publishEntityResolved, which tells the
\* open streams, is part of it and may fail with it.
Last(e) == IF Warns(e) THEN "warn" ELSE "ack"

\* Without recipients there is only a warning; a reassignment leaves its
\* tombstone first.
Handle(r, e) ==
  /\ pc[<<r, e>>] = "handle"
  /\ IF Warns(e) /\ ~ Resolves(e)
     THEN Goto(r, e, "warn")
     ELSE /\ \A s \in Replica : pc[<<s, e>>] \notin InWork
          /\ Goto(r, e, CASE e \in processed -> Last(e)
                          [] e \notin processed /\ Resolves(e) -> "resolve"
                          [] OTHER -> "notify")
  /\ UNCHANGED <<stream, tables, open, faults>>

\* ResolveEntity: the upsert waits for another open one of the same task, and
\* the update finds the rows committed by then.
Resolve(r, e) ==
  /\ pc[<<r, e>>] = "resolve"
  /\ \A s \in Replica, f \in Event :
       /\ TaskOf[f] = TaskOf[e] /\ Resolves(f)
       => pc[<<s, f>>] \notin {"notify", "commitNotify", "commit"}
  /\ marked' = [marked EXCEPT ![<<r, e>>] =
       {row \in inbox : TaskOf[row.event] = TaskOf[e] /\ ~ row.resolved}]
  /\ Goto(r, e, IF Notifies(e) THEN "notify" ELSE "commit")
  /\ UNCHANGED <<stream, tables, drafts, faults>>

\* Mutant: the sequence is read without holding its row.
SeqUnheld(u) == TRUE

\* The update of noti_user_seq holds the user's row until it is committed.
SeqFree(u) ==
  \A s \in Replica, f \in Event : \A row \in drafts[<<s, f>>] : row.user # u

DraftsOf(e) ==
  {[event |-> e, user |-> u, seq |-> lastSeq[u] + 1,
    resolved |-> TaskOf[e] \in tombstones] : u \in Recipients[e]}

\* Mutant: the notification is inserted whether or not its key exists.
NotifyAgain(r, e) ==
  /\ pc[<<r, e>>] = "notify"
  /\ \A u \in Recipients[e] : SeqFree(u)
  /\ drafts' = [drafts EXCEPT ![<<r, e>>] = DraftsOf(e)]
  /\ Goto(r, e, "commitNotify")
  /\ UNCHANGED <<stream, tables, marked, faults>>

\* CreateNotification up to its commit: nothing for a known idempotency_key,
\* else a row for each recipient, resolved when its task has a tombstone.
Notify(r, e) ==
  /\ pc[<<r, e>>] = "notify"
  /\ IF e \in notified
     THEN /\ Goto(r, e, "commit")
          /\ UNCHANGED drafts
     ELSE /\ \A u \in Recipients[e] : SeqFree(u)
          /\ drafts' = [drafts EXCEPT ![<<r, e>>] = DraftsOf(e)]
          /\ Goto(r, e, "commitNotify")
  /\ UNCHANGED <<stream, tables, marked, faults>>

CreateNotification(r, e) ==
  /\ notified' = notified \cup {e}
  /\ inbox' = inbox \cup drafts[<<r, e>>]
  /\ lastSeq' = [u \in User |-> IF u \in Recipients[e] THEN lastSeq[u] + 1 ELSE lastSeq[u]]
  /\ drafts' = [drafts EXCEPT ![<<r, e>>] = {}]
  /\ UNCHANGED <<stream, processed, warned, tombstones>>

CommitNotify(r, e) ==
  /\ pc[<<r, e>>] = "commitNotify"
  /\ CreateNotification(r, e)
  /\ Goto(r, e, "commit")
  /\ UNCHANGED <<marked, faults>>

ProcessEvent(r, e) ==
  LET rows == marked[<<r, e>>]
  IN /\ processed' = processed \cup {e}
     /\ tombstones' = IF Resolves(e) THEN tombstones \cup {TaskOf[e]} ELSE tombstones
     /\ inbox' = (inbox \ rows) \cup {[row EXCEPT !.resolved = TRUE] : row \in rows}
     /\ marked' = [marked EXCEPT ![<<r, e>>] = {}]
     /\ UNCHANGED <<stream, notified, warned, lastSeq, drafts>>

Commit(r, e) ==
  /\ pc[<<r, e>>] = "commit"
  /\ ProcessEvent(r, e)
  /\ Goto(r, e, Last(e))
  /\ UNCHANGED faults

RecordRecipientWarning(r, e) ==
  /\ pc[<<r, e>>] = "warn"
  /\ warned' = warned \cup {e}
  /\ Goto(r, e, "ack")
  /\ UNCHANGED <<stream, processed, notified, tombstones, inbox, lastSeq, open, faults>>

---------------------------------------------------------------------------
(* Faults. *)

Clear(P) ==
  /\ pc' = [x \in DOMAIN pc |-> IF x \in P THEN "idle" ELSE pc[x]]
  /\ marked' = [x \in DOMAIN marked |-> IF x \in P THEN {} ELSE marked[x]]
  /\ drafts' = [x \in DOMAIN drafts |-> IF x \in P THEN {} ELSE drafts[x]]

\* Mutant: an event whose handler failed is acknowledged.
FailAcked(r, e) ==
  /\ pc[<<r, e>>] # "idle"
  /\ Fault
  /\ Clear({<<r, e>>})
  /\ acked' = acked \cup {e}
  /\ UNCHANGED <<delivered, deadLetters, tables>>

\* A step fails: open transactions roll back, the event is refused or left
\* unacknowledged.
Fail(r, e) ==
  /\ pc[<<r, e>>] # "idle"
  /\ Fault
  /\ Clear({<<r, e>>})
  /\ UNCHANGED <<stream, tables>>

\* A commit or a publication takes effect and its answer is lost.
Unanswered(r, e) ==
  /\ Fault
  /\ \/ /\ pc[<<r, e>>] = "commitNotify"
        /\ CreateNotification(r, e)
        /\ marked' = [marked EXCEPT ![<<r, e>>] = {}]
     \/ pc[<<r, e>>] = "commit" /\ ProcessEvent(r, e)
     \/ pc[<<r, e>>] = "deadLetter" /\ PublishDLQ(e)
  /\ Goto(r, e, "idle")

Crash(r) ==
  /\ \E e \in Event : pc[<<r, e>>] # "idle"
  /\ Fault
  /\ Clear({r} \X Event)
  /\ UNCHANGED <<stream, tables>>

---------------------------------------------------------------------------

Progress(r, e) ==
  \/ DeadLetter(r, e) \/ AckSync(r, e) \/ Handle(r, e) \/ Resolve(r, e)
  \/ Notify(r, e) \/ CommitNotify(r, e) \/ Commit(r, e)
  \/ RecordRecipientWarning(r, e)

\* Nothing is left to deliver.
Rest ==
  /\ \A e \in Event : e \in acked \/ delivered[e] = MaxDeliver
  /\ \A x \in DOMAIN pc : pc[x] = "idle"
  /\ UNCHANGED vars

Next ==
  \/ \E r \in Replica, e \in Event :
       \/ Deliver(r, e) \/ DeliverLate(r, e) \/ Progress(r, e)
       \/ Fail(r, e) \/ Unanswered(r, e)
  \/ \E r \in Replica : Crash(r)
  \/ Rest

Spec == Init /\ [][Next]_vars

\* The server delivers what it may, replicas go on; deliveries are bounded, so
\* that no event can keep another from its turn.
FairSpec ==
  /\ Spec
  /\ WF_vars(\E r \in Replica, e \in Event : Deliver(r, e))
  /\ \A r \in Replica : WF_vars(\E e \in Event : Progress(r, e))

---------------------------------------------------------------------------
(* Properties. *)

\* A user is told of an event once, however often it was delivered and
\* wherever an earlier attempt stopped between the two commits.
NoDuplicateNotification ==
  \A x, y \in inbox : x.event = y.event /\ x.user = y.user => x = y

\* A stream that has caught up to event_seq n (ListInboxAfter) misses nothing:
\* rows that are committed later have a higher event_seq than all rows of the
\* user before them, whichever replicas wrote them at the same time.
CursorMissesNothing ==
  [][\A row \in inbox' :
       \/ \E old \in inbox : old.event = row.event /\ old.user = row.user
       \/ \A old \in inbox : old.user = row.user => old.seq < row.seq]_vars

\* Handled: with a row for each recipient and, of a completed or reassigned
\* task, its tombstone.
Handled(e) ==
  /\ e \in processed
  /\ Notifies(e) => \A u \in Recipients[e] : \E row \in inbox : row.event = e /\ row.user = u
  /\ Resolves(e) => TaskOf[e] \in tombstones

\* The last delivery went by without a dead letter: every delivery of the event
\* had a fault, the publication of the last one among them.
GivenUp(e) ==
  /\ delivered[e] = MaxDeliver /\ e \notin acked
  /\ ~ InHand(e)
  /\ faults >= MaxDeliver

\* Every event is handled, set aside with a warning or dead-lettered at last,
\* unless it is given up.  "Leaving the message unacknowledged keeps it
\* redeliverable once the dead-letter publish succeeds" (consume) is not what
\* happens then: only the last delivery is published under arda.dlq, and the
\* server does not deliver the event again.
EventsSettle ==
  <>(\A e \in Event : Handled(e) \/ e \in warned \cup deadLetters \/ GivenUp(e))

\* "A completion event that arrives before its assignment event cannot recreate
\* an actionable notification later" (the migration of
\* noti_entity_resolutions), "closing the race" (ResolveEntity).
CompletedTaskIsQuiet ==
  \A row \in inbox, e \in processed :
    Kind[e] = "completed" /\ TaskOf[e] = TaskOf[row.event] => row.resolved

=============================================================================
