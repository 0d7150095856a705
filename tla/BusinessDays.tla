---------------------------- MODULE BusinessDays ----------------------------
(***************************************************************************)
(* What the end-of-day of platform-service promises, with no locks, gates, *)
(* checkpoints, crashes or lost answers: the tasks of a business day are   *)
(* executed, any number of times, each after those it depends on, and the  *)
(* date moves on once every required one has been.  EndOfDay implements it.*)
(***************************************************************************)
EXTENDS Naturals

CONSTANTS
  Task,      \* a step of a tenant
  Prior,     \* the tasks each task comes after
  Required,  \* tasks a day cannot be closed without
  LastDate   \* the last date to be closed

VARIABLES
  date,      \* the business date
  executed   \* <<date, task>> executed

Init ==
  /\ date = 1
  /\ executed = {}

\* Again, or late, for a day that is over, is not excluded.
Execute(d, k) ==
  /\ d <= date
  /\ \A j \in Prior[k] : <<d, j>> \in executed
  /\ executed' = executed \cup {<<d, k>>}
  /\ UNCHANGED date

Advance ==
  /\ date <= LastDate
  /\ \A k \in Required : <<date, k>> \in executed
  /\ date' = date + 1
  /\ UNCHANGED executed

Next ==
  \/ Advance
  \/ \E d \in 1 .. LastDate, k \in Task : Execute(d, k)

Spec == Init /\ [][Next]_<<date, executed>>

=============================================================================
