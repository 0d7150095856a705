------------------------- MODULE MCNotificationInbox -------------------------
(***************************************************************************)
(* Small instances of NotificationInbox: a task that is assigned and then  *)
(* reassigned or completed, and one that is reassigned to nobody.          *)
(***************************************************************************)
EXTENDS NotificationInbox, TLC

CONSTANTS assigned, reassigned, completed, nobody, t1, t2, u1

MCKind ==
  [e \in Event |-> CASE e = assigned -> "assigned"
                     [] e = completed -> "completed"
                     [] OTHER -> "reassigned"]
MCTaskOf == [e \in Event |-> IF e = nobody THEN t2 ELSE t1]
MCRecipients == [e \in Event |-> IF e \in {assigned, reassigned} THEN {u1} ELSE {}]

=============================================================================
