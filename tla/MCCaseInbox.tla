---------------------------- MODULE MCCaseInbox ----------------------------
(***************************************************************************)
(* Small instances of CaseInbox: two projectors and two requests at a      *)
(* time.                                                                   *)
(***************************************************************************)
EXTENDS CaseInbox
=============================================================================
