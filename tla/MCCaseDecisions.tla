-------------------------- MODULE MCCaseDecisions --------------------------
(***************************************************************************)
(* Small instances of CaseDecisions: requests one at a time, two processes *)
(* that dispatch.                                                          *)
(***************************************************************************)
EXTENDS CaseDecisions
=============================================================================
