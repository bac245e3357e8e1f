----------------------- MODULE MCConfirmationMonitor -----------------------
(***************************************************************************)
(* One signature monitored twice, so that the polls and the timer of the   *)
(* first monitoring can meet the second one, and two polls under way, so   *)
(* that their answers cross.  The target is the default, `confirmed`,      *)
(* which is not a terminal status.                                         *)
(***************************************************************************)
EXTENDS ConfirmationMonitor

CONSTANT s1
=============================================================================
