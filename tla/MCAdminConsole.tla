---------------------------- MODULE MCAdminConsole ----------------------------
(***************************************************************************)
(* A small instance of AdminConsole for TLC.                               *)
(***************************************************************************)
EXTENDS AdminConsole

\* Three runs, the first with two reviews.
MCRunOf == <<"run1", "run1", "run2", "run3">>
================================================================================
