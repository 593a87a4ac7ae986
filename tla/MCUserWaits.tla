---------------------------- MODULE MCUserWaits ----------------------------
(***************************************************************************)
(* UserWaits with one thread of tasks and one of commands.                 *)
(***************************************************************************)
EXTENDS UserWaits
=============================================================================
