---------------------------- MODULE MCLintService ----------------------------
(***************************************************************************)
(* Small instances of LintService for TLC.                                 *)
(***************************************************************************)
EXTENDS LintService
=============================================================================
