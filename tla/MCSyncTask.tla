----------------------------- MODULE MCSyncTask -----------------------------
(***************************************************************************)
(* Small instances of SyncTask for TLC.                                    *)
(***************************************************************************)
EXTENDS SyncTask

CONSTANTS f, g
=============================================================================
