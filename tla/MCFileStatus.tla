---------------------------- MODULE MCFileStatus ----------------------------
(***************************************************************************)
(* Small instances of FileStatus for TLC.                                  *)
(***************************************************************************)
EXTENDS FileStatus

CONSTANTS f1, f2, d1, d2

OneDir == [f \in Files |-> d1]
TwoDirs == [f \in Files |-> IF f = f1 THEN d1 ELSE d2]

(***************************************************************************)
(* What the comments say and the code does not keep.  "the full check will *)
(* have to wait till the next loop" (koFileStatusService.p.py:425-426),    *)
(* and "Asynchronously causes a status check on all opened/referenced      *)
(* files" (koIFileStatusService.idl:134): a full check that was asked for, *)
(* when it comes, covers every file.                                       *)
(***************************************************************************)
FullCheckReachesAll ==
    [][WatchDirs /\ full /\ passReason > BACKGROUND /\ ~failed => files = Files]_vars
=============================================================================
