--------------------------- MODULE Document_proofs ---------------------------
(***************************************************************************)
(* Proofs about Document, for any texts.                                   *)
(***************************************************************************)
EXTENDS Document, TLAPS

USE DEF files, document

(***************************************************************************)
(* The types; and a document without a view is alive only as long as the   *)
(* thread or a question holds it.                                          *)
(***************************************************************************)
LEMMA TypeStep == TypeOK /\ [Next]_vars => TypeOK'
<1> SUFFICES ASSUME TypeOK, [Next]_vars PROVE TypeOK'
  OBVIOUS
<1>1. CASE OpenAsks
  BY <1>1, DocumentAssumption DEF OpenAsks, TypeOK, AnyText, Dialogs
<1>2. CASE Open
  BY <1>2, DocumentAssumption DEF Open, Load, Holds, TypeOK, AnyText, Dialogs
<1>3. CASE RestoreRefused
  BY <1>3, DocumentAssumption DEF RestoreRefused, Load, Holds, TypeOK, AnyText, Dialogs
<1>4. CASE Restore
  BY <1>4, DocumentAssumption DEF Restore, Holds, TypeOK, AnyText, Dialogs
<1>5. CASE BackToSavePoint
  BY <1>5, DocumentAssumption DEF BackToSavePoint, UserMay, TypeOK, AnyText, Dialogs
<1>6. CASE Revert
  BY <1>6, DocumentAssumption DEF Revert, UserMay, Load, Holds, TypeOK, AnyText, Dialogs
<1>7. CASE CheckDisk
  BY <1>7, DocumentAssumption DEF CheckDisk, UserMay, TypeOK, AnyText, Dialogs
<1>8. CASE ReloadAccepted
  BY <1>8, DocumentAssumption DEF ReloadAccepted, Load, Holds, TypeOK, AnyText, Dialogs
<1>9. CASE ReloadRefused
  BY <1>9, DocumentAssumption DEF ReloadRefused, TypeOK, AnyText, Dialogs
<1>10. CASE SaveCommand
  BY <1>10, DocumentAssumption DEF SaveCommand, UserMay, Save, DiskWritten, TypeOK, AnyText, Dialogs
<1>11. CASE OverwriteAccepted
  BY <1>11, DocumentAssumption DEF OverwriteAccepted, DiskWritten, TypeOK, AnyText, Dialogs
<1>12. CASE OverwriteRefused
  BY <1>12, DocumentAssumption DEF OverwriteRefused, TypeOK, AnyText, Dialogs
<1>13. CASE SaveFails
  BY <1>13, DocumentAssumption DEF SaveFails, UserMay, TypeOK, AnyText, Dialogs
<1>14. CASE Write
  BY <1>14, DocumentAssumption DEF Write, DiskWritten, Holds, TypeOK, AnyText, Dialogs
<1>15. CASE WriteFails
  BY <1>15, DocumentAssumption DEF WriteFails, DiskWritten, TypeOK, AnyText, Dialogs
<1>16. CASE Close
  BY <1>16, DocumentAssumption DEF Close, UserMay, Release, TypeOK, AnyText, Dialogs
<1>17. CASE CloseSaves
  BY <1>17, DocumentAssumption DEF CloseSaves, Save, DiskWritten, TypeOK, AnyText, Dialogs
<1>18. CASE CloseDiscards
  BY <1>18, DocumentAssumption DEF CloseDiscards, Release, TypeOK, AnyText, Dialogs
<1>19. CASE CloseCancelled
  BY <1>19, DocumentAssumption DEF CloseCancelled, TypeOK, AnyText, Dialogs
<1>20. CASE List
  BY <1>20, DocumentAssumption DEF List, TypeOK, AnyText, Dialogs
<1>21. CASE Test
  BY <1>21, DocumentAssumption DEF Test, ThreadGoes, TypeOK, AnyText, Dialogs
<1>22. CASE AutoSave
  BY <1>22, DocumentAssumption DEF AutoSave, ThreadGoes, TypeOK, AnyText, Dialogs
<1>23. CASE Crash
  BY <1>23, DocumentAssumption DEF Crash, Holds, TypeOK, AnyText, Dialogs
<1>24. ASSUME NEW t \in Texts, Edit(t) PROVE TypeOK'
  BY <1>24, DocumentAssumption DEF Edit, UserMay, TypeOK, AnyText, Dialogs
<1>25. ASSUME NEW t \in Texts, External(t) PROVE TypeOK'
  BY <1>25, DocumentAssumption DEF External, DiskWritten, TypeOK, AnyText, Dialogs
<1>26. CASE UNCHANGED vars
  BY <1>26 DEF vars, TypeOK, AnyText, Dialogs
<1> QED
  BY <1>1, <1>2, <1>3, <1>4, <1>5, <1>6, <1>7, <1>8, <1>9, <1>10, <1>11,
     <1>12, <1>13, <1>14, <1>15, <1>16, <1>17, <1>18, <1>19, <1>20, <1>21,
     <1>22, <1>23, <1>24, <1>25, <1>26
  DEF Next, Opening, Editing, Checking, Writing, Saving, Closing, Thread, World

(***************************************************************************)
(* TypeOK holds in every behaviour.                                        *)
(***************************************************************************)
THEOREM DocumentTypeCorrect == Spec => []TypeOK
<1>1. Init => TypeOK
  BY DocumentAssumption DEF Init, TypeOK, AnyText, Dialogs
<1> QED
  BY <1>1, TypeStep, PTL DEF Spec

(***************************************************************************)
(* The save point: at it the buffer is its text, and away from it the      *)
(* document is dirty.                                                      *)
(***************************************************************************)
PointOK == atSavePoint => buffer = savePoint

LEMMA PointStep ==
    TypeOK /\ PointOK /\ EditsAreDirty /\ [Next]_vars => PointOK' /\ EditsAreDirty'
<1> SUFFICES ASSUME TypeOK, PointOK, EditsAreDirty, [Next]_vars
             PROVE  PointOK' /\ EditsAreDirty'
  OBVIOUS
<1>1. CASE OpenAsks
  BY <1>1 DEF OpenAsks, PointOK, EditsAreDirty, TypeOK
<1>2. CASE Open
  BY <1>2 DEF Open, Load, Holds, PointOK, EditsAreDirty, TypeOK
<1>3. CASE RestoreRefused
  BY <1>3 DEF RestoreRefused, Load, Holds, PointOK, EditsAreDirty, TypeOK
<1>4. CASE Restore
  BY <1>4 DEF Restore, Holds, PointOK, EditsAreDirty, TypeOK
<1>5. CASE BackToSavePoint
  BY <1>5 DEF BackToSavePoint, UserMay, PointOK, EditsAreDirty, TypeOK
<1>6. CASE Revert
  BY <1>6 DEF Revert, UserMay, Load, Holds, PointOK, EditsAreDirty, TypeOK
<1>7. CASE CheckDisk
  <2>1. isDirty => isDirty'
    BY <1>7 DEF CheckDisk
  <2>2. UNCHANGED <<view, buffer, savePoint, atSavePoint>>
    BY <1>7 DEF CheckDisk
  <2> QED
    BY <2>1, <2>2 DEF PointOK, EditsAreDirty
<1>8. CASE ReloadAccepted
  BY <1>8 DEF ReloadAccepted, Load, Holds, PointOK, EditsAreDirty, TypeOK
<1>9. CASE ReloadRefused
  BY <1>9 DEF ReloadRefused, PointOK, EditsAreDirty, TypeOK
<1>10. CASE SaveCommand
  BY <1>10 DEF SaveCommand, UserMay, Save, DiskWritten, PointOK, EditsAreDirty, TypeOK
<1>11. CASE OverwriteAccepted
  BY <1>11 DEF OverwriteAccepted, DiskWritten, PointOK, EditsAreDirty, TypeOK
<1>12. CASE OverwriteRefused
  BY <1>12 DEF OverwriteRefused, PointOK, EditsAreDirty, TypeOK
<1>13. CASE SaveFails
  BY <1>13 DEF SaveFails, UserMay, PointOK, EditsAreDirty, TypeOK
<1>14. CASE Write
  BY <1>14 DEF Write, DiskWritten, Holds, PointOK, EditsAreDirty, TypeOK
<1>15. CASE WriteFails
  BY <1>15 DEF WriteFails, DiskWritten, PointOK, EditsAreDirty, TypeOK
<1>16. CASE Close
  BY <1>16 DEF Close, UserMay, Release, PointOK, EditsAreDirty, TypeOK
<1>17. CASE CloseSaves
  BY <1>17 DEF CloseSaves, Save, DiskWritten, PointOK, EditsAreDirty, TypeOK
<1>18. CASE CloseDiscards
  BY <1>18 DEF CloseDiscards, Release, PointOK, EditsAreDirty, TypeOK
<1>19. CASE CloseCancelled
  BY <1>19 DEF CloseCancelled, PointOK, EditsAreDirty, TypeOK
<1>20. CASE List
  BY <1>20 DEF List, PointOK, EditsAreDirty, TypeOK
<1>21. CASE Test
  BY <1>21 DEF Test, ThreadGoes, PointOK, EditsAreDirty, TypeOK
<1>22. CASE AutoSave
  BY <1>22 DEF AutoSave, ThreadGoes, PointOK, EditsAreDirty, TypeOK
<1>23. CASE Crash
  BY <1>23 DEF Crash, Holds, PointOK, EditsAreDirty, TypeOK
<1>24. ASSUME NEW t \in Texts, Edit(t) PROVE PointOK' /\ EditsAreDirty'
  BY <1>24 DEF Edit, UserMay, PointOK, EditsAreDirty, TypeOK
<1>25. ASSUME NEW t \in Texts, External(t) PROVE PointOK' /\ EditsAreDirty'
  BY <1>25 DEF External, DiskWritten, PointOK, EditsAreDirty, TypeOK
<1>26. CASE UNCHANGED vars
  BY <1>26 DEF vars, PointOK, EditsAreDirty, TypeOK
<1> QED
  BY <1>1, <1>2, <1>3, <1>4, <1>5, <1>6, <1>7, <1>8, <1>9, <1>10, <1>11,
     <1>12, <1>13, <1>14, <1>15, <1>16, <1>17, <1>18, <1>19, <1>20, <1>21,
     <1>22, <1>23, <1>24, <1>25, <1>26
  DEF Next, Opening, Editing, Checking, Writing, Saving, Closing, Thread, World

(***************************************************************************)
(* No edit since the last save is closed without a question.               *)
(***************************************************************************)
THEOREM EditsCorrect == Spec => []EditsAreDirty
<1>1. Init => PointOK /\ EditsAreDirty
  BY DEF Init, PointOK, EditsAreDirty
<1> QED
  BY <1>1, DocumentTypeCorrect, PointStep, PTL DEF Spec

(***************************************************************************)
(* What the user knows to be in the file.  As long as nothing was kept     *)
(* against it, that is the text of the save point, except while the user   *)
(* is asked.  A file that agrees with the digest holds what the user knows.*)
(***************************************************************************)
KnownOK ==
    view = "open" =>
        /\ main \in {"idle", "close"} /\ ~kept => savePoint = known /\ lastmd5 = known
        /\ main # "writing" /\ disk = lastmd5 => disk = known
        /\ main = "overwrite" => disk = known

LEMMA KnownStep == TypeOK /\ KnownOK /\ [Next]_vars => KnownOK'
<1> SUFFICES ASSUME TypeOK, KnownOK, [Next]_vars PROVE KnownOK'
  OBVIOUS
<1>1. CASE OpenAsks
  BY <1>1 DEF OpenAsks, KnownOK, TypeOK
<1>2. CASE Open
  BY <1>2 DEF Open, Load, Holds, KnownOK, TypeOK
<1>3. CASE RestoreRefused
  BY <1>3 DEF RestoreRefused, Load, Holds, KnownOK, TypeOK
<1>4. CASE Restore
  BY <1>4 DEF Restore, Holds, KnownOK, TypeOK
<1>5. CASE BackToSavePoint
  BY <1>5 DEF BackToSavePoint, UserMay, KnownOK, TypeOK
<1>6. CASE Revert
  BY <1>6 DEF Revert, UserMay, Load, Holds, KnownOK, TypeOK
<1>7. CASE CheckDisk
  BY <1>7 DEF CheckDisk, UserMay, KnownOK, TypeOK
<1>8. CASE ReloadAccepted
  BY <1>8 DEF ReloadAccepted, Load, Holds, KnownOK, TypeOK
<1>9. CASE ReloadRefused
  BY <1>9 DEF ReloadRefused, KnownOK, TypeOK
<1>10. CASE SaveCommand
  BY <1>10 DEF SaveCommand, UserMay, Save, DiskWritten, KnownOK, TypeOK
<1>11. CASE OverwriteAccepted
  BY <1>11 DEF OverwriteAccepted, DiskWritten, KnownOK, TypeOK
<1>12. CASE OverwriteRefused
  BY <1>12 DEF OverwriteRefused, KnownOK, TypeOK
<1>13. CASE SaveFails
  BY <1>13 DEF SaveFails, UserMay, KnownOK, TypeOK
<1>14. CASE Write
  BY <1>14 DEF Write, DiskWritten, Holds, KnownOK, TypeOK
<1>15. CASE WriteFails
  BY <1>15 DEF WriteFails, DiskWritten, KnownOK, TypeOK
<1>16. CASE Close
  BY <1>16 DEF Close, UserMay, Release, KnownOK, TypeOK
<1>17. CASE CloseSaves
  BY <1>17 DEF CloseSaves, Save, DiskWritten, KnownOK, TypeOK
<1>18. CASE CloseDiscards
  BY <1>18 DEF CloseDiscards, Release, KnownOK, TypeOK
<1>19. CASE CloseCancelled
  BY <1>19 DEF CloseCancelled, KnownOK, TypeOK
<1>20. CASE List
  BY <1>20 DEF List, KnownOK, TypeOK
<1>21. CASE Test
  BY <1>21 DEF Test, ThreadGoes, KnownOK, TypeOK
<1>22. CASE AutoSave
  BY <1>22 DEF AutoSave, ThreadGoes, KnownOK, TypeOK
<1>23. CASE Crash
  BY <1>23 DEF Crash, Holds, KnownOK, TypeOK
<1>24. ASSUME NEW t \in Texts, Edit(t) PROVE KnownOK'
  BY <1>24 DEF Edit, UserMay, KnownOK, TypeOK
<1>25. ASSUME NEW t \in Texts, External(t) PROVE KnownOK'
  BY <1>25 DEF External, DiskWritten, KnownOK, TypeOK
<1>26. CASE UNCHANGED vars
  BY <1>26 DEF vars, KnownOK, TypeOK
<1> QED
  BY <1>1, <1>2, <1>3, <1>4, <1>5, <1>6, <1>7, <1>8, <1>9, <1>10, <1>11,
     <1>12, <1>13, <1>14, <1>15, <1>16, <1>17, <1>18, <1>19, <1>20, <1>21,
     <1>22, <1>23, <1>24, <1>25, <1>26
  DEF Next, Opening, Editing, Checking, Writing, Saving, Closing, Thread, World

LEMMA KnownCorrect == Spec => []KnownOK
<1>1. Init => KnownOK
  BY DEF Init, KnownOK
<1> QED
  BY <1>1, DocumentTypeCorrect, KnownStep, PTL DEF Spec

(***************************************************************************)
(* A clean document is the text of the file, as the user knows it, unless  *)
(* the user was told otherwise and has gone on.                            *)
(***************************************************************************)
THEOREM CleanCorrect == Spec => []CleanMeansSavedUnlessKept
<1>1. Init => PointOK /\ EditsAreDirty
  BY DEF Init, PointOK, EditsAreDirty
<1>2. TypeOK /\ PointOK /\ EditsAreDirty /\ KnownOK => CleanMeansSavedUnlessKept
  BY DEF PointOK, EditsAreDirty, KnownOK, CleanMeansSavedUnlessKept, CleanMeansSaved, UserMay, TypeOK
<1> QED
  BY <1>1, <1>2, DocumentTypeCorrect, PointStep, KnownCorrect, PTL DEF Spec

(***************************************************************************)
(* No save overwrites what the user does not know of.                      *)
(***************************************************************************)
LEMMA OverwriteStep ==
    TypeOK /\ KnownOK /\ [Next]_vars
        => [main # "writing" /\ main' = "writing" => disk = known]_vars
<1> SUFFICES ASSUME TypeOK, KnownOK, [Next]_vars, main # "writing", main' = "writing"
             PROVE  disk = known
  OBVIOUS
<1>1. CASE OpenAsks
  BY <1>1 DEF OpenAsks, KnownOK, TypeOK
<1>2. CASE Open
  BY <1>2 DEF Open, Load, Holds, KnownOK, TypeOK
<1>3. CASE RestoreRefused
  BY <1>3 DEF RestoreRefused, Load, Holds, KnownOK, TypeOK
<1>4. CASE Restore
  BY <1>4 DEF Restore, Holds, KnownOK, TypeOK
<1>5. CASE BackToSavePoint
  BY <1>5 DEF BackToSavePoint, UserMay, KnownOK, TypeOK
<1>6. CASE Revert
  BY <1>6 DEF Revert, UserMay, Load, Holds, KnownOK, TypeOK
<1>7. CASE CheckDisk
  BY <1>7 DEF CheckDisk, UserMay, KnownOK, TypeOK
<1>8. CASE ReloadAccepted
  BY <1>8 DEF ReloadAccepted, Load, Holds, KnownOK, TypeOK
<1>9. CASE ReloadRefused
  BY <1>9 DEF ReloadRefused, KnownOK, TypeOK
<1>10. CASE SaveCommand
  BY <1>10 DEF SaveCommand, UserMay, Save, DiskWritten, KnownOK, TypeOK
<1>11. CASE OverwriteAccepted
  BY <1>11 DEF OverwriteAccepted, DiskWritten, KnownOK, TypeOK
<1>12. CASE OverwriteRefused
  BY <1>12 DEF OverwriteRefused, KnownOK, TypeOK
<1>13. CASE SaveFails
  BY <1>13 DEF SaveFails, UserMay, KnownOK, TypeOK
<1>14. CASE Write
  BY <1>14 DEF Write, DiskWritten, Holds, KnownOK, TypeOK
<1>15. CASE WriteFails
  BY <1>15 DEF WriteFails, DiskWritten, KnownOK, TypeOK
<1>16. CASE Close
  BY <1>16 DEF Close, UserMay, Release, KnownOK, TypeOK
<1>17. CASE CloseSaves
  BY <1>17 DEF CloseSaves, Save, DiskWritten, KnownOK, TypeOK
<1>18. CASE CloseDiscards
  BY <1>18 DEF CloseDiscards, Release, KnownOK, TypeOK
<1>19. CASE CloseCancelled
  BY <1>19 DEF CloseCancelled, KnownOK, TypeOK
<1>20. CASE List
  BY <1>20 DEF List, KnownOK, TypeOK
<1>21. CASE Test
  BY <1>21 DEF Test, ThreadGoes, KnownOK, TypeOK
<1>22. CASE AutoSave
  BY <1>22 DEF AutoSave, ThreadGoes, KnownOK, TypeOK
<1>23. CASE Crash
  BY <1>23 DEF Crash, Holds, KnownOK, TypeOK
<1>24. ASSUME NEW t \in Texts, Edit(t) PROVE disk = known
  BY <1>24 DEF Edit, UserMay, KnownOK, TypeOK
<1>25. ASSUME NEW t \in Texts, External(t) PROVE disk = known
  BY <1>25 DEF External, DiskWritten, KnownOK, TypeOK
<1>26. CASE UNCHANGED vars
  BY <1>26 DEF vars, KnownOK, TypeOK
<1> QED
  BY <1>1, <1>2, <1>3, <1>4, <1>5, <1>6, <1>7, <1>8, <1>9, <1>10, <1>11,
     <1>12, <1>13, <1>14, <1>15, <1>16, <1>17, <1>18, <1>19, <1>20, <1>21,
     <1>22, <1>23, <1>24, <1>25, <1>26
  DEF Next, Opening, Editing, Checking, Writing, Saving, Closing, Thread, World

THEOREM OverwritesCorrect == Spec => OverwritesAreKnown
<1> QED
  BY DocumentTypeCorrect, KnownCorrect, OverwriteStep, PTL DEF Spec, OverwritesAreKnown
=============================================================================
