-------------------------- MODULE FileStatus_proofs --------------------------
(***************************************************************************)
(* Theorems about FileStatus, for any files, directories and bounds.       *)
(***************************************************************************)
EXTENDS FileStatus, TLAPS

USE DEF requestVars, passVars, watchVars, flagVars, Item, Reasons, BACKGROUND,
        FILE_CHANGED, FORCED

(***************************************************************************)
(* One step of any actor keeps the types.                                  *)
(***************************************************************************)
LEMMA FileTypeStep == TypeOK /\ [Next]_vars => TypeOK'
<1> SUFFICES ASSUME TypeOK, [Next]_vars PROVE TypeOK'
  OBVIOUS
<1> USE DEF TypeOK
<1>1. ASSUME NEW r \in AllReasons, UpdateStatusForAllFiles(r) PROVE TypeOK'
  BY <1>1, FilesAssumption DEF UpdateStatusForAllFiles, Notify
<1>2. ASSUME NEW f \in Files, NEW r \in FileReasons, UpdateStatusForFile(f, r) PROVE TypeOK'
  BY <1>2, FilesAssumption DEF UpdateStatusForFile, AddItem, Notify
<1>3. ASSUME NEW f \in Files, NEW r \in FileReasons, UpdateStatusWithCallback(f, r) PROVE TypeOK'
  <2>1. [file |-> f, reason |-> r] \in Item
    BY FilesAssumption
  <2>2. waiter' \in Item \cup {NoItem}
    BY <1>3, <2>1 DEF UpdateStatusWithCallback
  <2>3. items' \subseteq Item /\ due' \subseteq Item
    BY <1>3, <2>1 DEF UpdateStatusWithCallback, AddItem
  <2>4. doneEvent' \in BOOLEAN
    BY <1>3, Zenon DEF UpdateStatusWithCallback
  <2>7. requests' \in 0..MaxRequests
    BY <1>3, FilesAssumption DEF UpdateStatusWithCallback, AddItem
  <2>5. pc' \in {pc, "woken"}
    BY <1>3 DEF UpdateStatusWithCallback, Notify
  <2>6. UNCHANGED <<updateReason, checkAll, passVars, watchVars, shutdown, idle,
                    failed, statusCheck>>
    BY <1>3 DEF UpdateStatusWithCallback, AddItem
  <2> QED
    BY <2>2, <2>3, <2>4, <2>5, <2>6, <2>7
<1>4. ASSUME NEW f \in Files, NEW r \in FileReasons, UpdateStatusForUri(f, r) PROVE TypeOK'
  BY <1>4, FilesAssumption DEF UpdateStatusForUri, AddItem, Touch, Notify
<1>5. ASSUME NEW f \in Files, FileNotification(f) PROVE TypeOK'
  BY <1>5, FilesAssumption DEF FileNotification, AddItem, Touch, Notify
<1>6. ASSUME NEW f \in Files, FindFile(f) PROVE TypeOK'
  BY <1>6, FilesAssumption DEF FindFile, Touch
<1>7. CASE GoIdle
  BY <1>7, FilesAssumption DEF GoIdle
<1>8. CASE ComeBack
  BY <1>8, FilesAssumption DEF ComeBack, Notify
<1>9. CASE FileUpdateNow
  BY <1>9, FilesAssumption DEF FileUpdateNow, Notify
<1>10. CASE Unload
  BY <1>10, FilesAssumption DEF Unload, Notify
<1>11. CASE Top
  BY <1>11, FilesAssumption DEF Top
<1>12. CASE StartWaiting
  BY <1>12, FilesAssumption DEF StartWaiting, NoWork
<1>13. CASE WaitTimesOut
  BY <1>13, FilesAssumption DEF WaitTimesOut
<1>14. CASE Decide
  BY <1>14, FilesAssumption DEF Decide, Outranking, NoWork
<1>15. CASE ListFiles
  BY <1>15, FilesAssumption DEF ListFiles
<1>16. CASE ResetCheckAll
  BY <1>16, FilesAssumption DEF ResetCheckAll
<1>17. CASE WatchDirs
  BY <1>17, FilesAssumption DEF WatchDirs, DirsOf
<1>18. CASE CheckFile
  BY <1>18, FilesAssumption DEF CheckFile
<1>19. CASE FileChecked
  BY <1>19, FilesAssumption DEF FileChecked
<1>20. CASE EndPass
  <2>1. /\ files' \subseteq Files /\ todo' \subseteq Item
        /\ passReason' \in Reasons
    BY <1>20 DEF EndPass, ForgetPass
  <2>7. full' \in BOOLEAN
    BY <1>20, Zenon DEF EndPass, ForgetPass
  <2>2. /\ items' \subseteq Item /\ updateReason' \in Reasons
        /\ checkAll' \in BOOLEAN /\ shutdown' \in BOOLEAN /\ idle' \in BOOLEAN
    BY <1>20 DEF EndPass
  <2>3. doneEvent' \in BOOLEAN
    BY <1>20, Zenon DEF EndPass
  <2>5. failed' \in BOOLEAN
    BY <1>20, Zenon DEF EndPass, TypeOK
  <2>6. pc' = "top"
    BY <1>20 DEF EndPass
  <2>4. /\ statusCheck' \subseteq Files /\ monitored' \subseteq Files
        /\ waiter' \in Item \cup {NoItem} /\ due' \subseteq Item
        /\ watched' \subseteq Dirs /\ expired' \subseteq Dirs
        /\ requests' \in 0..MaxRequests
    BY <1>20 DEF EndPass
  <2> QED
    BY <2>1, <2>2, <2>3, <2>4, <2>5, <2>6, <2>7, Zenon
<1>21. CASE Stop
  BY <1>21, FilesAssumption DEF Stop
<1>22. CASE PassFails
  <2>1. /\ files' \subseteq Files /\ todo' \subseteq Item
        /\ passReason' \in Reasons
    BY <1>22 DEF PassFails, ForgetPass
  <2>7. full' \in BOOLEAN
    BY <1>22, Zenon DEF PassFails, ForgetPass
  <2>2. /\ items' \subseteq Item /\ updateReason' \in Reasons
        /\ checkAll' \in BOOLEAN /\ shutdown' \in BOOLEAN /\ idle' \in BOOLEAN
    BY <1>22 DEF PassFails
  <2>3. doneEvent' \in BOOLEAN
    BY <1>22, Zenon DEF PassFails
  <2>5. failed' \in BOOLEAN
    BY <1>22, Zenon DEF PassFails, TypeOK
  <2>6. pc' = "top"
    BY <1>22 DEF PassFails
  <2>4. /\ statusCheck' \subseteq Files /\ monitored' \subseteq Files
        /\ waiter' \in Item \cup {NoItem} /\ due' \subseteq Item
        /\ watched' \subseteq Dirs /\ expired' \subseteq Dirs
        /\ requests' \in 0..MaxRequests
    BY <1>22 DEF PassFails
  <2> QED
    BY <2>1, <2>2, <2>3, <2>4, <2>5, <2>6, <2>7, Zenon
<1>23. CASE FireCallback
  BY <1>23, FilesAssumption DEF FireCallback
<1>24. CASE CallbackTimesOut
  BY <1>24, FilesAssumption DEF CallbackTimesOut
<1>25. CASE UNCHANGED vars
  BY <1>25 DEF vars
<1> QED
  BY <1>1, <1>2, <1>3, <1>4, <1>5, <1>6, <1>7, <1>8, <1>9, <1>10, <1>11, <1>12, <1>13, <1>14, <1>15, <1>16, <1>17, <1>18, <1>19, <1>20, <1>21, <1>22, <1>23, <1>24, <1>25 DEF Next, CallersNext, ThreadNext, WaiterNext

(***************************************************************************)
(* Type correctness of the file status service, at every bound.            *)
(***************************************************************************)
THEOREM FileTypeCorrect == Spec => []TypeOK
<1>1. Init => TypeOK
  <2> SUFFICES ASSUME Init PROVE TypeOK
    OBVIOUS
  <2>1. /\ items \subseteq Item /\ todo \subseteq Item /\ due \subseteq Item
        /\ statusCheck \subseteq Files /\ files \subseteq Files /\ monitored \subseteq Files
        /\ watched \subseteq Dirs /\ expired \subseteq Dirs
        /\ updateReason \in Reasons /\ passReason \in Reasons
    BY DEF Init
  <2>2. /\ checkAll \in BOOLEAN /\ doneEvent \in BOOLEAN /\ full \in BOOLEAN
        /\ shutdown \in BOOLEAN /\ idle \in BOOLEAN /\ failed \in BOOLEAN
    BY Zenon DEF Init
  <2>3. requests \in 0..MaxRequests
    BY FilesAssumption DEF Init
  <2>4. pc = "top" /\ waiter = NoItem
    BY DEF Init
  <2> QED
    BY <2>1, <2>2, <2>3, <2>4, Zenon DEF TypeOK
<1> QED
  BY <1>1, FileTypeStep, PTL DEF Spec

(***************************************************************************)
(* No lost wakeup: a call that brings work also wakes the thread, and the  *)
(* thread starts to wait only when there is none, with _cv held.           *)
(***************************************************************************)
THEOREM NeverWaitsWithWork == Spec => []NoWorkWhileWaiting
<1>1. Init => NoWorkWhileWaiting
  BY DEF Init, NoWorkWhileWaiting
<1>2. NoWorkWhileWaiting /\ [Next]_vars => NoWorkWhileWaiting'
  <2> SUFFICES ASSUME NoWorkWhileWaiting, [Next]_vars PROVE NoWorkWhileWaiting'
    OBVIOUS
  <2> USE DEF NoWorkWhileWaiting, NoWork
  <2>1. ASSUME NEW r \in AllReasons, UpdateStatusForAllFiles(r) PROVE NoWorkWhileWaiting'
    BY <2>1 DEF UpdateStatusForAllFiles, Notify
  <2>2. ASSUME NEW f \in Files, NEW r \in FileReasons, UpdateStatusForFile(f, r) PROVE NoWorkWhileWaiting'
    BY <2>2 DEF UpdateStatusForFile, AddItem, Notify
  <2>3. ASSUME NEW f \in Files, NEW r \in FileReasons, UpdateStatusWithCallback(f, r) PROVE NoWorkWhileWaiting'
    BY <2>3 DEF UpdateStatusWithCallback, AddItem, Notify
  <2>4. ASSUME NEW f \in Files, NEW r \in FileReasons, UpdateStatusForUri(f, r) PROVE NoWorkWhileWaiting'
    BY <2>4 DEF UpdateStatusForUri, AddItem, Notify
  <2>5. ASSUME NEW f \in Files, FileNotification(f) PROVE NoWorkWhileWaiting'
    BY <2>5 DEF FileNotification, AddItem, Notify
  <2>6. CASE ComeBack \/ FileUpdateNow \/ Unload
    BY <2>6 DEF ComeBack, FileUpdateNow, Unload, Notify
  <2>7. ASSUME NEW f \in Files, FindFile(f) PROVE NoWorkWhileWaiting'
    BY <2>7 DEF FindFile
  <2>8. CASE GoIdle
    BY <2>8 DEF GoIdle
  <2>9. CASE StartWaiting
    BY <2>9 DEF StartWaiting
  <2>10. ASSUME ThreadNext, ~StartWaiting PROVE pc' \notin {"waiting", "dozing"}
    BY <2>10 DEF ThreadNext, Top, WaitTimesOut, Decide, ListFiles, ResetCheckAll,
       WatchDirs, CheckFile, FileChecked, EndPass, Stop, PassFails
  <2>11. CASE WaiterNext
    BY <2>11 DEF WaiterNext, FireCallback, CallbackTimesOut
  <2>12. CASE UNCHANGED vars
    BY <2>12 DEF vars
  <2> QED
    BY <2>1, <2>2, <2>3, <2>4, <2>5, <2>6, <2>7, <2>8, <2>9, <2>10, <2>11, <2>12
       DEF Next, CallersNext
<1> QED
  BY <1>1, <1>2, PTL DEF Spec

(***************************************************************************)
(* The actions that leave the directory observers alone.                   *)
(***************************************************************************)
LEMMA OthersKeepWatches ==
    [Next]_vars /\ ~WatchDirs => UNCHANGED <<monitored, watched, expired>>
<1> SUFFICES ASSUME [Next]_vars, ~WatchDirs
             PROVE  UNCHANGED <<monitored, watched, expired>>
  OBVIOUS
<1>1. CASE CallersNext
  BY <1>1 DEF CallersNext, UpdateStatusForAllFiles, UpdateStatusForFile, AddItem,
     UpdateStatusWithCallback, UpdateStatusForUri, FileNotification, FindFile,
     GoIdle, ComeBack, FileUpdateNow, Unload
<1>2. CASE ThreadNext
  BY <1>2 DEF ThreadNext, Top, StartWaiting, WaitTimesOut, Decide, ListFiles,
     ResetCheckAll, CheckFile, FileChecked, EndPass, Stop, PassFails
<1>3. CASE WaiterNext
  BY <1>3 DEF WaiterNext, FireCallback, CallbackTimesOut
<1>4. CASE UNCHANGED vars
  BY <1>4 DEF vars
<1> QED
  BY <1>1, <1>2, <1>3, <1>4 DEF Next

(***************************************************************************)
(* A file never counts as monitored without its directory having got an    *)
(* observer, also when adding observers fails.                             *)
(***************************************************************************)
THEOREM MonitoredFilesWereWatched == Spec => []MonitoredWasWatched
<1>1. Init => MonitoredWasWatched
  BY DEF Init, MonitoredWasWatched, DirsOf
<1>2. MonitoredWasWatched /\ [Next]_vars => MonitoredWasWatched'
  <2> SUFFICES ASSUME MonitoredWasWatched, [Next]_vars PROVE MonitoredWasWatched'
    OBVIOUS
  <2>1. CASE WatchDirs
    <3>1. PICK failing \in SUBSET (DirsOf(files) \ DirsOf(monitored)),
               gone \in SUBSET ((DirsOf(monitored) \cap watched) \ DirsOf(files)) :
            /\ watched' = (watched \cup (DirsOf(files) \ (DirsOf(monitored) \cup failing))) \ gone
            /\ expired' = expired \cup gone
            /\ monitored' = monitored \cup {f \in files : DirOf[f] \notin failing}
      BY <2>1 DEF WatchDirs
    <3>2. ASSUME NEW f \in monitored' PROVE DirOf[f] \in watched' \cup expired'
      <4>1. CASE f \in monitored
        BY <3>1, <4>1 DEF MonitoredWasWatched, DirsOf
      <4>2. CASE f \in files /\ DirOf[f] \notin failing
        BY <3>1, <4>2 DEF MonitoredWasWatched, DirsOf
      <4> QED
        BY <3>1, <4>1, <4>2
    <3> QED
      BY <3>2 DEF MonitoredWasWatched, DirsOf
  <2>2. CASE ~WatchDirs
    BY <2>2, OthersKeepWatches DEF MonitoredWasWatched, DirsOf
  <2> QED
    BY <2>1, <2>2
<1> QED
  BY <1>1, <1>2, PTL DEF Spec

(***************************************************************************)
(* The pending reason is lowered by the full check it was pending for, and *)
(* by nothing else.                                                        *)
(***************************************************************************)
THEOREM PriorityIsKept == Spec => FullCheckKeepsPriority
<1> DEFINE A == updateReason' < updateReason => full' /\ passReason' = updateReason
<1>1. TypeOK /\ [Next]_vars => [A]_vars
  <2> SUFFICES ASSUME TypeOK, [Next]_vars PROVE A
    OBVIOUS
  <2>0. updateReason \in Nat
    BY DEF TypeOK
  <2>1. ASSUME NEW r \in AllReasons, UpdateStatusForAllFiles(r) PROVE A
    <3>1. r \in Nat
      BY FilesAssumption
    <3>2. updateReason' >= updateReason
      BY <2>0, <2>1, <3>1 DEF UpdateStatusForAllFiles
    <3> QED
      BY <2>0, <3>1, <3>2, <2>1 DEF UpdateStatusForAllFiles
  <2>2. CASE Decide
    <3>1. full' \/ updateReason' = updateReason
      BY <2>2 DEF Decide
    <3>2. passReason' = updateReason
      BY <2>2 DEF Decide
    <3> QED
      BY <2>0, <3>1, <3>2
  <2>3. ASSUME UNCHANGED updateReason PROVE A
    BY <2>0, <2>3
  <2>4. ASSUME CallersNext, \A r \in AllReasons : ~UpdateStatusForAllFiles(r)
        PROVE  UNCHANGED updateReason
    BY <2>4 DEF CallersNext, UpdateStatusForFile, AddItem,
       UpdateStatusWithCallback, UpdateStatusForUri, FileNotification, FindFile,
       GoIdle, ComeBack, FileUpdateNow, Unload
  <2>5. ASSUME ThreadNext, ~Decide PROVE UNCHANGED updateReason
    BY <2>5 DEF ThreadNext, Top, StartWaiting, WaitTimesOut, ListFiles, WatchDirs,
       ResetCheckAll, CheckFile, FileChecked, EndPass, Stop, PassFails
  <2>6. ASSUME WaiterNext \/ UNCHANGED vars PROVE UNCHANGED updateReason
    BY <2>6 DEF WaiterNext, FireCallback, CallbackTimesOut, vars
  <2> QED
    BY <2>1, <2>2, <2>3, <2>4, <2>5, <2>6 DEF Next
<1> QED
  BY <1>1, FileTypeCorrect, PTL DEF Spec, FullCheckKeepsPriority
=============================================================================
