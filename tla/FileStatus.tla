----------------------------- MODULE FileStatus -----------------------------
(***************************************************************************)
(* The file status service: one background thread (_process) and the calls *)
(* that give it work (src/src/components/koFileStatusService.p.py), over   *)
(* the files that koFileService remembers (src/src/views/koFileService.py).*)
(*                                                                         *)
(* What is done with the condition variable _cv held is one action; where  *)
(* the thread reads or writes shared state without it, the thread's steps  *)
(* are separate.  One status checker, which is always active, stands for   *)
(* the list of them, and every file is a local one that stays referenced.  *)
(* Seconds do not count: a pause that may have ended or not is a choice.   *)
(*                                                                         *)
(* A definition marked [variant] is a faulty form of the one after it, to  *)
(* show which property notices the fault; no specification uses it.        *)
(***************************************************************************)
EXTENDS Naturals, FiniteSets

CONSTANTS
    Files, Dirs,
    DirOf,          \* the directory of each file
    NoItem,
    AllReasons,     \* the reasons updateStatusForAllFiles is called with
    FileReasons,    \* the reasons updateStatusForFiles is called with
    MaxRequests     \* bound: calls that ask for a check

BACKGROUND == 1
FILE_CHANGED == 3
FORCED == 4
Reasons == 1..FORCED

ASSUME FilesAssumption ==
    /\ DirOf \in [Files -> Dirs]
    /\ AllReasons \subseteq Reasons
    /\ FileReasons \subseteq {FILE_CHANGED, FORCED}
    /\ MaxRequests \in Nat

Item == [file : Files, reason : Reasons]

ASSUME NoItemAssumption == NoItem \notin Item

VARIABLES
    items,          \* _items_to_check
    updateReason,   \* _updateReason
    checkAll,       \* _check_all
    shutdown,       \* shutdown
    idle,           \* _is_idle
    doneEvent,      \* _processing_done_event
    statusCheck,    \* koFileService._statuscheck_files
    pc,             \* where the thread stands in _process
    passReason,     \* its local updateReason
    full,           \* the decision of this pass: every file, or items only
    files,          \* its local files
    todo,           \* its local items_to_check: what is left of it
    monitored,      \* _monitoredUrls
    watched,        \* directories with an observer in the notification service
    waiter,         \* what a wait_till_done thread waits for, or NoItem
    requests,       \* calls made so far
    failed,         \* history: an unexpected exception ended a pass
    due,            \* history: item requests not served yet
    expired         \* history: directories whose observer was removed

requestVars == <<items, updateReason, checkAll, doneEvent>>
passVars == <<passReason, full, files, todo>>
watchVars == <<monitored, watched, expired>>
flagVars == <<shutdown, idle, failed, requests>>
vars == <<requestVars, passVars, watchVars, waiter, due, flagVars,
          statusCheck, pc>>

DirsOf(F) == {DirOf[f] : f \in F}

Init ==
    /\ items = {}
    /\ updateReason = BACKGROUND
    /\ checkAll = FALSE
    /\ shutdown = FALSE
    /\ idle = FALSE
    /\ doneEvent = FALSE
    /\ statusCheck = {}
    /\ pc = "top"
    /\ passReason = BACKGROUND
    /\ full = FALSE
    /\ files = {}
    /\ todo = {}
    /\ monitored = {}
    /\ watched = {}
    /\ waiter = NoItem
    /\ requests = 0
    /\ failed = FALSE
    /\ due = {}
    /\ expired = {}

-----------------------------------------------------------------------------
(* Calls from other threads, each with _cv held. *)

\* _cv.notify(): only a thread that is waiting notices.
Notify == pc' = IF pc \in {"waiting", "dozing"} THEN "woken" ELSE pc

UpdateStatusForAllFiles(r) ==
    /\ requests < MaxRequests
    /\ requests' = requests + 1
    /\ updateReason' = IF r > updateReason THEN r ELSE updateReason
    /\ checkAll' = TRUE
    /\ Notify
    /\ UNCHANGED <<items, doneEvent, passVars, watchVars, waiter, due,
                   shutdown, idle, failed, statusCheck>>

\* The common part of the calls that ask for one file.
AddItem(f, r) ==
    /\ requests < MaxRequests
    /\ requests' = requests + 1
    /\ items' = items \cup {[file |-> f, reason |-> r]}
    /\ due' = due \cup {[file |-> f, reason |-> r]}
    /\ UNCHANGED <<updateReason, checkAll, passVars, watchVars,
                   shutdown, idle, failed>>

\* Looking a file up makes it a candidate of the next background check.
Touch(f) == statusCheck' = statusCheck \cup {f}

\* updateStatusForFiles, without a callback.
UpdateStatusForFile(f, r) ==
    /\ AddItem(f, r)
    /\ Notify
    /\ UNCHANGED <<doneEvent, waiter, statusCheck>>

\* updateStatusForFiles with a callback; bound: one that waits at a time.
UpdateStatusWithCallback(f, r) ==
    /\ waiter = NoItem
    /\ AddItem(f, r)
    /\ Notify
    /\ doneEvent' = FALSE
    /\ waiter' = [file |-> f, reason |-> r]
    /\ UNCHANGED statusCheck

\* updateStatusForUris, and the file_status_now notification.
UpdateStatusForUri(f, r) ==
    /\ AddItem(f, r)
    /\ Touch(f)
    /\ Notify
    /\ UNCHANGED <<doneEvent, waiter>>

\* [variant] The thread is not notified.
FileNotificationSilent(f) ==
    /\ DirOf[f] \in watched
    /\ f \in monitored
    /\ AddItem(f, FILE_CHANGED)
    /\ Touch(f)
    /\ UNCHANGED <<doneEvent, waiter, pc>>

\* fileNotification: other files than the monitored ones are ignored.
FileNotification(f) ==
    /\ DirOf[f] \in watched
    /\ f \in monitored
    /\ AddItem(f, FILE_CHANGED)
    /\ Touch(f)
    /\ Notify
    /\ UNCHANGED <<doneEvent, waiter>>

\* findFileByURI, from anywhere in Komodo.
FindFile(f) ==
    /\ f \notin statusCheck
    /\ Touch(f)
    /\ UNCHANGED <<requestVars, passVars, watchVars, waiter, due,
                   flagVars, pc>>

\* observe(idle) and observe(active).
GoIdle ==
    /\ ~shutdown /\ ~idle
    /\ idle' = TRUE
    /\ UNCHANGED <<requestVars, passVars, watchVars, waiter, due,
                   shutdown, failed, requests, statusCheck, pc>>

ComeBack ==
    /\ ~shutdown /\ idle
    /\ idle' = FALSE
    /\ Notify
    /\ UNCHANGED <<requestVars, passVars, watchVars, waiter, due,
                   shutdown, failed, requests, statusCheck>>

\* observe(file_update_now).
FileUpdateNow ==
    /\ Notify
    /\ UNCHANGED <<requestVars, passVars, watchVars, waiter, due, flagVars,
                   statusCheck>>

\* unload(), on xpcom-shutdown.
Unload ==
    /\ ~shutdown
    /\ shutdown' = TRUE
    /\ Notify
    /\ UNCHANGED <<requestVars, passVars, watchVars, waiter, due,
                   idle, failed, requests, statusCheck>>

\* wait_till_done: the event was set, or 60 seconds are over.
FireCallback ==
    /\ waiter # NoItem /\ doneEvent
    /\ waiter' = NoItem
    /\ UNCHANGED <<requestVars, passVars, watchVars, due, flagVars,
                   statusCheck, pc>>

CallbackTimesOut ==
    /\ waiter # NoItem /\ ~doneEvent
    /\ waiter' = NoItem
    /\ UNCHANGED <<requestVars, passVars, watchVars, due, flagVars,
                   statusCheck, pc>>

-----------------------------------------------------------------------------
(* The thread: _process. *)

Top ==
    /\ pc = "top"
    /\ pc' = IF shutdown THEN "ended" ELSE "pausing"
    /\ UNCHANGED <<requestVars, passVars, watchVars, waiter, due,
                   flagVars, statusCheck>>

NoWork == items = {} /\ updateReason = BACKGROUND

\* The next background check is not due yet; when idle it never is.
StartWaiting ==
    /\ pc = "pausing"
    /\ NoWork
    /\ pc' = IF idle THEN "waiting" ELSE "dozing"
    /\ UNCHANGED <<requestVars, passVars, watchVars, waiter, due,
                   flagVars, statusCheck>>

WaitTimesOut ==
    /\ pc = "dozing"
    /\ pc' = "woken"
    /\ UNCHANGED <<requestVars, passVars, watchVars, waiter, due,
                   flagVars, statusCheck>>

\* The items that outrank the full check that is due; the others are left to it.
Outranking == {i \in items : updateReason = BACKGROUND \/ i.reason > updateReason}

\* [variant] A pass for items counts as the full check too.
DecideForgetsReason ==
    /\ pc \in {"pausing", "woken"}
    /\ todo' = Outranking
    /\ items' = {}
    /\ full' = (todo' = {})
    /\ passReason' = updateReason
    /\ updateReason' = BACKGROUND
    /\ pc' = "decided"
    /\ UNCHANGED <<checkAll, doneEvent, files, watchVars, waiter, due,
                   flagVars, statusCheck>>

\* [variant] The items that wait are dropped when there is a full check to do.
DecideDropsItems ==
    /\ pc \in {"pausing", "woken"}
    /\ todo' = IF updateReason = BACKGROUND THEN Outranking ELSE {}
    /\ items' = {}
    /\ full' = (todo' = {})
    /\ passReason' = updateReason
    /\ updateReason' = BACKGROUND
    /\ pc' = "decided"
    /\ UNCHANGED <<checkAll, doneEvent, files, watchVars, waiter, due,
                   flagVars, statusCheck>>

\* Take the items, and decide between a pass for them and a full check.
Decide ==
    /\ pc \in {"pausing", "woken"}
    /\ todo' = Outranking
    /\ items' = {}
    /\ full' = (todo' = {})
    /\ passReason' = updateReason
    /\ updateReason' = IF full' THEN BACKGROUND ELSE updateReason
    /\ pc' = "decided"
    /\ UNCHANGED <<checkAll, doneEvent, files, watchVars, waiter, due,
                   flagVars, statusCheck>>

\* A return, or the end of the pass: in both cases `finally` sets the event.
Stop ==
    /\ shutdown
    /\ pc \in {"decided", "checking"}
    /\ pc = "checking" => todo # {}
    /\ pc' = "ended"
    /\ doneEvent' = TRUE
    /\ UNCHANGED <<items, updateReason, checkAll, passVars, watchVars, waiter,
                   due, flagVars, statusCheck>>

\* getAllFiles, or getStatusCheckFiles, which forgets what it returns.
ListFiles ==
    /\ pc = "decided" /\ ~shutdown
    /\ \/ /\ checkAll
          /\ files' = Files
          /\ pc' = "all_listed"
          /\ UNCHANGED statusCheck
       \/ /\ ~checkAll
          /\ files' = statusCheck
          /\ statusCheck' = {}
          /\ pc' = "listed"
    /\ UNCHANGED <<requestVars, passReason, full, todo, watchVars, waiter,
                   due, flagVars>>

ResetCheckAll ==
    /\ pc = "all_listed"
    /\ checkAll' = FALSE
    /\ pc' = "listed"
    /\ UNCHANGED <<items, updateReason, doneEvent, passVars, watchVars, waiter,
                   due, flagVars, statusCheck>>

\* [variant] A directory that cannot be observed is taken for monitored.
WatchDirsBlindly ==
    /\ pc = "listed"
    /\ \E failing \in SUBSET (DirsOf(files) \ DirsOf(monitored)),
          gone \in SUBSET ((DirsOf(monitored) \cap watched) \ DirsOf(files)) :
        /\ watched' = (watched \cup (DirsOf(files) \ (DirsOf(monitored) \cup failing))) \ gone
        /\ expired' = expired \cup gone
        /\ monitored' = monitored \cup files
    /\ todo' = IF full THEN {[file |-> f, reason |-> passReason] : f \in files} ELSE todo
    /\ pc' = "checking"
    /\ UNCHANGED <<requestVars, passReason, full, files, waiter, due,
                   flagVars, statusCheck>>

\* Observe the directories that have no monitored file yet, which may fail;
\* drop the observers of directories not asked for since a minute.
WatchDirs ==
    /\ pc = "listed"
    /\ \E failing \in SUBSET (DirsOf(files) \ DirsOf(monitored)),
          gone \in SUBSET ((DirsOf(monitored) \cap watched) \ DirsOf(files)) :
        /\ watched' = (watched \cup (DirsOf(files) \ (DirsOf(monitored) \cup failing))) \ gone
        /\ expired' = expired \cup gone
        /\ monitored' = monitored \cup {f \in files : DirOf[f] \notin failing}
    /\ todo' = IF full THEN {[file |-> f, reason |-> passReason] : f \in files} ELSE todo
    /\ pc' = "checking"
    /\ UNCHANGED <<requestVars, passReason, full, files, waiter, due,
                   flagVars, statusCheck>>

\* updateFileStatus of the next item begins; the status is read from now on.
CheckFile ==
    /\ pc = "checking" /\ ~shutdown
    /\ \E i \in todo :
        /\ todo' = todo \ {i}
        /\ due' = {d \in due : d.file # i.file \/ d.reason > i.reason}
    /\ pc' = "updating"
    /\ UNCHANGED <<requestVars, passReason, full, files, watchVars, waiter, flagVars,
                   statusCheck>>

\* It ends, also by an exception.
FileChecked ==
    /\ pc = "updating"
    /\ pc' = "checking"
    /\ UNCHANGED <<requestVars, passVars, watchVars, waiter, due, flagVars,
                   statusCheck>>

\* The next pass assigns its locals before it reads them.
ForgetPass ==
    /\ files' = {}
    /\ todo' = {}
    /\ full' = FALSE
    /\ passReason' = BACKGROUND

\* [variant] The event is set only when there was something to check.
EndPassQuietly ==
    /\ pc = "checking"
    /\ todo = {}
    /\ pc' = "top"
    /\ doneEvent' = (doneEvent \/ full)
    /\ ForgetPass
    /\ UNCHANGED <<items, updateReason, checkAll, watchVars,
                   waiter, due, flagVars, statusCheck>>

EndPass ==
    /\ pc = "checking"
    /\ todo = {}
    /\ pc' = "top"
    /\ doneEvent' = TRUE
    /\ ForgetPass
    /\ UNCHANGED <<items, updateReason, checkAll, watchVars,
                   waiter, due, flagVars, statusCheck>>

\* An unexpected exception anywhere in the pass; bound: once.
PassFails ==
    /\ ~failed
    /\ pc \in {"decided", "all_listed", "listed", "checking"}
    /\ failed' = TRUE
    /\ pc' = "top"
    /\ doneEvent' = TRUE
    /\ ForgetPass
    /\ UNCHANGED <<items, updateReason, checkAll, watchVars,
                   waiter, due, shutdown, idle, requests, statusCheck>>

-----------------------------------------------------------------------------
CallersNext ==
    \/ \E r \in AllReasons : UpdateStatusForAllFiles(r)
    \/ \E f \in Files, r \in FileReasons :
        \/ UpdateStatusForFile(f, r)
        \/ UpdateStatusWithCallback(f, r)
        \/ UpdateStatusForUri(f, r)
    \/ \E f \in Files : FileNotification(f) \/ FindFile(f)
    \/ GoIdle \/ ComeBack \/ FileUpdateNow \/ Unload

ThreadNext ==
    \/ Top \/ StartWaiting \/ WaitTimesOut \/ Decide
    \/ ListFiles \/ ResetCheckAll \/ WatchDirs
    \/ CheckFile \/ FileChecked \/ EndPass \/ Stop \/ PassFails

WaiterNext == FireCallback \/ CallbackTimesOut

Next == CallersNext \/ ThreadNext \/ WaiterNext

Spec == Init /\ [][Next]_vars

(***************************************************************************)
(* The thread runs, a timed wait ends, and an event that stays set is      *)
(* noticed.  Nobody has to call, and the user need not come back.          *)
(***************************************************************************)
Fairness == WF_vars(ThreadNext) /\ WF_vars(FireCallback)

FairSpec == Spec /\ Fairness

-----------------------------------------------------------------------------
TypeOK ==
    /\ items \subseteq Item
    /\ updateReason \in Reasons
    /\ checkAll \in BOOLEAN /\ doneEvent \in BOOLEAN /\ full \in BOOLEAN
    /\ shutdown \in BOOLEAN /\ idle \in BOOLEAN /\ failed \in BOOLEAN
    /\ pc \in {"top", "pausing", "waiting", "dozing", "woken", "decided",
               "all_listed", "listed", "checking", "updating", "ended"}
    /\ passReason \in Reasons
    /\ statusCheck \subseteq Files /\ files \subseteq Files /\ monitored \subseteq Files
    /\ todo \subseteq Item
    /\ waiter \in Item \cup {NoItem}
    /\ watched \subseteq Dirs /\ expired \subseteq Dirs
    /\ requests \in 0..MaxRequests
    /\ due \subseteq Item

(***************************************************************************)
(* No lost wakeup: the thread never waits, and with the user away it would *)
(* wait for ever, while there is an item or a full check to do.            *)
(***************************************************************************)
NoWorkWhileWaiting == pc \in {"waiting", "dozing"} => NoWork

(***************************************************************************)
(* "We want to keep the one with the highest priority" (line 340): the     *)
(* reason of the next full check goes down only when a full check begins,  *)
(* and that one has the reason that was pending.                           *)
(***************************************************************************)
FullCheckKeepsPriority ==
    [][updateReason' < updateReason => full' /\ passReason' = updateReason]_vars

(***************************************************************************)
(* A file counts as monitored, so that no other observer is added for its  *)
(* directory, only if there is one, or there was and it was dropped.       *)
(***************************************************************************)
MonitoredWasWatched == DirsOf(monitored) \subseteq watched \cup expired

(***************************************************************************)
(* A request for a file whose reason outranks every request for all files  *)
(* is served: the file is checked for that reason or a stronger one.       *)
(***************************************************************************)
UrgentItemsGetChecked ==
    \A i \in Item :
        (\A r \in AllReasons : r < i.reason) =>
            (i \in due ~> (i \notin due \/ shutdown \/ failed))

(***************************************************************************)
(* The callback of updateStatusForFiles is fired, without the timeout.     *)
(***************************************************************************)
CallbackComes == waiter # NoItem ~> (waiter = NoItem \/ shutdown)
=============================================================================
