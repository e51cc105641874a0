------------------------------ MODULE SyncTask ------------------------------
(***************************************************************************)
(* When a client of a collaboration synchronises: the three timers of      *)
(* src/src/modules/collaboration/content/mobwrite_core.js (the sync task,  *)
(* its watchdog and the polling runner), the request that is in the air,   *)
(* and the handlers that set, clear and forget them.  MobWrite is about    *)
(* what a synchronisation does; this module is about there being one.      *)
(*                                                                         *)
(* All of it runs on the main thread, one handler at a time.  A timer      *)
(* fires some time after it was set; timers fire in any order.  The id of  *)
(* a timer stays in its variable after the timer has fired, and the code   *)
(* tests the variable: a timer is therefore described by what its variable *)
(* holds, and by how many timers are pending that no variable names.       *)
(*                                                                         *)
(* A definition marked [variant] is a faulty form of the one after it, to  *)
(* show which property notices the fault; no specification uses it.        *)
(***************************************************************************)
EXTENDS Naturals, FiniteSets

CONSTANTS
    Files,
    MaxShares       \* bound: calls of mobwrite.share

ASSUME SharesAssumption == MaxShares \in Nat

VARIABLES
    sync,           \* mobwrite.syncRunPid_, the timer of syncRun1_
    kill,           \* mobwrite.syncKillPid_, the watchdog of a request
    poll,           \* mobwrite.pollingRunPid, the timer of pollingRun
    airborne,       \* mobwrite.syncAjaxObj_ is set: a request is in the air
    clientChange,   \* mobwrite.clientChange_
    shared,         \* the files of mobwrite.shared
    closing,        \* those that were marked closed
    typed,          \* those with changes no request contains yet
    loggedIn,       \* ko.collaboration.service.loggedIn
    shares,
    paused,         \* history: pauseSyncTask ran, and no share since
    broken          \* history: an exception left syncRun1_, and no share since

timerVars == <<sync, kill, poll, airborne>>
fileVars == <<shared, closing, typed>>
taskHistoryVars == <<paused, broken>>
taskVars == <<timerVars, clientChange, fileVars, loggedIn, shares, taskHistoryVars>>

(***************************************************************************)
(* Timers.  "live": the variable names a pending timer; "spent": it names  *)
(* one that fired or was cleared; lost: pending timers without a variable. *)
(***************************************************************************)
Timer == [pid : {"null", "live", "spent"}, lost : Nat]
NoTimer == [pid |-> "null", lost |-> 0]

Pending(t) == t.pid = "live" \/ t.lost > 0
Cleared(t) == [t EXCEPT !.pid = IF @ = "live" THEN "spent" ELSE @]
Renamed(t, p) == [pid |-> p, lost |-> IF t.pid = "live" THEN t.lost + 1 ELSE t.lost]
Started(t) == Renamed(t, "live")
Nulled(t) == Renamed(t, "null")

\* What t may be when one of its timers has fired.
Fired(t) == {u \in {[t EXCEPT !.pid = "spent"], [t EXCEPT !.lost = t.lost - 1]} :
                \/ t.pid = "live" /\ u.pid = "spent"
                \/ t.lost > 0 /\ u.lost < t.lost}

TimersOK == sync \in Timer /\ kill \in Timer /\ poll \in Timer

FilesOK ==
    /\ shared \subseteq Files
    /\ closing \subseteq shared
    /\ typed \subseteq shared
    /\ shares \in 0..MaxShares

FlagsOK ==
    /\ airborne \in BOOLEAN
    /\ clientChange \in BOOLEAN
    /\ loggedIn \in BOOLEAN
    /\ paused \in BOOLEAN
    /\ broken \in BOOLEAN

TaskTypeOK == TimersOK /\ FilesOK /\ FlagsOK

TaskInit ==
    /\ sync = NoTimer /\ kill = NoTimer /\ poll = NoTimer
    /\ airborne = FALSE
    /\ clientChange = FALSE
    /\ shared = {} /\ closing = {} /\ typed = {}
    /\ loggedIn \in BOOLEAN
    /\ shares = 0
    /\ paused = FALSE /\ broken = FALSE

-----------------------------------------------------------------------------
(***************************************************************************)
(* Asking for a synchronisation.                                           *)
(***************************************************************************)
Busy == kill.pid # "null" \/ sync.pid # "null"

SyncNow ==
    /\ sync' = IF Busy THEN sync ELSE Started(sync)
    /\ clientChange' = (clientChange \/ Busy)

\* [variant] the task is brought forward without the old timer being cleared
ShareKeepsTimer(f) ==
    /\ shares < MaxShares
    /\ f \notin shared
    /\ shares' = shares + 1
    /\ shared' = shared \cup {f}
    /\ sync' = Started(sync)
    /\ poll' = Started(poll)
    /\ paused' = FALSE /\ broken' = FALSE
    /\ UNCHANGED <<kill, airborne, clientChange, closing, typed, loggedIn>>

\* [variant] polling is started with the first file only
SharePollsOnce(f) ==
    /\ shares < MaxShares
    /\ f \notin shared
    /\ shares' = shares + 1
    /\ shared' = shared \cup {f}
    /\ sync' = Started(Cleared(sync))
    /\ poll' = IF poll.pid = "null" THEN Started(poll) ELSE poll
    /\ paused' = FALSE /\ broken' = FALSE
    /\ UNCHANGED <<kill, airborne, clientChange, closing, typed, loggedIn>>

Share(f) ==
    /\ shares < MaxShares
    /\ f \notin shared
    /\ shares' = shares + 1
    /\ shared' = shared \cup {f}
    /\ sync' = Started(Cleared(sync))
    /\ poll' = Started(poll)
    /\ paused' = FALSE /\ broken' = FALSE
    /\ UNCHANGED <<kill, airborne, clientChange, closing, typed, loggedIn>>

\* A key pressed in a shared view.
Type(f) ==
    /\ f \in shared \ closing
    /\ typed' = typed \cup {f}
    /\ SyncNow
    /\ UNCHANGED <<kill, poll, airborne, shared, closing, loggedIn, shares, taskHistoryVars>>

\* The view is closed, or the user stops sharing it.
Unshare(f) ==
    /\ f \in shared \ closing
    /\ closing' = closing \cup {f}
    /\ SyncNow
    /\ UNCHANGED <<kill, poll, airborne, shared, typed, loggedIn, shares, taskHistoryVars>>

\* The server has news, or the user wants to reconnect.
Notified ==
    /\ loggedIn
    /\ SyncNow
    /\ UNCHANGED <<kill, poll, airborne, fileVars, loggedIn, shares, taskHistoryVars>>

PollingRun ==
    /\ \E p \in Fired(poll) : poll' = Started(Cleared(p))
    /\ sync' = IF Busy THEN sync ELSE Started(sync)
    /\ UNCHANGED <<kill, airborne, clientChange, fileVars, loggedIn, shares, taskHistoryVars>>

LogIn ==
    /\ ~loggedIn
    /\ loggedIn' = TRUE
    /\ UNCHANGED <<timerVars, clientChange, fileVars, shares, taskHistoryVars>>

LogOut ==
    /\ loggedIn
    /\ loggedIn' = FALSE
    /\ UNCHANGED <<timerVars, clientChange, fileVars, shares, taskHistoryVars>>

-----------------------------------------------------------------------------
(***************************************************************************)
(* syncRun1_, when a timer of the sync task fires.  What it does depends   *)
(* on the login and on the shared files.                                   *)
(***************************************************************************)
PauseSyncTask ==
    /\ ~loggedIn
    /\ \E s \in Fired(sync) : sync' = Nulled(Cleared(s))
    /\ poll' = Nulled(Cleared(poll))
    /\ paused' = TRUE
    /\ UNCHANGED <<kill, airborne, clientChange, fileVars, loggedIn, shares, broken>>

\* No files: the task stops, and syncRunPid_ keeps the spent id.
NothingShared ==
    /\ loggedIn
    /\ shared = {}
    /\ sync' \in Fired(sync)
    /\ poll' = Cleared(poll)
    /\ clientChange' = FALSE
    /\ UNCHANGED <<kill, airborne, fileVars, loggedIn, shares, taskHistoryVars>>

\* The files that were closed go; those in long are found to be too large
\* to be shared, and unshare is called for them.
Collect(long) ==
    /\ shared' = shared \ closing
    /\ closing' = long
    /\ clientChange' = (long # {})
    /\ typed' = typed \cap long

\* [variant] the watchdog is only set for the first request
SendUnwatched ==
    /\ loggedIn
    /\ \E s \in Fired(sync), long \in SUBSET (shared \ closing) :
        /\ shared \ long # {}
        /\ Collect(long)
        /\ sync' = s
    /\ kill' = IF airborne THEN kill ELSE Started(kill)
    /\ airborne' = TRUE
    /\ UNCHANGED <<poll, loggedIn, shares, taskHistoryVars>>

Send ==
    /\ loggedIn
    /\ \E s \in Fired(sync), long \in SUBSET (shared \ closing) :
        /\ shared \ long # {}
        /\ Collect(long)
        /\ sync' = s
    /\ kill' = Started(kill)
    /\ airborne' = TRUE
    /\ UNCHANGED <<poll, loggedIn, shares, taskHistoryVars>>

\* Every file was too large: syncRun2_ is called with an empty answer.
NullSync ==
    /\ loggedIn
    /\ shared # {} /\ closing = {}
    /\ Collect(shared)
    /\ \E s \in Fired(sync) : sync' = Started(Cleared(s))
    /\ kill' = Nulled(Cleared(kill))
    /\ UNCHANGED <<poll, airborne, loggedIn, shares, taskHistoryVars>>

\* syncText raises an exception for a file (encodeURI does so for half a
\* surrogate pair, which a difference may contain) after it has taken the
\* text for its shadow; files before it in the object are dealt with.
SyncTextFails ==
    /\ loggedIn
    /\ shared # {}
    /\ sync' \in Fired(sync)
    /\ \E f \in shared \ closing, before \in SUBSET shared,
          long \in SUBSET (shared \ closing) :
        /\ f \notin before
        /\ long \subseteq before
        /\ shared' = shared \ (closing \cap before)
        /\ closing' = (closing \ before) \cup long
        /\ clientChange' = (long # {})
        /\ typed' = typed \ ((before \ long) \cup {f})
    /\ broken' = TRUE
    /\ UNCHANGED <<kill, poll, airborne, loggedIn, shares, paused>>

SyncRun1 == PauseSyncTask \/ NothingShared \/ Send \/ NullSync \/ SyncTextFails

-----------------------------------------------------------------------------
(***************************************************************************)
(* What becomes of the request: syncCheckAjax_ and syncRun2_, or syncKill_.*)
(* The object of an older request is forgotten, and its answer is ignored. *)
(***************************************************************************)
\* In the answer the server may say that a file is gone, which calls unshare
\* (of one file, in this model) and so syncNow, before syncRun2_ ends.
Answered ==
    /\ airborne
    /\ airborne' = FALSE
    /\ \E gone \in {{}} \cup {{f} : f \in shared \ closing} :
        /\ closing' = closing \cup gone
        /\ clientChange' = (clientChange \/ (gone # {} /\ Busy))
    /\ sync' = IF clientChange' THEN Started(Cleared(sync)) ELSE Nulled(Cleared(sync))
    /\ kill' = Nulled(Cleared(kill))
    /\ UNCHANGED <<poll, shared, typed, loggedIn, shares, taskHistoryVars>>

RequestFails ==
    /\ airborne
    /\ airborne' = FALSE
    /\ sync' = Nulled(Cleared(sync))
    /\ kill' = Nulled(Cleared(kill))
    /\ UNCHANGED <<poll, clientChange, fileVars, loggedIn, shares, taskHistoryVars>>

\* The editor raises an exception while syncRun2_ hands out the answer.
AnswerFails ==
    /\ airborne
    /\ airborne' = FALSE
    /\ UNCHANGED <<sync, kill, poll, clientChange, fileVars, loggedIn, shares, taskHistoryVars>>

\* [variant] it clears the sync task instead of starting it
SyncKillGivesUp ==
    /\ \E k \in Fired(kill) : kill' = Nulled(k)
    /\ airborne' = FALSE
    /\ sync' = Cleared(sync)
    /\ UNCHANGED <<poll, clientChange, fileVars, loggedIn, shares, taskHistoryVars>>

\* syncKill_: abort makes syncCheckAjax_ see an error, then the task starts
\* anew.  A watchdog without a variable does the same to a later request.
SyncKill ==
    /\ \E k \in Fired(kill) : kill' = Nulled(k)
    /\ airborne' = FALSE
    /\ sync' = Started(Cleared(sync))
    /\ UNCHANGED <<poll, clientChange, fileVars, loggedIn, shares, taskHistoryVars>>

-----------------------------------------------------------------------------
UserNext == Notified \/ LogIn \/ LogOut \/ \E f \in Files : Share(f) \/ Type(f) \/ Unshare(f)
RequestNext == Answered \/ RequestFails \/ AnswerFails

TaskNext == UserNext \/ SyncRun1 \/ PollingRun \/ SyncKill \/ RequestNext

TaskSpec == TaskInit /\ [][TaskNext]_taskVars

\* Timers fire.  Users, the server and the network owe nothing.
FairTaskSpec == TaskSpec /\ WF_taskVars(SyncRun1) /\ WF_taskVars(PollingRun) /\ WF_taskVars(SyncKill)

-----------------------------------------------------------------------------
(***************************************************************************)
(* "Ensure that there is only one sync task." (mobwrite_core.js:879): no   *)
(* run of syncRun1_ is pending besides the one that syncRunPid_ names,     *)
(* whichever handlers set it.                                              *)
(***************************************************************************)
OneSyncTask == sync.lost = 0

(***************************************************************************)
(* An id that is spent makes syncNow and pollingRun believe that a         *)
(* synchronisation is under way: while files are shared, it stays in       *)
(* syncRunPid_ only as long as there is a watchdog to replace it.          *)
(***************************************************************************)
SpentIdIsWatched ==
    sync.pid = "spent" /\ shared # {} /\ ~broken => kill.pid = "live"

(***************************************************************************)
(* A request that is never answered is noticed: while one is in the air, a *)
(* watchdog or a run of the sync task is pending.                          *)
(***************************************************************************)
StalledIsNoticed == airborne /\ ~paused => Pending(kill) \/ Pending(sync) \/ broken

(***************************************************************************)
(* While files are shared the polling timer is pending, unless the sync    *)
(* task was paused: the server deletes the views of clients that idle.     *)
(***************************************************************************)
PollingGoesOn == shared # {} /\ ~paused => Pending(poll)

(***************************************************************************)
(* What was typed into a shared view becomes part of a request, whatever   *)
(* requests were lost, refused or overtaken: unless the file is closed, or *)
(* the task is paused, or an exception has stopped it.                     *)
(***************************************************************************)
TypedGetsSent ==
    \A f \in Files : f \in typed ~> f \notin typed \/ f \in closing \/ paused \/ broken
=============================================================================
