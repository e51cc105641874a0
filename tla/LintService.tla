----------------------------- MODULE LintService -----------------------------
(***************************************************************************)
(* Background syntax checking: the lint buffers of the open views, in the  *)
(* main thread (src/src/chrome/komodo/content/lint/lint.js), and the lint  *)
(* service with its one thread (src/src/lint/koLintService.py), which      *)
(* share the request queue that RequestQueueAbs describes.                 *)
(*                                                                         *)
(* A text is represented by its version, which every edit increases, and a *)
(* lint result by the version it was computed from.  The markers are those *)
(* of the parts of a text, some of which are on screen: more than 50       *)
(* results are drawn only there, and the rest when the user scrolls        *)
(* (src/src/chrome/komodo/content/lint/lintDisplay.js).  A handler of the  *)
(* main thread (a timer, an edit, a scroll, a report) is one action; the   *)
(* linter thread interleaves with them between the steps of its loop.      *)
(*                                                                         *)
(* A definition marked [variant] is a faulty form of the one after it, to  *)
(* show which property notices the fault; no specification uses it.        *)
(***************************************************************************)
EXTENDS LintItems, Integers

CONSTANTS
    Main, Linter,   \* the two threads
    NoThread,
    None,           \* no result, no markers
    Parts,          \* the parts of a text
    Screens,        \* the sets of parts that fit on the screen at once
    MaxEdits,       \* bound: edits of each view
    MaxTimers,      \* bound: lint timers set in a behaviour
    MaxLintNow,     \* bound: lints asked for by command
    MaxSwitches     \* bound: changes of the editUseLinting preference

\* No timer that fires, and no command, is ever short of a request.
ASSUME BoundsAssumption ==
    /\ {MaxEdits, MaxTimers, MaxLintNow, MaxSwitches} \subseteq Nat
    /\ MaxRequests >= MaxTimers + MaxLintNow

ASSUME ThreadsAssumption == Linter # NoThread

ASSUME ScreensAssumption == Screens # {} /\ Screens \subseteq SUBSET Parts

Views == Uids
Threads == {Main, Linter}

VARIABLES
    queue, taker, got,      \* the request queue (see RequestQueueAbs)
    request,                \* fields rid and ver of each request made
    issued,                 \* requests made so far
    manager,                \* where the linter thread stands in run()
    outcome,                \* the results it is about to report
    shuttingDown,           \* _shuttingDown
    doc,                    \* version of the text of each view
    alive,                  \* the view is open and has its lint buffer
    enabled,                \* lintBuffer.lintingEnabled
    lastTimeoutId,          \* lintBuffer._lastTimeoutId, 0 if no timer is set
    lastRequestId,          \* lintBuffer._lastRequestId
    lintResults,            \* lintBuffer.lintResults
    marks,                  \* the markers drawn in each part of the view's text
    screen,                 \* the parts of the text that are on screen
    listeners,              \* the view's scroll listeners: results of each closure
    handleScroll,           \* lintBuffer.handleScroll is set: the last of them
    recalculating,          \* lintBuffer.recalculatingResults
    clears,                 \* displayClear calls scheduled by _clearResults
    timers,                 \* timer ids given out so far
    lintNows,               \* lints asked for by command so far
    switches,               \* changes of editUseLinting so far
    reported,               \* history: version of the last accepted report
    off,                    \* history: switched off since the last timer fired
    superseded,             \* history: last request made before a timer fired
    asked                   \* history: doRequest used since a timer removed all listeners

queueVars == <<queue, taker, got>>
serviceVars == <<manager, outcome, shuttingDown>>
scrollVars == <<screen, listeners, handleScroll>>
displayVars == <<lintResults, marks, clears, recalculating, scrollVars>>
countVars == <<request, issued, timers, lintNows, switches>>
historyVars == <<reported, off, superseded, asked>>
vars == <<queueVars, serviceVars, displayVars, countVars, historyVars,
          doc, alive, enabled, lastTimeoutId, lastRequestId>>

Q == INSTANCE RequestQueueAbs

Init ==
    /\ Q!AbsInit
    /\ request = [n \in 1..MaxRequests |-> [rid |-> 0, ver |-> 0]]
    /\ issued = 0
    /\ manager = "waiting"
    /\ outcome = None
    /\ shuttingDown = FALSE
    /\ doc = [v \in Views |-> 0]
    /\ alive = [v \in Views |-> TRUE]
    /\ enabled = [v \in Views |-> TRUE]
    /\ lastTimeoutId = [v \in Views |-> 0]
    /\ lastRequestId = [v \in Views |-> 0]
    /\ lintResults = [v \in Views |-> None]
    /\ marks = [v \in Views |-> [p \in Parts |-> None]]
    /\ screen \in [Views -> Screens]
    /\ listeners = [v \in Views |-> <<>>]
    /\ handleScroll = [v \in Views |-> FALSE]
    /\ recalculating = [v \in Views |-> FALSE]
    /\ clears = [v \in Views |-> 0]
    /\ timers = 0
    /\ lintNows = 0
    /\ switches = 0
    /\ reported = [v \in Views |-> -1]
    /\ off = [v \in Views |-> FALSE]
    /\ superseded = [v \in Views |-> 0]
    /\ asked = [v \in Views |-> FALSE]

-----------------------------------------------------------------------------
(* Pieces of handlers. *)

\* [variant] Cancels the requests of every view.
CancelledQueueForgetsUid(v) == IF taker = NoThread THEN <<>> ELSE queue

\* cancelPendingRequests(uid): remove_uid gives up while the thread is in get.
CancelledQueue(v) == IF taker = NoThread THEN WithoutUid(queue, v) ELSE queue

\* [variant] The newest request is served first.
IssueRequestFirst(v, rid, pending) ==
    /\ issued' = issued + 1
    /\ request' = [request EXCEPT ![issued + 1] = [rid |-> rid, ver |-> doc[v]]]
    /\ queue' = <<[uid |-> v, num |-> issued + 1]>> \o pending
    /\ UNCHANGED <<taker, got>>

\* _issueRequest(): the text and the rid go into a new request.
IssueRequest(v, rid, pending) ==
    /\ issued' = issued + 1
    /\ request' = [request EXCEPT ![issued + 1] = [rid |-> rid, ver |-> doc[v]]]
    /\ queue' = Append(pending, [uid |-> v, num |-> issued + 1])
    /\ UNCHANGED <<taker, got>>

\* _clearResults(): the results go now, the markers when a timeout of 0 fires.
ClearResults(v) ==
    /\ lintResults' = [lintResults EXCEPT ![v] = None]
    /\ clears' = [clears EXCEPT ![v] = @ + 1]
    /\ UNCHANGED <<marks, scrollVars>>

\* updateDisplayedIndicators(): markers of r in some parts, for any there were.
Draw(v, parts, r) ==
    marks' = [marks EXCEPT ![v] = [p \in Parts |-> IF p \in parts THEN r ELSE @[p]]]

\* [variant] The listener is forgotten, not removed.
ForgetPendingItems(v) ==
    /\ handleScroll' = [handleScroll EXCEPT ![v] = FALSE]
    /\ UNCHANGED listeners

\* cancelPendingItems(): of several listeners only the last is still known.
CancelPendingItems(v) ==
    /\ listeners' = [listeners EXCEPT
           ![v] = IF handleScroll[v] THEN SubSeq(@, 1, Len(@) - 1) ELSE @]
    /\ handleScroll' = [handleScroll EXCEPT ![v] = FALSE]

\* request(reason): (re)start the timer; the first of a series may clear.
RequestLint(v, clear) ==
    /\ timers < MaxTimers
    /\ timers' = timers + 1
    /\ lastTimeoutId' = [lastTimeoutId EXCEPT ![v] = timers + 1]
    /\ recalculating' = [recalculating EXCEPT ![v] = @ \/ lastTimeoutId[v] = 0]
    /\ IF lastTimeoutId[v] = 0 /\ clear
       THEN ClearResults(v)
       ELSE UNCHANGED <<lintResults, marks, clears, scrollVars>>

-----------------------------------------------------------------------------
(* The main thread.  After xpcom-shutdown there is no window to run them. *)

\* The user changes the text; lintClearOnTextChange may have either value.
Edit(v) ==
    /\ ~shuttingDown /\ alive[v]
    /\ doc[v] < MaxEdits
    /\ doc' = [doc EXCEPT ![v] = @ + 1]
    /\ \/ enabled[v] /\ \E clear \in BOOLEAN : RequestLint(v, clear)
       \/ ~enabled[v] /\ UNCHANGED <<timers, lastTimeoutId, displayVars>>
    /\ UNCHANGED <<queueVars, serviceVars, historyVars, request, issued, lintNows,
                   switches, alive, enabled, lastRequestId>>

\* observe(): a preference of the language's linters changed.
LinterPrefChanged(v) ==
    /\ ~shuttingDown /\ alive[v] /\ enabled[v]
    /\ RequestLint(v, TRUE)
    /\ UNCHANGED <<queueVars, serviceVars, historyVars, request, issued, lintNows,
                   switches, doc, alive, enabled, lastRequestId>>

\* _continueRequest(): the lint timer fires, also after the view was closed.
ContinueRequest(v) ==
    /\ ~shuttingDown
    /\ lastTimeoutId[v] # 0
    /\ lastRequestId' = [lastRequestId EXCEPT ![v] = lastTimeoutId[v]]
    /\ lastTimeoutId' = [lastTimeoutId EXCEPT ![v] = 0]
    /\ \/ /\ alive[v]
          /\ IssueRequest(v, lastTimeoutId[v], CancelledQueue(v))
          /\ CancelPendingItems(v)
          /\ asked' = [asked EXCEPT ![v] = @ /\ listeners'[v] # <<>>]
          /\ superseded' = [superseded EXCEPT ![v] = issued]
          /\ off' = [off EXCEPT ![v] = @ /\ ~enabled[v]]
       \/ /\ ~alive[v]
          /\ UNCHANGED <<queueVars, request, issued, superseded, off,
                         listeners, handleScroll, asked>>
    /\ UNCHANGED <<serviceVars, lintResults, marks, clears, screen, recalculating,
                   timers, lintNows, switches, reported, doc, alive, enabled>>

\* ko.lint.doRequest(): at once, under the rid of the last timer that fired.
LintNow(v) ==
    /\ ~shuttingDown /\ alive[v]
    /\ lintNows < MaxLintNow
    /\ lintNows' = lintNows + 1
    /\ IssueRequest(v, lastRequestId[v], queue)
    /\ asked' = [asked EXCEPT ![v] = TRUE]
    /\ UNCHANGED <<serviceVars, displayVars, reported, off, superseded, timers,
                   switches, doc, alive, enabled, lastTimeoutId, lastRequestId>>

\* handleScroll(): the text scrolls or the cursor moves, every listener draws.
Scroll(v) ==
    /\ ~shuttingDown /\ alive[v]
    /\ screen' \in {[screen EXCEPT ![v] = s] : s \in Screens}
    /\ IF recalculating[v] \/ listeners[v] = <<>>
       THEN UNCHANGED marks
       ELSE Draw(v, screen'[v], listeners[v][Len(listeners[v])])
    /\ UNCHANGED <<queueVars, serviceVars, countVars, historyVars, lintResults, clears,
                   recalculating, listeners, handleScroll, doc, alive, enabled,
                   lastTimeoutId, lastRequestId>>

\* ko.lint.clearResults(); bound: one scheduled clear at a time.
ClearCommand(v) ==
    /\ ~shuttingDown /\ alive[v]
    /\ clears[v] = 0
    /\ ClearResults(v)
    /\ UNCHANGED <<queueVars, serviceVars, countVars, historyVars, recalculating,
                   doc, alive, enabled, lastTimeoutId, lastRequestId>>

\* observe(): editUseLinting becomes false.
SwitchOff(v) ==
    /\ ~shuttingDown /\ alive[v] /\ enabled[v]
    /\ switches < MaxSwitches
    /\ switches' = switches + 1
    /\ enabled' = [enabled EXCEPT ![v] = FALSE]
    /\ queue' = CancelledQueue(v)
    /\ ClearResults(v)
    /\ off' = [off EXCEPT ![v] = TRUE]
    /\ UNCHANGED <<taker, got, serviceVars, request, issued, timers, lintNows,
                   reported, superseded, asked, recalculating, doc, alive,
                   lastTimeoutId, lastRequestId>>

\* observe(): it becomes true; only the current view asks for a lint.
SwitchOn(v) ==
    /\ ~shuttingDown /\ alive[v] /\ ~enabled[v]
    /\ switches < MaxSwitches
    /\ switches' = switches + 1
    /\ enabled' = [enabled EXCEPT ![v] = TRUE]
    /\ \/ RequestLint(v, TRUE)
       \/ UNCHANGED <<timers, lastTimeoutId, displayVars>>
    /\ UNCHANGED <<queueVars, serviceVars, historyVars, request, issued, lintNows,
                   doc, alive, lastRequestId>>

\* destructor(): the view is closed.
Close(v) ==
    /\ ~shuttingDown /\ alive[v]
    /\ alive' = [alive EXCEPT ![v] = FALSE]
    /\ queue' = CancelledQueue(v)
    /\ ClearResults(v)
    /\ UNCHANGED <<taker, got, serviceVars, countVars, historyVars, recalculating,
                   doc, enabled, lastTimeoutId, lastRequestId>>

\* A scheduled displayClear; a closed view may or may not still have its koDoc.
DisplayClear(v) ==
    /\ ~shuttingDown
    /\ clears[v] > 0
    /\ clears' = [clears EXCEPT ![v] = @ - 1]
    /\ \/ Draw(v, Parts, None)
       \/ ~alive[v] /\ UNCHANGED marks
    /\ UNCHANGED <<queueVars, serviceVars, countVars, historyVars, lintResults,
                   recalculating, scrollVars, doc, alive, enabled, lastTimeoutId,
                   lastRequestId>>

\* [variant] The sentinel waits for its turn.
TerminateInTurn ==
    /\ ~shuttingDown
    /\ Q!AbsPut(Quit)
    /\ shuttingDown' = TRUE
    /\ UNCHANGED <<manager, outcome, displayVars, countVars, historyVars,
                   doc, alive, enabled, lastTimeoutId, lastRequestId>>

\* [variant] The thread is not told.
TerminateSilently ==
    /\ ~shuttingDown
    /\ shuttingDown' = TRUE
    /\ UNCHANGED <<queueVars, manager, outcome, displayVars, countVars, historyVars,
                   doc, alive, enabled, lastTimeoutId, lastRequestId>>

\* observe(xpcom-shutdown) -> terminate().
Terminate ==
    /\ ~shuttingDown
    /\ Q!AbsPrepend
    /\ shuttingDown' = TRUE
    /\ UNCHANGED <<manager, outcome, displayVars, countVars, historyVars,
                   doc, alive, enabled, lastTimeoutId, lastRequestId>>

-----------------------------------------------------------------------------
(* The linter thread: run(). *)

uiVars == <<displayVars, countVars, historyVars, doc, alive, enabled,
            lastTimeoutId, lastRequestId>>

GetBegin ==
    /\ manager = "waiting"
    /\ Q!AbsReserve(Linter)
    /\ manager' = "taking"
    /\ UNCHANGED <<outcome, shuttingDown, uiVars>>

GetEnd ==
    /\ manager = "taking"
    /\ Q!AbsGet(Linter)
    /\ manager' = IF got' = Quit THEN "ended" ELSE "linting"
    /\ UNCHANGED <<outcome, shuttingDown, uiVars>>

\* The linter runs; it may fail or return nothing.  Then the check of
\* _shuttingDown, on which the proxied call depends.
Lint ==
    /\ manager = "linting"
    /\ IF shuttingDown
       THEN manager' = "waiting" /\ outcome' = None
       ELSE manager' = "reporting" /\ outcome' \in {request[got.num].ver, None}
    /\ UNCHANGED <<queueVars, shuttingDown, uiVars>>

\* [variant] Only the view is looked at, or only the rid.
AcceptsAnyRid(v, num) == alive[v]
AcceptsClosedView(v, num) == request[num].rid = lastRequestId[v]

\* reportResults(request), run by the main thread while the linter waits.
Accepts(v, num) == alive[v] /\ request[num].rid = lastRequestId[v]

\* _display(): up to 50 results are drawn everywhere, and more only on screen
\* until the user scrolls; the listener for that joins those there are.
Display(v) ==
    \/ /\ Draw(v, Parts, outcome)
       /\ UNCHANGED <<listeners, handleScroll>>
    \/ /\ Draw(v, screen[v], outcome)
       /\ listeners' = [listeners EXCEPT ![v] = Append(@, outcome)]
       /\ handleScroll' = [handleScroll EXCEPT ![v] = TRUE]

\* [variant] A lint that failed leaves the previous results in place.
ShowResultsIfAny(v) ==
    IF outcome = None
    THEN UNCHANGED <<lintResults, marks, recalculating, listeners, handleScroll>>
    ELSE /\ lintResults' = [lintResults EXCEPT ![v] = outcome]
         /\ Display(v)
         /\ recalculating' = [recalculating EXCEPT ![v] = FALSE]

\* The markers are redrawn only when there are results.
ShowResults(v) ==
    /\ lintResults' = [lintResults EXCEPT ![v] = outcome]
    /\ IF outcome = None
       THEN UNCHANGED <<marks, recalculating, listeners, handleScroll>>
       ELSE Display(v) /\ recalculating' = [recalculating EXCEPT ![v] = FALSE]

\* With the shutdown under way the proxied call reaches nobody.
Report ==
    /\ manager = "reporting"
    /\ manager' = "waiting"
    /\ outcome' = None
    /\ LET v == got.uid IN
       \/ /\ ~shuttingDown /\ Accepts(v, got.num)
          /\ ShowResults(v)
          /\ reported' = [reported EXCEPT ![v] = request[got.num].ver]
       \/ /\ shuttingDown \/ ~Accepts(v, got.num)
          /\ UNCHANGED <<lintResults, marks, recalculating, listeners, handleScroll,
                         reported>>
    /\ UNCHANGED <<queueVars, shuttingDown, clears, screen, countVars, off, superseded,
                   asked, doc, alive, enabled, lastTimeoutId, lastRequestId>>

-----------------------------------------------------------------------------
MainNext ==
    \/ \E v \in Views :
        \/ Edit(v) \/ LinterPrefChanged(v) \/ LintNow(v) \/ ClearCommand(v)
        \/ SwitchOff(v) \/ SwitchOn(v) \/ Close(v)
        \/ ContinueRequest(v) \/ DisplayClear(v) \/ Scroll(v)
    \/ Terminate

LinterNext == GetBegin \/ GetEnd \/ Lint

Next == MainNext \/ LinterNext \/ Report

Spec == Init /\ [][Next]_vars

(***************************************************************************)
(* Timers fire, the thread runs, and the main thread serves the thread's   *)
(* proxied call as long as it runs its event loop.  The user does nothing  *)
(* in particular.                                                          *)
(***************************************************************************)
Fairness ==
    /\ WF_vars(LinterNext)
    /\ WF_vars(Report /\ ~shuttingDown)
    /\ \A v \in Views : WF_vars(ContinueRequest(v)) /\ WF_vars(DisplayClear(v))

FairSpec == Spec /\ Fairness

-----------------------------------------------------------------------------
Versions == 0..MaxEdits
Result == Versions \cup {None}

TypeOK ==
    /\ queue \in Seq(Item)
    /\ taker \in {Linter, NoThread}
    /\ got \in Item \cup {Nothing}
    /\ request \in [1..MaxRequests -> [rid : 0..MaxTimers, ver : Versions]]
    /\ issued \in 0..MaxRequests
    /\ manager \in {"waiting", "taking", "linting", "reporting", "ended"}
    /\ outcome \in Result
    /\ shuttingDown \in BOOLEAN
    /\ doc \in [Views -> Versions]
    /\ alive \in [Views -> BOOLEAN]
    /\ enabled \in [Views -> BOOLEAN]
    /\ lastTimeoutId \in [Views -> 0..MaxTimers]
    /\ lastRequestId \in [Views -> 0..MaxTimers]
    /\ lintResults \in [Views -> Result]
    /\ marks \in [Views -> [Parts -> Result]]
    /\ screen \in [Views -> Screens]
    /\ listeners \in [Views -> Seq(Versions)]
    /\ handleScroll \in [Views -> BOOLEAN]
    /\ recalculating \in [Views -> BOOLEAN]
    /\ clears \in [Views -> Nat]
    /\ timers \in 0..MaxTimers
    /\ lintNows \in 0..MaxLintNow
    /\ switches \in 0..MaxSwitches
    /\ reported \in [Views -> Versions \cup {-1}]
    /\ off \in [Views -> BOOLEAN]
    /\ superseded \in [Views -> 0..MaxRequests]
    /\ asked \in [Views -> BOOLEAN]
    /\ manager = "taking" <=> taker = Linter
    /\ manager \in {"linting", "reporting"} => got \in Request
    /\ issued <= timers + lintNows

\* A request of v that is still to be linted or reported, or a timer for one.
Outstanding(v) ==
    \/ lastTimeoutId[v] # 0
    \/ \E i \in DOMAIN queue : queue[i] # Quit /\ queue[i].uid = v
    \/ manager \in {"linting", "reporting"} /\ got.uid = v

(***************************************************************************)
(* Once the service has nothing left to do for an open view, the results   *)
(* the view holds, if it holds any, are those of its present text (unless  *)
(* linting was off: then the next timer catches up).                       *)
(***************************************************************************)
ResultsCurrent ==
    \A v \in Views :
        alive[v] /\ ~off[v] /\ ~shuttingDown /\ ~Outstanding(v)
            => lintResults[v] \in {None, doc[v]}

(***************************************************************************)
(* Once nothing is outstanding for an open view, the markers on its screen *)
(* are those of the results it holds, wherever the user has scrolled to,   *)
(* although more than 50 results are drawn only as they come into view and *)
(* the listener that draws them has older ones after the next report.  Not *)
(* so after doRequest, which does not remove the listener, until a timer   *)
(* leaves none: then the older results come back over the newer ones.      *)
(***************************************************************************)
MarksAgree ==
    \A v \in Views :
        alive[v] /\ ~asked[v] /\ ~shuttingDown /\ ~Outstanding(v)
            /\ lintResults[v] # None
        => \A p \in screen[v] : marks[v][p] \in {None, lintResults[v]}

Reporting(v) == Report /\ got.uid = v /\ ~shuttingDown /\ Accepts(v, got.num)

(***************************************************************************)
(* "Ignore results that are not the last one issued" (lint.js:404): a      *)
(* request made before the view's last lint timer fired is not reported    *)
(* after it, though cancelling it may have come too late.                  *)
(***************************************************************************)
SupersededRunIgnored ==
    [][\A v \in Views : Reporting(v) => got.num > superseded[v]]_vars

(***************************************************************************)
(* The results of an older text never replace those of a newer one, also   *)
(* when doRequest makes several requests under one rid.                    *)
(***************************************************************************)
ReportsInOrder == [][\A v \in Views : reported'[v] >= reported[v]]_vars

(***************************************************************************)
(* A closed view is left alone: its timer may still fire and the linter    *)
(* may still be working on it, but no request is made for it any more, no  *)
(* results reach it, and its markers at most go away.                      *)
(***************************************************************************)
ClosedViewIsLeftAlone ==
    [][\A v \in Views : ~alive[v] =>
         /\ ~alive'[v]
         /\ lintResults'[v] = None
         /\ \A p \in Parts : marks'[v][p] \in {marks[v][p], None}
         /\ issued' > issued => queue'[Len(queue')].uid # v]_vars

(***************************************************************************)
(* The quit sentinel overtakes what is queued: after terminate() the       *)
(* thread finishes at most the request it is working on.                   *)
(***************************************************************************)
NoLintAfterTerminate ==
    [][shuttingDown /\ manager' = "linting" => manager = "linting"]_vars

(***************************************************************************)
(* A text the user changes while linting is on is linted and reported at   *)
(* last, or a later version of it is, unless the view is closed, linting   *)
(* is switched off, or Komodo shuts down.                                  *)
(***************************************************************************)
EditsGetLinted ==
    \A v \in Views, n \in 1..MaxEdits :
        (doc[v] = n /\ enabled[v] /\ ~off[v])
            ~> (reported[v] >= n \/ off[v] \/ ~alive[v] \/ shuttingDown)

(***************************************************************************)
(* terminate() ends the thread, unless a report is stuck in its proxied    *)
(* call to a main thread that has stopped serving calls.                   *)
(***************************************************************************)
ManagerStops == shuttingDown ~> manager \in {"ended", "reporting"}
=============================================================================
