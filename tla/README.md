# Komodo IDE: a TLA+ verification project

TLA+ modules for the concurrent core of Komodo IDE (`src/src/...` and the
services under `src/services/...`), TLC configurations that check them on small
instances, and TLAPS proofs for every value of the constants. Paths below are
relative to the repository root.

Running it: `tlc -config MCRequestQueue.cfg MCRequestQueue` (likewise for the
other configurations; `MCLintServiceViews.cfg` goes with `MCLintService`,
`MCFileStatusFull.cfg` with `MCFileStatus`, `MCMobWriteAtomic.cfg` with
`MCMobWrite`, `MCDocumentClean.cfg` with `MCDocument`), and `tlapm M.tla` for each
of `Subsequences_proofs`, `RequestQueue_proofs`, `LintService_proofs`,
`FileStatus_proofs`, `Collaboration_proofs`, `AsyncOps_proofs`, `Document_proofs`,
`History_proofs`.

## 1. Inventory

Komodo is a Mozilla application: windows and views are XUL and JavaScript, and
run on one *main thread*; services are Python XPCOM components, several of
which keep a *background thread* of their own. A background thread calls back
into the main thread through a proxied call (`ProxyToMainThread` waits for the
answer, `ProxyToMainThreadAsync` does not). The collaboration feature adds a
server that several Komodos talk to.

| component | state it keeps | operations | talks to | what is hard | what makes it correct |
|---|---|---|---|---|---|
| Lint request queue (`lint/koLintService.py`, `RequestQueue`) | list, two locks | put, prepend, get, remove_uid | main thread and linter thread | two locks, one of them acquired by one thread and released by another, one non-blocking acquire | mutual exclusion, no take from an empty list, no lost wakeup, atomicity |
| Background linting (`lint/koLintService.py`, `chrome/.../lint.js`, `lintDisplay.js`) | per view: timer, last request id, results, markers, scroll listeners; queue; shutdown flag | edit, command, preference, timer, scroll, close, report, terminate | views, queue, linters | results that arrive after the text, the view or the preference changed | what is shown belongs to the text, the markers to the results; closing and shutdown are final |
| File status service (`components/koFileStatusService.p.py`, `views/koFileService.py`) | pending items, pending reason, flags; monitored files and observers | updateStatusFor..., fileNotification, observe, unload, the thread | everything that shows files; notification service; source control | condition variable, flags read without it, a decision between items and full check | nothing asked for is lost, the thread does not sleep on work, shutdown ends it |
| File change notification (`filesystem/*`) | observers, cache of directory listings | addObserver, removeObserver, polling, start, stop | file status, places | checks outside the lock, restart, dead observers | an observer gets every change once, none after removal |
| Asynchronous operations (`run/koAsyncOperations.py`) | running operations, counters per URI | run, stop, queries | source control, remote files, views | counting, callback before unlock, stop before start | a URI is locked exactly while an operation on it runs |
| Collaboration: synchronisation (`modules/collaboration/content/mobwrite_core.js`, `services/collaboration/komob-server/src/mobwrite/core.py`, `komob/models.py`) | client: shadow, versions, edit stack; server: text, and per view shadow, backup, versions, edit stack | edit, synchronise, merge, watchdog, cleanup, push | other clients through the server | lost answers, retries, several deltas in one request, expired views | every edit is merged once, shadows agree, texts converge |
| Collaboration: scheduling (`mobwrite_core.js`, `shareObj.js`, `sessions.js`) | ids of the polling, synchronisation and watchdog timers | share, syncNow, pause, resume, kill | the editor, the push socket | overlapping timers and requests | one synchronisation at a time, and always another to come |
| Documents, autosave (`views/koDocument.py`, `views/koDocumentService.py`) | buffer, dirty flag, file, autosave file; table of weak references | open, edit, save, revert, autosave, restore, close | views, file objects, file status | autosave thread against main thread, failed save, crash | the user's text is on disk or in the autosave file; an autosave file is never older than the save |
| Editor history (`history/editorhistory.py`, `history.js`) | chain of visits in SQLite, two cached stacks, last visit | note_loc, go_back, go_forward, obsolete_uri, save, load | views | splicing, cache replenishing, restart | the stacks are the chain; back then forward returns |
| Running commands (`run/*`, `process.py`) | child, pipes, copying threads | run, kill, input, end | terminal view | end of process against end of output | all output shown, then the exit, once |
| Preferences, observers, notifications, find, toolbox, projects, source control, linters, code intelligence, languages, commando, publishing, HTTP inspector, startup, small web services | see PROJECT.json | | | mostly sequential, user interface, computation on texts or external processes | |

`PROJECT.json` lists every component with its files and the reason for its
status, and under `hazards` what is hard to test, each at its line.

## 2. What is modelled

### Lint request queue: `Subsequences`, `LintItems`, `RequestQueueAbs`, `RequestQueue`

`RequestQueue` follows the Python code from lock operation to lock operation.
`pc[t]` says where thread `t` stands: `put_lock` before `mutex.acquire()`,
`put_body` with the mutex held, `put_signal` before `if was_empty:
self.esema.release()`, `unlock` before `mutex.release()`; likewise `get_...`
and `rm_...`, which end in the shared `take_signal`. What runs with `mutex`
held and touches only the list is one step. `flag` is the local `was_empty` or
`release_esema`, `arg` the argument of the call. `put` and `prepend` differ in
the end of the list only, and share their steps.

`RequestQueueAbs` is the queue the rest of the program believes in: every
operation takes effect at one instant. It has one concession: a *taker* reserves
the right to remove items before it does so, because `get` acquires `esema`
before it looks, and `remove_uid` gives up meanwhile. `Refines` maps the thread
that stands between acquiring `esema` and the removal to the taker.

A request is its uid and a number that stands for its identity. `WithoutUid`
is the comprehension of `_remove_uid`, including that it drops the sentinel,
which has no uid; `Picked` of `Subsequences` (the elements at certain positions, in
their order) says what a comprehension returns.

### Background linting: `LintService`

Composes the lint buffers of `lint.js` with the thread of `koLintService.py`
over `RequestQueueAbs` (justified by `Refines`). A handler of the main thread is
one action, since JavaScript handlers do not interleave: `Edit` (with the
restart of the timer and, if `lintClearOnTextChange` is set, the clearing),
`LinterPrefChanged`, `ContinueRequest` (the timer), `LintNow` (`ko.lint.doRequest`),
`ClearCommand`, `SwitchOff`/`SwitchOn` (`editUseLinting`), `Close`,
`DisplayClear` (the timeout of 0 that removes the markers), `Scroll` (what a scroll
listener does), `Terminate`, and `Report` (`reportResults`, called by the linter thread and run by the main
thread). The linter thread has `GetBegin`, `GetEnd`, `Lint`.

A report of up to 50 results draws the markers of the whole text. One of more draws
those on screen and adds a listener, which keeps these results and draws them where the
user scrolls to (`Display`, `lintDisplay.js`). So `marks` says for each part of a text (`Parts`)
whose results are drawn there, `screen` which parts are visible, `listeners` the results
that each registered listener keeps, and `handleScroll` whether the buffer knows the
last of them, which only `CancelPendingItems` of a lint timer removes. All listeners draw on
a scroll, so the last one registered shows, unless `recalculating`.

Abstractions: a text is its version; how many results a linter finds is a choice;
a result is the version it was computed
from, or `None` for a linter that failed or returned nothing; which of the
results reported for a version came from which linter does not matter.
Assumed: the view's language has a linter and creating it succeeds (otherwise
`_issueRequest` makes no request), and a text has some length (an empty one has no
place for markers, and `_display` does nothing). `terminate` sets `_shuttingDown` after
`prepend`; the model does both in `Terminate`, because the main thread runs
nothing in between and what the linter thread could do in between (take the
sentinel, or go on with the request in hand) it can also do before or after.

### File status: `FileStatus`

The thread of `_process` and all calls that give it work. What holds `_cv` is
one action; where the thread touches shared state without it (`_check_all`, the
lists of `koFileService`, `_monitoredUrls`, `shutdown` between files) its steps are
separate: `Top`, `StartWaiting`/`WaitTimesOut`, `Decide` (taking the items and
choosing between a pass for items and a full check), `ListFiles`,
`ResetCheckAll`, `WatchDirs`, `CheckFile`/`FileChecked` per item, `EndPass`,
`Stop`, `PassFails`. `Notify` moves only a thread that is waiting, as a condition
variable does.

Abstractions: one checker that is always active stands for the list of them;
files are local and stay referenced; `directoryMonitoringTimeout` is positive;
times are choices (a directory not asked for may or may not have expired; the
background check may or may not be due, but never while the user is idle).

A weakness of the callbacks shows in the model and has no run: one event
serves all requests and the end of every pass sets it (`EndPass`), also of a
pass that took its items before the request, so a callback may come with its
item still waiting.

### Collaborative editing: `MobWrite`

Both sides of the MobWrite protocol and the network between them, for one shared
file. `client[c]` is the editor's text and the `shareObj` (`shadow` is
`shadowText`, `cv`/`sv` the versions, `ok` is `deltaOk`, `stack` the
`editStack`); `view[c]` is the stored `ViewObj` (`scv`/`ssv`/`bsv` its three
versions), `text` the stored `TextObj`. `phase[c]` says where the synchronisation of
`c` stands, `msg[c]` what is still to be handled of the request or answer, and
`job[c]` holds the server's own instances while it serves the request: its view
is written back by `Answer`, and its text is read from the database once and
kept (`Loaded`).

Client: `Sync` (`syncRun1_` with `syncText`), `ReadFile`, `ReadEdit`, `ReadEnd`
(`syncRun2_`, line by line), `Lose` (`syncKill_`, and `syncCheckAjax_` with an
error), `Insert` and `Delete` (the user). Server: `Fetch`, then one of `TakeRaw`,
`RefuseDelta`, `SkipDelta`, `MergeDelta` for each line of the request, then `Answer`
(`generateDiffs`), or `ServerError` when that raises an exception; `Cleanup`
(`cleanup_views`). The server's steps for different clients interleave, since
only `MergeDelta` holds the lock of the text.

A text is a set of pieces of one length. A delta carries the text it was made
from only so that properties can ask for it; the actions look at nothing but its
length (`Fits`), as `diff_fromDelta` does. `id`, `seen` and `replaced` are history:
which delta is which, which the server has accepted, and which clients had to take
the server's text and have not sent a raw text since. `misread` becomes true when the
server takes a delta of such a client for one it has seen, or for the next one (see
section 4): whether the texts converge after that is chance. `Edits`, `ShareObjs` and
`ViewObjs` are the sets of what a stack, a client and the server's table can hold.

Assumed: a patch finds its place when what it removes is there (no conflicting
edits of one piece; inserting twice what is there already is not told from inserting
it once); a request is served before its client gives it up after ten seconds,
or never; others join when the owner's text has arrived, and type after their
first synchronisation. The redisco models read an attribute when it is first
used and keep it; that is external to this repository.

### When a client synchronises: `SyncTask`

The scheduling half of `mobwrite_core.js`: three timers, the request in the air,
and the handlers that set, clear and forget them. (Its specification is `TaskSpec`, its
states `TaskInit`, so that it and `MobWrite` can be extended together.) A JavaScript variable keeps the id
of a timer after it has fired, and the code tests the variable. So a
timer is a record: `pid` is "null", "live" (the variable names a pending timer) or
"spent" (it names one that fired or was cleared), and `lost` counts pending
timers that no variable names. `sync`, `kill` and `poll` are
`syncRunPid_`, `syncKillPid_` and `pollingRunPid`.

One action per handler: `Share`, `Type`, `Unshare`, `Notified` (the push channel, or
the user reconnects), `PollingRun`, `LogIn`, `LogOut`; `syncRun1_` is
`PauseSyncTask`, `NothingShared`, `Send`, `NullSync` (every file too large) or
`SyncTextFails`; the request ends in `Answered`, `RequestFails`, `AnswerFails` or
`SyncKill`. What a request contains is `MobWrite`'s subject; here a file only has something
`typed` that no request contains yet. `paused` and `broken` are history.

### Asynchronous operations: `AsyncOps`

An operation has a thread. Its steps are `Register` (into the list and the two
dictionaries, under `_lock`), `Begin` (the first notification, and the status),
`Change` (external: what the operation does to its files), `Finish` or `Fail`,
`Callback` (run by the main thread while the thread waits), `Unregister`, `End` (the
last notification). The main thread has `Run`, `Stop` and `Deliver`, which hands a
posted notification to the trees: they look in the dictionary then, and show or
remove the throbber. `stale` relates the operations to the check for files changed
on disk in `views.p.js`, which passes over pending URIs.

Operations differ in whether they lock, notify and have a callback; these are constants.
What an operation does to its files is left out but for the fact that they change.

### Documents and autosave: `Document`

One document, its file, its autosave file, the autosave thread, other programs and a
crash. Dialogs are states of the main thread (`main`), since others' calls are
served while one is open. A save is two steps, `Save` (it truncates the file) and
`Write` or `WriteFails`; a crash in between leaves a torn file. The autosave
thread has `List`, `Test` and `AutoSave` (proxied to the main thread), so that a save or
close may come between any two. `External` is another program's write. `recent` is
the comparison of the two files' times: equal after a
write within one tick, hence a choice in `DiskWritten`. `kept` and `known` are history: what
the user was told.

Assumed: a local file that always exists, one view, no operation pending on the file, and the
preference `donotask_buffer_conflicts_with_file_on_disk` not set. Left out:
the clean-up of line ends and blanks before a save, Save As, untitled and remote
documents, several views.

### Editor history: `History`

`db` is the table of visits (place, referer, obsolete), `back` and `forward` the two deques
of `HistorySession`, `last` its `_last_visit`. Actions: `Note`; `Move`
(`history_back` and `history_forward`, by a command or from the list), which goes on to
`Skip` and `Again` when the place is gone (`obsolete_uri`, reload the cache, try again), or
waits as `opening` for `Opened` or `LoadFails` when the file is not open;
`CloseTemporary`; `Close` and `Load`. `Way` and `Chain` read the chain of referers as the
generators over the database do (`Way` is every step of it, `Chain` the
rows `Picked` from it); `LoadCache` and `Replenished` are the two ways
of reading it into the deques, with what each of them forgets.

A place stands for URI, line and column together. `expired` counts the rows that
`_write_db_to_disk` drops: the database is in memory and written when the program is
closed, so a crash only brings back the state of the last `Load`. Assumed: the preference to restore
the history is set (it is not by default; the deques then start empty,
and their lengths have no limit), one session, and the current location read
before a move is that of an open view. Left out: marker handles, section titles,
recently closed tabs, recent URIs.

## 3. The runs

| run | instance | shows |
|---|---|---|
| `queue` | two callers, one worker, two views, two requests, one quit | the lock protocol, the refinement and that every request leaves the list |
| `lint` | one view of two parts, one on screen at a time, 1 edit, 2 timers, 1 command, 2 switches, 3 requests | results, markers, stale reports, order, shutdown |
| `lint_views` | two views, 1 edit each, 2 timers, 2 requests | views do not disturb each other; edits get linted |
| `file_status` | two files in two directories, 2 requests, every other call unbounded | all pass properties of FileStatus |
| `file_status_full` | same, with both files in one directory | **disagreement**: a full check that does not cover all files |
| `mobwrite` | two users, a text of one piece and two to insert, 2 edits, 2 lost messages, 2 views cleaned up | deltas meet their text, no delta merged twice, texts converge |
| `mobwrite_atomic` | same, 1 lost message, no clean-up | **disagreement**: a merge that overwrites another |
| `sync_task` | two files, 3 calls of share, everything else unbounded | one sync task, lost requests noticed, polling goes on, typed text sent |
| `async_ops` | three operations on two URIs | counters, throbbers, no false warning, stops, every URI freed |
| `document` | three texts and a torn file, nothing bounded | edits are dirty, overwrites are known, autosave comes |
| `document_clean` | same | **disagreement**: a clean document that is not what is in the file |
| `history` | one file, two buffers, 4 visits, moves of 1 or 2, cache of 2, 3 rows kept | nothing obsolete, nothing twice, failed moves undone |

The types of `queue`, the two lint runs, `file_status`, `sync_task`, `async_ops` and
`document` are not invariants of their runs, because they are proved for all constants
(section 5).

Why the bounds are enough. Two callers are one more than Komodo has, and make
put, prepend and remove_uid meet each other and get; two requests and the
sentinel are enough for a list that is empty, has one item, and has items of
two views in either order. In `lint`, two timers and a command give a
request that is superseded, one that shares its rid with another, one that
is running while the next is queued, and, if both of one rid have more than 50 results, a
listener that is left behind; the number of edits bounds versions only. Two parts, of which one
is on screen, are what it takes for markers that were not redrawn to come into view
(`lint_views`, which asks nothing of the markers' places, has one part).
`LintService` assumes `MaxRequests >= MaxTimers + MaxLintNow`, so the bound
never suppresses a request that the code would make. In `file_status`, two
requests suffice for an item against a full check, an item against an item
of the same file, and a request during each step of a pass; all calls that need
no counter (idle, active, notifications of the observers' directories, look-ups,
`file_update_now`) are unbounded. `FileReasons` and `AllReasons` contain one
reason each, which still gives both orders between an item and a pending full
check by way of `BACKGROUND` and `FILE_CHANGED`.

In `mobwrite`, two edits let both users edit, or one twice: a
request with two edits, an edit while the answer is under way, and edits of both
that meet on the server. Two lost messages in all orders give a
request sent again, an answer sent again, and the roll-back to the backup shadow; with one,
a delta behind a raw text is never sent twice. Two
deleted views are what it takes for the versions of a client and a view to meet by
coincidence (section 4). A synchronisation that has
nothing to send or to fetch changes version numbers only; `MaxPolls` is 0 since
with 1 (and one lost message and one clean-up) the same properties hold on 1.36 million states.

In `sync_task`, only `share` loses timers (it starts polling each time), and a
share can come before, during and after a request of another file; the third shares a file
again. In `async_ops`, two operations on one URI make counts above one, the third
neither locks nor notifies nor has a callback. In `document`, three texts are one in the
file, one typed and one that another program wrote; no action is bounded. In
`history`, four visits are one more than are kept and two more than the cache
holds, so that depletion, replenishing, a chain that was cut and a deque at its
limit all happen; two buffers, exchangeable by symmetry (the run has no
liveness property), allow skipping from one obsolete place to another.

Deadlock checking is off where the program may stop: a bounded user who does
nothing more, a thread that ended, a get on an empty list, all operations done,
and a history that is full.

Fairness. `RequestQueue`: a call that was started goes on (weak fairness), and
a thread that waits on a lock which is released again and again gets it (strong
fairness), which is what the waiting queue of a lock gives; nobody has to call.
`LintService`: the thread runs, timers of the main thread fire, and the main
thread serves proxied calls until the shutdown; nothing about the user.
`FileStatus`: the thread runs, its timed wait ends, and the waiting thread notices
an event that stays set; nobody has to call and the user need not come back.
`MobWrite`: a client with something to send or to fetch synchronises (a key, the
notification by the server, or the polling timer), reads the answer it got, and
the server finishes the request it has; users need not type, and what is lost
is bounded. `SyncTask`: the timers fire; users, server and network owe nothing.
`AsyncOps`: threads run, operations end and the main thread serves what is posted to
it. `Document`: the autosave thread wakes up, a write ends or fails, and the main
thread serves the thread's call between the user's actions and in dialogs. That one is strong
fairness, since the call is not served during a write. `History` has none: all of
it is what a user does.

## 4. The disagreements

Three of the runs check what a comment or an interface description says, and TLC
finds a behaviour of the code that does otherwise; `findings` in PROJECT.json quotes
the lines. `file_status_full`: the flag for "all files" is consumed by whatever
pass comes first. `mobwrite_atomic`: the lock of a text does not cover the reading of
it. `document_clean`: a save that fails after truncating the file leaves the
document dirty, but undoing to the save point makes it clean, which removes the
autosave file and lets it be closed without a question.

The following were met while reading and modelling. The models behave
like the code here, and the properties are stated so that they allow for it.

*Linting.* A failed non-blocking acquire in `remove_uid` is taken for an empty queue
(koLintService.py:103-105), but a get or put may hold the lock over a full one.
Switching linting off removes what is queued, but the lint that runs is reported
(lint.js:324, koLintService.py:395-398), and so is one a pending timer starts.
The scroll listener should rather leave the markers alone "than update against an older
set of markers" (lintDisplay.js:118-120), but it looks only at `recalculatingResults`. A
`doRequest` (lint.js:652-673) does not remove the listener of an earlier report; after
its own report of up to 50 results the next scroll draws the earlier ones over them. If
both reports had more than 50, the buffer knows only the second listener
(lintDisplay.js:126), and the first stays until the view is closed. `MarksAgree` therefore ends
at a `doRequest` (`asked`) until a timer finds no listener but the one it removes; without
this exception TLC finds the older markers. A failed lint, or a clearing, empties the
results but not the listener, so that their markers come back when the user scrolls;
`MarksAgree` asks nothing of a view without results.

*File status.* `_monitoredUrls` is pruned with directory names (koFileStatusService.p.py:536),
so the files of a directory that is no longer observed stay in it, and the directory
is not observed again (529). `unload` notifies once (329): the notification is lost if
the thread sleeps instead of waiting, and with the user idle the thread then waits without
limit. One event serves the callbacks of all requests and the end of every pass sets
it, also of a pass that took its items before the request: a callback may
come with its item still waiting.

*Collaboration, the protocol.* After `R` the client continues with the version that
was in the line `F`, but the server has added one to it (core.py:407, under a comment
that says the increment was removed): the client's next delta is then "repeated"
(core.py:264), and acknowledged all the same. The server's next
delta does not fit the client's shadow; the raw text that the client then sends
makes the server answer with a delta that takes the user's edit back (`misread`).
`R` is sent whenever a view was cleaned up, say after a laptop slept for a minute.
If a second view of the client is cleaned up and an answer is lost, the versions of the
two can meet again by coincidence. Then a delta is applied to a text that it was not computed
from, though the patch "Should be guaranteed to work" (mobwrite_core.js:850), or is
merged twice. With two clean-ups TLC finds both, so the properties of the
protocol speak of a client from a raw text of its own to the next `R` (`replaced`).
From there a lost answer can also lead to `ServerError`: the roll-back restores a backup
shadow that was never set, every further request of the client fails, until the
view is cleaned up again; `NoErrorUnlessReplaced` proves that it takes an `R`. Apart from
these, a delta *is* merged twice when it stands behind a raw text in a request
that is sent again, since a raw text is always accepted (`BehindRaw` in `MergedOnce`).

*Collaboration, the scheduling.* mobwrite_core.js:489-490 expects `pollingRun` to try
again, but `pauseSyncTask` also clears `pollingRunPid`, and `resumeSyncTask` (1175)
has no caller: after a synchronisation that met a logged out user nothing starts
the next until a file is shared (`paused`). An exception in `syncText` leaves the spent id in
`syncRunPid_`, so that `syncNow` and `pollingRun` believe in a synchronisation
that is not there (`broken`). A share while a request is in the air sends
a second one, and the older answer is then ignored; `lost` counts the watchdog
that this leaves behind. What was typed just before a view is closed is not sent if
the file is collected first.

*Asynchronous operations.* A stop before the thread has begun is overwritten by
`STATUS_RUNNING` (koAsyncOperations.py:81, `StopIsReported` is about stops during the
run).

*Documents.* `restoreAutoSave` loads the file first, and loading removes the
autosave file that was restored; until the next autosave only the buffer has the
text. The comment at koDocument.py:2092-2093 has `removeAutoSaveFile` called
"only ... when doing a revert or save in this file, or from the viewManager canClose
handler". A failed save
also removes the autosave file. If a document is saved between the thread's test of
its dirty flag and the write of the autosave file, a stale autosave file stays, and the
next opening offers to restore it.

*History.* Closing with no forward visits makes the newest back visit the
`_last_visit` of the next start, so it is not offered; test_editorhistory.py:563-564 wants that "after
we do a close and reopen, the caches are maintained correctly", and tests it with
forward visits only. `_replenish_recent_back_visits` does not handle a row that was not
kept, which `_load_recent_history_cache` does: going back then raises an error
though there are back visits (`ReplenishRaises`). The oldest visit loaded refers
to none, so what lies behind it is not replenished after a restart; and
`last_good_loc` stays the visit that was the oldest. `note_loc` leaves
`_last_visit` as it is. A move without a current view whose file then
fails to open is undone by one step too many, or raises; a current location that already has an
id meets the assertion in `add_loc`.

## 5. The proofs

All are for any values of the constants that satisfy the ASSUMEs of the modules:
disjoint sets of threads and items, bounds in `Nat`, reasons within the interface's
range, finitely many operations and pieces of text, texts and views distinct from
the markers for none.

`Subsequences_proofs` has the lemmas about `Picked` that the queue, the linter, the
history and the edit stacks share. `Picked` enumerates the positions by rank: `RankIncreases`,
`RankBelow` and `RankSurjective` say that ranks number them without a gap, hence
`PickedType` and `PickedKeeps` (what is picked, and in which order). `UpTo` stands in for
an induction over an interval: a set of numbers that has 0 and with each number
the next one has them all, by the pigeonhole theorem of the library.

`RequestQueue_proofs`. The five
invariants of the queue are not inductive one by one: that a taker finds an item
needs that an acquired `esema` is acquired for a reason. `EsemaProtocol` says who
may hold it: while it is free nobody holds it nor is about to release it; who
is about to release it after a put excludes every taker, and has put an item in;
and the flag with which a taker leaves says whether the list is empty. `IInv`
adds this to the others; it is initial (`ProtocolInit`), preserved by every
action (`ProtocolStep`, one step per action; `TypeStep` for the types), and
implies the five. `Refinement` maps each step to
one of the abstract queue or to a stutter, with `TakerIs` for the value of the
mapping.

`LintService_proofs` proves every safety property of `LintService` from a
tower of invariants, each inductive given those before it. The types need
`RequestsCounted`: requests made and timers armed never exceed the timers started and
commands given, which is why the bounds suppress nothing. `MarksAgree` follows from
`DisplayInv`: as long as `doRequest` has not interfered, a view has one listener at most, the one
the buffer knows, and none while a request that can still be accepted is on its way, of which
there is one; once it is reported (`Done`), the markers are those of the results, everywhere
or, with a listener that keeps these results, on screen (`Settled`). The invariant
needs `NumsOrdered`, numbers growing along the queue: what is reported is not also queued. TLC checked
both on the instance of `lint` first. `ClosedHasNone` (a closed view has no results) carries
`ClosedViewIsLeftAlone`. `QuitFirst` (after `terminate` the sentinel is first in the
list until the thread has ended) carries `NoLintAfterTerminate`.
`RidsOrdered` (no request carries a larger rid than its view's last, and what was
queued before the last timer fired carries a smaller one) carries
`SupersededRunIgnored`. `VersionsOrdered` (versions grow along the queue, and from what
is shown over what is being linted to the first in the queue) carries `ReportsInOrder`, and with
`LatestCurrent` (the latest request of an unchanged view is for its present text)
`ResultsCurrent`.

`FileStatus_proofs`. `TypeOK` is
inductive (`FileTypeStep`). `NoWorkWhileWaiting` is inductive given the types,
because every call that creates work also notifies, and `StartWaiting` looks
first. `MonitoredWasWatched` is inductive too; the only step that touches its
variables is `WatchDirs` (`OthersKeepWatches`). `PriorityIsKept` is an action
property that follows from the types.

`Collaboration_proofs` proves every safety property of `MobWrite` and of `SyncTask`.

`MobWriteInv` is the inductive invariant of the protocol; it is one statement per client
(`ClientInv`), since all that clients share is the server's text. `Sound` holds always: the
stack is raw texts, then deltas, each from the text to which the one before it leads
(`InOrder`), and a request is what is left of the stack it was made of (`IsRequest`).
`Untold` holds as long as nobody has set the text. `Known` holds unless the
client's text was replaced, and is the reason why two version numbers
are enough. Between requests the view is missing or new (`Forgotten`), or stands
where the stack begins (`InStep`), or the last answer was lost and its *backup* stands
where some prefix of the stack leads (`Ahead`); what was seen is exactly
that prefix (`Merged`); or a raw text comes first, and nothing needs to be known
(`Related`). While a request is served, the server's copy of the view stands after some edits
of the stack, at least those handled so far (`StandsAt`), or knows nothing and will say
so (`Adrift`). An answer is a raw text, or one delta from the client's shadow to the
view's (`IsReply`). `RequestTail`, `AckedKeeps`, `DeltaIs` and `AckedStands` say what the server
makes of the next edit in each of these cases; then one lemma per action
(`SyncKeeps` to `ErrorKeeps`) and `MobWriteStep`. `DeltasFit`, `ShadowsAgree`, `MergedOnce`
and `NoErrorUnlessReplaced` follow from the invariant. TLC checked `MobWriteInv` on the
instance of `mobwrite` first, which is how the clients with a replaced text were found to be
an exception: an earlier form, that excepted behaviours only from the first delta that was
misread, fails with two clean-ups.

Of `SyncTask`, the types go by parts (`TimersStep`, `FilesStep`, `FlagsStep`).
`OneSyncTask` and `PollingGoesOn` are inductive given them. `StalledIsNoticed` is
not: a spent id in `syncRunPid_` keeps others from starting the task, so the watchdog
must be there (`SpentIdIsWatched`), and `Watched` ties a request in the
air to a watchdog, a pending task, or an exception.

`AsyncOps_proofs`. `CountedLemma` and `UncountedLemma` say what the loops over the
URIs do to a dictionary that counts a finite set of operations when one joins or
leaves it; `CountersAgree` follows (`CountersInductive`), and with it
`NoFalseWarning` (`stale` belongs to operations in the list). `ThrobberAgrees`
(`Shown`) needs that a notification is posted after every change of the dictionary;
`StopIsReported` needs that the status stays what the stop made it (`AskedInv`).

`Document_proofs`. `TypeStep`; `PointOK` says that at the save point the buffer is its
text, and is preserved with `EditsAreDirty`; `KnownOK` ties the digest, the save point
and what the user knows, and gives `CleanMeansSavedUnlessKept`; `OverwriteStep`
shows that a save begins only where the digest or a question has told the user
what is in the file.

`History_proofs` proves all four properties of `History`. The chain of referers is
the recursive function `Way`; `WayRecursion` builds its solution up to any length
(with `UpTo`), and `WayDescends` says that it comes to each row at most once if the rows have a
*rank* that falls from each visit to the one it refers to. Ids do not fall along the
chain: when forward visits are put behind a new one, an older id refers to a newer.
That there is a rank at all is the invariant `Ordered`: some assignment of numbers
falls along the referers, and along the forward visits from the furthest to the nearest,
the last visit, and the back visits (`IsTrail`). `HistoryInv` adds the types
and that no offered visit is obsolete. Per operation: `LoadCacheTrail`,
`ReplenishedTrail`, `GoBackKeeps`, `GoForwardKeeps`, `NoteKeeps`; `InsertedTrail` is
the one that needs an argument, a rank for the added visit between two others, which
doubling the ranks makes room for. `NoVisitTwice` follows since what falls
does not repeat. `FailedLoadIsUndone` needs `UndoInv`: while a move waits for its file, the
session holds the places it had when the move began, as far as both reach; it has fewer back
visits only when the limit cut them. `Recovered` is that going n steps
one way and n the other is the identity on what both know; `UndoesBack` and
`UndoesForward` apply it to the session, and `UndoingIsPossible` shows that the undoing
finds the visit it goes to. `HistoryInv` and `UndoInv` were run through TLC
on the instance of `MCHistory` before they were proved.

So every safety property of a passing run is proved. Only model-checked are the
liveness properties `EveryRequestLeaves`, `EditsGetLinted`, `ManagerStops`,
`UrgentItemsGetChecked`, `CallbackComes`, `TextsConverge`, `TypedGetsSent`,
`EveryUriIsFreed` and `DirtyGetsAutoSaved`, which are out of the prover's reach.

## 6. Not modelled

Of the components that are modelled in part:

- *Linting*: choosing a linter for a language, the encoding and line-end results.
- *File status*: several checkers with their own activity and ranking; one that is
  always active stands for them. Remote files.
- *Collaboration*: read-only users, closing a file on the server, several files in one
  request, texts beyond the size limit, and patches that do not find their place:
  these are decided by fuzzy matching of texts (diff-match-patch).
- *Documents*, *history*: what their sections above leave out.

Of the others, whose reasons are in `PROJECT.json` one by one:

- The polling thread of `osFilePollingNotifier` depends on directory listings and on
  the flags of each observer more than on control; `FileStatus` has it as a call that may
  fail and notifications that may come at any time.
- Sessions and the push channel of the collaboration: lists kept by the server; what
  synchronisation needs of them is in its models' actions.
- Running commands, remote connections, the HTTP inspector, publishing, code
  intelligence: what happens is decided by pipes, sockets and other processes; the code
  of the engine of the last is in a submodule that is not part of this repository.
- Preferences, observers, file objects, find, toolbox, projects, commando: sequential
  data structures, SQL or user interface.
- Linters and language services: one table or pure function per language. They make up most
  of the lines of the repository, which is why the modelled share of it is small.
- Build scripts, vendored code and assets.
