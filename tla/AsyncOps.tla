------------------------------ MODULE AsyncOps ------------------------------
(***************************************************************************)
(* Asynchronous operations: class koAsyncService of                        *)
(* src/src/run/koAsyncOperations.py, the operations of                     *)
(* koAsyncOperationUtils.py and scc/koSCCBase.py that it runs, and the two *)
(* users of its answers: the file trees, which show a throbber on an URI   *)
(* with a pending operation (project/peFile.p.js), and the check for files *)
(* changed on disk, which passes over such an URI (views.p.js).            *)
(*                                                                         *)
(* Each operation has a thread.  What the thread does with _lock held is   *)
(* one action; a query of one URI is answered by a dictionary, without the *)
(* lock.  Calls and callbacks of the main thread do not interleave with    *)
(* each other; a notification is posted to it and delivered later.         *)
(*                                                                         *)
(* A definition marked [variant] is a faulty form of the one after it, to  *)
(* show which property notices the fault; no specification uses it.        *)
(***************************************************************************)
EXTENDS Naturals, Sequences, FiniteSets

CONSTANTS
    Ops,
    Uris,
    Affected,       \* affected_uris of each operation
    Locking,        \* the operations run with lock_these_uris
    Updating,       \* those run with update_status
    Calling         \* those with a callback

ASSUME OpsAssumption ==
    /\ IsFiniteSet(Ops)
    /\ Affected \in [Ops -> SUBSET Uris]
    /\ Locking \subseteq Ops
    /\ Updating \subseteq Ops
    /\ Calling \subseteq Ops

VARIABLES
    pc,             \* where the thread of each operation stands
    status,         \* aOp.status
    result,         \* what the callback is told
    running,        \* _runningOperations
    affected,       \* _affectedUris: a dictionary from URIs to numbers
    locked,         \* _lockedUris
    notices,        \* notifications 'file_status' posted to the main thread
    throbber,       \* the URIs that are shown as being worked on
    stale,          \* <<operation, URI>>: changed on disk, view not updated
    asked           \* history: operations asked to stop during their run

dictVars == <<running, affected, locked>>
viewVars == <<notices, throbber, stale>>
vars == <<pc, status, result, dictVars, viewVars, asked>>

States == {"new", "starting", "listed", "running", "calling", "leaving", "unlisted", "done"}
Results == {"none", "successful", "stopped", "error"}

IsCounter(d) ==
    /\ DOMAIN d \subseteq Uris
    /\ \A u \in DOMAIN d : d[u] \in Nat /\ d[u] > 0

ThreadsOK ==
    /\ pc \in [Ops -> States]
    /\ status \in [Ops -> {"running", "stopping"}]
    /\ result \in [Ops -> Results]
    /\ running = {o \in Ops : pc[o] \in {"listed", "running", "calling", "leaving"}}
    /\ asked \subseteq Ops

ViewsOK ==
    /\ notices \in Seq(SUBSET Uris)
    /\ throbber \subseteq Uris
    /\ stale \subseteq Calling \X Uris
    /\ \A s \in stale : s[2] \in Affected[s[1]] /\ pc[s[1]] \in {"running", "calling"}

TypeOK == ThreadsOK /\ ViewsOK /\ IsCounter(affected) /\ IsCounter(locked)

Init ==
    /\ pc = [o \in Ops |-> "new"]
    /\ status = [o \in Ops |-> "running"]
    /\ result = [o \in Ops |-> "none"]
    /\ running = {}
    /\ affected = <<>>
    /\ locked = <<>>
    /\ notices = <<>>
    /\ throbber = {}
    /\ stale = {}
    /\ asked = {}

Goto(o, from, to) ==
    /\ pc[o] = from
    /\ pc' = [pc EXCEPT ![o] = to]

-----------------------------------------------------------------------------
(***************************************************************************)
(* The dictionaries.                                                       *)
(***************************************************************************)
Counted(d, S) ==
    [u \in DOMAIN d \cup S |->
        IF u \notin DOMAIN d THEN 1 ELSE IF u \in S THEN d[u] + 1 ELSE d[u]]

Uncounted(d, S) ==
    [u \in {v \in DOMAIN d : v \notin S \/ d[v] > 1} |->
        IF u \in S THEN d[u] - 1 ELSE d[u]]

Posted(o) == IF o \in Updating /\ Affected[o] # {} THEN Append(notices, Affected[o]) ELSE notices

-----------------------------------------------------------------------------
(***************************************************************************)
(* The main thread.                                                        *)
(***************************************************************************)
Run(o) ==
    /\ Goto(o, "new", "starting")
    /\ UNCHANGED <<status, result, dictVars, viewVars, asked>>

\* [variant] the handler is aborted, the status is not set
StopByAbort(o) ==
    /\ pc[o] \notin {"new", "done"}
    /\ status[o] = "running"
    /\ UNCHANGED status
    /\ asked' = IF pc[o] = "running" THEN asked \cup {o} ELSE asked
    /\ UNCHANGED <<pc, result, dictVars, viewVars>>

\* aOp.stop(), by whoever started the operation.
Stop(o) ==
    /\ pc[o] \notin {"new", "done"}
    /\ status[o] = "running"
    /\ status' = [status EXCEPT ![o] = "stopping"]
    /\ asked' = IF pc[o] = "running" THEN asked \cup {o} ELSE asked
    /\ UNCHANGED <<pc, result, dictVars, viewVars>>

\* [variant] an exception of an error callback ends the thread
CallbackEndsThread(o) ==
    /\ Goto(o, "calling", IF result[o] = "error" THEN "done" ELSE "leaving")
    /\ stale' = {s \in stale : s[1] # o}
    /\ UNCHANGED <<status, result, dictVars, notices, throbber, asked>>

\* The callback updates the views of what the operation has changed.  If it
\* raises an exception, that ends in the thread, which goes on all the same.
Callback(o) ==
    /\ Goto(o, "calling", "leaving")
    /\ stale' = {s \in stale : s[1] # o}
    /\ UNCHANGED <<status, result, dictVars, notices, throbber, asked>>

\* The first notification arrives: trees look at each URI it names.
Deliver ==
    /\ notices # <<>>
    /\ notices' = Tail(notices)
    /\ throbber' = (throbber \ Head(notices)) \cup (Head(notices) \cap DOMAIN affected)
    /\ UNCHANGED <<pc, status, result, dictVars, stale, asked>>

-----------------------------------------------------------------------------
(***************************************************************************)
(* The thread of an operation.                                             *)
(***************************************************************************)
\* [variant] the URIs are locked whatever was asked for
RegisterLocking(o) ==
    /\ Goto(o, "starting", "listed")
    /\ running' = running \cup {o}
    /\ affected' = Counted(affected, Affected[o])
    /\ locked' = Counted(locked, Affected[o])
    /\ UNCHANGED <<status, result, viewVars, asked>>

Register(o) ==
    /\ Goto(o, "starting", "listed")
    /\ running' = running \cup {o}
    /\ affected' = Counted(affected, Affected[o])
    /\ locked' = IF o \in Locking THEN Counted(locked, Affected[o]) ELSE locked
    /\ UNCHANGED <<status, result, viewVars, asked>>

\* A stop that came before is overwritten.
Begin(o) ==
    /\ Goto(o, "listed", "running")
    /\ notices' = Posted(o)
    /\ status' = [status EXCEPT ![o] = "running"]
    /\ UNCHANGED <<result, dictVars, throbber, stale, asked>>

\* External: what the operation does to its files.
Change(o, u) ==
    /\ pc[o] = "running"
    /\ u \in Affected[o]
    /\ stale' = IF o \in Calling THEN stale \cup {<<o, u>>} ELSE stale
    /\ UNCHANGED <<pc, status, result, dictVars, notices, throbber, asked>>

\* [variant] the operation leaves the list before the callback is called
ReturnReleasing(o, r) ==
    /\ Goto(o, "running", IF o \in Calling THEN "calling" ELSE "leaving")
    /\ result' = [result EXCEPT ![o] = r]
    /\ running' = running \ {o}
    /\ affected' = Uncounted(affected, Affected[o])
    /\ UNCHANGED <<status, locked, viewVars, asked>>

Return(o, r) ==
    /\ Goto(o, "running", IF o \in Calling THEN "calling" ELSE "leaving")
    /\ result' = [result EXCEPT ![o] = r]
    /\ UNCHANGED <<status, dictVars, viewVars, asked>>

Finish(o) == Return(o, IF status[o] = "stopping" THEN "stopped" ELSE "successful")

Fail(o) == Return(o, "error")

\* [variant] nothing is posted after the operation has left the list
UnregisterSilently(o) ==
    /\ Goto(o, "leaving", "done")
    /\ running' = running \ {o}
    /\ affected' = Uncounted(affected, Affected[o])
    /\ locked' = IF o \in Locking THEN Uncounted(locked, Affected[o]) ELSE locked
    /\ UNCHANGED <<status, result, viewVars, asked>>

Unregister(o) ==
    /\ Goto(o, "leaving", "unlisted")
    /\ running' = running \ {o}
    /\ affected' = Uncounted(affected, Affected[o])
    /\ locked' = IF o \in Locking THEN Uncounted(locked, Affected[o]) ELSE locked
    /\ UNCHANGED <<status, result, viewVars, asked>>

End(o) ==
    /\ Goto(o, "unlisted", "done")
    /\ notices' = Posted(o)
    /\ UNCHANGED <<status, result, dictVars, throbber, stale, asked>>

-----------------------------------------------------------------------------
MainNext == Deliver \/ \E o \in Ops : Run(o) \/ Stop(o) \/ Callback(o)

ThreadStep(o) == Register(o) \/ Begin(o) \/ Finish(o) \/ Fail(o) \/ Unregister(o) \/ End(o)

ThreadNext == \E o \in Ops : ThreadStep(o) \/ \E u \in Uris : Change(o, u)

Next == MainNext \/ ThreadNext

Spec == Init /\ [][Next]_vars

\* Threads run, operations end, and the main thread serves what is posted to
\* it; nobody has to start an operation.
FairSpec ==
    /\ Spec
    /\ WF_vars(Deliver)
    /\ \A o \in Ops : WF_vars(ThreadStep(o)) /\ WF_vars(Callback(o))

-----------------------------------------------------------------------------
\* The operations among R that work on u, and a dictionary that counts them.
OpsOn(R, u) == {o \in R : u \in Affected[o]}

Counts(d, R) ==
    /\ DOMAIN d = {u \in Uris : OpsOn(R, u) # {}}
    /\ \A u \in DOMAIN d : d[u] = Cardinality(OpsOn(R, u))

(***************************************************************************)
(* An URI is pending exactly while an operation on it is in the list, and  *)
(* locked exactly while one of them locks; the numbers say how many.       *)
(***************************************************************************)
CountersAgree == Counts(affected, running) /\ Counts(locked, running \cap Locking)

(***************************************************************************)
(* "If this is has a pending operation, the view will be updated           *)
(* automatically when the command finishes, we don't want to warn about it *)
(* until it's finished." (views.p.js:2608, bug 74471): a file that an      *)
(* operation has changed, and whose view the callback has not updated yet, *)
(* is pending.                                                             *)
(***************************************************************************)
NoFalseWarning == \A s \in stale : s[2] \in DOMAIN affected

(***************************************************************************)
(* If all operations on an URI notify, the throbber on it agrees with the  *)
(* dictionary, or a notification is on its way or about to be posted.      *)
(***************************************************************************)
Notified(u) ==
    \/ \E i \in DOMAIN notices : u \in notices[i]
    \/ \E o \in Ops : u \in Affected[o] /\ pc[o] \in {"listed", "unlisted"}

ThrobberAgrees ==
    \A u \in Uris :
        (\A o \in Ops : u \in Affected[o] => o \in Updating)
            => (u \in throbber <=> u \in DOMAIN affected) \/ Notified(u)

(***************************************************************************)
(* Who asks a running operation to stop is not told that it was            *)
(* successful.  Only a stop that comes before the thread has set the       *)
(* status, or after the run, goes unnoticed.                               *)
(***************************************************************************)
StopIsReported == \A o \in asked : result[o] # "successful"

(***************************************************************************)
(* No URI stays locked, and no throbber stays on.                          *)
(***************************************************************************)
EveryUriIsFreed ==
    \A u \in Uris :
        /\ u \in DOMAIN affected \cup DOMAIN locked
                ~> u \notin DOMAIN affected \cup DOMAIN locked
        /\ (\A o \in Ops : u \in Affected[o] => o \in Updating)
                => (u \in throbber ~> u \notin throbber)
=============================================================================
