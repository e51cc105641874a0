---------------------------- MODULE RequestQueue ----------------------------
(***************************************************************************)
(* class RequestQueue of src/src/lint/koLintService.py, one step for each  *)
(* point at which the Python threads can interleave: the two lock objects  *)
(* mutex and esema, and the body that runs with mutex held.  esema is held *)
(* either by a thread that is taking items out or, for nobody, while the   *)
(* list is empty: that is how get blocks.                                  *)
(*                                                                         *)
(* A definition marked [variant] is a faulty form of the one after it, to  *)
(* show which property notices the fault; no specification uses it.        *)
(*                                                                         *)
(* Callers run put, prepend and remove_uid (the main thread in Komodo),    *)
(* Workers run get (the "Linter" thread).  A TRUE lock is an acquired one. *)
(***************************************************************************)
EXTENDS LintItems

CONSTANTS Callers, Workers, NoThread, MaxQuits

Threads == Callers \cup Workers

ASSUME ThreadsAssumption ==
    /\ Callers \cap Workers = {}
    /\ NoThread \notin Threads

ASSUME MaxQuitsAssumption == MaxQuits \in Nat

VARIABLES
    queue,      \* self.queue
    mutex,      \* self.mutex: guards queue
    esema,      \* self.esema: acquired by a taker, or because queue is empty
    pc,         \* where each thread stands
    flag,       \* its local was_empty or release_esema
    arg,        \* the argument of its call: an item, or a uid for remove_uid
    issued,     \* calls of put so far: numbers the requests
    quits,      \* calls of prepend(None) so far
    got         \* what the last get returned

vars == <<queue, mutex, esema, pc, flag, arg, issued, quits, got>>

-----------------------------------------------------------------------------
\* Thread t goes on to step `to`; its locals keep their values.
Goto(t, to) == pc' = [pc EXCEPT ![t] = to]

\* Thread t is back in its caller; its locals are gone.
Return(t) ==
    /\ Goto(t, "idle")
    /\ flag' = [flag EXCEPT ![t] = FALSE]
    /\ arg' = [arg EXCEPT ![t] = Quit]

Init ==
    /\ queue = <<>>
    /\ mutex = FALSE
    /\ esema = TRUE
    /\ pc = [t \in Threads |-> "idle"]
    /\ flag = [t \in Threads |-> FALSE]
    /\ arg = [t \in Threads |-> Quit]
    /\ issued = 0
    /\ quits = 0
    /\ got = Nothing

AcquireMutex(t, from, to) ==
    /\ pc[t] = from
    /\ ~mutex
    /\ mutex' = TRUE
    /\ Goto(t, to)
    /\ UNCHANGED <<queue, esema, flag, arg, issued, quits, got>>

ReleaseMutex(t) ==
    /\ pc[t] = "unlock"
    /\ mutex' = FALSE
    /\ Return(t)
    /\ UNCHANGED <<queue, esema, issued, quits, got>>

\* [variant] A taker leaves esema acquired.
SignalOnlyPuts(t) ==
    /\ pc[t] \in {"put_signal", "take_signal"}
    /\ esema' = (esema /\ ~(flag[t] /\ pc[t] = "put_signal"))
    /\ Goto(t, "unlock")
    /\ UNCHANGED <<queue, mutex, flag, arg, issued, quits, got>>

\* `if was_empty` and `if release_esema`: the same step of every operation.
Signal(t) ==
    /\ pc[t] \in {"put_signal", "take_signal"}
    /\ esema' = (esema /\ ~flag[t])
    /\ Goto(t, "unlock")
    /\ UNCHANGED <<queue, mutex, flag, arg, issued, quits, got>>

-----------------------------------------------------------------------------
\* put(request) and prepend(None).
Put(c, u) ==
    /\ pc[c] = "idle"
    /\ issued < MaxRequests
    /\ issued' = issued + 1
    /\ arg' = [arg EXCEPT ![c] = [uid |-> u, num |-> issued + 1]]
    /\ Goto(c, "put_lock")
    /\ UNCHANGED <<queue, mutex, esema, flag, quits, got>>

Prepend(c) ==
    /\ pc[c] = "idle"
    /\ quits < MaxQuits
    /\ quits' = quits + 1
    /\ arg' = [arg EXCEPT ![c] = Quit]
    /\ Goto(c, "put_lock")
    /\ UNCHANGED <<queue, mutex, esema, flag, issued, got>>

PutLock(c) == AcquireMutex(c, "put_lock", "put_body")

\* [variant] was_empty is computed after the item went in.
PutBodyTestsLate(c) ==
    /\ pc[c] = "put_body"
    /\ queue' = IF arg[c] = Quit THEN <<Quit>> \o queue
                                ELSE Append(queue, arg[c])
    /\ flag' = [flag EXCEPT ![c] = (queue' = <<>>)]
    /\ Goto(c, "put_signal")
    /\ UNCHANGED <<mutex, esema, arg, issued, quits, got>>

\* [variant] esema is released whatever was_empty says.
PutBodyWakesAlways(c) ==
    /\ pc[c] = "put_body"
    /\ flag' = [flag EXCEPT ![c] = TRUE]
    /\ queue' = IF arg[c] = Quit THEN <<Quit>> \o queue
                                ELSE Append(queue, arg[c])
    /\ Goto(c, "put_signal")
    /\ UNCHANGED <<mutex, esema, arg, issued, quits, got>>

PutBody(c) ==
    /\ pc[c] = "put_body"
    /\ flag' = [flag EXCEPT ![c] = (queue = <<>>)]
    /\ queue' = IF arg[c] = Quit THEN <<Quit>> \o queue
                                ELSE Append(queue, arg[c])
    /\ Goto(c, "put_signal")
    /\ UNCHANGED <<mutex, esema, arg, issued, quits, got>>

-----------------------------------------------------------------------------
\* get(): blocks on esema, then takes the first item.
GetWait(w) ==
    /\ pc[w] = "idle"
    /\ ~esema
    /\ esema' = TRUE
    /\ Goto(w, "get_lock")
    /\ UNCHANGED <<queue, mutex, flag, arg, issued, quits, got>>

GetLock(w) == AcquireMutex(w, "get_lock", "get_body")

\* [variant] The list is not looked at again after the item is taken.
GetBodyReleasesAlways(w) ==
    /\ pc[w] = "get_body"
    /\ got' = Head(queue)
    /\ queue' = Tail(queue)
    /\ flag' = [flag EXCEPT ![w] = TRUE]
    /\ Goto(w, "take_signal")
    /\ UNCHANGED <<mutex, esema, arg, issued, quits>>

\* [variant] The last item is taken, not the first.
GetBodyTakesLast(w) ==
    /\ pc[w] = "get_body"
    /\ got' = queue[Len(queue)]
    /\ queue' = SubSeq(queue, 1, Len(queue) - 1)
    /\ flag' = [flag EXCEPT ![w] = (queue' # <<>>)]
    /\ Goto(w, "take_signal")
    /\ UNCHANGED <<mutex, esema, arg, issued, quits>>

GetBody(w) ==
    /\ pc[w] = "get_body"
    /\ got' = Head(queue)
    /\ queue' = Tail(queue)
    /\ flag' = [flag EXCEPT ![w] = (queue' # <<>>)]
    /\ Goto(w, "take_signal")
    /\ UNCHANGED <<mutex, esema, arg, issued, quits>>

-----------------------------------------------------------------------------
\* remove_uid(uid): gives up at once when esema is taken.
RemoveUid(c, u) ==
    /\ pc[c] = "idle"
    /\ arg' = [arg EXCEPT ![c] = u]
    /\ Goto(c, "rm_try")
    /\ UNCHANGED <<queue, mutex, esema, flag, issued, quits, got>>

RemoveTry(c) ==
    /\ pc[c] = "rm_try"
    /\ ~esema
    /\ esema' = TRUE
    /\ Goto(c, "rm_lock")
    /\ UNCHANGED <<queue, mutex, flag, arg, issued, quits, got>>

RemoveGivesUp(c) ==
    /\ pc[c] = "rm_try"
    /\ esema
    /\ Return(c)
    /\ UNCHANGED <<queue, mutex, esema, issued, quits, got>>

RemoveLock(c) == AcquireMutex(c, "rm_lock", "rm_body")

RemoveBody(c) ==
    /\ pc[c] = "rm_body"
    /\ queue' = WithoutUid(queue, arg[c])
    /\ flag' = [flag EXCEPT ![c] = (queue' # <<>>)]
    /\ Goto(c, "take_signal")
    /\ UNCHANGED <<mutex, esema, arg, issued, quits, got>>

-----------------------------------------------------------------------------
\* What a thread does once it is inside an operation.
CallerStep(c) ==
    \/ PutLock(c) \/ PutBody(c)
    \/ RemoveTry(c) \/ RemoveGivesUp(c) \/ RemoveLock(c) \/ RemoveBody(c)
    \/ Signal(c) \/ ReleaseMutex(c)

WorkerStep(w) ==
    \/ GetWait(w) \/ GetLock(w) \/ GetBody(w)
    \/ Signal(w) \/ ReleaseMutex(w)

Next ==
    \/ \E c \in Callers :
        \/ \E u \in Uids : Put(c, u) \/ RemoveUid(c, u)
        \/ Prepend(c)
        \/ CallerStep(c)
    \/ \E w \in Workers : WorkerStep(w)

Spec == Init /\ [][Next]_vars

(***************************************************************************)
(* Nobody has to start a call, but a call that was started goes on, and a  *)
(* thread blocked on a lock that is released again and again gets it at    *)
(* last (the lock's waiters are woken by a release): strong fairness for   *)
(* the steps that wait on a lock, weak fairness for the others.            *)
(***************************************************************************)
Fairness ==
    /\ \A c \in Callers : WF_vars(CallerStep(c)) /\ SF_vars(PutLock(c) \/ RemoveLock(c))
    /\ \A w \in Workers : WF_vars(WorkerStep(w)) /\ SF_vars(GetWait(w)) /\ SF_vars(GetLock(w))

FairSpec == Spec /\ Fairness

-----------------------------------------------------------------------------
Steps == {"idle", "put_lock", "put_body", "put_signal", "get_lock", "get_body",
          "rm_try", "rm_lock", "rm_body", "take_signal", "unlock"}

TypeOK ==
    /\ queue \in Seq(Item)
    /\ mutex \in BOOLEAN
    /\ esema \in BOOLEAN
    /\ pc \in [Threads -> Steps]
    /\ flag \in [Threads -> BOOLEAN]
    /\ arg \in [Threads -> Item \cup Uids]
    /\ \A t \in Threads :
        /\ pc[t] \in {"put_lock", "put_body"} => arg[t] \in Item
        /\ pc[t] \in {"rm_try", "rm_lock", "rm_body"} => arg[t] \in Uids
    /\ issued \in 0..MaxRequests
    /\ quits \in 0..MaxQuits
    /\ got \in Item \cup {Nothing}

\* t is between mutex.acquire() and mutex.release().
InMutex(t) == pc[t] \in {"put_body", "put_signal", "get_body", "rm_body",
                         "take_signal", "unlock"}

\* t has acquired esema and has not yet taken out what it came for.
Reserved(t) == pc[t] \in {"get_lock", "get_body", "rm_lock", "rm_body"}

\* esema is t's: until it releases it, or leaves it acquired for an empty list.
HoldsEsema(t) == Reserved(t) \/ pc[t] = "take_signal"

\* t has put the first item in and is about to release esema for it.
AboutToWake(t) == pc[t] = "put_signal" /\ flag[t]

(***************************************************************************)
(* At most one thread is inside the mutex, which is acquired exactly then; *)
(* at most one thread holds esema.                                         *)
(***************************************************************************)
MutualExclusion ==
    /\ \A s, t \in Threads : InMutex(s) /\ InMutex(t) => s = t
    /\ mutex <=> \E t \in Threads : InMutex(t)
    /\ \A s, t \in Threads : HoldsEsema(s) /\ HoldsEsema(t) => s = t

(***************************************************************************)
(* get never finds the list empty behind the semaphore it waited for       *)
(* (`item = self.queue[0]` would raise IndexError), nor does remove_uid.   *)
(***************************************************************************)
TakerFindsItem == \A t \in Threads : Reserved(t) => queue # <<>>

(***************************************************************************)
(* esema.release() is only ever called on an acquired lock, by the thread  *)
(* entitled to it: releasing a free Python lock raises thread.error, and   *)
(* a second release would let two takers in.                               *)
(***************************************************************************)
ReleaseIsLegal ==
    \A t \in Threads :
        pc[t] \in {"put_signal", "take_signal"} /\ flag[t] => esema

(***************************************************************************)
(* No lost wakeup: while there are items, either esema is free, so that    *)
(* get can go on, or a thread inside an operation is going to release it.  *)
(* And esema is never free over an empty list.                             *)
(***************************************************************************)
NoLostWakeup ==
    /\ queue # <<>> => \/ ~esema
                       \/ \E t \in Threads : HoldsEsema(t) \/ AboutToWake(t)
    /\ ~esema => queue # <<>>

(***************************************************************************)
(* The inductive invariant behind them.                                    *)
(***************************************************************************)
EsemaProtocol ==
    /\ ~esema => \A t \in Threads : ~HoldsEsema(t) /\ ~AboutToWake(t)
    /\ \A s, t \in Threads : AboutToWake(s) => ~HoldsEsema(t)
    /\ \A t \in Threads : AboutToWake(t) => queue # <<>>
    /\ \A t \in Threads : pc[t] = "take_signal" => (flag[t] <=> queue # <<>>)

IInv ==
    /\ TypeOK
    /\ MutualExclusion
    /\ TakerFindsItem
    /\ NoLostWakeup
    /\ EsemaProtocol

(***************************************************************************)
(* A reservation is what the abstract queue calls the taker.               *)
(***************************************************************************)
Taker == IF \E t \in Threads : Reserved(t)
         THEN CHOOSE t \in Threads : Reserved(t)
         ELSE NoThread

Abs == INSTANCE RequestQueueAbs WITH taker <- Taker

\* Every operation takes effect at one instant, as the abstract queue says.
Refines == Abs!AbsSpec

(***************************************************************************)
(* Liveness: a request in the queue does not stay there for ever.          *)
(***************************************************************************)
Queued(n) == \E i \in DOMAIN queue : queue[i] # Quit /\ queue[i].num = n
EveryRequestLeaves == \A n \in 1..MaxRequests : Queued(n) ~> ~Queued(n)
=============================================================================
