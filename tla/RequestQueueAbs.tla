--------------------------- MODULE RequestQueueAbs ---------------------------
(***************************************************************************)
(* What RequestQueue promises the lint service, without its two locks: a   *)
(* list on which every operation takes effect at one instant, and at most  *)
(* one thread at a time, the taker, that has reserved the right to remove  *)
(* items.  An item may be added while a taker is about to remove one; a    *)
(* thread becomes the taker only when there is an item to take, and what   *)
(* it finds when it acts is still a non-empty list.                        *)
(***************************************************************************)
EXTENDS LintItems

CONSTANTS Threads, NoThread

VARIABLES
    queue,      \* the pending items, the next one to serve first
    taker,      \* the thread about to remove items, or NoThread
    got         \* the item that was handed out last

absVars == <<queue, taker, got>>

AbsInit ==
    /\ queue = <<>>
    /\ taker = NoThread
    /\ got = Nothing

AbsPut(request) ==
    /\ queue' = Append(queue, request)
    /\ UNCHANGED <<taker, got>>

AbsPrepend ==
    /\ queue' = <<Quit>> \o queue
    /\ UNCHANGED <<taker, got>>

AbsReserve(t) ==
    /\ taker = NoThread
    /\ queue # <<>>
    /\ taker' = t
    /\ UNCHANGED <<queue, got>>

AbsGet(t) ==
    /\ taker = t
    /\ queue # <<>>
    /\ got' = Head(queue)
    /\ queue' = Tail(queue)
    /\ taker' = NoThread

AbsRemoveUid(t, u) ==
    /\ taker = t
    /\ queue # <<>>
    /\ queue' = WithoutUid(queue, u)
    /\ taker' = NoThread
    /\ UNCHANGED got

AbsNext ==
    \/ \E request \in Request : AbsPut(request)
    \/ AbsPrepend
    \/ \E t \in Threads :
        \/ AbsReserve(t)
        \/ AbsGet(t)
        \/ \E u \in Uids : AbsRemoveUid(t, u)

AbsSpec == AbsInit /\ [][AbsNext]_absVars
=============================================================================
