------------------------- MODULE RequestQueue_proofs -------------------------
(***************************************************************************)
(* Proofs about RequestQueue: its invariants, and that it implements       *)
(* RequestQueueAbs, for every set of threads and every bound.              *)
(***************************************************************************)
EXTENDS RequestQueue, Subsequences_proofs

-----------------------------------------------------------------------------
(* Type correctness. *)

(***************************************************************************)
(* Every step of a thread keeps the types: what a call puts in is an item, *)
(* what it takes out leaves a list of items.  (Head and Tail are only      *)
(* defined on a non-empty list, hence TakerFindsItem.)                     *)
(***************************************************************************)
LEMMA TypeStep == TypeOK /\ TakerFindsItem /\ [Next]_vars => TypeOK'
<1>. SUFFICES ASSUME TypeOK, TakerFindsItem, [Next]_vars PROVE TypeOK'
  OBVIOUS
<1>. USE MaxRequestsAssumption, MaxQuitsAssumption
<1>a. Quit \in Item /\ \A c \in Callers : c \in Threads
  BY DEF Item, Threads
<1>1. ASSUME NEW c \in Callers, NEW u \in Uids, Put(c, u)
      PROVE  TypeOK'
  <2>1. [uid |-> u, num |-> issued + 1] \in Item
    BY <1>1 DEF TypeOK, Put, Item, Request
  <2>. QED
    BY <1>1, <2>1, <1>a DEF TypeOK, Put, Goto, Steps
<1>2. ASSUME NEW c \in Callers, NEW u \in Uids, RemoveUid(c, u)
      PROVE  TypeOK'
  BY <1>2, <1>a DEF TypeOK, RemoveUid, Goto, Steps
<1>3. ASSUME NEW c \in Callers, Prepend(c)
      PROVE  TypeOK'
  BY <1>3, <1>a DEF TypeOK, Prepend, Goto, Steps
<1>4. ASSUME NEW c \in Callers, PutBody(c)
      PROVE  TypeOK'
  <2>1. queue' \in Seq(Item)
    BY <1>4, <1>a DEF TypeOK, PutBody
  <2>. QED
    BY <1>4, <2>1, <1>a DEF TypeOK, PutBody, Goto, Steps
<1>5. ASSUME NEW c \in Callers, RemoveBody(c)
      PROVE  TypeOK'
  <2>1. queue' \in Seq(Item)
    BY <1>5, PickedType DEF TypeOK, RemoveBody, WithoutUid, Kept
  <2>. QED
    BY <1>5, <2>1, <1>a DEF TypeOK, RemoveBody, Goto, Steps
<1>6. ASSUME NEW c \in Callers, RemoveTry(c) \/ RemoveGivesUp(c)
      PROVE  TypeOK'
  BY <1>6, <1>a DEF TypeOK, RemoveTry, RemoveGivesUp, Return, Goto, Steps
<1>7. ASSUME NEW w \in Workers, GetWait(w)
      PROVE  TypeOK'
  BY <1>7 DEF TypeOK, GetWait, Goto, Steps, Threads
<1>8. ASSUME NEW w \in Workers, GetBody(w)
      PROVE  TypeOK'
  <2>1. queue # <<>>
    BY <1>8 DEF GetBody, TakerFindsItem, Reserved, Threads
  <2>2. Head(queue) \in Item /\ queue' \in Seq(Item)
    BY <1>8, <2>1 DEF TypeOK, GetBody
  <2>. QED
    BY <1>8, <2>2 DEF TypeOK, GetBody, Goto, Steps, Threads
<1>9. ASSUME NEW t \in Threads, NEW from \in Steps, NEW to \in Steps,
             AcquireMutex(t, from, to),
             <<from, to>> \in {<<"put_lock", "put_body">>,
                              <<"get_lock", "get_body">>,
                              <<"rm_lock", "rm_body">>}
      PROVE  TypeOK'
  BY <1>9 DEF TypeOK, AcquireMutex, Goto, Steps
<1>10. ASSUME NEW t \in Threads, Signal(t) \/ ReleaseMutex(t)
       PROVE  TypeOK'
  BY <1>10, <1>a DEF TypeOK, Signal, ReleaseMutex, Return, Goto, Steps
<1>11. ASSUME UNCHANGED vars
       PROVE  TypeOK'
  BY <1>11 DEF TypeOK, vars
<1>12. ASSUME NEW c \in Callers, PutLock(c) \/ RemoveLock(c)
       PROVE  TypeOK'
  BY <1>9, <1>12, <1>a DEF PutLock, RemoveLock, Steps
<1>13. ASSUME NEW w \in Workers, GetLock(w)
       PROVE  TypeOK'
  BY <1>9, <1>13 DEF GetLock, Steps, Threads
<1>. QED
  BY <1>1, <1>2, <1>3, <1>4, <1>5, <1>6, <1>7, <1>8, <1>10, <1>11, <1>12, <1>13
     DEF Next, CallerStep, WorkerStep, Threads

-----------------------------------------------------------------------------
(* The lock protocol. *)

(***************************************************************************)
(* IInv is inductive: no step of any thread, put, prepend, get or          *)
(* remove_uid, breaks the protocol of mutex and esema.                     *)
(***************************************************************************)
LEMMA ProtocolStep == IInv /\ [Next]_vars => IInv'
<1>. SUFFICES ASSUME IInv, [Next]_vars PROVE IInv'
  OBVIOUS
<1>. DEFINE Protocol == /\ MutualExclusion
                        /\ TakerFindsItem
                        /\ NoLostWakeup
                        /\ EsemaProtocol
<1>a. TypeOK /\ Protocol
  BY DEF IInv
<1>b. TypeOK'
  BY TypeStep DEF IInv
<1>c. pc \in [Threads -> Steps] /\ flag \in [Threads -> BOOLEAN]
  BY <1>a DEF TypeOK
<1>d. Callers \subseteq Threads /\ Workers \subseteq Threads
  BY DEF Threads
<1>. USE DEF MutualExclusion, TakerFindsItem, NoLostWakeup, EsemaProtocol,
             InMutex, Reserved, HoldsEsema, AboutToWake, Goto
<1>1. ASSUME NEW c \in Callers, NEW u \in Uids, Put(c, u) \/ RemoveUid(c, u)
      PROVE  Protocol'
  BY <1>1, <1>a, <1>c, <1>d DEF Put, RemoveUid
<1>2. ASSUME NEW c \in Callers, Prepend(c)
      PROVE  Protocol'
  BY <1>2, <1>a, <1>c, <1>d DEF Prepend
<1>3. ASSUME NEW c \in Callers, PutLock(c) \/ RemoveLock(c)
      PROVE  Protocol'
  BY <1>3, <1>a, <1>c, <1>d DEF PutLock, RemoveLock, AcquireMutex
<1>4. ASSUME NEW w \in Workers, GetLock(w)
      PROVE  Protocol'
  BY <1>4, <1>a, <1>c, <1>d DEF GetLock, AcquireMutex
<1>5. ASSUME NEW c \in Callers, PutBody(c)
      PROVE  Protocol'
  <2>1. queue' # <<>>
    BY <1>5, <1>a, <1>d DEF PutBody, TypeOK
  <2>. QED
    BY <1>5, <2>1, <1>a, <1>c, <1>d DEF PutBody
<1>6. ASSUME NEW c \in Callers, RemoveTry(c) \/ RemoveGivesUp(c)
      PROVE  Protocol'
  BY <1>6, <1>a, <1>c, <1>d DEF RemoveTry, RemoveGivesUp, Return
<1>7. ASSUME NEW w \in Workers, GetWait(w)
      PROVE  Protocol'
  BY <1>7, <1>a, <1>c, <1>d DEF GetWait
<1>8. ASSUME NEW c \in Callers, RemoveBody(c)
      PROVE  Protocol'
  BY <1>8, <1>a, <1>c, <1>d DEF RemoveBody
<1>9. ASSUME NEW w \in Workers, GetBody(w)
      PROVE  Protocol'
  BY <1>9, <1>a, <1>c, <1>d DEF GetBody
<1>10. ASSUME NEW t \in Threads, Signal(t)
       PROVE  Protocol'
  BY <1>10, <1>a, <1>c DEF Signal
<1>11. ASSUME NEW t \in Threads, ReleaseMutex(t)
       PROVE  Protocol'
  BY <1>11, <1>a, <1>c DEF ReleaseMutex, Return
<1>12. ASSUME UNCHANGED vars
       PROVE  Protocol'
  BY <1>12, <1>a DEF vars
<1>13. Protocol'
  <2>. HIDE DEF Protocol
  <2>. QED
    BY <1>1, <1>2, <1>3, <1>4, <1>5, <1>6, <1>7, <1>8, <1>9, <1>10, <1>11, <1>12
       DEF Next, CallerStep, WorkerStep, Threads
<1>. QED
  BY <1>b, <1>13 DEF IInv

(***************************************************************************)
(* The queue starts empty, with esema acquired for nobody.                 *)
(***************************************************************************)
LEMMA ProtocolInit == Init => IInv
<1>. SUFFICES ASSUME Init PROVE IInv
  OBVIOUS
<1>1. TypeOK
  <2>1. <<>> \in Seq(Item) /\ Quit \in Item
    BY DEF Item
  <2>2. 0 \in 0..MaxRequests /\ 0 \in 0..MaxQuits
    BY MaxRequestsAssumption, MaxQuitsAssumption
  <2>. QED
    BY <2>1, <2>2 DEF Init, TypeOK, Steps
<1>. QED
  BY <1>1 DEF Init, IInv, MutualExclusion, TakerFindsItem, NoLostWakeup,
     EsemaProtocol, InMutex, Reserved, HoldsEsema, AboutToWake

(***************************************************************************)
(* The inductive invariant holds in every reachable state.                 *)
(***************************************************************************)
LEMMA IInvCorrect == Spec => []IInv
BY ProtocolInit, ProtocolStep, PTL DEF Spec

(***************************************************************************)
(* Type correctness of the queue and its locks.                            *)
(***************************************************************************)
THEOREM TypeCorrect == Spec => []TypeOK
<1>1. IInv => TypeOK
  BY DEF IInv
<1>. QED
  BY <1>1, IInvCorrect, PTL

(***************************************************************************)
(* mutex and esema each exclude every other thread.                        *)
(***************************************************************************)
THEOREM MutexCorrect == Spec => []MutualExclusion
<1>1. IInv => MutualExclusion
  BY DEF IInv
<1>. QED
  BY <1>1, IInvCorrect, PTL

(***************************************************************************)
(* get and remove_uid always find something behind the semaphore.          *)
(***************************************************************************)
THEOREM NeverTakesFromEmpty == Spec => []TakerFindsItem
<1>1. IInv => TakerFindsItem
  BY DEF IInv
<1>. QED
  BY <1>1, IInvCorrect, PTL

(***************************************************************************)
(* esema is only ever released when it is acquired.                        *)
(***************************************************************************)
THEOREM ReleaseCorrect == Spec => []ReleaseIsLegal
<1>1. IInv => ReleaseIsLegal
  BY DEF IInv, TypeOK, EsemaProtocol, ReleaseIsLegal, HoldsEsema, AboutToWake
<1>. QED
  BY <1>1, IInvCorrect, PTL

(***************************************************************************)
(* A waiting get is never left asleep over a list that has items.          *)
(***************************************************************************)
THEOREM WakeupCorrect == Spec => []NoLostWakeup
<1>1. IInv => NoLostWakeup
  BY DEF IInv
<1>. QED
  BY <1>1, IInvCorrect, PTL

-----------------------------------------------------------------------------
(* The detailed queue implements the abstract one. *)

TakerIsReserver ==
    /\ \A t \in Threads : Reserved(t) => Taker = t
    /\ (\A t \in Threads : ~Reserved(t)) => Taker = NoThread

(***************************************************************************)
(* The taker is the one thread that has reserved, if there is one.         *)
(***************************************************************************)
LEMMA TakerIs ==
    MutualExclusion => TakerIsReserver
<1>1. ASSUME MutualExclusion, NEW t \in Threads, Reserved(t)
      PROVE  Taker = t
  <2>1. \A s \in Threads : Reserved(s) => s = t
    BY <1>1 DEF MutualExclusion, HoldsEsema
  <2>. QED
    BY <1>1, <2>1 DEF Taker
<1>. QED
  BY <1>1 DEF Taker, TakerIsReserver

(***************************************************************************)
(* Every operation of RequestQueue is atomic, as seen by its users: a step *)
(* that changes the list or hands out an item is the abstract operation,   *)
(* acquiring esema is the abstract reservation, and every other step       *)
(* changes nothing the abstract queue can see.                             *)
(***************************************************************************)
THEOREM Refinement == Spec => Refines
<1>1. Init => Abs!AbsInit
  BY DEF Init, Abs!AbsInit, Taker, Reserved
<1>2. IInv /\ IInv' /\ [Next]_vars => [Abs!AbsNext]_(Abs!absVars)
  <2>. SUFFICES ASSUME IInv, IInv', [Next]_vars
                PROVE  [Abs!AbsNext]_(Abs!absVars)
    OBVIOUS
  <2>a. MutualExclusion /\ MutualExclusion' /\ pc \in [Threads -> Steps]
    BY DEF IInv, TypeOK
  <2>b. /\ \A t \in Threads : Reserved(t) => Taker = t
        /\ (\A t \in Threads : ~Reserved(t)) => Taker = NoThread
    BY <2>a, TakerIs DEF TakerIsReserver
  <2>c. /\ \A t \in Threads : Reserved(t)' => Taker' = t
        /\ (\A t \in Threads : ~Reserved(t)') => Taker' = NoThread
    <3>1. TakerIsReserver'
      BY <2>a, TakerIs, PTL
    <3>. QED
      BY <3>1 DEF TakerIsReserver
  <2>d. Callers \subseteq Threads /\ Workers \subseteq Threads
    BY DEF Threads
  <2>e. ASSUME \A t \in Threads : Reserved(t)' <=> Reserved(t)
        PROVE  Taker' = Taker
    BY <2>b, <2>c, <2>e
  <2>1. ASSUME NEW c \in Callers, NEW u \in Uids, Put(c, u) \/ RemoveUid(c, u)
        PROVE  UNCHANGED Abs!absVars
    BY <2>1, <2>a, <2>d, <2>e DEF Put, RemoveUid, Goto, Reserved, Abs!absVars
  <2>2. ASSUME NEW c \in Callers, Prepend(c)
        PROVE  UNCHANGED Abs!absVars
    BY <2>2, <2>a, <2>d, <2>e DEF Prepend, Goto, Reserved, Abs!absVars
  <2>3. ASSUME NEW c \in Callers, PutLock(c) \/ RemoveLock(c)
        PROVE  UNCHANGED Abs!absVars
    BY <2>3, <2>a, <2>d, <2>e
       DEF PutLock, RemoveLock, AcquireMutex, Goto, Reserved, Abs!absVars
  <2>4. ASSUME NEW w \in Workers, GetLock(w)
        PROVE  UNCHANGED Abs!absVars
    BY <2>4, <2>a, <2>d, <2>e DEF GetLock, AcquireMutex, Goto, Reserved, Abs!absVars
  <2>5. ASSUME NEW t \in Threads, Signal(t) \/ ReleaseMutex(t)
        PROVE  UNCHANGED Abs!absVars
    BY <2>5, <2>a, <2>e DEF Signal, ReleaseMutex, Return, Goto, Reserved, Abs!absVars
  <2>6. ASSUME NEW c \in Callers, RemoveGivesUp(c)
        PROVE  UNCHANGED Abs!absVars
    BY <2>6, <2>a, <2>d, <2>e DEF RemoveGivesUp, Return, Goto, Reserved, Abs!absVars
  <2>7. ASSUME NEW c \in Callers, PutBody(c)
        PROVE  Abs!AbsNext
    <3>1. Taker' = Taker
      BY <2>7, <2>a, <2>d, <2>e DEF PutBody, Goto, Reserved
    <3>2. CASE arg[c] = Quit
      BY <2>7, <3>1, <3>2 DEF PutBody, Abs!AbsPrepend, Abs!AbsNext
    <3>3. CASE arg[c] # Quit
      <4>1. arg[c] \in Request
        BY <2>7, <2>d, <3>3 DEF PutBody, IInv, TypeOK, Item
      <4>2. Abs!AbsPut(arg[c])
        BY <2>7, <3>1, <3>3 DEF PutBody, Abs!AbsPut
      <4>. QED
        BY <4>1, <4>2 DEF Abs!AbsNext, Abs!Request, Request
    <3>. QED
      BY <3>2, <3>3
  <2>8. ASSUME NEW c \in Callers, RemoveTry(c)
        PROVE  Abs!AbsReserve(c)
    <3>1. queue # <<>> /\ Taker = NoThread
      BY <2>8, <2>b DEF RemoveTry, IInv, NoLostWakeup, EsemaProtocol, HoldsEsema
    <3>2. Taker' = c
      BY <2>8, <2>a, <2>c, <2>d DEF RemoveTry, Goto, Reserved
    <3>. QED
      BY <2>8, <3>1, <3>2 DEF RemoveTry, Abs!AbsReserve
  <2>9. ASSUME NEW w \in Workers, GetWait(w)
        PROVE  Abs!AbsReserve(w)
    <3>1. queue # <<>> /\ Taker = NoThread
      BY <2>9, <2>b DEF GetWait, IInv, NoLostWakeup, EsemaProtocol, HoldsEsema
    <3>2. Taker' = w
      BY <2>9, <2>a, <2>c, <2>d DEF GetWait, Goto, Reserved
    <3>. QED
      BY <2>9, <3>1, <3>2 DEF GetWait, Abs!AbsReserve
  <2>10. ASSUME NEW t \in Threads, Reserved(t), Goto(t, "take_signal")
         PROVE  /\ Taker = t
                /\ queue # <<>>
                /\ Taker' = NoThread
    <3>1. \A s \in Threads : s # t => ~Reserved(s)
      BY <2>10, <2>a DEF MutualExclusion, HoldsEsema
    <3>2. \A s \in Threads : ~Reserved(s)'
      BY <2>10, <3>1, <2>a DEF Goto, Reserved
    <3>. QED
      BY <2>10, <3>2, <2>b, <2>c DEF IInv, TakerFindsItem
  <2>11. ASSUME NEW c \in Callers, RemoveBody(c)
         PROVE  Abs!AbsNext
    <3>1. Reserved(c) /\ Goto(c, "take_signal") /\ c \in Threads /\ arg[c] \in Uids
      BY <2>11, <2>d DEF RemoveBody, Reserved, IInv, TypeOK
    <3>2. Abs!WithoutUid(queue, arg[c]) = WithoutUid(queue, arg[c])
      BY DEF Abs!WithoutUid, WithoutUid, Abs!Kept, Kept, Abs!Picked, Picked,
             Abs!Rank, Rank, Abs!Cardinality, Cardinality, Abs!IsFiniteSet, IsFiniteSet
    <3>3. Abs!AbsRemoveUid(c, arg[c])
      BY <2>10, <2>11, <3>1, <3>2 DEF RemoveBody, Abs!AbsRemoveUid
    <3>. QED
      BY <3>1, <3>3 DEF Abs!AbsNext
  <2>12. ASSUME NEW w \in Workers, GetBody(w)
         PROVE  Abs!AbsNext
    <3>1. Reserved(w) /\ Goto(w, "take_signal") /\ w \in Threads
      BY <2>12, <2>d DEF GetBody, Reserved
    <3>2. Abs!AbsGet(w)
      BY <2>10, <2>12, <3>1 DEF GetBody, Abs!AbsGet
    <3>. QED
      BY <3>1, <3>2 DEF Abs!AbsNext
  <2>13. ASSUME UNCHANGED vars
         PROVE  UNCHANGED Abs!absVars
    BY <2>13, <2>e DEF vars, Reserved, Abs!absVars
  <2>. QED
    BY <2>1, <2>2, <2>3, <2>4, <2>5, <2>6, <2>7, <2>8, <2>9, <2>11, <2>12, <2>13, <2>d
       DEF Next, CallerStep, WorkerStep, Abs!AbsNext
<1>. QED
  BY <1>1, <1>2, IInvCorrect, PTL DEF Spec, Refines, Abs!AbsSpec
=============================================================================
